------------------------------ MODULE EventBus ------------------------------
(* The event bus of the runtime (events.rs): a deque bounded by its length    *)
(* and by its bytes, and one subscriber that follows docs/05 section 6: it    *)
(* polls from its cursor, and on a gap takes a snapshot and resumes from the  *)
(* advised sequence number.  An event is its number and its size; instance    *)
(* id, session, kind and data are left out.  The subscriber is external.      *)
EXTENDS Naturals, SequencesExt

CONSTANTS MaxSeq,          \* bound on the number of events
          Size,            \* the sizes an event may have
          MaxEntries,      \* EventLimits
          MaxTotalBytes

ASSUME EventBusAssumption ==
  /\ MaxSeq \in Nat
  /\ Size \subseteq Nat \ {0}
  /\ MaxEntries \in Nat \ {0}
  /\ MaxTotalBytes \in Nat \ {0}

VARIABLES buffer, total_bytes, next_seq,
          cursor, known, skipped   \* of the subscriber, see EventLog

busVars == <<buffer, total_bytes, next_seq, cursor, known, skipped>>

-----------------------------------------------------------------------------
Event == [sequence : 1..MaxSeq, bytes : Size]

Bytes(events) == FoldSeq(LAMBDA e, sum : e.bytes + sum, 0, events)

Sequences(events) == {events[i].sequence : i \in DOMAIN events}

WithinLimits(events) ==
  /\ Len(events) =< MaxEntries
  /\ Bytes(events) =< MaxTotalBytes

(* The oldest events go until both limits hold, all of them if need be.       *)
Kept(events, evicted) == SubSeq(events, evicted + 1, Len(events))

Evicts(evicted, events) ==
  /\ evicted = Len(events) \/ WithinLimits(Kept(events, evicted))
  /\ \A fewer \in 0..(evicted - 1) : ~WithinLimits(Kept(events, fewer))

LastSequence == IF buffer = <<>> THEN 0 ELSE Last(buffer).sequence

Oldest == IF buffer = <<>> THEN next_seq ELSE Head(buffer).sequence

-----------------------------------------------------------------------------
BusInit ==
  /\ buffer = <<>>
  /\ total_bytes = 0
  /\ next_seq = 1
  /\ cursor = 0
  /\ known = {}
  /\ skipped = {}

(* Mutant: the number is not taken when the event does not fit. *)
PublishReusingNumber(bytes) ==
  /\ next_seq =< MaxSeq
  /\ LET all == Append(buffer, [sequence |-> next_seq, bytes |-> bytes])
     IN  \E evicted \in 0..Len(all) :
           /\ Evicts(evicted, all)
           /\ buffer' = Kept(all, evicted)
           /\ total_bytes' = Bytes(buffer')
           /\ next_seq' = IF buffer' = <<>> THEN next_seq ELSE next_seq + 1
  /\ UNCHANGED <<cursor, known, skipped>>

Publish(bytes) ==
  /\ next_seq =< MaxSeq
  /\ next_seq' = next_seq + 1
  /\ LET all == Append(buffer, [sequence |-> next_seq, bytes |-> bytes])
     IN  \E evicted \in 0..Len(all) :
           /\ Evicts(evicted, all)
           /\ buffer' = Kept(all, evicted)
           /\ total_bytes' = total_bytes + bytes - (Bytes(all) - Bytes(buffer'))
  /\ UNCHANGED <<cursor, known, skipped>>

Gap == cursor > 0 /\ cursor < Oldest - 1

(* Mutant: the cursor moves only when it is positive. *)
SubscribeFromStartStays ==
  LET events == {seq \in Sequences(buffer) : seq > cursor}
  IN  /\ ~Gap
      /\ cursor' = IF cursor = 0 THEN 0 ELSE LastSequence
      /\ known' = IF cursor = 0 THEN known ELSE known \cup events
      /\ UNCHANGED <<buffer, total_bytes, next_seq, skipped>>

(* subscribe_after(cursor) and what the subscriber does with the answer.      *)
Subscribe ==
  LET events == {seq \in Sequences(buffer) : seq > cursor}
  IN  /\ ~Gap
      /\ cursor' = IF events = {} THEN cursor ELSE LastSequence
      /\ known' = known \cup events
      /\ skipped' = IF cursor = 0 THEN skipped \cup (1..(Oldest - 1)) ELSE skipped
      /\ UNCHANGED <<buffer, total_bytes, next_seq>>

SubscribeGap ==
  /\ Gap
  /\ cursor' = LastSequence
  /\ known' = 1..(next_seq - 1)
  /\ UNCHANGED <<buffer, total_bytes, next_seq, skipped>>

BusNext ==
  \/ \E bytes \in Size : Publish(bytes)
  \/ Subscribe
  \/ SubscribeGap

BusSpec == BusInit /\ [][BusNext]_busVars

(* The subscriber keeps polling. *)
FairSpec == BusSpec /\ WF_busVars(Subscribe) /\ WF_busVars(SubscribeGap)

-----------------------------------------------------------------------------
BusTypeOK ==
  /\ buffer \in Seq(Event)
  /\ total_bytes \in Nat
  /\ next_seq \in 1..(MaxSeq + 1)
  /\ cursor \in 0..MaxSeq
  /\ known \subseteq 1..MaxSeq
  /\ skipped \subseteq 1..MaxSeq

(* The deque is a gapless run of events that ends with the last one published *)
(* or is empty ...                                                            *)
Gapless ==
  \A i \in DOMAIN buffer : buffer[i].sequence = next_seq - Len(buffer) + i - 1

(* ... its byte counter is the size of what it holds, whatever was evicted,   *)
(* and both limits hold between calls.                                        *)
Window ==
  /\ BusTypeOK
  /\ Gapless
  /\ total_bytes = Bytes(buffer)
  /\ WithinLimits(buffer)

(* The bus keeps the promise of EventLog.                                     *)
Log == INSTANCE EventLog WITH published <- next_seq - 1, floor <- Oldest

ImplementsEventLog == Log!Spec

OnlyZeroSkips == Log!OnlyZeroSkips

(* A subscriber that keeps polling learns of every event: it is received,     *)
(* covered by a snapshot, or among those gone when it polled from 0.          *)
EveryEventReaches ==
  \A seq \in 1..MaxSeq : next_seq > seq ~> seq \in known \cup skipped

-----------------------------------------------------------------------------
(* What comments and documents say and the code does not do: README section 7 *)
(* tells why each of these does not hold.                                     *)

(* docs/05 and the header of events.rs: an evicted cursor is answered with a  *)
(* gap and never with a stream that pretends to be complete.                  *)
NoSilentLoss == 1..cursor \subseteq known
=============================================================================
