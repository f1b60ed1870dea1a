------------------------------ MODULE EventLog ------------------------------
(* What the event stream promises a subscriber (events.rs, docs/05 section    *)
(* 6), without saying how the window of retained events is kept: events are   *)
(* numbered, an unknown prefix of them is gone, and a subscriber that asks    *)
(* for what follows its cursor gets either everything after it or a gap with  *)
(* advice to take a snapshot.  A cursor of 0 is the exception: it gets        *)
(* whatever is left and no gap.                                               *)
EXTENDS Naturals

VARIABLES published,  \* events published: their numbers are 1..published
          floor,      \* the oldest retained event, published + 1 when none is
          cursor,     \* the subscriber's cursor
          known,      \* events it received or that a snapshot covered
          skipped     \* events it passed over in a poll from cursor 0

vars == <<published, floor, cursor, known, skipped>>

TypeOK ==
  /\ published \in Nat
  /\ floor \in 1..(published + 1)
  /\ cursor \in 0..published
  /\ known \subseteq 1..published
  /\ skipped \subseteq 1..published

Init ==
  /\ published = 0
  /\ floor = 1
  /\ cursor = 0
  /\ known = {}
  /\ skipped = {}

Publish ==
  /\ published' = published + 1
  /\ floor' \in floor..(published + 2)
  /\ UNCHANGED <<cursor, known, skipped>>

(* The events after the cursor that are retained.  A cursor of 0 passes over  *)
(* the ones that are gone.                                                    *)
PollEvents ==
  /\ cursor = 0 \/ cursor >= floor - 1
  /\ LET events == {seq \in floor..published : seq > cursor}
     IN  /\ cursor' = IF events = {} THEN cursor ELSE published
         /\ known' = known \cup events
         /\ skipped' = IF cursor = 0 THEN skipped \cup (1..(floor - 1)) ELSE skipped
  /\ UNCHANGED <<published, floor>>

(* The subscriber takes a snapshot and resumes from the advised number, which *)
(* is 0 when no event at all is retained.                                     *)
PollGap ==
  /\ cursor > 0
  /\ cursor < floor - 1
  /\ cursor' = IF floor > published THEN 0 ELSE published
  /\ known' = 1..published
  /\ UNCHANGED <<published, floor, skipped>>

Next == Publish \/ PollEvents \/ PollGap

Spec == Init /\ [][Next]_vars

(* A subscriber misses nothing behind its back: an event up to its cursor was *)
(* received, was covered by a snapshot, or was gone when it polled from 0.    *)
OnlyZeroSkips == 1..cursor \subseteq known \cup skipped
=============================================================================
