------------------------- MODULE QuickShareControl -------------------------
(***************************************************************************)
(* What two ends of an established Quick Share session tell each other     *)
(* besides files: heartbeats, the paired-key exchange, the disconnection   *)
(* frames and the acknowledgements of payloads.  The four share the frames *)
(* of ControlFrames and nothing else, so a behaviour follows one `topic'.  *)
(* The secure channel below keeps order and loses nothing until the link   *)
(* is cut; a message takes at most MaxDelay seconds.  End B may be another *)
(* implementation (`foreign'), which says what it likes.                   *)
(***************************************************************************)
EXTENDS ControlFrames, Sequences, FiniteSets

CONSTANTS Unset,
          Offers,      \* negotiated fields an end may meet: <<interval, timeout>>
          PayloadIds,  \* the ids both ends choose from
          MaxDelay,    \* how long a message is under way, in seconds
          MaxSaid      \* how often an end begins, leaves or speaks out of turn

ASSUME ControlAssumption ==
    /\ Unset \notin Nat \cup Status
    /\ {MaxMillis, MaxDelay, MaxSaid} \subseteq Nat
    /\ {INTERVAL, TIMEOUT} \subseteq 1..MaxMillis /\ INTERVAL < TIMEOUT

(* The ids a sender chooses are positive: encode_payload_ack refuses others. *)
ASSUME IdsAssumption == PayloadIds \subseteq Nat \ {0}

VARIABLES topic, foreign,
          link,      \* [to |-> the frames on their way to an end, with their age; cut]
          alive,     \* end -> whether its process runs
          tracker,   \* end -> KeepAliveTracker
          pairing,   \* end -> PairedKeyExchange
          leaving,   \* end -> what the caller did with DisconnectionFrame::decision
          ledger,    \* end -> PayloadAckTracker
          said       \* history: what each end has told the other

controlVars == <<topic, foreign, link, alive, tracker, pairing, leaving, ledger, said>>

End == {"A", "B"}
Other(p) == IF p = "A" THEN "B" ELSE "A"

Tracker == [interval : 1..MaxMillis, timeout : 1..MaxMillis, expired : BOOLEAN,
            sinceFirst : Nat \cup {Unset}, sinceSent : Nat \cup {Unset},
            sinceReceived : Nat \cup {Unset}]
Pairing == [allow : BOOLEAN, status : Status \cup {Unset}, next : Nat,
            state : {"Idle", "EncryptionSent", "EncryptionReceived", "ResultReceived", "Complete"}]
Leaving == [marked : BOOLEAN, notified : BOOLEAN, closed : BOOLEAN]
Entry == [direction : {"outgoing", "incoming"}, acked : BOOLEAN]
Ledger == UNION {[ids -> Entry] : ids \in SUBSET PayloadIds}
Topic == {"alive", "pairing", "leaving", "acks"}

ControlTypeOK ==
    /\ topic \in Topic /\ foreign \in BOOLEAN
    /\ DOMAIN link.to = End /\ link.cut \in BOOLEAN
    /\ alive \in [End -> BOOLEAN]
    /\ tracker \in [End -> Tracker]
    /\ pairing \in [End -> Pairing]
    /\ leaving \in [End -> Leaving]
    /\ ledger \in [End -> Ledger]

NewTracker(policy) ==
    [interval |-> policy.interval, timeout |-> policy.timeout, expired |-> FALSE,
     sinceFirst |-> Unset, sinceSent |-> Unset, sinceReceived |-> Unset]

NewPairing(allow) == [allow |-> allow, status |-> Unset, next |-> 1000, state |-> "Idle"]

(* The policies an end can have: those negotiation accepts. *)
Policies == {FromNegotiation(o[1], o[2]) : o \in Offers} \ {Refused}

ControlInit ==
    /\ topic \in Topic
    /\ foreign \in (IF topic = "pairing" THEN BOOLEAN ELSE {FALSE})
    /\ link = [to |-> [p \in End |-> <<>>], cut |-> FALSE]
    /\ alive = [p \in End |-> TRUE]
    /\ \E policy \in [End -> IF topic = "alive" THEN Policies
                             ELSE {FromNegotiation({}, {})}] :
          tracker = [p \in End |-> NewTracker(policy[p])]
    /\ \E allow \in [End -> IF topic = "pairing" THEN BOOLEAN ELSE {FALSE}] :
          pairing = [p \in End |-> NewPairing(allow[p])]
    /\ leaving = [p \in End |-> [marked |-> FALSE, notified |-> FALSE, closed |-> FALSE]]
    /\ ledger = [p \in End |-> <<>>]
    /\ said = [p \in End |-> <<>>]

----------------------------------------------------------------------------
(* The channel: p sends what it returns to its caller.  A cut link takes   *)
(* nothing more.                                                           *)

Queue(to, f) == Append(to, [frame |-> f, age |-> 0])

Sends(p, f) ==
    link' = IF link.cut THEN link ELSE [link EXCEPT !.to[Other(p)] = Queue(@, f)]

(* p takes the first frame on its way and answers with `answer', a sequence *)
(* of at most one frame.                                                    *)
TakesAndAnswers(p, answer) ==
    link' = [link EXCEPT !.to[p] = Tail(@),
                         !.to[Other(p)] = IF answer = <<>> \/ link.cut THEN @
                                          ELSE Queue(@, answer[1])]

Gone == [to |-> [p \in End |-> <<>>], cut |-> TRUE]

Arrives(p) == alive[p] /\ link.to[p] # <<>>
First(p) == link.to[p][1].frame

Says(p, what) == said' = [said EXCEPT ![p] = Append(@, what)]
MaySay(p) == alive[p] /\ Len(said[p]) < MaxSaid

----------------------------------------------------------------------------
(* Keep-alive *)

(* Ages stop growing where no guard tells more apart. *)
Older(age, most) == IF age = Unset THEN Unset ELSE IF age > most THEN age ELSE age + 1

Aged(p) == LET t == tracker[p]
           IN  [t EXCEPT !.sinceFirst = Older(@, t.timeout), !.sinceSent = Older(@, t.interval - 1),
                         !.sinceReceived = Older(@, t.timeout)]

Due(t) == ~t.expired /\ (t.sinceSent # Unset => t.sinceSent >= t.interval)

OnTick(t) ==
    IF Due(t) THEN [t EXCEPT !.sinceSent = 0, !.sinceFirst = IF @ = Unset THEN 0 ELSE @] ELSE t

(* Mutant: a heartbeat of our own puts off the end. *)
ReferenceSent(t) == t.sinceSent

(* Silence is measured from the last frame received, or from the first one *)
(* sent when none ever came.                                               *)
Reference(t) == IF t.sinceReceived # Unset THEN t.sinceReceived ELSE t.sinceFirst

Expired(t) ==
    [t EXCEPT !.expired = @ \/ (Reference(t) # Unset /\ Reference(t) > t.timeout)]

(* A second passes: every running end is polled, on_tick before expired.   *)
Second ==
    /\ topic = "alive"
    /\ \A p \in End : \A k \in DOMAIN link.to[p] : alive[p] => link.to[p][k].age < MaxDelay
    /\ tracker' = [p \in End |-> IF alive[p] THEN Expired(OnTick(Aged(p))) ELSE tracker[p]]
    /\ LET later(p) == [k \in DOMAIN link.to[p] |-> [link.to[p][k] EXCEPT !.age = @ + 1]]
           beat(p) == ~link.cut /\ alive[Other(p)] /\ Due(Aged(Other(p)))
       IN  link' = [link EXCEPT !.to = [p \in End |->
               IF ~alive[p] THEN <<>>
               ELSE IF beat(p) THEN Queue(later(p), EncodeKeepAlive(FALSE)) ELSE later(p)]]
    /\ UNCHANGED <<topic, foreign, alive, pairing, leaving, ledger, said>>

(* Mutant: an answer is not a sign of life. *)
OnKeepAliveUnacked(p) ==
    /\ Arrives(p)
    /\ DecodeKeepAlive(First(p)) # Refused
    /\ IF DecodeKeepAlive(First(p)).ack
       THEN TakesAndAnswers(p, <<>>) /\ UNCHANGED tracker
       ELSE /\ tracker' = [tracker EXCEPT ![p].sinceReceived = 0]
            /\ TakesAndAnswers(p, <<EncodeKeepAlive(TRUE)>>)
    /\ UNCHANGED <<topic, foreign, alive, pairing, leaving, ledger, said>>

(* A dead connection is not talked to any more, not even to answer.        *)
OnKeepAlive(p) ==
    /\ Arrives(p)
    /\ DecodeKeepAlive(First(p)) # Refused
    /\ IF tracker[p].expired
       THEN TakesAndAnswers(p, <<>>) /\ UNCHANGED tracker
       ELSE /\ tracker' = [tracker EXCEPT ![p].sinceReceived = 0]
            /\ TakesAndAnswers(p, IF DecodeKeepAlive(First(p)).ack THEN <<>>
                                  ELSE <<EncodeKeepAlive(TRUE)>>)
    /\ UNCHANGED <<topic, foreign, alive, pairing, leaving, ledger, said>>

Crash(p) ==
    /\ alive[p] /\ topic = "alive"
    /\ alive' = [alive EXCEPT ![p] = FALSE]
    /\ UNCHANGED <<topic, foreign, link, tracker, pairing, leaving, ledger, said>>

Cut ==
    /\ ~link.cut /\ topic \in {"alive", "leaving"}
    /\ link' = Gone
    /\ UNCHANGED <<topic, foreign, alive, tracker, pairing, leaving, ledger, said>>

----------------------------------------------------------------------------
(* Paired key *)

PairingDecision(x) ==
    IF x.status = "success" /\ x.allow THEN "SkipConfirmation" ELSE "RequireConfirmation"

(* begin works in every state and keeps what the peer said before.         *)
Begin(p) ==
    /\ topic = "pairing" /\ MaySay(p) /\ ~(foreign /\ p = "B")
    /\ pairing' = [pairing EXCEPT ![p].state = "EncryptionSent", ![p].next = @ + 1]
    /\ Sends(p, WrapInner(EncodeMaterial("material"), pairing[p].next))
    /\ Says(p, "material")
    /\ UNCHANGED <<topic, foreign, alive, tracker, leaving, ledger>>

(* Whoever sends material gets the result `unable', under the same payload *)
(* id: this repository stores no pairings.  Under the id 0 there is no     *)
(* result to send, but the state has advanced.                             *)
OnEncryption(p) ==
    \E u \in UnwrapBytes(First(p)) :
        /\ DecodeMaterial(u.inner) # Refused
        /\ pairing' = [pairing EXCEPT ![p].state =
                          IF @ = "EncryptionSent" THEN "EncryptionReceived" ELSE @]
        /\ \/ /\ u.id # 0
              /\ TakesAndAnswers(p, <<WrapInner(EncodeResult("unable"), u.id)>>)
              /\ Says(p, "unable")
           \/ u.id = 0 /\ TakesAndAnswers(p, <<>>) /\ UNCHANGED said

(* A result counts whenever it comes; the last one is what decides.        *)
OnResult(p) ==
    \E u \in UnwrapBytes(First(p)) :
        /\ DecodeMaterial(u.inner) = Refused
        /\ DecodeResult(u.inner) # Refused
        /\ pairing' = [pairing EXCEPT
               ![p].status = DecodeResult(u.inner).status,
               ![p].state = IF @ \in {"EncryptionSent", "EncryptionReceived"}
                            THEN "ResultReceived" ELSE "Complete"]
        /\ TakesAndAnswers(p, <<>>)
        /\ UNCHANGED said

OnNothing(p) ==
    /\ \A u \in UnwrapBytes(First(p)) :
          DecodeMaterial(u.inner) = Refused /\ DecodeResult(u.inner) = Refused
    /\ TakesAndAnswers(p, <<>>)
    /\ UNCHANGED <<pairing, said>>

OnBytesPayload(p) ==
    /\ topic = "pairing" /\ Arrives(p) /\ ~(foreign /\ p = "B")
    /\ OnEncryption(p) \/ OnResult(p) \/ OnNothing(p)
    /\ UNCHANGED <<topic, foreign, alive, tracker, leaving, ledger>>

(* Frames of the wrong layer or kind: an inner frame that was not wrapped, *)
(* an outer one that was, a result in a FILE payload, an unknown status,   *)
(* material under the payload id 0.                                        *)
Odd == {EncodeMaterial("material"),
        WrapInner(DataPayload(1, "file", TRUE, 0, EncodeKeepAlive(FALSE)), 7),
        WrapInner(EncodeKeepAlive(FALSE), 7),
        DataPayload(7, "file", FALSE, 0, EncodeResult("success")),
        DataPayload(0, "bytes", FALSE, 0, EncodeMaterial("theirs")),
        WrapInner(EncodeMaterial("oversized"), 7), WrapInner(EncodeResult("4"), 7)}

(* Another implementation: any result, asked for or not, and odd frames.   *)
ForeignListens ==
    /\ foreign /\ Arrives("B")
    /\ TakesAndAnswers("B", <<>>)
    /\ UNCHANGED <<topic, foreign, alive, tracker, pairing, leaving, ledger, said>>

ForeignSpeaks ==
    /\ foreign /\ MaySay("B")
    /\ \E f \in {WrapInner(EncodeResult(s), 7) : s \in Status} \cup Odd
                \cup {WrapInner(EncodeMaterial("theirs"), 7)} :
          Sends("B", f) /\ Says("B", f)
    /\ UNCHANGED <<topic, foreign, alive, tracker, pairing, leaving, ledger>>

----------------------------------------------------------------------------
(* Disconnection *)

(* An end asks to leave safely, or leaves in one of the two short forms.   *)
Leave(p) ==
    /\ topic = "leaving" /\ MaySay(p) /\ ~link.cut
    /\ \E request \in {"true", "false", "absent"} :
          /\ Sends(p, EncodeDisconnection(request, IF request = "absent" THEN "absent" ELSE "false"))
          /\ Says(p, request)
    /\ UNCHANGED <<topic, foreign, alive, tracker, pairing, leaving, ledger>>

OnDisconnection(p) ==
    /\ topic = "leaving" /\ Arrives(p)
    /\ LET body == DecodeDisconnection(First(p))
       IN  /\ body # Refused
           /\ \/ /\ Decision(body) = "close now"
                 /\ leaving' = [leaving EXCEPT ![p].closed = TRUE]
                 /\ link' = Gone
              \/ /\ Decision(body) = "marked and notified"
                 /\ leaving' = [leaving EXCEPT ![p].marked = TRUE, ![p].notified = TRUE]
                 /\ TakesAndAnswers(p, <<>>)
              \/ /\ Decision(body) = "marked and reply"
                 /\ leaving' = [leaving EXCEPT ![p].marked = TRUE]
                 /\ TakesAndAnswers(p, <<EncodeDisconnection("true", "true")>>)
    /\ UNCHANGED <<topic, foreign, alive, tracker, pairing, ledger, said>>

----------------------------------------------------------------------------
(* Acknowledgements *)

(* A payload of two chunks; registered before its first chunk leaves.      *)
SendPayload(p, id, kind) ==
    /\ topic = "acks" /\ MaySay(p)
    /\ \A k \in DOMAIN said[p] : said[p][k][1] # id
    /\ ledger' = [ledger EXCEPT ![p] =
          [i \in DOMAIN @ \cup {id} |-> IF i = id THEN [direction |-> "outgoing", acked |-> FALSE]
                                        ELSE @[i]]]
    /\ link' = [link EXCEPT !.to[Other(p)] =
          Queue(Queue(@, DataPayload(id, kind, FALSE, 0, kind)), DataPayload(id, kind, TRUE, 1, kind))]
    /\ Says(p, <<id, kind>>)
    /\ UNCHANGED <<topic, foreign, alive, tracker, pairing, leaving>>

(* register_incoming replaces what was known of an id.                     *)
OnChunk(p) ==
    /\ topic = "acks" /\ Arrives(p)
    /\ LET body == DecodePayload(First(p))
       IN  /\ body # Refused /\ ClassifyPayload(body) = "data"
           /\ \E h \in body.header, c \in body.chunk :
                 /\ ledger' = IF c.offset # 0 THEN ledger
                              ELSE [ledger EXCEPT ![p] =
                       [i \in DOMAIN @ \cup {h.id} |->
                           IF i = h.id THEN [direction |-> "incoming", acked |-> FALSE] ELSE @[i]]]
                 /\ TakesAndAnswers(p, IF ShouldSendPayloadAck(h.kind, c.last)
                                       THEN <<EncodePayloadAck(h.id)>> ELSE <<>>)
    /\ UNCHANGED <<topic, foreign, alive, tracker, pairing, leaving, said>>

Marks(p, id) == id \in DOMAIN ledger[p] /\ ledger[p][id].direction = "outgoing"

OnAck(p) ==
    /\ topic = "acks" /\ Arrives(p)
    /\ \E id \in DecodePayloadAck(First(p)) :
          ledger' = IF Marks(p, id) THEN [ledger EXCEPT ![p][id].acked = TRUE] ELSE ledger
    /\ TakesAndAnswers(p, <<>>)
    /\ UNCHANGED <<topic, foreign, alive, tracker, pairing, leaving, said>>

Receive(p) ==
    OnKeepAlive(p) \/ OnBytesPayload(p) \/ OnDisconnection(p) \/ OnChunk(p) \/ OnAck(p)

ControlNext ==
    \/ Second \/ Cut \/ ForeignSpeaks \/ ForeignListens
    \/ \E p \in End : Receive(p) \/ Crash(p) \/ Begin(p) \/ Leave(p)
    \/ \E p \in End, id \in PayloadIds, kind \in {"bytes", "file"} : SendPayload(p, id, kind)

(* The callers poll once a second and read what has arrived.               *)
ControlSpec ==
    /\ ControlInit /\ [][ControlNext]_controlVars
    /\ WF_controlVars(Second) /\ WF_controlVars(ForeignListens)
    /\ \A p \in End : WF_controlVars(Receive(p))

----------------------------------------------------------------------------
(* Properties *)

(* A round trip fits in what is left of the timeout after an interval.     *)
Patient(p) == tracker[p].interval + 2 * MaxDelay <= tracker[p].timeout

(* An end whose policy leaves room for a round trip declares the           *)
(* connection dead only when the link was cut or the other end crashed or  *)
(* gave up, before it or at the same reading of the clock: the silence     *)
(* KeepAliveTracker::expired measures is real, also when the other end has *)
(* a slower rhythm and only answers.                                       *)
NoFalseDeath ==
    /\ ControlTypeOK
    /\ \A p \in End : tracker[p].expired /\ Patient(p) =>
           link.cut \/ ~alive[Other(p)] \/ tracker[Other(p)].expired

(* When the link is cut, or an end crashes or gives up, the other end      *)
(* notices: its own heartbeats do not put off the end.                     *)
SilenceIsNoticed ==
    \A p \in End :
        (topic = "alive" /\ (link.cut \/ ~alive[Other(p)] \/ tracker[Other(p)].expired))
            ~> (tracker[p].expired \/ ~alive[p])

(* The digits are skipped only when this end allowed it and a peer of      *)
(* another make reported success in a frame of the right layer, kind and   *)
(* value: never between two ends of this repository, whatever odd frames   *)
(* come.                                                                   *)
PairingIsSound ==
    \A p \in End : PairingDecision(pairing[p]) = "SkipConfirmation" =>
        /\ pairing[p].allow /\ foreign /\ p = "A"
        /\ \E k \in DOMAIN said["B"] : said["B"][k] = WrapInner(EncodeResult("success"), 7)

UnderWay(p, id) ==
    \E k \in DOMAIN link.to[p] :
        LET body == DecodePayload(link.to[p][k].frame)
        IN  body.packet = "data" /\ \E h \in body.header : h.id = id

Acknowledged(p, id) ==
    \/ id \in DOMAIN ledger[p] /\ ledger[p][id].acked
    \/ \E k \in DOMAIN link.to[p] : id \in DecodePayloadAck(link.to[p][k].frame)

(* A payload whose acknowledgement an end has marked, or which is on its   *)
(* way to that end, is a FILE which that end registered and sent, the      *)
(* other end has registered it and none of its chunks is still under way:  *)
(* should_send_payload_ack, on_ack and the registrations together, with    *)
(* both ends using the same ids for payloads of both kinds.                *)
AckedWasDelivered ==
    topic = "acks" => \A p \in End : \A id \in PayloadIds : Acknowledged(p, id) =>
        /\ \E k \in DOMAIN said[p] : said[p][k] = <<id, "file">>
        /\ id \in DOMAIN ledger[Other(p)]
        /\ ~UnderWay(Other(p), id)

Quiet == \A p \in End : link.to[p] = <<>>

Uses(p, id) == \E k \in DOMAIN said[p] : said[p][k][1] = id

Settled(p) ==
    CASE topic = "pairing" -> foreign \/ pairing[p].state # "EncryptionSent"
      [] topic = "leaving" ->
            (\E k \in DOMAIN said[p] : said[p][k] = "true")
                => link.cut \/ (leaving[p].notified /\ leaving[Other(p)].marked)
      [] topic = "acks" ->
            \A k \in DOMAIN said[p] : said[p][k][2] = "file" =>
                \/ Marks(p, said[p][k][1]) /\ ledger[p][said[p][k][1]].acked
                \/ Uses(Other(p), said[p][k][1])
      [] OTHER -> TRUE

(* Every exchange comes to its end and the channel falls silent: material  *)
(* is answered, a safe request marks both ends or the connection is gone,  *)
(* a delivered FILE is acknowledged unless the other end sends a payload   *)
(* under the same id, which takes the entry's place.                       *)
ExchangesSettle == (topic # "alive") => <>[](Quiet /\ \A p \in End : Settled(p))
=============================================================================
