---------------------------- MODULE AirPlayProofs ----------------------------
(* An AirPlay receiver, for any limits, requests, frames, rates and devices:  *)
(* who holds a port, what becomes of every picture offered to the mirror      *)
(* track, how long audio lasts and what is accepted of a request for formats. *)
EXTENDS AirPlay, InductionLemmas

LEMMA LimitsAreNumbers ==
  /\ MaxSessions \in Nat /\ MaxConnections \in Nat /\ MaxPaired \in Nat
  /\ MaxFrames \in Nat /\ Budget \in Nat
BY AirPlayAssumption

USE LimitsAreNumbers

-----------------------------------------------------------------------------
(* The receiver and its sessions.                                             *)

Sessions == [state : {"Unauthenticated", "Authenticated", "Streaming", "Ended"},
             stream : BOOLEAN, port : BOOLEAN]

Tables == UNION {[D -> Sessions] : D \in SUBSET (1..MaxConnections)}

(* A record of these fields.                                                  *)
Shaped(r) ==
  r = [keying |-> r.keying, next |-> r.next, sessions |-> r.sessions,
       answer |-> r.answer, by |-> r.by, proven |-> r.proven]

(* A session that may hold a port, and one that may not, by its state.        *)
Entitled(session, proven) ==
  /\ session.stream = session.port
  /\ session.port => session.state \in {"Authenticated", "Streaming"}
  /\ session.state \in {"Authenticated", "Streaming"} => proven
  /\ session.state = "Streaming" => session.port

Playing(r) ==
  r.answer = "200 playing" => r.by \in DOMAIN r.sessions /\ r.sessions[r.by].port

ReceiverOK(r) ==
  /\ Shaped(r)
  /\ r.next \in 1..(MaxConnections + 1) /\ r.sessions \in Tables /\ r.proven \in SUBSET Nat
  /\ DOMAIN r.sessions \subseteq 1..(r.next - 1)
  /\ \A id \in DOMAIN r.sessions : Entitled(r.sessions[id], id \in r.proven)
  /\ Cardinality(Active(r)) =< MaxSessions
  /\ Playing(r)

ReceiverInv == ReceiverOK(receiver)

(* A table is a function over some of the ids.                                *)
LEMMA TableIs ==
  ASSUME NEW s
  PROVE  s \in Tables <=> /\ DOMAIN s \in SUBSET (1..MaxConnections)
                          /\ s \in [DOMAIN s -> Sessions]
BY DEF Tables

LEMMA ActiveIsFinite ==
  ASSUME NEW r, r.sessions \in Tables
  PROVE  IsFiniteSet(Active(r)) /\ Cardinality(Active(r)) \in Nat
<1>1. Active(r) \subseteq 1..MaxConnections
  BY TableIs DEF Active
<1>2. IsFiniteSet(1..MaxConnections)
  BY FS_Interval
<1> QED BY <1>1, <1>2, FS_Subset, FS_CardinalityType

(* Fewer are active, fewer hold anything.                                     *)
LEMMA FewerActive ==
  ASSUME NEW r, r.sessions \in Tables, NEW q, Active(q) \subseteq Active(r),
         Cardinality(Active(r)) =< MaxSessions
  PROVE  Cardinality(Active(q)) =< MaxSessions
<1>1. /\ IsFiniteSet(Active(r)) /\ Cardinality(Active(r)) \in Nat
  BY ActiveIsFinite
<1>2. Cardinality(Active(q)) =< Cardinality(Active(r)) /\ Cardinality(Active(q)) \in Nat
  BY <1>1, FS_Subset, FS_CardinalityType
<1> QED BY <1>1, <1>2

(* A new connection has proven nothing and holds nothing.                     *)
LEMMA AcceptKeeps ==
  ASSUME ReceiverInv, AcceptConnection
  PROVE  ReceiverInv'
<1> DEFINE r == receiver
           new == r.next
<1>1. Shaped(r) /\ new \in 1..MaxConnections
  BY DEF ReceiverInv, ReceiverOK, AcceptConnection
<1>2. CASE Cardinality(Active(r)) >= MaxSessions
  <2>1. receiver' = [receiver EXCEPT !.answer = "busy", !.by = 0]
    BY <1>2 DEF AcceptConnection
  <2>2. /\ Shaped(receiver') /\ receiver'.next = r.next /\ receiver'.sessions = r.sessions
        /\ receiver'.proven = r.proven /\ receiver'.answer = "busy"
    BY <1>1, <2>1 DEF Shaped
  <2>3. Active(receiver') = Active(r)
    BY <2>2 DEF Active
  <2> QED BY <2>2, <2>3 DEF ReceiverInv, ReceiverOK, Playing
<1>3. CASE ~ (Cardinality(Active(r)) >= MaxSessions)
  <2> DEFINE s == Opened(r.sessions, new)
  <2>1. receiver' = [receiver EXCEPT !.next = @ + 1, !.answer = "connected", !.by = 0,
                                     !.sessions = s]
    BY <1>3 DEF AcceptConnection
  <2>2. r.sessions \in Tables /\ DOMAIN r.sessions \subseteq 1..(new - 1)
    BY DEF ReceiverInv, ReceiverOK
  <2>3. /\ DOMAIN s = DOMAIN r.sessions \cup {new} /\ new \notin DOMAIN r.sessions
        /\ s[new] = NewSession /\ \A id \in DOMAIN r.sessions : s[id] = r.sessions[id]
    BY <1>1, <2>2 DEF Opened
  <2>4. NewSession \in Sessions
    BY DEF NewSession, Sessions
  <2>5. s \in [DOMAIN s -> Sessions]
    BY <2>2, <2>3, <2>4, TableIs DEF Opened
  <2>6. DOMAIN s \subseteq 1..(new + 1 - 1) /\ DOMAIN s \subseteq 1..MaxConnections
    BY <1>1, <2>2, <2>3
  <2>7. s \in Tables
    BY <2>5, <2>6, TableIs
  <2> HIDE DEF s
  <2>8. /\ Shaped(receiver') /\ receiver'.next = new + 1 /\ receiver'.sessions = s
        /\ receiver'.proven = r.proven /\ receiver'.answer = "connected"
    BY <1>1, <2>1, <2>7 DEF Shaped
  <2>9. Active(receiver') = Active(r) \cup {new} /\ new \notin Active(r)
    BY <2>3, <2>8 DEF Active, NewSession
  <2>10. Cardinality(Active(receiver')) =< MaxSessions
    <3>1. IsFiniteSet(Active(r)) /\ Cardinality(Active(r)) \in Nat
      BY <2>2, ActiveIsFinite
    <3>2. Cardinality(Active(r) \cup {new}) = Cardinality(Active(r)) + 1
      BY <2>9, <3>1, FS_AddElement
    <3> QED BY <1>3, <2>9, <3>1, <3>2
  <2>11. \A id \in DOMAIN s : Entitled(s[id], id \in r.proven)
    <3>1. \A id \in DOMAIN r.sessions : Entitled(r.sessions[id], id \in r.proven)
      BY DEF ReceiverInv, ReceiverOK
    <3>2. Entitled(NewSession, new \in r.proven)
      BY DEF Entitled, NewSession
    <3> QED BY <2>3, <3>1, <3>2
  <2>12. Playing(receiver')
    BY <2>8 DEF Playing
  <2>13. new + 1 \in 1..(MaxConnections + 1) /\ r.proven \in SUBSET Nat
    BY <1>1 DEF ReceiverInv, ReceiverOK
  <2> QED BY <2>6, <2>7, <2>8, <2>10, <2>11, <2>12, <2>13 DEF ReceiverInv, ReceiverOK
<1> QED BY <1>2, <1>3

LEMMA DisconnectKeeps ==
  ASSUME ReceiverInv, NEW id, Disconnect(id)
  PROVE  ReceiverInv'
<1> DEFINE r == receiver
           D == DOMAIN r.sessions \ {id}
           s == Restrict(r.sessions, D)
<1>1. Shaped(r) /\ r.sessions \in Tables
  BY DEF ReceiverInv, ReceiverOK
<1>2. DOMAIN s = D /\ \A i \in D : s[i] = r.sessions[i]
  BY DEF Restrict
<1>3. s \in Tables
  <2>1. s \in [D -> Sessions]
    BY <1>1, TableIs DEF Restrict
  <2> QED BY <1>1, <1>2, <2>1, TableIs
<1>4. receiver' = [receiver EXCEPT !.sessions = s, !.answer = None, !.by = 0]
  BY DEF Disconnect
<1> HIDE DEF s
<1>5. /\ Shaped(receiver') /\ receiver'.next = r.next /\ receiver'.sessions = s
      /\ receiver'.proven = r.proven /\ receiver'.answer = None
  BY <1>1, <1>3, <1>4 DEF Shaped
<1>6. Active(receiver') \subseteq Active(r)
  BY <1>2, <1>5 DEF Active
<1>7. Cardinality(Active(receiver')) =< MaxSessions
  BY <1>1, <1>6, FewerActive DEF ReceiverInv, ReceiverOK
<1>8. Playing(receiver')
  BY <1>5, AirPlayAssumption DEF Playing
<1> QED BY <1>2, <1>3, <1>5, <1>7, <1>8 DEF ReceiverInv, ReceiverOK

(* An answer changes no session; only one that holds a port is let play.      *)
LEMMA AnswerKeeps ==
  ASSUME ReceiverInv, NEW id, NEW status, Answers(id, status),
         status = "200 playing" => id \in DOMAIN receiver.sessions /\ receiver.sessions[id].port
  PROVE  ReceiverInv'
<1>1. receiver' = [receiver EXCEPT !.answer = status, !.by = id] /\ Shaped(receiver)
  BY DEF Answers, ReceiverInv, ReceiverOK
<1>2. /\ Shaped(receiver') /\ receiver'.next = receiver.next
      /\ receiver'.sessions = receiver.sessions
      /\ receiver'.proven = receiver.proven /\ receiver'.answer = status /\ receiver'.by = id
  BY <1>1 DEF Shaped
<1>3. Active(receiver') = Active(receiver)
  BY <1>2 DEF Active
<1> QED BY <1>2, <1>3 DEF ReceiverInv, ReceiverOK, Playing

(* A session that was active becomes another that is entitled to what it has. *)
LEMMA BecomesKeeps ==
  ASSUME ReceiverInv, NEW id \in Active(receiver), NEW session \in Sessions,
         NEW status, status # "200 playing", NEW proven \in SUBSET Nat,
         receiver.proven \subseteq proven, Entitled(session, id \in proven),
         receiver' = [receiver EXCEPT !.sessions[id] = session, !.answer = status,
                                      !.by = id, !.proven = proven]
  PROVE  ReceiverInv'
<1> DEFINE r == receiver
           s == [r.sessions EXCEPT ![id] = session]
<1>1. Shaped(r) /\ r.sessions \in Tables /\ id \in DOMAIN r.sessions
  BY DEF ReceiverInv, ReceiverOK, Active
<1>2. /\ DOMAIN s = DOMAIN r.sessions /\ s[id] = session
      /\ \A i \in DOMAIN s : i # id => s[i] = r.sessions[i]
  BY <1>1
<1>3. s \in Tables
  BY <1>1, <1>2, TableIs
<1>4. receiver' = [receiver EXCEPT !.sessions = s, !.answer = status, !.by = id,
                                  !.proven = proven]
  OBVIOUS
<1> HIDE DEF s
<1>5. /\ Shaped(receiver') /\ receiver'.next = r.next /\ receiver'.sessions = s
      /\ receiver'.proven = proven /\ receiver'.answer = status
  BY <1>1, <1>3, <1>4 DEF Shaped
<1>6. Active(receiver') \subseteq Active(r)
  BY <1>2, <1>5 DEF Active
<1>7. Cardinality(Active(receiver')) =< MaxSessions
  BY <1>1, <1>6, FewerActive DEF ReceiverInv, ReceiverOK
<1>8. \A i \in DOMAIN s : Entitled(s[i], i \in proven)
  <2> TAKE i \in DOMAIN s
  <2>1. CASE i = id
    BY <1>2, <2>1
  <2>2. CASE i # id
    BY <1>2, <2>2 DEF ReceiverInv, ReceiverOK, Entitled
  <2> QED BY <2>1, <2>2
<1>9. Playing(receiver')
  BY <1>5 DEF Playing
<1> QED BY <1>2, <1>3, <1>5, <1>7, <1>8, <1>9 DEF ReceiverInv, ReceiverOK

(* A verdict is that of some check, or of none.                               *)
LEMMA EitherGives ==
  ASSUME NEW n \in Nat, NEW checks, DOMAIN checks = 1..n, NEW otherwise
  PROVE  /\ \/ Either(checks, otherwise) = otherwise
            \/ \E i \in 1..n : Either(checks, otherwise) = checks[i][2]
         /\ (\A i \in 1..n : checks[i][2] # otherwise) =>
              (Either(checks, otherwise) = otherwise => \A i \in 1..n : checks[i][1])
<1> DEFINE failing == {i \in 1..n : ~checks[i][1]}
           first == CHOOSE i \in DOMAIN checks : /\ ~checks[i][1]
                                                 /\ \A j \in 1..i - 1 : checks[j][1]
<1>1. CASE failing = {}
  BY <1>1 DEF Either
<1>2. CASE failing # {}
  <2>1. failing \in SUBSET (0..n)
    OBVIOUS
  <2>2. PICK k \in failing : \A j \in failing : k =< j
    <3> HIDE DEF failing
    <3> QED BY <1>2, <2>1, LeastUpTo
  <2>3. \A j \in 1..k - 1 : checks[j][1]
    BY <2>2
  <2>4. first \in 1..n
    BY <2>2, <2>3
  <2>5. Either(checks, otherwise) = checks[first][2]
    BY <1>2 DEF Either
  <2> HIDE DEF first, failing
  <2> QED BY <2>4, <2>5
<1> QED BY <1>1, <1>2

LEMMA ParseVerdict ==
  ASSUME NEW raw, NEW maxBody
  PROVE  ParseRtsp(raw, maxBody) \in {"accepted", "resource-limit", "invalid-frame"}
<1> DEFINE lengths == raw.lengths
           declared == IF lengths = <<>> THEN 0 ELSE lengths[1]
           checks == << <<raw.head # "too-long", "resource-limit">>,
                  <<raw.head = "ok", "invalid-frame">>,
                  <<raw.method \in Methods, "invalid-frame">>,
                  <<declared >= 0, "invalid-frame">>,
                  <<declared <= maxBody, "resource-limit">>,
                  <<Len(lengths) <= 1, "invalid-frame">>,
                  <<raw.method = "POST" => lengths # <<>>, "invalid-frame">>,
                  <<raw.body >= declared, "invalid-frame">> >>
<1>1. ParseRtsp(raw, maxBody) = Either(checks, "accepted")
  BY DEF ParseRtsp
<1>2. DOMAIN checks = 1..8
  OBVIOUS
<1>3. \A i \in 1..8 : checks[i][2] \in {"resource-limit", "invalid-frame"}
  <2>1. /\ checks[1][2] = "resource-limit" /\ checks[2][2] = "invalid-frame"
        /\ checks[3][2] = "invalid-frame" /\ checks[4][2] = "invalid-frame"
        /\ checks[5][2] = "resource-limit" /\ checks[6][2] = "invalid-frame"
        /\ checks[7][2] = "invalid-frame" /\ checks[8][2] = "invalid-frame"
    OBVIOUS
  <2> HIDE DEF checks
  <2> QED BY <2>1
<1> HIDE DEF checks
<1>4. \/ Either(checks, "accepted") = "accepted"
      \/ \E i \in 1..8 : Either(checks, "accepted") = checks[i][2]
  <2>1. 8 \in Nat
    OBVIOUS
  <2> QED BY <1>2, <2>1, EitherGives
<1> QED BY <1>1, <1>3, <1>4

LEMMA HandleKeeps ==
  ASSUME ReceiverInv, NEW id, NEW raw, Handle(id, raw)
  PROVE  ReceiverInv'
<1> DEFINE r == receiver
           verdict == ParseRtsp(raw, MaxBody)
<1>1. verdict # "200 playing"
  BY ParseVerdict
<1>2. CASE verdict # "accepted" /\ Answers(id, verdict)
  BY <1>1, <1>2, AnswerKeeps
<1>3. CASE Answers(id, "destination-unavailable") \/ Answers(id, "400") \/ Answers(id, "200")
           \/ Answers(id, "404") \/ Answers(id, "401") \/ Answers(id, "503") \/ Answers(id, "vendor-gated")
  BY <1>3, AnswerKeeps
<1>4. ASSUME id \in Active(r),
             \/ Info(id, raw) \/ PairPinStart(id, raw) \/ PairSetupPin(id, raw)
             \/ FpSetup(id, raw) \/ Setup(id, raw) \/ Play(id, raw)
             \/ Teardown(id, raw) \/ NotFound(id, raw)
      PROVE  ReceiverInv'
  <2>0. /\ id \in DOMAIN r.sessions /\ r.sessions[id] \in Sessions
        /\ Entitled(r.sessions[id], id \in r.proven)
        /\ Shaped(r) /\ r.proven \in SUBSET Nat /\ id \in Nat
    BY <1>4, TableIs DEF ReceiverInv, ReceiverOK, Active
  <2>1. CASE Info(id, raw)
    BY <2>1, AnswerKeeps DEF Info
  <2>2. CASE PairPinStart(id, raw)
    BY <1>3, <2>2 DEF PairPinStart
  <2>3. CASE PairSetupPin(id, raw)
    <3>1. CASE ~Keyed
      BY <1>3, <2>3, <3>1 DEF PairSetupPin
    <3>2. CASE Keyed
      <4> DEFINE session == [r.sessions[id] EXCEPT !.state = "Authenticated"]
                 proven == r.proven \cup {id}
      <4>1. receiver' = [receiver EXCEPT !.sessions[id] = session, !.answer = "200",
                                         !.by = id, !.proven = proven]
        BY <2>3, <3>2 DEF PairSetupPin
      <4>2. session \in Sessions /\ proven \in SUBSET Nat
        BY <2>0 DEF Sessions
      <4>3. Entitled(session, id \in proven)
        BY <2>0 DEF Entitled, Sessions
      <4>4. r.proven \subseteq proven
        OBVIOUS
      <4> HIDE DEF session, proven
      <4> QED BY <1>4, <4>1, <4>2, <4>3, <4>4, BecomesKeeps
    <3> QED BY <3>1, <3>2
  <2>4. CASE FpSetup(id, raw)
    BY <1>3, <2>4 DEF FpSetup
  <2>5. CASE Setup(id, raw)
    <3> DEFINE session == [state |-> "Streaming", stream |-> TRUE, port |-> TRUE]
    <3>1. CASE r.sessions[id].state = "Authenticated" /\ Becomes(id, session, "200")
      <4>1. receiver' = [receiver EXCEPT !.sessions[id] = session, !.answer = "200",
                                         !.by = id, !.proven = r.proven]
        BY <2>0, <3>1 DEF Becomes, Shaped
      <4>2. session \in Sessions /\ Entitled(session, id \in r.proven)
        BY <2>0, <3>1 DEF Sessions, Entitled
      <4> HIDE DEF session
      <4> QED BY <1>4, <2>0, <4>1, <4>2, BecomesKeeps
    <3> QED BY <1>3, <2>5, <3>1 DEF Setup
  <2>6. CASE Play(id, raw)
    <3>1. r.sessions[id].state = "Streaming" => r.sessions[id].port
      BY <2>0 DEF Entitled
    <3> QED BY <2>0, <2>6, <3>1, AnswerKeeps DEF Play
  <2>7. CASE Teardown(id, raw)
    <3> DEFINE session == [state |-> "Ended", stream |-> FALSE, port |-> FALSE]
    <3>1. receiver' = [receiver EXCEPT !.sessions[id] = session, !.answer = "200",
                                         !.by = id, !.proven = r.proven]
      BY <2>0, <2>7 DEF Teardown, Becomes, Shaped
    <3>2. session \in Sessions /\ Entitled(session, id \in r.proven)
      BY DEF Sessions, Entitled
    <3> HIDE DEF session
    <3> QED BY <1>4, <2>0, <3>1, <3>2, BecomesKeeps
  <2>8. CASE NotFound(id, raw)
    BY <1>3, <2>8 DEF NotFound
  <2> QED BY <1>4, <2>1, <2>2, <2>3, <2>4, <2>5, <2>6, <2>7, <2>8
<1> QED BY <1>2, <1>3, <1>4 DEF Handle

-----------------------------------------------------------------------------
(* The mirror track.  Frames are handed to the sink one after the other: what *)
(* a fold computes exists, and its values follow each other.                  *)

HandOn(g, m, seq, s) ==
  IF s = {} THEN m ELSE HandOver(g[s \ {Max(s)}], seq[Max(s)])

Hands(g, m, seq, S) == g = [s \in SUBSET S |-> HandOn(g, m, seq, s)]

Orderly(S) == IsFiniteSet(S) /\ \A s \in SUBSET S : s # {} => Max(s) \in s

LEMMA RangeIsOrderly ==
  ASSUME NEW N \in Nat
  PROVE  Orderly(1..N)
<1>1. IsFiniteSet(1..N)
  BY FS_Interval
<1> QED BY <1>1, MaxPicks DEF Orderly

LEMMA HandsAgree ==
  ASSUME NEW S, Orderly(S), NEW m, NEW seq, NEW A \in SUBSET S, NEW B \in SUBSET S,
         NEW g, NEW h, Hands(g, m, seq, A), Hands(h, m, seq, B)
  PROVE  \A u \in (SUBSET A) \cap (SUBSET B) : g[u] = h[u]
<1> DEFINE T == {u \in (SUBSET A) \cap (SUBSET B) : g[u] # h[u]}
<1>1. SUFFICES ASSUME T # {} PROVE FALSE
  OBVIOUS
<1>2. PICK u \in T : \A v \in T : v \subseteq u => v = u
  <2>1. IsFiniteSet(S) /\ T \subseteq SUBSET S
    BY DEF Orderly
  <2> HIDE DEF T
  <2> QED BY <1>1, <2>1, LeastSet
<1>3. g[u] = HandOn(g, m, seq, u) /\ h[u] = HandOn(h, m, seq, u)
  BY DEF Hands
<1>4. u # {}
  BY <1>3 DEF HandOn
<1> DEFINE rest == u \ {Max(u)}
<1>5. rest \in (SUBSET A) \cap (SUBSET B) /\ rest # u /\ rest \subseteq u
  <2>1. Max(u) \in u
    BY <1>4 DEF Orderly
  <2> QED BY <2>1
<1>6. g[rest] = h[rest]
  <2> HIDE DEF rest
  <2> QED BY <1>2, <1>5
<1> QED BY <1>3, <1>4, <1>6 DEF HandOn

LEMMA HandsExist ==
  ASSUME NEW S, Orderly(S), NEW m, NEW seq
  PROVE  \E g : Hands(g, m, seq, S)
<1> DEFINE T == {s \in SUBSET S : ~ \E g : Hands(g, m, seq, s)}
<1>1. SUFFICES ASSUME T # {} PROVE FALSE
  OBVIOUS
<1>2. PICK s \in T : \A u \in T : u \subseteq s => u = s
  <2>1. T \subseteq SUBSET S /\ IsFiniteSet(S)
    BY DEF Orderly
  <2> HIDE DEF T
  <2> QED BY <1>1, <2>1, LeastSet
<1> DEFINE before(u) == CHOOSE g : Hands(g, m, seq, u)
           rest(u) == u \ {Max(u)}
           val(u) == IF u = {} THEN m ELSE HandOver(before(rest(u))[rest(u)], seq[Max(u)])
           g == [u \in SUBSET s |-> val(u)]
<1>3. \A u \in SUBSET s : u # s => Hands(before(u), m, seq, u)
  BY <1>2
<1> HIDE DEF before
<1>4. \A u \in SUBSET s : u # {} =>
        rest(u) \in SUBSET s /\ rest(u) # s /\ rest(u) \in SUBSET u
  <2> TAKE u \in SUBSET s
  <2> HAVE u # {}
  <2>1. Max(u) \in u
    BY DEF Orderly
  <2> QED BY <2>1
<1>5. \A u \in SUBSET s : u # s => before(u)[u] = val(u)
  <2> TAKE u \in SUBSET s
  <2> HAVE u # s
  <2>1. Hands(before(u), m, seq, u)
    BY <1>3
  <2>2. before(u)[u] = HandOn(before(u), m, seq, u)
    <3>1. u \in SUBSET u
      OBVIOUS
    <3> QED BY <2>1, <3>1 DEF Hands
  <2>3. CASE u = {}
    BY <2>2, <2>3 DEF HandOn
  <2>4. CASE u # {}
    <3>1. rest(u) \in SUBSET s /\ rest(u) # s /\ rest(u) \in SUBSET u
      BY <1>4, <2>4
    <3>2. Hands(before(rest(u)), m, seq, rest(u))
      <4> HIDE DEF rest
      <4> QED BY <1>3, <3>1
    <3>3. before(u)[rest(u)] = before(rest(u))[rest(u)]
      <4>1. u \in SUBSET S /\ rest(u) \in SUBSET S
            /\ rest(u) \in (SUBSET u) \cap (SUBSET rest(u))
        BY <1>2, <3>1
      <4> HIDE DEF rest
      <4> QED BY <2>1, <3>2, <4>1, HandsAgree
    <3> QED BY <2>2, <2>4, <3>3 DEF HandOn
  <2> QED BY <2>3, <2>4
<1>6. \A u \in SUBSET s : g[u] = HandOn(g, m, seq, u)
  <2> TAKE u \in SUBSET s
  <2>1. CASE u = {}
    BY <2>1 DEF HandOn
  <2>2. CASE u # {}
    <3>1. rest(u) \in SUBSET s /\ rest(u) # s
      BY <1>4, <2>2
    <3>2. g[rest(u)] = before(rest(u))[rest(u)]
      <4>1. g[rest(u)] = val(rest(u))
        BY <3>1
      <4>2. before(rest(u))[rest(u)] = val(rest(u))
        <5> HIDE DEF rest, val
        <5> QED BY <3>1, <1>5
      <4> QED BY <4>1, <4>2
    <3> QED BY <2>2, <3>2 DEF HandOn
  <2> QED BY <2>1, <2>2
<1>7. Hands(g, m, seq, s)
  <2>1. g = [u \in SUBSET s |-> g[u]]
    OBVIOUS
  <2> HIDE DEF g
  <2> QED BY <1>6, <2>1 DEF Hands
<1> QED BY <1>2, <1>7

(* The states of m while the frames of seq are handed over one by one.        *)
Steps(h, m, seq) ==
  /\ h[0] = m
  /\ \A k \in 1..Len(seq) : h[k] = HandOver(h[k - 1], seq[k])

LEMMA FoldIsSteps ==
  ASSUME NEW m, NEW R, NEW seq \in Seq(R)
  PROVE  \E h : Steps(h, m, seq) /\ FoldLeft(HandOver, m, seq) = h[Len(seq)]
<1> DEFINE N == Len(seq)
           it == CHOOSE g : Hands(g, m, seq, DOMAIN seq)
           h == [k \in 0..N |-> it[1..k]]
<1>1. N \in Nat /\ DOMAIN seq = 1..N
  OBVIOUS
<1>2. Hands(it, m, seq, 1..N)
  BY <1>1, HandsExist, RangeIsOrderly
<1>3. FoldLeft(HandOver, m, seq) = it[DOMAIN seq]
  BY DEF FoldLeft, MapThenFoldSet, Hands, HandOn
<1> HIDE DEF it
<1>4. \A k \in 0..N : it[1..k] = HandOn(it, m, seq, 1..k)
  <2> TAKE k \in 0..N
  <2>1. 1..k \in SUBSET (1..N)
    BY <1>1
  <2> QED BY <1>2, <2>1 DEF Hands
<1>5. h[0] = m
  <2>1. 1..0 = {}
    OBVIOUS
  <2>2. it[1..0] = HandOn(it, m, seq, 1..0)
    BY <1>1, <1>4
  <2>3. it[1..0] = m
    BY <2>1, <2>2 DEF HandOn
  <2> QED BY <1>1, <2>3
<1>6. ASSUME NEW k \in 1..N
      PROVE  h[k] = HandOver(h[k - 1], seq[k])
  <2>0. k \in Nat /\ 1 =< k /\ k =< N
    BY <1>1
  <2>1. 1..k \in SUBSET (0..N) /\ 1..k # {} /\ N \in Nat
    <3>1. 1 \in 1..k
      BY <2>0
    <3>2. \A j \in 1..k : j \in 0..N
      BY <1>1, <2>0
    <3> QED BY <1>1, <3>1, <3>2
  <2>2. Max(1..k) = k
    <3>1. Max(1..k) \in 1..k /\ \A j \in 1..k : j =< Max(1..k)
      BY <2>1, MinMaxAre
    <3> QED BY <3>1
  <2>3. (1..k) \ {k} = 1..(k - 1)
    BY <1>1
  <2>4. it[1..k] = HandOver(it[1..(k - 1)], seq[k])
    <3>1. it[1..k] = HandOn(it, m, seq, 1..k)
      BY <1>1, <1>4, <2>0
    <3> QED BY <2>1, <2>2, <2>3, <3>1 DEF HandOn
  <2>5. k \in 0..N /\ k - 1 \in 0..N
    BY <1>1
  <2> QED BY <2>4, <2>5
<1>7. h[N] = it[1..N]
  BY <1>1
<1> HIDE DEF h
<1> QED BY <1>1, <1>3, <1>5, <1>6, <1>7 DEF Steps

-----------------------------------------------------------------------------
(* What a frame of the queue and a track are made of.                         *)

Frame == [seq : Nat, key : BOOLEAN, size : Nat, told : BOOLEAN]

Fields(m) ==
  m = [codec |-> m.codec, pixels |-> m.pixels, format |-> m.format, tracker |-> m.tracker,
       queue |-> m.queue, recovering |-> m.recovering, drain |-> m.drain, sink |-> m.sink,
       forwarded |-> m.forwarded, dropped |-> m.dropped, offered |-> m.offered,
       failed |-> m.failed, stray |-> m.stray, lost |-> m.lost, told |-> m.told,
       expects |-> m.expects, broken |-> m.broken]

Track(m) ==
  /\ Fields(m)
  /\ m.queue = [frames |-> m.queue.frames, bytes |-> m.queue.bytes]
  /\ m.queue.frames \in Seq(Frame) /\ m.queue.bytes \in Int
  /\ m.sink = [kind |-> m.sink.kind, format |-> m.sink.format, pixels |-> m.sink.pixels,
               frames |-> m.sink.frames]
  /\ m.sink.frames \in Nat
  /\ m.recovering \in BOOLEAN /\ m.told \in BOOLEAN /\ m.broken \in BOOLEAN
  /\ m.forwarded \in Nat /\ m.dropped \in Nat /\ m.offered \in Nat
  /\ m.failed \in Nat /\ m.stray \in Nat /\ m.lost \in Nat

(* A decoder that expects frame e can show f.                                 *)
Shows(f, e) == f.key \/ f.told \/ f.seq = e

(* A flush changes neither the stream nor what is said of the pictures.       *)
Same(x, m) ==
  /\ x.codec = m.codec /\ x.pixels = m.pixels /\ x.tracker = m.tracker /\ x.drain = m.drain
  /\ x.recovering = m.recovering /\ x.told = m.told
  /\ x.offered = m.offered /\ x.forwarded = m.forwarded /\ x.dropped = m.dropped
  /\ x.failed = m.failed /\ x.stray = m.stray

HandedTo(m, sink, queue, broken, e) ==
  [m EXCEPT !.sink = sink, !.queue = queue, !.broken = broken, !.expects = e]

LEMMA HandedFields ==
  ASSUME NEW m, Fields(m), NEW sink, NEW queue, NEW broken, NEW e,
         NEW x, x = HandedTo(m, sink, queue, broken, e)
  PROVE  /\ Fields(x) /\ x.sink = sink /\ x.queue = queue /\ x.broken = broken
         /\ x.expects = e /\ x.lost = m.lost /\ Same(x, m)
BY DEF Fields, Same, HandedTo

LEMMA HandedOver ==
  ASSUME NEW m, Track(m), m.queue.frames # <<>>, NEW f \in Frame,
         ~m.broken, m.expects # None => Shows(f, m.expects)
  PROVE  /\ Track(HandOver(m, f)) /\ Same(HandOver(m, f), m)
         /\ HandOver(m, f).queue.frames = Tail(m.queue.frames)
         /\ HandOver(m, f).queue.bytes = m.queue.bytes - Head(m.queue.frames).size
         /\ HandOver(m, f).sink.frames = m.sink.frames + 1
         /\ HandOver(m, f).lost = m.lost
         /\ HandOver(m, f).expects = f.seq + 1
         /\ ~HandOver(m, f).broken
<1> DEFINE sink == SinkOnFrame(m.sink, f)
           queue == Popped(m.queue)
           broken == m.broken \/ (m.expects # None /\ f.seq # m.expects /\ ~f.key /\ ~f.told)
           x == HandedTo(m, sink, queue, broken, f.seq + 1)
<1>1. HandOver(m, f) = x
  BY DEF HandOver, HandedTo
<1>2. broken = FALSE
  BY DEF Shows
<1>3. /\ sink = [kind |-> m.sink.kind, format |-> m.sink.format, pixels |-> m.sink.pixels,
                 frames |-> m.sink.frames + 1]
      /\ m.sink.frames + 1 \in Nat
  <2>1. /\ m.sink = [kind |-> m.sink.kind, format |-> m.sink.format, pixels |-> m.sink.pixels,
                     frames |-> m.sink.frames]
        /\ m.sink.frames \in Nat
    BY DEF Track
  <2> QED BY <2>1 DEF SinkOnFrame
<1>4. /\ queue = [frames |-> Tail(m.queue.frames),
                  bytes |-> m.queue.bytes - Head(m.queue.frames).size]
      /\ Tail(m.queue.frames) \in Seq(Frame)
      /\ m.queue.bytes - Head(m.queue.frames).size \in Int
  <2>1. Head(m.queue.frames) \in Frame /\ Tail(m.queue.frames) \in Seq(Frame)
    BY HeadTailProperties DEF Track
  <2>2. Head(m.queue.frames).size \in Int /\ m.queue.bytes \in Int
    BY <2>1 DEF Track, Frame
  <2> QED BY <2>1, <2>2 DEF Popped
<1> HIDE DEF sink, queue, broken
<1>5. /\ Fields(x) /\ x.sink = sink /\ x.queue = queue /\ x.broken = broken
      /\ x.expects = f.seq + 1 /\ x.lost = m.lost /\ Same(x, m)
  <2>1. Fields(m)
    BY DEF Track
  <2> QED BY <2>1, HandedFields
<1> HIDE DEF x
<1>6. Track(x)
  <2>1. /\ m.recovering \in BOOLEAN /\ m.told \in BOOLEAN
        /\ m.forwarded \in Nat /\ m.dropped \in Nat /\ m.offered \in Nat
        /\ m.failed \in Nat /\ m.stray \in Nat /\ m.lost \in Nat
    BY DEF Track
  <2>2. /\ x.recovering \in BOOLEAN /\ x.told \in BOOLEAN
        /\ x.forwarded \in Nat /\ x.dropped \in Nat /\ x.offered \in Nat
        /\ x.failed \in Nat /\ x.stray \in Nat /\ x.lost \in Nat
    BY <1>5, <2>1 DEF Same
  <2>3. /\ x.queue = [frames |-> x.queue.frames, bytes |-> x.queue.bytes]
        /\ x.queue.frames \in Seq(Frame) /\ x.queue.bytes \in Int
    BY <1>4, <1>5
  <2>4. /\ x.sink = [kind |-> x.sink.kind, format |-> x.sink.format, pixels |-> x.sink.pixels,
                     frames |-> x.sink.frames]
        /\ x.sink.frames \in Nat
    BY <1>3, <1>5
  <2> QED BY <1>2, <1>5, <2>2, <2>3, <2>4 DEF Track
<1> QED BY <1>1, <1>2, <1>3, <1>4, <1>5, <1>6

(* Every frame of the queue can be shown after the one before it, and the     *)
(* first after what the sink got last.                                        *)
Chain(frames) == \A i \in 2..Len(frames) : Shows(frames[i], frames[i - 1].seq + 1)

Starts(m) ==
  m.expects # None /\ m.queue.frames # <<>> => Shows(m.queue.frames[1], m.expects)

(* After k frames of the queue of m have been handed over.                    *)
Handed(x, m, k) ==
  /\ Track(x) /\ Same(x, m) /\ x.lost = m.lost /\ ~x.broken
  /\ Len(x.queue.frames) = Len(m.queue.frames) - k
  /\ \A i \in 1..(Len(m.queue.frames) - k) : x.queue.frames[i] = m.queue.frames[k + i]
  /\ x.queue.bytes =< m.queue.bytes
  /\ x.sink.frames = m.sink.frames + k
  /\ x.expects = IF k = 0 THEN m.expects ELSE m.queue.frames[k].seq + 1

LEMMA HandedGoesOn ==
  ASSUME NEW m, Track(m), Chain(m.queue.frames), Starts(m),
         NEW k \in Nat, k < Len(m.queue.frames), NEW x, Handed(x, m, k)
  PROVE  Handed(HandOver(x, m.queue.frames[k + 1]), m, k + 1)
<1> DEFINE frames == m.queue.frames
           f == frames[k + 1]
           y == HandOver(x, f)
<1>1. /\ frames \in Seq(Frame) /\ Len(frames) \in Nat /\ DOMAIN frames = 1..Len(frames)
      /\ k + 1 \in 1..Len(frames) /\ f \in Frame
  BY DEF Track
<1>2. /\ x.queue.frames \in Seq(Frame) /\ Len(x.queue.frames) = Len(frames) - k
      /\ x.queue.frames # <<>> /\ Head(x.queue.frames) = f
  <2>1. x.queue.frames \in Seq(Frame) /\ Len(x.queue.frames) = Len(frames) - k
    BY DEF Handed, Track
  <2>2. x.queue.frames[1] = f
    BY <1>1 DEF Handed
  <2> QED BY <1>1, <2>1, <2>2
<1>3. x.expects # None => Shows(f, x.expects)
  <2>1. CASE k = 0
    <3>1. frames # <<>> /\ f = frames[1] /\ x.expects = m.expects
      BY <1>1, <2>1 DEF Handed
    <3> QED BY <3>1 DEF Starts
  <2>2. CASE k # 0
    <3>1. k + 1 \in 2..Len(frames) /\ k + 1 - 1 = k /\ x.expects = frames[k].seq + 1
      BY <1>1, <2>2 DEF Handed
    <3>2. Shows(frames[k + 1], frames[k + 1 - 1].seq + 1)
      BY <3>1 DEF Chain
    <3> QED BY <3>1, <3>2
  <2> QED BY <2>1, <2>2
<1>4. /\ Track(y) /\ Same(y, x)
      /\ y.queue.frames = Tail(x.queue.frames)
      /\ y.queue.bytes = x.queue.bytes - f.size
      /\ y.sink.frames = x.sink.frames + 1
      /\ y.lost = x.lost /\ y.expects = f.seq + 1 /\ ~y.broken
  <2>1. Track(x) /\ ~x.broken
    BY DEF Handed
  <2> HIDE DEF f
  <2> QED BY <1>1, <1>2, <1>3, <2>1, HandedOver
<1> HIDE DEF y
<1>5. /\ Len(y.queue.frames) = Len(frames) - (k + 1)
      /\ \A i \in 1..(Len(frames) - (k + 1)) : y.queue.frames[i] = frames[(k + 1) + i]
  <2> DEFINE rest == x.queue.frames
  <2>0. rest \in Seq(Frame) /\ Len(rest) = Len(frames) - k /\ rest # <<>>
        /\ y.queue.frames = Tail(rest)
        /\ \A i \in 1..(Len(frames) - k) : rest[i] = frames[k + i]
    BY <1>2, <1>4 DEF Handed
  <2> HIDE DEF rest, frames
  <2>1. Len(Tail(rest)) = Len(rest) - 1 /\ \A i \in 1..(Len(rest) - 1) : Tail(rest)[i] = rest[i + 1]
    BY <2>0
  <2>2. \A i \in 1..(Len(frames) - (k + 1)) :
          /\ i \in 1..(Len(rest) - 1) /\ i + 1 \in 1..(Len(frames) - k) /\ k + (i + 1) = (k + 1) + i
    BY <1>1, <2>0
  <2>3. \A i \in 1..(Len(frames) - (k + 1)) : Tail(rest)[i] = frames[(k + 1) + i]
    <3> TAKE i \in 1..(Len(frames) - (k + 1))
    <3>1. Tail(rest)[i] = rest[i + 1]
      BY <2>1, <2>2
    <3>2. rest[i + 1] = frames[k + (i + 1)]
      BY <2>0, <2>2
    <3> QED BY <2>2, <3>1, <3>2
  <2>4. Len(Tail(rest)) = Len(frames) - (k + 1)
    <3>1. Len(frames) \in Nat
      BY <1>1
    <3> QED BY <2>0, <2>1, <3>1
  <2> QED BY <2>0, <2>3, <2>4 DEF frames
<1>6. y.queue.bytes =< m.queue.bytes
  <2>1. f.size \in Nat /\ x.queue.bytes \in Int /\ m.queue.bytes \in Int
        /\ x.queue.bytes =< m.queue.bytes
    BY <1>1 DEF Handed, Track, Frame
  <2> HIDE DEF f
  <2> QED BY <1>4, <2>1
<1>7. y.sink.frames = m.sink.frames + (k + 1)
  <2>1. x.sink.frames = m.sink.frames + k /\ m.sink.frames \in Nat
    BY DEF Handed, Track
  <2> QED BY <1>4, <2>1
<1>8. Same(y, m) /\ y.lost = m.lost
  BY <1>4 DEF Same, Handed
<1>9. y.expects = IF k + 1 = 0 THEN m.expects ELSE frames[k + 1].seq + 1
  BY <1>4
<1> QED BY <1>4, <1>5, <1>6, <1>7, <1>8, <1>9 DEF Handed, y

LEMMA HandedAll ==
  ASSUME NEW m, Track(m), ~m.broken, Chain(m.queue.frames), Starts(m),
         NEW n \in 0..Len(m.queue.frames)
  PROVE  Handed(FoldLeft(HandOver, m, SubSeq(m.queue.frames, 1, n)), m, n)
<1> DEFINE frames == m.queue.frames
           seq == SubSeq(frames, 1, n)
<1>1. /\ frames \in Seq(Frame) /\ Len(frames) \in Nat /\ n \in Nat /\ n =< Len(frames)
  BY DEF Track
<1>2. /\ seq \in Seq(Frame) /\ Len(seq) = n /\ \A k \in 1..n : seq[k] = frames[k]
  BY <1>1
<1> HIDE DEF seq
<1>3. PICK h : Steps(h, m, seq) /\ FoldLeft(HandOver, m, seq) = h[n]
  BY <1>2, FoldIsSteps
<1> DEFINE T == {k \in 0..n : ~Handed(h[k], m, k)}
<1>4. T = {}
  <2> SUFFICES ASSUME T # {} PROVE FALSE
    OBVIOUS
  <2>1. PICK k \in T : \A j \in T : k =< j
    <3>1. T \in SUBSET (0..n)
      OBVIOUS
    <3> HIDE DEF T
    <3> QED BY <1>1, <3>1, LeastUpTo
  <2>2. CASE k = 0
    <3>1. h[0] = m
      BY <1>3 DEF Steps
    <3>2. m.queue.bytes =< m.queue.bytes
      BY DEF Track
    <3>3. Handed(m, m, 0)
      BY <1>1, <3>2 DEF Handed, Same, Track
    <3> QED BY <2>1, <2>2, <3>1, <3>3
  <2>3. CASE k # 0
    <3>1. k - 1 \in 0..n /\ k \in 1..n /\ k - 1 \in Nat /\ k - 1 < Len(frames) /\ k - 1 + 1 = k
      BY <1>1, <2>1, <2>3
    <3>2. k - 1 \notin T
      BY <2>1, <3>1
    <3>3. Handed(h[k - 1], m, k - 1)
      BY <3>1, <3>2
    <3>4. h[k] = HandOver(h[k - 1], frames[k])
      BY <1>2, <1>3, <3>1 DEF Steps
    <3>5. Handed(HandOver(h[k - 1], frames[k - 1 + 1]), m, k - 1 + 1)
      BY <3>1, <3>3, HandedGoesOn
    <3>6. Handed(h[k], m, k)
      BY <3>1, <3>4, <3>5
    <3> QED BY <2>1, <3>6
  <2> QED BY <2>2, <2>3
<1>5. n \in 0..n
  BY <1>1
<1> QED BY <1>3, <1>4, <1>5 DEF seq

(* A track within its limits whose sink was given nothing it could not show.  *)
Sound(m) ==
  /\ Track(m) /\ ~m.broken
  /\ Chain(m.queue.frames) /\ Starts(m)
  /\ Len(m.queue.frames) =< MaxFrames /\ m.queue.bytes =< Budget

(* What has got as far as the queue.                                          *)
Through(m) == m.sink.frames + Len(m.queue.frames) + m.lost

(* A frame numbered e can be shown after those before it, unless one is       *)
(* missing and the track or the caller knows.                                 *)
Follows(m, e) ==
  ~m.recovering /\ ~m.told =>
    IF m.queue.frames # <<>> THEN m.queue.frames[Len(m.queue.frames)].seq + 1 = e
    ELSE m.expects \in {None, e}

Losing(m, queue, lost) == [m EXCEPT !.queue = queue, !.lost = lost, !.expects = None]

LEMMA LosingFields ==
  ASSUME NEW m, Fields(m), NEW queue, NEW lost, NEW x, x = Losing(m, queue, lost)
  PROVE  /\ Fields(x) /\ x.queue = queue /\ x.lost = lost /\ x.expects = None
         /\ x.sink = m.sink /\ x.broken = m.broken /\ Same(x, m)
BY DEF Fields, Same, Losing

LEMMA FlushedWhole ==
  ASSUME NEW m, Sound(m), NEW n, n = Len(m.queue.frames)
  PROVE  /\ Sound(Flushed(m, n)) /\ Same(Flushed(m, n), m)
         /\ Through(Flushed(m, n)) = Through(m)
         /\ \A e : Follows(m, e) => Follows(Flushed(m, n), e)
<1> DEFINE frames == m.queue.frames
           x == Flushed(m, n)
<1>1. /\ frames \in Seq(Frame) /\ Len(frames) \in Nat /\ n \in 0..Len(frames)
  BY DEF Sound, Track
<1>2. Handed(x, m, n)
  <2>1. x = FoldLeft(HandOver, m, SubSeq(frames, 1, n))
    BY DEF Flushed
  <2> QED BY <1>1, <2>1, HandedAll DEF Sound
<1> HIDE DEF x
<1>3. /\ Track(x) /\ Same(x, m) /\ x.lost = m.lost /\ ~x.broken
      /\ x.queue.frames = <<>> /\ x.queue.bytes =< m.queue.bytes
      /\ x.sink.frames = m.sink.frames + n
      /\ x.expects = IF n = 0 THEN m.expects ELSE frames[n].seq + 1
  <2>1. x.queue.frames \in Seq(Frame) /\ Len(x.queue.frames) = 0
    BY <1>1, <1>2 DEF Handed, Track
  <2>2. x.queue.frames = <<>>
    BY <2>1
  <2> QED BY <1>2, <2>2 DEF Handed
<1>4. Sound(x)
  <2>1. Chain(x.queue.frames) /\ Starts(x) /\ Len(x.queue.frames) =< MaxFrames
    BY <1>3 DEF Chain, Starts
  <2>2. x.queue.bytes =< Budget
    <3>1. x.queue.bytes \in Int /\ m.queue.bytes \in Int /\ m.queue.bytes =< Budget
      BY <1>3 DEF Sound, Track
    <3> QED BY <1>3, <3>1
  <2> QED BY <1>3, <2>1, <2>2 DEF Sound
<1>5. Through(x) = Through(m)
  <2>1. m.sink.frames \in Nat /\ m.lost \in Nat
    BY DEF Sound, Track
  <2>2. Len(x.queue.frames) = 0
    BY <1>3
  <2> QED BY <1>1, <1>3, <2>1, <2>2 DEF Through
<1>6. ASSUME NEW e, Follows(m, e)
      PROVE  Follows(x, e)
  <2>1. frames # <<>> <=> n # 0
    BY <1>1
  <2> QED BY <1>3, <1>6, <2>1 DEF Follows, Same
<1> QED BY <1>3, <1>4, <1>5, <1>6 DEF x

LEMMA FlushedPart ==
  ASSUME NEW m, Sound(m), NEW n \in 0..Len(m.queue.frames), n # Len(m.queue.frames)
  PROVE  /\ Sound(Flushed(m, n)) /\ Same(Flushed(m, n), m)
         /\ Through(Flushed(m, n)) = Through(m)
         /\ \A e : Follows(m, e) => Follows(Flushed(m, n), e)
<1> DEFINE frames == m.queue.frames
           L == Len(frames)
           y == FoldLeft(HandOver, m, SubSeq(frames, 1, n))
           queue == Popped(y.queue)
           x == Losing(y, queue, y.lost + 1)
<1>1. /\ frames \in Seq(Frame) /\ L \in Nat /\ n \in Nat /\ n < L
  BY DEF Sound, Track
<1>2. Handed(y, m, n)
  BY HandedAll DEF Sound
<1>3. Flushed(m, n) = x
  BY DEF Flushed, Losing
<1> HIDE DEF y
<1>4. /\ y.queue.frames \in Seq(Frame) /\ Len(y.queue.frames) = L - n /\ y.queue.frames # <<>>
      /\ y.queue.bytes \in Int /\ y.queue.bytes =< m.queue.bytes
      /\ \A i \in 1..(L - n) : y.queue.frames[i] = frames[n + i]
  <2>1. y.queue.frames \in Seq(Frame) /\ Len(y.queue.frames) = L - n
    BY <1>2 DEF Handed, Track
  <2>2. y.queue.frames # <<>>
    BY <1>1, <2>1
  <2> QED BY <1>2, <2>1, <2>2 DEF Handed, Track
<1>5. /\ queue = [frames |-> queue.frames, bytes |-> queue.bytes]
      /\ queue.frames = Tail(y.queue.frames) /\ queue.frames \in Seq(Frame)
      /\ Len(queue.frames) = L - n - 1
      /\ \A i \in 1..(L - n - 1) : queue.frames[i] = frames[n + 1 + i]
      /\ queue.bytes \in Int /\ queue.bytes =< m.queue.bytes
  <2> DEFINE rest == y.queue.frames
  <2>1. /\ queue.frames = Tail(rest) /\ queue.bytes = y.queue.bytes - Head(rest).size
        /\ queue = [frames |-> queue.frames, bytes |-> queue.bytes]
    BY DEF Popped
  <2>2. /\ Head(rest) \in Frame /\ Tail(rest) \in Seq(Frame) /\ Len(Tail(rest)) = Len(rest) - 1
        /\ \A i \in 1..(Len(rest) - 1) : Tail(rest)[i] = rest[i + 1]
    BY <1>4, HeadTailProperties
  <2>3. Head(rest).size \in Nat
    BY <2>2 DEF Frame
  <2>4. queue.bytes \in Int /\ queue.bytes =< m.queue.bytes
    <3>1. m.queue.bytes \in Int
      BY DEF Sound, Track
    <3>2. y.queue.bytes \in Int /\ y.queue.bytes =< m.queue.bytes
      BY <1>4
    <3> HIDE DEF queue, rest
    <3> QED BY <2>1, <2>3, <3>1, <3>2
  <2>5. ASSUME NEW i \in 1..(L - n - 1)
        PROVE  Tail(rest)[i] = frames[n + 1 + i]
    <3>1. i \in 1..(Len(rest) - 1) /\ i + 1 \in 1..(L - n) /\ n + (i + 1) = n + 1 + i
      BY <1>1, <1>4
    <3>2. Tail(rest)[i] = rest[i + 1]
      BY <2>2, <3>1
    <3>3. rest[i + 1] = frames[n + (i + 1)]
      BY <1>4, <3>1
    <3> QED BY <3>1, <3>2, <3>3
  <2>6. Len(Tail(rest)) = L - n - 1
    BY <1>1, <1>4, <2>2
  <2> HIDE DEF queue
  <2> QED BY <2>1, <2>2, <2>4, <2>5, <2>6
<1> HIDE DEF queue
<1>6. /\ Fields(x) /\ x.queue = queue /\ x.lost = m.lost + 1 /\ x.expects = None
      /\ x.sink = y.sink /\ y.sink.frames = m.sink.frames + n /\ ~x.broken
      /\ x.broken = y.broken /\ Same(x, y) /\ Same(x, m)
  <2>1. /\ Fields(y) /\ Same(y, m) /\ y.lost = m.lost /\ ~y.broken
        /\ y.sink.frames = m.sink.frames + n
    BY <1>2 DEF Handed, Track
  <2>2. /\ Fields(x) /\ x.queue = queue /\ x.lost = y.lost + 1 /\ x.expects = None
        /\ x.sink = y.sink /\ x.broken = y.broken /\ Same(x, y)
    BY <2>1, LosingFields
  <2> HIDE DEF x
  <2> QED BY <2>1, <2>2 DEF Same
<1> HIDE DEF x
<1>7. Track(x)
  <2>1. /\ y.recovering \in BOOLEAN /\ y.told \in BOOLEAN /\ y.broken \in BOOLEAN
        /\ y.forwarded \in Nat /\ y.dropped \in Nat /\ y.offered \in Nat
        /\ y.failed \in Nat /\ y.stray \in Nat
        /\ y.sink = [kind |-> y.sink.kind, format |-> y.sink.format, pixels |-> y.sink.pixels,
                     frames |-> y.sink.frames]
        /\ y.sink.frames \in Nat
    BY <1>2 DEF Handed, Track
  <2>2. m.lost + 1 \in Nat
    BY DEF Sound, Track
  <2>3. /\ x.recovering \in BOOLEAN /\ x.told \in BOOLEAN /\ x.broken \in BOOLEAN
        /\ x.forwarded \in Nat /\ x.dropped \in Nat /\ x.offered \in Nat
        /\ x.failed \in Nat /\ x.stray \in Nat /\ x.lost \in Nat
    BY <1>6, <2>1, <2>2 DEF Same
  <2>4. /\ x.queue = [frames |-> x.queue.frames, bytes |-> x.queue.bytes]
        /\ x.queue.frames \in Seq(Frame) /\ x.queue.bytes \in Int
    BY <1>5, <1>6
  <2>5. /\ x.sink = [kind |-> x.sink.kind, format |-> x.sink.format, pixels |-> x.sink.pixels,
                     frames |-> x.sink.frames]
        /\ x.sink.frames \in Nat
    BY <1>6, <2>1
  <2> QED BY <1>6, <2>3, <2>4, <2>5 DEF Track
<1>8. Chain(queue.frames)
  <2> SUFFICES ASSUME NEW i \in 2..(L - n - 1)
               PROVE  Shows(queue.frames[i], queue.frames[i - 1].seq + 1)
    BY <1>5 DEF Chain
  <2>1. i \in 1..(L - n - 1) /\ i - 1 \in 1..(L - n - 1) /\ n + 1 + i \in 2..L
        /\ n + 1 + i - 1 = n + 1 + (i - 1)
    BY <1>1
  <2>2. queue.frames[i] = frames[n + 1 + i] /\ queue.frames[i - 1] = frames[n + 1 + (i - 1)]
    BY <1>5, <2>1
  <2>3. Shows(frames[n + 1 + i], frames[n + 1 + i - 1].seq + 1)
    <3>1. Chain(frames)
      BY DEF Sound
    <3> HIDE DEF frames
    <3> QED BY <2>1, <3>1 DEF Chain
  <2> QED BY <2>1, <2>2, <2>3
<1>9. Sound(x)
  <2>1. Starts(x)
    BY <1>6 DEF Starts
  <2>2. Len(x.queue.frames) =< MaxFrames /\ x.queue.bytes =< Budget
    <3>1. m.queue.bytes \in Int /\ m.queue.bytes =< Budget /\ L =< MaxFrames
      BY DEF Sound, Track
    <3>2. Len(x.queue.frames) = L - n - 1 /\ x.queue.bytes \in Int /\ x.queue.bytes =< m.queue.bytes
      BY <1>5, <1>6
    <3> HIDE DEF L
    <3> QED BY <1>1, <3>1, <3>2
  <2> QED BY <1>6, <1>7, <1>8, <2>1, <2>2 DEF Sound
<1>10. Through(x) = Through(m)
  <2>1. m.sink.frames \in Nat /\ m.lost \in Nat
    BY DEF Sound, Track
  <2>2. Len(x.queue.frames) = L - n - 1 /\ x.sink.frames = m.sink.frames + n
    BY <1>5, <1>6
  <2>3. Through(x) = m.sink.frames + n + (L - n - 1) + (m.lost + 1)
    BY <1>6, <2>2 DEF Through
  <2>4. Through(m) = m.sink.frames + L + m.lost
    BY DEF Through
  <2> DEFINE a == m.sink.frames
             b == m.lost
  <2>5. a \in Nat /\ b \in Nat /\ L \in Nat /\ n \in Nat
    BY <1>1, <2>1
  <2> HIDE DEF L, a, b
  <2>6. a + n + (L - n - 1) + (b + 1) = a + L + b
    BY <2>5
  <2> QED BY <2>3, <2>4, <2>6 DEF a, b
<1>11. ASSUME NEW e, Follows(m, e)
       PROVE  Follows(x, e)
  <2>1. CASE queue.frames = <<>>
    BY <1>6, <2>1 DEF Follows
  <2>2. CASE queue.frames # <<>>
    <3>1. frames # <<>> /\ L - n - 1 \in 1..(L - n - 1) /\ n + 1 + (L - n - 1) = L
      <4>0. queue.frames \in Seq(Frame) /\ Len(queue.frames) = L - n - 1
        BY <1>5
      <4>1. Len(queue.frames) # 0 /\ Len(queue.frames) = L - n - 1
        BY <2>2, <4>0
      <4>2. L # 0 => frames # <<>>
        OBVIOUS
      <4> HIDE DEF L
      <4> QED BY <1>1, <4>1, <4>2
    <3>2. queue.frames[Len(queue.frames)] = frames[L]
      BY <1>5, <3>1
    <3> QED BY <1>6, <1>11, <2>2, <3>1, <3>2 DEF Follows, Same
  <2> QED BY <2>1, <2>2
<1> QED BY <1>3, <1>6, <1>9, <1>10, <1>11

LEMMA FlushedKeeps ==
  ASSUME NEW m, Sound(m), NEW n \in 0..Len(m.queue.frames)
  PROVE  /\ Sound(Flushed(m, n)) /\ Same(Flushed(m, n), m)
         /\ Through(Flushed(m, n)) = Through(m)
         /\ \A e : Follows(m, e) => Follows(Flushed(m, n), e)
BY FlushedWhole, FlushedPart

(* Of the pictures offered each is counted once, but for the one at hand.     *)
Counted(m) ==
  /\ m.offered = m.forwarded + m.dropped + m.failed
  /\ m.forwarded + m.stray = Through(m)

AtHand(m) ==
  /\ m.offered = m.forwarded + m.dropped + m.failed + 1
  /\ m.forwarded + m.stray = Through(m)

TrackInv(m) == Sound(m) /\ Counted(m) /\ Follows(m, m.offered + 1)

LEMMA TakenAre ==
  ASSUME NEW m, Sound(m), NEW n \in Taken(m)
  PROVE  n \in 0..Len(m.queue.frames)
<1>1. Len(m.queue.frames) \in Nat
  BY DEF Sound, Track
<1> QED BY <1>1 DEF Taken

(* What is not of the queue or of the sink's count does not disturb it.       *)
LEMMA SoundOther ==
  ASSUME NEW m, Sound(m), NEW x, Fields(x),
         x.queue = m.queue, x.lost = m.lost, x.expects = m.expects, x.broken = m.broken,
         x.sink = [kind |-> x.sink.kind, format |-> x.sink.format, pixels |-> x.sink.pixels,
                   frames |-> m.sink.frames],
         x.recovering \in BOOLEAN, x.told \in BOOLEAN, x.forwarded \in Nat, x.dropped \in Nat,
         x.offered \in Nat, x.failed \in Nat, x.stray \in Nat
  PROVE  Sound(x) /\ Through(x) = Through(m)
<1>1. x.sink.frames = m.sink.frames
  OBVIOUS
<1>2. Track(x)
  <2>1. /\ m.queue = [frames |-> m.queue.frames, bytes |-> m.queue.bytes]
        /\ m.queue.frames \in Seq(Frame) /\ m.queue.bytes \in Int
        /\ m.sink.frames \in Nat /\ m.broken \in BOOLEAN /\ m.lost \in Nat
    BY DEF Sound, Track
  <2>2. x.sink = [kind |-> x.sink.kind, format |-> x.sink.format, pixels |-> x.sink.pixels,
                  frames |-> x.sink.frames]
    BY <1>1
  <2>3. x.queue = [frames |-> x.queue.frames, bytes |-> x.queue.bytes]
    BY <2>1
  <2> QED BY <1>1, <2>1, <2>2, <2>3 DEF Track
<1>3. Chain(x.queue.frames) /\ Starts(x)
  BY DEF Sound, Starts
<1> QED BY <1>1, <1>2, <1>3 DEF Sound, Through

LEMMA SinkIs ==
  ASSUME NEW m, Sound(m)
  PROVE  m.sink = [kind |-> m.sink.kind, format |-> m.sink.format, pixels |-> m.sink.pixels,
                   frames |-> m.sink.frames]
BY DEF Sound, Track

LEMMA CountsAre ==
  ASSUME NEW m, Sound(m)
  PROVE  /\ Fields(m) /\ m.recovering \in BOOLEAN /\ m.told \in BOOLEAN /\ m.forwarded \in Nat
         /\ m.dropped \in Nat /\ m.offered \in Nat /\ m.failed \in Nat /\ m.stray \in Nat
         /\ Through(m) \in Nat
<1>1. m.sink.frames \in Nat /\ Len(m.queue.frames) \in Nat /\ m.lost \in Nat
  BY DEF Sound, Track
<1>2. Through(m) \in Nat
  <2> DEFINE a == m.sink.frames
             b == Len(m.queue.frames)
             c == m.lost
  <2>1. Through(m) = a + b + c
    BY DEF Through
  <2>2. a \in Nat /\ b \in Nat /\ c \in Nat
    BY <1>1
  <2> HIDE DEF a, b, c
  <2>3. a + b + c \in Nat
    BY <2>2
  <2> QED BY <2>1, <2>3
<1> QED BY <1>2 DEF Sound, Track

LEMMA FailedFields ==
  ASSUME NEW m, Fields(m), NEW x, x = Failed(m)
  PROVE  /\ Fields(x) /\ x.queue = m.queue /\ x.lost = m.lost /\ x.expects = m.expects
         /\ x.broken = m.broken /\ x.sink = m.sink /\ x.recovering = m.recovering
         /\ x.told = TRUE /\ x.forwarded = m.forwarded /\ x.dropped = m.dropped
         /\ x.offered = m.offered /\ x.failed = m.failed + 1 /\ x.stray = m.stray
BY DEF Fields, Failed

(* A picture refused with an error counts, and the caller has been told.      *)
LEMMA FailedKeeps ==
  ASSUME NEW m, Sound(m), AtHand(m)
  PROVE  TrackInv(Failed(m)) /\ Failed(m).offered = m.offered
<1> DEFINE x == Failed(m)
<1>1. Fields(m)
  BY CountsAre
<1>2. /\ Fields(x) /\ x.queue = m.queue /\ x.lost = m.lost /\ x.expects = m.expects
      /\ x.broken = m.broken /\ x.sink = m.sink /\ x.recovering = m.recovering
      /\ x.told = TRUE /\ x.forwarded = m.forwarded /\ x.dropped = m.dropped
      /\ x.offered = m.offered /\ x.failed = m.failed + 1 /\ x.stray = m.stray
  BY <1>1, FailedFields
<1> HIDE DEF x
<1>3. Sound(x) /\ Through(x) = Through(m)
  <2>1. x.failed \in Nat
    BY <1>2, CountsAre
  <2> QED BY <1>2, <2>1, CountsAre, SinkIs, SoundOther
<1>4. Counted(x)
  BY <1>2, <1>3, CountsAre DEF AtHand, Counted
<1>5. Follows(x, x.offered + 1)
  BY <1>2 DEF Follows
<1> QED BY <1>2, <1>3, <1>4, <1>5 DEF TrackInv, x

(* A picture that is dropped leaves the track waiting for a key frame.        *)
Dropping(m) == [m EXCEPT !.recovering = TRUE, !.dropped = @ + 1]

LEMMA DroppingFields ==
  ASSUME NEW m, Fields(m), NEW x, x = Dropping(m)
  PROVE  /\ Fields(x) /\ x.queue = m.queue /\ x.lost = m.lost /\ x.expects = m.expects
         /\ x.broken = m.broken /\ x.sink = m.sink /\ x.recovering = TRUE
         /\ x.told = m.told /\ x.forwarded = m.forwarded /\ x.dropped = m.dropped + 1
         /\ x.offered = m.offered /\ x.failed = m.failed /\ x.stray = m.stray
BY DEF Fields, Dropping

LEMMA DroppingKeeps ==
  ASSUME NEW m, Sound(m), AtHand(m)
  PROVE  TrackInv(Dropping(m)) /\ Dropping(m).offered = m.offered
<1> DEFINE x == Dropping(m)
<1>1. Fields(m)
  BY CountsAre
<1>2. /\ Fields(x) /\ x.queue = m.queue /\ x.lost = m.lost /\ x.expects = m.expects
      /\ x.broken = m.broken /\ x.sink = m.sink /\ x.recovering = TRUE
      /\ x.told = m.told /\ x.forwarded = m.forwarded /\ x.dropped = m.dropped + 1
      /\ x.offered = m.offered /\ x.failed = m.failed /\ x.stray = m.stray
  BY <1>1, DroppingFields
<1> HIDE DEF x
<1>3. Sound(x) /\ Through(x) = Through(m)
  <2>1. x.dropped \in Nat
    BY <1>2, CountsAre
  <2> QED BY <1>2, <2>1, CountsAre, SinkIs, SoundOther
<1>4. Counted(x)
  BY <1>2, <1>3, CountsAre DEF AtHand, Counted
<1>5. Follows(x, x.offered + 1)
  BY <1>2 DEF Follows
<1> QED BY <1>2, <1>3, <1>4, <1>5 DEF TrackInv, x

(* A flush keeps the count, and what follows.                                 *)
LEMMA FlushedCounts ==
  ASSUME NEW m, Sound(m), NEW n \in Taken(m)
  PROVE  /\ Sound(Flushed(m, n)) /\ Same(Flushed(m, n), m)
         /\ AtHand(m) => AtHand(Flushed(m, n))
         /\ Counted(m) => Counted(Flushed(m, n))
         /\ \A e : Follows(m, e) => Follows(Flushed(m, n), e)
<1>1. n \in 0..Len(m.queue.frames)
  BY TakenAre
<1>2. /\ Sound(Flushed(m, n)) /\ Same(Flushed(m, n), m)
      /\ Through(Flushed(m, n)) = Through(m)
      /\ \A e : Follows(m, e) => Follows(Flushed(m, n), e)
  BY <1>1, FlushedKeeps
<1> QED BY <1>2 DEF Same, AtHand, Counted

(* A frame that fits is put behind one it can be shown after.                 *)
Ready(m, frame) ==
  /\ frame \in Frame /\ frame.told = m.told /\ frame.seq = m.offered /\ ~m.recovering
  /\ frame.key \/ Follows(m, frame.seq)

Waiting(m, queue) == [m EXCEPT !.queue = queue, !.told = FALSE]
Queueing(m, frame) == Waiting(m, Pushed(m.queue, frame))

LEMMA WaitingFields ==
  ASSUME NEW m, Fields(m), NEW queue, NEW x, x = Waiting(m, queue)
  PROVE  /\ Fields(x) /\ x.queue = queue /\ x.lost = m.lost /\ x.expects = m.expects
         /\ x.broken = m.broken /\ x.sink = m.sink /\ x.recovering = m.recovering
         /\ x.told \in BOOLEAN /\ ~x.told /\ x.forwarded = m.forwarded /\ x.dropped = m.dropped
         /\ x.offered = m.offered /\ x.failed = m.failed /\ x.stray = m.stray
         /\ x.drain = m.drain
BY DEF Fields, Waiting

LEMMA QueueingKeeps ==
  ASSUME NEW m, Sound(m), NEW frame, Ready(m, frame), Fits(m.queue, frame, MaxFrames, Budget)
  PROVE  /\ Sound(Queueing(m, frame)) /\ Through(Queueing(m, frame)) = Through(m) + 1
         /\ Follows(Queueing(m, frame), m.offered + 1)
         /\ Queueing(m, frame).offered = m.offered
         /\ Queueing(m, frame).forwarded = m.forwarded
         /\ Queueing(m, frame).dropped = m.dropped /\ Queueing(m, frame).failed = m.failed
         /\ Queueing(m, frame).stray = m.stray /\ Queueing(m, frame).drain = m.drain
         /\ Queueing(m, frame).recovering = m.recovering
<1> DEFINE frames == m.queue.frames
           longer == Append(frames, frame)
           L == Len(frames)
           queue == Pushed(m.queue, frame)
           x == Queueing(m, frame)
<1>1. /\ Fields(m) /\ frames \in Seq(Frame) /\ L \in Nat /\ DOMAIN frames = 1..L
      /\ m.queue.bytes \in Int /\ m.sink.frames \in Nat /\ m.lost \in Nat
      /\ frame \in Frame /\ frame.size \in Nat
  BY DEF Sound, Track, Ready, Frame
<1>2. /\ queue = [frames |-> longer, bytes |-> m.queue.bytes + frame.size]
      /\ longer \in Seq(Frame) /\ Len(longer) = L + 1 /\ longer[L + 1] = frame
      /\ \A i \in 1..L : longer[i] = frames[i]
  BY <1>1 DEF Pushed
<1>3. L + 1 =< MaxFrames /\ m.queue.bytes + frame.size =< Budget
  BY <1>1 DEF Fits
<1> HIDE DEF queue, longer
<1>4. /\ Fields(x) /\ x.queue = queue /\ x.lost = m.lost /\ x.expects = m.expects
      /\ x.broken = m.broken /\ x.sink = m.sink /\ x.recovering = m.recovering
      /\ x.told \in BOOLEAN /\ ~x.told /\ x.forwarded = m.forwarded /\ x.dropped = m.dropped
      /\ x.offered = m.offered /\ x.failed = m.failed /\ x.stray = m.stray
      /\ x.drain = m.drain
  <2>1. x = Waiting(m, queue) /\ Fields(m)
    BY <1>1 DEF Queueing, queue
  <2> HIDE DEF x, frames
  <2> QED BY <2>1, WaitingFields
<1> HIDE DEF x
<1>5. Track(x)
  <2>1. /\ x.queue = [frames |-> x.queue.frames, bytes |-> x.queue.bytes]
        /\ x.queue.frames \in Seq(Frame) /\ x.queue.bytes \in Int
    <3>1. m.queue.bytes + frame.size \in Int
      BY <1>1
    <3> QED BY <1>2, <1>4, <3>1
  <2>2. m.broken \in BOOLEAN
    BY DEF Sound, Track
  <2> QED BY <1>1, <1>4, <2>1, <2>2, CountsAre, SinkIs DEF Track
<1>6. m.recovering = FALSE /\ (frame.key \/ frame.told \/ (~m.told /\ Follows(m, frame.seq)))
  BY CountsAre DEF Ready
<1>7. Chain(longer)
  <2> SUFFICES ASSUME NEW i \in 2..(L + 1)
               PROVE  Shows(longer[i], longer[i - 1].seq + 1)
    BY <1>2 DEF Chain
  <2>1. CASE i # L + 1
    <3>1. i \in 2..L /\ i \in 1..L /\ i - 1 \in 1..L
      BY <1>1, <2>1
    <3>2. Shows(frames[i], frames[i - 1].seq + 1)
      BY <3>1 DEF Sound, Chain
    <3> QED BY <1>2, <3>1, <3>2
  <2>2. CASE i = L + 1
    <3>1. L \in 1..L /\ i - 1 = L /\ frames # <<>>
      <4>1. L # 0
        BY <1>1, <2>2
      <4> QED BY <1>1, <2>2, <4>1
    <3>2. longer[i] = frame /\ longer[i - 1] = frames[L]
      BY <1>2, <2>2, <3>1
    <3>3. ~m.told /\ Follows(m, frame.seq) => frames[L].seq + 1 = frame.seq
      BY <1>6, <3>1 DEF Follows
    <3> QED BY <1>6, <3>2, <3>3 DEF Shows
  <2> QED BY <2>1, <2>2
<1>8. Starts(x)
  <2>1. CASE L = 0
    <3>1. frames = <<>> /\ x.queue.frames[1] = frame
      BY <1>1, <1>2, <1>4, <2>1
    <3>2. ~m.told /\ Follows(m, frame.seq) => m.expects \in {None, frame.seq}
      BY <1>6, <3>1 DEF Follows
    <3> QED BY <1>4, <1>6, <3>1, <3>2 DEF Starts, Shows
  <2>2. CASE L # 0
    <3>1. frames # <<>> /\ x.queue.frames[1] = frames[1]
      BY <1>1, <1>2, <1>4, <2>2
    <3> QED BY <1>4, <3>1 DEF Sound, Starts
  <2> QED BY <2>1, <2>2
<1>9. Sound(x)
  <2>1. ~m.broken
    BY DEF Sound
  <2> QED BY <1>2, <1>3, <1>4, <1>5, <1>7, <1>8, <2>1 DEF Sound
<1>10. Through(x) = Through(m) + 1
  <2>1. Len(x.queue.frames) = L + 1
    BY <1>2, <1>4
  <2> DEFINE a == m.sink.frames
             b == m.lost
  <2>2. Through(x) = a + (L + 1) + b /\ Through(m) = a + L + b
    BY <1>4, <2>1 DEF Through
  <2>3. a \in Nat /\ b \in Nat /\ L \in Nat
    BY <1>1
  <2> HIDE DEF a, b, L
  <2>4. a + (L + 1) + b = a + L + b + 1
    BY <2>3
  <2> QED BY <2>2, <2>4
<1>11. Follows(x, m.offered + 1)
  <2>1. x.queue.frames # <<>> /\ x.queue.frames[Len(x.queue.frames)] = frame
    BY <1>1, <1>2, <1>4
  <2> QED BY <2>1 DEF Follows, Ready
<1> QED BY <1>4, <1>9, <1>10, <1>11 DEF x

(* A track whose queue holds the picture at hand, which is not counted yet.   *)
Pushed1(m) ==
  /\ Sound(m) /\ Follows(m, m.offered + 1)
  /\ m.offered = m.forwarded + m.dropped + m.failed + 1
  /\ m.forwarded + m.stray + 1 = Through(m)

Forwarding(m) == [m EXCEPT !.forwarded = @ + 1]
Straying(m) == [m EXCEPT !.stray = @ + 1]

LEMMA ForwardingFields ==
  ASSUME NEW m, Fields(m), NEW x, x = Forwarding(m)
  PROVE  /\ Fields(x) /\ x.queue = m.queue /\ x.lost = m.lost /\ x.expects = m.expects
         /\ x.broken = m.broken /\ x.sink = m.sink /\ x.recovering = m.recovering
         /\ x.told = m.told /\ x.forwarded = m.forwarded + 1 /\ x.dropped = m.dropped
         /\ x.offered = m.offered /\ x.failed = m.failed /\ x.stray = m.stray
BY DEF Fields, Forwarding

LEMMA StrayingFields ==
  ASSUME NEW m, Fields(m), NEW x, x = Straying(m)
  PROVE  /\ Fields(x) /\ x.queue = m.queue /\ x.lost = m.lost /\ x.expects = m.expects
         /\ x.broken = m.broken /\ x.sink = m.sink /\ x.recovering = m.recovering
         /\ x.told = m.told /\ x.forwarded = m.forwarded /\ x.dropped = m.dropped
         /\ x.offered = m.offered /\ x.failed = m.failed /\ x.stray = m.stray + 1
BY DEF Fields, Straying

LEMMA ForwardingKeeps ==
  ASSUME NEW m, Pushed1(m)
  PROVE  TrackInv(Forwarding(m)) /\ Forwarding(m).offered = m.offered
<1> DEFINE x == Forwarding(m)
<1>0. Sound(m)
  BY DEF Pushed1
<1>1. Fields(m)
  BY <1>0, CountsAre
<1>2. /\ Fields(x) /\ x.queue = m.queue /\ x.lost = m.lost /\ x.expects = m.expects
      /\ x.broken = m.broken /\ x.sink = m.sink /\ x.recovering = m.recovering
      /\ x.told = m.told /\ x.forwarded = m.forwarded + 1 /\ x.dropped = m.dropped
      /\ x.offered = m.offered /\ x.failed = m.failed /\ x.stray = m.stray
  BY <1>1, ForwardingFields
<1> HIDE DEF x
<1>3. Sound(x) /\ Through(x) = Through(m)
  <2>1. x.forwarded \in Nat
    BY <1>0, <1>2, CountsAre
  <2> QED BY <1>0, <1>2, <2>1, CountsAre, SinkIs, SoundOther
<1>4. Counted(x)
  BY <1>0, <1>2, <1>3, CountsAre DEF Pushed1, Counted
<1>5. Follows(x, x.offered + 1)
  BY <1>2 DEF Follows, Pushed1
<1> QED BY <1>2, <1>3, <1>4, <1>5 DEF TrackInv, x

LEMMA StrayingKeeps ==
  ASSUME NEW m, Pushed1(m)
  PROVE  /\ Sound(Straying(m)) /\ AtHand(Straying(m)) /\ Straying(m).offered = m.offered
<1> DEFINE x == Straying(m)
<1>0. Sound(m)
  BY DEF Pushed1
<1>1. Fields(m)
  BY <1>0, CountsAre
<1>2. /\ Fields(x) /\ x.queue = m.queue /\ x.lost = m.lost /\ x.expects = m.expects
      /\ x.broken = m.broken /\ x.sink = m.sink /\ x.recovering = m.recovering
      /\ x.told = m.told /\ x.forwarded = m.forwarded /\ x.dropped = m.dropped
      /\ x.offered = m.offered /\ x.failed = m.failed /\ x.stray = m.stray + 1
  BY <1>1, StrayingFields
<1> HIDE DEF x
<1>3. Sound(x) /\ Through(x) = Through(m)
  <2>1. x.stray \in Nat
    BY <1>0, <1>2, CountsAre
  <2> QED BY <1>0, <1>2, <2>1, CountsAre, SinkIs, SoundOther
<1>4. AtHand(x)
  BY <1>0, <1>2, <1>3, CountsAre DEF Pushed1, AtHand
<1> QED BY <1>2, <1>3, <1>4 DEF x

LEMMA QueuedKeeps ==
  ASSUME NEW m, Sound(m), AtHand(m), NEW frame, Ready(m, frame),
         Fits(m.queue, frame, MaxFrames, Budget), NEW x \in Queued(m, frame)
  PROVE  TrackInv(x) /\ x.offered = m.offered
<1> DEFINE q == Queueing(m, frame)
<1>1. /\ Sound(q) /\ Through(q) = Through(m) + 1 /\ Follows(q, m.offered + 1)
      /\ q.offered = m.offered /\ q.forwarded = m.forwarded
      /\ q.dropped = m.dropped /\ q.failed = m.failed /\ q.stray = m.stray
  BY QueueingKeeps
<1>2. x \in IF ~m.drain THEN {Forwarding(q)}
            ELSE {IF Fails(q, n) THEN Failed(Straying(Flushed(q, n)))
                  ELSE Forwarding(Flushed(q, n)) : n \in Taken(q)}
  BY DEF Queued, Queueing, Waiting, Forwarding, Straying
<1> HIDE DEF q
<1>3. Pushed1(q)
  BY <1>1, CountsAre DEF Pushed1, AtHand
<1>4. CASE x = Forwarding(q)
  BY <1>1, <1>3, <1>4, ForwardingKeeps
<1>5. ASSUME NEW n \in Taken(q),
             x = IF Fails(q, n) THEN Failed(Straying(Flushed(q, n))) ELSE Forwarding(Flushed(q, n))
      PROVE  TrackInv(x) /\ x.offered = m.offered
  <2> DEFINE y == Flushed(q, n)
  <2>1. n \in 0..Len(q.queue.frames)
    BY <1>1, TakenAre
  <2>2. /\ Sound(y) /\ Same(y, q) /\ Through(y) = Through(q)
        /\ \A e : Follows(q, e) => Follows(y, e)
    BY <1>1, <2>1, FlushedKeeps
  <2> HIDE DEF y
  <2>3. Pushed1(y) /\ y.offered = m.offered
    BY <1>1, <1>3, <2>2 DEF Pushed1, Same
  <2>4. CASE Fails(q, n)
    <3>1. Sound(Straying(y)) /\ AtHand(Straying(y)) /\ Straying(y).offered = m.offered
      BY <2>3, StrayingKeeps
    <3> QED BY <1>5, <2>4, <3>1, FailedKeeps DEF y
  <2>5. CASE ~Fails(q, n)
    BY <1>5, <2>3, <2>5, ForwardingKeeps DEF y
  <2> QED BY <2>4, <2>5
<1> QED BY <1>2, <1>4, <1>5

LEMMA OverBudgetKeeps ==
  ASSUME NEW m, Sound(m), AtHand(m), NEW x \in OverBudget(m)
  PROVE  TrackInv(x) /\ x.offered = m.offered
<1>1. PICK n \in Taken(m) : x = IF Fails(m, n) THEN Failed(Flushed(m, n))
                                ELSE Dropping(Flushed(m, n))
  BY DEF OverBudget, Dropping
<1>2. Sound(Flushed(m, n)) /\ AtHand(Flushed(m, n)) /\ Flushed(m, n).offered = m.offered
  BY FlushedCounts DEF Same
<1> QED BY <1>1, <1>2, FailedKeeps, DroppingKeeps

LEMMA PushOrDropKeeps ==
  ASSUME NEW m, Sound(m), AtHand(m), NEW frame, Ready(m, frame), NEW x \in PushOrDrop(m, frame)
  PROVE  TrackInv(x) /\ x.offered = m.offered
BY QueuedKeeps, OverBudgetKeeps DEF PushOrDrop

(* After the queue was flushed the track waits no longer.                     *)
Recovering(m, recovering) == [m EXCEPT !.recovering = recovering]

LEMMA RecoveringFields ==
  ASSUME NEW m, Fields(m), NEW recovering, NEW x, x = Recovering(m, recovering)
  PROVE  /\ Fields(x) /\ x.queue = m.queue /\ x.lost = m.lost /\ x.expects = m.expects
         /\ x.broken = m.broken /\ x.sink = m.sink /\ x.recovering = recovering
         /\ x.told = m.told /\ x.forwarded = m.forwarded /\ x.dropped = m.dropped
         /\ x.offered = m.offered /\ x.failed = m.failed /\ x.stray = m.stray
BY DEF Fields, Recovering

LEMMA RecoveredKeeps ==
  ASSUME NEW m, Sound(m), AtHand(m), NEW r \in Recovered(m)
  PROVE  /\ r.ok \in BOOLEAN /\ r.track.offered = m.offered
         /\ ~r.ok => TrackInv(r.track)
         /\ r.ok => /\ Sound(r.track) /\ AtHand(r.track)
                    /\ ~r.track.recovering /\ r.track.told = m.told
<1>1. PICK n \in Taken(m) :
        r = IF Fails(m, n) THEN [track |-> Failed(Flushed(m, n)), ok |-> FALSE]
            ELSE [track |-> Recovering(Flushed(m, n), FALSE), ok |-> TRUE]
  BY DEF Recovered, Recovering
<1> DEFINE y == Flushed(m, n)
<1>2. Sound(y) /\ AtHand(y) /\ y.offered = m.offered /\ y.told = m.told
  BY FlushedCounts DEF Same
<1> HIDE DEF y
<1>3. CASE Fails(m, n)
  <2>1. TrackInv(Failed(y)) /\ Failed(y).offered = m.offered
    BY <1>2, FailedKeeps
  <2>2. r.track = Failed(y) /\ r.ok = FALSE
    BY <1>1, <1>3 DEF y
  <2> QED BY <2>1, <2>2
<1>4. CASE ~Fails(m, n)
  <2> DEFINE no == FALSE
             x == Recovering(y, no)
  <2>1. r.track = x /\ r.ok = TRUE
    BY <1>1, <1>4 DEF y
  <2>2. no \in BOOLEAN /\ ~no
    OBVIOUS
  <2> HIDE DEF no
  <2>3. /\ Fields(x) /\ x.queue = y.queue /\ x.lost = y.lost /\ x.expects = y.expects
        /\ x.broken = y.broken /\ x.sink = y.sink /\ x.recovering = no
        /\ x.told = y.told /\ x.forwarded = y.forwarded /\ x.dropped = y.dropped
        /\ x.offered = y.offered /\ x.failed = y.failed /\ x.stray = y.stray
    BY <1>2, CountsAre, RecoveringFields
  <2> HIDE DEF x
  <2>4. Sound(x) /\ Through(x) = Through(y)
    BY <1>2, <2>2, <2>3, CountsAre, SinkIs, SoundOther
  <2>5. AtHand(x)
    BY <1>2, <2>3, <2>4 DEF AtHand
  <2> QED BY <1>2, <2>1, <2>2, <2>3, <2>4, <2>5
<1> QED BY <1>3, <1>4

LEMMA OnAccessUnitKeeps ==
  ASSUME NEW m, Sound(m), AtHand(m), NEW frame \in Frame,
         frame.told = m.told, frame.seq = m.offered, Follows(m, frame.seq),
         NEW x \in OnAccessUnit(m, frame)
  PROVE  TrackInv(x)
<1>1. CASE x = Failed(m)
  BY <1>1, FailedKeeps
<1>2. ASSUME m.recovering, x = [m EXCEPT !.dropped = @ + 1]
      PROVE  TrackInv(x)
  <2>1. x = Dropping(m)
    <3>1. m.recovering = TRUE /\ Fields(m)
      BY <1>2, CountsAre
    <3>2. [m EXCEPT !.dropped = @ + 1] = [m EXCEPT !.recovering = TRUE, !.dropped = @ + 1]
      BY <3>1 DEF Fields
    <3> QED BY <1>2, <3>2 DEF Dropping
  <2> QED BY <2>1, DroppingKeeps
<1>3. ASSUME frame.key, NEW r \in Recovered(m),
             x \in IF r.ok THEN PushOrDrop(r.track, frame) ELSE {r.track}
      PROVE  TrackInv(x)
  <2>1. /\ r.ok \in BOOLEAN /\ r.track.offered = m.offered /\ (~r.ok => TrackInv(r.track))
        /\ r.ok => /\ Sound(r.track) /\ AtHand(r.track)
                   /\ ~r.track.recovering /\ r.track.told = m.told
    BY RecoveredKeeps
  <2>2. r.ok => Ready(r.track, frame)
    BY <1>3, <2>1 DEF Ready
  <2> QED BY <1>3, <2>1, <2>2, PushOrDropKeeps
<1>4. ASSUME ~m.recovering, x \in PushOrDrop(m, frame)
      PROVE  TrackInv(x)
  <2>1. Ready(m, frame)
    BY <1>4 DEF Ready
  <2> QED BY <1>4, <2>1, PushOrDropKeeps
<1> QED BY <1>1, <1>2, <1>3, <1>4 DEF OnAccessUnit

(* The actions on the track.                                                  *)
MirrorInv == TrackInv(mirror)

LEMMA OfferedFields ==
  ASSUME NEW m, Fields(m), NEW x, x = Offered(m)
  PROVE  /\ Fields(x) /\ x.queue = m.queue /\ x.lost = m.lost /\ x.expects = m.expects
         /\ x.broken = m.broken /\ x.sink = m.sink /\ x.recovering = m.recovering
         /\ x.told = m.told /\ x.forwarded = m.forwarded /\ x.dropped = m.dropped
         /\ x.offered = m.offered + 1 /\ x.failed = m.failed /\ x.stray = m.stray
BY DEF Fields, Offered

LEMMA PictureKeeps ==
  ASSUME MirrorInv, NEW raw \in Frames, OnPicture(raw)
  PROVE  MirrorInv'
<1> DEFINE m == mirror
           x == Offered(m)
           frame == [seq |-> m.offered + 1, key |-> "keyframe" \in raw.flags,
                     size |-> raw.declared, told |-> m.told]
<1>1. Sound(m) /\ Counted(m) /\ Follows(m, m.offered + 1)
  BY DEF MirrorInv, TrackInv
<1>2. /\ Fields(x) /\ x.queue = m.queue /\ x.lost = m.lost /\ x.expects = m.expects
      /\ x.broken = m.broken /\ x.sink = m.sink /\ x.recovering = m.recovering
      /\ x.told = m.told /\ x.forwarded = m.forwarded /\ x.dropped = m.dropped
      /\ x.offered = m.offered + 1 /\ x.failed = m.failed /\ x.stray = m.stray
  BY <1>1, CountsAre, OfferedFields
<1>3. mirror' \in OnAccessUnit(x, frame)
  BY DEF OnPicture
<1>4. /\ frame \in Frame /\ frame.told = m.told /\ frame.seq = m.offered + 1
  <2>1. raw.declared \in Nat
    BY AirPlayAssumption
  <2>2. m.told \in BOOLEAN /\ m.offered + 1 \in Nat
    BY <1>1, CountsAre
  <2> QED BY <2>1, <2>2 DEF Frame
<1> HIDE DEF x, frame
<1>5. Sound(x) /\ Through(x) = Through(m)
  <2>1. x.offered \in Nat
    BY <1>1, <1>2, CountsAre
  <2> QED BY <1>1, <1>2, <2>1, CountsAre, SinkIs, SoundOther
<1>6. AtHand(x)
  BY <1>1, <1>2, <1>5, CountsAre DEF AtHand, Counted
<1>7. Follows(x, frame.seq)
  BY <1>1, <1>2, <1>4 DEF Follows
<1>8. TrackInv(mirror')
  BY <1>2, <1>3, <1>4, <1>5, <1>6, <1>7, OnAccessUnitKeeps
<1> QED BY <1>8 DEF MirrorInv

(* A flush, and a configuration of the sink, lose nothing from sight.         *)
LEMMA FlushKeeps ==
  ASSUME NEW m, TrackInv(m), NEW n \in Taken(m)
  PROVE  TrackInv(Flushed(m, n))
BY FlushedCounts DEF TrackInv, Same

LEMMA OtherKeeps ==
  ASSUME NEW m, TrackInv(m), NEW x, Fields(x),
         x.queue = m.queue, x.lost = m.lost, x.expects = m.expects, x.broken = m.broken,
         x.sink = [kind |-> x.sink.kind, format |-> x.sink.format, pixels |-> x.sink.pixels,
                   frames |-> m.sink.frames],
         x.recovering = m.recovering, x.told = m.told, x.forwarded = m.forwarded,
         x.dropped = m.dropped, x.offered = m.offered, x.failed = m.failed, x.stray = m.stray
  PROVE  TrackInv(x)
<1>1. Sound(m) /\ Counted(m) /\ Follows(m, m.offered + 1)
  BY DEF TrackInv
<1>2. Sound(x) /\ Through(x) = Through(m)
  BY <1>1, CountsAre, SoundOther
<1> QED BY <1>1, <1>2 DEF TrackInv, Counted, Follows

LEMMA SinkConfigured ==
  ASSUME NEW m, Sound(m), NEW id, NEW pixels, NEW x, x = SinkOnConfig(m.sink, id, pixels)
  PROVE  x = [kind |-> x.kind, format |-> x.format, pixels |-> x.pixels,
              frames |-> m.sink.frames]
<1> DEFINE s == m.sink
           p == IF pixels = None THEN s.pixels ELSE pixels
<1>1. s = [kind |-> s.kind, format |-> s.format, pixels |-> s.pixels, frames |-> s.frames]
  BY SinkIs
<1>2. x = [s EXCEPT !.format = id, !.pixels = p]
  BY DEF SinkOnConfig
<1> HIDE DEF s, p
<1>3. x = [kind |-> s.kind, format |-> id, pixels |-> p, frames |-> s.frames]
  BY <1>1, <1>2
<1>4. x = [kind |-> x.kind, format |-> x.format, pixels |-> x.pixels, frames |-> s.frames]
  BY <1>3
<1> QED BY <1>4 DEF s

SinkSet(m, sink) == [m EXCEPT !.sink = sink]

LEMMA SinkSetFields ==
  ASSUME NEW m, Fields(m), NEW sink, NEW x, x = SinkSet(m, sink)
  PROVE  /\ Fields(x) /\ x.queue = m.queue /\ x.lost = m.lost /\ x.expects = m.expects
         /\ x.broken = m.broken /\ x.sink = sink /\ x.recovering = m.recovering
         /\ x.told = m.told /\ x.forwarded = m.forwarded /\ x.dropped = m.dropped
         /\ x.offered = m.offered /\ x.failed = m.failed /\ x.stray = m.stray
BY DEF Fields, SinkSet

LEMMA ReportedFields ==
  ASSUME NEW m, Fields(m), NEW x, x = Reported(m)
  PROVE  /\ Fields(x) /\ x.queue = m.queue /\ x.lost = m.lost /\ x.expects = m.expects
         /\ x.broken = m.broken /\ x.sink = m.sink /\ x.recovering = m.recovering
         /\ x.told = TRUE /\ x.forwarded = m.forwarded /\ x.dropped = m.dropped
         /\ x.offered = m.offered /\ x.failed = m.failed /\ x.stray = m.stray
BY DEF Fields, Reported

LEMMA ReportedKeeps ==
  ASSUME NEW m, Sound(m), Counted(m)
  PROVE  TrackInv(Reported(m))
<1> DEFINE x == Reported(m)
<1>1. /\ Fields(x) /\ x.queue = m.queue /\ x.lost = m.lost /\ x.expects = m.expects
      /\ x.broken = m.broken /\ x.sink = m.sink /\ x.recovering = m.recovering
      /\ x.told = TRUE /\ x.forwarded = m.forwarded /\ x.dropped = m.dropped
      /\ x.offered = m.offered /\ x.failed = m.failed /\ x.stray = m.stray
  BY CountsAre, ReportedFields
<1> HIDE DEF x
<1>2. Sound(x) /\ Through(x) = Through(m)
  BY <1>1, CountsAre, SinkIs, SoundOther
<1>3. Counted(x) /\ Follows(x, x.offered + 1)
  BY <1>1, <1>2 DEF Counted, Follows
<1> QED BY <1>2, <1>3 DEF TrackInv, x

(* The queue is handed on, and the caller told of an error if there was one.  *)
LEMMA EmptiedKeeps ==
  ASSUME NEW m, TrackInv(m), NEW n \in Taken(m)
  PROVE  TrackInv(Flushed(m, n)) /\ TrackInv(Reported(Flushed(m, n)))
<1>1. Sound(m) /\ Counted(m)
  BY DEF TrackInv
<1>2. Sound(Flushed(m, n)) /\ Counted(Flushed(m, n))
  BY <1>1, FlushedCounts
<1> QED BY <1>2, FlushKeeps, ReportedKeeps

LEMMA OtherFrameKeeps ==
  ASSUME MirrorInv, NEW raw, OnOtherFrame(raw)
  PROVE  MirrorInv'
<1> DEFINE m == mirror
<1>0. TrackInv(m) /\ Sound(m)
  BY DEF MirrorInv, TrackInv
<1>1. Kind[raw.kind] \in {"pcm", "config", "end"}
  <2>1. raw.kind \in 1..4 /\ Kind[raw.kind] # "unit"
    BY DEF OnOtherFrame, Decodes, Kind
  <2> QED BY <2>1 DEF Kind
<1>2. CASE Kind[raw.kind] = "config"
  <2> DEFINE sink == SinkOnConfig(m.sink, m.format, m.pixels)
             x == SinkSet(m, sink)
  <2>1. mirror' = m \/ mirror' = x
    BY <1>2 DEF OnOtherFrame, SinkSet
  <2>2. sink = [kind |-> sink.kind, format |-> sink.format, pixels |-> sink.pixels,
                frames |-> m.sink.frames]
    BY <1>0, SinkConfigured
  <2> HIDE DEF sink
  <2>3. /\ Fields(x) /\ x.queue = m.queue /\ x.lost = m.lost /\ x.expects = m.expects
        /\ x.broken = m.broken /\ x.sink = sink /\ x.recovering = m.recovering
        /\ x.told = m.told /\ x.forwarded = m.forwarded /\ x.dropped = m.dropped
        /\ x.offered = m.offered /\ x.failed = m.failed /\ x.stray = m.stray
    BY <1>0, CountsAre, SinkSetFields
  <2> HIDE DEF x
  <2>4. TrackInv(x)
    BY <1>0, <2>2, <2>3, OtherKeeps
  <2> QED BY <1>0, <2>1, <2>4 DEF MirrorInv
<1>3. CASE Kind[raw.kind] = "pcm"
  BY <1>0, <1>3 DEF OnOtherFrame, MirrorInv
<1>4. CASE Kind[raw.kind] = "end"
  <2>1. PICK n \in Taken(m) : \/ mirror' = m \/ mirror' = Flushed(m, n)
                               \/ mirror' = Reported(Flushed(m, n))
    BY <1>4 DEF OnOtherFrame
  <2> QED BY <1>0, <2>1, EmptiedKeeps DEF MirrorInv
<1> QED BY <1>1, <1>2, <1>3, <1>4

Changed(m, id, codec, pixels, recovering, sink) ==
  [m EXCEPT !.tracker = id, !.codec = codec, !.pixels = pixels,
            !.format = id, !.recovering = recovering, !.sink = sink]

LEMMA ChangedFields ==
  ASSUME NEW m, Fields(m), NEW id, NEW codec, NEW pixels, NEW recovering, NEW sink,
         NEW x, x = Changed(m, id, codec, pixels, recovering, sink)
  PROVE  /\ Fields(x) /\ x.queue = m.queue /\ x.lost = m.lost /\ x.expects = m.expects
         /\ x.broken = m.broken /\ x.sink = sink /\ x.recovering = recovering
         /\ x.told = m.told /\ x.forwarded = m.forwarded /\ x.dropped = m.dropped
         /\ x.offered = m.offered /\ x.failed = m.failed /\ x.stray = m.stray
BY DEF Fields, Changed

LEMMA ConfigureKeeps ==
  ASSUME MirrorInv, NEW codec, NEW id, NEW pixels, NEW discontinuity,
         Configure(codec, id, pixels, discontinuity)
  PROVE  MirrorInv'
<1> DEFINE m == mirror
           no == FALSE
           sink == SinkOnConfig(m.sink, id, pixels)
           x == Changed(m, id, codec, pixels, no, sink)
<1>0. TrackInv(m) /\ Sound(m) /\ Counted(m)
  BY DEF MirrorInv, TrackInv
<1>1. PICK n \in Taken(x) : mirror' = Reported(Flushed(x, n))
  BY DEF Configure, Changed, Reported
<1>2. sink = [kind |-> sink.kind, format |-> sink.format, pixels |-> sink.pixels,
              frames |-> m.sink.frames]
  BY <1>0, SinkConfigured
<1>3. no \in BOOLEAN
  OBVIOUS
<1> HIDE DEF sink, no
<1>4. /\ Fields(x) /\ x.queue = m.queue /\ x.lost = m.lost /\ x.expects = m.expects
      /\ x.broken = m.broken /\ x.sink = sink /\ x.recovering = no
      /\ x.told = m.told /\ x.forwarded = m.forwarded /\ x.dropped = m.dropped
      /\ x.offered = m.offered /\ x.failed = m.failed /\ x.stray = m.stray
  BY <1>0, CountsAre, ChangedFields
<1> HIDE DEF x
<1>5. Sound(x) /\ Counted(x)
  <2>1. Sound(x) /\ Through(x) = Through(m)
    BY <1>0, <1>2, <1>3, <1>4, CountsAre, SoundOther
  <2> QED BY <1>0, <1>4, <2>1 DEF Counted
<1>6. Sound(Flushed(x, n)) /\ Counted(Flushed(x, n))
  BY <1>5, FlushedCounts
<1>7. TrackInv(mirror')
  BY <1>1, <1>6, ReportedKeeps
<1> QED BY <1>7 DEF MirrorInv

Draining(m, drain) == [m EXCEPT !.drain = drain]

LEMMA DrainingFields ==
  ASSUME NEW m, Fields(m), NEW drain, NEW x, x = Draining(m, drain)
  PROVE  /\ Fields(x) /\ x.queue = m.queue /\ x.lost = m.lost /\ x.expects = m.expects
         /\ x.broken = m.broken /\ x.sink = m.sink /\ x.recovering = m.recovering
         /\ x.told = m.told /\ x.forwarded = m.forwarded /\ x.dropped = m.dropped
         /\ x.offered = m.offered /\ x.failed = m.failed /\ x.stray = m.stray
BY DEF Fields, Draining

LEMMA SetDrainKeeps ==
  ASSUME MirrorInv, NEW drain, SetDrain(drain)
  PROVE  MirrorInv'
<1> DEFINE x == Draining(mirror, drain)
<1>1. TrackInv(mirror) /\ Sound(mirror) /\ mirror' = x
  BY DEF MirrorInv, TrackInv, SetDrain, Draining
<1>2. /\ Fields(x) /\ x.queue = mirror.queue /\ x.lost = mirror.lost
      /\ x.expects = mirror.expects /\ x.broken = mirror.broken /\ x.sink = mirror.sink
      /\ x.recovering = mirror.recovering /\ x.told = mirror.told
      /\ x.forwarded = mirror.forwarded /\ x.dropped = mirror.dropped
      /\ x.offered = mirror.offered /\ x.failed = mirror.failed /\ x.stray = mirror.stray
  BY <1>1, CountsAre, DrainingFields
<1> HIDE DEF x
<1>3. TrackInv(x)
  BY <1>1, <1>2, SinkIs, OtherKeeps
<1> QED BY <1>1, <1>3 DEF MirrorInv

LEMMA FinishKeeps ==
  ASSUME MirrorInv, Finish
  PROVE  MirrorInv'
<1>1. PICK n \in Taken(mirror) : \/ mirror' = Flushed(mirror, n)
                                \/ mirror' = Reported(Flushed(mirror, n))
  BY DEF Finish
<1> QED BY <1>1, EmptiedKeeps DEF MirrorInv

LEMMA NewMirrorIsSound ==
  ASSUME NEW kind, NEW m, m = NewMirror(kind)
  PROVE  TrackInv(m)
<1>1. Fields(m)
  BY DEF NewMirror, Fields
<1>2. /\ m.queue = [frames |-> <<>>, bytes |-> 0]
      /\ m.sink = [kind |-> kind, format |-> None, pixels |-> None, frames |-> 0]
      /\ m.recovering = FALSE /\ m.told = FALSE /\ m.broken = FALSE
      /\ m.forwarded = 0 /\ m.dropped = 0 /\ m.offered = 0
      /\ m.failed = 0 /\ m.stray = 0 /\ m.lost = 0 /\ m.expects = None
  BY DEF NewMirror, EmptyQueue, NewSink
<1>3. <<>> \in Seq(Frame) /\ Len(<<>>) = 0
  OBVIOUS
<1>4. Track(m)
  <2>1. /\ m.queue = [frames |-> m.queue.frames, bytes |-> m.queue.bytes]
        /\ m.queue.frames = <<>> /\ m.queue.bytes = 0
    BY <1>2
  <2>2. /\ m.sink = [kind |-> m.sink.kind, format |-> m.sink.format, pixels |-> m.sink.pixels,
                     frames |-> m.sink.frames]
        /\ m.sink.frames = 0
    BY <1>2
  <2>3. m.queue.frames \in Seq(Frame) /\ m.queue.bytes \in Int /\ m.sink.frames \in Nat
    BY <1>3, <2>1, <2>2
  <2>4. m.recovering \in BOOLEAN /\ m.told \in BOOLEAN /\ m.broken \in BOOLEAN
    BY <1>2
  <2>5. /\ m.forwarded \in Nat /\ m.dropped \in Nat /\ m.offered \in Nat
        /\ m.failed \in Nat /\ m.stray \in Nat /\ m.lost \in Nat
    BY <1>2
  <2> QED BY <1>1, <2>1, <2>2, <2>3, <2>4, <2>5 DEF Track
<1>5. Sound(m)
  BY <1>2, <1>3, <1>4 DEF Sound, Chain, Starts
<1>6. Counted(m) /\ Follows(m, m.offered + 1)
  BY <1>2, <1>3 DEF Counted, Through, Follows
<1> QED BY <1>5, <1>6 DEF TrackInv

----------------------------------------------------------------------------
(* The audio track.  What a block loses to rounding is less than a frame of   *)
(* the source and less than a frame of the device, on each channel.           *)

LEMMA DivisionGives ==
  ASSUME NEW a \in Nat, NEW b \in Nat \ {0}
  PROVE  /\ a \div b \in Nat
         /\ a - (a \div b) * b \in 0..(b - 1)
OBVIOUS

LEMMA BlockKeepsDuration ==
  ASSUME NEW n \in Nat, NEW channels \in 1..2, NEW source \in Nat \ {0}, NEW device \in Nat \ {0},
         NEW o, o = SamplesOut(n, channels, source, device)
  PROVE  /\ o \in Nat
         /\ n * device - o * source >= 0
         /\ n * device - o * source =< (channels - 1) * device + channels * (source - 1)
<1>1. CASE source = device
  <2>1. o = n
    BY <1>1 DEF SamplesOut
  <2>2. n * device - o * source = 0
    BY <1>1, <2>1
  <2>3. CASE channels = 1
    BY <2>1, <2>2, <2>3
  <2>4. CASE channels = 2
    BY <2>1, <2>2, <2>4
  <2> QED BY <2>3, <2>4
<1>2. CASE source # device
  <2> DEFINE q == n \div channels
             f == (q * device) \div source
             r == n - q * channels
             e == q * device - f * source
  <2>1. o = channels * f
    BY <1>2 DEF SamplesOut, FramesOut
  <2>2. q \in Nat /\ r \in 0..(channels - 1)
    <3>1. channels \in Nat \ {0}
      OBVIOUS
    <3> QED BY <3>1, DivisionGives
  <2>3. q * device \in Nat
    BY <2>2
  <2>4. f \in Nat /\ e \in 0..(source - 1)
    BY <2>3, DivisionGives
  <2> DEFINE p == q * device
             g == f * source
  <2>5. CASE channels = 1
    <3>1. n = q /\ o = f
      BY <2>1, <2>2, <2>4, <2>5
    <3>2. n * device - o * source = e
      BY <3>1
    <3> QED BY <2>4, <2>5, <3>1, <3>2
  <2>6. CASE channels = 2
    <3>1. n = 2 * q + r /\ o = 2 * f /\ r \in {0, 1}
      BY <2>1, <2>2, <2>4, <2>6
    <3>2. o * source = 2 * (f * source) /\ (2 * q) * device = 2 * (q * device)
      BY <2>2, <2>4, <3>1
    <3>3. n * device = 2 * (q * device) + r * device
      BY <2>2, <3>1, <3>2
    <3>4. q * device \in Nat /\ f * source \in Nat
      BY <2>2, <2>4
    <3> HIDE DEF q, f, r
    <3>5. n * device - o * source = 2 * e + r * device
      BY <3>1, <3>2, <3>3, <3>4
    <3>6. r * device \in {0, device}
      BY <3>1
    <3>7. n * device - o * source >= 0 /\ n * device - o * source =< device + 2 * (source - 1)
      BY <2>4, <3>5, <3>6
    <3> QED BY <2>4, <2>6, <3>1, <3>7
  <2> QED BY <2>5, <2>6
<1> QED BY <1>1, <1>2

(* A track that was planned, and what all its blocks have lost so far.        *)
Keeps(blocks, in, out, channels, source, device) ==
  LET missing == in * device - out * source
  IN  /\ missing >= 0
      /\ missing =< blocks * ((channels - 1) * device + channels * (source - 1))

LEMMA KeepsGoesOn ==
  ASSUME NEW blocks \in Nat, NEW in \in Nat, NEW out \in Nat, NEW n \in Nat, NEW o \in Nat,
         NEW channels \in 1..2, NEW source \in Nat \ {0}, NEW device \in Nat \ {0},
         Keeps(blocks, in, out, channels, source, device),
         n * device - o * source >= 0,
         n * device - o * source =< (channels - 1) * device + channels * (source - 1)
  PROVE  Keeps(blocks + 1, in + n, out + o, channels, source, device)
<1> DEFINE B == (channels - 1) * device + channels * (source - 1)
           m == in * device - out * source
           k == n * device - o * source
<1>1. B \in Nat
  <2>1. CASE channels = 1
    BY <2>1
  <2>2. CASE channels = 2
    BY <2>2
  <2> QED BY <2>1, <2>2
<1>2. m \in Int /\ k \in Int /\ m >= 0 /\ k >= 0 /\ k =< B
  <2>1. in * device \in Int /\ out * source \in Int /\ n * device \in Int /\ o * source \in Int
    OBVIOUS
  <2>2. m \in Int /\ k \in Int
    BY <2>1
  <2>3. m >= 0 /\ k >= 0 /\ k =< B
    BY DEF Keeps
  <2> QED BY <2>2, <2>3
<1>3. (in + n) * device - (out + o) * source = m + k
  <2>1. (in + n) * device = in * device + n * device
    OBVIOUS
  <2>2. (out + o) * source = out * source + o * source
    OBVIOUS
  <2>3. in * device \in Nat /\ n * device \in Nat /\ out * source \in Nat /\ o * source \in Nat
    OBVIOUS
  <2> QED BY <2>1, <2>2, <2>3
<1>4. m >= 0 /\ m =< blocks * B
  BY DEF Keeps
<1> HIDE DEF B, m, k
<1>5. (blocks + 1) * B = blocks * B + B /\ blocks * B \in Nat
  BY <1>1
<1>6. m + k >= 0 /\ m + k =< (blocks + 1) * B
  BY <1>1, <1>2, <1>4, <1>5
<1> QED BY <1>3, <1>6 DEF Keeps, B

Planned(t) ==
  /\ t = [sink |-> t.sink, source |-> t.source, device |-> t.device, channels |-> t.channels,
          blocks |-> t.blocks, in |-> t.in, out |-> t.out, failed |-> t.failed]
  /\ t.source \in Nat \ {0} /\ t.device \in Nat \ {0} /\ t.channels \in 1..2
  /\ t.blocks \in Nat /\ t.in \in Nat /\ t.out \in Nat
  /\ Keeps(t.blocks, t.in, t.out, t.channels, t.source, t.device)

AudioInv == audio # None => Planned(audio)

LEMMA NewTrackIsPlanned ==
  ASSUME NEW sink, NEW source \in Nat \ {0}, NEW device \in Nat \ {0}, NEW channels \in 1..2,
         NEW t, t = NewTrack(sink, source, device, channels)
  PROVE  Planned(t)
<1>1. t = [sink |-> sink, source |-> source, device |-> device, channels |-> channels,
           blocks |-> 0, in |-> 0, out |-> 0, failed |-> 0]
  BY DEF NewTrack
<1>2. /\ t = [sink |-> t.sink, source |-> t.source, device |-> t.device,
              channels |-> t.channels, blocks |-> t.blocks, in |-> t.in, out |-> t.out,
              failed |-> t.failed]
      /\ t.source = source /\ t.device = device /\ t.channels = channels
      /\ t.blocks = 0 /\ t.in = 0 /\ t.out = 0
  BY <1>1
<1> DEFINE B == (channels - 1) * device + channels * (source - 1)
<1>3. B \in Nat
  <2>1. CASE channels = 1
    BY <2>1
  <2>2. CASE channels = 2
    BY <2>2
  <2> QED BY <2>1, <2>2
<1> HIDE DEF B
<1>4. 0 * B = 0 /\ 0 * device - 0 * source = 0
  BY <1>3
<1>5. Keeps(0, 0, 0, channels, source, device)
  BY <1>4 DEF Keeps, B
<1> QED BY <1>2, <1>5 DEF Planned

LEMMA ConnectKeeps ==
  ASSUME AudioInv, NEW sink, NEW source \in Rates, NEW device \in Rates, NEW channels \in 0..2,
         Connect(sink, source, device, channels)
  PROVE  AudioInv'
<1>1. source \in Nat \ {0} /\ device \in Nat \ {0} /\ channels \in 1..2
  <2>1. source \in Nat /\ device \in Nat
    BY AirPlayAssumption
  <2>2. source > 0 /\ device > 0 /\ channels > 0
    BY DEF Connect, Plans
  <2> QED BY <2>1, <2>2
<1>2. audio' = NewTrack(sink, source, device, channels)
  BY DEF Connect
<1> QED BY <1>1, <1>2, NewTrackIsPlanned DEF AudioInv

Heard(t, n, o) == [t EXCEPT !.blocks = @ + 1, !.in = @ + n, !.out = @ + o]

LEMMA HeardKeeps ==
  ASSUME NEW t, Planned(t), NEW n \in Nat, NEW o,
         o = SamplesOut(n, t.channels, t.source, t.device)
  PROVE  Planned(Heard(t, n, o))
<1> DEFINE x == Heard(t, n, o)
           sink == t.sink
           source == t.source
           device == t.device
           channels == t.channels
           blocks == t.blocks
           in == t.in
           out == t.out
           failed == t.failed
<1>1. t = [sink |-> sink, source |-> source, device |-> device, channels |-> channels,
           blocks |-> blocks, in |-> in, out |-> out, failed |-> failed]
  BY DEF Planned
<1>2. /\ source \in Nat \ {0} /\ device \in Nat \ {0} /\ channels \in 1..2
      /\ blocks \in Nat /\ in \in Nat /\ out \in Nat
      /\ Keeps(blocks, in, out, channels, source, device)
  BY DEF Planned
<1>3. x = [t EXCEPT !.blocks = blocks + 1, !.in = in + n, !.out = out + o]
  BY DEF Heard
<1>4. x = [sink |-> sink, source |-> source, device |-> device, channels |-> channels,
           blocks |-> blocks + 1, in |-> in + n, out |-> out + o, failed |-> failed]
  BY <1>1, <1>3
<1>5. o = SamplesOut(n, channels, source, device)
  OBVIOUS
<1> HIDE DEF x, sink, source, device, channels, blocks, in, out, failed
<1>6. /\ o \in Nat
      /\ n * device - o * source >= 0
      /\ n * device - o * source =< (channels - 1) * device + channels * (source - 1)
  BY <1>2, <1>5, BlockKeepsDuration
<1>7. Keeps(blocks + 1, in + n, out + o, channels, source, device)
  BY <1>2, <1>6, KeepsGoesOn
<1> DEFINE b == blocks + 1
           i == in + n
           u == out + o
<1>8. b \in Nat /\ i \in Nat /\ u \in Nat
  BY <1>2, <1>6
<1> HIDE DEF b, i, u
<1>9. x = [sink |-> sink, source |-> source, device |-> device, channels |-> channels,
           blocks |-> b, in |-> i, out |-> u, failed |-> failed]
  BY <1>4 DEF b, i, u
<1>10. /\ x = [sink |-> x.sink, source |-> x.source, device |-> x.device,
               channels |-> x.channels, blocks |-> x.blocks, in |-> x.in, out |-> x.out,
               failed |-> x.failed]
       /\ x.source = source /\ x.device = device /\ x.channels = channels
       /\ x.blocks = b /\ x.in = i /\ x.out = u
  BY <1>9
<1>11. Keeps(b, i, u, channels, source, device)
  BY <1>7 DEF b, i, u
<1>12. Planned(x)
  BY <1>2, <1>8, <1>10, <1>11 DEF Planned
<1> QED BY <1>12 DEF x

(* A block that was not written is not in the account.                        *)
Unheard(t) == [t EXCEPT !.failed = @ + 1]

LEMMA UnheardKeeps ==
  ASSUME NEW t, Planned(t), NEW x, x = Unheard(t)
  PROVE  Planned(x)
<1>1. /\ x = [sink |-> x.sink, source |-> x.source, device |-> x.device,
              channels |-> x.channels, blocks |-> x.blocks, in |-> x.in, out |-> x.out,
              failed |-> x.failed]
      /\ x.source = t.source /\ x.device = t.device /\ x.channels = t.channels
      /\ x.blocks = t.blocks /\ x.in = t.in /\ x.out = t.out
  BY DEF Planned, Unheard
<1> QED BY <1>1 DEF Planned

LEMMA OnBlockKeeps ==
  ASSUME AudioInv, NEW raw \in Frames, OnBlock(raw)
  PROVE  AudioInv'
<1> DEFINE n == raw.declared \div 2
           o == SamplesOut(n, audio.channels, audio.source, audio.device)
<1>1. n \in Nat
  <2>1. raw.declared \in Nat
    BY AirPlayAssumption
  <2> QED BY <2>1
<1>2. Planned(audio)
  BY DEF OnBlock, AudioInv
<1>3. audio' = Heard(audio, n, o) \/ audio' = Unheard(audio)
  BY DEF OnBlock, Heard, Unheard
<1>4. Planned(Heard(audio, n, o))
  <2> HIDE DEF n
  <2> QED BY <1>1, <1>2, HeardKeeps
<1> HIDE DEF n, o
<1>5. Planned(Unheard(audio))
  BY <1>2, UnheardKeeps
<1> QED BY <1>3, <1>4, <1>5 DEF AudioInv

----------------------------------------------------------------------------
(* What is said to requests for formats.                                      *)

Told(w) ==
  CASE w.kind = "stream"  -> w.response \in {{}, ResponseKeys(w.type)}
    [] w.kind = "audio"   -> w.outcome = "accepted" =>
            /\ w.keys["ct"] \in CompressionType
            /\ SpfMatchesSource(w.keys) => ~DecodableHere(w.keys["ct"])
    [] w.kind = "control" -> w.outcome = "accepted" => w.raw.keys = AllowedKeys(w.raw.path)
    [] w.kind = "pairing" -> w.outcome # "accepted"

Named(marks) == {i \in DOMAIN marks : marks[i] \in DOMAIN SsrcProfiles}

InForce(ssrc, marks) ==
  ssrc = IF Named(marks) = {} THEN 0 ELSE marks[Max(Named(marks))]

AskedOK(a) ==
  /\ a = [what |-> a.what, ssrc |-> a.ssrc, marks |-> a.marks]
  /\ a.what # None => Told(a.what)
  /\ a.marks \in Seq(Marks) /\ InForce(a.ssrc, a.marks)
  /\ a.ssrc \in {0} \cup DOMAIN SsrcProfiles

AskedInv == AskedOK(asked)

(* A stream is answered with its own keys, or refused.                        *)
LEMMA ResponseIsExact ==
  ASSUME NEW t, NEW hasControlPort \in BOOLEAN
  PROVE  Response(t, hasControlPort) \in {{}, ResponseKeys(t)}
<1>1. CASE t = 96
  BY <1>1 DEF Response, ResponseKeys
<1>2. CASE t = 110
  BY <1>2 DEF Response, ResponseKeys
<1>3. CASE t # 96 /\ t # 110
  BY <1>3 DEF Response
<1> QED BY <1>1, <1>2, <1>3

(* An audio request that is accepted names a compression type, and one whose  *)
(* frames agree with that type is none this build decodes.                    *)
LEMMA AudioIsExact ==
  ASSUME NEW keys, ValidateAudio(keys) = "accepted"
  PROVE  /\ keys["ct"] \in CompressionType
         /\ SpfMatchesSource(keys) => ~DecodableHere(keys["ct"])
<1> DEFINE checks == << <<keys["ct"] \in CompressionType, "unsupported-profile">>,
                        <<keys["controlPort"] \in U16, "invalid-frame">>,
                        <<keys["spf"] \in U16, "invalid-frame">> >>
           otherwise == "accepted"
<1>1. Either(checks, otherwise) = otherwise
  BY DEF ValidateAudio
<1>2. /\ DOMAIN checks = 1..3 /\ checks[1][1] = (keys["ct"] \in CompressionType)
      /\ checks[1][2] # otherwise /\ checks[2][2] # otherwise /\ checks[3][2] # otherwise
  OBVIOUS
<1> HIDE DEF checks, otherwise
<1>3. \A i \in 1..3 : checks[i][2] # otherwise
  BY <1>2
<1>4. \A i \in 1..3 : checks[i][1]
  <2>1. 3 \in Nat
    OBVIOUS
  <2> QED BY <1>1, <1>2, <1>3, <2>1, EitherGives
<1>5. keys["ct"] \in CompressionType
  <2>1. checks[1][1]
    BY <1>4
  <2> QED BY <1>2, <2>1
<1>6. ~(SpfMatchesSource(keys) /\ DecodableHere(keys["ct"]))
  BY DEF SpfMatchesSource, DecodableHere, SamplesPerFrame
<1> QED BY <1>5, <1>6

(* A control request that is accepted has all the keys of its path.           *)
LEMMA ControlIsExact ==
  ASSUME NEW request, NEW raw, CheckShape(request, raw) = "accepted"
  PROVE  raw.keys = AllowedKeys(raw.path)
<1> DEFINE checks == << <<raw.method = "POST", "invalid-frame">>,
                        <<raw.path = request, "invalid-frame">>,
                        <<raw.type = "plist", "invalid-frame">>,
                        <<raw.keys \subseteq AllowedKeys(request), "invalid-frame">>,
                        <<AllowedKeys(request) \subseteq raw.keys, "invalid-frame">> >>
           otherwise == "accepted"
<1>1. Either(checks, otherwise) = otherwise
  BY DEF CheckShape
<1>2. /\ DOMAIN checks = 1..5 /\ checks[2][1] = (raw.path = request)
      /\ checks[4][1] = (raw.keys \subseteq AllowedKeys(request))
      /\ checks[5][1] = (AllowedKeys(request) \subseteq raw.keys)
  OBVIOUS
<1>3. /\ checks[1][2] # otherwise /\ checks[2][2] # otherwise /\ checks[3][2] # otherwise
      /\ checks[4][2] # otherwise /\ checks[5][2] # otherwise
  OBVIOUS
<1> HIDE DEF checks, otherwise
<1>4. \A i \in 1..5 : checks[i][2] # otherwise
  BY <1>3
<1>5. \A i \in 1..5 : checks[i][1]
  <2>1. 5 \in Nat
    OBVIOUS
  <2> QED BY <1>1, <1>2, <1>4, <2>1, EitherGives
<1>6. checks[2][1] /\ checks[4][1] /\ checks[5][1]
  BY <1>5
<1> QED BY <1>2, <1>6

(* No pairing is done.                                                        *)
LEMMA PairingIsRefused ==
  ASSUME NEW path, NEW keys
  PROVE  CheckPairing(path, keys) # "accepted"
<1>1. CASE path = "/fp-setup"
  BY <1>1 DEF CheckPairing
<1>2. CASE path # "/fp-setup"
  <2> DEFINE checks == << <<PairingKeys(path) = {} \/ keys \subseteq PairingKeys(path),
                            "invalid-frame">> >>
             otherwise == "unsupported-feature"
  <2>1. CheckPairing(path, keys) = Either(checks, otherwise)
    BY <1>2 DEF CheckPairing
  <2>2. DOMAIN checks = 1..1 /\ checks[1][2] = "invalid-frame" /\ otherwise # "accepted"
    OBVIOUS
  <2> HIDE DEF checks, otherwise
  <2>3. \/ Either(checks, otherwise) = otherwise
        \/ \E i \in 1..1 : Either(checks, otherwise) = checks[i][2]
    <3>1. 1 \in Nat
      OBVIOUS
    <3> QED BY <2>2, <3>1, EitherGives
  <2> QED BY <2>1, <2>2, <2>3
<1> QED BY <1>1, <1>2

LEMMA AsksKeeps ==
  ASSUME AskedInv, NEW what, Told(what), Asks(what)
  PROVE  AskedInv'
<1>1. asked' = [what |-> what, ssrc |-> asked.ssrc, marks |-> asked.marks]
  BY DEF Asks, AskedInv, AskedOK
<1>2. /\ asked' = [what |-> asked'.what, ssrc |-> asked'.ssrc, marks |-> asked'.marks]
      /\ asked'.what = what /\ asked'.ssrc = asked.ssrc /\ asked'.marks = asked.marks
  BY <1>1
<1> QED BY <1>2 DEF AskedInv, AskedOK

LEMMA QuestionsKeep ==
  ASSUME AskedInv,
         \/ \E t \in StreamType, hasControlPort \in BOOLEAN : AskStream(t, hasControlPort)
         \/ \E keys \in AudioRequests : AskAudio(keys)
         \/ \E request \in {"/audioMode", "/feedback"}, raw \in ControlRequests :
               AskControl(request, raw)
         \/ \E path \in PairingPaths, keys \in KeySets : AskPairing(path, keys)
  PROVE  AskedInv'
<1>1. ASSUME NEW t, NEW hasControlPort \in BOOLEAN, AskStream(t, hasControlPort)
      PROVE  AskedInv'
  <2> DEFINE response == Response(t, hasControlPort)
             w == [kind |-> "stream", type |-> t, response |-> response]
  <2>1. response \in {{}, ResponseKeys(t)}
    BY ResponseIsExact
  <2>2. Asks(w)
    BY <1>1 DEF AskStream
  <2> HIDE DEF response
  <2>3. w.kind = "stream" /\ w.type = t /\ w.response = response
    OBVIOUS
  <2> HIDE DEF w
  <2>4. Told(w)
    BY <2>1, <2>3 DEF Told
  <2> QED BY <2>2, <2>4, AsksKeeps
<1>2. ASSUME NEW keys, AskAudio(keys) PROVE AskedInv'
  <2> DEFINE outcome == ValidateAudio(keys)
             w == [kind |-> "audio", keys |-> keys, outcome |-> outcome]
  <2>1. outcome = "accepted" => /\ keys["ct"] \in CompressionType
                                /\ SpfMatchesSource(keys) => ~DecodableHere(keys["ct"])
    BY AudioIsExact
  <2>2. Asks(w)
    BY <1>2 DEF AskAudio
  <2> HIDE DEF outcome
  <2>3. w.kind = "audio" /\ w.keys = keys /\ w.outcome = outcome
    OBVIOUS
  <2> HIDE DEF w
  <2>4. Told(w)
    BY <2>1, <2>3 DEF Told
  <2> QED BY <2>2, <2>4, AsksKeeps
<1>3. ASSUME NEW request, NEW raw, AskControl(request, raw) PROVE AskedInv'
  <2> DEFINE outcome == CheckShape(request, raw)
             w == [kind |-> "control", raw |-> raw, outcome |-> outcome]
  <2>1. outcome = "accepted" => raw.keys = AllowedKeys(raw.path)
    BY ControlIsExact
  <2>2. Asks(w)
    BY <1>3 DEF AskControl
  <2> HIDE DEF outcome
  <2>3. w.kind = "control" /\ w.raw = raw /\ w.outcome = outcome
    OBVIOUS
  <2> HIDE DEF w
  <2>4. Told(w)
    BY <2>1, <2>3 DEF Told
  <2> QED BY <2>2, <2>4, AsksKeeps
<1>4. ASSUME NEW path, NEW keys, AskPairing(path, keys) PROVE AskedInv'
  <2> DEFINE outcome == CheckPairing(path, keys)
             w == [kind |-> "pairing", outcome |-> outcome]
  <2>1. outcome # "accepted"
    BY PairingIsRefused
  <2>2. Asks(w)
    BY <1>4 DEF AskPairing
  <2> HIDE DEF outcome
  <2>3. w.kind = "pairing" /\ w.outcome = outcome
    OBVIOUS
  <2> HIDE DEF w
  <2>4. Told(w)
    BY <2>1, <2>3 DEF Told
  <2> QED BY <2>2, <2>4, AsksKeeps
<1> QED BY <1>1, <1>2, <1>3, <1>4

(* The format in force is that of the last mark that names one.               *)
LEMMA MarksGoOn ==
  ASSUME NEW marks \in Seq(Marks), NEW v \in Marks, NEW ssrc, InForce(ssrc, marks)
  PROVE  InForce(ObserveSsrc(ssrc, v), Append(marks, v))
<1> DEFINE n == Len(marks)
           more == Append(marks, v)
           before == Named(marks)
           after == Named(more)
<1>1. /\ n \in Nat /\ DOMAIN marks = 1..n /\ DOMAIN more = 1..(n + 1)
      /\ more[n + 1] = v /\ \A i \in 1..n : more[i] = marks[i]
  OBVIOUS
<1> HIDE DEF n, more
<1>2. before \in SUBSET (0..n) /\ after \in SUBSET (0..(n + 1))
  BY <1>1 DEF Named
<1>3. CASE v \in DOMAIN SsrcProfiles
  <2>1. ObserveSsrc(ssrc, v) = v
    BY <1>3 DEF ObserveSsrc, FromSsrc, SsrcProfiles
  <2>2. n + 1 \in after
    BY <1>1, <1>3 DEF Named
  <2>3. Max(after) \in after /\ \A j \in after : j =< Max(after)
    <3> HIDE DEF after
    <3>1. n + 1 \in Nat /\ after # {}
      BY <1>1, <2>2
    <3> QED BY <1>2, <3>1, MinMaxAre
  <2>4. Max(after) = n + 1
    BY <1>1, <1>2, <2>2, <2>3
  <2> QED BY <1>1, <2>1, <2>2, <2>4 DEF InForce, more
<1>4. CASE v \notin DOMAIN SsrcProfiles
  <2>1. ObserveSsrc(ssrc, v) = ssrc
    BY <1>4 DEF ObserveSsrc, FromSsrc
  <2>2. after = before
    BY <1>1, <1>4 DEF Named
  <2>3. CASE before = {}
    BY <2>1, <2>2, <2>3 DEF InForce, more
  <2>4. CASE before # {}
    <3>1. Max(before) \in before
      <4> HIDE DEF before
      <4> QED BY <1>1, <1>2, <2>4, MinMaxAre
    <3>2. Max(before) \in 1..n
      BY <1>1, <3>1 DEF Named
    <3>3. more[Max(before)] = marks[Max(before)]
      BY <1>1, <3>2
    <3> QED BY <2>1, <2>2, <2>4, <3>3 DEF InForce, more
  <2> QED BY <2>3, <2>4
<1> QED BY <1>3, <1>4

LEMMA OnPacketKeeps ==
  ASSUME AskedInv, NEW mark \in Marks, OnPacket(mark)
  PROVE  AskedInv'
<1> DEFINE ssrc == ObserveSsrc(asked.ssrc, mark)
           marks == Append(asked.marks, mark)
<1>1. InForce(ssrc, marks) /\ marks \in Seq(Marks)
  BY MarksGoOn DEF AskedInv, AskedOK
<1>2. ssrc \in {0} \cup DOMAIN SsrcProfiles
  BY DEF AskedInv, AskedOK, ObserveSsrc, FromSsrc
<1>3. asked' = [asked EXCEPT !.ssrc = ssrc, !.marks = marks]
  BY DEF OnPacket
<1> HIDE DEF ssrc, marks
<1>4. asked' = [what |-> asked.what, ssrc |-> ssrc, marks |-> marks]
  BY <1>3 DEF AskedInv, AskedOK
<1>5. /\ asked' = [what |-> asked'.what, ssrc |-> asked'.ssrc, marks |-> asked'.marks]
      /\ asked'.what = asked.what /\ asked'.ssrc = ssrc /\ asked'.marks = marks
  BY <1>4
<1> QED BY <1>1, <1>2, <1>5 DEF AskedInv, AskedOK

LEMMA AskedIsExact ==
  ASSUME AskedInv
  PROVE  FormatsAreExact
<1>1. asked.what # None => Told(asked.what)
  BY DEF AskedInv, AskedOK
<1>2. InForce(asked.ssrc, asked.marks)
  BY DEF AskedInv, AskedOK
<1>3. asked.ssrc \notin DOMAIN PackedFormats
  BY DEF AskedInv, AskedOK, SsrcProfiles, PackedFormats
<1> QED BY <1>1, <1>2, <1>3, Zenon DEF FormatsAreExact, Told, InForce, Named

----------------------------------------------------------------------------
(* The pairings.                                                              *)

Entered(e) == e = [key |-> e.key, seen |-> e.seen, added |-> e.added]

Listed(devices) ==
  /\ devices = [d \in DOMAIN devices |-> devices[d]]
  /\ DOMAIN devices \subseteq Devices
  /\ \A d \in DOMAIN devices : Entered(devices[d])

Stored(n) ==
  /\ n = [capacity |-> n.capacity, devices |-> n.devices, seed |-> n.seed]
  /\ Listed(n.devices)

StoreOK(s) ==
  /\ s = [now |-> s.now, file |-> s.file, clock |-> s.clock]
  /\ Stored(s.now)
  /\ s.file # None => Stored(s.file)

StoreInv == StoreOK(store)

(* Pairings that go on with the time they were first made.                    *)
Lasting(before, after, gone) ==
  \A d \in DOMAIN before \ gone :
     d \in DOMAIN after /\ after[d].added = before[d].added

Rewritten(s, devices) == [s EXCEPT !.now.devices = devices]

LEMMA RewrittenKeeps ==
  ASSUME NEW s, StoreOK(s), NEW devices, Listed(devices), NEW x, x = Rewritten(s, devices)
  PROVE  StoreOK(x) /\ x.now.devices = devices
<1> DEFINE now == [s.now EXCEPT !.devices = devices]
<1>1. x = [s EXCEPT !.now = now]
  BY DEF StoreOK, Rewritten
<1>2. now = [capacity |-> s.now.capacity, devices |-> devices, seed |-> s.now.seed]
  BY DEF StoreOK, Stored
<1> HIDE DEF now
<1>3. x = [now |-> now, file |-> s.file, clock |-> s.clock]
  BY <1>1 DEF StoreOK
<1>4. x = [now |-> x.now, file |-> x.file, clock |-> x.clock] /\ x.now = now /\ x.file = s.file
  BY <1>3
<1>5. Stored(now) /\ now.devices = devices
  BY <1>2 DEF Stored
<1> QED BY <1>4, <1>5 DEF StoreOK

LEMMA PutKeeps ==
  ASSUME StoreInv, NEW d \in Devices, NEW key, NEW wellFormed, Put(d, key, wellFormed)
  PROVE  StoreInv' /\ Lasting(Devs, Devs', {})
<1> DEFINE devices == store.now.devices
           entry == Entry(d, key)
           new == [e \in DOMAIN devices \cup {d} |-> IF e = d THEN entry ELSE devices[e]]
<1>1. Listed(devices)
  BY DEF StoreInv, StoreOK, Stored
<1>2. Entered(entry)
  BY DEF Entry, Entered
<1>3. d \in DOMAIN devices => entry.added = devices[d].added
  BY DEF Entry, Devs
<1>4. store' = Rewritten(store, new)
  BY DEF Put, Rewritten
<1> HIDE DEF entry, devices
<1>5. /\ DOMAIN new = DOMAIN devices \cup {d} /\ new[d] = entry
      /\ \A e \in DOMAIN devices \ {d} : new[e] = devices[e]
      /\ new = [e \in DOMAIN new |-> new[e]]
  OBVIOUS
<1> HIDE DEF new
<1>6. Listed(new)
  BY <1>1, <1>2, <1>5 DEF Listed
<1>7. StoreOK(store') /\ store'.now.devices = new
  BY <1>4, <1>6, RewrittenKeeps DEF StoreInv
<1>8. Lasting(devices, new, {})
  BY <1>3, <1>5 DEF Lasting
<1> QED BY <1>7, <1>8 DEF StoreInv, Devs, devices

LEMMA ForgetKeeps ==
  ASSUME StoreInv, NEW d, Forget(d)
  PROVE  StoreInv' /\ Lasting(Devs, Devs', {d})
<1> DEFINE devices == store.now.devices
           new == Restrict(devices, DOMAIN devices \ {d})
<1>1. Listed(devices)
  BY DEF StoreInv, StoreOK, Stored
<1>2. store' = Rewritten(store, new)
  BY DEF Forget, Rewritten
<1> HIDE DEF devices
<1>3. /\ DOMAIN new = DOMAIN devices \ {d}
      /\ \A e \in DOMAIN devices \ {d} : new[e] = devices[e]
      /\ new = [e \in DOMAIN new |-> new[e]]
  BY DEF Restrict
<1> HIDE DEF new
<1>4. Listed(new)
  BY <1>1, <1>3 DEF Listed
<1>5. StoreOK(store') /\ store'.now.devices = new
  BY <1>2, <1>4, RewrittenKeeps DEF StoreInv
<1>6. Lasting(devices, new, {d})
  BY <1>3 DEF Lasting
<1> QED BY <1>5, <1>6 DEF StoreInv, Devs, devices

LEMMA TouchKeeps ==
  ASSUME StoreInv, NEW d, Touch(d)
  PROVE  StoreInv' /\ Lasting(Devs, Devs', {})
<1> DEFINE devices == store.now.devices
           entry == [devices[d] EXCEPT !.seen = store.clock]
           new == [devices EXCEPT ![d] = entry]
<1>1. Listed(devices) /\ d \in DOMAIN devices
  BY DEF StoreInv, StoreOK, Stored, Touch, Devs
<1>2. store' = Rewritten(store, new)
  BY DEF Touch, Rewritten
<1>3. entry = [key |-> devices[d].key, seen |-> store.clock, added |-> devices[d].added]
  <2> DEFINE e == devices[d]
             clock == store.clock
  <2>1. e = [key |-> e.key, seen |-> e.seen, added |-> e.added]
    BY <1>1 DEF Listed, Entered
  <2>2. entry = [e EXCEPT !.seen = clock]
    OBVIOUS
  <2> HIDE DEF e, clock, entry
  <2>3. entry = [key |-> e.key, seen |-> clock, added |-> e.added]
    BY <2>1, <2>2
  <2> QED BY <2>3 DEF e, clock
<1>4. Entered(entry) /\ entry.added = devices[d].added
  BY <1>3 DEF Entered
<1> HIDE DEF devices, entry
<1>5. /\ DOMAIN new = DOMAIN devices /\ new[d] = entry
      /\ \A e \in DOMAIN devices \ {d} : new[e] = devices[e]
      /\ new = [e \in DOMAIN new |-> new[e]]
  BY <1>1 DEF Listed
<1> HIDE DEF new
<1>6. Listed(new)
  BY <1>1, <1>4, <1>5 DEF Listed
<1>7. StoreOK(store') /\ store'.now.devices = new
  BY <1>2, <1>6, RewrittenKeeps DEF StoreInv
<1>8. Lasting(devices, new, {})
  BY <1>4, <1>5 DEF Lasting
<1> QED BY <1>7, <1>8 DEF StoreInv, Devs, devices

LEMMA SeedKeeps ==
  ASSUME StoreInv, SetIdentitySeed
  PROVE  StoreInv' /\ Lasting(Devs, Devs', {})
<1> DEFINE now == [store.now EXCEPT !.seed = "seed"]
<1>1. store' = [store EXCEPT !.now = now]
  BY DEF SetIdentitySeed, StoreInv, StoreOK
<1>2. now = [capacity |-> store.now.capacity, devices |-> store.now.devices, seed |-> "seed"]
  BY DEF StoreInv, StoreOK, Stored
<1>3. Stored(now) /\ now.devices = store.now.devices
  BY <1>2 DEF Stored, StoreInv, StoreOK
<1> HIDE DEF now
<1>4. store' = [now |-> now, file |-> store.file, clock |-> store.clock]
  BY <1>1 DEF StoreInv, StoreOK
<1>5. /\ store' = [now |-> store'.now, file |-> store'.file, clock |-> store'.clock]
      /\ store'.now = now /\ store'.file = store.file
  BY <1>4
<1> QED BY <1>3, <1>5 DEF StoreInv, StoreOK, Lasting, Devs

LEMMA SaveKeeps ==
  ASSUME StoreInv, Save
  PROVE  StoreInv' /\ Lasting(Devs, Devs', {})
<1>1. store' = [now |-> store.now, file |-> store.now, clock |-> store.clock]
  BY DEF Save, StoreInv, StoreOK
<1>2. /\ store' = [now |-> store'.now, file |-> store'.file, clock |-> store'.clock]
      /\ store'.now = store.now /\ store'.file = store.now
  BY <1>1
<1> QED BY <1>2 DEF StoreInv, StoreOK, Lasting, Devs

LEMMA NewStoreIsListed ==
  ASSUME NEW capacity
  PROVE  Stored(NewStore(capacity))
<1> DEFINE empty == <<>>
           seed == None
           n == [capacity |-> capacity, devices |-> empty, seed |-> seed]
<1>1. DOMAIN empty = {} /\ empty = [d \in DOMAIN empty |-> empty[d]]
  OBVIOUS
<1> HIDE DEF empty, seed
<1>2. n = [capacity |-> n.capacity, devices |-> n.devices, seed |-> n.seed] /\ n.devices = empty
  OBVIOUS
<1>3. n = NewStore(capacity)
  BY DEF NewStore, empty, seed
<1> HIDE DEF n
<1> QED BY <1>1, <1>2, <1>3 DEF Stored, Listed

LEMMA RestartKeeps ==
  ASSUME StoreInv, Restart
  PROVE  StoreInv'
<1> DEFINE now == IF FromJson(store.file) = None THEN NewStore(MaxPaired)
                  ELSE FromJson(store.file)
<1>1. Stored(now)
  BY NewStoreIsListed DEF FromJson, StoreInv, StoreOK
<1>2. store' = [store EXCEPT !.now = now]
  BY DEF Restart
<1> HIDE DEF now
<1>3. store' = [now |-> now, file |-> store.file, clock |-> store.clock]
  BY <1>2 DEF StoreInv, StoreOK
<1>4. /\ store' = [now |-> store'.now, file |-> store'.file, clock |-> store'.clock]
      /\ store'.now = now /\ store'.file = store.file
  BY <1>3
<1> QED BY <1>1, <1>4 DEF StoreInv, StoreOK

LEMMA LaterKeeps ==
  ASSUME StoreInv, Later
  PROVE  StoreInv' /\ Lasting(Devs, Devs', {})
<1> DEFINE clock == store.clock + 1
<1>1. store' = [store EXCEPT !.clock = clock]
  BY DEF Later
<1> HIDE DEF clock
<1>2. store' = [now |-> store.now, file |-> store.file, clock |-> clock]
  BY <1>1 DEF StoreInv, StoreOK
<1>3. /\ store' = [now |-> store'.now, file |-> store'.file, clock |-> store'.clock]
      /\ store'.now = store.now /\ store'.file = store.file
  BY <1>2
<1> QED BY <1>3 DEF StoreInv, StoreOK, Lasting, Devs

----------------------------------------------------------------------------
(* All of it: a step is one of a part, and leaves the other parts alone.      *)

AirPlayInv ==
  topic \in Topic /\ ReceiverInv /\ MirrorInv /\ AudioInv /\ StoreInv /\ AskedInv

LEMMA NewReceiverIsOK ==
  ASSUME NEW keying
  PROVE  ReceiverOK(NewReceiver(keying))
<1> DEFINE none == <<>>
           nobody == {}
           r == [keying |-> keying, next |-> 1, sessions |-> none, answer |-> None,
                 by |-> 0, proven |-> nobody]
<1>1. none \in Tables /\ DOMAIN none = {}
  <2>1. none \in [{} -> Sessions] /\ {} \in SUBSET (1..MaxConnections)
    OBVIOUS
  <2> HIDE DEF none
  <2> QED BY <2>1 DEF Tables
<1>2. r = NewReceiver(keying) /\ nobody \in SUBSET Nat
  BY DEF NewReceiver
<1> HIDE DEF none, nobody
<1>3. /\ r = [keying |-> r.keying, next |-> r.next, sessions |-> r.sessions,
              answer |-> r.answer, by |-> r.by, proven |-> r.proven]
      /\ r.next = 1 /\ r.sessions = none /\ r.answer = None /\ r.proven = nobody
  OBVIOUS
<1> HIDE DEF r
<1>4. Active(r) = {} /\ Cardinality(Active(r)) =< MaxSessions
  <2>1. Active(r) = {}
    BY <1>1, <1>3 DEF Active
  <2> QED BY <2>1, FS_EmptySet
<1>5. Playing(r)
  BY <1>3, AirPlayAssumption DEF Playing
<1> QED BY <1>1, <1>2, <1>3, <1>4, <1>5 DEF ReceiverOK, Shaped

LEMMA AirPlayStarts ==
  ASSUME AirPlayInit
  PROVE  AirPlayInv
<1>1. topic \in Topic
  BY DEF AirPlayInit
<1>2. ReceiverInv
  BY NewReceiverIsOK DEF AirPlayInit, ReceiverInv
<1>3. MirrorInv
  BY NewMirrorIsSound DEF AirPlayInit, MirrorInv
<1>4. AudioInv
  BY DEF AirPlayInit, AudioInv
<1>5. StoreInv
  <2>1. PICK capacity : store = [now |-> NewStore(capacity), file |-> None, clock |-> 0]
    BY DEF AirPlayInit
  <2> DEFINE now == NewStore(capacity)
  <2>2. Stored(now)
    BY NewStoreIsListed
  <2> HIDE DEF now
  <2>3. store = [now |-> store.now, file |-> store.file, clock |-> store.clock]
        /\ store.now = now /\ store.file = None
    BY <2>1 DEF now
  <2> QED BY <2>2, <2>3 DEF StoreInv, StoreOK
<1>6. AskedInv
  <2> DEFINE marks == <<>>
  <2>1. marks \in Seq(Marks) /\ DOMAIN marks = {}
    OBVIOUS
  <2>2. asked = [what |-> None, ssrc |-> 0, marks |-> marks]
    BY DEF AirPlayInit
  <2> HIDE DEF marks
  <2>3. asked = [what |-> asked.what, ssrc |-> asked.ssrc, marks |-> asked.marks]
        /\ asked.what = None /\ asked.ssrc = 0 /\ asked.marks = marks
    BY <2>2
  <2>4. InForce(asked.ssrc, asked.marks)
    <3>1. Named(marks) = {}
      BY <2>1 DEF Named
    <3> QED BY <2>3, <3>1 DEF InForce
  <2> QED BY <2>1, <2>3, <2>4 DEF AskedInv, AskedOK
<1> QED BY <1>1, <1>2, <1>3, <1>4, <1>5, <1>6 DEF AirPlayInv

LEMMA ReceiverSteps ==
  ASSUME AirPlayInv,
         \/ AcceptConnection
         \/ \E id \in 1..MaxConnections : Disconnect(id)
         \/ \E id \in 1..MaxConnections, raw \in Requests : Handle(id, raw)
  PROVE  AirPlayInv' /\ UNCHANGED <<mirror, audio, store, asked>>
<1>1. ReceiverInv'
  BY AcceptKeeps, DisconnectKeeps, HandleKeeps DEF AirPlayInv
<1>2. UNCHANGED <<topic, mirror, audio, store, asked>>
  BY DEF AcceptConnection, Disconnect, Handle
<1> QED BY <1>1, <1>2 DEF AirPlayInv, MirrorInv, AudioInv, StoreInv, AskedInv

LEMMA MirrorSteps ==
  ASSUME AirPlayInv,
         \/ \E raw \in Frames : OnPicture(raw) \/ OnOtherFrame(raw)
         \/ \E codec \in {"h264", "hevc"}, id \in 1..2, pixels \in {1, MaxPixels + 1}, d \in BOOLEAN :
               Configure(codec, id, pixels, d)
         \/ \E drain \in BOOLEAN : SetDrain(drain)
         \/ Finish
  PROVE  AirPlayInv' /\ UNCHANGED <<receiver, audio, store, asked>>
<1>1. MirrorInv'
  BY PictureKeeps, OtherFrameKeeps, ConfigureKeeps, SetDrainKeeps, FinishKeeps DEF AirPlayInv
<1>2. UNCHANGED <<topic, receiver, audio, store, asked>>
  BY DEF OnPicture, OnOtherFrame, Configure, SetDrain, Finish, Mirrors
<1> QED BY <1>1, <1>2 DEF AirPlayInv, ReceiverInv, AudioInv, StoreInv, AskedInv

LEMMA AudioSteps ==
  ASSUME AirPlayInv,
         \/ \E sink \in {"null", "file"}, source, device \in Rates, channels \in 0..2 :
               Connect(sink, source, device, channels)
         \/ \E raw \in Frames : OnBlock(raw)
  PROVE  AirPlayInv' /\ UNCHANGED <<receiver, mirror, store, asked>>
<1>1. AudioInv'
  BY ConnectKeeps, OnBlockKeeps DEF AirPlayInv
<1>2. UNCHANGED <<topic, receiver, mirror, store, asked>>
  BY DEF Connect, OnBlock, Listens
<1> QED BY <1>1, <1>2 DEF AirPlayInv, ReceiverInv, MirrorInv, StoreInv, AskedInv

LEMMA StoreSteps ==
  ASSUME AirPlayInv,
         \/ \E d \in Devices, key \in 1..2, wellFormed \in BOOLEAN : Put(d, key, wellFormed)
         \/ \E d \in Devices : Forget(d) \/ Touch(d)
         \/ SetIdentitySeed \/ Save \/ Restart \/ Later
  PROVE  /\ AirPlayInv' /\ UNCHANGED <<receiver, mirror, audio, asked>>
         /\ \/ Lasting(Devs, Devs', {}) \/ Restart
            \/ \E d \in Devices : Forget(d) /\ Lasting(Devs, Devs', {d})
<1>0. StoreInv
  BY DEF AirPlayInv
<1>1. /\ StoreInv'
      /\ \/ Lasting(Devs, Devs', {}) \/ Restart
         \/ \E d \in Devices : Forget(d) /\ Lasting(Devs, Devs', {d})
  <2>1. ASSUME NEW d \in Devices, NEW key, NEW wellFormed, Put(d, key, wellFormed)
        PROVE  StoreInv' /\ Lasting(Devs, Devs', {})
    BY <1>0, <2>1, PutKeeps
  <2>2. ASSUME NEW d \in Devices, Forget(d)
        PROVE  StoreInv' /\ Lasting(Devs, Devs', {d})
    BY <1>0, <2>2, ForgetKeeps
  <2>3. ASSUME NEW d \in Devices, Touch(d)
        PROVE  StoreInv' /\ Lasting(Devs, Devs', {})
    BY <1>0, <2>3, TouchKeeps
  <2>4. ASSUME SetIdentitySeed \/ Save \/ Later
        PROVE  StoreInv' /\ Lasting(Devs, Devs', {})
    BY <1>0, <2>4, SeedKeeps, SaveKeeps, LaterKeeps
  <2>5. Restart => StoreInv'
    BY <1>0, RestartKeeps
  <2> QED BY <2>1, <2>2, <2>3, <2>4, <2>5
<1>2. UNCHANGED <<topic, receiver, mirror, audio, asked>>
  BY DEF Put, Forget, Touch, SetIdentitySeed, Save, Restart, Later, Stores
<1>3. AirPlayInv'
  BY <1>1, <1>2 DEF AirPlayInv, ReceiverInv, MirrorInv, AudioInv, AskedInv
<1> QED BY <1>1, <1>2, <1>3

LEMMA AskedSteps ==
  ASSUME AirPlayInv,
         \/ \E t \in StreamType, hasControlPort \in BOOLEAN : AskStream(t, hasControlPort)
         \/ \E keys \in AudioRequests : AskAudio(keys)
         \/ \E request \in {"/audioMode", "/feedback"}, raw \in ControlRequests :
               AskControl(request, raw)
         \/ \E path \in PairingPaths, keys \in KeySets : AskPairing(path, keys)
         \/ \E mark \in Marks : OnPacket(mark)
  PROVE  AirPlayInv' /\ UNCHANGED <<receiver, mirror, audio, store>>
<1>1. AskedInv'
  BY QuestionsKeep, OnPacketKeeps DEF AirPlayInv
<1>2. UNCHANGED <<topic, receiver, mirror, audio, store>>
  BY DEF AskStream, AskAudio, AskControl, AskPairing, OnPacket, Asks
<1> QED BY <1>1, <1>2 DEF AirPlayInv, ReceiverInv, MirrorInv, AudioInv, StoreInv

LEMMA AirPlayGoesOn ==
  ASSUME AirPlayInv, [AirPlayNext]_airplayVars
  PROVE  /\ AirPlayInv'
         /\ \/ Lasting(Devs, Devs', {}) \/ Restart
            \/ \E d \in Devices : Forget(d) /\ Lasting(Devs, Devs', {d})
<1>1. ASSUME UNCHANGED <<store>> PROVE Lasting(Devs, Devs', {})
  BY <1>1 DEF Lasting, Devs
<1>2. CASE UNCHANGED airplayVars
  BY <1>1, <1>2 DEF airplayVars, AirPlayInv, ReceiverInv, MirrorInv, AudioInv, StoreInv, AskedInv
<1>3. CASE AirPlayNext
  BY <1>1, <1>3, ReceiverSteps, MirrorSteps, AudioSteps, StoreSteps, AskedSteps DEF AirPlayNext
<1> QED BY <1>2, <1>3

(* The typed part of the invariant is the type invariant of the model.        *)
LEMMA AirPlayIsTyped ==
  ASSUME AirPlayInv
  PROVE  AirPlayTypeOK
<1>1. /\ receiver.next \in 1..MaxConnections + 1
      /\ DOMAIN receiver.sessions \subseteq 1..receiver.next - 1
  BY DEF AirPlayInv, ReceiverInv, ReceiverOK
<1>2. \A id \in DOMAIN receiver.sessions : receiver.sessions[id] \in Sessions
  BY TableIs DEF AirPlayInv, ReceiverInv, ReceiverOK
<1>3. Len(mirror.queue.frames) <= MaxFrames /\ mirror.queue.bytes <= Budget
  BY DEF AirPlayInv, MirrorInv, TrackInv, Sound
<1>4. DOMAIN store.now.devices \subseteq Devices
  BY DEF AirPlayInv, StoreInv, StoreOK, Stored, Listed
<1> QED BY <1>1, <1>2, <1>3, <1>4 DEF AirPlayTypeOK, AirPlayInv, Sessions

LEMMA ReservationsFollow ==
  ASSUME AirPlayInv
  PROVE  ReservationsAreBounded
<1> DEFINE r == receiver
           holding == {id \in DOMAIN r.sessions : r.sessions[id].port}
<1>1. AirPlayTypeOK
  BY AirPlayIsTyped
<1>2. ReceiverOK(r)
  BY DEF AirPlayInv, ReceiverInv
<1>3. \A id \in DOMAIN r.sessions :
         /\ r.sessions[id].stream = r.sessions[id].port
         /\ r.sessions[id].port => id \in r.proven \cap Active(r)
  BY <1>2 DEF ReceiverOK, Entitled, Active
<1>4. Cardinality(holding) <= MaxSessions
  <2>1. holding \in SUBSET Active(r)
    BY <1>3
  <2>2. IsFiniteSet(Active(r)) /\ Cardinality(Active(r)) =< MaxSessions
    BY <1>2, ActiveIsFinite DEF ReceiverOK
  <2>3. Cardinality(holding) <= Cardinality(Active(r)) /\ IsFiniteSet(holding)
    <3> HIDE DEF holding
    <3> QED BY <2>1, <2>2, FS_Subset
  <2>4. Cardinality(holding) \in Nat /\ Cardinality(Active(r)) \in Nat
    BY <2>2, <2>3, FS_CardinalityType
  <2> QED BY <2>2, <2>3, <2>4
<1>5. r.answer = "200 playing" => r.by \in DOMAIN r.sessions /\ r.sessions[r.by].port
  BY <1>2 DEF ReceiverOK, Playing
<1> QED BY <1>1, <1>3, <1>4, <1>5 DEF ReservationsAreBounded

LEMMA PicturesFollow ==
  ASSUME AirPlayInv
  PROVE  NoFrameAfterGap /\ FramesAreAccounted
BY DEF AirPlayInv, MirrorInv, TrackInv, Sound, Counted, Through, NoFrameAfterGap, FramesAreAccounted

LEMMA DurationFollows ==
  ASSUME AirPlayInv
  PROVE  DurationIsKept
BY DEF AirPlayInv, AudioInv, Planned, Keeps, DurationIsKept

LEMMA AirPlayInvariant == AirPlaySpec => []AirPlayInv
<1>1. AirPlayInit => AirPlayInv
  BY AirPlayStarts
<1>2. AirPlayInv /\ [AirPlayNext]_airplayVars => AirPlayInv'
  BY AirPlayGoesOn
<1> QED BY <1>1, <1>2, PTL DEF AirPlaySpec

(* Ports are held by sessions that have paired and not ended, no more of them *)
(* than are served, and PLAY is granted only to one that asks for it and      *)
(* holds a port itself (session.rs).                                          *)
THEOREM ReservationsTheorem == AirPlaySpec => []ReservationsAreBounded
<1>1. AirPlayInv => ReservationsAreBounded
  BY ReservationsFollow
<1> QED BY <1>1, AirPlayInvariant, PTL

(* The sink gets no picture that builds on one that was lost (mirror.rs).      *)
THEOREM GapTheorem == AirPlaySpec => []NoFrameAfterGap
<1>1. AirPlayInv => NoFrameAfterGap
  BY PicturesFollow
<1> QED BY <1>1, AirPlayInvariant, PTL

(* Every picture offered is forwarded, dropped or refused, and no more is     *)
(* counted as forwarded than went somewhere (mirror.rs, MirrorStats).         *)
THEOREM FramesTheorem == AirPlaySpec => []FramesAreAccounted
<1>1. AirPlayInv => FramesAreAccounted
  BY PicturesFollow
<1> QED BY <1>1, AirPlayInvariant, PTL

(* Resampling any number of blocks, between any two rates, loses less than    *)
(* two frames a block and adds none (sinks.rs, ResamplePlan).                 *)
THEOREM DurationTheorem == AirPlaySpec => []DurationIsKept
<1>1. AirPlayInv => DurationIsKept
  BY DurationFollows
<1> QED BY <1>1, AirPlayInvariant, PTL

(* What is accepted is exact, and the format in force is that of the last     *)
(* mark that names one (audio_profile.rs, audio_control.rs, pairstore.rs).    *)
THEOREM FormatsTheorem == AirPlaySpec => []FormatsAreExact
<1>1. AirPlayInv => FormatsAreExact
  BY AskedIsExact DEF AirPlayInv
<1> QED BY <1>1, AirPlayInvariant, PTL

(* A pairing lasts until it is removed or the host restarts (pairstore.rs).   *)
THEOREM PairingsTheorem == AirPlaySpec => PairingsSurvive
<1>1. AirPlayInv /\ [AirPlayNext]_airplayVars =>
        [\A d \in DOMAIN Devs :
           \/ d \in DOMAIN Devs' /\ Devs'[d].added = Devs[d].added
           \/ Forget(d) \/ Restart]_airplayVars
  <2> SUFFICES ASSUME AirPlayInv, [AirPlayNext]_airplayVars, NEW d \in DOMAIN Devs
               PROVE  \/ d \in DOMAIN Devs' /\ Devs'[d].added = Devs[d].added
                      \/ Forget(d) \/ Restart
    OBVIOUS
  <2> QED BY AirPlayGoesOn DEF Lasting
<1> QED BY <1>1, AirPlayInvariant, PTL DEF AirPlaySpec, PairingsSurvive
=============================================================================
