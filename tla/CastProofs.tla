------------------------------ MODULE CastProofs ------------------------------
(* What holds of a Cast sender for any URLs, timeouts and number of requests; *)
(* of a sender and a receiver at the two ends of a channel, for any apps and  *)
(* any number of messages under way and of other senders; and of the advert a *)
(* receiver is discovered by.                                                 *)
EXTENDS CastCoding, InductionLemmas

(* Ids are given out in order, and a pending request has one of its own.      *)
Ids ==
  /\ \A p \in pending : p.id =< requests
  /\ \A p, q \in pending : p.id = q.id => p = q
  /\ \A id \in RequestId : id > requests => settled[id] = 0

CastInv ==
  /\ TypeOK
  /\ GateClosedSendsNothing
  /\ LaunchedHasTransport
  /\ EndedHoldsNoUrl
  /\ SettledOnce
  /\ Ids

USE CastAssumption

-----------------------------------------------------------------------------
(* The parts of the state the two halves of the invariant are about.          *)
SessionInv ==
  /\ gate \in {"open", "closed"}
  /\ state \in ControllerState
  /\ transport \in {"none", "known"} /\ media \in {"none", "known"}
  /\ url \in Url \cup {NoUrl} /\ lent \subseteq Url
  /\ gate = "closed" => lent = {}
  /\ LaunchedHasTransport
  /\ EndedHoldsNoUrl

RequestInv ==
  /\ pending \subseteq Pending
  /\ requests \in 0..MaxRequests
  /\ settled \in [RequestId -> Nat]
  /\ gate = "closed" => requests = 0
  /\ SettledOnce
  /\ Ids

AgeInv ==
  /\ sentAge \in Never..HeartbeatPing
  /\ heardAge \in Never..(HeartbeatExpiry + 1)

(* What left: nothing behind a closed gate but answers to a PING.             *)
GateInv ==
  /\ behind \subseteq {"request", "CLOSE", "PING", "PONG"}
  /\ gate = "closed" => behind \subseteq {"PONG"}

LEMMA Halves ==
  /\ CastInv <=> SessionInv /\ RequestInv /\ AgeInv /\ GateInv
  /\ CastInv' <=> SessionInv' /\ RequestInv' /\ AgeInv' /\ GateInv'
  BY DEF CastInv, SessionInv, RequestInv, AgeInv, GateInv, TypeOK, GateClosedSendsNothing

LEMMA CastInit == Init => CastInv
<1> SUFFICES ASSUME Init PROVE CastInv
  OBVIOUS
<1>1. SessionInv
  BY DEF Init, SessionInv, ControllerState, LaunchedHasTransport, EndedHoldsNoUrl
<1>2. RequestInv
  BY DEF Init, RequestInv, Pending, RequestId, SettledOnce, Ids
<1>3. AgeInv
  BY DEF Init, AgeInv, Never
<1>4. GateInv
  BY DEF Init, GateInv
<1> QED
  BY <1>1, <1>2, <1>3, <1>4, Halves

-----------------------------------------------------------------------------
LEMMA EmitRequests ==
  ASSUME RequestInv, AgeInv, Emit
  PROVE  RequestInv' /\ AgeInv'
<1> DEFINE new == [id |-> requests + 1, age |-> 0]
<1>1. /\ gate = "open" /\ gate' = gate
      /\ requests \in Nat /\ requests < MaxRequests
      /\ requests' = requests + 1
      /\ pending' = pending \cup {new}
      /\ settled' = settled
      /\ sentAge' = 0 /\ heardAge' = heardAge
  BY DEF Emit, RequestInv
<1>2. new \in Pending /\ new.id = requests + 1 /\ requests + 1 \in RequestId
  BY <1>1 DEF Pending, RequestId
<1>3. \A p \in pending : p.id \in Nat /\ p.id =< requests
  BY DEF RequestInv, Ids, Pending, RequestId
<1>4. settled[requests + 1] = 0
  BY <1>1, <1>2 DEF RequestInv, Ids
<1> HIDE DEF new
<1>5. SettledOnce'
  BY <1>1, <1>2, <1>4 DEF RequestInv, SettledOnce
<1>6. Ids'
  <2>1. \A p \in pending' : p.id =< requests'
    BY <1>1, <1>2, <1>3
  <2>2. \A p, q \in pending' : p.id = q.id => p = q
    BY <1>1, <1>2, <1>3 DEF RequestInv, Ids
  <2>3. \A id \in RequestId : id > requests' => settled'[id] = 0
    BY <1>1 DEF RequestInv, Ids, RequestId
  <2> QED
    BY <2>1, <2>2, <2>3 DEF Ids
<1>7. requests' \in 0..MaxRequests /\ sentAge' \in Never..HeartbeatPing
  BY <1>1 DEF Never
<1> QED
  BY <1>1, <1>2, <1>5, <1>6, <1>7 DEF RequestInv, AgeInv

(* Whichever overdue requests go, what stays was not settled.                 *)
LEMMA DropOverdue ==
  ASSUME RequestInv, pending' \subseteq pending \ Overdue,
         settled' = [id \in RequestId |-> IF id \in {p.id : p \in Overdue}
                                          THEN settled[id] + 1 ELSE settled[id]],
         UNCHANGED <<gate, requests>>
  PROVE  RequestInv'
<1>1. \A p \in Overdue : p \in pending /\ p.id \in RequestId /\ settled[p.id] = 0
  BY DEF Overdue, RequestInv, SettledOnce, Pending
<1>2. settled' \in [RequestId -> Nat]
  BY DEF RequestInv
<1>3. SettledOnce'
  <2>1. ASSUME NEW id \in RequestId PROVE settled'[id] =< 1
    BY <1>1, <2>1 DEF RequestInv, SettledOnce
  <2>2. ASSUME NEW p \in pending' PROVE settled'[p.id] = 0
    <3>1. p \in pending /\ p \notin Overdue /\ p.id \in RequestId
      BY DEF RequestInv, Pending
    <3>2. p.id \notin {q.id : q \in Overdue}
      BY <1>1, <3>1 DEF RequestInv, Ids
    <3>3. settled[p.id] = 0
      BY <3>1 DEF RequestInv, SettledOnce
    <3> QED
      BY <3>1, <3>2, <3>3
  <2> QED
    BY <2>1, <2>2 DEF SettledOnce
<1>4. Ids'
  <2>1. \A id \in RequestId : id > requests => id \notin {p.id : p \in Overdue}
    BY <1>1 DEF RequestInv, Ids, RequestId
  <2> QED
    BY <2>1 DEF RequestInv, Ids
<1> QED
  BY <1>2, <1>3, <1>4 DEF RequestInv

(* An answer settles the one request that has its id.                         *)
LEMMA AnswerRequests ==
  ASSUME RequestInv, NEW answered \in pending, Answered(answered.id),
         UNCHANGED <<gate, requests>>
  PROVE  RequestInv'
<1> DEFINE id == answered.id
<1>1. /\ id \in RequestId /\ id =< requests /\ settled[id] = 0
      /\ pending' = {p \in pending : p.id # id}
      /\ settled' = [settled EXCEPT ![id] = 1]
  <2>1. id \in RequestId /\ id =< requests /\ settled[id] = 0
    BY DEF RequestInv, SettledOnce, Ids, Pending
  <2>2. settled' = [settled EXCEPT ![id] = settled[id] + 1]
    BY DEF Answered
  <2> QED
    BY <2>1, <2>2 DEF Answered
<1> HIDE DEF id
<1>2. SettledOnce'
  BY <1>1 DEF RequestInv, SettledOnce
<1>3. Ids'
  BY <1>1 DEF RequestInv, Ids, RequestId
<1>4. /\ pending' \subseteq Pending
      /\ settled' \in [RequestId -> Nat]
  BY <1>1 DEF RequestInv
<1> QED
  BY <1>2, <1>3, <1>4 DEF RequestInv

(* A message of one kind leaves, or none does. *)
LEMMA GateStep ==
  ASSUME GateInv, gate' = gate,
         \/ UNCHANGED behind
         \/ Leaves("PONG")
         \/ gate = "open" /\ \E kind \in {"request", "CLOSE", "PING"} : Leaves(kind)
  PROVE  GateInv'
  BY DEF GateInv, Leaves

LEMMA SameRequests ==
  ASSUME RequestInv, UNCHANGED <<gate, pending, requests, settled>>
  PROVE  RequestInv'
  BY DEF RequestInv, SettledOnce, Ids

-----------------------------------------------------------------------------
(* The calls.                                                                 *)
LEMMA CallStep ==
  ASSUME CastInv, Connect \/ Launch \/ (\E u \in Url : Load(u)) \/ MediaCommand \/ Stop \/ Close
  PROVE  CastInv'
<1>0. SessionInv /\ RequestInv /\ AgeInv /\ GateInv
  BY Halves
<1> USE DEF SessionInv, ControllerState, LaunchedHasTransport, EndedHoldsNoUrl, KeepUrl,
            ReleaseUrl, EmitMedia
<1>1. CASE Emit /\ (Connect \/ Launch \/ (\E u \in Url : Load(u)) \/ MediaCommand \/ Stop)
  <2>1. RequestInv' /\ AgeInv'
    BY <1>0, <1>1, EmitRequests
  <2>2. gate = "open" /\ gate' = gate
    BY <1>1 DEF Emit
  <2>3. SessionInv'
    <3>1. CASE Connect \/ Launch
      BY <1>0, <2>2, <3>1 DEF Connect, Launch
    <3>2. CASE \E u \in Url : Load(u)
      BY <1>0, <2>2, <3>2 DEF Load
    <3>3. CASE MediaCommand
      BY <1>0, <2>2, <3>3 DEF MediaCommand, session
    <3>4. CASE Stop
      BY <1>0, <2>2, <3>4 DEF Stop
    <3> QED
      BY <1>1, <3>1, <3>2, <3>3, <3>4
  <2>4. GateInv'
    BY <1>0, <1>1, <2>2, GateStep DEF Emit
  <2> QED
    BY <2>1, <2>3, <2>4, Halves
<1>2. CASE Close
  <2>1. SessionInv'
    BY <1>0, <1>2 DEF Close
  <2>2. RequestInv'
    <3>1. /\ requests \in 0..MaxRequests /\ requests < MaxRequests
          /\ requests' = requests + 1
          /\ gate = "open" /\ gate' = gate /\ settled' = settled /\ pending' = {}
      BY <1>0, <1>2 DEF Close, RequestInv
    <3>2. \A id \in RequestId : id > requests' => settled'[id] = 0
      BY <1>0, <3>1 DEF RequestInv, Ids, RequestId
    <3>3. requests' \in 0..MaxRequests
      BY <3>1
    <3> QED
      BY <1>0, <3>1, <3>2, <3>3 DEF RequestInv, SettledOnce, Ids
  <2>3. AgeInv'
    BY <1>0, <1>2 DEF Close, AgeInv
  <2>4. GateInv'
    BY <1>0, <1>2, GateStep DEF Close
  <2> QED
    BY <2>1, <2>2, <2>3, <2>4, Halves
<1> QED
  BY <1>1, <1>2 DEF Connect, Launch, Load, MediaCommand, Stop

(* The receiver's messages, those that answer and those that do not.          *)
LEMMA MessageStep ==
  ASSUME CastInv, OnMessage \/ OnRefused
  PROVE  CastInv'
<1>0. SessionInv /\ RequestInv /\ AgeInv /\ GateInv
  BY Halves
<1>1. AgeInv'
  BY <1>0 DEF AgeInv, OnMessage, OnRefused, Never
<1>2. RequestInv'
  <2>1. CASE UNCHANGED <<pending, settled>>
    BY <1>0, <2>1, SameRequests DEF OnMessage, OnRefused
  <2>2. CASE OnMessage /\ \E p \in pending : Answered(p.id)
    BY <1>0, <2>2, AnswerRequests DEF OnMessage
  <2> QED
    BY <2>1, <2>2 DEF OnMessage, OnRefused
<1>3. SessionInv'
  <2> USE DEF SessionInv, ControllerState, LaunchedHasTransport, EndedHoldsNoUrl, KeepUrl,
              ReleaseUrl, session
  <2>0. gate' = gate
    BY DEF OnMessage, OnRefused
  <2>1. CASE OnRefused
    BY <1>0, <2>1 DEF OnRefused
  <2>2. CASE OnConnected \/ OnClose
    BY <1>0, <2>0, <2>2 DEF OnConnected, OnClose
  <2>3. CASE OnAppRunning
    BY <1>0, <2>0, <2>3 DEF OnAppRunning
  <2>4. CASE OnAppGone
    BY <1>0, <2>0, <2>4 DEF OnAppGone
  <2>5. CASE OnLaunchError
    BY <1>0, <2>0, <2>5 DEF OnLaunchError
  <2>6. CASE OnMediaPlaying \/ OnMediaIdle
    BY <1>0, <2>0, <2>6 DEF OnMediaPlaying, OnMediaIdle
  <2>7. CASE OnLoadFailed \/ OnOther \/ OnPing
    BY <1>0, <2>0, <2>7 DEF OnLoadFailed, OnOther, OnPing
  <2> QED
    BY <2>1, <2>2, <2>3, <2>4, <2>5, <2>6, <2>7 DEF OnMessage
<1>4. GateInv'
  BY <1>0, GateStep DEF OnMessage, OnRefused, OnPing
<1> QED
  BY <1>1, <1>2, <1>3, <1>4, Halves

LEMMA TickStep ==
  ASSUME CastInv, Tick
  PROVE  CastInv'
<1>0. SessionInv /\ RequestInv /\ AgeInv /\ GateInv
  BY Halves
<1>1. AgeInv'
  BY <1>0 DEF AgeInv, Tick, Never
<1>2. RequestInv'
  BY <1>0, DropOverdue DEF Tick, TimeOut
<1>3. SessionInv'
  BY <1>0 DEF Tick, TimeOut, SessionInv, ControllerState, LaunchedHasTransport,
              EndedHoldsNoUrl, ReleaseUrl, session
<1>4. GateInv'
  <2>1. gate \in {"open", "closed"} /\ gate' = gate
    BY <1>0 DEF Tick, SessionInv
  <2>2. UNCHANGED behind \/ (gate = "open" /\ Leaves("PING"))
    BY <2>1 DEF Tick
  <2> QED
    BY <1>0, <2>1, <2>2, GateStep
<1> QED
  BY <1>1, <1>2, <1>3, <1>4, Halves

LEMMA WaitStep ==
  ASSUME CastInv, Wait
  PROVE  CastInv'
<1>0. SessionInv /\ RequestInv /\ AgeInv /\ GateInv
  BY Halves
<1> DEFINE older(p) == [id |-> p.id, age |-> Older(p.age, RequestTimeout + 1)]
<1>1. AgeInv'
  BY <1>0 DEF AgeInv, Wait, Older, Never
<1>2. SessionInv'
  BY <1>0 DEF Wait, SessionInv, LaunchedHasTransport, EndedHoldsNoUrl, session
<1>3. RequestInv'
  <2>1. /\ pending' = {older(p) : p \in pending}
        /\ UNCHANGED <<gate, requests, settled>>
    BY DEF Wait
  <2>2. ASSUME NEW p \in pending PROVE older(p) \in Pending /\ older(p).id = p.id
    <3>1. p.id \in RequestId /\ p.age \in 0..(RequestTimeout + 1)
      BY <1>0 DEF RequestInv, Pending
    <3>2. Older(p.age, RequestTimeout + 1) \in 0..(RequestTimeout + 1)
      BY <3>1 DEF Older, Never
    <3> QED
      BY <3>1, <3>2 DEF Pending
  <2> HIDE DEF older
  <2>3. SettledOnce'
    BY <1>0, <2>1, <2>2 DEF RequestInv, SettledOnce
  <2>4. Ids'
    BY <1>0, <2>1, <2>2 DEF RequestInv, Ids
  <2> QED
    BY <1>0, <2>1, <2>2, <2>3, <2>4 DEF RequestInv
<1>4. GateInv'
  BY <1>0, GateStep DEF Wait
<1> QED
  BY <1>1, <1>2, <1>3, <1>4, Halves

-----------------------------------------------------------------------------
LEMMA CastStep ==
  ASSUME CastInv, [Next]_vars
  PROVE  CastInv'
<1>1. CASE UNCHANGED vars
  BY <1>1 DEF vars, session, CastInv, TypeOK, GateClosedSendsNothing, LaunchedHasTransport,
              EndedHoldsNoUrl, SettledOnce, Ids
<1> QED
  BY <1>1, CallStep, MessageStep, TickStep, WaitStep DEF Next

(* The parts of the invariant hold together in every reachable state.         *)
THEOREM Safe == Spec => []CastInv
<1>1. CastInv /\ [Next]_vars => CastInv'
  BY CastStep
<1> QED
  BY <1>1, CastInit, PTL DEF Spec

(* Every variable keeps its type; ids stay within their range.                *)
THEOREM TypeCorrect == Spec => []TypeOK
<1>1. CastInv => TypeOK
  BY DEF CastInv
<1> QED
  BY <1>1, Safe, PTL

(* Behind a closed gate nothing is ever sent, whatever the receiver says, but *)
(* for the PONG that answers a PING.                                          *)
THEOREM GateHolds == Spec => []GateClosedSendsNothing
<1>1. CastInv => GateClosedSendsNothing
  BY DEF CastInv
<1> QED
  BY <1>1, Safe, PTL

(* An app that can be given a URL has a transport.                            *)
THEOREM LaunchIsReal == Spec => []LaunchedHasTransport
<1>1. CastInv => LaunchedHasTransport
  BY DEF CastInv
<1> QED
  BY <1>1, Safe, PTL

(* The end of a session gives the URL back.                                   *)
THEOREM EndReleases == Spec => []EndedHoldsNoUrl
<1>1. CastInv => EndedHoldsNoUrl
  BY DEF CastInv
<1> QED
  BY <1>1, Safe, PTL

(* No request is both answered and timed out, nor either twice.               *)
THEOREM RequestsSettleOnce == Spec => []SettledOnce
<1>1. CastInv => SettledOnce
  BY DEF CastInv
<1> QED
  BY <1>1, Safe, PTL

-----------------------------------------------------------------------------
(* A sender and a receiver at the two ends of a channel.                      *)

USE LinkAssumption

AnApp == [id : Apps, sender : Nat] \cup {NoApp}

Receiver == [gate : {"vendor", "test-root"}, apps : {Configured}, trusted : BOOLEAN,
             state : {"Idle", "Connected", "Launched", "Closed"}, senders : Nat, app : AnApp]

Request == [type : {"CONNECT", "LAUNCH", "LOAD", "PLAY", "STOP", "CLOSE", "PING"},
            id : Nat, app : AnApp]
Reply == [type : {"CONNECTED", "PONG", "RECEIVER_STATUS", "LAUNCH_ERROR", "MEDIA_PLAYING",
                  "MEDIA_IDLE", "LOAD_FAILED"},
          id : Nat, app : AnApp]

IsStatus(m) == m.type = "RECEIVER_STATUS"

LinkTypeOK ==
  /\ peer \in {"any", "ours"}
  /\ receiver \in Receiver
  /\ toReceiver \in Seq(Request) /\ toSender \in Seq(Reply)
  /\ told \in AnApp
  /\ missed \in BOOLEAN /\ parted \in BOOLEAN

-----------------------------------------------------------------------------
(* Behind the channel the sender does what it does with any peer.             *)
LEMMA LinkStepIsStep ==
  ASSUME LinkTypeOK, [LinkNext]_linkVars
  PROVE  [Next]_vars
<1>1. CASE SenderTakes
  <2> DEFINE m == Head(toSender)
  <2>1. toSender # <<>> /\ m \in Reply
    BY <1>1 DEF SenderTakes, LinkTypeOK
  <2>2. CASE m.id # Unasked /\ \A p \in pending : p.id # m.id
    BY <1>1, <2>2 DEF SenderTakes, Next
  <2>3. CASE ~(m.id # Unasked /\ \A p \in pending : p.id # m.id)
    <3>1. /\ heardAge' = 0 /\ Reacts(m)
          /\ IF m.id = Unasked THEN UNCHANGED <<pending, settled>> ELSE Answered(m.id)
          /\ UNCHANGED <<gate, requests, sentAge, behind>>
      BY <1>1, <2>3 DEF SenderTakes
    <3>2. UNCHANGED <<pending, settled>> \/ \E p \in pending : Answered(p.id)
      <4>1. CASE m.id = Unasked
        BY <3>1, <4>1
      <4>2. CASE m.id # Unasked
        <5>1. PICK p \in pending : p.id = m.id
          BY <2>3, <4>2
        <5> QED BY <3>1, <4>2, <5>1
      <4> QED BY <4>1, <4>2
    <3>3. \/ OnConnected \/ OnClose \/ OnAppRunning \/ OnAppGone \/ OnLaunchError
          \/ OnMediaPlaying \/ OnMediaIdle \/ OnLoadFailed \/ OnOther
      <4>1. m.type \in {"CONNECTED", "PONG", "RECEIVER_STATUS", "LAUNCH_ERROR", "MEDIA_PLAYING",
                        "MEDIA_IDLE", "LOAD_FAILED"}
        BY <2>1 DEF Reply
      <4> HIDE DEF m
      <4> QED BY <3>1, <4>1 DEF Reacts
    <3> QED BY <3>1, <3>2, <3>3 DEF OnMessage, Next
  <2> QED BY <2>2, <2>3
<1>2. CASE ReceiverTakes \/ LearnTrust \/ TellStatus \/ OtherConnects \/ OtherLaunches \/ OtherCloses
  BY <1>2 DEF ReceiverTakes, LearnTrust, TellStatus, OtherConnects, OtherLaunches, OtherCloses
<1>3. CASE LinkConnect \/ LinkLaunch \/ LinkLoad \/ LinkCommand \/ LinkStop \/ LinkClose
  BY <1>3 DEF LinkConnect, LinkLaunch, LinkLoad, LinkCommand, LinkStop, LinkClose, Next
<1>4. CASE LinkTick \/ LinkWait \/ FromAnyone
  BY <1>4 DEF LinkTick, LinkWait, FromAnyone, Next
<1>5. CASE UNCHANGED linkVars
  BY <1>5 DEF linkVars
<1> QED BY <1>1, <1>2, <1>3, <1>4, <1>5 DEF LinkNext

-----------------------------------------------------------------------------
(* Messages and apps.                                                         *)
LEMMA MessageIs ==
  ASSUME NEW type, NEW id, NEW app
  PROVE  /\ Message(type, id, app).type = type
         /\ Message(type, id, app).id = id
         /\ Message(type, id, app).app = app
BY DEF Message

LEMMA Replies ==
  ASSUME NEW id \in Nat, NEW app \in AnApp,
         NEW type \in {"CONNECTED", "PONG", "RECEIVER_STATUS", "LAUNCH_ERROR", "MEDIA_PLAYING",
                       "MEDIA_IDLE", "LOAD_FAILED"}
  PROVE  Message(type, id, app) \in Reply
BY DEF Message, Reply

LEMMA Asks ==
  ASSUME NEW id \in Nat, NEW app \in AnApp,
         NEW type \in {"CONNECT", "LAUNCH", "LOAD", "PLAY", "STOP", "CLOSE", "PING"}
  PROVE  Message(type, id, app) \in Request
BY DEF Message, Request

LEMMA AppsAre ==
  /\ NoApp \in AnApp /\ Unasked \in Nat
  /\ \A app \in Apps, n \in Nat : [id |-> app, sender |-> n] \in AnApp \ {NoApp}
BY DEF AnApp, NoApp, Unasked

(* What the receiver's four operations make of it.                            *)
LEMMA ReceiverOps ==
  ASSUME NEW r \in Receiver
  PROVE  /\ \A b \in BOOLEAN :
              /\ NoteSenderTrust(r, b) \in Receiver
              /\ NoteSenderTrust(r, b).app = r.app /\ NoteSenderTrust(r, b).state = r.state
         /\ OnReceiverConnect(r) \in Receiver /\ OnReceiverConnect(r).app = r.app
         /\ IF Admits(r) THEN OnReceiverConnect(r).state = "Connected" ELSE OnReceiverConnect(r) = r
         /\ OnReceiverClose(r) \in Receiver
         /\ \A app : /\ OnReceiverLaunch(r, app) \in Receiver
                     /\ IF TakesLaunch(r) /\ app \in r.apps
                        THEN OnReceiverLaunch(r, app).state = "Launched"
                        ELSE OnReceiverLaunch(r, app) = r
<1>1. ASSUME NEW b \in BOOLEAN
      PROVE  /\ NoteSenderTrust(r, b) \in Receiver
             /\ NoteSenderTrust(r, b).app = r.app /\ NoteSenderTrust(r, b).state = r.state
  BY DEF NoteSenderTrust, Receiver
<1>2. /\ OnReceiverConnect(r) \in Receiver /\ OnReceiverConnect(r).app = r.app
      /\ IF Admits(r) THEN OnReceiverConnect(r).state = "Connected" ELSE OnReceiverConnect(r) = r
  <2>1. CASE Admits(r)
    <3>1. OnReceiverConnect(r) = [r EXCEPT !.senders = r.senders + 1, !.state = "Connected"]
      BY <2>1 DEF OnReceiverConnect
    <3>2. r.senders + 1 \in Nat
      BY DEF Receiver
    <3> DEFINE n == r.senders + 1
    <3> HIDE DEF n
    <3> QED BY <2>1, <3>1, <3>2 DEF Receiver, n
  <2>2. CASE ~Admits(r)
    BY <2>2 DEF OnReceiverConnect
  <2> QED BY <2>1, <2>2
<1>3. OnReceiverClose(r) \in Receiver
  BY AppsAre DEF OnReceiverClose, Receiver
<1>4. ASSUME NEW app
      PROVE  /\ OnReceiverLaunch(r, app) \in Receiver
             /\ IF TakesLaunch(r) /\ app \in r.apps
                THEN OnReceiverLaunch(r, app).state = "Launched"
                ELSE OnReceiverLaunch(r, app) = r
  <2>1. CASE TakesLaunch(r) /\ app \in r.apps
    <3>1. r.apps \subseteq Apps /\ r.senders \in Nat
      BY DEF Receiver
    <3> DEFINE a == [id |-> app, sender |-> r.senders]
    <3>2. a \in AnApp
      BY <2>1, <3>1, AppsAre
    <3>3. OnReceiverLaunch(r, app) = [r EXCEPT !.state = "Launched", !.app = a]
      BY <2>1 DEF OnReceiverLaunch
    <3> HIDE DEF a
    <3> QED BY <2>1, <3>2, <3>3 DEF Receiver
  <2>2. CASE ~(TakesLaunch(r) /\ app \in r.apps)
    BY <2>2 DEF OnReceiverLaunch
  <2> QED BY <2>1, <2>2
<1> QED BY <1>1, <1>2, <1>3, <1>4

-----------------------------------------------------------------------------
(* What is pushed onto the channel to the sender, and with which receiver.    *)
Talks ==
  /\ receiver'.state \in {receiver.state, "Connected", "Launched"}
  /\ receiver'.state = "Idle" => receiver'.app = receiver.app
  /\ \/ toSender' = toSender /\ receiver'.app = receiver.app
     \/ \E reply \in Reply :
          /\ toSender' = Append(toSender, reply)
          /\ receiver'.state # "Idle" \/ IsStatus(reply)
          /\ IF IsStatus(reply) THEN reply.app = receiver'.app ELSE receiver'.app = receiver.app

Pushes == toSender' = toSender \/ \E reply \in Reply : toSender' = Append(toSender, reply)

(* Only a CLOSE is taken otherwise.                                           *)
Handles(m) ==
  \/ m.type = "CONNECT" /\ TakesConnect(m)
  \/ m.type = "LAUNCH" /\ TakesLaunchOf(m)
  \/ m.type = "PING" /\ TakesPing
  \/ m.type = "CLOSE" /\ Becomes(OnReceiverClose(receiver), <<>>)
  \/ m.type \in {"LOAD", "PLAY", "STOP"} /\ AppTakes(m)

LEMMA BecomesSilent ==
  ASSUME LinkTypeOK, NEW r, Becomes(r, <<>>)
  PROVE  receiver' = r /\ toSender' = toSender
BY ConcatEmptySeq DEF Becomes, LinkTypeOK

LEMMA BecomesSaying ==
  ASSUME LinkTypeOK, NEW r, NEW reply \in Reply, Becomes(r, <<reply>>)
  PROVE  receiver' = r /\ toSender' = Append(toSender, reply)
BY AppendIsConcat DEF Becomes, LinkTypeOK

LEMMA AnswersTalk ==
  ASSUME LinkTypeOK, NEW m \in Request, Handles(m)
  PROVE  /\ receiver' \in Receiver /\ Pushes
         /\ (m.type # "CLOSE" /\ (receiver.state = "Idle" => receiver.app = NoApp)) => Talks
<1> DEFINE Goal == /\ receiver' \in Receiver /\ Pushes
                   /\ (m.type # "CLOSE" /\ (receiver.state = "Idle" => receiver.app = NoApp)) => Talks
<1>0. receiver \in Receiver /\ m.id \in Nat
  BY DEF LinkTypeOK, Request
<1>1. CASE m.type = "CLOSE" /\ Becomes(OnReceiverClose(receiver), <<>>)
  BY <1>0, <1>1, BecomesSilent, ReceiverOps DEF Pushes
<1>2. CASE TakesConnect(m)
  <2> DEFINE r == OnReceiverConnect(receiver)
             reply == Message("CONNECTED", m.id, NoApp)
  <2>1. /\ r \in Receiver /\ r.app = receiver.app
        /\ IF Admits(receiver) THEN r.state = "Connected" ELSE r = receiver
    BY <1>0, ReceiverOps
  <2>2. reply \in Reply /\ ~IsStatus(reply)
    BY <1>0, AppsAre, Replies, MessageIs DEF IsStatus
  <2>3. Becomes(r, <<>>) \/ (Admits(receiver) /\ Becomes(r, <<reply>>))
    BY <1>2 DEF TakesConnect
  <2> HIDE DEF r, reply
  <2>4. \/ receiver' = r /\ toSender' = toSender
        \/ Admits(receiver) /\ receiver' = r /\ toSender' = Append(toSender, reply)
    BY <2>2, <2>3, BecomesSilent, BecomesSaying
  <2> QED BY <2>1, <2>2, <2>4 DEF Talks, Pushes
<1>3. CASE TakesLaunchOf(m)
  <2> DEFINE r == OnReceiverLaunch(receiver, m.app.id)
             status == ReceiverStatus(r, m.id)
             error == Message("LAUNCH_ERROR", m.id, NoApp)
  <2>1. /\ r \in Receiver
        /\ IF TakesLaunch(receiver) /\ m.app.id \in receiver.apps
           THEN r.state = "Launched" ELSE r = receiver
    BY <1>0, ReceiverOps
  <2>2. error \in Reply /\ ~IsStatus(error)
    BY <1>0, AppsAre, Replies, MessageIs DEF IsStatus
  <2>3. status \in Reply /\ IsStatus(status) /\ status.app = r.app
    <3>1. r.app \in AnApp
      BY <2>1 DEF Receiver
    <3> QED BY <1>0, <3>1, Replies, MessageIs DEF IsStatus, ReceiverStatus
  <2>4. \/ ~TakesLaunch(receiver) /\ Becomes(r, <<>>)
        \/ TakesLaunch(receiver) /\ m.app.id \in receiver.apps /\ Becomes(r, <<status>>)
        \/ TakesLaunch(receiver) /\ m.app.id \notin receiver.apps /\ Becomes(r, <<error>>)
    BY <1>3 DEF TakesLaunchOf
  <2> HIDE DEF r, status, error
  <2>5. \/ receiver' = r /\ r = receiver /\ toSender' = toSender
        \/ receiver' = r /\ r.state = "Launched" /\ toSender' = Append(toSender, status)
        \/ receiver' = r /\ r = receiver /\ r.state # "Idle" /\ toSender' = Append(toSender, error)
    BY <2>1, <2>2, <2>3, <2>4, BecomesSilent, BecomesSaying DEF TakesLaunch
  <2> QED BY <2>1, <2>2, <2>3, <2>5 DEF Talks, Pushes
<1>4. CASE TakesPing
  <2> DEFINE reply == Message("PONG", Unasked, NoApp)
  <2>1. reply \in Reply /\ ~IsStatus(reply)
    BY AppsAre, Replies, MessageIs DEF IsStatus
  <2>2. Becomes(receiver, <<>>) \/ (receiver.state # "Idle" /\ Becomes(receiver, <<reply>>))
    BY <1>4 DEF TakesPing, AnswersPing
  <2> HIDE DEF reply
  <2>3. /\ receiver' = receiver
        /\ \/ toSender' = toSender
           \/ receiver.state # "Idle" /\ toSender' = Append(toSender, reply)
    BY <2>1, <2>2, BecomesSilent, BecomesSaying
  <2> QED BY <1>0, <2>1, <2>3 DEF Talks, Pushes
<1>5. CASE m.type \in {"LOAD", "PLAY", "STOP"} /\ AppTakes(m)
  <2>1. CASE m.app = NoApp \/ m.app # receiver.app
    <3>1. Becomes(receiver, <<>>)
      BY <1>5, <2>1 DEF AppTakes
    <3>2. receiver' = receiver /\ toSender' = toSender
      BY <3>1, BecomesSilent
    <3> QED BY <1>0, <3>2 DEF Talks, Pushes
  <2>2. CASE ~(m.app = NoApp \/ m.app # receiver.app)
    <3>1. PICK type \in {"MEDIA_PLAYING", "LOAD_FAILED", "MEDIA_IDLE"} :
            Becomes(receiver, <<Message(type, m.id, NoApp)>>)
      BY <1>5, <2>2 DEF AppTakes
    <3> DEFINE reply == Message(type, m.id, NoApp)
    <3>2. reply \in Reply /\ ~IsStatus(reply)
      BY <1>0, AppsAre, Replies, MessageIs DEF IsStatus
    <3>3. Becomes(receiver, <<reply>>)
      BY <3>1
    <3> HIDE DEF reply
    <3>4. receiver' = receiver /\ toSender' = Append(toSender, reply)
      BY <3>2, <3>3, BecomesSaying
    <3> QED BY <1>0, <2>2, <3>2, <3>4 DEF Talks, Pushes
  <2> QED BY <2>1, <2>2
<1> QED BY <1>1, <1>2, <1>3, <1>4, <1>5 DEF Handles

(* The receiver's host and another sender, short of a CLOSE.                  *)
LEMMA HostTalks ==
  ASSUME LinkTypeOK, LearnTrust \/ TellStatus \/ OtherConnects \/ OtherLaunches
  PROVE  receiver' \in Receiver /\ Pushes /\ Talks
<1>0. receiver \in Receiver
  BY DEF LinkTypeOK
<1>1. CASE LearnTrust
  BY <1>0, <1>1, ReceiverOps DEF LearnTrust, Talks, Pushes
<1>2. CASE OtherConnects
  BY <1>0, <1>2, ReceiverOps DEF OtherConnects, Talks, Pushes
<1>3. ASSUME NEW r \in Receiver, Becomes(r, <<ReceiverStatus(r, Unasked)>>),
             r.state \in {receiver.state, "Launched"}, r.state = "Idle" => r = receiver
      PROVE  receiver' \in Receiver /\ Pushes /\ Talks
  <2> DEFINE status == ReceiverStatus(r, Unasked)
  <2>1. status \in Reply /\ IsStatus(status) /\ status.app = r.app
    <3>1. r.app \in AnApp
      BY DEF Receiver
    <3> QED BY <3>1, AppsAre, Replies, MessageIs DEF IsStatus, ReceiverStatus
  <2>2. Becomes(r, <<status>>)
    BY <1>3
  <2> HIDE DEF status
  <2>3. receiver' = r /\ toSender' = Append(toSender, status)
    BY <2>1, <2>2, BecomesSaying
  <2> QED BY <1>3, <2>1, <2>3 DEF Talks, Pushes
<1>4. CASE TellStatus
  BY <1>0, <1>3, <1>4 DEF TellStatus
<1>5. CASE OtherLaunches
  <2>1. PICK app \in receiver.apps :
          Becomes(OnReceiverLaunch(receiver, app), <<ReceiverStatus(OnReceiverLaunch(receiver, app), Unasked)>>)
    BY <1>5 DEF OtherLaunches
  <2>2. OnReceiverLaunch(receiver, app) \in Receiver /\ OnReceiverLaunch(receiver, app).state = "Launched"
    BY <1>0, <1>5, ReceiverOps DEF OtherLaunches
  <2> QED BY <1>3, <2>1, <2>2
<1> QED BY <1>1, <1>2, <1>4, <1>5

-----------------------------------------------------------------------------
(* The types of what is under way.                                            *)
LEMMA SendsTyped ==
  ASSUME LinkTypeOK, requests \in Nat, NEW app \in AnApp,
         NEW type \in {"CONNECT", "LAUNCH", "LOAD", "PLAY", "STOP", "CLOSE"}, Sends(type, app)
  PROVE  /\ toReceiver' \in Seq(Request) /\ UNCHANGED <<peer, receiver, toSender>>
         /\ \/ toReceiver' = toReceiver
            \/ \E m \in Request : m.type = type /\ toReceiver' = Append(toReceiver, m)
<1> DEFINE m == Message(type, requests + 1, app)
<1>1. m \in Request /\ m.type = type
  BY Asks, MessageIs
<1> HIDE DEF m
<1>2. toReceiver' = toReceiver \/ toReceiver' = Append(toReceiver, m)
  BY DEF Sends, m
<1>3. toReceiver' \in Seq(Request)
  BY <1>1, <1>2 DEF LinkTypeOK
<1>4. UNCHANGED <<peer, receiver, toSender>>
  BY DEF Sends
<1> QED BY <1>1, <1>2, <1>3, <1>4

(* What the sender's calls leave on the channel: a CLOSE marks the parting.   *)
Says ==
  /\ UNCHANGED <<peer, receiver, toSender, told, missed>>
  /\ toReceiver' \in Seq(Request)
  /\ parted' \in BOOLEAN
  /\ peer = "ours" /\ ~parted' =>
       /\ ~parted
       /\ \/ toReceiver' = toReceiver
          \/ \E m \in Request : m.type # "CLOSE" /\ toReceiver' = Append(toReceiver, m)

LEMMA CallsSay ==
  ASSUME LinkTypeOK, requests \in Nat,
         \/ LinkConnect \/ LinkLaunch \/ LinkLoad \/ LinkCommand \/ LinkStop \/ LinkClose
         \/ LinkTick \/ LinkWait \/ FromAnyone
  PROVE  Says
<1>0. told \in AnApp /\ NoApp \in AnApp /\ parted \in BOOLEAN /\ toReceiver \in Seq(Request)
      /\ \A app \in Apps : [id |-> app, sender |-> 0] \in AnApp
  BY AppsAre DEF LinkTypeOK
<1>1. CASE LinkConnect \/ LinkCommand \/ LinkStop \/ LinkLoad \/ LinkLaunch
  <2>1. PICK type \in {"CONNECT", "LAUNCH", "LOAD", "PLAY", "STOP"}, app \in AnApp :
          Sends(type, app) /\ UNCHANGED <<told, missed, parted>>
    BY <1>0, <1>1 DEF LinkConnect, LinkCommand, LinkStop, LinkLoad, LinkLaunch
  <2> QED BY <1>0, <2>1, SendsTyped DEF Says
<1>2. CASE LinkClose
  <2>1. Sends("CLOSE", NoApp) /\ parted' = (peer = "ours") /\ UNCHANGED <<told, missed>>
    BY <1>2 DEF LinkClose
  <2> QED BY <1>0, <2>1, SendsTyped DEF Says
<1>3. CASE LinkTick
  <2> DEFINE beat == Message("PING", Unasked, NoApp)
  <2>1. beat \in Request /\ beat.type = "PING"
    BY AppsAre, Asks, MessageIs
  <2>2. toReceiver' = toReceiver \/ toReceiver' = Append(toReceiver, beat)
    BY <1>3 DEF LinkTick
  <2> HIDE DEF beat
  <2>3. UNCHANGED <<peer, receiver, toSender, told, missed, parted>>
    BY <1>3 DEF LinkTick
  <2> QED BY <1>0, <2>1, <2>2, <2>3 DEF Says
<1>4. CASE LinkWait \/ FromAnyone
  BY <1>0, <1>4 DEF LinkWait, FromAnyone, link, Says
<1> QED BY <1>1, <1>2, <1>3, <1>4

LEMMA LinkTypeStep ==
  ASSUME LinkTypeOK, requests \in Nat, [LinkNext]_linkVars
  PROVE  LinkTypeOK'
<1>1. ASSUME Says PROVE LinkTypeOK'
  BY <1>1 DEF Says, LinkTypeOK
<1>2. ASSUME Pushes PROVE toSender' \in Seq(Reply)
  BY <1>2 DEF Pushes, LinkTypeOK
<1>3. CASE LearnTrust \/ TellStatus \/ OtherConnects \/ OtherLaunches
  <2>1. receiver' \in Receiver /\ Pushes
    BY <1>3, HostTalks
  <2>2. UNCHANGED <<peer, toReceiver, told, missed, parted>>
    BY <1>3 DEF LearnTrust, TellStatus, OtherConnects, OtherLaunches
  <2> QED BY <1>2, <2>1, <2>2 DEF LinkTypeOK
<1>4. CASE OtherCloses
  BY <1>4, ReceiverOps DEF OtherCloses, LinkTypeOK
<1>5. CASE ReceiverTakes
  <2>1. PICK m \in Request : Handles(m)
    BY <1>5 DEF ReceiverTakes, Handles, LinkTypeOK
  <2>2. receiver' \in Receiver /\ Pushes
    BY <2>1, AnswersTalk
  <2>3. toReceiver' \in Seq(Request) /\ UNCHANGED <<peer, told, missed, parted>>
    BY <1>5 DEF ReceiverTakes, LinkTypeOK
  <2> QED BY <1>2, <2>2, <2>3 DEF LinkTypeOK
<1>6. CASE SenderTakes
  <2>1. toSender # <<>> /\ toSender' = Tail(toSender) /\ UNCHANGED <<peer, receiver, toReceiver, parted>>
    BY <1>6 DEF SenderTakes
  <2>2. Head(toSender) \in Reply /\ toSender' \in Seq(Reply)
    BY <2>1 DEF LinkTypeOK
  <2>3. told' \in {told, NoApp, Head(toSender).app} /\ missed' \in BOOLEAN
    BY <1>6 DEF SenderTakes, LinkTypeOK
  <2>4. told' \in AnApp
    BY <2>2, <2>3, AppsAre DEF LinkTypeOK, Reply
  <2> QED BY <2>1, <2>2, <2>3, <2>4 DEF LinkTypeOK
<1>7. CASE UNCHANGED linkVars
  BY <1>7 DEF linkVars, link, LinkTypeOK
<1> QED BY <1>1, <1>3, <1>4, <1>5, <1>6, <1>7, CallsSay DEF LinkNext

LEMMA LinkInitTyped == LinkInit => LinkTypeOK
<1> SUFFICES ASSUME LinkInit PROVE LinkTypeOK
  OBVIOUS
<1>1. \A kind \in {"vendor", "test-root"} : NewReceiver(kind, Configured) \in Receiver
  BY AppsAre DEF NewReceiver, Receiver
<1>2. PICK kind \in {"vendor", "test-root"} : receiver = NewReceiver(kind, Configured)
  BY DEF LinkInit
<1>3. toReceiver \in Seq(Request) /\ toSender \in Seq(Reply)
  BY DEF LinkInit
<1> QED BY <1>1, <1>2, <1>3, AppsAre DEF LinkInit, LinkTypeOK

(* Over the channel the sender does nothing that it would not do with any     *)
(* peer: the composition implements the sender on its own (controller.rs), so *)
(* what was proved of the sender holds of the composition.                    *)
THEOREM LinkImplementsController == LinkSpec => Spec
<1>1. LinkInit => Init /\ CastInv /\ LinkTypeOK
  BY CastInit, LinkInitTyped DEF LinkInit
<1>2. CastInv => requests \in Nat
  BY DEF CastInv, TypeOK
<1>3. CastInv /\ LinkTypeOK /\ [LinkNext]_linkVars => [Next]_vars /\ CastInv' /\ LinkTypeOK'
  BY <1>2, LinkStepIsStep, LinkTypeStep, CastStep
<1> QED BY <1>1, <1>3, PTL DEF LinkSpec, Spec

-----------------------------------------------------------------------------
(* The sender and the receiver agree on the running app.                      *)

(* The last status under way tells the app that runs; with none under way the *)
(* sender knows it, knows of none, or has missed it.                          *)
ToldInv ==
  /\ \A i \in 1..Len(toSender) :
       IsStatus(toSender[i]) /\ (\A j \in 1..Len(toSender) : j > i => ~IsStatus(toSender[j]))
         => toSender[i].app = receiver.app
  /\ (\A i \in 1..Len(toSender) : ~IsStatus(toSender[i]))
       => told \in {receiver.app, NoApp} \/ missed

(* Before the receiver has admitted anyone it has nothing to tell.            *)
AdmittedInv ==
  /\ receiver.state \in {"Idle", "Connected", "Launched"}
  /\ \A i \in 1..Len(toReceiver) : toReceiver[i].type # "CLOSE"
  /\ receiver.state = "Idle" =>
       /\ receiver.app = NoApp
       /\ state \in {"Idle", "Connecting"}
       /\ \A i \in 1..Len(toSender) : IsStatus(toSender[i]) /\ toSender[i].app = NoApp

LaunchedInv == state = "Launched" => told # NoApp

AgreeInv == peer = "ours" /\ ~parted => ToldInv /\ AdmittedInv /\ LaunchedInv

LEMMA Appended ==
  ASSUME NEW S, NEW s \in Seq(S), NEW m \in S
  PROVE  /\ Len(Append(s, m)) = Len(s) + 1 /\ Len(s) \in Nat
         /\ \A i \in 1..Len(s) : Append(s, m)[i] = s[i]
         /\ Append(s, m)[Len(s) + 1] = m
BY AppendProperties

LEMMA TalkStep ==
  ASSUME LinkTypeOK, ToldInv, AdmittedInv, LaunchedInv, Talks, UNCHANGED <<state, told, missed>>,
         \A i \in 1..Len(toReceiver') : toReceiver'[i].type # "CLOSE"
  PROVE  ToldInv' /\ AdmittedInv' /\ LaunchedInv'
<1>1. LaunchedInv'
  BY DEF LaunchedInv
<1>2. CASE toSender' = toSender /\ receiver'.app = receiver.app
  <2>1. ToldInv'
    BY <1>2 DEF ToldInv
  <2>2. AdmittedInv'
    BY <1>2 DEF AdmittedInv, Talks
  <2> QED BY <1>1, <2>1, <2>2
<1>3. ASSUME NEW reply \in Reply, toSender' = Append(toSender, reply),
             receiver'.state # "Idle" \/ IsStatus(reply),
             IF IsStatus(reply) THEN reply.app = receiver'.app ELSE receiver'.app = receiver.app
      PROVE  ToldInv' /\ AdmittedInv' /\ LaunchedInv'
  <2> DEFINE n == Len(toSender)
  <2>1. /\ Len(toSender') = n + 1 /\ n \in Nat
        /\ \A i \in 1..n : toSender'[i] = toSender[i]
        /\ toSender'[n + 1] = reply
    BY <1>3, Appended DEF LinkTypeOK
  <2> HIDE DEF n
  <2>2. ToldInv'
    <3>1. ASSUME NEW i \in 1..(n + 1), IsStatus(toSender'[i]),
                 \A j \in 1..(n + 1) : j > i => ~IsStatus(toSender'[j])
          PROVE  toSender'[i].app = receiver'.app
      <4>1. CASE i = n + 1
        BY <1>3, <2>1, <3>1, <4>1
      <4>2. CASE i # n + 1
        <5>1. i \in 1..n /\ ~IsStatus(reply)
          BY <2>1, <3>1, <4>2
        <5>2. \A j \in 1..n : j > i => ~IsStatus(toSender[j])
          BY <2>1, <3>1
        <5>3. IsStatus(toSender[i]) /\ toSender'[i] = toSender[i]
          BY <2>1, <3>1, <5>1
        <5> QED BY <1>3, <5>1, <5>2, <5>3 DEF ToldInv, n
      <4> QED BY <4>1, <4>2
    <3>2. ASSUME \A i \in 1..(n + 1) : ~IsStatus(toSender'[i])
          PROVE  told' \in {receiver'.app, NoApp} \/ missed'
      <4>1. ~IsStatus(reply) /\ \A i \in 1..n : ~IsStatus(toSender[i])
        BY <2>1, <3>2
      <4> QED BY <1>3, <4>1 DEF ToldInv, n
    <3> QED BY <2>1, <3>1, <3>2 DEF ToldInv
  <2>3. AdmittedInv'
    <3>1. receiver'.state \in {"Idle", "Connected", "Launched"}
      BY DEF Talks, AdmittedInv
    <3>2. ASSUME receiver'.state = "Idle"
          PROVE  /\ receiver'.app = NoApp /\ state \in {"Idle", "Connecting"}
                 /\ \A i \in 1..(n + 1) : IsStatus(toSender'[i]) /\ toSender'[i].app = NoApp
      <4>1. receiver.state = "Idle" /\ receiver'.app = receiver.app
        BY <3>2 DEF Talks, AdmittedInv
      <4>2. \A i \in 1..n : IsStatus(toSender[i]) /\ toSender[i].app = NoApp
        BY <4>1 DEF AdmittedInv, n
      <4>3. IsStatus(reply) /\ reply.app = NoApp /\ state \in {"Idle", "Connecting"}
            /\ receiver'.app = NoApp
        BY <1>3, <3>2, <4>1 DEF AdmittedInv
      <4> QED BY <2>1, <4>2, <4>3
    <3> QED BY <2>1, <3>1, <3>2 DEF AdmittedInv
  <2> QED BY <1>1, <2>2, <2>3
<1> QED BY <1>2, <1>3 DEF Talks

(* The sender hears a message, or refuses it.                                 *)
LEMMA HeardStep ==
  ASSUME LinkTypeOK, LaunchedHasTransport, ToldInv, AdmittedInv, LaunchedInv, SenderTakes
  PROVE  ToldInv' /\ AdmittedInv' /\ LaunchedInv'
<1> DEFINE m == Head(toSender)
           n == Len(toSender)
<1>0. /\ toSender # <<>> /\ toSender' = Tail(toSender) /\ UNCHANGED <<peer, receiver, toReceiver, parted>>
      /\ toSender \in Seq(Reply)
  BY DEF SenderTakes, LinkTypeOK
<1>1. /\ m \in Reply /\ m = toSender[1] /\ n \in Nat \ {0} /\ Len(toSender') = n - 1
      /\ \A i \in 1..(n - 1) : toSender'[i] = toSender[i + 1]
  BY <1>0, HeadTailProperties
<1>2. m.type \in {"CONNECTED", "PONG", "RECEIVER_STATUS", "LAUNCH_ERROR", "MEDIA_PLAYING",
                  "MEDIA_IDLE", "LOAD_FAILED"}
  BY <1>1 DEF Reply
<1>3. \/ /\ state' = state /\ told' = told
         /\ missed' = (missed \/ IsStatus(m))
      \/ /\ Reacts(m)
         /\ told' = IF transport' = "none" THEN NoApp ELSE IF IsStatus(m) THEN m.app ELSE told
         /\ missed' = (missed /\ ~IsStatus(m))
  BY DEF SenderTakes, OnRefused, session, IsStatus
<1> HIDE DEF m, n
<1>4. /\ IsStatus(m) => \/ missed' \/ told' = m.app
      /\ ~IsStatus(m) => told' \in {told, NoApp} /\ missed' = missed
  <2>1. ASSUME Reacts(m), IsStatus(m), transport' = "none"
        PROVE  m.app = NoApp
    BY <2>1 DEF Reacts, IsStatus, OnAppRunning
  <2> QED BY <1>3, <2>1 DEF LinkTypeOK
<1>5. ToldInv'
  <2>1. ASSUME NEW i \in 1..(n - 1), IsStatus(toSender'[i]),
               \A j \in 1..(n - 1) : j > i => ~IsStatus(toSender'[j])
        PROVE  toSender'[i].app = receiver.app
    <3>1. i + 1 \in 1..n /\ toSender'[i] = toSender[i + 1]
      BY <1>1
    <3>2. ASSUME NEW j \in 1..n, j > i + 1
          PROVE  ~IsStatus(toSender[j])
      <4>1. j - 1 \in 1..(n - 1) /\ j - 1 > i /\ toSender'[j - 1] = toSender[j]
        BY <1>1, <3>2
      <4> QED BY <2>1, <4>1
    <3> QED BY <2>1, <3>1, <3>2 DEF ToldInv, n
  <2>2. ASSUME \A i \in 1..(n - 1) : ~IsStatus(toSender'[i])
        PROVE  told' \in {receiver.app, NoApp} \/ missed'
    <3>1. ASSUME NEW j \in 1..n, j > 1
          PROVE  ~IsStatus(toSender[j])
      <4>1. j - 1 \in 1..(n - 1) /\ toSender'[j - 1] = toSender[j]
        BY <1>1, <3>1
      <4> QED BY <2>2, <4>1
    <3>2. CASE IsStatus(m)
      <4>1. m.app = receiver.app
        BY <1>1, <3>1, <3>2 DEF ToldInv, n
      <4> QED BY <1>4, <3>2, <4>1
    <3>3. CASE ~IsStatus(m)
      <4>1. \A j \in 1..n : ~IsStatus(toSender[j])
        BY <1>1, <3>1, <3>3
      <4> QED BY <1>4, <3>3, <4>1 DEF ToldInv, n
    <3> QED BY <3>2, <3>3
  <2> QED BY <1>0, <1>1, <2>1, <2>2 DEF ToldInv
<1>6. AdmittedInv'
  <2>1. ASSUME receiver.state = "Idle"
        PROVE  /\ state' = state
               /\ \A i \in 1..(n - 1) : IsStatus(toSender'[i]) /\ toSender'[i].app = NoApp
    <3>1. IsStatus(m) /\ m.app = NoApp /\ state \in {"Idle", "Connecting"}
      BY <1>1, <2>1 DEF AdmittedInv, n
    <3>2. state' = state
      BY <1>3, <3>1 DEF Reacts, IsStatus, OnAppGone, session
    <3>3. \A i \in 1..(n - 1) : i + 1 \in 1..n
      BY <1>1
    <3> QED BY <1>1, <2>1, <3>2, <3>3 DEF AdmittedInv, n
  <2> QED BY <1>0, <1>1, <2>1 DEF AdmittedInv
<1>7. LaunchedInv'
  <2> SUFFICES ASSUME state' = "Launched" PROVE told' # NoApp
    BY DEF LaunchedInv
  <2>1. CASE state' = state /\ told' = told
    BY <2>1 DEF LaunchedInv
  <2>2. ASSUME Reacts(m), told' = IF transport' = "none" THEN NoApp ELSE IF IsStatus(m) THEN m.app ELSE told
        PROVE  told' # NoApp
    <3>1. CASE m.type = "RECEIVER_STATUS" /\ m.app # NoApp
      <4>1. OnAppRunning
        BY <2>2, <3>1 DEF Reacts
      <4> QED BY <2>2, <3>1, <4>1 DEF OnAppRunning, IsStatus
    <3>2. CASE m.type = "RECEIVER_STATUS" /\ m.app = NoApp
      <4>1. OnAppGone
        BY <2>2, <3>2 DEF Reacts
      <4> QED BY <4>1 DEF OnAppGone, session
    <3>3. CASE m.type \in {"LAUNCH_ERROR", "MEDIA_PLAYING", "MEDIA_IDLE"}
      <4>1. OnLaunchError \/ OnMediaPlaying \/ OnMediaIdle
        BY <2>2, <3>3 DEF Reacts
      <4> QED BY <4>1 DEF OnLaunchError, OnMediaPlaying, OnMediaIdle
    <3>4. CASE m.type \in {"CONNECTED", "PONG", "LOAD_FAILED"}
      <4>1. OnConnected \/ OnOther \/ OnLoadFailed
        BY <2>2, <3>4 DEF Reacts
      <4>2. state = "Launched" /\ transport' = transport /\ ~IsStatus(m)
        BY <3>4, <4>1 DEF OnConnected, OnOther, OnLoadFailed, session, IsStatus
      <4>3. transport' # "none" /\ told # NoApp
        BY <4>2 DEF LaunchedHasTransport, LaunchedInv
      <4> QED BY <2>2, <4>2, <4>3
    <3> QED BY <1>2, <3>1, <3>2, <3>3, <3>4
  <2> QED BY <1>3, <2>1, <2>2
<1> QED BY <1>5, <1>6, <1>7

(* The sender's own calls, and time.                                          *)
LEMMA SaysStep ==
  ASSUME LinkTypeOK, Says, peer = "ours" /\ ~parted', AgreeInv,
         \/ LinkConnect \/ LinkLaunch \/ LinkLoad \/ LinkCommand \/ LinkStop \/ LinkClose
         \/ LinkTick \/ LinkWait \/ FromAnyone
  PROVE  ToldInv' /\ AdmittedInv' /\ LaunchedInv'
<1>1. ToldInv /\ AdmittedInv /\ LaunchedInv /\ ~parted
  BY DEF Says, AgreeInv
<1>2. UNCHANGED <<receiver, toSender, told, missed>>
  BY DEF Says
<1>3. /\ state' = "Launched" => state = "Launched"
      /\ state \in {"Idle", "Connecting"} => state' \in {"Idle", "Connecting"}
  <2>1. CASE LinkConnect \/ LinkLaunch
    BY <2>1 DEF LinkConnect, LinkLaunch, Connect, Launch
  <2>2. CASE LinkLoad \/ LinkCommand \/ LinkStop
    BY <2>2 DEF LinkLoad, LinkCommand, LinkStop, Load, MediaCommand, Stop, session
  <2>3. CASE LinkClose
    BY <2>3 DEF LinkClose
  <2>4. CASE LinkTick
    BY <2>4 DEF LinkTick, Tick, Beating, session
  <2>5. CASE LinkWait \/ FromAnyone
    BY <2>5 DEF LinkWait, FromAnyone, Wait, session
  <2> QED BY <2>1, <2>2, <2>3, <2>4, <2>5
<1>4. \A i \in 1..Len(toReceiver') : toReceiver'[i].type # "CLOSE"
  <2>1. CASE toReceiver' = toReceiver
    BY <1>1, <2>1 DEF AdmittedInv
  <2>2. ASSUME NEW m \in Request, m.type # "CLOSE", toReceiver' = Append(toReceiver, m)
        PROVE  \A i \in 1..Len(toReceiver') : toReceiver'[i].type # "CLOSE"
    <3>1. /\ Len(toReceiver') = Len(toReceiver) + 1 /\ Len(toReceiver) \in Nat
          /\ \A i \in 1..Len(toReceiver) : toReceiver'[i] = toReceiver[i]
          /\ toReceiver'[Len(toReceiver) + 1] = m
      BY <2>2, Appended DEF LinkTypeOK
    <3> QED BY <1>1, <2>2, <3>1 DEF AdmittedInv
  <2> QED BY <2>1, <2>2 DEF Says
<1> QED BY <1>1, <1>2, <1>3, <1>4 DEF ToldInv, AdmittedInv, LaunchedInv

LEMMA AgreeStep ==
  ASSUME CastInv, LinkTypeOK, AgreeInv, [LinkNext]_linkVars
  PROVE  AgreeInv'
<1> SUFFICES ASSUME peer' = "ours", ~parted'
             PROVE  ToldInv' /\ AdmittedInv' /\ LaunchedInv'
  BY DEF AgreeInv
<1>0. requests \in Nat /\ LaunchedHasTransport
  BY DEF CastInv, TypeOK
<1>1. ASSUME UNCHANGED <<peer, parted>>
      PROVE  peer = "ours" /\ ~parted /\ ToldInv /\ AdmittedInv /\ LaunchedInv
  BY <1>1 DEF AgreeInv
<1>2. CASE \/ LinkConnect \/ LinkLaunch \/ LinkLoad \/ LinkCommand \/ LinkStop \/ LinkClose
           \/ LinkTick \/ LinkWait \/ FromAnyone
  <2>1. Says
    BY <1>0, <1>2, CallsSay
  <2>2. peer = "ours"
    BY <2>1 DEF Says
  <2> QED BY <1>2, <2>1, <2>2, SaysStep
<1>3. CASE LearnTrust \/ TellStatus \/ OtherConnects \/ OtherLaunches
  <2>1. Talks /\ UNCHANGED <<peer, parted, toReceiver, told, missed, vars>>
    BY <1>3, HostTalks DEF LearnTrust, TellStatus, OtherConnects, OtherLaunches
  <2>2. state' = state /\ UNCHANGED <<peer, parted, toReceiver, told, missed>>
    BY <2>1 DEF vars, session
  <2>3. \A i \in 1..Len(toReceiver') : toReceiver'[i].type # "CLOSE"
    BY <1>1, <2>2 DEF AdmittedInv
  <2> QED BY <1>1, <2>1, <2>2, <2>3, TalkStep
<1>4. CASE OtherCloses
  BY <1>4 DEF OtherCloses
<1>5. CASE ReceiverTakes
  <2>1. /\ toReceiver # <<>> /\ toReceiver' = Tail(toReceiver) /\ Handles(Head(toReceiver))
        /\ UNCHANGED <<vars, peer, told, missed, parted>>
    BY <1>5 DEF ReceiverTakes, Handles
  <2>2. state' = state /\ UNCHANGED <<peer, parted, told, missed>>
    BY <2>1 DEF vars, session
  <2>3. /\ Head(toReceiver) \in Request /\ Head(toReceiver) = toReceiver[1]
        /\ Len(toReceiver) \in Nat \ {0} /\ Len(toReceiver') = Len(toReceiver) - 1
        /\ \A i \in 1..Len(toReceiver') : toReceiver'[i] = toReceiver[i + 1]
    BY <2>1, HeadTailProperties DEF LinkTypeOK
  <2>4. ToldInv /\ AdmittedInv /\ LaunchedInv
    BY <1>1, <2>2
  <2>5. \A i \in 1..Len(toReceiver') : toReceiver'[i].type # "CLOSE"
    BY <2>3, <2>4 DEF AdmittedInv
  <2>6. Head(toReceiver).type # "CLOSE" /\ (receiver.state = "Idle" => receiver.app = NoApp)
    BY <2>3, <2>4 DEF AdmittedInv
  <2>7. Talks
    BY <2>1, <2>3, <2>6, AnswersTalk
  <2> QED BY <2>2, <2>4, <2>5, <2>7, TalkStep
<1>6. CASE SenderTakes
  <2>1. UNCHANGED <<peer, parted>>
    BY <1>6 DEF SenderTakes
  <2> QED BY <1>0, <1>1, <1>6, <2>1, HeardStep
<1>7. CASE UNCHANGED linkVars
  <2>1. UNCHANGED <<peer, receiver, toReceiver, toSender, told, missed, parted, state>>
    BY <1>7 DEF linkVars, link, vars, session
  <2> QED BY <1>1, <2>1 DEF ToldInv, AdmittedInv, LaunchedInv
<1> QED BY <1>2, <1>3, <1>4, <1>5, <1>6, <1>7 DEF LinkNext

(* With nothing under way the two ends agree on the app that runs, for any    *)
(* apps, any number of senders and messages under way (controller.rs and      *)
(* receiver.rs over one channel).                                             *)
THEOREM AgreeTheorem == LinkSpec => []AgreeWhenQuiet
<1> DEFINE Inv == CastInv /\ LinkTypeOK /\ AgreeInv
<1>1. LinkInit => CastInv /\ LinkTypeOK
  BY CastInit, LinkInitTyped DEF LinkInit
<1>2. LinkInit => AgreeInv
  <2> SUFFICES ASSUME LinkInit PROVE ToldInv /\ AdmittedInv /\ LaunchedInv
    BY DEF AgreeInv
  <2>1. PICK kind \in {"vendor", "test-root"} : receiver = NewReceiver(kind, Configured)
    BY DEF LinkInit
  <2>2. toSender = <<>> /\ toReceiver = <<>> /\ told = NoApp /\ state = "Idle"
    BY DEF LinkInit, Init
  <2>3. receiver.state = "Idle" /\ receiver.app = NoApp
    BY <2>1 DEF NewReceiver
  <2> QED BY <2>2, <2>3 DEF ToldInv, AdmittedInv, LaunchedInv
<1>3. CastInv => requests \in Nat
  BY DEF CastInv, TypeOK
<1>4. Inv /\ [LinkNext]_linkVars => Inv'
  BY <1>3, LinkStepIsStep, LinkTypeStep, CastStep, AgreeStep
<1>5. Inv => AgreeWhenQuiet
  <2> SUFFICES ASSUME Inv, peer = "ours", ~parted, toReceiver = <<>>, toSender = <<>>
               PROVE  /\ told # NoApp => told = receiver.app \/ missed
                      /\ state = "Launched" => told # NoApp
                      /\ state \in {"Connected", "Launched"} => receiver.state \in {"Connected", "Launched"}
    BY DEF AgreeWhenQuiet
  <2>1. ToldInv /\ AdmittedInv /\ LaunchedInv
    BY DEF AgreeInv
  <2> QED BY <2>1 DEF ToldInv, AdmittedInv, LaunchedInv
<1> QED BY <1>1, <1>2, <1>4, <1>5, PTL DEF LinkSpec

-----------------------------------------------------------------------------
(* The advert.                                                                *)

LEMMA Decimals ==
  /\ DOMAIN Decimal = {0, 1, 2, 10}
  /\ Decimal[0] = "0" /\ Decimal[1] = "1" /\ Decimal[2] = "2" /\ Decimal[10] = "10"
  /\ Hex["0"] = 0 /\ DOMAIN Hex = {"0", "1", "2", "10"}
<1>1. DOMAIN Decimal = {0, 1, 2, 10} /\ DOMAIN Hex = {"0", "1", "2", "10"}
  BY DEF Decimal, Hex
<1>2. \A n \in {0, 1, 2, 10} :
        Decimal[n] = CASE n = 0 -> "0" [] n = 1 -> "1" [] n = 2 -> "2" [] n = 10 -> "10"
  BY DEF Decimal
<1>3. Hex["0"] = 0
  BY DEF Hex
<1> QED BY <1>1, <1>2, <1>3

LEMMA Numbers ==
  \A n \in {0, 1, 2, 10} : IsNumber(Decimal[n]) /\ Number(Decimal[n]) = n
<1> SUFFICES ASSUME NEW n \in {0, 1, 2, 10}
             PROVE  IsNumber(Decimal[n]) /\ Number(Decimal[n]) = n
  OBVIOUS
<1>1. IsNumber(Decimal[n])
  BY Decimals DEF IsNumber
<1>2. \A k \in {0, 1, 2, 10} : Decimal[k] = Decimal[n] => k = n
  BY Decimals
<1>3. Number(Decimal[n]) \in {0, 1, 2, 10} /\ Decimal[Number(Decimal[n])] = Decimal[n]
  BY Decimals DEF Number
<1> QED BY <1>1, <1>2, <1>3

(* A key that is there once, in one spelling or the other.                    *)
LEMMA Once ==
  ASSUME NEW txt, NEW key, NEW i, i \in Nat
  PROVE  /\ Places(txt, key) = {i} => LastOf(txt, key) = txt[i][2]
         /\ Spelled(txt, key) = {i} => FirstOf(txt, key) = Trim(txt[i][2])
<1>1. Spelled(txt, key) = {i} =>
        (CHOOSE k \in Spelled(txt, key) : \A j \in Spelled(txt, key) : k <= j) = i
  OBVIOUS
<1>2. Places(txt, key) = {i} =>
        (CHOOSE k \in Places(txt, key) : \A j \in Places(txt, key) : k >= j) = i
  OBVIOUS
<1> QED BY <1>1, <1>2 DEF FirstOf, LastOf

(* Six entries under the six keys, in small letters or in capitals.           *)
LEMMA SixKeys ==
  ASSUME NEW txt, DOMAIN txt = 1..6,
         \/ /\ txt[1][1] = "id" /\ txt[2][1] = "ve" /\ txt[3][1] = "ca"
            /\ txt[4][1] = "st" /\ txt[5][1] = "fn" /\ txt[6][1] = "md"
         \/ /\ txt[1][1] = "ID" /\ txt[2][1] = "VE" /\ txt[3][1] = "CA"
            /\ txt[4][1] = "ST" /\ txt[5][1] = "FN" /\ txt[6][1] = "MD"
  PROVE  /\ Spelled(txt, "id") = {1} /\ Spelled(txt, "ca") = {3}
         /\ Spelled(txt, "st") = {4} /\ Spelled(txt, "fn") = {5}
<1>1. \A i \in DOMAIN txt : i = 1 \/ i = 2 \/ i = 3 \/ i = 4 \/ i = 5 \/ i = 6
  OBVIOUS
<1>2. 1 \in DOMAIN txt /\ 3 \in DOMAIN txt /\ 4 \in DOMAIN txt /\ 5 \in DOMAIN txt
  OBVIOUS
<1>3. Capital["id"] = "ID" /\ Capital["ca"] = "CA" /\ Capital["st"] = "ST" /\ Capital["fn"] = "FN"
  BY DEF Capital
<1> QED BY <1>1, <1>2, <1>3 DEF Spelled

(* What a sender makes of an advert with the six keys.                        *)
LEMMA SixAreDiscovered ==
  ASSUME NEW txt, NEW app, NEW service \in Services,
         /\ Spelled(txt, "id") = {1} /\ Spelled(txt, "ca") = {3}
         /\ Spelled(txt, "st") = {4} /\ Spelled(txt, "fn") = {5},
         Trim(txt[1][2]) = "uuid", Trim(txt[3][2]) = "0", Trim(txt[5][2]) = "room",
         Trim(txt[4][2]) \in {"0", "1"}, Trim(txt[4][2]) = "1" <=> app # NoApp
  PROVE  /\ Discovers(service, txt)
         /\ Discovered(txt) = [id |-> "uuid", fn |-> "room", ca |-> 0, busy |-> app # NoApp]
<1>1. /\ FirstOf(txt, "id") = "uuid" /\ FirstOf(txt, "ca") = "0" /\ FirstOf(txt, "fn") = "room"
      /\ FirstOf(txt, "st") \in {"0", "1"} /\ (FirstOf(txt, "st") = "1" <=> app # NoApp)
  BY Once
<1>2. Discovers(service, txt)
  BY <1>1, Decimals DEF Discovers
<1>3. (Spelled(txt, "st") # {} /\ FirstOf(txt, "st") = "1") = (app # NoApp)
  BY <1>1
<1>4. Hex[FirstOf(txt, "ca")] = 0 /\ Spelled(txt, "ca") # {}
  BY <1>1, Decimals
<1> QED BY ONLY <1>1, <1>2, <1>3, <1>4 DEF Discovered

(* What a sender discovers is how it is (FromState and to_txt against the two *)
(* readers, ReceiverInfo::from_txt of receiver.rs and of discovery.rs), for   *)
(* any apps and any number of senders.                                        *)
THEOREM AdvertTheorem == LinkSpec => []AdvertTellsTheTruth
<1>1. ASSUME NEW name \in {"room", "_room_"}
      PROVE  LET info == FromState(receiver, "uuid", name)
                 txt  == ToTxt(info)
             IN  /\ ReadsOwn(txt) /\ FromTxt(txt) = info
                 /\ \A service \in Services, heard \in {txt, InCapitals(txt)} :
                       /\ Discovers(service, heard)
                       /\ Discovered(heard) = [id |-> "uuid", fn |-> "room", ca |-> 0,
                                               busy |-> receiver.app # NoApp]
  <2> DEFINE info == FromState(receiver, "uuid", name)
             txt == ToTxt(info)
             st == Decimal[info.st]
             capitals == InCapitals(txt)
  <2>1. /\ info = [id |-> "uuid", fn |-> name, md |-> "model", ve |-> 2, ca |-> 0, st |-> info.st]
        /\ info.st \in {0, 1} /\ (info.st = 1 <=> receiver.app # NoApp)
    BY DEF FromState
  <2>2. txt = << <<"id", "uuid">>, <<"ve", "2">>, <<"ca", "0">>, <<"st", st>>, <<"fn", name>>, <<"md", "model">> >>
    BY <2>1, Decimals DEF ToTxt
  <2>3. /\ DOMAIN txt = 1..6
        /\ txt[1] = <<"id", "uuid">> /\ txt[2] = <<"ve", "2">> /\ txt[3] = <<"ca", "0">>
        /\ txt[4] = <<"st", st>> /\ txt[5] = <<"fn", name>> /\ txt[6] = <<"md", "model">>
    BY <2>2
  <2> HIDE DEF txt, info, st
  <2>4. /\ Places(txt, "id") = {1} /\ Places(txt, "ve") = {2} /\ Places(txt, "ca") = {3}
        /\ Places(txt, "st") = {4} /\ Places(txt, "fn") = {5} /\ Places(txt, "md") = {6}
    <3>1. \A i \in DOMAIN txt : i = 1 \/ i = 2 \/ i = 3 \/ i = 4 \/ i = 5 \/ i = 6
      BY <2>3
    <3>2. 1 \in DOMAIN txt /\ 2 \in DOMAIN txt /\ 3 \in DOMAIN txt
          /\ 4 \in DOMAIN txt /\ 5 \in DOMAIN txt /\ 6 \in DOMAIN txt
      BY <2>3
    <3>3. /\ txt[1][1] = "id" /\ txt[2][1] = "ve" /\ txt[3][1] = "ca"
          /\ txt[4][1] = "st" /\ txt[5][1] = "fn" /\ txt[6][1] = "md"
      BY <2>3
    <3> QED BY <3>1, <3>2, <3>3 DEF Places
  <2>5. /\ LastOf(txt, "id") = "uuid" /\ LastOf(txt, "ve") = "2" /\ LastOf(txt, "ca") = "0"
        /\ LastOf(txt, "st") = st /\ LastOf(txt, "fn") = name /\ LastOf(txt, "md") = "model"
    BY <2>3, <2>4, Once
  <2>6. /\ IsNumber("2") /\ Number("2") = 2 /\ IsNumber("0") /\ Number("0") = 0
        /\ IsNumber(st) /\ Number(st) = info.st
        /\ st \in {"0", "1"} /\ (st = "1" <=> receiver.app # NoApp)
    BY <2>1, Decimals, Numbers DEF st
  <2>7. ReadsOwn(txt)
    BY <2>1, <2>3, <2>4, <2>6 DEF ReadsOwn, KnownKeys
  <2>8. FromTxt(txt) = info
    <3>1. /\ TextAt(txt, "fn", "") = name /\ TextAt(txt, "md", "") = "model"
          /\ NumberAt(txt, "ve", 2) = 2 /\ NumberAt(txt, "ca", 0) = 0 /\ NumberAt(txt, "st", 0) = info.st
      BY <2>4, <2>5, <2>6 DEF TextAt, NumberAt
    <3> QED BY <2>1, <2>5, <3>1 DEF FromTxt
  <2>9. Trim("uuid") = "uuid" /\ Trim("0") = "0" /\ Trim(name) = "room" /\ Trim(st) = st
    BY <2>6 DEF Trim
  <2>10. /\ DOMAIN capitals = 1..6
         /\ capitals[1] = <<"ID", "uuid">> /\ capitals[2] = <<"VE", "2">> /\ capitals[3] = <<"CA", "0">>
         /\ capitals[4] = <<"ST", st>> /\ capitals[5] = <<"FN", name>> /\ capitals[6] = <<"MD", "model">>
    BY <2>3 DEF InCapitals, Capital
  <2> HIDE DEF capitals
  <2>11. ASSUME NEW service \in Services
         PROVE  /\ Discovers(service, txt)
                /\ Discovered(txt) = [id |-> "uuid", fn |-> "room", ca |-> 0, busy |-> receiver.app # NoApp]
    <3>1. /\ Spelled(txt, "id") = {1} /\ Spelled(txt, "ca") = {3}
          /\ Spelled(txt, "st") = {4} /\ Spelled(txt, "fn") = {5}
      BY <2>3, SixKeys
    <3>2. /\ Trim(txt[1][2]) = "uuid" /\ Trim(txt[3][2]) = "0" /\ Trim(txt[5][2]) = "room"
          /\ Trim(txt[4][2]) \in {"0", "1"} /\ (Trim(txt[4][2]) = "1" <=> receiver.app # NoApp)
      BY <2>3, <2>6, <2>9
    <3> QED BY ONLY <2>11, <3>1, <3>2, SixAreDiscovered
  <2>12. ASSUME NEW service \in Services
         PROVE  /\ Discovers(service, capitals)
                /\ Discovered(capitals) = [id |-> "uuid", fn |-> "room", ca |-> 0, busy |-> receiver.app # NoApp]
    <3>1. /\ Spelled(capitals, "id") = {1} /\ Spelled(capitals, "ca") = {3}
          /\ Spelled(capitals, "st") = {4} /\ Spelled(capitals, "fn") = {5}
      BY <2>10, SixKeys
    <3>2. /\ Trim(capitals[1][2]) = "uuid" /\ Trim(capitals[3][2]) = "0" /\ Trim(capitals[5][2]) = "room"
          /\ Trim(capitals[4][2]) \in {"0", "1"} /\ (Trim(capitals[4][2]) = "1" <=> receiver.app # NoApp)
      BY <2>10, <2>6, <2>9
    <3> QED BY ONLY <2>12, <3>1, <3>2, SixAreDiscovered
  <2> QED BY <2>7, <2>8, <2>11, <2>12 DEF txt, info, capitals
<1>2. AdvertTellsTheTruth
  BY <1>1 DEF AdvertTellsTheTruth
<1> QED BY <1>2, PTL

-----------------------------------------------------------------------------
(* The coding of messages.  A body is read field by field; the states of the  *)
(* reader are a walk along it, and what each of them says of the fields so    *)
(* far carries over from one to the next.                                     *)

Values(body) == {body[i].v : i \in DOMAIN body}
ReadState(body) ==
  [chunked : BOOLEAN, seen : UNION {[D -> Values(body)] : D \in SUBSET DOMAIN WireOf}]
Unread == [chunked |-> FALSE, seen |-> <<>>]

LEMMA UnreadIsState ==
  ASSUME NEW body
  PROVE  Unread \in ReadState(body)
<1>1. <<>> \in [{} -> Values(body)] /\ {} \in SUBSET DOMAIN WireOf
  OBVIOUS
<1> QED BY <1>1 DEF Unread, ReadState

(* A mark of chunks, and a field that is known. *)
Marks(f) == f.wire = "varint" /\ (f.n = 9 \/ (f.n = 8 /\ f.v # 0))
Knows(f) == f.n \in DOMAIN WireOf /\ f.wire = WireOf[f.n]

ReadsOn(read, f, next) ==
  /\ next.chunked = (read.chunked \/ Marks(f))
  /\ ~next.chunked /\ Knows(f) =>
       /\ DOMAIN next.seen = DOMAIN read.seen \cup {f.n}
       /\ next.seen[f.n] = f.v
       /\ \A n \in DOMAIN read.seen : n # f.n => next.seen[n] = read.seen[n]
  /\ ~next.chunked /\ ~Knows(f) => next.seen = read.seen

LEMMA ReadFieldIs ==
  ASSUME NEW body, NEW i \in DOMAIN body, NEW read \in ReadState(body)
  PROVE  /\ ReadField(read, body[i]) \in ReadState(body)
         /\ ReadsOn(read, body[i], ReadField(read, body[i]))
<1> DEFINE f == body[i]
           next == ReadField(read, f)
           more == [n \in DOMAIN read.seen \cup {f.n} |-> IF n = f.n THEN f.v ELSE read.seen[n]]
<1>1. PICK D \in SUBSET DOMAIN WireOf : read.seen \in [D -> Values(body)]
  BY DEF ReadState
<1>2. read = [chunked |-> read.chunked, seen |-> read.seen] /\ read.chunked \in BOOLEAN
  BY DEF ReadState
<1>3. f.v \in Values(body)
  BY DEF Values
<1> SUFFICES next \in ReadState(body) /\ ReadsOn(read, f, next)
  OBVIOUS
<1> HIDE DEF f
<1>4. CASE read.chunked \/ Marks(f)
  <2>1. next = [read EXCEPT !.chunked = TRUE]
    BY <1>4 DEF ReadField, Marks
  <2>2. next = [chunked |-> TRUE, seen |-> read.seen]
    BY <1>2, <2>1
  <2>3. next \in ReadState(body)
    BY <1>1, <2>2 DEF ReadState
  <2> HIDE DEF next
  <2> QED BY <1>2, <1>4, <2>2, <2>3 DEF ReadsOn
<1>5. CASE ~(read.chunked \/ Marks(f)) /\ Knows(f)
  <2>1. next = [read EXCEPT !.seen = more]
    BY <1>5 DEF ReadField, Marks, Knows
  <2> HIDE DEF more
  <2>2. next = [chunked |-> FALSE, seen |-> more]
    BY <1>2, <1>5, <2>1
  <2> USE DEF more
  <2>3. more \in [D \cup {f.n} -> Values(body)] /\ D \cup {f.n} \in SUBSET DOMAIN WireOf
    BY <1>1, <1>3, <1>5 DEF Knows
  <2>4. /\ DOMAIN more = DOMAIN read.seen \cup {f.n}
        /\ more[f.n] = f.v
        /\ \A n \in DOMAIN read.seen : n # f.n => more[n] = read.seen[n]
    OBVIOUS
  <2> HIDE DEF more
  <2>5. next \in ReadState(body)
    BY <2>2, <2>3 DEF ReadState
  <2> HIDE DEF next
  <2> QED BY <1>5, <2>2, <2>4, <2>5 DEF ReadsOn
<1>6. CASE ~(read.chunked \/ Marks(f)) /\ ~Knows(f)
  <2>1. next = read
    BY <1>6 DEF ReadField, Marks, Knows
  <2>2. next \in ReadState(body) /\ next.chunked = read.chunked
    BY <2>1
  <2> HIDE DEF next
  <2> QED BY <1>2, <1>6, <2>1, <2>2 DEF ReadsOn
<1> QED BY <1>4, <1>5, <1>6

(* The states of the reader, one field after the other. *)
Reading(h, body) ==
  /\ h \in [0..Len(body) -> ReadState(body)]
  /\ h[0] = Unread
  /\ \A k \in 1..Len(body) : h[k] = ReadField(h[k - 1], body[k])

LEMMA ReadBodyIsReading ==
  ASSUME NEW body, IsSequence(body)
  PROVE  \E h : Reading(h, body) /\ ReadBody(body) = h[Len(body)]
<1> DEFINE N == Len(body)
           S == 1..N
           V == ReadState(body)
           pick == [s \in SUBSET S |-> Max(s)]
           step == [p \in V \X S |-> ReadField(p[1], body[p[2]])]
           D(g) == g = [s \in SUBSET S |->
                          IF s = {} THEN Unread
                          ELSE ReadField(g[s \ {Max(s)}], body[Max(s)])]
           it == CHOOSE g : D(g)
           h == [k \in 0..N |-> it[1..k]]
<1>1. N \in Nat /\ DOMAIN body = S /\ IsFiniteSet(S)
  <2>1. N \in Nat /\ DOMAIN body = S
    BY DEF IsSequence
  <2> QED BY <2>1, FS_Interval
<1>2. \A s \in SUBSET S : s # {} =>
        Max(s) \in s /\ Max(s) \in S /\ s \ {Max(s)} \in SUBSET S
  <2>1. \A s \in SUBSET S : s # {} => Max(s) \in s
    BY <1>1, MaxPicks
  <2> HIDE DEF S
  <2> QED BY <2>1
<1>3. Picks(pick, S)
  BY <1>2 DEF Picks
<1>4. step \in [V \X S -> V] /\ \A v \in V, i \in S : step[<<v, i>>] = ReadField(v, body[i])
  <2>1. \A v \in V, i \in S : ReadField(v, body[i]) \in V
    BY <1>1, ReadFieldIs
  <2> HIDE DEF V, S
  <2> QED BY <2>1
<1>5. PICK g : Folded(g, pick, Unread, step, V, S)
  <2>1. Unread \in V
    BY UnreadIsState
  <2> HIDE DEF V, S, pick, step
  <2> QED BY <1>1, <1>3, <1>4, <2>1, FoldExists
<1>6. D(g) /\ g \in [SUBSET S -> V]
  <2>1. g \in [SUBSET S -> V] /\ \A s \in SUBSET S : g[s] = FoldStep(g, pick, Unread, step, s)
    BY <1>5 DEF Folded
  <2>2. \A s \in SUBSET S : s # {} => pick[s] = Max(s)
    OBVIOUS
  <2> HIDE DEF V, S, pick, step
  <2>3. \A s \in SUBSET S : g[s] = IF s = {} THEN Unread ELSE ReadField(g[s \ {Max(s)}], body[Max(s)])
    BY <1>2, <1>4, <2>1, <2>2 DEF FoldStep
  <2> QED BY <2>1, <2>3
<1>7. D(it)
  BY <1>6
<1>8. ReadBody(body) = it[DOMAIN body]
  BY <1>1 DEF ReadBody, FoldLeft, MapThenFoldSet, Unread
<1> HIDE DEF it
<1>9. \A k \in 0..N : 1..k \in SUBSET S
  BY <1>1
<1>10. h[0] = Unread
  <2>1. 1..0 = {} /\ 0 \in 0..N
    BY <1>1
  <2>2. it[{}] = Unread
    BY <1>7
  <2> QED BY <2>1, <2>2
<1>11. ASSUME NEW k \in 1..N
       PROVE  h[k] = ReadField(h[k - 1], body[k])
  <2>0. k \in Nat /\ 1 =< k /\ k =< N
    BY <1>1
  <2>1. k \in 0..N /\ k - 1 \in 0..N /\ 1..k \in SUBSET (0..N) /\ 1..k # {}
        /\ (1..k) \ {k} = 1..(k - 1)
    <3>1. k \in 0..N /\ k - 1 \in 0..N /\ 1..k \in SUBSET (0..N)
      BY <1>1, <2>0
    <3>2. k \in 1..k
      BY <2>0
    <3>3. (1..k) \ {k} = 1..(k - 1)
      BY <2>0
    <3> QED BY <3>1, <3>2, <3>3
  <2>2. Max(1..k) = k
    <3>1. Max(1..k) \in 1..k /\ \A j \in 1..k : j =< Max(1..k)
      BY <1>1, <2>1, MinMaxAre
    <3> QED BY <3>1
  <2>3. it[1..k] = ReadField(it[(1..k) \ {Max(1..k)}], body[Max(1..k)])
    <3>1. 1..k \in SUBSET S
      BY <1>9, <2>1
    <3> HIDE DEF S
    <3> QED BY <1>7, <2>1, <3>1
  <2> QED BY <2>1, <2>2, <2>3
<1>12. ASSUME NEW k \in 0..N
       PROVE  h[k] \in V
  <2> DEFINE T == {j \in 0..N : h[j] \notin V}
  <2>1. T = {}
    <3> SUFFICES ASSUME T # {} PROVE FALSE
      OBVIOUS
    <3>1. PICK j \in T : \A i \in T : j =< i
      <4>1. T \in SUBSET (0..N)
        OBVIOUS
      <4> HIDE DEF T
      <4> QED BY <1>1, <4>1, LeastUpTo
    <3> HIDE DEF h
    <3>2. j # 0
      BY <1>10, UnreadIsState
    <3>3. j \in 1..N /\ j - 1 \in 0..N /\ j - 1 \notin T
      BY <1>1, <3>1, <3>2
    <3>4. h[j - 1] \in V /\ h[j] = ReadField(h[j - 1], body[j])
      BY <1>11, <3>3
    <3> QED BY <1>1, <3>3, <3>4, ReadFieldIs
  <2> QED BY <2>1
<1>13. h = [k \in 0..N |-> h[k]] /\ h[N] = it[1..N]
  BY <1>1
<1> HIDE DEF h
<1> QED BY <1>1, <1>8, <1>10, <1>11, <1>12, <1>13 DEF Reading

(* What a state of the reader says of the fields before it. *)
Gives(f, n) == f.n = n /\ f.wire = WireOf[n]
LastGiven(body, k, n, i) == Gives(body[i], n) /\ \A j \in 1..k : j > i => ~Gives(body[j], n)
ReadSoFar(read, body, k) ==
  /\ read.chunked <=> \E i \in 1..k : Marks(body[i])
  /\ ~read.chunked =>
       /\ \A n \in 1..7 : n \in DOMAIN read.seen <=> \E i \in 1..k : Gives(body[i], n)
       /\ \A n \in DOMAIN read.seen :
            \E i \in 1..k : LastGiven(body, k, n, i) /\ read.seen[n] = body[i].v

LEMMA ReadSoFarGoesOn ==
  ASSUME NEW body, NEW k \in Nat, k >= 1, NEW read \in ReadState(body), NEW next \in ReadState(body),
         ReadSoFar(read, body, k - 1), ReadsOn(read, body[k], next)
  PROVE  ReadSoFar(next, body, k)
<1> DEFINE f == body[k]
<1>1. 1..k = (1..(k - 1)) \cup {k} /\ \A i \in 1..(k - 1) : i \in Nat /\ i < k
  OBVIOUS
<1>2. read.chunked \in BOOLEAN /\ next.chunked \in BOOLEAN /\ DOMAIN read.seen \subseteq 1..7
  BY DEF ReadState, WireOf
<1>3. next.chunked <=> \E i \in 1..k : Marks(body[i])
  BY <1>1, <1>2 DEF ReadSoFar, ReadsOn
<1>4. ASSUME ~next.chunked, ~Knows(f)
      PROVE  ReadSoFar(next, body, k)
  <2>1. ~read.chunked /\ next.seen = read.seen
    BY <1>2, <1>4 DEF ReadsOn
  <2>2. \A n \in 1..7 : ~Gives(body[k], n)
    BY <1>4 DEF Gives, Knows, WireOf
  <2>3. ASSUME NEW n \in 1..7
        PROVE  n \in DOMAIN next.seen <=> \E i \in 1..k : Gives(body[i], n)
    BY <1>1, <2>1, <2>2 DEF ReadSoFar
  <2>4. ASSUME NEW n \in DOMAIN next.seen
        PROVE  \E i \in 1..k : LastGiven(body, k, n, i) /\ next.seen[n] = body[i].v
    <3>1. PICK i \in 1..(k - 1) : LastGiven(body, k - 1, n, i) /\ read.seen[n] = body[i].v
      BY <2>1, <2>4 DEF ReadSoFar
    <3>2. n \in 1..7
      BY <1>2, <2>1
    <3>3. LastGiven(body, k, n, i)
      BY <1>1, <2>2, <3>1, <3>2 DEF LastGiven
    <3> QED BY <1>1, <2>1, <3>1, <3>3
  <2> QED BY <1>3, <2>3, <2>4 DEF ReadSoFar
<1>5. ASSUME ~next.chunked, Knows(f)
      PROVE  ReadSoFar(next, body, k)
  <2>1. /\ ~read.chunked /\ DOMAIN next.seen = DOMAIN read.seen \cup {f.n} /\ next.seen[f.n] = f.v
        /\ \A n \in DOMAIN read.seen : n # f.n => next.seen[n] = read.seen[n]
    BY <1>2, <1>5 DEF ReadsOn
  <2>2. Gives(body[k], f.n) /\ f.n \in 1..7 /\ \A n : Gives(body[k], n) => n = f.n
    BY <1>5 DEF Gives, Knows, WireOf
  <2>3. ASSUME NEW n \in 1..7
        PROVE  n \in DOMAIN next.seen <=> \E i \in 1..k : Gives(body[i], n)
    <3>1. n \in DOMAIN read.seen <=> \E i \in 1..(k - 1) : Gives(body[i], n)
      BY <2>1 DEF ReadSoFar
    <3> QED BY <1>1, <2>1, <2>2, <3>1
  <2>4. ASSUME NEW n \in DOMAIN next.seen
        PROVE  \E i \in 1..k : LastGiven(body, k, n, i) /\ next.seen[n] = body[i].v
    <3>1. CASE n = f.n
      <4>1. LastGiven(body, k, n, k)
        BY <2>2, <3>1 DEF LastGiven
      <4> QED BY <1>1, <2>1, <3>1, <4>1
    <3>2. CASE n # f.n
      <4>1. n \in DOMAIN read.seen /\ next.seen[n] = read.seen[n]
        BY <2>1, <3>2
      <4>2. PICK i \in 1..(k - 1) : LastGiven(body, k - 1, n, i) /\ read.seen[n] = body[i].v
        BY <2>1, <4>1 DEF ReadSoFar
      <4>3. LastGiven(body, k, n, i)
        BY <1>1, <2>2, <3>2, <4>2 DEF LastGiven
      <4> QED BY <1>1, <4>1, <4>2, <4>3
    <3> QED BY <3>1, <3>2
  <2> QED BY <1>3, <2>3, <2>4 DEF ReadSoFar
<1>6. ASSUME next.chunked
      PROVE  ReadSoFar(next, body, k)
  BY <1>3, <1>6 DEF ReadSoFar
<1> QED BY <1>4, <1>5, <1>6

LEMMA ReadBodyIs ==
  ASSUME NEW body, IsSequence(body)
  PROVE  ReadBody(body) \in ReadState(body) /\ ReadSoFar(ReadBody(body), body, Len(body))
<1> DEFINE N == Len(body)
<1>1. N \in Nat /\ DOMAIN body = 1..N
  BY DEF IsSequence
<1>2. PICK h : Reading(h, body) /\ ReadBody(body) = h[Len(body)]
  BY ReadBodyIsReading
<1>3. \A k \in 0..N : h[k] \in ReadState(body)
  BY <1>2 DEF Reading
<1> DEFINE T == {k \in 0..N : ~ReadSoFar(h[k], body, k)}
<1>4. T = {}
  <2> SUFFICES ASSUME T # {} PROVE FALSE
    OBVIOUS
  <2>1. PICK k \in T : \A j \in T : k =< j
    <3>1. T \in SUBSET (0..N)
      OBVIOUS
    <3> HIDE DEF T
    <3> QED BY <1>1, <3>1, LeastUpTo
  <2>2. k # 0
    <3>1. 1..0 = {} /\ h[0] = Unread
      BY <1>2 DEF Reading
    <3>2. ReadSoFar(Unread, body, 0)
      BY <3>1 DEF ReadSoFar, Unread
    <3> QED BY <3>1, <3>2
  <2>3. k \in 1..N /\ k \in Nat /\ k >= 1 /\ k - 1 \in 0..N
    BY <1>1, <2>2
  <2>4. k - 1 \notin T
    BY <2>1, <2>3
  <2>5. ReadSoFar(h[k - 1], body, k - 1)
    BY <2>3, <2>4
  <2>6. h[k] = ReadField(h[k - 1], body[k])
    BY <1>2, <2>3 DEF Reading
  <2>7. ReadsOn(h[k - 1], body[k], h[k]) /\ h[k] \in ReadState(body) /\ h[k - 1] \in ReadState(body)
    BY <1>1, <1>3, <2>3, <2>6, ReadFieldIs
  <2>8. ReadSoFar(h[k], body, k)
    BY <2>3, <2>5, <2>7, ReadSoFarGoesOn
  <2> QED BY <2>8
<1>5. N \in 0..N
  BY <1>1
<1>6. ReadSoFar(h[N], body, N)
  BY <1>4, <1>5
<1> QED BY <1>2, <1>3, <1>5, <1>6

LEMMA BodiesAreRead ==
  ASSUME NEW body, IsSequence(body)
  PROVE  BodyIsRead(body)
<1> DEFINE N == Len(body)
           read == ReadBody(body)
           seen == read.seen
           D == DOMAIN seen
           sound == /\ 1..5 \subseteq D
                    /\ seen[1] \in 0..3
                    /\ "" \notin {seen[n] : n \in 2..4}
                    /\ seen[5] \in {0, 1} /\ {6, 7} \cap D = {6 + seen[5]}
<1>0. MaxBody \in Nat
  BY CodingAssumption
<1>1. N \in Nat /\ DOMAIN body = 1..N
  BY DEF IsSequence
<1>2. read \in ReadState(body) /\ ReadSoFar(read, body, N)
  BY ReadBodyIs
<1>3. D \subseteq 1..7
  BY <1>2 DEF ReadState, WireOf
<1>4. DecodeBody(body).verdict = "accepted" <=> N <= MaxBody /\ ~read.chunked /\ sound
  <2>1. CASE N > MaxBody
    <3>1. DecodeBody(body).verdict = "resource-limit"
      BY <2>1 DEF DecodeBody, Refused
    <3> HIDE DEF sound, read
    <3> QED BY <1>0, <1>1, <2>1, <3>1
  <2>2. CASE ~(N > MaxBody) /\ read.chunked
    <3>1. DecodeBody(body).verdict = "unsupported-feature"
      BY <2>2 DEF DecodeBody, Refused
    <3> QED BY <2>2, <3>1
  <2>3. CASE ~(N > MaxBody) /\ ~read.chunked /\ sound
    <3>1. DecodeBody(body).verdict = "accepted"
      BY <2>3 DEF DecodeBody, Refused
    <3> HIDE DEF sound, read
    <3> QED BY <1>0, <1>1, <2>3, <3>1
  <2>4. CASE ~(N > MaxBody) /\ ~read.chunked /\ ~sound
    <3>1. DecodeBody(body).verdict = "invalid-frame"
      BY <2>4 DEF DecodeBody, Refused
    <3> QED BY <2>4, <3>1
  <2> QED BY <2>1, <2>2, <2>3, <2>4
<1>5. read.chunked <=> \E i \in DOMAIN body : Marks(body[i])
  BY <1>1, <1>2 DEF ReadSoFar
<1> HIDE DEF read
<1>6. ASSUME NEW n \in 1..7
      PROVE  \A i \in DOMAIN body : LastGiven(body, N, n, i) <=> IsLast(body, n, i)
  BY <1>1 DEF LastGiven, IsLast, Gives
<1>7. ASSUME ~read.chunked, NEW n \in 1..7
      PROVE  n \in D <=> Has(body, n)
  BY <1>1, <1>2, <1>7 DEF ReadSoFar, Gives, Has
<1>8. ASSUME ~read.chunked, NEW n \in 1..7
      PROVE  n \in D => \E i \in DOMAIN body : IsLast(body, n, i) /\ seen[n] = body[i].v
  BY <1>1, <1>2, <1>6, <1>8 DEF ReadSoFar
<1>9. ASSUME ~read.chunked, NEW n \in 1..7, NEW i \in DOMAIN body, IsLast(body, n, i)
      PROVE  n \in D /\ seen[n] = body[i].v
  <2>1. n \in D
    BY <1>7, <1>9 DEF Has, IsLast
  <2>2. PICK j \in DOMAIN body : IsLast(body, n, j) /\ seen[n] = body[j].v
    BY <1>8, <1>9, <2>1
  <2>3. i = j
    BY <1>1, <1>9, <2>2 DEF IsLast
  <2> QED BY <2>1, <2>2, <2>3
<1>10. (\A i \in DOMAIN body : body[i].wire = "varint" =>
          /\ body[i].n # 9
          /\ body[i].n = 8 => body[i].v = 0) <=> ~read.chunked
  BY <1>5 DEF Marks
<1>11. ASSUME ~read.chunked
       PROVE  sound <=>
         /\ \E i \in DOMAIN body : IsLast(body, 1, i) /\ body[i].v \in 0..3
         /\ \A n \in 2..4 : \E i \in DOMAIN body : IsLast(body, n, i) /\ body[i].v # ""
         /\ \E i \in DOMAIN body :
              /\ IsLast(body, 5, i)
              /\ \/ body[i].v = 0 /\ Has(body, 6) /\ ~Has(body, 7)
                 \/ body[i].v = 1 /\ Has(body, 7) /\ ~Has(body, 6)
  <2>1. (6 \in D <=> Has(body, 6)) /\ (7 \in D <=> Has(body, 7))
    BY <1>7, <1>11
  <2>2. seen[5] = 0 => ({6, 7} \cap D = {6 + seen[5]} <=> 6 \in D /\ 7 \notin D)
    OBVIOUS
  <2>3. seen[5] = 1 => ({6, 7} \cap D = {6 + seen[5]} <=> 7 \in D /\ 6 \notin D)
    OBVIOUS
  <2>4. 1..5 \subseteq D <=> 1 \in D /\ (\A n \in 2..4 : n \in D) /\ 5 \in D
    OBVIOUS
  <2>5. "" \notin {seen[n] : n \in 2..4} <=> \A n \in 2..4 : seen[n] # ""
    OBVIOUS
  <2>6. ASSUME NEW n \in 1..7
        PROVE  /\ n \in D => \E i \in DOMAIN body : IsLast(body, n, i) /\ seen[n] = body[i].v
               /\ \A i \in DOMAIN body : IsLast(body, n, i) => n \in D /\ seen[n] = body[i].v
    BY <1>8, <1>9, <1>11
  <2> DEFINE first  == \E i \in DOMAIN body : IsLast(body, 1, i) /\ body[i].v \in 0..3
             names  == \A n \in 2..4 : \E i \in DOMAIN body : IsLast(body, n, i) /\ body[i].v # ""
             kind   == \E i \in DOMAIN body :
                         /\ IsLast(body, 5, i)
                         /\ \/ body[i].v = 0 /\ Has(body, 6) /\ ~Has(body, 7)
                            \/ body[i].v = 1 /\ Has(body, 7) /\ ~Has(body, 6)
  <2> HIDE DEF D, seen
  <2>7. first <=> 1 \in D /\ seen[1] \in 0..3
    BY <2>6
  <2>8. names <=> \A n \in 2..4 : n \in D /\ seen[n] # ""
    <3>1. ASSUME NEW n \in 2..4
          PROVE  (\E i \in DOMAIN body : IsLast(body, n, i) /\ body[i].v # "")
                   <=> n \in D /\ seen[n] # ""
      <4>1. n \in 1..7
        OBVIOUS
      <4> QED BY <2>6, <4>1
    <3> QED BY <3>1
  <2>9. kind <=> 5 \in D /\ \/ seen[5] = 0 /\ 6 \in D /\ 7 \notin D
                            \/ seen[5] = 1 /\ 7 \in D /\ 6 \notin D
    BY <2>1, <2>6
  <2>10. sound <=> first /\ names /\ kind
    <3> HIDE DEF first, names, kind
    <3> QED BY <2>2, <2>3, <2>4, <2>5, <2>7, <2>8, <2>9
  <2> QED BY <2>10
<1> HIDE DEF sound, seen, D
<1> QED BY <1>4, <1>10, <1>11 DEF BodyIsRead, WellFormed

-----------------------------------------------------------------------------
(* Frames.                                                                    *)

(* What is left of a sequence that is cut. *)
LEMMA PrefixIs ==
  ASSUME NEW S, NEW s \in Seq(S), NEW cut \in 0..Len(s)
  PROVE  LET front == SubSeq(s, 1, cut)
         IN  Len(front) = cut /\ \A i \in 1..cut : front[i] = s[i]
<1>1. Len(s) \in Nat /\ \A i \in 1..Len(s) : s[i] \in S
  OBVIOUS
<1>2. 1 \in Int /\ cut \in Int /\ cut \in Nat /\ \A i \in 1..cut : s[i] \in S
  BY <1>1
<1>3. /\ Len(SubSeq(s, 1, cut)) = IF 1 =< cut THEN cut - 1 + 1 ELSE 0
      /\ \A i \in 1..(cut - 1 + 1) : SubSeq(s, 1, cut)[i] = s[1 + i - 1]
  BY ONLY <1>2, SubSeqProperties, SMTT(30)
<1> DEFINE front == SubSeq(s, 1, cut)
<1> HIDE DEF front
<1>4. /\ Len(front) = IF 1 =< cut THEN cut - 1 + 1 ELSE 0
      /\ \A i \in 1..(cut - 1 + 1) : front[i] = s[1 + i - 1]
  BY <1>3 DEF front
<1>5. cut - 1 + 1 = cut /\ \A i \in 1..cut : 1 + i - 1 = i
  BY <1>2
<1>6. Len(front) = cut /\ \A i \in 1..cut : front[i] = s[i]
  BY <1>2, <1>4, <1>5
<1> QED BY <1>6 DEF front

(* The length in the header is the length. *)
LEMMA HeaderIs ==
  ASSUME NEW length \in Nat, NEW bytes,
         bytes[1] = 0, bytes[2] = 0, bytes[3] = length \div Digit, bytes[4] = length % Digit
  PROVE  Declared(bytes) = length
<1>1. MaxBody \in Nat
  BY CodingAssumption
<1> DEFINE d == MaxBody + 2
<1>2. d \in Nat /\ d > 0
  BY <1>1
<1> HIDE DEF d
<1>3. length = d * (length \div d) + (length % d) /\ length \div d \in Int /\ length % d \in Int
  BY <1>2
<1>4. Declared(bytes) = ((0 * d + 0) * d + (length \div d)) * d + (length % d)
  BY DEF Declared, Digit, d
<1>5. (0 * d + 0) * d = 0
  BY <1>2
<1>6. (length \div d) * d = d * (length \div d)
  BY <1>2, <1>3
<1> QED BY <1>2, <1>3, <1>4, <1>5, <1>6

LEMMA SequencesAre ==
  ASSUME NEW s, IsSequence(s), NEW S, \A i \in 1..Len(s) : s[i] \in S
  PROVE  s \in Seq(S)
<1>1. s \in [1..Len(s) -> S] /\ Len(s) \in Nat
  BY DEF IsSequence
<1> DEFINE n == Len(s)
<1> HIDE DEF n
<1>2. s \in [1..n -> S] /\ n \in Nat
  BY <1>1 DEF n
<1> QED BY <1>2, SeqDef

(* The header of a frame, and where the body and the rest are in a stream. *)
LEMMA StreamIs ==
  ASSUME NEW body, IsSequence(body), NEW tail, IsSequence(tail)
  PROVE  LET stream == EncodeFrame(body) \o tail
         IN  \E S : /\ stream \in Seq(S) /\ body \in Seq(S)
                    /\ Len(stream) = 4 + Len(body) + Len(tail)
                    /\ stream[1] = 0 /\ stream[2] = 0
                    /\ stream[3] = Len(body) \div Digit /\ stream[4] = Len(body) % Digit
                    /\ \A i \in 1..Len(body) : stream[4 + i] = body[i]
<1> DEFINE S == Int \cup {body[i] : i \in 1..Len(body)} \cup {tail[i] : i \in 1..Len(tail)}
           q == Len(body) \div Digit
           r == Len(body) % Digit
           header == <<0, 0, q, r>>
           frame == EncodeFrame(body)
           stream == frame \o tail
<1>1. body \in Seq(S) /\ tail \in Seq(S) /\ Len(body) \in Nat /\ Len(tail) \in Nat
  <2>1. \A i \in 1..Len(body) : body[i] \in S
    OBVIOUS
  <2>2. \A i \in 1..Len(tail) : tail[i] \in S
    OBVIOUS
  <2> HIDE DEF S
  <2> QED BY <2>1, <2>2, SequencesAre DEF IsSequence
<1>2. header \in Seq(S) /\ Len(header) = 4
  <2>1. MaxBody \in Nat
    BY CodingAssumption
  <2>2. q \in Int /\ r \in Int
    BY <1>1, <2>1 DEF Digit
  <2> HIDE DEF q, r
  <2>3. {0, q, r} \subseteq S
    BY <2>2
  <2> HIDE DEF S
  <2> QED BY <2>3
<1>3. header[1] = 0 /\ header[2] = 0 /\ header[3] = q /\ header[4] = r
  <2> HIDE DEF q, r
  <2> QED OBVIOUS
<1>4. frame = header \o body
  BY DEF EncodeFrame
<1> HIDE DEF S, header, frame
<1>5. /\ frame \in Seq(S) /\ Len(frame) = 4 + Len(body)
      /\ \A i \in 1..(4 + Len(body)) : frame[i] = IF i =< 4 THEN header[i] ELSE body[i - 4]
  <2>1. /\ header \o body \in Seq(S) /\ Len(header \o body) = Len(header) + Len(body)
        /\ \A i \in 1..(Len(header) + Len(body)) :
             (header \o body)[i] = IF i =< Len(header) THEN header[i] ELSE body[i - Len(header)]
    BY <1>1, <1>2, ConcatProperties
  <2> QED BY <1>2, <1>4, <2>1
<1>6. /\ stream \in Seq(S) /\ Len(stream) = 4 + Len(body) + Len(tail)
      /\ \A i \in 1..(4 + Len(body) + Len(tail)) :
           stream[i] = IF i =< 4 + Len(body) THEN frame[i] ELSE tail[i - (4 + Len(body))]
  <2>1. /\ frame \o tail \in Seq(S) /\ Len(frame \o tail) = Len(frame) + Len(tail)
        /\ \A i \in 1..(Len(frame) + Len(tail)) :
             (frame \o tail)[i] = IF i =< Len(frame) THEN frame[i] ELSE tail[i - Len(frame)]
    BY <1>1, <1>5, ConcatProperties
  <2> QED BY <1>5, <2>1 DEF stream
<1> HIDE DEF stream
<1>7. ASSUME NEW i \in 1..4
      PROVE  stream[i] = header[i]
  BY <1>1, <1>5, <1>6
<1>8. ASSUME NEW i \in 1..Len(body)
      PROVE  stream[4 + i] = body[i]
  <2>1. 4 + i \in 1..(4 + Len(body)) /\ 4 + i \in 1..(4 + Len(body) + Len(tail)) /\ ~(4 + i =< 4)
        /\ 4 + i =< 4 + Len(body) /\ 4 + i - 4 = i
    BY <1>1
  <2> QED BY <1>5, <1>6, <2>1
<1> HIDE DEF q, r
<1>9. stream[1] = 0 /\ stream[2] = 0 /\ stream[3] = q /\ stream[4] = r
  BY <1>3, <1>7
<1> QED BY <1>1, <1>6, <1>8, <1>9 DEF q, r, stream, frame

LEMMA FramesAreRead ==
  ASSUME NEW body, IsSequence(body), NEW tail, IsSequence(tail)
  PROVE  FrameIsRead(body, tail)
<1> DEFINE stream == EncodeFrame(body) \o tail
           N == Len(body)
           cutAt(cut) == SubSeq(stream, 1, cut)
<1>1. PICK S : /\ stream \in Seq(S) /\ body \in Seq(S)
               /\ Len(stream) = 4 + Len(body) + Len(tail)
               /\ stream[1] = 0 /\ stream[2] = 0
               /\ stream[3] = Len(body) \div Digit /\ stream[4] = Len(body) % Digit
               /\ \A i \in 1..Len(body) : stream[4 + i] = body[i]
  BY StreamIs
<1>2. MaxBody \in Nat /\ N \in Nat /\ Len(tail) \in Nat
  BY CodingAssumption DEF IsSequence
<1> HIDE DEF stream
<1>3. ASSUME NEW cut \in 0..Len(stream)
      PROVE  /\ Len(cutAt(cut)) = cut
             /\ \A i \in 1..cut : cutAt(cut)[i] = stream[i]
  BY <1>1, PrefixIs
<1>4. ASSUME NEW cut \in 4..Len(stream)
      PROVE  Declared(cutAt(cut)) = N
  <2>1. cut \in 0..Len(stream) /\ 1 \in 1..cut /\ 2 \in 1..cut /\ 3 \in 1..cut /\ 4 \in 1..cut
    BY <1>1, <1>2
  <2>2. /\ cutAt(cut)[1] = 0 /\ cutAt(cut)[2] = 0
        /\ cutAt(cut)[3] = N \div Digit /\ cutAt(cut)[4] = N % Digit
    BY <1>1, <1>3, <2>1
  <2> HIDE DEF cutAt, N
  <2> QED BY <1>2, <2>2, HeaderIs
<1>5. ASSUME N > MaxBody, NEW cut \in HeaderBytes..Len(stream)
      PROVE  DecodeFrame(cutAt(cut)).verdict = "resource-limit"
  <2>1. Declared(cutAt(cut)) = N /\ Len(cutAt(cut)) = cut /\ cut \in Int /\ cut >= 4
    BY <1>1, <1>2, <1>3, <1>4, <1>5 DEF HeaderBytes
  <2> HIDE DEF cutAt, N
  <2> QED BY <1>5, <2>1 DEF DecodeFrame, HeaderBytes, Refused
<1>6. ASSUME ~(N > MaxBody), NEW cut \in 0..((HeaderBytes + N) - 1)
      PROVE  DecodeFrame(cutAt(cut)).verdict = "invalid-frame"
  <2>1. cut \in 0..Len(stream) /\ cut < 4 + N /\ cut \in Int
    BY <1>1, <1>2 DEF HeaderBytes
  <2>2. Len(cutAt(cut)) = cut
    BY <1>3, <2>1
  <2>3. CASE cut < 4
    <3> HIDE DEF cutAt, N
    <3> QED BY <2>2, <2>3 DEF DecodeFrame, HeaderBytes, Refused
  <2>4. CASE cut >= 4
    <3>1. Declared(cutAt(cut)) = N
      BY <1>1, <1>2, <1>4, <2>1, <2>4
    <3> HIDE DEF cutAt, N
    <3> QED BY <1>2, <1>6, <2>1, <2>2, <2>4, <3>1 DEF DecodeFrame, HeaderBytes, Refused
  <2> QED BY <2>1, <2>3, <2>4
<1>7. ASSUME ~(N > MaxBody)
      PROVE  DecodeFrame(stream) =
               IF DecodeBody(body).verdict = "accepted"
               THEN [verdict |-> "accepted", message |-> DecodeBody(body),
                     consumed |-> HeaderBytes + N]
               ELSE DecodeBody(body)
  <2>1. Declared(stream) = N
    BY <1>1, <1>2, HeaderIs
  <2>2. SubSeq(stream, HeaderBytes + 1, HeaderBytes + N) = body
    <3> DEFINE inner == SubSeq(stream, 5, 4 + N)
    <3>1. 5 \in Int /\ 4 + N \in Int /\ \A i \in 5..(4 + N) : stream[i] \in S
      BY <1>1, <1>2
    <3> DEFINE n == 4 + N
    <3> HIDE DEF n
    <3>2. 5 \in Int /\ n \in Int /\ \A i \in 5..n : stream[i] \in S
      BY <3>1 DEF n
    <3>3. /\ SubSeq(stream, 5, n) \in Seq(S)
          /\ Len(SubSeq(stream, 5, n)) = IF 5 =< n THEN n - 5 + 1 ELSE 0
          /\ \A i \in 1..(n - 5 + 1) : SubSeq(stream, 5, n)[i] = stream[5 + i - 1]
      BY ONLY <3>2, SubSeqProperties, SMTT(30)
    <3>4. n - 5 + 1 = N /\ (5 =< n <=> N > 0)
      BY <1>2 DEF n
    <3>5. inner \in Seq(S) /\ Len(inner) = N /\ \A i \in 1..N : inner[i] = stream[5 + i - 1]
      BY <1>2, <3>3, <3>4 DEF n
    <3>6. \A i \in 1..N : 5 + i - 1 = 4 + i
      BY <1>2
    <3> HIDE DEF inner
    <3>7. \A i \in 1..N : inner[i] = body[i]
      BY <1>1, <3>5, <3>6
    <3>8. inner = body
      BY <1>1, <3>5, <3>7, SeqEqual
    <3> QED BY <3>8 DEF inner, HeaderBytes
  <2>3. ~(Len(stream) < HeaderBytes) /\ ~(Len(stream) < HeaderBytes + N)
    BY <1>1, <1>2 DEF HeaderBytes
  <2> HIDE DEF N
  <2> QED BY <1>7, <2>1, <2>2, <2>3 DEF DecodeFrame
<1>8. (DecodeBody(body).verdict = "accepted") = WellFormed(body)
  BY BodiesAreRead DEF BodyIsRead
<1>9. CASE N > MaxBody
  BY <1>5, <1>9 DEF FrameIsRead, stream
<1>10. CASE ~(N > MaxBody)
  <2> DEFINE message == DecodeBody(body)
             read == DecodeFrame(stream)
  <2> HIDE DEF message
  <2>1. read = IF message.verdict = "accepted"
               THEN [verdict |-> "accepted", message |-> message, consumed |-> HeaderBytes + N]
               ELSE message
    BY <1>7, <1>10 DEF message
  <2> HIDE DEF read
  <2>2. read.verdict = message.verdict /\ (message.verdict = "accepted" =>
             read.message = message /\ read.consumed = HeaderBytes + N)
    BY <2>1
  <2>3. \A cut \in 0..((HeaderBytes + N) - 1) : DecodeFrame(cutAt(cut)).verdict = "invalid-frame"
    BY <1>6, <1>10
  <2>4. WellFormed(body) => read.message = message /\ read.consumed = HeaderBytes + N
    BY <1>8, <2>2 DEF message
  <2> QED BY <1>10, <2>2, <2>3, <2>4 DEF FrameIsRead, message, read, stream
<1> QED BY <1>9, <1>10

-----------------------------------------------------------------------------
(* Payloads.                                                                  *)

(* A key is read back when a value it is read as is read as itself, and what  *)
(* is not there, or null, as not known wherever that is what it may be.       *)
ReadsBack(f) ==
  \A v \in DOMAIN f :
    IF f[v] = "none"
    THEN {"absent", "null"} \subseteq DOMAIN f /\ f["absent"] = "none" /\ f["null"] = "none"
    ELSE f[v] \in DOMAIN f /\ f[f[v]] = f[v]

LEMMA StrictReadsBack ==
  ASSUME NEW S, "none" \notin S
  PROVE  ReadsBack(Strict(S))
BY DEF ReadsBack, Strict

LEMMA DefaultingReadsBack ==
  ASSUME NEW S, NEW soft, NEW default, "none" \notin S,
         \/ default \in S
         \/ default = "none" /\ {"absent", "null"} \subseteq soft /\ "absent" \notin S /\ "null" \notin S
  PROVE  ReadsBack(Defaulting(S, soft, default))
<1> DEFINE f == Defaulting(S, soft, default)
<1>1. /\ DOMAIN f = S \cup soft
      /\ \A v \in S : f[v] = v
      /\ \A v \in soft : v \notin S => f[v] = default
  BY DEF Defaulting
<1> HIDE DEF f
<1>2. ReadsBack(f)
  BY <1>1 DEF ReadsBack
<1> QED BY <1>2 DEF f

LEMMA KnownValues ==
  /\ "none" \notin String /\ "absent" \notin String /\ "null" \notin String /\ "" \in String
  /\ {"absent", "null"} \subseteq Value
  /\ StreamType \subseteq String /\ PlayerState \subseteq String
  /\ "UNKNOWN" \in StreamType
BY DEF String, Value, StreamType, PlayerState

LEMMA OptionalReadsBack ==
  ASSUME NEW S, "none" \notin S, "absent" \notin S, "null" \notin S
  PROVE  ReadsBack(Optional(S)) /\ ReadsBack(Lenient(S, "none"))
<1>1. {"absent", "null"} \subseteq Value \ S
  BY KnownValues
<1> QED BY <1>1, DefaultingReadsBack DEF Optional, Lenient

(* The keys that are read, but for the volume. *)
LEMMA KeysReadBack ==
  ASSUME NEW type, NEW object, NEW k \in DOMAIN KeysOf(type, object)
  PROVE  k # "type" /\ (k # "volume" => ReadsBack(KeysOf(type, object)[k]))
<1> DEFINE keys == KeysOf(type, object)
<1>1. /\ ReadsBack(Strict(String)) /\ ReadsBack(Strict(String \ {""})) /\ ReadsBack(Strict({"object"}))
      /\ ReadsBack(Strict({"number"})) /\ ReadsBack(Strict({"PLAYBACK_START"}))
      /\ ReadsBack(Strict(StreamType)) /\ ReadsBack(Strict(PlayerState))
  BY KnownValues, StrictReadsBack
<1>2. /\ ReadsBack(Optional({"number"})) /\ ReadsBack(Optional({"bool"})) /\ ReadsBack(Optional({"object"}))
      /\ ReadsBack(Lenient(String, "none")) /\ ReadsBack(Lenient({"bool"}, "none"))
      /\ ReadsBack(Lenient({"number"}, "none"))
  BY KnownValues, OptionalReadsBack
<1>3. /\ ReadsBack(Lenient(String, ""))
      /\ ReadsBack(Defaulting({"object"}, {"absent"}, "object"))
      /\ ReadsBack(Defaulting({"bool"}, {"absent", "null"}, "bool"))
      /\ ReadsBack(Defaulting(StreamType, Value \ String, "UNKNOWN"))
      /\ ReadsBack(Defaulting({"list", "entries"}, {"absent"}, "list"))
  BY KnownValues, DefaultingReadsBack DEF Lenient
<1>4. ASSUME NEW missing, NEW held, NEW j \in DOMAIN VolumeKeys(missing, held)
      PROVE  /\ j \in {"volume", "volume.level", "volume.muted"}
             /\ j # "volume" => ReadsBack(VolumeKeys(missing, held)[j])
  BY <1>2 DEF VolumeKeys
<1>5. CASE type = "CONNECT"
  <2>1. keys = ConnectKeys
    BY <1>5 DEF KeysOf
  <2> HIDE DEF keys
  <2> QED BY <1>3, <2>1 DEF ConnectKeys, keys
<1>6. CASE type = "LAUNCH"
  <2>1. keys = [j \in {"appId"} |-> Strict(String)]
    BY <1>6 DEF KeysOf
  <2> HIDE DEF keys
  <2> QED BY <1>1, <2>1 DEF keys
<1>7. CASE type = "LAUNCH_ERROR"
  <2>1. keys = LaunchErrorKeys
    BY <1>7 DEF KeysOf
  <2> HIDE DEF keys
  <2> QED BY <1>1, <1>2, <2>1 DEF LaunchErrorKeys, keys
<1>8. CASE type = "SET_VOLUME"
  <2>1. keys = VolumeKeys("object", At(object, "volume"))
    BY <1>8 DEF KeysOf
  <2> HIDE DEF keys
  <2> QED BY <1>4, <2>1 DEF keys
<1>9. CASE type = "RECEIVER_STATUS"
  <2> DEFINE f == ReceiverStatusKeys(At(object, "applications"))
             g == VolumeKeys("none", At(object, "volume"))
  <2>1. keys = With(f, g)
    BY <1>9 DEF KeysOf
  <2>2. \A j \in DOMAIN f : j # "type" /\ ReadsBack(f[j])
    BY <1>1, <1>2, <1>3 DEF ReceiverStatusKeys
  <2> HIDE DEF f
  <2>3. \A j \in DOMAIN g : j # "type" /\ (j # "volume" => ReadsBack(g[j]))
    BY <1>4
  <2> HIDE DEF keys, g
  <2> QED BY <2>1, <2>2, <2>3 DEF With, keys
<1>10. CASE type = "LOAD"
  <2>1. keys = LoadKeys
    BY <1>10 DEF KeysOf
  <2> HIDE DEF keys
  <2> QED BY <1>1, <1>2, <1>3, <2>1 DEF LoadKeys, keys
<1>11. CASE type = "SEEK"
  <2>1. keys = SeekKeys
    BY <1>11 DEF KeysOf
  <2> HIDE DEF keys
  <2> QED BY <1>1, <2>1 DEF SeekKeys, keys
<1>12. CASE type = "MEDIA_STATUS"
  <2> DEFINE f == MediaStatusKeys(At(object, "media"))
             g == VolumeKeys("none", At(object, "volume"))
  <2>1. keys = With(f, g)
    BY <1>12 DEF KeysOf
  <2>2. \A j \in DOMAIN f : j # "type" /\ ReadsBack(f[j])
    BY <1>1, <1>2, <1>3 DEF MediaStatusKeys
  <2> HIDE DEF f
  <2>3. \A j \in DOMAIN g : j # "type" /\ (j # "volume" => ReadsBack(g[j]))
    BY <1>4
  <2> HIDE DEF keys, g
  <2> QED BY <2>1, <2>2, <2>3 DEF With, keys
<1>13. CASE type = "LOAD_FAILED"
  <2>1. keys = [j \in {"reason"} |-> Lenient(String, "")]
    BY <1>13 DEF KeysOf
  <2> HIDE DEF keys
  <2> QED BY <1>3, <2>1 DEF keys
<1>14. CASE type \notin {"CONNECT", "LAUNCH", "LAUNCH_ERROR", "SET_VOLUME", "RECEIVER_STATUS", "LOAD",
                         "SEEK", "MEDIA_STATUS", "LOAD_FAILED"}
  <2>1. keys = <<>>
    BY <1>14 DEF KeysOf
  <2> HIDE DEF keys
  <2>2. DOMAIN keys = {}
    BY <2>1
  <2> QED BY <2>2 DEF keys
<1> QED BY <1>5, <1>6, <1>7, <1>8, <1>9, <1>10, <1>11, <1>12, <1>13, <1>14

(* When the keys of a volume are read, and that nothing else about an object  *)
(* decides which keys are.                                                    *)
HasVolume(missing, held) == held \in {"object", "null"} \/ (held = "absent" /\ missing = "object")

LEMMA VolumeKeysAre ==
  ASSUME NEW missing \in {"object", "none"}, NEW held
  PROVE  VolumeKeys(missing, held) =
           [k \in {"volume"} \cup IF HasVolume(missing, held) THEN {"volume.level", "volume.muted"} ELSE {} |->
              CASE k = "volume"       -> [v \in {"object", "null", "absent"} |->
                                            IF v = "absent" THEN missing ELSE "object"]
                [] k = "volume.level" -> Optional({"number"})
                [] k = "volume.muted" -> Optional({"bool"})]
<1> DEFINE volume == [v \in {"object", "null", "absent"} |-> IF v = "absent" THEN missing ELSE "object"]
           read   == held \in DOMAIN volume /\ volume[held] = "object"
           have   == HasVolume(missing, held)
<1>1. read <=> have
  BY DEF HasVolume
<1>2. VolumeKeys(missing, held) =
           [k \in {"volume"} \cup IF read THEN {"volume.level", "volume.muted"} ELSE {} |->
              CASE k = "volume"       -> volume
                [] k = "volume.level" -> Optional({"number"})
                [] k = "volume.muted" -> Optional({"bool"})]
  BY DEF VolumeKeys
<1> HIDE DEF read, have, volume
<1>3. (IF read THEN {"volume.level", "volume.muted"} ELSE {}) =
      (IF have THEN {"volume.level", "volume.muted"} ELSE {})
  BY <1>1
<1> QED BY <1>2, <1>3 DEF volume, have

LEMMA VolumeKeysHave ==
  ASSUME NEW missing \in {"object", "none"}, NEW held
  PROVE  LET keys == VolumeKeys(missing, held)
         IN  /\ DOMAIN keys =
                  {"volume"} \cup IF HasVolume(missing, held) THEN {"volume.level", "volume.muted"} ELSE {}
             /\ keys["volume"] = [v \in {"object", "null", "absent"} |->
                                    IF v = "absent" THEN missing ELSE "object"]
             /\ \A k \in DOMAIN keys : k # "volume" => keys[k] \in {Optional({"number"}), Optional({"bool"})}
<1> DEFINE keys == VolumeKeys(missing, held)
           D == {"volume"} \cup IF HasVolume(missing, held) THEN {"volume.level", "volume.muted"} ELSE {}
           volume == [v \in {"object", "null", "absent"} |-> IF v = "absent" THEN missing ELSE "object"]
           a == Optional({"number"})
           b == Optional({"bool"})
<1>1. keys = [k \in D |-> CASE k = "volume" -> volume [] k = "volume.level" -> a [] k = "volume.muted" -> b]
  BY VolumeKeysAre
<1>2. "volume" \in D /\ D \subseteq {"volume", "volume.level", "volume.muted"}
  OBVIOUS
<1> HIDE DEF keys, D, volume, a, b
<1>3. DOMAIN keys = D /\ keys["volume"] = volume /\ \A k \in D : k # "volume" => keys[k] \in {a, b}
  BY <1>1, <1>2
<1> QED BY <1>3 DEF keys, D, volume, a, b

LEMMA VolumeKeysAgree ==
  ASSUME NEW missing \in {"object", "none"}, NEW held, NEW other,
         HasVolume(missing, held) <=> HasVolume(missing, other)
  PROVE  VolumeKeys(missing, held) = VolumeKeys(missing, other)
<1>1. (IF HasVolume(missing, held) THEN {"volume.level", "volume.muted"} ELSE {}) =
      (IF HasVolume(missing, other) THEN {"volume.level", "volume.muted"} ELSE {})
  OBVIOUS
<1> QED BY <1>1, VolumeKeysAre

LEMMA StatusKeysAgree ==
  ASSUME NEW a, NEW b
  PROVE  /\ (a = "object" <=> b = "object") => MediaStatusKeys(a) = MediaStatusKeys(b)
         /\ (a = "entries" <=> b = "entries") => ReceiverStatusKeys(a) = ReceiverStatusKeys(b)
<1>1. ASSUME a = "object" <=> b = "object"
      PROVE  MediaStatusKeys(a) = MediaStatusKeys(b)
  <2>1. CASE a = "object"
    BY <1>1, <2>1
  <2>2. CASE a # "object"
    BY <1>1, <2>2 DEF MediaStatusKeys
  <2> QED BY <2>1, <2>2
<1>2. ASSUME a = "entries" <=> b = "entries"
      PROVE  ReceiverStatusKeys(a) = ReceiverStatusKeys(b)
  <2>1. CASE a = "entries"
    BY <1>2, <2>1
  <2>2. CASE a # "entries"
    BY <1>2, <2>2 DEF ReceiverStatusKeys
  <2> QED BY <2>1, <2>2
<1> QED BY <1>1, <1>2

LEMMA KeysAgree ==
  ASSUME NEW type, NEW a, NEW b,
         type = "SET_VOLUME" => (HasVolume("object", At(a, "volume")) <=> HasVolume("object", At(b, "volume"))),
         type \in {"RECEIVER_STATUS", "MEDIA_STATUS"} =>
           (HasVolume("none", At(a, "volume")) <=> HasVolume("none", At(b, "volume"))),
         type = "RECEIVER_STATUS" => (At(a, "applications") = "entries" <=> At(b, "applications") = "entries"),
         type = "MEDIA_STATUS" => (At(a, "media") = "object" <=> At(b, "media") = "object")
  PROVE  KeysOf(type, a) = KeysOf(type, b)
<1>1. CASE type = "SET_VOLUME"
  BY <1>1, VolumeKeysAgree DEF KeysOf
<1>2. CASE type = "RECEIVER_STATUS"
  <2>1. ReceiverStatusKeys(At(a, "applications")) = ReceiverStatusKeys(At(b, "applications"))
    BY <1>2, StatusKeysAgree
  <2>2. VolumeKeys("none", At(a, "volume")) = VolumeKeys("none", At(b, "volume"))
    BY <1>2, VolumeKeysAgree
  <2> QED BY <1>2, <2>1, <2>2 DEF KeysOf
<1>3. CASE type = "MEDIA_STATUS"
  <2>1. MediaStatusKeys(At(a, "media")) = MediaStatusKeys(At(b, "media"))
    BY <1>3, StatusKeysAgree
  <2>2. VolumeKeys("none", At(a, "volume")) = VolumeKeys("none", At(b, "volume"))
    BY <1>3, VolumeKeysAgree
  <2> QED BY <1>3, <2>1, <2>2 DEF KeysOf
<1>4. CASE type \notin {"SET_VOLUME", "RECEIVER_STATUS", "MEDIA_STATUS"}
  BY <1>4 DEF KeysOf
<1> QED BY <1>1, <1>2, <1>3, <1>4

(* What a written payload holds. *)
LEMMA EncodeIs ==
  ASSUME NEW p, IsPayload(p)
  PROVE  /\ "type" \in DOMAIN Encode(p) /\ Encode(p)["type"] = p.type
         /\ \A k \in DOMAIN p.keys :
              At(Encode(p), k) = IF p.keys[k] # "none" THEN p.keys[k]
                                 ELSE IF k \in NullKeys(p.type) THEN "null" ELSE "absent"
         /\ \A k : k # "type" /\ k \notin DOMAIN p.keys => At(Encode(p), k) = "absent"
<1> DEFINE o == Encode(p)
           D == {k \in DOMAIN p.keys : p.keys[k] # "none" \/ k \in NullKeys(p.type)}
<1>1. \A k \in DOMAIN p.keys : k # "type"
  BY KeysReadBack DEF IsPayload
<1>2. /\ DOMAIN o = {"type"} \cup D
      /\ o["type"] = p.type
      /\ \A k \in D : k # "type" => o[k] = IF p.keys[k] = "none" THEN "null" ELSE p.keys[k]
  BY DEF Encode
<1> HIDE DEF o
<1>3. ASSUME NEW k \in DOMAIN p.keys
      PROVE  At(o, k) = IF p.keys[k] # "none" THEN p.keys[k]
                        ELSE IF k \in NullKeys(p.type) THEN "null" ELSE "absent"
  <2>1. k # "type"
    BY <1>1
  <2>2. k \in DOMAIN o <=> p.keys[k] # "none" \/ k \in NullKeys(p.type)
    BY <1>2, <2>1
  <2>3. k \in DOMAIN o => o[k] = IF p.keys[k] = "none" THEN "null" ELSE p.keys[k]
    BY <1>2, <2>1
  <2> QED BY <2>2, <2>3 DEF At
<1>4. ASSUME NEW k, k # "type", k \notin DOMAIN p.keys
      PROVE  At(o, k) = "absent"
  BY <1>2, <1>4 DEF At
<1> QED BY <1>2, <1>3, <1>4 DEF o

LEMMA StatusKeysAre ==
  ASSUME NEW object
  PROVE  /\ LET keys == KeysOf("SET_VOLUME", object)
            IN  /\ "volume" \in DOMAIN keys
                /\ keys["volume"] = [v \in {"object", "null", "absent"} |->
                                       IF v = "absent" THEN "object" ELSE "object"]
         /\ \A type \in {"RECEIVER_STATUS", "MEDIA_STATUS"} :
              LET keys == KeysOf(type, object)
              IN  /\ "volume" \in DOMAIN keys
                  /\ keys["volume"] = [v \in {"object", "null", "absent"} |->
                                         IF v = "absent" THEN "none" ELSE "object"]
         /\ LET keys == KeysOf("RECEIVER_STATUS", object)
            IN  "applications" \in DOMAIN keys
                /\ keys["applications"] = Defaulting({"list", "entries"}, {"absent"}, "list")
         /\ LET keys == KeysOf("MEDIA_STATUS", object)
            IN  "media" \in DOMAIN keys /\ keys["media"] = Optional({"object"})
<1> DEFINE volume(missing) == [v \in {"object", "null", "absent"} |-> IF v = "absent" THEN missing ELSE "object"]
           held == At(object, "volume")
           r == ReceiverStatusKeys(At(object, "applications"))
           m == MediaStatusKeys(At(object, "media"))
           g == VolumeKeys("none", held)
           s == VolumeKeys("object", held)
<1>1. /\ "volume" \in DOMAIN g /\ g["volume"] = volume("none")
      /\ "volume" \in DOMAIN s /\ s["volume"] = volume("object")
  BY VolumeKeysHave
<1>2. /\ "volume" \notin DOMAIN r /\ "applications" \in DOMAIN r
      /\ r["applications"] = Defaulting({"list", "entries"}, {"absent"}, "list")
  BY DEF ReceiverStatusKeys
<1>3. /\ "volume" \notin DOMAIN m /\ "media" \in DOMAIN m
      /\ m["media"] = Optional({"object"})
  BY DEF MediaStatusKeys
<1>4. /\ KeysOf("SET_VOLUME", object) = s
      /\ KeysOf("RECEIVER_STATUS", object) = With(r, g)
      /\ KeysOf("MEDIA_STATUS", object) = With(m, g)
  BY DEF KeysOf
<1> HIDE DEF r, m, g, s, volume, held
<1>5. /\ "volume" \in DOMAIN With(r, g) /\ With(r, g)["volume"] = volume("none")
      /\ "applications" \in DOMAIN With(r, g)
      /\ With(r, g)["applications"] = Defaulting({"list", "entries"}, {"absent"}, "list")
  BY <1>1, <1>2 DEF With
<1>6. /\ "volume" \in DOMAIN With(m, g) /\ With(m, g)["volume"] = volume("none")
      /\ "media" \in DOMAIN With(m, g) /\ With(m, g)["media"] = Optional({"object"})
  BY <1>1, <1>3 DEF With
<1> QED BY <1>1, <1>4, <1>5, <1>6 DEF volume

LEMMA NestedAre ==
  ASSUME NEW p, IsPayload(p)
  PROVE  /\ p.type = "SET_VOLUME" => "volume" \in DOMAIN p.keys /\ p.keys["volume"] = "object"
         /\ p.type \in {"RECEIVER_STATUS", "MEDIA_STATUS"} =>
              "volume" \in DOMAIN p.keys /\ p.keys["volume"] \in {"object", "none"}
         /\ p.type = "RECEIVER_STATUS" =>
              "applications" \in DOMAIN p.keys /\ p.keys["applications"] \in {"list", "entries"}
         /\ p.type = "MEDIA_STATUS" =>
              "media" \in DOMAIN p.keys /\ p.keys["media"] \in {"object", "none"}
<1> DEFINE keys == KeysOf(p.type, p.keys)
<1>1. /\ DOMAIN p.keys = DOMAIN keys
      /\ \A k \in DOMAIN keys : \E v \in DOMAIN keys[k] : p.keys[k] = keys[k][v]
  BY DEF IsPayload
<1> HIDE DEF keys
<1>2. CASE p.type = "SET_VOLUME"
  <2>1. /\ "volume" \in DOMAIN keys
        /\ keys["volume"] = [v \in {"object", "null", "absent"} |->
                               IF v = "absent" THEN "object" ELSE "object"]
    BY <1>2, StatusKeysAre DEF keys
  <2> QED BY <1>1, <1>2, <2>1
<1>3. CASE p.type \in {"RECEIVER_STATUS", "MEDIA_STATUS"}
  <2>1. /\ "volume" \in DOMAIN keys
        /\ keys["volume"] = [v \in {"object", "null", "absent"} |->
                               IF v = "absent" THEN "none" ELSE "object"]
    BY <1>3, StatusKeysAre DEF keys
  <2>2. "volume" \in DOMAIN p.keys /\ p.keys["volume"] \in {"object", "none"}
    BY <1>1, <2>1
  <2>3. ASSUME p.type = "RECEIVER_STATUS"
        PROVE  "applications" \in DOMAIN p.keys /\ p.keys["applications"] \in {"list", "entries"}
    <3>1. "applications" \in DOMAIN keys /\ keys["applications"] = Defaulting({"list", "entries"}, {"absent"}, "list")
      BY <2>3, StatusKeysAre DEF keys
    <3> QED BY <1>1, <3>1 DEF Defaulting
  <2>4. ASSUME p.type = "MEDIA_STATUS"
        PROVE  "media" \in DOMAIN p.keys /\ p.keys["media"] \in {"object", "none"}
    <3>1. "media" \in DOMAIN keys /\ keys["media"] = Optional({"object"})
      BY <2>4, StatusKeysAre DEF keys
    <3> QED BY <1>1, <3>1 DEF Optional, Defaulting
  <2> QED BY <1>3, <2>2, <2>3, <2>4
<1> QED BY <1>2, <1>3

(* The keys that are read in what was written are those that were written,    *)
(* and those of a volume that is there only as null.                          *)
LEMMA KeysComeBack ==
  ASSUME NEW p, IsPayload(p)
  PROVE  LET keys  == KeysOf(p.type, p.keys)
             again == KeysOf(p.type, Encode(p))
         IN  /\ \A k \in DOMAIN keys : k \in DOMAIN again /\ again[k] = keys[k]
             /\ \A k \in DOMAIN again \ DOMAIN keys : "absent" \in DOMAIN again[k]
<1> DEFINE o == Encode(p)
           keys == KeysOf(p.type, p.keys)
           again == KeysOf(p.type, o)
<1>1. \A k \in DOMAIN p.keys : At(p.keys, k) = p.keys[k]
  BY DEF At
<1>2. \A k \in DOMAIN p.keys :
        At(o, k) = IF p.keys[k] # "none" THEN p.keys[k]
                   ELSE IF k \in NullKeys(p.type) THEN "null" ELSE "absent"
  BY EncodeIs
<1> HIDE DEF o
<1>3. CASE ~(p.type = "RECEIVER_STATUS" /\ p.keys["volume"] = "none")
  <2>1. p.type = "SET_VOLUME" =>
          (HasVolume("object", At(p.keys, "volume")) <=> HasVolume("object", At(o, "volume")))
    BY <1>1, <1>2, NestedAre
  <2>2. p.type \in {"RECEIVER_STATUS", "MEDIA_STATUS"} =>
          (HasVolume("none", At(p.keys, "volume")) <=> HasVolume("none", At(o, "volume")))
    BY <1>1, <1>2, <1>3, NestedAre DEF HasVolume, NullKeys
  <2>3. p.type = "RECEIVER_STATUS" =>
          (At(p.keys, "applications") = "entries" <=> At(o, "applications") = "entries")
    BY <1>1, <1>2, NestedAre
  <2>4. p.type = "MEDIA_STATUS" => (At(p.keys, "media") = "object" <=> At(o, "media") = "object")
    BY <1>1, <1>2, NestedAre DEF NullKeys
  <2>5. keys = again
    BY <2>1, <2>2, <2>3, <2>4, KeysAgree
  <2> QED BY <2>5 DEF o
<1>4. CASE p.type = "RECEIVER_STATUS" /\ p.keys["volume"] = "none"
  <2>1. At(p.keys, "volume") = "none" /\ At(o, "volume") = "null"
    BY <1>1, <1>2, <1>4, NestedAre DEF NullKeys
  <2> DEFINE f == ReceiverStatusKeys(At(p.keys, "applications"))
             g == VolumeKeys("none", "none")
             h == VolumeKeys("none", "null")
  <2>2. ReceiverStatusKeys(At(o, "applications")) = f
    BY <1>1, <1>2, <1>4, NestedAre
  <2>3. keys = With(f, g) /\ again = With(f, h)
    BY <1>4, <2>1, <2>2 DEF KeysOf
  <2>4. /\ DOMAIN g = {"volume"} /\ DOMAIN h = {"volume", "volume.level", "volume.muted"}
        /\ g["volume"] = h["volume"]
        /\ \A k \in DOMAIN h : k # "volume" => h[k] \in {Optional({"number"}), Optional({"bool"})}
    <3>1. ~HasVolume("none", "none") /\ HasVolume("none", "null")
      BY DEF HasVolume
    <3> QED BY <3>1, VolumeKeysHave
  <2>5. "absent" \in DOMAIN Optional({"number"}) /\ "absent" \in DOMAIN Optional({"bool"})
    BY DEF Optional, Defaulting
  <2> HIDE DEF f, g, h, keys, again
  <2>6. /\ \A k \in DOMAIN keys : k \in DOMAIN again /\ again[k] = keys[k]
        /\ \A k \in DOMAIN again \ DOMAIN keys : "absent" \in DOMAIN again[k]
    BY <2>3, <2>4, <2>5 DEF With
  <2> QED BY <2>6 DEF keys, again, o
<1> QED BY <1>3, <1>4

(* Every written payload is read again. *)
LEMMA PayloadsAreRead ==
  ASSUME NEW p, IsPayload(p)
  PROVE  PayloadIsRead(p)
<1> DEFINE o == Encode(p)
           keys == KeysOf(p.type, p.keys)
           again == KeysOf(p.type, o)
<1>1. p.namespace \in DOMAIN Types /\ p.type \in Types[p.namespace] /\ DOMAIN p.keys = DOMAIN keys
  BY DEF IsPayload
<1>2. \A k \in DOMAIN keys : \E v \in DOMAIN keys[k] : p.keys[k] = keys[k][v]
  BY DEF IsPayload
<1>3. /\ "type" \in DOMAIN o /\ o["type"] = p.type
      /\ \A k \in DOMAIN keys :
           At(o, k) = IF p.keys[k] # "none" THEN p.keys[k]
                      ELSE IF k \in NullKeys(p.type) THEN "null" ELSE "absent"
      /\ \A k : k # "type" /\ k \notin DOMAIN keys => At(o, k) = "absent"
  BY <1>1, EncodeIs
<1>4. /\ \A k \in DOMAIN keys : k \in DOMAIN again /\ again[k] = keys[k]
      /\ \A k \in DOMAIN again \ DOMAIN keys : "absent" \in DOMAIN again[k]
  BY KeysComeBack
<1>5. \A k \in DOMAIN again : k # "type"
  BY KeysReadBack
<1>6. ASSUME NEW k \in DOMAIN keys
      PROVE  /\ At(o, k) \in DOMAIN keys[k]
             /\ keys[k][At(o, k)] = p.keys[k] \/ (p.type = "RECEIVER_STATUS" /\ k = "volume")
  <2>1. PICK v \in DOMAIN keys[k] : p.keys[k] = keys[k][v]
    BY <1>2
  <2>2. CASE k # "volume"
    <3>1. ReadsBack(keys[k])
      BY <2>2, KeysReadBack
    <3> HIDE DEF keys, o
    <3> QED BY <1>3, <2>1, <3>1 DEF ReadsBack
  <2>3. CASE k = "volume"
    <3>1. p.type \in {"SET_VOLUME", "RECEIVER_STATUS", "MEDIA_STATUS"}
      <4> SUFFICES ASSUME p.type \notin {"SET_VOLUME", "RECEIVER_STATUS", "MEDIA_STATUS"} PROVE FALSE
        OBVIOUS
      <4>1. /\ "volume" \notin DOMAIN ConnectKeys /\ "volume" \notin DOMAIN LaunchErrorKeys
            /\ "volume" \notin DOMAIN LoadKeys /\ "volume" \notin DOMAIN SeekKeys
        BY DEF ConnectKeys, LaunchErrorKeys, LoadKeys, SeekKeys
      <4>2. /\ "volume" \notin DOMAIN [j \in {"appId"} |-> Strict(String)]
            /\ "volume" \notin DOMAIN [j \in {"reason"} |-> Lenient(String, "")]
            /\ "volume" \notin DOMAIN <<>>
        OBVIOUS
      <4>3. keys \in {ConnectKeys, LaunchErrorKeys, LoadKeys, SeekKeys, [j \in {"appId"} |-> Strict(String)],
                      [j \in {"reason"} |-> Lenient(String, "")], <<>>}
        BY DEF KeysOf
      <4> HIDE DEF keys
      <4> QED BY <2>3, <4>1, <4>2, <4>3
    <3>2. CASE p.type = "SET_VOLUME"
      <4>1. keys["volume"] = [w \in {"object", "null", "absent"} |->
                               IF w = "absent" THEN "object" ELSE "object"]
        BY <3>2, StatusKeysAre
      <4> HIDE DEF keys, o
      <4> QED BY <1>3, <2>1, <2>3, <4>1
    <3>3. CASE p.type \in {"RECEIVER_STATUS", "MEDIA_STATUS"}
      <4>1. keys["volume"] = [w \in {"object", "null", "absent"} |->
                               IF w = "absent" THEN "none" ELSE "object"]
        BY <3>3, StatusKeysAre
      <4> HIDE DEF keys, o
      <4> QED BY <1>3, <2>1, <2>3, <3>3, <4>1 DEF NullKeys
    <3> QED BY <3>1, <3>2, <3>3
  <2> QED BY <2>2, <2>3
<1>7. ASSUME NEW k \in DOMAIN again
      PROVE  At(o, k) \in DOMAIN again[k]
  BY <1>3, <1>4, <1>5, <1>6
<1> DEFINE read == Decode(p.namespace, o)
<1> HIDE DEF o, keys
<1>8. read = [verdict |-> "accepted", namespace |-> p.namespace, type |-> p.type,
              keys |-> [k \in DOMAIN again |-> again[k][At(o, k)]]]
  <2>1. KeysOf(o["type"], o) = again
    BY <1>3
  <2> HIDE DEF again
  <2> QED BY <1>1, <1>3, <1>7, <2>1 DEF Decode
<1> HIDE DEF again, read
<1>9. /\ read.verdict = "accepted" /\ read.type = p.type
      /\ \A k \in DOMAIN p.keys :
           /\ k \in DOMAIN read.keys
           /\ read.keys[k] = p.keys[k] \/ (p.type = "RECEIVER_STATUS" /\ k = "volume")
  BY <1>1, <1>4, <1>6, <1>8
<1>10. ASSUME NEW ns \in DOMAIN Types, ns # p.namespace, Decode(ns, o).verdict = "accepted"
       PROVE  p.type \in {"GET_STATUS", "STOP"}
  <2>1. p.type \in Types[ns]
    BY <1>3, <1>10 DEF Decode, Refused
  <2> QED BY <1>1, <1>10, <2>1 DEF Types
<1> QED BY <1>9, <1>10 DEF PayloadIsRead, read, o

(* What was read is a payload that a program can hold: the keys it has are    *)
(* those that are read in it.                                                 *)
LEMMA DecodedIsPayload ==
  ASSUME NEW ns, NEW object, Decode(ns, object).verdict = "accepted"
  PROVE  IsPayload(Decode(ns, object))
<1> DEFINE type == object["type"]
           keys == KeysOf(type, object)
           r == [k \in DOMAIN keys |-> keys[k][At(object, k)]]
           p == Decode(ns, object)
<1>1. /\ ns \in DOMAIN Types /\ type \in Types[ns]
      /\ \A k \in DOMAIN keys : At(object, k) \in DOMAIN keys[k]
      /\ p = [verdict |-> "accepted", namespace |-> ns, type |-> type, keys |-> r]
  BY DEF Decode, Refused
<1> HIDE DEF p
<1>2. p.namespace = ns /\ p.type = type /\ p.keys = r
  BY <1>1
<1>3. \A k \in DOMAIN keys : At(r, k) = keys[k][At(object, k)]
  BY DEF At
<1> HIDE DEF keys, type
<1>4. type = "SET_VOLUME" => (HasVolume("object", At(object, "volume")) <=> HasVolume("object", At(r, "volume")))
  <2> SUFFICES ASSUME type = "SET_VOLUME"
               PROVE  HasVolume("object", At(object, "volume")) /\ HasVolume("object", At(r, "volume"))
    OBVIOUS
  <2>1. /\ "volume" \in DOMAIN keys
        /\ keys["volume"] = [v \in {"object", "null", "absent"} |-> IF v = "absent" THEN "object" ELSE "object"]
    BY StatusKeysAre DEF keys
  <2> HIDE DEF r
  <2> QED BY <1>1, <1>3, <2>1 DEF HasVolume
<1>5. type \in {"RECEIVER_STATUS", "MEDIA_STATUS"} =>
        (HasVolume("none", At(object, "volume")) <=> HasVolume("none", At(r, "volume")))
  <2> SUFFICES ASSUME type \in {"RECEIVER_STATUS", "MEDIA_STATUS"}
               PROVE  HasVolume("none", At(object, "volume")) <=> HasVolume("none", At(r, "volume"))
    OBVIOUS
  <2>1. /\ "volume" \in DOMAIN keys
        /\ keys["volume"] = [v \in {"object", "null", "absent"} |-> IF v = "absent" THEN "none" ELSE "object"]
    BY StatusKeysAre DEF keys
  <2> HIDE DEF r
  <2> QED BY <1>1, <1>3, <2>1 DEF HasVolume
<1>6. type = "RECEIVER_STATUS" => (At(object, "applications") = "entries" <=> At(r, "applications") = "entries")
  <2> SUFFICES ASSUME type = "RECEIVER_STATUS"
               PROVE  At(object, "applications") = "entries" <=> At(r, "applications") = "entries"
    OBVIOUS
  <2>1. "applications" \in DOMAIN keys /\ keys["applications"] = Defaulting({"list", "entries"}, {"absent"}, "list")
    BY StatusKeysAre DEF keys
  <2> HIDE DEF r
  <2> QED BY <1>1, <1>3, <2>1 DEF Defaulting
<1>7. type = "MEDIA_STATUS" => (At(object, "media") = "object" <=> At(r, "media") = "object")
  <2> SUFFICES ASSUME type = "MEDIA_STATUS"
               PROVE  At(object, "media") = "object" <=> At(r, "media") = "object"
    OBVIOUS
  <2>1. "media" \in DOMAIN keys /\ keys["media"] = Optional({"object"})
    BY StatusKeysAre DEF keys
  <2> HIDE DEF r
  <2> QED BY <1>1, <1>3, <2>1 DEF Optional, Defaulting
<1>8. KeysOf(type, r) = keys
  <2> HIDE DEF r
  <2> QED BY <1>4, <1>5, <1>6, <1>7, KeysAgree DEF keys
<1>9. DOMAIN r = DOMAIN keys /\ \A k \in DOMAIN keys : \E v \in DOMAIN keys[k] : r[k] = keys[k][v]
  BY <1>1
<1> HIDE DEF r
<1>10. IsPayload(p)
  BY <1>1, <1>2, <1>8, <1>9 DEF IsPayload
<1> QED BY <1>10 DEF p

(* For every limit, every body of any fields in any order, whatever follows   *)
(* its frame, and every payload (Envelope::decode, Frame::decode and          *)
(* CastPayload::decode against their encoders): a body is accepted exactly    *)
(* when it is well formed, frames are found and never read past their length, *)
(* and payloads come back.                                                    *)
THEOREM CodingTheorem == LinkSpec => []CodingIsExact
<1>1. \A b \in DOMAIN Bodies : BodyIsRead(Bodies[b])
  BY CodingAssumption, BodiesAreRead
<1>2. \A b \in DOMAIN Bodies : \A t \in DOMAIN Tails : FrameIsRead(Bodies[b], Tails[t])
  BY CodingAssumption, FramesAreRead
<1>3. \A p \in Payloads : PayloadIsRead(p)
  BY CodingAssumption, PayloadsAreRead
<1>4. CodingIsExact
  BY <1>1, <1>2, <1>3 DEF CodingIsExact
<1> QED BY <1>4, PTL

(* Whatever the decoder accepts, from any peer, comes back as it is once it   *)
(* is written (CastPayload::decode after CastPayload::encode): the reader's   *)
(* defaults are values that it reads as themselves.                           *)
THEOREM WhatIsReadStays ==
  ASSUME NEW ns, NEW object, Decode(ns, object).verdict = "accepted",
         CanEncode(Decode(ns, object))
  PROVE  PayloadIsRead(Decode(ns, object))
BY DecodedIsPayload, PayloadsAreRead
=============================================================================
