---------------------------- MODULE CastController ----------------------------
(* The sender of a Cast session (proto-cast, controller.rs): the channel gate,*)
(* the app launch, one media URL at a time, requests with timeouts, and the   *)
(* heartbeat.  The receiver's messages arrive late, repeated, with the id of  *)
(* a pending request, with none or with one that is no longer pending.        *)
(* Clock readings are ages: how long ago something happened, up to a cap.     *)
EXTENDS Integers, FiniteSets

CONSTANTS Url, NoUrl,
          RequestTimeout, HeartbeatPing, HeartbeatExpiry,
          MaxRequests   \* bound on request ids

ASSUME CastAssumption ==
  /\ NoUrl \notin Url
  /\ {RequestTimeout, HeartbeatPing, HeartbeatExpiry, MaxRequests} \subseteq Nat

VARIABLES gate,      \* what ensure_open answers: UnavailableGate or a test's gate
          state,
          pending,   \* requests without an answer: id and age
          requests,  \* request_id
          transport, \* transport_id
          media,     \* media_session_id
          url,       \* media_url
          sentAge, heardAge,   \* since last_outbound_ms and last_inbound_ms
          settled,   \* how often a request was answered or reported timed out
          lent,      \* URLs that were loaded and not reported released
          behind     \* what kinds of messages left while the gate was closed

session == <<state, transport, media, url, lent>>
vars == <<gate, session, pending, requests, sentAge, heardAge, settled, behind>>

-----------------------------------------------------------------------------
ControllerState == {"Idle", "Connecting", "Connected", "Launching", "Launched",
                    "MediaSession", "Ended"}
Never == -1
RequestId == 1..MaxRequests
Pending == [id : RequestId, age : 0..(RequestTimeout + 1)]

TypeOK ==
  /\ gate \in {"open", "closed"}
  /\ state \in ControllerState
  /\ pending \subseteq Pending
  /\ requests \in 0..MaxRequests
  /\ transport \in {"none", "known"} /\ media \in {"none", "known"}
  /\ url \in Url \cup {NoUrl} /\ lent \subseteq Url
  /\ sentAge \in Never..HeartbeatPing
  /\ heardAge \in Never..(HeartbeatExpiry + 1)
  /\ settled \in [RequestId -> Nat]
  /\ behind \subseteq {"request", "CLOSE", "PING", "PONG"}

Init ==
  /\ gate \in {"open", "closed"}
  /\ state = "Idle"
  /\ pending = {} /\ requests = 0
  /\ transport = "none" /\ media = "none"
  /\ url = NoUrl /\ lent = {}
  /\ sentAge = Never /\ heardAge = Never
  /\ settled = [id \in RequestId |-> 0]
  /\ behind = {}

-----------------------------------------------------------------------------
Leaves(kind) == behind' = IF gate = "closed" THEN behind \cup {kind} ELSE behind

(* A request leaves with the next id and waits for its answer.                *)
Emit ==
  /\ gate = "open"
  /\ requests < MaxRequests
  /\ requests' = requests + 1
  /\ pending' = pending \cup {[id |-> requests + 1, age |-> 0]}
  /\ sentAge' = 0
  /\ Leaves("request")
  /\ UNCHANGED <<gate, heardAge, settled>>

EmitMedia == transport = "known" /\ Emit

ReleaseUrl == url' = NoUrl /\ lent' = lent \ {url}
KeepUrl == UNCHANGED <<url, lent>>

Connect ==
  /\ state = "Idle"
  /\ Emit
  /\ state' = "Connecting"
  /\ KeepUrl /\ UNCHANGED <<transport, media>>

Launch ==
  /\ state = "Connected"
  /\ Emit
  /\ state' = "Launching"
  /\ KeepUrl /\ UNCHANGED <<transport, media>>

Load(u) ==
  /\ state = "Launched"
  /\ EmitMedia
  /\ url' = u
  /\ lent' = lent \cup {u}
  /\ UNCHANGED <<state, transport, media>>

(* play, pause and seek *)
MediaCommand ==
  /\ state = "MediaSession"
  /\ EmitMedia
  /\ UNCHANGED session

Stop ==
  /\ state = "MediaSession"
  /\ EmitMedia
  /\ ReleaseUrl
  /\ media' = "none"
  /\ UNCHANGED <<state, transport>>

(* CLOSE takes an id and waits for nothing.                                   *)
Close ==
  /\ gate = "open"
  /\ requests < MaxRequests
  /\ requests' = requests + 1
  /\ ReleaseUrl
  /\ state' = "Ended"
  /\ pending' = {}
  /\ Leaves("CLOSE")
  /\ UNCHANGED <<gate, transport, media, sentAge, heardAge, settled>>

-----------------------------------------------------------------------------
OnConnected ==
  /\ state' = IF state = "Connecting" THEN "Connected" ELSE state
  /\ KeepUrl /\ UNCHANGED <<transport, media>>

OnClose ==
  /\ state' = "Ended"
  /\ ReleaseUrl /\ UNCHANGED <<transport, media>>

(* RECEIVER_STATUS with an app: whatever the state was, short of a media      *)
(* session, the app now counts as launched.                                   *)
OnAppRunning ==
  /\ transport' = "known"
  /\ state' = IF state = "MediaSession" THEN state ELSE "Launched"
  /\ KeepUrl /\ UNCHANGED media

OnAppGone ==
  IF state \in {"Launched", "MediaSession"}
  THEN /\ state' = "Connected"
       /\ transport' = "none" /\ media' = "none"
       /\ ReleaseUrl
  ELSE UNCHANGED session

OnLaunchError ==
  /\ state' = "Connected"
  /\ transport' = "none"
  /\ KeepUrl /\ UNCHANGED media

OnMediaPlaying ==
  /\ state' = "MediaSession"
  /\ media' \in {"none", "known"}
  /\ KeepUrl /\ UNCHANGED transport

OnMediaIdle ==
  /\ state' = "MediaSession"
  /\ media' = "none"
  /\ ReleaseUrl /\ UNCHANGED transport

OnLoadFailed == ReleaseUrl /\ UNCHANGED <<state, transport, media>>

(* PONG, and what is not for a sender *)
OnOther == UNCHANGED session

(* A PING is answered at once, without a look at the gate.                    *)
OnPing == UNCHANGED session /\ Leaves("PONG")

(* Any message answers the pending request whose id it carries, before its    *)
(* content is looked at.                                                      *)
Answered(id) ==
  /\ pending' = {p \in pending : p.id # id}
  /\ settled' = [settled EXCEPT ![id] = @ + 1]

OnMessage ==
  /\ heardAge' = 0
  /\ \/ \E p \in pending : Answered(p.id)
     \/ UNCHANGED <<pending, settled>>
  /\ \/ /\ \/ OnConnected \/ OnClose \/ OnAppRunning \/ OnAppGone \/ OnLaunchError
           \/ OnMediaPlaying \/ OnMediaIdle \/ OnLoadFailed \/ OnOther
        /\ UNCHANGED behind
     \/ OnPing
  /\ UNCHANGED <<gate, requests, sentAge>>

(* A message that is malformed or answers no pending request.                 *)
OnRefused ==
  /\ heardAge' = 0
  /\ UNCHANGED <<gate, session, pending, requests, sentAge, settled, behind>>

-----------------------------------------------------------------------------
Overdue == {p \in pending : p.age > RequestTimeout}
Beating == state \in {"Connected", "Launched", "MediaSession"}
Silent == heardAge > HeartbeatExpiry

PingDue == Beating /\ sentAge >= HeartbeatPing

(* Mutant: overdue requests are only looked at while the heartbeat runs.      *)
TimeOutBeating ==
  IF Beating
  THEN /\ pending' = pending \ Overdue
       /\ settled' = [id \in RequestId |-> IF id \in {p.id : p \in Overdue}
                                           THEN settled[id] + 1 ELSE settled[id]]
  ELSE UNCHANGED <<pending, settled>>

TimeOut ==
  /\ pending' = pending \ Overdue
  /\ settled' = [id \in RequestId |-> IF id \in {p.id : p \in Overdue}
                                      THEN settled[id] + 1 ELSE settled[id]]

(* Request timeouts, then the heartbeat, then the end of a silent channel.  A *)
(* closed gate fails the tick at the heartbeat.                               *)
Tick ==
  /\ state \notin {"Idle", "Ended"}
  /\ IF PingDue /\ gate = "closed"
     THEN TimeOut /\ UNCHANGED <<session, sentAge, behind>>
     ELSE /\ IF PingDue THEN sentAge' = 0 /\ Leaves("PING") ELSE UNCHANGED <<sentAge, behind>>
          /\ IF Beating /\ Silent
             THEN /\ state' = "Ended"
                  /\ pending' = {}
                  /\ settled' = [id \in RequestId |-> IF id \in {p.id : p \in Overdue}
                                                      THEN settled[id] + 1 ELSE settled[id]]
                  /\ ReleaseUrl /\ UNCHANGED <<transport, media>>
             ELSE TimeOut /\ UNCHANGED session
  /\ UNCHANGED <<gate, requests, heardAge>>

Older(age, cap) == IF age \in {Never, cap} THEN age ELSE age + 1

(* Time passes. *)
Wait ==
  /\ pending' = {[id |-> p.id, age |-> Older(p.age, RequestTimeout + 1)] : p \in pending}
  /\ sentAge' = Older(sentAge, HeartbeatPing)
  /\ heardAge' = Older(heardAge, HeartbeatExpiry + 1)
  /\ UNCHANGED <<gate, session, requests, settled, behind>>

Next ==
  \/ Connect \/ Launch \/ (\E u \in Url : Load(u))
  \/ MediaCommand \/ Stop \/ Close
  \/ OnMessage \/ OnRefused
  \/ Tick \/ Wait

Spec == Init /\ [][Next]_vars

(* The caller keeps calling tick, and time passes.                            *)
FairSpec == Spec /\ WF_vars(Tick) /\ WF_vars(Wait)

-----------------------------------------------------------------------------
(* T43-01: behind the production gate no command leaves, nor a heartbeat or a *)
(* CLOSE, whatever the receiver sends and however far that moves the state:   *)
(* nothing but the PONG that answers its PING.                                *)
GateClosedSendsNothing ==
  gate = "closed" => requests = 0 /\ lent = {} /\ behind \subseteq {"PONG"}

(* T43-02: where a LOAD is possible the app has a transport: a launch that    *)
(* failed is never taken for one that succeeded.                              *)
LaunchedHasTransport == state = "Launched" => transport = "known"

(* T43-03: an ended session holds no URL.                                     *)
EndedHoldsNoUrl == state = "Ended" => url = NoUrl

(* A request is settled at most once: a late answer and its timeout do not    *)
(* both count, and while it is pending neither has.                           *)
SettledOnce ==
  \A id \in RequestId :
    /\ settled[id] =< 1
    /\ (\E p \in pending : p.id = id) => settled[id] = 0

(* Every request is answered or times out, unless the session ends.           *)
RequestsSettle ==
  \A id \in RequestId :
    (\E p \in pending : p.id = id) ~>
      ((\A p \in pending : p.id # id) \/ state = "Ended")

-----------------------------------------------------------------------------
(* What comments and documents say and the code does not do: README section 7 *)
(* tells why each of these does not hold.                                     *)

(* emit: a session that ended sends no commands any more.                     *)
EndedIsFinal == [][state = "Ended" => state' = "Ended"]_vars

(* T43-03: when the app is gone the URL is released.                          *)
UrlNeedsApp == url # NoUrl => state \in {"Launched", "MediaSession"}

(* T43-03: a URL that was loaded is held, or was reported released.           *)
UrlsAreAccounted == lent \subseteq {url}

(* tick: a window without any inbound message ends the session.               *)
SilentChannelEnds ==
  (state \notin {"Idle", "Ended"} /\ (heardAge = Never \/ Silent)) ~>
    (state \in {"Idle", "Ended"} \/ ~(heardAge = Never \/ Silent))
=============================================================================
