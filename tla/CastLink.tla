------------------------------ MODULE CastLink ------------------------------
(* A Cast sender and what is at the other end of its channel.  With "any"     *)
(* peer the sender gets whatever CastController allows.  With "ours" the peer *)
(* is this project's receiver: the channel keeps the order of the messages    *)
(* both ways, another sender uses the same receiver, and the host, which the  *)
(* repository only shows in its demonstration, passes messages on.            *)
EXTENDS CastController, CastReceiver

CONSTANTS Apps, Configured,   \* what the sender may launch, what the receiver runs
          MaxUnderWay,        \* bound on the messages in one direction
          MaxSenders          \* bound on connected_senders for another sender to connect

ASSUME LinkAssumption ==
  /\ Configured \subseteq Apps /\ "none" \notin Apps
  /\ MaxUnderWay \in Nat \ {0} /\ MaxSenders \in Nat

VARIABLES peer, receiver,
          toReceiver, toSender,   \* messages under way
          told,     \* the app the sender's transport_id is of
          missed,   \* the last status came too late for its request
          parted    \* some sender has closed

link == <<peer, receiver, toReceiver, toSender, told, missed, parted>>
linkVars == <<vars, link>>

Message(type, id, app) == [type |-> type, id |-> id, app |-> app]
Unasked == 0   \* no requestId

LinkInit ==
  /\ Init
  /\ peer \in {"any", "ours"}
  /\ \E kind \in {"vendor", "test-root"} :
        /\ IF peer = "any" THEN kind = "vendor" ELSE gate = "open"
        /\ receiver = NewReceiver(kind, Configured)
  /\ toReceiver = <<>> /\ toSender = <<>>
  /\ told = NoApp /\ missed = FALSE /\ parted = FALSE

-----------------------------------------------------------------------------
(* The sender's calls, each with the message it leaves.                       *)
Sends(type, app) ==
  /\ IF peer = "any" THEN UNCHANGED toReceiver
     ELSE /\ Len(toReceiver) < MaxUnderWay
          /\ toReceiver' = Append(toReceiver, Message(type, requests + 1, app))
  /\ UNCHANGED <<peer, receiver, toSender>>

LinkConnect == Connect /\ Sends("CONNECT", NoApp) /\ UNCHANGED <<told, missed, parted>>

LinkLaunch ==
  \E app \in Apps :
    Launch /\ Sends("LAUNCH", [id |-> app, sender |-> 0]) /\ UNCHANGED <<told, missed, parted>>

LinkLoad == \E u \in Url : Load(u) /\ Sends("LOAD", told) /\ UNCHANGED <<told, missed, parted>>
LinkCommand == MediaCommand /\ Sends("PLAY", told) /\ UNCHANGED <<told, missed, parted>>
LinkStop == Stop /\ Sends("STOP", told) /\ UNCHANGED <<told, missed, parted>>

LinkClose == Close /\ Sends("CLOSE", NoApp) /\ parted' = (peer = "ours") /\ UNCHANGED <<told, missed>>

(* A heartbeat has no id, and only one of them is kept under way.             *)
LinkTick ==
  /\ Tick
  /\ IF peer = "ours" /\ PingDue /\ gate = "open"
     THEN LET beat == Message("PING", Unasked, NoApp)
          IN  IF beat \in {toReceiver[i] : i \in DOMAIN toReceiver}
              THEN UNCHANGED toReceiver
              ELSE Len(toReceiver) < MaxUnderWay /\ toReceiver' = Append(toReceiver, beat)
     ELSE UNCHANGED toReceiver
  /\ UNCHANGED <<peer, receiver, toSender, told, missed, parted>>

LinkWait == Wait /\ UNCHANGED link

FromAnyone == peer = "any" /\ (OnMessage \/ OnRefused) /\ UNCHANGED link

-----------------------------------------------------------------------------
(* What the sender does with a message of this receiver.                      *)
Reacts(m) ==
  CASE m.type = "CONNECTED"                         -> OnConnected
    [] m.type = "PONG"                              -> OnOther
    [] m.type = "RECEIVER_STATUS" /\ m.app # NoApp  -> OnAppRunning
    [] m.type = "RECEIVER_STATUS" /\ m.app = NoApp  -> OnAppGone
    [] m.type = "LAUNCH_ERROR"                      -> OnLaunchError
    [] m.type = "MEDIA_PLAYING"                     -> OnMediaPlaying
    [] m.type = "MEDIA_IDLE"                        -> OnMediaIdle
    [] m.type = "LOAD_FAILED"                       -> OnLoadFailed

SenderTakes ==
  /\ toSender # <<>>
  /\ LET m == Head(toSender)
     IN  IF m.id # Unasked /\ \A p \in pending : p.id # m.id
         THEN /\ OnRefused /\ UNCHANGED told
              /\ missed' = (missed \/ m.type = "RECEIVER_STATUS")
         ELSE /\ heardAge' = 0
              /\ IF m.id = Unasked THEN UNCHANGED <<pending, settled>> ELSE Answered(m.id)
              /\ Reacts(m)
              /\ told' = IF transport' = "none" THEN NoApp
                         ELSE IF m.type = "RECEIVER_STATUS" THEN m.app ELSE told
              /\ missed' = (missed /\ m.type # "RECEIVER_STATUS")
              /\ UNCHANGED <<gate, requests, sentAge, behind>>
  /\ toSender' = Tail(toSender)
  /\ UNCHANGED <<peer, receiver, toReceiver, parted>>

-----------------------------------------------------------------------------
(* What the receiver does with a message of the sender: its new state, and    *)
(* the answer, if any.                                                        *)
Becomes(r, answers) ==
  /\ receiver' = r
  /\ toSender' = toSender \o answers

TakesConnect(m) ==
  \E versioned \in BOOLEAN :
    Becomes(OnReceiverConnect(receiver),
            IF Admits(receiver) /\ versioned
            THEN <<Message("CONNECTED", m.id, NoApp)>> ELSE <<>>)

ReceiverStatus(r, id) == Message("RECEIVER_STATUS", id, r.app)

TakesLaunchOf(m) ==
  LET r == OnReceiverLaunch(receiver, m.app.id)
  IN  Becomes(r, IF ~TakesLaunch(receiver) THEN <<>>
                 ELSE IF m.app.id \in receiver.apps THEN <<ReceiverStatus(r, m.id)>>
                 ELSE <<Message("LAUNCH_ERROR", m.id, NoApp)>>)

TakesPing ==
  Becomes(receiver, IF AnswersPing(receiver)
                    THEN <<Message("PONG", Unasked, NoApp)>> ELSE <<>>)

(* The app itself is not of this project: it answers when it runs.            *)
AppTakes(m) ==
  IF m.app = NoApp \/ m.app # receiver.app THEN Becomes(receiver, <<>>)
  ELSE \E type \in CASE m.type = "LOAD" -> {"MEDIA_PLAYING", "LOAD_FAILED"}
                     [] m.type = "PLAY" -> {"MEDIA_PLAYING"}
                     [] m.type = "STOP" -> {"MEDIA_IDLE"} :
         Becomes(receiver, <<Message(type, m.id, NoApp)>>)

ReceiverTakes ==
  /\ toReceiver # <<>> /\ Len(toSender) < MaxUnderWay
  /\ LET m == Head(toReceiver)
     IN  \/ m.type = "CONNECT" /\ TakesConnect(m)
         \/ m.type = "LAUNCH" /\ TakesLaunchOf(m)
         \/ m.type = "PING" /\ TakesPing
         \/ m.type = "CLOSE" /\ Becomes(OnReceiverClose(receiver), <<>>)
         \/ m.type \in {"LOAD", "PLAY", "STOP"} /\ AppTakes(m)
  /\ toReceiver' = Tail(toReceiver)
  /\ UNCHANGED <<vars, peer, told, missed, parted>>

(* The receiver's host: it learns that the senders trust the test root, and   *)
(* may tell the status at any time.                                           *)
LearnTrust ==
  /\ peer = "ours"
  /\ receiver' = NoteSenderTrust(receiver, TRUE)
  /\ UNCHANGED <<vars, peer, toReceiver, toSender, told, missed, parted>>

TellStatus ==
  /\ peer = "ours" /\ toSender = <<>>
  /\ Becomes(receiver, <<ReceiverStatus(receiver, Unasked)>>)
  /\ UNCHANGED <<vars, peer, toReceiver, told, missed, parted>>

(* Another sender.  Every sender is told of an app that was launched; of a    *)
(* CLOSE nobody is.                                                           *)
OtherConnects ==
  /\ peer = "ours" /\ Admits(receiver) /\ receiver.senders < MaxSenders
  /\ receiver' = OnReceiverConnect(receiver)
  /\ UNCHANGED <<vars, peer, toReceiver, toSender, told, missed, parted>>

OtherLaunches ==
  /\ peer = "ours" /\ TakesLaunch(receiver) /\ toSender = <<>>
  /\ \E app \in receiver.apps :
       LET r == OnReceiverLaunch(receiver, app)
       IN  Becomes(r, <<ReceiverStatus(r, Unasked)>>)
  /\ UNCHANGED <<vars, peer, toReceiver, told, missed, parted>>

OtherCloses ==
  /\ peer = "ours" /\ receiver.senders > 0
  /\ receiver' = OnReceiverClose(receiver)
  /\ parted' = TRUE
  /\ UNCHANGED <<vars, peer, toReceiver, toSender, told, missed>>

LinkNext ==
  \/ LinkConnect \/ LinkLaunch \/ LinkLoad \/ LinkCommand \/ LinkStop \/ LinkClose
  \/ LinkTick \/ LinkWait \/ FromAnyone
  \/ SenderTakes \/ ReceiverTakes
  \/ LearnTrust \/ TellStatus \/ OtherConnects \/ OtherLaunches \/ OtherCloses

LinkSpec == LinkInit /\ [][LinkNext]_linkVars

(* Time passes, the caller keeps calling tick, and the channel delivers.      *)
FairLinkSpec ==
  /\ LinkSpec
  /\ WF_linkVars(LinkTick) /\ WF_linkVars(LinkWait)
  /\ WF_linkVars(SenderTakes) /\ WF_linkVars(ReceiverTakes)

-----------------------------------------------------------------------------
(* With nothing under way and no CLOSE so far, the sender and the receiver    *)
(* agree: a launched sender has a transport, a connected sender has a         *)
(* receiver that admits it, and the transport the sender holds is that of the *)
(* running app, unless the status that said so was given up before it came.   *)
AgreeWhenQuiet ==
  peer = "ours" /\ ~parted /\ toReceiver = <<>> /\ toSender = <<>> =>
    /\ told # NoApp => told = receiver.app \/ missed
    /\ state = "Launched" => told # NoApp
    /\ state \in {"Connected", "Launched"} => receiver.state \in {"Connected", "Launched"}

(* What a sender discovers is how it is: the advert of the receiver in any    *)
(* state is read by both readers, by the sender's whatever the case of its    *)
(* keys, with its id and its name (the sender's without the blanks around     *)
(* it), and it says busy exactly while an app runs, also after further        *)
(* senders have connected.                                                    *)
AdvertTellsTheTruth ==
  \A name \in {"room", "_room_"} :
    LET info == FromState(receiver, "uuid", name)
        txt  == ToTxt(info)
    IN  /\ ReadsOwn(txt) /\ FromTxt(txt) = info
        /\ \A service \in Services, heard \in {txt, InCapitals(txt)} :
              /\ Discovers(service, heard)
              /\ Discovered(heard) = [id |-> "uuid", fn |-> "room", ca |-> 0,
                                      busy |-> receiver.app # NoApp]

-----------------------------------------------------------------------------
(* What comments and documents say and the code does not do: README section 7 *)
(* tells why each of these does not hold.                                     *)

(* on_close: no half-open session is left; the other senders still have one.  *)
NobodyIsLeftBehind ==
  peer = "ours" /\ ~missed /\ toReceiver = <<>> /\ toSender = <<>> /\ told # NoApp =>
    told = receiver.app

(* A launch that is answered late is still known to the sender.               *)
LateStatusIsHeard ==
  peer = "ours" /\ ~parted /\ toReceiver = <<>> /\ toSender = <<>> /\ told # NoApp =>
    told = receiver.app

(* status: a receiver that stands by runs no app.                             *)
StandByRunsNothing == StandBy(receiver) => receiver.app = NoApp

(* The capabilities that are advertised are those that are discovered.        *)
CapabilitiesAreRead ==
  \A ca \in DOMAIN Decimal :
    Discovered(ToTxt([FromState(receiver, "uuid", "room") EXCEPT !.ca = ca])).ca = ca
=============================================================================
