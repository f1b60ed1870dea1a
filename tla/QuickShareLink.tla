--------------------------- MODULE QuickShareLink ---------------------------
(* Two Quick Share sessions (session.rs) that make a UKEY2 handshake          *)
(* (handshake.rs) over a byte stream cut into chunks anywhere (framing.rs),   *)
(* compare the four digits they show, open the payload gate, and exchange     *)
(* sealed messages (secure_message.rs) under the keys of the handshake.       *)
(*                                                                            *)
(* A frame is its type and what differs from what its sender put in it: the   *)
(* random value, the public key (or the commitment to it), or its shape,      *)
(* which stands for every field the decoders and handlers check.  The hash    *)
(* functions are taken to be injective, the four digits included.             *)
EXTENDS Naturals, SequencesExt

CONSTANTS Body,         \* plaintexts
          None,         \* no value
          Deadline,     \* HANDSHAKE_TIMEOUT_MS
          MaxTime,      \* bound on the clock
          MaxFaults,    \* bound on the frames altered or repeated in transit
          MaxSealed,    \* bound on the messages sealed at the two ends
          MaxPayloads   \* bound on the payloads counted at each end

ASSUME LinkAssumption ==
  /\ Deadline \in Nat
  /\ MaxTime \in Nat
  /\ MaxFaults \in Nat
  /\ MaxSealed \in Nat
  /\ MaxPayloads \in Nat

VARIABLES now, session, net, chunk, jammed, faults,
          channel, wire, sealed, opened

handshake == <<session, chunk, jammed>>
secure == <<channel, wire, sealed, opened>>
vars == <<now, session, net, chunk, jammed, faults, channel, wire, sealed, opened>>

-----------------------------------------------------------------------------
Role == {"client", "server"}

Peer(r) == IF r = "client" THEN "server" ELSE "client"

Ukey2MessageType == {"ClientInit", "ServerInit", "ClientFinish", "Alert"}

(* "Malformed" does not decode as a UKEY2 message, and "BadLength" stands for *)
(* a length prefix the framing refuses.                                       *)
Frame == [type : Ukey2MessageType \cup {"Malformed", "BadLength"},
          altered : {{}, {"random"}, {"key"}, {"shape"}}]

AsSent(type) == [type |-> type, altered |-> {}]

(* Mutant: the derived keys do not depend on the ServerInit that was seen. *)
SessionKeysWithoutReply(finish, m1, m2) ==
  [shared |-> <<finish.altered \cap {"key"}, {}>>, m1 |-> m1, m2 |-> AsSent("ServerInit")]

(* The keys depend on the two public keys and on the two opening messages,    *)
(* each as the deriving end saw them.                                         *)
SessionKeys(finish, m1, m2) ==
  [shared |-> <<finish.altered \cap {"key"}, m2.altered \cap {"key"}>>, m1 |-> m1, m2 |-> m2]

Keys == [shared : (SUBSET {"key"}) \X (SUBSET {"key"}), m1 : Frame, m2 : Frame]

ASSUME NoneAssumption == None \notin Frame /\ None \notin Keys

Session ==
  [state : {"Start", "Waiting", "Established"},   \* Waiting: InitSent, InitReceived
   m1 : Frame \cup {None}, m2 : Frame \cup {None}, keys : Keys \cup {None},
   started : 0..MaxTime \cup {None},
   dead : BOOLEAN, confirmed : BOOLEAN, payloads : 0..MaxPayloads]

(* The key schedule gives each direction keys of its own.                     *)
SecureMessage ==
  [keys : Keys, by : Role, sequence : 1..MaxSealed, body : Body]

-----------------------------------------------------------------------------
Init ==
  /\ now = 0
  /\ session = [r \in Role |->
       [state |-> "Start", m1 |-> None, m2 |-> None, keys |-> None, started |-> None,
        dead |-> FALSE, confirmed |-> FALSE, payloads |-> 0]]
  /\ net = [r \in Role |-> <<>>]
  /\ chunk = [r \in Role |-> <<>>]
  /\ jammed = [r \in Role |-> FALSE]
  /\ faults = 0
  /\ channel = [r \in Role |-> [send_sequence |-> 1, expected_sequence |-> 1]]
  /\ wire = {}
  /\ sealed = [r \in Role |-> <<>>]
  /\ opened = [r \in Role |-> <<>>]

(* client_init: the client counts its deadline from 0 on the caller's clock.  *)
ClientInit ==
  /\ session["client"].state = "Start"
  /\ session' = [session EXCEPT !["client"].state = "Waiting",
                                !["client"].m1 = AsSent("ClientInit"),
                                !["client"].started = 0]
  /\ net' = [net EXCEPT !["server"] = Append(@, AsSent("ClientInit"))]
  /\ UNCHANGED <<now, chunk, jammed, faults, secure>>

-----------------------------------------------------------------------------
(* feed(now, chunk): the next frames of the stream, as many as have arrived.  *)
Taken(r, n) ==
  /\ chunk[r] = <<>>
  /\ net' = [net EXCEPT ![r] = SubSeq(@, n + 1, Len(@))]

Started(r) == IF session[r].started = None THEN now ELSE session[r].started

(* Mutant: the deadline is over when it is reached. *)
LateAtDeadline(r) ==
  session[r].state # "Established" /\ now - Started(r) >= Deadline

(* Mutant: the deadline is looked at only when the frames decode. *)
LateUnlessJammed(r) ==
  session[r].state # "Established" /\ now - Started(r) > Deadline /\ ~jammed[r]

Late(r) == session[r].state # "Established" /\ now - Started(r) > Deadline

FeedDead(r, n) ==
  /\ Taken(r, n)
  /\ session[r].dead
  /\ UNCHANGED <<now, handshake, faults, secure>>

FeedLate(r, n) ==
  /\ Taken(r, n)
  /\ ~session[r].dead
  /\ Late(r)
  /\ session' = [session EXCEPT ![r].started = Started(r), ![r].dead = TRUE]
  /\ UNCHANGED <<now, chunk, jammed, faults, secure>>

(* A refused length is an error of the call and stays in the buffer; the      *)
(* frames taken out before it are gone.                                       *)
FeedRefused(r, n) ==
  /\ Taken(r, n)
  /\ ~session[r].dead
  /\ ~Late(r)
  /\ jammed[r] \/ \E i \in 1..n : net[r][i].type = "BadLength"
  /\ session' = [session EXCEPT ![r].started = Started(r)]
  /\ jammed' = [jammed EXCEPT ![r] = TRUE]
  /\ UNCHANGED <<now, chunk, faults, secure>>

Feed(r, n) ==
  /\ Taken(r, n)
  /\ ~session[r].dead
  /\ ~Late(r)
  /\ ~jammed[r] /\ \A i \in 1..n : net[r][i].type # "BadLength"
  /\ session' = [session EXCEPT ![r].started = Started(r)]
  /\ chunk' = [chunk EXCEPT ![r] = SubSeq(net[r], 1, n)]
  /\ UNCHANGED <<now, jammed, faults, secure>>

-----------------------------------------------------------------------------
AcceptsClientInit(frame) ==
  /\ frame.type = "ClientInit"
  /\ session["server"].state = "Start"
  /\ "shape" \notin frame.altered

OnClientInit(frame) ==
  /\ AcceptsClientInit(frame)
  /\ session' = [session EXCEPT !["server"].state = "Waiting",
                                !["server"].m1 = frame,
                                !["server"].m2 = AsSent("ServerInit")]
  /\ net' = [net EXCEPT !["client"] = Append(@, AsSent("ServerInit"))]

(* The commitment first: it was made in the ClientInit that was answered.     *)
AcceptsClientFinish(frame) ==
  /\ frame.type = "ClientFinish"
  /\ session["server"].state = "Waiting"
  /\ "key" \in frame.altered <=> "key" \in session["server"].m1.altered
  /\ "shape" \notin frame.altered

OnClientFinish(frame) ==
  /\ AcceptsClientFinish(frame)
  /\ session' = [session EXCEPT !["server"].state = "Established",
                                !["server"].keys = SessionKeys(frame, session["server"].m1, session["server"].m2)]
  /\ UNCHANGED net

AcceptsServerInit(frame) ==
  /\ frame.type = "ServerInit"
  /\ session["client"].state = "Waiting"
  /\ "shape" \notin frame.altered

OnServerInit(frame) ==
  /\ AcceptsServerInit(frame)
  /\ session' = [session EXCEPT
       !["client"].state = "Established",
       !["client"].m2 = frame,
       !["client"].keys = SessionKeys(AsSent("ClientFinish"), session["client"].m1, frame)]
  /\ net' = [net EXCEPT !["server"] = Append(@, AsSent("ClientFinish"))]

(* Anything else is answered with an alert, and the session is over.          *)
OnUnexpected(r, frame) ==
  /\ ~ IF r = "client" THEN AcceptsServerInit(frame)
                       ELSE AcceptsClientInit(frame) \/ AcceptsClientFinish(frame)
  /\ session' = [session EXCEPT ![r].dead = TRUE]
  /\ UNCHANGED net

(* The frames of a chunk are handled one after the other, and an alert does   *)
(* not stop the loop: `dead` is read again only by the next call.             *)
FeedFrame(r) ==
  /\ chunk[r] # <<>>
  /\ LET frame == Head(chunk[r])
     IN  \/ r = "server" /\ (OnClientInit(frame) \/ OnClientFinish(frame))
         \/ r = "client" /\ OnServerInit(frame)
         \/ OnUnexpected(r, frame)
  /\ chunk' = [chunk EXCEPT ![r] = Tail(@)]
  /\ UNCHANGED <<now, jammed, faults, secure>>

-----------------------------------------------------------------------------
(* The user types the digits the other device shows, or others.               *)
ConfirmCode(r) ==
  /\ session[r].keys # None
  /\ \E typed \in {session[Peer(r)].keys, None} :
       session' = [session EXCEPT ![r].confirmed = typed = session[r].keys]
  /\ UNCHANGED <<now, net, chunk, jammed, faults, secure>>

DeliverPayload(r) ==
  /\ session[r].state = "Established"
  /\ ~session[r].dead
  /\ session[r].confirmed
  /\ session[r].payloads < MaxPayloads
  /\ session' = [session EXCEPT ![r].payloads = @ + 1]
  /\ UNCHANGED <<now, net, chunk, jammed, faults, secure>>

-----------------------------------------------------------------------------
Seal(r, body) ==
  /\ session[r].keys # None
  /\ channel[r].send_sequence + channel[Peer(r)].send_sequence =< MaxSealed + 1
  /\ wire' = wire \cup {[keys |-> session[r].keys, by |-> r,
                         sequence |-> channel[r].send_sequence, body |-> body]}
  /\ channel' = [channel EXCEPT ![r].send_sequence = @ + 1]
  /\ sealed' = [sealed EXCEPT ![r] = Append(@, body)]
  /\ UNCHANGED <<now, session, net, chunk, jammed, faults, opened>>

(* Mutant: only a number that was used before is refused. *)
InSequenceOrLater(r, message) == message.sequence >= channel[r].expected_sequence

InSequence(r, message) == message.sequence = channel[r].expected_sequence

(* Any message that was ever sent may arrive, in any order and again.  One    *)
(* that was altered fails its HMAC, and one of the wrong direction or of      *)
(* another handshake fails it too; a refused message changes nothing.         *)
Open(r, message) ==
  /\ session[r].keys # None
  /\ message.keys = session[r].keys /\ message.by = Peer(r)
  /\ InSequence(r, message)
  /\ channel' = [channel EXCEPT ![r].expected_sequence = @ + 1]
  /\ opened' = [opened EXCEPT ![r] = Append(@, message.body)]
  /\ UNCHANGED <<now, session, net, chunk, jammed, faults, wire, sealed>>

-----------------------------------------------------------------------------
(* A frame in transit is altered, or arrives a second time, altered or not.   *)
Disturb(r) ==
  /\ faults < MaxFaults
  /\ faults' = faults + 1
  /\ \E i \in DOMAIN net[r], frame \in Frame :
       \/ /\ frame.type = net[r][i].type
          /\ \/ net' = [net EXCEPT ![r][i] = frame]
             \/ net' = [net EXCEPT ![r] = Append(@, frame)]
       \/ /\ frame \in {AsSent("Alert"), AsSent("Malformed"), AsSent("BadLength")}
          /\ net' = [net EXCEPT ![r][i] = frame]
  /\ UNCHANGED <<now, handshake, secure>>

Tick ==
  /\ now < MaxTime
  /\ now' = now + 1
  /\ UNCHANGED <<handshake, net, faults, secure>>

Next ==
  \/ ClientInit
  \/ \E r \in Role :
       \/ \E n \in 0..Len(net[r]) :
            FeedDead(r, n) \/ FeedLate(r, n) \/ FeedRefused(r, n) \/ Feed(r, n)
       \/ FeedFrame(r)
       \/ ConfirmCode(r)
       \/ DeliverPayload(r)
       \/ \E body \in Body : Seal(r, body)
       \/ \E message \in wire : Open(r, message)
       \/ Disturb(r)
  \/ Tick

Spec == Init /\ [][Next]_vars

(* Time passes, a running call continues, and the embedding calls feed from   *)
(* time to time even when nothing has arrived: nothing else looks at the      *)
(* deadline.                                                                  *)
FairSpec ==
  /\ Spec
  /\ WF_vars(Tick)
  /\ \A r \in Role : WF_vars(FeedFrame(r)) /\ WF_vars(FeedLate(r, 0))

-----------------------------------------------------------------------------
TypeOK ==
  /\ now \in 0..MaxTime
  /\ session \in [Role -> Session]
  /\ net \in [Role -> Seq(Frame)]
  /\ chunk \in [Role -> Seq(Frame)]
  /\ jammed \in [Role -> BOOLEAN]
  /\ faults \in 0..MaxFaults
  /\ channel \in [Role -> [send_sequence : 1..(MaxSealed + 1),
                            expected_sequence : 1..(MaxSealed + 1)]]
  /\ wire \subseteq SecureMessage
  /\ sealed \in [Role -> Seq(Body)]
  /\ opened \in [Role -> Seq(Body)]

(* When one user has compared the digits, both ends saw the same two opening  *)
(* messages, whatever was altered or repeated in transit; no payload is       *)
(* counted before (T19-01, T20-01).                                           *)
ConfirmedSawTheSame ==
  \A r \in Role :
    session[r].confirmed \/ session[r].payloads > 0 =>
      /\ session["client"].m1 = session["server"].m1
      /\ session["client"].m2 = session["server"].m2

(* The messages a handshake is bound to and its keys never change again: a    *)
(* replayed message does not restart it (T20-02).                             *)
HandshakeIsOnce ==
  [][\A r \in Role :
       /\ session[r].m1 # None => session'[r].m1 = session[r].m1
       /\ session[r].m2 # None => session'[r].m2 = session[r].m2
       /\ session[r].keys # None => session'[r].keys = session[r].keys]_vars

(* Once a session has ended no payload is counted, though it stays            *)
(* established and confirmed, and its keys remain.                            *)
EndedDeliversNothing ==
  [][\A r \in Role :
       session[r].dead =>
         session'[r].dead /\ session'[r].payloads = session[r].payloads]_vars

(* However the stream is cut into chunks and whatever the ends do meanwhile,  *)
(* a handshake with nothing altered in transit is not ended before its time.  *)
HonestPeersSurvive ==
  \A r \in Role : session[r].dead => faults > 0 \/ now > Deadline

(* What an end has opened is what the other sealed, in order and without      *)
(* gaps, whatever is lost, repeated or reordered, and in no case what it      *)
(* sealed itself or what was sealed under another handshake.                  *)
OpenedIsPrefix == \A r \in Role : IsPrefix(opened[r], sealed[Peer(r)])

(* A session that was started is established or ended, even when its stream   *)
(* has become undecodable; of those started so late that the bound on the     *)
(* clock comes before their deadline nothing is said.                         *)
HandshakeSettles ==
  \A r \in Role :
    session[r].started # None /\ session[r].started + Deadline < MaxTime ~>
      session[r].dead \/ session[r].state = "Established"
=============================================================================
