------------------------------- MODULE LocalApi -------------------------------
(* The local control API: the daemon that serves one connection after the     *)
(* other (interopd/src/main.rs), the frames (frame.rs), the state of a        *)
(* connection (server.rs) and the tokens (auth.rs).                           *)
(*                                                                            *)
(* A frame is a request that some action handles, or it ends the connection   *)
(* (Dropped); the wording of answers is left out.                             *)
EXTENDS Naturals, FiniteSets

CONSTANTS Client, Token, ApiScope, None,
          Held,         \* the scopes of each token in the daemon's file
          ApiVersion,   \* pairs of numbers that clients ask for
          Width,        \* 2^32: the width to which the numbers are cut
          MaxAnswers    \* bound

ASSUME LocalApiAssumption ==
  /\ None \notin Client \cup Token
  /\ DOMAIN Held \subseteq Token
  /\ ApiVersion \subseteq Nat \X Nat
  /\ {Width, MaxAnswers} \subseteq Nat /\ Width > 0

VARIABLES served,     \* the client whose connection the daemon reads from
          waiting,    \* clients whose connections have not been accepted
          conn,       \* IpcConnection
          answered,   \* ghost: which scopes were used by whom, and after which hello
          hello       \* ghost: the hello that was accepted on each client's connection

apiVars == <<served, waiting, conn, answered, hello>>

-----------------------------------------------------------------------------
Fresh == [state |-> "PreHello", granted_scopes |-> {}]

LocalApiInit ==
  /\ served = None
  /\ waiting = {}
  /\ conn = Fresh
  /\ answered = {}
  /\ hello = [c \in Client |-> {}]

(* The kernel keeps the connections that are not yet accepted. *)
Listening == conn.state # "Gone"

ConnectTo(c) ==
  /\ Listening /\ c \notin waiting /\ c # served
  /\ waiting' = waiting \cup {c}
  /\ hello' = [hello EXCEPT ![c] = {}]
  /\ UNCHANGED <<served, conn, answered>>

(* Mutant: one connection state for all clients. *)
AcceptAsBefore(c) ==
  /\ Listening /\ served = None /\ c \in waiting
  /\ served' = c /\ waiting' = waiting \ {c}
  /\ UNCHANGED <<conn, answered, hello>>

Accept(c) ==
  /\ Listening /\ served = None /\ c \in waiting
  /\ served' = c /\ waiting' = waiting \ {c}
  /\ conn' = Fresh
  /\ UNCHANGED <<answered, hello>>

(* The daemon goes on to the next connection: the stream has ended, a frame   *)
(* is cut short, its length is refused, its body is not a request, or the     *)
(* connection was closed by an earlier answer.                                *)
Dropped ==
  /\ served # None
  /\ served' = None
  /\ UNCHANGED <<waiting, conn, answered, hello>>

Handles == served # None /\ conn.state # "Closed"

Compatible(version) ==
  /\ version[1] % Width = 0
  /\ version[2] % Width = 1

HelloRefused(version, t) ==
  /\ Handles
  /\ \/ conn.state = "Ready"
     \/ Compatible(version) /\ t \notin DOMAIN Held
  /\ UNCHANGED apiVars

HelloOtherVersion(version) ==
  /\ Handles /\ conn.state = "PreHello"
  /\ ~Compatible(version)
  /\ conn' = [conn EXCEPT !.state = "Closed"]
  /\ UNCHANGED <<served, waiting, answered, hello>>

HelloAccepted(version, t, requested) ==
  /\ Handles /\ conn.state = "PreHello"
  /\ Compatible(version) /\ t \in DOMAIN Held
  /\ conn' = [state |-> "Ready", granted_scopes |-> requested \cap Held[t]]
  /\ hello' = [hello EXCEPT ![served] = {[token |-> t, version |-> version]}]
  /\ UNCHANGED <<served, waiting, answered>>

(* "ping" and "capabilities.list" need no scope; others, and any method       *)
(* before hello, are answered with an error.                                  *)
Answered(scope) ==
  /\ Handles /\ conn.state = "Ready"
  /\ scope \in conn.granted_scopes
  /\ Cardinality(answered) < MaxAnswers
  /\ answered' = answered \cup {[client |-> served, scope |-> scope, after |-> hello[served]]}
  /\ UNCHANGED <<served, waiting, conn, hello>>

(* The id of a request and the name of an unknown method come back in the     *)
(* answer: one that does not fit a frame ends the daemon (encode_frame).      *)
AnswerTooLong ==
  /\ Handles
  /\ conn' = [Fresh EXCEPT !.state = "Gone"]
  /\ served' = None
  /\ UNCHANGED <<waiting, answered, hello>>

LocalApiNext ==
  \/ \E c \in Client : ConnectTo(c) \/ Accept(c)
  \/ Dropped
  \/ \E version \in ApiVersion, t \in Token, requested \in SUBSET ApiScope :
       HelloRefused(version, t) \/ HelloOtherVersion(version) \/ HelloAccepted(version, t, requested)
  \/ \E scope \in ApiScope : Answered(scope)
  \/ AnswerTooLong

LocalApiSpec == LocalApiInit /\ [][LocalApiNext]_apiVars

FairLocalApiSpec == LocalApiSpec /\ \A c \in Client : WF_apiVars(Accept(c))

-----------------------------------------------------------------------------
LocalApiTypeOK ==
  /\ served \in Client \cup {None} /\ waiting \subseteq Client
  /\ conn.state \in {"PreHello", "Ready", "Closed", "Gone"}
  /\ conn.granted_scopes \subseteq ApiScope

(* server.rs T09-03: whatever connections came before, and whatever each of   *)
(* them sent in which order, a method that needs a scope is answered only to  *)
(* a client that has itself said hello on this connection, with a token that  *)
(* holds the scope.                                                           *)
ScopesAreOwn ==
  /\ LocalApiTypeOK
  /\ \A a \in answered : \E h \in a.after : a.scope \in Held[h.token]

-----------------------------------------------------------------------------
(* What comments and documents say and the code does not do: README section 7 *)
(* tells why each of these does not hold.                                     *)

(* server.rs T09-04: a client of another version is refused.                  *)
OtherVersionsAreRefused ==
  \A c \in Client : \A h \in hello[c] : h.version = <<0, 1>>

(* frame.rs: what is answered fits a frame.                                   *)
AnswersFit == Listening

(* interopd: under the fairness that the daemon accepts when it can, a client *)
(* that has connected is served in the end.                                   *)
EveryoneIsServed == \A c \in Client : (c \in waiting) ~> (c = served)
=============================================================================
