--------------------------- MODULE SessionRegistry ---------------------------
(* The session registry of the runtime (session.rs): the one place where      *)
(* offers are decided and sessions are cancelled, failed and cleaned up.  Its *)
(* callers are many (users, timers, worker supervision) and each call is      *)
(* atomic, so what can go wrong is their order.                               *)
(*                                                                            *)
(* Callers pass the time; `now' is that monotonic clock.  `answers', the      *)
(* `registrations' and `crashed' are ghosts.  Profile and provider names are  *)
(* left out.  Calls that name an unknown id change nothing and are left out.  *)
EXTENDS Naturals, FiniteSets

CONSTANTS Offer, Session, Worker,
          None,              \* Option::None, for a worker or a deadline
          MaxTime,           \* bound on the clock
          MaxRegistrations   \* how often one id is registered: 1 = fresh ids

ASSUME NoneAssumption == None \notin Worker \cup Nat
ASSUME MaxTimeAssumption == MaxTime \in Nat
ASSUME MaxRegistrationsAssumption == MaxRegistrations \in Nat
ASSUME FiniteOffers == IsFiniteSet(Offer)
ASSUME DistinctIds == Offer \cap Session = {}

VARIABLES now,
          offers,              \* offer id -> OfferRecord
          sessions,            \* session id -> SessionRecord
          terminal_decisions,
          cleanups,            \* cleanup events, counted per session
          answers,             \* what the callers were told about an offer
          registrations,       \* how often an id was registered
          crashed              \* the workers that have crashed

registryVars == <<now, offers, sessions, terminal_decisions, cleanups, answers,
                  registrations, crashed>>

-----------------------------------------------------------------------------
(* "absent": the id is not in the map. *)
DecisionState == {"absent", "Pending", "Accepted", "Expired"}
SessionState == {"absent", "Active", "Cancelled", "Failed"}

Decided == {"Accepted", "Expired"}
Ended == {"Cancelled", "Failed"}

Time == 0..MaxTime

OfferRecord == [state : DecisionState, deadline : Time]

SessionRecord == [state : SessionState, worker : Worker \cup {None},
                  deadline : Time \cup {None}]

RegistryInit ==
  /\ now = 0
  /\ offers = [o \in Offer |-> [state |-> "absent", deadline |-> 0]]
  /\ sessions = [s \in Session |->
                   [state |-> "absent", worker |-> None, deadline |-> None]]
  /\ terminal_decisions = 0
  /\ cleanups = [s \in Session |-> 0]
  /\ answers = [o \in Offer |-> {}]
  /\ registrations = [id \in Offer \cup Session |-> 0]
  /\ crashed = {}

(* insert() replaces what was there.                                          *)
Registered(id) ==
  /\ registrations[id] < MaxRegistrations
  /\ registrations' = [registrations EXCEPT ![id] = @ + 1]

-----------------------------------------------------------------------------
RegisterOffer(o) ==
  /\ Registered(o)
  /\ \E deadline \in Time :
       offers' = [offers EXCEPT ![o] = [state |-> "Pending", deadline |-> deadline]]
  /\ UNCHANGED <<now, sessions, terminal_decisions, cleanups, answers, crashed>>

(* A pending offer is decided; a decided one answers as before.               *)
Decide(o, decision) ==
  LET first == offers[o].state = "Pending"
      state == IF first THEN decision ELSE offers[o].state
  IN  /\ offers[o].state # "absent"
      /\ offers' = [offers EXCEPT ![o].state = state]
      /\ terminal_decisions' = terminal_decisions + (IF first THEN 1 ELSE 0)
      /\ answers' = [answers EXCEPT ![o] = @ \cup {state}]
      /\ UNCHANGED <<now, sessions, cleanups, registrations, crashed>>

DecideAccept(o) ==
  Decide(o, IF now > offers[o].deadline THEN "Expired" ELSE "Accepted")

(* expire() does not look at the clock: it may come early.                    *)
Expire(o) == Decide(o, "Expired")

-----------------------------------------------------------------------------
RegisterSession(s) ==
  /\ Registered(s)
  /\ sessions' = [sessions EXCEPT
       ![s] = [state |-> "Active", worker |-> None, deadline |-> None]]
  /\ UNCHANGED <<now, offers, terminal_decisions, cleanups, answers, crashed>>

SetSessionDeadline(s) ==
  /\ sessions[s].state # "absent"
  /\ \E deadline \in Time : sessions' = [sessions EXCEPT ![s].deadline = deadline]
  /\ UNCHANGED <<now, offers, terminal_decisions, cleanups, answers,
                 registrations, crashed>>

AttachWorker(s) ==
  /\ sessions[s].state # "absent"
  /\ \E worker \in Worker : sessions' = [sessions EXCEPT ![s].worker = worker]
  /\ UNCHANGED <<now, offers, terminal_decisions, cleanups, answers,
                 registrations, crashed>>

(* The sessions of `ids' end in `state', with one cleanup event each.         *)
EndSessions(ids, state) ==
  /\ sessions' = [s \in Session |-> IF s \in ids
                                    THEN [sessions[s] EXCEPT !.state = state]
                                    ELSE sessions[s]]
  /\ cleanups' = [s \in Session |-> IF s \in ids THEN cleanups[s] + 1 ELSE cleanups[s]]
  /\ UNCHANGED <<offers, terminal_decisions, answers, registrations>>

Live == {s \in Session : sessions[s].state = "Active"}

(* Mutant: a second cancel cleans up again. *)
CancelAgain(s) ==
  /\ sessions[s].state \in {"Active", "Cancelled"}
  /\ cleanups[s] < 2
  /\ EndSessions({s}, "Cancelled")
  /\ UNCHANGED <<now, crashed>>

(* Cancelling what has ended changes nothing.                                 *)
Cancel(s) ==
  /\ s \in Live
  /\ EndSessions({s}, "Cancelled")
  /\ UNCHANGED <<now, crashed>>

(* Mutant: the worker of a session is not compared. *)
WorkerCrashedFailsAll(worker) ==
  /\ EndSessions(Live, "Failed")
  /\ crashed' = crashed \cup {worker}
  /\ UNCHANGED now

WorkerCrashed(worker) ==
  /\ EndSessions({s \in Live : sessions[s].worker = worker}, "Failed")
  /\ crashed' = crashed \cup {worker}
  /\ UNCHANGED now

Overdue == {s \in Live : sessions[s].deadline # None /\ now > sessions[s].deadline}

Sweep ==
  /\ EndSessions(Overdue, "Failed")
  /\ UNCHANGED <<now, crashed>>

(* The monotonic clock of the callers. *)
Tick ==
  /\ now < MaxTime
  /\ now' = now + 1
  /\ UNCHANGED <<offers, sessions, terminal_decisions, cleanups, answers,
                 registrations, crashed>>

RegistryNext ==
  \/ \E o \in Offer : RegisterOffer(o) \/ DecideAccept(o) \/ Expire(o)
  \/ \E s \in Session : \/ RegisterSession(s)
                        \/ SetSessionDeadline(s)
                        \/ AttachWorker(s)
                        \/ Cancel(s)
  \/ \E worker \in Worker : WorkerCrashed(worker)
  \/ Sweep
  \/ Tick

RegistrySpec == RegistryInit /\ [][RegistryNext]_registryVars

-----------------------------------------------------------------------------
RegistryTypeOK ==
  /\ now \in Time
  /\ offers \in [Offer -> OfferRecord]
  /\ sessions \in [Session -> SessionRecord]
  /\ terminal_decisions \in Nat
  /\ cleanups \in [Session -> Nat]
  /\ answers \in [Offer -> SUBSET Decided]
  /\ registrations \in [Offer \cup Session -> Nat]
  /\ crashed \subseteq Worker

(* Whoever asks about an offer (the user accepting, the timer expiring, in    *)
(* any order and as often as they like) is told the same decision, which is   *)
(* the recorded one; and the registry counted exactly one decision for it     *)
(* (with fresh ids).                                                          *)
OneDecision ==
  /\ \A o \in Offer : answers[o] \subseteq {offers[o].state}
  /\ terminal_decisions = Cardinality({o \in Offer : offers[o].state \in Decided})

(* However a session ends (cancelled, worker crash, deadline, several of them *)
(* at once), its resources are cleaned up once, and never while it is live    *)
(* (with fresh ids).                                                          *)
OneCleanup ==
  \A s \in Session : cleanups[s] = IF sessions[s].state \in Ended THEN 1 ELSE 0

(* Also when ids are used again: every call changes the sessions as Lifecycle *)
(* says, whoever ends them.                                                   *)
Life == INSTANCE Lifecycle WITH Id <- Session, Outcome <- Ended,
                                phase <- [s \in Session |-> sessions[s].state],
                                opened <- [s \in Session |-> registrations[s]],
                                ended <- cleanups

ImplementsLifecycle == Life!Spec

(* Each use of an id is cleaned up at most once, and not before its end.      *)
CleanedUpOncePerUse == Life!EndsOncePerUse

(* A decision and the end of a session are final (with fresh ids).            *)
TerminalIsFinal ==
  [][/\ \A o \in Offer : offers[o].state \in Decided =>
                           offers'[o].state = offers[o].state
     /\ \A s \in Session : sessions[s].state \in Ended =>
                             sessions'[s].state = sessions[s].state]_registryVars

(* Failures are isolated: a session fails only when the worker it is attached *)
(* to has crashed, or when its own deadline has passed.                       *)
FailsForItsOwnReason ==
  [][\A s \in Session :
       sessions'[s].state = "Failed" /\ sessions[s].state # "Failed" =>
         \/ sessions[s].worker \in crashed'
         \/ sessions[s].deadline # None /\ sessions[s].deadline < now]_registryVars
=============================================================================
