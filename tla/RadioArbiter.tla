---------------------------- MODULE RadioArbiter ----------------------------
(* The radio lease arbiter of the platform crate (radio.rs).  Workers ask for *)
(* the Wi-Fi radio or for Wi-Fi Direct, shared or exclusive; the arbiter is   *)
(* the only bookkeeper and never touches the network itself: the injected     *)
(* RadioDriver does, when the user has approved.                              *)
(*                                                                            *)
(* The driver is external: it may fail any call, and three ghost variables    *)
(* keep what it was asked and what it did.  A lease is its number `seq'; reasons and times are    *)
(* left out (nothing is decided from them).                                   *)
EXTENDS Naturals

CONSTANTS Subject,         \* providers and workers that ask for a lease
          MaxLeases,       \* bound on `seq'
          MaxRollbacks,    \* bound on the rollback calls made for one lease
          DriverOutcomes   \* what a driver call may return

ASSUME MaxLeasesAssumption == MaxLeases \in Nat
ASSUME MaxRollbacksAssumption == MaxRollbacks \in Nat
ASSUME DriverOutcomesAssumption == DriverOutcomes \subseteq {"Ok", "Err"}

VARIABLES caps,    \* RadioCapabilities, fixed when the arbiter is built
          seq,     \* leases handed out so far
          leases,  \* the lease records, never removed
          \* ghosts of the external driver
          applies,    \* apply calls, per lease
          rollbacks,  \* rollback calls, per lease
          in_force    \* leases applied and not rolled back since

driver == <<applies, rollbacks, in_force>>
vars == <<caps, seq, leases, driver>>

-----------------------------------------------------------------------------
RadioResource == {"WifiRadio", "WifiDirect"}
LeaseMode == {"Shared", "Exclusive"}
LeaseState == {"Pending", "Granted", "Denied", "Released", "Reclaimed"}

Active == {"Pending", "Granted"}
Terminal == LeaseState \ Active

RadioRequest == [resource : RadioResource, mode : LeaseMode, subject : Subject]

RadioLease == [req : RadioRequest, state : LeaseState, rollback : {"none", "plan"}]

RadioCapabilities == [wifi_radio_present : BOOLEAN, p2p_supported : BOOLEAN]

LeaseId == 1..seq

-----------------------------------------------------------------------------
CheckCapability(req) ==
  /\ caps.wifi_radio_present
  /\ req.resource = "WifiDirect" => caps.p2p_supported

HasActiveConflict(resource) ==
  \E id \in LeaseId : /\ leases[id].req.resource = resource
                      /\ leases[id].state \in Active

(* A new lease at the end of the list. *)
Push(req, state, rollback) ==
  /\ seq < MaxLeases
  /\ seq' = seq + 1
  /\ leases' = [id \in 1..(seq + 1) |->
                  IF id \in LeaseId
                  THEN leases[id]
                  ELSE [req |-> req, state |-> state, rollback |-> rollback]]

(* The driver is called: `apply' for one lease, `rollback' for each of ids.   *)
DriverApply(id) ==
  /\ applies' = [applies EXCEPT ![id] = @ + 1]
  /\ \E ok \in DriverOutcomes :
       in_force' = IF ok = "Ok" THEN in_force \cup {id} ELSE in_force
  /\ UNCHANGED rollbacks

DriverRollback(ids) ==
  /\ rollbacks' = [id \in 1..MaxLeases |->
                     IF id \in ids THEN rollbacks[id] + 1 ELSE rollbacks[id]]
  /\ \E ok \in [ids -> DriverOutcomes] :
       in_force' = in_force \ {id \in ids : ok[id] = "Ok"}
  /\ UNCHANGED applies

-----------------------------------------------------------------------------
Init ==
  /\ caps \in RadioCapabilities
  /\ seq = 0
  /\ leases = <<>>
  /\ applies = [id \in 1..MaxLeases |-> 0]
  /\ rollbacks = [id \in 1..MaxLeases |-> 0]
  /\ in_force = {}

(* Mutant: nobody looks at the leases that are active. *)
RequestUnchecked(req) ==
  /\ CheckCapability(req)
  /\ Push(req, "Granted", "none")
  /\ UNCHANGED <<caps, driver>>

(* A request without the user: granted at once, with nothing to roll back.    *)
(* Only an exclusive request looks at the leases that are already active.     *)
Request(req) ==
  /\ CheckCapability(req)
  /\ req.mode = "Exclusive" => ~HasActiveConflict(req.resource)
  /\ Push(req, "Granted", "none")
  /\ UNCHANGED <<caps, driver>>

RequestPending(req) ==
  /\ CheckCapability(req)
  /\ Push(req, "Pending", "none")
  /\ UNCHANGED <<caps, driver>>

RequestDenied(req) ==
  /\ CheckCapability(req)
  /\ Push(req, "Denied", "none")
  /\ UNCHANGED <<caps, driver>>

(* The lease is recorded before the driver is called: when the driver fails   *)
(* the caller gets the error and the lease stays Granted.                     *)
RequestUserGranted(req) ==
  /\ CheckCapability(req)
  /\ Push(req, "Granted", "plan")
  /\ DriverApply(seq + 1)
  /\ UNCHANGED caps

Approve(id) ==
  /\ leases[id].state = "Pending"
  /\ leases' = [leases EXCEPT ![id].state = "Granted", ![id].rollback = "plan"]
  /\ DriverApply(id)
  /\ UNCHANGED <<caps, seq>>

Deny(id) ==
  /\ leases[id].state = "Pending"
  /\ leases' = [leases EXCEPT ![id].state = "Denied"]
  /\ UNCHANGED <<caps, seq, driver>>

(* The rollback runs when the lease is Released *after* the step, so a lease  *)
(* that was Released before is rolled back once more.                         *)
Release(id) ==
  /\ leases[id].state \in {"Granted", "Released"}
  /\ leases' = [leases EXCEPT ![id].state = "Released"]
  /\ IF leases[id].rollback = "plan"
     THEN rollbacks[id] < MaxRollbacks /\ DriverRollback({id})
     ELSE UNCHANGED driver
  /\ UNCHANGED <<caps, seq>>

(* Mutant: a reclaimed lease keeps its network change. *)
WorkerExitWithoutRollback(subject) ==
  /\ leases' = [id \in LeaseId |->
                  IF leases[id].req.subject # subject
                  THEN leases[id]
                  ELSE IF leases[id].state = "Granted"
                  THEN [leases[id] EXCEPT !.state = "Reclaimed"]
                  ELSE IF leases[id].state = "Pending"
                  THEN [leases[id] EXCEPT !.state = "Denied"]
                  ELSE leases[id]]
  /\ UNCHANGED <<caps, seq, driver>>

(* The exit of a worker: its granted leases are reclaimed, its pending ones   *)
(* denied, and a failing rollback is ignored.                                 *)
WorkerExit(subject) ==
  LET mine == {id \in LeaseId : leases[id].req.subject = subject}
      reclaimed == {id \in mine : leases[id].state = "Granted"}
      to_rollback == {id \in reclaimed : leases[id].rollback = "plan"}
  IN  /\ leases' = [id \in LeaseId |->
                      IF id \in reclaimed
                      THEN [leases[id] EXCEPT !.state = "Reclaimed"]
                      ELSE IF id \in mine /\ leases[id].state = "Pending"
                      THEN [leases[id] EXCEPT !.state = "Denied"]
                      ELSE leases[id]]
      /\ DriverRollback(to_rollback)
      /\ UNCHANGED <<caps, seq>>

Next ==
  \/ \E req \in RadioRequest : \/ Request(req)
                               \/ RequestPending(req)
                               \/ RequestDenied(req)
                               \/ RequestUserGranted(req)
  \/ \E id \in LeaseId : Approve(id) \/ Deny(id) \/ Release(id)
  \/ \E subject \in Subject : WorkerExit(subject)

Spec == Init /\ [][Next]_vars

-----------------------------------------------------------------------------
TypeOK ==
  /\ caps \in RadioCapabilities
  /\ seq \in 0..MaxLeases
  /\ leases \in [LeaseId -> RadioLease]
  /\ applies \in [1..MaxLeases -> Nat]
  /\ rollbacks \in [1..MaxLeases -> Nat]
  /\ in_force \subseteq LeaseId

(* The driver has been called for a lease exactly as the records say: applied *)
(* once when the user approved it (and a plan was recorded), never otherwise, *)
(* and rolled back only after the lease was given up.  This is the promise    *)
(* "the network changes only after approval" across every path that creates,  *)
(* approves, denies, releases or reclaims a lease.                            *)
DriverFollowsApproval ==
  /\ \A id \in LeaseId :
       /\ applies[id] = IF leases[id].rollback = "plan" THEN 1 ELSE 0
       /\ leases[id].rollback = "plan" =>
            leases[id].state \in {"Granted", "Released", "Reclaimed"}
       /\ rollbacks[id] > 0 =>
            /\ leases[id].rollback = "plan"
            /\ leases[id].state \in {"Released", "Reclaimed"}
  /\ \A id \in (1..MaxLeases) \ LeaseId : applies[id] = 0 /\ rollbacks[id] = 0

(* A network change in force always has its rollback plan, and outlives its   *)
(* lease only when the rollback was tried and failed: no way of giving a      *)
(* lease up (release, or the exit of its worker) forgets a change.            *)
NoForgottenChange ==
  \A id \in in_force : /\ leases[id].rollback = "plan"
                       /\ leases[id].state = "Granted" \/ rollbacks[id] > 0

(* An exclusive lease granted without the user never coexists with an older   *)
(* lease of its resource that is still granted or pending ("an exclusive      *)
(* request does not silently preempt").                                       *)
NoSilentPreemption ==
  \A id \in LeaseId :
    /\ leases[id].state = "Granted"
    /\ leases[id].req.mode = "Exclusive"
    /\ leases[id].rollback = "none"
    => \A older \in 1..(id - 1) :
         leases[older].req.resource = leases[id].req.resource =>
           leases[older].state \notin Active

(* A lease that was denied, released or reclaimed keeps that state, and no    *)
(* step changes what a lease was asked for.                                   *)
DecisionsAreFinal ==
  [][\A id \in LeaseId :
       /\ leases[id].state \in Terminal => leases'[id].state = leases[id].state
       /\ leases'[id].req = leases[id].req]_vars

-----------------------------------------------------------------------------
(* What comments and documents say and the code does not do: README section 7 *)
(* tells why each of these does not hold.                                     *)

(* What the header of radio.rs says of a rollback: it is called once, when    *)
(* the lease is released or reclaimed.                                        *)
RollbackAtMostOnce == \A id \in LeaseId : rollbacks[id] =< 1

(* What the doc comment of LeaseMode::Exclusive says: an exclusive lease      *)
(* needs the user's approval and a rollback plan.                             *)
ExclusiveNeedsApproval ==
  \A id \in LeaseId :
    leases[id].state = "Granted" /\ leases[id].req.mode = "Exclusive" =>
      leases[id].rollback = "plan"
=============================================================================
