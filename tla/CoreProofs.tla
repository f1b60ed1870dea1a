----------------------------- MODULE CoreProofs -----------------------------
(* What the arbiter, the registry and the event bus of interop-runtime keep,  *)
(* each for any values of its constants: RadioArbiter for every set of        *)
(* subjects, every number of leases and whatever the driver answers;          *)
(* SessionRegistry for any number of offers, sessions, workers and any clock, *)
(* ids used again included, and more when every id is registered at most once *)
(* (MaxRegistrations = 1); EventBus for any number of events, sizes and       *)
(* limits.                                                                    *)
EXTENDS RadioArbiter, SessionRegistry, EventBus, FiniteSetTheorems, TLAPS

-----------------------------------------------------------------------------
(* RadioArbiter.                                                              *)

(* What the driver was asked, what it still holds, and who holds the radio    *)
(* alone: inductive together.                                                 *)
RadioInv == /\ TypeOK
            /\ DriverFollowsApproval
            /\ NoForgottenChange
            /\ NoSilentPreemption

-----------------------------------------------------------------------------
(* A push adds the lease seq + 1 and leaves the others as they are.           *)
LEMMA PushAdds ==
  ASSUME TypeOK,
         NEW req \in RadioRequest, NEW state \in LeaseState,
         NEW rollback \in {"none", "plan"}, Push(req, state, rollback)
  PROVE  /\ seq' = seq + 1
         /\ seq' \in 0..MaxLeases
         /\ leases' \in [LeaseId' -> RadioLease]
         /\ \A id \in LeaseId : leases'[id] = leases[id]
         /\ leases'[seq + 1] =
              [req |-> req, state |-> state, rollback |-> rollback]
         /\ seq + 1 \in (1..MaxLeases) \ LeaseId
         /\ LeaseId' = LeaseId \cup {seq + 1}
<1> USE MaxLeasesAssumption
<1>1. seq \in Nat /\ seq + 1 =< MaxLeases /\ seq' = seq + 1
  BY DEF TypeOK, Push
<1>2. LeaseId' = LeaseId \cup {seq + 1} /\ seq + 1 \in (1..MaxLeases) \ LeaseId
  BY <1>1 DEF LeaseId
<1>3. LeaseId' = 1..(seq + 1)
  BY <1>1 DEF LeaseId
<1>4. [req |-> req, state |-> state, rollback |-> rollback] \in RadioLease
  BY DEF RadioLease
<1>5. leases' \in [LeaseId' -> RadioLease]
  BY <1>2, <1>3, <1>4 DEF TypeOK, Push
<1>6. /\ \A id \in LeaseId : leases'[id] = leases[id]
      /\ leases'[seq + 1] =
              [req |-> req, state |-> state, rollback |-> rollback]
  BY <1>2, <1>3 DEF Push
<1> QED
  BY <1>1, <1>2, <1>5, <1>6

(* The two driver calls count for the leases they name and for no other.      *)
LEMMA ApplyCounts ==
  ASSUME applies \in [1..MaxLeases -> Nat], rollbacks \in [1..MaxLeases -> Nat],
         NEW id \in 1..MaxLeases, DriverApply(id)
  PROVE  /\ applies' \in [1..MaxLeases -> Nat]
         /\ rollbacks' = rollbacks
         /\ applies'[id] = applies[id] + 1
         /\ \A i \in 1..MaxLeases : i # id => applies'[i] = applies[i]
         /\ in_force \subseteq in_force'
         /\ in_force' \subseteq in_force \cup {id}
  BY DEF DriverApply

LEMMA RollbackCounts ==
  ASSUME applies \in [1..MaxLeases -> Nat], rollbacks \in [1..MaxLeases -> Nat],
         NEW ids \in SUBSET (1..MaxLeases), DriverRollback(ids)
  PROVE  /\ rollbacks' \in [1..MaxLeases -> Nat]
         /\ applies' = applies
         /\ \A i \in ids : rollbacks'[i] = rollbacks[i] + 1
         /\ \A i \in (1..MaxLeases) \ ids : rollbacks'[i] = rollbacks[i]
         /\ in_force' \subseteq in_force
         /\ in_force \ ids \subseteq in_force'
  BY DEF DriverRollback

-----------------------------------------------------------------------------
(* A lease recorded without a driver call (granted without the user, pending, *)
(* or denied) keeps the invariant, when a granted exclusive one has no older  *)
(* rival.                                                                     *)
LEMMA PushWithoutDriver ==
  ASSUME RadioInv,
         NEW req \in RadioRequest, NEW state \in {"Granted", "Pending", "Denied"},
         state = "Granted" /\ req.mode = "Exclusive" =>
            ~HasActiveConflict(req.resource),
         Push(req, state, "none"), UNCHANGED <<caps, driver>>
  PROVE  RadioInv'
<1> USE MaxLeasesAssumption
<1> DEFINE new == seq + 1
<1>1. TypeOK /\ state \in LeaseState
  BY DEF RadioInv, LeaseState
<1>2. /\ seq' = seq + 1
      /\ seq' \in 0..MaxLeases
      /\ leases' \in [LeaseId' -> RadioLease]
      /\ \A id \in LeaseId : leases'[id] = leases[id]
      /\ leases'[new] = [req |-> req, state |-> state, rollback |-> "none"]
      /\ new \in (1..MaxLeases) \ LeaseId
      /\ LeaseId' = LeaseId \cup {new}
  BY <1>1, PushAdds
<1>3. applies' = applies /\ rollbacks' = rollbacks /\ in_force' = in_force /\ caps' = caps
  BY DEF driver
<1>4. TypeOK'
  BY <1>1, <1>2, <1>3 DEF TypeOK
<1>5. DriverFollowsApproval'
  BY <1>2, <1>3 DEF RadioInv, DriverFollowsApproval
<1>6. NoForgottenChange'
  BY <1>1, <1>2, <1>3 DEF RadioInv, NoForgottenChange, TypeOK
<1>7. NoSilentPreemption'
  <2> SUFFICES ASSUME NEW id \in LeaseId',
                      leases'[id].state = "Granted",
                      leases'[id].req.mode = "Exclusive",
                      leases'[id].rollback = "none",
                      NEW older \in 1..(id - 1),
                      leases'[older].req.resource = leases'[id].req.resource
               PROVE  leases'[older].state \notin Active
    BY DEF NoSilentPreemption
  <2>1. older \in LeaseId
    BY <1>1, <1>2 DEF LeaseId, TypeOK
  <2>2. CASE id = new
    BY <1>2, <2>1, <2>2 DEF HasActiveConflict
  <2>3. CASE id \in LeaseId
    BY <1>2, <2>1, <2>3 DEF RadioInv, NoSilentPreemption
  <2> QED
    BY <1>2, <2>2, <2>3
<1> QED
  BY <1>4, <1>5, <1>6, <1>7 DEF RadioInv

-----------------------------------------------------------------------------
LEMMA RequestUserGrantedKeeps ==
  ASSUME RadioInv, NEW req \in RadioRequest, RequestUserGranted(req)
  PROVE  RadioInv'
<1> USE MaxLeasesAssumption
<1> DEFINE new == seq + 1
<1>1. TypeOK
  BY DEF RadioInv
<1>2. /\ seq' = seq + 1
      /\ seq' \in 0..MaxLeases
      /\ leases' \in [LeaseId' -> RadioLease]
      /\ \A id \in LeaseId : leases'[id] = leases[id]
      /\ leases'[new] = [req |-> req, state |-> "Granted", rollback |-> "plan"]
      /\ new \in (1..MaxLeases) \ LeaseId
      /\ LeaseId' = LeaseId \cup {new}
  BY <1>1, PushAdds DEF RequestUserGranted, LeaseState
<1>3. /\ applies' \in [1..MaxLeases -> Nat]
      /\ rollbacks' = rollbacks
      /\ applies'[new] = applies[new] + 1
      /\ \A i \in 1..MaxLeases : i # new => applies'[i] = applies[i]
      /\ in_force \subseteq in_force'
      /\ in_force' \subseteq in_force \cup {new}
  BY <1>1, <1>2, ApplyCounts DEF RequestUserGranted, TypeOK
<1>4. TypeOK'
  BY <1>1, <1>2, <1>3 DEF RequestUserGranted, TypeOK
<1>5. DriverFollowsApproval'
  <2>1. applies[new] = 0 /\ rollbacks[new] = 0
    BY <1>2 DEF RadioInv, DriverFollowsApproval
  <2>2. LeaseId \subseteq 1..MaxLeases
    BY <1>1 DEF TypeOK, LeaseId
  <2> QED
    BY <1>2, <1>3, <2>1, <2>2 DEF RadioInv, DriverFollowsApproval
<1>6. NoForgottenChange'
  BY <1>1, <1>2, <1>3 DEF RadioInv, NoForgottenChange, TypeOK
<1>7. NoSilentPreemption'
  <2>1. ASSUME NEW id \in LeaseId', leases'[id].rollback = "none"
        PROVE  /\ id \in LeaseId
               /\ \A older \in 1..(id - 1) : older \in LeaseId
    BY <1>1, <1>2, <2>1 DEF TypeOK, LeaseId
  <2> QED
    BY <1>2, <2>1 DEF RadioInv, NoSilentPreemption
<1> QED
  BY <1>4, <1>5, <1>6, <1>7 DEF RadioInv

LEMMA ApproveKeeps ==
  ASSUME RadioInv, NEW id \in LeaseId, Approve(id)
  PROVE  RadioInv'
<1> USE MaxLeasesAssumption
<1>1. TypeOK /\ id \in 1..MaxLeases
  BY DEF RadioInv, TypeOK, LeaseId
<1>2. /\ leases' \in [LeaseId -> RadioLease]
      /\ leases'[id].state = "Granted"
      /\ leases'[id].rollback = "plan"
      /\ \A i \in LeaseId : i # id => leases'[i] = leases[i]
      /\ \A i \in LeaseId : leases'[i].req = leases[i].req
      /\ caps' = caps /\ seq' = seq /\ LeaseId' = LeaseId
  BY <1>1 DEF Approve, TypeOK, RadioLease, LeaseState, LeaseId
<1>3. /\ applies' \in [1..MaxLeases -> Nat]
      /\ rollbacks' = rollbacks
      /\ applies'[id] = applies[id] + 1
      /\ \A i \in 1..MaxLeases : i # id => applies'[i] = applies[i]
      /\ in_force \subseteq in_force'
      /\ in_force' \subseteq in_force \cup {id}
  BY <1>1, ApplyCounts DEF Approve, TypeOK
<1>4. TypeOK'
  BY <1>1, <1>2, <1>3 DEF TypeOK
<1>5. DriverFollowsApproval'
  <2>1. leases[id].rollback = "none"
    BY <1>1 DEF Approve, RadioInv, DriverFollowsApproval, TypeOK, RadioLease
  <2>2. applies[id] = 0 /\ ~(rollbacks[id] > 0)
    BY <2>1 DEF RadioInv, DriverFollowsApproval
  <2>3. LeaseId \subseteq 1..MaxLeases
    BY <1>1 DEF TypeOK, LeaseId
  <2> QED
    BY <1>2, <1>3, <2>2, <2>3 DEF RadioInv, DriverFollowsApproval
<1>6. NoForgottenChange'
  BY <1>1, <1>2, <1>3 DEF RadioInv, NoForgottenChange, TypeOK
<1>7. NoSilentPreemption'
  <2> SUFFICES ASSUME NEW i \in LeaseId,
                      leases'[i].state = "Granted",
                      leases'[i].req.mode = "Exclusive",
                      leases'[i].rollback = "none",
                      NEW older \in 1..(i - 1),
                      leases'[older].req.resource = leases'[i].req.resource
               PROVE  leases'[older].state \notin Active
    BY <1>2 DEF NoSilentPreemption
  <2>1. older \in LeaseId
    BY <1>1 DEF LeaseId, TypeOK
  <2>2. i # id
    BY <1>2
  <2>3. leases[older].state \notin Active
    BY <1>2, <2>1, <2>2 DEF RadioInv, NoSilentPreemption
  <2>4. older # id
    BY <2>3 DEF Approve, Active
  <2> QED
    BY <1>2, <2>1, <2>3, <2>4
<1> QED
  BY <1>4, <1>5, <1>6, <1>7 DEF RadioInv

-----------------------------------------------------------------------------
(* Every other step only ends leases: an active lease may become terminal,    *)
(* and a rollback may run for leases with a plan that end in Released or      *)
(* Reclaimed.                                                                 *)
Ends(ids) ==
  /\ UNCHANGED <<caps, seq>>
  /\ leases' \in [LeaseId -> RadioLease]
  /\ \A i \in LeaseId :
       /\ leases'[i].req = leases[i].req
       /\ leases'[i].rollback = leases[i].rollback
       /\ leases'[i].state # leases[i].state =>
            \/ leases[i].state = "Pending" /\ leases'[i].state = "Denied"
            \/ /\ leases[i].state = "Granted"
               /\ leases'[i].state \in {"Released", "Reclaimed"}
               /\ leases[i].rollback = "plan" => i \in ids
  /\ \A i \in ids : /\ leases[i].rollback = "plan"
                    /\ leases'[i].state \in {"Released", "Reclaimed"}
  /\ DriverRollback(ids) \/ (ids = {} /\ UNCHANGED driver)

LEMMA EndsKeeps ==
  ASSUME RadioInv, NEW ids \in SUBSET LeaseId, Ends(ids)
  PROVE  RadioInv'
<1> USE MaxLeasesAssumption
<1>1. TypeOK /\ LeaseId \subseteq 1..MaxLeases /\ LeaseId' = LeaseId
  BY DEF RadioInv, TypeOK, LeaseId, Ends
<1>2. /\ rollbacks' \in [1..MaxLeases -> Nat]
      /\ applies' = applies
      /\ \A i \in ids : rollbacks'[i] = rollbacks[i] + 1
      /\ \A i \in (1..MaxLeases) \ ids : rollbacks'[i] = rollbacks[i]
      /\ in_force' \subseteq in_force
  <2>1. CASE DriverRollback(ids)
    BY <1>1, <2>1, RollbackCounts DEF TypeOK
  <2>2. CASE ids = {} /\ UNCHANGED driver
    BY <1>1, <2>2 DEF TypeOK, driver
  <2> QED
    BY <2>1, <2>2 DEF Ends
<1>3. TypeOK'
  BY <1>1, <1>2 DEF TypeOK, Ends
<1>4. DriverFollowsApproval'
  <2>1. ASSUME NEW i \in LeaseId
        PROVE  /\ applies'[i] = IF leases'[i].rollback = "plan" THEN 1 ELSE 0
               /\ leases'[i].rollback = "plan" =>
                    leases'[i].state \in {"Granted", "Released", "Reclaimed"}
    BY <1>2, <2>1 DEF RadioInv, DriverFollowsApproval, Ends
  <2>2. ASSUME NEW i \in LeaseId, rollbacks'[i] > 0
        PROVE  /\ leases'[i].rollback = "plan"
               /\ leases'[i].state \in {"Released", "Reclaimed"}
    <3>1. CASE i \in ids
      BY <3>1, <2>2 DEF Ends
    <3>2. CASE i \notin ids
      <4>1. rollbacks[i] > 0
        BY <1>1, <1>2, <2>2, <3>2
      <4> QED
        BY <4>1, <2>2 DEF RadioInv, DriverFollowsApproval, Ends
    <3> QED
      BY <3>1, <3>2
  <2>3. \A i \in (1..MaxLeases) \ LeaseId : applies'[i] = 0 /\ rollbacks'[i] = 0
    BY <1>1, <1>2 DEF RadioInv, DriverFollowsApproval
  <2> QED
    BY <1>1, <2>1, <2>2, <2>3 DEF DriverFollowsApproval
<1>5. NoForgottenChange'
  <2>0. \A i \in in_force' : i \in LeaseId /\ leases'[i].rollback = "plan"
    BY <1>1, <1>2 DEF TypeOK, RadioInv, NoForgottenChange, Ends
  <2> SUFFICES ASSUME NEW i \in in_force', leases'[i].state # "Granted"
               PROVE  rollbacks'[i] > 0
    BY <2>0 DEF NoForgottenChange
  <2>1. i \in in_force /\ i \in LeaseId
    BY <1>2, <2>0
  <2>2. rollbacks[i] \in Nat /\ rollbacks'[i] \in Nat
    BY <1>1, <1>2, <2>1 DEF TypeOK
  <2>3. CASE i \in ids
    BY <1>2, <2>2, <2>3
  <2>4. CASE i \notin ids /\ leases[i].state = "Granted"
    \* impossible: a lease with a change in force has a plan, and ends in ids
    BY <1>1, <2>1, <2>4 DEF RadioInv, NoForgottenChange, Ends
  <2>5. CASE i \notin ids /\ leases[i].state # "Granted"
    BY <1>1, <1>2, <2>1, <2>2, <2>5 DEF RadioInv, NoForgottenChange
  <2> QED
    BY <2>3, <2>4, <2>5
<1>6. NoSilentPreemption'
  <2> SUFFICES ASSUME NEW i \in LeaseId,
                      leases'[i].state = "Granted",
                      leases'[i].req.mode = "Exclusive",
                      leases'[i].rollback = "none",
                      NEW older \in 1..(i - 1),
                      leases'[older].req.resource = leases'[i].req.resource
               PROVE  leases'[older].state \notin Active
    BY <1>1 DEF NoSilentPreemption
  <2>1. older \in LeaseId
    BY <1>1 DEF LeaseId, TypeOK
  <2>2. leases[i].state = "Granted" /\ leases[i].rollback = "none"
    BY DEF Ends
  <2>3. leases[older].state \notin Active
    BY <2>1, <2>2 DEF RadioInv, NoSilentPreemption, Ends
  <2> QED
    BY <2>1, <2>3 DEF Ends, Active
<1> QED
  BY <1>3, <1>4, <1>5, <1>6 DEF RadioInv

LEMMA ReleaseKeeps ==
  ASSUME RadioInv, NEW id \in LeaseId, Release(id)
  PROVE  RadioInv'
<1> DEFINE ids == IF leases[id].rollback = "plan" THEN {id} ELSE {}
<1>1. TypeOK
  BY DEF RadioInv
<1>2. leases' \in [LeaseId -> RadioLease]
  BY <1>1 DEF Release, TypeOK, RadioLease, LeaseState
<1>3. \A i \in LeaseId :
        /\ leases'[i].req = leases[i].req
        /\ leases'[i].rollback = leases[i].rollback
        /\ leases'[i].state = IF i = id THEN "Released" ELSE leases[i].state
  BY <1>1 DEF Release, TypeOK, RadioLease
<1>4. DriverRollback(ids) \/ (ids = {} /\ UNCHANGED driver)
  BY DEF Release
<1>5. Ends(ids)
  BY <1>2, <1>3, <1>4 DEF Release, Ends
<1>6. ids \in SUBSET LeaseId
  OBVIOUS
<1> QED
  BY <1>5, <1>6, EndsKeeps

LEMMA DenyKeeps ==
  ASSUME RadioInv, NEW id \in LeaseId, Deny(id)
  PROVE  RadioInv'
<1>1. TypeOK
  BY DEF RadioInv
<1>2. Ends({})
  BY <1>1 DEF Deny, Ends, TypeOK, RadioLease, LeaseState, driver
<1> QED
  BY <1>2, EndsKeeps

LEMMA WorkerExitKeeps ==
  ASSUME RadioInv, NEW subject \in Subject, WorkerExit(subject)
  PROVE  RadioInv'
<1> DEFINE mine == {id \in LeaseId : leases[id].req.subject = subject}
           reclaimed == {id \in mine : leases[id].state = "Granted"}
           to_rollback == {id \in reclaimed : leases[id].rollback = "plan"}
<1>1. TypeOK
  BY DEF RadioInv
<1>2. leases' = [id \in LeaseId |->
                   IF id \in reclaimed
                   THEN [leases[id] EXCEPT !.state = "Reclaimed"]
                   ELSE IF id \in mine /\ leases[id].state = "Pending"
                   THEN [leases[id] EXCEPT !.state = "Denied"]
                   ELSE leases[id]]
  BY DEF WorkerExit
<1>3. leases' \in [LeaseId -> RadioLease]
  BY <1>1, <1>2 DEF TypeOK, RadioLease, LeaseState
<1>4. \A i \in LeaseId :
        /\ leases'[i].req = leases[i].req
        /\ leases'[i].rollback = leases[i].rollback
        /\ leases'[i].state = IF i \in reclaimed THEN "Reclaimed"
                             ELSE IF i \in mine /\ leases[i].state = "Pending"
                             THEN "Denied" ELSE leases[i].state
  BY <1>1, <1>2 DEF TypeOK, RadioLease
<1>5. Ends(to_rollback)
  <2>1. DriverRollback(to_rollback) /\ UNCHANGED <<caps, seq>>
    BY DEF WorkerExit
  <2>2. \A i \in to_rollback : leases'[i].state = "Reclaimed"
    BY <1>4
  <2>3. ASSUME NEW i \in LeaseId, leases'[i].state # leases[i].state
        PROVE  \/ leases[i].state = "Pending" /\ leases'[i].state = "Denied"
               \/ /\ leases[i].state = "Granted"
                  /\ leases'[i].state \in {"Released", "Reclaimed"}
                  /\ leases[i].rollback = "plan" => i \in to_rollback
    BY <1>4, <2>3
  <2> HIDE DEF to_rollback
  <2>4. \A i \in to_rollback : leases[i].rollback = "plan"
    BY DEF to_rollback
  <2> QED
    BY <1>3, <1>4, <2>1, <2>2, <2>3, <2>4 DEF Ends
<1>6. to_rollback \in SUBSET LeaseId
  OBVIOUS
<1> QED
  BY <1>5, <1>6, EndsKeeps

-----------------------------------------------------------------------------
(* Under any sequence of requests, decisions, releases and worker exits, with *)
(* a driver that may fail: the records have their types, the driver has been  *)
(* called exactly as the user approved, no change in force is forgotten, and  *)
(* no exclusive lease was granted over an active one.                         *)
THEOREM RadioSafe == Spec => []RadioInv
<1>1. Init => RadioInv
  <2> SUFFICES ASSUME Init PROVE RadioInv
    OBVIOUS
  <2>1. LeaseId = {} /\ seq \in 0..MaxLeases
    BY MaxLeasesAssumption DEF Init, LeaseId
  <2>2. leases \in [LeaseId -> RadioLease]
    BY <2>1 DEF Init
  <2> QED
    BY <2>1, <2>2 DEF Init, RadioInv, TypeOK, DriverFollowsApproval,
                      NoForgottenChange, NoSilentPreemption
<1>2. RadioInv /\ [Next]_vars => RadioInv'
  <2> SUFFICES ASSUME RadioInv, [Next]_vars PROVE RadioInv'
    OBVIOUS
  <2>1. ASSUME NEW req \in RadioRequest, Request(req) PROVE RadioInv'
    BY <2>1, PushWithoutDriver DEF Request
  <2>2. ASSUME NEW req \in RadioRequest, RequestPending(req) PROVE RadioInv'
    BY <2>2, PushWithoutDriver DEF RequestPending
  <2>3. ASSUME NEW req \in RadioRequest, RequestDenied(req) PROVE RadioInv'
    BY <2>3, PushWithoutDriver DEF RequestDenied
  <2>4. ASSUME NEW req \in RadioRequest, RequestUserGranted(req) PROVE RadioInv'
    BY <2>4, RequestUserGrantedKeeps
  <2>5. ASSUME NEW id \in LeaseId, Approve(id) PROVE RadioInv'
    BY <2>5, ApproveKeeps
  <2>6. ASSUME NEW id \in LeaseId, Deny(id) PROVE RadioInv'
    BY <2>6, DenyKeeps
  <2>7. ASSUME NEW id \in LeaseId, Release(id) PROVE RadioInv'
    BY <2>7, ReleaseKeeps
  <2>8. ASSUME NEW subject \in Subject, WorkerExit(subject) PROVE RadioInv'
    BY <2>8, WorkerExitKeeps
  <2>9. CASE UNCHANGED vars
    BY <2>9 DEF RadioInv, TypeOK, DriverFollowsApproval, NoForgottenChange,
                NoSilentPreemption, vars, driver, LeaseId
  <2> QED
    BY <2>1, <2>2, <2>3, <2>4, <2>5, <2>6, <2>7, <2>8, <2>9 DEF Next
<1> QED
  BY <1>1, <1>2, PTL DEF Spec

(* The records of the leases, and what the driver was told, keep their types. *)
THEOREM TypeCorrect == Spec => []TypeOK
<1>1. RadioInv => TypeOK
  BY DEF RadioInv
<1> QED
  BY <1>1, RadioSafe, PTL

(* The state invariants the runs check, for every value of the constants.     *)
THEOREM DriverOnlyAfterApproval == Spec => []DriverFollowsApproval
<1>1. RadioInv => DriverFollowsApproval
  BY DEF RadioInv
<1> QED
  BY <1>1, RadioSafe, PTL

THEOREM ChangesAreRemembered == Spec => []NoForgottenChange
<1>1. RadioInv => NoForgottenChange
  BY DEF RadioInv
<1> QED
  BY <1>1, RadioSafe, PTL

THEOREM ExclusiveDoesNotPreempt == Spec => []NoSilentPreemption
<1>1. RadioInv => NoSilentPreemption
  BY DEF RadioInv
<1> QED
  BY <1>1, RadioSafe, PTL

(* A lease that was denied, released or reclaimed keeps that state.           *)
THEOREM FinalDecisions == Spec => DecisionsAreFinal
<1> DEFINE Step == \A id \in LeaseId :
              /\ leases[id].state \in Terminal => leases'[id].state = leases[id].state
              /\ leases'[id].req = leases[id].req
<1>1. RadioInv /\ [Next]_vars => [Step]_vars
  <2> SUFFICES ASSUME RadioInv, Next PROVE Step
    BY DEF RadioInv
  <2>0. TypeOK
    BY DEF RadioInv
  <2>1. ASSUME NEW req \in RadioRequest, NEW state \in LeaseState,
               NEW rollback \in {"none", "plan"}, Push(req, state, rollback)
        PROVE  Step
    BY <2>0, <2>1, PushAdds
  <2>2. ASSUME NEW id \in LeaseId, Approve(id) PROVE Step
    BY <2>0, <2>2 DEF Approve, TypeOK, RadioLease, Terminal, Active
  <2>3. ASSUME NEW id \in LeaseId, Deny(id) PROVE Step
    BY <2>0, <2>3 DEF Deny, TypeOK, RadioLease, Terminal, Active
  <2>4. ASSUME NEW id \in LeaseId, Release(id) PROVE Step
    BY <2>0, <2>4 DEF Release, TypeOK, RadioLease, Terminal, Active
  <2>5. ASSUME NEW subject \in Subject, WorkerExit(subject) PROVE Step
    <3>1. leases' = [id \in LeaseId |->
                   IF leases[id].req.subject = subject /\ leases[id].state = "Granted"
                   THEN [leases[id] EXCEPT !.state = "Reclaimed"]
                   ELSE IF leases[id].req.subject = subject /\ leases[id].state = "Pending"
                   THEN [leases[id] EXCEPT !.state = "Denied"]
                   ELSE leases[id]]
      BY <2>5 DEF WorkerExit
    <3> QED
      BY <2>0, <3>1 DEF TypeOK, RadioLease, Terminal, Active
  <2> HIDE DEF Step
  <2>6. ASSUME NEW req \in RadioRequest,
               Request(req) \/ RequestPending(req) \/ RequestDenied(req)
                 \/ RequestUserGranted(req)
        PROVE  Step
    BY <2>1, <2>6 DEF Request, RequestPending, RequestDenied,
                      RequestUserGranted, LeaseState
  <2> QED
    BY <2>2, <2>3, <2>4, <2>5, <2>6 DEF Next
<1>2. RadioInv /\ [Next]_vars => [Step]_vars
  BY <1>1
<1> QED
  BY <1>2, RadioSafe, PTL DEF Spec, DecisionsAreFinal

-----------------------------------------------------------------------------
(* SessionRegistry.                                                           *)

(* What every call keeps, whether or not ids come again.                      *)
LEMMA InitIsTyped == RegistryInit => RegistryTypeOK
  BY MaxTimeAssumption
     DEF RegistryInit, RegistryTypeOK, Time, OfferRecord, DecisionState, SessionRecord, SessionState

LEMMA CallsKeepTypes ==
  ASSUME RegistryTypeOK, [RegistryNext]_registryVars
  PROVE  RegistryTypeOK'
<1>1. ASSUME NEW o \in Offer, RegisterOffer(o) PROVE RegistryTypeOK'
  BY <1>1 DEF RegisterOffer, Registered, RegistryTypeOK, OfferRecord, DecisionState
<1>2. ASSUME NEW o \in Offer, NEW decision \in Decided, Decide(o, decision)
      PROVE  RegistryTypeOK'
  <2> DEFINE first == offers[o].state = "Pending"
             state == IF first THEN decision ELSE offers[o].state
  <2>1. state \in Decided
    BY <1>2 DEF Decide, RegistryTypeOK, OfferRecord, DecisionState, Decided
  <2>2. /\ offers' = [offers EXCEPT ![o].state = state]
        /\ terminal_decisions' = terminal_decisions + (IF first THEN 1 ELSE 0)
        /\ answers' = [answers EXCEPT ![o] = @ \cup {state}]
        /\ UNCHANGED <<now, sessions, cleanups, registrations, crashed>>
    BY <1>2 DEF Decide
  <2> HIDE DEF state
  <2>3. offers' \in [Offer -> OfferRecord]
    BY <2>1, <2>2 DEF RegistryTypeOK, OfferRecord, DecisionState, Decided
  <2>4. answers' \in [Offer -> SUBSET Decided]
    BY <2>1, <2>2 DEF RegistryTypeOK
  <2> QED
    BY <2>2, <2>3, <2>4 DEF RegistryTypeOK
<1>3. ASSUME NEW s \in Session, RegisterSession(s) PROVE RegistryTypeOK'
  BY <1>3 DEF RegisterSession, Registered, RegistryTypeOK, SessionRecord, SessionState
<1>4. ASSUME NEW s \in Session, SetSessionDeadline(s) PROVE RegistryTypeOK'
  BY <1>4 DEF SetSessionDeadline, RegistryTypeOK, SessionRecord
<1>5. ASSUME NEW s \in Session, AttachWorker(s) PROVE RegistryTypeOK'
  BY <1>5 DEF AttachWorker, RegistryTypeOK, SessionRecord
<1>6. ASSUME NEW ids, NEW end \in Ended, EndSessions(ids, end),
             UNCHANGED now, crashed' \subseteq Worker
      PROVE  RegistryTypeOK'
  BY <1>6 DEF EndSessions, RegistryTypeOK, SessionRecord, SessionState, Ended
<1>7. ASSUME NEW s \in Session, Cancel(s) PROVE RegistryTypeOK'
  BY <1>6, <1>7 DEF Cancel, Ended, RegistryTypeOK
<1>8. ASSUME NEW worker \in Worker, WorkerCrashed(worker) PROVE RegistryTypeOK'
  BY <1>6, <1>8 DEF WorkerCrashed, Ended, RegistryTypeOK
<1>9. CASE Sweep
  BY <1>6, <1>9 DEF Sweep, Ended, RegistryTypeOK
<1>10. CASE Tick
  BY <1>10, MaxTimeAssumption DEF Tick, RegistryTypeOK, Time
<1>11. CASE UNCHANGED registryVars
  BY <1>11 DEF registryVars, RegistryTypeOK
<1> QED
  BY <1>1, <1>2, <1>3, <1>4, <1>5, <1>7, <1>8, <1>9, <1>10, <1>11
     DEF RegistryNext, DecideAccept, Expire, Decided

(* Every record, clock and counter keeps its type.                            *)
THEOREM RegistryTypeCorrect == RegistrySpec => []RegistryTypeOK
<1>1. RegistryTypeOK /\ [RegistryNext]_registryVars => RegistryTypeOK'
  BY CallsKeepTypes
<1> QED
  BY <1>1, InitIsTyped, PTL DEF RegistrySpec

(* Also when ids come again: a session fails only when its own worker has     *)
(* crashed or its own deadline has passed (worker_crashed, sweep).            *)
THEOREM FailuresAreIsolated == RegistrySpec => FailsForItsOwnReason
<1> DEFINE Isolated == \A s \in Session :
             sessions'[s].state = "Failed" /\ sessions[s].state # "Failed" =>
               \/ sessions[s].worker \in crashed'
               \/ sessions[s].deadline # None /\ sessions[s].deadline < now
<1>1. RegistryTypeOK /\ [RegistryNext]_registryVars => [Isolated]_registryVars
  <2> SUFFICES ASSUME RegistryTypeOK, RegistryNext,
                      NEW s \in Session,
                      sessions'[s].state = "Failed", sessions[s].state # "Failed"
               PROVE  \/ sessions[s].worker \in crashed'
                      \/ sessions[s].deadline # None /\ sessions[s].deadline < now
    OBVIOUS
  <2>0. sessions \in [Session -> SessionRecord]
    BY DEF RegistryTypeOK
  <2>1. ASSUME NEW r \in Session, RegisterSession(r) \/ SetSessionDeadline(r) \/ AttachWorker(r)
        PROVE  FALSE
    BY <2>0, <2>1 DEF RegisterSession, SetSessionDeadline, AttachWorker, SessionRecord
  <2>2. ASSUME NEW r \in Session, Cancel(r) PROVE FALSE
    BY <2>2 DEF Cancel, EndSessions, RegistryTypeOK, SessionRecord
  <2>3. ASSUME NEW worker \in Worker, WorkerCrashed(worker)
        PROVE  sessions[s].worker \in crashed'
    <3>1. s \in {r \in Live : sessions[r].worker = worker}
      BY <2>3 DEF WorkerCrashed, EndSessions
    <3> QED
      BY <2>3, <3>1 DEF WorkerCrashed
  <2>4. CASE Sweep
    <3>1. s \in Overdue
      BY <2>4 DEF Sweep, EndSessions
    <3> QED
      BY <3>1 DEF Overdue, RegistryTypeOK, SessionRecord, Time
  <2>5. sessions' # sessions
    OBVIOUS
  <2>6. ASSUME NEW o \in Offer, RegisterOffer(o) \/ DecideAccept(o) \/ Expire(o)
        PROVE  FALSE
    BY <2>5, <2>6 DEF RegisterOffer, DecideAccept, Expire, Decide
  <2>7. CASE Tick
    BY <2>5, <2>7 DEF Tick
  <2> QED
    BY <2>1, <2>2, <2>3, <2>4, <2>6, <2>7 DEF RegistryNext
<1> QED
  BY <1>1, RegistryTypeCorrect, PTL DEF RegistrySpec, FailsForItsOwnReason

-----------------------------------------------------------------------------
(* A call that ends sessions ends live ones only: for all of them at once it  *)
(* is one step of Lifecycle.                                                  *)
LEMMA EndsAreEnds ==
  ASSUME RegistryTypeOK, NEW ids \in SUBSET Live, NEW end \in Ended, EndSessions(ids, end)
  PROVE  Life!Next
<1>1. ids \subseteq Session /\ \A s \in ids : sessions[s].state = "Active"
  BY DEF Live
<1>2. [s \in Session |-> sessions'[s].state]
        = [s \in Session |-> IF s \in ids THEN end ELSE sessions[s].state]
  BY DEF EndSessions, RegistryTypeOK, SessionRecord
<1>3. Life!End(ids, end)
  BY <1>1, <1>2 DEF EndSessions, Life!End
<1> QED
  BY <1>1, <1>3 DEF Life!Next

(* Whatever the order of the calls, and when ids are used again as well, the  *)
(* sessions change as Lifecycle says: registering opens, and cancel, crash    *)
(* and sweep end what is in use, with its cleanup.                            *)
THEOREM RegistryImplementsLifecycle == RegistrySpec => ImplementsLifecycle
<1>1. RegistryInit => Life!Init
  BY DEF RegistryInit, Life!Init
<1>2. RegistryTypeOK /\ [RegistryNext]_registryVars => [Life!Next]_(Life!vars)
  <2> SUFFICES ASSUME RegistryTypeOK, [RegistryNext]_registryVars
               PROVE  Life!Next \/ UNCHANGED Life!vars
    OBVIOUS
  <2>1. ASSUME NEW o \in Offer, RegisterOffer(o) PROVE UNCHANGED Life!vars
    <3>1. \A s \in Session : registrations'[s] = registrations[s]
      BY <2>1, DistinctIds DEF RegisterOffer, Registered, RegistryTypeOK
    <3> QED
      BY <2>1, <3>1 DEF RegisterOffer, Life!vars
  <2>2. ASSUME NEW o \in Offer, DecideAccept(o) \/ Expire(o) PROVE UNCHANGED Life!vars
    BY <2>2 DEF DecideAccept, Expire, Decide, Life!vars
  <2>3. ASSUME NEW s \in Session, RegisterSession(s) PROVE Life!Next
    <3>1. [r \in Session |-> sessions'[r].state]
            = [[r \in Session |-> sessions[r].state] EXCEPT ![s] = "Active"]
      BY <2>3 DEF RegisterSession, RegistryTypeOK
    <3>2. [r \in Session |-> registrations'[r]]
            = [[r \in Session |-> registrations[r]] EXCEPT ![s] = @ + 1]
      BY <2>3, DistinctIds DEF RegisterSession, Registered, RegistryTypeOK
    <3>3. UNCHANGED cleanups
      BY <2>3 DEF RegisterSession
    <3> QED
      BY <3>1, <3>2, <3>3 DEF Life!Next, Life!Open
  <2>4. ASSUME NEW s \in Session, SetSessionDeadline(s) \/ AttachWorker(s)
        PROVE  UNCHANGED Life!vars
    <3>1. \A r \in Session : sessions'[r].state = sessions[r].state
      BY <2>4 DEF SetSessionDeadline, AttachWorker, RegistryTypeOK, SessionRecord
    <3> QED
      BY <2>4, <3>1 DEF SetSessionDeadline, AttachWorker, Life!vars
  <2>5. ASSUME NEW s \in Session, Cancel(s) PROVE Life!Next
    BY <2>5, EndsAreEnds DEF Cancel, Ended
  <2>6. ASSUME NEW worker \in Worker, WorkerCrashed(worker) PROVE Life!Next
    BY <2>6, EndsAreEnds DEF WorkerCrashed, Ended
  <2>7. CASE Sweep
    BY <2>7, EndsAreEnds DEF Sweep, Overdue, Ended
  <2>8. CASE Tick
    BY <2>8 DEF Tick, Life!vars
  <2>9. CASE UNCHANGED registryVars
    BY <2>9 DEF registryVars, Life!vars
  <2> QED
    BY <2>1, <2>2, <2>3, <2>4, <2>5, <2>6, <2>7, <2>8, <2>9 DEF RegistryNext
<1> QED
  BY <1>1, <1>2, RegistryTypeCorrect, PTL DEF RegistrySpec, ImplementsLifecycle, Life!Spec

(* What Lifecycle promises of every use of an id.                             *)
LifeInv == Life!TypeOK /\ Life!EndsOncePerUse

(* Whatever keeps the promise of Lifecycle ends each use of an id at most     *)
(* once, and accounts for the end.                                            *)
THEOREM OneEndPerUse == Life!Spec => []LifeInv
<1> DEFINE phase == [s \in Session |-> sessions[s].state]
           opened == [s \in Session |-> registrations[s]]
<1>1. Life!Init => LifeInv
  BY DEF Life!Init, LifeInv, Life!TypeOK, Life!Phase, Life!EndsOncePerUse, Ended
<1>2. LifeInv /\ [Life!Next]_(Life!vars) => LifeInv'
  <2> SUFFICES ASSUME LifeInv, [Life!Next]_(Life!vars) PROVE LifeInv'
    OBVIOUS
  <2>0. /\ phase \in [Session -> {"absent", "Active"} \cup Ended]
        /\ opened \in [Session -> Nat]
        /\ cleanups \in [Session -> Nat]
        /\ \A s \in Session :
             /\ cleanups[s] + (IF phase[s] = "Active" THEN 1 ELSE 0) <= opened[s]
             /\ phase[s] \in Ended => cleanups[s] > 0
             /\ phase[s] = "absent" <=> opened[s] = 0
    BY DEF LifeInv, Life!TypeOK, Life!Phase, Life!EndsOncePerUse
  <2>1. ASSUME NEW i \in Session, Life!Open(i) PROVE LifeInv'
    <3>1. /\ phase' = [phase EXCEPT ![i] = "Active"]
          /\ opened' = [opened EXCEPT ![i] = @ + 1]
          /\ cleanups' = cleanups
      BY <2>1 DEF Life!Open
    <3> HIDE DEF phase, opened
    <3>2. /\ phase' \in [Session -> {"absent", "Active"} \cup Ended]
          /\ opened' \in [Session -> Nat]
          /\ cleanups' \in [Session -> Nat]
          /\ \A s \in Session :
               /\ cleanups'[s] + (IF phase'[s] = "Active" THEN 1 ELSE 0) <= opened'[s]
               /\ phase'[s] \in Ended => cleanups'[s] > 0
               /\ phase'[s] = "absent" <=> opened'[s] = 0
      BY <2>0, <3>1 DEF Ended
    <3> QED
      BY <3>2 DEF phase, opened, LifeInv, Life!TypeOK, Life!Phase, Life!EndsOncePerUse
  <2>2. ASSUME NEW ids \in SUBSET Session, NEW outcome \in Ended, Life!End(ids, outcome)
        PROVE  LifeInv'
    <3>1. /\ \A s \in ids : phase[s] = "Active"
          /\ phase' = [s \in Session |-> IF s \in ids THEN outcome ELSE phase[s]]
          /\ cleanups' = [s \in Session |-> IF s \in ids THEN cleanups[s] + 1 ELSE cleanups[s]]
          /\ opened' = opened
      BY <2>2 DEF Life!End
    <3> HIDE DEF phase, opened
    <3>2. /\ phase' \in [Session -> {"absent", "Active"} \cup Ended]
          /\ opened' \in [Session -> Nat]
          /\ cleanups' \in [Session -> Nat]
          /\ \A s \in Session :
               /\ cleanups'[s] + (IF phase'[s] = "Active" THEN 1 ELSE 0) <= opened'[s]
               /\ phase'[s] \in Ended => cleanups'[s] > 0
               /\ phase'[s] = "absent" <=> opened'[s] = 0
      BY <2>0, <3>1 DEF Ended
    <3> QED
      BY <3>2 DEF phase, opened, LifeInv, Life!TypeOK, Life!Phase, Life!EndsOncePerUse
  <2>3. CASE UNCHANGED Life!vars
    BY <2>3 DEF Life!vars, LifeInv, Life!TypeOK, Life!EndsOncePerUse
  <2> QED
    BY <2>1, <2>2, <2>3 DEF Life!Next
<1> QED
  BY <1>1, <1>2, PTL DEF Life!Spec

(* However the calls race and ids are used again, a session is cleaned up at  *)
(* most once for each use of its id, not before its end, and a session that   *)
(* has ended was cleaned up.                                                  *)
THEOREM CleanedUpPerUse == RegistrySpec => []CleanedUpOncePerUse
<1>1. LifeInv => CleanedUpOncePerUse
  BY DEF LifeInv, CleanedUpOncePerUse
<1> QED
  BY <1>1, RegistryImplementsLifecycle, OneEndPerUse, PTL DEF ImplementsLifecycle

-----------------------------------------------------------------------------
(* When an id is registered once.                                             *)

(* An id is in its map exactly when it has been registered.                   *)
RegisteredOnce ==
  /\ \A o \in Offer : offers[o].state = "absent" <=> registrations[o] = 0
  /\ \A s \in Session : sessions[s].state = "absent" <=> registrations[s] = 0

SessionInv == RegistryTypeOK /\ RegisteredOnce /\ OneDecision /\ OneCleanup

DecidedOffers == {o \in Offer : offers[o].state \in Decided}

-----------------------------------------------------------------------------
(* A first registration names an id that is in no map yet.                    *)
LEMMA FreshId ==
  ASSUME MaxRegistrations = 1, RegistryTypeOK, NEW id \in Offer \cup Session, Registered(id)
  PROVE  /\ registrations[id] = 0
         /\ registrations'[id] = 1
         /\ registrations' \in [Offer \cup Session -> Nat]
         /\ \A other \in Offer \cup Session :
              other # id => registrations'[other] = registrations[other]
  BY DEF RegistryTypeOK, Registered

LEMMA RegisterOfferKeeps ==
  ASSUME MaxRegistrations = 1, SessionInv, NEW o \in Offer, RegisterOffer(o)
  PROVE  SessionInv'
<1>1. RegistryTypeOK
  BY DEF SessionInv
<1>2. PICK deadline \in Time :
        offers' = [offers EXCEPT ![o] = [state |-> "Pending", deadline |-> deadline]]
  BY DEF RegisterOffer
<1>3. /\ registrations[o] = 0
      /\ registrations'[o] = 1
      /\ registrations' \in [Offer \cup Session -> Nat]
      /\ \A other \in Offer \cup Session :
           other # o => registrations'[other] = registrations[other]
  BY <1>1, FreshId DEF RegisterOffer
<1>4. offers[o].state = "absent"
  BY <1>3 DEF SessionInv, RegisteredOnce
<1>5. /\ offers' \in [Offer -> OfferRecord]
      /\ offers'[o].state = "Pending"
      /\ \A other \in Offer : other # o => offers'[other] = offers[other]
  BY <1>1, <1>2 DEF RegistryTypeOK, OfferRecord, DecisionState
<1>6. UNCHANGED <<now, sessions, terminal_decisions, cleanups, answers, crashed>>
  BY DEF RegisterOffer
<1>7. RegistryTypeOK'
  BY <1>1, <1>3, <1>5, <1>6 DEF RegistryTypeOK
<1>8. RegisteredOnce'
  BY <1>3, <1>5, <1>6, DistinctIds DEF SessionInv, RegisteredOnce
<1>9. OneDecision'
  <2>1. DecidedOffers' = DecidedOffers
    BY <1>4, <1>5 DEF DecidedOffers, Decided
  <2>2. answers[o] = {}
    BY <1>1, <1>4 DEF SessionInv, OneDecision, RegistryTypeOK, Decided
  <2> QED
    BY <1>5, <1>6, <2>1, <2>2 DEF SessionInv, OneDecision, DecidedOffers
<1>10. OneCleanup'
  BY <1>6 DEF SessionInv, OneCleanup
<1> QED
  BY <1>7, <1>8, <1>9, <1>10 DEF SessionInv

(* Both decisions: the first answer is recorded and counted, later ones only  *)
(* repeat it.                                                                 *)
LEMMA DecideKeeps ==
  ASSUME SessionInv, NEW o \in Offer, NEW decision \in Decided, Decide(o, decision)
  PROVE  SessionInv'
<1> DEFINE first == offers[o].state = "Pending"
           state == IF first THEN decision ELSE offers[o].state
<1>1. RegistryTypeOK
  BY DEF SessionInv
<1>2. state \in Decided /\ offers[o].state # "absent"
  BY <1>1 DEF Decide, RegistryTypeOK, OfferRecord, DecisionState, Decided
<1>3. /\ offers' \in [Offer -> OfferRecord]
      /\ offers'[o].state = state
      /\ \A other \in Offer : other # o => offers'[other] = offers[other]
  BY <1>1, <1>2 DEF Decide, RegistryTypeOK, OfferRecord, DecisionState, Decided
<1>4. /\ UNCHANGED <<now, sessions, cleanups, registrations, crashed>>
      /\ terminal_decisions' = terminal_decisions + (IF first THEN 1 ELSE 0)
      /\ answers' = [answers EXCEPT ![o] = @ \cup {state}]
  BY DEF Decide
<1> HIDE DEF state
<1>5. answers' \in [Offer -> SUBSET Decided]
  BY <1>1, <1>2, <1>4 DEF RegistryTypeOK
<1>6. RegistryTypeOK'
  BY <1>1, <1>3, <1>4, <1>5 DEF RegistryTypeOK
<1>7. RegisteredOnce'
  BY <1>2, <1>3, <1>4 DEF SessionInv, RegisteredOnce, Decided
<1>8. OneCleanup'
  BY <1>4 DEF SessionInv, OneCleanup
<1>9. \A other \in Offer : answers'[other] \subseteq {offers'[other].state}
  <2>1. answers[o] \subseteq {state}
    BY <1>1 DEF state, SessionInv, OneDecision, RegistryTypeOK, Decided
  <2>2. answers'[o] = answers[o] \cup {state}
    BY <1>1, <1>4 DEF RegistryTypeOK
  <2>3. \A other \in Offer : other # o => answers'[other] = answers[other]
    BY <1>1, <1>4 DEF RegistryTypeOK
  <2> QED
    BY <1>3, <2>1, <2>2, <2>3 DEF SessionInv, OneDecision
<1>10. terminal_decisions' = Cardinality(DecidedOffers')
  <2>1. IsFiniteSet(DecidedOffers)
    BY FiniteOffers, FS_Subset DEF DecidedOffers
  <2>2. terminal_decisions = Cardinality(DecidedOffers)
    BY DEF SessionInv, OneDecision, DecidedOffers
  <2>3. CASE first
    <3>1. o \notin DecidedOffers /\ DecidedOffers' = DecidedOffers \cup {o}
      BY <1>2, <1>3, <2>3 DEF DecidedOffers, Decided
    <3> QED
      BY <1>4, <2>1, <2>2, <2>3, <3>1, FS_AddElement
  <2>4. CASE ~first
    <3>1. DecidedOffers' = DecidedOffers
      BY <1>2, <1>3, <2>4 DEF DecidedOffers, state
    <3> QED
      BY <1>1, <1>4, <2>2, <2>4, <3>1 DEF RegistryTypeOK
  <2> QED
    BY <2>3, <2>4
<1>11. OneDecision'
  BY <1>9, <1>10 DEF OneDecision, DecidedOffers
<1> QED
  BY <1>6, <1>7, <1>8, <1>11 DEF SessionInv

-----------------------------------------------------------------------------
LEMMA RegisterSessionKeeps ==
  ASSUME MaxRegistrations = 1, SessionInv, NEW s \in Session, RegisterSession(s)
  PROVE  SessionInv'
<1>1. RegistryTypeOK
  BY DEF SessionInv
<1>2. /\ registrations[s] = 0
      /\ registrations'[s] = 1
      /\ registrations' \in [Offer \cup Session -> Nat]
      /\ \A other \in Offer \cup Session :
           other # s => registrations'[other] = registrations[other]
  BY <1>1, FreshId DEF RegisterSession
<1>3. sessions[s].state = "absent"
  BY <1>2 DEF SessionInv, RegisteredOnce
<1>4. /\ sessions' \in [Session -> SessionRecord]
      /\ sessions'[s].state = "Active"
      /\ \A other \in Session : other # s => sessions'[other] = sessions[other]
  BY <1>1 DEF RegisterSession, RegistryTypeOK, SessionRecord, SessionState
<1>5. UNCHANGED <<now, offers, terminal_decisions, cleanups, answers, crashed>>
  BY DEF RegisterSession
<1>6. RegistryTypeOK'
  BY <1>1, <1>2, <1>4, <1>5 DEF RegistryTypeOK
<1>7. RegisteredOnce'
  BY <1>2, <1>4, <1>5, DistinctIds DEF SessionInv, RegisteredOnce
<1>8. OneDecision'
  BY <1>5 DEF SessionInv, OneDecision
<1>9. OneCleanup'
  BY <1>3, <1>4, <1>5 DEF SessionInv, OneCleanup, Ended
<1> QED
  BY <1>6, <1>7, <1>8, <1>9 DEF SessionInv

(* Giving a session a deadline or a worker does not change its state.         *)
LEMMA UpdateKeeps ==
  ASSUME SessionInv, NEW s \in Session,
         SetSessionDeadline(s) \/ AttachWorker(s)
  PROVE  SessionInv'
<1>1. RegistryTypeOK
  BY DEF SessionInv
<1>2. UNCHANGED <<now, offers, terminal_decisions, cleanups, answers,
                  registrations, crashed>>
  BY DEF SetSessionDeadline, AttachWorker
<1>3. /\ sessions' \in [Session -> SessionRecord]
      /\ \A other \in Session : sessions'[other].state = sessions[other].state
  <2>1. CASE SetSessionDeadline(s)
    <3>1. PICK deadline \in Time : sessions' = [sessions EXCEPT ![s].deadline = deadline]
      BY <2>1 DEF SetSessionDeadline
    <3> QED
      BY <1>1, <3>1 DEF RegistryTypeOK, SessionRecord
  <2>2. CASE AttachWorker(s)
    <3>1. PICK worker \in Worker : sessions' = [sessions EXCEPT ![s].worker = worker]
      BY <2>2 DEF AttachWorker
    <3> QED
      BY <1>1, <3>1 DEF RegistryTypeOK, SessionRecord
  <2> QED
    BY <2>1, <2>2
<1>4. RegistryTypeOK'
  BY <1>1, <1>2, <1>3 DEF RegistryTypeOK
<1> QED
  BY <1>2, <1>3, <1>4 DEF SessionInv, RegisteredOnce, OneDecision, OneCleanup

(* Every way of ending sessions ends live ones, with one cleanup each.        *)
LEMMA EndSessionsKeeps ==
  ASSUME SessionInv, NEW ids \in SUBSET Live, NEW state \in Ended,
         EndSessions(ids, state), now' \in Time, crashed' \subseteq Worker
  PROVE  SessionInv'
<1>1. RegistryTypeOK /\ Live \subseteq Session
  BY DEF SessionInv, Live
<1>2. /\ UNCHANGED <<offers, terminal_decisions, answers, registrations>>
      /\ sessions' = [s \in Session |-> IF s \in ids
                                        THEN [sessions[s] EXCEPT !.state = state]
                                        ELSE sessions[s]]
      /\ cleanups' = [s \in Session |-> IF s \in ids THEN cleanups[s] + 1 ELSE cleanups[s]]
  BY DEF EndSessions
<1>3. /\ sessions' \in [Session -> SessionRecord]
      /\ \A s \in ids : sessions'[s].state = state
      /\ \A s \in Session \ ids : sessions'[s] = sessions[s]
  BY <1>1, <1>2 DEF RegistryTypeOK, SessionRecord, SessionState, Ended
<1>4. /\ cleanups' \in [Session -> Nat]
      /\ \A s \in ids : cleanups'[s] = cleanups[s] + 1
      /\ \A s \in Session \ ids : cleanups'[s] = cleanups[s]
  BY <1>1, <1>2 DEF RegistryTypeOK
<1>5. RegistryTypeOK'
  BY <1>1, <1>2, <1>3, <1>4 DEF RegistryTypeOK
<1>6. \A s \in ids : sessions[s].state = "Active"
  BY DEF Live
<1>7. RegisteredOnce'
  BY <1>1, <1>2, <1>3, <1>6 DEF SessionInv, RegisteredOnce, Ended
<1>8. OneDecision'
  BY <1>2 DEF SessionInv, OneDecision
<1>9. OneCleanup'
  BY <1>1, <1>3, <1>4, <1>6 DEF SessionInv, OneCleanup, Ended
<1> QED
  BY <1>5, <1>7, <1>8, <1>9 DEF SessionInv

-----------------------------------------------------------------------------
LEMMA InitEstablishes == RegistryInit => SessionInv
<1> SUFFICES ASSUME RegistryInit PROVE SessionInv
  OBVIOUS
<1>1. RegistryTypeOK
  BY MaxTimeAssumption
     DEF RegistryInit, RegistryTypeOK, Time, OfferRecord, DecisionState, SessionRecord, SessionState
<1>2. RegisteredOnce /\ OneCleanup
  BY DEF RegistryInit, RegisteredOnce, OneCleanup, Ended
<1>3. OneDecision
  <2>1. DecidedOffers = {}
    BY DEF RegistryInit, DecidedOffers, Decided
  <2>2. terminal_decisions = Cardinality(DecidedOffers)
    BY <2>1, FS_EmptySet DEF RegistryInit
  <2> QED
    BY <2>2 DEF RegistryInit, OneDecision, DecidedOffers
<1> QED
  BY <1>1, <1>2, <1>3 DEF SessionInv

LEMMA NextKeeps ==
  ASSUME MaxRegistrations = 1, SessionInv, [RegistryNext]_registryVars
  PROVE  SessionInv'
<1>0. RegistryTypeOK
  BY DEF SessionInv
<1>1. ASSUME NEW o \in Offer, RegisterOffer(o) PROVE SessionInv'
  BY <1>1, RegisterOfferKeeps
<1>2. ASSUME NEW o \in Offer, DecideAccept(o) PROVE SessionInv'
  BY <1>2, DecideKeeps DEF DecideAccept, Decided
<1>3. ASSUME NEW o \in Offer, Expire(o) PROVE SessionInv'
  BY <1>3, DecideKeeps DEF Expire, Decided
<1>4. ASSUME NEW s \in Session, RegisterSession(s) PROVE SessionInv'
  BY <1>4, RegisterSessionKeeps
<1>5. ASSUME NEW s \in Session, SetSessionDeadline(s) \/ AttachWorker(s)
      PROVE  SessionInv'
  BY <1>5, UpdateKeeps
<1>6. ASSUME NEW s \in Session, Cancel(s) PROVE SessionInv'
  BY <1>0, <1>6, EndSessionsKeeps DEF Cancel, Ended, RegistryTypeOK
<1>7. ASSUME NEW worker \in Worker, WorkerCrashed(worker) PROVE SessionInv'
  BY <1>0, <1>7, EndSessionsKeeps DEF WorkerCrashed, Ended, RegistryTypeOK
<1>8. ASSUME Sweep PROVE SessionInv'
  BY <1>0, <1>8, EndSessionsKeeps DEF Sweep, Overdue, Ended, RegistryTypeOK
<1>9. ASSUME Tick PROVE SessionInv'
  <2>1. RegistryTypeOK'
    BY <1>0, <1>9, MaxTimeAssumption DEF Tick, RegistryTypeOK, Time
  <2> QED
    BY <1>9, <2>1 DEF Tick, SessionInv, RegisteredOnce, OneDecision, OneCleanup
<1>10. CASE UNCHANGED registryVars
  BY <1>10 DEF registryVars, SessionInv, RegistryTypeOK, RegisteredOnce, OneDecision, OneCleanup
<1> QED
  BY <1>1, <1>2, <1>3, <1>4, <1>5, <1>6, <1>7, <1>8, <1>9, <1>10 DEF RegistryNext

-----------------------------------------------------------------------------
(* In any order of calls an offer has one decision, which everyone is told    *)
(* and which is counted once.                                                 *)
THEOREM OffersDecidedOnce ==
  ASSUME MaxRegistrations = 1
  PROVE  RegistrySpec => []OneDecision
<1>1. SessionInv /\ [RegistryNext]_registryVars => SessionInv'
  BY NextKeeps
<1>2. SessionInv => OneDecision
  BY DEF SessionInv
<1> QED
  BY <1>1, <1>2, InitEstablishes, PTL DEF RegistrySpec

(* In any order of calls a session is cleaned up exactly once, when it ends.  *)
THEOREM SessionsCleanedUpOnce ==
  ASSUME MaxRegistrations = 1
  PROVE  RegistrySpec => []OneCleanup
<1>1. SessionInv /\ [RegistryNext]_registryVars => SessionInv'
  BY NextKeeps
<1>2. SessionInv => OneCleanup
  BY DEF SessionInv
<1> QED
  BY <1>1, <1>2, InitEstablishes, PTL DEF RegistrySpec

(* No call, in any order, takes back the decision of an offer or the end of a *)
(* session.                                                                   *)
THEOREM DecisionsStand ==
  ASSUME MaxRegistrations = 1
  PROVE  RegistrySpec => TerminalIsFinal
<1> DEFINE OfferStands == \A o \in Offer : offers[o].state \in Decided =>
                                             offers'[o].state = offers[o].state
           SessionStands == \A s \in Session : sessions[s].state \in Ended =>
                                                 sessions'[s].state = sessions[s].state
           Step == OfferStands /\ SessionStands
<1>1. SessionInv /\ [RegistryNext]_registryVars => [Step]_registryVars
  <2> SUFFICES ASSUME SessionInv, RegistryNext PROVE Step
    OBVIOUS
  <2>0. RegistryTypeOK /\ RegisteredOnce
    BY DEF SessionInv
  <2>1. ASSUME NEW o \in Offer, RegisterOffer(o) PROVE Step
    <3>1. offers[o].state = "absent"
      BY <2>0, <2>1, FreshId DEF RegisterOffer, RegisteredOnce
    <3>2. \A other \in Offer : other # o => offers'[other] = offers[other]
      BY <2>0, <2>1 DEF RegisterOffer, RegistryTypeOK
    <3> QED
      BY <2>1, <3>1, <3>2 DEF RegisterOffer, Decided
  <2>2. ASSUME NEW o \in Offer, NEW decision \in Decided, Decide(o, decision)
        PROVE  Step
    BY <2>0, <2>2 DEF Decide, RegistryTypeOK, OfferRecord, Decided
  <2>3. ASSUME NEW s \in Session, RegisterSession(s) PROVE Step
    <3>1. sessions[s].state = "absent"
      BY <2>0, <2>3, FreshId DEF RegisterSession, RegisteredOnce
    <3>2. \A other \in Session : other # s => sessions'[other] = sessions[other]
      BY <2>0, <2>3 DEF RegisterSession, RegistryTypeOK
    <3> QED
      BY <2>3, <3>1, <3>2 DEF RegisterSession, Ended
  <2>4. ASSUME NEW s \in Session, SetSessionDeadline(s) PROVE Step
    BY <2>0, <2>4 DEF SetSessionDeadline, RegistryTypeOK, SessionRecord
  <2>5. ASSUME NEW s \in Session, AttachWorker(s) PROVE Step
    BY <2>0, <2>5 DEF AttachWorker, RegistryTypeOK, SessionRecord
  <2>6. ASSUME NEW ids \in SUBSET Live, NEW state \in Ended, EndSessions(ids, state)
        PROVE  Step
    BY <2>0, <2>6 DEF EndSessions, Live, Ended, RegistryTypeOK
  <2>7. CASE Tick
    BY <2>7 DEF Tick
  <2> HIDE DEF Step
  <2>8. ASSUME NEW o \in Offer, DecideAccept(o) \/ Expire(o) PROVE Step
    BY <2>2, <2>8 DEF DecideAccept, Expire, Decided
  <2>9. ASSUME NEW s \in Session, Cancel(s) PROVE Step
    BY <2>6, <2>9 DEF Cancel, Ended
  <2>10. ASSUME NEW worker \in Worker, WorkerCrashed(worker) PROVE Step
    BY <2>6, <2>10 DEF WorkerCrashed, Ended
  <2>11. CASE Sweep
    BY <2>6, <2>11 DEF Sweep, Overdue, Ended
  <2> QED
    BY <2>1, <2>3, <2>4, <2>5, <2>7, <2>8, <2>9, <2>10, <2>11 DEF RegistryNext
<1>2. SessionInv /\ [RegistryNext]_registryVars => SessionInv'
  BY NextKeeps
<1> QED
  BY <1>1, <1>2, InitEstablishes, PTL DEF RegistrySpec, TerminalIsFinal

-----------------------------------------------------------------------------
(* EventBus implements EventLog, so a subscriber misses nothing behind its    *)
(* back.                                                                      *)

(* What the refinement needs: the deque is a run of events that ends with the *)
(* last one published, and the cursor is not ahead of it.  The sums of bytes  *)
(* are not needed: whichever events an eviction drops, they are the oldest.   *)
BusInv ==
  /\ buffer \in Seq([sequence : Nat, bytes : Nat])
  /\ next_seq \in 1..(MaxSeq + 1)
  /\ Len(buffer) < next_seq
  /\ Gapless
  /\ cursor \in 0..(next_seq - 1)

(* An eviction drops the oldest events and keeps the others in their order.   *)
LEMMA KeptTail ==
  ASSUME NEW S, NEW events \in Seq(S), NEW evicted \in 0..Len(events)
  PROVE  /\ Kept(events, evicted) \in Seq(S)
         /\ Len(Kept(events, evicted)) = Len(events) - evicted
         /\ \A i \in 1..(Len(events) - evicted) :
              Kept(events, evicted)[i] = events[i + evicted]
  BY DEF Kept

(* What a subscriber can see of a gapless deque.                              *)
LEMMA GaplessView ==
  ASSUME BusInv
  PROVE  /\ Oldest = next_seq - Len(buffer)
         /\ Oldest \in Nat \ {0}
         /\ LastSequence = IF buffer = <<>> THEN 0 ELSE next_seq - 1
         /\ Sequences(buffer) = Oldest..(next_seq - 1)
<1>0. next_seq \in Nat /\ Len(buffer) \in Nat /\ Len(buffer) < next_seq
  BY EventBusAssumption DEF BusInv
<1>1. CASE buffer = <<>>
  BY <1>0, <1>1 DEF Oldest, LastSequence, Sequences
<1>2. CASE buffer # <<>>
  <2>1. Len(buffer) >= 1 /\ DOMAIN buffer = 1..Len(buffer)
    BY <1>2 DEF BusInv
  <2>2. \A i \in 1..Len(buffer) : buffer[i].sequence = next_seq - Len(buffer) + i - 1
    BY <2>1 DEF BusInv, Gapless
  <2>3. Head(buffer) = buffer[1] /\ Last(buffer) = buffer[Len(buffer)]
    BY <1>2 DEF BusInv, Last
  <2>4. Head(buffer).sequence = next_seq - Len(buffer) /\ Last(buffer).sequence = next_seq - 1
    BY <1>0, <2>1, <2>2, <2>3
  <2>5. ASSUME NEW number \in (next_seq - Len(buffer))..(next_seq - 1)
        PROVE  number \in Sequences(buffer)
    <3> DEFINE i == number + 1 - (next_seq - Len(buffer))
    <3>1. i \in 1..Len(buffer)
      BY <1>0
    <3>2. buffer[i].sequence = number
      BY <1>0, <2>2, <3>1
    <3> QED
      BY <2>1, <3>1, <3>2 DEF Sequences
  <2>6. ASSUME NEW i \in 1..Len(buffer)
        PROVE  buffer[i].sequence \in (next_seq - Len(buffer))..(next_seq - 1)
    BY <1>0, <2>2
  <2>7. Sequences(buffer) = (next_seq - Len(buffer))..(next_seq - 1)
    BY <2>1, <2>5, <2>6 DEF Sequences
  <2> QED
    BY <1>0, <1>2, <2>4, <2>7 DEF Oldest, LastSequence
<1> QED
  BY <1>1, <1>2

(* With the new event the deque is still a run, one longer.                   *)
LEMMA AppendedRun ==
  ASSUME BusInv, NEW bytes \in Size, NEW all,
         all = Append(buffer, [sequence |-> next_seq, bytes |-> bytes])
  PROVE  /\ all \in Seq([sequence : Nat, bytes : Nat])
         /\ Len(all) = Len(buffer) + 1
         /\ \A i \in 1..Len(all) : all[i].sequence = next_seq - Len(buffer) + i - 1
<1> DEFINE event == [sequence |-> next_seq, bytes |-> bytes]
<1>0. next_seq \in Nat /\ Len(buffer) \in Nat /\ DOMAIN buffer = 1..Len(buffer)
  BY EventBusAssumption DEF BusInv
<1>1. event \in [sequence : Nat, bytes : Nat]
  BY <1>0, EventBusAssumption
<1>2. all \in Seq([sequence : Nat, bytes : Nat]) /\ Len(all) = Len(buffer) + 1
  BY <1>1 DEF BusInv
<1>3. ASSUME NEW i \in 1..Len(all)
      PROVE  all[i].sequence = next_seq - Len(buffer) + i - 1
  <2>1. CASE i = Len(buffer) + 1
    <3>1. all[i] = event
      BY <2>1 DEF BusInv
    <3> QED
      BY <1>0, <2>1, <3>1
  <2>2. CASE i # Len(buffer) + 1
    <3>1. i \in 1..Len(buffer)
      BY <1>0, <1>2, <2>2
    <3>2. all[i] = buffer[i]
      BY <3>1 DEF BusInv
    <3> QED
      BY <1>0, <3>1, <3>2 DEF BusInv, Gapless
  <2> QED
    BY <2>1, <2>2
<1> QED
  BY <1>2, <1>3

(* The deque stays gapless and the cursor stays behind it.                    *)
THEOREM StaysGapless == BusSpec => []BusInv
<1>1. BusInit => BusInv
  BY EventBusAssumption DEF BusInit, BusInv, Gapless
<1>2. BusInv /\ [BusNext]_busVars => BusInv'
  <2> SUFFICES ASSUME BusInv, [BusNext]_busVars PROVE BusInv'
    OBVIOUS
  <2>0. next_seq \in Nat /\ Len(buffer) \in Nat /\ cursor \in Nat
    BY EventBusAssumption DEF BusInv
  <2>1. ASSUME NEW bytes \in Size, Publish(bytes) PROVE BusInv'
    <3> DEFINE all == Append(buffer, [sequence |-> next_seq, bytes |-> bytes])
               S == [sequence : Nat, bytes : Nat]
    <3>1. all \in Seq(S) /\ Len(all) = Len(buffer) + 1
      BY AppendedRun
    <3>2. \A i \in 1..Len(all) : all[i].sequence = next_seq - Len(buffer) + i - 1
      BY AppendedRun
    <3>3. PICK evicted \in 0..Len(all) : buffer' = Kept(all, evicted)
      BY <2>1 DEF Publish
    <3>4. /\ buffer' \in Seq(S)
          /\ Len(buffer') = Len(all) - evicted
          /\ \A i \in 1..(Len(all) - evicted) : buffer'[i] = all[i + evicted]
      BY <3>1, <3>3, KeptTail
    <3>5. next_seq' = next_seq + 1 /\ next_seq =< MaxSeq /\ cursor' = cursor
      BY <2>1 DEF Publish
    <3>6. Gapless'
      <4>0. DOMAIN buffer' = 1..(Len(all) - evicted)
        BY <3>4
      <4> SUFFICES ASSUME NEW i \in 1..(Len(all) - evicted)
                   PROVE  buffer'[i].sequence = next_seq' - Len(buffer') + i - 1
        BY <4>0 DEF Gapless
      <4>1. i + evicted \in 1..Len(all)
        BY <2>0, <3>1
      <4>2. buffer'[i].sequence = next_seq - Len(buffer) + (i + evicted) - 1
        BY <3>2, <3>4, <4>1
      <4> QED
        BY <2>0, <3>1, <3>4, <3>5, <4>2
    <3>7. next_seq' \in 1..(MaxSeq + 1) /\ cursor' \in 0..(next_seq' - 1)
      BY <2>0, <3>5, EventBusAssumption DEF BusInv
    <3>8. Len(buffer') < next_seq'
      BY <2>0, <3>1, <3>4, <3>5 DEF BusInv
    <3> QED
      BY <3>4, <3>6, <3>7, <3>8 DEF BusInv
  <2>2. CASE Subscribe \/ SubscribeGap
    <3>1. buffer' = buffer /\ next_seq' = next_seq
      BY <2>2 DEF Subscribe, SubscribeGap
    <3>2. cursor' \in {cursor, LastSequence}
      BY <2>2 DEF Subscribe, SubscribeGap
    <3>3. cursor' \in 0..(next_seq - 1)
      BY <2>0, <3>2, GaplessView DEF BusInv
    <3> QED
      BY <3>1, <3>3 DEF BusInv, Gapless
  <2>3. CASE UNCHANGED busVars
    BY <2>3 DEF busVars, BusInv, Gapless
  <2> QED
    BY <2>1, <2>2, <2>3 DEF BusNext
<1> QED
  BY <1>1, <1>2, PTL DEF BusSpec

(* The bus implements the event log: a published event is one more number, an *)
(* eviction moves the floor, and an answer is the promised one.               *)
THEOREM BusImplementsLog == BusSpec => ImplementsEventLog
<1>1. BusInit => Log!Init
  BY DEF BusInit, Log!Init, Oldest
<1>2. BusInv /\ BusInv' /\ [BusNext]_busVars => [Log!Next]_(Log!vars)
  <2> SUFFICES ASSUME BusInv, BusInv', [BusNext]_busVars
               PROVE  Log!Next \/ UNCHANGED Log!vars
    OBVIOUS
  <2>0. /\ next_seq \in Nat \ {0} /\ cursor \in Nat /\ cursor =< next_seq - 1
        /\ Len(buffer) \in Nat
    BY EventBusAssumption DEF BusInv
  <2>1. /\ Oldest = next_seq - Len(buffer) /\ Oldest \in Nat \ {0}
        /\ LastSequence = IF buffer = <<>> THEN 0 ELSE next_seq - 1
        /\ Sequences(buffer) = Oldest..(next_seq - 1)
    BY GaplessView
  <2>3. ASSUME NEW bytes \in Size, Publish(bytes) PROVE Log!Next
    <3> DEFINE all == Append(buffer, [sequence |-> next_seq, bytes |-> bytes])
    <3>1. PICK evicted \in 0..(Len(buffer) + 1) : buffer' = Kept(all, evicted)
      BY <2>3, AppendedRun DEF Publish
    <3>2. next_seq' = next_seq + 1 /\ UNCHANGED <<cursor, known, skipped>>
      BY <2>3 DEF Publish
    <3>3. Oldest' \in Oldest..(next_seq - 1 + 2)
      <4>0. /\ all \in Seq([sequence : Nat, bytes : Nat])
            /\ Len(all) = Len(buffer) + 1
            /\ \A i \in 1..Len(all) : all[i].sequence = next_seq - Len(buffer) + i - 1
        BY AppendedRun
      <4> HIDE DEF all
      <4>1. /\ Kept(all, evicted) \in Seq([sequence : Nat, bytes : Nat])
            /\ Len(Kept(all, evicted)) = Len(buffer) + 1 - evicted
            /\ \A i \in 1..(Len(buffer) + 1 - evicted) :
                 Kept(all, evicted)[i].sequence = next_seq - Len(buffer) + i + evicted - 1
        <5>1. /\ Kept(all, evicted) \in Seq([sequence : Nat, bytes : Nat])
              /\ Len(Kept(all, evicted)) = Len(buffer) + 1 - evicted
              /\ \A i \in 1..(Len(buffer) + 1 - evicted) :
                   Kept(all, evicted)[i] = all[i + evicted]
          <6>1. evicted \in 0..Len(all)
            BY <4>0
          <6>2. all \in Seq([sequence : Nat, bytes : Nat])
            BY <4>0
          <6>3. /\ Kept(all, evicted) \in Seq([sequence : Nat, bytes : Nat])
                /\ Len(Kept(all, evicted)) = Len(all) - evicted
                /\ \A i \in 1..(Len(all) - evicted) :
                     Kept(all, evicted)[i] = all[i + evicted]
            BY <6>1, <6>2, KeptTail
          <6>4. Len(all) = Len(buffer) + 1
            BY <4>0
          <6> QED
            BY <6>3, <6>4
        <5>2. \A i \in 1..(Len(buffer) + 1 - evicted) : i + evicted \in 1..Len(all)
          BY <2>0, <4>0
        <5> HIDE DEF Kept
        <5>3. ASSUME NEW i \in 1..(Len(buffer) + 1 - evicted)
              PROVE  Kept(all, evicted)[i].sequence = next_seq - Len(buffer) + i + evicted - 1
          <6>1. Kept(all, evicted)[i] = all[i + evicted]
            BY <5>1
          <6>2. i + evicted \in 1..Len(all)
            BY <5>2
          <6>3. all[i + evicted].sequence = next_seq - Len(buffer) + (i + evicted) - 1
            BY <4>0, <6>2
          <6>4. i \in Nat /\ evicted \in Nat
            BY <2>0
          <6>5. next_seq - Len(buffer) + (i + evicted) - 1
                  = next_seq - Len(buffer) + i + evicted - 1
            BY <2>0, <6>4
          <6> QED
            BY <6>1, <6>3, <6>5
        <5> QED
          BY <5>1, <5>3
      <4>2. CASE Kept(all, evicted) = <<>>
        <5>1. Oldest' = next_seq + 1
          BY <3>1, <3>2, <4>2 DEF Oldest
        <5> QED
          BY <2>0, <2>1, <5>1
      <4>3. CASE Kept(all, evicted) # <<>>
        <5>1. 1 \in 1..(Len(buffer) + 1 - evicted)
          BY <2>0, <4>1, <4>3
        <5>2. Head(Kept(all, evicted)).sequence = next_seq - Len(buffer) + 1 + evicted - 1
          BY <4>1, <4>3, <5>1
        <5>3. Oldest' = next_seq - Len(buffer) + evicted
          BY <2>0, <3>1, <4>3, <5>2 DEF Oldest
        <5> QED
          BY <2>0, <2>1, <5>1, <5>3
      <4> QED
        BY <4>2, <4>3
    <3> QED
      BY <2>0, <3>2, <3>3 DEF Log!Next, Log!Publish
  <2>4. CASE Subscribe
    <3> DEFINE events == {number \in Sequences(buffer) : number > cursor}
    <3>1. /\ ~Gap
          /\ cursor' = IF events = {} THEN cursor ELSE LastSequence
          /\ known' = known \cup events
          /\ skipped' = IF cursor = 0 THEN skipped \cup (1..(Oldest - 1)) ELSE skipped
          /\ UNCHANGED <<buffer, total_bytes, next_seq>>
      BY <2>4 DEF Subscribe
    <3>2. events = {number \in Oldest..(next_seq - 1) : number > cursor}
      <4>1. Sequences(buffer) = Oldest..(next_seq - 1)
        BY <2>1
      <4> QED
        BY <4>1
    <3>3. cursor' = IF events = {} THEN cursor ELSE next_seq - 1
      <4>1. buffer = <<>> => events = {}
        BY DEF Sequences
      <4> QED
        BY <2>1, <3>1, <4>1
    <3>4. cursor = 0 \/ cursor >= Oldest - 1
      BY <2>0, <2>1, <3>1 DEF Gap
    <3>5. Oldest' = Oldest /\ next_seq' = next_seq
      BY <3>1 DEF Oldest
    <3> QED
      BY <3>1, <3>2, <3>3, <3>4, <3>5 DEF Log!Next, Log!PollEvents
  <2>5. CASE SubscribeGap
    <3>1. cursor > 0 /\ cursor < Oldest - 1
      BY <2>5 DEF SubscribeGap, Gap
    <3>2. cursor' = IF Oldest > next_seq - 1 THEN 0 ELSE next_seq - 1
      <4>1. buffer = <<>> <=> Oldest > next_seq - 1
        BY <2>0, <2>1 DEF BusInv
      <4> QED
        BY <2>1, <2>5, <4>1 DEF SubscribeGap
    <3>3. /\ known' = 1..(next_seq - 1)
          /\ UNCHANGED <<buffer, total_bytes, next_seq, skipped>>
      BY <2>5 DEF SubscribeGap
    <3>4. Oldest' = Oldest /\ next_seq' = next_seq
      BY <3>3 DEF Oldest
    <3> QED
      BY <3>1, <3>2, <3>3, <3>4 DEF Log!Next, Log!PollGap
  <2>6. CASE UNCHANGED busVars
    BY <2>6 DEF busVars, Log!vars, Oldest
  <2> QED
    BY <2>3, <2>4, <2>5, <2>6 DEF BusNext
<1> QED
  BY <1>1, <1>2, StaysGapless, PTL DEF BusSpec, ImplementsEventLog, Log!Spec

(* What EventLog promises its subscribers: the log, with the numbers published *)
(* and the oldest one retained read off the bus.                              *)
published == next_seq - 1

floor == Oldest

LogInv == Log!TypeOK /\ Log!OnlyZeroSkips

(* Whatever keeps the promise of EventLog, however publishing, eviction and   *)
(* polling interleave, passes over an event silently only in a poll from 0.   *)
THEOREM ZeroCursorOnly == Log!Spec => []LogInv
<1> USE DEF published, floor
<1>1. Log!Init => LogInv
  BY DEF Log!Init, LogInv, Log!TypeOK, Log!OnlyZeroSkips
<1>2. LogInv /\ [Log!Next]_(Log!vars) => LogInv'
  <2> SUFFICES ASSUME LogInv, [Log!Next]_(Log!vars) PROVE LogInv'
    OBVIOUS
  <2>0. Log!TypeOK
    BY DEF LogInv
  <2>1. CASE Log!Publish
    <3>1. Log!TypeOK'
      BY <2>0, <2>1 DEF Log!Publish, Log!TypeOK
    <3> QED
      BY <2>1, <3>1 DEF Log!Publish, LogInv, Log!OnlyZeroSkips
  <2>2. CASE Log!PollEvents
    <3> DEFINE events == {number \in floor..published : number > cursor}
    <3>1. /\ cursor' = IF events = {} THEN cursor ELSE published
          /\ known' = known \cup events
          /\ skipped' = IF cursor = 0 THEN skipped \cup (1..(floor - 1)) ELSE skipped
          /\ published' = published /\ floor' = floor
          /\ cursor = 0 \/ cursor >= floor - 1
      BY <2>2 DEF Log!PollEvents
    <3>2. Log!TypeOK'
      <4>1. published \in Nat /\ floor \in Nat /\ floor >= 1 /\ floor =< published + 1
        BY <2>0 DEF Log!TypeOK
      <4>2. events \subseteq 1..published /\ 1..(floor - 1) \subseteq 1..published
        BY <4>1
      <4>3. cursor' \in 0..published
        BY <2>0, <3>1, <4>1 DEF Log!TypeOK
      <4> QED
        BY <2>0, <3>1, <4>2, <4>3 DEF Log!TypeOK
    <3>3. ASSUME NEW number \in 1..cursor' PROVE number \in known' \cup skipped'
      <4>1. CASE number =< cursor
        BY <2>0, <3>1, <4>1 DEF LogInv, Log!OnlyZeroSkips, Log!TypeOK
      <4>2. CASE number > cursor /\ number >= floor
        <5>1. number \in events
          BY <2>0, <3>1, <3>2, <4>2 DEF Log!TypeOK
        <5> QED
          BY <3>1, <5>1
      <4>3. CASE number > cursor /\ number < floor
        \* only a poll from 0 passes over events
        <5>1. cursor = 0 /\ number \in 1..(floor - 1)
          BY <2>0, <3>1, <4>3 DEF Log!TypeOK
        <5> QED
          BY <3>1, <5>1
      <4> QED
        BY <2>0, <3>2, <4>1, <4>2, <4>3 DEF Log!TypeOK
    <3> QED
      BY <3>2, <3>3 DEF LogInv, Log!OnlyZeroSkips
  <2>3. CASE Log!PollGap
    <3>1. Log!TypeOK'
      BY <2>0, <2>3 DEF Log!PollGap, Log!TypeOK
    <3>2. 1..cursor' \subseteq known'
      BY <2>0, <2>3, <3>1 DEF Log!PollGap, Log!TypeOK
    <3> QED
      BY <3>1, <3>2 DEF LogInv, Log!OnlyZeroSkips
  <2>4. CASE UNCHANGED Log!vars
    BY <2>4 DEF Log!vars, LogInv, Log!TypeOK, Log!OnlyZeroSkips
  <2> QED
    BY <2>1, <2>2, <2>3, <2>4 DEF Log!Next
<1> QED
  BY <1>1, <1>2, PTL DEF Log!Spec

(* A subscriber of the bus misses nothing behind its back: an event up to its *)
(* cursor was received, was covered by a snapshot, or was gone when it polled *)
(* from 0.                                                                    *)
THEOREM OnlyZeroCursorSkips == BusSpec => []OnlyZeroSkips
<1>1. LogInv => OnlyZeroSkips
  BY DEF LogInv, OnlyZeroSkips
<1> QED
  BY <1>1, BusImplementsLog, ZeroCursorOnly, PTL DEF ImplementsEventLog
=============================================================================
