----------------------------- MODULE Lifecycle -----------------------------
(* What the runtime promises of a session (session.rs), without saying who or *)
(* what ends it: an id is opened, at some time ends with an outcome, and the  *)
(* end is accounted for once (a cleanup event).  An id may be opened again at *)
(* any time; what it stood for before is then forgotten, ended or not.        *)
EXTENDS Naturals

CONSTANTS Id, Outcome

VARIABLES phase,    \* "absent", "Active" or how it ended
          opened,   \* how often an id was opened
          ended     \* how often an end was accounted for

vars == <<phase, opened, ended>>

Phase == {"absent", "Active"} \cup Outcome

TypeOK ==
  /\ phase \in [Id -> Phase]
  /\ opened \in [Id -> Nat]
  /\ ended \in [Id -> Nat]

Init ==
  /\ phase = [i \in Id |-> "absent"]
  /\ opened = [i \in Id |-> 0]
  /\ ended = [i \in Id |-> 0]

Open(i) ==
  /\ phase' = [phase EXCEPT ![i] = "Active"]
  /\ opened' = [opened EXCEPT ![i] = @ + 1]
  /\ UNCHANGED ended

(* Several may end by one cause. *)
End(ids, outcome) ==
  /\ \A i \in ids : phase[i] = "Active"
  /\ phase' = [i \in Id |-> IF i \in ids THEN outcome ELSE phase[i]]
  /\ ended' = [i \in Id |-> IF i \in ids THEN ended[i] + 1 ELSE ended[i]]
  /\ UNCHANGED opened

Next ==
  \/ \E i \in Id : Open(i)
  \/ \E ids \in SUBSET Id, outcome \in Outcome : End(ids, outcome)

Spec == Init /\ [][Next]_vars

(* Each use of an id ends at most once, and one that is in use has its end to *)
(* come; what has ended was accounted for; and only opened ids are there.     *)
EndsOncePerUse ==
  \A i \in Id :
    /\ ended[i] + (IF phase[i] = "Active" THEN 1 ELSE 0) <= opened[i]
    /\ phase[i] \in Outcome => ended[i] > 0
    /\ phase[i] = "absent" <=> opened[i] = 0
=============================================================================
