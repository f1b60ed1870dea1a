-------------------------------- MODULE Gena --------------------------------
(* The scheduler of one subscription's notifications (gena.rs): changes are   *)
(* collected for a while and leave together in one numbered NOTIFY.  Its      *)
(* caller logs, ticks, asks for the initial event or for a NOTIFY at once, in *)
(* any order; no code of the repository connects it to the renderer.          *)
(*                                                                            *)
(* A change is the value logged and its age, counted no further than the      *)
(* window; the age of the window stands for window_started_ms.  How the       *)
(* changes are written as XML is left out.                                    *)
EXTENDS Integers, Sequences, SequencesExt

CONSTANTS Value,          \* variables with their values
          Coalesce,       \* coalesce_ms
          SeqLimit,       \* number of values of SEQ
          MaxVariables,   \* bound on the variables of an initial event
          MaxLogged,      \* bound on the changes ever logged
          MaxDirect       \* bound on the NOTIFYs before no more are asked for at once

ASSUME GenaAssumption ==
  /\ Coalesce \in Nat
  /\ SeqLimit \in Nat \ {0, 1}
  /\ {MaxVariables, MaxLogged, MaxDirect} \subseteq Nat

VARIABLES seq, pending, window,   \* of the scheduler and its subscription
          numbers,                \* history: the SEQ of every NOTIFY
          notified,               \* history: the values they carried
          logged                  \* history: the values the caller gave

scheduler == <<seq, pending, window>>
told == <<numbers, notified>>
genaVars == <<scheduler, told, logged>>

Shut == -1            \* no window has been started

Age == 0..Coalesce

GenaInit ==
  /\ seq = 0
  /\ pending = <<>>
  /\ window = Shut
  /\ numbers = <<>>
  /\ notified = <<>>
  /\ logged = <<>>

-----------------------------------------------------------------------------
(* Mutant: a change does not start the window. *)
LogSilently(value) ==
  /\ Len(logged) < MaxLogged
  /\ pending' = Append(pending, [value |-> value, age |-> 0])
  /\ logged' = Append(logged, value)
  /\ UNCHANGED <<seq, window, told>>

(* The window starts with the first change, and later ones do not move it.    *)
Log(value) ==
  /\ Len(logged) < MaxLogged
  /\ pending' = Append(pending, [value |-> value, age |-> 0])
  /\ window' = IF window = Shut THEN 0 ELSE window
  /\ logged' = Append(logged, value)
  /\ UNCHANGED <<seq, told>>

(* Mutant: the number wraps around to that of the initial event. *)
NextSeqThroughZero(number) == (number + 1) % SeqLimit

(* 0 is for the initial event only.                                           *)
NextSeq(number) == IF (number + 1) % SeqLimit = 0 THEN 1 ELSE number + 1

Values(changes) == [i \in DOMAIN changes |-> changes[i].value]

(* One NOTIFY with all that is pending, and with the variables after it.      *)
Flushed(variables) ==
  /\ seq' = NextSeq(seq)
  /\ pending' = <<>>
  /\ window' = Shut
  /\ numbers' = Append(numbers, seq)
  /\ notified' = notified \o Values(pending) \o variables

Due ==
  /\ window # Shut
  /\ pending # <<>>
  /\ window >= Coalesce

Tick ==
  /\ Due
  /\ Flushed(<<>>)
  /\ UNCHANGED logged

(* At once, whether the window has passed or not, and with nothing pending.   *)
Flush ==
  /\ Len(numbers) < MaxDirect
  /\ Flushed(<<>>)
  /\ UNCHANGED logged

(* The variables join what is pending, and leave with it.                     *)
InitialNotify(variables) ==
  /\ Len(numbers) < MaxDirect
  /\ Len(logged) + Len(variables) =< MaxLogged
  /\ Flushed(variables)
  /\ logged' = logged \o variables

Older(age) == IF age < Coalesce THEN age + 1 ELSE age

(* The caller's clock, passed as now_ms.                                      *)
Wait ==
  /\ pending' = [i \in DOMAIN pending |->
                  [value |-> pending[i].value, age |-> Older(pending[i].age)]]
  /\ window' = IF window = Shut THEN Shut ELSE Older(window)
  /\ UNCHANGED <<seq, told, logged>>

GenaNext ==
  \/ \E value \in Value : Log(value)
  \/ Tick
  \/ Flush
  \/ \E variables \in SeqOf(Value, MaxVariables) : InitialNotify(variables)
  \/ Wait

GenaSpec == GenaInit /\ [][GenaNext]_genaVars

(* Time passes, and the caller keeps calling tick.                            *)
FairGena == GenaSpec /\ WF_genaVars(Wait) /\ WF_genaVars(Tick)

-----------------------------------------------------------------------------
Change == [value : Value, age : Age]

GenaTypeOK ==
  /\ seq \in 0..(SeqLimit - 1)
  /\ pending \in Seq(Change)
  /\ window \in Age \cup {Shut}
  /\ numbers \in Seq(0..(SeqLimit - 1))
  /\ notified \in Seq(Value)
  /\ logged \in Seq(Value)

(* What the subscriber was told and what is waiting to be told is, in order,  *)
(* what the caller logged: nothing is lost, repeated or put elsewhere by a    *)
(* tick, a direct flush or an initial event that comes between (gena.rs).     *)
ToldWhatWasLogged == notified \o Values(pending) = logged

(* A subscriber can tell a lost NOTIFY by its number: the first one, and only *)
(* the first, has the number 0, and each has the successor of the one before  *)
(* (F-28).                                                                    *)
NumbersTellLoss ==
  \A i \in DOMAIN numbers :
    /\ numbers[i] = 0 <=> i = 1
    /\ i > 1 => numbers[i] \in {numbers[i - 1] + 1, 1}
    /\ i > 1 /\ numbers[i] # numbers[i - 1] + 1 => numbers[i - 1] = SeqLimit - 1

(* Changes are told together: a tick makes no NOTIFY before the oldest change *)
(* in it has waited for the whole window, whatever was flushed meanwhile      *)
(* (F-27).                                                                    *)
ChangesAreCollected ==
  [][Tick => Head(pending).age = Coalesce]_genaVars

(* However often changes are logged meanwhile, and whatever is flushed at     *)
(* once, the subscriber is told of every change in its place.                 *)
SubscribersCatchUp ==
  \A n \in 1..MaxLogged :
    n \in DOMAIN logged ~> n \in DOMAIN notified /\ notified[n] = logged[n]
=============================================================================
