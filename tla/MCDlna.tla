------------------------------- MODULE MCDlna -------------------------------
(* Instance for TLC of the renderer and of the scheduler of a subscription,   *)
(* which no code of the repository connects: a behaviour moves the part it    *)
(* begins with.                                                               *)
EXTENDS Renderer, Gena

VARIABLE part

dlnaVars == <<part, rendererVars, genaVars>>

DlnaInit ==
  /\ part \in {"renderer", "scheduler"}
  /\ RendererInit
  /\ GenaInit

Scheduler(step) == part = "scheduler" /\ step /\ UNCHANGED <<part, rendererVars>>

DlnaNext ==
  \/ part = "renderer" /\ RendererNext /\ UNCHANGED <<part, genaVars>>
  \/ Scheduler(GenaNext)

(* The fairness of Gena. *)
DlnaSpec ==
  /\ DlnaInit /\ [][DlnaNext]_dlnaVars
  /\ WF_dlnaVars(Scheduler(Wait)) /\ WF_dlnaVars(Scheduler(Tick))
=============================================================================
