------------------------- MODULE MCWorkerSupervisor -------------------------
(* Instance of WorkerSupervisor for TLC: every profile names the hash "h".    *)
EXTENDS WorkerSupervisor

MCExpected == [p \in ProviderProfile |-> "h"]
=============================================================================
