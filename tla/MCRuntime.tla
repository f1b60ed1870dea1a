------------------------------ MODULE MCRuntime ------------------------------
(* Instance for TLC of four parts of the daemon that hold state of their own  *)
(* and share none: the grants of transfers (HostPorts), the endpoints that    *)
(* are known (Discovery), the connections of local clients (LocalApi) and the *)
(* renderers and media URLs of the DLNA controller (MediaController).  No     *)
(* call of one changes another, so a property of one holds in every           *)
(* interleaving exactly when it holds of that part alone: a behaviour moves   *)
(* the part it begins with.                                                   *)
(*                                                                            *)
(* An enabled and a disabled profile; an endpoint that receives files,        *)
(* renders media URLs and is not ready to render a stream; a token that holds *)
(* one scope and one that holds both; an API version that is the daemon's     *)
(* once it is cut to Width.                                                   *)
EXTENDS HostPorts, Discovery, LocalApi, MediaController, TLC

CONSTANTS p1, p2, t1, t2, s1, s2

MCProfile == {p1, p2}
MCProviderSubject == [p \in MCProfile |-> IF p = p1 THEN "provider1" ELSE "provider2"]

MCCapability(role, forms, available) == [role |-> role, forms |-> forms, available |-> available]

MCDeclared ==
  {{MCCapability("receive", {}, TRUE),
    MCCapability("renderer", {"media-resource"}, TRUE),
    MCCapability("renderer", {"encoded-stream"}, FALSE)}}

MCHeld == [t \in {t1, t2} |-> IF t = t1 THEN {s1} ELSE {s1, s2}]

MCApiVersion == {<<0, 1>>, <<2, 1>>, <<1, 0>>}

Symmetry == Permutations(Endpoint) \cup Permutations(Interface)

-----------------------------------------------------------------------------
VARIABLE part

runtimeVars == <<part, vars, discoveryVars, apiVars, controllerVars>>

RuntimeInit ==
  /\ part \in {"host", "discovery", "api", "controller"}
  /\ Init
  /\ DiscoveryInit
  /\ LocalApiInit
  /\ ControllerInit

RuntimeNext ==
  /\ UNCHANGED part
  /\ \/ part = "host" /\ Next /\ UNCHANGED <<discoveryVars, apiVars, controllerVars>>
     \/ part = "discovery" /\ DiscoveryNext /\ UNCHANGED <<vars, apiVars, controllerVars>>
     \/ part = "api" /\ LocalApiNext /\ UNCHANGED <<vars, discoveryVars, controllerVars>>
     \/ part = "controller" /\ ControllerNext /\ UNCHANGED <<vars, discoveryVars, apiVars>>

RuntimeSpec == RuntimeInit /\ [][RuntimeNext]_runtimeVars
=============================================================================
