------------------------------ MODULE Discovery ------------------------------
(* The endpoint registry (endpoints.rs) and the route planned from it         *)
(* (routing.rs), fed with observations of discovery sources (discovery.rs).   *)
(*                                                                            *)
(* An origin stands for profile, source and identity claim together, and a    *)
(* request names the profile of its endpoint.  There is one address per       *)
(* interface.  Names, and the grouping of records under names the user gives  *)
(* (which changes nothing), are left out.  Deadlines are kept as the time     *)
(* that is left, -1 when they have passed: the addresses of a record and the  *)
(* record itself have the same one.                                           *)
EXTENDS Integers, Sequences, FiniteSets, SequencesExt, Functions

CONSTANTS Endpoint,     \* ids that the sources give
          Origin, Interface,
          Declared,     \* sets of capabilities that a peer declares
          Ttl,
          MaxLate,      \* how late an observation may be handled
          MaxRecords    \* bound

ASSUME DiscoveryAssumption == {Ttl, MaxLate, MaxRecords} \subseteq Nat

VARIABLES records,
          sighted,   \* ghost: what is left of each address of an endpoint that was observed
          downFor    \* ghost: the time since an interface went down, up to MaxLate

discoveryVars == <<records, sighted, downFor>>

-----------------------------------------------------------------------------
Role == {"send", "receive", "control", "renderer"}

RequiredRole ==
  [FileSend |-> "receive", FileReceive |-> "send", Control |-> "control",
   Screen |-> "renderer", Mirror |-> "renderer", Audio |-> "renderer", MediaUrl |-> "renderer"]

Purpose == DOMAIN RequiredRole

(* For a file or a control connection any form will do.                       *)
RequiredForms ==
  [Screen |-> {"native-presentation", "encoded-stream"},
   Mirror |-> {"native-presentation", "encoded-stream"},
   Audio |-> {"pcm-stream", "encoded-stream"}, MediaUrl |-> {"media-resource"}]

(* What is known to be at each interface: is the channel secure?              *)
Addresses == UNION {[known -> BOOLEAN] : known \in SUBSET Interface}

EndpointRecord == [id : Endpoint, origin : Origin, addresses : Addresses,
                   capabilities : Declared, left : -1..Ttl]

Observation == [id : Endpoint, origin : Origin, capabilities : Declared,
                addresses : {a \in Addresses : DOMAIN a # {}}]

DiscoveryInit ==
  /\ records = <<>>
  /\ sighted = [a \in Endpoint \X Interface \X BOOLEAN |-> -1]
  /\ downFor = [i \in Interface |-> MaxLate]

(* Neither the name nor the security of an address counts.                    *)
DedupeKey(o) == <<o.origin, DOMAIN o.addresses>>

Same(o) == {i \in DOMAIN records : DedupeKey(records[i]) = DedupeKey(o)}

Left(late) == IF late > Ttl THEN -1 ELSE Ttl - late

Sight(id, o, late) ==
  sighted' = [a \in DOMAIN sighted |->
    IF a[1] = id /\ a[2] \in DOMAIN o.addresses /\ a[3] = o.addresses[a[2]] /\ sighted[a] < Left(late)
    THEN Left(late) ELSE sighted[a]]

(* Whether an interface went down after the observation was made is not       *)
(* known.  The record keeps its id, whatever id the observation has.                  *)
ObserveAgain(o, late) ==
  /\ Same(o) # {}
  /\ LET i == Min(Same(o))
     IN  /\ records' = [records EXCEPT ![i].addresses = o.addresses,
                          ![i].capabilities = o.capabilities, ![i].left = Left(late)]
         /\ Sight(records[i].id, o, late)
  /\ UNCHANGED downFor

(* Whether the id is taken is not looked at.                                  *)
ObserveNew(o, late) ==
  /\ Same(o) = {}
  /\ Len(records) < MaxRecords
  /\ records' = Append(records, [id |-> o.id, origin |-> o.origin, left |-> Left(late),
                                 addresses |-> o.addresses, capabilities |-> o.capabilities])
  /\ Sight(o.id, o, late)
  /\ UNCHANGED downFor

Unexpired(seq) ==
  FoldLeft(LAMBDA kept, r : IF r.left >= 0 THEN Append(kept, r) ELSE kept, <<>>, seq)

Expire ==
  /\ records' = Unexpired(records)
  /\ UNCHANGED <<sighted, downFor>>

InterfaceDown(interface) ==
  /\ records' = Unexpired([i \in DOMAIN records |->
       [records[i] EXCEPT !.addresses = Restrict(@, DOMAIN @ \ {interface})]])
  /\ sighted' = [a \in DOMAIN sighted |-> IF a[2] = interface THEN -1 ELSE sighted[a]]
  /\ downFor' = [downFor EXCEPT ![interface] = 0]

Shorter(left) == IF left < 0 THEN left ELSE left - 1

Elapse ==
  /\ records' = [i \in DOMAIN records |-> [records[i] EXCEPT !.left = Shorter(@)]]
  /\ sighted' = [a \in DOMAIN sighted |-> Shorter(sighted[a])]
  /\ downFor' = [i \in Interface |-> IF downFor[i] < MaxLate THEN downFor[i] + 1 ELSE MaxLate]

DiscoveryNext ==
  \/ \E o \in Observation, late \in 0..MaxLate : ObserveAgain(o, late) \/ ObserveNew(o, late)
  \/ Expire
  \/ \E interface \in Interface : InterfaceDown(interface)
  \/ Elapse

DiscoverySpec == DiscoveryInit /\ [][DiscoveryNext]_discoveryVars

-----------------------------------------------------------------------------
Holding(id) == {i \in DOMAIN records : records[i].id = id}

Get(id) == records[Min(Holding(id))]

(* Mutant: an address counts until the record is swept. *)
SendableAddressesUnswept(r) == DOMAIN r.addresses

SendableAddresses(r) == IF r.left >= 0 THEN DOMAIN r.addresses ELSE {}

Supporting(r, purpose) ==
  {c \in r.capabilities : c.available /\ c.role = RequiredRole[purpose]}

MediaForms(r, purpose) == UNION {c.forms : c \in Supporting(r, purpose)}

RoutePolicy == [allow_plaintext_fallback : BOOLEAN, denied : SUBSET Endpoint, blocked : BOOLEAN]

RouteRequest == [endpoint : Endpoint, purpose : Purpose, min_security : {"plaintext", "secure"}]

Candidates(r, policy, request) ==
  {i \in SendableAddresses(r) :
     \/ r.addresses[i]
     \/ policy.allow_plaintext_fallback /\ request.min_security = "plaintext"}

(* Why there is no route, in the order in which the code asks; or "route".    *)
PlanRoute(policy, request) ==
  LET r == Get(request.endpoint)
      forms == MediaForms(r, request.purpose)
  IN  IF Holding(request.endpoint) = {} THEN "destination-unavailable"
      ELSE IF request.endpoint \in policy.denied THEN "auth-denied"
      ELSE IF policy.blocked THEN "platform-unavailable"
      ELSE IF Supporting(r, request.purpose) = {} THEN "unsupported-feature"
      ELSE IF request.purpose \in DOMAIN RequiredForms
              /\ RequiredForms[request.purpose] \cap forms = {} THEN "unsupported-feature"
      ELSE IF SendableAddresses(r) = {} THEN "destination-unavailable"
      ELSE IF Candidates(r, policy, request) = {} THEN "auth-denied"
      ELSE "route"

(* Secure ones first; among them the interfaces have an order.                *)
RouteAddress(policy, request) ==
  LET r == Get(request.endpoint)
      candidates == Candidates(r, policy, request)
      secure == {i \in candidates : r.addresses[i]}
  IN  IF secure # {} THEN secure ELSE candidates

-----------------------------------------------------------------------------
DiscoveryTypeOK ==
  /\ records \in Seq(EndpointRecord)
  /\ sighted \in [Endpoint \X Interface \X BOOLEAN -> -1..Ttl]
  /\ downFor \in [Interface -> 0..MaxLate]

(* discovery T11-02: whatever came first of late observations, time, sweeps   *)
(* and interfaces that went down, a route leads to an address at which that   *)
(* endpoint was observed within the time to live, by an observation that was  *)
(* handled after its interface last went down (it may have been made before:  *)
(* DownStaysDown), and it is as secure as that observation said.              *)
RoutesAreLive ==
  /\ DiscoveryTypeOK
  /\ \A id \in {records[k].id : k \in DOMAIN records} :
       \A policy \in RoutePolicy, request \in {r \in RouteRequest : r.endpoint = id} :
         PlanRoute(policy, request) = "route" =>
           \A i \in RouteAddress(policy, request) :
             sighted[<<id, i, Get(id).addresses[i]>>] >= 0

-----------------------------------------------------------------------------
(* What comments and documents say and the code does not do: README section 7 *)
(* tells why each of these does not hold.                                     *)

(* endpoints.rs: when an interface goes down its addresses are void, so an    *)
(* observation made before that and handled after it does not bring them back.*)
DownStaysDown ==
  [][\A o \in Observation, late \in 0..MaxLate :
       ObserveAgain(o, late) \/ ObserveNew(o, late)
         => \A i \in DOMAIN o.addresses : downFor[i] >= late]_discoveryVars

(* endpoints.rs: no two records have the same subject.                        *)
SubjectsAreUnique == \A i, j \in DOMAIN records : i # j => records[i].id # records[j].id

(* routing.rs: destination-unavailable means that no address is valid.        *)
FreshIsRoutable ==
  \A id \in Endpoint, i \in Interface :
    (\E secure \in BOOLEAN : sighted[<<id, i, secure>>] >= 0)
      => Holding(id) # {} /\ SendableAddresses(Get(id)) # {}
=============================================================================
