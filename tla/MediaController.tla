--------------------------- MODULE MediaController ---------------------------
(* The DLNA controller: the registry of renderers that announce themselves    *)
(* (dmc.rs, RendererRegistry; the messages of ssdp.rs) and the leases of the  *)
(* media URLs that it hands to them (UrlLeaseStore).                          *)
(*                                                                            *)
(* A location is one that the fetch policy allows or not.  Expiry times are   *)
(* kept as the time that is left.  A lease is its number: the token is random *)
(* in the code and taken to be new.                                           *)
EXTENDS Naturals, FiniteSets

CONSTANTS Usn,
          Location, AllowedLocation,   \* DescriptionFetchPolicy
          Format,                      \* protocol and media type together
          MaxAge,                      \* ages that announcements give
          DefaultMaxAge,
          Url, LeaseTtl,
          MaxLeases                    \* bound

ASSUME ControllerAssumption ==
  /\ AllowedLocation \subseteq Location
  /\ MaxAge \subseteq Nat
  /\ {DefaultMaxAge, LeaseTtl, MaxLeases} \subseteq Nat

VARIABLES renderers,   \* what is known of each renderer
          leases,      \* the lease store
          counter,
          promised     \* ghost: the latest lease of each URL and what is left of it

controllerVars == <<renderers, leases, counter, promised>>

-----------------------------------------------------------------------------
(* described: ghost, the location whose description gave protocol_info.       *)
RendererEntry == [location : AllowedLocation, protocol_info : SUBSET Format,
                  left : Nat, described : SUBSET AllowedLocation]

UrlLease == [token : 1..MaxLeases, url : Url, left : 0..LeaseTtl]

ControllerInit ==
  /\ renderers = [u \in {} |-> {}]
  /\ leases = {}
  /\ counter = 0
  /\ promised = [url \in Url |-> [token |-> 0, left |-> 0]]

Known(usn) == usn \in DOMAIN renderers

EntryOf(usn, location, left) ==
  [location |-> location, left |-> left,
   protocol_info |-> IF Known(usn) THEN renderers[usn].protocol_info ELSE {},
   described |-> IF Known(usn) THEN renderers[usn].described ELSE {}]

(* ssdp:alive and ssdp:update; a location that is refused changes nothing.    *)
Alive(usn, location, left) ==
  /\ location \in AllowedLocation
  /\ renderers' = [u \in DOMAIN renderers \cup {usn} |->
                     IF u = usn THEN EntryOf(usn, location, left) ELSE renderers[u]]
  /\ UNCHANGED <<leases, counter, promised>>

ByeBye(usn) ==
  /\ renderers' = [u \in DOMAIN renderers \ {usn} |-> renderers[u]]
  /\ UNCHANGED <<leases, counter, promised>>

SetProtocolInfo(usn, info) ==
  /\ Known(usn)
  /\ renderers' = [renderers EXCEPT ![usn].protocol_info = info,
                                    ![usn].described = {renderers[usn].location}]
  /\ UNCHANGED <<leases, counter, promised>>

LiveRenderers == {usn \in DOMAIN renderers : renderers[usn].left > 0}

(* Whether the renderer is still live is not asked.                           *)
MayPush(usn, format) == Known(usn) /\ format \in renderers[usn].protocol_info

-----------------------------------------------------------------------------
(* A new lease takes the place of the one the URL has.                        *)
GrantLease(url) ==
  /\ counter < MaxLeases
  /\ counter' = counter + 1
  /\ leases' = {l \in leases : l.url # url}
               \cup {[token |-> counter', url |-> url, left |-> LeaseTtl]}
  /\ promised' = [promised EXCEPT ![url] = [token |-> counter', left |-> LeaseTtl]]
  /\ UNCHANGED renderers

(* No random token could be had: the lease before it is gone all the same.    *)
GrantFails(url) ==
  /\ counter < MaxLeases
  /\ counter' = counter + 1
  /\ leases' = {l \in leases : l.url # url}
  /\ promised' = [promised EXCEPT ![url].left = 0]
  /\ UNCHANGED renderers

Broken(token) == [url \in Url |->
  IF promised[url].token = token THEN [promised[url] EXCEPT !.left = 0] ELSE promised[url]]

(* Mutant: with a lease that was replaced goes the one that took its place. *)
RevokeNotNewer(token) ==
  /\ token \in 1..counter
  /\ leases' = {l \in leases : l.token < token}
  /\ promised' = Broken(token)
  /\ UNCHANGED <<renderers, counter>>

(* Any lease that was granted, also one that is replaced or has run out.      *)
Revoke(token) ==
  /\ token \in 1..counter
  /\ leases' = {l \in leases : l.token # token}
  /\ promised' = Broken(token)
  /\ UNCHANGED <<renderers, counter>>

RevokeForUrl(url) ==
  /\ leases' = {l \in leases : l.url # url}
  /\ promised' = [promised EXCEPT ![url].left = 0]
  /\ UNCHANGED <<renderers, counter>>

SweepLeases ==
  /\ leases' = {l \in leases : l.left > 0}
  /\ UNCHANGED <<renderers, counter, promised>>

IsLive(url) == \E l \in leases : l.url = url /\ l.left > 0

Passed(left) == IF left = 0 THEN 0 ELSE left - 1

Pass ==
  /\ renderers' = [u \in DOMAIN renderers |-> [renderers[u] EXCEPT !.left = Passed(@)]]
  /\ leases' = {[l EXCEPT !.left = Passed(@)] : l \in leases}
  /\ promised' = [url \in Url |-> [promised[url] EXCEPT !.left = Passed(@)]]
  /\ UNCHANGED counter

ControllerNext ==
  \/ \E usn \in Usn, location \in Location, left \in MaxAge \cup {DefaultMaxAge} :
       Alive(usn, location, left)
  \/ \E usn \in Usn : ByeBye(usn)
  \/ \E usn \in Usn, info \in SUBSET Format : SetProtocolInfo(usn, info)
  \/ \E url \in Url : GrantLease(url) \/ GrantFails(url) \/ RevokeForUrl(url)
  \/ \E token \in 1..MaxLeases : Revoke(token)
  \/ SweepLeases
  \/ Pass

ControllerSpec == ControllerInit /\ [][ControllerNext]_controllerVars

-----------------------------------------------------------------------------
ControllerTypeOK ==
  /\ DOMAIN renderers \subseteq Usn
  /\ \A usn \in DOMAIN renderers : renderers[usn] \in RendererEntry
  /\ leases \subseteq UrlLease /\ counter \in 0..MaxLeases

(* dmc.rs T41-04: a URL can be fetched exactly as long as the latest lease it *)
(* was given lasts and is not revoked: replacing ends the one before, and a   *)
(* late revocation of a lease that was replaced does not end the new one.     *)
LeasesAreExact ==
  /\ ControllerTypeOK
  /\ \A url \in Url : IsLive(url) <=> promised[url].left > 0
  /\ \A l, k \in leases : l.url = k.url => l = k

-----------------------------------------------------------------------------
(* What comments and documents say and the code does not do: README section 7 *)
(* tells why each of these does not hold.                                     *)

(* dmc.rs: a renderer that has expired is gone.                               *)
ExpiredIsNotPushed ==
  \A usn \in Usn, format \in Format : MayPush(usn, format) => usn \in LiveRenderers

(* dmc.rs T41-02: only what the renderer itself declares is pushed to it: the *)
(* declaration of the description it announces now.                           *)
DeclarationIsCurrent ==
  \A usn \in DOMAIN renderers :
    renderers[usn].protocol_info # {} => renderers[usn].described = {renderers[usn].location}
=============================================================================
