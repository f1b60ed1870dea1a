------------------------------ MODULE Renderer ------------------------------
(* The DLNA media renderer (dmr.rs): the transport of one item, which plays   *)
(* only with the user's consent, and the table of event subscriptions.        *)
(*                                                                            *)
(* A call that is answered with a fault, and one that finds what it asks for  *)
(* already done, changes nothing and is no step here.  Position, duration,    *)
(* volume and mute are left out: no other operation depends on them.          *)
EXTENDS Naturals, FiniteSets

CONSTANTS Uri,                \* addresses a control point may set
          Allowed,            \* those the fetch policy lets through
          None,               \* no item
          MaxSubscriptions,   \* max_subscriptions
          MaxSid              \* bound on the subscriptions ever made

ASSUME RendererAssumption ==
  /\ Allowed \subseteq Uri
  /\ None \notin Uri
  /\ MaxSubscriptions \in Nat
  /\ MaxSid \in Nat

VARIABLES state, media, consented_uri, subscriptions, next_sid

transport == <<state, media>>
gena == <<subscriptions, next_sid>>
rendererVars == <<transport, consented_uri, gena>>

TransportState == {"NO_MEDIA_PRESENT", "STOPPED", "PLAYING", "PAUSED_PLAYBACK"}

Sid == 1..MaxSid

RendererInit ==
  /\ state = "NO_MEDIA_PRESENT"
  /\ media = None
  /\ consented_uri = None
  /\ subscriptions = {}
  /\ next_sid = 1

-----------------------------------------------------------------------------
(* Mutant: a new address leaves the transport as it was. *)
SetUriPlayingOn(uri) ==
  /\ uri \in Allowed
  /\ media' = uri
  /\ state' = IF state = "NO_MEDIA_PRESENT" THEN "STOPPED" ELSE state
  /\ UNCHANGED <<consented_uri, gena>>

(* Whatever was playing stops, and the new address waits for consent, unless  *)
(* it is the one that last had it.                                            *)
SetUri(uri) ==
  /\ uri \in Allowed
  /\ media' = uri
  /\ state' = "STOPPED"
  /\ UNCHANGED <<consented_uri, gena>>

GrantConsent(uri) ==
  /\ media = uri
  /\ consented_uri' = uri
  /\ UNCHANGED <<transport, gena>>

Play ==
  /\ state \in {"STOPPED", "PAUSED_PLAYBACK"}
  /\ media # None
  /\ consented_uri = media
  /\ state' = "PLAYING"
  /\ UNCHANGED <<media, consented_uri, gena>>

Pause ==
  /\ state = "PLAYING"
  /\ state' = "PAUSED_PLAYBACK"
  /\ UNCHANGED <<media, consented_uri, gena>>

Stop ==
  /\ state \in {"PLAYING", "PAUSED_PLAYBACK"}
  /\ state' = "STOPPED"
  /\ UNCHANGED <<media, consented_uri, gena>>

(* on_playback_ended: the player's report may concern an item that has been   *)
(* replaced in the meantime; it stops whatever is set now.                    *)
PlaybackEnded ==
  /\ media # None
  /\ state' = "STOPPED"
  /\ UNCHANGED <<media, consented_uri, gena>>

Transport ==
  \/ \E uri \in Uri : SetUri(uri)
  \/ Play
  \/ Pause
  \/ Stop
  \/ PlaybackEnded

-----------------------------------------------------------------------------
Subscribe(sid) ==
  /\ Cardinality(subscriptions) < MaxSubscriptions
  /\ sid = next_sid
  /\ subscriptions' = subscriptions \cup {sid}
  /\ next_sid' = next_sid + 1
  /\ UNCHANGED <<transport, consented_uri>>

Unsubscribe(sid) ==
  /\ sid \in subscriptions
  /\ subscriptions' = subscriptions \ {sid}
  /\ UNCHANGED <<transport, consented_uri, next_sid>>

RendererNext ==
  \/ Transport
  \/ \E uri \in Uri : GrantConsent(uri)
  \/ \E sid \in Sid : Subscribe(sid) \/ Unsubscribe(sid)

RendererSpec == RendererInit /\ [][RendererNext]_rendererVars

-----------------------------------------------------------------------------
RendererTypeOK ==
  /\ state \in TransportState
  /\ media \in Allowed \cup {None}
  /\ consented_uri \in Allowed \cup {None}
  /\ subscriptions \subseteq Sid
  /\ next_sid \in 1..(MaxSid + 1)

(* Nothing plays or waits in pause but the item that is set, and only with    *)
(* the user's consent to that item, whatever was consented to before (T42).   *)
PlaysOnlyConsented ==
  state \in {"PLAYING", "PAUSED_PLAYBACK"} => media # None /\ consented_uri = media
=============================================================================
