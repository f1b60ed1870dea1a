---------------------------- MODULE CastMessages ----------------------------
(***************************************************************************)
(* How Cast messages look on the wire (proto-cast, castv2.rs and           *)
(* namespaces.rs): frames with a length prefix, the fields of an envelope, *)
(* and the JSON objects of the four namespaces.  An object is a function   *)
(* from the keys it has to values; a nested key is written with a dot, and *)
(* a value is only as fine as the decoder tells values apart.              *)
(***************************************************************************)
EXTENDS Integers, Sequences, SequencesExt

CONSTANT MaxBody   \* MAX_BODY_BYTES, in fields

----------------------------------------------------------------------------
(* Envelopes: sequences of fields with a number, a wire type and a value.  *)

WireOf == [n \in 1..7 |-> IF n \in {1, 5} THEN "varint" ELSE "bytes"]

Field(n, v) == [n |-> n, wire |-> WireOf[n], v |-> v]

EncodeBody(m) ==
    << Field(1, m.version), Field(2, m.source), Field(3, m.destination),
       Field(4, m.namespace), Field(5, m.kind), Field(6 + m.kind, m.payload) >>

(* encode_body refuses what decode_body would. *)
Encodable(m) ==
    /\ m.version \in 0..3
    /\ "" \notin {m.source, m.destination, m.namespace}
    /\ Len(EncodeBody(m)) <= MaxBody

(* A chunked message is refused at its first mark; a known field replaces an *)
(* earlier one of its number; everything else is skipped.                    *)
ReadField(read, f) ==
    IF read.chunked \/ (f.wire = "varint" /\ (f.n = 9 \/ (f.n = 8 /\ f.v # 0)))
    THEN [read EXCEPT !.chunked = TRUE]
    ELSE IF f.n \in DOMAIN WireOf /\ f.wire = WireOf[f.n]
    THEN [read EXCEPT !.seen = [n \in DOMAIN @ \cup {f.n} |-> IF n = f.n THEN f.v ELSE @[n]]]
    ELSE read

ReadBody(body) == FoldLeft(ReadField, [chunked |-> FALSE, seen |-> <<>>], body)

Refused(code) == [verdict |-> code]

(* Mutant: a payload of either kind will do. *)
DecodeBodyAnyPayload(body) ==
    LET read == ReadBody(body)
        seen == read.seen
    IN  IF Len(body) > MaxBody THEN Refused("resource-limit")
        ELSE IF read.chunked THEN Refused("unsupported-feature")
        ELSE IF /\ 1..5 \subseteq DOMAIN seen
                /\ seen[1] \in 0..3
                /\ "" \notin {seen[n] : n \in 2..4}
                /\ seen[5] \in {0, 1} /\ 6 + seen[5] \in DOMAIN seen
             THEN [verdict |-> "accepted", version |-> seen[1], source |-> seen[2],
                   destination |-> seen[3], namespace |-> seen[4],
                   kind |-> seen[5], payload |-> seen[6 + seen[5]]]
             ELSE Refused("invalid-frame")

DecodeBody(body) ==
    LET read == ReadBody(body)
        seen == read.seen
    IN  IF Len(body) > MaxBody THEN Refused("resource-limit")
        ELSE IF read.chunked THEN Refused("unsupported-feature")
        ELSE IF /\ 1..5 \subseteq DOMAIN seen
                /\ seen[1] \in 0..3
                /\ "" \notin {seen[n] : n \in 2..4}
                /\ seen[5] \in {0, 1} /\ {6, 7} \cap DOMAIN seen = {6 + seen[5]}
             THEN [verdict |-> "accepted", version |-> seen[1], source |-> seen[2],
                   destination |-> seen[3], namespace |-> seen[4],
                   kind |-> seen[5], payload |-> seen[6 + seen[5]]]
             ELSE Refused("invalid-frame")

----------------------------------------------------------------------------
(* Frames: four bytes of length, here in base MaxBody + 2, and a body. *)

HeaderBytes == 4
Digit == MaxBody + 2

EncodeFrame(body) == <<0, 0, Len(body) \div Digit, Len(body) % Digit>> \o body

Declared(bytes) == ((bytes[1] * Digit + bytes[2]) * Digit + bytes[3]) * Digit + bytes[4]

(* The length is looked at before the body: too long, then too short. *)
DecodeFrame(bytes) ==
    IF Len(bytes) < HeaderBytes THEN Refused("invalid-frame")
    ELSE IF Declared(bytes) > MaxBody THEN Refused("resource-limit")
    ELSE IF Len(bytes) < HeaderBytes + Declared(bytes) THEN Refused("invalid-frame")
    ELSE LET message == DecodeBody(SubSeq(bytes, HeaderBytes + 1, HeaderBytes + Declared(bytes)))
         IN  IF message.verdict = "accepted"
             THEN [verdict |-> "accepted", message |-> message,
                   consumed |-> HeaderBytes + Declared(bytes)]
             ELSE message

----------------------------------------------------------------------------
(* Objects.  What each key may hold, and what is made of it, is a function   *)
(* from the values that are accepted, "absent" among them where it may be.   *)

String == {"", "text", "PLAYBACK_START", "PLAYING", "BUFFERING", "PAUSED", "IDLE",
           "UNKNOWN", "BUFFERED", "LIVE"}
Value == String \cup {"null", "number", "bool", "object", "list", "entries", "absent"}

Strict(set) == [v \in set |-> v]
Defaulting(set, soft, default) == [v \in set \cup soft |-> IF v \in set THEN v ELSE default]
Optional(set) == Defaulting(set, {"absent", "null"}, "none")
Lenient(set, default) == Defaulting(set, Value \ set, default)

Types == [connection |-> {"CONNECT", "CONNECTED", "CLOSE"},
          heartbeat  |-> {"PING", "PONG"},
          receiver   |-> {"LAUNCH", "GET_STATUS", "STOP", "SET_VOLUME", "RECEIVER_STATUS",
                          "LAUNCH_ERROR"},
          media      |-> {"LOAD", "PLAY", "PAUSE", "STOP", "SEEK", "GET_STATUS",
                          "MEDIA_STATUS", "LOAD_FAILED"}]

StreamType == {"UNKNOWN", "BUFFERED", "LIVE"}
PlayerState == {"PLAYING", "BUFFERING", "PAUSED", "IDLE", "UNKNOWN"}

(* What a volume is read from; a volume has a level and a mute key, which may *)
(* be absent.                                                                 *)
VolumeKeys(missing, held) ==
    LET volume == [v \in {"object", "null", "absent"} |->
                     IF v = "absent" THEN missing ELSE "object"]
        read   == held \in DOMAIN volume /\ volume[held] = "object"
    IN  [k \in {"volume"} \cup IF read THEN {"volume.level", "volume.muted"} ELSE {} |->
           CASE k = "volume"       -> volume
             [] k = "volume.level" -> Optional({"number"})
             [] k = "volume.muted" -> Optional({"bool"})]

ConnectKeys ==
    [k \in {"userAgent", "senderInfo", "senderInfo.version"} |->
       IF k = "senderInfo" THEN Defaulting({"object"}, {"absent"}, "object")
                           ELSE Lenient(String, "")]

LaunchErrorKeys ==
    [k \in {"reason", "appId"} |-> IF k = "reason" THEN Strict(String) ELSE Lenient(String, "none")]

LoadKeys ==
    [k \in {"media", "media.contentId", "media.contentType", "media.streamType",
            "media.metadata.title", "autoplay", "currentTime", "customData"} |->
       CASE k = "media"                                  -> Strict({"object"})
         [] k \in {"media.contentId", "media.contentType"} -> Strict(String \ {""})
         [] k = "media.streamType"                       -> Strict(StreamType)
         [] k = "media.metadata.title"                   -> Lenient(String, "none")
         [] k = "autoplay"    -> Defaulting({"bool"}, {"absent", "null"}, "bool")
         [] k = "currentTime" -> Optional({"number"})
         [] k = "customData"  -> Defaulting({"object"}, {"absent"}, "object")]

MediaStatusKeys(media) ==
    [k \in {"playerState", "mediaSessionId", "idleReason", "currentTime", "media"}
           \cup IF media = "object"
                THEN {"media.contentId", "media.streamType", "media.duration"} ELSE {} |->
       CASE k = "playerState"      -> Strict(PlayerState)
         [] k = "idleReason"       -> Lenient(String, "none")
         [] k = "media"            -> Optional({"object"})
         [] k = "media.contentId"  -> Lenient(String, "")
         [] k = "media.streamType" -> Defaulting(StreamType, Value \ String, "UNKNOWN")
         [] OTHER                  -> Lenient({"number"}, "none")]

ReceiverStatusKeys(applications) ==
    [k \in {"status", "applications", "isStandBy"}
           \cup IF applications = "entries"
                THEN {"app.appId", "app.transportId", "app.sessionId"} ELSE {} |->
       CASE k = "status"       -> Defaulting({"object"}, {"absent"}, "object")
         [] k = "applications" -> Defaulting({"list", "entries"}, {"absent"}, "list")
         [] k = "isStandBy"    -> Lenient({"bool"}, "none")
         [] k = "app.appId"    -> Strict(String)
         [] OTHER              -> Lenient(String, "none")]

SeekKeys ==
    [k \in {"resumeState", "currentTime"} |->
       Strict(IF k = "resumeState" THEN {"PLAYBACK_START"} ELSE {"number"})]

At(object, key) == IF key \in DOMAIN object THEN object[key] ELSE "absent"

With(f, g) == [k \in DOMAIN f \cup DOMAIN g |-> IF k \in DOMAIN f THEN f[k] ELSE g[k]]

(* The keys that are read in an object of this type. *)
KeysOf(type, object) ==
    CASE type = "CONNECT"         -> ConnectKeys
      [] type = "LAUNCH"          -> [k \in {"appId"} |-> Strict(String)]
      [] type = "LAUNCH_ERROR"    -> LaunchErrorKeys
      [] type = "SET_VOLUME"      -> VolumeKeys("object", At(object, "volume"))
      [] type = "RECEIVER_STATUS" -> With(ReceiverStatusKeys(At(object, "applications")),
                                          VolumeKeys("none", At(object, "volume")))
      [] type = "LOAD"            -> LoadKeys
      [] type = "SEEK"            -> SeekKeys
      [] type = "MEDIA_STATUS"    -> With(MediaStatusKeys(At(object, "media")),
                                          VolumeKeys("none", At(object, "volume")))
      [] type = "LOAD_FAILED"     -> [k \in {"reason"} |-> Lenient(String, "")]
      [] OTHER                    -> <<>>

(* CastPayload::decode *)
Decode(namespace, object) ==
    IF namespace \notin DOMAIN Types THEN Refused("unsupported-feature")
    ELSE IF "type" \notin DOMAIN object THEN Refused("invalid-frame")
    ELSE IF object["type"] \notin Types[namespace] THEN Refused("unsupported-feature")
    ELSE LET keys == KeysOf(object["type"], object)
         IN  IF \E k \in DOMAIN keys : At(object, k) \notin DOMAIN keys[k]
             THEN Refused("invalid-frame")
             ELSE [verdict |-> "accepted", namespace |-> namespace, type |-> object["type"],
                   keys |-> [k \in DOMAIN keys |-> keys[k][At(object, k)]]]

(* CastPayload::encode: what is not known is left out, but for a few keys of  *)
(* a status, which are then null; an empty app id is refused.                 *)
NullKeys(type) ==
    CASE type = "RECEIVER_STATUS" -> {"volume", "isStandBy", "app.transportId", "app.sessionId"}
      [] type = "MEDIA_STATUS"    -> {"media.duration"}
      [] OTHER                    -> {}

Encode(p) ==
    [k \in {"type"} \cup {k \in DOMAIN p.keys : p.keys[k] # "none" \/ k \in NullKeys(p.type)} |->
       IF k = "type" THEN p.type ELSE IF p.keys[k] = "none" THEN "null" ELSE p.keys[k]]

CanEncode(p) == p.type = "LAUNCH" => p.keys["appId"] # ""

(* decode_message: a control message is text. *)
DecodeMessage(message) ==
    IF message.kind = 0 THEN Decode(message.namespace, message.payload)
    ELSE Refused("unsupported-feature")
=============================================================================
