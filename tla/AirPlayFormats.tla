--------------------------- MODULE AirPlayFormats ---------------------------
(***************************************************************************)
(* What an AirPlay receiver understands: the numbers that name streams and *)
(* audio formats, the bodies of its control requests, the pairing paths,   *)
(* the framing of RTSP requests and the features it may advertise.  Each   *)
(* check answers "accepted" or the code of its error.                      *)
(***************************************************************************)
EXTENDS Integers, Sequences, FiniteSets

Either(checks, otherwise) ==
    (* the verdict of the first check that fails *)
    IF \E i \in DOMAIN checks : ~checks[i][1]
    THEN checks[CHOOSE i \in DOMAIN checks : /\ ~checks[i][1]
                                             /\ \A j \in 1..i - 1 : checks[j][1]][2]
    ELSE otherwise

----------------------------------------------------------------------------
(* The types of streams and the dictionaries that describe them *)

StreamType == {96, 103, 110, 120, 130}
Routable == {96, 110}

ResponseKeys(t) ==
    CASE t = 96  -> {"dataPort", "controlPort", "type"}
      [] t = 103 -> {"dataPort", "audioBufferSize", "type"}
      [] t = 110 -> {"dataPort", "type"}
      [] OTHER   -> {}

(* StreamResponse::build: the keys answered, none when it refuses. *)
Response(t, hasControlPort) ==
    CASE t = 96 /\ hasControlPort -> {"dataPort", "controlPort", "type"}
      [] t = 110                  -> {"dataPort", "type"}
      [] OTHER                    -> {}

(* The compression types of realtime audio and the samples in a frame; none *)
(* is known for PCM.                                                        *)
CompressionType == {1, 2, 4, 8}
SamplesPerFrame(ct) == CASE ct = 2 -> {352} [] ct = 4 -> {1024} [] ct = 8 -> {480} [] OTHER -> {}
DecodableHere(ct) == ct = 1

U16 == 0..65535

(* RealtimeAudioRequest::validate of a function from the keys present to    *)
(* their values.                                                            *)
ValidateAudio(keys) ==
    IF ~({"controlPort", "ct", "spf", "audioFormat"} \subseteq DOMAIN keys) THEN "invalid-frame"
    ELSE Either(<< <<keys["ct"] \in CompressionType, "unsupported-profile">>,
                   <<keys["controlPort"] \in U16, "invalid-frame">>,
                   <<keys["spf"] \in U16, "invalid-frame">> >>, "accepted")

SpfMatchesSource(keys) == keys["spf"] \in SamplesPerFrame(keys["ct"])

(* The packed formats of the second generation and, in numbers of their own, *)
(* the marks in the SSRC field of a buffered stream.                         *)
PackedFormats == [v \in {262144, 524288, 1048576, 2097152} |->
    [codec |-> "Alac", rate |-> IF v < 1048576 THEN 44100 ELSE 48000,
     depth |-> IF v \in {262144, 1048576} THEN 16 ELSE 24, channels |-> 2]]

SsrcProfiles ==
    LET Profile(codec, rate, depth, channels) ==
            [codec |-> codec, rate |-> rate, depth |-> depth, channels |-> channels]
    IN  [v \in {64206, 352321536, 369098752, 385875968, 654311424, 671088640} |->
           CASE v = 64206     -> Profile("Alac", 44100, 16, 2)
             [] v = 352321536 -> Profile("Alac", 48000, 24, 2)
             [] v = 369098752 -> Profile("Aac", 44100, 24, 2)
             [] v = 385875968 -> Profile("Aac", 48000, 24, 2)
             [] v = 654311424 -> Profile("Aac", 48000, 24, 6)
             [] v = 671088640 -> Profile("Aac", 48000, 24, 8)]

(* An unknown mark reads as 0, "no format". *)
FromSsrc(v) == IF v \in DOMAIN SsrcProfiles THEN v ELSE 0

(* SsrcTracker::observe: the format in force after a frame marked v. *)
ObserveSsrc(current, v) == IF FromSsrc(v) = 0 THEN current ELSE FromSsrc(v)

----------------------------------------------------------------------------
(* Control requests of the audio path *)

AllowedKeys(path) == CASE path = "/audioMode" -> {"mode"}
                       [] path = "/feedback"  -> {"elapsed_ms"}

(* Mutant: keys that are missing are not noticed. *)
CheckShapeAnyMissing(request, raw) ==
    Either(<< <<raw.method = "POST", "invalid-frame">>, <<raw.path = request, "invalid-frame">>,
              <<raw.type = "plist", "invalid-frame">>,
              <<raw.keys \subseteq AllowedKeys(request), "invalid-frame">> >>, "accepted")

CheckShape(request, raw) ==
    Either(<< <<raw.method = "POST", "invalid-frame">>, <<raw.path = request, "invalid-frame">>,
              <<raw.type = "plist", "invalid-frame">>,
              <<raw.keys \subseteq AllowedKeys(request), "invalid-frame">>,
              <<AllowedKeys(request) \subseteq raw.keys, "invalid-frame">> >>, "accepted")

PairingPaths == {"/pair-pin-start", "/pair-setup-pin", "/pair-setup", "/pair-verify", "/fp-setup"}

(* The pairing paths: what a body may hold, and that no exchange is done. *)
PairingKeys(path) ==
    CASE path = "/pair-pin-start" -> {}
      [] path = "/pair-setup-pin" ->
            {"method", "user", "pk", "salt", "proof", "epk", "authTag"}
      [] path = "/pair-setup"     -> {"pk"}
      [] path = "/pair-verify"    -> {"pk", "signature"}

CheckPairing(path, keys) ==
    IF path = "/fp-setup" THEN "vendor-gated"
    ELSE Either(<< <<PairingKeys(path) = {} \/ keys \subseteq PairingKeys(path),
                     "invalid-frame">> >>, "unsupported-feature")

----------------------------------------------------------------------------
(* RTSP framing.  A raw request has a method, a path, the values of its      *)
(* Content-Length headers, the bytes of body at hand and whether the head is *)
(* well formed and within its bounds.                                        *)

Methods == {"GET", "POST", "SETUP", "PLAY", "RECORD", "TEARDOWN", "OPTIONS"}

ParseRtsp(raw, maxBody) ==
    LET lengths == raw.lengths
        declared == IF lengths = <<>> THEN 0 ELSE lengths[1]
    IN  Either(<< <<raw.head # "too-long", "resource-limit">>,
                  <<raw.head = "ok", "invalid-frame">>,
                  <<raw.method \in Methods, "invalid-frame">>,
                  <<declared >= 0, "invalid-frame">>,
                  <<declared <= maxBody, "resource-limit">>,
                  <<Len(lengths) <= 1, "invalid-frame">>,
                  <<raw.method = "POST" => lengths # <<>>, "invalid-frame">>,
                  <<raw.body >= declared, "invalid-frame">> >>, "accepted")

----------------------------------------------------------------------------
(* The features that are advertised follow from what is implemented. *)

Implementable == {"h264_decode", "hevc_decode", "alac_decode", "pcm_playback",
                  "native_window", "transient_pairing", "pin_pairing"}

Support == [f \in {"video-receiver-h264", "video-receiver-hevc", "audio-receiver-alac",
                   "audio-receiver-pcm", "transient-pairing", "pin-pairing"} |->
    CASE f = "video-receiver-h264" -> "h264_decode"
      [] f = "video-receiver-hevc" -> "hevc_decode"
      [] f = "audio-receiver-alac" -> "alac_decode"
      [] f = "audio-receiver-pcm"  -> "pcm_playback"
      [] f = "transient-pairing"   -> "transient_pairing"
      [] f = "pin-pairing"         -> "pin_pairing"]

AdvertisedFeatures(inventory) == {f \in DOMAIN Support : Support[f] \in inventory}

(* ImplementationInventory::current *)
Current == {}
=============================================================================
