--------------------------- MODULE ControlFrames ---------------------------
(***************************************************************************)
(* The two layers of Quick Share control frames: control.rs and the frame  *)
(* types of payload.rs.  A frame on the wire is a version, a type, the     *)
(* number of its body field and the body; the inner layer numbers its      *)
(* types anew and travels as the body of a chunk of a BYTES payload.       *)
(* Byte coding and unknown fields are left out, and every frame carries    *)
(* one body; a body is a record of the fields that are present.            *)
(***************************************************************************)
EXTENDS Integers

CONSTANTS INTERVAL, TIMEOUT,   \* the policy of this repository
          MaxMillis            \* the greatest value a negotiated field may have

Refused == [refused |-> TRUE]

OUTER_PAYLOAD == [type |-> 3, field |-> 4]
OUTER_KEEP_ALIVE == [type |-> 5, field |-> 6]
OUTER_DISCONNECTION == [type |-> 6, field |-> 7]
INNER_ENCRYPTION == [type |-> 3, field |-> 4]
INNER_RESULT == [type |-> 4, field |-> 5]

ControlFrame(number, body) ==
    [version |-> 1, type |-> number.type, field |-> number.field, body |-> body]

(* The body of a frame of this number, or Refused. *)
DecodeV1(f, number) ==
    IF f.version = 1 /\ f.type = number.type /\ f.field = number.field
    THEN f.body ELSE Refused

----------------------------------------------------------------------------
(* Keep-alive *)

EncodeKeepAlive(ack) == ControlFrame(OUTER_KEEP_ALIVE, [ack |-> ack])

DecodeKeepAlive(f) == DecodeV1(f, OUTER_KEEP_ALIVE)

(* Only a positive value that fits is accepted; an absent field (the empty *)
(* set) takes the value of this repository; the timeout must be longer.    *)
FromNegotiation(interval, timeout) ==
    LET i == IF interval = {} THEN INTERVAL ELSE CHOOSE v \in interval : TRUE
        t == IF timeout = {} THEN TIMEOUT ELSE CHOOSE v \in timeout : TRUE
    IN  IF i \in 1..MaxMillis /\ t \in 1..MaxMillis /\ t > i
        THEN [interval |-> i, timeout |-> t] ELSE Refused

----------------------------------------------------------------------------
(* Payload frames *)

PayloadFrame(packet, header, chunk) ==
    ControlFrame(OUTER_PAYLOAD, [packet |-> packet, header |-> header, chunk |-> chunk])

DataPayload(id, kind, last, offset, body) ==
    PayloadFrame("data", {[id |-> id, kind |-> kind, total |-> "known"]},
                 {[last |-> last, offset |-> offset, body |-> body]})

(* The packet type is required; header and chunk are sets of at most one. *)
DecodePayload(f) ==
    LET body == DecodeV1(f, OUTER_PAYLOAD)
    IN  IF "packet" \in DOMAIN body THEN body ELSE Refused

ClassifyPayload(body) == IF body.packet = "control" THEN Refused ELSE body.packet

EncodePayloadAck(id) ==
    PayloadFrame("ack", {[id |-> id, kind |-> "file", total |-> "indeterminate"]}, {})

(* The payload an acknowledgement names. *)
DecodePayloadAck(f) ==
    LET body == DecodePayload(f)
    IN  IF /\ body # Refused
           /\ body.packet = "ack" /\ body.chunk = {}
           /\ \E h \in body.header : h.total = "indeterminate"
        THEN {h.id : h \in body.header} ELSE {}

(* Mutant: every chunk is acknowledged. *)
ShouldSendPayloadAckEarly(kind, last) == kind # "bytes"

ShouldSendPayloadAck(kind, last) == last /\ kind # "bytes"

WrapInner(inner, id) == DataPayload(id, "bytes", FALSE, 0, inner)

(* Mutant: a payload of any kind may carry them. *)
UnwrapAny(f) ==
    LET body == DecodePayload(f)
    IN  IF body = Refused THEN {}
        ELSE {[inner |-> c.body, id |-> h.id] :
                 c \in {k \in body.chunk : k.offset = 0}, h \in body.header}

(* The inner frames a payload frame carries, with the payload's id. *)
UnwrapBytes(f) ==
    LET body == DecodePayload(f)
    IN  IF body = Refused THEN {}
        ELSE {[inner |-> c.body, id |-> h.id] :
                 c \in {k \in body.chunk : k.offset = 0},
                 h \in {k \in body.header : k.kind = "bytes"}}

----------------------------------------------------------------------------
(* Paired key *)

Status == {"unknown", "success", "fail", "unable"}

EncodeMaterial(m) == ControlFrame(INNER_ENCRYPTION, [signed_data |-> m, secret_id_hash |-> m])

(* Both fields must be there, not empty and within MAX_PAIRED_KEY_BYTES. *)
DecodeMaterial(f) ==
    LET body == DecodeV1(f, INNER_ENCRYPTION)
    IN  IF /\ {"signed_data", "secret_id_hash"} \subseteq DOMAIN body
           /\ "oversized" \notin {body.signed_data, body.secret_id_hash}
        THEN body ELSE Refused

EncodeResult(status) == ControlFrame(INNER_RESULT, [status |-> status])

DecodeResult(f) ==
    LET body == DecodeV1(f, INNER_RESULT)
    IN  IF "status" \in DOMAIN body /\ body.status \in Status THEN body ELSE Refused

----------------------------------------------------------------------------
(* Disconnection: each field is absent, false or true. *)

EncodeDisconnection(request, ack) ==
    ControlFrame(OUTER_DISCONNECTION, [request |-> request, ack |-> ack])

DecodeDisconnection(f) == DecodeV1(f, OUTER_DISCONNECTION)

(* Mutant: the acknowledgement bit is not looked at. *)
DecisionAlwaysReply(body) ==
    IF body.request # "true" THEN "close now" ELSE "marked and reply"

Decision(body) ==
    CASE body.request # "true" -> "close now"
      [] body.request = "true" /\ body.ack = "true" -> "marked and notified"
      [] OTHER -> "marked and reply"

=============================================================================
