----------------------------- MODULE CastCoding -----------------------------
(* What the coding of Cast messages promises, for any messages: a reference   *)
(* definition of the bodies that are read, and what becomes of frames and     *)
(* payloads that one side writes and the other reads.                         *)
EXTENDS CastLink, CastMessages

CONSTANTS Bodies,     \* a family of sequences of fields that somebody sends
          Tails,      \* a family of what may follow a frame in the stream
          Payloads    \* the payloads that are written

(* What a program holds after reading: for each key that is read one of the   *)
(* values it is read as, and the keys of a nested object where there is one.  *)
(* It could also hold a LOAD of an empty content id or type, which is written *)
(* and not read: README section 7.                                            *)
IsPayload(p) ==
  /\ p.namespace \in DOMAIN Types /\ p.type \in Types[p.namespace]
  /\ LET keys == KeysOf(p.type, p.keys)
     IN  /\ DOMAIN p.keys = DOMAIN keys
         /\ \A k \in DOMAIN keys : \E v \in DOMAIN keys[k] : p.keys[k] = keys[k][v]

IsSequence(s) == Len(s) \in Nat /\ s = [i \in 1..Len(s) |-> s[i]]

ASSUME CodingAssumption ==
  /\ MaxBody \in Nat
  /\ \A b \in DOMAIN Bodies : IsSequence(Bodies[b])
  /\ \A t \in DOMAIN Tails : IsSequence(Tails[t])
  /\ \A p \in Payloads : IsPayload(p)

-----------------------------------------------------------------------------
(* What a body must be, without reading it in order: no mark of chunks, each  *)
(* required field with its last value in range, and one payload of its kind.  *)
Has(body, n) == \E i \in DOMAIN body : body[i].n = n /\ body[i].wire = WireOf[n]
IsLast(body, n, i) ==
  /\ body[i].n = n /\ body[i].wire = WireOf[n]
  /\ \A j \in DOMAIN body : j > i /\ body[j].n = n => body[j].wire # WireOf[n]

WellFormed(body) ==
  /\ Len(body) <= MaxBody
  /\ \A i \in DOMAIN body : body[i].wire = "varint" =>
       /\ body[i].n # 9
       /\ body[i].n = 8 => body[i].v = 0
  /\ \E i \in DOMAIN body : IsLast(body, 1, i) /\ body[i].v \in 0..3
  /\ \A n \in 2..4 : \E i \in DOMAIN body : IsLast(body, n, i) /\ body[i].v # ""
  /\ \E i \in DOMAIN body :
       /\ IsLast(body, 5, i)
       /\ \/ body[i].v = 0 /\ Has(body, 6) /\ ~Has(body, 7)
          \/ body[i].v = 1 /\ Has(body, 7) /\ ~Has(body, 6)

BodyIsRead(body) == (DecodeBody(body).verdict = "accepted") = WellFormed(body)

(* A frame is found at the front of a stream, and nothing behind it is        *)
(* touched; one that is cut is refused as too short; one that is too long is  *)
(* refused as soon as its length is there.                                    *)
FrameIsRead(body, tail) ==
  LET stream == EncodeFrame(body) \o tail
      whole  == HeaderBytes + Len(body)
      read   == DecodeFrame(stream)
  IN  IF Len(body) > MaxBody
      THEN \A cut \in HeaderBytes..Len(stream) :
             DecodeFrame(SubSeq(stream, 1, cut)).verdict = "resource-limit"
      ELSE /\ \A cut \in 0..(whole - 1) :
                DecodeFrame(SubSeq(stream, 1, cut)).verdict = "invalid-frame"
           /\ read.verdict = DecodeBody(body).verdict
           /\ WellFormed(body) => read.message = DecodeBody(body) /\ read.consumed = whole

(* A payload comes back as it was, in its own namespace and, but for          *)
(* GET_STATUS and STOP, in no other.  A status without a volume comes back    *)
(* with one: README section 7.                                                *)
PayloadIsRead(p) ==
  \A ns \in DOMAIN Types :
    LET read == Decode(ns, Encode(p))
    IN  IF ns = p.namespace
        THEN /\ read.verdict = "accepted" /\ read.type = p.type
             /\ \A k \in DOMAIN p.keys :
                  /\ k \in DOMAIN read.keys
                  /\ read.keys[k] = p.keys[k] \/ (p.type = "RECEIVER_STATUS" /\ k = "volume")
        ELSE read.verdict = "accepted" => p.type \in {"GET_STATUS", "STOP"}

(* The wire keeps what is sent: a body is accepted exactly when it is well    *)
(* formed; frames are found in a stream that is cut anywhere, and none is     *)
(* read past its length; and every payload that can be written comes back.    *)
(* None of it depends on the state, so it is said of the first.               *)
CodingIsExact ==
  LinkInit =>
    /\ \A b \in DOMAIN Bodies :
         /\ BodyIsRead(Bodies[b])
         /\ \A t \in DOMAIN Tails : FrameIsRead(Bodies[b], Tails[t])
    /\ \A p \in Payloads : CanEncode(p) => PayloadIsRead(p)
=============================================================================
