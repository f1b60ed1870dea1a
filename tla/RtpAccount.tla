------------------------------ MODULE RtpAccount ------------------------------
(* What a Wi-Fi Display sink keeps of the RTP packets it gets (proto-wfd,     *)
(* rtp.rs): how many are lost, told from sequence numbers that wrap, and when *)
(* to ask for a key frame.  Left out: sizes, payload types, and the counters  *)
(* of duplicates and of late packets.                                         *)
EXTENDS Integers

CONSTANTS None,
          SeqModulus,     \* sequence numbers are taken modulo 2^16
          LossThreshold,  \* KEYFRAME_REQUEST_LOSS_THRESHOLD
          Debounce,       \* KEYFRAME_REQUEST_DEBOUNCE_MS
          MaxPacket, MaxLost   \* bounds on packet numbers and on losses

ASSUME RtpAssumption ==
  /\ None \notin Int
  /\ SeqModulus \in Nat /\ SeqModulus % 2 = 0 /\ SeqModulus > 2
  /\ LossThreshold \in Nat \ {0} /\ Debounce \in Nat \ {0}
  /\ {MaxPacket, MaxLost} \subseteq Nat

VARIABLES known,     \* ssrc holds a source
          expected,  \* the next sequence number
          lost,
          unasked,   \* loss_since_request, which only counts up to the threshold
          askAge,    \* since last_keyframe_request_ms
          highest,   \* the highest packet number seen of this source, not wrapped
          skipped    \* how many numbers the highest ones jumped over

account == <<known, expected, lost, unasked, askAge, highest, skipped>>

-----------------------------------------------------------------------------
Never == -1
Packet == 0..MaxPacket
HalfRange == SeqModulus \div 2

AccountTypeOK ==
  /\ known \in BOOLEAN
  /\ expected \in 0..(SeqModulus - 1) \cup {None}
  /\ lost \in Nat /\ skipped \in Nat
  /\ unasked \in 0..LossThreshold
  /\ askAge \in Never..Debounce
  /\ highest \in Packet \cup {None}

AccountInit ==
  /\ known = FALSE /\ expected = None
  /\ lost = 0 /\ unasked = 0 /\ askAge = Never
  /\ highest = None /\ skipped = 0

-----------------------------------------------------------------------------
(* A key frame is asked for when enough is lost and the last request is long  *)
(* enough ago.                                                                *)
Wants(losses) == unasked + losses >= LossThreshold /\ askAge \notin 0..(Debounce - 1)

MaybeRequestKeyframe(losses) ==
  IF Wants(losses)
  THEN unasked' = 0 /\ askAge' = 0
  ELSE /\ unasked' = IF unasked + losses > LossThreshold THEN LossThreshold
                     ELSE unasked + losses
       /\ UNCHANGED askAge

(* The step that was taken asks.                                              *)
Asked == askAge # 0 /\ askAge' = 0

(* Packets arrive within half the range of sequence numbers of each other:    *)
(* farther apart, 16 bits cannot order them.                                  *)
InReach(n) == highest # None => n - highest \in (1 - HalfRange)..HalfRange

Arrives(n) ==
  /\ InReach(n)
  /\ highest' = IF highest = None \/ n > highest THEN n ELSE highest
  /\ skipped' = IF highest # None /\ n > highest THEN skipped + (n - highest - 1)
                ELSE skipped

(* How far a packet is ahead of the expected one: the difference, as 16 bits  *)
(* with a sign.  Mutant: without.                                             *)
DeltaUnsigned(n) == ((n % SeqModulus) - expected) % SeqModulus

Delta(n) ==
  LET d == ((n % SeqModulus) - expected) % SeqModulus
  IN  IF d >= HalfRange THEN d - SeqModulus ELSE d

Expect(n) == expected' = (n + 1) % SeqModulus

FirstPacket(n) ==
  /\ expected = None
  /\ Arrives(n) /\ Expect(n)
  /\ known' = TRUE
  /\ UNCHANGED <<lost, unasked, askAge>>

NextPacket(n) ==
  /\ expected # None /\ Delta(n) = 0
  /\ Arrives(n) /\ Expect(n)
  /\ UNCHANGED <<known, lost, unasked, askAge>>

PacketAfterGap(n) ==
  /\ expected # None /\ Delta(n) > 0
  /\ lost < MaxLost
  /\ Arrives(n) /\ Expect(n)
  /\ lost' = lost + Delta(n)
  /\ MaybeRequestKeyframe(Delta(n))
  /\ UNCHANGED known

LatePacket(n) ==
  /\ expected # None /\ Delta(n) < 0
  /\ Arrives(n)
  /\ UNCHANGED <<known, expected, lost, unasked, askAge>>

(* A packet of another source counts as one loss, its number is not looked at *)
(* and the next packet is the first one.                                      *)
PacketOfAnotherSource ==
  /\ known
  /\ expected' = None /\ highest' = None
  /\ MaybeRequestKeyframe(1)
  /\ UNCHANGED <<known, lost, skipped>>

OnPacket ==
  \/ \E n \in Packet :
       FirstPacket(n) \/ NextPacket(n) \/ PacketAfterGap(n) \/ LatePacket(n)
  \/ PacketOfAnotherSource

-----------------------------------------------------------------------------
(* What is counted as lost are the packet numbers that were jumped over,      *)
(* also where sequence numbers wrap and whatever arrives late or twice; and   *)
(* losses enough to ask for stay unasked only after a request was made, whose *)
(* debounce time held the next one back.                                      *)
LossIsAccounted ==
  /\ lost = skipped
  /\ unasked >= LossThreshold => askAge # Never
=============================================================================
