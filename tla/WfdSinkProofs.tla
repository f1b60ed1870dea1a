----------------------------- MODULE WfdSinkProofs -----------------------------
(* Theorems about WfdSink, for any formats, limits and sequence numbers.      *)
EXTENDS WfdSink, TLAPS

(* Within half the range, the difference of two wrapped numbers is that of    *)
(* the numbers themselves.                                                    *)
LEMMA ModDifference ==
  ASSUME NEW m \in Nat, m > 0, NEW a \in Int, NEW c \in Int,
         a - c \in (-m + 1)..(m - 1)
  PROVE  ((a % m) - (c % m)) % m = IF a >= c THEN a - c ELSE a - c + m
<1> DEFINE p == a \div m  q == c \div m  r == a % m  s == c % m
<1>1. /\ p \in Int /\ q \in Int /\ r \in 0..(m - 1) /\ s \in 0..(m - 1)
      /\ a = m * p + r /\ c = m * q + s
  BY Z3
<1>2. /\ m * p - m * q = m * (p - q) /\ p - q \in Int /\ m * (p - q) \in Int
  BY <1>1, Z3
<1>3. p - q \in {-1, 0, 1}
  <2> HIDE DEF p, q, r, s
  <2>1. m * (p - q) < 2 * m /\ m * (p - q) > -2 * m
    BY <1>1, <1>2, Z3
  <2>2. p - q < 2
    BY <1>2, <2>1, Z3
  <2>3. p - q > -2
    BY <1>2, <2>1, Z3
  <2> QED
    BY <1>2, <2>2, <2>3, Z3
<1> HIDE DEF p, q, r, s
<1>4. r - s = a - c \/ r - s = a - c + m \/ r - s = a - c - m
  BY <1>1, <1>2, <1>3, Z3
<1> QED
  <2>1. (r - s) % m = IF r >= s THEN r - s ELSE r - s + m
    BY <1>1, Z3
  <2> QED
    BY <1>1, <1>4, <2>1, Z3 DEF r, s

-----------------------------------------------------------------------------
(* What is expected next follows the highest packet number.                   *)
Followed ==
  /\ expected = None <=> highest = None
  /\ highest # None => known /\ expected = (highest + 1) % SeqModulus

AccountInv == AccountTypeOK /\ Followed /\ LossIsAccounted

LEMMA DeltaIsDifference ==
  ASSUME AccountTypeOK, Followed, highest # None, NEW n \in Packet, InReach(n)
  PROVE  Delta(n) = n - (highest + 1) /\ expected \in 0..(SeqModulus - 1)
<1>1. /\ SeqModulus \in Nat /\ SeqModulus > 2 /\ HalfRange \in Nat /\ SeqModulus = 2 * HalfRange
  BY RtpAssumption, Z3 DEF HalfRange
<1>2. n \in Nat /\ highest \in Nat /\ expected = (highest + 1) % SeqModulus
  BY RtpAssumption DEF AccountTypeOK, Followed, Packet
<1>3. n - (highest + 1) \in (-HalfRange)..(HalfRange - 1)
  BY <1>1, <1>2 DEF InReach
<1> DEFINE c == highest + 1
<1>4. ((n % SeqModulus) - (c % SeqModulus)) % SeqModulus
        = IF n >= c THEN n - c ELSE n - c + SeqModulus
  <2>1. SeqModulus \in Nat /\ SeqModulus > 0 /\ c \in Int /\ n \in Int
    BY <1>1, <1>2
  <2>2. n - c \in (-SeqModulus + 1)..(SeqModulus - 1)
    BY <1>1, <1>2, <1>3
  <2> HIDE DEF c
  <2> QED
    BY <2>1, <2>2, ModDifference, Zenon
<1>5. expected \in 0..(SeqModulus - 1)
  BY <1>1, <1>2, Z3
<1> DEFINE d == ((n % SeqModulus) - expected) % SeqModulus
<1>6. d = IF n >= highest + 1 THEN n - (highest + 1) ELSE n - (highest + 1) + SeqModulus
  BY <1>2, <1>4
<1>7. Delta(n) = IF d >= HalfRange THEN d - SeqModulus ELSE d
  BY DEF Delta
<1> HIDE DEF d
<1> QED
  BY <1>1, <1>2, <1>3, <1>5, <1>6, <1>7

LEMMA RequestKeeps ==
  ASSUME AccountTypeOK, NEW losses \in Nat \ {0}, MaybeRequestKeyframe(losses),
         unasked >= LossThreshold => askAge # Never
  PROVE  /\ unasked' \in 0..LossThreshold /\ askAge' \in Never..Debounce
         /\ unasked' >= LossThreshold => askAge' # Never
  BY RtpAssumption DEF AccountTypeOK, MaybeRequestKeyframe, Wants, Never

LEMMA ArrivalKeeps ==
  ASSUME AccountTypeOK, NEW n \in Packet, Arrives(n)
  PROVE  highest' \in Packet /\ highest' # None /\ skipped' \in Nat
<1>1. n \in Nat /\ Packet \subseteq Nat /\ None \notin Nat
  BY RtpAssumption DEF Packet
<1> QED
  BY <1>1 DEF AccountTypeOK, Arrives

LEMMA ExpectKeeps ==
  ASSUME NEW n \in Packet, Expect(n)
  PROVE  expected' \in 0..(SeqModulus - 1) /\ expected' # None
<1>1. n \in Nat /\ SeqModulus \in Nat /\ SeqModulus > 0
  BY RtpAssumption DEF Packet
<1>2. (n + 1) % SeqModulus \in 0..(SeqModulus - 1)
  BY <1>1, Z3
<1> QED
  BY <1>1, <1>2, RtpAssumption DEF Expect

(* Every packet keeps the account right.                                      *)
LEMMA PacketKeeps ==
  ASSUME AccountInv, OnPacket
  PROVE  AccountInv'
<1> USE DEF AccountInv
<1>1. lost \in Nat /\ skipped \in Nat /\ Packet \subseteq Nat /\ None \notin Int
  BY RtpAssumption DEF AccountTypeOK, Packet
<1>2. CASE \E n \in Packet : FirstPacket(n)
  <2> PICK n \in Packet : FirstPacket(n)
    BY <1>2
  <2>1. highest = None
    BY DEF FirstPacket, Followed
  <2>2. highest' = n /\ skipped' = skipped
    BY <2>1 DEF FirstPacket, Arrives
  <2> QED
    BY <1>1, <2>1, <2>2, ArrivalKeeps, ExpectKeeps
       DEF FirstPacket, Expect, AccountTypeOK, Followed, LossIsAccounted
<1>3. CASE \E n \in Packet : NextPacket(n)
  <2> PICK n \in Packet : NextPacket(n)
    BY <1>3
  <2>1. highest # None /\ Arrives(n) /\ InReach(n)
    BY DEF NextPacket, Followed, Arrives
  <2>2. n = highest + 1
    BY <1>1, <2>1, DeltaIsDifference DEF NextPacket, AccountTypeOK
  <2>3. highest' = n /\ skipped' = skipped
    BY <1>1, <2>1, <2>2 DEF Arrives, AccountTypeOK
  <2> QED
    BY <1>1, <2>1, <2>3, ArrivalKeeps, ExpectKeeps
       DEF NextPacket, Expect, AccountTypeOK, Followed, LossIsAccounted
<1>4. CASE \E n \in Packet : PacketAfterGap(n)
  <2> PICK n \in Packet : PacketAfterGap(n)
    BY <1>4
  <2>1. highest # None /\ Arrives(n) /\ InReach(n)
    BY DEF PacketAfterGap, Followed, Arrives
  <2>2. Delta(n) = n - (highest + 1) /\ n > highest + 1 /\ Delta(n) \in Nat \ {0}
    BY <1>1, <2>1, DeltaIsDifference DEF PacketAfterGap, AccountTypeOK
  <2>3. highest' = n /\ skipped' = skipped + (n - highest - 1)
    BY <1>1, <2>1, <2>2 DEF Arrives, AccountTypeOK
  <2>4. lost' = skipped' /\ lost' \in Nat
    BY <1>1, <2>1, <2>2, <2>3 DEF PacketAfterGap, LossIsAccounted, AccountTypeOK
  <2>5. /\ unasked' \in 0..LossThreshold /\ askAge' \in Never..Debounce
        /\ unasked' >= LossThreshold => askAge' # Never
    BY <2>2, RequestKeeps DEF PacketAfterGap, LossIsAccounted
  <2> QED
    BY <1>1, <2>1, <2>3, <2>4, <2>5, ArrivalKeeps, ExpectKeeps
       DEF PacketAfterGap, Expect, AccountTypeOK, Followed, LossIsAccounted
<1>5. CASE \E n \in Packet : LatePacket(n)
  <2> PICK n \in Packet : LatePacket(n)
    BY <1>5
  <2>1. highest # None /\ Arrives(n) /\ InReach(n)
    BY DEF LatePacket, Followed, Arrives
  <2>2. n =< highest
    BY <1>1, <2>1, DeltaIsDifference DEF LatePacket, AccountTypeOK
  <2>3. highest' = highest /\ skipped' = skipped
    BY <1>1, <2>1, <2>2 DEF Arrives, AccountTypeOK
  <2> QED
    BY <2>3 DEF LatePacket, AccountTypeOK, Followed, LossIsAccounted
<1>6. CASE PacketOfAnotherSource
  <2>1. /\ unasked' \in 0..LossThreshold /\ askAge' \in Never..Debounce
        /\ unasked' >= LossThreshold => askAge' # Never
    BY <1>6, RequestKeeps DEF PacketOfAnotherSource, LossIsAccounted
  <2> QED
    BY <1>6, <2>1 DEF PacketOfAnotherSource, AccountTypeOK, Followed, LossIsAccounted
<1> QED
  BY <1>2, <1>3, <1>4, <1>5, <1>6 DEF OnPacket

-----------------------------------------------------------------------------
SessionTypeOK ==
  /\ state \in SinkState
  /\ m1_answered \in BOOLEAN /\ m2_sent \in BOOLEAN
  /\ pending \in [SinkMessage -> Nat]
  /\ session_id \in {"none", "known"}
  /\ suppress_keepalive \in BOOLEAN

AgesOK ==
  /\ heardAge \in Never..(SessionTimeout + 1)
  /\ playingAge \in Never..KeepaliveInterval
  /\ keepaliveAge \in Never..KeepaliveInterval

(* A stream that the source declared and the sink can receive is chosen.      *)
StreamFits ==
  /\ \E i \in DOMAIN declared.video, k \in DOMAIN LocalVideo :
       negotiated.video = declared.video[i] /\ FitsVideo(LocalVideo[k], negotiated.video)
  /\ \E j \in DOMAIN declared.audio, k \in DOMAIN LocalAudio :
       /\ FitsAudio(LocalAudio[k], declared.audio[j])
       /\ negotiated.audio = ChosenAudio(declared.audio[j], k)

(* Where it is needed, the answers that are still to come included: a SETUP   *)
(* under way may yet create the session, and a PLAY under way play it.        *)
Streaming ==
  state \in {"ParamsSet", "SetupTriggered", "SetupCreated", "Playing"}
    \/ pending["M6"] > 0 \/ pending["M7"] > 0

Created == state \in {"SetupCreated", "Playing"} \/ pending["M7"] > 0

Chosen == Streaming => StreamFits
Identified == Created => session_id = "known"

WfdInv == SessionTypeOK /\ AgesOK /\ AccountInv /\ Chosen /\ Identified

LEMMA InvGivesBoth == WfdInv => TypeOK /\ PlaysWhatBothDeclared /\ LossIsAccounted
  BY DEF WfdInv, SessionTypeOK, AgesOK, AccountInv, TypeOK, Chosen, Streaming, StreamFits,
         Identified, Created, PlaysWhatBothDeclared

LEMMA InitGivesInv == Init => WfdInv
<1> SUFFICES ASSUME Init PROVE WfdInv
  OBVIOUS
<1> USE DEF Init
<1>1. SessionTypeOK
  BY DEF SessionTypeOK, SinkState
<1>2. AgesOK
  BY WfdAssumption DEF AgesOK, Never
<1>3. AccountInv
  <2> USE DEF AccountInit
  <2>1. AccountTypeOK
    <3>1. known \in BOOLEAN /\ expected = None /\ highest = None
      OBVIOUS
    <3>2. lost = 0 /\ skipped = 0 /\ unasked = 0 /\ askAge = -1
      BY DEF Never
    <3>3. 0 \in 0..LossThreshold /\ -1 \in Never..Debounce
      BY RtpAssumption DEF Never
    <3> QED
      BY <3>1, <3>2, <3>3 DEF AccountTypeOK
  <2>2. Followed
    BY DEF Followed
  <2>3. LossIsAccounted
    BY RtpAssumption DEF LossIsAccounted
  <2> QED
    BY <2>1, <2>2, <2>3 DEF AccountInv
<1>4. Chosen /\ Identified
  BY DEF Chosen, Streaming, Identified, Created, SinkMessage
<1> QED
  BY <1>1, <1>2, <1>3, <1>4 DEF WfdInv

(* A step that leaves the account alone keeps what is said of it.             *)
LEMMA AccountStays ==
  ASSUME AccountInv, UNCHANGED account
  PROVE  AccountInv'
  BY DEF account, AccountInv, AccountTypeOK, Followed, LossIsAccounted

(* So does one that leaves the stream alone, unless it needs a stream anew.   *)
LEMMA StreamStays ==
  ASSUME Chosen, UNCHANGED stream, Streaming' => Streaming
  PROVE  Chosen'
  BY DEF stream, Chosen, StreamFits

-----------------------------------------------------------------------------
LEMMA RequestsKeep ==
  ASSUME WfdInv,
         \/ OnOptions \/ OnGetParameter \/ OnTriggerSetup \/ OnKeepAlive \/ OnRefused
  PROVE  WfdInv'
<1> USE DEF WfdInv
<1>1. Heard /\ UNCHANGED stream
  BY DEF OnOptions, OnGetParameter, OnTriggerSetup, OnKeepAlive, OnRefused
<1>2. SessionTypeOK'
  BY <1>1 DEF OnOptions, OnGetParameter, OnTriggerSetup, OnKeepAlive, OnRefused, Heard,
              options, SessionTypeOK, SinkState
<1>3. AgesOK'
  BY <1>1, WfdAssumption DEF Heard, beats, AgesOK, Never
<1>4. AccountInv'
  BY <1>1, AccountStays DEF Heard
<1>5. Streaming' => Streaming
  BY <1>1 DEF OnOptions, OnGetParameter, OnTriggerSetup, OnKeepAlive, OnRefused, Heard, Streaming
<1>6. Identified'
  BY <1>1 DEF OnOptions, OnGetParameter, OnTriggerSetup, OnKeepAlive, OnRefused, Heard,
              Identified, Created
<1> QED
  BY <1>1, <1>2, <1>3, <1>4, <1>5, <1>6, StreamStays

(* M4: a stream that is chosen is one of the list and fits one of ours.       *)
LEMMA ChoiceKeeps ==
  ASSUME WfdInv, NEW video, NEW audio, NEW ports, NEW protected,
         OnSetParameter(video, audio, ports, protected)
  PROVE  WfdInv'
<1> USE DEF WfdInv
<1>1. Heard /\ UNCHANGED options /\ state = "ParamsAnswered"
  BY DEF OnSetParameter
<1>2. SessionTypeOK'
  BY <1>1 DEF OnSetParameter, Heard, options, SessionTypeOK, SinkState
<1>3. AgesOK'
  BY <1>1, WfdAssumption DEF Heard, beats, AgesOK, Never
<1>4. AccountInv'
  BY <1>1, AccountStays DEF Heard
<1>5. Chosen'
  <2>1. CASE UNCHANGED <<state, stream>>
    <3>1. Streaming' => Streaming
      BY <1>1, <2>1 DEF Heard, Streaming
    <3> QED
      BY <2>1, <3>1, StreamStays
  <2>2. CASE ~UNCHANGED <<state, stream>>
    <3>1. PICK i \in UsableVideo(video), j \in UsableAudio(audio), k \in DOMAIN LocalAudio :
            /\ IsFirst(k, OurCodec(audio[j]))
            /\ negotiated' = [video |-> video[i], audio |-> ChosenAudio(audio[j], k)]
            /\ declared' = [video |-> video, audio |-> audio]
      BY <2>2 DEF OnSetParameter
    <3>2. i \in DOMAIN video /\ \E l \in DOMAIN LocalVideo : FitsVideo(LocalVideo[l], video[i])
      BY DEF UsableVideo
    <3>3. j \in DOMAIN audio /\ FitsAudio(LocalAudio[k], audio[j])
      BY <3>1 DEF UsableAudio, IsFirst, OurCodec
    <3>4. /\ declared'.video = video /\ declared'.audio = audio
          /\ negotiated'.video = video[i] /\ negotiated'.audio = ChosenAudio(audio[j], k)
      BY <3>1
    <3>5. StreamFits'
      BY <3>2, <3>3, <3>4 DEF StreamFits
    <3> QED
      BY <3>5 DEF Chosen
  <2> QED
    BY <2>1, <2>2
<1>6. Identified'
  BY <1>1 DEF OnSetParameter, Heard, Identified, Created
<1> QED
  BY <1>2, <1>3, <1>4, <1>5, <1>6

LEMMA AnswersKeep ==
  ASSUME WfdInv,
         \/ OnFailure \/ OnOptionsAnswer \/ OnSetupAnswer \/ OnPlayAnswer
         \/ OnTeardownAnswer \/ OnUnregisteredAnswer
  PROVE  WfdInv'
<1> USE DEF WfdInv
<1>1. PICK m \in SinkMessage : Answered(m)
  BY DEF OnFailure, OnOptionsAnswer, OnSetupAnswer, OnPlayAnswer, OnTeardownAnswer,
         OnUnregisteredAnswer, SinkMessage
<1>2. /\ pending' \in [SinkMessage -> Nat]
      /\ \A x \in SinkMessage : pending'[x] > 0 => pending[x] > 0
  BY <1>1 DEF Answered, SessionTypeOK
<1>3. UNCHANGED <<m1_answered, m2_sent, negotiated, declared, suppress_keepalive,
                  heardAge, keepaliveAge>>
  BY <1>1 DEF Answered, options, stream
<1>4. /\ state' \in SinkState /\ session_id' \in {"none", "known"}
      /\ playingAge' \in {playingAge, 0}
      /\ session_id = "known" => session_id' = "known"
  BY DEF OnFailure, OnOptionsAnswer, OnSetupAnswer, OnPlayAnswer, OnTeardownAnswer,
         OnUnregisteredAnswer, SessionTypeOK, SinkState
<1>5. SessionTypeOK'
  BY <1>2, <1>3, <1>4 DEF SessionTypeOK
<1>6. AgesOK'
  BY <1>3, <1>4, WfdAssumption DEF AgesOK, Never
<1>7. AccountInv'
  BY <1>1, AccountStays DEF Answered
<1>8. {"M6", "M7"} \subseteq SinkMessage
  BY DEF SinkMessage
<1>9. Streaming' => Streaming
  BY <1>2, <1>8 DEF OnFailure, OnOptionsAnswer, OnSetupAnswer, OnPlayAnswer, OnTeardownAnswer,
         OnUnregisteredAnswer, Answered, Streaming
<1>10. Chosen'
  BY <1>3, <1>9, StreamStays DEF stream
<1>11. Identified'
  BY <1>2, <1>4, <1>8 DEF OnFailure, OnOptionsAnswer, OnSetupAnswer, OnPlayAnswer,
         OnTeardownAnswer, OnUnregisteredAnswer, Answered, Identified, Created
<1> QED
  BY <1>5, <1>6, <1>7, <1>10, <1>11

(* A request that is sent.                                                    *)
LEMMA SendKeeps ==
  ASSUME WfdInv, NEW m \in SinkMessage, Request(m),
         UNCHANGED m1_answered, m2_sent' \in BOOLEAN,
         state' \in {state, IF state = "Idle" THEN "Options" ELSE state},
         keepaliveAge' \in {keepaliveAge, 0},
         m = "M6" => state = "SetupTriggered",
         m = "M7" => state = "SetupCreated"
  PROVE  WfdInv'
<1> USE DEF WfdInv
<1>1. /\ pending' \in [SinkMessage -> Nat]
      /\ \A x \in SinkMessage \ {m} : pending'[x] = pending[x]
  BY DEF Request, Send, SessionTypeOK
<1>2. UNCHANGED <<session_id, negotiated, declared, suppress_keepalive, heardAge, playingAge>>
  BY DEF Request, stream
<1>3. SessionTypeOK'
  BY <1>1, <1>2 DEF SessionTypeOK, SinkState
<1>4. AgesOK'
  BY <1>2, WfdAssumption DEF AgesOK, Never
<1>5. AccountInv'
  BY AccountStays DEF Request
<1>6. "M6" \in SinkMessage /\ "M7" \in SinkMessage
  BY DEF SinkMessage
<1>7. Streaming' => Streaming
  BY <1>1, <1>6 DEF Streaming
<1>8. Chosen'
  BY <1>2, <1>7, StreamStays DEF stream
<1>9. Identified'
  BY <1>1, <1>2, <1>6 DEF Identified, Created
<1> QED
  BY <1>3, <1>4, <1>5, <1>8, <1>9

LEMMA CallsKeep ==
  ASSUME WfdInv,
         \/ Options \/ Setup \/ Play \/ Teardown \/ RequestKeyframe \/ KeepaliveDue
  PROVE  WfdInv'
<1>1. m2_sent \in BOOLEAN
  BY DEF WfdInv, SessionTypeOK
<1>2. CASE Options
  BY <1>1, <1>2, SendKeeps DEF Options, SinkMessage
<1>3. CASE Setup
  BY <1>1, <1>3, SendKeeps DEF Setup, options, SinkMessage
<1>4. CASE Play
  BY <1>1, <1>4, SendKeeps DEF Play, options, SinkMessage
<1>5. CASE Teardown
  BY <1>1, <1>5, SendKeeps DEF Teardown, options, SinkMessage
<1>6. CASE RequestKeyframe
  BY <1>1, <1>6, SendKeeps DEF RequestKeyframe, options, SinkMessage
<1>7. CASE KeepaliveDue
  BY <1>1, <1>7, SendKeeps DEF KeepaliveDue, options, SinkMessage
<1> QED
  BY <1>2, <1>3, <1>4, <1>5, <1>6, <1>7

LEMMA TickKeeps ==
  ASSUME WfdInv, Tick
  PROVE  WfdInv'
<1> USE DEF WfdInv, Tick
<1>1. SessionTypeOK' /\ AgesOK'
  BY DEF SessionTypeOK, SinkState, AgesOK, options, beats
<1>2. AccountInv'
  BY AccountStays
<1>3. Chosen'
  BY StreamStays DEF Streaming
<1>4. Identified'
  BY DEF Identified, Created
<1> QED
  BY <1>1, <1>2, <1>3, <1>4

LEMMA RtpKeeps ==
  ASSUME WfdInv, OnRtp
  PROVE  WfdInv'
<1> USE DEF WfdInv
<1>1. /\ pending' \in [SinkMessage -> Nat]
      /\ pending'["M6"] = pending["M6"] /\ pending'["M7"] = pending["M7"]
  BY DEF OnRtp, Send, SessionTypeOK, SinkMessage
<1>2. UNCHANGED <<state, options, session_id, stream, suppress_keepalive, heardAge, beats>>
  BY DEF OnRtp
<1>3. SessionTypeOK' /\ AgesOK'
  BY <1>1, <1>2 DEF SessionTypeOK, AgesOK, options, beats
<1>4. AccountInv'
  BY PacketKeeps DEF OnRtp
<1>5. Chosen'
  BY <1>1, <1>2, StreamStays DEF Streaming
<1>6. Identified'
  BY <1>1, <1>2 DEF Identified, Created
<1> QED
  BY <1>3, <1>4, <1>5, <1>6

LEMMA WaitKeeps ==
  ASSUME WfdInv, Wait
  PROVE  WfdInv'
<1> USE DEF WfdInv
<1>1. AgesOK'
  BY WfdAssumption DEF Wait, Older, AgesOK, Never
<1>2. /\ askAge' \in Never..Debounce
      /\ askAge # Never => askAge' # Never
  BY RtpAssumption DEF Wait, Older, AccountInv, AccountTypeOK, Never
<1>3. AccountInv'
  <2>1. AccountTypeOK'
    BY <1>2 DEF Wait, AccountInv, AccountTypeOK
  <2>2. Followed' /\ LossIsAccounted'
    BY <1>2 DEF Wait, AccountInv, Followed, LossIsAccounted
  <2> QED
    BY <2>1, <2>2 DEF AccountInv
<1>4. SessionTypeOK'
  BY DEF Wait, SessionTypeOK, options
<1>5. Chosen'
  BY StreamStays DEF Wait, Streaming
<1>6. Identified'
  BY DEF Wait, Identified, Created
<1> QED
  BY <1>1, <1>3, <1>4, <1>5, <1>6

LEMMA NextKeepsInv == WfdInv /\ [Next]_vars => WfdInv'
<1> SUFFICES ASSUME WfdInv, [Next]_vars PROVE WfdInv'
  OBVIOUS
<1>1. CASE UNCHANGED vars
  <2>1. AccountInv'
    BY <1>1, AccountStays DEF vars, WfdInv
  <2>2. Chosen'
    BY <1>1, StreamStays DEF vars, WfdInv, Streaming
  <2>3. SessionTypeOK' /\ AgesOK' /\ Identified'
    BY <1>1 DEF vars, options, beats, WfdInv, SessionTypeOK, AgesOK, Identified, Created
  <2> QED
    BY <2>1, <2>2, <2>3 DEF WfdInv
<1>2. CASE Next
  BY <1>2, RequestsKeep, ChoiceKeeps, AnswersKeep, CallsKeep, TickKeeps, RtpKeeps, WaitKeeps
     DEF Next
<1> QED
  BY <1>1, <1>2

-----------------------------------------------------------------------------
(* The invariant holds whatever the source sends, answers and loses.          *)
THEOREM InvHolds == Spec => []WfdInv
  BY InitGivesInv, NextKeepsInv, PTL DEF Spec

(* Every variable keeps its type.                                             *)
THEOREM TypeCorrect == Spec => []TypeOK
  BY InvHolds, InvGivesBoth, PTL

(* A stream that is set up or plays was declared by the source, fits a single *)
(* one of our formats, and belongs to a session the source has named.         *)
THEOREM StreamIsCommon == Spec => []PlaysWhatBothDeclared
  BY InvHolds, InvGivesBoth, PTL

(* Losses are counted exactly, for sequence numbers of any even range.        *)
THEOREM LossesAreExact == Spec => []LossIsAccounted
  BY InvHolds, InvGivesBoth, PTL
=============================================================================
