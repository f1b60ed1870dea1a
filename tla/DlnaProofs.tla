----------------------------- MODULE DlnaProofs -----------------------------
(* What holds of the renderer for any addresses and policy, of a subscriber's *)
(* notifications for any window and any range of SEQ, whenever the caller     *)
(* logs, ticks and flushes, and of the controller's leases for any URLs and   *)
(* durations.                                                                 *)
EXTENDS Renderer, Gena, MediaController, TLAPS

-----------------------------------------------------------------------------
(* The renderer.                                                              *)
RendererInv == RendererTypeOK /\ PlaysOnlyConsented

(* Whatever a control point, the user or the player does, nothing plays that  *)
(* was not consented to.                                                      *)
LEMMA RendererStep == RendererInv /\ [RendererNext]_rendererVars => RendererInv'
<1> SUFFICES ASSUME RendererInv, [RendererNext]_rendererVars PROVE RendererInv'
  OBVIOUS
<1> USE RendererAssumption
    DEF RendererInv, RendererTypeOK, PlaysOnlyConsented, TransportState, transport, gena
<1>1. CASE \E uri \in Uri : SetUri(uri)
  BY <1>1 DEF SetUri
<1>2. CASE Play
  BY <1>2 DEF Play
<1>3. CASE Pause \/ Stop \/ PlaybackEnded
  BY <1>3 DEF Pause, Stop, PlaybackEnded
<1>4. CASE \E uri \in Uri : GrantConsent(uri)
  BY <1>4 DEF GrantConsent
<1>5. CASE \E sid \in Sid : Subscribe(sid) \/ Unsubscribe(sid)
  <2>1. PICK sid \in Sid : Subscribe(sid) \/ Unsubscribe(sid)
    BY <1>5
  <2>2. CASE Subscribe(sid)
    <3>1. /\ subscriptions' = subscriptions \cup {sid} /\ sid = next_sid
          /\ next_sid' = next_sid + 1 /\ UNCHANGED <<state, media, consented_uri>>
      BY <2>2 DEF Subscribe
    <3>2. next_sid' \in 1..(MaxSid + 1)
      BY <2>1, <3>1 DEF Sid
    <3> QED
      BY <2>1, <3>1, <3>2
  <2>3. CASE Unsubscribe(sid)
    BY <2>3 DEF Unsubscribe
  <2> QED
    BY <2>1, <2>2, <2>3
<1>6. CASE UNCHANGED rendererVars
  BY <1>6 DEF rendererVars
<1> QED
  BY <1>1, <1>2, <1>3, <1>4, <1>5, <1>6 DEF RendererNext, Transport

LEMMA RendererStarts == RendererInit => RendererInv
  BY RendererAssumption
     DEF RendererInit, RendererInv, RendererTypeOK, PlaysOnlyConsented, TransportState

(* Nothing plays or waits in pause without the user's consent to that very    *)
(* address, in whatever order addresses are set, consented to, played and     *)
(* replaced (dmr.rs, T42).                                                    *)
THEOREM ConsentIsRespected == RendererSpec => []PlaysOnlyConsented
<1>1. RendererInv => PlaysOnlyConsented
  BY DEF RendererInv
<1> QED
  BY <1>1, RendererStarts, RendererStep, PTL DEF RendererSpec

-----------------------------------------------------------------------------
(* Notifications.                                                             *)
USE GenaAssumption

(* The number to come is 0 before the first NOTIFY, the one after the last's  *)
(* from then on.                                                              *)
Numbered ==
  seq = IF numbers = <<>> THEN 0 ELSE NextSeq(numbers[Len(numbers)])

(* The window is as old as the oldest change in it.                           *)
Windowed ==
  /\ window = Shut <=> pending = <<>>
  /\ pending # <<>> => Head(pending).age = window

GenaInv ==
  /\ GenaTypeOK
  /\ ToldWhatWasLogged
  /\ NumbersTellLoss
  /\ Numbered
  /\ Windowed

(* The number after another.                                                  *)
LEMMA NextNumber ==
  ASSUME NEW number \in 0..(SeqLimit - 1)
  PROVE  /\ NextSeq(number) \in 1..(SeqLimit - 1)
         /\ NextSeq(number) \in {number + 1, 1}
         /\ NextSeq(number) # number + 1 => number = SeqLimit - 1
<1>1. CASE number + 1 < SeqLimit
  <2>1. (number + 1) % SeqLimit = number + 1
    BY <1>1
  <2> QED
    BY <1>1, <2>1 DEF NextSeq
<1>2. CASE number + 1 = SeqLimit
  <2>1. (number + 1) % SeqLimit = 0
    BY <1>2
  <2> QED
    BY <1>2, <2>1 DEF NextSeq
<1> QED
  BY <1>1, <1>2

LEMMA ValuesOf ==
  ASSUME NEW changes \in Seq(Change)
  PROVE  /\ Values(changes) \in Seq(Value)
         /\ Len(Values(changes)) = Len(changes)
         /\ \A i \in 1..Len(changes) : Values(changes)[i] = changes[i].value
<1>1. DOMAIN changes = 1..Len(changes) /\ Len(changes) \in Nat
  OBVIOUS
<1>2. Values(changes) = [i \in 1..Len(changes) |-> changes[i].value]
  BY <1>1 DEF Values
<1>3. \A i \in 1..Len(changes) : changes[i].value \in Value
  <2> TAKE i \in 1..Len(changes)
  <2>1. changes[i] \in Change
    OBVIOUS
  <2> QED
    BY <2>1 DEF Change
<1> QED
  BY <1>1, <1>2, <1>3

LEMMA ValuesOfAppend ==
  ASSUME NEW changes \in Seq(Change), NEW change \in Change
  PROVE  Values(Append(changes, change)) = Append(Values(changes), change.value)
<1> DEFINE longer == Append(changes, change)
<1>1. /\ longer \in Seq(Change)
      /\ Len(longer) = Len(changes) + 1
      /\ \A i \in 1..Len(changes) : longer[i] = changes[i]
      /\ longer[Len(changes) + 1] = change
  OBVIOUS
<1> HIDE DEF longer
<1>2. change.value \in Value
  BY DEF Change
<1>3. /\ Values(longer) \in Seq(Value)
      /\ Append(Values(changes), change.value) \in Seq(Value)
      /\ Len(Values(longer)) = Len(Append(Values(changes), change.value))
  BY <1>1, <1>2, ValuesOf
<1>4. ASSUME NEW i \in 1..Len(Values(longer))
      PROVE  Values(longer)[i] = Append(Values(changes), change.value)[i]
  <2>1. CASE i \in 1..Len(changes)
    BY <1>1, <2>1, ValuesOf
  <2>2. CASE i = Len(changes) + 1
    BY <1>1, <2>2, ValuesOf
  <2> QED
    BY <1>1, <2>1, <2>2, ValuesOf
<1>5. Values(longer) = Append(Values(changes), change.value)
  BY <1>3, <1>4
<1> QED
  BY <1>5 DEF longer

LEMMA Appended ==
  ASSUME NEW S, NEW s \in Seq(S), NEW e \in S
  PROVE  /\ Append(s, e) \in Seq(S)
         /\ Append(s, e) # <<>>
         /\ Len(Append(s, e)) = Len(s) + 1
         /\ Append(s, e)[Len(Append(s, e))] = e
         /\ \A i \in 1..Len(s) : Append(s, e)[i] = s[i]
<1> DEFINE longer == Append(s, e)
<1>1. /\ longer \in Seq(S)
      /\ Len(longer) = Len(s) + 1
      /\ longer[Len(s) + 1] = e
      /\ \A i \in 1..Len(s) : longer[i] = s[i]
  OBVIOUS
<1>2. longer # <<>>
  OBVIOUS
<1> QED
  BY <1>1, <1>2

LEMMA ConcatEmpty ==
  ASSUME NEW S, NEW s \in Seq(S)
  PROVE  s \o <<>> = s /\ <<>> \o s = s
  OBVIOUS

LEMMA ConcatAppend ==
  ASSUME NEW S, NEW s \in Seq(S), NEW t \in Seq(S), NEW e \in S
  PROVE  s \o Append(t, e) = Append(s \o t, e)
<1>1. /\ s \o Append(t, e) \in Seq(S)
      /\ Append(s \o t, e) \in Seq(S)
      /\ Len(s \o Append(t, e)) = Len(s) + Len(t) + 1
      /\ Len(Append(s \o t, e)) = Len(s) + Len(t) + 1
  OBVIOUS
<1>2. ASSUME NEW i \in 1..(Len(s) + Len(t) + 1)
      PROVE  (s \o Append(t, e))[i] = Append(s \o t, e)[i]
  <2>1. CASE i \in 1..Len(s)
    BY <2>1
  <2>2. CASE i \in (Len(s) + 1)..(Len(s) + Len(t))
    BY <2>2
  <2>3. CASE i = Len(s) + Len(t) + 1
    BY <2>3
  <2> QED
    BY <2>1, <2>2, <2>3
<1> QED
  BY <1>1, <1>2

-----------------------------------------------------------------------------
LEMMA GenaStarts == GenaInit => GenaInv
<1> SUFFICES ASSUME GenaInit PROVE GenaInv
  OBVIOUS
<1>1. GenaTypeOK
  BY DEF GenaInit, GenaTypeOK
<1>2. Values(<<>>) = <<>> /\ <<>> \o <<>> = <<>>
  BY DEF Values
<1> QED
  BY <1>1, <1>2 DEF GenaInit, GenaInv, ToldWhatWasLogged, NumbersTellLoss, Numbered, Windowed

LEMMA LogStep ==
  ASSUME GenaInv, NEW value \in Value, Log(value)
  PROVE  GenaInv'
<1> DEFINE change == [value |-> value, age |-> 0]
<1>1. /\ pending' = Append(pending, change)
      /\ window' = IF window = Shut THEN 0 ELSE window
      /\ logged' = Append(logged, value)
      /\ UNCHANGED <<seq, numbers, notified>>
  BY DEF Log, told
<1>2. change \in Change /\ change.value = value /\ change.age = 0
  BY DEF Change, Age
<1> HIDE DEF change
<1>3. /\ pending \in Seq(Change) /\ window \in Age \cup {Shut}
      /\ notified \in Seq(Value) /\ logged \in Seq(Value)
  BY DEF GenaInv, GenaTypeOK
<1>4. GenaTypeOK'
  <2>1. pending' \in Seq(Change) /\ logged' \in Seq(Value)
    BY <1>1, <1>2, <1>3
  <2>2. window' \in Age \cup {Shut}
    BY <1>1, <1>3 DEF Age
  <2> QED
    BY <1>1, <2>1, <2>2 DEF GenaInv, GenaTypeOK
<1>5. ToldWhatWasLogged'
  <2> DEFINE waiting == Values(pending)
  <2>1. Values(pending') = Append(waiting, value)
    BY <1>1, <1>2, <1>3, ValuesOfAppend
  <2>2. waiting \in Seq(Value)
    BY <1>3, ValuesOf
  <2>3. logged = notified \o waiting
    BY DEF GenaInv, ToldWhatWasLogged
  <2> HIDE DEF waiting
  <2>4. notified \o Append(waiting, value) = Append(notified \o waiting, value)
    BY <1>3, <2>2, ConcatAppend
  <2> QED
    BY <1>1, <2>1, <2>3, <2>4 DEF ToldWhatWasLogged
<1>6. NumbersTellLoss' /\ Numbered'
  BY <1>1 DEF GenaInv, NumbersTellLoss, Numbered
<1>7. Windowed'
  <2>1. window = Shut <=> pending = <<>>
    BY DEF GenaInv, Windowed
  <2>2. pending' # <<>> /\ window' # Shut
    BY <1>1, <1>2, <1>3 DEF Shut
  <2>3. CASE pending = <<>>
    <3>1. Head(pending') = change
      BY <1>1, <1>3, <2>3
    <3> QED
      BY <1>1, <1>2, <2>1, <2>2, <2>3, <3>1 DEF Windowed
  <2>4. CASE pending # <<>>
    <3>1. Head(pending') = Head(pending)
      BY <1>1, <1>2, <1>3, <2>4
    <3>2. Head(pending).age = window
      BY <2>4 DEF GenaInv, Windowed
    <3> QED
      BY <1>1, <2>1, <2>2, <2>4, <3>1, <3>2 DEF Windowed
  <2> QED
    BY <2>3, <2>4
<1> QED
  BY <1>4, <1>5, <1>6, <1>7 DEF GenaInv

(* What leaves at once, or with a tick, leaves under the next number.         *)
LEMMA FlushedStep ==
  ASSUME GenaInv, NEW variables \in Seq(Value), Flushed(variables),
         logged' = logged \o variables
  PROVE  GenaInv'
<1>1. /\ seq' = NextSeq(seq)
      /\ pending' = <<>>
      /\ window' = Shut
      /\ numbers' = Append(numbers, seq)
      /\ notified' = notified \o Values(pending) \o variables
  BY DEF Flushed
<1>2. /\ seq \in 0..(SeqLimit - 1) /\ numbers \in Seq(0..(SeqLimit - 1))
      /\ notified \o Values(pending) = logged /\ logged \in Seq(Value)
  BY DEF GenaInv, GenaTypeOK, ToldWhatWasLogged
<1>3. seq' \in 0..(SeqLimit - 1)
  BY <1>1, <1>2, NextNumber
<1>4. notified' = logged' /\ logged' \in Seq(Value)
  <2>1. logged \o variables \in Seq(Value)
    BY <1>2
  <2> QED
    BY <1>1, <1>2, <2>1
<1>5. /\ numbers' \in Seq(0..(SeqLimit - 1))
      /\ numbers' # <<>>
      /\ Len(numbers') = Len(numbers) + 1
      /\ numbers'[Len(numbers')] = seq
      /\ \A i \in 1..Len(numbers) : numbers'[i] = numbers[i]
  <2> DEFINE S == 0..(SeqLimit - 1)
             longer == Append(numbers, seq)
  <2>1. numbers \in Seq(S) /\ seq \in S
    BY <1>2
  <2> HIDE DEF S
  <2>2. /\ longer \in Seq(S) /\ longer # <<>> /\ Len(longer) = Len(numbers) + 1
        /\ longer[Len(longer)] = seq /\ \A i \in 1..Len(numbers) : longer[i] = numbers[i]
    BY <2>1, Appended
  <2>3. numbers' = longer
    BY <1>1
  <2> HIDE DEF longer
  <2> QED
    BY <2>2, <2>3 DEF S
<1>6. GenaTypeOK'
  BY <1>1, <1>3, <1>4, <1>5 DEF GenaTypeOK
<1>7. ToldWhatWasLogged'
  <2>1. Values(<<>>) = <<>>
    BY DEF Values
  <2> QED
    BY <1>1, <1>4, <2>1, ConcatEmpty DEF ToldWhatWasLogged
<1>8. Numbered' /\ Windowed'
  BY <1>1, <1>5 DEF Numbered, Windowed
<1>9. ASSUME NEW i \in DOMAIN numbers'
      PROVE  /\ numbers'[i] = 0 <=> i = 1
             /\ i > 1 => numbers'[i] \in {numbers'[i - 1] + 1, 1}
             /\ i > 1 /\ numbers'[i] # numbers'[i - 1] + 1 => numbers'[i - 1] = SeqLimit - 1
  <2>0. Len(numbers) \in Nat /\ i \in 1..(Len(numbers) + 1)
        /\ DOMAIN numbers = 1..Len(numbers)
    BY <1>2, <1>5
  <2>1. CASE i \in 1..Len(numbers)
    <3>1. i > 1 => i - 1 \in 1..Len(numbers)
      BY <2>0, <2>1
    <3>2. /\ numbers[i] = 0 <=> i = 1
          /\ i > 1 => numbers[i] \in {numbers[i - 1] + 1, 1}
          /\ i > 1 /\ numbers[i] # numbers[i - 1] + 1 => numbers[i - 1] = SeqLimit - 1
      BY <2>0, <2>1 DEF GenaInv, NumbersTellLoss
    <3>3. numbers'[i] = numbers[i] /\ (i > 1 => numbers'[i - 1] = numbers[i - 1])
      BY <1>5, <2>1, <3>1
    <3> QED
      BY <3>2, <3>3
  <2>2. CASE i = Len(numbers) + 1
    <3>1. CASE numbers = <<>>
      <4>1. seq = 0 /\ i = 1
        BY <2>2, <3>1 DEF GenaInv, Numbered
      <4> QED
        BY <1>5, <2>2, <4>1
    <3>2. CASE numbers # <<>>
      <4> DEFINE before == numbers[Len(numbers)]
      <4>1. Len(numbers) >= 1 /\ before \in 0..(SeqLimit - 1) /\ seq = NextSeq(before)
        BY <1>2, <3>2 DEF GenaInv, Numbered
      <4>2. numbers'[i] = seq /\ numbers'[i - 1] = before /\ i > 1
        BY <1>5, <2>0, <2>2, <4>1
      <4> HIDE DEF before
      <4>3. /\ seq # 0 /\ seq \in {before + 1, 1}
            /\ seq # before + 1 => before = SeqLimit - 1
        BY <4>1, NextNumber
      <4> QED
        BY <4>2, <4>3
    <3> QED
      BY <3>1, <3>2
  <2> QED
    BY <2>0, <2>1, <2>2
<1>10. NumbersTellLoss'
  BY <1>9 DEF NumbersTellLoss
<1> QED
  BY <1>6, <1>7, <1>8, <1>10 DEF GenaInv

LEMMA WaitStep ==
  ASSUME GenaInv, Wait
  PROVE  GenaInv'
<1> DEFINE older(i) == [value |-> pending[i].value, age |-> Older(pending[i].age)]
<1>1. /\ pending' = [i \in DOMAIN pending |-> older(i)]
      /\ window' = IF window = Shut THEN Shut ELSE Older(window)
      /\ UNCHANGED <<seq, numbers, notified, logged>>
  BY DEF Wait, told
<1>2. pending \in Seq(Change) /\ window \in Age \cup {Shut}
  BY DEF GenaInv, GenaTypeOK
<1>3. DOMAIN pending = 1..Len(pending) /\ Len(pending) \in Nat
  BY <1>2
<1>4. \A age \in Age : Older(age) \in Age /\ Older(age) # Shut
  BY DEF Older, Age, Shut
<1>5. ASSUME NEW i \in 1..Len(pending)
      PROVE  /\ older(i) \in Change
             /\ older(i).value = pending[i].value /\ older(i).age = Older(pending[i].age)
  <2>1. pending[i] \in Change
    BY <1>2
  <2> QED
    BY <1>4, <2>1 DEF Change
<1> HIDE DEF older
<1>6. /\ pending' \in Seq(Change) /\ Len(pending') = Len(pending)
      /\ \A i \in 1..Len(pending) : pending'[i] = older(i)
  BY <1>1, <1>3, <1>5
<1>7. GenaTypeOK'
  <2>1. window' \in Age \cup {Shut}
    BY <1>1, <1>2, <1>4
  <2> QED
    BY <1>1, <1>6, <2>1 DEF GenaInv, GenaTypeOK
<1>8. ToldWhatWasLogged'
  <2>1. Values(pending') = [i \in 1..Len(pending) |-> pending'[i].value]
    BY <1>6 DEF Values
  <2>2. Values(pending) = [i \in 1..Len(pending) |-> pending[i].value]
    BY <1>3 DEF Values
  <2>3. \A i \in 1..Len(pending) : pending'[i].value = pending[i].value
    BY <1>5, <1>6
  <2>4. Values(pending') = Values(pending)
    BY <2>1, <2>2, <2>3
  <2> QED
    BY <1>1, <2>4 DEF GenaInv, ToldWhatWasLogged
<1>9. NumbersTellLoss' /\ Numbered'
  BY <1>1 DEF GenaInv, NumbersTellLoss, Numbered
<1>10. Windowed'
  <2>1. window = Shut <=> pending = <<>>
    BY DEF GenaInv, Windowed
  <2>2. pending' = <<>> <=> pending = <<>>
    BY <1>2, <1>6
  <2>3. window' = Shut <=> window = Shut
    BY <1>1, <1>2, <1>4
  <2>4. ASSUME pending # <<>>
        PROVE  Head(pending').age = window'
    <3>1. 1 \in 1..Len(pending)
      BY <1>2, <2>4
    <3>2. Head(pending) = pending[1] /\ Head(pending').age = Older(pending[1].age)
      BY <1>5, <1>6, <2>2, <2>4, <3>1
    <3>3. pending[1].age = window
      BY <2>4, <3>2 DEF GenaInv, Windowed
    <3> QED
      BY <1>1, <2>1, <2>4, <3>2, <3>3
  <2> QED
    BY <2>1, <2>2, <2>3, <2>4 DEF Windowed
<1> QED
  BY <1>7, <1>8, <1>9, <1>10 DEF GenaInv

LEMMA GenaStep == GenaInv /\ [GenaNext]_genaVars => GenaInv'
<1> SUFFICES ASSUME GenaInv, [GenaNext]_genaVars PROVE GenaInv'
  OBVIOUS
<1>0. <<>> \in Seq(Value) /\ logged \in Seq(Value) /\ logged \o <<>> = logged
  <2>1. <<>> \in Seq(Value) /\ logged \in Seq(Value)
    BY DEF GenaInv, GenaTypeOK
  <2> QED
    BY <2>1, ConcatEmpty
<1>1. CASE \E value \in Value : Log(value)
  BY <1>1, LogStep
<1>2. CASE Tick \/ Flush
  <2>1. Flushed(<<>>) /\ logged' = logged \o <<>>
    BY <1>0, <1>2 DEF Tick, Flush
  <2> QED
    BY <1>0, <2>1, FlushedStep
<1>3. CASE \E variables \in SeqOf(Value, MaxVariables) : InitialNotify(variables)
  <2>1. PICK variables \in SeqOf(Value, MaxVariables) : InitialNotify(variables)
    BY <1>3
  <2>2. variables \in Seq(Value)
    BY DEF SeqOf
  <2> QED
    BY <2>1, <2>2, FlushedStep DEF InitialNotify
<1>4. CASE Wait
  BY <1>4, WaitStep
<1>5. CASE UNCHANGED genaVars
  BY <1>5 DEF genaVars, scheduler, told, GenaInv, GenaTypeOK, ToldWhatWasLogged,
     NumbersTellLoss, Numbered, Windowed
<1> QED
  BY <1>1, <1>2, <1>3, <1>4, <1>5 DEF GenaNext

LEMMA GenaSafe == GenaSpec => []GenaInv
  BY GenaStarts, GenaStep, PTL DEF GenaSpec

(* The variables of dmr.rs and gena.rs keep their types.                      *)
THEOREM TypeCorrect == (RendererSpec => []RendererTypeOK) /\ (GenaSpec => []GenaTypeOK)
<1>1. RendererInv => RendererTypeOK
  BY DEF RendererInv
<1>2. GenaInv => GenaTypeOK
  BY DEF GenaInv
<1>3. RendererSpec => []RendererTypeOK
  BY <1>1, RendererStarts, RendererStep, PTL DEF RendererSpec
<1>4. GenaSpec => []GenaTypeOK
  BY <1>2, GenaSafe, PTL
<1> QED
  BY <1>3, <1>4

(* However ticks, direct flushes and initial events fall between the changes  *)
(* that the caller logs (gena.rs), what was told and what is pending are, in  *)
(* order, what was logged.                                                    *)
THEOREM NothingUntold == GenaSpec => []ToldWhatWasLogged
<1>1. GenaInv => ToldWhatWasLogged
  BY DEF GenaInv
<1> QED
  BY <1>1, GenaSafe, PTL

(* gena.rs F-28: the number 0 is the first NOTIFY's alone, also after the     *)
(* numbers have wrapped around, and a gap between two numbers is a loss.      *)
THEOREM LossIsVisible == GenaSpec => []NumbersTellLoss
<1>1. GenaInv => NumbersTellLoss
  BY DEF GenaInv
<1> QED
  BY <1>1, GenaSafe, PTL

(* gena.rs F-27: no tick sends changes before the window of the oldest has    *)
(* passed, whatever was flushed before.                                       *)
THEOREM Collected == GenaSpec => ChangesAreCollected
<1>1. GenaInv => (Tick => Head(pending).age = Coalesce)
  BY DEF Tick, Due, GenaInv, GenaTypeOK, Windowed, Age
<1>2. GenaInv => [Tick => Head(pending).age = Coalesce]_genaVars
  BY <1>1
<1> QED
  BY <1>2, GenaSafe, PTL DEF GenaSpec, ChangesAreCollected

-----------------------------------------------------------------------------
(* The controller's leases of media URLs.                                      *)

(* What the controller owes each URL is what its one lease says.              *)
Promises == [Url -> [token : 0..MaxLeases, left : 0..LeaseTtl]]

LeaseInv ==
  /\ ControllerTypeOK
  /\ promised \in Promises
  /\ \A l \in leases : promised[l.url] = [token |-> l.token, left |-> l.left]
  /\ \A url \in Url : promised[url].left > 0 => \E l \in leases : l.url = url

Entries ==
  /\ DOMAIN renderers \subseteq Usn
  /\ \A u \in DOMAIN renderers : renderers[u] \in RendererEntry

(* What a lease and the promise to its URL say of each other.                 *)
LEMMA Paired ==
  ASSUME LeaseInv, NEW l \in leases
  PROVE  /\ l = [token |-> l.token, url |-> l.url, left |-> l.left]
         /\ l.token \in 1..MaxLeases /\ l.url \in Url /\ l.left \in 0..LeaseTtl
         /\ promised[l.url].token = l.token
         /\ promised[l.url].left = l.left
<1>1. l \in UrlLease
  BY DEF LeaseInv, ControllerTypeOK
<1>2. promised[l.url] = [token |-> l.token, left |-> l.left]
  BY DEF LeaseInv
<1> QED
  BY <1>1, <1>2 DEF UrlLease

LEMMA NoLeases == ControllerInit => LeaseInv
  BY ControllerAssumption DEF ControllerInit, LeaseInv, ControllerTypeOK, Promises

LEMMA RegistryKeeps ==
  ASSUME LeaseInv, NEW usn \in Usn,
         \/ \E location \in Location, left \in MaxAge \cup {DefaultMaxAge} :
              Alive(usn, location, left)
         \/ ByeBye(usn)
         \/ \E info \in SUBSET Format : SetProtocolInfo(usn, info)
  PROVE  LeaseInv'
<1>0. UNCHANGED <<leases, counter, promised>>
  BY DEF Alive, ByeBye, SetProtocolInfo
<1>1. Entries'
  <2>0. Entries
    BY DEF LeaseInv, ControllerTypeOK, Entries
  <2>1. ASSUME NEW location \in Location, NEW left \in MaxAge \cup {DefaultMaxAge},
               Alive(usn, location, left)
        PROVE  Entries'
    <3>1. left \in Nat /\ location \in AllowedLocation
      BY <2>1, ControllerAssumption DEF Alive
    <3>2. EntryOf(usn, location, left) \in RendererEntry
      BY <2>0, <3>1 DEF EntryOf, RendererEntry, Known, Entries
    <3> QED
      BY <2>0, <2>1, <3>2 DEF Alive, Entries, Entries
  <2>2. ASSUME ByeBye(usn) PROVE Entries'
    BY <2>0, <2>2 DEF ByeBye, Entries
  <2>3. ASSUME NEW info \in SUBSET Format, SetProtocolInfo(usn, info) PROVE Entries'
    <3> DEFINE described == [renderers[usn] EXCEPT !.protocol_info = info,
                                                   !.described = {renderers[usn].location}]
    <3>1. described \in RendererEntry
      BY <2>0, <2>3 DEF SetProtocolInfo, RendererEntry, Known, Entries
    <3>2. renderers' = [renderers EXCEPT ![usn] = described]
      BY <2>3 DEF SetProtocolInfo
    <3> QED
      BY <2>0, <3>1, <3>2 DEF Entries
  <2> QED
    BY <2>1, <2>2, <2>3
<1> QED
  BY <1>0, <1>1 DEF LeaseInv, ControllerTypeOK, Entries

LEMMA GrantKeeps ==
  ASSUME LeaseInv, NEW url \in Url, GrantLease(url)
  PROVE  LeaseInv'
<1> DEFINE lease == [token |-> counter', url |-> url, left |-> LeaseTtl]
           new == [token |-> counter', left |-> LeaseTtl]
<1>1. counter' \in 1..MaxLeases /\ counter' \in 0..MaxLeases
  BY ControllerAssumption DEF GrantLease, LeaseInv, ControllerTypeOK
<1>2. lease \in UrlLease /\ new \in [token : 0..MaxLeases, left : 0..LeaseTtl]
  BY <1>1, ControllerAssumption DEF UrlLease
<1>3. leases' = {l \in leases : l.url # url} \cup {lease}
  BY DEF GrantLease
<1>4. promised' = [promised EXCEPT ![url] = new] /\ UNCHANGED renderers
  BY DEF GrantLease
<1>5. promised' \in Promises
  BY <1>2, <1>4 DEF LeaseInv, Promises
<1>6. ControllerTypeOK'
  BY <1>1, <1>2, <1>3, <1>4 DEF LeaseInv, ControllerTypeOK
<1>7. \A l \in leases' : promised'[l.url] = [token |-> l.token, left |-> l.left]
  <2>1. promised'[url] = new
    BY <1>4 DEF LeaseInv, Promises
  <2>2. \A u \in Url : u # url => promised'[u] = promised[u]
    BY <1>4 DEF LeaseInv, Promises
  <2>3. promised'[lease.url] = [token |-> lease.token, left |-> lease.left]
    BY <2>1
  <2>4. ASSUME NEW l \in leases, l.url # url
        PROVE  promised'[l.url] = [token |-> l.token, left |-> l.left]
    BY <2>2, <2>4, Paired DEF LeaseInv
  <2> QED
    BY <1>3, <2>3, <2>4
<1>8. \A u \in Url : promised'[u].left > 0 => \E l \in leases' : l.url = u
  <2>1. \A u \in Url : u # url => promised'[u] = promised[u]
    BY <1>4 DEF LeaseInv, Promises
  <2>2. \A u \in Url : promised[u].left > 0 => \E l \in leases : l.url = u
    BY DEF LeaseInv
  <2>3. lease \in leases' /\ lease.url = url
    BY <1>3
  <2> QED
    BY <1>3, <2>1, <2>2, <2>3
<1> QED
  BY <1>5, <1>6, <1>7, <1>8 DEF LeaseInv

(* A failed grant and a revocation by URL end the same lease.                 *)
LEMMA UrlEndKeeps ==
  ASSUME LeaseInv, NEW url \in Url, GrantFails(url) \/ RevokeForUrl(url)
  PROVE  LeaseInv'
<1>1. /\ leases' = {l \in leases : l.url # url}
      /\ promised' = [promised EXCEPT ![url].left = 0]
      /\ UNCHANGED renderers
  BY DEF GrantFails, RevokeForUrl
<1>2. counter' \in 0..MaxLeases
  BY ControllerAssumption DEF GrantFails, RevokeForUrl, LeaseInv, ControllerTypeOK
<1>3. /\ promised' \in Promises
      /\ promised'[url].left = 0
      /\ \A u \in Url : u # url => promised'[u] = promised[u]
  BY <1>1, ControllerAssumption DEF LeaseInv, Promises
<1>4. ControllerTypeOK'
  BY <1>1, <1>2 DEF LeaseInv, ControllerTypeOK
<1>5. \A l \in leases' : promised'[l.url] = [token |-> l.token, left |-> l.left]
  BY <1>1, <1>3 DEF LeaseInv, ControllerTypeOK, UrlLease
<1>6. \A u \in Url : promised'[u].left > 0 => \E l \in leases' : l.url = u
  BY <1>1, <1>3 DEF LeaseInv
<1> QED
  BY <1>3, <1>4, <1>5, <1>6 DEF LeaseInv

(* A lease that was replaced is no longer what its URL was promised.          *)
LEMMA RevokeKeeps ==
  ASSUME LeaseInv, NEW token \in 1..MaxLeases, Revoke(token)
  PROVE  LeaseInv'
<1>1. /\ leases' = {l \in leases : l.token # token}
      /\ promised' = Broken(token)
      /\ UNCHANGED <<renderers, counter>>
  BY DEF Revoke
<1>2. \A u \in Url :
        /\ promised[u].token # token => promised'[u] = promised[u]
        /\ promised[u].token = token => promised'[u] = [promised[u] EXCEPT !.left = 0]
  BY <1>1 DEF Broken
<1>3. promised' \in Promises
  BY <1>1, ControllerAssumption DEF Broken, LeaseInv, Promises
<1>4. ControllerTypeOK'
  BY <1>1 DEF LeaseInv, ControllerTypeOK
<1>5. ASSUME NEW l \in leases'
      PROVE  promised'[l.url] = [token |-> l.token, left |-> l.left]
  <2>1. l \in leases /\ l.token # token
    BY <1>1
  <2>2. l.url \in Url /\ promised[l.url].token # token
    BY <2>1, Paired
  <2> QED
    BY <1>2, <2>1, <2>2 DEF LeaseInv
<1>6. ASSUME NEW u \in Url, promised'[u].left > 0
      PROVE  \E l \in leases' : l.url = u
  <2>1. promised[u] \in [token : 0..MaxLeases, left : 0..LeaseTtl]
    BY DEF LeaseInv, Promises
  <2>2. promised[u].token # token
    <3> SUFFICES ASSUME promised[u].token = token PROVE FALSE
      OBVIOUS
    <3>1. promised'[u].left = 0
      BY <1>2, <2>1
    <3> QED
      BY <1>6, <3>1
  <2>5. promised[u].left > 0
    BY <1>2, <1>6, <2>2
  <2>3. PICK l \in leases : l.url = u
    BY <2>5 DEF LeaseInv
  <2>4. l.token # token
    BY <2>2, <2>3, Paired
  <2> QED
    BY <1>1, <2>3, <2>4
<1> QED
  BY <1>3, <1>4, <1>5, <1>6 DEF LeaseInv

LEMMA SweepKeeps ==
  ASSUME LeaseInv, SweepLeases
  PROVE  LeaseInv'
<1>1. ASSUME NEW u \in Url, promised'[u].left > 0
      PROVE  \E l \in leases' : l.url = u
  <2>1. promised[u].left > 0
    BY <1>1 DEF SweepLeases
  <2>2. PICK l \in leases : l.url = u
    BY <2>1 DEF LeaseInv
  <2>3. l.left = promised[u].left
    BY <2>2, Paired
  <2> QED
    BY <2>1, <2>2, <2>3 DEF SweepLeases
<1>2. ControllerTypeOK' /\ promised' \in Promises
  BY DEF SweepLeases, LeaseInv, ControllerTypeOK
<1>3. \A l \in leases' : promised'[l.url] = [token |-> l.token, left |-> l.left]
  BY DEF SweepLeases, LeaseInv
<1> QED
  BY <1>1, <1>2, <1>3 DEF LeaseInv

LEMMA PassKeeps ==
  ASSUME LeaseInv, Pass
  PROVE  LeaseInv'
<1>0. /\ renderers' = [u \in DOMAIN renderers |-> [renderers[u] EXCEPT !.left = Passed(@)]]
      /\ leases' = {[l EXCEPT !.left = Passed(@)] : l \in leases}
      /\ promised' = [url \in Url |-> [promised[url] EXCEPT !.left = Passed(@)]]
      /\ counter' = counter
  BY DEF Pass
<1>1. \A n \in Nat : Passed(n) \in Nat /\ Passed(n) <= n
  BY DEF Passed
<1>2. \A n \in 0..LeaseTtl : Passed(n) \in 0..LeaseTtl
  BY <1>1, ControllerAssumption
<1>3. promised' \in Promises
  BY <1>0, <1>2 DEF LeaseInv, Promises
<1>4. \A u \in DOMAIN renderers' : renderers'[u] \in RendererEntry
  BY <1>0, <1>1 DEF LeaseInv, ControllerTypeOK, RendererEntry
<1>5. leases' \subseteq UrlLease
  BY <1>0, <1>2 DEF LeaseInv, ControllerTypeOK, UrlLease
<1>6. ControllerTypeOK'
  BY <1>0, <1>4, <1>5 DEF LeaseInv, ControllerTypeOK
<1>7. ASSUME NEW l \in leases'
      PROVE  promised'[l.url] = [token |-> l.token, left |-> l.left]
  <2>1. PICK k \in leases : l = [k EXCEPT !.left = Passed(@)]
    BY <1>0
  <2>2. k \in UrlLease /\ promised[k.url] = [token |-> k.token, left |-> k.left]
    BY DEF LeaseInv, ControllerTypeOK
  <2>3. l = [token |-> k.token, url |-> k.url, left |-> Passed(k.left)]
    BY <2>1, <2>2 DEF UrlLease
  <2>4. promised'[k.url] = [promised[k.url] EXCEPT !.left = Passed(@)]
    BY <1>0, <2>2 DEF UrlLease
  <2> QED
    BY <2>2, <2>3, <2>4
<1>8. ASSUME NEW u \in Url, promised'[u].left > 0
      PROVE  \E l \in leases' : l.url = u
  <2>1. promised[u].left \in Nat /\ promised'[u].left = Passed(promised[u].left)
    BY <1>0 DEF LeaseInv, Promises
  <2>2. promised[u].left > 0
    BY <1>8, <2>1 DEF Passed
  <2>3. PICK k \in leases : k.url = u
    BY <2>2 DEF LeaseInv
  <2>4. [k EXCEPT !.left = Passed(@)].url = u
    BY <2>3 DEF LeaseInv, ControllerTypeOK, UrlLease
  <2> QED
    BY <1>0, <2>4
<1> QED
  BY <1>3, <1>6, <1>7, <1>8 DEF LeaseInv

LEMMA ControllerStep == LeaseInv /\ [ControllerNext]_controllerVars => LeaseInv'
<1> SUFFICES ASSUME LeaseInv, [ControllerNext]_controllerVars PROVE LeaseInv'
  OBVIOUS
<1>1. CASE \E usn \in Usn, location \in Location, left \in MaxAge \cup {DefaultMaxAge} :
             Alive(usn, location, left)
  BY <1>1, RegistryKeeps
<1>2. CASE \/ \E usn \in Usn : ByeBye(usn)
           \/ \E usn \in Usn, info \in SUBSET Format : SetProtocolInfo(usn, info)
  BY <1>2, RegistryKeeps
<1>3. CASE \E url \in Url : GrantLease(url) \/ GrantFails(url) \/ RevokeForUrl(url)
  BY <1>3, GrantKeeps, UrlEndKeeps
<1>4. CASE \E token \in 1..MaxLeases : Revoke(token)
  BY <1>4, RevokeKeeps
<1>5. CASE SweepLeases \/ Pass
  BY <1>5, SweepKeeps, PassKeeps
<1>6. CASE UNCHANGED controllerVars
  BY <1>6 DEF controllerVars, LeaseInv, ControllerTypeOK
<1> QED
  BY <1>1, <1>2, <1>3, <1>4, <1>5, <1>6 DEF ControllerNext

LEMMA OneLeaseEach == LeaseInv => LeasesAreExact
<1> SUFFICES ASSUME LeaseInv PROVE LeasesAreExact
  OBVIOUS
<1>1. ASSUME NEW url \in Url, promised[url].left > 0
      PROVE  IsLive(url)
  <2>1. PICK l \in leases : l.url = url
    BY <1>1 DEF LeaseInv
  <2> QED
    BY <1>1, <2>1, Paired DEF IsLive
<1>3. \A url \in Url : IsLive(url) => promised[url].left > 0
  BY Paired DEF IsLive
<1>2. ASSUME NEW l \in leases, NEW k \in leases, l.url = k.url
      PROVE  l = k
  BY <1>2, Paired
<1> QED
  BY <1>1, <1>2, <1>3 DEF LeasesAreExact, LeaseInv

(* Whatever is granted, replaced, refused, revoked late or left to run out,   *)
(* in any order and for any URLs: a URL can be fetched exactly as long as the *)
(* latest lease it was given lasts, and has no other (dmc.rs, UrlLeaseStore). *)
THEOREM LeasesStayExact == ControllerSpec => []LeasesAreExact
  BY NoLeases, ControllerStep, OneLeaseEach, PTL DEF ControllerSpec
=============================================================================
