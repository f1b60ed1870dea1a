-------------------------- MODULE QuickShareProofs --------------------------
(* Quick Share: what holds of a link between two peers, for any deadline, any *)
(* number of faults, messages and payloads; of the session that receives      *)
(* files, for any budget, payloads, names and failures; and of the control    *)
(* frames of two ends, for any policies, delays and payload ids.              *)
EXTENDS QuickShareLink, ReceiveSession, QuickShareControl, InductionLemmas, SequenceTheorems

-----------------------------------------------------------------------------
(* The receive session keeps the pieces of every payload together, and its    *)
(* two counts of them in step.                                                *)

USE ReceiveAssumption

(* The inductive invariant.                                                   *)

(* A temporary file is named by its handle and the id of its entry.           *)
EntryId == {ToString(place) : place \in Nat \X Nat}
TempName == Nat \X EntryId

Record == [temp : TempName, limit : Nat, hashed : Seq(Payload \X Nat),
           state : {"open", "terminated"}]

(* Every entry of the store has its own handle, one that was used up.         *)
StoreOK ==
  /\ entries \in Seq(Record)
  /\ nextHandle \in Nat
  /\ \A e \in DOMAIN entries : Temp(e)[1] < nextHandle
  /\ \A e, f \in DOMAIN entries : e # f => Temp(e)[1] # Temp(f)[1]

(* A temporary file holds pieces of the payload it was made for alone, and an *)
(* entry that lost it was to be larger than its limit.                        *)
OwnTemp(p) ==
  /\ entries[p.entry].state = "open" =>
       Temp(p.entry) \in DOMAIN temps /\ temps[Temp(p.entry)] \in Seq({p.payload} \X Nat)
  /\ p.complete = "yes" => entries[p.entry].state = "open"
  /\ entries[p.entry].state # "open" => entries[p.entry].limit < p.size

(* What the assembler knows of an entry is what the spool hashed.             *)
InStep ==
  \A k \in DOMAIN pending :
    /\ entries[pending[k].entry].hashed = Pieces(pending[k].payload, 0, pending[k].written)
    /\ pending[k].complete = "yes" => pending[k].written = pending[k].size
    /\ OwnTemp(pending[k])

PendingOK ==
  /\ pending \in Seq(Pending)
  /\ ReceiveTypeOK

ReceiveInv == StoreOK /\ PendingOK /\ InStep

LEMMA PiecesAre ==
  ASSUME NEW p \in Payload, NEW o \in Nat, NEW n \in Nat
  PROVE  /\ Pieces(p, o, n) \in Seq(Payload \X Nat)
         /\ Pieces(p, o, n) \in Seq({p} \X Nat)
         /\ Len(Pieces(p, o, n)) = n
         /\ Pieces(p, 0, o) \o Pieces(p, o, n) = Pieces(p, 0, o + n)
<1> DEFINE a == Pieces(p, 0, o)
           b == Pieces(p, o, n)
           c == Pieces(p, 0, o + n)
<1>0. b \in Seq({p} \X Nat)
  BY DEF Pieces
<1>1. b \in Seq(Payload \X Nat) /\ Len(b) = n /\ \A i \in 1..n : b[i] = <<p, o + i>>
  <2>1. b = [i \in 1..n |-> <<p, o + i>>]
    BY DEF Pieces
  <2>2. \A i \in 1..n : b[i] = <<p, o + i>>
    BY <2>1
  <2>3. \A i \in 1..n : <<p, o + i>> \in Payload \X Nat
    OBVIOUS
  <2>4. b \in [1..n -> Payload \X Nat]
    BY <2>1, <2>3
  <2> HIDE DEF b
  <2>5. b \in Seq(Payload \X Nat) /\ Len(b) = n
    BY <2>4
  <2> QED BY <2>2, <2>5
<1>2. a \in Seq(Payload \X Nat) /\ Len(a) = o /\ \A i \in 1..o : a[i] = <<p, i>>
  BY DEF Pieces
<1>3. c \in Seq(Payload \X Nat) /\ Len(c) = o + n /\ \A i \in 1..(o + n) : c[i] = <<p, i>>
  BY DEF Pieces
<1> HIDE DEF a, b, c
<1>4. a \o b \in Seq(Payload \X Nat) /\ Len(a \o b) = o + n
  BY <1>1, <1>2, ConcatProperties
<1>5. \A i \in 1..(o + n) : (a \o b)[i] = c[i]
  <2>1. \A i \in 1..(o + n) : (a \o b)[i] = IF i =< o THEN a[i] ELSE b[i - o]
    BY <1>1, <1>2, ConcatProperties
  <2>2. \A i \in 1..(o + n) : i =< o => i \in 1..o
    OBVIOUS
  <2>3. \A i \in 1..(o + n) : ~ (i =< o) => i - o \in 1..n /\ o + (i - o) = i
    OBVIOUS
  <2>4. \A i \in 1..(o + n) : i =< o => (a \o b)[i] = <<p, i>>
    BY <1>2, <2>1, <2>2
  <2>5. \A i \in 1..(o + n) : ~ (i =< o) => (a \o b)[i] = <<p, i>>
    BY <1>1, <2>1, <2>3
  <2> QED BY <1>3, <2>4, <2>5
<1>6. a \o b = c
  BY <1>3, <1>4, <1>5, SeqEqual
<1> QED BY <1>0, <1>1, <1>6 DEF a, b, c

(* The properties that the runs check follow.                                 *)
LEMMA InvImplies == ReceiveInv => BoundToItsPayload /\ CountsAgree
<1> SUFFICES ASSUME ReceiveInv PROVE BoundToItsPayload /\ CountsAgree
  OBVIOUS
<1>1. \A k \in DOMAIN pending : pending[k] \in Pending
  BY DEF ReceiveInv, PendingOK, ReceiveTypeOK
<1>0. \A k \in DOMAIN pending : pending[k].payload \in Payload /\ pending[k].written \in Nat
  BY <1>1 DEF Pending
<1>2. \A k \in DOMAIN pending :
        /\ Len(entries[pending[k].entry].hashed) = pending[k].written
        /\ \A i \in DOMAIN entries[pending[k].entry].hashed :
             entries[pending[k].entry].hashed[i] = <<pending[k].payload, i>>
  <2> TAKE k \in DOMAIN pending
  <2>1. entries[pending[k].entry].hashed = Pieces(pending[k].payload, 0, pending[k].written)
    BY DEF ReceiveInv, InStep
  <2>2. \A i \in 1..pending[k].written :
          Pieces(pending[k].payload, 0, pending[k].written)[i] = <<pending[k].payload, i>>
    BY <1>0 DEF Pieces
  <2>3. DOMAIN Pieces(pending[k].payload, 0, pending[k].written) = 1..pending[k].written
    BY DEF Pieces
  <2>4. Len(Pieces(pending[k].payload, 0, pending[k].written)) = pending[k].written
    BY <1>0, PiecesAre
  <2> QED BY <2>1, <2>2, <2>3, <2>4
<1>3. \A k \in DOMAIN pending : OwnTemp(pending[k])
  BY DEF ReceiveInv, InStep
<1>4. \A k \in DOMAIN pending : pending[k].complete \in {"yes", "no"}
  BY <1>1 DEF Pending
<1>5. BoundToItsPayload
  BY <1>2, <1>3 DEF BoundToItsPayload, ReceiveInv, PendingOK, OwnTemp
<1> QED BY <1>2, <1>3, <1>4, <1>5 DEF CountsAgree, ReceiveInv, InStep, Written, OwnTemp

LEMMA InitInv == ReceiveInit => ReceiveInv
<1> SUFFICES ASSUME ReceiveInit PROVE ReceiveInv
  OBVIOUS
<1>1. entries = <<>> /\ pending = <<>> /\ nextHandle = 1 /\ seq = 1
  BY DEF ReceiveInit, InitSpool
<1> QED BY <1>1 DEF ReceiveInv, StoreOK, PendingOK, InStep, ReceiveTypeOK

-----------------------------------------------------------------------------
(* The operations of the spool.                                               *)

LEMMA RecordsAre == StoreOK => \A e \in DOMAIN entries : entries[e] \in Record
BY DEF StoreOK

(* Temporary files are made for the first requests, under fresh handles; the  *)
(* entries there were stay as they are.                                       *)
LEMMA BeginsMakes ==
  ASSUME StoreOK, NEW requests \in Seq([id : EntryId, limit : Nat]), Begins(requests)
  PROVE  \E n \in 0..Len(requests) :
           /\ StoreOK'
           /\ Len(entries') = Len(entries) + n
           /\ \A e \in DOMAIN entries : entries'[e] = entries[e]
           /\ \A i \in 1..n :
                /\ entries'[Len(entries) + i].hashed = <<>>
                /\ entries'[Len(entries) + i].state = "open"
                /\ entries'[Len(entries) + i].temp \in DOMAIN temps'
                /\ temps'[entries'[Len(entries) + i].temp] = <<>>
           /\ \A t \in DOMAIN temps : t \in DOMAIN temps' /\ temps'[t] = temps[t]
<1> DEFINE name(i) == <<nextHandle + i - 1, requests[i].id>>
           new(k) == \A i \in 1..k : name(i) \notin DOMAIN temps
           stops(k) == new(k) /\ (k < Len(requests) => name(k + 1) \in DOMAIN temps)
           n == CHOOSE k \in 0..Len(requests) : stops(k)
           made == [i \in 1..n |->
             [temp |-> name(i), limit |-> requests[i].limit, hashed |-> <<>>, state |-> "open"]]
<1>0. Len(requests) \in Nat /\ nextHandle \in Nat
  BY DEF StoreOK
<1>1. \E k \in 0..Len(requests) : stops(k)
  <2> DEFINE fine == {k \in 0..Len(requests) : new(k)}
  <2>1. 0 \in fine
    BY <1>0
  <2>2. PICK k \in fine : \A j \in fine : j =< k
    <3>1. fine \in SUBSET (0..Len(requests)) /\ fine # {}
      BY <2>1
    <3> HIDE DEF fine
    <3> QED BY <1>0, <3>1, GreatestUpTo
  <2>3. ASSUME k < Len(requests) PROVE name(k + 1) \in DOMAIN temps
    <3>0. k \in 0..Len(requests) /\ k + 1 \in 0..Len(requests) /\ ~ (k + 1 =< k)
      BY <1>0, <2>3
    <3>1. k + 1 \notin fine
      <4> HIDE DEF fine
      <4> QED BY <2>2, <3>0
    <3>2. PICK i \in 1..(k + 1) : name(i) \in DOMAIN temps
      BY <3>0, <3>1
    <3>3. i \notin 1..k
      BY <2>2, <3>2
    <3>4. i = k + 1
      BY <3>0, <3>2, <3>3
    <3> QED BY <3>2, <3>4
  <2> QED BY <2>2, <2>3
<1>2. n \in 0..Len(requests) /\ new(n)
  <2> HIDE DEF stops
  <2>1. n \in 0..Len(requests) /\ stops(n)
    BY <1>1
  <2> QED BY <2>1 DEF stops
<1>3. /\ entries' = entries \o made
      /\ temps' = [t \in DOMAIN temps \cup {name(i) : i \in 1..n} |->
                     IF t \in DOMAIN temps THEN temps[t] ELSE <<>>]
      /\ nextHandle' = nextHandle + (IF n < Len(requests) THEN n + 1 ELSE n)
  BY DEF Begins
<1>16. \A i \in 1..n : name(i) \in DOMAIN temps' /\ temps'[name(i)] = <<>>
  BY <1>2, <1>3
<1>17. \A t \in DOMAIN temps : t \in DOMAIN temps' /\ temps'[t] = temps[t]
  BY <1>3
<1> HIDE DEF n, new
<1>15. n \in Nat /\ n =< Len(requests) /\ \A i \in 1..n : i \in 1..Len(requests)
  BY <1>0, <1>2
<1>4. \A i \in 1..n : requests[i].id \in EntryId /\ requests[i].limit \in Nat
  <2>1. \A i \in 1..Len(requests) : requests[i] \in [id : EntryId, limit : Nat]
    BY ElementOfSeq
  <2> QED BY <1>15, <2>1
<1>5. \A i \in 1..n : name(i) \in TempName
  <2> TAKE i \in 1..n
  <2>1. requests[i].id \in EntryId
    BY <1>4
  <2>2. i \in Nat /\ i >= 1 /\ nextHandle \in Nat
    BY <1>0, <1>15
  <2>3. nextHandle + i - 1 \in Nat
    BY <2>2
  <2> QED BY <2>1, <2>3 DEF TempName
<1>6. \A i \in 1..n : made[i] \in Record
  <2> HIDE DEF name
  <2> QED BY <1>4, <1>5 DEF Record
<1>7. made \in Seq(Record) /\ Len(made) = n /\ DOMAIN made = 1..n
  <2>1. n \in Nat
    BY <1>0, <1>2
  <2> QED BY <1>6, <2>1
<1>8. /\ entries' \in Seq(Record)
      /\ Len(entries') = Len(entries) + n
      /\ \A e \in 1..(Len(entries) + n) :
           entries'[e] = IF e =< Len(entries) THEN entries[e] ELSE made[e - Len(entries)]
  <2> HIDE DEF made
  <2> QED BY <1>3, <1>7, ConcatProperties DEF StoreOK
<1>9. \A e \in DOMAIN entries : entries'[e] = entries[e]
  <2>1. \A e \in DOMAIN entries : e \in 1..(Len(entries) + n) /\ e =< Len(entries)
    BY <1>15 DEF StoreOK
  <2> HIDE DEF made
  <2> QED BY <1>8, <2>1
<1>10. \A i \in 1..n : entries'[Len(entries) + i] = made[i]
  <2> TAKE i \in 1..n
  <2>1. /\ Len(entries) + i \in 1..(Len(entries) + n)
        /\ ~ (Len(entries) + i =< Len(entries))
        /\ (Len(entries) + i) - Len(entries) = i
    BY <1>0, <1>2 DEF StoreOK
  <2> HIDE DEF made
  <2> QED BY <1>8, <2>1
<1>11. \A i \in 1..n : entries'[Len(entries) + i].temp = name(i)
  <2>1. \A i \in 1..n : made[i].temp = name(i)
    <3> HIDE DEF name
    <3> QED OBVIOUS
  <2> HIDE DEF made
  <2> QED BY <1>10, <2>1
<1>13. StoreOK'
  <2>1. DOMAIN entries = 1..Len(entries) /\ Len(entries) \in Nat
        /\ DOMAIN entries' = 1..(Len(entries) + n)
    BY <1>8 DEF StoreOK
  <2>2. \A e \in DOMAIN entries' : e \in DOMAIN entries \/ \E i \in 1..n : e = Len(entries) + i
    <3> TAKE e \in DOMAIN entries'
    <3>1. CASE e =< Len(entries)
      BY <2>1, <3>1
    <3>2. CASE e > Len(entries)
      <4>1. e - Len(entries) \in 1..n /\ e = Len(entries) + (e - Len(entries))
        BY <1>0, <1>2, <2>1, <3>2
      <4> QED BY <4>1
    <3> QED BY <2>1, <3>1, <3>2
  <2>3. \A e \in DOMAIN entries : entries'[e].temp[1] < nextHandle /\ entries'[e].temp[1] \in Nat
    <3>1. \A e \in DOMAIN entries : entries[e].temp \in Nat \X EntryId
      BY RecordsAre DEF Record, TempName
    <3> QED BY <1>9, <3>1 DEF StoreOK, Temp
  <2>4. \A i \in 1..n : entries'[Len(entries) + i].temp[1] = nextHandle + i - 1
    BY <1>11
  <2>5. nextHandle' \in Nat /\ nextHandle + n =< nextHandle'
    <3>1. nextHandle \in Nat /\ n \in Nat
      BY <1>0, <1>15
    <3>2. nextHandle' = nextHandle + n + 1 \/ nextHandle' = nextHandle + n
      BY <1>3, <3>1
    <3> QED BY <3>1, <3>2
  <2>6. \A e \in DOMAIN entries' : entries'[e].temp[1] < nextHandle'
    <3>1. \A e \in DOMAIN entries : entries'[e].temp[1] < nextHandle'
      BY <1>0, <1>15, <2>3, <2>5
    <3>2. \A i \in 1..n : entries'[Len(entries) + i].temp[1] < nextHandle'
      <4>1. \A i \in 1..n : nextHandle + i - 1 < nextHandle'
        BY <1>0, <1>15, <2>5
      <4> QED BY <2>4, <4>1
    <3> QED BY <2>2, <3>1, <3>2
  <2>7. \A e, f \in DOMAIN entries' : e # f => entries'[e].temp[1] # entries'[f].temp[1]
    <3> TAKE e, f \in DOMAIN entries'
    <3> HAVE e # f
    <3>0. \A i \in 1..n : nextHandle + i - 1 \in Nat /\ nextHandle + i - 1 >= nextHandle
      BY <1>0, <1>15
    <3>1. CASE e \in DOMAIN entries /\ f \in DOMAIN entries
      BY <1>9, <3>1 DEF StoreOK, Temp
    <3>2. CASE e \in DOMAIN entries /\ f \notin DOMAIN entries
      <4>1. PICK i \in 1..n : f = Len(entries) + i
        BY <2>2, <3>2
      <4> QED BY <1>0, <2>3, <2>4, <3>0, <3>2, <4>1
    <3>3. CASE e \notin DOMAIN entries /\ f \in DOMAIN entries
      <4>1. PICK i \in 1..n : e = Len(entries) + i
        BY <2>2, <3>3
      <4> QED BY <1>0, <2>3, <2>4, <3>0, <3>3, <4>1
    <3>4. CASE e \notin DOMAIN entries /\ f \notin DOMAIN entries
      <4>1. PICK i \in 1..n : e = Len(entries) + i
        BY <2>2, <3>4
      <4>2. PICK j \in 1..n : f = Len(entries) + j
        BY <2>2, <3>4
      <4>3. i # j
        BY <4>1, <4>2
      <4>4. nextHandle + i - 1 # nextHandle + j - 1
        BY <1>0, <1>15, <4>3
      <4> QED BY <2>4, <4>1, <4>2, <4>4
    <3> QED BY <3>1, <3>2, <3>3, <3>4
  <2> QED BY <1>8, <2>5, <2>6, <2>7 DEF StoreOK, Temp
<1>14. \A i \in 1..n : /\ entries'[Len(entries) + i].hashed = <<>>
                       /\ entries'[Len(entries) + i].state = "open"
                       /\ entries'[Len(entries) + i].temp \in DOMAIN temps'
                       /\ temps'[entries'[Len(entries) + i].temp] = <<>>
  <2>1. \A i \in 1..n : made[i].hashed = <<>> /\ made[i].state = "open"
    OBVIOUS
  <2> HIDE DEF made, name
  <2> QED BY <1>10, <1>11, <1>16, <2>1
<1> QED BY <1>2, <1>8, <1>9, <1>13, <1>14, <1>17

-----------------------------------------------------------------------------
(* Pending entries of a store that grew, or kept its entries.                 *)

(* What the invariant says of one pending entry.                              *)
OpenEntry(p) ==
  /\ p \in Pending
  /\ p.entry \in DOMAIN entries
  /\ entries[p.entry].hashed = Pieces(p.payload, 0, p.written)
  /\ p.complete = "yes" => p.written = p.size
  /\ OwnTemp(p)

LEMMA InvIs ==
  ReceiveInv <=> /\ StoreOK
                 /\ pending \in Seq(Pending)
                 /\ seq \in Nat
                 /\ \A k \in DOMAIN pending : OpenEntry(pending[k])
                 /\ \A j, k \in DOMAIN pending : j # k => pending[j].entry # pending[k].entry
BY DEF ReceiveInv, PendingOK, ReceiveTypeOK, InStep, OpenEntry, OwnTemp, StoreOK

LEMMA InvIsPrimed ==
  ASSUME StoreOK', pending' \in Seq(Pending), seq' \in Nat,
         \A k \in DOMAIN pending' : OpenEntry(pending[k])',
         \A j, k \in DOMAIN pending' : j # k => pending'[j].entry # pending'[k].entry
  PROVE  ReceiveInv'
BY DEF ReceiveInv, PendingOK, ReceiveTypeOK, InStep, OpenEntry, OwnTemp, StoreOK

LEMMA IntroductionStep ==
  ASSUME ReceiveInv, NEW offers \in Seq(Offer), Introduction(offers)
  PROVE  ReceiveInv'
<1> DEFINE valid == {k \in 0..Len(offers) : \A i \in 1..k : offers[i].shape = "good"}
           m == CHOOSE k \in valid : \A other \in valid : other =< k
           request(i) == [id |-> ToString(<<seq + i - 1, i>>),
                          limit |-> IF Budget < offers[i].size THEN Budget ELSE offers[i].size]
           requests == [i \in 1..m |-> request(i)]
           made == Len(entries') - Len(entries)
           new == [i \in 1..made |->
              [entry |-> Len(entries) + i, payload |-> offers[i].payload,
               size |-> offers[i].size, path |-> offers[i].path,
               written |-> 0, complete |-> "no"]]
<1>1. /\ Begins(requests)
      /\ pending' = pending \o new
      /\ seq' = seq + IF made < Len(offers) THEN made + 1 ELSE made
  BY DEF Introduction
<1>2. StoreOK /\ pending \in Seq(Pending) /\ seq \in Nat /\ Len(offers) \in Nat
  BY InvIs
<1>3. m \in 0..Len(offers)
  <2>1. 0 \in valid
    BY <1>2
  <2>2. \E k \in valid : \A other \in valid : other =< k
    <3>1. valid \in SUBSET (0..Len(offers)) /\ valid # {}
      BY <2>1
    <3> HIDE DEF valid
    <3> QED BY <1>2, <3>1, GreatestUpTo
  <2>3. m \in valid
    <3> HIDE DEF valid
    <3> QED BY <2>2
  <2> QED BY <2>3
<1> HIDE DEF m
<1>4. \A i \in 1..Len(offers) : offers[i] \in Offer
  BY ElementOfSeq
<1>5. \A i \in 1..Len(offers) : offers[i].payload \in Payload /\ offers[i].size \in Size
                                /\ offers[i].path \in Path /\ offers[i].size \in Nat
  <2>1. \A size \in Size : size \in Nat
    OBVIOUS
  <2>2. \A o \in Offer : o.payload \in Payload /\ o.size \in Size /\ o.path \in Path
    BY DEF Offer
  <2> QED BY <1>4, <2>1, <2>2
<1>6. m \in Nat /\ \A i \in 1..m : i \in 1..Len(offers)
  BY <1>2, <1>3
<1>7. requests \in Seq([id : EntryId, limit : Nat]) /\ Len(requests) = m
  <2>1. \A i \in 1..m : seq + i - 1 \in Nat /\ i \in Nat
    BY <1>2, <1>6
  <2>2. \A i \in 1..m : ToString(<<seq + i - 1, i>>) \in EntryId
    <3>1. \A a, b \in Nat : ToString(<<a, b>>) \in EntryId
      BY DEF EntryId
    <3> QED BY <2>1, <3>1
  <2>3. \A i \in 1..m : request(i) \in [id : EntryId, limit : Nat]
    BY <1>5, <1>6, <2>2
  <2> DEFINE S == [id : EntryId, limit : Nat]
  <2> HIDE DEF request, S
  <2>4. requests \in [1..m -> S] /\ DOMAIN requests = 1..m
    BY <2>3 DEF S
  <2> HIDE DEF requests
  <2>5. requests \in Seq(S) /\ Len(requests) = m
    BY <1>6, <2>4
  <2> QED BY <2>5 DEF S
<1> HIDE DEF requests
<1>8. PICK n \in 0..m :
        /\ StoreOK'
        /\ Len(entries') = Len(entries) + n
        /\ \A e \in DOMAIN entries : entries'[e] = entries[e]
        /\ \A i \in 1..n : /\ entries'[Len(entries) + i].hashed = <<>>
                           /\ entries'[Len(entries) + i].state = "open"
                           /\ entries'[Len(entries) + i].temp \in DOMAIN temps'
                           /\ temps'[entries'[Len(entries) + i].temp] = <<>>
        /\ \A t \in DOMAIN temps : t \in DOMAIN temps' /\ temps'[t] = temps[t]
  BY <1>1, <1>2, <1>7, BeginsMakes
<1>9. /\ made = n /\ n \in Nat /\ Len(entries) \in Nat
      /\ DOMAIN entries = 1..Len(entries) /\ DOMAIN entries' = 1..(Len(entries) + n)
      /\ \A i \in 1..n : i \in 1..Len(offers)
  BY <1>2, <1>3, <1>6, <1>8 DEF StoreOK
<1>10. new \in Seq(Pending) /\ Len(new) = n /\ DOMAIN new = 1..n
  <2> DEFINE item(i) == [entry |-> Len(entries) + i, payload |-> offers[i].payload,
                         size |-> offers[i].size, path |-> offers[i].path,
                         written |-> 0, complete |-> "no"]
  <2>1. \A i \in 1..n : item(i) \in Pending
    BY <1>5, <1>9 DEF Pending
  <2>2. new = [i \in 1..n |-> item(i)]
    BY <1>9
  <2>3. n \in Nat
    BY <1>9
  <2> HIDE DEF item, new, made
  <2>4. [i \in 1..n |-> item(i)] \in Seq(Pending) /\ Len([i \in 1..n |-> item(i)]) = n
    BY <2>1, <2>3
  <2> QED BY <2>2, <2>4
<1>11. \A i \in 1..n : new[i].entry = Len(entries) + i
  BY <1>9
<1>12. \A i \in 1..n : new[i] \in Pending /\ new[i].written = 0 /\ new[i].complete = "no"
                       /\ new[i].payload \in Payload
  BY <1>5, <1>9, <1>10
<1> HIDE DEF new, made
<1>13. /\ pending' \in Seq(Pending)
       /\ Len(pending') = Len(pending) + n
       /\ \A k \in 1..(Len(pending) + n) :
            pending'[k] = IF k =< Len(pending) THEN pending[k] ELSE new[k - Len(pending)]
  BY <1>1, <1>2, <1>10, ConcatProperties
<1>14. \A k \in DOMAIN pending' :
         \/ k \in DOMAIN pending /\ pending'[k] = pending[k]
         \/ k \notin DOMAIN pending /\ \E i \in 1..n : k = Len(pending) + i /\ pending'[k] = new[i]
  <2>1. Len(pending) \in Nat /\ DOMAIN pending = 1..Len(pending)
        /\ DOMAIN pending' = 1..(Len(pending) + n)
    BY <1>2, <1>13
  <2>2. \A k \in DOMAIN pending' : ~ (k =< Len(pending)) =>
          k - Len(pending) \in 1..n /\ k = Len(pending) + (k - Len(pending))
    BY <1>9, <2>1
  <2>3. \A k \in DOMAIN pending' : k =< Len(pending) <=> k \in DOMAIN pending
    BY <2>1
  <2> QED BY <1>13, <2>1, <2>2, <2>3
<1>15. \A k \in DOMAIN pending' : OpenEntry(pending[k])'
  <2> TAKE k \in DOMAIN pending'
  <2>1. CASE k \in DOMAIN pending /\ pending'[k] = pending[k]
    <3>1. OpenEntry(pending[k])
      BY <2>1, InvIs
    <3>2. pending[k].entry \in DOMAIN entries /\ pending[k].entry \in DOMAIN entries'
      BY <1>9, <3>1 DEF OpenEntry
    <3>3. entries'[pending[k].entry] = entries[pending[k].entry]
      BY <1>8, <3>2
    <3>4. entries[pending[k].entry].state = "open" =>
            /\ Temp(pending[k].entry) \in DOMAIN temps'
            /\ temps'[Temp(pending[k].entry)] = temps[Temp(pending[k].entry)]
      BY <1>8, <3>1 DEF OpenEntry, OwnTemp
    <3> QED BY <2>1, <3>1, <3>2, <3>3, <3>4 DEF OpenEntry, OwnTemp, Temp
  <2>2. CASE \E i \in 1..n : pending'[k] = new[i]
    <3>1. PICK i \in 1..n : pending'[k] = new[i]
      BY <2>2
    <3>2. Len(entries) + i \in DOMAIN entries'
      BY <1>9
    <3>3. Pieces(new[i].payload, 0, 0) = <<>>
      BY DEF Pieces
    <3>4. /\ pending'[k].entry = Len(entries) + i
          /\ pending'[k] \in Pending /\ pending'[k].written = 0 /\ pending'[k].complete = "no"
          /\ pending'[k].payload = new[i].payload
      BY <1>11, <1>12, <3>1
    <3>5. /\ entries'[pending'[k].entry].hashed = <<>>
          /\ entries'[pending'[k].entry].state = "open"
          /\ entries'[pending'[k].entry].temp \in DOMAIN temps'
          /\ temps'[entries'[pending'[k].entry].temp] = <<>>
      <4>1. /\ entries'[Len(entries) + i].hashed = <<>>
            /\ entries'[Len(entries) + i].state = "open"
            /\ entries'[Len(entries) + i].temp \in DOMAIN temps'
            /\ temps'[entries'[Len(entries) + i].temp] = <<>>
        BY <1>8
      <4> QED BY <3>4, <4>1
    <3>6. <<>> \in Seq({pending'[k].payload} \X Nat)
      OBVIOUS
    <3> QED BY <3>2, <3>3, <3>4, <3>5, <3>6 DEF OpenEntry, OwnTemp, Temp
  <2> QED BY <1>14, <2>1, <2>2
<1>16. \A j, k \in DOMAIN pending' : j # k => pending'[j].entry # pending'[k].entry
  <2>1. \A k \in DOMAIN pending : pending[k].entry \in 1..Len(entries)
    BY <1>9, InvIs DEF OpenEntry
  <2>2. \A i \in 1..n : new[i].entry \notin 1..Len(entries)
    BY <1>9, <1>11
  <2>3. \A i, j \in 1..n : i # j => new[i].entry # new[j].entry
    BY <1>9, <1>11
  <2>4. \A j, k \in DOMAIN pending : j # k => pending[j].entry # pending[k].entry
    BY InvIs
  <2> SUFFICES ASSUME NEW j \in DOMAIN pending', NEW k \in DOMAIN pending', j # k
               PROVE  pending'[j].entry # pending'[k].entry
    OBVIOUS
  <2>5. CASE j \in DOMAIN pending /\ k \in DOMAIN pending
    BY <1>14, <2>4, <2>5
  <2>6. CASE j \in DOMAIN pending /\ k \notin DOMAIN pending
    BY <1>14, <2>1, <2>2, <2>6
  <2>7. CASE j \notin DOMAIN pending /\ k \in DOMAIN pending
    BY <1>14, <2>1, <2>2, <2>7
  <2>8. CASE j \notin DOMAIN pending /\ k \notin DOMAIN pending
    <3>1. PICK h \in 1..n : j = Len(pending) + h /\ pending'[j] = new[h]
      BY <1>14, <2>8
    <3>2. PICK i \in 1..n : k = Len(pending) + i /\ pending'[k] = new[i]
      BY <1>14, <2>8
    <3>3. h # i
      BY <3>1, <3>2
    <3> QED BY <2>3, <3>1, <3>2, <3>3
  <2> QED BY <2>5, <2>6, <2>7, <2>8
<1>17. seq' \in Nat
  BY <1>1, <1>2, <1>9
<1>18. pending' \in Seq(Pending)
  BY <1>13
<1> QED BY <1>8, <1>15, <1>16, <1>17, <1>18, InvIsPrimed

(* A frame goes to the first entry of its payload.                            *)
LEMMA TargetIs ==
  ASSUME ReceiveInv, NEW payload, \E k \in DOMAIN pending : pending[k].payload = payload
  PROVE  Target(payload) \in DOMAIN pending /\ pending[Target(payload)].payload = payload
<1> DEFINE bound == {k \in DOMAIN pending : pending[k].payload = payload}
<1>1. DOMAIN pending = 1..Len(pending) /\ Len(pending) \in Nat
  BY InvIs
<1>2. PICK k \in bound : \A j \in bound : k =< j
  <2>1. bound \in SUBSET (0..Len(pending)) /\ bound # {}
    BY <1>1
  <2> HIDE DEF bound
  <2> QED BY <1>1, <2>1, LeastUpTo
<1>3. \A j \in 1..(k - 1) : j \in DOMAIN pending /\ ~ (k =< j)
  BY <1>1
<1>4. \A j \in 1..(k - 1) : pending[j].payload # payload
  BY <1>2, <1>3
<1> QED BY <1>2, <1>4 DEF Target

(* Two pending entries have two temporary files.                              *)
LEMMA OwnFiles ==
  ASSUME ReceiveInv, NEW j \in DOMAIN pending, NEW k \in DOMAIN pending, j # k
  PROVE  /\ pending[j].entry # pending[k].entry
         /\ Temp(pending[j].entry) # Temp(pending[k].entry)
<1>1. /\ pending[j].entry # pending[k].entry
      /\ pending[j].entry \in DOMAIN entries /\ pending[k].entry \in DOMAIN entries
  BY InvIs DEF OpenEntry
<1> QED BY <1>1, InvIs DEF StoreOK

LEMMA DataFrameStep ==
  ASSUME ReceiveInv,
         NEW payload \in Payload, NEW total \in Size, NEW offset \in 0..Budget, NEW n \in 0..Budget,
         NEW last \in BOOLEAN, DataFrame(payload, total, offset, n, last)
  PROVE  ReceiveInv'
<1> DEFINE k == Target(payload)
           e == pending[k].entry
           bytes == Pieces(payload, offset, n)
<1>1. /\ FrameFits(pending[k], total, offset, n, last)
      /\ \/ /\ WriteOk(e, offset, bytes)
            /\ pending' = [pending EXCEPT ![k].written = offset + n,
                                          ![k].complete = IF last THEN "yes" ELSE "no"]
         \/ /\ WriteFails(e, offset, bytes)
            /\ UNCHANGED pending
         \/ /\ WriteOver(e, offset, bytes)
            /\ UNCHANGED pending
      /\ UNCHANGED seq
  BY DEF DataFrame
<1>2. k \in DOMAIN pending /\ pending[k].payload = payload
  BY TargetIs DEF DataFrame
<1> HIDE DEF k
<1>3. /\ StoreOK /\ pending \in Seq(Pending) /\ seq \in Nat
      /\ \A j \in DOMAIN pending : OpenEntry(pending[j])
      /\ offset \in Nat /\ n \in Nat
  BY InvIs
<1>4. OpenEntry(pending[k]) /\ pending[k] \in Pending
  BY <1>2, <1>3 DEF OpenEntry
<1>5. CASE /\ WriteOk(e, offset, bytes)
           /\ pending' = [pending EXCEPT ![k].written = offset + n,
                                         ![k].complete = IF last THEN "yes" ELSE "no"]
  <2>1. /\ temps' = [temps EXCEPT ![Temp(e)] = @ \o bytes]
        /\ entries' = [entries EXCEPT ![e].hashed = @ \o bytes]
        /\ nextHandle' = nextHandle
    BY <1>5 DEF WriteOk
  <2>2. entries[e].hashed \o bytes = Pieces(payload, 0, offset + n)
    <3>1. entries[e].hashed = Pieces(payload, 0, offset) /\ offset = pending[k].written
      BY <1>1, <1>2, <1>4 DEF OpenEntry, FrameFits
    <3>2. Pieces(payload, 0, offset) \o Pieces(payload, offset, n) = Pieces(payload, 0, offset + n)
      BY <1>3, PiecesAre
    <3> QED BY <3>1, <3>2
  <2>3. e \in DOMAIN entries /\ entries[e] \in Record
    BY <1>3, <1>4, RecordsAre DEF OpenEntry
  <2>4. Pieces(payload, 0, offset + n) \in Seq(Payload \X Nat)
    <3>1. offset + n \in Nat /\ 0 \in Nat
      BY <1>3
    <3>2. \A m \in Nat : Pieces(payload, 0, m) \in Seq(Payload \X Nat)
      BY PiecesAre
    <3> QED BY <3>1, <3>2
  <2> DEFINE written == [entries[e] EXCEPT !.hashed = Pieces(payload, 0, offset + n)]
  <2>5. entries' = [entries EXCEPT ![e] = written]
    BY <2>1, <2>2
  <2>6. /\ written \in Record /\ written.temp = entries[e].temp /\ written.state = entries[e].state
        /\ written.hashed = Pieces(payload, 0, offset + n)
    BY <2>3, <2>4 DEF Record
  <2> HIDE DEF written
  <2>7. /\ entries' \in Seq(Record) /\ DOMAIN entries' = DOMAIN entries
        /\ \A f \in DOMAIN entries : entries'[f] = IF f = e THEN written ELSE entries[f]
    BY <1>3, <2>3, <2>5, <2>6 DEF StoreOK
  <2>8. StoreOK'
    <3>1. \A f \in DOMAIN entries : entries'[f].temp = entries[f].temp
      BY <2>6, <2>7
    <3>2. \A f \in DOMAIN entries' : entries'[f].temp[1] < nextHandle'
      BY <1>3, <2>1, <2>7, <3>1 DEF StoreOK, Temp
    <3>3. \A f, g \in DOMAIN entries' : f # g => entries'[f].temp[1] # entries'[g].temp[1]
      BY <1>3, <2>7, <3>1 DEF StoreOK, Temp
    <3>4. nextHandle' \in Nat
      BY <1>3, <2>1 DEF StoreOK
    <3> QED BY <2>7, <3>2, <3>3, <3>4 DEF StoreOK, Temp
  <2> DEFINE advanced == [pending[k] EXCEPT !.written = offset + n,
                                            !.complete = IF last THEN "yes" ELSE "no"]
  <2>9. pending' = [pending EXCEPT ![k] = advanced]
    BY <1>5
  <2>10. /\ advanced \in Pending /\ advanced.entry = e /\ advanced.payload = payload
         /\ advanced.written = offset + n /\ advanced.size = pending[k].size
         /\ advanced.complete = "yes" => last
    <3>1. offset + n \in Nat /\ (IF last THEN "yes" ELSE "no") \in {"yes", "no"}
      BY <1>3
    <3>2. advanced.complete = IF last THEN "yes" ELSE "no"
      BY <1>4 DEF Pending
    <3>3. advanced \in Pending
      BY <1>4, <3>1 DEF Pending
    <3>4. /\ advanced.entry = e /\ advanced.payload = payload
          /\ advanced.written = offset + n /\ advanced.size = pending[k].size
      BY <1>2, <1>4 DEF Pending
    <3> QED BY <3>2, <3>3, <3>4
  <2> HIDE DEF advanced
  <2>11. /\ pending' \in Seq(Pending) /\ DOMAIN pending' = DOMAIN pending
         /\ \A j \in DOMAIN pending : pending'[j] = IF j = k THEN advanced ELSE pending[j]
    BY <1>2, <1>3, <2>9, <2>10
  <2>12. \A j \in DOMAIN pending' : pending'[j].entry = pending[j].entry
    BY <2>10, <2>11
  <2>13. /\ DOMAIN temps' = DOMAIN temps
         /\ \A t \in DOMAIN temps : temps'[t] = IF t = Temp(e) THEN temps[t] \o bytes ELSE temps[t]
    BY <2>1
  <2>16. entries[e].state = "open" /\ Temp(e) \in DOMAIN temps
         /\ temps[Temp(e)] \in Seq({payload} \X Nat)
    BY <1>2, <1>4, <1>5 DEF OpenEntry, OwnTemp, WriteOk, CanWrite
  <2>17. temps'[Temp(e)] \in Seq({payload} \X Nat)
    <3> DEFINE S == {payload} \X Nat
    <3>1. bytes \in Seq(S)
      BY <1>3, PiecesAre
    <3>2. temps[Temp(e)] \in Seq(S) /\ temps'[Temp(e)] = temps[Temp(e)] \o bytes
      BY <2>13, <2>16
    <3> HIDE DEF bytes, S, e
    <3> QED BY <3>1, <3>2 DEF S
  <2>14. \A j \in DOMAIN pending' : OpenEntry(pending[j])'
    <3> TAKE j \in DOMAIN pending'
    <3>1. CASE j = k
      <4>1. advanced.complete = "yes" => advanced.written = advanced.size
        BY <1>1, <2>10 DEF FrameFits
      <4>2. OwnTemp(pending[j])'
        <5>1. /\ pending'[j].entry = e /\ pending'[j].payload = payload
              /\ entries'[e].state = "open" /\ entries'[e].temp = Temp(e)
          BY <1>2, <2>3, <2>6, <2>7, <2>10, <2>11, <2>16, <3>1 DEF Temp
        <5>2. Temp(e) \in DOMAIN temps'
          BY <2>13, <2>16
        <5> HIDE DEF e
        <5> QED BY <2>17, <5>1, <5>2 DEF OwnTemp, Temp
      <4>3. /\ pending'[j] = advanced /\ entries'[e].hashed = Pieces(payload, 0, offset + n)
            /\ e \in DOMAIN entries'
        BY <1>2, <2>3, <2>6, <2>7, <2>11, <3>1
      <4> HIDE DEF e
      <4> QED BY <2>10, <4>1, <4>2, <4>3 DEF OpenEntry
    <3>2. CASE j # k
      <4>1. OpenEntry(pending[j]) /\ pending'[j] = pending[j] /\ pending[j].entry # e
        BY <1>2, <1>3, <2>11, <3>2, OwnFiles
      <4>2. entries'[pending[j].entry] = entries[pending[j].entry]
        BY <2>7, <4>1 DEF OpenEntry
      <4>3. Temp(pending[j].entry) # Temp(e)
        BY <1>2, <2>11, <3>2, OwnFiles
      <4>4. OwnTemp(pending[j])'
        BY <2>13, <4>1, <4>2, <4>3 DEF OpenEntry, OwnTemp, Temp
      <4> QED BY <2>7, <4>1, <4>2, <4>4 DEF OpenEntry
    <3> QED BY <3>1, <3>2
  <2>15. \A i, j \in DOMAIN pending' : i # j => pending'[i].entry # pending'[j].entry
    BY <2>11, <2>12, OwnFiles
  <2> QED BY <1>1, <1>3, <2>8, <2>11, <2>14, <2>15, InvIsPrimed
<1>6. CASE WriteFails(e, offset, bytes) /\ UNCHANGED pending
  <2>1. entries' = entries /\ nextHandle' = nextHandle /\ pending' = pending /\ seq' = seq
    BY <1>1, <1>6 DEF WriteFails, store
  <2>2. PICK m \in 0..Len(bytes) : temps' = [temps EXCEPT ![Temp(e)] = @ \o SubSeq(bytes, 1, m)]
    BY <1>6 DEF WriteFails
  <2>3. StoreOK'
    BY <1>3, <2>1 DEF StoreOK, Temp
  <2>5. /\ DOMAIN temps' = DOMAIN temps
        /\ \A t \in DOMAIN temps :
             temps'[t] = IF t = Temp(e) THEN temps[t] \o SubSeq(bytes, 1, m) ELSE temps[t]
    BY <2>2
  <2>6. entries[e].state = "open" /\ Temp(e) \in DOMAIN temps
        /\ temps[Temp(e)] \in Seq({payload} \X Nat)
    BY <1>2, <1>4, <1>6 DEF OpenEntry, OwnTemp, WriteFails, CanWrite
  <2>7. temps'[Temp(e)] \in Seq({payload} \X Nat)
    <3>1. bytes \in Seq({payload} \X Nat)
      BY <1>3, PiecesAre
    <3> DEFINE S == {payload} \X Nat
    <3>2. temps[Temp(e)] \in Seq(S) /\ temps'[Temp(e)] = temps[Temp(e)] \o SubSeq(bytes, 1, m)
      BY <2>5, <2>6
    <3> HIDE DEF bytes, S, e
    <3>3. bytes \in Seq(S)
      BY <3>1 DEF S
    <3>4. SubSeq(bytes, 1, m) \in Seq(S)
      BY <3>3
    <3> QED BY <3>2, <3>4 DEF S
  <2>4. \A j \in DOMAIN pending' : OpenEntry(pending[j])'
    <3> TAKE j \in DOMAIN pending'
    <3>1. OpenEntry(pending[j]) /\ pending'[j] = pending[j] /\ j \in DOMAIN pending
      BY <1>3, <2>1
    <3>2. OwnTemp(pending[j])'
      <4>1. CASE j = k
        BY <1>2, <2>1, <2>5, <2>6, <2>7, <3>1, <4>1 DEF OpenEntry, OwnTemp, Temp
      <4>2. CASE j # k
        <5>1. Temp(pending[j].entry) # Temp(e)
          BY <1>2, <3>1, <4>2, OwnFiles
        <5> QED BY <2>1, <2>5, <3>1, <5>1 DEF OpenEntry, OwnTemp, Temp
      <4> QED BY <4>1, <4>2
    <3> QED BY <2>1, <3>1, <3>2 DEF OpenEntry
  <2> QED BY <1>3, <2>1, <2>3, <2>4, OwnFiles, InvIsPrimed
<1>7. CASE WriteOver(e, offset, bytes) /\ UNCHANGED pending
  <2>1. /\ entries' = [f \in DOMAIN entries |->
                         IF f \in {e} THEN [entries[f] EXCEPT !.state = "terminated"] ELSE entries[f]]
        /\ temps' = Without(temps, {Temp(f) : f \in {e}})
        /\ nextHandle' = nextHandle /\ pending' = pending /\ seq' = seq
    BY <1>1, <1>7 DEF WriteOver, AbortAll
  <2>2. e \in DOMAIN entries /\ entries[e] \in Record
    BY <1>3, <1>4, RecordsAre DEF OpenEntry
  <2> DEFINE ended == [entries[e] EXCEPT !.state = "terminated"]
  <2>3. ended \in Record /\ ended.temp = entries[e].temp /\ ended.state = "terminated"
        /\ ended.hashed = entries[e].hashed /\ ended.limit = entries[e].limit
    BY <2>2 DEF Record
  <2>4. entries' = [entries EXCEPT ![e] = ended]
    BY <2>1
  <2> HIDE DEF ended
  <2>5. /\ entries' \in Seq(Record) /\ DOMAIN entries' = DOMAIN entries
        /\ \A f \in DOMAIN entries : entries'[f] = IF f = e THEN ended ELSE entries[f]
    BY <1>3, <2>2, <2>3, <2>4 DEF StoreOK
  <2>6. StoreOK'
    <3>1. \A f \in DOMAIN entries : entries'[f].temp = entries[f].temp
      BY <2>3, <2>5
    <3> QED BY <1>3, <2>1, <2>5, <3>1 DEF StoreOK, Temp
  <2>7. /\ DOMAIN temps' = DOMAIN temps \ {Temp(e)}
        /\ \A t \in DOMAIN temps' : temps'[t] = temps[t]
    BY <2>1 DEF Without, Restrict
  <2>8. pending[k].complete # "yes" /\ entries[e].limit < pending[k].size
    <3>1. Len(bytes) = n
      BY <1>3, PiecesAre
    <3>2. Len(entries[e].hashed) = pending[k].written
      <4>1. /\ pending[k].payload \in Payload /\ pending[k].written \in Nat
            /\ entries[e].hashed = Pieces(pending[k].payload, 0, pending[k].written)
        BY <1>4 DEF OpenEntry, Pending
      <4>2. \A w \in Nat : Len(Pieces(pending[k].payload, 0, w)) = w
        BY <4>1, PiecesAre
      <4> QED BY <4>1, <4>2
    <3>3. /\ Written(e) + n > entries[e].limit /\ offset = Written(e)
          /\ offset + n =< pending[k].size /\ pending[k].complete = "no"
      BY <1>1, <1>7, <3>1 DEF WriteOver, FrameFits
    <3>4. pending[k].size \in Nat /\ entries[e].limit \in Nat
      <4>1. Size \subseteq Nat
        BY ReceiveAssumption
      <4>2. pending[k].size \in Size
        BY <1>4 DEF Pending
      <4>3. entries[e].limit \in Nat
        BY <2>2 DEF Record
      <4> QED BY <4>1, <4>2, <4>3
    <3>5. offset \in Nat /\ n \in Nat
      BY <1>3
    <3>6. entries[e].limit < pending[k].size
      <4> HIDE DEF e
      <4> QED BY <3>3, <3>4, <3>5
    <3> QED BY <3>3, <3>6
  <2>9. \A j \in DOMAIN pending' : OpenEntry(pending[j])'
    <3> TAKE j \in DOMAIN pending'
    <3>1. OpenEntry(pending[j]) /\ pending'[j] = pending[j] /\ j \in DOMAIN pending
      BY <1>3, <2>1
    <3>2. CASE j = k
      BY <2>1, <2>2, <2>3, <2>5, <2>8, <3>1, <3>2 DEF OpenEntry, OwnTemp
    <3>3. CASE j # k
      <4>1. Temp(pending[j].entry) # Temp(e) /\ pending[j].entry # e
        BY <1>2, <3>1, <3>3, OwnFiles
      <4>2. entries'[pending[j].entry] = entries[pending[j].entry]
        BY <2>5, <3>1, <4>1 DEF OpenEntry
      <4> QED BY <2>1, <2>5, <2>7, <3>1, <4>1, <4>2 DEF OpenEntry, OwnTemp, Temp
    <3> QED BY <3>2, <3>3
  <2> QED BY <1>3, <2>1, <2>6, <2>9, OwnFiles, InvIsPrimed
<1> QED BY <1>1, <1>5, <1>6, <1>7

LEMMA RemoveAtIs ==
  ASSUME NEW S, NEW s \in Seq(S), NEW i \in DOMAIN s
  PROVE  /\ RemoveAt(s, i) \in Seq(S)
         /\ DOMAIN RemoveAt(s, i) = 1..(Len(s) - 1)
         /\ \A j \in 1..(Len(s) - 1) : RemoveAt(s, i)[j] = IF j < i THEN s[j] ELSE s[j + 1]
<1> DEFINE a == SubSeq(s, 1, i - 1)
           b == SubSeq(s, i + 1, Len(s))
<1>1. i \in Nat /\ i >= 1 /\ i =< Len(s) /\ Len(s) \in Nat
  OBVIOUS
<1>2. \A j \in 1..Len(s) : s[j] \in S
  OBVIOUS
<1>3. a \in Seq(S) /\ Len(a) = i - 1 /\ \A j \in 1..(i - 1) : a[j] = s[j]
  BY <1>1, <1>2
<1>4. b \in Seq(S) /\ Len(b) = Len(s) - i /\ \A j \in 1..(Len(s) - i) : b[j] = s[i + j]
  BY <1>1, <1>2
<1> HIDE DEF a, b
<1>5. /\ a \o b \in Seq(S) /\ Len(a \o b) = Len(s) - 1
      /\ \A j \in 1..(Len(s) - 1) : (a \o b)[j] = IF j =< i - 1 THEN a[j] ELSE b[j - (i - 1)]
  <2>1. Len(a) + Len(b) = Len(s) - 1
    BY <1>1, <1>3, <1>4
  <2>2. /\ a \o b \in Seq(S)
        /\ Len(a \o b) = Len(a) + Len(b)
        /\ \A j \in 1..(Len(a) + Len(b)) : (a \o b)[j] = IF j =< Len(a) THEN a[j] ELSE b[j - Len(a)]
    BY <1>3, <1>4, ConcatProperties
  <2> QED BY <1>3, <2>1, <2>2
<1>6. \A j \in 1..(Len(s) - 1) : j < i => j =< i - 1 /\ j \in 1..(i - 1)
  BY <1>1
<1>7. \A j \in 1..(Len(s) - 1) : ~ (j < i) =>
        ~ (j =< i - 1) /\ j - (i - 1) \in 1..(Len(s) - i) /\ i + (j - (i - 1)) = j + 1
  BY <1>1
<1>8. \A j \in 1..(Len(s) - 1) : j < i => (a \o b)[j] = s[j]
  BY <1>3, <1>5, <1>6
<1>9. \A j \in 1..(Len(s) - 1) : ~ (j < i) => (a \o b)[j] = s[j + 1]
  BY <1>4, <1>5, <1>7
<1>10. RemoveAt(s, i) = a \o b
  BY DEF RemoveAt, a, b
<1>11. DOMAIN (a \o b) = 1..(Len(s) - 1)
  BY <1>5
<1> QED BY <1>5, <1>8, <1>9, <1>10, <1>11

LEMMA FinishEntryStep ==
  ASSUME ReceiveInv, NEW k \in DOMAIN pending, FinishEntry(k)
  PROVE  ReceiveInv'
<1> DEFINE e == pending[k].entry
           path == pending[k].path
<1>1. /\ pending' = RemoveAt(pending, k)
      /\ CommitOk(e, path) \/ CommitRefused(e, path)
      /\ UNCHANGED seq
  BY DEF FinishEntry
<1>2. /\ StoreOK /\ pending \in Seq(Pending) /\ seq \in Nat
      /\ \A j \in DOMAIN pending : OpenEntry(pending[j])
  BY InvIs
<1>3. DOMAIN pending = 1..Len(pending) /\ Len(pending) \in Nat
  BY <1>2
<1>4. /\ pending' \in Seq(Pending) /\ DOMAIN pending' = 1..(Len(pending) - 1)
      /\ \A j \in 1..(Len(pending) - 1) :
           pending'[j] = IF j < k THEN pending[j] ELSE pending[j + 1]
  BY <1>1, <1>2, RemoveAtIs
<1> DEFINE before(j) == IF j < k THEN j ELSE j + 1
<1>5. \A j \in DOMAIN pending' :
        pending'[j] = pending[before(j)] /\ before(j) \in DOMAIN pending /\ before(j) # k
  BY <1>3, <1>4
<1>6. \A i, j \in DOMAIN pending' : i # j => before(i) # before(j)
  BY <1>3, <1>4
<1> HIDE DEF before
<1>7. \A i, j \in DOMAIN pending' : i # j => pending'[i].entry # pending'[j].entry
  BY <1>5, <1>6, OwnFiles
<1>8. e \in DOMAIN entries /\ entries[e] \in Record
  BY <1>2, RecordsAre DEF OpenEntry
<1>9. CASE CommitOk(e, path)
  <2>1. /\ entries' = [entries EXCEPT ![e].state = "terminated"]
        /\ temps' = Without(temps, {Temp(e)})
        /\ nextHandle' = nextHandle
    BY <1>9 DEF CommitOk, Publish
  <2> DEFINE done == [entries[e] EXCEPT !.state = "terminated"]
  <2>2. entries' = [entries EXCEPT ![e] = done]
    BY <2>1
  <2>3. done \in Record /\ done.temp = entries[e].temp
    BY <1>8 DEF Record
  <2> HIDE DEF done
  <2>4. /\ entries' \in Seq(Record) /\ DOMAIN entries' = DOMAIN entries
        /\ \A f \in DOMAIN entries : entries'[f] = IF f = e THEN done ELSE entries[f]
    BY <1>2, <1>8, <2>2, <2>3 DEF StoreOK
  <2>5. StoreOK'
    <3>1. \A f \in DOMAIN entries : entries'[f].temp = entries[f].temp
      BY <2>3, <2>4
    <3> QED BY <1>2, <2>1, <2>4, <3>1 DEF StoreOK, Temp
  <2>6. /\ DOMAIN temps' = DOMAIN temps \ {Temp(e)}
        /\ \A t \in DOMAIN temps' : temps'[t] = temps[t]
    BY <2>1 DEF Without, Restrict
  <2>7. \A j \in DOMAIN pending' : OpenEntry(pending[j])'
    <3> TAKE j \in DOMAIN pending'
    <3>1. /\ OpenEntry(pending'[j]) /\ pending'[j].entry # e
          /\ Temp(pending'[j].entry) # Temp(e)
      BY <1>2, <1>5, OwnFiles
    <3>2. entries'[pending'[j].entry] = entries[pending'[j].entry]
      BY <2>4, <3>1 DEF OpenEntry
    <3> QED BY <2>4, <2>6, <3>1, <3>2 DEF OpenEntry, OwnTemp, Temp
  <2> QED BY <1>1, <1>2, <1>4, <1>7, <2>5, <2>7, InvIsPrimed
<1>10. CASE CommitRefused(e, path)
  <2>1. entries' = entries /\ nextHandle' = nextHandle /\ temps' = temps
    BY <1>10 DEF CommitRefused, store
  <2>2. StoreOK'
    BY <1>2, <2>1 DEF StoreOK, Temp
  <2>3. \A j \in DOMAIN pending' : OpenEntry(pending'[j])
    BY <1>2, <1>5
  <2>4. \A j \in DOMAIN pending' : OpenEntry(pending[j])'
    BY <2>1, <2>3 DEF OpenEntry, OwnTemp, Temp
  <2> QED BY <1>1, <1>2, <1>4, <1>7, <2>2, <2>4, InvIsPrimed
<1> QED BY <1>1, <1>9, <1>10

LEMMA CancelStep ==
  ASSUME ReceiveInv, CancelAll
  PROVE  ReceiveInv'
<1>1. /\ entries' = [e \in DOMAIN entries |->
                       IF e \in Incomplete THEN [entries[e] EXCEPT !.state = "terminated"]
                                           ELSE entries[e]]
      /\ nextHandle' = nextHandle /\ pending' = <<>> /\ seq' = seq
  BY DEF CancelAll, AbortAll
<1>2. StoreOK /\ seq \in Nat
  BY InvIs
<1>3. \A e \in DOMAIN entries : entries[e] \in Record
  BY <1>2, RecordsAre
<1>4. \A e \in DOMAIN entries :
        entries'[e] \in Record /\ entries'[e].temp = entries[e].temp
  <2> TAKE e \in DOMAIN entries
  <2>1. CASE e \in Incomplete
    BY <1>1, <1>3, <2>1 DEF Record
  <2>2. CASE e \notin Incomplete
    BY <1>1, <1>3, <2>2
  <2> QED BY <2>1, <2>2
<1>5. entries' \in Seq(Record) /\ DOMAIN entries' = DOMAIN entries
  <2>1. DOMAIN entries = 1..Len(entries) /\ Len(entries) \in Nat
    BY <1>2 DEF StoreOK
  <2>2. DOMAIN entries' = DOMAIN entries /\ entries' = [e \in 1..Len(entries) |-> entries'[e]]
    BY <1>1, <2>1
  <2> QED BY <1>4, <2>1, <2>2
<1>6. StoreOK'
  BY <1>1, <1>2, <1>4, <1>5 DEF StoreOK, Temp
<1> QED BY <1>1, <1>2, <1>6, InvIsPrimed

-----------------------------------------------------------------------------
(* The session.                                                               *)

LEMMA OffersAre == \A offers \in SeqOf(Offer, MaxOffers) : offers \in Seq(Offer)
BY DEF SeqOf

(* Every step of the session keeps the invariant.                             *)
LEMMA StepInv == ReceiveInv /\ [ReceiveNext]_receiveVars => ReceiveInv'
<1> SUFFICES ASSUME ReceiveInv, [ReceiveNext]_receiveVars PROVE ReceiveInv'
  OBVIOUS
<1>0. StoreOK /\ pending \in Seq(Pending) /\ seq \in Nat /\ (\A k \in DOMAIN pending : OpenEntry(pending[k]))
  BY InvIs
<1>1. ASSUME NEW offers \in SeqOf(Offer, MaxOffers) \ {<<>>}, Introduction(offers)
      PROVE  ReceiveInv'
  BY <1>1, OffersAre, IntroductionStep
<1>2. ASSUME NEW payload \in Payload, NEW total \in Size, NEW offset \in 0..Budget,
             NEW n \in 0..Budget, NEW last \in BOOLEAN,
             DataFrame(payload, total, offset, n, last)
      PROVE  ReceiveInv'
  BY <1>2, DataFrameStep
<1>3. ASSUME NEW k \in DOMAIN pending, FinishEntry(k)
      PROVE  ReceiveInv'
  BY <1>3, FinishEntryStep
<1>4. CASE CancelAll
  BY <1>4, CancelStep
<1>5. CASE NextSession
  <2>1. entries' = <<>> /\ nextHandle' = 1 /\ pending' = <<>> /\ seq' = 1
    BY <1>5 DEF NextSession, Reopen
  <2>2. StoreOK'
    BY <2>1 DEF StoreOK
  <2> QED BY <2>1, <2>2, InvIsPrimed
<1>6. CASE /\ \/ \E f \in Folder : ReplaceFolder(f) /\ UNCHANGED <<pending, seq>>
              \/ UNCHANGED receiveVars
  <2>1. entries' = entries /\ nextHandle' = nextHandle /\ temps' = temps
        /\ pending' = pending /\ seq' = seq
    BY <1>6 DEF ReplaceFolder, receiveVars, spool, store, disk
  <2>2. StoreOK'
    BY <1>0, <2>1 DEF StoreOK, Temp
  <2>3. \A k \in DOMAIN pending' : OpenEntry(pending[k])'
    BY <1>0, <2>1 DEF OpenEntry, OwnTemp, Temp
  <2> QED BY <1>0, <2>1, <2>2, <2>3, OwnFiles, InvIsPrimed
<1> QED BY <1>1, <1>2, <1>3, <1>4, <1>5, <1>6 DEF ReceiveNext

(* For any payloads, sizes, budget and bounds, whatever fails and in whatever *)
(* order frames, decisions, commits and cancellations come (receive.rs).      *)
THEOREM ReceiveSafety == ReceiveSpec => []ReceiveInv
BY InitInv, StepInv, PTL DEF ReceiveSpec

(* receive.rs T21-01: the pieces of a payload land only in the entry bound to *)
(* it; every entry in transfer has a spool entry of its own, whose temporary  *)
(* file holds pieces of that payload alone while there is one (spool.rs).     *)
THEOREM BoundTheorem == ReceiveSpec => []BoundToItsPayload
<1>1. ReceiveInv => BoundToItsPayload
  BY InvImplies
<1> QED BY <1>1, ReceiveSafety, PTL

(* The counts of the assembler (payload.rs) and of the spool (spool.rs) stay  *)
(* in step through every failed write, and only an entry that was to be       *)
(* larger than its limit loses its file before the session is done with it.   *)
THEOREM CountsTheorem == ReceiveSpec => []CountsAgree
<1>1. ReceiveInv => CountsAgree
  BY InvImplies
<1> QED BY <1>1, ReceiveSafety, PTL

Receipt == [path : Path, content : Seq(Payload \X Nat)]
PublishedOK == published \in Seq(Receipt)

(* Receipts are issued by a commit alone.                                     *)
LEMMA OnlyCommitsPublish ==
  ASSUME ReceiveInv, [ReceiveNext]_receiveVars
  PROVE  \/ published' = published
         \/ published' = <<>>
         \/ \E k \in DOMAIN pending :
              /\ pending[k].complete = "yes"
              /\ published' = Append(published,
                   [path |-> pending[k].path, content |-> entries[pending[k].entry].hashed])
<1>1. ASSUME NEW offers, Introduction(offers)
      PROVE  published' = published
  BY <1>1 DEF Introduction, Begins
<1>2. ASSUME NEW payload, NEW total, NEW offset, NEW n, NEW last,
             DataFrame(payload, total, offset, n, last)
      PROVE  published' = published
  BY <1>2 DEF DataFrame, WriteOk, WriteFails, WriteOver, AbortAll, store
<1>3. ASSUME NEW k \in DOMAIN pending, FinishEntry(k)
      PROVE  \/ published' = published
             \/ /\ pending[k].complete = "yes"
                /\ published' = Append(published,
                     [path |-> pending[k].path, content |-> entries[pending[k].entry].hashed])
  BY <1>3 DEF FinishEntry, CommitOk, CommitRefused, Publish, store
<1>4. CASE CancelAll
  BY <1>4 DEF CancelAll, AbortAll
<1>5. CASE NextSession
  BY <1>5 DEF NextSession, Reopen
<1>6. ASSUME NEW f, ReplaceFolder(f)
      PROVE  published' = published
  BY <1>6 DEF ReplaceFolder, store
<1>7. CASE UNCHANGED receiveVars
  BY <1>7 DEF receiveVars, spool, store
<1> QED BY <1>1, <1>2, <1>3, <1>4, <1>5, <1>6, <1>7 DEF ReceiveNext

WholeReceipt ==
  Len(published') > Len(published) =>
    \E k \in DOMAIN pending :
      Last(published') = [path |-> pending[k].path,
        content |-> Pieces(pending[k].payload, 0, pending[k].size)]

LEMMA PublishedStep ==
  ASSUME ReceiveInv, PublishedOK, [ReceiveNext]_receiveVars
  PROVE  PublishedOK' /\ WholeReceipt
<1>1. CASE published' = published
  BY <1>1 DEF WholeReceipt, PublishedOK
<1>2. CASE published' = <<>>
  BY <1>2 DEF WholeReceipt, PublishedOK
<1>3. ASSUME NEW k \in DOMAIN pending, pending[k].complete = "yes",
             published' = Append(published,
               [path |-> pending[k].path, content |-> entries[pending[k].entry].hashed])
      PROVE  PublishedOK' /\ WholeReceipt
  <2>1. OpenEntry(pending[k])
    BY InvIs
  <2>2. entries[pending[k].entry].hashed = Pieces(pending[k].payload, 0, pending[k].size)
    BY <1>3, <2>1 DEF OpenEntry
  <2>3. /\ pending[k].path \in Path
        /\ entries[pending[k].entry].hashed \in Seq(Payload \X Nat)
    BY <2>1, InvIs, RecordsAre DEF OpenEntry, Pending, Record
  <2> DEFINE receipt == [path |-> pending[k].path, content |-> entries[pending[k].entry].hashed]
  <2>4. receipt \in Receipt
    BY <2>3 DEF Receipt
  <2>5. receipt = [path |-> pending[k].path,
                   content |-> Pieces(pending[k].payload, 0, pending[k].size)]
    BY <2>2
  <2>6. published' = Append(published, receipt)
    BY <1>3
  <2> HIDE DEF receipt
  <2>7. published' \in Seq(Receipt) /\ Last(published') = receipt
    BY <2>4, <2>6 DEF Last, PublishedOK
  <2> QED BY <2>5, <2>7 DEF WholeReceipt, PublishedOK
<1> QED BY <1>1, <1>2, <1>3, OnlyCommitsPublish

(* spool.rs and receive.rs: whatever failed and was tried again on the way, a *)
(* receipt is issued only for a whole payload of its declared size, each      *)
(* piece once and in order, under the path approved for it.                   *)
THEOREM ReceiptsTheorem == ReceiveSpec => ReceiptsAreWhole
<1>1. ReceiveInit => PublishedOK
  BY DEF ReceiveInit, InitSpool, PublishedOK
<1>2. ReceiveInv /\ PublishedOK /\ [ReceiveNext]_receiveVars => PublishedOK' /\ WholeReceipt
  BY PublishedStep
<1>3. WholeReceipt => [Len(published') > Len(published) =>
         \E k \in DOMAIN pending :
           Last(published') = [path |-> pending[k].path,
             content |-> Pieces(pending[k].payload, 0, pending[k].size)]]_receiveVars
  BY DEF WholeReceipt
<1> QED BY <1>1, <1>2, <1>3, ReceiveSafety, PTL DEF ReceiveSpec, ReceiptsAreWhole

(* spool.rs: a final file appears in no folder that is a link at the time.    *)
THEOREM LinksTheorem == ReceiveSpec => NothingThroughLinks
<1> DEFINE Safe == \A p \in DOMAIN files' \ DOMAIN files :
                     p.folder # NoFolder => folders[p.folder] # "symlink"
<1>1. [ReceiveNext]_receiveVars => Safe
  <2> SUFFICES ASSUME [ReceiveNext]_receiveVars PROVE Safe
    OBVIOUS
  <2>1. ASSUME NEW offers, Introduction(offers)
        PROVE  files' = files
    BY <2>1 DEF Introduction, Begins
  <2>2. ASSUME NEW payload, NEW total, NEW offset, NEW n, NEW last,
               DataFrame(payload, total, offset, n, last)
        PROVE  files' = files
    BY <2>2 DEF DataFrame, WriteOk, WriteFails, WriteOver, AbortAll
  <2>3. ASSUME NEW k \in DOMAIN pending, FinishEntry(k)
        PROVE  Safe
    <3>1. CASE CommitOk(pending[k].entry, pending[k].path)
      <4>1. FolderReady(pending[k].path)
            /\ DOMAIN files' = DOMAIN files \cup {pending[k].path}
        BY <3>1 DEF CommitOk, Publish
      <4> QED BY <4>1 DEF FolderReady
    <3>2. CASE CommitRefused(pending[k].entry, pending[k].path)
      BY <3>2 DEF CommitRefused
    <3> QED BY <2>3, <3>1, <3>2 DEF FinishEntry
  <2>4. CASE CancelAll
    BY <2>4 DEF CancelAll, AbortAll
  <2>5. CASE NextSession
    BY <2>5 DEF NextSession, Reopen, disk
  <2>6. ASSUME NEW f, ReplaceFolder(f)
        PROVE  DOMAIN files' \subseteq DOMAIN files
    BY <2>6 DEF ReplaceFolder, Without, Restrict
  <2>7. CASE UNCHANGED receiveVars
    BY <2>7 DEF receiveVars, spool, disk
  <2> QED BY <2>1, <2>2, <2>3, <2>4, <2>5, <2>6, <2>7 DEF ReceiveNext
<1>2. Safe => [Safe]_receiveVars
  OBVIOUS
<1> QED BY <1>1, <1>2, PTL DEF ReceiveSpec, NothingThroughLinks

-----------------------------------------------------------------------------
(* The link.                                                                  *)
HIDE ReceiveAssumption

(* What the state of a session says of its messages and keys.                 *)
Bound(s) ==
  /\ s.m1 = None => s.state = "Start" /\ s.m2 = None
  /\ s.keys = None <=> s.state # "Established"
  /\ s.keys # None => s.m1 # None /\ s.m2 # None /\ s.keys.m1 = s.m1 /\ s.keys.m2 = s.m2

(* An end with confirmed keys shares them with the other.                     *)
Agreed(r) ==
  session[r].confirmed \/ session[r].payloads > 0 =>
    session[r].keys # None /\ session[Peer(r)].keys = session[r].keys

Sessions ==
  /\ session \in [Role -> Session]
  /\ \A r \in Role : Bound(session[r])
  /\ session["client"].state = "Waiting" => session["client"].m2 = None
  /\ session["server"].state = "Start" => session["server"].m1 = None
  /\ session["server"].state = "Waiting" => session["server"].m2 # None
  /\ session["client"].state = "Start" => session["client"].m1 = None
  /\ \A r \in Role : Agreed(r)

SessionInv == TypeOK /\ Sessions

(* The messages on the wire are those that were sealed, and an end has opened *)
(* the first ones the other sealed.                                           *)
ChannelInv ==
  /\ \A r \in Role :
       /\ Len(sealed[r]) = channel[r].send_sequence - 1
       /\ Len(opened[r]) = channel[r].expected_sequence - 1
       /\ Len(opened[r]) =< Len(sealed[Peer(r)])
       /\ \A i \in 1..Len(opened[r]) : opened[r][i] = sealed[Peer(r)][i]
  /\ \A message \in wire :
       /\ message.sequence =< Len(sealed[message.by])
       /\ sealed[message.by][message.sequence] = message.body

LinkInv == SessionInv /\ ChannelInv

USE LinkAssumption, NoneAssumption

LEMMA KeysOfFrames ==
  ASSUME NEW finish \in Frame, NEW m1 \in Frame, NEW m2 \in Frame
  PROVE  /\ SessionKeys(finish, m1, m2) \in Keys
         /\ SessionKeys(finish, m1, m2) # None
         /\ SessionKeys(finish, m1, m2).m1 = m1
         /\ SessionKeys(finish, m1, m2).m2 = m2
<1> DEFINE keys == SessionKeys(finish, m1, m2)
<1>1. keys = [shared |-> <<finish.altered \cap {"key"}, m2.altered \cap {"key"}>>,
              m1 |-> m1, m2 |-> m2]
  BY DEF SessionKeys
<1>2. <<finish.altered \cap {"key"}, m2.altered \cap {"key"}>> \in (SUBSET {"key"}) \X (SUBSET {"key"})
  OBVIOUS
<1>3. keys \in Keys
  BY <1>1, <1>2 DEF Keys
<1> QED
  BY <1>1, <1>3

LEMMA SentFrames ==
  \A type \in Ukey2MessageType : AsSent(type) \in Frame
  BY DEF AsSent, Frame

LEMMA Roles ==
  /\ Role = {"client", "server"}
  /\ \A r \in Role : Peer(r) \in Role /\ Peer(r) # r /\ Peer(Peer(r)) = r
  BY DEF Role, Peer

(* A step changes the session of one end at most.                             *)
Moves(r, s) == session' = [session EXCEPT ![r] = s]

(* The invariant needs a look at the changed session only, when its keys stay *)
(* or are its first and the other end is not bound to them.                   *)
LEMMA SessionStep ==
  ASSUME Sessions, NEW r \in Role, NEW s \in Session, Moves(r, s),
         Bound(s),
         r = "client" /\ s.state = "Waiting" => s.m2 = None,
         s.state = "Start" => s.m1 = None,
         r = "server" /\ s.state = "Waiting" => s.m2 # None,
         session[r].keys # None => s.keys = session[r].keys,
         s.confirmed \/ s.payloads > 0 =>
           s.keys # None /\ session[Peer(r)].keys = s.keys
  PROVE  Sessions'
<1>0. session \in [Role -> Session]
  BY DEF Sessions
<1>1. session' \in [Role -> Session] /\ session'[r] = s
  BY <1>0 DEF Moves
<1>2. \A q \in Role : q # r => session'[q] = session[q]
  BY <1>0 DEF Moves
<1>3. ASSUME NEW q \in Role PROVE Bound(session'[q])
  BY <1>1, <1>2 DEF Sessions
<1>4. ASSUME NEW q \in Role PROVE Agreed(q)'
  <2>1. CASE q = r
    <3>1. session'[Peer(q)] = session[Peer(q)]
      BY <1>2, <2>1, Roles
    <3> QED
      BY <1>1, <2>1, <3>1 DEF Agreed
  <2>2. CASE q # r
    <3>1. session'[q] = session[q] /\ Peer(q) = r
      BY <1>2, <2>2, Roles
    <3>2. Agreed(q)
      BY DEF Sessions
    <3> QED
      BY <1>1, <3>1, <3>2 DEF Agreed
  <2> QED
    BY <2>1, <2>2
<1> QED
  BY <1>1, <1>2, <1>3, <1>4, Roles DEF Sessions

(* Everything of the type invariant but the sessions.                         *)
RestTyped ==
  /\ now \in 0..MaxTime
  /\ net \in [Role -> Seq(Frame)]
  /\ chunk \in [Role -> Seq(Frame)]
  /\ jammed \in [Role -> BOOLEAN]
  /\ faults \in 0..MaxFaults
  /\ channel \in [Role -> [send_sequence : 1..(MaxSealed + 1),
                            expected_sequence : 1..(MaxSealed + 1)]]
  /\ wire \subseteq SecureMessage
  /\ sealed \in [Role -> Seq(Body)]
  /\ opened \in [Role -> Seq(Body)]

LEMMA Posted ==
  ASSUME net \in [Role -> Seq(Frame)], NEW r \in Role, NEW frame \in Frame
  PROVE  [net EXCEPT ![r] = Append(@, frame)] \in [Role -> Seq(Frame)]
  OBVIOUS

LEMMA OneMore ==
  ASSUME NEW max \in Nat, NEW n \in 0..max, n < max
  PROVE  n + 1 \in 0..max
  OBVIOUS

LEMMA SendsNext ==
  ASSUME channel \in [Role -> [send_sequence : 1..(MaxSealed + 1),
                               expected_sequence : 1..(MaxSealed + 1)]],
         NEW r \in Role, NEW n \in 1..(MaxSealed + 1)
  PROVE  [channel EXCEPT ![r].send_sequence = n]
           \in [Role -> [send_sequence : 1..(MaxSealed + 1),
                         expected_sequence : 1..(MaxSealed + 1)]]
<1> DEFINE S == 1..(MaxSealed + 1)
<1> HIDE DEF S
<1>1. channel \in [Role -> [send_sequence : S, expected_sequence : S]] /\ n \in S
  BY DEF S
<1>2. [channel EXCEPT ![r].send_sequence = n] \in [Role -> [send_sequence : S, expected_sequence : S]]
  BY <1>1
<1> QED
  BY <1>2 DEF S

LEMMA ExpectsNext ==
  ASSUME channel \in [Role -> [send_sequence : 1..(MaxSealed + 1),
                               expected_sequence : 1..(MaxSealed + 1)]],
         NEW r \in Role, NEW n \in 1..(MaxSealed + 1)
  PROVE  [channel EXCEPT ![r].expected_sequence = n]
           \in [Role -> [send_sequence : 1..(MaxSealed + 1),
                         expected_sequence : 1..(MaxSealed + 1)]]
<1> DEFINE S == 1..(MaxSealed + 1)
<1> HIDE DEF S
<1>1. channel \in [Role -> [send_sequence : S, expected_sequence : S]] /\ n \in S
  BY DEF S
<1>2. [channel EXCEPT ![r].expected_sequence = n] \in [Role -> [send_sequence : S, expected_sequence : S]]
  BY <1>1
<1> QED
  BY <1>2 DEF S

LEMMA Rest ==
  ASSUME SessionInv, Next
  PROVE  RestTyped'
<1>0. RestTyped
  BY DEF SessionInv, TypeOK, RestTyped
<1>1. CASE ClientInit
  <2>1. net' \in [Role -> Seq(Frame)]
    BY <1>0, <1>1, Posted, SentFrames, Roles DEF ClientInit, RestTyped, Ukey2MessageType
  <2> QED
    BY <1>0, <1>1, <2>1 DEF ClientInit, RestTyped, secure
<1>2. ASSUME NEW r \in Role, NEW n \in 0..Len(net[r]),
             FeedDead(r, n) \/ FeedLate(r, n) \/ FeedRefused(r, n) \/ Feed(r, n)
      PROVE  RestTyped'
  <2>1. net' \in [Role -> Seq(Frame)]
    <3>1. SubSeq(net[r], n + 1, Len(net[r])) \in Seq(Frame)
      BY <1>0 DEF RestTyped
    <3> QED
      BY <1>0, <1>2, <3>1 DEF RestTyped, FeedDead, FeedLate, FeedRefused, Feed, Taken
  <2>2. chunk' \in [Role -> Seq(Frame)]
    <3>1. SubSeq(net[r], 1, n) \in Seq(Frame)
      BY <1>0 DEF RestTyped
    <3> QED
      BY <1>0, <1>2, <3>1
      DEF RestTyped, FeedDead, FeedLate, FeedRefused, Feed, handshake
  <2>3. jammed' \in [Role -> BOOLEAN]
    BY <1>0, <1>2 DEF RestTyped, FeedDead, FeedLate, FeedRefused, Feed, handshake
  <2>4. now' = now /\ faults' = faults /\ UNCHANGED secure
    BY <1>2 DEF FeedDead, FeedLate, FeedRefused, Feed
  <2> QED
    BY <1>0, <2>1, <2>2, <2>3, <2>4 DEF RestTyped, secure
<1>3. ASSUME NEW r \in Role, FeedFrame(r) PROVE RestTyped'
  <2>1. chunk[r] # <<>> /\ chunk' = [chunk EXCEPT ![r] = Tail(@)]
    BY <1>3 DEF FeedFrame
  <2>2. chunk' \in [Role -> Seq(Frame)]
    <3>1. Tail(chunk[r]) \in Seq(Frame)
      BY <1>0, <2>1 DEF RestTyped
    <3> QED
      BY <1>0, <2>1, <3>1 DEF RestTyped
  <2> DEFINE frame == Head(chunk[r])
  <2>3. AsSent("ServerInit") \in Frame /\ AsSent("ClientFinish") \in Frame
    BY SentFrames DEF Ukey2MessageType
  <2>4. CASE OnClientInit(frame)
    <3>1. net' = [net EXCEPT !["client"] = Append(@, AsSent("ServerInit"))]
      BY <2>4 DEF OnClientInit
    <3>2. net' \in [Role -> Seq(Frame)]
      BY <1>0, <2>3, <3>1, Posted, Roles DEF RestTyped
    <3> QED
      BY <1>0, <1>3, <2>2, <3>2 DEF FeedFrame, RestTyped, secure
  <2>5. CASE OnServerInit(frame)
    <3>1. net' = [net EXCEPT !["server"] = Append(@, AsSent("ClientFinish"))]
      BY <2>5 DEF OnServerInit
    <3>2. net' \in [Role -> Seq(Frame)]
      BY <1>0, <2>3, <3>1, Posted, Roles DEF RestTyped
    <3> QED
      BY <1>0, <1>3, <2>2, <3>2 DEF FeedFrame, RestTyped, secure
  <2>6. CASE OnClientFinish(frame) \/ OnUnexpected(r, frame)
    BY <1>0, <1>3, <2>2, <2>6 DEF FeedFrame, RestTyped, secure, OnClientFinish, OnUnexpected
  <2> QED
    BY <1>3, <2>4, <2>5, <2>6 DEF FeedFrame
<1>4. ASSUME NEW r \in Role, ConfirmCode(r) \/ DeliverPayload(r) PROVE RestTyped'
  BY <1>0, <1>4 DEF ConfirmCode, DeliverPayload, RestTyped, secure
<1>5. ASSUME NEW r \in Role, NEW body \in Body, Seal(r, body) PROVE RestTyped'
  <2> DEFINE message == [keys |-> session[r].keys, by |-> r,
                         sequence |-> channel[r].send_sequence, body |-> body]
  <2>1. session[r].keys \in Keys
    BY <1>5 DEF Seal, SessionInv, TypeOK, Session
  <2>2. channel[r].send_sequence \in 1..MaxSealed
    <3>1. /\ channel[r].send_sequence \in 1..(MaxSealed + 1)
          /\ channel[Peer(r)].send_sequence \in 1..(MaxSealed + 1)
      BY <1>0, Roles DEF RestTyped
    <3>2. channel[r].send_sequence + channel[Peer(r)].send_sequence =< MaxSealed + 1
      BY <1>5 DEF Seal
    <3> QED
      BY <3>1, <3>2
  <2>3. message \in SecureMessage
    BY <2>1, <2>2 DEF SecureMessage
  <2>4. wire' \subseteq SecureMessage
    BY <1>0, <1>5, <2>3 DEF Seal, RestTyped
  <2>5. channel' \in [Role -> [send_sequence : 1..(MaxSealed + 1),
                               expected_sequence : 1..(MaxSealed + 1)]]
    <3>1. channel[r].send_sequence + 1 \in 1..(MaxSealed + 1)
      BY <2>2
    <3>2. channel' = [channel EXCEPT ![r].send_sequence = channel[r].send_sequence + 1]
      BY <1>5 DEF Seal
    <3> QED
      BY <1>0, <3>1, <3>2, SendsNext DEF RestTyped
  <2>6. sealed' \in [Role -> Seq(Body)]
    BY <1>0, <1>5 DEF Seal, RestTyped
  <2> QED
    BY <1>0, <1>5, <2>4, <2>5, <2>6 DEF Seal, RestTyped
<1>6. ASSUME NEW r \in Role, NEW message \in wire, Open(r, message) PROVE RestTyped'
  <2>1. message \in SecureMessage
    BY <1>0 DEF RestTyped
  <2>2. channel[r].expected_sequence \in 1..MaxSealed /\ message.body \in Body
    BY <1>6, <2>1 DEF Open, InSequence, SecureMessage
  <2>3. channel' \in [Role -> [send_sequence : 1..(MaxSealed + 1),
                               expected_sequence : 1..(MaxSealed + 1)]]
    <3>1. channel[r].expected_sequence + 1 \in 1..(MaxSealed + 1)
      BY <2>2
    <3>2. channel' = [channel EXCEPT ![r].expected_sequence = channel[r].expected_sequence + 1]
      BY <1>6 DEF Open
    <3> QED
      BY <1>0, <3>1, <3>2, ExpectsNext DEF RestTyped
  <2>4. opened' \in [Role -> Seq(Body)]
    BY <1>0, <1>6, <2>2 DEF Open, RestTyped
  <2> QED
    BY <1>0, <1>6, <2>3, <2>4 DEF Open, RestTyped
<1>7. ASSUME NEW r \in Role, Disturb(r) PROVE RestTyped'
  <2>1. PICK i \in DOMAIN net[r], frame \in Frame :
          \/ net' = [net EXCEPT ![r][i] = frame]
          \/ net' = [net EXCEPT ![r] = Append(@, frame)]
    BY <1>7 DEF Disturb
  <2>2. net \in [Role -> Seq(Frame)] /\ net[r] \in Seq(Frame)
    BY <1>0 DEF RestTyped
  <2>3. CASE net' = [net EXCEPT ![r][i] = frame]
    <3>1. [net[r] EXCEPT ![i] = frame] \in Seq(Frame)
      BY <2>2
    <3>2. net' = [net EXCEPT ![r] = [net[r] EXCEPT ![i] = frame]]
      BY <2>3
    <3> QED
      BY <1>0, <1>7, <2>2, <3>1, <3>2, OneMore DEF Disturb, RestTyped, handshake, secure
  <2>4. CASE net' = [net EXCEPT ![r] = Append(@, frame)]
    <3>1. net' \in [Role -> Seq(Frame)]
      BY <2>2, <2>4, Posted
    <3> QED
      BY <1>0, <1>7, <3>1, OneMore DEF Disturb, RestTyped, handshake, secure
  <2> QED
    BY <2>1, <2>3, <2>4
<1>8. CASE Tick
  BY <1>0, <1>8 DEF Tick, RestTyped, handshake, secure
<1> QED
  BY <1>1, <1>2, <1>3, <1>4, <1>5, <1>6, <1>7, <1>8 DEF Next

(* The same when the messages and the keys stay.                              *)
LEMMA SessionTouched ==
  ASSUME Sessions, NEW r \in Role, NEW s \in Session, Moves(r, s),
         s.state = session[r].state, s.m1 = session[r].m1, s.m2 = session[r].m2,
         s.keys = session[r].keys,
         s.confirmed \/ s.payloads > 0 =>
           \/ session[r].confirmed \/ session[r].payloads > 0
           \/ s.keys # None /\ session[Peer(r)].keys = s.keys
  PROVE  Sessions'
<1>1. Bound(s)
  BY DEF Sessions, Bound
<1>2. /\ r = "client" /\ s.state = "Waiting" => s.m2 = None
      /\ s.state = "Start" => s.m1 = None
      /\ r = "server" /\ s.state = "Waiting" => s.m2 # None
  BY Roles DEF Sessions
<1>3. s.confirmed \/ s.payloads > 0 => s.keys # None /\ session[Peer(r)].keys = s.keys
  BY DEF Sessions, Agreed
<1> QED
  BY <1>1, <1>2, <1>3, SessionStep

LEMMA SessionKept ==
  ASSUME Sessions, UNCHANGED session
  PROVE  Sessions'
  BY DEF Sessions, Agreed

LEMMA InitAnswered ==
  ASSUME Sessions, NEW frame \in Frame, OnClientInit(frame)
  PROVE  Sessions'
<1> DEFINE old == session["server"]
           s == [old EXCEPT !.state = "Waiting", !.m1 = frame, !.m2 = AsSent("ServerInit")]
<1>1. old \in Session /\ "server" \in Role /\ AsSent("ServerInit") \in Frame
  BY Roles, SentFrames DEF Sessions, Ukey2MessageType
<1>2. Moves("server", s)
  BY DEF OnClientInit, Moves, Sessions
<1>3. old.keys = None
  BY <1>1 DEF OnClientInit, AcceptsClientInit, Sessions, Bound
<1>4. ~old.confirmed /\ ~(old.payloads > 0)
  BY <1>1, <1>3 DEF Sessions, Agreed
<1> HIDE DEF old
<1>5. s \in Session
  BY <1>1 DEF Session
<1>6. /\ s.state = "Waiting" /\ s.m1 = frame /\ s.m2 = AsSent("ServerInit")
      /\ s.keys = old.keys /\ s.confirmed = old.confirmed /\ s.payloads = old.payloads
  BY <1>1 DEF Session
<1> HIDE DEF s
<1>7. Bound(s)
  BY <1>1, <1>3, <1>6 DEF Bound
<1> QED
  BY <1>1, <1>2, <1>3, <1>4, <1>5, <1>6, <1>7, SessionStep DEF old

LEMMA FinishAccepted ==
  ASSUME Sessions, NEW frame \in Frame, OnClientFinish(frame)
  PROVE  Sessions'
<1> DEFINE old == session["server"]
           keys == SessionKeys(frame, old.m1, old.m2)
           s == [old EXCEPT !.state = "Established", !.keys = keys]
<1>1. old \in Session /\ "server" \in Role
  BY Roles DEF Sessions
<1>2. Moves("server", s)
  BY DEF OnClientFinish, Moves, Sessions
<1>3. old.keys = None /\ old.m1 # None /\ old.m2 # None
  BY <1>1 DEF OnClientFinish, AcceptsClientFinish, Sessions, Bound
<1>4. ~old.confirmed /\ ~(old.payloads > 0)
  BY <1>1, <1>3 DEF Sessions, Agreed
<1>5. old.m1 \in Frame /\ old.m2 \in Frame
  BY <1>1, <1>3 DEF Session
<1>6. keys \in Keys /\ keys # None /\ keys.m1 = old.m1 /\ keys.m2 = old.m2
  BY <1>5, KeysOfFrames
<1> HIDE DEF old, keys
<1>7. s \in Session
  BY <1>1, <1>6 DEF Session
<1>8. /\ s.state = "Established" /\ s.m1 = old.m1 /\ s.m2 = old.m2
      /\ s.keys = keys /\ s.confirmed = old.confirmed /\ s.payloads = old.payloads
  BY <1>1 DEF Session
<1> HIDE DEF s
<1>9. Bound(s)
  BY <1>3, <1>6, <1>8 DEF Bound
<1> QED
  BY <1>1, <1>2, <1>3, <1>4, <1>7, <1>8, <1>9, SessionStep DEF old

LEMMA ReplyAccepted ==
  ASSUME Sessions, NEW frame \in Frame, OnServerInit(frame)
  PROVE  Sessions'
<1> DEFINE old == session["client"]
           keys == SessionKeys(AsSent("ClientFinish"), old.m1, frame)
           s == [old EXCEPT !.state = "Established", !.m2 = frame, !.keys = keys]
<1>1. old \in Session /\ "client" \in Role /\ AsSent("ClientFinish") \in Frame
  BY Roles, SentFrames DEF Sessions, Ukey2MessageType
<1>2. Moves("client", s)
  BY DEF OnServerInit, Moves, Sessions
<1>3. old.keys = None /\ old.m1 # None
  BY <1>1 DEF OnServerInit, AcceptsServerInit, Sessions, Bound
<1>4. ~old.confirmed /\ ~(old.payloads > 0)
  BY <1>1, <1>3 DEF Sessions, Agreed
<1>5. old.m1 \in Frame
  BY <1>1, <1>3 DEF Session
<1>6. keys \in Keys /\ keys # None /\ keys.m1 = old.m1 /\ keys.m2 = frame
  BY <1>1, <1>5, KeysOfFrames
<1>7. frame # None
  OBVIOUS
<1> HIDE DEF old, keys
<1>8. s \in Session
  BY <1>1, <1>6 DEF Session
<1>9. /\ s.state = "Established" /\ s.m1 = old.m1 /\ s.m2 = frame
      /\ s.keys = keys /\ s.confirmed = old.confirmed /\ s.payloads = old.payloads
  BY <1>1 DEF Session
<1> HIDE DEF s
<1>10. Bound(s)
  BY <1>3, <1>6, <1>7, <1>9 DEF Bound
<1> QED
  BY <1>1, <1>2, <1>3, <1>4, <1>8, <1>9, <1>10, SessionStep DEF old

LEMMA Handshake ==
  ASSUME SessionInv, Next
  PROVE  Sessions'
<1>0. Sessions /\ RestTyped
  BY DEF SessionInv, TypeOK, RestTyped
<1>t. \A r \in Role : session[r] \in Session
  BY <1>0 DEF Sessions
<1>1. CASE ClientInit
  <2> DEFINE s == [session["client"] EXCEPT !.state = "Waiting", !.m1 = AsSent("ClientInit"),
                                            !.started = 0]
  <2>1. Moves("client", s)
    BY <1>0, <1>1 DEF ClientInit, Moves, Sessions
  <2>2. AsSent("ClientInit") \in Frame /\ "client" \in Role
    BY SentFrames, Roles DEF Ukey2MessageType
  <2>3. s \in Session
    <3>1. session["client"] \in Session /\ 0 \in 0..MaxTime \cup {None}
      BY <1>t, <2>2
    <3> QED
      BY <2>2, <3>1 DEF Session
  <2>4. session["client"].m1 = None /\ session["client"].m2 = None /\ session["client"].keys = None
    BY <1>0, <1>1, <2>2 DEF ClientInit, Sessions, Bound
  <2>5. ~session["client"].confirmed /\ ~(session["client"].payloads > 0)
    BY <1>0, <2>2, <2>4 DEF Sessions, Agreed
  <2>6. /\ s.state = "Waiting" /\ s.m1 = AsSent("ClientInit") /\ s.m2 = None /\ s.keys = None
        /\ s.confirmed = session["client"].confirmed /\ s.payloads = session["client"].payloads
    BY <1>t, <2>2, <2>4 DEF Session
  <2> HIDE DEF s
  <2>7. Bound(s)
    BY <2>2, <2>6 DEF Bound
  <2> QED
    BY <1>0, <2>1, <2>2, <2>3, <2>4, <2>5, <2>6, <2>7, SessionStep
<1>2. ASSUME NEW r \in Role, NEW n \in 0..Len(net[r]),
             FeedDead(r, n) \/ FeedLate(r, n) \/ FeedRefused(r, n) \/ Feed(r, n)
      PROVE  Sessions'
  <2>0. session[r] \in Session /\ Started(r) \in 0..MaxTime \cup {None}
    BY <1>0, <1>t DEF Started, RestTyped, Session
  <2>1. CASE FeedDead(r, n)
    BY <1>0, <2>1, SessionKept DEF FeedDead, handshake
  <2>2. CASE FeedLate(r, n)
    <3> DEFINE s == [session[r] EXCEPT !.started = Started(r), !.dead = TRUE]
    <3>1. Moves(r, s)
      BY <1>0, <2>2 DEF FeedLate, Moves, Sessions
    <3>2. s \in Session
      BY <2>0 DEF Session
    <3>3. /\ s.state = session[r].state /\ s.m1 = session[r].m1 /\ s.m2 = session[r].m2
          /\ s.keys = session[r].keys /\ s.confirmed = session[r].confirmed
          /\ s.payloads = session[r].payloads
      BY <2>0 DEF Session
    <3> HIDE DEF s
    <3> QED
      BY <1>0, <3>1, <3>2, <3>3, SessionTouched
  <2>3. CASE FeedRefused(r, n) \/ Feed(r, n)
    <3> DEFINE s == [session[r] EXCEPT !.started = Started(r)]
    <3>1. Moves(r, s)
      BY <1>0, <2>3 DEF FeedRefused, Feed, Moves, Sessions
    <3>2. s \in Session
      BY <2>0 DEF Session
    <3>3. /\ s.state = session[r].state /\ s.m1 = session[r].m1 /\ s.m2 = session[r].m2
          /\ s.keys = session[r].keys /\ s.confirmed = session[r].confirmed
          /\ s.payloads = session[r].payloads
      BY <2>0 DEF Session
    <3> HIDE DEF s
    <3> QED
      BY <1>0, <3>1, <3>2, <3>3, SessionTouched
  <2> QED
    BY <1>2, <2>1, <2>2, <2>3
<1>3. ASSUME NEW r \in Role, FeedFrame(r) PROVE Sessions'
  <2> DEFINE frame == Head(chunk[r])
  <2>0. frame \in Frame /\ session[r] \in Session
    BY <1>0, <1>3, <1>t DEF FeedFrame, RestTyped
  <2> HIDE DEF frame
  <2>1. CASE r = "server" /\ OnClientInit(frame)
    BY <1>0, <2>0, <2>1, InitAnswered
  <2>2. CASE r = "server" /\ OnClientFinish(frame)
    BY <1>0, <2>0, <2>2, FinishAccepted
  <2>3. CASE r = "client" /\ OnServerInit(frame)
    BY <1>0, <2>0, <2>3, ReplyAccepted
  <2>4. CASE OnUnexpected(r, frame)
    <3> DEFINE s == [session[r] EXCEPT !.dead = TRUE]
    <3>1. Moves(r, s)
      BY <1>0, <2>4 DEF OnUnexpected, Moves, Sessions
    <3>2. s \in Session
      BY <2>0 DEF Session
    <3>3. /\ s.state = session[r].state /\ s.m1 = session[r].m1 /\ s.m2 = session[r].m2
          /\ s.keys = session[r].keys /\ s.confirmed = session[r].confirmed
          /\ s.payloads = session[r].payloads
      BY <2>0 DEF Session
    <3> HIDE DEF s
    <3> QED
      BY <1>0, <3>1, <3>2, <3>3, SessionTouched
  <2> QED
    BY <1>3, <2>1, <2>2, <2>3, <2>4 DEF FeedFrame, frame
<1>4. ASSUME NEW r \in Role, ConfirmCode(r) PROVE Sessions'
  <2>1. PICK typed \in {session[Peer(r)].keys, None} :
          session' = [session EXCEPT ![r].confirmed = typed = session[r].keys]
    BY <1>4 DEF ConfirmCode
  <2> DEFINE same == typed = session[r].keys
             s == [session[r] EXCEPT !.confirmed = same]
  <2>2. same \in BOOLEAN /\ session[r] \in Session
    BY <1>t
  <2>3. same => session[r].keys # None /\ session[Peer(r)].keys = session[r].keys
    BY <1>4 DEF ConfirmCode
  <2>4. session' = [session EXCEPT ![r].confirmed = same]
    BY <2>1
  <2> HIDE DEF same
  <2>5. Moves(r, s)
    BY <1>0, <2>4 DEF Moves, Sessions
  <2>6. s \in Session
    BY <2>2 DEF Session
  <2>7. /\ s.state = session[r].state /\ s.m1 = session[r].m1 /\ s.m2 = session[r].m2
        /\ s.keys = session[r].keys /\ s.confirmed = same
        /\ s.payloads = session[r].payloads
    BY <2>2 DEF Session
  <2> HIDE DEF s
  <2> QED
    BY <1>0, <2>3, <2>5, <2>6, <2>7, SessionTouched
<1>5. ASSUME NEW r \in Role, DeliverPayload(r) PROVE Sessions'
  <2> DEFINE s == [session[r] EXCEPT !.payloads = session[r].payloads + 1]
  <2>1. Moves(r, s)
    BY <1>0, <1>5 DEF DeliverPayload, Moves, Sessions
  <2>2. session[r] \in Session /\ session[r].confirmed
    BY <1>5, <1>t DEF DeliverPayload
  <2>3. session[r].payloads + 1 \in 0..MaxPayloads
    BY <1>5, <2>2 DEF DeliverPayload, Session
  <2>4. s \in Session
    BY <2>2, <2>3 DEF Session
  <2>5. /\ s.state = session[r].state /\ s.m1 = session[r].m1 /\ s.m2 = session[r].m2
        /\ s.keys = session[r].keys
    BY <2>2 DEF Session
  <2> HIDE DEF s
  <2> QED
    BY <1>0, <2>1, <2>2, <2>4, <2>5, SessionTouched
<1>6. ASSUME UNCHANGED session PROVE Sessions'
  BY <1>0, <1>6, SessionKept
<1> QED
  BY <1>1, <1>2, <1>3, <1>4, <1>5, <1>6 DEF Next, Seal, Open, Disturb, Tick, handshake

LEMMA SessionsHold ==
  ASSUME SessionInv, [Next]_vars
  PROVE  SessionInv'
<1>1. CASE Next
  BY <1>1, Rest, Handshake DEF SessionInv, TypeOK, RestTyped, Sessions
<1>2. CASE UNCHANGED vars
  BY <1>2, SessionKept DEF SessionInv, TypeOK, vars, secure
<1> QED
  BY <1>1, <1>2

-----------------------------------------------------------------------------
LEMMA MessageSealed ==
  ASSUME TypeOK, ChannelInv, NEW r \in Role, NEW body \in Body, Seal(r, body)
  PROVE  ChannelInv'
<1> DEFINE message == [keys |-> session[r].keys, by |-> r,
                       sequence |-> channel[r].send_sequence, body |-> body]
<1>1. wire' = wire \cup {message} /\ sealed' = [sealed EXCEPT ![r] = Append(@, body)]
  BY DEF Seal
<1>2. \A q \in Role : sealed[q] \in Seq(Body) /\ opened[q] \in Seq(Body) /\ Peer(q) \in Role
  BY Roles DEF TypeOK
<1>3. /\ channel[r].send_sequence \in Nat /\ Len(sealed[r]) = channel[r].send_sequence - 1
      /\ channel'[r].send_sequence = channel[r].send_sequence + 1
      /\ channel'[r].expected_sequence = channel[r].expected_sequence
      /\ \A q \in Role : q # r => channel'[q] = channel[q]
  BY DEF Seal, TypeOK, ChannelInv
<1>4. /\ sealed'[r] = Append(sealed[r], body) /\ Len(sealed'[r]) = Len(sealed[r]) + 1
      /\ \A q \in Role : q # r => sealed'[q] = sealed[q]
  BY <1>1, <1>2 DEF TypeOK
<1>5. \A q \in Role : \A i \in 1..Len(sealed[q]) :
        i \in 1..Len(sealed'[q]) /\ sealed'[q][i] = sealed[q][i]
  BY <1>2, <1>4
<1>6. \A q \in Role : /\ Len(sealed'[q]) = channel'[q].send_sequence - 1
                      /\ Len(sealed[q]) =< Len(sealed'[q])
  <2>1. Len(sealed'[r]) = channel'[r].send_sequence - 1
    <3>1. channel[r].send_sequence + 1 - 1 = channel[r].send_sequence - 1 + 1
      BY <1>3
    <3> QED
      BY <1>3, <1>4, <3>1
  <2>2. Len(sealed[r]) =< Len(sealed'[r])
    <3>1. Len(sealed[r]) =< Len(sealed[r]) + 1
      BY <1>2
    <3> QED
      BY <1>4, <3>1
  <2>3. ASSUME NEW q \in Role, q # r
        PROVE  /\ Len(sealed'[q]) = channel'[q].send_sequence - 1
               /\ Len(sealed[q]) =< Len(sealed'[q])
    <3>1. sealed'[q] = sealed[q] /\ channel'[q] = channel[q]
      BY <1>3, <1>4, <2>3
    <3>2. Len(sealed[q]) = channel[q].send_sequence - 1 /\ Len(sealed[q]) \in Nat
      BY <1>2 DEF ChannelInv
    <3> QED
      BY <3>1, <3>2
  <2> QED
    BY <2>1, <2>2, <2>3
<1>7. ASSUME NEW q \in Role
      PROVE  /\ Len(opened'[q]) = channel'[q].expected_sequence - 1
             /\ Len(opened'[q]) =< Len(sealed'[Peer(q)])
             /\ \A i \in 1..Len(opened'[q]) : opened'[q][i] = sealed'[Peer(q)][i]
  <2>1. opened' = opened /\ channel'[q].expected_sequence = channel[q].expected_sequence
    BY <1>3 DEF Seal
  <2>2. Len(opened[q]) =< Len(sealed[Peer(q)]) /\ Len(sealed[Peer(q)]) =< Len(sealed'[Peer(q)])
    BY <1>2, <1>6 DEF ChannelInv
  <2>3. Len(opened[q]) \in Nat /\ Len(sealed[Peer(q)]) \in Nat
    BY <1>2
  <2>4. Len(opened[q]) =< Len(sealed'[Peer(q)])
    <3>1. Len(sealed'[Peer(q)]) \in Nat
      BY <1>2, <1>4, Roles
    <3> QED
      BY <2>2, <2>3, <3>1
  <2>5. ASSUME NEW i \in 1..Len(opened[q]) PROVE opened[q][i] = sealed'[Peer(q)][i]
    <3>1. i \in 1..Len(sealed[Peer(q)])
      BY <2>2, <2>3
    <3> QED
      BY <1>2, <1>5, <3>1 DEF ChannelInv
  <2> QED
    BY <2>1, <2>4, <2>5 DEF ChannelInv
<1>8. ASSUME NEW m \in wire'
      PROVE  m.sequence =< Len(sealed'[m.by]) /\ sealed'[m.by][m.sequence] = m.body
  <2>1. CASE m \in wire
    <3>1. m.by \in Role /\ m.sequence \in 1..Len(sealed[m.by])
      BY <1>2, <2>1 DEF TypeOK, SecureMessage, ChannelInv
    <3> QED
      BY <1>5, <2>1, <3>1 DEF ChannelInv
  <2>2. CASE m = message
    <3>1. channel[r].send_sequence = Len(sealed[r]) + 1
      BY <1>2, <1>3
    <3>2. sealed'[r][Len(sealed[r]) + 1] = body
      BY <1>2, <1>4
    <3> QED
      BY <1>3, <1>4, <2>2, <3>1, <3>2
  <2> QED
    BY <1>1, <2>1, <2>2
<1> QED
  BY <1>6, <1>7, <1>8 DEF ChannelInv

LEMMA MessageOpened ==
  ASSUME TypeOK, ChannelInv, NEW r \in Role, NEW message \in wire, Open(r, message)
  PROVE  ChannelInv'
<1> DEFINE n == channel[r].expected_sequence
           p == sealed[Peer(r)]
<1>1. /\ message.by = Peer(r) /\ message.sequence = n
      /\ opened' = [opened EXCEPT ![r] = Append(@, message.body)]
      /\ wire' = wire /\ sealed' = sealed
  BY DEF Open, InSequence
<1>2. \A q \in Role : sealed[q] \in Seq(Body) /\ opened[q] \in Seq(Body) /\ Peer(q) \in Role
  BY Roles DEF TypeOK
<1>3. /\ n \in Nat /\ Len(opened[r]) = n - 1
      /\ channel'[r].expected_sequence = n + 1
      /\ channel'[r].send_sequence = channel[r].send_sequence
      /\ \A q \in Role : q # r => channel'[q] = channel[q]
  BY DEF Open, TypeOK, ChannelInv
<1>4. n =< Len(p) /\ p[n] = message.body /\ message.body \in Body
  BY <1>1 DEF ChannelInv, TypeOK, SecureMessage
<1>5. /\ opened'[r] = Append(opened[r], message.body) /\ Len(opened'[r]) = Len(opened[r]) + 1
      /\ \A q \in Role : q # r => opened'[q] = opened[q]
  BY <1>1, <1>2 DEF TypeOK
<1>6. Len(opened'[r]) = n
  BY <1>2, <1>3, <1>5
<1>7. ASSUME NEW i \in 1..n PROVE opened'[r][i] = p[i]
  <2>1. CASE i = n
    BY <1>2, <1>3, <1>4, <1>5, <2>1
  <2>2. CASE i # n
    <3>1. i \in 1..Len(opened[r])
      BY <1>3, <2>2
    <3> QED
      BY <1>2, <1>5, <3>1 DEF ChannelInv
  <2> QED
    BY <2>1, <2>2
<1>8. ASSUME NEW q \in Role
      PROVE  /\ Len(sealed'[q]) = channel'[q].send_sequence - 1
             /\ Len(opened'[q]) = channel'[q].expected_sequence - 1
             /\ Len(opened'[q]) =< Len(sealed'[Peer(q)])
             /\ \A i \in 1..Len(opened'[q]) : opened'[q][i] = sealed'[Peer(q)][i]
  <2>1. CASE q = r
    <3>1. n = n + 1 - 1
      BY <1>3
    <3> QED
      BY <1>1, <1>3, <1>4, <1>6, <1>7, <2>1, <3>1 DEF ChannelInv
  <2>2. CASE q # r
    <3>1. channel'[q] = channel[q] /\ opened'[q] = opened[q] /\ sealed' = sealed
      BY <1>1, <1>3, <1>5, <2>2
    <3>2. /\ Len(sealed[q]) = channel[q].send_sequence - 1
          /\ Len(opened[q]) = channel[q].expected_sequence - 1
          /\ Len(opened[q]) =< Len(sealed[Peer(q)])
          /\ \A i \in 1..Len(opened[q]) : opened[q][i] = sealed[Peer(q)][i]
      BY DEF ChannelInv
    <3> QED
      BY <3>1, <3>2
  <2> QED
    BY <2>1, <2>2
<1> QED
  BY <1>1, <1>8 DEF ChannelInv

LEMMA ChannelsHold ==
  ASSUME TypeOK, ChannelInv, [Next]_vars
  PROVE  ChannelInv'
<1>1. ASSUME NEW r \in Role, NEW body \in Body, Seal(r, body) PROVE ChannelInv'
  BY <1>1, MessageSealed
<1>2. ASSUME NEW r \in Role, NEW message \in wire, Open(r, message) PROVE ChannelInv'
  BY <1>2, MessageOpened
<1>3. ASSUME UNCHANGED secure PROVE ChannelInv'
  BY <1>3 DEF ChannelInv, secure
<1> QED
  BY <1>1, <1>2, <1>3
  DEF Next, vars, secure, ClientInit, FeedDead, FeedLate, FeedRefused, Feed, FeedFrame,
      ConfirmCode, DeliverPayload, Disturb, Tick

-----------------------------------------------------------------------------
LEMMA Starts ==
  Init => LinkInv
<1> SUFFICES ASSUME Init PROVE LinkInv
  OBVIOUS
<1>1. TypeOK
  <2>1. 1 \in 1..(MaxSealed + 1)
    OBVIOUS
  <2> QED
    BY <2>1 DEF Init, TypeOK, Session
<1>2. Sessions
  BY <1>1, Roles DEF Init, TypeOK, Sessions, Bound, Agreed
<1>3. ChannelInv
  BY Roles DEF Init, ChannelInv
<1> QED
  BY <1>1, <1>2, <1>3 DEF LinkInv, SessionInv

(* The inductive invariant holds in every state.                              *)
THEOREM Invariant ==
  Spec => []LinkInv
<1>1. LinkInv /\ [Next]_vars => LinkInv'
  BY SessionsHold, ChannelsHold DEF LinkInv, SessionInv
<1> QED
  BY <1>1, Starts, PTL DEF Spec

(* Every variable keeps its type.                                             *)
THEOREM TypeCorrect ==
  Spec => []TypeOK
<1>1. LinkInv => TypeOK
  BY DEF LinkInv, SessionInv
<1> QED
  BY <1>1, Invariant, PTL

(* Digits that a user has compared bind both ends to the same two opening     *)
(* messages, for any number of frames altered or repeated in transit.         *)
THEOREM ConfirmationBinds ==
  Spec => []ConfirmedSawTheSame
<1>1. LinkInv => ConfirmedSawTheSame
  <2> SUFFICES ASSUME LinkInv, NEW r \in Role,
                      session[r].confirmed \/ session[r].payloads > 0
               PROVE  /\ session["client"].m1 = session["server"].m1
                      /\ session["client"].m2 = session["server"].m2
    BY DEF ConfirmedSawTheSame
  <2>1. session[r].keys # None /\ session[Peer(r)].keys = session[r].keys
    BY DEF LinkInv, SessionInv, Sessions, Agreed
  <2>2. session[r].m1 = session[Peer(r)].m1 /\ session[r].m2 = session[Peer(r)].m2
    BY <2>1, Roles DEF LinkInv, SessionInv, Sessions, Bound
  <2> QED
    BY <2>2 DEF Role, Peer
<1> QED
  BY <1>1, Invariant, PTL

(* What an end has opened is the beginning of what the other sealed, for any  *)
(* number of messages lost, repeated or reordered.                            *)
THEOREM ChannelIsInOrder ==
  Spec => []OpenedIsPrefix
<1>1. LinkInv => OpenedIsPrefix
  <2> SUFFICES ASSUME LinkInv, NEW r \in Role
               PROVE  IsPrefix(opened[r], sealed[Peer(r)])
    BY DEF OpenedIsPrefix
  <2>1. opened[r] \in Seq(Body) /\ sealed[Peer(r)] \in Seq(Body)
    BY Roles DEF LinkInv, SessionInv, TypeOK
  <2>2. Len(opened[r]) =< Len(sealed[Peer(r)])
    BY DEF LinkInv, ChannelInv
  <2>3. \A i \in 1..Len(opened[r]) : opened[r][i] = sealed[Peer(r)][i]
    BY DEF LinkInv, ChannelInv
  <2>4. SubSeq(opened[r], 1, Len(opened[r])) = SubSeq(sealed[Peer(r)], 1, Len(opened[r]))
    BY <2>1, <2>2, <2>3
  <2> QED
    BY <2>2, <2>4 DEF IsPrefix
<1> QED
  BY <1>1, Invariant, PTL

(* No replayed or late message ever changes the messages a handshake is bound *)
(* to, or its keys.                                                           *)
THEOREM HandshakeNeverRestarts ==
  Spec => HandshakeIsOnce
<1>1. LinkInv /\ [Next]_vars =>
        [\A r \in Role :
           /\ session[r].m1 # None => session'[r].m1 = session[r].m1
           /\ session[r].m2 # None => session'[r].m2 = session[r].m2
           /\ session[r].keys # None => session'[r].keys = session[r].keys]_vars
  <2> SUFFICES ASSUME LinkInv, Next
               PROVE  \A q \in Role :
                        /\ session[q].m1 # None => session'[q].m1 = session[q].m1
                        /\ session[q].m2 # None => session'[q].m2 = session[q].m2
                        /\ session[q].keys # None => session'[q].keys = session[q].keys
    OBVIOUS
  <2>0. Sessions /\ session \in [Role -> Session]
    BY DEF LinkInv, SessionInv, Sessions
  <2>1. CASE ClientInit
    BY <2>0, <2>1, Roles DEF ClientInit, Sessions, Bound, Session
  <2>2. ASSUME NEW r \in Role, NEW n \in 0..Len(net[r]),
               FeedDead(r, n) \/ FeedLate(r, n) \/ FeedRefused(r, n) \/ Feed(r, n)
        PROVE  \A q \in Role : /\ session'[q].m1 = session[q].m1
                               /\ session'[q].m2 = session[q].m2
                               /\ session'[q].keys = session[q].keys
    BY <2>0, <2>2 DEF FeedDead, FeedLate, FeedRefused, Feed, handshake, Session
  <2>3. ASSUME NEW frame, OnClientInit(frame)
        PROVE  \A q \in Role :
                 /\ session[q].m1 # None => session'[q].m1 = session[q].m1
                 /\ session[q].m2 # None => session'[q].m2 = session[q].m2
                 /\ session'[q].keys = session[q].keys
    BY <2>0, <2>3, Roles DEF OnClientInit, AcceptsClientInit, Sessions, Bound, Session
  <2>4. ASSUME NEW frame, OnClientFinish(frame)
        PROVE  \A q \in Role :
                 /\ session'[q].m1 = session[q].m1
                 /\ session'[q].m2 = session[q].m2
                 /\ session[q].keys # None => session'[q].keys = session[q].keys
    BY <2>0, <2>4, Roles DEF OnClientFinish, AcceptsClientFinish, Sessions, Bound, Session
  <2>5. ASSUME NEW frame, OnServerInit(frame)
        PROVE  \A q \in Role :
                 /\ session'[q].m1 = session[q].m1
                 /\ session[q].m2 # None => session'[q].m2 = session[q].m2
                 /\ session[q].keys # None => session'[q].keys = session[q].keys
    BY <2>0, <2>5, Roles DEF OnServerInit, AcceptsServerInit, Sessions, Bound, Session
  <2>6. ASSUME NEW r \in Role, NEW frame,
               OnUnexpected(r, frame) \/ ConfirmCode(r) \/ DeliverPayload(r)
        PROVE  \A q \in Role : /\ session'[q].m1 = session[q].m1
                               /\ session'[q].m2 = session[q].m2
                               /\ session'[q].keys = session[q].keys
    BY <2>0, <2>6 DEF OnUnexpected, ConfirmCode, DeliverPayload, Session
  <2> QED
    BY <2>1, <2>2, <2>3, <2>4, <2>5, <2>6
    DEF Next, FeedFrame, Seal, Open, Disturb, Tick, handshake
<1> QED
  BY <1>1, Invariant, PTL DEF Spec, HandshakeIsOnce

(* A session that has ended counts no payload, however long it is kept.       *)
THEOREM EndIsFinal ==
  Spec => EndedDeliversNothing
<1>1. TypeOK /\ [Next]_vars =>
        [\A r \in Role :
           session[r].dead =>
             session'[r].dead /\ session'[r].payloads = session[r].payloads]_vars
  <2> DEFINE Silent == \A q \in Role :
                        session[q].dead =>
                          session'[q].dead /\ session'[q].payloads = session[q].payloads
  <2> SUFFICES ASSUME TypeOK, Next PROVE Silent
    OBVIOUS
  <2>0. session \in [Role -> Session]
    BY DEF TypeOK
  <2>1. CASE ClientInit
    BY <2>0, <2>1 DEF ClientInit, Session
  <2>2. ASSUME NEW r \in Role, NEW n \in 0..Len(net[r]),
               FeedDead(r, n) \/ FeedLate(r, n) \/ FeedRefused(r, n) \/ Feed(r, n)
        PROVE  Silent
    BY <2>0, <2>2 DEF FeedDead, FeedLate, FeedRefused, Feed, handshake, Session
  <2>3. ASSUME NEW frame, OnClientInit(frame) \/ OnClientFinish(frame) \/ OnServerInit(frame)
        PROVE  Silent
    BY <2>0, <2>3 DEF OnClientInit, OnClientFinish, OnServerInit, Session
  <2>4. ASSUME NEW r \in Role, NEW frame, OnUnexpected(r, frame) PROVE Silent
    BY <2>0, <2>4 DEF OnUnexpected, Session
  <2>5. ASSUME NEW r \in Role, ConfirmCode(r) PROVE Silent
    BY <2>0, <2>5 DEF ConfirmCode, Session
  <2>6. ASSUME NEW r \in Role, DeliverPayload(r) PROVE Silent
    BY <2>0, <2>6 DEF DeliverPayload, Session
  <2> QED
    BY <2>1, <2>2, <2>3, <2>4, <2>5, <2>6
    DEF Next, FeedFrame, Seal, Open, Disturb, Tick, handshake
<1> QED
  BY <1>1, TypeCorrect, PTL DEF Spec, EndedDeliversNothing

-----------------------------------------------------------------------------
(* An honest handshake.                                                       *)

Idle(r) == chunk[r] = <<>> /\ net[r] = <<>>

(* The one frame on its way to an end, taken out of the stream or not.        *)
Carries(r, frame) ==
  \/ chunk[r] = <<frame>> /\ net[r] = <<>>
  \/ chunk[r] = <<>> /\ net[r] = <<frame>>

(* With nothing altered, the handshake is at one of its five points.          *)
AsExpected ==
  LET client == session["client"]
      server == session["server"]
  IN  \/ client.state = "Start" /\ server.state = "Start" /\ Idle("client") /\ Idle("server")
      \/ /\ client.state = "Waiting" /\ server.state = "Start"
         /\ Idle("client") /\ Carries("server", AsSent("ClientInit"))
      \/ /\ client.state = "Waiting" /\ server.state = "Waiting" /\ server.m1 = AsSent("ClientInit")
         /\ Carries("client", AsSent("ServerInit")) /\ Idle("server")
      \/ /\ client.state = "Established" /\ server.state = "Waiting" /\ server.m1 = AsSent("ClientInit")
         /\ Idle("client") /\ Carries("server", AsSent("ClientFinish"))
      \/ client.state = "Established" /\ server.state = "Established" /\ Idle("client") /\ Idle("server")

Untroubled == \A r \in Role : ~session[r].dead /\ ~jammed[r]

HonestInv == faults = 0 /\ now <= Deadline => Untroubled /\ AsExpected

(* What a change of a session touches.                                        *)
LEMMA StateAfter ==
  ASSUME session \in [Role -> Session], NEW r \in Role, NEW s, session' = [session EXCEPT ![r] = s]
  PROVE  session'[r] = s /\ session'[Peer(r)] = session[Peer(r)]
BY Roles

LEMMA AsExpectedStays ==
  ASSUME AsExpected, \A r \in Role : session'[r].state = session[r].state /\ session'[r].m1 = session[r].m1,
         \A r \in Role : Idle(r) => Idle(r)',
         \A r \in Role : \A type \in Ukey2MessageType :
            Carries(r, AsSent(type)) => Carries(r, AsSent(type))'
  PROVE  AsExpected'
<1>1. "client" \in Role /\ "server" \in Role
  BY DEF Role
<1>2. {"ClientInit", "ServerInit", "ClientFinish"} \subseteq Ukey2MessageType
  BY DEF Ukey2MessageType
<1> QED BY <1>1, <1>2 DEF AsExpected

LEMMA CarriedIs ==
  ASSUME AsExpected, NEW r \in Role
  PROVE  Idle(r) \/ \E type \in Ukey2MessageType : Carries(r, AsSent(type))
BY DEF AsExpected, Role, Ukey2MessageType

(* However the one frame is taken out of the stream, it is the next.          *)
LEMMA TakenIs ==
  ASSUME NEW r \in Role, NEW n \in 0..Len(net[r]), Taken(r, n),
         net \in [Role -> Seq(Frame)], chunk \in [Role -> Seq(Frame)],
         chunk' = [chunk EXCEPT ![r] = SubSeq(net[r], 1, n)]
  PROVE  /\ \A q \in Role : Idle(q) => Idle(q)'
         /\ \A q \in Role : \A frame \in Frame : Carries(q, frame) => Carries(q, frame)'
<1>1. /\ chunk[r] = <<>> /\ \A q \in Role : q # r => net'[q] = net[q] /\ chunk'[q] = chunk[q]
      /\ net'[r] = SubSeq(net[r], n + 1, Len(net[r])) /\ chunk'[r] = SubSeq(net[r], 1, n)
  BY DEF Taken
<1>2. ASSUME Idle(r) PROVE Idle(r)'
  <2>1. n = 0 /\ net[r] = <<>>
    BY <1>2 DEF Idle
  <2> QED BY <1>1, <2>1 DEF Idle
<1>3. ASSUME NEW frame \in Frame, Carries(r, frame) PROVE Carries(r, frame)'
  <2>0. <<frame>> # <<>> /\ Len(<<frame>>) = 1
    OBVIOUS
  <2>1. net[r] = <<frame>> /\ Len(net[r]) = 1
    BY <1>1, <1>3, <2>0 DEF Carries
  <2>2. CASE n = 0
    <3>1. SubSeq(<<frame>>, 1, 0) = <<>>
      BY SubSeqEmpty
    <3>2. SubSeq(net[r], 1, 1) = net[r]
      BY <2>1, SubSeqFull
    <3>3. SubSeq(<<frame>>, 1, 1) = <<frame>>
      BY <2>1, <3>2
    <3> QED BY <1>1, <2>1, <2>2, <3>1, <3>3 DEF Carries
  <2>3. CASE n = 1
    <3>1. SubSeq(<<frame>>, 2, 1) = <<>>
      BY SubSeqEmpty
    <3>2. SubSeq(net[r], 1, 1) = net[r]
      BY <2>1, SubSeqFull
    <3>3. SubSeq(net[r], n + 1, Len(net[r])) = SubSeq(<<frame>>, 2, 1)
      BY <2>1, <2>3
    <3> QED BY <1>1, <2>1, <2>3, <3>1, <3>2, <3>3 DEF Carries
  <2> QED BY <2>1, <2>2, <2>3
<1>4. ASSUME NEW q \in Role, q # r
      PROVE  (Idle(q) => Idle(q)') /\ \A frame : Carries(q, frame) => Carries(q, frame)'
  BY <1>1, <1>4 DEF Idle, Carries
<1> QED BY <1>2, <1>3, <1>4

LEMMA HonestFeed ==
  ASSUME TypeOK, Untroubled, AsExpected, now <= Deadline, NEW r \in Role, NEW n \in 0..Len(net[r]),
         FeedDead(r, n) \/ FeedLate(r, n) \/ FeedRefused(r, n) \/ Feed(r, n)
  PROVE  Untroubled' /\ AsExpected'
<1>0. /\ session \in [Role -> Session] /\ session[r] \in Session /\ now \in Nat
      /\ net \in [Role -> Seq(Frame)] /\ chunk \in [Role -> Seq(Frame)]
  BY DEF TypeOK
<1>1. ~FeedDead(r, n)
  BY DEF FeedDead, Untroubled
<1>2. ~Late(r)
  <2>1. session[r].started \in 0..MaxTime \cup {None}
    BY <1>0 DEF Session
  <2> QED BY <1>0, <2>1 DEF Late, Started
<1>3. ~FeedRefused(r, n)
  <2> SUFFICES ASSUME FeedRefused(r, n) PROVE FALSE
    OBVIOUS
  <2>1. PICK i \in 1..n : net[r][i].type = "BadLength"
    BY DEF FeedRefused, Untroubled
  <2>2. \E type \in Ukey2MessageType : net[r] = <<>> \/ net[r] = <<AsSent(type)>>
    BY CarriedIs DEF Idle, Carries, Ukey2MessageType
  <2>3. PICK type \in Ukey2MessageType : net[r] = <<>> \/ net[r] = <<AsSent(type)>>
    BY <2>2
  <2>4. net[r] = <<AsSent(type)>> /\ i = 1
    BY <2>1, <2>3
  <2>5. net[r][i] = AsSent(type)
    BY <2>4
  <2> QED BY <2>1, <2>5 DEF AsSent, Ukey2MessageType
<1>4. Feed(r, n)
  BY <1>1, <1>2, <1>3 DEF FeedLate
<1> DEFINE s == [session[r] EXCEPT !.started = Started(r)]
<1>5. session' = [session EXCEPT ![r] = s] /\ UNCHANGED jammed /\ Taken(r, n)
      /\ chunk' = [chunk EXCEPT ![r] = SubSeq(net[r], 1, n)]
  BY <1>0, <1>4 DEF Feed
<1>6. s.state = session[r].state /\ s.m1 = session[r].m1 /\ s.dead = session[r].dead
  BY <1>0 DEF Session
<1> HIDE DEF s
<1>7. \A q \in Role : session'[q].state = session[q].state /\ session'[q].m1 = session[q].m1
                      /\ session'[q].dead = session[q].dead
  BY <1>0, <1>5, <1>6
<1>8. Untroubled'
  BY <1>5, <1>7 DEF Untroubled
<1>9. \A type \in Ukey2MessageType : AsSent(type) \in Frame
  BY DEF AsSent, Frame
<1>10. /\ \A q \in Role : Idle(q) => Idle(q)'
       /\ \A q \in Role : \A frame \in Frame : Carries(q, frame) => Carries(q, frame)'
  BY <1>0, <1>5, TakenIs
<1>11. AsExpected'
  BY <1>7, <1>9, <1>10, AsExpectedStays
<1> QED BY <1>8, <1>11

LEMMA HonestFrame ==
  ASSUME TypeOK, Untroubled, AsExpected, NEW r \in Role, FeedFrame(r)
  PROVE  Untroubled' /\ AsExpected'
<1> DEFINE CI == AsSent("ClientInit")
           SI == AsSent("ServerInit")
           CF == AsSent("ClientFinish")
           client == session["client"]
           server == session["server"]
           f == Head(chunk[r])
<1>0. /\ session \in [Role -> Session] /\ client \in Session /\ server \in Session
      /\ net \in [Role -> Seq(Frame)] /\ chunk \in [Role -> Seq(Frame)]
      /\ "client" \in Role /\ "server" \in Role /\ (r = "client" \/ r = "server")
      /\ Peer("client") = "server" /\ Peer("server") = "client"
  BY DEF TypeOK, Role, Peer
<1>1. /\ chunk[r] # <<>> /\ chunk' = [chunk EXCEPT ![r] = Tail(@)] /\ UNCHANGED jammed
      /\ \/ r = "server" /\ (OnClientInit(f) \/ OnClientFinish(f))
         \/ r = "client" /\ OnServerInit(f)
         \/ OnUnexpected(r, f)
  BY DEF FeedFrame
<1>2. /\ CI.type = "ClientInit" /\ SI.type = "ServerInit" /\ CF.type = "ClientFinish"
      /\ CI.altered = {} /\ SI.altered = {} /\ CF.altered = {}
  BY DEF AsSent
<1> HIDE DEF CI, SI, CF
<1>3. \/ /\ r = "server" /\ client.state = "Waiting" /\ server.state = "Start"
         /\ Idle("client") /\ chunk[r] = <<CI>> /\ net[r] = <<>>
      \/ /\ r = "client" /\ client.state = "Waiting" /\ server.state = "Waiting" /\ server.m1 = CI
         /\ chunk[r] = <<SI>> /\ net[r] = <<>> /\ Idle("server")
      \/ /\ r = "server" /\ client.state = "Established" /\ server.state = "Waiting" /\ server.m1 = CI
         /\ Idle("client") /\ chunk[r] = <<CF>> /\ net[r] = <<>>
  BY <1>0, <1>1 DEF AsExpected, Idle, Carries, CI, SI, CF
<1>4. \A g : chunk[r] = <<g>> => f = g /\ Tail(chunk[r]) = <<>>
  OBVIOUS
<1>5. chunk'[r] = <<>> /\ \A q \in Role : q # r => chunk'[q] = chunk[q]
  BY <1>0, <1>1, <1>3, <1>4
<1> HIDE DEF f
<1>6. CASE r = "server" /\ client.state = "Waiting" /\ server.state = "Start"
           /\ Idle("client") /\ chunk[r] = <<CI>> /\ net[r] = <<>>
  <2> DEFINE s == [server EXCEPT !.state = "Waiting", !.m1 = CI, !.m2 = SI]
  <2>0. f = CI
    BY <1>4, <1>6
  <2>1. AcceptsClientInit(f) /\ ~AcceptsClientFinish(f)
    BY <1>2, <1>6, <2>0 DEF AcceptsClientInit, AcceptsClientFinish
  <2>2. OnClientInit(f)
    BY <1>1, <1>6, <2>1 DEF OnUnexpected, OnClientFinish
  <2>3. session' = [session EXCEPT !["server"] = s] /\ net' = [net EXCEPT !["client"] = Append(@, SI)]
    BY <1>0, <2>0, <2>2 DEF OnClientInit, SI
  <2>4. s.state = "Waiting" /\ s.m1 = CI /\ s.dead = server.dead
    <3> HIDE DEF server
    <3> QED BY <1>0 DEF Session
  <2> HIDE DEF s
  <2>5. session'["server"] = s /\ session'["client"] = client
    BY <1>0, <2>3
  <2>6. net'["client"] = <<SI>> /\ net'["server"] = <<>>
    BY <1>0, <1>6, <2>3 DEF Idle
  <2>7. Untroubled'
    BY <1>1, <2>4, <2>5 DEF Untroubled, Role
  <2>8. Carries("client", SI)' /\ Idle("server")'
    BY <1>0, <1>5, <1>6, <2>6 DEF Idle, Carries
  <2>9. AsExpected'
    BY <1>6, <2>4, <2>5, <2>8 DEF AsExpected, CI, SI
  <2> QED BY <2>7, <2>9
<1>7. CASE r = "client" /\ client.state = "Waiting" /\ server.state = "Waiting" /\ server.m1 = CI
           /\ chunk[r] = <<SI>> /\ net[r] = <<>> /\ Idle("server")
  <2> DEFINE k == SessionKeys(AsSent("ClientFinish"), session["client"].m1, f)
             s == [client EXCEPT !.state = "Established", !.m2 = f, !.keys = k]
  <2>0. f = SI
    BY <1>4, <1>7
  <2>1. AcceptsServerInit(f)
    BY <1>2, <1>7, <2>0 DEF AcceptsServerInit
  <2>2. OnServerInit(f)
    BY <1>1, <1>7, <2>1 DEF OnUnexpected
  <2>3. session' = [session EXCEPT !["client"] = s] /\ net' = [net EXCEPT !["server"] = Append(@, CF)]
    BY <1>0, <2>2 DEF OnServerInit, CF
  <2>4. s.state = "Established" /\ s.dead = client.dead
    <3> HIDE DEF client, k
    <3> QED BY <1>0 DEF Session
  <2> HIDE DEF s
  <2>5. session'["client"] = s /\ session'["server"] = server
    BY <1>0, <2>3
  <2>6. net'["server"] = <<CF>> /\ net'["client"] = <<>>
    BY <1>0, <1>7, <2>3 DEF Idle
  <2>7. Untroubled'
    BY <1>1, <2>4, <2>5 DEF Untroubled, Role
  <2>8. Carries("server", CF)' /\ Idle("client")'
    BY <1>0, <1>5, <1>7, <2>6 DEF Idle, Carries
  <2>9. AsExpected'
    BY <1>7, <2>4, <2>5, <2>8 DEF AsExpected, CI, CF
  <2> QED BY <2>7, <2>9
<1>8. CASE r = "server" /\ client.state = "Established" /\ server.state = "Waiting" /\ server.m1 = CI
           /\ Idle("client") /\ chunk[r] = <<CF>> /\ net[r] = <<>>
  <2> DEFINE k == SessionKeys(f, session["server"].m1, session["server"].m2)
             s == [server EXCEPT !.state = "Established", !.keys = k]
  <2>0. f = CF
    BY <1>4, <1>8
  <2>1. AcceptsClientFinish(f) /\ ~AcceptsClientInit(f)
    BY <1>2, <1>8, <2>0 DEF AcceptsClientInit, AcceptsClientFinish
  <2>2. OnClientFinish(f)
    BY <1>1, <1>8, <2>1 DEF OnUnexpected, OnClientInit
  <2>3. session' = [session EXCEPT !["server"] = s] /\ net' = net
    BY <1>0, <2>2 DEF OnClientFinish
  <2>4. s.state = "Established" /\ s.dead = server.dead
    <3> HIDE DEF server, k
    <3> QED BY <1>0 DEF Session
  <2> HIDE DEF s
  <2>5. session'["server"] = s /\ session'["client"] = client
    BY <1>0, <2>3
  <2>7. Untroubled'
    BY <1>1, <2>4, <2>5 DEF Untroubled, Role
  <2>8. Idle("client")' /\ Idle("server")'
    BY <1>0, <1>5, <1>8, <2>3 DEF Idle
  <2>9. AsExpected'
    BY <1>8, <2>4, <2>5, <2>8 DEF AsExpected
  <2> QED BY <2>7, <2>9
<1> QED BY <1>3, <1>6, <1>7, <1>8

LEMMA HonestStep ==
  ASSUME TypeOK, HonestInv, [Next]_vars
  PROVE  HonestInv'
<1> SUFFICES ASSUME faults' = 0, now' <= Deadline
             PROVE  Untroubled' /\ AsExpected'
  BY DEF HonestInv
<1>0. /\ session \in [Role -> Session] /\ now \in Nat /\ faults \in Nat
      /\ net \in [Role -> Seq(Frame)] /\ chunk \in [Role -> Seq(Frame)]
      /\ "client" \in Role /\ "server" \in Role
  BY DEF TypeOK, Role
<1>1. faults = 0 /\ now <= Deadline /\ \A r \in Role : ~Disturb(r)
  <2>1. \A r \in Role : Disturb(r) => faults' = faults + 1
    BY DEF Disturb
  <2>2. Tick => now' = now + 1 /\ faults' = faults
    BY DEF Tick
  <2>3. \A r \in Role : \A n \in 0..Len(net[r]) :
          FeedDead(r, n) \/ FeedLate(r, n) \/ FeedRefused(r, n) \/ Feed(r, n) => UNCHANGED <<now, faults>>
    BY DEF FeedDead, FeedLate, FeedRefused, Feed
  <2>4. \A r \in Role : FeedFrame(r) \/ ConfirmCode(r) \/ DeliverPayload(r) => UNCHANGED <<now, faults>>
    BY DEF FeedFrame, ConfirmCode, DeliverPayload
  <2>5. \A r \in Role : (\E body \in Body : Seal(r, body)) \/ (\E message \in wire : Open(r, message))
                       => UNCHANGED <<now, faults>>
    BY DEF Seal, Open
  <2>6. ClientInit \/ UNCHANGED vars => UNCHANGED <<now, faults>>
    BY DEF ClientInit, vars
  <2>7. UNCHANGED <<now, faults>> \/ (now' = now + 1 /\ faults' = faults)
        \/ \E r \in Role : Disturb(r)
    BY <2>2, <2>3, <2>4, <2>5, <2>6 DEF Next
  <2>8. faults = 0 /\ now <= Deadline
    BY <1>0, <2>1, <2>7
  <2> QED BY <1>0, <2>1, <2>8
<1>2. Untroubled /\ AsExpected
  BY <1>1 DEF HonestInv
<1>3. ASSUME UNCHANGED <<net, chunk, jammed>>,
             \A r \in Role : session'[r].state = session[r].state /\ session'[r].m1 = session[r].m1
                             /\ session'[r].dead = session[r].dead
      PROVE  Untroubled' /\ AsExpected'
  <2>1. Untroubled'
    BY <1>2, <1>3 DEF Untroubled
  <2>2. \A r \in Role : (Idle(r) => Idle(r)') /\ \A f : Carries(r, f) => Carries(r, f)'
    BY <1>3 DEF Idle, Carries
  <2> QED BY <1>2, <1>3, <2>1, <2>2, AsExpectedStays
<1>4. ASSUME ClientInit
      PROVE  Untroubled' /\ AsExpected'
  <2> DEFINE client == session["client"]
             CI == AsSent("ClientInit")
             s == [client EXCEPT !.state = "Waiting", !.m1 = CI, !.started = 0]
  <2>1. /\ client.state = "Start" /\ session' = [session EXCEPT !["client"] = s]
        /\ net' = [net EXCEPT !["server"] = Append(@, CI)] /\ UNCHANGED <<chunk, jammed>>
    BY <1>0, <1>4 DEF ClientInit
  <2>2. client \in Session
    BY <1>0
  <2>3. s.state = "Waiting" /\ s.dead = client.dead
    <3> HIDE DEF client, CI
    <3> QED BY <2>2 DEF Session
  <2> HIDE DEF s, CI
  <2>4. session'["client"] = s /\ session'["server"] = session["server"]
    BY <1>0, <2>1
  <2>5. session["server"].state = "Start" /\ Idle("client") /\ Idle("server")
    BY <1>2, <2>1 DEF AsExpected
  <2>6. net'["server"] = <<CI>> /\ net'["client"] = <<>>
    BY <1>0, <2>1, <2>5 DEF Idle
  <2>7. Idle("client")' /\ Carries("server", CI)'
    BY <2>1, <2>5, <2>6 DEF Idle, Carries
  <2>8. Untroubled'
    BY <1>2, <2>1, <2>3, <2>4 DEF Untroubled, Role
  <2>9. AsExpected'
    BY <2>3, <2>4, <2>5, <2>7 DEF AsExpected, CI
  <2> QED BY <2>8, <2>9
<1>5. ASSUME NEW r \in Role, ConfirmCode(r)
      PROVE  Untroubled' /\ AsExpected'
  <2>1. PICK b : session' = [session EXCEPT ![r].confirmed = b]
    BY <1>5 DEF ConfirmCode
  <2> DEFINE t == session[r]
             s == [t EXCEPT !.confirmed = b]
  <2>2. session' = [session EXCEPT ![r] = s] /\ t \in Session
    BY <1>0, <2>1
  <2>3. s.state = t.state /\ s.m1 = t.m1 /\ s.dead = t.dead
    <3> HIDE DEF t
    <3> QED BY <2>2 DEF Session
  <2> HIDE DEF s
  <2>4. UNCHANGED <<net, chunk, jammed>>
    BY <1>5 DEF ConfirmCode
  <2> QED BY <1>0, <1>3, <2>2, <2>3, <2>4
<1>6. ASSUME NEW r \in Role, DeliverPayload(r)
      PROVE  Untroubled' /\ AsExpected'
  <2> DEFINE t == session[r]
             b == t.payloads + 1
             s == [t EXCEPT !.payloads = b]
  <2>2. session' = [session EXCEPT ![r] = s] /\ t \in Session
    BY <1>0, <1>6 DEF DeliverPayload
  <2>3. s.state = t.state /\ s.m1 = t.m1 /\ s.dead = t.dead
    <3> HIDE DEF t, b
    <3> QED BY <2>2 DEF Session
  <2> HIDE DEF s
  <2>4. UNCHANGED <<net, chunk, jammed>>
    BY <1>6 DEF DeliverPayload
  <2> QED BY <1>0, <1>3, <2>2, <2>3, <2>4
<1>7. ASSUME UNCHANGED <<net, chunk, jammed, session>>
      PROVE  Untroubled' /\ AsExpected'
  BY <1>3, <1>7
<1>8. CASE UNCHANGED vars
  BY <1>7, <1>8 DEF vars
<1>9. CASE Next
  BY <1>1, <1>2, <1>4, <1>5, <1>6, <1>7, <1>9, HonestFeed, HonestFrame
     DEF Next, Seal, Open, Tick, handshake
<1> QED BY <1>8, <1>9

(* However the stream is cut into chunks (Framer), a handshake with nothing   *)
(* altered on its way, and the deadline not over, is ended by neither end     *)
(* (QuickShareSession::feed).                                                 *)
THEOREM HonestTheorem == Spec => []HonestPeersSurvive
<1>1. Init => HonestInv
  BY Roles DEF Init, HonestInv, Untroubled, AsExpected, Idle
<1>2. LinkInv => TypeOK
  BY DEF LinkInv, SessionInv
<1>3. TypeOK /\ HonestInv /\ [Next]_vars => HonestInv'
  BY HonestStep
<1>4. TypeOK /\ HonestInv => HonestPeersSurvive
  <2> SUFFICES ASSUME TypeOK, HonestInv, NEW r \in Role, session[r].dead, ~(faults > 0), ~(now > Deadline)
               PROVE  FALSE
    BY DEF HonestPeersSurvive
  <2>1. faults = 0 /\ now <= Deadline
    BY DEF TypeOK
  <2> QED BY <2>1 DEF HonestInv, Untroubled
<1> QED BY <1>1, <1>2, <1>3, <1>4, Invariant, PTL DEF Spec

-----------------------------------------------------------------------------
(* Control frames: three exchanges over the same channel.                     *)
HIDE LinkAssumption
HIDE NoneAssumption
USE ControlAssumption

(* Sequences whose elements are of any kind.                                  *)
IsSequence(s) == s \in Seq({s[i] : i \in DOMAIN s})

LEMMA SequenceOf ==
  ASSUME NEW S, NEW s \in Seq(S)
  PROVE  IsSequence(s)
<1>1. Len(s) \in Nat /\ DOMAIN s = 1..Len(s) /\ s = [k \in 1..Len(s) |-> s[k]]
  OBVIOUS
<1> QED BY <1>1 DEF IsSequence

LEMMA AppendOne ==
  ASSUME NEW s, IsSequence(s), NEW e
  PROVE  /\ IsSequence(Append(s, e))
         /\ Len(s) \in Nat /\ DOMAIN s = 1..Len(s)
         /\ Len(Append(s, e)) = Len(s) + 1
         /\ DOMAIN Append(s, e) = 1..(Len(s) + 1)
         /\ \A i \in 1..Len(s) : Append(s, e)[i] = s[i]
         /\ Append(s, e)[Len(s) + 1] = e
         /\ {Append(s, e)[i] : i \in DOMAIN Append(s, e)} = {s[i] : i \in DOMAIN s} \cup {e}
<1> DEFINE S == {s[i] : i \in DOMAIN s} \cup {e}
           a == Append(s, e)
<1>1. s \in Seq(S)
  <2>1. Len(s) \in Nat /\ DOMAIN s = 1..Len(s) /\ s = [k \in 1..Len(s) |-> s[k]]
    BY DEF IsSequence
  <2>2. \A k \in 1..Len(s) : s[k] \in S
    BY <2>1
  <2> QED BY <2>1, <2>2
<1>2. e \in S
  OBVIOUS
<1> HIDE DEF S
<1>3. /\ a \in Seq(S) /\ Len(a) = Len(s) + 1 /\ Len(s) \in Nat
      /\ DOMAIN s = 1..Len(s)
      /\ DOMAIN a = 1..(Len(s) + 1)
      /\ \A i \in 1..Len(s) : a[i] = s[i]
      /\ a[Len(s) + 1] = e
  BY <1>1, <1>2
<1> HIDE DEF a
<1>4. IsSequence(a)
  BY <1>3, SequenceOf
<1>5. {a[i] : i \in DOMAIN a} = {s[i] : i \in DOMAIN s} \cup {e}
  <2>1. \A i \in 1..(Len(s) + 1) : i \in 1..Len(s) \/ i = Len(s) + 1
    BY <1>3
  <2>2. Len(s) + 1 \in DOMAIN a
    BY <1>3
  <2>3. \A i \in DOMAIN s : i \in DOMAIN a
    BY <1>3
  <2>4. \A i \in DOMAIN s : a[i] = s[i]
    BY <1>3
  <2>5. \A i \in DOMAIN a : i \in DOMAIN s \/ a[i] = e
    BY <1>3, <2>1
  <2>6. e = a[Len(s) + 1]
    BY <1>3
  <2> QED BY <2>2, <2>3, <2>4, <2>5, <2>6
<1> QED BY <1>3, <1>4, <1>5 DEF a

LEMMA TailOne ==
  ASSUME NEW s, IsSequence(s), s # <<>>
  PROVE  /\ IsSequence(Tail(s))
         /\ Len(s) \in Nat \ {0} /\ DOMAIN s = 1..Len(s)
         /\ Len(Tail(s)) = Len(s) - 1
         /\ DOMAIN Tail(s) = 1..(Len(s) - 1)
         /\ \A i \in 1..(Len(s) - 1) : Tail(s)[i] = s[i + 1]
         /\ s[1] \in {s[i] : i \in DOMAIN s}
         /\ {Tail(s)[i] : i \in DOMAIN Tail(s)} \subseteq {s[i] : i \in DOMAIN s}
         /\ {s[i] : i \in DOMAIN s} \subseteq {Tail(s)[i] : i \in DOMAIN Tail(s)} \cup {s[1]}
<1> DEFINE S == {s[i] : i \in DOMAIN s}
           t == Tail(s)
<1>1. s \in Seq(S)
  BY DEF IsSequence
<1> HIDE DEF S
<1>2. /\ t \in Seq(S)
      /\ Len(s) \in Nat \ {0} /\ DOMAIN s = 1..Len(s)
      /\ Len(t) = Len(s) - 1
      /\ DOMAIN t = 1..(Len(s) - 1)
      /\ \A i \in 1..(Len(s) - 1) : t[i] = s[i + 1]
  BY <1>1
<1> HIDE DEF t
<1>3. IsSequence(t)
  BY <1>2, SequenceOf
<1>4. \A i \in DOMAIN s : i = 1 \/ (i - 1 \in DOMAIN t /\ s[i] = t[i - 1])
  <2> SUFFICES ASSUME NEW i \in DOMAIN s, i # 1
               PROVE  i - 1 \in DOMAIN t /\ s[i] = t[i - 1]
    OBVIOUS
  <2>1. i \in 1..Len(s) /\ i - 1 \in 1..(Len(s) - 1) /\ (i - 1) + 1 = i
    BY <1>2
  <2> QED BY <1>2, <2>1
<1>5. \A i \in DOMAIN t : i + 1 \in DOMAIN s /\ t[i] = s[i + 1]
  BY <1>2
<1>6. 1 \in DOMAIN s
  BY <1>2
<1>7. /\ s[1] \in {s[i] : i \in DOMAIN s}
      /\ {t[i] : i \in DOMAIN t} \subseteq {s[i] : i \in DOMAIN s}
      /\ {s[i] : i \in DOMAIN s} \subseteq {t[i] : i \in DOMAIN t} \cup {s[1]}
  BY <1>4, <1>5, <1>6
<1> QED BY <1>2, <1>3, <1>7 DEF t

-----------------------------------------------------------------------------
(* The channel.                                                               *)

LinkOK ==
  /\ link = [to |-> [p \in End |-> link.to[p]], cut |-> link.cut]
  /\ link.cut \in BOOLEAN
  /\ \A p \in End : IsSequence(link.to[p])

Messages(p) == {link.to[p][k] : k \in DOMAIN link.to[p]}
Fresh(f) == [frame |-> f, age |-> 0]

LEMMA Ends == \A p \in End : Other(p) \in End /\ Other(p) # p /\ Other(Other(p)) = p
              /\ \A q \in End : q = p \/ q = Other(p)
BY DEF End, Other

LEMMA SendsIs ==
  ASSUME LinkOK, NEW p \in End, NEW f, Sends(p, f)
  PROVE  /\ LinkOK'
         /\ link'.cut = link.cut
         /\ Messages(p)' = Messages(p)
         /\ Messages(Other(p))' \subseteq Messages(Other(p)) \cup {Fresh(f)}
         /\ Messages(Other(p)) \subseteq Messages(Other(p))'
         /\ ~link.cut => Fresh(f) \in Messages(Other(p))'
<1>0. Other(p) \in End /\ Other(p) # p
  BY Ends
<1>1. CASE link.cut
  BY <1>1 DEF Sends, LinkOK, Messages
<1>2. CASE ~link.cut
  <2> DEFINE old == link.to[Other(p)]
             q == Append(old, Fresh(f))
  <2>1. link' = [link EXCEPT !.to[Other(p)] = q]
    BY <1>2 DEF Sends, Queue, Fresh
  <2>2. IsSequence(old)
    BY <1>0 DEF LinkOK
  <2>3. IsSequence(q) /\ {q[i] : i \in DOMAIN q} = {old[i] : i \in DOMAIN old} \cup {Fresh(f)}
    <3>1. q = Append(old, Fresh(f))
      OBVIOUS
    <3> HIDE DEF old, q
    <3> QED BY <2>2, <3>1, AppendOne
  <2> HIDE DEF q
  <2>4. link' = [to |-> [r \in End |-> IF r = Other(p) THEN q ELSE link.to[r]], cut |-> link.cut]
    BY <1>0, <2>1 DEF LinkOK
  <2>5. /\ link'.to = [r \in End |-> IF r = Other(p) THEN q ELSE link.to[r]]
        /\ link'.cut = link.cut
    BY <2>4
  <2>6. LinkOK'
    BY <2>3, <2>4, <2>5 DEF LinkOK
  <2>7. link'.to[p] = link.to[p] /\ link'.to[Other(p)] = q
    BY <1>0, <2>5
  <2>8. Messages(Other(p))' = Messages(Other(p)) \cup {Fresh(f)}
    BY <2>3, <2>7 DEF Messages
  <2>9. Messages(p)' = Messages(p)
    BY <2>7 DEF Messages
  <2> QED BY <2>5, <2>6, <2>8, <2>9
<1> QED BY <1>1, <1>2 DEF LinkOK

LEMMA TakesIs ==
  ASSUME LinkOK, NEW p \in End, link.to[p] # <<>>, NEW answer, TakesAndAnswers(p, answer)
  PROVE  /\ LinkOK'
         /\ link'.cut = link.cut
         /\ link'.to[p] = Tail(link.to[p])
         /\ link'.to[Other(p)] = IF answer = <<>> \/ link.cut THEN link.to[Other(p)]
                                 ELSE Append(link.to[Other(p)], Fresh(answer[1]))
         /\ Messages(p)' \subseteq Messages(p)
         /\ Messages(p) \subseteq Messages(p)' \cup {link.to[p][1]}
         /\ link.to[p][1] \in Messages(p)
         /\ Messages(Other(p)) \subseteq Messages(Other(p))'
         /\ Messages(Other(p))' \subseteq
              Messages(Other(p)) \cup (IF answer = <<>> THEN {} ELSE {Fresh(answer[1])})
         /\ answer # <<>> /\ ~link.cut => Fresh(answer[1]) \in Messages(Other(p))'
<1>0. Other(p) \in End /\ Other(p) # p /\ \A r \in End : r = p \/ r = Other(p)
  BY Ends
<1> DEFINE s == link.to[p]
           t == Tail(s)
           old == link.to[Other(p)]
           q == IF answer = <<>> \/ link.cut THEN old ELSE Append(old, Fresh(answer[1]))
           Elements(x) == {x[i] : i \in DOMAIN x}
<1>1. link' = [link EXCEPT !.to[p] = t, !.to[Other(p)] = q]
  BY <1>0 DEF TakesAndAnswers, Queue, Fresh, LinkOK
<1>2. IsSequence(s) /\ IsSequence(old) /\ s # <<>>
  BY <1>0 DEF LinkOK
<1>3. /\ IsSequence(t) /\ s[1] \in Elements(s)
      /\ Elements(t) \subseteq Elements(s) /\ Elements(s) \subseteq Elements(t) \cup {s[1]}
  <2> HIDE DEF s
  <2> QED BY <1>2, TailOne
<1>4. /\ IsSequence(q)
      /\ Elements(old) \subseteq Elements(q)
      /\ Elements(q) \subseteq Elements(old) \cup (IF answer = <<>> THEN {} ELSE {Fresh(answer[1])})
      /\ answer # <<>> /\ ~link.cut => Fresh(answer[1]) \in Elements(q)
  <2> HIDE DEF old
  <2>1. CASE answer = <<>> \/ link.cut
    BY <1>2, <2>1
  <2>2. CASE ~(answer = <<>> \/ link.cut)
    <3>1. q = Append(old, Fresh(answer[1]))
      BY <2>2
    <3>2. IsSequence(q) /\ Elements(q) = Elements(old) \cup {Fresh(answer[1])}
      BY <1>2, <3>1, AppendOne
    <3> HIDE DEF q, Elements
    <3> QED BY <2>2, <3>2
  <2> QED BY <2>1, <2>2
<1> HIDE DEF t, q
<1>5. link' = [to |-> [r \in End |-> IF r = p THEN t ELSE q], cut |-> link.cut]
  <2>1. link' = [to |-> [link.to EXCEPT ![p] = t, ![Other(p)] = q], cut |-> link.cut]
    BY <1>1 DEF LinkOK
  <2>2. [link.to EXCEPT ![p] = t, ![Other(p)] = q] = [r \in End |-> IF r = p THEN t ELSE q]
    BY <1>0 DEF LinkOK
  <2> QED BY <2>1, <2>2
<1>6. link'.cut = link.cut /\ link'.to[p] = t /\ link'.to[Other(p)] = q
      /\ link'.to = [r \in End |-> IF r = p THEN t ELSE q]
  BY <1>0, <1>5
<1>7. LinkOK'
  BY <1>3, <1>4, <1>5, <1>6 DEF LinkOK
<1>8. Messages(p)' = Elements(t) /\ Messages(Other(p))' = Elements(q)
      /\ Messages(p) = Elements(s) /\ Messages(Other(p)) = Elements(old)
  BY <1>6 DEF Messages
<1>9. link.to[p][1] = s[1]
  OBVIOUS
<1> HIDE DEF Elements
<1> QED BY <1>3, <1>4, <1>6, <1>7, <1>8, <1>9 DEF t, q

-----------------------------------------------------------------------------
(* Frames of the paired-key exchange.                                         *)

(* What OnResult takes for a reported success.                                *)
Successful(f) ==
  \E u \in UnwrapBytes(f) :
    /\ DecodeMaterial(u.inner) = Refused
    /\ DecodeResult(u.inner) # Refused
    /\ DecodeResult(u.inner).status = "success"

TheSuccess == WrapInner(EncodeResult("success"), 7)

LEMMA WrappedIs ==
  ASSUME NEW inner, NEW id
  PROVE  \A u \in UnwrapBytes(WrapInner(inner, id)) : u.inner = inner
<1> DEFINE body == [packet |-> "data",
                    header |-> {[id |-> id, kind |-> "bytes", total |-> "known"]},
                    chunk |-> {[last |-> FALSE, offset |-> 0, body |-> inner]}]
<1>1. DecodePayload(WrapInner(inner, id)) = body
  <2>1. DecodeV1(WrapInner(inner, id), OUTER_PAYLOAD) = body
    BY DEF DecodeV1, WrapInner, DataPayload, PayloadFrame, ControlFrame, OUTER_PAYLOAD
  <2>2. "packet" \in DOMAIN body
    OBVIOUS
  <2> QED BY <2>1, <2>2 DEF DecodePayload
<1>2. \A c \in body.chunk : c.body = inner
  OBVIOUS
<1> QED BY <1>1, <1>2 DEF UnwrapBytes

LEMMA MaterialIsNoSuccess ==
  ASSUME NEW m, m # "oversized", NEW id
  PROVE  ~Successful(WrapInner(EncodeMaterial(m), id))
<1>1. DecodeMaterial(EncodeMaterial(m)) = [signed_data |-> m, secret_id_hash |-> m]
  BY DEF DecodeMaterial, DecodeV1, EncodeMaterial, ControlFrame, INNER_ENCRYPTION
<1>2. DecodeMaterial(EncodeMaterial(m)) # Refused
  <2>1. "signed_data" \in DOMAIN DecodeMaterial(EncodeMaterial(m))
    BY <1>1
  <2>2. "signed_data" \notin DOMAIN Refused
    BY DEF Refused
  <2> QED BY <2>1, <2>2
<1> QED BY <1>2, WrappedIs DEF Successful

LEMMA ResultIs ==
  ASSUME NEW s
  PROVE  DecodeResult(EncodeResult(s)) = IF s \in Status THEN [status |-> s] ELSE Refused
BY DEF DecodeResult, DecodeV1, EncodeResult, ControlFrame, INNER_RESULT

LEMMA OtherResultIsNoSuccess ==
  ASSUME NEW s, s # "success", NEW id
  PROVE  ~Successful(WrapInner(EncodeResult(s), id))
BY WrappedIs, ResultIs DEF Successful

LEMMA RefusedHas == DOMAIN Refused = {"refused"}
BY DEF Refused

(* None of the odd frames reports a success.                                  *)
LEMMA OddIsNoSuccess == \A f \in Odd : ~Successful(f)
<1>1. ~Successful(EncodeMaterial("material"))
  <2>1. DecodeV1(EncodeMaterial("material"), OUTER_PAYLOAD)
          = [signed_data |-> "material", secret_id_hash |-> "material"]
    BY DEF DecodeV1, EncodeMaterial, ControlFrame, INNER_ENCRYPTION, OUTER_PAYLOAD
  <2>2. DecodePayload(EncodeMaterial("material")) = Refused
    BY <2>1 DEF DecodePayload
  <2> QED BY <2>2 DEF Successful, UnwrapBytes
<1> DEFINE file == DataPayload(1, "file", TRUE, 0, EncodeKeepAlive(FALSE))
           beat == EncodeKeepAlive(FALSE)
           wrong == DataPayload(7, "file", FALSE, 0, EncodeResult("success"))
<1>2. ~Successful(WrapInner(file, 7))
  <2>1. DecodeV1(file, INNER_RESULT) = Refused
    BY DEF DecodeV1, DataPayload, PayloadFrame, ControlFrame, OUTER_PAYLOAD, INNER_RESULT
  <2>2. DecodeResult(file) = Refused
    BY <2>1, RefusedHas DEF DecodeResult
  <2> HIDE DEF file
  <2> QED BY <2>2, WrappedIs DEF Successful
<1>3. ~Successful(WrapInner(beat, 7))
  <2>1. DecodeV1(beat, INNER_RESULT) = Refused
    BY DEF DecodeV1, EncodeKeepAlive, ControlFrame, OUTER_KEEP_ALIVE, INNER_RESULT
  <2>2. DecodeResult(beat) = Refused
    BY <2>1, RefusedHas DEF DecodeResult
  <2> HIDE DEF beat
  <2> QED BY <2>2, WrappedIs DEF Successful
<1>4. ~Successful(wrong)
  <2> DEFINE body == [packet |-> "data",
                      header |-> {[id |-> 7, kind |-> "file", total |-> "known"]},
                      chunk |-> {[last |-> FALSE, offset |-> 0, body |-> EncodeResult("success")]}]
  <2>1. DecodeV1(wrong, OUTER_PAYLOAD) = body
    BY DEF DecodeV1, DataPayload, PayloadFrame, ControlFrame, OUTER_PAYLOAD
  <2>2. DecodePayload(wrong) = body
    BY <2>1 DEF DecodePayload
  <2>3. {k \in body.header : k.kind = "bytes"} = {}
    OBVIOUS
  <2> HIDE DEF wrong, body
  <2>4. UnwrapBytes(wrong) = {}
    BY <2>2, <2>3 DEF UnwrapBytes
  <2> QED BY <2>4 DEF Successful
<1>5. ~Successful(WrapInner(EncodeMaterial("oversized"), 7))
  <2>1. DecodeV1(EncodeMaterial("oversized"), INNER_RESULT) = Refused
    BY DEF DecodeV1, EncodeMaterial, ControlFrame, INNER_ENCRYPTION, INNER_RESULT
  <2>2. DecodeResult(EncodeMaterial("oversized")) = Refused
    BY <2>1, RefusedHas DEF DecodeResult
  <2> QED BY <2>2, WrappedIs DEF Successful
<1>6. ~Successful(WrapInner(EncodeResult("4"), 7))
  BY OtherResultIsNoSuccess
<1>7. ~Successful(DataPayload(0, "bytes", FALSE, 0, EncodeMaterial("theirs")))
  BY MaterialIsNoSuccess DEF WrapInner
<1> QED BY <1>1, <1>2, <1>3, <1>4, <1>5, <1>6, <1>7 DEF Odd

-----------------------------------------------------------------------------
(* What every exchange keeps: the types, a channel of dated frames, and only  *)
(* the frames of its own topic.                                               *)

Beats == {EncodeKeepAlive(TRUE), EncodeKeepAlive(FALSE)}
Kinds == {"bytes", "file"}
ChunkFrames ==
  {DataPayload(id, kind, last, IF last THEN 1 ELSE 0, kind) :
     id \in PayloadIds, kind \in Kinds, last \in BOOLEAN}
AckFrames == {EncodePayloadAck(id) : id \in PayloadIds}

IsMessage(m) == m = [frame |-> m.frame, age |-> m.age] /\ m.age \in Nat

FramesOK ==
  \A p \in End : \A m \in Messages(p) :
    /\ IsMessage(m)
    /\ topic = "alive" => m.frame \in Beats
    /\ topic = "acks" => m.frame \in ChunkFrames \cup AckFrames

SaidOK ==
  /\ said = [p \in End |-> said[p]]
  /\ \A p \in End : IsSequence(said[p])

BaseInv ==
  /\ ControlTypeOK /\ LinkOK /\ FramesOK /\ SaidOK
  /\ foreign => topic = "pairing"

LEMMA FreshIs ==
  ASSUME NEW f
  PROVE  IsMessage(Fresh(f)) /\ Fresh(f).frame = f /\ Fresh(f).age = 0
BY DEF IsMessage, Fresh

LEMMA SaysIs ==
  ASSUME SaidOK, NEW p \in End, NEW what, Says(p, what)
  PROVE  /\ SaidOK'
         /\ said'[p] = Append(said[p], what)
         /\ said'[Other(p)] = said[Other(p)]
         /\ \A q \in End : \A k \in DOMAIN said[q] : k \in DOMAIN said'[q] /\ said'[q][k] = said[q][k]
         /\ \E k \in DOMAIN said'[p] : said'[p][k] = what
<1>0. Other(p) \in End /\ Other(p) # p /\ \A r \in End : r = p \/ r = Other(p)
  BY Ends
<1> DEFINE old == said[p]
           new == Append(old, what)
<1>1. said' = [said EXCEPT ![p] = new]
  BY DEF Says
<1>2. IsSequence(old)
  BY DEF SaidOK
<1>3. /\ IsSequence(new)
      /\ \A k \in DOMAIN old : k \in DOMAIN new /\ new[k] = old[k]
      /\ \E k \in DOMAIN new : new[k] = what
  <2> HIDE DEF old
  <2>1. /\ IsSequence(new) /\ Len(old) \in Nat /\ DOMAIN old = 1..Len(old)
        /\ DOMAIN new = 1..(Len(old) + 1)
        /\ \A i \in 1..Len(old) : new[i] = old[i]
        /\ new[Len(old) + 1] = what
    BY <1>2, AppendOne
  <2> HIDE DEF new
  <2>2. Len(old) + 1 \in DOMAIN new /\ \A k \in DOMAIN old : k \in DOMAIN new
    BY <2>1
  <2> QED BY <2>1, <2>2
<1> HIDE DEF new
<1>4. said'[p] = new /\ said'[Other(p)] = said[Other(p)]
  BY <1>0, <1>1 DEF SaidOK
<1>5. SaidOK'
  <2>1. said' = [q \in End |-> IF q = p THEN new ELSE said[q]]
    BY <1>1 DEF SaidOK
  <2> QED BY <1>3, <2>1 DEF SaidOK
<1> QED BY <1>0, <1>3, <1>4, <1>5 DEF new

LEMMA SecondIs ==
  ASSUME BaseInv, Second
  PROVE  /\ LinkOK' /\ link'.cut = link.cut
         /\ \A p \in End :
              /\ \A n \in Messages(p)' :
                   \/ n = Fresh(EncodeKeepAlive(FALSE))
                   \/ alive[p] /\ \E m \in Messages(p) : n = [frame |-> m.frame, age |-> m.age + 1]
              /\ alive[p] =>
                   /\ \A m \in Messages(p) :
                        /\ m.age < MaxDelay
                        /\ [frame |-> m.frame, age |-> m.age + 1] \in Messages(p)'
                   /\ ~link.cut /\ alive[Other(p)] /\ Due(Aged(Other(p))) =>
                        Fresh(EncodeKeepAlive(FALSE)) \in Messages(p)'
<1>0. LinkOK /\ FramesOK
  BY DEF BaseInv
<1> DEFINE old(p) == link.to[p]
           later(p) == [k \in DOMAIN old(p) |-> [old(p)[k] EXCEPT !.age = @ + 1]]
           beat(p) == ~link.cut /\ alive[Other(p)] /\ Due(Aged(Other(p)))
           new(p) == IF ~alive[p] THEN <<>>
                     ELSE IF beat(p) THEN Append(later(p), Fresh(EncodeKeepAlive(FALSE)))
                     ELSE later(p)
<1>1. link' = [link EXCEPT !.to = [p \in End |-> new(p)]]
  BY DEF Second, Queue, Fresh
<1>2. ASSUME NEW p \in End
      PROVE  /\ IsSequence(later(p))
             /\ DOMAIN later(p) = DOMAIN old(p)
             /\ \A k \in DOMAIN old(p) : later(p)[k] = [frame |-> old(p)[k].frame, age |-> old(p)[k].age + 1]
  <2>1. IsSequence(old(p))
    BY <1>0 DEF LinkOK
  <2>2. DOMAIN old(p) = 1..Len(old(p)) /\ Len(old(p)) \in Nat
    BY <2>1 DEF IsSequence
  <2>3. \A k \in DOMAIN old(p) : old(p)[k] = [frame |-> old(p)[k].frame, age |-> old(p)[k].age]
    BY <1>0 DEF FramesOK, Messages, IsMessage
  <2>4. \A k \in DOMAIN old(p) : later(p)[k] = [frame |-> old(p)[k].frame, age |-> old(p)[k].age + 1]
    <3> SUFFICES ASSUME NEW k \in DOMAIN old(p)
                 PROVE  later(p)[k] = [frame |-> old(p)[k].frame, age |-> old(p)[k].age + 1]
      OBVIOUS
    <3> DEFINE m == old(p)[k]
    <3>1. later(p)[k] = [m EXCEPT !.age = @ + 1]
      OBVIOUS
    <3>2. m = [frame |-> m.frame, age |-> m.age]
      BY <2>3
    <3> HIDE DEF m
    <3>3. [m EXCEPT !.age = @ + 1] = [frame |-> m.frame, age |-> m.age + 1]
      BY <3>2
    <3> QED BY <3>1, <3>3 DEF m
  <2>5. IsSequence(later(p))
    <3> DEFINE l == later(p)
               S == {l[i] : i \in DOMAIN l}
               n == Len(old(p))
    <3>1. l \in [1..n -> S]
      BY <2>2
    <3>2. n \in Nat
      BY <2>2
    <3> HIDE DEF l, n
    <3>3. l \in Seq(S)
      <4> HIDE DEF S
      <4> QED BY <3>1, <3>2
    <3> QED BY <3>3 DEF l, IsSequence
  <2> QED BY <2>4, <2>5
<1>3. ASSUME NEW p \in End
      PROVE  /\ IsSequence(new(p))
             /\ \A i \in DOMAIN new(p) :
                  \/ new(p)[i] = Fresh(EncodeKeepAlive(FALSE))
                  \/ alive[p] /\ \E k \in DOMAIN old(p) : new(p)[i] = later(p)[k]
             /\ alive[p] =>
                  /\ \A k \in DOMAIN old(p) : \E i \in DOMAIN new(p) : new(p)[i] = later(p)[k]
                  /\ beat(p) => \E i \in DOMAIN new(p) : new(p)[i] = Fresh(EncodeKeepAlive(FALSE))
  <2> HIDE DEF beat
  <2>1. CASE ~alive[p]
    <3>1. new(p) = <<>>
      BY <2>1
    <3>2. <<>> \in Seq({}) /\ DOMAIN <<>> = {}
      OBVIOUS
    <3> HIDE DEF new
    <3> QED BY <2>1, <3>1, <3>2, SequenceOf
  <2>2. CASE alive[p] /\ ~beat(p)
    <3>1. new(p) = later(p)
      BY <2>2
    <3> HIDE DEF new, later, old
    <3> QED BY <1>2, <2>2, <3>1
  <2>3. CASE alive[p] /\ beat(p)
    <3>1. new(p) = Append(later(p), Fresh(EncodeKeepAlive(FALSE)))
      BY <2>3
    <3> DEFINE l == later(p)
               n == new(p)
               e == Fresh(EncodeKeepAlive(FALSE))
    <3>2. IsSequence(l) /\ n = Append(l, e) /\ DOMAIN l = DOMAIN old(p)
      BY <1>2, <3>1
    <3> HIDE DEF l, n, e
    <3>3. /\ IsSequence(n) /\ Len(l) \in Nat /\ DOMAIN l = 1..Len(l)
          /\ DOMAIN n = 1..(Len(l) + 1)
          /\ \A i \in 1..Len(l) : n[i] = l[i]
          /\ n[Len(l) + 1] = e
      BY <3>2, AppendOne
    <3>4. /\ \A i \in DOMAIN n : n[i] = e \/ (i \in DOMAIN l /\ n[i] = l[i])
          /\ \A k \in DOMAIN l : k \in DOMAIN n /\ n[k] = l[k]
          /\ \E i \in DOMAIN n : n[i] = e
      <4>1. \A i \in DOMAIN n : i = Len(l) + 1 \/ i \in 1..Len(l)
        BY <3>3
      <4>2. Len(l) + 1 \in DOMAIN n /\ \A k \in DOMAIN l : k \in DOMAIN n
        BY <3>3
      <4>3. \A i \in DOMAIN l : n[i] = l[i]
        BY <3>3
      <4>4. \A i \in DOMAIN n : n[i] = e \/ i \in DOMAIN l
        BY <3>3, <4>1
      <4>5. n[Len(l) + 1] = e
        BY <3>3
      <4> QED BY <4>2, <4>3, <4>4, <4>5
    <3>5. n = new(p) /\ l = later(p) /\ e = Fresh(EncodeKeepAlive(FALSE))
      BY DEF n, l, e
    <3> HIDE DEF new, later, old
    <3> QED BY <2>3, <3>2, <3>3, <3>4, <3>5
  <2> QED BY <2>1, <2>2, <2>3
<1> HIDE DEF new
<1>4. /\ link' = [to |-> [p \in End |-> new(p)], cut |-> link.cut]
      /\ link'.to = [p \in End |-> new(p)] /\ link'.cut = link.cut
  <2>1. link' = [to |-> [p \in End |-> new(p)], cut |-> link.cut]
    BY <1>0, <1>1 DEF LinkOK
  <2> QED BY <2>1
<1>5. LinkOK'
  BY <1>0, <1>3, <1>4 DEF LinkOK
<1>6. \A p \in End : Messages(p)' = {new(p)[i] : i \in DOMAIN new(p)}
  BY <1>4 DEF Messages
<1>7. \A p \in End : alive[p] => \A m \in Messages(p) : m.age < MaxDelay
  BY DEF Second, Messages
<1> HIDE DEF later
<1>8. ASSUME NEW p \in End, NEW n \in Messages(p)'
      PROVE  \/ n = Fresh(EncodeKeepAlive(FALSE))
             \/ alive[p] /\ \E m \in Messages(p) : n = [frame |-> m.frame, age |-> m.age + 1]
  <2>1. PICK i \in DOMAIN new(p) : n = new(p)[i]
    BY <1>6, <1>8
  <2>2. CASE n = Fresh(EncodeKeepAlive(FALSE))
    BY <2>2
  <2>3. CASE alive[p] /\ \E k \in DOMAIN old(p) : new(p)[i] = later(p)[k]
    <3>1. PICK k \in DOMAIN old(p) : n = later(p)[k]
      BY <2>1, <2>3
    <3>2. n = [frame |-> old(p)[k].frame, age |-> old(p)[k].age + 1] /\ old(p)[k] \in Messages(p)
      BY <1>2, <3>1 DEF Messages
    <3> QED BY <2>3, <3>2
  <2> QED BY <1>3, <2>1, <2>2, <2>3
<1>9. ASSUME NEW p \in End, alive[p], NEW m \in Messages(p)
      PROVE  [frame |-> m.frame, age |-> m.age + 1] \in Messages(p)'
  <2>1. PICK k \in DOMAIN old(p) : m = old(p)[k]
    BY DEF Messages
  <2>2. later(p)[k] = [frame |-> m.frame, age |-> m.age + 1]
    BY <1>2, <2>1
  <2>3. PICK i \in DOMAIN new(p) : new(p)[i] = later(p)[k]
    BY <1>3, <1>9, <2>1
  <2>4. new(p)[i] \in Messages(p)'
    BY <1>6, <2>3
  <2> QED BY <2>2, <2>3, <2>4
<1>10. ASSUME NEW p \in End, alive[p], beat(p)
       PROVE  Fresh(EncodeKeepAlive(FALSE)) \in Messages(p)'
  <2>1. PICK i \in DOMAIN new(p) : new(p)[i] = Fresh(EncodeKeepAlive(FALSE))
    BY <1>3, <1>10
  <2>2. new(p)[i] \in Messages(p)'
    BY <1>6, <2>1
  <2> QED BY <2>1, <2>2
<1> QED BY <1>4, <1>5, <1>7, <1>8, <1>9, <1>10

LEMMA Negotiated ==
  ASSUME NEW i, NEW t, FromNegotiation(i, t) # Refused
  PROVE  FromNegotiation(i, t) \in [interval : 1..MaxMillis, timeout : 1..MaxMillis]
BY DEF FromNegotiation

LEMMA OwnPolicy == FromNegotiation({}, {}) = [interval |-> INTERVAL, timeout |-> TIMEOUT]
BY DEF FromNegotiation

LEMMA TrackerIs ==
  ASSUME NEW policy \in [interval : 1..MaxMillis, timeout : 1..MaxMillis]
  PROVE  NewTracker(policy) \in Tracker
BY DEF NewTracker, Tracker

LEMMA BaseStarts == ControlInit => BaseInv
<1> SUFFICES ASSUME ControlInit PROVE BaseInv
  OBVIOUS
<1>1. tracker \in [End -> Tracker]
  <2>1. PICK policy \in [End -> IF topic = "alive" THEN Policies ELSE {FromNegotiation({}, {})}] :
          tracker = [p \in End |-> NewTracker(policy[p])]
    BY DEF ControlInit
  <2>2. \A p \in End : policy[p] \in [interval : 1..MaxMillis, timeout : 1..MaxMillis]
    BY <2>1, Negotiated, OwnPolicy DEF Policies
  <2> QED BY <2>1, <2>2, TrackerIs
<1>2. pairing \in [End -> Pairing]
  <2>1. PICK allow \in [End -> IF topic = "pairing" THEN BOOLEAN ELSE {FALSE}] :
          pairing = [p \in End |-> NewPairing(allow[p])]
    BY DEF ControlInit
  <2>2. \A p \in End : allow[p] \in BOOLEAN
    OBVIOUS
  <2> QED BY <2>1, <2>2 DEF NewPairing, Pairing
<1>3. <<>> \in Seq({}) /\ DOMAIN <<>> = {}
  OBVIOUS
<1>4. link.to = [p \in End |-> <<>>] /\ link.cut = FALSE /\ link = [to |-> [p \in End |-> <<>>], cut |-> FALSE]
  BY DEF ControlInit
<1>5. LinkOK /\ FramesOK
  BY <1>3, <1>4, SequenceOf DEF LinkOK, FramesOK, Messages
<1>6. SaidOK
  BY <1>3, SequenceOf DEF ControlInit, SaidOK
<1>9. <<>> \in Ledger
  <2>1. <<>> \in [{} -> Entry]
    OBVIOUS
  <2> QED BY <2>1 DEF Ledger
<1>7. ControlTypeOK
  BY <1>1, <1>2, <1>3, <1>4, <1>9 DEF ControlInit, ControlTypeOK, Leaving
<1>8. foreign => topic = "pairing"
  BY DEF ControlInit
<1> QED BY <1>5, <1>6, <1>7, <1>8 DEF BaseInv

(* What the frames of a topic are to those who read them.                     *)
LEMMA BeatIs ==
  ASSUME NEW f \in Beats
  PROVE  \E a \in BOOLEAN : f = EncodeKeepAlive(a) /\ DecodeKeepAlive(f) = [ack |-> a]
<1>1. PICK a \in BOOLEAN : f = EncodeKeepAlive(a)
  BY DEF Beats
<1>2. DecodeKeepAlive(EncodeKeepAlive(a)) = [ack |-> a]
  BY DEF DecodeKeepAlive, DecodeV1, EncodeKeepAlive, ControlFrame, OUTER_KEEP_ALIVE
<1> QED BY <1>1, <1>2

LEMMA DataIs ==
  ASSUME NEW id, NEW kind, NEW last, NEW offset, NEW body
  PROVE  /\ DecodePayload(DataPayload(id, kind, last, offset, body)) =
              [packet |-> "data", header |-> {[id |-> id, kind |-> kind, total |-> "known"]},
               chunk |-> {[last |-> last, offset |-> offset, body |-> body]}]
         /\ DecodeKeepAlive(DataPayload(id, kind, last, offset, body)) = Refused
<1> DEFINE f == DataPayload(id, kind, last, offset, body)
           b == [packet |-> "data", header |-> {[id |-> id, kind |-> kind, total |-> "known"]},
                 chunk |-> {[last |-> last, offset |-> offset, body |-> body]}]
<1>1. DecodeV1(f, OUTER_PAYLOAD) = b /\ DecodeV1(f, OUTER_KEEP_ALIVE) = Refused
  BY DEF DecodeV1, DataPayload, PayloadFrame, ControlFrame, OUTER_PAYLOAD, OUTER_KEEP_ALIVE
<1>2. "packet" \in DOMAIN b
  OBVIOUS
<1> QED BY <1>1, <1>2 DEF DecodePayload, DecodeKeepAlive

LEMMA AckIs ==
  ASSUME NEW id
  PROVE  /\ DecodePayload(EncodePayloadAck(id)) =
              [packet |-> "ack", header |-> {[id |-> id, kind |-> "file", total |-> "indeterminate"]},
               chunk |-> {}]
         /\ DecodeKeepAlive(EncodePayloadAck(id)) = Refused
<1> DEFINE f == EncodePayloadAck(id)
           b == [packet |-> "ack", header |-> {[id |-> id, kind |-> "file", total |-> "indeterminate"]},
                 chunk |-> {}]
<1>1. DecodeV1(f, OUTER_PAYLOAD) = b /\ DecodeV1(f, OUTER_KEEP_ALIVE) = Refused
  BY DEF DecodeV1, EncodePayloadAck, PayloadFrame, ControlFrame, OUTER_PAYLOAD, OUTER_KEEP_ALIVE
<1>2. "packet" \in DOMAIN b
  OBVIOUS
<1> QED BY <1>1, <1>2 DEF DecodePayload, DecodeKeepAlive

(* The first frame on its way to an end.                                      *)
LEMMA FirstIs ==
  ASSUME LinkOK, NEW p \in End, Arrives(p)
  PROVE  /\ link.to[p] # <<>> /\ link.to[p][1] \in Messages(p)
         /\ First(p) = link.to[p][1].frame
<1> DEFINE s == link.to[p]
<1>1. IsSequence(s) /\ s # <<>>
  BY DEF LinkOK, Arrives
<1>2. s[1] \in {s[i] : i \in DOMAIN s}
  <2> HIDE DEF s
  <2> QED BY <1>1, TailOne
<1> QED BY <1>1, <1>2 DEF Messages, First

LEMMA NoBeatAmongAcks ==
  ASSUME BaseInv, NEW p \in End, Arrives(p), DecodeKeepAlive(First(p)) # Refused
  PROVE  topic # "acks"
<1> SUFFICES ASSUME topic = "acks" PROVE FALSE
  OBVIOUS
<1>1. First(p) \in ChunkFrames \cup AckFrames
  BY FirstIs DEF BaseInv, FramesOK
<1> QED BY <1>1, DataIs, AckIs DEF ChunkFrames, AckFrames

LEMMA FramesKeep ==
  ASSUME BaseInv, UNCHANGED topic,
         \A p \in End : \A n \in Messages(p)' :
           \/ n \in Messages(p)
           \/ \E f : /\ n = Fresh(f)
                     /\ topic = "alive" => f \in Beats
                     /\ topic = "acks" => f \in ChunkFrames \cup AckFrames
  PROVE  FramesOK'
<1> SUFFICES ASSUME NEW p \in End, NEW n \in Messages(p)'
             PROVE  /\ IsMessage(n)
                    /\ topic = "alive" => n.frame \in Beats
                    /\ topic = "acks" => n.frame \in ChunkFrames \cup AckFrames
  BY DEF FramesOK
<1>1. CASE n \in Messages(p)
  BY <1>1 DEF BaseInv, FramesOK
<1>2. ASSUME NEW f, n = Fresh(f),
             topic = "alive" => f \in Beats, topic = "acks" => f \in ChunkFrames \cup AckFrames
      PROVE  /\ IsMessage(n)
             /\ topic = "alive" => n.frame \in Beats
             /\ topic = "acks" => n.frame \in ChunkFrames \cup AckFrames
  BY <1>2, FreshIs
<1> QED BY <1>1, <1>2

LEMMA OlderIs ==
  ASSUME NEW age \in Nat \cup {Unset}, NEW most \in Int
  PROVE  Older(age, most) \in Nat \cup {Unset}
BY DEF Older

LEMMA TrackersStay ==
  ASSUME NEW t \in Tracker
  PROVE  OnTick(t) \in Tracker /\ Expired(t) \in Tracker
<1>1. OnTick(t) \in Tracker
  BY DEF OnTick, Tracker
<1>2. Expired(t) \in Tracker
  <2>1. (Reference(t) # Unset /\ Reference(t) > t.timeout) \in BOOLEAN
    OBVIOUS
  <2> QED BY <2>1 DEF Expired, Tracker
<1> QED BY <1>1, <1>2

LEMMA AgedIs ==
  ASSUME ControlTypeOK, NEW p \in End
  PROVE  /\ Aged(p) \in Tracker
         /\ Aged(p).interval = tracker[p].interval /\ Aged(p).timeout = tracker[p].timeout
         /\ Aged(p).expired = tracker[p].expired
         /\ Aged(p).sinceFirst = Older(tracker[p].sinceFirst, tracker[p].timeout)
         /\ Aged(p).sinceSent = Older(tracker[p].sinceSent, tracker[p].interval - 1)
         /\ Aged(p).sinceReceived = Older(tracker[p].sinceReceived, tracker[p].timeout)
<1> DEFINE t == tracker[p]
           a == Older(t.sinceFirst, t.timeout)
           b == Older(t.sinceSent, t.interval - 1)
           c == Older(t.sinceReceived, t.timeout)
<1>1. t \in Tracker
  BY DEF ControlTypeOK
<1>2. a \in Nat \cup {Unset} /\ b \in Nat \cup {Unset} /\ c \in Nat \cup {Unset}
  <2>1. t.timeout \in Int /\ t.interval - 1 \in Int
    BY <1>1 DEF Tracker
  <2> QED BY <1>1, <2>1, OlderIs DEF Tracker
<1>3. Aged(p) = [t EXCEPT !.sinceFirst = a, !.sinceSent = b, !.sinceReceived = c]
  BY DEF Aged
<1> HIDE DEF t, a, b, c
<1>4. /\ Aged(p) \in Tracker
      /\ Aged(p).interval = t.interval /\ Aged(p).timeout = t.timeout
      /\ Aged(p).expired = t.expired
      /\ Aged(p).sinceFirst = a /\ Aged(p).sinceSent = b /\ Aged(p).sinceReceived = c
  BY <1>1, <1>2, <1>3 DEF Tracker
<1> QED BY <1>4 DEF t, a, b, c

LEMMA SecondBase ==
  ASSUME BaseInv, Second
  PROVE  BaseInv'
<1>1. ControlTypeOK /\ topic = "alive"
  BY DEF BaseInv, Second
<1>2. tracker' = [p \in End |-> IF alive[p] THEN Expired(OnTick(Aged(p))) ELSE tracker[p]]
      /\ UNCHANGED <<topic, foreign, alive, pairing, leaving, ledger, said>>
  BY DEF Second
<1>3. tracker' \in [End -> Tracker]
  <2>1. \A p \in End : Expired(OnTick(Aged(p))) \in Tracker
    BY <1>1, AgedIs, TrackersStay
  <2>2. \A p \in End : tracker[p] \in Tracker
    BY <1>1 DEF ControlTypeOK
  <2> QED BY <1>2, <2>1, <2>2
<1>4. LinkOK'
  BY SecondIs
<1>5. FramesOK'
  <2> SUFFICES ASSUME NEW p \in End, NEW n \in Messages(p)'
               PROVE  IsMessage(n) /\ n.frame \in Beats
    BY <1>1, <1>2 DEF FramesOK
  <2>1. CASE n = Fresh(EncodeKeepAlive(FALSE))
    BY <2>1, FreshIs DEF Beats
  <2>2. ASSUME NEW m \in Messages(p), n = [frame |-> m.frame, age |-> m.age + 1]
        PROVE  IsMessage(n) /\ n.frame \in Beats
    <3>1. IsMessage(m) /\ m.frame \in Beats
      BY <1>1 DEF BaseInv, FramesOK
    <3> QED BY <2>2, <3>1 DEF IsMessage
  <2> QED BY <2>1, <2>2, SecondIs
<1>6. ControlTypeOK'
  BY <1>1, <1>2, <1>3, <1>4 DEF ControlTypeOK, LinkOK
<1> QED BY <1>2, <1>4, <1>5, <1>6 DEF BaseInv, SaidOK

LEMMA CutBase ==
  ASSUME BaseInv, link' = Gone, UNCHANGED <<topic, foreign, said>>
  PROVE  LinkOK' /\ FramesOK' /\ \A p \in End : Messages(p)' = {}
<1>1. <<>> \in Seq({}) /\ DOMAIN <<>> = {}
  OBVIOUS
<1>2. link'.to = [p \in End |-> <<>>] /\ link'.cut = TRUE
      /\ link' = [to |-> link'.to, cut |-> link'.cut]
  BY DEF Gone
<1>3. LinkOK'
  BY <1>1, <1>2, SequenceOf DEF LinkOK
<1>4. \A p \in End : Messages(p)' = {}
  BY <1>1, <1>2 DEF Messages
<1> QED BY <1>3, <1>4 DEF FramesOK

LEMMA TrackerHeard ==
  ASSUME ControlTypeOK, NEW p \in End, tracker' = [tracker EXCEPT ![p].sinceReceived = 0]
  PROVE  tracker' \in [End -> Tracker]
<1> DEFINE t == tracker[p]
           u == [t EXCEPT !.sinceReceived = 0]
<1>1. tracker \in [End -> Tracker] /\ t \in Tracker
  BY DEF ControlTypeOK
<1>2. tracker' = [tracker EXCEPT ![p] = u]
  BY <1>1
<1>3. u \in Tracker
  <2> HIDE DEF t
  <2> QED BY <1>1 DEF Tracker
<1> HIDE DEF u
<1> QED BY <1>1, <1>2, <1>3

LEMMA KeepAliveBase ==
  ASSUME BaseInv, NEW p \in End, OnKeepAlive(p)
  PROVE  BaseInv'
<1> DEFINE answer == IF tracker[p].expired \/ DecodeKeepAlive(First(p)).ack THEN <<>>
                     ELSE <<EncodeKeepAlive(TRUE)>>
<1>1. /\ Arrives(p) /\ DecodeKeepAlive(First(p)) # Refused
      /\ UNCHANGED <<topic, foreign, alive, pairing, leaving, ledger, said>>
      /\ TakesAndAnswers(p, answer)
      /\ tracker' = tracker \/ tracker' = [tracker EXCEPT ![p].sinceReceived = 0]
  BY DEF OnKeepAlive
<1>2. ControlTypeOK /\ LinkOK /\ topic # "acks"
  BY <1>1, NoBeatAmongAcks DEF BaseInv
<1>3. answer = <<>> \/ (answer # <<>> /\ answer[1] = EncodeKeepAlive(TRUE))
  OBVIOUS
<1> HIDE DEF answer
<1>4. link.to[p] # <<>>
  BY <1>1, <1>2, FirstIs
<1>5. /\ LinkOK'
      /\ Messages(p)' \subseteq Messages(p)
      /\ Messages(Other(p))' \subseteq
              Messages(Other(p)) \cup (IF answer = <<>> THEN {} ELSE {Fresh(answer[1])})
  BY <1>1, <1>2, <1>4, TakesIs
<1>6. FramesOK'
  <2>1. Messages(Other(p))' \subseteq Messages(Other(p)) \cup {Fresh(EncodeKeepAlive(TRUE))}
    <3>1. CASE answer = <<>>
      BY <1>5, <3>1
    <3>2. CASE answer # <<>> /\ answer[1] = EncodeKeepAlive(TRUE)
      BY <1>5, <3>2
    <3> QED BY <1>3, <3>1, <3>2
  <2>2. EncodeKeepAlive(TRUE) \in Beats
    BY DEF Beats
  <2> QED BY <1>1, <1>2, <1>5, <2>1, <2>2, Ends, FramesKeep
<1>7. tracker' \in [End -> Tracker]
  BY <1>1, <1>2, TrackerHeard DEF ControlTypeOK
<1>8. ControlTypeOK'
  BY <1>1, <1>2, <1>5, <1>7 DEF ControlTypeOK, LinkOK
<1> QED BY <1>1, <1>5, <1>6, <1>8 DEF BaseInv, SaidOK

LEMMA PayloadBase ==
  ASSUME BaseInv, NEW p \in End, OnBytesPayload(p)
  PROVE  /\ BaseInv'
         /\ Arrives(p) /\ topic = "pairing"
         /\ \/ OnEncryption(p) \/ OnResult(p) \/ OnNothing(p)
         /\ Messages(p)' \subseteq Messages(p)
         /\ \A n \in Messages(Other(p))' :
              n \in Messages(Other(p)) \/ \E id : n = Fresh(WrapInner(EncodeResult("unable"), id))
         /\ pairing'[Other(p)] = pairing[Other(p)]
         /\ said' = said \/ Says(p, "unable")
<1>0. ControlTypeOK /\ LinkOK /\ SaidOK
  BY DEF BaseInv
<1>1. /\ Arrives(p) /\ topic = "pairing" /\ (OnEncryption(p) \/ OnResult(p) \/ OnNothing(p))
      /\ UNCHANGED <<topic, foreign, alive, tracker, leaving, ledger>>
  BY DEF OnBytesPayload
<1>2. link.to[p] # <<>> /\ Other(p) \in End /\ Other(p) # p
  BY <1>0, <1>1, FirstIs, Ends
<1>3. \E answer : /\ TakesAndAnswers(p, answer)
                  /\ answer = <<>> \/ \E id : answer = <<WrapInner(EncodeResult("unable"), id)>>
  BY <1>1 DEF OnEncryption, OnResult, OnNothing
<1>4. PICK answer : /\ TakesAndAnswers(p, answer)
                    /\ answer = <<>> \/ \E id : answer = <<WrapInner(EncodeResult("unable"), id)>>
  BY <1>3
<1>5. /\ LinkOK'
      /\ Messages(p)' \subseteq Messages(p)
      /\ Messages(Other(p))' \subseteq
              Messages(Other(p)) \cup (IF answer = <<>> THEN {} ELSE {Fresh(answer[1])})
  BY <1>0, <1>2, <1>4, TakesIs
<1>6. \A n \in Messages(Other(p))' :
              n \in Messages(Other(p)) \/ \E id : n = Fresh(WrapInner(EncodeResult("unable"), id))
  BY <1>4, <1>5
<1>7. FramesOK'
  <2>1. \A q \in End : \A n \in Messages(q)' : n \in Messages(q) \/ \E f : n = Fresh(f)
    BY <1>5, <1>6, Ends
  <2>2. topic # "alive" /\ topic # "acks" /\ UNCHANGED topic
    BY <1>1
  <2> QED BY <2>1, <2>2, FramesKeep
<1>8. said' = said \/ Says(p, "unable")
  BY <1>1 DEF OnEncryption, OnResult, OnNothing
<1>9. SaidOK'
  BY <1>0, <1>8, SaysIs DEF SaidOK
<1>10. pairing' \in [End -> Pairing] /\ pairing'[Other(p)] = pairing[Other(p)]
  <2> DEFINE x == pairing[p]
  <2>0. pairing \in [End -> Pairing] /\ x \in Pairing
    BY <1>0 DEF ControlTypeOK
  <2>1. CASE OnEncryption(p)
    <3> DEFINE y == [x EXCEPT !.state = IF @ = "EncryptionSent" THEN "EncryptionReceived" ELSE @]
    <3>1. pairing' = [pairing EXCEPT ![p] = y]
      BY <2>1 DEF OnEncryption
    <3>2. y \in Pairing
      <4> HIDE DEF x
      <4> QED BY <2>0 DEF Pairing
    <3> HIDE DEF y
    <3> QED BY <1>2, <2>0, <3>1, <3>2
  <2>2. CASE OnResult(p)
    <3>1. PICK u \in UnwrapBytes(First(p)) :
            /\ DecodeResult(u.inner) # Refused
            /\ pairing' = [pairing EXCEPT
               ![p].status = DecodeResult(u.inner).status,
               ![p].state = IF @ \in {"EncryptionSent", "EncryptionReceived"}
                            THEN "ResultReceived" ELSE "Complete"]
      BY <2>2 DEF OnResult
    <3> DEFINE r == DecodeResult(u.inner).status
               y == [x EXCEPT !.status = r,
                              !.state = IF @ \in {"EncryptionSent", "EncryptionReceived"}
                                        THEN "ResultReceived" ELSE "Complete"]
    <3>2. r \in Status
      BY <3>1 DEF DecodeResult
    <3>3. pairing' = [pairing EXCEPT ![p] = y]
      BY <2>0, <3>1
    <3>4. y \in Pairing
      <4> HIDE DEF x, r
      <4> QED BY <2>0, <3>2 DEF Pairing
    <3> HIDE DEF y
    <3> QED BY <1>2, <2>0, <3>3, <3>4
  <2>3. CASE OnNothing(p)
    BY <1>0, <2>3 DEF OnNothing, ControlTypeOK
  <2> QED BY <1>1, <2>1, <2>2, <2>3
<1>11. ControlTypeOK'
  BY <1>0, <1>1, <1>5, <1>10 DEF ControlTypeOK, LinkOK
<1> QED BY <1>1, <1>5, <1>6, <1>7, <1>8, <1>9, <1>10, <1>11 DEF BaseInv

(* An end that takes a frame and answers nothing.                             *)
LEMMA TakenBase ==
  ASSUME BaseInv, NEW p \in End, Arrives(p), TakesAndAnswers(p, <<>>), UNCHANGED topic
  PROVE  /\ LinkOK' /\ FramesOK'
         /\ link'.cut = link.cut
         /\ link'.to[p] = Tail(link.to[p]) /\ link'.to[Other(p)] = link.to[Other(p)]
         /\ Messages(p)' \subseteq Messages(p)
         /\ Messages(Other(p))' = Messages(Other(p))
<1>1. LinkOK /\ link.to[p] # <<>>
  BY FirstIs DEF BaseInv
<1>2. /\ LinkOK' /\ link'.cut = link.cut
      /\ link'.to[p] = Tail(link.to[p]) /\ link'.to[Other(p)] = link.to[Other(p)]
      /\ Messages(p)' \subseteq Messages(p)
      /\ Messages(Other(p))' = Messages(Other(p))
  BY <1>1, TakesIs
<1>3. FramesOK'
  BY <1>2, Ends, FramesKeep
<1> QED BY <1>2, <1>3

LEMMA SentBase ==
  ASSUME BaseInv, NEW p \in End, NEW f, Sends(p, f), topic \in {"pairing", "leaving"}, UNCHANGED topic
  PROVE  LinkOK' /\ FramesOK'
<1>1. LinkOK
  BY DEF BaseInv
<1>2. /\ LinkOK' /\ Messages(p)' = Messages(p)
      /\ Messages(Other(p))' \subseteq Messages(Other(p)) \cup {Fresh(f)}
  BY <1>1, SendsIs
<1>3. FramesOK'
  <2>1. \A q \in End : \A n \in Messages(q)' : n \in Messages(q) \/ n = Fresh(f)
    BY <1>2, Ends
  <2>2. topic # "alive" /\ topic # "acks"
    OBVIOUS
  <2> QED BY <2>1, <2>2, FramesKeep
<1> QED BY <1>2, <1>3

LEMMA SpokenBase ==
  ASSUME BaseInv, NEW p \in End, NEW f, NEW what, Sends(p, f), Says(p, what),
         topic \in {"pairing", "leaving"},
         UNCHANGED <<topic, foreign, alive, tracker, leaving, ledger>>,
         pairing' \in [End -> Pairing]
  PROVE  BaseInv'
<1>1. LinkOK' /\ FramesOK'
  BY SentBase
<1>2. SaidOK'
  BY SaysIs DEF BaseInv
<1> QED BY <1>1, <1>2 DEF BaseInv, ControlTypeOK, LinkOK

LEMMA BeginBase ==
  ASSUME BaseInv, NEW p \in End, Begin(p)
  PROVE  /\ BaseInv'
         /\ \A q \in End : pairing'[q].status = pairing[q].status
<1> DEFINE x == pairing[p]
           n == x.next + 1
           y == [x EXCEPT !.state = "EncryptionSent", !.next = n]
<1>1. pairing \in [End -> Pairing] /\ x \in Pairing
  BY DEF BaseInv, ControlTypeOK
<1>2. pairing' = [pairing EXCEPT ![p] = y]
  BY <1>1 DEF Begin
<1>3. y \in Pairing /\ y.status = x.status
  <2>1. n \in Nat
    <3> HIDE DEF x
    <3> QED BY <1>1 DEF Pairing
  <2> HIDE DEF x, n
  <2> QED BY <1>1, <2>1 DEF Pairing
<1>4. pairing' \in [End -> Pairing] /\ \A q \in End : pairing'[q].status = pairing[q].status
  <2> HIDE DEF y
  <2> QED BY <1>1, <1>2, <1>3
<1>5. /\ topic = "pairing"
      /\ Sends(p, WrapInner(EncodeMaterial("material"), pairing[p].next))
      /\ Says(p, "material")
      /\ UNCHANGED <<topic, foreign, alive, tracker, leaving, ledger>>
  BY DEF Begin
<1>6. BaseInv'
  BY <1>4, <1>5, SpokenBase
<1> QED BY <1>4, <1>6

LEMMA LeaveBase ==
  ASSUME BaseInv, NEW p \in End, Leave(p)
  PROVE  BaseInv'
<1>1. PICK request \in {"true", "false", "absent"} :
          /\ Sends(p, EncodeDisconnection(request, IF request = "absent" THEN "absent" ELSE "false"))
          /\ Says(p, request)
  BY DEF Leave
<1>2. topic = "leaving" /\ UNCHANGED <<topic, foreign, alive, tracker, pairing, leaving, ledger>>
  BY DEF Leave
<1>3. pairing' \in [End -> Pairing]
  BY <1>2 DEF BaseInv, ControlTypeOK
<1> QED BY <1>1, <1>2, <1>3, SpokenBase

LEMMA ForeignBase ==
  ASSUME BaseInv, ForeignListens \/ ForeignSpeaks
  PROVE  BaseInv'
<1>0. "B" \in End
  BY DEF End
<1>1. CASE ForeignListens
  <2>1. LinkOK' /\ FramesOK'
    BY <1>0, <1>1, TakenBase DEF ForeignListens
  <2> QED BY <1>1, <2>1 DEF ForeignListens, BaseInv, ControlTypeOK, LinkOK, SaidOK
<1>2. CASE ForeignSpeaks
  <2>1. PICK f : Sends("B", f) /\ Says("B", f)
    BY <1>2 DEF ForeignSpeaks
  <2>2. topic = "pairing" /\ UNCHANGED <<topic, foreign, alive, tracker, pairing, leaving, ledger>>
    BY <1>2 DEF ForeignSpeaks, BaseInv
  <2>3. pairing' \in [End -> Pairing]
    BY <2>2 DEF BaseInv, ControlTypeOK
  <2> QED BY <1>0, <2>1, <2>2, <2>3, SpokenBase
<1> QED BY <1>1, <1>2

LEMMA DisconnectionBase ==
  ASSUME BaseInv, NEW p \in End, OnDisconnection(p)
  PROVE  BaseInv'
<1>0. LinkOK /\ ControlTypeOK /\ SaidOK /\ topic = "leaving" /\ Arrives(p)
      /\ UNCHANGED <<topic, foreign, alive, tracker, pairing, ledger, said>>
  BY DEF BaseInv, OnDisconnection
<1>1. leaving' \in [End -> Leaving]
  <2>1. leaving \in [End -> Leaving]
    BY <1>0 DEF ControlTypeOK
  <2>2. \/ leaving' = [leaving EXCEPT ![p].closed = TRUE]
        \/ leaving' = [leaving EXCEPT ![p].marked = TRUE, ![p].notified = TRUE]
        \/ leaving' = [leaving EXCEPT ![p].marked = TRUE]
    BY DEF OnDisconnection
  <2> DEFINE x == leaving[p]
  <2>3. \E y \in Leaving : leaving' = [leaving EXCEPT ![p] = y]
    <3>1. x \in Leaving
      BY <2>1
    <3>2. /\ [x EXCEPT !.closed = TRUE] \in Leaving
          /\ [x EXCEPT !.marked = TRUE, !.notified = TRUE] \in Leaving
          /\ [x EXCEPT !.marked = TRUE] \in Leaving
      <4> HIDE DEF x
      <4> QED BY <3>1 DEF Leaving
    <3>3. \/ leaving' = [leaving EXCEPT ![p] = [x EXCEPT !.closed = TRUE]]
          \/ leaving' = [leaving EXCEPT ![p] = [x EXCEPT !.marked = TRUE, !.notified = TRUE]]
          \/ leaving' = [leaving EXCEPT ![p] = [x EXCEPT !.marked = TRUE]]
      BY <2>1, <2>2
    <3> QED BY <3>2, <3>3
  <2> QED BY <2>1, <2>3
<1>2. LinkOK' /\ FramesOK'
  <2>1. CASE link' = Gone
    BY <1>0, <2>1, CutBase
  <2>2. CASE TakesAndAnswers(p, <<>>)
    BY <1>0, <2>2, TakenBase
  <2>3. ASSUME NEW f, TakesAndAnswers(p, <<f>>)
        PROVE  LinkOK' /\ FramesOK'
    <3>1. link.to[p] # <<>> /\ <<f>> # <<>> /\ <<f>>[1] = f
      BY <1>0, FirstIs
    <3> DEFINE answer == <<f>>
    <3>2. answer # <<>> /\ answer[1] = f /\ TakesAndAnswers(p, answer)
      BY <2>3, <3>1
    <3> HIDE DEF answer
    <3>3. /\ LinkOK' /\ Messages(p)' \subseteq Messages(p)
          /\ Messages(Other(p))' \subseteq Messages(Other(p)) \cup {Fresh(answer[1])}
      BY <1>0, <3>1, <3>2, TakesIs
    <3>4. \A q \in End : \A n \in Messages(q)' : n \in Messages(q) \/ n = Fresh(f)
      BY <3>2, <3>3, Ends
    <3>5. topic # "alive" /\ topic # "acks"
      BY <1>0
    <3> QED BY <1>0, <3>3, <3>4, <3>5, FramesKeep
  <2>4. \/ link' = Gone \/ TakesAndAnswers(p, <<>>)
        \/ TakesAndAnswers(p, <<EncodeDisconnection("true", "true")>>)
    BY DEF OnDisconnection
  <2> QED BY <2>1, <2>2, <2>3, <2>4
<1> QED BY <1>0, <1>1, <1>2 DEF BaseInv, ControlTypeOK, LinkOK, SaidOK

LEMMA PlainBase ==
  ASSUME BaseInv, \/ Cut \/ UNCHANGED controlVars
                  \/ \E p \in End : Crash(p)
  PROVE  BaseInv'
<1>1. CASE Cut
  <2>1. LinkOK' /\ FramesOK'
    BY <1>1, CutBase DEF Cut
  <2> QED BY <1>1, <2>1 DEF Cut, BaseInv, ControlTypeOK, LinkOK, SaidOK
<1>2. CASE UNCHANGED controlVars
  BY <1>2 DEF controlVars, BaseInv, ControlTypeOK, LinkOK, FramesOK, Messages, SaidOK
<1>3. ASSUME NEW p \in End, Crash(p)
      PROVE  BaseInv'
  <2>1. alive' \in [End -> BOOLEAN]
    BY <1>3 DEF Crash, BaseInv, ControlTypeOK
  <2> QED BY <1>3, <2>1 DEF Crash, BaseInv, ControlTypeOK, LinkOK, FramesOK, Messages, SaidOK
<1> QED BY <1>1, <1>2, <1>3

-----------------------------------------------------------------------------
(* Acknowledgements.                                                          *)

IsChunk(f, id, last) ==
  \E kind \in Kinds : f = DataPayload(id, kind, last, IF last THEN 1 ELSE 0, kind)
HasChunk(f, id) == \E last \in BOOLEAN : IsChunk(f, id, last)

LEMMA ChunkIs ==
  ASSUME NEW f, NEW id, NEW last \in BOOLEAN, IsChunk(f, id, last)
  PROVE  /\ DecodePayload(f) # Refused /\ DecodePayload(f).packet = "data"
         /\ \E kind \in Kinds :
              /\ DecodePayload(f).header = {[id |-> id, kind |-> kind, total |-> "known"]}
              /\ DecodePayload(f).chunk =
                   {[last |-> last, offset |-> IF last THEN 1 ELSE 0, body |-> kind]}
         /\ \A other, l : IsChunk(f, other, l) => other = id
         /\ \A l \in BOOLEAN : IsChunk(f, id, l) => l = last
<1>1. PICK kind \in Kinds : f = DataPayload(id, kind, last, IF last THEN 1 ELSE 0, kind)
  BY DEF IsChunk
<1> DEFINE b == [packet |-> "data", header |-> {[id |-> id, kind |-> kind, total |-> "known"]},
               chunk |-> {[last |-> last, offset |-> IF last THEN 1 ELSE 0, body |-> kind]}]
<1>2. DecodePayload(f) = b
  BY <1>1, DataIs
<1>3. b # Refused
  <2>1. "packet" \in DOMAIN b
    OBVIOUS
  <2> QED BY <2>1, RefusedHas
<1>4. ASSUME NEW other, NEW l, IsChunk(f, other, l)
      PROVE  other = id /\ (l \in BOOLEAN => l = last)
  <2>1. PICK k2 \in Kinds : f = DataPayload(other, k2, l, IF l THEN 1 ELSE 0, k2)
    BY <1>4 DEF IsChunk
  <2>2. DecodePayload(f) = [packet |-> "data", header |-> {[id |-> other, kind |-> k2, total |-> "known"]},
               chunk |-> {[last |-> l, offset |-> IF l THEN 1 ELSE 0, body |-> k2]}]
    BY <2>1, DataIs
  <2>3. {[id |-> other, kind |-> k2, total |-> "known"]} = {[id |-> id, kind |-> kind, total |-> "known"]}
    BY <1>2, <2>2
  <2>4. [id |-> other, kind |-> k2, total |-> "known"] = [id |-> id, kind |-> kind, total |-> "known"]
    BY <2>3
  <2>5. {[last |-> l, offset |-> IF l THEN 1 ELSE 0, body |-> k2]}
          = {[last |-> last, offset |-> IF last THEN 1 ELSE 0, body |-> kind]}
    BY <1>2, <2>2
  <2>6. [last |-> l, offset |-> IF l THEN 1 ELSE 0, body |-> k2]
          = [last |-> last, offset |-> IF last THEN 1 ELSE 0, body |-> kind]
    BY <2>5
  <2>7. other = id
    BY <2>4
  <2>8. l = last
    BY <2>6
  <2> QED BY <2>7, <2>8
<1> QED BY <1>2, <1>3, <1>4

LEMMA AckIsNoChunk ==
  ASSUME NEW id
  PROVE  /\ \A other, last : ~IsChunk(EncodePayloadAck(id), other, last)
         /\ \A other : EncodePayloadAck(id) = EncodePayloadAck(other) => other = id
         /\ DecodePayloadAck(EncodePayloadAck(id)) = {id}
<1> DEFINE b == [packet |-> "ack", header |-> {[id |-> id, kind |-> "file", total |-> "indeterminate"]},
               chunk |-> {}]
           f == EncodePayloadAck(id)
<1>1. DecodePayload(f) = b
  BY AckIs
<1>2. \A other, last : ~IsChunk(f, other, last)
  <2> SUFFICES ASSUME NEW other, NEW last, NEW kind, f = DataPayload(other, kind, last, IF last THEN 1 ELSE 0, kind)
               PROVE  FALSE
    BY DEF IsChunk
  <2>1. DecodePayload(f).packet = "data"
    BY DataIs
  <2> QED BY <1>1, <2>1
<1>3. ASSUME NEW other, f = EncodePayloadAck(other)
      PROVE  other = id
  <2>1. b = [packet |-> "ack", header |-> {[id |-> other, kind |-> "file", total |-> "indeterminate"]},
               chunk |-> {}]
    BY <1>1, <1>3, AckIs
  <2>2. {[id |-> other, kind |-> "file", total |-> "indeterminate"]}
          = {[id |-> id, kind |-> "file", total |-> "indeterminate"]}
    BY <2>1
  <2>3. [id |-> other, kind |-> "file", total |-> "indeterminate"]
          = [id |-> id, kind |-> "file", total |-> "indeterminate"]
    BY <2>2
  <2> QED BY <2>3
<1>4. DecodePayloadAck(f) = {id}
  <2>1. "packet" \in DOMAIN b
    OBVIOUS
  <2>2. b # Refused
    BY <2>1, RefusedHas
  <2>3. {h.id : h \in b.header} = {id}
    OBVIOUS
  <2>4. b.packet = "ack" /\ b.chunk = {} /\ \E h \in b.header : h.total = "indeterminate"
    OBVIOUS
  <2> HIDE DEF b, f
  <2> QED BY <1>1, <2>2, <2>3, <2>4 DEF DecodePayloadAck
<1> QED BY <1>2, <1>3, <1>4

LEMMA ChunkOrAck ==
  ASSUME NEW f \in ChunkFrames \cup AckFrames
  PROVE  \/ \E id \in PayloadIds : HasChunk(f, id)
         \/ \E id \in PayloadIds : f = EncodePayloadAck(id)
BY DEF ChunkFrames, AckFrames, HasChunk, IsChunk

(* The chunks of p's payload that have not arrived.                           *)
InFlight(p, id) == \E m \in Messages(Other(p)) : HasChunk(m.frame, id)

AckInv ==
  /\ BaseInv
  /\ topic = "acks" =>
       \A p \in End : \A id \in PayloadIds :
         /\ InFlight(p, id) => Uses(p, id)
         /\ (\E m \in Messages(p) : m.frame = EncodePayloadAck(id))
              => Uses(p, id) /\ ~InFlight(p, id)
         /\ id \in DOMAIN ledger[p] /\ ledger[p][id].acked
              => Uses(p, id) /\ ~InFlight(p, id)
  /\ topic = "acks" =>
       \A p \in End : \A id \in PayloadIds : \A k, l \in DOMAIN link.to[p] :
         k < l /\ IsChunk(link.to[p][k].frame, id, TRUE) => ~HasChunk(link.to[p][l].frame, id)
  /\ topic # "acks" => \A p \in End : ledger[p] = <<>>

(* Behind every chunk and every acknowledgement, on its way or marked, is what *)
(* its sender registered; what was sent arrives.                              *)
SaidAs(p, id, kind) == \E k \in DOMAIN said[p] : said[p][k] = <<id, kind>>
KindInFlight(p, id, kind) ==
  \E m \in Messages(Other(p)) : \E last \in BOOLEAN :
     m.frame = DataPayload(id, kind, last, IF last THEN 1 ELSE 0, kind)
AckComes(p, id) == \E m \in Messages(p) : m.frame = EncodePayloadAck(id)
FirstInFlight(p, id) == \E m \in Messages(Other(p)) : IsChunk(m.frame, id, FALSE)

FileInv ==
  topic = "acks" => \A p \in End : \A id \in PayloadIds :
    /\ \A kind \in Kinds : KindInFlight(p, id, kind) => SaidAs(p, id, kind)
    /\ AckComes(p, id) => SaidAs(p, id, "file")
    /\ id \in DOMAIN ledger[p] /\ ledger[p][id].acked => SaidAs(p, id, "file")
    /\ Uses(p, id) => id \in DOMAIN ledger[Other(p)] \/ FirstInFlight(p, id)

(* A chunk is told from an acknowledgement and from other payloads.           *)
LEMMA UnderWayIs ==
  ASSUME AckInv, topic = "acks", NEW p \in End, NEW id \in PayloadIds
  PROVE  UnderWay(p, id) => InFlight(Other(p), id)
<1> SUFFICES ASSUME NEW k \in DOMAIN link.to[p],
                    DecodePayload(link.to[p][k].frame).packet = "data",
                    NEW h \in DecodePayload(link.to[p][k].frame).header, h.id = id
             PROVE  InFlight(Other(p), id)
  BY DEF UnderWay
<1> DEFINE m == link.to[p][k]
           f == m.frame
<1>1. m \in Messages(p) /\ f \in ChunkFrames \cup AckFrames /\ Other(Other(p)) = p
  BY Ends DEF Messages, AckInv, BaseInv, FramesOK
<1>2. ASSUME NEW other, f = EncodePayloadAck(other)
      PROVE  FALSE
  BY <1>2, AckIs
<1>3. ASSUME NEW other, NEW last \in BOOLEAN, IsChunk(f, other, last)
      PROVE  InFlight(Other(p), id)
  <2>1. PICK kind \in Kinds : DecodePayload(f).header = {[id |-> other, kind |-> kind, total |-> "known"]}
    BY <1>3, ChunkIs
  <2> HIDE DEF m
  <2>2. h = [id |-> other, kind |-> kind, total |-> "known"]
    BY <2>1 DEF m
  <2>3. other = id
    BY <2>2
  <2> QED BY <1>1, <1>3, <2>3 DEF InFlight, HasChunk
<1> HIDE DEF f
<1> QED BY <1>1, <1>2, <1>3, ChunkOrAck DEF HasChunk

(* What is acknowledged is a FILE that has arrived.                           *)
LEMMA AckedImplied == AckInv /\ FileInv => AckedWasDelivered
<1> SUFFICES ASSUME AckInv, FileInv, topic = "acks", NEW p \in End, NEW id \in PayloadIds,
                    Acknowledged(p, id)
             PROVE  /\ SaidAs(p, id, "file") /\ id \in DOMAIN ledger[Other(p)]
                    /\ ~UnderWay(Other(p), id)
  BY DEF AckedWasDelivered, SaidAs
<1>0. Other(p) \in End /\ Other(Other(p)) = p
  BY Ends
<1>1. (id \in DOMAIN ledger[p] /\ ledger[p][id].acked) \/ AckComes(p, id)
  <2> SUFFICES ASSUME NEW k \in DOMAIN link.to[p], id \in DecodePayloadAck(link.to[p][k].frame)
               PROVE  AckComes(p, id)
    BY DEF Acknowledged
  <2> DEFINE m == link.to[p][k]
             f == m.frame
  <2>1. m \in Messages(p) /\ f \in ChunkFrames \cup AckFrames
    BY DEF Messages, AckInv, BaseInv, FramesOK
  <2>2. ASSUME NEW other, HasChunk(f, other)
        PROVE  FALSE
    <3>1. DecodePayload(f).packet = "data"
      BY <2>2, ChunkIs DEF HasChunk
    <3> QED BY <3>1 DEF DecodePayloadAck
  <2> HIDE DEF f
  <2>3. PICK other \in PayloadIds : f = EncodePayloadAck(other)
    BY <2>1, <2>2, ChunkOrAck
  <2>4. other = id
    BY <2>3, AckIsNoChunk DEF f
  <2> QED BY <2>1, <2>3, <2>4 DEF AckComes, f
<1>2. SaidAs(p, id, "file") /\ Uses(p, id) /\ ~InFlight(p, id)
  BY <1>1 DEF AckInv, FileInv, AckComes
<1>3. ~FirstInFlight(p, id)
  BY <1>2 DEF FirstInFlight, InFlight, HasChunk
<1> QED BY <1>0, <1>2, <1>3, UnderWayIs DEF FileInv

LEMMA UsesKeep ==
  ASSUME SaidOK, NEW q \in End, said' = said \/ \E p \in End : \E what : Says(p, what)
  PROVE  \A id : Uses(q, id) => Uses(q, id)'
<1>1. \A k \in DOMAIN said[q] : k \in DOMAIN said'[q] /\ said'[q][k] = said[q][k]
  BY SaysIs
<1> QED BY <1>1 DEF Uses

(* Marking, registering, and what they leave.                                 *)
WithEntry(p, id, e) ==
  [ledger EXCEPT ![p] = [i \in DOMAIN @ \cup {id} |-> IF i = id THEN e ELSE @[i]]]

LEMMA Registered ==
  ASSUME NEW p \in End, ledger \in [End -> Ledger], NEW id \in PayloadIds, NEW e \in Entry,
         ledger' = WithEntry(p, id, e)
  PROVE  /\ ledger' \in [End -> Ledger]
         /\ ledger'[Other(p)] = ledger[Other(p)]
         /\ DOMAIN ledger'[p] = DOMAIN ledger[p] \cup {id}
         /\ \A i \in DOMAIN ledger'[p] :
              \/ i = id /\ ledger'[p][i] = e
              \/ i \in DOMAIN ledger[p] /\ ledger'[p][i] = ledger[p][i]
<1> DEFINE l == ledger[p]
           new == [i \in DOMAIN l \cup {id} |-> IF i = id THEN e ELSE l[i]]
<1>1. ledger' = [ledger EXCEPT ![p] = new]
  BY DEF WithEntry
<1>2. PICK ids \in SUBSET PayloadIds : l \in [ids -> Entry]
  BY DEF Ledger
<1> HIDE DEF l
<1>3. new \in [ids \cup {id} -> Entry]
  BY <1>2
<1>4. new \in Ledger
  <2> HIDE DEF new
  <2> QED BY <1>3 DEF Ledger
<1>5. /\ DOMAIN new = DOMAIN l \cup {id}
      /\ \A i \in DOMAIN new : (i = id /\ new[i] = e) \/ (i \in DOMAIN l /\ new[i] = l[i])
  BY <1>2
<1> HIDE DEF new
<1> QED BY <1>1, <1>4, <1>5, Ends DEF l

LEMMA Marked ==
  ASSUME NEW p \in End, ledger \in [End -> Ledger], NEW id, Marks(p, id),
         ledger' = [ledger EXCEPT ![p][id].acked = TRUE]
  PROVE  /\ ledger' \in [End -> Ledger]
         /\ ledger'[Other(p)] = ledger[Other(p)]
         /\ DOMAIN ledger'[p] = DOMAIN ledger[p]
         /\ \A i \in DOMAIN ledger'[p] :
              i \in DOMAIN ledger[p] /\ (i = id \/ ledger'[p][i] = ledger[p][i])
<1> DEFINE l == ledger[p]
           e == l[id]
           f == [e EXCEPT !.acked = TRUE]
           new == [l EXCEPT ![id] = f]
<1>1. ledger' = [ledger EXCEPT ![p] = new]
  OBVIOUS
<1>2. PICK ids \in SUBSET PayloadIds : l \in [ids -> Entry]
  BY DEF Ledger
<1>3. id \in DOMAIN l
  BY DEF Marks
<1> HIDE DEF l
<1>4. e \in Entry
  BY <1>2, <1>3
<1> HIDE DEF e
<1>5. f \in Entry
  BY <1>4 DEF Entry
<1> HIDE DEF f
<1>6. /\ new \in [ids -> Entry] /\ DOMAIN new = DOMAIN l
      /\ \A i \in DOMAIN new : i \in DOMAIN l /\ (i = id \/ new[i] = l[i])
  BY <1>2, <1>3, <1>5
<1>7. new \in Ledger
  <2> HIDE DEF new
  <2> QED BY <1>6 DEF Ledger
<1> HIDE DEF new
<1>8. ledger'[p] = new /\ ledger' \in [End -> Ledger] /\ ledger'[Other(p)] = ledger[Other(p)]
  BY <1>1, <1>7, Ends
<1> QED BY <1>6, <1>8 DEF l

LEMMA PayloadSent ==
  ASSUME AckInv, NEW p \in End, NEW id \in PayloadIds, NEW kind \in Kinds, SendPayload(p, id, kind)
  PROVE  /\ AckInv'
         /\ Messages(p)' = Messages(p)
         /\ Messages(Other(p))' = Messages(Other(p)) \cup
              {Fresh(DataPayload(id, kind, FALSE, 0, kind)), Fresh(DataPayload(id, kind, TRUE, 1, kind))}
         /\ ledger'[Other(p)] = ledger[Other(p)] /\ DOMAIN ledger[p] \subseteq DOMAIN ledger'[p]
         /\ \A i \in DOMAIN ledger'[p] :
              ledger'[p][i].acked => i \in DOMAIN ledger[p] /\ ledger[p][i].acked
<1> DEFINE d1 == Fresh(DataPayload(id, kind, FALSE, 0, kind))
           d2 == Fresh(DataPayload(id, kind, TRUE, 1, kind))
           o == Other(p)
           old == link.to[o]
           mid == Append(old, d1)
           q == Append(mid, d2)
           n == Len(old)
<1>0. /\ o \in End /\ o # p /\ Other(o) = p /\ \A r \in End : r = p \/ r = o
      /\ BaseInv /\ LinkOK /\ SaidOK /\ ControlTypeOK
  BY Ends DEF AckInv, BaseInv
<1>1. /\ topic = "acks" /\ ~Uses(p, id)
      /\ link' = [link EXCEPT !.to[o] = q]
      /\ Says(p, <<id, kind>>)
      /\ UNCHANGED <<topic, foreign, alive, tracker, pairing, leaving>>
      /\ ledger' = [ledger EXCEPT ![p] =
          [i \in DOMAIN @ \cup {id} |-> IF i = id THEN [direction |-> "outgoing", acked |-> FALSE]
                                        ELSE @[i]]]
  BY DEF SendPayload, Uses, Queue, Fresh
<1>2. /\ IsSequence(q) /\ n \in Nat /\ DOMAIN old = 1..n /\ DOMAIN q = 1..(n + 2)
      /\ \A i \in 1..n : q[i] = old[i]
      /\ q[n + 1] = d1 /\ q[n + 2] = d2
      /\ {q[i] : i \in DOMAIN q} = {old[i] : i \in DOMAIN old} \cup {d1, d2}
  <2>1. IsSequence(old)
    BY <1>0 DEF LinkOK
  <2> HIDE DEF old, d1, d2
  <2>2. /\ IsSequence(mid) /\ n \in Nat /\ DOMAIN old = 1..n
        /\ Len(mid) = n + 1 /\ DOMAIN mid = 1..(n + 1)
        /\ \A i \in 1..n : mid[i] = old[i]
        /\ mid[n + 1] = d1
        /\ {mid[i] : i \in DOMAIN mid} = {old[i] : i \in DOMAIN old} \cup {d1}
    BY <2>1, AppendOne
  <2> HIDE DEF mid, n
  <2>3. /\ IsSequence(q) /\ DOMAIN q = 1..(Len(mid) + 1)
        /\ \A i \in 1..Len(mid) : q[i] = mid[i]
        /\ q[Len(mid) + 1] = d2
        /\ {q[i] : i \in DOMAIN q} = {mid[i] : i \in DOMAIN mid} \cup {d2}
    BY <2>2, AppendOne
  <2> HIDE DEF q
  <2>4. Len(mid) = n + 1 /\ n \in Nat
    BY <2>2
  <2>5. DOMAIN q = 1..(n + 2) /\ q[n + 2] = d2
    BY <2>3, <2>4
  <2>6. q[n + 1] = d1 /\ \A i \in 1..n : q[i] = old[i]
    BY <2>2, <2>3, <2>4
  <2> QED BY <2>2, <2>3, <2>5, <2>6
<1> HIDE DEF q, mid, n
<1>3. /\ link' = [to |-> [r \in End |-> IF r = o THEN q ELSE link.to[r]], cut |-> link.cut]
      /\ link'.to = [r \in End |-> IF r = o THEN q ELSE link.to[r]] /\ link'.cut = link.cut
      /\ link'.to[o] = q /\ link'.to[p] = link.to[p]
  <2>1. link' = [to |-> [r \in End |-> IF r = o THEN q ELSE link.to[r]], cut |-> link.cut]
    BY <1>0, <1>1 DEF LinkOK
  <2> QED BY <1>0, <2>1
<1>4. LinkOK'
  BY <1>0, <1>2, <1>3 DEF LinkOK
<1>5. Messages(o)' = Messages(o) \cup {d1, d2} /\ Messages(p)' = Messages(p)
  <2>1. Messages(o)' = {q[i] : i \in DOMAIN q} /\ Messages(o) = {old[i] : i \in DOMAIN old}
        /\ Messages(p)' = Messages(p)
    BY <1>3 DEF Messages
  <2> HIDE DEF d1, d2, old
  <2> QED BY <1>2, <2>1
<1>6. /\ IsChunk(d1.frame, id, FALSE) /\ IsChunk(d2.frame, id, TRUE)
      /\ d1.frame \in ChunkFrames /\ d2.frame \in ChunkFrames
  <2> DEFINE f1 == DataPayload(id, kind, FALSE, 0, kind)
             f2 == DataPayload(id, kind, TRUE, 1, kind)
  <2>1. d1.frame = f1 /\ d2.frame = f2
    BY FreshIs
  <2>2. IsChunk(f1, id, FALSE) /\ IsChunk(f2, id, TRUE)
    BY DEF IsChunk
  <2>3. f1 \in ChunkFrames /\ f2 \in ChunkFrames
    <3>1. \A last \in BOOLEAN : DataPayload(id, kind, last, IF last THEN 1 ELSE 0, kind) \in ChunkFrames
      BY DEF ChunkFrames
    <3>2. f1 = DataPayload(id, kind, FALSE, IF FALSE THEN 1 ELSE 0, kind)
          /\ f2 = DataPayload(id, kind, TRUE, IF TRUE THEN 1 ELSE 0, kind)
      OBVIOUS
    <3> QED BY <3>1, <3>2
  <2> QED BY <2>1, <2>2, <2>3
<1>7. FramesOK'
  <2>1. \A f \in ChunkFrames : f \in ChunkFrames \cup AckFrames
    OBVIOUS
  <2>2. d1 = Fresh(d1.frame) /\ d2 = Fresh(d2.frame)
    BY FreshIs
  <2> HIDE DEF d1, d2
  <2> QED BY <1>0, <1>1, <1>5, <1>6, <2>1, <2>2, FramesKeep
<1>8. SaidOK' /\ Uses(p, id)' /\ \A r \in End : \A i : Uses(r, i) => Uses(r, i)'
  <2>1. <<id, kind>>[1] = id
    OBVIOUS
  <2> QED BY <1>0, <1>1, <2>1, SaysIs, UsesKeep DEF Uses
<1>9. /\ ledger' \in [End -> Ledger] /\ ledger'[o] = ledger[o]
      /\ DOMAIN ledger[p] \subseteq DOMAIN ledger'[p]
      /\ \A i \in DOMAIN ledger'[p] :
              \/ i = id /\ ~ledger'[p][i].acked
              \/ i \in DOMAIN ledger[p] /\ ledger'[p][i] = ledger[p][i]
  <2> DEFINE e == [direction |-> "outgoing", acked |-> FALSE]
  <2>1. e \in Entry /\ ~e.acked
    BY DEF Entry
  <2> HIDE DEF e
  <2>2. ledger' = WithEntry(p, id, e)
    BY <1>1 DEF e, WithEntry
  <2>3. ledger \in [End -> Ledger]
    BY <1>0 DEF ControlTypeOK
  <2>4. /\ ledger' \in [End -> Ledger] /\ ledger'[Other(p)] = ledger[Other(p)]
        /\ DOMAIN ledger[p] \subseteq DOMAIN ledger'[p]
        /\ \A i \in DOMAIN ledger'[p] :
              \/ i = id /\ ledger'[p][i] = e
              \/ i \in DOMAIN ledger[p] /\ ledger'[p][i] = ledger[p][i]
    BY <2>1, <2>2, <2>3, Registered
  <2> QED BY <2>1, <2>4
<1>10. BaseInv'
  BY <1>0, <1>1, <1>3, <1>4, <1>7, <1>8, <1>9 DEF BaseInv, ControlTypeOK, LinkOK
<1>11. ASSUME NEW r \in End, NEW i
       PROVE  InFlight(r, i)' => InFlight(r, i) \/ (r = p /\ i = id)
  <2>1. \A other : HasChunk(d1.frame, other) \/ HasChunk(d2.frame, other) => other = id
    BY <1>6, ChunkIs DEF HasChunk
  <2> HIDE DEF d1, d2
  <2> QED BY <1>0, <1>5, <2>1 DEF InFlight
<1>12. ASSUME NEW r \in End, NEW i \in PayloadIds
       PROVE  /\ InFlight(r, i)' => Uses(r, i)'
              /\ (\E m \in Messages(r)' : m.frame = EncodePayloadAck(i)) => Uses(r, i)' /\ ~InFlight(r, i)'
              /\ i \in DOMAIN ledger'[r] /\ ledger'[r][i].acked => Uses(r, i)' /\ ~InFlight(r, i)'
  <2>1. InFlight(r, i) => Uses(r, i)
    BY <1>1 DEF AckInv
  <2>2. Uses(r, i) => ~(r = p /\ i = id)
    BY <1>1
  <2>3. (\E m \in Messages(r)' : m.frame = EncodePayloadAck(i)) => \E m \in Messages(r) : m.frame = EncodePayloadAck(i)
    <3>1. \A other : ~IsChunk(EncodePayloadAck(i), other, FALSE) /\ ~IsChunk(EncodePayloadAck(i), other, TRUE)
      BY AckIsNoChunk
    <3> HIDE DEF d1, d2
    <3> QED BY <1>0, <1>5, <1>6, <3>1
  <2>4. (\E m \in Messages(r) : m.frame = EncodePayloadAck(i)) => Uses(r, i) /\ ~InFlight(r, i)
    BY <1>1 DEF AckInv
  <2>5. i \in DOMAIN ledger[r] /\ ledger[r][i].acked => Uses(r, i) /\ ~InFlight(r, i)
    BY <1>1 DEF AckInv
  <2>6. i \in DOMAIN ledger'[r] /\ ledger'[r][i].acked => i \in DOMAIN ledger[r] /\ ledger[r][i].acked
    BY <1>0, <1>9
  <2> QED BY <1>8, <1>11, <2>1, <2>2, <2>3, <2>4, <2>5, <2>6
<1>13. ASSUME NEW r \in End, NEW i \in PayloadIds, NEW k \in DOMAIN link'.to[r], NEW l \in DOMAIN link'.to[r],
              k < l, IsChunk(link'.to[r][k].frame, i, TRUE)
       PROVE  ~HasChunk(link'.to[r][l].frame, i)
  <2>0. \A a, b \in DOMAIN link.to[r] :
          a < b /\ IsChunk(link.to[r][a].frame, i, TRUE) => ~HasChunk(link.to[r][b].frame, i)
    BY <1>1 DEF AckInv
  <2>1. CASE r = p
    BY <1>3, <1>13, <2>0, <2>1
  <2>2. CASE r = o
    <3>1. k \in 1..(n + 2) /\ l \in 1..(n + 2) /\ n \in Nat
      BY <1>2, <1>3, <2>2
    <3>2. CASE l \in 1..n
      <4>1. k \in 1..n /\ link'.to[r][k] = old[k] /\ link'.to[r][l] = old[l]
        BY <1>2, <1>3, <1>13, <2>2, <3>1, <3>2
      <4>2. k \in DOMAIN old /\ l \in DOMAIN old
        BY <1>2, <3>2, <4>1
      <4> QED BY <1>13, <2>0, <2>2, <4>1, <4>2
    <3>3. CASE l \in {n + 1, n + 2}
      <4> SUFFICES ASSUME HasChunk(link'.to[r][l].frame, i) PROVE FALSE
        OBVIOUS
      <4>1. link'.to[r][l] = d1 \/ link'.to[r][l] = d2
        BY <1>2, <1>3, <2>2, <3>3
      <4>2. i = id
        <5>1. \A other : HasChunk(d1.frame, other) \/ HasChunk(d2.frame, other) => other = id
          BY <1>6, ChunkIs DEF HasChunk
        <5> HIDE DEF d1, d2
        <5> QED BY <4>1, <5>1
      <4>3. k = n + 1 \/ k \in 1..n
        BY <3>1, <3>3, <1>13
      <4>4. CASE k = n + 1
        <5>1. link'.to[r][k] = d1
          BY <1>2, <1>3, <2>2, <4>4
        <5> HIDE DEF d1
        <5> QED BY <1>6, <1>13, <4>2, <5>1, ChunkIs
      <4>5. CASE k \in 1..n
        <5>1. link'.to[r][k] = old[k] /\ old[k] \in Messages(o)
          BY <1>2, <1>3, <2>2, <4>5 DEF Messages
        <5>2. InFlight(p, id)
          BY <1>13, <4>2, <5>1 DEF InFlight, HasChunk
        <5> QED BY <1>1, <5>2 DEF AckInv
      <4> QED BY <4>3, <4>4, <4>5
    <3> QED BY <3>1, <3>2, <3>3
  <2> QED BY <1>0, <2>1, <2>2
<1>14. AckInv'
  BY <1>1, <1>10, <1>12, <1>13 DEF AckInv
<1> QED BY <1>5, <1>9, <1>14

(* What an arriving chunk or acknowledgement leaves on its way.               *)
LEMMA TakenAcks ==
  ASSUME AckInv, topic = "acks", UNCHANGED topic, NEW p \in End, Arrives(p),
         NEW answer, TakesAndAnswers(p, answer),
         answer # <<>> => \E id \in PayloadIds : answer[1] = EncodePayloadAck(id)
  PROVE  /\ LinkOK' /\ FramesOK'
         /\ Messages(p) \subseteq Messages(p)' \cup {link.to[p][1]}
         /\ Messages(Other(p)) \subseteq Messages(Other(p))'
         /\ \A r \in End : \A i : InFlight(r, i)' => InFlight(r, i)
         /\ \A i : IsChunk(First(p), i, TRUE) /\ i \in PayloadIds => ~InFlight(Other(p), i)'
         /\ \A r \in End : \A m \in Messages(r)' :
              m \in Messages(r) \/ (r = Other(p) /\ answer # <<>> /\ m = Fresh(answer[1]))
         /\ \A r \in End : \A i \in PayloadIds : \A k, l \in DOMAIN link'.to[r] :
              k < l /\ IsChunk(link'.to[r][k].frame, i, TRUE) => ~HasChunk(link'.to[r][l].frame, i)
<1> DEFINE o == Other(p)
           s == link.to[p]
           old == link.to[o]
<1>0. /\ o \in End /\ o # p /\ Other(o) = p /\ \A r \in End : r = p \/ r = o
      /\ BaseInv /\ LinkOK /\ s # <<>> /\ IsSequence(s) /\ IsSequence(old)
  BY Ends, FirstIs DEF AckInv, BaseInv, LinkOK
<1>1. /\ LinkOK'
      /\ link'.to[p] = Tail(s)
      /\ link'.to[o] = IF answer = <<>> \/ link.cut THEN old ELSE Append(old, Fresh(answer[1]))
      /\ Messages(p)' \subseteq Messages(p)
      /\ Messages(p) \subseteq Messages(p)' \cup {link.to[p][1]}
      /\ Messages(o) \subseteq Messages(o)'
      /\ Messages(o)' \subseteq Messages(o) \cup (IF answer = <<>> THEN {} ELSE {Fresh(answer[1])})
  BY <1>0, TakesIs
<1>2. \A r \in End : \A m \in Messages(r)' :
         m \in Messages(r) \/ (r = o /\ answer # <<>> /\ m = Fresh(answer[1]))
  BY <1>0, <1>1
<1>3. FramesOK'
  <2>1. answer # <<>> => answer[1] \in ChunkFrames \cup AckFrames
    BY DEF AckFrames
  <2>2. topic # "alive"
    OBVIOUS
  <2> QED BY <1>0, <1>2, <2>1, <2>2, FramesKeep
<1>4. ASSUME answer # <<>>, NEW i
      PROVE  ~HasChunk(Fresh(answer[1]).frame, i)
  <2>1. PICK id \in PayloadIds : answer[1] = EncodePayloadAck(id)
    BY <1>4
  <2> QED BY <2>1, AckIsNoChunk, FreshIs DEF HasChunk
<1>5. ASSUME NEW r \in End, NEW i, InFlight(r, i)'
      PROVE  InFlight(r, i)
  <2>1. PICK m \in Messages(Other(r))' : HasChunk(m.frame, i)
    BY <1>5 DEF InFlight
  <2>2. m \in Messages(Other(r))
    BY <1>2, <1>4, <2>1, Ends
  <2> QED BY <2>1, <2>2 DEF InFlight
<1>6. /\ Len(s) \in Nat \ {0} /\ DOMAIN s = 1..Len(s)
      /\ DOMAIN Tail(s) = 1..(Len(s) - 1)
      /\ \A k \in 1..(Len(s) - 1) : Tail(s)[k] = s[k + 1]
  <2> HIDE DEF s
  <2> QED BY <1>0, TailOne
<1>7. \A r \in End : \A i \in PayloadIds : \A k, l \in DOMAIN link.to[r] :
         k < l /\ IsChunk(link.to[r][k].frame, i, TRUE) => ~HasChunk(link.to[r][l].frame, i)
  BY DEF AckInv
<1>8. ASSUME NEW i \in PayloadIds, IsChunk(First(p), i, TRUE), InFlight(o, i)'
      PROVE  FALSE
  <2>1. PICK k \in DOMAIN Tail(s) : HasChunk(Tail(s)[k].frame, i)
    BY <1>0, <1>1, <1>8 DEF InFlight, Messages
  <2>2. k + 1 \in DOMAIN s /\ 1 \in DOMAIN s /\ 1 < k + 1 /\ Tail(s)[k] = s[k + 1]
    <3> HIDE DEF s
    <3> QED BY <1>6, <2>1
  <2>3. First(p) = s[1].frame
    BY DEF First
  <2> QED BY <1>7, <1>8, <2>1, <2>2, <2>3
<1>9. ASSUME NEW r \in End, NEW i \in PayloadIds, NEW k \in DOMAIN link'.to[r], NEW l \in DOMAIN link'.to[r],
             k < l, IsChunk(link'.to[r][k].frame, i, TRUE)
      PROVE  ~HasChunk(link'.to[r][l].frame, i)
  <2>1. CASE r = p
    <3>1. k \in DOMAIN Tail(s) /\ l \in DOMAIN Tail(s) /\ link'.to[r] = Tail(s)
      BY <1>1, <2>1
    <3>2. k + 1 \in DOMAIN s /\ l + 1 \in DOMAIN s /\ k + 1 < l + 1
          /\ Tail(s)[k] = s[k + 1] /\ Tail(s)[l] = s[l + 1]
      <4> HIDE DEF s
      <4> QED BY <1>6, <1>9, <3>1
    <3> QED BY <1>7, <1>9, <2>1, <3>1, <3>2
  <2>2. CASE r = o /\ (answer = <<>> \/ link.cut)
    <3>1. link'.to[r] = link.to[r]
      BY <1>1, <2>2
    <3> QED BY <1>7, <1>9, <3>1
  <2>3. CASE r = o /\ ~(answer = <<>> \/ link.cut)
    <3> DEFINE e == Fresh(answer[1])
               q == Append(old, e)
    <3>1. link'.to[r] = q
      BY <1>1, <2>3
    <3>2. /\ Len(old) \in Nat /\ DOMAIN old = 1..Len(old) /\ DOMAIN q = 1..(Len(old) + 1)
          /\ \A x \in 1..Len(old) : q[x] = old[x]
          /\ q[Len(old) + 1] = e
      <4> HIDE DEF old, e
      <4> QED BY <1>0, AppendOne
    <3> HIDE DEF q, e
    <3>3. CASE l = Len(old) + 1
      BY <1>4, <2>3, <3>1, <3>2, <3>3 DEF e
    <3>4. CASE l # Len(old) + 1
      <4>1. k \in DOMAIN old /\ l \in DOMAIN old /\ q[k] = old[k] /\ q[l] = old[l]
        <5> HIDE DEF old
        <5>1. k \in 1..(Len(old) + 1) /\ l \in 1..(Len(old) + 1)
          BY <3>1, <3>2
        <5>2. k \in 1..Len(old) /\ l \in 1..Len(old)
          BY <1>9, <3>2, <3>4, <5>1
        <5> QED BY <3>2, <5>2
      <4>2. link'.to[r][k] = link.to[r][k] /\ link'.to[r][l] = link.to[r][l]
        BY <2>3, <3>1, <4>1
      <4> QED BY <1>7, <1>9, <2>3, <4>1, <4>2
    <3> QED BY <3>3, <3>4
  <2> QED BY <1>0, <2>1, <2>2, <2>3
<1> QED BY <1>1, <1>2, <1>3, <1>5, <1>8, <1>9

LEMMA ChunkTaken ==
  ASSUME AckInv, NEW p \in End, OnChunk(p)
  PROVE  /\ AckInv'
         /\ Messages(p) \subseteq Messages(p)' \cup {link.to[p][1]}
         /\ Messages(Other(p)) \subseteq Messages(Other(p))'
         /\ ledger'[Other(p)] = ledger[Other(p)] /\ DOMAIN ledger[p] \subseteq DOMAIN ledger'[p]
         /\ \A i \in DOMAIN ledger'[p] :
              ledger'[p][i].acked => i \in DOMAIN ledger[p] /\ ledger[p][i].acked
         /\ \E id \in PayloadIds, kind \in Kinds, last \in BOOLEAN :
              /\ First(p) = DataPayload(id, kind, last, IF last THEN 1 ELSE 0, kind)
              /\ ~last => id \in DOMAIN ledger'[p]
              /\ \A r \in End : \A m \in Messages(r)' :
                   \/ m \in Messages(r)
                   \/ r = Other(p) /\ kind = "file" /\ m.frame = EncodePayloadAck(id)
<1> DEFINE o == Other(p)
           f == First(p)
           body == DecodePayload(f)
<1>0. /\ o \in End /\ Other(o) = p /\ \A r \in End : r = p \/ r = o
      /\ BaseInv /\ ControlTypeOK /\ SaidOK /\ LinkOK
  BY Ends DEF AckInv, BaseInv
<1>1. /\ topic = "acks" /\ Arrives(p) /\ body # Refused /\ ClassifyPayload(body) = "data"
      /\ UNCHANGED <<topic, foreign, alive, tracker, pairing, leaving, said>>
  BY DEF OnChunk
<1>2. PICK h \in body.header, c \in body.chunk :
        /\ ledger' = IF c.offset # 0 THEN ledger
                              ELSE [ledger EXCEPT ![p] =
                       [i \in DOMAIN @ \cup {h.id} |->
                           IF i = h.id THEN [direction |-> "incoming", acked |-> FALSE] ELSE @[i]]]
        /\ TakesAndAnswers(p, IF ShouldSendPayloadAck(h.kind, c.last)
                                       THEN <<EncodePayloadAck(h.id)>> ELSE <<>>)
  BY DEF OnChunk
<1>3. f \in ChunkFrames \cup AckFrames /\ [frame |-> f, age |-> 0] = Fresh(f)
      /\ \E m \in Messages(p) : m.frame = f
  BY <1>0, <1>1, FirstIs DEF BaseInv, FramesOK, Fresh
<1>4. PICK id \in PayloadIds : HasChunk(f, id)
  <2>1. ASSUME NEW id, f = EncodePayloadAck(id)
        PROVE  FALSE
    <3>1. body.packet = "ack"
      BY <2>1, AckIs
    <3> QED BY <1>1, <3>1 DEF ClassifyPayload
  <2> HIDE DEF f
  <2> QED BY <1>3, <2>1, ChunkOrAck
<1>5. PICK last \in BOOLEAN : IsChunk(f, id, last)
  BY <1>4 DEF HasChunk
<1>6. PICK kind \in Kinds : f = DataPayload(id, kind, last, IF last THEN 1 ELSE 0, kind)
  BY <1>5 DEF IsChunk
<1>7. /\ h.id = id /\ c.last = last /\ h.kind = kind
      /\ c.offset = IF last THEN 1 ELSE 0
  <2>1. /\ body.header = {[id |-> id, kind |-> kind, total |-> "known"]}
        /\ body.chunk = {[last |-> last, offset |-> IF last THEN 1 ELSE 0, body |-> kind]}
    <3> HIDE DEF f
    <3> QED BY <1>6, DataIs
  <2> QED BY <2>1
<1>8. InFlight(o, id)
  BY <1>0, <1>3, <1>4 DEF InFlight
<1> DEFINE answer == IF ShouldSendPayloadAck(h.kind, c.last) THEN <<EncodePayloadAck(id)>> ELSE <<>>
<1>9. TakesAndAnswers(p, answer)
  BY <1>2, <1>7
<1>10. answer # <<>> => last /\ kind = "file" /\ answer[1] = EncodePayloadAck(id)
  BY <1>7 DEF ShouldSendPayloadAck, Kinds
<1>11. /\ ledger' \in [End -> Ledger] /\ ledger'[o] = ledger[o]
       /\ DOMAIN ledger[p] \subseteq DOMAIN ledger'[p] /\ (~last => id \in DOMAIN ledger'[p])
       /\ \A i \in DOMAIN ledger'[p] :
              \/ ~ledger'[p][i].acked
              \/ i \in DOMAIN ledger[p] /\ ledger'[p][i] = ledger[p][i]
  <2> DEFINE e == [direction |-> "incoming", acked |-> FALSE]
  <2>1. e \in Entry /\ ~e.acked
    BY DEF Entry
  <2> HIDE DEF e
  <2>2. (ledger' = ledger /\ last) \/ ledger' = WithEntry(p, id, e)
    BY <1>2, <1>7 DEF e, WithEntry
  <2>3. ledger \in [End -> Ledger]
    BY <1>0 DEF ControlTypeOK
  <2>4. CASE ledger' = ledger /\ last
    BY <2>3, <2>4
  <2>5. CASE ledger' = WithEntry(p, id, e)
    <3>1. /\ ledger' \in [End -> Ledger] /\ ledger'[Other(p)] = ledger[Other(p)]
          /\ DOMAIN ledger'[p] = DOMAIN ledger[p] \cup {id}
          /\ \A i \in DOMAIN ledger'[p] :
              \/ i = id /\ ledger'[p][i] = e
              \/ i \in DOMAIN ledger[p] /\ ledger'[p][i] = ledger[p][i]
      BY <2>1, <2>3, <2>5, Registered
    <3> QED BY <2>1, <3>1
  <2> QED BY <2>2, <2>4, <2>5
<1> HIDE DEF answer, f
<1>12. /\ LinkOK' /\ FramesOK'
       /\ Messages(p) \subseteq Messages(p)' \cup {link.to[p][1]}
       /\ Messages(o) \subseteq Messages(o)'
       /\ \A r \in End : \A i : InFlight(r, i)' => InFlight(r, i)
       /\ IsChunk(f, id, TRUE) => ~InFlight(o, id)'
       /\ \A r \in End : \A m \in Messages(r)' :
              m \in Messages(r) \/ (r = o /\ answer # <<>> /\ m = Fresh(answer[1]))
       /\ \A r \in End : \A i \in PayloadIds : \A k, l \in DOMAIN link'.to[r] :
              k < l /\ IsChunk(link'.to[r][k].frame, i, TRUE) => ~HasChunk(link'.to[r][l].frame, i)
  <2>1. answer # <<>> => \E x \in PayloadIds : answer[1] = EncodePayloadAck(x)
    BY <1>10
  <2> QED BY <1>1, <1>9, <2>1, TakenAcks DEF f
<1>13. BaseInv'
  BY <1>0, <1>1, <1>11, <1>12 DEF BaseInv, ControlTypeOK, LinkOK, SaidOK
<1>14. ASSUME NEW r \in End, NEW i \in PayloadIds
       PROVE  /\ InFlight(r, i)' => Uses(r, i)'
              /\ (\E m \in Messages(r)' : m.frame = EncodePayloadAck(i)) => Uses(r, i)' /\ ~InFlight(r, i)'
              /\ i \in DOMAIN ledger'[r] /\ ledger'[r][i].acked => Uses(r, i)' /\ ~InFlight(r, i)'
  <2>0. Uses(r, i)' <=> Uses(r, i)
    BY <1>1 DEF Uses
  <2>1. InFlight(r, i)' => Uses(r, i)'
    BY <1>1, <1>12, <2>0 DEF AckInv
  <2>2. ASSUME NEW m \in Messages(r)', m.frame = EncodePayloadAck(i)
        PROVE  Uses(r, i)' /\ ~InFlight(r, i)'
    <3>1. CASE m \in Messages(r)
      BY <1>1, <1>12, <2>0, <2>2, <3>1 DEF AckInv
    <3>2. CASE r = o /\ answer # <<>> /\ m = Fresh(answer[1])
      <4>1. EncodePayloadAck(i) = EncodePayloadAck(id) /\ last
        BY <1>10, <2>2, <3>2, FreshIs
      <4>2. i = id
        BY <4>1, AckIsNoChunk
      <4>3. Uses(o, id)
        BY <1>0, <1>1, <1>8 DEF AckInv
      <4> QED BY <1>5, <1>12, <2>0, <3>2, <4>1, <4>2, <4>3
    <3> QED BY <1>12, <3>1, <3>2
  <2>3. i \in DOMAIN ledger'[r] /\ ledger'[r][i].acked => i \in DOMAIN ledger[r] /\ ledger[r][i].acked
    BY <1>0, <1>11
  <2>4. i \in DOMAIN ledger[r] /\ ledger[r][i].acked => Uses(r, i) /\ ~InFlight(r, i)
    BY <1>1 DEF AckInv
  <2> QED BY <1>12, <2>0, <2>1, <2>2, <2>3, <2>4
<1>15. AckInv'
  BY <1>1, <1>12, <1>13, <1>14 DEF AckInv
<1>16. \A r \in End : \A m \in Messages(r)' :
          m \in Messages(r) \/ (r = o /\ kind = "file" /\ m.frame = EncodePayloadAck(id))
  BY <1>10, <1>12, FreshIs
<1> QED BY <1>6, <1>11, <1>12, <1>15, <1>16 DEF f

LEMMA AckTaken ==
  ASSUME AckInv, NEW p \in End, OnAck(p)
  PROVE  /\ AckInv'
         /\ Messages(p) \subseteq Messages(p)' \cup {link.to[p][1]}
         /\ \A r \in End : Messages(r)' \subseteq Messages(r)
         /\ Messages(Other(p)) \subseteq Messages(Other(p))'
         /\ ledger'[Other(p)] = ledger[Other(p)] /\ DOMAIN ledger'[p] = DOMAIN ledger[p]
         /\ \E id \in PayloadIds :
              /\ First(p) = EncodePayloadAck(id)
              /\ \A i \in DOMAIN ledger'[p] : i = id \/ ledger'[p][i] = ledger[p][i]
<1> DEFINE o == Other(p)
           f == First(p)
<1>0. /\ o \in End /\ Other(o) = p /\ \A r \in End : r = p \/ r = o
      /\ BaseInv /\ ControlTypeOK /\ SaidOK /\ LinkOK
  BY Ends DEF AckInv, BaseInv
<1>1. /\ topic = "acks" /\ Arrives(p) /\ TakesAndAnswers(p, <<>>)
      /\ UNCHANGED <<topic, foreign, alive, tracker, pairing, leaving, said>>
  BY DEF OnAck
<1>2. PICK id \in DecodePayloadAck(f) :
          ledger' = IF Marks(p, id) THEN [ledger EXCEPT ![p][id].acked = TRUE] ELSE ledger
  BY DEF OnAck
<1>3. f \in ChunkFrames \cup AckFrames /\ \E m \in Messages(p) : m.frame = f
  BY <1>0, <1>1, FirstIs DEF BaseInv, FramesOK
<1>4. id \in PayloadIds /\ f = EncodePayloadAck(id)
  <2>1. ASSUME NEW other, HasChunk(f, other)
        PROVE  FALSE
    <3>1. DecodePayload(f).packet = "data"
      BY <2>1, ChunkIs DEF HasChunk
    <3> QED BY <1>2, <3>1 DEF DecodePayloadAck
  <2> HIDE DEF f
  <2>2. PICK x \in PayloadIds : f = EncodePayloadAck(x)
    BY <1>3, <2>1, ChunkOrAck
  <2> QED BY <1>2, <2>2, AckIsNoChunk
<1>5. Uses(p, id) /\ ~InFlight(p, id)
  BY <1>1, <1>3, <1>4 DEF AckInv
<1>6. /\ ledger' \in [End -> Ledger] /\ ledger'[o] = ledger[o]
      /\ DOMAIN ledger'[p] = DOMAIN ledger[p]
      /\ \A i \in DOMAIN ledger'[p] :
           i \in DOMAIN ledger[p] /\ (i = id \/ ledger'[p][i] = ledger[p][i])
  <2>1. ledger \in [End -> Ledger]
    BY <1>0 DEF ControlTypeOK
  <2>2. CASE Marks(p, id)
    BY <1>2, <2>1, <2>2, Marked
  <2>3. CASE ~Marks(p, id)
    BY <1>2, <2>1, <2>3
  <2> QED BY <2>2, <2>3
<1>7. /\ LinkOK' /\ FramesOK'
      /\ Messages(p) \subseteq Messages(p)' \cup {link.to[p][1]}
      /\ Messages(o) \subseteq Messages(o)'
      /\ \A r \in End : \A i : InFlight(r, i)' => InFlight(r, i)
      /\ \A r \in End : \A m \in Messages(r)' : m \in Messages(r)
      /\ \A r \in End : \A i \in PayloadIds : \A k, l \in DOMAIN link'.to[r] :
              k < l /\ IsChunk(link'.to[r][k].frame, i, TRUE) => ~HasChunk(link'.to[r][l].frame, i)
  <2> DEFINE answer == <<>>
  <2>1. TakesAndAnswers(p, answer) /\ answer = <<>>
    BY <1>1
  <2> HIDE DEF answer
  <2> QED BY <1>1, <2>1, TakenAcks
<1>8. BaseInv'
  BY <1>0, <1>1, <1>6, <1>7 DEF BaseInv, ControlTypeOK, LinkOK, SaidOK
<1>9. ASSUME NEW r \in End, NEW i \in PayloadIds
      PROVE  /\ InFlight(r, i)' => Uses(r, i)'
             /\ (\E m \in Messages(r)' : m.frame = EncodePayloadAck(i)) => Uses(r, i)' /\ ~InFlight(r, i)'
             /\ i \in DOMAIN ledger'[r] /\ ledger'[r][i].acked => Uses(r, i)' /\ ~InFlight(r, i)'
  <2>0. Uses(r, i)' <=> Uses(r, i)
    BY <1>1 DEF Uses
  <2>1. InFlight(r, i)' => Uses(r, i)'
    BY <1>1, <1>7, <2>0 DEF AckInv
  <2>2. (\E m \in Messages(r)' : m.frame = EncodePayloadAck(i)) => Uses(r, i) /\ ~InFlight(r, i)
    BY <1>1, <1>7 DEF AckInv
  <2>3. i \in DOMAIN ledger'[r] /\ ledger'[r][i].acked => Uses(r, i) /\ ~InFlight(r, i)
    <3>1. i \in DOMAIN ledger[r] /\ ledger[r][i].acked => Uses(r, i) /\ ~InFlight(r, i)
      BY <1>1 DEF AckInv
    <3>2. CASE r = p /\ i = id
      BY <1>5, <3>2
    <3>3. CASE ~(r = p /\ i = id)
      BY <1>0, <1>6, <3>1, <3>3
    <3> QED BY <3>2, <3>3
  <2> QED BY <1>7, <2>0, <2>1, <2>2, <2>3
<1>10. AckInv'
  BY <1>1, <1>7, <1>8, <1>9 DEF AckInv
<1>11. First(p) = EncodePayloadAck(id)
  BY <1>4
<1> QED BY <1>4, <1>6, <1>7, <1>10, <1>11

(* Steps of the other topics leave the acknowledgements alone.                *)
LEMMA OtherSteps ==
  ASSUME BaseInv, [ControlNext]_controlVars
  PROVE  \/ \E p \in End, id \in PayloadIds, kind \in Kinds : SendPayload(p, id, kind)
         \/ \E p \in End : OnChunk(p) \/ OnAck(p)
         \/ BaseInv' /\ topic # "acks" /\ UNCHANGED <<topic, ledger>>
         \/ UNCHANGED controlVars
<1> DEFINE Elsewhere == BaseInv' /\ topic # "acks" /\ UNCHANGED <<topic, ledger>>
<1>1. ASSUME Second PROVE Elsewhere
  BY <1>1, SecondBase DEF Second
<1>2. ASSUME Cut PROVE Elsewhere
  BY <1>2, PlainBase DEF Cut
<1>3. ASSUME ForeignSpeaks PROVE Elsewhere
  BY <1>3, ForeignBase DEF ForeignSpeaks, BaseInv
<1>4. ASSUME ForeignListens PROVE Elsewhere
  BY <1>4, ForeignBase DEF ForeignListens, BaseInv
<1>5. ASSUME NEW p \in End, OnKeepAlive(p)
      PROVE  Elsewhere
  BY <1>5, KeepAliveBase, NoBeatAmongAcks DEF OnKeepAlive
<1>6. ASSUME NEW p \in End, OnBytesPayload(p)
      PROVE  Elsewhere
  BY <1>6, PayloadBase DEF OnBytesPayload
<1>7. ASSUME NEW p \in End, OnDisconnection(p)
      PROVE  Elsewhere
  BY <1>7, DisconnectionBase DEF OnDisconnection
<1>8. ASSUME NEW p \in End, Crash(p)
      PROVE  Elsewhere
  BY <1>8, PlainBase DEF Crash
<1>9. ASSUME NEW p \in End, Begin(p)
      PROVE  Elsewhere
  BY <1>9, BeginBase DEF Begin
<1>10. ASSUME NEW p \in End, Leave(p)
       PROVE  Elsewhere
  BY <1>10, LeaveBase DEF Leave
<1> HIDE DEF Elsewhere
<1>11. ASSUME ControlNext
       PROVE  \/ \E p \in End, id \in PayloadIds, kind \in Kinds : SendPayload(p, id, kind)
              \/ \E p \in End : OnChunk(p) \/ OnAck(p)
              \/ Elsewhere
  <2>1. ASSUME NEW p \in End, Receive(p) \/ Crash(p) \/ Begin(p) \/ Leave(p)
        PROVE  OnChunk(p) \/ OnAck(p) \/ Elsewhere
    BY <2>1, <1>5, <1>6, <1>7, <1>8, <1>9, <1>10 DEF Receive
  <2>2. CASE \E p \in End : Receive(p) \/ Crash(p) \/ Begin(p) \/ Leave(p)
    BY <2>1, <2>2
  <2>3. CASE Second \/ Cut \/ ForeignSpeaks \/ ForeignListens
    BY <2>3, <1>1, <1>2, <1>3, <1>4
  <2> QED BY <1>11, <2>2, <2>3 DEF ControlNext, Kinds
<1> QED BY <1>11 DEF Elsewhere

LEMMA AckStarts == ControlInit => AckInv
<1> SUFFICES ASSUME ControlInit PROVE AckInv
  OBVIOUS
<1>1. BaseInv /\ link.to = [p \in End |-> <<>>] /\ \A p \in End : ledger[p] = <<>>
  BY BaseStarts DEF ControlInit
<1>2. DOMAIN <<>> = {}
  OBVIOUS
<1>3. \A p \in End : Messages(p) = {} /\ link.to[p] = <<>>
  BY <1>1, <1>2 DEF Messages
<1>4. \A p \in End : \A id : ~InFlight(p, id)
  BY <1>3, Ends DEF InFlight
<1>5. ASSUME NEW p \in End, NEW id \in PayloadIds
      PROVE  /\ InFlight(p, id) => Uses(p, id)
             /\ (\E m \in Messages(p) : m.frame = EncodePayloadAck(id)) => Uses(p, id) /\ ~InFlight(p, id)
             /\ id \in DOMAIN ledger[p] /\ ledger[p][id].acked => Uses(p, id) /\ ~InFlight(p, id)
             /\ \A k, l \in DOMAIN link.to[p] :
                  k < l /\ IsChunk(link.to[p][k].frame, id, TRUE) => ~HasChunk(link.to[p][l].frame, id)
  BY <1>1, <1>2, <1>3, <1>4
<1> QED BY <1>1, <1>5 DEF AckInv

LEMMA AckStep ==
  ASSUME AckInv, [ControlNext]_controlVars
  PROVE  AckInv'
<1>1. BaseInv
  BY DEF AckInv
<1>2. CASE \E p \in End, id \in PayloadIds, kind \in Kinds : SendPayload(p, id, kind)
  BY <1>2, PayloadSent
<1>3. CASE \E p \in End : OnChunk(p) \/ OnAck(p)
  BY <1>3, ChunkTaken, AckTaken
<1>4. CASE BaseInv' /\ topic # "acks" /\ UNCHANGED <<topic, ledger>>
  BY <1>4 DEF AckInv
<1>5. CASE UNCHANGED controlVars
  <2>1. BaseInv'
    BY <1>1, <1>5, PlainBase
  <2>2. UNCHANGED <<topic, link, ledger, said>>
    BY <1>5 DEF controlVars
  <2>3. \A p \in End : Messages(p)' = Messages(p) /\ \A id : Uses(p, id)' <=> Uses(p, id)
    BY <2>2 DEF Messages, Uses
  <2>4. \A p \in End : \A id : InFlight(p, id)' <=> InFlight(p, id)
    BY <2>3, Ends DEF InFlight
  <2> QED BY <2>1, <2>2, <2>3, <2>4 DEF AckInv
<1> QED BY <1>1, <1>2, <1>3, <1>4, <1>5, OtherSteps

(* What a step must keep for FileInv.                                         *)
LEMMA FileKeep ==
  ASSUME FileInv, SaidOK, topic = "acks", UNCHANGED topic,
         said' = said \/ \E p \in End : \E what : Says(p, what),
         \A r \in End : \A i \in PayloadIds :
           /\ \A kind \in Kinds :
                KindInFlight(r, i, kind)' => KindInFlight(r, i, kind) \/ SaidAs(r, i, kind)'
           /\ AckComes(r, i)' => AckComes(r, i) \/ SaidAs(r, i, "file")
           /\ i \in DOMAIN ledger'[r] /\ ledger'[r][i].acked =>
                (i \in DOMAIN ledger[r] /\ ledger[r][i].acked) \/ SaidAs(r, i, "file")
           /\ i \in DOMAIN ledger[r] => i \in DOMAIN ledger'[r]
           /\ Uses(r, i)' => Uses(r, i) \/ FirstInFlight(r, i)'
           /\ FirstInFlight(r, i) => FirstInFlight(r, i)' \/ i \in DOMAIN ledger'[Other(r)]
  PROVE  FileInv'
<1>1. \A r \in End : \A i, kind : SaidAs(r, i, kind) => SaidAs(r, i, kind)'
  <2>1. \A r \in End : \A k \in DOMAIN said[r] : k \in DOMAIN said'[r] /\ said'[r][k] = said[r][k]
    BY SaysIs
  <2> QED BY <2>1 DEF SaidAs
<1>2. SUFFICES ASSUME NEW r \in End, NEW i \in PayloadIds
               PROVE  /\ \A kind \in Kinds : KindInFlight(r, i, kind)' => SaidAs(r, i, kind)'
                      /\ AckComes(r, i)' => SaidAs(r, i, "file")'
                      /\ i \in DOMAIN ledger'[r] /\ ledger'[r][i].acked => SaidAs(r, i, "file")'
                      /\ Uses(r, i)' => i \in DOMAIN ledger'[Other(r)] \/ FirstInFlight(r, i)'
  BY DEF FileInv
<1>3. \A kind \in Kinds : KindInFlight(r, i, kind)' => SaidAs(r, i, kind)'
  BY <1>1 DEF FileInv
<1>4. AckComes(r, i)' => SaidAs(r, i, "file")'
  BY <1>1 DEF FileInv
<1>5. i \in DOMAIN ledger'[r] /\ ledger'[r][i].acked => SaidAs(r, i, "file")'
  BY <1>1 DEF FileInv
<1>6. Uses(r, i)' => i \in DOMAIN ledger'[Other(r)] \/ FirstInFlight(r, i)'
  BY Ends DEF FileInv
<1> QED BY <1>3, <1>4, <1>5, <1>6

LEMMA FileSent ==
  ASSUME AckInv, FileInv, NEW p \in End, NEW id \in PayloadIds, NEW kind \in Kinds,
         SendPayload(p, id, kind)
  PROVE  FileInv'
<1> DEFINE f1 == DataPayload(id, kind, FALSE, 0, kind)
           f2 == DataPayload(id, kind, TRUE, 1, kind)
           o == Other(p)
<1>0. /\ o \in End /\ o # p /\ Other(o) = p /\ \A r \in End : r = p \/ r = o
      /\ SaidOK /\ topic = "acks" /\ UNCHANGED topic /\ Says(p, <<id, kind>>)
  BY Ends DEF AckInv, BaseInv, SendPayload
<1>1. /\ Messages(p)' = Messages(p)
      /\ Messages(o)' = Messages(o) \cup {Fresh(f1), Fresh(f2)}
      /\ ledger'[o] = ledger[o] /\ DOMAIN ledger[p] \subseteq DOMAIN ledger'[p]
      /\ \A i \in DOMAIN ledger'[p] : ledger'[p][i].acked => i \in DOMAIN ledger[p] /\ ledger[p][i].acked
  BY PayloadSent
<1>2. /\ SaidAs(p, id, kind)'
      /\ \A i : Uses(p, i)' => Uses(p, i) \/ i = id
      /\ \A i : Uses(o, i)' => Uses(o, i)
  <2>1. /\ said'[p] = Append(said[p], <<id, kind>>) /\ said'[o] = said[o]
        /\ \E k \in DOMAIN said'[p] : said'[p][k] = <<id, kind>>
    BY <1>0, SaysIs
  <2>2. \A k \in DOMAIN said'[p] : said'[p][k] = <<id, kind>> \/ (k \in DOMAIN said[p] /\ said'[p][k] = said[p][k])
    <3> DEFINE x == said[p]
               e == <<id, kind>>
    <3>1. IsSequence(x) /\ said'[p] = Append(x, e)
      BY <1>0, <2>1 DEF SaidOK
    <3> HIDE DEF x, e
    <3>2. /\ Len(x) \in Nat /\ DOMAIN x = 1..Len(x) /\ DOMAIN Append(x, e) = 1..(Len(x) + 1)
          /\ \A i \in 1..Len(x) : Append(x, e)[i] = x[i]
          /\ Append(x, e)[Len(x) + 1] = e
      BY <3>1, AppendOne
    <3>3. \A k \in 1..(Len(x) + 1) : k = Len(x) + 1 \/ k \in 1..Len(x)
      BY <3>2
    <3> QED BY <3>1, <3>2, <3>3 DEF x, e
  <2>3. <<id, kind>>[1] = id
    OBVIOUS
  <2> QED BY <2>1, <2>2, <2>3 DEF Uses, SaidAs
<1>3. IsChunk(f1, id, FALSE) /\ IsChunk(f2, id, TRUE)
  BY DEF IsChunk
<1>4. \A i : EncodePayloadAck(i) # f1 /\ EncodePayloadAck(i) # f2
  <2> HIDE DEF f1, f2
  <2>1. \A i : ~IsChunk(EncodePayloadAck(i), id, FALSE) /\ ~IsChunk(EncodePayloadAck(i), id, TRUE)
    BY AckIsNoChunk
  <2> QED BY <1>3, <2>1
<1>5. ASSUME NEW i, NEW kk, NEW last \in BOOLEAN,
             DataPayload(i, kk, last, IF last THEN 1 ELSE 0, kk) \in {f1, f2}
      PROVE  i = id /\ kk = kind
  <2> DEFINE Header(x, y) == {[id |-> x, kind |-> y, total |-> "known"]}
  <2>0. \A x, y, l, n : DecodePayload(DataPayload(x, y, l, n, y)).header = Header(x, y)
    <3> SUFFICES ASSUME NEW x, NEW y, NEW l, NEW n
                 PROVE  DecodePayload(DataPayload(x, y, l, n, y)).header = Header(x, y)
      OBVIOUS
    <3>1. DecodePayload(DataPayload(x, y, l, n, y)) =
            [packet |-> "data", header |-> Header(x, y), chunk |-> {[last |-> l, offset |-> n, body |-> y]}]
      BY DataIs
    <3> HIDE DEF Header
    <3> QED BY <3>1
  <2>1. /\ DecodePayload(f1).header = Header(id, kind)
        /\ DecodePayload(f2).header = Header(id, kind)
        /\ DecodePayload(DataPayload(i, kk, last, IF last THEN 1 ELSE 0, kk)).header = Header(i, kk)
    <3> HIDE DEF Header
    <3> QED BY <2>0
  <2>2. {[id |-> i, kind |-> kk, total |-> "known"]} = {[id |-> id, kind |-> kind, total |-> "known"]}
    BY <1>5, <2>1
  <2>3. [id |-> i, kind |-> kk, total |-> "known"] = [id |-> id, kind |-> kind, total |-> "known"]
    BY <2>2
  <2> QED BY <2>3
<1> HIDE DEF f1, f2
<1>6. ASSUME NEW r \in End, NEW i \in PayloadIds
      PROVE  /\ \A kk \in Kinds : KindInFlight(r, i, kk)' => KindInFlight(r, i, kk) \/ SaidAs(r, i, kk)'
             /\ AckComes(r, i)' => AckComes(r, i)
             /\ Uses(r, i)' => Uses(r, i) \/ FirstInFlight(r, i)'
             /\ FirstInFlight(r, i) => FirstInFlight(r, i)'
  <2>1. ASSUME NEW kk \in Kinds, NEW m \in Messages(Other(r))', NEW last \in BOOLEAN,
               m.frame = DataPayload(i, kk, last, IF last THEN 1 ELSE 0, kk), m \notin Messages(Other(r))
        PROVE  SaidAs(r, i, kk)'
    <3>1. r = p /\ m \in {Fresh(f1), Fresh(f2)}
      BY <1>0, <1>1, <2>1
    <3>2. m.frame \in {f1, f2}
      BY <3>1, FreshIs
    <3>3. i = id /\ kk = kind
      BY <1>5, <2>1, <3>2
    <3> QED BY <1>2, <3>1, <3>3
  <2>2. \A kk \in Kinds : KindInFlight(r, i, kk)' => KindInFlight(r, i, kk) \/ SaidAs(r, i, kk)'
    BY <2>1 DEF KindInFlight
  <2>3. AckComes(r, i)' => AckComes(r, i)
    BY <1>0, <1>1, <1>4, FreshIs DEF AckComes
  <2>4. FirstInFlight(r, i) => FirstInFlight(r, i)'
    BY <1>0, <1>1 DEF FirstInFlight
  <2>5. FirstInFlight(p, id)'
    BY <1>1, <1>3, FreshIs DEF FirstInFlight
  <2> QED BY <1>0, <1>2, <2>2, <2>3, <2>4, <2>5
<1>7. ASSUME NEW r \in End, NEW i \in PayloadIds
      PROVE  /\ i \in DOMAIN ledger'[r] /\ ledger'[r][i].acked => i \in DOMAIN ledger[r] /\ ledger[r][i].acked
             /\ i \in DOMAIN ledger[r] => i \in DOMAIN ledger'[r]
  BY <1>0, <1>1
<1> HIDE DEF o
<1> QED BY <1>0, <1>6, <1>7, FileKeep

(* Taking a frame, with an answer to a whole FILE at most.                    *)
LEMMA FileTaken ==
  ASSUME AckInv, FileInv, NEW p \in End, OnChunk(p) \/ OnAck(p)
  PROVE  FileInv'
<1> DEFINE o == Other(p)
           f == First(p)
<1>0. /\ o \in End /\ o # p /\ Other(o) = p /\ \A r \in End : r = p \/ r = o
      /\ SaidOK /\ topic = "acks" /\ UNCHANGED <<topic, said>>
      /\ link.to[p][1].frame = f /\ link.to[p][1] \in Messages(p)
  BY Ends, FirstIs DEF AckInv, BaseInv, OnChunk, OnAck
<1>1. /\ \A i, kind : \A r \in End : SaidAs(r, i, kind)' <=> SaidAs(r, i, kind)
      /\ \A i : \A r \in End : Uses(r, i)' <=> Uses(r, i)
  BY <1>0 DEF SaidAs, Uses
<1>2. CASE OnChunk(p)
  <2>1. /\ Messages(p) \subseteq Messages(p)' \cup {link.to[p][1]}
        /\ Messages(o) \subseteq Messages(o)'
        /\ ledger'[o] = ledger[o] /\ DOMAIN ledger[p] \subseteq DOMAIN ledger'[p]
        /\ \A i \in DOMAIN ledger'[p] : ledger'[p][i].acked => i \in DOMAIN ledger[p] /\ ledger[p][i].acked
    BY <1>2, ChunkTaken
  <2>2. PICK id \in PayloadIds, kind \in Kinds, last \in BOOLEAN :
              /\ f = DataPayload(id, kind, last, IF last THEN 1 ELSE 0, kind)
              /\ ~last => id \in DOMAIN ledger'[p]
              /\ \A r \in End : \A m \in Messages(r)' :
                   \/ m \in Messages(r)
                   \/ r = o /\ kind = "file" /\ m.frame = EncodePayloadAck(id)
    BY <1>2, ChunkTaken
  <2>3. SaidAs(o, id, kind)
    <3>1. KindInFlight(o, id, kind)
      BY <1>0, <2>2 DEF KindInFlight
    <3> QED BY <1>0, <3>1 DEF FileInv
  <2>4. IsChunk(f, id, last)
    BY <2>2 DEF IsChunk
  <2> HIDE DEF f
  <2>5. ASSUME NEW r \in End, NEW i \in PayloadIds
        PROVE  /\ \A kk \in Kinds : KindInFlight(r, i, kk)' => KindInFlight(r, i, kk)
               /\ AckComes(r, i)' => AckComes(r, i) \/ SaidAs(r, i, "file")
               /\ FirstInFlight(r, i) => FirstInFlight(r, i)' \/ i \in DOMAIN ledger'[Other(r)]
    <3>1. ASSUME NEW kk \in Kinds, NEW l \in BOOLEAN, NEW m \in Messages(Other(r))',
                 m.frame = DataPayload(i, kk, l, IF l THEN 1 ELSE 0, kk)
          PROVE  m \in Messages(Other(r))
      <4>1. IsChunk(m.frame, i, l)
        BY <3>1 DEF IsChunk
      <4>2. m.frame # EncodePayloadAck(id)
        BY <4>1, AckIsNoChunk
      <4> QED BY <2>2, <4>2, Ends
    <3>2. \A kk \in Kinds : KindInFlight(r, i, kk)' => KindInFlight(r, i, kk)
      BY <3>1 DEF KindInFlight
    <3>3. ASSUME NEW m \in Messages(r)', m.frame = EncodePayloadAck(i), m \notin Messages(r)
          PROVE  SaidAs(r, i, "file")
      <4>1. r = o /\ kind = "file" /\ EncodePayloadAck(id) = EncodePayloadAck(i)
        BY <2>2, <3>3
      <4>2. i = id
        BY <4>1, AckIsNoChunk
      <4> QED BY <2>3, <4>1, <4>2
    <3>4. AckComes(r, i)' => AckComes(r, i) \/ SaidAs(r, i, "file")
      BY <3>3 DEF AckComes
    <3>5. ASSUME NEW m \in Messages(Other(r)), IsChunk(m.frame, i, FALSE), m \notin Messages(Other(r))'
          PROVE  i \in DOMAIN ledger'[Other(r)]
      <4>1. r = o /\ m = link.to[p][1]
        BY <1>0, <2>1, <3>5
      <4>2. IsChunk(f, i, FALSE)
        BY <1>0, <3>5, <4>1
      <4>3. id = i
        BY <2>4, <4>2, ChunkIs
      <4>4. \A l \in BOOLEAN : IsChunk(f, id, l) => l = last
        BY <2>4, ChunkIs
      <4>5. ~last
        BY <4>2, <4>3, <4>4
      <4> QED BY <1>0, <2>2, <4>1, <4>3, <4>5
    <3>6. FirstInFlight(r, i) => FirstInFlight(r, i)' \/ i \in DOMAIN ledger'[Other(r)]
      BY <3>5 DEF FirstInFlight
    <3> QED BY <3>2, <3>4, <3>6
  <2>6. ASSUME NEW r \in End, NEW i \in PayloadIds
        PROVE  /\ i \in DOMAIN ledger'[r] /\ ledger'[r][i].acked => i \in DOMAIN ledger[r] /\ ledger[r][i].acked
               /\ i \in DOMAIN ledger[r] => i \in DOMAIN ledger'[r]
    BY <1>0, <2>1
  <2> HIDE DEF o
  <2> QED BY <1>0, <1>1, <2>5, <2>6, FileKeep
<1>3. CASE OnAck(p)
  <2>1. /\ Messages(p) \subseteq Messages(p)' \cup {link.to[p][1]}
        /\ \A r \in End : Messages(r)' \subseteq Messages(r)
        /\ Messages(o) \subseteq Messages(o)'
        /\ ledger'[o] = ledger[o] /\ DOMAIN ledger'[p] = DOMAIN ledger[p]
    BY <1>3, AckTaken
  <2>2. PICK id \in PayloadIds :
              /\ f = EncodePayloadAck(id)
              /\ \A i \in DOMAIN ledger'[p] : i = id \/ ledger'[p][i] = ledger[p][i]
    BY <1>3, AckTaken
  <2>3. SaidAs(p, id, "file")
    BY <1>0, <2>2 DEF FileInv, AckComes
  <2> HIDE DEF f
  <2>4. ASSUME NEW r \in End, NEW i \in PayloadIds
        PROVE  /\ \A kk \in Kinds : KindInFlight(r, i, kk)' => KindInFlight(r, i, kk)
               /\ AckComes(r, i)' => AckComes(r, i)
               /\ FirstInFlight(r, i) => FirstInFlight(r, i)'
    <3>1. \A kk \in Kinds : KindInFlight(r, i, kk)' => KindInFlight(r, i, kk)
      BY <2>1, Ends DEF KindInFlight
    <3>2. AckComes(r, i)' => AckComes(r, i)
      BY <2>1 DEF AckComes
    <3>3. ASSUME NEW m \in Messages(Other(r)), IsChunk(m.frame, i, FALSE)
          PROVE  m \in Messages(Other(r))'
      <4>0. ~IsChunk(EncodePayloadAck(id), i, FALSE)
        BY AckIsNoChunk
      <4>1. m.frame # f
        BY <2>2, <3>3, <4>0
      <4> QED BY <1>0, <2>1, <4>1
    <3>4. FirstInFlight(r, i) => FirstInFlight(r, i)'
      BY <3>3 DEF FirstInFlight
    <3> QED BY <3>1, <3>2, <3>4
  <2>5. ASSUME NEW r \in End, NEW i \in PayloadIds
        PROVE  /\ i \in DOMAIN ledger'[r] /\ ledger'[r][i].acked =>
                     (i \in DOMAIN ledger[r] /\ ledger[r][i].acked) \/ SaidAs(r, i, "file")
               /\ i \in DOMAIN ledger[r] => i \in DOMAIN ledger'[r]
    BY <1>0, <2>1, <2>2, <2>3
  <2> HIDE DEF o
  <2> QED BY <1>0, <1>1, <2>4, <2>5, FileKeep
<1> QED BY <1>2, <1>3

LEMMA FileStep ==
  ASSUME AckInv, FileInv, [ControlNext]_controlVars
  PROVE  FileInv'
<1>1. CASE \E p \in End, id \in PayloadIds, kind \in Kinds : SendPayload(p, id, kind)
  BY <1>1, FileSent
<1>2. CASE \E p \in End : OnChunk(p) \/ OnAck(p)
  BY <1>2, FileTaken
<1>3. CASE topic # "acks" /\ UNCHANGED topic
  BY <1>3 DEF FileInv
<1>4. CASE UNCHANGED controlVars
  <2>1. UNCHANGED <<topic, link, ledger, said>>
    BY <1>4 DEF controlVars
  <2>2. \A p \in End : Messages(p)' = Messages(p)
    BY <2>1 DEF Messages
  <2>3. \A p \in End : \A id, kind :
          /\ SaidAs(p, id, kind)' <=> SaidAs(p, id, kind)
          /\ KindInFlight(p, id, kind)' <=> KindInFlight(p, id, kind)
          /\ AckComes(p, id)' <=> AckComes(p, id)
          /\ FirstInFlight(p, id)' <=> FirstInFlight(p, id)
          /\ Uses(p, id)' <=> Uses(p, id)
    BY <2>1, <2>2, Ends DEF SaidAs, KindInFlight, AckComes, FirstInFlight, Uses
  <2> QED BY <2>1, <2>3 DEF FileInv
<1> QED BY <1>1, <1>2, <1>3, <1>4, OtherSteps DEF AckInv

(* What an end has marked as acknowledged, or will mark when the next         *)
(* acknowledgement arrives, is a FILE of its own that the other end has taken *)
(* to its last chunk (should_send_payload_ack, PayloadAckTracker::on_ack):    *)
(* two ends that choose the same ids, and send under them at the same time,   *)
(* do not confuse the acknowledgements.                                       *)
THEOREM AckedTheorem == ControlSpec => []AckedWasDelivered
<1>1. ControlInit => AckInv /\ FileInv
  <2> SUFFICES ASSUME ControlInit PROVE FileInv
    BY AckStarts
  <2>1. /\ \A p \in End : link.to[p] = <<>> /\ ledger[p] = <<>> /\ said[p] = <<>>
        /\ DOMAIN <<>> = {}
    BY DEF ControlInit
  <2>2. \A p \in End : Messages(p) = {} /\ \A id : ~Uses(p, id)
    BY <2>1 DEF Messages, Uses
  <2> QED BY <2>1, <2>2, Ends DEF FileInv, KindInFlight, AckComes
<1>2. AckInv /\ FileInv /\ [ControlNext]_controlVars => AckInv' /\ FileInv'
  BY AckStep, FileStep
<1>3. AckInv /\ FileInv => AckedWasDelivered
  BY AckedImplied
<1> QED BY <1>1, <1>2, <1>3, PTL DEF ControlSpec

-----------------------------------------------------------------------------
(* The paired key.                                                            *)

(* What makes an end believe a success: another implementation said it.       *)
Earned(p) ==
  /\ foreign /\ p = "A"
  /\ \E k \in DOMAIN said["B"] : said["B"][k] = TheSuccess

PairingInv ==
  /\ BaseInv
  /\ topic # "pairing" => \A p \in End : pairing[p].status # "success"
  /\ topic = "pairing" => \A p \in End :
       pairing[p].status = "success" \/ (\E m \in Messages(p) : Successful(m.frame)) => Earned(p)

LEMMA PairingKeep ==
  ASSUME PairingInv, BaseInv', topic = "pairing", UNCHANGED <<topic, foreign>>,
         said' = said \/ \E p \in End : \E what : Says(p, what),
         \A r \in End : pairing'[r].status = "success" =>
            pairing[r].status = "success" \/ \E m \in Messages(r) : Successful(m.frame),
         \A r \in End : \A m \in Messages(r)' :
            Successful(m.frame) => m \in Messages(r) \/ Earned(r)'
  PROVE  PairingInv'
<1>1. \A r \in End : Earned(r) => Earned(r)'
  <2>1. SaidOK /\ "B" \in End
    BY DEF PairingInv, BaseInv, End
  <2>2. \A k \in DOMAIN said["B"] : k \in DOMAIN said'["B"] /\ said'["B"][k] = said["B"][k]
    BY <2>1, SaysIs
  <2> QED BY <2>2 DEF Earned
<1>2. ASSUME NEW r \in End,
             pairing'[r].status = "success" \/ \E m \in Messages(r)' : Successful(m.frame)
      PROVE  Earned(r)'
  BY <1>1, <1>2 DEF PairingInv
<1> QED BY <1>2 DEF PairingInv

LEMMA PairingStep ==
  ASSUME AckInv, PairingInv, [ControlNext]_controlVars
  PROVE  PairingInv'
<1>1. BaseInv' /\ BaseInv /\ LinkOK /\ "A" \in End /\ "B" \in End /\ Other("B") = "A"
  BY AckStep DEF AckInv, BaseInv, End, Other
<1>2. CASE topic # "pairing"
  <2>1. UNCHANGED <<topic, pairing>>
    BY <1>1, <1>2 DEF ControlNext, controlVars, Second, Cut, ForeignSpeaks, ForeignListens, Receive,
         OnKeepAlive, OnBytesPayload, OnDisconnection, OnChunk, OnAck, Crash, Begin, Leave, SendPayload,
         BaseInv
  <2> QED BY <1>1, <1>2, <2>1 DEF PairingInv
<1>3. CASE topic = "pairing" /\ UNCHANGED controlVars
  <2>1. UNCHANGED <<topic, foreign, pairing, said, link>>
    BY <1>3 DEF controlVars
  <2>2. \A p \in End : Messages(p)' = Messages(p)
    BY <2>1 DEF Messages
  <2> QED BY <1>1, <1>3, <2>1, <2>2, PairingKeep
<1>4. ASSUME topic = "pairing", ForeignSpeaks
      PROVE  PairingInv'
  <2>1. PICK f \in {WrapInner(EncodeResult(s), 7) : s \in Status} \cup Odd
                \cup {WrapInner(EncodeMaterial("theirs"), 7)} :
          Sends("B", f) /\ Says("B", f)
    BY <1>4 DEF ForeignSpeaks
  <2>2. UNCHANGED <<topic, foreign, pairing>> /\ foreign
    BY <1>4 DEF ForeignSpeaks
  <2>3. /\ Messages("B")' = Messages("B")
        /\ Messages("A")' \subseteq Messages("A") \cup {Fresh(f)}
    BY <1>1, <2>1, SendsIs
  <2>4. Successful(f) => f = TheSuccess
    <3>1. ASSUME NEW s \in Status, f = WrapInner(EncodeResult(s), 7), f # TheSuccess
          PROVE  ~Successful(f)
      <4>1. s # "success"
        BY <3>1 DEF TheSuccess
      <4> QED BY <3>1, <4>1, OtherResultIsNoSuccess
    <3>2. f = WrapInner(EncodeMaterial("theirs"), 7) => ~Successful(f)
      BY MaterialIsNoSuccess
    <3>3. f \in Odd => ~Successful(f)
      BY OddIsNoSuccess
    <3> QED BY <2>1, <3>1, <3>2, <3>3
  <2>5. f = TheSuccess => Earned("A")'
    <3>1. SaidOK
      BY <1>1 DEF BaseInv
    <3>2. \E k \in DOMAIN said'["B"] : said'["B"][k] = f
      BY <1>1, <2>1, <3>1, SaysIs
    <3> QED BY <2>2, <3>2 DEF Earned
  <2>6. \A r \in End : \A m \in Messages(r)' : Successful(m.frame) => m \in Messages(r) \/ Earned(r)'
    <3>1. \A r \in End : r = "A" \/ r = "B"
      BY DEF End
    <3> QED BY <2>3, <2>4, <2>5, <3>1, FreshIs
  <2> QED BY <1>1, <1>4, <2>1, <2>2, <2>6, PairingKeep
<1>5. ASSUME topic = "pairing", ForeignListens
      PROVE  PairingInv'
  <2>1. /\ Arrives("B") /\ TakesAndAnswers("B", <<>>) /\ UNCHANGED <<topic, foreign, pairing, said>>
    BY <1>5 DEF ForeignListens
  <2>2. \A r \in End : Messages(r)' \subseteq Messages(r)
    BY <1>1, <2>1, TakenBase, Ends
  <2> QED BY <1>1, <1>5, <2>1, <2>2, PairingKeep
<1>6. ASSUME topic = "pairing", NEW p \in End, Begin(p)
      PROVE  PairingInv'
  <2>1. /\ Sends(p, WrapInner(EncodeMaterial("material"), pairing[p].next))
        /\ Says(p, "material") /\ UNCHANGED <<topic, foreign>>
    BY <1>6 DEF Begin
  <2>2. \A r \in End : pairing'[r].status = pairing[r].status
    BY <1>1, <1>6, BeginBase
  <2> DEFINE f == WrapInner(EncodeMaterial("material"), pairing[p].next)
  <2>3. ~Successful(f)
    BY MaterialIsNoSuccess
  <2> HIDE DEF f
  <2>4. /\ Messages(p)' = Messages(p)
        /\ Messages(Other(p))' \subseteq Messages(Other(p)) \cup {Fresh(f)}
    BY <1>1, <2>1, SendsIs DEF f
  <2>5. \A r \in End : \A m \in Messages(r)' : Successful(m.frame) => m \in Messages(r)
    BY <2>3, <2>4, Ends, FreshIs
  <2> QED BY <1>1, <1>6, <2>1, <2>2, <2>5, PairingKeep
<1>7. ASSUME topic = "pairing", NEW p \in End, OnKeepAlive(p)
      PROVE  PairingInv'
  <2>1. /\ Arrives(p) /\ UNCHANGED <<topic, foreign, pairing, said>>
        /\ TakesAndAnswers(p, <<>>) \/ TakesAndAnswers(p, <<EncodeKeepAlive(TRUE)>>)
    BY <1>7 DEF OnKeepAlive
  <2>2. link.to[p] # <<>>
    BY <1>1, <2>1, FirstIs
  <2> DEFINE f == EncodeKeepAlive(TRUE)
  <2>3. ~Successful(f)
    <3>1. DecodeV1(f, OUTER_PAYLOAD) = Refused
      BY DEF DecodeV1, EncodeKeepAlive, ControlFrame, OUTER_KEEP_ALIVE, OUTER_PAYLOAD
    <3>2. DecodePayload(f) = Refused
      BY <3>1, RefusedHas DEF DecodePayload
    <3> HIDE DEF f
    <3> QED BY <3>2 DEF Successful, UnwrapBytes
  <2> HIDE DEF f
  <2>4. /\ Messages(p)' \subseteq Messages(p)
        /\ Messages(Other(p))' \subseteq Messages(Other(p)) \cup {Fresh(f)}
    <3>1. CASE TakesAndAnswers(p, <<>>)
      BY <1>1, <2>1, <3>1, TakenBase
    <3>2. CASE TakesAndAnswers(p, <<f>>)
      <4> DEFINE answer == <<f>>
      <4>1. TakesAndAnswers(p, answer) /\ answer # <<>> /\ answer[1] = f
        BY <3>2
      <4> HIDE DEF answer
      <4> QED BY <1>1, <2>2, <4>1, TakesIs
    <3> QED BY <2>1, <3>1, <3>2 DEF f
  <2>5. \A r \in End : \A m \in Messages(r)' : Successful(m.frame) => m \in Messages(r)
    BY <2>3, <2>4, Ends, FreshIs
  <2> QED BY <1>1, <1>7, <2>1, <2>5, PairingKeep
<1>8. ASSUME topic = "pairing", NEW p \in End, OnBytesPayload(p)
      PROVE  PairingInv'
  <2>1. /\ Arrives(p) /\ UNCHANGED <<topic, foreign>>
        /\ OnEncryption(p) \/ OnResult(p) \/ OnNothing(p)
    BY <1>8 DEF OnBytesPayload
  <2>2. /\ Messages(p)' \subseteq Messages(p)
        /\ \A n \in Messages(Other(p))' :
              n \in Messages(Other(p)) \/ \E id : n = Fresh(WrapInner(EncodeResult("unable"), id))
        /\ pairing'[Other(p)] = pairing[Other(p)]
        /\ said' = said \/ Says(p, "unable")
    BY <1>1, <1>8, PayloadBase
  <2>3. \A r \in End : \A m \in Messages(r)' : Successful(m.frame) => m \in Messages(r)
    <3>1. \A id : ~Successful(Fresh(WrapInner(EncodeResult("unable"), id)).frame)
      BY FreshIs, OtherResultIsNoSuccess
    <3> QED BY <2>2, <3>1, Ends
  <2>4. pairing'[p].status = "success" =>
            pairing[p].status = "success" \/ \E m \in Messages(p) : Successful(m.frame)
    <3> DEFINE x == pairing[p]
    <3>0. pairing \in [End -> Pairing] /\ x \in Pairing
      BY <1>1 DEF BaseInv, ControlTypeOK
    <3>1. CASE OnEncryption(p)
      <4> DEFINE y == [x EXCEPT !.state = IF @ = "EncryptionSent" THEN "EncryptionReceived" ELSE @]
      <4>1. pairing' = [pairing EXCEPT ![p] = y]
        BY <3>1 DEF OnEncryption
      <4>2. y.status = x.status
        <5> HIDE DEF x
        <5> QED BY <3>0 DEF Pairing
      <4> HIDE DEF y
      <4> QED BY <3>0, <4>1, <4>2
    <3>2. CASE OnResult(p)
      <4>1. PICK u \in UnwrapBytes(First(p)) :
              /\ DecodeMaterial(u.inner) = Refused
              /\ DecodeResult(u.inner) # Refused
              /\ pairing' = [pairing EXCEPT
               ![p].status = DecodeResult(u.inner).status,
               ![p].state = IF @ \in {"EncryptionSent", "EncryptionReceived"}
                            THEN "ResultReceived" ELSE "Complete"]
        BY <3>2 DEF OnResult
      <4> DEFINE r == DecodeResult(u.inner).status
                 y == [x EXCEPT !.status = r,
                              !.state = IF @ \in {"EncryptionSent", "EncryptionReceived"}
                                        THEN "ResultReceived" ELSE "Complete"]
      <4>2. pairing' = [pairing EXCEPT ![p] = y]
        BY <3>0, <4>1
      <4>3. y.status = r
        <5> HIDE DEF x, r
        <5> QED BY <3>0 DEF Pairing
      <4>4. r = "success" => Successful(First(p))
        BY <4>1 DEF Successful
      <4>5. link.to[p][1] \in Messages(p) /\ First(p) = link.to[p][1].frame
        BY <1>1, <2>1, FirstIs
      <4> HIDE DEF y, r
      <4> QED BY <3>0, <4>2, <4>3, <4>4, <4>5
    <3>3. CASE OnNothing(p)
      BY <3>3 DEF OnNothing
    <3> QED BY <2>1, <3>1, <3>2, <3>3
  <2>5. \A r \in End : pairing'[r].status = "success" =>
            pairing[r].status = "success" \/ \E m \in Messages(r) : Successful(m.frame)
    BY <2>2, <2>4, Ends
  <2>6. said' = said \/ \E r \in End : \E what : Says(r, what)
    BY <2>2
  <2> QED BY <1>1, <1>8, <2>1, <2>3, <2>5, <2>6, PairingKeep
<1>9. ASSUME topic = "pairing", ControlNext
      PROVE  PairingInv'
  <2>1. \/ ForeignSpeaks \/ ForeignListens
        \/ \E p \in End : OnKeepAlive(p) \/ OnBytesPayload(p) \/ Begin(p)
    BY <1>9 DEF ControlNext, Second, Cut, Receive, OnDisconnection, OnChunk, OnAck, Crash, Leave, SendPayload
  <2> QED BY <1>4, <1>5, <1>6, <1>7, <1>8, <1>9, <2>1
<1> QED BY <1>2, <1>3, <1>9

(* The digits are skipped only for an end that allows it and to which another *)
(* implementation reported success (PairedKeyExchange::decision, on_bytes):   *)
(* no odd frame and no exchange between two ends of this repository does.     *)
THEOREM PairingTheorem == ControlSpec => []PairingIsSound
<1>1. ControlInit => AckInv /\ PairingInv
  <2> SUFFICES ASSUME ControlInit PROVE PairingInv
    BY AckStarts
  <2>1. BaseInv /\ link.to = [p \in End |-> <<>>]
    BY BaseStarts DEF ControlInit
  <2>2. DOMAIN <<>> = {}
    OBVIOUS
  <2>3. \A p \in End : Messages(p) = {}
    BY <2>1, <2>2 DEF Messages
  <2>4. PICK allow : pairing = [p \in End |-> NewPairing(allow[p])]
    BY DEF ControlInit
  <2>5. Unset # "success"
    BY DEF Status
  <2>6. \A p \in End : pairing[p].status # "success"
    BY <2>4, <2>5 DEF NewPairing
  <2> QED BY <2>1, <2>3, <2>6 DEF PairingInv
<1>2. AckInv /\ PairingInv /\ [ControlNext]_controlVars => AckInv' /\ PairingInv'
  BY AckStep, PairingStep
<1>3. PairingInv => PairingIsSound
  <2> SUFFICES ASSUME PairingInv, NEW p \in End, PairingDecision(pairing[p]) = "SkipConfirmation"
               PROVE  /\ pairing[p].allow /\ foreign /\ p = "A"
                      /\ \E k \in DOMAIN said["B"] : said["B"][k] = WrapInner(EncodeResult("success"), 7)
    BY DEF PairingIsSound
  <2>1. pairing[p].status = "success" /\ pairing[p].allow
    BY DEF PairingDecision
  <2> QED BY <2>1 DEF PairingInv, Earned, TheSuccess
<1> QED BY <1>1, <1>2, <1>3, PTL DEF ControlSpec

-----------------------------------------------------------------------------
(* Keep-alive.                                                                *)

LEMMA OlderBy ==
  ASSUME NEW age \in Nat, NEW most \in Int
  PROVE  /\ Older(age, most) \in Nat /\ Older(age, most) <= age + 1
         /\ age <= most => Older(age, most) = age + 1
         /\ Older(Unset, most) = Unset
BY DEF Older

(* What a second does to a tracker.                                           *)
LEMMA TickIs ==
  ASSUME NEW a \in Tracker
  PROVE  LET e == Expired(OnTick(a)) IN
         /\ e.interval = a.interval /\ e.timeout = a.timeout
         /\ e.expired <=> (a.expired \/ (Reference(e) # Unset /\ Reference(e) > a.timeout))
         /\ e.sinceSent = IF Due(a) THEN 0 ELSE a.sinceSent
         /\ Reference(a) # Unset => Reference(e) = Reference(a)
         /\ Reference(a) = Unset => Reference(e) = Unset \/ (Reference(e) = 0 /\ Due(a))
<1> DEFINE o == OnTick(a)
           e == Expired(o)
           x == o.expired \/ (Reference(o) # Unset /\ Reference(o) > o.timeout)
<1>1. o \in Tracker
  BY TrackersStay
<1>2. /\ o.interval = a.interval /\ o.timeout = a.timeout /\ o.expired = a.expired
      /\ o.sinceReceived = a.sinceReceived
      /\ o.sinceSent = IF Due(a) THEN 0 ELSE a.sinceSent
      /\ o.sinceFirst = IF Due(a) /\ a.sinceFirst = Unset THEN 0 ELSE a.sinceFirst
  <2>1. CASE Due(a)
    <3> DEFINE f == IF a.sinceFirst = Unset THEN 0 ELSE a.sinceFirst
    <3>1. o = [a EXCEPT !.sinceSent = 0, !.sinceFirst = f]
      BY <2>1 DEF OnTick, Tracker
    <3> HIDE DEF f, o
    <3>2. /\ o.interval = a.interval /\ o.timeout = a.timeout /\ o.expired = a.expired
          /\ o.sinceReceived = a.sinceReceived /\ o.sinceSent = 0 /\ o.sinceFirst = f
      BY <3>1 DEF Tracker
    <3> QED BY <2>1, <3>2 DEF f
  <2>2. CASE ~Due(a)
    BY <2>2 DEF OnTick
  <2> QED BY <2>1, <2>2
<1> HIDE DEF o
<1>3. e = [o EXCEPT !.expired = x]
  BY DEF Expired
<1> HIDE DEF x
<1>4. /\ e.interval = o.interval /\ e.timeout = o.timeout /\ e.sinceFirst = o.sinceFirst
      /\ e.sinceSent = o.sinceSent /\ e.sinceReceived = o.sinceReceived /\ e.expired = x
  <2> HIDE DEF e
  <2> QED BY <1>1, <1>3 DEF Tracker
<1> HIDE DEF e
<1>5. Reference(e) = Reference(o)
  BY <1>4 DEF Reference
<1>6. /\ Reference(a) # Unset => Reference(e) = Reference(a)
      /\ Reference(a) = Unset => Reference(e) = Unset \/ (Reference(e) = 0 /\ Due(a))
  BY <1>2, <1>5 DEF Reference
<1>7. e.expired <=> (a.expired \/ (Reference(e) # Unset /\ Reference(e) > a.timeout))
  BY <1>2, <1>4, <1>5 DEF x
<1> QED BY <1>2, <1>4, <1>6, <1>7 DEF e, o

(* Why the end is not silent: an answer or a beat is on its way to p, or a    *)
(* beat of p is on its way to the other end, or the next one is not due yet.  *)
Hears(p) ==
  LET t == tracker[p]
      r == Reference(t)
  IN  \/ r = Unset
      \/ \E m \in Messages(p) : r <= t.interval + MaxDelay + m.age
      \/ \E m \in Messages(Other(p)) :
            m.frame = EncodeKeepAlive(FALSE) /\ r <= t.interval + m.age
      \/ r <= IF t.sinceSent = Unset THEN 0 ELSE t.sinceSent

Connected(p) == ~link.cut /\ alive[Other(p)] /\ ~tracker[Other(p)].expired

AliveInv ==
  /\ BaseInv
  /\ topic # "alive" => \A p \in End : ~tracker[p].expired
  /\ topic = "alive" => \A p \in End :
       /\ alive[p] => \A m \in Messages(p) : m.age <= MaxDelay
       /\ alive[p] /\ ~tracker[p].expired /\ tracker[p].sinceSent # Unset
            => tracker[p].sinceSent < tracker[p].interval
       /\ Patient(p) /\ Connected(p) => ~tracker[p].expired /\ (alive[p] => Hears(p))

LEMMA AliveImplied == AliveInv => NoFalseDeath
<1> SUFFICES ASSUME AliveInv, NEW p \in End, tracker[p].expired, Patient(p), Connected(p)
             PROVE  FALSE
  BY DEF NoFalseDeath, AliveInv, BaseInv, Connected
<1> QED BY DEF AliveInv

LEMMA ReferenceIs ==
  ASSUME NEW t \in Tracker
  PROVE  Reference(t) \in Nat \cup {Unset}
BY DEF Reference, Tracker

LEMMA SecondAlive ==
  ASSUME AliveInv, Second
  PROVE  AliveInv'
<1>0. /\ BaseInv /\ BaseInv' /\ ControlTypeOK /\ topic = "alive" /\ topic' = topic /\ alive' = alive
      /\ tracker' = [p \in End |-> IF alive[p] THEN Expired(OnTick(Aged(p))) ELSE tracker[p]]
      /\ link'.cut = link.cut
  BY SecondBase, SecondIs DEF AliveInv, BaseInv, Second
<1>1. ASSUME NEW p \in End, alive[p], NEW n \in Messages(p)'
      PROVE  n.age <= MaxDelay
  <2>0. MaxDelay \in Nat
    OBVIOUS
  <2>1. CASE n = Fresh(EncodeKeepAlive(FALSE))
    <3>1. n.age = 0
      BY <2>1, FreshIs
    <3> QED BY <2>0, <3>1
  <2>2. ASSUME NEW m \in Messages(p), n = [frame |-> m.frame, age |-> m.age + 1]
        PROVE  n.age <= MaxDelay
    <3>1. m.age < MaxDelay
      BY <1>0, <1>1, SecondIs
    <3>2. m.age \in Nat
      BY <1>0 DEF BaseInv, FramesOK, IsMessage
    <3> QED BY <2>2, <3>1, <3>2
  <2> QED BY <1>0, <2>1, <2>2, SecondIs
<1>2. ASSUME NEW p \in End, alive[p]
      PROVE  LET t == tracker[p]
                 u == tracker'[p]
                 r == Reference(t)
             IN  /\ u.interval = t.interval /\ u.timeout = t.timeout
                 /\ u.expired <=> (t.expired \/ (Reference(u) # Unset /\ Reference(u) > t.timeout))
                 /\ u.sinceSent = IF Due(Aged(p)) THEN 0 ELSE Older(t.sinceSent, t.interval - 1)
                 /\ r # Unset => Reference(u) \in Nat /\ Reference(u) <= r + 1
                 /\ r = Unset => Reference(u) = Unset \/ (Reference(u) = 0 /\ u.sinceSent = 0)
                 /\ Due(Aged(p)) <=> ~t.expired /\ (Older(t.sinceSent, t.interval - 1) # Unset
                                          => Older(t.sinceSent, t.interval - 1) >= t.interval)
  <2> DEFINE t == tracker[p]
             u == tracker'[p]
             a == Aged(p)
             r == Reference(t)
  <2>1. /\ a \in Tracker /\ a.interval = t.interval /\ a.timeout = t.timeout /\ a.expired = t.expired
        /\ a.sinceFirst = Older(t.sinceFirst, t.timeout)
        /\ a.sinceSent = Older(t.sinceSent, t.interval - 1)
        /\ a.sinceReceived = Older(t.sinceReceived, t.timeout)
    BY <1>0, AgedIs
  <2>2. t \in Tracker
    BY <1>0 DEF ControlTypeOK
  <2>3. u = Expired(OnTick(a))
    BY <1>0, <1>2
  <2> HIDE DEF a, u
  <2>4. /\ u.interval = a.interval /\ u.timeout = a.timeout
        /\ u.expired <=> (a.expired \/ (Reference(u) # Unset /\ Reference(u) > a.timeout))
        /\ u.sinceSent = IF Due(a) THEN 0 ELSE a.sinceSent
        /\ Reference(a) # Unset => Reference(u) = Reference(a)
        /\ Reference(a) = Unset => Reference(u) = Unset \/ (Reference(u) = 0 /\ Due(a))
    BY <2>1, <2>3, TickIs
  <2> HIDE DEF t
  <2>5. t.timeout \in Int /\ t.interval - 1 \in Int
        /\ t.sinceReceived \in Nat \cup {Unset} /\ t.sinceFirst \in Nat \cup {Unset}
    BY <2>2 DEF Tracker
  <2>6. Reference(a) = Older(r, t.timeout)
    <3>1. \A x \in Nat \cup {Unset} : Older(x, t.timeout) = Unset <=> x = Unset
      BY <2>5, OlderBy
    <3> QED BY <2>1, <2>5, <3>1 DEF Reference
  <2>7. r \in Nat \cup {Unset}
    BY <2>2, ReferenceIs
  <2>8. /\ r # Unset => Reference(a) # Unset /\ Reference(a) \in Nat /\ Reference(a) <= r + 1
        /\ r = Unset => Reference(a) = Unset
    <3>1. Unset \notin Nat
      OBVIOUS
    <3> HIDE DEF r
    <3> QED BY <2>5, <2>6, <2>7, <3>1, OlderBy
  <2>9. Due(a) <=> ~t.expired /\ (Older(t.sinceSent, t.interval - 1) # Unset
                                          => Older(t.sinceSent, t.interval - 1) >= t.interval)
    BY <2>1 DEF Due
  <2> HIDE DEF r
  <2>10. u.expired <=> (t.expired \/ (Reference(u) # Unset /\ Reference(u) > t.timeout))
    BY <2>1, <2>4
  <2> QED BY <2>1, <2>4, <2>8, <2>9, <2>10 DEF t, u, a, r
<1>3. ASSUME NEW p \in End, alive[p], ~tracker'[p].expired, tracker'[p].sinceSent # Unset
      PROVE  tracker'[p].sinceSent < tracker'[p].interval
  <2> DEFINE t == tracker[p]
             s == t.sinceSent
             old == Older(s, t.interval - 1)
  <2>1. t \in Tracker
    BY <1>0 DEF ControlTypeOK
  <2>2. t.interval \in Nat \ {0} /\ s \in Nat \cup {Unset}
    <3> HIDE DEF t
    <3> QED BY <2>1 DEF Tracker
  <2>3. /\ ~t.expired /\ tracker'[p].interval = t.interval
        /\ tracker'[p].sinceSent = IF Due(Aged(p)) THEN 0 ELSE old
        /\ (Due(Aged(p)) <=> ~t.expired /\ (old # Unset => old >= t.interval))
    BY <1>2, <1>3
  <2>4. old \in Nat \cup {Unset} /\ Unset \notin Nat
    <3>1. t.interval - 1 \in Int
      BY <2>2
    <3> HIDE DEF s, t
    <3> QED BY <2>2, <3>1, OlderIs
  <2> HIDE DEF t, old
  <2>5. CASE Due(Aged(p))
    BY <2>2, <2>3, <2>5
  <2>6. CASE ~Due(Aged(p))
    BY <1>3, <2>2, <2>3, <2>4, <2>6
  <2> QED BY <2>5, <2>6
<1>4. ASSUME NEW p \in End, Patient(p)', Connected(p)'
      PROVE  ~tracker'[p].expired /\ (alive[p] => Hears(p)')
  <2> DEFINE q == Other(p)
             t == tracker[p]
             u == tracker'[p]
             r == Reference(t)
             w == Reference(u)
             i == t.interval
             s == t.sinceSent
  <2>0. q \in End /\ Other(q) = p
    BY Ends
  <2>1. ~link.cut /\ alive[q] /\ ~tracker[q].expired
    <3>1. ~link'.cut /\ alive[q] /\ ~tracker'[q].expired
      BY <1>0, <1>4 DEF Connected
    <3> QED BY <1>0, <1>2, <2>0, <3>1
  <2>2. CASE ~alive[p]
    <3>1. u = t
      BY <1>0, <2>2
    <3> QED BY <1>0, <1>4, <2>1, <2>2, <3>1 DEF AliveInv, Connected, Patient
  <2>3. CASE alive[p]
    <3>1. /\ u.interval = i /\ u.timeout = t.timeout
          /\ u.expired <=> (t.expired \/ (w # Unset /\ w > t.timeout))
          /\ u.sinceSent = IF Due(Aged(p)) THEN 0 ELSE Older(s, i - 1)
          /\ r # Unset => w \in Nat /\ w <= r + 1
          /\ r = Unset => w = Unset \/ (w = 0 /\ u.sinceSent = 0)
          /\ Due(Aged(p)) <=> ~t.expired /\ (Older(s, i - 1) # Unset => Older(s, i - 1) >= i)
      BY <1>2, <2>3
    <3>2. Patient(p) /\ i + 2 * MaxDelay <= t.timeout
      BY <1>4, <3>1 DEF Patient
    <3>3. ~t.expired /\ Hears(p) /\ (s # Unset => s < i)
      BY <1>0, <2>1, <2>3, <3>2 DEF AliveInv, Connected
    <3>4. t \in Tracker
      BY <1>0 DEF ControlTypeOK
    <3>5. i \in Nat \ {0} /\ t.timeout \in Nat /\ s \in Nat \cup {Unset} /\ r \in Nat \cup {Unset}
      <4>1. r \in Nat \cup {Unset}
        BY <3>4, ReferenceIs
      <4>2. i \in 1..MaxMillis /\ t.timeout \in 1..MaxMillis /\ s \in Nat \cup {Unset}
        <5> HIDE DEF t
        <5> QED BY <3>4 DEF Tracker
      <4> HIDE DEF t, r
      <4> QED BY <4>1, <4>2
    <3>6. \A o \in End : \A m \in Messages(o) : m.age \in Nat
      BY <1>0 DEF BaseInv, FramesOK, IsMessage
    <3>7. MaxDelay \in Nat /\ Unset \notin Nat
      OBVIOUS
    <3> DEFINE Fine == w <= t.timeout /\ Hears(p)'
    <3>8. CASE r = Unset
      <4>1. CASE w = Unset
        BY <3>1, <3>3, <4>1 DEF Hears
      <4>2. CASE w = 0 /\ u.sinceSent = 0
        <5>1. ~u.expired
          <6> HIDE DEF t, u, w, s, r, i
          <6> QED BY <3>1, <3>3, <3>5, <4>2
        <5>2. Hears(p)'
          BY <4>2, <3>7 DEF Hears
        <5> QED BY <5>1, <5>2
      <4> QED BY <3>1, <3>8, <4>1, <4>2
    <3>9. CASE r # Unset
      <4>0. w \in Nat /\ w <= r + 1 /\ r \in Nat
        BY <3>1, <3>5, <3>9
      <4>1. ASSUME NEW m \in Messages(p), r <= i + MaxDelay + m.age
            PROVE  Fine
        <5>1. m.age \in Nat /\ m.age < MaxDelay
          BY <1>0, <2>3, <3>6, SecondIs
        <5> DEFINE n == [frame |-> m.frame, age |-> m.age + 1]
        <5>2. n \in Messages(p)' /\ n.age = m.age + 1
          BY <1>0, <2>3, SecondIs
        <5> HIDE DEF t, u, w, s, r, i, n
        <5>3. w <= i + MaxDelay + n.age /\ w <= t.timeout
          BY <3>2, <3>5, <3>7, <4>0, <4>1, <5>1, <5>2
        <5>4. w <= u.interval + MaxDelay + n.age
          BY <3>1, <5>3
        <5> QED BY <5>2, <5>3, <5>4 DEF Hears, w, u
      <4>2. ASSUME NEW m \in Messages(q), m.frame = EncodeKeepAlive(FALSE), r <= i + m.age
            PROVE  Fine
        <5>1. m.age \in Nat /\ m.age < MaxDelay
          BY <1>0, <2>0, <2>1, <3>6, SecondIs
        <5> DEFINE n == [frame |-> m.frame, age |-> m.age + 1]
        <5>2. n \in Messages(q)' /\ n.age = m.age + 1 /\ n.frame = EncodeKeepAlive(FALSE)
          BY <1>0, <2>0, <2>1, <4>2, SecondIs
        <5> HIDE DEF t, u, w, s, r, i, n
        <5>3. w <= i + n.age /\ w <= t.timeout
          BY <3>2, <3>5, <3>7, <4>0, <4>2, <5>1, <5>2
        <5>4. w <= u.interval + n.age
          BY <3>1, <5>3
        <5> QED BY <5>2, <5>3, <5>4 DEF Hears, w, u
      <4>3. ASSUME r <= IF s = Unset THEN 0 ELSE s
            PROVE  Fine
        <5> DEFINE old == Older(s, i - 1)
        <5>1. (s = Unset /\ old = Unset) \/ (s \in Nat /\ s < i /\ old = s + 1)
          <6>1. s \in Nat /\ s < i => s <= i - 1 /\ i - 1 \in Int
            <7> HIDE DEF i, s
            <7> QED BY <3>5
          <6> HIDE DEF i, s, t
          <6> QED BY <3>3, <3>5, <6>1, OlderBy DEF Older
        <5>2. w <= i /\ w <= t.timeout
          <6> HIDE DEF t, u, w, s, r, i, old
          <6> QED BY <3>2, <3>5, <3>7, <4>0, <4>3, <5>1
        <5>3. CASE Due(Aged(p))
          <6> DEFINE n == Fresh(EncodeKeepAlive(FALSE))
          <6>1. n \in Messages(q)' /\ n.frame = EncodeKeepAlive(FALSE) /\ n.age = 0
            BY <1>0, <2>0, <2>1, <2>3, <5>3, SecondIs, FreshIs
          <6> HIDE DEF n, t, u, w, s, r, i
          <6>2. w <= u.interval + n.age
            BY <3>1, <3>5, <5>2, <4>0, <6>1
          <6> QED BY <5>2, <6>1, <6>2 DEF Hears, w, u
        <5>4. CASE ~Due(Aged(p))
          <6>1. u.sinceSent = old /\ old # Unset /\ w <= old
            <7> HIDE DEF t, u, w, s, r, i, old
            <7>1. u.sinceSent = old
              BY <3>1, <5>4 DEF old
            <7>2. old # Unset
              BY <3>1, <3>3, <5>4 DEF old
            <7> QED BY <3>7, <4>0, <4>3, <5>1, <7>1, <7>2
          <6> HIDE DEF t, s, r, i, old
          <6> QED BY <5>2, <6>1 DEF Hears
        <5> QED BY <5>3, <5>4
      <4>4. Fine
        BY <3>3, <3>9, <4>1, <4>2, <4>3 DEF Hears
      <4>5. ~u.expired
        <5> HIDE DEF t, u, w, s, r, i
        <5> QED BY <3>1, <3>3, <3>5, <4>0, <4>4
      <4> QED BY <4>4, <4>5
    <3> QED BY <3>8, <3>9
  <2> QED BY <2>2, <2>3
<1> QED BY <1>0, <1>1, <1>3, <1>4 DEF AliveInv

(* Any other step leaves the rhythm of an end as it was; it may hear of the   *)
(* other, whose answer is then on its way.                                    *)
LEMMA KeepAliveAlive ==
  ASSUME AliveInv, BaseInv', topic = "alive", NEW o \in End, OnKeepAlive(o)
  PROVE  AliveInv'
<1> DEFINE m0 == link.to[o][1]
           ack == DecodeKeepAlive(First(o)).ack
           answer == IF tracker[o].expired \/ ack THEN <<>> ELSE <<EncodeKeepAlive(TRUE)>>
           back == EncodeKeepAlive(TRUE)
           beat == EncodeKeepAlive(FALSE)
<1>0. /\ BaseInv /\ ControlTypeOK /\ LinkOK /\ Other(o) \in End /\ Other(o) # o
      /\ MaxDelay \in Nat /\ Unset \notin Nat
  BY Ends DEF AliveInv, BaseInv
<1>1. /\ Arrives(o) /\ UNCHANGED <<topic, alive>> /\ TakesAndAnswers(o, answer)
      /\ IF tracker[o].expired THEN tracker' = tracker
         ELSE tracker' = [tracker EXCEPT ![o].sinceReceived = 0]
  BY DEF OnKeepAlive
<1>2. link.to[o] # <<>> /\ m0 \in Messages(o) /\ First(o) = m0.frame /\ m0.frame \in Beats
  BY <1>0, <1>1, FirstIs DEF AliveInv, BaseInv, FramesOK
<1>3. answer = <<>> \/ (answer # <<>> /\ answer[1] = back)
  OBVIOUS
<1>4. m0.frame = beat /\ ~tracker[o].expired => answer # <<>>
  <2>1. DecodeKeepAlive(beat) = [ack |-> FALSE]
    BY DEF DecodeKeepAlive, DecodeV1, EncodeKeepAlive, ControlFrame, OUTER_KEEP_ALIVE
  <2>2. m0.frame = beat => ~ack
    <3>1. m0.frame = beat => First(o) = beat
      BY <1>2
    <3>2. [ack |-> FALSE].ack = FALSE
      OBVIOUS
    <3> HIDE DEF m0, beat
    <3> QED BY <2>1, <3>1, <3>2
  <2> HIDE DEF ack, m0, beat
  <2> QED BY <2>2
<1> HIDE DEF answer
<1>5. /\ link'.cut = link.cut
      /\ Messages(o)' \subseteq Messages(o)
      /\ Messages(o) \subseteq Messages(o)' \cup {m0}
      /\ Messages(Other(o)) \subseteq Messages(Other(o))'
      /\ Messages(Other(o))' \subseteq Messages(Other(o)) \cup (IF answer = <<>> THEN {} ELSE {Fresh(answer[1])})
      /\ answer # <<>> /\ ~link.cut => Fresh(answer[1]) \in Messages(Other(o))'
  BY <1>0, <1>1, <1>2, TakesIs
<1>6. ASSUME NEW p \in End
      PROVE  /\ tracker'[p].interval = tracker[p].interval /\ tracker'[p].timeout = tracker[p].timeout
             /\ tracker'[p].expired = tracker[p].expired /\ tracker'[p].sinceSent = tracker[p].sinceSent
             /\ p = o /\ ~tracker[p].expired => Reference(tracker'[p]) = 0
             /\ p # o => tracker'[p] = tracker[p]
  <2> DEFINE t == tracker[o]
             u == [t EXCEPT !.sinceReceived = 0]
  <2>1. tracker \in [End -> Tracker] /\ t \in Tracker
    BY <1>0 DEF ControlTypeOK
  <2>2. tracker' = tracker \/ tracker' = [tracker EXCEPT ![o] = u]
    BY <1>1, <2>1
  <2>3. ~tracker[o].expired => tracker' = [tracker EXCEPT ![o] = u]
    BY <1>1, <2>1
  <2>4. u.interval = t.interval /\ u.timeout = t.timeout /\ u.expired = t.expired
        /\ u.sinceSent = t.sinceSent /\ u.sinceReceived = 0
    <3> HIDE DEF t
    <3> QED BY <2>1 DEF Tracker
  <2>5. Reference(u) = 0
    <3> HIDE DEF u
    <3> QED BY <1>0, <2>4 DEF Reference
  <2> HIDE DEF u
  <2> QED BY <2>1, <2>2, <2>3, <2>4, <2>5
<1>7. ASSUME NEW p \in End, alive[p], NEW n \in Messages(p)'
      PROVE  n.age <= MaxDelay
  <2>1. n \in Messages(p) \/ n = Fresh(back)
    BY <1>3, <1>5, Ends
  <2>2. CASE n \in Messages(p)
    BY <1>7, <2>2 DEF AliveInv
  <2>3. CASE n = Fresh(back)
    <3>1. n.age = 0
      BY <2>3, FreshIs
    <3> QED BY <1>0, <3>1
  <2> QED BY <2>1, <2>2, <2>3
<1>8. ASSUME NEW p \in End, alive[p], ~tracker'[p].expired, tracker'[p].sinceSent # Unset
      PROVE  tracker'[p].sinceSent < tracker'[p].interval
  BY <1>6, <1>8 DEF AliveInv
<1>9. ASSUME NEW p \in End, Patient(p)', Connected(p)'
      PROVE  ~tracker'[p].expired /\ (alive[p] => Hears(p)')
  <2>1. Patient(p) /\ Connected(p)
    BY <1>1, <1>5, <1>6, <1>9, Ends DEF Patient, Connected
  <2>2. ~tracker[p].expired /\ (alive[p] => Hears(p))
    BY <2>1 DEF AliveInv
  <2>3. ~tracker'[p].expired
    BY <1>6, <2>2
  <2>4. tracker[p] \in Tracker
    BY <1>0 DEF ControlTypeOK
  <2>5. tracker[p].sinceSent \in Nat \cup {Unset}
    BY <2>4 DEF Tracker
  <2>6. CASE p = o
    <3>1. Reference(tracker'[p]) = 0 /\ tracker'[p].sinceSent = tracker[p].sinceSent
      BY <1>6, <2>2, <2>6
    <3>2. 0 <= IF tracker[p].sinceSent = Unset THEN 0 ELSE tracker[p].sinceSent
      BY <1>0, <2>5
    <3>3. Hears(p)'
      BY <3>1, <3>2 DEF Hears
    <3> QED BY <2>3, <3>3
  <2>7. CASE p # o /\ alive[p]
    <3>1. tracker'[p] = tracker[p] /\ o = Other(p) /\ p = Other(o)
      BY <1>6, <2>7, Ends
    <3>2. ~tracker[o].expired /\ ~link.cut /\ alive[o]
      BY <2>1, <3>1 DEF Connected
    <3> DEFINE t == tracker[p]
               r == Reference(t)
               i == t.interval
               s == t.sinceSent
    <3>3. \/ r = Unset
          \/ \E m \in Messages(p) : r <= i + MaxDelay + m.age
          \/ \E m \in Messages(o) : m.frame = beat /\ r <= i + m.age
          \/ r <= IF s = Unset THEN 0 ELSE s
      BY <2>2, <2>7, <3>1 DEF Hears
    <3>4. ASSUME r = Unset PROVE Hears(p)'
      BY <3>1, <3>4 DEF Hears
    <3>5. ASSUME NEW m \in Messages(p), r <= i + MaxDelay + m.age
          PROVE  Hears(p)'
      <4>1. m \in Messages(p)'
        BY <1>5, <3>1
      <4> QED BY <3>1, <3>5, <4>1 DEF Hears
    <3>6. ASSUME NEW m \in Messages(o), m.frame = beat, r <= i + m.age
          PROVE  Hears(p)'
      <4>1. CASE m \in Messages(o)'
        BY <3>1, <3>6, <4>1 DEF Hears
      <4>2. CASE m = m0
        <5>1. Fresh(back) \in Messages(p)' /\ Fresh(back).age = 0
          <6>1. answer # <<>> /\ answer[1] = back
            BY <1>3, <1>4, <3>2, <3>6, <4>2
          <6> HIDE DEF back
          <6> QED BY <1>5, <3>1, <3>2, <6>1, FreshIs
        <5>2. m.age \in Nat /\ m.age <= MaxDelay
          BY <1>0, <3>2, <3>6 DEF AliveInv, BaseInv, FramesOK, IsMessage
        <5>3. r <= i + MaxDelay + Fresh(back).age
          <6>1. r \in Nat \cup {Unset} /\ i \in Nat
            <7>1. r \in Nat \cup {Unset}
              BY <2>4, ReferenceIs
            <7>2. i \in 1..MaxMillis
              BY <2>4 DEF Tracker
            <7> HIDE DEF r, i
            <7> QED BY <7>1, <7>2
          <6> HIDE DEF r, i, back
          <6>2. CASE r \in Nat
            BY <1>0, <3>6, <5>1, <5>2, <6>1, <6>2
          <6>3. CASE r = Unset
            BY <1>0, <3>6, <5>1, <5>2, <6>1, <6>3
          <6> QED BY <6>1, <6>2, <6>3
        <5> HIDE DEF back
        <5> QED BY <3>1, <5>1, <5>3 DEF Hears
      <4> QED BY <1>5, <4>1, <4>2
    <3>7. ASSUME r <= IF s = Unset THEN 0 ELSE s
          PROVE  Hears(p)'
      BY <3>1, <3>7 DEF Hears
    <3>8. Hears(p)'
      BY <3>3, <3>4, <3>5, <3>6, <3>7
    <3> QED BY <2>3, <3>8
  <2> QED BY <2>3, <2>6, <2>7
<1> QED BY <1>1, <1>7, <1>8, <1>9 DEF AliveInv

LEMMA AliveStep ==
  ASSUME AckInv, AliveInv, [ControlNext]_controlVars
  PROVE  AliveInv'
<1>1. BaseInv' /\ BaseInv
  BY AckStep DEF AckInv
<1>2. CASE topic # "alive"
  <2>1. UNCHANGED topic /\ (UNCHANGED tracker \/ \E p \in End : OnKeepAlive(p))
    BY <1>2 DEF ControlNext, controlVars, Second, Cut, ForeignSpeaks, ForeignListens, Receive,
         OnKeepAlive, OnBytesPayload, OnDisconnection, OnChunk, OnAck, Crash, Begin, Leave, SendPayload
  <2>2. CASE UNCHANGED tracker
    BY <1>1, <1>2, <2>1, <2>2 DEF AliveInv
  <2>3. ASSUME NEW p \in End, OnKeepAlive(p)
        PROVE  AliveInv'
    <3>1. tracker' = tracker \/ tracker' = [tracker EXCEPT ![p].sinceReceived = 0]
      BY <2>3 DEF OnKeepAlive
    <3> DEFINE t == tracker[p]
               u == [t EXCEPT !.sinceReceived = 0]
    <3>2. tracker \in [End -> Tracker] /\ t \in Tracker
      BY <1>1 DEF BaseInv, ControlTypeOK
    <3>3. tracker' = tracker \/ tracker' = [tracker EXCEPT ![p] = u]
      BY <3>1, <3>2
    <3>4. u.expired = t.expired
      <4> HIDE DEF t
      <4> QED BY <3>2 DEF Tracker
    <3> HIDE DEF u
    <3>5. \A o \in End : tracker'[o].expired = tracker[o].expired
      BY <3>2, <3>3, <3>4
    <3> QED BY <1>1, <1>2, <2>1, <3>5 DEF AliveInv
  <2> QED BY <2>1, <2>2, <2>3
<1>3. ASSUME topic = "alive", UNCHANGED <<topic, link, alive, tracker>>
      PROVE  AliveInv'
  <2>1. \A p \in End : Messages(p)' = Messages(p)
    BY <1>3 DEF Messages
  <2>2. \A p \in End : (Hears(p)' <=> Hears(p)) /\ (Patient(p)' <=> Patient(p)) /\ (Connected(p)' <=> Connected(p))
    BY <1>3, <2>1, Ends DEF Hears, Patient, Connected
  <2> QED BY <1>1, <1>3, <2>1, <2>2 DEF AliveInv
<1>4. ASSUME topic = "alive", NEW o \in End, Crash(o)
      PROVE  AliveInv'
  <2>1. alive \in [End -> BOOLEAN] /\ alive' = [alive EXCEPT ![o] = FALSE]
        /\ UNCHANGED <<topic, link, tracker>>
    BY <1>1, <1>4 DEF Crash, BaseInv, ControlTypeOK
  <2>2. \A p \in End : Messages(p)' = Messages(p)
    BY <2>1 DEF Messages
  <2>3. \A p \in End : (Hears(p)' <=> Hears(p)) /\ (Patient(p)' <=> Patient(p)) /\ (Connected(p)' => Connected(p))
                       /\ (alive'[p] => alive[p])
    BY <2>1, <2>2, Ends DEF Hears, Patient, Connected
  <2> QED BY <1>1, <1>4, <2>1, <2>2, <2>3 DEF AliveInv
<1>5. ASSUME topic = "alive", Cut
      PROVE  AliveInv'
  <2>1. link' = Gone /\ UNCHANGED <<topic, foreign, alive, tracker, said>>
    BY <1>5 DEF Cut
  <2>2. link'.cut /\ \A p \in End : Messages(p)' = {}
    BY <1>1, <2>1, CutBase DEF Gone
  <2>3. \A p \in End : ~Connected(p)'
    BY <2>2 DEF Connected
  <2> QED BY <1>1, <1>5, <2>1, <2>2, <2>3 DEF AliveInv
<1>6. ASSUME topic = "alive", ControlNext
      PROVE  AliveInv'
  <2>1. \/ Second \/ Cut \/ \E p \in End : OnKeepAlive(p) \/ Crash(p)
    BY <1>1, <1>6 DEF ControlNext, ForeignSpeaks, ForeignListens, Receive, OnBytesPayload, OnDisconnection,
         OnChunk, OnAck, Begin, Leave, SendPayload, BaseInv
  <2> QED BY <1>1, <1>4, <1>5, <1>6, <2>1, SecondAlive, KeepAliveAlive
<1> QED BY <1>2, <1>3, <1>6 DEF controlVars

(* An end whose policy leaves room for a round trip declares no connection    *)
(* dead while the other end runs, listens and is linked to it                 *)
(* (KeepAliveTracker::expired), whatever the two rhythms are.                 *)
THEOREM AliveTheorem == ControlSpec => []NoFalseDeath
<1>1. ControlInit => AckInv /\ AliveInv
  <2> SUFFICES ASSUME ControlInit PROVE AliveInv
    BY AckStarts
  <2>1. BaseInv /\ link.to = [p \in End |-> <<>>]
    BY BaseStarts DEF ControlInit
  <2>2. DOMAIN <<>> = {}
    OBVIOUS
  <2>3. \A p \in End : Messages(p) = {}
    BY <2>1, <2>2 DEF Messages
  <2>4. PICK policy : tracker = [p \in End |-> NewTracker(policy[p])]
    BY DEF ControlInit
  <2>5. \A p \in End : /\ ~tracker[p].expired /\ tracker[p].sinceSent = Unset
                       /\ Reference(tracker[p]) = Unset
    BY <2>4 DEF NewTracker, Reference
  <2>6. \A p \in End : Hears(p)
    BY <2>5 DEF Hears
  <2> QED BY <2>1, <2>3, <2>5, <2>6 DEF AliveInv
<1>2. AckInv /\ AliveInv /\ [ControlNext]_controlVars => AckInv' /\ AliveInv'
  BY AckStep, AliveStep
<1>3. AliveInv => NoFalseDeath
  BY AliveImplied
<1> QED BY <1>1, <1>2, <1>3, PTL DEF ControlSpec

=============================================================================
