---------------------------- MODULE RuntimeProofs ----------------------------
(* Four parts of the daemon, each for any values of its constants: the bytes  *)
(* of a grant (HostPorts), the routes planned from what was discovered        *)
(* (Discovery), the scopes of the local control API (LocalApi), which         *)
(* MCRuntime checks side by side, and the worker processes (WorkerSupervisor). *)
EXTENDS HostPorts, Discovery, LocalApi, WorkerSupervisor, InductionLemmas, SequenceTheorems

USE HostAssumption

-----------------------------------------------------------------------------
(* Grants and sinks.                                                          *)

(* The sum that the property speaks of.                                       *)
LEMMA SumOfIs == \A f : SumOf(f) = SumTotal(f, DOMAIN f)
BY DEF SumOf, FoldFunction, SumTotal

BytesIn(s) == [h \in DOMAIN s |-> s[h].bytes]
ConsumedIn(l) == [id \in DOMAIN l |-> l[id].consumed_bytes]

HostInv ==
  /\ TypeOK
  /\ Len(ledger) =< MaxGrants
  /\ \A h \in DOMAIN sinks : sinks[h].grant \in GrantId
  /\ SumTotal(BytesIn(sinks), DOMAIN sinks) = SumTotal(ConsumedIn(ledger), GrantId)

LEMMA HostInvCounts == HostInv => BytesAreCounted
<1> SUFFICES ASSUME HostInv PROVE BytesAreCounted
  OBVIOUS
<1>1. SumOf(BytesIn(sinks)) = SumTotal(BytesIn(sinks), DOMAIN sinks)
  BY SumOfIs DEF BytesIn
<1>2. SumOf(ConsumedIn(ledger)) = SumTotal(ConsumedIn(ledger), GrantId)
  BY SumOfIs DEF ConsumedIn, GrantId
<1> QED BY <1>1, <1>2 DEF HostInv, BytesAreCounted, BytesIn, ConsumedIn, GrantId

LEMMA HostTypes ==
  ASSUME HostInv
  PROVE  /\ ledger \in Seq(Grant) /\ sinks \in Seq(SinkState)
         /\ Len(ledger) \in Nat /\ DOMAIN ledger = 1..Len(ledger)
         /\ Len(sinks) \in Nat /\ DOMAIN sinks = 1..Len(sinks)
         /\ IsFiniteSet(DOMAIN ledger) /\ IsFiniteSet(DOMAIN sinks)
         /\ \A id \in DOMAIN ledger : /\ ledger[id] \in Grant
                                      /\ ConsumedIn(ledger)[id] = ledger[id].consumed_bytes
                                      /\ ConsumedIn(ledger)[id] \in Nat
         /\ \A h \in DOMAIN sinks : /\ sinks[h] \in SinkState
                                    /\ BytesIn(sinks)[h] = sinks[h].bytes
                                    /\ BytesIn(sinks)[h] \in Nat
<1>1. ledger \in Seq(Grant) /\ sinks \in Seq(SinkState)
  BY DEF HostInv, TypeOK
<1>2. /\ Len(ledger) \in Nat /\ DOMAIN ledger = 1..Len(ledger)
      /\ Len(sinks) \in Nat /\ DOMAIN sinks = 1..Len(sinks)
  BY <1>1
<1>3. IsFiniteSet(DOMAIN ledger) /\ IsFiniteSet(DOMAIN sinks)
  <2>1. 1 \in Int /\ Len(ledger) \in Int /\ Len(sinks) \in Int
    BY <1>2
  <2>2. IsFiniteSet(1..Len(ledger)) /\ IsFiniteSet(1..Len(sinks))
    BY <2>1, FS_Interval
  <2> QED BY <1>2, <2>2
<1>4. \A id \in DOMAIN ledger : ledger[id] \in Grant
  BY <1>1
<1>5. \A h \in DOMAIN sinks : sinks[h] \in SinkState
  BY <1>1
<1>6. \A id \in DOMAIN ledger : ConsumedIn(ledger)[id] = ledger[id].consumed_bytes
                                /\ ConsumedIn(ledger)[id] \in Nat
  BY <1>4 DEF ConsumedIn, Grant
<1>7. \A h \in DOMAIN sinks : BytesIn(sinks)[h] = sinks[h].bytes /\ BytesIn(sinks)[h] \in Nat
  BY <1>5 DEF BytesIn, SinkState
<1> QED BY <1>1, <1>2, <1>3, <1>4, <1>5, <1>6, <1>7

(* Grants that are issued have counted nothing.                               *)
LEMMA IssuesKeep ==
  ASSUME HostInv, NEW issued \in Seq(Grant),
         \A i \in DOMAIN issued : issued[i].consumed_bytes = 0,
         ledger' = ledger \o issued, Len(ledger') =< MaxGrants,
         UNCHANGED <<now, sinks, reads>>
  PROVE  HostInv'
<1>1. /\ ledger' \in Seq(Grant)
      /\ Len(ledger') = Len(ledger) + Len(issued)
      /\ \A i \in 1..(Len(ledger) + Len(issued)) :
           ledger'[i] = IF i =< Len(ledger) THEN ledger[i] ELSE issued[i - Len(ledger)]
  BY HostTypes, ConcatProperties
<1>2. /\ Len(issued) \in Nat /\ DOMAIN issued = 1..Len(issued)
      /\ DOMAIN ledger' = 1..(Len(ledger) + Len(issued))
      /\ DOMAIN ledger \subseteq DOMAIN ledger'
  BY <1>1, HostTypes
<1>3. \A id \in DOMAIN ledger : ledger'[id] = ledger[id]
  BY <1>1, <1>2, HostTypes
<1>4. \A id \in DOMAIN ledger' \ DOMAIN ledger : ledger'[id].consumed_bytes = 0
  <2> TAKE id \in DOMAIN ledger' \ DOMAIN ledger
  <2>1. ~ (id =< Len(ledger)) /\ id - Len(ledger) \in DOMAIN issued
    BY <1>2, HostTypes
  <2> QED BY <1>1, <1>2, <2>1
<1>5. \A id \in DOMAIN ledger' : ledger'[id] \in Grant
                                 /\ ConsumedIn(ledger')[id] = ledger'[id].consumed_bytes
                                 /\ ConsumedIn(ledger')[id] \in Int
  <2>1. \A id \in DOMAIN ledger' : ledger'[id] \in Grant
    BY <1>1
  <2> QED BY <2>1 DEF ConsumedIn, Grant
<1>6. IsFiniteSet(DOMAIN ledger')
  <2>1. Len(ledger) + Len(issued) \in Int
    BY <1>2, HostTypes
  <2>2. IsFiniteSet(1..(Len(ledger) + Len(issued)))
    BY <2>1, FS_Interval
  <2> QED BY <1>2, <2>2
<1>7. SumTotal(ConsumedIn(ledger'), DOMAIN ledger') = SumTotal(ConsumedIn(ledger'), DOMAIN ledger)
  <2>1. \A id \in DOMAIN ledger' \ DOMAIN ledger : ConsumedIn(ledger')[id] = 0
    BY <1>4, <1>5
  <2>2. \A id \in DOMAIN ledger' : ConsumedIn(ledger')[id] \in Int
    BY <1>5
  <2>3. DOMAIN ledger \in SUBSET DOMAIN ledger'
    BY <1>2
  <2> QED BY ONLY <1>6, <2>1, <2>2, <2>3, SumZeros
<1>8. SumTotal(ConsumedIn(ledger'), DOMAIN ledger) = SumTotal(ConsumedIn(ledger), DOMAIN ledger)
  <2>1. \A id \in DOMAIN ledger : ConsumedIn(ledger')[id] = ConsumedIn(ledger)[id]
    BY <1>2, <1>3, <1>5, HostTypes
  <2>2. \A id \in DOMAIN ledger : ConsumedIn(ledger)[id] \in Int
    BY HostTypes
  <2> QED BY <2>1, <2>2, HostTypes, SumSame
<1>9. sinks' = sinks /\ reads' = reads /\ now' = now
  OBVIOUS
<1>10. SumTotal(BytesIn(sinks'), DOMAIN sinks') = SumTotal(ConsumedIn(ledger'), DOMAIN ledger')
  BY <1>7, <1>8, <1>9 DEF HostInv, GrantId
<1> QED BY <1>1, <1>2, <1>9, <1>10 DEF HostInv, TypeOK, GrantId

LEMMA EntryGrantIs ==
  ASSUME HostInv, NEW subject \in Subject, NEW session \in Session, NEW entry \in Entry,
         NEW direction \in Direction, NEW budget \in Size
  PROVE  /\ EntryGrant(subject, session, entry, direction, budget) \in Grant
         /\ EntryGrant(subject, session, entry, direction, budget).consumed_bytes = 0
<1>1. now + GrantTtl \in Nat
  BY DEF HostInv, TypeOK
<1> QED BY <1>1 DEF EntryGrant, Grant, Scope

LEMMA AdmitKeeps ==
  ASSUME HostInv, NEW profile \in Profile, NEW attempt \in Attempt,
         NEW wanted \in SUBSET Entry, NEW scopes \in SUBSET ScopeKind,
         NEW order \in SetToSeqs(wanted), NEW budget \in [wanted -> Size],
         Admit(profile, attempt, order, budget, scopes)
  PROVE  HostInv'
<1> DEFINE grant(i) == EntryGrant(ProviderSubject[profile], attempt, order[i], "Write", budget[order[i]])
           issued == [i \in DOMAIN order |-> grant(i)]
<1>1. order \in [1..Cardinality(wanted) -> wanted] /\ Cardinality(wanted) \in Nat
  <2>1. IsFiniteSet(wanted)
    BY FS_Subset
  <2> QED BY <2>1, FS_CardinalityType DEF SetToSeqs
<1>2. ProviderSubject[profile] \in Subject
  BY DEF Subject, Range
<1>3. \A i \in DOMAIN order : order[i] \in Entry /\ budget[order[i]] \in Size
  BY <1>1
<1>4. \A i \in DOMAIN order : grant(i) \in Grant /\ grant(i).consumed_bytes = 0
  BY <1>2, <1>3, EntryGrantIs DEF Session, Direction
<1> HIDE DEF grant
<1>5. issued \in Seq(Grant) /\ \A i \in DOMAIN issued : issued[i].consumed_bytes = 0
  <2>1. DOMAIN order = 1..Cardinality(wanted)
    BY <1>1
  <2>2. issued = [i \in 1..Cardinality(wanted) |-> grant(i)]
    BY <2>1
  <2>3. \A i \in 1..Cardinality(wanted) : grant(i) \in Grant /\ grant(i).consumed_bytes = 0
    BY <1>4, <2>1
  <2> HIDE DEF issued
  <2>4. DOMAIN issued = 1..Cardinality(wanted) /\ \A i \in DOMAIN issued : issued[i] = grant(i)
    BY <2>2
  <2>5. issued \in Seq(Grant)
    BY <1>1, <2>2, <2>3
  <2> QED BY <2>3, <2>4, <2>5
<1>6. ledger' = ledger \o issued /\ UNCHANGED <<now, sinks, reads>> /\ Len(ledger \o order) =< MaxGrants
  BY DEF Admit, grant
<1>7. Len(ledger \o order) = Len(ledger \o issued)
  <2>1. order \in Seq(Entry) /\ Len(order) = Len(issued)
    BY <1>1
  <2>2. Len(ledger \o order) = Len(ledger) + Len(order)
    BY <2>1, HostTypes
  <2>3. Len(ledger \o issued) = Len(ledger) + Len(issued)
    BY <1>5, HostTypes
  <2> QED BY <2>1, <2>2, <2>3
<1> HIDE DEF issued
<1>8. Len(ledger') =< MaxGrants
  BY <1>6, <1>7
<1> QED BY <1>5, <1>6, <1>8, IssuesKeep

LEMMA IssueScopedKeeps ==
  ASSUME HostInv, NEW subject \in Subject, NEW session \in Session, NEW scope \in Scope,
         NEW direction \in Direction, NEW budget \in Size,
         IssueScoped(subject, session, scope, direction, budget)
  PROVE  HostInv'
<1> DEFINE grant == EntryGrant(subject, session, scope.entry, direction, budget)
<1>1. scope.entry \in Entry
  BY DEF IssueScoped, Scope, Issuable, ScopeKind
<1>2. grant \in Grant /\ grant.consumed_bytes = 0
  BY <1>1, EntryGrantIs
<1>3. ledger' = Append(ledger, grant) /\ UNCHANGED <<now, sinks, reads>> /\ Len(ledger) < MaxGrants
  BY DEF IssueScoped
<1> HIDE DEF grant
<1>4. <<grant>> \in Seq(Grant) /\ Append(ledger, grant) = ledger \o <<grant>>
  BY <1>2, HostTypes, AppendIsConcat
<1>5. \A i \in DOMAIN <<grant>> : <<grant>>[i].consumed_bytes = 0
  BY <1>2
<1>6. Len(ledger') =< MaxGrants
  BY <1>2, <1>3, HostTypes
<1> QED BY <1>3, <1>4, <1>5, <1>6, IssuesKeep

LEMMA OpenSinkKeeps ==
  ASSUME HostInv, NEW id \in GrantId, NEW subject \in Subject, OpenSink(id, subject)
  PROVE  HostInv'
<1> DEFINE sink == [grant |-> id, bytes |-> 0, committed |-> FALSE]
<1>1. sinks' = Append(sinks, sink) /\ UNCHANGED <<now, ledger, reads>>
  BY DEF OpenSink
<1>2. sink \in SinkState
  <2>1. id \in 1..MaxGrants
    BY HostTypes DEF HostInv, GrantId
  <2> QED BY <2>1 DEF SinkState
<1>3. sink.grant = id /\ sink.bytes = 0
  OBVIOUS
<1> HIDE DEF sink
<1>4. /\ sinks' \in Seq(SinkState) /\ DOMAIN sinks' = 1..(Len(sinks) + 1)
      /\ \A h \in DOMAIN sinks : sinks'[h] = sinks[h]
      /\ sinks'[Len(sinks) + 1] = sink
  BY <1>1, <1>2, HostTypes, AppendProperties
<1>5. \A h \in DOMAIN sinks' : h \in DOMAIN sinks \/ h = Len(sinks) + 1
  BY <1>4, HostTypes
<1>6. DOMAIN sinks \subseteq DOMAIN sinks' /\ IsFiniteSet(DOMAIN sinks')
  <2>1. DOMAIN sinks = 1..Len(sinks) /\ Len(sinks) \in Nat
    BY HostTypes
  <2>2. IsFiniteSet(1..(Len(sinks) + 1))
    <3> DEFINE n == Len(sinks) + 1
    <3>1. 1 \in Int /\ n \in Int
      BY <2>1
    <3> HIDE DEF n
    <3>2. IsFiniteSet(1..n)
      BY <3>1, FS_Interval
    <3> QED BY <3>2 DEF n
  <2> QED BY <1>4, <2>1, <2>2
<1>7. \A h \in DOMAIN sinks' : BytesIn(sinks')[h] = sinks'[h].bytes /\ BytesIn(sinks')[h] \in Int
  <2>1. \A h \in DOMAIN sinks' : sinks'[h] \in SinkState
    BY <1>4
  <2> QED BY <2>1 DEF BytesIn, SinkState
<1>8. SumTotal(BytesIn(sinks'), DOMAIN sinks') = SumTotal(BytesIn(sinks'), DOMAIN sinks)
  <2>1. \A h \in DOMAIN sinks' \ DOMAIN sinks : BytesIn(sinks')[h] = 0
    BY <1>3, <1>4, <1>5, <1>7
  <2>2. \A h \in DOMAIN sinks' : BytesIn(sinks')[h] \in Int
    BY <1>7
  <2> QED BY <1>6, <2>1, <2>2, SumZeros
<1>9. SumTotal(BytesIn(sinks'), DOMAIN sinks) = SumTotal(BytesIn(sinks), DOMAIN sinks)
  <2>1. \A h \in DOMAIN sinks : BytesIn(sinks')[h] = BytesIn(sinks)[h]
    BY <1>4, <1>6, <1>7, HostTypes
  <2>2. \A h \in DOMAIN sinks : BytesIn(sinks)[h] \in Int
    BY HostTypes
  <2> QED BY <2>1, <2>2, HostTypes, SumSame
<1>10. \A h \in DOMAIN sinks' : sinks'[h].grant \in GrantId
  BY <1>3, <1>4, <1>5 DEF HostInv
<1>11. ledger' = ledger /\ reads' = reads /\ now' = now
  BY <1>1
<1> QED BY <1>4, <1>8, <1>9, <1>10, <1>11 DEF HostInv, TypeOK, GrantId

LEMMA SinkAppendKeeps ==
  ASSUME HostInv, NEW id \in GrantId, NEW handle \in DOMAIN sinks, NEW bytes \in Size,
         SinkAppend(id, handle, bytes)
  PROVE  HostInv'
<1> DEFINE sink == [sinks[handle] EXCEPT !.bytes = @ + bytes]
           grant == [ledger[id] EXCEPT !.consumed_bytes = @ + bytes]
<1>1. /\ sinks' = [sinks EXCEPT ![handle] = sink]
      /\ ledger' = [ledger EXCEPT ![id] = grant]
      /\ UNCHANGED <<now, reads>>
  BY DEF SinkAppend
<1>2. bytes \in Nat /\ id \in DOMAIN ledger
  BY DEF GrantId
<1>3. /\ sink \in SinkState /\ sink.grant = sinks[handle].grant
      /\ sink.bytes = sinks[handle].bytes + bytes
  <2>1. sinks[handle] \in SinkState
    BY HostTypes
  <2> QED BY <1>2, <2>1 DEF SinkState
<1>4. grant \in Grant /\ grant.consumed_bytes = ledger[id].consumed_bytes + bytes
  <2>1. ledger[id] \in Grant
    BY <1>2, HostTypes
  <2> QED BY <1>2, <2>1 DEF Grant
<1> HIDE DEF sink, grant
<1>5. /\ sinks' \in Seq(SinkState) /\ DOMAIN sinks' = DOMAIN sinks
      /\ \A h \in DOMAIN sinks : sinks'[h] = IF h = handle THEN sink ELSE sinks[h]
  BY <1>1, <1>3, HostTypes
<1>6. /\ ledger' \in Seq(Grant) /\ DOMAIN ledger' = DOMAIN ledger /\ Len(ledger') = Len(ledger)
      /\ \A g \in DOMAIN ledger : ledger'[g] = IF g = id THEN grant ELSE ledger[g]
  BY <1>1, <1>2, <1>4, HostTypes
<1>7. SumTotal(BytesIn(sinks'), DOMAIN sinks) = SumTotal(BytesIn(sinks), DOMAIN sinks) + bytes
  <2>1. \A h \in DOMAIN sinks : h # handle => BytesIn(sinks')[h] = BytesIn(sinks)[h]
    BY <1>5 DEF BytesIn
  <2>2. BytesIn(sinks')[handle] = BytesIn(sinks)[handle] + bytes
    BY <1>3, <1>5 DEF BytesIn
  <2>3. \A h \in DOMAIN sinks : BytesIn(sinks)[h] \in Int
    BY HostTypes
  <2>4. BytesIn(sinks')[handle] \in Int
    BY <1>2, <2>2, <2>3
  <2>5. SumTotal(BytesIn(sinks'), DOMAIN sinks) = SumTotal(BytesIn(sinks), DOMAIN sinks)
                                       + (BytesIn(sinks')[handle] - BytesIn(sinks)[handle])
    <3>1. IsFiniteSet(DOMAIN sinks)
      BY HostTypes
    <3> QED BY <2>1, <2>3, <2>4, <3>1, SumChanges
  <2> QED BY <1>2, <2>2, <2>3, <2>5
<1>8. SumTotal(ConsumedIn(ledger'), GrantId) = SumTotal(ConsumedIn(ledger), GrantId) + bytes
  <2>1. \A g \in GrantId : g # id => ConsumedIn(ledger')[g] = ConsumedIn(ledger)[g]
    BY <1>6 DEF ConsumedIn, GrantId
  <2>2. ConsumedIn(ledger')[id] = ConsumedIn(ledger)[id] + bytes
    BY <1>2, <1>4, <1>6 DEF ConsumedIn
  <2>3. IsFiniteSet(GrantId) /\ \A g \in GrantId : ConsumedIn(ledger)[g] \in Int
    BY HostTypes DEF GrantId
  <2>4. ConsumedIn(ledger')[id] \in Int
    BY <1>2, <2>2, <2>3
  <2>5. SumTotal(ConsumedIn(ledger'), GrantId) = SumTotal(ConsumedIn(ledger), GrantId)
                                       + (ConsumedIn(ledger')[id] - ConsumedIn(ledger)[id])
    BY <2>1, <2>3, <2>4, SumChanges
  <2> QED BY <1>2, <2>2, <2>3, <2>5
<1>9. \A h \in DOMAIN sinks' : sinks'[h].grant \in DOMAIN ledger
  BY <1>3, <1>5 DEF HostInv, GrantId
<1>10. SumTotal(BytesIn(sinks'), DOMAIN sinks') = SumTotal(ConsumedIn(ledger'), DOMAIN ledger')
  BY <1>5, <1>6, <1>7, <1>8 DEF HostInv, GrantId
<1>11. reads' = reads /\ now' = now
  BY <1>1
<1> QED BY <1>5, <1>6, <1>9, <1>10, <1>11 DEF HostInv, TypeOK, GrantId

LEMMA SinkCommitKeeps ==
  ASSUME HostInv, NEW id \in GrantId, SinkCommit(id)
  PROVE  HostInv'
<1>1. /\ sinks' = [h \in DOMAIN sinks |-> IF sinks[h].grant = id
                     THEN [sinks[h] EXCEPT !.committed = TRUE] ELSE sinks[h]]
      /\ UNCHANGED <<now, ledger, reads>>
  BY DEF SinkCommit
<1>2. \A h \in DOMAIN sinks : /\ sinks'[h] \in SinkState
                              /\ sinks'[h].grant = sinks[h].grant
                              /\ sinks'[h].bytes = sinks[h].bytes
  <2> TAKE h \in DOMAIN sinks
  <2>1. sinks[h] \in SinkState
    BY HostTypes
  <2>2. CASE sinks[h].grant = id
    BY <1>1, <2>1, <2>2 DEF SinkState
  <2>3. CASE sinks[h].grant # id
    BY <1>1, <2>1, <2>3
  <2> QED BY <2>2, <2>3
<1>3. DOMAIN sinks' = DOMAIN sinks /\ sinks' \in Seq(SinkState)
  <2>1. DOMAIN sinks' = 1..Len(sinks) /\ sinks' = [h \in 1..Len(sinks) |-> sinks'[h]]
    BY <1>1, HostTypes
  <2> QED BY <1>2, <2>1, HostTypes
<1>4. SumTotal(BytesIn(sinks'), DOMAIN sinks) = SumTotal(BytesIn(sinks), DOMAIN sinks)
  <2>1. \A h \in DOMAIN sinks : BytesIn(sinks')[h] = BytesIn(sinks)[h]
    BY <1>2, <1>3 DEF BytesIn
  <2>2. \A h \in DOMAIN sinks : BytesIn(sinks)[h] \in Int
    BY HostTypes
  <2> QED BY <2>1, <2>2, HostTypes, SumSame
<1>5. ledger' = ledger /\ reads' = reads /\ now' = now
  BY <1>1
<1> QED BY <1>2, <1>3, <1>4, <1>5 DEF HostInv, TypeOK, GrantId

LEMMA HostStep == HostInv /\ [Next]_vars => HostInv'
<1> SUFFICES ASSUME HostInv, [Next]_vars PROVE HostInv'
  OBVIOUS
<1>1. ASSUME NEW profile \in Profile, NEW attempt \in Attempt,
             NEW wanted \in SUBSET Entry, NEW scopes \in SUBSET ScopeKind,
             NEW order \in SetToSeqs(wanted), NEW budget \in [wanted -> Size],
             Admit(profile, attempt, order, budget, scopes)
      PROVE  HostInv'
  BY <1>1, AdmitKeeps
<1>2. ASSUME NEW subject \in Subject, NEW session \in Session, NEW scope \in Scope,
             NEW direction \in Direction, NEW bytes \in Size,
             IssueScoped(subject, session, scope, direction, bytes)
      PROVE  HostInv'
  BY <1>2, IssueScopedKeeps
<1>3. ASSUME NEW subject, NEW session, NEW scope, NEW direction, NEW bytes,
             ContentRead(subject, session, scope, direction, bytes)
      PROVE  HostInv'
  <2> DEFINE held == {id \in GrantId : /\ ledger[id].subject = subject
                                       /\ ledger[id].session = session}
             first == CHOOSE id \in held : \A other \in held : id =< other
  <2>1. /\ held # {} /\ reads' = reads \cup {first}
        /\ UNCHANGED <<now, ledger, sinks>>
    BY <1>3 DEF ContentRead
  <2>2. first \in GrantId
    <3>1. held \in SUBSET (0..Len(ledger))
      BY HostTypes DEF GrantId
    <3>2. held \subseteq GrantId
      OBVIOUS
    <3> HIDE DEF held
    <3>3. \E id \in held : \A other \in held : id =< other
      BY <2>1, <3>1, LeastUpTo, HostTypes
    <3> QED BY <3>2, <3>3
  <2> HIDE DEF first
  <2> QED BY <2>1, <2>2 DEF HostInv, TypeOK, GrantId, BytesIn, ConsumedIn
<1>4. ASSUME NEW id \in GrantId, NEW subject \in Subject, OpenSink(id, subject)
      PROVE  HostInv'
  BY <1>4, OpenSinkKeeps
<1>5. ASSUME NEW id \in GrantId, SinkCommit(id)
      PROVE  HostInv'
  BY <1>5, SinkCommitKeeps
<1>6. ASSUME NEW id \in GrantId, NEW handle \in DOMAIN sinks, NEW bytes \in Size,
             SinkAppend(id, handle, bytes)
      PROVE  HostInv'
  BY <1>6, SinkAppendKeeps
<1>7. CASE Tick
  <2>1. now' \in 0..MaxTime /\ ledger' = ledger /\ sinks' = sinks /\ reads' = reads
    BY <1>7 DEF Tick, HostInv, TypeOK
  <2> QED BY <2>1 DEF HostInv, TypeOK, GrantId
<1>8. CASE UNCHANGED vars
  BY <1>8 DEF vars, HostInv, TypeOK, GrantId
<1> QED BY <1>1, <1>2, <1>3, <1>4, <1>5, <1>6, <1>7, <1>8 DEF Next

LEMMA HostStarts == Init => HostInv
<1> SUFFICES ASSUME Init PROVE HostInv
  OBVIOUS
<1>1. ledger = <<>> /\ sinks = <<>> /\ reads = {} /\ now = 0
  BY DEF Init
<1>2. DOMAIN sinks = {} /\ DOMAIN ledger = {}
  BY <1>1
<1>3. SumTotal(BytesIn(sinks), DOMAIN sinks) = 0 /\ SumTotal(ConsumedIn(ledger), GrantId) = 0
  BY <1>2, SumEmpty DEF GrantId
<1> QED BY <1>1, <1>2, <1>3 DEF HostInv, TypeOK, GrantId

THEOREM HostSafety == Spec => []HostInv
BY HostStarts, HostStep, PTL DEF Spec

(* host.rs: whichever grants and handles the appends combine, the bytes in    *)
(* the sinks are the bytes counted in the grants, for any number of both.     *)
THEOREM CountedTheorem == Spec => []BytesAreCounted
BY HostSafety, HostInvCounts, PTL

(* grant.rs: for any clock, sinks and grants, a file becomes final only in    *)
(* the lifetime of the grant that its sink was opened under.                  *)
THEOREM CommittedInTimeTheorem == Spec => CommittedInTime
<1> DEFINE Timely == \A h \in DOMAIN sinks :
             sinks'[h].committed /\ ~sinks[h].committed =>
               now =< ledger[sinks[h].grant].expires_at
<1>1. HostInv /\ [Next]_vars => Timely
  <2> SUFFICES ASSUME HostInv, [Next]_vars, NEW h \in DOMAIN sinks,
                      sinks'[h].committed, ~sinks[h].committed
               PROVE  now =< ledger[sinks[h].grant].expires_at
    OBVIOUS
  <2>1. sinks' # sinks
    OBVIOUS
  <2>2. ASSUME NEW id \in GrantId, NEW subject, OpenSink(id, subject)
        PROVE  FALSE
    <3>1. sinks' = Append(sinks, [grant |-> id, bytes |-> 0, committed |-> FALSE])
      BY <2>2 DEF OpenSink
    <3>2. sinks'[h] = sinks[h]
      BY <3>1, HostTypes
    <3> QED BY <3>2
  <2>3. ASSUME NEW id \in GrantId, NEW handle \in DOMAIN sinks, NEW bytes,
               SinkAppend(id, handle, bytes)
        PROVE  FALSE
    <3>1. sinks' = [sinks EXCEPT ![handle].bytes = @ + bytes]
      BY <2>3 DEF SinkAppend
    <3>2. sinks[h] \in SinkState
      BY HostTypes
    <3>3. sinks'[h].committed = sinks[h].committed
      BY <3>1, <3>2 DEF SinkState
    <3> QED BY <3>3
  <2>4. ASSUME NEW id \in GrantId, SinkCommit(id)
        PROVE  now =< ledger[sinks[h].grant].expires_at
    <3>1. sinks[h].grant = id
      BY <2>4 DEF SinkCommit
    <3>2. now =< Copy(id).expires_at
      BY <2>4 DEF SinkCommit, Authorize
    <3>3. Copy(id).expires_at = ledger[id].expires_at
      BY DEF Copy
    <3> QED BY <3>1, <3>2, <3>3
  <2> QED BY <2>1, <2>2, <2>3, <2>4
        DEF Next, Admit, IssueScoped, ContentRead, Tick, vars
<1>2. Timely => [Timely]_vars
  OBVIOUS
<1> QED BY <1>1, <1>2, HostSafety, PTL DEF Spec, CommittedInTime

-----------------------------------------------------------------------------
(* Routes are planned to live addresses.                                      *)
USE DiscoveryAssumption

(* Each address of a record was seen within what is left of the record: a     *)
(* sweep may come late, but no record outlives the sightings it stands for.   *)
DiscoveryInv ==
  /\ DiscoveryTypeOK
  /\ \A k \in DOMAIN records : \A i \in DOMAIN records[k].addresses :
       sighted[<<records[k].id, i, records[k].addresses[i]>>] >= records[k].left

(* The fold in Unexpired keeps the records with time left.                    *)
LEMMA UnexpiredFilters ==
  ASSUME NEW R, NEW seq \in Seq(R)
  PROVE  \E it : /\ Filters(it, seq, {i \in DOMAIN seq : seq[i].left >= 0})
                 /\ Unexpired(seq) = it[DOMAIN seq]
<1> DEFINE kept == {i \in DOMAIN seq : seq[i].left >= 0}
           Body(g, s) == IF s = {} THEN <<>>
                         ELSE IF seq[Max(s)].left >= 0 THEN Append(g[s \ {Max(s)}], seq[Max(s)])
                                                       ELSE g[s \ {Max(s)}]
           D(g) == g = [s \in SUBSET DOMAIN seq |-> Body(g, s)]
           it == CHOOSE g : D(g)
<1>1. Len(seq) \in Nat /\ DOMAIN seq = 1..Len(seq)
  OBVIOUS
<1>2. \A s \in SUBSET DOMAIN seq : s # {} => Max(s) \in DOMAIN seq
  BY <1>1, MaxPicks
<1>3. \A g : \A s \in SUBSET DOMAIN seq : FilterStep(g, seq, kept, s) = Body(g, s)
  BY <1>2 DEF FilterStep
<1>4. \A g : D(g) <=> Filters(g, seq, kept)
  <2> TAKE g
  <2>1. [s \in SUBSET DOMAIN seq |-> FilterStep(g, seq, kept, s)]
          = [s \in SUBSET DOMAIN seq |-> Body(g, s)]
    <3> HIDE DEF Body, kept
    <3> QED BY <1>3
  <2> QED BY <2>1 DEF Filters
<1>5. D(it)
  BY <1>4, FilterExists
<1>6. Unexpired(seq) = it[DOMAIN seq]
  BY DEF Unexpired, FoldLeft, MapThenFoldSet
<1> QED BY <1>4, <1>5, <1>6

(* Sweeping leaves some of the records, each with time left.                  *)
LEMMA UnexpiredKeeps ==
  ASSUME NEW R, NEW seq \in Seq(R)
  PROVE  /\ Unexpired(seq) \in Seq(R)
         /\ \A k \in DOMAIN Unexpired(seq) :
              \E i \in DOMAIN seq : seq[i].left >= 0 /\ Unexpired(seq)[k] = seq[i]
<1> DEFINE kept == {i \in DOMAIN seq : seq[i].left >= 0}
<1>1. PICK it : Filters(it, seq, kept) /\ Unexpired(seq) = it[DOMAIN seq]
  BY UnexpiredFilters
<1>2. /\ it[DOMAIN seq] \in Seq(R)
      /\ \A k \in DOMAIN it[DOMAIN seq] :
           \E i \in DOMAIN seq : i \in kept /\ it[DOMAIN seq][k] = seq[i]
  <2> HIDE DEF kept
  <2> QED BY <1>1, FilterKeeps
<1> QED BY <1>1, <1>2

LEMMA LeftIsBounded ==
  ASSUME NEW late \in 0..MaxLate
  PROVE  Left(late) \in -1..Ttl
BY DEF Left

(* A sighting never shortens what is left of an address, and what it saw has  *)
(* at least the time to live from when it was seen.                           *)
LEMMA SightLengthens ==
  ASSUME DiscoveryTypeOK, NEW id \in Endpoint, NEW o \in Observation, NEW late \in 0..MaxLate,
         Sight(id, o, late)
  PROVE  /\ sighted' \in [Endpoint \X Interface \X BOOLEAN -> -1..Ttl]
         /\ \A a \in Endpoint \X Interface \X BOOLEAN : sighted'[a] >= sighted[a]
         /\ \A i \in DOMAIN o.addresses : sighted'[<<id, i, o.addresses[i]>>] >= Left(late)
<1> DEFINE Place == Endpoint \X Interface \X BOOLEAN
           seen(a) == a[1] = id /\ a[2] \in DOMAIN o.addresses /\ a[3] = o.addresses[a[2]]
<1>1. /\ Left(late) \in -1..Ttl
      /\ sighted \in [Place -> -1..Ttl]
  BY LeftIsBounded DEF DiscoveryTypeOK
<1>2. \A a \in Place : sighted'[a] = IF seen(a) /\ sighted[a] < Left(late) THEN Left(late)
                                                                         ELSE sighted[a]
  BY <1>1 DEF Sight
<1>3. sighted' = [a \in Place |-> sighted'[a]]
  <2>1. sighted' = [a \in Place |-> IF a[1] = id /\ a[2] \in DOMAIN o.addresses
                                       /\ a[3] = o.addresses[a[2]] /\ sighted[a] < Left(late)
                                    THEN Left(late) ELSE sighted[a]]
    BY <1>1 DEF Sight
  <2> QED BY <2>1
<1>4. \A i \in DOMAIN o.addresses :
        <<id, i, o.addresses[i]>> \in Place /\ seen(<<id, i, o.addresses[i]>>)
  <2>1. o.addresses \in Addresses
    BY DEF Observation
  <2> QED BY <2>1 DEF Addresses
<1> HIDE DEF seen, Place
<1>5. \A a \in Place : sighted'[a] \in -1..Ttl /\ sighted'[a] >= sighted[a]
  BY <1>1, <1>2
<1>6. \A i \in DOMAIN o.addresses : sighted'[<<id, i, o.addresses[i]>>] >= Left(late)
  BY <1>1, <1>2, <1>4
<1>7. sighted' \in [Place -> -1..Ttl]
  BY <1>3, <1>5
<1> QED BY <1>5, <1>6, <1>7 DEF Place

(* The record of an address is about a sighting.                              *)
LEMMA RecordsAreSighted ==
  ASSUME NEW r \in EndpointRecord, NEW i \in DOMAIN r.addresses
  PROVE  <<r.id, i, r.addresses[i]>> \in Endpoint \X Interface \X BOOLEAN
BY DEF EndpointRecord, Addresses

LEMMA DiscoveryInvInit == DiscoveryInit => DiscoveryInv
<1> SUFFICES ASSUME DiscoveryInit PROVE DiscoveryInv
  OBVIOUS
<1>1. records = <<>> /\ DOMAIN records = {} /\ records \in Seq(EndpointRecord)
  BY DEF DiscoveryInit
<1>2. sighted \in [Endpoint \X Interface \X BOOLEAN -> -1..Ttl]
  BY DEF DiscoveryInit
<1>3. downFor \in [Interface -> 0..MaxLate]
  <2>1. MaxLate \in 0..MaxLate
    OBVIOUS
  <2> QED BY <2>1 DEF DiscoveryInit
<1> QED BY <1>1, <1>2, <1>3 DEF DiscoveryInv, DiscoveryTypeOK

LEMMA ObserveAgainKeeps ==
  ASSUME DiscoveryInv, NEW o \in Observation, NEW late \in 0..MaxLate, ObserveAgain(o, late)
  PROVE  DiscoveryInv'
<1> DEFINE j == Min(Same(o))
           new == [records[j] EXCEPT !.addresses = o.addresses, !.capabilities = o.capabilities,
                                     !.left = Left(late)]
<1>1. j \in DOMAIN records
  <2>1. Len(records) \in Nat /\ Same(o) \in SUBSET (0..Len(records)) /\ Same(o) # {}
    <3>1. Same(o) # {}
      BY DEF ObserveAgain
    <3>2. Len(records) \in Nat /\ DOMAIN records = 1..Len(records)
      BY DEF DiscoveryInv, DiscoveryTypeOK
    <3>3. Same(o) \subseteq DOMAIN records
      BY DEF Same
    <3> QED BY <3>1, <3>2, <3>3
  <2>2. j \in Same(o)
    BY <2>1, MinMaxAre
  <2> QED BY <2>2 DEF Same
<1> HIDE DEF j
<1>2. \A k \in DOMAIN records : records[k] \in EndpointRecord
  BY DEF DiscoveryInv, DiscoveryTypeOK
<1>3. /\ records' = [records EXCEPT ![j] = new]
      /\ Sight(records[j].id, o, late)
  BY DEF ObserveAgain, j
<1>4. /\ new \in EndpointRecord /\ new.id = records[j].id
      /\ new.addresses = o.addresses /\ new.left = Left(late)
  BY <1>1, <1>2, LeftIsBounded DEF EndpointRecord, Observation
<1>5. records[j].id \in Endpoint
  BY <1>1, <1>2 DEF EndpointRecord
<1>6. /\ sighted' \in [Endpoint \X Interface \X BOOLEAN -> -1..Ttl]
      /\ \A a \in Endpoint \X Interface \X BOOLEAN : sighted'[a] >= sighted[a]
      /\ \A i \in DOMAIN o.addresses : sighted'[<<records[j].id, i, o.addresses[i]>>] >= Left(late)
  BY <1>3, <1>5, SightLengthens DEF DiscoveryInv
<1> HIDE DEF new
<1>7. /\ records' \in Seq(EndpointRecord) /\ DOMAIN records' = DOMAIN records
      /\ records'[j] = new
      /\ \A k \in DOMAIN records : k # j => records'[k] = records[k]
  BY <1>1, <1>3, <1>4 DEF DiscoveryInv, DiscoveryTypeOK
<1>8. ASSUME NEW k \in DOMAIN records, NEW i \in DOMAIN records'[k].addresses
      PROVE  sighted'[<<records'[k].id, i, records'[k].addresses[i]>>] >= records'[k].left
  <2>1. CASE k = j
    BY <1>4, <1>6, <1>7, <2>1
  <2>2. CASE k # j
    <3> DEFINE a == <<records[k].id, i, records[k].addresses[i]>>
    <3>1. records'[k] = records[k]
      BY <1>7, <2>2
    <3>2. sighted[a] >= records[k].left
      BY <1>8, <3>1 DEF DiscoveryInv
    <3>3. a \in Endpoint \X Interface \X BOOLEAN
      BY <1>2, <1>8, <3>1, RecordsAreSighted
    <3>4. records[k].left \in Int /\ sighted[a] \in Int /\ sighted'[a] \in Int
          /\ sighted'[a] >= sighted[a]
      BY <1>2, <1>6, <3>3 DEF DiscoveryInv, DiscoveryTypeOK, EndpointRecord
    <3> QED BY <3>1, <3>2, <3>4
  <2> QED BY <2>1, <2>2
<1>9. downFor' \in [Interface -> 0..MaxLate]
  BY DEF ObserveAgain, DiscoveryInv, DiscoveryTypeOK
<1> QED BY <1>6, <1>7, <1>8, <1>9 DEF DiscoveryInv, DiscoveryTypeOK

LEMMA ObserveNewKeeps ==
  ASSUME DiscoveryInv, NEW o \in Observation, NEW late \in 0..MaxLate, ObserveNew(o, late)
  PROVE  DiscoveryInv'
<1> DEFINE new == [id |-> o.id, origin |-> o.origin, left |-> Left(late),
                   addresses |-> o.addresses, capabilities |-> o.capabilities]
           n == Len(records) + 1
<1>1. \A k \in DOMAIN records : records[k] \in EndpointRecord
  BY DEF DiscoveryInv, DiscoveryTypeOK
<1>2. /\ records' = Append(records, new)
      /\ Sight(o.id, o, late)
  BY DEF ObserveNew
<1>3. /\ new \in EndpointRecord /\ new.id = o.id /\ o.id \in Endpoint
      /\ new.addresses = o.addresses /\ new.left = Left(late)
  BY LeftIsBounded DEF EndpointRecord, Observation
<1>4. /\ sighted' \in [Endpoint \X Interface \X BOOLEAN -> -1..Ttl]
      /\ \A a \in Endpoint \X Interface \X BOOLEAN : sighted'[a] >= sighted[a]
      /\ \A i \in DOMAIN o.addresses : sighted'[<<o.id, i, o.addresses[i]>>] >= Left(late)
  BY <1>2, <1>3, SightLengthens DEF DiscoveryInv
<1> HIDE DEF new
<1>5. /\ records' \in Seq(EndpointRecord) /\ DOMAIN records' = DOMAIN records \union {n}
      /\ records'[n] = new
      /\ \A k \in DOMAIN records : records'[k] = records[k]
  BY <1>2, <1>3 DEF DiscoveryInv, DiscoveryTypeOK
<1>6. ASSUME NEW k \in DOMAIN records', NEW i \in DOMAIN records'[k].addresses
      PROVE  sighted'[<<records'[k].id, i, records'[k].addresses[i]>>] >= records'[k].left
  <2>1. CASE k = n
    BY <1>3, <1>4, <1>5, <2>1
  <2>2. CASE k \in DOMAIN records
    <3> DEFINE a == <<records[k].id, i, records[k].addresses[i]>>
    <3>1. records'[k] = records[k]
      BY <1>5, <2>2
    <3>2. sighted[a] >= records[k].left
      BY <1>6, <2>2, <3>1 DEF DiscoveryInv
    <3>3. a \in Endpoint \X Interface \X BOOLEAN
      BY <1>1, <1>6, <2>2, <3>1, RecordsAreSighted
    <3>4. records[k].left \in Int /\ sighted[a] \in Int /\ sighted'[a] \in Int
          /\ sighted'[a] >= sighted[a]
      BY <1>1, <1>4, <2>2, <3>3 DEF DiscoveryInv, DiscoveryTypeOK, EndpointRecord
    <3> QED BY <3>1, <3>2, <3>4
  <2> QED BY <1>5, <1>6, <2>1, <2>2
<1>7. downFor' \in [Interface -> 0..MaxLate]
  BY DEF ObserveNew, DiscoveryInv, DiscoveryTypeOK
<1> QED BY <1>4, <1>5, <1>6, <1>7 DEF DiscoveryInv, DiscoveryTypeOK

LEMMA ExpireKeeps ==
  ASSUME DiscoveryInv, Expire
  PROVE  DiscoveryInv'
<1>1. /\ records' \in Seq(EndpointRecord)
      /\ \A k \in DOMAIN records' : \E i \in DOMAIN records : records'[k] = records[i]
  BY UnexpiredKeeps DEF Expire, DiscoveryInv, DiscoveryTypeOK
<1>2. sighted' = sighted /\ downFor' = downFor
  BY DEF Expire
<1> QED BY <1>1, <1>2 DEF DiscoveryInv, DiscoveryTypeOK

LEMMA InterfaceDownKeeps ==
  ASSUME DiscoveryInv, NEW interface \in Interface, InterfaceDown(interface)
  PROVE  DiscoveryInv'
<1> DEFINE without(r) == [r EXCEPT !.addresses = Restrict(@, DOMAIN @ \ {interface})]
           down == [i \in DOMAIN records |-> without(records[i])]
           Place == Endpoint \X Interface \X BOOLEAN
<1>1. \A k \in DOMAIN records : records[k] \in EndpointRecord
  BY DEF DiscoveryInv, DiscoveryTypeOK
<1>2. \A r \in EndpointRecord :
        /\ without(r) \in EndpointRecord /\ without(r).id = r.id /\ without(r).left = r.left
        /\ \A i \in DOMAIN without(r).addresses :
             i \in DOMAIN r.addresses /\ i # interface /\ without(r).addresses[i] = r.addresses[i]
  <2> SUFFICES ASSUME NEW r \in EndpointRecord
               PROVE  /\ without(r) \in EndpointRecord
                      /\ without(r).id = r.id /\ without(r).left = r.left
                      /\ \A i \in DOMAIN without(r).addresses :
                           /\ i \in DOMAIN r.addresses /\ i # interface
                           /\ without(r).addresses[i] = r.addresses[i]
    OBVIOUS
  <2>1. PICK known \in SUBSET Interface : r.addresses \in [known -> BOOLEAN]
    BY DEF EndpointRecord, Addresses
  <2> DEFINE less == [i \in known \ {interface} |-> r.addresses[i]]
  <2>2. without(r) = [r EXCEPT !.addresses = less]
    BY <2>1 DEF Restrict
  <2>3. less \in Addresses
    <3>1. known \ {interface} \in SUBSET Interface /\ less \in [known \ {interface} -> BOOLEAN]
      BY <2>1
    <3> HIDE DEF less
    <3> QED BY <3>1 DEF Addresses
  <2>4. DOMAIN less = known \ {interface} /\ \A i \in DOMAIN less : less[i] = r.addresses[i]
    OBVIOUS
  <2> HIDE DEF less, without
  <2> QED BY <2>1, <2>2, <2>3, <2>4 DEF EndpointRecord
<1> HIDE DEF without
<1>3. down \in Seq(EndpointRecord) /\ DOMAIN down = DOMAIN records
  BY <1>1, <1>2 DEF DiscoveryInv, DiscoveryTypeOK
<1>4. records' = Unexpired(down)
  BY DEF InterfaceDown, without
<1>5. /\ records' \in Seq(EndpointRecord)
      /\ \A k \in DOMAIN records' : \E i \in DOMAIN records : records'[k] = without(records[i])
  <2> HIDE DEF down
  <2>1. /\ records' \in Seq(EndpointRecord)
        /\ \A k \in DOMAIN records' : \E i \in DOMAIN records : records'[k] = down[i]
    BY <1>3, <1>4, UnexpiredKeeps
  <2> QED BY <2>1 DEF down
<1>6. /\ sighted' \in [Place -> -1..Ttl]
      /\ \A a \in Place : a[2] # interface => sighted'[a] = sighted[a]
  BY DEF InterfaceDown, DiscoveryInv, DiscoveryTypeOK
<1>7. ASSUME NEW k \in DOMAIN records', NEW i \in DOMAIN records'[k].addresses
      PROVE  sighted'[<<records'[k].id, i, records'[k].addresses[i]>>] >= records'[k].left
  <2>1. PICK j \in DOMAIN records : records'[k] = without(records[j])
    BY <1>5
  <2> DEFINE a == <<records[j].id, i, records[j].addresses[i]>>
  <2>2. /\ i \in DOMAIN records[j].addresses /\ i # interface
        /\ a = <<records'[k].id, i, records'[k].addresses[i]>>
        /\ records'[k].left = records[j].left
    BY <1>1, <1>2, <1>7, <2>1
  <2>3. a \in Place
    BY <1>1, <2>2, RecordsAreSighted
  <2>4. sighted'[a] = sighted[a]
    BY <1>6, <2>2, <2>3
  <2>5. sighted[a] >= records[j].left
    BY <2>2 DEF DiscoveryInv
  <2> QED BY <2>2, <2>4, <2>5
<1>8. downFor' \in [Interface -> 0..MaxLate]
  BY DEF InterfaceDown, DiscoveryInv, DiscoveryTypeOK
<1> QED BY <1>5, <1>6, <1>7, <1>8 DEF DiscoveryInv, DiscoveryTypeOK

LEMMA ElapseKeeps ==
  ASSUME DiscoveryInv, Elapse
  PROVE  DiscoveryInv'
<1> DEFINE Place == Endpoint \X Interface \X BOOLEAN
           shorter(r) == [r EXCEPT !.left = Shorter(@)]
<1>1. \A k \in DOMAIN records : records[k] \in EndpointRecord
  BY DEF DiscoveryInv, DiscoveryTypeOK
<1>2. \A m \in -1..Ttl : Shorter(m) \in -1..Ttl
  BY DEF Shorter
<1>3. \A m, n \in -1..Ttl : m >= n => Shorter(m) >= Shorter(n)
  BY DEF Shorter
<1>4. /\ records' \in Seq(EndpointRecord) /\ DOMAIN records' = DOMAIN records
      /\ \A k \in DOMAIN records :
           /\ records'[k].id = records[k].id /\ records'[k].addresses = records[k].addresses
           /\ records'[k].left = Shorter(records[k].left)
  <2>1. \A r \in EndpointRecord :
          /\ shorter(r) \in EndpointRecord
          /\ shorter(r).id = r.id /\ shorter(r).addresses = r.addresses
          /\ shorter(r).left = Shorter(r.left)
    BY <1>2 DEF EndpointRecord
  <2>2. records' = [i \in DOMAIN records |-> shorter(records[i])]
    BY DEF Elapse
  <2>3. Len(records) \in Nat /\ DOMAIN records = 1..Len(records)
    BY DEF DiscoveryInv, DiscoveryTypeOK
  <2> HIDE DEF shorter
  <2> QED BY <1>1, <2>1, <2>2, <2>3
<1>5. /\ sighted' \in [Place -> -1..Ttl]
      /\ \A a \in Place : sighted'[a] = Shorter(sighted[a])
  BY <1>2 DEF Elapse, DiscoveryInv, DiscoveryTypeOK
<1>6. ASSUME NEW k \in DOMAIN records, NEW i \in DOMAIN records[k].addresses
      PROVE  Shorter(sighted[<<records[k].id, i, records[k].addresses[i]>>])
               >= Shorter(records[k].left)
  <2> DEFINE a == <<records[k].id, i, records[k].addresses[i]>>
  <2>1. a \in Place
    BY <1>1, <1>6, RecordsAreSighted
  <2>2. sighted[a] \in -1..Ttl /\ records[k].left \in -1..Ttl /\ sighted[a] >= records[k].left
    BY <1>1, <1>6, <2>1 DEF DiscoveryInv, DiscoveryTypeOK, EndpointRecord
  <2> HIDE DEF a
  <2>3. Shorter(sighted[a]) >= Shorter(records[k].left)
    BY <1>3, <2>2
  <2> QED BY <2>3 DEF a
<1>7. \A k \in DOMAIN records : \A i \in DOMAIN records[k].addresses :
        <<records[k].id, i, records[k].addresses[i]>> \in Place
  BY <1>1, RecordsAreSighted
<1>8. ASSUME NEW k \in DOMAIN records', NEW i \in DOMAIN records'[k].addresses
      PROVE  sighted'[<<records'[k].id, i, records'[k].addresses[i]>>] >= records'[k].left
  <2>1. /\ k \in DOMAIN records /\ i \in DOMAIN records[k].addresses
        /\ records'[k].id = records[k].id /\ records'[k].addresses = records[k].addresses
        /\ records'[k].left = Shorter(records[k].left)
    BY <1>4, <1>8
  <2>2. <<records[k].id, i, records[k].addresses[i]>> \in Place
    BY <1>7, <2>1
  <2> QED BY <1>5, <1>6, <2>1, <2>2
<1>9. downFor' \in [Interface -> 0..MaxLate]
  BY DEF Elapse, DiscoveryInv, DiscoveryTypeOK
<1> QED BY <1>4, <1>5, <1>8, <1>9 DEF DiscoveryInv, DiscoveryTypeOK

(* Every step of discovery keeps what is left of a record within what is left *)
(* of the sightings of its addresses.                                         *)
LEMMA DiscoveryInvNext == DiscoveryInv /\ [DiscoveryNext]_discoveryVars => DiscoveryInv'
<1> SUFFICES ASSUME DiscoveryInv, [DiscoveryNext]_discoveryVars PROVE DiscoveryInv'
  OBVIOUS
<1>1. ASSUME NEW o \in Observation, NEW late \in 0..MaxLate,
             ObserveAgain(o, late) \/ ObserveNew(o, late)
      PROVE  DiscoveryInv'
  BY <1>1, ObserveAgainKeeps, ObserveNewKeeps
<1>2. CASE Expire
  BY <1>2, ExpireKeeps
<1>3. ASSUME NEW interface \in Interface, InterfaceDown(interface)
      PROVE  DiscoveryInv'
  BY <1>3, InterfaceDownKeeps
<1>4. CASE Elapse
  BY <1>4, ElapseKeeps
<1>5. CASE UNCHANGED discoveryVars
  BY <1>5 DEF DiscoveryInv, DiscoveryTypeOK, discoveryVars
<1> QED BY <1>1, <1>2, <1>3, <1>4, <1>5 DEF DiscoveryNext

LEMMA InvMakesRoutesLive == DiscoveryInv => RoutesAreLive
<1> SUFFICES ASSUME DiscoveryInv, NEW k \in DOMAIN records, NEW policy \in RoutePolicy,
                    NEW request \in RouteRequest, request.endpoint = records[k].id,
                    PlanRoute(policy, request) = "route",
                    NEW i \in RouteAddress(policy, request)
             PROVE  sighted[<<request.endpoint, i, Get(request.endpoint).addresses[i]>>] >= 0
  BY DEF RoutesAreLive, DiscoveryInv
<1> DEFINE id == request.endpoint
           j == Min(Holding(id))
<1>1. j \in DOMAIN records /\ records[j].id = id
  <2>1. Len(records) \in Nat /\ Holding(id) \in SUBSET (0..Len(records)) /\ Holding(id) # {}
    BY DEF Holding, DiscoveryInv, DiscoveryTypeOK
  <2>2. j \in Holding(id)
    BY <2>1, MinMaxAre
  <2> QED BY <2>2 DEF Holding
<1>2. Get(id) = records[j]
  BY DEF Get
<1> HIDE DEF j
<1>3. SendableAddresses(Get(id)) # {} /\ i \in SendableAddresses(Get(id))
  <2>1. i \in Candidates(Get(id), policy, request)
    BY DEF RouteAddress
  <2> QED BY <2>1 DEF Candidates
<1>4. Get(id).left >= 0 /\ i \in DOMAIN Get(id).addresses
  BY <1>3 DEF SendableAddresses
<1>5. records[j] \in EndpointRecord
  BY <1>1 DEF DiscoveryInv, DiscoveryTypeOK
<1>6. /\ sighted[<<id, i, records[j].addresses[i]>>] >= records[j].left
      /\ <<id, i, records[j].addresses[i]>> \in Endpoint \X Interface \X BOOLEAN
  BY <1>1, <1>2, <1>4, <1>5, RecordsAreSighted DEF DiscoveryInv
<1>7. records[j].left \in Int /\ sighted[<<id, i, records[j].addresses[i]>>] \in Int
  BY <1>5, <1>6 DEF DiscoveryInv, DiscoveryTypeOK, EndpointRecord
<1> QED BY <1>2, <1>4, <1>6, <1>7

(* discovery T11-02: whatever came first of late observations, time, sweeps   *)
(* and interfaces that went down, a route leads to an address that is still   *)
(* within the time to live of an observation that had it, and that was        *)
(* handled after the address's interface last went down.                      *)
THEOREM RoutesTheorem == DiscoverySpec => []RoutesAreLive
<1>1. DiscoverySpec => []DiscoveryInv
  BY DiscoveryInvInit, DiscoveryInvNext, PTL DEF DiscoverySpec
<1> QED BY <1>1, InvMakesRoutesLive, PTL

-----------------------------------------------------------------------------
(* Scopes of the local control API.                                           *)

HelloState == [Client -> SUBSET [token : DOMAIN Held, version : ApiVersion]]

(* The scopes a connection has come from the hello that its client said on    *)
(* it: an old connection keeps its state until the next one is accepted, and  *)
(* in between nothing is handled.                                             *)
ApiInv ==
  /\ LocalApiTypeOK
  /\ hello \in HelloState
  /\ \A a \in answered : \E h \in a.after : a.scope \in Held[h.token]
  /\ conn.state = "Ready" /\ served # None =>
       \E h \in hello[served] : conn.granted_scopes \subseteq Held[h.token]

LEMMA Starts == LocalApiInit => ApiInv
  BY DEF LocalApiInit, ApiInv, LocalApiTypeOK, HelloState, Fresh

LEMMA AcceptKeeps ==
  ASSUME ApiInv, NEW c \in Client, ConnectTo(c) \/ Accept(c)
  PROVE  ApiInv'
<1>1. CASE ConnectTo(c)
  <2>1. served # None => hello'[served] = hello[served]
    BY <1>1, LocalApiAssumption DEF ConnectTo, ApiInv, LocalApiTypeOK, HelloState
  <2>2. hello' \in HelloState
    BY <1>1 DEF ConnectTo, ApiInv, HelloState
  <2> QED
    BY <1>1, <2>1, <2>2 DEF ConnectTo, ApiInv, LocalApiTypeOK
<1>2. CASE Accept(c)
  BY <1>2 DEF Accept, Fresh, ApiInv, LocalApiTypeOK
<1> QED
  BY <1>1, <1>2

LEMMA HelloKeeps ==
  ASSUME ApiInv, NEW version \in ApiVersion, NEW t \in Token, NEW requested \in SUBSET ApiScope,
         HelloRefused(version, t) \/ HelloOtherVersion(version) \/ HelloAccepted(version, t, requested)
  PROVE  ApiInv'
<1>1. CASE HelloRefused(version, t)
  BY <1>1 DEF HelloRefused, apiVars, ApiInv, LocalApiTypeOK
<1>2. CASE HelloOtherVersion(version)
  BY <1>2 DEF HelloOtherVersion, ApiInv, LocalApiTypeOK
<1>3. CASE HelloAccepted(version, t, requested)
  <2> DEFINE said == [token |-> t, version |-> version]
  <2>1. /\ served \in Client /\ t \in DOMAIN Held
        /\ hello' = [hello EXCEPT ![served] = {said}]
        /\ conn' = [state |-> "Ready", granted_scopes |-> requested \cap Held[t]]
        /\ UNCHANGED <<served, waiting, answered>>
    BY <1>3 DEF HelloAccepted, Handles, ApiInv, LocalApiTypeOK
  <2>2. hello'[served] = {said} /\ hello' \in HelloState
    BY <2>1 DEF ApiInv, HelloState
  <2>3. conn'.granted_scopes \subseteq Held[said.token]
    BY <2>1
  <2> QED
    BY <2>1, <2>2, <2>3 DEF ApiInv, LocalApiTypeOK
<1> QED
  BY <1>1, <1>2, <1>3

LEMMA AnsweredKeeps ==
  ASSUME ApiInv, NEW scope \in ApiScope, Answered(scope)
  PROVE  ApiInv'
<1> DEFINE new == [client |-> served, scope |-> scope, after |-> hello[served]]
<1>1. \E h \in hello[served] : scope \in Held[h.token]
  BY DEF Answered, Handles, ApiInv
<1>2. \E h \in new.after : new.scope \in Held[h.token]
  BY <1>1
<1>3. answered' = answered \cup {new} /\ UNCHANGED <<served, waiting, conn, hello>>
  BY DEF Answered
<1> QED
  BY <1>2, <1>3 DEF ApiInv, LocalApiTypeOK

LEMMA EndKeeps ==
  ASSUME ApiInv, Dropped \/ AnswerTooLong
  PROVE  ApiInv'
  BY DEF Dropped, AnswerTooLong, Fresh, ApiInv, LocalApiTypeOK

LEMMA ApiStep == ApiInv /\ [LocalApiNext]_apiVars => ApiInv'
<1> SUFFICES ASSUME ApiInv, [LocalApiNext]_apiVars PROVE ApiInv'
  OBVIOUS
<1>1. CASE \E c \in Client : ConnectTo(c) \/ Accept(c)
  BY <1>1, AcceptKeeps
<1>2. CASE \E version \in ApiVersion, t \in Token, requested \in SUBSET ApiScope :
             \/ HelloRefused(version, t)
             \/ HelloOtherVersion(version)
             \/ HelloAccepted(version, t, requested)
  BY <1>2, HelloKeeps
<1>3. CASE \E scope \in ApiScope : Answered(scope)
  BY <1>3, AnsweredKeeps
<1>4. CASE Dropped \/ AnswerTooLong
  BY <1>4, EndKeeps
<1>5. CASE UNCHANGED apiVars
  BY <1>5 DEF apiVars, ApiInv, LocalApiTypeOK
<1> QED
  BY <1>1, <1>2, <1>3, <1>4, <1>5 DEF LocalApiNext

(* Whatever connections came before and whatever each of them sent, a method  *)
(* that needs a scope is answered only to a client whose own hello on its     *)
(* connection came with a token that holds the scope (server.rs, the loop of  *)
(* interopd).                                                                 *)
THEOREM ScopesStayOwn == LocalApiSpec => []ScopesAreOwn
<1>1. ApiInv => ScopesAreOwn
  BY DEF ApiInv, ScopesAreOwn
<1> QED
  BY <1>1, Starts, ApiStep, PTL DEF LocalApiSpec

-----------------------------------------------------------------------------
(* Workers.  The supervisor's poll comes by every worker that had exited, and *)
(* restarts no profile more often than its budget allows, for any profiles,   *)
(* budgets and interleavings of its calls with the processes.                 *)
HIDE HostAssumption
HIDE DiscoveryAssumption
USE SupervisorAssumption

-----------------------------------------------------------------------------
(* The inductive invariant.                                                   *)

TypeInv ==
  /\ SupervisorTypeOK
  /\ crashes \in [ProviderProfile -> Seq(Nat)]
  /\ restarts \in [ProviderProfile -> [0..MaxClock -> Nat]]
  /\ call.op \in {"poll", "shutdown"} => call.i >= 1

(* A worker that had exited when the poll began is still ahead of it.         *)
OverdueAhead ==
  \A w \in DOMAIN running :
    running[w].status = "overdue" => call.op = "poll" /\ call.i =< w

(* Every restart within the window is a crash that is still remembered.       *)
RestartsAreRemembered ==
  \A p \in ProviderProfile, u \in 0..MaxClock :
    u + Window >= clock =>
      SumTotal(restarts[p], u..MaxClock) =< Cardinality(PlacesIn(crashes[p], u..MaxClock))

Span(t) == {s \in 0..t : s + Window >= t}

SpansAreBounded ==
  \A p \in ProviderProfile, t \in 0..MaxClock : SumTotal(restarts[p], Span(t)) =< MaxRestarts

WorkerInv == TypeInv /\ OverdueAhead /\ RestartsAreRemembered /\ SpansAreBounded

(* What a process does by itself.                                             *)
ProcessStep(w) ==
  Crash(w) \/ ExitOnEof(w) \/ OpenListener(w) \/ ReadCanary(w) \/ AskShell(w) \/ ReadReply(w)

-----------------------------------------------------------------------------
(* The calls and the list of workers.                                         *)

LEMMA CallShapes ==
  ASSUME NEW c \in Calls
  PROVE  /\ c.op \in {"idle", "answer", "poll", "shutdown"}
         /\ c.op \in {"poll", "shutdown"} =>
              /\ c.i \in Nat
              /\ \A n \in Nat : /\ [c EXCEPT !.i = n] \in Calls
                                /\ [c EXCEPT !.i = n].op = c.op
                                /\ [c EXCEPT !.i = n].i = n
<1>1. c.op \in {"idle", "answer", "poll", "shutdown"}
  BY DEF Calls
<1>2. CASE c.op \notin {"poll", "shutdown"}
  BY <1>1, <1>2
<1>3. CASE c.op \in {"poll", "shutdown"}
  <2>1. c.i \in Nat
    BY <1>3 DEF Calls
  <2>2. CASE c \in [op : {"poll"}, i : Nat]
    BY <2>2 DEF Calls
  <2>3. CASE c \in [op : {"shutdown"}, i : Nat]
    BY <2>3 DEF Calls
  <2>4. CASE c \in [op : {"poll"}, i : Nat, for : ProviderProfile, tries : Nat]
    BY <2>4 DEF Calls
  <2>5. CASE c \in [op : {"shutdown"}, i : Nat, for : ProviderProfile,
                    canary : Canary, sandboxed : {"yes", "no"}]
    BY <2>5 DEF Calls
  <2> QED BY <1>3, <2>2, <2>3, <2>4, <2>5 DEF Calls
<1> QED BY <1>1, <1>2, <1>3

LEMMA OwedIsSeq ==
  ASSUME NEW workers \in Seq(Worker)
  PROVE  Owed(workers) \in Seq(Nat)
<1>1. Len(workers) \in Nat /\ DOMAIN workers = 1..Len(workers)
      /\ \A w \in DOMAIN workers : workers[w] \in Worker
  OBVIOUS
<1>2. \A w \in 1..Len(workers) : workers[w].requests \in Nat
  BY <1>1 DEF Worker
<1>3. Owed(workers) = [w \in 1..Len(workers) |-> workers[w].requests]
  BY <1>1 DEF Owed
<1> QED BY <1>1, <1>2, <1>3

(* Answering is a call with or without the report it belongs to.              *)
LEMMA AnswerShapes ==
  ASSUME NEW c \in Calls, c.op = "answer"
  PROVE  /\ c.owed \in Seq(Nat)
         /\ \A owed \in Seq(Nat) : /\ [c EXCEPT !.owed = owed] \in Calls
                                   /\ [c EXCEPT !.owed = owed].op = "answer"
         /\ "for" \in DOMAIN c => c.for \in ProviderProfile /\ c.tries \in Nat
<1>1. CASE c \in [op : {"answer"}, owed : Seq(Nat)]
  BY <1>1 DEF Calls
<1>2. CASE c \in [op : {"answer"}, owed : Seq(Nat), for : ProviderProfile, tries : Nat]
  BY <1>2 DEF Calls
<1> QED BY <1>1, <1>2 DEF Calls

LEMMA ReportIsFor ==
  ASSUME NEW c \in Calls, c.op = "poll", "for" \in DOMAIN c
  PROVE  c.for \in ProviderProfile /\ c.tries \in Nat
<1>1. c \in [op : {"poll"}, i : Nat, for : ProviderProfile, tries : Nat]
  BY DEF Calls
<1> QED BY <1>1

(* The worker at i is taken out and those after it move up.                   *)
LEMMA RemoveAtTakesOut ==
  ASSUME NEW R, NEW seq \in Seq(R), NEW i \in DOMAIN seq
  PROVE  /\ RemoveAt(seq, i) \in Seq(R)
         /\ Len(RemoveAt(seq, i)) = Len(seq) - 1
         /\ \A k \in DOMAIN RemoveAt(seq, i) :
              /\ k \in Nat /\ k < i => k \in DOMAIN seq /\ RemoveAt(seq, i)[k] = seq[k]
              /\ k >= i => k + 1 \in DOMAIN seq /\ RemoveAt(seq, i)[k] = seq[k + 1]
<1> DEFINE front == SubSeq(seq, 1, i - 1)
           back == SubSeq(seq, i + 1, Len(seq))
<1>1. Len(seq) \in Nat /\ i \in 1..Len(seq) /\ DOMAIN seq = 1..Len(seq)
  OBVIOUS
<1>2. /\ front \in Seq(R) /\ Len(front) = i - 1
      /\ \A k \in 1..(i - 1) : front[k] = seq[k]
  BY <1>1
<1>3. /\ back \in Seq(R) /\ Len(back) = Len(seq) - i
      /\ \A k \in 1..(Len(seq) - i) : back[k] = seq[i + k]
  <2> DEFINE m == i + 1
             n == Len(seq)
  <2>1. m \in Int /\ n \in Int /\ \A k \in m..n : seq[k] \in R
    BY <1>1
  <2> HIDE DEF m, n
  <2>2. /\ SubSeq(seq, m, n) \in Seq(R)
        /\ Len(SubSeq(seq, m, n)) = IF m =< n THEN n - m + 1 ELSE 0
        /\ \A k \in 1..(n - m + 1) : SubSeq(seq, m, n)[k] = seq[m + k - 1]
    BY ONLY <2>1, SubSeqProperties, SMTT(30)
  <2> USE DEF m, n
  <2>3. Len(seq) - (i + 1) + 1 = Len(seq) - i
    BY <1>1
  <2>4. \A k \in 1..(Len(seq) - i) : i + 1 + k - 1 = i + k
    BY <1>1
  <2>5. Len(back) = Len(seq) - i
    <3>1. (IF i + 1 =< Len(seq) THEN Len(seq) - (i + 1) + 1 ELSE 0) = Len(seq) - i
      BY <1>1
    <3>2. Len(back) = IF i + 1 =< Len(seq) THEN Len(seq) - (i + 1) + 1 ELSE 0
      BY <2>2
    <3> QED BY <3>1, <3>2
  <2> QED BY <2>2, <2>3, <2>4, <2>5
<1> HIDE DEF front, back
<1>4. /\ front \o back \in Seq(R)
      /\ Len(front \o back) = Len(front) + Len(back)
      /\ \A k \in 1..(Len(front) + Len(back)) :
           (front \o back)[k] = IF k =< Len(front) THEN front[k] ELSE back[k - Len(front)]
  BY <1>2, <1>3, ConcatProperties
<1>5. RemoveAt(seq, i) = front \o back
  BY DEF RemoveAt, front, back
<1> DEFINE whole == front \o back
<1>6. DOMAIN whole = 1..(Len(seq) - 1) /\ Len(whole) = Len(seq) - 1 /\ whole \in Seq(R)
  <2>1. Len(front) + Len(back) = Len(seq) - 1
    BY <1>1, <1>2, <1>3
  <2> HIDE DEF whole
  <2>2. whole \in Seq(R) /\ Len(whole) = Len(seq) - 1
    BY <1>4, <2>1 DEF whole
  <2> QED BY <2>2
<1>7. ASSUME NEW k \in 1..(Len(seq) - 1)
      PROVE  whole[k] = IF k < i THEN seq[k] ELSE seq[k + 1]
  <2>1. whole[k] = IF k =< i - 1 THEN front[k] ELSE back[k - (i - 1)]
    <3>1. Len(front) + Len(back) = Len(seq) - 1 /\ Len(front) = i - 1
      BY <1>1, <1>2, <1>3
    <3>2. k \in 1..(Len(front) + Len(back))
      BY <3>1
    <3> QED BY <1>4, <3>1, <3>2
  <2>2. CASE k < i
    BY <1>1, <1>2, <2>1, <2>2
  <2>3. CASE k >= i
    <3>1. k - (i - 1) \in 1..(Len(seq) - i) /\ i + (k - (i - 1)) = k + 1
      BY <1>1, <2>3
    <3>2. back[k - (i - 1)] = seq[k + 1]
      BY <1>3, <3>1
    <3> QED BY <1>1, <2>1, <2>3, <3>2
  <2>4. k < i \/ k >= i
    BY <1>1
  <2>5. k >= i => ~ (k < i)
    BY <1>1
  <2> HIDE DEF whole
  <2> QED BY <2>2, <2>3, <2>4, <2>5
<1>8. \A k \in 1..(Len(seq) - 1) :
        /\ k \in Nat /\ k < i => k \in DOMAIN seq
        /\ k >= i => ~ (k < i) /\ k + 1 \in DOMAIN seq
  BY <1>1
<1>9. RemoveAt(seq, i) = whole
  BY <1>5
<1> HIDE DEF whole
<1> QED BY <1>6, <1>7, <1>8, <1>9

LEMMA MarkKeeps ==
  ASSUME TypeInv
  PROVE  /\ MarkOverdue \in Seq(Worker)
         /\ Len(MarkOverdue) = Len(running) /\ DOMAIN MarkOverdue = DOMAIN running
         /\ \A w \in DOMAIN running : MarkOverdue[w].profile = running[w].profile
<1>1. Len(running) \in Nat /\ DOMAIN running = 1..Len(running)
      /\ \A w \in DOMAIN running : running[w] \in Worker
  BY DEF TypeInv, SupervisorTypeOK
<1>2. \A w \in DOMAIN running : MarkOverdue[w] \in Worker
                                /\ MarkOverdue[w].profile = running[w].profile
  BY <1>1 DEF MarkOverdue, Worker, Status
<1>3. MarkOverdue = [w \in 1..Len(running) |-> MarkOverdue[w]]
  BY <1>1 DEF MarkOverdue
<1> HIDE DEF MarkOverdue
<1> QED BY <1>1, <1>2, <1>3

LEMMA CloseKeeps ==
  ASSUME TypeInv
  PROVE  /\ CloseAll \in Seq(Worker) /\ DOMAIN CloseAll = DOMAIN running
         /\ \A w \in DOMAIN running : /\ CloseAll[w].profile = running[w].profile
                                      /\ CloseAll[w].status = running[w].status
<1>1. Len(running) \in Nat /\ DOMAIN running = 1..Len(running)
      /\ \A w \in DOMAIN running : running[w] \in Worker
  BY DEF TypeInv, SupervisorTypeOK
<1>2. \A w \in DOMAIN running : /\ CloseAll[w] \in Worker
                                /\ CloseAll[w].profile = running[w].profile
                                /\ CloseAll[w].status = running[w].status
  BY <1>1 DEF CloseAll, Worker
<1>3. CloseAll = [w \in 1..Len(running) |-> CloseAll[w]]
  BY <1>1 DEF CloseAll
<1> HIDE DEF CloseAll
<1> QED BY <1>1, <1>2, <1>3

(* Whoever starts a worker leaves the others as they are.                     *)
LEMMA StartKeeps ==
  ASSUME TypeInv, NEW others \in Seq(Worker), NEW p \in ProviderProfile,
         NEW mode \in Mode \union {"read_canary"}, NEW launch,
         \A w \in DOMAIN others : lastMode[others[w].profile] # NoMode,
         StartAmong(others, p, mode, launch)
  PROVE  /\ running' \in Seq(Worker)
         /\ pinned' \in [ProviderProfile -> Hash \union {NoHash}]
         /\ lastMode' \in [ProviderProfile -> Mode \union {"read_canary", NoMode}]
         /\ \A w \in DOMAIN running' : lastMode'[running'[w].profile] # NoMode
         /\ \A w \in DOMAIN running' :
              (w \in DOMAIN others /\ running'[w] = others[w]) \/ running'[w].status = "alive"
<1> DEFINE new == NewWorker(p, mode)
<1>1. new \in Worker /\ new.profile = p /\ new.status = "alive" /\ mode # NoMode
  BY DEF NewWorker, Worker, Status, Canary, NoMode
<1>2. pinned' \in [ProviderProfile -> Hash \union {NoHash}]
  <2>1. pinned \in [ProviderProfile -> Hash \union {NoHash}] /\ binary[p] \in Hash
    BY DEF TypeInv, SupervisorTypeOK
  <2>2. pinned' = pinned \/ pinned' = [pinned EXCEPT ![p] = binary[p]]
    BY DEF StartAmong
  <2> QED BY <2>1, <2>2
<1>3. lastMode \in [ProviderProfile -> Mode \union {"read_canary", NoMode}]
  BY DEF TypeInv, SupervisorTypeOK
<1>4. \A w \in DOMAIN others : others[w] \in Worker /\ others[w].profile \in ProviderProfile
  <2>1. \A w \in DOMAIN others : others[w] \in Worker
    OBVIOUS
  <2> QED BY <2>1 DEF Worker
<1> HIDE DEF new
<1>5. CASE running' = others /\ lastMode' = lastMode
  BY <1>2, <1>3, <1>5
<1>6. CASE running' = Append(others, new) /\ lastMode' = [lastMode EXCEPT ![p] = mode]
  <2>1. /\ running' \in Seq(Worker)
        /\ \A w \in DOMAIN running' :
             (w \in DOMAIN others /\ running'[w] = others[w]) \/ running'[w] = new
    BY <1>1, <1>6
  <2>2. lastMode' \in [ProviderProfile -> Mode \union {"read_canary", NoMode}]
    BY <1>3, <1>6
  <2>3. \A q \in ProviderProfile : lastMode[q] # NoMode => lastMode'[q] # NoMode
    BY <1>1, <1>3, <1>6
  <2>4. lastMode'[p] # NoMode
    BY <1>1, <1>3, <1>6
  <2> QED BY <1>1, <1>2, <1>4, <2>1, <2>2, <2>3, <2>4
<1> QED BY <1>5, <1>6 DEF StartAmong, new

-----------------------------------------------------------------------------
(* Restarts and remembered crashes.                                           *)

LEMMA SpanIsSum ==
  \A p, t : FoldFunctionOnSet(LAMBDA n, sum : n + sum, 0, restarts[p], Span(t))
              = SumTotal(restarts[p], Span(t))
BY DEF SumTotal

LEMMA RecentFilters ==
  ASSUME NEW p, crashes[p] \in Seq(Nat)
  PROVE  \E it : /\ Filters(it, crashes[p], {i \in DOMAIN crashes[p] : crashes[p][i] + Window >= clock})
                 /\ Recent(p) = it[DOMAIN crashes[p]]
<1> DEFINE seq == crashes[p]
           kept == {i \in DOMAIN seq : seq[i] + Window >= clock}
           Body(g, s) == IF s = {} THEN <<>>
                         ELSE IF seq[Max(s)] + Window >= clock
                              THEN Append(g[s \ {Max(s)}], seq[Max(s)])
                              ELSE g[s \ {Max(s)}]
           D(g) == g = [s \in SUBSET DOMAIN seq |-> Body(g, s)]
           it == CHOOSE g : D(g)
<1>1. Len(seq) \in Nat /\ DOMAIN seq = 1..Len(seq)
  OBVIOUS
<1>2. \A s \in SUBSET DOMAIN seq : s # {} => Max(s) \in DOMAIN seq
  BY <1>1, MaxPicks
<1>3. \A g : \A s \in SUBSET DOMAIN seq : FilterStep(g, seq, kept, s) = Body(g, s)
  BY <1>2 DEF FilterStep
<1>4. \A g : D(g) <=> Filters(g, seq, kept)
  <2> TAKE g
  <2>1. [s \in SUBSET DOMAIN seq |-> FilterStep(g, seq, kept, s)]
          = [s \in SUBSET DOMAIN seq |-> Body(g, s)]
    <3> HIDE DEF Body, kept
    <3> QED BY <1>3
  <2> QED BY <2>1 DEF Filters
<1>5. D(it)
  BY <1>4, FilterExists
<1>6. Recent(p) = it[DOMAIN seq]
  BY DEF Recent, FoldLeft, MapThenFoldSet
<1> QED BY <1>4, <1>5, <1>6

(* Forgetting the crashes before the window leaves those within it.           *)
LEMMA RecentKeeps ==
  ASSUME NEW p, crashes[p] \in Seq(Nat), clock \in 0..MaxClock
  PROVE  /\ Recent(p) \in Seq(Nat)
         /\ \A k \in DOMAIN Recent(p) : \E i \in DOMAIN crashes[p] : Recent(p)[k] = crashes[p][i]
         /\ \A u \in Nat : u + Window >= clock =>
              Cardinality(PlacesIn(Recent(p), u..MaxClock))
                = Cardinality(PlacesIn(crashes[p], u..MaxClock))
<1> DEFINE kept == {i \in DOMAIN crashes[p] : crashes[p][i] + Window >= clock}
<1>1. PICK it : Filters(it, crashes[p], kept) /\ Recent(p) = it[DOMAIN crashes[p]]
  BY RecentFilters
<1>2. /\ Recent(p) \in Seq(Nat)
      /\ \A k \in DOMAIN Recent(p) : \E i \in DOMAIN crashes[p] : Recent(p)[k] = crashes[p][i]
  <2> HIDE DEF kept
  <2> QED BY <1>1, FilterKeeps
<1>3. ASSUME NEW u \in Nat, u + Window >= clock
      PROVE  Cardinality(PlacesIn(Recent(p), u..MaxClock))
               = Cardinality(PlacesIn(crashes[p], u..MaxClock))
  <2> DEFINE good == u..MaxClock
  <2>1. \A i \in DOMAIN crashes[p] : crashes[p][i] \in Nat
    OBVIOUS
  <2>2. \A i \in DOMAIN crashes[p] : crashes[p][i] \in good => i \in kept
    BY <1>3, <2>1
  <2> HIDE DEF kept, good
  <2>3. Cardinality(PlacesIn(it[DOMAIN crashes[p]], good)) = Cardinality(PlacesIn(crashes[p], good))
    BY <1>1, <2>2, FilterCounts
  <2> QED BY <1>1, <2>3 DEF good
<1> QED BY <1>2, <1>3

LEMMA SeqInto ==
  ASSUME NEW R, NEW seq \in Seq(R), NEW S, \A k \in DOMAIN seq : seq[k] \in S
  PROVE  seq \in Seq(S)
<1>1. Len(seq) \in Nat /\ DOMAIN seq = 1..Len(seq) /\ seq = [k \in 1..Len(seq) |-> seq[k]]
  OBVIOUS
<1> QED BY <1>1

LEMMA TimesAreFinite == IsFiniteSet(0..MaxClock)
<1>1. 0 \in Int /\ MaxClock \in Int
  OBVIOUS
<1> QED BY <1>1, FS_Interval

(* A crash is remembered and, while the budget lasts, restarted.              *)
LEMMA MaybeRestartKeeps ==
  ASSUME TypeInv, RestartsAreRemembered, SpansAreBounded,
         NEW others, NEW p \in ProviderProfile, MaybeRestart(others, p), clock' = clock
  PROVE  /\ crashes' \in [ProviderProfile -> Seq(Nat)]
         /\ \A q \in ProviderProfile : crashes'[q] \in Seq(0..clock')
         /\ restarts' \in [ProviderProfile -> [0..MaxClock -> Nat]]
         /\ RestartsAreRemembered'
         /\ SpansAreBounded'
<1> DEFINE recent == Append(Recent(p), clock)
           more == [restarts[p] EXCEPT ![clock] = @ + 1]
<1>1. /\ clock \in 0..MaxClock /\ crashes \in [ProviderProfile -> Seq(Nat)]
      /\ restarts \in [ProviderProfile -> [0..MaxClock -> Nat]]
      /\ \A q \in ProviderProfile : crashes[q] \in Seq(0..clock)
  BY DEF TypeInv, SupervisorTypeOK
<1>2. /\ Recent(p) \in Seq(Nat)
      /\ \A k \in DOMAIN Recent(p) : \E i \in DOMAIN crashes[p] : Recent(p)[k] = crashes[p][i]
      /\ \A u \in Nat : u + Window >= clock =>
           Cardinality(PlacesIn(Recent(p), u..MaxClock)) = Cardinality(PlacesIn(crashes[p], u..MaxClock))
  BY <1>1, RecentKeeps
<1>3. recent \in Seq(Nat) /\ recent \in Seq(0..clock)
  <2>1. \A i \in DOMAIN crashes[p] : crashes[p][i] \in 0..clock
    BY <1>1
  <2>2. \A k \in DOMAIN Recent(p) : Recent(p)[k] \in 0..clock
    BY <1>2, <2>1
  <2>3. Recent(p) \in Seq(0..clock)
    BY <1>2, <2>2, SeqInto
  <2> QED BY <1>1, <1>2, <2>3
<1>4. \A u \in 0..MaxClock : u + Window >= clock =>
        Cardinality(PlacesIn(recent, u..MaxClock))
          = Cardinality(PlacesIn(crashes[p], u..MaxClock)) + (IF clock \in u..MaxClock THEN 1 ELSE 0)
  <2> SUFFICES ASSUME NEW u \in 0..MaxClock, u + Window >= clock
               PROVE  Cardinality(PlacesIn(recent, u..MaxClock))
                        = Cardinality(PlacesIn(crashes[p], u..MaxClock))
                            + (IF clock \in u..MaxClock THEN 1 ELSE 0)
    OBVIOUS
  <2> DEFINE good == u..MaxClock
  <2>1. Cardinality(PlacesIn(Recent(p), good)) = Cardinality(PlacesIn(crashes[p], good))
    BY <1>2
  <2>2. clock \in Nat
    BY <1>1
  <2> HIDE DEF good
  <2>3. Cardinality(PlacesIn(Append(Recent(p), clock), good))
          = Cardinality(PlacesIn(Recent(p), good)) + (IF clock \in good THEN 1 ELSE 0)
    BY <1>2, <2>2, AppendCounts
  <2> QED BY <2>1, <2>3 DEF good
<1>5. crashes' = [crashes EXCEPT ![p] = recent]
  BY DEF MaybeRestart
<1>6. \/ restarts' = restarts
      \/ Len(recent) =< MaxRestarts /\ restarts' = [restarts EXCEPT ![p][clock] = @ + 1]
  <2>1. Len(recent) \in Nat
    BY <1>3
  <2> QED BY <2>1 DEF MaybeRestart, CountRestart
<1> HIDE DEF recent
<1>7. crashes' \in [ProviderProfile -> Seq(Nat)] /\ \A q \in ProviderProfile : crashes'[q] \in Seq(0..clock')
  BY <1>1, <1>3, <1>5
<1>8. \/ restarts' = restarts
      \/ Len(recent) =< MaxRestarts /\ restarts' = [restarts EXCEPT ![p] = more]
  BY <1>1, <1>6
<1>9. /\ more \in [0..MaxClock -> Nat]
      /\ \A S \in SUBSET (0..MaxClock) :
           /\ SumTotal(restarts[p], S) \in Int
           /\ SumTotal(more, S) = SumTotal(restarts[p], S) + (IF clock \in S THEN 1 ELSE 0)
  <2>1. restarts[p] \in [0..MaxClock -> Nat]
    BY <1>1
  <2> DEFINE f == restarts[p]
             D == 0..MaxClock
  <2>2. /\ f \in [D -> Nat] /\ more = [f EXCEPT ![clock] = @ + 1]
        /\ clock \in D /\ IsFiniteSet(D)
    <3> QED BY <1>1, <2>1, TimesAreFinite
  <2> HIDE DEF f, more, D
  <2>3. more \in [D -> Nat]
    BY <2>2, TermGrows
  <2>4. \A S \in SUBSET D :
          /\ SumTotal(f, S) \in Int
          /\ SumTotal(more, S) = SumTotal(f, S) + (IF clock \in S THEN 1 ELSE 0)
    <3> DEFINE h == [f EXCEPT ![clock] = @ + 1]
    <3>1. \A S \in SUBSET D :
            /\ SumTotal(f, S) \in Int
            /\ SumTotal(h, S) = SumTotal(f, S) + (IF clock \in S THEN 1 ELSE 0)
      BY ONLY <2>2, TermGrows
    <3>2. more = h
      BY <2>2
    <3> HIDE DEF h
    <3> QED BY <3>1, <3>2
  <2> QED BY <2>3, <2>4 DEF f, D
<1> HIDE DEF more
<1>10. restarts' \in [ProviderProfile -> [0..MaxClock -> Nat]]
  BY <1>1, <1>8, <1>9
<1>11. \A u \in 0..MaxClock : u..MaxClock \in SUBSET (0..MaxClock)
  BY <1>1
<1>12. \A S \in SUBSET (0..MaxClock) :
         /\ SumTotal(restarts[p], S) \in Int
         /\ SumTotal(restarts'[p], S) \in Int
         /\ SumTotal(restarts'[p], S) =< SumTotal(restarts[p], S) + (IF clock \in S THEN 1 ELSE 0)
         /\ clock \notin S => SumTotal(restarts'[p], S) = SumTotal(restarts[p], S)
  BY <1>1, <1>8, <1>9
<1>13. \A q \in ProviderProfile : q # p => crashes'[q] = crashes[q] /\ restarts'[q] = restarts[q]
  BY <1>1, <1>5, <1>8
<1>14. ASSUME NEW u \in 0..MaxClock, u + Window >= clock
       PROVE  SumTotal(restarts'[p], u..MaxClock) =< Cardinality(PlacesIn(crashes'[p], u..MaxClock))
  <2> DEFINE S == u..MaxClock
             one == IF clock \in S THEN 1 ELSE 0
  <2>1. SumTotal(restarts[p], S) =< Cardinality(PlacesIn(crashes[p], S))
    BY <1>14 DEF RestartsAreRemembered
  <2>2. crashes'[p] = recent
    BY <1>1, <1>5
  <2>3. Cardinality(PlacesIn(recent, S)) = Cardinality(PlacesIn(crashes[p], S)) + one
    BY <1>4, <1>14
  <2>4. /\ SumTotal(restarts[p], S) \in Int /\ SumTotal(restarts'[p], S) \in Int
        /\ SumTotal(restarts'[p], S) =< SumTotal(restarts[p], S) + one
    BY <1>11, <1>12
  <2>5. Cardinality(PlacesIn(crashes[p], S)) \in Nat /\ one \in Nat
    BY <1>1, PlacesAreFinite
  <2> HIDE DEF S, one
  <2>6. SumTotal(restarts'[p], S) =< Cardinality(PlacesIn(crashes'[p], S))
    BY <2>1, <2>2, <2>3, <2>4, <2>5
  <2> QED BY <2>6 DEF S
<1>15. RestartsAreRemembered'
  BY <1>13, <1>14 DEF RestartsAreRemembered
<1>16. ASSUME NEW t \in 0..MaxClock
       PROVE  SumTotal(restarts'[p], Span(t)) =< MaxRestarts
  <2> DEFINE u == IF t >= Window THEN t - Window ELSE 0
  <2>1. SumTotal(restarts[p], Span(t)) =< MaxRestarts
    BY DEF SpansAreBounded
  <2>2. Span(t) \in SUBSET (0..MaxClock)
    BY <1>1 DEF Span
  <2>3. CASE restarts' = restarts \/ clock \notin Span(t)
    BY <1>12, <2>1, <2>2, <2>3
  <2>4. CASE restarts' # restarts /\ clock \in Span(t)
    <3>1. Len(recent) =< MaxRestarts
      BY <1>8, <2>4
    <3>2. u \in 0..MaxClock /\ u + Window >= clock /\ Span(t) \subseteq u..MaxClock
      BY <1>1, <2>4 DEF Span
    <3> HIDE DEF u
    <3>3. SumTotal(restarts'[p], u..MaxClock) =< Cardinality(PlacesIn(crashes'[p], u..MaxClock))
      BY <1>14, <3>2
    <3>4. SumTotal(restarts'[p], Span(t)) =< SumTotal(restarts'[p], u..MaxClock)
      <4>1. IsFiniteSet(u..MaxClock)
        BY <3>2, FS_Interval
      <4>2. \A y \in u..MaxClock : restarts'[p][y] \in Nat
        <5>1. restarts'[p] \in [0..MaxClock -> Nat] /\ u..MaxClock \subseteq 0..MaxClock
          BY <1>10, <1>11, <3>2
        <5> QED BY <5>1
      <4> QED BY <3>2, <4>1, <4>2, SumShrinks
    <3>5. crashes'[p] = recent
      BY <1>1, <1>5
    <3>6. /\ Cardinality(PlacesIn(recent, u..MaxClock)) =< Len(recent)
          /\ Cardinality(PlacesIn(recent, u..MaxClock)) \in Nat
      BY <1>3, PlacesAreFinite
    <3>7. Len(recent) \in Nat
      BY <1>3
    <3>8. SumTotal(restarts'[p], Span(t)) \in Int /\ SumTotal(restarts'[p], u..MaxClock) \in Int
      BY <1>11, <1>12, <2>2, <3>2
    <3> QED BY <3>1, <3>3, <3>4, <3>5, <3>6, <3>7, <3>8
  <2> QED BY <2>3, <2>4
<1>17. SpansAreBounded'
  BY <1>13, <1>16 DEF SpansAreBounded
<1> QED BY <1>7, <1>10, <1>15, <1>17

LEMMA HistoryKeeps ==
  ASSUME RestartsAreRemembered, SpansAreBounded, UNCHANGED <<clock, crashes, restarts>>
  PROVE  RestartsAreRemembered' /\ SpansAreBounded'
BY DEF RestartsAreRemembered, SpansAreBounded

-----------------------------------------------------------------------------
(* The steps.                                                                 *)

LEMMA WorkerInvInit == SupervisorInit => WorkerInv
<1> SUFFICES ASSUME SupervisorInit PROVE WorkerInv
  OBVIOUS
<1>1. TypeInv
  <2>1. running = <<>> /\ DOMAIN running = {} /\ running \in Seq(Worker)
    BY DEF SupervisorInit
  <2>2. crashes \in [ProviderProfile -> Seq(Nat)] /\ \A p \in ProviderProfile : crashes[p] \in Seq(0..0)
    BY DEF SupervisorInit
  <2>3. restarts \in [ProviderProfile -> [0..MaxClock -> Nat]]
    BY DEF SupervisorInit
  <2>4. call \in Calls /\ call.op = "idle"
    BY DEF SupervisorInit, Idle, Calls
  <2>5. /\ clock = 0 /\ binary \in [ProviderProfile -> Hash] /\ listener \subseteq ProviderProfile
        /\ pinned \in [ProviderProfile -> Hash \union {NoHash}] /\ stopped \union orphans \subseteq ProviderProfile
        /\ lastMode \in [ProviderProfile -> Mode \union {"read_canary", NoMode}]
        /\ shuttingDown \in BOOLEAN
    BY DEF SupervisorInit
  <2>6. \A p \in ProviderProfile : crashes[p] \in Seq(0..clock)
    BY <2>2, <2>5
  <2>7. clock \in 0..MaxClock
    BY <2>5
  <2> QED BY <2>1, <2>2, <2>3, <2>4, <2>5, <2>6, <2>7 DEF TypeInv, SupervisorTypeOK
<1>2. OverdueAhead
  BY DEF SupervisorInit, OverdueAhead
<1>3. ASSUME NEW p \in ProviderProfile, NEW S \in SUBSET (0..MaxClock)
      PROVE  SumTotal(restarts[p], S) = 0
  <2> DEFINE f == restarts[p]
  <2>1. \A t \in S : f[t] = 0
    BY DEF SupervisorInit
  <2>2. IsFiniteSet(S)
    BY TimesAreFinite, FS_Subset
  <2> HIDE DEF f
  <2>3. SumTotal(f, S) = SumTotal(f, {})
    <3>1. /\ \A t \in S : f[t] \in Int
          /\ \A t \in S \ {} : f[t] = 0
          /\ {} \in SUBSET S
      BY <2>1
    <3> QED BY <2>2, <3>1, SumZeros
  <2> QED BY <2>3, SumEmpty DEF f
<1>4. RestartsAreRemembered
  <2> SUFFICES ASSUME NEW p \in ProviderProfile, NEW u \in 0..MaxClock
               PROVE  SumTotal(restarts[p], u..MaxClock)
                        =< Cardinality(PlacesIn(crashes[p], u..MaxClock))
    BY DEF RestartsAreRemembered
  <2>1. u..MaxClock \in SUBSET (0..MaxClock)
    OBVIOUS
  <2>2. SumTotal(restarts[p], u..MaxClock) = 0
    BY <1>3, <2>1
  <2>3. crashes[p] \in Seq(Nat)
    BY DEF SupervisorInit
  <2>4. Cardinality(PlacesIn(crashes[p], u..MaxClock)) \in Nat
    BY <2>3, PlacesAreFinite
  <2> QED BY <2>2, <2>4
<1>5. SpansAreBounded
  <2>1. \A t \in 0..MaxClock : Span(t) \in SUBSET (0..MaxClock)
    BY DEF Span
  <2> QED BY <1>3, <2>1 DEF SpansAreBounded
<1> QED BY <1>1, <1>2, <1>4, <1>5 DEF WorkerInv

LEMMA StartStepKeeps ==
  ASSUME WorkerInv, NEW p \in ProviderProfile, NEW mode \in Mode, Start(p, mode)
  PROVE  WorkerInv'
<1>1. PICK launch \in Launch : StartAmong(running, p, mode, launch)
  BY DEF Start
<1>2. /\ running' \in Seq(Worker)
      /\ pinned' \in [ProviderProfile -> Hash \union {NoHash}]
      /\ lastMode' \in [ProviderProfile -> Mode \union {"read_canary", NoMode}]
      /\ \A w \in DOMAIN running' : lastMode'[running'[w].profile] # NoMode
      /\ \A w \in DOMAIN running' :
           (w \in DOMAIN running /\ running'[w] = running[w]) \/ running'[w].status = "alive"
  BY <1>1, StartKeeps DEF WorkerInv, TypeInv, SupervisorTypeOK
<1>3. UNCHANGED <<clock, binary, listener, crashes, stopped, shuttingDown, call, report, orphans,
                  restarts>>
  BY DEF Start, world, result
<1>4. TypeInv'
  BY <1>2, <1>3 DEF WorkerInv, TypeInv, SupervisorTypeOK
<1>5. OverdueAhead'
  BY <1>2, <1>3 DEF WorkerInv, OverdueAhead
<1> QED BY <1>3, <1>4, <1>5, HistoryKeeps DEF WorkerInv

LEMMA PollBeginKeeps ==
  ASSUME WorkerInv, PollBegin
  PROVE  WorkerInv'
<1>1. UNCHANGED <<clock, binary, listener, pinned, running, crashes, stopped, lastMode,
                  shuttingDown, report, orphans, restarts>>
  BY DEF PollBegin, world, supervisor, result
<1>2. Owed(running) \in Seq(Nat)
  BY OwedIsSeq DEF WorkerInv, TypeInv, SupervisorTypeOK
<1>3. call' \in Calls /\ call'.op = "answer" /\ call.op = "idle"
  BY <1>2 DEF PollBegin, Calls, Idle
<1>4. TypeInv'
  BY <1>1, <1>3 DEF WorkerInv, TypeInv, SupervisorTypeOK
<1>5. OverdueAhead'
  BY <1>1, <1>3 DEF WorkerInv, OverdueAhead
<1> QED BY <1>1, <1>4, <1>5, HistoryKeeps DEF WorkerInv

LEMMA CallStepKeeps ==
  ASSUME WorkerInv, PollAlive \/ PollEnd \/ ShutdownNext
  PROVE  WorkerInv'
<1>1. UNCHANGED <<clock, binary, listener, pinned, running, crashes, stopped, lastMode,
                  shuttingDown, report, orphans, restarts>>
  BY DEF PollAlive, PollEnd, ShutdownNext, world, supervisor, result
<1>2. call \in Calls /\ (call.op \in {"poll", "shutdown"} => call.i \in Nat /\ call.i >= 1)
  <2>1. call \in Calls
    BY DEF WorkerInv, TypeInv, SupervisorTypeOK
  <2> QED BY <2>1, CallShapes DEF WorkerInv, TypeInv
<1>3. CASE PollAlive \/ ShutdownNext
  <2>1. /\ call.op \in {"poll", "shutdown"} /\ call' = [call EXCEPT !.i = @ + 1]
    BY <1>3 DEF PollAlive, ShutdownNext
  <2>2. /\ call' \in Calls /\ call'.op = call.op /\ call'.i = call.i + 1
    BY <1>2, <2>1, CallShapes
  <2>3. TypeInv'
    BY <1>1, <1>2, <2>1, <2>2 DEF WorkerInv, TypeInv, SupervisorTypeOK
  <2>4. OverdueAhead'
    <3>1. \A w \in DOMAIN running : w \in Nat
      BY DEF WorkerInv, TypeInv, SupervisorTypeOK
    <3>2. CASE PollAlive
      BY <1>1, <1>2, <2>1, <2>2, <3>1, <3>2 DEF PollAlive, WorkerInv, OverdueAhead
    <3>3. CASE ShutdownNext
      BY <1>1, <3>3 DEF ShutdownNext, WorkerInv, OverdueAhead
    <3> QED BY <1>3, <3>2, <3>3
  <2> QED BY <1>1, <2>3, <2>4, HistoryKeeps DEF WorkerInv
<1>4. CASE PollEnd
  <2>1. call' \in Calls /\ call'.op = "idle"
    BY <1>4 DEF PollEnd, Idle, Calls
  <2>2. TypeInv'
    BY <1>1, <2>1 DEF WorkerInv, TypeInv, SupervisorTypeOK
  <2>3. \A w \in DOMAIN running : w < call.i
    <3>1. Len(running) \in Nat /\ DOMAIN running = 1..Len(running)
      BY DEF WorkerInv, TypeInv, SupervisorTypeOK
    <3>2. call.i \notin DOMAIN running /\ call.i \in Nat /\ call.i >= 1
      BY <1>2, <1>4 DEF PollEnd
    <3> QED BY <3>1, <3>2
  <2>4. \A w \in DOMAIN running : running[w].status # "overdue"
    <3>1. \A w \in DOMAIN running : w \in Nat /\ call.i \in Nat
      BY <1>2, <1>4 DEF PollEnd, WorkerInv, TypeInv, SupervisorTypeOK
    <3> QED BY <2>3, <3>1 DEF WorkerInv, OverdueAhead
  <2> QED BY <1>1, <2>2, <2>4, HistoryKeeps DEF WorkerInv, OverdueAhead
<1> QED BY <1>3, <1>4

(* The worker is taken out, the later ones move up to where the poll is, and  *)
(* its successor, at the end, has not exited.                                 *)
LEMMA PollExitedKeeps ==
  ASSUME WorkerInv, PollExited
  PROVE  WorkerInv'
<1> DEFINE p == running[call.i].profile
           others == RemoveAt(running, call.i)
<1>1. /\ running \in Seq(Worker) /\ call \in Calls
      /\ call.op = "poll" /\ call.i \in DOMAIN running
      /\ \A w \in DOMAIN running : running[w] \in Worker /\ lastMode[running[w].profile] # NoMode
  BY DEF PollExited, WorkerInv, TypeInv, SupervisorTypeOK
<1>2. p \in ProviderProfile /\ lastMode[p] # NoMode /\ lastMode[p] \in Mode \union {"read_canary"}
  BY <1>1 DEF WorkerInv, TypeInv, SupervisorTypeOK, Worker
<1>3. /\ others \in Seq(Worker)
      /\ \A k \in DOMAIN others :
           /\ k \in Nat /\ k < call.i => k \in DOMAIN running /\ others[k] = running[k]
           /\ k >= call.i => k + 1 \in DOMAIN running /\ others[k] = running[k + 1]
  <2>1. \A i \in DOMAIN running :
          /\ RemoveAt(running, i) \in Seq(Worker)
          /\ \A k \in DOMAIN RemoveAt(running, i) :
               /\ k \in Nat /\ k < i => k \in DOMAIN running /\ RemoveAt(running, i)[k] = running[k]
               /\ k >= i => k + 1 \in DOMAIN running /\ RemoveAt(running, i)[k] = running[k + 1]
    BY <1>1, RemoveAtTakesOut
  <2> QED BY <1>1, <2>1
<1>4. /\ \A k \in DOMAIN others : \E w \in DOMAIN running : others[k] = running[w]
      /\ \A k \in DOMAIN others : others[k].status = "overdue" => call.i =< k
  <2> SUFFICES ASSUME NEW k \in DOMAIN others
               PROVE  /\ \E w \in DOMAIN running : others[k] = running[w]
                      /\ others[k].status = "overdue" => call.i =< k
    OBVIOUS
  <2>1. call.i \in Nat /\ k \in Nat
    <3>1. Len(others) \in Nat /\ DOMAIN others = 1..Len(others)
      <4> HIDE DEF others
      <4> QED BY <1>3
    <3> QED BY <1>1, <3>1
  <2>2. CASE k < call.i
    <3>1. k \in DOMAIN running /\ others[k] = running[k]
      BY <1>3, <2>1, <2>2
    <3>2. running[k].status = "overdue" => call.i =< k
      BY <3>1 DEF WorkerInv, OverdueAhead
    <3> QED BY <3>1, <3>2
  <2>3. CASE k >= call.i
    BY <1>3, <2>1, <2>3
  <2> QED BY <2>1, <2>2, <2>3
<1>5. \A k \in DOMAIN others : lastMode[others[k].profile] # NoMode
  BY <1>1, <1>4
<1>6. UNCHANGED <<clock, binary, listener, shuttingDown, call, report, orphans>>
  BY DEF PollExited, world, result
<1> HIDE DEF others, p
<1>7. CASE shuttingDown
  <2>1. running' = others /\ UNCHANGED <<pinned, crashes, stopped, lastMode, restarts>>
    BY <1>7 DEF PollExited, others, p
  <2>2. TypeInv'
    BY <1>3, <1>5, <1>6, <2>1 DEF WorkerInv, TypeInv, SupervisorTypeOK
  <2>3. OverdueAhead'
    BY <1>1, <1>4, <1>6, <2>1 DEF OverdueAhead
  <2> QED BY <1>6, <2>1, <2>2, <2>3, HistoryKeeps DEF WorkerInv
<1>8. CASE ~ shuttingDown
  <2>1. MaybeRestart(others, p)
    BY <1>8 DEF PollExited, others, p
  <2>2. /\ crashes' \in [ProviderProfile -> Seq(Nat)]
        /\ \A q \in ProviderProfile : crashes'[q] \in Seq(0..clock')
        /\ restarts' \in [ProviderProfile -> [0..MaxClock -> Nat]]
        /\ RestartsAreRemembered' /\ SpansAreBounded'
    BY <1>2, <1>6, <2>1, MaybeRestartKeeps DEF WorkerInv
  <2>3. stopped' \subseteq ProviderProfile
    BY <1>2, <2>1 DEF MaybeRestart, WorkerInv, TypeInv, SupervisorTypeOK
  <2>4. /\ running' \in Seq(Worker)
        /\ pinned' \in [ProviderProfile -> Hash \union {NoHash}]
        /\ lastMode' \in [ProviderProfile -> Mode \union {"read_canary", NoMode}]
        /\ \A w \in DOMAIN running' : lastMode'[running'[w].profile] # NoMode
        /\ \A w \in DOMAIN running' :
             (w \in DOMAIN others /\ running'[w] = others[w]) \/ running'[w].status = "alive"
    <3>1. CASE running' = others /\ UNCHANGED <<pinned, lastMode>>
      BY <1>3, <1>5, <3>1 DEF WorkerInv, TypeInv, SupervisorTypeOK
    <3>2. ASSUME NEW launch \in Launch, StartAmong(others, p, lastMode[p], launch)
          PROVE  /\ running' \in Seq(Worker)
                 /\ pinned' \in [ProviderProfile -> Hash \union {NoHash}]
                 /\ lastMode' \in [ProviderProfile -> Mode \union {"read_canary", NoMode}]
                 /\ \A w \in DOMAIN running' : lastMode'[running'[w].profile] # NoMode
                 /\ \A w \in DOMAIN running' :
                      (w \in DOMAIN others /\ running'[w] = others[w]) \/ running'[w].status = "alive"
      BY <1>2, <1>3, <1>5, <3>2, StartKeeps DEF WorkerInv
    <3> QED BY <2>1, <3>1, <3>2 DEF MaybeRestart
  <2>5. TypeInv'
    BY <1>6, <2>2, <2>3, <2>4 DEF WorkerInv, TypeInv, SupervisorTypeOK
  <2>6. OverdueAhead'
    BY <1>1, <1>4, <1>6, <2>4 DEF OverdueAhead
  <2> QED BY <2>2, <2>5, <2>6 DEF WorkerInv
<1> QED BY <1>7, <1>8

LEMMA ShutdownBeginKeeps ==
  ASSUME WorkerInv, ShutdownBegin
  PROVE  WorkerInv'
<1>1. /\ running' \in Seq(Worker) /\ DOMAIN running' = DOMAIN running
      /\ \A w \in DOMAIN running : /\ running'[w].profile = running[w].profile
                                   /\ running'[w].status = running[w].status
  BY CloseKeeps DEF ShutdownBegin, WorkerInv
<1>2. /\ UNCHANGED <<clock, binary, listener, pinned, crashes, stopped, lastMode, report, orphans,
                     restarts>>
      /\ shuttingDown' = TRUE /\ call.op = "idle"
  BY DEF ShutdownBegin, world, result, Idle
<1>3. call' \in Calls /\ call'.op = "shutdown" /\ call'.i = 1
  BY DEF ShutdownBegin, Calls
<1>4. TypeInv'
  <2>1. \A w \in DOMAIN running' : lastMode'[running'[w].profile] # NoMode
    BY <1>1, <1>2 DEF WorkerInv, TypeInv, SupervisorTypeOK
  <2>2. call'.i >= 1
    BY <1>3
  <2> QED BY <1>1, <1>2, <1>3, <2>1, <2>2 DEF WorkerInv, TypeInv, SupervisorTypeOK
<1>5. OverdueAhead'
  BY <1>1, <1>2 DEF WorkerInv, OverdueAhead
<1> QED BY <1>2, <1>4, <1>5, HistoryKeeps DEF WorkerInv

(* What happens to one worker leaves the others as they are.                  *)
LEMMA OneWorkerKeeps ==
  ASSUME WorkerInv, NEW w \in DOMAIN running, NEW new \in Worker,
         new.profile = running[w].profile, new.status # "overdue",
         running' = [running EXCEPT ![w] = new]
  PROVE  /\ running' \in Seq(Worker)
         /\ \A v \in DOMAIN running' : lastMode[running'[v].profile] # NoMode
         /\ \A v \in DOMAIN running' :
              running'[v].status = "overdue" => call.op = "poll" /\ call.i =< v
<1>1. running \in Seq(Worker) /\ \A v \in DOMAIN running : lastMode[running[v].profile] # NoMode
  BY DEF WorkerInv, TypeInv, SupervisorTypeOK
<1>2. /\ running' \in Seq(Worker) /\ DOMAIN running' = DOMAIN running
      /\ running'[w] = new
      /\ \A v \in DOMAIN running : v # w => running'[v] = running[v]
  BY <1>1
<1> QED BY <1>1, <1>2 DEF WorkerInv, OverdueAhead

LEMMA ChattingKeeps ==
  ASSUME NEW x \in Worker, NEW n \in Nat
  PROVE  /\ [x EXCEPT !.unread = n] \in Worker
         /\ [x EXCEPT !.unread = n].profile = x.profile
         /\ [x EXCEPT !.unread = n].status = x.status
         /\ [x EXCEPT !.requests = n] \in Worker
         /\ [x EXCEPT !.requests = n].profile = x.profile
         /\ [x EXCEPT !.requests = n].status = x.status
BY DEF Worker

LEMMA ChatIsNat ==
  ASSUME NEW x \in Worker
  PROVE  x.unread \in Nat /\ x.requests \in Nat
BY DEF Worker

(* A reply changes what its worker has to read, and nothing else of it.       *)
LEMMA ReplyKeeps ==
  ASSUME WorkerInv, Reply
  PROVE  WorkerInv'
<1>1. PICK w \in DOMAIN running \intersect DOMAIN call.owed :
        /\ call.owed[w] > 0
        /\ running' = running \/ running' = [running EXCEPT ![w].unread = @ + 1]
        /\ call' = [call EXCEPT !.owed[w] = @ - 1]
  BY DEF Reply
<1>2. UNCHANGED <<clock, binary, listener, pinned, crashes, stopped, lastMode, shuttingDown,
                  report, orphans, restarts>> /\ call.op = "answer"
  BY DEF Reply, world, result
<1>3. call' \in Calls /\ call'.op = "answer"
  <2>1. call \in Calls
    BY DEF WorkerInv, TypeInv, SupervisorTypeOK
  <2>2. /\ call.owed \in Seq(Nat)
        /\ \A owed \in Seq(Nat) : /\ [call EXCEPT !.owed = owed] \in Calls
                                  /\ [call EXCEPT !.owed = owed].op = "answer"
    BY <1>2, <2>1, AnswerShapes
  <2> DEFINE owed == [call.owed EXCEPT ![w] = @ - 1]
  <2>3. owed \in Seq(Nat)
    BY <1>1, <2>2
  <2>4. call' = [call EXCEPT !.owed = owed]
    BY <1>1
  <2> HIDE DEF owed
  <2> QED BY <2>2, <2>3, <2>4
<1>4. /\ running' \in Seq(Worker)
      /\ \A v \in DOMAIN running' : lastMode[running'[v].profile] # NoMode
      /\ \A v \in DOMAIN running' : running'[v].status # "overdue"
  <2>1. \A v \in DOMAIN running : running[v].status # "overdue"
    BY <1>2 DEF WorkerInv, OverdueAhead
  <2>2. CASE running' = running
    BY <2>1, <2>2 DEF WorkerInv, TypeInv, SupervisorTypeOK
  <2>3. CASE running' = [running EXCEPT ![w].unread = @ + 1]
    <3> DEFINE new == [running[w] EXCEPT !.unread = running[w].unread + 1]
    <3>1. running \in Seq(Worker) /\ running[w] \in Worker
      BY <1>1 DEF WorkerInv, TypeInv, SupervisorTypeOK
    <3>2. running' = [running EXCEPT ![w] = new]
      BY <2>3, <3>1
    <3>3. running[w].unread + 1 \in Nat
      <4>1. running[w].unread \in Nat
        BY <3>1, ChatIsNat
      <4> QED BY <4>1
    <3>4. new \in Worker /\ new.profile = running[w].profile /\ new.status # "overdue"
      <4> DEFINE n == running[w].unread + 1
      <4>1. new = [running[w] EXCEPT !.unread = n]
        OBVIOUS
      <4>2. running[w].status # "overdue" /\ n \in Nat
        BY <1>1, <2>1, <3>3
      <4> HIDE DEF n, new
      <4> QED BY <3>1, <4>1, <4>2, ChattingKeeps
    <3> HIDE DEF new
    <3> QED BY <1>1, <1>2, <3>2, <3>4, OneWorkerKeeps
  <2> QED BY <1>1, <2>2, <2>3
<1>5. TypeInv'
  BY <1>2, <1>3, <1>4 DEF WorkerInv, TypeInv, SupervisorTypeOK
<1>6. OverdueAhead'
  BY <1>4 DEF OverdueAhead
<1> QED BY <1>2, <1>5, <1>6, HistoryKeeps DEF WorkerInv

LEMMA WalkBeginKeeps ==
  ASSUME WorkerInv, WalkBegin
  PROVE  WorkerInv'
<1>1. /\ running' \in Seq(Worker) /\ DOMAIN running' = DOMAIN running
      /\ \A w \in DOMAIN running : running'[w].profile = running[w].profile
  BY MarkKeeps DEF WalkBegin, WorkerInv
<1>2. UNCHANGED <<clock, binary, listener, pinned, crashes, stopped, lastMode, shuttingDown,
                  report, orphans, restarts>>
  BY DEF WalkBegin, world, result
<1>3. call' \in Calls /\ call'.op = "poll" /\ call'.i = 1
  <2>1. call \in Calls /\ call.op = "answer"
    BY DEF WalkBegin, WorkerInv, TypeInv, SupervisorTypeOK
  <2>2. CASE InReport
    <3>1. call.for \in ProviderProfile /\ call.tries \in Nat
      BY <2>1, <2>2, AnswerShapes DEF InReport
    <3> QED BY <2>2, <3>1 DEF WalkBegin, Calls
  <2>3. CASE ~ InReport
    BY <2>3 DEF WalkBegin, Calls
  <2> QED BY <2>2, <2>3
<1>4. TypeInv'
  <2>1. \A w \in DOMAIN running' : lastMode'[running'[w].profile] # NoMode
    BY <1>1, <1>2 DEF WorkerInv, TypeInv, SupervisorTypeOK
  <2>2. call'.i >= 1
    BY <1>3
  <2> QED BY <1>1, <1>2, <1>3, <2>1, <2>2 DEF WorkerInv, TypeInv, SupervisorTypeOK
<1>5. OverdueAhead'
  <2>1. \A w \in DOMAIN running' : w >= 1
    BY <1>1
  <2> QED BY <1>3, <2>1 DEF OverdueAhead
<1> QED BY <1>2, <1>4, <1>5, HistoryKeeps DEF WorkerInv

LEMMA ShutdownKillKeeps ==
  ASSUME WorkerInv, ShutdownKill
  PROVE  WorkerInv'
<1> DEFINE new == [running[call.i] EXCEPT !.status = "exited"]
<1>1. /\ call \in Calls /\ call.op = "shutdown" /\ call.i \in DOMAIN running /\ call.i >= 1
      /\ running[call.i] \in Worker
      /\ call' = [call EXCEPT !.i = @ + 1]
      /\ running' = [running EXCEPT ![call.i].status = "exited"]
  BY DEF ShutdownKill, WorkerInv, TypeInv, SupervisorTypeOK
<1>2. running' = [running EXCEPT ![call.i] = new]
  BY <1>1
<1>3. new \in Worker /\ new.profile = running[call.i].profile /\ new.status # "overdue"
  BY <1>1 DEF Worker, Status
<1>4. UNCHANGED <<clock, binary, listener, pinned, crashes, stopped, lastMode, shuttingDown,
                  report, orphans, restarts>>
  BY DEF ShutdownKill, world, result
<1>5. call' \in Calls /\ call'.op = "shutdown" /\ call'.i = call.i + 1 /\ call.i \in Nat
  <2> HIDE DEF new
  <2>1. /\ call.i \in Nat
        /\ \A n \in Nat : /\ [call EXCEPT !.i = n] \in Calls
                          /\ [call EXCEPT !.i = n].op = call.op
                          /\ [call EXCEPT !.i = n].i = n
    BY <1>1, CallShapes
  <2> DEFINE n == call.i + 1
  <2>2. call' = [call EXCEPT !.i = n]
    BY <1>1
  <2>3. n \in Nat
    BY <2>1
  <2> HIDE DEF n
  <2>4. call' \in Calls /\ call'.op = call.op /\ call'.i = n
    BY <2>1, <2>2, <2>3
  <2> QED BY <1>1, <2>1, <2>4 DEF n
<1> HIDE DEF new
<1>6. /\ running' \in Seq(Worker)
      /\ \A v \in DOMAIN running' : lastMode[running'[v].profile] # NoMode
      /\ \A v \in DOMAIN running' :
           running'[v].status = "overdue" => call.op = "poll" /\ call.i =< v
  BY <1>1, <1>2, <1>3, OneWorkerKeeps
<1>7. TypeInv'
  <2>1. call'.i >= 1
    BY <1>1, <1>5
  <2> QED BY <1>4, <1>5, <1>6, <2>1 DEF WorkerInv, TypeInv, SupervisorTypeOK
<1>8. OverdueAhead'
  BY <1>1, <1>6 DEF OverdueAhead
<1> QED BY <1>4, <1>7, <1>8, HistoryKeeps DEF WorkerInv

LEMMA DrainKeeps ==
  ASSUME WorkerInv, Drain
  PROVE  WorkerInv'
<1>1. /\ UNCHANGED <<clock, binary, listener, pinned, crashes, stopped, lastMode, shuttingDown,
                     restarts>>
      /\ running' = <<>> /\ call' = Idle /\ orphans' = orphans \union Reported
  BY DEF Drain, world
<1>2. Reported \subseteq ProviderProfile
  BY DEF Reported, WorkerInv, TypeInv, SupervisorTypeOK
<1>3. running' \in Seq(Worker) /\ DOMAIN running' = {}
  BY <1>1
<1>4. call' \in Calls /\ call'.op = "idle"
  BY <1>1 DEF Idle, Calls
<1>5. TypeInv'
  BY <1>1, <1>2, <1>3, <1>4 DEF WorkerInv, TypeInv, SupervisorTypeOK
<1>6. OverdueAhead'
  BY <1>3 DEF OverdueAhead
<1> QED BY <1>1, <1>5, <1>6, HistoryKeeps DEF WorkerInv

(* A poll that has run out has come by every worker that was overdue.         *)
LEMMA PollRunsOut ==
  ASSUME WorkerInv, call.op = "poll", call.i \notin DOMAIN running
  PROVE  \A w \in DOMAIN running : running[w].status # "overdue"
<1>1. Len(running) \in Nat /\ DOMAIN running = 1..Len(running) /\ call \in Calls /\ call.i >= 1
  BY DEF WorkerInv, TypeInv, SupervisorTypeOK
<1>2. call.i \in Nat
  BY <1>1, CallShapes
<1>3. \A w \in DOMAIN running : w \in Nat /\ w < call.i
  BY <1>1, <1>2
<1> QED BY <1>2, <1>3 DEF WorkerInv, OverdueAhead

LEMMA ReportBeginKeeps ==
  ASSUME WorkerInv, NEW p \in ProviderProfile, ReportBegin(p)
  PROVE  WorkerInv'
<1>1. /\ StartAmong(running, p, "read_canary", "ok")
      /\ UNCHANGED <<clock, binary, listener, crashes, stopped, shuttingDown, report, orphans,
                     restarts>>
      /\ call' = [op |-> "answer", owed |-> Owed(running'), for |-> p, tries |-> 1]
      /\ call.op = "idle"
  BY DEF ReportBegin, world, result, Idle
<1>2. running \in Seq(Worker) /\ \A w \in DOMAIN running : lastMode[running[w].profile] # NoMode
  BY DEF WorkerInv, TypeInv, SupervisorTypeOK
<1>3. /\ running' \in Seq(Worker)
      /\ pinned' \in [ProviderProfile -> Hash \union {NoHash}]
      /\ lastMode' \in [ProviderProfile -> Mode \union {"read_canary", NoMode}]
      /\ \A w \in DOMAIN running' : lastMode'[running'[w].profile] # NoMode
      /\ \A w \in DOMAIN running' :
           (w \in DOMAIN running /\ running'[w] = running[w]) \/ running'[w].status = "alive"
  BY <1>1, <1>2, StartKeeps DEF WorkerInv
<1>4. call' \in Calls /\ call'.op = "answer"
  <2>1. Owed(running') \in Seq(Nat)
    BY <1>3, OwedIsSeq
  <2> QED BY <1>1, <2>1 DEF Calls
<1>5. TypeInv'
  BY <1>1, <1>3, <1>4 DEF WorkerInv, TypeInv, SupervisorTypeOK
<1>6. OverdueAhead'
  BY <1>1, <1>3 DEF WorkerInv, OverdueAhead
<1> QED BY <1>1, <1>5, <1>6, HistoryKeeps DEF WorkerInv

LEMMA ReportAgainKeeps ==
  ASSUME WorkerInv, ReportAgain
  PROVE  WorkerInv'
<1>1. /\ call \in Calls /\ call.op = "poll" /\ "for" \in DOMAIN call
      /\ call.i \notin DOMAIN running
      /\ call' = [op |-> "answer", owed |-> Owed(running), for |-> call.for,
                  tries |-> call.tries + 1]
  BY DEF ReportAgain, InReport, WorkerInv, TypeInv, SupervisorTypeOK
<1>2. UNCHANGED <<clock, binary, listener, pinned, running, crashes, stopped, lastMode,
                  shuttingDown, report, orphans, restarts>>
  BY DEF ReportAgain, world, supervisor, result
<1>3. call' \in Calls /\ call'.op = "answer"
  <2>1. Owed(running) \in Seq(Nat)
    BY OwedIsSeq DEF WorkerInv, TypeInv, SupervisorTypeOK
  <2>2. call.for \in ProviderProfile /\ call.tries \in Nat
    BY <1>1, ReportIsFor
  <2> QED BY <1>1, <2>1, <2>2 DEF Calls
<1>4. TypeInv'
  BY <1>2, <1>3 DEF WorkerInv, TypeInv, SupervisorTypeOK
<1>5. OverdueAhead'
  BY <1>1, <1>2, PollRunsOut DEF OverdueAhead
<1> QED BY <1>2, <1>4, <1>5, HistoryKeeps DEF WorkerInv

LEMMA ReportShutdownKeeps ==
  ASSUME WorkerInv, ReportShutdown
  PROVE  WorkerInv'
<1> DEFINE p == call.for
           last == CHOOSE w \in Told(p) : \A v \in Told(p) : v =< w
           said == IF Told(p) = {} THEN "readable" ELSE running[last].canary
           boxed == IF {w \in DOMAIN running : running[w].profile = p} # {} /\ p \in Sandbox
                    THEN "yes" ELSE "no"
<1>1. /\ call.op = "poll" /\ "for" \in DOMAIN call /\ call.i \notin DOMAIN running
      /\ call' = [op |-> "shutdown", i |-> 1, for |-> p, canary |-> said, sandboxed |-> boxed]
  BY DEF ReportShutdown, InReport
<1>2. /\ UNCHANGED <<clock, binary, listener, pinned, crashes, stopped, lastMode, report, orphans,
                     restarts>>
      /\ shuttingDown' = TRUE /\ running' = CloseAll
  BY DEF ReportShutdown, world, result
<1>3. p \in ProviderProfile
  <2>1. call \in [op : {"poll"}, i : Nat, for : ProviderProfile, tries : Nat]
    <3>1. call \in Calls
      BY DEF WorkerInv, TypeInv, SupervisorTypeOK
    <3>2. call.op = "poll" /\ "for" \in DOMAIN call
      BY <1>1
    <3> QED BY <3>1, <3>2 DEF Calls
  <2> QED BY <2>1
<1>4. said \in Canary
  <2>1. CASE Told(p) = {}
    BY <2>1 DEF Canary
  <2>2. CASE Told(p) # {}
    <3>1. Len(running) \in Nat /\ DOMAIN running = 1..Len(running)
      BY DEF WorkerInv, TypeInv, SupervisorTypeOK
    <3>2. Told(p) \in SUBSET (0..Len(running))
      BY <3>1 DEF Told
    <3>3. \E w \in Told(p) : \A v \in Told(p) : v =< w
      <4> HIDE DEF p
      <4> QED BY <2>2, <3>1, <3>2, GreatestUpTo
    <3>4. last \in Told(p)
      BY <3>3
    <3> HIDE DEF last
    <3>5. running[last] \in Worker
      BY <3>4 DEF Told, WorkerInv, TypeInv, SupervisorTypeOK
    <3> QED BY <2>2, <3>5 DEF Worker
  <2> QED BY <2>1, <2>2
<1> HIDE DEF p, said
<1>5. boxed \in {"yes", "no"}
  OBVIOUS
<1> HIDE DEF boxed
<1>6. call' \in Calls /\ call'.op = "shutdown" /\ call'.i = 1
  BY <1>1, <1>3, <1>4, <1>5 DEF Calls
<1>7. /\ running' \in Seq(Worker) /\ DOMAIN running' = DOMAIN running
      /\ \A w \in DOMAIN running : /\ running'[w].profile = running[w].profile
                                   /\ running'[w].status = running[w].status
  BY <1>2, CloseKeeps DEF WorkerInv
<1>8. TypeInv'
  <2>1. \A w \in DOMAIN running' : lastMode'[running'[w].profile] # NoMode
    BY <1>2, <1>7 DEF WorkerInv, TypeInv, SupervisorTypeOK
  <2>2. call'.i >= 1
    BY <1>6
  <2> QED BY <1>2, <1>6, <1>7, <2>1, <2>2 DEF WorkerInv, TypeInv, SupervisorTypeOK
<1>9. OverdueAhead'
  BY <1>1, <1>7, PollRunsOut DEF OverdueAhead
<1> QED BY <1>2, <1>8, <1>9, HistoryKeeps DEF WorkerInv

(* A process exits, opens its listener, tells what it could read, asks for a  *)
(* shell or reads a reply.                                                    *)
LEMMA ProcessKeeps ==
  ASSUME WorkerInv, NEW w \in DOMAIN running,
         ProcessStep(w)
  PROVE  WorkerInv'
<1>1. /\ UNCHANGED <<clock, binary, pinned, crashes, stopped, lastMode, shuttingDown, call,
                     report, orphans, restarts>>
      /\ running[w].status = "alive"
  BY DEF ProcessStep, Crash, ExitOnEof, OpenListener, ReadCanary, AskShell, ReadReply,
         world, supervisor, result
<1>2. running \in Seq(Worker) /\ running[w] \in Worker /\ listener \subseteq ProviderProfile
  BY DEF WorkerInv, TypeInv, SupervisorTypeOK
<1>3. listener' \subseteq ProviderProfile
  BY <1>2 DEF ProcessStep, Crash, ExitOnEof, OpenListener, ReadCanary, AskShell, ReadReply,
              world, Worker
<1>4. /\ running' \in Seq(Worker)
      /\ \A v \in DOMAIN running' : lastMode[running'[v].profile] # NoMode
      /\ \A v \in DOMAIN running' :
           running'[v].status = "overdue" => call.op = "poll" /\ call.i =< v
  <2>1. CASE Crash(w) \/ ExitOnEof(w)
    <3> DEFINE new == [running[w] EXCEPT !.status = "exited"]
    <3>1. running' = [running EXCEPT ![w] = new]
      BY <1>2, <2>1 DEF Crash, ExitOnEof
    <3>2. new \in Worker /\ new.profile = running[w].profile /\ new.status # "overdue"
      BY <1>2 DEF Worker, Status
    <3> HIDE DEF new
    <3> QED BY <3>1, <3>2, OneWorkerKeeps
  <2>2. CASE OpenListener(w)
    BY <2>2 DEF OpenListener, supervisor, WorkerInv, TypeInv, SupervisorTypeOK, OverdueAhead
  <2>3. CASE ReadCanary(w)
    <3>1. PICK said \in Canary : running' = [running EXCEPT ![w].canary = said]
      BY <2>3 DEF ReadCanary, Canary
    <3> DEFINE new == [running[w] EXCEPT !.canary = said]
    <3>2. running' = [running EXCEPT ![w] = new]
      BY <1>2, <3>1
    <3>3. new \in Worker /\ new.profile = running[w].profile /\ new.status # "overdue"
      BY <1>1, <1>2 DEF Worker
    <3> HIDE DEF new
    <3> QED BY <3>2, <3>3, OneWorkerKeeps
  <2>4. CASE AskShell(w)
    <3> DEFINE n == running[w].requests + 1
               new == [running[w] EXCEPT !.requests = n]
    <3>1. running' = [running EXCEPT ![w] = new]
      BY <1>2, <2>4 DEF AskShell
    <3>2. n \in Nat
      <4>1. running[w].requests \in Nat
        BY <1>2, ChatIsNat
      <4> QED BY <4>1
    <3> HIDE DEF n
    <3>3. new \in Worker /\ new.profile = running[w].profile /\ new.status # "overdue"
      BY <1>1, <1>2, <3>2, ChattingKeeps
    <3> HIDE DEF new
    <3> QED BY <3>1, <3>3, OneWorkerKeeps
  <2>5. CASE ReadReply(w)
    <3> DEFINE n == running[w].unread - 1
               new == [running[w] EXCEPT !.unread = n]
    <3>1. running' = [running EXCEPT ![w] = new]
      BY <1>2, <2>5 DEF ReadReply
    <3>2. n \in Nat
      <4>1. running[w].unread \in Nat /\ running[w].unread > 0
        BY <1>2, <2>5, ChatIsNat DEF ReadReply
      <4> QED BY <4>1
    <3> HIDE DEF n
    <3>3. new \in Worker /\ new.profile = running[w].profile /\ new.status # "overdue"
      BY <1>1, <1>2, <3>2, ChattingKeeps
    <3> HIDE DEF new
    <3> QED BY <3>1, <3>3, OneWorkerKeeps
  <2> QED BY <2>1, <2>2, <2>3, <2>4, <2>5 DEF ProcessStep
<1>5. TypeInv'
  BY <1>1, <1>3, <1>4 DEF WorkerInv, TypeInv, SupervisorTypeOK
<1>6. OverdueAhead'
  BY <1>1, <1>4 DEF OverdueAhead
<1> QED BY <1>1, <1>5, <1>6, HistoryKeeps DEF WorkerInv

LEMMA TickKeeps ==
  ASSUME WorkerInv, ClockTicks
  PROVE  WorkerInv'
<1>1. /\ UNCHANGED <<binary, listener, pinned, running, crashes, stopped, lastMode, shuttingDown,
                     call, report, orphans, restarts>>
      /\ clock' = clock + 1 /\ clock < MaxClock /\ clock \in 0..MaxClock
  BY DEF ClockTicks, supervisor, result, WorkerInv, TypeInv, SupervisorTypeOK
<1>2. \A p \in ProviderProfile : crashes[p] \in Seq(0..clock')
  <2> TAKE p \in ProviderProfile
  <2>1. crashes[p] \in Seq(0..clock)
    BY DEF WorkerInv, TypeInv, SupervisorTypeOK
  <2>2. \A k \in DOMAIN crashes[p] : crashes[p][k] \in 0..clock
    <3> DEFINE S == 0..clock
    <3>1. crashes[p] \in Seq(S)
      BY <2>1
    <3> HIDE DEF S
    <3>2. \A k \in DOMAIN crashes[p] : crashes[p][k] \in S
      BY <3>1
    <3> QED BY <3>2 DEF S
  <2>3. 0..clock \subseteq 0..clock'
    BY <1>1
  <2>4. \A k \in DOMAIN crashes[p] : crashes[p][k] \in 0..clock'
    BY <2>2, <2>3
  <2> QED BY <2>1, <2>4, SeqInto
<1>3. clock' \in 0..MaxClock
  BY <1>1
<1>4. TypeInv'
  BY <1>1, <1>2, <1>3 DEF WorkerInv, TypeInv, SupervisorTypeOK
<1>5. OverdueAhead'
  BY <1>1 DEF WorkerInv, OverdueAhead
<1>6. RestartsAreRemembered'
  <2>1. \A u \in 0..MaxClock : u + Window >= clock' => u + Window >= clock
    BY <1>1
  <2> QED BY <1>1, <2>1 DEF WorkerInv, RestartsAreRemembered
<1>7. SpansAreBounded'
  BY <1>1 DEF WorkerInv, SpansAreBounded
<1> QED BY <1>4, <1>5, <1>6, <1>7 DEF WorkerInv

LEMMA ReplaceKeeps ==
  ASSUME WorkerInv, NEW p \in ProviderProfile, NEW h \in Hash, ReplaceBinary(p, h)
  PROVE  WorkerInv'
<1>1. /\ UNCHANGED <<clock, listener, pinned, running, crashes, stopped, lastMode, shuttingDown,
                     call, report, orphans, restarts>>
      /\ binary' \in [ProviderProfile -> Hash]
  BY DEF ReplaceBinary, supervisor, result, WorkerInv, TypeInv, SupervisorTypeOK
<1>2. TypeInv'
  BY <1>1 DEF WorkerInv, TypeInv, SupervisorTypeOK
<1>3. OverdueAhead'
  BY <1>1 DEF WorkerInv, OverdueAhead
<1> QED BY <1>1, <1>2, <1>3, HistoryKeeps DEF WorkerInv

LEMMA WorkerInvNext == WorkerInv /\ [SupervisorNext]_supervisorVars => WorkerInv'
<1> SUFFICES ASSUME WorkerInv, [SupervisorNext]_supervisorVars PROVE WorkerInv'
  OBVIOUS
<1>1. ASSUME NEW p \in ProviderProfile, NEW mode \in Mode, Start(p, mode) PROVE WorkerInv'
  BY <1>1, StartStepKeeps
<1>2. ASSUME NEW p \in ProviderProfile, ReportBegin(p) PROVE WorkerInv'
  BY <1>2, ReportBeginKeeps
<1>3. ASSUME NEW p \in ProviderProfile, NEW h \in Hash, ReplaceBinary(p, h) PROVE WorkerInv'
  BY <1>3, ReplaceKeeps
<1>4. CASE PollBegin
  BY <1>4, PollBeginKeeps
<1>5. CASE ShutdownBegin
  BY <1>5, ShutdownBeginKeeps
<1>6. CASE ClockTicks
  BY <1>6, TickKeeps
<1>7. CASE PollAlive \/ PollEnd \/ ShutdownNext
  BY <1>7, CallStepKeeps
<1>8. CASE PollExited
  BY <1>8, PollExitedKeeps
<1>9. CASE ShutdownKill
  BY <1>9, ShutdownKillKeeps
<1>10. CASE Drain
  BY <1>10, DrainKeeps
<1>15. CASE Reply
  BY <1>15, ReplyKeeps
<1>16. CASE WalkBegin
  BY <1>16, WalkBeginKeeps
<1>11. CASE ReportAgain
  BY <1>11, ReportAgainKeeps
<1>12. CASE ReportShutdown
  BY <1>12, ReportShutdownKeeps
<1>13. ASSUME NEW w \in DOMAIN running,
              ProcessStep(w)
       PROVE  WorkerInv'
  BY <1>13, ProcessKeeps
<1>14. CASE UNCHANGED supervisorVars
  <2>1. UNCHANGED <<clock, binary, listener, pinned, running, crashes, stopped, lastMode,
                    shuttingDown, call, report, orphans, restarts>>
    BY <1>14 DEF supervisorVars, world, supervisor, result
  <2>2. TypeInv'
    BY <2>1 DEF WorkerInv, TypeInv, SupervisorTypeOK
  <2>3. OverdueAhead'
    BY <2>1 DEF WorkerInv, OverdueAhead
  <2> QED BY <2>1, <2>2, <2>3, HistoryKeeps DEF WorkerInv
<1> QED BY <1>1, <1>2, <1>3, <1>4, <1>5, <1>6, <1>7, <1>8, <1>9, <1>10, <1>11, <1>12, <1>13,
           <1>14, <1>15, <1>16 DEF SupervisorNext, Serve, ProcessStep

LEMMA WorkerSafety == SupervisorSpec => []WorkerInv
BY WorkerInvInit, WorkerInvNext, PTL DEF SupervisorSpec

-----------------------------------------------------------------------------
LEMMA InvBoundsRestarts == WorkerInv => RestartsAreBounded
<1> SUFFICES ASSUME WorkerInv, NEW p \in ProviderProfile, NEW t \in 0..MaxClock
             PROVE  FoldFunctionOnSet(LAMBDA n, sum : n + sum, 0, restarts[p],
                                      {s \in 0..t : s + Window >= t}) =< MaxRestarts
  BY DEF RestartsAreBounded, WorkerInv, TypeInv
<1>1. SumTotal(restarts[p], Span(t)) =< MaxRestarts
  BY DEF WorkerInv, SpansAreBounded
<1> QED BY <1>1 DEF SumTotal, Span

(* No span of one window holds more automatic restarts of a profile than the  *)
(* limit, for any limit and window: every restart within the window is a      *)
(* crash that maybe_restart still counts.                                     *)
THEOREM RestartsTheorem == SupervisorSpec => []RestartsAreBounded
BY WorkerSafety, InvBoundsRestarts, PTL

LEMMA InvMissesNone == WorkerInv => PollMissesNone
BY DEF WorkerInv, OverdueAhead, PollMissesNone

(* A poll comes by every worker that had exited when it began to walk: what it *)
(* removes moves the later ones up to where it is, what it appends has not    *)
(* exited.                                                                    *)
THEOREM PollTheorem == SupervisorSpec => []PollMissesNone
BY WorkerSafety, InvMissesNone, PTL

-----------------------------------------------------------------------------
(* What a shutdown has come by has exited, and stays so: the walk ends with   *)
(* no worker alive behind it, whatever the processes do meanwhile.            *)
EndedBehind ==
  call.op = "shutdown" =>
    \A w \in DOMAIN running : w < call.i => running[w].status # "alive"

LEMMA EndedBehindInit == SupervisorInit => EndedBehind
BY DEF SupervisorInit, Idle, EndedBehind

LEMMA IndexIsNat ==
  ASSUME WorkerInv, call.op = "shutdown"
  PROVE  call.i \in Nat
<1>1. call \in Calls
  BY DEF WorkerInv, TypeInv, SupervisorTypeOK
<1> QED BY <1>1, CallShapes DEF WorkerInv, TypeInv

LEMMA ExitsStay ==
  ASSUME WorkerInv, NEW w \in DOMAIN running,
         ProcessStep(w)
  PROVE  /\ call' = call /\ DOMAIN running' = DOMAIN running
         /\ \A v \in DOMAIN running :
              running[v].status # "alive" => running'[v].status = running[v].status
<1>1. running \in Seq(Worker) /\ running[w].status = "alive"
  BY DEF WorkerInv, TypeInv, SupervisorTypeOK, ProcessStep, Crash, ExitOnEof, OpenListener,
         ReadCanary, AskShell, ReadReply
<1>2. call' = call
  BY DEF ProcessStep, Crash, ExitOnEof, OpenListener, ReadCanary, AskShell, ReadReply
<1>3. running' = running \/ \E new : running' = [running EXCEPT ![w] = new]
  <2>1. CASE OpenListener(w)
    BY <2>1 DEF OpenListener, supervisor
  <2>2. CASE Crash(w)
    BY <2>2 DEF Crash
  <2>3. CASE ExitOnEof(w)
    BY <2>3 DEF ExitOnEof
  <2>4. CASE ReadCanary(w)
    BY <2>4 DEF ReadCanary
  <2>5. CASE AskShell(w)
    BY <2>5 DEF AskShell
  <2>6. CASE ReadReply(w)
    BY <2>6 DEF ReadReply
  <2> QED BY <2>1, <2>2, <2>3, <2>4, <2>5, <2>6 DEF ProcessStep
<1> QED BY <1>1, <1>2, <1>3

(* While a shutdown walks, only it moves the index. *)
LEMMA ShutdownSteps ==
  ASSUME WorkerInv, call.op = "shutdown", [SupervisorNext]_supervisorVars
  PROVE  \/ ShutdownNext \/ ShutdownKill \/ Drain
         \/ \E w \in DOMAIN running :
              ProcessStep(w)
         \/ UNCHANGED <<call, running>>
<1>1. call # Idle /\ call.op # "poll" /\ call.op # "answer"
  BY DEF Idle
<1>2. ASSUME NEW p \in ProviderProfile, NEW h \in Hash, ReplaceBinary(p, h)
      PROVE  UNCHANGED <<call, running>>
  BY <1>2 DEF ReplaceBinary, supervisor
<1>3. UNCHANGED supervisorVars => UNCHANGED <<call, running>>
  BY DEF supervisorVars, supervisor
<1>4. ~PollBegin /\ ~ShutdownBegin /\ ~ClockTicks
  BY <1>1 DEF PollBegin, ShutdownBegin, ClockTicks
<1>5. /\ ~PollAlive /\ ~PollExited /\ ~PollEnd /\ ~ReportAgain /\ ~ReportShutdown
      /\ ~Reply /\ ~WalkBegin
  BY <1>1 DEF PollAlive, PollExited, PollEnd, ReportAgain, ReportShutdown, Reply, WalkBegin
<1>6. \A p \in ProviderProfile : ~ReportBegin(p) /\ \A mode \in Mode : ~Start(p, mode)
  BY <1>1 DEF ReportBegin, Start
<1> QED BY <1>2, <1>3, <1>4, <1>5, <1>6 DEF SupervisorNext, Serve, ProcessStep

LEMMA ShutdownKeepsEnded ==
  ASSUME WorkerInv, EndedBehind, call.op = "shutdown", [SupervisorNext]_supervisorVars
  PROVE  /\ EndedBehind'
         /\ call'.op = "idle" => \A w \in DOMAIN running : running[w].status # "alive"
<1>1. running \in Seq(Worker) /\ call.i \in Nat
  BY IndexIsNat DEF WorkerInv, TypeInv, SupervisorTypeOK
<1>2. \A w \in DOMAIN running : w \in Nat /\ (w < call.i + 1 => w < call.i \/ w = call.i)
  BY <1>1
<1>3. CASE ShutdownNext
  <2>1. /\ running' = running /\ running[call.i].status # "alive"
        /\ call'.op = "shutdown" /\ call'.i = call.i + 1
    <3>1. running' = running /\ running[call.i].status # "alive"
      BY <1>3 DEF ShutdownNext, supervisor
    <3>2. call' = [call EXCEPT !.i = call.i + 1] /\ call \in Calls /\ call.i + 1 \in Nat
      BY <1>1, <1>3 DEF ShutdownNext, WorkerInv, TypeInv, SupervisorTypeOK
    <3>3. call'.op = "shutdown" /\ call'.i = call.i + 1
      BY <3>2, CallShapes
    <3> QED BY <3>1, <3>3
  <2> QED BY <1>2, <2>1 DEF EndedBehind
<1>4. CASE ShutdownKill
  <2>1. call'.op = "shutdown" /\ call'.i = call.i + 1
    <3>1. call' = [call EXCEPT !.i = call.i + 1] /\ call \in Calls /\ call.i + 1 \in Nat
      BY <1>1, <1>4 DEF ShutdownKill, WorkerInv, TypeInv, SupervisorTypeOK
    <3> QED BY <3>1, CallShapes
  <2>2. /\ call.i \in DOMAIN running /\ running[call.i] \in Worker
        /\ running' = [running EXCEPT ![call.i].status = "exited"]
    BY <1>1, <1>4 DEF ShutdownKill
  <2>3. running'[call.i].status = "exited" /\ DOMAIN running' = DOMAIN running
    BY <1>1, <2>2 DEF Worker
  <2>4. \A w \in DOMAIN running : w # call.i => running'[w] = running[w]
    BY <1>1, <2>2
  <2> QED BY <1>2, <2>1, <2>3, <2>4 DEF EndedBehind
<1>5. CASE Drain
  <2>1. call'.op = "idle" /\ call.i \notin 1..Len(running)
    BY <1>1, <1>5 DEF Drain, Idle
  <2>2. call.i >= 1
    BY DEF WorkerInv, TypeInv
  <2>3. \A w \in DOMAIN running : w < call.i
    BY <1>1, <2>1, <2>2
  <2> QED BY <2>1, <2>3 DEF EndedBehind
<1>6. ASSUME NEW w \in DOMAIN running,
             ProcessStep(w)
      PROVE  EndedBehind' /\ call'.op # "idle"
  BY <1>6, ExitsStay DEF EndedBehind
<1>7. CASE UNCHANGED <<call, running>>
  BY <1>7 DEF EndedBehind
<1> QED BY <1>3, <1>4, <1>5, <1>6, <1>7, ShutdownSteps

LEMMA ReplyIsAnswer ==
  ASSUME WorkerInv, Reply
  PROVE  call'.op = "answer"
<1>1. PICK w \in DOMAIN call.owed : call' = [call EXCEPT !.owed[w] = @ - 1]
  BY DEF Reply
<1>2. call \in Calls /\ call.op = "answer"
  BY DEF Reply, WorkerInv, TypeInv, SupervisorTypeOK
<1>3. CASE call \in [op : {"answer"}, owed : Seq(Nat)]
  BY <1>1, <1>3
<1>4. CASE call \in [op : {"answer"}, owed : Seq(Nat), for : ProviderProfile, tries : Nat]
  BY <1>1, <1>4
<1> QED BY <1>2, <1>3, <1>4 DEF Calls

(* A shutdown begins at the first worker, with nothing behind it. *)
LEMMA ShutdownStarts ==
  ASSUME WorkerInv, call.op # "shutdown", [SupervisorNext]_supervisorVars
  PROVE  EndedBehind'
<1>1. ASSUME NEW p \in ProviderProfile, NEW mode \in Mode, Start(p, mode)
      PROVE  call' = call
  BY <1>1 DEF Start
<1>2. ASSUME NEW p \in ProviderProfile, ReportBegin(p)
      PROVE  call'.op = "answer"
  BY <1>2 DEF ReportBegin
<1>3. ASSUME NEW p \in ProviderProfile, NEW h \in Hash, ReplaceBinary(p, h)
      PROVE  call' = call
  BY <1>3 DEF ReplaceBinary
<1>4. PollBegin => call'.op = "answer"
  BY DEF PollBegin
<1>5. ClockTicks \/ PollExited => call' = call
  BY DEF ClockTicks, PollExited
<1>6. PollAlive => call'.op = "poll"
  <2>1. call \in Calls
    BY DEF WorkerInv, TypeInv, SupervisorTypeOK
  <2>2. call.op = "poll" => call.i + 1 \in Nat /\ [call EXCEPT !.i = call.i + 1].op = "poll"
    BY <2>1, CallShapes
  <2> QED BY <2>2 DEF PollAlive
<1>7. PollEnd => call'.op = "idle"
  BY DEF PollEnd, Idle
<1>8. /\ ReportAgain => call'.op = "answer"
      /\ WalkBegin => call'.op = "poll"
      /\ Reply => call'.op = "answer"
  BY ReplyIsAnswer DEF ReportAgain, WalkBegin
<1>9. ShutdownBegin \/ ReportShutdown => call'.i = 1 /\ running' = CloseAll
  BY DEF ShutdownBegin, ReportShutdown
<1>10. DOMAIN CloseAll \subseteq Nat
  <2>1. running \in Seq(Worker)
    BY DEF WorkerInv, TypeInv, SupervisorTypeOK
  <2> QED BY <2>1 DEF CloseAll
<1>11. ~ShutdownNext /\ ~ShutdownKill /\ ~Drain
  BY DEF ShutdownNext, ShutdownKill, Drain
<1>12. ASSUME NEW w \in DOMAIN running,
              ProcessStep(w)
       PROVE  call' = call
  BY <1>12, ExitsStay
<1>13. UNCHANGED supervisorVars => call' = call
  BY DEF supervisorVars
<1>14. \/ call' = call \/ call'.op \in {"answer", "poll", "idle"}
       \/ call'.i = 1 /\ running' = CloseAll
  BY <1>1, <1>2, <1>3, <1>4, <1>5, <1>6, <1>7, <1>8, <1>9, <1>11, <1>12, <1>13
     DEF SupervisorNext, Serve, ProcessStep
<1>15. \A n \in Nat : n < 1 => n = 0
  OBVIOUS
<1>16. 0 \notin DOMAIN CloseAll
  <2>1. running \in Seq(Worker)
    BY DEF WorkerInv, TypeInv, SupervisorTypeOK
  <2> QED BY <2>1 DEF CloseAll
<1> QED BY <1>10, <1>14, <1>15, <1>16 DEF EndedBehind

LEMMA EndedBehindNext ==
  WorkerInv /\ EndedBehind /\ [SupervisorNext]_supervisorVars =>
    /\ EndedBehind'
    /\ call.op = "shutdown" /\ call'.op = "idle" =>
         \A w \in DOMAIN running : running[w].status # "alive"
BY ShutdownKeepsEnded, ShutdownStarts

(* When shutdown drops its workers, each of them has exited or been killed:   *)
(* no process outlives the supervisor's list, whenever the processes end by   *)
(* themselves.                                                                *)
THEOREM DrainTheorem == SupervisorSpec => DrainedAreDead
<1>1. SupervisorSpec => [](WorkerInv /\ EndedBehind)
  BY WorkerInvInit, WorkerInvNext, EndedBehindInit, EndedBehindNext, PTL DEF SupervisorSpec
<1>2. WorkerInv /\ EndedBehind /\ [SupervisorNext]_supervisorVars =>
        [call.op = "shutdown" /\ call'.op = "idle" =>
           \A w \in DOMAIN running : running[w].status # "alive"]_supervisorVars
  BY EndedBehindNext
<1> QED BY <1>1, <1>2, PTL DEF SupervisorSpec, DrainedAreDead
=============================================================================
