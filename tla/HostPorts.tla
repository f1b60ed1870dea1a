------------------------------ MODULE HostPorts ------------------------------
(* The host side of a transfer: the standalone host that admits offers        *)
(* (standalone-host/src/lib.rs), the in-memory authority that issues grants   *)
(* and keeps the write sinks (host.rs), and the check of a grant (grant.rs).  *)
(*                                                                            *)
(* The caller of every operation holds a *copy* of its grant, taken when the  *)
(* grant was issued; the ledger keeps the one whose consumption is counted.   *)
(* A grant is its number in the ledger.  Names, purposes and the text of the  *)
(* history are left out; `aborted' is never set by the code.                  *)
EXTENDS Naturals, Sequences, FiniteSets, SequencesExt, Functions

CONSTANTS Profile, EnabledProfile, Attempt, Entry,
          ProviderSubject,   \* provider_subject: profile -> subject
          Size,              \* declared sizes, totals and lengths of appends
          GrantTtl,
          MaxTime, MaxGrants, MaxSinks, MaxSinkBytes   \* bounds

ASSUME HostAssumption ==
  /\ EnabledProfile \subseteq Profile
  /\ DOMAIN ProviderSubject = Profile
  /\ Size \subseteq Nat
  /\ IsFiniteSet(Entry)
  /\ {GrantTtl, MaxTime, MaxGrants, MaxSinks, MaxSinkBytes} \subseteq Nat

VARIABLES now,      \* the injected clock
          ledger,   \* the grants issued
          sinks,    \* the write sinks opened
          reads     \* ghost: grants that a content_read was allowed under

vars == <<now, ledger, sinks, reads>>

-----------------------------------------------------------------------------
Direction == {"Read", "Write"}
ScopeKind == {"Entry", "MediaSession", "Listener", "Vault"}
Issuable == {"Entry"}

Session == Attempt
Subject == Range(ProviderSubject)
Scope == [kind : {"Entry"}, entry : Entry] \cup [kind : ScopeKind \ {"Entry"}]

Grant == [subject : Subject, session : Session, scope : Scope,
          direction : Direction, byte_budget : Size,
          expires_at : Nat, consumed_bytes : Nat]

SinkState == [grant : 1..MaxGrants, bytes : Nat, committed : BOOLEAN]

GrantId == DOMAIN ledger

(* What the holder of a grant has: the grant as it was issued. *)
Copy(id) == [ledger[id] EXCEPT !.consumed_bytes = 0]

Authorize(grant, req) ==
  /\ req.subject = grant.subject
  /\ req.session = grant.session
  /\ req.scope = grant.scope
  /\ req.direction = grant.direction
  /\ now =< grant.expires_at
  /\ grant.consumed_bytes + req.bytes =< grant.byte_budget

(* The sink operations ask for what the grant itself says. *)
OwnRequest(grant, bytes) ==
  [subject |-> grant.subject, session |-> grant.session, scope |-> grant.scope,
   direction |-> grant.direction, bytes |-> bytes]

-----------------------------------------------------------------------------
Init ==
  /\ now = 0
  /\ ledger = <<>>
  /\ sinks = <<>>
  /\ reads = {}

EntryGrant(subject, session, entry, direction, budget) ==
  [subject |-> subject, session |-> session,
   scope |-> [kind |-> "Entry", entry |-> entry], direction |-> direction,
   byte_budget |-> budget, expires_at |-> now + GrantTtl, consumed_bytes |-> 0]

(* An offer of an enabled profile that asks for nothing but entries is        *)
(* granted as a whole: one write grant per entry, each with the offer's total *)
(* (when declared) or its own size as budget.                                 *)
Admit(profile, attempt, order, budget, scopes) ==
  /\ profile \in EnabledProfile
  /\ scopes \subseteq Issuable
  /\ Len(ledger \o order) =< MaxGrants
  /\ ledger' = ledger \o
       [i \in DOMAIN order |->
          EntryGrant(ProviderSubject[profile], attempt, order[i], "Write", budget[order[i]])]
  /\ UNCHANGED <<now, sinks, reads>>

(* FakeHost::issue_scoped, which also issues read grants.                     *)
IssueScoped(subject, session, scope, direction, budget) ==
  /\ scope.kind \in Issuable
  /\ Len(ledger) < MaxGrants
  /\ ledger' = Append(ledger,
       EntryGrant(subject, session, scope.entry, direction, budget))
  /\ UNCHANGED <<now, sinks, reads>>

(* The sink is opened for the grant; the entry passed along is not looked at. *)
OpenSink(id, subject) ==
  /\ Authorize(Copy(id), [OwnRequest(Copy(id), 0) EXCEPT !.subject = subject])
  /\ Len(sinks) < MaxSinks
  /\ sinks' = Append(sinks, [grant |-> id, bytes |-> 0, committed |-> FALSE])
  /\ UNCHANGED <<now, ledger, reads>>

(* Mutant: the bytes are written and not counted. *)
SinkAppendUncounted(id, handle, bytes) ==
  /\ Authorize(Copy(id), OwnRequest(Copy(id), bytes))
  /\ sinks[handle].bytes + bytes =< MaxSinkBytes
  /\ sinks' = [sinks EXCEPT ![handle].bytes = @ + bytes]
  /\ UNCHANGED <<now, ledger, reads>>

(* The bytes go to the sink of the handle, whatever grant opened it, and are  *)
(* counted in the ledger entry of the grant; the check reads the copy.        *)
SinkAppend(id, handle, bytes) ==
  /\ Authorize(Copy(id), OwnRequest(Copy(id), bytes))
  /\ sinks[handle].bytes + bytes =< MaxSinkBytes
  /\ sinks' = [sinks EXCEPT ![handle].bytes = @ + bytes]
  /\ ledger' = [ledger EXCEPT ![id].consumed_bytes = @ + bytes]
  /\ UNCHANGED <<now, reads>>

(* All sinks of the grant become final files together.                        *)
SinkCommit(id) ==
  /\ Authorize(Copy(id), OwnRequest(Copy(id), 0))
  /\ sinks' = [h \in DOMAIN sinks |->
                 IF sinks[h].grant = id
                 THEN [sinks[h] EXCEPT !.committed = TRUE]
                 ELSE sinks[h]]
  /\ UNCHANGED <<now, ledger, reads>>

(* The first grant of the subject in the session is the one that is checked,  *)
(* against the scope and the direction that the request names.                *)
ContentRead(subject, session, scope, direction, bytes) ==
  LET held == {id \in GrantId : /\ ledger[id].subject = subject
                                /\ ledger[id].session = session}
      first == CHOOSE id \in held : \A other \in held : id =< other
  IN  /\ held # {}
      /\ Authorize(ledger[first],
           [subject |-> subject, session |-> session, scope |-> scope,
            direction |-> direction, bytes |-> bytes])
      /\ reads' = reads \cup {first}
      /\ UNCHANGED <<now, ledger, sinks>>

Tick ==
  /\ now < MaxTime
  /\ now' = now + 1
  /\ UNCHANGED <<ledger, sinks, reads>>

Next ==
  \/ \E profile \in Profile, attempt \in Attempt,
        entries \in SUBSET Entry, scopes \in SUBSET ScopeKind :
       \E order \in SetToSeqs(entries), budget \in [entries -> Size] :
         Admit(profile, attempt, order, budget, scopes)
  \/ \E subject \in Subject, session \in Session, scope \in Scope,
        direction \in Direction, bytes \in Size :
       \/ IssueScoped(subject, session, scope, direction, bytes)
       \/ ContentRead(subject, session, scope, direction, bytes)
  \/ \E id \in GrantId : \/ \E subject \in Subject : OpenSink(id, subject)
                         \/ SinkCommit(id)
  \/ \E id \in GrantId, handle \in DOMAIN sinks, bytes \in Size :
       SinkAppend(id, handle, bytes)
  \/ Tick

Spec == Init /\ [][Next]_vars

-----------------------------------------------------------------------------
SumOf(f) == FoldFunction(LAMBDA x, sum : x + sum, 0, f)

TypeOK ==
  /\ now \in 0..MaxTime
  /\ ledger \in Seq(Grant)
  /\ sinks \in Seq(SinkState)
  /\ reads \subseteq GrantId

(* Every byte that reached a sink was counted in some grant and no other was, *)
(* whichever grants and handles the appends combine.                          *)
BytesAreCounted ==
  /\ TypeOK
  /\ SumOf([h \in DOMAIN sinks |-> sinks[h].bytes])
       = SumOf([id \in GrantId |-> ledger[id].consumed_bytes])

(* A file becomes final in the lifetime of the grant it was opened under.     *)
CommittedInTime ==
  [][\A h \in DOMAIN sinks :
       sinks'[h].committed /\ ~sinks[h].committed =>
         now =< ledger[sinks[h].grant].expires_at]_vars

-----------------------------------------------------------------------------
(* What comments and documents say and the code does not do: README section 7 *)
(* tells why each of these does not hold.                                     *)

(* grant.rs and host.rs: the byte budget of a grant is cumulative, and what   *)
(* goes over it produces no final file.                                       *)
CommittedWithinBudget ==
  \A id \in GrantId :
    (\E h \in DOMAIN sinks : sinks[h].grant = id /\ sinks[h].committed) =>
      ledger[id].consumed_bytes =< ledger[id].byte_budget

(* grant.rs: a receive grant cannot read ...                                  *)
ReceiveGrantCannotRead == \A id \in reads : ledger[id].direction = "Read"

(* ... and a send grant cannot write.                                         *)
SendGrantCannotWrite ==
  \A id \in GrantId : ledger[id].direction = "Read" => ledger[id].consumed_bytes = 0
=============================================================================
