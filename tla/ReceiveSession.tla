---------------------------- MODULE ReceiveSession ----------------------------
(* A Quick Share receive session on its spool (proto-quickshare, receive.rs   *)
(* and the assembler of payload.rs): introductions with the user's decision,  *)
(* data frames from the peer, publication of complete entries, cancellation.  *)
(* A name is "good", refused by the storage rules ("bad"), or passes them and *)
(* fails the validation of an offer entry ("del", a 0x7f byte).               *)
EXTENDS Spool

CONSTANTS Payload,     \* payload ids
          Size,        \* declared sizes
          Shape,       \* kinds of names the peer offers
          SizeLimit,   \* 2^64, where the sum of declared sizes wraps
          Budget,
          MaxOffers, MaxEntries, MaxPublished, MaxLeftover, MaxTemp   \* bounds

ASSUME ReceiveAssumption ==
  /\ Shape \subseteq {"good", "bad", "del"}
  /\ Size \subseteq 0..(SizeLimit - 1)
  /\ {SizeLimit, Budget, MaxOffers, MaxEntries, MaxPublished, MaxLeftover, MaxTemp} \subseteq Nat

VARIABLES pending,   \* entries in transfer
          seq        \* next_entry_seq

receiveVars == <<spool, pending, seq>>

-----------------------------------------------------------------------------
Offer == [payload : Payload, size : Size, path : Path, shape : Shape]

(* `entry' is the spool entry of the write handle.                            *)
Pending == [entry : Nat, payload : Payload, size : Size, path : Path,
            written : Nat, complete : {"yes", "no"}]

ReceiveInit ==
  /\ InitSpool
  /\ pending = <<>>
  /\ seq = 1

(* Without overflow checks, as in a release build. *)
Total(offers) == FoldSeq(LAMBDA o, sum : (o.size + sum) % SizeLimit, 0, offers)

WellFormed(offers) ==
  /\ \A i \in DOMAIN offers : offers[i].shape # "bad"
  /\ \A i, j \in DOMAIN offers : i # j => offers[i].payload # offers[j].payload

Acceptable(offers) ==
  /\ WellFormed(offers)
  /\ Total(offers) =< Budget

(* The entries are made one after the other; the first that fails validation  *)
(* or finds its temporary file on the disk ends the call with an error, and   *)
(* those before it stay.                                                      *)
Introduction(offers) ==
  /\ Acceptable(offers)
  /\ seq + Len(offers) =< MaxEntries + 1
  /\ LET valid == {k \in 0..Len(offers) : \A i \in 1..k : offers[i].shape = "good"}
         n == CHOOSE k \in valid : \A other \in valid : other =< k
         made == Len(entries') - Len(entries)
     IN  /\ Begins([i \in 1..n |->
              [id |-> ToString(<<seq + i - 1, i>>),
               limit |-> IF Budget < offers[i].size THEN Budget ELSE offers[i].size]])
         /\ pending' = pending \o [i \in 1..made |->
              [entry |-> Len(entries) + i, payload |-> offers[i].payload,
               size |-> offers[i].size, path |-> offers[i].path,
               written |-> 0, complete |-> "no"]]
         /\ seq' = seq + IF made < Len(offers) THEN made + 1 ELSE made

-----------------------------------------------------------------------------
(* The n pieces of a payload from an offset on. *)
Pieces(payload, offset, n) == [i \in 1..n |-> <<payload, offset + i>>]

(* Mutant: any entry in transfer takes the frame. *)
TargetAny(payload) == CHOOSE k \in DOMAIN pending : TRUE

(* The first entry bound to the payload id, a complete one too. *)
Target(payload) ==
  CHOOSE k \in DOMAIN pending :
    /\ pending[k].payload = payload
    /\ \A j \in 1..(k - 1) : pending[j].payload # payload

(* Mutant: the last chunk may come before the declared size is reached. *)
FrameFitsEarly(p, total, offset, n, last) ==
  /\ p.complete = "no"
  /\ total = p.size /\ offset = p.written
  /\ offset + n =< p.size
  /\ offset + n = p.size => last

FrameFits(p, total, offset, n, last) ==
  /\ p.complete = "no"
  /\ total = p.size /\ offset = p.written
  /\ offset + n =< p.size
  /\ last <=> offset + n = p.size

(* Mutant: the assembler counts the chunk before it is written. *)
DataFrameAdvancing(payload, total, offset, n, last) ==
  /\ \E k \in DOMAIN pending : pending[k].payload = payload
  /\ LET k == Target(payload)
         p == pending[k]
         bytes == Pieces(payload, offset, n)
     IN  /\ FrameFits(p, total, offset, n, last)
         /\ \/ WriteOk(p.entry, offset, bytes)
            \/ WriteFails(p.entry, offset, bytes)
            \/ WriteOver(p.entry, offset, bytes)
         /\ pending' = [pending EXCEPT ![k].written = offset + n,
                                       ![k].complete = IF last THEN "yes" ELSE "no"]
  /\ UNCHANGED seq

(* Bound: how long a temporary file grows, failed writes included. *)
Room(e, n) == Len(temps[Temp(e)]) + n =< MaxTemp

(* A frame that does not fit changes nothing; one that fits and cannot be     *)
(* written leaves the assembler where it was, with its entry in the spool or, *)
(* beyond the entry's limit, without: no later frame can be written then.     *)
DataFrame(payload, total, offset, n, last) ==
  /\ \E k \in DOMAIN pending : pending[k].payload = payload
  /\ LET k == Target(payload)
         p == pending[k]
         bytes == Pieces(payload, offset, n)
     IN  /\ FrameFits(p, total, offset, n, last)
         /\ \/ /\ WriteOk(p.entry, offset, bytes)
               /\ Room(p.entry, n)
               /\ pending' = [pending EXCEPT ![k].written = offset + n,
                                             ![k].complete = IF last THEN "yes" ELSE "no"]
            \/ /\ WriteFails(p.entry, offset, bytes)
               /\ Room(p.entry, n)
               /\ UNCHANGED pending
            \/ /\ WriteOver(p.entry, offset, bytes)
               /\ UNCHANGED pending
  /\ UNCHANGED seq

(* The entry is forgotten before the commit, whether that succeeds or not.    *)
FinishEntry(k) ==
  /\ pending[k].complete = "yes"
  /\ Len(published) < MaxPublished
  /\ pending' = RemoveAt(pending, k)
  /\ CommitOk(pending[k].entry, pending[k].path) \/ CommitRefused(pending[k].entry, pending[k].path)
  /\ UNCHANGED seq

Incomplete == {pending[k].entry : k \in {j \in DOMAIN pending : pending[j].complete = "no"}}

(* A control frame: incomplete entries are aborted, complete ones forgotten.  *)
CancelAll ==
  /\ pending # <<>>
  /\ AbortAll(Incomplete)
  /\ pending' = <<>>
  /\ UNCHANGED seq

(* The session ends, with its process or not; the next opens the same root.   *)
NextSession ==
  /\ Cardinality(DOMAIN temps) =< MaxLeftover
  /\ Reopen
  /\ pending' = <<>> /\ seq' = 1

ReceiveNext ==
  \/ \E offers \in SeqOf(Offer, MaxOffers) \ {<<>>} :
       Introduction(offers)
  \/ \E payload \in Payload, total \in Size, offset, n \in 0..Budget, last \in BOOLEAN :
       DataFrame(payload, total, offset, n, last)
  \/ \E k \in DOMAIN pending : FinishEntry(k)
  \/ CancelAll
  \/ NextSession
  \/ \E f \in Folder : ReplaceFolder(f) /\ UNCHANGED <<pending, seq>>

ReceiveSpec == ReceiveInit /\ [][ReceiveNext]_receiveVars

-----------------------------------------------------------------------------
(* Every entry in transfer has a spool entry of its own, and that one its     *)
(* temporary file for as long as it is open.                                  *)
ReceiveTypeOK ==
  /\ \A k \in DOMAIN pending :
       /\ pending[k] \in Pending
       /\ pending[k].entry \in DOMAIN entries
       /\ entries[pending[k].entry].state = "open" => Temp(pending[k].entry) \in DOMAIN temps
       /\ \A j \in DOMAIN pending : j # k => pending[j].entry # pending[k].entry
  /\ seq \in Nat /\ nextHandle \in Nat

(* receive.rs T21-01: the pieces of a payload land only in an entry bound to  *)
(* it, whatever else is in transfer and in whatever order frames arrive: what *)
(* is hashed is its pieces from the first on, and the temporary file, while   *)
(* there is one, holds pieces of that payload alone, none of a leftover.      *)
BoundToItsPayload ==
  /\ ReceiveTypeOK
  /\ \A k \in DOMAIN pending :
       LET p == pending[k]
       IN  /\ \A i \in DOMAIN entries[p.entry].hashed :
                entries[p.entry].hashed[i] = <<p.payload, i>>
           /\ entries[p.entry].state = "open" => temps[Temp(p.entry)] \in Seq({p.payload} \X Nat)

(* The assembler's count and the spool's count of an entry agree after every  *)
(* failure, so that a retry can go on where it was; what is complete can      *)
(* still be committed, and only an entry that its limit keeps from ever being *)
(* whole has lost its temporary file before.                                  *)
CountsAgree ==
  \A k \in DOMAIN pending :
    LET p == pending[k]
    IN  /\ p.written = Written(p.entry)
        /\ p.complete = "yes" => p.written = p.size /\ entries[p.entry].state = "open"
        /\ entries[p.entry].state # "open" => p.complete = "no" /\ entries[p.entry].limit < p.size

(* Whatever failed and was tried again on the way, a receipt is issued only   *)
(* for a whole payload of its declared size, from its first piece to its      *)
(* last, each once, under the path that was approved for it.                  *)
ReceiptsAreWhole ==
  [][Len(published') > Len(published) =>
       \E k \in DOMAIN pending :
         Last(published') = [path |-> pending[k].path,
           content |-> Pieces(pending[k].payload, 0, pending[k].size)]]_receiveVars

(* Nothing is published through a link that took the place of a folder after  *)
(* the entry was approved.                                                    *)
NothingThroughLinks ==
  [][\A p \in DOMAIN files' \ DOMAIN files :
       p.folder # NoFolder => folders[p.folder] # "symlink"]_receiveVars

-----------------------------------------------------------------------------
(* What comments and documents say and the code does not do: README section 7 *)
(* tells why each of these does not hold.                                     *)

(* spool.rs: the hash of what is published is checked: the file that appears  *)
(* is what its receipt says.                                                  *)
FilesMatchReceipts ==
  [][Len(published') > Len(published) =>
       files'[Last(published').path] = Last(published').content]_receiveVars

(* receive.rs: an introduction that declares more than the budget is answered *)
(* with NOT_ENOUGH_SPACE: the sum wraps.                                       *)
OfferWithinBudget ==
  [][FoldSeq(LAMBDA p, sum : p.size + sum, 0, pending')
       =< FoldSeq(LAMBDA p, sum : p.size + sum, 0, pending) + Budget]_receiveVars

(* receive.rs: the budget bounds the bytes of the whole session.              *)
SessionWithinBudget ==
  FoldSeq(LAMBDA e, sum : Len(e.hashed) + sum, 0, entries) =< Budget

(* receive.rs: no two entries of a session share a payload id.                *)
PayloadIdsAreUnique ==
  \A j, k \in DOMAIN pending : j # k => pending[j].payload # pending[k].payload

(* receive.rs: a cancelled or failed transfer leaves no temporary file.       *)
CancelLeavesNothing ==
  [][Incomplete # {} /\ pending' = <<>> /\ seq' = seq /\ entries' # <<>> =>
       \A k \in DOMAIN pending : Temp(pending[k].entry) \notin DOMAIN temps']_receiveVars
=============================================================================
