-------------------------------- MODULE Spool --------------------------------
(* The spool that received files go through (interop-file, spool.rs): an      *)
(* exclusive temporary file per entry, sequential writes under a limit, and   *)
(* a commit that checks the hash and the folder and renames.  The disk        *)
(* outlives the store, which can be opened again on the same root; somebody   *)
(* else may replace a folder by a link between two calls.                     *)
(*                                                                            *)
(* A file is a sequence of pieces, and the hash of what was written is that   *)
(* sequence itself.  Paths have at most one folder.  Any write, sync, rename  *)
(* may fail.                                                                  *)
EXTENDS Naturals, Sequences, FiniteSets, SequencesExt, Functions, TLC

CONSTANTS Folder, Name,
          Place   \* where received files go: folders, or the root

VARIABLES entries,    \* of the open store
          nextHandle,
          published,  \* receipts of the open store
          temps,      \* disk: temporary files, by handle and entry id
          files,      \* disk: final files
          folders     \* disk: what is at the place of a folder

store == <<entries, nextHandle, published>>
disk == <<temps, files, folders>>
spool == <<store, disk>>

-----------------------------------------------------------------------------
NoFolder == "root"
Path == [folder : Place, name : Name]
Without(f, keys) == Restrict(f, (DOMAIN f) \ keys)
Written(e) == Len(entries[e].hashed)
Temp(e) == entries[e].temp

InitSpool ==
  /\ entries = <<>>
  /\ nextHandle = 1
  /\ published = <<>>
  /\ temps = <<>>
  /\ files = <<>>
  /\ folders = [f \in Folder |-> "absent"]

(* Temporary files for the requests, in order, up to the first whose name is  *)
(* on the disk already: its handle is used up.                                *)
Begins(requests) ==
  LET name(i) == <<nextHandle + i - 1, requests[i].id>>
      n == CHOOSE k \in 0..Len(requests) :
             /\ \A i \in 1..k : name(i) \notin DOMAIN temps
             /\ k < Len(requests) => name(k + 1) \in DOMAIN temps
  IN  /\ entries' = entries \o [i \in 1..n |->
            [temp |-> name(i), limit |-> requests[i].limit, hashed |-> <<>>, state |-> "open"]]
      /\ temps' = [t \in DOMAIN temps \cup {name(i) : i \in 1..n} |->
                     IF t \in DOMAIN temps THEN temps[t] ELSE <<>>]
      /\ nextHandle' = nextHandle + (IF n < Len(requests) THEN n + 1 ELSE n)
      /\ UNCHANGED <<published, files, folders>>

CanWrite(e, offset, bytes) ==
  /\ entries[e].state = "open"
  /\ offset = Written(e)
  /\ Written(e) + Len(bytes) =< entries[e].limit

AbortAll(aborted) ==
  /\ entries' = [e \in DOMAIN entries |->
                   IF e \in aborted THEN [entries[e] EXCEPT !.state = "terminated"]
                                    ELSE entries[e]]
  /\ temps' = Without(temps, {Temp(e) : e \in aborted})
  /\ UNCHANGED <<nextHandle, published, files, folders>>

(* A write beyond the limit ends the entry and removes its temporary file;    *)
(* its handle stays with the caller.                                          *)
WriteOver(e, offset, bytes) ==
  /\ entries[e].state = "open"
  /\ offset = Written(e)
  /\ Written(e) + Len(bytes) > entries[e].limit
  /\ AbortAll({e})

WriteOk(e, offset, bytes) ==
  /\ CanWrite(e, offset, bytes)
  /\ temps' = [temps EXCEPT ![Temp(e)] = @ \o bytes]
  /\ entries' = [entries EXCEPT ![e].hashed = @ \o bytes]
  /\ UNCHANGED <<nextHandle, published, files, folders>>

(* The write or the sync fails after some or all of the bytes have reached    *)
(* the file; nothing is hashed, and the caller may retry.                     *)
WriteFails(e, offset, bytes) ==
  /\ CanWrite(e, offset, bytes)
  /\ \E n \in 0..Len(bytes) :
       temps' = [temps EXCEPT ![Temp(e)] = @ \o SubSeq(bytes, 1, n)]
  /\ UNCHANGED <<store, files, folders>>

-----------------------------------------------------------------------------
FolderReady(path) == path.folder # NoFolder => folders[path.folder] = "absent"
MakeFolder(path) ==
  folders' = IF path.folder = NoFolder THEN folders
             ELSE [folders EXCEPT ![path.folder] = "dir"]

Publish(e, path) ==
  /\ files' = [p \in DOMAIN files \cup {path} |->
                 IF p = path THEN temps[Temp(e)] ELSE files[p]]
  /\ published' = Append(published, [path |-> path, content |-> entries[e].hashed])
  /\ entries' = [entries EXCEPT ![e].state = "terminated"]
  /\ temps' = Without(temps, {Temp(e)})

(* The folder must be absent: creating it refuses one that exists.            *)
CommitOk(e, path) ==
  /\ entries[e].state = "open"
  /\ FolderReady(path)
  /\ MakeFolder(path)
  /\ Publish(e, path)
  /\ UNCHANGED nextHandle

(* Refused, or failed in the rename: the entry stays open, the temporary file *)
(* and the new folder stay on the disk.                                       *)
CommitRefused(e, path) ==
  /\ entries[e].state = "open"
  /\ \/ ~FolderReady(path)
        /\ UNCHANGED folders
     \/ FolderReady(path)
        /\ MakeFolder(path)
  /\ UNCHANGED <<store, temps, files>>

(* The process ends, in order or not, and a store is opened on the same root. *)
Reopen ==
  /\ entries' = <<>> /\ nextHandle' = 1 /\ published' = <<>>
  /\ UNCHANGED disk

(* Somebody else removes a folder or puts a link in its place.                *)
ReplaceFolder(f) ==
  /\ \E kind \in {"absent", "symlink"} : folders' = [folders EXCEPT ![f] = kind]
  /\ files' = Without(files, {p \in DOMAIN files : p.folder = f})
  /\ UNCHANGED <<store, temps>>
=============================================================================
