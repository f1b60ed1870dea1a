-------------------------- MODULE WorkerSupervisor --------------------------
(* The supervisor of the provider processes (interop-runtime, workers.rs) and *)
(* the processes themselves, which exit, crash, ask for a shell, read replies *)
(* and open listeners at any moment.  The supervisor's calls take turns (&mut *)
(* self), but poll and shutdown go from one worker to the next while the      *)
(* processes run on: each reply and each look is a step.  The clock is the    *)
(* caller's now_ms; it does not advance during a call.  Texts and pids are    *)
(* left out, and so is a listener path other than the one of its profile.     *)
EXTENDS Naturals, Sequences, FiniteSets, SequencesExt, Functions

CONSTANTS ProviderProfile, \* manifests of provider processes
          Hash, NoHash,
          Expected,      \* sha256 of a profile, NoHash in a dev profile
          Sandbox,       \* profiles that run in the platform sandbox
          Mode,          \* modes that workers are started in by the caller
          Probed,        \* profiles that isolation_report is called for
          Launch,        \* outcomes of spawning and bootstrapping: "ok", "failed"
          MaxRestarts, Window,
          Tries,         \* polls of isolation_report
          PipeSize,      \* replies that fit into a worker's stdin
          MaxWorkers, MaxClock,  \* bounds
          MaxRequests            \* bound: shells that one process asks for

ASSUME SupervisorAssumption ==
  /\ NoHash \notin Hash
  /\ Expected \in [ProviderProfile -> Hash \cup {NoHash}]
  /\ Sandbox \cup Probed \subseteq ProviderProfile
  /\ Mode \subseteq {"serve", "read_canary", "request_shell"}
  /\ Launch \subseteq {"ok", "failed"}
  /\ {MaxRestarts, Window, Tries, PipeSize, MaxWorkers, MaxClock, MaxRequests} \subseteq Nat

VARIABLES clock,      \* the caller's now_ms
          binary,     \* what the file of a profile holds
          listener,   \* profiles whose listener file exists
          pinned, running, crashes, stopped, lastMode, shuttingDown,
          call,       \* the call that is executing, and how far it is
          report,     \* the last isolation report
          orphans,    \* listener files that shutdowns have reported
          restarts    \* ghost: automatic restarts by profile and time

supervisor == <<pinned, running, crashes, stopped, lastMode, shuttingDown>>
world == <<clock, binary, listener>>
result == <<report, orphans>>
supervisorVars == <<world, supervisor, call, result, restarts>>

-----------------------------------------------------------------------------
NoMode == "none"

(* "overdue": it had exited before the walk of the poll began. *)
Status == {"alive", "exited", "overdue"}
(* What a canary worker wrote: it could read, the sandbox refused it, or      *)
(* another error (a missing file) did.                                        *)
Canary == {"silent", "readable", "denied", "missing"}

(* `requests' are the exec requests among the lines that are buffered, where  *)
(* they stay; `unread' the replies that wait in the worker's stdin.           *)
Worker == [profile : ProviderProfile, mode : Mode \cup {"read_canary"}, status : Status,
           stdin : {"open", "closed"}, canary : Canary, requests : Nat, unread : Nat]
NewWorker(p, mode) ==
  [profile |-> p, mode |-> mode, status |-> "alive", stdin |-> "open", canary |-> "silent",
   requests |-> 0, unread |-> 0]

Idle == [op |-> "idle"]
(* A poll first answers, and `owed' are the replies it still has to write to  *)
(* each worker; then it walks.                                                *)
Calls == [op : {"idle"}]
         \cup [op : {"answer"}, owed : Seq(Nat)]
         \cup [op : {"answer"}, owed : Seq(Nat), for : ProviderProfile, tries : Nat]
         \cup [op : {"poll"}, i : Nat]
         \cup [op : {"shutdown"}, i : Nat]
         \cup [op : {"poll"}, i : Nat, for : ProviderProfile, tries : Nat]
         \cup [op : {"shutdown"}, i : Nat, for : ProviderProfile,
               canary : Canary, sandboxed : {"yes", "no"}]
InReport == "for" \in DOMAIN call

NoReport == [level |-> "none", canary |-> "silent"]

SupervisorInit ==
  /\ clock = 0
  /\ binary \in [ProviderProfile -> Hash]
  /\ listener = {}
  /\ pinned = [p \in ProviderProfile |-> NoHash]
  /\ running = <<>>
  /\ crashes = [p \in ProviderProfile |-> <<>>]
  /\ stopped = {}
  /\ lastMode = [p \in ProviderProfile |-> NoMode]
  /\ shuttingDown = FALSE
  /\ call = Idle
  /\ report = NoReport
  /\ orphans = {}
  /\ restarts = [p \in ProviderProfile |-> [t \in 0..MaxClock |-> 0]]

-----------------------------------------------------------------------------
Verified(p) == Expected[p] \in {NoHash, binary[p]}

(* Whoever starts p, `others' being the workers that are running.  The hash   *)
(* is pinned before the process exists.                                       *)
StartAmong(others, p, mode, launch) ==
  IF p \notin stopped /\ Verified(p)
  THEN /\ pinned' = [pinned EXCEPT ![p] = binary[p]]
       /\ IF launch = "ok"
          THEN /\ running' = Append(others, NewWorker(p, mode))
               /\ lastMode' = [lastMode EXCEPT ![p] = mode]
          ELSE /\ running' = others
               /\ UNCHANGED lastMode
  ELSE /\ running' = others
       /\ UNCHANGED <<pinned, lastMode>>

Start(p, mode) ==
  /\ call = Idle
  /\ Len(running) < MaxWorkers
  /\ \E launch \in Launch : StartAmong(running, p, mode, launch)
  /\ UNCHANGED <<world, crashes, stopped, shuttingDown, call, result, restarts>>

(* Mutant: a crash exactly one window ago is forgotten. *)
RecentStrictly(p) ==
  FoldLeft(LAMBDA kept, t : IF t + Window > clock THEN Append(kept, t) ELSE kept, <<>>, crashes[p])

Recent(p) ==
  FoldLeft(LAMBDA kept, t : IF t + Window >= clock THEN Append(kept, t) ELSE kept, <<>>, crashes[p])

CountRestart(p) ==
  restarts' = IF Len(running') = Len(running) /\ restarts[p][clock] =< MaxRestarts
              THEN [restarts EXCEPT ![p][clock] = @ + 1]
              ELSE restarts

(* Mutant: crashes are not remembered. *)
MaybeRestartForever(others, p) ==
  /\ \E launch \in Launch : StartAmong(others, p, lastMode[p], launch)
  /\ CountRestart(p)
  /\ UNCHANGED <<crashes, stopped>>

(* Every exit counts as a crash, a clean one too; the restart uses the mode   *)
(* of the latest start of the profile, and its failure is ignored.            *)
MaybeRestart(others, p) ==
  LET recent == Append(Recent(p), clock)
  IN  /\ crashes' = [crashes EXCEPT ![p] = recent]
      /\ IF Len(recent) > MaxRestarts
         THEN /\ stopped' = stopped \cup {p}
              /\ running' = others
              /\ UNCHANGED <<pinned, lastMode, restarts>>
         ELSE /\ \E launch \in Launch : StartAmong(others, p, lastMode[p], launch)
              /\ CountRestart(p)
              /\ UNCHANGED stopped

-----------------------------------------------------------------------------
MarkOverdue ==
  [w \in DOMAIN running |->
     IF running[w].status = "exited" THEN [running[w] EXCEPT !.status = "overdue"]
                                     ELSE running[w]]

(* The lines are put back into the buffer, so that every poll answers every   *)
(* request again.                                                             *)
Owed(workers) == [w \in DOMAIN workers |-> workers[w].requests]

PollBegin ==
  /\ call = Idle
  /\ call' = [op |-> "answer", owed |-> Owed(running)]
  /\ UNCHANGED <<world, supervisor, result, restarts>>

(* write_all waits for room in the pipe of a process that lives; the error of *)
(* a pipe whose reader is gone is dropped.                                    *)
Reply ==
  /\ call.op = "answer"
  /\ \E w \in DOMAIN running \cap DOMAIN call.owed :
       /\ call.owed[w] > 0 /\ \A v \in 1..(w - 1) : call.owed[v] = 0
       /\ \/ /\ running[w].stdin = "open" /\ running[w].status = "alive"
             /\ running[w].unread < PipeSize
             /\ running' = [running EXCEPT ![w].unread = @ + 1]
          \/ /\ running[w].stdin = "closed" \/ running[w].status # "alive"
             /\ UNCHANGED running
       /\ call' = [call EXCEPT !.owed[w] = @ - 1]
  /\ UNCHANGED <<world, pinned, crashes, stopped, lastMode, shuttingDown, result, restarts>>

WalkBegin ==
  /\ call.op = "answer"
  /\ \A w \in DOMAIN call.owed : call.owed[w] = 0
  /\ call' = IF InReport THEN [op |-> "poll", i |-> 1, for |-> call.for, tries |-> call.tries]
                         ELSE [op |-> "poll", i |-> 1]
  /\ running' = MarkOverdue
  /\ UNCHANGED <<world, pinned, crashes, stopped, lastMode, shuttingDown, result, restarts>>

PollAlive ==
  /\ call.op = "poll"
  /\ call.i \in DOMAIN running
  /\ running[call.i].status = "alive"
  /\ call' = [call EXCEPT !.i = @ + 1]
  /\ UNCHANGED <<world, supervisor, result, restarts>>

(* Mutant: the index moves on after a removal. *)
PollExitedSkipping ==
  /\ call.op = "poll"
  /\ call.i \in DOMAIN running
  /\ running[call.i].status # "alive"
  /\ LET p == running[call.i].profile
         others == RemoveAt(running, call.i)
     IN  IF shuttingDown
         THEN /\ running' = others
              /\ UNCHANGED <<pinned, crashes, stopped, lastMode, restarts>>
         ELSE MaybeRestart(others, p)
  /\ call' = [call EXCEPT !.i = @ + 1]
  /\ UNCHANGED <<world, shuttingDown, result>>

(* The worker that exited is removed, its successor pushed at the end, where  *)
(* this same poll will come by.                                               *)
PollExited ==
  /\ call.op = "poll"
  /\ call.i \in DOMAIN running
  /\ running[call.i].status # "alive"
  /\ LET p == running[call.i].profile
         others == RemoveAt(running, call.i)
     IN  IF shuttingDown
         THEN /\ running' = others
              /\ UNCHANGED <<pinned, crashes, stopped, lastMode, restarts>>
         ELSE MaybeRestart(others, p)
  /\ UNCHANGED <<world, shuttingDown, call, result>>

PollEnd ==
  /\ call.op = "poll" /\ ~InReport
  /\ call.i \notin DOMAIN running
  /\ call' = Idle
  /\ UNCHANGED <<world, supervisor, result, restarts>>

-----------------------------------------------------------------------------
CloseAll == [w \in DOMAIN running |-> [running[w] EXCEPT !.stdin = "closed"]]

ShutdownBegin ==
  /\ call = Idle
  /\ shuttingDown' = TRUE
  /\ running' = CloseAll
  /\ call' = [op |-> "shutdown", i |-> 1]
  /\ UNCHANGED <<world, pinned, crashes, stopped, lastMode, result, restarts>>

ShutdownNext ==
  /\ call.op = "shutdown"
  /\ call.i \in DOMAIN running
  /\ running[call.i].status # "alive"
  /\ call' = [call EXCEPT !.i = @ + 1]
  /\ UNCHANGED <<world, supervisor, result, restarts>>

(* The deadline of the whole shutdown has passed; the listener file of the    *)
(* killed worker stays.                                                       *)
ShutdownKill ==
  /\ call.op = "shutdown"
  /\ call.i \in DOMAIN running
  /\ running[call.i].status = "alive"
  /\ running' = [running EXCEPT ![call.i].status = "exited"]
  /\ call' = [call EXCEPT !.i = @ + 1]
  /\ UNCHANGED <<world, pinned, crashes, stopped, lastMode, shuttingDown, result, restarts>>

(* The listener files that this shutdown reports. *)
Reported == {running[w].profile : w \in DOMAIN running} \cap listener

Level(canary, sandboxed) ==
  IF canary \in {"denied", "missing"} /\ sandboxed = "yes"
  THEN "PlatformSandbox" ELSE "ProcessOnly"

Drain ==
  /\ call.op = "shutdown"
  /\ call.i \notin DOMAIN running
  /\ running' = <<>>
  /\ call' = Idle
  /\ report' = IF InReport
               THEN [level |-> Level(call.canary, call.sandboxed), canary |-> call.canary]
               ELSE report
  /\ orphans' = orphans \cup Reported
  /\ UNCHANGED <<world, pinned, crashes, stopped, lastMode, shuttingDown, restarts>>

-----------------------------------------------------------------------------
(* isolation_report: start a canary worker, poll until a worker of the        *)
(* profile has told its outcome, shut every worker down, report.              *)
ReportBegin(p) ==
  /\ call = Idle
  /\ Len(running) < MaxWorkers /\ p \in Probed
  /\ p \notin stopped /\ Verified(p) /\ "ok" \in Launch
  /\ StartAmong(running, p, "read_canary", "ok")
  /\ call' = [op |-> "answer", owed |-> Owed(running'), for |-> p, tries |-> 1]
  /\ UNCHANGED <<world, crashes, stopped, shuttingDown, result, restarts>>

Told(p) == {w \in DOMAIN running : running[w].profile = p /\ running[w].canary # "silent"}

ReportAgain ==
  /\ call.op = "poll" /\ InReport
  /\ call.i \notin DOMAIN running
  /\ Told(call.for) = {} /\ call.tries < Tries
  /\ call' = [op |-> "answer", owed |-> Owed(running), for |-> call.for,
              tries |-> call.tries + 1]
  /\ UNCHANGED <<world, supervisor, result, restarts>>

(* The last line told counts; no line at all counts as readable.              *)
ReportShutdown ==
  /\ call.op = "poll" /\ InReport
  /\ call.i \notin DOMAIN running
  /\ LET p == call.for
         mine == {w \in DOMAIN running : running[w].profile = p}
         last == CHOOSE w \in Told(p) : \A v \in Told(p) : v =< w
     IN  /\ Told(p) # {} \/ call.tries = Tries
         /\ call' = [op |-> "shutdown", i |-> 1, for |-> p,
                     canary |-> IF Told(p) = {} THEN "readable" ELSE running[last].canary,
                     sandboxed |-> IF mine # {} /\ p \in Sandbox THEN "yes" ELSE "no"]
  /\ shuttingDown' = TRUE
  /\ running' = CloseAll
  /\ UNCHANGED <<world, pinned, crashes, stopped, lastMode, result, restarts>>

-----------------------------------------------------------------------------
(* The processes. *)
Crash(w) ==
  /\ running[w].status = "alive"
  /\ running' = [running EXCEPT ![w].status = "exited"]
  /\ UNCHANGED <<world, pinned, crashes, stopped, lastMode, shuttingDown, call, result, restarts>>

(* It reads its stdin to the end, and removes its listener file as it leaves. *)
ExitOnEof(w) ==
  /\ running[w].status = "alive" /\ running[w].stdin = "closed" /\ running[w].unread = 0
  /\ running' = [running EXCEPT ![w].status = "exited"]
  /\ listener' = listener \ {running[w].profile}
  /\ UNCHANGED <<clock, binary, pinned, crashes, stopped, lastMode, shuttingDown,
                 call, result, restarts>>

OpenListener(w) ==
  /\ running[w].status = "alive" /\ running[w].mode = "serve"
  /\ listener' = listener \cup {running[w].profile}
  /\ UNCHANGED <<clock, binary, supervisor, call, result, restarts>>

ReadCanary(w) ==
  /\ running[w].status = "alive" /\ running[w].mode = "read_canary"
  /\ running[w].canary = "silent"
  /\ \E said \in {"readable", "missing"}
                 \cup (IF running[w].profile \in Sandbox THEN {"denied"} ELSE {}) :
       running' = [running EXCEPT ![w].canary = said]
  /\ UNCHANGED <<world, pinned, crashes, stopped, lastMode, shuttingDown, call, result, restarts>>

AskShell(w) ==
  /\ running[w].status = "alive" /\ running[w].mode = "request_shell"
  /\ running[w].requests < MaxRequests
  /\ running' = [running EXCEPT ![w].requests = @ + 1]
  /\ UNCHANGED <<world, pinned, crashes, stopped, lastMode, shuttingDown, call, result, restarts>>

ReadReply(w) ==
  /\ running[w].status = "alive" /\ running[w].unread > 0
  /\ running' = [running EXCEPT ![w].unread = @ - 1]
  /\ UNCHANGED <<world, pinned, crashes, stopped, lastMode, shuttingDown, call, result, restarts>>

ReplaceBinary(p, h) ==
  /\ binary' = [binary EXCEPT ![p] = h]
  /\ UNCHANGED <<clock, listener, supervisor, call, result, restarts>>

ClockTicks ==
  /\ call = Idle
  /\ clock < MaxClock
  /\ clock' = clock + 1
  /\ UNCHANGED <<binary, listener, supervisor, call, result, restarts>>

Serve == Reply \/ WalkBegin \/ PollAlive \/ PollExited \/ PollEnd
         \/ ShutdownNext \/ ShutdownKill \/ Drain \/ ReportAgain \/ ReportShutdown

SupervisorNext ==
  \/ \E p \in ProviderProfile :
       \/ \E mode \in Mode : Start(p, mode)
       \/ ReportBegin(p)
       \/ \E h \in Hash : ReplaceBinary(p, h)
  \/ PollBegin \/ ShutdownBegin \/ ClockTicks \/ Serve
  \/ \E w \in DOMAIN running :
       \/ Crash(w) \/ ExitOnEof(w) \/ OpenListener(w) \/ ReadCanary(w)
       \/ AskShell(w) \/ ReadReply(w)

SupervisorSpec == SupervisorInit /\ [][SupervisorNext]_supervisorVars

(* A call that has begun is executed; shutdown's deadline does pass; and the  *)
(* processes read their stdin, as mock-provider does until it is closed.      *)
FairSupervisor ==
  SupervisorSpec /\ WF_supervisorVars(Serve)
                 /\ WF_supervisorVars(\E w \in DOMAIN running : ReadReply(w))
(* Processes that need not read.                                              *)
DeafSupervisor == SupervisorSpec /\ WF_supervisorVars(Serve)

-----------------------------------------------------------------------------
SupervisorTypeOK ==
  /\ clock \in 0..MaxClock
  /\ binary \in [ProviderProfile -> Hash]
  /\ listener \subseteq ProviderProfile
  /\ pinned \in [ProviderProfile -> Hash \cup {NoHash}]
  /\ running \in Seq(Worker)
  /\ \A p \in ProviderProfile : crashes[p] \in Seq(0..clock)
  /\ stopped \cup orphans \subseteq ProviderProfile
  /\ lastMode \in [ProviderProfile -> Mode \cup {"read_canary", NoMode}]
  /\ shuttingDown \in BOOLEAN
  /\ call \in Calls
  /\ \A w \in DOMAIN running : lastMode[running[w].profile] # NoMode

(* No span of one window holds more automatic restarts than the limit,        *)
(* however exits, polls and manual starts interleave.                         *)
RestartsAreBounded ==
  /\ SupervisorTypeOK
  /\ \A p \in ProviderProfile, t \in 0..MaxClock :
       LET span == {s \in 0..t : s + Window >= t}
       IN  FoldFunctionOnSet(LAMBDA n, sum : n + sum, 0, restarts[p], span) =< MaxRestarts

(* A poll comes by every worker that had exited when it began to walk,        *)
(* although it removes and appends workers on its way.                        *)
PollMissesNone ==
  call.op # "poll" => \A w \in DOMAIN running : running[w].status # "overdue"

(* When shutdown gives its workers up, none of them is alive.                 *)
DrainedAreDead ==
  [][call.op = "shutdown" /\ call'.op = "idle" =>
       \A w \in DOMAIN running : running[w].status # "alive"]_supervisorVars

(* Poll, shutdown and isolation_report return, even when every worker they    *)
(* restart crashes at once, and though a poll waits for room in the stdin of  *)
(* each worker that has ever asked for a shell: the workers read.  Nothing    *)
(* else ends that wait: under DeafSupervisor this does not hold.              *)
CallsReturn == call.op # "idle" ~> call.op = "idle"

-----------------------------------------------------------------------------
(* What comments and documents say and the code does not do: README section 7 *)
(* tells why each of these does not hold.                                     *)

(* workers.rs: when a worker has exited it is restarted, or the profile is    *)
(* stopped and that is recorded.                                              *)
ExitIsAnswered ==
  [][call.op = "poll" /\ Len(running') < Len(running) =>
       running[call.i].profile \in stopped']_supervisorVars

(* workers.rs: a dev profile is pinned by its first start.                    *)
PinnedOnce ==
  [][\A p \in ProviderProfile : pinned[p] # NoHash => pinned'[p] = pinned[p]]_supervisorVars

(* workers.rs: after shutdown the listener files are gone or reported.        *)
OrphansAreReported ==
  [][call.op = "shutdown" /\ call'.op = "idle" => listener \subseteq orphans']_supervisorVars

(* workers.rs: platform-sandbox is reported only when the sandbox refused.    *)
SandboxIsProven == report.level = "PlatformSandbox" => report.canary = "denied"
=============================================================================
