# xross-interop-lab: verification project

TLA+ models of the interoperability service under `impl/`, the TLC runs that check them on small
instances, and TLAPS proofs of what matters most. The code is Rust; paths are relative to
`src/impl/`. `PROJECT.json` lists every run, mutant, finding, hazard and theorem, and maps every
definition that models code to the lines it stands for.

1. The system 2. Inventory 3. Modules 4. Runs 5. Fairness 6. Proofs 7. Disagreements
8. Not modelled 9. Plan

## 1. The system

The service lets a device offer and receive files, media URLs and screen or audio streams over
protocols of other vendors. Protocol code is written as state machines that take bytes and a clock
reading and return bytes and events; sockets, threads and users are the caller's. What the state
machines share (sessions, grants, spool, events, workers, radio) lives in the runtime crates. Nearly
all of it is single-threaded by construction (`&mut self`); what is concurrent is the world around
it: processes that die, messages that are late, users who decide, clocks that pass a deadline. So
the interleavings worth checking are those of *calls*, and inside one call only where it looks at
the world more than once (the poll and the shutdown of the worker supervisor), or waits for it (the
replies a poll writes to its workers).

    user / control plane ---- session registry ---- event bus ---> subscribers
            |                       |
            | approve               | worker_crashed
            v                       v
      radio arbiter           worker supervisor ---- provider processes
            |
      network driver          host ports + grants ---- spool ---- disk
                                    |                    ^
        protocol crates: Quick Share (link, control, receive), Cast (sender, receiver),
        DLNA (renderer, controller, GENA), Wi-Fi Display sink, AirPlay receiver ---- media
                                    ^
      discovery sources ---- endpoints, routes           local clients ---- control API

## 2. Inventory

State, operations, what makes it hard, what makes it correct. *Modelled* parts name their module.

| component | state | operations | hard behaviour | correct when |
|---|---|---|---|---|
| radio arbiter (`RadioArbiter`) | numbered leases on a resource, each shared or exclusive, with or without a rollback plan | request, request with approval, approve, deny, release, worker exit | driver fails any call; exit of a worker among leases of others | network changes only after approval, and none is forgotten |
| session registry (`SessionRegistry`, `Lifecycle`) | offers, sessions, deadlines, workers | register, accept, expire, cancel, worker crash, sweep | accept against expiry; several ends at once | one decision, one cleanup, final |
| event bus (`EventBus`, `EventLog`) | bounded deque, sequence numbers | publish, subscribe after a cursor | two eviction limits; a stale cursor | a subscriber learns of every event or of its loss |
| host ports, grants (`HostPorts`) | ledger of grants, sinks | admit, open, append, commit, read | copies of a grant outlive its change; expiry between calls | bytes counted, commits in time |
| worker supervisor (`WorkerSupervisor`) | running list, crash history, pins, listener files | start, poll, shutdown, isolation report | processes exit during a walk that edits the list it walks | bounded restarts, nobody missed or left alive, calls return as long as workers read |
| spool (`Spool`) | temporary files, hashes, folders | begin, write, commit, abort, open | any disk operation fails; a write over the limit ends the entry under its caller; folders replaced by others; leftovers | what is published is whole and where it was approved |
| Quick Share receive (`ReceiveSession`) | offered entries, assembler per payload | introduction, data frame, finish, cancel | frames of payloads interleave, repeat, retry | pieces stay with their payload, receipts are whole |
| Quick Share link (`QuickShareLink`) | UKEY2 handshake, decoder, channel | feed, confirm, deliver, seal, open | stream cut anywhere, messages altered or repeated, deadline | both ends saw the same, in order, settled |
| Cast sender (`CastController`) | gate, state, transport, URL, pending requests, ages | connect, launch, load, commands, stop, close, message, tick | late answers, timeouts, statuses of an earlier app | no command passes a closed gate, requests settle once |
| DLNA renderer (`Renderer`) | transport, consented item, table of subscriptions | set, play, pause, stop, consent, subscribe | consent and the end of an item that was replaced | only consented items play |
| GENA scheduler (`Gena`) | number, changes waiting, window | log, tick, flush, initial notify | changes collected while others arrive and NOTIFYs leave at once, numbers wrap | every change is told in its place, a loss shows in the numbers |
| Wi-Fi Display sink (`WfdSink`, `RtpAccount`) | RTSP state, requests without an answer, stream chosen, packet account | M1 to M16 with their answers, tick, packets | answers out of order, packet numbers that wrap, a silent source | what plays both sides declared; losses exact; sessions end |
| DLNA controller (`MediaController`) | renderers seen, URL leases | observe, declare, grant, revoke, sweep | a late revoke against a new lease; expiry between calls | a URL lives exactly as long as its latest lease |
| Cast receiver (`CastReceiver`, `CastMessages`, composed in `CastLink`) | connections, app, volume, status, advert | every message of a sender, gate, pairing | several senders on one session; messages under way | sender and receiver agree when nothing is under way |
| AirPlay receiver (`AirPlay`, `AirPlayFormats`) | connections, pairing, streams, mirror queue, audio track, pairing store | RTSP requests, disconnects, pictures, samples, pair, forget, restart | recovery after loss, re-pairing while streaming, restarts | ports are bounded; frames after a gap wait for a key frame |
| Quick Share control (`QuickShareControl`, `ControlFrames`) | keep-alive, paired key, disconnection, acknowledgements | frame, tick, payload begun and done | both ends act at once; another implementation at the far end; an answer that cannot be wrapped | silence is noticed, and only silence; every exchange ends |
| endpoints and routing (`Discovery`) | records of observations with addresses and life times | observe, interface down, expire, plan | an observation handled late; sweeps seldom | routes lead to live addresses |
| local control API (`LocalApi`) | one connection, its state and scopes | connect, frames, hello, methods | connections follow one another; versions that are cut | scopes are the client's own |
| media (`MediaStream`) | queue, sinks | push, pop, resample, write | rounding, overflow of the queue, a sink that fails | frames are accounted, duration is kept |
| contract types, parsers, apps | data types, coding | | | |

The hazards, each at its line, with the properties aimed at it, are in `PROJECT.json`.

## 3. Modules

Every module starts with what it leaves out. Definitions keep the source's names.

**RadioArbiter** (`interop-platform/src/radio.rs`). `leases` is the vector of leases, a lease being
its number. One action per method; a request is granted, refused, left pending or approved on the
spot, as the code's branches have it. The driver is external: any `apply` or `rollback` may fail,
and the ghosts `applies`, `rollbacks` and `in_force` keep what it was asked and did.
`MCRadioArbiter` makes the workers interchangeable.

**SessionRegistry** (`interop-runtime/src/session.rs`). `offers` and `sessions` are its maps, with
`"absent"` for a missing key; `Decide` is the part that `decide_accept` and `expire` share,
`EndSessions` the part that `cancel`, `worker_crashed` and `sweep` share. `now` is the clock of the
callers. `MaxRegistrations = 1` says that ids are fresh; the run registers each up to twice.
**Lifecycle** is the promise: an id is opened, ends with an outcome, the end is accounted for once,
and the id may be opened again. `ImplementsLifecycle` is the refinement, registering being the
opening and cancel, crash and sweep the ends.

**EventLog / EventBus** (`interop-runtime/src/events.rs`). EventLog is the promise: numbered events,
a prefix of them gone, and a subscriber that gets everything after its cursor or a gap. EventBus is
the deque with its two limits and a subscriber that follows docs/05 section 6. `ImplementsEventLog`
is the refinement, `floor` being the oldest event still held.

**HostPorts** (`standalone-host/src/lib.rs`, `interop-runtime/src/host.rs`,
`interop-policy/src/grant.rs`). The caller of each operation holds the copy of the grant made at
issue; `ledger` holds the grants whose consumption is counted. `Authorize` is the check of
`grant.rs`, with each operation's way of filling in the request.

**WorkerSupervisor** (`interop-runtime/src/workers.rs`, `workers/mock-provider`). `running` is the
vector, `call` the program counter of poll, shutdown or isolation_report with the index it stands
at: each look at a process is a step, and processes exit, crash and open listeners between steps. A
poll first answers: `owed` is what it still has to write to each worker, one reply for each exec
request among the buffered lines, which stay there and are answered again by the next poll. A reply
waits for room in the worker's stdin (`PipeSize`), which only the process makes (`ReadReply`). The
binary of a profile may be replaced at any time.

**Spool / ReceiveSession** (`interop-file/src/spool.rs`, `proto-quickshare/src/receive.rs`, the
assembler of `payload.rs`). Files are sequences of pieces, and the hash of what was written is that
sequence. Spool holds what the store does (`WriteOk`, `WriteFails`, `WriteOver`, `CommitOk`, ...);
ReceiveSession has the actions, each with every spool call the handler makes. `WriteOver` is a write
over the limit: the store ends the entry and removes its temporary file, and the session keeps the
payload and a handle that leads to nothing. `Reopen` and
`NextSession` open the store again on the same disk: handles restart at 1, leftovers stay.

**CastController** (`proto-cast/src/controller.rs`). Clock readings are kept as ages up to a cap, so
the state space is finite without a bound on time. `OnMessage` is the whole of `on_message`: the
pending request is settled first, then the branch of the message's kind runs. `behind` is history:
the kinds of messages that left while the gate was closed. A PING is answered without a look at the
gate (`OnPing`).

**QuickShareLink** (`proto-quickshare/src/{session,handshake,framing,wire,crypto,secure_message}.rs`).
Two sessions. A frame is its type and what differs from what its sender put in it (random value, key
or commitment, shape); hash functions are injective. `Feed` takes a chunk, cut anywhere, and
`FeedFrame` handles one decoded frame of it, as the loop in `feed` does. `Disturb` alters or repeats
a frame. A second channel carries sealed messages that may be repeated, reordered or lost.

**Renderer / Gena** (`proto-upnp/src/{dmr,gena}.rs`). Two modules that stand alone, as the two types
do: Renderer is the transport and the table of subscriptions, Gena the scheduler of one
subscription, whose caller logs changes, ticks, and asks for the initial event or a NOTIFY at once
in any order. No code of the repository logs the renderer's changes with the schedulers: the
demonstration gives a scheduler values of its own. `MCDlna` is their instance, in which a behaviour moves
the part it begins with.

**RtpAccount / WfdSink** (`proto-wfd/src/{rtp,session,negotiate,messages}.rs`). `OnPacket` is
`on_packet`, with the branches as disjuncts; the ghosts `highest` and `skipped` follow the packet
numbers before they are cut to 16 bits. WfdSink has one action per inbound message, per answer and
per call of `SinkSession`; `pending` counts the requests without an answer per kind, which is all
that matching an answer by CSeq can tell. An inbound request changes nothing before its CSeq is
accepted and counts as heard from then on, also when it is refused (`OnRefused`). Formats are
records of sets; the sink can receive those of the instance, while production code declares none.

**CastReceiver / CastMessages / CastCoding / CastLink**
(`proto-cast/src/{receiver,discovery,castv2,namespaces}.rs`).
CastReceiver has one operator per kind of message, which answers the new receiver state and what it
sends; `FromState` and `ToTxt` are what it publishes, `FromTxt` reads it as receiver.rs does,
`Discovers` and `Discovered` as discovery.rs does: by the beginning of the service type, keys in
either case, texts without the blanks around them. CastMessages is coding: a message as the
encoder refuses or writes it and the decoder refuses, defaults or reads it. The keys of an object
are functions from the values that are accepted to what is made of them. CastCoding says what the
coding promises of any bodies, of what follows a frame and of any payloads: `WellFormed` is the
reference, which does not read in order. `MCCastLink` gives the run its inputs. CastLink composes: with
`peer = "any"` the sender is CastController alone, with every message at any moment; with `"ours"`
its messages go through `toReceiver` and `toSender` to and from a receiver that another sender uses too. The
transport is the host's: the repository only shows it in its demonstration.

**ControlFrames / QuickShareControl** (`proto-quickshare/src/{control,payload}.rs`). ControlFrames
are the two layers of frames and what each decoder refuses. QuickShareControl has two ends and a
channel that delivers in order within `MaxDelay`; end B may be `foreign`, an implementation that
says what it likes. The four exchanges share no state, so a behaviour follows one `topic`
(keep-alive, pairing, leaving, acknowledgement) instead of their product. Material that comes under
payload id 0 moves the exchange on although its answer cannot be wrapped, and none leaves.

**MediaStream / AirPlayFormats / AirPlay** (`interop-media/src/*.rs`, `proto-airplay/src/*.rs`).
MediaStream has the operators of queue, watcher, resampler and sinks, AirPlayFormats the
tables and refusals of requests, AirPlay the state: sessions of connections with who asked last
(`by`) and the answer, the mirror track with its queue of two and its back-pressure, the audio
track, the pairing store with what the host saved of it and restarts from. Every call of a sink may
fail, that of a block of audio and that of `finish` too; what a failure keeps from being counted is
as in the code, and it is told to the caller. No host restarts from a saved store yet: `Restart` is
what `to_json` and `from_json` are for. Again a behaviour follows one `topic`, since these parts do not call
each other.

**Discovery / LocalApi / MediaController** (`interop-runtime/src/{endpoints,routing}.rs`,
`interop-ipc/src/*.rs` with `apps/interopd/src/main.rs`, `proto-upnp/src/dmc.rs`). Each has one
action per method; deadlines are kept as the time that is left, so that time needs no bound. The
ghosts are the promise: `sighted` what is left of each observation of each address and `downFor`
how long ago an interface went down, `answered` and
`hello` who was answered after which hello, `promised` the latest lease of each URL. `PlanRoute`
keeps the code's order of refusals. `MCRuntime` is their instance together with HostPorts; no call
of one changes another, so a behaviour moves the `part` it begins with.

The proofs are in seven modules by subsystem and a library: **CoreProofs** (RadioArbiter,
SessionRegistry, EventBus), **RuntimeProofs** (HostPorts, Discovery, LocalApi, WorkerSupervisor),
**QuickShareProofs** (ReceiveSession, QuickShareLink, QuickShareControl), **CastProofs**
(CastController, CastLink, CastCoding), **DlnaProofs** (Renderer, Gena, MediaController), **WfdSinkProofs**,
**AirPlayProofs**, and **InductionLemmas** (sums, folds, filters, least and greatest numbers). Since
one module speaks of several components, only one of them can have a plain `Init`, `Next` and `Spec`;
the others say `RegistryInit`, `ReceiveNext`, `SupervisorSpec`, `AirPlayTypeOK` and so on.

## 4. Runs

| run | instance | why it is enough |
|---|---|---|
| `radio` | 2 workers, 3 leases, 2 resources, at most 2 rollbacks counted per lease | three leases allow an exclusive one with an older and a younger lease of another worker |
| `sessions` | 1 offer, 2 sessions, 2 workers, clock to 1, each id registered up to twice | a crash or sweep that hits one of two; before, at and after a deadline; an id that comes again while it is live or after it has ended |
| `events` | 6 events of size 1, 2 or 5, at most 3 entries and 4 bytes | either limit evicts, one event exceeds the byte limit alone, the cursor falls behind by more than one window |
| `host` | 1 enabled and 1 disabled profile, 1 entry, 2 grants, 2 sinks of at most 2 bytes, clock to 1, life time 0; 2 endpoints, 2 interfaces, 2 records, life time 1, observations late by at most 1; 2 clients, 3 tokens of which one is unknown, 3 versions of which one is ours only after the cut, 2 answers; 2 renderers, 2 URLs, 3 leases of life time 2 | every combination of a grant with the sink of another, before and after expiry (an offer of two entries issues what two offers of one do); an observation that replaces another and is already stale; a client after one with more scopes; a lease replaced, revoked late, swept or run out |
| `workers` | 1 profile, 2 workers, 1 restart per window of 1, clock to 1, 2 binaries, 1 request for a shell per process, room for 1 reply | one worker exits while the poll stands at, before or behind it; restarts append behind the walk; the second poll answers a request again and finds the pipe full |
| `receive` | 2 payloads, sizes 1 to 3, sums modulo 4, one folder, 2 entries offered together or in turn, budget 2, 2 published files, 1 leftover | a second offer in one session, a sum that wraps and so a file over its limit, interleaved payloads, every disk failure, a folder replaced |
| `cast` | 1 URL, 2 requests, request timeout 0, ping 1, expiry 1; 2 apps of which one is configured, 2 messages under way each way, 2 senders; a coding limit of 7, 17 000 bodies of 6 to 8 fields, 3 tails, every payload with one text for any | one request pending while another is answered late; two commands cross a status; a second sender closes, connects or stops |
| `quickshare` | 1 alteration or repetition, deadline 1, clock to 2, 2 sealed messages per end | each frame of the handshake altered in each field; starts at 0 and 1 |
| `dlna` | renderer: 3 addresses (1 refused), 2 subscriptions at a time, 3 ids; scheduler: 2 values, window 2, numbers modulo 3, 4 changes, at most 1 variable in an initial event, 3 NOTIFYs before no more are asked for at once | an item replaced while consent to the one before is under way, a subscription whose place is taken; numbers wrap within the run, a flush and an initial event before, in and after the window of other changes |
| `wfd` | 2 formats and 2 codecs of ours, lists of the source of none, one or two, numbers modulo 4, packets 0 to 4, 2 requests without an answer, ages to 1 | a list whose first entry fits only in parts; numbers wrap, with a gap or a late packet at the wrap; two answers in either order |
| `control` | interval 2, timeout 6, delay at most 1, intervals and timeouts of policies to 12, 2 payload ids and id 0, 2 frames said freely per end | a beat that is late, lost by the cut or refused; both ends leave, pair or send under one id at once |
| `airplay` | 2 sessions, 3 connections, queue of 2 frames, 3 units of budget, 5 pictures offered, 3 blocks of audio heard over a sink that may fail, rates 0, 2, 3, 3 devices of which 2 are remembered, clock to 2 | a connection refused and one that takes its place; overflow, recovery and a new format while recovering; rates that do not divide each other; a store that is full at a restart |

Every constant named `Max...` is a bound of the instance and appears only in guards. Most stop
something new from beginning (another lease, registration, event, request, subscription, offer);
`MaxPublished`, `MaxTemp` and `MaxSinkBytes` stop what has been written from growing, `MaxLost` what
is lost, `MaxRollbacks`
a lease from being rolled back for ever, `MaxTime` the clock, `MaxFaults` the network, `MaxUnderWay`
and `MaxSaid` what the far end says before it is heard, `MaxAnswers` and `MaxRecords` what is kept,
`MaxRequests` of
the supervisor what a process asks for and `MaxDirect` the NOTIFYs that are asked for at once.
The largest runs (`host`, `cast`, `receive`) take one to two minutes.
Deadlock checking is off throughout: a system whose callers have nothing left to ask may stop.

What each run shows is its `about` in `PROJECT.json`; what each property means is the comment above
it. Every property of a passing run has a mutant, a plausible bug under which the run fails. What
is proved and adds nothing to a run is stated in the module and left to the prover (`TerminalIsFinal`,
`SettledOnce`, `EndedDeliversNothing`, `OneDecision`, `OneCleanup`, `GateClosedSendsNothing` and others,
section 6). Type
invariants are proved; those whose proof needs more than a look at each action are also checked, as a
part of another invariant (`BytesAreCounted`, `RoutesAreLive`, `ScopesAreOwn`, `LeasesAreExact`,
`RestartsAreBounded`,
`BoundToItsPayload`, `NoFalseDeath`, `ReservationsAreBounded`). Properties below the line "What comments and
documents say and the code does not do" are kept beside the model because they are the questions a
reader asks first; they do not hold (section 7).

## 5. Fairness

Only six kinds of assumption are made, each on something the code leaves to its caller and its
documents ask of it:

* time passes (`Wait`, `Tick` of the clock);
* the caller keeps calling what the code says must be called: `tick` of the Cast controller, of the
  Wi-Fi Display sink and of the GENA scheduler (with its clock, `Wait`), `subscribe_after`, and `feed`,
  which is the only place that looks at the handshake
  deadline: an embedding that calls it only when bytes arrive does not get this;
* a call that has begun runs on (`Serve` of the supervisor, `FeedFrame`);
* a worker reads its stdin (`ReadReply`), as `workers/mock-provider/src/main.rs:100` does until it is
  closed. Without this (`DeafSupervisor`) calls of the supervisor need not return (section 7);
* the clock that `shutdown` reads reaches its deadline;
* a channel that is not cut delivers: `SenderTakes` and `ReceiverTakes` of CastLink, `Receive` of
  QuickShareControl, whose `ForeignListens` says that the other implementation reads its messages
  (an end that hears nothing is then one whose channel was cut or whose peer has crashed).

All are weak fairness: each action stays possible until it is taken.

## 6. Proofs

For every value of the constants, from the assumptions named in the modules. All of them are
finished to the last leaf. Every invariant and action property of every run is proved; liveness is
not.

**CoreProofs**

* Radio. `RadioInv` is type correctness with the invariants of the arbiter, which are inductive
  together: `NoForgottenChange` needs the call counts of `DriverFollowsApproval`. The lemma
  `PushWithoutDriver` covers every way of recording a lease without the driver, `EndsKeeps` every way
  of giving leases up, of one lease or of all of a worker.
* Sessions. With ids used again: the types (`CallsKeepTypes`), `FailuresAreIsolated` (a session fails
  only by its own worker or deadline) and `RegistryImplementsLifecycle`, in which the lemma
  `EndsAreEnds` takes cancel, crash and sweep together. `OneEndPerUse` says of Lifecycle that each use
  of an id ends at most once; through the refinement it holds of the registry (`CleanedUpPerUse`).
  With `MaxRegistrations = 1`, `SessionInv` adds `RegisteredOnce` (an id is in its map exactly when it
  was registered) and gives one decision, one cleanup and that both are final: without it a
  registration overwrites a decided offer, or a live session whose earlier use is never cleaned up.
* Events. `BusImplementsLog`: under `BusInv` (the window is a gapless run that ends with the last
  number) each step of the bus is a step of the log or stutters. `ZeroCursorOnly` says of the abstract
  log, INSTANCEd with the bus's terms, that an event is passed over silently only from cursor 0; it
  then holds of the bus through the refinement (`OnlyZeroCursorSkips`).

**RuntimeProofs**

* Host ports. `HostInv` holds the two sums equal, of bytes in sinks and of bytes consumed, by sums
  over functions (`SumTotal`) in which one entry changes at a time. `CommittedInTimeTheorem`: a file
  becomes final only in the life time of its grant.
* Discovery. `DiscoveryInv`: each address of a record was sighted and lasts at least as long as the
  record. A route is chosen from what a filter keeps, and that is `FilterKeeps`.
* Local control. `ApiInv` adds to `ScopesAreOwn` that the scopes of a connection that said hello are
  held by the token of that hello. Between a disconnection and the next `Accept` the old state of the
  connection stays, which is why the conjunct asks for `served # None`.
* Workers. `OverdueAhead` (a worker that had exited when the poll began is at its index or behind it)
  gives `PollMissesNone`: removing at the index and appending keep it. `EndedBehind` (nothing a
  shutdown has come by is alive) gives the action property `DrainedAreDead`: a walk of shutdown only
  moves on past a worker that has exited or that it has killed, and no process comes back. It is
  proved and in no run. The budget is an argument about counts: every restart within the window is a crash
  that is still remembered
  (`RestartsAreRemembered`), of which there are at most `max_restarts` at each restart; spans that end
  earlier no longer change (`SpansAreBounded`). `Recent` filters the history, so that
  `FilterCounts` says how many crashes it keeps.

**QuickShareProofs**

* Receiving. `ReceiveInv`: every entry of the store has a handle of its own, one used up (`StoreOK`),
  and what the spool has hashed of an entry is the pieces of its payload up to the assembler's count
  (`InStep`), failing writes, writes over the limit and second offers included. An open entry's
  temporary file is there and holds pieces of its payload alone; one that lost it while its session
  still holds the handle was declared larger than its limit, and never becomes complete (`OwnTemp`).
  `ReceiptsTheorem` and `LinksTheorem` are about steps: only a commit
  publishes, and what it publishes is whole and not through a replaced folder.
* The link. `LinkInv` is `SessionInv` (what the ends hold against what the network may carry, for any
  number of alterations) and `ChannelInv` (everything on the wire was sealed, with its number, under
  the keys of its sender). `ConfirmationBinds` follows because the digits are a function of both
  messages; `ChannelIsInOrder` because the number expected next is one more than the number of
  messages opened. `HonestInv`: with nothing altered each end's state says exactly which messages are
  on their way to it (`AsExpected`) and neither has failed; it needs that a frame cut anywhere is put
  together again (`TakenIs`).
* Control frames. `BaseInv` types the four exchanges and their channel. `AckInv` follows an id from
  flight to delivery to acknowledgement, also when both ends use one id for payloads of their own, and
  `FileInv` what was registered as a FILE: an acknowledgement, marked or under way, has a FILE that
  was sent and a registered payload at the other end, of which no chunk is under way.
  `PairingInv`: a success, reached or under way, was `Earned`; no frame of another layer or shape
  decodes to one. `AliveInv`: beats are sent in their interval and arrive within the delay, so that an
  end that is `Patient` has always heard something recently; `Negotiated` says what two policies
  agree on.

**CastProofs**

* The sender. `CastInv` = `Ids` (pending ids were handed out) with a session, a request and an age
  part that do not depend on each other, and with `GateInv`, which says of `behind` that only answers
  to a PING leave behind a closed gate (`GateHolds`).
* `LinkImplementsController`: every step of the composition, by our receiver, its host or another
  sender too, is a step of the sender alone or leaves it unchanged: what a receiver of ours says is
  one of the messages CastController admits. The sender's theorems hold of the composition with it.
* `AgreeInv`: while no CLOSE has been, the last status under way to the sender tells the app that
  runs, or, with none under way, the sender was told of it or missed it (`ToldInv`); before anyone is
  admitted nothing but idle statuses is under way (`AdmittedInv`). With empty queues this is
  `AgreeWhenQuiet`. `AdvertTheorem` reads an advert of any receiver back, in both spellings of its keys
  and with a name that has blanks around it.
* The coding, for every limit and all messages. A body: the reader's states form a walk
  (`ReadBodyIsReading`), and `ReadSoFar` says what a state knows of the fields before it; the first
  position where it would not is impossible. A frame: four digits of the length, by division with
  rest, survive whatever is cut off behind them. A payload: `ReadsBack` says of one key that what it
  is read as is read as itself, and what is not known as not known; only the volume of a receiver
  status is not such a key. Which keys are read depends on three of them, which come back
  (`KeysAgree`). `WhatIsReadStays` follows for whatever a peer sends, since what was read is a
  payload (`DecodedIsPayload`).

**DlnaProofs**. `RendererInv` is type correctness with `PlaysOnlyConsented`. `GenaInv` strengthens
`NumbersTellLoss` by `ToldWhatWasLogged` (what was told and what waits is what was logged, in order),
`Numbered` (the next number continues the numbers sent) and `Windowed` (the open window is as old as
the oldest change waiting), which gives `ChangesAreCollected`. For the controller, `LeaseInv` says what the
lease of a URL and the promise made to it say of each other (`Paired`); a late revocation of a lease
that was replaced changes neither, which is `LeasesStayExact`. That the number of a new lease is new
is not needed: a grant replaces lease and promise together.

**WfdSinkProofs**. The lemma `DeltaIsDifference` says that the signed 16-bit difference is the true
one within half the range, for any even modulus; with `Followed` (what is expected follows the
highest number) it gives `LossesAreExact`. The session part has to look ahead: `Streaming` and
`Created` include the SETUP and PLAY requests under way, since their answers move the state
wherever it has gone meanwhile.

**AirPlayProofs**. `AirPlayInv` is one part for each topic.

* `ReceiverOK`: a session is `Entitled` to a port by its state and the pairings done; at most
  `MaxSessions` are active, since a session becomes active only by being accepted; and while the last
  answer is "200 playing", the session that asked (`by`) holds its port.
* `TrackInv` for pictures. `Sound`: the frames in the queue build on each other without a hole
  (`Chain`), the first on what the sink was given last (`Starts`), and the sink was never given one
  that does not. `Follows`: the picture offered next continues the queue unless the track is
  recovering or the caller was told. `Counted` is `FramesAreAccounted`. A flush hands over any number
  of frames and may fail, so `HandedAll` goes along the frames one by one. `Follows` is what dropping
  without recovering would break: the mutant of `NoFrameAfterGap`.
* `Planned`: what all blocks have lost is at most their number times what one may lose, which is
  `BlockKeepsDuration`: a block's remainder by channels and the remainder of the division of rates.
* `StoreOK` and `AskedOK`: a pairing's time is copied by `put` and `touch`; the mark in force is the
  last that names a format, which `MarksGoOn` extends by a mark. `PairingsTheorem` is an action
  property.

**InductionLemmas**. The induction theorems of the library take an operator as a parameter and cannot
be used. What is proved by induction here (a recursive function exists and is unique, a sum changes
with one of its terms, a filter keeps what passes and in what number, a fold is a walk) is proved from
a least counterexample: the strict subsets of finite sets are well founded, so a set of
counterexamples that is not empty has a minimal element. Definitions the proofs look into are folds
and function constructors, since `SelectSeq` and `@@` cannot be expanded.

Only model-checked is liveness (`EveryEventReaches`, `CallsReturn`, `RequestsSettle`,
`HandshakeSettles`, `SubscribersCatchUp`, `SilentSourceEnds`, `SilenceIsNoticed`, `ExchangesSettle`),
which is out of the prover's reach.

## 7. Disagreements

Where a comment, document or test says one thing and the code does another. They are stated as
properties below a line in the modules, and TLC finds them violated when they are put into the cfg
of the run, under the constants named here where they differ from the run's:

* `FilesMatchReceipts` (ReceiveSession): a write that fails after its bytes reached the file is not
  undone; the retry writes them again, hash and count are those of one copy, the file has two
  (`spool.rs:193`, against `spool.rs:7`).
* `CommittedWithinBudget` (HostPorts): the byte check reads the caller's copy of the grant, in which
  nothing is consumed, so each append is checked alone (`host.rs:197`); grant.rs:56 says cumulative.
* `OfferWithinBudget` (ReceiveSession): the u64 sizes of an offer are summed without a check, and in
  a release build the sum wraps: files far over the budget are accepted (`receive.rs:194`).
* `RollbackAtMostOnce` (RadioArbiter): `release` rolls back whenever the lease is Released after the
  call, so a second release calls the driver again; radio.rs:6 says once (`radio.rs:270`).
* `ExclusiveNeedsApproval` (RadioArbiter): `request` grants an exclusive lease without approval when
  the resource is free; radio.rs:38 says approval is always needed (`radio.rs:187`).
* `TerminalIsFinal` with `MaxRegistrations = 2`, as in the run: registering an id again makes a decided offer
  pending and an ended session active; session.rs:9 says irreversible (`session.rs:65`).
* `NoSilentLoss` (EventBus): cursor 0 never gets a gap, though events 1.. may be gone; events.rs:2
  says a gap is never disguised (`events.rs:90`).
* `ReceiveGrantCannotRead`, `SendGrantCannotWrite` (HostPorts): reads are checked against the
  direction the request names, writes against the grant's own; grant.rs:8 says neither is possible
  (`host.rs:153`, `host.rs:201`).
* `ExitIsAnswered` (WorkerSupervisor, `Launch` with "failed"): poll drops the error of a restart
  after it has removed the exited worker (`workers.rs:424`). After a shutdown: `shutting_down` is never reset, and
  isolation_report ends with a shutdown, so one probe turns restarts off for all (`workers.rs:441`).
* `CallsReturn` (WorkerSupervisor) under `DeafSupervisor` in place of `FairSupervisor`: poll writes
  each reply with a blocking `write_all` (`workers.rs:369`) and answers the lines it has put back
  again at each poll, so a worker that asks and does not read holds up the supervisor for ever.
* `PinnedOnce`: a profile without a hash is pinned anew at every start (`workers.rs:614`);
  `OrphansAreReported`: the listener file of a worker that crashed is forgotten with it
  (`workers.rs:386`); `SandboxIsProven`: every failure to read the canary counts as a refusal by the
  sandbox, a missing file too (`workers.rs:509`).
* `SessionWithinBudget`, `PayloadIdsAreUnique` (ReceiveSession): within one introduction
  they can fail only by a sum that wraps, and a second one starts afresh (`receive.rs:195`);
  `CancelLeavesNothing`: an entry that is complete
  but not finished loses its owner and keeps its temporary file (`receive.rs:354`).
* `EndedIsFinal`, `UrlNeedsApp`, `UrlsAreAccounted`, `SilentChannelEnds` (CastController): a late
  status revives an ended session (`controller.rs:523`); a LAUNCH_ERROR clears the app and keeps the
  URL (484); a second load replaces the URL of the first without a release (374); an unanswered
  CONNECT or LAUNCH leaves a state in which no call is allowed and no heartbeat runs (600).
* `EndedIsFinal` (WfdSink): `on_response` does not look at Ended, so the late answer to a PLAY or
  SETUP takes an ended session back to playing (`session.rs:535`); session.rs:336 says no control
  message is accepted any more.
* CastLink: `NobodyIsLeftBehind`: the CLOSE of one sender ends the session of all, and the others
  are not told (`receiver.rs:246`). `LateStatusIsHeard`: a status that answers a request given up
  before is refused whole, and the transport it names with it (`controller.rs:447`).
  `StandByRunsNothing`: the status says stand-by while an app runs. `CapabilitiesAreRead`: the
  receiver writes `ca` in decimal, discovery.rs reads it as hexadecimal.
* `StreamMeansStreaming` (AirPlay): pairing again while streaming keeps the stream with the state
  Authenticated, and PLAY is answered 400. `OldFramesAreCleared`: mirror.rs:144 says "清空旧格式的待处理帧"
  (the waiting frames of the old format are cleared), but they are delivered after the new format.
* Discovery: `DownStaysDown`: an observation that was made before its interface went down and is
  handled after it brings the addresses back, and routes lead to them (`endpoints.rs:126`;
  endpoints.rs:7 says the candidates of an interface that is down are void at once). `SubjectsAreUnique`: an
  id that is seen again with other addresses makes a second record
  of the same id (`endpoints.rs:149`), and `FreshIsRoutable`: `get` answers the older one, so a fresh
  observation may not be routable until the old record is swept.
* LocalApi: `OtherVersionsAreRefused`: the version is cut to 32 bits before it is compared
  (`server.rs:114`), so 2^32 counts as 0. `AnswersFit`: the answer repeats id and method of the
  request, and one that exceeds a frame ends the daemon in an assertion (`frame.rs:11`).
  `EveryoneIsServed` (`FairLocalApiSpec`): connections are served one at a time without a time limit, so a client
  that keeps silent, also one that was refused, holds up all others (`main.rs:36`).
* MediaController: `ExpiredIsNotPushed`: whether a renderer may be pushed to does not ask whether its
  announcement has run out (`dmc.rs:306`). `DeclarationIsCurrent`: a renderer that announces another
  location keeps the declaration of the old description (`dmc.rs:248`).

Seen while modelling, without a property of their own:

* Quick Share: a client counts its deadline from absolute time 0 (`session.rs:135`); frames behind an
  alert in the same chunk are handled although the session has ended; a length error discards the
  frames before it in the chunk and does not end the session; a sealed frame in the chunk of the
  last handshake message ends the session.
* Spool: an existing file of the same name is replaced at commit, an existing folder refuses it; a
  commit forgets the entry before the rename can fail (`receive.rs:337`).
* Workers: options are kept per profile, so a restart uses those of the latest start
  (`workers.rs:420`); a process whose bootstrap line cannot be written runs on outside the list (300).
* Cast: the idle status of an earlier load releases the URL of the later one (`controller.rs:572`).
* Quick Share control: material under payload id 0 is taken and moves the exchange on, and the answer
  is then refused by the wrapping (`control.rs:700`), so the other end waits for it.
* Cast: a PING is answered with a PONG whatever the gate (`controller.rs:465`), while controller.rs:6
  speaks of commands; a name that is advertised with blanks around it is discovered without them
  (`discovery.rs:60`).
* Receiving: after a write over the limit (`spool.rs:181`) the session still counts on an entry that
  the store has ended: the store refuses every later frame of the payload, which stays in the
  session, incomplete, until everything is cancelled (`receive.rs:290`).
* DLNA: a late `on_playback_ended` stops the item set meanwhile (`dmr.rs:434`); subscription
  timeouts never expire, so vanished subscribers keep their places (`dmr.rs:510`); `flush` before
  `initial_notify` gives number 0 to another NOTIFY than the initial event (`gena.rs:208`); nothing ties the
  renderer to a scheduler, and the demonstration logs its values with a subscription that has ended
  (`apps/interop-demo/src/dlna.rs:275`); the scheme check admits https, which the fetch policy then always refuses.
* Cast coding: a RECEIVER_STATUS without volume comes back with a default one; a LOAD with an empty
  contentId or contentType is written and not read; a LAUNCH with an empty appId is read and not
  written; CONNECT carries no protocol version, so CONNECTED is the host's choice.
* AirPlay: sessions stay tracked after TEARDOWN until the connection ends; `MirrorStats.recoveries`
  (`mirror.rs:64`) counts leaving recovery by a key frame; `Forwarded::Frame` is said to have been handed to
  the sink and is only queued; a pairing store read without max_entries has capacity 0, and one that
  says more than 64 cannot be read back; the policy calls PairSetupPin unsupported always, the session
  answers 200 when there is a keying; resampling by blocks loses less than one frame per block.
* Discovery: `expire` may name an id twice among those affected. LocalApi: `read_frame` never answers
  `Ok(None)`, which its comment promises for a clean close. MediaController: a lease that cannot be
  granted for want of random bytes has already ended the one before (`dmc.rs:369`).
* Wi-Fi Display: the answer to M2 opens M4 although M3 was not asked (`session.rs:513`); a refused M4
  still decides whether keep-alives are sent, and one without ports leaves it as it was (409); with
  two PLAY requests under way the second answer may come after a new M4 and start its stream
  without a SETUP (535); answers to keep-alives are reported as errors and do not count as heard
  (543); the branch for an inbound TEARDOWN is never reached (466 after 338); states before Playing
  have no time limit (619); the first packet of a new source is not the start of its count
  (`rtp.rs:141`), and a loss within the debounce time is asked for only at the next loss (188).

## 8. Not modelled

`PROJECT.json` gives the reason for each component. In short: parsers and formatters that keep no
state (SSDP, SOAP, XML, the media server's catalogue, Wi-Fi Display information elements, the bytes
of Quick Share and Cast fields), where their refusals matter they appear as shapes of a message;
input and output on files, sockets and the operating system with the probes and the command line
client; cryptography itself; the values of samples and pictures; the map of clocks, the
generations and the drift of AirPlay's audio clock, which are observed and never acted on; the
demonstrations, except for the passing on of Cast
messages that CastLink shows, and the test kit. Partly modelled components say in their note what is left
out. One abstraction limits what the checked properties say: the worker supervisor hashes and
executes a binary in one step, so its replacement in between is not seen.

## 9. Plan

What is modelled follows the first plan, and what the runs check is proved where it can be. Left, in
this order:

1. Refinements: the protocol sessions against Lifecycle, as SessionRegistry implements it.
2. The renderer's position and volume, the renewal of subscriptions.
