------------------------------ MODULE AirPlay ------------------------------
(***************************************************************************)
(* An AirPlay receiver: the sessions of its RTSP connections, the track of *)
(* mirrored pictures, the audio track, the pairings it                      *)
(* remembers and what it says to a request for a format.  These parts call *)
(* MediaStream and AirPlayFormats and do not call each other, so that a    *)
(* behaviour follows one `topic'.                                          *)
(***************************************************************************)
EXTENDS MediaStream, AirPlayFormats, SequencesExt

CONSTANTS MaxSessions,    \* connections served at a time
          MaxConnections, \* bound: connections ever made
          Requests,       \* RTSP requests that arrive
          Frames,         \* media frames that arrive, as they are on the wire
          AudioRequests, ControlRequests, KeySets, Marks, \* what is asked of formats
          MaxBody,        \* bound on the body of a request
          MaxFrames, Budget, \* limits of the mirror queue
          MaxOffered,     \* bound: pictures offered to the track
          MaxHeard,       \* bound: blocks on an audio track, marks of packets
          Rates,          \* sample rates of streams and devices
          Devices,        \* the devices that pair
          MaxPaired,      \* pairings that a stored file may hold
          MaxClock         \* bound: the clock of pairings

ASSUME AirPlayAssumption ==
    /\ {MaxSessions, MaxConnections, MaxFrames, Budget, MaxPaired} \subseteq Nat
    /\ Rates \subseteq Nat
    /\ \A raw \in Frames : raw.declared \in Nat
    /\ None # "200 playing"

VARIABLES topic, receiver, mirror, audio, store, asked

airplayVars == <<topic, receiver, mirror, audio, store, asked>>

Topic == {"receiver", "mirror", "audio", "store", "asked"}

NewReceiver(keying) ==
    [keying |-> keying, next |-> 1, sessions |-> <<>>, answer |-> None,
     (* history: who asked, 0 when nobody did, and who has paired *)
     by |-> 0, proven |-> {}]

NewMirror(kind) ==
    [codec |-> None, pixels |-> None, format |-> 0, tracker |-> None, queue |-> EmptyQueue,
     recovering |-> FALSE, drain |-> TRUE, sink |-> NewSink(kind),
     forwarded |-> 0, dropped |-> 0,
     (* history *)
     offered |-> 0, failed |-> 0, stray |-> 0, lost |-> 0,
     told |-> FALSE, expects |-> None, broken |-> FALSE]

NewStore(capacity) == [capacity |-> capacity, devices |-> <<>>, seed |-> None]

AirPlayTypeOK ==
    /\ topic \in Topic
    /\ receiver.next \in 1..MaxConnections + 1
    /\ DOMAIN receiver.sessions \subseteq 1..receiver.next - 1
    /\ \A id \in DOMAIN receiver.sessions :
          receiver.sessions[id] \in
            [state : {"Unauthenticated", "Authenticated", "Streaming", "Ended"},
             stream : BOOLEAN, port : BOOLEAN]
    /\ Len(mirror.queue.frames) <= MaxFrames /\ mirror.queue.bytes <= Budget
    /\ DOMAIN store.now.devices \subseteq Devices

AirPlayInit ==
    /\ topic \in Topic
    /\ \E keying \in IF topic = "receiver" THEN {"unavailable", "available", "failing"}
                     ELSE {"unavailable"} : receiver = NewReceiver(keying)
    /\ \E kind \in IF topic = "mirror" THEN {"null", "file"} ELSE {"null"} :
          Opens(kind, None, "path") /\ mirror = NewMirror(kind)
    /\ audio = None
    /\ \E capacity \in IF topic = "store" THEN 1..MaxPaired ELSE {MaxPaired} :
          store = [now |-> NewStore(capacity), file |-> None, clock |-> 0]
    /\ asked = [what |-> None, ssrc |-> 0, marks |-> <<>>]

----------------------------------------------------------------------------
(* The receiver and its sessions *)

Active(r) == {id \in DOMAIN r.sessions : r.sessions[id].state # "Ended"}
NewSession == [state |-> "Unauthenticated", stream |-> FALSE, port |-> FALSE]

Opened(sessions, new) ==
    [id \in DOMAIN sessions \cup {new} |-> IF id = new THEN NewSession ELSE sessions[id]]

AcceptConnection ==
    /\ topic = "receiver" /\ receiver.next <= MaxConnections
    /\ receiver' = IF Cardinality(Active(receiver)) >= MaxSessions
                   THEN [receiver EXCEPT !.answer = "busy", !.by = 0]
                   ELSE [receiver EXCEPT !.next = @ + 1, !.answer = "connected", !.by = 0,
                                         !.sessions = Opened(@, receiver.next)]
    /\ UNCHANGED <<topic, mirror, audio, store, asked>>

Disconnect(id) ==
    /\ topic = "receiver"
    /\ receiver' = [receiver EXCEPT !.sessions = Restrict(@, DOMAIN @ \ {id}),
                                    !.answer = None, !.by = 0]
    /\ UNCHANGED <<topic, mirror, audio, store, asked>>

Keyed == receiver.keying # "unavailable"

Answers(id, status) == receiver' = [receiver EXCEPT !.answer = status, !.by = id]
Becomes(id, session, status) ==
    receiver' = [receiver EXCEPT !.sessions[id] = session, !.answer = status, !.by = id]

Info(id, raw) ==
    /\ raw.method \in {"GET", "OPTIONS"} /\ raw.path = "/info"
    /\ Answers(id, IF AdvertisedFeatures(Current) = {} THEN "200" ELSE "200 with features")

PairSetupPin(id, raw) ==
    /\ raw.method = "POST" /\ raw.path = "/pair-setup-pin"
    /\ IF Keyed
       THEN receiver' = [receiver EXCEPT !.sessions[id].state = "Authenticated",
                                         !.answer = "200", !.by = id, !.proven = @ \cup {id}]
       ELSE Answers(id, "200")

FpSetup(id, raw) ==
    /\ raw.method = "POST" /\ raw.path = "/fp-setup"
    /\ Answers(id, IF Keyed THEN "200" ELSE "vendor-gated")

(* Mutant: SETUP asks for keys before it asks who is there. *)
SetupUnproven(id, raw) ==
    /\ raw.method = "SETUP"
    /\ IF receiver.keying = "available"
       THEN Becomes(id, [state |-> "Streaming", stream |-> TRUE, port |-> TRUE], "200")
       ELSE Answers(id, "503")

Setup(id, raw) ==
    /\ raw.method = "SETUP"
    /\ \/ ~Keyed /\ Answers(id, "503")
       \/ Keyed /\ receiver.sessions[id].state # "Authenticated" /\ Answers(id, "401")
       \/ /\ Keyed /\ receiver.sessions[id].state = "Authenticated"
          /\ IF receiver.keying = "available"
             THEN Becomes(id, [state |-> "Streaming", stream |-> TRUE, port |-> TRUE], "200")
             ELSE Answers(id, "vendor-gated")

Play(id, raw) ==
    /\ raw.method \in {"PLAY", "RECORD"}
    /\ Answers(id, IF receiver.sessions[id].state = "Streaming" THEN "200 playing" ELSE "400")

Teardown(id, raw) ==
    /\ raw.method = "TEARDOWN"
    /\ Becomes(id, [state |-> "Ended", stream |-> FALSE, port |-> FALSE], "200")

PairPinStart(id, raw) ==
    raw.method = "POST" /\ raw.path = "/pair-pin-start" /\ Answers(id, "200")

NotFound(id, raw) ==
    /\ raw.method \in {"GET", "OPTIONS"} => raw.path # "/info"
    /\ raw.method = "POST" =>
          raw.path \notin {"/pair-pin-start", "/pair-setup-pin", "/fp-setup"}
    /\ raw.method \notin {"SETUP", "PLAY", "RECORD", "TEARDOWN"}
    /\ Answers(id, "404")

(* A request that does not parse goes no further; one of a session that is  *)
(* gone or has ended is answered without being looked at.                   *)
Handle(id, raw) ==
    /\ topic = "receiver"
    /\ UNCHANGED <<topic, mirror, audio, store, asked>>
    /\ LET verdict == ParseRtsp(raw, MaxBody)
       IN  \/ verdict # "accepted" /\ Answers(id, verdict)
           \/ /\ verdict = "accepted" /\ id \notin DOMAIN receiver.sessions
              /\ Answers(id, "destination-unavailable")
           \/ /\ verdict = "accepted" /\ id \in DOMAIN receiver.sessions \ Active(receiver)
              /\ Answers(id, "400")
           \/ /\ verdict = "accepted" /\ id \in Active(receiver)
              /\ \/ Info(id, raw) \/ PairPinStart(id, raw) \/ PairSetupPin(id, raw)
                 \/ FpSetup(id, raw) \/ Setup(id, raw) \/ Play(id, raw)
                 \/ Teardown(id, raw) \/ NotFound(id, raw)

----------------------------------------------------------------------------
(* The mirror track.  A frame is a record [seq, key, size] and, as history,  *)
(* `told': the caller was told of an error or set a configuration just before *)
(* it.  `expects' is the next frame a decoder behind the sink can show without *)
(* a key frame, None after a write that failed; `broken' that it was handed   *)
(* another without a word to the caller.                                      *)

HandOver(m, frame) ==
    [m EXCEPT !.sink = SinkOnFrame(@, frame),
              !.queue = Popped(@),
              !.broken = @ \/ (m.expects # None /\ frame.seq # m.expects /\ ~frame.key /\ ~frame.told),
              !.expects = frame.seq + 1]

(* flush_queue, when the sink takes the first n frames of the queue and, if *)
(* there are more, fails at the next, which is then in neither.             *)
Flushed(m, n) ==
    LET handed == FoldLeft(HandOver, m, SubSeq(m.queue.frames, 1, n))
    IN  IF n = Len(m.queue.frames) THEN handed
        ELSE [handed EXCEPT !.queue = Popped(@), !.lost = @ + 1, !.expects = None]

Taken(m) == IF m.sink.kind = "file" THEN 0..Len(m.queue.frames) ELSE {Len(m.queue.frames)}
Fails(m, n) == n < Len(m.queue.frames)

(* The caller is told of an error: what follows is his to judge. *)
Reported(m) == [m EXCEPT !.told = TRUE]
Failed(m) == [m EXCEPT !.failed = @ + 1, !.told = TRUE]

(* Results of one picture for the track m: a set, since the sink may fail. *)
Recovered(m) ==
    {IF Fails(m, n) THEN [track |-> Failed(Flushed(m, n)), ok |-> FALSE]
     ELSE [track |-> [Flushed(m, n) EXCEPT !.recovering = FALSE], ok |-> TRUE] : n \in Taken(m)}

(* Mutant: a frame counts as forwarded before the sink has taken it. *)
QueuedCountsFirst(m, frame) ==
    LET q == [m EXCEPT !.queue = Pushed(@, frame), !.told = FALSE, !.forwarded = @ + 1]
    IN  IF ~m.drain THEN {q}
        ELSE {IF Fails(q, n) THEN Failed([Flushed(q, n) EXCEPT !.stray = @ + 1])
              ELSE Flushed(q, n) : n \in Taken(q)}

Queued(m, frame) ==
    LET q == [m EXCEPT !.queue = Pushed(@, frame), !.told = FALSE]
    IN  IF ~m.drain THEN {[q EXCEPT !.forwarded = @ + 1]}
        ELSE {IF Fails(q, n) THEN Failed([Flushed(q, n) EXCEPT !.stray = @ + 1])
              ELSE [Flushed(q, n) EXCEPT !.forwarded = @ + 1] : n \in Taken(q)}

(* Mutant: a frame over the budget is dropped and that is all. *)
OverBudgetGoesOn(m) ==
    {IF Fails(m, n) THEN Failed(Flushed(m, n))
     ELSE [Flushed(m, n) EXCEPT !.dropped = @ + 1] : n \in Taken(m)}

OverBudget(m) ==
    {IF Fails(m, n) THEN Failed(Flushed(m, n))
     ELSE [Flushed(m, n) EXCEPT !.recovering = TRUE, !.dropped = @ + 1] : n \in Taken(m)}

PushOrDrop(m, frame) ==
    IF Fits(m.queue, frame, MaxFrames, Budget) THEN Queued(m, frame) ELSE OverBudget(m)

OnAccessUnit(m, frame) ==
    IF m.pixels = None \/ frame.size > MaxPayload THEN {Failed(m)}
    ELSE IF m.recovering /\ ~frame.key THEN {[m EXCEPT !.dropped = @ + 1]}
    ELSE IF m.recovering
         THEN UNION {IF r.ok THEN PushOrDrop(r.track, frame) ELSE {r.track} : r \in Recovered(m)}
    ELSE PushOrDrop(m, frame)

Mirrors == topic = "mirror" /\ UNCHANGED <<topic, receiver, audio, store, asked>>
Offered(m) == [m EXCEPT !.offered = @ + 1]

(* A picture, from the frame on the wire to the queue. *)
OnPicture(raw) ==
    /\ Mirrors /\ mirror.offered < MaxOffered /\ Decodes(raw) /\ Kind[raw.kind] = "unit"
    /\ mirror' \in OnAccessUnit(Offered(mirror),
                      [seq |-> mirror.offered + 1, key |-> "keyframe" \in raw.flags,
                       size |-> raw.declared, told |-> mirror.told])

(* The other kinds: the config of the stream said again, audio that does not *)
(* belong here, and the end.                                                 *)
OnOtherFrame(raw) ==
    /\ Mirrors /\ Decodes(raw) /\ Kind[raw.kind] # "unit"
    /\ CASE Kind[raw.kind] = "config" ->
              mirror' = IF mirror.codec = None THEN mirror
                        ELSE [mirror EXCEPT !.sink = SinkOnConfig(@, mirror.format, mirror.pixels)]
         [] Kind[raw.kind] = "pcm" -> mirror' = mirror
         [] Kind[raw.kind] = "end" ->
              \E n \in Taken(mirror) :
                 mirror' = IF mirror.pixels = None THEN mirror
                           ELSE IF Fails(mirror, n) THEN Reported(Flushed(mirror, n))
                           ELSE Flushed(mirror, n)

(* A change of format takes effect at the sink before the frames of the one  *)
(* before are flushed.  The sender starts the new picture whole.             *)
Configure(codec, id, pixels, discontinuity) ==
    /\ Mirrors
    /\ codec = "h264" /\ Bounded(pixels)
    /\ LET event == ObserveConfig(mirror.tracker, id, discontinuity)
           changed == [mirror EXCEPT !.tracker = id, !.codec = codec, !.pixels = pixels,
                          !.format = id, !.recovering = FALSE,
                          !.sink = SinkOnConfig(@, id, pixels)]
       IN  /\ event # "Refused"
           /\ \E n \in Taken(changed) : mirror' = Reported(Flushed(changed, n))

(* What the downstream does: it stops taking frames and starts again. *)
SetDrain(drain) ==
    /\ Mirrors /\ mirror.drain # drain
    /\ mirror' = [mirror EXCEPT !.drain = drain]

(* The queue is emptied, and the sink closed: a file may fail at that too. *)
Closes(m) == IF m.sink.kind = "file" THEN BOOLEAN ELSE {TRUE}

Finish ==
    /\ Mirrors
    /\ \E n \in Taken(mirror), closed \in Closes(mirror) :
          mirror' = IF Fails(mirror, n) \/ ~closed THEN Reported(Flushed(mirror, n))
                    ELSE Flushed(mirror, n)

----------------------------------------------------------------------------
(* The audio track: what came and what was played, in samples of all channels. *)

Listens == topic = "audio" /\ UNCHANGED <<topic, receiver, mirror, store, asked>>

NewTrack(sink, source, device, channels) ==
    [sink |-> sink, source |-> source, device |-> device, channels |-> channels,
     blocks |-> 0, in |-> 0, out |-> 0,
     (* history *)
     failed |-> 0]

(* Each connection gets a track of its own. *)
Connect(sink, source, device, channels) ==
    /\ Listens /\ Opens(sink, None, "path")
    /\ Plans(source, device) /\ channels > 0
    /\ audio' = NewTrack(sink, source, device, channels)

(* A block is taken whole or refused; its two-byte samples are resampled     *)
(* block by block.  A block that the sink fails to write is not counted.     *)
OnBlock(raw) ==
    /\ Listens /\ audio # None /\ audio.blocks + audio.failed < MaxHeard
    /\ Decodes(raw) /\ Kind[raw.kind] = "pcm" /\ raw.declared % 2 = 0
    /\ \/ LET n == raw.declared \div 2
           IN  audio' = [audio EXCEPT !.blocks = @ + 1, !.in = @ + n,
                   !.out = @ + SamplesOut(n, audio.channels, audio.source, audio.device)]
       \/ audio.sink = "file" /\ audio' = [audio EXCEPT !.failed = @ + 1]

----------------------------------------------------------------------------
(* The pairings.  The host is to keep the file (to_json): it saves when it   *)
(* likes, and after a restart starts from what it saved last.  No host of    *)
(* the repository does so yet.                                               *)

Stores == topic = "store" /\ UNCHANGED <<topic, receiver, mirror, audio, asked>>
Devs == store.now.devices

Entry(d, key) ==
    [key |-> key, seen |-> store.clock,
     added |-> IF d \in DOMAIN Devs THEN Devs[d].added ELSE store.clock]

Put(d, key, wellFormed) ==
    /\ Stores /\ wellFormed
    /\ d \in DOMAIN Devs \/ Cardinality(DOMAIN Devs) < store.now.capacity
    /\ store' = [store EXCEPT !.now.devices =
                    [e \in DOMAIN @ \cup {d} |-> IF e = d THEN Entry(d, key) ELSE @[e]]]

Forget(d) ==
    /\ Stores
    /\ store' = [store EXCEPT !.now.devices = Restrict(@, DOMAIN @ \ {d})]

Touch(d) ==
    /\ Stores /\ d \in DOMAIN Devs
    /\ store' = [store EXCEPT !.now.devices[d].seen = store.clock]

SetIdentitySeed ==
    /\ Stores /\ store' = [store EXCEPT !.now.seed = "seed"]

Verdict(d) == IF d \in DOMAIN Devs THEN "KnownButUnverified" ELSE "Unknown"
OneTimePairingRequired == DOMAIN Devs = {}

(* to_json and from_json: all the fields, and no more than MaxPaired devices. *)
Save == Stores /\ store' = [store EXCEPT !.file = store.now]

FromJson(file) ==
    IF file = None \/ Cardinality(DOMAIN file.devices) > MaxPaired THEN None ELSE file

Restart ==
    /\ Stores
    /\ store' = [store EXCEPT !.now = IF FromJson(store.file) = None THEN NewStore(MaxPaired)
                                      ELSE FromJson(store.file)]

Later ==
    /\ Stores /\ store.clock < MaxClock
    /\ store' = [store EXCEPT !.clock = @ + 1]

----------------------------------------------------------------------------
(* What is said to requests for formats: the last request and its outcome. *)

Asks(what) ==
    /\ topic = "asked" /\ UNCHANGED <<topic, receiver, mirror, audio, store>>
    /\ asked' = [asked EXCEPT !.what = what]

AskStream(t, hasControlPort) ==
    Asks([kind |-> "stream", type |-> t, response |-> Response(t, hasControlPort)])

AskAudio(keys) ==
    Asks([kind |-> "audio", keys |-> keys, outcome |-> ValidateAudio(keys)])

AskControl(request, raw) ==
    Asks([kind |-> "control", raw |-> raw, outcome |-> CheckShape(request, raw)])

AskPairing(path, keys) ==
    Asks([kind |-> "pairing", outcome |-> CheckPairing(path, keys)])

(* A buffered packet carries a mark; the tracker keeps the last it knows.    *)
OnPacket(mark) ==
    /\ topic = "asked" /\ UNCHANGED <<topic, receiver, mirror, audio, store>>
    /\ Len(asked.marks) < MaxHeard
    /\ asked' = [asked EXCEPT !.ssrc = ObserveSsrc(@, mark), !.marks = Append(@, mark)]

----------------------------------------------------------------------------
AirPlayNext ==
    \/ AcceptConnection
    \/ \E id \in 1..MaxConnections : Disconnect(id)
    \/ \E id \in 1..MaxConnections, raw \in Requests : Handle(id, raw)
    \/ \E raw \in Frames : OnPicture(raw) \/ OnOtherFrame(raw)
    \/ \E codec \in {"h264", "hevc"}, id \in 1..2, pixels \in {1, MaxPixels + 1}, d \in BOOLEAN :
          Configure(codec, id, pixels, d)
    \/ \E drain \in BOOLEAN : SetDrain(drain)
    \/ Finish
    \/ \E sink \in {"null", "file"}, source, device \in Rates, channels \in 0..2 :
          Connect(sink, source, device, channels)
    \/ \E raw \in Frames : OnBlock(raw)
    \/ \E d \in Devices, key \in 1..2, wellFormed \in BOOLEAN : Put(d, key, wellFormed)
    \/ \E d \in Devices : Forget(d) \/ Touch(d)
    \/ SetIdentitySeed \/ Save \/ Restart \/ Later
    \/ \E t \in StreamType, hasControlPort \in BOOLEAN : AskStream(t, hasControlPort)
    \/ \E keys \in AudioRequests : AskAudio(keys)
    \/ \E request \in {"/audioMode", "/feedback"}, raw \in ControlRequests :
          AskControl(request, raw)
    \/ \E path \in PairingPaths, keys \in KeySets : AskPairing(path, keys)
    \/ \E mark \in Marks : OnPacket(mark)

AirPlaySpec == AirPlayInit /\ [][AirPlayNext]_airplayVars

----------------------------------------------------------------------------
(* A port and a stream are held together, by a session that has paired and   *)
(* has not ended, and by no more sessions than are served at a time; PLAY is *)
(* granted only to a session that asks for it and holds them.  session.rs,   *)
(* its rules 1 to 4.                                                         *)
ReservationsAreBounded ==
    LET r == receiver
        Holds(id) == r.sessions[id].port
    IN  /\ AirPlayTypeOK
        /\ \A id \in DOMAIN r.sessions :
              /\ r.sessions[id].stream = Holds(id)
              /\ Holds(id) => id \in r.proven \cap Active(r)
        /\ Cardinality({id \in DOMAIN r.sessions : Holds(id)}) <= MaxSessions
        /\ r.answer = "200 playing" => r.by \in DOMAIN r.sessions /\ Holds(r.by)

(* After a picture was lost, the sink gets no picture that builds on it      *)
(* before a key frame, a new configuration or an error told to the caller,   *)
(* whatever stood in the queue when it was lost.  mirror.rs, on_access_unit. *)
NoFrameAfterGap == ~mirror.broken

(* Every picture offered is forwarded, dropped or refused with an error, and *)
(* one that counts as forwarded is at the sink, in the queue or was lost in  *)
(* a write that was reported.  MirrorStats.                                  *)
FramesAreAccounted ==
    LET m == mirror
    IN  /\ m.offered = m.forwarded + m.dropped + m.failed
        /\ m.forwarded + m.stray = m.sink.frames + Len(m.queue.frames) + m.lost

(* Resampling keeps the duration: over all blocks, what is played is never   *)
(* longer than what came, and shorter by less than two frames a block.       *)
(* ResamplePlan::apply_s16le, AudioTrack::on_block.                          *)
DurationIsKept ==
    audio # None =>
        LET t == audio
            missing == t.in * t.device - t.out * t.source
        IN  /\ missing >= 0
            /\ missing <= t.blocks * ((t.channels - 1) * t.device + t.channels * (t.source - 1))

(* A pairing lasts, with the time it was first made, until it is removed or   *)
(* the host restarts from a file without it; a full store refuses and evicts  *)
(* nobody.  pairstore.rs, put and from_json.                                  *)
PairingsSurvive ==
    [][\A d \in DOMAIN Devs :
          \/ d \in DOMAIN Devs' /\ Devs'[d].added = Devs[d].added
          \/ Forget(d) \/ Restart]_airplayVars

(* What is accepted is exact: a stream is answered with the keys of its type  *)
(* and no other, a control request has all its keys and no other, the two     *)
(* numberings of formats have no number in common, no pairing is done, and    *)
(* the format in force is that of the last mark that names one.               *)
(* audio_profile.rs, audio_control.rs, pairstore.rs.                          *)
FormatsAreExact ==
    /\ asked.what # None =>
          LET w == asked.what
          IN  CASE w.kind = "stream"  -> w.response \in {{}, ResponseKeys(w.type)}
                [] w.kind = "audio"   -> w.outcome = "accepted" =>
                        /\ w.keys["ct"] \in CompressionType
                        /\ SpfMatchesSource(w.keys) => ~DecodableHere(w.keys["ct"])
                [] w.kind = "control" -> w.outcome = "accepted" =>
                        w.raw.keys = AllowedKeys(w.raw.path)
                [] w.kind = "pairing" -> w.outcome # "accepted"
    /\ LET named == {i \in DOMAIN asked.marks : asked.marks[i] \in DOMAIN SsrcProfiles}
       IN  asked.ssrc = IF named = {} THEN 0 ELSE asked.marks[Max(named)]
    /\ asked.ssrc \notin DOMAIN PackedFormats

----------------------------------------------------------------------------
(* What comments and documents say and the code does not do: README section 7 *)

(* A session that holds a stream is streaming: false, since it may pair again. *)
StreamMeansStreaming ==
    \A id \in DOMAIN receiver.sessions :
        receiver.sessions[id].stream => receiver.sessions[id].state = "Streaming"

(* A change of format clears what waits of the one before (mirror.rs:144):     *)
(* false, since it is handed to the sink.                                      *)
OldFramesAreCleared ==
    [][mirror'.tracker # mirror.tracker => mirror'.sink.frames = mirror.sink.frames]_airplayVars
=============================================================================
