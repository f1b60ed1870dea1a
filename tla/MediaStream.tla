---------------------------- MODULE MediaStream ----------------------------
(***************************************************************************)
(* The parts every media path is built from: frames on the data plane, the *)
(* watch over changes of format, the bounded queue, sinks and resampling.  *)
(***************************************************************************)
EXTENDS Integers, Sequences

CONSTANTS None,
          MaxPayload, \* XMD1's bound on a payload
          MaxPixels   \* the bound on a picture

(* A frame on the wire has a header, whose fields may say anything, and the  *)
(* bytes that arrived after it.                                              *)
Kind == <<"unit", "pcm", "config", "end">>
KnownFlags == {"keyframe", "discontinuity", "no-pts"}

Decodes(raw) ==
    /\ raw.version = 1 /\ raw.kind \in DOMAIN Kind
    /\ raw.flags \subseteq KnownFlags
    /\ raw.declared <= MaxPayload
    /\ raw.arrived >= raw.declared

----------------------------------------------------------------------------
(* FormatTracker::observe_config *)
ObserveConfig(current, id, discontinuity) ==
    CASE current = None -> "Initialized"
      [] current = id   -> "Unchanged"
      [] OTHER          -> IF discontinuity THEN "Reset" ELSE "Refused"

(* FrameQueue *)
EmptyQueue == [frames |-> <<>>, bytes |-> 0]

Fits(q, frame, maxFrames, maxBytes) ==
    Len(q.frames) < maxFrames /\ q.bytes + frame.size <= maxBytes

Pushed(q, frame) == [frames |-> Append(q.frames, frame), bytes |-> q.bytes + frame.size]
Popped(q) == [frames |-> Tail(q.frames), bytes |-> q.bytes - Head(q.frames).size]

(* Sinks.  A file may refuse to be written; a sink that only counts cannot. *)
Bounded(pixels) == pixels <= MaxPixels
Opens(kind, pixels, path) ==
    /\ pixels # None => Bounded(pixels)
    /\ kind = "file" => path # None
NewSink(kind) == [kind |-> kind, format |-> None, pixels |-> None, frames |-> 0]

SinkOnConfig(s, id, pixels) ==
    [s EXCEPT !.format = id, !.pixels = IF pixels = None THEN @ ELSE pixels]
SinkOnFrame(s, frame) == [s EXCEPT !.frames = @ + 1]

----------------------------------------------------------------------------
(* ResamplePlan: none for a rate of zero, and the frames made of n frames.  *)
Plans(source, device) == source > 0 /\ device > 0

(* Mutant: a frame too many at every block. *)
FramesOutRoundsUp(n, source, device) ==
    IF source = device THEN n ELSE (n * device + source - 1) \div source

FramesOut(n, source, device) == (n * device) \div source

(* apply_s16le counts samples; what does not fill a frame of all channels   *)
(* is left out.                                                             *)
SamplesOut(samples, channels, source, device) ==
    IF source = device THEN samples
    ELSE channels * FramesOut(samples \div channels, source, device)
=============================================================================
