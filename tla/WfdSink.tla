-------------------------------- MODULE WfdSink --------------------------------
(* The sink of a Wi-Fi Display session (proto-wfd, session.rs, negotiate.rs): *)
(* the RTSP messages M1 to M16 between a source and this sink, the choice of  *)
(* a stream format, keep-alives and the time limit, and the packets counted   *)
(* by RtpAccount.  Requests and answers of the source come at any moment; a   *)
(* request whose CSeq is not a new one changes nothing.  An answer is matched *)
(* by CSeq to the request it answers, so pending only counts the requests of  *)
(* each kind.  Clock readings are ages.  Left out: the presentation URL, the  *)
(* ports and the transport, of which only the refusals are kept.              *)
EXTENDS RtpAccount, Sequences

CONSTANTS LocalVideo, LocalAudio,    \* what the sink can receive, in order
          RemoteVideo, RemoteAudio,  \* the lists a source may declare
          KeepaliveInterval, SessionTimeout,
          MaxPending                 \* bound on requests without an answer

ASSUME WfdAssumption == {KeepaliveInterval, SessionTimeout, MaxPending} \subseteq Nat

VARIABLES state, m1_answered, m2_sent,
          pending,             \* requests without an answer, by kind
          session_id,
          negotiated,          \* the stream chosen from the latest accepted M4
          declared,            \* the lists of that M4
          suppress_keepalive,
          heardAge,            \* since last_inbound_ms
          playingAge,          \* since playing_since_ms
          keepaliveAge         \* since last_keepalive_sent_ms

options == <<m1_answered, m2_sent>>
stream == <<negotiated, declared>>
beats == <<playingAge, keepaliveAge>>
vars == <<state, options, pending, session_id, stream, suppress_keepalive,
          heardAge, beats, account>>

-----------------------------------------------------------------------------
SinkState == {"Idle", "Options", "ParamsAnswered", "ParamsSet", "SetupTriggered",
              "SetupCreated", "Playing", "Ended"}
SinkMessage == {"M2", "M6", "M7", "M8", "M13", "M16"}

TypeOK ==
  /\ AccountTypeOK
  /\ state \in SinkState
  /\ m1_answered \in BOOLEAN /\ m2_sent \in BOOLEAN
  /\ pending \in [SinkMessage -> Nat]
  /\ session_id \in {"none", "known"}
  /\ suppress_keepalive \in BOOLEAN
  /\ heardAge \in Never..(SessionTimeout + 1)
  /\ playingAge \in Never..KeepaliveInterval
  /\ keepaliveAge \in Never..KeepaliveInterval

Init ==
  /\ AccountInit
  /\ state = "Idle"
  /\ m1_answered = FALSE /\ m2_sent = FALSE
  /\ pending = [m \in SinkMessage |-> 0]
  /\ session_id = "none"
  /\ negotiated = [video |-> None, audio |-> None]
  /\ declared = [video |-> <<>>, audio |-> <<>>]
  /\ suppress_keepalive = FALSE
  /\ heardAge = Never /\ playingAge = Never /\ keepaliveAge = Never

-----------------------------------------------------------------------------
(* The choice of a format: the first one the source declares that fits.       *)
IsFirst(i, S) == i \in S /\ \A j \in S : i =< j

Common(a, b) == a \cap b # {}

FitsVideo(ours, format) ==
  /\ Common(ours.profile, format.profile)
  /\ Common(ours.level, format.level)
  /\ Common(ours.resolution, format.resolution)

FitsAudio(ours, codec) == ours.codec = codec.codec /\ Common(ours.modes, codec.modes)

(* Mutant: profile, level and resolution may each come from a different one   *)
(* of our formats.                                                            *)
UsableVideoPiecewise(formats) ==
  {i \in DOMAIN formats :
     /\ \E k \in DOMAIN LocalVideo : Common(LocalVideo[k].profile, formats[i].profile)
     /\ \E k \in DOMAIN LocalVideo : Common(LocalVideo[k].level, formats[i].level)
     /\ \E k \in DOMAIN LocalVideo : Common(LocalVideo[k].resolution, formats[i].resolution)}

UsableVideo(formats) ==
  {i \in DOMAIN formats : \E k \in DOMAIN LocalVideo : FitsVideo(LocalVideo[k], formats[i])}

OurCodec(codec) == {k \in DOMAIN LocalAudio : FitsAudio(LocalAudio[k], codec)}

UsableAudio(codecs) == {i \in DOMAIN codecs : OurCodec(codecs[i]) # {}}

ChosenAudio(codec, k) ==
  [codec |-> codec.codec, modes |-> LocalAudio[k].modes \cap codec.modes]

-----------------------------------------------------------------------------
(* Requests of the source with a new CSeq: from then on they count as heard,  *)
(* also where they are refused.                                               *)
Heard ==
  /\ state # "Ended"
  /\ heardAge' = 0
  /\ UNCHANGED <<pending, session_id, beats, account>>

OnOptions ==
  /\ Heard
  /\ ~m1_answered
  /\ m1_answered' = TRUE
  /\ state' = IF state = "Idle" THEN "Options" ELSE state
  /\ UNCHANGED <<m2_sent, stream, suppress_keepalive>>

(* M3 is answered in every state, and takes the session back to the point     *)
(* where a stream is chosen.                                                  *)
OnGetParameter ==
  /\ Heard
  /\ m1_answered \/ m2_sent
  /\ state' = "ParamsAnswered"
  /\ UNCHANGED <<options, stream, suppress_keepalive>>

(* M4: the ports it declares are noted before the stream is chosen or refused.*)
OnSetParameter(video, audio, ports, protected) ==
  /\ Heard
  /\ state = "ParamsAnswered"
  /\ suppress_keepalive' = IF ports = "none" THEN suppress_keepalive
                           ELSE ports = "without_rtcp"
  /\ \/ /\ protected \/ UsableVideo(video) = {} \/ UsableAudio(audio) = {}
        /\ UNCHANGED <<state, stream>>
     \/ /\ ~protected
        /\ \E i \in UsableVideo(video), j \in UsableAudio(audio), k \in DOMAIN LocalAudio :
             /\ IsFirst(i, UsableVideo(video)) /\ IsFirst(j, UsableAudio(audio))
             /\ IsFirst(k, OurCodec(audio[j]))
             /\ negotiated' = [video |-> video[i], audio |-> ChosenAudio(audio[j], k)]
        /\ declared' = [video |-> video, audio |-> audio]
        /\ state' = "ParamsSet"
  /\ UNCHANGED options

OnTriggerSetup ==
  /\ Heard
  /\ state = "ParamsSet"
  /\ state' = "SetupTriggered"
  /\ UNCHANGED <<options, stream, suppress_keepalive>>

OnKeepAlive ==
  /\ Heard
  /\ session_id = "known"
  /\ UNCHANGED <<state, options, stream, suppress_keepalive>>

(* A request that is malformed or not allowed at this point.                  *)
OnRefused == Heard /\ UNCHANGED <<state, options, stream, suppress_keepalive>>

-----------------------------------------------------------------------------
(* Answers of the source, in any order and in any state, the last included.   *)
(* They do not count as heard.                                                *)
Answered(m) ==
  /\ pending[m] > 0
  /\ pending' = [pending EXCEPT ![m] = @ - 1]
  /\ UNCHANGED <<options, stream, suppress_keepalive, heardAge, keepaliveAge, account>>

OnFailure ==
  /\ \E m \in SinkMessage : Answered(m)
  /\ state' = "Ended"
  /\ UNCHANGED <<session_id, playingAge>>

(* With or without the method set of Wi-Fi Display.                           *)
OnOptionsAnswer ==
  /\ Answered("M2")
  /\ state' \in {state, IF state = "Options" THEN "ParamsAnswered" ELSE state}
  /\ UNCHANGED <<session_id, playingAge>>

(* Without a session identifier nothing changes; with one, a transport that   *)
(* cannot be read leaves the state.                                           *)
OnSetupAnswer ==
  /\ Answered("M6")
  /\ \/ UNCHANGED <<session_id, state>>
     \/ session_id' = "known" /\ state' \in {state, "SetupCreated"}
  /\ UNCHANGED playingAge

OnPlayAnswer ==
  /\ Answered("M7")
  /\ state' = "Playing"
  /\ playingAge' = 0
  /\ UNCHANGED session_id

OnTeardownAnswer ==
  /\ Answered("M8")
  /\ state' = "Ended"
  /\ UNCHANGED <<session_id, playingAge>>

(* Answers to M13 and M16 are taken off the list and reported as an error.    *)
OnUnregisteredAnswer ==
  /\ Answered("M13") \/ Answered("M16")
  /\ UNCHANGED <<state, session_id, playingAge>>

-----------------------------------------------------------------------------
(* Requests of the sink.                                                      *)
NumPending ==
  pending["M2"] + pending["M6"] + pending["M7"] + pending["M8"] + pending["M13"] + pending["M16"]

Send(m) ==
  /\ NumPending < MaxPending
  /\ pending' = [pending EXCEPT ![m] = @ + 1]

Request(m) ==
  /\ Send(m)
  /\ UNCHANGED <<session_id, stream, suppress_keepalive, heardAge, playingAge, account>>

Options ==
  /\ state # "Ended" /\ ~m2_sent
  /\ Request("M2")
  /\ m2_sent' = TRUE
  /\ state' = IF state = "Idle" THEN "Options" ELSE state
  /\ UNCHANGED <<m1_answered, keepaliveAge>>

Setup ==
  /\ state = "SetupTriggered"
  /\ Request("M6")
  /\ UNCHANGED <<state, options, keepaliveAge>>

Play ==
  /\ state = "SetupCreated" /\ session_id = "known"
  /\ Request("M7")
  /\ UNCHANGED <<state, options, keepaliveAge>>

Teardown ==
  /\ state # "Ended"
  /\ Request("M8")
  /\ UNCHANGED <<state, options, keepaliveAge>>

RequestKeyframe ==
  /\ state = "Playing"
  /\ Request("M13")
  /\ UNCHANGED <<state, options, keepaliveAge>>

KeepaliveDue ==
  /\ state = "Playing" /\ ~suppress_keepalive
  /\ (IF keepaliveAge # Never THEN keepaliveAge ELSE playingAge) >= KeepaliveInterval
  /\ Request("M16")
  /\ keepaliveAge' = 0
  /\ UNCHANGED <<state, options>>

(* Mutant: the session waits for the answer to a keep-alive. *)
TickUnlessWaiting ==
  /\ state = "Playing" /\ heardAge > SessionTimeout
  /\ pending["M16"] = 0
  /\ state' = "Ended"
  /\ UNCHANGED <<options, pending, session_id, stream, suppress_keepalive,
                 heardAge, beats, account>>

Tick ==
  /\ state = "Playing" /\ heardAge > SessionTimeout
  /\ state' = "Ended"
  /\ UNCHANGED <<options, pending, session_id, stream, suppress_keepalive,
                 heardAge, beats, account>>

OnRtp ==
  /\ state = "Playing"
  /\ OnPacket
  /\ IF Asked THEN Send("M13") ELSE UNCHANGED pending
  /\ UNCHANGED <<state, options, session_id, stream, suppress_keepalive, heardAge, beats>>

-----------------------------------------------------------------------------
Older(age, cap) == IF age \in {Never, cap} THEN age ELSE age + 1

(* Time passes. *)
Wait ==
  /\ heardAge' = Older(heardAge, SessionTimeout + 1)
  /\ playingAge' = Older(playingAge, KeepaliveInterval)
  /\ keepaliveAge' = Older(keepaliveAge, KeepaliveInterval)
  /\ askAge' = Older(askAge, Debounce)
  /\ UNCHANGED <<state, options, pending, session_id, stream, suppress_keepalive,
                 known, expected, lost, unasked, highest, skipped>>

Next ==
  \/ OnOptions \/ OnGetParameter
  \/ \E video \in RemoteVideo, audio \in RemoteAudio,
        ports \in {"none", "valid", "without_rtcp"}, protected \in BOOLEAN :
       OnSetParameter(video, audio, ports, protected)
  \/ OnTriggerSetup \/ OnKeepAlive \/ OnRefused
  \/ OnFailure \/ OnOptionsAnswer \/ OnSetupAnswer \/ OnPlayAnswer
  \/ OnTeardownAnswer \/ OnUnregisteredAnswer
  \/ Options \/ Setup \/ Play \/ Teardown \/ RequestKeyframe
  \/ KeepaliveDue \/ Tick \/ OnRtp \/ Wait

Spec == Init /\ [][Next]_vars

(* The caller keeps calling tick, and time passes.                            *)
FairSpec == Spec /\ WF_vars(Tick) /\ WF_vars(Wait)

-----------------------------------------------------------------------------
(* F-17 to F-21: from the choice of a stream on, the session has one that the *)
(* source declared and a single one of our formats can receive, with audio    *)
(* modes that both have; and nothing plays without a session of the source.   *)
PlaysWhatBothDeclared ==
  /\ state \in {"ParamsSet", "SetupTriggered", "SetupCreated", "Playing"} =>
       /\ \E i \in DOMAIN declared.video, k \in DOMAIN LocalVideo :
            negotiated.video = declared.video[i] /\ FitsVideo(LocalVideo[k], negotiated.video)
       /\ \E j \in DOMAIN declared.audio, k \in DOMAIN LocalAudio :
            /\ FitsAudio(LocalAudio[k], declared.audio[j])
            /\ negotiated.audio = ChosenAudio(declared.audio[j], k)
  /\ state \in {"SetupCreated", "Playing"} => session_id = "known"

(* F-27: a session does not play on for ever while nothing is heard of its    *)
(* source.                                                                    *)
SilentSourceEnds == []<>(state # "Playing" \/ heardAge = 0)

-----------------------------------------------------------------------------
(* What comments and documents say and the code does not do: README section 7 *)
(* tells why each of these does not hold.                                     *)

(* on_request: a session that ended stays ended.                              *)
EndedIsFinal == [][state = "Ended" => state' = "Ended"]_vars
=============================================================================
