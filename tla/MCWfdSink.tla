------------------------------- MODULE MCWfdSink -------------------------------
(* Two formats of ours; the source declares one that neither of them fits     *)
(* although each of its parts fits one of them, followed by one that fits.    *)
EXTENDS WfdSink

Format(p, l, r) == [profile |-> p, level |-> l, resolution |-> r]
Codec(c, modes) == [codec |-> c, modes |-> modes]

MCLocalVideo == <<Format({1}, {1}, {1}), Format({2}, {2}, {2})>>
MCLocalAudio == <<Codec("aac", {1, 2}), Codec("lpcm", {1})>>

Split == Format({1}, {2}, {1})
Fitting == Format({1, 2}, {2}, {2, 3})

MCRemoteVideo == {<<>>, <<Split, Fitting>>, <<Split>>}
MCRemoteAudio == {<<Codec("lpcm", {2}), Codec("aac", {2, 3})>>, <<Codec("ac3", {1})>>}
=============================================================================
