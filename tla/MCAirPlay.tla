----------------------------- MODULE MCAirPlay -----------------------------
(***************************************************************************)
(* An instance of AirPlay for TLC.                                         *)
(***************************************************************************)
EXTENDS AirPlay

Raw(method, path, lengths, body, head) ==
    [method |-> method, path |-> path, lengths |-> lengths, body |-> body, head |-> head]
Plain(method, path) == Raw(method, path, <<>>, 0, "ok")
Posted(path) == Raw("POST", path, <<1>>, 1, "ok")

(* Every request the receiver knows, and one for each way not to parse. *)
MCRequests ==
    {Plain("GET", "/info"), Plain("OPTIONS", "/info"), Plain("GET", "/other"),
     Plain("SETUP", "/s"), Plain("PLAY", "/s"), Plain("RECORD", "/s"), Plain("TEARDOWN", "/s"),
     Posted("/pair-pin-start"), Posted("/pair-setup-pin"), Posted("/fp-setup"), Posted("/feedback")}
    \cup {Plain("PUT", "/info"), Plain("POST", "/fp-setup"),
          Raw("SETUP", "/s", <<1, 1>>, 1, "ok"), Raw("SETUP", "/s", <<-1>>, 0, "ok"),
          Raw("SETUP", "/s", <<MaxBody + 1>>, 3, "ok"), Raw("SETUP", "/s", <<2>>, 1, "ok"),
          Raw("SETUP", "/s", <<>>, 0, "too-long"), Raw("SETUP", "/s", <<>>, 0, "malformed")}

Wire(kind, flags, declared) ==
    [version |-> 1, kind |-> kind, flags |-> flags, declared |-> declared, arrived |-> declared]

(* Pictures of every size that matters, blocks, and frames that do not decode. *)
MCFrames ==
    {Wire(1, flags, n) : flags \in {{}, {"keyframe"}}, n \in {1, 2, 4}}
    \cup {Wire(2, {}, n) : n \in {1, 2, 6}} \cup {Wire(2, {"no-pts"}, 4)}
    \cup {Wire(3, {}, 0), Wire(4, {}, 0), Wire(9, {}, 1), Wire(1, {"later"}, 1),
          Wire(1, {}, MaxPayload + 1), [Wire(1, {}, 2) EXCEPT !.arrived = 1]}

MCAudioRequests ==
    LET Ask(ct, spf, port) ==
            [k \in {"controlPort", "ct", "spf", "audioFormat"} |->
               CASE k = "ct" -> ct [] k = "spf" -> spf [] k = "controlPort" -> port
                 [] OTHER -> 262144]
    IN  {Ask(ct, spf, port) : ct \in {1, 2, 4, 5, 8}, spf \in {0, 352, 480, 70000},
                              port \in {0, 5002, 65536}}
        \cup {[k \in {"ct", "spf", "audioFormat"} |-> 1]}

MCControlRequests ==
    [method : {"POST", "GET"}, path : {"/audioMode", "/feedback"}, type : {"plist", "json", "none"},
     keys : SUBSET {"mode", "elapsed_ms"}]

MCKeySets == {{}, {"pk"}, {"pk", "signature"}, {"method", "user"}, {"srp_a"}}

MCMarks == {0, 64206, 369098752, 262144}
=============================================================================
