----------------------------- MODULE MCCastLink -----------------------------
(* Cast for model checking: a small link, and bounded inputs for the coding   *)
(* of messages.                                                               *)
EXTENDS CastCoding, FiniteSetsExt

(* Every payload: for each key that is read, every value it may have, one     *)
(* text where any will do; and the keys of a nested object where, and only    *)
(* where, there is one.                                                       *)
Nests(type) ==
  CASE type = "RECEIVER_STATUS" -> [applications : {"list", "entries"}, volume : {"none", "object"}]
    [] type = "MEDIA_STATUS"    -> [media : {"none", "object"}, volume : {"none", "object"}]
    [] type = "SET_VOLUME"      -> [volume : {"object"}]
    [] OTHER                    -> {<<>>}

Results(f, k, nest) ==
  LET all == {f[v] : v \in DOMAIN f}
  IN  IF k \in DOMAIN nest THEN {nest[k]}
      ELSE IF "text" \in all THEN all \ (String \ {"", "text"}) ELSE all

Products(keys, nest) ==
  FoldSet(LAMBDA k, acc : {g @@ (k :> v) : g \in acc, v \in Results(keys[k], k, nest)},
          {<<>>}, DOMAIN keys)

MCPayloads ==
  UNION {UNION {UNION {
    {[namespace |-> ns, type |-> type, keys |-> keys] : keys \in Products(KeysOf(type, nest), nest)}
    : nest \in Nests(type)} : type \in Types[ns]} : ns \in DOMAIN Types}

(* Bodies around a correct one: a field left out, another put anywhere, and a *)
(* third one in front or at the end.                                          *)
Sound == << Field(1, 0), Field(2, "s"), Field(3, "d"), Field(4, "media"), Field(5, 0), Field(6, "t") >>
Extra ==
  << Field(1, 3), Field(1, 4), Field(2, ""), Field(5, 1), Field(5, 2), Field(6, "u"), Field(7, "b"),
     [n |-> 2, wire |-> "varint", v |-> 7], [n |-> 7, wire |-> "fixed", v |-> 7],
     [n |-> 8, wire |-> "varint", v |-> 0], [n |-> 8, wire |-> "varint", v |-> 1],
     [n |-> 9, wire |-> "varint", v |-> 0], [n |-> 9, wire |-> "bytes", v |-> "x"],
     [n |-> 12, wire |-> "bytes", v |-> "x"] >>

Without(body, i) == SubSeq(body, 1, i - 1) \o SubSeq(body, i + 1, Len(body))
Insert(body, at, f) == SubSeq(body, 1, at) \o <<f>> \o SubSeq(body, at + 1, Len(body))

MCBodies ==
  LET Choice == [left : 0..Len(Sound), at : 0..Len(Sound), field : DOMAIN Extra,
                 more : {"none", "front", "end"}, extra : DOMAIN Extra]
      Body(c) ==
        LET once == Insert(Without(Sound, c.left), c.at, Extra[c.field])
        IN  CASE c.more = "none"  -> once
              [] c.more = "front" -> <<Extra[c.extra]>> \o once
              [] c.more = "end"   -> Append(once, Extra[c.extra])
      fits  == {c \in Choice : (c.left # 0 => c.at < Len(Sound)) /\ (c.more = "none" => c.extra = 1)}
  IN  [c \in fits |-> Body(c)]

MCTails == << <<>>, EncodeFrame(Sound), <<0, 0>> >>
=============================================================================
