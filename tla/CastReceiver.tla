---------------------------- MODULE CastReceiver ----------------------------
(* The receiver of a Cast session (proto-cast, receiver.rs): whom it admits,  *)
(* which apps it starts and what it tells about itself, in its status and in  *)
(* the record it is discovered by (discovery.rs).                             *)
EXTENDS Integers, Sequences

(* A running app is known by its id and by the number of the sender it was    *)
(* started under: transport_id and session_id are made of the two.            *)
NoApp == [id |-> "none", sender |-> 0]

(* kind is the gate's: "vendor" admits nobody, "test-root" those who trust it. *)
NewReceiver(kind, apps) ==
  [gate |-> kind, apps |-> apps, trusted |-> FALSE,
   state |-> "Idle", senders |-> 0, app |-> NoApp]

Admits(r) == r.gate = "test-root" /\ r.trusted

NoteSenderTrust(r, hasUs) == [r EXCEPT !.trusted = hasUs]

(* Mutant: a new connection starts from nothing. *)
OnReceiverConnectAnew(r) ==
  IF Admits(r)
  THEN [r EXCEPT !.senders = @ + 1, !.state = "Connected", !.app = NoApp]
  ELSE r

(* A refused connection leaves everything as it was; one that is admitted     *)
(* leaves the app as it was.                                                  *)
OnReceiverConnect(r) ==
  IF Admits(r) THEN [r EXCEPT !.senders = @ + 1, !.state = "Connected"] ELSE r

AnswersPing(r) == r.state \notin {"Idle", "Closed"}
TakesLaunch(r) == r.state \in {"Connected", "Launched"}

OnReceiverLaunch(r, app) ==
  IF TakesLaunch(r) /\ app \in r.apps
  THEN [r EXCEPT !.state = "Launched", !.app = [id |-> app, sender |-> r.senders]]
  ELSE r

OnReceiverClose(r) == [r EXCEPT !.state = "Closed", !.app = NoApp]

StandBy(r) == r.state # "Launched"

-----------------------------------------------------------------------------
(* Adverts: sequences of keys with their texts.  A number is written in       *)
(* decimal; Hex is what a reader of hexadecimal makes of that.                *)
Decimal == [n \in {0, 1, 2, 10} |-> CASE n = 0 -> "0" [] n = 1 -> "1" [] n = 2 -> "2" [] n = 10 -> "10"]
Hex == [t \in {"0", "1", "2", "10"} |-> CASE t = "0" -> 0 [] t = "1" -> 1 [] t = "2" -> 2 [] t = "10" -> 16]

KnownKeys == {"id", "ve", "ca", "st", "fn", "md"}

(* Mutant: busy is what the session's state says. *)
FromStateLaunched(r, id, name) ==
  [id |-> id, fn |-> name, md |-> "model", ve |-> 2, ca |-> 0,
   st |-> IF r.state = "Launched" THEN 1 ELSE 0]

FromState(r, id, name) ==
  [id |-> id, fn |-> name, md |-> "model", ve |-> 2, ca |-> 0,
   st |-> IF r.app # NoApp THEN 1 ELSE 0]

ToTxt(info) ==
  << <<"id", info.id>>, <<"ve", Decimal[info.ve]>>, <<"ca", Decimal[info.ca]>>,
     <<"st", Decimal[info.st]>>, <<"fn", info.fn>>, <<"md", info.md>> >>

Places(txt, key) == {i \in DOMAIN txt : txt[i][1] = key}
LastOf(txt, key) == txt[CHOOSE i \in Places(txt, key) : \A j \in Places(txt, key) : i >= j][2]

IsNumber(text) == \E n \in DOMAIN Decimal : Decimal[n] = text
Number(text) == CHOOSE n \in DOMAIN Decimal : Decimal[n] = text
NumberAt(txt, key, default) == IF Places(txt, key) = {} THEN default ELSE Number(LastOf(txt, key))
TextAt(txt, key, default) == IF Places(txt, key) = {} THEN default ELSE LastOf(txt, key)

(* The receiver's own reading: no key but the known ones, and an id.          *)
ReadsOwn(txt) ==
  /\ \A i \in DOMAIN txt : /\ txt[i][1] \in KnownKeys
                           /\ txt[i][1] \in {"ve", "ca", "st"} => IsNumber(txt[i][2])
                           /\ txt[i][1] = "st" => Number(txt[i][2]) \in {0, 1}
  /\ Places(txt, "id") # {}

FromTxt(txt) ==
  [id |-> LastOf(txt, "id"), fn |-> TextAt(txt, "fn", ""), md |-> TextAt(txt, "md", ""),
   ve |-> NumberAt(txt, "ve", 2), ca |-> NumberAt(txt, "ca", 0), st |-> NumberAt(txt, "st", 0)]

(* The sender's reading: any service whose type begins as this one's, keys in *)
(* capitals or not, the first of each, its text without the blanks around it. *)
(* Unknown keys do not count, and both an id and a name are needed.  A key    *)
(* has two spellings here, and "_room_" stands for a name with blanks.        *)
Services == {"_googlecast._tcp", "_googlecast._tcp.local."}
Capital == [id |-> "ID", ve |-> "VE", ca |-> "CA", st |-> "ST", fn |-> "FN", md |-> "MD"]

InCapitals(txt) == [i \in DOMAIN txt |-> <<Capital[txt[i][1]], txt[i][2]>>]
Trim(text) == IF text = "_room_" THEN "room" ELSE text

Spelled(txt, key) == {i \in DOMAIN txt : txt[i][1] \in {key, Capital[key]}}
FirstOf(txt, key) ==
  Trim(txt[CHOOSE i \in Spelled(txt, key) : \A j \in Spelled(txt, key) : i <= j][2])

Discovers(service, txt) ==
  /\ service \in Services
  /\ \A key \in {"id", "fn"} : Spelled(txt, key) # {} /\ FirstOf(txt, key) # ""
  /\ Spelled(txt, "st") # {} => FirstOf(txt, "st") \in {"0", "1"}
  /\ Spelled(txt, "ca") # {} => FirstOf(txt, "ca") \in DOMAIN Hex

Discovered(txt) ==
  [id |-> FirstOf(txt, "id"), fn |-> FirstOf(txt, "fn"),
   busy |-> Spelled(txt, "st") # {} /\ FirstOf(txt, "st") = "1",
   ca |-> IF Spelled(txt, "ca") = {} THEN 0 ELSE Hex[FirstOf(txt, "ca")]]
=============================================================================
