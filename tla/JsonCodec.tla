----------------------------- MODULE JsonCodec -----------------------------
(***************************************************************************)
(* The codecs of components/models: what from_json makes of a document     *)
(* that another agent wrote, and what to_json writes.  A document is a     *)
(* JSON value; the text of one is not spelled out.  A std::string is plain *)
(* text, the text of a JSON value, or a run of zeros.  A member of a C++   *)
(* object is a set with at most one element: a std::optional may be empty, *)
(* the other members never are.                                            *)
(*                                                                         *)
(* The first part is ArduinoJson as the code uses it (external).           *)
(***************************************************************************)
EXTENDS Integers, Sequences

CONSTANTS
  Unit,        \* numbers are counted in 1/Unit
  CoarseFrom,  \* from here on a double is written to the nearest whole number
  Int64Max     \* the largest int64_t

ASSUME CodecAssumption ==
  /\ Unit \in Nat \ {0}
  /\ CoarseFrom \in Nat
  /\ Int64Max \in Nat

Null    == <<"null">>
Str(t)  == <<"str", t>>
Num(n)  == <<"num", n>>
Bool(b) == <<"bool", b>>
Arr(s)  == <<"arr", s>>
Obj(f)  == <<"obj", f>>

Plain(s) == <<"plain", s>>   \* text that is not the text of a JSON number
Json(v)  == <<"json", v>>    \* the text of a JSON value
Zeros(n) == <<"zeros", n>>   \* n / Unit characters '0'

Kind(v) == v[1]

\* The values inside an array or an object.
Parts(v) == IF Kind(v) \in {"arr", "obj"} THEN {v[2][i] : i \in DOMAIN v[2]} ELSE {}

\* A value as the parser makes them, as far as its tag goes.  Numbers are not
\* negative here: the documents have sizes, limits and times.
Tagged(v) ==
  \/ v = Null
  \/ /\ v = <<v[1], v[2]>>
     /\ \/ v[1] = "str" /\ (Kind(v[2]) = "json" /\ Kind(v[2][2]) = "num" => v[2][2][2] \in Nat)
        \/ v[1] = "num" /\ v[2] \in Nat
        \/ v[1] = "bool" /\ v[2] \in BOOLEAN
        \/ v[1] \in {"arr", "obj"} /\ v[2] = [i \in DOMAIN v[2] |-> v[2][i]]

Shallow(v) == Tagged(v) /\ \A p \in Parts(v) : Tagged(p)

\* A parsed document, as deep as the codecs look into it.
IsDocument(v) ==
  Tagged(v) /\ \A p \in Parts(v) : Tagged(p) /\ \A q \in Parts(p) : Shallow(q)

\* doc[m] of a document that may not be an object or may lack the member.
Member(doc, m) ==
  IF Kind(doc) = "obj" /\ m \in DOMAIN doc[2] THEN doc[2][m] ELSE Null

\* as<JsonArray>() of anything else has no items.
Items(v) == IF Kind(v) = "arr" THEN v[2] ELSE <<>>

Whole(n) == (n \div Unit) * Unit

\* A double is written with nine decimals of its mantissa: of the seconds
\* since 1970 no fraction is left.  Rounding to whole units is right between
\* 1e7 and 1e10; above that more digits go, and no time or size is that large.
Written(n) == IF n >= CoarseFrom THEN Whole(n + Unit \div 2) ELSE n

PrintedNumber(v) == IF Kind(v) = "num" THEN Num(Written(v[2])) ELSE v

\* serializeJson of a value.  Numbers deeper inside are left as they are.
Printed(v) ==
  IF Kind(v) = "obj" THEN Obj([m \in DOMAIN v[2] |-> PrintedNumber(v[2][m])])
  ELSE PrintedNumber(v)

\* Mutant: every value is serialized, strings with their quotes.
QuotedText(v) == Json(v)

\* as<std::string>(): anything but a string gives its text.
AsText(v) == IF Kind(v) = "str" THEN v[2] ELSE Json(Printed(v))

\* as<double>(): strings are parsed, a flag counts as 0 or 1.
AsNumber(v) ==
  CASE Kind(v) = "num"  -> v[2]
    [] Kind(v) = "bool" -> IF v[2] THEN Unit ELSE 0
    [] Kind(v) = "str"  -> IF Kind(v[2]) = "json" /\ Kind(v[2][2]) = "num"
                           THEN v[2][2][2] ELSE 0
    [] OTHER            -> 0

\* as<int64_t>(): the fraction is dropped, what does not fit is 0.
AsInt64(v) ==
  LET n == AsNumber(v)
  IN  IF n > Int64Max THEN 0 ELSE Whole(n)

\* doc[m] | d: the default also when the member has another type.
Or(v, kind, d) == IF Kind(v) = kind THEN v[2] ELSE d
-----------------------------------------------------------------------------
\* Two records in one, the first one's members first.
Joined(f, g) == [m \in DOMAIN f \cup DOMAIN g |-> IF m \in DOMAIN f THEN f[m] ELSE g[m]]

\* ---- utils.cpp and the members of each model --------------------------------

\* Mutant: the two whitelists are told apart from null by their items only.
StringsByItems(v) == {[i \in DOMAIN Items(v) |-> AsText(Items(v)[i])]}

GetOptStrArray(v) ==
  IF v = Null THEN {} ELSE {[i \in DOMAIN Items(v) |-> AsText(Items(v)[i])]}

\* What from_json reads, per kind of member.
Get(kind, v) ==
  CASE kind = "opt_str"   -> IF v = Null THEN {} ELSE {AsText(v)}
    [] kind = "opt_f64"   -> IF v = Null THEN {} ELSE {AsNumber(v)}
    [] kind = "opt_i64"   -> IF v = Null THEN {} ELSE {AsInt64(v)}
    [] kind = "opt_strs"  -> GetOptStrArray(v)
    [] kind = "str"       -> {Or(v, "str", Plain(""))}
    [] kind = "ack"       -> {Or(v, "str", Plain("ping"))}
    [] kind = "f64"       -> {Or(v, "num", 0)}
    [] kind = "flag"      -> {Or(v, "bool", FALSE)}
    [] kind = "raw"       -> IF v = Null THEN {} ELSE {Printed(v)}
    [] kind = "raws"      -> {[i \in DOMAIN Items(v) |-> Printed(Items(v)[i])]}

\* What to_json writes, per kind of member.
OrNull(member, Value(_)) == IF member = {} THEN Null ELSE Value(CHOOSE x \in member : TRUE)

Put(kind, member) ==
  CASE kind \in {"opt_str", "str", "ack"}     -> OrNull(member, Str)
    [] kind \in {"opt_f64", "f64"}            -> OrNull(member, LAMBDA n : Num(Written(n)))
    [] kind = "opt_i64"                       -> OrNull(member, Num)
    [] kind = "opt_strs" -> OrNull(member, LAMBDA s : Arr([i \in DOMAIN s |-> Str(s[i])]))
    [] kind = "flag"                          -> OrNull(member, Bool)
    [] kind = "raw"                           -> OrNull(member, LAMBDA v : v)
    [] kind = "raws"                          -> OrNull(member, Arr)

\* The members all network messages have.
PingMembers ==
  [dest |-> "opt_str", src |-> "str", isrc |-> "opt_str", timestamp |-> "opt_f64",
   objuuid |-> "opt_str", coluuid |-> "opt_str"]

MessagesRequestMembers ==
  Joined(PingMembers, [limit |-> "opt_i64", network_whitelist |-> "opt_strs",
                       control_whitelist |-> "opt_strs"])

AcknowledgementMembers ==
  Joined(PingMembers, [ack_type |-> "ack", forwarded |-> "opt_str", error |-> "opt_str"])

MessagesResponseMembers == Joined(PingMembers, [messages |-> "raws"])

TraceResponseMembers ==
  Joined(PingMembers, [tckuuid |-> "str", hop_time |-> "f64", network_ticket_type |-> "str"])

TicketMembers ==
  Joined(PingMembers, [tckuuid |-> "str", error |-> "opt_str", create_time |-> "opt_f64",
                       service_time |-> "opt_f64", tracing |-> "flag", form |-> "raw"])

GetConfigMembers ==
  [config |-> "raw", error |-> "opt_str", objuuid |-> "opt_str", coluuid |-> "opt_str"]

BenchmarkMembers ==
  [outbound_size |-> "opt_i64", inbound_size |-> "opt_i64", payload |-> "opt_str",
   error |-> "opt_str", objuuid |-> "opt_str", coluuid |-> "opt_str"]

\* Per type tag the members of the object that carries it.
NetworkTags ==
  {"ping", "messages_request", "messages_response", "acknowledgement",
   "ticket_trace_response", "ticket_request", "ticket_response"}
ControlTags == {"benchmark", "get_config"}
Tags == NetworkTags \cup ControlTags

MembersOf(tag) ==
  CASE tag = "ping"                  -> PingMembers
    [] tag = "messages_request"      -> MessagesRequestMembers
    [] tag = "messages_response"     -> MessagesResponseMembers
    [] tag = "acknowledgement"       -> AcknowledgementMembers
    [] tag = "ticket_trace_response" -> TraceResponseMembers
    [] tag = "get_config"            -> GetConfigMembers
    [] tag = "benchmark"             -> BenchmarkMembers
    [] OTHER                         -> TicketMembers

FromJson(tag, doc) ==
  [m \in DOMAIN MembersOf(tag) |-> Get(MembersOf(tag)[m], Member(doc, m))]

\* Mutant: a member without a value is left out.
ToJsonSparse(tag, object) ==
  Obj(Joined([type |-> Str(Plain(tag))],
      [m \in {k \in DOMAIN object : object[k] /= {}} |-> Put(MembersOf(tag)[m], object[m])]))

ToJson(tag, object) ==
  Obj(Joined([type |-> Str(Plain(tag))],
      [m \in DOMAIN object |-> Put(MembersOf(tag)[m], object[m])]))

\* network_message_type and control_form_type: the tag, or "unknown" when the
\* member is missing, not a string or not one of the known ones.
TypeAmong(tags, doc) ==
  LET named == {t \in tags : Member(doc, "type") = Str(Plain(t))}
  IN  IF named = {} THEN "unknown" ELSE CHOOSE t \in named : TRUE

NetworkMessageType(doc) == TypeAmong(NetworkTags, doc)
ControlFormType(doc) == TypeAmong(ControlTags, doc)

\* set_isrc_json
SetIsrc(doc, isrc) == Obj(Joined([isrc |-> Str(isrc)], doc[2]))
=============================================================================
