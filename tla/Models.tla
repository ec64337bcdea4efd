------------------------------- MODULE Models -------------------------------
(***************************************************************************)
(* The messages, control forms and configurations the firmware exchanges,  *)
(* at the grain the processor tells them apart                             *)
(* (components/models/).  JSON documents are records: a field the code     *)
(* reads is a field of the record, the raw form inside a ticket is a       *)
(* record of its own.  A std::optional is a set with at most one element.  *)
(***************************************************************************)
EXTENDS Integers, Sequences

CONSTANTS
  Agents,         \* agent identifiers (agtuuid)
  Keys,           \* 32-byte AES keys
  Urls,           \* peer URLs
  FormSizes,      \* inbound_size values of the benchmark forms in play
  SizeWidth,      \* bits of size_t on the target (32 on the ESP32)
  HeapLimit,      \* longest payload that the heap can hold
  JsonStringMax   \* longest string the JSON library stores in a document

ASSUME ModelsAssumption ==
  /\ FormSizes \subseteq Int
  /\ SizeWidth \in Nat
  /\ 2 ^ SizeWidth \in Nat \ {0}
  /\ HeapLimit \in Nat
  /\ JsonStringMax \in Nat

\* The part of a Config the processor works with: the other three fields
\* (wifiSSID, wifiPassword, debug) do not change what it does.
ConfigSet == [agtuuid : Agents, key : Keys, peerUrl : Urls, polling : BOOLEAN]

\* "none" is the form of a ticket whose "form" is null (an empty form_json).
FormTypes == {"get_config", "benchmark", "other", "none"}

Forms == [type : FormTypes, inbound_size : SUBSET FormSizes,
          config : SUBSET ConfigSet, payload : SUBSET Nat]

NoForm == [type |-> "none", inbound_size |-> {}, config |-> {}, payload |-> {}]

\* NetworkMessageType; "unknown" stands for every unrecognised tag.
NetworkMessageTypes ==
  {"ping", "messages_request", "messages_response", "acknowledgement",
   "ticket_trace_response", "ticket_request", "ticket_response", "unknown"}

\* A message the peer holds for this agent.
NetworkMessages ==
  [type : NetworkMessageTypes, objuuid : Nat, src : Agents, tckuuid : Nat,
   tracing : BOOLEAN, form : Forms]

\* Mutant: the size is taken as it comes.
UncutSize(n) == n

\* int64_t to size_t: the low SizeWidth bits.
SizeT(n) == n % (2 ^ SizeWidth)

\* Benchmark::to_json: the JSON library leaves the member null when it
\* cannot store the string.
StoredPayload(len) == IF len <= JsonStringMax THEN {len} ELSE {}

\* std::string(*form.inbound_size, '0'), then to_json.
BenchmarkPayload(f) == UNION {StoredPayload(SizeT(n)) : n \in f.inbound_size}

\* The allocation of the payload fails; nothing catches the exception.
PayloadTooLarge(f) ==
  /\ f.type = "benchmark"
  /\ \E n \in f.inbound_size : SizeT(n) > HeapLimit

\* process_control_form: what the form can come back as, when a load of the
\* configuration may return any member of Loads.
ProcessedForms(f, Loads) ==
  CASE f.type = "get_config" -> {[f EXCEPT !.config = {c}] : c \in Loads}
    [] f.type = "benchmark"  -> {[f EXCEPT !.payload = BenchmarkPayload(f)]}
    [] OTHER                 -> {f}
=============================================================================
