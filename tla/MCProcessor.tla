---------------------------- MODULE MCProcessor ----------------------------
(***************************************************************************)
(* Small instances of Processor.  Sizes are scaled down: size_t has 4 bits *)
(* (so 17 wraps to 1 and -1 to 15), the heap holds 10 and the JSON library *)
(* stores 5.                                                               *)
(***************************************************************************)
EXTENDS Processor

MCAgents == {"none", "default", "dev", "alice", "bob"}
MCKeys   == {"none", "default", "k"}
MCUrls   == {"", "peer"}
MCFormSizes == {17, -1, 7}

Settings(a, k, u, p) == [agtuuid |-> a, key |-> k, peerUrl |-> u, polling |-> p]

MCUnsetClient   == [url |-> "", agtuuid |-> "none", key |-> "none"]
MCDefaultConfig == Settings("default", "default", "", FALSE)
MCWorking       == Settings("dev", "k", "peer", TRUE)
MCRenamed       == Settings("default", "k", "peer", TRUE)
MCWrongKey      == Settings("dev", "default", "peer", TRUE)
MCPaused        == Settings("dev", "k", "peer", FALSE)

MCRename == {MCRenamed}
MCRepair == {MCWorking, MCPaused}

FormOf(t, sizes) ==
  [type |-> t, inbound_size |-> sizes, config |-> {}, payload |-> {}]

Ticket(id, from, traced, f) ==
  [type |-> "ticket_request", objuuid |-> id, src |-> from, tckuuid |-> id,
   tracing |-> traced, form |-> f]

Other(t, id, from) ==
  [type |-> t, objuuid |-> id, src |-> from, tckuuid |-> 0, tracing |-> FALSE,
   form |-> NoForm]

TracedGetConfig == Ticket(1, "alice", TRUE, FormOf("get_config", {}))
WrapBenchmark   == Ticket(3, "alice", FALSE, FormOf("benchmark", {17}))
HugeBenchmark   == Ticket(4, "bob", FALSE, FormOf("benchmark", {-1}))
LongBenchmark   == Ticket(5, "bob", FALSE, FormOf("benchmark", {7}))
APing           == Other("ping", 9, "bob")
AnAck           == Other("acknowledgement", 10, "alice")
Unroutable      == Other("unknown", 11, "alice")

\* What a peer that ignores limit and whitelists may send together: a traced
\* ticket that reads the store, the boundaries of the benchmark form, and a
\* message of no known type.
MCUnlimited == {TracedGetConfig, WrapBenchmark, HugeBenchmark, Unroutable}
\* Messages for the liveness run: two that are answered, and one that is
\* permitted and ignored, of which the peer has no end.
MCLive      == {LongBenchmark, APing, AnAck}
=============================================================================
