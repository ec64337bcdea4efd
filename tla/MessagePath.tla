---------------------------- MODULE MessagePath ----------------------------
(***************************************************************************)
(* The way of a document through the agent, codec by codec: out of the     *)
(* answer to a poll, apart into a ticket and its form, together again into *)
(* the reply (main/processor.cpp).  Processor has the order, the failures  *)
(* and the settings of this work; here it is what happens to the members   *)
(* of documents that another implementation wrote, with members missing or *)
(* of another type.  A document may also pass an agent that only takes it  *)
(* apart and writes it again, as the peers do with every message.          *)
(***************************************************************************)
EXTENDS JsonCodec

CONSTANTS
  Received,  \* per type tag, the documents that may arrive under it
  Agent,     \* agtuuid of this agent, as text
  ConfigDoc, \* Config().to_json() as a JSON value
  Now,       \* what get_current_time() says
  MaxHops    \* bound: how often a document is written again

ASSUME PathAssumption ==
  /\ DOMAIN Received \subseteq Tags
  /\ \A t \in DOMAIN Received : \A doc \in Received[t] : IsDocument(doc)
  /\ Now \in Nat
  /\ MaxHops \in Nat

VARIABLES
  at,      \* where the document is
  tag,     \* the codec it is read with
  origin,  \* the document as it arrived (history)
  wire,    \* the document now
  inbox,   \* message_jsons of the answer to a poll
  ticket,  \* the ticket in hand, {} or one
  sent,    \* what this agent posted, in order
  hops     \* how often the document was written again

pathVars == <<at, tag, origin, wire, inbox, ticket, sent, hops>>

PathInit ==
  /\ tag \in DOMAIN Received
  /\ origin \in Received[tag]
  /\ at = "wire" /\ wire = origin
  /\ inbox = <<>> /\ ticket = {} /\ sent = <<>> /\ hops = 0

The(member) == CHOOSE x \in member : TRUE

Post(doc) == SetIsrc(doc, Agent)

\* An agent with this code reads the document and writes it.
Relay ==
  /\ at = "wire" /\ hops < MaxHops
  /\ wire' = ToJson(tag, FromJson(tag, wire))
  /\ hops' = hops + 1
  /\ UNCHANGED <<at, tag, origin, inbox, ticket, sent>>

\* The peer puts the document in its answer to a poll.
AnswerPoll ==
  /\ at = "wire" /\ hops = 0
  /\ LET answer == Obj([type     |-> Str(Plain("messages_response")),
                       messages |-> Arr(<<wire>>)])
     IN  inbox' = The(FromJson("messages_response", answer).messages)
  /\ at' = "batch"
  /\ UNCHANGED <<tag, origin, wire, ticket, sent, hops>>

Blank(t) == FromJson(t, Obj(<<>>))

\* Mutant: the trace names the object, not the ticket.
TraceByObject(t, type) ==
  [Blank("ticket_trace_response") EXCEPT
     !.tckuuid = t.objuuid, !.network_ticket_type = {Plain(type)}, !.hop_time = {Now},
     !.src = {Agent}, !.dest = t.src]

TraceResponse(t, type) ==
  [Blank("ticket_trace_response") EXCEPT
     !.tckuuid = t.tckuuid, !.network_ticket_type = {Plain(type)}, !.hop_time = {Now},
     !.src = {Agent}, !.dest = t.src]

TraceOf(t, type) ==
  IF t.tracing = {TRUE}
  THEN <<Post(ToJson("ticket_trace_response", TraceResponse(t, type)))>>
  ELSE <<>>

TakeTicket ==
  /\ at = "batch" /\ NetworkMessageType(Head(inbox)) = "ticket_request"
  /\ LET t == FromJson("ticket_request", Head(inbox))
     IN  /\ ticket' = {t}
         /\ sent' = sent \o TraceOf(t, "ticket_request")
  /\ inbox' = Tail(inbox) /\ at' = "ticket"
  /\ UNCHANGED <<tag, origin, wire, hops>>

TakePing ==
  /\ at = "batch" /\ NetworkMessageType(Head(inbox)) = "ping"
  /\ LET ping == FromJson("ping", Head(inbox))
         ack  == [Blank("acknowledgement") EXCEPT
                    !.src = {Agent}, !.dest = ping.src, !.timestamp = {Now}]
     IN  sent' = Append(sent, Post(ToJson("acknowledgement", ack)))
  /\ inbox' = Tail(inbox) /\ at' = "done"
  /\ UNCHANGED <<tag, origin, wire, ticket, hops>>

Ignore ==
  /\ at = "batch" /\ NetworkMessageType(Head(inbox)) \notin {"ticket_request", "ping"}
  /\ inbox' = Tail(inbox) /\ at' = "done"
  /\ UNCHANGED <<tag, origin, wire, ticket, sent, hops>>

GetConfigDone(form) ==
  ToJson("get_config", [FromJson("get_config", form) EXCEPT !.config = {ConfigDoc}])

BenchmarkDone(form) ==
  LET f == FromJson("benchmark", form)
  IN  ToJson("benchmark", [f EXCEPT !.payload = {Zeros(n) : n \in f.inbound_size}])

\* Mutant: the error that is prepared for the log is sent back.
UnknownRefused(form) ==
  IF Kind(form) = "obj"
  THEN Obj(Joined([error |-> Str(Plain("Unknown control form type"))], form[2]))
  ELSE form

UnknownEchoed(form) == form

\* form is what form_json holds; an empty form_json has no type and stays.
ProcessControlForm(form) ==
  CASE ControlFormType(form) = "get_config" -> GetConfigDone(form)
    [] ControlFormType(form) = "benchmark"  -> BenchmarkDone(form)
    [] OTHER                                -> UnknownEchoed(form)

ProcessForm ==
  /\ at = "ticket"
  /\ \E t \in ticket :
       /\ ticket' = {[t EXCEPT !.form = {ProcessControlForm(f) : f \in t.form}]}
       /\ sent' = sent \o TraceOf(t, "ticket_response")
  /\ at' = "worked"
  /\ UNCHANGED <<tag, origin, wire, inbox, hops>>

Reply(t) == [t EXCEPT !.dest = t.src, !.src = {Agent}]

Respond ==
  /\ at = "worked"
  /\ \E t \in ticket : sent' = Append(sent, Post(ToJson("ticket_response", Reply(t))))
  /\ ticket' = {} /\ at' = "done"
  /\ UNCHANGED <<tag, origin, wire, inbox, hops>>

PathNext ==
  \/ Relay \/ AnswerPoll
  \/ TakeTicket \/ TakePing \/ Ignore
  \/ ProcessForm \/ Respond

PathSpec == PathInit /\ [][PathNext]_pathVars
-----------------------------------------------------------------------------
\* ---- what the codecs promise ------------------------------------------------

\* The JSON types the other implementations write for a kind of member.
Fits(kind, v) ==
  LET k == Kind(v)
      whole(n) == n = Whole(n) /\ n <= Int64Max
  IN  CASE kind = "opt_str"           -> k \in {"null", "str"}
        [] kind \in {"str", "ack"}    -> k = "str"
        [] kind = "opt_f64"           -> k \in {"null", "num"}
        [] kind = "f64"               -> k = "num"
        [] kind = "opt_i64"           -> k = "null" \/ (k = "num" /\ whole(v[2]))
        [] kind = "flag"              -> k = "bool"
        [] kind = "opt_strs"          -> \/ k = "null"
                                         \/ /\ k = "arr"
                                            /\ \A i \in DOMAIN v[2] : Kind(v[2][i]) = "str"
        [] kind = "raws"              -> k = "arr"
        [] kind = "raw"               -> TRUE

\* All members are there, each of its type, and nothing else.
Conforms(t, doc) ==
  /\ Kind(doc) = "obj"
  /\ DOMAIN doc[2] = {"type"} \cup DOMAIN MembersOf(t)
  /\ doc[2].type = Str(Plain(t))
  /\ \A m \in DOMAIN MembersOf(t) : Fits(MembersOf(t)[m], doc[2][m])

Sent(t) == {sent[i] : i \in {j \in DOMAIN sent : NetworkMessageType(sent[j]) = t}}

Completed == {"ticket_trace_response", "ticket_response", "acknowledgement"}

\* network.hpp:5, "All optional fields serialise as JSON null": whatever
\* arrived, with members missing or of another type, what this code writes has
\* every member of its model with its type (the forms in it too, when they are
\* of a known type), names the agent as isrc and keeps its type tag.
WrittenConforms ==
  /\ hops > 0 => Conforms(tag, wire)
  /\ \A i \in DOMAIN sent :
       /\ \E t \in Completed : Conforms(t, sent[i])
       /\ Member(sent[i], "isrc") = Str(Agent)
  /\ \A reply \in Sent("ticket_response") :
       LET form == Member(reply, "form")
       IN  ControlFormType(form) \in ControlTags => Conforms(ControlFormType(form), form)

\* A document that was written once by this code is not changed by the next
\* agent that reads and writes it: texts do not gather quotes, numbers do not
\* drift, null does not become empty.
RelayStable == [][Relay /\ hops > 0 => wire' = wire]_pathVars

\* What is left of a member that fits after it is written: the fraction of a
\* large number is gone, nothing else.
Kept(kind, v) ==
  IF kind = "raws" THEN Arr([i \in DOMAIN v[2] |-> Printed(v[2][i])]) ELSE Printed(v)

\* No member that arrives with its own type is lost or changed on the way
\* through from_json and to_json, whatever the members beside it are.
RelayKeeps ==
  hops > 0 =>
    \A m \in DOMAIN MembersOf(tag) :
      LET v == Member(origin, m)
          kind == MembersOf(tag)[m]
      IN  Fits(kind, v) => Member(wire, m) = Kept(kind, v)

\* The reply to a ticket still is that ticket: every member of the request that
\* the agent has no business with comes back as it came, in the ticket and in a
\* form of known type; a form of no known type comes back whole
\* (processor.cpp:47, "Echo back unrecognized forms").
Untouched(t) ==
  DOMAIN MembersOf(t) \ {"dest", "src", "isrc", "form", "config", "payload"}

KeptMembers(t, request, reply) ==
  \A m \in Untouched(t) :
    LET v == Member(request, m)
        kind == MembersOf(t)[m]
    IN  Fits(kind, v) => Member(reply, m) = Kept(kind, v)

ReplyKeepsRequest ==
  \A reply \in Sent("ticket_response") :
    LET asked    == Member(origin, "form")
        answered == Member(reply, "form")
    IN  /\ KeptMembers("ticket_request", origin, reply)
        /\ ControlFormType(answered) = ControlFormType(asked)
        /\ ControlFormType(asked) \in ControlTags =>
             KeptMembers(ControlFormType(asked), asked, answered)
        /\ ControlFormType(asked) = "unknown" => answered = Kept("raw", asked)

\* Every ticket with a sender that can be read is answered to that sender, and
\* so is every ping; when tracing was asked for with a flag, two traces name the
\* same ticket and the same sender.
Addressed ==
  at = "done" /\ Kind(Member(origin, "src")) = "str" =>
    LET type == NetworkMessageType(origin)
        to(doc) == Member(doc, "dest") = Member(origin, "src")
        traces == {i \in DOMAIN sent : NetworkMessageType(sent[i]) = "ticket_trace_response"}
    IN  /\ \A i \in DOMAIN sent : to(sent[i])
        /\ type = "ticket_request" => Sent("ticket_response") /= {}
        /\ type = "ping" => Sent("acknowledgement") /= {}
        /\ type = "ticket_request" /\ Member(origin, "tracing") = Bool(TRUE) =>
             /\ {Member(sent[i], "network_ticket_type") : i \in traces} =
                  {Str(Plain("ticket_request")), Str(Plain("ticket_response"))}
             /\ \A i \in traces, reply \in Sent("ticket_response") :
                  Member(sent[i], "tckuuid") = Member(reply, "tckuuid")
=============================================================================
