----------------------------- MODULE Processor -----------------------------
(***************************************************************************)
(* The processor task (main/processor.cpp): a loop that reloads the        *)
(* configuration when it has nothing to do, polls the single peer for      *)
(* messages, serves what it got and reports back through AgentClient.      *)
(*                                                                         *)
(* Around it: the peer, which hands out each queued message at most once,  *)
(* and the HTTP exchange with it (both external, seen through              *)
(* components/executor/agent); the console task, which saves a new         *)
(* configuration to NVS while the processor runs; power loss.              *)
(***************************************************************************)
EXTENDS Models, Functions

CONSTANTS
  Messages,       \* the messages that are ever queued for this agent
  UnsetClient,    \* the AgentClient before any set_ function is called
  DefaultConfig,  \* what a load returns for an item it cannot read
  FirstConfig,    \* the configuration in NVS when the model starts
  SavedConfigs,   \* the configurations the operator may save
  PeerUrl,        \* where the peer listens
  PeerKey,        \* the key the peer decrypts with
  PeerHonours,    \* whether the peer respects limit and whitelists
  MaxBatch,       \* bound: messages in one answer of a peer that does not
  MaxLosses,      \* bound: exchanges lost although the peer is reachable
  MaxRestarts,    \* bound: power losses
  MaxSaves        \* bound: configurations saved

Clients == [url : Urls, agtuuid : Agents, key : Keys]

ASSUME ProcessorAssumption ==
  /\ UnsetClient \in Clients
  /\ Messages \subseteq NetworkMessages
  /\ DefaultConfig \in ConfigSet
  /\ FirstConfig \in ConfigSet
  /\ SavedConfigs \subseteq ConfigSet
  /\ PeerHonours \in BOOLEAN
  /\ {MaxBatch, MaxLosses, MaxRestarts, MaxSaves} \subseteq Nat

VARIABLES
  stored,    \* the configuration NVS holds
  saving,    \* {c} while the console writes configuration c, else {}
  config,    \* the processor's global Config
  client,    \* the processor's global AgentClient
  idle,      \* the loop's local flag
  pc,        \* where the processor task is
  batch,     \* messages of the last answer not dealt with yet
  form,      \* form_json of the ticket in hand
  http,      \* the exchange the task is blocked on
  unsent,    \* messages not yet queued at the peer
  queue,     \* messages queued at the peer for this agent
  latePolls, \* abandoned polls the peer has yet to see
  sent,      \* every message sent except polls, in order
  calm,      \* history: a poll now follows a delay or a non-empty answer
  faults     \* what has been used of the bounds

taskVars   == <<config, client, idle, pc, batch, form, http>>
storeVars  == <<stored, saving>>
peerVars   == <<unsent, queue, latePolls>>
vars == <<taskVars, storeVars, peerVars, sent, calm, faults>>
-----------------------------------------------------------------------------
\* set_url, set_agtuuid and set_key with the fields of c.
ClientOf(c) == [url |-> c.peerUrl, agtuuid |-> c.agtuuid, key |-> c.key]

\* The whitelists of the messages_request, and its limit.
NetworkWhitelist == {"ping", "messages_request", "acknowledgement", "ticket_request"}
ControlWhitelist == {"get_config", "benchmark"}
\* Mutant: two messages are asked for.
TwoAtOnce == 2

Limit == 1

Permitted(m) ==
  /\ m.type \in NetworkWhitelist
  /\ m.type = "ticket_request" => m.form.type \in ControlWhitelist

OutTypes == {"messages_request", "ticket_trace_response", "ticket_response",
             "acknowledgement"}
TraceTags == {"ticket_request", "ticket_response"}

\* A message on its way out: what it says, the client that sends it (its
\* agtuuid is the isrc of the message) and, as history, the message it is
\* sent on behalf of.
Outgoing == [type : OutTypes, src : Agents, dest : SUBSET Agents,
             tckuuid : SUBSET Nat, network_ticket_type : SUBSET TraceTags,
             form : Forms, via : Clients, re : SUBSET Messages]

MessagesRequest ==
  [type |-> "messages_request", src |-> config.agtuuid, dest |-> {}, tckuuid |-> {},
   network_ticket_type |-> {}, form |-> NoForm, via |-> client, re |-> {}]

TicketTraceResponse(ticket, tag) ==
  [type |-> "ticket_trace_response", src |-> config.agtuuid, dest |-> {ticket.src},
   tckuuid |-> {ticket.tckuuid}, network_ticket_type |-> {tag}, form |-> NoForm,
   via |-> client, re |-> {ticket}]

\* Mutants: src is overwritten before dest is taken from it; the processed form
\* is not put back in the ticket.
ResponseToSelf(ticket) ==
  [type |-> "ticket_response", src |-> config.agtuuid, dest |-> {config.agtuuid},
   tckuuid |-> {ticket.tckuuid}, network_ticket_type |-> {}, form |-> form,
   via |-> client, re |-> {ticket}]

ResponseUnprocessed(ticket) ==
  [type |-> "ticket_response", src |-> config.agtuuid, dest |-> {ticket.src},
   tckuuid |-> {ticket.tckuuid}, network_ticket_type |-> {},
   form |-> ticket.form, via |-> client, re |-> {ticket}]

TicketResponse(ticket) ==
  [type |-> "ticket_response", src |-> config.agtuuid, dest |-> {ticket.src},
   tckuuid |-> {ticket.tckuuid}, network_ticket_type |-> {}, form |-> form,
   via |-> client, re |-> {ticket}]

Acknowledgement(ping) ==
  [type |-> "acknowledgement", src |-> config.agtuuid, dest |-> {ping.src},
   tckuuid |-> {}, network_ticket_type |-> {}, form |-> NoForm, via |-> client,
   re |-> {ping}]

\* No exchange is going on.
Quiet == [state |-> "quiet", msg |-> {}, answer |-> <<>>]

Requested(msg) == [state |-> "sent", msg |-> {msg}, answer |-> <<>>]

Reachable(msg) == msg.via.url = PeerUrl /\ msg.via.key = PeerKey

\* The configurations a partly written NVS can hold: save() ignores what each
\* put returns.
Torn(old, new) ==
  [agtuuid : {old.agtuuid, new.agtuuid}, key : {old.key, new.key},
   peerUrl : {old.peerUrl, new.peerUrl}, polling : {old.polling, new.polling}]

\* What Config::load() may return now.  It reads item by item, so while the
\* console saves it may see any mixture, and a string that grew between the
\* two reads of getString comes back as the default.
Loads ==
  IF saving = {} THEN {stored}
  ELSE UNION {[agtuuid : {stored.agtuuid, new.agtuuid, DefaultConfig.agtuuid},
               key     : {stored.key, new.key},
               peerUrl : {stored.peerUrl, new.peerUrl, DefaultConfig.peerUrl},
               polling : {stored.polling, new.polling}] : new \in saving}
-----------------------------------------------------------------------------
Init ==
  /\ stored = FirstConfig /\ saving = {}
  /\ config = stored /\ client = UnsetClient
  /\ idle = TRUE /\ pc = "top"
  /\ batch = <<>> /\ form = NoForm /\ http = Quiet
  /\ unsent = Messages /\ queue = {} /\ latePolls = 0
  /\ sent = <<>> /\ calm = FALSE
  /\ faults = [losses |-> 0, restarts |-> 0, saves |-> 0]

\* ---- the polling loop -----------------------------------------------------

\* Mutant: set_key is forgotten.
ReloadWithoutKey ==
  /\ pc = "top" /\ idle
  /\ config' \in Loads
  /\ client' = [ClientOf(config') EXCEPT !.key = client.key]
  /\ pc' = "delay"
  /\ UNCHANGED <<idle, batch, form, http, storeVars, peerVars, sent, calm, faults>>

\* Nothing to do: reload the configuration and hand it to the client.
Reload ==
  /\ pc = "top" /\ idle
  /\ config' \in Loads
  /\ client' = ClientOf(config')
  /\ pc' = "delay"
  /\ UNCHANGED <<idle, batch, form, http, storeVars, peerVars, sent, calm, faults>>

\* vTaskDelay(config.poll_ticks).
Delay ==
  /\ pc = "delay"
  /\ pc' = "gate"
  /\ calm' = TRUE
  /\ UNCHANGED <<config, client, idle, batch, form, http, storeVars, peerVars,
                 sent, faults>>

AtGate == pc = "gate" \/ (pc = "top" /\ ~idle)

PollDisabled ==
  /\ AtGate /\ ~config.polling
  /\ idle' = TRUE /\ pc' = "top"
  /\ UNCHANGED <<config, client, batch, form, http, storeVars, peerVars, sent,
                 calm, faults>>

SendPoll ==
  /\ AtGate /\ config.polling
  /\ http' = Requested(MessagesRequest)
  /\ pc' = "poll"
  /\ calm' = FALSE
  /\ UNCHANGED <<config, client, idle, batch, form, storeVars, peerVars, sent,
                 faults>>

\* Mutant: a failed poll is retried at once.
PollRetried ==
  /\ pc = "poll" /\ http.state = "failed"
  /\ idle' = FALSE /\ pc' = "top"
  /\ http' = Quiet
  /\ UNCHANGED <<config, client, batch, form, storeVars, peerVars, sent, calm,
                 faults>>

PollFailed ==
  /\ pc = "poll" /\ http.state = "failed"
  /\ idle' = TRUE /\ pc' = "top"
  /\ http' = Quiet
  /\ UNCHANGED <<config, client, batch, form, storeVars, peerVars, sent, calm,
                 faults>>

\* Mutant: the loop goes on polling after an empty answer.
PollReturnedBusy ==
  /\ pc = "poll" /\ http.state = "answered"
  /\ batch' = http.answer
  /\ idle' = FALSE
  /\ calm' = (batch' /= <<>>)
  /\ pc' = IF batch' = <<>> THEN "top" ELSE "dispatch"
  /\ http' = Quiet
  /\ UNCHANGED <<config, client, form, storeVars, peerVars, sent, faults>>

\* NetworkMessagesResponse::from_json; an answer of another type has no
\* messages.
PollReturned ==
  /\ pc = "poll" /\ http.state = "answered"
  /\ batch' = http.answer
  /\ idle' = (batch' = <<>>)
  /\ calm' = (batch' /= <<>>)
  /\ pc' = IF batch' = <<>> THEN "top" ELSE "dispatch"
  /\ http' = Quiet
  /\ UNCHANGED <<config, client, form, storeVars, peerVars, sent, faults>>

\* ---- process_network_message ----------------------------------------------

\* The message in hand.
Current == Head(batch)

\* Go on with the next message of the batch, or to the top of the loop.
Advance ==
  /\ batch' = Tail(batch)
  /\ form' = NoForm
  /\ pc' = IF batch' = <<>> THEN "top" ELSE "dispatch"

TakeTicket ==
  /\ pc = "dispatch" /\ Current.type = "ticket_request"
  /\ form' = Current.form
  /\ pc' = IF Current.tracing THEN "trace_request" ELSE "form"
  /\ UNCHANGED <<config, client, idle, batch, http, storeVars, peerVars, sent,
                 calm, faults>>

TakePing ==
  /\ pc = "dispatch" /\ Current.type = "ping"
  /\ pc' = "ack"
  /\ UNCHANGED <<config, client, idle, batch, form, http, storeVars, peerVars,
                 sent, calm, faults>>

IgnoreMessage ==
  /\ pc = "dispatch" /\ Current.type \notin {"ticket_request", "ping"}
  /\ Advance
  /\ UNCHANGED <<config, client, idle, http, storeVars, peerVars, sent, calm,
                 faults>>

\* Mutant: get_config loads into the global Config.
ProcessFormInPlace ==
  /\ pc = "form" /\ ~PayloadTooLarge(form)
  /\ form' \in ProcessedForms(form, Loads)
  /\ config' \in IF form.type = "get_config" THEN form'.config ELSE {config}
  /\ pc' = IF Current.tracing THEN "trace_response" ELSE "reply"
  /\ UNCHANGED <<client, idle, batch, http, storeVars, peerVars, sent, calm, faults>>

\* process_control_form; the answer to get_config is a fresh load.
ProcessForm ==
  /\ pc = "form" /\ ~PayloadTooLarge(form)
  /\ form' \in ProcessedForms(form, Loads)
  /\ pc' = IF Current.tracing THEN "trace_response" ELSE "reply"
  /\ UNCHANGED <<config, client, idle, batch, http, storeVars, peerVars, sent,
                 calm, faults>>

\* Where the task sends, and what it sends there.
SendPoints == {"trace_request", "trace_response", "reply", "ack"}

\* Mutant: both hops carry the tag of the request.
SameTagAt(p) ==
  CASE p \in {"trace_request", "trace_response"} ->
         TicketTraceResponse(Current, "ticket_request")
    [] p = "reply" -> TicketResponse(Current)
    [] p = "ack"   -> Acknowledgement(Current)

MessageAt(p) ==
  CASE p = "trace_request"  -> TicketTraceResponse(Current, "ticket_request")
    [] p = "trace_response" -> TicketTraceResponse(Current, "ticket_response")
    [] p = "reply"          -> TicketResponse(Current)
    [] p = "ack"            -> Acknowledgement(Current)

SendMessage ==
  /\ pc \in SendPoints /\ http.state = "quiet"
  /\ http' = Requested(MessageAt(pc))
  /\ sent' = Append(sent, MessageAt(pc))
  /\ UNCHANGED <<config, client, idle, pc, batch, form, storeVars, peerVars, calm,
                 faults>>

\* Mutant: a send that fails is made again.
SendRetried ==
  /\ pc \in SendPoints /\ http.state \in {"answered", "failed"}
  /\ http' = Quiet
  /\ CASE http.state = "failed"    -> UNCHANGED <<pc, batch, form>>
       [] pc = "trace_request"  -> pc' = "form" /\ UNCHANGED <<batch, form>>
       [] pc = "trace_response" -> pc' = "reply" /\ UNCHANGED <<batch, form>>
       [] OTHER                 -> Advance
  /\ UNCHANGED <<config, client, idle, storeVars, peerVars, sent, calm, faults>>

\* The result of a send is not looked at.
SendReturned ==
  /\ pc \in SendPoints /\ http.state \in {"answered", "failed"}
  /\ http' = Quiet
  /\ CASE pc = "trace_request"  -> pc' = "form" /\ UNCHANGED <<batch, form>>
       [] pc = "trace_response" -> pc' = "reply" /\ UNCHANGED <<batch, form>>
       [] OTHER                 -> Advance
  /\ UNCHANGED <<config, client, idle, storeVars, peerVars, sent, calm, faults>>

\* Volatile state is gone, the static Config is loaded again; what a save
\* that was under way leaves behind is some mixture.
Reboot ==
  /\ stored' \in IF saving = {} THEN {stored}
                 ELSE UNION {Torn(stored, new) : new \in saving}
  /\ saving' = {}
  /\ config' = stored' /\ client' = UnsetClient
  /\ idle' = TRUE /\ pc' = "top"
  /\ batch' = <<>> /\ form' = NoForm /\ http' = Quiet
  /\ calm' = FALSE
  /\ faults' = [faults EXCEPT !.restarts = @ + 1]
  /\ UNCHANGED <<unsent, queue, sent>>

\* The exception of an allocation that fails is not caught: abort().
AbortOnForm ==
  /\ pc = "form" /\ PayloadTooLarge(form)
  /\ Reboot
  /\ UNCHANGED latePolls

\* ---- the exchange and the peer (external) ---------------------------------

InFlight(msg) == http.state = "sent" /\ msg \in http.msg

IsPoll(msg) == msg.type = "messages_request"

\* Sequences of at most k distinct members of S.
Batches(S, k) == {a \in UNION {[1..n -> S] : n \in 0..k} : IsInjective(a)}

\* The answers the peer may give to a poll: some of what the request allows
\* if there is any, or, from a peer that ignores limit and whitelists,
\* whatever it has.
Answers ==
  LET allowed == {m \in queue : Permitted(m)}
  IN  IF PeerHonours
      THEN {a \in Batches(allowed, Limit) : a = <<>> => allowed = {}}
      ELSE Batches(queue, MaxBatch)

\* What was handed out leaves the queue, whether or not it arrives.
AnswerPoll ==
  /\ \E msg \in http.msg : InFlight(msg) /\ IsPoll(msg) /\ Reachable(msg)
  /\ \E a \in Answers :
       /\ http' = [http EXCEPT !.state = "answered", !.answer = a]
       /\ queue' = queue \ Range(a)
  /\ UNCHANGED <<config, client, idle, pc, batch, form, storeVars, unsent,
                 latePolls, sent, calm, faults>>

AnswerSend ==
  /\ \E msg \in http.msg : InFlight(msg) /\ ~IsPoll(msg) /\ Reachable(msg)
  /\ http' = [http EXCEPT !.state = "answered"]
  /\ UNCHANGED <<config, client, idle, pc, batch, form, storeVars, peerVars, sent,
                 calm, faults>>

\* post_encrypted gives up with "": wrong URL or key, or the request or the
\* answer is lost, late or damaged.  The peer may see an abandoned poll later.
ExchangeFails ==
  \E msg \in http.msg :
    /\ InFlight(msg)
    /\ http' = [http EXCEPT !.state = "failed"]
    /\ IF Reachable(msg)
       THEN /\ faults.losses < MaxLosses
            /\ faults' = [faults EXCEPT !.losses = @ + 1]
            /\ \/ UNCHANGED latePolls
               \/ IsPoll(msg) /\ latePolls' = latePolls + 1
       ELSE UNCHANGED <<faults, latePolls>>
    /\ UNCHANGED <<config, client, idle, pc, batch, form, storeVars, unsent, queue,
                   sent, calm>>

\* The answer to an abandoned poll finds nobody: its messages are lost.
LatePoll ==
  /\ latePolls > 0
  /\ latePolls' = latePolls - 1
  /\ \E a \in Answers : queue' = queue \ Range(a)
  /\ UNCHANGED <<taskVars, storeVars, unsent, sent, calm, faults>>

Post ==
  /\ \E m \in unsent : unsent' = unsent \ {m} /\ queue' = queue \cup {m}
  /\ UNCHANGED <<taskVars, storeVars, latePolls, sent, calm, faults>>

\* ---- the console, and power loss ------------------------------------------

BeginSave ==
  /\ saving = {} /\ faults.saves < MaxSaves
  /\ \E c \in SavedConfigs : saving' = {c}
  /\ faults' = [faults EXCEPT !.saves = @ + 1]
  /\ UNCHANGED <<taskVars, stored, peerVars, sent, calm>>

EndSave ==
  /\ \E new \in saving : stored' \in Torn(stored, new)
  /\ saving' = {}
  /\ UNCHANGED <<taskVars, peerVars, sent, calm, faults>>

PowerLoss ==
  /\ faults.restarts < MaxRestarts
  /\ Reboot
  /\ \/ UNCHANGED latePolls
     \/ /\ \E msg \in http.msg : InFlight(msg) /\ IsPoll(msg) /\ Reachable(msg)
        /\ latePolls' = latePolls + 1
-----------------------------------------------------------------------------
Task == Reload \/ Delay \/ PollDisabled \/ SendPoll \/ PollFailed \/ PollReturned
        \/ TakeTicket \/ TakePing \/ IgnoreMessage \/ ProcessForm \/ AbortOnForm
        \/ SendMessage \/ SendReturned

Exchange == AnswerPoll \/ AnswerSend \/ ExchangeFails

Next == Task \/ Exchange \/ LatePoll \/ Post \/ BeginSave \/ EndSave \/ PowerLoss

Spec == Init /\ [][Next]_vars

AnswerableTypes == {"ticket_request", "ping"}

\* What the task holds of the peer's messages, or is about to.
Held == Range(batch) \cup Range(http.answer)

\* A peer whose senders never stop, with finitely many messages: one that the
\* task ignored is queued once more and stands for the next of its kind.
PostAnother ==
  /\ \E m \in Messages \ (unsent \cup queue \cup Held) :
       m.type \notin AnswerableTypes /\ queue' = queue \cup {m}
  /\ UNCHANGED <<taskVars, storeVars, unsent, latePolls, sent, calm, faults>>

HandOut(m) == AnswerPoll /\ m \in Range(http'.answer)

\* The scheduler runs the task, an exchange ends since each of its socket
\* operations times out, and save() returns; a peer that is polled again and
\* again does not pass over a message for ever.
Fairness ==
  /\ WF_vars(Task) /\ WF_vars(Exchange) /\ WF_vars(EndSave)
  /\ \A m \in Messages : m.type \in AnswerableTypes => SF_vars(HandOut(m))

FairSpec == Init /\ [][Next \/ PostAnother]_vars /\ Fairness
-----------------------------------------------------------------------------
(* Properties *)

Faults == [losses : Nat, restarts : Nat, saves : Nat]

Exchanges == [state : {"quiet", "sent", "answered", "failed"},
              msg : SUBSET Outgoing, answer : Seq(Messages)]

\* Every variable keeps its type: in particular the task is at a known place
\* and holds messages of the peer only.
TypeOK ==
  /\ stored \in ConfigSet /\ saving \in SUBSET ConfigSet
  /\ config \in ConfigSet /\ client \in Clients
  /\ idle \in BOOLEAN
  /\ pc \in SendPoints \cup {"top", "delay", "gate", "poll", "dispatch", "form"}
  /\ batch \in Seq(Messages) /\ form \in Forms /\ http \in Exchanges
  /\ unsent \in SUBSET Messages /\ queue \in SUBSET Messages
  /\ latePolls \in Nat
  /\ sent \in Seq(Outgoing)
  /\ calm \in BOOLEAN /\ faults \in Faults

\* AgentClient holds a second copy of three settings.  No message leaves with
\* a copy that is out of step with the configuration that names the sender:
\* src and isrc agree, and the message goes to the configured peer under the
\* configured key.
ClientConfigured ==
  \A msg \in http.msg : /\ msg.via = ClientOf(config)
                        /\ msg.src = msg.via.agtuuid

\* The traces of a ticket and its response name one agent and go to one peer
\* under one key, although the console may save other settings at any time
\* and get_config reads them in between.
OneIdentity ==
  \A i, j \in DOMAIN sent :
    sent[i].re = sent[j].re => /\ sent[i].src = sent[j].src
                               /\ sent[i].via = sent[j].via

IsReply(msg) == msg.type \in {"ticket_response", "acknowledgement"}

\* A message that the peer hands out is answered at most once, through lost
\* and late exchanges, batches and reboots.
AtMostOneReply ==
  \A i, j \in DOMAIN sent :
    IsReply(sent[i]) /\ IsReply(sent[j]) /\ sent[i].re = sent[j].re => i = j

\* A reply goes to the sender of the message it answers; a ticket response
\* carries the ticket's own identifier and its own form, worked out, and not
\* that of another message or the form as it came.  What process_control_form
\* makes of a form is taken as it is on both sides.
ReplyMatchesRequest ==
  \A i \in DOMAIN sent : IsReply(sent[i]) =>
    \E m \in sent[i].re :
      /\ sent[i].dest = {m.src}
      /\ sent[i].type = "ticket_response" =>
           /\ sent[i].tckuuid = {m.tckuuid}
           /\ sent[i].form \in ProcessedForms(m.form, ConfigSet)

IsTrace(msg, m, tag) ==
  msg.type = "ticket_trace_response" /\ msg.re = {m}
  /\ msg.network_ticket_type = {tag}

\* The response to a traced ticket comes right after its two hops, in order;
\* a ticket that is not traced leaves no hop.
TracesBracketWork ==
  /\ \A i \in DOMAIN sent : sent[i].type = "ticket_response" =>
       \A m \in sent[i].re : m.tracing =>
         /\ i > 2
         /\ IsTrace(sent[i-2], m, "ticket_request")
         /\ IsTrace(sent[i-1], m, "ticket_response")
  /\ \A i \in DOMAIN sent : sent[i].type = "ticket_trace_response" =>
       \A m \in sent[i].re : m.tracing

\* With a peer that respects the limit of one, the device never holds a
\* second message it could lose.
OneAtATime == PeerHonours => Len(batch) + Len(http.answer) <= 1

\* Two polls are separated by the delay or by an answer that had messages:
\* neither a failing peer nor an empty queue makes the loop spin.
PacedPolling == [][SendPoll => calm]_vars

\* Message m was answered.
Answered(m) == \E i \in DOMAIN sent : IsReply(sent[i]) /\ m \in sent[i].re

Dropped(m) == m \notin unsent \cup queue \cup Held /\ ~Answered(m)

\* The settings the peer can be reached with, polling on.
GoodSettings(c) == c.peerUrl = PeerUrl /\ c.key = PeerKey /\ c.polling

\* Once good settings stay in NVS, every queued message the whitelists allow is
\* answered, or lost to an exchange or a reboot: no failed poll, no earlier
\* wrong setting, no pause of polling and no endless row of messages that the
\* task ignores leaves the device deaf.
EventuallyServed ==
  <>[](GoodSettings(stored) /\ saving = {}) =>
    \A m \in {n \in Messages : Permitted(n) /\ n.type \in AnswerableTypes} :
      (m \in queue) ~>
        (Answered(m) \/ (Dropped(m) /\ faults.losses + faults.restarts > 0))

\* From some poll on every poll brings a message.
AlwaysFed ==
  /\ []<>(pc = "poll" /\ http.answer /= <<>>)
  /\ <>[](pc = "poll" /\ http.state \in {"answered", "failed"} => http.answer /= <<>>)

\* What the console saves takes effect without a reboot, also when the settings
\* in use do not work.  The one way out is a peer whose every poll brings a
\* message: the loop is never idle then and reads no settings, not even that
\* polling was turned off.
SettingsTakeEffect == AlwaysFed \/ <>[](config = stored /\ saving = {})

\* The agent implements TicketService: a message the task holds and has
\* replied to is answered, one that is nowhere any more was dropped.
statusOf ==
  [m \in Messages |-> IF m \in unsent THEN "unsent"
                      ELSE IF m \in queue THEN "queued"
                      ELSE IF Answered(m) THEN "answered"
                      ELSE IF m \in Held THEN "held"
                      ELSE "dropped"]

answersGiven ==
  {[to |-> CHOOSE m \in Messages : m \in sent[i].re,
    dest |-> CHOOSE a \in Agents : a \in sent[i].dest] :
       i \in {k \in DOMAIN sent : IsReply(sent[k])}}

Service == INSTANCE TicketService WITH
  Requests <- {m \in Messages : m.type \in AnswerableTypes},
  SenderOf <- LAMBDA m : m.src, status <- statusOf, answers <- answersGiven

ImplementsService == Service!ServiceSpec
=============================================================================
