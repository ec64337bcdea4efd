-------------------------- MODULE ProcessorProofs --------------------------
(***************************************************************************)
(* Theorems about Processor, for every value of its constants: types, the  *)
(* settings in use, at most one reply per message, one identity per        *)
(* message.  The inductive invariant has three parts: TypeOK, where the    *)
(* task is (Placed), and where each message is (Lifecycle).                *)
(***************************************************************************)
EXTENDS Processor, SequenceTheorems, TLAPS

\* The task has a message in hand.
Handling == SendPoints \cup {"dispatch", "form"}

\* The place of the task tells whether it has messages left and whether it
\* is blocked on an exchange.
Placed ==
  /\ pc \in Handling <=> batch /= <<>>
  /\ pc \notin SendPoints \cup {"poll"} => http = Quiet
  /\ pc = "poll" => http.state /= "quiet"
  /\ http.state = "quiet" => http = Quiet
  /\ http.answer /= <<>> => pc = "poll"
  /\ \A msg \in http.msg : IsPoll(msg) <=> pc = "poll"

\* The client's copy is current except between a boot and the first reload.
Synced == (pc = "top" /\ idle) \/ client = ClientOf(config)

Inv == TypeOK /\ Placed /\ Synced /\ ClientConfigured
-----------------------------------------------------------------------------
\* Every configuration a load may return, and every state a save may leave, is
\* made of fields of the right type.
LEMMA LoadsType ==
  ASSUME ProcessorAssumption, stored \in ConfigSet, saving \in SUBSET ConfigSet
  PROVE  /\ Loads \subseteq ConfigSet
         /\ \A new \in saving : Torn(stored, new) \subseteq ConfigSet
  BY DEF ProcessorAssumption, ConfigSet, Loads, Torn

\* A processed form is a form.
LEMMA ProcessedType ==
  ASSUME ModelsAssumption, NEW f \in Forms, NEW L \in SUBSET ConfigSet
  PROVE  ProcessedForms(f, L) \subseteq Forms
<1>1. BenchmarkPayload(f) \subseteq Nat
  <2>1. ASSUME NEW n \in Int, NEW d \in Nat \ {0}  PROVE n % d \in Nat
    OBVIOUS
  <2>2. \A n \in f.inbound_size : SizeT(n) \in Nat
    BY <2>1 DEF ModelsAssumption, SizeT, Forms
  <2>3. \A n \in f.inbound_size : StoredPayload(SizeT(n)) \subseteq Nat
    BY <2>2 DEF StoredPayload
  <2> QED BY <2>3 DEF BenchmarkPayload
<1>2. \A c \in L : [f EXCEPT !.config = {c}] \in Forms
  BY DEF Forms
<1>3. [f EXCEPT !.payload = BenchmarkPayload(f)] \in Forms
  BY <1>1 DEF Forms
<1> QED
  BY <1>2, <1>3 DEF ProcessedForms

\* An answer of the peer is a sequence of distinct messages of its queue.
LEMMA AnswersType ==
  ASSUME ProcessorAssumption, queue \in SUBSET Messages, NEW a \in Answers
  PROVE  a \in Seq(Messages) /\ IsInjective(a) /\ Range(a) \subseteq queue
<1>1. PICK S \in SUBSET queue, k \in Nat : a \in Batches(S, k)
  <2>1. Limit \in Nat /\ MaxBatch \in Nat
    BY DEF ProcessorAssumption, Limit
  <2> QED BY <2>1 DEF Answers
<1>2. PICK n \in 0..k : a \in [1..n -> S]
  BY <1>1 DEF Batches
<1> QED
  BY <1>1, <1>2 DEF Batches, Range

\* The message in hand and what is left after it.
LEMMA InHand ==
  ASSUME ProcessorAssumption, TypeOK, batch /= <<>>
  PROVE  /\ Current \in Messages /\ Current \in NetworkMessages
         /\ Tail(batch) \in Seq(Messages)
  BY HeadTailProperties DEF ProcessorAssumption, TypeOK, Current

\* What the task sends is well-formed, names the configured agent and leaves
\* through the client.
LEMMA MessageType ==
  ASSUME ProcessorAssumption, TypeOK, NEW p \in SendPoints, batch /= <<>>
  PROVE  /\ MessageAt(p) \in Outgoing
         /\ MessageAt(p).src = config.agtuuid /\ MessageAt(p).via = client
         /\ MessageAt(p).re = {Current}
         /\ IsReply(MessageAt(p)) <=> p \in {"reply", "ack"}
         /\ ~IsPoll(MessageAt(p))
<1>1. Current \in Messages /\ Current \in NetworkMessages
  BY InHand
<1>2. Current.src \in Agents /\ Current.tckuuid \in Nat
  BY <1>1 DEF NetworkMessages
<1>3. config.agtuuid \in Agents /\ client \in Clients /\ form \in Forms
  BY DEF TypeOK, ConfigSet
<1>4. NoForm \in Forms
  BY DEF NoForm, Forms, FormTypes
<1>5. p = "trace_request" \/ p = "trace_response" \/ p = "reply" \/ p = "ack"
  BY DEF SendPoints
<1> QED
  BY <1>1, <1>2, <1>3, <1>4, <1>5
     DEF MessageAt, TicketTraceResponse, TicketResponse, Acknowledgement, Outgoing,
         OutTypes, TraceTags, IsReply, IsPoll

\* A poll is well-formed.
LEMMA PollType ==
  ASSUME TypeOK
  PROVE  /\ MessagesRequest \in Outgoing
         /\ MessagesRequest.src = config.agtuuid /\ MessagesRequest.via = client
         /\ IsPoll(MessagesRequest)
<1>1. NoForm \in Forms
  BY DEF NoForm, Forms, FormTypes
<1> QED
  BY <1>1 DEF TypeOK, ConfigSet, MessagesRequest, Outgoing, OutTypes,
                  IsPoll
-----------------------------------------------------------------------------
\* The device starts with consistent settings and nothing in hand.
LEMMA InitInv ==
  ASSUME ModelsAssumption, ProcessorAssumption
  PROVE  Init => Inv
<1> SUFFICES ASSUME Init PROVE Inv
  OBVIOUS
<1>1. TypeOK
  <2>1. NoForm \in Forms /\ Quiet \in Exchanges
    BY DEF NoForm, Forms, FormTypes, Quiet, Exchanges
  <2>2. <<>> \in Seq(Messages) /\ <<>> \in Seq(Outgoing)
    OBVIOUS
  <2>3. faults \in Faults
    BY DEF Init, Faults
  <2> QED BY <2>1, <2>2, <2>3 DEF Init, TypeOK, ProcessorAssumption
<1>2. Placed /\ Synced /\ ClientConfigured
  BY DEF Init, Placed, Synced, ClientConfigured, Handling, SendPoints, Quiet
<1> QED
  BY <1>1, <1>2 DEF Inv

\* Going on with the batch keeps the task where its batch says.
LEMMA AdvanceType ==
  ASSUME ProcessorAssumption, TypeOK, batch /= <<>>, Advance
  PROVE  /\ batch' \in Seq(Messages) /\ form' \in Forms
         /\ pc' \in {"top", "dispatch"}
         /\ pc' = "top" <=> batch' = <<>>
  BY InHand DEF Advance, NoForm, Forms, FormTypes

\* Counting a fault.
LEMMA FaultsType ==
  ASSUME faults \in Faults
  PROVE  /\ [faults EXCEPT !.losses = @ + 1] \in Faults
         /\ [faults EXCEPT !.restarts = @ + 1] \in Faults
         /\ [faults EXCEPT !.saves = @ + 1] \in Faults
  BY DEF Faults

\* A boot leaves the device in a state that could have come from Init.
LEMMA RebootInv ==
  ASSUME ModelsAssumption, ProcessorAssumption, Inv, Reboot, latePolls' \in Nat
  PROVE  Inv'
<1> USE DEF Inv
<1>1. NoForm \in Forms /\ Quiet \in Exchanges
  BY DEF NoForm, Forms, FormTypes, Quiet, Exchanges
<1>2. stored' \in ConfigSet
  BY LoadsType DEF Reboot, TypeOK
<1>3. UnsetClient \in Clients
  BY DEF ProcessorAssumption
<1>4. faults' \in Faults
  BY FaultsType DEF Reboot, TypeOK
<1>5. <<>> \in Seq(Messages)
  OBVIOUS
<1>6. TypeOK'
  BY <1>1, <1>2, <1>3, <1>4, <1>5 DEF Reboot, TypeOK
<1>7. Placed'
  <2>1. pc' = "top" /\ batch' = <<>> /\ http' = Quiet
    BY DEF Reboot
  <2> QED BY <2>1 DEF Placed, Handling, SendPoints, Quiet
<1>8. Synced' /\ ClientConfigured'
  BY DEF Reboot, Synced, ClientConfigured, Quiet
<1> QED
  BY <1>6, <1>7, <1>8

\* One step of the task.
LEMMA TaskInv ==
  ASSUME ModelsAssumption, ProcessorAssumption, Inv, Task
  PROVE  Inv'
<1> USE DEF Inv
<1>0. /\ NoForm \in Forms /\ Quiet \in Exchanges
      /\ Loads \subseteq ConfigSet
  BY LoadsType DEF NoForm, Forms, FormTypes, Quiet, Exchanges, TypeOK
<1>1. CASE Reload
  <2>1. config' \in ConfigSet /\ client' = ClientOf(config')
    BY <1>0, <1>1 DEF Reload
  <2>2. client' \in Clients
    BY <2>1 DEF ClientOf, Clients, ConfigSet
  <2>3. http = Quiet
    BY <1>1 DEF Reload, Placed, SendPoints
  <2> QED
    BY <1>1, <2>1, <2>2, <2>3
       DEF Reload, TypeOK, Placed, Synced, ClientConfigured, storeVars, peerVars,
           Handling, SendPoints, Quiet
<1>2. CASE Delay
  BY <1>2 DEF Delay, TypeOK, Placed, Synced, ClientConfigured, ClientOf, storeVars, peerVars,
              Handling, SendPoints
<1>3. CASE PollDisabled
  BY <1>3 DEF PollDisabled, AtGate, TypeOK, Placed, Synced, ClientConfigured, storeVars,
              peerVars, Handling, SendPoints
<1>4. CASE SendPoll
  <2>1. /\ MessagesRequest \in Outgoing /\ MessagesRequest.via = client
        /\ MessagesRequest.src = config.agtuuid /\ IsPoll(MessagesRequest)
    BY PollType
  <2>2. http' \in Exchanges /\ http'.state = "sent" /\ http'.answer = <<>>
        /\ http'.msg = {MessagesRequest}
    BY <1>4, <2>1 DEF SendPoll, Requested, Exchanges
  <2>3. client = ClientOf(config)
    BY <1>4 DEF SendPoll, AtGate, Synced
  <2>4. batch = <<>>
    BY <1>4 DEF SendPoll, AtGate, Placed, Handling, SendPoints
  <2>5. TypeOK'
    BY <1>4, <2>2 DEF SendPoll, TypeOK, storeVars, peerVars
  <2>6. Placed' /\ Synced'
    BY <1>4, <2>1, <2>2, <2>3, <2>4
       DEF SendPoll, Placed, Synced, ClientOf, Handling, SendPoints
  <2>7. ClientConfigured'
    BY <1>4, <2>1, <2>2, <2>3 DEF SendPoll, ClientConfigured, ClientOf
  <2> QED BY <2>5, <2>6, <2>7
<1>5. CASE PollFailed
  BY <1>0, <1>5 DEF PollFailed, TypeOK, Placed, Synced, ClientConfigured, ClientOf,
              storeVars, peerVars, Handling, SendPoints, Quiet
<1>6. CASE PollReturned
  <2>1. batch' \in Seq(Messages)
    BY <1>6 DEF PollReturned, TypeOK, Exchanges
  <2> QED
    BY <1>0, <1>6, <2>1
       DEF PollReturned, TypeOK, Placed, Synced, ClientConfigured, ClientOf, storeVars,
           peerVars, Handling, SendPoints, Quiet
<1>7. CASE TakeTicket
  <2>1. batch /= <<>> /\ http = Quiet
    BY <1>7 DEF TakeTicket, Placed, Handling, SendPoints
  <2>2. Current.form \in Forms
    BY <2>1, InHand DEF NetworkMessages
  <2> QED
    BY <1>7, <2>1, <2>2
       DEF TakeTicket, TypeOK, Placed, Synced, ClientConfigured, ClientOf, storeVars,
           peerVars, Handling, SendPoints, Quiet
<1>8. CASE TakePing
  BY <1>8 DEF TakePing, TypeOK, Placed, Synced, ClientConfigured, ClientOf, storeVars,
              peerVars, Handling, SendPoints, Quiet
<1>9. CASE IgnoreMessage
  <2>1. batch /= <<>> /\ http = Quiet
    BY <1>9 DEF IgnoreMessage, Placed, Handling, SendPoints
  <2>2. /\ batch' \in Seq(Messages) /\ form' \in Forms /\ pc' \in {"top", "dispatch"}
        /\ pc' = "top" <=> batch' = <<>>
    BY <1>9, <2>1, AdvanceType DEF IgnoreMessage
  <2> QED
    BY <1>9, <2>1, <2>2
       DEF IgnoreMessage, TypeOK, Placed, Synced, ClientConfigured, ClientOf, storeVars,
           peerVars, Handling, SendPoints, Quiet
<1>10. CASE ProcessForm
  <2>1. form' \in Forms
    <3>1. form \in Forms
      BY DEF TypeOK
    <3> QED BY <1>0, <1>10, <3>1, ProcessedType DEF ProcessForm
  <2> QED
    BY <1>10, <2>1
       DEF ProcessForm, TypeOK, Placed, Synced, ClientConfigured, ClientOf, storeVars,
           peerVars, Handling, SendPoints, Quiet
<1>11. CASE SendMessage
  <2>1. pc \in SendPoints /\ batch /= <<>> /\ http = Quiet
    BY <1>11 DEF SendMessage, Placed, Handling
  <2>2. /\ MessageAt(pc) \in Outgoing
        /\ MessageAt(pc).src = config.agtuuid /\ MessageAt(pc).via = client
        /\ ~IsPoll(MessageAt(pc))
    BY <2>1, MessageType
  <2>3. http' \in Exchanges /\ http'.state = "sent" /\ http'.answer = <<>>
        /\ http'.msg = {MessageAt(pc)}
    BY <1>11, <2>2 DEF SendMessage, Requested, Exchanges
  <2>4. client = ClientOf(config)
    BY <2>1 DEF Synced, SendPoints
  <2>5. TypeOK'
    BY <1>11, <2>2, <2>3, AppendProperties DEF SendMessage, TypeOK, storeVars, peerVars
  <2>6. Placed' /\ Synced'
    BY <1>11, <2>1, <2>2, <2>3, <2>4
       DEF SendMessage, Placed, Synced, ClientOf, Handling, SendPoints
  <2>7. ClientConfigured'
    BY <1>11, <2>2, <2>3, <2>4 DEF SendMessage, ClientConfigured, ClientOf
  <2> QED BY <2>5, <2>6, <2>7
<1>12. CASE SendReturned
  <2>1. batch /= <<>> /\ pc \in SendPoints
    BY <1>12 DEF SendReturned, Placed, Handling
  <2>2. \/ /\ batch' = batch /\ form' = form /\ pc' \in {"form", "reply"}
        \/ Advance
    BY <1>12 DEF SendReturned, SendPoints
  <2>3. /\ batch' \in Seq(Messages) /\ form' \in Forms
        /\ pc' \in {"form", "reply", "top", "dispatch"}
        /\ pc' = "top" <=> batch' = <<>>
    BY <2>1, <2>2, AdvanceType DEF TypeOK
  <2> QED
    BY <1>0, <1>12, <2>1, <2>3
       DEF SendReturned, TypeOK, Placed, Synced, ClientConfigured, ClientOf, storeVars,
           peerVars, Handling, SendPoints, Quiet
<1>13. CASE AbortOnForm
  BY <1>13, RebootInv DEF AbortOnForm, TypeOK
<1> QED
  BY <1>1, <1>2, <1>3, <1>4, <1>5, <1>6, <1>7, <1>8, <1>9, <1>10, <1>11, <1>12, <1>13
     DEF Task

\* One step of the exchange, the peer, the console or the power supply.
LEMMA EnvironmentInv ==
  ASSUME ModelsAssumption, ProcessorAssumption, Inv,
         Exchange \/ LatePoll \/ Post \/ BeginSave \/ EndSave \/ PowerLoss
  PROVE  Inv'
<1> USE DEF Inv
<1>1. CASE AnswerPoll
  <2>1. PICK a \in Answers : /\ http' = [http EXCEPT !.state = "answered", !.answer = a]
                             /\ queue' = queue \ Range(a)
    BY <1>1 DEF AnswerPoll
  <2>2. a \in Seq(Messages)
    BY AnswersType DEF TypeOK
  <2>3. http' \in Exchanges /\ http'.state = "answered" /\ http'.msg = http.msg
    BY <2>1, <2>2 DEF TypeOK, Exchanges
  <2>4. http.state = "sent" /\ \E msg \in http.msg : IsPoll(msg)
    BY <1>1 DEF AnswerPoll, InFlight
  <2>5. pc = "poll"
    BY <2>4 DEF Placed
  <2>6. UNCHANGED <<config, client, idle, pc, batch, form, stored, saving, unsent,
                    latePolls, sent, calm, faults>>
    BY <1>1 DEF AnswerPoll, storeVars
  <2>7. TypeOK'
    BY <2>1, <2>3, <2>6 DEF TypeOK
  <2>8. Placed'
    BY <2>3, <2>5, <2>6 DEF Placed, Handling, SendPoints
  <2>9. Synced' /\ ClientConfigured'
    BY <2>3, <2>6 DEF Synced, ClientConfigured, ClientOf
  <2> QED
    BY <2>7, <2>8, <2>9
<1>2. CASE AnswerSend
  <2>1. http' \in Exchanges /\ http'.state = "answered" /\ http'.msg = http.msg
        /\ http'.answer = http.answer /\ http.state = "sent"
    BY <1>2 DEF AnswerSend, TypeOK, Exchanges, InFlight
  <2> QED
    BY <1>2, <2>1
       DEF AnswerSend, TypeOK, Placed, Synced, ClientConfigured, ClientOf, storeVars,
           peerVars, Handling, SendPoints, Quiet
<1>3. CASE ExchangeFails
  <2>1. http' \in Exchanges /\ http'.state = "failed" /\ http'.msg = http.msg
        /\ http'.answer = http.answer /\ http.state = "sent"
    BY <1>3 DEF ExchangeFails, TypeOK, Exchanges, InFlight
  <2>a. faults \in Faults /\ latePolls \in Nat
    BY DEF TypeOK
  <2>b. /\ faults' = [faults EXCEPT !.losses = @ + 1] \/ faults' = faults
        /\ latePolls' = latePolls \/ latePolls' = latePolls + 1
    BY <1>3 DEF ExchangeFails
  <2>c. faults' \in Faults
    BY <2>a, <2>b, FaultsType
  <2>d. latePolls' \in Nat
    BY ONLY <2>a, <2>b
  <2>2. faults' \in Faults /\ latePolls' \in Nat
    BY <2>c, <2>d
  <2>3. UNCHANGED <<config, client, idle, pc, batch, form, stored, saving, unsent, queue,
                    sent, calm>>
    BY <1>3 DEF ExchangeFails, storeVars
  <2> QED
    BY <2>1, <2>2, <2>3
       DEF TypeOK, Placed, Synced, ClientConfigured, ClientOf, Handling, SendPoints, Quiet
<1>4. CASE LatePoll
  BY <1>4 DEF LatePoll, TypeOK, Placed, Synced, ClientConfigured, ClientOf, taskVars,
              storeVars, Handling, SendPoints
<1>5. CASE Post
  BY <1>5 DEF Post, TypeOK, Placed, Synced, ClientConfigured, ClientOf, taskVars,
              storeVars, Handling, SendPoints
<1>6. CASE BeginSave
  <2>1. faults' \in Faults
    BY <1>6, FaultsType DEF BeginSave, TypeOK
  <2>2. saving' \in SUBSET ConfigSet
    BY <1>6 DEF BeginSave, ProcessorAssumption
  <2> QED
    BY <1>6, <2>1, <2>2
       DEF BeginSave, TypeOK, Placed, Synced, ClientConfigured, ClientOf, taskVars,
           peerVars, Handling, SendPoints
<1>7. CASE EndSave
  <2>1. stored' \in ConfigSet
    BY <1>7, LoadsType DEF EndSave, TypeOK
  <2> QED
    BY <1>7, <2>1 DEF EndSave, TypeOK, Placed, Synced, ClientConfigured, ClientOf,
              taskVars, peerVars, Handling, SendPoints
<1>8. CASE PowerLoss
  <2>1. latePolls' \in Nat
    BY <1>8 DEF PowerLoss, TypeOK
  <2> QED BY <1>8, <2>1, RebootInv DEF PowerLoss
<1> QED
  BY <1>1, <1>2, <1>3, <1>4, <1>5, <1>6, <1>7, <1>8 DEF Exchange
-----------------------------------------------------------------------------
\* Inv speaks of the variables only.
LEMMA StutterInv == Inv /\ UNCHANGED vars => Inv'
<1> SUFFICES ASSUME Inv, UNCHANGED vars PROVE Inv'
  OBVIOUS
<1>1. /\ UNCHANGED <<stored, saving, config, client, idle, pc, batch, form, http>>
      /\ UNCHANGED <<unsent, queue, latePolls, sent, calm, faults>>
  BY DEF vars, taskVars, storeVars, peerVars
<1> QED
  BY <1>1 DEF Inv, TypeOK, Placed, Synced, ClientConfigured, ClientOf, Handling, SendPoints

\* Inv is inductive.
THEOREM InvHolds == Spec => []Inv
<1>1. Init => Inv
  BY InitInv, ModelsAssumption, ProcessorAssumption
<1>2. Inv /\ [Next]_vars => Inv'
  BY TaskInv, EnvironmentInv, StutterInv, ModelsAssumption, ProcessorAssumption DEF Next
<1> QED
  BY <1>1, <1>2, PTL DEF Spec

\* The processor's variables keep their types in every reachable state.
THEOREM TypeCorrect == Spec => []TypeOK
<1>1. Inv => TypeOK
  BY DEF Inv
<1> QED
  BY InvHolds, <1>1, PTL

\* Every message in flight goes to the configured peer, under the configured
\* key, and names the configured agent both as src and as isrc.
THEOREM SendsAsConfigured == Spec => []ClientConfigured
<1>1. Inv => ClientConfigured
  BY DEF Inv
<1> QED
  BY InvHolds, <1>1, PTL
-----------------------------------------------------------------------------
\* A message is in one place only: not yet queued, queued, on its way in an
\* answer, or in the batch, and there once.
Lifecycle ==
  /\ unsent \cap queue = {}
  /\ Range(batch) \cap (unsent \cup queue) = {}
  /\ Range(http.answer) \cap (unsent \cup queue) = {}
  /\ IsInjective(batch) /\ IsInjective(http.answer)

\* What was sent on behalf of a message was sent after it left the peer.  If
\* the message is still in the batch it is the one in hand, the settings are
\* those it was sent with, and a reply is the send going on.
SpokenFor(msg) ==
  \E m \in Messages :
    /\ msg.re = {m}
    /\ m \notin unsent \cup queue \cup Range(http.answer)
    /\ m \in Range(batch) =>
         /\ m = Head(batch) /\ pc /= "dispatch"
         /\ msg.src = config.agtuuid /\ msg.via = client
         /\ IsReply(msg) => pc \in {"reply", "ack"} /\ http.state /= "quiet"

Spoken == \A i \in DOMAIN sent : SpokenFor(sent[i])

Lives == Lifecycle /\ Spoken /\ OneIdentity /\ AtMostOneReply

\* Dropping the head of a sequence without duplicates.
LEMMA TailFacts ==
  ASSUME NEW S, NEW s \in Seq(S), s /= <<>>, IsInjective(s)
  PROVE  /\ IsInjective(Tail(s)) /\ Head(s) \in Range(s)
         /\ Range(Tail(s)) \subseteq Range(s) \ {Head(s)}
<1>1. /\ Head(s) = s[1] /\ Tail(s) \in Seq(S) /\ Len(Tail(s)) = Len(s) - 1
      /\ \A i \in 1..Len(Tail(s)) : Tail(s)[i] = s[i+1]
      /\ Len(s) \in Nat \ {0}
  BY HeadTailProperties, EmptySeq
<1>2. DOMAIN s = 1..Len(s) /\ DOMAIN Tail(s) = 1..(Len(s) - 1)
  BY <1>1
<1> QED
  BY <1>1, <1>2 DEF IsInjective, Range

\* The empty sequence.
LEMMA EmptyFacts == IsInjective(<<>>) /\ Range(<<>>) = {}
  BY DEF IsInjective, Range

\* Steps that send nothing keep what was said of the messages sent.
LEMMA SilentStep ==
  ASSUME OneIdentity, AtMostOneReply, sent' = sent
  PROVE  OneIdentity' /\ AtMostOneReply'
  BY DEF OneIdentity, AtMostOneReply

\* A step that leaves the device with no message in hand or on the way.
LEMMA EmptyHanded ==
  ASSUME Inv, Lives, sent' = sent, batch' = <<>>, http'.answer = <<>>,
         unsent' \cap queue' = {}, unsent' \cup queue' \subseteq unsent \cup queue
  PROVE  Lives'
<1>1. Lifecycle'
  BY EmptyFacts DEF Lifecycle
<1>2. Spoken'
  BY EmptyFacts DEF Lives, Spoken, SpokenFor
<1> QED
  BY <1>1, <1>2, SilentStep DEF Lives

\* A step that leaves every message where it is, and the task with the same
\* message in hand under the same settings.
LEMMA SamePlaces ==
  ASSUME Inv, Lives, sent' = sent, batch' = batch, http'.answer = http.answer,
         config' = config, client' = client,
         unsent' \cap queue' = {}, unsent' \cup queue' \subseteq unsent \cup queue,
         pc' /= "dispatch" \/ pc' = pc,
         pc \in {"reply", "ack"} /\ http.state /= "quiet" =>
           pc' \in {"reply", "ack"} /\ http'.state /= "quiet"
  PROVE  Lives'
<1>1. Lifecycle'
  BY DEF Lives, Lifecycle
<1>2. ASSUME NEW msg, SpokenFor(msg) PROVE SpokenFor(msg)'
  BY <1>2 DEF SpokenFor, IsReply
<1>3. Spoken'
  BY <1>2 DEF Lives, Spoken
<1> QED
  BY <1>1, <1>3, SilentStep DEF Lives

\* The task is done with the message in hand.
LEMMA AdvanceLives ==
  ASSUME Inv, Lives, batch /= <<>>, Advance, sent' = sent, http'.answer = <<>>,
         unsent' = unsent, queue' = queue
  PROVE  Lives'
<1>1. /\ IsInjective(batch') /\ Head(batch) \in Range(batch)
      /\ Range(batch') \subseteq Range(batch) \ {Head(batch)}
  BY TailFacts DEF Inv, TypeOK, Lives, Lifecycle, Advance
<1>2. Lifecycle'
  BY <1>1, EmptyFacts DEF Lives, Lifecycle
<1>3. ASSUME NEW msg, SpokenFor(msg) PROVE SpokenFor(msg)'
  BY <1>1, <1>3, EmptyFacts DEF SpokenFor, IsReply
<1>4. Spoken'
  BY <1>3 DEF Lives, Spoken
<1> QED
  BY <1>2, <1>4, SilentStep DEF Lives

\* A message is sent: on behalf of the one in hand, and a reply only if no
\* reply to it was sent before.
LEMMA SendLives ==
  ASSUME ModelsAssumption, ProcessorAssumption, Inv, Lives, SendMessage
  PROVE  Lives'
<1> DEFINE new == MessageAt(pc)
<1>1. pc \in SendPoints /\ batch /= <<>> /\ http = Quiet
  BY DEF SendMessage, Inv, Placed, Handling
<1>2. /\ new \in Outgoing /\ new.src = config.agtuuid /\ new.via = client
      /\ new.re = {Current}
      /\ IsReply(new) <=> pc \in {"reply", "ack"}
  BY <1>1, MessageType DEF Inv
<1>3. Current \in Messages /\ Current = Head(batch) /\ Current \in Range(batch)
  BY <1>1, InHand, TailFacts DEF Inv, TypeOK, Lives, Lifecycle, Current
<1>4. /\ UNCHANGED <<config, client, pc, batch, unsent, queue>>
      /\ http' = Requested(new) /\ sent' = Append(sent, new)
  BY DEF SendMessage, peerVars
<1>5. http'.answer = http.answer /\ http'.state = "sent"
  BY <1>1, <1>4 DEF Requested, Quiet
<1>6. /\ Len(sent) \in Nat /\ DOMAIN sent = 1..Len(sent)
      /\ DOMAIN sent' = 1..(Len(sent) + 1)
      /\ \A i \in DOMAIN sent : sent'[i] = sent[i]
      /\ sent'[Len(sent) + 1] = new
  <2>1. sent \in Seq(Outgoing)
    BY DEF Inv, TypeOK
  <2> QED
    BY <1>2, <1>4, <2>1, AppendProperties, LenProperties
<1>7. \A i \in DOMAIN sent :
        sent[i].re = {Current} =>
          /\ sent[i].src = config.agtuuid /\ sent[i].via = client
          /\ ~(IsReply(sent[i]) /\ IsReply(new))
  <2> SUFFICES ASSUME NEW i \in DOMAIN sent, sent[i].re = {Current}
               PROVE  /\ sent[i].src = config.agtuuid /\ sent[i].via = client
                      /\ ~(IsReply(sent[i]) /\ IsReply(new))
    OBVIOUS
  <2>1. SpokenFor(sent[i])
    BY DEF Lives, Spoken
  <2> QED
    BY <1>1, <1>3, <2>1 DEF SpokenFor, Quiet
<1>8. Lifecycle'
  BY <1>4, <1>5 DEF Lives, Lifecycle
<1>9. Spoken'
  <2>1. ASSUME NEW msg, SpokenFor(msg) PROVE SpokenFor(msg)'
    BY <1>1, <1>4, <1>5, <2>1 DEF SpokenFor, IsReply, Quiet
  <2>2. ASSUME NEW msg, msg = new PROVE SpokenFor(msg)'
    <3>1. Current \notin unsent \cup queue \cup Range(http.answer)
      BY <1>1, <1>3, EmptyFacts DEF Lives, Lifecycle, Quiet
    <3> QED
      BY <1>1, <1>2, <1>3, <1>4, <1>5, <2>2, <3>1 DEF SpokenFor, IsReply, SendPoints
  <2>3. ASSUME NEW i \in DOMAIN sent' PROVE SpokenFor(sent[i])'
    <3>1. CASE i \in DOMAIN sent
      BY <1>6, <2>1, <3>1 DEF Lives, Spoken
    <3>2. CASE i = Len(sent) + 1
      BY <1>6, <2>2, <3>2
    <3> QED BY <1>6, <3>1, <3>2
  <2> QED BY <2>3 DEF Spoken
<1>10. OneIdentity'
  BY <1>2, <1>6, <1>7 DEF Lives, OneIdentity
<1>11. AtMostOneReply'
  BY <1>2, <1>6, <1>7 DEF Lives, AtMostOneReply, IsReply
<1> QED
  BY <1>8, <1>9, <1>10, <1>11 DEF Lives

\* One step of the task.
LEMMA TaskLives ==
  ASSUME ModelsAssumption, ProcessorAssumption, Inv, Lives, Task
  PROVE  Lives'
<1> USE DEF peerVars, storeVars
<1>0. /\ pc \notin Handling => batch = <<>>
      /\ pc /= "poll" => http.answer = <<>>
      /\ Quiet.answer = <<>>
  BY DEF Inv, Placed, Quiet
<1>1. CASE Reload
  BY <1>0, <1>1, EmptyHanded DEF Reload, Handling, SendPoints, Lives, Lifecycle
<1>2. CASE Delay
  BY <1>0, <1>2, EmptyHanded DEF Delay, Handling, SendPoints, Lives, Lifecycle
<1>3. CASE PollDisabled
  BY <1>0, <1>3, EmptyHanded
     DEF PollDisabled, AtGate, Handling, SendPoints, Lives, Lifecycle
<1>4. CASE SendPoll
  <2>1. http'.answer = <<>>
    BY <1>4 DEF SendPoll, Requested
  <2> QED
    BY <1>0, <1>4, <2>1, EmptyHanded
       DEF SendPoll, AtGate, Handling, SendPoints, Lives, Lifecycle
<1>5. CASE PollFailed
  BY <1>0, <1>5, EmptyHanded DEF PollFailed, Handling, SendPoints, Lives, Lifecycle
<1>6. CASE PollReturned
  <2>1. /\ batch' = http.answer /\ http'.answer = <<>> /\ batch = <<>>
        /\ UNCHANGED <<unsent, queue, sent, config, client>>
    BY <1>0, <1>6 DEF PollReturned, Handling, SendPoints
  <2>2. Lifecycle'
    BY <2>1, EmptyFacts DEF Lives, Lifecycle
  <2>3. ASSUME NEW msg, SpokenFor(msg) PROVE SpokenFor(msg)'
    BY <2>1, <2>3, EmptyFacts DEF SpokenFor, IsReply
  <2>4. Spoken'
    BY <2>1, <2>3 DEF Lives, Spoken
  <2> QED BY <2>1, <2>2, <2>4, SilentStep DEF Lives
<1>7. CASE TakeTicket
  BY <1>7, SamePlaces DEF TakeTicket, Lives, Lifecycle
<1>8. CASE TakePing
  BY <1>8, SamePlaces DEF TakePing, Lives, Lifecycle
<1>9. CASE IgnoreMessage
  <2>1. batch /= <<>> /\ http'.answer = <<>>
    BY <1>0, <1>9 DEF IgnoreMessage, Inv, Placed, Handling
  <2> QED BY <1>9, <2>1, AdvanceLives DEF IgnoreMessage
<1>10. CASE ProcessForm
  BY <1>10, SamePlaces DEF ProcessForm, Lives, Lifecycle
<1>11. CASE AbortOnForm
  BY <1>0, <1>11, EmptyHanded DEF AbortOnForm, Reboot, Lives, Lifecycle
<1>12. CASE SendMessage
  BY <1>12, SendLives
<1>13. CASE SendReturned
  <2>1. /\ batch /= <<>> /\ http'.answer = http.answer /\ http'.answer = <<>>
        /\ UNCHANGED <<unsent, queue, sent, config, client>>
    BY <1>0, <1>13 DEF SendReturned, Inv, Placed, Handling, SendPoints
  <2>2. CASE Advance
    BY <2>1, <2>2, AdvanceLives
  <2>3. CASE ~Advance
    <3>1. batch' = batch /\ pc \notin {"reply", "ack"} /\ pc' /= "dispatch"
      BY <1>13, <2>3 DEF SendReturned, SendPoints
    <3> QED BY <2>1, <3>1, SamePlaces DEF Lives, Lifecycle
  <2> QED BY <2>2, <2>3
<1> QED
  BY <1>1, <1>2, <1>3, <1>4, <1>5, <1>6, <1>7, <1>8, <1>9, <1>10, <1>11, <1>12, <1>13
     DEF Task

\* One step of the exchange, the peer, the console or the power supply.
LEMMA EnvironmentLives ==
  ASSUME ModelsAssumption, ProcessorAssumption, Inv, Lives,
         Exchange \/ LatePoll \/ Post \/ BeginSave \/ EndSave \/ PowerLoss
  PROVE  Lives'
<1> USE DEF peerVars, storeVars, taskVars
<1>1. CASE AnswerPoll
  <2>1. PICK a \in Answers : /\ http' = [http EXCEPT !.state = "answered", !.answer = a]
                             /\ queue' = queue \ Range(a)
    BY <1>1 DEF AnswerPoll
  <2>2. a \in Seq(Messages) /\ IsInjective(a) /\ Range(a) \subseteq queue
    BY AnswersType DEF Inv, TypeOK
  <2>3. http'.answer = a
    BY <2>1 DEF Inv, TypeOK, Exchanges
  <2>4. /\ UNCHANGED <<config, client, pc, batch, unsent, sent>>
        /\ batch = <<>>
    <3>1. pc = "poll"
      BY <1>1 DEF AnswerPoll, InFlight, Inv, Placed
    <3> QED BY <1>1, <3>1 DEF AnswerPoll, Inv, Placed, Handling, SendPoints
  <2>5. Lifecycle'
    BY <2>1, <2>2, <2>3, <2>4, EmptyFacts DEF Lives, Lifecycle
  <2>6. ASSUME NEW msg, SpokenFor(msg) PROVE SpokenFor(msg)'
    BY <2>1, <2>2, <2>3, <2>4, <2>6, EmptyFacts DEF SpokenFor
  <2>7. Spoken'
    BY <2>4, <2>6 DEF Lives, Spoken
  <2> QED BY <2>4, <2>5, <2>7, SilentStep DEF Lives
<1>2. CASE AnswerSend
  <2>1. http'.answer = http.answer /\ http'.state = "answered"
    BY <1>2 DEF AnswerSend, Inv, TypeOK, Exchanges
  <2> QED BY <1>2, <2>1, SamePlaces DEF AnswerSend, Lives, Lifecycle
<1>3. CASE ExchangeFails
  <2>1. http'.answer = http.answer /\ http'.state = "failed"
    BY <1>3 DEF ExchangeFails, Inv, TypeOK, Exchanges
  <2> QED BY <1>3, <2>1, SamePlaces DEF ExchangeFails, Lives, Lifecycle
<1>4. CASE LatePoll
  BY <1>4, SamePlaces DEF LatePoll, Lives, Lifecycle
<1>5. CASE Post
  BY <1>5, SamePlaces DEF Post, Lives, Lifecycle
<1>6. CASE BeginSave
  BY <1>6, SamePlaces DEF BeginSave, Lives, Lifecycle
<1>7. CASE EndSave
  BY <1>7, SamePlaces DEF EndSave, Lives, Lifecycle
<1>8. CASE PowerLoss
  BY <1>8, EmptyHanded DEF PowerLoss, Reboot, Quiet, Lives, Lifecycle
<1> QED
  BY <1>1, <1>2, <1>3, <1>4, <1>5, <1>6, <1>7, <1>8 DEF Exchange
-----------------------------------------------------------------------------
\* Inv and Lives together are inductive.
THEOREM LivesHolds == Spec => [](Inv /\ Lives)
<1>1. Init => Lives
  BY EmptyFacts
     DEF Init, Quiet, Lives, Lifecycle, Spoken, OneIdentity, AtMostOneReply
<1>2. Inv /\ Lives /\ [Next]_vars => Lives'
  <2>1. ASSUME Inv, Lives, UNCHANGED vars PROVE Lives'
    BY <2>1, SamePlaces DEF vars, taskVars, storeVars, peerVars, Lives, Lifecycle
  <2> QED
    BY <2>1, TaskLives, EnvironmentLives, ModelsAssumption, ProcessorAssumption DEF Next
<1> QED
  BY <1>1, <1>2, InvHolds, PTL DEF Spec

\* A message is answered at most once, whatever is lost, late or restarted, and
\* whatever the peer puts into one answer.
THEOREM AnsweredAtMostOnce == Spec => []AtMostOneReply
<1>1. Lives => AtMostOneReply
  BY DEF Lives
<1> QED
  BY LivesHolds, <1>1, PTL

\* Everything sent on behalf of one message carries one identity and takes one
\* way, whatever the console saves meanwhile.
THEOREM OneIdentityPerMessage == Spec => []OneIdentity
<1>1. Lives => OneIdentity
  BY DEF Lives
<1> QED
  BY LivesHolds, <1>1, PTL
=============================================================================
