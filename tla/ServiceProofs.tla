---------------------------- MODULE ServiceProofs ----------------------------
(***************************************************************************)
(* What the processor does with the messages it takes, for every value of  *)
(* its constants: it answers each with its own answer, traces surround the *)
(* work, polls are paced, one message is held at a time, and all of that   *)
(* together is TicketService.                                              *)
(***************************************************************************)
EXTENDS ProcessorProofs

\* The loop polls again only after a delay or after messages that came.
Paced ==
  /\ pc = "gate" \/ (pc = "top" /\ ~idle) => calm
  /\ pc \in Handling => calm /\ ~idle

\* Only an exchange that was answered has an answer; of a peer that respects
\* the limit it has one message at most.
Modest ==
  /\ http.answer /= <<>> => http.state = "answered"
  /\ PeerHonours => Len(batch) <= Limit /\ Len(http.answer) <= Limit

\* The place of the task tells what the message in hand is and how far its
\* form is worked out.
Worked ==
  /\ pc \in {"trace_request", "form", "trace_response", "reply"} =>
       Current.type = "ticket_request"
  /\ pc = "ack" => Current.type = "ping"
  /\ pc \in {"trace_request", "form"} => form = Current.form
  /\ pc \in {"trace_response", "reply"} =>
       form \in ProcessedForms(Current.form, ConfigSet)

\* The last k messages sent are hops of the message in hand with these tags.
LastHops(tags) ==
  /\ Len(tags) <= Len(sent)
  /\ \A k \in DOMAIN tags :
       IsTrace(sent[Len(sent) - Len(tags) + k], Current, tags[k])

\* The place of the task tells which hops of the ticket in hand are out.
Tracing ==
  /\ pc \in {"trace_request", "trace_response"} => Current.tracing
  /\ pc \in Handling /\ Current.tracing =>
       /\ \/ pc = "trace_request" /\ http.state /= "quiet"
          \/ pc = "form"
          \/ pc = "trace_response" /\ http.state = "quiet"
          => LastHops(<<"ticket_request">>)
       /\ \/ pc = "trace_response" /\ http.state /= "quiet"
          \/ pc = "reply" /\ http.state = "quiet"
          => LastHops(<<"ticket_request", "ticket_response">>)

\* A reply that is on its way is the answer to the message in hand.
Replying == pc \in {"reply", "ack"} /\ http.state /= "quiet" => Answered(Current)

Work == /\ Paced /\ Modest /\ Worked /\ Tracing /\ Replying
        /\ ReplyMatchesRequest /\ TracesBracketWork
-----------------------------------------------------------------------------
\* More configurations to load, more forms that can come back.
LEMMA ProcessedGrows ==
  ASSUME NEW f, NEW L, NEW M, L \subseteq M
  PROVE  ProcessedForms(f, L) \subseteq ProcessedForms(f, M)
  BY DEF ProcessedForms

\* An answer of a peer that respects the limit is not longer than it.
LEMMA AnswerWithinLimit ==
  ASSUME ProcessorAssumption, PeerHonours, NEW a \in Answers
  PROVE  Len(a) <= Limit
<1>1. PICK S \in SUBSET queue, n \in 0..Limit : a \in [1..n -> S]
  <2>1. \E S \in SUBSET queue : a \in Batches(S, Limit)
    BY DEF Answers
  <2> QED BY <2>1 DEF Batches
<1>2. n \in Nat /\ n <= Limit /\ a \in Seq(S)
  BY <1>1 DEF Limit
<1>3. Len(a) = n
  BY <1>1, <1>2
<1> QED
  BY <1>2, <1>3

\* The polls are paced in every step.
LEMMA PacedStep ==
  ASSUME Inv, Paced, [Next]_vars
  PROVE  Paced'
<1> USE DEF Paced, Handling, SendPoints
<1>1. CASE Task
  <2>1. CASE Reload \/ Delay \/ PollDisabled \/ SendPoll \/ PollFailed
    BY <2>1 DEF Reload, Delay, PollDisabled, SendPoll, PollFailed, AtGate
  <2>2. CASE PollReturned
    BY <2>2 DEF PollReturned
  <2>3. CASE TakeTicket \/ TakePing \/ ProcessForm \/ SendMessage
    BY <2>3 DEF TakeTicket, TakePing, ProcessForm, SendMessage
  <2>4. CASE IgnoreMessage \/ SendReturned
    BY <2>4 DEF IgnoreMessage, SendReturned, Advance
  <2>5. CASE AbortOnForm
    BY <2>5 DEF AbortOnForm, Reboot
  <2> QED
    BY <1>1, <2>1, <2>2, <2>3, <2>4, <2>5 DEF Task
<1>2. CASE UNCHANGED <<pc, idle, calm>>
  BY <1>2
<1>3. CASE Exchange \/ LatePoll \/ Post \/ BeginSave \/ EndSave \/ UNCHANGED vars
  <2>1. UNCHANGED <<pc, idle, calm>>
    BY <1>3 DEF Exchange, AnswerPoll, AnswerSend, ExchangeFails, LatePoll, Post, BeginSave,
       EndSave, vars, taskVars
  <2> QED
    BY <2>1
<1>4. CASE PowerLoss
  BY <1>4 DEF PowerLoss, Reboot
<1> QED
  BY <1>1, <1>3, <1>4 DEF Next

\* The task never has more than the peer may give it.
LEMMA ModestStep ==
  ASSUME ProcessorAssumption, Inv, Modest, [Next]_vars
  PROVE  Modest'
<1> USE DEF Modest, Quiet, Limit
<1>1. Len(<<>>) = 0
  OBVIOUS
<1>2. CASE SendPoll \/ SendMessage
  BY <1>1, <1>2 DEF SendPoll, SendMessage, Requested
<1>3. CASE PollFailed \/ PollReturned
  BY <1>1, <1>3 DEF PollFailed, PollReturned
<1>4. CASE IgnoreMessage \/ SendReturned
  <2>1. http' = Quiet
    BY <1>4 DEF IgnoreMessage, SendReturned, Inv, Placed, SendPoints
  <2>2. batch' = batch \/ batch' = Tail(batch)
    BY <1>4 DEF IgnoreMessage, SendReturned, Advance
  <2>3. batch \in Seq(Messages) /\ batch /= <<>>
    BY <1>4 DEF IgnoreMessage, SendReturned, Inv, TypeOK, Placed, Handling
  <2>4. Len(batch') <= Len(batch)
    BY <2>2, <2>3, HeadTailProperties
  <2>5. Len(batch) \in Nat /\ Len(batch') \in Nat
    BY <2>2, <2>3, HeadTailProperties, LenProperties
  <2> QED
    BY <1>1, <2>1, <2>4, <2>5
<1>5. CASE AbortOnForm \/ PowerLoss
  BY <1>1, <1>5 DEF AbortOnForm, PowerLoss, Reboot
<1>6. CASE AnswerPoll
  <2>1. PICK a \in Answers : http' = [http EXCEPT !.state = "answered", !.answer = a]
    BY <1>6 DEF AnswerPoll
  <2>2. http'.state = "answered" /\ http'.answer = a /\ batch' = batch
    BY <1>6, <2>1 DEF AnswerPoll, Inv, TypeOK, Exchanges
  <2> QED
    BY <2>2, AnswerWithinLimit
<1>7. CASE AnswerSend \/ ExchangeFails
  BY <1>7 DEF AnswerSend, ExchangeFails, Inv, TypeOK, Exchanges, InFlight
<1>8. CASE UNCHANGED <<batch, http>>
  BY <1>8
<1>9. \/ SendPoll \/ SendMessage \/ PollFailed \/ PollReturned \/ IgnoreMessage
      \/ SendReturned \/ AbortOnForm \/ PowerLoss \/ AnswerPoll \/ AnswerSend
      \/ ExchangeFails \/ UNCHANGED <<batch, http>>
  BY DEF Next, Task, Exchange, Reload, Delay, PollDisabled, TakeTicket, TakePing,
     ProcessForm, LatePoll, Post, BeginSave, EndSave, vars, taskVars
<1> QED
  BY <1>2, <1>3, <1>4, <1>5, <1>6, <1>7, <1>8, <1>9

\* Appending to what was sent.
LEMMA SentGrows ==
  ASSUME sent \in Seq(Outgoing), NEW new \in Outgoing, sent' = Append(sent, new)
  PROVE  /\ Len(sent) \in Nat /\ Len(sent') = Len(sent) + 1
         /\ DOMAIN sent = 1..Len(sent) /\ DOMAIN sent' = 1..(Len(sent) + 1)
         /\ \A i \in DOMAIN sent : sent'[i] = sent[i]
         /\ sent'[Len(sent) + 1] = new
  BY AppendProperties, LenProperties

\* The steps that do not bear on the message in hand: they let go of it, take
\* up the next one, or leave all as it is but the state of the exchange.
LEMMA Aside ==
  ASSUME Inv, [Next]_vars,
         ~(TakeTicket \/ TakePing \/ ProcessForm \/ SendMessage \/ SendReturned)
  PROVE  /\ sent' = sent
         /\ \/ pc' \notin Handling \ {"dispatch"}
            \/ /\ UNCHANGED <<pc, batch, form>>
               /\ http'.state = "quiet" <=> http.state = "quiet"
<1> USE DEF Handling, SendPoints
<1>1. CASE Task
  <2>1. CASE Reload \/ Delay \/ PollDisabled \/ SendPoll \/ PollFailed
    BY <2>1 DEF Reload, Delay, PollDisabled, SendPoll, PollFailed
  <2>2. CASE PollReturned
    BY <2>2 DEF PollReturned
  <2>3. CASE IgnoreMessage
    BY <2>3 DEF IgnoreMessage, Advance
  <2>4. CASE AbortOnForm
    BY <2>4 DEF AbortOnForm, Reboot
  <2> QED
    BY <1>1, <2>1, <2>2, <2>3, <2>4 DEF Task
<1>2. CASE AnswerPoll \/ AnswerSend \/ ExchangeFails
  <2>1. sent' = sent /\ UNCHANGED <<pc, batch, form>>
    BY <1>2 DEF AnswerPoll, AnswerSend, ExchangeFails
  <2>2. http.state = "sent" /\ http'.state /= "quiet"
    BY <1>2 DEF AnswerPoll, AnswerSend, ExchangeFails, InFlight, Inv, TypeOK, Exchanges
  <2> QED
    BY <2>1, <2>2
<1>3. CASE LatePoll \/ Post \/ BeginSave \/ EndSave \/ UNCHANGED vars
  BY <1>3 DEF LatePoll, Post, BeginSave, EndSave, vars, taskVars
<1>4. CASE PowerLoss
  BY <1>4 DEF PowerLoss, Reboot
<1> QED
  BY <1>1, <1>2, <1>3, <1>4 DEF Next, Exchange

\* The part of Work that follows the message in hand.
Course == Worked /\ Tracing /\ Replying /\ ReplyMatchesRequest /\ TracesBracketWork

LEMMA AsideCourse ==
  ASSUME Inv, Course, [Next]_vars,
         ~(TakeTicket \/ TakePing \/ ProcessForm \/ SendMessage \/ SendReturned)
  PROVE  Course'
<1>1. /\ sent' = sent
      /\ \/ pc' \notin Handling \ {"dispatch"}
         \/ /\ UNCHANGED <<pc, batch, form>>
            /\ http'.state = "quiet" <=> http.state = "quiet"
  BY Aside
<1>2. ReplyMatchesRequest' /\ TracesBracketWork'
  BY <1>1 DEF Course, ReplyMatchesRequest, TracesBracketWork
<1>3. CASE pc' \notin Handling \ {"dispatch"}
  BY <1>2, <1>3 DEF Course, Worked, Tracing, Replying, Handling, SendPoints
<1>4. CASE UNCHANGED <<pc, batch, form>> /\ (http'.state = "quiet" <=> http.state = "quiet")
  BY <1>1, <1>2, <1>4
     DEF Course, Worked, Tracing, Replying, Current, LastHops, Answered, IsReply
<1> QED
  BY <1>1, <1>3, <1>4

\* Taking up a message and working out its form.
LEMMA LocalCourse ==
  ASSUME ModelsAssumption, ProcessorAssumption, Inv, Course,
         TakeTicket \/ TakePing \/ ProcessForm
  PROVE  Course'
<1>1. sent' = sent /\ batch' = batch /\ http' = http /\ http.state = "quiet"
  BY DEF TakeTicket, TakePing, ProcessForm, Inv, Placed, SendPoints, Quiet
<1>2. ReplyMatchesRequest' /\ TracesBracketWork'
  BY <1>1 DEF Course, ReplyMatchesRequest, TracesBracketWork
<1>3. Current' = Current
  BY <1>1 DEF Current
<1>4. \A tags : LastHops(tags)' = LastHops(tags)
  BY <1>1, <1>3 DEF LastHops
<1>5. CASE TakeTicket
  BY <1>1, <1>2, <1>3, <1>4, <1>5 DEF TakeTicket, Course, Worked, Tracing, Replying
<1>6. CASE TakePing
  BY <1>1, <1>2, <1>3, <1>4, <1>6 DEF TakePing, Course, Worked, Tracing, Replying
<1>7. CASE ProcessForm
  <2>1. pc = "form" /\ form' \in ProcessedForms(form, Loads)
        /\ pc' = IF Current.tracing THEN "trace_response" ELSE "reply"
    BY <1>7 DEF ProcessForm
  <2>2. form = Current.form /\ Current.type = "ticket_request"
        /\ (Current.tracing => LastHops(<<"ticket_request">>))
    BY <2>1 DEF Course, Worked, Tracing, Handling
  <2>3. Loads \subseteq ConfigSet
    BY LoadsType DEF Inv, TypeOK
  <2>4. form' \in ProcessedForms(Current.form, ConfigSet)
    BY <2>1, <2>2, <2>3, ProcessedGrows
  <2>5. Worked'
    BY <1>3, <2>1, <2>2, <2>4 DEF Worked
  <2>6. Tracing'
    BY <1>1, <1>3, <1>4, <2>1, <2>2 DEF Tracing
  <2>7. Replying'
    BY <1>1, <2>1 DEF Replying
  <2> QED
    BY <1>2, <2>5, <2>6, <2>7 DEF Course
<1> QED
  BY <1>5, <1>6, <1>7

\* A send: a reply is the answer to the message in hand, and its traces, if it
\* is traced, are the last two messages sent.
LEMMA SendCourse ==
  ASSUME ModelsAssumption, ProcessorAssumption, Inv, Course, SendMessage
  PROVE  Course'
<1> DEFINE new == MessageAt(pc)
<1>1. pc \in SendPoints /\ batch /= <<>> /\ http.state = "quiet"
  BY DEF SendMessage, Inv, Placed, Handling
<1>2. /\ new \in Outgoing /\ new.re = {Current}
      /\ IsReply(new) <=> pc \in {"reply", "ack"}
  BY <1>1, MessageType DEF Inv
<1>3. /\ UNCHANGED <<pc, batch, form>> /\ http'.state = "sent"
      /\ sent' = Append(sent, new)
  BY DEF SendMessage, Requested
<1>4. /\ Len(sent) \in Nat /\ Len(sent') = Len(sent) + 1
      /\ DOMAIN sent = 1..Len(sent) /\ DOMAIN sent' = 1..(Len(sent) + 1)
      /\ \A i \in DOMAIN sent : sent'[i] = sent[i]
      /\ sent'[Len(sent) + 1] = new
  BY <1>2, <1>3, SentGrows DEF Inv, TypeOK
<1>5. Current' = Current
  BY <1>3 DEF Current
<1>6. Worked'
  BY <1>3, <1>5 DEF Course, Worked
<1>7. /\ pc = "trace_request" => IsTrace(new, Current, "ticket_request")
      /\ pc = "trace_response" => IsTrace(new, Current, "ticket_response")
      /\ new.type = "ticket_response" <=> pc = "reply"
      /\ new.type = "ticket_trace_response" <=> pc \in {"trace_request", "trace_response"}
  BY <1>1 DEF MessageAt, TicketTraceResponse, TicketResponse, Acknowledgement, IsTrace,
     SendPoints
<1>8. ASSUME NEW i \in DOMAIN sent'
      PROVE  \/ i \in DOMAIN sent /\ sent'[i] = sent[i]
             \/ i = Len(sent) + 1 /\ sent'[i] = new
  <2>1. i \in 1..Len(sent) \/ i = Len(sent) + 1
    BY <1>4
  <2> QED
    BY <1>4, <2>1
<1>9. Tracing'
  <2>1. CASE pc = "trace_request"
    <3>1. LastHops(<<"ticket_request">>)'
      BY <1>4, <1>5, <1>7, <2>1 DEF LastHops
    <3> QED
      BY <1>3, <1>5, <2>1, <3>1 DEF Course, Tracing
  <2>2. CASE pc = "trace_response"
    <3>1. Current.tracing => LastHops(<<"ticket_request">>)
      BY <1>1, <2>2 DEF Course, Tracing, Handling
    <3>2. ASSUME Current.tracing
          PROVE  LastHops(<<"ticket_request", "ticket_response">>)'
      <4>1. Len(sent) >= 1 /\ IsTrace(sent'[Len(sent)], Current, "ticket_request")
        BY <1>4, <3>1, <3>2 DEF LastHops
      <4>2. IsTrace(sent'[Len(sent) + 1], Current, "ticket_response")
        BY <1>4, <1>7, <2>2
      <4>3. /\ Len(sent') - 2 + 1 = Len(sent) /\ Len(sent') - 2 + 2 = Len(sent) + 1
            /\ Len(sent') >= 2
        BY <1>4, <4>1
      <4> QED
        BY <1>5, <4>1, <4>2, <4>3 DEF LastHops
    <3> QED
      BY <1>3, <1>5, <2>2, <3>2 DEF Course, Tracing
  <2>3. CASE pc \in {"reply", "ack"}
    BY <1>3, <2>3 DEF Tracing
  <2> QED
    BY <1>1, <2>1, <2>2, <2>3 DEF SendPoints
<1>10. Replying'
  BY <1>2, <1>3, <1>4, <1>5 DEF Replying, Answered
<1>11. ReplyMatchesRequest'
  <2>1. IsReply(new) =>
          /\ new.dest = {Current.src}
          /\ new.type = "ticket_response" =>
               /\ new.tckuuid = {Current.tckuuid}
               /\ new.form \in ProcessedForms(Current.form, ConfigSet)
    <3>1. CASE pc = "reply"
      BY <3>1 DEF Course, Worked, MessageAt, TicketResponse
    <3>2. CASE pc = "ack"
      BY <3>2 DEF MessageAt, Acknowledgement
    <3> QED
      BY <1>2, <3>1, <3>2
  <2> QED
    BY <1>2, <1>8, <2>1 DEF Course, ReplyMatchesRequest
<1>12. TracesBracketWork'
  <2>1. ASSUME new.type = "ticket_response", Current.tracing
        PROVE  LastHops(<<"ticket_request", "ticket_response">>)
    BY <1>1, <1>7, <2>1 DEF Course, Tracing, Handling, SendPoints
  <2>2. new.type = "ticket_trace_response" => Current.tracing
    BY <1>7 DEF Course, Tracing
  <2>3. ASSUME NEW i \in DOMAIN sent', sent'[i].type = "ticket_response",
               NEW m \in sent'[i].re, m.tracing
        PROVE  /\ i > 2
               /\ IsTrace(sent'[i-2], m, "ticket_request")
               /\ IsTrace(sent'[i-1], m, "ticket_response")
    <3>1. CASE i \in DOMAIN sent /\ sent'[i] = sent[i]
      BY <1>4, <2>3, <3>1 DEF Course, TracesBracketWork
    <3>2. CASE i = Len(sent) + 1 /\ sent'[i] = new
      <4>1. m = Current
        BY <1>2, <2>3, <3>2
      <4>2. /\ Len(sent) >= 2
            /\ IsTrace(sent[Len(sent) - 1], Current, "ticket_request")
            /\ IsTrace(sent[Len(sent)], Current, "ticket_response")
        BY <1>4, <2>1, <2>3, <3>2, <4>1 DEF LastHops
      <4> QED
        BY <1>4, <3>2, <4>1, <4>2
    <3> QED
      BY <1>8, <3>1, <3>2
  <2>4. ASSUME NEW i \in DOMAIN sent', sent'[i].type = "ticket_trace_response",
               NEW m \in sent'[i].re
        PROVE  m.tracing
    BY <1>2, <1>8, <2>2, <2>4 DEF Course, TracesBracketWork
  <2> QED
    BY <2>3, <2>4 DEF TracesBracketWork
<1> QED
  BY <1>6, <1>9, <1>10, <1>11, <1>12 DEF Course

\* The return of a send.
LEMMA SendReturnedCourse ==
  ASSUME Inv, Course, SendReturned
  PROVE  Course'
<1>1. /\ sent' = sent /\ http'.state = "quiet" /\ http.state /= "quiet"
      /\ pc \in SendPoints
  BY DEF SendReturned, Quiet
<1>2. ReplyMatchesRequest' /\ TracesBracketWork'
  BY <1>1 DEF Course, ReplyMatchesRequest, TracesBracketWork
<1>3. CASE Advance
  BY <1>1, <1>2, <1>3 DEF Advance, Course, Worked, Tracing, Replying, Handling, SendPoints
<1>4. CASE /\ UNCHANGED <<batch, form>>
           /\ \/ pc = "trace_request" /\ pc' = "form"
              \/ pc = "trace_response" /\ pc' = "reply"
  <2>1. Current' = Current /\ \A tags : LastHops(tags)' = LastHops(tags)
    BY <1>1, <1>4 DEF Current, LastHops
  <2>2. Worked'
    BY <1>4, <2>1 DEF Course, Worked
  <2>3. Tracing'
    BY <1>1, <1>4, <2>1 DEF Course, Tracing, Handling, SendPoints
  <2> QED
    BY <1>1, <1>2, <2>2, <2>3 DEF Course, Replying
<1> QED
  BY <1>3, <1>4 DEF SendReturned, SendPoints

\* Work is inductive, on top of Inv.
THEOREM WorkHolds == Spec => []Work
<1>1. Init => Work
  BY DEF Init, Quiet, Work, Paced, Modest, Worked, Tracing, Replying, ReplyMatchesRequest,
     TracesBracketWork, Handling, SendPoints, Limit
<1>2. Inv /\ Work /\ [Next]_vars => Work'
  <2>1. Work <=> Paced /\ Modest /\ Course
    BY DEF Work, Course
  <2>2. (Paced /\ Modest /\ Course)' => Work'
    BY DEF Work, Course
  <2> QED
    BY <2>1, <2>2, PacedStep, ModestStep, AsideCourse, LocalCourse, SendCourse,
       SendReturnedCourse, ModelsAssumption, ProcessorAssumption
<1> QED
  BY <1>1, <1>2, InvHolds, PTL DEF Spec

\* A reply goes to the sender of the message it answers, with that ticket's
\* own identifier and its own form, worked out.
THEOREM RepliesMatch == Spec => []ReplyMatchesRequest
<1>1. Work => ReplyMatchesRequest
  BY DEF Work
<1> QED
  BY WorkHolds, <1>1, PTL

\* The response to a traced ticket comes right after its two hops, in order;
\* only a traced ticket leaves hops.
THEOREM TracesSurroundWork == Spec => []TracesBracketWork
<1>1. Work => TracesBracketWork
  BY DEF Work
<1> QED
  BY WorkHolds, <1>1, PTL

\* With a peer that respects the limit the device never holds a second message.
THEOREM HoldsOneMessage == Spec => []OneAtATime
<1>1. Inv /\ Work => OneAtATime
  <2> SUFFICES ASSUME Inv, Work, PeerHonours PROVE Len(batch) + Len(http.answer) <= 1
    BY DEF OneAtATime
  <2>1. batch = <<>> \/ http.answer = <<>>
    BY DEF Inv, Placed, Handling, SendPoints
  <2>2. /\ Len(batch) \in Nat /\ Len(http.answer) \in Nat
        /\ Len(batch) <= 1 /\ Len(http.answer) <= 1
    BY LenProperties DEF Inv, TypeOK, Exchanges, Work, Modest, Limit
  <2>3. Len(<<>>) = 0
    OBVIOUS
  <2> QED
    BY <2>1, <2>2, <2>3
<1> QED
  BY InvHolds, WorkHolds, <1>1, PTL

\* No poll is sent but after the delay or after an answer with messages.
THEOREM PollsArePaced == Spec => PacedPolling
<1>1. Inv /\ Work => [SendPoll => calm]_vars
  BY DEF Work, Paced, SendPoll, AtGate
<1> QED
  BY InvHolds, WorkHolds, <1>1, PTL DEF Spec, PacedPolling
-----------------------------------------------------------------------------
(* The refinement of TicketService *)

\* What is in a sequence is its head or in its tail.
LEMMA TailRange ==
  ASSUME NEW S, NEW s \in Seq(S), s /= <<>>
  PROVE  Range(s) = Range(Tail(s)) \cup {Head(s)}
<1>1. /\ Head(s) = s[1] /\ Tail(s) \in Seq(S) /\ Len(Tail(s)) = Len(s) - 1
      /\ \A i \in 1..Len(Tail(s)) : Tail(s)[i] = s[i+1]
      /\ Len(s) \in Nat \ {0}
  BY HeadTailProperties, EmptySeq
<1>2. DOMAIN s = 1..Len(s) /\ DOMAIN Tail(s) = 1..(Len(s) - 1)
  BY <1>1
<1>3. \A i \in 1..Len(s) : i = 1 \/ (i - 1 \in DOMAIN Tail(s) /\ s[i] = Tail(s)[i-1])
  BY <1>1, <1>2
<1>4. \A i \in DOMAIN Tail(s) : i + 1 \in DOMAIN s /\ Tail(s)[i] = s[i+1]
  BY <1>1, <1>2
<1>5. Range(s) = {s[i] : i \in DOMAIN s}
      /\ Range(Tail(s)) = {Tail(s)[i] : i \in DOMAIN Tail(s)}
  BY DEF Range
<1>6. \A m \in Range(s) : m \in Range(Tail(s)) \cup {Head(s)}
  <2>1. SUFFICES ASSUME NEW i \in 1..Len(s) PROVE s[i] \in Range(Tail(s)) \cup {Head(s)}
    BY <1>2, <1>5
  <2> QED BY <1>1, <1>3, <1>5
<1>7. Range(Tail(s)) \subseteq Range(s)
  BY <1>4, <1>5
<1>8. Head(s) \in Range(s)
  BY <1>1, <1>2, <1>5
<1> QED
  BY <1>6, <1>7, <1>8

\* What TicketService records of a reply.
Given(msg) == [to |-> CHOOSE m \in Messages : m \in msg.re,
               dest |-> CHOOSE a \in Agents : a \in msg.dest]

\* A message that was answered has left the peer.
LEMMA AnsweredIsOut ==
  ASSUME Lives, NEW m, Answered(m)
  PROVE  m \notin unsent \cup queue \cup Range(http.answer)
<1>1. PICK i \in DOMAIN sent : IsReply(sent[i]) /\ m \in sent[i].re
  BY DEF Answered
<1>2. SpokenFor(sent[i])
  BY DEF Lives, Spoken
<1> QED
  BY <1>1, <1>2 DEF SpokenFor

\* The statuses change by a move.
LEMMA MoveIs ==
  ASSUME NEW S, NEW to,
         \A m \in Messages : statusOf'[m] = IF m \in S THEN to ELSE statusOf[m]
  PROVE  Service!Move(S, to)
<1>1. statusOf' = [m \in Messages |-> statusOf'[m]]
  BY DEF statusOf
<1> QED
  BY <1>1 DEF Service!Move

\* A step that sends nothing gives no answer.
LEMMA NothingSaid ==
  ASSUME sent' = sent
  PROVE  answersGiven' = answersGiven /\ \A m : Answered(m)' <=> Answered(m)
  BY DEF answersGiven, Answered

\* A step that takes nothing from the peer and lets go of what was answered
\* only is none of TicketService.
LEMMA ServiceStutters ==
  ASSUME UNCHANGED <<unsent, queue, sent>>,
         \A m \in Messages : ~Answered(m) => (m \in Held' <=> m \in Held)
  PROVE  UNCHANGED Service!serviceVars
<1>1. answersGiven' = answersGiven /\ \A m : Answered(m)' <=> Answered(m)
  BY NothingSaid
<1>2. \A m \in Messages : statusOf'[m] = statusOf[m]
  BY <1>1 DEF statusOf
<1>3. statusOf' = statusOf
  BY <1>2 DEF statusOf
<1> QED
  BY <1>1, <1>3 DEF Service!serviceVars

\* A step after which some messages are nowhere.
LEMMA ServiceDrops ==
  ASSUME Lives, UNCHANGED <<unsent, sent>>, queue' \subseteq queue,
         Held' \subseteq Held
  PROVE  Service!ServiceNext
<1> DEFINE S == {m \in Messages : statusOf[m] \in {"queued", "held"} /\ statusOf'[m] = "dropped"}
<1>1. answersGiven' = answersGiven /\ \A m : Answered(m)' <=> Answered(m)
  BY NothingSaid
<1>2. \A m \in Messages : Answered(m) => m \notin unsent \cup queue
  BY AnsweredIsOut
<1>3. queue \cap Held = {}
  BY DEF Lives, Lifecycle, Held
<1>4. \A m \in Messages : statusOf'[m] = statusOf[m] \/ m \in S
  BY <1>1, <1>2, <1>3 DEF statusOf
<1>5. Service!Move(S, "dropped")
  <2>1. \A m \in Messages : statusOf'[m] = IF m \in S THEN "dropped" ELSE statusOf[m]
    BY <1>4
  <2> QED BY ONLY <2>1, MoveIs
<1>6. Service!Discard(S)
  BY <1>1, <1>5 DEF Service!Discard, Service!InStatus
<1>7. S \in SUBSET Messages
  OBVIOUS
<1> QED
  BY <1>6, <1>7 DEF Service!ServiceNext

\* The peer hands out an answer.
LEMMA ServiceTakes ==
  ASSUME ProcessorAssumption, Inv, Lives, Modest, AnswerPoll
  PROVE  Service!ServiceNext
<1>1. PICK a \in Answers : /\ http' = [http EXCEPT !.state = "answered", !.answer = a]
                           /\ queue' = queue \ Range(a)
  BY DEF AnswerPoll
<1>2. Range(a) \subseteq queue /\ queue \subseteq Messages
  BY AnswersType DEF Inv, TypeOK
<1>3. http'.answer = a /\ http.answer = <<>>
  BY <1>1 DEF AnswerPoll, InFlight, Inv, TypeOK, Exchanges, Modest
<1>4. Held = Range(batch) /\ Held' = Range(batch) \cup Range(a)
  BY <1>3, EmptyFacts DEF AnswerPoll, Held
<1>5. answersGiven' = answersGiven /\ \A m : Answered(m)' <=> Answered(m)
  BY NothingSaid DEF AnswerPoll
<1>6. \A m \in Range(a) : m \notin unsent /\ ~Answered(m)
  BY <1>2, AnsweredIsOut DEF Lives, Lifecycle
<1>7. \A m \in Messages : statusOf'[m] = IF m \in Range(a) THEN "held" ELSE statusOf[m]
  <2>1. unsent' = unsent
    BY DEF AnswerPoll
  <2> QED
    BY <1>1, <1>4, <1>5, <1>6, <2>1 DEF statusOf
<1>8. \A m \in Range(a) : statusOf[m] = "queued"
  BY <1>2, <1>6 DEF statusOf
<1>9. Service!Take(Range(a))
  <2>1. Service!Move(Range(a), "held")
    BY ONLY <1>7, MoveIs
  <2> QED
    BY <1>2, <1>5, <1>8, <2>1 DEF Service!Take, Service!InStatus
<1> QED
  BY <1>2, <1>9 DEF Service!ServiceNext

\* A message is queued at the peer.
LEMMA ServiceQueues ==
  ASSUME Inv, Post
  PROVE  Service!ServiceNext
<1>1. PICK m \in unsent : unsent' = unsent \ {m} /\ queue' = queue \cup {m}
  BY DEF Post
<1>2. m \in Messages
  BY DEF Inv, TypeOK
<1>3. UNCHANGED <<sent, batch, http>>
  BY DEF Post, taskVars
<1>4. answersGiven' = answersGiven /\ Held' = Held /\ \A n : Answered(n)' <=> Answered(n)
  BY <1>3, NothingSaid DEF Held
<1>5. \A n \in Messages : statusOf'[n] = IF n \in {m} THEN "queued" ELSE statusOf[n]
  BY <1>1, <1>4 DEF statusOf
<1>6. statusOf[m] = "unsent"
  BY <1>2 DEF statusOf
<1>7. Service!Queue(m)
  <2>1. Service!Move({m}, "queued")
    BY ONLY <1>5, MoveIs
  <2> QED
    BY <1>2, <1>4, <1>6, <2>1 DEF Service!Queue, Service!InStatus
<1> QED
  BY <1>2, <1>7 DEF Service!ServiceNext

\* A send answers the message in hand, or is a hop and no step of TicketService.
LEMMA ServiceAnswers ==
  ASSUME ModelsAssumption, ProcessorAssumption, Inv, Lives, Worked, SendMessage
  PROVE  [Service!ServiceNext]_(Service!serviceVars)
<1> DEFINE new == MessageAt(pc)
<1>1. pc \in SendPoints /\ batch /= <<>> /\ http = Quiet
  BY DEF SendMessage, Inv, Placed, Handling
<1>2. /\ new \in Outgoing /\ new.re = {Current}
      /\ IsReply(new) <=> pc \in {"reply", "ack"}
  BY <1>1, MessageType DEF Inv
<1>3. /\ Current \in Messages /\ Current.src \in Agents
      /\ Current = Head(batch) /\ Current \in Range(batch)
  BY <1>1, InHand, TailFacts DEF Inv, TypeOK, Lives, Lifecycle, Current, NetworkMessages
<1>4. /\ UNCHANGED <<batch, unsent, queue>> /\ sent' = Append(sent, new)
      /\ http'.answer = http.answer
  BY <1>1 DEF SendMessage, peerVars, Requested, Quiet
<1>5. /\ DOMAIN sent = 1..Len(sent) /\ DOMAIN sent' = 1..(Len(sent) + 1)
      /\ \A i \in DOMAIN sent : sent'[i] = sent[i]
      /\ sent'[Len(sent) + 1] = new /\ Len(sent) \in Nat
  BY <1>2, <1>4, SentGrows DEF Inv, TypeOK
<1>6. ASSUME NEW i \in DOMAIN sent'
      PROVE  \/ i \in DOMAIN sent /\ sent'[i] = sent[i]
             \/ i = Len(sent) + 1 /\ sent'[i] = new
  <2>1. i \in 1..Len(sent) \/ i = Len(sent) + 1
    BY <1>5
  <2> QED
    BY <1>5, <2>1
<1>7. \A i \in DOMAIN sent : i \in DOMAIN sent'
  BY <1>5
<1>8. Len(sent) + 1 \in DOMAIN sent'
  BY <1>5
<1>9. Held' = Held
  BY <1>4 DEF Held
<1>10. /\ answersGiven = {Given(sent[i]) : i \in {k \in DOMAIN sent : IsReply(sent[k])}}
       /\ answersGiven' = {Given(sent'[i]) : i \in {k \in DOMAIN sent' : IsReply(sent'[k])}}
  BY DEF answersGiven, Given
<1>11. CASE ~IsReply(new)
  <2>1. \A m : Answered(m)' <=> Answered(m)
    BY <1>5, <1>6, <1>7, <1>11 DEF Answered
  <2>2. answersGiven' = answersGiven
    BY <1>5, <1>6, <1>7, <1>10, <1>11
  <2>3. \A m \in Messages : statusOf'[m] = statusOf[m]
    BY <1>4, <1>9, <2>1 DEF statusOf
  <2>4. statusOf' = statusOf
    BY <2>3 DEF statusOf
  <2> QED
    BY <2>2, <2>4 DEF Service!serviceVars
<1>12. CASE IsReply(new)
  <2>1. \A m : Answered(m)' <=> Answered(m) \/ m = Current
    BY <1>2, <1>5, <1>6, <1>7, <1>8, <1>12 DEF Answered
  <2>2. ~Answered(Current)
    <3> SUFFICES ASSUME NEW i \in DOMAIN sent, IsReply(sent[i]), Current \in sent[i].re
                 PROVE  FALSE
      BY DEF Answered
    <3>1. SpokenFor(sent[i])
      BY DEF Lives, Spoken
    <3> QED
      BY <1>1, <1>3, <3>1 DEF SpokenFor, Quiet
  <2>3. Current \notin unsent \cup queue /\ Current \in Held
    BY <1>3 DEF Lives, Lifecycle, Held
  <2>4. \A m \in Messages : statusOf'[m] = IF m \in {Current} THEN "answered" ELSE statusOf[m]
    BY <1>4, <1>9, <2>1, <2>3 DEF statusOf
  <2>5. statusOf[Current] = "held"
    BY <1>3, <2>2, <2>3 DEF statusOf
  <2>6. new.dest = {Current.src} /\ Current.type \in AnswerableTypes
    BY <1>2, <1>12 DEF MessageAt, TicketResponse, Acknowledgement, Worked, AnswerableTypes
  <2>7. Given(new) = [to |-> Current, dest |-> Current.src]
    <3>1. (CHOOSE m \in Messages : m \in {Current}) = Current
      BY <1>3
    <3>2. (CHOOSE a \in Agents : a \in {Current.src}) = Current.src
      BY <1>3
    <3> QED
      BY <1>2, <2>6, <3>1, <3>2 DEF Given
  <2>8. answersGiven' = answersGiven \cup {Given(new)}
    BY <1>5, <1>6, <1>7, <1>8, <1>10, <1>12
  <2>9. Service!Answer(Current)
    <3>1. Service!Move({Current}, "answered")
      BY ONLY <2>4, MoveIs
    <3> QED
      BY <1>3, <2>5, <2>6, <2>7, <2>8, <3>1 DEF Service!Answer, Service!InStatus
  <2> QED
    BY <1>3, <2>9 DEF Service!ServiceNext
<1> QED
  BY <1>11, <1>12

\* The task is done with a message it has replied to.
LEMMA ServiceAdvance ==
  ASSUME Inv, Lives, Replying, SendReturned, Advance
  PROVE  UNCHANGED Service!serviceVars
<1>1. /\ batch /= <<>> /\ pc \in {"reply", "ack"} /\ Answered(Current)
      /\ http.answer = <<>> /\ http'.answer = <<>>
      /\ UNCHANGED <<unsent, queue, sent>>
  BY DEF SendReturned, Advance, Inv, Placed, Handling, SendPoints, Quiet, Replying, peerVars
<1>2. batch' = Tail(batch) /\ Current = Head(batch)
  BY DEF Advance, Current
<1>3. batch \in Seq(Messages)
  BY DEF Inv, TypeOK
<1>4. \A m : m \in Range(batch) <=> m \in Range(Tail(batch)) \/ m = Head(batch)
  BY <1>1, <1>3, TailRange
<1>5. \A m \in Messages : ~Answered(m) => (m \in Held' <=> m \in Held)
  BY <1>1, <1>2, <1>4 DEF Held
<1> QED
  BY <1>1, <1>5, ServiceStutters

\* Every step of the processor is a step of TicketService, or none.
LEMMA ServiceStep ==
  ASSUME ModelsAssumption, ProcessorAssumption, Inv, Lives, Work, [Next]_vars
  PROVE  [Service!ServiceNext]_(Service!serviceVars)
<1> USE DEF storeVars, peerVars, taskVars
<1>0. /\ pc \notin Handling => batch = <<>>
      /\ pc /= "poll" => http.answer = <<>>
      /\ http.state /= "answered" => http.answer = <<>>
      /\ Quiet.answer = <<>>
  BY DEF Inv, Placed, Work, Modest, Quiet
<1>1. CASE \/ Reload \/ Delay \/ PollDisabled \/ SendPoll \/ PollFailed \/ PollReturned
           \/ TakeTicket \/ TakePing \/ ProcessForm \/ BeginSave \/ EndSave
           \/ AnswerSend \/ ExchangeFails \/ UNCHANGED vars
  <2>1. UNCHANGED <<unsent, queue, sent>>
    BY <1>1 DEF Reload, Delay, PollDisabled, SendPoll, PollFailed, PollReturned, TakeTicket,
       TakePing, ProcessForm, BeginSave, EndSave, AnswerSend, ExchangeFails, vars
  <2>2. Held' = Held
    <3>1. CASE PollReturned
      BY <1>0, <3>1, EmptyFacts DEF PollReturned, Held, Handling, SendPoints
    <3>2. CASE SendPoll \/ PollFailed
      BY <1>0, <3>2 DEF SendPoll, PollFailed, Held, Requested, AtGate
    <3>3. CASE AnswerSend \/ ExchangeFails
      BY <3>3 DEF AnswerSend, ExchangeFails, Held, Inv, TypeOK, Exchanges
    <3>4. CASE \/ Reload \/ Delay \/ PollDisabled \/ TakeTicket \/ TakePing
               \/ ProcessForm \/ BeginSave \/ EndSave \/ UNCHANGED vars
      BY <3>4 DEF Reload, Delay, PollDisabled, TakeTicket, TakePing, ProcessForm, BeginSave,
         EndSave, vars, Held
    <3> QED
      BY <1>1, <3>1, <3>2, <3>3, <3>4
  <2> QED
    BY <2>1, <2>2, ServiceStutters
<1>2. CASE SendReturned
  <2>1. CASE Advance
    BY <1>2, <2>1, ServiceAdvance DEF Work
  <2>2. CASE ~Advance
    <3>1. UNCHANGED <<unsent, queue, sent, batch>> /\ Held' = Held
      BY <1>0, <1>2, <2>2 DEF SendReturned, SendPoints, Held
    <3> QED
      BY <3>1, ServiceStutters
  <2> QED
    BY <2>1, <2>2
<1>3. CASE IgnoreMessage
  <2>1. batch \in Seq(Messages) /\ batch /= <<>> /\ http' = http /\ batch' = Tail(batch)
    BY <1>3 DEF IgnoreMessage, Advance, Inv, TypeOK, Placed, Handling
  <2>2. Held' \subseteq Held
    BY <2>1, TailRange DEF Held
  <2> QED
    BY <1>3, <2>2, ServiceDrops DEF IgnoreMessage
<1>4. CASE AbortOnForm \/ PowerLoss
  <2>1. Held' = {}
    BY <1>4, EmptyFacts DEF AbortOnForm, PowerLoss, Reboot, Quiet, Held
  <2> QED
    BY <1>4, <2>1, ServiceDrops DEF AbortOnForm, PowerLoss, Reboot
<1>5. CASE LatePoll
  <2>1. Held' = Held /\ queue' \subseteq queue /\ UNCHANGED <<unsent, sent>>
    BY <1>5 DEF LatePoll, Held
  <2> QED
    BY <2>1, ServiceDrops
<1>6. CASE AnswerPoll
  BY <1>6, ServiceTakes DEF Work
<1>7. CASE Post
  BY <1>7, ServiceQueues
<1>8. CASE SendMessage
  BY <1>8, ServiceAnswers DEF Work
<1> QED
  BY <1>1, <1>2, <1>3, <1>4, <1>5, <1>6, <1>7, <1>8 DEF Next, Task, Exchange

\* Polling, tracing, working and replying, with every loss, reset and late
\* answer, are to the senders of messages one service that answers a message
\* at most once, only after it was handed over, and only to its sender.
THEOREM ProcessorServes == Spec => ImplementsService
<1>1. Init => Service!ServiceInit
  <2>1. ASSUME Init PROVE statusOf = [m \in Messages |-> "unsent"] /\ answersGiven = {}
    <3>1. DOMAIN sent = {} /\ unsent = Messages
      BY <2>1 DEF Init
    <3> QED
      BY <3>1 DEF statusOf, answersGiven
  <2> QED
    BY <2>1 DEF Service!ServiceInit
<1>2. Inv /\ Lives /\ Work /\ [Next]_vars => [Service!ServiceNext]_(Service!serviceVars)
  BY ServiceStep, ModelsAssumption, ProcessorAssumption
<1> QED
  BY LivesHolds, WorkHolds, <1>1, <1>2, PTL DEF Spec, ImplementsService, Service!ServiceSpec
=============================================================================
