--------------------------- MODULE TicketService ---------------------------
(***************************************************************************)
(* What the agent promises the senders of messages, whatever happens to    *)
(* it: a message is answered at most once, only after it was handed to the *)
(* agent, only if it is of a kind the agent answers, and only to its       *)
(* sender; a message that is dropped is never answered afterwards.         *)
(***************************************************************************)
CONSTANTS
  Messages,       \* the messages
  Requests,       \* those of them that call for an answer
  SenderOf(_)     \* who sent a message

VARIABLES
  status,         \* where each message is in its life
  answers         \* the answers given: to which message, addressed to whom

serviceVars == <<status, answers>>

Statuses == {"unsent", "queued", "held", "answered", "dropped"}

ServiceInit ==
  /\ status = [m \in Messages |-> "unsent"]
  /\ answers = {}

Move(S, to) == status' = [m \in Messages |-> IF m \in S THEN to ELSE status[m]]

InStatus(s) == {m \in Messages : status[m] = s}

Queue(m) ==
  /\ m \in InStatus("unsent")
  /\ Move({m}, "queued")
  /\ UNCHANGED answers

\* The peer hands messages to the agent.
Take(S) ==
  /\ S \subseteq InStatus("queued")
  /\ Move(S, "held")
  /\ UNCHANGED answers

Answer(m) ==
  /\ m \in Requests \cap InStatus("held")
  /\ Move({m}, "answered")
  /\ answers' = answers \cup {[to |-> m, dest |-> SenderOf(m)]}

\* Messages are lost on the way, with a reboot, or ignored.
Discard(S) ==
  /\ S \subseteq InStatus("queued") \cup InStatus("held")
  /\ Move(S, "dropped")
  /\ UNCHANGED answers

ServiceNext ==
  \/ \E m \in Messages : Queue(m) \/ Answer(m)
  \/ \E S \in SUBSET Messages : Take(S) \/ Discard(S)

ServiceSpec == ServiceInit /\ [][ServiceNext]_serviceVars
=============================================================================
