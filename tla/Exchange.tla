------------------------------ MODULE Exchange ------------------------------
(***************************************************************************)
(* What post_encrypted (components/executor/agent/agent.cpp) is to its     *)
(* caller: a call under one key ends with nothing, or with one thing that  *)
(* a holder of the key said in answer to this very call.                   *)
(***************************************************************************)
CONSTANTS
  Keys,
  Replies   \* what can be said

VARIABLES
  calling,  \* a call is under way
  key,      \* its key, or the last one's
  said,     \* what was said under this key during the call
  returned  \* what the last call returned, "" for nothing

exchangeVars == <<calling, key, said, returned>>

ExchangeInit ==
  /\ calling = FALSE /\ key \in Keys /\ said = {} /\ returned = ""

Call ==
  /\ ~calling /\ calling' = TRUE
  /\ key' \in Keys /\ said' = {} /\ returned' = ""

\* The peer answers; a redirection brings more than one answer.
Say ==
  /\ calling
  /\ \E t \in Replies : said' = said \cup {t}
  /\ UNCHANGED <<calling, key, returned>>

Finish ==
  /\ calling /\ calling' = FALSE
  /\ returned' \in said \cup {""}
  /\ UNCHANGED <<key, said>>

ExchangeNext == Call \/ Say \/ Finish

ExchangeSpec == ExchangeInit /\ [][ExchangeNext]_exchangeVars
=============================================================================
