--------------------------- MODULE MCAgentClient ---------------------------
(***************************************************************************)
(* Two keys, so that a response can be sealed under another one; two       *)
(* nonces, so that headers and bodies of two responses can be mixed.       *)
(***************************************************************************)
EXTENDS AgentClient

MCKeys      == {"k1", "k2"}
MCNonces    == {"n1", "n2"}
MCDocuments == {"poll", "reply"}
MCReplies   == {"messages"}
=============================================================================
