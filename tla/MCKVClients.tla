---------------------------- MODULE MCKVClients ----------------------------
(***************************************************************************)
(* Two objects, two keys; strings of two lengths, so that a string can     *)
(* grow and shrink between the two calls of getString, an empty and a      *)
(* non-empty blob, and a byte under the same keys.                         *)
(***************************************************************************)
EXTENDS KVClients

MCTexts    == {"short", "long", "fallback", "raw"}
MCDefaults == {Plain("fallback", 1)}
MCValues   == [str  |-> {Plain("short", 2), Plain("long", 4)},
               blob |-> {Plain("raw", 0), Plain("raw", 1)},
               u8   |-> {Plain("raw", 1)}]
=============================================================================
