--------------------------- MODULE MCMessagePath ---------------------------
(***************************************************************************)
(* The documents that arrive: the one the other implementations write,     *)
(* with up to two members missing or replaced by a value of any type.      *)
(* Numbers are counted in tenths; doubles are coarse from 100 on, an       *)
(* int64_t ends at 1000.                                                   *)
(***************************************************************************)
EXTENDS MessagePath

text(s) == Str(Plain(s))

MCAgent  == Plain("dev")
MCConfig == Obj([agtuuid |-> text("dev")])

MCForms ==
  {Obj([type |-> text("get_config"), config |-> Null, error |-> text("late"),
        objuuid |-> text("o"), coluuid |-> Null]),
   Obj([type |-> text("benchmark"), outbound_size |-> Num(30), inbound_size |-> Num(20),
        payload |-> Null, error |-> Null, objuuid |-> text("o"), coluuid |-> text("c")]),
   Obj([type |-> text("benchmark"), outbound_size |-> Num(25), inbound_size |-> text("many"),
        objuuid |-> Num(70)]),
   Obj([type |-> text("benchmark"), inbound_size |-> Null, payload |-> text("old")]),
   Obj([type |-> text("sync_process"), timeout |-> Num(1234), error |-> Null])}

\* A value of every type, numbers at the limits.
MCValues ==
  {Null, text("x"), Str(Json(Num(70))), Num(25), Num(1234), Num(20000), Bool(TRUE),
   Arr(<<>>), Arr(<<text("x"), Null>>), Obj([type |-> text("x")])}

Written1(t) ==
  [m \in {"type"} \cup DOMAIN MembersOf(t) |->
     IF m = "type" THEN text(t)
     ELSE LET kind == MembersOf(t)[m]
          IN  CASE kind \in {"opt_str", "str", "ack"} -> text(m)
                [] kind \in {"opt_f64", "f64"} -> Num(15)
                [] kind = "opt_i64"  -> Num(40)
                [] kind = "opt_strs" -> Arr(<<text("ping")>>)
                [] kind = "flag"     -> Bool(TRUE)
                [] kind = "raw"      -> Null
                [] kind = "raws"     -> Arr(<<Obj([type |-> text("ping"), timestamp |-> Num(1234)])>>)]

Values(t, m) ==
  MCValues \cup (IF m = "form" THEN MCForms ELSE {})

Replaced(t, doc, m) == {[doc EXCEPT ![m] = v] : v \in Values(t, m)}
Without(doc, M) == [k \in DOMAIN doc \ M |-> doc[k]]

\* The canonical document, the changed ones, and those that are cut short.
Variants(t) ==
  LET doc == Written1(t)
      members == DOMAIN doc
      one == UNION {Replaced(t, doc, m) : m \in members}
      two == UNION {UNION {Replaced(t, d, m) : d \in Replaced(t, doc, k)} :
                      k \in members, m \in members}
      less == {Without(doc, {k, m}) : k \in members, m \in members}
  IN  {Obj(d) : d \in (IF t = "ticket_request" THEN two ELSE one) \cup less}

MCReceived ==
  [t \in Tags |-> Variants(t) \cup {Null, Arr(<<>>), text("x")}]
=============================================================================
