------------------------- MODULE MessagePathProofs -------------------------
(***************************************************************************)
(* Theorems about MessagePath, for any documents, names, units and limits: *)
(* what the codecs write has its type, keeps what fits and settles, and    *)
(* what the agent answers is the ticket that came.  First the codecs,      *)
(* value by value, then documents, then the way through the agent.         *)
(***************************************************************************)
EXTENDS MessagePath, SequenceTheorems, TLAPS


Again(kind, v) == Put(kind, Get(kind, v))

\* A value is told by its tag.
LEMMA TagCases ==
  ASSUME NEW v, Tagged(v)
  PROVE  \/ v = Null
         \/ v = Str(v[2])
         \/ v = Num(v[2]) /\ v[2] \in Nat
         \/ v = Bool(v[2]) /\ v[2] \in BOOLEAN
         \/ v = Arr(v[2]) /\ v[2] = [i \in DOMAIN v[2] |-> v[2][i]]
         \/ v = Obj(v[2]) /\ v[2] = [i \in DOMAIN v[2] |-> v[2][i]]
  BY DEF Tagged, Null, Str, Num, Bool, Arr, Obj

LEMMA TagFacts ==
  /\ Kind(Null) = "null"
  /\ \A x : Kind(Str(x)) = "str" /\ Str(x)[2] = x /\ Str(x) # Null
  /\ \A x : Kind(Num(x)) = "num" /\ Num(x)[2] = x /\ Num(x) # Null
  /\ \A x : Kind(Bool(x)) = "bool" /\ Bool(x)[2] = x /\ Bool(x) # Null
  /\ \A x : Kind(Arr(x)) = "arr" /\ Arr(x)[2] = x /\ Arr(x) # Null
  /\ \A x : Kind(Obj(x)) = "obj" /\ Obj(x)[2] = x /\ Obj(x) # Null
  BY DEF Kind, Null, Str, Num, Bool, Arr, Obj

LEMMA KindCases ==
  ASSUME NEW v, Tagged(v)
  PROVE  /\ Kind(v) = "null" => v = Null
         /\ Kind(v) = "str" => v = Str(v[2])
         /\ Kind(v) = "num" => v = Num(v[2]) /\ v[2] \in Nat
         /\ Kind(v) = "bool" => v = Bool(v[2]) /\ v[2] \in BOOLEAN
         /\ Kind(v) = "arr" => v = Arr(v[2]) /\ v[2] = [i \in DOMAIN v[2] |-> v[2][i]]
         /\ Kind(v) = "obj" => v = Obj(v[2]) /\ v[2] = [i \in DOMAIN v[2] |-> v[2][i]]
         /\ Kind(v) \in {"null", "str", "num", "bool", "arr", "obj"}
  BY TagCases, TagFacts

\* The double that is written is a number, and written again it stays.
LEMMA WholeIs ==
  ASSUME NEW n \in Nat
  PROVE  Whole(n) \in Nat /\ Whole(n) <= n /\ Whole(Whole(n)) = Whole(n)
         /\ Whole(Whole(n) + Unit \div 2) = Whole(n)
<1>1. Unit \in Nat /\ Unit > 0
  BY CodecAssumption
<1> DEFINE k == n \div Unit
<1>2. k \in Nat /\ k * Unit <= n
  BY <1>1
<1>3. Unit \div 2 \in Nat /\ Unit \div 2 < Unit
  BY <1>1
<1> HIDE DEF k
<1>4. \A h \in Nat : h < Unit => (k * Unit + h) \div Unit = k
  BY <1>1, <1>2
<1> QED
  BY <1>1, <1>2, <1>3, <1>4 DEF Whole, k

LEMMA WrittenIs ==
  ASSUME NEW n \in Nat
  PROVE  Written(n) \in Nat /\ Written(Written(n)) = Written(n)
<1>1. Unit \in Nat /\ Unit > 0 /\ CoarseFrom \in Nat /\ Unit \div 2 \in Nat
  BY CodecAssumption
<1>2. Whole(n + Unit \div 2) \in Nat
      /\ Whole(Whole(n + Unit \div 2) + Unit \div 2) = Whole(n + Unit \div 2)
  BY <1>1, WholeIs
<1> QED
  BY <1>1, <1>2 DEF Written

-----------------------------------------------------------------------------
\* ---- the members of the models ----------------------------------------------

Kinds == {"opt_str", "opt_f64", "opt_i64", "opt_strs", "str", "ack", "f64", "flag", "raw", "raws"}

\* No model has a member named as the tag, and each member is of a kind.
LEMMA ModelMembers ==
  ASSUME NEW t \in Tags
  PROVE  /\ "type" \notin DOMAIN MembersOf(t)
         /\ \A m \in DOMAIN MembersOf(t) : MembersOf(t)[m] \in Kinds
<1>1. "type" \notin DOMAIN PingMembers /\ \A m \in DOMAIN PingMembers : PingMembers[m] \in Kinds
  BY DEF PingMembers, Kinds
<1> DEFINE Good(f) == "type" \notin DOMAIN f /\ \A m \in DOMAIN f : f[m] \in Kinds
<1>2. ASSUME NEW f, NEW g, Good(f), Good(g) PROVE Good(Joined(f, g))
  BY <1>2 DEF Joined
<1>3. Good([limit |-> "opt_i64", network_whitelist |-> "opt_strs", control_whitelist |-> "opt_strs"])
  BY DEF Kinds
<1>4. Good([ack_type |-> "ack", forwarded |-> "opt_str", error |-> "opt_str"])
  BY DEF Kinds
<1>5. Good([messages |-> "raws"])
  BY DEF Kinds
<1>6. Good([tckuuid |-> "str", hop_time |-> "f64", network_ticket_type |-> "str"])
  BY DEF Kinds
<1>7. Good([tckuuid |-> "str", error |-> "opt_str", create_time |-> "opt_f64",
            service_time |-> "opt_f64", tracing |-> "flag", form |-> "raw"])
  BY DEF Kinds
<1>8. Good(GetConfigMembers) /\ Good(BenchmarkMembers)
  BY DEF Kinds, GetConfigMembers, BenchmarkMembers
<1>9. Good(PingMembers)
  BY <1>1
<1> HIDE DEF Good
<1>10. /\ Good(MessagesRequestMembers) /\ Good(AcknowledgementMembers)
       /\ Good(MessagesResponseMembers) /\ Good(TraceResponseMembers) /\ Good(TicketMembers)
  BY <1>2, <1>3, <1>4, <1>5, <1>6, <1>7, <1>9
     DEF MessagesRequestMembers, AcknowledgementMembers, MessagesResponseMembers,
         TraceResponseMembers, TicketMembers
<1>11. Good(MembersOf(t))
  BY <1>8, <1>9, <1>10 DEF MembersOf
<1> QED
  BY <1>11 DEF Good

-----------------------------------------------------------------------------
\* ---- one member, read and written ------------------------------------------

\* A member with a value is written as that value, one without as null.
LEMMA PutIs ==
  ASSUME NEW x
  PROVE  /\ \A k \in {"opt_str", "str", "ack"} : Put(k, {x}) = Str(x)
         /\ \A k \in {"opt_f64", "f64"} : Put(k, {x}) = Num(Written(x))
         /\ Put("opt_i64", {x}) = Num(x)
         /\ Put("opt_strs", {x}) = Arr([i \in DOMAIN x |-> Str(x[i])])
         /\ Put("flag", {x}) = Bool(x)
         /\ Put("raw", {x}) = x
         /\ Put("raws", {x}) = Arr(x)
<1>1. {x} # {} /\ (CHOOSE y \in {x} : TRUE) = x
  OBVIOUS
<1> QED
  BY <1>1 DEF Put, OrNull

LEMMA PutNone ==
  \A k \in Kinds : Put(k, {}) = Null
  BY DEF Put, OrNull, Kinds

\* What is read of a member.
LEMMA GetIs ==
  ASSUME NEW v
  PROVE  /\ Get("opt_str", v) = IF v = Null THEN {} ELSE {AsText(v)}
         /\ Get("opt_f64", v) = IF v = Null THEN {} ELSE {AsNumber(v)}
         /\ Get("opt_i64", v) = IF v = Null THEN {} ELSE {AsInt64(v)}
         /\ Get("opt_strs", v) =
              IF v = Null THEN {} ELSE {[i \in DOMAIN Items(v) |-> AsText(Items(v)[i])]}
         /\ Get("raw", v) = IF v = Null THEN {} ELSE {Printed(v)}
         /\ Get("raws", v) = {[i \in DOMAIN Items(v) |-> Printed(Items(v)[i])]}
         /\ Get("f64", v) = {IF Kind(v) = "num" THEN v[2] ELSE 0}
         /\ \E d : Get("str", v) = {IF Kind(v) = "str" THEN v[2] ELSE d}
         /\ \E d : Get("ack", v) = {IF Kind(v) = "str" THEN v[2] ELSE d}
         /\ \E d \in BOOLEAN : Get("flag", v) = {IF Kind(v) = "bool" THEN v[2] ELSE d}
<1>1. PICK empty : empty = Plain("")
  BY Zenon
<1>2. PICK ping : ping = Plain("ping")
  BY Zenon
<1>3. PICK no \in BOOLEAN : no = FALSE
  BY Zenon
<1>4. Get("str", v) = {Or(v, "str", empty)}
  BY <1>1 DEF Get
<1>5. Get("ack", v) = {Or(v, "str", ping)}
  BY <1>2 DEF Get
<1>6. Get("flag", v) = {Or(v, "bool", no)}
  BY <1>3 DEF Get
<1>7. Get("f64", v) = {Or(v, "num", 0)}
  BY DEF Get
<1>8. /\ Get("opt_str", v) = IF v = Null THEN {} ELSE {AsText(v)}
      /\ Get("opt_f64", v) = IF v = Null THEN {} ELSE {AsNumber(v)}
      /\ Get("opt_i64", v) = IF v = Null THEN {} ELSE {AsInt64(v)}
      /\ Get("opt_strs", v) = GetOptStrArray(v)
      /\ Get("raw", v) = IF v = Null THEN {} ELSE {Printed(v)}
      /\ Get("raws", v) = {[i \in DOMAIN Items(v) |-> Printed(Items(v)[i])]}
  BY DEF Get
<1> QED
  BY <1>4, <1>5, <1>6, <1>7, <1>8 DEF Or, GetOptStrArray

LEMMA NumberIs ==
  ASSUME NEW v, Tagged(v)
  PROVE  /\ AsNumber(v) \in Nat
         /\ AsInt64(v) \in Nat /\ AsInt64(v) <= Int64Max
         /\ Whole(AsInt64(v)) = AsInt64(v)
<1>1. AsNumber(v) \in Nat
  <2>1. Unit \in Nat
    BY CodecAssumption
  <2>2. CASE Kind(v) = "num"
    BY <2>2, KindCases DEF AsNumber
  <2>3. CASE Kind(v) = "bool"
    BY <2>1, <2>3 DEF AsNumber
  <2>4. CASE Kind(v) = "str"
    BY <2>4, KindCases DEF AsNumber, Tagged, Kind, Null
  <2>5. CASE Kind(v) \notin {"num", "bool", "str"}
    BY <2>5 DEF AsNumber
  <2> QED
    BY <2>2, <2>3, <2>4, <2>5
<1>2. Whole(0) = 0 /\ Int64Max \in Nat
  BY CodecAssumption DEF Whole
<1> QED
  BY <1>1, <1>2, WholeIs DEF AsInt64

\* What is in the double of a written number can be read again.
LEMMA AgainIs ==
  ASSUME NEW v
  PROVE  /\ Again("opt_str", v) = IF v = Null THEN Null ELSE Str(AsText(v))
         /\ Again("opt_f64", v) = IF v = Null THEN Null ELSE Num(Written(AsNumber(v)))
         /\ Again("opt_i64", v) = IF v = Null THEN Null ELSE Num(AsInt64(v))
         /\ Again("opt_strs", v) =
              IF v = Null THEN Null
              ELSE Arr([i \in DOMAIN Items(v) |-> Str(AsText(Items(v)[i]))])
         /\ Again("raw", v) = IF v = Null THEN Null ELSE Printed(v)
         /\ Again("raws", v) = Arr([i \in DOMAIN Items(v) |-> Printed(Items(v)[i])])
         /\ Again("f64", v) = Num(Written(IF Kind(v) = "num" THEN v[2] ELSE 0))
         /\ \E d : Again("str", v) = Str(IF Kind(v) = "str" THEN v[2] ELSE d)
         /\ \E d : Again("ack", v) = Str(IF Kind(v) = "str" THEN v[2] ELSE d)
         /\ \E d \in BOOLEAN : Again("flag", v) = Bool(IF Kind(v) = "bool" THEN v[2] ELSE d)
<1>1. \A k \in Kinds : Put(k, {}) = Null
  BY PutNone
<1>2. Again("opt_strs", v) = IF v = Null THEN Null
                             ELSE Arr([i \in DOMAIN Items(v) |-> Str(AsText(Items(v)[i]))])
  <2>1. CASE v = Null
    BY <1>1, <2>1, GetIs DEF Again, Kinds
  <2>2. CASE v # Null
    <3> DEFINE x == [i \in DOMAIN Items(v) |-> AsText(Items(v)[i])]
    <3>1. Again("opt_strs", v) = Put("opt_strs", {x})
      BY <2>2, GetIs DEF Again
    <3>2. Put("opt_strs", {x}) = Arr([i \in DOMAIN x |-> Str(x[i])])
      BY PutIs
    <3>3. [i \in DOMAIN x |-> Str(x[i])] = [i \in DOMAIN Items(v) |-> Str(AsText(Items(v)[i]))]
      OBVIOUS
    <3> QED
      BY <2>2, <3>1, <3>2, <3>3
  <2> QED
    BY <2>1, <2>2
<1>3. /\ Again("opt_str", v) = IF v = Null THEN Null ELSE Str(AsText(v))
      /\ Again("opt_f64", v) = IF v = Null THEN Null ELSE Num(Written(AsNumber(v)))
      /\ Again("opt_i64", v) = IF v = Null THEN Null ELSE Num(AsInt64(v))
      /\ Again("raw", v) = IF v = Null THEN Null ELSE Printed(v)
  <2>1. CASE v = Null
    BY <1>1, <2>1, GetIs DEF Again, Kinds
  <2>2. CASE v # Null
    <3>1. /\ Get("opt_str", v) = {AsText(v)} /\ Get("opt_f64", v) = {AsNumber(v)}
          /\ Get("opt_i64", v) = {AsInt64(v)} /\ Get("raw", v) = {Printed(v)}
      BY <2>2, GetIs
    <3> QED
      BY <2>2, <3>1, PutIs DEF Again
  <2> QED
    BY <2>1, <2>2
<1>4. /\ Again("raws", v) = Arr([i \in DOMAIN Items(v) |-> Printed(Items(v)[i])])
      /\ Again("f64", v) = Num(Written(IF Kind(v) = "num" THEN v[2] ELSE 0))
  BY GetIs, PutIs DEF Again
<1>5. \E d : Again("str", v) = Str(IF Kind(v) = "str" THEN v[2] ELSE d)
  <2>1. PICK d : Get("str", v) = {IF Kind(v) = "str" THEN v[2] ELSE d}
    BY GetIs
  <2>2. Again("str", v) = Str(IF Kind(v) = "str" THEN v[2] ELSE d)
    BY <2>1, PutIs DEF Again
  <2> QED
    BY <2>2
<1>6. \E d : Again("ack", v) = Str(IF Kind(v) = "str" THEN v[2] ELSE d)
  <2>1. PICK d : Get("ack", v) = {IF Kind(v) = "str" THEN v[2] ELSE d}
    BY GetIs
  <2>2. Again("ack", v) = Str(IF Kind(v) = "str" THEN v[2] ELSE d)
    BY <2>1, PutIs DEF Again
  <2> QED
    BY <2>2
<1>7. \E d \in BOOLEAN : Again("flag", v) = Bool(IF Kind(v) = "bool" THEN v[2] ELSE d)
  <2>1. PICK d \in BOOLEAN : Get("flag", v) = {IF Kind(v) = "bool" THEN v[2] ELSE d}
    BY GetIs
  <2>2. Again("flag", v) = Bool(IF Kind(v) = "bool" THEN v[2] ELSE d)
    BY <2>1, PutIs DEF Again
  <2> QED
    BY <2>2
<1> QED
  BY <1>2, <1>3, <1>4, <1>5, <1>6, <1>7

\* The types of a kind, kind by kind.
LEMMA FitsIs ==
  ASSUME NEW v
  PROVE  /\ Fits("opt_str", v) <=> Kind(v) \in {"null", "str"}
         /\ Fits("str", v) <=> Kind(v) = "str"
         /\ Fits("ack", v) <=> Kind(v) = "str"
         /\ Fits("opt_f64", v) <=> Kind(v) \in {"null", "num"}
         /\ Fits("f64", v) <=> Kind(v) = "num"
         /\ Fits("opt_i64", v) <=>
              \/ Kind(v) = "null"
              \/ Kind(v) = "num" /\ v[2] = Whole(v[2]) /\ v[2] <= Int64Max
         /\ Fits("flag", v) <=> Kind(v) = "bool"
         /\ Fits("opt_strs", v) <=>
              \/ Kind(v) = "null"
              \/ Kind(v) = "arr" /\ \A i \in DOMAIN v[2] : Kind(v[2][i]) = "str"
         /\ Fits("raws", v) <=> Kind(v) = "arr"
         /\ Fits("raw", v)
<1>1. Fits("opt_str", v) <=> Kind(v) \in {"null", "str"}
  BY DEF Fits
<1>2. (Fits("str", v) <=> Kind(v) = "str") /\ (Fits("ack", v) <=> Kind(v) = "str")
  BY DEF Fits
<1>3. (Fits("opt_f64", v) <=> Kind(v) \in {"null", "num"}) /\ (Fits("f64", v) <=> Kind(v) = "num")
  BY DEF Fits
<1>4. Fits("opt_i64", v) <=>
        \/ Kind(v) = "null"
        \/ Kind(v) = "num" /\ v[2] = Whole(v[2]) /\ v[2] <= Int64Max
  BY DEF Fits
<1>5. Fits("flag", v) <=> Kind(v) = "bool"
  BY DEF Fits
<1>6. Fits("opt_strs", v) <=>
        \/ Kind(v) = "null"
        \/ Kind(v) = "arr" /\ \A i \in DOMAIN v[2] : Kind(v[2][i]) = "str"
  BY DEF Fits
<1>7. (Fits("raws", v) <=> Kind(v) = "arr") /\ Fits("raw", v)
  BY DEF Fits
<1> QED
  BY <1>1, <1>2, <1>3, <1>4, <1>5, <1>6, <1>7

\* Whatever a member was, it is written as a value of its kind.
LEMMA AgainFits ==
  ASSUME NEW v, Tagged(v), NEW k \in Kinds
  PROVE  Fits(k, Again(k, v))
<1>1. CASE k = "opt_str"
  <2>1. Again("opt_str", v) = IF v = Null THEN Null ELSE Str(AsText(v))
    BY AgainIs
  <2>2. Kind(Again("opt_str", v)) \in {"null", "str"}
    BY <2>1, TagFacts
  <2> QED
    BY <1>1, <2>2, FitsIs
<1>2. CASE k \in {"str", "ack"}
  <2>1. (\E x : Again("str", v) = Str(x)) /\ (\E x : Again("ack", v) = Str(x))
    BY AgainIs
  <2>2. Kind(Again("str", v)) = "str" /\ Kind(Again("ack", v)) = "str"
    BY <2>1, TagFacts
  <2> QED
    BY <1>2, <2>2, FitsIs
<1>3. CASE k \in {"opt_f64", "f64"}
  <2>1. /\ Again("opt_f64", v) = IF v = Null THEN Null ELSE Num(Written(AsNumber(v)))
        /\ \E x : Again("f64", v) = Num(x)
    BY AgainIs
  <2>2. Kind(Again("opt_f64", v)) \in {"null", "num"} /\ Kind(Again("f64", v)) = "num"
    BY <2>1, TagFacts
  <2> QED
    BY <1>3, <2>2, FitsIs
<1>4. CASE k = "opt_i64"
  <2>1. Again("opt_i64", v) = IF v = Null THEN Null ELSE Num(AsInt64(v))
    BY AgainIs
  <2>2. Kind(Null) = "null" /\ Kind(Num(AsInt64(v))) = "num" /\ Num(AsInt64(v))[2] = AsInt64(v)
    BY TagFacts
  <2>3. Fits("opt_i64", Null) /\ Fits("opt_i64", Num(AsInt64(v)))
    BY <2>2, NumberIs, FitsIs
  <2> QED
    BY <1>4, <2>1, <2>3
<1>5. CASE k = "flag"
  <2>1. \E x : Again("flag", v) = Bool(x)
    BY AgainIs
  <2>2. Kind(Again("flag", v)) = "bool"
    BY <2>1, TagFacts
  <2> QED
    BY <1>5, <2>2, FitsIs
<1>6. CASE k = "opt_strs"
  <2>1. CASE v = Null
    BY <1>6, <2>1, AgainIs, TagFacts, FitsIs
  <2>2. CASE v # Null
    <3> DEFINE x == [i \in DOMAIN Items(v) |-> Str(AsText(Items(v)[i]))]
    <3>1. Again(k, v) = Arr(x)
      BY <1>6, <2>2, AgainIs
    <3>2. \A i \in DOMAIN x : Kind(x[i]) = "str"
      BY TagFacts
    <3> HIDE DEF x
    <3> QED
      BY <1>6, <3>1, <3>2, TagFacts, FitsIs
  <2> QED
    BY <2>1, <2>2
<1>7. CASE k = "raws"
  <2>1. \E x : Again("raws", v) = Arr(x)
    BY AgainIs
  <2>2. Kind(Again("raws", v)) = "arr"
    BY <2>1, TagFacts
  <2> QED
    BY <1>7, <2>2, FitsIs
<1>8. CASE k = "raw"
  BY <1>8, FitsIs
<1> QED
  BY <1>1, <1>2, <1>3, <1>4, <1>5, <1>6, <1>7, <1>8 DEF Kinds

\* A value with its parts, and a member of a document.
Readable(v) == Tagged(v) /\ \A p \in Parts(v) : Shallow(p)

LEMMA ReadableMembers ==
  ASSUME NEW doc, IsDocument(doc), NEW m
  PROVE  Readable(Member(doc, m)) /\ Tagged(doc)
<1>1. Readable(Null)
  BY DEF Readable, Tagged, Parts, Kind, Null
<1>2. CASE Kind(doc) = "obj" /\ m \in DOMAIN doc[2]
  <2>1. doc[2][m] \in Parts(doc)
    BY <1>2 DEF Parts
  <2> QED
    BY <1>2, <2>1 DEF IsDocument, Member, Readable
<1> QED
  BY <1>1, <1>2 DEF Member, IsDocument

LEMMA ShallowMembers ==
  ASSUME NEW doc, Readable(doc), NEW m
  PROVE  Shallow(Member(doc, m)) /\ Tagged(Member(doc, m)) /\ Shallow(doc)
<1>1. Shallow(Null)
  BY DEF Shallow, Tagged, Parts, Kind, Null
<1>2. CASE Kind(doc) = "obj" /\ m \in DOMAIN doc[2]
  <2>1. doc[2][m] \in Parts(doc)
    BY <1>2 DEF Parts
  <2> QED
    BY <1>2, <2>1 DEF Readable, Member, Shallow
<1> QED
  BY <1>1, <1>2 DEF Member, Readable, Shallow

LEMMA DocumentReadable ==
  ASSUME NEW doc, IsDocument(doc)
  PROVE  Readable(doc)
  BY DEF IsDocument, Readable, Shallow

LEMMA PartsOf ==
  ASSUME NEW v, Tagged(v), Kind(v) \in {"arr", "obj"}, NEW i \in DOMAIN v[2]
  PROVE  v[2][i] \in Parts(v)
  BY DEF Parts

\* Printing a value leaves its type, and leaves what was printed.
LEMMA PrintedNumberIs ==
  ASSUME NEW v, Tagged(v)
  PROVE  /\ Kind(v) # "num" => PrintedNumber(v) = v
         /\ Kind(v) = "num" => PrintedNumber(v) = Num(Written(v[2]))
         /\ Kind(PrintedNumber(v)) = Kind(v)
         /\ PrintedNumber(PrintedNumber(v)) = PrintedNumber(v)
         /\ Tagged(PrintedNumber(v))
<1>1. CASE Kind(v) # "num"
  BY <1>1 DEF PrintedNumber
<1>2. CASE Kind(v) = "num"
  <2>1. v[2] \in Nat
    BY <1>2, KindCases
  <2> DEFINE n == Written(v[2])
  <2>2. n \in Nat /\ Written(n) = n
    BY <2>1, WrittenIs
  <2>3. PrintedNumber(v) = Num(n)
    BY <1>2 DEF PrintedNumber
  <2> HIDE DEF n
  <2>4. Kind(Num(n)) = "num" /\ Num(n)[2] = n
    BY TagFacts
  <2>5. PrintedNumber(Num(n)) = Num(n)
    BY <2>2, <2>4 DEF PrintedNumber
  <2>6. Tagged(Num(n))
    BY <2>2 DEF Tagged, Num
  <2> QED
    BY <1>2, <2>3, <2>4, <2>5, <2>6 DEF n
<1> QED
  BY <1>1, <1>2

LEMMA PrintedIs ==
  ASSUME NEW v, Shallow(v)
  PROVE  /\ Kind(v) # "obj" => Printed(v) = PrintedNumber(v)
         /\ Kind(v) = "obj" => Printed(v) = Obj([m \in DOMAIN v[2] |-> PrintedNumber(v[2][m])])
         /\ Kind(Printed(v)) = Kind(v)
         /\ Printed(Printed(v)) = Printed(v)
         /\ Printed(PrintedNumber(v)) = Printed(v)
         /\ Shallow(Printed(v))
<1>1. Tagged(v)
  BY DEF Shallow
<1>2. CASE Kind(v) # "obj"
  <2>1. Printed(v) = PrintedNumber(v) /\ Kind(PrintedNumber(v)) # "obj"
    BY <1>1, <1>2, PrintedNumberIs DEF Printed
  <2>2. Printed(PrintedNumber(v)) = PrintedNumber(v)
    BY <1>1, <2>1, PrintedNumberIs DEF Printed
  <2>3. Shallow(PrintedNumber(v))
    <3>1. CASE Kind(v) = "num"
      BY <1>1, <3>1, PrintedNumberIs DEF Shallow, Parts
    <3>2. CASE Kind(v) # "num"
      BY <1>1, <3>2, PrintedNumberIs
    <3> QED
      BY <3>1, <3>2
  <2> QED
    BY <1>1, <1>2, <2>1, <2>2, <2>3, PrintedNumberIs
<1>3. CASE Kind(v) = "obj"
  <2> DEFINE f == [m \in DOMAIN v[2] |-> PrintedNumber(v[2][m])]
  <2>1. Printed(v) = Obj(f) /\ PrintedNumber(v) = v
    BY <1>1, <1>3, PrintedNumberIs DEF Printed
  <2>2. \A m \in DOMAIN v[2] : Tagged(v[2][m])
    BY <1>1, <1>3, PartsOf DEF Shallow
  <2>3. \A m \in DOMAIN f : Tagged(f[m]) /\ PrintedNumber(f[m]) = f[m]
    BY <2>2, PrintedNumberIs
  <2>4. f = [m \in DOMAIN f |-> f[m]]
    OBVIOUS
  <2> HIDE DEF f
  <2>5. Kind(Obj(f)) = "obj" /\ Obj(f)[2] = f
    BY TagFacts
  <2>6. [m \in DOMAIN f |-> PrintedNumber(f[m])] = f
    BY <2>3, <2>4
  <2>7. Printed(Obj(f)) = Obj(f)
    BY <2>5, <2>6 DEF Printed
  <2>8. Tagged(Obj(f))
    BY <2>4 DEF Tagged, Obj
  <2>9. Shallow(Obj(f))
    BY <2>3, <2>5, <2>8 DEF Shallow, Parts
  <2> QED
    BY <1>3, <2>1, <2>5, <2>7, <2>9 DEF f
<1> QED
  BY <1>2, <1>3

LEMMA WholeWritten ==
  ASSUME NEW n \in Nat, Whole(n) = n
  PROVE  Written(n) = n
  BY WholeIs DEF Written

\* What an optional number, text or a list of texts is written as when it is
\* read from what was written.
LEMMA TextsAgain ==
  ASSUME NEW x
  PROVE  /\ Again("opt_str", Str(x)) = Str(x)
         /\ Again("str", Str(x)) = Str(x)
         /\ Again("ack", Str(x)) = Str(x)
<1>1. Kind(Str(x)) = "str" /\ Str(x)[2] = x /\ Str(x) # Null
  BY TagFacts
<1>2. Again("opt_str", Str(x)) = Str(x)
  <2>1. AsText(Str(x)) = x
    BY <1>1 DEF AsText
  <2> QED
    BY <1>1, <2>1, AgainIs
<1>3. Again("str", Str(x)) = Str(x)
  <2>1. \E d : Again("str", Str(x)) = Str(IF Kind(Str(x)) = "str" THEN Str(x)[2] ELSE d)
    BY AgainIs
  <2> QED
    BY <1>1, <2>1
<1>4. Again("ack", Str(x)) = Str(x)
  <2>1. \E d : Again("ack", Str(x)) = Str(IF Kind(Str(x)) = "str" THEN Str(x)[2] ELSE d)
    BY AgainIs
  <2> QED
    BY <1>1, <2>1
<1> QED
  BY <1>2, <1>3, <1>4

LEMMA NumbersAgain ==
  ASSUME NEW n \in Nat
  PROVE  /\ Again("opt_f64", Num(n)) = Num(Written(n))
         /\ Again("f64", Num(n)) = Num(Written(n))
         /\ Whole(n) = n /\ n <= Int64Max => Again("opt_i64", Num(n)) = Num(n)
<1>1. Kind(Num(n)) = "num" /\ Num(n)[2] = n /\ Num(n) # Null
  BY TagFacts
<1>2. AsNumber(Num(n)) = n
  BY <1>1 DEF AsNumber
<1>3. Again("opt_f64", Num(n)) = Num(Written(n))
  BY <1>1, <1>2, AgainIs
<1>4. Again("f64", Num(n)) = Num(Written(n))
  <2>1. Again("f64", Num(n)) = Num(Written(IF Kind(Num(n)) = "num" THEN Num(n)[2] ELSE 0))
    BY AgainIs
  <2> QED
    BY <1>1, <2>1
<1>5. ASSUME Whole(n) = n, n <= Int64Max PROVE Again("opt_i64", Num(n)) = Num(n)
  <2>1. Int64Max \in Nat
    BY CodecAssumption
  <2>2. AsInt64(Num(n)) = n
    BY <1>2, <1>5, <2>1 DEF AsInt64
  <2> QED
    BY <1>1, <2>2, AgainIs
<1> QED
  BY <1>3, <1>4, <1>5

LEMMA FlagsAgain ==
  ASSUME NEW b \in BOOLEAN
  PROVE  Again("flag", Bool(b)) = Bool(b)
<1>1. Kind(Bool(b)) = "bool" /\ Bool(b)[2] = b
  BY TagFacts
<1>2. PICK d \in BOOLEAN : Again("flag", Bool(b)) = Bool(IF Kind(Bool(b)) = "bool" THEN Bool(b)[2] ELSE d)
  BY AgainIs
<1> QED
  BY <1>1, <1>2

LEMMA ListsAgain ==
  ASSUME NEW x, x = [i \in DOMAIN x |-> x[i]]
  PROVE  /\ (\A i \in DOMAIN x : x[i] = Str(x[i][2])) => Again("opt_strs", Arr(x)) = Arr(x)
         /\ Again("raws", Arr(x)) = Arr([i \in DOMAIN x |-> Printed(x[i])])
<1>1. Kind(Arr(x)) = "arr" /\ Arr(x)[2] = x /\ Arr(x) # Null
  BY TagFacts
<1>2. Items(Arr(x)) = x
  BY <1>1 DEF Items
<1>3. Again("raws", Arr(x)) = Arr([i \in DOMAIN x |-> Printed(x[i])])
  <2>1. Again("raws", Arr(x)) = Arr([i \in DOMAIN Items(Arr(x)) |-> Printed(Items(Arr(x))[i])])
    BY AgainIs
  <2> QED
    BY <1>2, <2>1
<1>4. ASSUME \A i \in DOMAIN x : x[i] = Str(x[i][2])
      PROVE  Again("opt_strs", Arr(x)) = Arr(x)
  <2>1. \A i \in DOMAIN x : Kind(x[i]) = "str"
    BY <1>4, TagFacts
  <2>2. \A i \in DOMAIN x : Str(AsText(x[i])) = x[i]
    BY <1>4, <2>1 DEF AsText
  <2>3. Again("opt_strs", Arr(x)) =
          Arr([i \in DOMAIN Items(Arr(x)) |-> Str(AsText(Items(Arr(x))[i]))])
    BY <1>1, AgainIs
  <2>4. [i \in DOMAIN x |-> Str(AsText(x[i]))] = x
    BY <2>2
  <2> QED
    BY <1>2, <2>3, <2>4
<1> QED
  BY <1>3, <1>4

LEMMA NullAgain ==
  \A k \in {"opt_str", "opt_f64", "opt_i64", "opt_strs", "raw"} : Again(k, Null) = Null
<1>1. Again("opt_str", Null) = Null /\ Again("opt_f64", Null) = Null
  BY AgainIs
<1>2. Again("opt_i64", Null) = Null /\ Again("opt_strs", Null) = Null
  BY AgainIs
<1>3. Again("raw", Null) = Null
  BY AgainIs
<1> QED
  BY <1>1, <1>2, <1>3

LEMMA ReadableIs ==
  ASSUME NEW v, Readable(v)
  PROVE  Shallow(v) /\ Tagged(v)
  BY DEF Readable, Shallow

\* A member of its own type is kept, whether it is printed first or not.
LEMMA AgainKeeps ==
  ASSUME NEW v, Shallow(v), NEW k \in Kinds, Fits(k, v)
  PROVE  Again(k, v) = Kept(k, v)
<1>1. Tagged(v) /\ Shallow(v)
  BY DEF Shallow
<1>2. k # "raws" => Kept(k, v) = Printed(v)
  BY DEF Kept
<1>3. CASE Kind(v) = "null"
  <2>1. v = Null /\ Printed(v) = v
    BY <1>1, <1>3, KindCases, PrintedIs, PrintedNumberIs
  <2>2. k \in {"opt_str", "opt_f64", "opt_i64", "opt_strs", "raw"}
    BY <1>3, FitsIs DEF Kinds
  <2> QED
    BY <1>2, <2>1, <2>2, NullAgain
<1>4. CASE Kind(v) = "str" /\ k # "raw"
  <2>1. v = Str(v[2]) /\ Printed(v) = v
    BY <1>1, <1>4, KindCases, PrintedIs, PrintedNumberIs
  <2>2. k \in {"opt_str", "str", "ack"}
    BY <1>4, FitsIs DEF Kinds
  <2> QED
    BY <1>2, <2>1, <2>2, TextsAgain
<1>5. CASE Kind(v) = "num" /\ k # "raw"
  <2>1. v = Num(v[2]) /\ v[2] \in Nat /\ Printed(v) = Num(Written(v[2]))
    BY <1>1, <1>5, KindCases, PrintedIs, PrintedNumberIs
  <2>2. k \in {"opt_f64", "f64", "opt_i64"}
    BY <1>5, FitsIs DEF Kinds
  <2>3. CASE k = "opt_i64"
    <3>1. Whole(v[2]) = v[2] /\ v[2] <= Int64Max
      BY <1>5, <2>3, FitsIs
    <3>2. Written(v[2]) = v[2]
      BY <2>1, <3>1, WholeWritten
    <3> QED
      BY <1>2, <2>1, <2>3, <3>1, <3>2, NumbersAgain
  <2> QED
    BY <1>2, <2>1, <2>2, <2>3, NumbersAgain
<1>6. CASE Kind(v) = "bool" /\ k # "raw"
  <2>1. v = Bool(v[2]) /\ v[2] \in BOOLEAN /\ Printed(v) = v
    BY <1>1, <1>6, KindCases, PrintedIs, PrintedNumberIs
  <2>2. k = "flag"
    BY <1>6, FitsIs DEF Kinds
  <2>3. Again("flag", Bool(v[2])) = Bool(v[2])
    BY <2>1, FlagsAgain
  <2> QED
    BY <1>2, <2>1, <2>2, <2>3
<1>7. CASE Kind(v) = "arr" /\ k # "raw"
  <2>1. v = Arr(v[2]) /\ v[2] = [i \in DOMAIN v[2] |-> v[2][i]] /\ Printed(v) = v
    BY <1>1, <1>7, KindCases, PrintedIs, PrintedNumberIs
  <2>2. k \in {"opt_strs", "raws"}
    BY <1>7, FitsIs DEF Kinds
  <2>3. CASE k = "opt_strs"
    <3>1. \A i \in DOMAIN v[2] : Kind(v[2][i]) = "str"
      BY <1>7, <2>3, FitsIs
    <3>2. \A i \in DOMAIN v[2] : Tagged(v[2][i])
      BY <1>1, <1>7, PartsOf DEF Shallow
    <3>3. \A i \in DOMAIN v[2] : v[2][i] = Str(v[2][i][2])
      BY <3>1, <3>2, KindCases
    <3> QED
      BY <1>2, <2>1, <2>3, <3>3, ListsAgain
  <2>4. CASE k = "raws"
    <3>1. Again("raws", Arr(v[2])) = Arr([i \in DOMAIN v[2] |-> Printed(v[2][i])])
      BY <2>1, ListsAgain
    <3> QED
      BY <2>1, <2>4, <3>1 DEF Kept
  <2> QED
    BY <2>2, <2>3, <2>4
<1>8. CASE k = "raw" /\ Kind(v) # "null"
  <2>1. v # Null
    BY <1>8, TagFacts
  <2>2. Again("raw", v) = Printed(v)
    BY <2>1, AgainIs
  <2> QED
    BY <1>2, <1>8, <2>2
<1>9. CASE Kind(v) = "obj" /\ k # "raw"
  BY <1>9, FitsIs DEF Kinds
<1> QED
  BY <1>1, <1>3, <1>4, <1>5, <1>6, <1>7, <1>8, <1>9, KindCases

LEMMA PrintedKeeps ==
  ASSUME NEW v, Shallow(v), NEW k \in Kinds, Fits(k, v)
  PROVE  Again(k, PrintedNumber(v)) = Kept(k, v)
<1>1. Tagged(v) /\ Shallow(v)
  BY DEF Shallow
<1>2. CASE Kind(v) # "num"
  BY <1>1, <1>2, PrintedNumberIs, AgainKeeps
<1>3. CASE Kind(v) = "num"
  <2> DEFINE n == Written(v[2])
  <2>1. v[2] \in Nat /\ PrintedNumber(v) = Num(n)
    BY <1>1, <1>3, KindCases, PrintedNumberIs
  <2>2. n \in Nat /\ Written(n) = n
    BY <2>1, WrittenIs
  <2>3. Kind(Num(n)) = "num" /\ Num(n)[2] = n
    BY TagFacts
  <2>4. Shallow(Num(n))
    BY <2>2, <2>3 DEF Shallow, Tagged, Parts, Num
  <2>5. Fits(k, Num(n))
    <3>1. k \in {"opt_f64", "f64", "opt_i64", "raw"}
      BY <1>3, FitsIs DEF Kinds
    <3>2. CASE k = "opt_i64"
      <4>1. Whole(v[2]) = v[2] /\ v[2] <= Int64Max
        BY <1>3, <3>2, FitsIs
      <4>2. n = v[2]
        BY <2>1, <4>1, WholeWritten
      <4> HIDE DEF n
      <4> QED
        BY <2>3, <3>2, <4>1, <4>2, FitsIs
    <3> HIDE DEF n
    <3>3. CASE k # "opt_i64"
      BY <2>3, <3>1, <3>3, FitsIs
    <3> QED
      BY <3>2, <3>3
  <2>6. Again(k, Num(n)) = Kept(k, Num(n))
    BY <2>4, <2>5, AgainKeeps
  <2>7. k # "raws"
    BY <1>3, FitsIs
  <2>8. Kept(k, Num(n)) = Printed(Num(n)) /\ Kept(k, v) = Printed(v)
    BY <2>7 DEF Kept
  <2>9. Printed(PrintedNumber(v)) = Printed(v)
    BY <1>1, PrintedIs
  <2> QED
    BY <2>1, <2>6, <2>8, <2>9
<1> QED
  BY <1>2, <1>3

\* What was written once is written the same again.
LEMMA AgainStable ==
  ASSUME NEW v, Readable(v), NEW k \in Kinds
  PROVE  Again(k, Again(k, v)) = Again(k, v)
<1>1. Tagged(v) /\ Shallow(v)
  BY ReadableIs
<1>2. CASE k = "opt_str"
  <2>1. Again("opt_str", v) = IF v = Null THEN Null ELSE Str(AsText(v))
    BY AgainIs
  <2> QED
    BY <1>2, <2>1, NullAgain, TextsAgain
<1>3. CASE k \in {"str", "ack"}
  <2>1. (\E x : Again("str", v) = Str(x)) /\ (\E x : Again("ack", v) = Str(x))
    BY AgainIs
  <2> QED
    BY <1>3, <2>1, TextsAgain
<1>4. CASE k = "opt_f64"
  <2>1. Again("opt_f64", v) = IF v = Null THEN Null ELSE Num(Written(AsNumber(v)))
    BY AgainIs
  <2> DEFINE n == Written(AsNumber(v))
  <2>2. n \in Nat /\ Written(n) = n
    BY <1>1, NumberIs, WrittenIs
  <2>3. Again("opt_f64", Num(n)) = Num(n)
    BY <2>2, NumbersAgain
  <2> QED
    BY <1>4, <2>1, <2>3, NullAgain
<1>5. CASE k = "f64"
  <2> DEFINE n == Written(IF Kind(v) = "num" THEN v[2] ELSE 0)
  <2>1. Again("f64", v) = Num(n)
    BY AgainIs
  <2>2. (IF Kind(v) = "num" THEN v[2] ELSE 0) \in Nat
    BY <1>1, KindCases
  <2>3. n \in Nat /\ Written(n) = n
    BY <2>2, WrittenIs
  <2>4. Again("f64", Num(n)) = Num(n)
    BY <2>3, NumbersAgain
  <2> QED
    BY <1>5, <2>1, <2>4
<1>6. CASE k = "opt_i64"
  <2>1. Again("opt_i64", v) = IF v = Null THEN Null ELSE Num(AsInt64(v))
    BY AgainIs
  <2>2. Again("opt_i64", Num(AsInt64(v))) = Num(AsInt64(v))
    BY <1>1, NumberIs, NumbersAgain
  <2> QED
    BY <1>6, <2>1, <2>2, NullAgain
<1>7. CASE k = "opt_strs" /\ v = Null
  BY <1>7, NullAgain
<1>8. CASE k = "opt_strs" /\ v # Null
  <2> DEFINE x == [i \in DOMAIN Items(v) |-> Str(AsText(Items(v)[i]))]
  <2>1. Again("opt_strs", v) = Arr(x)
    BY <1>8, AgainIs
  <2>2. x = [i \in DOMAIN x |-> x[i]]
    OBVIOUS
  <2>3. \A i \in DOMAIN x : x[i] = Str(x[i][2])
    BY TagFacts
  <2> HIDE DEF x
  <2>4. Again("opt_strs", Arr(x)) = Arr(x)
    BY <2>2, <2>3, ListsAgain
  <2> QED
    BY <1>8, <2>1, <2>4
<1>9. CASE k = "flag"
  <2>1. PICK d \in BOOLEAN : Again("flag", v) = Bool(IF Kind(v) = "bool" THEN v[2] ELSE d)
    BY AgainIs
  <2>2. (IF Kind(v) = "bool" THEN v[2] ELSE d) \in BOOLEAN
    BY <1>1, <2>1, KindCases
  <2> QED
    BY <1>9, <2>1, <2>2, FlagsAgain
<1>10. CASE k = "raw"
  <2>1. Again("raw", v) = IF v = Null THEN Null ELSE Printed(v)
    BY AgainIs
  <2>2. CASE v = Null
    BY <1>10, <2>1, <2>2, NullAgain
  <2>3. CASE v # Null
    <3>1. Printed(Printed(v)) = Printed(v) /\ Kind(Printed(v)) = Kind(v)
      BY <1>1, PrintedIs
    <3>2. Printed(v) # Null
      BY <1>1, <2>3, <3>1, KindCases, TagFacts
    <3>3. Again("raw", Printed(v)) = Printed(v)
      BY <3>1, <3>2, AgainIs
    <3> QED
      BY <1>10, <2>1, <2>3, <3>3
  <2> QED
    BY <2>2, <2>3
<1>11. CASE k = "raws"
  <2> DEFINE x == [i \in DOMAIN Items(v) |-> Printed(Items(v)[i])]
  <2>1. Again("raws", v) = Arr(x)
    BY AgainIs
  <2>2. x = [i \in DOMAIN x |-> x[i]]
    OBVIOUS
  <2>3. \A i \in DOMAIN x : Printed(x[i]) = x[i]
    <3>1. CASE Kind(v) = "arr"
      <4>1. \A i \in DOMAIN v[2] : Shallow(v[2][i])
        BY <1>1, <3>1, PartsOf DEF Readable
      <4> QED
        BY <3>1, <4>1, PrintedIs DEF Items
    <3>2. CASE Kind(v) # "arr"
      BY <3>2 DEF Items
    <3> QED
      BY <3>1, <3>2
  <2> HIDE DEF x
  <2>4. [i \in DOMAIN x |-> Printed(x[i])] = x
    BY <2>2, <2>3
  <2>5. Again("raws", Arr(x)) = Arr(x)
    BY <2>2, <2>4, ListsAgain
  <2> QED
    BY <1>11, <2>1, <2>5
<1> QED
  BY <1>2, <1>3, <1>4, <1>5, <1>6, <1>7, <1>8, <1>9, <1>10, <1>11 DEF Kinds

-----------------------------------------------------------------------------
\* ---- one document, read and written -------------------------------------------

Rewritten(t, doc) == ToJson(t, FromJson(t, doc))

LEMMA ToJsonIs ==
  ASSUME NEW t \in Tags, NEW object, DOMAIN object = DOMAIN MembersOf(t)
  PROVE  /\ Kind(ToJson(t, object)) = "obj"
         /\ DOMAIN ToJson(t, object)[2] = {"type"} \cup DOMAIN MembersOf(t)
         /\ ToJson(t, object)[2]["type"] = Str(Plain(t))
         /\ Member(ToJson(t, object), "type") = Str(Plain(t))
         /\ \A m \in DOMAIN MembersOf(t) :
              /\ ToJson(t, object)[2][m] = Put(MembersOf(t)[m], object[m])
              /\ Member(ToJson(t, object), m) = Put(MembersOf(t)[m], object[m])
<1> DEFINE f == [type |-> Str(Plain(t))]
           g == [m \in DOMAIN object |-> Put(MembersOf(t)[m], object[m])]
<1>1. ToJson(t, object) = Obj(Joined(f, g))
  BY DEF ToJson
<1>2. Kind(Obj(Joined(f, g))) = "obj" /\ Obj(Joined(f, g))[2] = Joined(f, g)
  BY TagFacts
<1>3. "type" \notin DOMAIN MembersOf(t)
  BY ModelMembers
<1>4. /\ DOMAIN Joined(f, g) = {"type"} \cup DOMAIN MembersOf(t)
      /\ Joined(f, g)["type"] = Str(Plain(t))
      /\ \A m \in DOMAIN MembersOf(t) : Joined(f, g)[m] = Put(MembersOf(t)[m], object[m])
  BY <1>3 DEF Joined
<1> HIDE DEF f, g
<1> QED
  BY <1>1, <1>2, <1>4 DEF Member

LEMMA ToJsonSame ==
  ASSUME NEW t, NEW a, NEW b, DOMAIN a = DOMAIN b,
         \A m \in DOMAIN a : Put(MembersOf(t)[m], a[m]) = Put(MembersOf(t)[m], b[m])
  PROVE  ToJson(t, a) = ToJson(t, b)
<1>1. [m \in DOMAIN a |-> Put(MembersOf(t)[m], a[m])] = [m \in DOMAIN b |-> Put(MembersOf(t)[m], b[m])]
  OBVIOUS
<1> QED
  BY <1>1 DEF ToJson

LEMMA FromJsonIs ==
  ASSUME NEW t, NEW doc
  PROVE  /\ DOMAIN FromJson(t, doc) = DOMAIN MembersOf(t)
         /\ \A m \in DOMAIN MembersOf(t) :
              /\ FromJson(t, doc)[m] = Get(MembersOf(t)[m], Member(doc, m))
              /\ Put(MembersOf(t)[m], FromJson(t, doc)[m]) = Again(MembersOf(t)[m], Member(doc, m))
  BY DEF FromJson, Again

LEMMA RewrittenIs ==
  ASSUME NEW t \in Tags, NEW doc
  PROVE  /\ Kind(Rewritten(t, doc)) = "obj"
         /\ DOMAIN Rewritten(t, doc)[2] = {"type"} \cup DOMAIN MembersOf(t)
         /\ Rewritten(t, doc)[2]["type"] = Str(Plain(t))
         /\ \A m \in DOMAIN MembersOf(t) :
              /\ Rewritten(t, doc)[2][m] = Again(MembersOf(t)[m], Member(doc, m))
              /\ Member(Rewritten(t, doc), m) = Again(MembersOf(t)[m], Member(doc, m))
  BY ToJsonIs, FromJsonIs DEF Rewritten

LEMMA RewrittenConforms ==
  ASSUME NEW t \in Tags, NEW doc, IsDocument(doc)
  PROVE  Conforms(t, Rewritten(t, doc))
<1>1. \A m \in DOMAIN MembersOf(t) : Fits(MembersOf(t)[m], Rewritten(t, doc)[2][m])
  <2>1. TAKE m \in DOMAIN MembersOf(t)
  <2>2. MembersOf(t)[m] \in Kinds
    BY ModelMembers
  <2>3. Tagged(Member(doc, m))
    BY ReadableMembers, ReadableIs
  <2> QED
    BY <2>2, <2>3, AgainFits, RewrittenIs
<1> QED
  BY <1>1, RewrittenIs DEF Conforms

LEMMA RewrittenKeeps ==
  ASSUME NEW t \in Tags, NEW doc, IsDocument(doc), NEW m \in DOMAIN MembersOf(t),
         Fits(MembersOf(t)[m], Member(doc, m))
  PROVE  Member(Rewritten(t, doc), m) = Kept(MembersOf(t)[m], Member(doc, m))
  BY ModelMembers, ReadableMembers, ReadableIs, AgainKeeps, RewrittenIs

LEMMA RewrittenStable ==
  ASSUME NEW t \in Tags, NEW doc, IsDocument(doc)
  PROVE  Rewritten(t, Rewritten(t, doc)) = Rewritten(t, doc)
<1> DEFINE a == FromJson(t, Rewritten(t, doc))
           b == FromJson(t, doc)
<1>1. DOMAIN a = DOMAIN MembersOf(t) /\ DOMAIN b = DOMAIN MembersOf(t)
  BY FromJsonIs
<1>2. \A m \in DOMAIN MembersOf(t) : Put(MembersOf(t)[m], a[m]) = Put(MembersOf(t)[m], b[m])
  <2>1. TAKE m \in DOMAIN MembersOf(t)
  <2> DEFINE k == MembersOf(t)[m]
  <2>2. Put(k, a[m]) = Again(k, Member(Rewritten(t, doc), m))
    BY FromJsonIs
  <2>3. Member(Rewritten(t, doc), m) = Again(k, Member(doc, m))
    BY RewrittenIs
  <2>4. Again(k, Again(k, Member(doc, m))) = Again(k, Member(doc, m))
    BY ModelMembers, ReadableMembers, AgainStable
  <2>5. Put(k, b[m]) = Again(k, Member(doc, m))
    BY FromJsonIs
  <2> QED
    BY <2>2, <2>3, <2>4, <2>5
<1> HIDE DEF a, b
<1>3. ToJson(t, a) = ToJson(t, b)
  BY <1>1, <1>2, ToJsonSame
<1> QED
  BY <1>3 DEF Rewritten, a, b

-----------------------------------------------------------------------------
\* ---- the way through the agent -----------------------------------------------

\* What is read out of a document in the answer to a poll, what the work makes
\* of it, and what is posted.
RequestOf(doc)  == FromJson("ticket_request", Printed(doc))
WorkedOf(doc)   == [RequestOf(doc) EXCEPT
                      !.form = {ProcessControlForm(f) : f \in RequestOf(doc).form}]
ResponseOf(doc) == Post(ToJson("ticket_response", Reply(WorkedOf(doc))))
AckOf(doc) ==
  Post(ToJson("acknowledgement",
              [Blank("acknowledgement") EXCEPT
                 !.src = {Agent}, !.dest = FromJson("ping", Printed(doc)).src, !.timestamp = {Now}]))

FirstTrace(doc)  == TraceOf(RequestOf(doc), "ticket_request")
SecondTrace(doc) == TraceOf(RequestOf(doc), "ticket_response")

\* What the agent has posted when it is done with the document.
AnswersTo(doc) ==
  CASE NetworkMessageType(doc) = "ticket_request" ->
         Append(FirstTrace(doc) \o SecondTrace(doc), ResponseOf(doc))
    [] NetworkMessageType(doc) = "ping" -> <<AckOf(doc)>>
    [] OTHER -> <<>>

\* Where the document is tells everything else.
PathInv ==
  /\ tag \in Tags /\ IsDocument(origin)
  /\ hops \in Nat
  /\ hops = 0 => wire = origin
  /\ hops > 0 => wire = Rewritten(tag, origin)
  /\ at \in {"wire", "batch", "ticket", "worked", "done"}
  /\ at # "wire" => hops = 0
  /\ at \in {"wire", "batch"} => sent = <<>>
  /\ at = "batch" => inbox = <<Printed(origin)>>
  /\ at \in {"ticket", "worked"} => NetworkMessageType(origin) = "ticket_request"
  /\ at = "ticket" => ticket = {RequestOf(origin)} /\ sent = FirstTrace(origin)
  /\ at = "worked" => ticket = {WorkedOf(origin)} /\ sent = FirstTrace(origin) \o SecondTrace(origin)
  /\ at = "done" => sent = AnswersTo(origin)

\* A document as an item of an array: its numbers are printed.
LEMMA PrintedDocument ==
  ASSUME NEW doc, Shallow(doc)
  PROVE  /\ \A m : Member(Printed(doc), m) = PrintedNumber(Member(doc, m))
         /\ \A tags : TypeAmong(tags, Printed(doc)) = TypeAmong(tags, doc)
<1>1. PrintedNumber(Null) = Null
  BY TagFacts DEF PrintedNumber
<1>2. \A m : Member(Printed(doc), m) = PrintedNumber(Member(doc, m))
  <2>1. CASE Kind(doc) # "obj"
    BY <1>1, <2>1, PrintedIs DEF Member
  <2>2. CASE Kind(doc) = "obj"
    <3> DEFINE f == [m \in DOMAIN doc[2] |-> PrintedNumber(doc[2][m])]
    <3>1. Printed(doc) = Obj(f) /\ Kind(Obj(f)) = "obj" /\ Obj(f)[2] = f
      BY <2>2, PrintedIs, TagFacts
    <3>2. \A m \in DOMAIN doc[2] : f[m] = PrintedNumber(doc[2][m])
      OBVIOUS
    <3>3. DOMAIN f = DOMAIN doc[2]
      OBVIOUS
    <3> HIDE DEF f
    <3> QED
      BY <1>1, <2>2, <3>1, <3>2, <3>3 DEF Member
  <2> QED
    BY <2>1, <2>2
<1>3. \A x, t : (PrintedNumber(x) = Str(t)) <=> (x = Str(t))
  BY TagFacts DEF PrintedNumber
<1>4. ASSUME NEW tags
      PROVE  {t \in tags : Member(Printed(doc), "type") = Str(Plain(t))} =
             {t \in tags : Member(doc, "type") = Str(Plain(t))}
  BY <1>2, <1>3
<1>5. ASSUME NEW tags PROVE TypeAmong(tags, Printed(doc)) = TypeAmong(tags, doc)
  <2> DEFINE Chosen(S) == IF S = {} THEN "unknown" ELSE CHOOSE t \in S : TRUE
             A == {t \in tags : Member(Printed(doc), "type") = Str(Plain(t))}
             B == {t \in tags : Member(doc, "type") = Str(Plain(t))}
  <2>1. A = B
    BY <1>4
  <2>2. TypeAmong(tags, Printed(doc)) = Chosen(A) /\ TypeAmong(tags, doc) = Chosen(B)
    BY Zenon DEF TypeAmong
  <2> HIDE DEF Chosen, A, B
  <2> QED
    BY <2>1, <2>2
<1> QED
  BY <1>2, <1>5

\* The type of a document is a tag it carries.
LEMMA TypeIs ==
  ASSUME NEW tags, NEW doc
  PROVE  /\ \A t \in tags : Member(doc, "type") = Str(Plain(t)) => TypeAmong(tags, doc) = t
         /\ \/ TypeAmong(tags, doc) = "unknown"
            \/ /\ TypeAmong(tags, doc) \in tags
               /\ Member(doc, "type") = Str(Plain(TypeAmong(tags, doc)))
<1> DEFINE named == {t \in tags : Member(doc, "type") = Str(Plain(t))}
<1>1. \A s, t : Str(Plain(s)) = Str(Plain(t)) => s = t
  BY DEF Str, Plain
<1>2. \A s, t \in named : s = t
  BY <1>1
<1>0. TypeAmong(tags, doc) = IF named = {} THEN "unknown" ELSE CHOOSE t \in named : TRUE
  BY Zenon DEF TypeAmong
<1>3. CASE named = {}
  <2>1. TypeAmong(tags, doc) = "unknown"
    BY <1>0, <1>3
  <2>2. \A t \in tags : Member(doc, "type") # Str(Plain(t))
    BY <1>3
  <2> QED
    BY <2>1, <2>2
<1>4. CASE named # {}
  <2>1. TypeAmong(tags, doc) = CHOOSE t \in named : TRUE
    BY <1>0, <1>4
  <2>2. (CHOOSE t \in named : TRUE) \in named
    BY <1>4
  <2> QED
    BY <1>2, <2>1, <2>2
<1> QED
  BY <1>3, <1>4

LEMMA NullUnknown ==
  ControlFormType(Null) = "unknown" /\ ControlFormType(Null) \notin ControlTags
<1>1. Member(Null, "type") = Null
  BY TagFacts DEF Member
<1>2. \A t : Member(Null, "type") # Str(Plain(t))
  BY <1>1, TagFacts
<1>3. ControlFormType(Null) = "unknown"
  BY <1>2, TypeIs DEF ControlFormType
<1> QED
  BY <1>3 DEF ControlTags

\* An object that is written as its model says.
Proper(t, object) ==
  /\ DOMAIN object = DOMAIN MembersOf(t)
  /\ object = [m \in DOMAIN object |-> object[m]]
  /\ \A m \in DOMAIN MembersOf(t) : Fits(MembersOf(t)[m], Put(MembersOf(t)[m], object[m]))

LEMMA ReadProper ==
  ASSUME NEW t \in Tags, NEW doc, \A m : Tagged(Member(doc, m))
  PROVE  Proper(t, FromJson(t, doc))
<1>1. \A m \in DOMAIN MembersOf(t) :
        Fits(MembersOf(t)[m], Put(MembersOf(t)[m], FromJson(t, doc)[m]))
  BY ModelMembers, FromJsonIs, AgainFits
<1>2. FromJson(t, doc) = [m \in DOMAIN FromJson(t, doc) |-> FromJson(t, doc)[m]]
  BY DEF FromJson
<1> QED
  BY <1>1, <1>2, FromJsonIs DEF Proper

LEMMA ProperSet ==
  ASSUME NEW t \in Tags, NEW object, Proper(t, object), NEW m \in DOMAIN MembersOf(t), NEW x,
         Fits(MembersOf(t)[m], Put(MembersOf(t)[m], x))
  PROVE  /\ Proper(t, [object EXCEPT ![m] = x])
         /\ [object EXCEPT ![m] = x][m] = x
         /\ \A n \in DOMAIN MembersOf(t) \ {m} : [object EXCEPT ![m] = x][n] = object[n]
  BY DEF Proper

\* A text or a double may be set to anything.
LEMMA ScalarSet ==
  ASSUME NEW t \in Tags, NEW object, Proper(t, object), NEW m \in DOMAIN MembersOf(t), NEW x,
         MembersOf(t)[m] \in {"str", "opt_str", "f64", "opt_f64"}
  PROVE  LET new == [object EXCEPT ![m] = {x}]
         IN  /\ Proper(t, new)
             /\ new[m] = {x}
             /\ \A n \in DOMAIN MembersOf(t) \ {m} : new[n] = object[n]
<1>1. /\ Put("str", {x}) = Str(x) /\ Put("opt_str", {x}) = Str(x)
      /\ Put("f64", {x}) = Num(Written(x)) /\ Put("opt_f64", {x}) = Num(Written(x))
  BY PutIs
<1>2. /\ Fits("str", Str(x)) /\ Fits("opt_str", Str(x))
      /\ Fits("f64", Num(Written(x))) /\ Fits("opt_f64", Num(Written(x)))
  BY FitsIs, TagFacts
<1>3. Fits(MembersOf(t)[m], Put(MembersOf(t)[m], {x}))
  BY <1>1, <1>2
<1> QED
  BY <1>3, ProperSet

LEMMA ProperWritten ==
  ASSUME NEW t \in Tags, NEW object, Proper(t, object)
  PROVE  Conforms(t, ToJson(t, object))
  BY ToJsonIs DEF Proper, Conforms

\* The members every network message has, and the ones the agent sets.
LEMMA MessageModels ==
  /\ \A t \in NetworkTags :
       /\ {"dest", "src", "isrc", "timestamp"} \subseteq DOMAIN MembersOf(t)
       /\ MembersOf(t)["dest"] = "opt_str" /\ MembersOf(t)["src"] = "str"
       /\ MembersOf(t)["isrc"] = "opt_str" /\ MembersOf(t)["timestamp"] = "opt_f64"
  /\ {"tckuuid", "hop_time", "network_ticket_type"} \subseteq DOMAIN MembersOf("ticket_trace_response")
  /\ MembersOf("ticket_trace_response")["tckuuid"] = "str"
  /\ MembersOf("ticket_trace_response")["hop_time"] = "f64"
  /\ MembersOf("ticket_trace_response")["network_ticket_type"] = "str"
  /\ MembersOf("ticket_request") = MembersOf("ticket_response")
  /\ {"tckuuid", "tracing", "form"} \subseteq DOMAIN MembersOf("ticket_request")
  /\ MembersOf("ticket_request")["tckuuid"] = "str"
  /\ MembersOf("ticket_request")["tracing"] = "flag"
  /\ MembersOf("ticket_request")["form"] = "raw"
<1> DEFINE Common(f) ==
             /\ {"dest", "src", "isrc", "timestamp"} \subseteq DOMAIN f
             /\ f["dest"] = "opt_str" /\ f["src"] = "str"
             /\ f["isrc"] = "opt_str" /\ f["timestamp"] = "opt_f64"
<1>1. Common(PingMembers)
  BY DEF PingMembers
<1>2. ASSUME NEW f, NEW g, Common(f) PROVE Common(Joined(f, g))
  BY <1>2 DEF Joined
<1> HIDE DEF Common
<1>3. /\ Common(MessagesRequestMembers) /\ Common(AcknowledgementMembers)
      /\ Common(MessagesResponseMembers) /\ Common(TraceResponseMembers) /\ Common(TicketMembers)
  BY <1>1, <1>2
     DEF MessagesRequestMembers, AcknowledgementMembers, MessagesResponseMembers,
         TraceResponseMembers, TicketMembers
<1>4. \A t \in NetworkTags : Common(MembersOf(t))
  BY <1>1, <1>3 DEF MembersOf, NetworkTags
<1>5. /\ MembersOf("ticket_trace_response") = TraceResponseMembers
      /\ MembersOf("ticket_request") = TicketMembers
      /\ MembersOf("ticket_response") = TicketMembers
  BY DEF MembersOf
<1>6. /\ {"tckuuid", "hop_time", "network_ticket_type"} \subseteq DOMAIN TraceResponseMembers
      /\ TraceResponseMembers["tckuuid"] = "str" /\ TraceResponseMembers["hop_time"] = "f64"
      /\ TraceResponseMembers["network_ticket_type"] = "str"
  BY DEF TraceResponseMembers, Joined, PingMembers
<1>7. /\ {"tckuuid", "tracing", "form"} \subseteq DOMAIN TicketMembers
      /\ TicketMembers["tckuuid"] = "str" /\ TicketMembers["tracing"] = "flag"
      /\ TicketMembers["form"] = "raw"
  BY DEF TicketMembers, Joined, PingMembers
<1> QED
  BY <1>4, <1>5, <1>6, <1>7 DEF Common

\* A message that is posted names the agent and is otherwise as it was written.
LEMMA PostedIs ==
  ASSUME NEW t \in NetworkTags, NEW object, Proper(t, object)
  PROVE  LET doc == Post(ToJson(t, object))
         IN  /\ Conforms(t, doc)
             /\ NetworkMessageType(doc) = t
             /\ Member(doc, "isrc") = Str(Agent)
             /\ \A m \in DOMAIN MembersOf(t) \ {"isrc"} :
                  Member(doc, m) = Put(MembersOf(t)[m], object[m])
<1> DEFINE d == ToJson(t, object)
           f == [isrc |-> Str(Agent)]
           doc == Post(d)
<1>1. t \in Tags
  BY DEF Tags
<1>2. /\ Kind(d) = "obj" /\ DOMAIN d[2] = {"type"} \cup DOMAIN MembersOf(t)
      /\ d[2]["type"] = Str(Plain(t))
      /\ \A m \in DOMAIN MembersOf(t) : d[2][m] = Put(MembersOf(t)[m], object[m])
  BY <1>1, ToJsonIs DEF Proper
<1>3. doc = Obj(Joined(f, d[2])) /\ Kind(doc) = "obj" /\ doc[2] = Joined(f, d[2])
  BY TagFacts DEF Post, SetIsrc
<1>4. "isrc" \in DOMAIN MembersOf(t) /\ MembersOf(t)["isrc"] = "opt_str"
  BY MessageModels
<1>5. "type" \notin DOMAIN MembersOf(t)
  BY <1>1, ModelMembers
<1> HIDE DEF d
<1>6. /\ DOMAIN doc[2] = {"type"} \cup DOMAIN MembersOf(t)
      /\ doc[2]["type"] = Str(Plain(t))
      /\ doc[2]["isrc"] = Str(Agent)
      /\ \A m \in DOMAIN MembersOf(t) \ {"isrc"} : doc[2][m] = Put(MembersOf(t)[m], object[m])
  <2>1. DOMAIN f = {"isrc"} /\ f["isrc"] = Str(Agent)
    OBVIOUS
  <2> HIDE DEF f
  <2>2. /\ DOMAIN Joined(f, d[2]) = {"isrc"} \cup DOMAIN d[2]
        /\ Joined(f, d[2])["isrc"] = Str(Agent)
        /\ \A m \in DOMAIN d[2] \ {"isrc"} : Joined(f, d[2])[m] = d[2][m]
    BY <2>1 DEF Joined
  <2> QED
    BY <1>2, <1>3, <1>4, <1>5, <2>2
<1> HIDE DEF doc
<1>7. Fits("opt_str", Str(Agent))
  BY FitsIs, TagFacts
<1>8. Conforms(t, doc)
  BY <1>3, <1>4, <1>6, <1>7 DEF Conforms, Proper
<1>9. \A m \in DOMAIN doc[2] : Member(doc, m) = doc[2][m]
  BY <1>3 DEF Member
<1>10. NetworkMessageType(doc) = t
  BY <1>6, <1>9, TypeIs DEF NetworkMessageType
<1> QED
  BY <1>4, <1>6, <1>8, <1>9, <1>10 DEF doc, d

LEMMA BlankProper ==
  ASSUME NEW t \in Tags
  PROVE  Proper(t, Blank(t))
<1>1. Tagged(Null)
  BY DEF Tagged
<1>2. Kind(Obj(<<>>)) = "obj" /\ Obj(<<>>)[2] = <<>>
  BY TagFacts
<1>3. \A m : m \notin DOMAIN <<>>
  OBVIOUS
<1>4. \A m : Member(Obj(<<>>), m) = Null
  BY <1>2, <1>3 DEF Member
<1> QED
  BY <1>1, <1>4, ReadProper DEF Blank

\* The trace of a ticket, as it is posted.
PostedTrace(t, type) == Post(ToJson("ticket_trace_response", TraceResponse(t, type)))

\* A trace names the ticket and goes to its sender.
LEMMA TraceIs ==
  ASSUME NEW type, NEW t, NEW x, NEW y, t["tckuuid"] = {x}, t["src"] = {y}
  PROVE  /\ Conforms("ticket_trace_response", PostedTrace(t, type))
         /\ NetworkMessageType(PostedTrace(t, type)) = "ticket_trace_response"
         /\ Member(PostedTrace(t, type), "isrc") = Str(Agent)
         /\ Member(PostedTrace(t, type), "dest") = Str(y)
         /\ Member(PostedTrace(t, type), "tckuuid") = Str(x)
         /\ Member(PostedTrace(t, type), "network_ticket_type") = Str(Plain(type))
<1> DEFINE T == "ticket_trace_response"
           b0 == Blank(T)
           b1 == [b0 EXCEPT !["tckuuid"] = {x}]
           b2 == [b1 EXCEPT !["network_ticket_type"] = {Plain(type)}]
           b3 == [b2 EXCEPT !["hop_time"] = {Now}]
           b4 == [b3 EXCEPT !["src"] = {Agent}]
           b5 == [b4 EXCEPT !["dest"] = {y}]
<1>1. T \in NetworkTags /\ T \in Tags
  BY DEF NetworkTags, Tags
<1>2. Proper(T, b0)
  BY <1>1, BlankProper
<1>3. /\ {"tckuuid", "hop_time", "network_ticket_type", "dest", "src"} \subseteq DOMAIN MembersOf(T)
      /\ MembersOf(T)["tckuuid"] = "str" /\ MembersOf(T)["hop_time"] = "f64"
      /\ MembersOf(T)["network_ticket_type"] = "str"
      /\ MembersOf(T)["dest"] = "opt_str" /\ MembersOf(T)["src"] = "str"
  BY <1>1, MessageModels
<1>5. TraceResponse(t, type) = b5
  BY DEF TraceResponse
<1> HIDE DEF b0
<1>6. Proper(T, b1) /\ b1["tckuuid"] = {x}
  BY <1>1, <1>2, <1>3, ScalarSet
<1> HIDE DEF b1
<1>7. Proper(T, b2) /\ b2["tckuuid"] = {x} /\ b2["network_ticket_type"] = {Plain(type)}
  BY <1>1, <1>3, <1>6, ScalarSet
<1> HIDE DEF b2
<1>8. Proper(T, b3) /\ b3["tckuuid"] = {x} /\ b3["network_ticket_type"] = {Plain(type)}
  BY <1>1, <1>3, <1>7, ScalarSet
<1> HIDE DEF b3
<1>9. Proper(T, b4) /\ b4["tckuuid"] = {x} /\ b4["network_ticket_type"] = {Plain(type)}
  BY <1>1, <1>3, <1>8, ScalarSet
<1> HIDE DEF b4
<1>10. /\ Proper(T, b5) /\ b5["tckuuid"] = {x} /\ b5["network_ticket_type"] = {Plain(type)}
       /\ b5["dest"] = {y}
  BY <1>1, <1>3, <1>9, ScalarSet
<1> HIDE DEF b5
<1>11. /\ Put("str", {x}) = Str(x) /\ Put("str", {Plain(type)}) = Str(Plain(type))
       /\ Put("opt_str", {y}) = Str(y)
  BY PutIs
<1> DEFINE d == Post(ToJson(T, b5))
<1>12. /\ Conforms(T, d) /\ NetworkMessageType(d) = T /\ Member(d, "isrc") = Str(Agent)
       /\ \A m \in DOMAIN MembersOf(T) \ {"isrc"} : Member(d, m) = Put(MembersOf(T)[m], b5[m])
  BY <1>1, <1>10, PostedIs
<1> HIDE DEF d
<1>13. Member(d, "dest") = Str(y) /\ Member(d, "tckuuid") = Str(x)
  BY <1>3, <1>10, <1>11, <1>12
<1>14. Member(d, "network_ticket_type") = Str(Plain(type))
  BY <1>3, <1>10, <1>11, <1>12
<1>15. PostedTrace(t, type) = d
  BY <1>5 DEF PostedTrace, d
<1> QED
  BY <1>12, <1>13, <1>14, <1>15

\* The same for the acknowledgement of a ping.
LEMMA AckIs ==
  ASSUME NEW doc, NEW y, FromJson("ping", Printed(doc)).src = {y}
  PROVE  /\ Conforms("acknowledgement", AckOf(doc))
         /\ NetworkMessageType(AckOf(doc)) = "acknowledgement"
         /\ Member(AckOf(doc), "isrc") = Str(Agent)
         /\ Member(AckOf(doc), "dest") = Str(y)
<1> DEFINE T == "acknowledgement"
           b0 == Blank(T)
           b1 == [b0 EXCEPT !["src"] = {Agent}]
           b2 == [b1 EXCEPT !["dest"] = {y}]
           b3 == [b2 EXCEPT !["timestamp"] = {Now}]
<1>1. T \in NetworkTags /\ T \in Tags
  BY DEF NetworkTags, Tags
<1>2. Proper(T, b0)
  BY <1>1, BlankProper
<1>3. /\ {"timestamp", "dest", "src"} \subseteq DOMAIN MembersOf(T)
      /\ MembersOf(T)["timestamp"] = "opt_f64"
      /\ MembersOf(T)["dest"] = "opt_str" /\ MembersOf(T)["src"] = "str"
  BY <1>1, MessageModels
<1>5. AckOf(doc) = Post(ToJson(T, b3))
  BY DEF AckOf
<1> HIDE DEF b0
<1>6. Proper(T, b1)
  BY <1>1, <1>2, <1>3, ScalarSet
<1> HIDE DEF b1
<1>7. Proper(T, b2) /\ b2["dest"] = {y}
  BY <1>1, <1>3, <1>6, ScalarSet
<1> HIDE DEF b2
<1>8. Proper(T, b3) /\ b3["dest"] = {y}
  BY <1>1, <1>3, <1>7, ScalarSet
<1> HIDE DEF b3
<1>9. Put("opt_str", {y}) = Str(y)
  BY PutIs
<1> QED
  BY <1>1, <1>3, <1>5, <1>8, <1>9, PostedIs

\* What is read of a document in the answer to a poll.
LEMMA ReadIs ==
  ASSUME NEW t \in Tags, NEW doc, Readable(doc)
  PROVE  LET object == FromJson(t, Printed(doc))
         IN  /\ Proper(t, object)
             /\ \A m \in DOMAIN MembersOf(t) :
                  /\ object[m] = Get(MembersOf(t)[m], PrintedNumber(Member(doc, m)))
                  /\ Fits(MembersOf(t)[m], Member(doc, m)) =>
                       Put(MembersOf(t)[m], object[m]) = Kept(MembersOf(t)[m], Member(doc, m))
<1>1. Shallow(doc)
  BY ShallowMembers
<1>2. \A m : Member(Printed(doc), m) = PrintedNumber(Member(doc, m))
  BY <1>1, PrintedDocument
<1>3. \A m : Shallow(Member(doc, m)) /\ Tagged(Member(doc, m))
  BY ShallowMembers
<1>4. \A m : Tagged(Member(Printed(doc), m))
  BY <1>2, <1>3, PrintedNumberIs
<1>5. Proper(t, FromJson(t, Printed(doc)))
  BY <1>4, ReadProper
<1>6. ASSUME NEW m \in DOMAIN MembersOf(t)
      PROVE  /\ FromJson(t, Printed(doc))[m] = Get(MembersOf(t)[m], PrintedNumber(Member(doc, m)))
             /\ Fits(MembersOf(t)[m], Member(doc, m)) =>
                  Put(MembersOf(t)[m], FromJson(t, Printed(doc))[m]) = Kept(MembersOf(t)[m], Member(doc, m))
  <2> DEFINE k == MembersOf(t)[m]
  <2>1. k \in Kinds
    BY ModelMembers
  <2>2. /\ FromJson(t, Printed(doc))[m] = Get(k, Member(Printed(doc), m))
        /\ Put(k, FromJson(t, Printed(doc))[m]) = Again(k, Member(Printed(doc), m))
    BY FromJsonIs
  <2>3. Fits(k, Member(doc, m)) => Again(k, PrintedNumber(Member(doc, m))) = Kept(k, Member(doc, m))
    BY <1>3, <2>1, PrintedKeeps
  <2> QED
    BY <1>2, <2>2, <2>3
<1> QED
  BY <1>5, <1>6

\* The members of a ticket that the agent works with.
LEMMA RequestIs ==
  ASSUME NEW doc, IsDocument(doc)
  PROVE  LET form == Member(doc, "form")
             t    == RequestOf(doc)
         IN  /\ Proper("ticket_request", t)
             /\ \E x : t.tckuuid = {x}
             /\ \E x : t.src = {x} /\ (Kind(Member(doc, "src")) = "str" => Member(doc, "src") = Str(x))
             /\ Member(doc, "tracing") = Bool(TRUE) => t.tracing = {TRUE}
             /\ t.form = IF form = Null THEN {} ELSE {Printed(form)}
<1> DEFINE M == MembersOf("ticket_request")
           t == RequestOf(doc)
<1>1. "ticket_request" \in Tags /\ "ticket_request" \in NetworkTags
  BY DEF Tags, NetworkTags
<1>2. /\ {"tckuuid", "src", "tracing", "form"} \subseteq DOMAIN M
      /\ M["tckuuid"] = "str" /\ M["src"] = "str" /\ M["tracing"] = "flag" /\ M["form"] = "raw"
  BY <1>1, MessageModels
<1>3. /\ Proper("ticket_request", t)
      /\ \A m \in DOMAIN M : t[m] = Get(M[m], PrintedNumber(Member(doc, m)))
  BY <1>1, DocumentReadable, ReadIs DEF RequestOf
<1> HIDE DEF t, M
<1>4. /\ t["tckuuid"] = Get("str", PrintedNumber(Member(doc, "tckuuid")))
      /\ t["src"] = Get("str", PrintedNumber(Member(doc, "src")))
      /\ t["tracing"] = Get("flag", PrintedNumber(Member(doc, "tracing")))
      /\ t["form"] = Get("raw", PrintedNumber(Member(doc, "form")))
  BY <1>2, <1>3
<1>5. \A m : Tagged(Member(doc, m)) /\ Shallow(Member(doc, m))
  BY ReadableMembers, ReadableIs
<1>6. \E x : t["tckuuid"] = {x}
  <2> DEFINE v == PrintedNumber(Member(doc, "tckuuid"))
  <2>1. PICK d : Get("str", v) = {IF Kind(v) = "str" THEN v[2] ELSE d}
    BY GetIs
  <2> QED
    BY <1>4, <2>1
<1>7. \E x : t["src"] = {x} /\ (Kind(Member(doc, "src")) = "str" => Member(doc, "src") = Str(x))
  <2> DEFINE v == Member(doc, "src")
  <2>1. PICK d : Get("str", PrintedNumber(v)) = {IF Kind(PrintedNumber(v)) = "str" THEN PrintedNumber(v)[2] ELSE d}
    BY GetIs
  <2>2. Kind(v) = "str" => PrintedNumber(v) = v /\ v = Str(v[2])
    BY <1>5, PrintedNumberIs, KindCases
  <2> QED
    BY <1>4, <2>1, <2>2
<1>8. ASSUME NEW b \in BOOLEAN, Member(doc, "tracing") = Bool(b) PROVE t["tracing"] = {b}
  <2>1. Kind(Bool(b)) = "bool" /\ Bool(b)[2] = b
    BY TagFacts
  <2>2. PrintedNumber(Bool(b)) = Bool(b)
    BY <2>1 DEF PrintedNumber
  <2>3. PICK d \in BOOLEAN : Get("flag", Bool(b)) = {IF Kind(Bool(b)) = "bool" THEN Bool(b)[2] ELSE d}
    BY GetIs
  <2> QED
    BY <1>4, <1>8, <2>1, <2>2, <2>3
<1>9. t["form"] = IF Member(doc, "form") = Null THEN {} ELSE {Printed(Member(doc, "form"))}
  <2> DEFINE v == Member(doc, "form")
  <2>1. PrintedNumber(v) = Null <=> v = Null
    BY <1>5, PrintedNumberIs, KindCases, TagFacts
  <2>2. Printed(PrintedNumber(v)) = Printed(v)
    BY <1>5, PrintedIs
  <2> QED
    BY <1>4, <2>1, <2>2, GetIs
<1>10. Member(doc, "tracing") = Bool(TRUE) => t["tracing"] = {TRUE}
  BY <1>8, Zenon
<1> QED
  BY <1>3, <1>6, <1>7, <1>9, <1>10, Zenon DEF t

\* An object that was read and changed in other members keeps the rest.
LEMMA KeptAround ==
  ASSUME NEW t \in Tags, NEW doc, Readable(doc), NEW object, Proper(t, object),
         \A m \in Untouched(t) : object[m] = FromJson(t, Printed(doc))[m],
         NEW reply, \A m \in Untouched(t) : Member(reply, m) = Put(MembersOf(t)[m], object[m])
  PROVE  KeptMembers(t, doc, reply)
<1>1. \A m \in Untouched(t) : m \in DOMAIN MembersOf(t)
  BY DEF Untouched
<1>2. ASSUME NEW m \in Untouched(t), Fits(MembersOf(t)[m], Member(doc, m))
      PROVE  Member(reply, m) = Kept(MembersOf(t)[m], Member(doc, m))
  <2>1. Put(MembersOf(t)[m], FromJson(t, Printed(doc))[m]) = Kept(MembersOf(t)[m], Member(doc, m))
    BY <1>1, <1>2, ReadIs
  <2> QED
    BY <1>2, <2>1
<1> QED
  BY <1>2 DEF KeptMembers

LEMMA FormModels ==
  /\ "config" \in DOMAIN MembersOf("get_config") /\ MembersOf("get_config")["config"] = "raw"
  /\ "payload" \in DOMAIN MembersOf("benchmark") /\ MembersOf("benchmark")["payload"] = "opt_str"
  /\ "inbound_size" \in DOMAIN MembersOf("benchmark")
  /\ MembersOf("benchmark")["inbound_size"] = "opt_i64"
<1>1. MembersOf("get_config") = GetConfigMembers /\ MembersOf("benchmark") = BenchmarkMembers
  BY DEF MembersOf
<1> QED
  BY <1>1 DEF GetConfigMembers, BenchmarkMembers

\* The work on a form leaves its type and every member it has no business with.
LEMMA FormIs ==
  ASSUME NEW form, Readable(form)
  PROVE  LET done == ProcessControlForm(Printed(form))
             type == ControlFormType(form)
         IN  /\ ControlFormType(done) = type
             /\ type \in ControlTags => Conforms(type, done) /\ KeptMembers(type, form, done)
             /\ type \notin ControlTags => done = Printed(form)
             /\ done # Null <=> form # Null
<1> DEFINE f    == Printed(form)
           done == ProcessControlForm(f)
           type == ControlFormType(form)
<1>1. Shallow(form) /\ Tagged(form)
  BY ReadableIs
<1>2. ControlFormType(f) = type
  BY <1>1, PrintedDocument DEF ControlFormType
<1>3. ControlTags \subseteq Tags /\ ControlTags = {"benchmark", "get_config"}
  BY DEF Tags, ControlTags
<1>4. ASSUME NEW t \in ControlTags, type = t, NEW object, Proper(t, object), done = ToJson(t, object),
             \A m \in Untouched(t) : object[m] = FromJson(t, f)[m]
      PROVE  ControlFormType(done) = t /\ Conforms(t, done) /\ KeptMembers(t, form, done) /\ done # Null
  <2>1. t \in Tags
    BY <1>3
  <2>2. /\ Kind(done) = "obj" /\ Member(done, "type") = Str(Plain(t))
        /\ \A m \in DOMAIN MembersOf(t) : Member(done, m) = Put(MembersOf(t)[m], object[m])
    BY <1>4, <2>1, ToJsonIs DEF Proper
  <2>3. Conforms(t, done)
    BY <1>4, <2>1, ProperWritten
  <2>4. ControlFormType(done) = t
    BY <2>2, TypeIs DEF ControlFormType
  <2>5. KeptMembers(t, form, done)
    BY <1>4, <2>1, <2>2, KeptAround DEF Untouched
  <2> QED
    BY <2>2, <2>3, <2>4, <2>5, TagFacts
<1>5. type \in ControlTags => form # Null
  <2>1. Member(Null, "type") = Null
    BY TagFacts DEF Member
  <2>2. type \in ControlTags => Member(form, "type") = Str(Plain(type))
    BY <1>3, TypeIs DEF ControlFormType
  <2> QED
    BY <2>1, <2>2, TagFacts
<1>6. CASE type = "get_config"
  <2> DEFINE read   == FromJson("get_config", f)
             object == [read EXCEPT !["config"] = {ConfigDoc}]
  <2>1. done = ToJson("get_config", object)
    BY <1>2, <1>6 DEF ProcessControlForm, GetConfigDone
  <2>2. Proper("get_config", read)
    BY <1>3, ReadIs
  <2>3. Fits("raw", Put("raw", {ConfigDoc}))
    BY FitsIs
  <2> HIDE DEF read
  <2>4. Proper("get_config", object) /\ \A n \in DOMAIN MembersOf("get_config") \ {"config"} : object[n] = read[n]
    BY <1>3, <2>2, <2>3, FormModels, ProperSet
  <2>5. \A m \in Untouched("get_config") : object[m] = read[m]
    BY <2>4 DEF Untouched
  <2> QED
    BY <1>3, <1>4, <1>5, <1>6, <2>1, <2>4, <2>5 DEF read
<1>7. CASE type = "benchmark"
  <2> DEFINE read   == FromJson("benchmark", f)
             load   == {Zeros(n) : n \in read["inbound_size"]}
             object == [read EXCEPT !["payload"] = load]
  <2>1. done = ToJson("benchmark", object)
    BY <1>2, <1>7 DEF ProcessControlForm, BenchmarkDone
  <2>2. /\ Proper("benchmark", read)
        /\ read["inbound_size"] = Get("opt_i64", PrintedNumber(Member(form, "inbound_size")))
    BY <1>3, FormModels, ReadIs
  <2> HIDE DEF read
  <2>3. load = {} \/ \E x : load = {x}
    <3> DEFINE v == PrintedNumber(Member(form, "inbound_size"))
    <3>0. Get("opt_i64", v) = IF v = Null THEN {} ELSE {AsInt64(v)}
      BY GetIs
    <3>1. read["inbound_size"] = {} \/ \E n : read["inbound_size"] = {n}
      BY <2>2, <3>0
    <3>2. ASSUME NEW n, read["inbound_size"] = {n} PROVE load = {Zeros(n)}
      BY <3>2
    <3>3. read["inbound_size"] = {} => load = {}
      OBVIOUS
    <3> QED
      BY <3>1, <3>2, <3>3
  <2> HIDE DEF load
  <2>4. Fits("opt_str", Put("opt_str", load))
    <3>1. CASE load = {}
      <4>1. Put("opt_str", {}) = Null
        BY PutNone DEF Kinds
      <4> QED
        BY <3>1, <4>1, FitsIs, TagFacts
    <3>2. ASSUME NEW x, load = {x} PROVE Fits("opt_str", Put("opt_str", load))
      <4>1. Put("opt_str", {x}) = Str(x)
        BY PutIs
      <4> QED
        BY <3>2, <4>1, FitsIs, TagFacts
    <3> QED
      BY <2>3, <3>1, <3>2
  <2>5. Proper("benchmark", object) /\ \A n \in DOMAIN MembersOf("benchmark") \ {"payload"} : object[n] = read[n]
    BY <1>3, <2>2, <2>4, FormModels, ProperSet
  <2>6. \A m \in Untouched("benchmark") : object[m] = read[m]
    BY <2>5 DEF Untouched
  <2> QED
    BY <1>3, <1>4, <1>5, <1>7, <2>1, <2>5, <2>6 DEF read, load
<1>8. CASE type \notin ControlTags
  <2>1. done = f
    BY <1>2, <1>3, <1>8 DEF ProcessControlForm, UnknownEchoed
  <2>2. f # Null <=> form # Null
    <3>1. Kind(f) = Kind(form) /\ Tagged(f)
      BY <1>1, PrintedIs DEF Shallow
    <3>2. \A v : Tagged(v) => (v = Null <=> Kind(v) = "null")
      BY KindCases, TagFacts
    <3> QED
      BY <1>1, <3>1, <3>2
  <2> QED
    BY <1>2, <1>8, <2>1, <2>2
<1> QED
  BY <1>3, <1>6, <1>7, <1>8

\* The reply to a ticket, and that it is that ticket.
LEMMA ResponseIs ==
  ASSUME NEW doc, IsDocument(doc)
  PROVE  LET reply    == ResponseOf(doc)
             asked    == Member(doc, "form")
             answered == Member(reply, "form")
         IN  /\ Conforms("ticket_response", reply)
             /\ NetworkMessageType(reply) = "ticket_response"
             /\ Member(reply, "isrc") = Str(Agent)
             /\ \A x : RequestOf(doc).src = {x} => Member(reply, "dest") = Str(x)
             /\ \A x : RequestOf(doc).tckuuid = {x} => Member(reply, "tckuuid") = Str(x)
             /\ KeptMembers("ticket_request", doc, reply)
             /\ asked = Null => answered = Null
             /\ asked # Null => answered = ProcessControlForm(Printed(asked))
<1> DEFINE M == MembersOf("ticket_request")
           t == RequestOf(doc)
           asked == Member(doc, "form")
           form == {ProcessControlForm(f) : f \in t.form}
           w == [t EXCEPT !["form"] = form]
           w1 == [w EXCEPT !["dest"] = w["src"]]
           w2 == [w1 EXCEPT !["src"] = {Agent}]
           reply == Post(ToJson("ticket_response", w2))
<1>1. /\ "ticket_request" \in Tags /\ "ticket_request" \in NetworkTags
      /\ "ticket_response" \in Tags /\ "ticket_response" \in NetworkTags
  BY DEF Tags, NetworkTags
<1>2. /\ {"tckuuid", "src", "dest", "tracing", "form"} \subseteq DOMAIN M
      /\ M["tckuuid"] = "str" /\ M["src"] = "str" /\ M["dest"] = "opt_str" /\ M["form"] = "raw"
      /\ MembersOf("ticket_response") = M
  BY <1>1, MessageModels
<1>3. PICK x, y : /\ Proper("ticket_request", t)
                  /\ t.tckuuid = {x} /\ t.src = {y}
                  /\ t.form = IF asked = Null THEN {} ELSE {Printed(asked)}
  BY RequestIs
<1>4. ResponseOf(doc) = reply
  BY DEF ResponseOf, Reply, WorkedOf
<1>5. /\ asked = Null => form = {}
      /\ asked # Null => form = {ProcessControlForm(Printed(asked))}
  BY <1>3
<1>6. /\ asked = Null => Put("raw", form) = Null
      /\ asked # Null => Put("raw", form) = ProcessControlForm(Printed(asked))
  BY <1>5, PutIs, PutNone DEF Kinds
<1>7. t = FromJson("ticket_request", Printed(doc))
  BY DEF RequestOf
<1> HIDE DEF t, form, asked
<1>8. /\ Proper("ticket_request", w) /\ w["form"] = form
      /\ \A m \in DOMAIN M \ {"form"} : w[m] = t[m]
  <2>1. Fits("raw", Put("raw", form))
    BY FitsIs
  <2> QED
    BY <1>1, <1>2, <1>3, <2>1, ProperSet
<1>9. w["src"] = {y} /\ w["tckuuid"] = {x}
  BY <1>2, <1>3, <1>8
<1> HIDE DEF w
<1>10. /\ Proper("ticket_request", w1) /\ w1["dest"] = {y}
       /\ \A m \in DOMAIN M \ {"dest"} : w1[m] = w[m]
  BY <1>1, <1>2, <1>8, <1>9, ScalarSet
<1> HIDE DEF w1
<1>11. /\ Proper("ticket_request", w2) /\ w2["src"] = {Agent}
       /\ \A m \in DOMAIN M \ {"src"} : w2[m] = w1[m]
  BY <1>1, <1>2, <1>10, ScalarSet
<1> HIDE DEF w2
<1>12. Proper("ticket_response", w2)
  BY <1>2, <1>11 DEF Proper
<1>13. /\ Conforms("ticket_response", reply)
       /\ NetworkMessageType(reply) = "ticket_response"
       /\ Member(reply, "isrc") = Str(Agent)
       /\ \A m \in DOMAIN M \ {"isrc"} : Member(reply, m) = Put(M[m], w2[m])
  BY <1>1, <1>2, <1>12, PostedIs
<1> HIDE DEF reply, M
<1>14. Member(reply, "dest") = Str(y) /\ Member(reply, "tckuuid") = Str(x)
  <2>1. w2["dest"] = {y} /\ w2["tckuuid"] = {x}
    BY <1>2, <1>9, <1>10, <1>11
  <2>2. Put("opt_str", {y}) = Str(y) /\ Put("str", {x}) = Str(x)
    BY PutIs
  <2> QED
    BY <1>2, <1>13, <2>1, <2>2
<1>15. Member(reply, "form") = Put("raw", form)
  BY <1>2, <1>8, <1>10, <1>11, <1>13
<1>16. KeptMembers("ticket_request", doc, reply)
  <2>1. \A m \in Untouched("ticket_request") : m \in DOMAIN M \ {"dest", "src", "isrc", "form"}
    BY DEF Untouched, M
  <2>2. \A m \in Untouched("ticket_request") : w2[m] = t[m] /\ Member(reply, m) = Put(M[m], w2[m])
    BY <1>8, <1>10, <1>11, <1>13, <2>1
  <2> QED
    BY <1>1, <1>7, <1>11, <2>2, DocumentReadable, KeptAround DEF M
<1>17. \A z : (t.src = {z} => z = y) /\ (t.tckuuid = {z} => z = x)
  BY <1>3
<1> QED
  BY <1>4, <1>6, <1>13, <1>14, <1>15, <1>16, <1>17 DEF t, asked

\* The sender of a message that was read.
LEMMA SenderIs ==
  ASSUME NEW t \in NetworkTags, NEW doc, IsDocument(doc)
  PROVE  \E x : /\ FromJson(t, Printed(doc))["src"] = {x}
                /\ Kind(Member(doc, "src")) = "str" => Member(doc, "src") = Str(x)
<1> DEFINE v == Member(doc, "src")
<1>1. t \in Tags
  BY DEF Tags
<1>2. "src" \in DOMAIN MembersOf(t) /\ MembersOf(t)["src"] = "str"
  BY MessageModels
<1>3. FromJson(t, Printed(doc))["src"] = Get("str", PrintedNumber(v))
  BY <1>1, <1>2, DocumentReadable, ReadIs
<1>4. PICK d : Get("str", PrintedNumber(v)) = {IF Kind(PrintedNumber(v)) = "str" THEN PrintedNumber(v)[2] ELSE d}
  BY GetIs
<1>5. Kind(v) = "str" => PrintedNumber(v) = v /\ v = Str(v[2])
  BY ReadableMembers, ReadableIs, PrintedNumberIs, KindCases
<1> QED
  BY <1>3, <1>4, <1>5

\* A trace of the ticket in the document.
Trace(doc, type) == PostedTrace(RequestOf(doc), type)

LEMMA PairSeq ==
  ASSUME NEW a, NEW b
  PROVE  <<a>> \o <<b>> = <<a, b>> /\ <<>> \o <<>> = <<>> /\ Append(<<>>, a) = <<a>>
<1> DEFINE S == {a, b}
<1>1. <<a>> \in Seq(S) /\ <<b>> \in Seq(S) /\ <<a, b>> \in Seq(S) /\ <<>> \in Seq(S)
  OBVIOUS
<1>2. <<a>> \o <<b>> = <<a, b>>
  <2>1. /\ <<a>> \o <<b>> \in Seq(S) /\ Len(<<a>> \o <<b>>) = 2
        /\ (<<a>> \o <<b>>)[1] = a /\ (<<a>> \o <<b>>)[2] = b
    BY <1>1, ConcatProperties
  <2> DEFINE s == <<a>> \o <<b>>
             t == <<a, b>>
  <2>2. t \in Seq(S) /\ Len(t) = 2 /\ t[1] = a /\ t[2] = b
    BY <1>1
  <2>3. s \in Seq(S) /\ Len(s) = 2 /\ s[1] = a /\ s[2] = b
    BY <2>1
  <2> HIDE DEF S, s, t
  <2>4. \A i \in 1 .. Len(s) : s[i] = t[i]
    BY <2>2, <2>3
  <2>5. s = t
    BY <2>2, <2>3, <2>4, SeqEqual
  <2> QED
    BY <2>5 DEF s, t
<1>3. <<>> \o <<>> = <<>>
  BY <1>1
<1>4. Append(<<>>, a) = <<a>>
  BY <1>1
<1> QED
  BY <1>2, <1>3, <1>4

LEMMA TripleSeq ==
  ASSUME NEW a, NEW b, NEW c
  PROVE  Append(<<a, b>>, c) = <<a, b, c>>
<1> DEFINE S == {a, b, c}
<1>1. <<a, b>> \in Seq(S) /\ <<a, b, c>> \in Seq(S) /\ c \in S
  OBVIOUS
<1>2. /\ Append(<<a, b>>, c) \in Seq(S) /\ Len(Append(<<a, b>>, c)) = 3
      /\ Append(<<a, b>>, c)[1] = a /\ Append(<<a, b>>, c)[2] = b /\ Append(<<a, b>>, c)[3] = c
  BY <1>1, AppendProperties
<1> DEFINE s == Append(<<a, b>>, c)
           t == <<a, b, c>>
<1>3. s \in Seq(S) /\ Len(s) = 3 /\ s[1] = a /\ s[2] = b /\ s[3] = c
  BY <1>2
<1>4. t \in Seq(S) /\ Len(t) = 3 /\ t[1] = a /\ t[2] = b /\ t[3] = c
  BY <1>1
<1> HIDE DEF S, s, t
<1>5. \A i \in 1 .. Len(s) : s[i] = t[i]
  BY <1>3, <1>4
<1>6. s = t
  BY <1>3, <1>4, <1>5, SeqEqual
<1> QED
  BY <1>6 DEF s, t

LEMMA EmptyBefore ==
  ASSUME NEW a
  PROVE  <<>> \o <<a>> = <<a>>
<1>1. <<a>> \in Seq({a})
  OBVIOUS
<1> QED
  BY <1>1, ConcatEmptySeq

LEMMA AnswersAre ==
  ASSUME NEW doc
  PROVE  LET type == NetworkMessageType(doc)
             traced == RequestOf(doc).tracing = {TRUE}
             first == Trace(doc, "ticket_request")
             second == Trace(doc, "ticket_response")
         IN  /\ traced => /\ FirstTrace(doc) = <<first>>
                          /\ FirstTrace(doc) \o SecondTrace(doc) = <<first, second>>
             /\ ~traced => /\ FirstTrace(doc) = <<>>
                           /\ FirstTrace(doc) \o SecondTrace(doc) = <<>>
             /\ type = "ticket_request" /\ traced => AnswersTo(doc) = <<first, second, ResponseOf(doc)>>
             /\ type = "ticket_request" /\ ~traced => AnswersTo(doc) = <<ResponseOf(doc)>>
             /\ type = "ping" => AnswersTo(doc) = <<AckOf(doc)>>
             /\ type \notin {"ticket_request", "ping"} => AnswersTo(doc) = <<>>
<1> DEFINE traced == RequestOf(doc).tracing = {TRUE}
           first == Trace(doc, "ticket_request")
           second == Trace(doc, "ticket_response")
           type == NetworkMessageType(doc)
<1>1. ASSUME traced
      PROVE  FirstTrace(doc) = <<first>> /\ SecondTrace(doc) = <<second>>
  BY <1>1, Zenon DEF FirstTrace, SecondTrace, TraceOf, Trace, PostedTrace
<1>2. ASSUME ~traced
      PROVE  FirstTrace(doc) = <<>> /\ SecondTrace(doc) = <<>>
  BY <1>2, Zenon DEF FirstTrace, SecondTrace, TraceOf, Trace, PostedTrace
<1>3. /\ type = "ticket_request" =>
           AnswersTo(doc) = Append(FirstTrace(doc) \o SecondTrace(doc), ResponseOf(doc))
      /\ type = "ping" => AnswersTo(doc) = <<AckOf(doc)>>
      /\ type \notin {"ticket_request", "ping"} => AnswersTo(doc) = <<>>
  BY DEF AnswersTo
<1> HIDE DEF traced, first, second, type
<1>4. /\ <<first>> \o <<second>> = <<first, second>>
      /\ <<>> \o <<>> = <<>>
      /\ Append(<<first, second>>, ResponseOf(doc)) = <<first, second, ResponseOf(doc)>>
      /\ Append(<<>>, ResponseOf(doc)) = <<ResponseOf(doc)>>
  BY PairSeq, TripleSeq
<1>5. traced => /\ FirstTrace(doc) = <<first>>
                /\ FirstTrace(doc) \o SecondTrace(doc) = <<first, second>>
  BY <1>1, <1>4
<1>6. ~traced => /\ FirstTrace(doc) = <<>>
                 /\ FirstTrace(doc) \o SecondTrace(doc) = <<>>
  BY <1>2, <1>4
<1>7. type = "ticket_request" /\ traced => AnswersTo(doc) = <<first, second, ResponseOf(doc)>>
  BY <1>3, <1>4, <1>5
<1>8. type = "ticket_request" /\ ~traced => AnswersTo(doc) = <<ResponseOf(doc)>>
  BY <1>3, <1>4, <1>6
<1> QED
  BY <1>3, <1>5, <1>6, <1>7, <1>8, Zenon DEF traced, first, second, type

\* The item of an answer to a poll is the document with its numbers printed.
LEMMA BatchIs ==
  ASSUME NEW doc
  PROVE  The(FromJson("messages_response",
                      Obj([type     |-> Str(Plain("messages_response")),
                           messages |-> Arr(<<doc>>)])).messages) = <<Printed(doc)>>
<1> DEFINE r == [type |-> Str(Plain("messages_response")), messages |-> Arr(<<doc>>)]
           items == [i \in DOMAIN <<doc>> |-> Printed(<<doc>>[i])]
<1>1. MembersOf("messages_response") = Joined(PingMembers, [messages |-> "raws"])
  BY DEF MembersOf, MessagesResponseMembers
<1>2. "messages" \in DOMAIN MembersOf("messages_response") /\ MembersOf("messages_response")["messages"] = "raws"
  BY <1>1 DEF Joined, PingMembers
<1>3. Kind(Obj(r)) = "obj" /\ Obj(r)[2] = r
  BY TagFacts
<1>4. Member(Obj(r), "messages") = Arr(<<doc>>)
  BY <1>3 DEF Member
<1> HIDE DEF r
<1>5. FromJson("messages_response", Obj(r))["messages"] = Get("raws", Arr(<<doc>>))
  BY <1>2, <1>4, FromJsonIs
<1>6. Items(Arr(<<doc>>)) = <<doc>>
  BY TagFacts DEF Items
<1>7. Get("raws", Arr(<<doc>>)) = {items}
  BY <1>6, GetIs
<1>8. items = <<Printed(doc)>>
  OBVIOUS
<1> HIDE DEF items
<1>9. The({items}) = items
  BY DEF The
<1> QED
  BY <1>5, <1>7, <1>8, <1>9 DEF r

-----------------------------------------------------------------------------
\* ---- the theorems -------------------------------------------------------------

LEMMA PathStarts ==
  PathInit => PathInv
<1> SUFFICES ASSUME PathInit PROVE PathInv
  OBVIOUS
<1>1. tag \in Tags /\ IsDocument(origin)
  BY PathAssumption DEF PathInit
<1> QED
  BY <1>1 DEF PathInit, PathInv

LEMMA PathStep ==
  PathInv /\ [PathNext]_pathVars => PathInv'
<1> SUFFICES ASSUME PathInv, [PathNext]_pathVars PROVE PathInv'
  OBVIOUS
<1> USE DEF PathInv
<1>1. CASE Relay
  <2>1. wire' = Rewritten(tag, wire)
    BY <1>1 DEF Relay, Rewritten
  <2>2. wire' = Rewritten(tag, origin)
    <3>1. CASE hops = 0
      BY <2>1, <3>1
    <3>2. CASE hops # 0
      BY <2>1, <3>2, RewrittenStable
    <3> QED
      BY <3>1, <3>2
  <2>3. /\ UNCHANGED <<at, tag, origin, inbox, ticket, sent>>
        /\ at = "wire" /\ hops' = hops + 1
    BY <1>1 DEF Relay
  <2> QED
    BY <2>2, <2>3
<1>2. CASE AnswerPoll
  <2>1. inbox' = <<Printed(wire)>> /\ wire = origin
    BY <1>2, BatchIs DEF AnswerPoll
  <2>2. /\ UNCHANGED <<tag, origin, wire, ticket, sent, hops>>
        /\ at = "wire" /\ hops = 0 /\ at' = "batch"
    BY <1>2 DEF AnswerPoll
  <2> QED
    BY <2>1, <2>2
<1>3. ASSUME at = "batch"
      PROVE  /\ Head(inbox) = Printed(origin) /\ sent = <<>>
             /\ NetworkMessageType(Head(inbox)) = NetworkMessageType(origin)
  <2>1. Head(inbox) = Printed(origin)
    BY <1>3
  <2>2. Shallow(origin)
    BY DocumentReadable, ReadableIs
  <2> QED
    BY <1>3, <2>1, <2>2, PrintedDocument DEF NetworkMessageType
<1>4. CASE TakeTicket
  <2>1. at = "batch" /\ at' = "ticket" /\ UNCHANGED <<tag, origin, wire, hops>>
    BY <1>4 DEF TakeTicket
  <2>2. NetworkMessageType(origin) = "ticket_request"
    BY <1>3, <1>4, <2>1 DEF TakeTicket
  <2>3. /\ ticket' = {RequestOf(origin)}
        /\ sent' = <<>> \o FirstTrace(origin)
    BY <1>3, <1>4, <2>1 DEF TakeTicket, RequestOf, FirstTrace
  <2>4. <<>> \o FirstTrace(origin) = FirstTrace(origin)
    BY AnswersAre, PairSeq, EmptyBefore
  <2> QED
    BY <2>1, <2>2, <2>3, <2>4
<1>5. CASE TakePing
  <2>1. at = "batch" /\ at' = "done" /\ UNCHANGED <<tag, origin, wire, hops>>
    BY <1>5 DEF TakePing
  <2>2. NetworkMessageType(origin) = "ping"
    BY <1>3, <1>5, <2>1 DEF TakePing
  <2>3. sent' = Append(<<>>, AckOf(origin))
    BY <1>3, <1>5, <2>1 DEF TakePing, AckOf
  <2>4. sent' = AnswersTo(origin)
    BY <2>2, <2>3, AnswersAre, PairSeq
  <2> QED
    BY <2>1, <2>4
<1>6. CASE Ignore
  <2>1. at = "batch" /\ at' = "done" /\ UNCHANGED <<tag, origin, wire, hops, sent>>
    BY <1>6 DEF Ignore
  <2>2. NetworkMessageType(origin) \notin {"ticket_request", "ping"}
    BY <1>3, <1>6, <2>1 DEF Ignore
  <2>3. sent' = AnswersTo(origin)
    BY <1>3, <2>1, <2>2, AnswersAre
  <2> QED
    BY <2>1, <2>3
<1>7. CASE ProcessForm
  <2>1. at = "ticket" /\ at' = "worked" /\ UNCHANGED <<tag, origin, wire, inbox, hops>>
    BY <1>7 DEF ProcessForm
  <2>2. ticket = {RequestOf(origin)} /\ sent = FirstTrace(origin)
    BY <2>1
  <2>3. /\ ticket' = {WorkedOf(origin)}
        /\ sent' = FirstTrace(origin) \o SecondTrace(origin)
    BY <1>7, <2>2 DEF ProcessForm, WorkedOf, SecondTrace
  <2> QED
    BY <2>1, <2>3
<1>8. CASE Respond
  <2>1. at = "worked" /\ at' = "done" /\ UNCHANGED <<tag, origin, wire, inbox, hops>>
    BY <1>8 DEF Respond
  <2>2. ticket = {WorkedOf(origin)} /\ sent = FirstTrace(origin) \o SecondTrace(origin)
    BY <2>1
  <2>3. sent' = Append(FirstTrace(origin) \o SecondTrace(origin), ResponseOf(origin))
    BY <1>8, <2>2 DEF Respond, ResponseOf
  <2>4. sent' = AnswersTo(origin)
    BY <2>1, <2>3 DEF AnswersTo
  <2> QED
    BY <2>1, <2>4
<1>9. CASE UNCHANGED pathVars
  BY <1>9 DEF pathVars
<1> QED
  BY <1>1, <1>2, <1>4, <1>5, <1>6, <1>7, <1>8, <1>9 DEF PathNext

THEOREM PathInvHolds == PathSpec => []PathInv
  BY PathStarts, PathStep, PTL DEF PathSpec

\* What was posted, and of which type it is.
LEMMA SentIs ==
  ASSUME PathInv, NEW i \in DOMAIN sent
  PROVE  \/ /\ NetworkMessageType(origin) = "ticket_request"
            /\ \E type \in {"ticket_request", "ticket_response"} : sent[i] = Trace(origin, type)
         \/ NetworkMessageType(origin) = "ticket_request" /\ sent[i] = ResponseOf(origin)
         \/ NetworkMessageType(origin) = "ping" /\ sent[i] = AckOf(origin)
<1> DEFINE traced == RequestOf(origin).tracing = {TRUE}
           first == Trace(origin, "ticket_request")
           second == Trace(origin, "ticket_response")
           reply == ResponseOf(origin)
           ack == AckOf(origin)
           type == NetworkMessageType(origin)
<1>1. /\ traced => /\ FirstTrace(origin) = <<first>>
                   /\ FirstTrace(origin) \o SecondTrace(origin) = <<first, second>>
      /\ ~traced => /\ FirstTrace(origin) = <<>>
                    /\ FirstTrace(origin) \o SecondTrace(origin) = <<>>
      /\ type = "ticket_request" /\ traced => AnswersTo(origin) = <<first, second, reply>>
      /\ type = "ticket_request" /\ ~traced => AnswersTo(origin) = <<reply>>
      /\ type = "ping" => AnswersTo(origin) = <<ack>>
      /\ type \notin {"ticket_request", "ping"} => AnswersTo(origin) = <<>>
  BY AnswersAre, Zenon
<1>2. \/ sent = <<>>
      \/ /\ type = "ticket_request"
         /\ sent = FirstTrace(origin) \/ sent = FirstTrace(origin) \o SecondTrace(origin)
      \/ sent = AnswersTo(origin)
  BY DEF PathInv
<1>3. sent # <<>>
  OBVIOUS
<1> HIDE DEF traced, first, second, reply, ack, type
<1>4. \/ type = "ticket_request" /\ sent \in {<<first>>, <<first, second>>, <<first, second, reply>>, <<reply>>}
      \/ type = "ping" /\ sent = <<ack>>
  BY <1>1, <1>2, <1>3
<1>5. \/ type = "ticket_request" /\ sent[i] \in {first, second, reply}
      \/ type = "ping" /\ sent[i] = ack
  BY <1>4
<1> QED
  BY <1>5 DEF first, second, reply, ack, type

LEMMA TraceFacts ==
  ASSUME NEW doc, IsDocument(doc), NEW type
  PROVE  \E x, y :
           /\ RequestOf(doc).tckuuid = {x} /\ RequestOf(doc).src = {y}
           /\ Kind(Member(doc, "src")) = "str" => Member(doc, "src") = Str(y)
           /\ Conforms("ticket_trace_response", Trace(doc, type))
           /\ NetworkMessageType(Trace(doc, type)) = "ticket_trace_response"
           /\ Member(Trace(doc, type), "isrc") = Str(Agent)
           /\ Member(Trace(doc, type), "dest") = Str(y)
           /\ Member(Trace(doc, type), "tckuuid") = Str(x)
           /\ Member(Trace(doc, type), "network_ticket_type") = Str(Plain(type))
<1>1. PICK x, y : /\ RequestOf(doc).tckuuid = {x} /\ RequestOf(doc).src = {y}
                  /\ Kind(Member(doc, "src")) = "str" => Member(doc, "src") = Str(y)
  BY RequestIs
<1>2. ASSUME NEW t, t["tckuuid"] = {x}, t["src"] = {y}
      PROVE  /\ Conforms("ticket_trace_response", PostedTrace(t, type))
             /\ NetworkMessageType(PostedTrace(t, type)) = "ticket_trace_response"
             /\ Member(PostedTrace(t, type), "isrc") = Str(Agent)
             /\ Member(PostedTrace(t, type), "dest") = Str(y)
             /\ Member(PostedTrace(t, type), "tckuuid") = Str(x)
             /\ Member(PostedTrace(t, type), "network_ticket_type") = Str(Plain(type))
  BY <1>2, TraceIs
<1> QED
  BY <1>1, <1>2 DEF Trace

LEMMA AckFacts ==
  ASSUME NEW doc, IsDocument(doc)
  PROVE  /\ Conforms("acknowledgement", AckOf(doc))
         /\ NetworkMessageType(AckOf(doc)) = "acknowledgement"
         /\ Member(AckOf(doc), "isrc") = Str(Agent)
         /\ Kind(Member(doc, "src")) = "str" => Member(AckOf(doc), "dest") = Member(doc, "src")
<1>0. "ping" \in NetworkTags
  BY DEF NetworkTags
<1>1. PICK y : /\ FromJson("ping", Printed(doc))["src"] = {y}
               /\ Kind(Member(doc, "src")) = "str" => Member(doc, "src") = Str(y)
  BY <1>0, SenderIs
<1> QED
  BY <1>1, AckIs

\* There is one reply, the one to the ticket that came.
LEMMA RepliesAre ==
  ASSUME PathInv, NEW reply \in Sent("ticket_response")
  PROVE  reply = ResponseOf(origin) /\ NetworkMessageType(origin) = "ticket_request"
<1>1. PICK i \in DOMAIN sent : reply = sent[i] /\ NetworkMessageType(sent[i]) = "ticket_response"
  BY DEF Sent
<1>2. IsDocument(origin)
  BY DEF PathInv
<1>3. \A type : NetworkMessageType(Trace(origin, type)) # "ticket_response"
  BY <1>2, TraceFacts
<1>4. NetworkMessageType(AckOf(origin)) # "ticket_response"
  BY <1>2, AckFacts
<1> QED
  BY <1>1, <1>3, <1>4, SentIs

LEMMA InvWritten ==
  PathInv => WrittenConforms
<1> SUFFICES ASSUME PathInv PROVE WrittenConforms
  OBVIOUS
<1>1. IsDocument(origin) /\ tag \in Tags /\ (hops > 0 => wire = Rewritten(tag, origin))
  BY DEF PathInv
<1>2. hops > 0 => Conforms(tag, wire)
  BY <1>1, RewrittenConforms
<1>3. ASSUME NEW i \in DOMAIN sent
      PROVE  /\ \E t \in Completed : Conforms(t, sent[i])
             /\ Member(sent[i], "isrc") = Str(Agent)
  <2>1. \A type : /\ Conforms("ticket_trace_response", Trace(origin, type))
                  /\ Member(Trace(origin, type), "isrc") = Str(Agent)
    BY <1>1, TraceFacts
  <2>2. Conforms("acknowledgement", AckOf(origin)) /\ Member(AckOf(origin), "isrc") = Str(Agent)
    BY <1>1, AckFacts
  <2>3. Conforms("ticket_response", ResponseOf(origin)) /\ Member(ResponseOf(origin), "isrc") = Str(Agent)
    BY <1>1, ResponseIs
  <2> QED
    BY <1>3, <2>1, <2>2, <2>3, SentIs DEF Completed
<1>4. ASSUME NEW reply \in Sent("ticket_response"),
             ControlFormType(Member(reply, "form")) \in ControlTags
      PROVE  Conforms(ControlFormType(Member(reply, "form")), Member(reply, "form"))
  <2> DEFINE asked == Member(origin, "form")
             answered == Member(reply, "form")
  <2>1. reply = ResponseOf(origin)
    BY <1>4, RepliesAre
  <2>2. /\ asked = Null => answered = Null
        /\ asked # Null => answered = ProcessControlForm(Printed(asked))
    BY <1>1, <2>1, ResponseIs
  <2>3. Readable(asked)
    BY <1>1, ReadableMembers
  <2>4. /\ ControlFormType(ProcessControlForm(Printed(asked))) = ControlFormType(asked)
        /\ ControlFormType(asked) \in ControlTags =>
             Conforms(ControlFormType(asked), ProcessControlForm(Printed(asked)))
    BY <2>3, FormIs
  <2>5. ControlFormType(Null) \notin ControlTags
    BY NullUnknown
  <2> QED
    BY <1>4, <2>2, <2>4, <2>5
<1> QED
  BY <1>2, <1>3, <1>4 DEF WrittenConforms

\* Whatever arrived, what this code writes has every member of its model with
\* its type, names the agent and keeps its tag (models/network.hpp:5).
THEOREM WrittenAsModelled == PathSpec => []WrittenConforms
  BY PathInvHolds, InvWritten, PTL

LEMMA InvKeeps ==
  PathInv => RelayKeeps
<1> SUFFICES ASSUME PathInv, hops > 0, NEW m \in DOMAIN MembersOf(tag),
                    Fits(MembersOf(tag)[m], Member(origin, m))
             PROVE  Member(wire, m) = Kept(MembersOf(tag)[m], Member(origin, m))
  BY DEF RelayKeeps
<1>1. IsDocument(origin) /\ tag \in Tags /\ wire = Rewritten(tag, origin)
  BY DEF PathInv
<1> QED
  BY <1>1, RewrittenKeeps

\* No member that arrives with its type is lost or changed between from_json
\* and to_json, whatever is beside it.
THEOREM MembersKept == PathSpec => []RelayKeeps
  BY PathInvHolds, InvKeeps, PTL

LEMMA StepStable ==
  PathInv /\ [PathNext]_pathVars => [Relay /\ hops > 0 => wire' = wire]_pathVars
<1> SUFFICES ASSUME PathInv, Relay, hops > 0 PROVE wire' = wire
  OBVIOUS
<1>1. IsDocument(origin) /\ tag \in Tags /\ wire = Rewritten(tag, origin)
  BY DEF PathInv
<1>2. wire' = Rewritten(tag, wire)
  BY DEF Relay, Rewritten
<1> QED
  BY <1>1, <1>2, RewrittenStable

\* What one agent wrote, the next one writes the same.
THEOREM RelaySettles == PathSpec => RelayStable
  BY PathInvHolds, StepStable, PTL DEF PathSpec, RelayStable

LEMMA InvReply ==
  PathInv => ReplyKeepsRequest
<1> SUFFICES ASSUME PathInv, NEW reply \in Sent("ticket_response")
             PROVE  LET asked    == Member(origin, "form")
                        answered == Member(reply, "form")
                    IN  /\ KeptMembers("ticket_request", origin, reply)
                        /\ ControlFormType(answered) = ControlFormType(asked)
                        /\ ControlFormType(asked) \in ControlTags =>
                             KeptMembers(ControlFormType(asked), asked, answered)
                        /\ ControlFormType(asked) = "unknown" => answered = Kept("raw", asked)
  BY DEF ReplyKeepsRequest
<1> DEFINE asked    == Member(origin, "form")
           answered == Member(reply, "form")
<1>1. IsDocument(origin) /\ reply = ResponseOf(origin)
  BY RepliesAre DEF PathInv
<1>2. /\ KeptMembers("ticket_request", origin, reply)
      /\ asked = Null => answered = Null
      /\ asked # Null => answered = ProcessControlForm(Printed(asked))
  BY <1>1, ResponseIs
<1>3. Readable(asked) /\ Shallow(asked)
  BY <1>1, ReadableMembers, ReadableIs
<1>4. /\ ControlFormType(ProcessControlForm(Printed(asked))) = ControlFormType(asked)
      /\ ControlFormType(asked) \in ControlTags =>
           KeptMembers(ControlFormType(asked), asked, ProcessControlForm(Printed(asked)))
      /\ ControlFormType(asked) \notin ControlTags => ProcessControlForm(Printed(asked)) = Printed(asked)
  BY <1>3, FormIs
<1>5. Kept("raw", asked) = Printed(asked)
  BY DEF Kept
<1>6. "unknown" \notin ControlTags
  BY DEF ControlTags
<1> HIDE DEF answered
<1>7. CASE asked = Null
  <2>1. Printed(Null) = Null
    BY TagFacts DEF Printed, PrintedNumber
  <2> QED
    BY <1>2, <1>5, <1>7, <2>1, NullUnknown DEF answered
<1>8. CASE asked # Null
  BY <1>2, <1>4, <1>5, <1>6, <1>8 DEF answered
<1> QED
  BY <1>7, <1>8

\* The reply to a ticket is that ticket: what the agent has no business with
\* comes back as it came, in the ticket and in its form.
THEOREM ReplyIsTheTicket == PathSpec => []ReplyKeepsRequest
  BY PathInvHolds, InvReply, PTL

\* The traces of a ticket that asked for them, and nothing else that is one.
LEMMA TracedSent ==
  ASSUME PathInv, at = "done", NetworkMessageType(origin) = "ticket_request"
  PROVE  /\ ResponseOf(origin) \in Sent("ticket_response")
         /\ RequestOf(origin).tracing = {TRUE} =>
              /\ DOMAIN sent = {1, 2, 3}
              /\ sent[1] = Trace(origin, "ticket_request")
              /\ sent[2] = Trace(origin, "ticket_response")
              /\ sent[3] = ResponseOf(origin)
<1> DEFINE traced == RequestOf(origin).tracing = {TRUE}
           first == Trace(origin, "ticket_request")
           second == Trace(origin, "ticket_response")
           reply == ResponseOf(origin)
<1>1. sent = AnswersTo(origin) /\ IsDocument(origin)
  BY DEF PathInv
<1>2. /\ traced => sent = <<first, second, reply>>
      /\ ~traced => sent = <<reply>>
  BY <1>1, AnswersAre, Zenon
<1>3. NetworkMessageType(reply) = "ticket_response"
  BY <1>1, ResponseIs
<1> HIDE DEF traced, first, second, reply
<1>4. traced => DOMAIN sent = {1, 2, 3} /\ sent[1] = first /\ sent[2] = second /\ sent[3] = reply
  BY <1>2
<1>5. ~traced => 1 \in DOMAIN sent /\ sent[1] = reply
  BY <1>2
<1>6. \E i \in DOMAIN sent : sent[i] = reply
  BY <1>4, <1>5
<1>7. reply \in Sent("ticket_response")
  BY <1>3, <1>6 DEF Sent
<1> QED
  BY <1>4, <1>7, Zenon DEF traced, first, second, reply

LEMMA InvAddressed ==
  PathInv => Addressed
<1> DEFINE type == NetworkMessageType(origin)
           src == Member(origin, "src")
           traces == {i \in DOMAIN sent : NetworkMessageType(sent[i]) = "ticket_trace_response"}
<1> SUFFICES ASSUME PathInv, at = "done", Kind(src) = "str"
             PROVE  /\ \A i \in DOMAIN sent : Member(sent[i], "dest") = src
                    /\ type = "ticket_request" => Sent("ticket_response") # {}
                    /\ type = "ping" => Sent("acknowledgement") # {}
                    /\ type = "ticket_request" /\ Member(origin, "tracing") = Bool(TRUE) =>
                         /\ {Member(sent[i], "network_ticket_type") : i \in traces} =
                              {Str(Plain("ticket_request")), Str(Plain("ticket_response"))}
                         /\ \A i \in traces, reply \in Sent("ticket_response") :
                              Member(sent[i], "tckuuid") = Member(reply, "tckuuid")
  BY Zenon DEF Addressed
<1>1. IsDocument(origin) /\ sent = AnswersTo(origin)
  BY DEF PathInv
<1>2. PICK x, y : /\ RequestOf(origin)["tckuuid"] = {x} /\ RequestOf(origin)["src"] = {y} /\ src = Str(y)
  BY <1>1, RequestIs
<1>3. \A kind : /\ Member(Trace(origin, kind), "dest") = Str(y)
                /\ Member(Trace(origin, kind), "tckuuid") = Str(x)
                /\ Member(Trace(origin, kind), "network_ticket_type") = Str(Plain(kind))
                /\ NetworkMessageType(Trace(origin, kind)) = "ticket_trace_response"
  BY <1>2, TraceIs DEF Trace
<1>4. /\ Member(ResponseOf(origin), "dest") = Str(y) /\ Member(ResponseOf(origin), "tckuuid") = Str(x)
      /\ NetworkMessageType(ResponseOf(origin)) = "ticket_response"
  BY <1>1, <1>2, ResponseIs
<1>5. Member(AckOf(origin), "dest") = src /\ NetworkMessageType(AckOf(origin)) = "acknowledgement"
  BY <1>1, AckFacts
<1>6. \A i \in DOMAIN sent : Member(sent[i], "dest") = src
  BY <1>2, <1>3, <1>4, <1>5, SentIs
<1>7. type = "ticket_request" => Sent("ticket_response") # {}
  BY TracedSent
<1>8. type = "ping" => Sent("acknowledgement") # {}
  <2>1. ASSUME type = "ping" PROVE sent = <<AckOf(origin)>>
    BY <1>1, <2>1, AnswersAre
  <2>2. ASSUME type = "ping" PROVE 1 \in DOMAIN sent /\ sent[1] = AckOf(origin)
    BY <2>1, <2>2
  <2> QED
    BY <1>5, <2>2 DEF Sent
<1>9. ASSUME type = "ticket_request", Member(origin, "tracing") = Bool(TRUE)
      PROVE  /\ {Member(sent[i], "network_ticket_type") : i \in traces} =
                  {Str(Plain("ticket_request")), Str(Plain("ticket_response"))}
             /\ \A i \in traces, reply \in Sent("ticket_response") :
                  Member(sent[i], "tckuuid") = Member(reply, "tckuuid")
  <2>1. RequestOf(origin).tracing = {TRUE}
    BY <1>1, <1>9, RequestIs, Zenon
  <2>2. /\ DOMAIN sent = {1, 2, 3}
        /\ sent[1] = Trace(origin, "ticket_request")
        /\ sent[2] = Trace(origin, "ticket_response")
        /\ sent[3] = ResponseOf(origin)
    BY <1>9, <2>1, TracedSent, Zenon
  <2>3. traces = {1, 2}
    BY <1>3, <1>4, <2>2
  <2>4. \A i \in traces : Member(sent[i], "tckuuid") = Str(x)
    BY <1>3, <2>2, <2>3
  <2>5. \A reply \in Sent("ticket_response") : Member(reply, "tckuuid") = Str(x)
    BY <1>4, RepliesAre
  <2>6. {Member(sent[i], "network_ticket_type") : i \in {1, 2}} =
          {Member(sent[1], "network_ticket_type"), Member(sent[2], "network_ticket_type")}
    OBVIOUS
  <2>7. /\ Member(sent[1], "network_ticket_type") = Str(Plain("ticket_request"))
        /\ Member(sent[2], "network_ticket_type") = Str(Plain("ticket_response"))
    BY <1>3, <2>2
  <2> HIDE DEF traces
  <2>8. {Member(sent[i], "network_ticket_type") : i \in traces} =
          {Str(Plain("ticket_request")), Str(Plain("ticket_response"))}
    BY <2>3, <2>6, <2>7
  <2> QED
    BY <2>4, <2>5, <2>8
<1> QED
  BY <1>6, <1>7, <1>8, <1>9, Zenon

\* Every ticket and every ping whose sender can be read is answered to that
\* sender, and with tracing two traces name the same ticket.
THEOREM AnsweredToSender == PathSpec => []Addressed
  BY PathInvHolds, InvAddressed, PTL
=============================================================================
