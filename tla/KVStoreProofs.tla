--------------------------- MODULE KVStoreProofs ---------------------------
(***************************************************************************)
(* Lemmas about the operators of KVStore, for the proofs about the modules *)
(* that compose it: what a put, a begin and a read do to a namespace in    *)
(* which every key holds at most one item.                                 *)
(***************************************************************************)
EXTENDS KVStore, FiniteSetTheorems, TLAPS

\* What a key can hold: nothing or one item; a string has no NUL in it.
IsCell(c) ==
  /\ c \in SUBSET Items
  /\ \A i, j \in c : i = j
  /\ \A i \in c : i.type = "str" => i.value.pad = 0

Stored(store) == store \in [Names -> SUBSET Items] /\ \A k \in Names : IsCell(store[k])

HandleStates == [started : BOOLEAN, readOnly : BOOLEAN]

\* The flash driver runs while an object is open.
Opened ==
  /\ handle \in [Handles -> HandleStates]
  /\ flashUp \in BOOLEAN
  /\ \A o \in Handles : Started(o) => flashUp

KVInv == Stored(nvs) /\ Opened

\* A cell holds no more than one item, as KVTypeOK counts it.
LEMMA CellIsSmall ==
  ASSUME NEW c, IsCell(c)
  PROVE  Cardinality(c) <= 1
<1>1. CASE c = {}
  BY <1>1, FS_EmptySet
<1>2. CASE c # {}
  <2>1. PICK i \in c : c = {i}
    BY <1>2 DEF IsCell
  <2> QED
    BY <2>1, FS_Singleton
<1> QED
  BY <1>1, <1>2

\* The strengthened invariant says what KVTypeOK says.
LEMMA KVInvType == KVInv => KVTypeOK
  BY CellIsSmall DEF KVInv, KVTypeOK, Stored, Opened, HandleStates

\* The item NVS finds under a key is the only one there.
LEMMA TheItem ==
  ASSUME Stored(nvs), NEW k \in Names, NEW i \in nvs[k]
  PROVE  /\ i \in Items /\ nvs[k] = {i} /\ ValueOf(k) = i.value
         /\ \A t : Has(k, t) <=> i.type = t
<1>1. i \in Items /\ nvs[k] = {i}
  BY DEF Stored, IsCell
<1> QED
  BY <1>1 DEF ValueOf, Has

\* The length of a string is a number: it is made of finitely many texts.
LEMMA LengthIsNat ==
  ASSUME NEW v \in Bytes
  PROVE  StrLen(v) \in Nat
<1>1. IsFiniteSet(v.tail)
  BY KVAssumption, FS_Subset DEF Bytes
<1> QED
  BY <1>1, FS_CardinalityType DEF StrLen, Bytes

\* A namespace without items.
LEMMA EmptyStored == Stored(Empty)
  BY DEF Stored, Empty, IsCell

\* A put of a value that fits its type leaves one item under the key.
LEMMA PutStored ==
  ASSUME Stored(nvs), NEW o, NEW k \in Names, NEW t \in ItemTypes, NEW v \in Bytes,
         t = "str" => v.pad = 0, NEW ok \in BOOLEAN
  PROVE  Stored(AfterPut(o, k, t, v, ok))
<1>1. [type |-> t, value |-> v] \in Items
  BY DEF Items
<1>2. IsCell({[type |-> t, value |-> v]})
  BY <1>1 DEF IsCell
<1>3. CASE Accepts(o, ok)
  <2>1. AfterPut(o, k, t, v, ok) = [nvs EXCEPT ![k] = {[type |-> t, value |-> v]}]
    BY <1>3 DEF AfterPut
  <2> QED
    BY <2>1, <1>1, <1>2 DEF Stored
<1>4. CASE ~Accepts(o, ok)
  BY <1>4 DEF AfterPut
<1> QED
  BY <1>3, <1>4

\* A begin concerns one object only, erases the namespace only while no object
\* is open, and leaves the driver running when it opens the object.
LEMMA BeginKeeps ==
  ASSUME KVInv, NEW o \in Handles, NEW ro \in BOOLEAN, NEW h \in [Handles -> HandleStates],
         NEW store, NEW up \in BOOLEAN, BeginOutcome(o, ro, h, store, up)
  PROVE  /\ Stored(store)
         /\ store = nvs \/ (store = Empty /\ \A p \in Handles : ~Started(p))
         /\ \A p \in Handles : h[p].started => up
         /\ \A p \in Handles : p # o => h[p] = handle[p]
         /\ flashUp => up
         /\ Started(o) => h = handle
<1>1. CASE Started(o)
  BY <1>1 DEF BeginOutcome, KVInv, Opened, Started
<1>2. CASE ~Started(o)
  <2>1. store = nvs \/ (store = Empty /\ ~flashUp)
    BY <1>2 DEF BeginOutcome
  <2>2. Stored(store)
    BY <2>1, EmptyStored DEF KVInv
  <2>3. \/ up = flashUp /\ ~up /\ h = [handle EXCEPT ![o] = [Closed EXCEPT !.readOnly = ro]]
        \/ up = TRUE /\ \E opened \in BOOLEAN :
               h = [handle EXCEPT ![o] = [started |-> opened, readOnly |-> ro]]
    BY <1>2 DEF BeginOutcome
  <2>4. \A p \in Handles : p # o => h[p] = handle[p]
    BY <2>3 DEF KVInv, Opened
  <2>5. \A p \in Handles : h[p].started => up
    <3>1. CASE up = TRUE
      BY <3>1
    <3>2. CASE up # TRUE
      <4>1. ~flashUp /\ h = [handle EXCEPT ![o] = [Closed EXCEPT !.readOnly = ro]]
        BY <2>3, <3>2
      <4>2. ~h[o].started
        BY <4>1 DEF KVInv, Opened, Closed
      <4> QED
        BY <4>1, <4>2, <2>4 DEF KVInv, Opened, Started
    <3> QED
      BY <3>1, <3>2
  <2> QED
    BY <1>2, <2>1, <2>2, <2>3, <2>4, <2>5 DEF KVInv, Opened
<1> QED
  BY <1>1, <1>2
=============================================================================
