-------------------------- MODULE KVClientsProofs --------------------------
(***************************************************************************)
(* Proofs about KVClients: what the calls return and leave behind, for any *)
(* number of objects, keys and values.                                     *)
(***************************************************************************)
EXTENDS KVClients, KVStoreProofs

\* A getString between its two calls: the string it measured was there, and
\* what its key holds now is among what it saw.
Reading(r, store) ==
  /\ r \in Readings /\ r.default \in Defaults
  /\ \A cell \in r.seen : IsCell(cell)
  /\ store[r.key] \in r.seen
  /\ \E cell \in r.seen : \E i \in cell : i.type = "str" /\ r.len = StrLen(i.value)

Readers ==
  /\ reading \in [Handles -> SUBSET Readings]
  /\ \A o \in Handles : \A r \in reading[o] : Reading(r, nvs) /\ Started(o)

Answered == result \in Results /\ StringReadBack

ClientsInv == KVInv /\ Readers /\ Answered

NewResult(o, op, k, ok, v, seen) ==
  [by |-> {o}, op |-> op, key |-> k, ok |-> ok, value |-> v, seen |-> seen]

-----------------------------------------------------------------------------

\* The values that a call can find or be given are values.
LEMMA GivenValues ==
  /\ \A d \in Defaults : d \in Bytes /\ d.pad = 0
  /\ \A t \in DOMAIN Values : t \in ItemTypes
       /\ \A v \in Values[t] : v \in Bytes /\ (t = "str" => v.pad = 0)
  BY ClientsAssumption

\* A value that is there is one.
LEMMA FoundValue ==
  ASSUME Stored(nvs), NEW k \in Names, nvs[k] # {}
  PROVE  ValueOf(k) \in Bytes
<1>1. PICK i \in nvs[k] : TRUE
  OBVIOUS
<1> QED
  BY <1>1, TheItem DEF Items

\* A call of another kind returns no string.
LEMMA OtherCall ==
  ASSUME result'.op # "getString"
  PROVE  StringReadBack'
  BY DEF StringReadBack

\* Readings stay as they are while handle and namespace do.
LEMMA SameReaders ==
  ASSUME Readers, UNCHANGED <<nvs, handle, reading>>
  PROVE  Readers'
  BY DEF Readers, Reading, Started

\* What Note does: a getString under way sees what a write leaves it.
LEMMA Noted ==
  ASSUME Readers, Note(nvs'), Stored(nvs'), \A o \in Handles : reading[o] # {} => Started(o)'
  PROVE  Readers'
<1> DEFINE More(r) == [r EXCEPT !.seen = @ \cup {nvs'[r.key]}]
<1>1. \A o \in Handles : reading'[o] = {More(r) : r \in reading[o]}
  BY DEF Note
<1>2. ASSUME NEW o \in Handles, NEW r \in reading[o]
      PROVE  More(r) \in Readings /\ Reading(More(r), nvs')
  <2>1. r \in Readings /\ Reading(r, nvs)
    BY DEF Readers
  <2>2. nvs'[r.key] \in SUBSET Items /\ IsCell(nvs'[r.key])
    BY <2>1 DEF Readings, Stored
  <2>3. /\ More(r) \in Readings
        /\ More(r).key = r.key /\ More(r).len = r.len /\ More(r).default = r.default
        /\ More(r).seen = r.seen \cup {nvs'[r.key]}
    BY <2>1, <2>2 DEF Readings
  <2> HIDE DEF More
  <2>4. \A cell \in More(r).seen : IsCell(cell)
    BY <2>1, <2>2, <2>3 DEF Reading
  <2>5. \E cell \in More(r).seen : \E i \in cell :
           i.type = "str" /\ More(r).len = StrLen(i.value)
    BY <2>1, <2>3 DEF Reading
  <2> QED
    BY <2>1, <2>3, <2>4, <2>5 DEF Reading
<1> HIDE DEF More
<1>3. reading' \in [Handles -> SUBSET Readings]
  <2>1. reading' = [o \in Handles |-> reading'[o]]
    BY DEF Note
  <2>2. \A o \in Handles : reading'[o] \in SUBSET Readings
    BY <1>1, <1>2
  <2> QED
    BY <2>1, <2>2
<1>4. ASSUME NEW o \in Handles, NEW s \in reading'[o]
      PROVE  Reading(s, nvs') /\ Started(o)'
  <2>1. PICK r \in reading[o] : s = More(r)
    BY <1>1
  <2> QED
    BY <2>1, <1>2
<1> QED
  BY <1>3, <1>4 DEF Readers

\* A call that writes, from an object that no getString of its own holds up.
LEMMA WriteKeeps ==
  ASSUME ClientsInv, Stored(nvs'), Note(nvs'), UNCHANGED <<handle, flashUp>>,
         result' \in Results, result'.op # "getString"
  PROVE  ClientsInv'
<1>1. KVInv'
  BY DEF ClientsInv, KVInv, Opened, Started
<1>2. \A o \in Handles : reading[o] # {} => Started(o)'
  BY DEF ClientsInv, Readers, Started
<1>3. Readers'
  BY <1>2, Noted DEF ClientsInv
<1> QED
  BY <1>1, <1>3, OtherCall DEF ClientsInv, Answered

\* A call that only reads and returns something other than a string.
LEMMA ReadKeeps ==
  ASSUME ClientsInv, UNCHANGED <<kvVars, reading>>,
         result' \in Results, result'.op # "getString"
  PROVE  ClientsInv'
<1>1. KVInv'
  BY DEF ClientsInv, KVInv, Opened, Started, kvVars, Stored
<1>2. Readers'
  BY SameReaders DEF ClientsInv, kvVars
<1> QED
  BY <1>1, <1>2, OtherCall DEF ClientsInv, Answered
-----------------------------------------------------------------------------

LEMMA InitInv == KVInit => ClientsInv
<1> SUFFICES ASSUME KVInit PROVE ClientsInv
  OBVIOUS
<1>1. KVInv
  <2>1. Stored(nvs)
    BY EmptyStored DEF KVInit
  <2> QED
    BY <2>1 DEF KVInit, KVInv, Opened, Started, Closed, HandleStates
<1>2. Readers
  BY DEF KVInit, Readers
<1>3. Answered
  BY DEF KVInit, Answered, StringReadBack, NoResult, Results, Calls
<1> QED
  BY <1>1, <1>2, <1>3 DEF ClientsInv

LEMMA BeginInv ==
  ASSUME ClientsInv, NEW o \in Handles, NEW ro \in BOOLEAN, Begin(o, ro)
  PROVE  ClientsInv'
<1>1. /\ handle' \in [Handles -> HandleStates] /\ flashUp' \in BOOLEAN
      /\ BeginOutcome(o, ro, handle', nvs', flashUp')
  BY DEF Begin, HandleStates
<1>2. /\ Stored(nvs')
      /\ \A p \in Handles : handle'[p].started => flashUp'
      /\ \A p \in Handles : p # o => handle'[p] = handle[p]
  BY <1>1, BeginKeeps DEF ClientsInv
<1>3. KVInv'
  BY <1>1, <1>2 DEF KVInv, Opened, Started
<1>4. \A p \in Handles : reading[p] # {} => Started(p)'
  BY <1>2 DEF Begin, Free, ClientsInv, Readers, Started
<1>5. Readers'
  BY <1>2, <1>4, Noted DEF Begin, ClientsInv
<1>6. result' \in Results /\ result'.op # "getString"
  <2>1. (~Started(o) /\ handle'[o].started) \in BOOLEAN
    OBVIOUS
  <2>2. result' = [NoResult EXCEPT !.by = {o}, !.op = "begin",
                                   !.ok = ~Started(o) /\ handle'[o].started]
    BY DEF Begin
  <2> QED
    BY <2>1, <2>2 DEF NoResult, Results, Calls
<1> QED
  BY <1>3, <1>5, <1>6, OtherCall DEF ClientsInv, Answered

LEMMA EndInv ==
  ASSUME ClientsInv, NEW o \in Handles, End(o)
  PROVE  ClientsInv'
<1>1. /\ handle' \in [Handles -> HandleStates]
      /\ \A p \in Handles : handle'[p].started => handle[p].started
      /\ \A p \in Handles : p # o => handle'[p] = handle[p]
      /\ UNCHANGED <<nvs, flashUp, reading, result>>
  BY DEF End, AfterEnd, ClientsInv, KVInv, Opened, HandleStates
<1>2. KVInv'
  BY <1>1 DEF ClientsInv, KVInv, Opened, Started, Stored
<1>3. Readers'
  BY <1>1 DEF End, Free, ClientsInv, Readers, Reading, Started
<1>4. Answered'
  <2>1. \A p \in result.by : p \in Handles
    BY DEF ClientsInv, Answered, Results
  <2> QED
    BY <1>1, <2>1 DEF ClientsInv, Answered, StringReadBack, Started
<1> QED
  BY <1>2, <1>3, <1>4 DEF ClientsInv

LEMMA ClearInv ==
  ASSUME ClientsInv, NEW o \in Handles, Clear(o)
  PROVE  ClientsInv'
<1>1. Stored(nvs')
  BY EmptyStored DEF Clear, ClientsInv, KVInv
<1>2. result' \in Results /\ result'.op # "getString"
  <2>1. PICK ok \in BOOLEAN :
          result' = [NoResult EXCEPT !.by = {o}, !.op = "clear", !.ok = Writable(o) /\ ok]
    BY DEF Clear
  <2>2. (Writable(o) /\ ok) \in BOOLEAN
    OBVIOUS
  <2> QED
    BY <2>1, <2>2 DEF NoResult, Results, Calls
<1> QED
  BY <1>1, <1>2, WriteKeeps DEF Clear

LEMMA RemoveInv ==
  ASSUME ClientsInv, NEW o \in Handles, NEW k \in Names, Remove(o, k)
  PROVE  ClientsInv'
<1>1. PICK ok \in BOOLEAN :
        LET done == Writable(o) /\ ok /\ nvs[k] /= {}
        IN  /\ nvs' = IF done THEN [nvs EXCEPT ![k] = {}] ELSE nvs
            /\ Return(o, "remove", k, done, {}, {})
  BY DEF Remove
<1>2. Stored(nvs')
  <2>1. nvs' = [nvs EXCEPT ![k] = {}] \/ nvs' = nvs
    BY <1>1
  <2> QED
    BY <2>1 DEF ClientsInv, KVInv, Stored, IsCell
<1>3. result' \in Results /\ result'.op # "getString"
  BY <1>1 DEF Return, Results, Calls
<1> QED
  BY <1>2, <1>3, WriteKeeps DEF Remove

LEMMA PutInv ==
  ASSUME ClientsInv, NEW o \in Handles, NEW k \in Names, NEW t \in DOMAIN Values,
         NEW v \in Values[t], Put(o, k, t, v)
  PROVE  ClientsInv'
<1>0. v \in Bytes /\ (t = "str" => v.pad = 0) /\ t \in ItemTypes
  BY GivenValues
<1>1. PICK taken \in BOOLEAN :
        /\ nvs' = AfterPut(o, k, t, v, taken)
        /\ Return(o, "put", k, Accepts(o, taken) /\ v.len > 0, {v}, {})
  BY DEF Put
<1>2. Stored(nvs')
  BY <1>0, <1>1, PutStored DEF ClientsInv, KVInv
<1>3. result' \in Results /\ result'.op # "getString"
  BY <1>0, <1>1 DEF Return, Results, Calls
<1> QED
  BY <1>2, <1>3, WriteKeeps DEF Put

LEMMA GetIntInv ==
  ASSUME ClientsInv, NEW o \in Handles, NEW k \in Names, NEW t, NEW d \in Defaults,
         GetInt(o, k, t, d)
  PROVE  ClientsInv'
<1>1. GetScalar(o, k, t, d) \in Bytes
  BY GivenValues, FoundValue DEF GetScalar, Has, ClientsInv, KVInv
<1>2. result' \in Results /\ result'.op # "getString"
  BY <1>1 DEF GetInt, Return, Results, Calls
<1> QED
  BY <1>2, ReadKeeps DEF GetInt

LEMMA GetBytesInv ==
  ASSUME ClientsInv, NEW o \in Handles, NEW k \in Names, NEW max \in Nat, GetBytes(o, k, max)
  PROVE  ClientsInv'
<1>1. GetBytesLen(o, k, max) > 0 => ValueOf(k) \in Bytes
  BY FoundValue DEF GetBytesLen, BlobFits, Has, ClientsInv, KVInv
<1>2. result' \in Results /\ result'.op # "getString"
  BY <1>1 DEF GetBytes, Return, Results, Calls
<1> QED
  BY <1>2, ReadKeeps DEF GetBytes

LEMMA AskInv ==
  ASSUME ClientsInv, NEW o \in Handles, NEW k \in Names, Ask(o, k)
  PROVE  ClientsInv'
<1>1. GetBytesLength(o, k) > 0 => ValueOf(k) \in Bytes
  BY FoundValue DEF GetBytesLength, Has, ClientsInv, KVInv
<1>2. IsKey(o, k) \in BOOLEAN
  BY DEF IsKey, ClientsInv, KVInv, Opened, Started, HandleStates
<1>3. result' \in Results /\ result'.op # "getString"
  BY <1>1, <1>2 DEF Ask, Return, Results, Calls
<1> QED
  BY <1>3, ReadKeeps DEF Ask

\* The first call of getString: a started object that finds no string returns
\* the default, and then the key holds none.
LEMMA GetStringLengthInv ==
  ASSUME ClientsInv, NEW o \in Handles, NEW k \in Names, NEW d \in Defaults,
         GetStringLength(o, k, d)
  PROVE  ClientsInv'
<1>0. /\ UNCHANGED kvVars /\ Free(o) /\ UNCHANGED <<nvs, handle, flashUp>>
      /\ KVInv /\ Stored(nvs) /\ nvs[k] \in SUBSET Items /\ IsCell(nvs[k])
  BY DEF GetStringLength, kvVars, ClientsInv, KVInv, Stored
<1>1. KVInv'
  BY <1>0 DEF KVInv, Opened, Started, Stored
<1>2. CASE FindsString(o, k)
  <2> DEFINE r == [key |-> k, len |-> StrLen(ValueOf(k)), default |-> d, seen |-> {nvs[k]}]
  <2>1. reading' = [reading EXCEPT ![o] = {r}] /\ UNCHANGED result
    BY <1>2 DEF GetStringLength
  <2>2. PICK i \in nvs[k] : i.type = "str"
    BY <1>2 DEF FindsString, Has
  <2>3. ValueOf(k) = i.value /\ i.value \in Bytes
    BY <1>0, TheItem DEF Items
  <2>4. /\ r \in Readings /\ r.default \in Defaults /\ r.seen = {nvs[k]} /\ r.key = k
        /\ r.len = StrLen(i.value)
    BY <2>3, <1>0, GivenValues, LengthIsNat DEF Readings
  <2> HIDE DEF r
  <2>5. Reading(r, nvs')
    BY <1>0, <2>2, <2>4 DEF Reading
  <2>6. Started(o) /\ Started(o)'
    BY <1>0, <1>2 DEF FindsString, Started
  <2>7. Readers'
    <3>1. reading' \in [Handles -> SUBSET Readings]
      BY <2>1, <2>4 DEF ClientsInv, Readers
    <3>2. ASSUME NEW p \in Handles, NEW s \in reading'[p]
          PROVE  Reading(s, nvs') /\ Started(p)'
      <4>1. CASE p = o
        BY <4>1, <2>1, <2>5, <2>6 DEF ClientsInv, Readers
      <4>2. CASE p # o
        BY <4>2, <2>1, <1>0 DEF ClientsInv, Readers, Reading, Started
      <4> QED
        BY <4>1, <4>2
    <3> QED
      BY <3>1, <3>2 DEF Readers
  <2>8. Answered'
    BY <2>1, <1>0 DEF ClientsInv, Answered, StringReadBack, Started
  <2> QED
    BY <1>1, <2>7, <2>8 DEF ClientsInv
<1>3. CASE ~FindsString(o, k)
  <2>1. result' = NewResult(o, "getString", {k}, TRUE, {d}, {nvs[k]}) /\ UNCHANGED reading
    BY <1>3 DEF GetStringLength, Return, NewResult
  <2>2. Readers'
    BY <2>1, <1>0, SameReaders DEF ClientsInv
  <2>3. result' \in Results
    BY <2>1, <1>0, GivenValues DEF NewResult, Results, Calls
  <2>4. Unpadded(d) = d
    BY GivenValues DEF Unpadded, Bytes
  <2>5. \A i \in nvs[k] : i.type = "str" => ~Started(o)
    BY <1>3 DEF FindsString, Has
  <2>6. /\ result'.value = {d} /\ result'.seen = {nvs[k]} /\ result'.by = {o}
    BY <2>1 DEF NewResult
  <2>7. StringReadBack'
    BY <2>4, <2>5, <2>6, <1>0 DEF StringReadBack, Started, Unpadded
  <2> QED
    BY <1>1, <2>2, <2>3, <2>7 DEF ClientsInv, Answered
<1> QED
  BY <1>2, <1>3

\* The second call: what it finds was seen, and if the key held one thing all
\* the time, it has the length that was measured.
LEMMA GetStringDataInv ==
  ASSUME ClientsInv, NEW o \in Handles, GetStringData(o)
  PROVE  ClientsInv'
<1>0. /\ UNCHANGED kvVars /\ UNCHANGED <<nvs, handle, flashUp>>
      /\ KVInv /\ Stored(nvs)
  BY DEF GetStringData, kvVars, ClientsInv, KVInv
<1>1. PICK r \in reading[o] :
        /\ Return(o, "getString", r.key, TRUE, {ReadString(r.key, r.len, r.default)}, r.seen)
        /\ reading' = [reading EXCEPT ![o] = {}]
  BY DEF GetStringData
<1>2. Reading(r, nvs) /\ r \in Readings /\ r.key \in Names /\ r.len \in Nat
  BY DEF ClientsInv, Readers, Readings
<1>3. KVInv'
  BY <1>0 DEF KVInv, Opened, Started, Stored
<1>4. Readers'
  BY <1>0, <1>1 DEF ClientsInv, Readers, Reading, Started
<1> DEFINE v == ReadString(r.key, r.len, r.default)
<1>5. /\ v \in Bytes
      /\ Unpadded(v) \in Defaults \cup {i.value : i \in UNION r.seen}
      /\ \A cell \in r.seen : \A i \in cell : r.seen = {cell} /\ i.type = "str" => v = i.value
  <2>1. CASE Has(r.key, "str") /\ StrLen(ValueOf(r.key)) <= r.len
    <3>1. PICK i \in nvs[r.key] : i.type = "str"
      BY <2>1 DEF Has
    <3>2. /\ ValueOf(r.key) = i.value /\ i \in Items /\ nvs[r.key] = {i} /\ i.value \in Bytes
          /\ i.value.pad = 0
      BY <1>0, <1>2, <3>1, TheItem DEF Items, Stored, IsCell
    <3>3. v = [i.value EXCEPT !.pad = r.len - StrLen(i.value)]
      BY <2>1, <3>2 DEF ReadString
    <3>4. StrLen(i.value) \in Nat /\ r.len - StrLen(i.value) \in Nat
      BY <2>1, <3>2, <1>2, LengthIsNat
    <3>5. v \in Bytes
      BY <3>2, <3>3, <3>4 DEF Bytes
    <3>6. Unpadded(v) = i.value
      BY <3>2, <3>3 DEF Unpadded, Bytes
    <3>7. i \in UNION r.seen
      BY <1>2, <3>2 DEF Reading
    <3>8. ASSUME NEW cell \in r.seen, NEW j \in cell, r.seen = {cell}
          PROVE  v = j.value
      <4>1. nvs[r.key] = cell /\ j = i
        BY <3>8, <1>2, <3>2 DEF Reading
      <4>2. r.len = StrLen(i.value)
        BY <3>8, <4>1, <1>2, <3>2 DEF Reading
      <4>3. r.len - StrLen(i.value) = 0
        BY <4>2, <3>4
      <4> QED
        BY <3>2, <3>3, <4>1, <4>3 DEF Bytes
    <3> QED
      BY <3>5, <3>6, <3>7, <3>8
  <2>2. CASE ~(Has(r.key, "str") /\ StrLen(ValueOf(r.key)) <= r.len)
    <3>1. v = r.default /\ v \in Bytes /\ Unpadded(v) = v /\ v \in Defaults
      BY <2>2, <1>2, GivenValues DEF ReadString, Reading, Unpadded, Bytes
    <3>2. ASSUME NEW cell \in r.seen, NEW j \in cell, r.seen = {cell}, j.type = "str"
          PROVE  FALSE
      <4>1. nvs[r.key] = cell /\ j \in nvs[r.key]
        BY <3>2, <1>2 DEF Reading
      <4>2. ValueOf(r.key) = j.value /\ nvs[r.key] = {j} /\ Has(r.key, "str") /\ j.value \in Bytes
        BY <4>1, <3>2, <1>0, <1>2, TheItem DEF Items
      <4>3. r.len = StrLen(j.value)
        BY <3>2, <4>1, <4>2, <1>2 DEF Reading
      <4> QED
        BY <2>2, <4>2, <4>3, <1>2
    <3> QED
      BY <3>1, <3>2
  <2> QED
    BY <2>1, <2>2
<1> HIDE DEF v
<1>6. result' = NewResult(o, "getString", {r.key}, TRUE, {v}, r.seen)
  BY <1>1 DEF Return, NewResult, v
<1>7. result' \in Results
  BY <1>2, <1>5, <1>6 DEF NewResult, Results, Calls, Readings
<1>8. StringReadBack'
  BY <1>5, <1>6 DEF StringReadBack, NewResult, Unpadded
<1> QED
  BY <1>3, <1>4, <1>7, <1>8 DEF ClientsInv, Answered

LEMMA ResetInv ==
  ASSUME ClientsInv, Reset
  PROVE  ClientsInv'
<1>1. KVInv'
  BY DEF Reset, ClientsInv, KVInv, Stored, Opened, Started, Closed, HandleStates
<1>2. Readers'
  BY DEF Reset, Readers
<1>3. Answered'
  BY DEF Reset, Answered, StringReadBack, NoResult, Results, Calls
<1> QED
  BY <1>1, <1>2, <1>3 DEF ClientsInv

LEMMA StutterInv ==
  ASSUME ClientsInv, UNCHANGED clientVars
  PROVE  ClientsInv'
<1>1. UNCHANGED kvVars /\ UNCHANGED <<nvs, handle, flashUp, reading, result>>
  BY DEF clientVars, kvVars
<1>2. KVInv'
  BY <1>1 DEF ClientsInv, KVInv, Opened, Started, Stored
<1>3. Readers'
  BY <1>1, SameReaders DEF ClientsInv
<1> QED
  BY <1>1, <1>2, <1>3 DEF ClientsInv, Answered, StringReadBack, Started

\* The strengthened invariant: every key holds at most one item, the driver
\* runs while an object is open, and every getString under way has seen what
\* its key holds.
THEOREM ClientsInvHolds == KVSpec => []ClientsInv
<1>1. ClientsInv /\ [KVNext]_clientVars => ClientsInv'
  <2> SUFFICES ASSUME ClientsInv, [KVNext]_clientVars PROVE ClientsInv'
    OBVIOUS
  <2>1. CASE \E o \in Handles : \E ro \in BOOLEAN : Begin(o, ro)
    BY <2>1, BeginInv
  <2>2. CASE \E o \in Handles : End(o) \/ Clear(o) \/ GetStringData(o)
    BY <2>2, EndInv, ClearInv, GetStringDataInv
  <2>3. CASE \E o \in Handles, k \in Names : Remove(o, k) \/ Ask(o, k)
    BY <2>3, RemoveInv, AskInv
  <2>4. CASE \E o \in Handles, k \in Names, t \in DOMAIN Values : \E v \in Values[t] :
               Put(o, k, t, v)
    BY <2>4, PutInv
  <2>5. CASE \E o \in Handles, k \in Names, t \in DOMAIN Values, d \in Defaults :
               \/ t \in DOMAIN Widths /\ GetInt(o, k, t, d)
               \/ t = "blob" /\ GetBytes(o, k, d.len)
               \/ t = "str" /\ GetStringLength(o, k, d)
    <3>1. \A d \in Defaults : d.len \in Nat
      BY GivenValues DEF Bytes
    <3> QED
      BY <2>5, <3>1, GetIntInv, GetBytesInv, GetStringLengthInv
  <2>6. CASE Reset
    BY <2>6, ResetInv
  <2>7. CASE UNCHANGED clientVars
    BY <2>7, StutterInv
  <2> QED
    BY <2>1, <2>2, <2>3, <2>4, <2>5, <2>6, <2>7 DEF KVNext
<1> QED
  BY InitInv, <1>1, PTL DEF KVSpec

\* Each key holds at most one item, whatever types are put under it, and no
\* getString is half done on a closed object.
THEOREM ClientsTypeCorrect == KVSpec => []ClientsTypeOK
<1>1. ClientsInv => ClientsTypeOK
  BY KVInvType DEF ClientsInv, ClientsTypeOK, Readers, Answered
<1> QED
  BY ClientsInvHolds, <1>1, PTL

\* getString returns the default or characters that the store held during the
\* call, and exactly the string when nobody wrote in between.
THEOREM StringsReadBack == KVSpec => []StringReadBack
<1>1. ClientsInv => StringReadBack
  BY DEF ClientsInv, Answered
<1> QED
  BY ClientsInvHolds, <1>1, PTL

\* Only the object that makes the call changes the namespace, by what it called
\* and for its key alone; the partition is erased only while no object has it
\* open.
THEOREM WritersChange == KVSpec => OnlyWritersChange
<1> DEFINE Allowed(o) ==
      \/ /\ result'.op \in {"put", "remove"} /\ Writable(o)
         /\ \A k \in Names \ result'.key : nvs'[k] = nvs[k]
      \/ result'.op = "clear" /\ Writable(o) /\ nvs' = Empty
      \/ result'.op = "begin" /\ nvs' = Empty /\ \A p \in Handles : ~Started(p)
<1>1. ClientsInv /\ [KVNext]_clientVars =>
        [nvs' /= nvs => \E o \in result'.by : Allowed(o)]_clientVars
  <2> SUFFICES ASSUME ClientsInv, KVNext, nvs' # nvs PROVE \E o \in result'.by : Allowed(o)
    BY DEF clientVars, kvVars
  <2>0. nvs \in [Names -> SUBSET Items]
    BY DEF ClientsInv, KVInv, Stored
  <2>1. ASSUME NEW o \in Handles, NEW ro \in BOOLEAN, Begin(o, ro)
        PROVE  o \in result'.by /\ Allowed(o)
    <3>1. /\ handle' \in [Handles -> HandleStates] /\ flashUp' \in BOOLEAN
          /\ BeginOutcome(o, ro, handle', nvs', flashUp')
      BY <2>1 DEF Begin, HandleStates
    <3>2. nvs' = Empty /\ \A p \in Handles : ~Started(p)
      BY <3>1, BeginKeeps DEF ClientsInv
    <3>3. result'.by = {o} /\ result'.op = "begin"
      BY <2>1 DEF Begin, NoResult
    <3> QED
      BY <3>2, <3>3
  <2>2. ASSUME NEW o \in Handles, Clear(o)
        PROVE  o \in result'.by /\ Allowed(o)
    <3>1. Writable(o) /\ nvs' = Empty
      BY <2>2 DEF Clear
    <3>2. result'.by = {o} /\ result'.op = "clear"
      BY <2>2 DEF Clear, NoResult
    <3> QED
      BY <3>1, <3>2
  <2>3. ASSUME NEW o \in Handles, NEW k \in Names, Remove(o, k)
        PROVE  o \in result'.by /\ Allowed(o)
    <3>1. Writable(o) /\ \A l \in Names \ {k} : nvs'[l] = nvs[l]
      BY <2>0, <2>3 DEF Remove
    <3>2. result'.by = {o} /\ result'.op = "remove" /\ result'.key = {k}
      BY <2>3 DEF Remove, Return
    <3> QED
      BY <3>1, <3>2
  <2>4. ASSUME NEW o \in Handles, NEW k \in Names, NEW t, NEW v, Put(o, k, t, v)
        PROVE  o \in result'.by /\ Allowed(o)
    <3>1. Writable(o) /\ \A l \in Names \ {k} : nvs'[l] = nvs[l]
      BY <2>0, <2>4 DEF Put, AfterPut, Accepts
    <3>2. result'.by = {o} /\ result'.op = "put" /\ result'.key = {k}
      BY <2>4 DEF Put, Return
    <3> QED
      BY <3>1, <3>2
  <2>5. ASSUME NEW o, NEW k, NEW t, NEW d, NEW max,
               \/ End(o) \/ GetStringData(o) \/ Ask(o, k) \/ Reset
               \/ GetInt(o, k, t, d) \/ GetBytes(o, k, max) \/ GetStringLength(o, k, d)
        PROVE  FALSE
    BY <2>5 DEF End, GetStringData, Ask, Reset, GetInt, GetBytes, GetStringLength, kvVars
  <2> HIDE DEF Allowed
  <2> QED
    BY <2>1, <2>2, <2>3, <2>4, <2>5 DEF KVNext
<1> QED
  BY ClientsInvHolds, <1>1, PTL DEF KVSpec, OnlyWritersChange
=============================================================================
