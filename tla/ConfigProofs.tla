---------------------------- MODULE ConfigProofs ----------------------------
(***************************************************************************)
(* Proofs about ConfigStore: what a save leaves in NVS, what a load that   *)
(* runs meanwhile returns and what is left after a power loss, for any     *)
(* number of Config objects, edits, saves, failing puts and resets.        *)
(***************************************************************************)
EXTENDS ConfigStore, KVStoreProofs

\* What save() leaves under a key: no NUL at the end, and an agtuuid runs on
\* into the key only when its buffer is full.
Kept(k, v) == v.pad = 0 /\ (k = "agtuuid" /\ v.len < UuidSize => v.tail = {})

NvsOK == KVInv /\ \A k \in Names : \A i \in nvs[k] : Kept(k, i.value)

FieldOK(f, v) ==
  v \in Bytes /\ (f = "agtuuid" => v.len <= UuidSize /\ v.tail = {})

\* What the console holds is what it typed or what a save had written.
ConsoleField(f, v) == v.pad = 0 /\ (f = "key" => v.len = KeySize)

ImageOK ==
  /\ image \in [Handles -> Images]
  /\ \A o \in Handles, f \in FieldNames : FieldOK(f, image[o][f])
  /\ \A f \in FieldNames : ConsoleField(f, image[Console][f])

\* Where a job can be.  A load between the two calls of getString has measured
\* a string that its window holds; the console, the only writer, finds it
\* again.
JobOK(o) ==
  LET j == job[o]
  IN  /\ j.kind = "idle" => j = Idle
      /\ j.kind = "save" => o = Console /\ j = Saving(j.at) /\ j.at >= 1
      /\ j.kind = "load" /\ j.len = {} => j = Loading(j.at)
      /\ j.len # {} =>
           /\ j.kind = "load" /\ j.at >= 1 /\ FieldAt(o) \in StringFields /\ Started(o)
           /\ \A n \in j.len : \E cell \in window[o][FieldAt(o)] : \E i \in cell :
                i.type = "str" /\ n = StrLen(i.value)
           /\ o = Console =>
                \A n \in j.len : \A i \in nvs[FieldAt(o)] : n = StrLen(i.value)

JobsOK == job \in [Handles -> Jobs] /\ \A o \in Handles : JobOK(o)

Busy(o) == job[o].kind = "load" /\ job[o].at >= 1

\* A load under way watches every field, as long as its object is open.
WindowsOK ==
  /\ window \in [Handles -> [FieldNames -> SUBSET SUBSET Items]]
  /\ \A o \in Handles, f \in FieldNames : \A cell \in window[o][f] :
       IsCell(cell) /\ \A i \in cell : Kept(f, i.value)
  /\ \A o \in Handles : Busy(o) =>
       \A f \in FieldNames : window[o][f] # {} /\ (Started(o) => nvs[f] \in window[o][f])

\* LoadedFieldsHeld of one field.
Held(f, v, cells, started) ==
  cells # {} =>
    /\ CString(v) \in {Decoded(f, cell) : cell \in cells} \cup {DefaultOf(f)}
    /\ \A cell \in cells : cells = {cell} /\ started => v = Decoded(f, cell)

LoadsOK ==
  \A o \in Readers, i \in DOMAIN Fields :
    Done(o, i) => Held(Fields[i], image[o][Fields[i]], window[o][Fields[i]], Started(o))

\* A save has written the fields before its job's and none of the others.
SavesOK ==
  /\ target \in Images /\ before \in Images
  /\ outcome \in Outcomes
  /\ job[Console].kind = "save" => outcome \in {"writing", "failed", "erased"}
  /\ outcome = "writing" =>
       /\ job[Console].kind = "save" /\ image[Console] = target
       /\ \A i \in DOMAIN Fields :
            Decoded(Fields[i], nvs[Fields[i]]) =
              IF i < job[Console].at THEN target[Fields[i]] ELSE before[Fields[i]]
  /\ outcome = "torn" => NvsImage["polling"] = before["polling"]
  /\ outcome = "done" => NvsImage = target

\* What a load has found that found the last save done, the partition erased or
\* its object closed: as long as it runs none of this changes, for the console,
\* the only writer, forgets it when it saves, and begin() erases nothing that
\* is open.
Known == {"done", "erased", "closed"}

Expected(o) == IF found[o] = "done" THEN target ELSE Defaults

FoundFrom(o) ==
  found[o] \in Known =>
    /\ job[o].kind # "save"
    /\ Busy(o) => IF found[o] = "closed" THEN ~Started(o)
                  ELSE Started(o) /\ outcome = found[o]
    /\ \A i \in DOMAIN Fields : Done(o, i) => image[o][Fields[i]] = Expected(o)[Fields[i]]
    /\ \A n \in job[o].len : \E i \in nvs[FieldAt(o)] : i.type = "str" /\ n = StrLen(i.value)

FoundOK ==
  /\ found \in [Handles -> Outcomes \cup {"closed"}]
  /\ outcome = "erased" => \A f \in FieldNames : nvs[f] = {}
  /\ outcome = "erased" /\ job[Console].kind = "save" => ~Started(Console)
  /\ \A o \in Handles : FoundFrom(o)

RestOK == printed \in {"nothing", "set OK", "save OK"} /\ budget \in Budgets

ConfigInv ==
  NvsOK /\ ImageOK /\ JobsOK /\ WindowsOK /\ LoadsOK /\ SavesOK /\ FoundOK /\ RestOK
-----------------------------------------------------------------------------

\* The seven fields, each at one place; polling is the last.
LEMMA FieldFacts ==
  /\ FieldNames = {"agtuuid", "key", "peer_url", "wifi_ssid", "wifi_password", "debug", "polling"}
  /\ Len(Fields) = 7 /\ DOMAIN Fields = 1..7 /\ Fields[7] = "polling"
  /\ \A i \in 1..7 : Fields[i] \in FieldNames
  /\ \A f \in FieldNames : \E i \in 1..7 : Fields[i] = f
  /\ \A i, j \in 1..7 : Fields[i] = Fields[j] => i = j
<1>1. /\ Len(Fields) = 7 /\ DOMAIN Fields = 1..7
      /\ Fields[1] = "agtuuid" /\ Fields[2] = "key" /\ Fields[3] = "peer_url"
      /\ Fields[4] = "wifi_ssid" /\ Fields[5] = "wifi_password" /\ Fields[6] = "debug"
      /\ Fields[7] = "polling"
  BY DEF Fields
<1>2. \A i \in 1..7 : i \in {1, 2, 3, 4, 5, 6, 7}
  OBVIOUS
<1>3. FieldNames = {"agtuuid", "key", "peer_url", "wifi_ssid", "wifi_password", "debug",
                    "polling"}
  BY <1>1, <1>2 DEF FieldNames
<1>4. \A i, j \in 1..7 : Fields[i] = Fields[j] => i = j
  BY <1>1, <1>2
<1>5. \A i \in 1..7 : Fields[i] \in FieldNames
  BY <1>1 DEF FieldNames
<1>6. \A f \in FieldNames : \E i \in 1..7 : Fields[i] = f
  BY <1>1 DEF FieldNames
<1> QED
  BY <1>1, <1>3, <1>4, <1>5, <1>6

\* The type of each field and of its item.
LEMMA TypeFacts ==
  \A f \in FieldNames :
    /\ f \in Names /\ TypeOf(f) \in ItemTypes
    /\ f \in StringFields <=> TypeOf(f) = "str"
    /\ f = "key" <=> TypeOf(f) = "blob"
    /\ f \in Flags <=> TypeOf(f) = "u8"
    /\ "agtuuid" \in StringFields
    /\ f \notin StringFields /\ f # "key" => f \in Flags
  BY FieldFacts, ConfigAssumption DEF TypeOf, ItemTypes, Widths, StringFields, Flags

LEMMA Sizes == UuidSize = 36 /\ KeySize = 32
  BY DEF UuidSize, KeySize

\* A plain text is one.
LEMMA PlainIs ==
  ASSUME NEW t \in Texts, NEW n \in Nat
  PROVE  /\ Plain(t, n) \in Bytes /\ Plain(t, n).text = t /\ Plain(t, n).len = n
         /\ Plain(t, n).tail = {} /\ Plain(t, n).pad = 0
  BY DEF Plain, Bytes

\* Reading a C string drops the trailing NULs and nothing else.
LEMMA CStringIs ==
  ASSUME NEW v \in Bytes
  PROVE  /\ CString(v) \in Bytes /\ CString(v).pad = 0
         /\ CString(v).text = v.text /\ CString(v).len = v.len /\ CString(v).tail = v.tail
         /\ v.pad = 0 => CString(v) = v
  BY DEF CString, Bytes

\* Two values with the same parts are the same.
LEMMA SameBytes ==
  ASSUME NEW v \in Bytes, NEW w \in Bytes, v.text = w.text, v.len = w.len,
         v.tail = w.tail, v.pad = w.pad
  PROVE  v = w
  BY DEF Bytes

\* What a field becomes does not depend on trailing NULs, and fits.
LEMMA ReceivedIs ==
  ASSUME NEW f \in FieldNames, NEW v \in Bytes,
         f = "agtuuid" /\ v.len < UuidSize => v.tail = {}
  PROVE  /\ FieldOK(f, Received(f, v))
         /\ CString(Received(f, v)) = Received(f, CString(v))
         /\ v.pad = 0 => Received(f, v).pad = 0
         /\ f = "key" => Received(f, v) = v
<1>1. CASE f # "agtuuid"
  BY <1>1 DEF Received, FieldOK
<1>2. CASE f = "agtuuid" /\ v.len < UuidSize
  <2>1. Received(f, v) = CString(v) /\ Received(f, CString(v)) = CString(v)
    BY <1>2, CStringIs DEF Received, Cut
  <2> QED
    BY <1>2, <2>1, CStringIs, Sizes DEF FieldOK, Bytes
<1>3. CASE f = "agtuuid" /\ ~(v.len < UuidSize)
  <2>1. v.text \in Texts /\ UuidSize \in Nat
    BY Sizes DEF Bytes
  <2>2. Received(f, v) = Plain(v.text, UuidSize)
    BY <1>3, CStringIs DEF Received, Cut
  <2>3. Received(f, CString(v)) = Plain(v.text, UuidSize)
    BY <1>3, CStringIs DEF Received, Cut
  <2>4. CString(Plain(v.text, UuidSize)) = Plain(v.text, UuidSize)
    BY <2>1, PlainIs, CStringIs
  <2> QED
    BY <1>3, <2>1, <2>2, <2>3, <2>4, PlainIs, Sizes DEF FieldOK
<1> QED
  BY <1>1, <1>2, <1>3

\* The defaults are values that fit, and they come through a load unchanged.
LEMMA DefaultIs ==
  ASSUME NEW f \in FieldNames
  PROVE  /\ FieldOK(f, DefaultOf(f)) /\ ConsoleField(f, DefaultOf(f))
         /\ Received(f, DefaultOf(f)) = DefaultOf(f)
         /\ CString(DefaultOf(f)) = DefaultOf(f)
         /\ Defaults[f] = DefaultOf(f)
<1>1. Defaults[f] = DefaultOf(f)
  BY DEF Defaults
<1>2. {"0", "zero-uuid"} \subseteq Texts /\ UuidSize \in Nat
  BY ConfigAssumption, Sizes
<1>0. "" \in Texts
  BY ConfigAssumption
<1>3. CASE f = "agtuuid"
  <2>1. DefaultOf(f) = Plain("zero-uuid", UuidSize)
    BY <1>3 DEF DefaultOf, DefaultUuid, Flags
  <2>2. CString(Plain("zero-uuid", UuidSize)) = Plain("zero-uuid", UuidSize)
    BY <1>2, PlainIs, CStringIs
  <2>3. Received(f, Plain("zero-uuid", UuidSize)) = Plain("zero-uuid", UuidSize)
    BY <1>2, <1>3, <2>2, PlainIs, Sizes DEF Received, Cut
  <2> QED
    BY <1>1, <1>2, <1>3, <2>1, <2>2, <2>3, PlainIs, Sizes DEF FieldOK, ConsoleField
<1>4. CASE f = "key"
  <2>1. DefaultOf(f) = DefaultKey /\ Given("key", DefaultKey)
    BY <1>4, ConfigAssumption DEF DefaultOf, Flags
  <2> QED
    BY <1>1, <1>4, <2>1, CStringIs DEF FieldOK, ConsoleField, Given, Received
<1>5. CASE f \in Flags
  <2>1. DefaultOf(f) = Plain("0", 1)
    BY <1>5 DEF DefaultOf, Flags, Off
  <2> QED
    BY <1>1, <1>2, <1>5, <2>1, PlainIs, CStringIs DEF FieldOK, ConsoleField, Received, Flags
<1>6. CASE f \notin {"agtuuid", "key"} \cup Flags
  <2>1. f # "agtuuid" /\ f # "key" /\ f \notin Flags
    BY <1>6
  <2>2. DefaultOf(f) = EmptyString
    BY <2>1 DEF DefaultOf
  <2>3. EmptyString \in Bytes /\ EmptyString.pad = 0
    <3>1. PICK t \in Texts : EmptyString = Plain(t, 0)
      BY <1>0, Zenon DEF EmptyString
    <3> QED
      BY <3>1, PlainIs
  <2> QED
    BY <1>1, <2>1, <2>2, <2>3, CStringIs DEF FieldOK, ConsoleField, Received
<1> QED
  BY <1>3, <1>4, <1>5, <1>6

LEMMA DefaultsImage == Defaults \in Images
  BY DefaultIs DEF Defaults, Images, FieldOK

\* What a load makes of the one item of a cell, or of none.
LEMMA DecodedItem ==
  ASSUME NEW f, NEW cell, IsCell(cell), NEW i \in cell
  PROVE  Decoded(f, cell) =
           IF i.type = TypeOf(f) /\ (f = "key" => i.value.len = KeySize)
           THEN Received(f, i.value) ELSE DefaultOf(f)
<1> DEFINE typed == {j \in cell : j.type = TypeOf(f)}
           exact == {j \in typed : f = "key" => j.value.len = KeySize}
<1>1. Decoded(f, cell) = IF exact = {} THEN DefaultOf(f)
                         ELSE Received(f, (CHOOSE j \in exact : TRUE).value)
  BY DEF Decoded
<1>2. cell = {i}
  BY DEF IsCell
<1>3. CASE i.type = TypeOf(f) /\ (f = "key" => i.value.len = KeySize)
  <2>1. exact = {i}
    BY <1>2, <1>3
  <2> HIDE DEF exact
  <2> QED
    BY <1>1, <1>3, <2>1
<1>4. CASE ~(i.type = TypeOf(f) /\ (f = "key" => i.value.len = KeySize))
  <2>1. exact = {}
    BY <1>2, <1>4
  <2> HIDE DEF exact
  <2> QED
    BY <1>1, <1>4, <2>1
<1> QED
  BY <1>3, <1>4

LEMMA DecodedNothing ==
  ASSUME NEW f, NEW cell, \A i \in cell : i.type # TypeOf(f)
  PROVE  Decoded(f, cell) = DefaultOf(f)
  BY DEF Decoded

\* It is a value of the field.
LEMMA DecodedIs ==
  ASSUME NEW f \in FieldNames, NEW cell, IsCell(cell), \A i \in cell : Kept(f, i.value)
  PROVE  FieldOK(f, Decoded(f, cell))
<1>1. CASE cell = {}
  BY <1>1, DecodedNothing, DefaultIs
<1>2. ASSUME NEW i \in cell PROVE FieldOK(f, Decoded(f, cell))
  <2>1. i.value \in Bytes /\ Kept(f, i.value)
    BY DEF IsCell, Items
  <2>2. FieldOK(f, Received(f, i.value))
    BY <2>1, ReceivedIs DEF Kept
  <2> QED
    BY <2>2, DecodedItem, DefaultIs
<1> QED
  BY <1>1, <1>2

LEMMA NvsImageIs ==
  ASSUME NvsOK
  PROVE  NvsImage \in Images /\ \A f \in FieldNames : NvsImage[f] = Decoded(f, nvs[f])
<1>1. ASSUME NEW f \in FieldNames PROVE Decoded(f, nvs[f]) \in Bytes
  <2>1. f \in Names /\ IsCell(nvs[f]) /\ \A i \in nvs[f] : Kept(f, i.value)
    BY TypeFacts DEF NvsOK, KVInv, Stored
  <2> QED
    BY <2>1, DecodedIs DEF FieldOK
<1> QED
  BY <1>1 DEF NvsImage, Images

\* Every field that save() writes comes back from a load as it was, also the
\* agtuuid that has no terminator and the key that begins with NUL.
LEMMA ReadBack ==
  ASSUME NEW c \in Images, NEW f \in FieldNames, FieldOK(f, c[f]), ConsoleField(f, c[f])
  PROVE  /\ Written(f, c) \in Bytes /\ Kept(f, Written(f, c))
         /\ Decoded(f, {[type |-> TypeOf(f), value |-> Written(f, c)]}) = c[f]
<1>1. c[f] \in Bytes /\ c[f].pad = 0 /\ (f = "key" => c[f].len = KeySize)
  BY DEF FieldOK, ConsoleField
<1> DEFINE w == Written(f, c)
<1>2. w \in Bytes /\ w.pad = 0 /\ w.len = c[f].len /\ w.text = c[f].text
      /\ (f # "agtuuid" => w = c[f])
      /\ (f = "agtuuid" /\ w.len < UuidSize => w = c[f])
  <2>1. CASE f # "agtuuid"
    BY <1>1, <2>1, CStringIs DEF Written
  <2>2. CASE f = "agtuuid" /\ (c[f].len < UuidSize \/ ~KeyTail[c["key"].text])
    BY <1>1, <2>2 DEF Written, UuidString
  <2>3. CASE f = "agtuuid" /\ ~(c[f].len < UuidSize \/ ~KeyTail[c["key"].text])
    <3>1. c["key"].text \in Texts
      BY FieldFacts DEF Images, Bytes
    <3>2. w = [c[f] EXCEPT !.tail = {c["key"].text}]
      BY <2>3 DEF Written, UuidString
    <3> QED
      BY <1>1, <2>3, <3>1, <3>2 DEF Bytes
  <2> QED
    BY <2>1, <2>2, <2>3
<1> HIDE DEF w
<1>3. Kept(f, w)
  BY <1>2 DEF Kept, FieldOK
<1>4. Received(f, w) = c[f]
  <2>1. CASE f # "agtuuid"
    BY <2>1, <1>2 DEF Received
  <2>2. CASE f = "agtuuid" /\ w.len < UuidSize
    BY <2>2, <1>1, <1>2, CStringIs DEF Received, Cut
  <2>3. CASE f = "agtuuid" /\ ~(w.len < UuidSize)
    <3>1. Received(f, w) = Plain(c[f].text, UuidSize)
      BY <2>3, <1>2, CStringIs DEF Received, Cut
    <3>2. c[f].len = UuidSize /\ c[f].tail = {}
      BY <2>3, <1>1, <1>2, Sizes DEF FieldOK, Bytes
    <3>3. c[f].text \in Texts /\ UuidSize \in Nat
      BY <1>1, Sizes DEF Bytes
    <3> DEFINE whole == Plain(c[f].text, UuidSize)
    <3>4. /\ whole \in Bytes /\ whole.text = c[f].text /\ whole.len = UuidSize
          /\ whole.tail = {} /\ whole.pad = 0
      BY <3>3, PlainIs
    <3> HIDE DEF whole
    <3>5. whole = c[f]
      BY <1>1, <3>2, <3>4, SameBytes
    <3> QED
      BY <3>1, <3>5 DEF whole
  <2> QED
    BY <2>1, <2>2, <2>3
<1> DEFINE i == [type |-> TypeOf(f), value |-> w]
<1>5. i \in Items /\ IsCell({i}) /\ i.type = TypeOf(f) /\ i.value = w
  BY <1>2, TypeFacts DEF Items, IsCell
<1> HIDE DEF i
<1>6. Decoded(f, {i}) = c[f]
  BY <1>1, <1>2, <1>4, <1>5, DecodedItem
<1> QED
  BY <1>2, <1>3, <1>6 DEF w, i
-----------------------------------------------------------------------------

\* ---- what a step leaves as it is --------------------------------------------

\* The job of an object that the step does not concern.
LEMMA SameJob ==
  ASSUME NEW p \in Handles, JobOK(p), job'[p] = job[p], Started(p) => Started(p)',
         job[p].len # {} => window'[p] = window[p] /\ (p = Console => nvs' = nvs)
  PROVE  JobOK(p)'
<1>1. CASE job[p].len = {}
  BY <1>1 DEF JobOK
<1>2. CASE job[p].len # {}
  BY <1>2 DEF JobOK, FieldAt
<1> QED
  BY <1>1, <1>2

\* What an object has loaded is held as long as it watches the same.
LEMMA SameLoads ==
  ASSUME LoadsOK, NEW p \in Readers, job'[p] = job[p], image'[p] = image[p],
         window'[p] = window[p], Started(p)' => Started(p)
  PROVE  \A i \in DOMAIN Fields :
           Done(p, i)' => Held(Fields[i], image[p][Fields[i]], window[p][Fields[i]], Started(p))'
<1> SUFFICES ASSUME NEW i \in DOMAIN Fields, Done(p, i)'
             PROVE  Held(Fields[i], image[p][Fields[i]], window[p][Fields[i]], Started(p))'
  OBVIOUS
<1>1. Held(Fields[i], image[p][Fields[i]], window[p][Fields[i]], Started(p))
  BY DEF LoadsOK, Done
<1> QED
  BY <1>1 DEF Held

\* The state of the save while the console does not save.
LEMMA SameSaves ==
  ASSUME SavesOK, UNCHANGED <<nvs, target, before, outcome>>,
         \/ job'[Console] = job[Console] /\ image'[Console] = image[Console]
         \/ job[Console].kind # "save" /\ job'[Console].kind # "save"
  PROVE  SavesOK'
<1>1. NvsImage' = NvsImage
  BY DEF NvsImage
<1> QED
  BY <1>1 DEF SavesOK

\* What an object has found stays, unless the step changes what its load reads.
LEMMA SameFound ==
  ASSUME NEW p \in Handles, FoundFrom(p), JobOK(p), found'[p] = found[p], job'[p] = job[p],
         image'[p] = image[p], target' = target,
         Busy(p) /\ found[p] \in Known =>
           /\ Started(p)' <=> Started(p)
           /\ Started(p) => nvs' = nvs /\ outcome' = outcome
  PROVE  FoundFrom(p)'
<1> SUFFICES ASSUME found[p] \in Known PROVE FoundFrom(p)'
  BY DEF FoundFrom
<1>1. Busy(p)' = Busy(p) /\ Expected(p)' = Expected(p) /\ FieldAt(p)' = FieldAt(p)
  BY DEF Busy, Expected, FieldAt
<1>2. Busy(p) => IF found[p] = "closed" THEN ~Started(p)'
                 ELSE Started(p)' /\ outcome' = found[p]
  BY DEF FoundFrom
<1>3. \A i \in DOMAIN Fields : Done(p, i)' => image'[p][Fields[i]] = Expected(p)'[Fields[i]]
  BY <1>1 DEF FoundFrom, Done
<1>4. \A n \in job'[p].len : \E i \in nvs'[FieldAt(p)'] : i.type = "str" /\ n = StrLen(i.value)
  <2>1. job[p].len # {} => Busy(p) /\ Started(p)
    BY DEF JobOK, Busy
  <2> QED
    BY <1>1, <2>1 DEF FoundFrom
<1> QED
  BY <1>1, <1>2, <1>3, <1>4 DEF FoundFrom

LEMMA SameStore ==
  ASSUME NvsOK, UNCHANGED <<nvs, handle, flashUp>>
  PROVE  NvsOK'
  BY DEF NvsOK, KVInv, Opened, Started, Stored

LEMMA SameWindows ==
  ASSUME WindowsOK, UNCHANGED <<nvs, handle, window>>,
         \A p \in Handles : Busy(p)' => Busy(p)
  PROVE  WindowsOK'
  BY DEF WindowsOK, Started

LEMMA BoundsAreNat ==
  /\ MaxEdits \in Nat /\ MaxSaves \in Nat /\ MaxLoads \in Nat /\ MaxCrashes \in Nat
  /\ MaxPutFailures \in Nat
  BY ONLY ConfigAssumption

LEMMA ConsoleIs == Console \in Handles
  BY ConfigAssumption

LEMMA IdleIs == Idle.kind = "idle" /\ Idle.at = 0 /\ Idle.len = {} /\ Idle \in Jobs
  BY FieldFacts DEF Idle, Jobs

LEMMA LoadingIs ==
  ASSUME NEW n \in 0..7
  PROVE  /\ Loading(n).kind = "load" /\ Loading(n).at = n /\ Loading(n).len = {}
         /\ Loading(n) \in Jobs /\ Loading(n) # Idle
  BY FieldFacts DEF Loading, Jobs, Idle

LEMMA SavingIs ==
  ASSUME NEW n \in 0..7
  PROVE  /\ Saving(n).kind = "save" /\ Saving(n).at = n /\ Saving(n).len = {}
         /\ Saving(n) \in Jobs /\ Saving(n) # Idle
  BY FieldFacts DEF Saving, Jobs, Idle

\* A job between its first and last call is at a field.
LEMMA AtAField ==
  ASSUME JobsOK, NEW o \in Handles, NEW kind, AtField(o, kind)
  PROVE  /\ job[o] \in Jobs /\ JobOK(o) /\ job[o].kind = kind /\ job[o] # Idle
         /\ job[o].at \in 1..7 /\ FieldAt(o) \in FieldNames
         /\ FieldAt(o) = Fields[job[o].at]
<1>1. job[o] \in Jobs /\ JobOK(o)
  BY DEF JobsOK
<1>2. job[o].at \in 1..7
  BY <1>1, FieldFacts DEF Jobs, AtField
<1> QED
  BY <1>1, <1>2, FieldFacts, IdleIs DEF AtField, FieldAt

LEMMA InitInv == ConfigInit => ConfigInv
<1> SUFFICES ASSUME ConfigInit PROVE ConfigInv
  OBVIOUS
<1>1. NvsOK
  <2>1. Stored(nvs) /\ \A k \in Names : nvs[k] = {}
    BY EmptyStored DEF ConfigInit, Empty
  <2> QED
    BY <2>1 DEF ConfigInit, NvsOK, KVInv, Opened, Started, Closed, HandleStates
<1>2. ImageOK
  BY DefaultsImage, DefaultIs, ConsoleIs DEF ConfigInit, ImageOK
<1>3. JobsOK
  BY LoadingIs DEF ConfigInit, JobsOK, JobOK
<1>4. WindowsOK
  BY LoadingIs DEF ConfigInit, WindowsOK, NoWindow, Busy
<1>5. LoadsOK
  BY LoadingIs, FieldFacts DEF ConfigInit, LoadsOK, Done, Readers
<1>6. SavesOK
  BY LoadingIs, DefaultsImage, ConsoleIs DEF ConfigInit, SavesOK, Outcomes
<1>7. RestOK
  BY BoundsAreNat DEF ConfigInit, RestOK, Budgets
<1>8. FoundOK
  BY DEF ConfigInit, FoundOK, FoundFrom, Unread, Known, Outcomes
<1> QED
  BY <1>1, <1>2, <1>3, <1>4, <1>5, <1>6, <1>7, <1>8 DEF ConfigInv

\* begin() of one object: an erasure hits no load with an open object, and it
\* is the end of a save under way.
LEMMA LoadBeginInv ==
  ASSUME ConfigInv, NEW o \in Handles, LoadBegin(o)
  PROVE  ConfigInv'
<1>1. /\ handle' \in [Handles -> HandleStates] /\ flashUp' \in BOOLEAN
      /\ BeginOutcome(o, FALSE, handle', nvs', flashUp')
  BY DEF LoadBegin, HandleStates
<1>2. /\ Stored(nvs')
      /\ nvs' = nvs \/ (nvs' = Empty /\ \A p \in Handles : ~Started(p))
      /\ \A p \in Handles : handle'[p].started => flashUp'
      /\ \A p \in Handles : p # o => handle'[p] = handle[p]
  <2>1. KVInv
    BY DEF ConfigInv, NvsOK
  <2>2. PICK ro \in BOOLEAN : BeginOutcome(o, ro, handle', nvs', flashUp')
    BY <1>1, Zenon
  <2> QED
    BY <1>1, <2>1, <2>2, BeginKeeps
<1>3. /\ job[o] = Loading(0) /\ job[o].kind = "load" /\ job[o].len = {}
      /\ job' = [job EXCEPT ![o] = Loading(1)]
      /\ window' = [window EXCEPT ![o] = [f \in FieldNames |-> {nvs'[f]}]]
      /\ outcome' = IF nvs' /= nvs THEN "erased" ELSE outcome
      /\ found' = [found EXCEPT ![o] = IF handle'[o].started THEN outcome' ELSE "closed"]
      /\ UNCHANGED <<image, printed, target, before, budget>>
  BY LoadingIs DEF LoadBegin
<1>4. /\ job \in [Handles -> Jobs] /\ job' \in [Handles -> Jobs]
      /\ job'[o] = Loading(1) /\ job'[o].kind = "load" /\ job'[o].at = 1 /\ job'[o].len = {}
      /\ \A p \in Handles : p # o => job'[p] = job[p]
  BY <1>3, LoadingIs DEF ConfigInv, JobsOK
<1>5. /\ window' \in [Handles -> [FieldNames -> SUBSET SUBSET Items]]
      /\ \A f \in FieldNames : window'[o][f] = {nvs'[f]}
      /\ \A p \in Handles : p # o => window'[p] = window[p]
  <2>1. \A f \in FieldNames : nvs'[f] \in SUBSET Items
    BY <1>2, TypeFacts DEF Stored
  <2> QED
    BY <1>3, <2>1 DEF ConfigInv, WindowsOK
<1>6. \A k \in Names : \A i \in nvs'[k] : Kept(k, i.value)
  BY <1>2 DEF ConfigInv, NvsOK, Empty
<1>7. NvsOK'
  BY <1>1, <1>2, <1>6 DEF NvsOK, KVInv, Opened, Started
<1>8. JobsOK'
  <2>1. ASSUME NEW p \in Handles PROVE JobOK(p)'
    <3>1. CASE p = o
      BY <3>1, <1>4 DEF JobOK
    <3>2. CASE p # o
      <4>1. JobOK(p) /\ (job[p].len # {} => Started(p))
        BY DEF ConfigInv, JobsOK, JobOK
      <4>2. job[p].len # {} => nvs' = nvs
        BY <4>1, <1>2
      <4> QED
        BY <3>2, <4>1, <4>2, <1>2, <1>4, <1>5, SameJob DEF Started
    <3> QED
      BY <3>1, <3>2
  <2> QED
    BY <1>4, <2>1 DEF JobsOK
<1>9. WindowsOK'
  <2>1. ASSUME NEW p \in Handles, NEW f \in FieldNames
        PROVE  /\ \A cell \in window'[p][f] : IsCell(cell) /\ \A i \in cell : Kept(f, i.value)
               /\ Busy(p)' => window'[p][f] # {} /\ (Started(p)' => nvs'[f] \in window'[p][f])
    <3>1. CASE p = o
      BY <3>1, <1>2, <1>5, <1>6, TypeFacts DEF Stored
    <3>2. CASE p # o
      <4>1. Busy(p)' => Busy(p) /\ (Started(p)' => Started(p) /\ nvs' = nvs)
        BY <3>2, <1>2, <1>4 DEF Busy, Started
      <4> QED
        BY <3>2, <4>1, <1>5 DEF ConfigInv, WindowsOK
    <3> QED
      BY <3>1, <3>2
  <2> QED
    BY <1>5, <2>1 DEF WindowsOK
<1>10. LoadsOK'
  <2>1. ASSUME NEW p \in Readers, NEW i \in DOMAIN Fields, Done(p, i)'
        PROVE  Held(Fields[i], image[p][Fields[i]], window[p][Fields[i]], Started(p))'
    <3>0. p \in Handles
      BY DEF Readers
    <3>1. CASE p = o
      BY <3>1, <2>1, <1>4, FieldFacts, IdleIs DEF Done
    <3>2. CASE p # o
      BY <3>0, <3>2, <2>1, <1>2, <1>3, <1>4, <1>5, SameLoads DEF Started, ConfigInv
    <3> QED
      BY <3>1, <3>2
  <2> QED
    BY <2>1 DEF LoadsOK
<1>11. SavesOK'
  <2>1. CASE nvs' = nvs
    <3>1. CASE o = Console
      BY <2>1, <3>1, <1>3, <1>4, SameSaves DEF ConfigInv
    <3>2. CASE o # Console
      BY <2>1, <3>2, <1>3, <1>4, ConsoleIs, SameSaves DEF ConfigInv
    <3> QED
      BY <3>1, <3>2
  <2>2. CASE nvs' # nvs
    BY <2>2, <1>3, <1>4, ConsoleIs DEF ConfigInv, SavesOK, Outcomes
  <2> QED
    BY <2>1, <2>2
<1>12. ImageOK' /\ RestOK'
  BY <1>3 DEF ConfigInv, ImageOK, RestOK
<1>13. FoundOK'
  <2>1. /\ found' \in [Handles -> Outcomes \cup {"closed"}]
        /\ found'[o] = IF handle'[o].started THEN outcome' ELSE "closed"
        /\ \A p \in Handles : p # o => found'[p] = found[p]
    BY <1>3 DEF ConfigInv, FoundOK, SavesOK, Outcomes
  <2>2. outcome' = "erased" => \A f \in FieldNames : nvs'[f] = {}
    <3>1. nvs' # nvs => \A f \in FieldNames : nvs'[f] = {}
      BY <1>2, TypeFacts DEF Empty
    <3> QED
      BY <3>1, <1>3 DEF ConfigInv, FoundOK
  <2>3. outcome' = "erased" /\ job'[Console].kind = "save" => ~Started(Console)'
    <3>1. job'[Console].kind = "save" => Console # o /\ job[Console].kind = "save"
      BY <1>4, ConsoleIs
    <3>2. Console # o => (Started(Console)' <=> Started(Console))
      BY <1>2, ConsoleIs DEF Started
    <3>3. outcome' = "erased" => outcome = "erased" \/ ~Started(Console)
      BY <1>2, <1>3, ConsoleIs
    <3> QED
      BY <3>1, <3>2, <3>3 DEF ConfigInv, FoundOK
  <2>4. FoundFrom(o)'
    <3>1. outcome' # "closed"
      BY <1>3 DEF ConfigInv, SavesOK, Outcomes
    <3>2. \A i \in DOMAIN Fields : ~Done(o, i)'
      BY <1>4, LoadingIs, FieldFacts DEF Done
    <3> QED
      BY <2>1, <3>1, <3>2, <1>4 DEF FoundFrom, Started
  <2>5. ASSUME NEW p \in Handles, p # o PROVE FoundFrom(p)'
    <3>1. FoundFrom(p) /\ JobOK(p)
      BY DEF ConfigInv, FoundOK, JobsOK
    <3>2. (Started(p)' <=> Started(p)) /\ (Started(p) => nvs' = nvs /\ outcome' = outcome)
      BY <2>5, <1>2, <1>3 DEF Started
    <3> QED
      BY <2>1, <2>5, <3>1, <3>2, <1>3, <1>4, SameFound
  <2> QED
    BY <2>1, <2>2, <2>3, <2>4, <2>5 DEF FoundOK
<1> QED
  BY <1>7, <1>8, <1>9, <1>10, <1>11, <1>12, <1>13 DEF ConfigInv

\* What a load that has found its outcome reads is what is expected of it.
LEMMA Expect ==
  ASSUME ConfigInv, NEW o \in Handles, Busy(o), found[o] \in Known, NEW f \in FieldNames
  PROVE  Expected(o)[f] = IF Started(o) THEN Decoded(f, nvs[f]) ELSE DefaultOf(f)
<1>1. /\ found[o] = "closed" => ~Started(o)
      /\ found[o] # "closed" => Started(o) /\ outcome = found[o]
  BY DEF ConfigInv, FoundOK, FoundFrom
<1>2. Defaults[f] = DefaultOf(f)
  BY DefaultIs
<1>3. CASE found[o] = "closed"
  BY <1>1, <1>2, <1>3 DEF Expected
<1>4. CASE found[o] = "done"
  <2>1. NvsImage = target /\ NvsImage[f] = Decoded(f, nvs[f])
    BY <1>1, <1>4, NvsImageIs DEF ConfigInv, SavesOK
  <2> QED
    BY <2>1, <1>1, <1>4 DEF Expected
<1>5. CASE found[o] = "erased"
  <2>1. nvs[f] = {}
    BY <1>1, <1>5 DEF ConfigInv, FoundOK
  <2>2. Decoded(f, nvs[f]) = DefaultOf(f)
    BY <2>1, DecodedNothing
  <2> QED
    BY <2>2, <1>1, <1>2, <1>5 DEF Expected
<1> QED
  BY <1>3, <1>4, <1>5 DEF Known

\* What a getter returned for one field: something that the window holds or
\* the default, and exactly what NVS holds when nobody wrote meanwhile.
LEMMA LoadedInv ==
  ASSUME ConfigInv, NEW o \in Handles, NEW v \in Bytes, AtField(o, "load"), Loaded(o, v),
         FieldAt(o) = "agtuuid" /\ v.len < UuidSize => v.tail = {},
         o = Console => v.pad = 0 /\ (FieldAt(o) = "key" => v.len = KeySize),
         Held(FieldAt(o), Received(FieldAt(o), v), window[o][FieldAt(o)], Started(o)),
         found[o] \in Known =>
           Received(FieldAt(o), v) =
             IF Started(o) THEN Decoded(FieldAt(o), nvs[FieldAt(o)]) ELSE DefaultOf(FieldAt(o))
  PROVE  ConfigInv'
<1> DEFINE f == FieldAt(o)
           w == Received(f, v)
<1>1. /\ job[o] \in Jobs /\ job[o].kind = "load" /\ job[o] # Idle /\ job[o].at \in 1..7
      /\ f \in FieldNames /\ f = Fields[job[o].at] /\ JobOK(o)
  BY AtAField DEF ConfigInv
<1>2. /\ image' = [image EXCEPT ![o][f] = w]
      /\ job' = [job EXCEPT ![o] = IF @.at = Len(Fields) THEN Idle ELSE Loading(@.at + 1)]
      /\ UNCHANGED <<nvs, handle, flashUp, printed, target, before, outcome, found, window,
                      budget>>
  BY DEF Loaded
<1>3. FieldOK(f, w) /\ (v.pad = 0 => w.pad = 0) /\ (f = "key" => w = v)
  BY <1>1, ReceivedIs
<1>4. Held(f, w, window[o][f], Started(o))
  OBVIOUS
<1>15. found[o] \in Known => w = Expected(o)[f]
  <2>1. Busy(o)
    BY <1>1 DEF Busy
  <2> QED
    BY <1>1, <2>1, Expect
<1> HIDE DEF f, w
<1>5. /\ \A p \in Handles : p # o => image'[p] = image[p]
      /\ image'[o][f] = w /\ image' \in [Handles -> Images]
      /\ \A g \in FieldNames : g # f => image'[o][g] = image[o][g]
  BY <1>1, <1>2, <1>3 DEF ConfigInv, ImageOK, Images, FieldOK
<1>6. ImageOK'
  <2>1. ConsoleField(f, w) \/ o # Console
    BY <1>3 DEF ConsoleField, f
  <2> QED
    BY <1>3, <1>5, <2>1, ConsoleIs DEF ConfigInv, ImageOK
<1>7. job[o].at # 7 => job[o].at + 1 \in 0..7
  BY <1>1
<1>8. /\ job'[o] = IF job[o].at = 7 THEN Idle ELSE Loading(job[o].at + 1)
      /\ job'[o] \in Jobs /\ job'[o].kind # "save" /\ job'[o].len = {}
      /\ job' \in [Handles -> Jobs]
      /\ \A p \in Handles : p # o => job'[p] = job[p]
  BY <1>1, <1>2, <1>7, FieldFacts, IdleIs, LoadingIs DEF ConfigInv, JobsOK
<1>9. \A i \in DOMAIN Fields : Done(o, i)' => i < job[o].at \/ i = job[o].at
  <2>1. DOMAIN Fields = 1..7
    BY FieldFacts
  <2>2. CASE job[o].at = 7
    BY <2>1, <2>2
  <2>3. CASE job[o].at # 7
    <3>1. job'[o] # Idle /\ job'[o].at = job[o].at + 1
      BY <2>3, <1>7, <1>8, LoadingIs
    <3> QED
      BY <2>1, <3>1, <1>1 DEF Done
  <2> QED
    BY <2>2, <2>3
<1>10. NvsOK' /\ RestOK'
  BY <1>2, SameStore DEF ConfigInv, RestOK
<1>11. JobsOK'
  <2>1. ASSUME NEW p \in Handles PROVE JobOK(p)'
    <3>1. CASE p = o
      <4>1. job'[o] = Idle \/ job'[o] = Loading(job'[o].at)
        BY <1>7, <1>8, LoadingIs
      <4>2. job'[o].kind = "load" => job'[o] = Loading(job'[o].at)
        BY <4>1, IdleIs
      <4>3. job'[o].kind = "idle" => job'[o] = Idle
        BY <1>7, <1>8, LoadingIs
      <4> QED
        BY <3>1, <4>2, <4>3, <1>8 DEF JobOK
    <3>2. CASE p # o
      BY <3>2, <1>2, <1>8, SameJob DEF ConfigInv, JobsOK, Started
    <3> QED
      BY <3>1, <3>2
  <2> QED
    BY <1>8, <2>1 DEF JobsOK
<1>12. WindowsOK'
  <2>1. \A p \in Handles : Busy(p)' => Busy(p)
    BY <1>1, <1>8 DEF Busy
  <2> QED
    BY <1>2, <2>1, SameWindows DEF ConfigInv
<1>13. LoadsOK'
  <2>1. ASSUME NEW p \in Readers, NEW i \in DOMAIN Fields, Done(p, i)'
        PROVE  Held(Fields[i], image[p][Fields[i]], window[p][Fields[i]], Started(p))'
    <3>0. p \in Handles
      BY DEF Readers
    <3>1. CASE p = o /\ i < job[o].at
      <4>1. i \in 1..7 /\ Fields[i] \in FieldNames /\ Fields[i] # f
        BY <3>1, <1>1, FieldFacts
      <4>2. Held(Fields[i], image[p][Fields[i]], window[p][Fields[i]], Started(p))
        BY <3>1 DEF ConfigInv, LoadsOK, Done
      <4>3. image'[p][Fields[i]] = image[p][Fields[i]]
        BY <3>1, <4>1, <1>5
      <4> QED
        BY <4>2, <4>3, <1>2 DEF Held, Started
    <3>2. CASE p = o /\ i = job[o].at
      BY <3>2, <1>1, <1>2, <1>4, <1>5 DEF Held, Started
    <3>3. CASE p # o
      BY <3>0, <3>3, <2>1, <1>2, <1>5, <1>8, SameLoads DEF Started, ConfigInv
    <3> QED
      BY <2>1, <3>1, <3>2, <3>3, <1>9
  <2> QED
    BY <2>1 DEF LoadsOK
<1>14. SavesOK'
  <2>1. CASE o = Console
    BY <2>1, <1>1, <1>2, <1>8, SameSaves DEF ConfigInv
  <2>2. CASE o # Console
    BY <2>2, <1>2, <1>5, <1>8, ConsoleIs, SameSaves DEF ConfigInv
  <2> QED
    BY <2>1, <2>2
<1>16. FoundOK'
  <2>1. ASSUME NEW p \in Handles, p # o PROVE FoundFrom(p)'
    BY <2>1, <1>2, <1>5, <1>8, SameFound DEF ConfigInv, FoundOK, JobsOK, Started
  <2>2. ASSUME found[o] \in Known PROVE FoundFrom(o)'
    <3>1. Busy(o) /\ FoundFrom(o)
      BY <1>1 DEF Busy, ConfigInv, FoundOK
    <3>2. Expected(o)' = Expected(o) /\ found'[o] = found[o]
      BY <1>2 DEF Expected
    <3>3. IF found[o] = "closed" THEN ~Started(o)' ELSE Started(o)' /\ outcome' = found[o]
      BY <2>2, <3>1, <1>2 DEF FoundFrom, Started
    <3>4. ASSUME NEW i \in DOMAIN Fields, Done(o, i)'
          PROVE  image'[o][Fields[i]] = Expected(o)[Fields[i]]
      <4>1. CASE i = job[o].at
        BY <2>2, <4>1, <1>1, <1>5, <1>15
      <4>2. CASE i < job[o].at
        <5>1. i \in 1..7 /\ Fields[i] \in FieldNames /\ Fields[i] # f
          BY <4>2, <1>1, FieldFacts
        <5> QED
          BY <2>2, <3>1, <4>2, <5>1, <1>5 DEF FoundFrom, Done
      <4> QED
        BY <3>4, <4>1, <4>2, <1>9
    <3> QED
      BY <3>2, <3>3, <3>4, <1>8 DEF FoundFrom
  <2>3. found[o] \notin Known => FoundFrom(o)'
    BY <1>2 DEF FoundFrom
  <2>4. Started(Console)' = Started(Console) /\ (job'[Console].kind = "save" => job[Console].kind = "save")
    BY <1>2, <1>8, ConsoleIs DEF Started
  <2> QED
    BY <2>1, <2>2, <2>3, <2>4, <1>2 DEF ConfigInv, FoundOK
<1> QED
  BY <1>6, <1>10, <1>11, <1>12, <1>13, <1>14, <1>16 DEF ConfigInv

\* Between the two calls of getString.
LEMMA LoadStringLengthInv ==
  ASSUME ConfigInv, NEW o \in Handles, LoadStringLength(o)
  PROVE  ConfigInv'
<1> DEFINE f == FieldAt(o)
<1>1. /\ job[o] \in Jobs /\ job[o].kind = "load" /\ job[o] # Idle /\ job[o].at \in 1..7
      /\ f \in FieldNames /\ f \in Names /\ f \in StringFields
      /\ Started(o) /\ Has(f, "str")
  BY AtAField, TypeFacts DEF ConfigInv, LoadStringLength, FindsString
<1>2. /\ job' = [job EXCEPT ![o].len = {StrLen(ValueOf(f))}]
      /\ UNCHANGED <<nvs, handle, flashUp, image, printed, target, before, outcome,
                      found, window, budget>>
  BY DEF LoadStringLength
<1>3. Stored(nvs)
  BY DEF ConfigInv, NvsOK, KVInv
<1>4. PICK i \in nvs[f] : i.type = "str" /\ nvs[f] = {i} /\ ValueOf(f) = i.value
                          /\ i.value \in Bytes
  BY <1>1, <1>3, TheItem DEF Has, Items
<1>5. StrLen(i.value) \in Nat
  BY <1>4, LengthIsNat
<1>6. nvs[f] \in window[o][f]
  BY <1>1 DEF ConfigInv, WindowsOK, Busy
<1>7. /\ job'[o].kind = "load" /\ job'[o].at = job[o].at /\ job'[o].len = {StrLen(i.value)}
      /\ job'[o] \in Jobs /\ job' \in [Handles -> Jobs]
      /\ \A p \in Handles : p # o => job'[p] = job[p]
  BY <1>1, <1>2, <1>4, <1>5 DEF ConfigInv, JobsOK, Jobs
<1>8. FieldAt(o)' = f
  BY <1>7 DEF FieldAt
<1> HIDE DEF f
<1>9. NvsOK' /\ ImageOK' /\ RestOK'
  BY <1>2, SameStore DEF ConfigInv, ImageOK, RestOK
<1>10. JobsOK'
  <2>1. ASSUME NEW p \in Handles PROVE JobOK(p)'
    <3>1. CASE p = o
      <4>1. \A n \in job'[o].len : n = StrLen(i.value)
        BY <1>7
      <4>2. \A n \in job'[o].len : \E cell \in window'[o][f] : \E j \in cell :
              j.type = "str" /\ n = StrLen(j.value)
        BY <4>1, <1>2, <1>4, <1>6
      <4>3. \A n \in job'[o].len : \A j \in nvs'[f] : n = StrLen(j.value)
        BY <4>1, <1>2, <1>4
      <4>4. Started(o)'
        BY <1>1, <1>2 DEF Started
      <4> QED
        BY <3>1, <4>2, <4>3, <4>4, <1>1, <1>7, <1>8 DEF JobOK
    <3>2. CASE p # o
      BY <3>2, <1>2, <1>7, SameJob DEF ConfigInv, JobsOK, Started
    <3> QED
      BY <3>1, <3>2
  <2> QED
    BY <1>7, <2>1 DEF JobsOK
<1>11. WindowsOK'
  <2>1. \A p \in Handles : Busy(p)' => Busy(p)
    BY <1>1, <1>7 DEF Busy
  <2> QED
    BY <1>2, <2>1, SameWindows DEF ConfigInv
<1>12. LoadsOK'
  <2>1. ASSUME NEW p \in Readers, NEW n \in DOMAIN Fields, Done(p, n)'
        PROVE  Held(Fields[n], image[p][Fields[n]], window[p][Fields[n]], Started(p))'
    <3>0. p \in Handles
      BY DEF Readers
    <3>1. CASE p = o
      <4>1. Done(p, n)
        BY <3>1, <2>1, <1>7, IdleIs DEF Done
      <4> QED
        BY <4>1, <1>2 DEF ConfigInv, LoadsOK, Held, Started
    <3>2. CASE p # o
      BY <3>0, <3>2, <2>1, <1>2, <1>7, SameLoads DEF Started, ConfigInv
    <3> QED
      BY <3>1, <3>2
  <2> QED
    BY <2>1 DEF LoadsOK
<1>13. SavesOK'
  <2>1. CASE o = Console
    BY <2>1, <1>1, <1>2, <1>7, SameSaves DEF ConfigInv
  <2>2. CASE o # Console
    BY <2>2, <1>2, <1>7, ConsoleIs, SameSaves DEF ConfigInv
  <2> QED
    BY <2>1, <2>2
<1>14. FoundOK'
  <2>1. ASSUME NEW p \in Handles, p # o PROVE FoundFrom(p)'
    BY <2>1, <1>2, <1>7, SameFound DEF ConfigInv, FoundOK, JobsOK, Started
  <2>2. FoundFrom(o)'
    <3>1. /\ Busy(o)' = Busy(o) /\ Expected(o)' = Expected(o) /\ found'[o] = found[o]
          /\ Started(o)' = Started(o) /\ FoundFrom(o)
      BY <1>1, <1>2, <1>7 DEF Busy, Expected, Started, ConfigInv, FoundOK
    <3>2. \A n \in DOMAIN Fields : Done(o, n)' => Done(o, n)
      BY <1>7, IdleIs DEF Done
    <3>3. \A n \in job'[o].len : \E j \in nvs'[FieldAt(o)'] : j.type = "str" /\ n = StrLen(j.value)
      BY <1>2, <1>4, <1>7, <1>8
    <3> QED
      BY <3>1, <3>2, <3>3, <1>2, <1>7 DEF FoundFrom
  <2>3. Started(Console)' = Started(Console) /\ (job'[Console].kind = "save" => job[Console].kind = "save")
    BY <1>2, <1>7, ConsoleIs DEF Started
  <2> QED
    BY <2>1, <2>2, <2>3, <1>2 DEF ConfigInv, FoundOK
<1> QED
  BY <1>9, <1>10, <1>11, <1>12, <1>13, <1>14 DEF ConfigInv

\* What NVS says of a field during a load, when its item is read in one call.
LEMMA HeldNow ==
  ASSUME ConfigInv, NEW o \in Handles, Busy(o), Started(o), NEW f \in FieldNames,
         NEW w, w = Decoded(f, nvs[f]), CString(w) = w
  PROVE  Held(f, w, window[o][f], Started(o))
<1>1. nvs[f] \in window[o][f]
  BY DEF ConfigInv, WindowsOK
<1> QED
  BY <1>1 DEF Held

\* A field that is left at its default because the object is not open.
LEMMA HeldDefault ==
  ASSUME NEW o, ~Started(o), NEW f \in FieldNames, NEW cells
  PROVE  Held(f, DefaultOf(f), cells, Started(o))
  BY DefaultIs DEF Held

\* What NVS holds under a field.
LEMMA StoredField ==
  ASSUME ConfigInv, NEW f \in FieldNames
  PROVE  /\ f \in Names /\ Stored(nvs) /\ IsCell(nvs[f])
         /\ \A i \in nvs[f] :
              /\ i \in Items /\ i.value \in Bytes /\ Kept(f, i.value)
              /\ nvs[f] = {i} /\ ValueOf(f) = i.value
              /\ \A t : Has(f, t) <=> i.type = t
<1>1. f \in Names /\ Stored(nvs) /\ IsCell(nvs[f]) /\ \A i \in nvs[f] : Kept(f, i.value)
  BY TypeFacts DEF ConfigInv, NvsOK, KVInv, Stored
<1> QED
  BY <1>1, TheItem DEF Items

LEMMA LoadStringDataInv ==
  ASSUME ConfigInv, NEW o \in Handles, LoadStringData(o)
  PROVE  ConfigInv'
<1> DEFINE f == FieldAt(o)
<1>0. AtField(o, "load")
  BY DEF LoadStringData
<1>1. /\ job[o] \in Jobs /\ job[o].kind = "load" /\ job[o].at \in 1..7
      /\ f \in FieldNames /\ JobOK(o)
  BY <1>0, AtAField DEF ConfigInv
<1>2. PICK len \in job[o].len : Loaded(o, ReadString(f, len, DefaultOf(f)))
  BY DEF LoadStringData
<1>3. /\ f \in StringFields /\ Started(o) /\ len \in Nat /\ TypeOf(f) = "str" /\ f # "key"
      /\ \E cell \in window[o][f] : \E i \in cell : i.type = "str" /\ len = StrLen(i.value)
      /\ o = Console => \A i \in nvs[f] : len = StrLen(i.value)
  BY <1>1, <1>2, TypeFacts DEF JobOK, Jobs
<1>4. nvs[f] \in window[o][f]
  BY <1>1, <1>3 DEF ConfigInv, WindowsOK, Busy
<1>7. found[o] \in Known => \E i \in nvs[f] : i.type = "str" /\ len = StrLen(i.value)
  BY <1>2 DEF ConfigInv, FoundOK, FoundFrom
<1> DEFINE v == ReadString(f, len, DefaultOf(f))
<1> HIDE DEF f
<1>5. CASE Has(f, "str") /\ StrLen(ValueOf(f)) <= len
  <2>1. PICK i \in nvs[f] : i.type = "str"
    BY <1>5 DEF Has
  <2>2. /\ i.value \in Bytes /\ Kept(f, i.value) /\ nvs[f] = {i} /\ ValueOf(f) = i.value
        /\ IsCell(nvs[f])
    BY <1>1, <2>1, StoredField
  <2>3. StrLen(i.value) \in Nat /\ len - StrLen(i.value) \in Nat
    BY <1>3, <1>5, <2>2, LengthIsNat
  <2>4. v = [i.value EXCEPT !.pad = len - StrLen(i.value)]
    BY <1>5, <2>2 DEF ReadString
  <2>5. /\ v \in Bytes /\ v.text = i.value.text /\ v.len = i.value.len
        /\ v.tail = i.value.tail /\ v.pad = len - StrLen(i.value)
    BY <2>2, <2>3, <2>4 DEF Bytes
  <2>6. CString(v) = i.value
    BY <2>2, <2>5, CStringIs, SameBytes DEF Kept
  <2> HIDE DEF v
  <2>7. /\ f = "agtuuid" /\ v.len < UuidSize => v.tail = {}
        /\ CString(Received(f, v)) = Received(f, i.value)
    BY <1>1, <2>2, <2>5, <2>6, ReceivedIs DEF Kept
  <2>8. Decoded(f, nvs[f]) = Received(f, i.value)
    BY <1>1, <1>3, <2>1, <2>2, DecodedItem
  <2>9. len = StrLen(i.value) => v = i.value
    BY <2>2, <2>3, <2>5, SameBytes DEF Kept
  <2>10. Held(f, Received(f, v), window[o][f], Started(o))
    <3>1. ASSUME NEW cell \in window[o][f], window[o][f] = {cell}
          PROVE  Received(f, v) = Decoded(f, cell)
      <4>1. cell = nvs[f] /\ len = StrLen(i.value)
        BY <3>1, <1>3, <1>4, <2>2
      <4> QED
        BY <4>1, <2>8, <2>9
    <3> QED
      BY <3>1, <1>4, <2>7, <2>8 DEF Held
  <2>11. o = Console => v.pad = 0
    BY <1>3, <2>3, <2>5, <2>1
  <2>12. found[o] \in Known => Received(f, v) = Decoded(f, nvs[f])
    BY <1>7, <2>2, <2>8, <2>9
  <2> QED
    BY <1>0, <1>2, <1>3, <2>5, <2>7, <2>10, <2>11, <2>12, LoadedInv DEF f, v
<1>6. CASE ~(Has(f, "str") /\ StrLen(ValueOf(f)) <= len)
  <2>1. v = DefaultOf(f)
    BY <1>6 DEF ReadString
  <2> HIDE DEF v
  <2>2. /\ v \in Bytes /\ v.pad = 0 /\ (f = "agtuuid" => v.tail = {})
        /\ Received(f, v) = DefaultOf(f) /\ CString(DefaultOf(f)) = DefaultOf(f)
    BY <1>1, <2>1, DefaultIs DEF FieldOK, ConsoleField
  <2>3. ASSUME NEW cell \in window[o][f], window[o][f] = {cell} PROVE FALSE
    <3>1. cell = nvs[f]
      BY <2>3, <1>4
    <3>2. PICK i \in nvs[f] : i.type = "str" /\ len = StrLen(i.value)
      BY <2>3, <3>1, <1>3
    <3>3. Has(f, "str") /\ ValueOf(f) = i.value /\ StrLen(i.value) \in Nat
      BY <1>1, <3>2, StoredField, LengthIsNat
    <3> QED
      BY <1>6, <3>2, <3>3
  <2>4. Held(f, Received(f, v), window[o][f], Started(o))
    BY <2>2, <2>3 DEF Held
  <2>5. found[o] \notin Known
    <3>1. ASSUME NEW i \in nvs[f], i.type = "str", len = StrLen(i.value) PROVE FALSE
      <4>1. Has(f, "str") /\ ValueOf(f) = i.value /\ StrLen(i.value) \in Nat
        BY <1>1, <3>1, StoredField, LengthIsNat
      <4> QED
        BY <1>6, <3>1, <4>1
    <3> QED
      BY <1>7, <3>1
  <2> QED
    BY <1>0, <1>2, <1>3, <2>2, <2>4, <2>5, LoadedInv DEF f, v
<1> QED
  BY <1>5, <1>6

LEMMA LoadStringMissingInv ==
  ASSUME ConfigInv, NEW o \in Handles, LoadStringMissing(o)
  PROVE  ConfigInv'
<1> DEFINE f == FieldAt(o)
           v == DefaultOf(f)
<1>0. /\ AtField(o, "load") /\ f \in StringFields /\ Loaded(o, v)
      /\ ~(Started(o) /\ Has(f, "str"))
  BY DEF LoadStringMissing, FindsString
<1>1. f \in FieldNames /\ Busy(o) /\ TypeOf(f) = "str" /\ f # "key"
  BY <1>0, AtAField, TypeFacts DEF ConfigInv, Busy
<1>2. /\ v \in Bytes /\ v.pad = 0 /\ (f = "agtuuid" => v.tail = {})
      /\ Received(f, v) = v /\ CString(v) = v
  BY <1>1, DefaultIs DEF FieldOK, ConsoleField
<1>4. v = IF Started(o) THEN Decoded(f, nvs[f]) ELSE DefaultOf(f)
  <2>1. Started(o) => Decoded(f, nvs[f]) = v
    BY <1>0, <1>1, DecodedNothing DEF Has
  <2> QED
    BY <2>1
<1>3. Held(f, v, window[o][f], Started(o))
  <2>1. CASE Started(o)
    <3>1. Decoded(f, nvs[f]) = v
      BY <1>0, <1>1, <2>1, DecodedNothing DEF Has
    <3> HIDE DEF f, v
    <3> QED
      BY <1>1, <1>2, <2>1, <3>1, HeldNow
  <2>2. CASE ~Started(o)
    BY <1>1, <2>2, HeldDefault
  <2> QED
    BY <2>1, <2>2
<1> HIDE DEF v
<1> QED
  BY <1>0, <1>1, <1>2, <1>3, <1>4, LoadedInv

LEMMA LoadKeyInv ==
  ASSUME ConfigInv, NEW o \in Handles, LoadKey(o)
  PROVE  ConfigInv'
<1> DEFINE v == IF GetBytesLen(o, "key", KeySize) = KeySize THEN ValueOf("key") ELSE DefaultKey
<1>0. AtField(o, "load") /\ FieldAt(o) = "key" /\ Loaded(o, v)
  BY DEF LoadKey
<1>1. "key" \in FieldNames /\ Busy(o) /\ TypeOf("key") = "blob"
  BY <1>0, AtAField, TypeFacts DEF ConfigInv, Busy
<1>2. /\ DefaultOf("key") = DefaultKey /\ DefaultKey \in Bytes /\ DefaultKey.pad = 0
      /\ DefaultKey.len = KeySize
  <2>1. DefaultOf("key") = DefaultKey
    BY DEF DefaultOf, Flags
  <2> QED
    BY <1>1, <2>1, DefaultIs DEF FieldOK, ConsoleField
<1>3. CASE GetBytesLen(o, "key", KeySize) = KeySize
  <2>1. Started(o) /\ Has("key", "blob") /\ ValueOf("key").len = KeySize
    BY <1>3, Sizes DEF GetBytesLen, BlobFits
  <2>2. PICK i \in nvs["key"] : i.type = "blob"
    BY <2>1 DEF Has
  <2>3. /\ i.value \in Bytes /\ i.value.pad = 0 /\ i.value.len = KeySize /\ IsCell(nvs["key"])
        /\ ValueOf("key") = i.value
    BY <1>1, <2>1, <2>2, StoredField DEF Kept
  <2>4. Decoded("key", nvs["key"]) = i.value /\ Received("key", i.value) = i.value
        /\ CString(i.value) = i.value
    BY <1>1, <2>2, <2>3, DecodedItem, CStringIs DEF Received
  <2>5. v = i.value
    BY <1>3, <2>3
  <2> HIDE DEF v
  <2>6. Held("key", v, window[o]["key"], Started(o))
    BY <1>1, <2>1, <2>4, <2>5, HeldNow
  <2> QED
    BY <1>0, <2>1, <2>3, <2>4, <2>5, <2>6, LoadedInv
<1>4. CASE GetBytesLen(o, "key", KeySize) # KeySize
  <2>1. v = DefaultKey /\ Received("key", v) = DefaultKey /\ CString(DefaultKey) = DefaultKey
    BY <1>2, <1>4, CStringIs DEF Received
  <2> HIDE DEF v
  <2>2. /\ Held("key", DefaultKey, window[o]["key"], Started(o))
        /\ DefaultKey = IF Started(o) THEN Decoded("key", nvs["key"]) ELSE DefaultOf("key")
    <3>1. CASE Started(o)
      <4>1. \A i \in nvs["key"] : ~(i.type = "blob" /\ i.value.len = KeySize)
        <5>1. ASSUME NEW i \in nvs["key"], i.type = "blob", i.value.len = KeySize PROVE FALSE
          <6>1. Has("key", "blob") /\ ValueOf("key").len = KeySize
            BY <1>1, <5>1, StoredField
          <6> QED
            BY <6>1, <3>1, <1>4, Sizes DEF GetBytesLen, BlobFits
        <5> QED
          BY <5>1
      <4>2. Decoded("key", nvs["key"]) = DefaultKey
        <5>1. CASE nvs["key"] = {}
          BY <5>1, <1>2, DecodedNothing
        <5>2. ASSUME NEW i \in nvs["key"] PROVE Decoded("key", nvs["key"]) = DefaultKey
          BY <4>1, <1>1, <1>2, StoredField, DecodedItem
        <5> QED
          BY <5>1, <5>2
      <4> QED
        BY <1>1, <2>1, <3>1, <4>2, HeldNow
    <3>2. CASE ~Started(o)
      BY <1>1, <1>2, <3>2, HeldDefault
    <3> QED
      BY <3>1, <3>2
  <2> QED
    BY <1>0, <1>2, <2>1, <2>2, LoadedInv
<1> QED
  BY <1>3, <1>4

LEMMA LoadFlagInv ==
  ASSUME ConfigInv, NEW o \in Handles, LoadFlag(o)
  PROVE  ConfigInv'
<1> DEFINE f == FieldAt(o)
           v == GetScalar(o, f, "u8", Off)
<1>0. AtField(o, "load") /\ f \in Flags /\ Loaded(o, v)
  BY DEF LoadFlag
<1>1. /\ f \in FieldNames /\ Busy(o) /\ TypeOf(f) = "u8" /\ f # "key" /\ f # "agtuuid"
  BY <1>0, AtAField, TypeFacts DEF ConfigInv, Busy, Flags
<1>2. /\ DefaultOf(f) = Off /\ Off \in Bytes /\ Off.pad = 0 /\ CString(Off) = Off
  <2>1. DefaultOf(f) = Off
    BY <1>0, <1>1 DEF DefaultOf
  <2> QED
    BY <1>1, <2>1, DefaultIs DEF FieldOK, ConsoleField
<1>3. Received(f, v) = v
  BY <1>1 DEF Received
<1>4. CASE Started(o) /\ Has(f, "u8")
  <2>1. PICK i \in nvs[f] : i.type = "u8"
    BY <1>4 DEF Has
  <2>2. i.value \in Bytes /\ i.value.pad = 0 /\ IsCell(nvs[f]) /\ ValueOf(f) = i.value
    BY <1>1, <2>1, StoredField DEF Kept
  <2>3. v = i.value
    BY <1>4, <2>2 DEF GetScalar
  <2> HIDE DEF f, v
  <2>4. Decoded(f, nvs[f]) = v /\ CString(v) = v
    BY <1>1, <2>1, <2>2, <2>3, DecodedItem, CStringIs DEF Received
  <2>5. Held(f, v, window[o][f], Started(o))
    BY <1>1, <1>4, <2>4, HeldNow
  <2> QED
    BY <1>0, <1>1, <1>3, <1>4, <2>2, <2>3, <2>4, <2>5, LoadedInv DEF f
<1>5. CASE ~(Started(o) /\ Has(f, "u8"))
  <2>1. v = Off
    BY <1>5 DEF GetScalar
  <2> HIDE DEF f, v
  <2>2. /\ Held(f, v, window[o][f], Started(o))
        /\ v = IF Started(o) THEN Decoded(f, nvs[f]) ELSE DefaultOf(f)
    <3>1. CASE Started(o)
      <4>1. Decoded(f, nvs[f]) = v
        BY <1>1, <1>2, <1>5, <2>1, <3>1, DecodedNothing DEF Has
      <4> QED
        BY <1>1, <1>2, <2>1, <3>1, <4>1, HeldNow
    <3>2. CASE ~Started(o)
      BY <1>1, <1>2, <2>1, <3>2, HeldDefault
    <3> QED
      BY <3>1, <3>2
  <2> QED
    BY <1>0, <1>1, <1>2, <1>3, <2>1, <2>2, LoadedInv DEF f
<1> QED
  BY <1>4, <1>5
-----------------------------------------------------------------------------

LEMMA DestroyInv ==
  ASSUME ConfigInv, NEW o \in Handles, Destroy(o)
  PROVE  ConfigInv'
<1>1. /\ handle' \in [Handles -> HandleStates]
      /\ \A p \in Handles : handle'[p].started => handle[p].started
      /\ \A p \in Handles : p # o => handle'[p] = handle[p]
  BY DEF Destroy, AfterEnd, ConfigInv, NvsOK, KVInv, Opened, HandleStates
<1>2. /\ job[o] = Idle
      /\ UNCHANGED <<nvs, flashUp, image, job, printed, target, before, outcome, found,
                      window, budget>>
  BY DEF Destroy
<1>3. NvsOK'
  BY <1>1, <1>2 DEF ConfigInv, NvsOK, KVInv, Opened, Started, Stored
<1>4. JobsOK'
  <2>1. ASSUME NEW p \in Handles PROVE JobOK(p)'
    <3>1. CASE p = o
      BY <3>1, <1>2, IdleIs DEF JobOK
    <3>2. CASE p # o
      BY <3>2, <1>1, <1>2, SameJob DEF ConfigInv, JobsOK, Started
    <3> QED
      BY <3>1, <3>2
  <2> QED
    BY <1>2, <2>1 DEF ConfigInv, JobsOK
<1>5. WindowsOK'
  BY <1>1, <1>2 DEF ConfigInv, WindowsOK, Busy, Started
<1>6. LoadsOK'
  <2>1. ASSUME NEW p \in Readers, NEW i \in DOMAIN Fields, Done(p, i)'
        PROVE  Held(Fields[i], image[p][Fields[i]], window[p][Fields[i]], Started(p))'
    <3>0. p \in Handles
      BY DEF Readers
    <3> QED
      BY <3>0, <2>1, <1>1, <1>2, SameLoads DEF Started, ConfigInv
  <2> QED
    BY <2>1 DEF LoadsOK
<1>7. ImageOK' /\ SavesOK' /\ RestOK'
  BY <1>2, SameSaves DEF ConfigInv, ImageOK, RestOK
<1>8. FoundOK'
  <2>1. ASSUME NEW p \in Handles PROVE FoundFrom(p)'
    <3>1. Busy(p) => p # o
      BY <1>2, IdleIs DEF Busy
    <3> QED
      BY <3>1, <1>1, <1>2, SameFound DEF ConfigInv, FoundOK, JobsOK, Started
  <2> QED
    BY <2>1, <1>1, <1>2, ConsoleIs DEF ConfigInv, FoundOK, Started
<1> QED
  BY <1>3, <1>4, <1>5, <1>6, <1>7, <1>8 DEF ConfigInv

LEMMA StartLoadInv ==
  ASSUME ConfigInv, NEW o \in Handles, StartLoad(o)
  PROVE  ConfigInv'
<1>1. /\ o # Console /\ job' = [job EXCEPT ![o] = Loading(0)]
      /\ budget.loads < MaxLoads /\ budget' = [budget EXCEPT !.loads = @ + 1]
      /\ found' = [found EXCEPT ![o] = "none"]
      /\ UNCHANGED <<nvs, handle, flashUp, image, printed, target, before, outcome, window>>
  BY DEF StartLoad, Readers
<1>2. /\ job' \in [Handles -> Jobs]
      /\ job'[o].kind = "load" /\ job'[o].at = 0 /\ job'[o].len = {} /\ job'[o] = Loading(0)
      /\ \A p \in Handles : p # o => job'[p] = job[p]
  BY <1>1, LoadingIs DEF ConfigInv, JobsOK
<1>3. JobsOK'
  <2>1. ASSUME NEW p \in Handles PROVE JobOK(p)'
    <3>1. CASE p = o
      BY <3>1, <1>2 DEF JobOK
    <3>2. CASE p # o
      BY <3>2, <1>1, <1>2, SameJob DEF ConfigInv, JobsOK, Started
    <3> QED
      BY <3>1, <3>2
  <2> QED
    BY <1>2, <2>1 DEF JobsOK
<1>4. WindowsOK'
  <2>1. \A p \in Handles : Busy(p)' => Busy(p)
    BY <1>2 DEF Busy
  <2> QED
    BY <1>1, <2>1, SameWindows DEF ConfigInv
<1>5. LoadsOK'
  <2>1. ASSUME NEW p \in Readers, NEW i \in DOMAIN Fields, Done(p, i)'
        PROVE  Held(Fields[i], image[p][Fields[i]], window[p][Fields[i]], Started(p))'
    <3>0. p \in Handles
      BY DEF Readers
    <3>1. CASE p = o
      BY <3>1, <2>1, <1>2, LoadingIs, FieldFacts DEF Done
    <3>2. CASE p # o
      BY <3>0, <3>2, <2>1, <1>1, <1>2, SameLoads DEF Started, ConfigInv
    <3> QED
      BY <3>1, <3>2
  <2> QED
    BY <2>1 DEF LoadsOK
<1>6. SavesOK'
  BY <1>1, <1>2, ConsoleIs, SameSaves DEF ConfigInv
<1>7. RestOK'
  <2>1. budget \in Budgets /\ budget.loads \in 0..MaxLoads /\ (budget.loads < MaxLoads)
    BY <1>1 DEF ConfigInv, RestOK, Budgets
  <2>2. budget.loads + 1 \in 0..MaxLoads
    BY <2>1, BoundsAreNat
  <2>3. budget' \in Budgets
    BY <1>1, <2>1, <2>2 DEF Budgets
  <2> QED
    BY <1>1, <2>3 DEF ConfigInv, RestOK
<1>8. NvsOK' /\ ImageOK'
  BY <1>1, SameStore DEF ConfigInv, ImageOK
<1>9. FoundOK'
  <2>1. /\ found' \in [Handles -> Outcomes \cup {"closed"}] /\ found'[o] \notin Known
        /\ \A p \in Handles : p # o => found'[p] = found[p]
    BY <1>1 DEF ConfigInv, FoundOK, Outcomes, Known
  <2>2. ASSUME NEW p \in Handles, p # o PROVE FoundFrom(p)'
    BY <2>1, <2>2, <1>1, <1>2, SameFound DEF ConfigInv, FoundOK, JobsOK, Started
  <2>3. FoundFrom(o)'
    BY <2>1 DEF FoundFrom
  <2> QED
    BY <2>1, <2>2, <2>3, <1>1, <1>2, ConsoleIs DEF ConfigInv, FoundOK, Started
<1> QED
  BY <1>3, <1>4, <1>5, <1>6, <1>7, <1>8, <1>9 DEF ConfigInv

\* What set makes of a typed value fits the field.
LEMMA AssignedIs ==
  ASSUME NEW f \in FieldNames, NEW v, Given(f, v)
  PROVE  FieldOK(f, Assigned(f, v)) /\ ConsoleField(f, Assigned(f, v))
<1>1. v \in Bytes /\ v.tail = {} /\ v.pad = 0 /\ (f = "key" => v.len = KeySize)
  BY DEF Given
<1>2. CASE f # "agtuuid"
  BY <1>1, <1>2 DEF Assigned, FieldOK, ConsoleField
<1>3. CASE f = "agtuuid" /\ v.len < UuidSize - 1
  <2>1. Assigned(f, v) = v
    BY <1>1, <1>3, CStringIs DEF Assigned, Cut
  <2> QED
    BY <1>1, <1>3, <2>1, Sizes DEF FieldOK, ConsoleField, Bytes
<1>4. CASE f = "agtuuid" /\ ~(v.len < UuidSize - 1)
  <2>1. v.text \in Texts /\ UuidSize - 1 \in Nat /\ UuidSize - 1 <= UuidSize
    BY <1>1, Sizes DEF Bytes
  <2>2. Assigned(f, v) = Plain(v.text, UuidSize - 1)
    BY <1>4 DEF Assigned, Cut
  <2> QED
    BY <1>4, <2>1, <2>2, PlainIs DEF FieldOK, ConsoleField
<1> QED
  BY <1>2, <1>3, <1>4

LEMMA CmdSetInv ==
  ASSUME ConfigInv, NEW f \in DOMAIN Edits, NEW v \in Edits[f], CmdSet(f, v)
  PROVE  ConfigInv'
<1> DEFINE w == Assigned(f, v)
<1>1. f \in FieldNames /\ Given(f, v)
  BY ConfigAssumption
<1>2. FieldOK(f, w) /\ ConsoleField(f, w)
  BY <1>1, AssignedIs
<1>3. /\ job[Console] = Idle /\ image' = [image EXCEPT ![Console][f] = w]
      /\ printed' = "set OK" /\ budget.edits < MaxEdits
      /\ budget' = [budget EXCEPT !.edits = @ + 1]
      /\ found' = [found EXCEPT ![Console] = "none"]
      /\ UNCHANGED <<nvs, handle, flashUp, job, target, before, outcome, window>>
  BY DEF CmdSet, Prompt
<1> HIDE DEF w
<1>4. ImageOK' /\ \A p \in Handles : p # Console => image'[p] = image[p]
  BY <1>1, <1>2, <1>3, ConsoleIs DEF ConfigInv, ImageOK, Images, FieldOK
<1>5. JobsOK'
  BY <1>3, SameJob DEF ConfigInv, JobsOK, Started
<1>6. WindowsOK'
  BY <1>3, SameWindows DEF ConfigInv, Busy
<1>7. LoadsOK'
  <2>1. ASSUME NEW p \in Readers, NEW i \in DOMAIN Fields, Done(p, i)'
        PROVE  Held(Fields[i], image[p][Fields[i]], window[p][Fields[i]], Started(p))'
    <3>0. p \in Handles /\ p # Console
      BY DEF Readers
    <3> QED
      BY <3>0, <2>1, <1>3, <1>4, SameLoads DEF Started, ConfigInv
  <2> QED
    BY <2>1 DEF LoadsOK
<1>8. SavesOK'
  BY <1>3, IdleIs, SameSaves DEF ConfigInv
<1>9. RestOK'
  <2>1. budget \in Budgets /\ budget.edits \in 0..MaxEdits /\ (budget.edits < MaxEdits)
    BY <1>3 DEF ConfigInv, RestOK, Budgets
  <2>2. budget.edits + 1 \in 0..MaxEdits
    BY <2>1, BoundsAreNat
  <2>3. budget' \in Budgets
    BY <1>3, <2>1, <2>2 DEF Budgets
  <2> QED
    BY <1>3, <2>3 DEF ConfigInv, RestOK
<1>10. NvsOK'
  BY <1>3, SameStore DEF ConfigInv
<1>11. FoundOK'
  <2>1. /\ found' \in [Handles -> Outcomes \cup {"closed"}] /\ found'[Console] \notin Known
        /\ \A p \in Handles : p # Console => found'[p] = found[p]
    BY <1>3, ConsoleIs DEF ConfigInv, FoundOK, Outcomes, Known
  <2>2. ASSUME NEW p \in Handles, p # Console PROVE FoundFrom(p)'
    BY <2>1, <2>2, <1>3, <1>4, SameFound DEF ConfigInv, FoundOK, JobsOK, Started
  <2>3. FoundFrom(Console)'
    BY <2>1 DEF FoundFrom
  <2> QED
    BY <2>1, <2>2, <2>3, <1>3 DEF ConfigInv, FoundOK, Started
<1> QED
  BY <1>4, <1>5, <1>6, <1>7, <1>8, <1>9, <1>10, <1>11 DEF ConfigInv

LEMMA CmdSaveInv ==
  ASSUME ConfigInv, CmdSave
  PROVE  ConfigInv'
<1>1. /\ job[Console] = Idle /\ job' = [job EXCEPT ![Console] = Saving(1)]
      /\ target' = image[Console] /\ before' = NvsImage /\ outcome' = "writing"
      /\ found' = Unread /\ printed' = "nothing" /\ budget.saves < MaxSaves
      /\ budget' = [budget EXCEPT !.saves = @ + 1]
      /\ UNCHANGED <<nvs, handle, flashUp, image, window>>
  BY DEF CmdSave, Prompt
<1>2. /\ job' \in [Handles -> Jobs] /\ job'[Console] = Saving(1) /\ job'[Console].kind = "save"
      /\ job'[Console].at = 1 /\ job'[Console].len = {}
      /\ \A p \in Handles : p # Console => job'[p] = job[p]
  BY <1>1, SavingIs, ConsoleIs DEF ConfigInv, JobsOK
<1>3. JobsOK'
  <2>1. ASSUME NEW p \in Handles PROVE JobOK(p)'
    <3>1. CASE p = Console
      BY <3>1, <1>2 DEF JobOK
    <3>2. CASE p # Console
      BY <3>2, <1>1, <1>2, SameJob DEF ConfigInv, JobsOK, Started
    <3> QED
      BY <3>1, <3>2
  <2> QED
    BY <1>2, <2>1 DEF JobsOK
<1>4. WindowsOK'
  <2>1. \A p \in Handles : Busy(p)' => Busy(p)
    BY <1>2 DEF Busy
  <2> QED
    BY <1>1, <2>1, SameWindows DEF ConfigInv
<1>5. LoadsOK'
  <2>1. ASSUME NEW p \in Readers, NEW i \in DOMAIN Fields, Done(p, i)'
        PROVE  Held(Fields[i], image[p][Fields[i]], window[p][Fields[i]], Started(p))'
    <3>0. p \in Handles /\ p # Console
      BY DEF Readers
    <3> QED
      BY <3>0, <2>1, <1>1, <1>2, SameLoads DEF Started, ConfigInv
  <2> QED
    BY <2>1 DEF LoadsOK
<1>6. SavesOK'
  <2>1. target' \in Images /\ before' \in Images
    BY <1>1, ConsoleIs, NvsImageIs DEF ConfigInv, ImageOK
  <2>2. \A i \in DOMAIN Fields : ~(i < 1) /\ Decoded(Fields[i], nvs[Fields[i]]) = NvsImage[Fields[i]]
    BY FieldFacts, NvsImageIs DEF ConfigInv
  <2> QED
    BY <1>1, <1>2, <2>1, <2>2 DEF SavesOK, Outcomes
<1>7. RestOK'
  <2>1. budget \in Budgets /\ budget.saves \in 0..MaxSaves /\ (budget.saves < MaxSaves)
    BY <1>1 DEF ConfigInv, RestOK, Budgets
  <2>2. budget.saves + 1 \in 0..MaxSaves
    BY <2>1, BoundsAreNat
  <2>3. budget' \in Budgets
    BY <1>1, <2>1, <2>2 DEF Budgets
  <2> QED
    BY <1>1, <2>3 DEF ConfigInv, RestOK
<1>8. NvsOK' /\ ImageOK'
  BY <1>1, SameStore DEF ConfigInv, ImageOK
<1>9. FoundOK'
  BY <1>1 DEF FoundOK, FoundFrom, Unread, Known, Outcomes
<1> QED
  BY <1>3, <1>4, <1>5, <1>6, <1>7, <1>8, <1>9 DEF ConfigInv

\* One put of a save: the field comes back as it was written, the others stay,
\* and every load under way sees the new item beside the old one.
LEMMA SaveFieldInv ==
  ASSUME ConfigInv, SaveField
  PROVE  ConfigInv'
<1> DEFINE f == FieldAt(Console)
           at == job[Console].at
           last == at = Len(Fields)
           c == image[Console]
           item == [type |-> TypeOf(f), value |-> Written(f, c)]
<1>1. /\ job[Console] \in Jobs /\ job[Console].kind = "save" /\ job[Console] # Idle
      /\ at \in 1..7 /\ f \in FieldNames /\ f = Fields[at] /\ f \in Names
      /\ TypeOf(f) \in ItemTypes
  BY AtAField, ConsoleIs, TypeFacts DEF ConfigInv, SaveField
<1>2. PICK ok \in BOOLEAN :
        /\ ok \/ budget.failures < MaxPutFailures
        /\ nvs' = AfterPut(Console, f, TypeOf(f), Written(f, c), ok)
        /\ budget' = [budget EXCEPT !.failures = IF ok THEN @ ELSE @ + 1]
        /\ job' = [job EXCEPT ![Console] = IF last THEN Idle ELSE Saving(@.at + 1)]
        /\ printed' = IF last THEN "save OK" ELSE printed
        /\ outcome' = IF outcome = "writing" /\ ~Accepts(Console, ok) THEN "failed"
                      ELSE IF outcome = "writing" /\ last THEN "done" ELSE outcome
  BY DEF SaveField
<1>3. Watch(nvs') /\ UNCHANGED <<handle, flashUp, image, target, before, found>>
  BY DEF SaveField
<1>4. /\ c \in Images /\ FieldOK(f, c[f]) /\ ConsoleField(f, c[f])
  BY <1>1, ConsoleIs DEF ConfigInv, ImageOK
<1>5. /\ Written(f, c) \in Bytes /\ Kept(f, Written(f, c))
      /\ Decoded(f, {item}) = c[f]
  BY <1>1, <1>4, ReadBack
<1>6. Stored(nvs) /\ Stored(nvs')
  <2>1. Stored(nvs) /\ (TypeOf(f) = "str" => Written(f, c).pad = 0)
    BY <1>5 DEF ConfigInv, NvsOK, KVInv, Kept
  <2> HIDE DEF f, c
  <2> QED
    BY <1>1, <1>2, <1>5, <2>1, PutStored
<1>7. \/ Accepts(Console, ok) /\ nvs' = [nvs EXCEPT ![f] = {item}]
      \/ ~Accepts(Console, ok) /\ nvs' = nvs
  BY <1>2 DEF AfterPut
<1>8. item.value = Written(f, c)
  OBVIOUS
<1>9. Len(Fields) = 7 /\ DOMAIN Fields = 1..7
  BY FieldFacts
<1> HIDE DEF f, c, item
<1>10. /\ job'[Console] = IF at = 7 THEN Idle ELSE Saving(at + 1)
       /\ job' \in [Handles -> Jobs] /\ job'[Console].len = {}
       /\ job'[Console].kind # "load"
       /\ \A p \in Handles : p # Console => job'[p] = job[p]
  <2>1. at # 7 => at + 1 \in 0..7
    BY <1>1
  <2>2. job'[Console] = IF at = 7 THEN Idle ELSE Saving(at + 1)
    BY <1>2, <1>9, ConsoleIs DEF ConfigInv, JobsOK
  <2>3. job'[Console] \in Jobs /\ job'[Console].len = {} /\ job'[Console].kind # "load"
    BY <2>1, <2>2, IdleIs, SavingIs
  <2> QED
    BY <1>2, <2>2, <2>3, ConsoleIs DEF ConfigInv, JobsOK
<1>11. NvsOK'
  <2>1. \A k \in Names : \A i \in nvs'[k] : Kept(k, i.value)
    <3>1. ASSUME NEW k \in Names, NEW i \in nvs'[k] PROVE Kept(k, i.value)
      <4>1. CASE k = f /\ nvs' = [nvs EXCEPT ![f] = {item}]
        <5>1. i = item
          BY <4>1, <1>1, <1>6 DEF Stored
        <5> QED
          BY <4>1, <5>1, <1>5, <1>8
      <4>2. CASE nvs'[k] = nvs[k]
        BY <4>2 DEF ConfigInv, NvsOK
      <4> QED
        BY <4>1, <4>2, <1>7, <1>6 DEF Stored
    <3> QED
      BY <3>1
  <2> QED
    BY <2>1, <1>3, <1>6 DEF ConfigInv, NvsOK, KVInv, Opened, Started
<1>12. \A p \in Handles :
         /\ job[p].kind = "load" =>
              /\ window'[p] \in [FieldNames -> SUBSET SUBSET Items]
              /\ \A g \in FieldNames : window'[p][g] = window[p][g] \cup {nvs'[g]}
         /\ job[p].kind # "load" => window'[p] = window[p]
  <2>1. ASSUME NEW p \in Handles, job[p].kind = "load"
        PROVE  /\ window'[p] \in [FieldNames -> SUBSET SUBSET Items]
               /\ \A g \in FieldNames : window'[p][g] = window[p][g] \cup {nvs'[g]}
    <3>1. window'[p] = [g \in FieldNames |-> window[p][g] \cup {nvs'[g]}]
      BY <2>1, <1>3 DEF Watch
    <3>2. \A g \in FieldNames : nvs'[g] \in SUBSET Items
                              /\ window[p][g] \in SUBSET SUBSET Items
      BY <1>6, TypeFacts DEF Stored, ConfigInv, WindowsOK
    <3> QED
      BY <3>1, <3>2
  <2> QED
    BY <2>1, <1>3 DEF Watch
<1>13. JobsOK'
  <2>1. ASSUME NEW p \in Handles PROVE JobOK(p)'
    <3>1. CASE p = Console
      <4>1. CASE at = 7
        BY <3>1, <4>1, <1>10, IdleIs DEF JobOK
      <4>2. CASE at # 7
        <5>1. at + 1 \in 0..7 /\ at + 1 >= 1
          BY <4>2, <1>1
        <5> HIDE DEF at
        <5>2. job'[Console].kind = "save" /\ job'[Console] = Saving(job'[Console].at)
              /\ job'[Console].at >= 1
          BY <4>2, <5>1, <1>10, SavingIs
        <5> QED
          BY <3>1, <5>2, <1>10 DEF JobOK
      <4> QED
        BY <4>1, <4>2
    <3>2. CASE p # Console
      <4>1. JobOK(p) /\ job'[p] = job[p] /\ (Started(p) => Started(p)')
        BY <3>2, <1>3, <1>10 DEF ConfigInv, JobsOK, Started
      <4>2. CASE job[p].len = {}
        BY <4>1, <4>2, SameJob
      <4>3. CASE job[p].len # {}
        <5>1. /\ job[p].kind = "load" /\ job[p].at \in 1..7
              /\ FieldAt(p) \in FieldNames /\ FieldAt(p)' = FieldAt(p)
          BY <4>1, <4>3, FieldFacts DEF JobOK, JobsOK, ConfigInv, Jobs, FieldAt
        <5>2. window[p][FieldAt(p)] \subseteq window'[p][FieldAt(p)]
          BY <5>1, <1>12
        <5> QED
          BY <3>2, <4>1, <4>3, <5>1, <5>2 DEF JobOK
      <4> QED
        BY <4>2, <4>3
    <3> QED
      BY <3>1, <3>2
  <2> QED
    BY <1>10, <2>1 DEF JobsOK
<1>14. WindowsOK'
  <2>1. window' \in [Handles -> [FieldNames -> SUBSET SUBSET Items]]
    <3>1. \A p \in Handles : window'[p] \in [FieldNames -> SUBSET SUBSET Items]
      BY <1>12 DEF ConfigInv, WindowsOK
    <3>2. window' = [p \in Handles |-> window'[p]]
      BY <1>3 DEF Watch
    <3> QED
      BY <3>1, <3>2
  <2>2. ASSUME NEW p \in Handles, NEW g \in FieldNames
        PROVE  /\ \A cell \in window'[p][g] : IsCell(cell) /\ \A i \in cell : Kept(g, i.value)
               /\ Busy(p)' => window'[p][g] # {} /\ nvs'[g] \in window'[p][g]
    <3>1. IsCell(nvs'[g]) /\ \A i \in nvs'[g] : Kept(g, i.value)
      BY <1>6, <1>11, TypeFacts DEF Stored, NvsOK
    <3>2. \A cell \in window'[p][g] : cell \in window[p][g] \/ cell = nvs'[g]
      BY <1>12
    <3>3. Busy(p)' => job[p].kind = "load"
      BY <1>10 DEF Busy
    <3>4. Busy(p)' => nvs'[g] \in window'[p][g]
      BY <3>3, <1>12
    <3> QED
      BY <3>1, <3>2, <3>4 DEF ConfigInv, WindowsOK
  <2> QED
    BY <2>1, <2>2 DEF WindowsOK
<1>15. LoadsOK'
  <2>1. ASSUME NEW p \in Readers, NEW i \in DOMAIN Fields, Done(p, i)'
        PROVE  Held(Fields[i], image[p][Fields[i]], window[p][Fields[i]], Started(p))'
    <3>0. p \in Handles /\ p # Console
      BY DEF Readers
    <3>1. CASE job[p].kind # "load"
      BY <3>0, <3>1, <2>1, <1>3, <1>10, <1>12, SameLoads DEF Started, ConfigInv
    <3>2. CASE job[p].kind = "load"
      <4>1. job[p] # Idle /\ i < job[p].at /\ i \in 1..7 /\ Fields[i] \in FieldNames
        BY <3>0, <3>2, <2>1, <1>9, <1>10, IdleIs, FieldFacts DEF Done
      <4>2. Busy(p) /\ Done(p, i)
        BY <3>0, <3>2, <4>1 DEF Busy, Done, ConfigInv, JobsOK, Jobs
      <4>3. window[p][Fields[i]] # {}
        BY <3>0, <4>1, <4>2 DEF ConfigInv, WindowsOK
      <4>4. Held(Fields[i], image[p][Fields[i]], window[p][Fields[i]], Started(p))
        BY <4>2 DEF ConfigInv, LoadsOK
      <4>5. window'[p][Fields[i]] = window[p][Fields[i]] \cup {nvs'[Fields[i]]}
        BY <3>0, <3>2, <4>1, <1>12
      <4>6. image'[p] = image[p] /\ (Started(p)' <=> Started(p))
        BY <1>3 DEF Started
      <4>7. ASSUME NEW cell \in window'[p][Fields[i]], window'[p][Fields[i]] = {cell}
            PROVE  window[p][Fields[i]] = {cell}
        BY <4>7, <4>3, <4>5
      <4> DEFINE g == Fields[i]
                 old == window[p][g]
                 new == window'[p][g]
      <4>8. CString(image[p][g]) \in {Decoded(g, cell) : cell \in new} \cup {DefaultOf(g)}
        BY <4>3, <4>4, <4>5 DEF Held
      <4>9. \A cell \in new : new = {cell} /\ Started(p) => image[p][g] = Decoded(g, cell)
        BY <4>3, <4>4, <4>7 DEF Held
      <4> HIDE DEF g, old, new
      <4> QED
        BY <4>6, <4>8, <4>9 DEF Held, g, new
    <3> QED
      BY <3>1, <3>2
  <2> QED
    BY <2>1 DEF LoadsOK
<1>16. SavesOK'
  <2>1. CASE outcome' \in {"failed", "erased"}
    BY <2>1, <1>3 DEF ConfigInv, SavesOK, Outcomes
  <2>2. CASE ~Accepts(Console, ok) \/ outcome # "writing"
    BY <2>1, <2>2, <1>1, <1>2 DEF ConfigInv, SavesOK
  <2>3. CASE Accepts(Console, ok) /\ outcome = "writing"
    <3>1. image[Console] = target /\ image'[Console] = target'
      BY <2>3, <1>3 DEF ConfigInv, SavesOK
    <3>2. nvs' = [nvs EXCEPT ![f] = {item}] /\ nvs'[f] = {item}
      BY <2>3, <1>1, <1>6, <1>7 DEF Stored
    <3>3. \A i \in 1..7 : Decoded(Fields[i], nvs'[Fields[i]]) =
                          IF i < at \/ i = at THEN target[Fields[i]] ELSE before[Fields[i]]
      <4>1. ASSUME NEW i \in 1..7
            PROVE  Decoded(Fields[i], nvs'[Fields[i]]) =
                     IF i < at \/ i = at THEN target[Fields[i]] ELSE before[Fields[i]]
        <5>1. CASE i = at
          BY <5>1, <1>1, <1>5, <3>1, <3>2 DEF c
        <5>2. CASE i # at
          <6>1. Fields[i] # f /\ Fields[i] \in FieldNames
            BY <5>2, <1>1, FieldFacts
          <6>2. nvs'[Fields[i]] = nvs[Fields[i]]
            BY <6>1, <3>2, <1>6, TypeFacts DEF Stored
          <6> QED
            BY <5>2, <6>2, <2>3, <1>9 DEF ConfigInv, SavesOK
        <5> QED
          BY <5>1, <5>2
      <4> QED
        BY <4>1
    <3>4. CASE at = 7
      <4>1. outcome' = "done" /\ job'[Console].kind # "save"
        BY <2>3, <3>4, <1>2, <1>9, <1>10, IdleIs
      <4>2. NvsImage' = target
        <5>1. \A g \in FieldNames : Decoded(g, nvs'[g]) = target[g]
          <6>1. ASSUME NEW g \in FieldNames PROVE Decoded(g, nvs'[g]) = target[g]
            <7>1. PICK i \in 1..7 : Fields[i] = g
              BY FieldFacts
            <7>2. i < at \/ i = at
              BY <3>4
            <7> QED
              BY <7>1, <7>2, <3>3
          <6> QED
            BY <6>1
        <5>2. NvsImage' = [g \in FieldNames |-> target[g]]
          BY <5>1 DEF NvsImage
        <5> QED
          BY <5>2 DEF ConfigInv, SavesOK, Images
      <4> QED
        BY <4>1, <4>2, <1>3 DEF ConfigInv, SavesOK, Outcomes
    <3>5. CASE at # 7
      <4>1. outcome' = "writing"
        BY <2>3, <3>5, <1>2, <1>9
      <4>2. job'[Console].kind = "save" /\ job'[Console].at = at + 1
        <5>1. at + 1 \in 0..7
          BY <3>5, <1>1
        <5> QED
          BY <3>5, <5>1, <1>10, SavingIs
      <4>3. \A i \in 1..7 : i < at + 1 <=> (i < at \/ i = at)
        BY <1>1
      <4>4. \A i \in DOMAIN Fields :
              Decoded(Fields[i], nvs'[Fields[i]]) =
                IF i < job'[Console].at THEN target'[Fields[i]] ELSE before'[Fields[i]]
        BY <3>3, <4>2, <4>3, <1>3, <1>9
      <4> QED
        BY <3>1, <4>1, <4>2, <4>4, <1>3 DEF ConfigInv, SavesOK, Outcomes
    <3> QED
      BY <3>4, <3>5
  <2> QED
    BY <2>1, <2>2, <2>3
<1>17. RestOK'
  <2>1. budget \in Budgets /\ budget.failures \in 0..MaxPutFailures /\ (ok \/ budget.failures < MaxPutFailures)
    BY <1>2 DEF ConfigInv, RestOK, Budgets
  <2>2. budget.failures < MaxPutFailures => budget.failures + 1 \in 0..MaxPutFailures
    BY <2>1, BoundsAreNat
  <2>3. budget' \in Budgets
    BY <1>2, <2>1, <2>2 DEF Budgets
  <2> QED
    BY <1>2, <2>3 DEF ConfigInv, RestOK
<1>18. ImageOK'
  BY <1>3 DEF ConfigInv, ImageOK
<1>19. FoundOK'
  <2>1. /\ found' = found
        /\ outcome' = "erased" => outcome = "erased"
        /\ outcome # "writing" => outcome' = outcome
    BY <1>2, <1>3
  <2>2. outcome = "erased" => nvs' = nvs
    BY <1>1, <1>7 DEF ConfigInv, FoundOK, Accepts, Writable
  <2>3. ASSUME NEW p \in Handles PROVE FoundFrom(p)'
    <3>1. FoundFrom(p) /\ JobOK(p)
      BY DEF ConfigInv, FoundOK, JobsOK
    <3>2. CASE p = Console
      BY <3>1, <3>2, <2>1, <1>1 DEF FoundFrom
    <3>3. CASE p # Console
      <4>1. outcome # "done"
        BY <1>1 DEF ConfigInv, SavesOK
      <4>2. Busy(p) /\ found[p] \in Known /\ Started(p) => nvs' = nvs /\ outcome' = outcome
        BY <3>1, <4>1, <2>1, <2>2 DEF FoundFrom, Known
      <4> QED
        BY <3>1, <3>3, <4>2, <2>1, <1>3, <1>10, SameFound DEF Started
    <3> QED
      BY <3>2, <3>3
  <2> QED
    BY <2>1, <2>2, <2>3, <1>1, <1>3 DEF ConfigInv, FoundOK, Started
<1> QED
  BY <1>11, <1>13, <1>14, <1>15, <1>16, <1>17, <1>18, <1>19 DEF ConfigInv

LEMMA CrashInv ==
  ASSUME ConfigInv, Crash
  PROVE  ConfigInv'
<1>1. /\ handle' = [o \in Handles |-> Closed] /\ flashUp' = FALSE
      /\ job' = [o \in Handles |-> Loading(0)] /\ image' = [o \in Handles |-> Defaults]
      /\ printed' = "nothing" /\ window' = [o \in Handles |-> NoWindow]
      /\ outcome' = IF outcome = "writing" THEN "torn" ELSE outcome
      /\ found' = Unread
      /\ budget.crashes < MaxCrashes /\ budget' = [budget EXCEPT !.crashes = @ + 1]
      /\ UNCHANGED <<nvs, target, before>>
  BY DEF Crash
<1>2. NvsOK'
  BY <1>1 DEF ConfigInv, NvsOK, KVInv, Stored, Opened, Started, Closed, HandleStates
<1>3. ImageOK'
  BY <1>1, DefaultsImage, DefaultIs, ConsoleIs DEF ImageOK
<1>4. JobsOK'
  BY <1>1, LoadingIs DEF JobsOK, JobOK
<1>5. WindowsOK'
  BY <1>1, LoadingIs DEF WindowsOK, NoWindow, Busy
<1>6. LoadsOK'
  BY <1>1, LoadingIs, FieldFacts DEF LoadsOK, Done, Readers
<1>7. SavesOK'
  <2>1. NvsImage' = NvsImage
    BY <1>1 DEF NvsImage
  <2>2. job'[Console].kind # "save"
    BY <1>1, LoadingIs, ConsoleIs
  <2>3. outcome = "writing" => NvsImage["polling"] = before["polling"]
    <3>1. 7 \in DOMAIN Fields /\ Fields[7] = "polling" /\ "polling" \in FieldNames
      BY FieldFacts
    <3>2. ~(7 < job[Console].at)
      BY FieldFacts, ConsoleIs DEF ConfigInv, JobsOK, Jobs
    <3>3. NvsImage["polling"] = Decoded("polling", nvs["polling"])
      BY <3>1, NvsImageIs DEF ConfigInv
    <3> QED
      BY <3>1, <3>2, <3>3 DEF ConfigInv, SavesOK
  <2> QED
    BY <1>1, <2>1, <2>2, <2>3 DEF ConfigInv, SavesOK, Outcomes
<1>8. RestOK'
  <2>1. budget \in Budgets /\ budget.crashes \in 0..MaxCrashes /\ (budget.crashes < MaxCrashes)
    BY <1>1 DEF ConfigInv, RestOK, Budgets
  <2>2. budget.crashes + 1 \in 0..MaxCrashes
    BY <2>1, BoundsAreNat
  <2>3. budget' \in Budgets
    BY <1>1, <2>1, <2>2 DEF Budgets
  <2> QED
    BY <1>1, <2>3 DEF ConfigInv, RestOK
<1>9. FoundOK'
  <2>1. job'[Console].kind # "save"
    BY <1>1, LoadingIs, ConsoleIs
  <2> QED
    BY <2>1, <1>1 DEF ConfigInv, FoundOK, FoundFrom, Unread, Known, Outcomes
<1> QED
  BY <1>2, <1>3, <1>4, <1>5, <1>6, <1>7, <1>8, <1>9 DEF ConfigInv

LEMMA StutterInv ==
  ASSUME ConfigInv, UNCHANGED configVars
  PROVE  ConfigInv'
<1>1. UNCHANGED <<nvs, handle, flashUp, image, job, printed, target, before, outcome, found,
                  window, budget>>
  BY DEF configVars
<1>2. JobsOK'
  BY <1>1, SameJob DEF ConfigInv, JobsOK, Started
<1>3. WindowsOK'
  BY <1>1, SameWindows DEF ConfigInv, Busy
<1>4. LoadsOK'
  BY <1>1 DEF ConfigInv, LoadsOK, Done, Held, Started
<1>5. FoundOK'
  BY <1>1, SameFound DEF ConfigInv, FoundOK, JobsOK, Started
<1> QED
  BY <1>1, <1>2, <1>3, <1>4, <1>5, SameStore, SameSaves DEF ConfigInv, ImageOK, RestOK

\* The strengthened invariant of ConfigStore.
THEOREM ConfigInvHolds == ConfigSpec => []ConfigInv
<1>1. ConfigInv /\ [ConfigNext]_configVars => ConfigInv'
  <2> SUFFICES ASSUME ConfigInv, [ConfigNext]_configVars PROVE ConfigInv'
    OBVIOUS
  <2>1. CASE \E o \in Handles : LoadStep(o)
    BY <2>1, LoadBeginInv, LoadStringLengthInv, LoadStringDataInv, LoadStringMissingInv,
       LoadKeyInv, LoadFlagInv DEF LoadStep
  <2>2. CASE \E o \in Handles : Destroy(o) \/ StartLoad(o)
    BY <2>2, DestroyInv, StartLoadInv
  <2>3. CASE \E f \in DOMAIN Edits : \E v \in Edits[f] : CmdSet(f, v)
    BY <2>3, CmdSetInv
  <2>4. CASE CmdSave
    BY <2>4, CmdSaveInv
  <2>5. CASE SaveField
    BY <2>5, SaveFieldInv
  <2>6. CASE Crash
    BY <2>6, CrashInv
  <2>7. CASE UNCHANGED configVars
    BY <2>7, StutterInv
  <2> QED
    BY <2>1, <2>2, <2>3, <2>4, <2>5, <2>6, <2>7 DEF ConfigNext
<1> QED
  BY InitInv, <1>1, PTL DEF ConfigSpec

\* Every field of every Config has a value of its kind, and an agtuuid never
\* grows past its 36 bytes, whatever is typed and whatever NVS held.
THEOREM ConfigTypeCorrect == ConfigSpec => []ConfigTypeOK
<1>1. ConfigInv => ConfigTypeOK
  <2> SUFFICES ASSUME ConfigInv PROVE ConfigTypeOK
    OBVIOUS
  <2>1. KVTypeOK
    BY KVInvType DEF ConfigInv, NvsOK
  <2>2. \A o \in Handles : image[o]["agtuuid"].len <= UuidSize /\ image[o]["agtuuid"].tail = {}
    BY FieldFacts DEF ConfigInv, ImageOK, FieldOK
  <2> QED
    BY <2>1, <2>2 DEF ConfigInv, ConfigTypeOK, ImageOK, JobsOK, WindowsOK, SavesOK, FoundOK,
                     RestOK
<1> QED
  BY ConfigInvHolds, <1>1, PTL

\* A load returns the last save that was done, field by field, after any number of
\* resets and with any other loads beside it, unless a save overtakes it; only a
\* begin() that has erased the partition, or that did not open the load's own
\* object, gives anything else, and then all defaults.
THEOREM SavesSurvive == ConfigSpec => []SavedConfigSurvives
<1>1. ConfigInv => SavedConfigSurvives
  <2> SUFFICES ASSUME ConfigInv, NEW o \in Handles, job[o].kind # "load", found[o] \in Known
               PROVE  image[o] = Expected(o)
    BY DEF SavedConfigSurvives, Known, Expected
  <2>1. FoundFrom(o) /\ JobOK(o) /\ job[o] \in Jobs
    BY DEF ConfigInv, FoundOK, JobsOK
  <2>2. job[o] = Idle
    BY <2>1 DEF FoundFrom, JobOK, Jobs
  <2>3. \A f \in FieldNames : image[o][f] = Expected(o)[f]
    <3>1. ASSUME NEW f \in FieldNames PROVE image[o][f] = Expected(o)[f]
      <4>1. PICK i \in 1..7 : Fields[i] = f
        BY FieldFacts
      <4> QED
        BY <2>1, <2>2, <4>1, FieldFacts DEF FoundFrom, Done
    <3> QED
      BY <3>1
  <2>4. image[o] \in Images /\ Expected(o) \in Images
    BY DefaultsImage DEF ConfigInv, ImageOK, SavesOK, Expected
  <2> QED
    BY <2>3, <2>4 DEF Images
<1> QED
  BY ConfigInvHolds, <1>1, PTL

\* A save cut short by a reset does not turn polling on: it is written last.
THEOREM PollingIsLast == ConfigSpec => []PollingOnMeansComplete
<1>1. ConfigInv => PollingOnMeansComplete
  <2> SUFFICES ASSUME ConfigInv, outcome \in {"writing", "torn"}, before["polling"] = Off,
                      NvsImage["polling"] = On
               PROVE  FALSE
    BY DEF PollingOnMeansComplete
  <2>1. Off # On
    BY DEF Off, On, Plain
  <2>2. CASE outcome = "torn"
    BY <2>1, <2>2 DEF ConfigInv, SavesOK
  <2>3. CASE outcome = "writing"
    <3>1. 7 \in DOMAIN Fields /\ Fields[7] = "polling" /\ "polling" \in FieldNames
      BY FieldFacts
    <3>2. ~(7 < job[Console].at)
      BY FieldFacts, ConsoleIs DEF ConfigInv, JobsOK, Jobs
    <3>3. NvsImage["polling"] = Decoded("polling", nvs["polling"])
      BY <3>1, NvsImageIs DEF ConfigInv
    <3> QED
      BY <2>1, <2>3, <3>1, <3>2, <3>3 DEF ConfigInv, SavesOK
  <2> QED
    BY <2>2, <2>3
<1> QED
  BY ConfigInvHolds, <1>1, PTL

\* What a load returns, field by field, was in NVS while it ran, however many
\* saves, failing puts and other loads ran beside it.
THEOREM LoadsReturnHeld == ConfigSpec => []LoadedFieldsHeld
<1>1. ConfigInv => LoadedFieldsHeld
  <2> SUFFICES ASSUME ConfigInv, NEW o \in Readers, NEW i \in DOMAIN Fields,
                      Done(o, i), window[o][Fields[i]] # {}
               PROVE  /\ CString(image[o][Fields[i]]) \in
                           {Decoded(Fields[i], cell) : cell \in window[o][Fields[i]]}
                             \cup {DefaultOf(Fields[i])}
                      /\ \A cell \in window[o][Fields[i]] :
                           window[o][Fields[i]] = {cell} /\ Started(o) =>
                             image[o][Fields[i]] = Decoded(Fields[i], cell)
    BY DEF LoadedFieldsHeld
  <2>1. Held(Fields[i], image[o][Fields[i]], window[o][Fields[i]], Started(o))
    BY DEF ConfigInv, LoadsOK
  <2> QED
    BY <2>1 DEF Held
<1> QED
  BY ConfigInvHolds, <1>1, PTL
=============================================================================
