------------------------------ MODULE KVStore ------------------------------
(***************************************************************************)
(* KVStore (components/kvstore): a handle on a namespace of the NVS flash  *)
(* partition.  Several objects share the namespace, each used by one task. *)
(* One NVS call is atomic (external); getString makes two.                 *)
(***************************************************************************)
EXTENDS Integers, FiniteSets

CONSTANTS
  Names,      \* the keys of the namespace
  Handles,    \* the KVStore objects
  Texts       \* contents that values are made of

ASSUME KVAssumption == IsFiniteSet(Texts)

VARIABLES
  nvs,        \* the namespace: per key no item, or one typed item
  handle,     \* per object: is it started, is it read-only
  flashUp     \* nvs_flash_init has succeeded since boot

\* A value: the first len bytes of a text, the text that follows when it was
\* copied from a buffer without terminator, and trailing NULs.
Bytes == [text : Texts, len : Nat, tail : SUBSET Texts, pad : Nat]

Plain(text, len) == [text |-> text, len |-> len, tail |-> {}, pad |-> 0]

\* The NVS type and the width of the integer put and get methods.
Widths == [i8 |-> 1, u8 |-> 1, i16 |-> 2, u16 |-> 2, i32 |-> 4, u32 |-> 4,
           i64 |-> 8, u64 |-> 8]
ItemTypes == DOMAIN Widths \cup {"str", "blob"}
Items == [type : ItemTypes, value : Bytes]

Closed == [started |-> FALSE, readOnly |-> FALSE]

Started(o)  == handle[o].started
Writable(o) == Started(o) /\ ~handle[o].readOnly

Empty == [k \in Names |-> {}]

\* NVS finds an item of this type under this key.
Has(k, t) == \E i \in nvs[k] : i.type = t
ValueOf(k) == (CHOOSE i \in nvs[k] : TRUE).value

\* Mutant: a put through a read-only handle is not refused.
AcceptsAnyOpen(o, ok) == Started(o) /\ ok

\* The put goes through: the handle is writable and the flash works (ok).
Accepts(o, ok) == Writable(o) /\ ok

\* Mutant: an item of another type stays beside the new one, as NVS had it
\* before CONFIG_NVS_LEGACY_DUP_KEYS_COMPATIBILITY became an option.
AddedBeside(o, k, t, v, ok) ==
  IF Accepts(o, ok)
  THEN [nvs EXCEPT ![k] = {i \in @ : i.type /= t} \cup {[type |-> t, value |-> v]}]
  ELSE nvs

\* The namespace after a put of v, which replaces an item of any type.
AfterPut(o, k, t, v, ok) ==
  IF Accepts(o, ok) THEN [nvs EXCEPT ![k] = {[type |-> t, value |-> v]}] ELSE nvs

\* nvs_get_xxx leaves val at the default when it fails.
GetScalar(o, k, t, default) ==
  IF Started(o) /\ Has(k, t) THEN ValueOf(k) ELSE default

\* nvs_get_blob into a buffer of max bytes: what getBytes returns and, when
\* that is not 0, what the buffer starts with.
BlobFits(o, k, max) ==
  Started(o) /\ max > 0 /\ Has(k, "blob") /\ ValueOf(k).len <= max
GetBytesLen(o, k, max) == IF BlobFits(o, k, max) THEN ValueOf(k).len ELSE 0

\* isKey asks for an item of any type, getBytesLength for a blob.
IsKey(o, k) == Started(o) /\ nvs[k] /= {}
GetBytesLength(o, k) == IF Started(o) /\ Has(k, "blob") THEN ValueOf(k).len ELSE 0

\* The first nvs_get_str of getString finds a string.
FindsString(o, k) == Started(o) /\ Has(k, "str")

\* Length of a string without its terminator.
StrLen(v) == v.len + Cardinality(v.tail)

\* Mutant: the buffer is returned with its terminator.
UnstrippedString(k, len, default) ==
  IF Has(k, "str") /\ StrLen(ValueOf(k)) <= len
  THEN [ValueOf(k) EXCEPT !.pad = len - StrLen(ValueOf(k)) + 1]
  ELSE default

\* The second one, into a buffer for len characters and the terminator; the
\* last NUL is stripped.
ReadString(k, len, default) ==
  IF Has(k, "str") /\ StrLen(ValueOf(k)) <= len
  THEN [ValueOf(k) EXCEPT !.pad = len - StrLen(ValueOf(k))]
  ELSE default

\* Mutant: every begin() may find the partition full, also while the driver
\* runs, and erases it under the objects that have it open.
BeginErasesAgain(o, ro, h, store, up) ==
  IF Started(o) THEN h = handle /\ store = nvs /\ up = flashUp
  ELSE /\ store \in {nvs, Empty} /\ up = TRUE
       /\ \E opened \in BOOLEAN : h = [handle EXCEPT ![o] = [started |-> opened, readOnly |-> ro]]

\* begin(): what the handle, the partition and the flash driver can become.
\* The first nvs_flash_init may find the partition full or of a newer version
\* and erase it; init and open may fail.
BeginOutcome(o, ro, h, store, up) ==
  IF Started(o) THEN h = handle /\ store = nvs /\ up = flashUp
  ELSE /\ store \in IF flashUp THEN {nvs} ELSE {nvs, Empty}
       /\ \/ up = flashUp /\ ~up /\ h = [handle EXCEPT ![o] = [Closed EXCEPT !.readOnly = ro]]
          \/ up = TRUE /\ \E opened \in BOOLEAN :
               h = [handle EXCEPT ![o] = [started |-> opened, readOnly |-> ro]]

\* end(): only a started handle is closed; readOnly keeps its value.
AfterEnd(o) == [handle EXCEPT ![o].started = FALSE]

KVTypeOK ==
  /\ nvs \in [Names -> SUBSET Items] /\ \A k \in Names : Cardinality(nvs[k]) <= 1
  /\ handle \in [Handles -> [started : BOOLEAN, readOnly : BOOLEAN]]
  /\ flashUp \in BOOLEAN
=============================================================================
