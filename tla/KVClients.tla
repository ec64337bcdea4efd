----------------------------- MODULE KVClients -----------------------------
(***************************************************************************)
(* Tasks calling KVStore objects on one namespace, each object from one    *)
(* task, with flash writes that may fail.                                  *)
(***************************************************************************)
EXTENDS KVStore

CONSTANTS
  Defaults,   \* default values that callers pass
  Values      \* per item type, the values that callers put

\* Callers pass strings as C strings: no NUL in them.
ASSUME ClientsAssumption ==
  /\ Defaults \subseteq {v \in Bytes : v.pad = 0}
  /\ DOMAIN Values \subseteq ItemTypes
  /\ \A t \in DOMAIN Values : \A v \in Values[t] : v \in Bytes /\ (t = "str" => v.pad = 0)

VARIABLES
  reading,    \* per object: the getString between its two NVS calls
  result      \* what the last call returned, and to whom

kvVars == <<nvs, handle, flashUp>>
clientVars == <<kvVars, reading, result>>

NoResult == [by |-> {}, op |-> "none", key |-> {}, ok |-> FALSE, value |-> {}, seen |-> {}]

Calls == {"none", "begin", "put", "get", "getString", "isKey", "clear", "remove"}

KVInit ==
  /\ nvs = Empty /\ handle = [o \in Handles |-> Closed] /\ flashUp = FALSE
  /\ reading = [o \in Handles |-> {}] /\ result = NoResult

\* The task of o is not inside a call.
Free(o) == reading[o] = {}

Return(o, op, k, ok, v, seen) ==
  result' = [by |-> {o}, op |-> op, key |-> {k}, ok |-> ok, value |-> v, seen |-> seen]

\* History: a getString under way notes what its key holds meanwhile.
Note(store) ==
  reading' = [o \in Handles |->
    {[r EXCEPT !.seen = @ \cup {store[r.key]}] : r \in reading[o]}]

Begin(o, ro) ==
  /\ Free(o)
  /\ \E h \in [Handles -> [started : BOOLEAN, readOnly : BOOLEAN]] :
     \E store \in {nvs, Empty} : \E up \in BOOLEAN :
       /\ BeginOutcome(o, ro, h, store, up)
       /\ handle' = h /\ nvs' = store /\ flashUp' = up
  /\ Note(nvs')
  /\ result' = [NoResult EXCEPT !.by = {o}, !.op = "begin",
                                !.ok = ~Started(o) /\ handle'[o].started]

End(o) ==
  /\ Free(o) /\ Started(o)
  /\ handle' = AfterEnd(o)
  /\ UNCHANGED <<nvs, flashUp, reading, result>>

Clear(o) ==
  /\ Free(o)
  /\ \E ok \in BOOLEAN :
       /\ nvs' = IF Writable(o) /\ ok THEN Empty ELSE nvs
       /\ result' = [NoResult EXCEPT !.by = {o}, !.op = "clear",
                                     !.ok = Writable(o) /\ ok]
  /\ Note(nvs')
  /\ UNCHANGED <<handle, flashUp>>

Remove(o, k) ==
  /\ Free(o)
  /\ \E ok \in BOOLEAN :
       LET done == Writable(o) /\ ok /\ nvs[k] /= {}
       IN  /\ nvs' = IF done THEN [nvs EXCEPT ![k] = {}] ELSE nvs
           /\ Return(o, "remove", k, done, {}, {})
  /\ Note(nvs')
  /\ UNCHANGED <<handle, flashUp>>

\* putXxx and putString; putBytes refuses an empty blob.
Put(o, k, t, v) ==
  /\ Free(o)
  /\ \E ok \in BOOLEAN :
       LET taken == ok /\ (t = "blob" => v.len > 0)
       IN  /\ nvs' = AfterPut(o, k, t, v, taken)
           /\ Return(o, "put", k, Accepts(o, taken) /\ v.len > 0, {v}, {})
  /\ Note(nvs')
  /\ UNCHANGED <<handle, flashUp>>

GetInt(o, k, t, d) ==
  /\ Free(o)
  /\ Return(o, "get", k, TRUE, {GetScalar(o, k, t, d)}, {})
  /\ UNCHANGED <<kvVars, reading>>

\* getBytes; a result of 0 leaves the caller's buffer alone.
GetBytes(o, k, max) ==
  /\ Free(o)
  /\ LET len == GetBytesLen(o, k, max)
     IN  Return(o, "get", k, len > 0, IF len > 0 THEN {ValueOf(k)} ELSE {}, {})
  /\ UNCHANGED <<kvVars, reading>>

\* Both tell what the store holds and change nothing; getBytesLength is taken
\* together with isKey.
Ask(o, k) ==
  /\ Free(o)
  /\ Return(o, "isKey", k, IsKey(o, k), IF GetBytesLength(o, k) > 0 THEN {ValueOf(k)} ELSE {}, {})
  /\ UNCHANGED <<kvVars, reading>>

GetStringLength(o, k, d) ==
  /\ Free(o)
  /\ IF FindsString(o, k)
     THEN /\ reading' = [reading EXCEPT ![o] =
               {[key |-> k, len |-> StrLen(ValueOf(k)), default |-> d,
                 seen |-> {nvs[k]}]}]
          /\ UNCHANGED result
     ELSE Return(o, "getString", k, TRUE, {d}, {nvs[k]}) /\ UNCHANGED reading
  /\ UNCHANGED kvVars

GetStringData(o) ==
  \E r \in reading[o] :
    /\ Return(o, "getString", r.key, TRUE, {ReadString(r.key, r.len, r.default)},
              r.seen)
    /\ reading' = [reading EXCEPT ![o] = {}]
    /\ UNCHANGED kvVars

\* A reset: everything volatile is gone.
Reset ==
  /\ handle' = [o \in Handles |-> Closed] /\ flashUp' = FALSE
  /\ reading' = [o \in Handles |-> {}] /\ result' = NoResult
  /\ UNCHANGED nvs

KVNext ==
  \/ \E o \in Handles : \E ro \in BOOLEAN : Begin(o, ro)
  \/ \E o \in Handles : End(o) \/ Clear(o) \/ GetStringData(o)
  \/ \E o \in Handles, k \in Names : Remove(o, k) \/ Ask(o, k)
  \/ \E o \in Handles, k \in Names, t \in DOMAIN Values : \E v \in Values[t] : Put(o, k, t, v)
  \/ \E o \in Handles, k \in Names, t \in DOMAIN Values, d \in Defaults :
       \/ t \in DOMAIN Widths /\ GetInt(o, k, t, d)
       \/ t = "blob" /\ GetBytes(o, k, d.len)
       \/ t = "str" /\ GetStringLength(o, k, d)
  \/ Reset

KVSpec == KVInit /\ [][KVNext]_clientVars
-----------------------------------------------------------------------------
(* Properties *)

Results == [by : SUBSET Handles, op : Calls, key : SUBSET Names, ok : BOOLEAN, value : SUBSET Bytes,
            seen : SUBSET SUBSET Items]
Readings == [key : Names, len : Nat, default : Bytes, seen : SUBSET SUBSET Items]

\* Each key holds at most one item, and every object is closed, open, or open
\* with a getString half done.
ClientsTypeOK ==
  /\ KVTypeOK
  /\ result \in Results
  /\ reading \in [Handles -> SUBSET Readings]
  /\ \A o \in Handles : reading[o] /= {} => Started(o)

Unpadded(v) == [v EXCEPT !.pad = 0]

\* getString makes two NVS calls and other objects may write in between.  It
\* still returns the default or the characters of a string that the store held
\* during the call; if nothing was written meanwhile, exactly that string.
StringReadBack ==
  result.op = "getString" =>
    \A v \in result.value :
      /\ Unpadded(v) \in Defaults \cup {i.value : i \in UNION result.seen}
      /\ \A cell \in result.seen : \A i \in cell :
           (result.seen = {cell} /\ i.type = "str" /\ \A o \in result.by : Started(o))
             => v = i.value

\* The namespace changes only through the object that makes the call, open for
\* writing, and put and remove leave every other key alone.  begin() erases it
\* (with the whole partition) only while no object has it open, so none finds
\* its items gone between two of its calls.
OnlyWritersChange ==
  [][nvs' /= nvs =>
       \E o \in result'.by :
         \/ /\ result'.op \in {"put", "remove"} /\ Writable(o)
            /\ \A k \in Names \ result'.key : nvs'[k] = nvs[k]
         \/ result'.op = "clear" /\ Writable(o) /\ nvs' = Empty
         \/ result'.op = "begin" /\ nvs' = Empty /\ \A p \in Handles : ~Started(p)]_clientVars
=============================================================================
