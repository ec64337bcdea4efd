---------------------------- MODULE ConfigStore ----------------------------
(***************************************************************************)
(* Config (components/models/config.cpp) over KVStore, and the console     *)
(* commands that change it (main/configure.cpp).  The console edits its    *)
(* own Config and saves it field by field; other Config objects, the       *)
(* processor's and the ones made for get_config, load field by field at    *)
(* the same time; power may fail in between.                               *)
(***************************************************************************)
EXTENDS KVStore, Sequences

CONSTANTS
  Console,      \* the KVStore of g_config
  Edits,        \* per field, the values the operator types
  DefaultKey,   \* sha256 of "changeme"
  KeyTail,      \* whether a key (its text) starts with a byte other than NUL
  MaxEdits, MaxSaves, MaxLoads, MaxCrashes, MaxPutFailures  \* bounds

Readers == Handles \ {Console}

UuidSize == 36    \* sizeof(agtuuid)
KeySize  == 32    \* sizeof(key)

Off == Plain("0", 1)
On  == Plain("1", 1)
EmptyString == Plain("", 0)
DefaultUuid == Plain("zero-uuid", UuidSize)

\* Mutant: polling is written and read before the settings it acts on.
PollingFirst == <<"polling", "agtuuid", "key", "peer_url", "wifi_ssid", "wifi_password", "debug">>

\* The order in which load() reads and save() writes.
Fields == <<"agtuuid", "key", "peer_url", "wifi_ssid", "wifi_password", "debug", "polling">>
FieldNames == {Fields[i] : i \in DOMAIN Fields}

StringFields == {"agtuuid", "peer_url", "wifi_ssid", "wifi_password"}
Flags == {"debug", "polling"}

TypeOf(f) == IF f \in StringFields THEN "str" ELSE IF f = "key" THEN "blob" ELSE "u8"

DefaultOf(f) ==
  CASE f = "agtuuid" -> DefaultUuid
    [] f = "key" -> DefaultKey
    [] f \in Flags -> Off
    [] OTHER -> EmptyString

Defaults == [f \in FieldNames |-> DefaultOf(f)]

\* What argtable and sha256 give: a string has no NUL in it, a key KeySize bytes.
Given(f, v) ==
  v \in Bytes /\ v.tail = {} /\ v.pad = 0 /\ (f = "key" => v.len = KeySize)

ASSUME ConfigAssumption ==
  /\ Console \in Handles
  /\ FieldNames \subseteq Names
  /\ \A f \in DOMAIN Edits : f \in FieldNames /\ \A v \in Edits[f] : Given(f, v)
  /\ Given("key", DefaultKey)
  /\ {"", "0", "1", "zero-uuid"} \subseteq Texts
  /\ KeyTail \in [Texts -> BOOLEAN]
  /\ {MaxEdits, MaxSaves, MaxLoads, MaxCrashes, MaxPutFailures} \subseteq Nat

VARIABLES
  image,    \* per Config object: its fields
  job,      \* per Config object: the load or save under way
  printed,  \* what the console answered to the last command
  target,   \* history: the image of the last save that started, and
  before,   \* history: what NVS said when it started
  outcome,  \* history: how that save went,
  found,    \* history: per object, what the load of its image began with, and
  window,   \* history: per object and field, what NVS held during its load
  budget    \* what has been used of the bounds

configVars == <<nvs, handle, flashUp, image, job, printed, target, before, outcome, found,
                window, budget>>

Idle == [kind |-> "idle", at |-> 0, len |-> {}]
Loading(n) == [kind |-> "load", at |-> n, len |-> {}]
Saving(n)  == [kind |-> "save", at |-> n, len |-> {}]
FieldAt(o) == Fields[job[o].at]

\* ---- reading and writing one field ----------------------------------------

\* The characters of s up to its first NUL.
CString(s) == [s EXCEPT !.pad = 0]

\* The first n characters of s.
Cut(s, n) == IF s.len < n THEN CString(s) ELSE Plain(s.text, n)

\* Mutant: agtuuid grows with what it receives.
UncutReceived(f, v) == v

\* What a field becomes in the Config when the getter returns v: strncpy
\* copies at most sizeof(agtuuid) characters, without a terminator if there
\* are more.
Received(f, v) == IF f = "agtuuid" THEN Cut(CString(v), UuidSize) ELSE v

\* agtuuid read as a C string.  A full buffer has no terminator: what follows
\* in the object, the key, is read as well (undefined, but this is the layout).
UuidString(c) ==
  IF c["agtuuid"].len < UuidSize \/ ~KeyTail[c["key"].text] THEN c["agtuuid"]
  ELSE [c["agtuuid"] EXCEPT !.tail = {c["key"].text}]

\* Mutant: the key is put as a C string, up to its first NUL.
KeyWrittenAsString(f, c) ==
  CASE f = "agtuuid" -> UuidString(c)
    [] f = "key" /\ ~KeyTail[c["key"].text] -> EmptyString
    [] OTHER -> CString(c[f])

\* What save() puts for field f of image c.
Written(f, c) == IF f = "agtuuid" THEN UuidString(c) ELSE CString(c[f])

\* What a load makes of an item that nobody changes meanwhile.
Decoded(f, cell) ==
  LET typed == {i \in cell : i.type = TypeOf(f)}
      exact == {i \in typed : f = "key" => i.value.len = KeySize}
  IN  IF exact = {} THEN DefaultOf(f)
      ELSE Received(f, (CHOOSE i \in exact : TRUE).value)

NvsImage == [f \in FieldNames |-> Decoded(f, nvs[f])]

\* History: what NVS holds during the loads under way.
Watch(store) ==
  window' = [o \in Handles |-> IF job[o].kind = "load"
                               THEN [f \in FieldNames |-> window[o][f] \cup {store[f]}]
                               ELSE window[o]]
-----------------------------------------------------------------------------
NoWindow == [f \in FieldNames |-> {}]
Unread == [o \in Handles |-> "none"]

ConfigInit ==
  /\ nvs = Empty /\ handle = [o \in Handles |-> Closed] /\ flashUp = FALSE
  /\ image = [o \in Handles |-> Defaults]
  /\ job = [o \in Handles |-> Loading(0)]
  /\ printed = "nothing"
  /\ target = Defaults /\ before = Defaults /\ outcome = "none"
  /\ found = Unread
  /\ window = [o \in Handles |-> NoWindow]
  /\ budget = [edits |-> 0, saves |-> 0, loads |-> 0, crashes |-> 0, failures |-> 0]

\* load() starts with _kvstore.begin("config"), whose result is not looked at:
\* it may have erased the partition, or not have opened it.
LoadBegin(o) ==
  /\ job[o] = Loading(0)
  /\ \E h \in [Handles -> [started : BOOLEAN, readOnly : {FALSE}]] :
     \E store \in {nvs, Empty} : \E up \in BOOLEAN :
       /\ BeginOutcome(o, FALSE, h, store, up)
       /\ handle' = h /\ nvs' = store /\ flashUp' = up
  /\ outcome' = IF nvs' /= nvs THEN "erased" ELSE outcome
  /\ found' = [found EXCEPT ![o] = IF handle'[o].started THEN outcome' ELSE "closed"]
  /\ job' = [job EXCEPT ![o] = Loading(1)]
  /\ window' = [window EXCEPT ![o] = [f \in FieldNames |-> {nvs'[f]}]]
  /\ UNCHANGED <<image, printed, target, before, budget>>

\* Field f of object o is loaded with value v.
Loaded(o, v) ==
  /\ image' = [image EXCEPT ![o][FieldAt(o)] = Received(FieldAt(o), v)]
  /\ job' = [job EXCEPT ![o] = IF @.at = Len(Fields) THEN Idle ELSE Loading(@.at + 1)]
  /\ UNCHANGED <<nvs, handle, flashUp, printed, target, before, outcome, found, window, budget>>

AtField(o, kind) == job[o].kind = kind /\ job[o].at > 0

LoadStringLength(o) ==
  /\ AtField(o, "load") /\ FieldAt(o) \in StringFields /\ job[o].len = {}
  /\ FindsString(o, FieldAt(o))
  /\ job' = [job EXCEPT ![o].len = {StrLen(ValueOf(FieldAt(o)))}]
  /\ UNCHANGED <<nvs, handle, flashUp, image, printed, target, before, outcome, found, window,
                 budget>>

LoadStringData(o) ==
  /\ AtField(o, "load")
  /\ \E len \in job[o].len :
       Loaded(o, ReadString(FieldAt(o), len, DefaultOf(FieldAt(o))))

LoadStringMissing(o) ==
  /\ AtField(o, "load") /\ FieldAt(o) \in StringFields /\ job[o].len = {}
  /\ ~FindsString(o, FieldAt(o))
  /\ Loaded(o, DefaultOf(FieldAt(o)))

\* Mutant: the key is read as the string it was once written as.
LoadKeyAsString(o) ==
  /\ AtField(o, "load") /\ FieldAt(o) = "key"
  /\ Loaded(o, IF FindsString(o, "key") THEN ValueOf("key") ELSE DefaultKey)

LoadKey(o) ==
  /\ AtField(o, "load") /\ FieldAt(o) = "key"
  /\ Loaded(o, IF GetBytesLen(o, "key", KeySize) = KeySize THEN ValueOf("key")
               ELSE DefaultKey)

LoadFlag(o) ==
  /\ AtField(o, "load") /\ FieldAt(o) \in Flags
  /\ Loaded(o, GetScalar(o, FieldAt(o), "u8", Off))

\* A Config made for get_config goes away after its load: ~Config() ends it.
Destroy(o) ==
  /\ o \in Readers /\ job[o] = Idle /\ Started(o)
  /\ handle' = AfterEnd(o)
  /\ UNCHANGED <<nvs, flashUp, image, job, printed, target, before, outcome, found, window,
                 budget>>

StartLoad(o) ==
  /\ o \in Readers /\ job[o] = Idle /\ budget.loads < MaxLoads
  /\ job' = [job EXCEPT ![o] = Loading(0)]
  /\ found' = [found EXCEPT ![o] = "none"]
  /\ budget' = [budget EXCEPT !.loads = @ + 1]
  /\ UNCHANGED <<nvs, handle, flashUp, image, printed, target, before, outcome, window>>

\* ---- the console ----------------------------------------------------------

Prompt == job[Console] = Idle

\* What cmd_set makes of a value: agtuuid is cut to leave room for the
\* terminator, a passphrase becomes its hash, the others are taken as typed.
Assigned(f, v) == IF f = "agtuuid" THEN Cut(v, UuidSize - 1) ELSE v

CmdSet(f, v) ==
  /\ Prompt /\ budget.edits < MaxEdits
  /\ image' = [image EXCEPT ![Console][f] = Assigned(f, v)]
  /\ found' = [found EXCEPT ![Console] = "none"]
  /\ printed' = "set OK"
  /\ budget' = [budget EXCEPT !.edits = @ + 1]
  /\ UNCHANGED <<nvs, handle, flashUp, job, target, before, outcome, window>>

CmdSave ==
  /\ Prompt /\ budget.saves < MaxSaves
  /\ job' = [job EXCEPT ![Console] = Saving(1)]
  /\ target' = image[Console] /\ before' = NvsImage /\ outcome' = "writing"
  /\ found' = Unread
  /\ printed' = "nothing"
  /\ budget' = [budget EXCEPT !.saves = @ + 1]
  /\ UNCHANGED <<nvs, handle, flashUp, image, window>>

\* One put of save(), whose result is not looked at; then "OK" is printed.
SaveField ==
  /\ AtField(Console, "save")
  /\ LET f == FieldAt(Console)
         last == job[Console].at = Len(Fields)
     IN  \E ok \in BOOLEAN :
           /\ ok \/ budget.failures < MaxPutFailures
           /\ nvs' = AfterPut(Console, f, TypeOf(f), Written(f, image[Console]), ok)
           /\ budget' = [budget EXCEPT !.failures = IF ok THEN @ ELSE @ + 1]
           /\ job' = [job EXCEPT ![Console] = IF last THEN Idle ELSE Saving(@.at + 1)]
           /\ printed' = IF last THEN "save OK" ELSE printed
           /\ outcome' = IF outcome = "writing" /\ ~Accepts(Console, ok) THEN "failed"
                         ELSE IF outcome = "writing" /\ last THEN "done" ELSE outcome
  /\ Watch(nvs')
  /\ UNCHANGED <<handle, flashUp, image, target, before, found>>

\* Power loss, or cmd_reboot: the Config objects are constructed again.
Crash ==
  /\ budget.crashes < MaxCrashes
  /\ handle' = [o \in Handles |-> Closed] /\ flashUp' = FALSE
  /\ job' = [o \in Handles |-> Loading(0)]
  /\ image' = [o \in Handles |-> Defaults]
  /\ printed' = "nothing"
  /\ budget' = [budget EXCEPT !.crashes = @ + 1]
  /\ outcome' = IF outcome = "writing" THEN "torn" ELSE outcome
  /\ found' = Unread
  /\ window' = [o \in Handles |-> NoWindow]
  /\ UNCHANGED <<nvs, target, before>>

LoadStep(o) == LoadBegin(o) \/ LoadStringLength(o) \/ LoadStringData(o)
               \/ LoadStringMissing(o) \/ LoadKey(o) \/ LoadFlag(o)

ConfigNext ==
  \/ \E o \in Handles : LoadStep(o) \/ Destroy(o) \/ StartLoad(o)
  \/ \E f \in DOMAIN Edits : \E v \in Edits[f] : CmdSet(f, v)
  \/ CmdSave \/ SaveField \/ Crash

ConfigSpec == ConfigInit /\ [][ConfigNext]_configVars
-----------------------------------------------------------------------------
(* Properties *)

Images == [FieldNames -> Bytes]
Outcomes == {"none", "writing", "done", "torn", "failed", "erased"}
Jobs == [kind : {"idle", "load", "save"}, at : 0..Len(Fields), len : SUBSET Nat]
Budgets == [edits : 0..MaxEdits, saves : 0..MaxSaves, loads : 0..MaxLoads,
            crashes : 0..MaxCrashes, failures : 0..MaxPutFailures]

\* Every Config holds a value of the right kind in each field, an agtuuid that
\* fits its 36 bytes, and no job runs past the last field.
ConfigTypeOK ==
  /\ KVTypeOK
  /\ image \in [Handles -> Images]
  /\ \A o \in Handles : image[o]["agtuuid"].len <= UuidSize
                        /\ image[o]["agtuuid"].tail = {}
  /\ job \in [Handles -> Jobs]
  /\ printed \in {"nothing", "set OK", "save OK"}
  /\ target \in Images /\ before \in Images
  /\ outcome \in Outcomes /\ found \in [Handles -> Outcomes \cup {"closed"}]
  /\ window \in [Handles -> [FieldNames -> SUBSET SUBSET Items]]
  /\ budget \in Budgets

Done(o, i) == job[o] = Idle \/ i < job[o].at

\* A load takes many NVS calls and the console may write between any two.  Each
\* field loaded is one NVS held during the load, or the default; a field
\* nobody wrote during the load is exactly what NVS holds.
LoadedFieldsHeld ==
  \A o \in Readers, i \in DOMAIN Fields :
    LET f == Fields[i]
        v == image[o][f]
    IN  Done(o, i) /\ window[o][f] /= {} =>
          /\ CString(v) \in {Decoded(f, cell) : cell \in window[o][f]} \cup {DefaultOf(f)}
          /\ \A cell \in window[o][f] :
               window[o][f] = {cell} /\ Started(o) => v = Decoded(f, cell)

\* A load that begins after a save that was not interrupted and whose puts all
\* succeeded, and that no other save overtakes, returns what was saved, after any
\* number of reboots: the key as a key, an agtuuid without terminator without
\* what followed it.  It does so unless its begin(), or another since the save,
\* erased the partition, or its own did not open it: then it returns all
\* defaults, the save is lost or not seen, and never a mixture.
SavedConfigSurvives ==
  \A o \in Handles : job[o].kind # "load" =>
    /\ found[o] = "done" => image[o] = target
    /\ found[o] \in {"erased", "closed"} => image[o] = Defaults

\* polling is written last: a save cut short never turns polling on in NVS
\* with some of the settings still the old ones.
PollingOnMeansComplete ==
  outcome \in {"writing", "torn"} /\ before["polling"] = Off
    /\ NvsImage["polling"] = On => NvsImage = target

\* README.md:114: save writes the current in-memory configuration to NVS flash;
\* the command answers "OK".
SaveOkMeansStored == printed = "save OK" => NvsImage = image[Console]

\* agent.hpp:13: isrc is "the local agent UUID": reading the agtuuid of a Config
\* gives the default or an identifier that was typed, whole and nothing else.
IdentityIsUuid ==
  \A o \in Handles :
    job[o] = Idle => UuidString(image[o]) \in {DefaultUuid} \cup Edits["agtuuid"]
=============================================================================
