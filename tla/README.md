# A TLA+ model of the stembot agent firmware

The firmware in `src/` is an agent on an ESP32. It polls one peer over HTTP for
messages addressed to it, serves tickets and pings, and sends its replies back
the same way, every message sealed with AES-256-EAX. Its settings live in NVS
flash and are changed from a serial console. This directory models that
program, checks the model with TLC and proves part of it with TLAPS.

Paths below are relative to `src/`.

## Inventory

| Part | State | Operations | Interacts with |
|---|---|---|---|
| Processor task, `main/processor.cpp` | global `config` and `client`, the loop's `idle`, the ticket in hand | reload, delay, poll, dispatch, process a form, send | Config (load), AgentClient (call, blocks), `Config().to_json()` for get_config |
| AgentClient, `components/executor/agent/agent.cpp` | url, agtuuid, key | setters, `send_network_message`, `post_encrypted` | AES-EAX, `esp_http_client` (callback fills the response) |
| AES-EAX, `.../agent/aes_eax.cpp` | none | encrypt, decrypt, hex, `set_isrc_json` | PSA crypto |
| Message and form models, `components/models/{network,control,utils}.cpp` | none | from_json, to_json, type of a document | ArduinoJson |
| Config, `components/models/config.cpp` | seven fields, one KVStore | construct (load), load, save, set_passphrase, destroy (end) | KVStore |
| KVStore, `components/kvstore/kvstore.cpp` | handle, started, readOnly | begin, end, clear, remove, put, get | NVS flash, shared by all objects |
| Console, `main/configure.cpp` | its own `g_config`, static argument tables | list, set, save, reboot, wifi_connect, ping, net_info, get_config (stub) | Config, network, ESP ping session (callbacks from another task) |
| Network, `components/service/ethernet.cpp` | `s_wifi_started` | init, wifi_connect, event handlers | event task, SNTP |
| Time, `components/service/time.cpp` | static gateway string | start_sntp, get_current_time | lwIP SNTP |
| Start-up, `main/main.cpp` | none | app_main | all of the above |

Four tasks matter: main (which ends), the processor, the console REPL and the
system event task; a ping adds one of ESP-IDF's. The console and the processor
share nothing in RAM; they meet in the `config` namespace of NVS, without a lock,
one NVS call at a time. Each `Config` object has a KVStore handle of its own.
`get_config` constructs a further Config in the middle of a ticket, so one
ticket can meet two versions of the settings. Main, the event task and the
console all run `start_sntp`, and two of them `network_wifi_connect`, without a
lock.

What is hard, and what makes each part correct:

- **Processor.** The peer removes a message from its queue when it answers the
  poll, the result of every send but the poll is ignored, and nothing is kept
  in flash: delivery is at most once. Correct means: no message is answered
  twice, every reply goes to the sender of the message it answers and carries
  that message's processed form, the traces of a ticket surround its work, all
  that is sent for one message speaks as one agent, the loop neither spins nor
  stalls, and a saved setting takes effect (unless every poll brings a message:
  settings are loaded only after an idle one).
- **AgentClient.** Its copies of three settings must be those of the Config in
  use. A call ends with an answer or with `""`: each of its socket operations
  times out after 30 s (`timeout_ms` is no bound for the whole call), and the peer
  may see an abandoned request later.
- **Config and KVStore.** Loads and saves are sequences of separate calls that
  interleave and may be cut by a power loss; `getString` is two NVS calls; the
  results of `begin` and of the puts are ignored. Correct means: a completed
  save survives, a load returns per field something NVS held or the default, an
  interrupted save does not switch polling on with half of the settings.
- **Message and form models.** Every other implementation writes these
  documents too, and the errors of the parser are not looked at. Correct means:
  whatever arrives, what is written has every member of its model with its type;
  a member that was good is not lost; writing twice changes no more than writing
  once; the reply to a ticket still is that ticket.
- **Start-up, network, time.** Correct means: bringing the network up is not
  disturbed by a second task, the prompt comes up with or without a network, a
  device with an address gets its clock set, from the gateway it has.
- **Ping.** The command, the ping task and its end callback share a semaphore and
  a session. Correct means: nothing is deleted while the callback may still use
  it, nothing is left over, and the prompt comes back. The first holds only for
  counts whose timeout can be computed in 32 bits (`InRange`).

`PROJECT.json` lists every hazard at its line with the properties that cover
it, and says of the uncovered ones why.

## Modules

```
Models ── Processor ── MCProcessor           TicketService
             │  └─ INSTANCE TicketService
             └── ProcessorProofs ── ServiceProofs
AgentClient ── MCAgentClient                 Exchange
     │  └─ INSTANCE Exchange
     └── AgentClientProofs
KVStore ─┬─ KVClients ── MCKVClients
         │      └──────── KVClientsProofs
         ├─ KVStoreProofs ────┤
         │      ┌──────── ConfigProofs
         └─ ConfigStore ── MCConfigStore
JsonCodec ── MessagePath ── MCMessagePath
                  └──────── MessagePathProofs
Network ── Device ── MCDevice
              └───── DeviceProofs
```

**Models** has the documents the agent handles, at the grain the processor
tells them apart. A JSON document is a record, a `std::optional` is a set with
at most one element, the form inside a ticket is a record of its own.
`ProcessedForms` is `process_control_form`. The benchmark's `inbound_size` goes
from an int64 to a `size_t` (`% 2^SizeWidth`), may exceed the heap (the exception
is uncaught: abort and reboot, `AbortOnForm`) or the longest string ArduinoJson
stores (the member stays null). Those three limits are constants, scaled down in
the runs.

**Processor** is `processor_task` and all it calls. `pc` says where the task is
between blocking calls; one action is the code from one blocking call or branch
to the next:

| Action | Code (`main/processor.cpp`) |
|---|---|
| `Reload`, `Delay` | 129-135, load and hand the settings to the client, then wait |
| `PollDisabled` | 137-141 |
| `SendPoll` | 143-150, up to the blocking exchange |
| `PollFailed`, `PollReturned` | 151-156, 158-161 |
| `TakeTicket`, `TakePing`, `IgnoreMessage` | the switch of `process_network_message` |
| `ProcessForm`, `AbortOnForm` | 74, with `process_control_form` |
| `SendMessage`, `SendReturned` | the four sends of 71, 83, 92, 107; the result is dropped |
| `Reboot` inside `PowerLoss`, `AbortOnForm` | a reset; the static Config is loaded again |

`http` is the exchange the task is blocked on. The peer is external and is
modelled from the request the code sends: it hands out at most `Limit` messages
that the whitelists allow, or, when `PeerHonours` is FALSE, any of its queue.
`LatePoll` is the answer to a poll whose sender has given up. `BeginSave` and
`EndSave` are the console's save seen from here: while it runs a load may return
any mixture of old and new fields (`Loads`), and what it leaves is some mixture
(`Torn`), since put results are ignored. A single load is assumed to overlap a
single save; that a field is then old, new or the default is what ConfigStore
shows (`LoadedFieldsHeld`). Flash that cannot be opened at all is left to
ConfigStore: here the namespace is open.

`Messages` may be any set, so `Spec`, of which the theorems speak, has peers whose
senders never stop. A run needs finitely many: `FairSpec` adds `PostAnother`, in
which a message the task ignored is queued again and stands for the next of its
kind. `SettingsTakeEffect` is about this case: the loop is idle, and loads the
settings, only after a poll that brought nothing or failed, so a peer whose every
poll brings a message (`AlwaysFed`) keeps the agent on its settings for ever, also
when the operator turned polling off. The formula names this as the one exemption.

`sent`, `calm` and the `re` and `via` fields of a sent message are history.

**TicketService** is what the agent promises its peers: a message moves from
unsent to queued to held, and is answered at most once or dropped. Processor
implements it under the mapping `statusOf`, `answersGiven`.

**AgentClient** is `post_encrypted` with the two AES-EAX functions it calls
(`components/executor/agent`). One action is one call of the crypto or HTTP
library, with its success and its failure:

| Action | Code |
|---|---|
| `Post` | `set_key`, and `set_isrc_json` in the two callers; all else is local to the call |
| `GenerateNonce` .. `MacBody` | `aes_eax_encrypt` and `aes_eax_decrypt`; `mode` says which |
| `Verify` | the comparison of the tags |
| `NotPosted`, `PostRequest` | agent.cpp up to `esp_http_client_perform` |
| `Respond`, `OnHeader`, `OnData` | the event callback, in whatever order the library calls it |
| `EndPerform`, `CheckResponse` | the end of perform, the checks of status and headers |

The cipher is symbolic: a ciphertext is two pieces that name key, nonce and
text, a tag names what it was computed from, and a body opens to its text or to
garbage. `slots` counts the key slots of PSA in use, `handle` is the HTTP client.
The callback has one response object for the whole perform, which after a
redirection sees the headers and data of more than one response; a body may
stop after any piece, and a header may be 32 characters that are not hex.
The text is never empty, as `set_isrc_json` makes an object of every document.
That the isrc is the agent's UUID, and that the copies of the settings are the
Config's, is Processor's `via` field and `ClientConfigured`.

**Exchange** is that call seen from outside, as Processor's `http` uses it: a
call under a key ends once, with nothing or with one thing a holder of the key
said in answer to it. AgentClient implements it: the call is under way while
`pc` is not idle, and what was said (`Said`) is what the responses heard in this
call held, sealed under its key.

**KVStore** has the methods of the class as operators over the namespace, the
handles and the state of the flash driver; **KVClients** lets tasks call them in
any order. NVS is external: one call is atomic, a put replaces an item of any
type (ESP-IDF 6.2, `CONFIG_NVS_LEGACY_DUP_KEYS_COMPATIBILITY` off in
`sdkconfig`), a get of another type fails. The integer types behave alike up to
their width and share an action; float and double are blobs, bool is a u8. A
value is the first `len` bytes of a text; trailing NULs are counted in `pad`.
`isKey` and `getBytesLength` change nothing and share the action `Ask`. `begin` may
fail, and erases the partition when the driver finds it full or of a newer
version; a running driver is not initialised again. `result` names the object that
made the last call, and the key: `OnlyWritersChange` asks of that object that it is
writable, and of a `begin` that erases that no object is open.

**ConfigStore** is Config over KVStore, with `set`, `save` and reset. A load or
save is a job that does one NVS call per step, in the order of `Fields`; so
that `getString` can be caught between its two calls, it is two steps. A full
`agtuuid` buffer has no terminator and reading it as a C string runs into the
key, which follows it in the object: `UuidString` adds the key's text unless its
first byte is NUL. Reading past the array is undefined; this is what the layout
gives, and a load cuts it off again. `target`, `outcome` and `found` are history: the
image of the last save, how it went, and per object how it had gone when the load
of its present image began. `erased` means that a `begin` wiped the partition since,
and `closed` that this load's own `begin` did not open it.

**JsonCodec** is `network.cpp`, `control.cpp` and `utils.cpp`. A document is a
JSON value; a `std::string` is plain text, the text of a JSON value, or a run of
zeros. `TicketMembers` and its like give each member of a struct its kind, and
`Get` and `Put` say per kind what `from_json` reads and `to_json` writes, so that
`FromJson` and `ToJson` are one definition each. The first part of the module is
ArduinoJson as the code relies on it (external), with the conversions that
matter here:

- `as<std::string>()` of anything but a string is its JSON text, so a number as
  `error` is passed on as a string;
- `doc[m] | d` gives the default also when the member has another type, so a
  `tckuuid` that is a number becomes the empty string;
- a double is written with nine decimals of its mantissa, so the sub-second part of
  a timestamp or `hop_time` is gone. `Written` rounds to whole units, which is right
  from 1e7 to 1e10; above, more digits go, but no time or size is that large;
- `as<int64_t>()` drops a fraction, and is 0 for what does not fit.

**MessagePath** takes one document along the code's ways: `Relay` is an agent
with this code that reads and writes it; or it comes out of the answer to a poll,
is taken apart into ticket and form, completed and sent (`TakeTicket`,
`ProcessForm`, `Respond`, `TakePing`, `Ignore`, in the order of
`process_network_message`). It has the contents that Processor leaves out, and
none of its failures.

**Network** is `app_main`, both builds of `ethernet.cpp`, `start_sntp`, and the
console's `wifi_connect` and `reboot`. `pc` has a place per task; one action is
one call of the driver, of lwIP or of the network interface:

| Action | Code |
|---|---|
| `LoadConfig`, `StartConsole` | `app_main` (`main/main.cpp`), with the order `AppMain`; `start_console` |
| `RegisterWifiHandlers`, `RegisterEthHandlers`, `StartDriver`, `WifiStarted` | the two `network_init` |
| `WifiConnect`, `SetConfig`, `Connect` | `network_wifi_connect`, by main or the console |
| `ReadGateway`, `Format`, `SetMode`, `InitSntp` | `start_sntp`, by main, console or event task |
| `Dispatch` | the event handlers |
| `CmdWifiConnect`, `CmdReboot` | the commands |

An `ESP_ERROR_CHECK` that can fail at run time (`SetConfig` while the station
connects) and lwIP's assertion on a client that already runs (`SetMode`) either
go through or restart the device (`Abort`), which starts again `Cold`. The
`sdkconfig` of the repository compiles lwIP's assertion in (line 2746), so the device
as shipped always restarts there; `SetMode` allows a build without it too, which is
more than the shipped one does. `Format` writes the static buffer at once, where
`esp_ip4addr_ntoa` writes it byte by byte. `wifi_connect` while the station connects
restarts the device in the model as in the code; no property forbids it. Only
checks whose outcome depends on what the tasks did are given both outcomes; one
that fails on the first boot for want of memory is left out.
A name is its text and its length: the driver gets 31 and 63 characters.

**Device** adds `cmd_ping` to Network, since both are commands of one console.
The ping task and its timing are external and follow ESP-IDF's `ping_sock.c`:
it waits to be notified, sends requests until the count is reached or it is
stopped, calls the end callback, and waits again or exits. Time passes in
FreeRTOS ticks; code takes none, a request at most its interval and its timeout.
The wait is computed as the code does it (`Wait`): milliseconds in `uint32_t`, then
`pdMS_TO_TICKS`, whose product wraps again, on the device (100 ticks to the second)
from a count of 21474 on. A request's sequence number has 16 bits, and the count 32,
so a ping of 65536 requests or more never ends. The widths and the two units are
constants, scaled down in the runs.

## Runs

| Run | Instance | Shows |
|---|---|---|
| `processor` | a traced get_config, benchmarks whose size wraps or exceeds the heap, a message of unknown type; a peer that sends up to 2 at once and ignores the whitelists; 1 loss, 1 reset, 1 save | `TypeOK`, `ClientConfigured`, `OneIdentity`, `ReplyMatchesRequest`, `AtMostOneReply`, `TracesBracketWork`, `PacedPolling`, `ImplementsService`; `AbortOnForm` fires |
| `processor_live` | a benchmark longer than a JSON string, a ping, and acknowledgements without end; wrong or paused settings first; a peer that respects the request; 1 loss, 2 saves, no reset | `OneAtATime`, `EventuallyServed`, `SettingsTakeEffect` |
| `kvstore` | 2 objects, 2 keys, strings of two lengths, a blob and a byte | `ClientsTypeOK`, `StringReadBack`, `OnlyWritersChange` |
| `config_save` | 2 edits, 2 saves, 2 resets, 1 failing put, begins that fail or erase | `ConfigTypeOK`, `SavedConfigSurvives`, `PollingOnMeansComplete` |
| `config_load` | a second Config loading while the console edits and saves twice | `LoadedFieldsHeld`, `SavedConfigSurvives` |
| `client` | 2 keys, 2 nonces, 2 documents, up to 2 responses per perform, every library call may fail | `AgentTypeOK`, `Released`, `AnswerAuthentic`, `OpensToDocument`, `CallReturns`, `ImplementsExchange` |
| `messages` | every type of message and form, with up to two members missing, or one (of a ticket: two) replaced by a value of any JSON type; forms known, unknown and misshapen | `WrittenConforms`, `RelayKeeps`, `RelayStable`, `ReplyKeepsRequest`, `Addressed` |
| `device` | both builds, no, good and over-long credentials, 2 addresses, 1 lost connection, 1 command, 1 reset; pings of count 1, of 3 (wraps in ticks), 0 and -1 | `DeviceTypeOK`, `SetupUndisturbed`, `SntpFollowsGateway`, `SntpWhileJoined`, `ConsoleComesUp`, `PingRunsToItsEnd`, `NothingLeft`, `PingReturns` |

Four more runs end in a counterexample; each states a sentence of the
documentation or of a comment that the code does not keep:

| Run | Sentence | The code |
|---|---|---|
| `config_save_ok` | save writes the configuration to flash | prints OK when a put failed |
| `config_identity` | isrc is the local agent UUID | 36 characters fill the buffer, the key's bytes follow; `set` cuts the 36th |
| `client_sealed` | "on failure ciphertext will be empty" (`agent.hpp:34`) | `ctr_crypt` leaves its buffer at full size when the cipher fails, and it is posted without a tag |
| `ping_deleted` | "Block until on_ping_end signals completion." (`configure.cpp:256`) | with `-c 0` or a count whose timeout wraps, in milliseconds or in ticks, the wait is too short; semaphore and session are deleted, and the end callback then gives the deleted semaphore |

Disagreements that need no run:

- the help of `set` (`configure.cpp:335`) says it persists the field, but only
  memory changes until `save`; `README.md:113` has it right;
- `getString` (`kvstore.cpp:414`) strips one terminator; a string that was
  shortened between its two calls keeps NULs. `StringReadBack` is stated up to
  them, and `Config` reads the result as a C string;
- `time.cpp:6` says "Call once after Wi-Fi gets an IP"; `app_main` calls
  `start_sntp` before there can be an address, the got-IP handler and
  `wifi_connect` call it again. With `CONFIG_LWIP_ESP_LWIP_ASSERT`, which
  the shipped `sdkconfig` sets, the second initialisation restarts the device
  (`SetMode`);
- `README.md:31` says the agent "manages its own Wi-Fi connection", but a
  disconnection is only logged and nothing connects again before `wifi_connect`
  or a reboot;
- a ticket whose `src` is missing or no string is answered to `dest` `""`.

**Bounds.** `MaxLosses`, `MaxRestarts`, `MaxSaves`, `MaxBatch` in Processor,
`MaxEdits`, `MaxSaves`, `MaxLoads`, `MaxCrashes`, `MaxPutFailures` in
ConfigStore, `MaxResponses` in AgentClient,
`MaxHops` in MessagePath, `MaxJoins`, `MaxDrops`, `MaxCommands`, `MaxRestarts` in
Network, `MaxPings` in Device. One loss and one reset can hit at every step of the service of
every message, and a second message is there to be confused with the first; two
saves are needed to overwrite good settings with others, two resets to break
both a save and the load that follows; two responses to mix one's headers with
the other's body; two key slots are what one call needs, so a leaked one is
missed by the next call; two hops, since a document that is not changed by the
second is changed by none after it; two addresses, so that a gateway read before
the second is written after it; one command, as it can come at every point of
the bring-up's end, of an event and of a disconnection; a count of
6 bits, a sequence number of 2, 4 ms and 2 ticks to the second, which have a count
whose wait fits (1), one for which only the conversion to ticks wraps (3), one
without end (0), and one that wraps in both and cannot be numbered (-1). Resets are
left to `processor`: the liveness run has none, as after a reset the agent is where
it started, with whatever is in NVS by then. The agent has no state that
grows with the number of messages served except the history `sent`. In the
ConfigStore, messages and device runs the bounds let the model stop, so deadlock
is not checked there; Processor, AgentClient and KVClients never stop, and it is.

**Fairness** (`processor_live`, `client` and `device`). In `client`, weak fairness of
`ClientStep`: the crypto calls return, and perform ends, since each of its socket
operations times out after 30 s; none of the peer or of the callbacks. A peer that
sends a little before every timeout, for ever, is excluded by this. In
`processor_live`, whose steps are those of `Next` and `PostAnother`: weak fairness of
the task, as FreeRTOS runs it and nothing of higher priority loops; of the exchange,
as in `client`; of `EndSave`, as save() is a finite sequence of NVS calls. Strong
fairness of `HandOut` of each message that is answered: a peer that is polled again
and again does not pass over it for ever, whatever else it has. None of the peer
queueing a message, of the operator, or of losses. `EventuallyServed`
counts a reply attempt as an answer, and admits a message lost to a failed
exchange or a reset: the code retries nothing, so no stronger promise is there.
Its hypothesis is that good settings eventually stay in NVS. In `device`: weak
fairness of main, of the event task and of the console's command under way
(FreeRTOS runs a task that is ready, and no task above them loops), of `Tick` (a
timed wait ends) and of the ping task, whose requests end by their timeout. None
of the operator, of the networks, of DHCP or of the power: `SntpWhileJoined` is
about a device that keeps its address.

## Proofs

`ProcessorProofs` proves, for every value of the constants allowed by
`ModelsAssumption` and `ProcessorAssumption`:

- `TypeCorrect`: `Spec => []TypeOK`
- `SendsAsConfigured`: `Spec => []ClientConfigured`
- `AnsweredAtMostOnce`: `Spec => []AtMostOneReply`
- `OneIdentityPerMessage`: `Spec => []OneIdentity`

The first two follow from `Inv`: the types, where each variable stands at each
`pc` (`Placed`: a message is in hand when the task handles one, `http` matches
`pc`), and that the client is the copy of `config` everywhere but between
a boot and the first reload (`Synced`). `Inv` is inductive by itself
(`InvHolds`). `ClientConfigured` alone is not: it says nothing when no message
is out, so a step that sends could break it.

The other two need to know where messages are. `Lives` adds to them
`Lifecycle` (the unsent, the queued and those in hand are disjoint and no
message is in hand twice) and `Spoken` (what was sent is on behalf of a message
that is no longer queued, and if that message is still in hand, it is the
current one and was spoken for with the present settings; only after its reply
was sent does a reply to it exist). A message that returned to the queue, or a
second copy in a batch, would be answered twice: that is the part
`AtMostOneReply` does not say itself. `LivesHolds` is the induction; each action
has a step, and most reduce to `SamePlaces` (messages stay where they are),
`EmptyHanded` (a reset) or `SendLives` (a send).

`AgentClientProofs` proves, for any keys, nonces, documents, replies, number of
slots and number of responses (`ClientAssumption`: the empty string is none of
the keys, nonces and documents; `BoundsAssumption`):

- `AgentTypeCorrect`: `AgentSpec => []AgentTypeOK`
- `CallReleases`: `AgentSpec => []Released`
- `AnswersAreAuthentic`: `AgentSpec => []AnswerAuthentic`
- `PostsOpenToDocument`: `AgentSpec => []OpensToDocument`

- `ClientIsExchange`: `AgentSpec => ImplementsExchange`

All follow from `AgentInv`. None of the four is inductive: `Released` speaks of
the idle client, and what it holds between two calls is `Held`;
`OpensToDocument` needs that a result without its tag names no key, and a result
with one is this call's (`Sealing`); `AnswerAuthentic` needs that a tag the
callbacks kept is one that was heard, and that the plaintext under verification is what
the body opens to (`Hearing`). The cryptographic argument is the lemma `TagFits`:
in the symbolic cipher a tag determines key, nonce and ciphertext, so the argument
holds as far as AES-EAX is unforgeable. `ClientIsExchange` is step simulation:
`StepImplements` maps every action of AgentClient to `Call`, `Say`, `Finish` or a
stutter. It needs `AnswerIsReply` (what verification passes to the caller is in
`Said`, from `Hearing`) and `SealsApart` (a response under another key adds
nothing to `Said`).

`ServiceProofs` goes on from there:

- `RepliesMatch`: `Spec => []ReplyMatchesRequest`
- `TracesSurroundWork`: `Spec => []TracesBracketWork`
- `HoldsOneMessage`: `Spec => []OneAtATime`
- `PollsArePaced`: `Spec => PacedPolling`
- `ProcessorServes`: `Spec => ImplementsService`

They need `Work`, inductive relative to `Inv` (`WorkHolds`). `ReplyMatchesRequest`
speaks of what was sent; it is kept because the ticket in hand already carries its
own identifier and form until `ProcessForm`, the processed form after it
(`Worked`), and the document on its way is built from it (`Replying`).
`TracesBracketWork` looks at neighbours in `sent`; it is kept because what was
sent last is fixed at each `pc` of a traced ticket (`Tracing`). `PacedPolling` holds
because a poll is prepared only where the delay or an answer with messages came
last (`Paced`), and `OneAtATime` because `Limit` bounds what an honouring peer
hands out (`Modest`). `ProcessorServes` is step simulation: one lemma per abstract
action (`ServiceDrops`, `ServiceTakes`, `ServiceQueues`, `ServiceAnswers`) and
`ServiceStutters` for the rest, put together in `ServiceStep`.

`DeviceProofs` proves, for any networks, names, addresses, counts, widths and tick rate
(`NetworkAssumption`, `DeviceAssumption`):

- `DeviceTypeCorrect`: `DeviceSpec => []DeviceTypeOK`
- `BringUpUndisturbed`: `DeviceSpec => []SetupUndisturbed`
- `ClockFollowsGateway`: `DeviceSpec => []SntpFollowsGateway`
- `PingNotCutShort`: `DeviceSpec => []PingRunsToItsEnd`
- `PingLeavesNothing`: `DeviceSpec => []NothingLeft`

`NetworkInv` says which tasks can be under way at the same stage of the bring-up
(`Stages`), that there is at most one address, and only while the station is joined
(`Addressing`), and that an event which will read the gateway again is still queued
when the buffer is stale (`Follows`); without the last, `SntpFollowsGateway` is broken
by the step that empties the queue. `PingNotCutShort` is a timing argument: what is
left of the wait, in ticks, is at least what the requests still to come can take, and
one second more (`Timed`). `InRange` keeps the milliseconds and the conversion to
ticks from wrapping, and the requests within what a sequence number can say; of other
counts nothing is proved but types and clean-up, and `ping_deleted` shows why.
`DeviceAssumption` states `2 ^ CountWidth \in Nat \ {0, 1}` beside
`CountWidth \in Nat \ {0}`, from which it follows, since the provers know no powers;
`ModelsAssumption` does the same.

`KVStoreProofs` holds the lemmas about the operators of KVStore: a put leaves one
item (`PutStored`), a begin touches one object and erases only while nobody is open
(`BeginKeeps`). `KVAssumption` says that there are finitely many texts: the length of
a string counts those it is made of. `KVClientsProofs` proves, for callers that pass
strings without a NUL (`ClientsAssumption`):

- `ClientsTypeCorrect`: `KVSpec => []ClientsTypeOK`
- `StringsReadBack`: `KVSpec => []StringReadBack`
- `WritersChange`: `KVSpec => OnlyWritersChange`

`StringReadBack` looks at results only. `ClientsInv` adds what a `getString` knows
between its two calls (`Reading`): it has seen what its key holds now, and a string
of the length it measured. `WritersChange` is about the object through
which the change was made. For its last part it needs that the flash driver runs while
an object is open (`Opened`), since only `nvs_flash_init` erases.

`ConfigProofs` proves, for any number of Config objects, fields typed, saves,
failing puts and resets (`ConfigAssumption`: what is typed has no NUL, a key has its
32 bytes):

- `ConfigTypeCorrect`: `ConfigSpec => []ConfigTypeOK`
- `SavesSurvive`: `ConfigSpec => []SavedConfigSurvives`
- `PollingIsLast`: `ConfigSpec => []PollingOnMeansComplete`
- `LoadsReturnHeld`: `ConfigSpec => []LoadedFieldsHeld`

`ConfigInv` is the conjunction of what NVS holds under each field (`NvsOK`), what the
objects hold (`ImageOK`), where the jobs are (`JobsOK`), what the loads have seen
(`WindowsOK`, `LoadsOK`) and how far the save is (`SavesOK`: the fields before the
job's decode to the new image, the others to the old one). The lemma `ReadBack` is
the heart of `SavesSurvive`: what `save` writes of a field decodes to it, also of an
`agtuuid` that runs into the key. What the theorem says is about loads: one that begins
after a save whose puts all succeeded returns that save; if a `begin` erased the
partition since, or the load's own did not open it, it returns all defaults, and in
neither case a mixture. To carry this from the beginning of a load to its end,
`FoundOK` says that each field loaded so far is the one to expect (`Expected`), for
every object whose load began with an outcome that fixes it (`Known`); a save that
starts meanwhile takes the object out of that, and an erasure comes only while no
object is open, so never during such a load (`SameFound`). `ConfigTypeOK` is not inductive: an `agtuuid`
shorter than its buffer with a tail would come back from NVS with the tail, and
`Kept` excludes it. A started object is what protects a load from an erasure
(`WindowsOK`).

`MessagePathProofs` proves, for any documents that arrive, names, units and limits
(`CodecAssumption`, `PathAssumption`):

- `WrittenAsModelled`: `PathSpec => []WrittenConforms`
- `MembersKept`: `PathSpec => []RelayKeeps`
- `RelaySettles`: `PathSpec => RelayStable`
- `ReplyIsTheTicket`: `PathSpec => []ReplyKeepsRequest`
- `AnsweredToSender`: `PathSpec => []Addressed`

`PathAssumption` says that what arrives are documents a parser makes (`IsDocument`): each
value has the shape of its tag, three levels down, and numbers are not negative, which
is a bound of the model (sizes, limits and times). Nothing is assumed about which
members there are, of which type, or what their texts are. The proofs go from values to
documents to the agent. `Again(kind, v)` is a member read and written: it is of its kind
whatever `v` was (`AgainFits`), it is `v` when `v` fits, up to the digits a double is
written with (`AgainKeeps`), and written again it stays (`AgainStable`, from `WholeIs`
and `WrittenIs`). These lift to documents (`RewrittenConforms`, `RewrittenKeeps`,
`RewrittenStable`) since no model has a member named `type` (`ModelMembers`). The way
through the agent adds the changes to the ticket (`TraceIs`, `AckIs`, `FormIs`,
`ResponseIs`), and `PathInv` says that where the document is determines what was posted:
none of the four invariants speaks of the ticket in hand, so none is inductive.

`WorkHolds`, `DeviceInvHolds`, `ClientsInvHolds`, `ConfigInvHolds` and `PathInvHolds` are
the five inductions; TLC has checked each invariant on the instances of the runs as well.

Only model-checked: liveness under fairness (`EventuallyServed`,
`SettingsTakeEffect`, `CallReturns`, `SntpWhileJoined`, `ConsoleComesUp`,
`PingReturns`: out of the prover's reach). Every safety property of a passing run has
its theorem.

## Plan

Modelled first: the processor, since it is the program's purpose, then the store
it depends on and the client it calls, then the documents, the network and the
console's ping. Next:

1. **Composition** of Processor with ConfigStore's call-by-call load, replacing
   `Loads`, on a small instance.

## Not modelled

The arithmetic of the cipher and the hex coding of single bytes, HTTP and lwIP,
UART and the REPL's parser, log output, the stack and heap except for the
benchmark payload, host tests and scripts. `list`, `net_info`, `help` and the
`get_config` stub of the console only print. The text of a JSON document is not
modelled, so neither is a text that does not parse: ArduinoJson's errors are not
looked at and leave the members parsed until then, which MessagePath has as
documents with members missing. Nesting deeper than the parser accepts, members
given twice and invalid UTF-8 are left out. Timestamps decide nothing.
