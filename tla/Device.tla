------------------------------- MODULE Device -------------------------------
(***************************************************************************)
(* The console's ping (main/configure.cpp) on top of Network: a command    *)
(* that starts a session of ESP-IDF's ping task, waits on a semaphore for  *)
(* its end callback, with a timeout, and then deletes session and          *)
(* semaphore.                                                              *)
(*                                                                         *)
(* The ping task (ping_sock.c) is external.  Time passes in FreeRTOS       *)
(* ticks; what happens at once takes none.                                 *)
(***************************************************************************)
EXTENDS Network

CONSTANTS
  Counts,     \* counts the operator asks for
  CountWidth, \* width of uint32_t and TickType_t (32)
  SeqnoWidth, \* width of a request's sequence number (16)
  Second,     \* milliseconds in a second (1000)
  HZ,         \* ticks in a second (100)
  MaxPings    \* bound: pings

ASSUME DeviceAssumption ==
  /\ Counts \subseteq Int
  /\ CountWidth \in Nat \ {0} /\ 2 ^ CountWidth \in Nat \ {0, 1}
  /\ SeqnoWidth \in Nat /\ 2 ^ SeqnoWidth \in Nat \ {0}
  /\ {Second, HZ} \subseteq Nat \ {0}
  /\ MaxPings \in Nat

VARIABLES
  asked,   \* how many pings there were: the last one is the console's
  count,   \* per ping, the count as it was asked for
  done,    \* per ping, its semaphore
  session, \* per ping, the session: its flags, the task and its progress
  waits,   \* ticks until xSemaphoreTake times out
  ended    \* history: per ping, the state the semaphore was in when it was given

pingVars == <<asked, count, done, session, waits, ended>>
deviceVars == <<netVars, pingVars>>

Pings == 1..MaxPings
NoSession == [init |-> FALSE, start |-> FALSE, notified |-> FALSE, task |-> "none",
              seqno |-> 0, spent |-> 0]

Uint32(n) == n % 2^CountWidth

\* cfg.interval_ms and cfg.timeout_ms, ESP_PING_DEFAULT_CONFIG.
Interval == Second
Timeout == Second

\* The macro multiplies before it divides, in 32 bits.
pdMS_TO_TICKS(ms) == Uint32(ms * HZ) \div Second

\* Mutant: just as long as the requests take.
ExactWait(n) == pdMS_TO_TICKS(Uint32(Uint32(n) * (Interval + Timeout)))

\* Mutant: the wait is counted in more than 32 bits.
UncutWait(n) == ((Uint32(n) * (Interval + Timeout) + 2 * Second) * HZ) \div Second

\* timeout_ticks: sum and both products wrap.
Wait(n) == pdMS_TO_TICKS(Uint32(Uint32(n) * (Interval + Timeout) + 2 * Second))

\* The ticks a request takes at most: its interval and its timeout.
RequestTicks == 2 * HZ

DeviceInit ==
  /\ NetworkInit
  /\ asked = 0
  /\ count = [p \in Pings |-> 0]
  /\ done = [p \in Pings |-> "none"]
  /\ session = [p \in Pings |-> NoSession]
  /\ waits = 0
  /\ ended = [p \in Pings |-> {}]

\* A reset takes the sessions and semaphores with it.
ColdPings ==
  /\ count' = [p \in Pings |-> 0]
  /\ done' = [p \in Pings |-> "none"]
  /\ session' = [p \in Pings |-> NoSession]
  /\ waits' = 0
  /\ ended' = [p \in Pings |-> {}]
  /\ UNCHANGED asked

Reset == Abort /\ ColdPings
-----------------------------------------------------------------------------
\* ---- cmd_ping ---------------------------------------------------------------

GotoConsole(where) ==
  /\ pc' = [pc EXCEPT !["console"] = where]
  /\ UNCHANGED <<build, config, started, hooked, station, creds, gateway, events, gw, gw_str,
                 writer, sntp, budget>>

At(where) == pc["console"] = where

\* A bad command line or a host that is not found changes nothing.  The
\* semaphore may not be there, for want of heap.
CmdPing ==
  /\ Prompt /\ asked < MaxPings /\ budget.commands < MaxCommands
  /\ asked' = asked + 1
  /\ \E n \in Counts : count' = [count EXCEPT ![asked'] = n]
  /\ \/ done' = [done EXCEPT ![asked'] = "empty"]
     \/ budget.restarts < MaxRestarts /\ done' = [done EXCEPT ![asked'] = "null"]
  /\ pc' = [pc EXCEPT !["console"] = "ping_session"] /\ Spend("commands")
  /\ UNCHANGED <<build, config, started, hooked, station, creds, gateway, events, gw, gw_str,
                 writer, sntp, session, waits, ended>>

\* Mutant: the failing path forgets the semaphore.
NewSessionLeaking ==
  /\ At("ping_session")
  /\ \/ /\ session' = [session EXCEPT ![asked].init = TRUE, ![asked].task = "waiting"]
        /\ GotoConsole("ping_start")
     \/ UNCHANGED session /\ GotoConsole("ready")
  /\ UNCHANGED <<asked, count, done, waits, ended>>

\* esp_ping_new_session creates the task; when it fails the semaphore goes.
NewSession ==
  /\ At("ping_session")
  /\ \/ /\ session' = [session EXCEPT ![asked].init = TRUE, ![asked].task = "waiting"]
        /\ GotoConsole("ping_start")
     \/ UNCHANGED session /\ GotoConsole("ping_semaphore")
  /\ UNCHANGED <<asked, count, done, waits, ended>>

\* esp_ping_start, and the timeout of what follows.
StartPing ==
  /\ At("ping_start")
  /\ session' = [session EXCEPT ![asked].start = TRUE, ![asked].notified = TRUE]
  /\ waits' = Wait(count[asked])
  /\ GotoConsole("ping_take")
  /\ UNCHANGED <<asked, count, done, ended>>

\* Mutant: portMAX_DELAY.
NeverTimesOut == FALSE

TimesOut == waits = 0

\* xSemaphoreTake, its result dropped.
TakeSemaphore ==
  /\ At("ping_take") /\ done[asked] # "null"
  /\ done[asked] = "given" \/ TimesOut
  /\ done' = [done EXCEPT ![asked] = "empty"]
  /\ waits' = 0
  /\ GotoConsole("ping_stop")
  /\ UNCHANGED <<asked, count, session, ended>>

StopPing ==
  /\ At("ping_stop")
  /\ session' = [session EXCEPT ![asked].start = FALSE]
  /\ GotoConsole("ping_delete")
  /\ UNCHANGED <<asked, count, done, waits, ended>>

\* esp_ping_delete_session tells the task to exit and does not wait for it.
DeletePing ==
  /\ At("ping_delete")
  /\ session' = [session EXCEPT ![asked].init = FALSE]
  /\ GotoConsole("ping_semaphore")
  /\ UNCHANGED <<asked, count, done, waits, ended>>

DeleteSemaphore ==
  /\ At("ping_semaphore") /\ done[asked] # "null"
  /\ done' = [done EXCEPT ![asked] = "deleted"]
  /\ GotoConsole("ready")
  /\ UNCHANGED <<asked, count, session, waits, ended>>

\* FreeRTOS asserts that there is a semaphore.
NoSemaphore ==
  /\ pc["console"] \in {"ping_take", "ping_semaphore"} /\ done[asked] = "null"
  /\ Reset

PingCommand ==
  \/ NewSession \/ StartPing \/ TakeSemaphore \/ StopPing \/ DeletePing \/ DeleteSemaphore
  \/ NoSemaphore
-----------------------------------------------------------------------------
\* ---- the ping task and the clock (external) ----------------------------------

\* The sequence number has 16 bits, the count 32: from 65536 requests on there
\* is always one more.
More(p) == session[p].start /\ (count[p] = 0 \/ session[p].seqno < Uint32(count[p]))

\* The task was notified: it sends the first request, if it was not stopped.
BeginPinging(p) ==
  /\ session[p].task = "waiting" /\ session[p].notified
  /\ session' = [session EXCEPT ![p].task = "pinging", ![p].notified = FALSE]
  /\ UNCHANGED <<netVars, asked, count, done, waits, ended>>

\* A request was answered or timed out (on_ping_success, on_ping_timeout only
\* print), and the interval is over.
EndRequest(p) ==
  /\ session[p].task = "pinging" /\ session[p].spent > 0 /\ More(p)
  /\ session' = [session EXCEPT ![p].seqno = (@ + 1) % 2^SeqnoWidth, ![p].spent = 0]
  /\ UNCHANGED <<netVars, asked, count, done, waits, ended>>

\* on_ping_end gives the semaphore the command waits on.
OnPingEnd(p) ==
  /\ session[p].task = "pinging" /\ ~More(p)
  /\ session' = [session EXCEPT ![p].task = "waiting"]
  /\ ended' = [ended EXCEPT ![p] = @ \cup {done[p]}]
  /\ done' = [done EXCEPT ![p] = IF @ = "empty" THEN "given" ELSE @]
  /\ UNCHANGED <<netVars, asked, count, waits>>

\* The task frees the session and deletes itself.
ExitTask(p) ==
  /\ session[p].task = "waiting" /\ ~session[p].notified /\ ~session[p].init
  /\ session' = [session EXCEPT ![p] = [NoSession EXCEPT !.task = "gone"]]
  /\ UNCHANGED <<netVars, asked, count, done, waits, ended>>

\* A request takes up to its interval and its timeout, also when the session is
\* stopped meanwhile; the callback follows the last one within a second.
Late(p) ==
  \/ session[p].task = "waiting" /\ (session[p].notified \/ ~session[p].init)
  \/ /\ session[p].task = "pinging"
     /\ session[p].spent >= IF session[p].start /\ ~More(p) THEN HZ ELSE RequestTicks

\* A tick passes.
Tick ==
  /\ waits > 0 /\ done[asked] # "null"
  /\ \A p \in Pings : ~Late(p)
  /\ waits' = waits - 1
  /\ session' = [p \in Pings |-> IF session[p].task = "pinging"
                                 THEN [session[p] EXCEPT !.spent = @ + 1] ELSE session[p]]
  /\ UNCHANGED <<netVars, asked, count, done, ended>>

PingTask(p) == BeginPinging(p) \/ EndRequest(p) \/ OnPingEnd(p) \/ ExitTask(p)

NetworkStep ==
  /\ NetworkNext
  /\ IF budget'.restarts = budget.restarts THEN UNCHANGED pingVars ELSE ColdPings

DeviceNext ==
  \/ NetworkStep \/ CmdPing \/ PingCommand
  \/ \E p \in Pings : PingTask(p)
  \/ Tick

DeviceSpec == DeviceInit /\ [][DeviceNext]_deviceVars

\* Besides Network's: the console task goes on with its command, a timed wait
\* ends, and so does a request, by its timeout.
DeviceFairness ==
  /\ NetworkFairness
  /\ WF_deviceVars(PingCommand)
  /\ WF_deviceVars(Tick)
  /\ \A p \in Pings : WF_deviceVars(PingTask(p))
-----------------------------------------------------------------------------
(* Properties *)

InPing == {"ping_session", "ping_start", "ping_take", "ping_stop", "ping_delete",
           "ping_semaphore"}

\* The timeout of a ping does not wrap, on its way to ticks either, and its
\* requests can be numbered.
InRange(n) ==
  /\ n > 0 /\ n < 2^SeqnoWidth
  /\ (n * (Interval + Timeout) + 2 * Second) * HZ < 2^CountWidth

\* Every variable keeps its type; the wait fits its TickType_t.
DeviceTypeOK ==
  /\ NetworkTypeOK
  /\ asked \in 0..MaxPings
  /\ count \in [Pings -> Counts \cup {0}]
  /\ done \in [Pings -> {"none", "null", "empty", "given", "deleted"}]
  /\ session \in [Pings -> [init : BOOLEAN, start : BOOLEAN, notified : BOOLEAN,
                            task : {"none", "waiting", "pinging", "gone"},
                            seqno : 0..2^SeqnoWidth - 1, spent : 0..RequestTicks]]
  /\ waits \in 0..2^CountWidth - 1
  /\ ended \in [Pings -> SUBSET {"null", "empty", "given", "deleted"}]

\* cmd_ping does not look at whether its wait timed out.  For a count whose
\* timeout does not wrap in any of its steps (up to 21473 on the device) it need
\* not: the two seconds of slack let the end callback give the semaphore before
\* session and semaphore are deleted, and no ping is cut short.
PingRunsToItsEnd ==
  \A p \in Pings :
    InRange(count[p]) =>
      /\ ended[p] \subseteq {"empty"}
      /\ asked = p /\ At("ping_stop") => ended[p] = {"empty"}

\* Whichever way cmd_ping returns, its semaphore and its session are deleted;
\* a session that is still running was told to stop.
NothingLeft ==
  ~(pc["console"] \in InPing) =>
    \A p \in Pings : /\ done[p] \in {"none", "deleted"}
                      /\ ~session[p].init /\ ~session[p].start

\* The prompt comes back from every ping, also from one of count 0 or of more
\* requests than have a number, which pings without end, and one whose timeout
\* wraps; only a reset is in its way.
PingReturns == pc["console"] \in InPing ~> ~(pc["console"] \in InPing)

\* configure.cpp:256: cmd_ping blocks until on_ping_end signals completion, so
\* what on_ping_end gives is there.
GiveFindsSemaphore == \A p \in Pings : "deleted" \notin ended[p]
=============================================================================
