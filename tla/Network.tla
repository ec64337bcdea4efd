------------------------------ MODULE Network ------------------------------
(***************************************************************************)
(* Start-up, the station and the clock: app_main (main/main.cpp),          *)
(* network_init, network_wifi_connect and the event handlers of both       *)
(* builds (components/service/ethernet.cpp), start_sntp (time.cpp) and the *)
(* console's wifi_connect and reboot (main/configure.cpp).                 *)
(*                                                                         *)
(* Three tasks run this code: main, the event task and the console.  The   *)
(* Wi-Fi driver, DHCP, the network interface and lwIP's SNTP client are    *)
(* external.  A call that may abort the device (ESP_ERROR_CHECK, an        *)
(* assertion of lwIP) either goes through or restarts it.                  *)
(***************************************************************************)
EXTENDS Integers, Sequences, FiniteSets

CONSTANTS
  Builds,      \* the builds looked at, of "wifi" and "ethernet"
  Credentials, \* pairs of SSID and password, stored or typed
  Networks,    \* the networks in reach, with the credentials they take
  Gateways,    \* addresses of gateways
  MaxJoins,    \* bound: addresses the station or the link gets
  MaxDrops,    \* bound: connections lost or refused
  MaxCommands, \* bound: commands that change something, given at the console
  MaxRestarts  \* bound: restarts of the device

\* A name is its text, as typed, and how many characters of it are there.
Names == [text : STRING, len : Nat]

ASSUME NetworkAssumption ==
  /\ Builds \subseteq {"wifi", "ethernet"}
  /\ \A c \in Credentials \cup Networks : c.ssid \in Names /\ c.password \in Names
  /\ {MaxJoins, MaxDrops, MaxCommands, MaxRestarts} \subseteq Nat

VARIABLES
  build,   \* CONFIG_ETH_USE_OPENETH or not
  pc,      \* per task, where it is
  config,  \* the credentials main and the console work with
  started, \* s_wifi_started
  hooked,  \* the event handlers are registered
  station, \* the driver: off, idle, connecting or joined
  creds,   \* the configuration of the station, {} or one
  gateway, \* the gateway of the default interface, {} while it has no address
  events,  \* events posted to the event task, in order
  gw,      \* per task, the gateway start_sntp read (ip_info), until it is formatted
  gw_str,  \* the buffer SNTP holds a pointer to, {} while it is empty
  writer,  \* history: the task that wrote gw_str last
  sntp,    \* the SNTP client of lwIP runs
  budget   \* what has been used of the bounds

netVars == <<build, pc, config, started, hooked, station, creds, gateway, events,
             gw, gw_str, writer, sntp, budget>>

Tasks == {"main", "event", "console"}

\* 0.0.0.0, the gateway of an interface that has no address yet.
NoAddress == "0.0.0.0"

NoCredentials == [ssid |-> [text |-> "", len |-> 0], password |-> [text |-> "", len |-> 0]]

\* Mutant: the console runs while the network is brought up.
ConsoleFirst == <<"config", "start_console", "network_init", "start_sntp">>

\* The calls of app_main; the last, start_processor, starts a task that is
\* modelled on its own.
AppMain == <<"config", "network_init", "start_sntp", "start_console">>

\* The call after c; at the end the task is deleted.
After(c) ==
  LET i == CHOOSE k \in DOMAIN AppMain : AppMain[k] = c
  IN  IF i = Len(AppMain) THEN "gone" ELSE AppMain[i + 1]

Goto(t, where) == pc' = [pc EXCEPT ![t] = where]

\* RAM as it is after a reset.
Cold ==
  /\ pc' = [t \in Tasks |-> IF t = "main" THEN AppMain[1] ELSE "off"]
  /\ config' = [t \in {"main", "console"} |-> NoCredentials]
  /\ started' = FALSE /\ hooked' = FALSE /\ station' = "off" /\ creds' = {}
  /\ gateway' = {} /\ events' = <<>>
  /\ gw' = [t \in Tasks |-> NoAddress] /\ gw_str' = {} /\ writer' = "none"
  /\ sntp' = FALSE
  /\ UNCHANGED build

NetworkInit ==
  /\ build \in Builds
  /\ pc = [t \in Tasks |-> IF t = "main" THEN AppMain[1] ELSE "off"]
  /\ config = [t \in {"main", "console"} |-> NoCredentials]
  /\ started = FALSE /\ hooked = FALSE /\ station = "off" /\ creds = {}
  /\ gateway = {} /\ events = <<>>
  /\ gw = [t \in Tasks |-> NoAddress] /\ gw_str = {} /\ writer = "none"
  /\ sntp = FALSE
  /\ budget = [joins |-> 0, drops |-> 0, commands |-> 0, restarts |-> 0]

Spend(what) == budget' = [budget EXCEPT ![what] = @ + 1]

\* A failed check or assertion, or esp_restart.
Abort == budget.restarts < MaxRestarts /\ Cold /\ Spend("restarts")
-----------------------------------------------------------------------------
\* ---- app_main -------------------------------------------------------------

\* Config config; the console's g_config was loaded before, from the same flash.
LoadConfig ==
  /\ pc["main"] = "config"
  /\ \E c \in Credentials : config' = [t \in {"main", "console"} |-> c]
  /\ Goto("main", After("config"))
  /\ UNCHANGED <<build, started, hooked, station, creds, gateway, events, gw, gw_str,
                 writer, sntp, budget>>

\* network_init up to the registration of the handlers, then the start of the
\* driver, then what follows it.
RegisterWifiHandlers ==
  /\ pc["main"] = "network_init" /\ build = "wifi"
  /\ IF started THEN Goto("main", After("network_init")) /\ UNCHANGED hooked
     ELSE Goto("main", "start_driver") /\ hooked' = TRUE
  /\ UNCHANGED <<build, config, started, station, creds, gateway, events, gw, gw_str,
                 writer, sntp, budget>>

\* The Ethernet build has no s_wifi_started to look at.
RegisterEthHandlers ==
  /\ pc["main"] = "network_init" /\ build = "ethernet"
  /\ hooked' = TRUE
  /\ Goto("main", "start_driver")
  /\ UNCHANGED <<build, config, started, station, creds, gateway, events, gw, gw_str,
                 writer, sntp, budget>>

StartDriver ==
  /\ pc["main"] = "start_driver"
  /\ station' = "idle"
  /\ Goto("main", IF build = "wifi" THEN "wifi_started" ELSE After("network_init"))
  /\ UNCHANGED <<build, config, started, hooked, creds, gateway, events, gw, gw_str,
                 writer, sntp, budget>>

WifiStarted ==
  /\ pc["main"] = "wifi_started"
  /\ started' = TRUE
  /\ Goto("main", IF config["main"].ssid.len > 0 THEN "wifi_connect"
                  ELSE After("network_init"))
  /\ UNCHANGED <<build, config, hooked, station, creds, gateway, events, gw, gw_str,
                 writer, sntp, budget>>

\* When app_main returns, its Config goes.
StartConsole ==
  /\ pc["main"] = "start_console"
  /\ pc' = [pc EXCEPT !["main"] = After("start_console"), !["console"] = "ready"]
  /\ config' = IF After("start_console") = "gone"
               THEN [config EXCEPT !["main"] = NoCredentials] ELSE config
  /\ UNCHANGED <<build, started, hooked, station, creds, gateway, events, gw, gw_str,
                 writer, sntp, budget>>
-----------------------------------------------------------------------------
\* ---- network_wifi_connect, called by main and by the console -----------------

\* What follows the call: the rest of app_main, or start_sntp of the command.
AfterConnect(t) == IF t = "main" THEN After("network_init") ELSE "start_sntp"

First(name, n) == IF name.len <= n THEN name ELSE [name EXCEPT !.len = n]

\* Mutant: the whole of both is copied.
WholeCredentials(c) == c

\* strncpy into 32 and 64 bytes, the last of which stays NUL.
StationConfig(c) == [ssid |-> First(c.ssid, 31), password |-> First(c.password, 63)]

\* On an Ethernet build the function is empty.
WifiConnect(t) ==
  /\ pc[t] = "wifi_connect"
  /\ Goto(t, IF build = "ethernet" \/ ~started \/ config[t].ssid.len = 0
             THEN AfterConnect(t) ELSE "set_config")
  /\ UNCHANGED <<build, config, started, hooked, station, creds, gateway, events, gw,
                 gw_str, writer, sntp, budget>>

\* ESP_ERROR_CHECK(esp_wifi_set_config): refused while the station connects.
SetConfig(t) ==
  /\ pc[t] = "set_config"
  /\ \/ /\ creds' = {StationConfig(config[t])}
        /\ Goto(t, "connect")
        /\ UNCHANGED <<build, config, started, hooked, station, gateway, events, gw,
                       gw_str, writer, sntp, budget>>
     \/ station = "connecting" /\ Abort

\* esp_wifi_connect, its result dropped: a station that is joined or connecting
\* may stay as it is, or give up what it has and try again.
Connect(t) ==
  /\ pc[t] = "connect"
  /\ \/ station' = "connecting" /\ gateway' = {}
     \/ station # "idle" /\ UNCHANGED <<station, gateway>>
  /\ Goto(t, AfterConnect(t))
  /\ UNCHANGED <<build, config, started, hooked, creds, events, gw, gw_str, writer, sntp,
                 budget>>
-----------------------------------------------------------------------------
\* ---- start_sntp, called by all three -----------------------------------------

AfterSntp(t) ==
  CASE t = "main" -> After("start_sntp")
    [] t = "event" -> "idle"
    [] t = "console" -> "ready"

\* Mutant: it waits until there is an address.
ReadGatewayWaiting(t) ==
  /\ pc[t] = "start_sntp"
  /\ gateway # {}
  /\ gw' = [gw EXCEPT ![t] = CHOOSE g \in gateway : TRUE]
  /\ Goto(t, "format")
  /\ UNCHANGED <<build, config, started, hooked, station, creds, gateway, events, gw_str,
                 writer, sntp, budget>>

\* Without an address there is no default interface, or it reports none.
ReadGateway(t) ==
  /\ pc[t] = "start_sntp"
  /\ \/ \E g \in (IF gateway = {} THEN {NoAddress} ELSE gateway) :
          gw' = [gw EXCEPT ![t] = g] /\ Goto(t, "format")
     \/ gateway = {} /\ Goto(t, AfterSntp(t)) /\ UNCHANGED gw
  /\ UNCHANGED <<build, config, started, hooked, station, creds, gateway, events, gw_str,
                 writer, sntp, budget>>

\* Mutant: the buffer is filled by the first call only.
FormatOnce(t) ==
  /\ pc[t] = "format"
  /\ gw_str' = IF gw_str = {} THEN {gw[t]} ELSE gw_str
  /\ writer' = t
  /\ gw' = [gw EXCEPT ![t] = NoAddress]
  /\ Goto(t, "set_mode")
  /\ UNCHANGED <<build, config, started, hooked, station, creds, gateway, events, sntp,
                 budget>>

\* esp_ip4addr_ntoa into the static buffer, which a running client reads.  It
\* writes character by character; here the text is there at once.
Format(t) ==
  /\ pc[t] = "format"
  /\ gw_str' = {gw[t]} /\ writer' = t
  /\ gw' = [gw EXCEPT ![t] = NoAddress]
  /\ Goto(t, "set_mode")
  /\ UNCHANGED <<build, config, started, hooked, station, creds, gateway, events, sntp,
                 budget>>

\* esp_sntp_setoperatingmode asserts that the client does not run.  The
\* sdkconfig of the repository compiles the assertion in (line 2746), so that
\* this device restarts; a build without it goes on.  Both are open here.
SetMode(t) ==
  /\ pc[t] = "set_mode"
  /\ \/ /\ Goto(t, "init_sntp")
        /\ UNCHANGED <<build, config, started, hooked, station, creds, gateway, events, gw,
                       gw_str, writer, sntp, budget>>
     \/ sntp /\ Abort

\* esp_sntp_setservername and esp_sntp_init, which starts the client once.
InitSntp(t) ==
  /\ pc[t] = "init_sntp"
  /\ sntp' = TRUE
  /\ Goto(t, AfterSntp(t))
  /\ UNCHANGED <<build, config, started, hooked, station, creds, gateway, events, gw,
                 gw_str, writer, budget>>
-----------------------------------------------------------------------------
\* ---- the event task ----------------------------------------------------------

\* Mutant: the handler writes a line and no more.
OnGotIpLogged == "idle"

OnGotIp == "start_sntp"

\* The default event loop exists from network_init on.  An event nobody has
\* registered for is dropped; a disconnection is logged.
Dispatch ==
  /\ pc["event"] \in {"off", "idle"} /\ events # <<>>
  /\ Goto("event", IF hooked /\ Head(events) = "got_ip" THEN OnGotIp ELSE "idle")
  /\ events' = Tail(events)
  /\ UNCHANGED <<build, config, started, hooked, station, creds, gateway, gw, gw_str,
                 writer, sntp, budget>>
-----------------------------------------------------------------------------
\* ---- the console ---------------------------------------------------------------

Prompt == pc["console"] = "ready"

\* set wifiSSID and set wifiPassword, then wifi_connect.
CmdWifiConnect ==
  /\ Prompt /\ budget.commands < MaxCommands /\ Spend("commands")
  /\ \E c \in Credentials :
       /\ config' = [config EXCEPT !["console"] = c]
       /\ Goto("console", IF c.ssid.len = 0 THEN "ready" ELSE "wifi_connect")
  /\ UNCHANGED <<build, started, hooked, station, creds, gateway, events, gw, gw_str,
                 writer, sntp>>

CmdReboot == Prompt /\ Abort
-----------------------------------------------------------------------------
\* ---- driver, DHCP, power (external) ----------------------------------------

Joins == budget.joins < MaxJoins /\ Spend("joins")
Drops == budget.drops < MaxDrops /\ Spend("drops")

\* The station joins the network it is configured for, or the link comes up,
\* and DHCP gives an address.
GetAddress ==
  /\ Joins
  /\ IF build = "wifi" THEN station = "connecting" /\ creds \subseteq Networks
     ELSE station = "idle"
  /\ station' = "joined"
  /\ \E g \in Gateways : gateway' = {g}
  /\ events' = Append(events, "got_ip")
  /\ UNCHANGED <<build, pc, config, started, hooked, creds, gw, gw_str, writer, sntp>>

\* DHCP gives another address.
ChangeAddress ==
  /\ Joins
  /\ station = "joined"
  /\ \E g \in Gateways \ gateway : gateway' = {g}
  /\ events' = Append(events, "got_ip")
  /\ UNCHANGED <<build, pc, config, started, hooked, station, creds, gw, gw_str, writer,
                 sntp>>

\* The connection is lost or was refused; the station does not try again.
LoseConnection ==
  /\ Drops
  /\ station \in {"connecting", "joined"}
  /\ station' = "idle" /\ gateway' = {}
  /\ events' = Append(events, "disconnected")
  /\ UNCHANGED <<build, pc, config, started, hooked, creds, gw, gw_str, writer, sntp>>

\* Power comes back after a failure.
PowerCycle == Abort

StartSntp(t) == ReadGateway(t) \/ Format(t) \/ SetMode(t) \/ InitSntp(t)
ConnectStation(t) == WifiConnect(t) \/ SetConfig(t) \/ Connect(t)

MainTask ==
  \/ LoadConfig \/ RegisterWifiHandlers \/ RegisterEthHandlers
  \/ StartDriver \/ WifiStarted
  \/ ConnectStation("main") \/ StartSntp("main")
  \/ StartConsole

EventTask == Dispatch \/ StartSntp("event")
ConsoleTask == ConnectStation("console") \/ StartSntp("console")
Commands == CmdWifiConnect \/ CmdReboot
World == GetAddress \/ ChangeAddress \/ LoseConnection \/ PowerCycle

NetworkNext == MainTask \/ EventTask \/ ConsoleTask \/ Commands \/ World
NetworkSpec == NetworkInit /\ [][NetworkNext]_netVars

\* FreeRTOS runs every task that is ready; nothing is assumed of the operator,
\* the networks or the power.
NetworkFairness == WF_netVars(MainTask) /\ WF_netVars(EventTask) /\ WF_netVars(ConsoleTask)
-----------------------------------------------------------------------------
(* Properties *)

Places == {"config", "network_init", "start_driver", "wifi_started", "wifi_connect",
           "set_config", "connect", "start_sntp", "format", "set_mode", "init_sntp",
           "start_console", "gone", "off", "idle", "ready",
           "ping_session", "ping_start", "ping_take", "ping_stop", "ping_delete",
           "ping_semaphore"}
Addresses == Gateways \cup {NoAddress}

\* Every variable keeps its type; what was copied into the 32 and 64 bytes of
\* the driver's configuration leaves room for the NUL strncpy does not write.
NetworkTypeOK ==
  /\ build \in Builds
  /\ pc \in [Tasks -> Places]
  /\ config \in [{"main", "console"} -> Credentials \cup {NoCredentials}]
  /\ started \in BOOLEAN /\ hooked \in BOOLEAN /\ sntp \in BOOLEAN
  /\ station \in {"off", "idle", "connecting", "joined"}
  /\ \A c \in creds : c.ssid.len \in 1..31 /\ c.password.len \in 0..63
  /\ gateway \subseteq Gateways /\ Cardinality(gateway) <= 1
  /\ events \in Seq({"got_ip", "disconnected"})
  /\ gw \in [Tasks -> Addresses] /\ gw_str \subseteq Addresses
  /\ writer \in Tasks \cup {"none"}
  /\ DOMAIN budget = {"joins", "drops", "commands", "restarts"}

Connecting == {"start_driver", "wifi_started", "wifi_connect", "set_config", "connect"}

\* app_main brings the network up before it starts the console: the station
\* main configures is idle, so that the ESP_ERROR_CHECK of ethernet.cpp:167
\* does not restart the device before anybody can type, and wifi_connect never
\* runs in two tasks.
SetupUndisturbed ==
  /\ pc["main"] \in {"set_config", "connect"} => station = "idle" /\ started
  /\ Cardinality({t \in Tasks : pc[t] \in Connecting}) <= 1

InSntp == {"start_sntp", "format", "set_mode", "init_sntp"}

\* The buffer SNTP reads is rewritten by three tasks while addresses come and
\* go.  Once all is quiet it names the present gateway, unless app_main or the
\* console wrote it last: a slow one of them may put an older gateway back.
SntpFollowsGateway ==
  /\ gateway # {} /\ events = <<>>
  /\ \A t \in Tasks : pc[t] \notin InSntp
  => writer \in {"main", "console"} \/ gw_str = gateway

\* A station or link that keeps its address gets its clock set: start_sntp runs
\* after the address is there, whatever the calls before it found.
SntpWhileJoined == <>[](gateway # {}) => <>[]sntp

\* The console, which is how credentials are entered, comes up after every
\* reset, whether there is a network or not.
ConsoleComesUp == pc["console"] = "off" ~> pc["console"] # "off"
=============================================================================
