---------------------------- MODULE DeviceProofs ----------------------------
(***************************************************************************)
(* Theorems about Device, for every value of its constants: types, that no *)
(* second task disturbs the bring-up, that the server SNTP reads catches   *)
(* up with the gateway, and that a ping is neither cut short nor leaves    *)
(* anything behind.  The lemmas about Network come first.                  *)
(***************************************************************************)
EXTENDS Device, FiniteSetTheorems, SequenceTheorems, TLAPS

Station == {"wifi_connect", "set_config", "connect"}

MainPlaces == {"config", "network_init", "start_driver", "wifi_started", "start_console",
               "gone"} \cup Station \cup InSntp

\* Where each task may be, what main has done by then, and that the console
\* waits for it.
Stages ==
  /\ pc["main"] \in MainPlaces
  /\ pc["event"] \in {"off", "idle"} \cup InSntp
  /\ pc["console"] \notin {"start_driver", "wifi_started"}
  /\ pc["console"] # "off" => pc["main"] = "gone"
  /\ pc["main"] \in {"config", "network_init"} => ~started /\ station = "off"
  /\ pc["main"] \notin {"config", "network_init"} => hooked
  /\ pc["main"] = "start_driver" => station = "off"
  /\ pc["main"] \in {"wifi_started"} \cup Station => build = "wifi" /\ station = "idle"
  /\ pc["main"] \in Station => started
  /\ \A t \in {"main", "console"} : pc[t] = "set_config" => config[t].ssid.len > 0

\* There is one address at most, and only while the station is joined.
Addressing ==
  /\ gateway # {} => station = "joined"
  /\ \A g, h \in gateway : g = h

\* The event task has yet to hear of an address.
Announced == \E i \in DOMAIN events : events[i] = "got_ip"

\* The present gateway is still announced, or the event task is on its way to
\* write it, or has written it, unless another task wrote after it.
Follows ==
  gateway # {} /\ ~Announced =>
    \/ pc["event"] = "start_sntp"
    \/ pc["event"] = "format" /\ gw["event"] \in gateway
    \/ /\ pc["event"] \notin {"start_sntp", "format"}
       /\ writer \in {"main", "console"} \/ gw_str = gateway

NetworkInv == NetworkTypeOK /\ Stages /\ Addressing /\ Follows
-----------------------------------------------------------------------------
\* The order of app_main.
LEMMA AfterIs ==
  /\ After("config") = "network_init" /\ After("network_init") = "start_sntp"
  /\ After("start_sntp") = "start_console" /\ After("start_console") = "gone"
<1>1. /\ DOMAIN AppMain = {1, 2, 3, 4} /\ Len(AppMain) = 4
      /\ AppMain[1] = "config" /\ AppMain[2] = "network_init"
      /\ AppMain[3] = "start_sntp" /\ AppMain[4] = "start_console"
  BY DEF AppMain
<1>2. (CHOOSE k \in DOMAIN AppMain : AppMain[k] = "config") = 1
  BY <1>1
<1>3. (CHOOSE k \in DOMAIN AppMain : AppMain[k] = "network_init") = 2
  BY <1>1
<1>4. (CHOOSE k \in DOMAIN AppMain : AppMain[k] = "start_sntp") = 3
  BY <1>1
<1>5. (CHOOSE k \in DOMAIN AppMain : AppMain[k] = "start_console") = 4
  BY <1>1
<1> QED
  BY <1>1, <1>2, <1>3, <1>4, <1>5 DEF After

\* A task goes somewhere, the others stay.
LEMMA GotoIs ==
  ASSUME pc \in [Tasks -> Places], NEW t \in Tasks, NEW w \in Places, Goto(t, w)
  PROVE  /\ pc' \in [Tasks -> Places] /\ pc'[t] = w
         /\ \A u \in Tasks : u # t => pc'[u] = pc[u]
  BY DEF Goto

\* A set with nothing in it but x.
LEMMA AtMostOne ==
  ASSUME NEW S, NEW x, S \subseteq {x}
  PROVE  Cardinality(S) <= 1
<1>1. S = {} \/ S = {x}
  OBVIOUS
<1>2. Cardinality({}) = 0 /\ Cardinality({x}) = 1
  BY FS_EmptySet, FS_Singleton
<1> QED
  BY <1>1, <1>2

\* No credentials have no SSID.
LEMMA NoSsid == NoCredentials.ssid.len = 0
  BY Zenon DEF NoCredentials

\* What the driver gets of a name leaves room for the NUL.
LEMMA FirstIs ==
  ASSUME NEW c \in Credentials \cup {NoCredentials}, c.ssid.len > 0, NetworkAssumption
  PROVE  StationConfig(c).ssid.len \in 1..31 /\ StationConfig(c).password.len \in 0..63
<1>1. c.ssid \in Names /\ c.password \in Names
  <2>1. c # NoCredentials
    BY NoSsid
  <2> QED BY <2>1 DEF NetworkAssumption
<1> QED
  BY <1>1 DEF StationConfig, First, Names

\* A reset leaves nothing of the past.
LEMMA ColdInv ==
  ASSUME build \in Builds, Cold, DOMAIN budget' = {"joins", "drops", "commands", "restarts"}
  PROVE  NetworkInv'
<1>1. /\ pc' = [t \in Tasks |-> IF t = "main" THEN "config" ELSE "off"]
      /\ config' = [t \in {"main", "console"} |-> NoCredentials]
      /\ ~started' /\ ~hooked' /\ ~sntp' /\ started' = FALSE /\ hooked' = FALSE /\ sntp' = FALSE
      /\ station' = "off" /\ creds' = {} /\ gateway' = {} /\ events' = <<>>
      /\ gw' = [t \in Tasks |-> NoAddress] /\ gw_str' = {} /\ writer' = "none"
      /\ build' = build
  BY DEF Cold, AppMain
<1>2. Cardinality({}) <= 1
  BY FS_EmptySet
<1>3. NetworkTypeOK'
  <2>1. pc' \in [Tasks -> Places] /\ gw' \in [Tasks -> Addresses]
        /\ config' \in [{"main", "console"} -> Credentials \cup {NoCredentials}]
    BY <1>1 DEF Places, Addresses
  <2>2. Cardinality(gateway') <= 1 /\ events' \in Seq({"got_ip", "disconnected"})
    BY <1>1, <1>2
  <2> QED BY <1>1, <2>1, <2>2 DEF NetworkTypeOK, Tasks
<1>4. Stages'
  BY <1>1 DEF Stages, MainPlaces, Station, InSntp, Tasks
<1> QED
  BY <1>1, <1>3, <1>4 DEF NetworkInv, Addressing, Follows

LEMMA InitHolds == NetworkInit => NetworkInv
<1> SUFFICES ASSUME NetworkInit PROVE NetworkInv
  OBVIOUS
<1>1. /\ pc = [t \in Tasks |-> IF t = "main" THEN "config" ELSE "off"]
      /\ build \in Builds
      /\ config = [t \in {"main", "console"} |-> NoCredentials]
      /\ started = FALSE /\ hooked = FALSE /\ sntp = FALSE
      /\ station = "off" /\ creds = {} /\ gateway = {} /\ events = <<>>
      /\ gw = [t \in Tasks |-> NoAddress] /\ gw_str = {} /\ writer = "none"
      /\ DOMAIN budget = {"joins", "drops", "commands", "restarts"}
  BY DEF NetworkInit, AppMain
<1>2. Cardinality({}) <= 1
  BY FS_EmptySet
<1>3. NetworkTypeOK
  <2>1. pc \in [Tasks -> Places] /\ gw \in [Tasks -> Addresses]
        /\ config \in [{"main", "console"} -> Credentials \cup {NoCredentials}]
    BY <1>1 DEF Places, Addresses
  <2>2. Cardinality(gateway) <= 1 /\ events \in Seq({"got_ip", "disconnected"})
    BY <1>1, <1>2
  <2> QED BY <1>1, <2>1, <2>2 DEF NetworkTypeOK, Tasks
<1>4. Stages
  BY <1>1 DEF Stages, MainPlaces, Station, InSntp, Tasks
<1> QED
  BY <1>1, <1>3, <1>4 DEF NetworkInv, Addressing, Follows

\* A restart, whatever its cause.
LEMMA AbortInv ==
  ASSUME NetworkInv, Abort
  PROVE  NetworkInv'
  BY ColdInv DEF NetworkInv, NetworkTypeOK, Abort, Spend

\* Steps that touch nothing an address depends on.
LEMMA NoAddressing ==
  ASSUME Addressing, Follows, UNCHANGED <<station, gateway, events, gw_str, writer>>,
         pc'["event"] = pc["event"], gw'["event"] = gw["event"]
  PROVE  Addressing' /\ Follows'
  BY DEF Addressing, Follows, Announced

\* app_main up to start_sntp, apart from what it shares with the console.
LEMMA SetupInv ==
  ASSUME NetworkAssumption, NetworkInv,
         \/ LoadConfig \/ RegisterWifiHandlers \/ RegisterEthHandlers \/ StartDriver
         \/ WifiStarted \/ StartConsole
  PROVE  NetworkInv'
<1> USE AfterIs DEF NetworkInv
<1>0. pc \in [Tasks -> Places] /\ Tasks = {"main", "event", "console"}
  BY DEF NetworkTypeOK, Tasks
<1>1. CASE LoadConfig
  <2>1. pc'["main"] = "network_init" /\ pc' \in [Tasks -> Places]
        /\ \A u \in Tasks : u # "main" => pc'[u] = pc[u]
    BY <1>0, <1>1, GotoIs DEF LoadConfig, Places
  <2>2. config' \in [{"main", "console"} -> Credentials \cup {NoCredentials}]
    BY <1>1 DEF LoadConfig
  <2>3. NetworkTypeOK'
    BY <1>1, <2>1, <2>2 DEF LoadConfig, NetworkTypeOK
  <2>4. Stages'
    BY <1>0, <1>1, <2>1 DEF LoadConfig, Stages, MainPlaces, Station, InSntp
  <2>5. Addressing' /\ Follows'
    BY <1>0, <1>1, <2>1, NoAddressing DEF LoadConfig
  <2> QED
    BY <2>3, <2>4, <2>5
<1>2. CASE RegisterWifiHandlers \/ RegisterEthHandlers
  <2>1. ~started /\ pc["main"] = "network_init"
    BY <1>2 DEF RegisterWifiHandlers, RegisterEthHandlers, Stages
  <2>2. Goto("main", "start_driver") /\ hooked' = TRUE
        /\ UNCHANGED <<build, config, started, station, creds, gateway, events, gw, gw_str,
                       writer, sntp, budget>>
    BY <1>2, <2>1 DEF RegisterWifiHandlers, RegisterEthHandlers
  <2>3. pc'["main"] = "start_driver" /\ pc' \in [Tasks -> Places]
        /\ \A u \in Tasks : u # "main" => pc'[u] = pc[u]
    BY <1>0, <2>2, GotoIs DEF Places
  <2>4. NetworkTypeOK'
    BY <2>2, <2>3 DEF NetworkTypeOK
  <2>5. Stages'
    BY <1>0, <2>1, <2>2, <2>3 DEF Stages, MainPlaces, Station, InSntp
  <2>6. Addressing' /\ Follows'
    BY <1>0, <2>2, <2>3, NoAddressing
  <2> QED
    BY <2>4, <2>5, <2>6
<1>3. CASE StartDriver
  <2>1. /\ pc'["main"] = IF build = "wifi" THEN "wifi_started" ELSE "start_sntp"
        /\ pc' \in [Tasks -> Places]
        /\ \A u \in Tasks : u # "main" => pc'[u] = pc[u]
    BY <1>0, <1>3, GotoIs DEF StartDriver, Places
  <2>2. gateway = {} /\ gateway' = {}
    BY <1>3 DEF StartDriver, Stages, Addressing
  <2>3. NetworkTypeOK'
    BY <1>3, <2>1 DEF StartDriver, NetworkTypeOK
  <2>4. Stages'
    BY <1>0, <1>3, <2>1 DEF StartDriver, Stages, MainPlaces, Station, InSntp
  <2> QED
    BY <2>2, <2>3, <2>4 DEF Addressing, Follows
<1>4. CASE WifiStarted
  <2>1. /\ pc'["main"] = IF config["main"].ssid.len > 0 THEN "wifi_connect" ELSE "start_sntp"
        /\ pc' \in [Tasks -> Places]
        /\ \A u \in Tasks : u # "main" => pc'[u] = pc[u]
    BY <1>0, <1>4, GotoIs DEF WifiStarted, Places
  <2>2. NetworkTypeOK'
    BY <1>4, <2>1 DEF WifiStarted, NetworkTypeOK
  <2>3. Stages'
    BY <1>0, <1>4, <2>1 DEF WifiStarted, Stages, MainPlaces, Station, InSntp
  <2>4. Addressing' /\ Follows'
    BY <1>0, <1>4, <2>1, NoAddressing DEF WifiStarted
  <2> QED
    BY <2>2, <2>3, <2>4
<1>5. CASE StartConsole
  <2>1. /\ pc'["main"] = "gone" /\ pc'["console"] = "ready" /\ pc'["event"] = pc["event"]
        /\ pc' \in [Tasks -> Places]
    BY <1>0, <1>5 DEF StartConsole, Places
  <2>2. config' \in [{"main", "console"} -> Credentials \cup {NoCredentials}]
    BY <1>5 DEF StartConsole, NetworkTypeOK
  <2>3. NetworkTypeOK'
    BY <1>5, <2>1, <2>2 DEF StartConsole, NetworkTypeOK
  <2>4. Stages'
    BY <1>0, <1>5, <2>1 DEF StartConsole, Stages, MainPlaces, Station, InSntp
  <2>5. Addressing' /\ Follows'
    BY <1>0, <1>5, <2>1, NoAddressing DEF StartConsole
  <2> QED
    BY <2>3, <2>4, <2>5
<1> QED
  BY <1>1, <1>2, <1>3, <1>4, <1>5

\* network_wifi_connect of main or of the console.
LEMMA ConnectInv ==
  ASSUME NetworkAssumption, NetworkInv, NEW t \in {"main", "console"}, ConnectStation(t)
  PROVE  NetworkInv'
<1> USE AfterIs DEF NetworkInv
<1>0. pc \in [Tasks -> Places] /\ Tasks = {"main", "event", "console"}
  BY DEF NetworkTypeOK, Tasks
<1>1. AfterConnect(t) = "start_sntp"
  BY DEF AfterConnect
<1>2. CASE WifiConnect(t)
  <2>1. PICK w \in {"start_sntp", "set_config"} :
          Goto(t, w) /\ (w = "set_config" => started /\ config[t].ssid.len # 0)
    BY <1>1, <1>2 DEF WifiConnect
  <2>2. pc'[t] = w /\ pc' \in [Tasks -> Places]
        /\ \A u \in Tasks : u # t => pc'[u] = pc[u]
    BY <1>0, <2>1, GotoIs DEF Places
  <2>3. NetworkTypeOK'
    BY <1>2, <2>2 DEF WifiConnect, NetworkTypeOK
  <2>4. w = "set_config" => config[t].ssid.len > 0
    <3>1. config[t] \in Credentials \/ config[t] = NoCredentials
      BY DEF NetworkTypeOK
    <3>2. config[t].ssid.len \in Nat
      BY <3>1, NoSsid DEF NetworkAssumption, Names
    <3> QED BY <2>1, <3>2
  <2>5. Stages'
    BY <1>0, <1>2, <2>1, <2>2, <2>4 DEF WifiConnect, Stages, MainPlaces, Station, InSntp
  <2>6. Addressing' /\ Follows'
    BY <1>0, <1>2, <2>2, NoAddressing DEF WifiConnect
  <2> QED
    BY <2>3, <2>5, <2>6
<1>3. CASE /\ SetConfig(t) /\ creds' = {StationConfig(config[t])} /\ Goto(t, "connect")
           /\ UNCHANGED <<build, config, started, hooked, station, gateway, events, gw,
                          gw_str, writer, sntp, budget>>
  <2>1. pc'[t] = "connect" /\ pc' \in [Tasks -> Places]
        /\ \A u \in Tasks : u # t => pc'[u] = pc[u]
    BY <1>0, <1>3, GotoIs DEF Places
  <2>2. pc[t] = "set_config" /\ config[t].ssid.len > 0
        /\ config[t] \in Credentials \cup {NoCredentials}
    BY <1>3 DEF SetConfig, Stages, NetworkTypeOK
  <2>3. NetworkTypeOK'
    BY <1>3, <2>1, <2>2, FirstIs DEF NetworkTypeOK
  <2>4. Stages'
    BY <1>0, <1>3, <2>1, <2>2 DEF Stages, MainPlaces, Station, InSntp
  <2>5. Addressing' /\ Follows'
    BY <1>0, <1>3, <2>1, NoAddressing
  <2> QED
    BY <2>3, <2>4, <2>5
<1>4. CASE Connect(t)
  <2>1. pc'[t] = "start_sntp" /\ pc' \in [Tasks -> Places]
        /\ \A u \in Tasks : u # t => pc'[u] = pc[u]
    BY <1>0, <1>1, <1>4, GotoIs DEF Connect, Places
  <2>2. pc[t] = "connect"
    BY <1>4 DEF Connect
  <2>3. CASE station' = "connecting" /\ gateway' = {}
    <3>1. NetworkTypeOK'
      BY <1>4, <2>1, <2>3, FS_EmptySet DEF Connect, NetworkTypeOK
    <3>2. Stages'
      BY <1>0, <1>4, <2>1, <2>2, <2>3 DEF Connect, Stages, MainPlaces, Station, InSntp
    <3> QED
      BY <2>3, <3>1, <3>2 DEF Addressing, Follows
  <2>4. CASE UNCHANGED <<station, gateway>>
    <3>1. NetworkTypeOK'
      BY <1>4, <2>1, <2>4 DEF Connect, NetworkTypeOK
    <3>2. Stages'
      BY <1>0, <1>4, <2>1, <2>2, <2>4 DEF Connect, Stages, MainPlaces, Station, InSntp
    <3>3. Addressing' /\ Follows'
      BY <1>0, <1>4, <2>1, <2>4, NoAddressing DEF Connect
    <3> QED
      BY <3>1, <3>2, <3>3
  <2> QED
    BY <1>4, <2>3, <2>4 DEF Connect
<1> QED
  BY <1>2, <1>3, <1>4, AbortInv DEF ConnectStation, SetConfig

\* start_sntp of any of the three tasks.
LEMMA SntpInv ==
  ASSUME NetworkInv, NEW t \in Tasks, StartSntp(t)
  PROVE  NetworkInv'
<1> USE AfterIs DEF NetworkInv
<1>0. pc \in [Tasks -> Places] /\ Tasks = {"main", "event", "console"}
  BY DEF NetworkTypeOK, Tasks
<1>a. /\ AfterSntp(t) \in Places
      /\ t = "main" => AfterSntp(t) = "start_console"
      /\ t = "event" => AfterSntp(t) = "idle"
      /\ t = "console" => AfterSntp(t) = "ready"
  BY <1>0 DEF AfterSntp, Places
<1>1. ASSUME NEW w \in Places, Goto(t, w), pc[t] \in InSntp, w \in InSntp \cup {AfterSntp(t)},
             UNCHANGED <<build, config, started, hooked, station>>
      PROVE  Stages' /\ pc' \in [Tasks -> Places] /\ pc'[t] = w
             /\ \A u \in Tasks : u # t => pc'[u] = pc[u]
  <2>1. pc'[t] = w /\ pc' \in [Tasks -> Places]
        /\ \A u \in Tasks : u # t => pc'[u] = pc[u]
    BY <1>0, <1>1, GotoIs
  <2> QED
    BY <1>0, <1>a, <1>1, <2>1 DEF Stages, MainPlaces, Station, InSntp
<1>2. CASE ReadGateway(t)
  <2>1. PICK w \in {"format", AfterSntp(t)} : Goto(t, w) /\ (w = "format" \/ gateway = {})
    BY <1>2 DEF ReadGateway
  <2>2. Stages' /\ pc' \in [Tasks -> Places] /\ pc'[t] = w
        /\ \A u \in Tasks : u # t => pc'[u] = pc[u]
    <3>1. UNCHANGED <<build, config, started, hooked, station>> /\ pc[t] \in InSntp
      BY <1>2 DEF ReadGateway, InSntp
    <3>2. w \in Places /\ w \in InSntp \cup {AfterSntp(t)}
      BY <1>a DEF Places, InSntp
    <3> QED BY <1>1, <2>1, <3>1, <3>2
  <2>3. gw' \in [Tasks -> Addresses]
    BY <1>2 DEF ReadGateway, NetworkTypeOK, Addresses
  <2>4. NetworkTypeOK'
    BY <1>2, <2>2, <2>3 DEF ReadGateway, NetworkTypeOK
  <2>5. Addressing'
    BY <1>2 DEF ReadGateway, Addressing
  <2>6. Follows'
    <3>1. CASE t # "event"
      <4>1. pc'["event"] = pc["event"]
        BY <1>0, <2>2, <3>1
      <4>2. gw'["event"] = gw["event"]
        BY <1>0, <1>2, <3>1 DEF ReadGateway, NetworkTypeOK
      <4> QED
        BY <1>2, <4>1, <4>2, NoAddressing DEF ReadGateway
    <3>2. CASE t = "event" /\ gateway # {}
      <4>1. PICK g \in gateway : gw' = [gw EXCEPT !["event"] = g] /\ Goto("event", "format")
        BY <1>2, <3>2 DEF ReadGateway
      <4>2. pc'["event"] = "format" /\ gw'["event"] = g
        BY <1>0, <4>1, GotoIs DEF NetworkTypeOK, Places
      <4> QED
        BY <1>2, <4>2 DEF ReadGateway, Follows
    <3>3. CASE gateway = {}
      BY <1>2, <3>3 DEF ReadGateway, Follows
    <3> QED
      BY <3>1, <3>2, <3>3
  <2> QED
    BY <2>2, <2>4, <2>5, <2>6
<1>3. CASE Format(t)
  <2>1. Stages' /\ pc' \in [Tasks -> Places] /\ pc'[t] = "set_mode"
        /\ \A u \in Tasks : u # t => pc'[u] = pc[u]
    BY <1>1, <1>3 DEF Format, Places, InSntp
  <2>2. gw' \in [Tasks -> Addresses] /\ gw_str' \subseteq Addresses /\ writer' \in Tasks
    BY <1>3 DEF Format, NetworkTypeOK, Addresses
  <2>3. NetworkTypeOK'
    BY <1>3, <2>1, <2>2 DEF Format, NetworkTypeOK
  <2>4. Addressing'
    BY <1>3 DEF Format, Addressing
  <2>5. Follows'
    <3>1. CASE t # "event"
      <4>1. pc'["event"] = pc["event"] /\ writer' \in {"main", "console"}
        BY <1>0, <1>3, <2>1, <3>1 DEF Format
      <4>2. gw'["event"] = gw["event"]
        BY <1>0, <1>3, <3>1 DEF Format, NetworkTypeOK
      <4> QED
        BY <1>3, <4>1, <4>2 DEF Format, Follows, Announced
    <3>2. CASE t = "event" /\ gateway # {} /\ ~Announced
      <4>1. gw["event"] \in gateway
        BY <1>3, <3>2 DEF Format, Follows
      <4>2. gateway = {gw["event"]}
        BY <4>1 DEF Addressing
      <4>3. gw_str' = gateway'
        BY <1>3, <3>2, <4>2 DEF Format
      <4> QED
        BY <2>1, <3>2, <4>3 DEF Follows
    <3>3. CASE gateway = {} \/ Announced
      BY <1>3, <3>3 DEF Format, Follows, Announced
    <3> QED
      BY <3>1, <3>2, <3>3
  <2> QED
    BY <2>1, <2>3, <2>4, <2>5
<1>4. CASE \/ InitSntp(t)
           \/ /\ pc[t] = "set_mode" /\ Goto(t, "init_sntp")
              /\ UNCHANGED <<build, config, started, hooked, station, creds, gateway, events,
                             gw, gw_str, writer, sntp, budget>>
  <2>1. PICK w \in {"init_sntp", AfterSntp(t)} : Goto(t, w)
    BY <1>4 DEF InitSntp
  <2>2. pc[t] \in {"set_mode", "init_sntp"} /\ sntp' \in {sntp, TRUE}
        /\ UNCHANGED <<build, config, started, hooked, station, creds, gateway, events, gw,
                       gw_str, writer, budget>>
    BY <1>4 DEF InitSntp
  <2>3. Stages' /\ pc' \in [Tasks -> Places] /\ pc'[t] = w
        /\ \A u \in Tasks : u # t => pc'[u] = pc[u]
    <3>1. w \in Places /\ w \in InSntp \cup {AfterSntp(t)} /\ pc[t] \in InSntp
      BY <1>a, <2>2 DEF Places, InSntp
    <3> QED BY <1>1, <2>1, <2>2, <3>1
  <2>4. NetworkTypeOK'
    BY <2>2, <2>3 DEF NetworkTypeOK
  <2>5. Addressing' /\ Follows'
    <3>1. CASE t # "event"
      BY <1>0, <2>2, <2>3, <3>1, NoAddressing
    <3>2. CASE t = "event"
      BY <1>0, <1>a, <2>2, <2>3, <3>2 DEF Addressing, Follows, Announced
    <3> QED BY <3>1, <3>2
  <2> QED
    BY <2>3, <2>4, <2>5
<1> QED
  BY <1>2, <1>3, <1>4, AbortInv DEF StartSntp, SetMode

\* What is left of a sequence without its head.
LEMMA TailKeeps ==
  ASSUME events \in Seq({"got_ip", "disconnected"}), events # <<>>
  PROVE  /\ Tail(events) \in Seq({"got_ip", "disconnected"})
         /\ Announced /\ Head(events) # "got_ip" =>
              \E i \in DOMAIN Tail(events) : Tail(events)[i] = "got_ip"
<1>1. /\ Head(events) = events[1] /\ Tail(events) \in Seq({"got_ip", "disconnected"})
      /\ Len(Tail(events)) = Len(events) - 1 /\ Len(events) \in Nat \ {0}
      /\ \A i \in 1..Len(Tail(events)) : Tail(events)[i] = events[i+1]
  BY HeadTailProperties, EmptySeq
<1>2. /\ DOMAIN events = 1..Len(events)
      /\ DOMAIN Tail(events) = 1..(Len(events) - 1)
  BY <1>1
<1>3. ASSUME NEW i \in DOMAIN events, events[i] = "got_ip", Head(events) # "got_ip"
      PROVE  \E j \in DOMAIN Tail(events) : Tail(events)[j] = "got_ip"
  <2>1. i - 1 \in DOMAIN Tail(events)
    BY <1>1, <1>2, <1>3
  <2>2. Tail(events)[i - 1] = "got_ip"
    BY <1>1, <1>2, <1>3, <2>1
  <2> QED BY <2>1, <2>2
<1> QED
  BY <1>1, <1>3 DEF Announced

\* The event task takes an event.
LEMMA DispatchInv ==
  ASSUME NetworkInv, Dispatch
  PROVE  NetworkInv'
<1> USE DEF NetworkInv
<1>0. pc \in [Tasks -> Places] /\ Tasks = {"main", "event", "console"}
      /\ events \in Seq({"got_ip", "disconnected"})
  BY DEF NetworkTypeOK, Tasks
<1>1. PICK w \in {"start_sntp", "idle"} :
        Goto("event", w) /\ (hooked /\ Head(events) = "got_ip" => w = "start_sntp")
  BY DEF Dispatch, OnGotIp
<1>2. pc'["event"] = w /\ pc' \in [Tasks -> Places]
      /\ \A u \in Tasks : u # "event" => pc'[u] = pc[u]
  BY <1>0, <1>1, GotoIs DEF Places
<1>3. events' = Tail(events) /\ events' \in Seq({"got_ip", "disconnected"})
      /\ (Announced /\ Head(events) # "got_ip" => Announced')
  BY <1>0, TailKeeps DEF Dispatch, Announced
<1>4. NetworkTypeOK'
  BY <1>2, <1>3 DEF Dispatch, NetworkTypeOK
<1>5. Stages'
  BY <1>0, <1>2 DEF Dispatch, Stages, InSntp
<1>6. gateway # {} => hooked
  BY DEF Addressing, Stages
<1>7. Addressing' /\ Follows'
  BY <1>1, <1>2, <1>3, <1>6 DEF Dispatch, Addressing, Follows
<1> QED
  BY <1>4, <1>5, <1>7

\* Posting an event.
LEMMA PostedEvent ==
  ASSUME events \in Seq({"got_ip", "disconnected"}), NEW e \in {"got_ip", "disconnected"},
         events' = Append(events, e)
  PROVE  events' \in Seq({"got_ip", "disconnected"}) /\ (e = "got_ip" => Announced')
<1>1. /\ events' \in Seq({"got_ip", "disconnected"}) /\ Len(events) \in Nat
      /\ Len(events') = Len(events) + 1 /\ events'[Len(events) + 1] = e
  BY AppendProperties, LenProperties
<1>2. DOMAIN events' = 1..Len(events')
  BY <1>1
<1>3. Len(events) + 1 \in DOMAIN events'
  BY <1>1, <1>2
<1> QED
  BY <1>1, <1>3 DEF Announced

\* The driver, DHCP and the power.
LEMMA WorldInv ==
  ASSUME NetworkInv, World
  PROVE  NetworkInv'
<1> USE DEF NetworkInv
<1>0. events \in Seq({"got_ip", "disconnected"})
      /\ DOMAIN budget = {"joins", "drops", "commands", "restarts"}
  BY DEF NetworkTypeOK
<1>1. CASE GetAddress \/ ChangeAddress
  <2>1. PICK g \in Gateways : gateway' = {g}
    BY <1>1 DEF GetAddress, ChangeAddress
  <2>2. events' \in Seq({"got_ip", "disconnected"}) /\ Announced'
    BY <1>0, <1>1, PostedEvent DEF GetAddress, ChangeAddress
  <2>3. DOMAIN budget' = {"joins", "drops", "commands", "restarts"}
    BY <1>0, <1>1 DEF GetAddress, ChangeAddress, Joins, Spend
  <2>4. station' = "joined" /\ station # "off"
        /\ (build = "wifi" => station # "idle")
        /\ UNCHANGED <<build, pc, config, started, hooked, creds, gw, gw_str, writer, sntp>>
    BY <1>1 DEF GetAddress, ChangeAddress
  <2>5. Cardinality(gateway') <= 1
    BY <2>1, AtMostOne
  <2>6. NetworkTypeOK'
    BY <2>1, <2>2, <2>3, <2>4, <2>5 DEF NetworkTypeOK
  <2>7. Stages'
    BY <2>4 DEF Stages
  <2> QED
    BY <2>1, <2>2, <2>4, <2>6, <2>7 DEF Addressing, Follows
<1>2. CASE LoseConnection
  <2>1. events' \in Seq({"got_ip", "disconnected"})
    BY <1>0, <1>2, PostedEvent DEF LoseConnection
  <2>2. DOMAIN budget' = {"joins", "drops", "commands", "restarts"}
    BY <1>0, <1>2 DEF LoseConnection, Drops, Spend
  <2>3. NetworkTypeOK'
    BY <1>2, <2>1, <2>2, FS_EmptySet DEF LoseConnection, NetworkTypeOK
  <2>4. Stages'
    BY <1>2 DEF LoseConnection, Stages
  <2> QED
    BY <1>2, <2>3, <2>4 DEF LoseConnection, Addressing, Follows
<1>3. CASE PowerCycle
  BY <1>3, AbortInv DEF PowerCycle
<1> QED
  BY <1>1, <1>2, <1>3 DEF World

\* The console goes somewhere else than to the start of the driver or to
\* set_config, with credentials of the right type.
LEMMA ConsoleInv ==
  ASSUME NetworkInv, pc["console"] # "off", NEW w \in Places \ {"off", "start_driver", "wifi_started", "set_config"},
         pc' = [pc EXCEPT !["console"] = w],
         config' \in [{"main", "console"} -> Credentials \cup {NoCredentials}],
         config'["main"] = config["main"],
         DOMAIN budget' = {"joins", "drops", "commands", "restarts"},
         UNCHANGED <<build, started, hooked, station, creds, gateway, events, gw, gw_str,
                     writer, sntp>>
  PROVE  NetworkInv'
<1> USE DEF NetworkInv
<1>1. pc' \in [Tasks -> Places] /\ pc'["console"] = w
      /\ pc'["main"] = pc["main"] /\ pc'["event"] = pc["event"]
  BY DEF NetworkTypeOK, Tasks
<1>2. NetworkTypeOK'
  BY <1>1 DEF NetworkTypeOK
<1>3. Stages'
  BY <1>1 DEF Stages
<1>4. Addressing' /\ Follows'
  BY <1>1, NoAddressing
<1> QED
  BY <1>2, <1>3, <1>4

LEMMA CommandInv ==
  ASSUME NetworkInv, Commands
  PROVE  NetworkInv'
<1>1. CASE CmdWifiConnect
  <2>1. PICK c \in Credentials :
          /\ config' = [config EXCEPT !["console"] = c]
          /\ Goto("console", IF c.ssid.len = 0 THEN "ready" ELSE "wifi_connect")
    BY <1>1 DEF CmdWifiConnect
  <2>2. pc["console"] # "off" /\ DOMAIN budget' = DOMAIN budget
    BY <1>1 DEF CmdWifiConnect, Prompt, Spend
  <2>3. \E w \in {"ready", "wifi_connect"} : pc' = [pc EXCEPT !["console"] = w]
    BY <2>1 DEF Goto
  <2>4. config' \in [{"main", "console"} -> Credentials \cup {NoCredentials}]
        /\ config'["main"] = config["main"]
    BY <2>1 DEF NetworkInv, NetworkTypeOK
  <2> QED
    BY <1>1, <2>2, <2>3, <2>4, ConsoleInv DEF CmdWifiConnect, Places, NetworkInv, NetworkTypeOK
<1>2. CASE CmdReboot
  BY <1>2, AbortInv DEF CmdReboot
<1> QED
  BY <1>1, <1>2 DEF Commands

\* NetworkInv is inductive.
LEMMA NetworkStepInv ==
  ASSUME NetworkAssumption, NetworkInv, [NetworkNext]_netVars
  PROVE  NetworkInv'
<1>1. CASE MainTask \/ EventTask \/ ConsoleTask
  BY <1>1, SetupInv, ConnectInv, SntpInv, DispatchInv DEF MainTask, EventTask, ConsoleTask, Tasks
<1>2. CASE UNCHANGED netVars
  BY <1>2 DEF netVars, NetworkInv, NetworkTypeOK, Stages, Addressing, Follows, Announced
<1> QED
  BY <1>1, <1>2, CommandInv, WorldInv DEF NetworkNext

\* What NetworkInv says of the two properties.
LEMMA Undisturbed ==
  ASSUME NetworkInv
  PROVE  SetupUndisturbed /\ SntpFollowsGateway
<1>1. SetupUndisturbed
  <2>1. {t \in Tasks : pc[t] \in Connecting} \subseteq {"main"}
        \/ {t \in Tasks : pc[t] \in Connecting} \subseteq {"console"}
    BY DEF NetworkInv, Stages, Tasks, Connecting, InSntp
  <2>2. Cardinality({t \in Tasks : pc[t] \in Connecting}) <= 1
    BY <2>1, AtMostOne
  <2> QED
    BY <2>2 DEF SetupUndisturbed, NetworkInv, Stages, Station
<1>2. SntpFollowsGateway
  <2>1. events = <<>> => ~Announced
    <3>1. DOMAIN <<>> = {}
      OBVIOUS
    <3> QED BY <3>1 DEF Announced
  <2> QED
    BY <2>1 DEF SntpFollowsGateway, NetworkInv, Follows, InSntp, Tasks
<1> QED
  BY <1>1, <1>2

-----------------------------------------------------------------------------
\* ---- Device -----------------------------------------------------------------

\* What a ping has before it is asked for, and after a reset.
Fresh(p) ==
  count[p] = 0 /\ done[p] = "none" /\ session[p] = NoSession /\ ended[p] = {}

\* Ping p is not under way.
Idle(p) ==
  /\ done[p] \in {"none", "deleted"}
  /\ ~session[p].init /\ ~session[p].start

Opened == [NoSession EXCEPT !.init = TRUE, !.task = "waiting"]

\* What the command under way has done.
UnderWay ==
  LET s == session[asked] IN
  /\ asked \in Pings /\ done[asked] \in {"null", "empty", "given"}
  /\ At("ping_session") => s = NoSession /\ ended[asked] = {}
  /\ At("ping_start") => s = Opened /\ ended[asked] = {}
  /\ At("ping_session") \/ At("ping_start") => done[asked] # "given"
  /\ pc["console"] \in {"ping_take", "ping_stop"} => s.start
  /\ pc["console"] \in {"ping_start", "ping_take", "ping_stop", "ping_delete"} =>
       s.init /\ s.task # "none"
  /\ pc["console"] \in {"ping_delete", "ping_semaphore"} => ~s.start
  /\ At("ping_semaphore") => ~s.init

\* The ticks n requests take at most.
Ticks(n) == RequestTicks * n

\* For a count whose timeout does not wrap: the time left is at least what the
\* requests to come can take and one second more.
Timed(p) ==
  LET s == session[p]
  IN  \/ ended[p] = {} /\ s.task = "none"
      \/ ended[p] = {} /\ p = asked /\ At("ping_start")
      \/ /\ ended[p] = {} /\ p = asked /\ At("ping_take") /\ done[p] # "given"
         /\ s.task = "waiting" /\ s.notified /\ s.seqno = 0 /\ s.spent = 0
         /\ waits >= Ticks(count[p] + 1)
      \/ /\ ended[p] = {} /\ p = asked /\ At("ping_take") /\ done[p] # "given"
         /\ s.task = "pinging" /\ ~s.notified
         /\ s.seqno <= count[p] /\ (s.seqno = count[p] => s.spent <= HZ)
         /\ done[p] = "null" => s.seqno = 0 /\ s.spent = 0
         /\ waits + Ticks(s.seqno) + s.spent >= Ticks(count[p] + 1)
      \/ ended[p] = {"empty"} /\ s.task \in {"waiting", "gone"} /\ ~s.notified

PingInv ==
  /\ \A p \in Pings : p > asked => Fresh(p)
  /\ \A p \in Pings : p # asked \/ pc["console"] \notin InPing => Idle(p)
  /\ pc["console"] \in InPing => UnderWay
  /\ \A p \in Pings : session[p].task # "none" => done[p] # "none"
  /\ \A p \in Pings : InRange(count[p]) => Timed(p)

Sessions == [init : BOOLEAN, start : BOOLEAN, notified : BOOLEAN,
             task : {"none", "waiting", "pinging", "gone"},
             seqno : 0..2^SeqnoWidth - 1, spent : 0..RequestTicks]

BudgetOK == budget \in [{"joins", "drops", "commands", "restarts"} -> Nat]

PingTypeOK ==
  /\ asked \in 0..MaxPings
  /\ count \in [Pings -> Counts \cup {0}]
  /\ done \in [Pings -> {"none", "null", "empty", "given", "deleted"}]
  /\ session \in [Pings -> Sessions]
  /\ waits \in 0..2^CountWidth - 1
  /\ ended \in [Pings -> SUBSET {"null", "empty", "given", "deleted"}]

DeviceInv == NetworkInv /\ BudgetOK /\ PingTypeOK /\ PingInv
-----------------------------------------------------------------------------
\* A remainder.
LEMMA Remainder ==
  ASSUME NEW m \in Nat \ {0}, NEW n \in Int
  PROVE  n % m \in 0..m - 1 /\ (n \in 0..m - 1 => n % m = n)
  OBVIOUS

\* A quotient: less than what was divided, and what was multiplied.
LEMMA Quotient ==
  ASSUME NEW m \in Nat \ {0}, NEW n \in Nat
  PROVE  /\ n \div m \in 0..n
         /\ \A a \in Nat : n = a * m => n \div m = a
<1> DEFINE q == n \div m
           r == n % m
<1>1. q \in Int /\ r \in 0..m - 1 /\ n = m * q + r
  OBVIOUS
<1> HIDE DEF q, r
<1>2. q >= 0
  <2> SUFFICES ASSUME q <= -1 PROVE FALSE
    BY <1>1
  <2>1. m * q <= m * (-1)
    BY <1>1
  <2> QED BY <1>1, <2>1
<1>3. q <= n
  <2>1. m * q >= q
    BY <1>1, <1>2
  <2> QED BY <1>1, <2>1
<1>4. ASSUME NEW a \in Nat, n = a * m PROVE q = a
  <2>1. q <= a
    <3> SUFFICES ASSUME q >= a + 1 PROVE FALSE
      BY <1>1
    <3>1. m * q >= m * (a + 1)
      BY <1>1
    <3>2. m * (a + 1) = a * m + m
      OBVIOUS
    <3> QED BY <1>1, <1>4, <3>1, <3>2
  <2>2. q >= a
    <3> SUFFICES ASSUME q + 1 <= a PROVE FALSE
      BY <1>1
    <3>1. m * (q + 1) <= m * a
      BY <1>1
    <3>2. m * (q + 1) = m * q + m /\ m * a = a * m
      BY <1>1
    <3> QED BY <1>1, <1>4, <3>1, <3>2
  <2> QED BY <1>1, <2>1, <2>2
<1> QED
  BY <1>1, <1>2, <1>3, <1>4 DEF q

\* One more request takes so many ticks more.
LEMMA TicksAre ==
  ASSUME DeviceAssumption
  PROVE  /\ HZ \in Nat \ {0} /\ RequestTicks = HZ + HZ /\ Ticks(0) = 0
         /\ \A a \in Int : /\ Ticks(a) \in Int /\ Ticks(a + 1) \in Int
                          /\ Ticks(a + 1) = Ticks(a) + RequestTicks
         /\ \A a, b \in Int : a < b => Ticks(a) + RequestTicks <= Ticks(b)
<1>1. HZ \in Nat \ {0} /\ RequestTicks = 2 * HZ
  BY DEF DeviceAssumption, RequestTicks
<1> DEFINE h == RequestTicks
<1>2. h \in Nat \ {0} /\ h = HZ + HZ
  BY <1>1
<1>3. \A n : Ticks(n) = h * n
  BY DEF Ticks
<1> HIDE DEF h
<1>4. ASSUME NEW a \in Int PROVE h * a \in Int /\ h * (a + 1) = h * a + h
  BY <1>2
<1>5. ASSUME NEW a \in Int, NEW b \in Int, a < b PROVE h * a + h <= h * b
  <2>1. h * (a + 1) <= h * b
    BY <1>2, <1>5
  <2> QED BY <1>4, <2>1
<1>6. \A a \in Int : Ticks(a) \in Int /\ Ticks(a + 1) \in Int /\ Ticks(a + 1) = Ticks(a) + h
  <2> TAKE a \in Int
  <2>1. Ticks(a) = h * a /\ Ticks(a + 1) = h * (a + 1)
    BY <1>3
  <2>2. h * a \in Int /\ h * (a + 1) = h * a + h
    BY <1>4
  <2> QED BY <1>2, <2>1, <2>2
<1>7. \A a, b \in Int : a < b => Ticks(a) + h <= Ticks(b)
  BY <1>3, <1>5
<1>8. Ticks(0) = 0
  BY <1>2, <1>3
<1> QED
  BY <1>1, <1>2, <1>6, <1>7, <1>8 DEF h

\* The timeout of a ping.
LEMMA WaitIs ==
  ASSUME DeviceAssumption, NEW n \in Counts \cup {0}
  PROVE  /\ n \in Int
         /\ Uint32(n) \in 0..2^CountWidth - 1 /\ Wait(n) \in 0..2^CountWidth - 1
         /\ InRange(n) => /\ n \in Nat \ {0} /\ Uint32(n) = n /\ n < 2^SeqnoWidth
                          /\ Wait(n) = Ticks(n + 1)
<1> DEFINE m == 2 ^ CountWidth
           u == Uint32(n)
           k == u * (Second + Second) + 2 * Second
           v == (k % m) * HZ
<1>1. n \in Int /\ m \in Nat \ {0, 1} /\ Second \in Nat \ {0} /\ HZ \in Nat \ {0}
  BY DEF DeviceAssumption
<1>2. /\ u = n % m /\ Wait(n) = (v % m) \div Second
      /\ InRange(n) <=> /\ n > 0 /\ n < 2^SeqnoWidth
                        /\ (n * (Second + Second) + 2 * Second) * HZ < m
  BY <1>1 DEF Uint32, Wait, InRange, Interval, Timeout, pdMS_TO_TICKS
<1>3. Ticks(n + 1) = (2 * HZ) * (n + 1)
  BY DEF Ticks, RequestTicks
<1>4. u \in 0..m - 1 /\ (n \in 0..m - 1 => u = n)
  <2> HIDE DEF m
  <2> QED BY <1>1, <1>2, Remainder
<1>5. k \in Nat /\ k % m \in 0..m - 1 /\ (k \in 0..m - 1 => k % m = k)
  <2>1. k \in Nat
    <3> HIDE DEF m, u
    <3> QED BY <1>1, <1>4
  <2> HIDE DEF m, k
  <2>2. m \in Nat \ {0} /\ k \in Int
    BY <1>1, <2>1
  <2> QED BY ONLY <2>1, <2>2, Remainder
<1>6. v \in Nat /\ v % m \in 0..m - 1 /\ (v \in 0..m - 1 => v % m = v)
  <2>1. v \in Nat
    <3> DEFINE x == k % m
    <3>1. x \in Nat /\ v = x * HZ
      BY <1>5
    <3> HIDE DEF x, v
    <3> QED BY <1>1, <3>1
  <2> HIDE DEF m, v
  <2>2. m \in Nat \ {0} /\ v \in Int
    BY <1>1, <2>1
  <2> QED BY ONLY <2>1, <2>2, Remainder
<1>7. Wait(n) \in 0..m - 1
  <2> DEFINE x == v % m
  <2>1. x \in 0..m - 1 /\ x \in Nat
    BY <1>6
  <2>2. x \div Second \in 0..x
    <3> HIDE DEF x
    <3> QED BY <1>1, <2>1, Quotient
  <2> HIDE DEF m, x
  <2> QED BY <1>1, <1>2, <2>1, <2>2 DEF x
<1>8. InRange(n) => n \in Nat \ {0} /\ u = n /\ n < 2^SeqnoWidth /\ Wait(n) = Ticks(n + 1)
  <2> SUFFICES ASSUME InRange(n)
               PROVE  n \in Nat \ {0} /\ u = n /\ n < 2^SeqnoWidth /\ Wait(n) = Ticks(n + 1)
    OBVIOUS
  <2> DEFINE j == n * (Second + Second) + 2 * Second
  <2>1. n \in Nat \ {0} /\ n < 2^SeqnoWidth /\ j * HZ < m
    BY <1>1, <1>2
  <2>2. j \in Nat /\ n <= j /\ j <= j * HZ /\ j * HZ \in Nat
    <3>1. n * (Second + Second) >= n
      BY <1>1, <2>1
    <3>2. j \in Nat /\ n <= j
      BY <1>1, <2>1, <3>1
    <3> HIDE DEF j
    <3> QED BY <1>1, <3>2
  <2>3. n \in 0..m - 1 /\ j \in 0..m - 1 /\ j * HZ \in 0..m - 1
    <3> HIDE DEF m, j
    <3> QED BY <1>1, <2>1, <2>2
  <2>4. u = n
    BY <1>4, <2>3
  <2>5. k = j
    BY <2>4
  <2>6. k % m = k
    BY <1>5, <2>3, <2>5
  <2>7. v = j * HZ
    BY <2>5, <2>6
  <2>8. v % m = j * HZ
    BY <1>6, <2>3, <2>7
  <2>9. Wait(n) = (j * HZ) \div Second
    BY <1>2, <2>8
  <2>10. j * HZ = ((2 * HZ) * (n + 1)) * Second /\ (2 * HZ) * (n + 1) \in Nat
    BY <1>1, <2>1
  <2>11. (j * HZ) \div Second = (2 * HZ) * (n + 1)
    <3> DEFINE x == j * HZ
               y == (2 * HZ) * (n + 1)
    <3>1. x \in Nat /\ y \in Nat /\ x = y * Second
      BY <2>2, <2>10
    <3> HIDE DEF x, y
    <3>2. x \div Second = y
      BY <1>1, <3>1, Quotient
    <3> QED BY <3>2 DEF x, y
  <2> QED BY <1>3, <2>1, <2>4, <2>9, <2>11
<1> QED
  BY <1>1, <1>4, <1>7, <1>8

\* Counting something keeps the type of the budget.
LEMMA SpendIs ==
  ASSUME BudgetOK, NEW what \in {"joins", "drops", "commands", "restarts"}, Spend(what)
  PROVE  /\ BudgetOK'
         /\ what = "restarts" => budget'.restarts # budget.restarts
         /\ what # "restarts" => budget'.restarts = budget.restarts
  BY DEF BudgetOK, Spend

\* A step of Network restarts the device, or leaves the console in its ping or
\* out of it.
LEMMA NetworkKeeps ==
  ASSUME NetworkInv, BudgetOK, NetworkNext
  PROVE  /\ BudgetOK'
         /\ \/ pc'["console"] = "off" /\ budget'.restarts # budget.restarts
            \/ /\ budget'.restarts = budget.restarts
               /\ \/ pc'["console"] = pc["console"]
                  \/ {pc["console"], pc'["console"]} \cap InPing = {}
<1> USE AfterIs DEF InPing
<1>0. pc \in [Tasks -> Places] /\ Tasks = {"main", "event", "console"}
  BY DEF NetworkInv, NetworkTypeOK, Tasks
<1>1. ASSUME NEW t \in Tasks, NEW w, Goto(t, w)
      PROVE  pc'["console"] = IF t = "console" THEN w ELSE pc["console"]
  BY <1>0, <1>1 DEF Goto
<1>2. Abort => /\ BudgetOK' /\ pc'["console"] = "off"
               /\ budget'.restarts # budget.restarts
  BY <1>0, SpendIs DEF Abort, Cold
<1>3. CASE \/ LoadConfig \/ RegisterWifiHandlers \/ RegisterEthHandlers \/ StartDriver
           \/ WifiStarted \/ Dispatch
  <2>1. budget' = budget
    BY <1>3 DEF LoadConfig, RegisterWifiHandlers, RegisterEthHandlers, StartDriver,
       WifiStarted, Dispatch
  <2>2. \E t \in {"main", "event"} : \E w : Goto(t, w)
    BY <1>3 DEF LoadConfig, RegisterWifiHandlers, RegisterEthHandlers, StartDriver,
       WifiStarted, Dispatch
  <2>3. pc'["console"] = pc["console"]
    BY <1>0, <1>1, <2>2
  <2> QED
    BY <2>1, <2>3 DEF BudgetOK
<1>4. CASE StartConsole
  <2>1. pc["console"] = "off"
    BY <1>4 DEF StartConsole, NetworkInv, Stages
  <2> QED
    BY <1>0, <1>4, <2>1 DEF StartConsole, BudgetOK
<1>5. ASSUME NEW t \in {"main", "console"}, ConnectStation(t), ~Abort
      PROVE  /\ budget' = budget
             /\ \/ pc'["console"] = pc["console"]
                \/ {pc["console"], pc'["console"]} \cap InPing = {}
  <2>1. budget' = budget /\ pc[t] \notin InPing
    BY <1>5 DEF ConnectStation, WifiConnect, SetConfig, Connect
  <2>2. \E w \in {"start_sntp", "set_config", "connect"} : Goto(t, w)
    BY <1>5 DEF ConnectStation, WifiConnect, SetConfig, Connect, AfterConnect
  <2> QED
    BY <1>0, <1>1, <2>1, <2>2
<1>6. ASSUME NEW t \in Tasks, StartSntp(t), ~Abort
      PROVE  /\ budget' = budget
             /\ \/ pc'["console"] = pc["console"]
                \/ {pc["console"], pc'["console"]} \cap InPing = {}
  <2>1. budget' = budget /\ pc[t] \notin InPing
    BY <1>6 DEF StartSntp, ReadGateway, Format, SetMode, InitSntp
  <2>2. \E w \in {"format", "set_mode", "init_sntp", AfterSntp(t)} : Goto(t, w)
    BY <1>6 DEF StartSntp, ReadGateway, Format, SetMode, InitSntp
  <2>3. AfterSntp(t) \notin InPing
    BY <1>0 DEF AfterSntp
  <2> QED
    BY <1>0, <1>1, <2>1, <2>2, <2>3
<1>7. CASE CmdWifiConnect
  <2>1. pc["console"] = "ready" /\ Spend("commands")
        /\ \E w \in {"ready", "wifi_connect"} : Goto("console", w)
    BY <1>7 DEF CmdWifiConnect, Prompt
  <2> QED
    BY <1>0, <1>1, <2>1, SpendIs
<1>8. CASE GetAddress \/ ChangeAddress \/ LoseConnection
  <2>1. pc' = pc /\ \E what \in {"joins", "drops"} : Spend(what)
    BY <1>8 DEF GetAddress, ChangeAddress, LoseConnection, Joins, Drops
  <2> QED
    BY <2>1, SpendIs
<1>9. CASE CmdReboot \/ PowerCycle
  BY <1>2, <1>9 DEF CmdReboot, PowerCycle
<1>10. CASE \E t \in Tasks : StartSntp(t) \/ (t \in {"main", "console"} /\ ConnectStation(t))
  BY <1>2, <1>5, <1>6, <1>10 DEF BudgetOK
<1>11. \/ LoadConfig \/ RegisterWifiHandlers \/ RegisterEthHandlers \/ StartDriver
       \/ WifiStarted \/ Dispatch \/ StartConsole \/ CmdWifiConnect \/ CmdReboot
       \/ GetAddress \/ ChangeAddress \/ LoseConnection \/ PowerCycle
       \/ \E t \in Tasks : StartSntp(t) \/ (t \in {"main", "console"} /\ ConnectStation(t))
  BY <1>0 DEF NetworkNext, MainTask, EventTask, ConsoleTask, Commands, World
<1> QED
  BY <1>3, <1>4, <1>7, <1>8, <1>9, <1>10, <1>11
-----------------------------------------------------------------------------
\* A reset leaves no ping.
LEMMA ColdPingsInv ==
  ASSUME DeviceAssumption, asked \in 0..MaxPings, ColdPings, pc'["console"] = "off"
  PROVE  PingTypeOK' /\ PingInv'
<1>1. /\ 2 ^ CountWidth \in Nat \ {0, 1} /\ 2 ^ SeqnoWidth \in Nat \ {0}
      /\ RequestTicks \in Nat
  BY DEF DeviceAssumption, RequestTicks
<1>2. PingTypeOK'
  BY <1>1 DEF ColdPings, PingTypeOK, Sessions, NoSession
<1>3. \A p \in Pings : /\ Fresh(p)' /\ Idle(p)' /\ Timed(p)' /\ ~session'[p].start
                       /\ session'[p].task = "none"
  BY DEF ColdPings, Fresh, Idle, Timed, NoSession
<1> QED
  BY <1>2, <1>3 DEF PingInv, InPing

\* A step of one ping: of the console's, or of the task of any of them.
LEMMA OnePing ==
  ASSUME PingTypeOK, PingInv, NEW q \in Pings, asked' = asked, count' = count,
         q = asked \/ (waits' = waits /\ pc' = pc),
         \A p \in Pings \ {q} :
           done'[p] = done[p] /\ session'[p] = session[p] /\ ended'[p] = ended[p],
         q <= asked,
         q # asked \/ pc'["console"] \notin InPing => Idle(q)',
         q = asked /\ pc'["console"] \in InPing => UnderWay',
         session'[q].task # "none" => done'[q] # "none",
         InRange(count[q]) => Timed(q)'
  PROVE  PingInv'
<1>0. \A p \in Pings : p \in Int
  BY DEF Pings
<1>1. asked \in Int
  BY DEF PingTypeOK
<1>2. ASSUME NEW p \in Pings, p # q, p # asked
      PROVE  /\ p > asked => Fresh(p)'
             /\ Idle(p)' /\ ~session'[p].start
             /\ session'[p].task # "none" => done'[p] # "none"
             /\ InRange(count[p]) => Timed(p)'
  BY <1>2 DEF PingInv, Fresh, Idle, Timed
<1>3. ASSUME NEW p \in Pings, p # q, p = asked
      PROVE  /\ pc'["console"] \notin InPing => Idle(p)'
             /\ pc'["console"] \in InPing => UnderWay'
             /\ session'[p].task # "none" => done'[p] # "none"
             /\ InRange(count[p]) => Timed(p)'
  BY <1>3 DEF PingInv, UnderWay, Timed, Idle, At
<1>4. \A p \in Pings : p > asked => Fresh(p)'
  BY <1>0, <1>1, <1>2
<1>5. \A p \in Pings : p # asked \/ pc'["console"] \notin InPing => Idle(p)'
  BY <1>2, <1>3
<1>6. pc'["console"] \in InPing => UnderWay'
  <2>1. asked \in Pings \/ pc'["console"] \notin InPing
    BY DEF PingInv, UnderWay
  <2> QED BY <1>3, <2>1
<1>7. \A p \in Pings : session'[p].task # "none" => done'[p] # "none"
  BY <1>2, <1>3
<1>8. \A p \in Pings : InRange(count[p]) => Timed(p)'
  BY <1>2, <1>3
<1> QED
  BY <1>4, <1>5, <1>6, <1>7, <1>8 DEF PingInv

\* The console goes on with its ping.
LEMMA GotoConsoleIs ==
  ASSUME NetworkInv, NEW w, GotoConsole(w)
  PROVE  pc'["console"] = w
  BY DEF GotoConsole, NetworkInv, NetworkTypeOK, Tasks

\* The steps of cmd_ping, apart from the assertion that restarts the device.
LEMMA CommandPing ==
  ASSUME DeviceAssumption, NetworkInv, PingTypeOK, PingInv,
         \/ NewSession \/ StartPing \/ TakeSemaphore \/ StopPing \/ DeletePing
         \/ DeleteSemaphore
  PROVE  PingTypeOK' /\ PingInv'
<1> DEFINE s == session[asked]
<1>1. pc["console"] \in InPing /\ asked' = asked /\ count' = count /\ ended' = ended
  BY DEF NewSession, StartPing, TakeSemaphore, StopPing, DeletePing, DeleteSemaphore, At,
     InPing
<1>2. UnderWay /\ asked \in Pings /\ asked <= asked
  BY <1>1 DEF PingInv, UnderWay, Pings
<1>3. /\ session \in [Pings -> Sessions] /\ s \in Sessions
      /\ done \in [Pings -> {"none", "null", "empty", "given", "deleted"}]
      /\ waits \in 0..2^CountWidth - 1 /\ 2^CountWidth \in Nat
      /\ count[asked] \in Counts \cup {0}
  BY <1>2 DEF PingTypeOK, Sessions, DeviceAssumption
<1>4. done[asked] # "none" /\ (InRange(count[asked]) => Timed(asked))
  BY <1>2 DEF UnderWay, PingInv
<1>5. CASE NewSession
  <2>1. At("ping_session") /\ s = NoSession /\ ended[asked] = {} /\ done' = done /\ waits' = waits
        /\ done[asked] # "given"
    BY <1>2, <1>5 DEF NewSession, UnderWay
  <2>2. CASE session' = session /\ GotoConsole("ping_semaphore")
    <3>1. pc'["console"] = "ping_semaphore"
      BY <2>2, GotoConsoleIs
    <3>2. Timed(asked)'
      BY <1>1, <2>1, <2>2 DEF Timed, NoSession
    <3>3. UnderWay'
      BY <1>1, <1>2, <2>1, <2>2, <3>1 DEF UnderWay, NoSession, At
    <3>4. PingTypeOK'
      BY <1>1, <2>1, <2>2 DEF PingTypeOK
    <3> QED
      BY <1>1, <1>2, <1>4, <2>1, <2>2, <3>1, <3>2, <3>3, <3>4, OnePing DEF InPing
  <2>3. CASE /\ session' = [session EXCEPT ![asked].init = TRUE, ![asked].task = "waiting"]
             /\ GotoConsole("ping_start")
    <3>1. pc'["console"] = "ping_start"
      BY <2>3, GotoConsoleIs
    <3>2. /\ session' \in [Pings -> Sessions]
          /\ session'[asked] = [s EXCEPT !.init = TRUE, !.task = "waiting"]
          /\ \A p \in Pings \ {asked} : session'[p] = session[p]
      BY <1>2, <1>3, <2>3 DEF Sessions
    <3>3. session'[asked] = Opened
      BY <2>1, <3>2 DEF Opened, NoSession
    <3>4. Timed(asked)'
      BY <1>1, <2>1, <3>1 DEF Timed, At
    <3>5. UnderWay'
      BY <1>1, <1>2, <2>1, <3>1, <3>3 DEF UnderWay, Opened, NoSession, At
    <3>6. PingTypeOK'
      BY <1>1, <2>1, <3>2 DEF PingTypeOK, Sessions
    <3>7. ~session'[asked].start
      BY <3>3 DEF Opened, NoSession
    <3> QED
      BY <1>1, <1>2, <1>4, <2>1, <3>1, <3>2, <3>4, <3>5, <3>6, <3>7, OnePing DEF InPing
  <2> QED
    BY <1>5, <2>2, <2>3 DEF NewSession
<1>6. CASE StartPing
  <2>1. At("ping_start") /\ s = Opened /\ ended[asked] = {} /\ done' = done
        /\ waits' = Wait(count[asked]) /\ pc'["console"] = "ping_take" /\ done[asked] # "given"
    BY <1>2, <1>6, GotoConsoleIs DEF StartPing, UnderWay
  <2>2. /\ session' \in [Pings -> Sessions]
        /\ session'[asked] = [s EXCEPT !.start = TRUE, !.notified = TRUE]
        /\ \A p \in Pings \ {asked} : session'[p] = session[p]
    BY <1>2, <1>3, <1>6 DEF StartPing, Sessions
  <2>3. /\ session'[asked].init /\ session'[asked].start /\ session'[asked].notified
        /\ session'[asked].task = "waiting" /\ session'[asked].seqno = 0
        /\ session'[asked].spent = 0
    BY <2>1, <2>2 DEF Opened, NoSession
  <2>4. /\ waits' \in 0..2^CountWidth - 1
        /\ InRange(count[asked]) => waits' >= Ticks(count[asked] + 1)
    <3>1. /\ waits' \in 0..2^CountWidth - 1
          /\ InRange(count[asked]) => waits' = Ticks(count[asked] + 1)
      BY <1>3, <2>1, WaitIs
    <3> QED BY <1>3, <3>1
  <2>5. InRange(count[asked]) => Timed(asked)'
    BY <1>1, <2>1, <2>3, <2>4 DEF Timed, At
  <2>6. UnderWay'
    BY <1>1, <1>2, <2>1, <2>3 DEF UnderWay, At
  <2>7. PingTypeOK'
    BY <1>1, <2>1, <2>2, <2>4 DEF PingTypeOK, Sessions
  <2> QED
    BY <1>1, <1>2, <1>4, <2>1, <2>2, <2>5, <2>6, <2>7, OnePing DEF InPing
<1>7. CASE TakeSemaphore
  <2>1. /\ At("ping_take") /\ s.start /\ s.init /\ s.task # "none" /\ session' = session
        /\ waits' = 0 /\ pc'["console"] = "ping_stop" /\ done[asked] # "null"
        /\ done[asked] = "given" \/ waits = 0
    BY <1>2, <1>7, GotoConsoleIs DEF TakeSemaphore, UnderWay, TimesOut, At
  <2>2. done'[asked] = "empty" /\ done' \in [Pings -> {"none", "null", "empty", "given", "deleted"}]
        /\ \A p \in Pings \ {asked} : done'[p] = done[p]
    BY <1>2, <1>3, <1>7 DEF TakeSemaphore
  <2>3. InRange(count[asked]) => Timed(asked)'
    <3> SUFFICES ASSUME InRange(count[asked]) PROVE Timed(asked)'
      OBVIOUS
    <3>1. count[asked] \in Nat \ {0}
      BY <1>3, WaitIs
    <3>2. s.seqno \in Int /\ s.spent \in 0..RequestTicks
      BY <1>3 DEF Sessions
    <3>3. waits = 0 =>
            ~(s.seqno <= count[asked] /\ (s.seqno = count[asked] => s.spent <= HZ)
              /\ waits + Ticks(s.seqno) + s.spent >= Ticks(count[asked] + 1))
      <4>1. /\ Ticks(count[asked]) \in Int /\ HZ \in Nat \ {0} /\ RequestTicks = HZ + HZ
            /\ Ticks(count[asked] + 1) = Ticks(count[asked]) + RequestTicks
        <5> DEFINE c == count[asked]
        <5>1. c \in Int
          BY <3>1
        <5> HIDE DEF c
        <5>2. /\ Ticks(c) \in Int /\ HZ \in Nat \ {0} /\ RequestTicks = HZ + HZ
              /\ Ticks(c + 1) = Ticks(c) + RequestTicks
          BY <5>1, TicksAre
        <5> QED BY <5>2 DEF c
      <4>2. /\ Ticks(s.seqno) \in Int
            /\ s.seqno < count[asked] => Ticks(s.seqno) + RequestTicks <= Ticks(count[asked])
        <5> DEFINE c == count[asked]
                   n == s.seqno
        <5>1. c \in Int /\ n \in Int
          BY <3>1, <3>2
        <5> HIDE DEF c, n
        <5>2. Ticks(n) \in Int /\ (n < c => Ticks(n) + RequestTicks <= Ticks(c))
          BY <5>1, TicksAre
        <5> QED BY <5>2 DEF c, n
      <4>3. s.seqno = count[asked] => Ticks(s.seqno) = Ticks(count[asked])
        OBVIOUS
      <4> QED BY <3>1, <3>2, <4>1, <4>2, <4>3
    <3>4. waits = 0 => ~(waits >= Ticks(count[asked] + 1))
      <4>1. /\ Ticks(0) = 0 /\ HZ \in Nat \ {0} /\ RequestTicks = HZ + HZ
            /\ \A a, b \in Int : a < b => Ticks(a) + RequestTicks <= Ticks(b)
        BY TicksAre
      <4>2. Ticks(count[asked] + 1) \in Int
        <5> DEFINE c == count[asked]
        <5>1. c \in Int
          BY <3>1
        <5> HIDE DEF c
        <5>2. Ticks(c + 1) \in Int
          BY <5>1, TicksAre
        <5> QED BY <5>2 DEF c
      <4> QED BY <3>1, <4>1, <4>2
    <3>5. ended[asked] = {"empty"} /\ s.task \in {"waiting", "gone"} /\ ~s.notified
      BY <1>4, <2>1, <3>3, <3>4 DEF Timed, At
    <3> QED
      BY <1>1, <2>1, <3>5 DEF Timed
  <2>4. UnderWay'
    BY <1>1, <1>2, <2>1, <2>2 DEF UnderWay, At
  <2>5. PingTypeOK'
    BY <1>1, <1>3, <2>1, <2>2 DEF PingTypeOK
  <2> QED
    BY <1>1, <1>2, <2>1, <2>2, <2>3, <2>4, <2>5, OnePing DEF InPing
<1>8. CASE StopPing
  <2>1. /\ s.init /\ s.task # "none" /\ done' = done /\ waits' = waits
        /\ At("ping_stop") /\ pc'["console"] = "ping_delete"
    BY <1>2, <1>8, GotoConsoleIs DEF StopPing, UnderWay, At
  <2>2. /\ session' \in [Pings -> Sessions]
        /\ session'[asked] = [s EXCEPT !.start = FALSE]
        /\ \A p \in Pings \ {asked} : session'[p] = session[p]
    BY <1>2, <1>3, <1>8 DEF StopPing, Sessions
  <2>3. /\ ~session'[asked].start /\ session'[asked].init = s.init
        /\ session'[asked].task = s.task /\ session'[asked].notified = s.notified
    BY <1>3, <2>2 DEF Sessions
  <2>4. InRange(count[asked]) => Timed(asked)'
    BY <1>1, <1>4, <2>1, <2>3 DEF Timed, At
  <2>5. UnderWay'
    BY <1>1, <1>2, <2>1, <2>3 DEF UnderWay, At
  <2>6. PingTypeOK'
    BY <1>1, <2>1, <2>2 DEF PingTypeOK, Sessions
  <2> QED
    BY <1>1, <1>2, <1>4, <2>1, <2>2, <2>3, <2>4, <2>5, <2>6, OnePing DEF InPing
<1>9. CASE DeletePing
  <2>1. /\ s.task # "none" /\ ~s.start /\ done' = done /\ waits' = waits
        /\ At("ping_delete") /\ pc'["console"] = "ping_semaphore"
    BY <1>2, <1>9, GotoConsoleIs DEF DeletePing, UnderWay, At
  <2>2. /\ session' \in [Pings -> Sessions]
        /\ session'[asked] = [s EXCEPT !.init = FALSE]
        /\ \A p \in Pings \ {asked} : session'[p] = session[p]
    BY <1>2, <1>3, <1>9 DEF DeletePing, Sessions
  <2>3. /\ ~session'[asked].start /\ ~session'[asked].init
        /\ session'[asked].task = s.task /\ session'[asked].notified = s.notified
    BY <1>3, <2>1, <2>2 DEF Sessions
  <2>4. InRange(count[asked]) => Timed(asked)'
    BY <1>1, <1>4, <2>1, <2>3 DEF Timed, At
  <2>5. UnderWay'
    BY <1>1, <1>2, <2>1, <2>3 DEF UnderWay, At
  <2>6. PingTypeOK'
    BY <1>1, <2>1, <2>2 DEF PingTypeOK, Sessions
  <2> QED
    BY <1>1, <1>2, <1>4, <2>1, <2>2, <2>3, <2>4, <2>5, <2>6, OnePing DEF InPing
<1>10. CASE DeleteSemaphore
  <2>1. /\ ~s.start /\ ~s.init /\ session' = session /\ waits' = waits
        /\ At("ping_semaphore") /\ pc'["console"] = "ready"
    BY <1>2, <1>10, GotoConsoleIs DEF DeleteSemaphore, UnderWay, At
  <2>2. done'[asked] = "deleted" /\ done' \in [Pings -> {"none", "null", "empty", "given", "deleted"}]
        /\ \A p \in Pings \ {asked} : done'[p] = done[p]
    BY <1>2, <1>3, <1>10 DEF DeleteSemaphore
  <2>3. InRange(count[asked]) => Timed(asked)'
    BY <1>1, <1>4, <2>1 DEF Timed, At
  <2>4. Idle(asked)'
    BY <2>1, <2>2, <1>1 DEF Idle
  <2>5. PingTypeOK'
    BY <1>1, <2>1, <2>2 DEF PingTypeOK
  <2> QED
    BY <1>1, <1>2, <2>1, <2>2, <2>3, <2>4, <2>5, OnePing DEF InPing
<1> QED
  BY <1>5, <1>6, <1>7, <1>8, <1>9, <1>10

\* A session before its task is there, and before it is told to start.
LEMMA SessionIs ==
  /\ NoSession.task = "none" /\ ~NoSession.start
  /\ Opened.task = "waiting" /\ ~Opened.notified /\ ~Opened.start /\ Opened.init
  BY DEF Opened, NoSession

\* The steps of the ping task.
LEMMA TaskPing ==
  ASSUME DeviceAssumption, PingTypeOK, PingInv, NEW q \in Pings, PingTask(q)
  PROVE  PingTypeOK' /\ PingInv'
<1> DEFINE s == session[q]
           t == session'[q]
<1>1. /\ asked' = asked /\ count' = count /\ waits' = waits /\ pc' = pc
      /\ s.task \in {"waiting", "pinging"}
  BY DEF PingTask, BeginPinging, EndRequest, OnPingEnd, ExitTask, netVars
<1>2. /\ q \in Int /\ asked \in Int /\ session \in [Pings -> Sessions] /\ s \in Sessions
      /\ done \in [Pings -> {"none", "null", "empty", "given", "deleted"}]
      /\ ended \in [Pings -> SUBSET {"null", "empty", "given", "deleted"}]
      /\ 2^CountWidth \in Nat \ {0, 1} /\ count[q] \in Counts \cup {0}
      /\ waits \in 0..2^CountWidth - 1
  BY DEF PingTypeOK, DeviceAssumption, Pings
<1>3. q <= asked
  BY <1>1, <1>2 DEF PingInv, Fresh, NoSession
<1>4. /\ q # asked \/ pc["console"] \notin InPing => Idle(q)
      /\ q = asked /\ pc["console"] \in InPing => UnderWay
      /\ done[q] # "none"
      /\ InRange(count[q]) => Timed(q)
  BY <1>1 DEF PingInv
<1>5. /\ InRange(count[q]) => /\ count[q] \in Nat \ {0} /\ Uint32(count[q]) = count[q]
                              /\ count[q] < 2^SeqnoWidth
      /\ 2^SeqnoWidth \in Nat \ {0} /\ RequestTicks \in Nat
  <2>1. 2^SeqnoWidth \in Nat \ {0} /\ RequestTicks \in Nat
    BY DEF DeviceAssumption, RequestTicks
  <2> QED BY <1>2, <2>1, WaitIs
<1>6. CASE BeginPinging(q)
  <2>1. s.task = "waiting" /\ s.notified /\ done' = done /\ ended' = ended
    BY <1>6 DEF BeginPinging
  <2>2. /\ session' \in [Pings -> Sessions]
        /\ t = [s EXCEPT !.task = "pinging", !.notified = FALSE]
        /\ \A p \in Pings \ {q} : session'[p] = session[p]
    BY <1>2, <1>6 DEF BeginPinging, Sessions
  <2>3. /\ t.init = s.init /\ t.start = s.start /\ ~t.notified /\ t.task = "pinging"
        /\ t.seqno = s.seqno /\ t.spent = s.spent
    BY <1>2, <2>2 DEF Sessions
  <2>4. InRange(count[q]) => Timed(q)'
    <3> SUFFICES ASSUME InRange(count[q]) PROVE Timed(q)'
      OBVIOUS
    <3>1. ~At("ping_start") \/ q # asked
      BY <1>4, <2>1 DEF UnderWay, At, InPing, Opened, NoSession
    <3>2. /\ ended[q] = {} /\ q = asked /\ At("ping_take") /\ done[q] # "given"
          /\ s.seqno = 0 /\ s.spent = 0 /\ waits >= Ticks(count[q] + 1)
      BY <1>4, <2>1, <3>1 DEF Timed
    <3>3. waits + Ticks(t.seqno) + t.spent = waits
      BY <1>2, <2>3, <3>2, TicksAre
    <3> QED
      BY <1>1, <1>2, <1>5, <2>1, <2>3, <3>2, <3>3 DEF Timed, At
  <2>5. q # asked \/ pc["console"] \notin InPing => Idle(q)'
    BY <1>4, <2>1, <2>3 DEF Idle
  <2>6. q = asked /\ pc["console"] \in InPing => UnderWay'
    <3> SUFFICES ASSUME q = asked, pc["console"] \in InPing PROVE UnderWay'
      OBVIOUS
    <3>1. ~At("ping_session") /\ ~At("ping_start")
      BY <1>4, <2>1, SessionIs DEF UnderWay
    <3> QED
      BY <1>1, <1>4, <2>1, <2>3, <3>1 DEF UnderWay, At
  <2>7. PingTypeOK'
    BY <1>1, <2>1, <2>2 DEF PingTypeOK
  <2> QED
    BY <1>1, <1>3, <1>4, <2>1, <2>2, <2>3, <2>4, <2>5, <2>6, <2>7, OnePing
<1>7. CASE EndRequest(q)
  <2>1. s.task = "pinging" /\ s.spent > 0 /\ More(q) /\ s.start /\ done' = done /\ ended' = ended
    BY <1>7 DEF EndRequest, More
  <2>2. q = asked /\ pc["console"] \in InPing /\ UnderWay
    BY <1>4, <2>1 DEF Idle
  <2>3. /\ (s.seqno + 1) % 2^SeqnoWidth \in 0..2^SeqnoWidth - 1
        /\ s.seqno + 1 < 2^SeqnoWidth => (s.seqno + 1) % 2^SeqnoWidth = s.seqno + 1
    <3> DEFINE m == 2^SeqnoWidth
    <3>1. s.seqno \in 0..m - 1 /\ m \in Nat \ {0}
      BY <1>2, <1>5 DEF Sessions
    <3> HIDE DEF m
    <3> DEFINE n == s.seqno + 1
    <3>2. n \in Nat /\ n \in Int
      BY <3>1
    <3>3. n % m \in 0..m - 1 /\ (n \in 0..m - 1 => n % m = n)
      <4> HIDE DEF n
      <4> QED BY ONLY <3>1, <3>2, Remainder
    <3> QED BY <3>1, <3>2, <3>3 DEF m
  <2>4. /\ session' \in [Pings -> Sessions]
        /\ t = [s EXCEPT !.seqno = (s.seqno + 1) % 2^SeqnoWidth, !.spent = 0]
        /\ \A p \in Pings \ {q} : session'[p] = session[p]
    BY <1>2, <1>5, <1>7, <2>3 DEF EndRequest, Sessions
  <2>5. /\ t.init = s.init /\ t.start /\ t.notified = s.notified /\ t.task = "pinging"
        /\ t.seqno = (s.seqno + 1) % 2^SeqnoWidth /\ t.spent = 0
    BY <1>2, <2>1, <2>4 DEF Sessions
  <2>6. InRange(count[q]) => Timed(q)'
    <3> SUFFICES ASSUME InRange(count[q]) PROVE Timed(q)'
      OBVIOUS
    <3>1. ~At("ping_start") /\ s.seqno < count[q]
      BY <1>5, <2>1, <2>2 DEF UnderWay, At, More, Opened, NoSession
    <3>2. /\ ended[q] = {} /\ q = asked /\ At("ping_take") /\ done[q] \notin {"given", "null"}
          /\ ~s.notified
          /\ waits + Ticks(s.seqno) + s.spent >= Ticks(count[q] + 1)
      BY <1>2, <1>4, <2>1, <3>1 DEF Timed, Sessions
    <3>3. s.spent \in 0..RequestTicks /\ s.seqno \in Int
      BY <1>2 DEF Sessions
    <3>4. t.seqno = s.seqno + 1
      BY <1>5, <2>3, <2>5, <3>1, <3>3
    <3>5. /\ Ticks(s.seqno + 1) = Ticks(s.seqno) + RequestTicks
          /\ Ticks(s.seqno) \in Int /\ HZ \in Nat
      BY <3>3, TicksAre
    <3>6. Ticks(count[q] + 1) \in Int
      <4> DEFINE c == count[q]
      <4>1. c \in Int
        BY <1>5
      <4> HIDE DEF c
      <4>2. Ticks(c + 1) \in Int
        BY <4>1, TicksAre
      <4> QED BY <4>2 DEF c
    <3>7. waits + Ticks(t.seqno) + t.spent >= Ticks(count[q] + 1)
      BY <1>2, <1>5, <2>5, <3>2, <3>3, <3>4, <3>5, <3>6
    <3>8. t.seqno <= count[q] /\ t.spent <= HZ
      BY <1>5, <2>5, <3>1, <3>3, <3>4, <3>5
    <3> QED
      BY <1>1, <2>1, <2>5, <3>2, <3>7, <3>8 DEF Timed, At
  <2>7. UnderWay'
    <3>1. ~At("ping_session") /\ ~At("ping_start")
      BY <2>1, <2>2, SessionIs DEF UnderWay
    <3> QED
      BY <1>1, <2>1, <2>2, <2>5, <3>1 DEF UnderWay, At
  <2>8. PingTypeOK'
    BY <1>1, <2>1, <2>4 DEF PingTypeOK
  <2> QED
    BY <1>1, <1>3, <1>4, <2>1, <2>2, <2>4, <2>5, <2>6, <2>7, <2>8, OnePing
<1>8. CASE OnPingEnd(q)
  <2>1. s.task = "pinging" /\ ~More(q)
    BY <1>8 DEF OnPingEnd
  <2>2. /\ session' \in [Pings -> Sessions]
        /\ t = [s EXCEPT !.task = "waiting"]
        /\ \A p \in Pings \ {q} : session'[p] = session[p]
    BY <1>2, <1>8 DEF OnPingEnd, Sessions
  <2>3. /\ t.init = s.init /\ t.start = s.start /\ t.notified = s.notified
        /\ t.task = "waiting" /\ t.seqno = s.seqno /\ t.spent = s.spent
    BY <1>2, <2>2 DEF Sessions
  <2>4. /\ ended' \in [Pings -> SUBSET {"null", "empty", "given", "deleted"}]
        /\ ended'[q] = ended[q] \cup {done[q]}
        /\ \A p \in Pings \ {q} : ended'[p] = ended[p]
    BY <1>2, <1>4, <1>8 DEF OnPingEnd
  <2>5. /\ done' \in [Pings -> {"none", "null", "empty", "given", "deleted"}]
        /\ done'[q] = (IF done[q] = "empty" THEN "given" ELSE done[q])
        /\ \A p \in Pings \ {q} : done'[p] = done[p]
    BY <1>2, <1>8 DEF OnPingEnd
  <2>6. InRange(count[q]) => Timed(q)'
    <3> SUFFICES ASSUME InRange(count[q]) PROVE Timed(q)'
      OBVIOUS
    <3>1. ~At("ping_start") \/ q # asked
      BY <1>4, <2>1 DEF UnderWay, At, InPing, Opened, NoSession
    <3>2. /\ ended[q] = {} /\ q = asked /\ At("ping_take") /\ done[q] # "given"
          /\ ~s.notified /\ (done[q] = "null" => s.seqno = 0)
      BY <1>4, <2>1, <3>1 DEF Timed
    <3>3. UnderWay /\ s.start /\ done[q] \in {"null", "empty"}
      BY <1>4, <3>2 DEF UnderWay, At, InPing
    <3>4. s.seqno >= count[q] /\ count[q] > 0
      BY <1>2, <1>5, <2>1, <3>3 DEF More, Sessions
    <3>5. done[q] = "empty"
      BY <1>5, <3>2, <3>3, <3>4
    <3> QED
      BY <2>3, <2>4, <3>2, <3>5 DEF Timed
  <2>7. q # asked \/ pc["console"] \notin InPing => Idle(q)'
    BY <1>4, <2>3, <2>5 DEF Idle
  <2>8. q = asked /\ pc["console"] \in InPing => UnderWay'
    <3> SUFFICES ASSUME q = asked, pc["console"] \in InPing PROVE UnderWay'
      OBVIOUS
    <3>1. ~At("ping_session") /\ ~At("ping_start")
      BY <1>4, <2>1, SessionIs DEF UnderWay
    <3> QED
      BY <1>1, <1>4, <2>3, <2>5, <3>1 DEF UnderWay, At
  <2>9. PingTypeOK'
    BY <1>1, <2>2, <2>4, <2>5 DEF PingTypeOK
  <2> QED
    BY <1>1, <1>3, <1>4, <2>2, <2>3, <2>4, <2>5, <2>6, <2>7, <2>8, <2>9, OnePing
<1>9. CASE ExitTask(q)
  <2>1. s.task = "waiting" /\ ~s.notified /\ ~s.init /\ done' = done /\ ended' = ended
    BY <1>9 DEF ExitTask
  <2>2. /\ session' \in [Pings -> Sessions]
        /\ t = [NoSession EXCEPT !.task = "gone"]
        /\ \A p \in Pings \ {q} : session'[p] = session[p]
    <3>1. NoSession \in Sessions
      BY <1>5 DEF Sessions, NoSession
    <3>2. [NoSession EXCEPT !.task = "gone"] \in Sessions
      BY <3>1 DEF Sessions
    <3> QED BY <1>2, <1>9, <3>2 DEF ExitTask
  <2>3. ~t.init /\ ~t.start /\ ~t.notified /\ t.task = "gone"
    BY <2>2 DEF NoSession
  <2>4. InRange(count[q]) => Timed(q)'
    <3>1. ~At("ping_start") \/ q # asked
      BY <1>4, <2>1 DEF UnderWay, At, InPing
    <3> QED
      BY <1>4, <2>1, <2>3, <3>1 DEF Timed
  <2>5. q # asked \/ pc["console"] \notin InPing => Idle(q)'
    BY <1>4, <2>1, <2>3 DEF Idle
  <2>6. q = asked /\ pc["console"] \in InPing => UnderWay'
    <3> SUFFICES ASSUME q = asked, pc["console"] \in InPing PROVE UnderWay'
      OBVIOUS
    <3>1. ~At("ping_session") /\ ~At("ping_start")
      BY <1>4, <2>1, SessionIs DEF UnderWay
    <3> QED
      BY <1>1, <1>4, <2>1, <2>3, <3>1 DEF UnderWay, At
  <2>7. PingTypeOK'
    BY <1>1, <2>1, <2>2 DEF PingTypeOK
  <2> QED
    BY <1>1, <1>3, <1>4, <2>1, <2>2, <2>3, <2>4, <2>5, <2>6, <2>7, OnePing
<1> QED
  BY <1>6, <1>7, <1>8, <1>9 DEF PingTask

\* A tick passes: a ping that could use up its time is not late.
LEMMA TickPing ==
  ASSUME DeviceAssumption, PingTypeOK, PingInv, Tick
  PROVE  PingTypeOK' /\ PingInv'
<1>1. /\ asked' = asked /\ count' = count /\ done' = done /\ ended' = ended /\ pc' = pc
      /\ waits > 0 /\ waits' = waits - 1 /\ done[asked] # "null"
      /\ \A p \in Pings : ~Late(p)
      /\ session' = [p \in Pings |-> IF session[p].task = "pinging"
                                     THEN [session[p] EXCEPT !.spent = @ + 1]
                                     ELSE session[p]]
  BY DEF Tick, netVars
<1>2. /\ session \in [Pings -> Sessions] /\ asked \in Int /\ \A p \in Pings : p \in Int
      /\ waits \in 0..2^CountWidth - 1 /\ 2^CountWidth \in Nat \ {0, 1}
      /\ count \in [Pings -> Counts \cup {0}]
  BY DEF PingTypeOK, DeviceAssumption, Pings
<1>a. HZ \in Nat \ {0} /\ RequestTicks = HZ + HZ
  BY TicksAre
<1>3. ASSUME NEW p \in Pings
      PROVE  LET s == session[p]
                 t == session'[p]
             IN  /\ t \in Sessions
                 /\ UNCHANGED <<s.init, s.start, s.notified, s.task, s.seqno>>
                 /\ t.spent = IF s.task = "pinging" THEN s.spent + 1 ELSE s.spent
                 /\ s.task # "pinging" => t = s
  <2> DEFINE s == session[p]
             t == session'[p]
  <2>1. s \in Sessions
    BY <1>2
  <2>2. t = IF s.task = "pinging" THEN [s EXCEPT !.spent = s.spent + 1] ELSE s
    BY <1>1
  <2>3. s.task = "pinging" => s.spent + 1 \in 0..RequestTicks
    <3>1. s.spent \in 0..RequestTicks
      BY <2>1 DEF Sessions
    <3>2. s.task = "pinging" => ~(s.spent >= RequestTicks)
      BY <1>1, <1>a, <3>1 DEF Late
    <3> QED BY <1>a, <3>1, <3>2
  <2> QED
    BY <2>1, <2>2, <2>3 DEF Sessions
<1>4. PingTypeOK'
  <2>1. session' \in [Pings -> Sessions]
    BY <1>1, <1>3
  <2>2. waits' \in 0..2^CountWidth - 1
    BY <1>1, <1>2
  <2> QED BY <1>1, <2>1, <2>2 DEF PingTypeOK
<1>5. ASSUME NEW p \in Pings
      PROVE  /\ Fresh(p) => Fresh(p)'
             /\ Idle(p) => Idle(p)'
             /\ session[p].task # "none" <=> session'[p].task # "none"
  BY <1>1, <1>3, SessionIs DEF Fresh, Idle
<1>6. ASSUME pc["console"] \in InPing PROVE UnderWay'
  <2>1. UnderWay /\ asked \in Pings
    BY <1>6 DEF PingInv, UnderWay
  <2> QED
    BY <1>1, <1>3, <2>1, SessionIs DEF UnderWay, At
<1>7. ASSUME NEW p \in Pings, InRange(count[p]) PROVE Timed(p)'
  <2>1. count[p] \in Nat \ {0} /\ Uint32(count[p]) = count[p]
    BY <1>2, <1>7, WaitIs
  <2>2. Timed(p)
    BY <1>7 DEF PingInv
  <2>3. CASE session[p].task # "pinging"
    <3>1. ~(session[p].task = "waiting" /\ session[p].notified)
      BY <1>1 DEF Late
    <3> QED
      BY <1>1, <1>3, <2>2, <2>3, <3>1 DEF Timed, At
  <2>4. CASE session[p].task = "pinging"
    <3>1. CASE p = asked /\ At("ping_start")
      <4>1. UnderWay
        BY <3>1 DEF PingInv, At, InPing
      <4> QED BY <2>4, <3>1, <4>1, SessionIs DEF UnderWay
    <3>2. CASE ~(p = asked /\ At("ping_start"))
      <4>1. /\ ended[p] = {} /\ p = asked /\ At("ping_take") /\ done[p] # "given"
            /\ ~session[p].notified /\ session[p].seqno <= count[p]
            /\ waits + Ticks(session[p].seqno) + session[p].spent >= Ticks(count[p] + 1)
        BY <2>2, <2>4, <3>2 DEF Timed
      <4>2. UnderWay /\ session[p].start
        BY <4>1 DEF PingInv, UnderWay, At, InPing
      <4>3. session[p].seqno = count[p] => session[p].spent + 1 <= HZ
        <5>1. session[p].seqno = count[p] => ~More(p)
          BY <2>1 DEF More
        <5>2. session[p].seqno = count[p] => ~(session[p].spent >= HZ)
          BY <1>1, <2>4, <4>2, <5>1 DEF Late
        <5>3. session[p].spent \in 0..RequestTicks
          BY <1>2 DEF Sessions
        <5> QED BY <1>a, <5>2, <5>3
      <4>4. waits' + Ticks(session'[p].seqno) + session'[p].spent >= Ticks(count[p] + 1)
        <5>1. session[p].seqno \in Int /\ session[p].spent \in 0..RequestTicks
          BY <1>2 DEF Sessions
        <5>2. Ticks(session[p].seqno) \in Int /\ Ticks(count[p] + 1) \in Int
          <6> DEFINE c == count[p]
                     n == session[p].seqno
          <6>1. c \in Int /\ n \in Int
            BY <2>1, <5>1
          <6> HIDE DEF c, n
          <6>2. Ticks(n) \in Int /\ Ticks(c + 1) \in Int
            BY <6>1, TicksAre
          <6> QED BY <6>2 DEF c, n
        <5>3. /\ session'[p].seqno = session[p].seqno
              /\ session'[p].spent = session[p].spent + 1
          BY <1>3, <2>4
        <5> QED
          BY <1>1, <1>2, <1>a, <4>1, <5>1, <5>2, <5>3
      <4> QED
        BY <1>1, <1>3, <2>4, <4>1, <4>3, <4>4 DEF Timed, At
    <3> QED
      BY <3>1, <3>2
  <2> QED
    BY <2>3, <2>4
<1> QED
  BY <1>1, <1>4, <1>5, <1>6, <1>7 DEF PingInv

\* A ping is asked for: a fresh one.
LEMMA CmdPingInv ==
  ASSUME DeviceAssumption, NetworkInv, BudgetOK, PingTypeOK, PingInv, CmdPing
  PROVE  NetworkInv' /\ BudgetOK' /\ PingTypeOK' /\ PingInv'
<1>1. /\ pc["console"] = "ready" /\ pc' = [pc EXCEPT !["console"] = "ping_session"]
      /\ Spend("commands")
      /\ asked < MaxPings /\ asked' = asked + 1
      /\ UNCHANGED <<config, build, started, hooked, station, creds, gateway, events, gw,
                     gw_str, writer, sntp, session, waits, ended>>
  BY DEF CmdPing, Prompt
<1>2. BudgetOK'
  BY <1>1, SpendIs
<1>3. NetworkInv'
  <2>1. /\ config' \in [{"main", "console"} -> Credentials \cup {NoCredentials}]
        /\ config'["main"] = config["main"]
    BY <1>1 DEF NetworkInv, NetworkTypeOK
  <2>2. DOMAIN budget' = {"joins", "drops", "commands", "restarts"}
    BY <1>2 DEF BudgetOK
  <2>3. "ping_session" \in Places \ {"off", "start_driver", "wifi_started", "set_config"}
    BY DEF Places
  <2> QED BY <1>1, <2>1, <2>2, <2>3, ConsoleInv
<1>4. pc'["console"] = "ping_session"
  BY <1>1 DEF NetworkInv, NetworkTypeOK, Tasks
<1>5. /\ asked \in Nat /\ MaxPings \in Nat /\ asked' \in Pings /\ asked' \in 0..MaxPings
      /\ \A p \in Pings : p \in Int
      /\ \A p \in Pings : p > asked' => p > asked
      /\ asked' > asked
  BY <1>1 DEF PingTypeOK, DeviceAssumption, Pings
<1>6. Fresh(asked')
  BY <1>5 DEF PingInv
<1>7. PICK n \in Counts : count' = [count EXCEPT ![asked'] = n]
  BY DEF CmdPing
<1>8. PICK d \in {"null", "empty"} : done' = [done EXCEPT ![asked'] = d]
  BY DEF CmdPing
<1>9. /\ count \in [Pings -> Counts \cup {0}]
      /\ done \in [Pings -> {"none", "null", "empty", "given", "deleted"}]
  BY DEF PingTypeOK
<1>10. /\ done'[asked'] = d
       /\ \A p \in Pings : p # asked' => count'[p] = count[p] /\ done'[p] = done[p]
       /\ count' \in [Pings -> Counts \cup {0}]
       /\ done' \in [Pings -> {"none", "null", "empty", "given", "deleted"}]
  BY <1>5, <1>7, <1>8, <1>9
<1>11. PingTypeOK'
  BY <1>1, <1>5, <1>10 DEF PingTypeOK
<1>12. \A p \in Pings : p > asked' => Fresh(p)'
  <2> TAKE p \in Pings
  <2> HAVE p > asked'
  <2>1. Fresh(p) /\ p # asked'
    BY <1>5 DEF PingInv
  <2> QED BY <1>1, <1>10, <2>1 DEF Fresh
<1>13. \A p \in Pings : p # asked' => Idle(p)'
  <2> TAKE p \in Pings
  <2> HAVE p # asked'
  <2>1. Idle(p)
    BY <1>1 DEF PingInv, InPing
  <2> QED BY <1>1, <1>10, <2>1 DEF Idle
<1>14. UnderWay'
  BY <1>1, <1>4, <1>5, <1>6, <1>10, SessionIs DEF UnderWay, At, Fresh
<1>15. \A p \in Pings : session'[p].task # "none" => done'[p] # "none"
  BY <1>1, <1>10 DEF PingInv
<1>16. \A p \in Pings : ~session'[p].start
  BY <1>1 DEF PingInv, Idle, InPing
<1>17. \A p \in Pings : InRange(count'[p]) => Timed(p)'
  <2> TAKE p \in Pings
  <2>1. CASE p = asked'
    BY <1>1, <1>6, <2>1, SessionIs DEF Timed, Fresh
  <2>2. CASE p # asked'
    BY <1>1, <1>10, <2>2 DEF PingInv, Timed, At
  <2> QED BY <2>1, <2>2
<1> QED
  BY <1>2, <1>3, <1>4, <1>11, <1>12, <1>13, <1>14, <1>15, <1>16, <1>17
     DEF PingInv, InPing

\* PingInv speaks of the pings and of the console's place in one.
LEMMA PingKept ==
  ASSUME PingTypeOK, PingInv, UNCHANGED pingVars,
         \/ pc'["console"] = pc["console"]
         \/ {pc["console"], pc'["console"]} \cap InPing = {}
  PROVE  PingTypeOK' /\ PingInv'
<1>1. UNCHANGED <<asked, count, done, session, waits, ended>>
  BY DEF pingVars
<1>2. PingTypeOK'
  BY <1>1 DEF PingTypeOK
<1>3. CASE pc'["console"] = pc["console"]
  BY <1>1, <1>2, <1>3 DEF PingInv, Fresh, Idle, UnderWay, At, Timed
<1>4. CASE pc["console"] \notin InPing /\ pc'["console"] \notin InPing
  <2>1. \A p \in Pings : Timed(p) => Timed(p)'
    BY <1>1, <1>4 DEF Timed, At, InPing
  <2> QED
    BY <1>1, <1>2, <1>4, <2>1 DEF PingInv, Fresh, Idle
<1> QED
  BY <1>3, <1>4

\* DeviceInv is inductive.
LEMMA DeviceStepInv ==
  ASSUME NetworkAssumption, DeviceAssumption, DeviceInv, [DeviceNext]_deviceVars
  PROVE  DeviceInv'
<1> USE DEF DeviceInv
<1>1. CASE NetworkStep
  <2>1. NetworkInv'
    BY <1>1, NetworkStepInv DEF NetworkStep
  <2>2. /\ BudgetOK'
        /\ \/ pc'["console"] = "off" /\ budget'.restarts # budget.restarts
           \/ /\ budget'.restarts = budget.restarts
              /\ \/ pc'["console"] = pc["console"]
                 \/ {pc["console"], pc'["console"]} \cap InPing = {}
    BY <1>1, NetworkKeeps DEF NetworkStep
  <2>3. CASE budget'.restarts # budget.restarts
    BY <1>1, <2>1, <2>2, <2>3, ColdPingsInv DEF NetworkStep, PingTypeOK
  <2>4. CASE budget'.restarts = budget.restarts
    BY <1>1, <2>1, <2>2, <2>4, PingKept DEF NetworkStep
  <2> QED
    BY <2>3, <2>4
<1>2. CASE CmdPing
  BY <1>2, CmdPingInv
<1>3. CASE \/ NewSession \/ StartPing \/ TakeSemaphore \/ StopPing \/ DeletePing
           \/ DeleteSemaphore
  <2>1. PICK w \in {"ping_semaphore", "ping_start", "ping_take", "ping_stop", "ping_delete",
                    "ready"} : GotoConsole(w)
    BY <1>3 DEF NewSession, StartPing, TakeSemaphore, StopPing, DeletePing, DeleteSemaphore
  <2>2. pc["console"] # "off"
    BY <1>3 DEF NewSession, StartPing, TakeSemaphore, StopPing, DeletePing, DeleteSemaphore, At
  <2>3. NetworkInv'
    <3>1. /\ config \in [{"main", "console"} -> Credentials \cup {NoCredentials}]
          /\ DOMAIN budget = {"joins", "drops", "commands", "restarts"}
      BY DEF NetworkInv, NetworkTypeOK
    <3>2. w \in Places \ {"off", "start_driver", "wifi_started", "set_config"}
      BY DEF Places
    <3> QED BY <2>1, <2>2, <3>1, <3>2, ConsoleInv DEF GotoConsole
  <2>4. BudgetOK'
    BY <2>1 DEF GotoConsole, BudgetOK
  <2> QED
    BY <1>3, <2>3, <2>4, CommandPing
<1>4. CASE NoSemaphore
  <2>1. Abort /\ ColdPings
    BY <1>4 DEF NoSemaphore, Reset
  <2>2. NetworkInv' /\ BudgetOK' /\ pc'["console"] = "off"
    BY <2>1, AbortInv, SpendIs DEF Abort, Cold, Tasks
  <2> QED
    BY <2>1, <2>2, ColdPingsInv DEF PingTypeOK
<1>5. CASE (\E p \in Pings : PingTask(p)) \/ Tick \/ UNCHANGED deviceVars
  <2>1. UNCHANGED netVars
    BY <1>5 DEF PingTask, BeginPinging, EndRequest, OnPingEnd, ExitTask, Tick, deviceVars
  <2>2. NetworkInv' /\ BudgetOK' /\ pc' = pc
    <3>1. NetworkInv'
      BY <2>1, NetworkStepInv
    <3> QED BY <2>1, <3>1 DEF netVars, BudgetOK
  <2>3. CASE UNCHANGED deviceVars
    BY <2>2, <2>3, PingKept DEF deviceVars
  <2> QED
    BY <1>5, <2>2, <2>3, TaskPing, TickPing
<1> QED
  BY <1>1, <1>2, <1>3, <1>4, <1>5 DEF DeviceNext, PingCommand

LEMMA DeviceInitInv ==
  ASSUME NetworkAssumption, DeviceAssumption, DeviceInit
  PROVE  DeviceInv
<1>1. NetworkInv
  BY InitHolds DEF DeviceInit
<1>2. BudgetOK
  BY DEF DeviceInit, NetworkInit, BudgetOK
<1>3. pc["console"] = "off"
  BY DEF DeviceInit, NetworkInit, Tasks
<1>4. PingTypeOK
  BY TicksAre DEF DeviceInit, DeviceAssumption, PingTypeOK, Sessions, NoSession
<1>5. \A p \in Pings : Fresh(p) /\ Idle(p) /\ Timed(p) /\ ~session[p].start
                       /\ session[p].task = "none"
  BY SessionIs DEF DeviceInit, Fresh, Idle, Timed, NoSession
<1> QED
  BY <1>1, <1>2, <1>3, <1>4, <1>5 DEF DeviceInv, PingInv, InPing

\* The strengthened invariant: where each task stands in the bring-up, and what
\* each ping's session, semaphore and clock are worth at each point.
THEOREM DeviceInvHolds == DeviceSpec => []DeviceInv
<1>1. DeviceInit => DeviceInv
  BY DeviceInitInv, NetworkAssumption, DeviceAssumption
<1>2. DeviceInv /\ [DeviceNext]_deviceVars => DeviceInv'
  BY DeviceStepInv, NetworkAssumption, DeviceAssumption
<1> QED
  BY <1>1, <1>2, PTL DEF DeviceSpec

\* The device's variables keep their types, and the driver's configuration is
\* short enough for its buffers.
THEOREM DeviceTypeCorrect == DeviceSpec => []DeviceTypeOK
<1>1. DeviceInv => DeviceTypeOK
  BY DEF DeviceInv, NetworkInv, PingTypeOK, Sessions, DeviceTypeOK
<1> QED
  BY DeviceInvHolds, <1>1, PTL

\* No second task disturbs the bring-up of the network: the station main
\* configures is idle, and wifi_connect runs in one task at a time.
THEOREM BringUpUndisturbed == DeviceSpec => []SetupUndisturbed
<1>1. DeviceInv => SetupUndisturbed
  BY Undisturbed DEF DeviceInv
<1> QED
  BY DeviceInvHolds, <1>1, PTL

\* Once all is quiet the buffer SNTP reads names the present gateway, unless
\* app_main or the console wrote it last.
THEOREM ClockFollowsGateway == DeviceSpec => []SntpFollowsGateway
<1>1. DeviceInv => SntpFollowsGateway
  BY Undisturbed DEF DeviceInv
<1> QED
  BY DeviceInvHolds, <1>1, PTL

\* A ping whose timeout wraps in none of its steps and whose requests can be
\* numbered is not cut short: its end callback finds its semaphore empty, and
\* the command stops the session after it.
THEOREM PingNotCutShort == DeviceSpec => []PingRunsToItsEnd
<1>1. DeviceInv => PingRunsToItsEnd
  <2> SUFFICES ASSUME DeviceInv, NEW p \in Pings, InRange(count[p])
               PROVE  /\ ended[p] \subseteq {"empty"}
                      /\ asked = p /\ At("ping_stop") => ended[p] = {"empty"}
    BY DEF PingRunsToItsEnd
  <2>1. Timed(p)
    BY DEF DeviceInv, PingInv
  <2>2. asked = p /\ At("ping_stop") => session[p].task # "none"
    BY DEF DeviceInv, PingInv, UnderWay, At, InPing
  <2> QED
    BY <2>1, <2>2 DEF Timed, At
<1> QED
  BY DeviceInvHolds, <1>1, PTL

\* Whichever way cmd_ping returns, it leaves no semaphore and no session.
THEOREM PingLeavesNothing == DeviceSpec => []NothingLeft
<1>1. DeviceInv => NothingLeft
  BY DEF DeviceInv, PingInv, NothingLeft, Idle
<1> QED
  BY DeviceInvHolds, <1>1, PTL
=============================================================================
