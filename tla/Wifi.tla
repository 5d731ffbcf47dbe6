-------------------------------- MODULE Wifi --------------------------------
(***************************************************************************)
(* Who drives the Wi-Fi driver in MQTT mode: main/wifi_manager.c, and the  *)
(* calls of main/captive_portal.c and main/app_main.cpp that lead to it.   *)
(*                                                                         *)
(*  - app_main opens the portal after a scan, or connects as a station;    *)
(*  - wifi_scan_task (priority 5) owns the driver until it deinitialises   *)
(*    it, and then publishes json_string;                                  *)
(*  - the HTTP thread sends json_string and saves forms;                   *)
(*  - the connect task of the first form (Provisioning has several) takes  *)
(*    the portal down, calls wifi_connection() and restarts the device;    *)
(*  - the event task runs wifi_event_handler() behind the driver.          *)
(*                                                                         *)
(* The driver is external.  With CONFIG_ESP_WIFI_NVS_ENABLED it keeps its  *)
(* mode and its station configuration in flash, and takes a station        *)
(* configuration only while its mode is STA.                               *)
(***************************************************************************)
EXTENDS Naturals, Sequences

CONSTANTS
  Net,      \* networks a form can name, with their passwords
  None,     \* no network
  RetryMax  \* reconnections a boot may ask for: 50

ASSUME NoneAssumption == None \notin Net
ASSUME RetryMaxAssumption == RetryMax \in Nat

VARIABLES
  saved,    \* flash: the credentials of nvs_manager.c
  opmode,   \* flash: the mode of the driver, "STA" or "AP"
  stacfg,   \* flash: the station configuration of the driver
  init, on, \* the driver is initialised, and started
  role,     \* of this boot: "none" yet, "portal" or "station"
  main,     \* where app_main is and, from "delay" on, the connect task
  scan, result, \* where the scan task is, and its result
  json_string,
  heap,     \* the strings that are allocated
  http, sending, \* where the HTTP thread is, and the string it sends
  link,     \* the station: "idle", "connecting" or "up"; "refused" when the
            \* driver refused to connect it
  events,   \* what the driver has posted to the event task
  retry_num, is_wifi_connected,
  late,     \* history: perform_wifi_scan() left a scan running behind
  cut       \* history: no boot has run wifi_connection() to its end since
            \* a portal boot that did not

flash   == <<saved, opmode, stacfg>>
driver  == <<init, on>>
scanner == <<scan, result>>
web     == <<http, sending>>
station == <<link, events, retry_num, is_wifi_connected>>
history == <<late, cut>>
strings == <<json_string, heap>>
vars == <<flash, driver, role, main, scanner, strings, web, station, history>>

\* What a step of each task leaves alone, besides flash and the driver.
byMain == <<role, scanner, strings, web, station, history>>
byScan == <<role, main, result, web, station, history>>
byHttp == <<flash, driver, role, main, scanner, station, history>>
byEvents == <<flash, driver, role, main, scanner, strings, web, history>>

Init ==
  /\ saved = None /\ opmode = "STA" /\ stacfg = None
  /\ init = FALSE /\ on = FALSE
  /\ role = "none" /\ main = "boot"
  /\ scan = "done" /\ result = "NULL"
  /\ json_string = "NULL" /\ heap = {}
  /\ http = "idle" /\ sending = "NULL"
  /\ link = "idle" /\ events = <<>>
  /\ retry_num = 0 /\ is_wifi_connected = FALSE
  /\ late = FALSE
  /\ cut = FALSE

\* esp_restart(), a failed ESP_ERROR_CHECK or a power cut.
Restart ==
  /\ init' = FALSE /\ on' = FALSE
  /\ role' = "none" /\ main' = "boot"
  /\ scan' = "done" /\ result' = "NULL"
  /\ json_string' = "NULL" /\ heap' = {}
  /\ http' = "idle" /\ sending' = "NULL"
  /\ link' = "idle" /\ events' = <<>>
  /\ retry_num' = 0 /\ is_wifi_connected' = FALSE
  /\ late' = FALSE
  /\ cut' = IF main = "up" /\ ~ late THEN FALSE ELSE cut \/ role = "portal"
  /\ UNCHANGED flash

-----------------------------------------------------------------------------
(* The driver's calls.  One that needs an initialised driver waits here    *)
(* for ever without it: Abort, or the caller's other disjunct, goes on.    *)

NoCall     == UNCHANGED <<flash, driver>>
EspInit    == init' = TRUE /\ UNCHANGED <<flash, on>>
SetMode(m) == init /\ opmode' = m /\ UNCHANGED <<saved, stacfg, driver>>
Start      == init /\ on' = TRUE /\ UNCHANGED <<flash, init>>
Stop       == on' = FALSE /\ UNCHANGED <<flash, init>>
Deinit     == init' = (init /\ on) /\ UNCHANGED <<flash, on>>

-----------------------------------------------------------------------------
(* app_main: the boot decision and start_captive_portal().                 *)

At(from, to) == main = from /\ main' = to

BootStation ==
  /\ At("boot", "init") /\ saved # None
  /\ role' = "station"
  /\ NoCall /\ UNCHANGED <<scanner, strings, web, station, history>>

\* No SSID, or NVS cannot be opened: perform_wifi_scan() creates its task,
\* and xTaskCreate() may fail.
BootPortal ==
  /\ At("boot", "await")
  /\ role' = "portal"
  /\ scan' \in {"alloc", "done"}
  /\ NoCall /\ UNCHANGED <<result, strings, web, station, history>>

\* The scan has answered ...
Answered ==
  /\ At("await", "ap init") /\ json_string # "NULL"
  /\ NoCall /\ UNCHANGED byMain

\* Mutant: only a scan that runs is given up.
GiveUpRunning ==
  /\ At("await", "ap init") /\ json_string = "NULL" /\ scan # "done"
  /\ late' = TRUE
  /\ NoCall /\ UNCHANGED <<role, scanner, strings, web, station, cut>>

\* ... or it has not, after 10 waits of half a second.
GiveUp ==
  /\ At("await", "ap init") /\ json_string = "NULL"
  /\ late' = (scan # "done")
  /\ NoCall /\ UNCHANGED <<role, scanner, strings, web, station, cut>>

\* start_captive_portal() initialises the driver, which is not an error when
\* a scan has it initialised, ...
ApInit == At("ap init", "ap mode") /\ EspInit /\ UNCHANGED byMain

\* ... and wifi_init_softap() sets the mode, configures the access point,
\* which needs that mode, and starts it.  The web server follows.
ApMode == At("ap mode", "ap config") /\ SetMode("AP") /\ UNCHANGED byMain
ApConfig ==
  At("ap config", "ap start") /\ init /\ opmode = "AP" /\ NoCall
  /\ UNCHANGED byMain
ApStart == At("ap start", "serve") /\ Start /\ UNCHANGED byMain

-----------------------------------------------------------------------------
(* The HTTP thread, one request at a time.                                 *)

OnAir   == init /\ on /\ opmode = "AP"
Serving == main \in {"serve", "delay"} /\ OnAir

\* wifi_scan_get_handler(): is there a list?
AskList ==
  /\ http = "idle" /\ Serving
  /\ http' = IF json_string = "NULL" THEN "dup" ELSE "send"
  /\ UNCHANGED <<strings, sending, byHttp>>

\* json_string = strdup("[]")
DupEmpty ==
  /\ http = "dup" /\ http' = "send"
  /\ json_string' = "empty"
  /\ heap' = heap \cup {"empty"}
  /\ UNCHANGED <<sending, byHttp>>

\* httpd_resp_send() is called with json_string ...
Send ==
  /\ http = "send" /\ http' = "sent"
  /\ sending' = json_string
  /\ UNCHANGED <<strings, byHttp>>

\* Mutant: the handler frees what it has sent.
SentFreed ==
  /\ http = "sent" /\ http' = "idle"
  /\ heap' = heap \ {json_string}
  /\ sending' = "NULL"
  /\ UNCHANGED <<json_string, byHttp>>

\* ... and returns.
Sent ==
  /\ http = "sent" /\ http' = "idle"
  /\ sending' = "NULL"
  /\ UNCHANGED <<strings, byHttp>>

\* submit_post_handler() saves a form; the first creates the connect task.
Submit(n) ==
  /\ http = "idle" /\ Serving
  /\ saved' = n
  /\ main' = "delay"
  /\ UNCHANGED <<opmode, stacfg, driver, byMain>>

-----------------------------------------------------------------------------
(* connect_wifi_task() and wifi_connection().                              *)

\* httpd_stop() waits for the request in progress; stop_dns_server().
StopServers ==
  At("delay", "ap stop") /\ http = "idle" /\ NoCall /\ UNCHANGED byMain

ApStop == At("ap stop", "ap deinit") /\ Stop /\ UNCHANGED byMain
ApDeinit == At("ap deinit", "init") /\ Deinit /\ UNCHANGED byMain

\* wifi_connection(), no result of which is looked at: init ...
ConnInit == At("init", "config") /\ EspInit /\ UNCHANGED byMain

\* ... esp_wifi_set_config(), refused in AP mode ...
ConnConfig ==
  /\ At("config", "start")
  /\ stacfg' = IF init /\ opmode = "STA" THEN saved ELSE stacfg
  /\ UNCHANGED <<saved, opmode, driver, byMain>>

\* ... esp_wifi_start() ...
ConnStart ==
  At("start", "mode") /\ (Start \/ (~ init /\ NoCall)) /\ UNCHANGED byMain

\* Mutant: the mode is left as it is.
ConnModeKept == At("mode", "connect") /\ NoCall /\ UNCHANGED byMain

\* ... esp_wifi_set_mode(), after the configuration that depends on it ...
ConnMode ==
  /\ At("mode", "connect")
  /\ SetMode("STA") \/ (~ init /\ NoCall)
  /\ UNCHANGED byMain

\* ... and esp_wifi_connect(), refused without a configuration, or for any
\* other reason: no event follows, and nobody asks again.
Connect ==
  /\ At("connect", "up")
  /\ \/ init /\ on /\ stacfg # None /\ link' = "connecting"
     \/ link' = "refused"
  /\ NoCall
  /\ UNCHANGED <<role, scanner, strings, web, events, retry_num,
                 is_wifi_connected, history>>

\* connect_wifi_task() restarts the device a second later.
TaskRestarts == main = "up" /\ role = "portal" /\ Restart

MainStep ==
  \/ BootStation \/ BootPortal \/ Answered \/ GiveUp
  \/ ApInit \/ ApMode \/ ApConfig \/ ApStart
  \/ StopServers \/ ApStop \/ ApDeinit
  \/ ConnInit \/ ConnConfig \/ ConnStart \/ ConnMode \/ Connect
  \/ TaskRestarts

-----------------------------------------------------------------------------
(* wifi_scan_task().                                                       *)

ScanAt(from, to) == scan = from /\ scan' = to

\* malloc() of the records, and the end of the task when it fails.
ScanAlloc ==
  /\ ScanAt("alloc", "init") \/ ScanAt("alloc", "done")
  /\ NoCall /\ UNCHANGED <<strings, byScan>>

ScanInit  == ScanAt("init", "mode") /\ EspInit /\ UNCHANGED <<strings, byScan>>
ScanMode  == ScanAt("mode", "start") /\ SetMode("STA")
             /\ UNCHANGED <<strings, byScan>>
ScanStart == ScanAt("start", "scan") /\ Start /\ UNCHANGED <<strings, byScan>>

\* Mutant: the list is published before the driver is given back.
ScanPublishes ==
  /\ ScanAt("scan", "stop")
  /\ result' = "list" /\ json_string' = "list" /\ heap' = heap \cup {"list"}
  /\ NoCall /\ UNCHANGED <<role, main, web, station, history>>

\* The blocking scan returns, and cJSON_Print() makes a list or fails.
ScanDone ==
  /\ ScanAt("scan", "stop")
  /\ \/ result' = "list" /\ heap' = heap \cup {"list"}
     \/ result' = "NULL" /\ UNCHANGED heap
  /\ NoCall /\ UNCHANGED <<role, main, json_string, web, station, history>>

ScanStop   == ScanAt("stop", "deinit") /\ Stop /\ UNCHANGED <<strings, byScan>>
ScanDeinit ==
  ScanAt("deinit", "free") /\ Deinit /\ UNCHANGED <<strings, byScan>>

\* An older list is freed ...
ScanFree ==
  /\ ScanAt("free", "store")
  /\ heap' = heap \ {json_string}
  /\ NoCall /\ UNCHANGED <<json_string, byScan>>

\* ... and json_string = result.
ScanStore ==
  /\ ScanAt("store", "done")
  /\ json_string' = result
  /\ NoCall /\ UNCHANGED <<heap, byScan>>

ScanStep ==
  \/ ScanAlloc \/ ScanInit \/ ScanMode \/ ScanStart \/ ScanDone
  \/ ScanStop \/ ScanDeinit \/ ScanFree \/ ScanStore

\* An ESP_ERROR_CHECK fails: the other user has changed the driver.
Abort ==
  /\ \/ main \in {"ap mode", "ap config", "ap start"} /\ ~ init
     \/ main = "ap config" /\ opmode # "AP"
     \/ scan \in {"mode", "start"} /\ ~ init
     \/ scan = "scan" /\ ~ (init /\ on /\ opmode = "STA")
  /\ Restart

-----------------------------------------------------------------------------
(* The station, as the driver reports it, and wifi_event_handler().        *)

Associate ==
  /\ link = "connecting" /\ link' = "up"
  /\ events' = Append(events, "connected")
  /\ UNCHANGED <<retry_num, is_wifi_connected, byEvents>>

\* The network cannot be joined, or it is lost.
Lose ==
  /\ link \in {"connecting", "up"} /\ link' = "idle"
  /\ events' = Append(events, "disconnected")
  /\ UNCHANGED <<retry_num, is_wifi_connected, byEvents>>

\* WIFI_EVENT_STA_CONNECTED
StaConnected ==
  /\ events # <<>> /\ Head(events) = "connected"
  /\ events' = Tail(events)
  /\ is_wifi_connected' = TRUE
  /\ UNCHANGED <<link, retry_num, byEvents>>

\* Mutant: one retry too many.
StaDisconnectedMore ==
  /\ events # <<>> /\ Head(events) = "disconnected"
  /\ events' = Tail(events)
  /\ IF retry_num <= RetryMax
     THEN link' \in {"connecting", "refused"} /\ retry_num' = retry_num + 1
     ELSE UNCHANGED <<link, retry_num>>
  /\ UNCHANGED <<is_wifi_connected, byEvents>>

\* Mutant: no reconnection once the station has been connected.
StaDisconnectedOnce ==
  /\ events # <<>> /\ Head(events) = "disconnected"
  /\ events' = Tail(events)
  /\ IF retry_num < RetryMax /\ ~ is_wifi_connected
     THEN link' \in {"connecting", "refused"} /\ retry_num' = retry_num + 1
     ELSE UNCHANGED <<link, retry_num>>
  /\ UNCHANGED <<is_wifi_connected, byEvents>>

\* WIFI_EVENT_STA_DISCONNECTED: connect again, RetryMax times in a boot; the
\* result of esp_wifi_connect() is not looked at here either.
StaDisconnected ==
  /\ events # <<>> /\ Head(events) = "disconnected"
  /\ events' = Tail(events)
  /\ IF retry_num < RetryMax
     THEN link' \in {"connecting", "refused"} /\ retry_num' = retry_num + 1
     ELSE UNCHANGED <<link, retry_num>>
  /\ UNCHANGED <<is_wifi_connected, byEvents>>

PowerCut == main # "boot" /\ Restart

Next ==
  \/ MainStep \/ ScanStep \/ Abort
  \/ AskList \/ DupEmpty \/ Send \/ Sent
  \/ \E n \in Net : Submit(n)
  \/ Associate \/ Lose \/ StaConnected \/ StaDisconnected
  \/ PowerCut

Spec == Init /\ [][Next]_vars

\* Every task is scheduled; the driver's blocking calls return.
FairSpec ==
  /\ Spec
  /\ WF_vars(MainStep) /\ WF_vars(ScanStep) /\ WF_vars(Abort)
  /\ WF_vars(DupEmpty \/ Send \/ Sent)

-----------------------------------------------------------------------------
(* Properties.                                                             *)

TypeOK ==
  /\ {saved, stacfg} \subseteq Net \cup {None}
  /\ opmode \in {"STA", "AP"}
  /\ {init, on, is_wifi_connected, late, cut} \subseteq BOOLEAN
  /\ role \in {"none", "station", "portal"}
  /\ main \in {"boot", "await", "ap init", "ap mode", "ap config", "ap start",
               "serve", "delay", "ap stop", "ap deinit", "init", "config",
               "start", "mode", "connect", "up"}
  /\ scan \in {"alloc", "init", "mode", "start", "scan", "stop", "deinit",
               "free", "store", "done"}
  /\ {json_string, result, sending} \subseteq {"NULL", "empty", "list"}
  /\ heap \subseteq {"empty", "list"}
  /\ http \in {"idle", "dup", "send", "sent"}
  /\ link \in {"idle", "connecting", "up", "refused"}
  /\ events \in Seq({"connected", "disconnected"})
  /\ retry_num \in 0 .. RetryMax

(***************************************************************************)
(* From the start of the portal to its tear-down the access point is on    *)
(* the air: the scan task is done with the driver before app_main goes on, *)
(* unless perform_wifi_scan() has given up on it.                          *)
(***************************************************************************)
AccessPointUp == main \in {"serve", "delay"} /\ ~ late => OnAir

(***************************************************************************)
(* What the HTTP thread sends as the list of networks is allocated while   *)
(* it is sent, request after request, unless perform_wifi_scan() has left  *)
(* a scan behind that frees json_string.                                   *)
(***************************************************************************)
SentListAllocated == sending # "NULL" /\ ~ late => sending \in heap

(***************************************************************************)
(* A station whose calls of esp_wifi_connect() were accepted stays         *)
(* disconnected only when the retries of its whole uptime are spent, and   *)
(* when it is connected get_wifi_connect_state() says so, once the events  *)
(* have been handled.                                                      *)
(***************************************************************************)
OfflineOnlySpent ==
  role = "station" /\ main = "up" /\ events = <<>> =>
    /\ link = "idle" => retry_num = RetryMax
    /\ link = "up" => is_wifi_connected

(***************************************************************************)
(* A station boot connects with the saved credentials, except the first    *)
(* one after a portal boot that was cut short: the configuration that      *)
(* connect_wifi_task() could not set (in AP mode) is set after its restart,*)
(* because its call of esp_wifi_set_mode() is remembered.                  *)
(***************************************************************************)
CredentialsApplied ==
  role = "station" /\ main = "up" /\ ~ cut => stacfg = saved

(***************************************************************************)
(* "Connect to WiFi" (captive_portal.c:67): wifi_connection() connects with*)
(* the credentials it is given.  The code breaks it whenever the portal    *)
(* has run: the configuration is set in AP mode and refused.               *)
(***************************************************************************)
ConnectsWithCredentials == main = "up" /\ ~ late => stacfg = saved

(***************************************************************************)
(* A portal boot opens the portal whatever becomes of the scan: no memory, *)
(* no list or no end of it can keep app_main in perform_wifi_scan().       *)
(***************************************************************************)
PortalOpens == (main = "await") ~> (main \in {"serve", "boot"})
=============================================================================
