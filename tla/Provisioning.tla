---------------------------- MODULE Provisioning ----------------------------
(***************************************************************************)
(* How Wi-Fi credentials get into the device: the boot decision of         *)
(* app_main() in MQTT mode, the submit handler, the connect tasks and the  *)
(* tear-down of main/captive_portal.c, and the credential keys of          *)
(* main/nvs_manager.c.                                                     *)
(*                                                                         *)
(* The HTTP server's thread handles one request at a time.  Every accepted *)
(* form starts a connect task of its own; these tasks and the server have  *)
(* the same priority and interleave at every step.  They share the handles *)
(* `server' and `dns_handle', and flash.                                   *)
(***************************************************************************)

CONSTANTS
  Task,   \* connect tasks: the forms a boot may accept, a bound
  Net,    \* what a form can name: an SSID, and the password typed for it
  None,   \* a key that is not in flash
  Empty,  \* the empty string
  Junk    \* an uninitialised buffer

ASSUME DistinctValues ==
  /\ None \notin Net /\ Empty \notin Net /\ Junk \notin Net
  /\ None # Empty /\ None # Junk /\ Empty # Junk

VARIABLES
  ssid,      \* the NVS key "wifi_ssid"
  password,  \* the NVS key "wifi_password"; a password is named by its SSID
  phase,     \* "boot", "station" or "portal"
  server,    \* the global is not NULL
  httpd,     \* the HTTP server behind it: "up", "ended", "freed" or "off"
  closing,   \* httpd_stop() has asked the thread to end
  dns_handle,\* the global is not NULL
  dns,       \* the DNS server behind it: "up", "freed" or "off"
  ap,        \* the access point is on the air
  hpc,       \* where the server's thread is in submit_post_handler()
  form,      \* its wifi and password
  tpc,       \* where each connect task is
  buf,       \* its ssid and password buffers
  faults,    \* handles that were used after they had been freed
  overlapped,\* history: a task began a tear-down within another's
  torn,      \* history: the last save wrote the SSID and not its password
  refused    \* history: NVS refused a save or a load since boot

flash  == <<ssid, password>>
portal == <<phase, server, httpd, closing, dns_handle, dns, ap>>
handler == <<hpc, form>>
tasks  == <<tpc, buf>>
history == <<overlapped, torn, refused>>
vars   == <<flash, portal, handler, tasks, faults, history>>

NoForm == [wifi |-> Empty, password |-> Empty]
NoBuf  == [ssid |-> Junk, password |-> Junk]

(***************************************************************************)
(* What the sscanf() of submit_post_handler() can leave in its two buffers:*)
(* nothing, an SSID without a password, or both.  A name stands for the    *)
(* text as it is left there: percent-encoded as the browser sent it, and   *)
(* cut at the length of the buffers.                                       *)
(***************************************************************************)
Form == {NoForm} \cup [wifi : Net, password : {Empty}]
                 \cup {[wifi |-> n, password |-> n] : n \in Net}

Volatile ==
  /\ phase' = "boot"
  /\ server' = FALSE /\ httpd' = "off" /\ closing' = FALSE
  /\ dns_handle' = FALSE /\ dns' = "off"
  /\ ap' = FALSE
  /\ hpc' = "idle" /\ form' = NoForm
  /\ tpc' = [t \in Task |-> "none"]
  /\ buf' = [t \in Task |-> NoBuf]
  /\ faults' = {}
  /\ overlapped' = FALSE /\ refused' = FALSE

Init ==
  /\ ssid = None /\ password = None
  /\ phase = "boot"
  /\ server = FALSE /\ httpd = "off" /\ closing = FALSE
  /\ dns_handle = FALSE /\ dns = "off"
  /\ ap = FALSE
  /\ hpc = "idle" /\ form = NoForm
  /\ tpc = [t \in Task |-> "none"]
  /\ buf = [t \in Task |-> NoBuf]
  /\ faults = {}
  /\ overlapped = FALSE /\ torn = FALSE /\ refused = FALSE

-----------------------------------------------------------------------------
(* app_main.                                                               *)

\* load_wifi_config_from_nvs() found an SSID: connect as a station.
BootStation ==
  /\ phase = "boot" /\ ssid \notin {None, Empty}
  /\ phase' = "station"
  /\ UNCHANGED <<flash, server, httpd, closing, dns_handle, dns, ap, handler,
                 tasks, faults, history>>

\* Mutant: the portal opens for an open network too.
BootPortalIfOpen ==
  /\ phase = "boot" /\ (ssid \in {None, Empty} \/ password = Empty)
  /\ phase' = "portal"
  /\ ap' = TRUE
  /\ server' = TRUE /\ httpd' = "up"
  /\ dns_handle' = TRUE /\ dns' = "up"
  /\ UNCHANGED <<flash, closing, handler, tasks, faults, history>>

\* No SSID, or NVS cannot be opened: start_captive_portal().  Either server
\* may fail to start, which leaves its handle NULL.
BootPortal ==
  /\ phase = "boot"
  /\ \/ ssid \in {None, Empty} /\ UNCHANGED refused
     \/ refused' = TRUE
  /\ phase' = "portal"
  /\ ap' = TRUE
  /\ server' \in BOOLEAN
  /\ httpd' = IF server' THEN "up" ELSE "off"
  /\ dns_handle' \in BOOLEAN
  /\ dns' = IF dns_handle' THEN "up" ELSE "off"
  /\ UNCHANGED <<flash, closing, handler, tasks, faults, overlapped, torn>>

-----------------------------------------------------------------------------
(* The HTTP server's thread: submit_post_handler().                        *)

\* A form arrives, or is served in the round in which httpd_stop() asks the
\* thread to end.  (One that cannot be received changes nothing.)
Submit(f) ==
  /\ hpc = "idle" /\ httpd = "up" /\ ap
  /\ \E t \in Task : tpc[t] = "none"            \* the bound on forms
  /\ form' = f
  /\ hpc' = "ssid"
  /\ UNCHANGED <<flash, portal, tasks, faults, history>>

\* Mutant: an empty SSID is not written.
SaveSsidIfAny ==
  /\ hpc = "ssid"
  /\ ssid' = IF form.wifi = Empty THEN ssid ELSE form.wifi
  /\ torn' = (password # form.password)
  /\ hpc' = "password"
  /\ UNCHANGED <<password, portal, form, tasks, faults, overlapped, refused>>

\* save_wifi_config_to_nvs() writes the SSID ...
SaveSsid ==
  /\ hpc = "ssid"
  /\ ssid' = form.wifi
  /\ torn' = (password # form.password)
  /\ hpc' = "password"
  /\ UNCHANGED <<password, portal, form, tasks, faults, overlapped, refused>>

\* Mutant: an empty password is not written.
SavePasswordIfAny ==
  /\ hpc = "password"
  /\ password' = IF form.password = Empty THEN password ELSE form.password
  /\ torn' = FALSE
  /\ hpc' = "reply"
  /\ UNCHANGED <<ssid, portal, form, tasks, faults, overlapped, refused>>

\* ... and then the password.
SavePassword ==
  /\ hpc = "password"
  /\ password' = form.password
  /\ torn' = FALSE
  /\ hpc' = "reply"
  /\ UNCHANGED <<ssid, portal, form, tasks, faults, overlapped, refused>>

\* Opening or either write fails and the save stops there, or only the
\* commit does, with both keys written; the error is logged.
SaveFails ==
  /\ \/ hpc \in {"ssid", "password"} /\ UNCHANGED <<password, torn>>
     \/ hpc = "password" /\ password' = form.password /\ torn' = FALSE
  /\ refused' = TRUE
  /\ hpc' = "reply"
  /\ UNCHANGED <<ssid, portal, form, tasks, faults, overlapped>>

\* The page says "sent", and a task is created, saved or not.
Reply(t) ==
  /\ hpc = "reply" /\ tpc[t] = "none"
  /\ tpc' = [tpc EXCEPT ![t] = "delay"]
  /\ hpc' = "idle" /\ form' = NoForm
  /\ UNCHANGED <<flash, portal, buf, faults, history>>

\* The same when xTaskCreate() finds no memory: nobody looks.
ReplyOnly ==
  /\ hpc = "reply"
  /\ hpc' = "idle" /\ form' = NoForm
  /\ UNCHANGED <<flash, portal, tasks, faults, history>>

\* The thread ends when asked to, between requests.
HttpdEnds ==
  /\ httpd = "up" /\ closing /\ hpc = "idle"
  /\ httpd' = "ended"
  /\ UNCHANGED <<flash, phase, server, closing, dns_handle, dns, ap, handler,
                 tasks, faults, history>>

HandlerStep ==
  SaveSsid \/ SavePassword \/ SaveFails \/ (\E t \in Task : Reply(t))
  \/ ReplyOnly \/ HttpdEnds

-----------------------------------------------------------------------------
(* connect_wifi_task() and stop_captive_portal().                          *)

At(t, from, to) == tpc[t] = from /\ tpc' = [tpc EXCEPT ![t] = to]

TearingDown(t) ==
  tpc[t] \in {"stop", "wait", "clear", "see dns", "stop dns", "clear dns"}

\* The delay is over: is there a server to stop?
SeeServer(t) ==
  /\ IF server THEN At(t, "delay", "stop") ELSE At(t, "delay", "see dns")
  /\ overlapped' = (overlapped \/ \E u \in Task : TearingDown(u))
  /\ UNCHANGED <<flash, portal, handler, buf, faults, torn, refused>>

\* Mutant: the thread is waited for and not asked to end.
StopServerSilently(t) ==
  /\ At(t, "stop", "wait")
  /\ faults' = IF httpd = "freed" THEN faults \cup {"httpd"} ELSE faults
  /\ UNCHANGED <<flash, portal, handler, buf, history>>

\* httpd_stop() asks the thread to end ...
StopServer(t) ==
  /\ At(t, "stop", "wait")
  /\ closing' = TRUE
  /\ faults' = IF httpd = "freed" THEN faults \cup {"httpd"} ELSE faults
  /\ UNCHANGED <<flash, phase, server, httpd, dns_handle, dns, ap, handler,
                 buf, history>>

\* Mutant: the server is freed without waiting for its thread.
FreeServerAtOnce(t) ==
  /\ At(t, "wait", "clear")
  /\ httpd' = "freed"
  /\ faults' = IF httpd = "freed" THEN faults \cup {"httpd"} ELSE faults
  /\ UNCHANGED <<flash, phase, server, closing, dns_handle, dns, ap, handler,
                 buf, history>>

\* ... waits until it has, and frees the server.
FreeServer(t) ==
  /\ httpd # "up"
  /\ At(t, "wait", "clear")
  /\ httpd' = "freed"
  /\ faults' = IF httpd = "freed" THEN faults \cup {"httpd"} ELSE faults
  /\ UNCHANGED <<flash, phase, server, closing, dns_handle, dns, ap, handler,
                 buf, history>>

\* Mutant: the handle is left as it is.
ClearServerNot(t) ==
  /\ At(t, "clear", "see dns")
  /\ UNCHANGED <<flash, portal, handler, buf, faults, history>>

\* server = NULL
ClearServer(t) ==
  /\ At(t, "clear", "see dns")
  /\ server' = FALSE
  /\ UNCHANGED <<flash, phase, httpd, closing, dns_handle, dns, ap, handler,
                 buf, faults, history>>

SeeDns(t) ==
  /\ IF dns_handle THEN At(t, "see dns", "stop dns") ELSE At(t, "see dns", "off")
  /\ UNCHANGED <<flash, portal, handler, buf, faults, history>>

\* stop_dns_server() deletes the task and frees the handle.
StopDns(t) ==
  /\ At(t, "stop dns", "clear dns")
  /\ dns' = "freed"
  /\ faults' = IF dns = "freed" THEN faults \cup {"dns"} ELSE faults
  /\ UNCHANGED <<flash, phase, server, httpd, closing, dns_handle, ap, handler,
                 buf, history>>

\* dns_handle = NULL
ClearDns(t) ==
  /\ At(t, "clear dns", "off")
  /\ dns_handle' = FALSE
  /\ UNCHANGED <<flash, phase, server, httpd, closing, dns, ap, handler,
                 buf, faults, history>>

\* esp_wifi_stop(), esp_wifi_deinit(), and a long delay.
WifiOff(t) ==
  /\ At(t, "off", "load")
  /\ ap' = FALSE
  /\ UNCHANGED <<flash, phase, server, httpd, closing, dns_handle, dns, handler,
                 buf, faults, history>>

\* Mutant: a missing key is copied like any other.
LoadRaw(t) ==
  /\ At(t, "load", "connect")
  /\ buf' = [buf EXCEPT ![t] = [ssid |-> ssid, password |-> password]]
  /\ UNCHANGED <<flash, portal, handler, faults, history>>

\* load_wifi_config_from_nvs() leaves the buffer of a missing key alone.
Load(t) ==
  /\ At(t, "load", "connect")
  /\ buf' = [buf EXCEPT ![t] =
       [ssid |-> IF ssid = None THEN Junk ELSE ssid,
        password |-> IF password = None THEN Junk ELSE password]]
  /\ UNCHANGED <<flash, portal, handler, faults, history>>

\* NVS cannot be opened: both buffers are left alone, and nobody looks.
LoadFails(t) ==
  /\ At(t, "load", "connect")
  /\ refused' = TRUE
  /\ UNCHANGED <<flash, portal, handler, buf, faults, overlapped, torn>>

\* wifi_connection() with these buffers, then esp_restart().
Restart(t) ==
  /\ tpc[t] = "connect"
  /\ Volatile
  /\ UNCHANGED <<flash, torn>>

TaskStep(t) ==
  \/ SeeServer(t) \/ StopServer(t) \/ FreeServer(t) \/ ClearServer(t)
  \/ SeeDns(t) \/ StopDns(t) \/ ClearDns(t) \/ WifiOff(t)
  \/ Load(t) \/ LoadFails(t) \/ Restart(t)

-----------------------------------------------------------------------------
(* The environment.                                                        *)

\* The heap notices a handle freed twice, or a freed one is dereferenced.
Panic ==
  /\ faults # {}
  /\ Volatile
  /\ UNCHANGED <<flash, torn>>

\* A power cut, or a restart by the mode button, at any time.
PowerCut ==
  /\ phase # "boot"
  /\ Volatile
  /\ UNCHANGED <<flash, torn>>

Next ==
  \/ BootStation \/ BootPortal
  \/ \E f \in Form : Submit(f)
  \/ HandlerStep
  \/ \E t \in Task : TaskStep(t)
  \/ Panic
  \/ PowerCut

Spec == Init /\ [][Next]_vars

\* A round has finitely many requests, and the thread ends after it.
FairSpec ==
  /\ Spec
  /\ WF_vars(BootStation \/ BootPortal)
  /\ WF_vars(HandlerStep) /\ SF_vars(HttpdEnds)
  /\ \A t \in Task : WF_vars(TaskStep(t))

-----------------------------------------------------------------------------
(* Properties.                                                             *)

TypeOK ==
  /\ {ssid, password} \subseteq Net \cup {None, Empty}
  /\ phase \in {"boot", "station", "portal"}
  /\ {server, closing, dns_handle, ap, overlapped, torn, refused}
     \subseteq BOOLEAN
  /\ httpd \in {"up", "ended", "freed", "off"}
  /\ dns \in {"up", "freed", "off"}
  /\ hpc \in {"idle", "ssid", "password", "reply"}
  /\ form \in Form
  /\ tpc \in [Task -> {"none", "delay", "stop", "wait", "clear", "see dns",
                       "stop dns", "clear dns", "off", "load", "connect"}]
  /\ buf \in [Task -> [ssid : Net \cup {Empty, Junk},
                       password : Net \cup {Empty, Junk}]]
  /\ faults \subseteq {"httpd", "dns"}

(***************************************************************************)
(* No connect task restarts the device in the middle of a save: the        *)
(* tear-down waits for the request in progress, even when several tasks    *)
(* tear down at once, as long as none has used a freed handle.             *)
(***************************************************************************)
RestartNeverTearsSave ==
  (\E t \in Task : tpc[t] \in {"load", "connect"}) /\ faults = {}
    => hpc = "idle"

(***************************************************************************)
(* A station boot uses an SSID and a password of one form, unless the last *)
(* save was cut short by a failed write or a power cut.                    *)
(***************************************************************************)
CredentialsPaired ==
  phase = "station" /\ ~ torn => password \in {ssid, Empty}

(***************************************************************************)
(* wifi_connection() is called with an uninitialised buffer only after NVS *)
(* refused a save or the load: the form is saved before its task is        *)
(* created, and later forms only overwrite it.                             *)
(***************************************************************************)
JunkOnlyRefused ==
  \A t \in Task :
    tpc[t] = "connect" /\ ~ refused =>
      Junk \notin {buf[t].ssid, buf[t].password}

(***************************************************************************)
(* Tear-downs that follow one another never touch a freed handle: each     *)
(* leaves `server' and `dns_handle' NULL for the next.                     *)
(***************************************************************************)
SequentialTearDownSafe == ~ overlapped => faults = {}

(***************************************************************************)
(* stop_dns_server() destroys the handle it is given (dns_server.h:70-71): *)
(* it is called with a handle that has not been destroyed.  The code breaks*)
(* it when two forms are submitted: both tasks see dns_handle before either*)
(* clears it.                                                              *)
(***************************************************************************)
DnsStoppedOnce == "dns" \notin faults

(***************************************************************************)
(* A created connect task ends in a restart: the tear-down, with its wait  *)
(* for the HTTP thread, cannot hang.                                       *)
(***************************************************************************)
ConnectEndsInRestart == \A t \in Task : (tpc[t] # "none") ~> (tpc[t] = "none")

(***************************************************************************)
(* Once a boot has found an SSID the portal does not open again, right or  *)
(* wrong as the credentials may be, as long as NVS refuses nothing:        *)
(* clear_all_nvs() is not reachable.                                       *)
(***************************************************************************)
NoWayBack ==
  [](phase = "station" /\ []~ refused => [](phase # "portal"))
=============================================================================
