------------------------- MODULE ProvisioningProofs -------------------------
(***************************************************************************)
(* Proofs about Provisioning, for every number of connect tasks (that is,  *)
(* of forms a boot accepts) and every set of networks.                     *)
(***************************************************************************)
EXTENDS Provisioning, TLAPS

\* Before the portal there is nothing to tear down, and no form.
BootInv ==
  phase # "portal" => /\ httpd = "off" /\ hpc = "idle"
                      /\ \A t \in Task : tpc[t] = "none"

\* Tasks that have the end of the HTTP thread behind them.
PastServer(t) ==
  tpc[t] \in {"clear", "see dns", "stop dns", "clear dns", "off", "load",
              "connect"}

(***************************************************************************)
(* A request is handled only while the server is up; who has passed the    *)
(* wait for its thread, or found no server in the portal, has seen it down,*)
(* and it does not come up again.                                          *)
(***************************************************************************)
ServerInv ==
  /\ hpc # "idle" => httpd = "up"
  /\ phase = "portal" /\ ~ server => httpd # "up"
  /\ \A t \in Task : PastServer(t) => httpd # "up"

(***************************************************************************)
(* Flash holds the two halves of one form, unless the last save was cut    *)
(* short; between the two writes of a save the SSID is that of the form.   *)
(***************************************************************************)
PairInv ==
  /\ ~ torn => password \in {ssid, Empty}
  /\ hpc = "password" => ssid = form.wifi

(***************************************************************************)
(* Unless NVS has refused something, a form is in flash from its save on,  *)
(* so that a task that has been created finds both keys.                   *)
(***************************************************************************)
SavedInv ==
  ~ refused =>
    /\ hpc \in {"password", "reply"} => ssid # None
    /\ hpc = "reply" => password # None
    /\ \A t \in Task :
         /\ tpc[t] # "none" => ssid # None /\ password # None
         /\ tpc[t] = "connect" => Junk \notin {buf[t].ssid, buf[t].password}

(***************************************************************************)
(* As long as no two tear-downs have overlapped, one task at most tears    *)
(* down, and a handle that is not NULL is not freed, but between the free  *)
(* and the assignment of NULL of that task.                                *)
(***************************************************************************)
HandleInv ==
  ~ overlapped =>
    /\ \A t, u \in Task : TearingDown(t) /\ TearingDown(u) => t = u
    /\ server /\ (\A t \in Task : tpc[t] # "clear") => httpd # "freed"
    /\ dns_handle /\ (\A t \in Task : tpc[t] # "clear dns") => dns # "freed"
    /\ \A t \in Task : /\ tpc[t] \in {"stop", "wait"} => httpd # "freed"
                       /\ tpc[t] = "stop dns" => dns # "freed"
    /\ faults = {}

Inv == TypeOK /\ BootInv /\ ServerInv /\ PairInv /\ SavedInv /\ HandleInv

-----------------------------------------------------------------------------

\* The task t goes from one place to another, the others stay where they are.
Moved(t, from, to) ==
  tpc[t] = from /\ \A u \in Task : tpc'[u] = IF u = t THEN to ELSE tpc[u]

\* Where each action takes its task.
LEMMA Moves ==
  ASSUME TypeOK, NEW t \in Task
  PROVE  /\ Reply(t) => Moved(t, "none", "delay")
         /\ SeeServer(t) =>
              Moved(t, "delay", IF server THEN "stop" ELSE "see dns")
         /\ StopServer(t) => Moved(t, "stop", "wait")
         /\ FreeServer(t) => Moved(t, "wait", "clear")
         /\ ClearServer(t) => Moved(t, "clear", "see dns")
         /\ SeeDns(t) =>
              Moved(t, "see dns", IF dns_handle THEN "stop dns" ELSE "off")
         /\ StopDns(t) => Moved(t, "stop dns", "clear dns")
         /\ ClearDns(t) => Moved(t, "clear dns", "off")
         /\ WifiOff(t) => Moved(t, "off", "load")
         /\ Load(t) => Moved(t, "load", "connect")
         /\ LoadFails(t) => Moved(t, "load", "connect")
<1>1. ASSUME NEW from, NEW to, At(t, from, to) PROVE Moved(t, from, to)
  BY <1>1 DEF TypeOK, At, Moved
<1>2. Reply(t) => Moved(t, "none", "delay")
  BY DEF TypeOK, Reply, Moved
<1> QED
  BY <1>1, <1>2
     DEF SeeServer, StopServer, FreeServer, ClearServer, SeeDns, StopDns,
         ClearDns, WifiOff, Load, LoadFails

\* What a connect task does before it restarts the device.
StepBeforeRestart(t) ==
  \/ SeeServer(t) \/ StopServer(t) \/ FreeServer(t) \/ ClearServer(t)
  \/ SeeDns(t) \/ StopDns(t) \/ ClearDns(t) \/ WifiOff(t)
  \/ Load(t) \/ LoadFails(t)

\* A form names a network and the password typed for it, or leaves either out.
LEMMA FormFacts ==
  ASSUME NEW f \in Form
  PROVE  f.wifi \in Net \cup {Empty} /\ f.password \in {f.wifi, Empty}
  BY DEF Form, NoForm

LEMMA InitInv == Init => Inv
<1> SUFFICES ASSUME Init PROVE Inv
  OBVIOUS
<1>1. TypeOK
  BY DEF Init, TypeOK, NoForm, NoBuf, Form
<1>2. BootInv /\ ServerInv /\ PairInv
  BY DEF Init, BootInv, ServerInv, PairInv, PastServer
<1>3. SavedInv /\ HandleInv
  BY DEF Init, SavedInv, HandleInv, TearingDown
<1> QED
  BY <1>1, <1>2, <1>3 DEF Inv

\* After a restart of any cause nothing is under way.
LEMMA VolatileTyping ==
  ASSUME TypeOK, Volatile, UNCHANGED <<flash, torn>> PROVE TypeOK'
  BY DEF TypeOK, Volatile, flash, NoForm, NoBuf, Form

\* A restart establishes every part of the invariant, whatever it interrupts.
LEMMA VolatileInv ==
  ASSUME Inv, Volatile, UNCHANGED <<flash, torn>> PROVE Inv'
<1>1. TypeOK'
  BY VolatileTyping DEF Inv
<1>2. \A t \in Task : tpc'[t] = "none"
  BY DEF Volatile
<1>3. BootInv' /\ ServerInv' /\ PairInv'
  BY <1>2 DEF Inv, BootInv, ServerInv, PairInv, PastServer, Volatile, flash
<1>4. SavedInv' /\ HandleInv'
  BY <1>2 DEF SavedInv, HandleInv, TearingDown, Volatile
<1> QED
  BY <1>1, <1>3, <1>4 DEF Inv

\* Every step keeps the variables in their types.
LEMMA NextTyping == TypeOK /\ [Next]_vars => TypeOK'
<1> SUFFICES ASSUME TypeOK, [Next]_vars PROVE TypeOK'
  OBVIOUS
<1> USE DEF TypeOK, flash, portal, handler, tasks, history
<1>1. CASE BootStation \/ BootPortal
  BY <1>1 DEF BootStation, BootPortal
<1>2. ASSUME NEW f \in Form, Submit(f) PROVE TypeOK'
  BY <1>2 DEF Submit
<1>3. CASE SaveSsid \/ SavePassword \/ SaveFails
  <2>1. form.wifi \in Net \cup {Empty} /\ form.password \in Net \cup {Empty}
    BY FormFacts
  <2> QED
    BY <1>3, <2>1 DEF SaveSsid, SavePassword, SaveFails
<1>4. CASE ReplyOnly \/ HttpdEnds
  BY <1>4 DEF ReplyOnly, HttpdEnds, Form
<1>5. ASSUME NEW t \in Task, Reply(t) PROVE TypeOK'
  BY <1>5 DEF Reply, Form
<1>6. ASSUME NEW t \in Task,
             SeeServer(t) \/ StopServer(t) \/ FreeServer(t) \/ ClearServer(t)
      PROVE  TypeOK'
  <2>1. tpc' \in [Task -> {"none", "delay", "stop", "wait", "clear", "see dns",
                           "stop dns", "clear dns", "off", "load", "connect"}]
    BY <1>6 DEF SeeServer, StopServer, FreeServer, ClearServer, At
  <2>2. CASE SeeServer(t)
    BY <2>1, <2>2 DEF SeeServer
  <2>3. CASE StopServer(t)
    BY <2>1, <2>3 DEF StopServer
  <2>4. CASE FreeServer(t)
    BY <2>1, <2>4 DEF FreeServer
  <2>5. CASE ClearServer(t)
    BY <2>1, <2>5 DEF ClearServer
  <2> QED
    BY <1>6, <2>2, <2>3, <2>4, <2>5
<1>7. ASSUME NEW t \in Task,
             SeeDns(t) \/ StopDns(t) \/ ClearDns(t) \/ WifiOff(t)
      PROVE  TypeOK'
  <2>1. tpc' \in [Task -> {"none", "delay", "stop", "wait", "clear", "see dns",
                           "stop dns", "clear dns", "off", "load", "connect"}]
    BY <1>7 DEF SeeDns, StopDns, ClearDns, WifiOff, At
  <2>2. CASE SeeDns(t)
    BY <2>1, <2>2 DEF SeeDns
  <2>3. CASE StopDns(t)
    BY <2>1, <2>3 DEF StopDns
  <2>4. CASE ClearDns(t)
    BY <2>1, <2>4 DEF ClearDns
  <2>5. CASE WifiOff(t)
    BY <2>1, <2>5 DEF WifiOff
  <2> QED
    BY <1>7, <2>2, <2>3, <2>4, <2>5
<1>8. ASSUME NEW t \in Task, Load(t) \/ LoadFails(t) PROVE TypeOK'
  <2>1. tpc' \in [Task -> {"none", "delay", "stop", "wait", "clear", "see dns",
                           "stop dns", "clear dns", "off", "load", "connect"}]
    BY <1>8 DEF Load, LoadFails, At
  <2> DEFINE Buffer == [ssid : Net \cup {Empty, Junk},
                        password : Net \cup {Empty, Junk}]
             loaded == [ssid |-> IF ssid = None THEN Junk ELSE ssid,
                        password |-> IF password = None THEN Junk ELSE password]
  <2>2. loaded \in Buffer
    OBVIOUS
  <2>3. buf' = [buf EXCEPT ![t] = loaded] \/ buf' = buf
    BY <1>8 DEF Load, LoadFails
  <2>4. buf' \in [Task -> Buffer]
    <3> HIDE DEF loaded
    <3> QED BY <2>2, <2>3
  <2> QED
    BY <1>8, <2>1, <2>4 DEF Load, LoadFails
<1>9. ASSUME NEW t \in Task, Restart(t) PROVE TypeOK'
  BY <1>9, VolatileTyping DEF Restart
<1>10. CASE Panic \/ PowerCut
  BY <1>10, VolatileTyping DEF Panic, PowerCut
<1>11. CASE UNCHANGED vars
  BY <1>11 DEF vars
<1> QED
  BY <1>1, <1>2, <1>3, <1>4, <1>5, <1>6, <1>7, <1>8, <1>9, <1>10, <1>11
     DEF Next, HandlerStep, TaskStep

-----------------------------------------------------------------------------
\* Tasks and requests exist in a portal boot only.
LEMMA NextBoot == Inv /\ [Next]_vars => BootInv'
<1> SUFFICES ASSUME Inv, [Next]_vars PROVE BootInv'
  OBVIOUS
<1> USE DEF BootInv, flash, portal, handler, tasks, history
<1>0. BootInv /\ TypeOK
  BY DEF Inv
<1>1. CASE BootStation \/ BootPortal
  BY <1>0, <1>1 DEF BootStation, BootPortal
<1>2. ASSUME NEW f \in Form, Submit(f) PROVE BootInv'
  BY <1>0, <1>2 DEF Submit
<1>3. CASE SaveSsid
  BY <1>0, <1>3 DEF SaveSsid
<1>4. CASE SavePassword
  BY <1>0, <1>4 DEF SavePassword
<1>5. CASE SaveFails
  BY <1>0, <1>5 DEF SaveFails
<1>6. ASSUME NEW t \in Task, Reply(t) PROVE BootInv'
  BY <1>0, <1>6, Moves DEF Reply, Moved
<1>7. CASE ReplyOnly \/ HttpdEnds
  BY <1>0, <1>7 DEF ReplyOnly, HttpdEnds
<1>8. ASSUME NEW t \in Task, StepBeforeRestart(t) PROVE BootInv'
  <2>1. tpc[t] # "none"
    BY <1>0, <1>8, Moves DEF StepBeforeRestart, Moved
  <2>2. UNCHANGED phase
    BY <1>8
       DEF StepBeforeRestart, SeeServer, StopServer, FreeServer, ClearServer,
           SeeDns, StopDns, ClearDns, WifiOff, Load, LoadFails
  <2> QED
    BY <1>0, <2>1, <2>2
<1>9. ASSUME NEW t \in Task, Restart(t) PROVE BootInv'
  BY <1>9, VolatileInv DEF Restart, Inv
<1>10. CASE Panic \/ PowerCut
  BY <1>10, VolatileInv DEF Panic, PowerCut, Inv
<1>11. CASE UNCHANGED vars
  BY <1>0, <1>11 DEF vars
<1> QED
  BY <1>1, <1>2, <1>3, <1>4, <1>5, <1>6, <1>7, <1>8, <1>9, <1>10, <1>11
     DEF Next, HandlerStep, TaskStep, StepBeforeRestart

\* What a task has seen of the end of the server stays so.
LEMMA NextServer == Inv /\ [Next]_vars => ServerInv'
<1> SUFFICES ASSUME Inv, [Next]_vars PROVE ServerInv'
  OBVIOUS
<1> USE DEF ServerInv, BootInv, PastServer, flash, portal, handler,
            tasks, history
<1>0. BootInv /\ ServerInv /\ TypeOK
  BY DEF Inv
<1>1. CASE BootStation \/ BootPortal
  BY <1>0, <1>1 DEF BootStation, BootPortal
<1>2. ASSUME NEW f \in Form, Submit(f) PROVE ServerInv'
  BY <1>0, <1>2 DEF Submit
<1>3. CASE SaveSsid
  BY <1>0, <1>3 DEF SaveSsid
<1>4. CASE SavePassword
  BY <1>0, <1>4 DEF SavePassword
<1>5. CASE SaveFails
  BY <1>0, <1>5 DEF SaveFails
<1>6. ASSUME NEW t \in Task, Reply(t) PROVE ServerInv'
  <2>1. Moved(t, "none", "delay")
    BY <1>0, <1>6, Moves
  <2>2. hpc' = "idle" /\ UNCHANGED <<portal, faults, history>>
    BY <1>6 DEF Reply
  <2> QED
    BY <1>0, <2>1, <2>2 DEF Moved
<1>7. CASE ReplyOnly \/ HttpdEnds
  BY <1>0, <1>7 DEF ReplyOnly, HttpdEnds
<1>8. ASSUME NEW t \in Task, SeeServer(t) PROVE ServerInv'
  BY <1>0, <1>8, Moves DEF SeeServer, Moved
<1>9. ASSUME NEW t \in Task, StopServer(t) PROVE ServerInv'
  BY <1>0, <1>9, Moves DEF StopServer, Moved
<1>10. ASSUME NEW t \in Task, FreeServer(t) PROVE ServerInv'
  BY <1>0, <1>10, Moves DEF FreeServer, Moved
<1>11. ASSUME NEW t \in Task, ClearServer(t) PROVE ServerInv'
  BY <1>0, <1>11, Moves DEF ClearServer, Moved
<1>12. ASSUME NEW t \in Task, SeeDns(t) PROVE ServerInv'
  BY <1>0, <1>12, Moves DEF SeeDns, Moved
<1>13. ASSUME NEW t \in Task, StopDns(t) PROVE ServerInv'
  BY <1>0, <1>13, Moves DEF StopDns, Moved
<1>14. ASSUME NEW t \in Task, ClearDns(t) PROVE ServerInv'
  BY <1>0, <1>14, Moves DEF ClearDns, Moved
<1>15. ASSUME NEW t \in Task, WifiOff(t) PROVE ServerInv'
  BY <1>0, <1>15, Moves DEF WifiOff, Moved
<1>16. ASSUME NEW t \in Task, Load(t) PROVE ServerInv'
  BY <1>0, <1>16, Moves DEF Load, Moved
<1>17. ASSUME NEW t \in Task, LoadFails(t) PROVE ServerInv'
  BY <1>0, <1>17, Moves DEF LoadFails, Moved
<1>18. ASSUME NEW t \in Task, Restart(t) PROVE ServerInv'
  BY <1>18, VolatileInv DEF Restart, Inv
<1>19. CASE Panic \/ PowerCut
  BY <1>19, VolatileInv DEF Panic, PowerCut, Inv
<1>20. CASE UNCHANGED vars
  BY <1>0, <1>20 DEF vars
<1> QED
  BY <1>1, <1>2, <1>3, <1>4, <1>5, <1>6, <1>7, <1>8, <1>9, <1>10, <1>11, <1>12,
     <1>13, <1>14, <1>15, <1>16, <1>17, <1>18, <1>19, <1>20
     DEF Next, HandlerStep, TaskStep

\* The writes of a save keep the pair, or torn says that they have not.
LEMMA NextPair == Inv /\ [Next]_vars => PairInv'
<1> SUFFICES ASSUME Inv, [Next]_vars PROVE PairInv'
  OBVIOUS
<1> USE DEF PairInv, flash, portal, handler, tasks, history
<1>0. PairInv /\ TypeOK
  BY DEF Inv
<1>1. CASE BootStation \/ BootPortal
  BY <1>0, <1>1 DEF BootStation, BootPortal
<1>2. ASSUME NEW f \in Form, Submit(f) PROVE PairInv'
  BY <1>0, <1>2 DEF Submit
<1>3. CASE SaveSsid
  <2>1. ssid' = form.wifi /\ (~ torn' => password = form.password)
    BY <1>3 DEF SaveSsid
  <2>2. form.password \in {form.wifi, Empty}
    BY <1>0, FormFacts DEF TypeOK
  <2> QED
    BY <1>3, <2>1, <2>2 DEF SaveSsid
<1>4. CASE SavePassword
  <2>1. form.password \in {form.wifi, Empty}
    BY <1>0, FormFacts DEF TypeOK
  <2> QED
    BY <1>0, <1>4, <2>1 DEF SavePassword
<1>5. CASE SaveFails
  <2>1. form.password \in {form.wifi, Empty}
    BY <1>0, FormFacts DEF TypeOK
  <2> QED
    BY <1>0, <1>5, <2>1 DEF SaveFails
<1>6. ASSUME NEW t \in Task, Reply(t) PROVE PairInv'
  BY <1>0, <1>6, Moves DEF Reply, Moved
<1>7. CASE ReplyOnly \/ HttpdEnds
  BY <1>0, <1>7 DEF ReplyOnly, HttpdEnds
<1>8. ASSUME NEW t \in Task, StepBeforeRestart(t) PROVE PairInv'
  BY <1>0, <1>8
     DEF StepBeforeRestart, SeeServer, StopServer, FreeServer, ClearServer,
         SeeDns, StopDns, ClearDns, WifiOff, Load, LoadFails
<1>9. ASSUME NEW t \in Task, Restart(t) PROVE PairInv'
  BY <1>9, VolatileInv DEF Restart, Inv
<1>10. CASE Panic \/ PowerCut
  BY <1>10, VolatileInv DEF Panic, PowerCut, Inv
<1>11. CASE UNCHANGED vars
  BY <1>0, <1>11 DEF vars
<1> QED
  BY <1>1, <1>2, <1>3, <1>4, <1>5, <1>6, <1>7, <1>8, <1>9, <1>10, <1>11
     DEF Next, HandlerStep, TaskStep, StepBeforeRestart

\* Keys that have been written are not removed.
LEMMA NextSaved == Inv /\ [Next]_vars => SavedInv'
<1> SUFFICES ASSUME Inv, [Next]_vars PROVE SavedInv'
  OBVIOUS
<1> USE DEF SavedInv, flash, portal, handler, tasks, history
<1>0. BootInv /\ PairInv /\ SavedInv /\ TypeOK
  BY DEF Inv
<1>1. CASE BootStation \/ BootPortal
  BY <1>0, <1>1 DEF BootStation, BootPortal
<1>2. ASSUME NEW f \in Form, Submit(f) PROVE SavedInv'
  BY <1>0, <1>2 DEF Submit
<1>3. CASE SaveSsid
  <2>1. ssid' # None
    BY <1>0, <1>3, FormFacts, DistinctValues DEF TypeOK, SaveSsid
  <2> QED
    BY <1>0, <1>3, <2>1 DEF SaveSsid
<1>4. CASE SavePassword
  <2>1. form.password \in Net \cup {Empty}
    BY <1>0, FormFacts DEF TypeOK
  <2>2. password' # None
    BY <1>4, <2>1, DistinctValues DEF SavePassword
  <2> QED
    BY <1>0, <1>4, <2>2 DEF SavePassword
<1>5. CASE SaveFails
  BY <1>0, <1>5 DEF SaveFails
<1>6. ASSUME NEW t \in Task, Reply(t) PROVE SavedInv'
  <2>1. Moved(t, "none", "delay")
    BY <1>0, <1>6, Moves
  <2>2. hpc = "reply" /\ hpc' = "idle" /\ UNCHANGED <<flash, buf, history>>
    BY <1>6 DEF Reply
  <2> QED
    BY <1>0, <2>1, <2>2 DEF Moved
<1>7. CASE ReplyOnly \/ HttpdEnds
  BY <1>0, <1>7 DEF ReplyOnly, HttpdEnds
<1>8. ASSUME NEW t \in Task, SeeServer(t) PROVE SavedInv'
  BY <1>0, <1>8, Moves DEF SeeServer, Moved
<1>9. ASSUME NEW t \in Task, StopServer(t) PROVE SavedInv'
  BY <1>0, <1>9, Moves DEF StopServer, Moved
<1>10. ASSUME NEW t \in Task, FreeServer(t) PROVE SavedInv'
  BY <1>0, <1>10, Moves DEF FreeServer, Moved
<1>11. ASSUME NEW t \in Task, ClearServer(t) PROVE SavedInv'
  BY <1>0, <1>11, Moves DEF ClearServer, Moved
<1>12. ASSUME NEW t \in Task, SeeDns(t) PROVE SavedInv'
  BY <1>0, <1>12, Moves DEF SeeDns, Moved
<1>13. ASSUME NEW t \in Task, StopDns(t) PROVE SavedInv'
  BY <1>0, <1>13, Moves DEF StopDns, Moved
<1>14. ASSUME NEW t \in Task, ClearDns(t) PROVE SavedInv'
  BY <1>0, <1>14, Moves DEF ClearDns, Moved
<1>15. ASSUME NEW t \in Task, WifiOff(t) PROVE SavedInv'
  BY <1>0, <1>15, Moves DEF WifiOff, Moved
<1>16. ASSUME NEW t \in Task, Load(t) PROVE SavedInv'
  <2>1. Moved(t, "load", "connect")
    BY <1>0, <1>16, Moves
  <2>2. ~ refused => Junk \notin {buf'[t].ssid, buf'[t].password}
    BY <1>0, <1>16, <2>1, DistinctValues DEF Moved, TypeOK, Load
  <2>3. \A u \in Task : u # t => buf'[u] = buf[u]
    BY <1>0, <1>16 DEF TypeOK, Load
  <2> QED
    BY <1>0, <1>16, <2>1, <2>2, <2>3 DEF Moved, Load
<1>17. ASSUME NEW t \in Task, LoadFails(t) PROVE SavedInv'
  BY <1>0, <1>17, Moves DEF LoadFails, Moved
<1>18. ASSUME NEW t \in Task, Restart(t) PROVE SavedInv'
  BY <1>18, VolatileInv DEF Restart, Inv
<1>19. CASE Panic \/ PowerCut
  BY <1>19, VolatileInv DEF Panic, PowerCut, Inv
<1>20. CASE UNCHANGED vars
  BY <1>0, <1>20 DEF vars
<1> QED
  BY <1>1, <1>2, <1>3, <1>4, <1>5, <1>6, <1>7, <1>8, <1>9, <1>10, <1>11, <1>12,
     <1>13, <1>14, <1>15, <1>16, <1>17, <1>18, <1>19, <1>20
     DEF Next, HandlerStep, TaskStep

\* A tear-down without another beside it frees each handle once.
LEMMA NextHandle == Inv /\ [Next]_vars => HandleInv'
<1> SUFFICES ASSUME Inv, [Next]_vars PROVE HandleInv'
  OBVIOUS
<1> USE DEF HandleInv, BootInv, TearingDown, flash, portal, handler,
            tasks, history
<1>0. BootInv /\ HandleInv /\ TypeOK
  BY DEF Inv
<1>1. CASE BootStation \/ BootPortal
  BY <1>0, <1>1 DEF BootStation, BootPortal
<1>2. ASSUME NEW f \in Form, Submit(f) PROVE HandleInv'
  BY <1>0, <1>2 DEF Submit
<1>3. CASE SaveSsid
  BY <1>0, <1>3 DEF SaveSsid
<1>4. CASE SavePassword
  BY <1>0, <1>4 DEF SavePassword
<1>5. CASE SaveFails
  BY <1>0, <1>5 DEF SaveFails
<1>6. ASSUME NEW t \in Task, Reply(t) PROVE HandleInv'
  <2>1. Moved(t, "none", "delay")
    BY <1>0, <1>6, Moves
  <2>2. hpc' = "idle" /\ UNCHANGED <<portal, faults, history>>
    BY <1>6 DEF Reply
  <2> QED
    BY <1>0, <2>1, <2>2 DEF Moved
<1>7. CASE ReplyOnly \/ HttpdEnds
  BY <1>0, <1>7 DEF ReplyOnly, HttpdEnds
<1>8. ASSUME NEW t \in Task, SeeServer(t) PROVE HandleInv'
  <2>1. Moved(t, "delay", IF server THEN "stop" ELSE "see dns")
    BY <1>0, <1>8, Moves
  <2> QED
    BY <1>0, <1>8, <2>1 DEF SeeServer, Moved
<1>9. ASSUME NEW t \in Task, StopServer(t) PROVE HandleInv'
  <2>1. Moved(t, "stop", "wait")
    BY <1>0, <1>9, Moves
  <2> QED
    BY <1>0, <1>9, <2>1 DEF StopServer, Moved
<1>10. ASSUME NEW t \in Task, FreeServer(t) PROVE HandleInv'
  <2>1. Moved(t, "wait", "clear")
    BY <1>0, <1>10, Moves
  <2> QED
    BY <1>0, <1>10, <2>1 DEF FreeServer, Moved
<1>11. ASSUME NEW t \in Task, ClearServer(t) PROVE HandleInv'
  <2>1. Moved(t, "clear", "see dns")
    BY <1>0, <1>11, Moves
  <2> QED
    BY <1>0, <1>11, <2>1 DEF ClearServer, Moved
<1>12. ASSUME NEW t \in Task, SeeDns(t) PROVE HandleInv'
  <2>1. Moved(t, "see dns", IF dns_handle THEN "stop dns" ELSE "off")
    BY <1>0, <1>12, Moves
  <2> QED
    BY <1>0, <1>12, <2>1 DEF SeeDns, Moved
<1>13. ASSUME NEW t \in Task, StopDns(t) PROVE HandleInv'
  <2>1. Moved(t, "stop dns", "clear dns")
    BY <1>0, <1>13, Moves
  <2> QED
    BY <1>0, <1>13, <2>1 DEF StopDns, Moved
<1>14. ASSUME NEW t \in Task, ClearDns(t) PROVE HandleInv'
  <2>1. Moved(t, "clear dns", "off")
    BY <1>0, <1>14, Moves
  <2> QED
    BY <1>0, <1>14, <2>1 DEF ClearDns, Moved
<1>15. ASSUME NEW t \in Task, WifiOff(t) PROVE HandleInv'
  <2>1. Moved(t, "off", "load")
    BY <1>0, <1>15, Moves
  <2> QED
    BY <1>0, <1>15, <2>1 DEF WifiOff, Moved
<1>16. ASSUME NEW t \in Task, Load(t) PROVE HandleInv'
  <2>1. Moved(t, "load", "connect")
    BY <1>0, <1>16, Moves
  <2> QED
    BY <1>0, <1>16, <2>1 DEF Load, Moved
<1>17. ASSUME NEW t \in Task, LoadFails(t) PROVE HandleInv'
  <2>1. Moved(t, "load", "connect")
    BY <1>0, <1>17, Moves
  <2> QED
    BY <1>0, <1>17, <2>1 DEF LoadFails, Moved
<1>18. ASSUME NEW t \in Task, Restart(t) PROVE HandleInv'
  BY <1>18, VolatileInv DEF Restart, Inv
<1>19. CASE Panic \/ PowerCut
  BY <1>19, VolatileInv DEF Panic, PowerCut, Inv
<1>20. CASE UNCHANGED vars
  BY <1>0, <1>20 DEF vars
<1> QED
  BY <1>1, <1>2, <1>3, <1>4, <1>5, <1>6, <1>7, <1>8, <1>9, <1>10, <1>11, <1>12,
     <1>13, <1>14, <1>15, <1>16, <1>17, <1>18, <1>19, <1>20
     DEF Next, HandlerStep, TaskStep

-----------------------------------------------------------------------------

LEMMA Invariance == Spec => []Inv
<1>1. Inv /\ [Next]_vars => Inv'
  BY NextTyping, NextBoot, NextServer, NextPair, NextSaved, NextHandle DEF Inv
<1> QED
  BY InitInv, <1>1, PTL DEF Spec

(***************************************************************************)
(* Every reachable state is well typed: among others, only "httpd" and     *)
(* "dns" are ever used after they were freed.                              *)
(***************************************************************************)
THEOREM Typing == Spec => []TypeOK
<1>1. Inv => TypeOK
  BY DEF Inv
<1> QED
  BY <1>1, Invariance, PTL

(***************************************************************************)
(* RestartNeverTearsSave: a task that is about to connect and restart has  *)
(* seen the end of the HTTP thread, which ends between requests only       *)
(* (captive_portal.c:239-243).                                             *)
(***************************************************************************)
THEOREM SaveBeforeRestart == Spec => []RestartNeverTearsSave
<1>1. Inv => RestartNeverTearsSave
  BY DEF Inv, ServerInv, PastServer, RestartNeverTearsSave
<1> QED
  BY <1>1, Invariance, PTL

(***************************************************************************)
(* CredentialsPaired: a station boot uses an SSID and a password of one    *)
(* form (nvs_manager.c:27-36), unless the last save was cut short.         *)
(***************************************************************************)
THEOREM Paired == Spec => []CredentialsPaired
<1>1. Inv => CredentialsPaired
  BY DEF Inv, PairInv, CredentialsPaired
<1> QED
  BY <1>1, Invariance, PTL

(***************************************************************************)
(* JunkOnlyRefused: wifi_connection() gets buffers that the load has       *)
(* filled (captive_portal.c:70), unless NVS refused a call in this boot.   *)
(***************************************************************************)
THEOREM FilledBuffers == Spec => []JunkOnlyRefused
<1>1. Inv => JunkOnlyRefused
  BY DEF Inv, SavedInv, JunkOnlyRefused
<1> QED
  BY <1>1, Invariance, PTL

(***************************************************************************)
(* SequentialTearDownSafe: however many forms are submitted, tear-downs    *)
(* that do not overlap stop each server once (captive_portal.c:239-249).   *)
(***************************************************************************)
THEOREM TearDownSafe == Spec => []SequentialTearDownSafe
<1>1. Inv => SequentialTearDownSafe
  BY DEF Inv, HandleInv, SequentialTearDownSafe
<1> QED
  BY <1>1, Invariance, PTL

-----------------------------------------------------------------------------

\* The SSID that app_main() looks for is there, and no portal changes it.
Closed == phase # "portal" /\ ssid \notin {None, Empty}

\* It stays closed over any number of boots in which NVS refuses nothing.
LEMMA StaysClosed ==
  ASSUME Inv, Closed, [Next]_vars, ~ refused' PROVE Closed'
<1> USE DEF Inv, BootInv, Closed, flash, portal
<1>1. CASE BootStation \/ BootPortal
  BY <1>1 DEF BootStation, BootPortal
<1>2. CASE Panic \/ PowerCut
  BY <1>2 DEF Panic, PowerCut, Volatile
<1>3. CASE UNCHANGED vars
  BY <1>3 DEF vars
<1>4. httpd = "off" /\ hpc = "idle" /\ \A t \in Task : tpc[t] = "none"
  OBVIOUS
<1>5. ~ HandlerStep /\ \A f \in Form : ~ Submit(f)
  BY <1>4 DEF HandlerStep, SaveSsid, SavePassword, SaveFails, Reply, ReplyOnly,
              HttpdEnds, Submit
<1>6. \A t \in Task : ~ TaskStep(t)
  BY <1>4 DEF TaskStep, SeeServer, StopServer, FreeServer, ClearServer, SeeDns,
              StopDns, ClearDns, WifiOff, Load, LoadFails, Restart, At
<1> QED
  BY <1>1, <1>2, <1>3, <1>5, <1>6 DEF Next

\* A station boot has found an SSID.
LEMMA StationClosed == Spec => [](phase = "station" => Closed)
<1> DEFINE Found == phase = "station" => Closed
<1>1. Init => Found
  BY DEF Init
<1>2. Inv /\ Found /\ [Next]_vars => Found'
  <2> SUFFICES ASSUME Inv, Found, [Next]_vars, phase' = "station" PROVE Closed'
    OBVIOUS
  <2>1. CASE phase = "station"
    <3>1. httpd = "off" /\ hpc = "idle" /\ \A t \in Task : tpc[t] = "none"
      BY <2>1 DEF Inv, BootInv
    <3>2. UNCHANGED ssid
      BY <3>1
         DEF Next, BootStation, BootPortal, Submit, HandlerStep, SaveSsid,
             SavePassword, SaveFails, Reply, ReplyOnly, HttpdEnds, TaskStep,
             SeeServer, StopServer, FreeServer, ClearServer, SeeDns, StopDns,
             ClearDns, WifiOff, Load, LoadFails, Restart, Panic, PowerCut, At,
             vars, flash
    <3> QED
      BY <2>1, <3>2 DEF Closed
  <2>2. CASE phase # "station"
    <3>1. BootStation
      BY <2>2
         DEF Next, BootPortal, Submit, HandlerStep, SaveSsid, SavePassword,
             SaveFails, Reply, ReplyOnly, HttpdEnds, TaskStep, SeeServer,
             StopServer, FreeServer, ClearServer, SeeDns, StopDns, ClearDns,
             WifiOff, Load, LoadFails, Restart, Panic, PowerCut, Volatile,
             vars, portal
    <3> QED
      BY <3>1 DEF BootStation, Closed, flash
  <2> QED
    BY <2>1, <2>2
<1> QED
  BY <1>1, <1>2, Invariance, PTL DEF Spec

(***************************************************************************)
(* NoWayBack: once a boot has found an SSID the portal does not open again *)
(* (app_main.cpp:208), whatever restarts the device, as long as NVS        *)
(* refuses nothing.                                                        *)
(***************************************************************************)
THEOREM PortalStaysClosed == Spec => NoWayBack
<1>1. Inv /\ Closed /\ [Next]_vars /\ ~ refused' => Closed'
  BY StaysClosed
<1>2. Closed => phase # "portal"
  BY DEF Closed
<1> QED
  BY <1>1, <1>2, Invariance, StationClosed, PTL DEF Spec, NoWayBack
=============================================================================
