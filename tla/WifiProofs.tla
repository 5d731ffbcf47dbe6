----------------------------- MODULE WifiProofs -----------------------------
(***************************************************************************)
(* Proofs about Wifi, for every set of networks and every budget of        *)
(* retries.                                                                *)
(***************************************************************************)
EXTENDS Wifi, SequenceTheorems, TLAPS

Connecting == {"config", "start", "mode", "connect", "up"}

(***************************************************************************)
(* Who is there: a scan only in a portal boot, and beside app_main only    *)
(* until the wait for it ends, if it is not late; requests only while the  *)
(* portal serves; nothing before the boot decision.                        *)
(***************************************************************************)
ActorsInv ==
  /\ role = "none" <=> main = "boot"
  /\ role = "station" => main \in Connecting \cup {"init"}
  /\ main \in {"boot", "await"} \/ role = "station" => ~ late
  /\ scan # "done" => role = "portal" /\ (main = "await" \/ late)
  /\ http # "idle" => main \in {"serve", "delay"}
  /\ sending # "NULL" => http = "sent"
  /\ main = "boot" => json_string = "NULL"

\* What app_main and the connect task have made of the driver.
DriverInv ==
  ~ late =>
    /\ main \in {"ap mode", "ap config", "ap start"} => init
    /\ main \in {"ap config", "ap start"} => opmode = "AP"
    /\ main \in {"serve", "delay"} => OnAir
    /\ main \in Connecting => init
    /\ main \in {"mode", "connect", "up"} => on

\* A scan that is not late finds no list to free, and its own is allocated.
ListInv ==
  ~ late =>
    /\ json_string # "NULL" => json_string \in heap
    /\ sending # "NULL" => sending \in heap
    /\ scan # "done" => json_string = "NULL"
    /\ scan \in {"stop", "deinit", "free", "store"} /\ result # "NULL" =>
         result \in heap

(***************************************************************************)
(* The events that are still to be handled tell how the link came to where *)
(* it is; the station is down with none pending only with its retries      *)
(* spent, or because the driver refused to connect it.                     *)
(***************************************************************************)
LinkInv ==
  /\ main # "up" => link = "idle" /\ events = <<>>
  /\ link \in {"connecting", "refused"} => events = <<>>
  /\ link = "up" => events = <<"connected">> \/
                    (events = <<>> /\ is_wifi_connected)
  /\ link = "idle" => events \in {<<>>, <<"disconnected">>,
                                  <<"connected", "disconnected">>}
  /\ role = "station" /\ main = "up" /\ link = "idle" /\ events = <<>> =>
       retry_num = RetryMax

(***************************************************************************)
(* The driver remembers the mode of the portal only while the portal is    *)
(* there, or after one that was cut short; otherwise a station boot finds  *)
(* it ready for the configuration.                                         *)
(***************************************************************************)
ModeInv ==
  /\ opmode = "AP" => cut \/ role = "portal"
  /\ main \in {"connect", "up"} /\ ~ late => opmode = "STA"
  /\ role = "station" /\ main \in {"start", "mode", "connect", "up"} /\ ~ cut
       => stacfg = saved

Inv == TypeOK /\ ActorsInv /\ DriverInv /\ ListInv /\ LinkInv /\ ModeInv

-----------------------------------------------------------------------------

Event == {"connected", "disconnected"}

\* What the operations of the event task and of the driver make of events.
LEMMA Queue ==
  ASSUME NEW a \in Event, NEW b \in Event
  PROVE  /\ Append(<<>>, a) = <<a>> /\ Append(<<a>>, b) = <<a, b>>
         /\ Head(<<a>>) = a /\ Tail(<<a>>) = <<>>
         /\ Head(<<a, b>>) = a /\ Tail(<<a, b>>) = <<b>>
         /\ <<>> # <<a>> /\ <<>> # <<a, b>>
<1>1. <<>> \in Seq(Event) /\ <<a>> \in Seq(Event) /\ <<a, b>> \in Seq(Event)
  OBVIOUS
<1>2. Append(<<>>, a) = <<a>>
  <2>1. /\ Append(<<>>, a) \in Seq(Event) /\ Len(Append(<<>>, a)) = 1
        /\ Append(<<>>, a)[1] = a
    BY <1>1, AppendProperties
  <2> QED
    BY <1>1, <2>1, SeqEqual
<1>3. Append(<<a>>, b) = <<a, b>>
  <2>1. /\ Append(<<a>>, b) \in Seq(Event) /\ Len(Append(<<a>>, b)) = 2
        /\ Append(<<a>>, b)[1] = a /\ Append(<<a>>, b)[2] = b
    BY <1>1, AppendProperties
  <2>2. \A i \in 1 .. 2 : Append(<<a>>, b)[i] = <<a, b>>[i]
    BY <2>1
  <2>3. Len(<<a, b>>) = 2
    OBVIOUS
  <2> QED
    BY <1>1, <2>1, <2>2, <2>3, SeqEqual
<1>4. Head(<<a>>) = a /\ Head(<<a, b>>) = a
  OBVIOUS
<1>5. Tail(<<a>>) = <<>> /\ Tail(<<a, b>>) = <<b>>
  OBVIOUS
<1> QED
  BY <1>1, <1>2, <1>3, <1>4, <1>5

\* events stays a sequence of events.
LEMMA QueueTyping ==
  /\ <<>> \in Seq(Event)
  /\ \A q \in Seq(Event), e \in Event : Append(q, e) \in Seq(Event)
  /\ \A q \in Seq(Event) : q # <<>> => Tail(q) \in Seq(Event)
<1>1. <<>> \in Seq(Event)
  BY EmptySeq
<1>2. \A q \in Seq(Event), e \in Event : Append(q, e) \in Seq(Event)
  BY AppendProperties
<1>3. \A q \in Seq(Event) : q # <<>> => Tail(q) \in Seq(Event)
  BY HeadTailProperties
<1> QED
  BY <1>1, <1>2, <1>3

\* The part of TypeOK the station has no hand in, and its own part.
OtherTyping ==
  /\ {saved, stacfg} \subseteq Net \cup {None}
  /\ opmode \in {"STA", "AP"}
  /\ {init, on, late, cut} \subseteq BOOLEAN
  /\ role \in {"none", "station", "portal"}
  /\ main \in {"boot", "await", "ap init", "ap mode", "ap config", "ap start",
               "serve", "delay", "ap stop", "ap deinit", "init", "config",
               "start", "mode", "connect", "up"}
  /\ scan \in {"alloc", "init", "mode", "start", "scan", "stop", "deinit",
               "free", "store", "done"}
  /\ {json_string, result, sending} \subseteq {"NULL", "empty", "list"}
  /\ heap \subseteq {"empty", "list"}
  /\ http \in {"idle", "dup", "send", "sent"}

StationTyping ==
  /\ link \in {"idle", "connecting", "up", "refused"}
  /\ events \in Seq(Event)
  /\ retry_num \in 0 .. RetryMax
  /\ is_wifi_connected \in BOOLEAN

LEMMA TypingParts == TypeOK <=> OtherTyping /\ StationTyping
  BY DEF TypeOK, OtherTyping, StationTyping, Event

LEMMA OthersTyped ==
  ASSUME OtherTyping, UNCHANGED byEvents, StationTyping' PROVE TypeOK'
<1>1. UNCHANGED <<saved, opmode, stacfg, init, on, role, main, scan, result,
                  json_string, heap, http, sending, late, cut>>
  BY DEF byEvents, flash, driver, scanner, strings, web, history
<1>2. OtherTyping'
  BY <1>1, ZenonT(40) DEF OtherTyping
<1> QED
  BY <1>2 DEF TypeOK, OtherTyping, StationTyping, Event

LEMMA InitInv == Init => Inv
<1> SUFFICES ASSUME Init PROVE Inv
  OBVIOUS
<1> USE DEF Init
<1>1. TypeOK
  <2>1. events \in Seq(Event) /\ retry_num \in 0 .. RetryMax
    BY QueueTyping, RetryMaxAssumption
  <2> QED
    BY <2>1 DEF TypeOK, Event
<1>2. ActorsInv /\ DriverInv /\ ListInv
  BY DEF ActorsInv, DriverInv, ListInv, Connecting
<1>3. LinkInv /\ ModeInv
  BY DEF LinkInv, ModeInv
<1> QED
  BY <1>1, <1>2, <1>3 DEF Inv

\* A restart establishes the invariant, whatever it interrupts.
LEMMA RestartInv ==
  ASSUME Inv, Restart PROVE Inv'
<1>0. UNCHANGED flash /\ late' = FALSE
  BY DEF Restart
<1>1. TypeOK'
  <2>1. events' \in Seq(Event) /\ retry_num' \in 0 .. RetryMax
    BY QueueTyping, RetryMaxAssumption DEF Restart
  <2> QED
    BY <2>1 DEF Inv, TypeOK, Restart, flash, Event
<1>2. ActorsInv' /\ DriverInv' /\ ListInv' /\ LinkInv'
  BY DEF Restart, ActorsInv, DriverInv, ListInv, LinkInv, Connecting
<1>3. opmode = "AP" => cut'
  BY DEF Inv, ModeInv, Restart
<1>4. ModeInv'
  BY <1>3 DEF Restart, ModeInv, flash
<1> QED
  BY <1>1, <1>2, <1>4 DEF Inv

-----------------------------------------------------------------------------
(* Every step keeps every part of the invariant.                           *)

\* The types; the retries stay within their budget.
LEMMA NextTyping == Inv /\ [Next]_vars => TypeOK'
<1> SUFFICES ASSUME Inv, [Next]_vars PROVE TypeOK'
  OBVIOUS
<1>0. TypeOK
  BY DEF Inv
<1>a. OtherTyping /\ StationTyping
  BY <1>0, TypingParts
<1>31. CASE Associate
  <2>1. StationTyping'
    BY <1>a, <1>31, QueueTyping DEF Associate, StationTyping, Event
  <2> QED
    BY <1>a, <1>31, <2>1, OthersTyped DEF Associate
<1>32. CASE Lose
  <2>1. StationTyping'
    BY <1>a, <1>32, QueueTyping DEF Lose, StationTyping, Event
  <2> QED
    BY <1>a, <1>32, <2>1, OthersTyped DEF Lose
<1>33. CASE StaConnected
  <2>1. StationTyping'
    BY <1>a, <1>33, QueueTyping DEF StaConnected, StationTyping, Event
  <2> QED
    BY <1>a, <1>33, <2>1, OthersTyped DEF StaConnected
<1>34. CASE StaDisconnected
  <2>1. retry_num' \in 0 .. RetryMax
    <3>1. retry_num' = IF retry_num < RetryMax THEN retry_num + 1 ELSE retry_num
      BY <1>34 DEF StaDisconnected
    <3>2. retry_num \in 0 .. RetryMax
      BY <1>a DEF StationTyping
    <3> QED
      BY <3>1, <3>2, RetryMaxAssumption
  <2>2. StationTyping'
    BY <1>a, <1>34, <2>1, QueueTyping DEF StaDisconnected, StationTyping, Event
  <2> QED
    BY <1>a, <1>34, <2>2, OthersTyped DEF StaDisconnected
<1>36. CASE UNCHANGED vars
  <2>1. UNCHANGED byEvents /\ UNCHANGED station
    BY <1>36 DEF vars, byEvents
  <2>2. StationTyping'
    BY <1>a, <2>1 DEF StationTyping, station
  <2> QED
    BY <1>a, <2>1, <2>2, OthersTyped
<1> USE DEF TypeOK,
            NoCall, EspInit, SetMode, Start, Stop, Deinit, At, ScanAt,
            flash, driver, scanner, strings, web, station, history,
            byMain, byScan, byHttp, byEvents
<1>1. CASE BootStation
  BY <1>0, <1>1 DEF BootStation
<1>2. CASE BootPortal
  BY <1>0, <1>2 DEF BootPortal
<1>3. CASE Answered
  BY <1>0, <1>3 DEF Answered
<1>4. CASE GiveUp
  BY <1>0, <1>4 DEF GiveUp
<1>5. CASE ApInit
  BY <1>0, <1>5 DEF ApInit
<1>6. CASE ApMode
  BY <1>0, <1>6 DEF ApMode
<1>7. CASE ApConfig
  BY <1>0, <1>7 DEF ApConfig
<1>8. CASE ApStart
  BY <1>0, <1>8 DEF ApStart
<1>9. CASE StopServers
  BY <1>0, <1>9 DEF StopServers
<1>10. CASE ApStop
  BY <1>0, <1>10 DEF ApStop
<1>11. CASE ApDeinit
  BY <1>0, <1>11 DEF ApDeinit
<1>12. CASE ConnInit
  BY <1>0, <1>12 DEF ConnInit
<1>13. CASE ConnConfig
  BY <1>0, <1>13 DEF ConnConfig
<1>14. CASE ConnStart
  BY <1>0, <1>14, ZenonT(40) DEF ConnStart
<1>15. CASE ConnMode
  BY <1>0, <1>15 DEF ConnMode
<1>16. CASE Connect
  BY <1>0, <1>16 DEF Connect
<1>17. CASE ScanAlloc
  BY <1>0, <1>17, ZenonT(40) DEF ScanAlloc
<1>18. CASE ScanInit
  BY <1>0, <1>18, ZenonT(40) DEF ScanInit
<1>19. CASE ScanMode
  BY <1>0, <1>19 DEF ScanMode
<1>20. CASE ScanStart
  BY <1>0, <1>20, ZenonT(40) DEF ScanStart
<1>21. CASE ScanDone
  BY <1>0, <1>21, ZenonT(40) DEF ScanDone
<1>22. CASE ScanStop
  BY <1>0, <1>22, ZenonT(40) DEF ScanStop
<1>23. CASE ScanDeinit
  BY <1>0, <1>23, ZenonT(40) DEF ScanDeinit
<1>24. CASE ScanFree
  BY <1>0, <1>24, ZenonT(40) DEF ScanFree
<1>25. CASE ScanStore
  BY <1>0, <1>25, ZenonT(40) DEF ScanStore
<1>26. CASE AskList
  BY <1>0, <1>26 DEF AskList, Serving, OnAir
<1>27. CASE DupEmpty
  BY <1>0, <1>27, ZenonT(40) DEF DupEmpty
<1>28. CASE Send
  BY <1>0, <1>28, ZenonT(40) DEF Send
<1>29. CASE Sent
  BY <1>0, <1>29, ZenonT(40) DEF Sent
<1>30. ASSUME NEW n \in Net, Submit(n) PROVE TypeOK'
  BY <1>0, <1>30 DEF Submit, Serving, OnAir
<1>35. CASE Restart
  BY <1>35, RestartInv DEF Inv
<1> QED
  BY <1>1, <1>2, <1>3, <1>4, <1>5, <1>6, <1>7, <1>8, <1>9, <1>10, <1>11, <1>12,
     <1>13, <1>14, <1>15, <1>16, <1>17, <1>18, <1>19, <1>20, <1>21, <1>22,
     <1>23, <1>24, <1>25, <1>26, <1>27, <1>28, <1>29, <1>30, <1>31, <1>32,
     <1>33, <1>34, <1>35, <1>36
     DEF Next, MainStep, ScanStep, Abort, TaskRestarts, PowerCut

\* No task runs, and no request is handled, outside its part of a boot.
LEMMA NextActors == Inv /\ [Next]_vars => ActorsInv'
<1> SUFFICES ASSUME Inv, [Next]_vars PROVE ActorsInv'
  OBVIOUS
<1>0. TypeOK /\ ActorsInv /\ ListInv
  BY DEF Inv
<1> USE DEF ActorsInv, Connecting,
            NoCall, EspInit, SetMode, Start, Stop, Deinit, At, ScanAt,
            flash, driver, scanner, strings, web, station, history,
            byMain, byScan, byHttp, byEvents
<1>1. CASE BootStation
  BY <1>0, <1>1 DEF BootStation
<1>2. CASE BootPortal
  BY <1>0, <1>2 DEF BootPortal
<1>3. CASE Answered
  <2>1. scan = "done"
    BY <1>0, <1>3 DEF Answered, ListInv
  <2> QED
    BY <1>0, <1>3, <2>1 DEF Answered
<1>4. CASE GiveUp
  BY <1>0, <1>4 DEF GiveUp
<1>5. CASE ApInit
  BY <1>0, <1>5 DEF ApInit
<1>6. CASE ApMode
  BY <1>0, <1>6 DEF ApMode
<1>7. CASE ApConfig
  BY <1>0, <1>7 DEF ApConfig
<1>8. CASE ApStart
  BY <1>0, <1>8 DEF ApStart
<1>9. CASE StopServers
  BY <1>0, <1>9 DEF StopServers
<1>10. CASE ApStop
  BY <1>0, <1>10 DEF ApStop
<1>11. CASE ApDeinit
  BY <1>0, <1>11 DEF ApDeinit
<1>12. CASE ConnInit
  BY <1>0, <1>12 DEF ConnInit
<1>13. CASE ConnConfig
  BY <1>0, <1>13 DEF ConnConfig
<1>14. CASE ConnStart
  BY <1>0, <1>14 DEF ConnStart
<1>15. CASE ConnMode
  BY <1>0, <1>15 DEF ConnMode
<1>16. CASE Connect
  BY <1>0, <1>16 DEF Connect
<1>17. CASE ScanAlloc
  BY <1>0, <1>17 DEF ScanAlloc
<1>18. CASE ScanInit
  BY <1>0, <1>18 DEF ScanInit
<1>19. CASE ScanMode
  BY <1>0, <1>19 DEF ScanMode
<1>20. CASE ScanStart
  BY <1>0, <1>20 DEF ScanStart
<1>21. CASE ScanDone
  BY <1>0, <1>21 DEF ScanDone
<1>22. CASE ScanStop
  BY <1>0, <1>22 DEF ScanStop
<1>23. CASE ScanDeinit
  BY <1>0, <1>23 DEF ScanDeinit
<1>24. CASE ScanFree
  BY <1>0, <1>24 DEF ScanFree
<1>25. CASE ScanStore
  BY <1>0, <1>25 DEF ScanStore
<1>26. CASE AskList
  BY <1>0, <1>26 DEF AskList, Serving, OnAir
<1>27. CASE DupEmpty
  BY <1>0, <1>27 DEF DupEmpty
<1>28. CASE Send
  BY <1>0, <1>28 DEF Send
<1>29. CASE Sent
  BY <1>0, <1>29 DEF Sent
<1>30. ASSUME NEW n \in Net, Submit(n) PROVE ActorsInv'
  BY <1>0, <1>30 DEF Submit, Serving, OnAir
<1>31. CASE Associate
  BY <1>0, <1>31 DEF Associate
<1>32. CASE Lose
  BY <1>0, <1>32 DEF Lose
<1>33. CASE StaConnected
  BY <1>0, <1>33 DEF StaConnected
<1>34. CASE StaDisconnected
  BY <1>0, <1>34 DEF StaDisconnected
<1>35. CASE Restart
  BY <1>35, RestartInv DEF Inv
<1>36. CASE UNCHANGED vars
  BY <1>0, <1>36 DEF vars
<1> QED
  BY <1>1, <1>2, <1>3, <1>4, <1>5, <1>6, <1>7, <1>8, <1>9, <1>10, <1>11, <1>12,
     <1>13, <1>14, <1>15, <1>16, <1>17, <1>18, <1>19, <1>20, <1>21, <1>22,
     <1>23, <1>24, <1>25, <1>26, <1>27, <1>28, <1>29, <1>30, <1>31, <1>32,
     <1>33, <1>34, <1>35, <1>36
     DEF Next, MainStep, ScanStep, Abort, TaskRestarts, PowerCut

\* No step of another task undoes what app_main has made of the driver.
LEMMA NextDriver == Inv /\ [Next]_vars => DriverInv'
<1> SUFFICES ASSUME Inv, [Next]_vars PROVE DriverInv'
  OBVIOUS
<1>0. TypeOK /\ ActorsInv /\ DriverInv
  BY DEF Inv
<1> USE DEF DriverInv, Connecting, OnAir,
            NoCall, EspInit, SetMode, Start, Stop, Deinit, At, ScanAt,
            flash, driver, scanner, strings, web, station, history,
            byMain, byScan, byHttp, byEvents
<1>1. CASE BootStation
  BY <1>0, <1>1 DEF BootStation
<1>2. CASE BootPortal
  BY <1>0, <1>2 DEF BootPortal
<1>3. CASE Answered
  BY <1>0, <1>3 DEF Answered
<1>4. CASE GiveUp
  BY <1>0, <1>4 DEF GiveUp
<1>5. CASE ApInit
  BY <1>0, <1>5 DEF ApInit
<1>6. CASE ApMode
  BY <1>0, <1>6 DEF ApMode
<1>7. CASE ApConfig
  BY <1>0, <1>7 DEF ApConfig
<1>8. CASE ApStart
  BY <1>0, <1>8 DEF ApStart
<1>9. CASE StopServers
  BY <1>0, <1>9 DEF StopServers
<1>10. CASE ApStop
  BY <1>0, <1>10 DEF ApStop
<1>11. CASE ApDeinit
  BY <1>0, <1>11 DEF ApDeinit
<1>12. CASE ConnInit
  BY <1>0, <1>12 DEF ConnInit
<1>13. CASE ConnConfig
  BY <1>0, <1>13 DEF ConnConfig
<1>14. CASE ConnStart
  BY <1>0, <1>14 DEF ConnStart
<1>15. CASE ConnMode
  BY <1>0, <1>15 DEF ConnMode
<1>16. CASE Connect
  BY <1>0, <1>16 DEF Connect
<1>17. CASE ScanAlloc
  BY <1>0, <1>17 DEF ScanAlloc
<1>18. CASE ScanInit
  BY <1>0, <1>18 DEF ScanInit
<1>19. CASE ScanMode
  <2>1. late \/ main = "await"
    BY <1>0, <1>19 DEF ScanMode, ActorsInv
  <2> QED
    BY <1>0, <1>19, <2>1 DEF ScanMode
<1>20. CASE ScanStart
  BY <1>0, <1>20 DEF ScanStart
<1>21. CASE ScanDone
  BY <1>0, <1>21 DEF ScanDone
<1>22. CASE ScanStop
  <2>1. late \/ main = "await"
    BY <1>0, <1>22 DEF ScanStop, ActorsInv
  <2> QED
    BY <1>0, <1>22, <2>1 DEF ScanStop
<1>23. CASE ScanDeinit
  <2>1. late \/ main = "await"
    BY <1>0, <1>23 DEF ScanDeinit, ActorsInv
  <2> QED
    BY <1>0, <1>23, <2>1 DEF ScanDeinit
<1>24. CASE ScanFree
  BY <1>0, <1>24 DEF ScanFree
<1>25. CASE ScanStore
  BY <1>0, <1>25 DEF ScanStore
<1>26. CASE AskList
  BY <1>0, <1>26 DEF AskList, Serving, OnAir
<1>27. CASE DupEmpty
  BY <1>0, <1>27 DEF DupEmpty
<1>28. CASE Send
  BY <1>0, <1>28 DEF Send
<1>29. CASE Sent
  BY <1>0, <1>29 DEF Sent
<1>30. ASSUME NEW n \in Net, Submit(n) PROVE DriverInv'
  BY <1>0, <1>30 DEF Submit, Serving, OnAir
<1>31. CASE Associate
  BY <1>0, <1>31 DEF Associate
<1>32. CASE Lose
  BY <1>0, <1>32 DEF Lose
<1>33. CASE StaConnected
  BY <1>0, <1>33 DEF StaConnected
<1>34. CASE StaDisconnected
  BY <1>0, <1>34 DEF StaDisconnected
<1>35. CASE Restart
  BY <1>35, RestartInv DEF Inv
<1>36. CASE UNCHANGED vars
  BY <1>0, <1>36 DEF vars
<1> QED
  BY <1>1, <1>2, <1>3, <1>4, <1>5, <1>6, <1>7, <1>8, <1>9, <1>10, <1>11, <1>12,
     <1>13, <1>14, <1>15, <1>16, <1>17, <1>18, <1>19, <1>20, <1>21, <1>22,
     <1>23, <1>24, <1>25, <1>26, <1>27, <1>28, <1>29, <1>30, <1>31, <1>32,
     <1>33, <1>34, <1>35, <1>36
     DEF Next, MainStep, ScanStep, Abort, TaskRestarts, PowerCut

\* No list is freed while it is published or sent.
LEMMA NextList == Inv /\ [Next]_vars => ListInv'
<1> SUFFICES ASSUME Inv, [Next]_vars PROVE ListInv'
  OBVIOUS
<1>0. TypeOK /\ ActorsInv /\ ListInv
  BY DEF Inv
<1> USE DEF ListInv,
            NoCall, EspInit, SetMode, Start, Stop, Deinit, At, ScanAt,
            flash, driver, scanner, strings, web, station, history,
            byMain, byScan, byHttp, byEvents
<1>1. CASE BootStation
  BY <1>0, <1>1 DEF BootStation
<1>2. CASE BootPortal
  <2>1. json_string = "NULL" /\ sending = "NULL"
    BY <1>0, <1>2 DEF BootPortal, ActorsInv
  <2> QED
    BY <1>0, <1>2, <2>1 DEF BootPortal
<1>3. CASE Answered
  BY <1>0, <1>3 DEF Answered
<1>4. CASE GiveUp
  <2>1. ~ late /\ sending = "NULL"
    BY <1>0, <1>4 DEF GiveUp, ActorsInv
  <2> QED
    BY <1>0, <1>4, <2>1 DEF GiveUp
<1>5. CASE ApInit
  BY <1>0, <1>5 DEF ApInit
<1>6. CASE ApMode
  BY <1>0, <1>6 DEF ApMode
<1>7. CASE ApConfig
  BY <1>0, <1>7 DEF ApConfig
<1>8. CASE ApStart
  BY <1>0, <1>8 DEF ApStart
<1>9. CASE StopServers
  BY <1>0, <1>9 DEF StopServers
<1>10. CASE ApStop
  BY <1>0, <1>10 DEF ApStop
<1>11. CASE ApDeinit
  BY <1>0, <1>11 DEF ApDeinit
<1>12. CASE ConnInit
  BY <1>0, <1>12 DEF ConnInit
<1>13. CASE ConnConfig
  BY <1>0, <1>13 DEF ConnConfig
<1>14. CASE ConnStart
  BY <1>0, <1>14 DEF ConnStart
<1>15. CASE ConnMode
  BY <1>0, <1>15 DEF ConnMode
<1>16. CASE Connect
  BY <1>0, <1>16 DEF Connect
<1>17. CASE ScanAlloc
  BY <1>0, <1>17 DEF ScanAlloc
<1>18. CASE ScanInit
  BY <1>0, <1>18 DEF ScanInit
<1>19. CASE ScanMode
  BY <1>0, <1>19 DEF ScanMode
<1>20. CASE ScanStart
  BY <1>0, <1>20 DEF ScanStart
<1>21. CASE ScanDone
  BY <1>0, <1>21 DEF ScanDone
<1>22. CASE ScanStop
  BY <1>0, <1>22 DEF ScanStop
<1>23. CASE ScanDeinit
  BY <1>0, <1>23 DEF ScanDeinit
<1>24. CASE ScanFree
  BY <1>0, <1>24 DEF ScanFree
<1>25. CASE ScanStore
  BY <1>0, <1>25 DEF ScanStore
<1>26. CASE AskList
  BY <1>0, <1>26 DEF AskList, Serving, OnAir
<1>27. CASE DupEmpty
  <2>1. (scan # "done" => late) /\ sending = "NULL"
    BY <1>0, <1>27 DEF DupEmpty, ActorsInv
  <2> QED
    BY <1>0, <1>27, <2>1 DEF DupEmpty
<1>28. CASE Send
  BY <1>0, <1>28 DEF Send
<1>29. CASE Sent
  BY <1>0, <1>29 DEF Sent
<1>30. ASSUME NEW n \in Net, Submit(n) PROVE ListInv'
  BY <1>0, <1>30 DEF Submit, Serving, OnAir
<1>31. CASE Associate
  BY <1>0, <1>31 DEF Associate
<1>32. CASE Lose
  BY <1>0, <1>32 DEF Lose
<1>33. CASE StaConnected
  BY <1>0, <1>33 DEF StaConnected
<1>34. CASE StaDisconnected
  BY <1>0, <1>34 DEF StaDisconnected
<1>35. CASE Restart
  BY <1>35, RestartInv DEF Inv
<1>36. CASE UNCHANGED vars
  BY <1>0, <1>36 DEF vars
<1> QED
  BY <1>1, <1>2, <1>3, <1>4, <1>5, <1>6, <1>7, <1>8, <1>9, <1>10, <1>11, <1>12,
     <1>13, <1>14, <1>15, <1>16, <1>17, <1>18, <1>19, <1>20, <1>21, <1>22,
     <1>23, <1>24, <1>25, <1>26, <1>27, <1>28, <1>29, <1>30, <1>31, <1>32,
     <1>33, <1>34, <1>35, <1>36
     DEF Next, MainStep, ScanStep, Abort, TaskRestarts, PowerCut

\* The pending events go on telling how the link came to where it is.
LEMMA NextLink == Inv /\ [Next]_vars => LinkInv'
<1> SUFFICES ASSUME Inv, [Next]_vars PROVE LinkInv'
  OBVIOUS
<1>0. TypeOK /\ ActorsInv /\ DriverInv /\ LinkInv
  BY DEF Inv
<1> USE DEF LinkInv,
            NoCall, EspInit, SetMode, Start, Stop, Deinit, At, ScanAt,
            flash, driver, scanner, strings, web, station, history,
            byMain, byScan, byHttp, byEvents
<1>1. CASE BootStation
  BY <1>0, <1>1 DEF BootStation
<1>2. CASE BootPortal
  BY <1>0, <1>2 DEF BootPortal
<1>3. CASE Answered
  BY <1>0, <1>3 DEF Answered
<1>4. CASE GiveUp
  BY <1>0, <1>4 DEF GiveUp
<1>5. CASE ApInit
  BY <1>0, <1>5 DEF ApInit
<1>6. CASE ApMode
  BY <1>0, <1>6 DEF ApMode
<1>7. CASE ApConfig
  BY <1>0, <1>7 DEF ApConfig
<1>8. CASE ApStart
  BY <1>0, <1>8 DEF ApStart
<1>9. CASE StopServers
  BY <1>0, <1>9 DEF StopServers
<1>10. CASE ApStop
  BY <1>0, <1>10 DEF ApStop
<1>11. CASE ApDeinit
  BY <1>0, <1>11 DEF ApDeinit
<1>12. CASE ConnInit
  BY <1>0, <1>12 DEF ConnInit
<1>13. CASE ConnConfig
  BY <1>0, <1>13 DEF ConnConfig
<1>14. CASE ConnStart
  BY <1>0, <1>14 DEF ConnStart
<1>15. CASE ConnMode
  BY <1>0, <1>15 DEF ConnMode
<1>16. CASE Connect
  <2>1. link = "idle" /\ events = <<>>
    BY <1>0, <1>16 DEF Connect
  <2>2. events' = <<>> /\ main' = "up"
    BY <1>16, <2>1 DEF Connect
  <2>3. link' \in {"refused", "connecting"}
    BY <1>16 DEF Connect
  <2> QED
    BY <2>2, <2>3
<1>17. CASE ScanAlloc
  BY <1>0, <1>17 DEF ScanAlloc
<1>18. CASE ScanInit
  BY <1>0, <1>18 DEF ScanInit
<1>19. CASE ScanMode
  BY <1>0, <1>19 DEF ScanMode
<1>20. CASE ScanStart
  BY <1>0, <1>20 DEF ScanStart
<1>21. CASE ScanDone
  BY <1>0, <1>21 DEF ScanDone
<1>22. CASE ScanStop
  BY <1>0, <1>22 DEF ScanStop
<1>23. CASE ScanDeinit
  BY <1>0, <1>23 DEF ScanDeinit
<1>24. CASE ScanFree
  BY <1>0, <1>24 DEF ScanFree
<1>25. CASE ScanStore
  BY <1>0, <1>25 DEF ScanStore
<1>26. CASE AskList
  BY <1>0, <1>26 DEF AskList, Serving, OnAir
<1>27. CASE DupEmpty
  BY <1>0, <1>27 DEF DupEmpty
<1>28. CASE Send
  BY <1>0, <1>28 DEF Send
<1>29. CASE Sent
  BY <1>0, <1>29 DEF Sent
<1>30. ASSUME NEW n \in Net, Submit(n) PROVE LinkInv'
  BY <1>0, <1>30 DEF Submit, Serving, OnAir
<1>31. CASE Associate
  BY <1>0, <1>31 DEF Associate
<1>32. CASE Lose
  <2>1. main = "up" /\ UNCHANGED <<main, role>>
    BY <1>0, <1>32 DEF Lose
  <2>2. events \in {<<>>, <<"connected">>}
    BY <1>0, <1>32 DEF Lose
  <2>3. events' = Append(events, "disconnected") /\ link' = "idle"
    BY <1>32 DEF Lose
  <2>4. events' \in {<<"disconnected">>, <<"connected", "disconnected">>}
    BY <2>2, <2>3, Queue DEF Event
  <2>5. events' # <<>>
    BY <2>4, Queue DEF Event
  <2> QED
    BY <2>1, <2>3, <2>4, <2>5
<1>33. CASE StaConnected
  <2>1. main = "up" /\ UNCHANGED <<main, role, link, retry_num>>
    BY <1>0, <1>33 DEF StaConnected
  <2>2. /\ events # <<>> /\ Head(events) = "connected"
        /\ events' = Tail(events) /\ is_wifi_connected' = TRUE
    BY <1>33 DEF StaConnected
  <2>3. CASE link = "up"
    <3>1. events = <<"connected">>
      BY <1>0, <2>2, <2>3
    <3>2. events' = <<>>
      BY <2>2, <3>1, Queue DEF Event
    <3> QED
      BY <2>1, <2>2, <2>3, <3>2
  <2>4. CASE link = "idle"
    <3>1. events = <<"connected", "disconnected">>
      BY <1>0, <2>2, <2>4, Queue DEF Event
    <3>2. events' = <<"disconnected">> /\ events' # <<>>
      BY <2>2, <3>1, Queue DEF Event
    <3> QED
      BY <2>1, <2>2, <2>4, <3>2
  <2>5. link \notin {"connecting", "refused"}
    BY <1>0, <2>2
  <2> QED
    BY <1>0, <2>3, <2>4, <2>5 DEF TypeOK
<1>34. CASE StaDisconnected
  <2>1. main = "up" /\ UNCHANGED <<main, role>>
    BY <1>0, <1>34 DEF StaDisconnected
  <2>2. /\ events # <<>> /\ Head(events) = "disconnected"
        /\ events' = Tail(events)
    BY <1>34 DEF StaDisconnected
  <2>3. link = "idle" /\ events = <<"disconnected">>
    <3>1. events # <<"connected">> /\ events # <<"connected", "disconnected">>
      BY <2>2, Queue DEF Event
    <3> QED
      BY <1>0, <2>2, <3>1 DEF TypeOK
  <2>4. events' = <<>>
    BY <2>2, <2>3, Queue DEF Event
  <2>5. \/ link' \in {"connecting", "refused"}
        \/ link' = "idle" /\ retry_num' = RetryMax
    <3>1. retry_num \in 0 .. RetryMax
      BY <1>0 DEF TypeOK
    <3>2. CASE retry_num < RetryMax
      BY <1>34, <3>2 DEF StaDisconnected
    <3>3. CASE retry_num = RetryMax
      BY <1>34, <2>3, <3>3, RetryMaxAssumption DEF StaDisconnected
    <3> QED
      BY <3>1, <3>2, <3>3, RetryMaxAssumption
  <2> QED
    BY <2>1, <2>4, <2>5
<1>35. CASE Restart
  BY <1>35, RestartInv DEF Inv
<1>36. CASE UNCHANGED vars
  BY <1>0, <1>36 DEF vars
<1> QED
  BY <1>1, <1>2, <1>3, <1>4, <1>5, <1>6, <1>7, <1>8, <1>9, <1>10, <1>11, <1>12,
     <1>13, <1>14, <1>15, <1>16, <1>17, <1>18, <1>19, <1>20, <1>21, <1>22,
     <1>23, <1>24, <1>25, <1>26, <1>27, <1>28, <1>29, <1>30, <1>31, <1>32,
     <1>33, <1>34, <1>35, <1>36
     DEF Next, MainStep, ScanStep, Abort, TaskRestarts, PowerCut

\* A mode or a configuration of the driver outlives its boot only as said.
LEMMA NextMode == Inv /\ [Next]_vars => ModeInv'
<1> SUFFICES ASSUME Inv, [Next]_vars PROVE ModeInv'
  OBVIOUS
<1>0. TypeOK /\ ActorsInv /\ DriverInv /\ ModeInv
  BY DEF Inv
<1> USE DEF ModeInv,
            NoCall, EspInit, SetMode, Start, Stop, Deinit, At, ScanAt,
            flash, driver, scanner, strings, web, station, history,
            byMain, byScan, byHttp, byEvents
<1>1. CASE BootStation
  <2>1. opmode = "AP" => cut
    <3>1. role = "none"
      BY <1>0, <1>1 DEF BootStation, ActorsInv
    <3> QED
      BY <1>0, <3>1
  <2> QED
    BY <1>0, <1>1, <2>1 DEF BootStation
<1>2. CASE BootPortal
  BY <1>0, <1>2 DEF BootPortal
<1>3. CASE Answered
  BY <1>0, <1>3 DEF Answered
<1>4. CASE GiveUp
  BY <1>0, <1>4 DEF GiveUp
<1>5. CASE ApInit
  BY <1>0, <1>5 DEF ApInit
<1>6. CASE ApMode
  <2>1. role = "portal"
    BY <1>0, <1>6 DEF ApMode, TypeOK, ActorsInv, Connecting
  <2> QED
    BY <1>0, <1>6, <2>1 DEF ApMode
<1>7. CASE ApConfig
  BY <1>0, <1>7 DEF ApConfig
<1>8. CASE ApStart
  BY <1>0, <1>8 DEF ApStart
<1>9. CASE StopServers
  BY <1>0, <1>9 DEF StopServers
<1>10. CASE ApStop
  BY <1>0, <1>10 DEF ApStop
<1>11. CASE ApDeinit
  BY <1>0, <1>11 DEF ApDeinit
<1>12. CASE ConnInit
  BY <1>0, <1>12 DEF ConnInit
<1>13. CASE ConnConfig
  <2>1. ~ late => init
    BY <1>0, <1>13 DEF ConnConfig, DriverInv, Connecting
  <2>2. role = "station" => ~ late
    BY <1>0 DEF ActorsInv
  <2>3. role = "station" /\ ~ cut => opmode = "STA"
    BY <1>0 DEF TypeOK
  <2> QED
    BY <1>0, <1>13, <2>1, <2>2, <2>3 DEF ConnConfig
<1>14. CASE ConnStart
  BY <1>0, <1>14 DEF ConnStart
<1>15. CASE ConnMode
  <2>1. ~ late => init
    BY <1>0, <1>15 DEF ConnMode, DriverInv, Connecting
  <2>2. ~ late => opmode' = "STA"
    BY <1>15, <2>1 DEF ConnMode
  <2> QED
    BY <1>0, <1>15, <2>1, <2>2 DEF ConnMode
<1>16. CASE Connect
  BY <1>0, <1>16 DEF Connect
<1>17. CASE ScanAlloc
  BY <1>0, <1>17 DEF ScanAlloc
<1>18. CASE ScanInit
  BY <1>0, <1>18 DEF ScanInit
<1>19. CASE ScanMode
  BY <1>0, <1>19 DEF ScanMode
<1>20. CASE ScanStart
  BY <1>0, <1>20 DEF ScanStart
<1>21. CASE ScanDone
  BY <1>0, <1>21 DEF ScanDone
<1>22. CASE ScanStop
  BY <1>0, <1>22 DEF ScanStop
<1>23. CASE ScanDeinit
  BY <1>0, <1>23 DEF ScanDeinit
<1>24. CASE ScanFree
  BY <1>0, <1>24 DEF ScanFree
<1>25. CASE ScanStore
  BY <1>0, <1>25 DEF ScanStore
<1>26. CASE AskList
  BY <1>0, <1>26 DEF AskList, Serving, OnAir
<1>27. CASE DupEmpty
  BY <1>0, <1>27 DEF DupEmpty
<1>28. CASE Send
  BY <1>0, <1>28 DEF Send
<1>29. CASE Sent
  BY <1>0, <1>29 DEF Sent
<1>30. ASSUME NEW n \in Net, Submit(n) PROVE ModeInv'
  BY <1>0, <1>30 DEF Submit, Serving, OnAir
<1>31. CASE Associate
  BY <1>0, <1>31 DEF Associate
<1>32. CASE Lose
  BY <1>0, <1>32 DEF Lose
<1>33. CASE StaConnected
  BY <1>0, <1>33 DEF StaConnected
<1>34. CASE StaDisconnected
  BY <1>0, <1>34 DEF StaDisconnected
<1>35. CASE Restart
  BY <1>35, RestartInv DEF Inv
<1>36. CASE UNCHANGED vars
  BY <1>0, <1>36 DEF vars
<1> QED
  BY <1>1, <1>2, <1>3, <1>4, <1>5, <1>6, <1>7, <1>8, <1>9, <1>10, <1>11, <1>12,
     <1>13, <1>14, <1>15, <1>16, <1>17, <1>18, <1>19, <1>20, <1>21, <1>22,
     <1>23, <1>24, <1>25, <1>26, <1>27, <1>28, <1>29, <1>30, <1>31, <1>32,
     <1>33, <1>34, <1>35, <1>36
     DEF Next, MainStep, ScanStep, Abort, TaskRestarts, PowerCut

-----------------------------------------------------------------------------

\* Every reachable state has the invariant.
LEMMA Invariance == Spec => []Inv
<1>1. Inv /\ [Next]_vars => Inv'
  <2> SUFFICES ASSUME Inv, [Next]_vars PROVE Inv'
    OBVIOUS
  <2>1. TypeOK' /\ ActorsInv' /\ DriverInv'
    BY NextTyping, NextActors, NextDriver
  <2>2. ListInv' /\ LinkInv' /\ ModeInv'
    BY NextList, NextLink, NextMode
  <2> QED
    BY <2>1, <2>2 DEF Inv
<1> QED
  BY InitInv, <1>1, PTL DEF Spec

\* The types of wifi_manager.c's state; at most RetryMax reconnections a boot.
THEOREM Typing == Spec => []TypeOK
<1>1. Inv => TypeOK
  BY DEF Inv
<1> QED
  BY Invariance, <1>1, PTL

(***************************************************************************)
(* start_captive_portal() leaves an access point on the air that stays     *)
(* until connect_wifi_task() takes it down: neither the scan task nor a    *)
(* form undoes it, unless perform_wifi_scan() has given up on a scan.      *)
(***************************************************************************)
THEOREM PortalOnAir == Spec => []AccessPointUp
<1>1. Inv => AccessPointUp
  BY DEF Inv, DriverInv, AccessPointUp
<1> QED
  BY Invariance, <1>1, PTL

(***************************************************************************)
(* wifi_scan_get_handler() sends an allocated string: the scan task frees  *)
(* json_string only before there is a portal, unless its scan was left     *)
(* running.                                                                *)
(***************************************************************************)
THEOREM ListSentIsAllocated == Spec => []SentListAllocated
<1>1. Inv => SentListAllocated
  BY DEF Inv, ListInv, SentListAllocated
<1> QED
  BY Invariance, <1>1, PTL

(***************************************************************************)
(* wifi_event_handler() gives up on the network only after RetryMax        *)
(* reconnections, and its flag agrees with the link once the events that   *)
(* were posted have been handled.                                          *)
(***************************************************************************)
THEOREM RetriesSpentOffline == Spec => []OfflineOnlySpent
<1>1. Inv => OfflineOnlySpent
  BY DEF Inv, LinkInv, OfflineOnlySpent
<1> QED
  BY Invariance, <1>1, PTL

(***************************************************************************)
(* wifi_connection() of a station boot sets the saved credentials, except  *)
(* in the first one after a portal boot that did not run it to its end.    *)
(***************************************************************************)
THEOREM StationHasCredentials == Spec => []CredentialsApplied
<1>1. Inv => CredentialsApplied
  BY DEF Inv, ModeInv, CredentialsApplied
<1> QED
  BY Invariance, <1>1, PTL
=============================================================================
