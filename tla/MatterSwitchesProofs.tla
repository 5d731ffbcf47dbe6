------------------------ MODULE MatterSwitchesProofs ------------------------
(***************************************************************************)
(* Proofs about MatterSwitches, for every number of switches.              *)
(***************************************************************************)
EXTENDS MatterSwitches, TLAPS

\* The next write of switch_states[] for s is that of a blocked press.
Held(s) == s = Button /\ bpc = "blocked"

(***************************************************************************)
(* What holds of a switch that is not stale: app_main applies its defaults *)
(* with no command for it under way and the attribute it read unchanged; a *)
(* command leaves behind what it has already written; otherwise all three  *)
(* copies agree, but for the early toggle of a blocked press and for the   *)
(* attribute after presses that left it alone.                             *)
(***************************************************************************)
FreshInv(s) ==
  ~ stale[s] =>
    /\ DefaultsUnderWay(s) => /\ ~ CommandOn(s)
                              /\ mval = attr[s]
                              /\ mainpc = "store" => led[s] = attr[s]
    /\ CommandOn(s) => ~ Astray(s)
    /\ CommandOn(s) /\ cpc \in {"state", "attr"} => led[s] = cval
    /\ CommandOn(s) /\ cpc = "attr" => state[s] = cval \/ Held(s)
    /\ DefaultsDone(s) /\ ~ CommandOn(s) => /\ led[s] = attr[s] <=> ~ Astray(s)
                                            /\ state[s] = led[s] \/ Held(s)

\* gpio_control_task is started last.
StartInv == mainpc # "done" => bpc = "absent" /\ ~ strayed

\* From attribute::update() to the second driver update of a press no other
\* task runs: what the press wrote is still there.
AgainInv ==
  bpc = "again" => /\ cpc = "idle" /\ ~ strayed
                   /\ attr[Button] = bval
                   /\ led[Button] = bval /\ state[Button] = bval

SettledInv == StartInv /\ AgainInv /\ \A s \in Switch : FreshInv(s)

LEMMA ButtonIsSwitch == Button \in Switch
  BY MaxSwitchAssumption DEF Button, Switch

\* The four calls of app_driver_light_set_defaults() stay within the array.
LEMMA NextSwitch == \A s \in Switch : s # MAX_SWITCH - 1 => s + 1 \in Switch
  BY MaxSwitchAssumption DEF Switch

LEMMA MswType == TypeOK /\ DefaultStore => msw' \in Switch
  BY NextSwitch DEF TypeOK, DefaultStore

-----------------------------------------------------------------------------

\* Every variable keeps its type, for every number of switches.
THEOREM Typing == Spec => []TypeOK
  <1>1. Init => TypeOK
    BY ButtonIsSwitch DEF Init, TypeOK, Button
  <1>2. TypeOK /\ [Next]_vars => TypeOK'
    <2>. SUFFICES ASSUME TypeOK, [Next]_vars PROVE TypeOK'
      OBVIOUS
    <2>. USE DEF TypeOK, lamp, chip, main, button, hist
    <2>1. ASSUME NEW s \in Switch, Command(s) PROVE TypeOK'
      BY <2>1 DEF Command, DefaultsUnderWay
    <2>2. CASE CommandLight
      BY <2>2 DEF CommandLight
    <2>3. CASE CommandState
      BY <2>3 DEF CommandState
    <2>4. CASE CommandAttr
      BY <2>4, ButtonIsSwitch, ZenonT(40) DEF CommandAttr, Button
    <2>5. CASE DefaultRead
      BY <2>5 DEF DefaultRead, CommandOn
    <2>6. CASE DefaultLight
      BY <2>6 DEF DefaultLight
    <2>7. CASE DefaultStore
      <3>1. msw' \in Switch
        BY <2>7, MswType
      <3>2. mainpc' \in {"read", "done"}
        BY <2>7 DEF DefaultStore
      <3>3. /\ state' = [state EXCEPT ![msw] = mval] /\ mval' = FALSE
            /\ UNCHANGED <<attr, led, chip, button, pin, saved_mode, hist>>
        BY <2>7, Zenon DEF DefaultStore
      <3>. QED BY <3>1, <3>2, <3>3, ZenonT(40)
    <2>8. CASE StartButtonTask
      BY <2>8 DEF StartButtonTask
    <2>9. CASE Sample
      BY <2>9 DEF Sample
    <2>10. CASE Bounce
      BY <2>10 DEF Bounce
    <2>11. CASE PressAlone
      BY <2>11, ButtonIsSwitch, ZenonT(40) DEF PressAlone, Update, DriverUpdate
    <2>12. CASE PressContended
      BY <2>12, ButtonIsSwitch DEF PressContended
    <2>13. CASE LatePress
      BY <2>13, ButtonIsSwitch, ZenonT(40) DEF LatePress, Update, DriverUpdate
    <2>14. CASE PressAgain
      BY <2>14, ButtonIsSwitch DEF PressAgain, DriverUpdate
    <2>15. CASE StrayPress
      BY <2>15, ButtonIsSwitch DEF StrayPress, DriverUpdate, CommandOn
    <2>16. CASE ModeSaveFails
      BY <2>16 DEF ModeSaveFails
    <2>17. CASE ChipLock
      BY <2>17 DEF ChipLock
    <2>18. CASE ChipUnlock
      BY <2>18 DEF ChipUnlock
    <2>19. CASE MovePin
      BY <2>19 DEF MovePin
    <2>20. CASE Reboot
      BY <2>20, ButtonIsSwitch DEF Reboot, Button
    <2>21. CASE UNCHANGED vars
      BY <2>21 DEF vars
    <2>. QED
      BY <2>1, <2>2, <2>3, <2>4, <2>5, <2>6, <2>7, <2>8, <2>9, <2>10, <2>11,
         <2>12, <2>13, <2>14, <2>15, <2>16, <2>17, <2>18, <2>19, <2>20, <2>21
         DEF Next, ChipStep, MainStep, ButtonStep
  <1>. QED BY <1>1, <1>2, PTL DEF Spec

-----------------------------------------------------------------------------

\* At power-on no defaults have been applied, and nothing is under way.
LEMMA NoneDone == \A s \in Switch : ~ (0 > s)
  BY MaxSwitchAssumption DEF Switch

LEMMA SettledInit == Init => SettledInv
  BY NoneDone
     DEF Init, SettledInv, StartInv, AgainInv, FreshInv, DefaultsUnderWay,
         DefaultsDone, CommandOn

\* A driver update writes lamp and state of the button's switch only.
LEMMA DriverUpdateEffect ==
  ASSUME TypeOK, NEW b \in BOOLEAN, DriverUpdate(b)
  PROVE  /\ led'[Button] = b /\ state'[Button] = b
         /\ \A s \in Switch : s # Button => /\ led'[s] = led[s]
                                            /\ state'[s] = state[s]
  BY ButtonIsSwitch DEF TypeOK, DriverUpdate

\* attribute::update() writes all three copies, with nobody in between.
LEMMA UpdateEffect ==
  ASSUME TypeOK, NEW b \in BOOLEAN, Update(b)
  PROVE  /\ led'[Button] = b /\ state'[Button] = b /\ attr'[Button] = b
         /\ \A s \in Switch : s # Button => /\ led'[s] = led[s]
                                            /\ state'[s] = state[s]
                                            /\ attr'[s] = attr[s]
                                            /\ stale'[s] = stale[s]
         /\ ~ strayed'
  BY ButtonIsSwitch, DriverUpdateEffect DEF TypeOK, Update

\* SettledInv is inductive, given the types.
LEMMA SettledNext == TypeOK /\ SettledInv /\ [Next]_vars => SettledInv'
  <1>. SUFFICES ASSUME TypeOK, SettledInv, [Next]_vars
                PROVE  SettledInv'
    OBVIOUS
  <1>. USE DEF SettledInv, StartInv, FreshInv, CommandOn, Held,
               DefaultsUnderWay, DefaultsDone, lamp, chip, main, button,
               hist, AgainInv, Astray
  <1>1. ASSUME NEW s \in Switch, Command(s) PROVE SettledInv'
    <2>1. \A r \in Switch : stale'[r] = IF r = s THEN DefaultsUnderWay(s) ELSE stale[r]
      BY <1>1 DEF Command, TypeOK
    <2>. QED BY <1>1, <2>1 DEF Command
  <1>2. CASE CommandLight
    <2>1. \A r \in Switch : led'[r] = IF r = csw THEN cval ELSE led[r]
      BY <1>2 DEF CommandLight, TypeOK
    <2>. QED BY <1>2, <2>1 DEF CommandLight
  <1>3. CASE CommandState
    <2>1. \A r \in Switch : state'[r] = IF r = csw THEN cval ELSE state[r]
      BY <1>3 DEF CommandState, TypeOK
    <2>. QED BY <1>3, <2>1 DEF CommandState
  <1>4. CASE CommandAttr
    <2>1. \A r \in Switch : attr'[r] = IF r = csw THEN cval ELSE attr[r]
      BY <1>4 DEF CommandAttr, TypeOK
    <2>. QED BY <1>4, <2>1 DEF CommandAttr
  <1>5. CASE DefaultRead
    <2>1. \A r \in Switch :
            stale'[r] = IF r = msw THEN stale[r] \/ CommandOn(r) ELSE stale[r]
      BY <1>5 DEF DefaultRead, TypeOK
    <2>. QED BY <1>5, <2>1 DEF DefaultRead, TypeOK
  <1>6. CASE DefaultLight
    <2>1. \A r \in Switch : led'[r] = IF r = msw THEN mval ELSE led[r]
      BY <1>6 DEF DefaultLight, TypeOK
    <2>. QED BY <1>6, <2>1 DEF DefaultLight
  <1>7. CASE DefaultStore
    <2>1. \A r \in Switch : state'[r] = IF r = msw THEN mval ELSE state[r]
      BY <1>7 DEF DefaultStore, TypeOK
    <2>2. \A r \in Switch : DefaultsDone(r)' => r = msw \/ DefaultsDone(r)
      BY <1>7, MaxSwitchAssumption DEF DefaultStore, Switch, TypeOK
    <2>3. ~ \E r \in Switch : DefaultsUnderWay(r)'
      BY <1>7 DEF DefaultStore
    <2>4. bpc = "absent"
      BY <1>7 DEF DefaultStore
    <2>5. ASSUME NEW r \in Switch PROVE FreshInv(r)'
      BY <1>7, <2>1, <2>2, <2>3, <2>4 DEF DefaultStore, TypeOK
    <2>. QED BY <1>7, <2>4, <2>5 DEF DefaultStore
  <1>8. CASE StartButtonTask
    BY <1>8 DEF StartButtonTask
  <1>9. CASE Sample
    BY <1>9 DEF Sample
  <1>10. CASE Bounce
    BY <1>10 DEF Bounce
  <1>11. CASE PressAlone
    <2>1. Update(~ state[Button]) /\ (~ state[Button]) \in BOOLEAN
      BY <1>11 DEF PressAlone
    <2>. QED BY <1>11, <2>1, UpdateEffect DEF PressAlone, LockFree
  <1>12. CASE PressContended
    <2>1. \A r \in Switch : r # Button => state'[r] = state[r]
      BY <1>12 DEF PressContended, TypeOK
    <2>. QED BY <1>12, <2>1 DEF PressContended
  <1>13. CASE LatePress
    <2>1. Update(bval) /\ bval \in BOOLEAN
      BY <1>13 DEF LatePress, TypeOK
    <2>. QED BY <1>13, <2>1, UpdateEffect DEF LatePress, LockFree
  <1>14. CASE PressAgain
    <2>1. DriverUpdate(bval) /\ bval \in BOOLEAN
      BY <1>14 DEF PressAgain, TypeOK
    <2>. QED BY <1>14, <2>1, DriverUpdateEffect, ButtonIsSwitch DEF PressAgain
  <1>15. CASE StrayPress
    <2>1. DriverUpdate(~ state[Button]) /\ (~ state[Button]) \in BOOLEAN
      BY <1>15 DEF StrayPress
    <2>2. \A r \in Switch : stale'[r] = IF r = Button
                                          THEN stale[r] \/ CommandOn(r)
                                          ELSE stale[r]
      BY <1>15 DEF StrayPress, TypeOK
    <2>3. /\ led[Button] \in BOOLEAN /\ state[Button] \in BOOLEAN
          /\ attr[Button] \in BOOLEAN
      BY ButtonIsSwitch DEF TypeOK
    <2>4. /\ led'[Button] = ~ state[Button] /\ state'[Button] = ~ state[Button]
          /\ \A r \in Switch : r # Button => /\ led'[r] = led[r]
                                             /\ state'[r] = state[r]
      BY <2>1, DriverUpdateEffect
    <2>5. /\ mainpc = "done" /\ bpc = "debounce" /\ bpc' = "sleep"
          /\ UNCHANGED <<attr, cpc, csw, cval, mainpc, msw, mval>>
          /\ strayed' = ~ strayed
      BY <1>15 DEF StrayPress
    <2>6. ASSUME NEW r \in Switch, r # Button PROVE FreshInv(r)'
      BY <2>2, <2>4, <2>5, <2>6
    <2>7. ASSUME NEW r \in Switch, r = Button PROVE FreshInv(r)'
      BY <2>2, <2>3, <2>4, <2>5, <2>7
    <2>. QED BY <2>5, <2>6, <2>7
  <1>16. CASE ModeSaveFails
    BY <1>16 DEF ModeSaveFails
  <1>17. CASE ChipLock
    BY <1>17 DEF ChipLock, LowPriorityRuns
  <1>18. CASE ChipUnlock
    BY <1>18 DEF ChipUnlock, LowPriorityRuns
  <1>19. CASE MovePin
    BY <1>19 DEF MovePin
  <1>20. CASE Reboot
    BY <1>20, NoneDone DEF Reboot
  <1>21. CASE UNCHANGED vars
    BY <1>21 DEF vars
  <1>. QED
    BY <1>1, <1>2, <1>3, <1>4, <1>5, <1>6, <1>7, <1>8, <1>9, <1>10, <1>11,
       <1>12, <1>13, <1>14, <1>15, <1>16, <1>17, <1>18, <1>19, <1>20, <1>21
       DEF Next, ChipStep, MainStep, ButtonStep

LEMMA Invariance == Spec => [](TypeOK /\ SettledInv)
  BY Typing, SettledInit, SettledNext, PTL DEF Spec

(***************************************************************************)
(* Between commands and presses the attribute, switch_states[] and the LED *)
(* of every switch agree, but for a command that overlapped the defaults   *)
(* and for presses after a failed mode save (SettledAgree of               *)
(* MatterSwitches).                                                        *)
(***************************************************************************)
THEOREM Settled == Spec => []SettledAgree
  <1>1. SettledInv => SettledAgree
    BY DEF SettledInv, FreshInv, CommandOn, Held, SettledAgree, AtRest
  <1>. QED BY <1>1, Invariance, PTL

(***************************************************************************)
(* A press that meets no command flips the attribute (PressFlipsAttribute  *)
(* of MatterSwitches): what it toggles is a true copy of it.               *)
(***************************************************************************)
THEOREM PressFlips == Spec => PressFlipsAttribute
  <1>1. TypeOK /\ SettledInv /\ [Next]_vars
        => [~ stale[Button] /\ ~ strayed /\ PressAlone
              => attr'[Button] # attr[Button]]_vars
    <2>. SUFFICES ASSUME TypeOK, SettledInv, ~ stale[Button], ~ strayed,
                         PressAlone
                  PROVE  attr'[Button] # attr[Button]
      OBVIOUS
    <2>1. state[Button] = attr[Button] /\ state[Button] \in BOOLEAN
      BY ButtonIsSwitch
         DEF SettledInv, StartInv, FreshInv, CommandOn, Held, DefaultsDone,
             Astray, PressAlone, LockFree, TypeOK
    <2>2. attr'[Button] = ~ state[Button]
      BY ButtonIsSwitch DEF PressAlone, Update, TypeOK
    <2>. QED BY <2>1, <2>2
  <1>. QED BY <1>1, Invariance, PTL DEF Spec, PressFlipsAttribute
=============================================================================
