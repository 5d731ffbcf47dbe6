------------------------- MODULE MqttSwitchesProofs -------------------------
(***************************************************************************)
(* Proofs about MqttSwitches, for every number of switches.                *)
(***************************************************************************)
EXTENDS MqttSwitches, TLAPS

\* The handler is at one of the given places, for switch s.
HandlerAt(s, places) == mpc \in places /\ sw = s

\* No press has cut into a pass of the client that touched s.
Clean(s) == ~(s = Button /\ raced)

(***************************************************************************)
(* What holds of a clean switch inside the handler: the lamp is behind only*)
(* between the store and the LED write, the state topic only between the   *)
(* store and the publish or after a press that published nothing, and the  *)
(* argument about to be used is the state.                                 *)
(***************************************************************************)
CleanInv(s) ==
  Clean(s) =>
    /\ HandlerAt(s, {"fetch", "light"}) \/ LampAgrees(s)
    /\ \/ HandlerAt(s, {"fetch", "light", "read", "report"})
       \/ s = Button /\ strayed
       \/ FeedAgrees(s)
    /\ HandlerAt(s, {"light", "report"}) => val = state[s]

\* A blocked publish is a race.
BlockedInv == bpc = "blocked" => raced

SettledInv == BlockedInv /\ \A s \in Switch : CleanInv(s)

(***************************************************************************)
(* What holds of the button's switch, raced or not.  While a publish is    *)
(* blocked the lamp or the blocked value is right, and no further press    *)
(* can come; while none is, the value the handler is about to publish is   *)
(* right or the lamp is.                                                   *)
(***************************************************************************)
BlockedBest ==
  bpc = "blocked" =>
    IF HandlerAt(Button, {"light"})
      THEN val = state[Button] \/ bval = state[Button]
      ELSE \/ HandlerAt(Button, {"fetch"})
           \/ LampAgrees(Button)
           \/ bval = state[Button]

FreeBest ==
  bpc # "blocked" =>
    IF HandlerAt(Button, {"report"})
      THEN val = state[Button] \/ LampAgrees(Button)
      ELSE \/ HandlerAt(Button, {"fetch", "light", "read"})
           \/ LampAgrees(Button)
           \/ FeedAgrees(Button)

BestInv == BlockedBest /\ FreeBest

-----------------------------------------------------------------------------

LEMMA ButtonIsSwitch == Button \in Switch
  BY MaxSwitchAssumption DEF Button, Switch

LEMMA MatchTopicType == \A t \in Topic : MatchTopic(t) \in Switch
  BY ButtonIsSwitch DEF MatchTopic, Topic, Button

\* publish_electrode_state() leaves the feed well typed, touches no other
\* switch, and makes the feed of its switch agree with what it was given.
LEMMA PublishEffect ==
  ASSUME TypeOK, NEW s \in Switch, NEW b \in BOOLEAN, Publish(s, b)
  PROVE  /\ reported' \in [Switch -> {"on", "off"}]
         /\ missed' \in [Switch -> BOOLEAN]
         /\ missed'[s] \/ reported'[s] = Word(b)
         /\ \A r \in Switch : r # s => /\ reported'[r] = reported[r]
                                     /\ missed'[r] = missed[r]
  <1>1. CASE /\ reported' = [reported EXCEPT ![s] = Word(b)]
             /\ missed' = [missed EXCEPT ![s] = FALSE]
    BY <1>1 DEF TypeOK, Word
  <1>2. CASE /\ missed' = [missed EXCEPT ![s] = TRUE]
             /\ UNCHANGED reported
    BY <1>2 DEF TypeOK
  <1>. QED BY <1>1, <1>2 DEF Publish

\* Every variable keeps its type, for every number of switches.
THEOREM Typing == Spec => []TypeOK
  <1>1. Init => TypeOK
    BY ButtonIsSwitch DEF Init, TypeOK, Payload, OnWords, OffWords, Button
  <1>2. TypeOK /\ [Next]_vars => TypeOK'
    <2>. SUFFICES ASSUME TypeOK, [Next]_vars PROVE TypeOK'
      OBVIOUS
    <2>. USE DEF TypeOK, device, feed, client, net, button, hist
    <2>1. CASE ClientLock
      BY <2>1 DEF ClientLock
    <2>2. CASE ClientUnlock
      BY <2>2 DEF ClientUnlock
    <2>3. CASE Connected
      BY <2>3 DEF Connected
    <2>4. CASE Disconnected
      BY <2>4 DEF Disconnected
    <2>5. ASSUME NEW t \in Topic, NEW w \in Payload, Data(t, w) PROVE TypeOK'
      BY <2>5, MatchTopicType DEF Data
    <2>6. CASE Store
      BY <2>6 DEF Store, Payload
    <2>7. CASE StoreNothing
      BY <2>7 DEF StoreNothing
    <2>8. CASE Fetch
      BY <2>8 DEF Fetch
    <2>9. CASE Light
      BY <2>9 DEF Light
    <2>10. CASE ReadState
      BY <2>10 DEF ReadState
    <2>11. CASE Report
      <3>1. Publish(sw, val) /\ sw \in Switch /\ val \in BOOLEAN
        BY <2>11 DEF Report
      <3>2. /\ reported' \in [Switch -> {"on", "off"}]
            /\ missed' \in [Switch -> BOOLEAN]
        BY <3>1, PublishEffect
      <3>. QED BY <2>11, <3>2, ButtonIsSwitch DEF Report, Button
    <2>12. CASE StartButtonTask
      BY <2>12 DEF StartButtonTask
    <2>13. CASE Sample
      BY <2>13 DEF Sample
    <2>14. CASE Bounce
      BY <2>14 DEF Bounce
    <2>15. CASE PressAlone
      <3>1. Publish(Button, ~ state[Button]) /\ (~ state[Button]) \in BOOLEAN
        BY <2>15, ButtonIsSwitch DEF PressAlone
      <3>2. /\ reported' \in [Switch -> {"on", "off"}]
            /\ missed' \in [Switch -> BOOLEAN]
        BY <3>1, PublishEffect, ButtonIsSwitch
      <3>. QED BY <2>15, <3>2, ButtonIsSwitch DEF PressAlone, Toggle
    <2>16. CASE PressContended
      BY <2>16, ButtonIsSwitch DEF PressContended, Toggle
    <2>17. CASE LatePublish
      <3>1. Publish(Button, bval) /\ bval \in BOOLEAN
        BY <2>17 DEF LatePublish
      <3>2. /\ reported' \in [Switch -> {"on", "off"}]
            /\ missed' \in [Switch -> BOOLEAN]
        BY <3>1, PublishEffect, ButtonIsSwitch
      <3>. QED BY <2>17, <3>2 DEF LatePublish
    <2>18. CASE MovePin
      BY <2>18 DEF MovePin
    <2>19. CASE Reboot
      BY <2>19, ButtonIsSwitch DEF Reboot, Payload, OnWords, OffWords, Button
    <2>20. CASE UNCHANGED vars
      BY <2>20 DEF vars
    <2>21. CASE StrayPress
      BY <2>21, ButtonIsSwitch DEF StrayPress, Toggle, LockFree
    <2>22. CASE ModeSaveFails
      BY <2>22 DEF ModeSaveFails
    <2>. QED
      BY <2>1, <2>2, <2>3, <2>4, <2>5, <2>6, <2>7, <2>8, <2>9, <2>10, <2>11,
         <2>12, <2>13, <2>14, <2>15, <2>16, <2>17, <2>18, <2>19, <2>20, <2>21,
         <2>22
         DEF Next, HandlerStep, ButtonStep
  <1>. QED BY <1>1, <1>2, PTL DEF Spec

-----------------------------------------------------------------------------

LEMMA SettledInit == Init => SettledInv
  BY ButtonIsSwitch
     DEF Init, SettledInv, BlockedInv, CleanInv, HandlerAt, LampAgrees, FeedAgrees

\* SettledInv is inductive, given the types.
LEMMA SettledNext == TypeOK /\ SettledInv /\ [Next]_vars => SettledInv'
  <1>. SUFFICES ASSUME TypeOK, SettledInv, [Next]_vars
                PROVE  SettledInv'
    OBVIOUS
  <1>. USE DEF SettledInv, BlockedInv, CleanInv, Clean, HandlerAt, LampAgrees,
               FeedAgrees, device, feed, client, net, button, hist
  <1>1. CASE ClientLock
    BY <1>1 DEF ClientLock
  <1>2. CASE ClientUnlock
    BY <1>2 DEF ClientUnlock
  <1>3. CASE Connected
    BY <1>3 DEF Connected
  <1>4. CASE Disconnected
    BY <1>4 DEF Disconnected
  <1>5. ASSUME NEW t \in Topic, NEW w \in Payload, Data(t, w)
        PROVE  SettledInv'
    BY <1>5 DEF Data
  <1>6. CASE Store
    <2>1. \A s \in Switch : s # sw => state'[s] = state[s]
      BY <1>6 DEF Store, TypeOK
    <2>2. BlockedInv'
      BY <1>6 DEF Store
    <2>3. ASSUME NEW s \in Switch, s # sw PROVE CleanInv(s)'
      BY <1>6, <2>1, <2>3 DEF Store
    <2>4. ASSUME NEW s \in Switch, s = sw PROVE CleanInv(s)'
      BY <1>6, <2>4 DEF Store
    <2>. QED BY <2>2, <2>3, <2>4, <1>6 DEF Store
  <1>7. CASE StoreNothing
    BY <1>7 DEF StoreNothing
  <1>8. CASE Fetch
    BY <1>8 DEF Fetch
  <1>9. CASE Light
    <2>1. led'[sw] = val /\ \A s \in Switch : s # sw => led'[s] = led[s]
      BY <1>9 DEF Light, TypeOK
    <2>. QED BY <1>9, <2>1 DEF Light
  <1>10. CASE ReadState
    BY <1>10 DEF ReadState
  <1>11. CASE Report
    <2>1. Publish(sw, val) /\ sw \in Switch /\ val \in BOOLEAN
      BY <1>11 DEF Report, TypeOK
    <2>2. /\ missed'[sw] \/ reported'[sw] = Word(val)
          /\ \A r \in Switch : r # sw => /\ reported'[r] = reported[r]
                                       /\ missed'[r] = missed[r]
      BY <2>1, PublishEffect
    <2>3. ASSUME NEW s \in Switch, s # sw PROVE CleanInv(s)'
      BY <1>11, <2>2, <2>3 DEF Report
    <2>4. ASSUME NEW s \in Switch, s = sw PROVE CleanInv(s)'
      BY <1>11, <2>1, <2>2, <2>4 DEF Report
    <2>. QED BY <1>11, <2>3, <2>4 DEF Report
  <1>12. CASE StartButtonTask
    BY <1>12 DEF StartButtonTask
  <1>13. CASE Sample
    BY <1>13 DEF Sample
  <1>14. CASE Bounce
    BY <1>14 DEF Bounce
  <1>15. CASE PressAlone
    <2>1. Publish(Button, ~ state[Button]) /\ (~ state[Button]) \in BOOLEAN
      BY <1>15 DEF PressAlone
    <2>2. /\ missed'[Button] \/ reported'[Button] = Word(~ state[Button])
          /\ \A r \in Switch : r # Button => /\ reported'[r] = reported[r]
                                           /\ missed'[r] = missed[r]
      BY <2>1, PublishEffect, ButtonIsSwitch
    <2>3. /\ state'[Button] = ~ state[Button]
          /\ led'[Button] = ~ state[Button]
          /\ \A r \in Switch : r # Button => /\ state'[r] = state[r]
                                           /\ led'[r] = led[r]
      BY <1>15, ButtonIsSwitch DEF PressAlone, Toggle, TypeOK
    <2>. QED BY <1>15, <2>2, <2>3, ButtonIsSwitch DEF PressAlone, LockFree
  <1>16. CASE PressContended
    <2>1. \A r \in Switch : r # Button => /\ state'[r] = state[r]
                                       /\ led'[r] = led[r]
      BY <1>16, ButtonIsSwitch DEF PressContended, Toggle, TypeOK
    <2>. QED BY <1>16, <2>1 DEF PressContended
  <1>17. CASE LatePublish
    <2>1. Publish(Button, bval) /\ bval \in BOOLEAN
      BY <1>17 DEF LatePublish, TypeOK
    <2>2. \A r \in Switch : r # Button => /\ reported'[r] = reported[r]
                                       /\ missed'[r] = missed[r]
      BY <2>1, PublishEffect, ButtonIsSwitch
    <2>. QED BY <1>17, <2>2 DEF LatePublish
  <1>18. CASE MovePin
    BY <1>18 DEF MovePin
  <1>19. CASE Reboot
    BY <1>19 DEF Reboot
  <1>20. CASE UNCHANGED vars
    BY <1>20 DEF vars
  <1>21. CASE StrayPress
    <2>1. state'[Button] = ~ state[Button] /\ led'[Button] = ~ state[Button]
      BY <1>21, ButtonIsSwitch DEF StrayPress, Toggle, TypeOK
    <2>2. \A r \in Switch : r # Button => /\ state'[r] = state[r]
                                       /\ led'[r] = led[r]
      BY <1>21, ButtonIsSwitch DEF StrayPress, Toggle, TypeOK
    <2>. QED BY <1>21, <2>1, <2>2 DEF StrayPress, LockFree
  <1>22. CASE ModeSaveFails
    BY <1>22 DEF ModeSaveFails
  <1>. QED
    BY <1>1, <1>2, <1>3, <1>4, <1>5, <1>6, <1>7, <1>8, <1>9, <1>10, <1>11,
       <1>12, <1>13, <1>14, <1>15, <1>16, <1>17, <1>18, <1>19, <1>20, <1>21,
       <1>22
       DEF Next, HandlerStep, ButtonStep

(***************************************************************************)
(* Between operations lamp, state and state topic agree for every switch,  *)
(* the button's excepted after a race (SettledAgree of MqttSwitches).      *)
(***************************************************************************)
THEOREM Settled == Spec => []SettledAgree
  <1>1. SettledInv => SettledAgree
    BY DEF SettledInv, CleanInv, Clean, HandlerAt, SettledAgree, AtRest
  <1>2. Spec => []SettledInv
    BY Typing, SettledInit, SettledNext, PTL DEF Spec
  <1>. QED BY <1>1, <1>2, PTL

-----------------------------------------------------------------------------

LEMMA BestInit == Init => BestInv
  BY ButtonIsSwitch
     DEF Init, BestInv, BlockedBest, FreeBest, HandlerAt, LampAgrees

\* BestInv is inductive, given the types.
LEMMA BestNext == TypeOK /\ BestInv /\ [Next]_vars => BestInv'
  <1>. SUFFICES ASSUME TypeOK, BestInv, [Next]_vars
                PROVE  BestInv'
    OBVIOUS
  <1>. USE DEF BestInv, BlockedBest, FreeBest, HandlerAt, LampAgrees,
               FeedAgrees, device, feed, client, net, button, hist
  <1>1. CASE ClientLock
    BY <1>1 DEF ClientLock
  <1>2. CASE ClientUnlock
    BY <1>2 DEF ClientUnlock
  <1>3. CASE Connected
    BY <1>3 DEF Connected
  <1>4. CASE Disconnected
    BY <1>4 DEF Disconnected
  <1>5. ASSUME NEW t \in Topic, NEW w \in Payload, Data(t, w)
        PROVE  BestInv'
    BY <1>5 DEF Data
  <1>6. CASE Store
    <2>1. sw # Button => state'[Button] = state[Button]
      BY <1>6, ButtonIsSwitch DEF Store, TypeOK
    <2>. QED BY <1>6, <2>1 DEF Store
  <1>7. CASE StoreNothing
    BY <1>7 DEF StoreNothing
  <1>8. CASE Fetch
    BY <1>8 DEF Fetch
  <1>9. CASE Light
    <2>1. IF sw = Button THEN led'[Button] = val ELSE led'[Button] = led[Button]
      BY <1>9, ButtonIsSwitch DEF Light, TypeOK
    <2>. QED BY <1>9, <2>1 DEF Light
  <1>10. CASE ReadState
    BY <1>10 DEF ReadState
  <1>11. CASE Report
    <2>1. Publish(sw, val) /\ sw \in Switch /\ val \in BOOLEAN
      BY <1>11 DEF Report, TypeOK
    <2>2. /\ missed'[sw] \/ reported'[sw] = Word(val)
          /\ sw # Button => /\ reported'[Button] = reported[Button]
                            /\ missed'[Button] = missed[Button]
      BY <2>1, PublishEffect, ButtonIsSwitch
    <2>. QED BY <1>11, <2>2 DEF Report
  <1>12. CASE StartButtonTask
    BY <1>12 DEF StartButtonTask
  <1>13. CASE Sample
    BY <1>13 DEF Sample
  <1>14. CASE Bounce
    BY <1>14 DEF Bounce
  <1>15. CASE PressAlone
    <2>1. led'[Button] = state'[Button]
      BY <1>15, ButtonIsSwitch DEF PressAlone, Toggle, TypeOK
    <2>. QED BY <1>15, <2>1 DEF PressAlone, LockFree
  <1>16. CASE PressContended
    <2>1. led'[Button] = bval' /\ state'[Button] = bval'
      BY <1>16, ButtonIsSwitch DEF PressContended, Toggle, TypeOK
    <2>. QED BY <1>16, <2>1 DEF PressContended
  <1>17. CASE LatePublish
    <2>1. Publish(Button, bval) /\ bval \in BOOLEAN
      BY <1>17 DEF LatePublish, TypeOK
    <2>2. missed'[Button] \/ reported'[Button] = Word(bval)
      BY <2>1, PublishEffect, ButtonIsSwitch
    <2>. QED BY <1>17, <2>2 DEF LatePublish, LockFree
  <1>18. CASE MovePin
    BY <1>18 DEF MovePin
  <1>19. CASE Reboot
    BY <1>19, ButtonIsSwitch DEF Reboot
  <1>20. CASE UNCHANGED vars
    BY <1>20 DEF vars
  <1>21. CASE StrayPress
    <2>1. state'[Button] = ~ state[Button] /\ led'[Button] = ~ state[Button]
      BY <1>21, ButtonIsSwitch DEF StrayPress, Toggle, TypeOK
    <2>2. \A r \in Switch : r # Button => /\ state'[r] = state[r]
                                       /\ led'[r] = led[r]
      BY <1>21, ButtonIsSwitch DEF StrayPress, Toggle, TypeOK
    <2>. QED BY <1>21, <2>1, <2>2 DEF StrayPress, LockFree
  <1>22. CASE ModeSaveFails
    BY <1>22 DEF ModeSaveFails
  <1>. QED
    BY <1>1, <1>2, <1>3, <1>4, <1>5, <1>6, <1>7, <1>8, <1>9, <1>10, <1>11,
       <1>12, <1>13, <1>14, <1>15, <1>16, <1>17, <1>18, <1>19, <1>20, <1>21,
       <1>22
       DEF Next, HandlerStep, ButtonStep

(***************************************************************************)
(* However presses and commands interleave, at rest the lamp and the state *)
(* topic of the button's switch are never both wrong (NeverBothStale of    *)
(* MqttSwitches).                                                          *)
(***************************************************************************)
THEOREM OneIsRight == Spec => []NeverBothStale
  <1>1. BestInv => NeverBothStale
    BY DEF BestInv, FreeBest, HandlerAt, NeverBothStale, AtRest
  <1>2. Spec => []BestInv
    BY Typing, BestInit, BestNext, PTL DEF Spec
  <1>. QED BY <1>1, <1>2, PTL
=============================================================================
