-------------------------- MODULE LifecycleProofs ---------------------------
(***************************************************************************)
(* Proofs about the choice of the mode, over any sequence of boots: typing,*)
(* and that a saved choice is the one that is booted.                      *)
(***************************************************************************)
EXTENDS Lifecycle, TLAPS

\* The globals of a boot against the branch it took: apart from the time
\* between the flip and the restart, saved_mode names the stack.
RunInv ==
  /\ pc \in Looping \cup {"start"} /\ ~ unsaved => stack = Named(saved_mode)
  /\ pc \in {"save", "restart"} /\ ~ unsaved => stack = Named(~ saved_mode)
  /\ pc = "restart" => flash = Named(saved_mode)

\* A choice that is being booted: flash holds the other stack until it is up.
ChoiceInv ==
  before # "none" =>
    /\ pc = "boot" => flash \in Stacks \ {before}
    /\ pc = "start" => stack # before

Inv == TypeOK /\ RunInv /\ ChoiceInv

-----------------------------------------------------------------------------

\* The two values of the key select different stacks (nvs_manager.c:78).
LEMMA NamedFacts ==
  /\ \A m \in BOOLEAN : Named(m) \in Stacks /\ Named(m) # Named(~ m)
  /\ Named(TRUE) = "mqtt" /\ Named(FALSE) = "matter"
  BY DEF Named, Stacks

LEMMA InitInv == Init => Inv
  BY DEF Init, Inv, TypeOK, RunInv, ChoiceInv, Looping, Stacks

\* Every step keeps the variables in their types.
LEMMA NextTyping == TypeOK /\ [Next]_vars => TypeOK'
<1> SUFFICES ASSUME TypeOK, [Next]_vars PROVE TypeOK'
  OBVIOUS
<1> USE DEF TypeOK, Stacks, task
<1>1. CASE LoadMode \/ DefaultMode
  BY <1>1, NamedFacts DEF LoadMode, DefaultMode
<1>2. CASE StartTask
  BY <1>2 DEF StartTask
<1>3. CASE Sample \/ NoChange \/ Change \/ NotRising
  BY <1>3 DEF Sample, NoChange, Change, NotRising
<1>4. CASE Flip
  BY <1>4 DEF Flip
<1>5. CASE SaveOK
  BY <1>5, NamedFacts DEF SaveOK
<1>6. CASE SaveFails
  BY <1>6, NamedFacts, ZenonT(30) DEF SaveFails
<1>7. CASE Restart
  BY <1>7 DEF Restart, Reset
<1>8. CASE MovePin
  BY <1>8 DEF MovePin
<1>9. CASE PowerCut \/ Abort
  BY <1>9 DEF PowerCut, Abort, Reset
<1>10. CASE UNCHANGED vars
  BY <1>10 DEF vars
<1> QED
  BY <1>1, <1>2, <1>3, <1>4, <1>5, <1>6, <1>7, <1>8, <1>9, <1>10
     DEF Next, TaskStep

\* Every step keeps the invariant.
LEMMA NextInv == Inv /\ [Next]_vars => Inv'
<1> SUFFICES ASSUME Inv, [Next]_vars PROVE RunInv' /\ ChoiceInv'
  BY NextTyping DEF Inv
<1> USE DEF Inv, TypeOK, RunInv, ChoiceInv, Looping, task
<1>1. CASE LoadMode
  BY <1>1, NamedFacts DEF LoadMode, Stacks
<1>2. CASE DefaultMode
  BY <1>2, NamedFacts DEF DefaultMode
<1>3. CASE StartTask
  BY <1>3 DEF StartTask
<1>4. CASE Sample \/ NoChange \/ Change \/ NotRising
  BY <1>4 DEF Sample, NoChange, Change, NotRising
<1>5. CASE Flip
  BY <1>5, NamedFacts DEF Flip
<1>6. CASE SaveOK
  BY <1>6 DEF SaveOK
<1>7. CASE SaveFails
  BY <1>7 DEF SaveFails
<1>8. CASE Restart
  BY <1>8, NamedFacts DEF Restart, Reset
<1>9. CASE MovePin
  BY <1>9 DEF MovePin
<1>10. CASE PowerCut \/ Abort
  BY <1>10, NamedFacts DEF PowerCut, Abort, Reset
<1>11. CASE UNCHANGED vars
  BY <1>11 DEF vars
<1> QED
  BY <1>1, <1>2, <1>3, <1>4, <1>5, <1>6, <1>7, <1>8, <1>9, <1>10, <1>11
     DEF Next, TaskStep

LEMMA Invariance == Spec => []Inv
  BY InitInv, NextInv, PTL DEF Spec

(***************************************************************************)
(* Every reachable state is well typed: in particular the key "mode" only  *)
(* ever holds one of its two values.                                       *)
(***************************************************************************)
THEOREM Typing == Spec => []TypeOK
<1>1. Inv => TypeOK
  BY DEF Inv
<1> QED
  BY <1>1, Invariance, PTL

(***************************************************************************)
(* A restart by the mode button brings up the other stack, whatever cuts   *)
(* the power between the save and the end of the boot.                     *)
(***************************************************************************)
THEOREM ButtonSwitches == Spec => []ButtonSwitchesStack
<1>1. Inv => ButtonSwitchesStack
  BY DEF Inv, ChoiceInv, ButtonSwitchesStack
<1> QED
  BY <1>1, Invariance, PTL
=============================================================================
