------------------------------ MODULE Lifecycle ------------------------------
(***************************************************************************)
(* How the device chooses its mode: check_mode() and the two branches of   *)
(* app_main() (main/app_main.cpp), the mode half of gpio_control_task()    *)
(* (main/gpio_handle.cpp) and the mode key of main/nvs_manager.c.          *)
(*                                                                         *)
(* A boot reads the mode from flash and starts one stack; the mode button  *)
(* flips the mode in RAM, saves it and restarts.  Flash survives restarts  *)
(* and power cuts, RAM does not, the button is where the user's finger is. *)
(***************************************************************************)

VARIABLES
  flash,      \* the NVS key "mode": "none", "mqtt" or "matter"
  saved_mode, \* the global: TRUE is MQTT
  stack,      \* the stack this boot started
  pc,         \* app_main until it started the task, then gpio_control_task
  pin,        \* level of MODE_CONTROL_GPIO
  current,    \* current_mode_state
  last,       \* last_mode_state
  pressed,    \* history: the pin rose, and no flip has answered it yet
  unsaved,    \* history: a save failed since boot
  before      \* history: the stack in use when the button had its choice
              \* saved for this boot; "none" when there was no such choice

task == <<current, last>>
vars == <<flash, saved_mode, stack, pc, pin, task, pressed, unsaved, before>>

Stacks == {"mqtt", "matter"}

\* gpio_control_task is in its loop, with no save or restart under way.
Looping == {"sample", "lamp", "debounce"}

\* Mutant: the byte is stored without being converted.
NamedRaw(mode) == IF mode THEN "1" ELSE "0"

\* The two values of the key "mode", 1 and 0, by the stack they select.
Named(mode) == IF mode THEN "mqtt" ELSE "matter"

Init ==
  /\ flash \in Stacks \cup {"none"}
  /\ saved_mode = TRUE
  /\ stack = "none"
  /\ pc = "boot"
  /\ pin \in BOOLEAN
  /\ current = FALSE /\ last = FALSE
  /\ pressed = pin
  /\ unsaved = FALSE
  /\ before = "none"

-----------------------------------------------------------------------------
(* Boot.                                                                   *)

\* RAM after a reset.
Reset(cause) ==
  /\ saved_mode' = TRUE
  /\ stack' = "none"
  /\ pc' = "boot"
  /\ current' = FALSE /\ last' = FALSE
  /\ unsaved' = FALSE
  /\ before' = cause

\* check_mode() found the key; app_main takes the branch of what it returns,
\* which is saved_mode.
LoadMode ==
  /\ pc = "boot" /\ flash # "none"
  /\ saved_mode' = (flash = "mqtt")
  /\ stack' = Named(saved_mode')
  /\ pc' = "start"
  /\ UNCHANGED <<flash, pin, task, pressed, unsaved, before>>

\* The key is missing, or NVS cannot be read (the result of
\* nvs_flash_init() is not looked at): MQTT is the default.
DefaultMode ==
  /\ pc = "boot"
  /\ saved_mode' = TRUE
  /\ stack' = Named(saved_mode')
  /\ pc' = "start"
  /\ before' = "none"
  /\ UNCHANGED <<flash, pin, task, pressed, unsaved>>

\* The stack is up; start_gpio_control_task() with both last states false.
StartTask ==
  /\ pc = "start"
  /\ pc' = "sample"
  /\ UNCHANGED <<flash, saved_mode, stack, pin, task, pressed, unsaved, before>>

-----------------------------------------------------------------------------
(* gpio_control_task.                                                      *)

\* Both pins are sampled; the lamp button may then hold the task up, in its
\* debounce delay or in a publish.
Sample ==
  /\ pc = "sample"
  /\ current' = pin
  /\ pc' = "lamp"
  /\ UNCHANGED <<flash, saved_mode, stack, pin, last, pressed, unsaved, before>>

\* The mode sample taken before that is compared; nothing changed.
NoChange ==
  /\ pc = "lamp" /\ current = last
  /\ pc' = "sample"
  /\ UNCHANGED <<flash, saved_mode, stack, pin, task, pressed, unsaved, before>>

Change ==
  /\ pc = "lamp" /\ current # last
  /\ pc' = "debounce"
  /\ UNCHANGED <<flash, saved_mode, stack, pin, task, pressed, unsaved, before>>

\* Mutant: the level is recorded before it is tested for an edge.
NotRisingAny ==
  /\ pc = "debounce"
  /\ current' = pin /\ last' = pin
  /\ pc' = "sample"
  /\ UNCHANGED <<flash, saved_mode, stack, pin, pressed, unsaved, before>>

\* Sampled again after the bounce: not a rising edge.
NotRising ==
  /\ pc = "debounce" /\ ~ (pin /\ ~ last)
  /\ current' = pin /\ last' = pin
  /\ pc' = "sample"
  /\ UNCHANGED <<flash, saved_mode, stack, pin, pressed, unsaved, before>>

\* A rising edge: the mode is flipped in RAM ...
Flip ==
  /\ pc = "debounce" /\ pin /\ ~ last
  /\ current' = pin
  /\ saved_mode' = ~ saved_mode
  /\ pressed' = FALSE
  /\ pc' = "save"
  /\ UNCHANGED <<flash, stack, pin, last, unsaved, before>>

\* Mutant: the mode of before the flip is saved.
SaveOKOld ==
  /\ pc = "save"
  /\ flash' = Named(~ saved_mode)
  /\ pc' = "restart"
  /\ UNCHANGED <<saved_mode, stack, pin, task, pressed, unsaved, before>>

\* ... saved ...
SaveOK ==
  /\ pc = "save"
  /\ flash' = Named(saved_mode)
  /\ pc' = "restart"
  /\ UNCHANGED <<saved_mode, stack, pin, task, pressed, unsaved, before>>

\* Mutant: the flip is undone and another save tried at once.
SaveFailsInsists ==
  /\ pc = "save"
  /\ flash' \in {flash, Named(saved_mode)}
  /\ saved_mode' = ~ saved_mode
  /\ unsaved' = TRUE
  /\ UNCHANGED <<stack, pc, pin, task, pressed, before>>

\* ... or not: opening or setting failed and flash is as it was, or the
\* commit failed and the key has been written.  The task goes on.
SaveFails ==
  /\ pc = "save"
  /\ flash' \in {flash, Named(saved_mode)}
  /\ last' = current
  /\ unsaved' = TRUE
  /\ pc' = "sample"
  /\ UNCHANGED <<saved_mode, stack, pin, current, pressed, before>>

\* esp_restart()
Restart ==
  /\ pc = "restart"
  /\ Reset(IF unsaved THEN "none" ELSE stack)
  /\ UNCHANGED <<flash, pin, pressed>>

TaskStep == Sample \/ NoChange \/ Change \/ NotRising \/ Flip
            \/ SaveOK \/ SaveFails \/ Restart

-----------------------------------------------------------------------------
(* The environment.                                                        *)

MovePin ==
  /\ pin' = ~ pin
  /\ pressed' = (pressed \/ pin')
  /\ UNCHANGED <<flash, saved_mode, stack, pc, task, unsaved, before>>

\* The power is cut.  Where the task is about to restart this is the restart,
\* and Restart models it.
PowerCut ==
  /\ pc # "restart"
  /\ Reset(IF pc = "boot" THEN before ELSE "none")
  /\ UNCHANGED <<flash, pin, pressed>>

\* An ESP_ERROR_CHECK of app_main fails while the stack is started.
Abort ==
  /\ pc = "start"
  /\ Reset("none")
  /\ UNCHANGED <<flash, pin, pressed>>

Next == LoadMode \/ DefaultMode \/ StartTask \/ TaskStep \/ MovePin \/ PowerCut
        \/ Abort

Spec == Init /\ [][Next]_vars

FairSpec ==
  Spec /\ WF_vars(LoadMode \/ DefaultMode) /\ WF_vars(StartTask)
       /\ WF_vars(TaskStep)

-----------------------------------------------------------------------------
(* Properties.                                                             *)

TypeOK ==
  /\ flash \in Stacks \cup {"none"}
  /\ saved_mode \in BOOLEAN
  /\ stack \in Stacks \cup {"none"}
  /\ pc \in {"boot", "start", "sample", "lamp", "debounce", "save", "restart"}
  /\ pin \in BOOLEAN /\ current \in BOOLEAN /\ last \in BOOLEAN
  /\ pressed \in BOOLEAN /\ unsaved \in BOOLEAN
  /\ before \in Stacks \cup {"none"}

(***************************************************************************)
(* A restart by the mode button brings up the other stack, if flash can be *)
(* read and no earlier save had failed, even if the power is cut between   *)
(* the save and the restart, or while booting.                             *)
(***************************************************************************)
ButtonSwitchesStack ==
  pc = "start" /\ before # "none" => stack # before

(***************************************************************************)
(* "Rising edge" (gpio_handle.cpp:105): the mode flips only when the button*)
(* has been pressed since the last flip.  The code breaks it:              *)
(* last_mode_state starts as false at every boot, so a button still held   *)
(* after the restart it asked for is taken for a new press.                *)
(***************************************************************************)
FlipNeedsPress == [][Flip => pressed]_vars

(***************************************************************************)
(* A button that is held down is answered: once the task knows it as up,   *)
(* it flips the mode, unless it is let go first.  The sample that decides  *)
(* may be older than a debounce delay or a publish of the lamp half        *)
(* (gpio_handle.cpp:99), and it may be noise; no press is lost over it.    *)
(***************************************************************************)
HeldPressAnswered ==
  (pc \in Looping /\ pin /\ ~ last) ~> (~ pin \/ pc \notin Looping)

(***************************************************************************)
(* Once the button is let go, the device stops restarting, if the power    *)
(* stays on and the starts of the stack do not fail: every restart of      *)
(* gpio_control_task is the answer to a press.                             *)
(***************************************************************************)
ReleasedSettles ==
  <>[][~ pin /\ ~ pin' /\ ~ PowerCut /\ ~ Abort]_vars => <>[](pc \in Looping)
=============================================================================
