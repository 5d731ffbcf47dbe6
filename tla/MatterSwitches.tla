--------------------------- MODULE MatterSwitches ---------------------------
(***************************************************************************)
(* The switches of the firmware in Matter mode: main/app_driver.cpp, the   *)
(* callbacks of main/app_main.cpp and the lamp half of                     *)
(* main/gpio_handle.cpp, from the moment esp_matter::start() returned.     *)
(*                                                                         *)
(* Every switch exists three times: the OnOff attribute of its endpoint    *)
(* (kept by esp-matter), switch_states[] and the LED pin.  Three tasks     *)
(* write them:                                                             *)
(*                                                                         *)
(*  - the CHIP task (priority 1) executes commands with the stack lock     *)
(*    held; app_attribute_update_cb() runs before the attribute is stored; *)
(*  - app_main (priority 1) applies the attributes to the hardware, without*)
(*    the lock, and then starts                                            *)
(*  - gpio_control_task (priority 15), which runs from one blocking call to*)
(*    the next with no other task in between, since the target has one core*)
(*    and strict priorities; attribute::update() blocks on the lock.       *)
(***************************************************************************)
EXTENDS Naturals

CONSTANT MAX_SWITCH

ASSUME MaxSwitchAssumption == MAX_SWITCH \in Nat \ {0}

Switch == 0 .. MAX_SWITCH - 1
Button == 0                  \* light_endpoint_id1

VARIABLES
  attr,     \* OnOff attribute of the endpoint of each switch
  state,    \* switch_states[s].state
  led,      \* level of the LED pin
  cpc,      \* where the CHIP task is; it holds the stack lock unless "idle"
  csw,      \* the switch whose attribute it updates
  cval,     \* the value it updates it to
  mainpc,   \* where app_main is
  msw,      \* the switch app_driver_light_set_defaults() is called for
  mval,     \* the value it read
  bpc,      \* where gpio_control_task is
  last,     \* its last_led_state
  bval,     \* the value it is about to write
  pin,      \* level of LED_CONTROL_GPIO
  saved_mode, \* saved_mode: FALSE at boot, or this would not be Matter mode
  stale,    \* history: defaults of the switch, or a press that leaves its
            \* attribute alone, were applied across a command for it, and it
            \* has not been written as a whole since
  strayed   \* history: an odd number of presses has left the attribute alone
            \* since the button's switch was last written as a whole

lamp   == <<state, led>>
chip   == <<cpc, csw, cval>>
main   == <<mainpc, msw, mval>>
button == <<bpc, last, bval>>
hist   == <<stale, strayed>>
vars   == <<attr, lamp, chip, main, button, pin, saved_mode, hist>>

LockFree == cpc = "idle"

\* The CHIP task executes a command for s.
CommandOn(s) == cpc \in {"light", "state", "attr"} /\ csw = s

\* Mutant: gpio_control_task has the priority of the others.
LowPriorityAlways == TRUE

\* The tasks of priority 1 do not run while gpio_control_task (15) can.
LowPriorityRuns == bpc # "again"

Init ==
  /\ attr \in [Switch -> BOOLEAN]   \* DEFAULT_POWER, or the value restored
  /\ state = [s \in Switch |-> FALSE]
  /\ led = [s \in Switch |-> FALSE] \* app_driver_light_init()
  /\ cpc = "idle" /\ csw = 0 /\ cval = FALSE
  /\ mainpc = "read" /\ msw = 0 /\ mval = FALSE
  /\ bpc = "absent" /\ last = FALSE /\ bval = FALSE
  /\ pin \in BOOLEAN
  /\ saved_mode = FALSE
  /\ stale = [s \in Switch |-> FALSE] /\ strayed = FALSE

\* app_main is between the read and the last write of the defaults of s.
DefaultsUnderWay(s) == mainpc \in {"light", "store"} /\ msw = s

DefaultsDone(s) == mainpc = "done" \/ msw > s

-----------------------------------------------------------------------------
(* The CHIP task.                                                          *)

\* The task takes the stack lock to process an event; a press that waits
\* for the lock goes first.
ChipLock ==
  /\ cpc = "idle" /\ bpc # "blocked" /\ LowPriorityRuns
  /\ cpc' = "held"
  /\ UNCHANGED <<attr, lamp, csw, cval, main, button, pin, saved_mode, hist>>

ChipUnlock ==
  /\ cpc = "held" /\ LowPriorityRuns
  /\ cpc' = "idle"
  /\ UNCHANGED <<attr, lamp, csw, cval, main, button, pin, saved_mode, hist>>

\* On, Off or Toggle: the OnOff server changes the attribute only when the
\* command asks for another value than it has.  One event may bring several.
Command(s) ==
  /\ cpc = "held" /\ LowPriorityRuns
  /\ cpc' = "light" /\ csw' = s /\ cval' = ~ attr[s]
  /\ stale' = [stale EXCEPT ![s] = DefaultsUnderWay(s)]
  /\ strayed' = (strayed /\ s # Button)
  /\ UNCHANGED <<attr, lamp, main, button, pin, saved_mode>>

\* Mutant: the callback leaves the pin alone.
CommandLightNone ==
  /\ cpc = "light" /\ LowPriorityRuns
  /\ cpc' = "state"
  /\ UNCHANGED <<attr, lamp, csw, cval, main, button, pin, saved_mode, hist>>

\* PRE_UPDATE: app_driver_light_set_on_off() writes the pin ...
CommandLight ==
  /\ cpc = "light" /\ LowPriorityRuns
  /\ led' = [led EXCEPT ![csw] = cval]
  /\ cpc' = "state"
  /\ UNCHANGED <<attr, state, csw, cval, main, button, pin, saved_mode, hist>>

\* ... and then switch_states[].
CommandState ==
  /\ cpc = "state" /\ LowPriorityRuns
  /\ state' = [state EXCEPT ![csw] = cval]
  /\ cpc' = "attr"
  /\ UNCHANGED <<attr, led, csw, cval, main, button, pin, saved_mode, hist>>

\* Mutant: the command does not end, and the lock stays taken.
CommandAttrKeepsLock ==
  /\ cpc = "attr" /\ LowPriorityRuns
  /\ attr' = [attr EXCEPT ![csw] = cval]
  /\ UNCHANGED <<lamp, chip, main, button, pin, saved_mode, hist>>

\* The stack stores the attribute.
CommandAttr ==
  /\ cpc = "attr" /\ LowPriorityRuns
  /\ attr' = [attr EXCEPT ![csw] = cval]
  /\ cpc' = "held" /\ csw' = 0 /\ cval' = FALSE
  /\ UNCHANGED <<lamp, main, button, pin, saved_mode, hist>>

ChipStep == CommandLight \/ CommandState \/ CommandAttr

-----------------------------------------------------------------------------
(* app_main: app_driver_light_set_defaults() for each endpoint in turn, in *)
(* four calls one after the other.                                         *)

\* attribute::get_val()
DefaultRead ==
  /\ mainpc = "read"
  /\ mval' = attr[msw]
  /\ mainpc' = "light"
  /\ stale' = [stale EXCEPT ![msw] = @ \/ CommandOn(msw)]
  /\ UNCHANGED <<attr, lamp, chip, msw, button, pin, saved_mode, strayed>>

\* app_driver_light_set_on_off(): the pin, then switch_states[].
DefaultLight ==
  /\ mainpc = "light"
  /\ led' = [led EXCEPT ![msw] = mval]
  /\ mainpc' = "store"
  /\ UNCHANGED <<attr, state, chip, msw, mval, button, pin, saved_mode, hist>>

\* Mutant: one call more than switch_states[] has elements.
DefaultStoreOffByOne ==
  /\ mainpc = "store"
  /\ state' = [state EXCEPT ![msw] = mval]
  /\ mval' = FALSE
  /\ IF msw = MAX_SWITCH
       THEN mainpc' = "done" /\ msw' = msw
       ELSE mainpc' = "read" /\ msw' = msw + 1
  /\ UNCHANGED <<attr, led, chip, button, pin, saved_mode, hist>>

\* Mutant: the defaults reach the pin only.
DefaultStoreNone ==
  /\ mainpc = "store"
  /\ mval' = FALSE
  /\ IF msw = MAX_SWITCH - 1
       THEN mainpc' = "done" /\ msw' = msw
       ELSE mainpc' = "read" /\ msw' = msw + 1
  /\ UNCHANGED <<attr, lamp, chip, button, pin, saved_mode, hist>>

DefaultStore ==
  /\ mainpc = "store"
  /\ state' = [state EXCEPT ![msw] = mval]
  /\ mval' = FALSE
  /\ IF msw = MAX_SWITCH - 1
       THEN mainpc' = "done" /\ msw' = msw
       ELSE mainpc' = "read" /\ msw' = msw + 1
  /\ UNCHANGED <<attr, led, chip, button, pin, saved_mode, hist>>

\* start_gpio_control_task()
StartButtonTask ==
  /\ mainpc = "done" /\ bpc = "absent"
  /\ bpc' = "sleep"
  /\ UNCHANGED <<attr, lamp, chip, main, last, bval, pin, saved_mode, hist>>

MainStep == DefaultRead \/ DefaultLight \/ DefaultStore \/ StartButtonTask

-----------------------------------------------------------------------------
(* gpio_control_task.                                                      *)

Sample ==
  /\ bpc = "sleep" /\ pin # last
  /\ bpc' = "debounce"
  /\ UNCHANGED <<attr, lamp, chip, main, last, bval, pin, saved_mode, hist>>

Bounce ==
  /\ bpc = "debounce" /\ pin = last
  /\ bpc' = "sleep"
  /\ UNCHANGED <<attr, lamp, chip, main, last, bval, pin, saved_mode, hist>>

\* app_driver_attribute_update(): the LED and switch_states[].
DriverUpdate(b) ==
  /\ led' = [led EXCEPT ![Button] = b]
  /\ state' = [state EXCEPT ![Button] = b]

\* attribute::update() with the lock: the callback, then the attribute.
Update(b) ==
  /\ DriverUpdate(b)
  /\ attr' = [attr EXCEPT ![Button] = b]
  /\ stale' = [stale EXCEPT ![Button] = FALSE] /\ strayed' = FALSE

\* A press with the lock free: attribute::update() takes it and gives it
\* back.
PressAlone ==
  /\ bpc = "debounce" /\ pin # last /\ ~ saved_mode /\ LockFree
  /\ Update(~ state[Button])
  /\ bval' = ~ state[Button]
  /\ bpc' = "again"
  /\ UNCHANGED <<chip, main, last, pin, saved_mode>>

\* switch_states[0] is toggled at once; the rest waits for the lock.
PressContended ==
  /\ bpc = "debounce" /\ pin # last /\ ~ saved_mode /\ ~ LockFree
  /\ state' = [state EXCEPT ![Button] = ~ state[Button]]
  /\ bval' = ~ state[Button]
  /\ bpc' = "blocked"
  /\ UNCHANGED <<attr, led, chip, main, last, pin, saved_mode, hist>>

LatePress ==
  /\ bpc = "blocked" /\ LockFree
  /\ Update(bval)
  /\ bpc' = "again"
  /\ UNCHANGED <<chip, main, last, bval, pin, saved_mode>>

\* The lock is back; the task calls app_driver_attribute_update() again.
PressAgain ==
  /\ bpc = "again"
  /\ DriverUpdate(bval)
  /\ last' = ~ last
  /\ bpc' = "sleep" /\ bval' = FALSE
  /\ UNCHANGED <<attr, chip, main, pin, saved_mode, hist>>

(***************************************************************************)
(* A press after a mode save that failed: saved_mode is the other mode's by*)
(* now, so the press writes the LED and publishes to an MQTT client that   *)
(* does not exist, which fails at once.  The attribute is left alone.      *)
(***************************************************************************)
StrayPress ==
  /\ bpc = "debounce" /\ pin # last /\ saved_mode
  /\ DriverUpdate(~ state[Button])
  /\ last' = pin
  /\ bpc' = "sleep"
  /\ stale' = [stale EXCEPT ![Button] = @ \/ CommandOn(Button)]
  /\ strayed' = ~ strayed
  /\ UNCHANGED <<attr, chip, main, bval, pin, saved_mode>>

\* The mode half of the loop, when save_mode_config_to_nvs() fails: the
\* task goes on with the flipped mode (a save that succeeds is a Reboot).
ModeSaveFails ==
  /\ bpc = "sleep"
  /\ saved_mode' = ~ saved_mode
  /\ UNCHANGED <<attr, lamp, chip, main, button, pin, hist>>

ButtonStep == Sample \/ Bounce \/ PressAlone \/ PressContended \/ LatePress
              \/ PressAgain \/ StrayPress

-----------------------------------------------------------------------------
(* The environment.                                                        *)

MovePin ==
  /\ pin' = ~ pin
  /\ UNCHANGED <<attr, lamp, chip, main, button, saved_mode, hist>>

\* A restart: the attributes come back from flash, or with their defaults.
Reboot ==
  /\ attr' \in [Switch -> BOOLEAN]
  /\ state' = [s \in Switch |-> FALSE]
  /\ led' = [s \in Switch |-> FALSE]
  /\ cpc' = "idle" /\ csw' = 0 /\ cval' = FALSE
  /\ mainpc' = "read" /\ msw' = 0 /\ mval' = FALSE
  /\ bpc' = "absent" /\ last' = FALSE /\ bval' = FALSE
  /\ saved_mode' = FALSE
  /\ stale' = [s \in Switch |-> FALSE] /\ strayed' = FALSE
  /\ UNCHANGED pin

Next ==
  \/ ChipLock \/ ChipUnlock
  \/ \E s \in Switch : Command(s)
  \/ ChipStep
  \/ MainStep
  \/ ButtonStep
  \/ ModeSaveFails
  \/ MovePin
  \/ Reboot

Spec == Init /\ [][Next]_vars

(***************************************************************************)
(* Every task is scheduled; whether a command comes is up to the network.  *)
(* The CHIP task gives the lock back in the end, however many commands an  *)
(* event brings, since a message is finite.                                *)
(***************************************************************************)
FairSpec ==
  /\ Spec
  /\ WF_vars(ChipStep)
  /\ SF_vars(ChipUnlock)
  /\ WF_vars(MainStep)
  /\ WF_vars(ButtonStep)

-----------------------------------------------------------------------------
(* Properties.                                                             *)

TypeOK ==
  /\ attr \in [Switch -> BOOLEAN]
  /\ state \in [Switch -> BOOLEAN]
  /\ led \in [Switch -> BOOLEAN]
  /\ cpc \in {"idle", "held", "light", "state", "attr"}
  /\ csw \in Switch
  /\ cval \in BOOLEAN
  /\ mainpc \in {"read", "light", "store", "done"}
  /\ msw \in Switch
  /\ mval \in BOOLEAN
  /\ bpc \in {"absent", "sleep", "debounce", "blocked", "again"}
  /\ last \in BOOLEAN
  /\ bval \in BOOLEAN
  /\ pin \in BOOLEAN
  /\ saved_mode \in BOOLEAN
  /\ stale \in [Switch -> BOOLEAN]
  /\ strayed \in BOOLEAN

\* The attribute of s was last left alone by a press.
Astray(s) == s = Button /\ strayed

\* No command and no press is under way.
AtRest == cpc \in {"idle", "held"} /\ bpc \notin {"blocked", "again"}

(***************************************************************************)
(* Between commands and presses, the lamp, the RAM state the next press    *)
(* toggles and the attribute a controller reads are the same, for every    *)
(* switch whose defaults have been applied, presses that cut into commands *)
(* included.  The exceptions: a command that overlapped the unlocked       *)
(* app_driver_light_set_defaults() of its switch; and, after a failed mode *)
(* save (gpio_handle.cpp:78), presses that flip the button's switch without*)
(* its attribute, or that cut into a command for it.  What the press writes*)
(* after it has given the stack lock back is older than no command.        *)
(***************************************************************************)
SettledAgree ==
  AtRest => \A s \in Switch :
              DefaultsDone(s) /\ ~ stale[s] =>
                led[s] = state[s] /\ (led[s] = attr[s] <=> ~ Astray(s))

(***************************************************************************)
(* A press that meets no command flips the attribute, although it computes *)
(* the new value from switch_states[] and never reads the attribute.       *)
(***************************************************************************)
PressFlipsAttribute ==
  [][~ stale[Button] /\ ~ strayed /\ PressAlone
       => attr'[Button] # attr[Button]]_vars

(***************************************************************************)
(* Once app_main has run, every lamp shows its attribute again and again,  *)
(* or its switch stays stale or astray: no command leaves a lamp behind for*)
(* ever, and a press waiting for the stack lock gets it.                   *)
(***************************************************************************)
LampCatchesUp ==
  \A s \in Switch :
    []<>(led[s] = attr[s] \/ stale[s] \/ Astray(s) \/ ~ DefaultsDone(s))

(***************************************************************************)
(* A press that waits for the stack lock gets it, unless the device        *)
(* restarts: gpio_control_task, and with it both buttons, cannot be held up*)
(* for ever by the commands of a controller.                               *)
(***************************************************************************)
PressGetsThrough == (bpc = "blocked") ~> (bpc # "blocked")
=============================================================================
