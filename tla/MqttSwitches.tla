---------------------------- MODULE MqttSwitches ----------------------------
(***************************************************************************)
(* The switches of the firmware in MQTT mode: main/mqtt_service.c and the  *)
(* lamp half of main/gpio_handle.cpp, from the moment app_main has called  *)
(* mqtt_client_init().                                                     *)
(*                                                                         *)
(* Two tasks share switch_states[], the LED pins and the MQTT client:      *)
(*                                                                         *)
(*  - the client task (esp-mqtt, priority 5) runs mqtt_event_handler() with*)
(*    the client's recursive API lock held.  It can be preempted between   *)
(*    any two of its accesses to shared state, so each access is a step;   *)
(*  - gpio_control_task (priority 15) polls the lamp button.  The target   *)
(*    has one core and strict priorities, so what this task does between   *)
(*    two blocking calls (vTaskDelay, esp_mqtt_client_publish) is one      *)
(*    step.  A publish blocks while the client task holds the API lock,    *)
(*    with the value to publish already passed by value.                   *)
(***************************************************************************)
EXTENDS Naturals

CONSTANT MAX_SWITCH          \* number of switches, MAX_SWITCH of public.h

ASSUME MaxSwitchAssumption == MAX_SWITCH \in Nat \ {0}

Switch == 0 .. MAX_SWITCH - 1
Button == 0                  \* the switch the lamp button toggles

(***************************************************************************)
(* Payloads, by what the two strncmp(event->data, .., event->data_len) of  *)
(* handle_electrode_command() can tell apart: a prefix of "on", the empty  *)
(* one included, compares equal to "on".                                   *)
(***************************************************************************)
OnWords  == {"", "o", "on"}
OffWords == {"of", "off"}
Payload  == OnWords \cup OffWords \cup {"other"}

\* The topic of a data event; a continuation fragment has topic_len 0.
Fragment == MAX_SWITCH
Topic    == Switch \cup {Fragment}

\* Mutant: a fragment is taken for a topic of its own.
MatchTopicOwn(t) == t

\* handle_mqtt_data(): strncmp over zero characters accepts the first topic.
MatchTopic(t) == IF t = Fragment THEN 0 ELSE t

\* publish_electrode_state(): the word published for a state.
Word(b) == IF b THEN "on" ELSE "off"

VARIABLES
  state,      \* switch_states[s].state
  led,        \* level of the LED pin of each switch
  reported,   \* the word last accepted by the client for each state topic
  missed,     \* nothing accepted since boot, or the last attempt failed
  link,       \* connected to the broker
  subscribed, \* command topics subscribed to on this connection
  mpc,        \* where the client task is
  sw,         \* its switch_index
  payload,    \* its event->data
  val,        \* its argument to control_gpio_led / publish_electrode_state
  bpc,        \* where gpio_control_task is
  last,       \* its last_led_state
  bval,       \* the value it is about to publish
  pin,        \* level of LED_CONTROL_GPIO
  saved_mode, \* saved_mode: TRUE at boot, or this would not be MQTT mode
  raced,      \* history: a press cut into a pass of the client task, and no
              \* command or press has run alone on the button's switch since
  strayed     \* history: the last change of the button's switch was a press
              \* that publishes nothing

device == <<state, led>>
feed   == <<reported, missed>>
client == <<mpc, sw, payload, val>>
net    == <<link, subscribed>>
button == <<bpc, last, bval>>
hist   == <<raced, strayed>>
vars   == <<device, feed, client, net, button, pin, saved_mode, hist>>

\* The API lock of the client is held by its task except while it polls.
LockFree == mpc = "poll"

Init ==
  /\ state = [s \in Switch |-> FALSE]
  /\ led = [s \in Switch |-> FALSE]
  /\ reported \in [Switch -> {"on", "off"}]   \* what the broker remembers
  /\ missed = [s \in Switch |-> TRUE]
  /\ link = FALSE
  /\ subscribed = {}
  /\ mpc = "poll" /\ sw = 0 /\ payload = "other" /\ val = FALSE
  /\ bpc = "absent" /\ last = FALSE /\ bval = FALSE
  /\ pin \in BOOLEAN
  /\ saved_mode = TRUE
  /\ raced = FALSE /\ strayed = FALSE

(***************************************************************************)
(* esp_mqtt_client_publish(): QoS 1, so the message is accepted into the   *)
(* outbox whether or not the client is connected; a negative msg_id is     *)
(* only logged by publish_electrode_state().                               *)
(***************************************************************************)
Publish(s, b) ==
  \/ /\ reported' = [reported EXCEPT ![s] = Word(b)]
     /\ missed' = [missed EXCEPT ![s] = FALSE]
  \/ /\ missed' = [missed EXCEPT ![s] = TRUE]
     /\ UNCHANGED reported

-----------------------------------------------------------------------------
(* The client task.                                                        *)

\* A pass of the client's loop takes the API lock; a waiting publish of the
\* higher-priority task goes first.
ClientLock ==
  /\ mpc = "poll" /\ bpc # "blocked"
  /\ mpc' = "locked"
  /\ UNCHANGED <<device, feed, sw, payload, val, net, button, pin, saved_mode,
                 hist>>

ClientUnlock ==
  /\ mpc = "locked"
  /\ mpc' = "poll"
  /\ UNCHANGED <<device, feed, sw, payload, val, net, button, pin, saved_mode,
                 hist>>

\* MQTT_EVENT_CONNECTED: the command topics are subscribed to, and the
\* result of each call is ignored.
Connected ==
  /\ mpc = "locked" /\ ~link
  /\ link' = TRUE
  /\ subscribed' \in SUBSET Switch
  /\ UNCHANGED <<device, feed, client, button, pin, saved_mode, hist>>

\* MQTT_EVENT_DISCONNECTED: only logged; the session is a clean one.
Disconnected ==
  /\ mpc = "locked" /\ link
  /\ link' = FALSE
  /\ subscribed' = {}
  /\ UNCHANGED <<device, feed, client, button, pin, saved_mode, hist>>

\* MQTT_EVENT_DATA: handle_mqtt_data() finds the switch of the topic.
Data(t, w) ==
  /\ mpc = "locked" /\ link
  /\ t \in subscribed \/ (t = Fragment /\ subscribed # {})
  /\ sw' = MatchTopic(t)
  /\ payload' = w
  /\ mpc' = "store"
  /\ UNCHANGED <<device, feed, val, net, button, pin, saved_mode, hist>>

\* switch_states[switch_index].state = true / false
Store ==
  /\ mpc = "store" /\ payload \in OnWords \cup OffWords
  /\ state' = [state EXCEPT ![sw] = payload \in OnWords]
  /\ mpc' = "fetch"
  /\ payload' = "other"
  /\ raced' = (raced /\ ~(sw = Button /\ bpc # "blocked"))
  /\ strayed' = (strayed /\ sw # Button)
  /\ UNCHANGED <<led, feed, sw, val, net, button, pin, saved_mode>>

\* Neither word: the state is published all the same.
StoreNothing ==
  /\ mpc = "store" /\ payload \notin OnWords \cup OffWords
  /\ mpc' = "read"
  /\ UNCHANGED <<device, feed, sw, payload, val, net, button, pin, saved_mode,
                 hist>>

\* The argument of control_gpio_led() is evaluated ...
Fetch ==
  /\ mpc = "fetch"
  /\ val' = state[sw]
  /\ mpc' = "light"
  /\ UNCHANGED <<device, feed, sw, payload, net, button, pin, saved_mode,
                 hist>>

\* Mutant: the LED of the first switch is written whatever the topic.
LightFirst ==
  /\ mpc = "light"
  /\ led' = [led EXCEPT ![0] = val]
  /\ val' = FALSE
  /\ mpc' = "read"
  /\ UNCHANGED <<state, feed, sw, payload, net, button, pin, saved_mode, hist>>

\* ... and written to the pin.
Light ==
  /\ mpc = "light"
  /\ led' = [led EXCEPT ![sw] = val]
  /\ val' = FALSE
  /\ mpc' = "read"
  /\ UNCHANGED <<state, feed, sw, payload, net, button, pin, saved_mode, hist>>

\* The argument of publish_electrode_state() is evaluated ...
ReadState ==
  /\ mpc = "read"
  /\ val' = state[sw]
  /\ mpc' = "report"
  /\ UNCHANGED <<device, feed, sw, payload, net, button, pin, saved_mode,
                 hist>>

\* ... and published; the handler returns to the client's loop.
Report ==
  /\ mpc = "report"
  /\ Publish(sw, val)
  /\ mpc' = "locked" /\ sw' = 0 /\ val' = FALSE
  /\ UNCHANGED <<device, payload, net, button, pin, saved_mode, hist>>

HandlerStep == Store \/ StoreNothing \/ Fetch \/ Light \/ ReadState \/ Report

-----------------------------------------------------------------------------
(* gpio_control_task, started by app_main after the client.                *)

StartButtonTask ==
  /\ bpc = "absent"
  /\ bpc' = "sleep"
  /\ UNCHANGED <<device, feed, client, net, last, bval, pin, saved_mode, hist>>

\* The sampled level differs from last_led_state: wait out the bounce.
Sample ==
  /\ bpc = "sleep" /\ pin # last
  /\ bpc' = "debounce"
  /\ UNCHANGED <<device, feed, client, net, last, bval, pin, saved_mode, hist>>

\* The second sample equals last_led_state: it was noise.
Bounce ==
  /\ bpc = "debounce" /\ pin = last
  /\ bpc' = "sleep"
  /\ UNCHANGED <<device, feed, client, net, last, bval, pin, saved_mode, hist>>

\* The state is toggled and the LED follows, in one run of the task.
Toggle ==
  /\ state' = [state EXCEPT ![Button] = ~ state[Button]]
  /\ led' = [led EXCEPT ![Button] = ~ state[Button]]

\* Mutant: last_led_state is not updated after the publish.
PressAloneForgetful ==
  /\ bpc = "debounce" /\ pin # last /\ saved_mode /\ LockFree
  /\ Toggle
  /\ Publish(Button, ~ state[Button])
  /\ bpc' = "sleep"
  /\ raced' = FALSE /\ strayed' = FALSE
  /\ UNCHANGED <<client, net, last, bval, pin, saved_mode>>

\* A press with the API lock free: published in the same run.
PressAlone ==
  /\ bpc = "debounce" /\ pin # last /\ saved_mode /\ LockFree
  /\ Toggle
  /\ Publish(Button, ~ state[Button])
  /\ last' = pin
  /\ bpc' = "sleep"
  /\ raced' = FALSE /\ strayed' = FALSE
  /\ UNCHANGED <<client, net, bval, pin, saved_mode>>

\* Mutant: the value to publish is read before the toggle.
PressContendedSwapped ==
  /\ bpc = "debounce" /\ pin # last /\ saved_mode /\ ~ LockFree
  /\ bval' = state[Button]
  /\ Toggle
  /\ bpc' = "blocked"
  /\ raced' = TRUE /\ strayed' = FALSE
  /\ UNCHANGED <<feed, client, net, last, pin, saved_mode>>

\* A press while the client task holds the lock: the publish blocks, with
\* the value it was called with.
PressContended ==
  /\ bpc = "debounce" /\ pin # last /\ saved_mode /\ ~ LockFree
  /\ Toggle
  /\ bval' = ~ state[Button]
  /\ bpc' = "blocked"
  /\ raced' = TRUE /\ strayed' = FALSE
  /\ UNCHANGED <<feed, client, net, last, pin, saved_mode>>

\* Mutant: the publish waits for a connection too.
LatePublishOnline ==
  /\ bpc = "blocked" /\ LockFree /\ link
  /\ Publish(Button, bval)
  /\ last' = ~ last
  /\ bpc' = "sleep" /\ bval' = FALSE
  /\ UNCHANGED <<device, client, net, pin, saved_mode, hist>>

\* The lock is handed over: the late publish, then last_led_state.
LatePublish ==
  /\ bpc = "blocked" /\ LockFree
  /\ Publish(Button, bval)
  /\ last' = ~ last
  /\ bpc' = "sleep" /\ bval' = FALSE
  /\ UNCHANGED <<device, client, net, pin, saved_mode, hist>>

(***************************************************************************)
(* A press after a mode save that failed: saved_mode is the other mode's by*)
(* now, so the press takes the path of the stack that was never started.   *)
(* attribute::update() finds no attribute; app_driver_attribute_update()   *)
(* then writes the LED and the state, since light_endpoint_id1 and the     *)
(* endpoint asked for are both still 0.  Nothing is published.             *)
(***************************************************************************)
StrayPress ==
  /\ bpc = "debounce" /\ pin # last /\ ~ saved_mode
  /\ Toggle
  /\ last' = pin
  /\ bpc' = "sleep"
  /\ raced' = ~ LockFree /\ strayed' = TRUE
  /\ UNCHANGED <<feed, client, net, bval, pin, saved_mode>>

\* The mode half of the loop, when save_mode_config_to_nvs() fails: the
\* task goes on with the flipped mode (a save that succeeds is a Reboot).
ModeSaveFails ==
  /\ bpc = "sleep"
  /\ saved_mode' = ~ saved_mode
  /\ UNCHANGED <<device, feed, client, net, button, pin, hist>>

ButtonStep == StartButtonTask \/ Sample \/ Bounce \/ PressAlone
              \/ PressContended \/ LatePublish \/ StrayPress

-----------------------------------------------------------------------------
(* The environment.                                                        *)

MovePin ==
  /\ pin' = ~ pin
  /\ UNCHANGED <<device, feed, client, net, button, saved_mode, hist>>

\* A restart, asked for by the mode button or by a power cut: RAM and pins
\* start over, the broker keeps what it was told.
Reboot ==
  /\ state' = [s \in Switch |-> FALSE]
  /\ led' = [s \in Switch |-> FALSE]
  /\ missed' = [s \in Switch |-> TRUE]
  /\ link' = FALSE /\ subscribed' = {}
  /\ mpc' = "poll" /\ sw' = 0 /\ payload' = "other" /\ val' = FALSE
  /\ bpc' = "absent" /\ last' = FALSE /\ bval' = FALSE
  /\ saved_mode' = TRUE
  /\ raced' = FALSE /\ strayed' = FALSE
  /\ UNCHANGED <<reported, pin>>

Next ==
  \/ ClientLock \/ ClientUnlock \/ Connected \/ Disconnected
  \/ \E t \in Topic, w \in Payload : Data(t, w)
  \/ HandlerStep
  \/ ButtonStep
  \/ ModeSaveFails
  \/ MovePin
  \/ Reboot

Spec == Init /\ [][Next]_vars

(***************************************************************************)
(* Both tasks are scheduled; a pass of the client's loop ends, however     *)
(* many fragments it delivers, since a message is finite: the unlock is    *)
(* enabled again and again and eventually taken.                           *)
(***************************************************************************)
FairSpec ==
  /\ Spec
  /\ WF_vars(HandlerStep)
  /\ SF_vars(ClientUnlock)
  /\ WF_vars(ButtonStep)

-----------------------------------------------------------------------------
(* Properties.                                                             *)

TypeOK ==
  /\ state \in [Switch -> BOOLEAN]
  /\ led \in [Switch -> BOOLEAN]
  /\ reported \in [Switch -> {"on", "off"}]
  /\ missed \in [Switch -> BOOLEAN]
  /\ link \in BOOLEAN
  /\ subscribed \in SUBSET Switch
  /\ mpc \in {"poll", "locked", "store", "fetch", "light", "read", "report"}
  /\ sw \in Switch
  /\ payload \in Payload
  /\ val \in BOOLEAN
  /\ bpc \in {"absent", "sleep", "debounce", "blocked"}
  /\ last \in BOOLEAN
  /\ bval \in BOOLEAN
  /\ pin \in BOOLEAN
  /\ saved_mode \in BOOLEAN
  /\ raced \in BOOLEAN
  /\ strayed \in BOOLEAN

LampAgrees(s) == led[s] = state[s]
FeedAgrees(s) == missed[s] \/ reported[s] = Word(state[s])

\* No handler is under way and no publish waits.
AtRest == mpc \in {"poll", "locked"} /\ bpc # "blocked"

(***************************************************************************)
(* Whenever both tasks are between operations, the lamp shows the state of *)
(* its switch and the state topic carries it (unless the publish failed),  *)
(* for every switch but the button's after a press that cut into a pass of *)
(* the client task.  handle_electrode_command() and gpio_control_task()    *)
(* rely on it without a lock of their own.  A press after a failed mode    *)
(* save publishes nothing; the lamp follows it all the same.               *)
(***************************************************************************)
SettledAgree ==
  AtRest => \A s \in Switch :
              ~(s = Button /\ raced) =>
                LampAgrees(s) /\ ((s = Button /\ strayed) \/ FeedAgrees(s))

(***************************************************************************)
(* Even after a race on the button's switch, at rest at least one of the   *)
(* lamp and the state topic is right: the handler's LED write and its      *)
(* publish, or the late publish of gpio_control_task, cannot both be stale.*)
(***************************************************************************)
NeverBothStale ==
  AtRest => LampAgrees(Button) \/ FeedAgrees(Button)

(***************************************************************************)
(* The state topics (mqtt_service.c:16) carry the state: at rest the last  *)
(* word accepted for a switch is its state, whenever every change of it was*)
(* published.  The code breaks it: the value of a blocked publish is older *)
(* than the command handled meanwhile.                                     *)
(***************************************************************************)
StateTopicCarriesState ==
  AtRest => \A s \in Switch : (s = Button /\ strayed) \/ FeedAgrees(s)

(***************************************************************************)
(* A press that waits for the client's lock gets its publish, unless the   *)
(* device restarts: gpio_control_task, and with it both buttons, cannot be *)
(* held up for ever by the client task.                                    *)
(***************************************************************************)
PressGetsThrough == (bpc = "blocked") ~> (bpc # "blocked")

(***************************************************************************)
(* Once the button is left alone and the device stays up, every level      *)
(* change has been consumed: last_led_state ends up equal to the pin.      *)
(***************************************************************************)
ButtonSettles ==
  <>[][pin' = pin /\ ~Reboot]_vars => <>[](last = pin)
=============================================================================
