# A TLA+ model of the starter-esp-matter-app firmware

The firmware drives four lamps of an ESP32-C3. It runs either an **MQTT** client
or a **Matter** node, chosen by a mode kept in flash and flipped by a button.
In MQTT mode without Wi-Fi credentials it opens a **captive portal** to ask for
them. The repository has no tests. What is hard about it is not any one
function but that several tasks write the same RAM, pins and flash without a
lock, while restarts, failed writes and power cuts happen at any point.

Paths below are relative to `src/`.

## 1. Inventory

| Component | State it keeps | Operations | Talks to |
|---|---|---|---|
| MQTT switches (`main/mqtt_service.c`) | `switch_states[]`, LED pins, the client | event handler (connected, disconnected, data), `handle_electrode_command`, `publish_electrode_state` | button task through `switch_states[]`, pins and the client's API lock; the broker |
| Matter switches (`main/app_driver.cpp`, `main/app_main.cpp`) | OnOff attributes (in esp-matter), `switch_states[]`, LED pins | PRE_UPDATE callback, `app_driver_light_set_defaults`, `app_driver_attribute_update` | CHIP task under the stack lock; app_main without it; button task |
| Buttons (`main/gpio_handle.cpp`) | `last_led_state`, `last_mode_state` | one polling task: lamp half, mode half | both stacks, NVS, restart |
| Mode selection (`main/app_main.cpp`) | `saved_mode`, NVS key `mode` | `check_mode`, the two branches of `app_main` | NVS, buttons |
| Provisioning (`main/captive_portal.c`) | `server`, `dns_handle`, `json_string`, access point | start, submit form, connect task, stop | HTTP server thread, DNS server, NVS, Wi-Fi driver |
| NVS store (`main/nvs_manager.c`) | keys `wifi_ssid`, `wifi_password`, `mode` | load, save, clear | all of the above |
| Wi-Fi station (`main/wifi_manager.c`) | `retry_num`, `is_wifi_connected` | event handler, `wifi_connection` | event loop task, Wi-Fi driver |
| Wi-Fi scan (`main/wifi_manager.c`) | `json_string`, the driver | scan task, a bounded wait for it | portal start, HTTP thread |
| DNS server (`components/dns_server`) | socket, handle, rules | parse and reply; start, stop | portal |
| Touch keys (`main/mpr121_handle.cpp`) | press times of each key | poll, short press, long press | not linked into the program |
| Software I2C (`components/soft_i2c_master`) | two lines | write, read, write-read | not used by `main/` |
| Commissioning (`app_event_cb`) | fabrics, window | reopen the window | CHIP task |

Hard behaviours: the interleavings of the client task, the CHIP task, app_main
and the button task; publishes and attribute updates that block with a value
already chosen; restarts and power cuts between two writes; saves and publishes
that fail; a scan that outlives the wait for it; two tear-downs at once.
`PROJECT.json` lists these hazards at their lines, with the properties that
would catch each and, where there is none, the reason. Several of them are what
the code does: the models run into them, the safety properties exclude exactly
them by a history variable, and so bound the harm instead of denying it
(section 4).

What makes each component correct:

- **MQTT and Matter switches**: the copies of a switch (RAM, lamp, state topic
  or attribute) agree whenever nothing is under way; a press takes effect once.
- **Mode selection**: a press switches the stack, once, and a press that is
  held is not lost.
- **Provisioning**: the credentials used are those of one form; a connect task
  ends; resources are released once.
- **Wi-Fi station and scan**: the driver has one user at a time; the station
  uses the saved credentials and is offline only when its retries are spent;
  the portal opens whatever becomes of the scan.
- **DNS server**: no request makes the parser read outside its buffers; a reply
  fits, repeats its request and names only the access point; every question for
  an address is answered; sockets are closed once, and by their owner.
- **Software I2C**: the bit-level transfer is the byte-level one, and leaves
  the bus idle.
- **Touch keys, commissioning**: see section 7.

## 2. Assumptions about the platform

Read from `sdkconfig` and from how `main/` uses the libraries:

- One core (`CONFIG_FREERTOS_UNICORE`), strict priorities: button task 15;
  client task, HTTP thread, DNS task, connect and scan tasks 5; app_main and
  CHIP task 1. Hence what the button task does between two blocking calls is
  one step for the tasks below it, while each access of those tasks to shared
  state is a step of its own, since the button task can preempt between any two.
  Logging takes a lock of its own, but no logged line touches shared state.
- `esp_mqtt_client_publish` at QoS 1 takes the client's recursive API lock,
  puts the message into the outbox whether or not the client is connected, and
  can fail. The client task holds that lock while it calls the event handler.
- `attribute::update` takes the CHIP stack lock, calls the PRE_UPDATE callback,
  stores the attribute and gives the lock back; the button task, which may have
  waited for the lock, then goes on before any other task runs. The CHIP task
  holds the lock for an event, which may bring several commands. The OnOff
  server ignores a command that asks for the value the attribute has.
- `httpd_stop` asks the server's thread to end, waits until it has and frees
  it; the thread ends between requests.
- `nvs_set_*` is in flash when it returns. A failed commit may leave the key
  written; a failed open or set does not.
- The Wi-Fi driver keeps its mode and its station configuration in flash
  (`CONFIG_ESP_WIFI_NVS_ENABLED`), takes a station configuration only in
  station mode and refuses to connect without one, or for a reason of its own.
  A second initialisation is
  no error; a deinitialisation is refused while the driver is started. It posts
  its events to the event task in order.
- lwIP gives a new socket the lowest free descriptor; `close` does not ask who
  opened it. `recvfrom` returns at most `sizeof(rx_buffer) - 1` bytes.
- The core is little-endian, and `char` is unsigned on RISC-V, so that a label
  length of 128 or more is a step forward.
- The I2C lines are open-drain. A transfer is a critical section; the master
  never reads SCL, so a device that stretches the clock is out of the model.

These external pieces are marked `external` in the map.

## 3. The modules

### `MqttSwitches`

State: `state` and `led` are `switch_states[].state` and the pins; `reported`
is the last word the client accepted for each state topic, `missed` that the
last attempt failed or none was made in this boot; `link`, `subscribed` the
connection. `mpc, sw, payload, val` is where the client task is in
`handle_electrode_command` and what its locals hold. `bpc, last, bval` is the
same for `gpio_control_task`. `raced` is history, described below.

The client task: `ClientLock`/`ClientUnlock` bracket a pass of its loop;
`Connected`, `Disconnected` and `Data` are the events; `Store`, `Fetch`,
`Light`, `ReadState`, `Report` are the accesses of the handler in order
(`StoreNothing` when the payload is neither word). The button task: `Sample`,
`Bounce`, then either `PressAlone` (the lock is free, one step to the end) or
`PressContended` followed by `LatePublish`. `ModeSaveFails` is the mode half of
the task when the save fails and nothing restarts: `saved_mode` is then the
other mode's, and a press is a `StrayPress`, which takes the Matter path of
line 85 although no Matter stack runs. There is no attribute to update, but the
endpoint ids are all 0, and so `app_driver_attribute_update` writes lamp and
RAM state; nothing is published (`strayed`). `Reboot` is a restart for any
cause. Payloads are the classes `strncmp(.., data_len)` can tell apart, which
makes the empty payload count as "on"; a continuation fragment has an empty
topic and so matches the first one.

### `MatterSwitches`

State: `attr`, `state`, `led` are the three copies of a switch. `cpc, csw,
cval` is the CHIP task: `ChipLock` and `ChipUnlock` bracket an event, in which
any number of commands may come (`Command`, `CommandLight`, `CommandState`,
`CommandAttr`). `mainpc, msw, mval` is app_main applying the defaults of one
endpoint after the other (`DefaultRead`, `DefaultLight`, `DefaultStore`).
`bpc, last, bval` is the button task: `PressAlone`, or `PressContended` and
`LatePress`, update the attribute under the lock (`Update`); `PressAgain` is the
second `app_driver_attribute_update` of a press (gpio_handle.cpp:90), after the
lock is back. That this second write undoes no command rests on the priority
of the task alone, which `LowPriorityRuns` states: the CHIP task takes no step
while the button task can. A `StrayPress` is a press after a mode save that
failed (`ModeSaveFails`): it takes the MQTT path of line 78, flips lamp and RAM
state and leaves the attribute alone.

`stale[s]` is history: defaults of `s`, or a stray press, were applied across a
command for it. `strayed` counts, modulo two, the stray presses since the
button's switch was last written as a whole.

### `Lifecycle`

State: `flash` is the key `mode`, by the name of the stack it selects;
`saved_mode`, `current`, `last` are the variables of the code, `stack` is the
branch `app_main` took on what `check_mode()` returns. `LoadMode` and
`DefaultMode` are `check_mode()`,
`Sample`, `NoChange`, `Change`, `NotRising`, `Flip`, `SaveOK`, `SaveFails` and
`Restart` the mode half of the button task; `Sample` is apart from the
comparison because the lamp half may block in between. `pressed`, `unsaved`
and `before` are history. `PowerCut` is a loss of power anywhere but at
`esp_restart()`, where it makes no difference and `Restart` stands for both;
`Abort` is a failed `ESP_ERROR_CHECK` while the stack is started. Where a press
goes after a failed save is in the two switch modules.

### `Provisioning`

State: the two keys, the boot's phase, the globals `server` and `dns_handle`
apart from the objects behind them (`httpd`, `dns`), where the HTTP thread is
in `submit_post_handler` and where each connect task is. `faults` collects
uses of freed handles; after one the device may panic (`Panic`) or run on. A
password is named by the SSID it was typed for, so a mixed pair can be seen. A
missing key leaves the buffer of `connect_wifi_task` as it was: `Junk`. A form
may still be accepted while a connect task waits in `httpd_stop`, as one of the
requests of the server's last round.

### `Wifi`

State: `saved` is the NVS pair, `opmode` and `stacfg` what the driver remembers
in flash, `init` and `on` whether it is initialised and started. `main` is
where `app_main` is and, from "delay" on, the connect task of the first form
(in the code the two are different tasks, but the first has nothing left to do
when the second is created). `scan` is where `wifi_scan_task` is, `http` where
the HTTP thread is in `wifi_scan_get_handler`, `heap` which strings are
allocated, `events` the queue of the event task. `late` and `cut` are history.

Every call of the driver is a step of its own, because the scan task, app_main
and the connect task can each be between two of them: `BootPortal` to `GiveUp`
are `perform_wifi_scan`, `ApInit` to `ApStart` the start of the portal,
`StopServers` to `Connect` the connect task with `wifi_connection`, `ScanAlloc`
to `ScanStore` the scan task. `Abort` is the restart by a failed
`ESP_ERROR_CHECK`; `PowerCut` is any other. `StaConnected` and
`StaDisconnected` are `wifi_event_handler`. The driver may refuse any call of
`esp_wifi_connect`; the code looks at neither result, and no event follows:
`link` is "refused" for the rest of the boot.

### `DnsReply` and `DnsServer`

`DnsReply` is `parse_dns_request` and `parse_dns_name` as functions on bytes:
`Walk` is the loop over the labels of a name, `NameEnd` the pointer the parser
returns; `Prepared` is the reply buffer before the loop over the questions,
`Passes` that loop, `Reply` the bytes that are sent.
It knows the one rule `start_captive_portal` configures, which does not apply
while the access point has no address. `DnsServer` is the task around it:
`OuterTest`, `Create`, `InnerTest`, `Receive`, `Sent`, the three failures and
`ShutDown`. `stop_dns_server` is two steps, `StopStarted` and `StopTask`, since
the task may see `started`, close its socket and delete itself between them;
`owner` is the descriptor table, which other tasks use too (`OtherOpen`,
`OtherClose`). `Labels`, `AQuestion`, `Questions` and `WellFormed` read a request
the way the DNS standard does; they stand for no code. What the handle's life looks like from the
portal is in `Provisioning`.

### `I2cTransfer` and `SoftI2c`

`I2cTransfer` is what a call of the master promises, in bytes: the device
hears the bytes to write in order, shows the bytes to read, no more than were
asked for, and the result tells how far it went. It stands for no code and is
not in the map. A read of no bytes, which the header forbids the caller
(`soft_i2c_master.h:79`) and `soft_i2c_master_read` accepts, ends OK there
without a word to the device, as it does in the code. `SoftI2c` is the code: each `emulate_..` function is an action
with one disjunct per line of code that drives or reads a line of the bus (`pc`
names it, `i` and `in` count the bits), `Operate` takes one of them, and `Begin`
to `Return` are `emulate_i2c_transfer` between them. The device is external and
reacts to edges: it answers to its address or does not, acknowledges each byte
or does not, and offers any bytes. The refinement mapping is `taken <- heard,
offered <- shown, read <- got, status <- ret`; bits, lines and the place in the
code are hidden.

### How the modules fit together

`Lifecycle` decides which of the others runs: its `stack` is "mqtt" for a
boot of `Provisioning` and `MqttSwitches`, "matter" for one of
`MatterSwitches`. Each of these starts at the boot and has the restart as an
action that can happen at any time. The button task appears in three modules:
its lamp half in the two switch modules, its mode half in `Lifecycle`; the
halves are run one after the other by the same task and share nothing but
`saved_mode`, which only a save that fails changes within a boot
(`ModeSaveFails`); a save that succeeds is a `Reboot`. The NVS functions
are modelled where they are called.

`Wifi` and `Provisioning` look at the same boot from two sides. `Provisioning`
has every connect task and takes the portal's start as one step; `Wifi` has
that start call by call and the station behind it, and only the first connect
task. `DnsServer` is what `Provisioning` calls `dns`. `SoftI2c` stands alone:
`main/` does not use it.

## 4. What the runs check

| Run | Configuration | Shows |
|---|---|---|
| `mqtt` | `MqttSwitches.cfg` | `SettledAgree`, `NeverBothStale`, `PressGetsThrough`, `ButtonSettles` |
| `mqtt_feed` | `MqttSwitchesFeed.cfg` | violation of `StateTopicCarriesState` |
| `matter` | `MatterSwitches.cfg` | `SettledAgree`, `PressFlipsAttribute`, `PressGetsThrough`, `LampCatchesUp` |
| `lifecycle` | `Lifecycle.cfg` | `ButtonSwitchesStack`, `HeldPressAnswered`, `ReleasedSettles` |
| `lifecycle_held` | `LifecycleHeld.cfg` | violation of `FlipNeedsPress` |
| `provisioning` | `Provisioning.cfg` | `RestartNeverTearsSave`, `CredentialsPaired`, `JunkOnlyRefused`, `SequentialTearDownSafe`, `ConnectEndsInRestart`, `NoWayBack` |
| `provisioning_dns` | `ProvisioningDns.cfg` | violation of `DnsStoppedOnce` |
| `wifi` | `Wifi.cfg` | `AccessPointUp`, `SentListAllocated`, `OfflineOnlySpent`, `CredentialsApplied`, `PortalOpens` |
| `wifi_config` | `WifiConfig.cfg` | violation of `ConnectsWithCredentials` |
| `dns` | `DnsServer.cfg` | `ReadsInside`, `AnswersA`, `ReplyEchoes`, `OneSocket`, `OthersKeepSockets` |
| `dns_claims` | `DnsClaims.cfg` | violation of `OneAnswerEach` |
| `soft_i2c` | `SoftI2c.cfg` | `BusIdleAtReturn`, `ImplementsTransfer`, `DataStable` |

Every passing run also checks its module's `TypeOK`; that of `DnsServer` holds
the bound of a reply, `Len(reply) <= DNS_MAX_LEN`. Deadlock is checked in every
run.

**Bounds.** `MAX_SWITCH = 2` in the switch runs: the button's switch and one it
never touches. Switches other than these two differ from the second in
nothing, and the safety theorems are proved for every number. The violation
run needs one switch only. `Lifecycle` has no bound. `Provisioning` has two
connect tasks, which is what a tear-down beside another needs, and two
networks, so that a pair can be mixed; `Task` bounds the forms accepted in one
boot (the guard of `Submit`), not the boots. `Wifi` has two networks, so that
one form overwrites another, and two retries instead of 50: enough to lose,
regain and lose a network in a boot; `RetryMax` also bounds `events`. `DnsServer`
has buffers of 64 and 6 bytes instead of 256 and 128, so that names and answers
of a few bytes already overrun them: every body of up to five bytes over
`{0, 1, 255}` (a byte that ends a name, goes on with it, or lies about it);
questions of two types with no label to three, names that just fit and names
that do not, cut short, with bytes, a second question or an OPT record behind
them; up to three questions announced; and flags with RD, with the AD bit and
with another opcode. It has three descriptors: the task's, another task's and a
free one. `SoftI2c` has bytes of two bits and transfers of up to
two bytes each way: the first, a middle and the last pass of each loop.

**Fairness.** Each task's steps are weakly fair, as a running task of this
scheduler gets the processor when the higher ones sleep, which they do on every
round. Three steps are strongly fair, because what delays them is finite: the
unlock of the MQTT client (a pass of its loop delivers the fragments of a
message), the unlock of the CHIP stack (an event brings finitely many commands),
and the end of the HTTP thread that was asked to end (a round of the server has
finitely many requests). Nothing is assumed of
the network, the fingers, the power, or of any write or publish: each may fail
every time. In `Wifi`, app_main or the connect task, the scan task and the HTTP
handler take their steps (the driver's blocking calls return) and a failed
check aborts; no request, event, form or power cut ever has to happen.
`DnsServer` and `SoftI2c` have safety properties only.

### Disagreements found

1. **A state topic can stay wrong** (`mqtt_feed`). A press that waits for the
   client's lock publishes a value chosen before the wait; the command handled
   meanwhile has stored and published another. `NeverBothStale` says how far it
   goes: the lamp is right whenever the topic is stale, and conversely.
2. **A held mode button flips the mode again** (`lifecycle_held`).
   `last_mode_state` starts as false at every boot.
3. **The DNS server can be stopped twice** (`provisioning_dns`). Each form
   creates a connect task and each tears the portal down, testing and clearing
   `dns_handle` without a lock. `SequentialTearDownSafe` shows that only
   overlapping tear-downs do harm.
4. **The first connection after the portal uses no credentials**
   (`wifi_config`). `wifi_connection` sets the configuration before the mode;
   the driver comes back in the portal's mode and refuses it. The restart that
   follows hides this, as `CredentialsApplied` shows, unless power is cut
   before the mode is set.
5. **Not every A query is answered** (`dns_claims`). "respond to all A queries
   (IPv4)" says `dns_server.h:61`, "Respond to all questions" `dns_server.c:136`.
   The trace is a standard query for a host with the AD bit set, which gets no
   reply: `OPCODE_MASK` is applied in network order and tests Z, AD and CD. The
   same test lets queries with another opcode through, which line 115 says are
   dropped. The property fails in three more ways, which appear when
   `Request` is narrowed to them: the root name is read a byte too far and its
   type misread (the first trace with `Request <- MCRequest`); of two questions
   the first only is answered, since the pointers never advance; and with a
   record behind the question, such as the OPT of EDNS, the answer is written
   behind that record, outside the answer section. `AnswersA` shows that one
   plain question for a name with labels is answered, however many they are.

### Reading the conditions of the properties

- `raced` in `MqttSwitches` is set by a press that cut into a pass of the
  client task and cleared by the next command or press alone on the button's
  switch; `SettledAgree` excludes only that switch and only then. `strayed` says
  that its last change was a stray press, which publishes nothing: the lamp
  agrees even then, the topic need not.
- `stale[s]` in `MatterSwitches` is set when app_main's unlocked read and
  writes, or a stray press, overlapped a command for `s`, and cleared by the
  next command clear of them or a press. `strayed` says that lamp and RAM state
  are one stray press apart from the attribute; `SettledAgree` has them differ
  exactly then.
- `late` in `Wifi`: `perform_wifi_scan` gave up on a scan that still runs; the
  scan then stops the access point and frees what the HTTP thread sends.
  `cut`: since a portal boot was cut short, no boot has run `wifi_connection`
  to its end. `AccessPointUp`, `SentListAllocated` and `CredentialsApplied` do
  not hold without these conditions: a late scan and a power cut do this harm.
- `failed` in `DnsServer`: a `recvfrom` has failed, whose path closes its
  descriptor twice and may take another task's: `OthersKeepSockets` says that no
  other path does.
- `unsaved` in `Lifecycle` and `refused` in `Provisioning` say that NVS refused
  a call in this boot; `torn`, that the last save wrote one key of two, because
  the power was cut or the second write refused. The code cannot notice either.
- `ReleasedSettles` assumes that from some point on the power stays on and no
  start of the stack fails, not that restarts end: `Restart` is a step of its
  own.

## 5. What is proved

Every safety and action property of the passing runs is a theorem, for every
value of the constants that satisfies the named assumptions of the module.
Each module of proofs follows one argument: an inductive invariant `Inv` (two
in the switch modules) holds initially, every action preserves it, and the
properties follow from it. The invariants were model-checked before they were
proved. `Typing` is `TypeOK` in each of them.

| Module | Theorems (property) |
|---|---|
| `MqttSwitchesProofs` | `Typing`, `Settled` (`SettledAgree`), `OneIsRight` (`NeverBothStale`) |
| `MatterSwitchesProofs` | `Typing`, `Settled` (`SettledAgree`), `PressFlips` (`PressFlipsAttribute`) |
| `LifecycleProofs` | `Typing`, `ButtonSwitches` (`ButtonSwitchesStack`) |
| `ProvisioningProofs` | `Typing`, `SaveBeforeRestart` (`RestartNeverTearsSave`), `Paired` (`CredentialsPaired`), `FilledBuffers` (`JunkOnlyRefused`), `TearDownSafe` (`SequentialTearDownSafe`), `PortalStaysClosed` (`NoWayBack`) |
| `WifiProofs` | `Typing`, `PortalOnAir` (`AccessPointUp`), `ListSentIsAllocated` (`SentListAllocated`), `RetriesSpentOffline` (`OfflineOnlySpent`), `StationHasCredentials` (`CredentialsApplied`) |
| `DnsReplyProofs` | lemmas `NameEndRange`, `ReplyShape` and those they rest on |
| `DnsServerProofs` | `Typing`, `QuestionInside` (`ReadsInside`), `EveryNameAnswered` (`AnswersA`), `RequestRepeated` (`ReplyEchoes`), `NoSocketLeaked` (`OneSocket`), `NoSocketTaken` (`OthersKeepSockets`) |
| `SoftI2cProofs` | `Typing`, `TransferCarriedOut` (`ImplementsTransfer`), `ReturnsIdle` (`BusIdleAtReturn`), `StartsAndStopsOnly` (`DataStable`) |

**Assumptions.** `MAX_SWITCH` is positive. A missing key and the junk of an
unfilled buffer are no networks, and `RetryMax` is a number. The DNS reply
buffer has room for a header, the largest name the parser lets through with
type and class, and one answer (161 of its 256 bytes); descriptors are
numbers, requests are byte strings as long as `recvfrom` may return. A byte of
the I2C master has at least two bits (an address and the direction), and the
address of the device fits. `Lifecycle` assumes nothing. The numbers of
connect tasks, networks, retries, descriptors, bytes of a buffer and bits of a
byte are otherwise free.

**Switches.** Neither `SettledAgree` is inductive: it says nothing of the
states between. For MQTT, `SettledInv` adds what is known while the handler is
at each of its steps, and that a blocked press implies `raced`; `BestInv`
follows the value that the handler carries (`val`) and the one the blocked
press carries (`bval`) through every step, to show that of the lamp and the
topic one is always going to be right. For Matter, `SettledInv` says which of
the three copies the CHIP task and app_main have already written, and what
app_main has read, at each of their steps, and that no command is under way
between the two writes of a press.

**Lifecycle.** `RunInv` relates mode, stack and flash between the flip and the
restart, `ChoiceInv` keeps the saved choice in flash until the boot it is for.

**Provisioning.** `ServerInv`: whoever is past the wait for the HTTP thread has
seen the server down and it does not come up again, so that no save is under
way when a task restarts the device. `PairInv` and `SavedInv` follow a form
into flash between the two writes of a save. `HandleInv`: while no two
tear-downs have overlapped there is one at most, and a handle is freed and not
yet NULL only between two steps of that one. `NoWayBack` is an action property
and follows from `Inv` for one step, from the two places that change the phase.

**Wifi.** `ActorsInv` says which of app_main, connect task, scan task and HTTP
thread can be under way together. `DriverInv` and `ListInv` hold as long as no
scan is late: the driver is in the state in which the next call of app_main
or the connect task needs it, and no list is freed that is sent. `LinkInv`
reads off the events still queued how the link got where it is; without it
`OfflineOnlySpent` is not inductive, as the flag lags behind the link.
`ModeInv` says that the driver remembers the portal's mode only during a
portal, or after one that was cut short.

**DNS.** `Walk` and `Passes` are recursive functions on the natural numbers.
That they exist, and what they compute for every request, needs induction over
data. The library's induction theorem cannot be instantiated here, so
`SetInduction` derives what is needed from the least element of a set of
numbers (`LeastNat`), which is itself proved. From it come `NameEndRange`
(wherever the labels lead, the pointer returned is inside the buffer with type
and class, or NULL) and `ReplyShape` (a reply has the length tested, is within
the buffer, and differs from the request only in the header and behind it).
`AnswersA` needs it once more, along the labels: the walk visits their lengths
one after the other and stops at the zero behind the last (`QueryNameEnd`), so
that the type and class read are those of the question. `SocketInv` relates `sock` to the descriptor table.

**Software I2C.** `Inv` says for each line of the `emulate_..` functions how
the bus is driven and how far the device has followed the bits (`StartInv`,
`WriteInv`, `ReadInv`, `StopInv`, `DeviceInv`), and for each part of the
transfer what the device has taken and offered (`BetweenInv`, `ByteInv`). The
refinement is proved step by step: `Begin` is `Begin`, the clock's fall after
the last bit of a written byte is the device taking it, its falls after an
acknowledged read address or read byte offer the next one, `ReadNext` gives a
byte to the caller, `Return` ends the call, and every other step stutters.

**Left to TLC.** Liveness under fairness: `PressGetsThrough` (both switch
modules), `ButtonSettles`, `LampCatchesUp`, `HeldPressAnswered`,
`ReleasedSettles`, `ConnectEndsInRestart` and `PortalOpens`. Their proofs would have to reason
about ENABLED, which the prover does not. The five violations are
counterexamples and need no proof.

## 6. Plan

The components of section 1 that the firmware runs are modelled, and their
safety is proved. What would add most from here:

1. The safety facts the liveness arguments rest on: at each place of each task,
   which step it can take, so that only fairness itself is left to TLC.
2. What the specification `I2cTransfer` means for a caller: "OK" says that the
   device took every byte and the caller has every byte offered.
3. What a held mode button can do at most. The other four violations are
   already bounded by a theorem: `mqtt_feed` by `OneIsRight`,
   `provisioning_dns` by `TearDownSafe`, `wifi_config` by
   `StationHasCredentials`, `dns_claims` by `EveryNameAnswered`.

## 7. Not modelled

- Static pages, logging, the identify callback, the OTA and console settings,
  and the creation of the Matter node (one sequence, before any concurrency).
- `mqtt_update_electrode_state`, `mqtt_get_electrode_state`,
  `get_wifi_connect_state`, `capt_get_active_state` and `nvs_manager_init` have
  no caller. `is_wifi_connected` is in `Wifi` all the same.
- **Touch keys.** Every call of `mpr121_init` and `start_touch_event_task` is
  commented out, and `mpr121_handle.cpp` defines `control_gpio_led` as
  `gpio_handle.cpp` does, so that it cannot be linked in as it stands: the file
  is no part of the program, and with it `clear_all_nvs` is without a caller.
- **Commissioning.** `app_event_cb` keeps no state: it asks the Matter SDK
  whether a fabric is left and a window open, and opens one. Both, and the
  window's timer, are the SDK's; a model would be of the SDK.
- `soft_i2c_master_del`, which returns two pins and some memory, and the timing
  of the lines.
- DNS rules other than the configured one, and the memory of the rules.
- The libraries below `main/` are modelled by section 2 only.

## Running

The five violating runs take the configuration named in section 4 in place of
the module's own.

    tlc -workers 2 -config MqttSwitches.cfg MqttSwitches
    tlc -workers 2 -config MatterSwitches.cfg MatterSwitches
    tlc -workers 2 -config Lifecycle.cfg Lifecycle
    tlc -workers 2 -config Provisioning.cfg MCProvisioning
    tlc -workers 2 -config Wifi.cfg Wifi
    tlc -workers 2 -config DnsServer.cfg MCDnsServer
    tlc -workers 2 -config SoftI2c.cfg MCSoftI2c

    for m in MqttSwitches MatterSwitches Lifecycle Provisioning Wifi \
             DnsReply DnsServer SoftI2c
    do tlapm ${m}Proofs.tla; done
