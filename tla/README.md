# Sensorless fan drive: TLA+ models, checks and proofs

This directory is a verification development of `Software/bldc_sensorless`, the
ESP32-S3 firmware of a fan with a sensorless brushless motor. It holds TLA+
modules translated from the C source, TLC configurations, and TLAPS proofs: of
the motor application, and of the services around it that carry its commands,
reports, updates and diagnostics.
File names below are relative to `Software/bldc_sensorless/`, and a reference
like `hal_bldc.c:587` is to `main/hal/hal_bldc.c`. `PROJECT.json` maps every
definition to its lines.

## 1. The system

### 1.1 The motor application (`main/`)

| part | state | operations | who runs it |
|---|---|---|---|
| motor state machine (`hal_bldc_main_loop`, `bldc_main_loop_cb`) | `motorParameter`, `simpleOpen` | stop branch; case 0 start-up; case 1 delay and back-EMF; case 2 next forced phase; case 3 sensorless; give the PID semaphore | timer interrupt, every 50 us |
| half bridges (`hal_UphaseH_VphaseL` ... `hal_bldc_stop`, six-step switch, `ccwArray`, `cwArray`) | three PWM duties, three low-side gates, `nextPhaseCount` | six steps, stop | interrupt |
| back-EMF code (`hal_bldc_sensor_less_operation`) | `hallLessParameter`: sample windows, filtered states, edge detector, `speedCount`, `zeroStableFlag`, `filterFailedCount`, `edgeFlag`, `filterDelay`, `filterCount` | sample, filter, time an edge, measure the speed, stall check, delayed commutation | interrupt |
| open-loop ramp (`hal_bldc_change_voltage`, cases 0 to 2) | `nextPhaseTime`, `voltageChangeCount`, `delayCount` | shorten the phase, choose the duty | interrupt |
| `app_task` | `lock_count` | count the cool-down after a stall, restart, refresh `speedPid.SetPoint` | task, every 10 ms |
| `app_pid_task`, `app_pid_operation` | `speedPid` | take the semaphore, integrate, store `pwmDuty` | task, woken by the interrupt |
| button | none | toggle `isStart` | timer task of the button library |
| RainMaker glue (`app_rmaker_write_cb`) | `rmakerParameter` | power, speed, natural wind, each with its report | MQTT task, local-control server |
| natural wind (`app_generate_noisy_speed`) | `change_count` | a speed between 300 and 800 | `app_task` |
| start-up (`app_main`) | all of the above | initialise, start the timer, create semaphore and tasks | main task |

They interact through shared memory alone, without a lock or a critical
section: `isStart` is written by the interrupt (a stall), `app_task` (the
restart), the button and the cloud; `runStep` by the interrupt and `app_task`;
`pwmDuty` by the interrupt and `app_pid_task`; `SetPoint` and `Ui` by the
interrupt's stop branch and a task each. The only synchronisation is the binary
semaphore from the interrupt to `app_pid_task`. The chip has two cores and the
tasks are not pinned, so the interrupt does not stop them.

### 1.2 The services (`components/`, `common/app_wifi`)

| part | state | operations | who runs it |
|---|---|---|---|
| agent (`esp_rmaker_core.c`) | state, event group | connect, wait for network and MQTT, wait for a mapping, make the parameters ready | work queue, event loop |
| user mapping (`esp_rmaker_user_mapping.c`) | `rmaker_user_mapping_data`, user id in NVS | start, send, acknowledge, reset | phone's endpoint, console, work queue, event loop |
| parameters (`esp_rmaker_param.c`) | value, changed flags, one static buffer | write callback, update, report, first report | MQTT task, local-control server, work queue |
| MQTT client and budget (`esp_rmaker_mqtt.c`, `esp_rmaker_mqtt_budget.c`) | `mqtt_budget` | check, publish, decrement, revive | publishers, timer task |
| MQTT glue (`esp-mqtt-glue.c`) | table of subscriptions, the long message under way | subscribe, unsubscribe, subscribe again, put a message together | work queue, event loop, MQTT task |
| work queue (`work_queue.c`) | `queue_state`, queue, task | init, start, stop, deinit, add, serve | any, its own task |
| provisioning (`app_wifi.c`) | event group, retries, time-out timer | start and wait, count failures, reset, time out | main task, event loop, timer task |
| local control (`esp_rmaker_local_ctrl.c`) | `wait_for_wifi_prov`, `g_serv_name` | start, now or after provisioning | work queue, event loop |
| claiming (`esp_rmaker_claim.c`) | key, node id and certificate in NVS, `claim_data` | make the key, ask for the certificate, or be asked by the phone | main task, work queue, phone's endpoint |
| OTA (`esp_rmaker_ota*.c`) | job id and flag in NVS, images, timers | offer, download, reboot, verify, roll back, delay, report | MQTT task, work queue, event loop, timer task, boot loader |
| schedules (`esp_schedule.c`, `esp_rmaker_schedule.c`) | next time, mask of days, timer | add, edit, enable, disable, remove, trigger, synchronise | MQTT task, timer task, work queue |
| Insights (`esp_insights.c` and its encoder) | message under way, what was read, time-out timer | boot message, periodic pass, acknowledge, time out | work queue, event loop, timer task |
| RTC store (`rtc_store.c`) | two rings and meta headers in memory that survives a reset | write in chunks, commit, read, release | any task, reset |

`app_rmaker.c` and `sdkconfig.defaults` enable the agent, parameters, mapping,
work queue, MQTT, provisioning and local control. OTA, schedules and Insights
are built but not started by this application; the models take them as started.
Self claiming is the target's default.

They interact by events on the default event loop, by functions handed to the
work queue, and by calls into one another's unlocked state. The motor
application meets them in `app_rmaker_write_cb` (module `Fan`), and in
`app_main`, which waits for the network before it starts the motor's timer.

### 1.3 What is hard in them

- A tick of the interrupt chooses its branch by one read of `isStart` and its
  case by one read of `runStep`; stores of the others between those reads and
  the tick's own stores are lost or survive into the wrong run.
- The stall check stops the bridge in the middle of a tick that then goes on.
- A restart after a stall is three stores, and must neither come early nor
  override a user who stopped the motor. It also meets a motor that the user has
  started again meanwhile, whose ramp it begins anew on the same stall count.
- Filter windows, crossing counts, `edgeFlag`, the filter of the speed and
  static counters outlive a stop; what a new run may rely on is subtle.
- Six registers of the bridge are written one after another.
- The stall count is a `uint16_t`, and the samples that count towards it are
  not all compared with the limit.
- The stall limit races a ramp that takes almost as long.
- Commands arrive before `app_variable_init`, and reports of two of them cross.
- Parameters, the work queue's state word, the table of subscriptions and a
  schedule's record are changed by several tasks without a lock; a budget is
  checked and spent under two holds of its lock, and passes whoever misses it.
- Acknowledgements carry a number only, come late, or belong to somebody else.
- Resets come between any two steps: of a ring's write, of a mapping, of an
  update with its verification.
- Waits without a time-out (`app_main` for the network, the agent for a
  mapping, local control for the end of provisioning) rest on one event that
  must not be missed.
- Dates carry from day to month to year, windows cross midnight, a timer's
  period wraps in 32 bits.

`PROJECT.json` lists these and others as hazards, each at its line, with the
property that covers it or the reason none does.

### 1.4 What makes each part correct

| part | property |
|---|---|
| state machine | drives only in a tick that saw START; a STOP reaches the bridge; the hand-over rests on crossings of this run; the ramp carries its own duty |
| stall and restart | started again from case 0 unless the user stops the motor, never early, never against a user's STOP |
| bridges | no half bridge with both switches on in an orderly run; a bridge function leaves exactly its step; open and closed loop turn the same way |
| back-EMF code | acts only on codes the rotor shows; skips none while the rotor turns; notices a stall |
| ramp | is completed before a start is given up |
| speed loop | a start begins with a reset controller; the user's speed arrives; the controller keeps driving |
| fan and phone | the phone shows what the fan does |
| parameters, budget | the cloud ends up with the value; no more is published than granted, with the lock |
| glue | after a reconnection the broker knows every subscription; a callback gets one message, all of it |
| work queue | the queue outlives the task; what was accepted is called, a stop ends the task |
| agent, mapping | the user on the device is the cloud's; the parameters become ready |
| provisioning, local control | `app_main` goes on; local control waits for the end of provisioning and then starts |
| claiming | certificate, key and node id that are kept fit together; the agent goes on |
| OTA | success is told only of the image that runs; a delayed download wakes in its window |
| schedules | the timer is set for the earliest instant named; an enabled schedule is armed; a single one ends |
| RTC store, Insights | the store is a queue across resets; nothing leaves it before it was delivered |

### 1.5 The rest of the tree

`components/` is vendored, and most of its lines are text conversion (CBOR,
JSON, QR code), configuration, headers and wrappers without state, which is why
the map covers a small share of the tree although the parts above are modelled
operation by operation. `Hardware` and `Doc` hold no code.

## 2. Modules

Constants carry assumptions where they are declared. Each module's variables
have the names of the source, with three contractions: `lock`, `failed`
(`filterFailedCount`) and `volts` (`voltageChangeCount`, in `BldcMotor`).

| module | models | granularity |
|---|---|---|
| `DriveGate` | what the drive promises, abstractly | a promise per step |
| `BldcMotor` | interrupt, `app_task`, `app_pid_task`, button, cloud over the shared state | one access that another context could notice |
| `BldcMotorWatch` | `BldcMotor` with history variables | the same |
| `Commutation` | bridge functions and tables | one register write |
| `ZeroCross` | the back-EMF code, with a rotor and noise | one tick |
| `StartRamp` | the ramp with the firmware's numbers | one tick |
| `SpeedLoop` | measurement, controller, set point | a tick, or a read or a store of a task |
| `RtcFifo` | what the RTC store promises, abstractly | a record in, bytes out |
| `RtcStore` | `rtc_store.c` | a chunk of a write, its commit |
| `Insights` | `esp_insights.c` over the store's promise | a hold of `data_lock`, or a call |
| `ParamReport` | `esp_rmaker_param.c` and the budget | a read or a store of shared state |
| `MqttGlue` | `esp-mqtt-glue.c` with client and broker | a request, a store to the table, a slot |
| `WorkQueue` | `work_queue.c` | a test, an act, a step of the task |
| `Agent` | `esp_rmaker_core.c`, `esp_rmaker_user_mapping.c` with the cloud | a handler or a call up to its wait |
| `ScheduleDates` | the calendar of `esp_schedule.c` | one firing of the timer |
| `Schedule` | the life of a schedule | a test, an act, a command |
| `Ota` | OTA over topics, boot loader, cloud | a store to flash or of a message |
| `AppWifi` | `app_wifi.c` with phone and access point | an event handled |
| `LocalCtrl` | the start of local control | a test or a store of the flag and the name |
| `Claim` | `esp_rmaker_claim.c` with the phone and the service | a handler, a call up to its wait |
| `Fan` | `app_main`'s order and `app_rmaker_write_cb` | a store to `isStart`, a report |
| `Services` | the thirteen services side by side | |
| `*Proofs` | theorems about the module they are named for; `RmakerProofs` about `ParamReport`, `WorkQueue`, `Agent`, `MqttGlue`, `LocalCtrl` and `Claim`; `DeviceProofs` about `Fan`, `Ota`, `Schedule`, `ScheduleDates`, `AppWifi`, `RtcStore` and `Insights`; `ServicesProofs` about `Services`, from the two before | |

The modules split the same program by question, so state appears in several of
them: `BldcMotor` has all interleavings and leaves data out; `ZeroCross`,
`StartRamp` and `Commutation` look inside code that only the interrupt runs,
and `SpeedLoop` inside the controller. What one leaves open is a
nondeterministic choice that covers what the other computes: `BldcMotor`'s
sampling outcome (`Unstable`, `RisingEdge`, `FallingEdge`, `Steady`, `Stall`)
and its zero-crossing block, `ZeroCross`'s end of a forced phase
(`NoHandOver`), `StartRamp`'s edges (`EarlyTicks`), `SpeedLoop`'s hand-over.

### 2.1 `BldcMotor` and `DriveGate`

`isr` is the place of the interrupt in its tick: `IsrEnter` reads `isStart`;
`IsrStop` is the else branch; `Dispatch` reads `runStep`; `Startup` and
`StartupPhase` are case 0 (its duty is stored, and read back by the
commutation, so a PID store may come between); `Delay` is case 1 up to the
back-EMF call; `NextDuty` and `ForcePhase` are case 2; the sampling actions and
`ZeroCross` are the back-EMF function; `GivePid` ends the callback. `PidTake`
and `PidStore` are `app_pid_task`, `AppPass`, `AppRestart`, `AppUnlock`,
`AppRearm` the lock's part of `app_task`, the last three being its three stores.
`ButtonLoad` and `ButtonStore` are the click. A duty is abstracted to who
computed it; `bridge` is what the hardware carries, which changes only when a
commutation copies `pwmDuty` or a stop opens the switches.

`DriveGate` says what a user of the drive may rely on: it is live only in a
tick that saw power on, a tick that saw power off cuts it, only a trip raises
the fault, and only under a fault does it switch itself on. Its `by` tells whose
decision the last change of power was: `Command` is the user's at any time, a
START of the drive's own is a step of `Retry` alone, which needs the fault. The
refinement mapping is `GatePlace` (the place of the interrupt), `Live` (a
non-zero duty on the bridge), `lock = 1` for the fault and the history variable
`by` of `BldcMotor`, which the stores of the cloud and the button set to `user`
and those of a stall and a restart to `drive`.

`BldcMotorWatch` adds history: falling edges of this start, whether the speed
was measured in it, whether a PID result was under way when it began, whether a
user's STOP must hold, passes since a stall.

### 2.2 `Commutation`

A bridge function is a goal and the number `k` of its next write. The forced
steps follow `nextPhaseCount`, the Hall steps the tables; the caller is whoever
the firmware's order of calls allows, including the stall stop in the middle of
a run and the restart of a motor that runs. `cause` and `rearmed` record why a
step was called.

### 2.3 `ZeroCross`

A tick samples three comparators, shifts three windows (kept as newest bit and
length of its agreeing suffix, which is all that the comparison with all zeros
and all ones asks), settles the lines up to the first mixed one, times the
edges of phase 0, counts stable crossings, checks for a stall and commutates.
The environment is a rotor that turns clockwise at `MinDwell` to `MaxDwell`
ticks per code, may stick until the drive is stopped, and coasts by one of
`Coast` codes after a stop; and one comparator at a time, among `Glitches`,
that lies for fewer than a window of consecutive samples.

### 2.4 `StartRamp`

Cases 0 to 2 with the phase times, the duty table and the stall count.
`EarlyTicks` says at which delays of a phase an edge may reset the stall count.
After a stall `app_task` has `CoolDown` ticks for its two stores, `Restart`
(`isStart = START`) and `Rearm` (`runStep = 0`). They do not look at what the
user did meanwhile: a motor that the user has started within the cool-down is in
the middle of its ramp, and begins it again on a stall count that goes on. The
ramp has to fit into what that count leaves it, so the cool-down is part of
`RampFits`.

### 2.5 `SpeedLoop`

A tick is one action. `PidTake` reads set point, speed and integral,
`PidIntegrate` stores the integral, `PidDrive` the duty. `AppCheck` tests
`runStep` and `isStart`, `AppRefresh` stores `SetPoint` some time later.
A reading of the speed is any member of `Readings`.

### 2.6 `RtcStore`, `RtcFifo`, `Insights`

A write puts the index of the boot, a header in the non-critical ring, and the
data behind the filled part, each in up to two parts, and commits with one
store of `filled`; a reset keeps the rings and forgets the write. `RtcFifo` is
a queue of bytes per ring, which whole records enter and whose bytes leave in
order; the mapping takes the filled part of the ring from its offset.
`Insights` uses that queue. A pass of the periodic handler reads under the
lock, publishes, and records the message's number under the lock again; an
acknowledgement or a time-out may come between. `insLost` says that a record
left the ring before a message with it was acknowledged.

### 2.7 `ParamReport`, `MqttGlue`

One parameter stands for all. `rptPc` is the place of a caller in update and
report: value, flag, the test of the agent's state, JSON into the static buffer,
reset of the flags, test of the budget, publication, decrement. `rptClash` says
that one of two windows was hit, `rptDropped` that a report was not published:
the budget was spent, or the client's publish failed. Either comes after the
flags were reset, and nobody tries again. Each use of the budget may miss its
lock, which could not be made or is not to be had in 500 ms: the code then lets
the publication pass, or does not pay for it, or does not revive the budget.
`rptMisses` counts these, and `RptBudgetBound` allows one message for each.

`MqttGlue` has the table of subscriptions with the agent's calls in their two
halves (request, entry), the resubscription slot by slot, and the buffer of a
long message. Two tasks call it without a lock: the event loop subscribes to the
parameters, the work queue unsubscribes from and subscribes to the OTA topic. A
caller that finds the slot the other one works on is `GluSharing`: one entry may
then overwrite the other, and `gluExcused` names the topics of both, as it names
those that lost the race with a lost connection. The client believes in a
connection until it notices that it is lost. Topics are no prefixes of one
another (an unsubscription matches by prefix), and sessions are clean, as the
build has it. That an entry may be freed while the MQTT task reads it is not
modelled.

### 2.8 `WorkQueue`, `Agent`

Every call of the work queue tests the state word and acts on it in two steps;
`wqRaced` says that one acted between another's two. `Agent` follows a boot
from the connection to the first parameters: the agent's task and the mapping's
function run one after the other on the work queue, events on the loop, and the
cloud answers in order. The user id survives a restart.

### 2.9 `ScheduleDates`, `Schedule`

`ScheduleDates` is the arithmetic: masks are sets, an instant a number of
slots, and `DatNext` is what `esp_schedule_get_next_schedule_time_diff`
computes, with its carries. The timer goes from due instant to due instant, and
a property compares each with a reference definition, the least instant that
matches. `Schedule` has the life of one schedule: commands, the timer task with
its test and restart of the timer, the trigger on the work queue, time
synchronisation, restarts; NVS is off. The two tests of expiry, that of the timer
task and that of the work queue, are made at different moments; for a date
schedule with months and a final year (`date_until`) both compare strictly, so
that at its last instant it is not over and is due once more after it, and if the
second turns between them the work queue leaves enabled what the timer task does
not start again (`turned`). The timer's period is computed in 32 bits: one
further away than `SchWrap` runs out a multiple of `SchWrap` early. And a
callback that has passed its test starts the timer again although the work queue
or a command has disabled the schedule meanwhile (`schRearmed`). The properties
say what holds with all of these, and name what they leave out.

### 2.10 `Ota`, `AppWifi`, `LocalCtrl`, `Fan`

`Ota` names an image by its job. Flash, boot choice and NVS survive a reset; the
boot loader rolls back an image that is still pending. `AppWifi` is the wait of
`app_main` against the event handler's retries and reset. `LocalCtrl` is the
agent's test of `wait_for_wifi_prov` and its store of the name against the
handler of the provisioning events; the manager's end leads to its release.
`Fan` begins in the first line of `app_main`: commands come as soon as RainMaker
runs, the motor is reduced to what it does to `isStart`, and `fanShows` is what
the phone was last told. `fanExcused` names the parameters for which the phone
may be wrong, with the step that made it so.

### 2.11 `Claim`

The build claims by itself, over HTTP once it is connected, or assisted by the
phone, over the provisioning transport before it is. `Claim` has both. A
kept key that does not parse is replaced by a new one; a certificate is the key
and the node id that its request named; a request or an
answer is a sequence of `ClmParts` fragments. The phone sends start, init and
verify in order, and may drop a session anywhere and begin another, which finds
what the last one left in `claim_data`; the chip may restart anywhere, which
leaves what was kept in NVS. `clmLost` says that keeping or taking over the
last node id failed, which the code does not look at, `clmEarly` that the
dialogue was over before the agent made the group it waits on.

### 2.12 `Services`

The services share no variable and no property speaks of two of them, so that
`Services` checks them in one run: `part`, chosen in the initial state, says
which of them takes steps, and the others rest. The run explores the sum of the
state spaces and not their product. It is no composition: what one service
needs of another is inside its module (`Insights` over the store's promise,
`ParamReport` with its budget, `Fan` with what the motor does to `isStart`).

## 3. Runs

| run | instance | shows |
|---|---|---|
| `motor` | `BldcMotorWatch.cfg` | `HandoverEarned`, `RampNotPid`, `StopHolds`, `CoolDown`, and `GateSpec`: `BldcMotor` implements `DriveGate`, over 3.3 million states |
| `motor_live` | `BldcMotorLive.cfg` | under fairness `StallIsRetried` and `StopReachesBridge` |
| `bridge` | `Commutation.cfg`, in the firmware's direction | no shoot-through but in a jump, no jump in an orderly run, both tables turn alike |
| `zero_cross` | clean comparators, varying speed, a rotor that may stick, restarts, fairness | `FollowsRotor`: no code skipped; `StuckStops` |
| `zero_cross_glitch` | a glitching comparator | `CommutatesShownCode`, `StallNotMissed` |
| `ramp` | 900, 180, 15000, 2047, with a cool-down of 2200 ticks | `ShortestBeforeStall`, restarts within the cool-down included |
| `speed` | small gains and speeds, fairness | `CleanStart`, `SetPointFollows`, `ControllerEngages` |
| `services` | `Services.cfg`, about 470 000 states | the table below |
| `motor_pid_wait`, `zero_cross_turns`, `speed_low`, `ota_flag` | counterexamples | section 6 |

| part of `services` | shows |
|---|---|
| `store` | `RtcFifoSpec`: `RtcStore` implements `RtcFifo` across resets |
| `insights` | `InsLostOnlyByRace`: telemetry is lost only when an acknowledgement comes between a pass's read and its record |
| `params` | `RptStaleOnlyByClash`: at rest the cloud has the value, but after a named clash, a refusal or a failed publication; `RptBudgetBound`: what is published was granted, but for the uses of the budget without its lock |
| `glue` | `GluResubscribed`, unless one of two races is hit; `GluWholeMessages` |
| `queue` | `WqQueueOutlivesTask`; with fairness `WqTaskServes`; both unless two calls act on the state word at once |
| `agent` | `AgtKnownUser`; with fairness `AgtParamsFollow` |
| `dates` | `DatNextIsEarliest` |
| `schedule` | `SchEnabledArmed`, unless a trigger was lost or the second turned between its two tests; `SchOnceThenOff`: disabled and the timer stopped, or started again by its own callback |
| `ota` | `OtaSuccessIsTrue`, `OtaWakesInWindow` |
| `wifi` | with fairness `WifiMainGoesOn` |
| `local` | `LocServesAlone`; with fairness `LocServes`, unless the end of provisioning is handled between the agent's test and its store |
| `fan` | `FanShownIsTrue`: the phone shows what the fan does, but in the cases it names |
| `claim` | `ClmCredentialsFit`, unless keeping the node id failed; with fairness `ClmGoesOn`, unless the dialogue was over before the agent waited |

### 3.1 Bounds, and why they are enough

- `BldcMotor`: `StallLimit = 1`, `CountMod = 3`, so that the count reaches the
  limit, passes it in mixed samples and wraps. `ZeroStable = 2` has a state with
  some but not enough crossings; `LockPasses = 2` has a pass that counts and one
  that restarts; `PhaseTicks = 1` makes each case 1 end its phase, the longer
  phases only repeat it; `RampSteps = 1` has a forced phase with and one
  without a duty of its own. The liveness run takes 1 for `ZeroStable` and 0 for `RampSteps`. The safety
  properties are proved for every value.
- `volts` stops at `RampSteps + 1` (the code only compares it), `speedCount` at
  `SpeedCap` and `voltageChangeCount` at `VoltsCap`. Below `SpeedCap` lies every
  delay that matters: a rotor that turns shows phase 0 an edge every three
  codes, at most 3 * `MaxDwell` = 12 ticks.
- `ZeroCross`: windows of 2 samples already have mixed and uniform ones that
  fill at different times. A glitch is then one sample long. `MinDwell >
  FilterLen` is the assumption that a code lasts longer than a window
  (16 samples are 0.8 ms). `DelayDiv` is smaller than the firmware's 10 in the
  runs with short codes, so that delays above zero occur: with 3 to 4
  ticks per code and a divisor of 7 a half turn gives a delay of 1. A delay that
  outlasts a code skips codes, which the mutant of `FollowsRotor` shows.
- A stuck rotor's time on its code is not counted, so that it has one state.
- `ZeroStable > 1` in the runs on the code's commutations: the windows and the
  edge detector survive a stop, so the first crossing of a run may be a relic
  of the last. The firmware's 4 tolerates it. A stopped rotor coasts by half a turn,
  so that the relics contradict what it shows next.
- `StartRamp` uses the firmware's numbers. `EarlyTicks = {1}` lets an edge come
  in any phase, once, near its beginning; an edge only ever delays the stall.
  A cool-down is ten passes of `app_task`, between 1800 and 2000 ticks from the stall
  if the task is on time; `CoolDown = 2200` leaves it a pass of slack. Commands
  of a cool-down come in its ticks 1, 2 and 1000 and the task's stores in 1800 and
  2200: a ramp that was begun at once, or half way, and begins again as late as
  it can. The theorem holds for every choice of ticks.
- `SpeedLoop`: the numbers keep the order of the real ones (`MinDuty <=
  OutMax <= MaxDuty`), and a reading between two set points drives the
  integral to both limits.

- `Commutation` has `Dir` as the firmware sets it; its theorems hold for both.

- `RtcStore`: rings of 4 and 5 bytes for records of 3 and 4 (index, header, data):
  one record fits, released bytes make room for the next, which wraps at every
  place a record can. Two meta headers are the least that alternate.
- `Insights`: one record of room and of read buffer and two records made: a full
  store, a message of one record, and a second one behind it.
- `ParamReport`: two callers and the first report, with a budget of at most one
  that begins spent (`RptBudget = 0`, so that refusals come first) and is granted
  twice (`RptMaxGranted`); `RptMaxUpdates = 3` is for updates and uses of the
  budget without its lock together: three updates let one overtake a report
  and another follow it, or fewer of them meet a lock that is missed.
- `Claim`: two fragments, two ids and two sessions per boot, so that a session meets
  the half-done work of another, and two restarts.
- `MqttGlue`: a topic of each caller in two slots, three calls (subscribe, unsubscribe
  and subscribe again, or two side by side and a third), one lost connection, two messages of up to two parts: a
  message cut off and a whole one behind it.
- `WorkQueue`: two contexts and two tasks for the races of start, stop and
  deinit; a queue of two that fills up.
- `Agent`: two users, two mappings, one restart: a mapping replaced by another
  and one cut off. `Ota`: two jobs, resets and messages each.
- `ScheduleDates`: a day of 2 slots, a month of 2 days and all 12 months, 7 days
  of a week and 2 years; single masks, pairs and full masks. Months of unequal
  length are `mktime`'s business.
- `Schedule`: a delay of 2, shorter than the period of 3, and a clock up to 6: two
  due times, of which `SchLast = 3` is the last of a date schedule with a final
  year; a wrap of 3, which a due time a whole period away reaches.
- `AppWifi`: one try more than failures that reset the provisioning.
- `LocalCtrl` has no bounds: provisioning happens once per boot.

Deadlock is checked in every run but `services` and `ota_flag`, whose bounded
commands, messages and restarts run out.

### 3.2 Fairness

- `WF(Isr)`: the timer has auto-reload and its callback has no loop that waits.
  `WF(Tick)` in `ZeroCross` and `WF(StopTick \/ Startup \/ RunTick)` in
  `SpeedLoop` are the same assumption. There it is confined to the branches
  that the program alone decides: that a rotor is caught (`OpenLoop`'s
  hand-over) or lost (`Stall`) is nowhere assumed.
- `WF(AppTask)`: an endless loop with a delay, priority 4. `WF(PidTask)`: an
  endless loop on the semaphore, priority 5; it must run between ticks for the
  rest of the program to run, and the firmware relies on a core with time left.
- Commands have no fairness: a user may never act.
- `StallIsRetried` and `StopReachesBridge` need no fairness of user or rotor: the
  restart does not wait for the motor, and the stop branch is the next tick. A
  user who stops the motor for good once the lock is gone is the exception that
  `StallIsRetried` names; a STOP within the cool-down does not prevent the restart.
- `StuckStops` holds because a stuck rotor's windows become uniform after
  `FilterLen` samples and the count then runs out; it has no glitches, since a
  comparator that glitches for ever hides a stall for ever.

- `Services`: `WqFair` (the queue's task runs, and the functions it is given
  return), `AgtFair` (work queue, event loop; the cloud answers), `WifiFair`
  (main task, event loop; the phone has another try, the access point answers
  or is lost), `LocFair` (work queue, event loop; the provisioning manager
  ends, by success or its time-out) and `ClmFair` (main task, work queue, the
  endpoint's handler; the phone begins and goes on with a session), each for its
  own part. Tasks and event loop
  are endless loops over a queue with a priority above idle. The answers of
  cloud, phone and access point are assumptions: the code waits for them
  without a time-out. Callers, resets and lost connections have no fairness.

## 4. What is proved

TLAPS proves the following for every value of the constants that satisfies the
modules' assumptions.

| theorem | argument |
|---|---|
| `TypeCorrect` | `WatchTypeOK` is inductive. Its one unusual conjunct is `Clamped`: the crossing count is above its threshold only inside the block that clamps it |
| `HandoverIsEarned` | `HandoverEarned` is not inductive. `CrossingsAgree` ties the code's count, which may run past the threshold and survive a stop, to the edges of this start, and `BlockEarned` carries the threshold into the zero-crossing block |
| `StopIsHeld` | A STOP holds because with `lock = 0` and no tick that may still run the stall check (`StallAhead`) nobody but the user can store START; all three stay true together |
| `CoolDownKept` | While the lock stands and the user stays out of it, `lockCount` is the passes since the stall. That needs the motor to stay stopped, for a second stall would find the count half way |
| `RampIsKept` | A forced phase and the places that can lead to one exclude a PID result in flight, unless it was there at the start |
| `MotorImplementsGate` | Every step of `BldcMotor` maps to a step of `DriveGate` or to a stutter; the only invariant needed is that `runStep` is in `0..3`: a restart finds the lock it tests, and a START that is not a command's is mapped to `Retry` |
| `OnlyJumpsShoot`, `AlwaysSettles`, `BridgeTypes` | `RegInv` says which registers are new, by the number of writes done, and which still hold the previous step |
| `OneRotation` | The next code's entry of the Hall table is the forced step after this code's; in Hall mode the bridge carries the last code's entry, or a stall has opened it |
| `OrderlyRuns` | The tables never ground a phase that their next entry drives, and an orderly run walks them entry by entry |
| `RampOutlastsStall` | A potential: a phase of `t` ticks is followed by one `t \div 15 + 1` shorter, so all phases before one of `t` ticks cost at most `15 * (FirstPhase - t)`. Assumption `RampFits` says that with one more first phase and a cool-down this is within the stall limit: 2200 + 15 * 720 + 900 = 13900 <= 15000. The cool-down bounds what the count has before app_task begins the ramp again: `failed` is at most `cool` while the restart is pending (`Cooling`), and at most `CoolDown` plus the potential after it |
| `StallIsNotMissed` | Inductive as stated: a count beyond the limit is made only by a mixed sample, and a uniform one resets it |
| `StartsAreClean` | A motor put to rest by the stop branch, with nothing owed by a task, has its controller reset and both tasks asleep, until it is sensorless again |
| `RampTypes`, `SensorTypes`, `ControllerRanges` | The types of `StartRamp`, `ZeroCross` and `SpeedLoop` are inductive, for every window, threshold, gain and limit |
| `PhoneShowsFan` | `Agrees`: without an excuse, every report under way for a parameter brings the value the fan has, and without a report the phone shows it; overlapping stores excuse the parameter as they happen |
| `SuccessIsTrue` | Success is told of the id in NVS. `Owned` follows that id: it is the update's while one is under way, the next image's until its boot, and the running image's until it is verified, because in progress no message replaces it |
| `QueueOutlivesTask` | Without a race, what a call found in its test still holds when it acts (`Found`), and a task exists only while the state says so or the call that makes it is on its way (`Manned`) |
| `StaleOnlyByClash` | The cloud has the value, or an update has still to be flagged or written (`Mends`), or the buffer of a report under way has it (`Reaches`, `Fresh`, `Spares`); a failed publication ends both and is excused |
| `BudgetIsKept` | A potential (`Paced`): every unit spent pays for at most one message of each context, and at zero only those past their test can still publish; a use without the lock adds one to the bound and one to what is published at most |
| `UserIsKnown` | Messages reach the cloud in order (`NetOrder`), so that the acknowledgement of the last one (`Handled`) leaves nothing on the wire that could change the mapping; NVS is erased before a mapping is sent and written only on that acknowledgement (`Known`) |
| `ServesAlone` | Until the manager has ended, its state says which events are on the loop; once the station has joined, the start has been handled and the flag stands, so that an agent who asks finds it |
| `MessagesAreWhole` | `Collected`: after the first part of a message the buffer, if there is one, holds that message's parts up to the next; a part without a topic never begins one |
| `CredentialsFit` | `Keyed`: whoever asks has no certificate yet and uses the key that is kept; `AsksItself` and `AsksPhone` follow key and node id through request, phone and answer; `Named` says that the node's name is the next boot's, or its loss was not noticed |
| `SubscribedAgain` | `HeldFits`: a topic that was reported good is in the table, and the broker will know it once it has taken every request on the wire (`WillKnow`), or the resubscription comes to its slot yet (`Comes`). `CallFits` says what a call between its request and its entry still finds: without the excuse its slot is free and the other caller works on another. The races the property names are the only ways out |
| `WakesInWindow` | Inductive as stated. `WakesInside` is the arithmetic: a minute of the day, moved by the wait modulo the day, lies in a window that may cross midnight |
| `EnabledIsArmed`, `OnceIsThenOff` | `LifeInv`: an enabled schedule is `Armed`, or its timer has `Fired` and the callback or the trigger is under way (`ArmedOrFired`), and the timer runs out at the due time or whole turns of 32 bits before (`Timely`); a trigger under way of a schedule that does not repeat is that of a due time that has passed (`OnceThenOff`), and an action after the last instant of a date schedule finds it over (`UntilThenOff`), so that acting on it disables the schedule; a disabled one has its timer stopped but for its own callback (`StopsTimer`), and that of a day of the week ends at its test (`DayStaysOff`) |
| `NextIsEarliest` | An instant is its month, day and slot (`Fields`, `AtFields`), ordered in that order (`AtOrder`), which rests on what division and remainder say of products. The instants a schedule names are then the months or days it names (`DueDates`, `DueDays`), and `FirstMonth` and `FirstDay` go through the branches of `esp_schedule_get_next_month` and `esp_schedule_get_no_of_days`: each takes the first to come |
| `LostOnlyByRace` | Every message has a number of its own (`Numbered`). Without the race, what a pass has read is still at the front of the ring when it records the message (`TakenIsFront`), the message carries it (`SentIsTaken`), and it is there until that message is acknowledged (`RecordedIsFront`) |
| `StoreIsFifo` | Every step of `RtcStore` is one of `RtcFifo` or a stutter. The mapping takes the filled part of a ring around its end; `WrittenIsBehind` says that the chunks of a record not yet committed lie right behind it, and `RecordFits` that they do not reach its front, so that a commit appends the record and a release drops a prefix |
| `ReporterUsesQueues` | Every step of `Insights` on the rings is one of `RtcFifo` or a stutter, record by record: what a pass takes and what an acknowledgement drops are a prefix of what was written |
| `EachRunsAlone`, `ServicesSafe`, `ServicesKeepQueues`, `ServicesTypes` | No service writes a variable of another, so a run of `Services` is a run of each service. The invariants above, the queues of the RTC store and the types of all services, each with what its own inductive invariant adds, then hold of the services side by side, which is what `Services.cfg` checks |
| `FilterRests`, `SpeedIsMixed` | What division says of a weighted mean: the filter's result lies between memory and reading (`FilterIsBetween`), and is the memory again only if the new weight does not lift it by one. With 9 and 1 of 10 the measured speed rests up to nine rpm below the true one and never above. The memory survives a stall and a stop, so the first speeds of a start are mixed with the last run's, but no speed is further from the rotor's than that |
| `ShownCodeOnly` | `ShownInv`: there is a place where the rotor was at the last sample without a glitch, a window whose newest samples agree for longer than the comparator has been wrong shows that place's bit, and the rotor has moved two codes at most since (`Seen`); until a run has seen such a sample only a window it found half full can give it a crossing, and only one (`Early`). Hypothesis `ZeroStable > 1`: with 1, TLC finds a commutation on a relic of the run before; the firmware has 4 (`hal_bldc.c:603`) |
| `RotorIsFollowed` | `FollowInv`: the delay under way ends before the rotor leaves its code (`Timely`); the code commutated last is the rotor's, or the one before while its delay runs (`Answers`), and the windows settle on the rotor's code (`Following`). Hypotheses: no comparator glitches, since one that does can hide a code, and `DelayFits`, the longest delay of a count up to `SpeedCap` and a window fit into the shortest code: at an even speed of `d` ticks per code the firmware's numbers ask for `3 * d \div 10 + 16 <= d + 1`, so `d >= 21`. `ZeroCross.cfg` satisfies both, and its mutant shows a delay that does not fit skip codes |

### 4.1 The safety half of liveness

That something must happen is out of the prover's reach. What makes it happen
is not: either a number that every relevant step lowers and no other step
raises, or the fact that whoever waits has not been forgotten, because what it
waits for has come or somebody still has it to bring. With the fairness of
section 3 these are the arguments for the liveness properties TLC checks.

| liveness | theorem | what is proved |
|---|---|---|
| `StallIsRetried` | `LockRunsDown` | `ToRelease`, the steps of `app_task` until the lock is cleared, is at most `LockPasses + 2`; each step of `app_task` takes one away, the step before the last stores START, the last clears the lock, `runStep = 0` follows, and neither the interrupt nor the controller nor the user changes it |
| `StopReachesBridge` | `StopIsNear` | While STOP stands, each step of the interrupt opens the switches or lowers `StepsToStop`, seven at most; no task changes it |
| `StuckStops` | `StuckIsNearStall` | While a rotor sticks and the motor is driven, every tick without a glitch lowers `TicksToStall` or stops the motor: the windows fill, one last edge may reset the count, and the count then runs to the limit, with a forced step before each sample at most. The bound is `2 * (16 + 15000 + 1) + 2` ticks, 1.5 s. It needs `StallNotMissed`, for a count beyond the limit would have to wrap around first; no hypothesis on glitches, a tick with one is just not counted |
| `ControllerEngages`, `SetPointFollows` | `ControllerIsNear` | While the motor stays sensorless, `ToDrive` counts the tick that wakes `app_pid_task` and its steps to the next duty, and `ToFollow` the steps of `app_task` until `SetPoint` is the speed asked for; those steps lower it and no other raises it, the interrupt's and the user's included |
| `WqTaskServes` | `StopIsSeen` | Without a race there is a task whenever the state is RUNNING or STOP REQUESTED or a start has just created one, to see the state and take the functions |
| `AgtParamsFollow` | `ParamsAreComing` | An agent that has nothing left to do but to wait waits for one event, and that is on the loop, or the mapping that ends in it is still to be sent, or to be acknowledged. Before it waits, no mapping has got further than the queue (`AgtNotYet`), so that the event cannot have come before it listens |
| `LocServes` | `NameIsFound` | After the agent has left its name, its handler is at work, or the flag stands and the end of provisioning is still to come (`LocEndComes`). The excuse is the one `LocServes` has: the end was handled between test and store |
| `ClmGoesOn` | `DialogueIsHeard` | A dialogue that is over has set the bit, or was over before the agent made its group, which is the excuse of `ClmGoesOn`; the bit stands for a certificate that was kept, and an agent that calls itself claimed has key and certificate |
| `WifiMainGoesOn` | `StationIsHeard` | A station with an address has set the bit or has its event on the loop; one that lost its access point has told so; without a station the phone is asked, until the provisioning time is over |

### 4.2 Only model-checked

- That the liveness properties hold under their fairness.
- `FollowsRotor` with a delay that does not fit (then it is false, as its mutant
  shows), and `CommutatesShownCode` for `ZeroStable = 1` (false as well).

The assumptions on constants say no more than their use in the code needs. Two
are there for the proofs alone and hold of every firmware: the contexts that
call the work queue are finitely many (`WqAssumption`), and the bound on jobs is
a natural number (`OtaAssumption`).

## 5. Not modelled

- GPIO, LEDC, ADC configuration (once, no state), logging, the status LED.
- `hal_vbus_monitor`, `hal_bldc_hal_test` and `hal_bldc_test`: never called.
- The rounding of the speed, `(20000 / (10 * speedCount)) * 60`, and of the
  controller's float arithmetic (the filter's truncation is modelled: on the speeds
  of the motor `(int)(0.9 * p + 0.1 * v)` is `(9 * p + v) \div 10`); the sine and noise of natural wind. A value is any of a set.
- A rotor that runs backwards, or slower than the stall limit allows.
- Of claiming: HTTP and protobuf, the challenge's HMAC, and messages that come
  after the claim is over, whose data are freed while the endpoint stays.
- In `ZeroCross`, app_task's `runStep = 0` into a motor that the user has started
  during the cool-down (`main.c:54`); `StartRamp` and `BldcMotor` have it.
- Of the acknowledgement handler (`esp_insights.c:236-286`), the branch of a
  message that could not be sent, which is posted only with
  `CONFIG_MQTT_REPORT_DELETED_MESSAGES`, off in this build; and what the branch of
  the meta message keeps (a checksum in NVS): the meta message itself is one of
  `InsOthersPublish`, whose acknowledgement stops the timer and releases nothing.
- Command-response, scenes and the system service: further ways to
  the same write callback, not enabled here; node, device and configuration:
  lists built once; JSON, CBOR and QR code: pure conversions.
- Time series, simple alerts, bulk writes and NVS storage of parameters; OTA over
  parameters and the transfer of an image; stop and deinit of the agent; the
  work queue's delayed add, a timer that calls the add.
- A write to NVS takes effect at once or not at all. The branch of
  `esp_insights.c:442-444` for a message number of 0, and the RTC store's option
  to overwrite old records, which is off.
- Failures of memory allocation, but where a handler goes on after one.
- Local control's server, and its stop: the code never stops it.

## 6. Where comments and code differ

Each is a run that TLC ends with a counterexample.

- `main.c:95` says the PID should come in once the speed is stable; the
  callback wakes it in the very tick of the hand-over, before this start has
  measured a speed (`PidWaitsForSpeed`).
- `hal_bldc.c:604` says the motor turns twice more before the block takes
  control; `edgeFlag` counts ticks, and survives from run to run
  (`TwoTurnsFirst`).
- `main.c:112` calls the clamp of the controller's output a minimum; an output
  below -200 is not clamped and its `abs()` is a higher duty
  (`LowOutputGetsLeastDuty`).
- `esp_rmaker_ota.c:572` says that the update flag found at boot means a
  rollback; a verified update leaves the flag, and the first plain restart after
  it is taken for a rollback and reported so (`OtaFlagMeansRollback`).

## 7. Plan

Done, in this order: `BldcMotor` with `DriveGate` and its history, `Commutation`,
`ZeroCross`, `StartRamp`, `SpeedLoop` with their proofs; then `Fan` (the order of
`app_main` and the view of the phone), `AppWifi`, `WorkQueue`, `ParamReport`,
`Agent`, `Ota`, the schedules, the RTC store with its refinement, `Insights`,
`MqttGlue`, `LocalCtrl` and `Claim`, with `Services` to check them.

Then the proofs: the safety of all components, their types, the two refinements
and the composition, and the safety half of the liveness properties (section 4).

To come:

1. A composition of `ZeroCross` and `Commutation`, so that the rotor's codes
   decide which jumps of the bridge can really occur.
2. The quantisation of the measured speed before the filter, as an operator over
   bounded inputs against a reference.

## 8. Running

    tlc -config BldcMotorWatch.cfg BldcMotorWatch.tla
    tlc -config Services.cfg Services.tla
    tlapm BldcMotorProofs.tla

`PROJECT.json` names module and configuration of every run. For each property of
a passing run it also names a mutant: a definition of the model replaced by the
form a plausible bug would give it (the operators with an underscore, such as
`LockExpired_OneEarly`), under which TLC finds the property violated.
