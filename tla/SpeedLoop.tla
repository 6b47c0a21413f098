------------------------------ MODULE SpeedLoop ------------------------------
(***************************************************************************)
(* The speed controller: who measures, who asks, who computes.             *)
(*                                                                         *)
(* The interrupt measures the speed, resets the controller while the motor *)
(* is stopped and wakes app_pid_task; app_task copies the wanted speed     *)
(* into SetPoint; app_pid_task integrates and stores the duty.  All of it  *)
(* is shared without a lock.  A tick is one action here (BldcMotor takes   *)
(* it apart); the two tasks are split where they read and where they       *)
(* store.  Speeds, duties and gains are small integers with the relations  *)
(* of the real ones; the code's floats only ever hold such values.         *)
(***************************************************************************)
EXTENDS Integers

CONSTANTS
    Kp, Ki,                \* gains (0.003 and 0.00005)
    MaxDuty, OutMax,       \* limits of the integral and of the output (2047, 1637)
    MinDuty,               \* smallest duty of a pass (200)
    RampDuty,              \* the duty case 0 starts with (682)
    DefaultSpeed,          \* SetPoint of a stopped motor (300)
    Wanted,                \* speeds the user may ask for
    Natural,               \* speeds app_generate_noisy_speed may return
    Readings,              \* speeds an edge may be timed at
    LpfOld, LpfNew         \* weights of hal_bldc_lpf (9 and 1, of 10)

ASSUME ConstantsAssumption ==
    /\ {Kp, Ki, MaxDuty, OutMax, MinDuty, RampDuty, DefaultSpeed} \subseteq Nat
    /\ 0 < MinDuty /\ MinDuty <= OutMax /\ OutMax <= MaxDuty
    /\ RampDuty <= MaxDuty
    /\ Wanted \subseteq Nat /\ Natural \subseteq Nat /\ Readings \subseteq Nat
    /\ LpfOld \in Nat /\ LpfNew \in Nat \ {0}

STOP  == 0
START == 1

VARIABLES
    isStart, lock, pwmDuty, runStep,     \* as in BldcMotor
    speedRpm, valuePrev,                 \* measured speed, memory of its filter
    SetPoint, Ui,                        \* speedPid
    mode, speed,                         \* rmakerParameter
    sem,
    pid, err, sum,                       \* app_pid_task and its registers
    app,                                 \* app_task
    owed, rearmed                        \* history

motor   == <<isStart, lock, pwmDuty, runStep>>
measure == <<speedRpm, valuePrev>>
ctrl    == <<SetPoint, Ui>>
asked   == <<mode, speed>>
pidTask == <<pid, err, sum>>
history == <<owed, rearmed>>
vars    == <<motor, measure, ctrl, asked, sem, pidTask, app, history>>

Limit(x, bound) == IF x > bound THEN bound ELSE IF x < -bound THEN -bound ELSE x
Abs(x) == IF x < 0 THEN -x ELSE x

Lpf(p, v) == (LpfOld * p + LpfNew * v) \div (LpfOld + LpfNew)

(* The least magnitude the duty of a pass has, and its sign dropped.       *)
MinClamp(out) ==
    IF out \in -(MinDuty - 1)..(MinDuty - 1) THEN MinDuty ELSE out

(*   owed     at the last stop tick a task had a store still to come       *)
(*   rearmed  app_task put a motor back to case 0 that no stop tick had    *)
(*            seen stopped                                                 *)
Init ==
    /\ isStart = STOP /\ lock = 0 /\ pwmDuty = 0 /\ runStep = 0
    /\ speedRpm = 0 /\ valuePrev = 0
    /\ SetPoint = DefaultSpeed /\ Ui = 0
    /\ mode = "normal" /\ speed = DefaultSpeed
    /\ sem = 0 /\ pid = "wait" /\ err = 0 /\ sum = 0 /\ app = "pass"
    /\ owed = FALSE /\ rearmed = FALSE

-----------------------------------------------------------------------------
(* The interrupt.                                                          *)

ResetIntegral_Forgotten == UNCHANGED Ui
ResetIntegral == Ui' = 0
ResetSetPoint == SetPoint' = DefaultSpeed

StopTick ==
    /\ isStart = STOP
    /\ runStep' = 0 /\ pwmDuty' = 0 /\ ResetIntegral /\ ResetSetPoint
    /\ owed' = (sem = 1 \/ pid # "wait" \/ app # "pass") /\ rearmed' = FALSE
    /\ UNCHANGED <<isStart, lock, measure, asked, sem, pidTask, app>>

(* case 0.                                                                 *)
Startup ==
    /\ isStart = START /\ runStep = 0
    /\ runStep' = 1 /\ pwmDuty' = RampDuty
    /\ UNCHANGED <<isStart, lock, measure, ctrl, asked, sem, pidTask, app, history>>

(* A falling edge that times the speed once the crossings are stable.      *)
Measure ==
    \E v \in Readings :
        speedRpm' = Lpf(valuePrev, v) /\ valuePrev' = Lpf(valuePrev, v)

(* cases 1 and 2 keep the ramp's duty, or case 1 hands over; the callback   *)
(* then gives the semaphore.                                               *)
Give_Never == UNCHANGED sem
Give == sem' = 1

OpenLoop ==
    /\ isStart = START /\ runStep = 1
    /\ \/ pwmDuty' \in {pwmDuty, RampDuty} /\ UNCHANGED <<runStep, sem>>
       \/ runStep' = 3 /\ Give /\ UNCHANGED pwmDuty
    /\ Measure \/ UNCHANGED measure
    /\ UNCHANGED <<isStart, lock, ctrl, asked, pidTask, app, history>>

(* case 3, with or without a falling edge that measures the speed.         *)
RunTick ==
    /\ isStart = START /\ runStep = 3
    /\ Measure \/ UNCHANGED measure
    /\ Give
    /\ UNCHANGED <<motor, ctrl, asked, pidTask, app, history>>

(* The stall check, in case 1 or 3: the filter keeps its memory, and case 1 *)
(* may still hand over.                                                    *)
Stall ==
    /\ isStart = START /\ runStep \in {1, 3}
    /\ speedRpm' = 0 /\ pwmDuty' = 0 /\ isStart' = STOP /\ lock' = 1
    /\ runStep' \in {runStep, 3}
    /\ UNCHANGED <<valuePrev, ctrl, asked, sem, pidTask, app, history>>

Tick == StopTick \/ Startup \/ OpenLoop \/ RunTick \/ Stall

-----------------------------------------------------------------------------
(* app_pid_task: read, store the integral, store the duty.                 *)

PidTake ==
    /\ pid = "wait" /\ sem = 1
    /\ sem' = 0 /\ pid' = "integrate"
    /\ err' = SetPoint - speedRpm
    /\ sum' = Limit(Ui + Ki * (SetPoint - speedRpm), MaxDuty)
    /\ UNCHANGED <<motor, measure, ctrl, asked, app, history>>

PidIntegrate ==
    /\ pid = "integrate" /\ pid' = "drive"
    /\ Ui' = sum
    /\ UNCHANGED <<motor, measure, SetPoint, asked, sem, err, sum, app, history>>

Output == Limit(Kp * err + sum, OutMax)

PidDrive ==
    /\ pid = "drive" /\ pid' = "wait"
    /\ pwmDuty' = Abs(MinClamp(Output))
    /\ err' = 0 /\ sum' = 0
    /\ UNCHANGED <<isStart, lock, runStep, measure, ctrl, asked, sem, app, history>>

-----------------------------------------------------------------------------
(* app_task: restart after a stall, whose cool-down BldcMotor counts; check *)
(* that the motor runs sensorless, then refresh the set point.             *)

AppRestart ==
    /\ app = "pass" /\ lock = 1
    /\ isStart' = START /\ lock' = 0 /\ runStep' = 0
    /\ rearmed' = (rearmed \/ runStep # 0)
    /\ UNCHANGED <<pwmDuty, measure, ctrl, asked, sem, pidTask, app, owed>>

AppCheck ==
    /\ app = "pass" /\ runStep = 3 /\ isStart = START
    /\ app' = "refresh"
    /\ UNCHANGED <<motor, measure, ctrl, asked, sem, pidTask, history>>

Refresh_OnceDefault == IF SetPoint = DefaultSpeed THEN {speed} ELSE {SetPoint}
Refresh == IF mode = "normal" THEN {speed} ELSE Natural

AppRefresh ==
    /\ app = "refresh" /\ app' = "pass"
    /\ SetPoint' \in Refresh
    /\ UNCHANGED <<motor, measure, Ui, asked, sem, pidTask, history>>

-----------------------------------------------------------------------------
(* The user, from the cloud or by the button.                              *)

SetPower(v) ==
    /\ isStart' = v
    /\ UNCHANGED <<lock, pwmDuty, runStep, measure, ctrl, asked, sem, pidTask, app, history>>

SetSpeed(v) ==
    /\ speed' = v
    /\ UNCHANGED <<motor, measure, ctrl, mode, sem, pidTask, app, history>>

(* Natural wind is refused while the motor is stopped.                     *)
SetMode(m) ==
    /\ isStart # STOP /\ mode' = m
    /\ UNCHANGED <<motor, measure, ctrl, speed, sem, pidTask, app, history>>

AppTask == AppRestart \/ AppCheck \/ AppRefresh
PidTask == PidTake \/ PidIntegrate \/ PidDrive
User ==
    \/ \E v \in {STOP, START} : SetPower(v)
    \/ \E v \in Wanted : SetSpeed(v)
    \/ \E m \in {"normal", "natural"} : SetMode(m)

Next == Tick \/ AppTask \/ PidTask \/ User

Spec == Init /\ [][Next]_vars

(* The timer reloads itself and both tasks loop for ever; whether the rotor *)
(* hands over or stalls is nobody's duty.                                  *)
FairSpec ==
    /\ Spec
    /\ WF_vars(StopTick \/ Startup \/ RunTick)
    /\ WF_vars(AppTask) /\ WF_vars(PidTask)

-----------------------------------------------------------------------------
(* Properties.                                                             *)

SetPoints == {DefaultSpeed} \cup Wanted \cup Natural

(* The types, and the ranges of the controller: an integral within its     *)
(* limits, and a running duty never below the minimum nor above OutMax or  *)
(* the ramp's (app_pid.c:45-48, main.c:113-119).                           *)
TypeOK ==
    /\ isStart \in {STOP, START} /\ lock \in {0, 1} /\ runStep \in {0, 1, 3}
    /\ pwmDuty \in {0, RampDuty} \cup MinDuty..OutMax
    /\ speedRpm \in Nat /\ valuePrev \in Nat
    /\ SetPoint \in SetPoints /\ Ui \in -MaxDuty..MaxDuty
    /\ mode \in {"normal", "natural"} /\ speed \in {DefaultSpeed} \cup Wanted
    /\ sem \in {0, 1} /\ pid \in {"wait", "integrate", "drive"}
    /\ err \in Int /\ sum \in -MaxDuty..MaxDuty
    /\ app \in {"pass", "refresh"} /\ owed \in BOOLEAN /\ rearmed \in BOOLEAN

(* A start begins with an empty integral and the default set point, unless *)
(* a task that had looked before the stop stored after it, or app_task     *)
(* sent the motor back to case 0 past the stop branch (main.c:48-56,63-73,111;            *)
(* hal_bldc.c:704-705; app_pid.c:44).                                      *)
CleanStart ==
    [][Startup => (Ui = 0 /\ SetPoint = DefaultSpeed) \/ owed \/ rearmed]_vars

Sensorless == isStart = START /\ runStep = 3

(* A motor that stays sensorless in normal mode gets the set point the     *)
(* user settles on (main.c:59-66).                                         *)
SetPointFollows ==
    \A v \in Wanted :
        <>[](Sensorless /\ mode = "normal" /\ speed = v) => <>[](SetPoint = v)

(* A motor that stays sensorless is driven by the controller again and     *)
(* again (main.c:94-96,110).                                               *)
ControllerEngages == <>[]Sensorless => []<>(pid = "drive")

(* The comment at main.c:112 calls the clamp of a pass a lower limit: an    *)
(* output below the least duty is raised to it.  The code lets outputs     *)
(* below -MinDuty pass, and abs turns them into a higher duty.             *)
LowOutputGetsLeastDuty == [][PidDrive /\ Output < MinDuty => pwmDuty' = MinDuty]_vars

=============================================================================
