------------------------------ MODULE BldcMotor ------------------------------
(***************************************************************************)
(* The motor state machine and everyone who touches it.                    *)
(*                                                                         *)
(* Five contexts share motorParameter, simpleOpen and hallLessParameter    *)
(* without any lock: the 20 kHz timer interrupt (main/main.c:89 and        *)
(* main/hal/hal_bldc.c:530,643), app_task, app_pid_task, the button        *)
(* callback and the RainMaker write callback.  The interrupt fires on one  *)
(* core of a dual-core chip and the tasks are not pinned, so an interrupt  *)
(* does not stop them: a task step may fall between any two reads and      *)
(* writes of the interrupt.  Each context has a program counter and an     *)
(* action is one stretch of code with at most one access that another      *)
(* context could notice.                                                   *)
(*                                                                         *)
(* Duties are abstracted to who computed them: "ramp" is one of the        *)
(* start-up levels of hal_bldc_change_voltage, "pid" comes from            *)
(* app_pid_task.  The bridge is "off" (all six switches open) or carries   *)
(* the duty it was last commutated with: writing pwmDuty has no effect on  *)
(* the hardware until the next commutation copies it.                      *)
(***************************************************************************)
EXTENDS Integers

CONSTANTS
    StallLimit,   \* samples without an edge before a stall (15000)
    CountMod,     \* filterFailedCount is a uint16_t (65536)
    ZeroStable,   \* falling edges before the sensorless hand-over (4)
    LockPasses,   \* app_task passes a stalled motor waits (10)
    PhaseTicks,   \* ticks of a forced phase; its shrinking is in StartRamp
    RampSteps     \* forced phases that have a duty of their own (15)

ASSUME ConstantsAssumption ==
    /\ StallLimit \in Nat \ {0}
    /\ CountMod \in Nat /\ CountMod > StallLimit + 1
    /\ ZeroStable \in Nat \ {0}
    /\ LockPasses \in Nat \ {0}
    /\ PhaseTicks \in Nat \ {0}
    /\ RampSteps \in Nat

STOP  == 0
START == 1

VARIABLES
    isStart, lock, pwmDuty,              \* motorParameter
    runStep, delayCount, volts,          \* simpleOpen (volts: voltageChangeCount)
    zeroStableFlag, failed,              \* failed: hallLessParameter.filterFailedCount
    level,                               \* oldval of hal_bldc_umef_edge
    mixed,                               \* the last sample was not uniform
    bridge,                              \* what the three half bridges carry
    isr,                                 \* interrupt: where it is in its tick
    sem,                                 \* xSemaphore, binary
    pid,                                 \* app_pid_task
    app, lockCount,                      \* app_task
    btn,                                 \* button callback: value it will store
    by                                   \* history: whose store isStart holds

shared == <<isStart, lock, pwmDuty, runStep>>
inner  == <<delayCount, volts, zeroStableFlag, failed, level, mixed, bridge>>
tasks  == <<pid, app, lockCount, btn, by>>
vars   == <<shared, inner, isr, sem, tasks>>

Least(a, b) == IF a < b THEN a ELSE b

-----------------------------------------------------------------------------
Init ==
    /\ isStart = STOP /\ lock = 0 /\ pwmDuty = "zero" /\ runStep = 0
    /\ delayCount = 0 /\ volts = 0 /\ zeroStableFlag = 0 /\ failed = 0
    /\ level = 0 /\ mixed = FALSE /\ bridge = "off"
    /\ isr = "idle" /\ sem = 0
    /\ pid = "wait" /\ app = "pass" /\ lockCount = 0 /\ btn = "none"
    /\ by = "drive"

-----------------------------------------------------------------------------
(* The interrupt: bldc_main_loop_cb, one tick from "idle" to "idle".       *)

IsrGoto(from, to) == isr = from /\ isr' = to

(* Enter the tick: the only read of isStart that chooses the branch.       *)
IsrEnter ==
    /\ isr = "idle"
    /\ isr' = IF isStart = START THEN "step" ELSE "stop"
    /\ UNCHANGED <<shared, inner, sem, tasks>>

(* The bridge functions.  Stopping opens every switch; a commutation copies  *)
(* the duty that pwmDuty holds at that moment.                             *)
StopBridge_Forgotten == UNCHANGED bridge
StopBridge == bridge' = "off"
Energise == bridge' = pwmDuty

(* The else branch: bridge off, open-loop state cleared.  zeroStableFlag   *)
(* and the edge detector are not cleared here.                             *)
IsrStop ==
    /\ IsrGoto("stop", "give")
    /\ StopBridge
    /\ runStep' = 0 /\ delayCount' = 0 /\ volts' = 0 /\ failed' = 0
    /\ pwmDuty' = "zero"
    /\ UNCHANGED <<isStart, lock, zeroStableFlag, level, mixed, sem, tasks>>

(* The switch reads runStep once; a store by app_task after that read is   *)
(* overwritten by the case that was chosen.                                *)
CasePlace == <<"case0", "case1", "case2", "sense3">>

Dispatch ==
    /\ IsrGoto("step", CasePlace[runStep + 1])
    /\ UNCHANGED <<shared, inner, sem, tasks>>

(* case 0: store the start-up duty ...                                     *)
Startup ==
    /\ IsrGoto("case0", "startup")
    /\ pwmDuty' = "ramp"
    /\ UNCHANGED <<isStart, lock, runStep, inner, sem, tasks>>

(* ... and energise U-V with the duty read back from memory.               *)
ClearCrossings_Forgotten == UNCHANGED zeroStableFlag
ClearCrossings == zeroStableFlag' = 0

StartupPhase ==
    /\ IsrGoto("startup", "give")
    /\ Energise
    /\ delayCount' = 0 /\ runStep' = 1 /\ volts' = 0 /\ ClearCrossings
    /\ UNCHANGED <<isStart, lock, pwmDuty, failed, level, mixed, sem,
                   tasks>>

(* case 1: count the phase time, then look at the back-EMF.                *)
Delay ==
    /\ IsrGoto("case1", "sense1")
    /\ \/ /\ delayCount + 1 < PhaseTicks
          /\ delayCount' = delayCount + 1 /\ UNCHANGED runStep
       \/ /\ delayCount + 1 >= PhaseTicks
          /\ delayCount' = 0 /\ runStep' = 2
    /\ UNCHANGED <<isStart, lock, pwmDuty, volts, zeroStableFlag, failed,
                   level, mixed, bridge, sem, tasks>>

(* case 2: next duty of the ramp while it lasts ...                        *)
NextDuty ==
    /\ IsrGoto("case2", "phase")
    /\ runStep' = 1
    /\ volts' = Least(volts + 1, RampSteps + 1)
    /\ \/ volts + 1 <= RampSteps /\ pwmDuty' = "ramp"
       \/ volts + 1 > RampSteps /\ UNCHANGED pwmDuty
    /\ UNCHANGED <<isStart, lock, delayCount, zeroStableFlag, failed, level,
                   mixed, bridge, sem, tasks>>

(* ... and the next forced phase.                                          *)
ForcePhase ==
    /\ IsrGoto("phase", "give")
    /\ Energise
    /\ UNCHANGED <<shared, delayCount, volts, zeroStableFlag, failed, level,
                   mixed, sem, tasks>>

-----------------------------------------------------------------------------
(* hal_bldc_sensor_less_operation.  The rotor and the noise choose the     *)
(* outcome of the sixteen-sample filter; an edge needs a mixed window      *)
(* before it.  SensorlessOp models the filter and the Hall codes.          *)

Sensing == isr \in {"sense1", "sense3"}        \* called from case 1, from case 3

AfterSense(zero) ==
    isr' = IF zero < ZeroStable THEN "give"
           ELSE IF isr = "sense1" THEN "zc1" ELSE "zc3"

(* Some phase has a mixed window: count it and leave.  No stall check.     *)
Unstable ==
    /\ Sensing /\ isr' = "give"
    /\ failed' = (failed + 1) % CountMod
    /\ mixed' = TRUE
    /\ UNCHANGED <<shared, delayCount, volts, zeroStableFlag, level, bridge, sem, tasks>>

(* Phase 0 rises.                                                          *)
RisingEdge ==
    /\ Sensing /\ mixed /\ level = 0
    /\ level' = 1 /\ mixed' = FALSE /\ failed' = 0
    /\ AfterSense(zeroStableFlag)
    /\ UNCHANGED <<shared, delayCount, volts, zeroStableFlag, bridge, sem, tasks>>

(* Phase 0 falls: one more zero crossing, and a speed once they are stable. *)
FallingEdge ==
    /\ Sensing /\ mixed /\ level = 1
    /\ level' = 0 /\ mixed' = FALSE /\ failed' = 0
    /\ zeroStableFlag' = zeroStableFlag + 1
    /\ AfterSense(zeroStableFlag + 1)
    /\ UNCHANGED <<shared, delayCount, volts, bridge, sem, tasks>>

(* No edge.  The count is a uint16_t.                                      *)
StallReached == (failed + 1) % CountMod > StallLimit

Steady ==
    /\ Sensing /\ ~StallReached
    /\ failed' = (failed + 1) % CountMod /\ mixed' = FALSE
    /\ AfterSense(zeroStableFlag)
    /\ UNCHANGED <<shared, delayCount, volts, zeroStableFlag, level, bridge, sem, tasks>>

(* No edge for too long: stop, lock, and go on to the zero-crossing block. *)
Stall ==
    /\ Sensing /\ StallReached
    /\ failed' = 0 /\ mixed' = FALSE
    /\ pwmDuty' = "zero" /\ isStart' = STOP /\ StopBridge /\ lock' = 1
    /\ by' = "drive"
    /\ AfterSense(zeroStableFlag)
    /\ UNCHANGED <<runStep, delayCount, volts, zeroStableFlag, level, sem,
                   pid, app, lockCount, btn>>

(* The zero-crossing block.  It returns 0 on an impossible Hall code and 1 *)
(* otherwise, having commutated or not; case 1 hands over on 1.            *)
ClampCrossings == zeroStableFlag' = ZeroStable

ZeroCross ==
    /\ isr \in {"zc1", "zc3"} /\ isr' = "give"
    /\ ClampCrossings
    /\ \/ UNCHANGED <<runStep, bridge>>
       \/ /\ runStep' = IF isr = "zc1" THEN 3 ELSE runStep
          /\ Energise \/ UNCHANGED bridge
    /\ UNCHANGED <<isStart, lock, pwmDuty, delayCount, volts, failed, level,
                   mixed, sem, tasks>>

(* The end of the callback: wake the PID task while running sensorless.    *)
PidMayRun_AnyStep == isStart = START
PidMayRun == runStep = 3 /\ isStart = START

GivePid ==
    /\ IsrGoto("give", "idle")
    /\ sem' = IF PidMayRun THEN 1 ELSE sem
    /\ UNCHANGED <<shared, inner, tasks>>

Isr ==
    \/ IsrEnter \/ IsrStop \/ Dispatch \/ Startup \/ StartupPhase \/ Delay \/ NextDuty
    \/ ForcePhase \/ Unstable \/ RisingEdge \/ FallingEdge
    \/ Steady \/ Stall \/ ZeroCross \/ GivePid

-----------------------------------------------------------------------------
(* app_pid_task: take the semaphore and compute, then store the duty.      *)

PidTake ==
    /\ pid = "wait" /\ sem = 1
    /\ sem' = 0 /\ pid' = "calc"
    /\ UNCHANGED <<shared, inner, isr, app, lockCount, btn, by>>

PidStore ==
    /\ pid = "calc" /\ pid' = "wait"
    /\ pwmDuty' = "pid"
    /\ UNCHANGED <<isStart, lock, runStep, inner, isr, sem, app, lockCount, btn, by>>

-----------------------------------------------------------------------------
(* app_task, every 10 ms: count passes while the lock flag stands; the     *)
(* LockPasses-th one restarts the motor with three separate stores.        *)

LockExpired_OneEarly == lockCount + 2 >= LockPasses
LockExpired == lockCount + 1 = LockPasses

Locked_Unchecked == TRUE
Locked == lock = 1

AppPass ==
    /\ app = "pass" /\ Locked /\ ~LockExpired
    /\ lockCount' = lockCount + 1
    /\ UNCHANGED <<shared, inner, isr, sem, pid, app, btn, by>>

PowerOn_Forgotten == UNCHANGED isStart
PowerOn == isStart' = START

AppRestart ==
    /\ app = "pass" /\ Locked /\ LockExpired
    /\ lockCount' = 0 /\ app' = "unlock"
    /\ PowerOn /\ by' = "drive"
    /\ UNCHANGED <<lock, pwmDuty, runStep, inner, isr, sem, pid, btn>>

ClearLock == lock' = 0

AppUnlock ==
    /\ app = "unlock" /\ app' = "rearm"
    /\ ClearLock
    /\ UNCHANGED <<isStart, pwmDuty, runStep, inner, isr, sem, pid, lockCount, btn, by>>

AppRearm ==
    /\ app = "rearm" /\ app' = "pass"
    /\ runStep' = 0
    /\ UNCHANGED <<isStart, lock, pwmDuty, inner, isr, sem, pid, lockCount, btn, by>>

-----------------------------------------------------------------------------
(* The user: a store of isStart by a command.                              *)

UserStore(v) ==
    /\ isStart' = v /\ by' = "user"
    /\ UNCHANGED <<lock, pwmDuty, runStep, inner, isr, sem, pid, app, lockCount>>

(* RainMaker write callback, parameter Power.                              *)
CloudPower(v) == UserStore(v) /\ UNCHANGED btn

(* The button toggles isStart with a load and a store.                     *)
ButtonLoad ==
    /\ btn = "none"
    /\ btn' = IF isStart = STOP THEN "start" ELSE "stop"
    /\ UNCHANGED <<shared, inner, isr, sem, pid, app, lockCount, by>>

ButtonStore ==
    /\ btn # "none" /\ btn' = "none"
    /\ UserStore(IF btn = "start" THEN START ELSE STOP)

AppTask == AppPass \/ AppRestart \/ AppUnlock \/ AppRearm
PidTask == PidTake \/ PidStore
User    == ButtonLoad \/ ButtonStore \/ \E v \in {STOP, START} : CloudPower(v)

Next == Isr \/ AppTask \/ PidTask \/ User

Spec == Init /\ [][Next]_vars

(* The timer reloads itself and the tasks loop forever: the interrupt and  *)
(* both tasks keep running.  Commands may never come.                      *)
Fairness == WF_vars(Isr) /\ WF_vars(AppTask) /\ WF_vars(PidTask)

FairSpec == Spec /\ Fairness

-----------------------------------------------------------------------------
(* Properties.                                                             *)

IsrPlaces == {"idle", "stop", "step", "case0", "startup", "case1", "case2",
              "phase", "sense1", "sense3", "zc1", "zc3", "give"}

MotorTypes ==
    /\ isStart \in {STOP, START} /\ lock \in {0, 1} /\ runStep \in 0..3
    /\ pwmDuty \in {"zero", "ramp", "pid"}
    /\ bridge \in {"off", "zero", "ramp", "pid"}
    /\ level \in {0, 1}

CounterTypes ==
    /\ delayCount \in 0..(PhaseTicks - 1)
    /\ volts \in 0..(RampSteps + 1)
    /\ zeroStableFlag \in 0..(ZeroStable + 1)
    /\ failed \in 0..(CountMod - 1)
    /\ lockCount \in 0..(LockPasses - 1)

PlaceTypes ==
    /\ isr \in IsrPlaces /\ sem \in {0, 1}
    /\ pid \in {"wait", "calc"} /\ app \in {"pass", "unlock", "rearm"}
    /\ btn \in {"none", "start", "stop"} /\ by \in {"user", "drive"}

(* zeroStableFlag passes its threshold only inside the tick that clamps it  *)
(* back (hal_bldc.c:575,603).                                              *)
Clamped == zeroStableFlag > ZeroStable => isr \in {"zc1", "zc3"}

(* The types of the motor state, and the ranges its counters keep to.      *)
TypeOK == MotorTypes /\ CounterTypes /\ PlaceTypes /\ Clamped /\ mixed \in BOOLEAN

(* A stalled motor is tried again (main.c:48-56).  Once the stop branch has *)
(* run after a stall, the interrupt sooner or later begins a start-up with  *)
(* its first phase, unless a STOP of the user stands when the lock is gone; *)
(* a STOP given during the cool-down is not enough.  A stall between the    *)
(* stores of a restart is left out: its lock is erased by the second one.   *)
CoolingDown ==
    /\ lock = 1 /\ app = "pass" /\ isStart = STOP /\ runStep = 0
    /\ isr \in {"give", "idle"}
StoppedByUser == lock = 0 /\ isStart = STOP /\ by = "user"

StallIsRetried == CoolingDown ~> isr = "startup" \/ StoppedByUser

(* A STOP reaches the bridge: all switches open, or somebody has started   *)
(* the motor again (hal_bldc.c:645,698).                                   *)
StopReachesBridge == isStart = STOP ~> (bridge = "off" \/ isStart = START)

(* The motor implements the promise of DriveGate: what the tick saw is the *)
(* place of the interrupt, the motor is driven by a non-zero duty.         *)
Live == bridge \in {"ramp", "pid"}

GatePlace ==
    IF isr \in {"idle", "give"} THEN "open"
    ELSE IF isr = "stop" THEN "cutting" ELSE "armed"

Gate == INSTANCE DriveGate WITH
            power <- isStart, by <- by, fault <- (lock = 1), live <- Live,
            gate <- GatePlace

GateSpec == Gate!Spec

=============================================================================
