------------------------------ MODULE StartRamp ------------------------------
(***************************************************************************)
(* The open-loop start with its real numbers.                              *)
(*                                                                         *)
(* Cases 0 to 2 of hal_bldc_main_loop force the phases one after the       *)
(* other, each a fifteenth shorter than the one before, while the duty     *)
(* follows a table.  The back-EMF code runs in every tick of case 1 and    *)
(* counts towards the stall that ends the start.  Only the interrupt runs  *)
(* this code, so a tick is one action, and stores of the others fall       *)
(* between ticks (those a tick overwrites are in BldcMotor): the commands  *)
(* of the user, and the two stores by which app_task restarts the motor    *)
(* within CoolDown ticks of a stall, the motor the user has started        *)
(* meanwhile included.  EarlyTicks says in which ticks of a phase the      *)
(* rotor may show an edge of phase 0; the hand-over to the sensorless      *)
(* block ends the ramp and is left to BldcMotor.                           *)
(***************************************************************************)
EXTENDS Integers

CONSTANTS
    FirstPhase,            \* ticks of the first phase (900)
    LastPhase,             \* ticks the phases do not go below (180)
    StallLimit,            \* ticks without an edge before a stall (15000)
    MaxDuty,               \* full duty (2047)
    EarlyTicks,            \* ticks of a phase that may see an edge
    CoolDown,              \* ticks from a stall to the restart, at most
    CommandTicks,          \* ticks of a cool-down that may bring a command
    StoreTicks,            \* ticks of a cool-down with a store of app_task
    VoltsCap               \* bound on voltageChangeCount, which is an int

ASSUME ConstantsAssumption ==
    /\ FirstPhase \in Nat /\ LastPhase \in Nat \ {0} /\ LastPhase <= FirstPhase
    /\ StallLimit \in Nat /\ MaxDuty \in Nat
    /\ EarlyTicks \subseteq Nat /\ CommandTicks \subseteq Nat
    /\ StoreTicks \subseteq Nat /\ CoolDown \in Nat
    /\ VoltsCap \in Nat /\ VoltsCap > 15

(* The ramp fits into the stall limit, with the first phase to spare, even  *)
(* if it begins again at the end of a cool-down that has been counted.      *)
ASSUME RampFits ==
    CoolDown + 15 * (FirstPhase - LastPhase) + FirstPhase <= StallLimit

VARIABLES
    running,               \* motorParameter.isStart = START
    runStep, delayCount, nextPhaseTime, voltageChangeCount, nextPhaseCount,
    pwmDuty,
    failed,                \* filterFailedCount
    app,                   \* app_task: "idle", "cooling" or "rearm"
    cool                   \* ticks since the stall, until the last store

ramp == <<delayCount, nextPhaseTime, voltageChangeCount, nextPhaseCount, pwmDuty>>
task == <<app, cool>>
vars == <<running, runStep, ramp, failed, task>>

(* hal_bldc_change_voltage: the duty of the k-th forced phase.             *)
RampDuty(k) ==
    CASE k \in 1..4   -> MaxDuty \div 3
      [] k \in 5..8   -> (MaxDuty \div 2) \div 5
      [] k \in {9, 10, 14, 15} -> (MaxDuty \div 2) \div 4
      [] k \in 11..13 -> (MaxDuty \div 2) \div 2
      [] OTHER        -> pwmDuty

Init ==
    /\ running = FALSE /\ runStep = 0 /\ delayCount = 0 /\ nextPhaseTime = 0
    /\ voltageChangeCount = 0 /\ nextPhaseCount = 0 /\ pwmDuty = 0 /\ failed = 0
    /\ app = "idle" /\ cool = 0

(* The user starts or stops the motor, at any time when no stall is pending *)
(* and in some ticks of a cool-down.                                        *)
Command ==
    /\ app = "idle" \/ cool \in CommandTicks
    /\ running' = ~running
    /\ UNCHANGED <<runStep, ramp, failed, task>>

(* app_task restarts the motor after a stall, whether the user has started  *)
(* it or not; runStep = 0 is a store of its own.  filterFailedCount is not  *)
(* touched.                                                                *)
Restart ==
    /\ app = "cooling" /\ cool \in StoreTicks /\ app' = "rearm"
    /\ running' = TRUE
    /\ UNCHANGED <<runStep, ramp, failed, cool>>

Rearm ==
    /\ app = "rearm" /\ cool \in StoreTicks /\ app' = "idle" /\ cool' = 0
    /\ runStep' = 0
    /\ UNCHANGED <<running, ramp, failed>>

(* The time a tick takes, in a cool-down that leaves some.                 *)
TickPasses ==
    \/ app = "idle" /\ UNCHANGED task
    \/ app # "idle" /\ cool < CoolDown /\ cool' = cool + 1 /\ UNCHANGED app

(* case 0.                                                                 *)
Startup ==
    /\ running /\ runStep = 0 /\ TickPasses
    /\ pwmDuty' = MaxDuty \div 3
    /\ delayCount' = 0 /\ nextPhaseTime' = FirstPhase /\ runStep' = 1
    /\ voltageChangeCount' = 0
    /\ UNCHANGED <<running, nextPhaseCount, failed>>

CountDelay ==
    IF delayCount + 1 >= nextPhaseTime
    THEN delayCount' = 0 /\ runStep' = 2
    ELSE delayCount' = delayCount + 1 /\ runStep' = 1

(* case 1 without an edge, whether the windows are mixed or uniform.       *)
Wait ==
    /\ running /\ runStep = 1 /\ failed + 1 <= StallLimit
    /\ TickPasses /\ CountDelay /\ failed' = failed + 1
    /\ UNCHANGED <<running, nextPhaseTime, voltageChangeCount, nextPhaseCount, pwmDuty>>

(* A mixed window hides a count that has run out; the count goes on, past  *)
(* the limit (kept at it here), and starts again when it overflows (in one *)
(* of EarlyTicks here).                                                    *)
Hidden ==
    /\ running /\ runStep = 1 /\ failed + 1 > StallLimit
    /\ TickPasses /\ CountDelay
    /\ failed' = failed \/ (delayCount \in EarlyTicks /\ failed' = 0)
    /\ UNCHANGED <<running, nextPhaseTime, voltageChangeCount, nextPhaseCount, pwmDuty>>

(* case 1 with an edge of phase 0.                                         *)
Edge ==
    /\ running /\ runStep = 1 /\ delayCount \in EarlyTicks
    /\ TickPasses /\ CountDelay /\ failed' = 0
    /\ UNCHANGED <<running, nextPhaseTime, voltageChangeCount, nextPhaseCount, pwmDuty>>

(* case 1 when the stall count runs out.  A cool-down is too short for a    *)
(* second one.                                                             *)
Stall ==
    /\ running /\ runStep = 1 /\ failed + 1 > StallLimit
    /\ CountDelay /\ failed' = 0
    /\ running' = FALSE /\ pwmDuty' = 0
    /\ app' = "cooling" /\ cool' = 0
    /\ UNCHANGED <<nextPhaseTime, voltageChangeCount, nextPhaseCount>>

(* case 2: shorten the phase, change the duty, force the next phase.       *)
Shorter_Slowly(t) == t - (t \div 45 + 1)
Shorter(t) == t - (t \div 15 + 1)
Floor(t) == IF t < LastPhase THEN LastPhase ELSE t

NextVolts == IF voltageChangeCount < VoltsCap THEN voltageChangeCount + 1 ELSE VoltsCap

ForcePhase ==
    /\ running /\ runStep = 2 /\ runStep' = 1 /\ TickPasses
    /\ nextPhaseTime' = Floor(Shorter(nextPhaseTime))
    /\ voltageChangeCount' = NextVolts
    /\ pwmDuty' = RampDuty(NextVolts)
    /\ nextPhaseCount' = (nextPhaseCount + 1) % 6
    /\ UNCHANGED <<running, delayCount, failed>>

(* The else branch, after a stall or a command.                            *)
StopTick ==
    /\ ~running /\ TickPasses
    /\ runStep' = 0 /\ delayCount' = 0 /\ voltageChangeCount' = 0
    /\ nextPhaseCount' = 0 /\ pwmDuty' = 0 /\ failed' = 0
    /\ UNCHANGED <<running, nextPhaseTime>>

Next ==
    \/ Command \/ Restart \/ Rearm
    \/ Startup \/ Wait \/ Hidden \/ Edge \/ Stall \/ ForcePhase \/ StopTick

Spec == Init /\ [][Next]_vars

-----------------------------------------------------------------------------
(* Properties.                                                             *)

(* The ranges of the ramp: a phase never lasts longer than the first one   *)
(* nor less than the last one, and no forced phase drives with more than   *)
(* half the duty (hal_bldc.c:365,678).                                     *)
TypeOK ==
    /\ running \in BOOLEAN /\ runStep \in 0..2
    /\ nextPhaseTime \in {0} \cup LastPhase..FirstPhase
    /\ delayCount \in 0..FirstPhase
    /\ voltageChangeCount \in 0..VoltsCap /\ nextPhaseCount \in 0..5
    /\ pwmDuty \in 0..(MaxDuty \div 2) /\ failed \in 0..StallLimit
    /\ app \in {"idle", "cooling", "rearm"} /\ cool \in 0..CoolDown

(* A start is given up for a stall only when the rotor has been offered    *)
(* the whole ramp: the phases are at their shortest (hal_bldc.c:587,673,   *)
(* 678).  That includes a ramp that app_task begins again under a user who *)
(* did not wait for the cool-down: it has only what the count leaves it    *)
(* (main.c:52-54).                                                         *)
ShortestBeforeStall == [][Stall => nextPhaseTime = LastPhase]_vars

=============================================================================
