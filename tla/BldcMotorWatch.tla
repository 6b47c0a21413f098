--------------------------- MODULE BldcMotorWatch ---------------------------
(***************************************************************************)
(* BldcMotor observed: history variables that record what the safety       *)
(* properties of the motor speak about.  They restrict no step.            *)
(***************************************************************************)
EXTENDS BldcMotor

VARIABLES
    edges,       \* falling edges since the last start-up, up to ZeroStable
    freshSpeed,  \* speedRpm was measured since the last start-up
    latePid,     \* a PID result was still on its way when the motor started
    holding,     \* the user stopped the motor while no stall was pending
    passes,      \* app_task passes since the last stall, up to LockPasses
    touched      \* the user gave a command since the lock was set

hist == <<edges, freshSpeed, latePid, holding, passes, touched>>
watchVars == <<vars, hist>>

WatchInit ==
    /\ Init
    /\ edges = 0 /\ freshSpeed = FALSE /\ latePid = FALSE
    /\ holding = FALSE /\ passes = 0 /\ touched = FALSE

PidUnderway == sem = 1 \/ pid = "calc" \/ pwmDuty = "pid"

(* A tick in one of these places may still run the stall check.            *)
StallAhead == isr \in {"step", "case1", "sense1", "sense3"}

WatchStart ==
    /\ StartupPhase
    /\ edges' = 0 /\ freshSpeed' = FALSE /\ latePid' = PidUnderway
    /\ UNCHANGED <<holding, passes, touched>>

WatchFalling ==
    /\ FallingEdge
    /\ edges' = Least(edges + 1, ZeroStable)
    /\ freshSpeed' = (freshSpeed \/ zeroStableFlag >= ZeroStable)
    /\ UNCHANGED <<latePid, holding, passes, touched>>

WatchStall ==
    /\ Stall
    /\ passes' = 0 /\ touched' = (lock = 1 /\ touched)
    /\ UNCHANGED <<edges, freshSpeed, latePid, holding>>

WatchPass ==
    /\ AppPass \/ AppRestart
    /\ passes' = Least(passes + 1, LockPasses)
    /\ UNCHANGED <<edges, freshSpeed, latePid, holding, touched>>

(* A STOP holds when nothing that could restart the motor is pending.      *)
WatchCommand(v) ==
    /\ CloudPower(v) \/ (ButtonStore /\ isStart' = v)
    /\ holding' = (v = STOP /\ lock = 0 /\ ~StallAhead)
    /\ touched' = TRUE
    /\ UNCHANGED <<edges, freshSpeed, latePid, passes>>

WatchOther ==
    /\ \/ IsrEnter \/ IsrStop \/ Dispatch \/ Startup \/ Delay \/ NextDuty \/ ForcePhase
       \/ Unstable \/ RisingEdge \/ Steady \/ ZeroCross \/ GivePid
       \/ PidTask \/ AppUnlock \/ AppRearm \/ ButtonLoad
    /\ UNCHANGED hist

WatchNext ==
    \/ WatchStart \/ WatchFalling \/ WatchStall \/ WatchPass \/ WatchOther
    \/ \E v \in {STOP, START} : WatchCommand(v)

WatchSpec == WatchInit /\ [][WatchNext]_watchVars

-----------------------------------------------------------------------------
(* Properties.                                                             *)

HistCounts == edges \in 0..ZeroStable /\ passes \in 0..LockPasses

HistFlags ==
    /\ freshSpeed \in BOOLEAN /\ latePid \in BOOLEAN
    /\ holding \in BOOLEAN /\ touched \in BOOLEAN

(* The types of the motor and of its history.                              *)
WatchTypeOK == TypeOK /\ HistCounts /\ HistFlags

(* The motor runs sensorless only after ZeroStable falling edges seen in   *)
(* this start, never on crossings left over from an earlier run: the stop  *)
(* branch does not clear zeroStableFlag, case 0 alone does                 *)
(* (hal_bldc.c:654,666).                                                   *)
HandoverEarned == runStep = 3 => edges = ZeroStable

(* In the forced phases the bridge carries a duty of the start-up ramp,    *)
(* unless a PID result of the previous run was still under way when the    *)
(* motor started (main.c:94,119; hal_bldc.c:648,675).                      *)
RampNotPid == runStep \in {1, 2} /\ bridge = "pid" => latePid

(* A STOP the user gives while no stall is pending stays in force until    *)
(* the user starts the motor again (main.c:48-52, app_rmaker.c:38).        *)
StopHolds == holding => isStart = STOP

(* After a stall the motor restarts by itself only when app_task has made  *)
(* all its LockPasses passes, unless the user intervened (main.c:48-56).   *)
CoolDown == [][AppRestart => passes + 1 >= LockPasses \/ touched]_watchVars

(* The comment at main.c:95 says the PID should come in only once the      *)
(* speed is stable: it never computes on a speed this start has not        *)
(* measured.  The code gives the semaphore in the tick of the hand-over.   *)
PidWaitsForSpeed == [][PidTake => freshSpeed]_watchVars

=============================================================================
