--------------------------- MODULE BldcMotorProofs ---------------------------
(* Proofs about BldcMotor and its history variables, for every value of    *)
(* the constants that satisfies ConstantsAssumption.                       *)
EXTENDS BldcMotorWatch, TLAPS

USE DEF STOP, START, IsrGoto, shared, inner, tasks, hist

-----------------------------------------------------------------------------
(* Types.                                                                  *)

LEMMA TypeInit == WatchInit => WatchTypeOK
<1> SUFFICES ASSUME WatchInit PROVE WatchTypeOK
  OBVIOUS
<1> USE DEF WatchInit, Init
<1>1. MotorTypes
  BY DEF MotorTypes
<1>2. CounterTypes /\ HistCounts
  BY ConstantsAssumption DEF CounterTypes, HistCounts
<1>3. PlaceTypes /\ Clamped
  BY ConstantsAssumption DEF PlaceTypes, Clamped, IsrPlaces
<1>4. HistFlags /\ mixed \in BOOLEAN
  BY DEF HistFlags
<1> QED
  BY <1>1, <1>2, <1>3, <1>4 DEF WatchTypeOK, TypeOK

(* Every step keeps the types; the counters stay in their ranges.          *)
LEMMA TypeStep ==
    ASSUME WatchTypeOK, [WatchNext]_watchVars
    PROVE  WatchTypeOK'
<1> USE DEF WatchTypeOK, TypeOK
<1>1. CASE WatchStart
  <2> USE <1>1 DEF WatchStart, StartupPhase, Energise, ClearCrossings,
        PidUnderway
  <2>1. MotorTypes' /\ PlaceTypes'
    BY DEF MotorTypes, PlaceTypes, IsrPlaces
  <2>2. CounterTypes' /\ HistCounts' /\ Clamped'
    BY ConstantsAssumption DEF CounterTypes, HistCounts, Clamped, Least
  <2>3. HistFlags' /\ mixed' \in BOOLEAN
    BY DEF HistFlags
  <2> QED
    BY <2>1, <2>2, <2>3 DEF WatchTypeOK, TypeOK
<1>2. CASE WatchFalling
  <2> USE <1>2 DEF WatchFalling, FallingEdge, AfterSense, Sensing
  <2>1. MotorTypes' /\ PlaceTypes'
    BY DEF MotorTypes, PlaceTypes, IsrPlaces
  <2>2. CounterTypes' /\ HistCounts' /\ Clamped'
    BY ConstantsAssumption DEF CounterTypes, HistCounts, Clamped, Least
  <2>3. HistFlags' /\ mixed' \in BOOLEAN
    BY DEF HistFlags
  <2> QED
    BY <2>1, <2>2, <2>3 DEF WatchTypeOK, TypeOK
<1>3. CASE WatchStall
  <2> USE <1>3 DEF WatchStall, Stall, StallReached, StopBridge, AfterSense,
        Sensing
  <2>1. MotorTypes' /\ PlaceTypes'
    BY DEF MotorTypes, PlaceTypes, IsrPlaces
  <2>2. CounterTypes' /\ HistCounts' /\ Clamped'
    BY ConstantsAssumption DEF CounterTypes, HistCounts, Clamped, Least
  <2>3. HistFlags' /\ mixed' \in BOOLEAN
    BY DEF HistFlags
  <2> QED
    BY <2>1, <2>2, <2>3 DEF WatchTypeOK, TypeOK
<1>4. CASE WatchPass
  <2> USE <1>4 DEF WatchPass, AppPass, AppRestart, PowerOn, Locked, LockExpired
  <2>1. MotorTypes' /\ PlaceTypes'
    BY DEF MotorTypes, PlaceTypes, IsrPlaces
  <2>2. CounterTypes' /\ HistCounts' /\ Clamped'
    BY ConstantsAssumption DEF CounterTypes, HistCounts, Clamped, Least
  <2>3. HistFlags' /\ mixed' \in BOOLEAN
    BY DEF HistFlags
  <2> QED
    BY <2>1, <2>2, <2>3 DEF WatchTypeOK, TypeOK
<1>5. ASSUME NEW v \in {STOP, START}, WatchCommand(v)
      PROVE  WatchTypeOK'
  <2> USE <1>5 DEF WatchCommand, CloudPower, ButtonStore, UserStore, StallAhead
  <2>1. MotorTypes' /\ PlaceTypes'
    BY DEF MotorTypes, PlaceTypes, IsrPlaces
  <2>2. CounterTypes' /\ HistCounts' /\ Clamped'
    BY ConstantsAssumption DEF CounterTypes, HistCounts, Clamped, Least
  <2>3. HistFlags' /\ mixed' \in BOOLEAN
    BY DEF HistFlags
  <2> QED
    BY <2>1, <2>2, <2>3 DEF WatchTypeOK, TypeOK
<1>6. CASE WatchOther
  <2>1. CASE IsrEnter
    <3> USE <1>6, <2>1 DEF WatchOther, IsrEnter
    <3>1. MotorTypes' /\ PlaceTypes'
      BY DEF MotorTypes, PlaceTypes, IsrPlaces
    <3>2. CounterTypes' /\ HistCounts' /\ Clamped'
      BY ConstantsAssumption DEF CounterTypes, HistCounts, Clamped, Least
    <3>3. HistFlags' /\ mixed' \in BOOLEAN
      BY DEF HistFlags
    <3> QED
      BY <3>1, <3>2, <3>3 DEF WatchTypeOK, TypeOK
  <2>2. CASE IsrStop
    <3> USE <1>6, <2>2 DEF WatchOther, IsrStop, StopBridge
    <3>1. MotorTypes' /\ PlaceTypes'
      BY DEF MotorTypes, PlaceTypes, IsrPlaces
    <3>2. CounterTypes' /\ HistCounts' /\ Clamped'
      BY ConstantsAssumption DEF CounterTypes, HistCounts, Clamped, Least
    <3>3. HistFlags' /\ mixed' \in BOOLEAN
      BY DEF HistFlags
    <3> QED
      BY <3>1, <3>2, <3>3 DEF WatchTypeOK, TypeOK
  <2>3. CASE Dispatch
    <3> USE <1>6, <2>3 DEF WatchOther, Dispatch, CasePlace
    <3>1. MotorTypes' /\ PlaceTypes'
      BY DEF MotorTypes, PlaceTypes, IsrPlaces
    <3>2. CounterTypes' /\ HistCounts' /\ Clamped'
      BY ConstantsAssumption DEF CounterTypes, HistCounts, Clamped, Least
    <3>3. HistFlags' /\ mixed' \in BOOLEAN
      BY DEF HistFlags
    <3> QED
      BY <3>1, <3>2, <3>3 DEF WatchTypeOK, TypeOK
  <2>4. CASE Startup
    <3> USE <1>6, <2>4 DEF WatchOther, Startup
    <3>1. MotorTypes' /\ PlaceTypes'
      BY DEF MotorTypes, PlaceTypes, IsrPlaces
    <3>2. CounterTypes' /\ HistCounts' /\ Clamped'
      BY ConstantsAssumption DEF CounterTypes, HistCounts, Clamped, Least
    <3>3. HistFlags' /\ mixed' \in BOOLEAN
      BY DEF HistFlags
    <3> QED
      BY <3>1, <3>2, <3>3 DEF WatchTypeOK, TypeOK
  <2>5. CASE Delay
    <3> USE <1>6, <2>5 DEF WatchOther, Delay
    <3>1. MotorTypes' /\ PlaceTypes'
      BY DEF MotorTypes, PlaceTypes, IsrPlaces
    <3>2. CounterTypes' /\ HistCounts' /\ Clamped'
      BY ConstantsAssumption DEF CounterTypes, HistCounts, Clamped, Least
    <3>3. HistFlags' /\ mixed' \in BOOLEAN
      BY DEF HistFlags
    <3> QED
      BY <3>1, <3>2, <3>3 DEF WatchTypeOK, TypeOK
  <2>6. CASE NextDuty
    <3> USE <1>6, <2>6 DEF WatchOther, NextDuty
    <3>1. MotorTypes' /\ PlaceTypes'
      BY DEF MotorTypes, PlaceTypes, IsrPlaces
    <3>2. CounterTypes' /\ HistCounts' /\ Clamped'
      BY ConstantsAssumption DEF CounterTypes, HistCounts, Clamped, Least
    <3>3. HistFlags' /\ mixed' \in BOOLEAN
      BY DEF HistFlags
    <3> QED
      BY <3>1, <3>2, <3>3 DEF WatchTypeOK, TypeOK
  <2>7. CASE ForcePhase
    <3> USE <1>6, <2>7 DEF WatchOther, ForcePhase, Energise
    <3>1. MotorTypes' /\ PlaceTypes'
      BY DEF MotorTypes, PlaceTypes, IsrPlaces
    <3>2. CounterTypes' /\ HistCounts' /\ Clamped'
      BY ConstantsAssumption DEF CounterTypes, HistCounts, Clamped, Least
    <3>3. HistFlags' /\ mixed' \in BOOLEAN
      BY DEF HistFlags
    <3> QED
      BY <3>1, <3>2, <3>3 DEF WatchTypeOK, TypeOK
  <2>8. CASE Unstable
    <3> USE <1>6, <2>8 DEF WatchOther, Unstable, Sensing
    <3>1. MotorTypes' /\ PlaceTypes'
      BY DEF MotorTypes, PlaceTypes, IsrPlaces
    <3>2. CounterTypes' /\ HistCounts' /\ Clamped'
      BY ConstantsAssumption DEF CounterTypes, HistCounts, Clamped, Least
    <3>3. HistFlags' /\ mixed' \in BOOLEAN
      BY DEF HistFlags
    <3> QED
      BY <3>1, <3>2, <3>3 DEF WatchTypeOK, TypeOK
  <2>9. CASE RisingEdge
    <3> USE <1>6, <2>9 DEF WatchOther, RisingEdge, AfterSense, Sensing
    <3>1. MotorTypes' /\ PlaceTypes'
      BY DEF MotorTypes, PlaceTypes, IsrPlaces
    <3>2. CounterTypes' /\ HistCounts' /\ Clamped'
      BY ConstantsAssumption DEF CounterTypes, HistCounts, Clamped, Least
    <3>3. HistFlags' /\ mixed' \in BOOLEAN
      BY DEF HistFlags
    <3> QED
      BY <3>1, <3>2, <3>3 DEF WatchTypeOK, TypeOK
  <2>10. CASE Steady
    <3> USE <1>6, <2>10 DEF WatchOther, Steady, AfterSense, Sensing
    <3>1. MotorTypes' /\ PlaceTypes'
      BY DEF MotorTypes, PlaceTypes, IsrPlaces
    <3>2. CounterTypes' /\ HistCounts' /\ Clamped'
      BY ConstantsAssumption DEF CounterTypes, HistCounts, Clamped, Least
    <3>3. HistFlags' /\ mixed' \in BOOLEAN
      BY DEF HistFlags
    <3> QED
      BY <3>1, <3>2, <3>3 DEF WatchTypeOK, TypeOK
  <2>11. CASE ZeroCross
    <3> USE <1>6, <2>11 DEF WatchOther, ZeroCross, ClampCrossings, Energise
    <3>1. MotorTypes' /\ PlaceTypes'
      BY DEF MotorTypes, PlaceTypes, IsrPlaces
    <3>2. CounterTypes' /\ HistCounts' /\ Clamped'
      BY ConstantsAssumption DEF CounterTypes, HistCounts, Clamped, Least
    <3>3. HistFlags' /\ mixed' \in BOOLEAN
      BY DEF HistFlags
    <3> QED
      BY <3>1, <3>2, <3>3 DEF WatchTypeOK, TypeOK
  <2>12. CASE GivePid
    <3> USE <1>6, <2>12 DEF WatchOther, GivePid
    <3>1. MotorTypes' /\ PlaceTypes'
      BY DEF MotorTypes, PlaceTypes, IsrPlaces
    <3>2. CounterTypes' /\ HistCounts' /\ Clamped'
      BY ConstantsAssumption DEF CounterTypes, HistCounts, Clamped, Least
    <3>3. HistFlags' /\ mixed' \in BOOLEAN
      BY DEF HistFlags
    <3> QED
      BY <3>1, <3>2, <3>3 DEF WatchTypeOK, TypeOK
  <2>13. CASE PidTask
    <3> USE <1>6, <2>13 DEF WatchOther, PidTask, PidTake, PidStore
    <3>1. MotorTypes' /\ PlaceTypes'
      BY DEF MotorTypes, PlaceTypes, IsrPlaces
    <3>2. CounterTypes' /\ HistCounts' /\ Clamped'
      BY ConstantsAssumption DEF CounterTypes, HistCounts, Clamped, Least
    <3>3. HistFlags' /\ mixed' \in BOOLEAN
      BY DEF HistFlags
    <3> QED
      BY <3>1, <3>2, <3>3 DEF WatchTypeOK, TypeOK
  <2>14. CASE AppUnlock \/ AppRearm
    <3> USE <1>6, <2>14 DEF WatchOther, AppUnlock, AppRearm, ClearLock
    <3>1. MotorTypes' /\ PlaceTypes'
      BY DEF MotorTypes, PlaceTypes, IsrPlaces
    <3>2. CounterTypes' /\ HistCounts' /\ Clamped'
      BY ConstantsAssumption DEF CounterTypes, HistCounts, Clamped, Least
    <3>3. HistFlags' /\ mixed' \in BOOLEAN
      BY DEF HistFlags
    <3> QED
      BY <3>1, <3>2, <3>3 DEF WatchTypeOK, TypeOK
  <2>15. CASE ButtonLoad
    <3> USE <1>6, <2>15 DEF WatchOther, ButtonLoad
    <3>1. MotorTypes' /\ PlaceTypes'
      BY DEF MotorTypes, PlaceTypes, IsrPlaces
    <3>2. CounterTypes' /\ HistCounts' /\ Clamped'
      BY ConstantsAssumption DEF CounterTypes, HistCounts, Clamped, Least
    <3>3. HistFlags' /\ mixed' \in BOOLEAN
      BY DEF HistFlags
    <3> QED
      BY <3>1, <3>2, <3>3 DEF WatchTypeOK, TypeOK
  <2> QED
    BY <1>6, <2>1, <2>2, <2>3, <2>4, <2>5, <2>6, <2>7, <2>8, <2>9, <2>10,
          <2>11, <2>12, <2>13, <2>14, <2>15 DEF WatchOther
<1>7. CASE UNCHANGED watchVars
  <2> USE <1>7 DEF watchVars, vars
  <2>1. MotorTypes' /\ PlaceTypes'
    BY DEF MotorTypes, PlaceTypes, IsrPlaces
  <2>2. CounterTypes' /\ HistCounts' /\ Clamped'
    BY ConstantsAssumption DEF CounterTypes, HistCounts, Clamped, Least
  <2>3. HistFlags' /\ mixed' \in BOOLEAN
    BY DEF HistFlags
  <2> QED
    BY <2>1, <2>2, <2>3 DEF WatchTypeOK, TypeOK
<1> QED
  BY <1>1, <1>2, <1>3, <1>4, <1>5, <1>6, <1>7 DEF WatchNext

(* The types hold in every reachable state, for all constants: among them  *)
(* that zeroStableFlag never leaves 0..ZeroStable between ticks and that   *)
(* lock_count never passes its limit (hal_bldc.c:603, main.c:50).          *)
THEOREM TypeCorrect == WatchSpec => []WatchTypeOK
<1>1. WatchInit => WatchTypeOK
  BY TypeInit
<1>2. WatchTypeOK /\ [WatchNext]_watchVars => WatchTypeOK'
  BY TypeStep
<1> QED
  BY <1>1, <1>2, PTL DEF WatchSpec

-----------------------------------------------------------------------------
(* The hand-over is earned.  HandoverEarned is not inductive: edges and     *)
(* zeroStableFlag must agree, and the zero-crossing block must be entered   *)
(* with the threshold reached.                                             *)
CrossingsAgree == edges = Least(zeroStableFlag, ZeroStable)
BlockEarned == isr \in {"zc1", "zc3"} => zeroStableFlag >= ZeroStable
HandoverInv == CrossingsAgree /\ BlockEarned /\ HandoverEarned

LEMMA HandoverStep ==
    ASSUME WatchTypeOK, HandoverInv, [WatchNext]_watchVars
    PROVE  HandoverInv'
<1> USE ConstantsAssumption
    DEF WatchTypeOK, TypeOK, CounterTypes, HistCounts, HandoverInv,
        CrossingsAgree, BlockEarned, HandoverEarned, Least
<1>1. CASE WatchStart
  BY <1>1 DEF WatchStart, StartupPhase, ClearCrossings
<1>2. CASE WatchFalling
  BY <1>2 DEF WatchFalling, FallingEdge, AfterSense, Sensing
<1>3. CASE WatchStall
  BY <1>3 DEF WatchStall, Stall, AfterSense, Sensing
<1>4. CASE WatchPass
  BY <1>4 DEF WatchPass, AppPass, AppRestart
<1>5. ASSUME NEW v \in {STOP, START}, WatchCommand(v)
      PROVE  HandoverInv'
  BY <1>5 DEF WatchCommand, CloudPower, ButtonStore, UserStore
<1>6. CASE WatchOther
  <2>1. CASE IsrEnter \/ IsrStop \/ Dispatch \/ Startup \/ Delay \/ NextDuty
    BY <1>6, <2>1 DEF WatchOther, IsrEnter, IsrStop, Dispatch, CasePlace,
                      Startup, Delay, NextDuty, PlaceTypes, MotorTypes
  <2>2. CASE ForcePhase \/ Unstable \/ GivePid
    BY <1>6, <2>2 DEF WatchOther, ForcePhase, Unstable, GivePid
  <2>3. CASE RisingEdge \/ Steady
    BY <1>6, <2>3 DEF WatchOther, RisingEdge, Steady, AfterSense, Sensing
  <2>4. CASE ZeroCross
    BY <1>6, <2>4 DEF WatchOther, ZeroCross, ClampCrossings
  <2>5. CASE PidTask \/ AppUnlock \/ AppRearm \/ ButtonLoad
    BY <1>6, <2>5 DEF WatchOther, PidTask, PidTake, PidStore, AppUnlock,
                      AppRearm, ButtonLoad
  <2> QED
    BY <1>6, <2>1, <2>2, <2>3, <2>4, <2>5 DEF WatchOther
<1>7. CASE UNCHANGED watchVars
  BY <1>7 DEF watchVars, vars
<1> QED
  BY <1>1, <1>2, <1>3, <1>4, <1>5, <1>6, <1>7 DEF WatchNext

(* For every threshold and every interleaving, the motor is sensorless only *)
(* after ZeroStable falling edges of its present start (hal_bldc.c:654).    *)
THEOREM HandoverIsEarned == WatchSpec => []HandoverEarned
<1>1. WatchInit => HandoverInv
  BY ConstantsAssumption DEF WatchInit, Init, HandoverInv, CrossingsAgree,
     BlockEarned, HandoverEarned, Least
<1>2. WatchTypeOK /\ HandoverInv /\ [WatchNext]_watchVars => HandoverInv'
  BY HandoverStep
<1>3. HandoverInv => HandoverEarned
  BY DEF HandoverInv
<1> QED
  BY <1>1, <1>2, <1>3, TypeCorrect, PTL DEF WatchSpec

-----------------------------------------------------------------------------
(* A STOP holds: nothing that could restart the motor is on its way.        *)
HoldInv == holding => isStart = STOP /\ lock = 0 /\ ~StallAhead

LEMMA HoldStep ==
    ASSUME HoldInv, [WatchNext]_watchVars
    PROVE  HoldInv'
<1> USE DEF HoldInv, StallAhead
<1>1. CASE WatchStart
  BY <1>1 DEF WatchStart, StartupPhase
<1>2. CASE WatchFalling
  BY <1>2 DEF WatchFalling, FallingEdge, AfterSense, Sensing
<1>3. CASE WatchStall
  BY <1>3 DEF WatchStall, Stall, AfterSense, Sensing
<1>4. CASE WatchPass
  BY <1>4 DEF WatchPass, AppPass, AppRestart, PowerOn, Locked
<1>5. ASSUME NEW v \in {STOP, START}, WatchCommand(v)
      PROVE  HoldInv'
  BY <1>5 DEF WatchCommand, CloudPower, ButtonStore, UserStore
<1>6. CASE WatchOther
  <2>1. CASE IsrEnter \/ IsrStop \/ Dispatch \/ Startup \/ Delay \/ NextDuty
    BY <1>6, <2>1 DEF WatchOther, IsrEnter, IsrStop, Dispatch, Startup, Delay,
                      NextDuty
  <2>2. CASE ForcePhase \/ Unstable \/ GivePid
    BY <1>6, <2>2 DEF WatchOther, ForcePhase, Unstable, GivePid, Sensing
  <2>3. CASE RisingEdge \/ Steady
    BY <1>6, <2>3 DEF WatchOther, RisingEdge, Steady, AfterSense, Sensing
  <2>4. CASE ZeroCross
    BY <1>6, <2>4 DEF WatchOther, ZeroCross
  <2>5. CASE PidTask \/ AppUnlock \/ AppRearm \/ ButtonLoad
    BY <1>6, <2>5 DEF WatchOther, PidTask, PidTake, PidStore, AppUnlock,
                      ClearLock, AppRearm, ButtonLoad
  <2> QED
    BY <1>6, <2>1, <2>2, <2>3, <2>4, <2>5 DEF WatchOther
<1>7. CASE UNCHANGED watchVars
  BY <1>7 DEF watchVars, vars
<1> QED
  BY <1>1, <1>2, <1>3, <1>4, <1>5, <1>6, <1>7 DEF WatchNext

(* A STOP given while no stall is pending is never undone by the firmware   *)
(* itself (main.c:48-56, hal_bldc.c:587-594).                               *)
THEOREM StopIsHeld == WatchSpec => []StopHolds
<1>1. WatchInit => HoldInv
  BY DEF WatchInit, HoldInv
<1>2. HoldInv /\ [WatchNext]_watchVars => HoldInv'
  BY HoldStep
<1>3. HoldInv => StopHolds
  BY DEF HoldInv, StopHolds
<1> QED
  BY <1>1, <1>2, <1>3, PTL DEF WatchSpec

-----------------------------------------------------------------------------
(* The cool-down.  While the lock stands and the user stays out of it,      *)
(* lockCount is the number of passes since the stall; that needs the motor  *)
(* to stay stopped, for a second stall would find the count half way.       *)
CountIdle == lock = 0 \/ app # "pass" => lockCount = 0

Waiting == lock = 1 /\ ~touched /\ app # "unlock"

CoolInv ==
    /\ CountIdle
    /\ Waiting => isStart = STOP /\ ~StallAhead /\ passes = lockCount

LEMMA CoolStep ==
    ASSUME WatchTypeOK, CoolInv, [WatchNext]_watchVars
    PROVE  CoolInv'
<1> USE ConstantsAssumption
    DEF WatchTypeOK, TypeOK, CounterTypes, HistCounts, CoolInv, CountIdle,
        Waiting, StallAhead
<1>1. CASE WatchStart
  BY <1>1 DEF WatchStart, StartupPhase
<1>2. CASE WatchFalling
  BY <1>2 DEF WatchFalling, FallingEdge, AfterSense, Sensing
<1>3. CASE WatchStall
  BY <1>3 DEF WatchStall, Stall, AfterSense, Sensing, MotorTypes
<1>4. CASE WatchPass
  BY <1>4 DEF WatchPass, AppPass, AppRestart, PowerOn, Locked, LockExpired, Least
<1>5. ASSUME NEW v \in {STOP, START}, WatchCommand(v)
      PROVE  CoolInv'
  BY <1>5 DEF WatchCommand, CloudPower, ButtonStore, UserStore
<1>6. CASE WatchOther
  <2>1. CASE IsrEnter \/ IsrStop \/ Dispatch \/ Startup \/ Delay \/ NextDuty
    BY <1>6, <2>1 DEF WatchOther, IsrEnter, IsrStop, Dispatch, CasePlace,
                      Startup, Delay, NextDuty
  <2>2. CASE ForcePhase \/ Unstable \/ GivePid
    BY <1>6, <2>2 DEF WatchOther, ForcePhase, Energise, Unstable, Sensing,
                      GivePid, PidMayRun
  <2>3. CASE RisingEdge \/ Steady
    BY <1>6, <2>3 DEF WatchOther, RisingEdge, Steady, AfterSense, Sensing
  <2>4. CASE ZeroCross
    BY <1>6, <2>4 DEF WatchOther, ZeroCross, Energise
  <2>5. CASE PidTask
    BY <1>6, <2>5 DEF WatchOther, PidTask, PidTake, PidStore
  <2>6. CASE AppUnlock \/ AppRearm \/ ButtonLoad
    BY <1>6, <2>6 DEF WatchOther, AppUnlock, ClearLock, AppRearm, ButtonLoad
  <2> QED
    BY <1>6, <2>1, <2>2, <2>3, <2>4, <2>5, <2>6 DEF WatchOther
<1>7. CASE UNCHANGED watchVars
  BY <1>7 DEF watchVars, vars
<1> QED
  BY <1>1, <1>2, <1>3, <1>4, <1>5, <1>6, <1>7 DEF WatchNext

(* The restart after a stall is never early, whatever the number of passes  *)
(* and however the tasks and the interrupt interleave (main.c:48-56).       *)
THEOREM CoolDownKept == WatchSpec => CoolDown
<1>1. WatchInit => CoolInv
  BY DEF WatchInit, Init, CoolInv, CountIdle, Waiting
<1>2. WatchTypeOK /\ CoolInv /\ [WatchNext]_watchVars => CoolInv'
  BY CoolStep
<1>3. WatchTypeOK /\ CoolInv
      => [AppRestart => passes + 1 >= LockPasses \/ touched]_watchVars
  BY ConstantsAssumption DEF WatchTypeOK, TypeOK, CounterTypes, HistCounts,
     CoolInv, Waiting, AppRestart, Locked, LockExpired
<1> QED
  BY <1>1, <1>2, <1>3, TypeCorrect, PTL DEF WatchSpec, CoolDown

-----------------------------------------------------------------------------
(* The start-up ramp.  A forced phase, and the places of the interrupt that *)
(* can make one, exclude a PID result in flight, unless it was there when   *)
(* the motor started.                                                      *)
Forced == runStep \in {1, 2} \/ isr \in {"case1", "case2"}
NoPid  == ~PidUnderway /\ bridge # "pid"
RampInv == Forced /\ ~latePid => NoPid

LEMMA RampStep ==
    ASSUME WatchTypeOK, RampInv, [WatchNext]_watchVars
    PROVE  RampInv'
<1> USE DEF WatchTypeOK, TypeOK, MotorTypes, RampInv, Forced, NoPid, PidUnderway
<1>1. CASE WatchStart
  BY <1>1 DEF WatchStart, StartupPhase, Energise
<1>2. CASE WatchFalling
  BY <1>2 DEF WatchFalling, FallingEdge, AfterSense, Sensing
<1>3. CASE WatchStall
  BY <1>3 DEF WatchStall, Stall, StopBridge, AfterSense, Sensing
<1>4. CASE WatchPass
  BY <1>4 DEF WatchPass, AppPass, AppRestart
<1>5. ASSUME NEW v \in {STOP, START}, WatchCommand(v)
      PROVE  RampInv'
  BY <1>5 DEF WatchCommand, CloudPower, ButtonStore, UserStore
<1>6. CASE WatchOther
  <2>1. CASE IsrEnter \/ IsrStop \/ Dispatch \/ Startup \/ Delay \/ NextDuty
    BY <1>6, <2>1 DEF WatchOther, IsrEnter, IsrStop, Dispatch, CasePlace,
                      Startup, Delay, NextDuty
  <2>2. CASE ForcePhase \/ Unstable \/ GivePid
    BY <1>6, <2>2 DEF WatchOther, ForcePhase, Energise, Unstable, Sensing,
                      GivePid, PidMayRun
  <2>3. CASE RisingEdge \/ Steady
    BY <1>6, <2>3 DEF WatchOther, RisingEdge, Steady, AfterSense, Sensing
  <2>4. CASE ZeroCross
    BY <1>6, <2>4 DEF WatchOther, ZeroCross, Energise
  <2>5. CASE PidTask
    BY <1>6, <2>5 DEF WatchOther, PidTask, PidTake, PidStore
  <2>6. CASE AppUnlock \/ AppRearm \/ ButtonLoad
    BY <1>6, <2>6 DEF WatchOther, AppUnlock, ClearLock, AppRearm, ButtonLoad
  <2> QED
    BY <1>6, <2>1, <2>2, <2>3, <2>4, <2>5, <2>6 DEF WatchOther
<1>7. CASE UNCHANGED watchVars
  BY <1>7 DEF watchVars, vars
<1> QED
  BY <1>1, <1>2, <1>3, <1>4, <1>5, <1>6, <1>7 DEF WatchNext

(* In every forced phase the bridge carries a start-up duty, unless a PID   *)
(* result of the previous run was pending at the start (main.c:94,119).     *)
THEOREM RampIsKept == WatchSpec => []RampNotPid
<1>1. WatchInit => RampInv
  BY DEF WatchInit, Init, RampInv, Forced
<1>2. WatchTypeOK /\ RampInv /\ [WatchNext]_watchVars => RampInv'
  BY RampStep
<1>3. RampInv => RampNotPid
  BY DEF RampInv, RampNotPid, Forced, NoPid
<1> QED
  BY <1>1, <1>2, <1>3, TypeCorrect, PTL DEF WatchSpec

-----------------------------------------------------------------------------
(* The motor implements DriveGate.  Every step is a step of the promise or  *)
(* leaves all of its variables alone; the only fact needed about reachable  *)
(* states is that the switch on runStep finds one of its cases.             *)
InCases == runStep \in 0..3

LEMMA CasesStep ==
    ASSUME InCases, [Next]_vars
    PROVE  InCases'
<1> USE DEF InCases
<1>1. CASE Isr
  BY <1>1 DEF Isr, IsrEnter, IsrStop, Dispatch, Startup, StartupPhase, Delay,
     NextDuty, ForcePhase, Unstable, RisingEdge, FallingEdge, Steady, Stall,
     ZeroCross, GivePid
<1>2. CASE AppTask \/ PidTask
  BY <1>2 DEF AppTask, AppPass, AppRestart, AppUnlock, AppRearm, PidTask,
     PidTake, PidStore
<1>3. CASE User
  BY <1>3 DEF User, ButtonLoad, ButtonStore, CloudPower, UserStore
<1>4. CASE UNCHANGED vars
  BY <1>4 DEF vars
<1> QED
  BY <1>1, <1>2, <1>3, <1>4 DEF Next

LEMMA GateStep ==
    ASSUME InCases, [Next]_vars
    PROVE  [Gate!Next]_(Gate!gvars)
<1> USE DEF Gate!gvars, Gate!Next, Gate!Tick, GatePlace, Live
<1>1. CASE IsrEnter
  BY <1>1 DEF IsrEnter, Gate!See
<1>2. CASE IsrStop
  BY <1>2 DEF IsrStop, StopBridge, Gate!Cut
<1>3. CASE Dispatch
  BY <1>3 DEF Dispatch, CasePlace, InCases
<1>4. CASE Startup \/ Delay \/ NextDuty
  BY <1>4 DEF Startup, Delay, NextDuty
<1>5. CASE StartupPhase \/ ForcePhase
  BY <1>5 DEF StartupPhase, ForcePhase, Gate!Release
<1>6. CASE Unstable
  BY <1>6 DEF Unstable, Sensing, Gate!Release
<1>7. CASE RisingEdge \/ FallingEdge \/ Steady
  BY <1>7 DEF RisingEdge, FallingEdge, Steady, Sensing, AfterSense, Gate!Release
<1>8. CASE Stall
  BY <1>8 DEF Stall, StopBridge, Sensing, AfterSense, Gate!Trip
<1>9. CASE ZeroCross
  BY <1>9 DEF ZeroCross, Gate!Release
<1>10. CASE GivePid
  BY <1>10 DEF GivePid
<1>11. CASE PidTask \/ AppPass \/ AppRearm \/ ButtonLoad
  BY <1>11 DEF PidTask, PidTake, PidStore, AppPass, AppRearm, ButtonLoad
<1>12. CASE AppRestart
  BY <1>12 DEF AppRestart, Locked, PowerOn, Gate!Retry
<1>13. CASE AppUnlock
  BY <1>13 DEF AppUnlock, ClearLock, Gate!Clear
<1>14. ASSUME NEW v \in {STOP, START}, UserStore(v)
       PROVE  Gate!Command(v)
  BY <1>14 DEF UserStore, Gate!Command
<1>15. CASE ButtonStore \/ \E v \in {STOP, START} : CloudPower(v)
  BY <1>14, <1>15 DEF ButtonStore, CloudPower
<1>16. CASE UNCHANGED vars
  BY <1>16 DEF vars
<1> QED
  BY <1>1, <1>2, <1>3, <1>4, <1>5, <1>6, <1>7, <1>8, <1>9, <1>10, <1>11,
     <1>12, <1>13, <1>15, <1>16 DEF Next, Isr, AppTask, PidTask, User

(* The motor keeps the safety part of the promise of DriveGate: it drives   *)
(* only in a tick that saw START, a tick that saw STOP takes the drive away, *)
(* a START that is not the user's comes only on a standing stall, and only  *)
(* the user and a trip switch it off.                                       *)
THEOREM MotorImplementsGate == Spec => GateSpec
<1>1. Init => Gate!Init
  BY DEF Init, Gate!Init, GatePlace, Live
<1>2. Init => InCases
  BY DEF Init, InCases
<1>3. InCases /\ [Next]_vars => InCases'
  BY CasesStep
<1>4. InCases /\ [Next]_vars => [Gate!Next]_(Gate!gvars)
  BY GateStep
<1> QED
  BY <1>1, <1>2, <1>3, <1>4, PTL DEF Spec, GateSpec, Gate!Spec

-----------------------------------------------------------------------------
(* The lock runs down.  The steps of app_task until the lock is cleared.   *)
ToRelease ==
    CASE app = "unlock" -> 1
      [] app = "pass"   -> LockPasses - lockCount + 1
      [] OTHER          -> LockPasses - lockCount + 2

LockRuns ==
    /\ lock \in {0, 1} /\ lockCount \in 0..(LockPasses - 1)
    /\ app \in {"pass", "unlock", "rearm"}
    /\ app = "unlock" => lock = 1

(* Each step of app_task brings the release of the lock one nearer, until  *)
(* the last but one switches the motor on and the last clears the lock,    *)
(* and no step of anybody else takes it away or puts it off.               *)
RunsDown ==
    lock = 1 => /\ ToRelease \in 1..(LockPasses + 2)
                /\ lock' = 0 <=> AppTask /\ ToRelease = 1
                /\ AppTask /\ ToRelease = 2 => isStart' = START
                /\ lock' = 1 => ToRelease' = IF AppTask THEN ToRelease - 1 ELSE ToRelease

LEMMA RunsStep ==
    ASSUME LockRuns, [Next]_vars
    PROVE  LockRuns' /\ RunsDown
<1> USE ConstantsAssumption DEF LockRuns
<1>1. lock = 1 => ToRelease \in 1..(LockPasses + 2)
  BY DEF ToRelease
<1>2. app = "unlock" <=> ToRelease = 1
  BY DEF ToRelease
<1>3. CASE AppPass
  <2>1. lockCount + 1 # LockPasses /\ lockCount' = lockCount + 1 /\ app = "pass" /\ lock = 1
        /\ UNCHANGED <<lock, app>>
    BY <1>3 DEF AppPass, LockExpired, Locked, shared
  <2>2. AppTask
    BY <1>3 DEF AppTask
  <2> QED BY <1>1, <1>2, <2>1, <2>2 DEF RunsDown, ToRelease
<1>4. CASE AppRestart
  <2>1. lockCount + 1 = LockPasses /\ lockCount' = 0 /\ app = "pass" /\ app' = "unlock" /\ lock = 1
        /\ isStart' = START /\ UNCHANGED lock
    BY <1>4 DEF AppRestart, LockExpired, Locked, PowerOn
  <2>2. AppTask
    BY <1>4 DEF AppTask
  <2> QED BY <1>1, <1>2, <2>1, <2>2 DEF RunsDown, ToRelease
<1>5. CASE AppUnlock
  <2>1. app = "unlock" /\ app' = "rearm" /\ lock' = 0 /\ UNCHANGED lockCount
    BY <1>5 DEF AppUnlock, ClearLock
  <2>2. AppTask
    BY <1>5 DEF AppTask
  <2> QED BY <1>1, <1>2, <2>1, <2>2 DEF RunsDown
<1>6. CASE AppRearm
  <2>1. app = "rearm" /\ app' = "pass" /\ UNCHANGED <<lock, lockCount>>
    BY <1>6 DEF AppRearm
  <2>2. AppTask
    BY <1>6 DEF AppTask
  <2> QED BY <1>1, <1>2, <2>1, <2>2 DEF RunsDown, ToRelease
<1>7. CASE Isr \/ PidTask \/ User \/ UNCHANGED vars
  <2>1. UNCHANGED <<app, lockCount>> /\ lock' \in {lock, 1}
    <3>1. CASE Isr
      BY <3>1 DEF Isr, IsrEnter, IsrStop, Dispatch, Startup, StartupPhase, Delay, NextDuty, ForcePhase,
                  Unstable, RisingEdge, FallingEdge, Steady, Stall, ZeroCross, GivePid, shared, tasks
    <3>2. CASE PidTask
      BY <3>2 DEF PidTask, PidTake, PidStore, shared
    <3>3. CASE User
      BY <3>3 DEF User, ButtonLoad, ButtonStore, CloudPower, UserStore, shared
    <3>4. CASE UNCHANGED vars
      BY <3>4 DEF vars, shared, tasks
    <3> QED BY <1>7, <3>1, <3>2, <3>3, <3>4
  <2>2. AppTask => app' # app \/ lockCount' # lockCount
    BY DEF AppTask, AppPass, AppRestart, AppUnlock, AppRearm
  <2> QED BY <1>1, <1>2, <2>1, <2>2 DEF RunsDown, ToRelease
<1> QED BY <1>3, <1>4, <1>5, <1>6, <1>7 DEF Next, AppTask

(* A stalled motor's lock stands for as many steps of app_task as its cool-*)
(* down has left, and goes only after the motor was switched on again,     *)
(* whatever the interrupt, the controller and the user do meanwhile: what  *)
(* StallIsRetried rests on (main.c:44-56).                                 *)
THEOREM LockRunsDown == Spec => [][RunsDown]_vars
<1>1. Init => LockRuns
  BY ConstantsAssumption DEF Init, LockRuns
<1>2. LockRuns /\ [Next]_vars => LockRuns' /\ [RunsDown]_vars
  BY RunsStep
<1> QED BY <1>1, <1>2, PTL DEF Spec

-----------------------------------------------------------------------------
(* A STOP is near the bridge.  The steps of the interrupt that a stopped   *)
(* motor's bridge may still wait for.                                      *)
StepsToStop ==
    CASE isr = "stop" -> 1
      [] isr = "idle" -> 2
      [] isr = "give" -> 3
      [] isr \in {"startup", "phase", "zc1", "zc3"} -> 4
      [] isr \in {"case0", "case2", "sense1", "sense3"} -> 5
      [] isr = "case1" -> 6
      [] OTHER -> 7

(* While STOP stands, each step of the interrupt is nearer to opening the  *)
(* switches than the one before or opens them, and no task's step takes    *)
(* it back.                                                                *)
NearsStop ==
    isStart = STOP =>
        IF Isr THEN bridge' = "off" \/ StepsToStop' < StepsToStop
        ELSE StepsToStop' = StepsToStop

LEMMA NearsStep ==
    ASSUME InCases, [Next]_vars
    PROVE  NearsStop
<1> USE DEF StepsToStop
<1>1. CASE IsrEnter \/ IsrStop \/ Startup \/ StartupPhase \/ Delay \/ NextDuty \/ ForcePhase \/ GivePid
  <2>1. \/ isr = "idle" /\ isr' = (IF isStart = START THEN "step" ELSE "stop")
        \/ isr = "stop" /\ bridge' = "off"
        \/ isr = "case0" /\ isr' = "startup"
        \/ isr = "startup" /\ isr' = "give"
        \/ isr = "case1" /\ isr' = "sense1"
        \/ isr = "case2" /\ isr' = "phase"
        \/ isr = "phase" /\ isr' = "give"
        \/ isr = "give" /\ isr' = "idle"
    BY <1>1 DEF IsrEnter, IsrStop, StopBridge, Startup, StartupPhase, Delay, NextDuty, ForcePhase,
                GivePid
  <2>2. Isr
    BY <1>1 DEF Isr
  <2> QED BY <2>1, <2>2 DEF NearsStop
<1>2. CASE Dispatch
  <2>1. isr = "step" /\ isr' \in {"case0", "case1", "case2", "sense3"}
    BY <1>2 DEF Dispatch, CasePlace, InCases
  <2>2. Isr
    BY <1>2 DEF Isr
  <2> QED BY <2>1, <2>2 DEF NearsStop
<1>3. CASE Unstable \/ RisingEdge \/ FallingEdge \/ Steady \/ Stall \/ ZeroCross
  <2>1. \/ isr \in {"sense1", "sense3"} /\ isr' \in {"give", "zc1", "zc3"}
        \/ isr \in {"zc1", "zc3"} /\ isr' = "give"
    BY <1>3 DEF Unstable, RisingEdge, FallingEdge, Steady, Stall, ZeroCross, Sensing, AfterSense
  <2>2. Isr
    BY <1>3 DEF Isr
  <2> QED BY <2>1, <2>2 DEF NearsStop
<1>4. CASE AppTask \/ PidTask \/ User \/ UNCHANGED vars
  <2>1. isr' = isr
    <3>1. CASE AppTask
      BY <3>1 DEF AppTask, AppPass, AppRestart, AppUnlock, AppRearm
    <3>2. CASE PidTask
      BY <3>2 DEF PidTask, PidTake, PidStore
    <3>3. CASE User
      BY <3>3 DEF User, ButtonLoad, ButtonStore, CloudPower, UserStore
    <3>4. CASE UNCHANGED vars
      BY <3>4 DEF vars
    <3> QED BY <1>4, <3>1, <3>2, <3>3, <3>4
  <2>2. ~Isr
    <3>1. ~(IsrEnter \/ IsrStop \/ Startup \/ StartupPhase \/ Delay \/ NextDuty \/ ForcePhase \/ GivePid)
      BY <2>1 DEF IsrEnter, IsrStop, Startup, StartupPhase, Delay, NextDuty, ForcePhase, GivePid
    <3>2. ~Dispatch
      BY <2>1 DEF Dispatch, CasePlace, InCases
    <3>3. ~(Unstable \/ RisingEdge \/ FallingEdge \/ Steady \/ Stall \/ ZeroCross)
      BY <2>1 DEF Unstable, RisingEdge, FallingEdge, Steady, Stall, ZeroCross, Sensing, AfterSense
    <3> QED BY <3>1, <3>2, <3>3 DEF Isr
  <2> QED BY <2>1, <2>2 DEF NearsStop
<1> QED BY <1>1, <1>2, <1>3, <1>4 DEF Next, Isr

(* A STOP that stands opens every switch within seven steps of the         *)
(* interrupt, whichever place of a tick it came at and whatever the tasks  *)
(* store meanwhile: the safety half of StopReachesBridge                   *)
(* (hal_bldc.c:643-709).                                                   *)
THEOREM StopIsNear == Spec => [][NearsStop]_vars
<1>1. Init => InCases
  BY DEF Init, InCases
<1>2. InCases /\ [Next]_vars => InCases' /\ [NearsStop]_vars
  BY CasesStep, NearsStep
<1> QED BY <1>1, <1>2, PTL DEF Spec

=============================================================================
