--------------------------- MODULE SpeedLoopProofs ---------------------------
(***************************************************************************)
(* Proofs about SpeedLoop, for every gain, limit and set of speeds.        *)
(*                                                                         *)
(* CleanStart speaks of one step.  The invariant behind it: a motor the    *)
(* stop branch has put to rest, with no store owed by a task, has its      *)
(* controller reset and both tasks asleep, and nothing wakes them before   *)
(* the motor is sensorless again.                                          *)
(*                                                                         *)
(* The measured speed is what the filter makes of its memory and a reading:*)
(* the arithmetic of its truncation says where it moves and where it rests.*)
(***************************************************************************)
EXTENDS SpeedLoop, TLAPS

AtRest == runStep = 0 /\ ~owed /\ ~rearmed
Reset  == Ui = 0 /\ SetPoint = DefaultSpeed
Asleep == sem # 1 /\ pid = "wait" /\ app = "pass"

RestInv == AtRest => Reset /\ Asleep

LEMMA RestInit == Init => RestInv
BY DEF Init, RestInv, AtRest, Reset, Asleep

(* A step that leaves the motor at rest found it at rest, or is the tick    *)
(* that put it there.                                                      *)
LEMMA RestStep ==
    ASSUME RestInv, [Next]_vars
    PROVE  RestInv'
<1> USE DEF RestInv, AtRest, Reset, Asleep, motor, measure, ctrl, asked,
            pidTask, history
<1>1. CASE StopTick
  BY <1>1 DEF StopTick, ResetIntegral, ResetSetPoint
<1>2. CASE Startup \/ OpenLoop \/ RunTick \/ Stall
  BY <1>2 DEF Startup, OpenLoop, RunTick, Stall, Give
<1>3. CASE PidTask
  BY <1>3 DEF PidTask, PidTake, PidIntegrate, PidDrive
<1>4. CASE AppRestart
  BY <1>4 DEF AppRestart
<1>5. CASE AppCheck \/ AppRefresh
  BY <1>5 DEF AppCheck, AppRefresh
<1>6. CASE User
  BY <1>6 DEF User, SetPower, SetSpeed, SetMode
<1>7. CASE UNCHANGED vars
  BY <1>7 DEF vars
<1> QED BY <1>1, <1>2, <1>3, <1>4, <1>5, <1>6, <1>7 DEF Next, Tick, AppTask

(* A start begins with an empty integral and the default set point unless   *)
(* a task stored late or app_task skipped the stop branch, whatever the    *)
(* order of the interrupt, the two tasks and the user (main.c:48-73,111).  *)
THEOREM StartsAreClean == Spec => CleanStart
<1>1. RestInv /\ [Next]_vars =>
        [Startup => (Ui = 0 /\ SetPoint = DefaultSpeed) \/ owed \/ rearmed]_vars
  BY DEF RestInv, AtRest, Reset, Startup
<1>2. RestInv /\ [Next]_vars => RestInv'
  BY RestStep
<1> QED BY RestInit, <1>1, <1>2, PTL DEF Spec, CleanStart

(* Arithmetic of the controller.                                            *)
LEMMA LimitRange ==
    ASSUME NEW x \in Int, NEW b \in Nat
    PROVE  Limit(x, b) \in -b..b
BY DEF Limit

(* The filter of two speeds is a speed.                                    *)
LEMMA LpfRange ==
    ASSUME NEW p \in Nat, NEW v \in Nat
    PROVE  Lpf(p, v) \in Nat
<1> DEFINE top == LpfOld * p + LpfNew * v
           all == LpfOld + LpfNew
<1>1. top \in Nat /\ all \in Nat \ {0}
  <2>1. LpfOld * p \in Nat /\ LpfNew * v \in Nat
    BY ConstantsAssumption
  <2> QED BY <2>1, ConstantsAssumption
<1> HIDE DEF top, all
<1>2. top \div all \in Nat
  BY <1>1
<1> QED BY <1>2 DEF Lpf, top, all

(* The clamp and abs leave a duty of a pass between the least and the largest. *)
LEMMA DutyRange ==
    ASSUME NEW x \in -OutMax..OutMax
    PROVE  Abs(MinClamp(x)) \in MinDuty..OutMax
BY ConstantsAssumption DEF Abs, MinClamp

(* A measured speed is a speed.                                            *)
LEMMA MeasureTypes ==
    ASSUME TypeOK, Measure \/ UNCHANGED measure
    PROVE  speedRpm' \in Nat /\ valuePrev' \in Nat
BY LpfRange, ConstantsAssumption DEF Measure, measure, TypeOK

(* Every step of the interrupt, the tasks and the user keeps the ranges.   *)
LEMMA SpeedTypesStep ==
    ASSUME TypeOK, [Next]_vars
    PROVE  TypeOK'
<1> USE DEF motor, measure, ctrl, asked, pidTask, history
<1>1. CASE StopTick
  <2>1. owed' \in BOOLEAN /\ rearmed' \in BOOLEAN
    BY <1>1 DEF StopTick
  <2>2. /\ runStep' = 0 /\ pwmDuty' = 0 /\ Ui' = 0 /\ SetPoint' = DefaultSpeed
        /\ UNCHANGED <<isStart, lock, measure, asked, sem, pidTask, app>>
    BY <1>1 DEF StopTick, ResetIntegral, ResetSetPoint
  <2> QED BY <2>1, <2>2, ConstantsAssumption DEF SetPoints, TypeOK
<1>2. CASE Startup
  BY <1>2 DEF Startup, TypeOK
<1>3. CASE OpenLoop
  <2>1. speedRpm' \in Nat /\ valuePrev' \in Nat
    BY <1>3, MeasureTypes DEF OpenLoop
  <2> QED BY <1>3, <2>1 DEF OpenLoop, Give, TypeOK
<1>4. CASE RunTick
  <2>1. speedRpm' \in Nat /\ valuePrev' \in Nat
    BY <1>4, MeasureTypes DEF RunTick
  <2> QED BY <1>4, <2>1 DEF RunTick, Give, TypeOK
<1>5. CASE Stall
  BY <1>5 DEF Stall, TypeOK
<1>6. CASE PidTake
  <2>1. SetPoint \in Int /\ speedRpm \in Int /\ Ui \in Int
    <3>1. SetPoint \in SetPoints /\ speedRpm \in Nat /\ Ui \in -MaxDuty..MaxDuty
      BY DEF TypeOK
    <3>2. SetPoints \subseteq Nat /\ MaxDuty \in Nat
      BY ConstantsAssumption DEF SetPoints
    <3>3. Ui \in Int
      BY <3>1, <3>2
    <3> QED BY <3>1, <3>2, <3>3
  <2>2. err' \in Int
    BY <1>6, <2>1 DEF PidTake
  <2>3. Ui + Ki * (SetPoint - speedRpm) \in Int
    <3>1. Ki * (SetPoint - speedRpm) \in Int
      BY <2>1, ConstantsAssumption
    <3> QED BY <2>1, <3>1
  <2>4. sum' \in -MaxDuty..MaxDuty
    BY <1>6, <2>3, LimitRange, ConstantsAssumption DEF PidTake
  <2> QED BY <1>6, <2>2, <2>4 DEF PidTake, TypeOK
<1>7. CASE PidIntegrate
  BY <1>7 DEF PidIntegrate, TypeOK
<1>8. CASE PidDrive
  <2>1. Kp * err + sum \in Int
    <3>1. Kp * err \in Int /\ sum \in Int
      BY ConstantsAssumption DEF TypeOK
    <3> QED BY <3>1
  <2>2. Output \in -OutMax..OutMax
    BY <2>1, LimitRange, ConstantsAssumption DEF Output
  <2>3. pwmDuty' \in MinDuty..OutMax
    BY <1>8, <2>2, DutyRange DEF PidDrive
  <2>4. 0 \in Int /\ 0 \in -MaxDuty..MaxDuty
    BY ConstantsAssumption
  <2> QED BY <1>8, <2>3, <2>4 DEF PidDrive, TypeOK
<1>9. CASE AppRestart \/ AppCheck
  BY <1>9 DEF AppRestart, AppCheck, TypeOK
<1>10. CASE AppRefresh
  <2>1. SetPoint' \in SetPoints
    BY <1>10 DEF AppRefresh, Refresh, SetPoints, TypeOK
  <2> QED BY <1>10, <2>1 DEF AppRefresh, TypeOK, SetPoints
<1>11. CASE User
  BY <1>11 DEF User, SetPower, SetSpeed, SetMode, TypeOK, SetPoints
<1>12. CASE UNCHANGED vars
  BY <1>12 DEF vars, TypeOK, SetPoints
<1> QED BY <1>1, <1>2, <1>3, <1>4, <1>5, <1>6, <1>7, <1>8, <1>9, <1>10, <1>11, <1>12
        DEF Next, Tick, AppTask, PidTask

(* The integral keeps within its limits, and a running duty is the ramp's or *)
(* between the least duty and the output's limit, for every gain and set of *)
(* speeds (app_pid.c:35-61, main.c:107-121).                                *)
THEOREM ControllerRanges == Spec => []TypeOK
<1>1. Init => TypeOK
  <2>1. Init => owed \in BOOLEAN /\ rearmed \in BOOLEAN
    BY DEF Init
  <2>2. Init => /\ isStart = STOP /\ lock = 0 /\ pwmDuty = 0 /\ runStep = 0
                /\ speedRpm = 0 /\ valuePrev = 0 /\ SetPoint = DefaultSpeed /\ Ui = 0
                /\ mode = "normal" /\ speed = DefaultSpeed
                /\ sem = 0 /\ pid = "wait" /\ err = 0 /\ sum = 0 /\ app = "pass"
    BY DEF Init
  <2> QED BY <2>1, <2>2, ConstantsAssumption DEF TypeOK, SetPoints
<1> QED BY <1>1, SpeedTypesStep, PTL DEF Spec

-----------------------------------------------------------------------------
(* The memory of the filter.                                               *)
LEMMA QuotientFits ==
    ASSUME NEW n \in Nat, NEW d \in Nat \ {0}
    PROVE  n \div d \in Nat /\ d * (n \div d) <= n /\ n < d * (n \div d) + d
OBVIOUS

LEMMA FactorCancels ==
    ASSUME NEW d \in Nat \ {0}, NEW a \in Int, NEW b \in Int, d * a < d * b
    PROVE  a < b
<1>1. ASSUME b <= a PROVE FALSE
  <2>1. d * (a - b) \in Nat /\ d * (a - b) = d * a - d * b
    BY <1>1
  <2> QED BY <2>1
<1> QED BY <1>1

LEMMA LpfFits ==
    ASSUME NEW p \in Nat, NEW v \in Nat
    PROVE  LET all == LpfOld + LpfNew IN
           /\ all \in Nat \ {0} /\ LpfNew * v \in Nat /\ LpfNew * p \in Nat /\ LpfOld * v \in Nat
           /\ all * Lpf(p, v) <= all * p + LpfNew * (v - p)
           /\ all * p + LpfNew * (v - p) < all * Lpf(p, v) + all
<1> DEFINE n == LpfOld * p + LpfNew * v
           all == LpfOld + LpfNew
<1>1. n \in Nat /\ all \in Nat \ {0} /\ LpfNew * v \in Nat /\ LpfNew * p \in Nat /\ LpfOld * v \in Nat
  <2>1. /\ LpfOld * p \in Nat /\ LpfNew * v \in Nat /\ LpfNew * p \in Nat /\ LpfOld * v \in Nat
    BY ConstantsAssumption
  <2> QED BY <2>1, ConstantsAssumption
<1>2. n = all * p + LpfNew * (v - p)
  <2>1. LpfOld \in Int /\ LpfNew \in Int
    BY ConstantsAssumption
  <2> QED BY <2>1
<1>3. all * (n \div all) <= n /\ n < all * (n \div all) + all
  <2> HIDE DEF n, all
  <2> QED BY <1>1, QuotientFits
<1>4. Lpf(p, v) = n \div all
  BY DEF Lpf
<1> HIDE DEF n
<1> QED BY <1>1, <1>2, <1>3, <1>4

(* The filter stays between what it remembers and what it is given.        *)
LEMMA FilterIsBetween ==
    ASSUME NEW p \in Nat, NEW v \in Nat
    PROVE  /\ p <= v => p <= Lpf(p, v) /\ Lpf(p, v) <= v
           /\ v <= p => v <= Lpf(p, v) /\ Lpf(p, v) <= p
<1> DEFINE all == LpfOld + LpfNew
           q == Lpf(p, v)
<1>1. /\ all \in Nat \ {0} /\ q \in Nat
      /\ all * q <= all * p + LpfNew * (v - p)
      /\ all * p + LpfNew * (v - p) < all * q + all
  BY LpfFits, LpfRange
<1>2. all * p + LpfNew * (v - p) = all * v + LpfOld * (p - v)
  BY ConstantsAssumption
<1>3. /\ LpfNew \in Nat /\ LpfOld \in Nat
  BY ConstantsAssumption
<1> HIDE DEF all, q
<1>4. CASE p <= v
  <2>1. LpfNew * (v - p) \in Nat /\ LpfOld * (v - p) \in Nat /\ LpfOld * (p - v) = -(LpfOld * (v - p))
    BY <1>3, <1>4
  <2>2. all * p < all * (q + 1)
    BY <1>1, <1>3, <2>1
  <2>3. all * q < all * (v + 1)
    BY <1>1, <1>2, <1>3, <2>1
  <2> QED BY <1>1, <2>2, <2>3, <1>4, FactorCancels DEF q
<1>5. CASE v <= p
  <2>1. LpfOld * (p - v) \in Nat /\ LpfNew * (p - v) \in Nat /\ LpfNew * (v - p) = -(LpfNew * (p - v))
    BY <1>3, <1>5
  <2>2. all * v < all * (q + 1)
    BY <1>1, <1>2, <1>3, <2>1
  <2>3. all * q < all * (p + 1)
    BY <1>1, <1>3, <2>1
  <2> QED BY <1>1, <2>2, <2>3, <1>5, FactorCancels DEF q
<1> QED BY <1>4, <1>5 DEF q

(* The filter truncates: it rests, and the measured speed with it, at any  *)
(* speed below the reading that the new weight does not lift by one, up to *)
(* nine rpm with the weights of the code, and never above the reading      *)
(* (hal_bldc.c:499).                                                       *)
THEOREM FilterRests ==
    ASSUME NEW p \in Nat, NEW v \in Nat
    PROVE  Lpf(p, v) = p <=> p <= v /\ LpfNew * (v - p) < LpfOld + LpfNew
<1> DEFINE all == LpfOld + LpfNew
           q == Lpf(p, v)
<1>1. /\ all \in Nat \ {0} /\ q \in Nat
      /\ all * q <= all * p + LpfNew * (v - p)
      /\ all * p + LpfNew * (v - p) < all * q + all
  BY LpfFits, LpfRange
<1>2. LpfNew \in Nat \ {0} /\ LpfOld \in Nat /\ LpfNew * (v - p) \in Int
  BY ConstantsAssumption
<1> HIDE DEF all, q
<1>3. q = p => p <= v /\ LpfNew * (v - p) < all
  <2> SUFFICES ASSUME q = p PROVE p <= v /\ LpfNew * (v - p) < all
    OBVIOUS
  <2>1. 0 <= LpfNew * (v - p) /\ LpfNew * (v - p) < all
    BY <1>1, <1>2
  <2>2. LpfNew * 0 < LpfNew * (v - p + 1)
    BY <1>2, <2>1
  <2>3. 0 < v - p + 1
    BY <1>2, <2>2, FactorCancels
  <2> QED BY <2>1, <2>3
<1>4. p <= v /\ LpfNew * (v - p) < all => q = p
  <2> SUFFICES ASSUME p <= v, LpfNew * (v - p) < all PROVE q = p
    OBVIOUS
  <2>1. all * q < all * (p + 1)
    BY <1>1, <1>2
  <2>2. q < p + 1 /\ p <= q
    BY <1>1, <2>1, FactorCancels, FilterIsBetween DEF q
  <2> QED BY <1>1, <2>2
<1> QED BY <1>3, <1>4 DEF all, q

(* What is measured follows from the memory and the readings alone: it is  *)
(* the memory, or 0 after a stall, and neither leaves the readings' range. *)
MeasuredFromMemory(top) ==
    /\ speedRpm \in {0, valuePrev}
    /\ valuePrev \in 0..top

(* A new speed lies between the memory, of this run or an earlier one, and *)
(* a reading.                                                              *)
MixesMemory ==
    speedRpm' # speedRpm /\ speedRpm' # 0 =>
        /\ speedRpm' = valuePrev'
        /\ \E v \in Readings : \/ valuePrev <= speedRpm' /\ speedRpm' <= v
                               \/ v <= speedRpm' /\ speedRpm' <= valuePrev

LEMMA MemoryStep ==
    ASSUME NEW top \in Nat, Readings \subseteq 0..top, MeasuredFromMemory(top), [Next]_vars
    PROVE  MeasuredFromMemory(top)' /\ MixesMemory
<1> USE DEF MeasuredFromMemory, MixesMemory, measure
<1>1. CASE Measure
  <2>1. PICK v \in Readings : speedRpm' = Lpf(valuePrev, v) /\ valuePrev' = Lpf(valuePrev, v)
    BY <1>1 DEF Measure
  <2>2. v \in Nat /\ v <= top /\ valuePrev \in Nat /\ valuePrev <= top
    BY <2>1
  <2>3. \/ valuePrev <= Lpf(valuePrev, v) /\ Lpf(valuePrev, v) <= v
        \/ v <= Lpf(valuePrev, v) /\ Lpf(valuePrev, v) <= valuePrev
    <3>1. valuePrev <= v \/ v <= valuePrev
      BY <2>2
    <3> QED BY <2>2, <3>1, FilterIsBetween
  <2>4. Lpf(valuePrev, v) \in Nat
    BY <2>2, LpfRange
  <2>5. Lpf(valuePrev, v) <= top
    BY <2>2, <2>3, <2>4
  <2> QED BY <2>1, <2>3, <2>4, <2>5
<1>2. CASE UNCHANGED measure
  BY <1>2
<1>3. CASE Stall
  BY <1>3 DEF Stall
<1>4. Measure \/ UNCHANGED measure \/ Stall
  <2>1. CASE Tick
    BY <2>1 DEF Tick, StopTick, Startup, OpenLoop, RunTick
  <2>2. CASE AppTask \/ PidTask
    BY <2>2 DEF AppTask, AppRestart, AppCheck, AppRefresh, PidTask, PidTake, PidIntegrate, PidDrive
  <2>3. CASE User
    BY <2>3 DEF User, SetPower, SetSpeed, SetMode
  <2>4. CASE UNCHANGED vars
    BY <2>4 DEF vars
  <2> QED BY <2>1, <2>2, <2>3, <2>4 DEF Next
<1> QED BY <1>1, <1>2, <1>3, <1>4

(* The speed the controller sees never exceeds the fastest reading, and a  *)
(* speed that is measured lies between the reading and what the filter     *)
(* remembers, which a stall and a stop leave: the first speeds of a start  *)
(* are mixed with the last run's, and no further away from the rotor's     *)
(* than that (hal_bldc.c:495-502,562-571,590).                             *)
THEOREM SpeedIsMixed ==
    ASSUME NEW CONSTANT top \in Nat, Readings \subseteq 0..top
    PROVE  Spec => [](MeasuredFromMemory(top)) /\ [][MixesMemory]_vars
<1>1. Init => MeasuredFromMemory(top)
  BY DEF Init, MeasuredFromMemory
<1>2. MeasuredFromMemory(top) /\ [Next]_vars => MeasuredFromMemory(top)' /\ [MixesMemory]_vars
  BY MemoryStep
<1> QED BY <1>1, <1>2, PTL DEF Spec

-----------------------------------------------------------------------------
(* A sensorless motor is near its controller.  How far the next duty is:   *)
(* the tick that wakes app_pid_task, its wake-up, and its integral.        *)
ToDrive ==
    CASE pid = "drive" -> 0
      [] pid = "integrate" -> 1
      [] OTHER -> IF sem = 1 THEN 2 ELSE 3

(* As long as it stays sensorless a duty comes nearer with each step of    *)
(* app_pid_task, and with the tick where that has to be woken; no step     *)
(* takes one away but the store that drives.                               *)
NearsDrive ==
    Sensorless /\ Sensorless' /\ pid # "drive" =>
        /\ ToDrive' <= ToDrive
        /\ PidTask \/ (Tick /\ ToDrive = 3) => ToDrive' < ToDrive

(* How far the set point is from the speed asked for: the check of         *)
(* app_task and its store.                                                 *)
ToFollow == IF SetPoint = speed THEN 0 ELSE IF app = "refresh" THEN 1 ELSE 2

(* As long as the motor stays sensorless in normal mode and nobody asks    *)
(* for another speed, each step of app_task is nearer to it, and no step   *)
(* is further from it.                                                     *)
NearsSetPoint ==
    Sensorless /\ Sensorless' /\ mode = "normal" /\ speed' = speed =>
        ToFollow' = IF AppTask /\ ToFollow > 0 THEN ToFollow - 1 ELSE ToFollow

LEMMA NearsStep ==
    ASSUME TypeOK, [Next]_vars
    PROVE  [NearsDrive /\ NearsSetPoint]_vars
<1> USE DEF motor, measure, ctrl, asked, pidTask, history, Sensorless, STOP, START
<1>1. pid \in {"wait", "integrate", "drive"} /\ app \in {"pass", "refresh"} /\ sem \in {0, 1}
  BY DEF TypeOK
<1>2. CASE UNCHANGED vars
  BY <1>2
<1>3. ASSUME Next, Sensorless, Sensorless' PROVE NearsDrive /\ NearsSetPoint
  <2>1. CASE RunTick
    <3>1. sem' = 1 /\ UNCHANGED <<pid, app, SetPoint, speed>>
      BY <2>1 DEF RunTick, Give
    <3>2. ~AppTask \/ ToFollow = 0
      BY <1>1, <1>3, <3>1 DEF AppTask, AppRestart, AppCheck, AppRefresh, ToFollow
    <3>3. ~PidTask \/ pid = "drive"
      BY <3>1 DEF PidTask, PidTake, PidIntegrate, PidDrive
    <3> QED BY <1>1, <3>1, <3>2, <3>3 DEF NearsDrive, NearsSetPoint, ToDrive, ToFollow
  <2>2. CASE PidTake
    <3>1. pid = "wait" /\ pid' = "integrate" /\ sem = 1 /\ UNCHANGED <<app, SetPoint, speed>>
      BY <2>2 DEF PidTake
    <3>2. ~AppTask \/ ToFollow = 0
      BY <1>1, <1>3, <3>1 DEF AppTask, AppRestart, AppCheck, AppRefresh, ToFollow
    <3> QED BY <3>1, <3>2 DEF NearsDrive, NearsSetPoint, ToDrive, ToFollow
  <2>3. CASE PidIntegrate \/ PidDrive
    <3>1. \/ pid = "integrate" /\ pid' = "drive"
          \/ pid = "drive"
      BY <2>3 DEF PidIntegrate, PidDrive
    <3>2. UNCHANGED <<app, SetPoint, speed>>
      BY <2>3 DEF PidIntegrate, PidDrive
    <3>3. ~AppTask \/ ToFollow = 0
      BY <1>1, <1>3, <3>2 DEF AppTask, AppRestart, AppCheck, AppRefresh, ToFollow
    <3> QED BY <3>1, <3>2, <3>3 DEF NearsDrive, NearsSetPoint, ToDrive, ToFollow
  <2>4. CASE AppTask
    <3>1. UNCHANGED <<pid, sem, speed>>
      BY <2>4 DEF AppTask, AppRestart, AppCheck, AppRefresh
    <3>2. ~PidTask
      BY <2>4, <3>1 DEF PidTask, PidTake, PidIntegrate, PidDrive
    <3>3. ~(Tick /\ ToDrive = 3)
      BY <1>1, <1>3, <3>1 DEF Tick, StopTick, Startup, OpenLoop, RunTick, Stall, Give, ToDrive
    <3>4. NearsDrive
      BY <1>1, <3>1, <3>2, <3>3 DEF NearsDrive, ToDrive
    <3>5. mode = "normal" => \/ app = "pass" /\ app' = "refresh" /\ SetPoint' = SetPoint
                             \/ app = "refresh" /\ SetPoint' = speed
      BY <1>3, <2>4 DEF AppTask, AppRestart, AppCheck, AppRefresh, Refresh
    <3>6. NearsSetPoint
      BY <2>4, <3>1, <3>5 DEF NearsSetPoint, ToFollow
    <3> QED BY <3>4, <3>6
  <2>5. CASE User
    <3>1. UNCHANGED <<pid, sem, app, SetPoint>>
      BY <2>5 DEF User, SetPower, SetSpeed, SetMode
    <3>2. ~PidTask
      BY <1>1, <3>1 DEF PidTask, PidTake, PidIntegrate, PidDrive
    <3>3. ~(Tick /\ ToDrive = 3)
      BY <1>1, <1>3, <3>1 DEF Tick, StopTick, Startup, OpenLoop, RunTick, Stall, Give, ToDrive
    <3>4. ~AppTask \/ speed' # speed \/ mode # "normal" \/ ToFollow = 0
      BY <1>1, <1>3, <3>1 DEF AppTask, AppRestart, AppCheck, AppRefresh, Refresh, ToFollow
    <3> QED BY <1>1, <3>1, <3>2, <3>3, <3>4 DEF NearsDrive, NearsSetPoint, ToDrive, ToFollow
  <2>6. ~(StopTick \/ Startup \/ OpenLoop \/ Stall)
    BY <1>3 DEF StopTick, Startup, OpenLoop, Stall
  <2> QED BY <1>3, <2>1, <2>2, <2>3, <2>4, <2>5, <2>6 DEF Next, Tick, PidTask
<1>4. CASE Next
  BY <1>3, <1>4 DEF NearsDrive, NearsSetPoint
<1> QED BY <1>2, <1>4

(* A motor that stays sensorless is never more than one tick and two steps *)
(* of app_pid_task from a new duty, nor more than two steps of app_task    *)
(* from the speed the user has settled on: the safety halves of            *)
(* ControllerEngages and SetPointFollows (main.c:59-66,94-121).            *)
THEOREM ControllerIsNear == Spec => [][NearsDrive /\ NearsSetPoint]_vars
BY ControllerRanges, NearsStep, PTL DEF Spec

=============================================================================
