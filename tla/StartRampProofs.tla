--------------------------- MODULE StartRampProofs ---------------------------
(***************************************************************************)
(* Proofs about StartRamp, for every first and last phase, stall limit and *)
(* duty, every choice of the ticks that see an edge.                       *)
(*                                                                         *)
(* The argument is a potential.  A forced phase of t ticks is followed by  *)
(* one that is t \div 15 + 1 shorter, so that a phase costs at most        *)
(* fifteen times what it takes off the next one, and all phases before one *)
(* of t ticks cost at most 15 * (FirstPhase - t) ticks together.  A ramp   *)
(* that app_task begins again may start with what the cool-down has        *)
(* counted, which is at most a tick of the count for each of its ticks.    *)
(***************************************************************************)
EXTENDS StartRamp, TLAPS

Spent == 15 * (FirstPhase - nextPhaseTime)

Numbers ==
    /\ runStep \in 0..2
    /\ nextPhaseTime \in Nat /\ delayCount \in Nat /\ failed \in Nat
    /\ failed <= StallLimit

(* In a cool-down the stall count has grown since the stall only.          *)
Cooling ==
    /\ app \in {"idle", "cooling", "rearm"}
    /\ cool \in Nat /\ cool <= CoolDown
    /\ app # "idle" => failed <= cool

(* Within a start the phase time is between its bounds, the delay below it, *)
(* and until the shortest phase the stall count is within the potential.   *)
Phases ==
    /\ runStep = 0 => failed <= CoolDown
    /\ runStep \in {1, 2} => nextPhaseTime \in LastPhase..FirstPhase
    /\ runStep = 1 => delayCount < nextPhaseTime
    /\ runStep = 2 => delayCount = 0

Budget ==
    /\ runStep = 1 /\ nextPhaseTime > LastPhase => failed <= CoolDown + Spent + delayCount
    /\ runStep = 2 /\ nextPhaseTime > LastPhase => failed <= CoolDown + Spent + nextPhaseTime

RampInv == Numbers /\ Phases /\ Budget /\ Cooling

(* What a forced step takes off the phase is worth the phase.              *)
LEMMA ShorterPays ==
    ASSUME NEW t \in Nat
    PROVE  /\ Shorter(t) \in Int /\ Shorter(t) < t
           /\ t <= 15 * (t - Shorter(t))
BY DEF Shorter

(* A shorter phase stays between the bounds.                               *)
LEMMA FloorBounds ==
    ASSUME NEW t \in LastPhase..FirstPhase
    PROVE  /\ Floor(Shorter(t)) \in LastPhase..FirstPhase
           /\ Floor(Shorter(t)) > LastPhase => Floor(Shorter(t)) = Shorter(t)
BY ShorterPays, ConstantsAssumption DEF Floor

LEMMA RampInit == Init => RampInv
BY ConstantsAssumption DEF Init, RampInv, Numbers, Phases, Budget, Cooling

(* A tick that counts one at most keeps the count within the cool-down.     *)
LEMMA TickCools ==
    ASSUME Cooling, TickPasses, failed \in Nat, failed' \in Nat, failed' <= failed + 1
    PROVE  Cooling'
BY ConstantsAssumption DEF Cooling, TickPasses, task

(* A tick of case 1, with an edge, a count or a hidden count.              *)
LEMMA TickKeeps ==
    ASSUME RampInv, runStep = 1, CountDelay,
           failed' \in Nat, failed' <= StallLimit, failed' <= failed + 1,
           UNCHANGED nextPhaseTime, Cooling'
    PROVE  RampInv'
<1>1. nextPhaseTime \in LastPhase..FirstPhase /\ delayCount < nextPhaseTime
  BY DEF RampInv, Phases
<1>2. /\ nextPhaseTime \in Nat /\ delayCount \in Nat /\ failed \in Nat
      /\ nextPhaseTime > LastPhase => failed <= CoolDown + Spent + delayCount
  BY DEF RampInv, Numbers, Budget
<1>3. CASE delayCount + 1 >= nextPhaseTime
  <2>1. delayCount' = 0 /\ runStep' = 2
    BY <1>3 DEF CountDelay
  <2>2. Numbers'
    BY <1>2, <2>1 DEF Numbers
  <2>3. Phases' /\ Budget'
    BY <1>1, <1>2, <1>3, <2>1, ConstantsAssumption DEF Phases, Budget, Spent
  <2> QED BY <2>2, <2>3 DEF RampInv
<1>4. CASE ~(delayCount + 1 >= nextPhaseTime)
  <2>1. delayCount' = delayCount + 1 /\ runStep' = 1
    BY <1>4 DEF CountDelay
  <2>2. Numbers'
    BY <1>2, <2>1 DEF Numbers
  <2>3. Phases' /\ Budget'
    BY <1>1, <1>2, <1>4, <2>1, ConstantsAssumption DEF Phases, Budget, Spent
  <2> QED BY <2>2, <2>3 DEF RampInv
<1> QED BY <1>3, <1>4

LEMMA ForcePhaseKeeps ==
    ASSUME RampInv, ForcePhase
    PROVE  RampInv'
<1> DEFINE t == nextPhaseTime
<1>1. /\ runStep = 2 /\ runStep' = 1 /\ t' = Floor(Shorter(t))
      /\ delayCount = 0 /\ delayCount' = 0 /\ failed' = failed
  BY DEF ForcePhase, RampInv, Phases
<1>2. t \in LastPhase..FirstPhase /\ t \in Nat /\ failed \in Nat
      /\ (t > LastPhase => failed <= CoolDown + 15 * (FirstPhase - t) + t)
  BY <1>1 DEF RampInv, Phases, Numbers, Budget, Spent
<1>3. t' \in LastPhase..FirstPhase /\ (t' > LastPhase => t' = Shorter(t))
  BY <1>1, <1>2, FloorBounds
<1>4. Numbers'
  BY <1>1, <1>3, ConstantsAssumption DEF RampInv, Numbers
<1>5. Phases'
  BY <1>1, <1>3, ConstantsAssumption DEF Phases
<1>6. ASSUME t' > LastPhase PROVE failed <= CoolDown + 15 * (FirstPhase - t')
  <2>1. Shorter(t) < t /\ t <= 15 * (t - Shorter(t)) /\ t' = Shorter(t)
    BY <1>2, <1>3, <1>6, ShorterPays
  <2> QED BY <1>2, <1>6, <2>1, <1>3, ConstantsAssumption
<1>7. Budget'
  BY <1>1, <1>6, <1>2, <1>3, ConstantsAssumption DEF Budget, Spent
<1>8. Cooling'
  BY <1>1, <1>2, TickCools DEF ForcePhase, RampInv
<1> QED BY <1>4, <1>5, <1>7, <1>8 DEF RampInv

(* Every step keeps the invariant.                                         *)
LEMMA RampStep ==
    ASSUME RampInv, [Next]_vars
    PROVE  RampInv'
<1>1. CASE Command \/ Restart
  <2>1. UNCHANGED <<runStep, ramp, failed, cool>> /\ app' \in {"idle", "cooling", "rearm"}
        /\ (app' # "idle" => app # "idle")
    BY <1>1 DEF Command, Restart, task, RampInv, Cooling
  <2>2. Numbers' /\ Phases' /\ Budget'
    BY <2>1 DEF ramp, RampInv, Numbers, Phases, Budget, Spent
  <2>3. Cooling'
    BY <2>1 DEF RampInv, Cooling
  <2> QED BY <2>2, <2>3 DEF RampInv
<1>2. CASE Rearm
  <2>1. failed <= CoolDown /\ failed \in Nat
    BY <1>2, ConstantsAssumption DEF Rearm, RampInv, Cooling, Numbers
  <2> QED
    BY <1>2, <2>1, ConstantsAssumption DEF Rearm, ramp, RampInv, Numbers, Phases, Budget, Cooling
<1>3. CASE Startup
  <2>1. failed <= CoolDown /\ failed \in Nat /\ UNCHANGED failed
    BY <1>3 DEF Startup, RampInv, Phases, Numbers
  <2>2. Cooling'
    BY <1>3, <2>1, TickCools DEF Startup, RampInv
  <2> QED
    BY <1>3, <2>1, <2>2, ConstantsAssumption DEF Startup, RampInv, Numbers, Phases, Budget, Spent
<1>4. CASE Wait
  <2>1. failed \in Nat /\ failed' = failed + 1 /\ failed + 1 <= StallLimit
    BY <1>4 DEF Wait, RampInv, Numbers
  <2>2. Cooling'
    BY <1>4, <2>1, TickCools DEF Wait, RampInv
  <2> QED BY <1>4, <2>1, <2>2, TickKeeps DEF Wait
<1>5. CASE Hidden
  <2>1. failed \in Nat /\ failed <= StallLimit /\ failed' \in {failed, 0}
    BY <1>5 DEF Hidden, RampInv, Numbers
  <2>2. Cooling'
    BY <1>5, <2>1, TickCools DEF Hidden, RampInv
  <2> QED BY <1>5, <2>1, <2>2, TickKeeps, ConstantsAssumption DEF Hidden
<1>6. CASE Edge
  <2>1. failed \in Nat /\ failed' = 0
    BY <1>6 DEF Edge, RampInv, Numbers
  <2>2. Cooling'
    BY <1>6, <2>1, TickCools DEF Edge, RampInv
  <2> QED BY <1>6, <2>1, <2>2, TickKeeps, ConstantsAssumption DEF Edge
<1>7. CASE Stall
  <2>1. failed \in Nat /\ failed' = 0
    BY <1>7 DEF Stall, RampInv, Numbers
  <2>2. Cooling'
    BY <1>7, <2>1, ConstantsAssumption DEF Stall, Cooling
  <2> QED BY <1>7, <2>1, <2>2, TickKeeps, ConstantsAssumption DEF Stall
<1>8. CASE ForcePhase
  BY <1>8, ForcePhaseKeeps
<1>9. CASE StopTick
  <2>1. failed \in Nat /\ failed' = 0
    BY <1>9 DEF StopTick, RampInv, Numbers
  <2>2. Cooling'
    BY <1>9, <2>1, TickCools DEF StopTick, RampInv
  <2> QED
    BY <1>9, <2>2, ConstantsAssumption DEF StopTick, RampInv, Numbers, Phases, Budget
<1>10. CASE UNCHANGED vars
  BY <1>10 DEF vars, ramp, task, RampInv, Numbers, Phases, Budget, Spent, Cooling
<1> QED BY <1>1, <1>2, <1>3, <1>4, <1>5, <1>6, <1>7, <1>8, <1>9, <1>10 DEF Next

(* A stall count that runs out has outlived every longer phase.            *)
LEMMA StallIsLate ==
    ASSUME RampInv, Stall
    PROVE  nextPhaseTime = LastPhase
<1>1. runStep = 1 /\ failed + 1 > StallLimit
  BY DEF Stall
<1>2. /\ nextPhaseTime \in LastPhase..FirstPhase /\ delayCount < nextPhaseTime
      /\ delayCount \in Nat /\ failed \in Nat
      /\ nextPhaseTime > LastPhase => failed <= CoolDown + 15 * (FirstPhase - nextPhaseTime) + delayCount
  BY <1>1 DEF RampInv, Numbers, Phases, Budget, Spent
<1> QED BY <1>1, <1>2, RampFits, ConstantsAssumption

(* No start is given up before its phases are at their shortest, not even  *)
(* one that app_task begins again without clearing the count               *)
(* (hal_bldc.c:587,673; main.c:52-54).                                     *)
THEOREM RampOutlastsStall == Spec => ShortestBeforeStall
<1>1. RampInv /\ [Next]_vars => [Stall => nextPhaseTime = LastPhase]_vars
  BY StallIsLate
<1>2. RampInv /\ [Next]_vars => RampInv'
  BY RampStep
<1> QED BY RampInit, <1>1, <1>2, PTL DEF Spec, ShortestBeforeStall

(* The duties of the table, and the start's, are at most half of the full.   *)
LEMMA DutyBounds ==
    /\ MaxDuty \div 3 \in 0..(MaxDuty \div 2)
    /\ \A n \in Nat : pwmDuty \in 0..(MaxDuty \div 2) =>
                       RampDuty(n) \in 0..(MaxDuty \div 2)
<1> DEFINE half == MaxDuty \div 2
<1>1. half \in Nat /\ MaxDuty \div 3 \in 0..half
  BY ConstantsAssumption
<1> HIDE DEF half
<1>2. half \div 5 \in 0..half /\ half \div 4 \in 0..half /\ half \div 2 \in 0..half
  BY <1>1
<1>3. ASSUME NEW n \in Nat, pwmDuty \in 0..half
      PROVE  RampDuty(n) \in {MaxDuty \div 3, half \div 5, half \div 4, half \div 2, pwmDuty}
  <2>1. CASE n \in 1..4
    BY <2>1 DEF RampDuty, half
  <2>2. CASE n \in 5..8
    BY <2>2 DEF RampDuty, half
  <2>3. CASE n \in {9, 10, 14, 15}
    BY <2>3 DEF RampDuty, half
  <2>4. CASE n \in 11..13
    BY <2>4 DEF RampDuty, half
  <2>5. CASE n \notin 1..15
    BY <2>5 DEF RampDuty, half
  <2> QED BY <2>1, <2>2, <2>3, <2>4, <2>5
<1> QED BY <1>1, <1>2, <1>3 DEF half

(* A tick of case 1 keeps the ranges.                                       *)
LEMMA TickTypes ==
    ASSUME TypeOK, RampInv, runStep = 1, CountDelay,
           running' \in BOOLEAN, failed' \in 0..StallLimit,
           pwmDuty' \in {0, pwmDuty},
           UNCHANGED <<nextPhaseTime, voltageChangeCount, nextPhaseCount>>, Cooling'
    PROVE  TypeOK'
<1>1. delayCount' \in 0..FirstPhase /\ runStep' \in 0..2
  <2>1. delayCount \in Nat /\ nextPhaseTime \in LastPhase..FirstPhase
    BY DEF RampInv, Numbers, Phases
  <2>2. CASE delayCount + 1 >= nextPhaseTime
    BY <2>2, ConstantsAssumption DEF CountDelay
  <2>3. CASE ~(delayCount + 1 >= nextPhaseTime)
    BY <2>1, <2>3, ConstantsAssumption DEF CountDelay
  <2> QED BY <2>2, <2>3
<1>2. pwmDuty' \in 0..(MaxDuty \div 2)
  BY ConstantsAssumption DEF TypeOK
<1>3. app' \in {"idle", "cooling", "rearm"} /\ cool' \in 0..CoolDown
  BY ConstantsAssumption DEF Cooling
<1> QED BY <1>1, <1>2, <1>3 DEF TypeOK

(* Every step keeps the ranges of the ramp.                                *)
LEMMA RampTypesStep ==
    ASSUME TypeOK, RampInv, RampInv', [Next]_vars
    PROVE  TypeOK'
<1> USE ConstantsAssumption
<1>0. Cooling' /\ app' \in {"idle", "cooling", "rearm"} /\ cool' \in 0..CoolDown
  BY DEF RampInv, Cooling
<1>1. CASE Command \/ Restart
  BY <1>0, <1>1 DEF Command, Restart, ramp, TypeOK
<1>2. CASE Rearm
  BY <1>0, <1>2 DEF Rearm, ramp, TypeOK
<1>3. CASE Startup
  <2>1. pwmDuty' \in 0..(MaxDuty \div 2)
    BY <1>3, DutyBounds DEF Startup
  <2>2. delayCount' \in 0..FirstPhase /\ nextPhaseTime' \in LastPhase..FirstPhase
        /\ voltageChangeCount' \in 0..VoltsCap
    BY <1>3 DEF Startup
  <2> QED BY <1>0, <1>3, <2>1, <2>2 DEF Startup, TypeOK
<1>4. CASE Wait
  BY <1>0, <1>4, TickTypes DEF Wait, TypeOK
<1>5. CASE Hidden
  BY <1>0, <1>5, TickTypes DEF Hidden, TypeOK
<1>6. CASE Edge
  BY <1>0, <1>6, TickTypes DEF Edge, TypeOK
<1>7. CASE Stall
  <2>1. running' \in BOOLEAN
    BY <1>7 DEF Stall
  <2>2. /\ runStep = 1 /\ CountDelay /\ failed' = 0 /\ pwmDuty' = 0
        /\ UNCHANGED <<nextPhaseTime, voltageChangeCount, nextPhaseCount>>
    BY <1>7 DEF Stall
  <2>3. failed' \in 0..StallLimit
    BY <2>2
  <2> QED BY <1>0, <2>1, <2>2, <2>3, TickTypes
<1>8. CASE ForcePhase
  <2>1. nextPhaseTime' \in LastPhase..FirstPhase
    BY <1>8, FloorBounds DEF ForcePhase, RampInv, Phases
  <2>2. NextVolts \in 0..VoltsCap
    BY DEF NextVolts, TypeOK
  <2>3. pwmDuty' \in 0..(MaxDuty \div 2)
    BY <1>8, <2>2, DutyBounds DEF ForcePhase, TypeOK
  <2>4. nextPhaseCount' \in 0..5
    BY <1>8 DEF ForcePhase, TypeOK
  <2> QED BY <1>0, <1>8, <2>1, <2>2, <2>3, <2>4 DEF ForcePhase, TypeOK
<1>9. CASE StopTick
  <2>1. 0 \in 0..(MaxDuty \div 2)
    BY DutyBounds
  <2> QED BY <1>0, <1>9, <2>1 DEF StopTick, TypeOK
<1>10. CASE UNCHANGED vars
  BY <1>10 DEF vars, ramp, task, TypeOK
<1> QED BY <1>1, <1>2, <1>3, <1>4, <1>5, <1>6, <1>7, <1>8, <1>9, <1>10 DEF Next

(* The phases keep between the last and the first, and no forced phase drives *)
(* with more than half the duty (hal_bldc.c:365-410,641-690).                *)
THEOREM RampTypes == Spec => []TypeOK
<1>1. Init => TypeOK
  <2>1. 0 \in 0..(MaxDuty \div 2)
    BY DutyBounds, ConstantsAssumption
  <2>2. Init => running \in BOOLEAN
    BY DEF Init
  <2>3. Init => /\ runStep = 0 /\ delayCount = 0 /\ nextPhaseTime = 0 /\ voltageChangeCount = 0
                /\ nextPhaseCount = 0 /\ pwmDuty = 0 /\ failed = 0
                /\ app = "idle" /\ cool = 0
    BY DEF Init
  <2> QED BY <2>1, <2>2, <2>3, ConstantsAssumption DEF TypeOK
<1> QED BY RampInit, RampStep, RampTypesStep, <1>1, PTL DEF Spec

=============================================================================
