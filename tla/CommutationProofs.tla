-------------------------- MODULE CommutationProofs --------------------------
(* The register writes of the bridge functions, for both directions.       *)
EXTENDS Commutation, TLAPS

(* While a function runs, each register holds the new value or the old one. *)
Written(p, w) == k = 0 \/ k > w
DutyInv == \A p \in Phases :
    duty[p] = IF Written(p, Place[p]) THEN goal.hi = p ELSE from.hi = p
LowInv == \A p \in Phases :
    low[p] = IF Written(p, Place[p] + 3) THEN goal.lo = p ELSE from.lo = p
GoalOK == goal \in Steps \cup {Off} /\ from \in Steps \cup {Off}
RegOK == /\ k \in 0..6
         /\ duty \in [Phases -> BOOLEAN] /\ low \in [Phases -> BOOLEAN]
CountOK == count \in 0..5
RegInv == GoalOK /\ RegOK /\ CountOK /\ DutyInv /\ LowInv

USE DEF Step, UV, UW, VW, VU, WU, WV, Off, Steps, Phases, Place, Written

LEMMA TableSteps ==
    /\ \A c \in Codes : HallStep[c] \in Steps
    /\ \A n \in 0..5 : SixStep[n + 1] \in Steps
<1>1. ASSUME NEW c \in Codes PROVE HallStep[c] \in Steps
  <2>1. c = 1 \/ c = 2 \/ c = 3 \/ c = 4 \/ c = 5 \/ c = 6
    BY DEF Codes
  <2> QED
    BY <2>1 DEF HallStep
<1>2. ASSUME NEW n \in 0..5 PROVE SixStep[n + 1] \in Steps
  <2>1. n = 0 \/ n = 1 \/ n = 2 \/ n = 3 \/ n = 4 \/ n = 5
    OBVIOUS
  <2> QED
    BY <2>1 DEF SixStep
<1> QED
  BY <1>1, <1>2

(* Calling a function starts its writes from the bridge the last one left.  *)
LEMMA CallStep ==
    ASSUME RegInv, CountOK', NEW s \in Steps \cup {Off}, NEW w, Call(s, w)
    PROVE  RegInv'
<1> USE DEF RegInv, Call
<1>1. GoalOK'
  BY DEF GoalOK
<1>2. RegOK'
  BY DEF RegOK
<1>3. DutyInv'
  BY DEF DutyInv, RegOK
<1>4. LowInv'
  BY DEF LowInv, RegOK
<1> QED
  BY <1>1, <1>2, <1>3, <1>4 DEF RegInv

LEMMA RegStep ==
    ASSUME RegInv, [Next]_vars
    PROVE  RegInv'
<1>1. CASE Stop
  <2>1. CountOK'
    BY <1>1 DEF Stop, ClearCount, CountOK
  <2> QED
    BY <1>1, <2>1, CallStep DEF Stop
<1>2. CASE StallStop
  <2>1. CountOK'
    BY <1>2 DEF StallStop, RegInv, CountOK
  <2> QED
    BY <1>2, <2>1, CallStep DEF StallStop
<1>3. CASE StartUp
  <2>1. CountOK'
    BY <1>3 DEF StartUp, RegInv, CountOK
  <2> QED
    BY <1>3, <2>1, CallStep DEF StartUp
<1>4. CASE ForcedStep
  <2>1. CountOK'
    BY <1>4 DEF ForcedStep, NextCount, RegInv, CountOK
  <2>2. SixStep[count' + 1] \in Steps
    BY <2>1, TableSteps DEF CountOK
  <2> QED
    BY <1>4, <2>1, <2>2, CallStep DEF ForcedStep
<1>5. CASE HandOver
  BY <1>5 DEF HandOver, RegInv, GoalOK, RegOK, CountOK, DutyInv, LowInv
<1>6. ASSUME NEW c \in Codes, HallCommutation(c)
      PROVE  RegInv'
  <2>1. CountOK'
    BY <1>6 DEF HallCommutation, RegInv, CountOK
  <2>2. HallStep[c] \in Steps
    BY TableSteps
  <2> QED
    BY <1>6, <2>1, <2>2, CallStep DEF HallCommutation
<1>7. ASSUME NEW q \in Phases, WriteDuty(q)
      PROVE  RegInv'
  <2> USE <1>7 DEF WriteDuty, RegInv
  <2>1. GoalOK' /\ CountOK' /\ RegOK'
    BY DEF GoalOK, CountOK, RegOK
  <2>2. DutyInv'
    BY DEF DutyInv, RegOK
  <2>3. LowInv'
    BY DEF LowInv, RegOK
  <2> QED
    BY <2>1, <2>2, <2>3
<1>8. ASSUME NEW q \in Phases, WriteLow(q)
      PROVE  RegInv'
  <2> USE <1>8 DEF WriteLow, RegInv
  <2>1. GoalOK' /\ CountOK' /\ RegOK'
    BY DEF GoalOK, CountOK, RegOK
  <2>2. DutyInv'
    BY DEF DutyInv, RegOK
  <2>3. LowInv'
    BY DEF LowInv, RegOK
  <2> QED
    BY <2>1, <2>2, <2>3
<1>9. CASE UNCHANGED vars
  BY <1>9 DEF vars, RegInv, GoalOK, RegOK, CountOK, DutyInv, LowInv
<1> QED
  BY <1>1, <1>2, <1>3, <1>4, <1>5, <1>6, <1>7, <1>8, <1>9 DEF Next

LEMMA RegInit == Init => RegInv
<1> SUFFICES ASSUME Init PROVE RegInv
  OBVIOUS
<1> USE DEF Init
<1>1. GoalOK /\ CountOK
  BY DEF GoalOK, CountOK
<1>2. RegOK
  BY DEF RegOK
<1>3. \A p \in Phases : goal.hi # p /\ goal.lo # p
  OBVIOUS
<1>4. DutyInv /\ LowInv
  BY <1>3 DEF DutyInv, LowInv
<1> QED
  BY <1>1, <1>2, <1>4 DEF RegInv

(* A half bridge is never shorted by an ordinary commutation: whatever the  *)
(* order of calls, both its switches can be on only while a step that       *)
(* drives the phase grounded before is being written (hal_bldc.c:206-334).  *)
THEOREM OnlyJumpsShoot == Spec => []ShootThroughNeedsJump
<1>1. RegInv => ShootThroughNeedsJump
  BY DEF RegInv, GoalOK, RegOK, DutyInv, LowInv, ShootThroughNeedsJump,
     ShootThrough
<1> QED
  BY <1>1, RegInit, RegStep, PTL DEF Spec

(* Between calls the registers are exactly the last step called for.        *)
THEOREM AlwaysSettles == Spec => []Settled
<1>1. RegInv => Settled
  BY DEF RegInv, DutyInv, LowInv, Settled
<1> QED
  BY <1>1, RegInit, RegStep, PTL DEF Spec

-----------------------------------------------------------------------------
(* Orderly runs.  The tables never ground a phase that their next entry     *)
(* drives, and an orderly run walks the tables entry by entry.              *)
LEMMA TablesNeighbour ==
    /\ \A n \in 0..5 :
         SixStep[(IF n + 1 = 6 THEN 0 ELSE n + 1) + 1].hi # SixStep[n + 1].lo
    /\ \A c \in Codes : HallStep[NextCode[c]].hi # HallStep[c].lo
<1>1. ASSUME NEW n \in 0..5
      PROVE  SixStep[(IF n + 1 = 6 THEN 0 ELSE n + 1) + 1].hi # SixStep[n + 1].lo
  <2>1. n = 0 \/ n = 1 \/ n = 2 \/ n = 3 \/ n = 4 \/ n = 5
    OBVIOUS
  <2> QED
    BY <2>1 DEF SixStep
<1>2. ASSUME NEW c \in Codes PROVE HallStep[NextCode[c]].hi # HallStep[c].lo
  <2>1. c = 1 \/ c = 2 \/ c = 3 \/ c = 4 \/ c = 5 \/ c = 6
    BY DEF Codes
  <2> QED
    BY <2>1 DEF HallStep, NextCode
<1> QED
  BY <1>1, <1>2

AtRest == mode = "off" => goal = Off /\ count = 0
OnForced == mode = "forced" /\ ~rearmed => goal \in {SixStep[count + 1], Off}
OnHall == mode = "hall" => code \in Codes /\ goal \in {HallStep[code], Off}
OrderInv == CountOK /\ AtRest /\ OnForced /\ OnHall /\ OrderlyRunNeverJumps

LEMMA OrderStep ==
    ASSUME OrderInv, [Next]_vars
    PROVE  OrderInv'
<1> USE DEF OrderInv, AtRest, OnForced, OnHall, OrderlyRunNeverJumps, Jump
<1>1. CASE Stop
  BY <1>1 DEF Stop, ClearCount, Call, CountOK
<1>2. CASE StallStop
  BY <1>2 DEF StallStop, Call, CountOK
<1>3. CASE StartUp
  <2>1. SixStep[1] = UV
    BY DEF SixStep
  <2>2. mode' = "forced" /\ goal' = UV /\ from' = goal /\ count' = count
    BY <1>3 DEF StartUp, Call
  <2>3. CASE mode = "off"
    <3>1. goal' = SixStep[count' + 1]
      BY <2>1, <2>2, <2>3
    <3>2. ~Jump'
      BY <2>2, <2>3
    <3> QED
      BY <2>2, <3>1, <3>2 DEF CountOK
  <2>4. CASE mode # "off"
    <3>1. rearmed'
      BY <1>3, <2>4 DEF StartUp
    <3> QED
      BY <2>2, <3>1 DEF CountOK
  <2> QED
    BY <2>3, <2>4
<1>4. CASE ForcedStep
  <2>1. count' \in 0..5
    BY <1>4 DEF ForcedStep, NextCount, CountOK
  <2>2. SixStep[count' + 1].hi # SixStep[count + 1].lo
    BY <1>4, TablesNeighbour DEF ForcedStep, NextCount, CountOK
  <2>3. mode' = "forced" /\ goal' = SixStep[count' + 1] /\ from' = goal
    BY <1>4 DEF ForcedStep, Call
  <2>4. OrderlyRunNeverJumps'
    <3>1. ~rearmed => goal'.hi # from'.lo \/ goal' = Off
      <4>1. SixStep[count' + 1] \in Steps
        BY <2>1, TableSteps
      <4> QED
        BY <1>4, <2>2, <2>3, <4>1 DEF ForcedStep
    <3> QED
      BY <1>4, <3>1 DEF ForcedStep
  <2> QED
    BY <2>1, <2>3, <2>4 DEF CountOK
<1>5. CASE HandOver
  BY <1>5 DEF HandOver, CountOK
<1>6. ASSUME NEW c \in Codes, HallCommutation(c)
      PROVE  OrderInv'
  <2>1. mode' = "hall" /\ code' = c /\ goal' = HallStep[c] /\ from' = goal
    BY <1>6 DEF HallCommutation, Call
  <2>2. CASE mode = "hall" /\ c = NextCode[code]
    <3>1. HallStep[c].hi # HallStep[code].lo
      BY <2>2, TablesNeighbour
    <3>2. HallStep[c] \in Steps
      BY TableSteps
    <3>3. ~Jump'
      BY <2>1, <2>2, <3>1, <3>2
    <3> QED
      BY <1>6, <2>1, <3>3 DEF HallCommutation, CountOK
  <2>3. CASE ~(mode = "hall" /\ c = NextCode[code])
    <3>1. cause' \in {"handover", "skip"}
      BY <1>6, <2>3 DEF HallCommutation, Call
    <3> QED
      BY <1>6, <2>1, <3>1 DEF HallCommutation, CountOK
  <2> QED
    BY <2>2, <2>3
<1>7. ASSUME NEW q \in Phases, WriteDuty(q) \/ WriteLow(q)
      PROVE  OrderInv'
  BY <1>7 DEF WriteDuty, WriteLow, CountOK
<1>8. CASE UNCHANGED vars
  BY <1>8 DEF vars, CountOK
<1> QED
  BY <1>1, <1>2, <1>3, <1>4, <1>5, <1>6, <1>7, <1>8 DEF Next

(* A start from rest, the forced steps after it and a rotor that shows its  *)
(* codes in order never short a half bridge (hal_bldc.c:339-359,422-473).   *)
THEOREM OrderlyRuns == Spec => []OrderlyRunNeverJumps
<1>1. Init => OrderInv
  BY DEF Init, OrderInv, AtRest, OnForced, OnHall, OrderlyRunNeverJumps, Jump,
     CountOK
<1>2. OrderInv => OrderlyRunNeverJumps
  BY DEF OrderInv
<1> QED
  BY <1>1, <1>2, OrderStep, PTL DEF Spec

-----------------------------------------------------------------------------
(* Same rotation.  The next code's entry of the Hall table is the forced    *)
(* step after this code's entry; in Hall mode the bridge carries the entry  *)
(* of the last code or has been opened by a stall.                          *)
Follows(old, new) == \E i \in 1..6 : old = SixStep[i] /\ new = SixStep[(i % 6) + 1]

LEMMA StepsFollow ==
    /\ Follows(SixStep[1], SixStep[2]) /\ Follows(SixStep[2], SixStep[3])
    /\ Follows(SixStep[3], SixStep[4]) /\ Follows(SixStep[4], SixStep[5])
    /\ Follows(SixStep[5], SixStep[6]) /\ Follows(SixStep[6], SixStep[1])
<1>1. \A i \in 1..6 : Follows(SixStep[i], SixStep[(i % 6) + 1])
  BY DEF Follows
<1>2. /\ (1 % 6) + 1 = 2 /\ (2 % 6) + 1 = 3 /\ (3 % 6) + 1 = 4
      /\ (4 % 6) + 1 = 5 /\ (5 % 6) + 1 = 6 /\ (6 % 6) + 1 = 1
  OBVIOUS
<1> QED
  BY <1>1, <1>2

LEMMA TablesAgree ==
    ASSUME NEW c \in Codes
    PROVE  Follows(HallStep[c], HallStep[NextCode[c]])
<1>1. c = 1 \/ c = 2 \/ c = 3 \/ c = 4 \/ c = 5 \/ c = 6
  BY DEF Codes
<1>2. CASE Dir = CCW
  BY <1>1, <1>2, StepsFollow DEF HallStep, NextCode, SixStep
<1>3. CASE Dir # CCW
  BY <1>1, <1>3, StepsFollow DEF HallStep, NextCode, SixStep
<1> QED
  BY <1>2, <1>3

HallInv == OnHall /\ SameRotation

LEMMA RotationStep ==
    ASSUME HallInv, [Next]_vars
    PROVE  HallInv'
<1> USE DEF HallInv, OnHall, SameRotation
<1>1. CASE Stop \/ StallStop \/ StartUp \/ ForcedStep
  BY <1>1 DEF Stop, StallStop, StartUp, ForcedStep, Call
<1>2. CASE HandOver
  BY <1>2 DEF HandOver
<1>3. ASSUME NEW c \in Codes, HallCommutation(c)
      PROVE  HallInv'
  <2>1. mode' = "hall" /\ code' = c /\ goal' = HallStep[c] /\ from' = goal
    BY <1>3 DEF HallCommutation, Call
  <2>2. ASSUME cause' = "rotor", from' # Off
        PROVE  Follows(from', goal')
    <3>1. mode = "hall" /\ c = NextCode[code]
      BY <1>3, <2>2 DEF HallCommutation, Call
    <3>2. code \in Codes /\ from' = HallStep[code]
      BY <2>1, <2>2, <3>1
    <3> QED
      BY <2>1, <3>1, <3>2, TablesAgree
  <2> QED
    BY <1>3, <2>1, <2>2 DEF Follows
<1>4. ASSUME NEW q \in Phases, WriteDuty(q) \/ WriteLow(q)
      PROVE  HallInv'
  BY <1>4 DEF WriteDuty, WriteLow
<1>5. CASE UNCHANGED vars
  BY <1>5 DEF vars
<1> QED
  BY <1>1, <1>2, <1>3, <1>4, <1>5 DEF Next

(* Open and closed loop turn the motor the same way, in both directions     *)
(* (hal_bldc.c:339-359,422-473).                                            *)
THEOREM OneRotation == Spec => []SameRotation
<1>1. Init => HallInv
  BY DEF Init, HallInv, OnHall, SameRotation
<1>2. HallInv => SameRotation
  BY DEF HallInv
<1> QED
  BY <1>1, <1>2, RotationStep, PTL DEF Spec

(* What the type invariant says beyond the registers.                       *)
PassOK ==
    /\ mode \in {"off", "forced", "entry", "hall"} /\ code \in 0..6
    /\ cause \in {"stop", "start", "forced", "handover", "rotor", "skip"}
    /\ rearmed \in BOOLEAN

(* Every step keeps the mode, the code and the cause.                      *)
LEMMA PassStep ==
    ASSUME PassOK, [Next]_vars
    PROVE  PassOK'
<1> USE DEF PassOK, Call
<1>1. CASE Stop \/ StallStop \/ StartUp \/ ForcedStep \/ HandOver
  BY <1>1 DEF Stop, StallStop, StartUp, ForcedStep, HandOver
<1>2. ASSUME NEW c \in Codes, HallCommutation(c)
      PROVE  PassOK'
  <2>1. cause' \in {"handover", "rotor", "skip"}
    <3>1. CASE mode = "entry"
      BY <1>2, <3>1 DEF HallCommutation
    <3>2. CASE mode # "entry" /\ c = NextCode[code]
      BY <1>2, <3>2 DEF HallCommutation
    <3>3. CASE mode # "entry" /\ c # NextCode[code]
      BY <1>2, <3>3 DEF HallCommutation
    <3> QED BY <3>1, <3>2, <3>3
  <2>2. code' \in 0..6 /\ mode' = "hall" /\ rearmed' = rearmed
    BY <1>2 DEF HallCommutation, Codes
  <2> QED BY <2>1, <2>2
<1>3. ASSUME NEW p \in Phases, WriteDuty(p) \/ WriteLow(p)
      PROVE  PassOK'
  BY <1>3 DEF WriteDuty, WriteLow
<1>4. CASE UNCHANGED vars
  BY <1>4 DEF vars
<1> QED BY <1>1, <1>2, <1>3, <1>4 DEF Next

(* The registers, steps and counts keep their ranges in every order of calls, *)
(* and every step called for is one of the tables' (hal_bldc.c:206-473).     *)
THEOREM BridgeTypes == Spec => []TypeOK
<1>1. Init => PassOK
  <2>1. Init => rearmed \in BOOLEAN
    BY DEF Init
  <2>2. Init => mode = "off" /\ code = 0 /\ cause = "stop"
    BY DEF Init
  <2> QED BY <2>1, <2>2 DEF PassOK
<1>2. RegInv /\ PassOK => TypeOK
  BY DEF RegInv, GoalOK, RegOK, CountOK, PassOK, TypeOK
<1> QED BY RegInit, RegStep, PassStep, <1>1, <1>2, PTL DEF Spec

=============================================================================
