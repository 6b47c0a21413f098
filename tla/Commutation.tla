----------------------------- MODULE Commutation -----------------------------
(***************************************************************************)
(* The three half bridges, one register write at a time.                   *)
(*                                                                         *)
(* A bridge function of hal_bldc.c writes six registers: the PWM duties of *)
(* U, V, W and then the low-side gates of U, V, W.  Nothing switches them  *)
(* together, so between two writes the bridge is part old, part new.  This *)
(* module follows the writes for every order in which the firmware calls   *)
(* the functions: the forced six steps, the two Hall tables, start and     *)
(* stop.  A duty is on or off here; BldcMotor says which duty it is.       *)
(***************************************************************************)
EXTENDS Integers, Sequences

CONSTANT Dir                  \* motorParameter.dir: CW or CCW

CW  == 0
CCW == 1

ASSUME DirAssumption == Dir \in {CW, CCW}

Phases == {"U", "V", "W"}
Place == [U |-> 1, V |-> 2, W |-> 3]           \* order of the register writes

(* hal_<hi>phaseH_<lo>phaseL, and hal_bldc_stop.                           *)
Step(h, l) == [hi |-> h, lo |-> l]
UV == Step("U", "V")
UW == Step("U", "W")
VW == Step("V", "W")
VU == Step("V", "U")
WU == Step("W", "U")
WV == Step("W", "V")
Off == Step("none", "none")

Steps == {UV, UW, VW, VU, WU, WV}

(* hal_bldc_six_step_operation, by nextPhaseCount + 1.                     *)
SixStep_SamePhase == IF Dir = CCW THEN <<UV, Step("W", "W"), VW, VU, WU, WV>>
                                  ELSE <<UV, Step("V", "V"), WU, VU, VW, UW>>
SixStep == IF Dir = CCW THEN <<UV, UW, VW, VU, WU, WV>>
                        ELSE <<UV, WV, WU, VU, VW, UW>>

(* ccwArray and cwArray, by Hall code.                                     *)
HallStep_Reversed == IF Dir = CCW THEN <<UW, WV, UV, VU, VW, WU>>
                                  ELSE <<UV, WU, WV, VW, UW, VU>>
HallStep == IF Dir = CCW THEN <<UW, VU, VW, WV, UV, WU>>
                         ELSE <<UV, VW, UW, WU, WV, VU>>

(* The codes a rotor turning in direction Dir shows one after the other.   *)
NextCode == IF Dir = CCW THEN <<3, 6, 2, 5, 1, 4>> ELSE <<5, 3, 1, 6, 4, 2>>
Codes == 1..6

VARIABLES
    duty, low,       \* the registers: high side driven, low side closed
    goal, k,         \* bridge function under way; its next write, 0 if none
    mode,            \* simpleOpen.runStep: "off" 0, "forced" 1 and 2, "entry"
                     \* and "hall" 3, before and after its first commutation
    count,           \* simpleOpen.nextPhaseCount
    code,            \* hallLessValuePrev
    from, cause,     \* history: the goal before, and why it changed
    rearmed          \* history: case 0 ran without a stop before it

vars == <<duty, low, goal, k, mode, count, code, from, cause, rearmed>>

Init ==
    /\ duty = [p \in Phases |-> FALSE] /\ low = [p \in Phases |-> FALSE]
    /\ goal = Off /\ k = 0 /\ mode = "off" /\ count = 0 /\ code = 0
    /\ from = Off /\ cause = "stop" /\ rearmed = FALSE

(* Begin a bridge function; the interrupt runs it to its end.              *)
Call(step, why) ==
    /\ k = 0 /\ k' = 1
    /\ goal' = step /\ from' = goal /\ cause' = why
    /\ UNCHANGED <<duty, low>>

(* The else branch of hal_bldc_main_loop.                                  *)
ClearCount_Forgotten == UNCHANGED count
ClearCount == count' = 0

Stop ==
    /\ Call(Off, "stop")
    /\ mode' = "off" /\ ClearCount /\ rearmed' = FALSE
    /\ UNCHANGED code

(* case 0.  It does not touch nextPhaseCount.  app_task stores runStep = 0 *)
(* after a lock, also into a motor that runs.                              *)
StartUp ==
    /\ Call(UV, "start")
    /\ mode' = "forced" /\ rearmed' = (mode # "off")
    /\ UNCHANGED <<count, code>>

(* case 2.                                                                 *)
NextCount == IF count + 1 = 6 THEN 0 ELSE count + 1

ForcedStep ==
    /\ mode = "forced"
    /\ count' = NextCount
    /\ Call(SixStep[count' + 1], "forced")
    /\ UNCHANGED <<mode, code, rearmed>>

(* case 1 hands over to case 3 when the zero-crossing block returns 1; the *)
(* block need not have commutated yet.                                     *)
HandOver ==
    /\ k = 0 /\ mode = "forced" /\ mode' = "entry"
    /\ UNCHANGED <<duty, low, goal, k, count, code, from, cause, rearmed>>

(* The block acts on a code that differs from the last one it acted on: the *)
(* first after the open loop, the rotor's next, or another one.            *)
HallCommutation(c) ==
    /\ mode \in {"entry", "hall"} /\ c # code
    /\ Call(HallStep[c], IF mode = "entry" THEN "handover"
                         ELSE IF c = NextCode[code] THEN "rotor" ELSE "skip")
    /\ mode' = "hall" /\ code' = c
    /\ UNCHANGED <<count, rearmed>>

(* A stall opens the bridge and leaves the rest to the next tick; the same *)
(* tick may still commutate.                                               *)
StallStop ==
    /\ mode # "off"
    /\ Call(Off, "stop")
    /\ UNCHANGED <<mode, count, code, rearmed>>

(* One register write: ledc_set_duty with ledc_update_duty, or a low side. *)
WriteDuty(p) ==
    /\ k = Place[p]
    /\ duty' = [duty EXCEPT ![p] = (goal.hi = p)]
    /\ k' = k + 1
    /\ UNCHANGED <<low, goal, mode, count, code, from, cause, rearmed>>

WriteLow(p) ==
    /\ k = Place[p] + 3
    /\ low' = [low EXCEPT ![p] = (goal.lo = p)]
    /\ k' = IF k = 6 THEN 0 ELSE k + 1
    /\ UNCHANGED <<duty, goal, mode, count, code, from, cause, rearmed>>

Next ==
    \/ Stop \/ StallStop \/ StartUp \/ ForcedStep \/ HandOver
    \/ \E c \in Codes : HallCommutation(c)
    \/ \E p \in Phases : WriteDuty(p) \/ WriteLow(p)

Spec == Init /\ [][Next]_vars

-----------------------------------------------------------------------------
(* Properties.                                                             *)

(* The registers, steps and counts of the bridge; every step joins two      *)
(* different phases (hal_bldc.c:226-334).                                  *)
TypeOK ==
    /\ duty \in [Phases -> BOOLEAN] /\ low \in [Phases -> BOOLEAN]
    /\ goal \in Steps \cup {Off} /\ from \in Steps \cup {Off} /\ k \in 0..6
    /\ mode \in {"off", "forced", "entry", "hall"} /\ count \in 0..5 /\ code \in 0..6
    /\ cause \in {"stop", "start", "forced", "handover", "rotor", "skip"}
    /\ rearmed \in BOOLEAN

ShootThrough == \E p \in Phases : duty[p] /\ low[p]

(* Both switches of a half bridge are on, between two writes, only when    *)
(* the new step drives the phase the old one grounded: no other order of   *)
(* calls does it, and stopping never does (hal_bldc.c:206-334).            *)
ShootThroughNeedsJump == ShootThrough => goal.hi = from.lo /\ goal # Off

(* Such a jump is never the doing of an orderly run: not of a start from    *)
(* rest, of the forced steps after it or of a rotor that shows its codes in *)
(* order.  It takes the hand-over, a missed code, or a restart while the    *)
(* motor runs, after which the forced steps continue at the old count      *)
(* (hal_bldc.c:647-655,683).                                               *)
Jump == goal.hi = from.lo /\ goal # Off
OrderlyRunNeverJumps ==
    Jump => cause \in {"handover", "skip"} \/ rearmed

(* Open and closed loop turn the motor the same way: when the rotor shows   *)
(* its next code, the Hall table moves on by exactly one of the forced     *)
(* steps (hal_bldc.c:339-359,422-473).                                     *)
SameRotation ==
    cause = "rotor" /\ from # Off =>
        \E i \in 1..6 : from = SixStep[i] /\ goal = SixStep[(i % 6) + 1]

(* Between calls the bridge is exactly the step last called for.           *)
Settled ==
    k = 0 => \A p \in Phases : duty[p] = (goal.hi = p) /\ low[p] = (goal.lo = p)

=============================================================================
