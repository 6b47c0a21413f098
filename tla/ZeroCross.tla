------------------------------ MODULE ZeroCross ------------------------------
(***************************************************************************)
(* hal_bldc_sensor_less_operation from the inside, against a rotor.        *)
(*                                                                         *)
(* Each tick samples three comparators, filters each by a window of        *)
(* FilterLen samples, times the edges of phase 0, counts stable crossings  *)
(* and commutates filterDelay ticks after the filtered code changed.  Only *)
(* the interrupt runs this code, so a tick is one action; BldcMotor has    *)
(* the interleavings.  A window is kept as its newest bit and how many of  *)
(* its newest samples agree, which is all the code asks of it.             *)
(*                                                                         *)
(* The rotor turns clockwise, MinDwell to MaxDwell ticks per code, and may *)
(* stick; one comparator at a time may glitch for less than FilterLen      *)
(* samples in a row.                                                       *)
(***************************************************************************)
EXTENDS Integers, Sequences

CONSTANTS
    FilterLen,             \* samples of a uniform window (16)
    ZeroStable,            \* crossings that count as stable (4)
    StallLimit,            \* samples without an edge before a stall (15000)
    CountMod,              \* filterFailedCount is a uint16_t (65536)
    DelayDiv,              \* share of a half turn to wait (10)
    MinDwell, MaxDwell,    \* how fast the rotor may turn
    SpeedCap,              \* bound on speedCount, which is an int
    Coast,                 \* how many codes a stopped rotor may coast
    Glitches               \* the comparators that may glitch

ASSUME ConstantsAssumption ==
    /\ {FilterLen, ZeroStable, StallLimit, DelayDiv, SpeedCap} \subseteq Nat \ {0}
    /\ CountMod \in Nat /\ CountMod > StallLimit + 1
    /\ MinDwell \in Nat /\ MaxDwell \in Nat
    /\ FilterLen < MinDwell /\ MinDwell <= MaxDwell
    /\ Glitches \subseteq 0..2 /\ Coast \subseteq 0..5

STOP  == 0
START == 1

VARIABLES
    isStart, runStep,                    \* motorParameter, simpleOpen
    queue, filt, oldval,                 \* windows, filtered states, last phase 0
    speedCount, zeroStableFlag, failed,
    edgeFlag, filterDelay, filterCount, prev,
    pos, dwell, stuck,                   \* the rotor
    bad, badFor,                         \* the glitching phase and for how long
    applied, turns                       \* history

motor   == <<isStart, runStep>>
sensor  == <<queue, filt, oldval, speedCount, zeroStableFlag, failed,
             edgeFlag, filterDelay, filterCount, prev>>
rotor   == <<pos, dwell, stuck>>
glitch  == <<bad, badFor>>
history == <<applied, turns>>
vars    == <<motor, sensor, rotor, glitch, history>>

Lines == 0..2                            \* HALL_1, HALL_2, HALL_3
Least(a, b) == IF a < b THEN a ELSE b

(* The codes of a clockwise rotor in order, and a code's bit of a line.    *)
RotorCodes == <<5, 4, 6, 2, 3, 1>>
Code(p) == RotorCodes[p]
Ahead(p, n) == ((p + n - 1) % 6) + 1
After(p) == Ahead(p, 1)
Before(p) == Ahead(p, 5)
Bit(c, i) == CASE i = 0 -> c % 2 [] i = 1 -> (c \div 2) % 2 [] OTHER -> c \div 4

(*   applied  the code of the last commutation of this run, 0 if none      *)
(*   turns    falling edges since the crossings became stable, up to 2     *)
Init ==
    /\ isStart = STOP /\ runStep = 0
    /\ queue = [i \in Lines |-> [bit |-> 0, run |-> FilterLen]]
    /\ filt = [i \in Lines |-> 0] /\ oldval = 0
    /\ speedCount = 0 /\ zeroStableFlag = 0 /\ failed = 0
    /\ edgeFlag = 0 /\ filterDelay = 0 /\ filterCount = 0 /\ prev = 0
    /\ pos \in 1..6 /\ dwell = 1 /\ stuck = FALSE /\ bad = 0 /\ badFor = 0
    /\ applied = 0 /\ turns = 0

-----------------------------------------------------------------------------
(* The world between two samples.  The time a stuck rotor spends on its     *)
(* code counts for nothing.                                                *)

Turn ==
    \/ ~stuck /\ dwell < MaxDwell /\ dwell' = dwell + 1 /\ UNCHANGED <<pos, stuck>>
    \/ ~stuck /\ dwell >= MinDwell /\ dwell' = 1 /\ pos' = After(pos) /\ UNCHANGED stuck
    \/ stuck' = TRUE /\ dwell' = 1 /\ UNCHANGED pos

Disturb ==
    \/ badFor' = 0 /\ bad' = 0
    \/ /\ badFor < FilterLen - 1 /\ badFor' = badFor + 1
       /\ bad' \in IF badFor = 0 THEN Glitches ELSE {bad}

Level(i) == LET b == Bit(Code(pos'), i)
            IN  IF badFor' > 0 /\ bad' = i THEN 1 - b ELSE b

-----------------------------------------------------------------------------
(* One call of hal_bldc_sensor_less_operation.                             *)

Shift(w, b) == IF w.bit = b THEN [w EXCEPT !.run = Least(@ + 1, FilterLen)]
                            ELSE [bit |-> b, run |-> 1]

Uniform_OneShort(w) == w.run >= FilterLen - 1
Uniform(w) == w.run = FilterLen

(* Shift all windows; lines are settled in order up to the first mixed one. *)
SampleAll ==
    /\ Turn /\ Disturb
    /\ queue' = [i \in Lines |-> Shift(queue[i], Level(i))]
    /\ filt' = [i \in Lines |-> IF \A j \in 0..i : Uniform(queue'[j])
                                THEN queue'[i].bit ELSE filt[i]]

Clean == \A i \in Lines : Uniform(queue'[i])

NextFailed == (failed + 1) % CountMod
StallReached_Exactly == NextFailed = StallLimit + 1
StallReached == NextFailed > StallLimit
StopMotor_Forgotten == isStart' = isStart
StopMotor == isStart' = STOP
NextSpeed  == Least(speedCount + 1, SpeedCap)

(* What case 1 makes of the result; its delayCount may have run out, which *)
(* is left open here, and then it goes to the forced step of case 2.       *)
HandOver == runStep' = 3
NoHandOver == runStep' \in IF runStep = 1 THEN {1, 2} ELSE {3}

(* A mixed window: the function returns before it looks for a stall.       *)
Unstable ==
    /\ isStart = START /\ runStep \in {1, 3}
    /\ SampleAll /\ ~Clean /\ NoHandOver
    /\ failed' = NextFailed /\ speedCount' = NextSpeed
    /\ UNCHANGED <<isStart, oldval, zeroStableFlag, edgeFlag, filterDelay,
                   filterCount, prev, applied, turns>>

(* The zero-crossing block, entered with z crossings and the delay d.      *)
FilteredCode == filt'[0] + 2 * filt'[1] + 4 * filt'[2]

Commutate(d) ==
    LET n == filterCount + (IF FilteredCode # prev THEN 1 ELSE 0)
    IN  IF n >= d
        THEN /\ filterCount' = 0 /\ prev' = FilteredCode
             /\ applied' = IF FilteredCode # prev THEN FilteredCode ELSE applied
        ELSE /\ filterCount' = n
             /\ UNCHANGED <<prev, applied>>

ClampStable(z) == zeroStableFlag' = ZeroStable

CrossingBlock(z, d) ==
    \/ /\ z < ZeroStable
       /\ zeroStableFlag' = z
       /\ NoHandOver
       /\ UNCHANGED <<edgeFlag, filterCount, prev, applied>>
    \/ /\ z >= ZeroStable /\ edgeFlag = 0
       /\ ClampStable(z) /\ edgeFlag' = 1 /\ HandOver
       /\ UNCHANGED <<filterCount, prev, applied>>
    \/ /\ z >= ZeroStable /\ edgeFlag > 0
       /\ ClampStable(z) /\ edgeFlag' = 2
       /\ \/ /\ FilteredCode \in {0, 7}          \* errorHallLessCount
             /\ NoHandOver
             /\ UNCHANGED <<filterCount, prev, applied>>
          \/ /\ FilteredCode \in 1..6
             /\ Commutate(d) /\ HandOver

(* All windows uniform: time the edge of phase 0, then the block.          *)
Settle ==
    /\ isStart = START /\ runStep \in {1, 3}
    /\ SampleAll /\ Clean
    /\ oldval' = filt'[0]

DelayOf_WholeTurn(c) == c
DelayOf(c) == c \div DelayDiv

FallingEdge ==
    /\ Settle /\ oldval = 1 /\ oldval' = 0
    /\ filterDelay' = DelayOf(NextSpeed) /\ speedCount' = 0 /\ failed' = 0
    /\ CrossingBlock(zeroStableFlag + 1, DelayOf(NextSpeed))
    /\ turns' = IF zeroStableFlag >= ZeroStable THEN Least(turns + 1, 2) ELSE turns
    /\ UNCHANGED isStart

RisingEdge ==
    /\ Settle /\ oldval = 0 /\ oldval' = 1
    /\ speedCount' = 0 /\ failed' = 0
    /\ CrossingBlock(zeroStableFlag, filterDelay)
    /\ UNCHANGED <<isStart, filterDelay, turns>>

Steady ==
    /\ Settle /\ oldval' = oldval /\ ~StallReached
    /\ speedCount' = NextSpeed /\ failed' = NextFailed
    /\ CrossingBlock(zeroStableFlag, filterDelay)
    /\ UNCHANGED <<isStart, filterDelay, turns>>

Stall ==
    /\ Settle /\ oldval' = oldval /\ StallReached
    /\ speedCount' = NextSpeed /\ failed' = 0 /\ StopMotor
    /\ CrossingBlock(zeroStableFlag, filterDelay)
    /\ UNCHANGED <<filterDelay, turns>>

-----------------------------------------------------------------------------
(* The rest of hal_bldc_main_loop, as far as it touches this state.        *)

(* case 0.                                                                 *)
ClearCrossings == zeroStableFlag' = 0

Startup ==
    /\ isStart = START /\ runStep = 0 /\ runStep' = 1
    /\ ClearCrossings
    /\ applied' = 0 /\ turns' = 0
    /\ UNCHANGED <<isStart, queue, filt, oldval, speedCount, failed, edgeFlag,
                   filterDelay, filterCount, prev, rotor, glitch>>

(* case 2: the forced step takes its tick, and nothing is sampled.         *)
ForcedStep ==
    /\ isStart = START /\ runStep = 2 /\ runStep' = 1
    /\ Turn
    /\ UNCHANGED <<isStart, sensor, glitch, history>>

(* The else branch; a rotor that is no longer driven coasts to its rest.   *)
StopTick ==
    /\ isStart = STOP
    /\ runStep' = 0 /\ failed' = 0 /\ applied' = 0 /\ turns' = 0
    /\ \/ runStep = 0 /\ UNCHANGED rotor
       \/ /\ runStep # 0 /\ dwell' = 1 /\ stuck' = FALSE
          /\ \E n \in Coast : pos' = Ahead(pos, n)
    /\ UNCHANGED <<isStart, queue, filt, oldval, speedCount, zeroStableFlag,
                   edgeFlag, filterDelay, filterCount, prev, glitch>>

(* The application sets isStart, between any two ticks.  app_task's         *)
(* runStep = 0 into a motor that the user has started during the cool-down  *)
(* (main.c:54) is left out: it goes to case 0 with a rotor that turns;      *)
(* StartRamp and BldcMotor have it.                                        *)
Command ==
    /\ isStart' = 1 - isStart
    /\ UNCHANGED <<runStep, sensor, rotor, glitch, history>>

Next ==
    \/ Unstable \/ FallingEdge \/ RisingEdge \/ Steady \/ Stall
    \/ Startup \/ ForcedStep \/ StopTick \/ Command

Spec == Init /\ [][Next]_vars

(* The timer interrupts every 50 us, whatever the application does.        *)
Tick == Unstable \/ FallingEdge \/ RisingEdge \/ Steady \/ Stall
            \/ Startup \/ ForcedStep \/ StopTick
FairSpec == Spec /\ WF_vars(Tick)

-----------------------------------------------------------------------------
(* Properties.                                                             *)

(* The ranges of the variables; the crossing count is held at the limit    *)
(* however many more follow (hal_bldc.c:603).                              *)
TypeOK ==
    /\ isStart \in {STOP, START} /\ runStep \in 0..3
    /\ queue \in [Lines -> [bit : {0, 1}, run : 1..FilterLen]]
    /\ filt \in [Lines -> {0, 1}] /\ oldval \in {0, 1}
    /\ speedCount \in 0..SpeedCap /\ zeroStableFlag \in 0..ZeroStable
    /\ failed \in 0..(CountMod - 1) /\ edgeFlag \in 0..2
    /\ filterDelay \in 0..SpeedCap /\ filterCount \in 0..SpeedCap /\ prev \in 0..6
    /\ applied \in 0..6 /\ turns \in 0..2

Commutation == applied' # applied /\ applied' # 0

(* A commutation answers a code the rotor really shows, or showed just     *)
(* before: no glitch shorter than the window and no half-shifted set of    *)
(* windows is ever taken for a code (hal_bldc.c:546-555,608).              *)
CommutatesShownCode ==
    [][Commutation => applied' \in {Code(pos'), Code(Before(pos'))}]_vars

(* While the rotor turns, successive commutations follow its codes one by  *)
(* one: the delay never outlasts a code, so that none is skipped and the   *)
(* bridge only moves to a neighbouring step (hal_bldc.c:572,615-629).      *)
FollowsRotor ==
    [][Commutation /\ applied # 0 =>
         \E p \in 1..6 : applied = Code(p) /\ applied' = Code(After(p))]_vars

(* A count beyond the limit only survives mixed windows: the first uniform *)
(* sample without an edge stops the motor, although the mixed ones, which  *)
(* count as well, never look at the limit (hal_bldc.c:552,583-595).        *)
StallNotMissed == failed > StallLimit => \E i \in Lines : ~Uniform(queue[i])

(* A rotor that sticks while the motor is driven gets the motor stopped,   *)
(* by the stall check or by the user (hal_bldc.c:583-592).                 *)
StuckStops == stuck ~> isStart = STOP

(* The comment at hal_bldc.c:604 has the motor turn two more times after   *)
(* the crossings are stable before the block takes control.  The code      *)
(* counts ticks instead.                                                   *)
TwoTurnsFirst == [][Commutation => turns >= 2]_vars

=============================================================================
