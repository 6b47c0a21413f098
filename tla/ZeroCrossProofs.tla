--------------------------- MODULE ZeroCrossProofs ---------------------------
(***************************************************************************)
(* Proofs about ZeroCross, for every window length, limit and rotor: the   *)
(* stall count, the ranges, what the windows show of the rotor, first with *)
(* glitches and then without, and how far a stuck rotor is from its stall. *)
(***************************************************************************)
EXTENDS ZeroCross, TLAPS

(* Only a mixed window lets the count pass the limit, and every sampled     *)
(* tick renews the windows: the invariant is inductive as it stands.       *)
LEMMA StallStep ==
    ASSUME StallNotMissed, [Next]_vars
    PROVE  StallNotMissed'
<1> USE ConstantsAssumption
<1>1. CASE Unstable
  BY <1>1 DEF Unstable, Clean, StallNotMissed
<1>2. CASE FallingEdge \/ RisingEdge \/ Stall
  <2>1. failed' = 0
    BY <1>2 DEF FallingEdge, RisingEdge, Stall
  <2> QED BY <2>1 DEF StallNotMissed
<1>3. CASE Steady
  <2>1. ~(failed' > StallLimit)
    BY <1>3 DEF Steady, StallReached
  <2> QED BY <2>1 DEF StallNotMissed
<1>4. CASE StopTick
  <2>1. failed' = 0
    BY <1>4 DEF StopTick
  <2> QED BY <2>1 DEF StallNotMissed
<1>5. CASE Startup \/ ForcedStep \/ Command \/ UNCHANGED vars
  <2>1. failed' = failed /\ queue' = queue
    BY <1>5 DEF Startup, ForcedStep, Command, vars, sensor
  <2> QED BY <2>1 DEF StallNotMissed, Uniform
<1> QED BY <1>1, <1>2, <1>3, <1>4, <1>5 DEF Next

(* The stall check misses nothing: a count beyond the limit only stands     *)
(* while a window is mixed, and never survives a uniform sample without an *)
(* edge (hal_bldc.c:552,583-595).                                          *)
THEOREM StallIsNotMissed == Spec => []StallNotMissed
<1>1. Init => StallNotMissed
  BY ConstantsAssumption DEF Init, StallNotMissed
<1> QED BY <1>1, StallStep, PTL DEF Spec

(* The rotor is on one of its six codes.                                    *)
OnCircle == pos \in 1..6

(* The window of a line keeps its shape.                                     *)
LEMMA WindowShape ==
    ASSUME TypeOK, OnCircle, SampleAll
    PROVE  /\ queue' \in [Lines -> [bit : {0, 1}, run : 1..FilterLen]]
           /\ filt' \in [Lines -> {0, 1}]
<1> USE ConstantsAssumption DEF Lines, OnCircle
<1>1. \A i \in Lines : Level(i) \in {0, 1}
  <2>1. \A c \in 1..6 : \A i \in Lines : Bit(c, i) \in {0, 1}
    <3> SUFFICES ASSUME NEW c \in 1..6, NEW i \in Lines PROVE Bit(c, i) \in {0, 1}
      OBVIOUS
    <3>1. c = 1 \/ c = 2 \/ c = 3 \/ c = 4 \/ c = 5 \/ c = 6
      OBVIOUS
    <3>2. i = 0 \/ i = 1 \/ i = 2
      OBVIOUS
    <3> QED BY <3>1, <3>2 DEF Bit
  <2>2. pos' \in 1..6
    <3>1. CASE pos' = pos
      BY <3>1
    <3>2. CASE pos' = After(pos)
      BY <3>2 DEF After, Ahead
    <3> QED BY <3>1, <3>2 DEF SampleAll, Turn
  <2>3. Code(pos') \in 1..6
    <3>1. pos' = 1 \/ pos' = 2 \/ pos' = 3 \/ pos' = 4 \/ pos' = 5 \/ pos' = 6
      BY <2>2
    <3> QED BY <3>1 DEF Code, RotorCodes
  <2>4. \A i \in Lines : Bit(Code(pos'), i) \in {0, 1}
    BY <2>1, <2>3
  <2> QED BY <2>4 DEF Level
<1>2. ASSUME NEW w \in [bit : {0, 1}, run : 1..FilterLen], NEW b \in {0, 1}
      PROVE  Shift(w, b) \in [bit : {0, 1}, run : 1..FilterLen]
  <2>1. Least(w.run + 1, FilterLen) \in 1..FilterLen
    BY DEF Least
  <2> QED BY <2>1 DEF Shift
<1>3. queue' \in [Lines -> [bit : {0, 1}, run : 1..FilterLen]]
  BY <1>1, <1>2 DEF SampleAll, TypeOK
<1>4. \A i \in Lines : queue'[i].bit \in {0, 1}
  BY <1>3
<1>5. filt' \in [Lines -> {0, 1}]
  BY <1>4 DEF SampleAll, TypeOK
<1> QED BY <1>3, <1>5

(* The rotor stays on its circle.                                           *)
LEMMA PlaceStep ==
    ASSUME OnCircle, [Next]_vars
    PROVE  OnCircle'
<1> USE DEF OnCircle
<1>1. ASSUME NEW n \in 0..5 PROVE Ahead(pos, n) \in 1..6
  BY DEF Ahead
<1>2. CASE Turn
  BY <1>1, <1>2 DEF Turn, After
<1>3. CASE UNCHANGED rotor
  BY <1>3 DEF rotor
<1>4. CASE StopTick
  BY <1>1, <1>3, <1>4, ConstantsAssumption DEF StopTick
<1> QED BY <1>2, <1>3, <1>4 DEF Next, vars, Unstable, FallingEdge, RisingEdge, Steady, Stall,
                                Settle, SampleAll, Startup, ForcedStep, Command

(* The zero-crossing block, entered with a count and a delay in range.      *)
LEMMA BlockTypes ==
    ASSUME TypeOK, filt' \in [Lines -> {0, 1}],
           NEW z \in Nat, NEW d \in 0..SpeedCap, CrossingBlock(z, d)
    PROVE  /\ zeroStableFlag' \in 0..ZeroStable /\ edgeFlag' \in 0..2 /\ runStep' \in 0..3
           /\ filterCount' \in 0..SpeedCap /\ prev' \in 0..6 /\ applied' \in 0..6
<1> USE ConstantsAssumption
<1>1. CASE UNCHANGED <<filterCount, prev, applied>>
  <2>1. zeroStableFlag' \in 0..ZeroStable /\ edgeFlag' \in 0..2 /\ runStep' \in 0..3
    <3>1. CASE z < ZeroStable
      BY <3>1 DEF CrossingBlock, NoHandOver, TypeOK
    <3>2. CASE ~(z < ZeroStable)
      BY <3>2 DEF CrossingBlock, ClampStable, HandOver, NoHandOver
    <3> QED BY <3>1, <3>2
  <2> QED BY <1>1, <2>1 DEF TypeOK
<1>2. CASE FilteredCode \in 1..6 /\ Commutate(d) /\ HandOver /\ ClampStable(z) /\ edgeFlag' = 2
  <2> DEFINE n == filterCount + (IF FilteredCode # prev THEN 1 ELSE 0)
  <2>1. n \in Nat
    BY DEF TypeOK
  <2>2. CASE n >= d
    <3>1. /\ filterCount' = 0 /\ prev' = FilteredCode
          /\ applied' = IF FilteredCode # prev THEN FilteredCode ELSE applied
      BY <1>2, <2>2 DEF Commutate
    <3> QED BY <1>2, <3>1 DEF HandOver, ClampStable, TypeOK
  <2>3. CASE ~(n >= d)
    <3>1. filterCount' = n /\ UNCHANGED <<prev, applied>>
      BY <1>2, <2>3 DEF Commutate
    <3>2. filterCount' \in 0..SpeedCap
      BY <2>1, <2>3, <3>1
    <3> QED BY <1>2, <3>1, <3>2 DEF HandOver, ClampStable, TypeOK
  <2> QED BY <2>2, <2>3
<1> QED BY <1>1, <1>2 DEF CrossingBlock

(* The counters wrap or stop at their bounds.                              *)
LEMMA CountsType ==
    ASSUME TypeOK
    PROVE  NextFailed \in 0..(CountMod - 1) /\ NextSpeed \in 0..SpeedCap
           /\ \A c \in 0..SpeedCap : DelayOf(c) \in 0..SpeedCap
BY ConstantsAssumption DEF TypeOK, NextFailed, NextSpeed, Least, DelayOf

(* Every tick and every command keep the ranges.                           *)
LEMMA TypeStep ==
    ASSUME TypeOK, OnCircle, [Next]_vars
    PROVE  TypeOK'
<1> USE ConstantsAssumption
<1>1. CASE Unstable
  <2>1. isStart' = isStart /\ UNCHANGED <<oldval, zeroStableFlag, edgeFlag, filterDelay,
                                            filterCount, prev, applied, turns>>
        /\ failed' = NextFailed /\ speedCount' = NextSpeed /\ runStep' \in 0..3
    BY <1>1 DEF Unstable, NoHandOver
  <2>2. SampleAll
    BY <1>1 DEF Unstable
  <2> QED BY <2>1, <2>2, WindowShape, CountsType DEF TypeOK
<1>2. CASE FallingEdge \/ RisingEdge \/ Steady \/ Stall
  <2>1. Settle
    BY <1>2 DEF FallingEdge, RisingEdge, Steady, Stall
  <2>2. /\ queue' \in [Lines -> [bit : {0, 1}, run : 1..FilterLen]]
        /\ filt' \in [Lines -> {0, 1}] /\ oldval' \in {0, 1}
    BY <2>1, WindowShape DEF Settle, Lines
  <2>3. PICK z \in Nat, d \in 0..SpeedCap : CrossingBlock(z, d) /\ filterDelay' = d
    <3>1. CASE FallingEdge
      <4>1. zeroStableFlag + 1 \in Nat /\ DelayOf(NextSpeed) \in 0..SpeedCap
        BY CountsType DEF TypeOK
      <4> QED BY <3>1, <4>1 DEF FallingEdge
    <3>2. CASE RisingEdge \/ Steady \/ Stall
      <4>1. zeroStableFlag \in Nat /\ filterDelay \in 0..SpeedCap
        BY DEF TypeOK
      <4> QED BY <3>2, <4>1 DEF RisingEdge, Steady, Stall
    <3> QED BY <1>2, <3>1, <3>2
  <2>4. /\ zeroStableFlag' \in 0..ZeroStable /\ edgeFlag' \in 0..2 /\ runStep' \in 0..3
        /\ filterCount' \in 0..SpeedCap /\ prev' \in 0..6 /\ applied' \in 0..6
    BY <2>2, <2>3, BlockTypes
  <2>5. isStart' \in {STOP, START} /\ speedCount' \in 0..SpeedCap
        /\ failed' \in 0..(CountMod - 1) /\ turns' \in 0..2
    <3>1. CASE FallingEdge
      <4>1. Least(turns + 1, 2) \in 0..2
        BY DEF Least, TypeOK
      <4> QED BY <3>1, <4>1 DEF FallingEdge, TypeOK
    <3>2. CASE RisingEdge
      BY <3>2 DEF RisingEdge, TypeOK
    <3>3. CASE Steady
      BY <3>3, CountsType DEF Steady, TypeOK
    <3>4. CASE Stall
      BY <3>4, CountsType DEF Stall, StopMotor, TypeOK
    <3> QED BY <1>2, <3>1, <3>2, <3>3, <3>4
  <2> QED BY <2>2, <2>3, <2>4, <2>5 DEF TypeOK
<1>3. CASE Startup
  BY <1>3 DEF Startup, ClearCrossings, TypeOK
<1>4. CASE StopTick
  BY <1>4 DEF StopTick, TypeOK
<1>5. CASE ForcedStep
  BY <1>5 DEF ForcedStep, sensor, history, TypeOK
<1>6. CASE Command
  BY <1>6 DEF Command, sensor, history, TypeOK, STOP, START
<1>7. CASE UNCHANGED vars
  BY <1>7 DEF vars, motor, sensor, history, TypeOK
<1> QED BY <1>1, <1>2, <1>3, <1>4, <1>5, <1>6, <1>7 DEF Next

(* The windows keep their shape and the counters their widths, the crossing *)
(* count its clamp: whatever the comparators show (hal_bldc.c:480-632).     *)
THEOREM SensorTypes == Spec => []TypeOK
<1>1. Init => TypeOK /\ OnCircle
  BY ConstantsAssumption DEF Init, TypeOK, OnCircle
<1> QED BY <1>1, TypeStep, PlaceStep, PTL DEF Spec

-----------------------------------------------------------------------------

(* The ticks since the last sample without a glitch, at most: the samples  *)
(* that follow it may have a forced step between them.                     *)
Ticks == 2 * badFor + (IF runStep = 2 THEN 0 ELSE 1)

(* q is where the rotor was at that sample: a window whose newest samples  *)
(* agree for longer shows that code's bit, and the rotor has moved by two  *)
(* codes at most.                                                          *)
SeenAt(q) ==
    /\ \A i \in Lines : queue[i].run > badFor => queue[i].bit = Bit(Code(q), i)
    /\ \/ pos = q
       \/ pos = Ahead(q, 1) /\ (stuck \/ dwell <= Ticks)
       \/ pos = Ahead(q, 2) /\ (stuck \/ MinDwell + dwell <= Ticks)

Seen == \E q \in 1..6 : SeenAt(q)

(* Before a run has seen a sample without a glitch, only a window it found *)
(* half full may give it one crossing.                                     *)
Early ==
    \/ zeroStableFlag = 0
    \/ /\ zeroStableFlag = 1 /\ oldval = 0
       /\ queue[0].bit = 1 => queue[0].run <= badFor

(* The rotor and its glitches, and the two together.                       *)
World == badFor \in 0..FilterLen - 1 /\ dwell \in Nat \ {0} /\ stuck \in BOOLEAN

ShownInv ==
    /\ TypeOK /\ OnCircle /\ World
    /\ runStep # 0 => Seen \/ Early

(* The codes around the circle, and their bits.                            *)
LEMMA AroundCircle ==
    ASSUME NEW q \in 1..6
    PROVE  /\ Ahead(q, 1) \in 1..6 /\ Ahead(q, 2) \in 1..6
           /\ After(q) = Ahead(q, 1) /\ After(Ahead(q, 1)) = Ahead(q, 2)
           /\ Before(Ahead(q, 1)) = q
           /\ Code(q) \in 1..6
           /\ \A i \in Lines : Bit(Code(q), i) \in {0, 1}
           /\ Code(q) = Bit(Code(q), 0) + 2 * Bit(Code(q), 1) + 4 * Bit(Code(q), 2)
           /\ \A i \in Lines : \E j \in Lines \ {i} :
                  Bit(Code(q), j) # Bit(Code(Ahead(q, 2)), j)
<1>1. q = 1 \/ q = 2 \/ q = 3 \/ q = 4 \/ q = 5 \/ q = 6
  OBVIOUS
<1>2. /\ Ahead(q, 1) \in 1..6 /\ Ahead(q, 2) \in 1..6
      /\ After(q) = Ahead(q, 1) /\ After(Ahead(q, 1)) = Ahead(q, 2)
      /\ Before(Ahead(q, 1)) = q
  BY <1>1 DEF After, Before, Ahead
<1>3. /\ Code(q) \in 1..6
      /\ \A i \in Lines : Bit(Code(q), i) \in {0, 1}
      /\ Code(q) = Bit(Code(q), 0) + 2 * Bit(Code(q), 1) + 4 * Bit(Code(q), 2)
  <2>1. \A c \in 1..6 : /\ \A i \in Lines : Bit(c, i) \in {0, 1}
                        /\ c = Bit(c, 0) + 2 * Bit(c, 1) + 4 * Bit(c, 2)
    <3> SUFFICES ASSUME NEW c \in 1..6
                 PROVE  /\ \A i \in Lines : Bit(c, i) \in {0, 1}
                        /\ c = Bit(c, 0) + 2 * Bit(c, 1) + 4 * Bit(c, 2)
      OBVIOUS
    <3>1. c = 1 \/ c = 2 \/ c = 3 \/ c = 4 \/ c = 5 \/ c = 6
      OBVIOUS
    <3> QED BY <3>1 DEF Bit, Lines
  <2>2. Code(q) \in 1..6
    BY <1>1 DEF Code, RotorCodes
  <2> QED BY <2>1, <2>2
<1>4. \A i \in Lines : \E j \in Lines \ {i} : Bit(Code(q), j) # Bit(Code(Ahead(q, 2)), j)
  <2>1. /\ q = 1 => Code(q) = 5 /\ Code(Ahead(q, 2)) = 6
        /\ q = 2 => Code(q) = 4 /\ Code(Ahead(q, 2)) = 2
        /\ q = 3 => Code(q) = 6 /\ Code(Ahead(q, 2)) = 3
        /\ q = 4 => Code(q) = 2 /\ Code(Ahead(q, 2)) = 1
        /\ q = 5 => Code(q) = 3 /\ Code(Ahead(q, 2)) = 5
        /\ q = 6 => Code(q) = 1 /\ Code(Ahead(q, 2)) = 4
    BY DEF Ahead, Code, RotorCodes
  <2>2. /\ Bit(1, 0) = 1 /\ Bit(1, 1) = 0 /\ Bit(1, 2) = 0
        /\ Bit(2, 0) = 0 /\ Bit(2, 1) = 1 /\ Bit(2, 2) = 0
        /\ Bit(3, 0) = 1 /\ Bit(3, 1) = 1 /\ Bit(3, 2) = 0
        /\ Bit(4, 0) = 0 /\ Bit(4, 1) = 0 /\ Bit(4, 2) = 1
        /\ Bit(5, 0) = 1 /\ Bit(5, 1) = 0 /\ Bit(5, 2) = 1
        /\ Bit(6, 0) = 0 /\ Bit(6, 1) = 1 /\ Bit(6, 2) = 1
    BY DEF Bit
  <2>3. \E i, j \in Lines : i # j /\ Bit(Code(q), i) # Bit(Code(Ahead(q, 2)), i)
                                 /\ Bit(Code(q), j) # Bit(Code(Ahead(q, 2)), j)
    BY <1>1, <2>1, <2>2 DEF Lines
  <2> QED BY <2>3
<1> QED BY <1>2, <1>3, <1>4

(* What a sample makes of a window.                                        *)
LEMMA ShiftsBy ==
    ASSUME NEW w \in [bit : {0, 1}, run : 1..FilterLen], NEW b
    PROVE  /\ Shift(w, b).bit = b
           /\ Shift(w, b).run \in 1..w.run + 1
           /\ b # w.bit => Shift(w, b).run = 1
<1> USE ConstantsAssumption
<1>1. CASE w.bit = b
  <2>1. Shift(w, b) = [w EXCEPT !.run = Least(w.run + 1, FilterLen)]
    BY <1>1 DEF Shift
  <2>2. Least(w.run + 1, FilterLen) \in 1..w.run + 1
    BY DEF Least
  <2> QED BY <1>1, <2>1, <2>2
<1>2. CASE w.bit # b
  BY <1>2 DEF Shift
<1> QED BY <1>1, <1>2

(* The rotor's tick, seen from the last sample without a glitch.           *)
LEMMA RotorMoves ==
    ASSUME ShownInv, NEW q \in 1..6, SeenAt(q), Turn, NEW t \in Nat,
           Ticks + 1 <= t, t <= 2 * FilterLen - 1
    PROVE  \/ pos' = q
           \/ pos' = Ahead(q, 1) /\ (stuck' \/ dwell' <= t)
           \/ pos' = Ahead(q, 2) /\ (stuck' \/ MinDwell + dwell' <= t)
<1> USE ConstantsAssumption
<1>1. /\ dwell \in Nat \ {0} /\ stuck \in BOOLEAN /\ Ticks \in Nat
      /\ FilterLen \in Nat /\ MinDwell \in Nat /\ FilterLen < MinDwell
  BY DEF ShownInv, World, Ticks
<1>2. CASE ~stuck /\ dwell' = dwell + 1 /\ UNCHANGED <<pos, stuck>>
  BY <1>1, <1>2 DEF SeenAt
<1>3. CASE stuck' = TRUE /\ UNCHANGED pos
  BY <1>3 DEF SeenAt
<1>4. CASE ~stuck /\ dwell >= MinDwell /\ dwell' = 1 /\ pos' = After(pos) /\ UNCHANGED stuck
  <2>1. CASE pos = q
    <3>1. pos' = Ahead(q, 1) /\ dwell' <= t
      BY <1>1, <1>4, <2>1, AroundCircle
    <3> QED BY <3>1
  <2>2. CASE pos = Ahead(q, 1) /\ dwell <= Ticks
    <3>1. pos' = Ahead(q, 2) /\ MinDwell + dwell' <= t
      BY <1>1, <1>4, <2>2, AroundCircle
    <3> QED BY <3>1
  <2>3. CASE MinDwell + dwell <= Ticks
    BY <1>1, <1>4, <2>3
  <2> QED BY <1>4, <2>1, <2>2, <2>3 DEF SeenAt
<1> QED BY <1>2, <1>3, <1>4 DEF Turn

(* A sample without a glitch shows the rotor's code; after one with a      *)
(* glitch the windows still show what the last one without showed.         *)
LEMMA SampleSees ==
    ASSUME ShownInv, SampleAll, runStep \in {1, 3}, runStep' \in 1..3, badFor' = 0 \/ Seen
    PROVE  Seen'
<1> USE ConstantsAssumption
<1>1. /\ badFor \in 0..FilterLen - 1 /\ FilterLen \in Nat \ {0}
      /\ \A i \in Lines : /\ queue[i] \in [bit : {0, 1}, run : 1..FilterLen]
                          /\ queue'[i] = Shift(queue[i], Level(i))
  BY DEF ShownInv, World, TypeOK, SampleAll
<1>2. CASE badFor' = 0
  <2>1. pos' \in 1..6
    <3>1. pos' = pos \/ pos' = After(pos)
      BY DEF SampleAll, Turn
    <3> QED BY <3>1, AroundCircle DEF ShownInv, OnCircle
  <2>2. \A i \in Lines : queue'[i].bit = Bit(Code(pos'), i)
    <3> TAKE i \in Lines
    <3>1. Level(i) = Bit(Code(pos'), i)
      BY <1>2 DEF Level
    <3>2. queue'[i].bit = Level(i)
      BY <1>1, ShiftsBy
    <3> QED BY <3>1, <3>2
  <2>3. PICK q \in 1..6 : q = pos'
    BY <2>1
  <2>4. SeenAt(q)'
    BY <2>2, <2>3 DEF SeenAt
  <2> QED BY <2>4 DEF Seen
<1>3. CASE badFor' # 0 /\ Seen
  <2>1. badFor' = badFor + 1 /\ badFor' \in 1..FilterLen - 1
    BY <1>1, <1>3 DEF SampleAll, Disturb
  <2>2. PICK q \in 1..6 : SeenAt(q)
    BY <1>3 DEF Seen
  <2>3. ASSUME NEW i \in Lines, queue'[i].run > badFor'
        PROVE  queue'[i].bit = Bit(Code(q), i)
    <3>1. CASE queue[i].bit = Level(i)
      <4>1. queue'[i].bit = queue[i].bit /\ queue'[i].run \in 1..queue[i].run + 1
        BY <1>1, <3>1, ShiftsBy
      <4>2. queue[i].run \in Nat /\ badFor \in Nat
        BY <1>1
      <4>3. queue[i].run > badFor
        BY <2>1, <2>3, <4>1, <4>2
      <4> QED BY <2>2, <4>1, <4>3 DEF SeenAt
    <3>2. CASE queue[i].bit # Level(i)
      <4>1. queue'[i].run = 1
        BY <1>1, <3>2, ShiftsBy
      <4> QED BY <2>1, <2>3, <4>1
    <3> QED BY <3>1, <3>2
  <2>4. PICK t \in Nat : t = Ticks' /\ Ticks + 1 <= t /\ t <= 2 * FilterLen - 1
    <3>1. Ticks' = 2 * (badFor + 1) + (IF runStep' = 2 THEN 0 ELSE 1) /\ Ticks = 2 * badFor + 1
      BY <2>1 DEF Ticks
    <3> QED BY <1>1, <2>1, <3>1
  <2>5. \/ pos' = q
        \/ pos' = Ahead(q, 1) /\ (stuck' \/ dwell' <= Ticks')
        \/ pos' = Ahead(q, 2) /\ (stuck' \/ MinDwell + dwell' <= Ticks')
    <3>1. Turn
      BY DEF SampleAll
    <3> QED BY <2>2, <2>4, <3>1, RotorMoves
  <2>6. SeenAt(q)'
    BY <2>3, <2>5 DEF SeenAt
  <2> QED BY <2>6 DEF Seen
<1> QED BY <1>2, <1>3

(* Where windows are uniform, what is filtered is what they show, and the  *)
(* code that of the last sample without a glitch, two codes back never.    *)
LEMMA CleanShows ==
    ASSUME ShownInv, TypeOK', OnCircle', World', SampleAll, Clean, Seen'
    PROVE  FilteredCode \in {Code(pos'), Code(Before(pos'))}
<1> USE ConstantsAssumption
<1>1. PICK q \in 1..6 : SeenAt(q)'
  BY DEF Seen
<1>2. \A i \in Lines : filt'[i] = queue'[i].bit /\ queue'[i].run = FilterLen
  BY DEF SampleAll, Clean, Uniform, Lines
<1>3. \A i \in Lines : filt'[i] = Bit(Code(q), i)
  BY <1>1, <1>2 DEF SeenAt, World
<1>4. FilteredCode = Code(q)
  BY <1>3, AroundCircle DEF FilteredCode, Lines
<1>5. ASSUME pos' = Ahead(q, 2) PROVE FALSE
  <2>1. PICK b \in Lines : \A i \in Lines \ {b} : Level(i) = Bit(Code(pos'), i)
    <3>1. CASE bad' \in Lines
      BY <3>1 DEF Level
    <3>2. CASE bad' \notin Lines
      BY <3>2 DEF Level, Lines
    <3> QED BY <3>1, <3>2
  <2>2. PICK j \in Lines \ {b} : Bit(Code(q), j) # Bit(Code(pos'), j)
    BY <1>5, AroundCircle
  <2>3. queue'[j].bit = Level(j)
    BY ShiftsBy DEF SampleAll, ShownInv, TypeOK
  <2> QED BY <1>2, <1>3, <2>1, <2>2, <2>3
<1>6. pos' = q \/ pos' = Ahead(q, 1)
  BY <1>1, <1>5 DEF SeenAt
<1> QED BY <1>4, <1>6, AroundCircle

(* Before such a sample a run counts no second crossing.                   *)
LEMMA EarlySample ==
    ASSUME ShownInv, Early, SampleAll, badFor' # 0
    PROVE  /\ zeroStableFlag = 1 /\ queue'[0].bit = 1 => queue'[0].run <= badFor'
           /\ badFor' \in 1..FilterLen - 1
<1> USE ConstantsAssumption
<1>1. /\ badFor \in 0..FilterLen - 1 /\ FilterLen \in Nat \ {0}
      /\ queue[0] \in [bit : {0, 1}, run : 1..FilterLen]
      /\ queue'[0] = Shift(queue[0], Level(0))
  BY DEF ShownInv, World, TypeOK, SampleAll, Lines
<1>2. badFor' = badFor + 1 /\ badFor' \in 1..FilterLen - 1
  BY <1>1 DEF SampleAll, Disturb
<1>3. ASSUME zeroStableFlag = 1, queue'[0].bit = 1 PROVE queue'[0].run <= badFor'
  <2>1. CASE queue[0].bit = Level(0)
    <3>1. queue'[0].bit = queue[0].bit /\ queue'[0].run \in 1..queue[0].run + 1
      BY <1>1, <2>1, ShiftsBy
    <3>2. queue[0].run <= badFor /\ queue[0].run \in Nat /\ badFor \in Nat
      BY <1>1, <1>3, <3>1 DEF Early
    <3> QED BY <1>2, <3>1, <3>2
  <2>2. CASE queue[0].bit # Level(0)
    <3>1. queue'[0].run = 1
      BY <1>1, <2>2, ShiftsBy
    <3> QED BY <1>2, <3>1
  <2> QED BY <2>1, <2>2
<1> QED BY <1>2, <1>3

(* The rotor and the glitches keep their ranges.                           *)
LEMMA WorldStep ==
    ASSUME World, [Next]_vars
    PROVE  World'
<1> USE ConstantsAssumption
<1>1. ASSUME Turn PROVE dwell' \in Nat \ {0} /\ stuck' \in BOOLEAN
  <2>1. dwell \in Nat \ {0} /\ stuck \in BOOLEAN
    BY DEF World
  <2>2. CASE dwell' = dwell + 1 /\ stuck' = stuck
    BY <2>1, <2>2
  <2>3. CASE dwell' = 1 /\ stuck' \in {stuck, TRUE}
    <3>1. dwell' \in Nat \ {0}
      BY <2>3
    <3>2. stuck' \in BOOLEAN
      BY <2>1, <2>3
    <3> QED BY <3>1, <3>2
  <2> QED BY <1>1, <2>2, <2>3 DEF Turn
<1>2. ASSUME Disturb PROVE badFor' \in 0..FilterLen - 1
  BY <1>2 DEF Disturb, World
<1>3. CASE Unstable \/ FallingEdge \/ RisingEdge \/ Steady \/ Stall
  BY <1>1, <1>2, <1>3 DEF Unstable, FallingEdge, RisingEdge, Steady, Stall, Settle, SampleAll, World
<1>4. CASE ForcedStep
  <2>1. Turn /\ badFor' = badFor
    BY <1>4 DEF ForcedStep, glitch
  <2> QED BY <1>1, <2>1 DEF World
<1>5. CASE StopTick
  <2>1. badFor' = badFor /\ (dwell' = dwell \/ dwell' = 1) /\ (stuck' = stuck \/ stuck' = FALSE)
    BY <1>5 DEF StopTick, rotor, glitch
  <2>2. dwell' \in Nat \ {0}
    BY <2>1 DEF World
  <2>3. stuck' \in BOOLEAN
    BY <2>1 DEF World
  <2> QED BY <2>1, <2>2, <2>3 DEF World
<1>6. CASE Startup \/ Command \/ UNCHANGED vars
  BY <1>6 DEF Startup, Command, vars, rotor, glitch, World
<1> QED BY <1>3, <1>4, <1>5, <1>6 DEF Next

(* At first the rotor has just come to its code, and nothing glitches.     *)
LEMMA WorldBegins == Init => World
<1> SUFFICES ASSUME Init PROVE World
  OBVIOUS
<1>1. badFor = 0 /\ dwell = 1 /\ stuck = FALSE
  BY DEF Init
<1>2. 0 \in 0..FilterLen - 1
  BY ConstantsAssumption
<1>3. badFor \in 0..FilterLen - 1 /\ dwell \in Nat \ {0}
  BY <1>1, <1>2
<1>4. stuck \in BOOLEAN
  BY <1>1
<1> QED BY <1>3, <1>4 DEF World

(* A tick that finds all windows uniform.                                  *)
LEMMA SettleShows ==
    ASSUME ZeroStable > 1, ShownInv, FallingEdge \/ RisingEdge \/ Steady \/ Stall,
           TypeOK', OnCircle', World'
    PROVE  /\ runStep' # 0 => (Seen \/ Early)'
           /\ Commutation => applied' \in {Code(pos'), Code(Before(pos'))}
<1> USE ConstantsAssumption
<1>1. /\ SampleAll /\ Clean /\ oldval' = filt'[0] /\ runStep \in {1, 3}
  BY DEF FallingEdge, RisingEdge, Steady, Stall, Settle
<1>2. PICK z \in Nat, d \in 0..SpeedCap :
          /\ CrossingBlock(z, d)
          /\ z = IF oldval = 1 /\ oldval' = 0 THEN zeroStableFlag + 1 ELSE zeroStableFlag
  <2>1. CASE FallingEdge
    <3>1. zeroStableFlag + 1 \in Nat /\ DelayOf(NextSpeed) \in 0..SpeedCap
      BY CountsType DEF ShownInv, TypeOK
    <3> QED BY <2>1, <3>1 DEF FallingEdge
  <2>2. CASE RisingEdge \/ Steady \/ Stall
    <3>1. zeroStableFlag \in Nat /\ filterDelay \in 0..SpeedCap
      BY DEF ShownInv, TypeOK
    <3>2. ~(oldval = 1 /\ oldval' = 0)
      BY <2>2 DEF RisingEdge, Steady, Stall
    <3> QED BY <2>2, <3>1, <3>2 DEF RisingEdge, Steady, Stall
  <2> QED BY <2>1, <2>2
<1>3. runStep' \in 1..3
  BY <1>1, <1>2 DEF CrossingBlock, HandOver, NoHandOver
<1>4. badFor' = 0 \/ Seen => Seen'
  BY <1>1, <1>3, SampleSees
<1>5. ASSUME ~Seen' PROVE Early' /\ z < ZeroStable
  <2>1. Early /\ badFor' # 0
    BY <1>1, <1>4, <1>5 DEF ShownInv
  <2>2. /\ zeroStableFlag = 1 /\ queue'[0].bit = 1 => queue'[0].run <= badFor'
        /\ badFor' \in 1..FilterLen - 1
    BY <1>1, <2>1, EarlySample
  <2>3. queue'[0].run = FilterLen /\ filt'[0] = queue'[0].bit
    BY <1>1 DEF SampleAll, Clean, Uniform, Lines
  <2>4. ASSUME zeroStableFlag = 1 PROVE oldval = 0 /\ queue'[0].bit # 1 /\ oldval' = 0
    <3>1. oldval = 0
      BY <2>1, <2>4 DEF Early
    <3>2. queue'[0].bit # 1
      BY <2>2, <2>3, <2>4
    <3>3. oldval' \in {0, 1}
      BY DEF TypeOK
    <3> QED BY <1>1, <2>3, <3>1, <3>2, <3>3
  <2>5. z < ZeroStable /\ zeroStableFlag' = z
    <3>1. z \in {0, 1}
      BY <1>2, <2>1, <2>4 DEF Early
    <3>2. z < ZeroStable
      BY <3>1
    <3> QED BY <1>2, <3>2 DEF CrossingBlock
  <2>6. CASE z = 0
    BY <2>5, <2>6 DEF Early
  <2>7. CASE z = 1
    <3>1. oldval' = 0
      BY <1>2, <2>1, <2>4, <2>7 DEF Early
    <3>2. queue'[0].bit # 1
      BY <1>1, <2>3, <3>1
    <3> QED BY <2>5, <2>7, <3>1, <3>2 DEF Early
  <2>8. z \in {0, 1}
    BY <1>2, <2>1, <2>4 DEF Early
  <2> QED BY <2>5, <2>6, <2>7, <2>8
<1>6. ASSUME Commutation PROVE applied' \in {Code(pos'), Code(Before(pos'))}
  <2>1. z >= ZeroStable /\ applied' = FilteredCode
    BY <1>2, <1>6 DEF CrossingBlock, Commutate, Commutation
  <2>2. Seen'
    BY <1>2, <1>5, <2>1
  <2> QED BY <1>1, <2>1, <2>2, CleanShows
<1> QED BY <1>5, <1>6

(* Every step keeps the invariant, and commutates as the rotor shows.      *)
LEMMA ShownStep ==
    ASSUME ZeroStable > 1, ShownInv, [Next]_vars
    PROVE  /\ ShownInv'
           /\ Commutation => applied' \in {Code(pos'), Code(Before(pos'))}
<1> USE ConstantsAssumption
<1>1. TypeOK' /\ OnCircle' /\ World'
  BY TypeStep, PlaceStep, WorldStep DEF ShownInv
<1>2. CASE FallingEdge \/ RisingEdge \/ Steady \/ Stall
  BY <1>1, <1>2, SettleShows DEF ShownInv
<1>3. CASE Unstable
  <2>1. /\ SampleAll /\ runStep \in {1, 3} /\ runStep' \in 1..3
        /\ UNCHANGED <<oldval, zeroStableFlag, applied>>
    BY <1>3 DEF Unstable, NoHandOver
  <2>2. badFor' = 0 \/ Seen => Seen'
    BY <2>1, SampleSees
  <2>3. ASSUME ~Seen' PROVE Early'
    <3>1. Early /\ badFor' # 0
      BY <2>1, <2>2, <2>3 DEF ShownInv
    <3>2. zeroStableFlag = 1 /\ queue'[0].bit = 1 => queue'[0].run <= badFor'
      BY <2>1, <3>1, EarlySample
    <3> QED BY <2>1, <3>1, <3>2 DEF Early
  <2> QED BY <1>1, <2>1, <2>3 DEF ShownInv, Commutation
<1>4. CASE Startup
  BY <1>1, <1>4 DEF Startup, ClearCrossings, ShownInv, Early, Commutation
<1>5. CASE ForcedStep
  <2>1. /\ runStep = 2 /\ runStep' = 1 /\ Turn
        /\ UNCHANGED <<queue, oldval, zeroStableFlag, badFor, applied>>
    BY <1>5 DEF ForcedStep, sensor, glitch, history
  <2>2. ASSUME Seen PROVE Seen'
    <3>1. PICK q \in 1..6 : SeenAt(q)
      BY <2>2 DEF Seen
    <3>2. PICK t \in Nat : t = Ticks' /\ Ticks + 1 <= t /\ t <= 2 * FilterLen - 1
      <4>1. Ticks' = 2 * badFor + 1 /\ Ticks = 2 * badFor
        <5>1. badFor' = badFor /\ runStep' = 1 /\ runStep = 2 /\ badFor \in Nat
          BY <2>1 DEF ShownInv, World
        <5> QED BY <5>1 DEF Ticks
      <4> QED BY <4>1 DEF ShownInv, World
    <3>3. \/ pos' = q
          \/ pos' = Ahead(q, 1) /\ (stuck' \/ dwell' <= Ticks')
          \/ pos' = Ahead(q, 2) /\ (stuck' \/ MinDwell + dwell' <= Ticks')
      BY <2>1, <3>1, <3>2, RotorMoves
    <3>4. SeenAt(q)'
      BY <2>1, <3>1, <3>3 DEF SeenAt
    <3> QED BY <3>4 DEF Seen
  <2>3. Early => Early'
    BY <2>1 DEF Early
  <2> QED BY <1>1, <2>1, <2>2, <2>3 DEF ShownInv, Commutation
<1>6. CASE StopTick
  BY <1>1, <1>6 DEF StopTick, ShownInv, Commutation
<1>7. CASE Command \/ UNCHANGED vars
  <2>1. UNCHANGED <<queue, oldval, zeroStableFlag, badFor, applied, runStep, pos, dwell, stuck>>
    BY <1>7 DEF Command, vars, motor, sensor, rotor, glitch, history
  <2>2. Seen => Seen'
    BY <2>1 DEF Seen, SeenAt, Ticks
  <2>3. Early => Early'
    BY <2>1 DEF Early
  <2> QED BY <1>1, <2>1, <2>2, <2>3 DEF ShownInv, Commutation
<1> QED BY <1>2, <1>3, <1>4, <1>5, <1>6, <1>7 DEF Next

(* A commutation answers a code the rotor shows or showed just before, for *)
(* every window length and turning speed, whatever comparators glitch and  *)
(* whatever the application commands between two ticks: as long as more    *)
(* than one crossing is asked for, as ZERO_STABLE_FLAG_CNT does            *)
(* (hal_bldc.c:546-555,608).                                               *)
THEOREM ShownCodeOnly ==
    ASSUME ZeroStable > 1
    PROVE  Spec => CommutatesShownCode
<1>1. Init => ShownInv
  <2> SUFFICES ASSUME Init PROVE ShownInv
    OBVIOUS
  <2>1. TypeOK /\ OnCircle
    BY ConstantsAssumption DEF Init, TypeOK, OnCircle
  <2>2. World
    BY WorldBegins
  <2>3. runStep = 0
    BY DEF Init
  <2> QED BY <2>1, <2>2, <2>3 DEF ShownInv
<1>2. ShownInv /\ [Next]_vars =>
          ShownInv' /\ [Commutation => applied' \in {Code(pos'), Code(Before(pos'))}]_vars
  BY ShownStep
<1> QED BY <1>1, <1>2, PTL DEF Spec, CommutatesShownCode

-----------------------------------------------------------------------------
(* Without glitches, and with a delay that fits into the shortest code once *)
(* its windows are uniform.                                                *)
DelayFits == \A c \in 0..SpeedCap : DelayOf(c) + FilterLen <= MinDwell + 1

Timely ==
    /\ badFor = 0 /\ filterDelay + FilterLen <= MinDwell + 1
    /\ filterCount + FilterLen <= MinDwell

(* The code commutated last is the rotor's, or the one before while its    *)
(* delay runs.                                                             *)
Answers ==
    \/ prev = Code(pos)
    \/ /\ prev = Code(Before(pos))
       /\ stuck \/ dwell < FilterLen \/ filterCount + FilterLen > dwell

Following ==
    runStep # 0 /\ applied # 0 =>
        /\ runStep = 3 /\ zeroStableFlag = ZeroStable /\ edgeFlag > 0 /\ prev = applied
        /\ \A i \in Lines : queue[i].bit = Bit(Code(pos), i)
        /\ \A i \in Lines : stuck \/ queue[i].run >= dwell \/ Uniform(queue[i])
        /\ Answers

FollowInv == TypeOK /\ OnCircle /\ World /\ Timely /\ Following

Follows == \E p \in 1..6 : applied = Code(p) /\ applied' = Code(After(p))

(* The codes are six, and each has one before and one after.               *)
LEMMA CodesDiffer ==
    ASSUME NEW p \in 1..6
    PROVE  /\ After(p) \in 1..6 /\ Before(p) \in 1..6
           /\ Before(After(p)) = p /\ After(Before(p)) = p
           /\ Code(p) \in 1..6 /\ Code(Before(p)) # Code(p)
<1>1. p = 1 \/ p = 2 \/ p = 3 \/ p = 4 \/ p = 5 \/ p = 6
  OBVIOUS
<1>2. /\ After(p) \in 1..6 /\ Before(p) \in 1..6
      /\ Before(After(p)) = p /\ After(Before(p)) = p
  BY <1>1 DEF After, Before, Ahead
<1>3. Code(p) \in 1..6
  BY <1>1 DEF Code, RotorCodes
<1>4. /\ p = 1 => Before(p) = 6
      /\ p = 2 => Before(p) = 1
      /\ p = 3 => Before(p) = 2
      /\ p = 4 => Before(p) = 3
      /\ p = 5 => Before(p) = 4
      /\ p = 6 => Before(p) = 5
  BY DEF Before, Ahead
<1>5. Code(1) = 5 /\ Code(2) = 4 /\ Code(3) = 6 /\ Code(4) = 2 /\ Code(5) = 3 /\ Code(6) = 1
  BY DEF Code, RotorCodes
<1> QED BY <1>1, <1>2, <1>3, <1>4, <1>5

(* A sample shows the rotor's own code, and where its windows are uniform  *)
(* that is the filtered one.                                               *)
LEMMA SampleShows ==
    ASSUME Glitches = {}, FollowInv, SampleAll, OnCircle'
    PROVE  /\ badFor' = 0
           /\ \A i \in Lines :
                  /\ queue'[i].bit = Bit(Code(pos'), i) /\ queue'[i].run >= 1
                  /\ queue[i].bit = Bit(Code(pos'), i) =>
                         queue'[i].run >= queue[i].run + 1 \/ Uniform(queue'[i])
           /\ Clean => FilteredCode = Code(pos')
<1> USE ConstantsAssumption
<1>1. badFor' = 0
  BY DEF SampleAll, Disturb, FollowInv, Timely
<1>2. \A i \in Lines : Level(i) = Bit(Code(pos'), i)
  BY <1>1 DEF Level
<1>3. \A i \in Lines : queue[i] \in [bit : {0, 1}, run : 1..FilterLen]
                       /\ queue'[i] = Shift(queue[i], Level(i))
  BY DEF FollowInv, TypeOK, SampleAll
<1>4. \A i \in Lines : queue'[i].bit = Bit(Code(pos'), i)
  BY <1>2, <1>3, ShiftsBy
<1>5. ASSUME NEW i \in Lines
      PROVE  /\ queue'[i].run >= 1
             /\ queue[i].bit = Bit(Code(pos'), i) =>
                    queue'[i].run >= queue[i].run + 1 \/ Uniform(queue'[i])
  <2>1. queue'[i].run \in 1..queue[i].run + 1
    BY <1>3, ShiftsBy
  <2>2. ASSUME Level(i) = queue[i].bit
        PROVE  queue'[i].run >= queue[i].run + 1 \/ queue'[i].run = FilterLen
    <3>1. queue'[i].run = Least(queue[i].run + 1, FilterLen)
      BY <1>3, <2>2 DEF Shift
    <3>2. queue[i].run \in 1..FilterLen
      BY <1>3
    <3> QED BY <3>1, <3>2 DEF Least
  <2>3. queue[i].run \in 1..FilterLen
    BY <1>3
  <2> QED BY <1>2, <2>1, <2>2, <2>3 DEF Uniform
<1>6. ASSUME Clean PROVE FilteredCode = Code(pos')
  <2>1. \A i \in Lines : filt'[i] = queue'[i].bit
    BY <1>6 DEF SampleAll, Clean, Lines
  <2>2. PICK q \in 1..6 : q = pos'
    BY DEF OnCircle
  <2>3. \A i \in Lines : filt'[i] = Bit(Code(q), i)
    BY <1>4, <2>1, <2>2
  <2> QED BY <2>2, <2>3, AroundCircle DEF FilteredCode, Lines
<1> QED BY <1>1, <1>4, <1>5, <1>6

(* While the motor follows, the windows of a code that stays fill up.      *)
LEMMA WindowsFill ==
    ASSUME Glitches = {}, FollowInv, SampleAll, OnCircle',
           runStep # 0, applied # 0
    PROVE  /\ \A i \in Lines : stuck' \/ queue'[i].run >= dwell' \/ Uniform(queue'[i])
           /\ ~Clean => stuck' \/ dwell' < FilterLen
<1> USE ConstantsAssumption
<1>1. \A i \in Lines : /\ queue[i].bit = Bit(Code(pos), i)
                       /\ stuck \/ queue[i].run >= dwell \/ Uniform(queue[i])
                       /\ queue[i].run \in 1..FilterLen
  BY DEF FollowInv, Following, TypeOK
<1>2. \A i \in Lines : queue'[i].run \in 1..FilterLen
  <2>1. \A i \in Lines : queue[i] \in [bit : {0, 1}, run : 1..FilterLen]
                         /\ queue'[i] = Shift(queue[i], Level(i))
    BY DEF FollowInv, TypeOK, SampleAll
  <2>2. ASSUME NEW w \in [bit : {0, 1}, run : 1..FilterLen], NEW b
        PROVE  Shift(w, b).run \in 1..FilterLen
    <3>1. CASE w.bit = b
      <4>1. Shift(w, b) = [w EXCEPT !.run = Least(w.run + 1, FilterLen)]
        BY <3>1 DEF Shift
      <4>2. Least(w.run + 1, FilterLen) \in 1..FilterLen
        BY DEF Least
      <4> QED BY <4>1, <4>2
    <3>2. CASE w.bit # b
      BY <3>2 DEF Shift
    <3> QED BY <3>1, <3>2
  <2> QED BY <2>1, <2>2
<1>3. dwell \in Nat \ {0}
  BY DEF FollowInv, World
<1>4. ASSUME NEW i \in Lines PROVE stuck' \/ queue'[i].run >= dwell' \/ queue'[i].run = FilterLen
  <2>1. CASE ~stuck /\ dwell' = dwell + 1 /\ pos' = pos
    <3>1. queue'[i].run >= queue[i].run + 1 \/ queue'[i].run = FilterLen
      BY <1>1, <2>1, SampleShows DEF Uniform
    <3>2. queue[i].run >= dwell \/ queue[i].run = FilterLen
      BY <1>1, <2>1 DEF Uniform
    <3> QED BY <1>1, <1>2, <1>3, <2>1, <3>1, <3>2
  <2>2. CASE dwell' = 1
    BY <1>2, <2>2
  <2>3. CASE stuck'
    BY <2>3
  <2> QED BY <2>1, <2>2, <2>3 DEF SampleAll, Turn
<1>5. ASSUME ~Clean PROVE stuck' \/ dwell' < FilterLen
  <2>1. PICK i \in Lines : queue'[i].run # FilterLen
    BY <1>5 DEF Clean, Uniform
  <2>2. dwell' \in Nat
    BY <1>3 DEF SampleAll, Turn
  <2> QED BY <1>2, <1>4, <2>1, <2>2
<1> QED BY <1>4, <1>5 DEF Uniform

(* The rotor's tick leaves the last commutation the one of its code, or of *)
(* the one before: it does not turn on while a delay runs.                 *)
LEMMA RotorWaits ==
    ASSUME FollowInv, Answers, Turn, World'
    PROVE  \/ prev = Code(pos')
           \/ /\ prev = Code(Before(pos'))
              /\ stuck' \/ dwell' = 1 \/ dwell' <= FilterLen \/ filterCount + FilterLen + 1 > dwell'
<1> USE ConstantsAssumption
<1>1. /\ dwell \in Nat \ {0} /\ pos \in 1..6 /\ filterCount \in Nat
      /\ filterCount + FilterLen <= MinDwell /\ FilterLen \in Nat /\ MinDwell \in Nat
      /\ FilterLen < MinDwell
  BY DEF FollowInv, World, OnCircle, Timely, TypeOK
<1>2. CASE ~stuck /\ dwell' = dwell + 1 /\ UNCHANGED <<pos, stuck>>
  BY <1>1, <1>2 DEF Answers
<1>3. CASE ~stuck /\ dwell >= MinDwell /\ dwell' = 1 /\ pos' = After(pos)
  <2>1. prev = Code(pos)
    BY <1>1, <1>3 DEF Answers
  <2>2. Before(pos') = pos
    BY <1>1, <1>3, CodesDiffer
  <2> QED BY <1>3, <2>1, <2>2
<1>4. CASE stuck' /\ pos' = pos
  BY <1>4 DEF Answers
<1> QED BY <1>2, <1>3, <1>4 DEF Turn

(* A tick that finds a mixed window.                                       *)
LEMMA UnstableFollows ==
    ASSUME Glitches = {}, FollowInv, Unstable, TypeOK', OnCircle', World'
    PROVE  Timely' /\ Following' /\ applied' = applied
<1> USE ConstantsAssumption
<1>1. /\ SampleAll /\ Turn /\ ~Clean /\ NoHandOver
      /\ UNCHANGED <<zeroStableFlag, edgeFlag, filterDelay, filterCount, prev, applied>>
  BY DEF Unstable, SampleAll
<1>2. Timely'
  BY <1>1, SampleShows DEF FollowInv, Timely
<1>3. ASSUME applied # 0 PROVE Following'
  <2>1. runStep # 0
    BY DEF Unstable
  <2>2. runStep = 3 /\ zeroStableFlag = ZeroStable /\ edgeFlag > 0 /\ prev = applied /\ Answers
    BY <1>3, <2>1 DEF FollowInv, Following
  <2>3. /\ \A i \in Lines : stuck' \/ queue'[i].run >= dwell' \/ Uniform(queue'[i])
        /\ stuck' \/ dwell' < FilterLen
    BY <1>1, <1>3, <2>1, WindowsFill
  <2>4. \A i \in Lines : queue'[i].bit = Bit(Code(pos'), i)
    BY <1>1, SampleShows
  <2>5. prev = Code(pos') \/ prev = Code(Before(pos'))
    BY <1>1, <2>2, RotorWaits
  <2>6. Answers'
    BY <1>1, <2>3, <2>5 DEF Answers
  <2>7. runStep' = 3
    BY <1>1, <2>2 DEF NoHandOver
  <2> QED BY <1>1, <2>2, <2>3, <2>4, <2>6, <2>7 DEF Following, Uniform
<1>4. applied = 0 => Following'
  BY <1>1 DEF Following
<1> QED BY <1>1, <1>2, <1>3, <1>4

(* A tick that finds all windows uniform, and perhaps commutates.          *)
LEMMA SettleFollows ==
    ASSUME Glitches = {}, DelayFits, FollowInv, FallingEdge \/ RisingEdge \/ Steady \/ Stall,
           TypeOK', OnCircle', World'
    PROVE  Timely' /\ Following' /\ (Commutation /\ applied # 0 => Follows)
<1> USE ConstantsAssumption
<1>1. /\ SampleAll /\ Turn /\ Clean /\ runStep # 0
  BY DEF FallingEdge, RisingEdge, Steady, Stall, Settle, SampleAll
<1>2. PICK z \in Nat, d \in 0..SpeedCap :
          /\ CrossingBlock(z, d) /\ filterDelay' = d /\ z >= zeroStableFlag
          /\ d + FilterLen <= MinDwell + 1
  <2>1. CASE FallingEdge
    <3>1. /\ zeroStableFlag + 1 \in Nat /\ zeroStableFlag \in Nat
          /\ DelayOf(NextSpeed) \in 0..SpeedCap /\ DelayOf(NextSpeed) + FilterLen <= MinDwell + 1
      BY CountsType DEF FollowInv, TypeOK, DelayFits
    <3> QED BY <2>1, <3>1 DEF FallingEdge
  <2>2. CASE RisingEdge \/ Steady \/ Stall
    <3>1. /\ zeroStableFlag \in Nat /\ filterDelay \in 0..SpeedCap
          /\ filterDelay + FilterLen <= MinDwell + 1
      BY DEF FollowInv, TypeOK, Timely
    <3> QED BY <2>2, <3>1 DEF RisingEdge, Steady, Stall
  <2> QED BY <2>1, <2>2
<1>3. /\ badFor' = 0 /\ FilteredCode = Code(pos') /\ Code(pos') \in 1..6
      /\ \A i \in Lines : queue'[i].bit = Bit(Code(pos'), i) /\ Uniform(queue'[i])
  <2>1. pos' \in 1..6
    BY DEF OnCircle
  <2>2. Code(pos') \in 1..6
    BY <2>1, CodesDiffer
  <2> QED BY <1>1, <2>2, SampleShows DEF Clean
<1>4. applied # 0 =>
          /\ runStep = 3 /\ zeroStableFlag = ZeroStable /\ edgeFlag > 0 /\ prev = applied
          /\ \/ prev = Code(pos')
             \/ /\ prev = Code(Before(pos'))
                /\ stuck' \/ dwell' = 1 \/ dwell' <= FilterLen
                       \/ filterCount + FilterLen + 1 > dwell'
  BY <1>1, RotorWaits DEF FollowInv, Following
<1>5. /\ filterCount \in Nat /\ filterCount + FilterLen <= MinDwell /\ dwell' \in Nat \ {0}
      /\ FilterLen \in Nat \ {0} /\ MinDwell \in Nat /\ ZeroStable \in Nat \ {0}
      /\ zeroStableFlag \in Nat /\ FilterLen < MinDwell
  BY DEF FollowInv, Timely, TypeOK, World
<1>6. CASE UNCHANGED <<filterCount, prev, applied>> /\ (z < ZeroStable \/ edgeFlag = 0)
  <2>1. applied = 0
    BY <1>2, <1>4, <1>5, <1>6
  <2>2. Following' /\ ~Commutation
    BY <1>6, <2>1 DEF Following, Commutation
  <2>3. Timely'
    BY <1>2, <1>3, <1>5, <1>6 DEF Timely
  <2> QED BY <2>2, <2>3
<1>7. CASE Commutate(d) /\ HandOver /\ ClampStable(z) /\ edgeFlag' = 2
  <2>1. runStep' = 3 /\ zeroStableFlag' = ZeroStable /\ edgeFlag' > 0
    BY <1>7 DEF HandOver, ClampStable
  <2>2. CASE /\ filterCount' = 0 /\ prev' = FilteredCode
             /\ applied' = IF FilteredCode # prev THEN FilteredCode ELSE applied
    <3>1. Timely'
      BY <1>2, <1>3, <1>5, <2>2 DEF Timely
    <3>2. applied' # 0 => prev' = applied'
      BY <1>4, <2>2
    <3>3. Answers'
      BY <1>3, <2>2 DEF Answers
    <3>4. Following'
      BY <1>3, <2>1, <3>2, <3>3 DEF Following, Uniform
    <3>5. ASSUME Commutation, applied # 0 PROVE Follows
      <4>1. applied' = Code(pos') /\ prev = applied /\ prev # Code(pos')
        BY <1>3, <1>4, <2>2, <3>5 DEF Commutation
      <4>2. applied = Code(Before(pos'))
        BY <1>4, <3>5, <4>1
      <4>3. Before(pos') \in 1..6 /\ After(Before(pos')) = pos'
        BY CodesDiffer DEF OnCircle
      <4> QED BY <4>1, <4>2, <4>3 DEF Follows
    <3> QED BY <3>1, <3>4, <3>5
  <2>3. CASE /\ filterCount' = filterCount + (IF FilteredCode # prev THEN 1 ELSE 0)
             /\ filterCount' < d /\ UNCHANGED <<prev, applied>>
    <3>1. Timely'
      BY <1>2, <1>3, <1>5, <2>3 DEF Timely
    <3>2. ASSUME applied # 0 PROVE Answers'
      <4>1. CASE prev = Code(pos')
        BY <2>3, <4>1 DEF Answers
      <4>2. CASE prev = Code(Before(pos'))
        <5>1. FilteredCode # prev
          BY <1>3, <4>2, CodesDiffer DEF OnCircle
        <5>2. filterCount' = filterCount + 1
          BY <2>3, <5>1
        <5>3. stuck' \/ filterCount' + FilterLen > dwell'
                 \/ prev = Code(pos')
          BY <1>4, <1>5, <3>2, <5>2
        <5> QED BY <2>3, <4>2, <5>3 DEF Answers
      <4> QED BY <1>4, <3>2, <4>1, <4>2
    <3>3. Following' /\ ~Commutation
      BY <1>3, <1>4, <2>1, <2>3, <3>2 DEF Following, Uniform, Commutation
    <3> QED BY <3>1, <3>3
  <2> DEFINE n == filterCount + (IF FilteredCode # prev THEN 1 ELSE 0)
  <2>4. n >= d \/ n < d
    BY <1>5
  <2>5. n < d => ~(n >= d)
    BY <1>5
  <2> QED BY <1>7, <2>2, <2>3, <2>4, <2>5 DEF Commutate
<1>8. ~(FilteredCode \in {0, 7})
  BY <1>3
<1> QED BY <1>2, <1>6, <1>7, <1>8 DEF CrossingBlock

(* Every step keeps the invariant, and commutates to the neighbour only.   *)
LEMMA FollowStep ==
    ASSUME Glitches = {}, DelayFits, FollowInv, [Next]_vars
    PROVE  FollowInv' /\ (Commutation /\ applied # 0 => Follows)
<1> USE ConstantsAssumption
<1>1. TypeOK' /\ OnCircle' /\ World'
  BY TypeStep, PlaceStep, WorldStep DEF FollowInv
<1>2. CASE FallingEdge \/ RisingEdge \/ Steady \/ Stall
  BY <1>1, <1>2, SettleFollows DEF FollowInv
<1>3. CASE Unstable
  BY <1>1, <1>3, UnstableFollows DEF FollowInv, Commutation
<1>4. CASE Startup \/ StopTick
  <2>1. applied' = 0 /\ UNCHANGED <<badFor, filterDelay, filterCount>>
    BY <1>4 DEF Startup, StopTick, glitch
  <2>2. Following' /\ ~Commutation
    BY <2>1 DEF Following, Commutation
  <2>3. Timely'
    BY <2>1 DEF FollowInv, Timely
  <2> QED BY <1>1, <2>2, <2>3 DEF FollowInv
<1>5. CASE ForcedStep
  <2>1. applied = 0
    BY <1>5 DEF ForcedStep, FollowInv, Following
  <2>2. UNCHANGED <<applied, badFor, filterDelay, filterCount>>
    BY <1>5 DEF ForcedStep, sensor, glitch, history
  <2>3. Following' /\ ~Commutation
    BY <2>1, <2>2 DEF Following, Commutation
  <2>4. Timely'
    BY <2>2 DEF FollowInv, Timely
  <2> QED BY <1>1, <2>3, <2>4 DEF FollowInv
<1>6. CASE Command \/ UNCHANGED vars
  <2>1. /\ UNCHANGED <<queue, zeroStableFlag, edgeFlag, filterDelay, filterCount, prev>>
        /\ UNCHANGED <<runStep, pos, dwell, stuck, badFor, applied>>
    BY <1>6 DEF Command, vars, motor, sensor, rotor, glitch, history
  <2>2. Following'
    BY <2>1 DEF FollowInv, Following, Answers, Uniform
  <2>3. Timely' /\ ~Commutation
    BY <2>1 DEF FollowInv, Timely, Commutation
  <2> QED BY <1>1, <2>2, <2>3 DEF FollowInv
<1> QED BY <1>2, <1>3, <1>4, <1>5, <1>6 DEF Next

(* Successive commutations follow the rotor's codes one by one, for every  *)
(* window length and turning speed, when no comparator glitches and the    *)
(* delay of the longest half turn counted fits into the shortest code,     *)
(* after its windows have become uniform (hal_bldc.c:572,615-629).         *)
THEOREM RotorIsFollowed ==
    ASSUME Glitches = {}, DelayFits
    PROVE  Spec => FollowsRotor
<1>1. Init => FollowInv
  <2> SUFFICES ASSUME Init PROVE FollowInv
    OBVIOUS
  <2>1. TypeOK /\ OnCircle
    BY ConstantsAssumption DEF Init, TypeOK, OnCircle
  <2>2. World
    BY WorldBegins
  <2>3. Timely /\ Following
    BY ConstantsAssumption DEF Init, Timely, Following
  <2> QED BY <2>1, <2>2, <2>3 DEF FollowInv
<1>2. FollowInv /\ [Next]_vars =>
          FollowInv' /\ [Commutation /\ applied # 0 =>
              \E p \in 1..6 : applied = Code(p) /\ applied' = Code(After(p))]_vars
  BY FollowStep DEF Follows
<1> QED BY <1>1, <1>2, PTL DEF Spec, FollowsRotor

-----------------------------------------------------------------------------
(* A stuck rotor is near its stall.  The samples until a window shows the  *)
(* rotor's bit throughout, and until all three do.                         *)
ToFill(i) ==
    IF queue[i].bit = Bit(Code(pos), i) THEN FilterLen - queue[i].run ELSE FilterLen

Larger(a, b) == IF a > b THEN a ELSE b
ToShow == Larger(ToFill(0), Larger(ToFill(1), ToFill(2)))

(* The samples until the count has passed the limit, which a last edge may *)
(* still begin anew, and the ticks they take: a forced step may come       *)
(* before each, and the start of the run before the first.                 *)
ToStall ==
    IF ToShow > 0 THEN ToShow + StallLimit + 1
    ELSE IF oldval # Bit(Code(pos), 0) THEN StallLimit + 2
    ELSE StallLimit + 1 - failed

TicksToStall == 2 * ToStall + (CASE runStep = 0 -> 2 [] runStep = 2 -> 1 [] OTHER -> 0)

MostTicks == 2 * (FilterLen + StallLimit + 1) + 2

(* While a rotor sticks and the motor is driven, every tick whose sample no*)
(* glitch falsifies is nearer to the stall, or stops the motor.            *)
NearsStall ==
    stuck /\ isStart = START =>
        /\ TicksToStall \in 1..MostTicks
        /\ badFor' = 0 => isStart' = STOP \/ (stuck' /\ TicksToStall' < TicksToStall)

StuckInv == TypeOK /\ OnCircle /\ StallNotMissed /\ stuck \in BOOLEAN

LEMMA FillRange ==
    ASSUME TypeOK
    PROVE  /\ \A i \in Lines : ToFill(i) \in 0..FilterLen
           /\ ToShow \in 0..FilterLen
           /\ ToShow = 0 <=> \A i \in Lines : ToFill(i) = 0
<1>1. ASSUME NEW i \in Lines PROVE ToFill(i) \in 0..FilterLen
  <2>1. queue[i].run \in 1..FilterLen /\ FilterLen \in Nat
    BY ConstantsAssumption DEF TypeOK
  <2> QED BY <2>1 DEF ToFill
<1>2. /\ ToFill(0) \in 0..FilterLen /\ ToFill(1) \in 0..FilterLen /\ ToFill(2) \in 0..FilterLen
      /\ Lines = {0, 1, 2} /\ FilterLen \in Nat
  BY <1>1, ConstantsAssumption DEF Lines
<1> HIDE DEF ToFill
<1> QED BY <1>1, <1>2 DEF ToShow, Larger

(* A sample without a glitch fills every window by one.                    *)
LEMMA SampleFills ==
    ASSUME TypeOK, OnCircle, stuck, SampleAll, badFor' = 0
    PROVE  /\ pos' = pos /\ stuck'
           /\ ToShow' = IF ToShow = 0 THEN 0 ELSE ToShow - 1
           /\ Clean <=> ToShow' = 0
           /\ Clean => filt'[0] = Bit(Code(pos), 0)
<1> USE ConstantsAssumption
<1>1. pos' = pos /\ stuck'
  BY DEF SampleAll, Turn
<1>2. \A i \in Lines : /\ queue[i] \in [bit : {0, 1}, run : 1..FilterLen]
                       /\ queue'[i] = Shift(queue[i], Bit(Code(pos), i))
  BY <1>1 DEF TypeOK, SampleAll, Level
<1>3. ASSUME NEW i \in Lines
      PROVE  /\ ToFill(i)' = IF ToFill(i) = 0 THEN 0 ELSE ToFill(i) - 1
             /\ queue'[i].bit = Bit(Code(pos), i)
             /\ Uniform(queue'[i]) <=> ToFill(i)' = 0
  <2>1. PICK b : b = Bit(Code(pos), i)
    OBVIOUS
  <2>2. queue'[i] = Shift(queue[i], b) /\ queue'[i].bit = b
    BY <1>2, <2>1, ShiftsBy
  <2>3. queue[i].run \in 1..FilterLen /\ FilterLen \in Nat
    BY <1>2
  <2>4. queue'[i].run = IF queue[i].bit = b THEN Least(queue[i].run + 1, FilterLen) ELSE 1
    BY <1>2, <2>2 DEF Shift
  <2>5. ToFill(i)' = FilterLen - queue'[i].run
    BY <1>1, <2>1, <2>2 DEF ToFill
  <2>6. ToFill(i) = IF queue[i].bit = b THEN FilterLen - queue[i].run ELSE FilterLen
    BY <2>1 DEF ToFill
  <2>7. ToFill(i)' = IF ToFill(i) = 0 THEN 0 ELSE ToFill(i) - 1
    BY <2>3, <2>4, <2>5, <2>6 DEF Least
  <2>8. queue'[i].run \in 1..FilterLen
    BY <2>3, <2>4 DEF Least
  <2> QED BY <2>1, <2>2, <2>3, <2>5, <2>7, <2>8 DEF Uniform
<1>4. Lines = {0, 1, 2}
  BY DEF Lines
<1>5. /\ ToFill(0) \in 0..FilterLen /\ ToFill(1) \in 0..FilterLen /\ ToFill(2) \in 0..FilterLen
      /\ FilterLen \in Nat
  BY <1>4, FillRange
<1>6. /\ ToFill(0)' = IF ToFill(0) = 0 THEN 0 ELSE ToFill(0) - 1
      /\ ToFill(1)' = IF ToFill(1) = 0 THEN 0 ELSE ToFill(1) - 1
      /\ ToFill(2)' = IF ToFill(2) = 0 THEN 0 ELSE ToFill(2) - 1
  BY <1>3, <1>4
<1> HIDE DEF ToFill
<1>7. /\ ToShow' = IF ToShow = 0 THEN 0 ELSE ToShow - 1
      /\ ToShow' = 0 <=> ToFill(0)' = 0 /\ ToFill(1)' = 0 /\ ToFill(2)' = 0
  BY <1>5, <1>6 DEF ToShow, Larger
<1>8. Clean <=> ToShow' = 0
  BY <1>3, <1>4, <1>7 DEF Clean
<1>9. Clean => filt'[0] = Bit(Code(pos), 0)
  <2>1. Clean => filt'[0] = queue'[0].bit
    BY <1>4 DEF Clean, SampleAll
  <2> QED BY <1>3, <1>4, <2>1
<1> QED BY <1>1, <1>7, <1>8, <1>9

LEMMA StallRange ==
    ASSUME StuckInv
    PROVE  /\ ToStall \in 1..(FilterLen + StallLimit + 1)
           /\ TicksToStall \in 1..MostTicks
           /\ ToShow = 0 => failed \in 0..StallLimit
<1> USE ConstantsAssumption
<1>1. failed \in Nat /\ StallLimit \in Nat \ {0} /\ FilterLen \in Nat \ {0} /\ runStep \in 0..3
  BY DEF StuckInv, TypeOK
<1>2. ToShow \in 0..FilterLen
  BY FillRange DEF StuckInv
<1>3. ASSUME ToShow = 0 PROVE failed <= StallLimit
  <2>1. \A i \in Lines : Uniform(queue[i])
    <3> TAKE i \in Lines
    <3>1. ToFill(i) = 0 /\ queue[i].run \in 1..FilterLen
      BY <1>3, FillRange DEF StuckInv, TypeOK
    <3> QED BY <1>1, <3>1 DEF ToFill, Uniform
  <2> QED BY <1>1, <2>1 DEF StuckInv, StallNotMissed
<1>4. ToStall \in 1..(FilterLen + StallLimit + 1)
  <2> HIDE DEF ToShow
  <2> QED BY <1>1, <1>2, <1>3 DEF ToStall
<1>5. TicksToStall \in 1..MostTicks
  <2> HIDE DEF ToStall
  <2> QED BY <1>1, <1>4 DEF TicksToStall, MostTicks
<1> QED BY <1>1, <1>3, <1>4, <1>5

(* A sample without a glitch brings the stall nearer by one at least.      *)
LEMMA SampleNears ==
    ASSUME StuckInv, stuck, badFor' = 0, Unstable \/ FallingEdge \/ RisingEdge \/ Steady
    PROVE  stuck' /\ ToStall' \in Int /\ ToStall' < ToStall
<1> USE ConstantsAssumption
<1>1. TypeOK /\ OnCircle /\ SampleAll
  BY DEF StuckInv, Unstable, FallingEdge, RisingEdge, Steady, Settle
<1>2. /\ pos' = pos /\ stuck'
      /\ ToShow' = IF ToShow = 0 THEN 0 ELSE ToShow - 1
      /\ Clean <=> ToShow' = 0
      /\ Clean => filt'[0] = Bit(Code(pos), 0)
  BY <1>1, SampleFills
<1>3. /\ ToShow \in 0..FilterLen /\ FilterLen \in Nat \ {0} /\ StallLimit \in Nat
      /\ failed \in 0..(CountMod - 1) /\ CountMod \in Nat /\ CountMod > StallLimit + 1
      /\ ToShow = 0 => failed \in 0..StallLimit
  BY <1>1, FillRange, StallRange DEF TypeOK
<1> HIDE DEF ToShow
<1>4. CASE Unstable
  <2>1. ~Clean
    BY <1>4 DEF Unstable
  <2> QED BY <1>2, <1>3, <2>1 DEF ToStall
<1>5. CASE FallingEdge \/ RisingEdge \/ Steady
  <2>1. Clean /\ oldval' = filt'[0]
    BY <1>5 DEF FallingEdge, RisingEdge, Steady, Settle
  <2>2. oldval' = Bit(Code(pos), 0) /\ ToShow' = 0
    BY <1>2, <2>1
  <2>3. ToStall' = StallLimit + 1 - failed'
    BY <1>2, <2>2 DEF ToStall
  <2>4. CASE FallingEdge \/ RisingEdge
    <3>1. failed' = 0 /\ oldval # oldval'
      BY <2>4 DEF FallingEdge, RisingEdge
    <3> QED BY <1>2, <1>3, <2>2, <2>3, <3>1 DEF ToStall
  <2>5. CASE Steady
    <3>1. failed' = NextFailed /\ oldval' = oldval /\ NextFailed \in Nat
      BY <1>3, <2>5 DEF Steady, NextFailed
    <3>2. ToShow = 0 => failed' = failed + 1
      BY <1>3, <3>1 DEF NextFailed
    <3> QED BY <1>2, <1>3, <2>2, <2>3, <3>1, <3>2 DEF ToStall
  <2> QED BY <1>5, <2>4, <2>5
<1> QED BY <1>4, <1>5

LEMMA StuckStep ==
    ASSUME StuckInv, [Next]_vars
    PROVE  StuckInv' /\ [NearsStall]_vars
<1> USE ConstantsAssumption
<1>1. TypeOK' /\ OnCircle' /\ StallNotMissed'
  BY TypeStep, PlaceStep, StallStep DEF StuckInv
<1>2. stuck' \in BOOLEAN
  <2>1. CASE Turn
    BY <2>1 DEF Turn, StuckInv
  <2>2. CASE UNCHANGED rotor
    BY <2>2 DEF rotor, StuckInv
  <2>3. CASE StopTick
    BY <2>2, <2>3 DEF StopTick
  <2> QED BY <2>1, <2>2, <2>3 DEF Next, vars, Unstable, FallingEdge, RisingEdge, Steady, Stall,
                                  Settle, SampleAll, Startup, ForcedStep, Command
<1>3. StuckInv'
  BY <1>1, <1>2 DEF StuckInv
<1>4. ASSUME Next, stuck, isStart = START PROVE NearsStall
  <2>1. TicksToStall \in 1..MostTicks /\ ToStall \in Int /\ runStep \in 0..3
    <3>1. TicksToStall \in 1..MostTicks /\ ToStall \in 1..(FilterLen + StallLimit + 1)
      BY StallRange
    <3> HIDE DEF ToStall, TicksToStall
    <3>2. runStep \in 0..3
      BY DEF StuckInv, TypeOK
    <3> QED BY <3>1, <3>2
  <2>2. ASSUME badFor' = 0, Unstable \/ FallingEdge \/ RisingEdge \/ Steady
        PROVE  stuck' /\ TicksToStall' < TicksToStall
    <3>1. stuck' /\ ToStall' \in Int /\ ToStall' < ToStall
      BY <1>4, <2>2, SampleNears
    <3>2. runStep \in {1, 3} /\ runStep' \in 1..3
      <4>1. runStep \in {1, 3}
        BY <2>2 DEF Unstable, FallingEdge, RisingEdge, Steady, Settle
      <4> QED BY <2>2, <4>1 DEF Unstable, FallingEdge, RisingEdge, Steady, CrossingBlock, HandOver,
                                NoHandOver
    <3> HIDE DEF ToStall
    <3> QED BY <2>1, <3>1, <3>2 DEF TicksToStall
  <2>3. CASE Stall \/ Command
    <3>1. isStart' = STOP
      BY <1>4, <2>3 DEF Stall, StopMotor, Command, STOP, START
    <3> QED BY <2>1, <3>1 DEF NearsStall
  <2>4. CASE Startup
    <3>1. runStep = 0 /\ runStep' = 1 /\ UNCHANGED <<queue, oldval, failed, rotor>>
      BY <2>4 DEF Startup
    <3>2. ToStall' = ToStall /\ stuck' = stuck
      BY <3>1 DEF ToStall, ToShow, ToFill, Larger, rotor
    <3> HIDE DEF ToStall
    <3> QED BY <1>4, <2>1, <3>1, <3>2 DEF NearsStall, TicksToStall
  <2>5. CASE ForcedStep
    <3>1. runStep = 2 /\ runStep' = 1 /\ UNCHANGED <<queue, oldval, failed>> /\ pos' = pos /\ stuck'
      BY <1>4, <2>5 DEF ForcedStep, sensor, Turn
    <3>2. ToStall' = ToStall
      BY <3>1 DEF ToStall, ToShow, ToFill, Larger
    <3> HIDE DEF ToStall
    <3> QED BY <2>1, <3>1, <3>2 DEF NearsStall, TicksToStall
  <2>6. ~StopTick
    BY <1>4 DEF StopTick, STOP, START
  <2> QED BY <1>4, <2>1, <2>2, <2>3, <2>4, <2>5, <2>6 DEF Next, NearsStall
<1> QED BY <1>3, <1>4 DEF NearsStall

(* A rotor that sticks while the motor is driven is given up: every tick   *)
(* that no glitch falsifies brings the stall nearer, from 2 (16 + 15000 +  *)
(* 1) + 2 ticks at most, whatever the windows, the last edge and the forced*)
(* steps; the safety half of StuckStops (hal_bldc.c:543-553,583-595).      *)
THEOREM StuckIsNearStall == Spec => [][NearsStall]_vars
<1>1. Init => StuckInv
  <2>1. Init => TypeOK /\ OnCircle
    BY ConstantsAssumption DEF Init, TypeOK, OnCircle
  <2>2. Init => stuck \in BOOLEAN
    BY DEF Init
  <2>3. Init => StallNotMissed
    BY ConstantsAssumption DEF Init, StallNotMissed
  <2> QED BY <2>1, <2>2, <2>3 DEF StuckInv
<1>2. StuckInv /\ [Next]_vars => StuckInv' /\ [NearsStall]_vars
  BY StuckStep
<1> QED BY <1>1, <1>2, PTL DEF Spec

=============================================================================
