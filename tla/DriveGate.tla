----------------------------- MODULE DriveGate -----------------------------
(***************************************************************************)
(* What the motor drive promises its user, whatever the commutation does:  *)
(*   - it drives the motor only inside a control tick that saw power on;   *)
(*   - a tick that sees power off takes the drive away, so that a STOP     *)
(*     reaches the motor one tick later at most;                           *)
(*   - it trips only while driving, and a trip switches power off and      *)
(*     raises the fault;                                                   *)
(*   - nothing but a command of the user and a trip changes power, except  *)
(*     that the drive switches it on again while the fault stands.         *)
(* by tells a command from what the drive does by itself: a START that is  *)
(* the drive's own is a step of Retry and of nothing else.                 *)
(* BldcMotor implements it.                                                *)
(***************************************************************************)
CONSTANTS STOP, START

VARIABLES
    power,   \* what the user and the fault logic last asked for
    by,      \* who decided it last: "user" or "drive"
    fault,   \* a stall waits for its restart
    live,    \* a phase carries a non-zero duty
    gate     \* "open" between ticks, "armed" or "cutting" inside one

gvars == <<power, by, fault, live, gate>>

Init ==
    /\ power = STOP /\ by = "drive" /\ fault = FALSE /\ live = FALSE
    /\ gate = "open"

(* A tick begins: what it saw decides what it may do.                      *)
See ==
    /\ gate = "open"
    /\ gate' = IF power = START THEN "armed" ELSE "cutting"
    /\ UNCHANGED <<power, by, fault, live>>

Drive == gate = "armed" /\ live' \in BOOLEAN /\ UNCHANGED <<power, by, fault, gate>>

(* A trip switches the motor off, but the tick it happens in may go on and  *)
(* drive once more.                                                        *)
Trip ==
    /\ gate = "armed" /\ gate' \in {"armed", "open"}
    /\ power' = STOP /\ by' = "drive" /\ fault' = TRUE /\ live' = FALSE

(* The last commutation of a tick and its end may be one step.             *)
Release ==
    /\ gate = "armed" /\ gate' = "open"
    /\ live' \in BOOLEAN
    /\ UNCHANGED <<power, by, fault>>

Cut ==
    /\ gate = "cutting" /\ gate' = "open"
    /\ live' = FALSE
    /\ UNCHANGED <<power, by, fault>>

Command(v) == power' = v /\ by' = "user" /\ UNCHANGED <<fault, live, gate>>

Retry ==
    /\ fault
    /\ power' = START /\ by' = "drive"
    /\ UNCHANGED <<fault, live, gate>>

Clear == fault' = FALSE /\ UNCHANGED <<power, by, live, gate>>

Tick == See \/ Drive \/ Trip \/ Release \/ Cut

Next == Tick \/ Retry \/ Clear \/ \E v \in {STOP, START} : Command(v)

Spec == Init /\ [][Next]_gvars

=============================================================================
