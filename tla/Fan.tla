--------------------------------- MODULE Fan ---------------------------------
(***************************************************************************)
(* What the phone shows of the fan and what the fan does (app_rmaker.c),   *)
(* from the first line of app_main (main.c) on.                            *)
(*                                                                         *)
(* Commands come on the MQTT task and on the local-control server as soon  *)
(* as app_rmaker_init has started RainMaker, that is before app_main has   *)
(* initialised the variables they store to.  The motor is reduced to what  *)
(* it does to isStart by itself: a stall and the restart after it.         *)
(***************************************************************************)
EXTENDS Naturals

CONSTANTS
    FanCallers,    \* contexts that run app_rmaker_write_cb
    FanSpeeds,     \* speeds the slider sends
    FanFirst       \* the speed it starts with

ASSUME FanAssumption == FanFirst \in FanSpeeds /\ FanSpeeds \subseteq Nat \ {0}

VARIABLES
    fanMain,      \* what app_main does next: "rmaker", "button", "tasks", "done"
    fanDoes,      \* isStart, rmakerParameter.speed and .mode, by parameter
    fanShows,     \* the values of the three RainMaker parameters
    fanPc,        \* per caller: "idle", "twice", "report"
    fanAsked,     \* per caller: the parameter and the value it reports
    fanLock,      \* motorParameter.lock
    fanExcused    \* history: parameters with a known reason to be shown wrong

fanVars == <<fanMain, fanDoes, fanShows, fanPc, fanAsked, fanLock, fanExcused>>

FanParams == {"Power", "Speed", "Natural"}
FanZero == [p \in FanParams |-> IF p = "Speed" THEN 0 ELSE FALSE]
FanDefault == [p \in FanParams |-> IF p = "Speed" THEN FanFirst ELSE FALSE]
FanRequests ==
    [param : {"Power", "Natural"}, value : BOOLEAN] \cup [param : {"Speed"}, value : FanSpeeds]

FanNoRequest == [param |-> "Power", value |-> FALSE]

FanInit ==
    /\ fanMain = "rmaker"
    /\ fanDoes = FanZero /\ fanShows = FanDefault
    /\ fanPc = [c \in FanCallers |-> "idle"]
    /\ fanAsked = [c \in FanCallers |-> FanNoRequest]
    /\ fanLock = FALSE /\ fanExcused = {}

FanReporting(p) == {c \in FanCallers : fanPc[c] # "idle" /\ fanAsked[c].param = p}
FanExcuse(p, cond) == fanExcused' = IF cond THEN fanExcused \cup {p} ELSE fanExcused \ {p}

-----------------------------------------------------------------------------
\* app_main: RainMaker first, then the variables, the button and the timer, the tasks.
FanGoes(from, to) == fanMain = from /\ fanMain' = to

FanVariables ==
    /\ FanGoes("rmaker", "button")
    /\ fanDoes' = FanDefault
    /\ fanLock' = FALSE
    /\ fanExcused' = {p \in FanParams : fanShows[p] # FanDefault[p] \/ FanReporting(p) # {}}
    /\ UNCHANGED <<fanShows, fanPc, fanAsked>>

FanStarts ==
    /\ FanGoes("button", "tasks") \/ FanGoes("tasks", "done")
    /\ UNCHANGED <<fanDoes, fanShows, fanPc, fanAsked, fanLock, fanExcused>>

-----------------------------------------------------------------------------
\* A command: app_rmaker_write_cb, whose store comes before its reports: one, but
\* two for the power.
FanRefuses(r) == r.param = "Natural" /\ ~fanDoes["Power"]

\* The value asked for is shown although it was refused.
FanAnswer_AsAsked(r) == r

\* What is reported: a mode for a fan that stands still is answered with "off".
FanAnswer(r) == IF FanRefuses(r) THEN [r EXCEPT !.value = FALSE] ELSE r

FanWrite(c) ==
    /\ fanPc[c] = "idle"
    /\ \E r \in FanRequests :
          /\ fanPc' = [fanPc EXCEPT ![c] = IF r.param = "Power" THEN "twice" ELSE "report"]
          /\ fanAsked' = [fanAsked EXCEPT ![c] = FanAnswer(r)]
          /\ fanDoes' = IF FanRefuses(r) THEN fanDoes ELSE [fanDoes EXCEPT ![r.param] = r.value]
          /\ FanExcuse(r.param, FanReporting(r.param) # {} \/ (FanRefuses(r) /\ fanDoes["Natural"]))
    /\ UNCHANGED <<fanMain, fanShows, fanLock>>

FanReport(c) ==
    /\ \/ /\ fanPc[c] = "twice" /\ fanPc' = [fanPc EXCEPT ![c] = "report"]
          /\ UNCHANGED fanAsked
       \/ /\ fanPc[c] = "report" /\ fanPc' = [fanPc EXCEPT ![c] = "idle"]
          /\ fanAsked' = [fanAsked EXCEPT ![c] = FanNoRequest]
    /\ fanShows' = [fanShows EXCEPT ![fanAsked[c].param] = fanAsked[c].value]
    /\ UNCHANGED <<fanMain, fanDoes, fanLock, fanExcused>>

-----------------------------------------------------------------------------
\* What changes isStart without a report: the button, a stall, the restart.
FanUnseen(v) == fanDoes' = [fanDoes EXCEPT !["Power"] = v] /\ FanExcuse("Power", TRUE)

FanButton ==
    /\ fanMain \in {"tasks", "done"}
    /\ FanUnseen(~fanDoes["Power"])
    /\ UNCHANGED <<fanMain, fanShows, fanPc, fanAsked, fanLock>>

FanStall ==
    /\ fanMain \in {"tasks", "done"} /\ fanDoes["Power"]
    /\ FanUnseen(FALSE)
    /\ fanLock' = TRUE
    /\ UNCHANGED <<fanMain, fanShows, fanPc, fanAsked>>

FanRestart ==
    /\ fanMain = "done" /\ fanLock
    /\ FanUnseen(TRUE)
    /\ fanLock' = FALSE
    /\ UNCHANGED <<fanMain, fanShows, fanPc, fanAsked>>

FanBoot == FanVariables \/ FanStarts
FanCommand(c) == FanWrite(c) \/ FanReport(c)
FanAlone == FanButton \/ FanStall \/ FanRestart

FanNext == FanBoot \/ FanAlone \/ \E c \in FanCallers : FanCommand(c)

FanSpec == FanInit /\ [][FanNext]_fanVars

-----------------------------------------------------------------------------
FanTypeOK ==
    /\ fanMain \in {"rmaker", "button", "tasks", "done"}
    /\ \A s \in {fanDoes, fanShows} :
          /\ s = [p \in FanParams |-> s[p]]
          /\ s["Power"] \in BOOLEAN /\ s["Natural"] \in BOOLEAN
          /\ s["Speed"] \in FanSpeeds \cup {0}
    /\ fanPc \in [FanCallers -> {"idle", "twice", "report"}]
    /\ fanAsked \in [FanCallers -> FanRequests]
    /\ fanLock \in BOOLEAN
    /\ fanExcused \subseteq FanParams

\* The phone shows what the fan does, but for a command that app_variable_init
\* has overwritten, two commands for one parameter that overlap, the power after
\* a click, a stall or a restart, and "Natural" off for a standing fan that goes
\* on in natural mode; the next command for the parameter sets it right
\* (app_rmaker.c:37-55, main.c:129-130).
FanShownIsTrue ==
    fanMain # "rmaker" =>
        \A p \in FanParams \ fanExcused : FanReporting(p) = {} => fanShows[p] = fanDoes[p]
=============================================================================
