------------------------------ MODULE WorkQueue ------------------------------
(***************************************************************************)
(* The RainMaker work queue (work_queue.c): a queue of functions, the task *)
(* that calls them, and an unlocked state word that init, start, stop and  *)
(* deinit test and then act on.  Several contexts call the API; each test  *)
(* and each act is a step.                                                 *)
(***************************************************************************)
EXTENDS Naturals, Sequences, FiniteSets

CONSTANTS
    WqContexts,   \* contexts that call the API
    WqTasks,      \* bound: task control blocks; with none free creation fails
    WqSize,       \* ESP_RMAKER_TASK_QUEUE_SIZE
    WqMaxMade     \* bound: functions added

ASSUME WqAssumption == IsFiniteSet(WqContexts) /\ WqSize \in Nat \ {0} /\ WqMaxMade \in Nat

VARIABLES
    wqState,    \* queue_state
    wqExists,   \* work_queue points to a queue
    wqQueue,    \* its functions, by number
    wqPc,       \* where the call of each context stands
    wqTask,     \* where each task stands, "none" when it does not exist
    wqMade,     \* functions added so far
    wqRan,      \* functions that have been called
    wqRaced     \* history: a call acted while another had tested and not yet acted

wqVars == <<wqState, wqExists, wqQueue, wqPc, wqTask, wqMade, wqRan, wqRaced>>

WqInit ==
    /\ wqState = "deinit" /\ wqExists = FALSE /\ wqQueue = <<>>
    /\ wqPc = [c \in WqContexts |-> "idle"] /\ wqTask = [t \in WqTasks |-> "none"]
    /\ wqMade = 0 /\ wqRan = {} /\ wqRaced = FALSE

WqGo(c, from, to) == wqPc[c] = from /\ wqPc' = [wqPc EXCEPT ![c] = to]
WqStep(t, from, to) == wqTask[t] = from /\ wqTask' = [wqTask EXCEPT ![t] = to]

\* An act, with the other calls between their test and theirs.
WqActs(c) ==
    wqRaced' = (wqRaced \/ \E d \in WqContexts \ {c} : wqPc[d] \notin {"idle", "wait"})

WqMayAdd == wqMade + Cardinality({c \in WqContexts : wqPc[c] = "send"}) < WqMaxMade

\* The tests of esp_rmaker_work_queue_init, _start, _stop and _add_task; a call
\* that fails its test returns.
WqCallInit(c) == wqState = "deinit" /\ WqGo(c, "idle", "make")
WqCallStart(c) == wqState = "init" /\ WqGo(c, "idle", "create")
WqCallStop(c) == wqState = "running" /\ WqGo(c, "idle", "stop")
WqCallAdd(c) == wqExists /\ WqMayAdd /\ WqGo(c, "idle", "send")

WqCall(c) ==
    /\ WqCallInit(c) \/ WqCallStart(c) \/ WqCallStop(c) \/ WqCallAdd(c)
    /\ UNCHANGED <<wqState, wqExists, wqQueue, wqTask, wqMade, wqRan, wqRaced>>

\* esp_rmaker_work_queue_init from the creation of the queue, which may fail.
WqMake(c) ==
    /\ WqGo(c, "make", "idle")
    /\ WqActs(c)
    /\ \/ wqState' = "init" /\ wqExists' = TRUE /\ wqQueue' = <<>>
       \/ UNCHANGED <<wqState, wqExists, wqQueue>>
    /\ UNCHANGED <<wqTask, wqMade, wqRan>>

\* esp_rmaker_work_queue_start: the task runs before the state says so.
WqCreate(c) ==
    /\ WqActs(c)
    /\ \/ /\ WqGo(c, "create", "created")
          /\ \E t \in WqTasks : WqStep(t, "none", "test")
       \/ WqGo(c, "create", "idle") /\ UNCHANGED wqTask
    /\ UNCHANGED <<wqState, wqExists, wqQueue, wqMade, wqRan>>

WqRunning(c) ==
    /\ WqGo(c, "created", "idle")
    /\ WqActs(c)
    /\ wqState' = "running"
    /\ UNCHANGED <<wqExists, wqQueue, wqTask, wqMade, wqRan>>

WqStop(c) ==
    /\ WqGo(c, "stop", "idle")
    /\ WqActs(c)
    /\ wqState' = "stop"
    /\ UNCHANGED <<wqExists, wqQueue, wqTask, wqMade, wqRan>>

\* esp_rmaker_work_queue_deinit: it stops the task, waits while the state is
\* STOP_REQUESTED, and goes on only from INIT_DONE.
WqDeinit(c) ==
    /\ WqGo(c, "idle", IF wqState = "running" THEN "deinit" ELSE "wait")
    /\ UNCHANGED <<wqState, wqExists, wqQueue, wqTask, wqMade, wqRan, wqRaced>>

WqDeinitStop(c) ==
    /\ WqGo(c, "deinit", "wait")
    /\ WqActs(c)
    /\ wqState' = "stop"
    /\ UNCHANGED <<wqExists, wqQueue, wqTask, wqMade, wqRan>>

\* The wait forgotten.
WqDone_NoWait(state) == TRUE

WqDone(state) == state # "stop"

WqStopped(c) ==
    /\ WqDone(wqState)
    /\ WqGo(c, "wait", IF wqState \in {"deinit", "running"} THEN "idle" ELSE "delete")
    /\ UNCHANGED <<wqState, wqExists, wqQueue, wqTask, wqMade, wqRan, wqRaced>>

WqDelete(c) ==
    /\ WqGo(c, "delete", "idle")
    /\ WqActs(c)
    /\ wqState' = "deinit" /\ wqExists' = FALSE /\ wqQueue' = <<>>
    /\ UNCHANGED <<wqTask, wqMade, wqRan>>

WqAppended(q) ==
    IF Len(q) < WqSize THEN q \o <<wqMade + 1>> ELSE q

\* xQueueSend without waiting.
WqSend(c) ==
    /\ WqGo(c, "send", "idle")
    /\ wqQueue' = IF wqExists THEN WqAppended(wqQueue) ELSE wqQueue
    /\ wqMade' = wqMade + 1
    /\ UNCHANGED <<wqState, wqExists, wqTask, wqRan, wqRaced>>

WqApi(c) == WqCall(c) \/ WqMake(c) \/ WqCreate(c) \/ WqRunning(c) \/ WqStop(c) \/ WqDeinit(c)
            \/ WqDeinitStop(c) \/ WqStopped(c) \/ WqDelete(c) \/ WqSend(c)

-----------------------------------------------------------------------------
\* esp_rmaker_work_queue_task: the test, then esp_rmaker_handle_work_queue.
WqTest(t) ==
    /\ WqStep(t, "test", IF wqState = "stop" THEN "leave" ELSE "receive")
    /\ UNCHANGED <<wqState, wqExists, wqQueue, wqPc, wqMade, wqRan, wqRaced>>

\* A function, or after 2 s, or with nothing left, none.
WqReceive(t) ==
    /\ IF wqQueue # <<>>
       THEN /\ WqStep(t, "receive", "call")
            /\ wqQueue' = Tail(wqQueue) /\ wqRan' = wqRan \cup {Head(wqQueue)}
       ELSE /\ WqStep(t, "receive", "test")
            /\ UNCHANGED <<wqQueue, wqRan>>
    /\ UNCHANGED <<wqState, wqExists, wqPc, wqMade, wqRaced>>

\* The function returns, and may have added another one.
WqReturn(t) ==
    /\ WqStep(t, "call", "receive")
    /\ \/ UNCHANGED <<wqQueue, wqMade>>
       \/ /\ wqExists /\ WqMayAdd
          /\ wqQueue' = WqAppended(wqQueue) /\ wqMade' = wqMade + 1
    /\ UNCHANGED <<wqState, wqExists, wqPc, wqRan, wqRaced>>

WqLeave(t) ==
    /\ WqStep(t, "leave", "none")
    /\ wqState' = "init"
    /\ UNCHANGED <<wqExists, wqQueue, wqPc, wqMade, wqRan, wqRaced>>

\* The functions queued are never called.
WqServe_Leaves(t) == WqTest(t) \/ WqReturn(t) \/ WqLeave(t)

WqServe(t) == WqTest(t) \/ WqReceive(t) \/ WqReturn(t) \/ WqLeave(t)

WqNext == (\E c \in WqContexts : WqApi(c)) \/ (\E t \in WqTasks : WqServe(t))

\* The scheduler runs the task, and the functions it calls return.
WqFair == \A t \in WqTasks : WF_wqVars(WqServe(t))

WqSpec == WqInit /\ [][WqNext]_wqVars /\ WqFair

-----------------------------------------------------------------------------
WqTypeOK ==
    /\ wqState \in {"deinit", "init", "running", "stop"} /\ wqExists \in BOOLEAN
    /\ wqQueue \in Seq(1..WqMaxMade) /\ Len(wqQueue) <= WqSize
    /\ wqPc \in [WqContexts -> {"idle", "make", "create", "created", "stop", "deinit",
                                "wait", "delete", "send"}]
    /\ wqTask \in [WqTasks -> {"none", "test", "receive", "call", "leave"}]
    /\ wqMade \in 0..WqMaxMade /\ wqRan \subseteq 1..WqMaxMade

\* The task never outlives its queue, provided no call acts on the state word
\* while another stands between its test and its act (work_queue.c:98-148).
WqQueueOutlivesTask ==
    ~wqRaced /\ (\E t \in WqTasks : wqTask[t] \in {"test", "receive", "call"}) => wqExists

\* A stop that was accepted ends the task, and a function that was accepted is
\* called while the task is to run (work_queue.c:44-64), again without such a race.
WqTaskServes ==
    /\ (wqState = "stop") ~> (wqState # "stop" \/ wqRaced)
    /\ \A f \in 1..WqMaxMade :
          (wqState = "running" /\ \E i \in DOMAIN wqQueue : wqQueue[i] = f)
              ~> (f \in wqRan \/ wqState # "running" \/ wqRaced)
=============================================================================
