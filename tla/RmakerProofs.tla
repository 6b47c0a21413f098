---------------------------- MODULE RmakerProofs ----------------------------
(***************************************************************************)
(* Proofs about WorkQueue, ParamReport, Agent, LocalCtrl, MqttGlue and     *)
(* Claim, for any tasks, contexts, values, users and messages.  Each       *)
(* component has its own invariant:                                        *)
(*   - WorkQueue: as long as no call acts between another's test and its   *)
(*     act, what a call has found in its test still holds when it acts;    *)
(*   - ParamReport: a value the cloud does not show is on its way, in an   *)
(*     update still to be flagged or in the buffer of a report; and the    *)
(*     publishes paid for keep the pace of the budget granted;             *)
(*   - Agent: messages reach the cloud in order, so that the PUBACK of the *)
(*     last one leaves nothing under way that could change the mapping;    *)
(*   - LocalCtrl: which events are on the loop while the manager has not   *)
(*     ended, and the flag that goes with them;                            *)
(*   - MqttGlue: after the first part of a message the buffer holds that   *)
(*     message's parts, or there is no buffer;                             *)
(*     and the broker will know a topic reported as subscribed once it has *)
(*     taken the wire, or the client comes to the topic's slot yet;        *)
(*   - Claim: whoever asks has no certificate and uses the key that is     *)
(*     kept, and a message names it and the node.                          *)
(* WorkQueue, Agent, LocalCtrl and Claim also have the safety half of a    *)
(* liveness property: whoever waits is not forgotten, for what it waits for*)
(* has come, or somebody still has it to bring.                            *)
(***************************************************************************)
EXTENDS WorkQueue, ParamReport, Agent, LocalCtrl, MqttGlue, Claim, FiniteSetTheorems,
        SequenceTheorems, TLAPS

-----------------------------------------------------------------------------
(* WorkQueue: the task does not outlive its queue.                         *)
(* The shapes of the variables.                                            *)
Shapes ==
    /\ wqState \in {"deinit", "init", "running", "stop"}
    /\ wqPc = [c \in WqContexts |-> wqPc[c]]
    /\ wqTask = [t \in WqTasks |-> wqTask[t]]

(* What a call found in its test still holds when it acts.                 *)
Found ==
    \A c \in WqContexts :
        /\ wqPc[c] = "make" => wqState = "deinit"
        /\ wqPc[c] \in {"create", "created", "delete"} => wqState = "init"
        /\ wqPc[c] \in {"stop", "deinit"} => wqState = "running"

Placed == wqState # "deinit" => wqExists

(* A task exists only while the state says so, or is about to; one at      *)
(* most.                                                                   *)
Manned ==
    \A t \in WqTasks : wqTask[t] # "none" =>
        /\ wqState \in {"running", "stop"} \/ \E c \in WqContexts : wqPc[c] = "created"
        /\ wqTask[t] = "leave" => wqState = "stop"
        /\ \A u \in WqTasks : wqTask[u] # "none" => u = t

QueueInv == Shapes /\ (~wqRaced => Found /\ Placed /\ Manned)

(* The invariant holds before the first call.                              *)
LEMMA QueueInit == WqInit => QueueInv
BY DEF WqInit, QueueInv, Shapes, Found, Placed, Manned

(* An act that is no race: every other call is idle or waits.              *)
LEMMA Alone ==
    ASSUME NEW c \in WqContexts, WqActs(c), ~wqRaced'
    PROVE  ~wqRaced /\ \A d \in WqContexts \ {c} : wqPc[d] \in {"idle", "wait"}
BY DEF WqActs

(* The tests: a call that passes one finds what Found says of it.          *)
LEMMA TestStep ==
    ASSUME QueueInv, NEW c \in WqContexts,
           WqCall(c) \/ WqDeinit(c) \/ WqStopped(c) \/ WqSend(c)
    PROVE  QueueInv'
<1>1. /\ wqState' = wqState /\ wqTask' = wqTask /\ wqExists' = wqExists
      /\ wqRaced' = wqRaced
  BY DEF WqCall, WqDeinit, WqStopped, WqSend
<1>2. PICK to \in {"make", "create", "stop", "deinit", "wait", "delete", "send", "idle"} :
         /\ wqPc' = [wqPc EXCEPT ![c] = to]
         /\ to = "make" => wqState = "deinit"
         /\ to \in {"create", "delete"} => wqState = "init"
         /\ to \in {"stop", "deinit"} => wqState = "running"
         /\ wqPc[c] # "created"
  <2>1. CASE WqCall(c)
    BY <2>1 DEF WqCall, WqCallInit, WqCallStart, WqCallStop, WqCallAdd, WqGo
  <2>2. CASE WqDeinit(c)
    <3>1. CASE wqState = "running"
      BY <2>2, <3>1 DEF WqDeinit, WqGo
    <3>2. CASE wqState # "running"
      BY <2>2, <3>2 DEF WqDeinit, WqGo
    <3> QED BY <3>1, <3>2
  <2>3. CASE WqStopped(c)
    <3>1. CASE wqState \in {"deinit", "running"}
      BY <2>3, <3>1 DEF WqStopped, WqGo
    <3>2. CASE wqState \notin {"deinit", "running"}
      BY <2>3, <3>2 DEF WqStopped, WqGo, WqDone, QueueInv, Shapes
    <3> QED BY <3>1, <3>2
  <2>4. CASE WqSend(c)
    BY <2>4 DEF WqSend, WqGo
  <2> QED BY <2>1, <2>2, <2>3, <2>4
<1>3. wqPc'[c] = to /\ \A d \in WqContexts \ {c} : wqPc'[d] = wqPc[d]
  BY <1>2 DEF QueueInv, Shapes
<1>4. Shapes'
  BY <1>1, <1>2 DEF QueueInv, Shapes
<1>5. ASSUME ~wqRaced
      PROVE  Found' /\ Placed' /\ Manned'
  <2>1. Found'
    <3> SUFFICES ASSUME NEW d \in WqContexts
                 PROVE  /\ wqPc'[d] = "make" => wqState = "deinit"
                        /\ wqPc'[d] \in {"create", "created", "delete"} => wqState = "init"
                        /\ wqPc'[d] \in {"stop", "deinit"} => wqState = "running"
      BY <1>1 DEF Found
    <3>1. CASE d = c
      BY <3>1, <1>2, <1>3
    <3>2. CASE d # c
      BY <3>2, <1>3, <1>5 DEF QueueInv, Found
    <3> QED BY <3>1, <3>2
  <2>2. Placed'
    BY <1>1, <1>5 DEF QueueInv, Placed
  <2>3. \A d \in WqContexts : wqPc[d] = "created" => wqPc'[d] = "created"
    BY <1>2, <1>3
  <2>4. Manned'
    BY <2>3, <1>1, <1>5 DEF QueueInv, Manned
  <2> QED BY <2>1, <2>2, <2>4
<1> QED BY <1>1, <1>4, <1>5 DEF QueueInv

(* The acts, each from what its test has found.                            *)
LEMMA ActStep ==
    ASSUME QueueInv, NEW c \in WqContexts,
           WqMake(c) \/ WqCreate(c) \/ WqRunning(c) \/ WqStop(c) \/ WqDeinitStop(c) \/ WqDelete(c)
    PROVE  QueueInv'
<1>1. WqActs(c)
  BY DEF WqMake, WqCreate, WqRunning, WqStop, WqDeinitStop, WqDelete
<1>2. Shapes'
  <2> USE DEF QueueInv, Shapes, WqGo, WqStep
  <2>1. CASE WqMake(c) \/ WqRunning(c) \/ WqStop(c) \/ WqDeinitStop(c) \/ WqDelete(c)
    BY <2>1 DEF WqMake, WqRunning, WqStop, WqDeinitStop, WqDelete
  <2>2. CASE WqCreate(c)
    BY <2>2 DEF WqCreate
  <2> QED BY <2>1, <2>2
<1>3. ASSUME ~wqRaced'
      PROVE  Found' /\ Placed' /\ Manned'
  <2>1. /\ Found /\ Placed /\ Manned /\ Shapes
        /\ \A d \in WqContexts \ {c} : wqPc[d] \in {"idle", "wait"}
    BY <1>1, <1>3, Alone DEF QueueInv
  <2>2. /\ \A d \in WqContexts \ {c} : wqPc'[d] = wqPc[d]
        /\ wqPc'[c] \in {"idle", "wait", "created"}
    BY <2>1 DEF WqMake, WqCreate, WqRunning, WqStop, WqDeinitStop, WqDelete, WqGo, Shapes
  <2>3. CASE WqMake(c) \/ WqDelete(c)
    <3>1. wqPc[c] \in {"make", "delete"} /\ wqPc'[c] = "idle" /\ wqTask' = wqTask
      BY <2>1, <2>3 DEF WqMake, WqDelete, WqGo, Shapes
    <3>2. \A t \in WqTasks : wqTask[t] = "none"
      BY <3>1, <2>1 DEF Found, Manned
    <3>3. Placed'
      BY <2>1, <2>3 DEF WqMake, WqDelete, Placed
    <3> QED BY <3>1, <3>2, <3>3, <2>1, <2>2 DEF Found, Manned
  <2>4. CASE WqCreate(c)
    <3>1. wqPc[c] = "create" /\ wqState = "init" /\ wqState' = "init" /\ wqExists' = wqExists
      BY <2>1, <2>4 DEF WqCreate, WqGo, Found
    <3>2. \A t \in WqTasks : wqTask[t] = "none"
      BY <3>1, <2>1 DEF Manned
    <3>3. Found' /\ Placed'
      BY <3>1, <2>1, <2>2 DEF Found, Placed
    <3>4. Manned'
      <4>1. CASE UNCHANGED wqTask
        BY <4>1, <3>2 DEF Manned
      <4>2. CASE WqGo(c, "create", "created") /\ \E t \in WqTasks : WqStep(t, "none", "test")
        <5>1. PICK t \in WqTasks : wqTask' = [wqTask EXCEPT ![t] = "test"]
          BY <4>2 DEF WqStep
        <5>2. wqTask'[t] = "test" /\ \A u \in WqTasks \ {t} : wqTask'[u] = "none"
          BY <5>1, <3>2, <2>1 DEF Shapes
        <5>3. wqPc'[c] = "created"
          BY <4>2, <2>1 DEF WqGo, Shapes
        <5> QED BY <5>2, <5>3 DEF Manned
      <4> QED BY <4>1, <4>2, <2>4 DEF WqCreate
    <3> QED BY <3>3, <3>4
  <2>5. CASE WqRunning(c) \/ WqStop(c) \/ WqDeinitStop(c)
    <3>1. /\ wqTask' = wqTask /\ wqExists' = wqExists /\ wqPc'[c] \in {"idle", "wait"}
          /\ wqState' \in {"running", "stop"} /\ wqState # "deinit"
          /\ wqState # "stop"
      BY <2>1, <2>5 DEF WqRunning, WqStop, WqDeinitStop, WqGo, Found, Shapes
    <3>2. Found'
      BY <3>1, <2>1, <2>2 DEF Found
    <3>3. Placed'
      BY <3>1, <2>1 DEF Placed
    <3>4. Manned'
      BY <3>1, <2>1 DEF Manned
    <3> QED BY <3>2, <3>3, <3>4
  <2> QED BY <2>3, <2>4, <2>5
<1> QED BY <1>2, <1>3 DEF QueueInv

(* The task: only its end changes the state, and nobody has tested that.   *)
LEMMA ServeStep ==
    ASSUME QueueInv, NEW t \in WqTasks, WqServe(t)
    PROVE  QueueInv'
<1>1. wqPc' = wqPc /\ wqExists' = wqExists /\ wqRaced' = wqRaced
  BY DEF WqServe, WqTest, WqReceive, WqReturn, WqLeave
<1>2. CASE WqTest(t) \/ WqReceive(t) \/ WqReturn(t)
  <2>1. PICK to \in {"leave", "receive", "call", "test"} :
           /\ wqTask[t] # "none" /\ wqTask' = [wqTask EXCEPT ![t] = to]
           /\ to = "leave" => wqState = "stop"
    <3>1. CASE WqTest(t)
      <4>1. CASE wqState = "stop"
        BY <3>1, <4>1 DEF WqTest, WqStep
      <4>2. CASE wqState # "stop"
        BY <3>1, <4>2 DEF WqTest, WqStep
      <4> QED BY <4>1, <4>2
    <3>2. CASE WqReceive(t)
      BY <3>2 DEF WqReceive, WqStep
    <3>3. CASE WqReturn(t)
      BY <3>3 DEF WqReturn, WqStep
    <3> QED BY <3>1, <3>2, <3>3, <1>2
  <2>2. wqState' = wqState
    BY <1>2 DEF WqTest, WqReceive, WqReturn
  <2>3. wqTask'[t] = to /\ \A u \in WqTasks \ {t} : wqTask'[u] = wqTask[u]
    BY <2>1 DEF QueueInv, Shapes
  <2>4. Shapes'
    BY <1>1, <2>1, <2>2 DEF QueueInv, Shapes
  <2>5. ~wqRaced => Found' /\ Placed'
    BY <1>1, <2>2 DEF QueueInv, Found, Placed
  <2>6. ~wqRaced => Manned'
    BY <1>1, <2>1, <2>2, <2>3 DEF QueueInv, Manned
  <2> QED BY <1>1, <2>4, <2>5, <2>6 DEF QueueInv
<1>3. CASE WqLeave(t)
  <2>1. /\ wqTask[t] = "leave" /\ wqTask' = [wqTask EXCEPT ![t] = "none"]
        /\ wqState' = "init"
    BY <1>3 DEF WqLeave, WqStep
  <2>2. Shapes'
    BY <1>1, <2>1 DEF QueueInv, Shapes
  <2>3. ASSUME ~wqRaced
        PROVE  Found' /\ Placed' /\ Manned'
    <3>1. wqState = "stop" /\ \A u \in WqTasks : wqTask'[u] = "none"
      BY <2>1, <2>3 DEF QueueInv, Manned, Shapes
    <3> QED BY <3>1, <1>1, <2>1, <2>3 DEF QueueInv, Found, Placed, Manned
  <2> QED BY <1>1, <2>2, <2>3 DEF QueueInv
<1> QED BY <1>2, <1>3 DEF WqServe

(* Every step of the work queue preserves the invariant.                   *)
LEMMA QueueStep ==
    ASSUME QueueInv, [WqNext]_wqVars
    PROVE  QueueInv'
<1>1. CASE UNCHANGED wqVars
  BY <1>1 DEF wqVars, QueueInv, Shapes, Found, Placed, Manned
<1>2. CASE \E c \in WqContexts : WqApi(c)
  BY <1>2, TestStep, ActStep DEF WqApi
<1>3. CASE \E t \in WqTasks : WqServe(t)
  BY <1>3, ServeStep
<1> QED BY <1>1, <1>2, <1>3 DEF WqNext

(* The same without fairness, which safety does not need.                  *)
LEMMA QueueSafe == WqInit /\ [][WqNext]_wqVars => []WqQueueOutlivesTask
<1>1. QueueInv => WqQueueOutlivesTask
  <2> SUFFICES ASSUME QueueInv, ~wqRaced, NEW t \in WqTasks, wqTask[t] # "none"
               PROVE  wqExists
    BY DEF WqQueueOutlivesTask
  <2> QED BY DEF QueueInv, Found, Placed, Manned
<1> QED BY QueueInit, QueueStep, <1>1, PTL

(* The task never outlives its queue as long as no call acts between the    *)
(* test and the act of another (work_queue.c:98-148).                      *)
THEOREM QueueOutlivesTask == WqSpec => []WqQueueOutlivesTask
BY QueueSafe, PTL DEF WqSpec

-----------------------------------------------------------------------------
(* WorkQueue: a stop is seen.  The safety half of WqTaskServes: whenever   *)
(* the state says that the task runs or is to end, or a start has just     *)
(* created it, there is a task to test the state and take the functions.   *)
WqManned == wqState \in {"running", "stop"} \/ \E c \in WqContexts : wqPc[c] = "created"
WqHasTask == WqManned => \E t \in WqTasks : wqTask[t] # "none"

(* The tests leave the state, the tasks and the starts under way alone.    *)
LEMMA TestKeepsTask ==
    ASSUME QueueInv, WqHasTask, NEW c \in WqContexts,
           WqCall(c) \/ WqDeinit(c) \/ WqStopped(c) \/ WqSend(c)
    PROVE  WqHasTask'
<1>1. wqState' = wqState /\ wqTask' = wqTask
  BY DEF WqCall, WqDeinit, WqStopped, WqSend
<1>2. PICK to \in {"make", "create", "stop", "deinit", "wait", "delete", "send", "idle"} :
         wqPc' = [wqPc EXCEPT ![c] = to] /\ to # "created"
  <2>1. CASE WqCall(c)
    BY <2>1 DEF WqCall, WqCallInit, WqCallStart, WqCallStop, WqCallAdd, WqGo
  <2>2. CASE WqDeinit(c)
    <3>1. CASE wqState = "running"
      BY <2>2, <3>1 DEF WqDeinit, WqGo
    <3>2. CASE wqState # "running"
      BY <2>2, <3>2 DEF WqDeinit, WqGo
    <3> QED BY <3>1, <3>2
  <2>3. CASE WqStopped(c)
    <3>1. CASE wqState \in {"deinit", "running"}
      BY <2>3, <3>1 DEF WqStopped, WqGo
    <3>2. CASE wqState \notin {"deinit", "running"}
      BY <2>3, <3>2 DEF WqStopped, WqGo
    <3> QED BY <3>1, <3>2
  <2>4. CASE WqSend(c)
    BY <2>4 DEF WqSend, WqGo
  <2> QED BY <2>1, <2>2, <2>3, <2>4
<1>3. \A d \in WqContexts : wqPc'[d] = "created" => wqPc[d] = "created"
  BY <1>2 DEF QueueInv, Shapes
<1> QED BY <1>1, <1>3 DEF WqHasTask, WqManned

(* An act that is no race finds the task there, or creates it.             *)
LEMMA ActKeepsTask ==
    ASSUME QueueInv, WqHasTask, NEW c \in WqContexts, ~wqRaced',
           WqMake(c) \/ WqCreate(c) \/ WqRunning(c) \/ WqStop(c) \/ WqDeinitStop(c) \/ WqDelete(c)
    PROVE  WqHasTask'
<1>1. WqActs(c)
  BY DEF WqMake, WqCreate, WqRunning, WqStop, WqDeinitStop, WqDelete
<1>2. /\ Found /\ Shapes
      /\ \A d \in WqContexts \ {c} : wqPc[d] \in {"idle", "wait"}
  BY <1>1, Alone DEF QueueInv
<1>3. /\ \A d \in WqContexts \ {c} : wqPc'[d] \in {"idle", "wait"}
      /\ wqPc'[c] \in {"idle", "wait", "created"}
  BY <1>2 DEF WqMake, WqCreate, WqRunning, WqStop, WqDeinitStop, WqDelete, WqGo, Shapes
<1>4. CASE WqMake(c) \/ WqDelete(c)
  <2>1. wqPc'[c] = "idle" /\ wqState' \in {"deinit", "init"}
    BY <1>4, <1>2 DEF WqMake, WqDelete, WqGo, Shapes, Found
  <2> QED BY <2>1, <1>3 DEF WqHasTask, WqManned
<1>5. CASE WqCreate(c)
  <2>1. wqState' = "init"
    BY <1>5, <1>2 DEF WqCreate, WqGo, Found
  <2>2. CASE WqGo(c, "create", "idle")
    <3>1. wqPc'[c] = "idle"
      BY <2>2, <1>2 DEF WqGo, Shapes
    <3> QED BY <3>1, <2>1, <1>3 DEF WqHasTask, WqManned
  <2>3. CASE \E t \in WqTasks : WqStep(t, "none", "test")
    <3>1. PICK t \in WqTasks : wqTask' = [wqTask EXCEPT ![t] = "test"]
      BY <2>3 DEF WqStep
    <3>2. wqTask'[t] = "test"
      BY <3>1, <1>2 DEF Shapes
    <3> QED BY <3>2 DEF WqHasTask
  <2> QED BY <1>5, <2>2, <2>3 DEF WqCreate
<1>6. CASE WqRunning(c) \/ WqStop(c) \/ WqDeinitStop(c)
  <2>1. wqTask' = wqTask
    BY <1>6 DEF WqRunning, WqStop, WqDeinitStop
  <2>2. WqManned
    BY <1>6, <1>2 DEF WqRunning, WqStop, WqDeinitStop, WqGo, Found, WqManned
  <2> QED BY <2>1, <2>2 DEF WqHasTask
<1> QED BY <1>4, <1>5, <1>6

(* The task leaves only when it was told to, and then nobody counts on it. *)
LEMMA ServeKeepsTask ==
    ASSUME QueueInv, WqHasTask, NEW t \in WqTasks, ~wqRaced, WqServe(t)
    PROVE  WqHasTask'
<1>1. wqPc' = wqPc
  BY DEF WqServe, WqTest, WqReceive, WqReturn, WqLeave
<1>2. CASE WqTest(t) \/ WqReceive(t) \/ WqReturn(t)
  <2>1. PICK to \in {"leave", "receive", "call", "test"} : wqTask' = [wqTask EXCEPT ![t] = to]
    <3>1. CASE WqTest(t)
      <4>1. CASE wqState = "stop"
        BY <3>1, <4>1 DEF WqTest, WqStep
      <4>2. CASE wqState # "stop"
        BY <3>1, <4>2 DEF WqTest, WqStep
      <4> QED BY <4>1, <4>2
    <3>2. CASE WqReceive(t)
      BY <3>2 DEF WqReceive, WqStep
    <3>3. CASE WqReturn(t)
      BY <3>3 DEF WqReturn, WqStep
    <3> QED BY <3>1, <3>2, <3>3, <1>2
  <2>2. wqTask'[t] # "none"
    BY <2>1 DEF QueueInv, Shapes
  <2> QED BY <2>2 DEF WqHasTask
<1>3. CASE WqLeave(t)
  <2>1. wqTask[t] = "leave" /\ wqState' = "init"
    BY <1>3 DEF WqLeave, WqStep
  <2>2. wqState = "stop"
    BY <2>1 DEF QueueInv, Manned
  <2>3. \A c \in WqContexts : wqPc'[c] # "created"
    BY <2>2, <1>1 DEF QueueInv, Found
  <2> QED BY <2>1, <2>3 DEF WqHasTask, WqManned
<1> QED BY <1>2, <1>3 DEF WqServe

(* A stop that was accepted, and a function accepted while the task is to  *)
(* run, find a task that will see them, unless a call acted between the    *)
(* test and the act of another (work_queue.c:44-64 and 98-148).            *)
THEOREM StopIsSeen == WqSpec => [](~wqRaced => WqHasTask)
<1> DEFINE Inv == QueueInv /\ (~wqRaced => WqHasTask)
<1>1. WqInit => Inv
  <2>1. WqInit => WqHasTask
    BY DEF WqInit, WqHasTask, WqManned
  <2> QED BY <2>1, QueueInit
<1>2. ASSUME Inv, [WqNext]_wqVars PROVE Inv'
  <2>1. QueueInv'
    BY <1>2, QueueStep
  <2>2. ASSUME ~wqRaced' PROVE WqHasTask'
    <3>1. CASE UNCHANGED wqVars
      BY <1>2, <2>2, <3>1 DEF wqVars, WqHasTask, WqManned
    <3>2. CASE \E c \in WqContexts : WqApi(c)
      <4>1. PICK c \in WqContexts : WqApi(c)
        BY <3>2
      <4>2. ~wqRaced
        BY <4>1, <2>2 DEF WqApi, WqCall, WqMake, WqCreate, WqRunning, WqStop, WqDeinit,
                          WqDeinitStop, WqStopped, WqDelete, WqSend, WqActs
      <4>3. CASE WqCall(c) \/ WqDeinit(c) \/ WqStopped(c) \/ WqSend(c)
        BY <1>2, <4>2, <4>3, TestKeepsTask
      <4>4. CASE WqMake(c) \/ WqCreate(c) \/ WqRunning(c) \/ WqStop(c) \/ WqDeinitStop(c)
                 \/ WqDelete(c)
        BY <1>2, <2>2, <4>2, <4>4, ActKeepsTask
      <4> QED BY <4>1, <4>3, <4>4 DEF WqApi
    <3>3. CASE \E t \in WqTasks : WqServe(t)
      <4>1. PICK t \in WqTasks : WqServe(t)
        BY <3>3
      <4>2. ~wqRaced
        BY <4>1, <2>2 DEF WqServe, WqTest, WqReceive, WqReturn, WqLeave
      <4> QED BY <1>2, <4>1, <4>2, ServeKeepsTask
    <3> QED BY <1>2, <3>1, <3>2, <3>3 DEF WqNext
  <2> QED BY <2>1, <2>2
<1>3. Inv => (~wqRaced => WqHasTask)
  OBVIOUS
<1> QED BY <1>1, <1>2, <1>3, PTL DEF WqSpec

-----------------------------------------------------------------------------
(* WorkQueue: its types.  The calls that send are among the functions that *)
(* may still be added.                                                     *)
Sending == {c \in WqContexts : wqPc[c] = "send"}

WqTypes ==
    /\ WqTypeOK
    /\ wqMade + Cardinality(Sending) <= WqMaxMade

LEMMA WqTypesBegin == WqInit => WqTypes
<1> SUFFICES ASSUME WqInit PROVE WqTypes
  OBVIOUS
<1>1. wqQueue \in Seq(1..WqMaxMade) /\ Len(wqQueue) = 0
  BY EmptySeq DEF WqInit
<1>2. Sending = {}
  BY DEF WqInit, Sending
<1>3. Cardinality(Sending) = 0
  BY <1>2, FS_EmptySet
<1>4. wqMade = 0 /\ 0 + 0 <= WqMaxMade
  BY WqAssumption DEF WqInit
<1>5. WqTypeOK
  <2>1. Len(wqQueue) <= WqSize
    BY <1>1, WqAssumption
  <2>2. wqMade \in 0..WqMaxMade /\ wqRan \subseteq 1..WqMaxMade
    BY WqAssumption DEF WqInit
  <2>3. /\ wqState = "deinit" /\ wqExists \in BOOLEAN
        /\ wqPc \in [WqContexts -> {"idle"}] /\ wqTask \in [WqTasks -> {"none"}]
    BY DEF WqInit
  <2> QED BY <1>1, <2>1, <2>2, <2>3 DEF WqTypeOK
<1> QED BY <1>3, <1>4, <1>5 DEF WqTypes

(* A context that comes to send, or ends it, is one more or one less.      *)
LEMMA OneSender ==
    ASSUME NEW c \in WqContexts
    PROVE  /\ IsFiniteSet(Sending) /\ Cardinality(Sending) \in Nat
           /\ c \notin Sending => Cardinality(Sending \cup {c}) = Cardinality(Sending) + 1
           /\ c \in Sending => Cardinality(Sending \ {c}) = Cardinality(Sending) - 1
<1>1. IsFiniteSet(Sending)
  BY WqAssumption, FS_Subset DEF Sending
<1> QED BY <1>1, FS_CardinalityType, FS_AddElement, FS_RemoveElement

LEMMA WqApiTypes ==
    ASSUME WqTypes, NEW c \in WqContexts, WqApi(c)
    PROVE  WqTypes'
<1>1. WqTypeOK /\ wqMade + Cardinality(Sending) <= WqMaxMade /\ wqMade \in Nat
  BY DEF WqTypes, WqTypeOK
<1>2. ASSUME NEW from, NEW to, WqGo(c, from, to), from # "send", to # "send"
      PROVE  Sending' = Sending
  BY <1>1, <1>2 DEF WqGo, Sending, WqTypeOK
<1>3. CASE WqCallAdd(c) /\ UNCHANGED <<wqState, wqExists, wqQueue, wqTask, wqMade, wqRan, wqRaced>>
  <2>1. Sending' = Sending \cup {c} /\ c \notin Sending
    BY <1>1, <1>3 DEF WqCallAdd, WqGo, Sending, WqTypeOK
  <2>2. wqMade + Cardinality(Sending) < WqMaxMade
    BY <1>3 DEF WqCallAdd, WqMayAdd, Sending
  <2>3. wqMade' + Cardinality(Sending') <= WqMaxMade
    BY <1>1, <1>3, <2>1, <2>2, OneSender, WqAssumption
  <2>4. WqTypeOK'
    BY <1>1, <1>3 DEF WqCallAdd, WqGo, WqTypeOK
  <2> QED BY <2>3, <2>4 DEF WqTypes, Sending
<1>4. CASE WqSend(c)
  <2>1. Sending' = Sending \ {c} /\ c \in Sending
    BY <1>1, <1>4 DEF WqSend, WqGo, Sending, WqTypeOK
  <2>2. Cardinality(Sending') = Cardinality(Sending) - 1 /\ Cardinality(Sending) \in Nat
    BY <2>1, OneSender
  <2>3. wqMade' = wqMade + 1 /\ wqMade' + Cardinality(Sending') <= WqMaxMade
    BY <1>1, <1>4, <2>2, WqAssumption DEF WqSend
  <2>4. wqMade' \in 1..WqMaxMade
    <3>1. Cardinality(Sending') \in Nat
      <4>1. IsFiniteSet(Sending')
        BY <2>1, OneSender, FS_Subset
      <4> QED BY <4>1, FS_CardinalityType
    <3> QED BY <1>1, <2>3, <3>1, WqAssumption
  <2>5. wqQueue' \in Seq(1..WqMaxMade) /\ Len(wqQueue') <= WqSize
    <3>1. CASE wqQueue' = wqQueue
      BY <1>1, <3>1 DEF WqTypeOK
    <3>2. CASE wqQueue' = wqQueue \o <<wqMade + 1>> /\ Len(wqQueue) < WqSize
      <4>1. <<wqMade + 1>> \in Seq(1..WqMaxMade) /\ Len(<<wqMade + 1>>) = 1
        BY <2>3, <2>4
      <4> QED BY <1>1, <3>2, <4>1, ConcatProperties, WqAssumption DEF WqTypeOK
    <3> QED BY <1>4, <3>1, <3>2 DEF WqSend, WqAppended
  <2>6. WqTypeOK'
    BY <1>1, <1>4, <2>4, <2>5 DEF WqSend, WqGo, WqTypeOK
  <2> QED BY <2>3, <2>6 DEF WqTypes, Sending
<1>5. CASE \/ (WqCallInit(c) \/ WqCallStart(c) \/ WqCallStop(c))
                /\ UNCHANGED <<wqState, wqExists, wqQueue, wqTask, wqMade, wqRan, wqRaced>>
           \/ WqDeinit(c) \/ WqStopped(c) \/ WqRunning(c) \/ WqStop(c) \/ WqDeinitStop(c)
  <2>1. Sending' = Sending
    BY <1>2, <1>5 DEF WqCallInit, WqCallStart, WqCallStop, WqDeinit, WqStopped, WqRunning,
        WqStop, WqDeinitStop
  <2>2. WqTypeOK' /\ wqMade' = wqMade
    BY <1>1, <1>5 DEF WqCallInit, WqCallStart, WqCallStop, WqDeinit, WqStopped, WqRunning,
        WqStop, WqDeinitStop, WqGo, WqTypeOK
  <2> QED BY <1>1, <2>1, <2>2 DEF WqTypes, Sending
<1>6. CASE WqCreate(c)
  <2>1. Sending' = Sending
    BY <1>2, <1>6 DEF WqCreate
  <2>2. WqTypeOK' /\ wqMade' = wqMade
    BY <1>1, <1>6 DEF WqCreate, WqGo, WqStep, WqTypeOK
  <2> QED BY <1>1, <2>1, <2>2 DEF WqTypes, Sending
<1>7. CASE WqMake(c) \/ WqDelete(c)
  <2>1. Sending' = Sending
    BY <1>2, <1>7 DEF WqMake, WqDelete
  <2>2. <<>> \in Seq(1..WqMaxMade) /\ Len(<<>>) = 0
    BY EmptySeq
  <2>3. wqQueue' \in Seq(1..WqMaxMade) /\ Len(wqQueue') <= WqSize
    <3>1. wqQueue' = <<>> \/ wqQueue' = wqQueue
      BY <1>7 DEF WqMake, WqDelete
    <3>2. Len(<<>>) <= WqSize
      BY <2>2, WqAssumption
    <3> QED BY <1>1, <2>2, <3>1, <3>2 DEF WqTypeOK
  <2>4. WqTypeOK' /\ wqMade' = wqMade
    BY <1>1, <1>7, <2>3 DEF WqMake, WqDelete, WqGo, WqTypeOK
  <2> QED BY <1>1, <2>1, <2>4 DEF WqTypes, Sending
<1> QED BY <1>3, <1>4, <1>5, <1>6, <1>7 DEF WqApi, WqCall

LEMMA WqTypesStep == WqTypes /\ [WqNext]_wqVars => WqTypes'
<1> SUFFICES ASSUME WqTypes, WqNext \/ UNCHANGED wqVars PROVE WqTypes'
  OBVIOUS
<1>1. WqTypeOK /\ wqMade + Cardinality(Sending) <= WqMaxMade /\ wqMade \in Nat
  BY DEF WqTypes, WqTypeOK
<1>2. ASSUME NEW c \in WqContexts, WqApi(c) PROVE WqTypes'
  BY <1>2, WqApiTypes
<1>3. ASSUME NEW t \in WqTasks, WqTest(t) \/ WqLeave(t) PROVE WqTypes'
  BY <1>1, <1>3 DEF WqTest, WqLeave, WqStep, WqTypes, WqTypeOK, Sending
<1>4. ASSUME NEW t \in WqTasks, WqReceive(t) PROVE WqTypes'
  <2>1. CASE wqQueue # <<>>
    <3>1. /\ Tail(wqQueue) \in Seq(1..WqMaxMade) /\ Len(Tail(wqQueue)) = Len(wqQueue) - 1
          /\ Head(wqQueue) \in 1..WqMaxMade
      BY <1>1, <2>1, HeadTailProperties DEF WqTypeOK
    <3>2. wqQueue' \in Seq(1..WqMaxMade) /\ Len(wqQueue') <= WqSize
      <4>1. Len(Tail(wqQueue)) <= WqSize
        BY <1>1, <3>1, WqAssumption DEF WqTypeOK
      <4> QED BY <1>4, <2>1, <3>1, <4>1 DEF WqReceive
    <3>3. WqTypeOK' /\ wqMade' = wqMade /\ wqPc' = wqPc
      BY <1>1, <1>4, <2>1, <3>1, <3>2 DEF WqReceive, WqStep, WqTypeOK
    <3> QED BY <1>1, <3>3 DEF WqTypes, Sending
  <2>2. CASE wqQueue = <<>>
    BY <1>1, <1>4, <2>2 DEF WqReceive, WqStep, WqTypes, WqTypeOK, Sending
  <2> QED BY <2>1, <2>2
<1>5. ASSUME NEW t \in WqTasks, WqReturn(t) PROVE WqTypes'
  <2>1. CASE UNCHANGED <<wqQueue, wqMade>>
    BY <1>1, <1>5, <2>1 DEF WqReturn, WqStep, WqTypes, WqTypeOK, Sending
  <2>2. CASE WqMayAdd /\ wqQueue' = WqAppended(wqQueue) /\ wqMade' = wqMade + 1
    <3>1. wqMade + Cardinality(Sending) < WqMaxMade /\ Cardinality(Sending) \in Nat
      <4>1. IsFiniteSet(Sending)
        BY WqAssumption, FS_Subset DEF Sending
      <4> QED BY <2>2, <4>1, FS_CardinalityType DEF WqMayAdd, Sending
    <3>2. wqMade + 1 \in 1..WqMaxMade /\ wqMade' + Cardinality(Sending) <= WqMaxMade
      BY <1>1, <2>2, <3>1, WqAssumption
    <3>3. wqQueue' \in Seq(1..WqMaxMade) /\ Len(wqQueue') <= WqSize
      <4>1. CASE wqQueue' = wqQueue
        BY <1>1, <4>1 DEF WqTypeOK
      <4>2. CASE wqQueue' = wqQueue \o <<wqMade + 1>> /\ Len(wqQueue) < WqSize
        <5>1. <<wqMade + 1>> \in Seq(1..WqMaxMade) /\ Len(<<wqMade + 1>>) = 1
          BY <3>2
        <5> QED BY <1>1, <4>2, <5>1, ConcatProperties, WqAssumption DEF WqTypeOK
      <4> QED BY <2>2, <4>1, <4>2 DEF WqAppended
    <3>4. WqTypeOK' /\ wqPc' = wqPc
      BY <1>1, <1>5, <2>2, <3>2, <3>3 DEF WqReturn, WqStep, WqTypeOK
    <3> QED BY <3>2, <3>4 DEF WqTypes, Sending
  <2> QED BY <1>5, <2>1, <2>2 DEF WqReturn
<1>6. CASE UNCHANGED wqVars
  BY <1>1, <1>6 DEF wqVars, WqTypes, WqTypeOK, Sending
<1> QED BY <1>2, <1>3, <1>4, <1>5, <1>6 DEF WqNext, WqServe

-----------------------------------------------------------------------------
(* ParamReport: the cloud shows the value.                                 *)
(* An update on its way that still has its flag to set or to be written.   *)
Mends ==
    \/ \E c \in RptContexts : rptPc[c] \in {"flag", "all"}
    \/ rptFlag /\ \E c \in RptContexts : rptPc[c] \in {"check", "write"}

(* The contexts whose report is between the buffer and the publish.        *)
Brings == {c \in RptContexts : rptPc[c] \in {"reset", "length", "budget", "publish"}}

RptShapes ==
    /\ rptPc = [c \in RptContexts |-> rptPc[c]]
    /\ rptVal \in RptValues
    /\ rptFlag \in BOOLEAN /\ rptDropped \in BOOLEAN

(* Before the agent has started no report is under way.                    *)
NotBefore ==
    ~rptStarted =>
        ~rptReady /\ \A c \in RptContexts : rptPc[c] \in {"idle", "flag", "check"}

(* The cloud shows the value, or an update or a report will bring it.      *)
Reaches == rptReady => rptCloud = rptVal \/ Mends \/ (Brings # {} /\ rptBuf = rptVal)
Fresh   == Brings # {} /\ rptBuf # RptNone => rptBuf = rptVal \/ Mends
Spares  == rptFlag /\ (\E c \in RptContexts : rptPc[c] = "reset") =>
               rptBuf = rptVal \/ \E c \in RptContexts : rptPc[c] = "flag"

ReportInv == RptShapes /\ NotBefore /\ (~rptClash /\ ~rptDropped => Reaches /\ Fresh /\ Spares)

(* The invariant holds when the device registers its parameters.           *)
LEMMA ReportInit == RptInit => ReportInv
BY RptAssumption DEF RptInit, ReportInv, RptShapes, NotBefore, Reaches, Fresh, Spares, Brings, RptNone

(* The shapes of the variables are preserved.                              *)
LEMMA ReportShapes ==
    ASSUME RptShapes, [RptNext]_rptVars
    PROVE  RptShapes'
<1> USE DEF RptShapes, RptGo
<1>1. CASE RptStart \/ RptPeriod \/ UNCHANGED rptVars
  BY <1>1 DEF RptStart, RptPeriod, rptVars, rptParam
<1>2. ASSUME NEW c \in RptContexts, RptUpdate(c)
      PROVE  RptShapes'
  <2>2. CASE \E v \in RptValues : RptStoreValue(c, v)
    BY <1>2, <2>2 DEF RptStoreValue
  <2>3. CASE RptSetFlag(c)
    BY <1>2, <2>3 DEF RptSetFlag, RptChanged
  <2>4. CASE RptIfStarted(c)
    BY <1>2, <2>4 DEF RptIfStarted, rptParam
  <2> QED BY <1>2, <2>2, <2>3, <2>4 DEF RptUpdate
<1>3. ASSUME NEW c \in RptContexts, RptReport(c) \/ RptMqtt(c)
      PROVE  RptShapes'
  BY <1>3 DEF RptReport, RptMqtt, RptWrite, RptResetFlag, RptFirstReport, RptWriteAll, RptLength,
              RptBudgetCheck, RptPublish, RptPublishFails, RptSpend, rptParam
<1> QED BY <1>1, <1>2, <1>3 DEF RptNext

(* No report gets under way before the start.                              *)
LEMMA NotBeforeStep ==
    ASSUME RptShapes, NotBefore, [RptNext]_rptVars
    PROVE  NotBefore'
<1> USE DEF RptShapes, NotBefore, RptGo
<1>1. CASE RptStart \/ RptPeriod \/ UNCHANGED rptVars
  BY <1>1 DEF RptStart, RptPeriod, rptVars, rptAgent
<1>2. ASSUME NEW c \in RptContexts, RptUpdate(c)
      PROVE  NotBefore'
  <2>1. UNCHANGED <<rptStarted, rptReady>>
    BY <1>2 DEF RptUpdate, RptStoreValue, RptSetFlag, RptIfStarted, rptAgent
  <2>2. PICK to \in {"flag", "check", "write", "idle"} :
           rptPc' = [rptPc EXCEPT ![c] = to] /\ (to = "write" => rptStarted)
    BY <1>2 DEF RptUpdate, RptStoreValue, RptSetFlag, RptIfStarted
  <2> QED BY <2>1, <2>2
<1>3. ASSUME NEW c \in RptContexts, RptReport(c) \/ RptMqtt(c)
      PROVE  NotBefore'
  <2>1. rptStarted' = rptStarted /\ rptStarted
    BY <1>3 DEF RptReport, RptMqtt, RptWrite, RptResetFlag, RptFirstReport, RptWriteAll, RptLength,
                RptBudgetCheck, RptPublish, RptPublishFails, RptSpend, rptAgent
  <2> QED BY <2>1
<1> QED BY <1>1, <1>2, <1>3 DEF RptNext

(* Every step of a report preserves the invariant.                         *)
LEMMA ReportStep ==
    ASSUME ReportInv, [RptNext]_rptVars
    PROVE  ReportInv'
<1>1. RptShapes' /\ NotBefore'
  BY ReportShapes, NotBeforeStep DEF ReportInv
<1>2. ASSUME ~rptClash', ~rptDropped'
      PROVE  Reaches' /\ Fresh' /\ Spares'
  <2> USE DEF Mends, Brings
  <2>1. CASE RptStart \/ RptPeriod \/ UNCHANGED rptVars
    <3>1. UNCHANGED <<rptVal, rptFlag, rptBuf, rptPc, rptReady, rptCloud, rptClash, rptDropped>>
      BY <2>1 DEF RptStart, RptPeriod, rptVars, rptParam, rptAgent
    <3> QED BY <3>1, <1>2 DEF ReportInv, Reaches, Fresh, Spares
  <2>2. ASSUME NEW c \in RptContexts, RptUpdate(c)
        PROVE  Reaches' /\ Fresh' /\ Spares'
    <3>1. CASE \E v \in RptValues : RptStoreValue(c, v)
      <4>1. rptPc'[c] = "flag"
        BY <3>1 DEF RptStoreValue, RptGo, ReportInv, RptShapes
      <4> QED BY <4>1 DEF Reaches, Fresh, Spares
    <3>3. CASE RptSetFlag(c)
      <4>1. /\ rptPc[c] = "flag" /\ rptPc' = [rptPc EXCEPT ![c] = "check"]
            /\ ~RptOthersAt(c, {"reset"}) /\ rptFlag'
        BY <3>3, <1>2 DEF RptSetFlag, RptGo, RptChanged
      <4>2. \A d \in RptContexts : rptPc'[d] = IF d = c THEN "check" ELSE rptPc[d]
        BY <4>1 DEF ReportInv, RptShapes
      <4> QED BY <4>1, <4>2 DEF Reaches, Fresh, Spares, RptOthersAt
    <3>4. CASE RptIfStarted(c)
      <4> DEFINE to == IF rptStarted THEN "write" ELSE "idle"
      <4>1. /\ rptPc[c] = "check" /\ rptPc' = [rptPc EXCEPT ![c] = to]
            /\ UNCHANGED <<rptVal, rptFlag, rptBuf, rptReady, rptCloud, rptClash, rptDropped>>
        BY <3>4 DEF RptIfStarted, RptGo, rptParam, rptAgent
      <4>2. \A d \in RptContexts : rptPc'[d] = IF d = c THEN to ELSE rptPc[d]
        BY <4>1 DEF ReportInv, RptShapes
      <4>3. CASE rptStarted
        <5>1. (Mends' <=> Mends) /\ Brings' = Brings
          BY <4>1, <4>2, <4>3
        <5>2. \A d \in RptContexts, p \in {"reset", "flag"} : rptPc'[d] = p <=> rptPc[d] = p
          BY <4>1, <4>2, <4>3
        <5> HIDE DEF Mends, Brings, to
        <5> QED BY <4>1, <5>1, <5>2, <1>2 DEF ReportInv, Reaches, Fresh, Spares
      <4>4. CASE ~rptStarted
        <5>1. ~rptReady /\ Brings' = {} /\ \A d \in RptContexts : rptPc'[d] # "reset"
          BY <4>2, <4>4 DEF ReportInv, NotBefore
        <5> QED BY <4>1, <5>1 DEF Reaches, Fresh, Spares
      <4> QED BY <4>3, <4>4
    <3> QED BY <2>2, <3>1, <3>3, <3>4 DEF RptUpdate
  <2>3. ASSUME NEW c \in RptContexts, RptReport(c)
        PROVE  Reaches' /\ Fresh' /\ Spares'
    <3>1. CASE RptWrite(c)
      <4>1. /\ rptPc[c] = "write" /\ rptPc' = [rptPc EXCEPT ![c] = "reset"]
            /\ ~RptOthersAt(c, {"reset", "length", "budget", "publish"})
            /\ rptBuf' = IF rptFlag THEN rptVal ELSE RptNone
            /\ UNCHANGED <<rptVal, rptFlag, rptReady, rptCloud, rptDropped>>
            /\ ~rptClash
        BY <3>1, <1>2 DEF RptWrite, RptGo, rptParam, rptAgent
      <4>2. \A d \in RptContexts : rptPc'[d] = IF d = c THEN "reset" ELSE rptPc[d]
        BY <4>1 DEF ReportInv, RptShapes
      <4>3. CASE rptFlag
        <5>1. c \in Brings' /\ rptBuf' = rptVal'
          BY <4>1, <4>2, <4>3
        <5> QED BY <5>1 DEF Reaches, Fresh, Spares
      <4>4. CASE ~rptFlag
        <5>1. Brings = {}
          BY <4>1 DEF RptOthersAt
        <5> QED BY <4>1, <4>2, <4>4, <5>1, <1>2 DEF ReportInv, Reaches, Fresh, Spares
      <4> QED BY <4>3, <4>4
    <3>2. CASE RptResetFlag(c)
      <4>1. /\ rptPc[c] = "reset" /\ rptPc' = [rptPc EXCEPT ![c] = "length"]
            /\ ~rptFlag'
            /\ UNCHANGED <<rptVal, rptBuf, rptReady, rptCloud, rptClash, rptDropped>>
        BY <3>2 DEF RptResetFlag, RptGo, rptAgent
      <4>2. \A d \in RptContexts : rptPc'[d] = IF d = c THEN "length" ELSE rptPc[d]
        BY <4>1 DEF ReportInv, RptShapes
      <4>3. c \in Brings /\ c \in Brings'
        BY <4>1, <4>2
      <4>4. rptFlag => rptBuf = rptVal \/ \E d \in RptContexts : rptPc[d] = "flag"
        BY <4>1, <1>2 DEF ReportInv, Spares
      <4>5. Mends => Mends' \/ rptBuf = rptVal
        BY <4>1, <4>2, <4>4
      <4> QED BY <4>1, <4>3, <4>5, <1>2 DEF ReportInv, Reaches, Fresh, Spares
    <3>3. CASE RptFirstReport(c)
      <4>1. /\ rptPc[c] = "idle" /\ rptPc' = [rptPc EXCEPT ![c] = "all"]
            /\ UNCHANGED <<rptVal, rptFlag, rptBuf, rptCloud, rptClash, rptDropped>>
        BY <3>3 DEF RptFirstReport, RptGo, rptParam
      <4>2. \A d \in RptContexts : rptPc'[d] = IF d = c THEN "all" ELSE rptPc[d]
        BY <4>1 DEF ReportInv, RptShapes
      <4> QED BY <4>1, <4>2, <1>2 DEF ReportInv, Reaches, Fresh, Spares
    <3>4. CASE RptWriteAll(c)
      <4>1. /\ rptPc[c] = "all" /\ rptPc' = [rptPc EXCEPT ![c] = "length"]
            /\ ~RptOthersAt(c, {"reset", "length", "budget", "publish"})
            /\ rptBuf' = rptVal /\ rptVal' = rptVal
        BY <3>4, <1>2 DEF RptWriteAll, RptGo, rptParam
      <4>2. rptPc'[c] = "length"
        BY <4>1 DEF ReportInv, RptShapes
      <4> QED BY <4>1, <4>2 DEF Reaches, Fresh, Spares
    <3>5. CASE RptLength(c)
      <4> DEFINE to == IF rptBuf # RptNone /\ rptReady THEN "budget" ELSE "idle"
      <4>1. /\ rptPc[c] = "length" /\ rptPc' = [rptPc EXCEPT ![c] = to]
            /\ UNCHANGED <<rptVal, rptFlag, rptBuf, rptReady, rptCloud, rptClash, rptDropped>>
        BY <3>5 DEF RptLength, RptGo, rptParam, rptAgent
      <4>2. \A d \in RptContexts : rptPc'[d] = IF d = c THEN to ELSE rptPc[d]
        BY <4>1 DEF ReportInv, RptShapes
      <4>3. Mends' <=> Mends
        BY <4>1, <4>2
      <4>4. rptReady /\ rptBuf = rptVal => c \in Brings'
        <5>1. rptVal # RptNone
          BY RptAssumption DEF ReportInv, RptShapes, RptNone
        <5> QED BY <4>2, <5>1
      <4>5. Brings' # {} => Brings # {}
        BY <4>1, <4>2
      <4> HIDE DEF to
      <4>6. \A d \in RptContexts : rptPc'[d] \in {"reset", "flag"} => rptPc'[d] = rptPc[d]
        BY <4>2 DEF to
      <4>7. \A d \in RptContexts : rptPc[d] \in {"reset", "flag"} => rptPc'[d] = rptPc[d]
        BY <4>1, <4>2
      <4>8. Reaches'
        BY <4>1, <4>3, <4>4, <1>2 DEF ReportInv, Reaches
      <4>9. Fresh'
        BY <4>1, <4>3, <4>5, <1>2 DEF ReportInv, Fresh
      <4>10. Spares'
        BY <4>1, <4>6, <4>7, <1>2 DEF ReportInv, Spares
      <4> QED BY <4>8, <4>9, <4>10
    <3> QED BY <2>3, <3>1, <3>2, <3>3, <3>4, <3>5 DEF RptReport
  <2>4. ASSUME NEW c \in RptContexts, RptMqtt(c)
        PROVE  Reaches' /\ Fresh' /\ Spares'
    <3>1. CASE RptBudgetCheck(c)
      <4>1. ~rptDropped /\ RptGo(c, "budget", "publish")
        <5> DEFINE spare == rptBudget > 0
        <5>1. \/ /\ RptGo(c, "budget", IF spare THEN "publish" ELSE "idle")
                 /\ rptDropped' = (rptDropped \/ ~spare)
              \/ RptGo(c, "budget", "publish") /\ rptDropped' = rptDropped
          BY <3>1 DEF RptBudgetCheck
        <5> HIDE DEF spare
        <5>2. ~rptDropped' /\ rptDropped \in BOOLEAN
          BY <1>2 DEF ReportInv, RptShapes
        <5>3. ~rptDropped /\ (spare \/ RptGo(c, "budget", "publish"))
          BY <5>1, <5>2
        <5> QED BY <5>1, <5>3
      <4>2. /\ rptPc[c] = "budget" /\ rptPc' = [rptPc EXCEPT ![c] = "publish"]
            /\ UNCHANGED <<rptVal, rptFlag, rptBuf, rptReady, rptCloud, rptClash>> /\ ~rptDropped
        BY <3>1, <4>1 DEF RptBudgetCheck, RptGo, rptParam, rptAgent
      <4>3. \A d \in RptContexts : rptPc'[d] = IF d = c THEN "publish" ELSE rptPc[d]
        BY <4>2 DEF ReportInv, RptShapes
      <4> QED BY <4>2, <4>3, <1>2 DEF ReportInv, Reaches, Fresh, Spares
    <3>2. CASE RptPublish(c)
      <4>1. /\ rptPc[c] = "publish" /\ rptPc' = [rptPc EXCEPT ![c] = "spend"]
            /\ rptCloud' = IF rptBuf = RptNone THEN rptCloud ELSE rptBuf
            /\ UNCHANGED <<rptVal, rptFlag, rptBuf, rptReady, rptClash, rptDropped>>
        BY <3>2 DEF RptPublish, RptGo, rptParam, rptAgent
      <4>2. \A d \in RptContexts : rptPc'[d] = IF d = c THEN "spend" ELSE rptPc[d]
        BY <4>1 DEF ReportInv, RptShapes
      <4>3. rptVal # RptNone
        BY RptAssumption DEF ReportInv, RptShapes, RptNone
      <4>4. c \in Brings /\ (Mends' <=> Mends) /\ Brings' \subseteq Brings
        BY <4>1, <4>2
      <4> HIDE DEF Mends, Brings
      <4>5. Reaches' /\ Fresh'
        BY <4>1, <4>3, <4>4, <1>2 DEF ReportInv, Reaches, Fresh
      <4>6. Spares'
        BY <4>1, <4>2, <1>2 DEF ReportInv, Spares
      <4> QED BY <4>5, <4>6
    <3>3. CASE RptSpend(c)
      <4>1. /\ rptPc[c] = "spend" /\ rptPc' = [rptPc EXCEPT ![c] = "idle"]
            /\ UNCHANGED <<rptVal, rptFlag, rptBuf, rptReady, rptCloud, rptClash, rptDropped>>
        BY <3>3 DEF RptSpend, RptGo, rptParam, rptAgent
      <4>2. \A d \in RptContexts : rptPc'[d] = IF d = c THEN "idle" ELSE rptPc[d]
        BY <4>1 DEF ReportInv, RptShapes
      <4> QED BY <4>1, <4>2, <1>2 DEF ReportInv, Reaches, Fresh, Spares
    <3>4. ~RptPublishFails(c)
      BY <1>2 DEF RptPublishFails
    <3> QED BY <2>4, <3>1, <3>2, <3>3, <3>4 DEF RptMqtt
  <2> QED BY <2>1, <2>2, <2>3, <2>4 DEF RptNext
<1> QED BY <1>1, <1>2 DEF ReportInv

(* At rest the cloud shows the parameter's value, unless two reports have  *)
(* met in the shared buffer or the flags, the budget has refused one, or   *)
(* the client has failed to publish one (esp_rmaker_param.c:120-282,       *)
(* 679-830; esp_rmaker_mqtt.c:113-122).                                    *)
THEOREM StaleOnlyByClash == RptSpec => []RptStaleOnlyByClash
<1>1. ReportInv => RptStaleOnlyByClash
  BY DEF ReportInv, Reaches, RptStaleOnlyByClash, RptQuiet, Mends, Brings
<1> QED BY ReportInit, ReportStep, <1>1, PTL DEF RptSpec

-----------------------------------------------------------------------------
(* ParamReport: the budget is kept.                                        *)
(* The publishers, those still to pay, and those that may yet publish      *)
(* unpaid.                                                                 *)
Contexts == Cardinality(RptContexts)
Paying   == {c \in RptContexts : rptPc[c] = "spend"}
Holding  == {c \in RptContexts : rptPc[c] \in {"publish", "spend"}}
Paid     == rptPublished - Cardinality(Paying)

BudgetTypes ==
    /\ rptPc = [c \in RptContexts |-> rptPc[c]]
    /\ rptBudget \in 0..RptMaxBudget /\ rptPublished \in Nat
    /\ rptGranted \in Nat /\ rptBudget <= rptGranted
    /\ rptMisses \in Nat

(* Each unit of the budget pays at most one publish of every context; at   *)
(* zero those who have tested are all that can still publish.  A use       *)
(* without the lock adds one publish that nothing pays.                    *)
Paced ==
    /\ rptBudget > 0 => Paid <= (rptGranted - rptBudget) * Contexts + rptMisses
    /\ rptBudget = 0 => Paid + Cardinality(Holding) <= rptGranted * Contexts + rptMisses

BudgetInv == BudgetTypes /\ Paced

(* The publishing contexts are finitely many.                              *)
LEMMA ContextsFinite == IsFiniteSet(RptContexts) /\ Contexts \in Nat
<1>1. IsFiniteSet(RptContexts)
  BY RptAssumption, FS_AddElement DEF RptContexts
<1> QED BY <1>1, FS_CardinalityType DEF Contexts

(* The contexts that hold or pay are counted by naturals.                  *)
LEMMA Counted ==
    /\ IsFiniteSet(Paying) /\ IsFiniteSet(Holding)
    /\ Cardinality(Paying) \in Nat /\ Cardinality(Holding) \in Nat
    /\ Cardinality(Paying) <= Cardinality(Holding)
    /\ Cardinality(Holding) <= Contexts
<1>1. Holding \subseteq RptContexts /\ Paying \subseteq Holding
  BY DEF Holding, Paying
<1>2. IsFiniteSet(Holding) /\ Cardinality(Holding) <= Contexts
  BY <1>1, ContextsFinite, FS_Subset DEF Contexts
<1>3. IsFiniteSet(Paying) /\ Cardinality(Paying) <= Cardinality(Holding)
  BY <1>1, <1>2, FS_Subset
<1> QED BY <1>2, <1>3, FS_CardinalityType

(* One unit of the budget is worth a publish of every context.             *)
LEMMA Unit ==
    ASSUME NEW a \in Nat, NEW b \in 1..a, NEW n \in Nat
    PROVE  (a - b) * n + n <= a * n
<1>1. (b - 1) * n >= 0
  OBVIOUS
<1>2. a * n = (a - b) * n + n + (b - 1) * n
  OBVIOUS
<1>3. (a - b) * n \in Int /\ (b - 1) * n \in Int /\ a * n \in Int
  OBVIOUS
<1> HIDE DEF Contexts
<1> QED BY <1>1, <1>2, <1>3

(* The invariant holds at the start.                                       *)
LEMMA BudgetInit == RptInit => BudgetInv
<1> SUFFICES ASSUME RptInit PROVE BudgetInv
  OBVIOUS
<1>1. Paying = {} /\ Holding = {}
  BY DEF RptInit, Paying, Holding
<1>2. Paid = 0 /\ Cardinality(Holding) = 0
  BY <1>1, FS_EmptySet DEF RptInit, Paid
<1>3. BudgetTypes
  BY RptAssumption DEF RptInit, BudgetTypes
<1>4. rptBudget = rptGranted
  BY DEF RptInit
<1>5. Paced
  BY <1>2, <1>3, <1>4, ContextsFinite DEF Paced, BudgetTypes
<1> QED BY <1>3, <1>5 DEF BudgetInv

(* Everything but the budget's own steps leaves those who hold alone.      *)
LEMMA OtherSteps ==
    ASSUME BudgetInv, UNCHANGED <<rptBudget, rptPublished, rptGranted, rptMisses>>,
           Paying' = Paying, Holding' = Holding,
           rptPc' = [c \in RptContexts |-> rptPc'[c]]
    PROVE  BudgetInv'
BY DEF BudgetInv, BudgetTypes, Paced, Paid, Contexts

(* Every step preserves the pace of the publishes.                         *)
LEMMA BudgetStep ==
    ASSUME BudgetInv, [RptNext]_rptVars
    PROVE  BudgetInv'
<1> USE DEF RptGo
<1>0. /\ Contexts \in Nat /\ Contexts' = Contexts /\ rptMisses \in Nat
      /\ Paid \in Int /\ Cardinality(Paying) \in Nat /\ Cardinality(Holding) \in Nat
      /\ rptGranted * Contexts \in Int /\ (rptGranted - rptBudget) * Contexts \in Int
  BY Counted, ContextsFinite DEF Contexts, Paid, BudgetInv, BudgetTypes
<1>1. CASE RptStart \/ UNCHANGED rptVars
  BY <1>1, OtherSteps DEF RptStart, rptVars, rptCount, BudgetInv, BudgetTypes, Paying, Holding
<1>2. CASE RptPeriod /\ rptBudget' = RptIncrease(rptBudget) /\ UNCHANGED rptMisses
  <2>1. /\ Paying' = Paying /\ Holding' = Holding /\ rptPc' = rptPc
        /\ rptPublished' = rptPublished
    BY <1>2 DEF RptPeriod, Paying, Holding
  <2>2. Paid' = Paid
    BY <2>1 DEF Paid
  <2>3. /\ rptBudget' = RptIncrease(rptBudget)
        /\ rptGranted' = rptGranted + (rptBudget' - rptBudget)
    BY <1>2 DEF RptPeriod
  <2>4. rptBudget' \in 0..RptMaxBudget /\ rptBudget' >= rptBudget
    BY <2>3, RptAssumption DEF BudgetInv, BudgetTypes, RptIncrease
  <2>5. BudgetTypes'
    BY <1>2, <2>1, <2>3, <2>4 DEF BudgetInv, BudgetTypes
  <2>6. rptGranted' - rptBudget' = rptGranted - rptBudget
    BY <2>3, <2>4 DEF BudgetInv, BudgetTypes
  <2>8. CASE rptBudget = 0
    <3>1. Paid + Cardinality(Holding) <= rptGranted * Contexts + rptMisses
      BY <2>8 DEF BudgetInv, Paced
    <3>2. rptGranted - rptBudget = rptGranted
      BY <2>8 DEF BudgetInv, BudgetTypes
    <3>4. Paid <= (rptGranted' - rptBudget') * Contexts + rptMisses
      BY <3>1, <3>2, <2>6, <1>0
    <3>5. rptBudget' = 0 => rptGranted' = rptGranted
      BY <2>8, <2>3, <2>4 DEF BudgetInv, BudgetTypes
    <3>6. Paced'
      BY <3>1, <3>4, <3>5, <2>1, <2>2, <1>0, <1>2 DEF Paced
    <3> QED BY <3>6, <2>5 DEF BudgetInv
  <2>9. CASE rptBudget > 0
    <3>1. rptBudget' > 0
      BY <2>9, <2>4 DEF BudgetInv, BudgetTypes
    <3>2. Paced'
      BY <3>1, <2>2, <2>6, <2>9, <2>4, <1>0, <1>2 DEF BudgetInv, Paced
    <3> QED BY <3>2, <2>5 DEF BudgetInv
  <2> QED BY <2>8, <2>9 DEF BudgetInv, BudgetTypes
<1>3. CASE RptPeriod /\ RptLockMissed /\ UNCHANGED rptBudget
  <2>1. /\ Paying' = Paying /\ Holding' = Holding /\ rptPc' = rptPc
        /\ rptPublished' = rptPublished /\ rptBudget' = rptBudget /\ rptMisses' = rptMisses + 1
    BY <1>3 DEF RptPeriod, RptLockMissed, Paying, Holding
  <2>2. rptGranted' = rptGranted
    BY <1>3, <2>1 DEF RptPeriod, BudgetInv, BudgetTypes
  <2>3. Paid' = Paid
    BY <2>1 DEF Paid
  <2> HIDE DEF Paid, Paying, Holding, Contexts
  <2>4. Paced'
    BY <2>1, <2>2, <2>3, <1>0 DEF BudgetInv, Paced
  <2> QED BY <2>1, <2>2, <2>4 DEF BudgetInv, BudgetTypes
<1>4. ASSUME NEW c \in RptContexts, RptUpdate(c) \/ RptReport(c)
      PROVE  BudgetInv'
  <2>1. UNCHANGED <<rptBudget, rptPublished, rptGranted, rptMisses>>
    BY <1>4 DEF RptUpdate, RptReport, RptStoreValue, RptSetFlag, RptIfStarted, RptWrite,
                RptResetFlag, RptFirstReport, RptWriteAll, RptLength, rptCount
  <2>2. PICK to \in {"flag", "check", "write", "reset", "all", "length", "budget", "idle"} :
           rptPc' = [rptPc EXCEPT ![c] = to] /\ rptPc[c] \notin {"publish", "spend"}
    <3>1. CASE RptLength(c)
      <4>1. CASE rptBuf # RptNone /\ rptReady
        BY <3>1, <4>1 DEF RptLength
      <4>2. CASE ~(rptBuf # RptNone /\ rptReady)
        BY <3>1, <4>2 DEF RptLength
      <4> QED BY <4>1, <4>2
    <3>2. CASE RptIfStarted(c)
      <4>1. CASE rptStarted
        BY <3>2, <4>1 DEF RptIfStarted
      <4>2. CASE ~rptStarted
        BY <3>2, <4>2 DEF RptIfStarted
      <4> QED BY <4>1, <4>2
    <3>3. CASE \/ (\E v \in RptValues : RptStoreValue(c, v)) \/ RptSetFlag(c)
               \/ RptWrite(c) \/ RptResetFlag(c) \/ RptFirstReport(c) \/ RptWriteAll(c)
      BY <3>3 DEF RptStoreValue, RptSetFlag, RptWrite, RptResetFlag,
                  RptFirstReport, RptWriteAll
    <3> QED BY <3>1, <3>2, <3>3, <1>4 DEF RptUpdate, RptReport
  <2>3. Paying' = Paying /\ Holding' = Holding
    BY <2>2 DEF Paying, Holding, BudgetInv, BudgetTypes
  <2>4. rptPc' = [d \in RptContexts |-> rptPc'[d]]
    BY <2>2 DEF BudgetInv, BudgetTypes
  <2> QED BY <2>1, <2>3, <2>4, OtherSteps
<1>5. ASSUME NEW c \in RptContexts, RptBudgetCheck(c)
      PROVE  BudgetInv'
  <2>1. UNCHANGED <<rptBudget, rptPublished, rptGranted>>
    BY <1>5 DEF RptBudgetCheck
  <2>2. CASE RptGo(c, "budget", "publish") /\ RptLockMissed
    <3>1. rptPc[c] = "budget" /\ rptPc' = [rptPc EXCEPT ![c] = "publish"] /\ rptMisses' = rptMisses + 1
      BY <2>2 DEF RptLockMissed
    <3>2. Paying' = Paying /\ c \notin Holding /\ Holding' = Holding \cup {c}
      BY <3>1 DEF Paying, Holding, BudgetInv, BudgetTypes
    <3>3. Cardinality(Holding') = Cardinality(Holding) + 1
      BY <3>2, Counted, FS_AddElement
    <3>4. Paid' = Paid
      BY <3>2, <2>1 DEF Paid
    <3> HIDE DEF Paid, Paying, Holding, Contexts
    <3>5. Paced'
      BY <3>1, <3>3, <3>4, <2>1, <1>0 DEF BudgetInv, Paced
    <3> QED BY <3>1, <3>5, <2>1 DEF BudgetInv, BudgetTypes
  <2>3. CASE rptBudget > 0 /\ RptGo(c, "budget", "publish") /\ UNCHANGED rptMisses
    <3>1. rptPc[c] = "budget" /\ rptPc' = [rptPc EXCEPT ![c] = "publish"]
      BY <2>3
    <3>2. Paying' = Paying
      BY <3>1 DEF Paying, BudgetInv, BudgetTypes
    <3>3. Paced'
      BY <3>2, <2>1, <2>3 DEF BudgetInv, BudgetTypes, Paced, Paid, Contexts
    <3> QED BY <3>1, <3>3, <2>1, <2>3 DEF BudgetInv, BudgetTypes
  <2>4. CASE ~(rptBudget > 0) /\ RptGo(c, "budget", "idle") /\ UNCHANGED rptMisses
    <3>1. rptPc[c] = "budget" /\ rptPc' = [rptPc EXCEPT ![c] = "idle"]
      BY <2>4
    <3>2. Paying' = Paying /\ Holding' = Holding
      BY <3>1 DEF Paying, Holding, BudgetInv, BudgetTypes
    <3>3. rptPc' = [d \in RptContexts |-> rptPc'[d]]
      BY <3>1 DEF BudgetInv, BudgetTypes
    <3> QED BY <2>1, <2>4, <3>2, <3>3, OtherSteps
  <2>5. CASE RptGo(c, "budget", IF rptBudget > 0 THEN "publish" ELSE "idle") /\ UNCHANGED rptMisses
    <3>1. CASE rptBudget > 0
      BY <2>3, <2>5, <3>1
    <3>2. CASE ~(rptBudget > 0)
      BY <2>4, <2>5, <3>2
    <3> QED BY <3>1, <3>2
  <2> QED BY <1>5, <2>2, <2>5 DEF RptBudgetCheck
<1>6. ASSUME NEW c \in RptContexts, RptPublish(c)
      PROVE  BudgetInv'
  <2>1. /\ rptPc[c] = "publish" /\ rptPc' = [rptPc EXCEPT ![c] = "spend"]
        /\ rptBudget' = rptBudget /\ rptGranted' = rptGranted /\ rptMisses' = rptMisses
        /\ rptPublished' = rptPublished + 1
    BY <1>6 DEF RptPublish
  <2>2. c \notin Paying /\ Paying' = Paying \cup {c} /\ Holding' = Holding
    BY <2>1 DEF Paying, Holding, BudgetInv, BudgetTypes
  <2>3. Cardinality(Paying') = Cardinality(Paying) + 1
    BY <2>2, Counted, FS_AddElement
  <2>4. Paid' = Paid
    BY <2>1, <2>3, Counted DEF Paid, BudgetInv, BudgetTypes
  <2>5. Paced'
    BY <2>1, <2>2, <2>4 DEF BudgetInv, Paced, Contexts
  <2> QED BY <2>1, <2>5 DEF BudgetInv, BudgetTypes
<1>7. ASSUME NEW c \in RptContexts, RptPublishFails(c)
      PROVE  BudgetInv'
  <2>1. /\ rptPc[c] = "publish" /\ rptPc' = [rptPc EXCEPT ![c] = "idle"]
        /\ UNCHANGED <<rptBudget, rptPublished, rptGranted, rptMisses>>
    BY <1>7 DEF RptPublishFails, rptCount
  <2>2. Paying' = Paying /\ c \in Holding /\ Holding' = Holding \ {c}
    BY <2>1 DEF Paying, Holding, BudgetInv, BudgetTypes
  <2>3. Cardinality(Holding') = Cardinality(Holding) - 1
    BY <2>2, Counted, FS_RemoveElement
  <2>4. Paid' = Paid
    BY <2>1, <2>2 DEF Paid
  <2> HIDE DEF Paid, Paying, Holding, Contexts
  <2>5. Paced'
    BY <2>1, <2>3, <2>4, <1>0 DEF BudgetInv, Paced
  <2> QED BY <2>1, <2>5 DEF BudgetInv, BudgetTypes
<1>8. ASSUME NEW c \in RptContexts, RptSpend(c)
      PROVE  BudgetInv'
  <2>1. /\ rptPc[c] = "spend" /\ rptPc' = [rptPc EXCEPT ![c] = "idle"]
        /\ rptGranted' = rptGranted /\ rptPublished' = rptPublished
        /\ \/ rptBudget' = RptDecrease(rptBudget) /\ rptMisses' = rptMisses
           \/ rptBudget' = rptBudget /\ rptMisses' = rptMisses + 1
    BY <1>8 DEF RptSpend, RptLockMissed
  <2>2. /\ c \in Paying /\ Paying' = Paying \ {c}
        /\ c \in Holding /\ Holding' = Holding \ {c}
    BY <2>1 DEF Paying, Holding, BudgetInv, BudgetTypes
  <2>3. /\ Cardinality(Paying') = Cardinality(Paying) - 1
        /\ Cardinality(Holding') = Cardinality(Holding) - 1
    BY <2>2, Counted, FS_RemoveElement
  <2>4. Paid' = Paid + 1 /\ Paid \in Int
    BY <2>1, <2>3, Counted DEF Paid, BudgetInv, BudgetTypes
  <2>5. BudgetTypes'
    BY <2>1, RptAssumption DEF BudgetInv, BudgetTypes, RptDecrease
  <2>6. Cardinality(Holding) \in 1..Contexts
    <3>1. Cardinality(Holding') \in Nat
      BY <2>2, Counted, FS_RemoveElement, FS_CardinalityType
    <3> QED BY <3>1, <2>3, Counted, ContextsFinite
  <2>7. CASE rptBudget' = rptBudget /\ rptMisses' = rptMisses + 1
    <3> HIDE DEF Paid, Paying, Holding, Contexts
    <3>1. Paced'
      BY <2>1, <2>3, <2>4, <2>6, <2>7, <1>0 DEF BudgetInv, Paced
    <3> QED BY <3>1, <2>5 DEF BudgetInv
  <2>8. CASE rptBudget = 0 /\ rptBudget' = RptDecrease(rptBudget) /\ rptMisses' = rptMisses
    <3>1. rptBudget' = 0
      BY <2>8 DEF RptDecrease
    <3>2. Paid' + Cardinality(Holding') <= rptGranted * Contexts + rptMisses
      BY <2>3, <2>4, <2>6, <2>8, <1>0 DEF BudgetInv, Paced
    <3>3. Paced'
      BY <3>1, <3>2, <2>1, <2>8, <1>0 DEF Paced
    <3> QED BY <3>3, <2>5 DEF BudgetInv
  <2>9. CASE rptBudget > 0 /\ rptBudget' = RptDecrease(rptBudget) /\ rptMisses' = rptMisses
    <3> DEFINE before == (rptGranted - rptBudget) * Contexts
               after == (rptGranted - (rptBudget - 1)) * Contexts
    <3>1. rptBudget' = rptBudget - 1 /\ Paid <= before + rptMisses
      BY <2>9 DEF RptDecrease, BudgetInv, Paced
    <3>2. after = before + Contexts /\ before \in Int
      BY <1>0 DEF BudgetInv, BudgetTypes
    <3> HIDE DEF before, after
    <3>3. Paid' <= after + rptMisses
      BY <3>1, <3>2, <2>4, <2>6, <1>0
    <3>4. Paid' + Cardinality(Holding') <= after + rptMisses
      BY <3>1, <3>2, <2>3, <2>4, <2>6, <1>0
    <3>5. rptBudget' = 0 => after = rptGranted * Contexts
      BY <3>1 DEF after, BudgetInv, BudgetTypes
    <3>6. Paced'
      BY <3>1, <3>3, <3>4, <3>5, <2>1, <2>9, <1>0 DEF Paced, after
    <3> QED BY <3>6, <2>5 DEF BudgetInv
  <2> QED BY <2>1, <2>7, <2>8, <2>9 DEF BudgetInv, BudgetTypes
<1>9. CASE RptPeriod
  BY <1>2, <1>3, <1>9 DEF RptPeriod
<1> QED BY <1>1, <1>4, <1>5, <1>6, <1>7, <1>8, <1>9 DEF RptNext, RptMqtt

(* The device never publishes more than the budget it was granted times    *)
(* the number of contexts that publish, for the test and the decrement are *)
(* under separate holds of the lock (esp_rmaker_mqtt.c:111-126), and one   *)
(* message for each use of the budget without its lock                     *)
(* (esp_rmaker_mqtt_budget.c:32-39, 66-73).                                *)
THEOREM BudgetIsKept == RptSpec => []RptBudgetBound
<1>1. BudgetInv => RptBudgetBound
  <2> SUFFICES ASSUME BudgetInv PROVE rptPublished <= rptGranted * Contexts + rptMisses
    BY DEF RptBudgetBound, Contexts
  <2>1. /\ Paid \in Int /\ Contexts \in Nat /\ rptGranted * Contexts \in Int
        /\ rptPublished = Paid + Cardinality(Paying)
        /\ Cardinality(Paying) \in Nat /\ Cardinality(Holding) \in Nat
        /\ Cardinality(Paying) <= Cardinality(Holding) /\ Cardinality(Holding) <= Contexts
        /\ rptMisses \in Nat
    BY Counted, ContextsFinite DEF Paid, BudgetInv, BudgetTypes
  <2>2. CASE rptBudget = 0
    BY <2>1, <2>2 DEF BudgetInv, Paced
  <2>3. CASE rptBudget > 0
    <3> DEFINE g == (rptGranted - rptBudget) * Contexts
    <3>1. Paid <= g + rptMisses /\ g \in Int
      BY <2>1, <2>3 DEF BudgetInv, BudgetTypes, Paced
    <3>2. g + Contexts <= rptGranted * Contexts
      BY <2>1, <2>3, Unit DEF BudgetInv, BudgetTypes
    <3> HIDE DEF g
    <3> QED BY <2>1, <3>1, <3>2
  <2> QED BY <2>2, <2>3 DEF BudgetInv, BudgetTypes
<1> QED BY BudgetInit, BudgetStep, <1>1, PTL DEF RptSpec

-----------------------------------------------------------------------------
(* ParamReport: its types.                                                 *)
LEMMA RptTypesBegin == RptInit => RptTypeOK
BY RptAssumption DEF RptInit, RptTypeOK, RptNone

(* A call of a context.                                                    *)
LEMMA RptCallTypes ==
    ASSUME RptTypeOK, NEW c \in RptContexts, RptUpdate(c) \/ RptReport(c) \/ RptMqtt(c)
    PROVE  RptTypeOK'
<1>1. RptMaxBudget \in Nat /\ RptFirst \in RptValues /\ RptRevive \in Nat
  BY RptAssumption
<1>3. CASE \E v \in RptValues : RptStoreValue(c, v)
  BY <1>1, <1>3 DEF RptStoreValue, RptGo, RptTypeOK, rptParam, rptCount, rptAgent
<1>4. CASE RptSetFlag(c) \/ RptIfStarted(c)
  BY <1>4 DEF RptSetFlag, RptIfStarted, RptChanged, RptGo, RptTypeOK, rptParam, rptCount, rptAgent
<1>5. CASE RptWrite(c) \/ RptWriteAll(c)
  BY <1>5 DEF RptWrite, RptWriteAll, RptGo, RptTypeOK, rptParam, rptCount, rptAgent
<1>6. CASE RptResetFlag(c) \/ RptFirstReport(c) \/ RptLength(c)
  BY <1>6 DEF RptResetFlag, RptFirstReport, RptLength, RptGo, RptTypeOK, rptParam, rptCount, rptAgent
<1>7. CASE RptBudgetCheck(c) \/ RptPublish(c) \/ RptPublishFails(c)
  BY <1>7 DEF RptBudgetCheck, RptPublish, RptPublishFails, RptGo, RptTypeOK, rptParam, rptCount, rptAgent
<1>8. CASE RptSpend(c)
  <2>1. rptBudget' \in 0..RptMaxBudget
    BY <1>1, <1>8 DEF RptSpend, RptDecrease, RptTypeOK
  <2> QED BY <1>8, <2>1 DEF RptSpend, RptGo, RptTypeOK, rptParam, rptCount, rptAgent
<1> QED BY <1>3, <1>4, <1>5, <1>6, <1>7, <1>8 DEF RptUpdate, RptReport, RptMqtt

LEMMA RptTypesStep == RptTypeOK /\ [RptNext]_rptVars => RptTypeOK'
<1> SUFFICES ASSUME RptTypeOK, RptNext \/ UNCHANGED rptVars PROVE RptTypeOK'
  OBVIOUS
<1>1. CASE RptPeriod
  <2>1. rptBudget' \in 0..RptMaxBudget
    BY <1>1, RptAssumption DEF RptPeriod, RptIncrease, RptTypeOK
  <2> QED BY <1>1, <2>1 DEF RptPeriod, RptTypeOK, rptParam, rptAgent
<1>2. CASE UNCHANGED rptVars
  BY <1>2 DEF rptVars, rptParam, rptCount, rptAgent, RptTypeOK
<1>3. CASE RptStart
  BY <1>3 DEF RptStart, rptParam, RptTypeOK
<1> QED BY <1>1, <1>2, <1>3, RptCallTypes DEF RptNext

-----------------------------------------------------------------------------
(* Agent: the user of the flash is the user of the cloud.                  *)
(* Types: a message, an event and the mapping record.                      *)
Everyone == AgtUsers \cup {AgtResetUser, AgtNoUser}
Messages == [id : Nat \ {0}, user : Everyone, boot : Nat]
Events == [kind : {"published", "done", "reset"}, id : Nat]
Data == [user : Everyone, id : Nat, sent : BOOLEAN]
Published(e) == e.kind = "published"

AgentTypes ==
    /\ agtNet \in Seq(Messages) /\ agtEvents \in Seq(Events)
    /\ agtData \in Data
    /\ agtNextId \in Nat \ {0} /\ agtResets \in Nat

(* The mapping waits for the PUBACK of the last message only.              *)
Current == agtData.id # 0 => agtData.id = agtNextId - 1

(* Messages travel in the order they were sent; those of a former boot are *)
(* first.                                                                  *)
NetOrder ==
    \A i \in 1..Len(agtNet) :
        /\ agtNet[i].boot <= agtResets
        /\ agtNet[i].boot = agtResets =>
              /\ agtNet[i].id < agtNextId
              /\ \A j \in i + 1..Len(agtNet) : agtNet[j].boot = agtResets /\ agtNet[j].id > agtNet[i].id
              /\ agtData.id # 0 /\ agtNet[i].id = agtData.id => agtNet[i].user = agtData.user

(* A PUBACK is posted after the cloud has handled its message, with        *)
(* nothing older still on its way.                                         *)
Handled ==
    \A k \in 1..Len(agtEvents) : Published(agtEvents[k]) =>
        /\ agtEvents[k].id \in 1..agtNextId - 1
        /\ \A i \in 1..Len(agtNet) : agtNet[i].boot = agtResets /\ agtNet[i].id > agtEvents[k].id
        /\ agtEvents[k].id = agtData.id => agtCloud = agtData.user

(* What the flash says is what the cloud says, and nothing under way can   *)
(* change it.                                                              *)
Known ==
    agtNvs # AgtNoUser =>
        /\ agtCloud = agtNvs
        /\ \A i \in 1..Len(agtNet) : agtNet[i].user = agtNvs
        /\ agtData # AgtNoData => agtData.user = agtNvs

Underway == agtSending => agtData.id # 0

AgentInv == AgentTypes /\ Current /\ NetOrder /\ Handled /\ Known /\ Underway

(* An empty and a fresh mapping record are of their type.                  *)
LEMMA DataFits ==
    /\ AgtNoData \in Data /\ AgtNoData.id = 0
    /\ \A user \in AgtUsers \cup {AgtResetUser} : [user |-> user, id |-> 0, sent |-> FALSE] \in Data
BY DEF AgtNoData, Everyone, Data

(* The invariant holds at the first boot.                                  *)
LEMMA AgentInitInv == AgtInit => AgentInv
<1> SUFFICES ASSUME AgtInit PROVE AgentInv
  OBVIOUS
<1>1. agtNet = <<>> /\ agtEvents = <<>> /\ Len(agtNet) = 0 /\ Len(agtEvents) = 0
  BY EmptySeq DEF AgtInit
<1>2. AgentTypes
  <2>1. agtNet \in Seq(Messages) /\ agtEvents \in Seq(Events)
    BY <1>1, EmptySeq
  <2> QED BY <2>1, DataFits DEF AgtInit, AgentTypes
<1>3. agtData.id = 0 /\ agtNvs = AgtNoUser /\ ~agtSending
  BY DEF AgtInit, AgtNoData
<1>4. Current /\ Known /\ Underway
  BY <1>3 DEF Current, Known, Underway
<1>5. NetOrder /\ Handled
  BY <1>1 DEF NetOrder, Handled
<1> QED BY <1>2, <1>4, <1>5 DEF AgentInv

(* A restart keeps a prefix of the messages under way and drops the rest.  *)
LEMMA AgentRestartStep ==
    ASSUME AgentInv, AgtRestart
    PROVE  AgentInv'
<1>1. /\ agtResets' = agtResets + 1 /\ agtData' = AgtNoData /\ agtSending' = FALSE
      /\ agtEvents' = <<>> /\ agtNextId' = 1 /\ agtNvs' = agtNvs /\ agtCloud' = agtCloud
  BY DEF AgtRestart
<1>2. PICK n \in 0..Len(agtNet) : agtNet' = SubSeq(agtNet, 1, n)
  BY DEF AgtRestart
<1>3. /\ agtNet \in Seq(Messages) /\ Len(agtNet) \in Nat /\ agtResets \in Nat
      /\ \A i \in 1..Len(agtNet) : agtNet[i] \in Messages
  BY LenProperties DEF AgentInv, AgentTypes
<1>4. /\ agtNet' \in Seq(Messages) /\ Len(agtNet') = n
      /\ \A i \in 1..n : agtNet'[i] = agtNet[i]
  <2>1. n \in Int /\ \A i \in 1..n : agtNet[i] \in Messages
    BY <1>3
  <2>2. /\ SubSeq(agtNet, 1, n) \in Seq(Messages)
        /\ Len(SubSeq(agtNet, 1, n)) = IF 1 <= n THEN n - 1 + 1 ELSE 0
        /\ \A i \in 1..n - 1 + 1 : SubSeq(agtNet, 1, n)[i] = agtNet[1 + i - 1]
    BY <2>1, SubSeqProperties
  <2> QED BY <1>2, <1>3, <2>2
<1>5. AgentTypes'
  <2>1. agtEvents' \in Seq(Events)
    BY <1>1, EmptySeq
  <2> QED BY <2>1, <1>1, <1>3, <1>4, DataFits DEF AgentTypes
<1>6. Len(agtEvents') = 0 /\ agtData'.id = 0
  BY <1>1, EmptySeq DEF AgtNoData
<1>7. NetOrder'
  <2>1. \A i \in 1..n : i \in 1..Len(agtNet)
    BY <1>3
  <2>2. \A i \in 1..n : agtNet[i].boot \in Nat /\ agtNet[i].boot <= agtResets
    BY <1>3, <2>1 DEF AgentInv, NetOrder, Messages
  <2>3. \A i \in 1..n : agtNet'[i].boot <= agtResets' /\ agtNet'[i].boot # agtResets'
    BY <2>2, <1>1, <1>3, <1>4
  <2> QED BY <2>3, <1>4 DEF NetOrder
<1>8. Known'
  BY <1>1, <1>3, <1>4 DEF AgentInv, Known
<1>9. Current' /\ Handled' /\ Underway'
  BY <1>1, <1>6 DEF Current, Handled, Underway
<1> QED BY <1>5, <1>7, <1>8, <1>9 DEF AgentInv

(* Steps that neither send, nor handle a message, nor acknowledge one.     *)
LEMMA AgentStartStep ==
    ASSUME AgentInv, NEW user \in AgtUsers \cup {AgtResetUser}, NEW upset, AgtStart(user, upset),
           UNCHANGED <<agtSending, agtEvents, agtNextId, agtNet, agtCloud, agtResets>>
    PROVE  AgentInv'
<1>1. /\ ~agtSending
      /\ agtData' \in {[user |-> user, id |-> 0, sent |-> FALSE], AgtNoData}
  BY DEF AgtStart
<1>2. agtData'.id = 0
  BY <1>1 DEF AgtNoData
<1>3. AgentTypes'
  <2>1. agtData' \in Data
    BY <1>1, DataFits
  <2> QED BY <2>1 DEF AgentInv, AgentTypes
<1>4. Current' /\ Underway'
  BY <1>1, <1>2 DEF Current, Underway
<1>5. NetOrder'
  BY <1>2 DEF AgentInv, NetOrder
<1>6. Handled'
  <2> SUFFICES ASSUME NEW k \in 1..Len(agtEvents), Published(agtEvents[k])
               PROVE  /\ agtEvents[k].id \in 1..agtNextId - 1
                      /\ \A i \in 1..Len(agtNet) :
                            agtNet[i].boot = agtResets /\ agtNet[i].id > agtEvents[k].id
                      /\ agtEvents[k].id # 0
    BY <1>2 DEF Handled
  <2> QED BY DEF AgentInv, AgentTypes, Handled
<1>7. Known'
  <2>1. CASE agtNvs = user
    BY <1>1, <2>1 DEF AgtStart, AgtKept, AgentInv, Known
  <2>2. CASE agtNvs # user
    BY <2>2 DEF AgtStart, AgtKept, Known
  <2> QED BY <2>1, <2>2
<1> QED BY <1>3, <1>4, <1>5, <1>6, <1>7 DEF AgentInv

LEMMA AgentRestStep ==
    ASSUME AgentInv,
           UNCHANGED <<agtSending, agtEvents, agtNextId, agtNet, agtCloud, agtResets, agtData, agtNvs>>
    PROVE  AgentInv'
BY DEF AgentInv, AgentTypes, Current, NetOrder, Handled, Known, Underway

LEMMA AgentSendStep ==
    ASSUME AgentInv, AgtSend
    PROVE  AgentInv'
<1>1. UNCHANGED <<agtEvents, agtNvs, agtCloud, agtResets>> /\ ~agtSending
  BY DEF AgtSend
<1>2. CASE UNCHANGED <<agtData, agtSending, agtNextId, agtNet>>
  BY <1>1, <1>2, AgentRestStep
<1>3. CASE /\ agtData' = [agtData EXCEPT !.id = agtNextId]
           /\ agtNet' = Append(agtNet, [id |-> agtNextId, user |-> agtData.user, boot |-> agtResets])
           /\ agtNextId' = agtNextId + 1
           /\ agtSending' = TRUE
           /\ agtData # AgtNoData
  <2> DEFINE msg == [id |-> agtNextId, user |-> agtData.user, boot |-> agtResets]
             n == Len(agtNet)
  <2>1. /\ msg \in Messages /\ agtNet \in Seq(Messages) /\ n \in Nat
        /\ \A i \in 1..n : agtNet[i] \in Messages
        /\ \A k \in 1..Len(agtEvents) : agtEvents[k] \in Events
    BY LenProperties DEF AgentInv, AgentTypes, Messages, Data
  <2>2. /\ agtNet' \in Seq(Messages) /\ Len(agtNet') = n + 1
        /\ \A i \in 1..n : agtNet'[i] = agtNet[i]
        /\ agtNet'[n + 1] = msg
    BY <1>3, <2>1, AppendProperties
  <2>3. /\ agtData'.id = agtNextId /\ agtData'.user = agtData.user
        /\ agtNextId \in Nat \ {0} /\ agtResets \in Nat
    BY <1>3 DEF AgentInv, AgentTypes, Data
  <2>4. AgentTypes'
    <3>1. agtData' \in Data
      BY <1>3, <2>3 DEF AgentInv, AgentTypes, Data
    <3>2. agtNextId' \in Nat \ {0}
      BY <1>3, <2>3
    <3> QED BY <3>1, <3>2, <1>1, <2>2 DEF AgentInv, AgentTypes
  <2>5. Current' /\ Underway'
    BY <1>3, <2>3 DEF Current, Underway
  <2>6. NetOrder'
    <3> SUFFICES ASSUME NEW i \in 1..n + 1
                 PROVE  /\ agtNet'[i].boot <= agtResets
                        /\ agtNet'[i].boot = agtResets =>
                              /\ agtNet'[i].id < agtNextId + 1
                              /\ \A j \in i + 1..n + 1 :
                                    agtNet'[j].boot = agtResets /\ agtNet'[j].id > agtNet'[i].id
                              /\ agtNet'[i].id = agtNextId => agtNet'[i].user = agtData.user
      BY <1>1, <1>3, <2>2, <2>3 DEF NetOrder
    <3>1. CASE i = n + 1
      <4>1. agtNet'[i] = msg
        BY <3>1, <2>2
      <4>2. ~ \E j \in i + 1..n + 1 : TRUE
        BY <3>1, <2>1
      <4> QED BY <4>1, <4>2, <2>3
    <3>2. CASE i # n + 1
      <4>1. i \in 1..n /\ agtNet'[i] = agtNet[i] /\ agtNet[i] \in Messages
        BY <3>2, <2>1, <2>2
      <4>2. /\ agtNet[i].boot <= agtResets
            /\ agtNet[i].boot = agtResets =>
                  /\ agtNet[i].id < agtNextId
                  /\ \A j \in i + 1..n : agtNet[j].boot = agtResets /\ agtNet[j].id > agtNet[i].id
        BY <4>1 DEF AgentInv, NetOrder
      <4>3. agtNet[i].id \in Nat
        BY <4>1 DEF Messages
      <4>4. ASSUME agtNet[i].boot = agtResets, NEW j \in i + 1..n + 1
            PROVE  agtNet'[j].boot = agtResets /\ agtNet'[j].id > agtNet[i].id
        <5>1. CASE j = n + 1
          <6>1. agtNet'[j] = msg
            BY <5>1, <2>2
          <6> QED BY <6>1, <4>2, <4>3, <4>4, <2>3
        <5>2. CASE j # n + 1
          <6>1. j \in i + 1..n /\ agtNet'[j] = agtNet[j]
            BY <5>2, <2>1, <2>2
          <6> QED BY <6>1, <4>2, <4>4
        <5> QED BY <5>1, <5>2
      <4> QED BY <4>1, <4>2, <4>3, <4>4, <2>3
    <3> QED BY <3>1, <3>2
  <2>7. Handled'
    <3> SUFFICES ASSUME NEW k \in 1..Len(agtEvents), Published(agtEvents[k])
                 PROVE  /\ agtEvents[k].id \in 1..agtNextId
                        /\ \A i \in 1..n + 1 :
                              agtNet'[i].boot = agtResets /\ agtNet'[i].id > agtEvents[k].id
                        /\ agtEvents[k].id # agtNextId
      BY <1>1, <1>3, <2>2, <2>3 DEF Handled
    <3>1. /\ agtEvents[k].id \in 1..agtNextId - 1
          /\ \A i \in 1..n : agtNet[i].boot = agtResets /\ agtNet[i].id > agtEvents[k].id
      BY DEF AgentInv, Handled
    <3>2. agtEvents[k].id \in Nat /\ agtEvents[k].id < agtNextId
      BY <3>1, <2>3
    <3>3. ASSUME NEW i \in 1..n + 1
          PROVE  agtNet'[i].boot = agtResets /\ agtNet'[i].id > agtEvents[k].id
      <4>1. CASE i = n + 1
        BY <4>1, <2>2, <2>3, <3>2
      <4>2. CASE i # n + 1
        <5>1. i \in 1..n
          BY <4>2, <2>1
        <5> QED BY <5>1, <2>2, <3>1
      <4> QED BY <4>1, <4>2
    <3> QED BY <3>1, <3>2, <3>3, <2>3
  <2>8. Known'
    <3> SUFFICES ASSUME agtNvs # AgtNoUser
                 PROVE  /\ agtCloud = agtNvs
                        /\ \A i \in 1..n + 1 : agtNet'[i].user = agtNvs
                        /\ agtData'.user = agtNvs
      BY <1>1, <2>2 DEF Known
    <3>1. /\ agtCloud = agtNvs /\ agtData.user = agtNvs
          /\ \A i \in 1..n : agtNet[i].user = agtNvs
      BY <1>3 DEF AgentInv, Known
    <3>2. ASSUME NEW i \in 1..n + 1
          PROVE  agtNet'[i].user = agtNvs
      <4>1. CASE i = n + 1
        BY <4>1, <2>2, <3>1
      <4>2. CASE i # n + 1
        <5>1. i \in 1..n
          BY <4>2, <2>1
        <5> QED BY <5>1, <2>2, <3>1
      <4> QED BY <4>1, <4>2
    <3> QED BY <3>1, <3>2, <2>3
  <2> QED BY <2>4, <2>5, <2>6, <2>7, <2>8 DEF AgentInv
<1> QED BY <1>2, <1>3 DEF AgtSend

(* A publish that returns notes that the message is sent.                  *)
LEMMA AgentSentStep ==
    ASSUME AgentInv, AgtSent
    PROVE  AgentInv'
<1>1. /\ agtSending /\ agtSending' = FALSE
      /\ agtData' = [agtData EXCEPT !.sent = TRUE]
      /\ UNCHANGED <<agtEvents, agtNextId, agtNet, agtCloud, agtResets, agtNvs>>
  BY DEF AgtSent, agtRest
<1>2. agtData'.id = agtData.id /\ agtData'.user = agtData.user /\ agtData # AgtNoData
  BY <1>1 DEF AgentInv, AgentTypes, Underway, AgtNoData, Data
<1>3. AgentTypes'
  <2>1. agtData' \in Data
    BY <1>1 DEF AgentInv, AgentTypes, Data
  <2> QED BY <2>1, <1>1 DEF AgentInv, AgentTypes
<1>4. Current' /\ Underway'
  BY <1>1, <1>2 DEF AgentInv, Current, Underway
<1>5. NetOrder'
  BY <1>1, <1>2 DEF AgentInv, NetOrder
<1>6. Handled'
  BY <1>1, <1>2 DEF AgentInv, Handled
<1>7. Known'
  BY <1>1, <1>2 DEF AgentInv, Known
<1> QED BY <1>3, <1>4, <1>5, <1>6, <1>7 DEF AgentInv

(* The cloud handles the oldest message and acknowledges it.               *)
LEMMA AgentCloudStep ==
    ASSUME AgentInv, AgtCloudHandles
    PROVE  AgentInv'
<1> DEFINE m == Head(agtNet)
           n == Len(agtNet)
           e == [kind |-> "published", id |-> m.id]
<1>1. /\ agtNet # <<>> /\ agtCloud' = m.user /\ agtNet' = Tail(agtNet)
      /\ UNCHANGED <<agtSending, agtData, agtNextId, agtResets, agtNvs>>
  BY DEF AgtCloudHandles
<1>2. /\ agtNet \in Seq(Messages) /\ n \in Nat \ {0} /\ agtEvents \in Seq(Events)
      /\ \A i \in 1..n : agtNet[i] \in Messages
      /\ Len(agtEvents) \in Nat /\ \A k \in 1..Len(agtEvents) : agtEvents[k] \in Events
  BY <1>1, LenProperties, EmptySeq DEF AgentInv, AgentTypes
<1>3. /\ m = agtNet[1] /\ m \in Messages /\ agtNet' \in Seq(Messages) /\ Len(agtNet') = n - 1
      /\ \A i \in 1..n - 1 : agtNet'[i] = agtNet[i + 1]
  BY <1>1, <1>2, HeadTailProperties
<1>4. e \in Events
  BY <1>3 DEF Events, Messages
<1>5. agtEvents' = IF m.boot = agtResets THEN Append(agtEvents, e) ELSE agtEvents
  BY DEF AgtCloudHandles
<1>6. /\ agtEvents' \in Seq(Events)
      /\ Append(agtEvents, e) \in Seq(Events)
      /\ Len(Append(agtEvents, e)) = Len(agtEvents) + 1
      /\ \A k \in 1..Len(agtEvents) : Append(agtEvents, e)[k] = agtEvents[k]
      /\ Append(agtEvents, e)[Len(agtEvents) + 1] = e
  BY <1>2, <1>4, <1>5, AppendProperties
<1> HIDE DEF m, n, e
<1>7. AgentTypes'
  BY <1>1, <1>3, <1>6 DEF AgentInv, AgentTypes
<1>8. Current' /\ Underway'
  BY <1>1 DEF AgentInv, Current, Underway
<1>9. NetOrder'
  <2> SUFFICES ASSUME NEW i \in 1..n - 1
               PROVE  /\ agtNet[i + 1].boot <= agtResets
                      /\ agtNet[i + 1].boot = agtResets =>
                            /\ agtNet[i + 1].id < agtNextId
                            /\ \A j \in i + 1..n - 1 :
                                  agtNet[j + 1].boot = agtResets /\ agtNet[j + 1].id > agtNet[i + 1].id
                            /\ agtData.id # 0 /\ agtNet[i + 1].id = agtData.id =>
                                  agtNet[i + 1].user = agtData.user
    <3>1. \A i \in 1..n - 1 : \A j \in i + 1..n - 1 : j \in 1..n - 1
      BY <1>2
    <3>2. \A i \in 1..n - 1 : /\ agtNet'[i] = agtNet[i + 1]
                              /\ \A j \in i + 1..n - 1 : agtNet'[j] = agtNet[j + 1]
      BY <3>1, <1>3
    <3>3. Len(agtNet') = n - 1
      BY <1>3
    <3> HIDE DEF AgentInv
    <3> QED BY <3>2, <3>3, <1>1 DEF NetOrder
  <2>1. i + 1 \in 1..n /\ \A j \in i + 1..n - 1 : j + 1 \in (i + 1) + 1..n
    BY <1>2
  <2> QED BY <2>1 DEF AgentInv, NetOrder, n
<1>10. Handled'
  <2>1. ASSUME NEW k \in 1..Len(agtEvents), Published(agtEvents[k])
        PROVE  /\ agtEvents[k].id \in 1..agtNextId - 1
               /\ \A i \in 1..n - 1 :
                     agtNet'[i].boot = agtResets /\ agtNet'[i].id > agtEvents[k].id
               /\ agtEvents[k].id # agtData.id
    <3>1. /\ agtEvents[k].id \in 1..agtNextId - 1
          /\ \A i \in 1..n : agtNet[i].boot = agtResets /\ agtNet[i].id > agtEvents[k].id
      BY <2>1 DEF AgentInv, Handled, n
    <3>2. m.boot = agtResets /\ m.id > agtEvents[k].id
      <4>1. 1 \in 1..n /\ m = agtNet[1]
        BY <1>2, <1>3
      <4> QED BY <3>1, <4>1
    <3>3. m.id < agtNextId /\ m.id \in Nat
      BY <3>2, <1>2, <1>3 DEF AgentInv, NetOrder, n, Messages
    <3>4. agtEvents[k].id # agtData.id
      BY <3>1, <3>2, <3>3 DEF AgentInv, AgentTypes, Current, Data
    <3>5. \A i \in 1..n - 1 : i + 1 \in 1..n
      BY <1>2
    <3> QED BY <3>1, <3>4, <3>5, <1>3
  <2>2. CASE m.boot # agtResets
    <3>1. agtEvents' = agtEvents
      BY <2>2, <1>5
    <3> QED BY <3>1, <2>1, <1>1, <1>3 DEF Handled
  <2>3. CASE m.boot = agtResets
    <3>1. agtEvents' = Append(agtEvents, e)
      BY <2>3, <1>5
    <3>2. /\ m.id < agtNextId
          /\ \A j \in 2..n : agtNet[j].boot = agtResets /\ agtNet[j].id > m.id
          /\ agtData.id # 0 /\ m.id = agtData.id => m.user = agtData.user
      BY <2>3, <1>2, <1>3 DEF AgentInv, NetOrder, n
    <3>3. e.id = m.id /\ m.id \in Nat \ {0} /\ agtNextId \in Nat
      BY <1>3 DEF e, Messages, AgentInv, AgentTypes
    <3> SUFFICES ASSUME NEW k \in 1..Len(agtEvents) + 1, Published(agtEvents'[k])
                 PROVE  /\ agtEvents'[k].id \in 1..agtNextId - 1
                        /\ \A i \in 1..n - 1 :
                              agtNet'[i].boot = agtResets /\ agtNet'[i].id > agtEvents'[k].id
                        /\ agtEvents'[k].id = agtData.id => m.user = agtData.user
      BY <3>1, <1>1, <1>3, <1>6 DEF Handled
    <3>4. CASE k = Len(agtEvents) + 1
      <4>1. agtEvents'[k] = e
        BY <3>4, <3>1, <1>6
      <4>2. \A i \in 1..n - 1 : i + 1 \in 2..n
        BY <1>2
      <4>3. m.id \in 1..agtNextId - 1
        BY <3>2, <3>3
      <4> HIDE DEF e
      <4> QED BY <4>1, <4>2, <4>3, <3>2, <3>3, <1>3
    <3>5. CASE k # Len(agtEvents) + 1
      <4>1. k \in 1..Len(agtEvents) /\ agtEvents'[k] = agtEvents[k]
        BY <3>5, <3>1, <1>2, <1>6
      <4> QED BY <4>1, <2>1
    <3> QED BY <3>4, <3>5
  <2> QED BY <2>2, <2>3
<1>11. Known'
  <2> SUFFICES ASSUME agtNvs # AgtNoUser
               PROVE  /\ m.user = agtNvs
                      /\ \A i \in 1..n - 1 : agtNet'[i].user = agtNvs
                      /\ agtData # AgtNoData => agtData.user = agtNvs
    BY <1>1, <1>3 DEF Known
  <2>1. \A i \in 1..n : agtNet[i].user = agtNvs
    BY DEF AgentInv, Known, n
  <2>2. 1 \in 1..n /\ \A i \in 1..n - 1 : i + 1 \in 1..n
    BY <1>2
  <2> QED BY <2>1, <2>2, <1>3 DEF AgentInv, Known
<1> QED BY <1>7, <1>8, <1>9, <1>10, <1>11 DEF AgentInv

(* The PUBACK of the mapping's message stores the user in the flash.       *)
LEMMA AgentPublishedStep ==
    ASSUME AgentInv, AgtPublished
    PROVE  AgentInv'
<1> DEFINE e == Head(agtEvents)
           tail == Tail(agtEvents)
<1>1. /\ agtEvents # <<>> /\ Published(e)
      /\ UNCHANGED <<agtSending, agtNextId, agtNet, agtCloud, agtResets>>
  BY DEF AgtPublished, Published
<1>2. /\ agtEvents \in Seq(Events) /\ Len(agtEvents) \in Nat \ {0}
      /\ \A k \in 1..Len(agtEvents) : agtEvents[k] \in Events
  BY <1>1, LenProperties, EmptySeq DEF AgentInv, AgentTypes
<1>3. /\ e = agtEvents[1] /\ tail \in Seq(Events) /\ Len(tail) = Len(agtEvents) - 1
      /\ \A k \in 1..Len(tail) : tail[k] = agtEvents[k + 1] /\ k + 1 \in 1..Len(agtEvents)
  BY <1>1, <1>2, HeadTailProperties
<1>4. /\ e.id \in 1..agtNextId - 1
      /\ \A i \in 1..Len(agtNet) : agtNet[i].boot = agtResets /\ agtNet[i].id > e.id
      /\ e.id = agtData.id => agtCloud = agtData.user
  <2>1. 1 \in 1..Len(agtEvents)
    BY <1>2
  <2> QED BY <2>1, <1>1, <1>3 DEF AgentInv, Handled
<1> HIDE DEF e, tail
<1>5. CASE UNCHANGED <<agtData, agtNvs>> /\ agtEvents' = tail
  <2>1. AgentTypes'
    BY <1>1, <1>3, <1>5 DEF AgentInv, AgentTypes
  <2>2. Current' /\ NetOrder' /\ Known' /\ Underway'
    BY <1>1, <1>5 DEF AgentInv, Current, NetOrder, Known, Underway
  <2>3. Handled'
    BY <1>1, <1>3, <1>5 DEF AgentInv, Handled
  <2> QED BY <2>1, <2>2, <2>3 DEF AgentInv
<1>6. CASE /\ ~agtSending /\ AgtMine(e.id)
           /\ agtEvents' = Append(tail, [kind |-> agtState', id |-> 0])
           /\ agtState' \in {"reset", "done"}
           /\ agtNvs' = agtData.user /\ agtData' = AgtNoData
  <2> DEFINE f == [kind |-> agtState', id |-> 0]
  <2>1. f \in Events /\ ~Published(f)
    BY <1>6 DEF Events, Published
  <2>2. /\ agtEvents' \in Seq(Events) /\ Len(agtEvents') = Len(tail) + 1
        /\ \A k \in 1..Len(tail) : agtEvents'[k] = tail[k]
        /\ agtEvents'[Len(tail) + 1] = f
    BY <1>3, <1>6, <2>1, AppendProperties
  <2> HIDE DEF f
  <2>3. agtData.id = e.id /\ agtData.id = agtNextId - 1 /\ agtData.id # 0
    BY <1>4, <1>6 DEF AgtMine, AgentInv, AgentTypes, Current
  <2>4. Len(agtNet) \in Nat /\ \A i \in 1..Len(agtNet) : agtNet[i] \in Messages
    BY LenProperties DEF AgentInv, AgentTypes
  <2>5. \A i \in 1..Len(agtNet) : FALSE
    <3> SUFFICES ASSUME NEW i \in 1..Len(agtNet) PROVE FALSE
      OBVIOUS
    <3>1. agtNet[i].boot = agtResets /\ agtNet[i].id > agtNextId - 1
      BY <1>4, <2>3
    <3>2. agtNet[i].id < agtNextId
      BY <3>1 DEF AgentInv, NetOrder
    <3> QED BY <3>1, <3>2, <2>4 DEF Messages, AgentInv, AgentTypes
  <2>6. AgentTypes'
    BY <1>1, <1>6, <2>2, DataFits DEF AgentInv, AgentTypes
  <2>7. agtData'.id = 0 /\ agtData' = AgtNoData
    BY <1>6, DataFits
  <2>8. Current' /\ Underway'
    BY <1>1, <1>6, <2>7 DEF Current, Underway
  <2>9. NetOrder'
    BY <1>1, <2>5 DEF NetOrder
  <2>10. Known'
    BY <1>1, <1>4, <1>6, <2>3, <2>5, <2>7 DEF Known
  <2>11. Handled'
    <3> SUFFICES ASSUME NEW k \in 1..Len(tail) + 1, Published(agtEvents'[k])
                 PROVE  /\ agtEvents'[k].id \in 1..agtNextId - 1
                        /\ agtEvents'[k].id # 0
      BY <1>1, <2>2, <2>5, <2>7 DEF Handled
    <3>1. k # Len(tail) + 1
      BY <2>1, <2>2
    <3>2. k \in 1..Len(tail) /\ k + 1 \in 1..Len(agtEvents)
      BY <3>1, <1>2, <1>3
    <3>3. agtEvents'[k] = agtEvents[k + 1]
      BY <3>2, <1>3, <2>2
    <3>4. agtEvents'[k].id \in 1..agtNextId - 1
      BY <3>2, <3>3 DEF AgentInv, Handled
    <3> QED BY <3>4 DEF AgentInv, AgentTypes
  <2> QED BY <2>6, <2>8, <2>9, <2>10, <2>11 DEF AgentInv
<1> QED BY <1>5, <1>6 DEF AgtPublished, e, tail

(* The event of a mapping done or reset is consumed.                       *)
LEMMA AgentMappedStep ==
    ASSUME AgentInv, AgtMapped
    PROVE  AgentInv'
<1>1. /\ agtEvents # <<>> /\ agtEvents' = Tail(agtEvents)
      /\ UNCHANGED <<agtSending, agtNextId, agtNet, agtCloud, agtResets, agtData, agtNvs>>
  BY DEF AgtMapped, agtRest
<1>2. agtEvents \in Seq(Events) /\ Len(agtEvents) \in Nat
  BY LenProperties DEF AgentInv, AgentTypes
<1>3. /\ agtEvents' \in Seq(Events) /\ Len(agtEvents') = Len(agtEvents) - 1
      /\ \A k \in 1..Len(agtEvents') : /\ agtEvents'[k] = agtEvents[k + 1]
                                       /\ k + 1 \in 1..Len(agtEvents)
  BY <1>1, <1>2, HeadTailProperties
<1>4. AgentTypes'
  BY <1>1, <1>3 DEF AgentInv, AgentTypes
<1>5. Current' /\ NetOrder' /\ Known' /\ Underway'
  BY <1>1 DEF AgentInv, Current, NetOrder, Known, Underway
<1>6. Handled'
  BY <1>1, <1>3 DEF AgentInv, Handled
<1> QED BY <1>4, <1>5, <1>6 DEF AgentInv

(* Every step preserves the invariant.                                     *)
LEMMA AgentStep ==
    ASSUME AgentInv, [AgtNext]_agtVars
    PROVE  AgentInv'
<1>1. CASE AgtRestart
  BY <1>1, AgentRestartStep
<1>2. CASE AgtAsk
  <2>1. PICK user \in AgtUsers \cup {AgtResetUser} : AgtStart(user, user = AgtResetUser)
    BY <1>2 DEF AgtAsk
  <2>2. UNCHANGED <<agtSending, agtEvents, agtNextId, agtNet, agtCloud, agtResets>>
    BY <1>2 DEF AgtAsk
  <2> QED BY <2>1, <2>2, AgentStartStep
<1>3. CASE AgtConnect \/ AgtCheck \/ UNCHANGED agtVars
  <2>1. UNCHANGED <<agtSending, agtEvents, agtNextId, agtNet, agtCloud, agtResets, agtData, agtNvs>>
    BY <1>3 DEF AgtConnect, AgtCheck, agtVars, agtRam, agtRest
  <2> QED BY <2>1, AgentRestStep
<1>4. CASE AgtWait
  <2>1. UNCHANGED <<agtSending, agtEvents, agtNextId, agtNet, agtCloud, agtResets>>
    BY <1>4 DEF AgtWait
  <2>2. CASE agtState = "started"
    BY <1>4, <2>1, <2>2, AgentRestStep DEF AgtWait
  <2>3. CASE agtState # "started"
    BY <1>4, <2>1, <2>3, AgentStartStep DEF AgtWait
  <2> QED BY <2>2, <2>3
<1>5. CASE AgtSend \/ AgtSent \/ AgtCloudHandles \/ AgtPublished \/ AgtMapped
  BY <1>5, AgentSendStep, AgentSentStep, AgentCloudStep, AgentPublishedStep, AgentMappedStep
<1> QED BY <1>1, <1>2, <1>3, <1>4, <1>5 DEF AgtNext, AgtTask, AgtEvent

(* The same without fairness, which safety does not need.                  *)
LEMMA AgentSafe == AgtInit /\ [][AgtNext]_agtVars => []AgtKnownUser
<1>1. AgentInv => AgtKnownUser
  BY DEF AgentInv, Known, AgtKnownUser
<1> QED BY AgentInitInv, AgentStep, <1>1, PTL

(* A user id in the flash is the user the cloud maps the node to           *)
(* (esp_rmaker_user_mapping.c:71-302): a mapping erases the old id before  *)
(* it starts and stores the new one only on its PUBACK.                    *)
THEOREM UserIsKnown == AgtSpec => []AgtKnownUser
BY AgentSafe, PTL DEF AgtSpec

-----------------------------------------------------------------------------
(* Agent: its types, beside those of the messages that AgentInv holds.     *)
AgtTypes == AgentInv /\ AgtTypeOK

LEMMA AgtTypesBegin == AgtInit => AgtTypes
<1> SUFFICES ASSUME AgtInit PROVE AgtTypes
  OBVIOUS
<1>1. /\ agtData.user = AgtNoUser /\ agtNvs = AgtNoUser /\ agtCloud = AgtNoUser
      /\ agtState = "reset" /\ agtNextId = 1
  BY DEF AgtInit, AgtMappingAtBoot, AgtNoData
<1>2. 1 \in 1..AgtMaxId + 1
  BY AgtAssumption
<1>3. AgtTypeOK
  BY <1>1, <1>2 DEF AgtInit, AgtTypeOK
<1> QED BY <1>3, AgentInitInv DEF AgtTypes

(* What a mapping that starts leaves in NVS and in the state.              *)
LEMMA AgtStartTypes ==
    ASSUME AgtTypes, NEW user \in AgtUsers \cup {AgtResetUser}, NEW upset \in BOOLEAN,
           AgtStart(user, upset)
    PROVE  /\ agtQueue' \in Nat /\ agtState' \in {"reset", "started", "req_sent", "done"}
           /\ agtNvs' \in Everyone /\ agtUpset' \in BOOLEAN
<1>1. agtQueue \in Nat /\ agtNvs \in Everyone /\ agtUpset \in BOOLEAN
  BY DEF AgtTypes, AgtTypeOK, Everyone
<1>2. agtNvs' \in Everyone
  BY <1>1 DEF AgtStart, AgtKept, Everyone
<1>3. agtState' \in {"reset", "started", "req_sent", "done"}
  BY DEF AgtStart
<1>4. CASE agtQueue' = agtQueue + 1 /\ agtUpset' = (agtUpset \/ upset \/ agtData # AgtNoData)
  BY <1>1, <1>2, <1>3, <1>4
<1>5. CASE agtUpset' = TRUE /\ UNCHANGED agtQueue
  BY <1>1, <1>2, <1>3, <1>5
<1> QED BY <1>4, <1>5 DEF AgtStart

LEMMA AgtTypesStep == AgtTypes /\ [AgtNext]_agtVars => AgtTypes'
<1> SUFFICES ASSUME AgtTypes, AgtNext \/ UNCHANGED agtVars PROVE AgtTypes'
  OBVIOUS
<1>1. AgentInv /\ AgentInv'
  BY AgentStep DEF AgtTypes
<1>2. agtData \in Data /\ agtData' \in Data /\ agtEvents \in Seq(Events) /\ agtNet \in Seq(Messages)
  BY <1>1 DEF AgentInv, AgentTypes
<1>3. agtData.user \in Everyone /\ agtData'.user \in Everyone
  BY <1>2 DEF Data
<1>4. /\ agtPc \in {"connect", "check", "else", "over", "aborted"} /\ agtQueue \in Nat
      /\ agtState \in {"reset", "started", "req_sent", "done"}
      /\ agtNvs \in Everyone /\ agtCloud \in Everyone
      /\ agtAwaits \subseteq {"done", "reset"} /\ agtNextId \in 1..AgtMaxId + 1
      /\ agtSending \in BOOLEAN /\ agtListens \in BOOLEAN /\ agtReady \in BOOLEAN
      /\ agtUpset \in BOOLEAN
  BY DEF AgtTypes, AgtTypeOK, Everyone
<1>5. SUFFICES
      /\ agtPc' \in {"connect", "check", "else", "over", "aborted"} /\ agtQueue' \in Nat
      /\ agtState' \in {"reset", "started", "req_sent", "done"}
      /\ agtNvs' \in Everyone /\ agtCloud' \in Everyone
      /\ agtAwaits' \subseteq {"done", "reset"} /\ agtNextId' \in 1..AgtMaxId + 1
      /\ agtSending' \in BOOLEAN /\ agtListens' \in BOOLEAN /\ agtReady' \in BOOLEAN
      /\ agtUpset' \in BOOLEAN
  BY <1>1, <1>3 DEF AgtTypes, AgtTypeOK, Everyone
<1>6. CASE AgtRestart
  <2>1. agtState' \in {"reset", "done"} /\ 1 \in 1..AgtMaxId + 1
    BY <1>6, AgtAssumption DEF AgtRestart, AgtMappingAtBoot
  <2> QED BY <1>4, <1>6, <2>1 DEF AgtRestart
<1>7. CASE AgtAsk
  <2>1. PICK user \in AgtUsers \cup {AgtResetUser} : AgtStart(user, user = AgtResetUser)
    BY <1>7 DEF AgtAsk
  <2>2. (user = AgtResetUser) \in BOOLEAN
    OBVIOUS
  <2>3. /\ agtQueue' \in Nat /\ agtState' \in {"reset", "started", "req_sent", "done"}
        /\ agtNvs' \in Everyone /\ agtUpset' \in BOOLEAN
    BY <2>1, <2>2, AgtStartTypes
  <2> QED BY <1>4, <1>7, <2>3 DEF AgtAsk
<1>8. CASE AgtConnect
  BY <1>4, <1>8 DEF AgtConnect, agtRest
<1>9. CASE AgtCheck
  BY <1>4, <1>9 DEF AgtCheck, AgtParamsInit, agtRest
<1>10. CASE AgtWait
  <2>1. /\ agtQueue' \in Nat /\ agtState' \in {"reset", "started", "req_sent", "done"}
        /\ agtNvs' \in Everyone /\ agtUpset' \in BOOLEAN
    <3>1. CASE agtState = "started"
      BY <1>4, <1>10, <3>1 DEF AgtWait
    <3>2. CASE agtState # "started"
      BY <1>10, <3>2, AgtStartTypes DEF AgtWait
    <3> QED BY <3>1, <3>2
  <2>2. agtAwaits' \subseteq {"done", "reset"}
    BY <1>10 DEF AgtWait, AgtAwaited
  <2> QED BY <1>4, <1>10, <2>1, <2>2 DEF AgtWait
<1>11. CASE AgtSend
  <2>1. agtQueue' \in Nat
    BY <1>4, <1>11 DEF AgtSend
  <2>2. agtNextId' \in 1..AgtMaxId + 1
    BY <1>4, <1>11, AgtAssumption DEF AgtSend
  <2>3. agtSending' \in BOOLEAN /\ agtListens' \in BOOLEAN /\ agtUpset' \in BOOLEAN
    BY <1>4, <1>11 DEF AgtSend
  <2> QED BY <1>4, <1>11, <2>1, <2>2, <2>3 DEF AgtSend
<1>12. CASE AgtSent
  BY <1>4, <1>12 DEF AgtSent, agtRest
<1>13. CASE AgtCloudHandles
  <2>1. Head(agtNet) \in Messages
    BY <1>2, <1>13, HeadTailProperties DEF AgtCloudHandles
  <2>2. agtCloud' \in Everyone
    BY <1>13, <2>1 DEF AgtCloudHandles, Messages
  <2> QED BY <1>4, <1>13, <2>2 DEF AgtCloudHandles
<1>14. CASE AgtPublished
  <2>1. agtState' \in {"reset", "started", "req_sent", "done"}
    BY <1>4, <1>14 DEF AgtPublished
  <2>2. agtNvs' \in Everyone
    BY <1>3, <1>4, <1>14 DEF AgtPublished
  <2>3. agtListens' \in BOOLEAN /\ agtUpset' \in BOOLEAN
    BY <1>4, <1>14 DEF AgtPublished
  <2> QED BY <1>4, <1>14, <2>1, <2>2, <2>3 DEF AgtPublished
<1>15. CASE AgtMapped
  BY <1>4, <1>15 DEF AgtMapped, AgtParamsInit, agtRest
<1>16. CASE UNCHANGED agtVars
  BY <1>4, <1>16 DEF agtVars, agtRam, agtRest
<1> QED BY <1>6, <1>7, <1>8, <1>9, <1>10, <1>11, <1>12, <1>13, <1>14, <1>15, <1>16
        DEF AgtNext, AgtTask, AgtEvent

-----------------------------------------------------------------------------
(* Agent: the parameters come.  The safety half of AgtParamsFollow.        *)

(* What has been put on a queue stays there until it is its turn.          *)
LEMMA StaysQueued ==
    ASSUME NEW S, NEW s \in Seq(S), NEW i \in 1..Len(s), s # <<>>, s[i] # Head(s)
    PROVE  \E j \in 1..Len(Tail(s)) : Tail(s)[j] = s[i]
<1>1. /\ Len(s) \in Nat /\ Len(Tail(s)) = Len(s) - 1 /\ Head(s) = s[1]
      /\ \A j \in 1..Len(Tail(s)) : Tail(s)[j] = s[j + 1]
  BY HeadTailProperties
<1>2. i # 1
  BY <1>1
<1>3. i - 1 \in 1..Len(Tail(s)) /\ (i - 1) + 1 = i
  BY <1>1, <1>2
<1>4. Tail(s)[i - 1] = s[i]
  BY <1>1, <1>3
<1> QED BY <1>3, <1>4

LEMMA JoinsQueue ==
    ASSUME NEW S, NEW s \in Seq(S), NEW e \in S, NEW q, q = Append(s, e)
    PROVE  /\ \A i \in 1..Len(s) : \E j \in 1..Len(q) : q[j] = s[i]
           /\ \E j \in 1..Len(q) : q[j] = e
<1>1. /\ Len(s) \in Nat /\ Len(q) = Len(s) + 1
      /\ \A i \in 1..Len(s) : q[i] = s[i]
      /\ q[Len(s) + 1] = e
  BY AppendProperties, LenProperties
<1>2. \A i \in 1..Len(s) : i \in 1..Len(q)
  BY <1>1
<1>3. Len(s) + 1 \in 1..Len(q)
  BY <1>1
<1> QED BY <1>1, <1>2, <1>3

(* How the mapping of a user ends, and what is still to bring that end: an *)
(* event, or the mapping's message, from the call on the work queue up to  *)
(* its acknowledgement.                                                    *)
AgtResult(user) == IF user = AgtResetUser THEN "reset" ELSE "done"

AgtPosted(kind, id) == \E i \in 1..Len(agtEvents) : agtEvents[i] = [kind |-> kind, id |-> id]

AgtUnderWay(id) == \E i \in 1..Len(agtNet) : agtNet[i].boot = agtResets /\ agtNet[i].id = id

AgtToSend == agtData.id = 0 /\ ~agtData.sent /\ agtQueue > 0

AgtToHear ==
    /\ agtData.id # 0 /\ agtListens /\ (agtSending \/ agtData.sent)
    /\ AgtPosted("published", agtData.id) \/ AgtUnderWay(agtData.id)

AgtMaps(kind) ==
    agtData # AgtNoData /\ AgtResult(agtData.user) = kind /\ (AgtToSend \/ AgtToHear)

AgtComing(kind) == AgtPosted(kind, 0) \/ AgtMaps(kind)

(* Before the agent waits, no mapping has got further than the queue.      *)
AgtNotYet ==
    agtPc \in {"connect", "check", "else"} /\ ~agtUpset =>
        /\ ~agtSending /\ agtAwaits = {} /\ agtData.id = 0 /\ ~agtData.sent
        /\ agtData # AgtNoData => agtData.user # AgtResetUser /\ agtQueue > 0
        /\ agtState = "started" => agtData # AgtNoData

(* An agent that has nothing left to do but to wait waits for an event     *)
(* that comes.                                                             *)
AgtParamsComing ==
    agtPc = "over" /\ ~agtReady /\ ~agtUpset =>
        \E kind \in {"done", "reset"} : agtAwaits = {kind} /\ AgtComing(kind)

ComingInv == AgtTypes /\ AgtNotYet /\ AgtParamsComing

LEMMA ComingFacts ==
    ASSUME AgtTypes
    PROVE  /\ agtEvents \in Seq(Events) /\ agtNet \in Seq(Messages) /\ agtQueue \in Nat
           /\ agtData \in Data /\ agtNextId \in Nat \ {0} /\ agtResets \in Nat
           /\ agtSending => agtData.id # 0
           /\ \A k \in 1..Len(agtEvents) : Published(agtEvents[k]) => agtEvents[k].id # 0
<1>1. AgentTypes /\ Underway /\ Handled /\ AgtTypeOK
  BY DEF AgtTypes, AgentInv
<1>2. \A k \in 1..Len(agtEvents) : Published(agtEvents[k]) => agtEvents[k].id # 0
  BY <1>1 DEF Handled, AgentTypes
<1> QED BY <1>1, <1>2 DEF AgentTypes, Underway, AgtTypeOK

(* A mapping is started: unless another one is replaced, none was there.   *)
LEMMA ComingAsked ==
    ASSUME ComingInv, AgtAsk
    PROVE  (AgtNotYet /\ AgtParamsComing)'
<1>1. PICK user \in AgtUsers \cup {AgtResetUser} : AgtStart(user, user = AgtResetUser)
  BY DEF AgtAsk
<1>2. UNCHANGED <<agtPc, agtSending, agtAwaits, agtEvents, agtReady>>
  BY DEF AgtAsk
<1>3. agtQueue \in Nat /\ ComingInv
  BY ComingFacts DEF ComingInv
<1>4. ASSUME ~agtUpset'
      PROVE  /\ ~agtUpset /\ agtData = AgtNoData /\ user # AgtResetUser /\ agtQueue' = agtQueue + 1
             /\ agtData' = [user |-> user, id |-> 0, sent |-> FALSE]
  BY <1>1, <1>4 DEF AgtStart
<1>5. user # AgtNoUser
  BY AgtAssumption DEF AgtNoUser, AgtResetUser
<1>6. ASSUME ~agtUpset'
      PROVE  /\ agtData'.id = 0 /\ ~agtData'.sent /\ agtData' # AgtNoData
             /\ agtData'.user # AgtResetUser /\ agtQueue' > 0
  BY <1>3, <1>4, <1>5, <1>6 DEF AgtNoData
<1>7. AgtNotYet'
  BY <1>2, <1>3, <1>4, <1>6 DEF AgtNotYet, ComingInv
<1>8. AgtParamsComing'
  <2> SUFFICES ASSUME agtPc = "over", ~agtReady, ~agtUpset'
               PROVE  \E kind \in {"done", "reset"} : agtAwaits = {kind} /\ AgtComing(kind)'
    BY <1>2 DEF AgtParamsComing
  <2>1. PICK kind \in {"done", "reset"} : agtAwaits = {kind} /\ AgtPosted(kind, 0)
    BY <1>3, <1>4 DEF ComingInv, AgtParamsComing, AgtComing, AgtMaps
  <2>2. AgtPosted(kind, 0)'
    BY <1>2, <2>1 DEF AgtPosted
  <2> QED BY <2>1, <2>2 DEF AgtComing
<1> QED BY <1>7, <1>8

(* The agent waits for the mapping that is under way or that it starts.    *)
LEMMA ComingAwaited ==
    ASSUME ComingInv, AgtWait
    PROVE  (AgtNotYet /\ AgtParamsComing)'
<1>1. /\ agtPc = "else" /\ agtPc' = "over" /\ agtAwaits' = {AgtAwaited(agtState)}
  BY DEF AgtWait
<1>2. agtQueue \in Nat /\ ComingInv
  BY ComingFacts DEF ComingInv
<1>3. AgtNotYet'
  BY <1>1 DEF AgtNotYet
<1>4. AgtParamsComing'
  <2> SUFFICES ASSUME ~agtUpset'
               PROVE  \E kind \in {"done", "reset"} : agtAwaits' = {kind} /\ AgtComing(kind)'
    BY DEF AgtParamsComing
  <2>1. CASE agtState = "started"
    <3>1. UNCHANGED <<agtQueue, agtData, agtUpset>>
      BY <2>1 DEF AgtWait
    <3>2. /\ agtData.id = 0 /\ ~agtData.sent /\ agtData # AgtNoData
          /\ agtData.user # AgtResetUser /\ agtQueue > 0
      BY <1>1, <1>2, <2>1, <3>1 DEF ComingInv, AgtNotYet
    <3>3. AgtMaps("done")'
      BY <3>1, <3>2 DEF AgtMaps, AgtToSend, AgtResult
    <3>4. agtAwaits' = {"done"}
      BY <1>1, <2>1 DEF AgtAwaited
    <3> QED BY <3>3, <3>4 DEF AgtComing
  <2>2. CASE agtState # "started"
    <3>1. AgtStart(AgtResetUser, FALSE)
      BY <2>2 DEF AgtWait
    <3>2. /\ agtData' = [user |-> AgtResetUser, id |-> 0, sent |-> FALSE]
          /\ agtQueue' = agtQueue + 1
      BY <3>1 DEF AgtStart
    <3>3. agtData' # AgtNoData /\ agtData'.user = AgtResetUser /\ AgtToSend'
      BY <1>2, <3>2 DEF AgtNoData, AgtNoUser, AgtResetUser, AgtToSend
    <3>4. AgtMaps("reset")'
      BY <3>3 DEF AgtMaps, AgtResult
    <3>5. agtAwaits' = {"reset"}
      BY <1>1, <2>2 DEF AgtAwaited
    <3> QED BY <3>4, <3>5 DEF AgtComing
  <2> QED BY <2>1, <2>2
<1> QED BY <1>3, <1>4

(* The call on the work queue publishes the message, which then is on its  *)
(* way.                                                                    *)
LEMMA ComingSent ==
    ASSUME ComingInv, AgtSend \/ AgtSent
    PROVE  (AgtNotYet /\ AgtParamsComing)'
<1>1. ComingInv /\ AgtTypes
  BY DEF ComingInv
<1>2. agtData \in Data /\ agtNet \in Seq(Messages) /\ agtResets \in Nat
  BY <1>1, ComingFacts
<1>6. agtNextId \in Nat \ {0}
  BY <1>1, ComingFacts
<1>7. agtSending => agtData.id # 0
  BY <1>1, ComingFacts
<1>3. UNCHANGED <<agtPc, agtAwaits, agtEvents, agtReady, agtResets>>
  BY DEF AgtSend, AgtSent, agtRest
<1>4. AgtNotYet'
  <2>1. agtPc \in {"over", "aborted"} \/ (agtSending /\ agtUpset' = agtUpset)
    BY DEF AgtSend, AgtSent
  <2> QED BY <1>1, <1>3, <2>1 DEF AgtNotYet, ComingInv
<1>5. AgtParamsComing'
  <2> SUFFICES ASSUME agtPc = "over", ~agtReady, ~agtUpset'
               PROVE  \E kind \in {"done", "reset"} : agtAwaits = {kind} /\ AgtComing(kind)'
    BY <1>3 DEF AgtParamsComing
  <2>1. ~agtUpset
    BY DEF AgtSend, AgtSent
  <2>2. PICK kind \in {"done", "reset"} : agtAwaits = {kind} /\ AgtComing(kind)
    BY <1>1, <2>1 DEF ComingInv, AgtParamsComing
  <2>3. CASE AgtPosted(kind, 0)
    BY <1>3, <2>2, <2>3 DEF AgtPosted, AgtComing
  <2>4. CASE AgtMaps(kind)
    <3>1. CASE AgtSent
      <4>1. /\ agtSending /\ agtData' = [agtData EXCEPT !.sent = TRUE]
            /\ UNCHANGED <<agtListens, agtNet>>
        BY <3>1 DEF AgtSent, agtRest
      <4>2. /\ agtData'.user = agtData.user /\ agtData'.id = agtData.id
            /\ agtData'.sent /\ agtData.id # 0
        <5>1. agtData'.sent = TRUE
          BY <1>2, <4>1 DEF Data
        <5>2. agtData'.user = agtData.user /\ agtData'.id = agtData.id
          BY <1>2, <4>1 DEF Data
        <5>3. agtData'.sent
          BY <5>1, Zenon
        <5>4. agtData.id # 0
          BY <1>7, <4>1
        <5> QED BY <5>2, <5>3, <5>4
      <4>3. AgtToHear
        BY <2>4, <4>2 DEF AgtMaps, AgtToSend
      <4>4. AgtToHear' /\ agtData' # AgtNoData
        BY <1>3, <4>1, <4>2, <4>3 DEF AgtToHear, AgtPosted, AgtUnderWay, AgtNoData
      <4> QED BY <2>2, <2>4, <4>2, <4>4 DEF AgtMaps, AgtComing
    <3>2. CASE AgtSend /\ agtData.sent
      <4>1. UNCHANGED <<agtData, agtSending, agtListens, agtNet>> /\ ~agtSending
        BY <3>2 DEF AgtSend
      <4>2. AgtToHear
        BY <2>4, <3>2 DEF AgtMaps, AgtToSend
      <4>3. AgtToHear'
        BY <1>3, <4>1, <4>2 DEF AgtToHear, AgtPosted, AgtUnderWay
      <4> QED BY <2>2, <2>4, <4>1, <4>3 DEF AgtMaps, AgtComing
    <3>3. CASE AgtSend /\ ~agtData.sent
      <4>1. /\ agtListens' = TRUE /\ agtSending' = TRUE
            /\ agtData' = [agtData EXCEPT !.id = agtNextId]
            /\ agtNet' = Append(agtNet, [id |-> agtNextId, user |-> agtData.user, boot |-> agtResets])
        BY <2>1, <2>4, <3>3 DEF AgtSend, AgtMaps
      <4>2. PICK n : n = agtNextId /\ n \in Nat \ {0}
        BY <1>6, Zenon
      <4>3. agtData'.user = agtData.user /\ agtData'.id = n
        BY <1>2, <4>1, <4>2 DEF Data
      <4> DEFINE m == [id |-> n, user |-> agtData.user, boot |-> agtResets]
      <4>4. m \in Messages /\ m.boot = agtResets /\ m.id = n /\ agtNet' = Append(agtNet, m)
        <5>1. agtData.user \in Everyone
          BY <1>2 DEF Data
        <5>2. m \in Messages /\ m.boot = agtResets /\ m.id = n
          BY <1>2, <4>2, <5>1 DEF Messages
        <5>3. agtNet' = Append(agtNet, m)
          BY <4>1, <4>2
        <5> QED BY <5>2, <5>3
      <4> HIDE DEF m
      <4>5. \E j \in 1..Len(agtNet') : agtNet'[j] = m
        <5>1. PICK c : c = m
          OBVIOUS
        <5>2. c \in Messages /\ agtNet' = Append(agtNet, c)
          BY <4>4, <5>1
        <5>3. \E j \in 1..Len(agtNet') : agtNet'[j] = c
          BY <1>2, <5>2, JoinsQueue
        <5> QED BY <5>1, <5>3
      <4>6. AgtUnderWay(n)'
        <5>1. PICK j \in 1..Len(agtNet') : agtNet'[j] = m
          BY <4>5
        <5>2. agtNet'[j].boot = agtResets' /\ agtNet'[j].id = n
          BY <1>3, <4>4, <5>1
        <5> QED BY <5>1, <5>2 DEF AgtUnderWay
      <4>7. agtListens' /\ agtSending' /\ n # 0
        <5>1. agtListens' /\ agtSending'
          BY <4>1, Zenon
        <5> QED BY <4>2, <5>1
      <4>8. AgtToHear' /\ agtData' # AgtNoData
        BY <4>3, <4>6, <4>7 DEF AgtToHear, AgtNoData
      <4> QED BY <2>2, <2>4, <4>3, <4>8 DEF AgtMaps, AgtComing
    <3> QED BY <3>1, <3>2, <3>3
  <2> QED BY <2>2, <2>3, <2>4 DEF AgtComing
<1> QED BY <1>4, <1>5

(* The cloud handles a message: its acknowledgement is posted.             *)
LEMMA ComingCloud ==
    ASSUME ComingInv, AgtCloudHandles
    PROVE  (AgtNotYet /\ AgtParamsComing)'
<1>1. ComingInv /\ AgtTypes
  BY DEF ComingInv
<1>2. agtEvents \in Seq(Events) /\ agtNet \in Seq(Messages) /\ agtNet # <<>>
  BY <1>1, ComingFacts DEF AgtCloudHandles
<1>3. /\ UNCHANGED <<agtPc, agtQueue, agtState, agtData, agtSending, agtListens, agtAwaits, agtReady,
                     agtUpset, agtResets>>
      /\ agtNet' = Tail(agtNet)
  BY DEF AgtCloudHandles
<1> DEFINE e == [kind |-> "published", id |-> Head(agtNet).id]
<1>4. e \in Events
  <2>1. Head(agtNet) \in Messages
    BY <1>2, HeadTailProperties
  <2> QED BY <2>1 DEF Messages, Events
<1>5. agtEvents' = IF Head(agtNet).boot = agtResets THEN Append(agtEvents, e) ELSE agtEvents
  BY DEF AgtCloudHandles
<1> HIDE DEF e
<1>6. ASSUME NEW id, id = Head(agtNet).id, Head(agtNet).boot = agtResets
      PROVE  AgtPosted("published", id)'
  <2>1. agtEvents' = Append(agtEvents, e)
    BY <1>5, <1>6
  <2>2. \E j \in 1..Len(agtEvents') : agtEvents'[j] = e
    <3>1. PICK c : c = e
      OBVIOUS
    <3>2. c \in Events /\ agtEvents' = Append(agtEvents, c)
      BY <1>4, <2>1, <3>1
    <3>3. PICK q : q = agtEvents'
      OBVIOUS
    <3>4. \E j \in 1..Len(q) : q[j] = c
      <4>1. agtEvents \in Seq(Events) /\ c \in Events /\ q = Append(agtEvents, c)
        BY <1>2, <3>2, <3>3
      <4> QED BY <4>1, JoinsQueue
    <3> QED BY <3>1, <3>3, <3>4
  <2>3. e = [kind |-> "published", id |-> id]
    BY <1>6 DEF e
  <2> QED BY <2>2, <2>3 DEF AgtPosted
<1>7. ASSUME NEW kind, NEW id, AgtPosted(kind, id) PROVE AgtPosted(kind, id)'
  <2>1. PICK i \in 1..Len(agtEvents) : agtEvents[i] = [kind |-> kind, id |-> id]
    BY <1>7 DEF AgtPosted
  <2>2. CASE agtEvents' = agtEvents
    BY <2>1, <2>2 DEF AgtPosted
  <2>3. CASE agtEvents' = Append(agtEvents, e)
    <3>1. \E j \in 1..Len(agtEvents') : agtEvents'[j] = agtEvents[i]
      BY <1>2, <1>4, <2>1, <2>3, JoinsQueue
    <3> QED BY <2>1, <3>1 DEF AgtPosted
  <2> QED BY <1>5, <2>2, <2>3
<1>8. ASSUME NEW id, AgtUnderWay(id)
      PROVE  AgtPosted("published", id)' \/ AgtUnderWay(id)'
  <2>1. PICK i \in 1..Len(agtNet) : agtNet[i].boot = agtResets /\ agtNet[i].id = id
    BY <1>8 DEF AgtUnderWay
  <2>2. CASE agtNet[i] = Head(agtNet)
    BY <1>6, <2>1, <2>2
  <2>3. CASE agtNet[i] # Head(agtNet)
    <3>1. \E j \in 1..Len(Tail(agtNet)) : Tail(agtNet)[j] = agtNet[i]
      BY <1>2, <2>3, StaysQueued
    <3> QED BY <1>3, <2>1, <3>1 DEF AgtUnderWay
  <2> QED BY <2>2, <2>3
<1>9. \A kind : AgtComing(kind) => AgtComing(kind)'
  BY <1>3, <1>7, <1>8 DEF AgtComing, AgtMaps, AgtToSend, AgtToHear
<1> QED BY <1>1, <1>3, <1>9 DEF ComingInv, AgtNotYet, AgtParamsComing

(* The acknowledgement: the mapping's own becomes the mapping's event.     *)
LEMMA ComingPublished ==
    ASSUME ComingInv, AgtPublished
    PROVE  (AgtNotYet /\ AgtParamsComing)'
<1>1. ComingInv /\ AgtTypes
  BY DEF ComingInv
<1>2. /\ agtEvents \in Seq(Events) /\ agtEvents # <<>> /\ Head(agtEvents).kind = "published"
      /\ Head(agtEvents) \in Events
  BY <1>1, ComingFacts, HeadTailProperties DEF AgtPublished
<1>3. Head(agtEvents).id # 0
  <2>1. 1 \in 1..Len(agtEvents) /\ agtEvents[1] = Head(agtEvents)
    BY <1>2, HeadTailProperties, EmptySeq, LenProperties
  <2> QED BY <1>1, <1>2, <2>1, ComingFacts DEF Published
<1>4. UNCHANGED <<agtPc, agtQueue, agtSending, agtAwaits, agtReady, agtNet, agtResets>>
  BY DEF AgtPublished
<1>5. ASSUME NEW kind, NEW id, AgtPosted(kind, id), [kind |-> kind, id |-> id] # Head(agtEvents)
      PROVE  AgtPosted(kind, id)'
  <2>1. PICK i \in 1..Len(agtEvents) : agtEvents[i] = [kind |-> kind, id |-> id]
    BY <1>5 DEF AgtPosted
  <2>2. PICK j \in 1..Len(Tail(agtEvents)) : Tail(agtEvents)[j] = agtEvents[i]
    BY <1>2, <1>5, <2>1, StaysQueued
  <2>3. CASE agtEvents' = Tail(agtEvents)
    BY <2>1, <2>2, <2>3 DEF AgtPosted
  <2>4. CASE agtEvents' # Tail(agtEvents)
    <3>1. PICK e \in Events : agtEvents' = Append(Tail(agtEvents), e)
      <4>1. agtEvents' = Append(Tail(agtEvents), [kind |-> agtState', id |-> 0])
        BY <2>4 DEF AgtPublished
      <4>2. [kind |-> agtState', id |-> 0] \in Events
        BY <2>4 DEF AgtPublished, Events
      <4> QED BY <4>1, <4>2
    <3>2. Tail(agtEvents) \in Seq(Events)
      BY <1>2, HeadTailProperties
    <3>3. PICK q : q = agtEvents'
      OBVIOUS
    <3>4. PICK s : s = Tail(agtEvents)
      OBVIOUS
    <3>5. \E l \in 1..Len(q) : q[l] = s[j]
      <4>1. s \in Seq(Events) /\ e \in Events /\ q = Append(s, e) /\ j \in 1..Len(s)
        BY <2>2, <3>1, <3>2, <3>3, <3>4
      <4> QED BY <4>1, JoinsQueue
    <3> QED BY <2>1, <2>2, <3>3, <3>4, <3>5 DEF AgtPosted
  <2> QED BY <2>3, <2>4
<1>6. CASE agtSending
  <2>1. agtUpset' = TRUE
    BY <1>6 DEF AgtPublished
  <2> QED BY <2>1 DEF AgtNotYet, AgtParamsComing
<1>7. CASE ~agtSending /\ agtListens /\ AgtMine(Head(agtEvents).id)
  <2>1. /\ agtData # AgtNoData /\ agtData.id # 0 /\ agtUpset' = agtUpset
        /\ agtState' = AgtResult(agtData.user)
        /\ agtEvents' = Append(Tail(agtEvents), [kind |-> AgtResult(agtData.user), id |-> 0])
    BY <1>3, <1>7 DEF AgtPublished, AgtMine, AgtResult
  <2>2. AgtNotYet'
    BY <1>1, <1>4, <2>1 DEF AgtNotYet, ComingInv
  <2>3. ASSUME NEW kind, kind = AgtResult(agtData.user) PROVE AgtPosted(kind, 0)'
    <3> DEFINE e == [kind |-> kind, id |-> 0]
    <3>1. e \in Events
      BY <2>3 DEF Events, AgtResult
    <3>2. Tail(agtEvents) \in Seq(Events)
      BY <1>2, HeadTailProperties
    <3>3. agtEvents' = Append(Tail(agtEvents), e)
      BY <2>1, <2>3
    <3> HIDE DEF e
    <3>4. \E l \in 1..Len(agtEvents') : agtEvents'[l] = e
      BY <3>1, <3>2, <3>3, JoinsQueue
    <3> QED BY <3>4 DEF AgtPosted, e
  <2>4. ASSUME NEW kind \in {"done", "reset"}, AgtComing(kind) PROVE AgtComing(kind)'
    <3>1. CASE AgtPosted(kind, 0)
      <4>1. [kind |-> kind, id |-> 0] # Head(agtEvents)
        BY <1>2
      <4>2. AgtPosted(kind, 0)'
        BY <1>5, <3>1, <4>1
      <4> QED BY <4>2 DEF AgtComing
    <3>2. CASE AgtMaps(kind)
      <4>1. AgtResult(agtData.user) = kind
        BY <3>2 DEF AgtMaps
      <4> QED BY <2>3, <4>1 DEF AgtComing
    <3> QED BY <2>4, <3>1, <3>2 DEF AgtComing
  <2>5. AgtParamsComing'
    BY <1>1, <1>4, <2>1, <2>4 DEF ComingInv, AgtParamsComing
  <2> QED BY <2>2, <2>5
<1>8. CASE ~agtSending /\ ~(agtListens /\ AgtMine(Head(agtEvents).id))
  <2>1. UNCHANGED <<agtState, agtData, agtListens, agtUpset>>
    BY <1>8 DEF AgtPublished
  <2>2. AgtNotYet'
    BY <1>1, <1>4, <2>1 DEF AgtNotYet, ComingInv
  <2>3. ASSUME NEW kind \in {"done", "reset"}, AgtPosted(kind, 0) PROVE AgtPosted(kind, 0)'
    <3>1. [kind |-> kind, id |-> 0] # Head(agtEvents)
      BY <1>2
    <3> QED BY <1>5, <2>3, <3>1
  <2>4. ASSUME agtListens, agtData # AgtNoData, AgtPosted("published", agtData.id)
        PROVE  AgtPosted("published", agtData.id)'
    <3>1. [kind |-> "published", id |-> agtData.id] # Head(agtEvents)
      BY <1>8, <2>4 DEF AgtMine
    <3> QED BY <1>5, <2>1, <2>4, <3>1
  <2>5. \A id : AgtUnderWay(id) => AgtUnderWay(id)'
    BY <1>4 DEF AgtUnderWay
  <2>6. \A kind \in {"done", "reset"} : AgtComing(kind) => AgtComing(kind)'
    BY <1>4, <2>1, <2>3, <2>4, <2>5 DEF AgtComing, AgtMaps, AgtToSend, AgtToHear
  <2>7. AgtParamsComing'
    BY <1>1, <1>4, <2>1, <2>6 DEF ComingInv, AgtParamsComing
  <2> QED BY <2>2, <2>7
<1> QED BY <1>6, <1>7, <1>8

(* The mapping's event, which makes the parameters ready, or another one.  *)
LEMMA ComingMapped ==
    ASSUME ComingInv, AgtMapped
    PROVE  (AgtNotYet /\ AgtParamsComing)'
<1>1. ComingInv /\ AgtTypes
  BY DEF ComingInv
<1>2. /\ agtEvents \in Seq(Events) /\ agtEvents # <<>> /\ Head(agtEvents).kind # "published"
      /\ agtEvents' = Tail(agtEvents)
  BY <1>1, ComingFacts DEF AgtMapped
<1>3. UNCHANGED <<agtPc, agtQueue, agtState, agtData, agtSending, agtListens, agtNet, agtResets>>
  BY DEF AgtMapped, agtRest
<1>4. ASSUME NEW kind, NEW id, AgtPosted(kind, id), kind # Head(agtEvents).kind
      PROVE  AgtPosted(kind, id)'
  <2>1. PICK i \in 1..Len(agtEvents) : agtEvents[i] = [kind |-> kind, id |-> id]
    BY <1>4 DEF AgtPosted
  <2>2. agtEvents[i] # Head(agtEvents)
    BY <1>4, <2>1
  <2>3. \E j \in 1..Len(Tail(agtEvents)) : Tail(agtEvents)[j] = agtEvents[i]
    BY <1>2, <2>2, StaysQueued
  <2> QED BY <1>2, <2>1, <2>3 DEF AgtPosted
<1>5. AgtNotYet'
  <2> SUFFICES ASSUME agtPc \in {"connect", "check", "else"}, ~agtUpset'
               PROVE  agtAwaits' = {} /\ ~agtUpset
    BY <1>1, <1>3 DEF AgtNotYet, ComingInv
  <2>1. ~agtUpset
    BY DEF AgtMapped, AgtParamsInit
  <2>2. agtAwaits = {}
    BY <1>1, <2>1 DEF AgtNotYet, ComingInv
  <2> QED BY <2>1, <2>2 DEF AgtMapped
<1>6. AgtParamsComing'
  <2> SUFFICES ASSUME agtPc = "over", ~agtReady', ~agtUpset'
               PROVE  \E kind \in {"done", "reset"} : agtAwaits' = {kind} /\ AgtComing(kind)'
    BY <1>3 DEF AgtParamsComing
  <2>1. /\ Head(agtEvents).kind \notin agtAwaits
        /\ UNCHANGED <<agtAwaits, agtReady, agtUpset>>
    BY DEF AgtMapped, AgtParamsInit
  <2>2. PICK kind \in {"done", "reset"} : agtAwaits = {kind} /\ AgtComing(kind)
    BY <1>1, <2>1 DEF ComingInv, AgtParamsComing
  <2>3. kind # Head(agtEvents).kind
    BY <2>1, <2>2
  <2>4. AgtPosted("published", agtData.id) => AgtPosted("published", agtData.id)'
    BY <1>2, <1>3, <1>4
  <2>5. AgtUnderWay(agtData.id) => AgtUnderWay(agtData.id)'
    BY <1>3 DEF AgtUnderWay
  <2>6. AgtComing(kind)'
    BY <1>3, <1>4, <2>2, <2>3, <2>4, <2>5 DEF AgtComing, AgtMaps, AgtToSend, AgtToHear
  <2> QED BY <2>1, <2>2, <2>6
<1> QED BY <1>5, <1>6

LEMMA ComingStep == ComingInv /\ [AgtNext]_agtVars => ComingInv'
<1> SUFFICES ASSUME ComingInv, AgtNext \/ UNCHANGED agtVars PROVE ComingInv'
  OBVIOUS
<1>1. ComingInv
  OBVIOUS
<1>2. AgtTypes'
  BY AgtTypesStep DEF ComingInv
<1>3. (AgtNotYet /\ AgtParamsComing)'
  <2>1. CASE AgtRestart
    <3>1. /\ agtPc' = "connect" /\ ~agtSending' /\ agtAwaits' = {} /\ agtData' = AgtNoData
          /\ agtState' \in {"reset", "done"}
      BY <2>1 DEF AgtRestart, AgtMappingAtBoot
    <3> QED BY <3>1 DEF AgtNotYet, AgtParamsComing, AgtNoData
  <2>2. CASE AgtConnect
    <3>1. /\ agtPc = "connect" /\ agtPc' \in {"check", "aborted"}
          /\ UNCHANGED <<agtQueue, agtState, agtData, agtSending, agtAwaits, agtUpset>>
      BY <2>2 DEF AgtConnect
    <3> QED BY <1>1, <3>1 DEF ComingInv, AgtNotYet, AgtParamsComing
  <2>3. CASE AgtCheck
    <3>1. /\ agtPc = "check"
          /\ \/ agtPc' = "over" /\ agtReady'
             \/ agtPc' = "aborted"
             \/ agtPc' = "else" /\ agtUpset' = agtUpset
          /\ UNCHANGED <<agtQueue, agtState, agtData, agtSending, agtAwaits>>
      BY <2>3 DEF AgtCheck
    <3> QED BY <1>1, <3>1 DEF ComingInv, AgtNotYet, AgtParamsComing
  <2>4. CASE UNCHANGED agtVars
    <3>1. UNCHANGED <<agtPc, agtQueue, agtState, agtData, agtSending, agtListens, agtAwaits, agtEvents,
                      agtReady, agtUpset, agtNet, agtResets>>
      BY <2>4 DEF agtVars, agtRam, agtRest
    <3> QED BY <1>1, <3>1 DEF ComingInv, AgtNotYet, AgtParamsComing, AgtComing, AgtMaps, AgtToSend,
                              AgtToHear, AgtPosted, AgtUnderWay
  <2> QED BY <2>1, <2>2, <2>3, <2>4, ComingAsked, ComingAwaited, ComingSent, ComingCloud,
             ComingPublished, ComingMapped DEF AgtNext, AgtTask, AgtEvent
<1> QED BY <1>2, <1>3 DEF ComingInv

(* The parameters are not waited for in vain: as long as no mapping was    *)
(* replaced or reset from outside and no call failed since the restart,    *)
(* the one event the agent waits for is on the loop, or its mapping still  *)
(* to be sent or to be acknowledged (esp_rmaker_core.c:439-448,            *)
(* esp_rmaker_user_mapping.c:126-164).                                     *)
THEOREM ParamsAreComing == AgtSpec => []AgtParamsComing
<1>1. AgtInit => ComingInv
  <2>1. AgtInit => AgtNotYet /\ AgtParamsComing
    BY DEF AgtInit, AgtNotYet, AgtParamsComing, AgtNoData, AgtMappingAtBoot
  <2> QED BY <2>1, AgtTypesBegin DEF ComingInv
<1>2. ComingInv => AgtParamsComing
  BY DEF ComingInv
<1> QED BY <1>1, <1>2, ComingStep, PTL DEF AgtSpec

-----------------------------------------------------------------------------
(* LocalCtrl: never beside provisioning.                                   *)
(* What is on the event loop, by what the manager does.                    *)
Unstarted == locMgr = "new" => locEvents = <<>> /\ locAgent = "network"

Provisions ==
    locMgr = "on" =>
        /\ locAgent = "network"
        /\ locEvents = <<"start">> \/ (locEvents = <<>> /\ locWaits)

Joined == locMgr = "joined" => locWaits /\ (locEvents = <<"got_ip">> \/ locEvents = <<>>)

Ended ==
    locMgr = "ended" =>
        \/ locAgent = "network" /\ locEvents = <<"start", "end">>
        \/ locWaits /\ (locEvents = <<"got_ip", "end">> \/ locEvents = <<"end">>)

LocInv ==
    /\ Unstarted /\ Provisions /\ Joined /\ Ended
    /\ locMgr \in {"new", "on", "joined", "ended", "off"}
    /\ locMgr # "off" => locServices = 0 /\ locLoop = "idle"

(* The short queues that occur.                                            *)
LEMMA ShortQueues ==
    /\ \A a : /\ <<a>> # <<>> /\ Head(<<a>>) = a /\ Tail(<<a>>) = <<>> /\ <<>> \o <<a>> = <<a>>
    /\ \A a, b : /\ <<a, b>> # <<>> /\ Head(<<a, b>>) = a /\ Tail(<<a, b>>) = <<b>>
                 /\ <<a>> \o <<b>> = <<a, b>>
<1>1. \A a : <<a>> # <<>> /\ Head(<<a>>) = a /\ Tail(<<a>>) = <<>>
  OBVIOUS
<1>2. \A a : <<>> \o <<a>> = <<a>>
  OBVIOUS
<1>3. \A a, b : <<a, b>> # <<>> /\ Head(<<a, b>>) = a /\ Tail(<<a, b>>) = <<b>>
  OBVIOUS
<1>4. ASSUME NEW a, NEW b PROVE <<a>> \o <<b>> = <<a, b>>
  <2> DEFINE S == {a, b}
  <2>1. <<a>> \in Seq(S) /\ <<b>> \in Seq(S) /\ <<a, b>> \in Seq(S)
    OBVIOUS
  <2>2. Len(<<a>>) = 1 /\ Len(<<b>>) = 1 /\ Len(<<a, b>>) = 2
    OBVIOUS
  <2> HIDE DEF S
  <2>3. /\ <<a>> \o <<b>> \in Seq(S) /\ Len(<<a>> \o <<b>>) = 2
        /\ (<<a>> \o <<b>>)[1] = a /\ (<<a>> \o <<b>>)[2] = b
    <3>1. 1 \in 1..2 /\ 2 \in 1..2 /\ ~(2 <= 1) /\ 2 - 1 = 1
      OBVIOUS
    <3>2. \A i \in 1..2 : (<<a>> \o <<b>>)[i] = IF i <= 1 THEN <<a>>[i] ELSE <<b>>[i - 1]
      BY <2>1, <2>2, ConcatProperties
    <3>3. <<a>> \o <<b>> \in Seq(S) /\ Len(<<a>> \o <<b>>) = 2
      BY <2>1, <2>2, ConcatProperties
    <3> QED BY <3>1, <3>2, <3>3
  <2>4. <<a, b>>[1] = a /\ <<a, b>>[2] = b
    OBVIOUS
  <2>5. \A i \in 1..2 : i = 1 \/ i = 2
    OBVIOUS
  <2> DEFINE s == <<a>> \o <<b>>
  <2> DEFINE t == <<a, b>>
  <2>6. /\ s \in Seq(S) /\ t \in Seq(S) /\ Len(s) = Len(t) /\ Len(s) = 2
        /\ \A i \in 1..2 : s[i] = t[i]
    BY <2>1, <2>2, <2>3, <2>4, <2>5
  <2> HIDE DEF s, t
  <2>7. s = t
    BY <2>6, SeqEqual
  <2> QED BY <2>7 DEF s, t
<1> QED BY <1>1, <1>2, <1>3, <1>4

(* Every step preserves the invariant.                                     *)
LEMMA LocStep == LocInv /\ [LocNext]_locVars => LocInv'
<1> SUFFICES ASSUME LocInv, [LocNext]_locVars PROVE LocInv'
  OBVIOUS
<1> USE DEF LocInv, Unstarted, Provisions, Joined, Ended
<1>1. CASE LocConnected
  BY <1>1 DEF LocConnected
<1>2. CASE LocAsk
  BY <1>2 DEF LocAsk
<1>3. CASE LocName
  BY <1>3 DEF LocName
<1>4. CASE LocStart
  <2>1. /\ Head(locEvents) = "start" /\ locEvents' = Tail(locEvents) /\ locWaits' = TRUE
        /\ locMgr' = locMgr /\ locAgent' = locAgent /\ locServices' = locServices
        /\ locLoop' = locLoop /\ locEvents # <<>>
    BY <1>4 DEF LocStart, LocHandle, LocOnStart
  <2>2. ASSUME locMgr = "on" PROVE locEvents' = <<>>
    <3>1. locEvents = <<"start">>
      BY <2>1, <2>2, Zenon
    <3> QED BY <2>1, <3>1, ShortQueues
  <2>3. ASSUME locMgr = "ended" PROVE locEvents' = <<"end">>
    <3>1. Head(<<"got_ip", "end">>) = "got_ip" /\ Head(<<"end">>) = "end"
      BY ShortQueues
    <3>2. locEvents = <<"start", "end">>
      BY <2>1, <2>3, <3>1
    <3> QED BY <2>1, <3>2, ShortQueues
  <2>4. locMgr \notin {"new", "joined"}
    BY <2>1, ShortQueues
  <2> QED BY <2>1, <2>2, <2>3, <2>4
<1>5. CASE LocDeinit
  BY <1>5, ShortQueues DEF LocDeinit, LocHandle
<1>6. CASE LocServe
  BY <1>6 DEF LocServe
<1>7. CASE LocGotIp
  <2>1. /\ Head(locEvents) = "got_ip" /\ locEvents' = Tail(locEvents) /\ locWaits' = locWaits
        /\ locMgr' = locMgr /\ locServices' = locServices /\ locLoop' = locLoop
        /\ locEvents # <<>>
    BY <1>7 DEF LocGotIp, LocHandle
  <2>2. locMgr = "joined" => locEvents' = <<>>
    BY <2>1, ShortQueues
  <2>3. ASSUME locMgr = "ended" PROVE locEvents' = <<"end">> /\ locWaits
    <3>1. Head(<<"start", "end">>) = "start" /\ Head(<<"end">>) = "end"
      BY ShortQueues
    <3>2. locEvents = <<"got_ip", "end">> /\ locWaits
      BY <2>1, <2>3, <3>1
    <3> QED BY <2>1, <3>2, ShortQueues
  <2>4. locMgr \notin {"new", "on"}
    BY <2>1, ShortQueues
  <2> QED BY <2>1, <2>2, <2>3, <2>4
<1>8. CASE LocEnd
  BY <1>8, ShortQueues DEF LocEnd
<1>9. CASE LocProvision
  BY <1>9, ShortQueues DEF LocProvision, LocPost
<1>10. CASE LocRelease
  BY <1>10 DEF LocRelease, LocPost
<1>11. CASE LocJoins
  BY <1>11, ShortQueues DEF LocJoins, LocPost
<1>12. CASE LocMgrEnds
  BY <1>12, ShortQueues DEF LocMgrEnds, LocPost
<1>13. CASE UNCHANGED locVars
  BY <1>13 DEF locVars
<1> QED BY <1>1, <1>2, <1>3, <1>4, <1>5, <1>6, <1>7, <1>8, <1>9, <1>10, <1>11, <1>12, <1>13
        DEF LocNext, LocTask, LocEventLoop, LocOutside

(* The same without fairness, which safety does not need.                  *)
LEMMA LocalSafe == LocInit /\ [][LocNext]_locVars => []LocServesAlone
<1>1. LocInit => LocInv
  BY DEF LocInit, LocInv, Unstarted, Provisions, Joined, Ended
<1>2. LocInv => LocServesAlone
  BY DEF LocInv, LocServesAlone
<1> QED BY <1>1, <1>2, LocStep, PTL

(* Local control never runs beside provisioning                            *)
(* (esp_rmaker_local_ctrl.c:346-371, 400-402).                             *)
THEOREM ServesAlone == LocSpec => []LocServesAlone
BY LocalSafe, PTL DEF LocSpec

-----------------------------------------------------------------------------
(* LocalCtrl: its types, and with them that the service is started once.   *)
ServedOnce ==
    /\ locServices \in {0, 1}
    /\ locServices = 1 \/ locNamed => locAgent = "over"
    /\ locServices = 0 \/ ~locNamed

FewEvents ==
    locEvents \in Seq({"start", "deinit", "got_ip", "end"}) /\ Len(locEvents) <= 2

LocTypes == LocInv /\ LocTypeOK /\ ServedOnce /\ FewEvents

LEMMA LocTypesBegin == LocInit => LocTypes
<1> SUFFICES ASSUME LocInit PROVE LocTypes
  OBVIOUS
<1>1. LocInv
  BY DEF LocInit, LocInv, Unstarted, Provisions, Joined, Ended
<1>2. FewEvents /\ Len(locEvents) = 0
  BY EmptySeq DEF LocInit, FewEvents
<1>3. LocTypeOK
  <2>1. Len(locEvents) <= 4 /\ locServices \in 0..1
    BY <1>2 DEF LocInit
  <2> QED BY <2>1 DEF LocInit, LocTypeOK
<1> QED BY <1>1, <1>2, <1>3 DEF LocInit, LocTypes, ServedOnce

LEMMA OneLess ==
    ASSUME FewEvents, locEvents # <<>>, NEW q, q \in {Tail(locEvents), Append(Tail(locEvents), "deinit")}
    PROVE  q \in Seq({"start", "deinit", "got_ip", "end"}) /\ Len(q) <= 2
<1>1. /\ Tail(locEvents) \in Seq({"start", "deinit", "got_ip", "end"})
      /\ Len(Tail(locEvents)) = Len(locEvents) - 1 /\ Len(locEvents) \in Nat
  BY HeadTailProperties DEF FewEvents
<1>2. Append(Tail(locEvents), "deinit") \in Seq({"start", "deinit", "got_ip", "end"})
      /\ Len(Append(Tail(locEvents), "deinit")) = Len(Tail(locEvents)) + 1
  BY <1>1, AppendProperties
<1> QED BY <1>1, <1>2 DEF FewEvents

LEMMA LocTypesStep == LocTypes /\ [LocNext]_locVars => LocTypes'
<1> SUFFICES ASSUME LocTypes, LocNext \/ UNCHANGED locVars PROVE LocTypes'
  OBVIOUS
<1>1. LocInv /\ LocInv'
  BY LocStep DEF LocTypes
<1>2. LocTypeOK /\ ServedOnce /\ FewEvents
  BY DEF LocTypes
<1>3. FewEvents'
  <2>1. CASE LocTask \/ LocServe \/ UNCHANGED locVars
    BY <1>2, <2>1 DEF FewEvents, LocTask, LocConnected, LocAsk, LocName, LocServe, locVars
  <2>2. CASE LocStart \/ LocDeinit \/ LocGotIp
    BY <1>2, <2>2, OneLess DEF FewEvents, LocStart, LocDeinit, LocGotIp, LocHandle
  <2>3. CASE LocEnd
    BY <1>2, <2>3, OneLess DEF FewEvents, LocEnd
  <2>4. CASE LocOutside
    <3> DEFINE S == {"start", "deinit", "got_ip", "end"}
    <3>1. /\ \A a \in S : <<a>> \in Seq(S) /\ Len(<<a>>) = 1
          /\ <<"deinit", "got_ip">> \in Seq(S) /\ Len(<<"deinit", "got_ip">>) = 2
          /\ Len(<<>>) = 0
      OBVIOUS
    <3>2. CASE LocProvision \/ LocRelease \/ LocJoins
      <4>1. locEvents = <<>>
        BY <1>1, <3>2 DEF LocProvision, LocRelease, LocJoins, LocInv, Unstarted
      <4>2. PICK q \in Seq(S) : locEvents' = locEvents \o q /\ Len(q) <= 2
        <5>1. \/ locEvents' = locEvents \o <<"start">> \/ locEvents' = locEvents \o <<"got_ip">>
              \/ locEvents' = locEvents \o <<"deinit", "got_ip">>
          BY <3>2 DEF LocProvision, LocRelease, LocJoins, LocPost
        <5>2. /\ <<"start">> \in Seq(S) /\ Len(<<"start">>) <= 2
              /\ <<"got_ip">> \in Seq(S) /\ Len(<<"got_ip">>) <= 2
              /\ <<"deinit", "got_ip">> \in Seq(S) /\ Len(<<"deinit", "got_ip">>) <= 2
          BY <3>1
        <5> QED BY <5>1, <5>2, Zenon
      <4> HIDE DEF S
      <4> QED BY <1>2, <3>1, <4>1, <4>2, ConcatProperties DEF FewEvents, S
    <3>3. CASE LocMgrEnds
      <4>1. locEvents = <<>> \/ locEvents = <<"start">> \/ locEvents = <<"got_ip">>
        BY <1>1, <3>3 DEF LocMgrEnds, LocInv, Provisions, Joined
      <4>2. locEvents' = locEvents \o <<"end">>
        BY <3>3 DEF LocMgrEnds, LocPost
      <4>3. Len(locEvents) <= 1
        <5>1. Len(<<>>) = 0 /\ Len(<<"start">>) = 1 /\ Len(<<"got_ip">>) = 1
          OBVIOUS
        <5>2. Len(locEvents) = 0 \/ Len(locEvents) = 1
          BY <4>1, <5>1, Zenon
        <5>3. \A n : n = 0 \/ n = 1 => n <= 1
          OBVIOUS
        <5> QED BY <5>2, <5>3, Zenon
      <4> QED BY <1>2, <3>1, <4>2, <4>3, ConcatProperties DEF FewEvents
    <3> QED BY <2>4, <3>2, <3>3 DEF LocOutside
  <2> QED BY <2>1, <2>2, <2>3, <2>4 DEF LocNext, LocEventLoop
<1>4. ServedOnce'
  <2>1. CASE LocTask
    BY <1>2, <2>1 DEF LocTask, LocConnected, LocAsk, LocName, ServedOnce
  <2>2. CASE LocServe
    BY <1>2, <2>2 DEF LocServe, ServedOnce
  <2>3. CASE LocGotIp
    BY <1>2, <2>3 DEF LocGotIp, ServedOnce
  <2>4. CASE LocStart \/ LocDeinit \/ LocEnd \/ LocOutside \/ UNCHANGED locVars
    <3>1. UNCHANGED <<locNamed, locServices, locAgent>>
      BY <2>4 DEF LocStart, LocDeinit, LocEnd, LocOutside, LocProvision, LocRelease, LocJoins,
          LocMgrEnds, LocPost, locVars
    <3> QED BY <1>2, <3>1 DEF ServedOnce
  <2> QED BY <2>1, <2>2, <2>3, <2>4 DEF LocNext, LocEventLoop
<1>5. {locWaits', locNamed', locUnheard'} \subseteq BOOLEAN
  <2>1. locWaits \in BOOLEAN /\ locNamed \in BOOLEAN /\ locUnheard \in BOOLEAN
    BY <1>2 DEF LocTypeOK
  <2>2. CASE LocName
    BY <2>1, <2>2 DEF LocName, LocHandled
  <2>3. CASE LocStart \/ LocDeinit \/ LocServe
    BY <2>1, <2>3 DEF LocStart, LocOnStart, LocDeinit, LocServe
  <2>4. CASE LocConnected \/ LocAsk \/ LocGotIp \/ LocEnd \/ LocOutside \/ UNCHANGED locVars
    <3>1. UNCHANGED <<locWaits, locNamed, locUnheard>>
      BY <2>4 DEF LocConnected, LocAsk, LocGotIp, LocEnd, LocOutside, LocProvision, LocRelease,
          LocJoins, LocMgrEnds, LocPost, locVars
    <3> QED BY <2>1, <3>1
  <2> QED BY <2>2, <2>3, <2>4 DEF LocNext, LocTask, LocEventLoop
<1>6. locAgent' \in {"network", "ask", "name", "over"} /\ locLoop' \in {"idle", "deinit"}
  <2>1. locAgent \in {"network", "ask", "name", "over"} /\ locLoop \in {"idle", "deinit"}
    BY <1>2 DEF LocTypeOK
  <2>2. CASE LocTask
    BY <2>1, <2>2 DEF LocTask, LocConnected, LocAsk, LocName
  <2>3. CASE LocDeinit \/ LocServe \/ LocGotIp
    BY <2>1, <2>3 DEF LocDeinit, LocServe, LocGotIp
  <2>4. CASE LocStart \/ LocEnd \/ LocOutside \/ UNCHANGED locVars
    BY <2>1, <2>4 DEF LocStart, LocEnd, LocOutside, LocProvision, LocRelease, LocJoins,
        LocMgrEnds, LocPost, locVars
  <2> QED BY <2>2, <2>3, <2>4 DEF LocNext, LocEventLoop
<1>7. locMgr' \in {"new", "on", "joined", "ended", "off"}
  BY <1>1 DEF LocInv
<1>8. locServices' \in 0..1 /\ Len(locEvents') <= 4
  BY <1>3, <1>4 DEF ServedOnce, FewEvents
<1>9. LocTypeOK'
  BY <1>5, <1>6, <1>7, <1>8 DEF LocTypeOK
<1> QED BY <1>1, <1>3, <1>4, <1>9 DEF LocTypes

-----------------------------------------------------------------------------
(* LocalCtrl: the name is found.  The safety half of LocServes: once the   *)
(* agent has left its name without having served, the handler that starts  *)
(* the service is at work, or the event that brings it is still to come.   *)
LocDeinitComes == \E i \in 1..Len(locEvents) : locEvents[i] = "deinit"
LocEndComes == locMgr \in {"on", "joined", "ended"} \/ LocDeinitComes

(* What is left on the loop after the end of provisioning.                 *)
LocLeft ==
    locMgr = "off" =>
        locEvents = <<"deinit", "got_ip">> \/ locEvents = <<"got_ip">> \/ locEvents = <<"deinit">>
            \/ locEvents = <<>>

(* The flag is up only until the end of provisioning has been handled.     *)
LocWaitsForEnd == locWaits => LocEndComes

LocNameIsFound ==
    locAgent = "over" /\ locServices = 0 /\ ~locUnheard =>
        locNamed /\ (locLoop = "deinit" \/ (locWaits /\ LocEndComes))

LEMMA LocLeftStep ==
    ASSUME LocInv, LocLeft, LocNext \/ UNCHANGED locVars
    PROVE  LocLeft'
<1> USE DEF LocLeft
<1>1. CASE LocTask \/ LocServe \/ UNCHANGED locVars
  BY <1>1 DEF LocTask, LocConnected, LocAsk, LocName, LocServe, locVars
<1>2. CASE LocStart \/ LocDeinit \/ LocGotIp
  <2>1. locEvents # <<>> /\ locEvents' = Tail(locEvents) /\ locMgr' = locMgr
    BY <1>2 DEF LocStart, LocDeinit, LocGotIp, LocHandle
  <2> QED BY <2>1, ShortQueues
<1>3. CASE LocEnd
  <2>1. locEvents # <<>> /\ Head(locEvents) = "end" /\ locEvents' = Append(Tail(locEvents), "deinit")
    BY <1>3 DEF LocEnd
  <2>2. /\ Head(<<"start">>) = "start" /\ Head(<<"got_ip">>) = "got_ip" /\ Head(<<"deinit">>) = "deinit"
        /\ Head(<<"start", "end">>) = "start" /\ Head(<<"got_ip", "end">>) = "got_ip"
        /\ Head(<<"deinit", "got_ip">>) = "deinit"
    BY ShortQueues
  <2>3. locEvents = <<"end">>
    BY <2>1, <2>2 DEF LocInv, Unstarted, Provisions, Joined, Ended
  <2>4. Append(Tail(<<"end">>), "deinit") = <<"deinit">>
    OBVIOUS
  <2> QED BY <2>1, <2>3, <2>4
<1>4. CASE LocOutside
  BY <1>4, ShortQueues DEF LocOutside, LocProvision, LocRelease, LocJoins, LocMgrEnds, LocPost,
                           LocInv, Unstarted
<1> QED BY <1>1, <1>2, <1>3, <1>4 DEF LocNext, LocEventLoop

LEMMA DeinitKept ==
    ASSUME FewEvents, locEvents # <<>>, Head(locEvents) # "deinit", LocDeinitComes,
           locEvents' = Tail(locEvents)
    PROVE  LocDeinitComes'
<1>1. PICK i \in 1..Len(locEvents) : locEvents[i] = "deinit"
  BY DEF LocDeinitComes
<1>2. /\ Len(locEvents) \in Nat /\ Len(locEvents') = Len(locEvents) - 1
      /\ \A j \in 1..Len(locEvents') : locEvents'[j] = locEvents[j + 1]
      /\ Head(locEvents) = locEvents[1]
  BY HeadTailProperties DEF FewEvents
<1>3. i # 1
  BY <1>1, <1>2
<1>4. i - 1 \in 1..Len(locEvents') /\ (i - 1) + 1 = i
  BY <1>1, <1>2, <1>3
<1>5. locEvents'[i - 1] = "deinit"
  BY <1>1, <1>2, <1>4
<1> QED BY <1>4, <1>5 DEF LocDeinitComes

LEMMA WaitsForEndStep ==
    ASSUME LocTypes, LocLeft, LocWaitsForEnd, LocNext \/ UNCHANGED locVars
    PROVE  LocWaitsForEnd'
<1>1. LocInv /\ FewEvents /\ ServedOnce
  BY DEF LocTypes
<1>2. CASE LocTask \/ LocServe \/ UNCHANGED locVars
  <2>1. UNCHANGED <<locWaits, locMgr, locEvents>>
    BY <1>2 DEF LocTask, LocConnected, LocAsk, LocName, LocServe, locVars
  <2> QED BY <2>1 DEF LocWaitsForEnd, LocEndComes, LocDeinitComes
<1>3. CASE LocStart
  <2>1. /\ locEvents # <<>> /\ Head(locEvents) = "start" /\ locMgr' = locMgr
        /\ locEvents' = Tail(locEvents)
    BY <1>3 DEF LocStart, LocHandle
  <2>2. locMgr # "off"
    BY <2>1, ShortQueues DEF LocLeft
  <2> QED BY <1>1, <2>1, <2>2 DEF LocInv, Unstarted, LocWaitsForEnd, LocEndComes
<1>4. CASE LocDeinit
  BY <1>4 DEF LocDeinit, LocWaitsForEnd
<1>5. CASE LocGotIp
  <2>1. /\ locEvents # <<>> /\ Head(locEvents) = "got_ip" /\ locMgr' = locMgr
        /\ locEvents' = Tail(locEvents) /\ locWaits' = locWaits
    BY <1>5 DEF LocGotIp, LocHandle
  <2> QED BY <1>1, <2>1, DeinitKept DEF LocWaitsForEnd, LocEndComes
<1>6. CASE LocEnd
  <2>1. locEvents # <<>> /\ locEvents' = Append(Tail(locEvents), "deinit")
    BY <1>6 DEF LocEnd
  <2>2. Tail(locEvents) \in Seq({"start", "deinit", "got_ip", "end"})
    BY <1>1, <2>1, HeadTailProperties DEF FewEvents
  <2>3. /\ Len(locEvents') = Len(Tail(locEvents)) + 1 /\ Len(Tail(locEvents)) \in Nat
        /\ locEvents'[Len(Tail(locEvents)) + 1] = "deinit"
    BY <2>1, <2>2, AppendProperties, LenProperties
  <2> QED BY <2>3 DEF LocWaitsForEnd, LocEndComes, LocDeinitComes
<1>7. CASE LocProvision \/ LocJoins \/ LocMgrEnds
  BY <1>7 DEF LocProvision, LocJoins, LocMgrEnds, LocPost, LocWaitsForEnd, LocEndComes
<1>8. CASE LocRelease
  <2>1. locMgr = "new" /\ locEvents = <<>> /\ locWaits' = locWaits
    BY <1>1, <1>8 DEF LocRelease, LocPost, LocInv, Unstarted
  <2>2. ~locWaits
    BY <2>1 DEF LocWaitsForEnd, LocEndComes, LocDeinitComes
  <2> QED BY <2>1, <2>2 DEF LocWaitsForEnd
<1> QED BY <1>2, <1>3, <1>4, <1>5, <1>6, <1>7, <1>8 DEF LocNext, LocEventLoop, LocOutside

LEMMA NameIsFoundStep ==
    ASSUME LocTypes, LocLeft, LocWaitsForEnd, LocNameIsFound, LocNext \/ UNCHANGED locVars
    PROVE  LocNameIsFound'
<1>1. LocInv /\ ServedOnce
  BY DEF LocTypes
<1>2. locWaits' => LocEndComes'
  BY WaitsForEndStep DEF LocWaitsForEnd
<1>3. CASE LocConnected
  BY <1>3 DEF LocConnected, LocNameIsFound
<1>4. CASE LocAsk
  BY <1>1, <1>4 DEF LocAsk, LocNameIsFound, ServedOnce
<1>5. CASE LocName
  <2>1. CASE LocHandled
    BY <1>5, <2>1 DEF LocName, LocNameIsFound
  <2>2. CASE ~LocHandled
    <3>1. locAgent = "name" /\ locNamed' = TRUE /\ locLoop' = locLoop /\ locWaits' = locWaits
      BY <1>5 DEF LocName
    <3>2. locLoop = "deinit" \/ locWaits
      BY <1>1, <2>2, <3>1 DEF LocHandled, LocTypes, LocTypeOK, LocInv, Unstarted, Provisions,
                              Joined, Ended
    <3> QED BY <1>2, <3>1, <3>2 DEF LocNameIsFound
  <2> QED BY <2>1, <2>2
<1>6. CASE LocStart
  <2>1. locWaits' = TRUE /\ UNCHANGED <<locNamed, locServices, locAgent, locLoop, locUnheard>>
    BY <1>6 DEF LocStart, LocOnStart
  <2> QED BY <1>2, <2>1 DEF LocNameIsFound
<1>7. CASE LocDeinit
  <2>1. /\ UNCHANGED <<locNamed, locServices, locAgent, locUnheard>>
        /\ locWaits => locLoop' = "deinit"
        /\ locLoop = "idle"
    BY <1>7 DEF LocDeinit, LocHandle
  <2> QED BY <2>1 DEF LocNameIsFound
<1>8. CASE LocServe
  BY <1>1, <1>8 DEF LocServe, LocNameIsFound, ServedOnce
<1>9. CASE LocGotIp
  <2>1. /\ UNCHANGED <<locWaits, locNamed, locServices, locLoop, locUnheard>>
        /\ locAgent' = "over" => locAgent = "over"
    BY <1>9 DEF LocGotIp
  <2> QED BY <1>2, <2>1 DEF LocNameIsFound
<1>10. CASE LocEnd \/ LocOutside \/ UNCHANGED locVars
  <2>1. UNCHANGED <<locWaits, locNamed, locServices, locAgent, locLoop, locUnheard>>
    BY <1>10 DEF LocEnd, LocOutside, LocProvision, LocRelease, LocJoins, LocMgrEnds, LocPost,
                 locVars
  <2> QED BY <1>2, <2>1 DEF LocNameIsFound
<1> QED BY <1>3, <1>4, <1>5, <1>6, <1>7, <1>8, <1>9, <1>10 DEF LocNext, LocTask, LocEventLoop

(* Local control that the agent has asked for is not forgotten: unless the *)
(* end was handled between the agent's look at the flag and its leaving of *)
(* the name, the handler finds the name (esp_rmaker_local_ctrl.c:355-363,  *)
(* 400-407).                                                               *)
THEOREM NameIsFound == LocSpec => []LocNameIsFound
<1> DEFINE Inv == LocTypes /\ LocLeft /\ LocWaitsForEnd /\ LocNameIsFound
<1>1. LocInit => Inv
  <2>1. LocInit => LocLeft /\ LocWaitsForEnd /\ LocNameIsFound
    BY DEF LocInit, LocLeft, LocWaitsForEnd, LocNameIsFound
  <2> QED BY <2>1, LocTypesBegin
<1>2. Inv /\ [LocNext]_locVars => Inv'
  <2> SUFFICES ASSUME Inv, LocNext \/ UNCHANGED locVars PROVE Inv'
    OBVIOUS
  <2>1. LocInv /\ LocLeft'
    BY LocLeftStep DEF LocTypes
  <2>2. LocTypes' /\ LocWaitsForEnd' /\ LocNameIsFound'
    BY LocTypesStep, WaitsForEndStep, NameIsFoundStep
  <2> QED BY <2>1, <2>2
<1>3. Inv => LocNameIsFound
  OBVIOUS
<1> QED BY <1>1, <1>2, <1>3, PTL DEF LocSpec

-----------------------------------------------------------------------------
(* MqttGlue: whole messages.                                               *)
(* A message on its way, and a buffer.                                     *)
Arrivals == [number : Nat \ {0}, topic : GluTopics, parts : Nat, next : Nat \ {0}]
Buffers == [number : Nat \ {0}, topic : GluTopics, parts : Nat, has : SUBSET (Nat \X Nat)]

PartsOf(n, k) == {n} \X (1..k)

DataTypes ==
    /\ gluMessages \in Nat
    /\ gluIn = GluNoMessage \/ (gluIn \in Arrivals /\ gluIn.next <= gluIn.parts)
    /\ gluLong = GluNoMessage \/ gluLong \in Buffers

(* After the first part of a message the buffer is the message's own.      *)
Collected ==
    gluIn # GluNoMessage /\ gluIn.next > 1 /\ gluLong # GluNoMessage =>
        /\ gluLong.number = gluIn.number /\ gluLong.parts = gluIn.parts
        /\ gluLong.has = PartsOf(gluIn.number, gluIn.next - 1)

GlueInv == DataTypes /\ Collected /\ GluWholeMessages

(* One part more.                                                          *)
LEMMA OneMore ==
    ASSUME NEW n \in Nat, NEW k \in Nat \ {0}
    PROVE  PartsOf(n, k) = PartsOf(n, k - 1) \cup {<<n, k>>} /\ PartsOf(n, k) \subseteq Nat \X Nat
BY DEF PartsOf

(* A part that arrives.                                                    *)
LEMMA LongDataStep == GlueInv /\ GluLongData => GlueInv'
<1> SUFFICES ASSUME GlueInv, GluLongData PROVE GlueInv'
  OBVIOUS
<1> DEFINE b == GluBuffer(gluIn)
<1> DEFINE filled == [b EXCEPT !.has = @ \cup {<<gluIn.number, gluIn.next>>}]
<1>1. gluIn # GluNoMessage /\ gluIn \in Arrivals /\ gluIn.next <= gluIn.parts /\ gluMessages' = gluMessages
  BY DEF GluLongData, GlueInv, DataTypes
<1>2. gluIn' = IF gluIn.next = gluIn.parts THEN GluNoMessage ELSE [gluIn EXCEPT !.next = @ + 1]
  BY DEF GluLongData
<1>3. \/ b # GluNoMessage /\ gluIn.next < gluIn.parts /\ gluLong' = filled /\ gluGot' = gluGot
      \/ b # GluNoMessage /\ gluIn.next = gluIn.parts /\ gluLong' = GluNoMessage /\ GluCallback(filled)
      \/ gluLong' = GluNoMessage /\ gluGot' = gluGot
  BY DEF GluLongData
<1>4. b # GluNoMessage => /\ b \in Buffers /\ b.number = gluIn.number /\ b.parts = gluIn.parts
                          /\ b.has = PartsOf(gluIn.number, gluIn.next - 1)
  <2>1. CASE gluIn.next = 1
    <3>1. b = [number |-> gluIn.number, topic |-> gluIn.topic, parts |-> gluIn.parts, has |-> {}]
      BY <2>1 DEF GluBuffer
    <3>2. PartsOf(gluIn.number, 0) = {}
      BY DEF PartsOf
    <3> QED BY <1>1, <2>1, <3>1, <3>2 DEF Arrivals, Buffers
  <2>2. CASE gluIn.next # 1
    <3>1. b = gluLong /\ gluIn.next > 1
      BY <1>1, <2>2 DEF GluBuffer, Arrivals
    <3> QED BY <1>1, <3>1 DEF GlueInv, DataTypes, Collected
  <2> QED BY <2>1, <2>2
<1>5. b # GluNoMessage => /\ filled \in Buffers /\ filled.number = gluIn.number /\ filled.parts = gluIn.parts
                          /\ filled.has = PartsOf(gluIn.number, gluIn.next)
  <2>1. gluIn.number \in Nat /\ gluIn.next \in Nat \ {0}
    BY <1>1 DEF Arrivals
  <2>2. /\ PartsOf(gluIn.number, gluIn.next) = PartsOf(gluIn.number, gluIn.next - 1) \cup {<<gluIn.number, gluIn.next>>}
        /\ PartsOf(gluIn.number, gluIn.next) \subseteq Nat \X Nat
    BY <2>1, OneMore
  <2> QED BY <1>4, <2>2 DEF Buffers
<1> HIDE DEF b, filled
<1>6. gluIn' # GluNoMessage => /\ gluIn' \in Arrivals /\ gluIn'.next <= gluIn'.parts /\ gluIn.next < gluIn.parts
                               /\ gluIn'.number = gluIn.number /\ gluIn'.parts = gluIn.parts
                               /\ gluIn'.next - 1 = gluIn.next
  BY <1>1, <1>2 DEF Arrivals
<1>7. DataTypes'
  BY <1>1, <1>3, <1>5, <1>6 DEF GlueInv, DataTypes
<1>8. Collected'
  <2>1. CASE gluLong' = GluNoMessage
    BY <2>1 DEF Collected
  <2>2. CASE gluLong' = filled /\ b # GluNoMessage
    BY <1>5, <1>6, <2>2 DEF Collected
  <2> QED BY <2>1, <2>2, <1>3
<1>9. GluWholeMessages'
  <2>1. CASE gluGot' = gluGot
    BY <2>1 DEF GlueInv, GluWholeMessages
  <2>2. CASE gluGot' = filled /\ b # GluNoMessage /\ gluIn.next = gluIn.parts
    BY <1>5, <2>2 DEF GluWholeMessages, PartsOf
  <2> QED BY <2>1, <2>2, <1>3 DEF GluCallback
<1> QED BY <1>7, <1>8, <1>9 DEF GlueInv

(* Every step preserves the invariant.                                     *)
LEMMA GlueStep == GlueInv /\ [GluNextStep]_gluVars => GlueInv'
<1> SUFFICES ASSUME GlueInv, [GluNextStep]_gluVars PROVE GlueInv'
  OBVIOUS
<1>1. CASE UNCHANGED gluData
  BY <1>1 DEF gluData, GlueInv, DataTypes, Collected, GluWholeMessages
<1>2. CASE GluDrop
  BY <1>2 DEF GluDrop, GlueInv, DataTypes, Collected, GluWholeMessages
<1>3. ASSUME NEW t \in GluTopics, GluMessage(t) PROVE GlueInv'
  <2>1. PICK n \in 1..GluParts :
           gluIn' = [number |-> gluMessages', topic |-> t, parts |-> n, next |-> 1]
    BY <1>3 DEF GluMessage
  <2>2. /\ gluMessages' = gluMessages + 1 /\ gluLong' = gluLong /\ gluGot' = GluNoMessage
    BY <1>3 DEF GluMessage
  <2>3. gluIn' \in Arrivals /\ gluIn'.next <= gluIn'.parts /\ gluIn'.next = 1
    BY <2>1, <2>2, GluAssumption DEF Arrivals, GlueInv, DataTypes
  <2> QED BY <2>2, <2>3 DEF GlueInv, DataTypes, Collected, GluWholeMessages
<1>4. CASE GluShortData
  <2> DEFINE data == [number |-> gluIn.number, topic |-> gluIn.topic, parts |-> 1,
                      has |-> {<<gluIn.number, 1>>}]
  <2>1. gluIn' = GluNoMessage /\ gluLong' = GluNoMessage /\ gluMessages' = gluMessages /\ gluGot' \in {data, gluGot}
    BY <1>4 DEF GluShortData, GluCallback
  <2>2. data.has = {data.number} \X (1..data.parts)
    OBVIOUS
  <2> HIDE DEF data
  <2> QED BY <2>1, <2>2 DEF GlueInv, DataTypes, Collected, GluWholeMessages
<1>5. ASSUME NEW c \in GluCallers, GluAgent(c) PROVE GlueInv'
  BY <1>5, <1>1 DEF GluAgent, GluSubscribe, GluUnsubscribe, GluBegin, GluSend, GluStore, GluUnsend, GluClear
<1>6. CASE GluConnect \/ GluResubscribe \/ GluNotice \/ GluBrokerTakes
  BY <1>6, <1>1 DEF GluConnect, GluResubscribe, GluNotice, GluBrokerTakes
<1>7. CASE UNCHANGED gluVars
  BY <1>7, <1>1 DEF gluVars
<1> QED BY <1>2, <1>3, <1>4, <1>5, <1>6, <1>7, LongDataStep DEF GluNextStep, GluClient, GluOutside

(* A callback is given one message, all of it, for any number of parts,    *)
(* messages and lost connections (esp-mqtt-glue.c:190-222, 268-288).       *)
THEOREM MessagesAreWhole == GluSpec => []GluWholeMessages
<1>1. GluInit => GlueInv
  BY DEF GluInit, GlueInv, DataTypes, Collected, GluWholeMessages
<1>2. GlueInv => GluWholeMessages
  BY DEF GlueInv
<1> QED BY <1>1, <1>2, GlueStep, PTL DEF GluSpec

(* MqttGlue: the subscriptions come again.                                 *)
(* The requests on the wire, and the calls of the agent's tasks.           *)
Requests == [op : {"sub", "unsub"}, topic : GluTopics]
Steps == {"send", "store", "stale", "unsend", "clear"}
Calls == [pc : Steps \cup {"idle"}, topic : GluTopics \cup {"none"}, at : 0..GluSlots]

TableTypes ==
    /\ gluSlots \in [1..GluSlots -> GluTopics \cup {"free"}]
    /\ gluCall \in [GluCallers -> Calls]
    /\ \A c \in GluCallers :
          \/ gluCall[c] = GluNoCall
          \/ gluCall[c].pc \in Steps /\ gluCall[c].topic \in GluOf(c) /\ gluCall[c].at \in 1..GluSlots
    /\ gluLink \in {"up", "lost", "down"} /\ gluNext \in 0..GluSlots
    /\ gluNext # 0 => gluLink # "down"
    /\ gluWire \in Seq(Requests)
    /\ gluBroker \subseteq GluTopics /\ gluHeld \subseteq GluTopics /\ gluExcused \subseteq GluTopics

Gives(t) == [op |-> "sub", topic |-> t]
Takes(t) == [op |-> "unsub", topic |-> t]

(* The broker will hold the topic when it has taken every request.         *)
WillKnow(t) ==
    \/ /\ t \in gluBroker
       /\ \A k \in 1..Len(gluWire) : gluWire[k] # Takes(t)
    \/ \E k \in 1..Len(gluWire) :
          /\ gluWire[k] = Gives(t)
          /\ \A m \in k + 1..Len(gluWire) : gluWire[m] # Takes(t)

(* A slot that no call works on, and one that the client comes to yet.     *)
Unshared(i) == \A c \in GluCallers : gluCall[c].at # i
Comes(i) == gluNext # 0 /\ i \in gluNext..GluSlots

(* A topic is in the table once.                                           *)
Once == \A i, j \in 1..GluSlots : gluSlots[i] = gluSlots[j] /\ gluSlots[i] # "free" => i = j

(* A subscription has its slot to itself, unless its topic is excused; the *)
(* slot of an unsubscription is not empty.                                 *)
Subscribing(c) ==
    LET call == gluCall[c]
    IN  /\ \A i \in 1..GluSlots : gluSlots[i] # call.topic
        /\ call.topic \notin gluExcused => gluSlots[call.at] = "free" /\ GluSharing(c, call.at) = {}
        /\ call.pc = "store" => gluLink = "up" /\ WillKnow(call.topic)

Unsubscribing(c) == c = "work" /\ gluSlots[gluCall[c].at] # "free"

CallFits ==
    \A c \in GluCallers :
        /\ gluCall[c].pc # "idle" => gluCall[c].topic \notin gluHeld
        /\ gluCall[c].pc \in {"send", "store", "stale"} => Subscribing(c)
        /\ gluCall[c].pc \in {"unsend", "clear"} => Unsubscribing(c)

(* A topic reported good has a slot that no call can take from it, and the *)
(* broker knows it or will be told of it.                                  *)
HeldFits ==
    \A t \in gluHeld \ gluExcused : \E i \in 1..GluSlots :
        /\ gluSlots[i] = t /\ Unshared(i)
        /\ gluLink = "up" => WillKnow(t) \/ Comes(i)

TableInv == TableTypes /\ Once /\ CallFits /\ HeldFits

(* The topics of the two callers are apart.                                *)
LEMMA TopicsApart ==
    ASSUME NEW c \in GluCallers, NEW t \in GluOf(c)
    PROVE  /\ t \in GluTopics /\ t # "free"
           /\ \A d \in GluCallers \ {c} : t \notin GluOf(d)
BY GluAssumption DEF GluCallers, GluOf, GluTopics

(* A call at work.                                                         *)
LEMMA CallAtWork ==
    ASSUME TableTypes, NEW c \in GluCallers, gluCall[c].pc # "idle"
    PROVE  /\ gluCall[c] \in Calls /\ gluCall[c].pc \in Steps
           /\ gluCall[c].topic \in GluOf(c) /\ gluCall[c].at \in 1..GluSlots
<1>1. gluCall[c] # GluNoCall
  BY DEF GluNoCall
<1> QED BY <1>1 DEF TableTypes

(* An idle call works on no slot.                                          *)
LEMMA CallIdle ==
    ASSUME TableTypes, NEW c \in GluCallers, gluCall[c].pc = "idle"
    PROVE  gluCall[c] = GluNoCall /\ gluCall[c].at = 0
BY DEF TableTypes, GluNoCall, Steps

(* A call goes on, or ends.                                                *)
LEMMA CallGoes ==
    ASSUME TableTypes, NEW c \in GluCallers, gluCall[c].pc # "idle", NEW pc \in Steps,
           GluGoes(c, pc)
    PROVE  /\ gluCall' \in [GluCallers -> Calls]
           /\ \A d \in GluCallers :
                 /\ gluCall'[d].pc = IF d = c THEN pc ELSE gluCall[d].pc
                 /\ gluCall'[d].topic = gluCall[d].topic /\ gluCall'[d].at = gluCall[d].at
                 /\ \/ gluCall'[d] = GluNoCall
                    \/ /\ gluCall'[d].pc \in Steps /\ gluCall'[d].topic \in GluOf(d)
                       /\ gluCall'[d].at \in 1..GluSlots
<1>1. \A d \in GluCallers : gluCall'[d] = IF d = c THEN [gluCall[c] EXCEPT !.pc = pc] ELSE gluCall[d]
  BY DEF GluGoes, TableTypes
<1>2. /\ gluCall[c] \in Calls /\ gluCall[c].topic \in GluOf(c) /\ gluCall[c].at \in 1..GluSlots
  BY CallAtWork
<1>3. [gluCall[c] EXCEPT !.pc = pc] \in Calls
  BY <1>2 DEF Calls
<1>4. gluCall' \in [GluCallers -> Calls]
  BY <1>3 DEF GluGoes, TableTypes
<1>5. ASSUME NEW d \in GluCallers
      PROVE  /\ gluCall'[d].pc = IF d = c THEN pc ELSE gluCall[d].pc
             /\ gluCall'[d].topic = gluCall[d].topic /\ gluCall'[d].at = gluCall[d].at
             /\ \/ gluCall'[d] = GluNoCall
                \/ /\ gluCall'[d].pc \in Steps /\ gluCall'[d].topic \in GluOf(d)
                   /\ gluCall'[d].at \in 1..GluSlots
  <2>1. CASE d = c
    BY <1>1, <1>2, <2>1 DEF Calls
  <2>2. CASE d # c
    BY <1>1, <2>2 DEF TableTypes
  <2> QED BY <2>1, <2>2
<1> QED BY <1>4, <1>5

LEMMA CallEnds ==
    ASSUME TableTypes, NEW c \in GluCallers, GluEnds(c)
    PROVE  /\ gluCall' \in [GluCallers -> Calls]
           /\ gluCall'[c] = GluNoCall /\ gluCall'[c].pc = "idle" /\ gluCall'[c].at = 0
           /\ \A d \in GluCallers \ {c} : gluCall'[d] = gluCall[d]
BY GluAssumption DEF GluEnds, TableTypes, GluNoCall, Calls

(* A request more on the wire.                                             *)
LEMMA OneRequestMore ==
    ASSUME gluWire \in Seq(Requests), NEW r \in Requests, gluWire' = Append(gluWire, r),
           gluBroker' = gluBroker, NEW t \in GluTopics
    PROVE  /\ WillKnow(t) /\ r # Takes(t) => WillKnow(t)'
           /\ r = Gives(t) => WillKnow(t)'
<1> DEFINE n == Len(gluWire)
<1>1. /\ n \in Nat /\ Len(gluWire') = n + 1 /\ gluWire'[n + 1] = r
      /\ \A k \in 1..n : gluWire'[k] = gluWire[k]
  OBVIOUS
<1>2. ASSUME r = Gives(t) PROVE WillKnow(t)'
  BY <1>1, <1>2 DEF WillKnow
<1>3. ASSUME WillKnow(t), r # Takes(t) PROVE WillKnow(t)'
  <2>1. CASE t \in gluBroker /\ \A k \in 1..n : gluWire[k] # Takes(t)
    <3>1. ASSUME NEW k \in 1..n + 1 PROVE gluWire'[k] # Takes(t)
      <4>1. CASE k \in 1..n
        BY <4>1, <1>1, <2>1
      <4>2. CASE k = n + 1
        BY <4>2, <1>1, <1>3
      <4> QED BY <4>1, <4>2, <1>1
    <3>2. Takes(t)' = Takes(t)
      BY DEF Takes
    <3> QED BY <2>1, <3>1, <3>2, <1>1 DEF WillKnow
  <2>2. ASSUME NEW k \in 1..n, gluWire[k] = Gives(t),
               \A m \in k + 1..n : gluWire[m] # Takes(t)
        PROVE  WillKnow(t)'
    <3>1. ASSUME NEW m \in k + 1..n + 1 PROVE gluWire'[m] # Takes(t)
      <4>1. CASE m \in k + 1..n
        BY <4>1, <1>1, <2>2
      <4>2. CASE m = n + 1
        BY <4>2, <1>1, <1>3
      <4> QED BY <4>1, <4>2, <1>1
    <3>2. gluWire'[k] = Gives(t) /\ k \in 1..n + 1
      BY <1>1, <2>2
    <3> QED BY <3>1, <3>2, <1>1 DEF WillKnow, Gives, Takes
  <2> QED BY <2>1, <2>2, <1>3 DEF WillKnow
<1> QED BY <1>2, <1>3

(* The broker takes the first request.                                     *)
LEMMA OneRequestLess ==
    ASSUME gluWire \in Seq(Requests), GluBrokerTakes, NEW t \in GluTopics, WillKnow(t)
    PROVE  WillKnow(t)'
<1> DEFINE n == Len(gluWire)
<1> DEFINE h == gluWire[1]
<1>1. /\ n \in Nat \ {0} /\ Len(gluWire') = n - 1 /\ h \in Requests
      /\ \A k \in 1..n - 1 : gluWire'[k] = gluWire[k + 1]
      /\ gluWire' \in Seq(Requests)
  <2>1. gluWire # <<>> /\ gluWire' = Tail(gluWire)
    BY DEF GluBrokerTakes
  <2>2. n \in Nat \ {0}
    BY <2>1
  <2>3. h \in Requests
    BY <2>2
  <2> QED BY <2>1, <2>2, <2>3, HeadTailProperties
<1>2. gluBroker' = IF h.op = "sub" THEN gluBroker \cup {h.topic} ELSE gluBroker \ {h.topic}
  <2>1. Head(gluWire) = h
    BY <1>1
  <2> QED BY <2>1 DEF GluBrokerTakes
<1>3. h = Gives(t) => t \in gluBroker'
  BY <1>2 DEF Gives
<1>4. h # Takes(t) /\ t \in gluBroker => t \in gluBroker'
  BY <1>1, <1>2 DEF Takes, Requests
<1> HIDE DEF h
<1>5. CASE t \in gluBroker /\ \A k \in 1..n : gluWire[k] # Takes(t)
  <2>1. h # Takes(t)
    BY <1>1, <1>5 DEF h
  <2>2. \A k \in 1..n - 1 : gluWire'[k] # Takes(t)
    BY <1>1, <1>5
  <2> QED BY <1>1, <1>4, <1>5, <2>1, <2>2 DEF WillKnow, Takes
<1>6. ASSUME NEW k \in 1..n, gluWire[k] = Gives(t), \A m \in k + 1..n : gluWire[m] # Takes(t)
      PROVE  WillKnow(t)'
  <2>1. \A m \in k..n - 1 : gluWire'[m] # Takes(t)
    BY <1>1, <1>6
  <2>2. CASE k = 1
    <3>1. h = Gives(t)
      BY <1>6, <2>2 DEF h
    <3>2. \A m \in 1..n - 1 : gluWire'[m] # Takes(t)
      BY <2>1, <2>2
    <3> QED BY <1>1, <1>3, <3>1, <3>2 DEF WillKnow, Takes
  <2>3. CASE k # 1
    <3>1. k - 1 \in 1..n - 1 /\ gluWire'[k - 1] = Gives(t)
      BY <1>1, <1>6, <2>3
    <3>2. \A m \in (k - 1) + 1..n - 1 : gluWire'[m] # Takes(t)
      BY <1>1, <2>1
    <3> HIDE DEF n
    <3>3. \E j \in 1..n - 1 :
             gluWire'[j] = Gives(t) /\ \A m \in j + 1..n - 1 : gluWire'[m] # Takes(t)
      BY <3>1, <3>2
    <3> QED BY <1>1, <3>3 DEF WillKnow, Takes, Gives
  <2> QED BY <2>2, <2>3
<1> QED BY <1>5, <1>6 DEF WillKnow

(* What a request by the agent's call or by the client does to the wire.   *)
LEMMA RequestKeeps ==
    ASSUME TableTypes, gluBroker' = gluBroker, NEW u \in GluTopics, NEW op \in {"sub", "unsub"},
           gluWire' = gluWire \/ GluRequest(op, u)
    PROVE  /\ gluWire' \in Seq(Requests)
           /\ \A t \in GluTopics : WillKnow(t) /\ (op = "sub" \/ t # u) => WillKnow(t)'
           /\ GluRequest(op, u) /\ gluLink = "up" /\ op = "sub" => WillKnow(u)'
<1> DEFINE r == [op |-> op, topic |-> u]
<1>1. r \in Requests /\ gluWire \in Seq(Requests)
  BY DEF Requests, TableTypes
<1>2. CASE gluWire' = gluWire /\ ~(GluRequest(op, u) /\ gluLink = "up")
  BY <1>1, <1>2 DEF WillKnow, Gives, Takes
<1>3. CASE GluRequest(op, u) /\ gluLink # "up"
  <2>1. gluWire' = gluWire
    BY <1>3 DEF GluRequest
  <2> QED BY <1>2, <1>3, <2>1
<1>4. CASE GluRequest(op, u) /\ gluLink = "up"
  <2>1. gluWire' = Append(gluWire, r)
    BY <1>4 DEF GluRequest
  <2>2. gluWire' \in Seq(Requests)
    BY <1>1, <2>1
  <2>3. \A t \in GluTopics : op = "sub" \/ t # u => r # Takes(t)
    BY DEF Takes
  <2>4. op = "sub" => r = Gives(u)
    BY DEF Gives
  <2> HIDE DEF r
  <2> QED BY <1>1, <2>1, <2>2, <2>3, <2>4, OneRequestMore
<1> QED BY <1>2, <1>3, <1>4

(* A call begins: a subscription looks for a free slot, an unsubscription  *)
(* for the topic's.                                                        *)
LEMMA TableBegins ==
    ASSUME TableInv, NEW c \in GluCallers, GluSubscribe(c) \/ GluUnsubscribe(c)
    PROVE  TableInv'
<1>1. PICK t \in GluOf(c), i \in 1..GluSlots, pc \in {"send", "unsend"} :
         /\ gluCall' = [gluCall EXCEPT ![c] = [pc |-> pc, topic |-> t, at |-> i]]
         /\ gluExcused' = IF GluSharing(c, i) = {} THEN gluExcused \ {t}
                          ELSE gluExcused \cup {t} \cup {gluCall[d].topic : d \in GluSharing(c, i)}
         /\ pc = "send" => gluSlots[i] = "free" /\ \A j \in 1..GluSlots : gluSlots[j] # t
         /\ pc = "unsend" => gluSlots[i] = t /\ c = "work"
  <2>1. CASE GluSubscribe(c)
    <3>1. PICK t \in GluOf(c) :
             (\A j \in 1..GluSlots : gluSlots[j] # t) /\ GluBegin(c, "send", t, "free")
      BY <2>1 DEF GluSubscribe
    <3> QED BY <3>1 DEF GluBegin, GluFirst
  <2>2. CASE GluUnsubscribe(c)
    <3>1. PICK t \in GluOf(c) : c = "work" /\ GluBegin(c, "unsend", t, t)
      BY <2>2 DEF GluUnsubscribe
    <3> QED BY <3>1 DEF GluBegin, GluFirst
  <2> QED BY <2>1, <2>2
<1>2. /\ UNCHANGED <<gluSlots, gluLink, gluNext, gluWire, gluBroker>>
      /\ \E u \in GluOf(c) : gluHeld' = gluHeld \ {u} /\ gluCall'[c].topic = u
      /\ gluCall[c] = GluNoCall /\ TableTypes
  BY DEF GluSubscribe, GluUnsubscribe, GluBegin, gluNet, TableInv, TableTypes
<1>3. /\ gluCall' \in [GluCallers -> Calls]
      /\ gluCall'[c].pc = pc /\ gluCall'[c].topic = t /\ gluCall'[c].at = i
      /\ \A d \in GluCallers \ {c} : gluCall'[d] = gluCall[d]
  <2>1. [pc |-> pc, topic |-> t, at |-> i] \in Calls
    BY TopicsApart, GluAssumption DEF Calls, Steps
  <2> QED BY <1>1, <1>2, <2>1 DEF TableTypes
<1>4. gluHeld' = gluHeld \ {t}
  BY <1>2, <1>3
<1>5. \A d \in GluSharing(c, i) : gluCall[d].topic \in GluTopics /\ d \in GluCallers \ {c} /\ gluCall[d].at = i
  <2> TAKE d \in GluSharing(c, i)
  <2>1. d \in GluCallers \ {c} /\ gluCall[d].at = i
    BY DEF GluSharing
  <2>2. gluCall[d].pc # "idle"
    BY <1>2, <2>1, CallIdle
  <2> QED BY <1>2, <2>1, <2>2, CallAtWork, TopicsApart
<1>6. TableTypes'
  <2>1. gluExcused' \subseteq GluTopics
    BY <1>1, <1>2, <1>5, TopicsApart DEF TableTypes
  <2>2. \A d \in GluCallers :
           \/ gluCall'[d] = GluNoCall
           \/ gluCall'[d].pc \in Steps /\ gluCall'[d].topic \in GluOf(d) /\ gluCall'[d].at \in 1..GluSlots
    BY <1>2, <1>3 DEF TableTypes, Steps
  <2> QED BY <1>2, <1>3, <1>4, <2>1, <2>2 DEF TableTypes
<1>7. \A u \in GluTopics : WillKnow(u) => WillKnow(u)'
  BY <1>2 DEF WillKnow, Gives, Takes
<1>8. Once'
  BY <1>2 DEF TableInv, Once
<1>9. ASSUME NEW d \in GluCallers \ {c}, gluCall[d].pc \in {"send", "store", "stale"}
      PROVE  Subscribing(d)'
  <2>1. /\ gluCall'[d] = gluCall[d] /\ Subscribing(d)
        /\ gluCall[d].topic \in GluOf(d) /\ gluCall[d].topic # t /\ gluCall[d].topic \in GluTopics
    <3>1. gluCall[d].topic \in GluOf(d)
      BY <1>2, <1>9, CallAtWork
    <3> QED BY <1>3, <1>9, <3>1, TopicsApart DEF TableInv, CallFits
  <2>2. CASE gluCall[d].at = i
    <3>1. d \in GluSharing(c, i)
      BY <2>2 DEF GluSharing
    <3>2. gluCall[d].topic \in gluExcused'
      BY <1>1, <3>1
    <3> QED BY <1>2, <1>7, <2>1, <3>2 DEF Subscribing
  <2>3. CASE gluCall[d].at # i
    <3>1. gluCall[d].topic \in gluExcused => gluCall[d].topic \in gluExcused'
      BY <1>1, <2>1
    <3>2. GluSharing(d, gluCall[d].at) = {} => \A e \in GluCallers \ {d} : gluCall'[e].at # gluCall[d].at
      BY <1>3, <2>3 DEF GluSharing
    <3>3. GluSharing(d, gluCall[d].at) = {} => GluSharing(d, gluCall[d].at)' = {}
      BY <2>1, <3>2 DEF GluSharing
    <3> QED BY <1>2, <1>7, <2>1, <3>1, <3>3 DEF Subscribing
  <2> QED BY <2>2, <2>3
<1>10. pc = "send" => Subscribing(c)'
  <2>1. t \notin gluExcused' => GluSharing(c, i) = {}
    BY <1>1
  <2>2. GluSharing(c, i) = {} => GluSharing(c, gluCall[c].at)' = {}
    BY <1>3 DEF GluSharing
  <2> QED BY <1>1, <1>2, <1>3, <2>1, <2>2 DEF Subscribing
<1>11. CallFits'
  <2>1. \A d \in GluCallers \ {c} : gluCall'[d].pc \in {"unsend", "clear"} => Unsubscribing(d)'
    BY <1>2, <1>3 DEF TableInv, CallFits, Unsubscribing
  <2>2. pc = "unsend" => Unsubscribing(c)'
    BY <1>1, <1>2, <1>3, TopicsApart DEF Unsubscribing
  <2>3. \A d \in GluCallers : gluCall'[d].pc # "idle" => gluCall'[d].topic \notin gluHeld'
    BY <1>3, <1>4 DEF TableInv, CallFits
  <2> QED BY <1>3, <1>9, <1>10, <2>1, <2>2, <2>3 DEF CallFits
<1>12. HeldFits'
  <2> SUFFICES ASSUME NEW u \in gluHeld' \ gluExcused'
               PROVE  \E j \in 1..GluSlots :
                         /\ gluSlots'[j] = u /\ Unshared(j)'
                         /\ gluLink' = "up" => WillKnow(u)' \/ Comes(j)'
    BY DEF HeldFits
  <2>1. u \in gluHeld \ gluExcused /\ u # t /\ u \in GluTopics /\ u # "free"
    BY <1>1, <1>2, <1>4, GluAssumption DEF TableTypes
  <2>2. PICK j \in 1..GluSlots : /\ gluSlots[j] = u /\ Unshared(j)
                                 /\ gluLink = "up" => WillKnow(u) \/ Comes(j)
    BY <2>1 DEF TableInv, HeldFits
  <2>3. j # i
    BY <1>1, <2>1, <2>2
  <2>4. Unshared(j)'
    BY <1>3, <2>2, <2>3 DEF Unshared
  <2> QED BY <1>2, <1>7, <2>1, <2>2, <2>4 DEF Comes
<1> QED BY <1>6, <1>8, <1>11, <1>12 DEF TableInv

(* The request of a call is put on the wire, or lost with the connection.  *)
LEMMA TableRequests ==
    ASSUME TableInv, NEW c \in GluCallers, GluSend(c) \/ GluUnsend(c)
    PROVE  TableInv'
<1> DEFINE op == IF gluCall[c].pc = "send" THEN "sub" ELSE "unsub"
<1>1. /\ gluCall[c].pc \in {"send", "unsend"} /\ TableTypes
      /\ UNCHANGED <<gluSlots, gluExcused, gluHeld, gluLink, gluNext, gluBroker>>
  BY DEF GluSend, GluUnsend, TableInv
<1>2. PICK u \in GluTopics :
         /\ gluCall[c].pc = "send" => u = gluCall[c].topic
         /\ gluCall[c].pc = "unsend" => u = gluSlots[gluCall[c].at]
  <2>1. gluCall[c].topic \in GluTopics /\ gluCall[c].at \in 1..GluSlots
    BY <1>1, CallAtWork, TopicsApart
  <2>2. gluCall[c].pc = "unsend" => gluSlots[gluCall[c].at] \in GluTopics
    BY <1>1, <2>1 DEF TableInv, TableTypes, CallFits, Unsubscribing
  <2> QED BY <1>1, <2>1, <2>2
<1>3. gluWire' = gluWire \/ GluRequest(op, u)
  BY <1>1, <1>2 DEF GluSend, GluUnsend
<1>4. op \in {"sub", "unsub"} /\ (op = "sub" <=> gluCall[c].pc = "send")
  BY <1>1
<1>5. \/ GluEnds(c)
      \/ gluCall[c].pc = "send" /\ GluGoes(c, "stale")
      \/ gluCall[c].pc = "send" /\ GluGoes(c, "store") /\ gluLink = "up" /\ GluRequest(op, u)
      \/ gluCall[c].pc = "unsend" /\ GluGoes(c, "clear")
  <2>1. CASE GluSend(c)
    <3>1. CASE gluLink = "up"
      BY <1>2, <2>1, <3>1 DEF GluSend
    <3>2. CASE gluLink # "up"
      BY <1>2, <2>1, <3>2 DEF GluSend
    <3> QED BY <3>1, <3>2
  <2>2. CASE GluUnsend(c)
    BY <2>2 DEF GluUnsend
  <2> QED BY <2>1, <2>2
<1> HIDE DEF op
<1>6. /\ gluWire' \in Seq(Requests)
      /\ \A t \in GluTopics : WillKnow(t) /\ (op = "sub" \/ t # u) => WillKnow(t)'
      /\ GluRequest(op, u) /\ gluLink = "up" /\ op = "sub" => WillKnow(u)'
  BY <1>1, <1>2, <1>3, <1>4, RequestKeeps
<1>7. /\ gluCall' \in [GluCallers -> Calls]
      /\ \A d \in GluCallers :
            \/ gluCall'[d] = GluNoCall
            \/ /\ gluCall'[d].topic = gluCall[d].topic /\ gluCall'[d].at = gluCall[d].at
               /\ gluCall'[d].pc \in Steps /\ gluCall'[d].topic \in GluOf(d)
               /\ gluCall'[d].at \in 1..GluSlots
               /\ \/ gluCall'[d].pc = gluCall[d].pc
                  \/ d = c /\ gluCall[c].pc = "send" /\ gluCall'[c].pc = "stale"
                  \/ /\ d = c /\ gluCall[c].pc = "send" /\ gluCall'[c].pc = "store"
                     /\ gluLink = "up" /\ GluRequest(op, u)
                  \/ d = c /\ gluCall[c].pc = "unsend" /\ gluCall'[c].pc = "clear"
  <2>1. CASE GluEnds(c)
    BY <1>1, <2>1, CallEnds DEF TableTypes
  <2>2. CASE ~GluEnds(c)
    <3>1. "stale" \in Steps /\ "store" \in Steps /\ "clear" \in Steps
      BY DEF Steps
    <3>2. gluCall[c].pc # "idle"
      BY <1>1
    <3>3. CASE gluCall[c].pc = "send" /\ GluGoes(c, "stale")
      BY <1>1, <3>1, <3>2, <3>3, CallGoes
    <3>4. CASE gluCall[c].pc = "send" /\ GluGoes(c, "store") /\ gluLink = "up" /\ GluRequest(op, u)
      BY <1>1, <3>1, <3>2, <3>4, CallGoes
    <3>5. CASE gluCall[c].pc = "unsend" /\ GluGoes(c, "clear")
      BY <1>1, <3>1, <3>2, <3>5, CallGoes
    <3> QED BY <1>5, <2>2, <3>3, <3>4, <3>5
  <2> QED BY <2>1, <2>2
<1>8. TableTypes'
  BY <1>1, <1>6, <1>7 DEF TableTypes
<1>9. Once'
  BY <1>1 DEF TableInv, Once
<1>10. ASSUME NEW d \in GluCallers, gluCall'[d] # GluNoCall, gluCall'[d].pc \in {"send", "store", "stale"}
       PROVE  Subscribing(d)'
  <2>1. /\ gluCall[d].pc \in {"send", "store", "stale"} /\ Subscribing(d)
        /\ gluCall'[d].topic = gluCall[d].topic /\ gluCall'[d].at = gluCall[d].at
        /\ gluCall[d].topic \in GluTopics
    BY <1>7, <1>10, TopicsApart DEF TableInv, CallFits
  <2>2. GluSharing(d, gluCall[d].at) = {} => GluSharing(d, gluCall[d].at)' = {}
    <3>1. \A e \in GluCallers : gluCall'[e].at = gluCall[e].at \/ gluCall'[e].at = 0
      BY <1>7 DEF GluNoCall
    <3>2. gluCall'[d].at # 0 /\ gluCall'[d].at = gluCall[d].at
      BY <1>7, <1>10
    <3> QED BY <3>1, <3>2 DEF GluSharing
  <2>3. gluCall'[d].pc = "store" => gluLink' = "up" /\ WillKnow(gluCall[d].topic)'
    <3> SUFFICES ASSUME gluCall'[d].pc = "store" PROVE gluLink' = "up" /\ WillKnow(gluCall[d].topic)'
      OBVIOUS
    <3>0. PICK v \in GluTopics : v = gluCall[d].topic /\ v = gluCall'[d].topic
      BY <2>1
    <3>1. CASE d = c /\ gluCall[c].pc = "send"
      <4>1. v = u /\ gluLink = "up" /\ GluRequest(op, u)
        BY <1>2, <1>7, <1>10, <3>0, <3>1
      <4> QED BY <1>1, <1>4, <1>6, <3>0, <3>1, <4>1
    <3>2. CASE gluCall[d].pc = "store"
      <4>1. gluLink = "up" /\ WillKnow(v) /\ \A j \in 1..GluSlots : gluSlots[j] # v
        BY <2>1, <3>0, <3>2 DEF Subscribing
      <4>2. gluCall[c].pc = "unsend" => gluCall[c].at \in 1..GluSlots
        BY <1>1, CallAtWork
      <4>3. op = "sub" \/ v # u
        BY <1>1, <1>2, <1>4, <4>1, <4>2
      <4> QED BY <1>1, <1>6, <3>0, <4>1, <4>3
    <3> QED BY <1>7, <1>10, <3>1, <3>2
  <2> QED BY <1>1, <2>1, <2>2, <2>3 DEF Subscribing
<1>11. CallFits'
  <2>1. GluNoCall.pc = "idle"
    BY DEF GluNoCall
  <2>2. \A d \in GluCallers : gluCall'[d].pc # "idle" => gluCall'[d].topic \notin gluHeld'
    <3>1. \A d \in GluCallers : gluCall'[d].pc # "idle" =>
             gluCall[d].pc # "idle" /\ gluCall'[d].topic = gluCall[d].topic
      BY <1>7, <2>1
    <3> QED BY <1>1, <3>1 DEF TableInv, CallFits
  <2>3. ASSUME NEW d \in GluCallers, gluCall'[d].pc \in {"unsend", "clear"} PROVE Unsubscribing(d)'
    <3>1. gluCall[d].pc \in {"unsend", "clear"} /\ gluCall'[d].at = gluCall[d].at
      BY <1>7, <2>1, <2>3
    <3> QED BY <1>1, <3>1 DEF TableInv, CallFits, Unsubscribing
  <2> QED BY <1>10, <2>1, <2>2, <2>3 DEF CallFits
<1>12. HeldFits'
  <2> SUFFICES ASSUME NEW t \in gluHeld \ gluExcused
               PROVE  \E j \in 1..GluSlots :
                         /\ gluSlots'[j] = t /\ Unshared(j)'
                         /\ gluLink' = "up" => WillKnow(t)' \/ Comes(j)'
    BY <1>1 DEF HeldFits
  <2>1. t \in GluTopics /\ t # "free"
    BY <1>1, GluAssumption DEF TableTypes
  <2>2. PICK j \in 1..GluSlots : /\ gluSlots[j] = t /\ Unshared(j)
                                 /\ gluLink = "up" => WillKnow(t) \/ Comes(j)
    BY DEF TableInv, HeldFits
  <2>3. op = "sub" \/ t # u
    <3> SUFFICES ASSUME gluCall[c].pc = "unsend", t = u PROVE FALSE
      BY <1>1, <1>4
    <3>1. gluCall[c].at \in 1..GluSlots /\ gluSlots[gluCall[c].at] = t
      BY <1>1, <1>2, CallAtWork
    <3>2. gluCall[c].at = j
      BY <2>1, <2>2, <3>1 DEF TableInv, Once
    <3> QED BY <2>2, <3>2 DEF Unshared
  <2>4. Unshared(j)'
    <3>1. \A d \in GluCallers : gluCall'[d].at = gluCall[d].at \/ gluCall'[d].at = 0
      BY <1>7 DEF GluNoCall
    <3> QED BY <2>2, <3>1 DEF Unshared
  <2>5. Comes(j) => Comes(j)'
    BY <1>1 DEF Comes
  <2> QED BY <1>1, <1>6, <2>1, <2>2, <2>3, <2>4, <2>5
<1> QED BY <1>8, <1>9, <1>11, <1>12 DEF TableInv

(* The slot of a subscription is filled after its request.                 *)
LEMMA TableStores ==
    ASSUME TableInv, NEW c \in GluCallers, GluStore(c)
    PROVE  TableInv'
<1>1. PICK u \in GluOf(c), a \in 1..GluSlots : u = gluCall[c].topic /\ a = gluCall[c].at
  BY CallAtWork DEF GluStore, TableInv
<1>2. /\ gluCall[c].pc \in {"store", "stale"} /\ TableTypes
      /\ gluSlots' = [gluSlots EXCEPT ![a] = u] /\ gluHeld' = gluHeld \cup {u}
      /\ gluExcused' = IF GluPassed(c) THEN gluExcused \cup {u} ELSE gluExcused
      /\ GluEnds(c)
      /\ UNCHANGED <<gluLink, gluNext, gluWire, gluBroker>>
  BY <1>1 DEF GluStore, TableInv, gluNet
<1>3. /\ gluCall' \in [GluCallers -> Calls]
      /\ gluCall'[c] = GluNoCall /\ gluCall'[c].pc = "idle" /\ gluCall'[c].at = 0
      /\ \A d \in GluCallers \ {c} : gluCall'[d] = gluCall[d]
  BY <1>2, CallEnds
<1>4. /\ \A i \in 1..GluSlots : gluSlots[i] # u
      /\ u \notin gluExcused => gluSlots[a] = "free" /\ GluSharing(c, a) = {}
      /\ gluCall[c].pc = "store" => gluLink = "up" /\ WillKnow(u)
  BY <1>1, <1>2 DEF TableInv, CallFits, Subscribing
<1>5. \A i \in 1..GluSlots : gluSlots'[i] = IF i = a THEN u ELSE gluSlots[i]
  BY <1>2 DEF TableTypes
<1>6. u \in GluTopics /\ u # "free" /\ \A d \in GluCallers \ {c} : u \notin GluOf(d)
  BY TopicsApart
<1>7. TableTypes'
  <2>1. gluSlots' \in [1..GluSlots -> GluTopics \cup {"free"}]
    BY <1>2, <1>6 DEF TableTypes
  <2>2. \A d \in GluCallers :
           \/ gluCall'[d] = GluNoCall
           \/ gluCall'[d].pc \in Steps /\ gluCall'[d].topic \in GluOf(d) /\ gluCall'[d].at \in 1..GluSlots
    BY <1>2, <1>3 DEF TableTypes
  <2> QED BY <1>2, <1>3, <1>6, <2>1, <2>2 DEF TableTypes
<1>8. \A t \in GluTopics : WillKnow(t) => WillKnow(t)'
  BY <1>2 DEF WillKnow, Gives, Takes
<1>9. Once'
  BY <1>4, <1>5 DEF TableInv, Once
<1>10. ASSUME NEW d \in GluCallers \ {c}, gluCall[d].pc \in {"send", "store", "stale"}
       PROVE  Subscribing(d)'
  <2>1. /\ gluCall'[d] = gluCall[d] /\ Subscribing(d)
        /\ gluCall[d].topic # u /\ gluCall[d].topic \in GluTopics
        /\ gluCall[d].at \in 1..GluSlots
    <3>1. gluCall[d].topic \in GluOf(d) /\ gluCall[d].at \in 1..GluSlots
      BY <1>2, <1>10, CallAtWork
    <3> QED BY <1>3, <1>6, <1>10, <3>1, TopicsApart DEF TableInv, CallFits
  <2>2. GluSharing(d, gluCall[d].at) = {} => a # gluCall[d].at /\ GluSharing(d, gluCall[d].at)' = {}
    BY <1>1, <1>3, <2>1 DEF GluSharing
  <2>3. \A i \in 1..GluSlots : gluSlots'[i] # gluCall[d].topic
    BY <1>5, <2>1 DEF Subscribing
  <2> QED BY <1>2, <1>5, <1>8, <2>1, <2>2, <2>3 DEF Subscribing
<1>11. CallFits'
  <2>1. ASSUME NEW d \in GluCallers \ {c}, gluCall[d].pc \in {"unsend", "clear"} PROVE Unsubscribing(d)'
    <3>1. gluCall[d].at \in 1..GluSlots /\ Unsubscribing(d)
      BY <1>2, <2>1, CallAtWork DEF TableInv, CallFits
    <3> QED BY <1>3, <1>5, <1>6, <3>1 DEF Unsubscribing
  <2>2. ASSUME NEW d \in GluCallers \ {c}, gluCall[d].pc # "idle" PROVE gluCall[d].topic \notin gluHeld'
    <3>1. gluCall[d].topic \in GluOf(d)
      BY <1>2, <2>2, CallAtWork
    <3> QED BY <1>2, <1>6, <2>2, <3>1 DEF TableInv, CallFits
  <2> QED BY <1>3, <1>10, <2>1, <2>2 DEF CallFits
<1>12. HeldFits'
  <2> SUFFICES ASSUME NEW t \in gluHeld' \ gluExcused'
               PROVE  \E j \in 1..GluSlots :
                         /\ gluSlots'[j] = t /\ Unshared(j)'
                         /\ gluLink' = "up" => WillKnow(t)' \/ Comes(j)'
    BY DEF HeldFits
  <2>1. CASE t = u
    <3>1. u \notin gluExcused /\ ~GluPassed(c)
      BY <1>2, <2>1
    <3>2. \A d \in GluCallers : gluCall'[d].at # a
      BY <1>3, <1>4, <3>1 DEF GluSharing
    <3>3. gluLink = "up" => WillKnow(u) \/ Comes(a)
      <4> SUFFICES ASSUME gluLink = "up", gluCall[c].pc # "store" PROVE Comes(a)
        BY <1>4
      <4>1. gluNext # 0 /\ ~(gluNext > a)
        BY <1>1, <1>2, <3>1 DEF GluPassed
      <4> QED BY <1>2, <4>1, GluAssumption DEF Comes, TableTypes
    <3>4. Unshared(a)'
      BY <3>2 DEF Unshared
    <3>5. Comes(a) => Comes(a)'
      BY <1>2 DEF Comes
    <3> QED BY <1>2, <1>5, <1>6, <1>8, <2>1, <3>3, <3>4, <3>5
  <2>2. CASE t # u
    <3>1. t \in gluHeld \ gluExcused /\ t \in GluTopics
      BY <1>2, <2>2 DEF TableTypes
    <3>2. PICK j \in 1..GluSlots : /\ gluSlots[j] = t /\ Unshared(j)
                                   /\ gluLink = "up" => WillKnow(t) \/ Comes(j)
      BY <3>1 DEF TableInv, HeldFits
    <3>3. j # a
      BY <1>1, <3>2 DEF Unshared
    <3>4. Unshared(j)'
      BY <1>3, <3>2 DEF Unshared
    <3>5. Comes(j) => Comes(j)'
      BY <1>2 DEF Comes
    <3> QED BY <1>2, <1>5, <1>8, <3>1, <3>2, <3>3, <3>4, <3>5
  <2> QED BY <2>1, <2>2
<1> QED BY <1>7, <1>9, <1>11, <1>12 DEF TableInv

(* The slot of an unsubscription is cleared after its request.             *)
LEMMA TableClears ==
    ASSUME TableInv, NEW c \in GluCallers, GluClear(c)
    PROVE  TableInv'
<1>1. PICK a \in 1..GluSlots : a = gluCall[c].at
  BY CallAtWork DEF GluClear, TableInv
<1>2. /\ gluCall[c].pc = "clear" /\ TableTypes /\ c = "work"
      /\ gluSlots' = [gluSlots EXCEPT ![a] = "free"] /\ GluEnds(c)
      /\ UNCHANGED <<gluHeld, gluExcused, gluLink, gluNext, gluWire, gluBroker>>
  BY <1>1 DEF GluClear, TableInv, gluNet, CallFits, Unsubscribing
<1>3. /\ gluCall' \in [GluCallers -> Calls]
      /\ gluCall'[c] = GluNoCall /\ gluCall'[c].pc = "idle" /\ gluCall'[c].at = 0
      /\ \A d \in GluCallers \ {c} : gluCall'[d] = gluCall[d]
  BY <1>2, CallEnds
<1>4. \A i \in 1..GluSlots : gluSlots'[i] = IF i = a THEN "free" ELSE gluSlots[i]
  BY <1>2 DEF TableTypes
<1>5. TableTypes'
  <2>1. \A d \in GluCallers :
           \/ gluCall'[d] = GluNoCall
           \/ gluCall'[d].pc \in Steps /\ gluCall'[d].topic \in GluOf(d) /\ gluCall'[d].at \in 1..GluSlots
    BY <1>2, <1>3 DEF TableTypes
  <2> QED BY <1>2, <1>3, <2>1 DEF TableTypes
<1>6. \A t \in GluTopics : WillKnow(t) => WillKnow(t)'
  BY <1>2 DEF WillKnow, Gives, Takes
<1>7. Once'
  BY <1>4 DEF TableInv, Once
<1>8. ASSUME NEW d \in GluCallers \ {c}, gluCall[d].pc \in {"send", "store", "stale"}
      PROVE  Subscribing(d)'
  <2>1. /\ gluCall'[d] = gluCall[d] /\ Subscribing(d)
        /\ gluCall[d].topic \in GluTopics /\ gluCall[d].topic # "free"
        /\ gluCall[d].at \in 1..GluSlots
    <3>1. gluCall[d].topic \in GluOf(d) /\ gluCall[d].at \in 1..GluSlots
      BY <1>2, <1>8, CallAtWork
    <3> QED BY <1>3, <1>8, <3>1, TopicsApart DEF TableInv, CallFits
  <2>2. GluSharing(d, gluCall[d].at) = {} => GluSharing(d, gluCall[d].at)' = {}
    BY <1>3, <2>1 DEF GluSharing
  <2>3. \A i \in 1..GluSlots : gluSlots'[i] # gluCall[d].topic
    BY <1>4, <2>1 DEF Subscribing
  <2> QED BY <1>2, <1>4, <1>6, <2>1, <2>2, <2>3 DEF Subscribing
<1>9. CallFits'
  <2>1. \A d \in GluCallers \ {c} : gluCall[d].pc \notin {"unsend", "clear"}
    BY <1>2 DEF TableInv, CallFits, Unsubscribing
  <2> QED BY <1>2, <1>3, <1>8, <2>1 DEF TableInv, CallFits
<1>10. HeldFits'
  <2> SUFFICES ASSUME NEW t \in gluHeld \ gluExcused
               PROVE  \E j \in 1..GluSlots :
                         /\ gluSlots'[j] = t /\ Unshared(j)'
                         /\ gluLink' = "up" => WillKnow(t)' \/ Comes(j)'
    BY <1>2 DEF HeldFits
  <2>1. t \in GluTopics
    BY <1>2 DEF TableTypes
  <2>2. PICK j \in 1..GluSlots : /\ gluSlots[j] = t /\ Unshared(j)
                                 /\ gluLink = "up" => WillKnow(t) \/ Comes(j)
    BY DEF TableInv, HeldFits
  <2>3. j # a
    BY <1>1, <2>2 DEF Unshared
  <2>4. Unshared(j)'
    BY <1>3, <2>2 DEF Unshared
  <2>5. Comes(j) => Comes(j)'
    BY <1>2 DEF Comes
  <2> QED BY <1>2, <1>4, <1>6, <2>1, <2>2, <2>3, <2>4, <2>5
<1> QED BY <1>5, <1>7, <1>9, <1>10 DEF TableInv

(* The connection's own steps leave the calls and the table alone; what    *)
(* they do to the wire must keep the topics that are known or to come.     *)
LEMMA LinkSteps ==
    ASSUME TableInv, TableTypes', UNCHANGED <<gluSlots, gluHeld, gluExcused>>,
           \A c \in GluCallers :
              /\ gluCall'[c].topic = gluCall[c].topic /\ gluCall'[c].at = gluCall[c].at
              /\ \/ gluCall'[c].pc = gluCall[c].pc
                 \/ gluCall[c].pc = "store" /\ gluCall'[c].pc = "stale"
              /\ gluCall'[c].pc = "store" => gluLink' = "up" /\ WillKnow(gluCall[c].topic)',
           \A t \in GluTopics, i \in 1..GluSlots :
              /\ gluSlots[i] = t /\ (gluLink = "up" => WillKnow(t) \/ Comes(i))
              => (gluLink' = "up" => WillKnow(t)' \/ Comes(i)')
    PROVE  TableInv'
<1>1. Once'
  BY DEF TableInv, Once
<1>2. \A c \in GluCallers : \A i \in Nat : GluSharing(c, i)' = GluSharing(c, i)
  BY DEF GluSharing
<1>3. \A c \in GluCallers : gluCall[c].at \in Nat
  BY GluAssumption DEF TableInv, TableTypes, Calls
<1>4. ASSUME NEW c \in GluCallers, gluCall'[c].pc \in {"send", "store", "stale"} PROVE Subscribing(c)'
  <2>1. Subscribing(c)
    BY <1>4 DEF TableInv, CallFits
  <2>2. GluSharing(c, gluCall[c].at)' = GluSharing(c, gluCall[c].at)
    BY <1>3 DEF GluSharing
  <2>3. gluCall'[c].pc = "store" => gluLink' = "up" /\ WillKnow(gluCall[c].topic)'
    OBVIOUS
  <2> QED BY <2>1, <2>2, <2>3 DEF Subscribing
<1>5. \A c \in GluCallers : gluCall'[c].pc \in {"unsend", "clear"} => Unsubscribing(c)'
  BY DEF TableInv, CallFits, Unsubscribing
<1>6. \A c \in GluCallers : gluCall'[c].pc # "idle" => gluCall'[c].topic \notin gluHeld'
  BY DEF TableInv, CallFits
<1>7. CallFits'
  BY <1>4, <1>5, <1>6 DEF CallFits
<1>8. HeldFits'
  <2> SUFFICES ASSUME NEW t \in gluHeld \ gluExcused
               PROVE  \E j \in 1..GluSlots :
                         /\ gluSlots'[j] = t /\ Unshared(j)'
                         /\ gluLink' = "up" => WillKnow(t)' \/ Comes(j)'
    BY DEF HeldFits
  <2>1. t \in GluTopics
    BY DEF TableInv, TableTypes
  <2>2. PICK j \in 1..GluSlots : /\ gluSlots[j] = t /\ Unshared(j)
                                 /\ gluLink = "up" => WillKnow(t) \/ Comes(j)
    BY DEF TableInv, HeldFits
  <2>3. Unshared(j)'
    BY <2>2 DEF Unshared
  <2> QED BY <2>1, <2>2, <2>3
<1> QED BY <1>1, <1>7, <1>8 DEF TableInv

(* The connection: every slot is to come, and one after the other it does. *)
LEMMA TableConnects ==
    ASSUME TableInv, GluConnect
    PROVE  TableInv'
<1>1. /\ gluLink = "down" /\ gluLink' = "up" /\ gluNext' = 1 /\ gluWire' = <<>> /\ gluBroker' = {}
      /\ UNCHANGED <<gluSlots, gluCall, gluHeld, gluExcused>> /\ TableTypes
  BY DEF GluConnect, gluTable, TableInv
<1>2. gluWire' \in Seq(Requests)
  BY <1>1
<1>3. TableTypes'
  BY <1>1, <1>2, GluAssumption DEF TableTypes
<1>4. \A i \in 1..GluSlots : Comes(i)'
  BY <1>1, GluAssumption DEF Comes
<1>5. \A c \in GluCallers : gluCall[c].pc # "store"
  BY <1>1 DEF TableInv, CallFits, Subscribing
<1> QED BY <1>1, <1>3, <1>4, <1>5, LinkSteps

(* The client comes to a slot after a connection and asks for its topic    *)
(* again.                                                                  *)
LEMMA TableComesAgain ==
    ASSUME TableInv, GluResubscribe
    PROVE  TableInv'
<1>0. PICK s \in GluTopics \cup {"free"} : s = gluSlots[gluNext]
  BY GluAssumption DEF GluResubscribe, TableInv, TableTypes
<1>1. /\ gluNext # 0 /\ gluNext' = (gluNext + 1) % (GluSlots + 1) /\ TableTypes
      /\ UNCHANGED <<gluLink, gluBroker, gluSlots, gluCall, gluHeld, gluExcused>>
      /\ IF s # "free" THEN GluRequest("sub", s) ELSE gluWire' = gluWire
  BY <1>0 DEF GluResubscribe, GluSubscribesAgain, TableInv, gluTable
<1>2. gluNext \in 1..GluSlots
  BY <1>1, GluAssumption DEF TableTypes
<1>3. /\ gluNext' \in 0..GluSlots
      /\ \A i \in gluNext..GluSlots : i # gluNext => gluNext' # 0 /\ i \in gluNext'..GluSlots
  <2>1. CASE gluNext = GluSlots
    BY <1>1, <1>2, <2>1, GluAssumption
  <2>2. CASE gluNext < GluSlots
    <3>1. gluNext' = gluNext + 1
      BY <1>1, <1>2, <2>2, GluAssumption
    <3> QED BY <1>2, <2>2, <3>1, GluAssumption
  <2> QED BY <1>2, <2>1, <2>2, GluAssumption
<1>4. /\ gluWire' \in Seq(Requests)
      /\ \A t \in GluTopics : WillKnow(t) => WillKnow(t)'
      /\ s # "free" /\ gluLink = "up" => WillKnow(s)'
  <2>1. CASE s = "free"
    BY <1>1, <2>1 DEF WillKnow, Gives, Takes, TableTypes
  <2>2. CASE s # "free"
    BY <1>0, <1>1, <2>2, RequestKeeps
  <2> QED BY <2>1, <2>2
<1>5. TableTypes'
  BY <1>1, <1>3, <1>4 DEF TableTypes
<1>6. ASSUME NEW t \in GluTopics, NEW i \in 1..GluSlots, gluSlots[i] = t, gluLink = "up",
             WillKnow(t) \/ Comes(i)
      PROVE  WillKnow(t)' \/ Comes(i)'
  <2>1. t # "free"
    BY GluAssumption
  <2>2. CASE i = gluNext
    BY <1>0, <1>4, <1>6, <2>1, <2>2
  <2>3. CASE i # gluNext /\ Comes(i)
    BY <1>3, <2>3 DEF Comes
  <2> QED BY <1>4, <1>6, <2>2, <2>3
<1>7. ASSUME NEW c \in GluCallers, gluCall[c].pc = "store"
      PROVE  gluLink = "up" /\ WillKnow(gluCall[c].topic)'
  <2>1. PICK u \in GluTopics : u = gluCall[c].topic
    BY <1>1, <1>7, CallAtWork, TopicsApart
  <2>2. gluLink = "up" /\ WillKnow(u)
    BY <1>7, <2>1 DEF TableInv, CallFits, Subscribing
  <2>3. WillKnow(u)'
    BY <1>4, <2>2
  <2> QED BY <1>1, <2>1, <2>2, <2>3
<1> QED BY <1>1, <1>5, <1>6, <1>7, LinkSteps

(* The connection is noticed lost, or breaks: what was on the wire is      *)
(* gone.                                                                   *)
LEMMA TableLoses ==
    ASSUME TableInv, GluDrop \/ GluNotice
    PROVE  TableInv'
<1>1. /\ gluLink' \in {"lost", "down"} /\ gluWire' \in {<<>>, gluWire}
      /\ gluBroker' \in {{}, gluBroker} /\ (gluNext # 0 => gluLink' # "down")
      /\ UNCHANGED <<gluSlots, gluHeld, gluExcused, gluNext>>
      /\ TableTypes
  BY DEF GluDrop, GluNotice, TableInv, gluTable
<1>2. /\ gluCall' \in [GluCallers -> Calls]
      /\ \A c \in GluCallers :
            \/ gluCall'[c] = gluCall[c] /\ gluCall[c].pc # "store"
            \/ /\ gluCall[c].pc = "store" /\ gluCall'[c].pc = "stale"
               /\ gluCall'[c].topic = gluCall[c].topic /\ gluCall'[c].at = gluCall[c].at
  <2>1. CASE GluDrop
    <3>1. \A c \in GluCallers : gluCall'[c] = IF gluCall[c].pc = "store"
                                              THEN [gluCall[c] EXCEPT !.pc = "stale"] ELSE gluCall[c]
      BY <2>1 DEF GluDrop
    <3>2. \A c \in GluCallers : gluCall[c] \in Calls /\ [gluCall[c] EXCEPT !.pc = "stale"] \in Calls
      BY <1>1 DEF TableTypes, Calls, Steps
    <3>3. gluCall' \in [GluCallers -> Calls]
      BY <2>1, <3>2 DEF GluDrop
    <3>4. \A c \in GluCallers : gluCall[c].pc = "store" =>
             /\ gluCall'[c].pc = "stale"
             /\ gluCall'[c].topic = gluCall[c].topic /\ gluCall'[c].at = gluCall[c].at
      BY <3>1, <3>2 DEF Calls
    <3> QED BY <3>1, <3>3, <3>4
  <2>2. CASE GluNotice
    BY <1>1, <2>2 DEF GluNotice, gluTable, TableInv, TableTypes, CallFits, Subscribing
  <2> QED BY <2>1, <2>2
<1>3. gluWire' \in Seq(Requests)
  <2>1. <<>> \in Seq(Requests) /\ gluWire \in Seq(Requests)
    BY <1>1 DEF TableTypes
  <2> QED BY <1>1, <2>1
<1>4. TableTypes'
  <2>1. ASSUME NEW c \in GluCallers
        PROVE  \/ gluCall'[c] = GluNoCall
               \/ gluCall'[c].pc \in Steps /\ gluCall'[c].topic \in GluOf(c) /\ gluCall'[c].at \in 1..GluSlots
    <3>1. CASE gluCall'[c] = gluCall[c]
      BY <1>1, <3>1 DEF TableTypes
    <3>2. CASE gluCall[c].pc = "store" /\ gluCall'[c].pc = "stale"
      BY <1>1, <1>2, <3>2, CallAtWork DEF Steps
    <3> QED BY <1>2, <3>1, <3>2
  <2> QED BY <1>1, <1>2, <1>3, <2>1 DEF TableTypes
<1>5. \A c \in GluCallers : gluCall'[c].pc # "store"
  BY <1>2
<1> QED BY <1>1, <1>2, <1>4, <1>5, LinkSteps

(* The broker takes the first request on the wire.                         *)
LEMMA TableTaken ==
    ASSUME TableInv, GluBrokerTakes
    PROVE  TableInv'
<1>1. /\ gluWire # <<>> /\ gluWire' = Tail(gluWire) /\ TableTypes
      /\ UNCHANGED <<gluLink, gluNext, gluSlots, gluCall, gluHeld, gluExcused>>
      /\ gluBroker' \subseteq gluBroker \cup {Head(gluWire).topic}
  BY DEF GluBrokerTakes, TableInv, gluTable
<1>2. gluWire' \in Seq(Requests) /\ Head(gluWire) \in Requests
  BY <1>1, HeadTailProperties DEF TableTypes
<1>3. \A t \in GluTopics : WillKnow(t) => WillKnow(t)'
  BY <1>1, OneRequestLess DEF TableTypes
<1>4. TableTypes'
  <2>1. Head(gluWire).topic \in GluTopics
    BY <1>2 DEF Requests
  <2> QED BY <1>1, <1>2, <2>1 DEF TableTypes
<1>5. ASSUME NEW t \in GluTopics, NEW i \in 1..GluSlots, gluLink = "up", WillKnow(t) \/ Comes(i)
      PROVE  WillKnow(t)' \/ Comes(i)'
  BY <1>1, <1>3, <1>5 DEF Comes
<1>6. ASSUME NEW c \in GluCallers, gluCall[c].pc = "store"
      PROVE  gluLink = "up" /\ WillKnow(gluCall[c].topic)'
  <2>1. PICK u \in GluTopics : u = gluCall[c].topic
    BY <1>1, <1>6, CallAtWork, TopicsApart
  <2>2. gluLink = "up" /\ WillKnow(u)
    BY <1>6, <2>1 DEF TableInv, CallFits, Subscribing
  <2>3. WillKnow(u)'
    BY <1>3, <2>2
  <2> QED BY <1>1, <2>1, <2>2, <2>3
<1> QED BY <1>1, <1>4, <1>5, <1>6, LinkSteps

(* Every step keeps the table, the wire and the reported subscriptions in  *)
(* agreement.                                                              *)
LEMMA TableStep == TableInv /\ [GluNextStep]_gluVars => TableInv'
<1> SUFFICES ASSUME TableInv, [GluNextStep]_gluVars PROVE TableInv'
  OBVIOUS
<1>1. CASE UNCHANGED <<gluTable, gluNet>>
  <2>1. /\ UNCHANGED <<gluSlots, gluCall, gluHeld, gluExcused>>
        /\ UNCHANGED <<gluLink, gluNext, gluWire, gluBroker>>
    BY <1>1 DEF gluTable, gluNet
  <2>2. TableTypes'
    BY <2>1 DEF TableInv, TableTypes
  <2>3. \A t : WillKnow(t)' <=> WillKnow(t)
    BY <2>1 DEF WillKnow, Gives, Takes
  <2>4. \A i \in 1..GluSlots : Comes(i)' <=> Comes(i)
    BY <2>1 DEF Comes
  <2>5. \A c \in GluCallers : gluCall[c].pc = "store" =>
           gluLink' = "up" /\ WillKnow(gluCall[c].topic)'
    <3> SUFFICES ASSUME NEW c \in GluCallers, gluCall[c].pc = "store"
                 PROVE  gluLink' = "up" /\ WillKnow(gluCall[c].topic)'
      OBVIOUS
    <3>1. gluLink = "up" /\ WillKnow(gluCall[c].topic)
      BY DEF TableInv, CallFits, Subscribing
    <3> QED BY <2>1, <3>1 DEF WillKnow, Gives, Takes
  <2> QED BY <2>1, <2>2, <2>3, <2>4, <2>5, LinkSteps
<1>2. CASE GluShortData \/ GluLongData \/ (\E t \in GluTopics : GluMessage(t)) \/ UNCHANGED gluVars
  BY <1>1, <1>2 DEF GluShortData, GluLongData, GluMessage, gluVars
<1>3. ASSUME NEW c \in GluCallers, GluAgent(c) PROVE TableInv'
  BY <1>3, TableRequests, TableStores, TableClears, TableBegins DEF GluAgent
<1>4. CASE GluConnect \/ GluResubscribe \/ GluNotice \/ GluDrop \/ GluBrokerTakes
  BY <1>4, TableConnects, TableComesAgain, TableLoses, TableTaken
<1> QED BY <1>2, <1>3, <1>4 DEF GluNextStep, GluClient, GluOutside

LEMMA TableBegin == GluInit => TableInv
<1> SUFFICES ASSUME GluInit PROVE TableInv
  OBVIOUS
<1>1. gluCall \in [GluCallers -> Calls] /\ \A c \in GluCallers : gluCall[c] = GluNoCall
  BY GluAssumption DEF GluInit, GluNoCall, Calls
<1>2. \A c \in GluCallers : gluCall[c].pc = "idle"
  BY <1>1 DEF GluNoCall
<1>3. TableTypes
  BY <1>1, GluAssumption DEF GluInit, TableTypes
<1>4. Once /\ HeldFits
  BY DEF GluInit, Once, HeldFits
<1>5. CallFits
  BY <1>2 DEF CallFits
<1> QED BY <1>3, <1>4, <1>5 DEF TableInv

(* At rest the broker knows every topic whose subscription was reported    *)
(* good, and its callback is in the table, for any number of slots and     *)
(* topics of the two callers and whatever connections were lost, but after *)
(* the races of esp-mqtt-glue.c:103-121: a request lost with its           *)
(* connection, stored behind the next one's back, or a free slot that both *)
(* callers have found.                                                     *)
THEOREM SubscribedAgain == GluSpec => []GluResubscribed
<1>1. TableInv => GluResubscribed
  <2> SUFFICES ASSUME TableInv, GluQuiet, NEW t \in gluHeld \ gluExcused
               PROVE  t \in gluBroker /\ \E i \in 1..GluSlots : gluSlots[i] = t
    BY DEF GluResubscribed
  <2>1. PICK i \in 1..GluSlots : gluSlots[i] = t /\ (gluLink = "up" => WillKnow(t) \/ Comes(i))
    BY DEF TableInv, HeldFits
  <2>2. WillKnow(t) /\ Len(gluWire) = 0
    BY <2>1 DEF GluQuiet, Comes
  <2>3. t \in gluBroker
    BY <2>2 DEF WillKnow
  <2> QED BY <2>1, <2>3
<1> QED BY <1>1, TableBegin, TableStep, PTL DEF GluSpec

-----------------------------------------------------------------------------
(* MqttGlue: its types follow.                                             *)
GluTypes == TableInv /\ GluTypeOK

LEMMA GluTypesFollow == TableInv => GluTypeOK
<1> SUFFICES ASSUME TableTypes PROVE GluTypeOK
  BY DEF TableInv
<1>1. gluBroker \cup gluHeld \cup gluExcused \subseteq GluTopics
  BY DEF TableTypes
<1> QED BY <1>1 DEF TableTypes, GluTypeOK, Steps

LEMMA GluTypesBegin == GluInit => GluTypes
BY TableBegin, GluTypesFollow DEF GluTypes

LEMMA GluTypesStep == GluTypes /\ [GluNextStep]_gluVars => GluTypes'
<1> SUFFICES ASSUME GluTypes, [GluNextStep]_gluVars PROVE GluTypes'
  OBVIOUS
<1>1. TableInv'
  BY TableStep DEF GluTypes
<1>2. TableTypes'
  BY <1>1 DEF TableInv
<1>3. (gluBroker \cup gluHeld \cup gluExcused \subseteq GluTopics)'
  BY <1>2 DEF TableTypes
<1>4. GluTypeOK'
  BY <1>2, <1>3 DEF TableTypes, GluTypeOK, Steps
<1> QED BY <1>1, <1>4 DEF GluTypes

-----------------------------------------------------------------------------
(* Claim: key, certificate and node id that are kept fit together.         *)
(* What the request under way is to be made for.                           *)
Wanted == [key |-> clmNvs.key, node |-> clmNode]

Certificates == [key : Nat, node : ClmIds \cup {ClmMac, ClmNone}]

DataRecords ==
    [state : Nat, key : Nat, csr : Certificates, payload : Seq(Certificates), offset : Nat]

ClaimTypes ==
    /\ clmNvs \in [key : Nat, node : ClmIds \cup {ClmNone}, cert : Certificates]
    /\ clmNode \in ClmIds \cup {ClmMac}
    /\ clmData \in DataRecords
    /\ clmPhone \in [at : {"away", "starts", "names", "collects", "sends", "done"},
                     cert : Certificates, count : Nat]
    /\ clmKeys \in Nat

(* The phone speaks to an agent that wants a certificate, and the bit is   *)
(* set by the end of its dialogue.                                         *)
Spoken ==
    /\ clmPhone.at \notin {"away", "done"} => clmTask \in {"ready", "waits"}
    /\ clmKind = "self" \/ clmTask = "boot" => clmPhone.at = "away"
    /\ clmBit => clmPhone.at = "done"

(* Whoever asks has no certificate, and the key that is kept.              *)
Keyed ==
    /\ clmTask \in {"ready", "asks", "waits"} =>
           /\ clmData.key = clmNvs.key /\ clmNvs.key # 0
           /\ clmNvs.cert = ClmNoCert \/ clmPhone.at = "done"
    /\ clmNvs.cert # ClmNoCert => clmNvs.key # 0

(* The node's name is the next boot's too, or its loss was not noticed.    *)
Named == clmLost \/ clmNode = ClmNodeAtBoot(clmNvs.node)

(* What was asked for in self claiming.                                    *)
AsksItself ==
    clmKind = "self" =>
        /\ clmTask = "ready" => clmData.csr = Wanted
        /\ clmTask = "asks" => clmData.payload # <<>> /\ clmData.payload[1] = Wanted

(* What the phone collects, and what it brings back.                       *)
AsksPhone ==
    /\ clmPhone.at \in {"starts", "names"} => clmPhone.count = 0
    /\ clmPhone.at = "collects" =>
           /\ clmData.payload = ClmWhole(Wanted)
           /\ clmPhone.count = clmData.offset /\ clmData.offset < ClmParts
    /\ clmPhone.at = "sends" =>
           /\ clmPhone.cert = Wanted
           /\ clmPhone.count # 0 => clmData.payload # <<>> /\ clmData.payload[1] = Wanted

ClaimInv ==
    ClaimTypes /\ Spoken /\ Keyed /\ Named /\ AsksItself /\ AsksPhone /\ ClmCredentialsFit

(* A message in fragments.                                                 *)
LEMMA WholeMessage ==
    ASSUME NEW c \in Certificates
    PROVE  /\ ClmWhole(c) \in Seq(Certificates)
           /\ ClmWhole(c) # <<>>
           /\ \A i \in 1..ClmParts : ClmWhole(c)[i] = c
<1>1. ClmParts \in Nat \ {0}
  BY ClmAssumption
<1>2. ClmWhole(c) \in [1..ClmParts -> Certificates]
  BY DEF ClmWhole
<1>3. ClmWhole(c) \in Seq(Certificates)
  BY <1>1, <1>2
<1>4. Len(ClmWhole(c)) = ClmParts
  BY <1>1, <1>2, <1>3 DEF ClmWhole
<1> QED BY <1>1, <1>3, <1>4 DEF ClmWhole

LEMMA ClaimInit == ClmInit => ClaimInv
<1> SUFFICES ASSUME ClmInit PROVE ClaimInv
  OBVIOUS
<1> QED
  BY DEF ClmInit, ClaimInv, ClaimTypes, DataRecords, Certificates, Spoken, Keyed, Named, AsksItself, AsksPhone,
         ClmCredentialsFit, ClmNoCert, ClmNoData, ClmAway, ClmNew, ClmNodeAtBoot

LEMMA ClaimFacts ==
    ASSUME ClaimTypes
    PROVE  /\ ClmNoCert \in Certificates /\ ClmNoData \in DataRecords /\ Wanted \in Certificates
           /\ ClmParts \in Nat \ {0}
           /\ ClmAway \in [at : {"away"}, cert : Certificates, count : {0}]
  BY ClmAssumption DEF ClaimTypes, DataRecords, Certificates, Wanted, ClmNoCert, ClmNoData, ClmNew,
                       ClmAway

(* The steps of the agent.                                                 *)
LEMMA ClaimReady == ASSUME ClaimInv, ClmMakeReady PROVE ClaimInv'
<1>1. PICK parses \in {clmNvs.key # 0, FALSE} :
        LET key == IF parses THEN clmNvs.key ELSE clmKeys + 1
            keeps == IF parses THEN clmNvs ELSE ClmKeyKept(key)
        IN  /\ clmKeys' = IF parses THEN clmKeys ELSE key
            /\ \/ clmNvs' = keeps /\ clmData' = ClmDataReady(key) /\ clmTask' = "ready"
               \/ clmNvs' \in {clmNvs, keeps} /\ clmTask' = "aborts" /\ clmData' = clmData
  BY DEF ClmMakeReady
<1> DEFINE key == IF parses THEN clmNvs.key ELSE clmKeys + 1
<1>2. /\ clmTask = "boot" /\ ~ClmHasAll
      /\ UNCHANGED <<clmKind, clmNode, clmBit, clmPhone, clmLost>>
      /\ clmPhone.at = "away" /\ clmNvs.cert = ClmNoCert
  BY DEF ClmMakeReady, ClmHasAll, ClaimInv, ClaimTypes, Spoken, Keyed
<1>3. key \in Nat \ {0} /\ clmKeys' \in Nat
  <2>1. clmKeys \in Nat /\ clmNvs.key \in Nat /\ (parses => clmNvs.key # 0)
    BY <1>1 DEF ClaimInv, ClaimTypes
  <2>2. clmKeys' = clmKeys \/ clmKeys' = clmKeys + 1
    BY <1>1
  <2> QED BY <2>1, <2>2
<1>4. /\ clmNvs' = clmNvs \/ clmNvs' = [clmNvs EXCEPT !.key = key]
      /\ \/ clmTask' = "aborts" /\ clmData' = clmData
         \/ /\ clmTask' = "ready" /\ clmData' = ClmDataReady(key)
            /\ clmNvs' = clmNvs => clmNvs.key = key
  <2>1. CASE parses
    BY <1>1, <2>1
  <2>2. CASE ~parses
    <3>1. [clmNvs EXCEPT !.key = key].key = key
      BY DEF ClaimInv, ClaimTypes
    <3>2. \/ clmNvs' \in {clmNvs, ClmKeyKept(key)} /\ clmTask' = "aborts" /\ clmData' = clmData
          \/ /\ clmNvs' = ClmKeyKept(key) /\ clmTask' = "ready"
             /\ clmData' = ClmDataReady(key)
      BY <1>1, <2>2
    <3> HIDE DEF key
    <3> QED BY <3>1, <3>2 DEF ClmKeyKept
  <2> QED BY <2>1, <2>2
<1> HIDE DEF key
<1>5. /\ clmNvs' \in [key : Nat, node : ClmIds \cup {ClmNone}, cert : Certificates]
      /\ clmNvs'.cert = clmNvs.cert /\ clmNvs'.node = clmNvs.node
      /\ clmTask' = "ready" => clmNvs'.key = key
  BY <1>2, <1>4, <1>3 DEF ClaimInv, ClaimTypes
<1>6. /\ ClmDataReady(key) \in DataRecords
      /\ ClmDataReady(key).key = key
      /\ clmKind = "self" => ClmDataReady(key).csr = [key |-> key, node |-> clmNode]
  <2>1. ClmNoData \in DataRecords /\ clmNode \in ClmIds \cup {ClmMac}
    BY ClaimFacts DEF ClaimInv, ClaimTypes
  <2>2. CASE clmKind = "self"
    BY <1>2, <1>3, <2>1, <2>2 DEF ClmDataReady, DataRecords, Certificates, ClmCsrGenerated
  <2>3. CASE clmKind # "self"
    BY <1>2, <1>3, <2>1, <2>3 DEF ClmDataReady, DataRecords, ClmPkGenerated
  <2> QED BY <2>2, <2>3
<1>7. ClaimTypes'
  BY <1>2, <1>4, <1>5, <1>6, <1>3 DEF ClaimInv, ClaimTypes
<1> QED
  BY <1>2, <1>4, <1>5, <1>6, <1>7, <1>3
  DEF ClaimInv, Spoken, Keyed, Named, AsksItself, AsksPhone, Wanted, ClmCredentialsFit

LEMMA ClaimAsks == ASSUME ClaimInv, ClmSelfInit PROVE ClaimInv'
<1>1. /\ clmKind = "self" /\ clmTask = "ready" /\ clmPhone.at = "away"
      /\ UNCHANGED <<clmKind, clmNvs, clmNode, clmBit, clmPhone, clmLost, clmKeys>>
      /\ clmData.csr = Wanted
  BY DEF ClmSelfInit, ClmGivesUp, ClaimInv, Spoken, AsksItself
<1>2. CASE ClmGivesUp(clmData)
  BY <1>1, <1>2
  DEF ClmGivesUp, ClaimInv, ClaimTypes, Spoken, Keyed, Named, AsksItself, AsksPhone, Wanted,
      ClmCredentialsFit
<1>3. CASE /\ clmTask' = "asks"
           /\ clmData' = [clmData EXCEPT !.state = ClmInitDone, !.payload = ClmWhole(clmData.csr)]
  <2>1. Wanted \in Certificates /\ 1 \in 1..ClmParts /\ Wanted' = Wanted
    BY <1>1, ClaimFacts DEF ClaimInv, Wanted
  <2>2. /\ ClmWhole(Wanted) \in Seq(Certificates)
        /\ ClmWhole(Wanted) # <<>> /\ ClmWhole(Wanted)[1] = Wanted
    BY <2>1, WholeMessage
  <2>3. /\ clmData' \in DataRecords
        /\ clmData'.key = clmData.key /\ clmData'.payload = ClmWhole(Wanted)
    BY <1>1, <1>3, <2>2 DEF ClaimInv, ClaimTypes, DataRecords, ClmInitDone
  <2>4. ClaimTypes'
    BY <1>1, <2>3 DEF ClaimInv, ClaimTypes
  <2> QED
    BY <1>1, <1>3, <2>1, <2>2, <2>3, <2>4
    DEF ClaimInv, Spoken, Keyed, Named, AsksItself, AsksPhone, ClmCredentialsFit
<1> QED BY <1>2, <1>3 DEF ClmSelfInit

LEMMA ClaimSelfVerified == ASSUME ClaimInv, ClmSelfVerify PROVE ClaimInv'
<1>1. /\ clmKind = "self" /\ clmTask = "asks" /\ clmPhone.at = "away"
      /\ UNCHANGED <<clmKind, clmNode, clmBit, clmPhone, clmLost, clmKeys>>
      /\ clmTask' \in {"claimed", "failed"} /\ clmData' = ClmNoData
      /\ clmData.payload[1] = Wanted /\ clmNvs.key # 0
  BY DEF ClmSelfVerify, ClmGivesUp, ClaimInv, Spoken, Keyed, AsksItself
<1>2. clmNvs' = clmNvs \/ clmNvs' = [clmNvs EXCEPT !.cert = Wanted]
  BY <1>1 DEF ClmSelfVerify, ClmGivesUp
<1>3. /\ clmNvs' \in [key : Nat, node : ClmIds \cup {ClmNone}, cert : Certificates]
      /\ clmNvs'.key = clmNvs.key /\ clmNvs'.node = clmNvs.node
      /\ clmNvs'.cert = clmNvs.cert \/ clmNvs'.cert = Wanted
  BY <1>2, ClaimFacts DEF ClaimInv, ClaimTypes
<1>4. ClaimTypes'
  BY <1>1, <1>3, ClaimFacts DEF ClaimInv, ClaimTypes
<1>5. Wanted.key = clmNvs.key /\ Wanted.node = clmNode
  BY DEF Wanted
<1> QED
  BY <1>1, <1>3, <1>4, <1>5
  DEF ClaimInv, Spoken, Keyed, Named, AsksItself, AsksPhone, ClmCredentialsFit, ClmNodeAtBoot

(* A fragment of the request goes to the phone.                            *)
LEMMA ClaimSends ==
    ASSUME ClaimTypes, NEW data \in DataRecords, ClmSendsPart(data),
           Wanted' = Wanted \/ Wanted' \in Certificates,
           data.payload = ClmWhole(Wanted'), Wanted' \in Certificates,
           clmPhone.count = data.offset, data.offset < ClmParts
    PROVE  /\ clmData' \in DataRecords /\ clmData'.key = data.key
           /\ clmPhone' \in [at : {"collects", "sends"}, cert : Certificates, count : Nat]
           /\ AsksPhone'
<1> DEFINE offset == data.offset + 1
<1>1. offset \in Nat /\ offset <= ClmParts /\ data.payload[offset] = Wanted' /\ clmPhone.count + 1 = offset
  <2>1. data.offset \in Nat /\ ClmParts \in Nat
    BY ClaimFacts DEF DataRecords
  <2>2. offset \in 1..ClmParts
    BY <2>1
  <2>3. \A i \in 1..ClmParts : ClmWhole(Wanted')[i] = Wanted'
    BY WholeMessage
  <2> QED BY <2>1, <2>2, <2>3
<1>2. /\ clmData' \in DataRecords /\ clmData'.key = data.key
      /\ clmData'.payload = data.payload /\ clmData'.offset = offset
  BY <1>1, ClaimFacts DEF ClmSendsPart, DataRecords, ClmStateVerify
<1>3. CASE offset = ClmParts
  <2>1. clmPhone' = [at |-> "sends", cert |-> Wanted', count |-> 0]
    BY <1>1, <1>3 DEF ClmSendsPart
  <2> QED BY <1>2, <2>1 DEF AsksPhone
<1>4. CASE offset # ClmParts
  <2>1. clmPhone' = [clmPhone EXCEPT !.at = "collects", !.count = offset]
    BY <1>1, <1>4 DEF ClmSendsPart
  <2>2. /\ clmPhone' \in [at : {"collects"}, cert : Certificates, count : Nat]
        /\ clmPhone'.count = offset
    BY <1>1, <2>1 DEF ClaimTypes
  <2> QED BY <1>1, <1>2, <1>4, <2>2, ClaimFacts DEF AsksPhone
<1> QED BY <1>3, <1>4

(* The handlers of the endpoint, whose callers have an agent that waits.   *)
LEMMA ClaimStarts == ASSUME ClaimInv, ClmHandleStart PROVE ClaimInv'
<1>1. /\ clmPhone.at = "starts" /\ clmPhone.count = 0
      /\ UNCHANGED <<clmKind, clmTask, clmKeys, clmNvs, clmNode, clmBit, clmLost>>
  BY DEF ClmHandleStart, clmAgent, ClaimInv, AsksPhone
<1>2. /\ clmData' \in DataRecords /\ clmData'.key = clmData.key
      /\ \/ clmPhone' = ClmAway
         \/ clmPhone' = [clmPhone EXCEPT !.at = "names"]
  <2>1. CASE clmData.state < ClmPkGenerated
    BY <2>1 DEF ClmHandleStart, ClaimInv, ClaimTypes
  <2>2. CASE ~(clmData.state < ClmPkGenerated)
    <3>1. <<ClmNoCert>> \in Seq(Certificates)
      BY ClaimFacts DEF ClaimInv
    <3>2. clmData' = [clmData EXCEPT !.state = ClmStateInit, !.payload = <<ClmNoCert>>,
                                     !.offset = 0]
      BY <2>2 DEF ClmHandleStart
    <3>3. clmPhone' = [clmPhone EXCEPT !.at = "names"]
      BY <2>2 DEF ClmHandleStart
    <3>4. ClmStateInit \in Nat
      BY DEF ClmStateInit
    <3> QED BY <3>1, <3>2, <3>3, <3>4 DEF ClaimInv, ClaimTypes, DataRecords
  <2> QED BY <2>1, <2>2
<1>3. /\ clmPhone' \in [at : {"away", "names"}, cert : Certificates, count : Nat]
      /\ clmPhone'.count = 0
  BY <1>1, <1>2, ClaimFacts DEF ClaimInv, ClaimTypes
<1>4. ClaimTypes'
  BY <1>1, <1>2, <1>3 DEF ClaimInv, ClaimTypes
<1>5. clmTask \in {"ready", "waits"} /\ clmKind # "self" /\ ~clmBit
  BY <1>1 DEF ClaimInv, Spoken
<1> QED
  BY <1>1, <1>2, <1>3, <1>4, <1>5
  DEF ClaimInv, Spoken, Keyed, Named, AsksItself, AsksPhone, ClmCredentialsFit

LEMMA ClaimInits == ASSUME ClaimInv, ClmHandleInit PROVE ClaimInv'
<1>1. /\ clmPhone.at = "names" /\ clmPhone.count = 0
      /\ UNCHANGED <<clmKind, clmTask, clmKeys, clmBit>>
      /\ clmTask \in {"ready", "waits"} /\ clmKind # "self" /\ ~clmBit
      /\ clmData.key = clmNvs.key /\ clmNvs.key # 0 /\ clmNvs.cert = ClmNoCert
  BY DEF ClmHandleInit, clmAgent, ClaimInv, AsksPhone, Spoken, Keyed
<1>2. PICK id \in ClmIds, stored \in BOOLEAN, changed \in BOOLEAN : ClmRenames(id, stored, changed)
  BY DEF ClmHandleInit
<1>3. /\ clmNvs' \in [key : Nat, node : ClmIds \cup {ClmNone}, cert : Certificates]
      /\ clmNvs'.key = clmNvs.key /\ clmNvs'.cert = clmNvs.cert
      /\ clmNode' \in ClmIds \cup {ClmMac}
      /\ stored => clmNvs'.node = id
  BY <1>2 DEF ClmRenames, ClaimInv, ClaimTypes
<1>4. Named'
  BY <1>2, <1>3, ClmAssumption DEF ClmRenames, Named, ClmNodeAtBoot
<1>5. Wanted' = [key |-> clmData.key, node |-> clmNode'] /\ Wanted' \in Certificates
  BY <1>1, <1>3 DEF Wanted, Certificates
<1>6. /\ clmData' \in DataRecords /\ clmData'.key = clmData.key
      /\ clmPhone' \in [at : {"away", "collects", "sends"}, cert : Certificates, count : Nat]
      /\ AsksPhone'
  <2>1. CASE clmPhone' = ClmAway /\ clmData' = clmData
    BY <2>1, ClaimFacts DEF ClaimInv, ClaimTypes, AsksPhone
  <2>2. CASE ~(clmPhone' = ClmAway /\ clmData' = clmData)
    <3> DEFINE data == [clmData EXCEPT !.state = ClmInitDone, !.csr = Wanted',
                                       !.payload = ClmWhole(Wanted'), !.offset = 0]
    <3>1. ClmSendsPart(data)
      BY <1>5, <2>2 DEF ClmHandleInit
    <3>2. ClmWhole(Wanted') \in Seq(Certificates)
      BY <1>5, WholeMessage
    <3>3. /\ data \in DataRecords /\ data.key = clmData.key
          /\ data.payload = ClmWhole(Wanted') /\ data.offset = 0
      BY <1>5, <3>2 DEF ClaimInv, ClaimTypes, DataRecords, ClmInitDone
    <3> HIDE DEF data
    <3>4. clmPhone.count = data.offset /\ data.offset < ClmParts
      BY <1>1, <3>3, ClaimFacts DEF ClaimInv
    <3> QED BY <1>5, <3>1, <3>3, <3>4, ClaimSends DEF ClaimInv
  <2> QED BY <2>1, <2>2
<1>7. ClaimTypes'
  BY <1>1, <1>3, <1>6 DEF ClaimInv, ClaimTypes
<1> QED
  BY <1>1, <1>3, <1>4, <1>6, <1>7
  DEF ClaimInv, Spoken, Keyed, AsksItself, ClmCredentialsFit

LEMMA ClaimSendsMore == ASSUME ClaimInv, ClmHandleMore PROVE ClaimInv'
<1>1. /\ clmPhone.at = "collects" /\ ClmSendsPart(clmData)
      /\ UNCHANGED <<clmKind, clmTask, clmKeys, clmNvs, clmNode, clmBit, clmLost>>
      /\ clmData.payload = ClmWhole(Wanted)
      /\ clmPhone.count = clmData.offset /\ clmData.offset < ClmParts
      /\ clmTask \in {"ready", "waits"} /\ clmKind # "self" /\ ~clmBit
  BY DEF ClmHandleMore, clmAgent, ClaimInv, AsksPhone, Spoken
<1>2. Wanted' = Wanted /\ Wanted \in Certificates
  BY <1>1, ClaimFacts DEF Wanted, ClaimInv
<1>3. /\ clmData' \in DataRecords /\ clmData'.key = clmData.key
      /\ clmPhone' \in [at : {"collects", "sends"}, cert : Certificates, count : Nat]
      /\ AsksPhone'
  BY <1>1, <1>2, ClaimSends DEF ClaimInv, ClaimTypes
<1>4. ClaimTypes'
  BY <1>1, <1>3 DEF ClaimInv, ClaimTypes
<1> QED
  BY <1>1, <1>3, <1>4 DEF ClaimInv, Spoken, Keyed, Named, AsksItself, ClmCredentialsFit

LEMMA ClaimVerifies == ASSUME ClaimInv, ClmHandleVerify PROVE ClaimInv'
<1> DEFINE payload == Append(IF clmPhone.count = 0 THEN <<>> ELSE clmData.payload, clmPhone.cert)
<1>1. /\ clmPhone.at = "sends" /\ clmPhone.cert = Wanted
      /\ UNCHANGED <<clmKind, clmTask, clmKeys, clmNode, clmLost>>
      /\ clmTask \in {"ready", "waits"} /\ clmKind # "self" /\ ~clmBit
      /\ clmData.key = clmNvs.key /\ clmNvs.key # 0 /\ clmNvs.cert = ClmNoCert
  BY DEF ClmHandleVerify, clmAgent, ClaimInv, AsksPhone, Spoken, Keyed
<1>2. /\ Wanted \in Certificates /\ clmData.payload \in Seq(Certificates)
      /\ clmPhone.count \in Nat /\ ClmParts \in Nat
  BY ClaimFacts DEF ClaimInv, ClaimTypes, DataRecords
<1>3. /\ payload \in Seq(Certificates) /\ payload # <<>> /\ payload[1] = Wanted
  <2> DEFINE before == IF clmPhone.count = 0 THEN <<>> ELSE clmData.payload
  <2>1. before \in Seq(Certificates)
    BY <1>2
  <2>2. before = <<>> \/ (before # <<>> /\ before[1] = Wanted)
    BY <1>1 DEF ClaimInv, AsksPhone
  <2>3. payload = Append(before, Wanted)
    BY <1>1
  <2> HIDE DEF payload, before
  <2>4. /\ payload \in Seq(Certificates) /\ payload # <<>>
        /\ payload[1] = IF before = <<>> THEN Wanted ELSE before[1]
    BY <1>2, <2>1, <2>3
  <2> QED BY <2>2, <2>4
<1> HIDE DEF payload
<1>4. \/ clmPhone' = ClmAway /\ UNCHANGED <<clmNvs, clmData, clmBit>>
      \/ ClmComplete(payload)
      \/ /\ clmData' = [clmData EXCEPT !.payload = payload, !.offset = clmPhone.count]
         /\ clmPhone' = [clmPhone EXCEPT !.count = clmPhone.count + 1]
         /\ UNCHANGED <<clmNvs, clmBit>>
  BY DEF ClmHandleVerify, payload
<1>5. CASE clmPhone' = ClmAway /\ clmNvs' = clmNvs /\ clmBit' = clmBit
           /\ clmData' \in DataRecords /\ clmData'.key = clmData.key
  <2>1. ClaimTypes' /\ clmPhone'.at = "away"
    BY <1>1, <1>5, ClaimFacts DEF ClaimInv, ClaimTypes
  <2> QED
    BY <1>1, <1>5, <2>1
    DEF ClaimInv, Spoken, Keyed, Named, AsksItself, AsksPhone, ClmCredentialsFit
<1>6. CASE ClmComplete(payload)
  <2>1. /\ clmData' \in DataRecords /\ clmData'.key = clmData.key
    <3>1. \/ clmData' = [clmData EXCEPT !.payload = payload, !.offset = ClmParts - 1,
                                        !.state = ClmVerifyDone]
          \/ clmData' = [clmData EXCEPT !.payload = payload, !.offset = ClmParts - 1]
      BY <1>6 DEF ClmComplete
    <3>2. ClmParts - 1 \in Nat /\ ClmVerifyDone \in Nat
      BY ClaimFacts DEF ClaimInv, ClmVerifyDone
    <3> QED BY <1>3, <3>1, <3>2 DEF ClaimInv, ClaimTypes, DataRecords
  <2>2. CASE /\ clmNvs' = [clmNvs EXCEPT !.cert = Wanted]
             /\ clmPhone' = [clmPhone EXCEPT !.at = "done"]
    <3>1. /\ clmNvs' \in [key : Nat, node : ClmIds \cup {ClmNone}, cert : Certificates]
          /\ clmNvs'.key = clmNvs.key /\ clmNvs'.node = clmNvs.node /\ clmNvs'.cert = Wanted
      BY <1>2, <2>2 DEF ClaimInv, ClaimTypes
    <3>2. /\ clmPhone' \in [at : {"done"}, cert : Certificates, count : Nat]
      BY <2>2 DEF ClaimInv, ClaimTypes
    <3>3. ClaimTypes'
      BY <1>1, <2>1, <3>1, <3>2 DEF ClaimInv, ClaimTypes
    <3>4. Wanted.key = clmNvs.key /\ Wanted.node = clmNode
      BY DEF Wanted
    <3> QED
      BY <1>1, <2>1, <3>1, <3>2, <3>3, <3>4
      DEF ClaimInv, Spoken, Keyed, Named, AsksItself, AsksPhone, ClmCredentialsFit, ClmNodeAtBoot
  <2> QED BY <1>3, <1>5, <1>6, <2>1, <2>2 DEF ClmComplete
<1>7. CASE /\ clmData' = [clmData EXCEPT !.payload = payload, !.offset = clmPhone.count]
           /\ clmPhone' = [clmPhone EXCEPT !.count = clmPhone.count + 1]
           /\ UNCHANGED <<clmNvs, clmBit>>
  <2>1. /\ clmData' \in DataRecords /\ clmData'.key = clmData.key /\ clmData'.payload = payload
    BY <1>2, <1>3, <1>7 DEF ClaimInv, ClaimTypes, DataRecords
  <2>2. /\ clmPhone' \in [at : {"sends"}, cert : Certificates, count : Nat]
        /\ clmPhone'.cert = Wanted
    BY <1>1, <1>2, <1>7 DEF ClaimInv, ClaimTypes
  <2>3. Wanted' = Wanted
    BY <1>1, <1>7 DEF Wanted
  <2>4. ClaimTypes'
    BY <1>1, <1>7, <2>1, <2>2 DEF ClaimInv, ClaimTypes
  <2> QED
    BY <1>1, <1>3, <1>7, <2>1, <2>2, <2>3, <2>4
    DEF ClaimInv, Spoken, Keyed, Named, AsksItself, AsksPhone, ClmCredentialsFit
<1> QED BY <1>4, <1>5, <1>6, <1>7 DEF ClaimInv, ClaimTypes

(* The phone gives up, politely or not.                                    *)
LEMMA ClaimEnds == ASSUME ClaimInv, ClmPhoneDrops \/ ClmAbort PROVE ClaimInv'
<1>1. /\ clmPhone.at \notin {"away", "done"} /\ clmPhone' = ClmAway
      /\ UNCHANGED <<clmKind, clmTask, clmKeys, clmNvs, clmNode, clmBit, clmLost>>
  BY DEF ClmPhoneDrops, ClmAbort, clmAgent
<1>2. clmTask \in {"ready", "waits"} /\ clmKind # "self" /\ ~clmBit
  BY <1>1 DEF ClaimInv, Spoken
<1>3. clmData' \in DataRecords /\ clmData'.key = clmData.key
  <2>1. CASE clmData' = clmData
    BY <2>1 DEF ClaimInv, ClaimTypes
  <2>2. CASE clmData' = [clmData EXCEPT !.state = ClmPkGenerated, !.payload = <<>>, !.offset = 0]
    <3>1. <<>> \in Seq(Certificates) /\ ClmPkGenerated \in Nat
      BY DEF ClmPkGenerated
    <3> QED BY <2>2, <3>1 DEF ClaimInv, ClaimTypes, DataRecords
  <2> QED BY <2>1, <2>2 DEF ClmPhoneDrops, ClmAbort
<1>4. ClaimTypes' /\ clmPhone'.at = "away"
  BY <1>1, <1>3, ClaimFacts DEF ClaimInv, ClaimTypes
<1> QED
  BY <1>1, <1>2, <1>3, <1>4
  DEF ClaimInv, Spoken, Keyed, Named, AsksItself, AsksPhone, ClmCredentialsFit

LEMMA ClaimStep == ClaimInv /\ [ClmNext]_clmVars => ClaimInv'
<1> SUFFICES ASSUME ClaimInv, [ClmNext]_clmVars PROVE ClaimInv'
  OBVIOUS
<1> USE DEF ClaimInv, ClaimTypes, Spoken, Keyed, Named, AsksItself, AsksPhone, ClmCredentialsFit,
            Wanted
<1>1. CASE ClmRestart
  <2>1. /\ clmNode' = ClmNodeAtBoot(clmNvs.node) /\ clmTask' = "boot" /\ clmData' = ClmNoData
        /\ ~clmBit' /\ clmPhone' = ClmAway
        /\ UNCHANGED <<clmKind, clmNvs, clmLost, clmKeys>>
    BY <1>1 DEF ClmRestart
  <2>2. clmPhone'.at = "away" /\ ClmNodeAtBoot(clmNvs.node) \in ClmIds \cup {ClmMac}
    BY <2>1, ClaimFacts DEF ClmNodeAtBoot
  <2>3. ClaimTypes'
    BY <2>1, <2>2, ClaimFacts
  <2> QED BY <2>1, <2>2, <2>3
<1>2. CASE ClmClaimed \/ ClmWait
  BY <1>2 DEF ClmClaimed, ClmWait
<1>3. CASE ClmWake
  <2>1. /\ clmTask = "waits" /\ clmTask' \in {"claimed", "failed"} /\ clmData' = ClmNoData
        /\ clmPhone.at = "done"
        /\ UNCHANGED <<clmKind, clmNvs, clmNode, clmBit, clmPhone, clmLost, clmKeys>>
    BY <1>3 DEF ClmWake
  <2>2. ClaimTypes'
    BY <2>1, ClaimFacts
  <2> QED BY <2>1, <2>2
<1>4. CASE ClmPhoneBegins
  <2>1. /\ clmKind # "self" /\ clmTask \in {"ready", "waits"} /\ clmPhone.at = "away"
        /\ UNCHANGED <<clmKind, clmTask, clmKeys, clmNvs, clmNode, clmData, clmBit, clmLost>>
        /\ clmPhone' = [ClmAway EXCEPT !.at = "starts"]
    BY <1>4 DEF ClmPhoneBegins, clmAgent
  <2>2. clmPhone' \in [at : {"starts"}, cert : Certificates, count : {0}]
    BY <2>1, ClaimFacts
  <2>3. ClaimTypes'
    BY <2>1, <2>2
  <2> QED BY <2>1, <2>2, <2>3
<1>5. CASE UNCHANGED clmVars
  BY <1>5 DEF clmVars
<1> QED
  BY <1>1, <1>2, <1>3, <1>4, <1>5, ClaimReady, ClaimAsks, ClaimSelfVerified, ClaimStarts,
     ClaimInits, ClaimSendsMore, ClaimVerifies, ClaimEnds
  DEF ClmNext, ClmAgentTask, ClmHandler, ClmPhoneSteps

(* The same without fairness, which safety does not need.                  *)
LEMMA ClaimSafe == ClmInit /\ [][ClmNext]_clmVars => []ClmCredentialsFit
<1>1. ClaimInv => ClmCredentialsFit
  BY DEF ClaimInv
<1> QED BY <1>1, ClaimInit, ClaimStep, PTL

(* A certificate that was kept fits the key and the name that were kept,   *)
(* for any number of fragments, sessions and restarts                      *)
(* (esp_rmaker_claim.c:545-552, 826-853, 256).                             *)
THEOREM CredentialsFit == ClmSpec => []ClmCredentialsFit
BY ClaimSafe, PTL DEF ClmSpec

-----------------------------------------------------------------------------
(* Claim: its types; the phone brings back no more fragments than there    *)
(* are.                                                                    *)
ClmTypes ==
    /\ ClaimInv /\ ClmTypeOK
    /\ clmPhone.at = "sends" => clmPhone.count < ClmParts

LEMMA ClmTypesBegin == ClmInit => ClmTypes
<1> SUFFICES ASSUME ClmInit PROVE ClmTypes
  OBVIOUS
<1>1. ClaimInv
  BY ClaimInit
<1>2. /\ clmNvs.key = 0 /\ clmNvs.node = ClmNone /\ clmPhone.at = "away"
      /\ clmData.state = ClmNew /\ clmData.offset = 0
  BY DEF ClmInit, ClmNoData, ClmAway
<1>3. ClmNew \in ClmNew..ClmVerifyDone /\ 0 \in 0..ClmParts
  BY ClmAssumption DEF ClmNew, ClmVerifyDone
<1> QED BY <1>1, <1>2, <1>3 DEF ClmInit, ClmTypes, ClmTypeOK

(* A fragment sent.                                                        *)
LEMMA ClmSendTypes ==
    ASSUME ClaimTypes, NEW data \in DataRecords, data.state \in ClmNew..ClmVerifyDone,
           data.offset < ClmParts, ClmSendsPart(data)
    PROVE  /\ clmData'.state \in ClmNew..ClmVerifyDone /\ clmData'.offset \in 0..ClmParts
           /\ clmPhone'.at = "sends" => clmPhone'.count < ClmParts
<1>1. data.offset \in Nat /\ ClmParts \in Nat \ {0}
  BY ClaimFacts DEF DataRecords
<1>2. clmData'.offset = data.offset + 1
  BY DEF ClmSendsPart, DataRecords
<1>3. clmData'.state \in {data.state, ClmStateVerify}
  BY DEF ClmSendsPart, DataRecords
<1>4. clmPhone'.at = "sends" => clmPhone'.count = 0
  BY DEF ClmSendsPart, ClaimTypes
<1> QED BY <1>1, <1>2, <1>3, <1>4 DEF ClmNew, ClmVerifyDone, ClmStateVerify

LEMMA ClmTypesStep == ClmTypes /\ [ClmNext]_clmVars => ClmTypes'
<1> SUFFICES ASSUME ClmTypes, ClmNext \/ UNCHANGED clmVars PROVE ClmTypes'
  OBVIOUS
<1> DEFINE Rest == /\ clmData'.state \in ClmNew..ClmVerifyDone /\ clmData'.offset \in 0..ClmParts
                   /\ clmPhone'.at = "sends" => clmPhone'.count < ClmParts
<1>1. ClaimInv /\ ClaimInv'
  BY ClaimStep DEF ClmTypes
<1>2. /\ clmData \in DataRecords /\ clmPhone.count \in Nat /\ ClmParts \in Nat \ {0}
      /\ clmPhone = [at |-> clmPhone.at, cert |-> clmPhone.cert, count |-> clmPhone.count]
      /\ ClaimTypes
  BY <1>1, ClmAssumption DEF ClaimInv, ClaimTypes
<1>3. /\ clmKind \in {"self", "assisted"}
      /\ clmTask \in {"boot", "ready", "asks", "waits", "claimed", "failed", "aborts"}
      /\ clmData.state \in ClmNew..ClmVerifyDone /\ clmData.offset \in 0..ClmParts
      /\ clmBit \in BOOLEAN /\ clmLost \in BOOLEAN /\ clmEarly \in BOOLEAN
      /\ clmPhone.at = "sends" => clmPhone.count < ClmParts
  BY DEF ClmTypes, ClmTypeOK
<1>4. /\ ClmNoData.state \in ClmNew..ClmVerifyDone /\ ClmNoData.offset \in 0..ClmParts
      /\ ClmAway.at # "sends"
      /\ {ClmNew, ClmPkGenerated, ClmStateInit, ClmInitDone, ClmCsrGenerated, ClmStateVerify,
          ClmVerifyDone} \subseteq ClmNew..ClmVerifyDone
      /\ 0 \in 0..ClmParts /\ ClmParts - 1 \in 0..ClmParts
  BY <1>2 DEF ClmNoData, ClmAway, ClmNew, ClmPkGenerated, ClmStateInit, ClmInitDone, ClmCsrGenerated,
      ClmStateVerify, ClmVerifyDone
<1>5. Rest
  <2>1. CASE ClmRestart \/ ClmWake \/ ClmSelfVerify
    <3>1. clmData' \in {ClmNoData, clmData} /\ (clmPhone' = ClmAway \/ clmPhone' = clmPhone)
      BY <2>1 DEF ClmRestart, ClmWake, ClmSelfVerify, ClmGivesUp
    <3> QED BY <1>3, <1>4, <3>1
  <2>2. CASE ClmClaimed \/ ClmWait \/ UNCHANGED clmVars
    BY <1>3, <2>2 DEF ClmClaimed, ClmWait, clmVars
  <2>3. CASE ClmMakeReady
    <3>1. clmPhone' = clmPhone /\ (clmData' = clmData \/ \E key : clmData' = ClmDataReady(key))
      BY <2>3 DEF ClmMakeReady
    <3>2. \A key : /\ ClmDataReady(key).state \in {ClmCsrGenerated, ClmPkGenerated}
                   /\ ClmDataReady(key).offset = 0
      BY DEF ClmDataReady, ClmNoData
    <3> QED BY <1>3, <1>4, <3>1, <3>2
  <2>4. CASE ClmSelfInit
    <3>1. clmPhone' = clmPhone /\ clmData'.offset = clmData.offset
          /\ clmData'.state \in {clmData.state, ClmInitDone}
      BY <1>2, <2>4 DEF ClmSelfInit, ClmGivesUp, DataRecords
    <3> QED BY <1>3, <1>4, <3>1
  <2>5. CASE ClmPhoneBegins \/ ClmPhoneDrops \/ ClmAbort
    <3>1. clmPhone'.at # "sends"
      BY <2>5 DEF ClmPhoneBegins, ClmPhoneDrops, ClmAbort, ClmAway
    <3>2. /\ clmData'.state \in {clmData.state, ClmPkGenerated}
          /\ clmData'.offset \in {clmData.offset, 0}
      BY <1>2, <2>5 DEF ClmPhoneBegins, ClmPhoneDrops, ClmAbort, DataRecords
    <3> QED BY <1>3, <1>4, <3>1, <3>2
  <2>6. CASE ClmHandleStart
    <3>1. clmPhone'.at # "sends"
      BY <1>2, <2>6 DEF ClmHandleStart, ClmAway
    <3>2. /\ clmData'.state \in {clmData.state, ClmStateInit}
          /\ clmData'.offset \in {clmData.offset, 0}
      BY <1>2, <2>6 DEF ClmHandleStart, DataRecords
    <3> QED BY <1>3, <1>4, <3>1, <3>2
  <2>7. CASE ClmHandleInit
    <3>1. CASE clmPhone' = ClmAway /\ clmData' = clmData
      BY <1>3, <1>4, <3>1
    <3>2. CASE ~(clmPhone' = ClmAway /\ clmData' = clmData)
      <4> DEFINE csr == [key |-> clmData.key, node |-> clmNode']
                 data == [clmData EXCEPT !.state = ClmInitDone, !.csr = csr,
                                         !.payload = ClmWhole(csr), !.offset = 0]
      <4>1. ClmSendsPart(data)
        BY <2>7, <3>2 DEF ClmHandleInit
      <4>2. csr \in Certificates
        BY <1>1, <1>2 DEF ClaimInv, ClaimTypes, DataRecords, Certificates
      <4>3. ClmWhole(csr) \in Seq(Certificates)
        BY <4>2, WholeMessage
      <4>4. data \in DataRecords /\ data.state = ClmInitDone /\ data.offset = 0
        BY <1>2, <4>2, <4>3 DEF DataRecords, ClmInitDone
      <4> HIDE DEF data
      <4>5. data.state \in ClmNew..ClmVerifyDone /\ data.offset < ClmParts
        BY <1>2, <1>4, <4>4
      <4> QED BY <1>2, <4>1, <4>4, <4>5, ClmSendTypes
    <3> QED BY <3>1, <3>2
  <2>8. CASE ClmHandleMore
    <3>1. ClmSendsPart(clmData) /\ clmData.offset < ClmParts
      BY <1>1, <2>8 DEF ClmHandleMore, ClaimInv, AsksPhone
    <3> QED BY <1>2, <1>3, <3>1, ClmSendTypes
  <2>9. CASE ClmHandleVerify
    <3> DEFINE payload == Append(IF clmPhone.count = 0 THEN <<>> ELSE clmData.payload, clmPhone.cert)
    <3>1. clmPhone.at = "sends" /\ clmPhone.count < ClmParts
      BY <1>3, <2>9 DEF ClmHandleVerify
    <3>2. \/ clmPhone' = ClmAway /\ clmData' = clmData
          \/ ClmComplete(payload)
          \/ /\ clmPhone.count + 1 # ClmParts
             /\ clmData' = [clmData EXCEPT !.payload = payload, !.offset = clmPhone.count]
             /\ clmPhone' = [clmPhone EXCEPT !.count = clmPhone.count + 1]
      BY <2>9 DEF ClmHandleVerify
    <3> HIDE DEF payload
    <3>3. CASE clmPhone' = ClmAway /\ clmData' = clmData
      BY <1>3, <1>4, <3>3
    <3>4. CASE ClmComplete(payload)
      <4>1. clmPhone'.at # "sends"
        BY <1>2, <3>4 DEF ClmComplete, ClmAway
      <4>2. /\ clmData'.state \in {clmData.state, ClmVerifyDone}
            /\ clmData'.offset = ClmParts - 1
        BY <1>2, <3>4 DEF ClmComplete, DataRecords
      <4> QED BY <1>3, <1>4, <4>1, <4>2
    <3>5. CASE /\ clmPhone.count + 1 # ClmParts
               /\ clmData' = [clmData EXCEPT !.payload = payload, !.offset = clmPhone.count]
               /\ clmPhone' = [clmPhone EXCEPT !.count = clmPhone.count + 1]
      <4>1. clmData'.state = clmData.state /\ clmData'.offset = clmPhone.count
        BY <1>2, <3>5 DEF DataRecords
      <4>2. clmPhone'.count = clmPhone.count + 1
        BY <1>2, <3>5
      <4> QED BY <1>2, <1>3, <3>1, <3>5, <4>1, <4>2
    <3> QED BY <3>2, <3>3, <3>4, <3>5
  <2> QED BY <2>1, <2>2, <2>3, <2>4, <2>5, <2>6, <2>7, <2>8, <2>9
          DEF ClmNext, ClmAgentTask, ClmHandler, ClmPhoneSteps
<1> HIDE DEF Rest
<1>6. /\ clmKind' \in {"self", "assisted"}
      /\ clmTask' \in {"boot", "ready", "asks", "waits", "claimed", "failed", "aborts"}
      /\ clmBit' \in BOOLEAN /\ clmLost' \in BOOLEAN /\ clmEarly' \in BOOLEAN
  <2>1. CASE ClmAgentTask
    BY <1>3, <2>1 DEF ClmAgentTask, ClmClaimed, ClmMakeReady, ClmSelfInit, ClmSelfVerify, ClmWait,
        ClmWake, ClmGivesUp
  <2>2. CASE ClmPhoneSteps \/ ClmRestart \/ UNCHANGED clmVars
    BY <1>3, <2>2 DEF ClmPhoneSteps, ClmPhoneBegins, ClmPhoneDrops, ClmAbort, ClmRestart, clmAgent,
        clmVars
  <2>3. CASE ClmHandleStart \/ ClmHandleMore
    BY <1>3, <2>3 DEF ClmHandleStart, ClmHandleMore, clmAgent
  <2>4. CASE ClmHandleInit
    BY <1>3, <2>4 DEF ClmHandleInit, ClmRenames, clmAgent
  <2>5. CASE ClmHandleVerify
    <3>1. UNCHANGED <<clmKind, clmTask, clmLost>>
      BY <2>5 DEF ClmHandleVerify, clmAgent
    <3>2. \/ UNCHANGED <<clmBit, clmEarly>>
          \/ clmBit' = (clmBit \/ ClmGroup) /\ clmEarly' = ~ClmGroup
      BY <2>5 DEF ClmHandleVerify, ClmComplete
    <3> QED BY <1>3, <3>1, <3>2
  <2> QED BY <2>1, <2>2, <2>3, <2>4, <2>5 DEF ClmNext, ClmHandler
<1>7. /\ clmNvs'.key \in Nat /\ clmNvs'.node \in ClmIds \cup {ClmNone}
      /\ clmNode' \in ClmIds \cup {ClmMac}
      /\ clmPhone'.at \in {"away", "starts", "names", "collects", "sends", "done"}
  BY <1>1 DEF ClaimInv, ClaimTypes
<1> QED BY <1>1, <1>5, <1>6, <1>7 DEF Rest, ClmTypes, ClmTypeOK

-----------------------------------------------------------------------------
(* Claim: the dialogue's end is heard.  The safety half of ClmGoesOn, and  *)
(* what the agent's success stands for.                                    *)

(* A dialogue that is over has set the bit, or was too early.              *)
ClmHeard ==
    clmTask \in {"ready", "waits"} /\ clmPhone.at = "done" => clmEarly \/ clmBit

(* The bit stands for a certificate that was kept.                         *)
ClmBitIsEarned ==
    clmBit => /\ clmTask \notin {"boot", "ready"}
              /\ clmTask = "waits" => clmData.state = ClmVerifyDone /\ ClmHasAll

ClmClaimedHasAll == clmTask = "claimed" => ClmHasAll

HeardInv == ClaimInv /\ ClmHeard /\ ClmBitIsEarned /\ ClmClaimedHasAll

(* The steps of the agent.                                                 *)
LEMMA HeardByAgent ==
    ASSUME HeardInv, ClmRestart \/ ClmAgentTask \/ UNCHANGED clmVars
    PROVE  (ClmHeard /\ ClmBitIsEarned /\ ClmClaimedHasAll)'
<1>1. ClaimInv /\ ClmHeard /\ ClmBitIsEarned /\ ClmClaimedHasAll
  BY DEF HeardInv
<1>2. CASE ClmRestart
  <2>1. clmTask' = "boot" /\ ~clmBit'
    BY <1>2 DEF ClmRestart
  <2> QED BY <2>1 DEF ClmHeard, ClmBitIsEarned, ClmClaimedHasAll
<1>3. CASE ClmClaimed
  BY <1>1, <1>3 DEF ClmClaimed, ClmHasAll, ClmHeard, ClmBitIsEarned, ClmClaimedHasAll
<1>4. CASE ClmMakeReady
  <2>1. clmTask = "boot" /\ clmTask' \in {"ready", "aborts"} /\ clmBit' = clmBit
        /\ clmPhone' = clmPhone /\ clmPhone.at = "away"
    BY <1>1, <1>4 DEF ClmMakeReady, ClaimInv, Spoken
  <2> QED BY <1>1, <2>1 DEF ClmHeard, ClmBitIsEarned, ClmClaimedHasAll
<1>5. CASE ClmSelfInit
  <2>1. clmTask = "ready" /\ clmTask' \in {"asks", "failed"} /\ clmBit' = clmBit
    BY <1>5 DEF ClmSelfInit, ClmGivesUp
  <2> QED BY <1>1, <2>1 DEF ClmHeard, ClmBitIsEarned, ClmClaimedHasAll
<1>6. CASE ClmSelfVerify
  <2>1. /\ clmTask' \in {"claimed", "failed"}
        /\ clmTask' = "claimed" => clmNvs' = [clmNvs EXCEPT !.cert = clmData.payload[1]]
    BY <1>6 DEF ClmSelfVerify, ClmGivesUp
  <2>2. clmTask = "asks" /\ clmData.payload[1] = Wanted /\ clmNvs.key # 0
    BY <1>1, <1>6 DEF ClmSelfVerify, ClaimInv, AsksItself, Keyed
  <2>3. Wanted # ClmNoCert
    BY <2>2 DEF Wanted, ClmNoCert
  <2>4. clmTask' = "claimed" => ClmHasAll'
    BY <1>1, <2>1, <2>2, <2>3 DEF ClmHasAll, ClaimInv, ClaimTypes
  <2> QED BY <2>1, <2>4 DEF ClmHeard, ClmBitIsEarned, ClmClaimedHasAll
<1>7. CASE ClmWait
  <2>1. /\ clmTask = "ready" /\ clmTask' \in {"waits", "failed"}
        /\ UNCHANGED <<clmBit, clmPhone, clmEarly>>
    BY <1>7 DEF ClmWait
  <2> QED BY <1>1, <2>1 DEF ClmHeard, ClmBitIsEarned, ClmClaimedHasAll
<1>8. CASE ClmWake
  <2>1. /\ clmTask = "waits" /\ clmBit /\ clmTask' \in {"claimed", "failed"} /\ clmNvs' = clmNvs
    BY <1>8 DEF ClmWake
  <2> QED BY <1>1, <2>1 DEF ClmHeard, ClmBitIsEarned, ClmClaimedHasAll, ClmHasAll
<1>9. CASE UNCHANGED clmVars
  BY <1>1, <1>9 DEF clmVars, ClmHeard, ClmBitIsEarned, ClmClaimedHasAll, ClmHasAll
<1> QED BY <1>2, <1>3, <1>4, <1>5, <1>6, <1>7, <1>8, <1>9 DEF ClmAgentTask

(* The end of the dialogue.                                                *)
LEMMA HeardAtEnd ==
    ASSUME HeardInv, ClmHandleVerify
    PROVE  (ClmHeard /\ ClmBitIsEarned /\ ClmClaimedHasAll)'
<1> DEFINE payload == Append(IF clmPhone.count = 0 THEN <<>> ELSE clmData.payload, clmPhone.cert)
<1>1. /\ clmPhone.at = "sends" /\ clmTask \in {"ready", "waits"} /\ clmTask' = clmTask /\ ~clmBit
      /\ clmPhone.cert = Wanted /\ clmNvs.key # 0
      /\ clmPhone.count # 0 => clmData.payload # <<>> /\ clmData.payload[1] = Wanted
  BY DEF ClmHandleVerify, clmAgent, HeardInv, ClaimInv, Spoken, Keyed, AsksPhone
<1>2. /\ Wanted \in Certificates /\ clmData \in DataRecords /\ clmData.payload \in Seq(Certificates)
      /\ clmNvs \in [key : Nat, node : ClmIds \cup {ClmNone}, cert : Certificates]
      /\ clmPhone \in [at : {"away", "starts", "names", "collects", "sends", "done"},
                       cert : Certificates, count : Nat]
  BY ClaimFacts DEF HeardInv, ClaimInv, ClaimTypes, DataRecords
<1>3. payload[1] = Wanted
  <2> DEFINE before == IF clmPhone.count = 0 THEN <<>> ELSE clmData.payload
  <2>1. before \in Seq(Certificates) /\ (before = <<>> \/ (before # <<>> /\ before[1] = Wanted))
    BY <1>1, <1>2
  <2>2. payload = Append(before, Wanted)
    BY <1>1
  <2> HIDE DEF payload, before
  <2>3. payload[1] = IF before = <<>> THEN Wanted ELSE before[1]
    BY <1>2, <2>1, <2>2
  <2> QED BY <2>1, <2>3
<1>4. Wanted # ClmNoCert
  BY <1>1 DEF Wanted, ClmNoCert
<1> HIDE DEF payload
<1>5. \/ clmPhone' = ClmAway /\ clmBit' = clmBit
      \/ clmPhone' = [clmPhone EXCEPT !.count = clmPhone.count + 1] /\ clmBit' = clmBit
      \/ /\ clmNvs' = [clmNvs EXCEPT !.cert = payload[1]]
         /\ clmData' = [clmData EXCEPT !.payload = payload, !.offset = ClmParts - 1,
                                       !.state = ClmVerifyDone]
         /\ clmBit' = (clmBit \/ ClmGroup) /\ clmEarly' = ~ClmGroup
  BY DEF ClmHandleVerify, ClmComplete, payload
<1>6. CASE clmPhone' = ClmAway /\ clmBit' = clmBit
  <2>1. clmPhone'.at = "away"
    BY <1>6 DEF ClmAway
  <2> QED BY <1>1, <1>6, <2>1 DEF ClmHeard, ClmBitIsEarned, ClmClaimedHasAll
<1>7. CASE clmPhone' = [clmPhone EXCEPT !.count = clmPhone.count + 1] /\ clmBit' = clmBit
  <2>1. clmPhone'.at = "sends"
    BY <1>1, <1>2, <1>7
  <2> QED BY <1>1, <1>7, <2>1 DEF ClmHeard, ClmBitIsEarned, ClmClaimedHasAll
<1>8. CASE /\ clmNvs' = [clmNvs EXCEPT !.cert = payload[1]]
           /\ clmData' = [clmData EXCEPT !.payload = payload, !.offset = ClmParts - 1,
                                         !.state = ClmVerifyDone]
           /\ clmBit' = (clmBit \/ ClmGroup) /\ clmEarly' = ~ClmGroup
  <2>1. clmNvs'.cert = Wanted /\ clmNvs'.key = clmNvs.key /\ clmData'.state = ClmVerifyDone
    BY <1>2, <1>3, <1>8 DEF DataRecords
  <2>2. ClmHasAll'
    BY <1>1, <1>4, <2>1 DEF ClmHasAll
  <2>3. CASE clmTask = "waits"
    BY <1>1, <1>8, <2>1, <2>2, <2>3 DEF ClmGroup, ClmHeard, ClmBitIsEarned, ClmClaimedHasAll
  <2>4. CASE clmTask = "ready"
    BY <1>1, <1>8, <2>4 DEF ClmGroup, ClmHeard, ClmBitIsEarned, ClmClaimedHasAll
  <2> QED BY <1>1, <2>3, <2>4
<1> QED BY <1>5, <1>6, <1>7, <1>8

(* The rest of the dialogue, which is not over and has set no bit.         *)
LEMMA HeardMeanwhile ==
    ASSUME HeardInv,
           ClmPhoneSteps \/ ClmHandleStart \/ ClmHandleInit \/ ClmHandleMore
    PROVE  (ClmHeard /\ ClmBitIsEarned /\ ClmClaimedHasAll)'
<1>1. /\ clmPhone.at # "done" /\ clmTask \in {"ready", "waits"}
      /\ clmTask' = clmTask /\ clmBit' = clmBit
  <2>1. CASE ClmPhoneBegins
    BY <2>1 DEF ClmPhoneBegins, clmAgent
  <2>2. CASE ClmPhoneDrops \/ ClmAbort \/ ClmHandleStart \/ ClmHandleInit \/ ClmHandleMore
    BY <2>2 DEF ClmPhoneDrops, ClmAbort, ClmHandleStart, ClmHandleInit, ClmHandleMore, clmAgent,
                HeardInv, ClaimInv, Spoken
  <2> QED BY <2>1, <2>2 DEF ClmPhoneSteps
<1>2. ~clmBit
  BY <1>1 DEF HeardInv, ClaimInv, Spoken
<1>3. clmPhone'.at # "done"
  <2>1. CASE ClmPhoneBegins
    BY <2>1 DEF ClmPhoneBegins, ClmAway
  <2>2. CASE ClmPhoneDrops \/ ClmAbort
    BY <2>2 DEF ClmPhoneDrops, ClmAbort, ClmAway
  <2>3. CASE ClmHandleStart
    <3>1. clmPhone' = ClmAway \/ clmPhone' = [clmPhone EXCEPT !.at = "names"]
      BY <2>3 DEF ClmHandleStart
    <3> QED BY <3>1 DEF HeardInv, ClaimInv, ClaimTypes, ClmAway
  <2>4. CASE ClmHandleInit \/ ClmHandleMore
    <3>1. clmPhone' = ClmAway \/ \E data : ClmSendsPart(data)
      BY <2>4 DEF ClmHandleInit, ClmHandleMore
    <3>2. ASSUME NEW data, ClmSendsPart(data) PROVE clmPhone'.at # "done"
      <4>1. CASE clmPhone.count + 1 = ClmParts
        <5>1. clmPhone' = [at |-> "sends", cert |-> data.payload[data.offset + 1], count |-> 0]
          BY <3>2, <4>1 DEF ClmSendsPart
        <5> QED BY <5>1
      <4>2. CASE clmPhone.count + 1 # ClmParts
        <5>1. clmPhone' = [clmPhone EXCEPT !.at = "collects", !.count = clmPhone.count + 1]
          BY <3>2, <4>2 DEF ClmSendsPart
        <5> QED BY <5>1 DEF HeardInv, ClaimInv, ClaimTypes
      <4> QED BY <4>1, <4>2
    <3> QED BY <3>1, <3>2 DEF ClmAway
  <2> QED BY <2>1, <2>2, <2>3, <2>4 DEF ClmPhoneSteps
<1> QED BY <1>1, <1>2, <1>3 DEF ClmHeard, ClmBitIsEarned, ClmClaimedHasAll

LEMMA HeardStep == HeardInv /\ [ClmNext]_clmVars => HeardInv'
<1> SUFFICES ASSUME HeardInv, ClmNext \/ UNCHANGED clmVars PROVE HeardInv'
  OBVIOUS
<1>1. ClaimInv'
  BY ClaimStep DEF HeardInv
<1>2. (ClmHeard /\ ClmBitIsEarned /\ ClmClaimedHasAll)'
  BY <1>1, HeardByAgent, HeardAtEnd, HeardMeanwhile DEF ClmNext, ClmHandler
<1> QED BY <1>1, <1>2 DEF HeardInv

(* An agent that waits when the dialogue is over is woken, and then has a  *)
(* certificate, unless the dialogue was over before it began to wait       *)
(* (esp_rmaker_claim.c:721-726, 951-958).                                  *)
ClmWaiterIsWoken ==
    clmTask = "waits" /\ clmPhone.at = "done" /\ ~clmEarly =>
        clmBit /\ clmData.state = ClmVerifyDone

(* Nobody waits for a bit that is not to come, and an agent that calls     *)
(* itself claimed has its key and a certificate.                           *)
THEOREM DialogueIsHeard == ClmSpec => [](ClmWaiterIsWoken /\ ClmClaimedHasAll)
<1>1. ClmInit => HeardInv
  <2>1. ClmInit => ClmHeard /\ ClmBitIsEarned /\ ClmClaimedHasAll
    BY DEF ClmInit, ClmHeard, ClmBitIsEarned, ClmClaimedHasAll
  <2> QED BY <2>1, ClaimInit DEF HeardInv
<1>2. HeardInv => ClmWaiterIsWoken /\ ClmClaimedHasAll
  BY DEF HeardInv, ClmWaiterIsWoken, ClmHeard, ClmBitIsEarned
<1> QED BY <1>1, <1>2, HeardStep, PTL DEF ClmSpec

=============================================================================
