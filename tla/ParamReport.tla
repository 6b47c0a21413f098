----------------------------- MODULE ParamReport -----------------------------
(***************************************************************************)
(* How a parameter's value reaches the cloud (esp_rmaker_param.c), and the *)
(* budget of messages it spends on the way (esp_rmaker_mqtt_budget.c).     *)
(*                                                                         *)
(* Commands arrive on the MQTT task and on the local-control server, the   *)
(* first report comes from the work queue; each calls the same functions   *)
(* over one static buffer and no lock.  One parameter stands for all.      *)
(***************************************************************************)
EXTENDS Naturals, FiniteSets

CONSTANTS
    RptCallers,      \* contexts that update and report
    RptValues,       \* values a parameter takes
    RptFirst,        \* the one it is created with
    RptMaxBudget,    \* MAX_BUDGET
    RptBudget,       \* DEFAULT_BUDGET
    RptRevive,       \* BUDGET_REVIVE_COUNT
    RptMaxUpdates,   \* bound: updates, and uses of the budget without its lock
    RptMaxGranted    \* bound: budget ever given

ASSUME RptAssumption ==
    /\ IsFiniteSet(RptCallers)
    /\ RptMaxBudget \in Nat /\ RptBudget \in 0..RptMaxBudget /\ RptRevive \in Nat
    /\ RptFirst \in RptValues /\ "none" \notin RptValues

RptInitCaller == "init"      \* esp_rmaker_params_mqtt_init on the work queue
RptContexts == RptCallers \cup {RptInitCaller}
RptNone == "none"            \* the buffer holds {}

VARIABLES
    rptVal, rptFlag,     \* the parameter: val, RMAKER_PARAM_FLAG_VALUE_CHANGE
    rptBuf,              \* s_node_params_buf
    rptPc,               \* per context: where it stands
    rptStarted, rptReady,  \* ESP_RMAKER_STATE_STARTED, esp_rmaker_params_mqtt_init_done
    rptCloud,            \* the last value published
    rptBudget,           \* mqtt_budget
    rptUpdates,          \* counted for the bound
    rptPublished, rptGranted, \* history: messages published, budget ever given
    rptMisses,                \* history: uses of the budget without its lock
    rptClash, rptDropped      \* history: two reports met; a report was not published

rptParam == <<rptVal, rptFlag>>
rptCount == <<rptPublished, rptGranted, rptMisses>>
rptAgent == <<rptStarted, rptReady>>
rptVars == <<rptParam, rptBuf, rptPc, rptAgent, rptCloud, rptBudget, rptUpdates,
             rptCount, rptClash, rptDropped>>

RptInit ==
    /\ rptVal = RptFirst /\ rptFlag = FALSE /\ rptBuf = RptNone
    /\ rptPc = [c \in RptContexts |-> "idle"]
    /\ rptStarted = FALSE /\ rptReady = FALSE /\ rptCloud = RptNone
    /\ rptBudget = RptBudget /\ rptGranted = RptBudget
    /\ rptUpdates = 0 /\ rptPublished = 0 /\ rptMisses = 0
    /\ rptClash = FALSE /\ rptDropped = FALSE

RptGo(c, from, to) == rptPc[c] = from /\ rptPc' = [rptPc EXCEPT ![c] = to]
RptOthersAt(c, places) == \E d \in RptContexts \ {c} : rptPc[d] \in places

\* The agent's task is through to the cloud: from now on updates are reported.
RptStart ==
    /\ ~rptStarted /\ rptStarted' = TRUE
    /\ UNCHANGED <<rptParam, rptBuf, rptPc, rptReady, rptCloud, rptBudget, rptUpdates,
                   rptCount, rptClash, rptDropped>>

\* A command: esp_rmaker_handle_set_params calls the device's write_cb, that
\* esp_rmaker_param_update_and_report, and that esp_rmaker_param_update.
RptStoreValue(c, v) ==
    /\ c # RptInitCaller
    /\ rptUpdates < RptMaxUpdates
    /\ RptGo(c, "idle", "flag")
    /\ rptVal' = v
    /\ rptUpdates' = rptUpdates + 1
    /\ UNCHANGED <<rptFlag, rptBuf, rptAgent, rptCloud, rptBudget, rptCount, rptClash, rptDropped>>

RptChanged_Forgotten(flag) == flag
RptChanged(flag) == TRUE

RptSetFlag(c) ==
    /\ RptGo(c, "flag", "check")
    /\ rptFlag' = RptChanged(rptFlag)
    /\ rptClash' = (rptClash \/ RptOthersAt(c, {"reset"}))
    /\ UNCHANGED <<rptVal, rptBuf, rptAgent, rptCloud, rptBudget, rptUpdates,
                   rptCount, rptDropped>>

\* Before the agent has started the flag stays up and nothing is reported.
RptIfStarted(c) ==
    /\ RptGo(c, "check", IF rptStarted THEN "write" ELSE "idle")
    /\ UNCHANGED <<rptParam, rptBuf, rptAgent, rptCloud, rptBudget, rptUpdates,
                   rptCount, rptClash, rptDropped>>

\* esp_rmaker_populate_params: the JSON is written, then the flags are reset.
RptWrite(c) ==
    /\ RptGo(c, "write", "reset")
    /\ rptBuf' = IF rptFlag THEN rptVal ELSE RptNone
    /\ rptClash' = (rptClash \/ RptOthersAt(c, {"reset", "length", "budget", "publish"}))
    /\ UNCHANGED <<rptParam, rptAgent, rptCloud, rptBudget, rptUpdates, rptCount, rptDropped>>

RptResetFlag(c) ==
    /\ RptGo(c, "reset", "length")
    /\ rptFlag' = FALSE
    /\ UNCHANGED <<rptVal, rptBuf, rptAgent, rptCloud, rptBudget, rptUpdates,
                   rptCount, rptClash, rptDropped>>

\* esp_rmaker_params_mqtt_init, esp_rmaker_report_node_state: everything is
\* written, no flag is reset.
RptFirstReport(c) ==
    /\ c = RptInitCaller /\ rptStarted /\ ~rptReady
    /\ RptGo(c, "idle", "all")
    /\ rptReady' = TRUE
    /\ UNCHANGED <<rptParam, rptBuf, rptStarted, rptCloud, rptBudget, rptUpdates, rptCount,
                   rptClash, rptDropped>>

RptWriteAll(c) ==
    /\ RptGo(c, "all", "length")
    /\ rptBuf' = rptVal
    /\ rptClash' = (rptClash \/ RptOthersAt(c, {"reset", "length", "budget", "publish"}))
    /\ UNCHANGED <<rptParam, rptAgent, rptCloud, rptBudget, rptUpdates, rptCount, rptDropped>>

\* esp_rmaker_report_param_internal
RptLength(c) ==
    /\ RptGo(c, "length", IF rptBuf # RptNone /\ rptReady THEN "budget" ELSE "idle")
    /\ UNCHANGED <<rptParam, rptBuf, rptAgent, rptCloud, rptBudget, rptUpdates,
                   rptCount, rptClash, rptDropped>>

\* The lock of the budget could not be made, or is not to be had in 500 ms.
RptLockMissed ==
    /\ rptUpdates < RptMaxUpdates /\ rptUpdates' = rptUpdates + 1
    /\ rptMisses' = rptMisses + 1

\* esp_rmaker_mqtt_is_budget_available: the lock is given back with the answer;
\* without the lock the publication is allowed.
RptBudgetCheck(c) ==
    /\ \/ /\ RptGo(c, "budget", IF rptBudget > 0 THEN "publish" ELSE "idle")
          /\ rptDropped' = (rptDropped \/ ~(rptBudget > 0))
          /\ UNCHANGED <<rptUpdates, rptMisses>>
       \/ /\ RptGo(c, "budget", "publish")
          /\ RptLockMissed /\ UNCHANGED rptDropped
    /\ UNCHANGED <<rptParam, rptBuf, rptAgent, rptCloud, rptBudget, rptPublished, rptGranted, rptClash>>

\* The client copies what the buffer holds by now ...
RptPublish(c) ==
    /\ RptGo(c, "publish", "spend")
    /\ rptCloud' = IF rptBuf = RptNone THEN rptCloud ELSE rptBuf
    /\ rptPublished' = rptPublished + 1
    /\ UNCHANGED <<rptParam, rptBuf, rptAgent, rptBudget, rptUpdates, rptGranted,
                   rptMisses, rptClash, rptDropped>>

\* ... or fails; the flags are reset by then and nobody tries again.
RptPublishFails(c) ==
    /\ RptGo(c, "publish", "idle")
    /\ rptDropped' = TRUE
    /\ UNCHANGED <<rptParam, rptBuf, rptAgent, rptCloud, rptBudget, rptUpdates,
                   rptCount, rptClash>>

RptDecrease_Forgotten(budget) == budget

\* esp_rmaker_mqtt_decrease_budget
RptDecrease(budget) == IF budget > 0 THEN budget - 1 ELSE 0

RptSpend(c) ==
    /\ RptGo(c, "spend", "idle")
    /\ \/ rptBudget' = RptDecrease(rptBudget) /\ UNCHANGED <<rptUpdates, rptMisses>>
       \/ RptLockMissed /\ UNCHANGED rptBudget
    /\ UNCHANGED <<rptParam, rptBuf, rptAgent, rptCloud, rptPublished,
                   rptGranted, rptClash, rptDropped>>

\* esp_rmaker_mqtt_revive_budget
RptIncrease(budget) ==
    IF budget + RptRevive > RptMaxBudget THEN RptMaxBudget ELSE budget + RptRevive

RptPeriod ==
    /\ rptGranted < RptMaxGranted
    /\ \/ rptBudget' = RptIncrease(rptBudget) /\ UNCHANGED <<rptUpdates, rptMisses>>
       \/ RptLockMissed /\ UNCHANGED rptBudget
    /\ rptGranted' = rptGranted + (rptBudget' - rptBudget)
    /\ UNCHANGED <<rptParam, rptBuf, rptPc, rptAgent, rptCloud, rptPublished, rptClash, rptDropped>>

RptUpdate(c) ==
    (\E v \in RptValues : RptStoreValue(c, v)) \/ RptSetFlag(c) \/ RptIfStarted(c)
RptReport(c) == RptWrite(c) \/ RptResetFlag(c) \/ RptFirstReport(c) \/ RptWriteAll(c) \/ RptLength(c)
RptMqtt(c) == RptBudgetCheck(c) \/ RptPublish(c) \/ RptPublishFails(c) \/ RptSpend(c)

RptNext ==
    RptStart \/ RptPeriod \/ \E c \in RptContexts : RptUpdate(c) \/ RptReport(c) \/ RptMqtt(c)

RptSpec == RptInit /\ [][RptNext]_rptVars

-----------------------------------------------------------------------------
RptTypeOK ==
    /\ rptVal \in RptValues /\ rptFlag \in BOOLEAN /\ rptReady \in BOOLEAN /\ rptStarted \in BOOLEAN
    /\ {rptBuf, rptCloud} \subseteq RptValues \cup {RptNone}
    /\ rptPc \in [RptContexts -> {"idle", "flag", "check", "write", "all", "reset",
                                  "length", "budget", "publish", "spend"}]
    /\ rptBudget \in 0..RptMaxBudget

RptQuiet == \A c \in RptContexts : rptPc[c] = "idle"

\* When every report is done the cloud has the value, unless a message was
\* dropped, for lack of budget or by the client after the flags were reset
\* (esp_rmaker_mqtt.c:113-122), or one of two windows was hit: a flag set between
\* another report's JSON and its reset of the flags, or a JSON written over one
\* that is not yet published (esp_rmaker_param.c:131-163, 230, 274).
RptStaleOnlyByClash ==
    RptQuiet /\ rptReady /\ ~rptClash /\ ~rptDropped => rptCloud = rptVal

\* Publishers that check the same last unit all publish, so that the budget is
\* kept only up to the number of contexts (esp_rmaker_mqtt.c:113-121); and each
\* use of it without its lock, where the code lets the publication pass and does
\* not pay, costs one message more and no more than one
\* (esp_rmaker_mqtt_budget.c:32-39, 66-73).
RptBudgetBound == rptPublished <= rptGranted * Cardinality(RptContexts) + rptMisses
=============================================================================
