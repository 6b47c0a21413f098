------------------------------ MODULE Insights ------------------------------
(***************************************************************************)
(* The reporter of diagnostics (esp_insights.c) over the RTC store, which  *)
(* is here the queues it promises (RtcFifo, implemented by RtcStore); all  *)
(* records of the critical ring are of one length, so that lengths count   *)
(* records.                                                                *)
(*                                                                         *)
(* The periodic handler runs on the work queue, acknowledgements are       *)
(* handled on the event loop, the time-out on the timer task, and other    *)
(* code publishes on the same MQTT client.  insPc is where a pass of the   *)
(* handler stands; it holds data_lock only within one action.              *)
(***************************************************************************)
EXTENDS Integers, Sequences

CONSTANTS
    InsRoom,      \* records the critical ring has room for
    InsReadBuf,   \* records that INSIGHTS_READ_BUF_SIZE bytes hold
    InsMaxMade,   \* bound: critical records logged
    InsMaxId      \* bound: messages published since the last reset

ASSUME InsAssumption == {InsRoom, InsReadBuf, InsMaxMade, InsMaxId} \subseteq Nat \ {0}

VARIABLES
    insQueue,     \* what the two rings hold: number and boot of each record
    insBootNo,    \* the boot, as the table of metas tells it from the last one
    insMade,      \* critical records logged so far
    insPc,        \* "idle", "boot", "store", "read", "other", "publish", "record", "end"
    insBusy,      \* data_send_inprogress
    insTimer,     \* data_send_timer is active
    insMsg,       \* data_msg_id (0: none yet) and data_msg_len
    insBoot,      \* boot_msg_id
    insTaken,     \* what the pass has read: bytes consumed and their records
    insSent,      \* msg_id the pass has just been given (0: none)
    insNet,       \* messages whose acknowledgement has not been handled
    insNextId,    \* the client's next message id
    insSafe,      \* history: records in the ring that an acknowledged message carried
    insLost,      \* history: a record that was not safe has been released
    insRaced      \* history: an acknowledgement released between a pass's read and its record

insStore == <<insQueue, insBootNo, insMade>>
insRam == <<insPc, insBusy, insTimer, insMsg, insBoot, insTaken, insSent, insNet,
            insNextId>>
insPass == <<insPc, insTaken, insSent>>
insGhosts == <<insSafe, insLost, insRaced>>
insVars == <<insStore, insRam, insGhosts>>

InsRecords(r) ==
    {<<[id |-> id, boot |-> b]>> : id \in 0..InsMaxMade, b \in 0..1}

InsNothing == [len |-> 0, ids |-> {}]

InsRings == {"critical", "non_critical"}
Fifo == INSTANCE RtcFifo WITH Rings <- InsRings, Records <- InsRecords, queue <- insQueue

InsInit ==
    /\ Fifo!Init /\ insBootNo = 0 /\ insMade = 0
    /\ insPc = "idle" /\ insBusy = FALSE /\ insTimer = FALSE
    /\ insMsg = [id |-> 0, len |-> 0] /\ insBoot = -1
    /\ insTaken = InsNothing /\ insSent = 0
    /\ insNet = {} /\ insNextId = 1
    /\ insSafe = {} /\ insLost = FALSE /\ insRaced = FALSE

-----------------------------------------------------------------------------
InsIds(records) == {records[i].id : i \in DOMAIN records}

\* encode_log_list: the records read, up to the first one of another boot.
InsConsumed(r) ==
    LET n    == IF Len(insQueue[r]) < InsReadBuf THEN Len(insQueue[r]) ELSE InsReadBuf
        Same == {k \in 0..n : \A i \in 1..k : insQueue[r][i].boot = insQueue[r][1].boot}
    IN  CHOOSE k \in Same : \A j \in Same : j <= k

\* insights_periodic_handler up to the end of its lock; the station may be down.
InsBegin ==
    /\ insPc = "idle"
    /\ \/ insBusy' = FALSE /\ insPc' = "idle"
       \/ insBusy /\ UNCHANGED <<insBusy, insPc>>
       \/ ~insBusy /\ insBusy' = TRUE /\ insPc' = IF insBoot = -1 THEN "boot" ELSE "read"
    /\ UNCHANGED <<insStore, insTimer, insMsg, insBoot, insTaken, insSent, insNet,
                   insNextId, insGhosts>>

\* esp_insights_transport_data_send: an id, or -1 when the budget is used up.
InsPublish(ids) ==
    \/ /\ insNextId <= InsMaxId
       /\ insNet' = insNet \cup {[id |-> insNextId, ids |-> ids]}
       /\ insNextId' = insNextId + 1
       /\ insSent' = insNextId
    \/ insSent' = -1 /\ UNCHANGED <<insNet, insNextId>>

\* send_boottime_data publishes, and stores the id without the lock.
InsBootSend ==
    /\ insPc = "boot"
    /\ InsPublish({})
    /\ insPc' = "store"
    /\ UNCHANGED <<insStore, insBusy, insTimer, insMsg, insBoot, insTaken, insGhosts>>

InsBootStore ==
    /\ insPc = "store"
    /\ insBoot' = insSent
    /\ insPc' = "read" /\ insSent' = 0
    /\ UNCHANGED <<insStore, insBusy, insTimer, insMsg, insTaken, insNet, insNextId, insGhosts>>

InsRead ==
    /\ insPc = "read"
    /\ LET n == InsConsumed("critical")
       IN  insTaken' = [len |-> n, ids |-> InsIds(SubSeq(insQueue["critical"], 1, n))]
    /\ insPc' = "other"
    /\ UNCHANGED <<insStore, insBusy, insTimer, insMsg, insBoot, insSent, insNet,
                   insNextId, insGhosts>>

\* The non-critical ring is released before anything is sent.
InsOther ==
    /\ insPc = "other"
    /\ LET n == InsConsumed("non_critical")
       IN  /\ Fifo!Drop("non_critical", n)
           /\ insPc' = IF insTaken.len = 0 /\ n = 0 THEN "end" ELSE "publish"
    /\ UNCHANGED <<insBootNo, insMade, insBusy, insTimer, insMsg, insBoot, insTaken, insSent, insNet,
                   insNextId, insGhosts>>

InsSend ==
    /\ insPc = "publish"
    /\ InsPublish(insTaken.ids)
    /\ insPc' = IF insSent' > 0 THEN "record" ELSE "end"
    /\ UNCHANGED <<insStore, insBusy, insTimer, insMsg, insBoot, insTaken, insGhosts>>

InsRecord ==
    /\ insPc = "record"
    /\ insMsg' = [id |-> insSent, len |-> insTaken.len]
    /\ insTimer' = TRUE
    /\ insPc' = "idle" /\ insTaken' = InsNothing /\ insSent' = 0
    /\ UNCHANGED <<insStore, insBusy, insBoot, insNet, insNextId, insGhosts>>

InsEnd ==
    /\ insPc = "end"
    /\ insBusy' = FALSE
    /\ insPc' = "idle" /\ insTaken' = InsNothing /\ insSent' = 0
    /\ UNCHANGED <<insStore, insTimer, insMsg, insBoot, insNet, insNextId, insGhosts>>

InsMatches_Any(m) == TRUE

\* What the handler of an acknowledgement takes for the data message.
InsMatches(m) == m.id = insMsg.id

\* insights_event_handler for INSIGHTS_EVENT_TRANSPORT_SEND_SUCCESS. The failure's event
\* is not posted in this build; a meta message is one of InsOthersPublish.
InsAck(m) ==
    /\ insNet' = insNet \ {m}
    /\ insTimer' = FALSE
    /\ IF InsMatches(m)
       THEN /\ \/ /\ Fifo!Drop("critical", insMsg.len)
                  /\ insLost' = (insLost \/ ~(InsIds(SubSeq(insQueue["critical"], 1, insMsg.len))
                                               \subseteq insSafe \cup m.ids))
               \/ Len(insQueue["critical"]) < insMsg.len /\ UNCHANGED <<insQueue, insLost>>
            /\ insRaced' = (insRaced \/ insPc \in {"other", "publish", "record"})
            /\ insBusy' = FALSE
            /\ UNCHANGED insBoot
       ELSE /\ insBoot' = IF insBoot = m.id THEN 0 ELSE insBoot
            /\ UNCHANGED <<insQueue, insLost, insRaced, insBusy>>
    /\ insSafe' = (insSafe \cup m.ids) \cap InsIds(insQueue'["critical"])
    /\ UNCHANGED <<insBootNo, insMade, insMsg, insPass, insNextId>>

\* data_send_timeout_cb
InsTimeout ==
    /\ insTimer
    /\ insTimer' = FALSE
    /\ insBusy' = FALSE
    /\ insBoot' = IF insBoot > 0 THEN -1 ELSE insBoot
    /\ UNCHANGED <<insStore, insPass, insMsg, insNet, insNextId, insGhosts>>

\* Parameters, schedules and the rest publish on the same client.
InsOthersPublish ==
    /\ insNextId <= InsMaxId
    /\ insNet' = insNet \cup {[id |-> insNextId, ids |-> {}]}
    /\ insNextId' = insNextId + 1
    /\ UNCHANGED <<insStore, insPass, insBusy, insTimer, insMsg, insBoot, insGhosts>>

InsRestart ==
    /\ insPc' = "idle" /\ insBusy' = FALSE /\ insTimer' = FALSE
    /\ insMsg' = [id |-> 0, len |-> 0] /\ insBoot' = -1
    /\ insTaken' = InsNothing /\ insSent' = 0
    /\ insNet' = {} /\ insNextId' = 1
    /\ insSafe' = insSafe \cap InsIds(insQueue'["critical"])
    /\ UNCHANGED <<insLost, insRaced>>

\* A reset keeps the rings, a power-on does not; messages under way are forgotten.
InsReset ==
    /\ insBootNo' = 1 - insBootNo
    /\ UNCHANGED <<insQueue, insMade>>
    /\ InsRestart

InsPowerOn ==
    /\ Fifo!Empty
    /\ insBootNo' = 0 /\ UNCHANGED insMade
    /\ InsRestart

\* log_write_cb, metrics_write_cb; what does not fit is dropped.
InsLog ==
    /\ insMade < InsMaxMade
    /\ Len(insQueue["critical"]) < InsRoom
    /\ Fifo!Put("critical", <<[id |-> insMade + 1, boot |-> insBootNo]>>)
    /\ insMade' = insMade + 1
    /\ UNCHANGED <<insBootNo, insRam, insGhosts>>

InsMetric ==
    /\ insQueue["non_critical"] = <<>>
    /\ Fifo!Put("non_critical", <<[id |-> 0, boot |-> insBootNo]>>)
    /\ UNCHANGED <<insBootNo, insMade, insRam, insGhosts>>

InsHandler == InsBegin \/ InsBootSend \/ InsBootStore \/ InsRead \/ InsOther \/ InsSend
              \/ InsRecord \/ InsEnd

InsNext ==
    \/ InsHandler
    \/ \E m \in insNet : InsAck(m)
    \/ InsTimeout \/ InsOthersPublish
    \/ InsLog \/ InsMetric \/ InsReset \/ InsPowerOn

InsSpec == InsInit /\ [][InsNext]_insVars

-----------------------------------------------------------------------------
InsTypeOK ==
    /\ Len(insQueue["critical"]) <= InsRoom /\ insBootNo \in 0..1
    /\ insPc \in {"idle", "boot", "store", "read", "other", "publish", "record", "end"}
    /\ insBusy \in BOOLEAN /\ insTimer \in BOOLEAN
    /\ insBoot \in -1..InsMaxId /\ insMsg.id \in 0..InsMaxId
    /\ insTaken.len <= InsReadBuf /\ insNextId \in 1..InsMaxId + 1

\* A record leaves the critical ring before a message with it was acknowledged
\* only after an acknowledgement came between the read and the record of a
\* later pass (esp_insights.c:253, 409-438).
InsLostOnlyByRace == insLost => insRaced
=============================================================================
