------------------------------ MODULE Schedule ------------------------------
(***************************************************************************)
(* The life of a schedule (esp_rmaker_schedule.c over esp_schedule.c, with *)
(* its NVS off).  Commands come on the MQTT task, the timer's callback     *)
(* runs on the timer task, and what it triggers runs on the work queue,    *)
(* which is of higher priority; all three touch the record without a lock. *)
(* The clock counts slots; when a schedule is due next is abstracted to    *)
(* the next multiple of SchPeriod (ScheduleDates has the calendar).        *)
(***************************************************************************)
EXTENDS Naturals, Sequences

CONSTANTS
    SchKinds,        \* of "relative", "day_once", "date_once", "date_until", "repeat"
    SchDelay,        \* relative_seconds
    SchPeriod,       \* slots between two due times of the other kinds
    SchLast,         \* last instant of "date_until": months up to a final year
    SchWrap,         \* 2^32 ms: the timer's period is computed in 32 bits
    SchRoom,         \* triggers the work queue has room for
    SchMaxTime,      \* bound: the clock
    SchMaxCommands,  \* bound: commands
    SchMaxResets     \* bound: restarts

ASSUME SchAssumption ==
    {SchDelay, SchPeriod, SchLast, SchWrap, SchRoom, SchMaxTime} \subseteq Nat \ {0}

VARIABLES
    schSet,       \* the schedule in the list (or not) and in esp_schedule's record
    schTimer,     \* when its timer runs out, SchOff
    schClock, schSynced,    \* the time, and whether SNTP has set it
    schSync,      \* time_sync_state: "not_started", "started" (its timer runs), "done"
    schCb,        \* where esp_schedule_common_timer_cb stands
    schQueue,     \* the work queue: schedules triggered, by index
    schWork,      \* index whose action has run and whose expiry is to be tested
    schSaved,     \* the value of the param "Schedules" in NVS
    schCommands, schResets,      \* counted for the bounds
    schActed,     \* history: when the action ran last since the last command: "no",
                  \*   "yes", "past" SchLast
    schRaces,     \* history: since the last command, of "overlap" (it came while a
                  \*   trigger was under way), "lost" (a trigger was), "turned" (see SchTest)
    schEarly,     \* history: the timer ran for SchWrap or more too short since then
    schRearmed    \* history: the timer's callback started the timer of a disabled one

schBounds == <<schCommands, schResets>>
schTime == <<schClock, schSynced, schSync>>
schArmed == <<schEarly, schRearmed>>
schGhosts == <<schActed, schRaces, schArmed>>
schVars == <<schSet, schTimer, schTime, schCb, schQueue, schWork, schSaved, schBounds,
             schGhosts>>

SchOff == SchMaxTime + SchDelay + SchPeriod + 1
SchNone == [index |-> 0, kind |-> "repeat", enabled |-> FALSE, utc |-> 0, ts |-> 0]
SchPresent == schSet.index # 0
SchQuiet == schCb = "idle" /\ schQueue = <<>> /\ schWork = 0
SchUnderway == schWork = schSet.index \/ \E i \in 1..Len(schQueue) : schQueue[i] = schSet.index

SchInit ==
    /\ schSet = SchNone /\ schTimer = SchOff
    /\ schClock = 1 /\ schSynced = FALSE /\ schSync = "not_started"
    /\ schCb = "idle" /\ schQueue = <<>> /\ schWork = 0 /\ schSaved = SchNone
    /\ schCommands = 0 /\ schResets = 0 /\ schActed = "no"
    /\ schRaces = {} /\ schEarly = FALSE /\ schRearmed = FALSE

\* The kinds whose due time esp_schedule hands over to esp_rmaker_schedule.
SchStamped(s) == s.kind \notin {"repeat", "date_until"}

\* Strictly: at its last instant a date schedule is not yet over.
SchPastLast(s) == s.kind = "date_until" /\ SchLast < schClock

\* esp_schedule_is_expired: only for a day does a due time that a disable has
\* cleared count as past.
SchExpired(s) ==
    \/ SchPastLast(s)
    \/ SchStamped(s) /\ s.utc <= schClock /\ (s.utc > 0 \/ s.kind = "day_once")

\* esp_rmaker_schedule_is_expired
SchRmakerExpired(s) == SchPastLast(s) \/ (SchStamped(s) /\ s.ts > 0 /\ s.ts <= schClock)

\* esp_schedule_get_next_schedule_time_diff: the due time.
SchDue(s) ==
    IF s.kind # "relative" THEN (schClock \div SchPeriod + 1) * SchPeriod
    ELSE IF s.utc > 0 THEN s.utc ELSE schClock + SchDelay

\* esp_schedule_start_timer, with the time-stamp callback.
SchStarted(s) ==
    [s EXCEPT !.utc = SchDue(s), !.ts = IF SchStamped(s) THEN SchDue(s) ELSE @]
SchPeriodOf(s) == IF SchDue(s) > schClock THEN (SchDue(s) - schClock) % SchWrap ELSE 0
SchTooShort(s) == SchDue(s) - schClock >= SchWrap

\* esp_rmaker_schedule_operation_disable
SchDisabled(s) == [s EXCEPT !.utc = 0, !.ts = 0, !.enabled = FALSE]

\* esp_rmaker_schedule_operation_enable from the test of the expiry on.
SchArm(s) ==
    /\ schRearmed' = FALSE
    /\ IF SchRmakerExpired(s)
       THEN schSet' = SchDisabled(s) /\ schTimer' = SchOff /\ schEarly' = FALSE
       ELSE /\ schSet' = SchStarted(s)
            /\ schTimer' = schClock + SchPeriodOf(s)
            /\ schEarly' = SchTooShort(s)

SchEnable(s) ==
    IF schSync = "started" \/ (schSync = "not_started" /\ ~schSynced)
    THEN /\ schSync' = "started"
         /\ schSet' = [s EXCEPT !.enabled = TRUE]
         /\ UNCHANGED <<schTimer, schArmed>>
    ELSE /\ schSync' = "done"
         /\ SchArm([s EXCEPT !.enabled = TRUE])

-----------------------------------------------------------------------------
\* write_cb reports and saves the schedules after each command.
SchCommand ==
    /\ schCommands < SchMaxCommands
    /\ schCommands' = schCommands + 1
    /\ schSaved' = schSet'
    /\ schActed' = "no" /\ schRaces' = IF SchQuiet THEN {} ELSE {"overlap"}
    /\ UNCHANGED <<schClock, schSynced, schCb, schQueue, schWork, schResets>>

SchAdd ==
    /\ ~SchPresent
    /\ \E k \in SchKinds : SchEnable([SchNone EXCEPT !.index = schCommands + 1, !.kind = k])
    /\ SchCommand

\* The record after the trigger of the command has been set; when it was
\* enabled, the edit disables it and enables it again.
SchEdited(k) == [schSet EXCEPT !.kind = k, !.ts = 0,
                               !.utc = IF "relative" \in {schSet.kind, k} THEN 0 ELSE @]

\* The edit leaves the timer as it is.
SchRestarted_Not(s) == schSet' = s /\ UNCHANGED <<schTimer, schArmed, schSync>>

SchRestarted(s) == SchEnable(SchDisabled(s))

SchEdit ==
    /\ SchPresent
    /\ \E k \in SchKinds :
          IF schSet.enabled THEN SchRestarted(SchEdited(k))
          ELSE schSet' = SchEdited(k) /\ UNCHANGED <<schTimer, schSync, schArmed>>
    /\ SchCommand

SchEnableCommand == SchPresent /\ SchEnable(schSet) /\ SchCommand

SchDisableCommand ==
    /\ SchPresent
    /\ schSet' = SchDisabled(schSet) /\ schTimer' = SchOff
    /\ schEarly' = FALSE /\ schRearmed' = FALSE
    /\ UNCHANGED schSync
    /\ SchCommand

\* The record is freed under a callback that is under way; the model lets the
\* callback end there.
SchRemove ==
    /\ SchPresent
    /\ schSet' = SchNone /\ schTimer' = SchOff
    /\ schCommands < SchMaxCommands /\ schCommands' = schCommands + 1
    /\ schSaved' = SchNone /\ schCb' = "idle"
    /\ schActed' = "no" /\ schRaces' = IF SchQuiet THEN {} ELSE {"overlap"}
    /\ schEarly' = FALSE /\ schRearmed' = FALSE
    /\ UNCHANGED <<schTime, schQueue, schWork, schResets>>

-----------------------------------------------------------------------------
\* esp_schedule_common_timer_cb: the trigger is put in the work queue, the
\* expiry is tested, the timer is started again.
SchFire ==
    /\ schTimer <= schClock /\ schCb = "idle"
    /\ schTimer' = SchOff
    /\ schCb' = "test"
    /\ IF Len(schQueue) < SchRoom
       THEN schQueue' = Append(schQueue, schSet.index) /\ UNCHANGED schRaces
       ELSE schRaces' = schRaces \cup {"lost"} /\ UNCHANGED schQueue
    /\ schRearmed' = FALSE
    /\ UNCHANGED <<schSet, schTime, schWork, schSaved, schBounds, schActed, schEarly>>

\* The second may turn between the two tests of a trigger: the work queue, which
\* was faster, found the schedule not yet over and left it enabled.
SchTurned ==
    SchExpired(schSet) /\ schSet.enabled /\ ~SchUnderway /\ "lost" \notin schRaces

SchTest ==
    /\ schCb = "test"
    /\ schCb' = IF SchExpired(schSet) THEN "idle" ELSE "start"
    /\ schRaces' = IF SchTurned THEN schRaces \cup {"turned"} ELSE schRaces
    /\ UNCHANGED <<schSet, schTimer, schTime, schQueue, schWork, schSaved, schBounds,
                   schActed, schArmed>>

SchStart ==
    /\ schCb = "start"
    /\ schCb' = "idle"
    /\ schSet' = SchStarted(schSet)
    /\ schTimer' = schClock + SchPeriodOf(schSet)
    /\ schEarly' = (schEarly \/ SchTooShort(schSet))
    /\ schRearmed' = ~schSet.enabled
    /\ UNCHANGED <<schTime, schQueue, schWork, schSaved, schBounds, schActed, schRaces>>

\* esp_rmaker_schedule_trigger_work_cb: the action, then the expiry.
SchAct ==
    /\ schQueue # <<>> /\ schWork = 0
    /\ schQueue' = Tail(schQueue)
    /\ IF Head(schQueue) = schSet.index
       THEN /\ schWork' = schSet.index
            /\ schActed' = IF SchLast < schClock THEN "past" ELSE "yes"
       ELSE UNCHANGED <<schWork, schActed>>
    /\ UNCHANGED <<schSet, schTimer, schTime, schCb, schSaved, schBounds, schRaces, schArmed>>

SchAfterAct_Forgotten(s) == s

\* A schedule that does not repeat any more is disabled and reported.
SchAfterAct(s) == IF SchRmakerExpired(s) THEN SchDisabled(s) ELSE s

SchActed ==
    /\ schWork # 0
    /\ schWork' = 0
    /\ IF schSet.index = schWork /\ SchAfterAct(schSet) # schSet
       THEN /\ schSet' = SchAfterAct(schSet) /\ schTimer' = SchOff /\ schSaved' = schSet'
            /\ schRearmed' = FALSE
       ELSE UNCHANGED <<schSet, schTimer, schSaved, schRearmed>>
    /\ UNCHANGED <<schTime, schCb, schQueue, schBounds, schActed, schRaces, schEarly>>

\* esp_rmaker_schedule_timesync_timer_work_cb, once the time is set; a schedule it
\* disables is reported, and saved.
SchTimeSynced ==
    /\ schSync = "started" /\ schSynced
    /\ schSync' = "done"
    /\ IF schSet.enabled THEN SchArm(schSet) ELSE UNCHANGED <<schSet, schTimer, schArmed>>
    /\ schSaved' = IF schSet.enabled /\ SchRmakerExpired(schSet) THEN schSet' ELSE schSaved
    /\ UNCHANGED <<schClock, schSynced, schCb, schQueue, schWork, schBounds, schActed, schRaces>>

SchTick ==
    /\ schClock < SchMaxTime
    /\ schClock' = schClock + 1
    /\ schSynced' \in {schSynced, TRUE}
    /\ UNCHANGED <<schSet, schTimer, schSync, schCb, schQueue, schWork, schSaved, schBounds,
                   schGhosts>>

\* A restart adds the schedules saved.
SchReset ==
    /\ schResets < SchMaxResets
    /\ schResets' = schResets + 1
    /\ schCb' = "idle" /\ schQueue' = <<>> /\ schWork' = 0
    /\ schSynced' = FALSE /\ schTimer' = SchOff
    /\ schSet' = [schSaved EXCEPT !.utc = IF schSaved.kind = "relative" THEN schSaved.ts ELSE 0]
    /\ schSync' = IF schSaved.enabled THEN "started" ELSE "not_started"
    /\ schActed' = "no" /\ schRaces' = {} /\ schEarly' = FALSE /\ schRearmed' = FALSE
    /\ UNCHANGED <<schClock, schSaved, schCommands>>

SchTimerTask == SchFire \/ SchTest \/ SchStart
SchWorkQueue == SchAct \/ SchActed \/ SchTimeSynced
SchCommands == SchAdd \/ SchEdit \/ SchEnableCommand \/ SchDisableCommand \/ SchRemove

SchNext == SchTimerTask \/ SchWorkQueue \/ SchCommands \/ SchTick \/ SchReset

SchSpec == SchInit /\ [][SchNext]_schVars

-----------------------------------------------------------------------------
SchTypeOK ==
    /\ schSet.kind \in SchKinds \cup {"repeat"} /\ schSet.enabled \in BOOLEAN
    /\ schSet.utc \in 0..SchOff /\ schSet.ts \in 0..SchOff /\ schTimer \in 1..SchOff
    /\ schClock \in 1..SchMaxTime /\ schSync \in {"not_started", "started", "done"}
    /\ schCb \in {"idle", "test", "start"} /\ Len(schQueue) <= SchRoom
    /\ schActed \in {"no", "yes", "past"} /\ schRaces \subseteq {"overlap", "lost", "turned"}
    /\ schEarly \in BOOLEAN /\ schRearmed \in BOOLEAN

\* An enabled schedule always has its timer running, whatever command, restart or
\* time synchronisation it went through, and the timer runs out at the due time or
\* a multiple of SchWrap before it; unless a trigger was lost or the second turned
\* between the two tests of one (esp_rmaker_schedule.c:395-408, 425-502).
SchEnabledArmed ==
    SchQuiet /\ schSet.enabled /\ schSync = "done" /\ schRaces \cap {"lost", "turned"} = {} =>
        /\ schTimer < SchOff
        /\ schTimer >= schSet.utc \/ (schSet.utc - schTimer) % SchWrap = 0

\* The action that has run was the schedule's last.  One that came early was not;
\* and a date schedule with a final year is due once more after its last instant,
\* at which it is not yet over.
SchLastActed ==
    \/ SchStamped(schSet) /\ schActed # "no" /\ ~schEarly
    \/ schSet.kind = "date_until" /\ schActed = "past"

\* A schedule whose last action has run is disabled and its timer stopped, unless
\* a trigger was under way when the schedule was edited
\* (esp_rmaker_schedule.c:301-306).  Only its own callback, and never that of a
\* day of the week, may have started the timer again after the disable.
SchOnceThenOff ==
    SchQuiet /\ SchLastActed /\ "overlap" \notin schRaces =>
        /\ ~schSet.enabled
        /\ schTimer = SchOff \/ (schRearmed /\ schSet.kind # "day_once")
=============================================================================
