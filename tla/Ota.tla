-------------------------------- MODULE Ota --------------------------------
(***************************************************************************)
(* Firmware updates over MQTT topics (esp_rmaker_ota.c,                    *)
(* esp_rmaker_ota_using_topics.c) with the boot loader's rollback, which   *)
(* the build enables.  A job is offered by the cloud, downloaded on the    *)
(* work queue, booted, verified by a connection to the cloud, and reported.*)
(*                                                                         *)
(* An image is named by the job it came with, 0 being the first one.  What *)
(* is in flash (images, boot choice, NVS) survives a reset, all else does  *)
(* not; a reset may come between any two steps.                            *)
(***************************************************************************)
EXTENDS Naturals, FiniteSets

CONSTANTS
    OtaMaxJobs,      \* bound: jobs of the cloud, which numbers them from 1
    OtaMaxResets,    \* bound: resets that no firmware asked for
    OtaMaxOffers,    \* bound: messages on the url topic
    OtaDay,          \* MINUTES_IN_DAY
    OtaWindows       \* download windows jobs come with: [start, end]

ASSUME OtaAssumption ==
    /\ OtaDay \in Nat \ {0} /\ OtaMaxJobs \in Nat
    /\ OtaWindows \subseteq [start : 0..OtaDay - 1, end : 0..OtaDay - 1]

VARIABLES
    otaImage,     \* flash: the image running, the one to fall back to, the one to
                  \* boot next (or OtaNone), and whether the first is PENDING_VERIFY
    otaNvs,       \* flash: rmaker_ota_id (0: none) and the flag ota_update
    otaBusy, otaJob,      \* ota_in_progress, transient_priv (0: NULL)
    otaRolledBack,        \* rolled_back
    otaSubscribed,        \* esp_rmaker_ota_work_fn has run
    otaPc,        \* common_cb: "idle", "queued", "download", "flag"
    otaReboot,    \* reboot_timer runs
    otaVerify,    \* event_handler: "off", "waits", "mark", "stop" (its timer runs in all but "off")
    otaWakes,     \* fetch timers: the job delayed, its window, the minute they end
    otaOffers, otaResets,   \* counted for the bounds
    otaFell,      \* history: this boot is the result of a rollback
    otaCrossed,   \* history: a message was handled while an image waited to be booted
    otaTold       \* history: final statuses published: job, status, image running

otaRam == <<otaBusy, otaJob, otaRolledBack, otaSubscribed, otaPc, otaReboot, otaVerify, otaWakes>>
otaCounts == <<otaOffers, otaResets>>
otaVars == <<otaImage, otaNvs, otaRam, otaCounts, otaFell, otaCrossed, otaTold>>

OtaNone == OtaMaxJobs + 1
OtaStatuses == {"success", "failed", "rejected"}

OtaInit ==
    /\ otaImage = [running |-> 0, old |-> 0, next |-> OtaNone, pending |-> FALSE]
    /\ otaNvs = [job |-> 0, flag |-> FALSE]
    /\ otaBusy = FALSE /\ otaJob = 0 /\ otaRolledBack = FALSE /\ otaSubscribed = FALSE
    /\ otaPc = "idle" /\ otaReboot = FALSE /\ otaVerify = "off" /\ otaWakes = {}
    /\ otaOffers = 0 /\ otaResets = 0
    /\ otaFell = FALSE /\ otaCrossed = FALSE /\ otaTold = {}

-----------------------------------------------------------------------------
\* esp_rmaker_ota_report_status_using_topics of a final status: without a job
\* at hand it takes the id in NVS and erases it, and the publish may be refused.
OtaReport(job, status) ==
    LET of == IF job # 0 THEN job ELSE otaNvs.job
    IN  \/ otaTold' = otaTold \cup {[job |-> of, status |-> status, running |-> otaImage.running]}
        \/ UNCHANGED otaTold

OtaIdTaken(job) == IF job # 0 THEN otaNvs ELSE [otaNvs EXCEPT !.job = 0]

\* esp_rmaker_ota_finish_using_topics
OtaFinish == otaPc' = "idle" /\ otaJob' = 0 /\ otaBusy' = FALSE

\* esp_rmaker_ota_manage_rollback as the image boots.
OtaBoot(image, fell) ==
    /\ otaImage' = image /\ otaFell' = fell
    /\ otaBusy' = image.pending
    /\ otaVerify' = IF image.pending THEN "waits" ELSE "off"
    /\ otaRolledBack' = (~image.pending /\ otaNvs.flag)
    /\ otaNvs' = IF image.pending THEN otaNvs ELSE [otaNvs EXCEPT !.flag = FALSE]
    /\ otaJob' = 0 /\ otaSubscribed' = FALSE /\ otaPc' = "idle"
    /\ otaReboot' = FALSE /\ otaWakes' = {}
    /\ UNCHANGED <<otaOffers, otaCrossed, otaTold>>

OtaFallBack ==
    [running |-> otaImage.old, old |-> otaImage.old, next |-> OtaNone, pending |-> FALSE]

\* The boot loader: a new image once, the old one when that was not marked valid;
\* the image may fail its own diagnostics, which rolls back at once.
OtaBootNext ==
    IF otaImage.next # OtaNone
    THEN \/ OtaBoot([running |-> otaImage.next, old |-> otaImage.running, next |-> OtaNone,
                     pending |-> TRUE], FALSE)
         \/ OtaBoot([otaImage EXCEPT !.next = OtaNone], TRUE)
    ELSE IF otaImage.pending THEN OtaBoot(OtaFallBack, TRUE)
    ELSE OtaBoot(otaImage, FALSE)

OtaReset ==
    /\ otaResets < OtaMaxResets
    /\ otaResets' = otaResets + 1
    /\ OtaBootNext

\* esp_rmaker_reboot_cb
OtaRebootTimer == otaReboot /\ OtaBootNext /\ UNCHANGED otaResets

\* esp_ota_rollback: its timer is stopped last, and the image may be valid by then.
OtaRollback == otaVerify # "off" /\ OtaBoot(OtaFallBack, TRUE) /\ UNCHANGED otaResets

-----------------------------------------------------------------------------
\* esp_rmaker_ota_work_fn
OtaWork ==
    /\ ~otaSubscribed
    /\ otaSubscribed' = TRUE
    /\ IF otaRolledBack THEN OtaReport(0, "rejected") /\ otaNvs' = OtaIdTaken(0)
       ELSE UNCHANGED <<otaTold, otaNvs>>
    /\ otaRolledBack' = FALSE
    /\ UNCHANGED <<otaImage, otaBusy, otaJob, otaPc, otaReboot, otaVerify, otaWakes, otaCounts,
                   otaFell, otaCrossed>>

\* It does not look.
OtaAccepts_Always == TRUE

\* ota_url_handler refuses while an update is in progress.
OtaAccepts == ~otaBusy

OtaOffer ==
    /\ otaSubscribed /\ OtaAccepts
    /\ otaOffers < OtaMaxOffers
    /\ otaOffers' = otaOffers + 1
    /\ otaCrossed' = (otaCrossed \/ otaImage.next # OtaNone)
    /\ UNCHANGED <<otaImage, otaRolledBack, otaSubscribed, otaReboot, otaVerify, otaWakes,
                   otaResets, otaFell>>

\* A message without a readable job id.
OtaUnreadable ==
    /\ OtaOffer
    /\ OtaReport(otaJob, "failed") /\ otaNvs' = OtaIdTaken(otaJob)
    /\ OtaFinish

\* One without a url, or no memory for what it holds.
OtaIncomplete(job) ==
    /\ OtaOffer
    /\ otaNvs' = [otaNvs EXCEPT !.job = job]
    /\ OtaReport(job, "failed")
    /\ OtaFinish

\* A good one goes to the work queue, which may be full.
OtaUrl(job) ==
    /\ OtaOffer
    /\ otaNvs' = [otaNvs EXCEPT !.job = job]
    /\ \/ otaBusy' = TRUE /\ otaJob' = job /\ otaPc' = "queued"
       \/ OtaFinish
    /\ UNCHANGED otaTold

-----------------------------------------------------------------------------
OtaInside(minute, w) ==
    IF w.start <= w.end THEN minute \in w.start..w.end ELSE minute >= w.start \/ minute <= w.end

\* Only the window is moved.
OtaMoved_WindowOnly(w) ==
    IF w.start > w.end THEN [start |-> 0, end |-> w.end + OtaDay - w.start, by |-> 0]
    ELSE [start |-> w.start, end |-> w.end, by |-> 0]

\* esp_rmaker_ota_handle_time: a window across midnight is moved to begin at 0.
OtaMoved(w) ==
    IF w.start > w.end THEN [start |-> 0, end |-> w.end + OtaDay - w.start, by |-> OtaDay - w.start]
    ELSE [start |-> w.start, end |-> w.end, by |-> 0]

OtaMayStart(now, w) ==
    LET m == OtaMoved(w)
    IN  (now + m.by) % OtaDay \in m.start..m.end

\* The minutes to wait; the five seconds on top may reach the next one.
OtaDelays(now, w) ==
    LET m == OtaMoved(w)
        wait == (m.start + OtaDay - ((now + m.by) % OtaDay)) % OtaDay
    IN  {wait, wait + 1}

OtaMeta == otaPc = "queued"

OtaDelayed ==
    /\ OtaMeta
    /\ \/ UNCHANGED otaWakes    \* no time yet, or before the dates: it asks again later
       \/ \E w \in OtaWindows, now \in 0..OtaDay - 1 :
             /\ ~OtaMayStart(now, w)
             /\ \E d \in OtaDelays(now, w) :
                   otaWakes' = {[window |-> w, at |-> (now + d) % OtaDay]}
    /\ OtaFinish
    /\ UNCHANGED <<otaImage, otaNvs, otaRolledBack, otaSubscribed, otaReboot, otaVerify,
                   otaCounts, otaFell, otaCrossed, otaTold>>

\* Not valid any more, a window without an end, or no connection to begin with.
OtaLapsed ==
    /\ OtaMeta
    /\ OtaReport(otaJob, "failed")
    /\ OtaFinish
    /\ UNCHANGED <<otaImage, otaNvs, otaRolledBack, otaSubscribed, otaReboot, otaVerify, otaWakes,
                   otaCounts, otaFell, otaCrossed>>

\* esp_rmaker_ota_default_cb: the slot that is not running is written.
OtaBegin ==
    /\ OtaMeta
    /\ otaPc' = "download"
    /\ otaImage' = [otaImage EXCEPT !.next = OtaNone, !.old = otaImage.running]
    /\ UNCHANGED <<otaNvs, otaBusy, otaJob, otaRolledBack, otaSubscribed, otaReboot, otaVerify,
                   otaWakes, otaCounts, otaFell, otaCrossed, otaTold>>

\* The connection, the image or its header is no good.
OtaFail ==
    /\ otaPc = "download"
    /\ \E status \in {"failed", "rejected"} : OtaReport(otaJob, status)
    /\ OtaFinish
    /\ UNCHANGED <<otaImage, otaNvs, otaRolledBack, otaSubscribed, otaReboot, otaVerify, otaWakes,
                   otaCounts, otaFell, otaCrossed>>

OtaComplete ==
    /\ otaPc = "download"
    /\ otaPc' = "flag"
    /\ otaImage' = [otaImage EXCEPT !.next = otaJob]
    /\ UNCHANGED <<otaNvs, otaBusy, otaJob, otaRolledBack, otaSubscribed, otaReboot, otaVerify,
                   otaWakes, otaCounts, otaFell, otaCrossed, otaTold>>

OtaSetFlag ==
    /\ otaPc = "flag"
    /\ otaNvs' = [otaNvs EXCEPT !.flag = TRUE]
    /\ otaReboot' = TRUE
    /\ OtaFinish
    /\ UNCHANGED <<otaImage, otaRolledBack, otaSubscribed, otaVerify, otaWakes, otaCounts,
                   otaFell, otaCrossed, otaTold>>

OtaFetch ==
    /\ \E w \in otaWakes : otaWakes' = otaWakes \ {w}
    /\ UNCHANGED <<otaImage, otaNvs, otaBusy, otaJob, otaRolledBack, otaSubscribed, otaPc, otaReboot,
                   otaVerify, otaCounts, otaFell, otaCrossed, otaTold>>

-----------------------------------------------------------------------------
\* event_handler for RMAKER_MQTT_EVENT_CONNECTED: success is reported, the image
\* marked valid, the rollback timer stopped.
OtaConnected ==
    /\ otaVerify = "waits"
    /\ otaVerify' = "mark"
    /\ OtaReport(otaJob, "success") /\ otaNvs' = OtaIdTaken(otaJob)
    /\ UNCHANGED <<otaImage, otaBusy, otaJob, otaRolledBack, otaSubscribed, otaPc, otaReboot, otaWakes,
                   otaCounts, otaFell, otaCrossed>>

OtaMarkValid ==
    /\ otaVerify = "mark"
    /\ otaVerify' = "stop"
    /\ otaImage' = [otaImage EXCEPT !.pending = FALSE]
    /\ otaBusy' = FALSE
    /\ UNCHANGED <<otaNvs, otaJob, otaRolledBack, otaSubscribed, otaPc, otaReboot, otaWakes,
                   otaCounts, otaFell, otaCrossed, otaTold>>

OtaStopTimer ==
    /\ otaVerify = "stop"
    /\ otaVerify' = "off"
    /\ UNCHANGED <<otaImage, otaNvs, otaBusy, otaJob, otaRolledBack, otaSubscribed, otaPc, otaReboot,
                   otaWakes, otaCounts, otaFell, otaCrossed, otaTold>>

OtaBoots == OtaReset \/ OtaRebootTimer \/ OtaRollback
OtaMessage == OtaUnreadable \/ \E job \in 1..OtaMaxJobs : OtaIncomplete(job) \/ OtaUrl(job)
OtaUpdate == OtaWork \/ OtaDelayed \/ OtaLapsed \/ OtaBegin \/ OtaFail \/ OtaComplete \/ OtaSetFlag
             \/ OtaFetch
OtaHandler == OtaConnected \/ OtaMarkValid \/ OtaStopTimer

OtaNext == OtaBoots \/ OtaMessage \/ OtaUpdate \/ OtaHandler

OtaSpec == OtaInit /\ [][OtaNext]_otaVars

-----------------------------------------------------------------------------
OtaTypeOK ==
    /\ {otaImage.running, otaImage.old, otaNvs.job, otaJob} \subseteq 0..OtaMaxJobs
    /\ otaImage.next \in 1..OtaNone
    /\ otaPc \in {"idle", "queued", "download", "flag"}
    /\ otaVerify \in {"off", "waits", "mark", "stop"}
    /\ {otaBusy, otaRolledBack, otaSubscribed, otaReboot, otaFell, otaCrossed} \subseteq BOOLEAN
    /\ \A v \in otaTold : v.status \in OtaStatuses

\* A job is reported successful only while its own image runs, whatever resets,
\* rollbacks and messages came between, unless a message was handled in the ten
\* seconds before the reboot, when nothing is in progress and the id in NVS is
\* free to be replaced (esp_rmaker_ota_using_topics.c:110-116, 151-155,
\* esp_rmaker_ota.c:448-465).
OtaSuccessIsTrue ==
    ~otaCrossed => \A v \in otaTold : v.status = "success" => v.job \in {0, v.running}

\* A delayed download is asked for again within its window, but for windows of
\* one minute, which the five seconds on top may miss (esp_rmaker_ota.c:262-300).
OtaWakesInWindow ==
    \A w \in otaWakes : w.window.start # w.window.end => OtaInside(w.at, w.window)

\* "If rollback is enabled, and the ota update flag is found, it means that the
\* firmware was rolled back" (esp_rmaker_ota.c:572).
OtaFlagMeansRollback == otaRolledBack => otaFell
=============================================================================
