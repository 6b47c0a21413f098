---------------------------- MODULE DeviceProofs ----------------------------
(***************************************************************************)
(* Proofs about Fan, Ota, Schedule, ScheduleDates, AppWifi, RtcStore and   *)
(* Insights, for every set of callers, speeds, windows, times and dates,   *)
(* every size of the rings, the records and the messages.  Each component  *)
(* has its own argument:                                                   *)
(*   - Fan: a report under way for a parameter without an excuse brings    *)
(*     the value the fan has, which says of the others what FanShownIsTrue *)
(*     says of parameters nobody reports;                                  *)
(*   - Ota: success is told of the id in NVS, which is the update's        *)
(*     while one is under way, the image's while it waits to be booted,    *)
(*     and the running one's while it waits to be verified, because in     *)
(*     progress nothing can replace it;                                    *)
(*   - Schedule: an enabled schedule has its timer running, its callback   *)
(*     about to start it or the work queue about to disable it, and while  *)
(*     a schedule that does not repeat has fired its action is still to    *)
(*     be done;                                                            *)
(*   - ScheduleDates: an instant is its month, day and slot, ordered in    *)
(*     that order, and the month or day esp_schedule takes is the first to *)
(*     come of those the schedule names;                                   *)
(*   - AppWifi: until the provisioning time is over, what the station does *)
(*     has set the bit app_main waits for or is on the event loop;         *)
(*   - RtcStore: what is written of a record lies behind the filled part   *)
(*     of its ring, so that a commit appends it and nothing before the     *)
(*     commit shows;                                                       *)
(*   - Insights: while no acknowledgement crosses a pass, what a pass      *)
(*     has read and what a message carries are still the front of the      *)
(*     critical ring.                                                      *)
(***************************************************************************)
EXTENDS Fan, Ota, Schedule, ScheduleDates, AppWifi, RtcStore, Insights, SequenceTheorems,
        WellFoundedInduction, TLAPS

-----------------------------------------------------------------------------
(* Fan: the phone shows what the fan does.                                 *)
FanCalls ==
    /\ fanPc \in [FanCallers -> {"idle", "twice", "report"}]
    /\ fanAsked \in [FanCallers -> FanRequests]

Values ==
    /\ \A s \in {fanDoes, fanShows} : s = [p \in FanParams |-> s[p]]
    /\ fanDoes["Natural"] \in BOOLEAN

Agrees(p) ==
    /\ FanReporting(p) = {} => fanShows[p] = fanDoes[p]
    /\ \A c \in FanReporting(p) : fanAsked[c].value = fanDoes[p]

ShownInv == FanCalls /\ Values /\ (fanMain # "rmaker" => \A p \in FanParams \ fanExcused : Agrees(p))

LEMMA ShownInit == FanInit => ShownInv
BY DEF FanInit, ShownInv, FanCalls, Values, FanNoRequest, FanRequests, FanZero, FanDefault, FanParams

(* A request keeps its parameter and its type when it is answered.         *)
LEMMA AnswerFits ==
    ASSUME NEW r \in FanRequests
    PROVE  /\ FanAnswer(r) \in FanRequests /\ FanAnswer(r).param = r.param
           /\ ~FanRefuses(r) => FanAnswer(r).value = r.value
           /\ FanRefuses(r) => FanAnswer(r).value = FALSE
BY DEF FanAnswer, FanRefuses, FanRequests

(* A command makes the value asked for and the value the fan has the same, *)
(* or has an excuse; reports of other parameters are not touched.          *)
LEMMA WriteStep ==
    ASSUME ShownInv, NEW c \in FanCallers, FanWrite(c)
    PROVE  ShownInv'
<1>1. PICK r \in FanRequests :
         /\ fanAsked' = [fanAsked EXCEPT ![c] = FanAnswer(r)]
         /\ fanDoes' = IF FanRefuses(r) THEN fanDoes ELSE [fanDoes EXCEPT ![r.param] = r.value]
         /\ FanExcuse(r.param, FanReporting(r.param) # {} \/ (FanRefuses(r) /\ fanDoes["Natural"]))
         /\ fanPc' = [fanPc EXCEPT ![c] = IF r.param = "Power" THEN "twice" ELSE "report"]
  BY DEF FanWrite
<1> DEFINE place == IF r.param = "Power" THEN "twice" ELSE "report"
<1> DEFINE a == FanAnswer(r)
<1>2. /\ a \in FanRequests /\ a.param = r.param
      /\ ~FanRefuses(r) => a.value = r.value
      /\ FanRefuses(r) => a.value = FALSE
  BY AnswerFits
<1>3. /\ fanPc[c] = "idle" /\ fanPc' = [fanPc EXCEPT ![c] = place]
      /\ place \in {"twice", "report"} /\ place # "idle"
      /\ fanMain' = fanMain /\ fanShows' = fanShows
  BY <1>1 DEF FanWrite
<1>4. r.param \in FanParams
  BY DEF FanRequests, FanParams
<1> HIDE DEF a, place
<1>5. FanCalls'
  BY <1>1, <1>2, <1>3 DEF a, ShownInv, FanCalls
<1>6. Values'
  <2>1. CASE FanRefuses(r)
    BY <2>1, <1>1, <1>3 DEF ShownInv, Values
  <2>2. CASE ~FanRefuses(r)
    <3>1. fanDoes' = [fanDoes EXCEPT ![r.param] = r.value]
      BY <2>2, <1>1
    <3>2. r.param = "Natural" => r.value \in BOOLEAN
      BY DEF FanRequests
    <3> QED BY <3>1, <3>2, <1>3, <1>4 DEF ShownInv, Values, FanParams
  <2> QED BY <2>1, <2>2
<1>7. ASSUME fanMain # "rmaker", NEW p \in FanParams \ fanExcused'
      PROVE  Agrees(p)'
  <2>1. CASE p = r.param
    <3>1. FanReporting(p) = {} /\ ~(FanRefuses(r) /\ fanDoes["Natural"])
      BY <2>1, <1>1, <1>7 DEF FanExcuse
    <3>2. FanReporting(p)' = {c}
      BY <3>1, <2>1, <1>1, <1>2, <1>3 DEF FanReporting, a, ShownInv, FanCalls
    <3>3. fanAsked'[c].value = a.value
      BY <1>1 DEF a, ShownInv, FanCalls
    <3>4. CASE ~FanRefuses(r)
      <4>1. fanDoes'[p] = r.value
        BY <3>4, <2>1, <1>1, <1>4 DEF ShownInv, Values
      <4> QED BY <4>1, <3>2, <3>3, <3>4, <1>2 DEF Agrees
    <3>5. CASE FanRefuses(r)
      <4>1. p = "Natural" /\ fanDoes' = fanDoes
        BY <3>5, <2>1, <1>1 DEF FanRefuses
      <4>2. fanDoes[p] = FALSE
        BY <4>1, <3>1, <3>5 DEF ShownInv, Values
      <4> QED BY <4>1, <4>2, <3>2, <3>3, <3>5, <1>2 DEF Agrees
    <3> QED BY <3>4, <3>5
  <2>2. CASE p # r.param
    <3>1. p \notin fanExcused
      BY <2>2, <1>1, <1>7 DEF FanExcuse
    <3>2. Agrees(p)
      BY <3>1, <1>7 DEF ShownInv
    <3>3. c \notin FanReporting(p) /\ FanReporting(p)' = FanReporting(p)
      BY <2>2, <1>1, <1>2, <1>3 DEF FanReporting, a, ShownInv, FanCalls
    <3>4. fanDoes'[p] = fanDoes[p]
      BY <2>2, <1>1, <1>4 DEF ShownInv, Values
    <3>5. \A d \in FanReporting(p) : fanAsked'[d] = fanAsked[d]
      BY <3>3, <1>1 DEF ShownInv, FanCalls, FanReporting
    <3> QED BY <3>2, <3>3, <3>4, <3>5, <1>3 DEF Agrees
  <2> QED BY <2>1, <2>2
<1> QED BY <1>3, <1>5, <1>6, <1>7 DEF ShownInv

(* A report brings what the fan has, unless its parameter has an excuse;   *)
(* the first of two leaves the second to come.                             *)
LEMMA FanReportStep ==
    ASSUME ShownInv, NEW c \in FanCallers, FanReport(c)
    PROVE  ShownInv'
<1> DEFINE q == fanAsked[c].param
<1>1. /\ fanPc[c] # "idle"
      /\ fanShows' = [fanShows EXCEPT ![q] = fanAsked[c].value]
      /\ fanMain' = fanMain /\ fanDoes' = fanDoes /\ fanExcused' = fanExcused
  BY DEF FanReport
<1>2. q \in FanParams
  BY DEF ShownInv, FanCalls, FanRequests, FanParams
<1>3. \/ fanPc' = [fanPc EXCEPT ![c] = "report"] /\ fanAsked' = fanAsked
      \/ fanPc' = [fanPc EXCEPT ![c] = "idle"] /\ fanAsked' = [fanAsked EXCEPT ![c] = FanNoRequest]
  BY DEF FanReport
<1>4. FanCalls'
  <2>1. FanNoRequest \in FanRequests
    BY DEF FanNoRequest, FanRequests
  <2>2. fanPc' \in [FanCallers -> {"idle", "twice", "report"}]
    BY <1>3 DEF ShownInv, FanCalls
  <2>3. fanAsked' \in [FanCallers -> FanRequests]
    BY <1>3, <2>1 DEF ShownInv, FanCalls
  <2> QED BY <2>2, <2>3 DEF FanCalls
<1>5. Values'
  BY <1>1, <1>2 DEF ShownInv, Values
<1>6. ASSUME NEW p \in FanParams
      PROVE  /\ FanReporting(p)' \subseteq FanReporting(p)
             /\ FanReporting(p) \subseteq FanReporting(p)' \cup {c}
             /\ \A d \in FanReporting(p)' : fanAsked'[d] = fanAsked[d]
  BY <1>1, <1>3 DEF FanReporting, ShownInv, FanCalls
<1>7. ASSUME fanMain # "rmaker", NEW p \in FanParams \ fanExcused
      PROVE  Agrees(p)'
  <2>1. Agrees(p)
    BY <1>7 DEF ShownInv
  <2>2. CASE p = q
    <3>1. c \in FanReporting(p)
      BY <2>2, <1>1 DEF FanReporting
    <3>2. fanShows'[p] = fanDoes[p]
      BY <3>1, <2>1, <2>2, <1>1, <1>2 DEF Agrees, ShownInv, Values
    <3> QED BY <3>2, <2>1, <1>1, <1>6 DEF Agrees
  <2>3. CASE p # q
    <3>1. c \notin FanReporting(p) /\ fanShows'[p] = fanShows[p]
      BY <2>3, <1>1, <1>2 DEF FanReporting, ShownInv, Values
    <3>2. FanReporting(p)' = FanReporting(p)
      BY <3>1, <1>6
    <3> QED BY <3>1, <3>2, <2>1, <1>1, <1>6 DEF Agrees
  <2> QED BY <2>2, <2>3
<1> QED BY <1>1, <1>4, <1>5, <1>7 DEF ShownInv

(* The button, a stall and the restart change the power, which is excused.  *)
LEMMA UnseenStep ==
    ASSUME ShownInv, NEW v \in BOOLEAN, FanUnseen(v),
           UNCHANGED <<fanShows, fanPc, fanAsked>>, fanMain' = fanMain
    PROVE  ShownInv'
<1>1. fanDoes' = [fanDoes EXCEPT !["Power"] = v] /\ fanExcused' = fanExcused \cup {"Power"}
  BY DEF FanUnseen, FanExcuse
<1>2. FanCalls'
  BY DEF ShownInv, FanCalls
<1>3. Values'
  BY <1>1 DEF ShownInv, Values, FanParams
<1>4. ASSUME fanMain # "rmaker", NEW p \in FanParams \ fanExcused'
      PROVE  Agrees(p)'
  <2>1. p # "Power" /\ Agrees(p) /\ fanDoes'[p] = fanDoes[p]
    BY <1>1, <1>4 DEF ShownInv, Values
  <2>2. FanReporting(p)' = FanReporting(p)
    BY DEF FanReporting
  <2> QED BY <2>1, <2>2 DEF Agrees
<1> QED BY <1>2, <1>3, <1>4 DEF ShownInv

(* app_variable_init excuses every parameter it sets to another value than *)
(* the one shown, and every one a report is under way for.                 *)
LEMMA VariablesStep ==
    ASSUME ShownInv, FanVariables
    PROVE  ShownInv'
<1>1. /\ fanDoes' = FanDefault
      /\ fanExcused' = {p \in FanParams : fanShows[p] # FanDefault[p] \/ FanReporting(p) # {}}
      /\ UNCHANGED <<fanShows, fanPc, fanAsked>>
  BY DEF FanVariables
<1>2. FanCalls' /\ Values'
  BY <1>1 DEF ShownInv, FanCalls, Values, FanDefault, FanParams
<1>3. ASSUME NEW p \in FanParams \ fanExcused'
      PROVE  Agrees(p)'
  <2>1. fanShows[p] = FanDefault[p] /\ FanReporting(p) = {}
    BY <1>1, <1>3
  <2>2. FanReporting(p)' = FanReporting(p)
    BY <1>1 DEF FanReporting
  <2> QED BY <1>1, <2>1, <2>2 DEF Agrees
<1> QED BY <1>2, <1>3 DEF ShownInv

LEMMA ShownStep ==
    ASSUME ShownInv, [FanNext]_fanVars
    PROVE  ShownInv'
<1>1. CASE FanVariables
  BY <1>1, VariablesStep
<1>2. CASE FanStarts \/ UNCHANGED fanVars
  <2>1. UNCHANGED <<fanDoes, fanShows, fanPc, fanAsked, fanExcused>>
    BY <1>2 DEF FanStarts, fanVars
  <2>2. fanMain' = fanMain \/ fanMain # "rmaker"
    BY <1>2 DEF FanStarts, FanGoes, fanVars
  <2> QED BY <2>1, <2>2 DEF ShownInv, FanCalls, Values, Agrees, FanReporting
<1>3. CASE FanButton
  <2>1. (~fanDoes["Power"]) \in BOOLEAN
    OBVIOUS
  <2> QED BY <1>3, <2>1, UnseenStep DEF FanButton
<1>4. CASE FanStall
  BY <1>4, UnseenStep DEF FanStall
<1>5. CASE FanRestart
  BY <1>5, UnseenStep DEF FanRestart
<1>6. CASE \E c \in FanCallers : FanCommand(c)
  BY <1>6, WriteStep, FanReportStep DEF FanCommand
<1> QED BY <1>1, <1>2, <1>3, <1>4, <1>5, <1>6 DEF FanNext, FanBoot, FanAlone

(* The phone shows what the fan does, but for the cases that are excused,  *)
(* for any number of callers (app_rmaker.c:37-55, main.c:129-130).         *)
THEOREM PhoneShowsFan == FanSpec => []FanShownIsTrue
<1>1. ShownInv => FanShownIsTrue
  BY DEF ShownInv, FanShownIsTrue, Agrees
<1> QED BY ShownInit, ShownStep, <1>1, PTL DEF FanSpec

-----------------------------------------------------------------------------
(* Fan: its types.                                                         *)
FanState(s) ==
    /\ s = [p \in FanParams |-> s[p]]
    /\ s["Power"] \in BOOLEAN /\ s["Natural"] \in BOOLEAN
    /\ s["Speed"] \in FanSpeeds \cup {0}

LEMMA FanTypesBegin == FanInit => FanTypeOK
<1> SUFFICES ASSUME FanInit PROVE FanTypeOK
  OBVIOUS
<1>1. FanState(FanZero) /\ FanState(FanDefault)
  BY FanAssumption DEF FanState, FanZero, FanDefault, FanParams
<1>2. FanNoRequest \in FanRequests
  BY DEF FanNoRequest, FanRequests
<1> QED BY <1>1, <1>2 DEF FanInit, FanTypeOK, FanState

(* A state stays one when a parameter takes a value of its own.            *)
LEMMA FanSet ==
    ASSUME NEW s, FanState(s), NEW r \in FanRequests
    PROVE  FanState([s EXCEPT ![r.param] = r.value])
<1>1. CASE r \in [param : {"Power", "Natural"}, value : BOOLEAN]
  BY <1>1 DEF FanState, FanParams
<1>2. CASE r \in [param : {"Speed"}, value : FanSpeeds]
  BY <1>2 DEF FanState, FanParams
<1> QED BY <1>1, <1>2 DEF FanRequests

LEMMA FanTypesStep == FanTypeOK /\ [FanNext]_fanVars => FanTypeOK'
<1> SUFFICES ASSUME FanTypeOK, FanNext \/ UNCHANGED fanVars PROVE FanTypeOK'
  OBVIOUS
<1>1. /\ FanState(fanDoes) /\ FanState(fanShows) /\ fanLock \in BOOLEAN
      /\ fanPc \in [FanCallers -> {"idle", "twice", "report"}]
      /\ fanAsked \in [FanCallers -> FanRequests] /\ fanExcused \subseteq FanParams
      /\ fanMain \in {"rmaker", "button", "tasks", "done"}
  BY DEF FanTypeOK, FanState
<1>2. \A r \in FanRequests : r.param \in FanParams
  BY DEF FanRequests, FanParams
<1>3. SUFFICES /\ FanState(fanDoes') /\ FanState(fanShows') /\ fanLock' \in BOOLEAN
               /\ fanPc' \in [FanCallers -> {"idle", "twice", "report"}]
               /\ fanAsked' \in [FanCallers -> FanRequests] /\ fanExcused' \subseteq FanParams
               /\ fanMain' \in {"rmaker", "button", "tasks", "done"}
  BY DEF FanTypeOK, FanState
<1>4. CASE FanVariables
  <2>1. FanState(FanDefault)
    BY FanAssumption DEF FanState, FanDefault, FanParams
  <2> QED BY <1>1, <1>4, <2>1 DEF FanVariables, FanGoes
<1>5. CASE FanStarts
  BY <1>1, <1>5 DEF FanStarts, FanGoes
<1>6. CASE FanButton \/ FanStall \/ FanRestart
  <2>1. \A v \in BOOLEAN : FanState([fanDoes EXCEPT !["Power"] = v])
    BY <1>1 DEF FanState, FanParams
  <2>2. "Power" \in FanParams
    BY DEF FanParams
  <2>3. \E v \in BOOLEAN : fanDoes' = [fanDoes EXCEPT !["Power"] = v]
    BY <1>6 DEF FanButton, FanStall, FanRestart, FanUnseen
  <2>4. fanExcused' \subseteq FanParams
    BY <1>1, <1>6, <2>2 DEF FanButton, FanStall, FanRestart, FanUnseen, FanExcuse
  <2>5. /\ UNCHANGED <<fanMain, fanShows, fanPc, fanAsked>> /\ fanLock' \in BOOLEAN
    BY <1>1, <1>6 DEF FanButton, FanStall, FanRestart
  <2> QED BY <1>1, <2>1, <2>3, <2>4, <2>5
<1>7. ASSUME NEW c \in FanCallers, FanWrite(c)
      PROVE  FanTypeOK'
  <2>1. PICK r \in FanRequests :
            /\ fanPc' = [fanPc EXCEPT ![c] = IF r.param = "Power" THEN "twice" ELSE "report"]
            /\ fanAsked' = [fanAsked EXCEPT ![c] = FanAnswer(r)]
            /\ fanDoes' = IF FanRefuses(r) THEN fanDoes ELSE [fanDoes EXCEPT ![r.param] = r.value]
            /\ FanExcuse(r.param, FanReporting(r.param) # {} \/ (FanRefuses(r) /\ fanDoes["Natural"]))
    BY <1>7 DEF FanWrite
  <2>2. FanAnswer(r) \in FanRequests
    BY AnswerFits
  <2>3. FanState(fanDoes')
    BY <1>1, <2>1, FanSet
  <2>4. fanExcused' \subseteq FanParams
    BY <1>1, <1>2, <2>1 DEF FanExcuse
  <2>5. UNCHANGED <<fanMain, fanShows, fanLock>>
    BY <1>7 DEF FanWrite
  <2>6. /\ fanPc' \in [FanCallers -> {"idle", "twice", "report"}]
        /\ fanAsked' \in [FanCallers -> FanRequests]
    BY <1>1, <2>1, <2>2
  <2> QED BY <1>1, <2>3, <2>4, <2>5, <2>6 DEF FanTypeOK, FanState
<1>8. ASSUME NEW c \in FanCallers, FanReport(c)
      PROVE  FanTypeOK'
  <2>1. FanNoRequest \in FanRequests
    BY DEF FanNoRequest, FanRequests
  <2>2. FanState(fanShows')
    <3>1. fanShows' = [fanShows EXCEPT ![fanAsked[c].param] = fanAsked[c].value]
      BY <1>8 DEF FanReport
    <3>2. fanAsked[c] \in FanRequests
      BY <1>1
    <3> QED BY <1>1, <3>1, <3>2, FanSet
  <2>3. /\ fanPc' \in [FanCallers -> {"idle", "twice", "report"}]
        /\ fanAsked' \in [FanCallers -> FanRequests]
    BY <1>1, <1>8, <2>1 DEF FanReport
  <2>4. UNCHANGED <<fanMain, fanDoes, fanLock, fanExcused>>
    BY <1>8 DEF FanReport
  <2> QED BY <1>1, <2>2, <2>3, <2>4 DEF FanTypeOK, FanState
<1>9. CASE UNCHANGED fanVars
  BY <1>1, <1>9 DEF fanVars
<1>10. FanTypeOK' => /\ FanState(fanDoes') /\ FanState(fanShows') /\ fanLock' \in BOOLEAN
                     /\ fanPc' \in [FanCallers -> {"idle", "twice", "report"}]
                     /\ fanAsked' \in [FanCallers -> FanRequests] /\ fanExcused' \subseteq FanParams
                     /\ fanMain' \in {"rmaker", "button", "tasks", "done"}
  BY DEF FanTypeOK, FanState
<1> QED BY <1>4, <1>5, <1>6, <1>7, <1>8, <1>9, <1>10 DEF FanNext, FanBoot, FanAlone, FanCommand

-----------------------------------------------------------------------------
(* Ota: success is told of the running image.                              *)
OtaRecords ==
    /\ otaImage = [running |-> otaImage.running, old |-> otaImage.old,
                   next |-> otaImage.next, pending |-> otaImage.pending]
    /\ otaNvs = [job |-> otaNvs.job, flag |-> otaNvs.flag]

Verifying == otaVerify \in {"waits", "mark"}

Unverified ==
    /\ otaImage.pending => Verifying
    /\ Verifying => /\ otaBusy /\ otaPc = "idle" /\ otaJob = 0
                    /\ otaImage.next = OtaNone

Owned ==
    /\ otaPc # "idle" => otaNvs.job \in {0, otaJob}
    /\ otaImage.next # OtaNone => otaNvs.job \in {0, otaImage.next}
    /\ otaVerify = "waits" => otaNvs.job \in {0, otaImage.running}

Truth(told) == \A v \in told : v.status = "success" => v.job \in {0, v.running}

OtaInv == OtaRecords /\ Unverified /\ (~otaCrossed => Owned /\ Truth(otaTold))

LEMMA OtaInvInit == OtaInit => OtaInv
BY DEF OtaInit, OtaInv, OtaRecords, Unverified, Verifying, Owned, Truth

(* The boot of any image that is either not pending, or the one that was   *)
(* to be booted next.                                                      *)
LEMMA BootStep ==
    ASSUME OtaInv, NEW image, NEW fell, OtaBoot(image, fell),
           image = [running |-> image.running, old |-> image.old, next |-> image.next,
                    pending |-> image.pending],
           image.next = OtaNone,
           image.pending => image.running = otaImage.next /\ otaImage.next # OtaNone
    PROVE  OtaInv'
<1>1. /\ otaImage' = image /\ otaJob' = 0 /\ otaPc' = "idle"
      /\ otaCrossed' = otaCrossed /\ otaTold' = otaTold
      /\ otaNvs' = IF image.pending THEN otaNvs ELSE [otaNvs EXCEPT !.flag = FALSE]
  BY DEF OtaBoot
<1>2. otaNvs'.job = otaNvs.job /\ otaNvs' = [job |-> otaNvs'.job, flag |-> otaNvs'.flag]
  BY <1>1 DEF OtaInv, OtaRecords
<1>3. CASE image.pending
  <2>1. otaBusy' /\ otaVerify' = "waits"
    BY <1>3 DEF OtaBoot
  <2> QED BY <2>1, <1>1, <1>2, <1>3 DEF OtaInv, OtaRecords, Unverified, Verifying, Owned, Truth
<1>4. CASE ~image.pending
  <2>1. otaVerify' = "off"
    BY <1>4 DEF OtaBoot
  <2> QED BY <2>1, <1>1, <1>2, <1>4 DEF OtaInv, OtaRecords, Unverified, Verifying, Owned, Truth
<1> QED BY <1>3, <1>4

(* What the boot loader does after a reset is such a boot.                 *)
LEMMA BootNextStep ==
    ASSUME OtaInv, OtaBootNext
    PROVE  OtaInv'
<1>1. CASE otaImage.next # OtaNone
  <2>1. CASE OtaBoot([running |-> otaImage.next, old |-> otaImage.running, next |-> OtaNone,
                      pending |-> TRUE], FALSE)
    BY <1>1, <2>1, BootStep
  <2>2. CASE OtaBoot([otaImage EXCEPT !.next = OtaNone], TRUE)
    <3> DEFINE image == [otaImage EXCEPT !.next = OtaNone]
    <3>1. ~otaImage.pending
      BY <1>1 DEF OtaInv, Unverified
    <3>2. image = [running |-> image.running, old |-> image.old, next |-> image.next,
                   pending |-> image.pending]
      BY DEF OtaInv, OtaRecords
    <3>3. image.next = OtaNone /\ ~image.pending
      BY <3>1 DEF OtaInv, OtaRecords
    <3> HIDE DEF image
    <3>4. OtaBoot(image, TRUE)
      BY <2>2 DEF image
    <3> QED BY <3>2, <3>3, <3>4, BootStep
  <2> QED BY <1>1, <2>1, <2>2 DEF OtaBootNext
<1>2. CASE otaImage.next = OtaNone /\ otaImage.pending
  <2>1. OtaBoot(OtaFallBack, TRUE)
    BY <1>2 DEF OtaBootNext
  <2> QED BY <2>1, BootStep DEF OtaFallBack
<1>3. CASE otaImage.next = OtaNone /\ ~otaImage.pending
  <2>1. OtaBoot(otaImage, FALSE)
    BY <1>3 DEF OtaBootNext
  <2> QED BY <2>1, <1>3, BootStep DEF OtaInv, OtaRecords
<1> QED BY <1>1, <1>2, <1>3

LEMMA BootsStep ==
    ASSUME OtaInv, OtaBoots
    PROVE  OtaInv'
<1>1. CASE OtaReset \/ OtaRebootTimer
  BY <1>1, BootNextStep DEF OtaReset, OtaRebootTimer
<1>2. CASE OtaRollback
  <2>1. OtaBoot(OtaFallBack, TRUE)
    BY <1>2 DEF OtaRollback
  <2> QED BY <2>1, BootStep DEF OtaFallBack
<1> QED BY <1>1, <1>2 DEF OtaBoots

(* A report adds at most one entry, and the id it takes from NVS leaves 0.  *)
LEMMA ReportKeeps ==
    ASSUME NEW job, NEW status, OtaReport(job, status), Truth(otaTold),
           status = "success" => /\ job = 0
                                 /\ otaNvs.job \in {0, otaImage.running}
    PROVE  Truth(otaTold')
BY DEF OtaReport, Truth

LEMMA IdTaken ==
    ASSUME OtaRecords, NEW job
    PROVE  /\ OtaIdTaken(job) = [job |-> OtaIdTaken(job).job, flag |-> OtaIdTaken(job).flag]
           /\ OtaIdTaken(job).job \in {0, otaNvs.job}
BY DEF OtaRecords, OtaIdTaken

(* A message is handled only when nothing is in progress, so that no image  *)
(* is being verified; if one waits to be booted, the message crosses it.   *)
LEMMA MessageStep ==
    ASSUME OtaInv, OtaMessage
    PROVE  OtaInv'
<1>1. OtaOffer
  BY DEF OtaMessage, OtaUnreadable, OtaIncomplete, OtaUrl
<1>2. /\ ~otaBusy /\ ~Verifying /\ ~otaImage.pending
      /\ otaCrossed' = (otaCrossed \/ otaImage.next # OtaNone)
      /\ otaImage' = otaImage /\ otaVerify' = otaVerify
  BY <1>1 DEF OtaOffer, OtaAccepts, OtaInv, Unverified
<1>3. CASE OtaUnreadable
  <2>1. /\ OtaReport(otaJob, "failed") /\ otaNvs' = OtaIdTaken(otaJob)
        /\ otaPc' = "idle"
    BY <1>3 DEF OtaUnreadable, OtaFinish
  <2>2. Truth(otaTold) => Truth(otaTold')
    BY <2>1, ReportKeeps
  <2> QED BY <2>1, <2>2, <1>2, IdTaken DEF OtaInv, OtaRecords, Unverified, Verifying, Owned
<1>4. ASSUME NEW job, OtaIncomplete(job)
      PROVE  OtaInv'
  <2>1. OtaReport(job, "failed") /\ otaNvs' = [otaNvs EXCEPT !.job = job] /\ otaPc' = "idle"
    BY <1>4 DEF OtaIncomplete, OtaFinish
  <2>2. Truth(otaTold) => Truth(otaTold')
    BY <2>1, ReportKeeps
  <2> QED BY <2>1, <2>2, <1>2 DEF OtaInv, OtaRecords, Unverified, Verifying, Owned
<1>5. ASSUME NEW job, OtaUrl(job)
      PROVE  OtaInv'
  <2>1. /\ otaNvs' = [otaNvs EXCEPT !.job = job] /\ otaTold' = otaTold
        /\ otaPc' = "idle" \/ otaJob' = job
    BY <1>5 DEF OtaUrl, OtaFinish
  <2> QED BY <2>1, <1>2 DEF OtaInv, OtaRecords, Unverified, Verifying, Owned, Truth
<1> QED BY <1>3, <1>4, <1>5 DEF OtaMessage

(* The steps of an update keep the id in NVS.                              *)
LEMMA UpdateStep ==
    ASSUME OtaInv, OtaUpdate
    PROVE  OtaInv'
<1>1. CASE OtaWork
  <2>1. CASE otaRolledBack
    <3>1. /\ OtaReport(0, "rejected") /\ otaNvs' = OtaIdTaken(0)
          /\ UNCHANGED <<otaImage, otaBusy, otaJob, otaPc, otaVerify, otaCrossed>>
      BY <1>1, <2>1 DEF OtaWork
    <3>2. Truth(otaTold) => Truth(otaTold')
      BY <3>1, ReportKeeps
    <3> QED BY <3>1, <3>2, IdTaken DEF OtaInv, OtaRecords, Unverified, Verifying, Owned
  <2>2. CASE ~otaRolledBack
    <3>1. UNCHANGED <<otaTold, otaNvs, otaImage, otaBusy, otaJob, otaPc, otaVerify, otaCrossed>>
      BY <1>1, <2>2 DEF OtaWork
    <3> QED BY <3>1 DEF OtaInv, OtaRecords, Unverified, Verifying, Owned, Truth
  <2> QED BY <2>1, <2>2
<1>2. CASE OtaDelayed
  <2>1. /\ otaPc = "queued" /\ otaPc' = "idle" /\ otaJob' = 0
        /\ UNCHANGED <<otaTold, otaNvs, otaImage, otaVerify, otaCrossed>>
    BY <1>2 DEF OtaDelayed, OtaMeta, OtaFinish
  <2> QED BY <2>1 DEF OtaInv, OtaRecords, Unverified, Verifying, Owned, Truth
<1>3. CASE OtaLapsed \/ OtaFail
  <2>1. PICK status \in {"failed", "rejected"} : OtaReport(otaJob, status)
    BY <1>3 DEF OtaLapsed, OtaFail
  <2>2. Truth(otaTold) => Truth(otaTold')
    BY <2>1, ReportKeeps
  <2>3. /\ otaPc # "idle" /\ otaPc' = "idle" /\ otaJob' = 0
        /\ UNCHANGED <<otaNvs, otaImage, otaVerify, otaCrossed>>
    BY <1>3 DEF OtaLapsed, OtaFail, OtaMeta, OtaFinish
  <2> QED BY <2>2, <2>3 DEF OtaInv, OtaRecords, Unverified, Verifying, Owned
<1>4. CASE OtaBegin
  <2>1. /\ otaPc = "queued" /\ otaPc' = "download"
        /\ otaImage' = [otaImage EXCEPT !.next = OtaNone, !.old = otaImage.running]
        /\ UNCHANGED <<otaTold, otaNvs, otaBusy, otaJob, otaVerify, otaCrossed>>
    BY <1>4 DEF OtaBegin, OtaMeta
  <2> QED BY <2>1 DEF OtaInv, OtaRecords, Unverified, Verifying, Owned, Truth
<1>5. CASE OtaComplete
  <2>1. /\ otaPc = "download" /\ otaPc' = "flag"
        /\ otaImage' = [otaImage EXCEPT !.next = otaJob]
        /\ UNCHANGED <<otaTold, otaNvs, otaBusy, otaJob, otaVerify, otaCrossed>>
    BY <1>5 DEF OtaComplete
  <2> QED BY <2>1 DEF OtaInv, OtaRecords, Unverified, Verifying, Owned, Truth
<1>6. CASE OtaSetFlag
  <2>1. /\ otaPc = "flag" /\ otaPc' = "idle" /\ otaJob' = 0
        /\ otaNvs' = [otaNvs EXCEPT !.flag = TRUE]
        /\ UNCHANGED <<otaTold, otaImage, otaVerify, otaCrossed>>
    BY <1>6 DEF OtaSetFlag, OtaFinish
  <2> QED BY <2>1 DEF OtaInv, OtaRecords, Unverified, Verifying, Owned, Truth
<1>7. CASE OtaFetch
  BY <1>7 DEF OtaFetch, OtaInv, OtaRecords, Unverified, Verifying, Owned, Truth
<1> QED BY <1>1, <1>2, <1>3, <1>4, <1>5, <1>6, <1>7 DEF OtaUpdate

(* Success is told of the running image, and the id is used up.            *)
LEMMA HandlerStep ==
    ASSUME OtaInv, OtaHandler
    PROVE  OtaInv'
<1>1. CASE OtaConnected
  <2>1. /\ otaVerify = "waits" /\ otaVerify' = "mark"
        /\ OtaReport(otaJob, "success") /\ otaNvs' = OtaIdTaken(otaJob)
        /\ UNCHANGED <<otaImage, otaBusy, otaJob, otaPc, otaCrossed>>
    BY <1>1 DEF OtaConnected
  <2>2. otaJob = 0
    BY <2>1 DEF OtaInv, Unverified, Verifying
  <2>3. ~otaCrossed => Truth(otaTold')
    BY <2>1, <2>2, ReportKeeps DEF OtaInv, Owned
  <2> QED BY <2>1, <2>2, <2>3, IdTaken DEF OtaInv, OtaRecords, Unverified, Verifying, Owned
<1>2. CASE OtaMarkValid
  <2>1. /\ otaVerify = "mark" /\ otaVerify' = "stop"
        /\ otaImage' = [otaImage EXCEPT !.pending = FALSE]
        /\ UNCHANGED <<otaTold, otaNvs, otaJob, otaPc, otaCrossed>>
    BY <1>2 DEF OtaMarkValid
  <2> QED BY <2>1 DEF OtaInv, OtaRecords, Unverified, Verifying, Owned, Truth
<1>3. CASE OtaStopTimer
  <2>1. /\ otaVerify = "stop" /\ otaVerify' = "off"
        /\ UNCHANGED <<otaTold, otaNvs, otaImage, otaJob, otaPc, otaCrossed>>
    BY <1>3 DEF OtaStopTimer
  <2> QED BY <2>1 DEF OtaInv, OtaRecords, Unverified, Verifying, Owned, Truth
<1> QED BY <1>1, <1>2, <1>3 DEF OtaHandler

LEMMA OtaInvStep ==
    ASSUME OtaInv, [OtaNext]_otaVars
    PROVE  OtaInv'
<1>1. CASE UNCHANGED otaVars
  BY <1>1 DEF otaVars, otaRam, OtaInv, OtaRecords, Unverified, Verifying, Owned, Truth
<1> QED BY <1>1, BootsStep, MessageStep, UpdateStep, HandlerStep DEF OtaNext

(* A job is told successful only while its own image runs, whatever resets, *)
(* rollbacks and failures came between (esp_rmaker_ota.c:448-519).         *)
THEOREM SuccessIsTrue == OtaSpec => []OtaSuccessIsTrue
<1>1. OtaInv => OtaSuccessIsTrue
  BY DEF OtaInv, Truth, OtaSuccessIsTrue
<1> QED BY OtaInvInit, OtaInvStep, <1>1, PTL DEF OtaSpec

(* Ota: a delayed download wakes within its window.                        *)
(* Minutes past midnight.                                                  *)
LEMMA Minutes ==
    ASSUME NEW d \in Nat \ {0}, NEW x \in Nat, x < 2 * d
    PROVE  x % d = IF x < d THEN x ELSE x - d
<1>1. CASE x < d
  BY <1>1
<1>2. CASE x >= d
  <2>1. PICK y \in Nat : x = y + d /\ y < d
    BY <1>2
  <2>2. (y + d) % d = y
    BY <2>1
  <2> QED BY <1>2, <2>1, <2>2
<1> QED BY <1>1, <1>2

(* The minute a delay ends at.                                             *)
LEMMA WakesInside ==
    ASSUME NEW w \in OtaWindows, NEW now \in 0..OtaDay - 1, w.start # w.end,
           ~OtaMayStart(now, w), NEW d \in OtaDelays(now, w)
    PROVE  OtaInside((now + d) % OtaDay, w)
<1>1. /\ OtaDay \in Nat \ {0} /\ now \in Nat /\ now < OtaDay
      /\ w.start \in Nat /\ w.start < OtaDay /\ w.end \in Nat /\ w.end < OtaDay
  BY OtaAssumption
<1>2. CASE w.start < w.end
  <2>1. OtaMoved(w) = [start |-> w.start, end |-> w.end, by |-> 0]
    BY <1>1, <1>2 DEF OtaMoved
  <2>2. (now + 0) % OtaDay = now
    BY <1>1, Minutes
  <2>3. now \notin w.start..w.end
    BY <2>1, <2>2 DEF OtaMayStart
  <2>4. PICK wait \in Nat : wait = (w.start + OtaDay - now) % OtaDay /\ d \in {wait, wait + 1}
    <3>1. w.start + OtaDay - now \in Nat
      BY <1>1
    <3> QED BY <1>1, <2>1, <2>2, <3>1 DEF OtaDelays
  <2>5. wait = IF now < w.start THEN w.start - now ELSE w.start + OtaDay - now
    <3>1. PICK y \in Nat : y = w.start + OtaDay - now
      BY <1>1
    <3>2. y < 2 * OtaDay /\ (y < OtaDay <=> ~(now < w.start)) /\ y - OtaDay = w.start - now
      BY <1>1, <1>2, <2>3, <3>1
    <3>3. wait = IF y < OtaDay THEN y ELSE y - OtaDay
      BY <1>1, <2>4, <3>1, <3>2, Minutes
    <3> QED BY <3>1, <3>2, <3>3
  <2>6. d \in Nat /\ now + d \in Nat /\ now + d < 2 * OtaDay
    BY <1>1, <1>2, <2>3, <2>4, <2>5
  <2>7. (now + d) % OtaDay \in {w.start, w.start + 1}
    <3>1. (now + d) % OtaDay = IF now + d < OtaDay THEN now + d ELSE now + d - OtaDay
      <4>1. PICK y \in Nat : y = now + d
        BY <2>6
      <4>2. y % OtaDay = IF y < OtaDay THEN y ELSE y - OtaDay
        BY <1>1, <2>6, <4>1, Minutes
      <4> QED BY <1>1, <2>6, <4>1, <4>2
    <3> QED BY <1>1, <1>2, <2>3, <2>4, <2>5, <3>1
  <2> QED BY <1>1, <1>2, <2>7 DEF OtaInside
<1>3. CASE w.start > w.end
  <2> DEFINE x == (now + (OtaDay - w.start)) % OtaDay
  <2>1. OtaMoved(w) = [start |-> 0, end |-> w.end + OtaDay - w.start, by |-> OtaDay - w.start]
    BY <1>3 DEF OtaMoved
  <2>2. x = IF now < w.start THEN now + OtaDay - w.start ELSE now - w.start
    <3>1. now + (OtaDay - w.start) \in Nat /\ now + (OtaDay - w.start) < 2 * OtaDay
      BY <1>1
    <3>2. x = IF now + (OtaDay - w.start) < OtaDay THEN now + (OtaDay - w.start)
              ELSE now + (OtaDay - w.start) - OtaDay
      BY <1>1, <3>1, Minutes
    <3> QED BY <1>1, <3>2
  <2>3. x \notin 0..w.end + OtaDay - w.start
    BY <2>1 DEF OtaMayStart
  <2>4. d \in {(0 + OtaDay - x) % OtaDay, ((0 + OtaDay - x) % OtaDay) + 1}
    BY <2>1 DEF OtaDelays
  <2> HIDE DEF x
  <2>5. w.end < now /\ now < w.start
    BY <1>1, <1>3, <2>2, <2>3
  <2>6. (0 + OtaDay - x) % OtaDay = w.start - now
    <3>1. 0 + OtaDay - x = w.start - now /\ w.start - now \in Nat /\ w.start - now < OtaDay
      BY <1>1, <2>2, <2>5
    <3> QED BY <1>1, <3>1, Minutes
  <2>7. d \in Nat /\ now + d \in {w.start, w.start + 1}
    BY <1>1, <2>4, <2>5, <2>6
  <2>8. (now + d) % OtaDay = IF now + d < OtaDay THEN now + d ELSE now + d - OtaDay
    <3>1. PICK y \in Nat : y = now + d
      BY <1>1, <2>7
    <3>2. y < 2 * OtaDay
      BY <1>1, <2>7, <3>1
    <3>3. y % OtaDay = IF y < OtaDay THEN y ELSE y - OtaDay
      BY <1>1, <3>1, <3>2, Minutes
    <3> QED BY <1>1, <2>7, <3>1, <3>3
  <2> QED BY <1>1, <1>3, <2>7, <2>8 DEF OtaInside
<1> QED BY <1>1, <1>2, <1>3

(* No download is delayed at first.                                        *)
LEMMA WakesInit == OtaInit => OtaWakesInWindow
BY DEF OtaInit, OtaWakesInWindow

(* Only a delayed download sets a time to wake at.                         *)
LEMMA WakesStep == OtaWakesInWindow /\ [OtaNext]_otaVars => OtaWakesInWindow'
<1> SUFFICES ASSUME OtaWakesInWindow, [OtaNext]_otaVars PROVE OtaWakesInWindow'
  OBVIOUS
<1>1. CASE otaWakes' \subseteq otaWakes
  BY <1>1 DEF OtaWakesInWindow
<1>2. CASE OtaDelayed
  <2>1. CASE UNCHANGED otaWakes
    BY <1>1, <2>1
  <2>2. ASSUME NEW w \in OtaWindows, NEW now \in 0..OtaDay - 1, ~OtaMayStart(now, w),
               NEW d \in OtaDelays(now, w), otaWakes' = {[window |-> w, at |-> (now + d) % OtaDay]}
        PROVE  OtaWakesInWindow'
    <3>1. w.start # w.end => OtaInside((now + d) % OtaDay, w)
      BY <2>2, WakesInside
    <3> QED BY <2>2, <3>1 DEF OtaWakesInWindow
  <2> QED BY <1>2, <2>1, <2>2 DEF OtaDelayed
<1>3. CASE OtaBoots
  <2>1. otaWakes' = {}
    BY <1>3 DEF OtaBoots, OtaReset, OtaRebootTimer, OtaRollback, OtaBootNext, OtaBoot
  <2> QED BY <1>1, <2>1
<1>4. CASE OtaMessage
  BY <1>1, <1>4 DEF OtaMessage, OtaUnreadable, OtaIncomplete, OtaUrl, OtaOffer
<1>5. CASE OtaWork \/ OtaLapsed \/ OtaBegin \/ OtaFail \/ OtaComplete \/ OtaSetFlag \/ OtaFetch
  BY <1>1, <1>5 DEF OtaWork, OtaLapsed, OtaBegin, OtaFail, OtaComplete, OtaSetFlag, OtaFetch
<1>6. CASE OtaHandler \/ UNCHANGED otaVars
  BY <1>1, <1>6 DEF OtaHandler, OtaConnected, OtaMarkValid, OtaStopTimer, otaVars, otaRam
<1> QED BY <1>2, <1>3, <1>4, <1>5, <1>6 DEF OtaNext, OtaUpdate

(* A delayed download is asked for again within its window, for every      *)
(* window, time of day and number of minutes of a day                      *)
(* (esp_rmaker_ota.c:262-300).                                             *)
THEOREM WakesInWindow == OtaSpec => []OtaWakesInWindow
BY WakesInit, WakesStep, PTL DEF OtaSpec

-----------------------------------------------------------------------------
(* Ota: its types; there is a job while an update goes on.                 *)
OtaTypes ==
    /\ OtaInv /\ OtaTypeOK
    /\ otaPc \in {"queued", "download", "flag"} => otaJob # 0
    /\ otaImage.pending \in BOOLEAN

LEMMA OtaTypesBegin == OtaInit => OtaTypes
<1> SUFFICES ASSUME OtaInit PROVE OtaTypes
  OBVIOUS
<1>1. OtaInv
  BY OtaInvInit
<1>2. 0 \in 0..OtaMaxJobs /\ OtaNone \in 1..OtaNone
  BY OtaAssumption DEF OtaNone
<1>3. /\ otaImage.running = 0 /\ otaImage.old = 0 /\ otaImage.next = OtaNone /\ otaNvs.job = 0
      /\ otaImage.pending = FALSE
  BY DEF OtaInit
<1> QED BY <1>1, <1>2, <1>3 DEF OtaInit, OtaTypes, OtaTypeOK

(* A boot of images that are known.                                        *)
LEMMA OtaBootTypes ==
    ASSUME OtaTypes, NEW image, NEW fell \in BOOLEAN, OtaBoot(image, fell),
           image.running \in 0..OtaMaxJobs, image.old \in 0..OtaMaxJobs,
           image.next = OtaNone, image.pending \in BOOLEAN
    PROVE  OtaTypeOK' /\ otaPc' = "idle" /\ otaImage'.pending \in BOOLEAN
<1>1. OtaNone \in 1..OtaNone /\ 0 \in 0..OtaMaxJobs
  BY OtaAssumption DEF OtaNone
<1>2. otaNvs.job \in 0..OtaMaxJobs /\ otaCrossed \in BOOLEAN /\ (\A v \in otaTold : v.status \in OtaStatuses)
  BY DEF OtaTypes, OtaTypeOK
<1>3. otaNvs'.job = otaNvs.job
  BY DEF OtaBoot, OtaTypes, OtaInv, OtaRecords
<1>4. otaRolledBack' \in BOOLEAN /\ otaBusy' \in BOOLEAN
  BY DEF OtaBoot
<1>5. /\ otaImage' = image /\ otaFell' = fell
      /\ otaVerify' \in {"waits", "off"}
      /\ otaJob' = 0 /\ otaSubscribed' = FALSE /\ otaPc' = "idle" /\ otaReboot' = FALSE
      /\ otaCrossed' = otaCrossed /\ otaTold' = otaTold
  BY DEF OtaBoot
<1> QED BY <1>1, <1>2, <1>3, <1>4, <1>5 DEF OtaTypeOK

(* What a report adds, and what it leaves of the id.                       *)
LEMMA OtaReported ==
    ASSUME OtaTypes, NEW job, NEW status \in OtaStatuses, OtaReport(job, status)
    PROVE  \A v \in otaTold' : v.status \in OtaStatuses
BY DEF OtaReport, OtaTypes, OtaTypeOK

LEMMA OtaIdLeft ==
    ASSUME OtaTypes, NEW job
    PROVE  OtaIdTaken(job).job \in 0..OtaMaxJobs
<1>1. OtaIdTaken(job).job \in {0, otaNvs.job}
  BY IdTaken DEF OtaTypes, OtaInv
<1> QED BY <1>1, OtaAssumption DEF OtaTypes, OtaTypeOK

LEMMA OtaTypesStep == OtaTypes /\ [OtaNext]_otaVars => OtaTypes'
<1> SUFFICES ASSUME OtaTypes, OtaNext \/ UNCHANGED otaVars PROVE OtaTypes'
  OBVIOUS
<1>1. OtaInv /\ OtaInv'
  BY OtaInvStep DEF OtaTypes
<1>2. /\ otaImage.running \in 0..OtaMaxJobs /\ otaImage.old \in 0..OtaMaxJobs
      /\ otaNvs.job \in 0..OtaMaxJobs /\ otaJob \in 0..OtaMaxJobs /\ otaImage.next \in 1..OtaNone
      /\ otaPc \in {"idle", "queued", "download", "flag"}
      /\ otaVerify \in {"off", "waits", "mark", "stop"}
      /\ otaBusy \in BOOLEAN /\ otaRolledBack \in BOOLEAN /\ otaSubscribed \in BOOLEAN
      /\ otaReboot \in BOOLEAN /\ otaFell \in BOOLEAN /\ otaCrossed \in BOOLEAN
      /\ \A v \in otaTold : v.status \in OtaStatuses
      /\ otaPc \in {"queued", "download", "flag"} => otaJob # 0
      /\ otaImage.pending \in BOOLEAN
  BY DEF OtaTypes, OtaTypeOK
<1>3. SUFFICES
      /\ otaImage'.running \in 0..OtaMaxJobs /\ otaImage'.old \in 0..OtaMaxJobs
      /\ otaNvs'.job \in 0..OtaMaxJobs /\ otaJob' \in 0..OtaMaxJobs /\ otaImage'.next \in 1..OtaNone
      /\ otaPc' \in {"idle", "queued", "download", "flag"}
      /\ otaVerify' \in {"off", "waits", "mark", "stop"}
      /\ otaBusy' \in BOOLEAN /\ otaRolledBack' \in BOOLEAN /\ otaSubscribed' \in BOOLEAN
      /\ otaReboot' \in BOOLEAN /\ otaFell' \in BOOLEAN /\ otaCrossed' \in BOOLEAN
      /\ \A v \in otaTold' : v.status \in OtaStatuses
      /\ otaPc' \in {"queued", "download", "flag"} => otaJob' # 0
      /\ otaImage'.pending \in BOOLEAN
  BY <1>1 DEF OtaTypes, OtaTypeOK
<1>4. 0 \in 0..OtaMaxJobs /\ OtaNone \in 1..OtaNone /\ OtaNone = OtaMaxJobs + 1 /\ OtaMaxJobs \in Nat
  BY OtaAssumption DEF OtaNone
<1>5. "success" \in OtaStatuses /\ "failed" \in OtaStatuses /\ "rejected" \in OtaStatuses
  BY DEF OtaStatuses
<1>6. CASE OtaBoots
  <2>1. ASSUME NEW image, NEW fell \in BOOLEAN, OtaBoot(image, fell),
               image.running \in 0..OtaMaxJobs, image.old \in 0..OtaMaxJobs,
               image.next = OtaNone, image.pending \in BOOLEAN
        PROVE  OtaTypeOK' /\ otaPc' = "idle" /\ otaImage'.pending \in BOOLEAN
    BY <2>1, OtaBootTypes
  <2>2. OtaBoot(OtaFallBack, TRUE) => OtaTypeOK' /\ otaPc' = "idle" /\ otaImage'.pending \in BOOLEAN
    <3>1. /\ OtaFallBack.running = otaImage.old /\ OtaFallBack.old = otaImage.old
          /\ OtaFallBack.next = OtaNone /\ OtaFallBack.pending = FALSE
      BY DEF OtaFallBack
    <3> QED BY <1>2, <2>1, <3>1
  <2>3. CASE OtaRollback
    BY <2>2, <2>3 DEF OtaRollback, OtaTypeOK
  <2>4. CASE OtaBootNext
    <3>1. CASE OtaBoot([running |-> otaImage.next, old |-> otaImage.running, next |-> OtaNone,
                        pending |-> TRUE], FALSE) /\ otaImage.next # OtaNone
      <4>1. otaImage.next \in 0..OtaMaxJobs
        BY <1>2, <1>4, <3>1
      <4> DEFINE image == [running |-> otaImage.next, old |-> otaImage.running, next |-> OtaNone,
                           pending |-> TRUE]
      <4>2. /\ image.running = otaImage.next /\ image.old = otaImage.running
            /\ image.next = OtaNone /\ image.pending = TRUE /\ OtaBoot(image, FALSE)
        BY <3>1
      <4> HIDE DEF image
      <4> QED BY <1>2, <2>1, <4>1, <4>2 DEF OtaTypeOK
    <3>2. CASE OtaBoot([otaImage EXCEPT !.next = OtaNone], TRUE) /\ otaImage.next # OtaNone
      <4> DEFINE image == [otaImage EXCEPT !.next = OtaNone]
      <4>1. /\ image.running = otaImage.running /\ image.old = otaImage.old
            /\ image.next = OtaNone /\ OtaBoot(image, TRUE)
        BY <1>1, <3>2 DEF OtaInv, OtaRecords
      <4>2. image.pending = otaImage.pending
        BY <1>1 DEF OtaInv, OtaRecords
      <4> HIDE DEF image
      <4> QED BY <1>2, <2>1, <4>1, <4>2 DEF OtaTypeOK
    <3>3. CASE OtaBoot(OtaFallBack, TRUE)
      BY <2>2, <3>3 DEF OtaTypeOK
    <3>4. CASE OtaBoot(otaImage, FALSE) /\ otaImage.next = OtaNone /\ ~otaImage.pending
      BY <1>2, <2>1, <3>4 DEF OtaTypeOK
    <3> QED BY <2>4, <3>1, <3>2, <3>3, <3>4 DEF OtaBootNext
  <2> QED BY <1>6, <2>3, <2>4 DEF OtaBoots, OtaReset, OtaRebootTimer
<1>7. CASE OtaWork
  <2>1. otaNvs'.job \in 0..OtaMaxJobs
    BY <1>2, <1>7, OtaIdLeft DEF OtaWork
  <2>2. \A v \in otaTold' : v.status \in OtaStatuses
    BY <1>2, <1>5, <1>7, OtaReported DEF OtaWork
  <2> QED BY <1>2, <1>7, <2>1, <2>2 DEF OtaWork
<1>8. CASE OtaUnreadable
  <2>1. otaNvs'.job \in 0..OtaMaxJobs
    BY <1>8, OtaIdLeft DEF OtaUnreadable
  <2>2. \A v \in otaTold' : v.status \in OtaStatuses
    BY <1>5, <1>8, OtaReported DEF OtaUnreadable
  <2>3. otaCrossed' \in BOOLEAN
    BY <1>2, <1>8 DEF OtaUnreadable, OtaOffer
  <2> QED BY <1>2, <1>4, <1>8, <2>1, <2>2, <2>3 DEF OtaUnreadable, OtaOffer, OtaFinish
<1>9. ASSUME NEW job \in 1..OtaMaxJobs, OtaIncomplete(job) \/ OtaUrl(job)
      PROVE  OtaTypes'
  <2>1. otaNvs'.job = job /\ job \in 0..OtaMaxJobs /\ job # 0
    BY <1>1, <1>4, <1>9 DEF OtaIncomplete, OtaUrl, OtaInv, OtaRecords
  <2>2. \A v \in otaTold' : v.status \in OtaStatuses
    BY <1>2, <1>5, <1>9, OtaReported DEF OtaIncomplete, OtaUrl
  <2>3. otaCrossed' \in BOOLEAN
    BY <1>2, <1>9 DEF OtaIncomplete, OtaUrl, OtaOffer
  <2>4. /\ otaJob' \in {0, job} /\ otaPc' \in {"idle", "queued"}
        /\ otaPc' # "idle" => otaJob' = job
        /\ otaBusy' \in BOOLEAN
    BY <1>9 DEF OtaIncomplete, OtaUrl, OtaFinish
  <2>5. UNCHANGED <<otaImage, otaRolledBack, otaSubscribed, otaReboot, otaVerify, otaFell>>
    BY <1>9 DEF OtaIncomplete, OtaUrl, OtaOffer
  <2> QED BY <1>1, <1>2, <1>4, <2>1, <2>2, <2>3, <2>4, <2>5 DEF OtaTypes, OtaTypeOK
<1>10. CASE OtaDelayed
  BY <1>2, <1>4, <1>10 DEF OtaDelayed, OtaFinish
<1>11. CASE OtaLapsed \/ OtaFail
  <2>1. \A v \in otaTold' : v.status \in OtaStatuses
    BY <1>5, <1>11, OtaReported DEF OtaLapsed, OtaFail
  <2> QED BY <1>2, <1>4, <1>11, <2>1 DEF OtaLapsed, OtaFail, OtaFinish
<1>12. CASE OtaBegin
  <2>1. /\ otaImage'.pending = otaImage.pending
        /\ otaImage'.running = otaImage.running /\ otaImage'.old = otaImage.running
        /\ otaImage'.next = OtaNone
    BY <1>1, <1>12 DEF OtaBegin, OtaInv, OtaRecords
  <2> QED BY <1>2, <1>4, <1>12, <2>1 DEF OtaBegin, OtaMeta
<1>13. CASE OtaComplete
  <2>1. /\ otaImage'.running = otaImage.running /\ otaImage'.old = otaImage.old
        /\ otaImage'.next = otaJob /\ otaImage'.pending = otaImage.pending
    BY <1>1, <1>13 DEF OtaComplete, OtaInv, OtaRecords
  <2>2. otaJob \in 1..OtaNone
    BY <1>2, <1>4, <1>13 DEF OtaComplete
  <2> QED BY <1>2, <1>4, <1>13, <2>1, <2>2 DEF OtaComplete
<1>14. CASE OtaSetFlag
  <2>1. otaNvs'.job = otaNvs.job
    BY <1>1, <1>14 DEF OtaSetFlag, OtaInv, OtaRecords
  <2> QED BY <1>2, <1>4, <1>14, <2>1 DEF OtaSetFlag, OtaFinish
<1>15. CASE OtaConnected
  <2>1. otaNvs'.job \in 0..OtaMaxJobs
    BY <1>15, OtaIdLeft DEF OtaConnected
  <2>2. \A v \in otaTold' : v.status \in OtaStatuses
    BY <1>5, <1>15, OtaReported DEF OtaConnected
  <2> QED BY <1>2, <1>15, <2>1, <2>2 DEF OtaConnected
<1>16. CASE OtaMarkValid
  <2>1. /\ otaImage'.running = otaImage.running /\ otaImage'.old = otaImage.old
        /\ otaImage'.next = otaImage.next /\ otaImage'.pending = FALSE
    BY <1>1, <1>16 DEF OtaMarkValid, OtaInv, OtaRecords
  <2> QED BY <1>2, <1>16, <2>1 DEF OtaMarkValid
<1>17. CASE OtaFetch \/ OtaStopTimer \/ UNCHANGED otaVars
  BY <1>2, <1>17 DEF OtaFetch, OtaStopTimer, otaVars, otaRam
<1>18. OtaTypes' =>
      /\ otaImage'.running \in 0..OtaMaxJobs /\ otaImage'.old \in 0..OtaMaxJobs
      /\ otaNvs'.job \in 0..OtaMaxJobs /\ otaJob' \in 0..OtaMaxJobs /\ otaImage'.next \in 1..OtaNone
      /\ otaPc' \in {"idle", "queued", "download", "flag"}
      /\ otaVerify' \in {"off", "waits", "mark", "stop"}
      /\ otaBusy' \in BOOLEAN /\ otaRolledBack' \in BOOLEAN /\ otaSubscribed' \in BOOLEAN
      /\ otaReboot' \in BOOLEAN /\ otaFell' \in BOOLEAN /\ otaCrossed' \in BOOLEAN
      /\ \A v \in otaTold' : v.status \in OtaStatuses
      /\ otaPc' \in {"queued", "download", "flag"} => otaJob' # 0
      /\ otaImage'.pending \in BOOLEAN
  BY DEF OtaTypes, OtaTypeOK
<1>19. CASE OtaMessage
  <2>1. OtaUnreadable \/ OtaTypes'
    BY <1>9, <1>19 DEF OtaMessage
  <2> QED BY <1>8, <1>18, <2>1
<1> QED BY <1>6, <1>7, <1>10, <1>11, <1>12, <1>13, <1>14, <1>15, <1>16, <1>17, <1>19
        DEF OtaNext, OtaUpdate, OtaHandler

-----------------------------------------------------------------------------
(* Schedule: the life of a schedule, from a command to its trigger.        *)
(* The records, and the times up to SchOff.                                *)
Times == 0..SchOff - 1
Schedules ==
    [index : Nat, kind : SchKinds \cup {"repeat"}, enabled : BOOLEAN, utc : Times, ts : Times]

ActedShape ==
    schActed \in {"no", "yes", "past"} /\ (schActed = "past" => SchLast < schClock)

SchTypes ==
    /\ schSet \in Schedules /\ schSaved \in Schedules
    /\ schTimer \in 1..SchOff /\ schClock \in 1..SchMaxTime
    /\ schQueue \in Seq(Nat) /\ schWork \in Nat /\ schCommands \in Nat
    /\ ActedShape /\ schRaces \subseteq {"overlap", "lost", "turned"}
    /\ schEarly \in BOOLEAN /\ schRearmed \in BOOLEAN

SchKnown ==
    /\ schSet.enabled => schSet.index # 0 /\ schSync # "not_started"
    /\ schSaved.enabled => schSaved.index # 0

(* Before the time is known nothing is armed, and nothing under way.       *)
NotYet == schSync # "done" => schTimer = SchOff /\ SchQuiet /\ schActed = "no"

(* The timer runs out at the due time, or whole turns of 32 bits before.   *)
OnTime(t, due) == t >= due \/ (due - t) % SchWrap = 0
Timely == OnTime(schTimer, schSet.utc) /\ (~schEarly => schTimer >= schSet.utc)

(* Both records of an enabled schedule have the same due time.             *)
ThenExpires == schSet.ts = schSet.utc /\ schSet.utc > 0
Stamps == schSet.enabled /\ schSync = "done" /\ SchStamped(schSet) => ThenExpires

(* The timer runs, or its callback is to start it again, or the work queue *)
(* is to disable the schedule.                                             *)
Armed == schTimer < SchOff
Fired == schCb # "idle" \/ (SchUnderway /\ SchRmakerExpired(schSet))
ArmedOrFired ==
    schSet.enabled /\ schSync = "done" /\ "lost" \notin schRaces /\ "turned" \notin schRaces =>
        Armed \/ Fired

(* Without an edit under way, a trigger under way is that of a due time    *)
(* that has passed.                                                        *)
Past == ThenExpires /\ schSet.utc <= schClock
OnceThenOff ==
    "overlap" \notin schRaces /\ ~schEarly /\ schSet.enabled /\ SchStamped(schSet) =>
        /\ SchUnderway \/ schCb # "idle" => Past
        /\ schCb # "start"
        /\ schActed # "no" => SchUnderway

(* A date schedule whose action has run past its last instant is about to  *)
(* be disabled.                                                            *)
UntilThenOff ==
    schSet.enabled /\ schSet.kind = "date_until" /\ schActed = "past" => SchUnderway

(* A schedule that is disabled has its timer stopped, but for its callback *)
(* starting it again, which that of a day of the week does not.            *)
StopsTimer == ~schSet.enabled => schTimer = SchOff \/ schRearmed
DayStaysOff ==
    "overlap" \notin schRaces /\ ~schEarly /\ schSet.kind = "day_once" =>
        /\ schCb # "start"
        /\ schCb = "test" => schSet.utc <= schClock
        /\ ~SchQuiet \/ schActed # "no" => ~schRearmed

LifeInv ==
    /\ SchTypes /\ SchKnown /\ NotYet /\ Timely /\ Stamps /\ ArmedOrFired
    /\ OnceThenOff /\ UntilThenOff /\ StopsTimer /\ DayStaysOff

(* The next multiple of the period, and a period in 32 bits.               *)
LEMMA NextMultiple ==
    ASSUME NEW c \in Nat, NEW p \in Nat \ {0}
    PROVE  /\ (c \div p + 1) * p \in Nat
           /\ (c \div p + 1) * p > c /\ (c \div p + 1) * p <= c + p
OBVIOUS

(* A delay taken modulo the width of the timer is whole turns shorter.     *)
LEMMA Wrapped ==
    ASSUME NEW d \in Nat, NEW w \in Nat \ {0}
    PROVE  d % w \in 0..d /\ (d < w => d % w = d) /\ (d - (d % w)) % w = 0
<1>1. d % w \in 0..d /\ (d < w => d % w = d)
  OBVIOUS
<1>2. PICK q \in Nat : q = d \div w
  OBVIOUS
<1>3. d - (d % w) = q * w
  BY <1>2
<1>4. (q * w) % w = 0
  BY <1>2
<1> QED BY <1>1, <1>3, <1>4

(* What is known of the constants.                                         *)
LEMMA SchConstants ==
    /\ {SchDelay, SchPeriod, SchLast, SchWrap, SchRoom, SchMaxTime} \subseteq Nat \ {0}
    /\ SchOff \in Nat /\ SchOff = SchMaxTime + SchDelay + SchPeriod + 1
    /\ 0 \in Times
BY SchAssumption DEF SchOff, Times

(* A stopped timer is late for any due time.                               *)
LEMMA StoppedInTime ==
    ASSUME NEW u \in Times
    PROVE  OnTime(SchOff, u) /\ SchOff >= u
BY SchConstants DEF Times, OnTime

(* A schedule started, and its timer.                                      *)
LEMMA Started ==
    ASSUME NEW s \in Schedules, schClock \in 1..SchMaxTime
    PROVE  /\ SchStarted(s) \in Schedules
           /\ SchStarted(s).index = s.index /\ SchStarted(s).kind = s.kind
           /\ SchStarted(s).enabled = s.enabled
           /\ SchStarted(s).utc > 0
           /\ SchStamped(s) => SchStarted(s).ts = SchStarted(s).utc
           /\ schClock + SchPeriodOf(s) \in 1..SchOff - 1
           /\ OnTime(schClock + SchPeriodOf(s), SchStarted(s).utc)
           /\ ~SchTooShort(s) => schClock + SchPeriodOf(s) >= SchStarted(s).utc
           /\ SchTooShort(s) \in BOOLEAN
<1> DEFINE d == SchDue(s)
<1>1. /\ schClock \in Nat \ {0} /\ schClock <= SchMaxTime
      /\ s.utc \in 0..SchOff - 1
  BY SchConstants DEF Schedules, Times
<1>2. d \in 1..SchOff - 1
  <2>1. CASE s.kind # "relative"
    <3>1. d = (schClock \div SchPeriod + 1) * SchPeriod
      BY <2>1 DEF SchDue
    <3>2. d \in Nat /\ d > schClock /\ d <= schClock + SchPeriod
      BY <1>1, <3>1, NextMultiple, SchConstants
    <3> HIDE DEF d
    <3> QED BY <1>1, <3>2, SchConstants
  <2>2. CASE s.kind = "relative"
    <3>1. (d = s.utc /\ s.utc > 0) \/ d = schClock + SchDelay
      BY <2>2 DEF SchDue
    <3> HIDE DEF d
    <3> QED BY <1>1, <3>1, SchConstants
  <2> QED BY <2>1, <2>2
<1>3. SchPeriodOf(s) = IF d > schClock THEN (d - schClock) % SchWrap ELSE 0
  BY DEF SchPeriodOf
<1>4. /\ SchStarted(s) = [s EXCEPT !.utc = d, !.ts = IF SchStamped(s) THEN d ELSE @]
      /\ SchTooShort(s) = (d - schClock >= SchWrap)
  BY DEF SchStarted, SchTooShort
<1> HIDE DEF d
<1>5. /\ SchStarted(s) \in Schedules
      /\ SchStarted(s).index = s.index /\ SchStarted(s).kind = s.kind
      /\ SchStarted(s).enabled = s.enabled
      /\ SchStarted(s).utc = d
      /\ SchStamped(s) => SchStarted(s).ts = d
  <2>1. d \in Times
    BY <1>2, SchConstants DEF Times
  <2> DEFINE t == IF SchStamped(s) THEN d ELSE s.ts
  <2>3. t \in Times /\ (SchStamped(s) => t = d)
    BY <2>1 DEF Schedules
  <2>4. SchStarted(s) = [s EXCEPT !.utc = d, !.ts = t]
    BY <1>4
  <2> HIDE DEF t
  <2> QED BY <2>1, <2>3, <2>4 DEF Schedules
<1>6. /\ schClock + SchPeriodOf(s) \in 1..SchOff - 1
      /\ OnTime(schClock + SchPeriodOf(s), d)
      /\ ~(d - schClock >= SchWrap) => schClock + SchPeriodOf(s) >= d
  <2>1. CASE d > schClock
    <3>1. d - schClock \in Nat
      BY <1>1, <1>2, <2>1, SchConstants
    <3> DEFINE r == (d - schClock) % SchWrap
    <3>2. r \in 0..d - schClock /\ (d - schClock < SchWrap => r = d - schClock)
          /\ ((d - schClock) - r) % SchWrap = 0
      BY <3>1, Wrapped, SchConstants
    <3>3. SchPeriodOf(s) = r
      BY <1>3, <2>1
    <3> HIDE DEF r
    <3>4. schClock + r \in 1..SchOff - 1
      BY <1>1, <1>2, <2>1, <3>2, SchConstants
    <3>5. ~(d - schClock >= SchWrap) => schClock + r >= d
      BY <1>1, <1>2, <2>1, <3>2, SchConstants
    <3>6. d - (schClock + r) = (d - schClock) - r
      BY <1>1, <1>2, <2>1, <3>2, SchConstants
    <3> QED BY <3>2, <3>3, <3>4, <3>5, <3>6 DEF OnTime
  <2>2. CASE ~(d > schClock)
    BY <1>1, <1>2, <1>3, <2>2, SchConstants DEF OnTime
  <2> QED BY <2>1, <2>2
<1>7. d > 0
  BY <1>2, SchConstants
<1>8. /\ SchTooShort(s) \in BOOLEAN
      /\ ~SchTooShort(s) => schClock + SchPeriodOf(s) >= d
  <2> DEFINE short == d - schClock >= SchWrap
  <2>1. short \in BOOLEAN /\ (~short => schClock + SchPeriodOf(s) >= d)
    BY <1>6
  <2>2. SchTooShort(s) = short
    BY <1>4
  <2> HIDE DEF short
  <2> QED BY <2>1, <2>2, Zenon
<1>9. SchStarted(s).utc = d
  BY <1>5
<1>10. /\ OnTime(schClock + SchPeriodOf(s), SchStarted(s).utc)
       /\ ~SchTooShort(s) => schClock + SchPeriodOf(s) >= SchStarted(s).utc
  BY <1>6, <1>8, <1>9
<1> QED BY <1>5, <1>6, <1>7, <1>8, <1>9, <1>10, Zenon

(* A schedule disabled.                                                    *)
LEMMA Disabled ==
    ASSUME NEW s \in Schedules
    PROVE  /\ SchDisabled(s) \in Schedules /\ SchDisabled(s).index = s.index
           /\ SchDisabled(s).enabled = FALSE /\ SchDisabled(s).ts = 0
           /\ SchDisabled(s).utc = 0 /\ SchDisabled(s).kind = s.kind
<1>1. 0 \in Times /\ FALSE \in BOOLEAN
  BY SchConstants
<1>2. SchDisabled(s) = [s EXCEPT !.utc = 0, !.ts = 0, !.enabled = FALSE]
  BY DEF SchDisabled
<1> QED BY <1>1, <1>2 DEF Schedules

(* What arming a schedule leaves: it is off, or its timer runs.            *)
Arms(s) ==
    /\ schSet' \in Schedules /\ schTimer' \in 1..SchOff
    /\ schEarly' \in BOOLEAN /\ schRearmed' = FALSE
    /\ schSet'.index = s.index /\ schSet'.kind = s.kind
    /\ schSet'.enabled => Armed' /\ (SchStamped(s) => ThenExpires')
    /\ Timely'
    /\ ~schSet'.enabled => schTimer' = SchOff

(* Arming does so for a schedule that is to be enabled.                    *)
LEMMA ArmStep ==
    ASSUME NEW s \in Schedules, s.enabled, schClock \in 1..SchMaxTime, SchArm(s)
    PROVE  Arms(s)
<1>0. schRearmed' = FALSE
  BY DEF SchArm
<1>1. CASE SchRmakerExpired(s)
  <2>1. schSet' = SchDisabled(s) /\ schTimer' = SchOff /\ schEarly' = FALSE
    BY <1>1 DEF SchArm
  <2>2. /\ schSet' \in Schedules /\ schSet'.enabled = FALSE /\ schSet'.utc = 0
        /\ schSet'.index = s.index /\ schSet'.kind = s.kind
    BY <2>1, Disabled
  <2>3. schTimer' \in 1..SchOff
    BY <2>1, SchConstants
  <2>4. Timely'
    BY <2>1, <2>2, StoppedInTime, SchConstants DEF Timely
  <2> QED BY <1>0, <2>1, <2>2, <2>3, <2>4 DEF Arms
<1>2. CASE ~SchRmakerExpired(s)
  <2>1. /\ schSet' = SchStarted(s)
        /\ schTimer' = schClock + SchPeriodOf(s)
        /\ schEarly' = SchTooShort(s)
    BY <1>2 DEF SchArm
  <2>2. schSet' \in Schedules /\ schTimer' \in 1..SchOff - 1
    BY <2>1, Started
  <2>3. /\ schSet'.index = s.index /\ schSet'.kind = s.kind /\ schSet'.enabled
        /\ schSet'.utc > 0 /\ (SchStamped(s) => schSet'.ts = schSet'.utc)
        /\ schEarly' \in BOOLEAN
    BY <2>1, Started
  <2>4. Timely'
    BY <2>1, Started DEF Timely
  <2>5. Armed' /\ schTimer' \in 1..SchOff
    BY <2>2, SchConstants DEF Armed
  <2>6. SchStamped(s) => ThenExpires'
    BY <2>3 DEF ThenExpires
  <2> QED BY <1>0, <2>2, <2>3, <2>4, <2>5, <2>6, Zenon DEF Arms
<1> QED BY <1>1, <1>2

(* What a command does to the schedule: it is off, armed, or put off until *)
(* the time is known.                                                      *)
Leaves ==
    /\ schSet' \in Schedules /\ schTimer' \in 1..SchOff
    /\ schEarly' \in BOOLEAN /\ schRearmed' \in BOOLEAN
    /\ schSet'.enabled => schSet'.index # 0 /\ schSync' # "not_started"
    /\ schSync' # "done" => schTimer' = SchOff /\ SchQuiet
    /\ schSet'.enabled /\ schSync' = "done" => Armed'
    /\ Timely' /\ Stamps' /\ StopsTimer'

(* Enabling one does so.                                                   *)
LEMMA EnableStep ==
    ASSUME SchTypes, NotYet, NEW s \in Schedules, s.index # 0, SchEnable(s)
    PROVE  Leaves
<1> DEFINE e == [s EXCEPT !.enabled = TRUE]
<1>1. e \in Schedules /\ e.index = s.index /\ e.enabled
  BY DEF Schedules
<1>2. CASE schSync = "started" \/ (schSync = "not_started" /\ ~schSynced)
  <2>1. /\ schSync' = "started" /\ schSet' = e /\ schTimer' = schTimer
        /\ schEarly' = schEarly /\ schRearmed' = schRearmed
    BY <1>2 DEF SchEnable, schArmed
  <2>2. schSync # "done" /\ schTimer = SchOff /\ SchQuiet
    BY <1>2 DEF NotYet
  <2> HIDE DEF e
  <2>3. Timely'
    BY <1>1, <2>1, <2>2, StoppedInTime DEF Timely, Schedules
  <2>4. Stamps' /\ StopsTimer'
    BY <1>1, <2>1, <2>2 DEF Stamps, StopsTimer
  <2> QED BY <1>1, <2>1, <2>2, <2>3, <2>4 DEF Leaves, SchTypes
<1>3. CASE ~(schSync = "started" \/ (schSync = "not_started" /\ ~schSynced))
  <2>1. schSync' = "done" /\ SchArm(e)
    BY <1>3 DEF SchEnable
  <2> HIDE DEF e
  <2>2. Arms(e)
    BY <1>1, <2>1, ArmStep DEF SchTypes
  <2>3. SchStamped(schSet') = SchStamped(e)
    BY <2>2 DEF Arms, SchStamped
  <2>4. Stamps' /\ StopsTimer'
    BY <2>2, <2>3 DEF Arms, Stamps, StopsTimer, SchStamped
  <2> QED BY <1>1, <2>1, <2>2, <2>4 DEF Arms, Leaves
<1> QED BY <1>2, <1>3

(* What a command leaves is the invariant, given what it did to the record. *)
LEMMA CommandStep ==
    ASSUME LifeInv, SchCommand, Leaves
    PROVE  LifeInv'
<1>1. /\ schSaved' = schSet' /\ schActed' = "no"
      /\ schRaces' = IF SchQuiet THEN {} ELSE {"overlap"}
      /\ schCommands' = schCommands + 1
      /\ UNCHANGED <<schClock, schCb, schQueue, schWork>>
  BY DEF SchCommand
<1>2. SchTypes'
  <2>1. schRaces' \subseteq {"overlap", "lost", "turned"}
    BY <1>1
  <2>2. ActedShape'
    BY <1>1 DEF ActedShape
  <2> QED BY <1>1, <2>1, <2>2 DEF LifeInv, SchTypes, Leaves
<1>3. SchKnown'
  BY <1>1 DEF SchKnown, Leaves
<1>4. NotYet'
  BY <1>1 DEF NotYet, SchQuiet, Leaves
<1>5. ArmedOrFired'
  BY DEF ArmedOrFired, Leaves
<1>6. "overlap" \notin schRaces' => SchQuiet /\ SchQuiet'
  BY <1>1 DEF SchQuiet
<1>7. OnceThenOff' /\ DayStaysOff' /\ UntilThenOff'
  <2>1. schActed' = "no" /\ schActed' # "past"
    BY <1>1
  <2>2. SchQuiet' => schCb' = "idle" /\ (schSet'.index # 0 => ~SchUnderway')
    BY DEF SchQuiet, SchUnderway
  <2>3. OnceThenOff'
    BY <1>6, <2>1, <2>2 DEF OnceThenOff, Leaves
  <2>4. DayStaysOff'
    BY <1>6, <2>1, <2>2 DEF DayStaysOff
  <2> QED BY <2>1, <2>3, <2>4 DEF UntilThenOff
<1> QED BY <1>2, <1>3, <1>4, <1>5, <1>7 DEF LifeInv, Leaves

(* No schedule at all counts as one that is off.                           *)
LEMMA NoneIsOff ==
    /\ SchNone \in Schedules /\ SchNone.enabled = FALSE /\ SchNone.index = 0
    /\ SchNone.kind = "repeat" /\ SchNone.utc = 0
BY SchConstants DEF SchNone, Schedules

(* The command that adds a schedule.                                       *)
LEMMA AddStep == ASSUME LifeInv, SchAdd PROVE LifeInv'
<1>1. PICK k \in SchKinds : SchEnable([SchNone EXCEPT !.index = schCommands + 1, !.kind = k])
  BY DEF SchAdd
<1> DEFINE s == [SchNone EXCEPT !.index = schCommands + 1, !.kind = k]
<1>2. s \in Schedules /\ s.index # 0
  <2>1. schCommands + 1 \in Nat \ {0}
    BY DEF LifeInv, SchTypes
  <2> QED BY <2>1, NoneIsOff DEF Schedules
<1> HIDE DEF s
<1>3. SchEnable(s)
  BY <1>1 DEF s
<1> QED BY <1>2, <1>3, EnableStep, CommandStep DEF SchAdd, LifeInv

(* The command that edits one, with a trigger perhaps under way.           *)
LEMMA EditStep == ASSUME LifeInv, SchEdit PROVE LifeInv'
<1>1. PICK k \in SchKinds :
         IF schSet.enabled THEN SchRestarted(SchEdited(k))
         ELSE schSet' = SchEdited(k) /\ UNCHANGED <<schTimer, schSync, schArmed>>
  BY DEF SchEdit
<1>2. /\ SchEdited(k) \in Schedules /\ SchEdited(k).index = schSet.index
      /\ SchEdited(k).enabled = schSet.enabled /\ SchEdited(k).utc \in {0, schSet.utc}
  <2>1. schSet \in Schedules
    BY DEF LifeInv, SchTypes
  <2> DEFINE u == IF "relative" \in {schSet.kind, k} THEN 0 ELSE schSet.utc
  <2>2. u \in Times /\ 0 \in Times /\ u \in {0, schSet.utc}
    BY <2>1, SchConstants DEF Schedules
  <2>3. SchEdited(k) = [schSet EXCEPT !.kind = k, !.ts = 0, !.utc = u]
    BY DEF SchEdited
  <2> HIDE DEF u
  <2> QED BY <2>1, <2>2, <2>3 DEF Schedules
<1>3. schSet.index # 0 /\ SchCommand
  BY DEF SchEdit, SchPresent
<1>4. CASE schSet.enabled
  <2>1. SchEnable(SchDisabled(SchEdited(k)))
    BY <1>1, <1>4 DEF SchRestarted
  <2>2. SchDisabled(SchEdited(k)) \in Schedules /\ SchDisabled(SchEdited(k)).index # 0
    BY <1>2, <1>3, Disabled
  <2> QED BY <1>3, <2>1, <2>2, EnableStep, CommandStep DEF LifeInv
<1>5. CASE ~schSet.enabled
  <2>1. schSet' = SchEdited(k) /\ UNCHANGED <<schTimer, schSync, schEarly, schRearmed>>
    BY <1>1, <1>5 DEF schArmed
  <2>2. Timely'
    <3>1. CASE schSet'.utc = schSet.utc
      BY <2>1, <3>1 DEF Timely, OnTime, LifeInv
    <3>2. CASE schSet'.utc = 0
      BY <2>1, <3>2, SchConstants DEF Timely, OnTime, LifeInv, SchTypes
    <3> QED BY <1>2, <2>1, <3>1, <3>2
  <2>3. Stamps' /\ StopsTimer'
    BY <1>2, <1>5, <2>1 DEF Stamps, StopsTimer, LifeInv
  <2>4. Leaves
    BY <1>2, <1>5, <2>1, <2>2, <2>3 DEF LifeInv, SchTypes, NotYet, Leaves
  <2> QED BY <1>3, <2>4, CommandStep
<1> QED BY <1>4, <1>5

(* The commands that enable or disable one.                                *)
LEMMA OtherCommands ==
    ASSUME LifeInv, SchEnableCommand \/ SchDisableCommand
    PROVE  LifeInv'
<1>1. CASE SchEnableCommand
  <2>1. schSet \in Schedules /\ schSet.index # 0 /\ SchEnable(schSet) /\ SchCommand
    BY <1>1 DEF SchEnableCommand, SchPresent, LifeInv, SchTypes
  <2> QED BY <2>1, EnableStep, CommandStep DEF LifeInv
<1>2. CASE SchDisableCommand
  <2>1. /\ schSet' = SchDisabled(schSet) /\ schTimer' = SchOff /\ SchCommand
        /\ schEarly' = FALSE /\ schRearmed' = FALSE /\ schSync' = schSync
    BY <1>2 DEF SchDisableCommand
  <2>2. schSet' \in Schedules /\ schSet'.enabled = FALSE /\ schSet'.utc = 0
    BY <2>1, Disabled DEF LifeInv, SchTypes
  <2>3. Timely'
    BY <2>1, <2>2, StoppedInTime, SchConstants DEF Timely
  <2>4. Stamps' /\ StopsTimer'
    BY <2>1, <2>2 DEF Stamps, StopsTimer
  <2>5. schTimer' \in 1..SchOff
    BY <2>1, SchConstants
  <2>6. Leaves
    BY <2>1, <2>2, <2>3, <2>4, <2>5 DEF LifeInv, NotYet, Leaves
  <2> QED BY <2>1, <2>6, CommandStep
<1> QED BY <1>1, <1>2

(* The command that removes it.                                            *)
LEMMA RemoveStep == ASSUME LifeInv, SchRemove PROVE LifeInv'
<1>1. /\ schSet' = SchNone /\ schTimer' = SchOff /\ schSaved' = SchNone /\ schCb' = "idle"
      /\ schCommands' = schCommands + 1 /\ schActed' = "no"
      /\ schRaces' = IF SchQuiet THEN {} ELSE {"overlap"}
      /\ schEarly' = FALSE /\ schRearmed' = FALSE
      /\ UNCHANGED <<schClock, schSync, schQueue, schWork>>
  BY DEF SchRemove, schTime
<1>2. /\ ~schSet'.enabled /\ schSet' \in Schedules /\ ~schSaved'.enabled /\ schSaved' \in Schedules
      /\ schSet'.kind = "repeat" /\ schSet'.utc = 0
  BY <1>1, NoneIsOff
<1>3. SchTypes'
  <2>1. schRaces' \subseteq {"overlap", "lost", "turned"}
    BY <1>1
  <2>2. ActedShape' /\ schTimer' \in 1..SchOff
    BY <1>1, SchConstants DEF LifeInv, SchTypes, ActedShape
  <2>3. schEarly' \in BOOLEAN /\ schRearmed' \in BOOLEAN
    BY <1>1, Zenon
  <2>4. schCommands' \in Nat
    BY <1>1 DEF LifeInv, SchTypes
  <2> QED BY <1>1, <1>2, <2>1, <2>2, <2>3, <2>4 DEF LifeInv, SchTypes
<1>4. NotYet'
  BY <1>1 DEF LifeInv, NotYet, SchQuiet
<1>5. Timely'
  BY <1>1, <1>2, StoppedInTime, SchConstants DEF Timely
<1> QED BY <1>1, <1>2, <1>3, <1>4, <1>5
        DEF LifeInv, SchKnown, Stamps, ArmedOrFired, OnceThenOff, UntilThenOff, StopsTimer, DayStaysOff

(* The timer task.                                                         *)
LEMMA FireStep == ASSUME LifeInv, SchFire PROVE LifeInv'
<1>1. /\ schTimer <= schClock /\ schCb = "idle" /\ schTimer' = SchOff /\ schCb' = "test"
      /\ IF Len(schQueue) < SchRoom
         THEN schQueue' = Append(schQueue, schSet.index) /\ UNCHANGED schRaces
         ELSE schRaces' = schRaces \cup {"lost"} /\ UNCHANGED schQueue
      /\ schRearmed' = FALSE
      /\ UNCHANGED <<schSet, schSync, schClock, schWork, schSaved, schCommands, schActed, schEarly>>
      /\ schSet \in Schedules
  BY DEF SchFire, schTime, schBounds, LifeInv, SchTypes
<1>2. schClock < SchOff /\ schSync = "done"
  BY <1>1, SchConstants DEF LifeInv, SchTypes, NotYet
<1>3. schQueue' \in Seq(Nat) /\ (SchUnderway => SchUnderway')
  <2>1. schQueue \in Seq(Nat) /\ schSet.index \in Nat
    BY <1>1 DEF LifeInv, SchTypes, Schedules
  <2>2. CASE schQueue' = Append(schQueue, schSet.index)
    <3>1. /\ schQueue' \in Seq(Nat) /\ Len(schQueue') = Len(schQueue) + 1
          /\ schQueue'[Len(schQueue) + 1] = schSet.index
      BY <2>1, <2>2
    <3>2. Len(schQueue) + 1 \in 1..Len(schQueue')
      BY <2>1, <3>1
    <3>3. SchUnderway'
      BY <1>1, <3>1, <3>2 DEF SchUnderway
    <3> QED BY <3>1, <3>3
  <2>3. CASE UNCHANGED schQueue
    BY <1>1, <2>1, <2>3 DEF SchUnderway
  <2> QED BY <1>1, <2>2, <2>3
<1>4. SchTypes'
  <2>1. schRaces' \subseteq {"overlap", "lost", "turned"}
    BY <1>1 DEF LifeInv, SchTypes
  <2>2. schRearmed' \in BOOLEAN
    BY <1>1, Zenon
  <2>3. schTimer' \in 1..SchOff
    BY <1>1, SchConstants
  <2> QED BY <1>1, <1>3, <2>1, <2>2, <2>3 DEF LifeInv, SchTypes, ActedShape
<1>5. ~schEarly => schSet.utc <= schClock
  <2>1. schSet.utc \in Times /\ schTimer \in 1..SchOff /\ schClock \in 1..SchMaxTime
    BY <1>1 DEF Schedules, LifeInv, SchTypes
  <2>2. schSet.utc \in Nat /\ schTimer \in Nat /\ schClock \in Nat
    BY <2>1, SchConstants DEF Times
  <2>3. ~schEarly => schTimer >= schSet.utc
    BY DEF LifeInv, Timely
  <2> QED BY <1>1, <2>2, <2>3
<1>6. SchKnown' /\ NotYet' /\ Stamps' /\ ArmedOrFired' /\ StopsTimer'
  BY <1>1, <1>2 DEF LifeInv, SchKnown, NotYet, Stamps, ThenExpires, SchStamped, ArmedOrFired,
                    Fired, StopsTimer
<1>7. Timely'
  BY <1>1, StoppedInTime DEF Timely, Schedules
<1>8. "overlap" \notin schRaces' => "overlap" \notin schRaces
  BY <1>1
<1>9. OnceThenOff'
  <2> SUFFICES ASSUME "overlap" \notin schRaces, ~schEarly, schSet.enabled, SchStamped(schSet)
               PROVE  Past' /\ (schActed # "no" => SchUnderway')
    BY <1>1, <1>8 DEF OnceThenOff, SchStamped
  <2>1. ThenExpires /\ schSet.utc <= schClock
    BY <1>2, <1>5 DEF LifeInv, Stamps
  <2> QED BY <1>1, <1>3, <2>1 DEF Past, ThenExpires, LifeInv, OnceThenOff
<1>10. UntilThenOff'
  BY <1>1, <1>3 DEF LifeInv, UntilThenOff
<1>11. DayStaysOff'
  BY <1>1, <1>5, <1>8 DEF DayStaysOff
<1> QED BY <1>4, <1>6, <1>7, <1>9, <1>10, <1>11 DEF LifeInv

(* The timer's callback tests whether the schedule is over; with the two   *)
(* records agreeing, what is over for it is over for the work queue.       *)
LEMMA SchTestStep == ASSUME LifeInv, SchTest PROVE LifeInv'
<1>1. /\ schCb = "test" /\ schCb' = IF SchExpired(schSet) THEN "idle" ELSE "start"
      /\ schRaces' = IF SchTurned THEN schRaces \cup {"turned"} ELSE schRaces
      /\ UNCHANGED <<schSet, schTimer, schClock, schSync, schQueue, schWork, schSaved, schCommands,
                     schActed, schEarly, schRearmed>>
      /\ schSet \in Schedules
  BY DEF SchTest, schTime, schBounds, schArmed, LifeInv, SchTypes
<1>2. schSync = "done"
  BY <1>1 DEF LifeInv, NotYet, SchQuiet
<1>3. SchStamped(schSet) /\ schSet.utc <= schClock /\ (schSet.utc > 0 \/ schSet.kind = "day_once")
        => SchExpired(schSet)
  BY DEF SchExpired
<1>4. schSet.enabled /\ SchExpired(schSet) => SchRmakerExpired(schSet)
  BY <1>2 DEF SchExpired, SchRmakerExpired, LifeInv, Stamps, ThenExpires
<1>5. /\ SchUnderway' = SchUnderway /\ Past' = Past /\ Armed' = Armed
      /\ SchRmakerExpired(schSet)' = SchRmakerExpired(schSet)
  BY <1>1 DEF SchUnderway, Past, ThenExpires, Armed, SchRmakerExpired, SchStamped, SchPastLast
<1>6. SchTypes' /\ SchKnown' /\ NotYet' /\ Timely' /\ Stamps' /\ StopsTimer'
  <2>1. schRaces' \subseteq {"overlap", "lost", "turned"}
    BY <1>1 DEF LifeInv, SchTypes
  <2> QED BY <1>1, <1>2, <2>1 DEF LifeInv, SchTypes, ActedShape, SchKnown, NotYet, Timely, OnTime, Stamps,
                                  ThenExpires, SchStamped, StopsTimer
<1>7. ArmedOrFired'
  <2> SUFFICES ASSUME schSet.enabled, "lost" \notin schRaces', "turned" \notin schRaces',
                      schCb' = "idle"
               PROVE  SchUnderway /\ SchRmakerExpired(schSet)
    BY <1>1, <1>5 DEF ArmedOrFired, Fired
  <2>1. SchExpired(schSet) /\ ~SchTurned /\ "lost" \notin schRaces
    BY <1>1
  <2> QED BY <1>4, <2>1 DEF SchTurned
<1>8. "overlap" \notin schRaces' => "overlap" \notin schRaces
  BY <1>1
<1>9. OnceThenOff'
  <2>1. Past /\ SchStamped(schSet) => SchExpired(schSet)
    BY <1>3 DEF Past, ThenExpires
  <2> QED BY <1>1, <1>5, <1>8, <2>1 DEF LifeInv, OnceThenOff, SchStamped
<1>10. UntilThenOff'
  BY <1>1, <1>5 DEF LifeInv, UntilThenOff
<1>11. DayStaysOff'
  <2>1. schSet.kind = "day_once" => SchStamped(schSet)
    BY DEF SchStamped
  <2>2. ~SchQuiet
    BY <1>1 DEF SchQuiet
  <2> QED BY <1>1, <1>3, <1>8, <2>1, <2>2 DEF LifeInv, DayStaysOff
<1> QED BY <1>6, <1>7, <1>9, <1>10, <1>11 DEF LifeInv

(* The callback, which has triggered, starts the timer again.              *)
LEMMA StartStep == ASSUME LifeInv, SchStart PROVE LifeInv'
<1>1. /\ schCb = "start" /\ schCb' = "idle" /\ schSet' = SchStarted(schSet)
      /\ schTimer' = schClock + SchPeriodOf(schSet)
      /\ schEarly' = (schEarly \/ SchTooShort(schSet)) /\ schRearmed' = ~schSet.enabled
      /\ UNCHANGED <<schClock, schSync, schQueue, schWork, schSaved, schCommands, schActed, schRaces>>
      /\ schSet \in Schedules /\ schClock \in 1..SchMaxTime
  BY DEF SchStart, schTime, schBounds, LifeInv, SchTypes
<1>2. schSync = "done"
  BY <1>1 DEF LifeInv, NotYet, SchQuiet
<1>3. schSet' \in Schedules /\ schTimer' \in 1..SchOff - 1
  BY <1>1, Started
<1>4. /\ schSet'.index = schSet.index /\ schSet'.kind = schSet.kind /\ schSet'.enabled = schSet.enabled
      /\ schSet'.utc > 0 /\ (SchStamped(schSet) => schSet'.ts = schSet'.utc)
  BY <1>1, Started
<1>5. Timely'
  <2>1. ~schEarly' => ~SchTooShort(schSet)
    BY <1>1
  <2> QED BY <1>1, <2>1, Started DEF Timely
<1>6. schEarly' \in BOOLEAN /\ schRearmed' \in BOOLEAN
  BY <1>1
<1>7. Armed' /\ schTimer' \in 1..SchOff
  BY <1>3, SchConstants DEF Armed
<1>8. SchTypes' /\ SchKnown' /\ NotYet'
  BY <1>1, <1>2, <1>3, <1>4, <1>6, <1>7 DEF LifeInv, SchTypes, ActedShape, SchKnown, NotYet
<1>9. Stamps' /\ ArmedOrFired' /\ StopsTimer'
  BY <1>1, <1>4, <1>7 DEF Stamps, ThenExpires, SchStamped, ArmedOrFired, StopsTimer
<1>10. ~schEarly' => ~schEarly
  BY <1>1
<1>11. SchUnderway' = SchUnderway
  BY <1>1, <1>4 DEF SchUnderway
<1>12. OnceThenOff' /\ DayStaysOff' /\ UntilThenOff'
  <2>1. OnceThenOff'
    BY <1>1, <1>4, <1>10 DEF LifeInv, OnceThenOff, SchStamped
  <2>2. DayStaysOff'
    BY <1>1, <1>4, <1>10 DEF LifeInv, DayStaysOff
  <2>3. UntilThenOff'
    BY <1>1, <1>4, <1>11 DEF LifeInv, UntilThenOff
  <2> QED BY <2>1, <2>2, <2>3
<1> QED BY <1>5, <1>8, <1>9, <1>12 DEF LifeInv

(* The work queue.                                                         *)
LEMMA SchActStep == ASSUME LifeInv, SchAct PROVE LifeInv'
<1>1. /\ schQueue # <<>> /\ schWork = 0 /\ schQueue' = Tail(schQueue)
      /\ IF Head(schQueue) = schSet.index
         THEN /\ schWork' = schSet.index
              /\ schActed' = IF SchLast < schClock THEN "past" ELSE "yes"
         ELSE UNCHANGED <<schWork, schActed>>
      /\ UNCHANGED <<schSet, schTimer, schClock, schSync, schCb, schSaved, schCommands,
                     schRaces, schEarly, schRearmed>>
      /\ schQueue \in Seq(Nat) /\ schSet \in Schedules
  BY DEF SchAct, schTime, schBounds, schArmed, LifeInv, SchTypes
<1>2. schSync = "done"
  BY <1>1 DEF LifeInv, NotYet, SchQuiet
<1>3. /\ Tail(schQueue) \in Seq(Nat) /\ Len(Tail(schQueue)) = Len(schQueue) - 1
      /\ \A i \in 1..Len(Tail(schQueue)) : Tail(schQueue)[i] = schQueue[i + 1]
      /\ Len(schQueue) \in Nat \ {0} /\ Head(schQueue) = schQueue[1]
  BY <1>1, HeadTailProperties
<1>4. schSet.enabled => (SchUnderway <=> SchUnderway')
  <2> SUFFICES ASSUME schSet.index # 0 PROVE SchUnderway <=> SchUnderway'
    BY DEF LifeInv, SchKnown
  <2>1. CASE Head(schQueue) = schSet.index
    <3>1. SchUnderway'
      BY <1>1, <2>1 DEF SchUnderway
    <3>2. SchUnderway
      BY <1>3, <2>1 DEF SchUnderway
    <3> QED BY <3>1, <3>2
  <2>2. CASE Head(schQueue) # schSet.index
    <3>1. schWork' = schWork /\ schWork # schSet.index
      BY <1>1, <2>2
    <3>2. (\E i \in 1..Len(schQueue) : schQueue[i] = schSet.index)
            <=> \E i \in 1..Len(Tail(schQueue)) : Tail(schQueue)[i] = schSet.index
      <4>1. ASSUME NEW i \in 1..Len(schQueue), schQueue[i] = schSet.index
            PROVE  i - 1 \in 1..Len(Tail(schQueue)) /\ Tail(schQueue)[i - 1] = schSet.index
        <5>1. i # 1
          BY <1>3, <2>2, <4>1
        <5>2. i - 1 \in 1..Len(Tail(schQueue)) /\ (i - 1) + 1 = i
          BY <1>3, <5>1
        <5> QED BY <1>3, <4>1, <5>2
      <4>2. ASSUME NEW i \in 1..Len(Tail(schQueue)), Tail(schQueue)[i] = schSet.index
            PROVE  i + 1 \in 1..Len(schQueue) /\ schQueue[i + 1] = schSet.index
        BY <1>3, <4>2
      <4> QED BY <4>1, <4>2
    <3> QED BY <1>1, <3>1, <3>2 DEF SchUnderway
  <2> QED BY <2>1, <2>2
<1>5. schWork' \in Nat /\ ActedShape'
  <2>1. schSet.index \in Nat /\ schWork \in Nat /\ ActedShape
    BY <1>1 DEF LifeInv, SchTypes, Schedules
  <2> QED BY <1>1, <2>1 DEF ActedShape
<1>6. /\ SchTypes' /\ SchKnown' /\ NotYet' /\ Past' = Past /\ Armed' = Armed
      /\ SchRmakerExpired(schSet)' = SchRmakerExpired(schSet)
  BY <1>1, <1>2, <1>3, <1>5 DEF LifeInv, SchTypes, SchKnown, NotYet, Past, ThenExpires, Armed,
                                SchRmakerExpired, SchStamped, SchPastLast
<1>7. Timely' /\ Stamps' /\ StopsTimer'
  BY <1>1 DEF LifeInv, Timely, OnTime, Stamps, ThenExpires, SchStamped, StopsTimer
<1>8. ArmedOrFired'
  BY <1>1, <1>4, <1>6 DEF LifeInv, ArmedOrFired, Fired
<1>9. schActed' = schActed \/ SchUnderway'
  BY <1>1 DEF SchUnderway
<1>10. OnceThenOff'
  BY <1>1, <1>4, <1>6, <1>9 DEF LifeInv, OnceThenOff, SchStamped
<1>11. UntilThenOff'
  BY <1>1, <1>4, <1>9 DEF LifeInv, UntilThenOff
<1>12. DayStaysOff'
  BY <1>1 DEF LifeInv, DayStaysOff, SchQuiet
<1> QED BY <1>6, <1>7, <1>8, <1>10, <1>11, <1>12 DEF LifeInv

(* The work queue has run the action and handles the schedule that does    *)
(* not repeat any more (esp_rmaker_schedule.c:301-306).                    *)
LEMMA ActedStep == ASSUME LifeInv, SchActed PROVE LifeInv'
<1>1. /\ schWork # 0 /\ schWork' = 0
      /\ UNCHANGED <<schClock, schSync, schCb, schQueue, schCommands, schActed, schRaces, schEarly>>
      /\ schSet \in Schedules /\ schClock \in 1..SchMaxTime
  BY DEF SchActed, schTime, schBounds, LifeInv, SchTypes
<1>2. schSync = "done" /\ ~SchQuiet
  BY <1>1 DEF LifeInv, NotYet, SchQuiet
<1>3. CASE schSet.index = schWork /\ SchAfterAct(schSet) # schSet
  <2>1. /\ schSet' = SchDisabled(schSet) /\ schTimer' = SchOff /\ schSaved' = schSet'
        /\ schRearmed' = FALSE
    BY <1>3 DEF SchActed, SchAfterAct
  <2>2. schSet' \in Schedules /\ ~schSet'.enabled /\ schSet'.utc = 0 /\ schSet'.kind = schSet.kind
    BY <1>1, <2>1, Disabled
  <2>3. SchTypes'
    <3>1. schRearmed' \in BOOLEAN
      BY <2>1, Zenon
    <3>2. schTimer' \in 1..SchOff
      BY <2>1, SchConstants
    <3> QED BY <1>1, <2>1, <2>2, <3>1, <3>2 DEF LifeInv, SchTypes, ActedShape
  <2>4. Timely'
    BY <2>1, <2>2, StoppedInTime, SchConstants DEF Timely
  <2>5. schSet'.utc <= schClock'
    BY <1>1, <2>2, SchConstants
  <2>6. DayStaysOff'
    BY <1>1, <2>1, <2>2, <2>5 DEF LifeInv, DayStaysOff
  <2> QED BY <1>1, <1>2, <2>1, <2>2, <2>3, <2>4, <2>6
          DEF LifeInv, SchKnown, NotYet, Stamps, ArmedOrFired, OnceThenOff, UntilThenOff, StopsTimer
<1>4. CASE ~(schSet.index = schWork /\ SchAfterAct(schSet) # schSet)
  <2>1. UNCHANGED <<schSet, schTimer, schSaved, schRearmed>>
    BY <1>4 DEF SchActed
  <2>2. /\ SchTypes' /\ SchKnown' /\ NotYet' /\ Past' = Past /\ Armed' = Armed
        /\ SchRmakerExpired(schSet)' = SchRmakerExpired(schSet)
    BY <1>1, <1>2, <2>1 DEF LifeInv, SchTypes, ActedShape, SchKnown, NotYet, Past, ThenExpires, Armed,
                            SchRmakerExpired, SchStamped, SchPastLast
  <2>3. schSet.enabled /\ SchRmakerExpired(schSet) => schSet.index # schWork
    <3> SUFFICES ASSUME schSet.enabled, SchRmakerExpired(schSet) PROVE SchAfterAct(schSet) # schSet
      BY <1>4
    <3>1. SchAfterAct(schSet) = SchDisabled(schSet)
      BY DEF SchAfterAct
    <3> QED BY <1>1, <3>1, Disabled
  <2>4. schSet.enabled /\ SchRmakerExpired(schSet) => (SchUnderway <=> SchUnderway')
    <3>1. schSet.enabled => schSet.index # 0
      BY DEF LifeInv, SchKnown
    <3> QED BY <1>1, <2>1, <2>3, <3>1 DEF SchUnderway
  <2>5. Timely' /\ Stamps' /\ StopsTimer'
    BY <1>1, <2>1 DEF LifeInv, Timely, OnTime, Stamps, ThenExpires, SchStamped, StopsTimer
  <2>6. ArmedOrFired'
    BY <1>1, <2>1, <2>2, <2>4 DEF LifeInv, ArmedOrFired, Fired
  <2>7. OnceThenOff'
    <3>1. schSet.enabled /\ SchUnderway' => SchUnderway
      BY <1>1, <2>1 DEF SchUnderway, LifeInv, SchKnown
    <3>2. Past /\ SchStamped(schSet) => SchRmakerExpired(schSet)
      BY DEF Past, ThenExpires, SchRmakerExpired
    <3> QED BY <1>1, <2>1, <2>2, <2>4, <3>1, <3>2 DEF LifeInv, OnceThenOff, SchStamped
  <2>8. UntilThenOff'
    <3>1. schActed = "past" => SchLast < schClock
      BY DEF LifeInv, SchTypes, ActedShape
    <3>2. schSet.kind = "date_until" /\ schActed = "past" => SchRmakerExpired(schSet)
      BY <3>1 DEF SchRmakerExpired, SchPastLast
    <3> QED BY <1>1, <2>1, <2>4, <3>2 DEF LifeInv, UntilThenOff
  <2>9. DayStaysOff'
    BY <1>1, <1>2, <2>1 DEF LifeInv, DayStaysOff
  <2> QED BY <2>2, <2>5, <2>6, <2>7, <2>8, <2>9 DEF LifeInv
<1> QED BY <1>3, <1>4

(* The time is known: every enabled schedule is armed or disabled.         *)
LEMMA TimeSyncedStep == ASSUME LifeInv, SchTimeSynced PROVE LifeInv'
<1>1. /\ schSync = "started" /\ schSync' = "done"
      /\ schSaved' = IF schSet.enabled /\ SchRmakerExpired(schSet) THEN schSet' ELSE schSaved
      /\ UNCHANGED <<schClock, schCb, schQueue, schWork, schCommands, schActed, schRaces>>
      /\ schSet \in Schedules /\ schClock \in 1..SchMaxTime
  BY DEF SchTimeSynced, schBounds, LifeInv, SchTypes
<1>2. /\ schQueue = <<>> /\ schWork = 0 /\ schCb = "idle"
      /\ schSet.index # 0 => ~SchUnderway
  BY <1>1 DEF LifeInv, NotYet, SchQuiet, SchUnderway
<1>3. CASE schSet.enabled
  <2>1. Arms(schSet)
    BY <1>1, <1>3, ArmStep DEF SchTimeSynced
  <2>2. schSet'.index = schSet.index /\ schSet.index # 0 /\ schSet'.kind = schSet.kind
    BY <1>3, <2>1 DEF Arms, LifeInv, SchKnown
  <2>3. ~SchUnderway /\ ~SchUnderway'
    BY <1>1, <1>2, <2>2 DEF SchUnderway
  <2>4. SchTypes' /\ SchKnown' /\ NotYet'
    BY <1>1, <1>3, <2>1, <2>2 DEF Arms, LifeInv, SchTypes, ActedShape, SchKnown, NotYet
  <2>5. Timely' /\ Stamps' /\ StopsTimer' /\ ArmedOrFired'
    BY <2>1, <2>2 DEF Arms, Stamps, SchStamped, StopsTimer, ArmedOrFired
  <2>6. UntilThenOff'
    BY <1>1, <1>3, <2>2, <2>3 DEF LifeInv, UntilThenOff
  <2>7. DayStaysOff'
    BY <1>1, <1>2, <2>1 DEF Arms, DayStaysOff
  <2>8. OnceThenOff'
    <3>1. schActed' = "no"
      BY <1>1 DEF LifeInv, NotYet
    <3> QED BY <1>1, <1>2, <2>3, <3>1 DEF OnceThenOff
  <2> QED BY <2>1, <2>4, <2>5, <2>6, <2>7, <2>8 DEF LifeInv
<1>4. CASE ~schSet.enabled
  <2>1. UNCHANGED <<schSet, schTimer, schEarly, schRearmed, schSaved>>
    BY <1>1, <1>4 DEF SchTimeSynced, schArmed
  <2> QED BY <1>1, <1>2, <1>4, <2>1
          DEF LifeInv, SchTypes, ActedShape, SchKnown, NotYet, Timely, OnTime, Stamps, ArmedOrFired,
              OnceThenOff, UntilThenOff, StopsTimer, DayStaysOff, SchQuiet
<1> QED BY <1>3, <1>4

(* Time passes.                                                            *)
LEMMA TickStep == ASSUME LifeInv, SchTick PROVE LifeInv'
<1>1. /\ schClock < SchMaxTime /\ schClock' = schClock + 1
      /\ UNCHANGED <<schSet, schTimer, schSync, schCb, schQueue, schWork, schSaved, schCommands,
                     schActed, schRaces, schEarly, schRearmed>>
      /\ schClock \in Nat \ {0} /\ schSet \in Schedules /\ ActedShape
  BY SchConstants DEF SchTick, schBounds, schGhosts, schArmed, LifeInv, SchTypes
<1>2. SchTypes'
  BY <1>1, SchConstants DEF LifeInv, SchTypes, ActedShape
<1>3. schSet.utc \in Nat /\ schSet.ts \in Nat
  BY <1>1, SchConstants DEF Schedules, Times
<1>4. /\ SchUnderway <=> SchUnderway'
      /\ Past => Past'
      /\ schSet.utc <= schClock => schSet.utc <= schClock'
      /\ SchRmakerExpired(schSet) => SchRmakerExpired(schSet)'
  <2>1. SchUnderway <=> SchUnderway'
    BY <1>1 DEF SchUnderway
  <2>2. /\ schSet.utc <= schClock => schSet.utc <= schClock'
        /\ schSet.ts <= schClock => schSet.ts <= schClock'
        /\ SchLast < schClock => SchLast < schClock'
    BY <1>1, <1>3, SchConstants
  <2>3. Past => Past'
    BY <1>1, <2>2 DEF Past, ThenExpires
  <2>4. SchRmakerExpired(schSet) => SchRmakerExpired(schSet)'
    BY <1>1, <2>2 DEF SchRmakerExpired, SchStamped, SchPastLast
  <2> QED BY <2>1, <2>2, <2>3, <2>4
<1>5. SchKnown' /\ NotYet' /\ Timely' /\ Stamps' /\ StopsTimer'
  BY <1>1 DEF LifeInv, SchKnown, NotYet, SchQuiet, Timely, OnTime, Stamps, ThenExpires, SchStamped,
              StopsTimer
<1>6. ArmedOrFired'
  BY <1>1, <1>4 DEF LifeInv, ArmedOrFired, Armed, Fired
<1>7. OnceThenOff'
  BY <1>1, <1>4 DEF LifeInv, OnceThenOff, SchStamped
<1>8. UntilThenOff'
  BY <1>1, <1>4 DEF LifeInv, UntilThenOff
<1>9. DayStaysOff'
  BY <1>1, <1>4 DEF LifeInv, DayStaysOff, SchQuiet
<1> QED BY <1>2, <1>5, <1>6, <1>7, <1>8, <1>9 DEF LifeInv

(* A reset: schedules come from NVS, and wait for the time.                *)
LEMMA ResetStep == ASSUME LifeInv, SchReset PROVE LifeInv'
<1>1. /\ schCb' = "idle" /\ schQueue' = <<>> /\ schWork' = 0 /\ schTimer' = SchOff
      /\ schSet' = [schSaved EXCEPT !.utc = IF schSaved.kind = "relative" THEN schSaved.ts ELSE 0]
      /\ schSync' = IF schSaved.enabled THEN "started" ELSE "not_started"
      /\ schActed' = "no" /\ schRaces' = {} /\ schEarly' = FALSE /\ schRearmed' = FALSE
      /\ UNCHANGED <<schClock, schSaved, schCommands>>
      /\ schSaved \in Schedules
  BY DEF SchReset, LifeInv, SchTypes
<1>2. schSet' \in Schedules /\ schSet'.enabled = schSaved.enabled /\ schSet'.index = schSaved.index
  BY <1>1, SchConstants DEF Schedules
<1>3. schQueue' \in Seq(Nat)
  BY <1>1
<1>4. schEarly' \in BOOLEAN /\ schRearmed' \in BOOLEAN
  BY <1>1, Zenon
<1>5. schTimer' \in 1..SchOff /\ ActedShape' /\ schActed' = "no"
  BY <1>1, SchConstants DEF LifeInv, SchTypes, ActedShape
<1>6. SchTypes'
  BY <1>1, <1>2, <1>3, <1>4, <1>5 DEF LifeInv, SchTypes
<1>7. SchKnown' /\ NotYet' /\ Stamps' /\ StopsTimer' /\ ArmedOrFired'
  BY <1>1, <1>2 DEF LifeInv, SchKnown, NotYet, SchQuiet, Stamps, StopsTimer, ArmedOrFired
<1>8. Timely'
  BY <1>1, <1>2, StoppedInTime DEF Timely, Schedules
<1>9. OnceThenOff' /\ UntilThenOff' /\ DayStaysOff'
  <2>1. schSet'.enabled => ~SchUnderway'
    BY <1>1, <1>2 DEF SchUnderway, LifeInv, SchKnown
  <2>2. schActed' # "past"
    BY <1>1
  <2> QED BY <1>1, <1>5, <2>1, <2>2 DEF OnceThenOff, UntilThenOff, DayStaysOff
<1> QED BY <1>6, <1>7, <1>8, <1>9 DEF LifeInv

(* Every step of the schedules keeps the invariant.                        *)
LEMMA LifeStep == LifeInv /\ [SchNext]_schVars => LifeInv'
<1> SUFFICES ASSUME LifeInv, [SchNext]_schVars PROVE LifeInv'
  OBVIOUS
<1>1. CASE UNCHANGED schVars
  <2>1. UNCHANGED <<schSet, schTimer, schClock, schSync, schCb, schQueue, schWork, schSaved,
                    schCommands, schActed, schRaces, schEarly, schRearmed>>
    BY <1>1 DEF schVars, schTime, schBounds, schGhosts, schArmed
  <2>2. SchTypes' /\ SchKnown' /\ NotYet' /\ Timely' /\ Stamps' /\ StopsTimer'
    BY <2>1 DEF LifeInv, SchTypes, ActedShape, SchKnown, NotYet, SchQuiet, Timely, OnTime, Stamps, ThenExpires,
                SchStamped, StopsTimer
  <2>3. ArmedOrFired'
    BY <2>1 DEF LifeInv, ArmedOrFired, Armed, Fired, SchUnderway, SchRmakerExpired, SchStamped,
                SchPastLast
  <2>4. OnceThenOff' /\ UntilThenOff' /\ DayStaysOff'
    BY <2>1 DEF LifeInv, OnceThenOff, UntilThenOff, DayStaysOff, SchUnderway, Past, ThenExpires,
                SchStamped, SchQuiet
  <2> QED BY <2>2, <2>3, <2>4 DEF LifeInv
<1> QED BY <1>1, AddStep, EditStep, OtherCommands, RemoveStep, FireStep, SchTestStep, StartStep, SchActStep,
           ActedStep, TimeSyncedStep, TickStep, ResetStep
        DEF SchNext, SchTimerTask, SchWorkQueue, SchCommands

(* Without a schedule the invariant holds.                                 *)
LEMMA LifeInit == SchInit => LifeInv
<1> SUFFICES ASSUME SchInit PROVE LifeInv
  OBVIOUS
<1>1. /\ schSet = SchNone /\ schSaved = SchNone /\ schTimer = SchOff /\ schClock = 1
      /\ schSync = "not_started" /\ schCb = "idle" /\ schQueue = <<>> /\ schWork = 0 /\ schCommands = 0
      /\ schActed = "no" /\ schRaces = {} /\ schEarly = FALSE /\ schRearmed = FALSE
  BY DEF SchInit
<1>2. schQueue \in Seq(Nat)
  BY <1>1
<1>3. schEarly \in BOOLEAN /\ schRearmed \in BOOLEAN
  BY <1>1, Zenon
<1>4. /\ schTimer \in 1..SchOff /\ schClock \in 1..SchMaxTime /\ ActedShape
      /\ schCommands \in Nat /\ schWork \in Nat
  BY <1>1, SchConstants DEF ActedShape
<1>5. SchTypes
  BY <1>1, <1>2, <1>3, <1>4, NoneIsOff DEF SchTypes
<1>6. Timely
  BY <1>1, NoneIsOff, StoppedInTime, SchConstants DEF Timely
<1>7. schSet.enabled = FALSE /\ schSaved.enabled = FALSE /\ schSet.kind = "repeat"
  BY <1>1, NoneIsOff
<1> QED BY <1>1, <1>5, <1>6, <1>7
        DEF LifeInv, SchKnown, NotYet, SchQuiet, Stamps, ArmedOrFired, OnceThenOff, UntilThenOff,
            StopsTimer, DayStaysOff

(* So it holds in every behaviour.                                         *)
LEMMA LifeAlways == SchSpec => []LifeInv
BY LifeInit, LifeStep, PTL DEF SchSpec

(* Where nothing is under way, an enabled schedule has its timer running,  *)
(* to its due time or whole turns of 32 bits before, after any commands,   *)
(* restarts and time synchronisations, unless a trigger was lost or the    *)
(* second turned between its two tests (esp_rmaker_schedule.c:395-408,     *)
(* 425-502).                                                               *)
THEOREM EnabledIsArmed == SchSpec => []SchEnabledArmed
<1>1. LifeInv => SchEnabledArmed
  <2> SUFFICES ASSUME LifeInv, SchQuiet, schSet.enabled, schSync = "done",
                      schRaces \cap {"lost", "turned"} = {}
               PROVE  Armed /\ OnTime(schTimer, schSet.utc)
    BY DEF SchEnabledArmed, Armed, OnTime
  <2>1. ~SchUnderway
    BY DEF LifeInv, SchKnown, SchQuiet, SchUnderway
  <2>2. "lost" \notin schRaces /\ "turned" \notin schRaces
    OBVIOUS
  <2> QED BY <2>1, <2>2 DEF LifeInv, ArmedOrFired, Fired, SchQuiet, Timely
<1> QED BY <1>1, LifeAlways, PTL

(* A schedule whose last action has run is disabled and its timer stopped, *)
(* for any times, periods, last instants and room of the queue, but for an *)
(* edit over a trigger under way; only its own callback may have started   *)
(* the timer again, and never that of a day of the week                    *)
(* (esp_rmaker_schedule.c:301-306).                                        *)
THEOREM OnceIsThenOff == SchSpec => []SchOnceThenOff
<1>1. LifeInv => SchOnceThenOff
  <2> SUFFICES ASSUME LifeInv, SchQuiet, SchLastActed, "overlap" \notin schRaces
               PROVE  /\ ~schSet.enabled
                      /\ schTimer = SchOff \/ (schRearmed /\ schSet.kind # "day_once")
    BY DEF SchOnceThenOff
  <2>1. ~schSet.enabled
    <3> SUFFICES ASSUME schSet.enabled PROVE FALSE
      OBVIOUS
    <3>1. ~SchUnderway
      BY DEF LifeInv, SchKnown, SchQuiet, SchUnderway
    <3> QED BY <3>1 DEF LifeInv, OnceThenOff, UntilThenOff, SchLastActed
  <2>2. schTimer = SchOff \/ schRearmed
    BY <2>1 DEF LifeInv, StopsTimer
  <2>3. schSet.kind = "day_once" => ~schRearmed
    BY DEF LifeInv, DayStaysOff, SchLastActed
  <2> QED BY <2>1, <2>2, <2>3
<1> QED BY <1>1, LifeAlways, PTL

-----------------------------------------------------------------------------
(* Schedule: its types, with those of LifeInv.                             *)
SchTypesMore == LifeInv /\ SchTypeOK

LEMMA SchTypesBegin == SchInit => SchTypesMore
<1> SUFFICES ASSUME SchInit PROVE SchTypesMore
  OBVIOUS
<1>1. LifeInv
  BY LifeInit
<1>2. schSet \in Schedules /\ schTimer \in 1..SchOff /\ schClock \in 1..SchMaxTime
  BY <1>1 DEF LifeInv, SchTypes
<1>3. schSet.utc \in 0..SchOff /\ schSet.ts \in 0..SchOff
  BY <1>2, SchConstants DEF Schedules, Times
<1>4. schQueue = <<>> /\ Len(<<>>) = 0 /\ 0 <= SchRoom
  BY SchConstants DEF SchInit
<1>5. Len(schQueue) <= SchRoom
  BY <1>4
<1>6. schActed \in {"no", "yes", "past"}
  BY <1>1 DEF LifeInv, SchTypes, ActedShape
<1> QED BY <1>1, <1>2, <1>3, <1>5, <1>6
        DEF SchInit, SchTypesMore, SchTypeOK, Schedules, LifeInv, SchTypes

LEMMA SchTypesStep == SchTypesMore /\ [SchNext]_schVars => SchTypesMore'
<1> SUFFICES ASSUME SchTypesMore, SchNext \/ UNCHANGED schVars PROVE SchTypesMore'
  OBVIOUS
<1>1. LifeInv /\ LifeInv'
  BY LifeStep DEF SchTypesMore
<1>2. schSync \in {"not_started", "started", "done"} /\ schCb \in {"idle", "test", "start"}
      /\ Len(schQueue) <= SchRoom /\ schQueue \in Seq(Nat)
  BY <1>1 DEF SchTypesMore, SchTypeOK, LifeInv, SchTypes
<1>3. schSync' \in {"not_started", "started", "done"} /\ schCb' \in {"idle", "test", "start"}
  <2>1. CASE SchTimerTask
    BY <1>2, <2>1 DEF SchTimerTask, SchFire, SchTest, SchStart, schTime
  <2>2. CASE SchWorkQueue
    BY <1>2, <2>2 DEF SchWorkQueue, SchAct, SchActed, SchTimeSynced, schTime
  <2>3. CASE SchAdd \/ SchEdit
    BY <1>2, <2>3 DEF SchAdd, SchEdit, SchEnable, SchRestarted, SchCommand
  <2>4. CASE SchEnableCommand \/ SchDisableCommand \/ SchRemove
    BY <1>2, <2>4 DEF SchEnableCommand, SchDisableCommand, SchRemove, SchEnable, SchCommand, schTime
  <2>5. CASE SchTick \/ SchReset \/ UNCHANGED schVars
    BY <1>2, <2>5 DEF SchTick, SchReset, schVars, schTime
  <2> QED BY <2>1, <2>2, <2>3, <2>4, <2>5 DEF SchNext, SchCommands
<1>4. Len(schQueue') <= SchRoom
  <2>1. CASE SchFire
    <3>1. CASE Len(schQueue) < SchRoom
      <4>1. schQueue' = Append(schQueue, schSet.index) /\ schSet.index \in Nat
        BY <1>1, <2>1, <3>1 DEF SchFire, LifeInv, SchTypes, Schedules
      <4>2. Len(schQueue') = Len(schQueue) + 1 /\ Len(schQueue) \in Nat
        BY <1>2, <4>1, AppendProperties
      <4> QED BY <3>1, <4>2, SchConstants
    <3>2. CASE ~(Len(schQueue) < SchRoom)
      BY <1>2, <2>1, <3>2 DEF SchFire
    <3> QED BY <3>1, <3>2
  <2>2. CASE SchAct
    <3>1. Len(schQueue') = Len(schQueue) - 1 /\ Len(schQueue) \in Nat
      BY <1>2, <2>2, HeadTailProperties DEF SchAct
    <3> QED BY <1>2, <3>1, SchConstants
  <2>3. CASE SchReset
    <3>1. schQueue' = <<>> /\ Len(<<>>) = 0 /\ 0 <= SchRoom
      BY <2>3, SchConstants DEF SchReset
    <3> QED BY <3>1
  <2>4. CASE SchTest \/ SchStart \/ SchActed \/ SchTimeSynced \/ SchCommands \/ SchTick
             \/ UNCHANGED schVars
    BY <1>2, <2>4 DEF SchTest, SchStart, SchActed, SchTimeSynced, SchCommands, SchAdd, SchEdit,
        SchEnableCommand, SchDisableCommand, SchRemove, SchCommand, SchTick, schVars
  <2> QED BY <2>1, <2>2, <2>3, <2>4 DEF SchNext, SchTimerTask, SchWorkQueue
<1>5. schSet' \in Schedules /\ schTimer' \in 1..SchOff /\ schClock' \in 1..SchMaxTime
  BY <1>1 DEF LifeInv, SchTypes
<1>6. schSet'.utc \in 0..SchOff /\ schSet'.ts \in 0..SchOff
  BY <1>5, SchConstants DEF Schedules, Times
<1>7. /\ schRaces' \subseteq {"overlap", "lost", "turned"}
      /\ schEarly' \in BOOLEAN /\ schRearmed' \in BOOLEAN
  BY <1>1 DEF LifeInv, SchTypes
<1>8. schActed' \in {"no", "yes", "past"}
  BY <1>1 DEF LifeInv, SchTypes, ActedShape
<1> QED BY <1>1, <1>3, <1>4, <1>5, <1>6, <1>7, <1>8 DEF SchTypesMore, SchTypeOK, Schedules

-----------------------------------------------------------------------------
(* ScheduleDates: the earliest instant a schedule names.                   *)

(* A multiple and a rest: division and remainder take them apart and put   *)
(* them together again.                                                    *)
LEMMA Divided ==
    ASSUME NEW n \in Nat \ {0}, NEW t \in Nat
    PROVE  /\ t \div n \in Nat /\ t % n \in 0..n - 1
           /\ t = ((t \div n) * n) + (t % n)
OBVIOUS

LEMMA Multiples ==
    ASSUME NEW n \in Nat \ {0}, NEW a \in Nat, NEW b \in 0..n - 1
    PROVE  (a * n) + b \in Nat /\ ((a * n) + b) \div n = a /\ ((a * n) + b) % n = b
OBVIOUS

(* Of two such numbers the greater multiple is the greater, whatever the   *)
(* rests.                                                                  *)
LEMMA Greater ==
    ASSUME NEW n \in Nat \ {0}, NEW a \in Nat, NEW b \in Nat,
           NEW r \in 0..n - 1, NEW s \in 0..n - 1
    PROVE  (a * n) + r < (b * n) + s <=> a < b \/ (a = b /\ r < s)
<1>1. ASSUME NEW c \in Nat, NEW d \in Nat, c < d
      PROVE  c * n <= (d * n) - n
  <2>1. c * n <= (d - 1) * n
    BY <1>1
  <2>2. (d - 1) * n = (d * n) - n
    BY <1>1
  <2> QED BY <2>1, <2>2
<1>2. a * n \in Nat /\ b * n \in Nat
  OBVIOUS
<1>3. CASE a < b
  BY <1>1, <1>2, <1>3
<1>4. CASE b < a
  BY <1>1, <1>2, <1>4
<1>5. CASE a = b
  BY <1>2, <1>5
<1> QED BY <1>3, <1>4, <1>5

(* Dividing by a product is dividing by one factor and then by the other.  *)
LEMMA Nested ==
    ASSUME NEW n \in Nat \ {0}, NEW m \in Nat \ {0}, NEW t \in Nat
    PROVE  t \div (n * m) = (t \div n) \div m
<1> DEFINE a == t \div n
           b == a \div m
           r == t % n
           s == a % m
<1>1. a \in Nat /\ r \in 0..n - 1 /\ t = (a * n) + r
  BY Divided
<1>2. b \in Nat /\ s \in 0..m - 1 /\ a = (b * m) + s
  BY <1>1, Divided
<1> HIDE DEF a, b, r, s
<1>3. t = (b * (n * m)) + ((s * n) + r)
  <2>1. a * n = (b * m) * n + s * n
    BY <1>2
  <2>2. (b * m) * n = b * (n * m)
    BY <1>2
  <2>3. (b * m) * n \in Nat /\ s * n \in Nat
    BY <1>2
  <2> QED BY <1>1, <2>1, <2>2, <2>3
<1>4. (s * n) + r \in 0..(n * m) - 1 /\ n * m \in Nat \ {0}
  <2>1. s * n <= (m - 1) * n
    BY <1>2
  <2>2. (m - 1) * n = (n * m) - n
    OBVIOUS
  <2>3. s * n \in Nat /\ n * m \in Nat \ {0}
    BY <1>2
  <2>4. \A p, q \in Nat : p <= q - n => p + r \in 0..q - 1
    BY <1>1
  <2> QED BY <2>1, <2>2, <2>3, <2>4
<1>5. t \div (n * m) = b
  BY <1>2, <1>3, <1>4, Multiples
<1> QED BY <1>5 DEF a, b

(* A nonempty set of naturals has a least element, and Min is that one.    *)
LEMMA Least ==
    ASSUME NEW S \in SUBSET Nat, NEW x \in S, \A y \in S : x <= y
    PROVE  Min(S) = x
<1>1. \A z \in S : (\A y \in S : z <= y) => z = x
  OBVIOUS
<1> QED BY <1>1 DEF Min

LEMMA MinIsLeast ==
    ASSUME NEW S \in SUBSET (0..12), S # {}
    PROVE  Min(S) \in S /\ \A y \in S : Min(S) <= y
<1>1. \E x \in S : \A y \in S : x <= y
  <2> SUFFICES ASSUME \A x \in S : \E y \in S : y < x
               PROVE  FALSE
    OBVIOUS
  <2>1. 0 \notin S
    OBVIOUS
  <2>2. 1 \notin S /\ 2 \notin S /\ 3 \notin S /\ 4 \notin S
    BY <2>1
  <2>3. 5 \notin S /\ 6 \notin S /\ 7 \notin S /\ 8 \notin S
    BY <2>1, <2>2
  <2>4. 9 \notin S /\ 10 \notin S /\ 11 \notin S /\ 12 \notin S
    BY <2>1, <2>2, <2>3
  <2>5. PICK x \in S : x \in 0..12
    OBVIOUS
  <2>6. \A m \in 0..12 : \/ m \in {0, 1, 2, 3, 4} \/ m \in {5, 6, 7, 8}
                          \/ m \in {9, 10, 11, 12}
    OBVIOUS
  <2> QED BY <2>1, <2>2, <2>3, <2>4, <2>5, <2>6
<1> QED BY <1>1 DEF Min

-----------------------------------------------------------------------------
(* The months before an instant, and the instant of a month, day and slot. *)
MonthsOf(t) == t \div (DatSlots * DatDays)
At(k, d, s) == (((k * DatDays) + (d - 1)) * DatSlots) + s

(* An instant is its month, day and slot.                                  *)
LEMMA Fields ==
    ASSUME NEW t \in Nat
    PROVE  /\ MonthsOf(t) \in Nat /\ DatDay(t) \in 1..DatDays /\ DatSlot(t) \in 0..DatSlots - 1
           /\ t = At(MonthsOf(t), DatDay(t), DatSlot(t))
           /\ DatMonth(t) = (MonthsOf(t) % 12) + 1
           /\ DatYearOf(t) = MonthsOf(t) \div 12
<1> DEFINE a == t \div DatSlots
<1>1. DatSlots \in Nat \ {0} /\ DatDays \in Nat \ {0}
  BY DatAssumption
<1>2. a \in Nat /\ DatSlot(t) \in 0..DatSlots - 1 /\ t = (a * DatSlots) + DatSlot(t)
  BY <1>1, Divided DEF DatSlot
<1>3. MonthsOf(t) = a \div DatDays
  BY <1>1, Nested DEF MonthsOf
<1>4. /\ MonthsOf(t) \in Nat /\ a % DatDays \in 0..DatDays - 1
      /\ a = (MonthsOf(t) * DatDays) + (a % DatDays)
  BY <1>1, <1>2, <1>3, Divided
<1>5. DatDay(t) = (a % DatDays) + 1
  BY DEF DatDay
<1>6. DatDay(t) \in 1..DatDays /\ DatDay(t) - 1 = a % DatDays
  BY <1>1, <1>4, <1>5
<1>7. t = At(MonthsOf(t), DatDay(t), DatSlot(t))
  BY <1>2, <1>4, <1>6 DEF At
<1>8. DatMonth(t) = (MonthsOf(t) % 12) + 1
  BY DEF DatMonth, MonthsOf
<1>9. DatYearOf(t) = MonthsOf(t) \div 12
  <2>1. DatSlots * DatDays \in Nat \ {0} /\ (12 * DatDays) * DatSlots = (DatSlots * DatDays) * 12
    BY <1>1
  <2> QED BY <1>1, <2>1, Nested DEF DatYearOf, DatYear, MonthsOf
<1> QED BY <1>2, <1>4, <1>6, <1>7, <1>8, <1>9

(* The instant of a month, day and slot has them.                          *)
LEMMA AtFields ==
    ASSUME NEW k \in Nat, NEW d \in 1..DatDays, NEW s \in 0..DatSlots - 1
    PROVE  /\ At(k, d, s) \in Nat /\ MonthsOf(At(k, d, s)) = k
           /\ DatDay(At(k, d, s)) = d /\ DatSlot(At(k, d, s)) = s
<1> DEFINE a == (k * DatDays) + (d - 1)
           t == (a * DatSlots) + s
<1>1. DatSlots \in Nat \ {0} /\ DatDays \in Nat \ {0}
  BY DatAssumption
<1>2. d - 1 \in 0..DatDays - 1
  BY <1>1
<1>3. a \in Nat /\ a \div DatDays = k /\ a % DatDays = d - 1
  BY <1>1, <1>2, Multiples
<1>4. t \in Nat /\ t \div DatSlots = a /\ t % DatSlots = s
  BY <1>1, <1>3, Multiples
<1>5. At(k, d, s) = t
  BY DEF At
<1>6. MonthsOf(t) = k
  BY <1>1, <1>3, <1>4, Nested DEF MonthsOf
<1>7. DatDay(t) = d
  BY <1>3, <1>4 DEF DatDay
<1>8. DatSlot(t) = s
  BY <1>4 DEF DatSlot
<1> HIDE DEF t
<1> QED BY <1>4, <1>5, <1>6, <1>7, <1>8

(* Instants are ordered by month, then by day, then by slot.               *)
LEMMA AtOrder ==
    ASSUME NEW k \in Nat, NEW d \in 1..DatDays, NEW s \in 0..DatSlots - 1,
           NEW l \in Nat, NEW e \in 1..DatDays, NEW r \in 0..DatSlots - 1
    PROVE  At(k, d, s) < At(l, e, r) <=>
               k < l \/ (k = l /\ (d < e \/ (d = e /\ s < r)))
<1> DEFINE a == (k * DatDays) + (d - 1)
           b == (l * DatDays) + (e - 1)
<1>1. DatSlots \in Nat \ {0} /\ DatDays \in Nat \ {0}
  BY DatAssumption
<1>2. d - 1 \in 0..DatDays - 1 /\ e - 1 \in 0..DatDays - 1
  BY <1>1
<1>3. a \in Nat /\ b \in Nat
  BY <1>1, <1>2, Multiples
<1>4. a < b <=> k < l \/ (k = l /\ d - 1 < e - 1)
  BY <1>1, <1>2, Greater
<1>5. b < a <=> l < k \/ (l = k /\ e - 1 < d - 1)
  BY <1>1, <1>2, Greater
<1>6. At(k, d, s) < At(l, e, r) <=> a < b \/ (a = b /\ s < r)
  <2> HIDE DEF a, b
  <2>1. (a * DatSlots) + s < (b * DatSlots) + r <=> a < b \/ (a = b /\ s < r)
    BY <1>1, <1>3, Greater
  <2> QED BY <2>1 DEF At, a, b
<1> HIDE DEF a, b
<1> QED BY <1>1, <1>3, <1>4, <1>5, <1>6

-----------------------------------------------------------------------------
(* What the dates and the weeks of the configurations are.                 *)
LEMMA Configs ==
    ASSUME NEW cfg \in DatConfigs
    PROVE  /\ cfg.slot \in 0..DatSlots - 1
           /\ \/ /\ cfg.kind = "week" /\ cfg.days \in SUBSET (0..6)
              \/ /\ cfg.kind = "date" /\ cfg.day \in 1..DatDays
                 /\ cfg.months \in SUBSET (1..12) /\ cfg.yearly \in BOOLEAN
                 /\ cfg.year \in 0..DatYears - 1 /\ (cfg.months = {} => cfg.year = 0)
<1>1. DatYears \in Nat \ {0}
  BY DatAssumption
<1>2. CASE cfg \in [kind : {"week"}, slot : 0..DatSlots - 1, days : DatWeekSets]
  BY <1>2, DatAssumption
<1>3. CASE cfg \in [kind : {"date"}, slot : 0..DatSlots - 1, day : 1..DatDays,
                    months : DatMonthSets \ {{}}, year : 0..DatYears - 1, yearly : BOOLEAN]
  <2>1. cfg.months \in DatMonthSets \ {{}}
    BY <1>3
  <2>2. cfg.months \in SUBSET (1..12) /\ cfg.months # {}
    BY <2>1, DatAssumption
  <2> QED BY <1>3, <2>2
<1>4. CASE cfg \in [kind : {"date"}, slot : 0..DatSlots - 1, day : 1..DatDays,
                    months : {{}}, year : {0}, yearly : {FALSE}]
  <2>1. cfg.months = {} /\ cfg.yearly = FALSE /\ cfg.year = 0
    BY <1>4
  <2>2. cfg.kind = "date" /\ cfg.slot \in 0..DatSlots - 1 /\ cfg.day \in 1..DatDays
    BY <1>4
  <2>3. cfg.months \in SUBSET (1..12) /\ 0 \in 0..DatYears - 1
    BY <1>1, <2>1
  <2> QED BY <2>1, <2>2, <2>3
<1> QED BY <1>2, <1>3, <1>4 DEF DatConfigs

(* The slots of the calendar, and of the years after it that a due instant *)
(* may lie in.                                                             *)
LEMMA Bounds ==
    /\ DatYear \in Nat \ {0}
    /\ \A k \in Nat, d \in 1..DatDays, s \in 0..DatSlots - 1, y \in Nat :
           At(k, d, s) < y * DatYear <=> k < 12 * y
<1>1. DatSlots \in Nat \ {0} /\ DatDays \in Nat \ {0}
  BY DatAssumption
<1>2. DatYear \in Nat \ {0}
  BY <1>1 DEF DatYear
<1>3. ASSUME NEW k \in Nat, NEW d \in 1..DatDays, NEW s \in 0..DatSlots - 1, NEW y \in Nat
      PROVE  At(k, d, s) < y * DatYear <=> k < 12 * y
  <2>1. 1 \in 1..DatDays /\ 0 \in 0..DatSlots - 1 /\ 12 * y \in Nat
    BY <1>1, <1>3
  <2>2. At(12 * y, 1, 0) = y * DatYear
    <3>1. At(12 * y, 1, 0) = ((12 * y) * DatDays) * DatSlots
      BY <1>1, <1>3 DEF At
    <3>2. ((12 * y) * DatDays) * DatSlots = y * ((12 * DatDays) * DatSlots)
      BY <1>1, <1>3
    <3> QED BY <3>1, <3>2 DEF DatYear
  <2>3. At(k, d, s) < At(12 * y, 1, 0) <=>
            k < 12 * y \/ (k = 12 * y /\ (d < 1 \/ (d = 1 /\ s < 0)))
    BY <1>3, <2>1, AtOrder
  <2> QED BY <1>1, <1>3, <2>2, <2>3
<1> QED BY <1>2, <1>3

-----------------------------------------------------------------------------
(* Of a date schedule: its instant of this month is still to come; a month *)
(* it names; a month whose instant is to come.                             *)
DateToCome(cfg, now) ==
    cfg.day > DatDay(now) \/ (cfg.day = DatDay(now) /\ cfg.slot > DatSlot(now))
DateNames(cfg, k) ==
    \/ cfg.months = {}
    \/ /\ (k % 12) + 1 \in cfg.months
       /\ IF cfg.yearly THEN k \div 12 >= cfg.year ELSE k \div 12 = cfg.year
DateComes(cfg, now, k) == k > MonthsOf(now) \/ (k = MonthsOf(now) /\ DateToCome(cfg, now))

(* The instants at which a date schedule is due are those of the months it *)
(* names, from the clock on.                                               *)
LEMMA DueDates ==
    ASSUME NEW cfg \in DatConfigs, cfg.kind = "date", NEW now \in Nat
    PROVE  /\ \A t \in DatDue(cfg, now) : \E k \in Nat : t = At(k, cfg.day, cfg.slot)
           /\ \A k \in Nat : At(k, cfg.day, cfg.slot) \in DatDue(cfg, now) <=>
                  DateNames(cfg, k) /\ DateComes(cfg, now, k) /\ k < 12 * (DatYears + 3)
<1>1. cfg.day \in 1..DatDays /\ cfg.slot \in 0..DatSlots - 1
  BY Configs
<1>2. ASSUME NEW t \in DatDue(cfg, now)
      PROVE  \E k \in Nat : t = At(k, cfg.day, cfg.slot)
  <2>1. DatYears + 3 \in Nat /\ DatYear \in Nat
    BY DatAssumption, Bounds
  <2>2. DatNever \in Nat
    BY <2>1 DEF DatNever
  <2>3. t \in Nat
    BY <1>2, <2>2 DEF DatDue
  <2>4. DatDay(t) = cfg.day /\ DatSlot(t) = cfg.slot
    BY <1>2 DEF DatDue, DatMatches
  <2> QED BY <2>3, <2>4, Fields
<1>3. ASSUME NEW k \in Nat
      PROVE  At(k, cfg.day, cfg.slot) \in DatDue(cfg, now) <=>
                  DateNames(cfg, k) /\ DateComes(cfg, now, k) /\ k < 12 * (DatYears + 3)
  <2> DEFINE t == At(k, cfg.day, cfg.slot)
  <2>1. t \in Nat /\ MonthsOf(t) = k /\ DatDay(t) = cfg.day /\ DatSlot(t) = cfg.slot
    BY <1>1, AtFields
  <2>2. DatMonth(t) = (k % 12) + 1 /\ DatYearOf(t) = k \div 12
    BY <2>1, Fields
  <2>3. now < t <=> DateComes(cfg, now, k)
    <3>1. /\ MonthsOf(now) \in Nat /\ DatDay(now) \in 1..DatDays /\ DatSlot(now) \in 0..DatSlots - 1
          /\ now = At(MonthsOf(now), DatDay(now), DatSlot(now))
      BY Fields
    <3>2. now < t <=> MonthsOf(now) < k \/ (MonthsOf(now) = k /\ (DatDay(now) < cfg.day
                          \/ (DatDay(now) = cfg.day /\ DatSlot(now) < cfg.slot)))
      BY <1>1, <3>1, AtOrder
    <3>3. /\ DatDay(now) < cfg.day <=> cfg.day > DatDay(now)
          /\ DatSlot(now) < cfg.slot <=> cfg.slot > DatSlot(now)
          /\ MonthsOf(now) < k <=> k > MonthsOf(now)
      BY <1>1, <3>1
    <3> QED BY <3>2, <3>3 DEF DateComes, DateToCome
  <2>4. t < DatNever <=> k < 12 * (DatYears + 3)
    <3>1. DatYears + 3 \in Nat
      BY DatAssumption
    <3>2. t < (DatYears + 3) * DatYear <=> k < 12 * (DatYears + 3)
      BY <1>1, <3>1, Bounds
    <3> QED BY <3>2 DEF DatNever
  <2>5. DatMatches(cfg, t) <=> DateNames(cfg, k)
    BY <2>1, <2>2 DEF DatMatches, DateNames
  <2>6. t \in DatDue(cfg, now) <=> now < t /\ t < DatNever /\ DatMatches(cfg, t)
    <3>1. DatNever \in Nat
      BY DatAssumption, Bounds DEF DatNever
    <3>2. t \in now + 1..DatNever - 1 <=> now < t /\ t < DatNever
      BY <2>1, <3>1
    <3> QED BY <3>2 DEF DatDue
  <2> QED BY <2>3, <2>4, <2>5, <2>6
<1> QED BY <1>2, <1>3

(* The month esp_schedule takes is the first to come of those the date     *)
(* schedule names, unless it names none any more.                          *)
DateMonth(cfg, now) ==
    LET found == DatNextMonth(cfg, now)
        month == IF found = 0 THEN DatMonth(now) + 1 ELSE found
        year  == IF cfg.year > DatYearOf(now) THEN cfg.year ELSE DatYearOf(now)
    IN  (year * 12) + (month - 1)

LEMMA FirstMonth ==
    ASSUME NEW cfg \in DatConfigs, cfg.kind = "date", NEW now \in Nat,
           MonthsOf(now) < 12 * DatYears
    PROVE  LET k == DateMonth(cfg, now)
           IN  /\ k \in Nat /\ k < 12 * (DatYears + 3)
               /\ \/ /\ DateNames(cfg, k) /\ DateComes(cfg, now, k)
                     /\ \A l \in Nat : DateNames(cfg, l) /\ DateComes(cfg, now, l) => k <= l
                  \/ /\ cfg.months # {} /\ ~cfg.yearly
                     /\ \A l \in Nat : ~(DateNames(cfg, l) /\ DateComes(cfg, now, l))
<1> DEFINE k == DateMonth(cfg, now)
           h == MonthsOf(now)
           m == (h % 12) + 1
           y == h \div 12
           later == {n \in cfg.months : n > m}
<1>1. h \in Nat /\ DatMonth(now) = m /\ DatYearOf(now) = y
  BY Fields
<1>2. /\ m \in 1..12 /\ y \in Nat /\ h = (12 * y) + (m - 1)
      /\ y < DatYears /\ DatYears \in Nat
  BY <1>1, DatAssumption
<1>3. /\ cfg.months \in SUBSET (1..12) /\ cfg.yearly \in BOOLEAN
      /\ cfg.year \in Nat /\ cfg.year < DatYears /\ (cfg.months = {} => cfg.year = 0)
  BY <1>2, Configs
<1>4. /\ cfg.months # {} => Min(cfg.months) \in cfg.months /\ \A n \in cfg.months : Min(cfg.months) <= n
      /\ later # {} => Min(later) \in later /\ \A n \in later : Min(later) <= n
  <2>1. \A S \in SUBSET (1..12) : S # {} => Min(S) \in S /\ \A n \in S : Min(S) <= n
    BY MinIsLeast
  <2>2. cfg.months \in SUBSET (1..12) /\ later \in SUBSET (1..12)
    BY <1>3
  <2> HIDE DEF later
  <2> QED BY <2>1, <2>2
<1>5. \A a \in Nat, n \in 1..12 : /\ (((a * 12) + (n - 1)) % 12) + 1 = n
                                  /\ ((a * 12) + (n - 1)) \div 12 = a
  OBVIOUS
<1>6. \A l \in Nat : (l % 12) + 1 \in 1..12 /\ l \div 12 \in Nat
                       /\ l = (12 * (l \div 12)) + (((l % 12) + 1) - 1)
  OBVIOUS
<1> HIDE DEF h, m, y
<1>7. CASE cfg.months = {}
  <2>1. k = IF DateToCome(cfg, now) THEN h ELSE h + 1
    BY <1>1, <1>2, <1>3, <1>7 DEF DateMonth, DatNextMonth, DateToCome
  <2> HIDE DEF k
  <2>2. DateNames(cfg, k) /\ DateComes(cfg, now, k)
    BY <1>1, <1>7, <2>1 DEF DateNames, DateComes, h
  <2>3. \A l \in Nat : DateComes(cfg, now, l) => k <= l
    BY <1>1, <2>1 DEF DateComes, h
  <2>4. k \in Nat /\ k < 12 * (DatYears + 3)
    BY <1>1, <1>2, <2>1
  <2> QED BY <2>2, <2>3, <2>4 DEF k
<1>8. CASE cfg.months # {} /\ cfg.year > y
  <2>1. k = (cfg.year * 12) + (Min(cfg.months) - 1)
    BY <1>1, <1>2, <1>3, <1>4, <1>8 DEF DateMonth, DatNextMonth
  <2> HIDE DEF k
  <2>2. Min(cfg.months) \in 1..12
    BY <1>3, <1>4, <1>8
  <2>3. (k % 12) + 1 = Min(cfg.months) /\ k \div 12 = cfg.year /\ k \in Nat
    <3>1. \A n \in 1..12 : k = (cfg.year * 12) + (n - 1) =>
              (k % 12) + 1 = n /\ k \div 12 = cfg.year /\ k \in Nat
      BY <1>3, <1>5
    <3> QED BY <2>1, <2>2, <3>1
  <2>4. DateNames(cfg, k)
    BY <1>3, <1>4, <1>8, <2>3 DEF DateNames
  <2>5. k > h /\ k < 12 * (DatYears + 3)
    BY <1>2, <1>3, <1>8, <2>1, <2>2
  <2>6. ASSUME NEW l \in Nat, DateNames(cfg, l)
        PROVE  k <= l
    <3>1. (l % 12) + 1 \in cfg.months /\ l \div 12 >= cfg.year
      BY <1>3, <1>6, <1>8, <2>6 DEF DateNames
    <3>2. Min(cfg.months) <= (l % 12) + 1
      BY <1>4, <1>8, <3>1
    <3> QED BY <1>3, <1>6, <2>1, <2>2, <3>1, <3>2
  <2> QED BY <2>3, <2>4, <2>5, <2>6 DEF DateComes, h, k
<1>9. CASE cfg.months # {} /\ cfg.year <= y /\ ~cfg.yearly /\ cfg.year # y
  <2>1. k \in Nat /\ k < 12 * (DatYears + 3)
    <3>1. DatNextMonth(cfg, now) \in 0..12
      BY <1>1, <1>2, <1>3, <1>4, <1>9 DEF DatNextMonth
    <3> QED BY <1>1, <1>2, <1>3, <1>9, <3>1 DEF DateMonth
  <2>2. ASSUME NEW l \in Nat, DateNames(cfg, l), DateComes(cfg, now, l)
        PROVE  FALSE
    <3>1. l \div 12 = cfg.year
      BY <1>9, <2>2 DEF DateNames
    <3>2. l >= h
      BY <1>1, <2>2 DEF DateComes, h
    <3> QED BY <1>2, <1>3, <1>6, <1>9, <3>1, <3>2
  <2> QED BY <1>9, <2>1, <2>2
<1>10. CASE /\ cfg.months # {} /\ cfg.year <= y /\ (cfg.yearly \/ cfg.year = y)
            /\ m \in cfg.months /\ DateToCome(cfg, now)
  <2>1. k = h
    BY <1>1, <1>2, <1>3, <1>10 DEF DateMonth, DatNextMonth, DateToCome
  <2>2. DateNames(cfg, h)
    BY <1>2, <1>3, <1>10 DEF DateNames, m, y
  <2>3. \A l \in Nat : DateComes(cfg, now, l) => h <= l
    BY <1>1 DEF DateComes, h
  <2>4. DateComes(cfg, now, h)
    BY <1>10 DEF DateComes, h
  <2>5. h < 12 * (DatYears + 3)
    BY <1>2
  <2> QED BY <1>1, <2>1, <2>2, <2>3, <2>4, <2>5
<1>11. CASE /\ cfg.months # {} /\ cfg.year <= y /\ (cfg.yearly \/ cfg.year = y)
            /\ ~(m \in cfg.months /\ DateToCome(cfg, now)) /\ later # {}
  <2>1. k = (y * 12) + (Min(later) - 1)
    BY <1>1, <1>2, <1>3, <1>4, <1>11 DEF DateMonth, DatNextMonth, DateToCome
  <2> HIDE DEF k
  <2>2. Min(later) \in cfg.months /\ Min(later) \in 1..12 /\ Min(later) > m
    BY <1>3, <1>4, <1>11
  <2>3. (k % 12) + 1 = Min(later) /\ k \div 12 = y /\ k \in Nat
    <3>1. PICK a \in Nat : a = y
      BY <1>2
    <3>2. PICK n \in 1..12 : n = Min(later)
      BY <2>2
    <3>3. k = (a * 12) + (n - 1)
      BY <2>1, <3>1, <3>2
    <3>4. (((a * 12) + (n - 1)) % 12) + 1 = n /\ ((a * 12) + (n - 1)) \div 12 = a
      BY <1>5
    <3>5. k \in Nat
      BY <3>3
    <3> QED BY <3>1, <3>2, <3>3, <3>4, <3>5
  <2>4. DateNames(cfg, k)
    BY <1>2, <1>3, <1>11, <2>2, <2>3 DEF DateNames
  <2>5. k > h /\ k < 12 * (DatYears + 3)
    BY <1>2, <2>1, <2>2
  <2>6. ASSUME NEW l \in Nat, DateNames(cfg, l), DateComes(cfg, now, l)
        PROVE  k <= l
    <3>1. (l % 12) + 1 \in cfg.months
      BY <1>11, <2>6 DEF DateNames
    <3>2. l >= h /\ (l = h => DateToCome(cfg, now))
      BY <1>1, <2>6 DEF DateComes, h
    <3>3. l # h
      BY <1>11, <3>1, <3>2 DEF m
    <3>4. CASE l \div 12 > y
      BY <1>2, <1>6, <2>1, <2>2, <3>4
    <3>5. CASE l \div 12 = y
      <4>1. (l % 12) + 1 > m
        BY <1>1, <1>2, <1>6, <3>2, <3>3, <3>5
      <4>2. Min(later) <= (l % 12) + 1
        BY <1>4, <1>11, <3>1, <4>1
      <4> QED BY <1>2, <1>6, <2>1, <2>2, <3>5, <4>2
    <3>6. l \div 12 >= y
      BY <1>1, <1>2, <1>6, <3>2
    <3> QED BY <1>2, <1>6, <3>4, <3>5, <3>6
  <2> QED BY <2>3, <2>4, <2>5, <2>6 DEF DateComes, h, k
<1>12. CASE /\ cfg.months # {} /\ cfg.year <= y /\ ~cfg.yearly /\ cfg.year = y
            /\ ~(m \in cfg.months /\ DateToCome(cfg, now)) /\ later = {}
  <2>1. k = (y * 12) + m
    BY <1>1, <1>2, <1>3, <1>12 DEF DateMonth, DatNextMonth, DateToCome
  <2> HIDE DEF k
  <2>2. k \in Nat /\ k < 12 * (DatYears + 3)
    BY <1>2, <2>1
  <2>3. ASSUME NEW l \in Nat, DateNames(cfg, l), DateComes(cfg, now, l)
        PROVE  FALSE
    <3>1. (l % 12) + 1 \in cfg.months /\ l \div 12 = y
      BY <1>12, <2>3 DEF DateNames
    <3>2. l >= h /\ (l = h => DateToCome(cfg, now))
      BY <1>1, <2>3 DEF DateComes, h
    <3>3. l # h
      BY <1>12, <3>1, <3>2 DEF m
    <3>4. (l % 12) + 1 > m
      BY <1>1, <1>2, <1>6, <3>1, <3>2, <3>3
    <3> QED BY <1>12, <3>1, <3>4
  <2> QED BY <1>12, <2>2, <2>3 DEF k
<1>13. CASE /\ cfg.months # {} /\ cfg.year <= y /\ cfg.yearly
            /\ ~(m \in cfg.months /\ DateToCome(cfg, now)) /\ later = {}
  <2>1. k = ((y + 1) * 12) + (Min(cfg.months) - 1)
    BY <1>1, <1>2, <1>3, <1>4, <1>13 DEF DateMonth, DatNextMonth, DateToCome, DatCarried
  <2> HIDE DEF k
  <2>2. Min(cfg.months) \in cfg.months /\ Min(cfg.months) \in 1..12
    BY <1>3, <1>4, <1>13
  <2>3. (k % 12) + 1 = Min(cfg.months) /\ k \div 12 = y + 1 /\ k \in Nat
    <3>1. PICK a \in Nat : a = y + 1
      BY <1>2
    <3>2. PICK n \in 1..12 : n = Min(cfg.months)
      BY <2>2
    <3>3. k = (a * 12) + (n - 1)
      BY <2>1, <3>1, <3>2
    <3>4. (((a * 12) + (n - 1)) % 12) + 1 = n /\ ((a * 12) + (n - 1)) \div 12 = a
      BY <1>5
    <3>5. k \in Nat
      BY <3>3
    <3> QED BY <3>1, <3>2, <3>3, <3>4, <3>5
  <2>4. DateNames(cfg, k)
    BY <1>2, <1>3, <1>13, <2>2, <2>3 DEF DateNames
  <2>5. k > h /\ k < 12 * (DatYears + 3)
    BY <1>2, <2>1, <2>2
  <2>6. ASSUME NEW l \in Nat, DateNames(cfg, l), DateComes(cfg, now, l)
        PROVE  k <= l
    <3>1. (l % 12) + 1 \in cfg.months
      BY <1>13, <2>6 DEF DateNames
    <3>2. l >= h /\ (l = h => DateToCome(cfg, now))
      BY <1>1, <2>6 DEF DateComes, h
    <3>3. l # h
      BY <1>13, <3>1, <3>2 DEF m
    <3>4. ~((l % 12) + 1 > m)
      BY <1>13, <3>1
    <3>5. l \div 12 > y
      BY <1>1, <1>2, <1>6, <3>2, <3>3, <3>4
    <3>6. Min(cfg.months) <= (l % 12) + 1
      BY <1>4, <1>13, <3>1
    <3> QED BY <1>2, <1>6, <2>1, <2>2, <3>5, <3>6
  <2> QED BY <2>3, <2>4, <2>5, <2>6 DEF DateComes, h, k
<1>14. cfg.year > y \/ cfg.year <= y
  BY <1>2, <1>3
<1> QED BY <1>3, <1>7, <1>8, <1>9, <1>10, <1>11, <1>12, <1>13, <1>14

-----------------------------------------------------------------------------
(* Of a weekly schedule: the days before an instant; a day it names; a day *)
(* whose instant is to come.                                               *)
DaysOf(t) == t \div DatSlots
NamesDay(cfg, w) == cfg.days = {} \/ w % 7 \in cfg.days
ComesDay(cfg, now, w) == w > DaysOf(now) \/ (w = DaysOf(now) /\ cfg.slot > DatSlot(now))

(* The number of days esp_schedule takes leads to the first day to come of *)
(* those the schedule names.                                               *)
LEMMA FirstDay ==
    ASSUME NEW cfg \in DatConfigs, cfg.kind = "week", NEW now \in Nat
    PROVE  LET n == DatNoOfDays(cfg, now)
           IN  /\ n \in 0..7
               /\ NamesDay(cfg, DaysOf(now) + n) /\ ComesDay(cfg, now, DaysOf(now) + n)
               /\ \A w \in Nat : NamesDay(cfg, w) /\ ComesDay(cfg, now, w) => DaysOf(now) + n <= w
<1> DEFINE n == DatNoOfDays(cfg, now)
           h == DaysOf(now)
           d == h % 7
           later == {x \in cfg.days : x > d}
<1>1. h \in Nat /\ d \in 0..6 /\ DatWeekday(now) = d
  <2>1. DatSlots \in Nat \ {0}
    BY DatAssumption
  <2>2. h \in Nat
    BY <2>1, Divided DEF DaysOf
  <2> HIDE DEF h
  <2>3. d \in 0..6
    BY <2>2, Divided
  <2>4. DatWeekday(now) = d
    BY DEF DatWeekday, DaysOf, h
  <2> QED BY <2>2, <2>3, <2>4
<1>2. cfg.days \in SUBSET (0..6)
  BY Configs
<1>3. /\ cfg.days # {} => Min(cfg.days) \in cfg.days /\ \A x \in cfg.days : Min(cfg.days) <= x
      /\ later # {} => Min(later) \in later /\ \A x \in later : Min(later) <= x
  <2>1. \A S \in SUBSET (0..6) : S # {} => Min(S) \in S /\ \A x \in S : Min(S) <= x
    BY MinIsLeast
  <2>2. later \in SUBSET (0..6)
    BY <1>2
  <2> HIDE DEF later
  <2> QED BY <1>2, <2>1, <2>2
<1>4. \A w \in Nat : w % 7 \in 0..6
  OBVIOUS
<1>5. \A i \in 0..7 : (h + i) % 7 = IF d + i < 7 THEN d + i ELSE (d + i) - 7
  <2> HIDE DEF h
  <2>1. h \div 7 \in Nat /\ h = ((h \div 7) * 7) + d
    BY <1>1, Divided
  <2>2. \A a \in Nat, b \in 0..6 : ((a * 7) + b) % 7 = b
    BY Multiples
  <2> HIDE DEF d
  <2>3. ASSUME NEW i \in 0..7, d + i < 7
        PROVE  (h + i) % 7 = d + i
    <3>1. h + i = ((h \div 7) * 7) + (d + i) /\ d + i \in 0..6
      BY <1>1, <2>1, <2>3
    <3> QED BY <2>1, <2>2, <3>1
  <2>4. ASSUME NEW i \in 0..7, ~(d + i < 7)
        PROVE  (h + i) % 7 = (d + i) - 7
    <3>1. /\ h + i = (((h \div 7) + 1) * 7) + ((d + i) - 7)
          /\ (d + i) - 7 \in 0..6 /\ (h \div 7) + 1 \in Nat
      BY <1>1, <2>1, <2>4
    <3> QED BY <2>2, <3>1
  <2> QED BY <2>3, <2>4
<1>6. \A w \in Nat : w >= h => w >= h + 7 \/ \E i \in 0..6 : w = h + i
  <2> HIDE DEF h
  <2> SUFFICES ASSUME NEW w \in Nat, w >= h, ~(w >= h + 7)
               PROVE  \E i \in 0..6 : w = h + i
    OBVIOUS
  <2>1. w - h \in 0..6 /\ w = h + (w - h)
    BY <1>1
  <2> QED BY <2>1
<1> SUFFICES /\ n \in 0..7 /\ NamesDay(cfg, h + n) /\ ComesDay(cfg, now, h + n)
             /\ \A i \in 0..6 : NamesDay(cfg, h + i) /\ ComesDay(cfg, now, h + i) => n <= i
  <2>1. ASSUME n \in 0..7,
               \A i \in 0..6 : NamesDay(cfg, h + i) /\ ComesDay(cfg, now, h + i) => n <= i,
               NEW w \in Nat, NamesDay(cfg, w), ComesDay(cfg, now, w)
        PROVE  h + n <= w
    <3>1. w >= h
      BY <1>1, <2>1 DEF ComesDay
    <3> HIDE DEF n, h
    <3> QED BY <1>1, <1>6, <2>1, <3>1
  <2> QED BY <2>1
<1> HIDE DEF h, d
<1>7. CASE cfg.days = {}
  <2>1. n = IF cfg.slot > DatSlot(now) THEN 0 ELSE 1
    BY <1>7 DEF DatNoOfDays
  <2> HIDE DEF n
  <2> QED BY <1>1, <1>7, <2>1 DEF NamesDay, ComesDay, h
<1>8. CASE d \in cfg.days /\ cfg.slot > DatSlot(now)
  <2>1. n = 0
    BY <1>1, <1>8 DEF DatNoOfDays
  <2> HIDE DEF n
  <2> QED BY <1>1, <1>8, <2>1 DEF NamesDay, ComesDay, h, d
<1>9. CASE later # {} /\ ~(d \in cfg.days /\ cfg.slot > DatSlot(now))
  <2>1. n = Min(later) - d
    BY <1>1, <1>9 DEF DatNoOfDays
  <2> HIDE DEF n
  <2>2. Min(later) \in cfg.days /\ Min(later) \in 0..6 /\ Min(later) > d
    BY <1>2, <1>3, <1>9
  <2>3. n \in 1..6 /\ (h + n) % 7 = Min(later)
    <3>1. n \in 1..6 /\ d + n < 7 /\ d + n = Min(later)
      BY <1>1, <2>1, <2>2
    <3> QED BY <1>5, <3>1
  <2>4. ASSUME NEW i \in 0..6, NamesDay(cfg, h + i), ComesDay(cfg, now, h + i)
        PROVE  n <= i
    <3>1. (h + i) % 7 \in cfg.days
      BY <1>9, <2>4 DEF NamesDay
    <3>2. i # 0
      BY <1>1, <1>9, <2>4, <3>1 DEF ComesDay, d, h
    <3>3. CASE d + i < 7
      <4>1. (h + i) % 7 = d + i /\ d + i > d
        BY <1>1, <1>5, <3>2, <3>3
      <4>2. Min(later) <= d + i
        BY <1>3, <1>9, <3>1, <4>1
      <4> QED BY <1>1, <2>1, <2>2, <4>2
    <3> QED BY <1>1, <2>1, <2>2, <3>3
  <2> QED BY <1>1, <2>2, <2>3, <2>4 DEF NamesDay, ComesDay, h
<1>10. CASE /\ later = {} /\ cfg.days # {} /\ ~(d \in cfg.days /\ cfg.slot > DatSlot(now))
            /\ Min(cfg.days) = d
  <2>1. n = 7
    BY <1>1, <1>10 DEF DatNoOfDays
  <2> HIDE DEF n
  <2>2. (h + 7) % 7 = d
    BY <1>1, <1>5
  <2>3. ASSUME NEW i \in 0..6, NamesDay(cfg, h + i), ComesDay(cfg, now, h + i)
        PROVE  FALSE
    <3>1. (h + i) % 7 \in cfg.days
      BY <1>10, <2>3 DEF NamesDay
    <3>2. i # 0
      BY <1>1, <1>10, <2>3, <3>1 DEF ComesDay, d, h
    <3>3. ~((h + i) % 7 > d) /\ d <= (h + i) % 7
      BY <1>3, <1>10, <3>1
    <3> QED BY <1>1, <1>5, <3>2, <3>3
  <2>4. d \in cfg.days
    BY <1>3, <1>10
  <2>5. NamesDay(cfg, h + 7)
    BY <2>2, <2>4 DEF NamesDay
  <2>6. ComesDay(cfg, now, h + 7)
    BY <1>1 DEF ComesDay, h
  <2> QED BY <2>1, <2>3, <2>5, <2>6
<1>11. CASE /\ later = {} /\ cfg.days # {} /\ ~(d \in cfg.days /\ cfg.slot > DatSlot(now))
            /\ Min(cfg.days) # d
  <2>1. n = 7 - d + Min(cfg.days)
    BY <1>1, <1>11 DEF DatNoOfDays
  <2> HIDE DEF n
  <2>2. Min(cfg.days) \in cfg.days /\ Min(cfg.days) \in 0..6 /\ Min(cfg.days) < d
    <3>1. Min(cfg.days) \in cfg.days
      BY <1>3, <1>11
    <3>2. Min(cfg.days) \in 0..6 /\ ~(Min(cfg.days) > d)
      BY <1>2, <1>11, <3>1
    <3> QED BY <1>1, <1>11, <3>1, <3>2
  <2>3. n \in 1..6 /\ (h + n) % 7 = Min(cfg.days)
    <3>1. n \in 1..6 /\ ~(d + n < 7) /\ (d + n) - 7 = Min(cfg.days)
      BY <1>1, <2>1, <2>2
    <3> QED BY <1>5, <3>1
  <2>4. ASSUME NEW i \in 0..6, NamesDay(cfg, h + i), ComesDay(cfg, now, h + i)
        PROVE  n <= i
    <3>1. (h + i) % 7 \in cfg.days
      BY <1>11, <2>4 DEF NamesDay
    <3>2. i # 0
      BY <1>1, <1>11, <2>4, <3>1 DEF ComesDay, d, h
    <3>3. ~((h + i) % 7 > d) /\ Min(cfg.days) <= (h + i) % 7
      BY <1>3, <1>11, <3>1
    <3> QED BY <1>1, <1>5, <2>1, <2>2, <3>2, <3>3
  <2> QED BY <1>1, <2>2, <2>3, <2>4 DEF NamesDay, ComesDay, h
<1> QED BY <1>7, <1>8, <1>9, <1>10, <1>11

(* The instants at which a weekly schedule is due are those of the days it *)
(* names, from the clock on.                                               *)
LEMMA DueDays ==
    ASSUME NEW cfg \in DatConfigs, cfg.kind = "week", NEW now \in Nat
    PROVE  /\ \A t \in DatDue(cfg, now) :
                  /\ t = (DaysOf(t) * DatSlots) + cfg.slot /\ DaysOf(t) \in Nat
                  /\ NamesDay(cfg, DaysOf(t)) /\ ComesDay(cfg, now, DaysOf(t))
           /\ \A w \in Nat : NamesDay(cfg, w) /\ ComesDay(cfg, now, w)
                                 /\ (w * DatSlots) + cfg.slot < DatNever =>
                  (w * DatSlots) + cfg.slot \in DatDue(cfg, now)
<1>1. cfg.slot \in 0..DatSlots - 1 /\ DatSlots \in Nat \ {0} /\ DatNever \in Nat
  <2>1. DatYears + 3 \in Nat /\ DatYear \in Nat
    BY DatAssumption, Bounds
  <2> QED BY <2>1, Configs, DatAssumption DEF DatNever
<1>2. /\ DaysOf(now) \in Nat /\ DatSlot(now) \in 0..DatSlots - 1
      /\ now = (DaysOf(now) * DatSlots) + DatSlot(now)
  BY <1>1, Divided DEF DaysOf, DatSlot
<1>3. ASSUME NEW w \in Nat
      PROVE  now < (w * DatSlots) + cfg.slot <=> ComesDay(cfg, now, w)
  <2>1. now < (w * DatSlots) + cfg.slot <=>
            DaysOf(now) < w \/ (DaysOf(now) = w /\ DatSlot(now) < cfg.slot)
    <3>1. \A a, b \in Nat, r, s \in 0..DatSlots - 1 :
              (a * DatSlots) + r < (b * DatSlots) + s <=> a < b \/ (a = b /\ r < s)
      BY <1>1, Greater
    <3>2. (DaysOf(now) * DatSlots) + DatSlot(now) < (w * DatSlots) + cfg.slot <=>
              DaysOf(now) < w \/ (DaysOf(now) = w /\ DatSlot(now) < cfg.slot)
      BY <1>1, <1>2, <3>1
    <3> QED BY <1>2, <3>2
  <2>2. /\ DaysOf(now) < w <=> w > DaysOf(now)
        /\ DatSlot(now) < cfg.slot <=> cfg.slot > DatSlot(now)
    BY <1>1, <1>2
  <2> QED BY <2>1, <2>2 DEF ComesDay
<1>4. ASSUME NEW t \in DatDue(cfg, now)
      PROVE  /\ t = (DaysOf(t) * DatSlots) + cfg.slot /\ DaysOf(t) \in Nat
             /\ NamesDay(cfg, DaysOf(t)) /\ ComesDay(cfg, now, DaysOf(t))
  <2>1. t \in Nat /\ now < t
    BY <1>1, <1>4 DEF DatDue
  <2>2. DatMatches(cfg, t)
    BY <1>4 DEF DatDue
  <2>3. DatSlot(t) = cfg.slot /\ NamesDay(cfg, DaysOf(t))
    BY <2>2 DEF DatMatches, NamesDay, DatWeekday, DaysOf
  <2>4. DaysOf(t) \in Nat /\ t = (DaysOf(t) * DatSlots) + cfg.slot
    BY <1>1, <2>1, <2>3, Divided DEF DaysOf, DatSlot
  <2> QED BY <1>3, <2>1, <2>3, <2>4
<1>5. ASSUME NEW w \in Nat, NamesDay(cfg, w), ComesDay(cfg, now, w),
             (w * DatSlots) + cfg.slot < DatNever
      PROVE  (w * DatSlots) + cfg.slot \in DatDue(cfg, now)
  <2> DEFINE t == (w * DatSlots) + cfg.slot
  <2>1. t \in Nat /\ DaysOf(t) = w /\ DatSlot(t) = cfg.slot
    BY <1>1, Multiples DEF DaysOf, DatSlot
  <2>2. now < t /\ t < DatNever
    BY <1>3, <1>5
  <2> HIDE DEF t
  <2>3. DatMatches(cfg, t)
    BY <1>5, <2>1 DEF DatMatches, NamesDay, DatWeekday, DaysOf
  <2>4. t \in now + 1..DatNever - 1
    BY <1>1, <2>1, <2>2
  <2>5. t \in DatDue(cfg, now)
    BY <2>3, <2>4 DEF DatDue
  <2> QED BY <2>5 DEF t
<1> QED BY <1>4, <1>5

-----------------------------------------------------------------------------
(* The instant esp_schedule computes, weekly or by date, is the earliest   *)
(* the schedule names, unless it names none any more.                      *)
LEMMA NextOfWeek ==
    ASSUME NEW cfg \in DatConfigs, cfg.kind = "week",
           NEW now \in Nat, now < DatYears * DatYear
    PROVE  /\ DatNext(cfg, now) \in Nat
           /\ DatNext(cfg, now) = Min(DatDue(cfg, now))
<1> DEFINE n == DatNoOfDays(cfg, now)
           h == DaysOf(now)
           t == ((h + n) * DatSlots) + cfg.slot
<1>1. cfg.slot \in 0..DatSlots - 1 /\ DatSlots \in Nat \ {0} /\ DatDays \in Nat \ {0}
  BY Configs, DatAssumption
<1>2. /\ h \in Nat /\ DatSlot(now) \in 0..DatSlots - 1
      /\ now = (h * DatSlots) + DatSlot(now)
  BY <1>1, Divided DEF DaysOf, DatSlot
<1>3. /\ n \in 0..7 /\ NamesDay(cfg, h + n) /\ ComesDay(cfg, now, h + n)
      /\ \A w \in Nat : NamesDay(cfg, w) /\ ComesDay(cfg, now, w) => h + n <= w
  BY FirstDay
<1> HIDE DEF n, h
<1>4. DatNext(cfg, now) = t
  <2>1. /\ MonthsOf(now) \in Nat /\ DatDay(now) \in 1..DatDays
        /\ DatMonth(now) = (MonthsOf(now) % 12) + 1 /\ DatYearOf(now) = MonthsOf(now) \div 12
    BY Fields
  <2>2. (DatYearOf(now) * 12) + (DatMonth(now) - 1) = MonthsOf(now)
    BY <2>1
  <2>3. h = (MonthsOf(now) * DatDays) + (DatDay(now) - 1)
    <3>1. /\ h % DatDays \in 0..DatDays - 1
          /\ h = ((h \div DatDays) * DatDays) + (h % DatDays)
      BY <1>1, <1>2, Divided
    <3>2. h \div DatDays = MonthsOf(now)
      BY <1>1, Nested DEF MonthsOf, h, DaysOf
    <3>3. DatDay(now) - 1 = h % DatDays
      <4>1. DatDay(now) = (h % DatDays) + 1
        BY DEF DatDay, h, DaysOf
      <4> QED BY <1>1, <3>1, <4>1
    <3> QED BY <3>1, <3>2, <3>3
  <2>4. DatMake(DatYearOf(now), DatMonth(now), DatDay(now), cfg.slot) = (h * DatSlots) + cfg.slot
    <3>1. DatYearOf(now) \in Nat /\ DatMonth(now) \in Nat
      BY <2>1
    <3>2. DatYearOf(now) * 12 + DatMonth(now) - 1 = MonthsOf(now)
      BY <2>2, <3>1
    <3>3. MonthsOf(now) * DatDays + DatDay(now) - 1 = h
      BY <1>1, <2>1, <2>3
    <3> QED BY <3>2, <3>3 DEF DatMake
  <2>5. DatNext(cfg, now) = ((h * DatSlots) + cfg.slot) + (n * DatSlots)
    BY <2>4 DEF DatNext, n
  <2> QED BY <1>1, <1>2, <1>3, <2>5
<1>5. t \in Nat /\ t < DatNever
  <2>1. h * DatSlots <= now
    BY <1>1, <1>2
  <2>2. t = (h * DatSlots) + ((n * DatSlots) + cfg.slot) /\ h * DatSlots \in Nat
    BY <1>1, <1>2, <1>3
  <2>3. n * DatSlots <= 7 * DatSlots /\ n * DatSlots \in Nat
    BY <1>1, <1>3
  <2>4. 12 * DatSlots <= DatYear
    <3>1. DatYear = (12 * DatSlots) * DatDays
      BY <1>1 DEF DatYear
    <3>2. (12 * DatSlots) * 1 <= (12 * DatSlots) * DatDays
      BY <1>1
    <3> QED BY <1>1, <3>1, <3>2
  <2>5. DatNever = (DatYears * DatYear) + (3 * DatYear) /\ DatYears * DatYear \in Nat
    <3>1. DatYears \in Nat /\ DatYear \in Nat
      BY DatAssumption, Bounds
    <3> QED BY <3>1 DEF DatNever
  <2>6. DatYear \in Nat
    BY Bounds
  <2> HIDE DEF t
  <2> QED BY <1>1, <2>1, <2>2, <2>3, <2>4, <2>5, <2>6
<1>6. t \in DatDue(cfg, now)
  BY <1>2, <1>3, <1>5, DueDays
<1>7. ASSUME NEW u \in DatDue(cfg, now)
      PROVE  t <= u
  <2>1. /\ u = (DaysOf(u) * DatSlots) + cfg.slot /\ DaysOf(u) \in Nat
        /\ NamesDay(cfg, DaysOf(u)) /\ ComesDay(cfg, now, DaysOf(u))
    BY <1>7, DueDays
  <2>2. ~(DaysOf(u) < h + n)
    BY <1>2, <1>3, <2>1
  <2>3. u < t <=> DaysOf(u) < h + n \/ (DaysOf(u) = h + n /\ cfg.slot < cfg.slot)
    BY <1>1, <1>2, <1>3, <2>1, Greater
  <2>4. u \in Nat
    BY <1>1, <2>1
  <2> HIDE DEF t
  <2> QED BY <1>1, <1>5, <2>2, <2>3, <2>4
<1>8. DatDue(cfg, now) \in SUBSET Nat
  <2>1. DatNever \in Nat
    BY DatAssumption, Bounds DEF DatNever
  <2> QED BY <2>1 DEF DatDue
<1>9. Min(DatDue(cfg, now)) = t
  <2> HIDE DEF t
  <2> QED BY <1>6, <1>7, <1>8, Least
<1> QED BY <1>4, <1>5, <1>9

LEMMA NextOfDate ==
    ASSUME NEW cfg \in DatConfigs, cfg.kind = "date",
           NEW now \in Nat, now < DatYears * DatYear
    PROVE  /\ DatNext(cfg, now) \in Nat
           /\ ~DatLast(cfg, now) => DatNext(cfg, now) = Min(DatDue(cfg, now))
<1> DEFINE k == DateMonth(cfg, now)
           t == At(k, cfg.day, cfg.slot)
<1>1. cfg.day \in 1..DatDays /\ cfg.slot \in 0..DatSlots - 1
  BY Configs
<1>2. MonthsOf(now) < 12 * DatYears
  <2>1. DatYears \in Nat
    BY DatAssumption
  <2> QED BY <2>1, Fields, Bounds
<1>3. /\ k \in Nat /\ k < 12 * (DatYears + 3)
      /\ \/ /\ DateNames(cfg, k) /\ DateComes(cfg, now, k)
            /\ \A l \in Nat : DateNames(cfg, l) /\ DateComes(cfg, now, l) => k <= l
         \/ /\ cfg.months # {} /\ ~cfg.yearly
            /\ \A l \in Nat : ~(DateNames(cfg, l) /\ DateComes(cfg, now, l))
  BY <1>2, FirstMonth
<1>4. DatNext(cfg, now) = t
  <2> DEFINE found == DatNextMonth(cfg, now)
             month == IF found = 0 THEN DatMonth(now) + 1 ELSE found
             year  == IF cfg.year > DatYearOf(now) THEN cfg.year ELSE DatYearOf(now)
  <2>1. k = (year * 12) + (month - 1)
    BY DEF DateMonth
  <2>2. DatNext(cfg, now) = DatMake(year, month, cfg.day, cfg.slot)
    BY DEF DatNext
  <2> HIDE DEF found, month, year, k
  <2> QED BY <2>1, <2>2 DEF DatMake, At
<1> HIDE DEF k
<1>5. t \in Nat
  BY <1>1, <1>3, AtFields
<1>6. ASSUME ~DatLast(cfg, now)
      PROVE  Min(DatDue(cfg, now)) = t
  <2>1. /\ \A u \in DatDue(cfg, now) : \E l \in Nat : u = At(l, cfg.day, cfg.slot)
        /\ \A l \in Nat : At(l, cfg.day, cfg.slot) \in DatDue(cfg, now) <=>
               DateNames(cfg, l) /\ DateComes(cfg, now, l) /\ l < 12 * (DatYears + 3)
    BY DueDates
  <2>2. ~(cfg.months # {} /\ ~cfg.yearly
              /\ \A l \in Nat : ~(DateNames(cfg, l) /\ DateComes(cfg, now, l)))
    BY <1>6, <2>1 DEF DatLast
  <2>3. /\ DateNames(cfg, k) /\ DateComes(cfg, now, k)
        /\ \A l \in Nat : DateNames(cfg, l) /\ DateComes(cfg, now, l) => k <= l
    BY <1>3, <2>2
  <2>4. t \in DatDue(cfg, now)
    BY <1>3, <2>1, <2>3
  <2>5. ASSUME NEW u \in DatDue(cfg, now)
        PROVE  t <= u
    <3>1. PICK l \in Nat : u = At(l, cfg.day, cfg.slot)
      BY <2>1, <2>5
    <3>2. k <= l
      BY <2>1, <2>3, <2>5, <3>1
    <3>3. u < t <=> l < k \/ (l = k /\ (cfg.day < cfg.day \/ (cfg.day = cfg.day
                                              /\ cfg.slot < cfg.slot)))
      BY <1>1, <1>3, <3>1, AtOrder
    <3>4. u \in Nat
      BY <1>1, <3>1, AtFields
    <3> HIDE DEF t
    <3> QED BY <1>1, <1>3, <1>5, <3>2, <3>3, <3>4
  <2>6. DatDue(cfg, now) \in SUBSET Nat
    <3>1. DatNever \in Nat
      BY DatAssumption, Bounds DEF DatNever
    <3> QED BY <3>1 DEF DatDue
  <2> HIDE DEF t
  <2> QED BY <2>4, <2>5, <2>6, Least
<1> QED BY <1>4, <1>5, <1>6

-----------------------------------------------------------------------------
(* The timer is off, or set for what esp_schedule computes at the clock.   *)
DatInv ==
    /\ datCfg \in DatConfigs
    /\ datNow \in Nat /\ datNow < DatYears * DatYear
    /\ datTarget \in {DatNever, DatNext(datCfg, datNow)}

(* For every length of day, month and calendar, and every set of days,     *)
(* months and years, the timer is set for the earliest instant its         *)
(* schedule names (esp_schedule.c:29-153,222,302).                         *)
THEOREM NextIsEarliest == DatSpec => []DatNextIsEarliest
<1>1. DatInit => DatInv
  <2> SUFFICES ASSUME DatInit PROVE DatInv
    OBVIOUS
  <2>1. DatYear \in Nat \ {0} /\ DatYears \in Nat \ {0}
    BY Bounds, DatAssumption
  <2>2. DatYear <= DatYears * DatYear
    <3>1. 1 * DatYear <= DatYears * DatYear
      BY <2>1
    <3> QED BY <2>1, <3>1
  <2>3. datNow \in Nat /\ datNow < DatYear
    BY <2>1 DEF DatInit
  <2>4. DatYears * DatYear \in Nat
    BY <2>1
  <2>5. datNow < DatYears * DatYear
    BY <2>1, <2>2, <2>3, <2>4
  <2> QED BY <2>3, <2>5 DEF DatInit, DatInv
<1>2. DatInv /\ [DatNextStep]_datVars => DatInv'
  <2> SUFFICES ASSUME DatInv, DatFire \/ UNCHANGED datVars PROVE DatInv'
    BY DEF DatNextStep
  <2>1. CASE DatFire
    <3>1. /\ datCfg' = datCfg /\ datNow' = datTarget /\ datTarget < DatYears * DatYear
          /\ datTarget' \in {DatNever, DatNext(datCfg, datTarget)}
      BY <2>1 DEF DatFire
    <3>2. datTarget \in Nat
      <4>1. DatNever \in Nat
        <5>1. DatYears \in Nat /\ DatYear \in Nat
          BY DatAssumption, Bounds
        <5> QED BY <5>1 DEF DatNever
      <4>2. DatNext(datCfg, datNow) \in Nat
        BY NextOfWeek, NextOfDate, Configs DEF DatInv
      <4> QED BY <4>1, <4>2 DEF DatInv
    <3> QED BY <3>1, <3>2 DEF DatInv
  <2>2. CASE UNCHANGED datVars
    BY <2>2 DEF DatInv, datVars
  <2> QED BY <2>1, <2>2
<1>3. DatInv => DatNextIsEarliest
  <2> SUFFICES ASSUME DatInv, datTarget # DatNever, ~DatLast(datCfg, datNow)
               PROVE  datTarget = Min(DatDue(datCfg, datNow))
    BY DEF DatNextIsEarliest
  <2> QED BY NextOfWeek, NextOfDate, Configs DEF DatInv
<1> QED BY <1>1, <1>2, <1>3, PTL DEF DatSpec

-----------------------------------------------------------------------------
(* AppWifi: its types; the events are among those the handler knows.       *)
WifiTypesMore ==
    /\ WifiTypeOK
    /\ wifiEvents \in Seq({"sta_start", "disconnected", "cred_fail", "cred_success", "end", "got_ip"})

LEMMA WifiTypesBegin == WifiInit => WifiTypesMore
<1> SUFFICES ASSUME WifiInit PROVE WifiTypesMore
  OBVIOUS
<1>1. /\ wifiEvents \in Seq({"sta_start", "disconnected", "cred_fail", "cred_success", "end", "got_ip"})
      /\ Len(wifiEvents) = 0
  BY EmptySeq DEF WifiInit
<1>2. wifiRetries \in 0..WifiMaxRetries - 1 /\ Len(wifiEvents) <= WifiMaxEvents
  BY <1>1, WifiAssumption DEF WifiInit
<1> QED BY <1>1, <1>2 DEF WifiInit, WifiTypeOK, WifiTypesMore

(* The queue after a post, and after an event was handled.                 *)
LEMMA WifiPosted ==
    ASSUME WifiTypesMore,
           NEW q \in Seq({"sta_start", "disconnected", "cred_fail", "cred_success", "end", "got_ip"}),
           WifiPost(q)
    PROVE  /\ wifiEvents' \in Seq({"sta_start", "disconnected", "cred_fail", "cred_success", "end", "got_ip"})
           /\ Len(wifiEvents') <= WifiMaxEvents
BY ConcatProperties DEF WifiPost, WifiTypesMore

LEMMA WifiHandled ==
    ASSUME WifiTypesMore, NEW event, WifiHandle(event)
    PROVE  /\ wifiEvents' \in Seq({"sta_start", "disconnected", "cred_fail", "cred_success", "end", "got_ip"})
           /\ Len(wifiEvents') <= WifiMaxEvents
<1>1. Len(wifiEvents) <= WifiMaxEvents /\ WifiMaxEvents \in Nat
  BY WifiAssumption DEF WifiTypesMore, WifiTypeOK
<1>2. /\ Tail(wifiEvents) \in Seq({"sta_start", "disconnected", "cred_fail", "cred_success", "end", "got_ip"})
      /\ Len(Tail(wifiEvents)) = Len(wifiEvents) - 1 /\ Len(wifiEvents) \in Nat
  BY HeadTailProperties DEF WifiHandle, WifiTypesMore
<1> QED BY <1>1, <1>2 DEF WifiHandle

LEMMA WifiTypesStep == WifiTypesMore /\ [WifiNext]_wifiVars => WifiTypesMore'
<1> DEFINE E == {"sta_start", "disconnected", "cred_fail", "cred_success", "end", "got_ip"}
<1> SUFFICES ASSUME WifiTypesMore, WifiNext \/ UNCHANGED wifiVars PROVE WifiTypesMore'
  OBVIOUS
<1>1. /\ wifiMain \in {"init", "timer", "wait", "done"} /\ wifiCreds \in {"none", "good", "bad"}
      /\ wifiMgr \in {"off", "on", "connecting", "success", "ended"}
      /\ wifiSta \in {"off", "idle", "trying", "up"}
      /\ Len(wifiEvents) <= WifiMaxEvents /\ wifiRetries \in 0..WifiMaxRetries - 1
      /\ wifiTimer \in {"none", "armed", "over"} /\ wifiBit \in BOOLEAN /\ wifiTimedOut \in BOOLEAN
      /\ wifiEvents \in Seq(E)
  BY DEF WifiTypesMore, WifiTypeOK
<1>2. SUFFICES
      /\ wifiMain' \in {"init", "timer", "wait", "done"} /\ wifiCreds' \in {"none", "good", "bad"}
      /\ wifiMgr' \in {"off", "on", "connecting", "success", "ended"}
      /\ wifiSta' \in {"off", "idle", "trying", "up"}
      /\ Len(wifiEvents') <= WifiMaxEvents /\ wifiRetries' \in 0..WifiMaxRetries - 1
      /\ wifiTimer' \in {"none", "armed", "over"} /\ wifiBit' \in BOOLEAN /\ wifiTimedOut' \in BOOLEAN
      /\ wifiEvents' \in Seq(E)
  BY DEF WifiTypesMore, WifiTypeOK
<1>3. /\ <<"sta_start">> \in Seq(E) /\ <<"end">> \in Seq(E) /\ <<"got_ip">> \in Seq(E)
      /\ <<"disconnected">> \in Seq(E)
      /\ <<"got_ip", "cred_success">> \in Seq(E) /\ <<"disconnected", "cred_fail">> \in Seq(E)
  OBVIOUS
<1>4. ASSUME NEW q \in Seq(E), WifiPost(q)
      PROVE  wifiEvents' \in Seq(E) /\ Len(wifiEvents') <= WifiMaxEvents
  BY <1>4, WifiPosted
<1>5. ASSUME NEW e, WifiHandle(e)
      PROVE  wifiEvents' \in Seq(E) /\ Len(wifiEvents') <= WifiMaxEvents
  BY <1>5, WifiHandled
<1>6. 0 \in 0..WifiMaxRetries - 1
  BY WifiAssumption
<1> HIDE DEF E
<1>7. CASE WifiStart \/ WifiTimeout
  <2>1. wifiEvents' \in Seq(E) /\ Len(wifiEvents') <= WifiMaxEvents
    BY <1>1, <1>3, <1>4, <1>7 DEF WifiStart, WifiTimeout
  <2> QED BY <1>1, <1>7, <2>1 DEF WifiStart, WifiTimeout
<1>8. CASE WifiStartTimer \/ WifiGoOn \/ WifiPhone \/ UNCHANGED wifiVars
  BY <1>1, <1>8 DEF WifiStartTimer, WifiGoOn, WifiPhone, wifiVars
<1>9. CASE WifiCredFail
  <2>1. wifiRetries' \in 0..WifiMaxRetries - 1
    BY <1>1, <1>6, <1>9, WifiAssumption DEF WifiCredFail, WifiCounted
  <2>2. wifiEvents' \in Seq(E) /\ Len(wifiEvents') <= WifiMaxEvents
    BY <1>5, <1>9 DEF WifiCredFail
  <2> QED BY <1>1, <1>9, <2>1, <2>2 DEF WifiCredFail, WifiHandle
<1>10. CASE WifiConnect \/ WifiCredSuccess \/ WifiEnd \/ WifiGotIp
  <2>1. wifiEvents' \in Seq(E) /\ Len(wifiEvents') <= WifiMaxEvents
    BY <1>5, <1>10 DEF WifiConnect, WifiCredSuccess, WifiEnd, WifiGotIp
  <2> QED BY <1>1, <1>6, <1>10, <2>1
          DEF WifiConnect, WifiCredSuccess, WifiEnd, WifiGotIp, WifiHandle
<1>11. CASE WifiJoins \/ WifiLost \/ WifiMgrEnds
  <2>1. wifiEvents' \in Seq(E) /\ Len(wifiEvents') <= WifiMaxEvents
    BY <1>3, <1>4, <1>11 DEF WifiJoins, WifiLost, WifiMgrEnds
  <2> QED BY <1>1, <1>11, <2>1 DEF WifiJoins, WifiLost, WifiMgrEnds
<1> QED BY <1>7, <1>8, <1>9, <1>10, <1>11 DEF WifiNext, WifiMainTask, WifiLoop, WifiOutside

-----------------------------------------------------------------------------
(* AppWifi: what the station does is heard.  The safety half of            *)
(* WifiMainGoesOn: while app_main waits, the station has set the bit or    *)
(* the event that lets it go on is on the loop, an attempt is under way,   *)
(* or the phone is asked for credentials.                                  *)
WifiQueued(e) == \E i \in 1..Len(wifiEvents) : wifiEvents[i] = e

WifiIsHeard ==
    /\ wifiSta = "up" => wifiBit \/ WifiQueued("got_ip")
    /\ wifiSta = "idle" => WifiQueued("disconnected")
    /\ wifiMain \in {"timer", "wait"} /\ wifiSta = "off" /\ ~wifiTimedOut => wifiMgr = "on"

(* The manager ends for a station that was started, but for the time-out.  *)
WifiEndsLate ==
    /\ WifiQueued("end") /\ ~wifiTimedOut => wifiMgr \in {"ended", "off"} /\ wifiSta # "off"
    /\ wifiMgr \in {"connecting", "success", "ended"} => wifiSta # "off"
    /\ wifiMain = "init" => /\ wifiSta = "off" /\ wifiMgr = "off" /\ wifiTimer = "none"
                            /\ wifiEvents = <<>>

HeardOnLoop == WifiTypesMore /\ WifiIsHeard /\ WifiEndsLate

LEMMA WifiJoinsQueue ==
    ASSUME WifiTypesMore, NEW q, WifiPost(q),
           q \in Seq({"sta_start", "disconnected", "cred_fail", "cred_success", "end", "got_ip"})
    PROVE  \A e : WifiQueued(e)' <=> WifiQueued(e) \/ \E i \in 1..Len(q) : q[i] = e
<1>1. /\ Len(wifiEvents) \in Nat /\ Len(q) \in Nat
      /\ Len(wifiEvents') = Len(wifiEvents) + Len(q)
      /\ \A i \in 1..Len(wifiEvents) + Len(q) :
            wifiEvents'[i] = IF i <= Len(wifiEvents) THEN wifiEvents[i]
                             ELSE q[i - Len(wifiEvents)]
  BY ConcatProperties, LenProperties DEF WifiPost, WifiTypesMore
<1>2. ASSUME NEW e, NEW i \in 1..Len(wifiEvents), wifiEvents[i] = e PROVE WifiQueued(e)'
  <2>1. i \in 1..Len(wifiEvents) + Len(q) /\ i <= Len(wifiEvents)
    BY <1>1
  <2> QED BY <1>1, <1>2, <2>1 DEF WifiQueued
<1>3. ASSUME NEW e, NEW i \in 1..Len(q), q[i] = e PROVE WifiQueued(e)'
  <2>1. /\ i + Len(wifiEvents) \in 1..Len(wifiEvents) + Len(q)
        /\ ~(i + Len(wifiEvents) <= Len(wifiEvents)) /\ (i + Len(wifiEvents)) - Len(wifiEvents) = i
    BY <1>1
  <2>2. wifiEvents'[i + Len(wifiEvents)] = e
    BY <1>1, <1>3, <2>1
  <2> QED BY <1>1, <2>1, <2>2 DEF WifiQueued
<1>4. ASSUME NEW e, NEW i \in 1..Len(wifiEvents'), wifiEvents'[i] = e
      PROVE  WifiQueued(e) \/ \E j \in 1..Len(q) : q[j] = e
  <2>1. CASE i <= Len(wifiEvents)
    <3>1. i \in 1..Len(wifiEvents) /\ wifiEvents[i] = e
      BY <1>1, <1>4, <2>1
    <3> QED BY <3>1 DEF WifiQueued
  <2>2. CASE ~(i <= Len(wifiEvents))
    <3>1. i - Len(wifiEvents) \in 1..Len(q) /\ q[i - Len(wifiEvents)] = e
      BY <1>1, <1>4, <2>2
    <3> QED BY <3>1
  <2> QED BY <2>1, <2>2
<1> QED BY <1>2, <1>3, <1>4 DEF WifiQueued

LEMMA WifiLeavesQueue ==
    ASSUME WifiTypesMore, NEW h, WifiHandle(h)
    PROVE  /\ WifiQueued(h)
           /\ \A e : /\ WifiQueued(e)' => WifiQueued(e)
                     /\ WifiQueued(e) /\ e # h => WifiQueued(e)'
<1>1. /\ Len(wifiEvents) \in Nat /\ Len(wifiEvents') = Len(wifiEvents) - 1
      /\ wifiEvents[1] = h
      /\ \A i \in 1..Len(wifiEvents') : wifiEvents'[i] = wifiEvents[i + 1]
  BY HeadTailProperties, LenProperties DEF WifiHandle, WifiTypesMore
<1>2. ASSUME NEW e, NEW i \in 1..Len(wifiEvents'), wifiEvents'[i] = e PROVE WifiQueued(e)
  <2>1. i + 1 \in 1..Len(wifiEvents) /\ wifiEvents[i + 1] = e
    BY <1>1, <1>2
  <2> QED BY <2>1 DEF WifiQueued
<1>3. ASSUME NEW e, NEW i \in 1..Len(wifiEvents), wifiEvents[i] = e, e # h PROVE WifiQueued(e)'
  <2>1. i # 1
    BY <1>1, <1>3
  <2>2. i - 1 \in 1..Len(wifiEvents') /\ (i - 1) + 1 = i
    BY <1>1, <2>1
  <2>3. wifiEvents'[i - 1] = e
    BY <1>1, <1>3, <2>2
  <2> QED BY <2>2, <2>3 DEF WifiQueued
<1>4. WifiQueued(h)
  <2>1. Len(wifiEvents) # 0
    BY EmptySeq, LenProperties DEF WifiHandle, WifiTypesMore
  <2>2. 1 \in 1..Len(wifiEvents)
    BY <1>1, <2>1
  <2> QED BY <1>1, <2>2 DEF WifiQueued
<1> QED BY <1>2, <1>3, <1>4 DEF WifiQueued

LEMMA WifiHeardStep == HeardOnLoop /\ [WifiNext]_wifiVars => HeardOnLoop'
<1> SUFFICES ASSUME HeardOnLoop, WifiNext \/ UNCHANGED wifiVars PROVE HeardOnLoop'
  OBVIOUS
<1> DEFINE E == {"sta_start", "disconnected", "cred_fail", "cred_success", "end", "got_ip"}
<1>1. WifiTypesMore /\ WifiIsHeard /\ WifiEndsLate
  BY DEF HeardOnLoop
<1>2. WifiTypesMore'
  BY WifiTypesStep DEF HeardOnLoop
<1>3. ASSUME NEW e \in E, WifiPost(<<e>>)
      PROVE  \A d : WifiQueued(d)' <=> WifiQueued(d) \/ d = e
  <2>1. <<e>> \in Seq(E) /\ Len(<<e>>) = 1 /\ <<e>>[1] = e
    OBVIOUS
  <2>2. \A d : (\E i \in 1..Len(<<e>>) : <<e>>[i] = d) <=> d = e
    OBVIOUS
  <2> QED BY <1>1, <1>3, <2>1, <2>2, WifiJoinsQueue
<1>4. ASSUME NEW e \in E, NEW f \in E, WifiPost(<<e, f>>)
      PROVE  \A d : WifiQueued(d)' <=> WifiQueued(d) \/ d = e \/ d = f
  <2>1. <<e, f>> \in Seq(E)
    OBVIOUS
  <2>2. \A d : (\E i \in 1..Len(<<e, f>>) : <<e, f>>[i] = d) <=> d = e \/ d = f
    OBVIOUS
  <2> QED BY <1>1, <1>4, <2>1, <2>2, WifiJoinsQueue
<1>5. wifiEvents' = wifiEvents => \A d : WifiQueued(d)' <=> WifiQueued(d)
  BY DEF WifiQueued
<1>6. ASSUME NEW h, WifiHandle(h)
      PROVE  /\ \A e : WifiQueued(e)' => WifiQueued(e)
             /\ \A e : WifiQueued(e) /\ e # h => WifiQueued(e)'
             /\ WifiQueued(h) /\ wifiMain # "init"
             /\ wifiMain' = wifiMain /\ wifiTimedOut' = wifiTimedOut
  BY <1>1, <1>6, WifiLeavesQueue DEF WifiHandle, WifiEndsLate
<1>7. (WifiIsHeard /\ WifiEndsLate)'
  <2>1. CASE WifiStart
    <3>1. CASE wifiCreds = "none"
      <4>1. /\ wifiMain' = "timer" /\ wifiMgr' = "on" /\ wifiMain = "init"
            /\ UNCHANGED <<wifiSta, wifiEvents, wifiBit, wifiTimedOut>>
        BY <2>1, <3>1 DEF WifiStart
      <4> QED BY <1>1, <1>5, <4>1 DEF WifiIsHeard, WifiEndsLate
    <3>2. CASE wifiCreds # "none"
      <4>1. /\ wifiMain' = "wait" /\ wifiSta' = "trying" /\ wifiMain = "init"
            /\ WifiPost(<<"sta_start">>) /\ UNCHANGED <<wifiMgr, wifiBit, wifiTimedOut>>
        BY <2>1, <3>2 DEF WifiStart
      <4>2. \A d : WifiQueued(d)' <=> WifiQueued(d) \/ d = "sta_start"
        BY <1>3, <4>1
      <4> QED BY <1>1, <4>1, <4>2 DEF WifiIsHeard, WifiEndsLate
    <3> QED BY <3>1, <3>2
  <2>2. CASE WifiStartTimer \/ WifiGoOn
    <3>1. /\ wifiMain \in {"timer", "wait"} /\ wifiMain' \in {"wait", "done"}
          /\ UNCHANGED <<wifiMgr, wifiSta, wifiEvents, wifiBit, wifiTimedOut>>
      BY <2>2 DEF WifiStartTimer, WifiGoOn
    <3> QED BY <1>1, <1>5, <3>1 DEF WifiIsHeard, WifiEndsLate
  <2>3. CASE WifiTimeout
    <3>1. /\ wifiTimedOut' = TRUE /\ wifiTimer = "armed"
          /\ UNCHANGED <<wifiMain, wifiMgr, wifiSta, wifiBit>>
          /\ WifiPost(<<"end">>) \/ wifiEvents' = wifiEvents
      BY <2>3 DEF WifiTimeout
    <3>2. \A d : WifiQueued(d) => WifiQueued(d)'
      BY <1>3, <1>5, <3>1
    <3> QED BY <1>1, <3>1, <3>2 DEF WifiIsHeard, WifiEndsLate
  <2>4. CASE WifiConnect
    <3>1. PICK h \in {"sta_start", "disconnected"} : WifiHandle(h)
      BY <2>4 DEF WifiConnect
    <3>2. /\ wifiSta' = IF wifiSta = "up" THEN "up" ELSE "trying"
          /\ UNCHANGED <<wifiMgr, wifiBit>>
      BY <2>4 DEF WifiConnect
    <3> QED BY <1>1, <1>6, <3>1, <3>2 DEF WifiIsHeard, WifiEndsLate
  <2>5. CASE WifiCredFail
    <3>1. /\ WifiHandle("cred_fail") /\ UNCHANGED <<wifiSta, wifiBit>>
          /\ wifiMgr' = wifiMgr \/ (wifiMgr = "connecting" /\ wifiMgr' = "on")
      BY <2>5 DEF WifiCredFail
    <3> QED BY <1>1, <1>6, <3>1 DEF WifiIsHeard, WifiEndsLate
  <2>6. CASE WifiCredSuccess
    <3>1. WifiHandle("cred_success") /\ UNCHANGED <<wifiMgr, wifiSta, wifiBit>>
      BY <2>6 DEF WifiCredSuccess
    <3> QED BY <1>1, <1>6, <3>1 DEF WifiIsHeard, WifiEndsLate
  <2>7. CASE WifiEnd
    <3>1. WifiHandle("end") /\ wifiMgr' = "off" /\ UNCHANGED <<wifiSta, wifiBit>>
      BY <2>7 DEF WifiEnd
    <3> QED BY <1>1, <1>6, <3>1 DEF WifiIsHeard, WifiEndsLate
  <2>8. CASE WifiGotIp
    <3>1. WifiHandle("got_ip") /\ wifiBit' = TRUE /\ UNCHANGED <<wifiMgr, wifiSta>>
      BY <2>8 DEF WifiGotIp
    <3> QED BY <1>1, <1>6, <3>1 DEF WifiIsHeard, WifiEndsLate
  <2>9. CASE WifiPhone
    <3>1. /\ wifiMgr = "on" /\ wifiMgr' = "connecting" /\ wifiSta' = "trying"
          /\ UNCHANGED <<wifiMain, wifiEvents, wifiBit, wifiTimedOut>>
      BY <2>9 DEF WifiPhone
    <3> QED BY <1>1, <1>5, <3>1 DEF WifiIsHeard, WifiEndsLate
  <2>10. CASE WifiJoins
    <3>1. /\ wifiSta = "trying" /\ wifiSta' = "up" /\ UNCHANGED <<wifiMain, wifiBit, wifiTimedOut>>
          /\ \/ /\ wifiMgr = "connecting" /\ wifiMgr' = "success"
                /\ WifiPost(<<"got_ip", "cred_success">>)
             \/ WifiPost(<<"got_ip">>) /\ wifiMgr' = wifiMgr
      BY <2>10 DEF WifiJoins
    <3>2. \A d : WifiQueued(d)' <=> WifiQueued(d) \/ d = "got_ip" \/ (d = "cred_success" /\ WifiQueued(d)')
      BY <1>3, <1>4, <3>1
    <3> QED BY <1>1, <3>1, <3>2 DEF WifiIsHeard, WifiEndsLate
  <2>11. CASE WifiLost
    <3>1. /\ wifiSta # "off" /\ wifiSta' = "idle"
          /\ UNCHANGED <<wifiMain, wifiMgr, wifiBit, wifiTimedOut>>
          /\ WifiPost(<<"disconnected", "cred_fail">>) \/ WifiPost(<<"disconnected">>)
      BY <2>11 DEF WifiLost
    <3>2. /\ WifiQueued("disconnected")' /\ (WifiQueued("end")' => WifiQueued("end"))
      BY <1>3, <1>4, <3>1
    <3> QED BY <1>1, <3>1, <3>2 DEF WifiIsHeard, WifiEndsLate
  <2>12. CASE WifiMgrEnds
    <3>1. /\ wifiMgr = "success" /\ wifiMgr' = "ended" /\ WifiPost(<<"end">>)
          /\ UNCHANGED <<wifiMain, wifiSta, wifiBit, wifiTimedOut>>
      BY <2>12 DEF WifiMgrEnds
    <3>2. \A d : WifiQueued(d)' <=> WifiQueued(d) \/ d = "end"
      BY <1>3, <3>1
    <3> QED BY <1>1, <3>1, <3>2 DEF WifiIsHeard, WifiEndsLate
  <2>13. CASE UNCHANGED wifiVars
    <3>1. UNCHANGED <<wifiMain, wifiMgr, wifiSta, wifiEvents, wifiTimer, wifiBit, wifiTimedOut>>
      BY <2>13 DEF wifiVars
    <3> QED BY <1>1, <1>5, <3>1 DEF WifiIsHeard, WifiEndsLate
  <2> QED BY <2>1, <2>2, <2>3, <2>4, <2>5, <2>6, <2>7, <2>8, <2>9, <2>10, <2>11, <2>12, <2>13
          DEF WifiNext, WifiMainTask, WifiLoop, WifiOutside
<1> QED BY <1>2, <1>7 DEF HeardOnLoop

(* app_main does not wait in vain: until the provisioning time is over,    *)
(* whatever the phone sends and however often the access point is lost, a  *)
(* station with an address has set the bit or its event is on the loop, a  *)
(* station that lost the access point has told so, and without a station   *)
(* the phone is asked (app_wifi.c:146-166, 187-200, 478).                  *)
THEOREM StationIsHeard == WifiSpec => []WifiIsHeard
<1>1. WifiInit => HeardOnLoop
  <2>1. WifiInit => WifiIsHeard
    BY DEF WifiInit, WifiIsHeard
  <2>2. WifiInit => WifiEndsLate
    <3>1. WifiInit => ~WifiQueued("end")
      BY EmptySeq DEF WifiInit, WifiQueued
    <3> QED BY <3>1 DEF WifiInit, WifiEndsLate
  <2> QED BY <2>1, <2>2, WifiTypesBegin DEF HeardOnLoop
<1>2. HeardOnLoop => WifiIsHeard
  BY DEF HeardOnLoop
<1> QED BY <1>1, <1>2, WifiHeardStep, PTL DEF WifiSpec

-----------------------------------------------------------------------------
(* RtcStore: the rings are queues.                                         *)
(* The bytes in RTC memory, a ring and a write under way.                  *)
RtcBytes == {<<>>} \cup (Nat \X Nat \X Nat \X Nat)

RingType(r) == [off : 0..RtcSize[r], filled : 0..RtcSize[r],
                buf : [0..RtcSize[r] - 1 -> RtcBytes]]

WriteType(r) == {RtcIdle} \cup [rec : RtcRecords(r), done : Nat]

RtcRanges ==
    /\ rtcRing = [r \in RtcRings |-> rtcRing[r]]
    /\ \A r \in RtcRings : rtcRing[r] \in RingType(r)
    /\ rtcWrite = [r \in RtcRings |-> rtcWrite[r]]
    /\ \A r \in RtcRings : rtcWrite[r] \in WriteType(r)
    /\ rtcMeta \in 0..RtcMetas - 1
    /\ rtcMade \in 0..RtcMaxMade

RecordFits ==
    \A r \in RtcRings :
        /\ rtcWrite[r].done <= Len(rtcWrite[r].rec)
        /\ rtcRing[r].filled + Len(rtcWrite[r].rec) <= RtcSize[r]

(* The place in buf of the byte i bytes behind the read offset off.        *)
PlaceOf(r, off, i) == IF off + i < RtcSize[r] THEN off + i ELSE off + i - RtcSize[r]

(* The bytes a ring holds, the front first.                                *)
BytesOf(r, g) == [i \in 1..g.filled |-> g.buf[PlaceOf(r, g.off, i - 1)]]

(* What is written of a record lies behind the filled part.                *)
LiesBehind(r, g, w) ==
    \A k \in 1..w.done : g.buf[PlaceOf(r, g.off, g.filled + k - 1)] = w.rec[k]

WrittenIsBehind == \A r \in RtcRings : LiesBehind(r, rtcRing[r], rtcWrite[r])

RtcInv == RtcRanges /\ RecordFits /\ WrittenIsBehind

(* What the type of a ring says of its fields.                             *)
LEMMA RingFacts ==
    ASSUME NEW r \in RtcRings, NEW g \in RingType(r)
    PROVE  /\ RtcSize[r] \in Nat \ {0} /\ RtcHeader[r] \in Nat
           /\ g.off \in 0..RtcSize[r] /\ g.filled \in 0..RtcSize[r]
           /\ g.buf \in [0..RtcSize[r] - 1 -> RtcBytes]
BY RtcAssumption DEF RingType

(* Different bytes of a ring have different places.                        *)
LEMMA PlacesApart ==
    ASSUME NEW r \in RtcRings, NEW off \in 0..RtcSize[r], NEW i \in 0..RtcSize[r] - 1
    PROVE  /\ PlaceOf(r, off, i) \in 0..RtcSize[r] - 1
           /\ \A j \in 0..RtcSize[r] - 1 : PlaceOf(r, off, i) = PlaceOf(r, off, j) => i = j
BY RtcAssumption DEF PlaceOf

(* The bytes of a ring are a sequence as long as its filled part.          *)
LEMMA BytesAre ==
    ASSUME NEW r \in RtcRings, NEW g \in RingType(r)
    PROVE  BytesOf(r, g) \in Seq(RtcBytes) /\ Len(BytesOf(r, g)) = g.filled
<1>. DEFINE f == g.filled
<1>1. f \in Nat /\ f <= RtcSize[r] BY RingFacts
<1>5. \A i \in 1..f : g.buf[PlaceOf(r, g.off, i - 1)] \in RtcBytes
    <2>. TAKE i \in 1..f
    <2>1. i - 1 \in 0..RtcSize[r] - 1 BY <1>1, RingFacts
    <2>2. PlaceOf(r, g.off, i - 1) \in 0..RtcSize[r] - 1 BY <2>1, PlacesApart, RingFacts
    <2>. QED BY <2>2, RingFacts
<1>6. BytesOf(r, g) \in [1..f -> RtcBytes] BY <1>5 DEF BytesOf
<1>7. BytesOf(r, g) \in Seq(RtcBytes) BY <1>6, <1>1, SeqDef
<1>8. Len(BytesOf(r, g)) = f BY <1>1, <1>7, LenProperties DEF BytesOf
<1>. QED BY <1>7, <1>8

(* What a read of all of a ring returns are its bytes.                     *)
LEMMA ContentIs ==
    RtcRanges => RtcContent = [r \in RtcRings |-> BytesOf(r, rtcRing[r])]
<1>. SUFFICES ASSUME RtcRanges PROVE RtcContent = [r \in RtcRings |-> BytesOf(r, rtcRing[r])]
    OBVIOUS
<1>. SUFFICES ASSUME NEW r \in RtcRings
              PROVE  RtcRead(r, rtcRing[r].filled) = BytesOf(r, rtcRing[r])
    BY DEF RtcContent
<1>. DEFINE f == rtcRing[r].filled
<1>1. rtcRing[r] \in RingType(r) BY DEF RtcRanges
<1>4. f \in Nat /\ f <= RtcSize[r] /\ rtcRing[r].off \in 0..RtcSize[r] /\ RtcSize[r] \in Nat
    BY <1>1, RingFacts
<1>2. \A i \in 1..f :
          (IF i <= RtcSize[r] - rtcRing[r].off THEN rtcRing[r].buf[rtcRing[r].off + i - 1]
           ELSE rtcRing[r].buf[i - 1 - (RtcSize[r] - rtcRing[r].off)])
          = rtcRing[r].buf[PlaceOf(r, rtcRing[r].off, i - 1)]
    BY <1>4 DEF PlaceOf
<1>3. RtcRead(r, f) = [i \in 1..f |->
               IF i <= RtcSize[r] - rtcRing[r].off THEN rtcRing[r].buf[rtcRing[r].off + i - 1]
               ELSE rtcRing[r].buf[i - 1 - (RtcSize[r] - rtcRing[r].off)]]
    BY <1>4 DEF RtcRead
<1>. QED BY <1>2, <1>3 DEF BytesOf

(* A record is a string of bytes of at least an index, a header and one    *)
(* byte of data.                                                           *)
LEMMA RecordIs ==
    ASSUME NEW r \in RtcRings, NEW m \in RtcRecords(r)
    PROVE  m \in Seq(RtcBytes) /\ Len(m) \in Nat /\ Len(m) >= 2 + RtcHeader[r]
<1>1. PICK id \in 1..RtcMaxMade, meta \in 0..RtcMetas - 1, n \in RtcData :
          m = RtcRecord(id, meta, 1 + RtcHeader[r] + n)
    BY DEF RtcRecords
<1>2. RtcHeader[r] \in Nat /\ n \in Nat /\ n > 0 BY RtcAssumption
<1>3. PICK l \in Nat : l = 1 + RtcHeader[r] + n BY <1>2
<1>4. m = [i \in 1..l |-> <<id, i, l, meta>>] BY <1>1, <1>3 DEF RtcRecord
<1>5. \A i \in 1..l : <<id, i, l, meta>> \in RtcBytes BY RtcAssumption, <1>3 DEF RtcBytes
<1>6. m \in [1..l -> RtcBytes] BY <1>4, <1>5
<1>7. m \in Seq(RtcBytes) BY <1>6, <1>3, SeqDef
<1>8. Len(m) = l BY <1>4, <1>3, <1>7, LenProperties
<1>. QED BY <1>7, <1>8, <1>3, <1>2

(* rtc_store_write_at_offset puts a byte where the ring has the place      *)
(* behind the filled part, on either side of the seam                      *)
(* (rtc_store.c:152-188).                                                  *)
LEMMA Laid ==
    ASSUME RtcInv, NEW r \in RtcRings, NEW at \in Nat, NEW len \in Nat, NEW k \in 0..len - 1,
           rtcRing[r].filled + at + len <= RtcSize[r]
    PROVE  RtcPlace(r, at, len, k) = PlaceOf(r, rtcRing[r].off, rtcRing[r].filled + at + k)
<1>. DEFINE o == rtcRing[r].off
            f == rtcRing[r].filled
            z == RtcSize[r]
<1>1. o \in 0..z /\ f \in 0..z /\ z \in Nat /\ f + at + len <= z BY RingFacts DEF RtcInv, RtcRanges
<1>2. PlaceOf(r, o, f + at + k) = IF o + (f + at + k) < z THEN o + (f + at + k)
                              ELSE o + (f + at + k) - z
    BY DEF PlaceOf
<1>3. CASE o + f < z
    <2>1. RtcFreeAtEnd(r) = z - (o + f) BY <1>3 DEF RtcFreeAtEnd
    <2>2. RtcPlace(r, at, len, k) =
              IF z - (o + f) > 0 /\ z - (o + f) < at THEN at - (z - (o + f)) + k
              ELSE IF z - (o + f) > 0 /\ z - (o + f) < at + len /\ k >= z - (o + f) - at
                   THEN k - (z - (o + f) - at)
              ELSE o + f + at + k
        BY <1>1, <1>3, <2>1 DEF RtcPlace
    <2>3. RtcPlace(r, at, len, k) = PlaceOf(r, o, f + at + k)
        <3>. HIDE DEF o, f, z
        <3>. QED BY <1>1, <1>2, <1>3, <2>2
    <2>. QED BY <2>3
<1>4. CASE o + f >= z
    <2>1. RtcFreeAtEnd(r) = 0 BY <1>4, <1>1 DEF RtcFreeAtEnd
    <2>2. RtcPlace(r, at, len, k) = o + f - z + at + k
        BY <1>1, <1>4, <2>1 DEF RtcPlace
    <2>3. RtcPlace(r, at, len, k) = PlaceOf(r, o, f + at + k)
        <3>. HIDE DEF o, f, z
        <3>. QED BY <1>1, <1>2, <1>4, <2>2
    <2>. QED BY <2>3
<1>. QED BY <1>1, <1>3, <1>4

(* The same of the state after a step.                                     *)
LEMMA ContentThen ==
    RtcRanges' => RtcContent' = [r \in RtcRings |-> BytesOf(r, rtcRing'[r])]
<1>1. (RtcRanges => RtcContent = [r \in RtcRings |-> BytesOf(r, rtcRing[r])])'
    BY ContentIs, PTL
<1>. QED BY <1>1

(* The first index of a boot is one.                                       *)
LEMMA FirstMeta == RtcFirstMeta \in 0..RtcMetas - 1
BY RtcAssumption DEF RtcFirstMeta

(* A chunk ends behind where it begins, and within the record.             *)
LEMMA ChunkEnds ==
    ASSUME RtcInv, NEW r \in RtcRings, rtcWrite[r].done < Len(rtcWrite[r].rec)
    PROVE  /\ rtcWrite[r].rec \in RtcRecords(r)
           /\ rtcWrite[r].done \in Nat /\ RtcChunkEnd(r) \in Nat
           /\ rtcWrite[r].done < RtcChunkEnd(r)
           /\ RtcChunkEnd(r) <= Len(rtcWrite[r].rec)
<1>1. rtcWrite[r] \in WriteType(r) BY DEF RtcInv, RtcRanges
<1>2. CASE rtcWrite[r] = RtcIdle BY <1>2 DEF RtcIdle
<1>3. CASE rtcWrite[r] \in [rec : RtcRecords(r), done : Nat]
    <2>1. rtcWrite[r].rec \in RtcRecords(r) /\ rtcWrite[r].done \in Nat BY <1>3
    <2>2. RtcHeader[r] \in Nat BY RtcAssumption
    <2>3. Len(rtcWrite[r].rec) \in Nat /\ Len(rtcWrite[r].rec) >= 2 + RtcHeader[r]
        BY <2>1, RecordIs
    <2>. QED BY <2>1, <2>2, <2>3 DEF RtcChunkEnd
<1>. QED BY <1>1, <1>2, <1>3 DEF WriteType

(* The bytes of a chunk go behind those of the record written before.      *)
LEMMA CopyGoesBehind ==
    ASSUME RtcInv, NEW r \in RtcRings, rtcWrite[r].done < Len(rtcWrite[r].rec),
           NEW c, c = RtcCopied(r, rtcWrite[r].done, RtcChunkEnd(r))
    PROVE  /\ c \in [0..RtcSize[r] - 1 -> RtcBytes]
           /\ \A j \in 0..RtcSize[r] - 1 :
                 j < rtcRing[r].filled + rtcWrite[r].done =>
                     c[PlaceOf(r, rtcRing[r].off, j)] =
                     rtcRing[r].buf[PlaceOf(r, rtcRing[r].off, j)]
           /\ \A k \in rtcWrite[r].done + 1..RtcChunkEnd(r) :
                 c[PlaceOf(r, rtcRing[r].off, rtcRing[r].filled + k - 1)] =
                 rtcWrite[r].rec[k]
<1>. DEFINE g == rtcRing[r]
            o == rtcRing[r].off
            f == rtcRing[r].filled
            z == RtcSize[r]
            at == rtcWrite[r].done
            end == RtcChunkEnd(r)
            rec == rtcWrite[r].rec
            Put(p, k) == p = PlaceOf(r, o, f + at + k)
<1>1. g \in RingType(r) BY DEF RtcInv, RtcRanges
<1>2. o \in 0..z /\ f \in 0..z /\ z \in Nat \ {0} /\ g.buf \in [0..z - 1 -> RtcBytes]
    BY <1>1, RingFacts
<1>3. rec \in RtcRecords(r) /\ at \in Nat /\ end \in Nat /\ at < end /\ end <= Len(rec)
    BY ChunkEnds
<1>4. rec \in Seq(RtcBytes) /\ Len(rec) \in Nat BY <1>3, RecordIs
<1>5. f + end <= z
    <2>1. f + Len(rec) <= z BY DEF RtcInv, RecordFits
    <2>. HIDE DEF f, z, end, rec
    <2>. QED BY <2>1, <1>2, <1>3, <1>4
<1>6. \A k \in 0..end - at - 1 :
          RtcPlace(r, at, end - at, k) = PlaceOf(r, o, f + at + k)
    <2>. TAKE k \in 0..end - at - 1
    <2>1. end - at \in Nat /\ at + (end - at) = end BY <1>3
    <2>2. f + at + (end - at) <= z BY <1>3, <1>5, <1>2
    <2>. QED BY <2>1, <2>2, <1>3, Laid
<1>7. c = [p \in 0..z - 1 |->
              IF \E k \in 0..end - at - 1 : Put(p, k)
              THEN rec[at + 1 + CHOOSE k \in 0..end - at - 1 : Put(p, k)]
              ELSE g.buf[p]]
    <2>1. \A p \in 0..z - 1 : \A k \in 0..end - at - 1 :
              (p = RtcPlace(r, at, end - at, k)) <=> Put(p, k)
        BY <1>6
    <2>2. \A p \in 0..z - 1 :
              (\E k \in 0..end - at - 1 : p = RtcPlace(r, at, end - at, k))
              <=> (\E k \in 0..end - at - 1 : Put(p, k))
        BY <2>1
    <2>3. \A p \in 0..z - 1 :
              (CHOOSE k \in 0..end - at - 1 : p = RtcPlace(r, at, end - at, k))
              = (CHOOSE k \in 0..end - at - 1 : Put(p, k))
        <3>. TAKE p \in 0..z - 1
        <3>1. \A k : (k \in 0..end - at - 1 /\ p = RtcPlace(r, at, end - at, k))
                     <=> (k \in 0..end - at - 1 /\ Put(p, k))
            BY <2>1
        <3>. QED BY <3>1
    <2>. HIDE DEF Put, at, end
    <2>. QED BY <2>2, <2>3 DEF RtcCopied, at, end
<1>14. \A k \in 0..end - at - 1 : f + at + k \in 0..z - 1
    <2>. HIDE DEF o, f, z, at, end, rec
    <2>. QED BY <1>2, <1>3, <1>5
<1>8. \A k, m \in 0..end - at - 1 : \A p : Put(p, k) /\ Put(p, m) => k = m
    <2>. TAKE k, m \in 0..end - at - 1
    <2>1. f + at + k \in 0..z - 1 /\ f + at + m \in 0..z - 1 BY <1>14
    <2>2. PlaceOf(r, o, f + at + k) = PlaceOf(r, o, f + at + m) => f + at + k = f + at + m
        BY <2>1, <1>2, PlacesApart
    <2>. QED BY <2>2, <1>2, <1>3
<1>9. \A p \in 0..z - 1 : \A k \in 0..end - at - 1 : Put(p, k) => c[p] = rec[at + 1 + k]
    <2>. TAKE p \in 0..z - 1
    <2>. TAKE k \in 0..end - at - 1
    <2>. HAVE Put(p, k)
    <2>. DEFINE m == CHOOSE j \in 0..end - at - 1 : Put(p, j)
    <2>. HIDE DEF Put
    <2>1. m \in 0..end - at - 1 /\ Put(p, m) OBVIOUS
    <2>2. m = k BY <2>1, <1>8
    <2>3. c[p] = rec[at + 1 + m] BY <1>7
    <2>. QED BY <2>2, <2>3
<1>10. \A p \in 0..z - 1 :
           (\A k \in 0..end - at - 1 : ~Put(p, k)) => c[p] = g.buf[p]
    <2>. HIDE DEF Put
    <2>. QED BY <1>7
<1>11. c \in [0..z - 1 -> RtcBytes]
    <2>1. \A p \in 0..z - 1 : c[p] \in RtcBytes
        <3>. TAKE p \in 0..z - 1
        <3>1. CASE \A k \in 0..end - at - 1 : ~Put(p, k)
            BY <3>1, <1>10, <1>2
        <3>2. CASE \E k \in 0..end - at - 1 : Put(p, k)
            <4>1. PICK k \in 0..end - at - 1 : Put(p, k) BY <3>2
            <4>2. c[p] = rec[at + 1 + k] BY <4>1, <1>9
            <4>3. at + 1 + k \in 1..Len(rec) BY <1>3, <1>4
            <4>. QED BY <4>2, <4>3, <1>4, ElementOfSeq
        <3>. HIDE DEF Put
        <3>. QED BY <3>1, <3>2
    <2>2. c = [p \in 0..z - 1 |-> c[p]]
        <3>. HIDE DEF Put
        <3>. QED BY <1>7
    <2>. QED BY <2>1, <2>2
<1>12. ASSUME NEW j \in 0..z - 1, j < f + at
       PROVE  c[PlaceOf(r, o, j)] = g.buf[PlaceOf(r, o, j)]
    <2>1. PlaceOf(r, o, j) \in 0..z - 1 BY <1>2, PlacesApart
    <2>2. \A k \in 0..end - at - 1 : ~Put(PlaceOf(r, o, j), k)
        <3>. TAKE k \in 0..end - at - 1
        <3>1. f + at + k \in 0..z - 1 BY <1>14
        <3>2. PlaceOf(r, o, j) = PlaceOf(r, o, f + at + k) => j = f + at + k
            BY <3>1, <1>2, PlacesApart
        <3>. QED BY <3>2, <1>12, <1>2, <1>3
    <2>. QED BY <2>1, <2>2, <1>10
<1>13. ASSUME NEW k \in at + 1..end
       PROVE  c[PlaceOf(r, o, f + k - 1)] = rec[k]
    <2>1. k - 1 - at \in 0..end - at - 1 /\ at + 1 + (k - 1 - at) = k
          /\ f + at + (k - 1 - at) = f + k - 1 /\ f + k - 1 \in 0..z - 1
        <3>. HIDE DEF o, f, z, at, end, rec
        <3>. QED BY <1>2, <1>3, <1>5
    <2>2. PlaceOf(r, o, f + k - 1) \in 0..z - 1 BY <2>1, <1>2, PlacesApart
    <2>3. Put(PlaceOf(r, o, f + k - 1), k - 1 - at) BY <2>1
    <2>. QED BY <2>1, <2>2, <2>3, <1>9
<1>. QED BY <1>11, <1>12, <1>13

(* At first the rings are blank, which are empty queues.                   *)
LEMMA StoreInit == RtcInit => RtcInv /\ RtcFifo!Init
<1>. SUFFICES ASSUME RtcInit PROVE RtcInv /\ RtcFifo!Init OBVIOUS
<1>1. \A r \in RtcRings : rtcRing[r] = RtcBlank(r) /\ rtcWrite[r] = RtcIdle BY DEF RtcInit
<1>2. ASSUME NEW r \in RtcRings
      PROVE  /\ rtcRing[r] \in RingType(r) /\ rtcRing[r].filled = 0
             /\ rtcWrite[r] \in WriteType(r)
             /\ rtcWrite[r].done = 0 /\ Len(rtcWrite[r].rec) = 0
    <2>1. RtcSize[r] \in Nat \ {0} BY RtcAssumption
    <2>. DEFINE blank == [p \in 0..RtcSize[r] - 1 |-> <<>>]
    <2>2. blank \in [0..RtcSize[r] - 1 -> RtcBytes] BY DEF RtcBytes
    <2>3. rtcRing[r] = [off |-> 0, filled |-> 0, buf |-> blank] BY <1>1 DEF RtcBlank
    <2>4. rtcRing[r] \in RingType(r) /\ rtcRing[r].filled = 0
        <3>. HIDE DEF blank
        <3>. QED BY <2>1, <2>2, <2>3 DEF RingType
    <2>5. rtcWrite[r] \in WriteType(r) /\ rtcWrite[r].done = 0 /\ Len(rtcWrite[r].rec) = 0
        BY <1>1 DEF RtcIdle, WriteType
    <2>. QED BY <2>4, <2>5
<1>3. rtcMeta \in 0..RtcMetas - 1 /\ rtcMade \in 0..RtcMaxMade
    BY FirstMeta, RtcAssumption DEF RtcInit
<1>4. RtcRanges BY <1>2, <1>3 DEF RtcRanges, RtcInit
<1>5. RecordFits
    <2>. SUFFICES ASSUME NEW r \in RtcRings
                  PROVE  /\ rtcWrite[r].done <= Len(rtcWrite[r].rec)
                         /\ rtcRing[r].filled + Len(rtcWrite[r].rec) <= RtcSize[r]
        BY DEF RecordFits
    <2>. QED BY <1>2, RtcAssumption
<1>6. WrittenIsBehind BY <1>2 DEF WrittenIsBehind, LiesBehind
<1>7. \A r \in RtcRings : BytesOf(r, rtcRing[r]) = <<>>
    <2>. TAKE r \in RtcRings
    <2>. QED BY <1>2, BytesAre, EmptySeq
<1>8. RtcContent = [r \in RtcRings |-> <<>>] BY <1>4, <1>7, ContentIs
<1>. QED BY <1>4, <1>5, <1>6, <1>8 DEF RtcInv, RtcFifo!Init

(* A write begins: the record fits into the free part.                     *)
LEMMA Begins ==
    ASSUME RtcInv, NEW r \in RtcRings, NEW n \in RtcData, RtcWriteBegin(r, n)
    PROVE  RtcInv' /\ RtcContent' = RtcContent
<1>. DEFINE m == RtcRecord(rtcMade + 1, rtcMeta, 1 + RtcHeader[r] + n)
<1>1. /\ rtcMade < RtcMaxMade /\ RtcFree(r) >= 1 + RtcHeader[r] + n
      /\ rtcMade' = rtcMade + 1
      /\ rtcWrite' = [rtcWrite EXCEPT ![r] = [rec |-> m, done |-> 0]]
      /\ rtcRing' = rtcRing /\ rtcMeta' = rtcMeta
    BY DEF RtcWriteBegin
<1>2. rtcMade' \in 0..RtcMaxMade /\ rtcMade + 1 \in 1..RtcMaxMade
    BY <1>1, RtcAssumption DEF RtcInv, RtcRanges
<1>3. m \in RtcRecords(r) BY <1>2 DEF RtcRecords, RtcInv, RtcRanges
<1>4. Len(m) = 1 + RtcHeader[r] + n
    <2>1. RtcHeader[r] \in Nat /\ n \in Nat BY RtcAssumption
    <2>2. m \in Seq(RtcBytes) BY <1>3, RecordIs
    <2>3. DOMAIN m = 1..1 + RtcHeader[r] + n BY DEF RtcRecord
    <2>. HIDE DEF m
    <2>. QED BY <2>1, <2>2, <2>3, LenProperties
<1>. HIDE DEF m
<1>5. /\ rtcWrite'[r] = [rec |-> m, done |-> 0]
      /\ \A s \in RtcRings \ {r} : rtcWrite'[s] = rtcWrite[s]
      /\ rtcWrite' = [s \in RtcRings |-> rtcWrite'[s]]
    BY <1>1 DEF RtcInv, RtcRanges
<1>6. rtcWrite'[r] \in WriteType(r) BY <1>3, <1>5 DEF WriteType
<1>7. RtcRanges' BY <1>1, <1>2, <1>5, <1>6 DEF RtcInv, RtcRanges
<1>8. RecordFits'
    <2>1. rtcWrite'[r].done <= Len(rtcWrite'[r].rec)
          /\ rtcRing'[r].filled + Len(rtcWrite'[r].rec) <= RtcSize[r]
        <3>1. rtcRing[r].filled \in Nat /\ RtcSize[r] \in Nat /\ RtcHeader[r] \in Nat
              /\ n \in Nat
            BY RingFacts, RtcAssumption DEF RtcInv, RtcRanges
        <3>. QED BY <3>1, <1>1, <1>4, <1>5 DEF RtcFree
    <2>. QED BY <2>1, <1>1, <1>5 DEF RtcInv, RecordFits
<1>9. WrittenIsBehind'
    BY <1>1, <1>5 DEF RtcInv, WrittenIsBehind, LiesBehind
<1>10. RtcContent' = RtcContent BY <1>1 DEF RtcContent, RtcRead
<1>. QED BY <1>7, <1>8, <1>9, <1>10 DEF RtcInv

(* A chunk is copied, which nobody sees.                                   *)
LEMMA Chunks ==
    ASSUME RtcInv, NEW r \in RtcRings, RtcChunk(r)
    PROVE  RtcInv' /\ RtcContent' = RtcContent
<1>. DEFINE c == RtcCopied(r, rtcWrite[r].done, RtcChunkEnd(r))
            end == RtcChunkEnd(r)
            at == rtcWrite[r].done
            f == rtcRing[r].filled
<1>1. /\ at < Len(rtcWrite[r].rec)
      /\ rtcRing' = [rtcRing EXCEPT ![r].buf = c]
      /\ rtcWrite' = [rtcWrite EXCEPT ![r].done = end]
      /\ rtcMeta' = rtcMeta /\ rtcMade' = rtcMade
    BY DEF RtcChunk
<1>2. /\ c \in [0..RtcSize[r] - 1 -> RtcBytes]
      /\ \A j \in 0..RtcSize[r] - 1 : j < f + at =>
             c[PlaceOf(r, rtcRing[r].off, j)] = rtcRing[r].buf[PlaceOf(r, rtcRing[r].off, j)]
      /\ \A k \in at + 1..end :
             c[PlaceOf(r, rtcRing[r].off, f + k - 1)] = rtcWrite[r].rec[k]
    BY <1>1, CopyGoesBehind
<1>3. /\ rtcWrite[r].rec \in RtcRecords(r) /\ at \in Nat /\ end \in Nat
      /\ at < end /\ end <= Len(rtcWrite[r].rec)
    BY <1>1, ChunkEnds
<1>. HIDE DEF c, end
<1>4. /\ rtcRing[r] \in RingType(r) /\ f \in Nat /\ f <= RtcSize[r] /\ RtcSize[r] \in Nat
      /\ Len(rtcWrite[r].rec) \in Nat /\ f + Len(rtcWrite[r].rec) <= RtcSize[r]
    BY RingFacts, RecordIs, <1>3 DEF RtcInv, RtcRanges, RecordFits
<1>5. /\ rtcRing' = [s \in RtcRings |-> rtcRing'[s]]
      /\ rtcWrite' = [s \in RtcRings |-> rtcWrite'[s]]
      /\ \A s \in RtcRings \ {r} : rtcRing'[s] = rtcRing[s] /\ rtcWrite'[s] = rtcWrite[s]
      /\ rtcRing'[r] = [rtcRing[r] EXCEPT !.buf = c]
      /\ rtcWrite'[r] = [rtcWrite[r] EXCEPT !.done = end]
    BY <1>1 DEF RtcInv, RtcRanges
<1>6. /\ rtcRing'[r] \in RingType(r) /\ rtcRing'[r].off = rtcRing[r].off
      /\ rtcRing'[r].filled = rtcRing[r].filled /\ rtcRing'[r].buf = c
    BY <1>2, <1>4, <1>5 DEF RingType
<1>7. rtcWrite'[r] \in [rec : RtcRecords(r), done : Nat]
      /\ rtcWrite'[r].rec = rtcWrite[r].rec /\ rtcWrite'[r].done = end
    <2>1. rtcWrite[r] \in [rec : RtcRecords(r), done : Nat]
        <3>1. rtcWrite[r] # RtcIdle BY <1>1, <1>3 DEF RtcIdle
        <3>. QED BY <3>1 DEF RtcInv, RtcRanges, WriteType
    <2>. QED BY <2>1, <1>3, <1>5
<1>8. RtcRanges'
    <2>1. rtcWrite'[r] \in WriteType(r) BY <1>7 DEF WriteType
    <2>. QED BY <2>1, <1>1, <1>5, <1>6 DEF RtcInv, RtcRanges
<1>9. RecordFits'
    <2>1. rtcWrite'[r].done <= Len(rtcWrite'[r].rec)
          /\ rtcRing'[r].filled + Len(rtcWrite'[r].rec) <= RtcSize[r]
        BY <1>3, <1>4, <1>6, <1>7
    <2>. QED BY <2>1, <1>5 DEF RtcInv, RecordFits
<1>10. LiesBehind(r, rtcRing'[r], rtcWrite'[r])
    <2>. SUFFICES ASSUME NEW k \in 1..end
                  PROVE  c[PlaceOf(r, rtcRing[r].off, f + k - 1)] = rtcWrite[r].rec[k]
        BY <1>6, <1>7 DEF LiesBehind
    <2>1. CASE k \in at + 1..end BY <2>1, <1>2
    <2>2. CASE k \in 1..at
        <3>1. f + k - 1 \in 0..RtcSize[r] - 1 /\ f + k - 1 < f + at
            <4>. HIDE DEF f, at
            <4>. QED BY <2>2, <1>3, <1>4
        <3>2. rtcRing[r].buf[PlaceOf(r, rtcRing[r].off, f + k - 1)] = rtcWrite[r].rec[k]
            BY <2>2 DEF RtcInv, WrittenIsBehind, LiesBehind
        <3>. QED BY <3>1, <3>2, <1>2
    <2>. QED BY <2>1, <2>2, <1>3
<1>11. WrittenIsBehind' BY <1>5, <1>10 DEF RtcInv, WrittenIsBehind
<1>12. BytesOf(r, rtcRing'[r]) = BytesOf(r, rtcRing[r])
    <2>1. ASSUME NEW i \in 1..f
          PROVE  c[PlaceOf(r, rtcRing[r].off, i - 1)] =
                 rtcRing[r].buf[PlaceOf(r, rtcRing[r].off, i - 1)]
        <3>1. i - 1 \in 0..RtcSize[r] - 1 /\ i - 1 < f + at BY <1>3, <1>4
        <3>. QED BY <3>1, <1>2
    <2>. QED BY <2>1, <1>6 DEF BytesOf
<1>13. RtcContent' = RtcContent
    BY <1>5, <1>8, <1>12, ContentIs, ContentThen DEF RtcInv
<1>. QED BY <1>8, <1>9, <1>11, <1>13 DEF RtcInv

(* One store of filled puts the whole record into the queue.               *)
LEMMA Commits ==
    ASSUME RtcInv, NEW r \in RtcRings, RtcCommit(r)
    PROVE  RtcInv' /\ \E m \in RtcRecords(r) : RtcFifo!Put(r, m)
<1>. DEFINE m == rtcWrite[r].rec
            f == rtcRing[r].filled
<1>1. /\ rtcWrite[r] # RtcIdle /\ rtcWrite[r].done = Len(m)
      /\ rtcRing' = [rtcRing EXCEPT ![r].filled = @ + rtcWrite[r].done]
      /\ rtcWrite' = [rtcWrite EXCEPT ![r] = RtcIdle]
      /\ rtcMeta' = rtcMeta /\ rtcMade' = rtcMade
    BY DEF RtcCommit, RtcLocked
<1>2. m \in RtcRecords(r) BY <1>1 DEF RtcInv, RtcRanges, WriteType
<1>3. m \in Seq(RtcBytes) /\ Len(m) \in Nat BY <1>2, RecordIs
<1>4. /\ rtcRing[r] \in RingType(r) /\ f \in Nat /\ RtcSize[r] \in Nat
      /\ f + Len(m) <= RtcSize[r]
    BY RingFacts DEF RtcInv, RtcRanges, RecordFits
<1>5. /\ rtcRing' = [s \in RtcRings |-> rtcRing'[s]]
      /\ rtcWrite' = [s \in RtcRings |-> rtcWrite'[s]]
      /\ \A s \in RtcRings \ {r} : rtcRing'[s] = rtcRing[s] /\ rtcWrite'[s] = rtcWrite[s]
      /\ rtcRing'[r] = [rtcRing[r] EXCEPT !.filled = f + Len(m)]
      /\ rtcWrite'[r] = RtcIdle
    BY <1>1 DEF RtcInv, RtcRanges
<1>6. /\ rtcRing'[r] \in RingType(r) /\ rtcRing'[r].off = rtcRing[r].off
      /\ rtcRing'[r].filled = f + Len(m) /\ rtcRing'[r].buf = rtcRing[r].buf
    <2>1. f + Len(m) \in 0..RtcSize[r] BY <1>3, <1>4
    <2>. HIDE DEF m, f
    <2>. QED BY <2>1, <1>4, <1>5 DEF RingType
<1>7. RtcRanges' BY <1>1, <1>5, <1>6 DEF RtcInv, RtcRanges, WriteType
<1>8. RecordFits'
    <2>1. rtcWrite'[r].done <= Len(rtcWrite'[r].rec)
          /\ rtcRing'[r].filled + Len(rtcWrite'[r].rec) <= RtcSize[r]
        BY <1>3, <1>4, <1>5, <1>6, EmptySeq DEF RtcIdle
    <2>. QED BY <2>1, <1>5 DEF RtcInv, RecordFits
<1>9. WrittenIsBehind'
    <2>1. LiesBehind(r, rtcRing'[r], rtcWrite'[r]) BY <1>5 DEF LiesBehind, RtcIdle
    <2>. QED BY <2>1, <1>5 DEF RtcInv, WrittenIsBehind
<1>10. BytesOf(r, rtcRing'[r]) = BytesOf(r, rtcRing[r]) \o m
    <2>. DEFINE b == BytesOf(r, rtcRing[r])
                c == BytesOf(r, rtcRing'[r])
    <2>1. b \in Seq(RtcBytes) /\ Len(b) = f /\ c \in Seq(RtcBytes) /\ Len(c) = f + Len(m)
        BY <1>4, <1>6, BytesAre
    <2>2. /\ b \o m \in Seq(RtcBytes) /\ Len(b \o m) = f + Len(m)
          /\ \A i \in 1..f + Len(m) : (b \o m)[i] = IF i <= f THEN b[i] ELSE m[i - f]
        <3>. HIDE DEF b, m, f
        <3>. QED BY <2>1, <1>3, ConcatProperties
    <2>3. ASSUME NEW i \in 1..f + Len(m) PROVE c[i] = (b \o m)[i]
        <3>1. c[i] = rtcRing[r].buf[PlaceOf(r, rtcRing[r].off, i - 1)]
            BY <1>6 DEF BytesOf
        <3>2. CASE i <= f
            <4>1. b[i] = rtcRing[r].buf[PlaceOf(r, rtcRing[r].off, i - 1)]
                BY <3>2, <1>4 DEF BytesOf
            <4>. QED BY <3>1, <3>2, <4>1, <2>2
        <3>3. CASE i > f
            <4>1. i - f \in 1..Len(m) /\ f + (i - f) - 1 = i - 1 BY <3>3, <1>3, <1>4
            <4>2. \A k \in 1..Len(m) :
                      rtcRing[r].buf[PlaceOf(r, rtcRing[r].off, f + k - 1)] = m[k]
                BY <1>1 DEF RtcInv, WrittenIsBehind, LiesBehind
            <4>3. c[i] = m[i - f]
                <5>1. rtcRing[r].buf[PlaceOf(r, rtcRing[r].off, f + (i - f) - 1)] = m[i - f]
                    BY <4>1, <4>2
                <5>. QED BY <3>1, <4>1, <5>1
            <4>4. (b \o m)[i] = m[i - f]
                <5>. HIDE DEF b, c, m, f
                <5>. QED BY <3>3, <2>2, <1>3, <1>4
            <4>. QED BY <4>3, <4>4
        <3>4. i <= f \/ i > f
            <4>. HIDE DEF f, m
            <4>. QED BY <1>3, <1>4
        <3>. QED BY <3>2, <3>3, <3>4
    <2>4. c = b \o m
        <3>1. Len(c) = Len(b \o m) /\ \A i \in 1..Len(c) : c[i] = (b \o m)[i]
            BY <2>1, <2>2, <2>3
        <3>. HIDE DEF b, c, m, f
        <3>. QED BY <3>1, <2>1, <2>2, SeqEqual
    <2>. QED BY <2>4
<1>11. RtcContent' = [RtcContent EXCEPT ![r] = @ \o m]
    <2>1. RtcContent = [s \in RtcRings |-> BytesOf(s, rtcRing[s])] BY ContentIs DEF RtcInv
    <2>2. RtcContent' = [s \in RtcRings |-> BytesOf(s, rtcRing'[s])] BY <1>7, ContentThen
    <2>3. \A s \in RtcRings \ {r} : BytesOf(s, rtcRing'[s]) = BytesOf(s, rtcRing[s])
        BY <1>5
    <2>. HIDE DEF m
    <2>. QED BY <2>1, <2>2, <2>3, <1>10
<1>. QED BY <1>2, <1>7, <1>8, <1>9, <1>11 DEF RtcInv, RtcFifo!Put

(* A release drops bytes at the front, or nothing when there are fewer.    *)
LEMMA Releases ==
    ASSUME RtcInv, NEW r \in RtcRings, NEW n \in 0..RtcSize[r], RtcRelease(r, n)
    PROVE  /\ RtcInv'
           /\ \/ RtcContent' = RtcContent
              \/ \E i \in 0..Len(RtcContent[r]) : RtcFifo!Drop(r, i)
<1>. DEFINE g == rtcRing[r]
            f == rtcRing[r].filled
            o == rtcRing[r].off
            z == RtcSize[r]
<1>1. /\ rtcWrite[r] = RtcIdle /\ rtcRing' = RtcReleased(r, n)
      /\ rtcWrite' = rtcWrite /\ rtcMeta' = rtcMeta /\ rtcMade' = rtcMade
    BY DEF RtcRelease, RtcLocked
<1>2. CASE f < n
    <2>1. rtcRing' = rtcRing BY <1>1, <1>2 DEF RtcReleased
    <2>2. RtcContent' = RtcContent BY <2>1 DEF RtcContent, RtcRead
    <2>3. RtcInv'
        BY <1>1, <2>1 DEF RtcInv, RtcRanges, RecordFits, WrittenIsBehind, LiesBehind
    <2>. QED BY <2>2, <2>3
<1>3. CASE ~(f < n)
    <2>. DEFINE q == RtcOffAfter(r, n)
    <2>1. /\ g \in RingType(r) /\ f \in Nat /\ f <= z /\ n \in Nat /\ n <= f
          /\ z \in Nat \ {0} /\ o \in 0..z
        BY <1>3, RingFacts DEF RtcInv, RtcRanges
    <2>2. q \in 0..z /\ \A i \in Nat : n + i < z => PlaceOf(r, q, i) = PlaceOf(r, o, n + i)
        BY <2>1 DEF RtcOffAfter, PlaceOf
    <2>3. rtcRing' = [rtcRing EXCEPT ![r].off = q, ![r].filled = f - n]
        BY <1>1, <1>3 DEF RtcReleased
    <2>. HIDE DEF q
    <2>4. /\ rtcRing' = [s \in RtcRings |-> rtcRing'[s]]
          /\ \A s \in RtcRings \ {r} : rtcRing'[s] = rtcRing[s]
          /\ rtcRing'[r] = [g EXCEPT !.off = q, !.filled = f - n]
        BY <2>3 DEF RtcInv, RtcRanges
    <2>5. /\ rtcRing'[r] \in RingType(r) /\ rtcRing'[r].off = q
          /\ rtcRing'[r].filled = f - n /\ rtcRing'[r].buf = g.buf
        <3>1. f - n \in 0..z
            <4>. HIDE DEF f, z
            <4>. QED BY <2>1
        <3>. HIDE DEF g, f
        <3>. QED BY <3>1, <2>1, <2>2, <2>4 DEF RingType
    <2>6. RtcRanges' BY <1>1, <2>4, <2>5 DEF RtcInv, RtcRanges
    <2>7. RecordFits'
        <3>1. rtcWrite'[r].done <= Len(rtcWrite'[r].rec)
              /\ rtcRing'[r].filled + Len(rtcWrite'[r].rec) <= RtcSize[r]
            <4>1. rtcWrite'[r].done = 0 /\ Len(rtcWrite'[r].rec) = 0
                BY <1>1 DEF RtcIdle
            <4>. HIDE DEF f, z
            <4>. QED BY <4>1, <2>1, <2>5 DEF z
        <3>. QED BY <3>1, <1>1, <2>4 DEF RtcInv, RecordFits
    <2>8. WrittenIsBehind'
        <3>1. LiesBehind(r, rtcRing'[r], rtcWrite'[r]) BY <1>1 DEF LiesBehind, RtcIdle
        <3>. QED BY <3>1, <1>1, <2>4 DEF RtcInv, WrittenIsBehind
    <2>9. RtcContent = [s \in RtcRings |-> BytesOf(s, rtcRing[s])] BY ContentIs DEF RtcInv
    <2>. DEFINE b == BytesOf(r, g)
                c == BytesOf(r, rtcRing'[r])
    <2>10. b \in Seq(RtcBytes) /\ Len(b) = f /\ c \in Seq(RtcBytes) /\ Len(c) = f - n
        BY <2>1, <2>5, BytesAre
    <2>11. c = SubSeq(b, n + 1, Len(b))
        <3>1. \A i \in n + 1..f : b[i] \in RtcBytes
            <4>1. \A i \in n + 1..f : i \in 1..Len(b) BY <2>1, <2>10
            <4>. HIDE DEF b
            <4>. QED BY <4>1, <2>10, ElementOfSeq
        <3>. DEFINE d == SubSeq(b, n + 1, f)
        <3>2. /\ d \in Seq(RtcBytes)
              /\ Len(d) = IF n + 1 <= f THEN f - (n + 1) + 1 ELSE 0
              /\ \A i \in 1..f - (n + 1) + 1 : d[i] = b[n + 1 + i - 1]
            <4>1. n + 1 \in Int /\ f \in Int BY <2>1
            <4>. HIDE DEF b, f
            <4>. QED BY <4>1, <3>1, SubSeqProperties
        <3>3. Len(d) = f - n /\ f - (n + 1) + 1 = f - n
            <4>. HIDE DEF d, f
            <4>. QED BY <3>2, <2>1
        <3>4. ASSUME NEW i \in 1..f - n PROVE c[i] = d[i]
            <4>1. c[i] = g.buf[PlaceOf(r, q, i - 1)] BY <2>5 DEF BytesOf
            <4>2. i - 1 \in Nat /\ n + (i - 1) < z /\ n + 1 + i - 1 = n + i
                  /\ n + i \in 1..f /\ n + i - 1 = n + (i - 1)
                <5>. HIDE DEF f, z
                <5>. QED BY <2>1
            <4>3. PlaceOf(r, q, i - 1) = PlaceOf(r, o, n + (i - 1)) BY <2>2, <4>2
            <4>4. b[n + i] = g.buf[PlaceOf(r, o, n + i - 1)] BY <4>2 DEF BytesOf
            <4>5. d[i] = b[n + i] BY <3>2, <3>3, <4>2
            <4>. QED BY <4>1, <4>2, <4>3, <4>4, <4>5
        <3>5. c = d
            <4>. HIDE DEF c, d, f
            <4>. QED BY <2>10, <3>2, <3>3, <3>4, SeqEqual
        <3>. QED BY <3>5, <2>10
    <2>12. RtcContent[r] = b BY <2>9
    <2>13. RtcContent' = [RtcContent EXCEPT ![r] = SubSeq(@, n + 1, Len(@))]
        <3>. HIDE DEF b
        <3>1. RtcContent' = [s \in RtcRings |-> BytesOf(s, rtcRing'[s])]
            BY <2>6, ContentThen
        <3>2. \A s \in RtcRings \ {r} : BytesOf(s, rtcRing'[s]) = BytesOf(s, rtcRing[s])
            BY <2>4
        <3>. QED BY <3>1, <3>2, <2>9, <2>11, <2>12
    <2>14. n \in 0..Len(RtcContent[r]) /\ n <= Len(RtcContent[r])
        <3>. HIDE DEF b, f
        <3>. QED BY <2>12, <2>10, <2>1
    <2>15. RtcFifo!Drop(r, n) BY <2>13, <2>14 DEF RtcFifo!Drop
    <2>. QED BY <2>6, <2>7, <2>8, <2>14, <2>15 DEF RtcInv
<1>. QED BY <1>2, <1>3

(* A reset gives up the writes under way and keeps the queues.             *)
LEMMA Resets ==
    ASSUME RtcInv, RtcReset
    PROVE  RtcInv' /\ RtcContent' = RtcContent
<1>1. /\ rtcRing' = rtcRing /\ rtcMade' = rtcMade
      /\ rtcMeta' = (rtcMeta + 1) % RtcMetas
      /\ rtcWrite' = [r \in RtcRings |-> RtcIdle]
    BY DEF RtcReset
<1>2. rtcMeta' \in 0..RtcMetas - 1
    <2>1. rtcMeta + 1 \in Nat /\ RtcMetas \in Nat \ {0}
        BY RtcAssumption DEF RtcInv, RtcRanges
    <2>. QED BY <2>1, <1>1
<1>3. RtcRanges' BY <1>1, <1>2 DEF RtcInv, RtcRanges, WriteType
<1>4. RecordFits'
    <2>. SUFFICES ASSUME NEW r \in RtcRings
                  PROVE  /\ rtcWrite'[r].done <= Len(rtcWrite'[r].rec)
                         /\ rtcRing'[r].filled + Len(rtcWrite'[r].rec) <= RtcSize[r]
        BY DEF RecordFits
    <2>1. rtcWrite'[r].done = 0 /\ Len(rtcWrite'[r].rec) = 0 BY <1>1 DEF RtcIdle
    <2>2. rtcRing[r].filled \in 0..RtcSize[r] /\ RtcSize[r] \in Nat
        BY RingFacts DEF RtcInv, RtcRanges
    <2>. QED BY <2>1, <2>2, <1>1
<1>5. WrittenIsBehind' BY <1>1 DEF WrittenIsBehind, LiesBehind, RtcIdle
<1>6. RtcContent' = RtcContent BY <1>1 DEF RtcContent, RtcRead
<1>. QED BY <1>3, <1>4, <1>5, <1>6 DEF RtcInv

(* A power-on empties them.                                                *)
LEMMA PowersOn ==
    ASSUME RtcInv, RtcPowerOn
    PROVE  RtcInv' /\ RtcFifo!Empty
<1>1. /\ rtcRing' = [r \in RtcRings |-> [rtcRing[r] EXCEPT !.off = 0, !.filled = 0]]
      /\ rtcMade' = rtcMade /\ rtcMeta' = RtcFirstMeta
      /\ rtcWrite' = [r \in RtcRings |-> RtcIdle]
    BY DEF RtcPowerOn
<1>2. ASSUME NEW r \in RtcRings
      PROVE  rtcRing'[r] \in RingType(r) /\ rtcRing'[r].filled = 0
    <2>1. rtcRing[r] \in RingType(r) /\ 0 \in 0..RtcSize[r]
        BY RtcAssumption DEF RtcInv, RtcRanges
    <2>. QED BY <1>1, <2>1 DEF RingType
<1>3. RtcRanges' BY <1>1, <1>2, FirstMeta DEF RtcInv, RtcRanges, WriteType
<1>4. RecordFits'
    <2>. SUFFICES ASSUME NEW r \in RtcRings
                  PROVE  /\ rtcWrite'[r].done <= Len(rtcWrite'[r].rec)
                         /\ rtcRing'[r].filled + Len(rtcWrite'[r].rec) <= RtcSize[r]
        BY DEF RecordFits
    <2>1. rtcWrite'[r].done = 0 /\ Len(rtcWrite'[r].rec) = 0 BY <1>1 DEF RtcIdle
    <2>. QED BY <2>1, <1>2, RtcAssumption
<1>5. WrittenIsBehind'
    <2>1. \A r \in RtcRings : rtcWrite'[r].done = 0 BY <1>1 DEF RtcIdle
    <2>. QED BY <2>1 DEF WrittenIsBehind, LiesBehind
<1>6. \A r \in RtcRings : BytesOf(r, rtcRing'[r]) = <<>>
    <2>. TAKE r \in RtcRings
    <2>. QED BY <1>2, BytesAre, EmptySeq
<1>7. RtcContent' = [r \in RtcRings |-> <<>>] BY <1>3, <1>6, ContentThen
<1>. QED BY <1>3, <1>4, <1>5, <1>7 DEF RtcInv, RtcFifo!Empty

(* Every step keeps the invariant and is a step of RtcFifo or none.        *)
LEMMA StoreStep ==
    RtcInv /\ [RtcNext]_rtcVars => RtcInv' /\ [RtcFifo!Next]_RtcContent
<1>. SUFFICES ASSUME RtcInv, [RtcNext]_rtcVars
              PROVE  RtcInv' /\ [RtcFifo!Next]_RtcContent
    OBVIOUS
<1>1. CASE UNCHANGED rtcVars
    <2>1. rtcRing' = rtcRing /\ rtcWrite' = rtcWrite /\ rtcMeta' = rtcMeta
          /\ rtcMade' = rtcMade
        BY <1>1 DEF rtcVars
    <2>2. RtcContent' = RtcContent BY <2>1 DEF RtcContent, RtcRead
    <2>3. RtcInv'
        BY <2>1 DEF RtcInv, RtcRanges, RecordFits, WrittenIsBehind, LiesBehind
    <2>. QED BY <2>2, <2>3
<1>2. ASSUME NEW r \in RtcRings, NEW n \in RtcData, RtcWriteBegin(r, n)
      PROVE  RtcInv' /\ [RtcFifo!Next]_RtcContent
    BY <1>2, Begins
<1>3. ASSUME NEW r \in RtcRings, RtcChunk(r) PROVE RtcInv' /\ [RtcFifo!Next]_RtcContent
    BY <1>3, Chunks
<1>4. ASSUME NEW r \in RtcRings, RtcCommit(r) PROVE RtcInv' /\ [RtcFifo!Next]_RtcContent
    BY <1>4, Commits DEF RtcFifo!Next
<1>5. ASSUME NEW r \in RtcRings, NEW n \in 0..RtcSize[r], RtcRelease(r, n)
      PROVE  RtcInv' /\ [RtcFifo!Next]_RtcContent
    BY <1>5, Releases DEF RtcFifo!Next
<1>6. CASE RtcReset BY <1>6, Resets
<1>7. CASE RtcPowerOn BY <1>7, PowersOn DEF RtcFifo!Next
<1>. QED BY <1>1, <1>2, <1>3, <1>4, <1>5, <1>6, <1>7 DEF RtcNext, RtcWriter

(* The rings are the queues RtcFifo promises: what a read returns is whole *)
(* records in order, for every size of the rings, the headers and the      *)
(* data, whatever step a reset comes between (rtc_store.c:152-218,         *)
(* 334-352).                                                               *)
THEOREM StoreIsFifo == RtcSpec => RtcFifoSpec
<1>1. RtcInit => RtcInv /\ RtcFifo!Init BY StoreInit
<1>2. RtcInv /\ [RtcNext]_rtcVars => RtcInv' /\ [RtcFifo!Next]_RtcContent BY StoreStep
<1>. QED BY <1>1, <1>2, PTL DEF RtcSpec, RtcFifoSpec, RtcFifo!Spec

-----------------------------------------------------------------------------
(* RtcStore: its types are what its invariant says of one ring.            *)
LEMMA StoreTypes == RtcInv => RtcTypeOK
<1> SUFFICES ASSUME RtcInv PROVE RtcTypeOK
  OBVIOUS
<1>1. \A r \in RtcRings : /\ rtcRing[r].off \in 0..RtcSize[r]
                          /\ rtcRing[r].filled \in 0..RtcSize[r]
  BY DEF RtcInv, RtcRanges, RingType
<1>2. \A r \in RtcRings : /\ rtcWrite[r].done <= Len(rtcWrite[r].rec)
                          /\ rtcRing[r].filled + Len(rtcWrite[r].rec) <= RtcSize[r]
  BY DEF RtcInv, RecordFits
<1>3. rtcMeta \in 0..RtcMetas - 1 /\ rtcMade \in 0..RtcMaxMade
  BY DEF RtcInv, RtcRanges
<1> QED BY <1>1, <1>2, <1>3 DEF RtcTypeOK

-----------------------------------------------------------------------------
(* Insights: what an acknowledgement releases has been sent.               *)
(* The records of the critical ring, and the messages under way.           *)
LogRecords == [id : Nat, boot : {0, 1}]
InsMessages == [id : Nat \ {0}, ids : SUBSET Nat]

InsTypes ==
    /\ insQueue \in [InsRings -> Seq(LogRecords)] /\ insMade \in Nat /\ insBootNo \in {0, 1}
    /\ insNet \subseteq InsMessages /\ insNextId \in Nat \ {0} /\ insSent \in Int
    /\ insMsg \in [id : Nat, len : Nat] /\ insTaken \in [len : Nat, ids : SUBSET Nat]

(* Every message has a number of its own, older than the next one.         *)
Numbered ==
    /\ \A m \in insNet : m.id < insNextId
    /\ \A m, o \in insNet : m.id = o.id => m = o
    /\ insMsg.id < insNextId /\ insSent < insNextId

Given == insPc = "record" => insSent > 0

(* The first n records of the critical ring.                               *)
FrontIds(n) == {insQueue["critical"][i].id : i \in 1..n}
IsFront(n, ids) == n <= Len(insQueue["critical"]) /\ FrontIds(n) = ids

(* What a pass has read is still at the front when it records the message, *)
(* which carries it; and it is there until that message is acknowledged.   *)
TakenIsFront ==
    insPc \in {"other", "publish", "record"} => IsFront(insTaken.len, insTaken.ids)
SentIsTaken ==
    insPc = "record" => \A m \in insNet : m.id = insSent => m.ids = insTaken.ids
RecordedIsFront == \A m \in insNet : m.id = insMsg.id => IsFront(insMsg.len, m.ids)

InsInv ==
    /\ InsTypes /\ Numbered /\ Given
    /\ ~insRaced => TakenIsFront /\ SentIsTaken /\ RecordedIsFront /\ ~insLost

(* A set of naturals that has a bound has a greatest element.              *)
LEMMA Greatest ==
    ASSUME NEW n \in Nat, NEW T \in SUBSET (0..n), T # {}
    PROVE  \E k \in T : \A j \in T : j <= k
<1> DEFINE R == OpToRel(<, Nat)
<1> DEFINE U == {n - k : k \in T}
<1>1. U \subseteq Nat /\ U # {}
  <2>1. \A k \in T : n - k \in Nat
    OBVIOUS
  <2> QED BY <2>1
<1>2. IsWellFoundedOn(R, Nat)
  BY NatLessThanWellFounded
<1>3. \A a, b \in Nat : a < b => <<a, b>> \in R
  BY DEF OpToRel
<1> HIDE DEF R
<1>4. PICK x \in U : \A y \in U : ~(<<y, x>> \in R)
  BY <1>1, <1>2, WFMin
<1>5. PICK k \in T : x = n - k
  OBVIOUS
<1>6. ASSUME NEW j \in T PROVE j <= k
  <2>1. ~(n - j < n - k) /\ n - j \in Nat /\ n - k \in Nat
    BY <1>1, <1>3, <1>4, <1>5
  <2> QED BY <2>1
<1> QED BY <1>6

(* What a pass consumes is in the ring.                                    *)
LEMMA Consumed ==
    ASSUME NEW r \in InsRings, insQueue[r] \in Seq(LogRecords)
    PROVE  InsConsumed(r) \in 0..Len(insQueue[r])
<1> DEFINE n == IF Len(insQueue[r]) < InsReadBuf THEN Len(insQueue[r]) ELSE InsReadBuf
<1> DEFINE Same == {k \in 0..n : \A i \in 1..k : insQueue[r][i].boot = insQueue[r][1].boot}
<1>1. n \in Nat /\ n <= Len(insQueue[r]) /\ Len(insQueue[r]) \in Nat
  BY InsAssumption
<1>2. InsConsumed(r) = CHOOSE k \in Same : \A j \in Same : j <= k
  BY DEF InsConsumed
<1> HIDE DEF n
<1>3. 0 \in Same /\ Same \in SUBSET (0..n)
  BY <1>1
<1> HIDE DEF Same
<1>4. \E k \in Same : \A j \in Same : j <= k
  BY <1>1, <1>3, Greatest
<1>5. InsConsumed(r) \in Same
  BY <1>2, <1>4
<1>6. InsConsumed(r) \in 0..n
  BY <1>3, <1>5
<1> QED BY <1>1, <1>6

(* The ids of the first records.                                           *)
LEMMA IdsOfFront ==
    ASSUME InsTypes, NEW n \in 0..Len(insQueue["critical"])
    PROVE  InsIds(SubSeq(insQueue["critical"], 1, n)) = FrontIds(n)
<1> DEFINE q == insQueue["critical"]
<1>1. q \in Seq(LogRecords) /\ Len(q) \in Nat
  BY DEF InsTypes, InsRings
<1> HIDE DEF q
<1>2. \A i \in 1..n : q[i] \in LogRecords
  BY <1>1 DEF q
<1>3. /\ SubSeq(q, 1, n) \in Seq(LogRecords) /\ Len(SubSeq(q, 1, n)) = n
      /\ \A i \in 1..n : SubSeq(q, 1, n)[i] = q[i]
  BY <1>1, <1>2, SubSeqProperties DEF q
<1>4. DOMAIN SubSeq(q, 1, n) = 1..n
  BY <1>3
<1> QED BY <1>3, <1>4 DEF InsIds, FrontIds, q
(* Nothing is read or sent at first.                                       *)
LEMMA InsInitInv == InsInit => InsInv
<1> SUFFICES ASSUME InsInit PROVE InsInv
  OBVIOUS
<1>1. /\ insQueue = [r \in InsRings |-> <<>>] /\ insBootNo = 0 /\ insMade = 0 /\ insPc = "idle"
      /\ insMsg = [id |-> 0, len |-> 0] /\ insTaken = InsNothing /\ insSent = 0
      /\ insNet = {} /\ insNextId = 1 /\ insLost = FALSE
  BY DEF InsInit, Fifo!Init
<1>2. <<>> \in Seq(LogRecords)
  OBVIOUS
<1>3. InsTypes
  BY <1>1, <1>2 DEF InsTypes, InsNothing
<1>4. Numbered
  BY <1>1 DEF Numbered
<1> QED BY <1>1, <1>3, <1>4 DEF InsInv, Given, TakenIsFront, SentIsTaken, RecordedIsFront

(* A step that leaves the ring, the pass and the messages as they are.     *)
LEMMA ReportRest ==
    ASSUME InsInv,
           insQueue' \in [InsRings -> Seq(LogRecords)], insQueue'["critical"] = insQueue["critical"],
           UNCHANGED <<insMade, insBootNo, insNet, insNextId, insMsg, insLost, insRaced>>,
           \/ UNCHANGED <<insTaken, insSent>>
           \/ insTaken' = InsNothing /\ insSent' = 0 /\ insPc' \in {"idle", "read"}
           \/ insTaken' = insTaken /\ insSent' = 0 /\ insPc' = "read",
           insPc' = "record" => insPc = "record",
           insPc' \in {"other", "publish"} => insPc \in {"other", "publish"}
    PROVE  InsInv'
<1>1. InsNothing \in [len : Nat, ids : SUBSET Nat]
  BY DEF InsNothing
<1>2. InsTypes'
  BY <1>1 DEF InsInv, InsTypes
<1>3. Numbered'
  BY DEF InsInv, Numbered, InsTypes
<1>4. \A n, ids : IsFront(n, ids)' = IsFront(n, ids)
  BY DEF IsFront, FrontIds
<1>5. RecordedIsFront => RecordedIsFront'
  BY DEF RecordedIsFront, IsFront, FrontIds
<1>6. TakenIsFront => TakenIsFront'
  BY DEF TakenIsFront, IsFront, FrontIds
<1>7. SentIsTaken => SentIsTaken'
  BY DEF SentIsTaken
<1>8. Given'
  BY DEF InsInv, Given
<1> QED BY <1>2, <1>3, <1>5, <1>6, <1>7, <1>8 DEF InsInv

(* A pass reads the front of the critical ring.                            *)
LEMMA ReportRead == ASSUME InsInv, InsRead PROVE InsInv'
<1> DEFINE n == InsConsumed("critical")
<1>1. /\ insTaken' = [len |-> n, ids |-> InsIds(SubSeq(insQueue["critical"], 1, n))] /\ insPc' = "other"
      /\ UNCHANGED <<insQueue, insMade, insBootNo, insNet, insNextId, insMsg, insSent, insLost, insRaced>>
      /\ InsTypes /\ insQueue["critical"] \in Seq(LogRecords)
  BY DEF InsRead, insStore, insGhosts, InsInv, InsTypes, InsRings
<1>2. n \in 0..Len(insQueue["critical"])
  BY <1>1, Consumed DEF InsRings
<1>3. InsIds(SubSeq(insQueue["critical"], 1, n)) = FrontIds(n)
  BY <1>1, <1>2, IdsOfFront
<1> HIDE DEF n
<1>4. insTaken' = [len |-> n, ids |-> FrontIds(n)] /\ n \in Nat
  BY <1>1, <1>2, <1>3
<1>5. FrontIds(n) \subseteq Nat
  <2>1. \A i \in 1..n : insQueue["critical"][i] \in LogRecords
    BY <1>1, <1>2
  <2> QED BY <2>1 DEF FrontIds, LogRecords
<1>6. InsTypes'
  BY <1>1, <1>4, <1>5 DEF InsTypes
<1>7. Numbered'
  BY <1>1 DEF InsInv, Numbered
<1>8. TakenIsFront' /\ SentIsTaken'
  BY <1>1, <1>2, <1>4 DEF TakenIsFront, SentIsTaken, IsFront, FrontIds
<1>9. RecordedIsFront => RecordedIsFront'
  BY <1>1 DEF RecordedIsFront, IsFront, FrontIds
<1> QED BY <1>1, <1>6, <1>7, <1>8, <1>9 DEF InsInv, Given

(* A message more: its number is new.                                      *)
LEMMA OneMessageMore ==
    ASSUME InsInv, NEW ids \in SUBSET Nat,
           insNet' = insNet \cup {[id |-> insNextId, ids |-> ids]}, insNextId' = insNextId + 1,
           insSent' \in {insSent, insNextId},
           UNCHANGED <<insQueue, insMade, insBootNo, insMsg, insTaken, insRaced, insLost>>
    PROVE  /\ InsTypes' /\ Numbered'
           /\ RecordedIsFront => RecordedIsFront'
           /\ \A m \in insNet' : m \in insNet \/ (m.id = insNextId /\ m.ids = ids)
<1> DEFINE new == [id |-> insNextId, ids |-> ids]
<1>1. new \in InsMessages /\ new.id = insNextId /\ new.ids = ids /\ insNextId \in Nat \ {0}
  BY DEF InsInv, InsTypes, InsMessages
<1>2. insNet' = insNet \cup {new}
  OBVIOUS
<1> HIDE DEF new
<1>3. InsTypes'
  BY <1>1, <1>2 DEF InsInv, InsTypes
<1>4. Numbered'
  <2>1. \A m \in insNet : m.id \in Nat /\ m.id < insNextId
    BY DEF InsInv, InsTypes, InsMessages, Numbered
  <2>2. insMsg.id \in Nat /\ insSent \in Int
    BY DEF InsInv, InsTypes
  <2> QED BY <1>1, <1>2, <2>1, <2>2 DEF InsInv, Numbered
<1>5. insMsg.id # insNextId
  BY <1>1 DEF InsInv, Numbered, InsTypes
<1>6. RecordedIsFront => RecordedIsFront'
  BY <1>1, <1>2, <1>5 DEF RecordedIsFront, IsFront, FrontIds
<1> QED BY <1>1, <1>2, <1>3, <1>4, <1>6

(* A message is published, under a number of its own.                      *)
LEMMA ReportSends ==
    ASSUME InsInv, InsSend \/ InsBootSend \/ InsOthersPublish
    PROVE  InsInv'
<1> DEFINE ids == IF InsSend THEN insTaken.ids ELSE {}
<1>1. /\ UNCHANGED <<insQueue, insMade, insBootNo, insMsg, insTaken, insRaced, insLost>>
      /\ InsTypes
  BY DEF InsSend, InsBootSend, InsOthersPublish, insStore, insGhosts, insPass, InsInv
<1>2. ids \in SUBSET Nat
  BY <1>1 DEF InsTypes
<1>3. CASE insSent' = -1 /\ UNCHANGED <<insNet, insNextId>> /\ insPc' \in {"end", "store"}
  <2>1. insPc' = "end" \/ insPc' = "store"
    BY <1>3
  <2>2. InsTypes' /\ Numbered'
    BY <1>1, <1>3 DEF InsInv, InsTypes, Numbered
  <2>3. RecordedIsFront => RecordedIsFront'
    BY <1>1, <1>3 DEF RecordedIsFront, IsFront, FrontIds
  <2> QED BY <1>1, <2>1, <2>2, <2>3 DEF InsInv, Given, TakenIsFront, SentIsTaken
<1>4. CASE /\ insNet' = insNet \cup {[id |-> insNextId, ids |-> ids]} /\ insNextId' = insNextId + 1
           /\ \/ insSent' = insNextId /\ InsSend
              \/ insSent' = insNextId /\ insPc' = "store"
              \/ insSent' = insSent /\ insPc' = insPc
  <2> HIDE DEF ids
  <2>1. /\ InsTypes' /\ Numbered'
        /\ RecordedIsFront => RecordedIsFront'
        /\ \A m \in insNet' : m \in insNet \/ (m.id = insNextId /\ m.ids = ids)
    BY <1>1, <1>2, <1>4, OneMessageMore
  <2>2. \A m \in insNet : m.id \in Nat /\ m.id < insNextId
    BY DEF InsInv, InsTypes, InsMessages, Numbered
  <2>3. insNextId \in Nat \ {0} /\ insSent \in Int /\ insSent < insNextId
    BY DEF InsInv, InsTypes, Numbered
  <2>4. CASE insSent' = insNextId /\ InsSend
    <3>1. insPc = "publish" /\ insPc' \in {"record", "end"} /\ ids = insTaken.ids
      BY <2>4 DEF InsSend, ids
    <3>2. TakenIsFront => TakenIsFront'
      BY <1>1, <3>1 DEF TakenIsFront, IsFront, FrontIds
    <3>3. SentIsTaken'
      BY <1>1, <2>1, <2>2, <2>3, <2>4, <3>1 DEF SentIsTaken
    <3> QED BY <1>1, <2>1, <2>3, <2>4, <3>2, <3>3 DEF InsInv, Given
  <2>5. CASE insPc' = "store"
    BY <1>1, <2>1, <2>5 DEF InsInv, Given, TakenIsFront, SentIsTaken
  <2>6. CASE insSent' = insSent /\ insPc' = insPc
    <3>1. TakenIsFront => TakenIsFront'
      BY <1>1, <2>6 DEF TakenIsFront, IsFront, FrontIds
    <3>2. SentIsTaken => SentIsTaken'
      BY <1>1, <2>1, <2>3, <2>6 DEF SentIsTaken
    <3> QED BY <1>1, <2>1, <2>6, <3>1, <3>2 DEF InsInv, Given
  <2> QED BY <1>4, <2>4, <2>5, <2>6
<1>5. InsSend => /\ ids = insTaken.ids /\ InsPublish(ids)
                 /\ insPc' = IF insSent' > 0 THEN "record" ELSE "end"
  BY DEF InsSend
<1>6. ~InsSend => ids = {}
  OBVIOUS
<1> HIDE DEF ids
<1>7. CASE InsSend
  BY <1>3, <1>4, <1>5, <1>7 DEF InsPublish
<1>8. CASE InsBootSend /\ ~InsSend
  <2>1. InsPublish(ids) /\ insPc' = "store"
    BY <1>6, <1>8 DEF InsBootSend
  <2> QED BY <1>3, <1>4, <2>1 DEF InsPublish
<1>9. CASE InsOthersPublish /\ ~InsSend
  <2>1. /\ insNet' = insNet \cup {[id |-> insNextId, ids |-> ids]} /\ insNextId' = insNextId + 1
        /\ insSent' = insSent /\ insPc' = insPc
    BY <1>6, <1>9 DEF InsOthersPublish, insPass
  <2> QED BY <1>4, <2>1
<1> QED BY <1>7, <1>8, <1>9

(* The pass records the message it published, after the publish            *)
(* (esp_insights.c:253).                                                   *)
LEMMA ReportRecords == ASSUME InsInv, InsRecord PROVE InsInv'
<1>1. /\ insPc = "record" /\ insPc' = "idle" /\ insTaken' = InsNothing /\ insSent' = 0
      /\ insMsg' = [id |-> insSent, len |-> insTaken.len]
      /\ UNCHANGED <<insQueue, insMade, insBootNo, insNet, insNextId, insRaced, insLost>>
  BY DEF InsRecord, insStore, insGhosts
<1>2. /\ insNextId \in Nat \ {0} /\ insSent \in Nat \ {0} /\ insTaken.len \in Nat
      /\ InsNothing \in [len : Nat, ids : SUBSET Nat]
  BY <1>1 DEF InsInv, InsTypes, Given, InsNothing
<1>3. insMsg' \in [id : Nat, len : Nat] /\ insMsg'.id = insSent /\ insMsg'.len = insTaken.len
  BY <1>1, <1>2
<1>4. InsTypes'
  BY <1>1, <1>2, <1>3 DEF InsInv, InsTypes
<1>5. Numbered'
  BY <1>1, <1>2, <1>3 DEF InsInv, Numbered
<1>6. TakenIsFront' /\ SentIsTaken' /\ Given'
  BY <1>1 DEF TakenIsFront, SentIsTaken, Given
<1>7. TakenIsFront /\ SentIsTaken => RecordedIsFront'
  BY <1>1, <1>3 DEF TakenIsFront, SentIsTaken, RecordedIsFront, IsFront, FrontIds
<1> QED BY <1>1, <1>4, <1>5, <1>6, <1>7 DEF InsInv

(* An acknowledgement of the message recorded releases what it carried.    *)
LEMMA ReportAck == ASSUME InsInv, NEW m \in insNet, InsAck(m) PROVE InsInv'
<1> DEFINE q == insQueue["critical"]
<1>1. /\ insNet' = insNet \ {m}
      /\ UNCHANGED <<insMade, insBootNo, insNextId, insMsg, insPc, insTaken, insSent>>
      /\ InsTypes /\ Numbered /\ Given
  BY DEF InsAck, insPass, InsInv
<1>2. q \in Seq(LogRecords) /\ insMsg.len \in Nat
  BY <1>1 DEF InsTypes, InsRings
<1>3. Numbered' /\ Given'
  BY <1>1 DEF Numbered, Given
<1>4. CASE InsMatches(m)
  <2>1. /\ \/ /\ insMsg.len <= Len(q)
               /\ insQueue' = [insQueue EXCEPT !["critical"] = SubSeq(@, insMsg.len + 1, Len(@))]
               /\ insLost' = (insLost \/ ~(InsIds(SubSeq(q, 1, insMsg.len)) \subseteq insSafe \cup m.ids))
            \/ UNCHANGED <<insQueue, insLost>>
        /\ insRaced' = (insRaced \/ insPc \in {"other", "publish", "record"})
    BY <1>4 DEF InsAck, Fifo!Drop
  <2>2. insQueue' \in [InsRings -> Seq(LogRecords)]
    <3>1. SubSeq(q, insMsg.len + 1, Len(q)) \in Seq(LogRecords)
      <4> HIDE DEF q
      <4> QED BY <1>2
    <3> QED BY <1>1, <2>1, <3>1 DEF InsTypes
  <2>3. InsTypes'
    BY <1>1, <2>2 DEF InsTypes
  <2>4. RecordedIsFront'
    <3>1. \A o \in insNet' : o.id # insMsg.id
      BY <1>1, <1>4 DEF Numbered, InsMatches
    <3> QED BY <1>1, <3>1 DEF RecordedIsFront
  <2>5. ~insRaced' => TakenIsFront' /\ SentIsTaken'
    BY <1>1, <2>1 DEF TakenIsFront, SentIsTaken
  <2>6. ~insRaced' => ~insLost'
    <3> SUFFICES ASSUME ~insRaced', insMsg.len <= Len(q)
                 PROVE  InsIds(SubSeq(q, 1, insMsg.len)) \subseteq m.ids
      BY <2>1 DEF InsInv
    <3>1. IsFront(insMsg.len, m.ids)
      BY <1>4, <2>1 DEF InsInv, RecordedIsFront, InsMatches
    <3>2. InsIds(SubSeq(q, 1, insMsg.len)) = FrontIds(insMsg.len)
      BY <1>1, <1>2, IdsOfFront
    <3> QED BY <3>1, <3>2 DEF IsFront
  <2> QED BY <1>3, <2>1, <2>3, <2>4, <2>5, <2>6 DEF InsInv
<1>5. CASE ~InsMatches(m)
  <2>1. UNCHANGED <<insQueue, insLost, insRaced>>
    BY <1>5 DEF InsAck
  <2>2. InsTypes'
    BY <1>1, <2>1 DEF InsTypes
  <2>3. /\ RecordedIsFront => RecordedIsFront'
        /\ TakenIsFront => TakenIsFront'
        /\ SentIsTaken => SentIsTaken'
    BY <1>1, <2>1 DEF RecordedIsFront, TakenIsFront, SentIsTaken, IsFront, FrontIds
  <2> QED BY <1>3, <2>1, <2>2, <2>3 DEF InsInv
<1> QED BY <1>4, <1>5

(* A restart forgets the pass and the messages.                            *)
LEMMA ReportRestarts == ASSUME InsInv, InsReset \/ InsPowerOn PROVE InsInv'
<1>1. /\ insPc' = "idle" /\ insMsg' = [id |-> 0, len |-> 0] /\ insTaken' = InsNothing /\ insSent' = 0
      /\ insNet' = {} /\ insNextId' = 1 /\ insMade' = insMade
      /\ UNCHANGED <<insLost, insRaced>> /\ InsTypes
  BY DEF InsReset, InsPowerOn, InsRestart, InsInv
<1>2. insBootNo' \in {0, 1}
  BY <1>1 DEF InsReset, InsPowerOn, InsTypes
<1>3. insQueue' \in [InsRings -> Seq(LogRecords)]
  <2>1. <<>> \in Seq(LogRecords)
    OBVIOUS
  <2> QED BY <1>1, <2>1 DEF InsReset, InsPowerOn, Fifo!Empty, InsTypes
<1>4. InsTypes'
  BY <1>1, <1>2, <1>3 DEF InsTypes, InsNothing
<1>5. Numbered'
  BY <1>1 DEF Numbered
<1> QED BY <1>1, <1>4, <1>5 DEF InsInv, Given, TakenIsFront, SentIsTaken, RecordedIsFront

(* What is logged goes behind what is there.                               *)
LEMMA ReportLogs == ASSUME InsInv, InsLog PROVE InsInv'
<1> DEFINE q == insQueue["critical"]
<1> DEFINE new == [id |-> insMade + 1, boot |-> insBootNo]
<1>1. /\ insQueue' = [insQueue EXCEPT !["critical"] = @ \o <<new>>] /\ insMade' = insMade + 1
      /\ UNCHANGED <<insBootNo, insPc, insMsg, insTaken, insSent, insNet, insNextId, insLost, insRaced>>
      /\ InsTypes
  BY DEF InsLog, Fifo!Put, insRam, insGhosts, InsInv
<1>2. q \in Seq(LogRecords) /\ new \in LogRecords
  BY <1>1 DEF InsTypes, InsRings, LogRecords
<1>3. insQueue'["critical"] = q \o <<new>>
  BY <1>1 DEF InsTypes, InsRings
<1> HIDE DEF new
<1>4. /\ q \o <<new>> \in Seq(LogRecords) /\ Len(q \o <<new>>) = Len(q) + 1
      /\ \A i \in 1..Len(q) : (q \o <<new>>)[i] = q[i]
  <2> HIDE DEF q
  <2> QED BY <1>2
<1>5. InsTypes'
  <2>1. insQueue' = [insQueue EXCEPT !["critical"] = q \o <<new>>]
    BY <1>1 DEF new
  <2>2. insQueue' \in [InsRings -> Seq(LogRecords)]
    BY <1>1, <1>4, <2>1 DEF InsTypes
  <2> QED BY <1>1, <2>2 DEF InsTypes
<1>6. ASSUME NEW n \in Nat, NEW ids, IsFront(n, ids) PROVE IsFront(n, ids)'
  <2>1. n <= Len(q) /\ FrontIds(n) = ids /\ Len(q) \in Nat
    BY <1>2, <1>6 DEF IsFront
  <2>2. \A i \in 1..n : insQueue'["critical"][i] = q[i]
    BY <1>3, <1>4, <2>1
  <2>3. FrontIds(n)' = FrontIds(n)
    BY <2>2 DEF FrontIds
  <2>4. n <= Len(insQueue'["critical"])
    BY <1>3, <1>4, <2>1
  <2> QED BY <2>1, <2>3, <2>4 DEF IsFront
<1>7. insTaken.len \in Nat /\ insTaken.ids \in SUBSET Nat /\ insMsg.len \in Nat
  BY <1>1 DEF InsTypes
<1>8. TakenIsFront => TakenIsFront'
  <2> SUFFICES ASSUME IsFront(insTaken.len, insTaken.ids) PROVE IsFront(insTaken.len, insTaken.ids)'
    BY <1>1 DEF TakenIsFront
  <2>1. PICK n \in Nat, ids \in SUBSET Nat : n = insTaken.len /\ ids = insTaken.ids
    BY <1>7
  <2>2. IsFront(n, ids)'
    BY <1>6, <2>1
  <2> QED BY <1>1, <2>1, <2>2 DEF IsFront, FrontIds
<1>9. RecordedIsFront => RecordedIsFront'
  <2> SUFFICES ASSUME RecordedIsFront, NEW m \in insNet, m.id = insMsg.id
               PROVE  IsFront(insMsg.len, m.ids)'
    BY <1>1 DEF RecordedIsFront
  <2>1. PICK n \in Nat : n = insMsg.len
    BY <1>7
  <2>2. IsFront(n, m.ids)'
    BY <1>6, <2>1 DEF RecordedIsFront
  <2> QED BY <1>1, <2>1, <2>2 DEF IsFront, FrontIds
<1>10. Numbered' /\ Given' /\ (SentIsTaken => SentIsTaken')
  BY <1>1 DEF InsInv, Numbered, Given, SentIsTaken
<1> QED BY <1>1, <1>5, <1>8, <1>9, <1>10 DEF InsInv

(* The other ring.                                                         *)
LEMMA OtherRing ==
    ASSUME InsTypes, InsOther \/ InsMetric
    PROVE  /\ insQueue' \in [InsRings -> Seq(LogRecords)]
           /\ insQueue'["critical"] = insQueue["critical"]
<1> DEFINE q == insQueue["non_critical"]
<1>1. q \in Seq(LogRecords)
  BY DEF InsTypes, InsRings
<1>2. CASE InsOther
  <2> DEFINE n == InsConsumed("non_critical")
  <2>1. insQueue' = [insQueue EXCEPT !["non_critical"] = SubSeq(q, n + 1, Len(q))]
    BY <1>2 DEF InsOther, Fifo!Drop
  <2>2. n \in 0..Len(q)
    BY <1>1, Consumed DEF InsRings
  <2>3. SubSeq(q, n + 1, Len(q)) \in Seq(LogRecords)
    <3> HIDE DEF q, n
    <3> QED BY <1>1, <2>2
  <2> HIDE DEF n
  <2> QED BY <2>1, <2>3 DEF InsTypes, InsRings
<1>3. CASE InsMetric
  <2> DEFINE new == [id |-> 0, boot |-> insBootNo]
  <2>1. insQueue' = [insQueue EXCEPT !["non_critical"] = q \o <<new>>]
    BY <1>3 DEF InsMetric, Fifo!Put
  <2>2. new \in LogRecords
    BY DEF InsTypes, LogRecords
  <2>3. q \o <<new>> \in Seq(LogRecords)
    <3> HIDE DEF q, new
    <3> QED BY <1>1, <2>2
  <2> QED BY <2>1, <2>3 DEF InsTypes, InsRings
<1> QED BY <1>2, <1>3

(* Steps that leave the critical ring and the messages alone.              *)
LEMMA ReportRests ==
    ASSUME InsInv,
           InsBegin \/ InsBootStore \/ InsOther \/ InsEnd \/ InsTimeout \/ InsMetric \/ UNCHANGED insVars
    PROVE  InsInv'
<1>1. InsTypes
  BY DEF InsInv
<1>2. CASE InsOther
  <2>1. /\ insQueue' \in [InsRings -> Seq(LogRecords)]
        /\ insQueue'["critical"] = insQueue["critical"]
    BY <1>1, <1>2, OtherRing
  <2>2. /\ UNCHANGED <<insMade, insBootNo, insNet, insNextId, insMsg, insLost, insRaced, insTaken, insSent>>
        /\ insPc = "other" /\ insPc' \in {"publish", "end"}
    BY <1>2 DEF InsOther, insGhosts
  <2> QED BY <2>1, <2>2, ReportRest
<1>3. CASE InsMetric
  <2>1. /\ insQueue' \in [InsRings -> Seq(LogRecords)]
        /\ insQueue'["critical"] = insQueue["critical"]
    BY <1>1, <1>3, OtherRing
  <2>2. UNCHANGED <<insMade, insBootNo, insNet, insNextId, insMsg, insLost, insRaced, insTaken, insSent, insPc>>
    BY <1>3 DEF InsMetric, insRam, insGhosts, insPass
  <2> QED BY <2>1, <2>2, ReportRest
<1>4. CASE InsBegin \/ InsBootStore \/ InsEnd \/ InsTimeout \/ UNCHANGED insVars
  <2>1. insQueue' = insQueue /\ insQueue' \in [InsRings -> Seq(LogRecords)]
    BY <1>1, <1>4 DEF InsBegin, InsBootStore, InsEnd, InsTimeout, insVars, insStore, InsTypes
  <2>2. UNCHANGED <<insMade, insBootNo, insNet, insNextId, insMsg, insLost, insRaced>>
    BY <1>4 DEF InsBegin, InsBootStore, InsEnd, InsTimeout, insVars, insStore, insRam, insGhosts
  <2>3. \/ UNCHANGED <<insTaken, insSent>> /\ (insPc' = insPc \/ insPc' \in {"idle", "boot", "read"})
        \/ insTaken' = InsNothing /\ insSent' = 0 /\ insPc' = "idle"
        \/ insTaken' = insTaken /\ insSent' = 0 /\ insPc' = "read"
    BY <1>4 DEF InsBegin, InsBootStore, InsEnd, InsTimeout, insVars, insRam, insPass
  <2> QED BY <2>1, <2>2, <2>3, ReportRest
<1> QED BY <1>2, <1>3, <1>4

(* Every step of the reporting keeps the invariant.                        *)
LEMMA InsStep == InsInv /\ [InsNext]_insVars => InsInv'
<1> SUFFICES ASSUME InsInv, [InsNext]_insVars PROVE InsInv'
  OBVIOUS
<1> QED BY ReportRests, ReportRead, ReportSends, ReportRecords, ReportAck, ReportRestarts, ReportLogs
        DEF InsNext, InsHandler

(* A record leaves the critical ring before a message with it was          *)
(* acknowledged only after an acknowledgement came between the read and    *)
(* the record of a later pass (esp_insights.c:253, 409-438), for any       *)
(* number of records, messages, losses and restarts.                       *)
THEOREM LostOnlyByRace == InsSpec => []InsLostOnlyByRace
<1>1. InsInv => InsLostOnlyByRace
  BY DEF InsInv, InsLostOnlyByRace
<1> QED BY <1>1, InsInitInv, InsStep, PTL DEF InsSpec

(* What a step of the reporting does to the rings is a step of the queues. *)
LEMMA RingsStep == InsTypes /\ [InsNext]_insVars => [Fifo!Next]_insQueue
<1> SUFFICES ASSUME InsTypes, InsNext \/ UNCHANGED insVars PROVE Fifo!Next \/ insQueue' = insQueue
  OBVIOUS
<1>1. /\ \A r \in InsRings : insQueue[r] \in Seq(LogRecords)
      /\ "critical" \in InsRings /\ "non_critical" \in InsRings
  BY DEF InsTypes, InsRings
<1>2. ASSUME NEW r \in InsRings, NEW n \in Nat, Fifo!Drop(r, n) PROVE Fifo!Next
  <2>1. n \in 0..Len(insQueue[r])
    BY <1>1, <1>2 DEF Fifo!Drop
  <2> QED BY <1>2, <2>1 DEF Fifo!Next
<1>3. ASSUME NEW r \in InsRings, NEW id \in 0..InsMaxMade, Fifo!Put(r, <<[id |-> id, boot |-> insBootNo]>>)
      PROVE  Fifo!Next
  <2>1. <<[id |-> id, boot |-> insBootNo]>> \in InsRecords(r)
    BY DEF InsRecords, InsTypes
  <2> QED BY <1>3, <2>1 DEF Fifo!Next
<1>4. CASE InsOther
  <2>1. InsConsumed("non_critical") \in Nat
    BY <1>1, Consumed
  <2> QED BY <1>1, <1>2, <1>4, <2>1 DEF InsOther
<1>5. ASSUME NEW m \in insNet, InsAck(m) PROVE Fifo!Next \/ insQueue' = insQueue
  <2>1. insMsg.len \in Nat
    BY DEF InsTypes
  <2> QED BY <1>1, <1>2, <1>5, <2>1 DEF InsAck
<1>6. CASE InsLog
  <2>1. insMade + 1 \in 0..InsMaxMade
    BY <1>6, InsAssumption DEF InsLog, InsTypes
  <2> QED BY <1>1, <1>3, <1>6, <2>1 DEF InsLog
<1>7. CASE InsMetric
  <2>1. 0 \in 0..InsMaxMade
    BY InsAssumption
  <2> QED BY <1>1, <1>3, <1>7, <2>1 DEF InsMetric
<1>8. CASE InsPowerOn
  BY <1>8 DEF InsPowerOn, Fifo!Next
<1>9. CASE ~(InsOther \/ InsLog \/ InsMetric \/ InsPowerOn \/ \E m \in insNet : InsAck(m))
  BY <1>9 DEF InsNext, InsHandler, InsBegin, InsBootSend, InsBootStore, InsRead, InsSend, InsRecord,
     InsEnd, InsTimeout, InsOthersPublish, InsReset, insVars, insStore
<1> QED BY <1>4, <1>5, <1>6, <1>7, <1>8, <1>9

(* The reporter uses the rings only as the store offers them: records      *)
(* enter whole, at the back, and the front is released up to what the ring *)
(* holds, whatever is acknowledged twice, late or after a restart          *)
(* (esp_insights.c:254, 409-417, 532-548).                                 *)
THEOREM ReporterUsesQueues == InsSpec => Fifo!Spec
<1>1. InsInit => InsInv /\ Fifo!Init
  BY InsInitInv DEF InsInit
<1>2. InsInv => InsTypes
  BY DEF InsInv
<1> QED BY <1>1, <1>2, InsStep, RingsStep, PTL DEF InsSpec, Fifo!Spec

-----------------------------------------------------------------------------
(* Insights: its types; what the client gives for a message is its number  *)
(* or -1.                                                                  *)
InsTypesMore == InsInv /\ InsTypeOK /\ insSent \in -1..InsMaxId

LEMMA InsTypesBegin == InsInit => InsTypesMore
<1> SUFFICES ASSUME InsInit PROVE InsTypesMore
  OBVIOUS
<1>1. {InsRoom, InsReadBuf, InsMaxMade, InsMaxId} \subseteq Nat \ {0}
  BY InsAssumption
<1>2. Len(insQueue["critical"]) = 0
  BY DEF InsInit, Fifo!Init, InsRings
<1>3. /\ insBootNo = 0 /\ insPc = "idle" /\ insBusy = FALSE /\ insTimer = FALSE
      /\ insMsg.id = 0 /\ insBoot = -1 /\ insTaken.len = 0 /\ insNextId = 1 /\ insSent = 0
  BY DEF InsInit, InsNothing
<1>4. /\ Len(insQueue["critical"]) <= InsRoom /\ insTaken.len <= InsReadBuf
      /\ insMsg.id \in 0..InsMaxId /\ insNextId \in 1..InsMaxId + 1 /\ insBootNo \in 0..1
      /\ insBoot \in -1..InsMaxId /\ insSent \in -1..InsMaxId
  BY <1>1, <1>2, <1>3
<1> QED BY <1>3, <1>4, InsInitInv DEF InsTypesMore, InsTypeOK

(* Nothing but a record logged makes the critical ring longer, and a       *)
(* record is logged only where there is room.                              *)
LEMMA RingHasRoom ==
    ASSUME InsTypesMore, InsNext \/ UNCHANGED insVars
    PROVE  Len(insQueue'["critical"]) <= InsRoom
<1> DEFINE q == insQueue["critical"]
<1>1. q \in Seq(LogRecords) /\ InsTypes
  BY DEF InsTypesMore, InsInv, InsTypes, InsRings
<1>2. Len(q) <= InsRoom /\ Len(q) \in Nat /\ InsRoom \in Nat \ {0}
  BY <1>1, InsAssumption DEF InsTypesMore, InsTypeOK
<1>3. CASE InsBegin \/ InsBootSend \/ InsBootStore \/ InsRead \/ InsSend \/ InsRecord \/ InsEnd
           \/ InsTimeout \/ InsOthersPublish \/ InsReset \/ UNCHANGED insVars
  <2>1. insQueue' = insQueue
    BY <1>3 DEF InsBegin, InsBootSend, InsBootStore, InsRead, InsSend, InsRecord, InsEnd,
       InsTimeout, InsOthersPublish, InsReset, insVars, insStore
  <2> QED BY <1>2, <2>1
<1>4. CASE InsOther \/ InsMetric
  BY <1>1, <1>2, <1>4, OtherRing
<1>5. ASSUME NEW m \in insNet, InsAck(m) PROVE Len(insQueue'["critical"]) <= InsRoom
  <2>1. CASE insQueue' = insQueue
    BY <1>2, <2>1
  <2>2. CASE Fifo!Drop("critical", insMsg.len)
    <3> DEFINE n == insMsg.len
    <3>1. n \in Nat /\ n <= Len(q)
      BY <1>1, <2>2 DEF Fifo!Drop, InsTypes
    <3>2. insQueue'["critical"] = SubSeq(q, n + 1, Len(q))
      BY <1>1, <2>2 DEF Fifo!Drop, InsTypes, InsRings
    <3> HIDE DEF q, n
    <3>3. Len(SubSeq(q, n + 1, Len(q))) <= Len(q)
      BY <1>1, <1>2, <3>1
    <3>4. Len(SubSeq(q, n + 1, Len(q))) \in Nat
      BY <1>1, <1>2, <3>1
    <3>5. PICK l \in Nat : l = Len(SubSeq(q, n + 1, Len(q)))
      BY <3>4
    <3>6. PICK k \in Nat : k = Len(q)
      BY <1>2
    <3>7. l <= k /\ k <= InsRoom
      BY <1>2, <3>3, <3>5, <3>6, Zenon
    <3>8. l <= InsRoom
      BY <1>2, <3>7
    <3>9. Len(insQueue'["critical"]) = l
      BY <3>2, <3>5, Zenon
    <3> QED BY <3>8, <3>9
  <2> QED BY <1>5, <2>1, <2>2 DEF InsAck
<1>6. CASE InsPowerOn
  <2>1. insQueue' = [r \in InsRings |-> <<>>]
    BY <1>6 DEF InsPowerOn, Fifo!Empty
  <2> QED BY <1>2, <2>1 DEF InsRings
<1>7. CASE InsLog
  <2> DEFINE new == [id |-> insMade + 1, boot |-> insBootNo]
  <2>1. insQueue'["critical"] = q \o <<new>> /\ Len(q) < InsRoom
    BY <1>1, <1>7 DEF InsLog, Fifo!Put, InsTypes, InsRings
  <2>2. new \in LogRecords
    BY <1>1 DEF InsTypes, LogRecords
  <2> HIDE DEF new, q
  <2>3. Len(q \o <<new>>) = Len(q) + 1
    BY <1>1, <2>2
  <2> QED BY <1>2, <2>1, <2>3
<1> QED BY <1>3, <1>4, <1>5, <1>6, <1>7 DEF InsNext, InsHandler

(* The numbers of messages: those that are kept are numbers the client     *)
(* has given.                                                              *)
LEMMA NumbersFit ==
    ASSUME InsTypesMore, InsNext \/ UNCHANGED insVars
    PROVE  /\ insNextId' \in 1..InsMaxId + 1
           /\ insSent' \in -1..InsMaxId /\ insBoot' \in -1..InsMaxId
<1>1. /\ InsMaxId \in Nat \ {0} /\ insNextId \in 1..InsMaxId + 1
      /\ insSent \in -1..InsMaxId /\ insBoot \in -1..InsMaxId
  BY InsAssumption DEF InsTypesMore, InsTypeOK
<1>2. ASSUME NEW ids, InsPublish(ids)
      PROVE  insNextId' \in 1..InsMaxId + 1 /\ insSent' \in -1..InsMaxId
  BY <1>1, <1>2 DEF InsPublish
<1>3. CASE InsBootSend \/ InsSend
  <2>1. insBoot' = insBoot /\ \E ids : InsPublish(ids)
    BY <1>3 DEF InsBootSend, InsSend
  <2> QED BY <1>1, <1>2, <2>1
<1>4. CASE InsBegin \/ InsBootStore \/ InsRead \/ InsOther \/ InsRecord \/ InsEnd \/ InsTimeout
           \/ InsLog \/ InsMetric \/ UNCHANGED insVars
  <2>1. /\ insNextId' = insNextId /\ insSent' \in {insSent, 0} /\ insBoot' \in {insBoot, insSent, -1}
    BY <1>4 DEF InsBegin, InsBootStore, InsRead, InsOther, InsRecord, InsEnd, InsTimeout, InsLog,
       InsMetric, insVars, insRam, insPass
  <2> QED BY <1>1, <2>1
<1>5. ASSUME NEW m \in insNet, InsAck(m)
      PROVE  insNextId' = insNextId /\ insSent' = insSent /\ insBoot' \in {insBoot, 0}
  BY <1>5 DEF InsAck, insPass
<1>6. CASE InsOthersPublish
  BY <1>1, <1>6 DEF InsOthersPublish, insPass
<1>7. CASE InsReset \/ InsPowerOn
  BY <1>1, <1>7 DEF InsReset, InsPowerOn, InsRestart
<1> QED BY <1>1, <1>3, <1>4, <1>5, <1>6, <1>7 DEF InsNext, InsHandler

(* A pass reads no more than its buffer holds.                             *)
LEMMA ReadsBuffer ==
    ASSUME InsTypes
    PROVE  InsConsumed("critical") \in 0..InsReadBuf
<1> DEFINE n == IF Len(insQueue["critical"]) < InsReadBuf THEN Len(insQueue["critical"]) ELSE InsReadBuf
<1> DEFINE Same == {k \in 0..n : \A i \in 1..k :
                        insQueue["critical"][i].boot = insQueue["critical"][1].boot}
<1>1. n \in Nat /\ n <= InsReadBuf /\ InsReadBuf \in Nat
  BY InsAssumption DEF InsTypes, InsRings
<1>2. InsConsumed("critical") = CHOOSE k \in Same : \A j \in Same : j <= k
  BY DEF InsConsumed
<1> HIDE DEF n
<1>3. 0 \in Same /\ Same \in SUBSET (0..n)
  BY <1>1
<1> HIDE DEF Same
<1>4. \E k \in Same : \A j \in Same : j <= k
  BY <1>1, <1>3, Greatest
<1>5. InsConsumed("critical") \in Same
  BY <1>2, <1>4
<1>6. InsConsumed("critical") \in 0..n
  BY <1>3, <1>5
<1> QED BY <1>1, <1>6

LEMMA InsTypesStep == InsTypesMore /\ [InsNext]_insVars => InsTypesMore'
<1> SUFFICES ASSUME InsTypesMore, InsNext \/ UNCHANGED insVars PROVE InsTypesMore'
  OBVIOUS
<1>1. InsInv /\ InsInv' /\ InsTypes /\ InsTypes'
  BY InsStep DEF InsTypesMore, InsInv
<1>2. /\ Len(insQueue'["critical"]) <= InsRoom /\ insNextId' \in 1..InsMaxId + 1
      /\ insSent' \in -1..InsMaxId /\ insBoot' \in -1..InsMaxId
  BY RingHasRoom, NumbersFit
<1>3. insBootNo' \in 0..1
  BY <1>1 DEF InsTypes
<1>4. insMsg'.id \in 0..InsMaxId
  <2>1. insMsg'.id \in Nat /\ insMsg'.id < insNextId'
    BY <1>1 DEF InsInv, InsTypes, Numbered
  <2> QED BY <1>2, <2>1, InsAssumption
<1>5. insTaken'.len <= InsReadBuf
  <2>1. insTaken.len <= InsReadBuf /\ InsReadBuf \in Nat \ {0}
    BY InsAssumption DEF InsTypesMore, InsTypeOK
  <2>2. CASE InsRead
    BY <1>1, <2>2, ReadsBuffer, InsAssumption DEF InsRead
  <2>3. CASE ~InsRead
    <3>1. insTaken' = insTaken \/ insTaken' = InsNothing
      BY <2>3 DEF InsNext, InsHandler, InsBegin, InsBootSend, InsBootStore, InsOther, InsSend,
         InsRecord, InsEnd, InsAck, InsTimeout, InsOthersPublish, InsLog, InsMetric, InsReset,
         InsPowerOn, InsRestart, insVars, insRam, insPass
    <3> QED BY <2>1, <3>1 DEF InsNothing
  <2> QED BY <2>2, <2>3
<1>6. /\ insPc' \in {"idle", "boot", "store", "read", "other", "publish", "record", "end"}
      /\ insBusy' \in BOOLEAN /\ insTimer' \in BOOLEAN
  <2>1. /\ insPc \in {"idle", "boot", "store", "read", "other", "publish", "record", "end"}
        /\ insBusy \in BOOLEAN /\ insTimer \in BOOLEAN
    BY DEF InsTypesMore, InsTypeOK
  <2>2. CASE InsHandler
    BY <2>1, <2>2 DEF InsHandler, InsBegin, InsBootSend, InsBootStore, InsRead, InsOther, InsSend,
       InsRecord, InsEnd
  <2>3. CASE ~InsHandler
    BY <2>1, <2>3 DEF InsNext, InsAck, InsTimeout, InsOthersPublish, InsLog, InsMetric, InsReset,
       InsPowerOn, InsRestart, insVars, insRam, insPass
  <2> QED BY <2>2, <2>3
<1> QED BY <1>1, <1>2, <1>3, <1>4, <1>5, <1>6 DEF InsTypesMore, InsTypeOK
=============================================================================
