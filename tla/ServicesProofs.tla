--------------------------- MODULE ServicesProofs ----------------------------
(***************************************************************************)
(* Proofs about the services side by side, for every value of their        *)
(* constants.                                                              *)
(*                                                                         *)
(* A step of one part leaves the variables of the others alone, so that    *)
(* what a run of Services does to the variables of a service is a run of   *)
(* that service alone.  What RmakerProofs and DeviceProofs say of each     *)
(* then holds of all of them together, their types included.               *)
(***************************************************************************)
EXTENDS RmakerProofs, DeviceProofs, Services

-----------------------------------------------------------------------------
(* The services begin as each of them does; the dates only when they take  *)
(* the steps.                                                              *)
LEMMA EachBegins ==
    ServicesInit =>
        /\ RtcInit /\ InsInit /\ RptInit /\ WqInit /\ AgtInit /\ SchInit /\ OtaInit
        /\ WifiInit /\ FanInit /\ GluInit /\ LocInit /\ ClmInit
        /\ part = "dates" => DatInit
        /\ part # "dates" => datTarget = DatNever
BY DEF ServicesInit

(* A step of one service changes nothing of another.                       *)
LEMMA EachSteps ==
    ASSUME [ServicesNext]_servicesVars
    PROVE  /\ [RtcNext]_rtcVars /\ [InsNext]_insVars /\ [RptNext]_rptVars /\ [WqNext]_wqVars
           /\ [AgtNext]_agtVars /\ [SchNext]_schVars /\ [OtaNext]_otaVars /\ [WifiNext]_wifiVars
           /\ [FanNext]_fanVars /\ [GluNextStep]_gluVars /\ [LocNext]_locVars /\ [ClmNext]_clmVars
           /\ [DatNextStep]_datVars
           /\ part' = part /\ (part # "dates" => datTarget' = datTarget)
<1>1. CASE UNCHANGED servicesVars
  BY <1>1 DEF servicesVars, datVars
<1>2. CASE StoreSteps
  BY <1>2 DEF StoreSteps, OthersRest, datVars
<1>3. CASE InsightsSteps
  BY <1>3 DEF InsightsSteps, OthersRest, datVars
<1>4. CASE ParamsSteps
  BY <1>4 DEF ParamsSteps, OthersRest, datVars
<1>5. CASE QueueSteps
  BY <1>5 DEF QueueSteps, OthersRest, datVars
<1>6. CASE AgentSteps
  BY <1>6 DEF AgentSteps, OthersRest, datVars
<1>7. CASE DatesSteps
  BY <1>7 DEF DatesSteps, OthersRest
<1>8. CASE ScheduleSteps
  BY <1>8 DEF ScheduleSteps, OthersRest, datVars
<1>9. CASE OtaSteps
  BY <1>9 DEF OtaSteps, OthersRest, datVars
<1>10. CASE WifiSteps
  BY <1>10 DEF WifiSteps, OthersRest, datVars
<1>11. CASE FanSteps
  BY <1>11 DEF FanSteps, OthersRest, datVars
<1>12. CASE GlueSteps
  BY <1>12 DEF GlueSteps, OthersRest, datVars
<1>13. CASE LocalSteps
  BY <1>13 DEF LocalSteps, OthersRest, datVars
<1>14. CASE ClaimSteps
  BY <1>14 DEF ClaimSteps, OthersRest, datVars
<1> QED BY <1>1, <1>2, <1>3, <1>4, <1>5, <1>6, <1>7, <1>8, <1>9, <1>10, <1>11, <1>12, <1>13, <1>14
        DEF ServicesNext

(* A run of all services is a run of each of them alone, but for the       *)
(* fairness of a part that takes no steps: no service writes a variable of *)
(* another, so that checking them side by side checks each.                *)
THEOREM EachRunsAlone ==
    ServicesSpec =>
        /\ RtcSpec /\ InsSpec /\ RptSpec /\ SchSpec /\ OtaSpec /\ FanSpec /\ GluSpec
        /\ part = "dates" => DatSpec
        /\ WqInit /\ [][WqNext]_wqVars
        /\ AgtInit /\ [][AgtNext]_agtVars
        /\ WifiInit /\ [][WifiNext]_wifiVars
        /\ LocInit /\ [][LocNext]_locVars
        /\ ClmInit /\ [][ClmNext]_clmVars
BY EachBegins, EachSteps, PTL
   DEF ServicesSpec, RtcSpec, InsSpec, RptSpec, SchSpec, OtaSpec, FanSpec, GluSpec, DatSpec

(* The dates while another service takes the steps.                       *)
DatesRest == part # "dates" /\ datTarget = DatNever

(* The properties of the services hold when they run side by side: no      *)
(* record of diagnostics is lost but by a race, the cloud and the phone    *)
(* show what the fan does, the budget of messages is kept, the work queue  *)
(* outlives its task, the agent knows its user, schedules are armed and    *)
(* fire once, at the earliest instant they name, an update is told to have *)
(* succeeded only when it has and wakes within its window, subscriptions   *)
(* come again, messages are whole, local control starts after provisioning *)
(* and the credentials kept fit together.                                  *)
THEOREM ServicesSafe ==
    ServicesSpec => [](/\ InsLostOnlyByRace /\ RptStaleOnlyByClash /\ RptBudgetBound
                       /\ WqQueueOutlivesTask /\ AgtKnownUser /\ DatNextIsEarliest
                       /\ SchEnabledArmed /\ SchOnceThenOff /\ OtaSuccessIsTrue
                       /\ OtaWakesInWindow /\ FanShownIsTrue /\ GluResubscribed
                       /\ GluWholeMessages /\ LocServesAlone /\ ClmCredentialsFit)
<1>1. ServicesSpec /\ part = "dates" => []DatNextIsEarliest
  BY EachRunsAlone, NextIsEarliest, PTL
<1>2. ServicesSpec /\ ~(part = "dates") => []DatNextIsEarliest
  <2>1. ServicesInit /\ ~(part = "dates") => DatesRest
    BY EachBegins DEF DatesRest
  <2>2. DatesRest /\ [ServicesNext]_servicesVars => DatesRest'
    BY EachSteps DEF DatesRest
  <2>3. DatesRest => DatNextIsEarliest
    BY DEF DatesRest, DatNextIsEarliest
  <2> QED BY <2>1, <2>2, <2>3, PTL DEF ServicesSpec
<1> QED BY <1>1, <1>2, EachRunsAlone, LostOnlyByRace, StaleOnlyByClash, BudgetIsKept, QueueSafe,
           AgentSafe, EnabledIsArmed, OnceIsThenOff, SuccessIsTrue, WakesInWindow, PhoneShowsFan,
           SubscribedAgain, MessagesAreWhole, LocalSafe, ClaimSafe, PTL

(* Whatever the other services do, the rings of the RTC store are the      *)
(* queues they promise to be (rtc_store.c:152-218, 334-352).               *)
THEOREM ServicesKeepQueues == ServicesSpec => RtcFifoSpec
BY EachRunsAlone, StoreIsFifo, PTL

-----------------------------------------------------------------------------
(* The types of all services, with what keeps each of them in its types.   *)
AllTypes ==
    /\ RtcInv /\ InsTypesMore /\ RptTypeOK /\ WqTypes /\ AgtTypes /\ SchTypesMore /\ OtaTypes
    /\ WifiTypesMore /\ FanTypeOK /\ GluTypes /\ LocTypes /\ ClmTypes

LEMMA AllTypesStep == AllTypes /\ [ServicesNext]_servicesVars => AllTypes'
<1> SUFFICES ASSUME AllTypes, [ServicesNext]_servicesVars PROVE AllTypes'
  OBVIOUS
<1>1. RtcInv' /\ InsTypesMore' /\ RptTypeOK' /\ WqTypes'
  BY EachSteps, StoreStep, InsTypesStep, RptTypesStep, WqTypesStep DEF AllTypes
<1>2. AgtTypes' /\ SchTypesMore' /\ OtaTypes' /\ WifiTypesMore'
  BY EachSteps, AgtTypesStep, SchTypesStep, OtaTypesStep, WifiTypesStep DEF AllTypes
<1>3. FanTypeOK' /\ GluTypes' /\ LocTypes' /\ ClmTypes'
  BY EachSteps, FanTypesStep, GluTypesStep, LocTypesStep, ClmTypesStep DEF AllTypes
<1> QED BY <1>1, <1>2, <1>3 DEF AllTypes

(* Every service keeps its variables in their types, whichever of them     *)
(* takes the steps: no queue, ring or buffer grows beyond the room it has, *)
(* and no counter leaves its range.                                        *)
THEOREM ServicesTypes == ServicesSpec => []ServicesTypeOK
<1>1. ServicesInit => AllTypes
  BY EachBegins, StoreInit, InsTypesBegin, RptTypesBegin, WqTypesBegin, AgtTypesBegin,
     SchTypesBegin, OtaTypesBegin, WifiTypesBegin, FanTypesBegin, GluTypesBegin, LocTypesBegin,
     ClmTypesBegin DEF AllTypes
<1>2. AllTypes => ServicesTypeOK
  BY StoreTypes DEF AllTypes, ServicesTypeOK, InsTypesMore, WqTypes, AgtTypes, SchTypesMore,
     OtaTypes, WifiTypesMore, GluTypes, LocTypes, ClmTypes
<1> QED BY <1>1, <1>2, AllTypesStep, PTL DEF ServicesSpec
=============================================================================
