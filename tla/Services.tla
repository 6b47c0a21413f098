------------------------------ MODULE Services ------------------------------
(***************************************************************************)
(* The services of the fan side by side, each a component of its own: no   *)
(* two of the modules below share a variable, and no property speaks of    *)
(* two of them, so that a run of all is a run of each with the others at   *)
(* rest.  `part`, chosen at the start, says which one takes the steps: TLC *)
(* checks the sum of the state spaces and not their product.               *)
(***************************************************************************)
EXTENDS RtcStore, Insights, ParamReport, WorkQueue, Agent, ScheduleDates, Schedule, Ota,
        AppWifi, Fan, MqttGlue, LocalCtrl, Claim

VARIABLE part

servicesVars == <<part, rtcVars, insVars, rptVars, wqVars, agtVars, datVars, schVars, otaVars,
                  wifiVars, fanVars, gluVars, locVars, clmVars>>

Parts == {"store", "insights", "params", "queue", "agent", "dates", "schedule", "ota", "wifi",
          "fan", "glue", "local", "claim"}

ServicesInit ==
    /\ part \in Parts
    /\ RtcInit /\ InsInit /\ RptInit /\ WqInit /\ AgtInit /\ SchInit /\ OtaInit /\ FanInit
    /\ GluInit /\ LocInit
    /\ IF part = "dates" THEN DatInit
       ELSE datCfg = {} /\ datNow = 0 /\ datTarget = DatNever
    /\ ClmInit /\ (part # "claim" => clmKind = "self")
    /\ WifiInit /\ (part # "wifi" => wifiCreds = "none")

OthersRest(p) ==
    /\ part = p /\ UNCHANGED part
    /\ p # "store" => UNCHANGED rtcVars
    /\ p # "insights" => UNCHANGED insVars
    /\ p # "params" => UNCHANGED rptVars
    /\ p # "queue" => UNCHANGED wqVars
    /\ p # "agent" => UNCHANGED agtVars
    /\ p # "dates" => UNCHANGED datVars
    /\ p # "schedule" => UNCHANGED schVars
    /\ p # "ota" => UNCHANGED otaVars
    /\ p # "wifi" => UNCHANGED wifiVars
    /\ p # "fan" => UNCHANGED fanVars
    /\ p # "glue" => UNCHANGED gluVars
    /\ p # "local" => UNCHANGED locVars
    /\ p # "claim" => UNCHANGED clmVars

StoreSteps == OthersRest("store") /\ RtcNext
InsightsSteps == OthersRest("insights") /\ InsNext
ParamsSteps == OthersRest("params") /\ RptNext
QueueSteps == OthersRest("queue") /\ WqNext
AgentSteps == OthersRest("agent") /\ AgtNext
DatesSteps == OthersRest("dates") /\ DatNextStep
ScheduleSteps == OthersRest("schedule") /\ SchNext
OtaSteps == OthersRest("ota") /\ OtaNext
WifiSteps == OthersRest("wifi") /\ WifiNext
FanSteps == OthersRest("fan") /\ FanNext
GlueSteps == OthersRest("glue") /\ GluNextStep
LocalSteps == OthersRest("local") /\ LocNext
ClaimSteps == OthersRest("claim") /\ ClmNext

ServicesNext ==
    \/ StoreSteps \/ InsightsSteps \/ ParamsSteps \/ QueueSteps \/ AgentSteps
    \/ DatesSteps \/ ScheduleSteps \/ OtaSteps \/ WifiSteps \/ FanSteps
    \/ GlueSteps \/ LocalSteps \/ ClaimSteps

\* WqFair, AgtFair, WifiFair, LocFair and ClmFair, each for the behaviours of its own part.
ServicesFair ==
    /\ \A t \in WqTasks : WF_wqVars(part = "queue" /\ WqServe(t))
    /\ WF_agtVars(part = "agent" /\ AgtTask)
    /\ WF_agtVars(part = "agent" /\ AgtEvent)
    /\ WF_agtVars(part = "agent" /\ AgtCloudHandles)
    /\ WF_wifiVars(part = "wifi" /\ WifiMainTask)
    /\ WF_wifiVars(part = "wifi" /\ WifiLoop)
    /\ WF_wifiVars(part = "wifi" /\ WifiPhone)
    /\ WF_wifiVars(part = "wifi" /\ WifiJoins)
    /\ WF_wifiVars(part = "wifi" /\ WifiLost)
    /\ WF_locVars(part = "local" /\ LocTask)
    /\ WF_locVars(part = "local" /\ LocEventLoop)
    /\ WF_locVars(part = "local" /\ LocMgrEnds)
    /\ WF_clmVars(part = "claim" /\ ClmAgentTask)
    /\ WF_clmVars(part = "claim" /\ ClmHandler)
    /\ WF_clmVars(part = "claim" /\ ClmPhoneBegins)

ServicesSpec == ServicesInit /\ [][ServicesNext]_servicesVars /\ ServicesFair

-----------------------------------------------------------------------------
\* Values for the constants that are no plain sets.
SmallRings == [r \in {"critical", "non_critical"} |-> IF r = "critical" THEN 4 ELSE 5]
SmallHeaders == [r \in {"critical", "non_critical"} |-> IF r = "critical" THEN 0 ELSE 1]
WeekSets == {{}, {0}, {3}, {0, 3, 6}, {1, 2}, 0..6}
MonthSets == {{}, {1}, {12}, {2, 5}, {1, 7, 12}, 1..12}
Windows == {[start |-> 1, end |-> 3], [start |-> 5, end |-> 0]}

-----------------------------------------------------------------------------
\* The types of all services: of the part that takes the steps, the others being
\* as in one of their own initial states.
ServicesTypeOK ==
    /\ part = "store" => RtcTypeOK
    /\ part = "insights" => InsTypeOK
    /\ part = "params" => RptTypeOK
    /\ part = "queue" => WqTypeOK
    /\ part = "agent" => AgtTypeOK
    /\ part = "schedule" => SchTypeOK
    /\ part = "ota" => OtaTypeOK
    /\ part = "wifi" => WifiTypeOK
    /\ part = "fan" => FanTypeOK
    /\ part = "glue" => GluTypeOK
    /\ part = "local" => LocTypeOK
    /\ part = "claim" => ClmTypeOK
=============================================================================
