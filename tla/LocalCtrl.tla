----------------------------- MODULE LocalCtrl -----------------------------
(***************************************************************************)
(* Local control (esp_rmaker_local_ctrl.c) uses the same HTTP server as    *)
(* provisioning does, so that it must wait for the end of provisioning.    *)
(* The agent asks for it on the work queue, once it has an address; the    *)
(* events of provisioning come on the event loop.                          *)
(***************************************************************************)
EXTENDS Naturals, Sequences

VARIABLES
    locWaits,    \* wait_for_wifi_prov
    locNamed,    \* g_serv_name is set
    locServices, \* how many times the service was started
    locAgent,    \* the agent: "network", "ask", "name", "over"
    locLoop,     \* the event handler: "idle", "deinit" (between its test and its start)
    locMgr,      \* the provisioning manager: "new", "on", "joined", "ended", "off"
    locEvents,   \* the event loop's queue
    locUnheard   \* history: the name was set after the handler had looked for it

locVars == <<locWaits, locNamed, locServices, locAgent, locLoop, locMgr, locEvents, locUnheard>>

LocInit ==
    /\ locWaits = FALSE /\ locNamed = FALSE /\ locServices = 0
    /\ locAgent = "network" /\ locLoop = "idle" /\ locMgr = "new" /\ locEvents = <<>>
    /\ locUnheard = FALSE

-----------------------------------------------------------------------------
\* esp_rmaker_start_local_ctrl_service tests the flag ...
LocAsk ==
    /\ locAgent = "ask"
    /\ IF locWaits THEN locAgent' = "name" /\ UNCHANGED locServices
       ELSE locAgent' = "over" /\ locServices' = locServices + 1
    /\ UNCHANGED <<locWaits, locNamed, locLoop, locMgr, locEvents, locUnheard>>

\* The manager's end has been handled, with the flag reset.
LocHandled == locMgr = "off" /\ ~locWaits /\ locLoop = "idle"

\* ... and leaves the name for the handler of the end.
LocName ==
    /\ locAgent = "name"
    /\ locAgent' = "over"
    /\ locNamed' = TRUE
    /\ locUnheard' = LocHandled
    /\ UNCHANGED <<locWaits, locServices, locLoop, locMgr, locEvents>>

-----------------------------------------------------------------------------
LocHandle(event) ==
    /\ locLoop = "idle" /\ locEvents # <<>> /\ Head(locEvents) = event
    /\ locEvents' = Tail(locEvents)

\* WIFI_PROV_START is not heeded.
LocOnStart_Ignored == locWaits

LocOnStart == TRUE

\* esp_rmaker_local_ctrl_prov_event_handler
LocStart ==
    /\ LocHandle("start")
    /\ locWaits' = LocOnStart
    /\ UNCHANGED <<locNamed, locServices, locAgent, locLoop, locMgr, locUnheard>>

\* The flag is reset before it is tested.
LocDeinit_Swapped ==
    /\ LocHandle("deinit")
    /\ locWaits' = FALSE
    /\ UNCHANGED <<locLoop, locNamed, locServices, locAgent, locMgr, locUnheard>>

LocDeinit ==
    /\ LocHandle("deinit")
    /\ locWaits' = FALSE
    /\ locLoop' = IF locWaits THEN "deinit" ELSE "idle"
    /\ UNCHANGED <<locNamed, locServices, locAgent, locMgr, locUnheard>>

LocServe ==
    /\ locLoop = "deinit"
    /\ locLoop' = "idle"
    /\ locNamed' = FALSE
    /\ locServices' = IF locNamed THEN locServices + 1 ELSE locServices
    /\ UNCHANGED <<locWaits, locAgent, locMgr, locEvents, locUnheard>>

\* The agent's handler of IP_EVENT_STA_GOT_IP.
LocGotIp ==
    /\ LocHandle("got_ip")
    /\ locAgent' = IF locAgent = "network" THEN "ask" ELSE locAgent
    /\ UNCHANGED <<locWaits, locNamed, locServices, locLoop, locMgr, locUnheard>>

\* app_wifi's handler of WIFI_PROV_END
LocEnd ==
    /\ locLoop = "idle" /\ locEvents # <<>> /\ Head(locEvents) = "end"
    /\ locMgr' = "off"
    /\ locEvents' = Append(Tail(locEvents), "deinit")
    /\ UNCHANGED <<locWaits, locNamed, locServices, locAgent, locLoop, locUnheard>>

-----------------------------------------------------------------------------
LocPost(mgr, events) ==
    /\ locMgr' = mgr /\ locEvents' = locEvents \o events
    /\ UNCHANGED <<locWaits, locNamed, locServices, locAgent, locLoop, locUnheard>>

\* app_wifi_start: provisioning, or only the release of the manager.
LocProvision == locMgr = "new" /\ LocPost("on", <<"start">>)
LocRelease == locMgr = "new" /\ LocPost("off", <<"deinit", "got_ip">>)

\* The phone's credentials work, which takes it longer than the loop takes for
\* the start; the manager ends after that, or on the time-out.
LocJoins == locMgr = "on" /\ locEvents = <<>> /\ LocPost("joined", <<"got_ip">>)
LocMgrEnds == locMgr \in {"on", "joined"} /\ LocPost("ended", <<"end">>)

\* The agent finds the station associated without the event.
LocConnected ==
    /\ locAgent = "network" /\ locMgr = "joined"
    /\ locAgent' = "ask"
    /\ UNCHANGED <<locWaits, locNamed, locServices, locLoop, locMgr, locEvents, locUnheard>>

LocTask == LocConnected \/ LocAsk \/ LocName
LocEventLoop == LocStart \/ LocDeinit \/ LocServe \/ LocGotIp \/ LocEnd
LocOutside == LocProvision \/ LocRelease \/ LocJoins \/ LocMgrEnds

LocNext == LocTask \/ LocEventLoop \/ LocOutside

\* The tasks run and the manager comes to its end.
LocFair == WF_locVars(LocTask) /\ WF_locVars(LocEventLoop) /\ WF_locVars(LocMgrEnds)

LocSpec == LocInit /\ [][LocNext]_locVars /\ LocFair

-----------------------------------------------------------------------------
LocTypeOK ==
    /\ {locWaits, locNamed, locUnheard} \subseteq BOOLEAN /\ locServices \in 0..1
    /\ locAgent \in {"network", "ask", "name", "over"} /\ locLoop \in {"idle", "deinit"}
    /\ locMgr \in {"new", "on", "joined", "ended", "off"} /\ Len(locEvents) <= 4

\* Local control never runs beside provisioning: the agent's look at the flag
\* comes after the event of the start, and the flag falls with the manager's end
\* (esp_rmaker_local_ctrl.c:346-371, 400-402).
LocServesAlone == locServices # 0 => locMgr = "off"

\* Once asked for, local control is started when provisioning has ended, unless
\* that end was handled between the agent's look at the flag and its leaving of
\* the name (esp_rmaker_local_ctrl.c:355-363, 400-407).
LocServes == (locAgent = "ask") ~> (locServices = 1 \/ locUnheard)
=============================================================================
