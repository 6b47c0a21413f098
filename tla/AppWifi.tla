------------------------------ MODULE AppWifi ------------------------------
(***************************************************************************)
(* Wi-Fi provisioning of the fan (app_wifi.c).  app_main waits in          *)
(* app_wifi_start until the station has an address, before the motor's     *)
(* timer and tasks are created.  The event handler runs on the event loop, *)
(* the provisioning time-out on the timer task; the provisioning manager,  *)
(* the phone and the access point are outside the code.                    *)
(***************************************************************************)
EXTENDS Naturals, Sequences

CONSTANTS
    WifiMaxRetries,   \* CONFIG_APP_WIFI_PROV_MAX_RETRY_CNT
    WifiTries,        \* bound: credentials the phone sends
    WifiMaxDrops,     \* bound: times the access point is lost
    WifiMaxEvents     \* bound: events that wait for the loop

ASSUME WifiAssumption == {WifiMaxRetries, WifiTries, WifiMaxEvents} \subseteq Nat \ {0}

VARIABLES
    wifiMain,      \* app_wifi_start: "init", "timer", "wait", "done"
    wifiCreds,     \* credentials in flash: "none", "good", "bad"
    wifiMgr,       \* the manager: "off", "on", "connecting", "success", "ended"
    wifiSta,       \* the station: "off", "idle", "trying", "up"
    wifiEvents,    \* the event loop's queue
    wifiRetries,   \* retries
    wifiTimer,     \* prov_stop_timer: "none", "armed", "over"
    wifiBit,       \* WIFI_CONNECTED_EVENT
    wifiTimedOut,  \* APP_WIFI_EVENT_PROV_TIMEOUT has been posted
    wifiTried, wifiDrops   \* counted for the bounds

wifiVars == <<wifiMain, wifiCreds, wifiMgr, wifiSta, wifiEvents, wifiRetries, wifiTimer, wifiBit,
              wifiTimedOut, wifiTried, wifiDrops>>

WifiInit ==
    /\ wifiMain = "init" /\ wifiCreds \in {"none", "good"} /\ wifiMgr = "off" /\ wifiSta = "off"
    /\ wifiEvents = <<>> /\ wifiRetries = 0 /\ wifiTimer = "none" /\ wifiBit = FALSE
    /\ wifiTimedOut = FALSE /\ wifiTried = 0 /\ wifiDrops = 0

WifiPost(events) ==
    Len(wifiEvents) + Len(events) <= WifiMaxEvents /\ wifiEvents' = wifiEvents \o events

-----------------------------------------------------------------------------
\* app_wifi_start
WifiStart ==
    /\ wifiMain = "init"
    /\ IF wifiCreds = "none"
       THEN wifiMain' = "timer" /\ wifiMgr' = "on" /\ UNCHANGED <<wifiSta, wifiEvents>>
       ELSE wifiMain' = "wait" /\ wifiSta' = "trying" /\ WifiPost(<<"sta_start">>) /\ UNCHANGED wifiMgr
    /\ UNCHANGED <<wifiCreds, wifiRetries, wifiTimer, wifiBit, wifiTimedOut, wifiTried, wifiDrops>>

\* app_wifi_start_timer
WifiStartTimer ==
    /\ wifiMain = "timer"
    /\ wifiMain' = "wait"
    /\ wifiTimer' \in {"armed", "none"}
    /\ UNCHANGED <<wifiCreds, wifiMgr, wifiSta, wifiEvents, wifiRetries, wifiBit, wifiTimedOut,
                   wifiTried, wifiDrops>>

WifiGoOn ==
    /\ wifiMain = "wait" /\ wifiBit
    /\ wifiMain' = "done"
    /\ UNCHANGED <<wifiCreds, wifiMgr, wifiSta, wifiEvents, wifiRetries, wifiTimer, wifiBit,
                   wifiTimedOut, wifiTried, wifiDrops>>

\* app_wifi_prov_stop, when the provisioning time is over.
WifiTimeout ==
    /\ wifiTimer = "armed"
    /\ wifiTimer' = "over"
    /\ wifiTimedOut' = TRUE
    /\ IF wifiMgr # "off" THEN WifiPost(<<"end">>) ELSE UNCHANGED wifiEvents
    /\ UNCHANGED <<wifiMain, wifiCreds, wifiMgr, wifiSta, wifiRetries, wifiBit, wifiTried, wifiDrops>>

-----------------------------------------------------------------------------
\* event_handler, one event at a time; the station tries again after each failure.
WifiHandle(event) ==
    /\ wifiEvents # <<>> /\ Head(wifiEvents) = event
    /\ wifiEvents' = Tail(wifiEvents)
    /\ UNCHANGED <<wifiMain, wifiTimedOut, wifiTried, wifiDrops>>

WifiConnect ==
    /\ WifiHandle("sta_start") \/ WifiHandle("disconnected")
    /\ wifiSta' = IF wifiSta = "up" THEN "up" ELSE "trying"
    /\ UNCHANGED <<wifiCreds, wifiMgr, wifiRetries, wifiTimer, wifiBit>>

\* The failure is not counted.
WifiCounted_Not == wifiRetries

WifiCounted == wifiRetries + 1

\* At the limit credentials and manager start anew.
WifiCredFail ==
    /\ WifiHandle("cred_fail")
    /\ IF WifiCounted >= WifiMaxRetries
       THEN /\ wifiRetries' = 0
            /\ IF wifiMgr = "connecting" THEN wifiMgr' = "on" /\ wifiCreds' = "none"
               ELSE UNCHANGED <<wifiMgr, wifiCreds>>
       ELSE wifiRetries' = WifiCounted /\ UNCHANGED <<wifiMgr, wifiCreds>>
    /\ UNCHANGED <<wifiSta, wifiTimer, wifiBit>>

WifiCredSuccess ==
    /\ WifiHandle("cred_success")
    /\ wifiRetries' = 0
    /\ UNCHANGED <<wifiCreds, wifiMgr, wifiSta, wifiTimer, wifiBit>>

WifiEnd ==
    /\ WifiHandle("end")
    /\ wifiTimer' = "none"
    /\ wifiMgr' = "off"
    /\ UNCHANGED <<wifiCreds, wifiSta, wifiRetries, wifiBit>>

WifiGotIp ==
    /\ WifiHandle("got_ip")
    /\ wifiBit' = TRUE
    /\ UNCHANGED <<wifiCreds, wifiMgr, wifiSta, wifiRetries, wifiTimer>>

-----------------------------------------------------------------------------
\* Outside the code: the phone sends credentials, the access point answers or
\* does not, the manager ends some time after a success.
WifiPhone ==
    /\ wifiMgr = "on" /\ wifiTried < WifiTries
    /\ wifiTried' = wifiTried + 1
    /\ wifiCreds' \in {"good", "bad"}
    /\ wifiMgr' = "connecting" /\ wifiSta' = "trying"
    /\ UNCHANGED <<wifiMain, wifiEvents, wifiRetries, wifiTimer, wifiBit, wifiTimedOut, wifiDrops>>

WifiJoins ==
    /\ wifiSta = "trying" /\ wifiCreds = "good"
    /\ wifiSta' = "up"
    /\ IF wifiMgr = "connecting"
       THEN wifiMgr' = "success" /\ WifiPost(<<"got_ip", "cred_success">>)
       ELSE WifiPost(<<"got_ip">>) /\ UNCHANGED wifiMgr
    /\ UNCHANGED <<wifiMain, wifiCreds, wifiRetries, wifiTimer, wifiBit, wifiTimedOut, wifiTried,
                   wifiDrops>>

WifiLost ==
    /\ \/ wifiSta = "trying" /\ wifiCreds # "good" /\ UNCHANGED wifiDrops
       \/ wifiSta # "off" /\ wifiDrops < WifiMaxDrops /\ wifiDrops' = wifiDrops + 1
    /\ wifiSta' = "idle"
    /\ WifiPost(IF wifiMgr = "connecting" THEN <<"disconnected", "cred_fail">>
                ELSE <<"disconnected">>)
    /\ UNCHANGED <<wifiMain, wifiCreds, wifiMgr, wifiRetries, wifiTimer, wifiBit, wifiTimedOut, wifiTried>>

WifiMgrEnds ==
    /\ wifiMgr = "success"
    /\ wifiMgr' = "ended" /\ WifiPost(<<"end">>)
    /\ UNCHANGED <<wifiMain, wifiCreds, wifiSta, wifiRetries, wifiTimer, wifiBit, wifiTimedOut,
                   wifiTried, wifiDrops>>

WifiMainTask == WifiStart \/ WifiStartTimer \/ WifiGoOn
WifiLoop == WifiConnect \/ WifiCredFail \/ WifiCredSuccess \/ WifiEnd \/ WifiGotIp
WifiOutside == WifiPhone \/ WifiJoins \/ WifiLost \/ WifiMgrEnds

WifiNext == WifiMainTask \/ WifiTimeout \/ WifiLoop \/ WifiOutside

\* The tasks run, the access point answers, the phone tries again.
WifiFair ==
    /\ WF_wifiVars(WifiMainTask) /\ WF_wifiVars(WifiLoop)
    /\ WF_wifiVars(WifiPhone) /\ WF_wifiVars(WifiJoins) /\ WF_wifiVars(WifiLost)

WifiSpec == WifiInit /\ [][WifiNext]_wifiVars /\ WifiFair

-----------------------------------------------------------------------------
WifiTypeOK ==
    /\ wifiMain \in {"init", "timer", "wait", "done"} /\ wifiCreds \in {"none", "good", "bad"}
    /\ wifiMgr \in {"off", "on", "connecting", "success", "ended"}
    /\ wifiSta \in {"off", "idle", "trying", "up"}
    /\ Len(wifiEvents) <= WifiMaxEvents /\ wifiRetries \in 0..WifiMaxRetries - 1
    /\ wifiTimer \in {"none", "armed", "over"} /\ {wifiBit, wifiTimedOut} \subseteq BOOLEAN

\* app_main goes on, and with it the motor, as long as the phone has another try:
\* no credentials, failure or lost connection leaves it waiting, unless the
\* provisioning time runs out (app_wifi.c:146-166, 187-200, 478).
WifiMainGoesOn ==
    (wifiMain = "wait") ~> (wifiMain = "done" \/ wifiTimedOut \/ wifiTried = WifiTries)
=============================================================================
