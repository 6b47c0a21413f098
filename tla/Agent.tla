-------------------------------- MODULE Agent --------------------------------
(***************************************************************************)
(* The RainMaker agent (esp_rmaker_core.c) and its user-node mapping       *)
(* (esp_rmaker_user_mapping.c) from a boot to the first parameters.        *)
(*                                                                         *)
(* esp_rmaker_task and esp_rmaker_user_mapping_cb run one after the other  *)
(* on the work queue, events are handled on the event loop, a mapping is   *)
(* started by the provisioning endpoint, the console or the agent, and the *)
(* cloud handles what is published in order.  The user id survives resets. *)
(***************************************************************************)
EXTENDS Naturals, Sequences

CONSTANTS
    AgtUsers,       \* users of the phone app
    AgtMaxStarts,   \* bound: mappings those users start
    AgtMaxResets,   \* bound: restarts of the chip
    AgtMaxId        \* bound: messages published after a restart

AgtResetUser == "esp-rmaker"   \* USER_RESET_ID
AgtNoUser == "none"
AgtNoData == [user |-> AgtNoUser, id |-> 0, sent |-> FALSE]

ASSUME AgtAssumption ==
    /\ AgtUsers \cap {AgtResetUser, AgtNoUser} = {}
    /\ {AgtMaxStarts, AgtMaxResets, AgtMaxId} \subseteq Nat

VARIABLES
    agtPc,        \* where esp_rmaker_task stands
    agtQueue,     \* esp_rmaker_user_mapping_cb calls waiting behind it
    agtState,     \* rmaker_user_mapping_state
    agtData,      \* rmaker_user_mapping_data
    agtSending,   \* the mapping callback has published and still holds the lock
    agtListens,   \* the handler of PUBLISHED is registered
    agtAwaits,    \* the mapping events esp_rmaker_event_handler is registered for
    agtEvents,    \* the event loop's queue
    agtReady,     \* the params are subscribed to (esp_rmaker_params_mqtt_init)
    agtNvs,       \* the user id in NVS
    agtNet,       \* messages on their way to the cloud
    agtCloud,     \* the user the cloud holds
    agtNextId,    \* the client's next message id
    agtStarts, agtResets,   \* counted for the bounds
    agtUpset      \* history, since the restart: a mapping was replaced or reset from
                  \* outside, or a call failed

agtRam == <<agtPc, agtQueue, agtState, agtData, agtSending, agtListens, agtAwaits, agtEvents, agtReady,
            agtNextId, agtUpset>>
agtRest == <<agtNvs, agtNet, agtCloud, agtStarts, agtResets>>
agtVars == <<agtRam, agtRest>>

\* esp_rmaker_init with esp_rmaker_user_node_mapping_init, and esp_rmaker_start.
AgtMappingAtBoot(nvs) == IF nvs = AgtNoUser THEN "reset" ELSE "done"

AgtInit ==
    /\ agtPc = "connect" /\ agtQueue = 0 /\ agtState = AgtMappingAtBoot(AgtNoUser)
    /\ agtData = AgtNoData /\ agtSending = FALSE /\ agtListens = FALSE /\ agtAwaits = {}
    /\ agtEvents = <<>> /\ agtReady = FALSE /\ agtNextId = 1 /\ agtUpset = FALSE
    /\ agtNvs = AgtNoUser /\ agtNet = <<>> /\ agtCloud = AgtNoUser
    /\ agtStarts = 0 /\ agtResets = 0

AgtRestart ==
    /\ agtResets < AgtMaxResets
    /\ agtResets' = agtResets + 1
    /\ agtPc' = "connect" /\ agtQueue' = 0 /\ agtState' = AgtMappingAtBoot(agtNvs)
    /\ agtData' = AgtNoData /\ agtSending' = FALSE /\ agtListens' = FALSE /\ agtAwaits' = {}
    /\ agtEvents' = <<>> /\ agtReady' = FALSE /\ agtNextId' = 1 /\ agtUpset' = FALSE
    /\ \E n \in 0..Len(agtNet) : agtNet' = SubSeq(agtNet, 1, n)   \* the rest never left
    /\ UNCHANGED <<agtNvs, agtCloud, agtStarts>>

\* The stale user id is not erased.
AgtKept_Unerased(user) == agtNvs

-----------------------------------------------------------------------------
\* esp_rmaker_user_mapping_detect_reset: what is left in NVS.
AgtKept(user) == IF agtNvs = user THEN agtNvs ELSE AgtNoUser

\* esp_rmaker_start_user_node_mapping, from the lock to its release.  The work
\* queue may be full, which takes back the data but not the state.
AgtStart(user, upset) ==
    /\ ~agtSending
    /\ agtNvs' = AgtKept(user)
    /\ agtState' = IF agtNvs = user THEN "done" ELSE "started"
    /\ \/ /\ agtData' = [user |-> user, id |-> 0, sent |-> FALSE]
          /\ agtQueue' = agtQueue + 1
          /\ agtUpset' = (agtUpset \/ upset \/ agtData # AgtNoData)
       \/ agtData' = AgtNoData /\ agtUpset' = TRUE /\ UNCHANGED agtQueue

\* esp_rmaker_user_mapping_handler, the console's add-user, a factory reset.
AgtAsk ==
    /\ agtStarts < AgtMaxStarts
    /\ agtStarts' = agtStarts + 1
    /\ \E user \in AgtUsers \cup {AgtResetUser} : AgtStart(user, user = AgtResetUser)
    /\ UNCHANGED <<agtPc, agtSending, agtListens, agtAwaits, agtEvents, agtReady, agtNextId,
                   agtNet, agtCloud, agtResets>>

-----------------------------------------------------------------------------
\* esp_rmaker_task up to the report of the node's configuration; a failure on
\* the way ends the task for good.
AgtConnect ==
    /\ agtPc = "connect"
    /\ agtPc' \in {"check", "aborted"}
    /\ UNCHANGED <<agtQueue, agtState, agtData, agtSending, agtListens, agtAwaits, agtEvents, agtReady,
                   agtNextId, agtUpset, agtRest>>

\* esp_rmaker_params_mqtt_init fails when the subscription does.
AgtParamsInit ==
    \/ agtReady' = TRUE /\ UNCHANGED agtUpset
    \/ agtUpset' = TRUE /\ UNCHANGED agtReady

AgtCheck ==
    /\ agtPc = "check"
    /\ IF agtState = "done"
       THEN AgtParamsInit /\ agtPc' = IF agtReady' THEN "over" ELSE "aborted"
       ELSE agtPc' = "else" /\ UNCHANGED <<agtReady, agtUpset>>
    /\ UNCHANGED <<agtQueue, agtState, agtData, agtSending, agtListens, agtAwaits, agtEvents, agtNextId,
                   agtRest>>

AgtAwaited_Done(state) == "done"

\* The state is read again, and the event it makes the agent wait for is one.
AgtAwaited(state) == IF state = "started" THEN "done" ELSE "reset"

AgtWait ==
    /\ agtPc = "else"
    /\ agtPc' = "over"
    /\ agtAwaits' = {AgtAwaited(agtState)}
    /\ IF agtState = "started"
       THEN UNCHANGED <<agtQueue, agtState, agtData, agtNvs, agtUpset>>
       ELSE AgtStart(AgtResetUser, FALSE)
    /\ UNCHANGED <<agtSending, agtListens, agtEvents, agtReady, agtNextId, agtNet, agtCloud,
                   agtStarts, agtResets>>

\* esp_rmaker_user_mapping_cb up to the publish, which may be refused.
AgtSend ==
    /\ agtPc \in {"over", "aborted"} /\ agtQueue > 0 /\ ~agtSending
    /\ agtQueue' = agtQueue - 1
    /\ IF agtData = AgtNoData \/ agtData.sent
       THEN UNCHANGED <<agtData, agtSending, agtListens, agtNextId, agtNet, agtUpset>>
       ELSE /\ agtListens' = TRUE
            /\ \/ /\ agtNextId <= AgtMaxId
                  /\ agtData' = [agtData EXCEPT !.id = agtNextId]
                  /\ agtNet' = Append(agtNet, [id |-> agtNextId, user |-> agtData.user, boot |-> agtResets])
                  /\ agtNextId' = agtNextId + 1
                  /\ agtSending' = TRUE
                  /\ UNCHANGED agtUpset
               \/ agtUpset' = TRUE /\ UNCHANGED <<agtData, agtSending, agtNextId, agtNet>>
    /\ UNCHANGED <<agtPc, agtState, agtAwaits, agtEvents, agtReady, agtNvs, agtCloud, agtStarts, agtResets>>

AgtSent ==
    /\ agtSending
    /\ agtSending' = FALSE
    /\ agtState' = "req_sent"
    /\ agtData' = [agtData EXCEPT !.sent = TRUE]
    /\ UNCHANGED <<agtPc, agtQueue, agtListens, agtAwaits, agtEvents, agtReady, agtNextId, agtUpset,
                   agtRest>>

\* The cloud handles a message and acknowledges it; nobody is left to hear of
\* the acknowledgement of a message from before a restart.
AgtCloudHandles ==
    /\ agtNet # <<>>
    /\ agtCloud' = Head(agtNet).user
    /\ agtNet' = Tail(agtNet)
    /\ agtEvents' = IF Head(agtNet).boot = agtResets
                    THEN Append(agtEvents, [kind |-> "published", id |-> Head(agtNet).id])
                    ELSE agtEvents
    /\ UNCHANGED <<agtPc, agtQueue, agtState, agtData, agtSending, agtListens, agtAwaits, agtReady,
                   agtNextId, agtUpset, agtNvs, agtStarts, agtResets>>

\* The acknowledgement is of the message that this mapping sent.
AgtMine(id) == agtData # AgtNoData /\ agtData.id = id

\* esp_rmaker_user_mapping_event_handler: it gives up when it does not get the
\* lock in 5 s, which a publish may hold for longer.
AgtPublished ==
    /\ agtEvents # <<>> /\ Head(agtEvents).kind = "published"
    /\ \/ /\ agtSending
          /\ agtEvents' = Tail(agtEvents) /\ agtUpset' = TRUE
          /\ UNCHANGED <<agtState, agtData, agtListens, agtNvs>>
       \/ /\ ~agtSending /\ agtListens /\ AgtMine(Head(agtEvents).id)
          /\ agtState' = IF agtData.user = AgtResetUser THEN "reset" ELSE "done"
          /\ agtEvents' = Append(Tail(agtEvents), [kind |-> agtState', id |-> 0])
          /\ agtNvs' = agtData.user
          /\ agtData' = AgtNoData
          /\ agtListens' = FALSE
          /\ UNCHANGED agtUpset
       \/ /\ ~agtSending /\ ~(agtListens /\ AgtMine(Head(agtEvents).id))
          /\ agtEvents' = Tail(agtEvents)
          /\ UNCHANGED <<agtState, agtData, agtListens, agtNvs, agtUpset>>
    /\ UNCHANGED <<agtPc, agtQueue, agtSending, agtAwaits, agtReady, agtNextId, agtNet, agtCloud,
                   agtStarts, agtResets>>

\* esp_rmaker_event_handler for the two mapping events.
AgtMapped ==
    /\ agtEvents # <<>> /\ Head(agtEvents).kind # "published"
    /\ agtEvents' = Tail(agtEvents)
    /\ IF Head(agtEvents).kind \in agtAwaits
       THEN agtAwaits' = agtAwaits \ {Head(agtEvents).kind} /\ AgtParamsInit
       ELSE UNCHANGED <<agtAwaits, agtReady, agtUpset>>
    /\ UNCHANGED <<agtPc, agtQueue, agtState, agtData, agtSending, agtListens, agtNextId, agtRest>>

AgtTask == AgtConnect \/ AgtCheck \/ AgtWait \/ AgtSend \/ AgtSent
AgtEvent == AgtPublished \/ AgtMapped

AgtNext == AgtRestart \/ AgtAsk \/ AgtTask \/ AgtCloudHandles \/ AgtEvent

\* The work queue and the event loop run, and the cloud answers.
AgtFair == WF_agtVars(AgtTask) /\ WF_agtVars(AgtEvent) /\ WF_agtVars(AgtCloudHandles)

AgtSpec == AgtInit /\ [][AgtNext]_agtVars /\ AgtFair

-----------------------------------------------------------------------------
AgtTypeOK ==
    /\ agtPc \in {"connect", "check", "else", "over", "aborted"} /\ agtQueue \in Nat
    /\ agtState \in {"reset", "started", "req_sent", "done"}
    /\ {agtData.user, agtNvs, agtCloud} \subseteq AgtUsers \cup {AgtResetUser, AgtNoUser}
    /\ agtAwaits \subseteq {"done", "reset"} /\ agtNextId \in 1..AgtMaxId + 1
    /\ {agtSending, agtListens, agtReady, agtUpset} \subseteq BOOLEAN

\* The user in NVS is the one the cloud holds, or the cloud is on its way to a
\* mapping that was asked for again: no restart, replaced mapping or late
\* acknowledgement leaves another one (esp_rmaker_user_mapping.c:99-118, 166-198).
AgtKnownUser == agtNvs # AgtNoUser => agtCloud = agtNvs

\* Once the agent has nothing left but to wait, the parameters become ready,
\* unless a mapping was replaced, a call failed or the chip restarted
\* (esp_rmaker_core.c:439-448, esp_rmaker_user_mapping.c:126-164).
AgtParamsFollow == (agtPc = "over") ~> (agtReady \/ agtUpset \/ agtPc # "over")
=============================================================================
