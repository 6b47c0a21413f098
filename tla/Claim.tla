-------------------------------- MODULE Claim --------------------------------
(***************************************************************************)
(* Claiming (esp_rmaker_claim.c): how the fan gets its certificate.  In    *)
(* both of the build's variants the chip makes its private key, keeps it   *)
(* in NVS and signs a request for a certificate with it.  In self claiming *)
(* the chip asks the service; in assisted claiming the phone carries the   *)
(* messages, in fragments, and the service also names the node.            *)
(*                                                                         *)
(* The phone may drop a session at any point and begin another, calls may  *)
(* fail, and the chip may restart between any two steps.                   *)
(***************************************************************************)
EXTENDS Naturals, Sequences

CONSTANTS
    ClmIds,         \* node ids the service may assign
    ClmParts,       \* fragments of a request and of an answer
    ClmMaxResets,   \* bound: restarts of the chip
    ClmMaxTries     \* bound: sessions of the phone after a restart

ClmMac == "mac"     \* the node id made from the MAC address
ClmNone == "none"

ASSUME ClmAssumption ==
    /\ {ClmMac, ClmNone} \cap ClmIds = {}
    /\ {ClmParts, ClmMaxTries} \subseteq Nat \ {0} /\ ClmMaxResets \in Nat

VARIABLES
    clmKind,     \* the build: "self" or "assisted"
    clmNvs,      \* the factory partition: key (0: none), node, cert
    clmNode,     \* the node id in RAM
    clmTask,     \* the agent: "boot", "ready", "asks", "waits", "claimed", "failed", "aborts"
    clmData,     \* claim_data: state, key, csr, payload, offset
    clmBit,      \* CLAIM_TASK_BIT of the group that the agent waits on
    clmPhone,    \* the phone: at, the answer it carries, fragments it has got or sent
    clmLost,     \* history: the last node id was not kept, and nobody noticed
    clmEarly,    \* history: the dialogue ended before the agent made its group
    clmKeys, clmResets, clmTries   \* counted: keys made, and for the bounds

clmVars == <<clmKind, clmNvs, clmNode, clmTask, clmData, clmBit, clmPhone, clmLost, clmEarly,
             clmKeys, clmResets, clmTries>>

\* esp_rmaker_claim_state_t, whose order the handlers compare.
ClmNew == 0
ClmPkGenerated == 1
ClmStateInit == 2
ClmInitDone == 3
ClmCsrGenerated == 4
ClmStateVerify == 5
ClmVerifyDone == 6

ClmNoCert == [key |-> 0, node |-> ClmNone]
ClmNoData == [state |-> ClmNew, key |-> 0, csr |-> ClmNoCert, payload |-> <<>>, offset |-> 0]
ClmAway == [at |-> "away", cert |-> ClmNoCert, count |-> 0]

\* A message of ClmParts fragments, all about one key and node.
ClmWhole(cert) == [i \in 1..ClmParts |-> cert]

\* esp_rmaker_populate_node_id
ClmNodeAtBoot(kept) == IF kept = ClmNone THEN ClmMac ELSE kept

ClmInit ==
    /\ clmKind \in {"self", "assisted"}
    /\ clmNvs = [key |-> 0, node |-> ClmNone, cert |-> ClmNoCert]
    /\ clmNode = ClmMac /\ clmTask = "boot" /\ clmData = ClmNoData /\ clmBit = FALSE
    /\ clmPhone = ClmAway /\ clmLost = FALSE /\ clmEarly = FALSE
    /\ clmKeys = 0 /\ clmResets = 0 /\ clmTries = 0

ClmRestart ==
    /\ clmResets < ClmMaxResets
    /\ clmResets' = clmResets + 1
    /\ clmNode' = ClmNodeAtBoot(clmNvs.node)
    /\ clmTask' = "boot" /\ clmData' = ClmNoData /\ clmBit' = FALSE
    /\ clmPhone' = ClmAway /\ clmEarly' = FALSE /\ clmTries' = 0
    /\ UNCHANGED <<clmKind, clmNvs, clmLost, clmKeys>>

\* Sessions may fail but for the last one since the restart.
ClmMayFail == clmTries < ClmMaxTries

-----------------------------------------------------------------------------
(***************************************************************************)
(* esp_rmaker_init on the main task.                                       *)
(***************************************************************************)

\* esp_rmaker_mqtt_conn_params_init: all credentials are there.
ClmHasAll == clmNvs.key # 0 /\ clmNvs.cert # ClmNoCert

ClmClaimed ==
    /\ clmTask = "boot" /\ ClmHasAll
    /\ clmTask' = "claimed"
    /\ UNCHANGED <<clmKind, clmNvs, clmNode, clmData, clmBit, clmPhone, clmLost, clmEarly,
                   clmKeys, clmResets, clmTries>>

ClmKeyKept_Unsaved(key) == clmNvs

\* A generated key is put into NVS before it is used.
ClmKeyKept(key) == [clmNvs EXCEPT !.key = key]

\* The CSR names the node, and in self claiming it is made at once.
ClmDataReady(key) ==
    IF clmKind = "self"
    THEN [ClmNoData EXCEPT !.state = ClmCsrGenerated, !.key = key,
                           !.csr = [key |-> key, node |-> clmNode]]
    ELSE [ClmNoData EXCEPT !.state = ClmPkGenerated, !.key = key]

\* __esp_rmaker_claim_init, on a task that the main task waits for.  A kept key
\* that does not parse is replaced.  A failure to generate or keep the key ends in
\* abort(), as does one of what follows it, after the key was kept.
ClmMakeReady ==
    /\ clmTask = "boot" /\ ~ClmHasAll
    /\ \E parses \in {clmNvs.key # 0, FALSE} :
          LET key == IF parses THEN clmNvs.key ELSE clmKeys + 1
              keeps == IF parses THEN clmNvs ELSE ClmKeyKept(key)
          IN  /\ clmKeys' = IF parses THEN clmKeys ELSE key
              /\ \/ /\ clmNvs' = keeps
                    /\ clmData' = ClmDataReady(key)
                    /\ clmTask' = "ready"
                 \/ /\ clmNvs' \in {clmNvs, keeps}
                    /\ clmTask' = "aborts"
                    /\ UNCHANGED clmData
    /\ UNCHANGED <<clmKind, clmNode, clmBit, clmPhone, clmLost, clmEarly, clmResets, clmTries>>

-----------------------------------------------------------------------------
(***************************************************************************)
(* Self claiming: esp_rmaker_self_claim_perform on the work queue.  It     *)
(* gives up at the first failure, until the next restart.                  *)
(***************************************************************************)

ClmGivesUp(left) ==
    /\ clmTask' = "failed"
    /\ clmData' = left
    /\ UNCHANGED clmNvs

\* esp_rmaker_claim_perform_init: the service's challenge is answered, with the CSR.
ClmSelfInit ==
    /\ clmKind = "self" /\ clmTask = "ready"
    /\ \/ /\ clmData.state >= ClmPkGenerated
          /\ clmTask' = "asks"
          /\ clmData' = [clmData EXCEPT !.state = ClmInitDone, !.payload = ClmWhole(clmData.csr)]
          /\ UNCHANGED clmNvs
       \/ ClmGivesUp(clmData)
    /\ UNCHANGED <<clmKind, clmNode, clmBit, clmPhone, clmLost, clmEarly, clmKeys, clmResets,
                   clmTries>>

\* esp_rmaker_claim_perform_verify: the service certifies what the payload asks
\* for, and handle_claim_verify_response keeps its answer.  Either way the data go.
ClmSelfVerify ==
    /\ clmKind = "self" /\ clmTask = "asks"
    /\ \/ /\ clmNvs' = [clmNvs EXCEPT !.cert = clmData.payload[1]]
          /\ clmTask' = "claimed"
          /\ clmData' = ClmNoData
       \/ ClmGivesUp(ClmNoData)
    /\ UNCHANGED <<clmKind, clmNode, clmBit, clmPhone, clmLost, clmEarly, clmKeys, clmResets,
                   clmTries>>

-----------------------------------------------------------------------------
(***************************************************************************)
(* Assisted claiming: the agent waits, the provisioning endpoint works.    *)
(***************************************************************************)

\* esp_rmaker_assisted_claim_perform makes its group and waits; the agent does
\* not ask for it when the phone had the station associated before.
ClmWait ==
    /\ clmKind = "assisted" /\ clmTask = "ready"
    /\ clmTask' \in {"waits"} \cup (IF clmPhone.at \in {"away", "done"} THEN {"failed"} ELSE {})
    /\ UNCHANGED <<clmKind, clmNvs, clmNode, clmData, clmBit, clmPhone, clmLost, clmEarly,
                   clmKeys, clmResets, clmTries>>

\* It frees the data when it wakes.
ClmWake ==
    /\ clmTask = "waits" /\ clmBit
    /\ clmTask' = IF clmData.state = ClmVerifyDone THEN "claimed" ELSE "failed"
    /\ clmData' = ClmNoData
    /\ UNCHANGED <<clmKind, clmNvs, clmNode, clmBit, clmPhone, clmLost, clmEarly, clmKeys,
                   clmResets, clmTries>>

clmAgent == <<clmKind, clmTask, clmKeys, clmResets>>

\* A session of the phone, which sends start, init and verify in this order.  It may
\* end at any point but in the last one: a refused or malformed message ends it too.
ClmPhoneBegins ==
    /\ clmKind = "assisted" /\ clmTask \in {"ready", "waits"}
    /\ clmPhone.at = "away" /\ clmTries < ClmMaxTries
    /\ clmTries' = clmTries + 1
    /\ clmPhone' = [ClmAway EXCEPT !.at = "starts"]
    /\ UNCHANGED <<clmAgent, clmNvs, clmNode, clmData, clmBit, clmLost, clmEarly>>

ClmPhoneDrops ==
    /\ clmPhone.at \notin {"away", "done"} /\ ClmMayFail
    /\ clmPhone' = ClmAway
    /\ UNCHANGED <<clmAgent, clmNvs, clmNode, clmData, clmBit, clmLost, clmEarly, clmTries>>

\* TypeCmdClaimAbort of esp_rmaker_claiming_handler
ClmAbort ==
    /\ clmPhone.at \notin {"away", "done"} /\ ClmMayFail
    /\ clmData' = [clmData EXCEPT !.state = ClmPkGenerated, !.payload = <<>>, !.offset = 0]
    /\ clmPhone' = ClmAway
    /\ UNCHANGED <<clmAgent, clmNvs, clmNode, clmBit, clmLost, clmEarly, clmTries>>

\* esp_rmaker_assisted_claim_handle_start: the payload asks for a node id.
ClmHandleStart ==
    /\ clmPhone.at = "starts"
    /\ IF clmData.state < ClmPkGenerated
       THEN clmPhone' = ClmAway /\ UNCHANGED clmData
       ELSE /\ clmData' = [clmData EXCEPT !.state = ClmStateInit, !.payload = <<ClmNoCert>>,
                                          !.offset = 0]
            /\ clmPhone' = [clmPhone EXCEPT !.at = "names"]
    /\ UNCHANGED <<clmAgent, clmNvs, clmNode, clmBit, clmLost, clmEarly, clmTries>>

ClmAllSent_Before(offset) == offset - 1 = ClmParts

ClmAllSent(offset) == offset = ClmParts

\* A fragment of the request goes to the phone: the end of
\* esp_rmaker_assisted_claim_handle_init.  With the last one the phone has the
\* CSR certified.
ClmSendsPart(data) ==
    LET offset == data.offset + 1
        got == clmPhone.count + 1
    IN  /\ clmData' = [data EXCEPT !.offset = offset,
                                   !.state = IF ClmAllSent(offset) THEN ClmStateVerify ELSE @]
        /\ clmPhone' = IF got = ClmParts
                       THEN [at |-> "sends", cert |-> data.payload[offset], count |-> 0]
                       ELSE [clmPhone EXCEPT !.at = "collects", !.count = got]

\* handle_assisted_claim_init_response: neither the result of storing the node
\* id nor that of esp_rmaker_change_node_id is looked at.
ClmRenames(id, stored, changed) ==
    /\ clmNvs' = IF stored THEN [clmNvs EXCEPT !.node = id] ELSE clmNvs
    /\ clmNode' = IF changed THEN id ELSE clmNode
    /\ clmLost' = ~(stored /\ changed)

\* esp_rmaker_assisted_claim_handle_init with the service's node id; the CSR,
\* made on a task of its own, names the node that is in RAM.
ClmHandleInit ==
    /\ clmPhone.at = "names"
    /\ \E id \in ClmIds, stored, changed \in BOOLEAN :
          /\ (stored /\ changed) \/ ClmMayFail
          /\ ClmRenames(id, stored, changed)
    /\ \/ LET csr == [key |-> clmData.key, node |-> clmNode']
          IN  ClmSendsPart([clmData EXCEPT !.state = ClmInitDone, !.csr = csr,
                                           !.payload = ClmWhole(csr), !.offset = 0])
       \/ ClmMayFail /\ clmPhone' = ClmAway /\ UNCHANGED clmData
    /\ UNCHANGED <<clmAgent, clmBit, clmEarly, clmTries>>

\* The same handler, asked for the next fragment.
ClmHandleMore ==
    /\ clmPhone.at = "collects"
    /\ clmData.state = ClmInitDone
    /\ ClmSendsPart(clmData)
    /\ UNCHANGED <<clmAgent, clmNvs, clmNode, clmBit, clmLost, clmEarly, clmTries>>

\* The group exists while the agent waits on it.
ClmGroup == clmTask = "waits"

\* The answer is complete: handle_claim_verify_response stores the certificate,
\* or fails.
ClmComplete(payload) ==
    \/ /\ payload = ClmWhole(payload[1])
       /\ clmNvs' = [clmNvs EXCEPT !.cert = payload[1]]
       /\ clmData' = [clmData EXCEPT !.payload = payload, !.offset = ClmParts - 1,
                                     !.state = ClmVerifyDone]
       /\ clmBit' = (clmBit \/ ClmGroup)
       /\ clmEarly' = ~ClmGroup
       /\ clmPhone' = [clmPhone EXCEPT !.at = "done"]
    \/ /\ payload # ClmWhole(payload[1]) \/ ClmMayFail
       /\ clmData' = [clmData EXCEPT !.payload = payload, !.offset = ClmParts - 1]
       /\ clmPhone' = ClmAway
       /\ UNCHANGED <<clmNvs, clmBit, clmEarly>>

\* esp_rmaker_assisted_claim_handle_verify: a fragment goes to its place, the
\* first one into a cleared payload.
ClmHandleVerify ==
    /\ clmPhone.at = "sends"
    /\ LET at == clmPhone.count
           payload == Append(IF at = 0 THEN <<>> ELSE clmData.payload, clmPhone.cert)
       IN  IF clmData.state < ClmStateVerify
           THEN /\ clmPhone' = ClmAway
                /\ UNCHANGED <<clmNvs, clmData, clmBit, clmEarly>>
           ELSE IF at + 1 = ClmParts
           THEN ClmComplete(payload)
           ELSE /\ clmData' = [clmData EXCEPT !.payload = payload, !.offset = at]
                /\ clmPhone' = [clmPhone EXCEPT !.count = at + 1]
                /\ UNCHANGED <<clmNvs, clmBit, clmEarly>>
    /\ UNCHANGED <<clmAgent, clmNode, clmLost, clmTries>>

-----------------------------------------------------------------------------
ClmAgentTask == ClmClaimed \/ ClmMakeReady \/ ClmSelfInit \/ ClmSelfVerify \/ ClmWait \/ ClmWake
ClmHandler == ClmHandleStart \/ ClmHandleInit \/ ClmHandleMore \/ ClmHandleVerify
ClmPhoneSteps == ClmPhoneBegins \/ ClmPhoneDrops \/ ClmAbort

ClmNext == ClmRestart \/ ClmAgentTask \/ ClmHandler \/ ClmPhoneSteps

\* The tasks run, and the phone tries again.
ClmFair == WF_clmVars(ClmAgentTask) /\ WF_clmVars(ClmHandler) /\ WF_clmVars(ClmPhoneBegins)

ClmSpec == ClmInit /\ [][ClmNext]_clmVars /\ ClmFair

-----------------------------------------------------------------------------
ClmTypeOK ==
    /\ clmKind \in {"self", "assisted"}
    /\ clmNvs.key \in Nat /\ clmNvs.node \in ClmIds \cup {ClmNone}
    /\ clmNode \in ClmIds \cup {ClmMac}
    /\ clmTask \in {"boot", "ready", "asks", "waits", "claimed", "failed", "aborts"}
    /\ clmData.state \in ClmNew..ClmVerifyDone /\ clmData.offset \in 0..ClmParts
    /\ {clmBit, clmLost, clmEarly} \subseteq BOOLEAN
    /\ clmPhone.at \in {"away", "starts", "names", "collects", "sends", "done"}

\* A certificate that was kept belongs to the private key that was kept, and
\* names the node that the next boot will call itself, unless the result of a
\* failed call was not looked at: a fan whose credentials do not fit can neither
\* connect nor claim again (esp_rmaker_claim.c:545-552, 826-853, 256).
ClmCredentialsFit ==
    clmNvs.cert # ClmNoCert =>
        /\ clmNvs.cert.key = clmNvs.key
        /\ clmLost \/ clmNvs.cert.node = ClmNodeAtBoot(clmNvs.node)

\* An agent that waits for an assisted claim goes on, unless the dialogue with
\* the phone was over before it began to wait: its group is made too late for
\* the bit, and the state is not looked at (esp_rmaker_claim.c:721-726, 951-958).
ClmGoesOn == (clmTask = "waits" /\ ~clmEarly) ~> (clmTask # "waits")
=============================================================================
