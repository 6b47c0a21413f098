----------------------------- MODULE MqttGlue -----------------------------
(***************************************************************************)
(* The glue between the agent and the MQTT client (esp-mqtt-glue.c): a     *)
(* table of subscriptions without a lock.  Two tasks of the agent change   *)
(* it, the event loop for the parameters (esp_rmaker_core.c:217-221) and   *)
(* the work queue for OTA (esp_rmaker_ota_using_topics.c:270-294); the     *)
(* MQTT task reads it, subscribes again after every connection and puts    *)
(* long messages together.                                                 *)
(*                                                                         *)
(* The client and the broker are outside the code.  Sessions are clean: a  *)
(* lost connection takes its subscriptions and messages with it.           *)
(***************************************************************************)
EXTENDS Naturals, Sequences, FiniteSets

CONSTANTS
    GluLoopTopics,  \* topics that the event loop subscribes to
    GluWorkTopics,  \* and those of the work queue
    GluSlots,       \* MAX_MQTT_SUBSCRIPTIONS
    GluParts,       \* events that a message comes in, at most
    GluMaxCalls,    \* bound: calls of subscribe and unsubscribe
    GluMaxDrops,    \* bound: lost connections
    GluMaxMessages  \* bound: messages from the broker

GluTopics == GluLoopTopics \cup GluWorkTopics

ASSUME GluAssumption ==
    /\ {GluSlots, GluParts} \subseteq Nat \ {0}
    /\ "free" \notin GluTopics /\ GluLoopTopics \cap GluWorkTopics = {}

GluCallers == {"loop", "work"}
GluOf(c) == IF c = "loop" THEN GluLoopTopics ELSE GluWorkTopics

VARIABLES
    gluSlots,    \* mqtt_data->subscriptions
    gluCall,     \* per caller: the step of its call, the topic and the slot it works on
    gluLink,     \* the connection: "up", "lost" (not noticed yet), "down"
    gluNext,     \* the slot that MQTT_EVENT_CONNECTED comes to next, 0 when it is over
    gluWire,     \* requests on their way to the broker
    gluBroker,   \* the broker's subscriptions
    gluIn,       \* the message arriving: its number, topic, parts and the next one
    gluLong,     \* long_data: the topic and the parts it holds
    gluGot,      \* what the last callback was given, until the next message
    gluHeld,     \* history: topics whose subscription was reported good
    gluExcused,  \* history: those that lost one of the two races below
    gluCalls, gluDrops, gluMessages   \* counted for the bounds

gluTable == <<gluSlots, gluCall, gluHeld, gluExcused, gluCalls>>
gluNet == <<gluLink, gluNext, gluWire, gluBroker, gluDrops>>
gluData == <<gluIn, gluLong, gluGot, gluMessages>>
gluVars == <<gluTable, gluNet, gluData>>

GluNoMessage == [number |-> 0]
GluNoCall == [pc |-> "idle", topic |-> "none", at |-> 0]

GluInit ==
    /\ gluSlots = [i \in 1..GluSlots |-> "free"]
    /\ gluCall = [c \in GluCallers |-> GluNoCall]
    /\ gluLink = "down" /\ gluNext = 0 /\ gluWire = <<>> /\ gluBroker = {}
    /\ gluIn = GluNoMessage /\ gluLong = GluNoMessage /\ gluGot = GluNoMessage
    /\ gluHeld = {} /\ gluExcused = {}
    /\ gluCalls = 0 /\ gluDrops = 0 /\ gluMessages = 0

-----------------------------------------------------------------------------
\* The first slot with an entry.
GluFirst(entry, i) ==
    /\ i \in 1..GluSlots /\ gluSlots[i] = entry
    /\ \A j \in 1..i - 1 : gluSlots[j] # entry

\* The other caller, when its call works on the slot.
GluSharing(c, i) == {d \in GluCallers \ {c} : gluCall[d].at = i}

\* The two callers look for a slot side by side: whoever finds the slot that the
\* other has found may lose its entry, or take the other's.
GluBegin(c, pc, t, entry) ==
    /\ gluCall[c] = GluNoCall
    /\ gluCalls < GluMaxCalls /\ gluCalls' = gluCalls + 1
    /\ \E i \in 1..GluSlots :
          /\ GluFirst(entry, i)
          /\ gluCall' = [gluCall EXCEPT ![c] = [pc |-> pc, topic |-> t, at |-> i]]
          /\ gluExcused' = IF GluSharing(c, i) = {} THEN gluExcused \ {t}
                           ELSE gluExcused \cup {t} \cup {gluCall[d].topic : d \in GluSharing(c, i)}
    /\ gluHeld' = gluHeld \ {t}
    /\ UNCHANGED <<gluSlots, gluNet, gluData>>

GluGoes(c, pc) == gluCall' = [gluCall EXCEPT ![c].pc = pc]
GluEnds(c) == gluCall' = [gluCall EXCEPT ![c] = GluNoCall]

\* esp_mqtt_glue_subscribe finds a free slot, or fails without one; no caller
\* subscribes to what it has in the table ...
GluSubscribe(c) ==
    \E t \in GluOf(c) :
        (\A i \in 1..GluSlots : gluSlots[i] # t) /\ GluBegin(c, "send", t, "free")

\* A request reaches the wire as long as the client believes in the connection.
GluRequest(op, t) ==
    gluWire' = IF gluLink = "up" THEN Append(gluWire, [op |-> op, topic |-> t]) ELSE gluWire

\* ... sends the request, which fails without a connection ...
GluSend(c) ==
    /\ gluCall[c].pc = "send"
    /\ \/ gluLink # "up" /\ GluEnds(c) /\ UNCHANGED gluWire
       \/ /\ gluLink # "down"
          /\ GluRequest("sub", gluCall[c].topic)
          /\ GluGoes(c, IF gluLink = "up" THEN "store" ELSE "stale")
    /\ UNCHANGED <<gluSlots, gluHeld, gluExcused, gluCalls, gluLink, gluNext, gluBroker, gluDrops,
                   gluData>>

\* The request was lost, and the new connection has passed the slot.
GluPassed(c) ==
    gluCall[c].pc = "stale" /\ gluLink = "up" /\ (gluNext = 0 \/ gluNext > gluCall[c].at)

\* ... and only then enters the topic.
GluStore(c) ==
    /\ gluCall[c].pc \in {"store", "stale"}
    /\ gluSlots' = [gluSlots EXCEPT ![gluCall[c].at] = gluCall[c].topic]
    /\ gluHeld' = gluHeld \cup {gluCall[c].topic}
    /\ gluExcused' = IF GluPassed(c) THEN gluExcused \cup {gluCall[c].topic} ELSE gluExcused
    /\ GluEnds(c)
    /\ UNCHANGED <<gluCalls, gluNet, gluData>>

\* esp_mqtt_glue_unsubscribe, which only OTA calls; unsubscribe_helper reads the
\* slot again.
GluUnsubscribe(c) == c = "work" /\ \E t \in GluOf(c) : GluBegin(c, "unsend", t, t)

GluUnsend(c) ==
    /\ gluCall[c].pc = "unsend"
    /\ GluRequest("unsub", gluSlots[gluCall[c].at])
    /\ GluGoes(c, "clear")
    /\ UNCHANGED <<gluSlots, gluHeld, gluExcused, gluCalls, gluLink, gluNext, gluBroker, gluDrops,
                   gluData>>

GluClear(c) ==
    /\ gluCall[c].pc = "clear"
    /\ gluSlots' = [gluSlots EXCEPT ![gluCall[c].at] = "free"]
    /\ GluEnds(c)
    /\ UNCHANGED <<gluHeld, gluExcused, gluCalls, gluNet, gluData>>

-----------------------------------------------------------------------------
\* A connection begins without subscriptions.
GluConnect ==
    /\ gluLink = "down" /\ gluNext = 0
    /\ gluLink' = "up" /\ gluNext' = 1 /\ gluWire' = <<>> /\ gluBroker' = {}
    /\ UNCHANGED <<gluDrops, gluTable, gluData>>

\* The first slot is not looked at.
GluSubscribesAgain_ButFirst(i) == i > 1 /\ gluSlots[i] # "free"

\* MQTT_EVENT_CONNECTED, slot by slot.
GluSubscribesAgain(i) == gluSlots[i] # "free"

GluResubscribe ==
    /\ gluNext # 0
    /\ IF GluSubscribesAgain(gluNext) THEN GluRequest("sub", gluSlots[gluNext])
       ELSE UNCHANGED gluWire
    /\ gluNext' = (gluNext + 1) % (GluSlots + 1)
    /\ UNCHANGED <<gluLink, gluBroker, gluDrops, gluTable, gluData>>

\* The connection is lost; the client notices it when its task is free.
GluDrop ==
    /\ gluLink = "up" /\ gluDrops < GluMaxDrops
    /\ gluDrops' = gluDrops + 1
    /\ gluLink' = "lost" /\ gluWire' = <<>> /\ gluBroker' = {}
    /\ gluIn' = GluNoMessage
    /\ gluCall' = [c \in GluCallers |-> IF gluCall[c].pc = "store"
                                        THEN [gluCall[c] EXCEPT !.pc = "stale"] ELSE gluCall[c]]
    /\ UNCHANGED <<gluSlots, gluHeld, gluExcused, gluCalls, gluNext, gluLong, gluGot, gluMessages>>

GluNotice ==
    /\ gluLink = "lost" /\ gluNext = 0
    /\ gluLink' = "down"
    /\ UNCHANGED <<gluNext, gluWire, gluBroker, gluDrops, gluTable, gluData>>

GluBrokerTakes ==
    /\ gluWire # <<>>
    /\ gluWire' = Tail(gluWire)
    /\ gluBroker' = IF Head(gluWire).op = "sub" THEN gluBroker \cup {Head(gluWire).topic}
                    ELSE gluBroker \ {Head(gluWire).topic}
    /\ UNCHANGED <<gluLink, gluNext, gluDrops, gluTable, gluData>>

-----------------------------------------------------------------------------
\* The broker sends a message, whole or in parts.
GluMessage(t) ==
    /\ gluLink = "up" /\ gluIn = GluNoMessage /\ t \in gluBroker
    /\ gluMessages < GluMaxMessages /\ gluMessages' = gluMessages + 1
    /\ \E n \in 1..GluParts :
          gluIn' = [number |-> gluMessages', topic |-> t, parts |-> n, next |-> 1]
    /\ gluGot' = GluNoMessage
    /\ UNCHANGED <<gluLong, gluTable, gluNet>>

\* esp_mqtt_glue_subscribe_callback
GluCallback(data) ==
    gluGot' = IF \E i \in 1..GluSlots : gluSlots[i] = data.topic THEN data ELSE gluGot

\* What is left of an earlier message is kept.
GluBuffer_Kept(m) ==
    IF gluLong # GluNoMessage THEN gluLong
    ELSE [number |-> m.number, topic |-> m.topic, parts |-> m.parts, has |-> {}]

\* esp_mqtt_glue_manage_long_data: an event with a topic begins a new message.
GluBuffer(m) ==
    IF m.next = 1 THEN [number |-> m.number, topic |-> m.topic, parts |-> m.parts, has |-> {}]
    ELSE gluLong

\* MQTT_EVENT_DATA
GluShortData ==
    /\ gluNext = 0 /\ gluIn # GluNoMessage /\ gluIn.parts = 1
    /\ gluLong' = GluNoMessage
    /\ GluCallback([number |-> gluIn.number, topic |-> gluIn.topic, parts |-> 1,
                    has |-> {<<gluIn.number, 1>>}])
    /\ gluIn' = GluNoMessage
    /\ UNCHANGED <<gluMessages, gluTable, gluNet>>

GluLongData ==
    /\ gluNext = 0 /\ gluIn # GluNoMessage /\ gluIn.parts > 1
    /\ LET m == gluIn
           filled == [GluBuffer(m) EXCEPT !.has = @ \cup {<<m.number, m.next>>}]
       IN  /\ \/ GluBuffer(m) # GluNoMessage /\ m.next < m.parts
                    /\ gluLong' = filled /\ UNCHANGED gluGot
              \/ GluBuffer(m) # GluNoMessage /\ m.next = m.parts
                    /\ gluLong' = GluNoMessage /\ GluCallback(filled)
              \/ (m.next = 1 \/ GluBuffer(m) = GluNoMessage)   \* no memory
                    /\ gluLong' = GluNoMessage /\ UNCHANGED gluGot
           /\ gluIn' = IF m.next = m.parts THEN GluNoMessage ELSE [m EXCEPT !.next = @ + 1]
    /\ UNCHANGED <<gluMessages, gluTable, gluNet>>

GluAgent(c) ==
    \/ GluSubscribe(c) \/ GluSend(c) \/ GluStore(c)
    \/ GluUnsubscribe(c) \/ GluUnsend(c) \/ GluClear(c)
GluClient == GluConnect \/ GluResubscribe \/ GluNotice \/ GluShortData \/ GluLongData
GluOutside == GluDrop \/ GluBrokerTakes \/ \E t \in GluTopics : GluMessage(t)

GluNextStep == (\E c \in GluCallers : GluAgent(c)) \/ GluClient \/ GluOutside

GluSpec == GluInit /\ [][GluNextStep]_gluVars

-----------------------------------------------------------------------------
GluTypeOK ==
    /\ gluSlots \in [1..GluSlots -> GluTopics \cup {"free"}]
    /\ \A c \in GluCallers :
          \/ gluCall[c] = GluNoCall
          \/ /\ gluCall[c].pc \in {"send", "store", "stale", "unsend", "clear"}
             /\ gluCall[c].topic \in GluOf(c) /\ gluCall[c].at \in 1..GluSlots
    /\ gluNext \in 0..GluSlots
    /\ gluLink \in {"up", "lost", "down"}
    /\ gluBroker \cup gluHeld \cup gluExcused \subseteq GluTopics
    /\ gluNext # 0 => gluLink # "down"

GluQuiet ==
    /\ gluLink = "up" /\ gluNext = 0 /\ gluWire = <<>>
    /\ \A c \in GluCallers : gluCall[c] = GluNoCall

\* When nothing is under way the broker knows every topic whose subscription was
\* reported good, and its callback is in the table, whatever connections were
\* lost on the way.  Two races are excused: a request lost with its connection
\* whose topic was entered only after the next connection had passed its slot
\* (esp-mqtt-glue.c:113-121 against 240-244), and two calls, one of the event
\* loop and one of the work queue, that find the same slot free (line 103) before
\* the first has filled it (line 121).
GluResubscribed ==
    GluQuiet => \A t \in gluHeld \ gluExcused :
                    t \in gluBroker /\ \E i \in 1..GluSlots : gluSlots[i] = t

\* A callback is given one message, all of it, and under its topic, although
\* connections break in the middle of a message and only the first part of one
\* carries a topic (esp-mqtt-glue.c:190-222, 268-288).
GluWholeMessages ==
    gluGot # GluNoMessage => gluGot.has = {gluGot.number} \X (1..gluGot.parts)
=============================================================================
