---------------------------- MODULE MqttSession ----------------------------
(***************************************************************************)
(* mqtt_client.c: the exchanges between an application and a broker, for   *)
(* every quality of service and in both directions: esp_mqtt_client_publish*)
(* and _enqueue, _subscribe and _unsubscribe, the handler of each packet,  *)
(* and what the task sends again.  Connections break, with what was on its *)
(* way lost; the broker (external) keeps its side of a session over them,  *)
(* or forgets it if it is a clean one.                                     *)
(*                                                                         *)
(* MqttClient has the timers, the lock and the outbox limit of the publish *)
(* that the firmware uses; here a retransmission may come at any time, and *)
(* each handler, run under the API lock, is one step.                      *)
(***************************************************************************)
EXTENDS Naturals, Sequences, SequencesExt, FiniteSets

CONSTANTS
    MAX_CALLS,          \* bound: calls of the application
    MAX_INCOMING,       \* bound: messages for the application
    MAX_BREAKS,         \* bound: connections that break
    IN_FLIGHT,          \* bound: packets under way when another exchange begins
    Operations,         \* what the application may call
    Sessions            \* sessions that are tried: [clean, qos]

ASSUME MqttSessionAssumption ==
    /\ {MAX_CALLS, MAX_INCOMING, MAX_BREAKS, IN_FLIGHT} \subseteq Nat
    /\ MAX_INCOMING <= IN_FLIGHT
    /\ Sessions \subseteq [clean : BOOLEAN, qos : 1 .. 2]
    /\ Operations \subseteq [op : {"publish", "enqueue", "subscribe", "unsubscribe"}, qos : 0 .. 2,
                             store : BOOLEAN]

Calls == 1 .. MAX_CALLS
Incoming == 1 .. MAX_INCOMING

NotCalled == [op |-> "none", qos |-> 0, store |-> FALSE]

VARIABLES
    state,      \* client->state: "INIT" or "CONNECTED"; "INIT" waits to reconnect, too
    conn,       \* the transport: "up", "broken" (nobody noticed) or "closed"
    outbox,     \* oldest item first; an item is [call, type, qos, pending]
    calls,      \* the operations called so far
    checked,    \* a subscribe or unsubscribe has looked at the state: its operation
    result,     \* what each call returned: "id" or "error"
    events,     \* PUBLISHED, SUBSCRIBED and UNSUBSCRIBED events, by call
    data,       \* DATA events of each message for the application
    toBroker, toClient,
    stored,     \* broker: calls of QoS 2 received and not yet released
    arrived,    \* broker: calls in the order in which their PUBLISH first came
    delivered,  \* broker: times each call's message was passed on
    granted,    \* broker: calls whose subscription or its removal it carried out
    sending,    \* broker: the state of each message for the application
    overtaken,  \* history: calls a later message was written before, or that a break lost
    breaks,
    session     \* whether the CONNECT asks for a clean session; the QoS of incoming messages

clientVars == <<state, conn, outbox, result, events, data>>
brokerVars == <<stored, arrived, delivered, granted, sending>>
sessionVars == <<clientVars, calls, checked, toBroker, toClient, brokerVars, overtaken, breaks,
                 session>>

\* Bound: the number of the call is its message id, so that no id is drawn twice.  Items
\* of QoS 0 all have id 0, which no packet carries.
HasId(item, id) == item.call = id /\ (item.qos > 0 \/ item.type # "PUBLISH")

Packet(type, id) == [type |-> type, id |-> id, qos |-> 0, ok |-> TRUE]

PacketOf(item) == [Packet(item.type, item.call) EXCEPT !.qos = item.qos]

SessionInit ==
    /\ state = "INIT" /\ conn = "closed" /\ outbox = <<>>
    /\ calls = <<>> /\ checked = NotCalled
    /\ result = [c \in Calls |-> "none"] /\ events = [c \in Calls |-> <<>>]
    /\ data = [m \in Incoming |-> 0]
    /\ toBroker = <<>> /\ toClient = <<>>
    /\ stored = {} /\ arrived = <<>> /\ delivered = [c \in Calls |-> 0] /\ granted = {}
    /\ sending = [m \in Incoming |-> "new"]
    /\ overtaken = {} /\ breaks = 0 /\ session \in Sessions

----------------------------------------------------------------------------
(* The outbox and the transport *)

First(q, Test(_)) == SelectInSeq(q, Test)

Find(q, id) == First(q, LAMBDA item : HasId(item, id))

Pending(pending) == First(outbox, LAMBDA item : item.pending = pending)

outbox_set_pending(q, id, pending) ==
    IF Find(q, id) = 0 THEN q ELSE [q EXCEPT ![Find(q, id)].pending = pending]

\* The item that a packet with this id answers is in the outbox.
remove_initiator_message(type, id) ==
    \E i \in DOMAIN outbox : HasId(outbox[i], id) /\ outbox[i].type = type

Without(type, id) == RemoveFirstMatch(outbox, LAMBDA item : HasId(item, id) /\ item.type = type)

\* Mutant of outbox_enqueue: STAILQ_INSERT_HEAD.
outbox_enqueue_first(item) == <<item>> \o outbox

outbox_enqueue(item) == Append(outbox, item)

Item(call, type, qos) == [call |-> call, type |-> type, qos |-> qos, pending |-> "QUEUED"]

\* Bytes written to a broken connection are lost; the write may also fail.
Write(packets) ==
    \/ conn = "up" /\ toBroker' = toBroker \o packets
    \/ conn = "broken" /\ UNCHANGED toBroker

Room(n) == Len(toBroker) + Len(toClient) + n <= IN_FLIGHT

WriteFails == conn # "up" /\ UNCHANGED toBroker

Abort == state' = "INIT" /\ conn' = "closed"

Unsent == {outbox[i].call : i \in {j \in DOMAIN outbox : outbox[j].pending = "QUEUED"}}

----------------------------------------------------------------------------
(* Calls of the application *)

Called(operation) == Len(calls) < MAX_CALLS /\ calls' = Append(calls, operation)

Call == Len(calls) + 1

Returns(value) == result' = [result EXCEPT ![Call] = value]

\* Kept in the outbox; connected, it is written at once, whatever else is queued.
Publish(operation) ==
    /\ operation.op = "publish" /\ Called(operation) /\ Room(1)
    /\ LET item == Item(Call, "PUBLISH", operation.qos)
           kept == IF item.qos > 0 THEN outbox_enqueue(item) ELSE outbox
       IN  \/ /\ state = "CONNECTED" /\ Write(<<PacketOf(item)>>)
              /\ outbox' = outbox_set_pending(kept, Call, "TRANSMITTED")
              /\ overtaken' = overtaken \cup Unsent \cup (IF conn = "up" THEN {} ELSE {Call})
              /\ Returns("id") /\ UNCHANGED <<state, conn>>
           \/ /\ state = "CONNECTED" /\ WriteFails
              /\ Abort /\ outbox' = kept /\ Returns("error") /\ UNCHANGED overtaken
           \/ /\ state # "CONNECTED"
              /\ outbox' = kept /\ Returns(IF item.qos > 0 THEN "id" ELSE "error")
              /\ UNCHANGED <<state, conn, toBroker, overtaken>>
    /\ UNCHANGED <<checked, events, data, toClient, brokerVars, breaks, session>>

\* Only stored, for the task to send.
Enqueue(operation) ==
    /\ operation.op = "enqueue" /\ Called(operation)
    /\ outbox' = IF operation.qos > 0 \/ operation.store
                 THEN outbox_enqueue(Item(Call, "PUBLISH", operation.qos)) ELSE outbox
    /\ Returns(IF operation.qos > 0 \/ operation.store THEN "id" ELSE "error")
    /\ UNCHANGED <<state, conn, checked, events, data, toBroker, toClient, brokerVars, overtaken,
                   breaks, session>>

\* Subscribe and unsubscribe look at the state before they take the lock.
CheckState(operation) ==
    /\ operation.op \in {"subscribe", "unsubscribe"}
    /\ Len(calls) < MAX_CALLS /\ checked = NotCalled /\ state = "CONNECTED"
    /\ checked' = operation
    /\ UNCHANGED <<clientVars, calls, toBroker, toClient, brokerVars, overtaken, breaks, session>>

\* A write that fails neither aborts the connection nor takes the item back.
Subscribe ==
    /\ checked # NotCalled /\ Called(checked) /\ checked' = NotCalled /\ Room(1)
    /\ LET item == Item(Call, IF checked.op = "subscribe" THEN "SUBSCRIBE" ELSE "UNSUBSCRIBE", 0)
       IN  /\ outbox' = outbox_set_pending(outbox_enqueue(item), Call, "TRANSMITTED")
           /\ \/ Write(<<PacketOf(item)>>) /\ Returns("id")
              \/ WriteFails /\ Returns("error")
    /\ UNCHANGED <<state, conn, events, data, toClient, brokerVars, overtaken, breaks, session>>

----------------------------------------------------------------------------
(* esp_mqtt_task *)

\* In a persistent session the broker begins with what it had not finished.
Unfinished ==
    LET Again(m) == CASE sending[m] = "sent" -> <<[Packet("PUBLISH", m) EXCEPT !.qos = session.qos]>>
                      [] sending[m] = "received" -> <<Packet("PUBREL", m)>>
                      [] OTHER -> <<>>
        Upto[m \in 0 .. MAX_INCOMING] == IF m = 0 THEN <<>> ELSE Upto[m - 1] \o Again(m)
    IN  Upto[MAX_INCOMING]

Connect ==
    /\ state = "INIT"
    /\ state' = "CONNECTED" /\ conn' = "up" /\ toBroker' = <<>>
    /\ IF session.clean
       THEN /\ stored' = {} /\ toClient' = <<>>
            /\ sending' = [m \in Incoming |-> IF sending[m] = "new" THEN "new" ELSE "done"]
       ELSE toClient' = Unfinished /\ UNCHANGED <<stored, sending>>
    /\ overtaken' = overtaken \cup {outbox[i].call : i \in {j \in DOMAIN outbox :
                                                          outbox[j].pending # "QUEUED"}}
    /\ UNCHANGED <<outbox, calls, checked, result, events, data, arrived, delivered, granted,
                   breaks, session>>

Receive(type) ==
    /\ state = "CONNECTED" /\ toClient # <<>> /\ Head(toClient).type = type
    /\ toClient' = Tail(toClient)
    /\ UNCHANGED <<calls, checked, result, brokerVars, overtaken, breaks, session>>

ReceiveFails ==
    /\ state = "CONNECTED" /\ conn # "up"
    /\ Abort
    /\ UNCHANGED <<outbox, calls, checked, result, events, data, toBroker, toClient, brokerVars,
                   overtaken, breaks, session>>

Event(id, event) == events' = [events EXCEPT ![id] = Append(@, event)]

\* Mutant of Finished: whether or not the item is still there.
FinishedAgain(initiator, id, event) ==
    /\ outbox' = Without(initiator, id) /\ Event(id, event)
    /\ UNCHANGED <<state, conn, data, toBroker>>

\* PUBACK, PUBCOMP, SUBACK and UNSUBACK finish what began with a packet of type `initiator`.
Finished(initiator, id, event) ==
    /\ IF remove_initiator_message(initiator, id)
       THEN outbox' = Without(initiator, id) /\ Event(id, event)
       ELSE UNCHANGED <<outbox, events>>
    /\ UNCHANGED <<state, conn, data, toBroker>>

ReceivePuback == Receive("PUBACK") /\ Finished("PUBLISH", Head(toClient).id, "PUBLISHED")
ReceivePubcomp == Receive("PUBCOMP") /\ Finished("PUBLISH", Head(toClient).id, "PUBLISHED")
ReceiveUnsuback == Receive("UNSUBACK") /\ Finished("UNSUBSCRIBE", Head(toClient).id, "UNSUBSCRIBED")
ReceiveSuback ==
    /\ Receive("SUBACK")
    /\ Finished("SUBSCRIBE", Head(toClient).id,
                IF Head(toClient).ok THEN "SUBSCRIBED" ELSE "SUBSCRIBE_FAILED")

\* The event, also for a message that came before; then the acknowledgement.
ReceivePublish ==
    /\ Receive("PUBLISH")
    /\ data' = [data EXCEPT ![Head(toClient).id] = @ + 1]
    /\ \/ Write(<<Packet(IF Head(toClient).qos = 1 THEN "PUBACK" ELSE "PUBREC", Head(toClient).id)>>)
          /\ UNCHANGED <<state, conn>>
       \/ WriteFails /\ Abort
    /\ UNCHANGED <<outbox, events>>

\* Mutant of ReceivePubrec: the item is still taken for unanswered.
ReceivePubrecForgets ==
    /\ Receive("PUBREC")
    /\ Write(<<Packet("PUBREL", Head(toClient).id)>>) \/ WriteFails
    /\ UNCHANGED <<state, conn, outbox, events, data>>

\* Mutant of ReceivePubrec: the message is taken for delivered.
ReceivePubrecFinishes ==
    /\ Receive("PUBREC")
    /\ outbox' = Without("PUBLISH", Head(toClient).id)
    /\ Write(<<Packet("PUBREL", Head(toClient).id)>>) \/ WriteFails
    /\ UNCHANGED <<state, conn, events, data>>

\* The write is not checked, neither here nor for PUBCOMP.
ReceivePubrec ==
    /\ Receive("PUBREC")
    /\ outbox' = outbox_set_pending(outbox, Head(toClient).id, "ACKNOWLEDGED")
    /\ Write(<<Packet("PUBREL", Head(toClient).id)>>) \/ WriteFails
    /\ UNCHANGED <<state, conn, events, data>>

ReceivePubrel ==
    /\ Receive("PUBREL")
    /\ Write(<<Packet("PUBCOMP", Head(toClient).id)>>) \/ WriteFails
    /\ UNCHANGED <<state, conn, outbox, events, data>>

TaskOnly == UNCHANGED <<calls, checked, result, events, data, toClient, brokerVars, breaks, session>>

\* The oldest item not sent yet; an item of QoS 0 is then done with.
ResendQueued ==
    /\ state = "CONNECTED" /\ Pending("QUEUED") # 0 /\ Room(1)
    /\ LET item == outbox[Pending("QUEUED")]
       IN  \/ /\ Write(<<PacketOf(item)>>)
              /\ outbox' = IF item.qos = 0 THEN RemoveAt(outbox, Pending("QUEUED"))
                           ELSE outbox_set_pending(outbox, item.call, "TRANSMITTED")
              /\ overtaken' = IF conn = "up" THEN overtaken ELSE overtaken \cup {item.call}
              /\ UNCHANGED <<state, conn>>
           \/ WriteFails /\ Abort /\ UNCHANGED <<outbox, overtaken>>
    /\ TaskOnly

\* Mutant of AgainFor: a PUBREC that was answered is not followed up.
AgainForUnanswered ==
    IF Pending("TRANSMITTED") = 0 THEN <<>> ELSE <<PacketOf(outbox[Pending("TRANSMITTED")])>>

\* The oldest item without an answer, and the PUBREL of the oldest one with a PUBREC.
AgainFor ==
    (IF Pending("TRANSMITTED") = 0 THEN <<>> ELSE <<PacketOf(outbox[Pending("TRANSMITTED")])>>)
    \o (IF Pending("ACKNOWLEDGED") = 0 THEN <<>>
        ELSE <<Packet("PUBREL", outbox[Pending("ACKNOWLEDGED")].call)>>)

Retransmit ==
    /\ state = "CONNECTED" /\ Pending("QUEUED") = 0 /\ AgainFor # <<>> /\ Room(Len(AgainFor))
    /\ \/ Write(AgainFor) /\ UNCHANGED <<state, conn>>
       \/ WriteFails /\ Abort
    /\ UNCHANGED <<outbox, overtaken>>
    /\ TaskOnly

----------------------------------------------------------------------------
(* The broker and the network *)

Answer(packet) == toClient' = Append(toClient, packet)

\* A message of QoS 2 is kept until it is released.
TakePublish(packet) ==
    /\ packet.type = "PUBLISH"
    /\ arrived' = IF Contains(arrived, packet.id) THEN arrived ELSE Append(arrived, packet.id)
    /\ stored' = IF packet.qos = 2 THEN stored \cup {packet.id} ELSE stored
    /\ delivered' = IF packet.qos = 2 THEN delivered
                    ELSE [delivered EXCEPT ![packet.id] = IF @ < 2 THEN @ + 1 ELSE @]
    /\ IF packet.qos = 0 THEN UNCHANGED toClient
       ELSE Answer(Packet(IF packet.qos = 1 THEN "PUBACK" ELSE "PUBREC", packet.id))
    /\ UNCHANGED <<granted, sending>>

\* What is released is passed on, if the broker knows it, and answered in any case.
TakePubrel(packet) ==
    /\ packet.type = "PUBREL"
    /\ stored' = stored \ {packet.id}
    /\ delivered' = IF packet.id \in stored THEN [delivered EXCEPT ![packet.id] = @ + 1]
                    ELSE delivered
    /\ Answer(Packet("PUBCOMP", packet.id))
    /\ UNCHANGED <<arrived, granted, sending>>

TakeSubscribe(packet) ==
    /\ packet.type \in {"SUBSCRIBE", "UNSUBSCRIBE"}
    /\ \E ok \in BOOLEAN :
           /\ granted' = IF ok THEN granted \cup {packet.id} ELSE granted
           /\ Answer([Packet(IF packet.type = "SUBSCRIBE" THEN "SUBACK" ELSE "UNSUBACK",
                             packet.id) EXCEPT !.ok = ok])
    /\ UNCHANGED <<stored, arrived, delivered, sending>>

TakePubrec(packet) ==
    /\ packet.type = "PUBREC"
    /\ sending' = [sending EXCEPT ![packet.id] = IF @ = "sent" THEN "received" ELSE @]
    /\ Answer(Packet("PUBREL", packet.id))
    /\ UNCHANGED <<stored, arrived, delivered, granted>>

TakeFinal(packet) ==
    /\ packet.type \in {"PUBACK", "PUBCOMP"}
    /\ sending' = [sending EXCEPT ![packet.id] = "done"]
    /\ UNCHANGED <<stored, arrived, delivered, granted, toClient>>

Take(packet) ==
    \/ TakePublish(packet) \/ TakePubrel(packet) \/ TakeSubscribe(packet)
    \/ TakePubrec(packet) \/ TakeFinal(packet)

BrokerTakes ==
    /\ conn = "up" /\ toBroker # <<>>
    /\ toBroker' = Tail(toBroker)
    /\ Take(Head(toBroker))
    /\ UNCHANGED <<clientVars, calls, checked, overtaken, breaks, session>>

BrokerPublishes ==
    /\ conn = "up" /\ Room(1)
    /\ \E m \in Incoming :
           /\ sending[m] = "new"
           /\ sending' = [sending EXCEPT ![m] = "sent"]
           /\ Answer([Packet("PUBLISH", m) EXCEPT !.qos = session.qos])
    /\ UNCHANGED <<clientVars, calls, checked, toBroker, stored, arrived, delivered, granted,
                   overtaken, breaks, session>>

\* What the client has not read may still be there; the broker sees no more of its packets.
Break ==
    /\ conn = "up" /\ breaks < MAX_BREAKS
    /\ conn' = "broken" /\ breaks' = breaks + 1
    /\ toBroker' = <<>>
    /\ \E n \in 0 .. Len(toClient) : toClient' = SubSeq(toClient, 1, n)
    /\ UNCHANGED <<state, outbox, calls, checked, result, events, data, brokerVars, overtaken,
                   session>>

Task ==
    \/ Connect \/ ReceiveFails
    \/ ReceivePublish \/ ReceivePuback \/ ReceivePubrec \/ ReceivePubrel \/ ReceivePubcomp
    \/ ReceiveSuback \/ ReceiveUnsuback

SessionNext ==
    \/ \E operation \in Operations :
           Publish(operation) \/ Enqueue(operation) \/ CheckState(operation)
    \/ Subscribe
    \/ Task \/ ResendQueued \/ Retransmit
    \/ BrokerTakes \/ BrokerPublishes \/ Break

\* The task runs, the broker answers, and a retransmission timer runs out in the end.
SessionFairness ==
    /\ WF_sessionVars(Task) /\ WF_sessionVars(BrokerTakes)
    /\ SF_sessionVars(ResendQueued) /\ SF_sessionVars(Retransmit)

SessionSpec == SessionInit /\ [][SessionNext]_sessionVars /\ SessionFairness

----------------------------------------------------------------------------
(* Properties *)

Published(qos) == {c \in DOMAIN calls : calls[c].op \in {"publish", "enqueue"} /\ calls[c].qos = qos}

\* Exactly once: however packets are lost, sent again and answered late, the broker never
\* passes a message of QoS 2 on a second time (mqtt_client.c:1478-1495, 1748-1790).
NeverTwice == \A c \in Published(2) : delivered[c] <= 1

InOutbox == {outbox[i].call : i \in DOMAIN outbox}

\* At least once, both ways: a message of QoS 1 or 2 stays in the outbox until the broker has
\* passed it on (one of QoS 2 in a clean session may be forgotten by the broker between the
\* two), and a message that the broker is done with was given to the application
\* (mqtt_client.c:1426-1495).
AtLeastOnce ==
    /\ \A c \in Published(1) \cup (IF session.clean THEN {} ELSE Published(2)) :
           c \in InOutbox \/ delivered[c] > 0
    /\ ~ session.clean => \A m \in Incoming : sending[m] = "done" => data[m] > 0

\* A PUBLISHED event tells of a message that the broker has passed on, and each call has at
\* most one event, of its own kind, that says what the broker did (mqtt_client.c:1403-1425, 1463-1528).
EventsTrue ==
    \A c \in DOMAIN calls :
        /\ Len(events[c]) <= 1
        /\ Contains(events[c], "PUBLISHED") =>
               c \in Published(1) \cup Published(2) /\ (session.clean \/ delivered[c] > 0)
        /\ Contains(events[c], "SUBSCRIBED") => calls[c].op = "subscribe" /\ c \in granted
        /\ Contains(events[c], "UNSUBSCRIBED") => calls[c].op = "unsubscribe"

\* Messages reach the broker in the order of the calls, but for those that were written
\* late: overtaken in the outbox by one that was written at once, or lost with a connection.
KeptOrder ==
    \A i, j \in DOMAIN arrived :
        i < j /\ {arrived[i], arrived[j]} \cap overtaken = {} => arrived[i] < arrived[j]

Awaited(c) ==
    /\ c \in DOMAIN calls /\ result[c] = "id"
    /\ calls[c].qos > 0 \/ calls[c].op \in {"subscribe", "unsubscribe"}

\* Every message of QoS 1 or 2 that the application handed over, every subscription and
\* every removal of one is answered in the end.
Answered == []<>(\A c \in Calls : Awaited(c) => events[c] # <<>>)
=============================================================================
