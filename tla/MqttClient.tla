---------------------------- MODULE MqttClient ----------------------------
(***************************************************************************)
(* components/espressif__mqtt: the client that publish_task hands its      *)
(* windows to, as the firmware uses it: one task calling                   *)
(* esp_mqtt_client_publish with QoS 1, the client's own task, a TCP        *)
(* connection that can break without either side noticing, and a broker    *)
(* (external) that takes packets in order and acknowledges each PUBLISH.   *)
(*                                                                         *)
(* Both tasks work under the client's recursive API lock; the broker, the  *)
(* network and the clock interleave with every step.  Time is counted in   *)
(* ticks: a timer is the number of ticks since it was set, no further than *)
(* the code can tell apart.                                                *)
(***************************************************************************)
EXTENDS Naturals, Sequences, SequencesExt

CONSTANTS
    MsgIds,             \* message ids, 1 .. 65534 in the code
    MaxWindow,          \* bound: windows that are published
    OUTBOX_WINDOWS,     \* windows that fit in outbox.limit
    SEND_BUFFER,        \* packets the transport holds before a write times out
    RETRANSMIT,         \* message_retransmit_timeout, 1 s
    RECONNECT,          \* reconnect_timeout_ms, 10 s
    EXPIRE,             \* OUTBOX_EXPIRED_TIMEOUT_MS, 30 s
    KEEPALIVE,          \* keepalive, 120 s
    MaxAge,             \* bound: items older than this are not told apart
    MaxFailures         \* bound: failures of the network

ASSUME MqttClientAssumption ==
    /\ MsgIds # {}
    /\ {MaxWindow, OUTBOX_WINDOWS, SEND_BUFFER, RETRANSMIT, RECONNECT, EXPIRE,
        KEEPALIVE, MaxAge, MaxFailures} \subseteq Nat

Windows == 1 .. MaxWindow

VARIABLES
    apiLock,            \* who holds MQTT_API_LOCK: "free", "task" or "publisher"
    taskPc,             \* where esp_mqtt_task is
    pubStep,            \* where esp_mqtt_client_publish is: "idle", "enqueue" or "send"
    published,          \* windows given to esp_mqtt_client_publish so far
    state,              \* client->state
    connected,          \* mqtt_is_connected of app_main.c
    outbox,             \* the outbox, oldest item first
    sinceRetransmit,    \* ticks since last_retransmit
    sinceKeepalive,     \* ticks since keepalive_tick
    sinceClosed,        \* ticks since reconnect_tick
    waitPing,           \* wait_for_ping_resp
    conn,               \* the transport: "up", "broken" (nobody noticed) or "closed"
    toBroker,           \* packets on their way to the broker
    toClient,           \* packets on their way to the client
    received,           \* windows the broker has
    kept,               \* history: windows that entered the outbox
    expired,            \* history: windows deleted from the outbox by their age
    idReused,           \* history: an id was drawn that was still in use
    failures            \* failures of the network so far

netVars == <<conn, toBroker, toClient, received, failures>>
timerVars == <<sinceRetransmit, sinceKeepalive, sinceClosed, waitPing>>
historyVars == <<kept, expired, idReused>>
callVars == <<pubStep, published>>
mqttVars == <<apiLock, taskPc, callVars, state, connected, outbox, timerVars,
              netVars, historyVars>>

Item == [window : Windows, id : MsgIds, pending : {"QUEUED", "TRANSMITTED"}, age : 0 .. MaxAge]

Packet ==
    [type : {"PUBLISH"}, window : Windows, id : MsgIds]
        \cup [type : {"PUBACK"}, id : MsgIds]
        \cup [type : {"PINGREQ", "PINGRESP"}]

\* last_retransmit = 0: not connected yet.
Unset == RETRANSMIT + 1

MqttInit ==
    /\ apiLock = "free" /\ taskPc = "lock" /\ pubStep = "idle" /\ published = 0
    /\ state = "INIT" /\ connected = FALSE /\ outbox = <<>>
    /\ sinceRetransmit = Unset /\ sinceKeepalive = 0 /\ sinceClosed = 0 /\ waitPing = FALSE
    /\ conn = "closed" /\ toBroker = <<>> /\ toClient = <<>>
    /\ received = {} /\ kept = {} /\ expired = {} /\ idReused = FALSE
    /\ failures = 0

----------------------------------------------------------------------------
(* The outbox: every search finds the oldest item that matches. *)

Dequeue(pending) == SelectInSeq(outbox, LAMBDA item : item.pending = pending)

outbox_get(q, id) == SelectInSeq(q, LAMBDA item : item.id = id)

SetPending(q, id, pending) ==
    LET i == outbox_get(q, id)
    IN  IF i = 0 THEN q ELSE [q EXCEPT ![i].pending = pending]

SetTick(q, id) ==
    LET i == outbox_get(q, id)
    IN  IF i = 0 THEN q ELSE [q EXCEPT ![i].age = 0]

\* Mutant of Delete: the oldest item is deleted, whichever was acknowledged.
DeleteOldest(q, id) == IF q = <<>> THEN q ELSE Tail(q)

Delete(q, id) == RemoveFirstMatch(q, LAMBDA item : item.id = id)

IsExpired(item) == item.age > EXPIRE

\* Item by item from the oldest, as the loop of the code goes.
outbox_delete_expired(q) ==
    LET Remaining[n \in 0 .. Len(q)] ==
            IF n = 0 THEN <<>>
            ELSE IF IsExpired(q[n]) THEN Remaining[n - 1] ELSE Append(Remaining[n - 1], q[n])
    IN  Remaining[Len(q)]

InOutbox == {outbox[i].window : i \in DOMAIN outbox}

----------------------------------------------------------------------------
(* The transport *)

\* Bytes the peer will never see are accepted too, until the break is noticed.
WriteOk(packet) ==
    \/ /\ conn = "up" /\ Len(toBroker) < SEND_BUFFER
       /\ toBroker' = Append(toBroker, packet)
    \/ /\ conn = "broken"
       /\ toBroker' = toBroker

WriteFails ==
    /\ conn = "up" => Len(toBroker) >= SEND_BUFFER
    /\ toBroker' = toBroker

PublishPacket(item) == [type |-> "PUBLISH", window |-> item.window, id |-> item.id]

\* Mutant of Abort: the client still believes it is connected.
AbortKeepsState ==
    /\ conn' = "closed"
    /\ connected' = FALSE
    /\ sinceClosed' = 0
    /\ waitPing' = FALSE
    /\ UNCHANGED state

\* esp_mqtt_abort_connection, and the DISCONNECTED event it dispatches.
Abort ==
    /\ conn' = "closed"
    /\ state' = "WAIT_RECONNECT"
    /\ connected' = FALSE
    /\ sinceClosed' = 0
    /\ waitPing' = FALSE

Unlock == apiLock' = "free"

----------------------------------------------------------------------------
(* esp_mqtt_task *)

\* An iteration begins: take the lock, delete expired items, look at the state.
TaskLock ==
    /\ taskPc = "lock" /\ apiLock = "free"
    /\ apiLock' = "task"
    /\ outbox' = outbox_delete_expired(outbox)
    /\ expired' = expired \cup {outbox[i].window : i \in {j \in DOMAIN outbox : IsExpired(outbox[j])}}
    /\ taskPc' = CASE state = "INIT" -> "connect"
                   [] state = "CONNECTED" -> "receive"
                   [] state = "WAIT_RECONNECT" -> "wait"
    /\ UNCHANGED <<callVars, state, connected, timerVars, netVars, kept, idReused>>

\* TCP connection, CONNECT and CONNACK, all with the lock held.
ConnectOk ==
    /\ taskPc = "connect"
    /\ conn' = "up" /\ toBroker' = <<>> /\ toClient' = <<>>
    /\ state' = "CONNECTED" /\ connected' = TRUE
    /\ sinceKeepalive' = 0 /\ waitPing' = FALSE
    /\ Unlock /\ taskPc' = "check"
    /\ UNCHANGED <<callVars, outbox, sinceRetransmit, sinceClosed, received, failures,
                   historyVars>>

ConnectFails ==
    /\ taskPc = "connect" /\ failures < MaxFailures
    /\ failures' = failures + 1
    /\ Abort /\ Unlock /\ taskPc' = "check"
    /\ UNCHANGED <<callVars, outbox, sinceRetransmit, sinceKeepalive, toBroker, toClient,
                   received, historyVars>>

\* last_retransmit is set when the client first gets past the receive.
StartRetransmit ==
    sinceRetransmit' = IF sinceRetransmit = Unset THEN 0 ELSE sinceRetransmit

ReceiveNothing ==
    /\ taskPc = "receive" /\ toClient = <<>>
    /\ StartRetransmit
    /\ taskPc' = "resend"
    /\ UNCHANGED <<apiLock, callVars, state, connected, outbox, sinceKeepalive,
                   sinceClosed, waitPing, netVars, historyVars>>

\* mqtt_process_receive: a PUBACK finishes the item with its id.
ReceivePacket ==
    /\ taskPc = "receive" /\ toClient # <<>>
    /\ LET packet == Head(toClient)
       IN  /\ outbox' = IF packet.type = "PUBACK" THEN Delete(outbox, packet.id) ELSE outbox
           /\ waitPing' = (waitPing /\ packet.type # "PINGRESP")
           /\ sinceKeepalive' = IF packet.type = "PINGRESP" THEN 0 ELSE sinceKeepalive
    /\ toClient' = Tail(toClient)
    /\ StartRetransmit
    /\ taskPc' = "resend"
    /\ UNCHANGED <<apiLock, callVars, state, connected, sinceClosed, conn, toBroker,
                   received, failures, historyVars>>

ReceiveFails ==
    /\ taskPc = "receive" /\ conn # "up"
    /\ Abort /\ Unlock /\ taskPc' = "check"
    /\ UNCHANGED <<callVars, outbox, sinceRetransmit, sinceKeepalive, toBroker, toClient,
                   received, failures, historyVars>>

\* The oldest item that was never sent goes first.
ResendQueued ==
    /\ taskPc = "resend" /\ Dequeue("QUEUED") # 0
    /\ LET item == outbox[Dequeue("QUEUED")]
       IN  \/ /\ WriteOk(PublishPacket(item))
              /\ outbox' = SetPending(outbox, item.id, "TRANSMITTED")
              /\ UNCHANGED <<conn, state, connected, sinceClosed, waitPing>>
           \/ WriteFails /\ Abort /\ UNCHANGED outbox
    /\ taskPc' = "keepalive"
    /\ UNCHANGED <<apiLock, callVars, sinceRetransmit, sinceKeepalive, toClient, received,
                   failures, historyVars>>

\* The item that is sent again is the oldest one without a PUBACK, if its tick is old enough.
RetransmitDue ==
    /\ taskPc = "resend" /\ Dequeue("QUEUED") = 0
    /\ sinceRetransmit >= RETRANSMIT

HasOldTransmitted ==
    /\ Dequeue("TRANSMITTED") # 0
    /\ outbox[Dequeue("TRANSMITTED")].age > RETRANSMIT

\* Mutant of ResendTransmitted: what was sent once is never sent again.
ResendNothing ==
    /\ RetransmitDue /\ HasOldTransmitted
    /\ sinceRetransmit' = 0
    /\ taskPc' = "keepalive"
    /\ UNCHANGED <<apiLock, callVars, outbox, sinceKeepalive, netVars, state, connected,
                   sinceClosed, waitPing, historyVars>>

ResendTransmitted ==
    /\ RetransmitDue /\ HasOldTransmitted
    /\ sinceRetransmit' = 0
    /\ \/ /\ WriteOk(PublishPacket(outbox[Dequeue("TRANSMITTED")]))
          /\ UNCHANGED <<conn, state, connected, sinceClosed, waitPing>>
       \/ WriteFails /\ Abort
    /\ taskPc' = "keepalive"
    /\ UNCHANGED <<apiLock, callVars, outbox, sinceKeepalive, toClient, received,
                   failures, historyVars>>

NothingToResend ==
    /\ taskPc = "resend" /\ Dequeue("QUEUED") = 0
    /\ ~(RetransmitDue /\ HasOldTransmitted)
    /\ sinceRetransmit' = IF RetransmitDue THEN 0 ELSE sinceRetransmit
    /\ taskPc' = "keepalive"
    /\ UNCHANGED <<apiLock, callVars, outbox, sinceKeepalive, netVars, state, connected,
                   sinceClosed, waitPing, historyVars>>

PingLate == waitPing /\ sinceKeepalive >= KEEPALIVE

PingDue == ~waitPing /\ sinceKeepalive >= KEEPALIVE \div 2

\* process_keepalive, reached even if the resend has just closed the connection.
KeepaliveFine ==
    /\ taskPc = "keepalive" /\ ~PingLate /\ ~PingDue
    /\ Unlock /\ taskPc' = "check"
    /\ UNCHANGED <<callVars, state, connected, outbox, timerVars, netVars, historyVars>>

Ping ==
    /\ taskPc = "keepalive" /\ PingDue
    /\ \/ /\ WriteOk([type |-> "PINGREQ"])
          /\ waitPing' = TRUE
          /\ UNCHANGED <<conn, state, connected, sinceClosed>>
       \/ WriteFails /\ Abort
    /\ Unlock /\ taskPc' = "check"
    /\ UNCHANGED <<callVars, outbox, sinceRetransmit, sinceKeepalive, toClient, received,
                   failures, historyVars>>

NoPingResponse ==
    /\ taskPc = "keepalive" /\ PingLate
    /\ Abort
    /\ Unlock /\ taskPc' = "check"
    /\ UNCHANGED <<callVars, outbox, sinceRetransmit, sinceKeepalive, toBroker, toClient,
                   received, failures, historyVars>>

\* MQTT_STATE_WAIT_RECONNECT: connect again when reconnect_timeout_ms has passed.
Wait ==
    /\ taskPc = "wait"
    /\ state' = IF sinceClosed > RECONNECT THEN "INIT" ELSE state
    /\ Unlock /\ taskPc' = "lock"
    /\ UNCHANGED <<callVars, connected, outbox, timerVars, netVars, historyVars>>

\* The lock is free: client->state is read without it.
Check ==
    /\ taskPc = "check"
    /\ taskPc' = IF state = "CONNECTED" THEN "poll" ELSE "lock"
    /\ UNCHANGED <<apiLock, callVars, state, connected, outbox, timerVars, netVars,
                   historyVars>>

\* So is the transport, which publish_task may close meanwhile.
PollReturns ==
    /\ taskPc = "poll" /\ conn # "closed"
    /\ taskPc' = "lock"
    /\ UNCHANGED <<apiLock, callVars, state, connected, outbox, timerVars, netVars,
                   historyVars>>

PollFails ==
    /\ taskPc = "poll" /\ conn # "up"
    /\ taskPc' = "abort"
    /\ UNCHANGED <<apiLock, callVars, state, connected, outbox, timerVars, netVars,
                   historyVars>>

\* The abort takes the lock and returns it.
PollAbort ==
    /\ taskPc = "abort" /\ apiLock = "free"
    /\ Abort
    /\ taskPc' = "lock"
    /\ UNCHANGED <<apiLock, callVars, outbox, sinceRetransmit, sinceKeepalive, toBroker,
                   toClient, received, failures, historyVars>>

TaskStep ==
    \/ ConnectOk \/ ConnectFails
    \/ ReceiveNothing \/ ReceivePacket \/ ReceiveFails
    \/ ResendQueued \/ ResendTransmitted \/ NothingToResend
    \/ KeepaliveFine \/ Ping \/ NoPingResponse
    \/ Wait \/ Check \/ PollReturns \/ PollFails

TaskTakesLock == TaskLock \/ PollAbort

----------------------------------------------------------------------------
(* esp_mqtt_client_publish, called by publish_task *)

PublishLock ==
    /\ pubStep = "idle" /\ published < MaxWindow /\ apiLock = "free"
    /\ apiLock' = "publisher"
    /\ pubStep' = "enqueue"
    /\ UNCHANGED <<taskPc, published, state, connected, outbox, timerVars, netVars, historyVars>>

PublishReturns ==
    /\ Unlock
    /\ pubStep' = "idle"
    /\ published' = published + 1

OutboxFull == Len(outbox) >= OUTBOX_WINDOWS

\* The outbox is at its limit: -2.
PublishFull ==
    /\ pubStep = "enqueue" /\ OutboxFull
    /\ PublishReturns
    /\ UNCHANGED <<taskPc, state, connected, outbox, timerVars, netVars, historyVars>>

\* The heap is exhausted: -1, and nothing is stored.
PublishNoMemory ==
    /\ pubStep = "enqueue" /\ ~OutboxFull
    /\ PublishReturns
    /\ UNCHANGED <<taskPc, state, connected, outbox, timerVars, netVars, historyVars>>

\* Ids in the outbox, or that a packet under way may still acknowledge.
IdsInUse ==
    {outbox[i].id : i \in DOMAIN outbox}
        \cup {p.id : p \in {q \in ToSet(toBroker) \cup ToSet(toClient) :
                                q.type \in {"PUBLISH", "PUBACK"}}}

\* A random id, whether or not another message has it, and the outbox item; what
\* cannot be sent now waits for esp_mqtt_task.
PublishEnqueue(id) ==
    /\ pubStep = "enqueue" /\ ~OutboxFull
    /\ outbox' = Append(outbox, [window |-> published + 1, id |-> id,
                                 pending |-> "QUEUED", age |-> 0])
    /\ kept' = kept \cup {published + 1}
    /\ idReused' = (idReused \/ id \in IdsInUse)
    /\ IF state = "CONNECTED"
       THEN pubStep' = "send" /\ UNCHANGED <<apiLock, published>>
       ELSE PublishReturns
    /\ UNCHANGED <<taskPc, state, connected, timerVars, netVars, expired>>

\* The item just enqueued is written at once, whatever else is queued.
PublishSent ==
    /\ pubStep = "send"
    /\ LET item == outbox[Len(outbox)]
       IN  /\ WriteOk(PublishPacket(item))
           /\ outbox' = SetPending(SetTick(outbox, item.id), item.id, "TRANSMITTED")
    /\ PublishReturns
    /\ UNCHANGED <<taskPc, state, connected, timerVars, conn, toClient, received, failures,
                   historyVars>>

\* Mutant of PublishSendFails: this way out forgets to unlock.
PublishSendFailsKeepsLock ==
    /\ pubStep = "send"
    /\ WriteFails /\ Abort
    /\ pubStep' = "idle" /\ published' = published + 1
    /\ UNCHANGED <<apiLock, taskPc, outbox, sinceRetransmit, sinceKeepalive, toClient, received,
                   failures, historyVars>>

\* -1, but the item stays in the outbox, to be sent after the reconnection.
PublishSendFails ==
    /\ pubStep = "send"
    /\ WriteFails /\ Abort
    /\ PublishReturns
    /\ UNCHANGED <<taskPc, outbox, sinceRetransmit, sinceKeepalive, toClient, received,
                   failures, historyVars>>

PublishStep ==
    \/ PublishFull \/ PublishNoMemory \/ PublishSent \/ PublishSendFails
    \/ \E id \in MsgIds : PublishEnqueue(id)

----------------------------------------------------------------------------
(* The broker, the network and the clock *)

\* What was under way when the connection broke or was closed may arrive or not; the
\* answer to it arrives only if the connection is up.
BrokerTakes ==
    /\ toBroker # <<>>
    /\ LET packet == Head(toBroker)
           answer == IF packet.type = "PUBLISH" THEN [type |-> "PUBACK", id |-> packet.id]
                                                ELSE [type |-> "PINGRESP"]
       IN  /\ received' = IF packet.type = "PUBLISH" THEN received \cup {packet.window}
                                                     ELSE received
           /\ toClient' = IF conn = "up" THEN Append(toClient, answer) ELSE toClient
    /\ toBroker' = Tail(toBroker)
    /\ UNCHANGED <<apiLock, taskPc, callVars, state, connected, outbox, timerVars, conn,
                   failures, historyVars>>

NetworkBreaks ==
    /\ conn = "up" /\ failures < MaxFailures
    /\ failures' = failures + 1
    /\ conn' = "broken"
    /\ \E n \in 0 .. Len(toBroker) : toBroker' = SubSeq(toBroker, 1, n)
    /\ \E n \in 0 .. Len(toClient) : toClient' = SubSeq(toClient, 1, n)
    /\ UNCHANGED <<apiLock, taskPc, callVars, state, connected, outbox, timerVars, received,
                   historyVars>>

\* One tick later, as far as a timer with the given bound can tell.
Later(n, bound) == IF n < bound THEN n + 1 ELSE n

Tick ==
    /\ outbox' = [i \in DOMAIN outbox |-> [outbox[i] EXCEPT !.age = Later(@, MaxAge)]]
    /\ sinceRetransmit' = IF sinceRetransmit = Unset THEN Unset
                                                     ELSE Later(sinceRetransmit, RETRANSMIT)
    /\ sinceKeepalive' = IF state = "CONNECTED" THEN Later(sinceKeepalive, KEEPALIVE)
                                                ELSE sinceKeepalive
    /\ sinceClosed' = IF state = "WAIT_RECONNECT" THEN Later(sinceClosed, RECONNECT + 1)
                                                  ELSE sinceClosed
    /\ UNCHANGED <<apiLock, taskPc, callVars, state, connected, waitPing, netVars, historyVars>>

MqttNext ==
    \/ TaskTakesLock \/ TaskStep
    \/ PublishLock \/ PublishStep
    \/ BrokerTakes \/ NetworkBreaks \/ Tick

MqttSpec == MqttInit /\ [][MqttNext]_mqttVars

\* A timer of the connected client has run out.
TimerDue ==
    /\ state = "CONNECTED"
    /\ PingDue \/ PingLate \/ (sinceRetransmit >= RETRANSMIT /\ HasOldTransmitted)

\* The assumption of the liveness property: a packet and its answer take less than a tick
\* (a second) while the connection is up, and esp_mqtt_task, which polls for at most
\* MQTT_POLL_READ_TIMEOUT_MS = 1 s, comes to a timer that has run out before the next one.
PromptTick ==
    /\ conn = "up" => toBroker = <<>> /\ toClient = <<>>
    /\ ~TimerDue
    /\ Tick

----------------------------------------------------------------------------
(* Properties *)

(***************************************************************************)
(* At least once: a window that entered the outbox stays there until the   *)
(* broker has it or it is too old, whatever the order of writes, breaks,   *)
(* reconnections and late PUBACKs, as long as no random message id was     *)
(* drawn while another message was using it (mqtt_msg.c:71).               *)
(***************************************************************************)
NoSilentLoss ==
    ~idReused => kept \subseteq InOutbox \cup received \cup expired

(***************************************************************************)
(* When the lock is free, the state, the transport and the application's   *)
(* mqtt_is_connected agree, so that no task writes to a transport that the *)
(* other one has closed (mqtt_client.c:2205, 851-858, app_main.c:71-78).   *)
(***************************************************************************)
StateAgrees ==
    apiLock = "free" =>
        /\ connected <=> state = "CONNECTED"
        /\ connected <=> conn # "closed"

(***************************************************************************)
(* Once the network stops failing, every window that entered the outbox    *)
(* reaches the broker: QUEUED items are sent, lost ones are sent again,    *)
(* and a connection that died unnoticed is detected (in runs where no item *)
(* grows old enough to be deleted).                                        *)
(***************************************************************************)
Delivered ==
    \A w \in Windows : w \in kept ~> (w \in received \cup expired \/ idReused)
=============================================================================
