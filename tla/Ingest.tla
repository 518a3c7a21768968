------------------------------- MODULE Ingest -------------------------------
(***************************************************************************)
(* backend/ingest.py: the process that turns MQTT messages into rows of    *)
(* raw_windows, between a broker that keeps its session and systemd, which *)
(* starts it again when it dies.                                           *)
(*                                                                         *)
(* paho (external) calls on_message for one message at a time and sends    *)
(* the PUBACK when it returns; an exception that leaves on_message ends    *)
(* loop_forever and with it the process.  The broker (external) holds what *)
(* is not acknowledged and sends it again on the next connection.          *)
(***************************************************************************)
EXTENDS Naturals, Sequences, SequencesExt, FiniteSetsExt

CONSTANTS
    MaxWindow,      \* bound: windows the device publishes
    Malformed,      \* windows whose payload validate_payload refuses
    Odd,            \* windows whose payload raises something else
    MAX_INFLIGHT,   \* Mosquitto's max_inflight_messages, not set in the repository
    MAX_QUEUED,     \* Mosquitto's max_queued_messages, not set in the repository
    MaxDuplicates,  \* bound: windows the device publishes twice
    MaxBreaks,      \* bound: lost connections and killed processes
    MaxStoreErrors  \* bound: calls of store_window that raise sqlite3.Error

Windows == 1 .. MaxWindow

ASSUME IngestAssumption ==
    /\ Malformed \subseteq Windows /\ Odd \subseteq Windows \ Malformed
    /\ MAX_INFLIGHT \in Nat \ {0}
    /\ {MaxWindow, MAX_QUEUED, MaxDuplicates, MaxBreaks, MaxStoreErrors} \subseteq Nat

VARIABLES
    accepted,       \* the messages the broker took for the subscriber, by message id
    published,      \* windows the device has published
    discarded,      \* windows the broker dropped because its queue was full
    session,        \* broker: ids not acknowledged yet, oldest first
    inFlight,       \* broker: how many of them were sent on this connection
    link,           \* the connection between broker and ingest.py
    toIngest,       \* message ids on their way to ingest.py
    toBroker,       \* PUBACKs on their way to the broker
    running,        \* the process is there
    pc,             \* "loop", "store" or "return" of on_message
    msg,            \* the id of the message on_message works on
    rows,           \* raw_windows, by row id
    logged,         \* history: windows dropped with a warning
    connections,    \* history: connections made so far
    duplicates,     \* windows published twice so far
    breaks,         \* connections lost and processes killed so far
    storeErrors     \* sqlite3.Error raised so far

brokerVars == <<accepted, published, discarded, session, inFlight, duplicates>>
linkVars == <<link, toIngest, toBroker, connections>>
processVars == <<running, pc, msg>>
dbVars == <<rows, logged, storeErrors>>
vars == <<brokerVars, linkVars, processVars, dbVars, breaks>>

NoMessage == 0

\* The subscription exists: ingest.py has run before, and its session is kept.
Init ==
    /\ accepted = <<>> /\ published = 0 /\ discarded = {}
    /\ session = <<>> /\ inFlight = 0
    /\ link = FALSE /\ toIngest = <<>> /\ toBroker = <<>> /\ connections = 0
    /\ running = TRUE /\ pc = "loop" /\ msg = NoMessage
    /\ rows = <<>> /\ logged = {}
    /\ duplicates = 0 /\ breaks = 0 /\ storeErrors = 0

----------------------------------------------------------------------------
(***************************************************************************)
(* The device and the broker (external).                                   *)
(***************************************************************************)

\* A QoS 1 message for a persistent session is queued until it is full.
Accept(w) ==
    IF Len(session) < MAX_QUEUED
    THEN /\ accepted' = Append(accepted, w)
         /\ session' = Append(session, Len(accepted) + 1)
         /\ UNCHANGED discarded
    ELSE discarded' = discarded \cup {w} /\ UNCHANGED <<accepted, session>>

DevicePublishes ==
    /\ published < MaxWindow
    /\ published' = published + 1
    /\ Accept(published + 1)
    /\ UNCHANGED <<inFlight, duplicates, linkVars, processVars, dbVars, breaks>>

\* The device has not seen the PUBACK of a window and sends it again.
DeviceRetransmits ==
    /\ duplicates < MaxDuplicates
    /\ duplicates' = duplicates + 1
    /\ \E w \in 1 .. published : Accept(w)
    /\ UNCHANGED <<published, inFlight, linkVars, processVars, dbVars, breaks>>

BrokerSends ==
    /\ link /\ inFlight < Len(session) /\ inFlight < MAX_INFLIGHT
    /\ inFlight' = inFlight + 1
    /\ toIngest' = Append(toIngest, session[inFlight + 1])
    /\ UNCHANGED <<accepted, published, discarded, session, duplicates, link, toBroker,
                   connections, processVars, dbVars, breaks>>

BrokerForgets ==
    /\ toBroker # <<>>
    /\ toBroker' = Tail(toBroker)
    /\ session' = RemoveFirst(session, Head(toBroker))
    /\ inFlight' = inFlight - 1
    /\ UNCHANGED <<accepted, published, discarded, duplicates, link, toIngest, connections,
                   processVars, dbVars, breaks>>

----------------------------------------------------------------------------
(***************************************************************************)
(* ingest.py.                                                              *)
(***************************************************************************)

Window == accepted[msg]

\* client.connect, or loop_forever after a lost connection: the broker resumes
\* the session from its first message.  on_connect subscribes again, which
\* changes nothing in a session that is kept.
\* A loop that does not reconnect:
OnConnectOnce ==
    /\ running /\ pc = "loop" /\ ~link
    /\ connections = 0
    /\ link' = TRUE /\ connections' = 1
    /\ inFlight' = 0
    /\ UNCHANGED <<accepted, published, discarded, session, duplicates, toIngest, toBroker,
                   processVars, dbVars, breaks>>

OnConnect ==
    /\ running /\ pc = "loop" /\ ~link
    /\ link' = TRUE /\ connections' = connections + 1
    /\ inFlight' = 0
    /\ UNCHANGED <<accepted, published, discarded, session, duplicates, toIngest, toBroker,
                   processVars, dbVars, breaks>>

\* The connection goes with the process, and what is in it with the connection.
CloseLink ==
    /\ link' = FALSE /\ toIngest' = <<>> /\ toBroker' = <<>>
    /\ UNCHANGED connections

\* The process dies: an open transaction is rolled back, nothing is acknowledged.
Die ==
    /\ running' = FALSE /\ pc' = "loop" /\ msg' = NoMessage
    /\ CloseLink
    /\ UNCHANGED <<brokerVars, dbVars>>

\* on_message: validate_payload, and the errors it catches.
OnMessage ==
    /\ running /\ pc = "loop" /\ toIngest # <<>>
    /\ msg' = Head(toIngest) /\ toIngest' = Tail(toIngest)
    /\ IF accepted[msg'] \in Malformed
       THEN pc' = "return" /\ logged' = logged \cup {accepted[msg']}
       ELSE pc' = "store" /\ UNCHANGED logged
    /\ UNCHANGED <<running, brokerVars, link, toBroker, connections, rows, storeErrors, breaks>>

\* store_window: the INSERT is committed.
\* Without the commit:
StoreWindowLeavesOpen ==
    /\ pc = "store" /\ Window \notin Odd
    /\ pc' = "return"
    /\ UNCHANGED <<running, msg, brokerVars, linkVars, dbVars, breaks>>

\* With a retry around it that repeats what was already committed:
StoreWindowAgain ==
    /\ pc = "store" /\ Window \notin Odd
    /\ rows' = rows \o <<Window, Window>>
    /\ pc' = "return"
    /\ UNCHANGED <<running, msg, brokerVars, linkVars, logged, storeErrors, breaks>>

StoreWindow ==
    /\ pc = "store" /\ Window \notin Odd
    /\ rows' = Append(rows, Window)
    /\ pc' = "return"
    /\ UNCHANGED <<running, msg, brokerVars, linkVars, logged, storeErrors, breaks>>

\* ... or raises sqlite3.Error: a warning, and the message counts as handled.
\* Without the warning, or with the message put back although it is acknowledged:
StoreWindowFailsSilently ==
    /\ pc = "store" /\ Window \notin Odd
    /\ storeErrors < MaxStoreErrors
    /\ storeErrors' = storeErrors + 1
    /\ pc' = "return"
    /\ UNCHANGED <<running, msg, brokerVars, linkVars, rows, logged, breaks>>

StoreWindowFails ==
    /\ pc = "store" /\ Window \notin Odd
    /\ storeErrors < MaxStoreErrors
    /\ storeErrors' = storeErrors + 1
    /\ logged' = logged \cup {Window}
    /\ pc' = "return"
    /\ UNCHANGED <<running, msg, brokerVars, linkVars, rows, breaks>>

\* ... or raises an error that on_message does not catch: KeyError for a missing
\* sample_rate_hz, TypeError for an axis that is no list (already in len).
StoreWindowRaises ==
    /\ pc = "store" /\ Window \in Odd
    /\ Die
    /\ UNCHANGED breaks

\* on_message has returned: paho queues the PUBACK, if the connection is still there.
Acknowledge ==
    /\ pc = "return"
    /\ toBroker' = IF link THEN Append(toBroker, msg) ELSE toBroker
    /\ pc' = "loop" /\ msg' = NoMessage
    /\ UNCHANGED <<running, brokerVars, link, toIngest, connections, dbVars, breaks>>

\* The connection breaks, or the broker is restarted: its session is kept.
ConnectionLost ==
    /\ link /\ breaks < MaxBreaks
    /\ breaks' = breaks + 1
    /\ CloseLink
    /\ UNCHANGED <<brokerVars, processVars, dbVars>>

Killed ==
    /\ running /\ breaks < MaxBreaks
    /\ breaks' = breaks + 1
    /\ Die

\* Restart=on-failure.
Restart ==
    /\ ~running
    /\ running' = TRUE
    /\ UNCHANGED <<pc, msg, brokerVars, linkVars, dbVars, breaks>>

Device == DevicePublishes \/ DeviceRetransmits
Broker == BrokerSends \/ BrokerForgets
Callback ==
    \/ OnMessage \/ StoreWindow \/ StoreWindowFails \/ StoreWindowRaises \/ Acknowledge
Failure == ConnectionLost \/ Killed

Next == Device \/ Broker \/ OnConnect \/ Callback \/ Restart \/ Failure

Spec == Init /\ [][Next]_vars

\* The broker and paho go on, systemd restarts the process; failures are rare
\* enough (MaxBreaks) for a message to get through.
FairSpec ==
    /\ Spec
    /\ WF_vars(Broker) /\ WF_vars(OnConnect) /\ WF_vars(Callback) /\ WF_vars(Restart)

\* Bound on the states: without odd payloads there are fewer connections than this,
\* but an odd payload kills the process on every connection.
MaxConnections == MaxBreaks + 2
FewConnections == connections < MaxConnections

----------------------------------------------------------------------------
Stored(w) == \E i \in DOMAIN rows : rows[i] = w

RowsOf(w) == Cardinality({i \in DOMAIN rows : rows[i] = w})

CopiesOf(w) == Cardinality({m \in DOMAIN accepted : accepted[m] = w})

Held(w) == \E m \in ToSet(session) : accepted[m] = w

(***************************************************************************)
(* A window that the broker has taken is in raw_windows, still held by the *)
(* broker for ingest.py, or was dropped with a warning: no order of lost   *)
(* connections, crashes and restarts loses one (ingest.py: "the broker     *)
(* holds QoS>=1 messages published while this client is offline and        *)
(* redelivers them on reconnect instead of dropping them").                *)
(***************************************************************************)
NothingLost ==
    \A m \in DOMAIN accepted :
        LET w == accepted[m] IN Stored(w) \/ Held(w) \/ w \in logged

(***************************************************************************)
(* Redelivery stores a window again, but no more than once per connection  *)
(* and per copy the device sent.                                           *)
(***************************************************************************)
OncePerDelivery ==
    \A w \in Windows : RowsOf(w) <= CopiesOf(w) * connections

(***************************************************************************)
(* Row ids follow the order in which the broker took the windows: a window *)
(* is never stored for the first time after one that was taken later,      *)
(* unless a warning says that storing it failed.  fetch_fft_results sorts  *)
(* by row id, and split_healthy takes that for the order of time.          *)
(***************************************************************************)
FirstRowsInOrder ==
    \A m, n \in DOMAIN accepted : \A i \in DOMAIN rows :
        m < n /\ rows[i] = accepted[n] /\ accepted[n] \notin {accepted[k] : k \in 1 .. m} =>
            accepted[m] \in logged \/ \E j \in 1 .. i : rows[j] = accepted[m]

(***************************************************************************)
(* Every window the broker has taken is stored, or dropped with a warning, *)
(* in the end, whatever is lost, killed or started again on the way, as    *)
(* long as no odd payload has come.  on_message promises it without that   *)
(* condition ("Any failure just logs and drops that one message rather     *)
(* than stopping the client's event loop"), but an odd payload passes the  *)
(* validation and stops the loop: it is delivered again first on every     *)
(* connection and keeps the windows behind it out.                         *)
(***************************************************************************)
HandledUnlessOdd ==
    \A w \in Windows \ Odd :
        w \in ToSet(accepted) ~>
            Stored(w) \/ w \in logged \/ ToSet(accepted) \cap Odd # {}
=============================================================================
