# Conveyor Monitor: TLA+ models, checks and proofs

Conveyor Monitor measures belt vibration.  An ESP32 samples an MPU6500 accelerometer over
I2C, collects windows of consecutive samples and publishes them over MQTT; a Raspberry Pi
stores the windows in SQLite, computes spectra and classifies the belt as healthy or worn.
The value of every spectrum rests on one promise of the firmware: *a window is a gapless run
of samples*.  These modules state that promise and the others that carry it (who owns a
buffer, what an overflow does, what an outage of the network does), check them with TLC on
small instances, and prove the central ones with TLAPS for every instance.

Paths below are relative to `src/`.

## 1. The system

| Component | State | Operations | Interacts with |
|---|---|---|---|
| MPU6500 and its FIFO (hardware) | 512-byte ring, `FIFO_EN` | a 6-byte sample every 2 ms; overwrites the oldest bytes when full | the driver, by I2C registers |
| Driver, `components/mpu6500` | none but the sensor's registers | `mpu6500_read_fifo_samples`, `mpu6500_fifo_restart`, `mpu6500_enable_fifo`, init | called by `sample_task` only |
| `sample_task`, `main/app_main.c` | `active_window_index`, `next_sample_index`, a batch | wake every 20 ms, drain, store, submit a full window | driver; `free_buffer_queue`, `ready_buffer_queue` |
| `publish_task`, `main/app_main.c` | `ready_window_index`, `window_json_buf` | receive, convert to JSON, publish, release | both queues; the MQTT client |
| Window pool, `main/app_main.c` | two buffers, two queues of indices | (the tasks') | shared without a lock |
| MQTT client, `components/espressif__mqtt` | connection state, timers, outbox, API lock | connect, receive, resend, keepalive, reconnect, abort; publish and enqueue, subscribe and unsubscribe; init, start, stop, destroy, disconnect, reconnect, set_config | its own task; `publish_task`; transport; events to `app_main.c` |
| MQTT packets, `lib/mqtt_msg.c` | the buffer of a connection | encode and read each packet; `mqtt_message_receive` cuts them from a stream | MQTT client, transport |
| MQTT 5, `mqtt5_client.c`, `lib/mqtt5_msg.c` | properties, limits of the broker, unacknowledged count, topic aliases | set properties, check a publish, parse each answer | MQTT client; not enabled by the firmware |
| Wi-Fi station, `components/wifi` | event bits, back-off, one-shot timer | event handler, timer callback, `wifi_wait_connected` | ESP-IDF events; transport |
| Broker, Mosquitto (external) | persistent session of the subscriber | accepts, acknowledges, redelivers | MQTT client, ingestion |
| Ingestion, `backend/ingest.py` | SQLite connection | `on_connect`, `on_message` | broker, storage |
| Storage, `backend/storage.py` | six tables | one transaction per call | ingestion, analysis, labels, classifier |
| Analysis, `backend/analyze_fft.py` | none | `run_once` | storage |
| Labels and classifier, `analysis/` | none | clear and relabel; baseline, threshold, verdicts | storage |

**What is hard here.**  Two tasks share the window buffers with no lock, by passing indices
through queues whose sends are never checked.  The sensor runs while the driver reads it in
several transfers, each of which can fail.  The MQTT client's task and `publish_task` share a
connection that can die without notice, under a lock that is held across blocking network calls;
retransmission, expiry, keepalive and reconnection are all timers.  The client is also started,
stopped and reconfigured by calls that do without the lock, its packets come in pieces with
time-outs between them, and QoS 2 is an exchange of four packets of which any may be lost.  On the
Pi, QoS 1 redelivers, several processes write one database, and some operations take more than one
transaction.  `PROJECT.json` lists these hazards one by one, each at its line.

**What makes each component correct.**

* Window pool: every buffer has one owner; a payload is gapless and ordered; nothing is lost
  unless it is logged; no buffer is lost.
* Driver: bytes in the FIFO are contiguous; reads return whole, aligned, consecutive samples;
  an overflow is reported; a restart restarts.
* MQTT client: what entered the outbox is acknowledged, still there or expired; state,
  transport and application agree; everything is delivered once the network is back; the
  lock is always released; QoS 2 messages are passed on once, events tell what happened; a
  stop leaves nothing behind; packets are handled as they were sent and read back as they were
  meant; limits and counts belong to the broker of this connection.
* Wi-Fi: a lost link is always followed up, by one thing at a time and after the documented
  delay; the connected bit tells the truth; start-up waits for nobody.
* Ingestion: a window the broker took is stored at least once, or dropped with a warning, in
  the order of arrival; one bad message does not stop the others.
* Analysis, labels, classifier: each window gets one result; a reader sees the labels of one
  complete labelling; nothing is evaluated against a baseline it was fitted to.

## 2. The modules

| Module | Models | Lines of the code |
|---|---|---|
| `SampleStream` | what a sample is: the offset of its first byte in the sensor's byte stream | `mpu6500.c:301-309` |
| `WindowPool` | `sample_task`, `publish_task`, both queues, the shared buffers | `app_main.c:176-301`, `:365-375` |
| `WindowStream` | the promise of the pool: an atomic bounded queue of whole windows | (abstract) |
| `Mpu6500` | the FIFO, the count and chunked data reads, the restart, a failing bus | `mpu6500.c:221-316` |
| `Firmware` | `WindowPool` with the driver of `Mpu6500` in place of its idealised one | `app_main.c:256-275` |
| `MqttClient` | `esp_mqtt_task`, `esp_mqtt_client_publish`, the outbox, transport, broker and clock | `mqtt_client.c:693-861`, `:1364-1576`, `:1604-1843`, `:2104-2274`, `mqtt_outbox.c` |
| `MCMqttClient` | symmetry of message ids for TLC | |
| `MqttSession` | QoS 0, 1 and 2 in both directions, subscriptions, the outbox, a broker and its session | `mqtt_client.c:1173-1226`, `:1403-1602`, `:1748-1790`, `:1976-2316`, `mqtt_outbox.c` |
| `MqttSession_proofs` | theorems about `MqttSession` | |
| `MqttLifecycle` | the client handle: configuration, start, stop, destroy, disconnect, reconnect, and the task between its waits | `mqtt_client.c:285-314`, `:405-654`, `:879-1034`, `:1650-1958` |
| `MqttMsg` | the packets of MQTT 3.1.1 as functions from and to bytes | `mqtt_msg.c` |
| `MqttWire` | what is written, and the stream of bytes that is read | `mqtt_client.c:53-72`, `:751-847`, `:1081-1170`, `:1255-1462` |
| `Mqtt5Msg` | the packets of MQTT 5, their properties and their readers | `mqtt5_msg.c` |
| `Mqtt5` | what the client keeps about its broker and its next packets | `mqtt5_client.c`, and where `mqtt_client.c` calls it |
| `MqttCodec_proofs` | lemmas about sequences, bytes, properties and packets, for the next two | |
| `MqttWire_proofs` | theorems about `MqttMsg` and `MqttWire` | |
| `Mqtt5_proofs` | theorems about `Mqtt5Msg` and `Mqtt5` | |
| `MCMqttSession`, `MCMqttLifecycle`, `MCMqttWire`, `MCMqtt5` | the small sets of calls, configurations, packets and brokers that TLC tries | |
| `Device` | `WindowPool` whose publish step is the call into `MqttClient` | `app_main.c:198-207` |
| `Pipeline_proofs` | theorems about `WindowPool`, `MqttClient`, `Device` and `Firmware`: that the pool implements `WindowStream` and the device both its halves, and the driver under the pool | |
| `Wifi` | `wifi_event_handler`, `reconnect_timer_cb`, `wifi_start`, `wifi_wait_connected`, and the station they drive | `wifi.c:25-107` |
| `Connection_proofs` | theorems about `MqttLifecycle` and `Wifi` | |
| `Ingest` | `ingest.py` between the broker's session, SQLite and systemd | `ingest.py:49-99`, `storage.py:14-99`, `conveyor-ingest.service` |
| `Ingest_proofs` | theorems about `Ingest` | |
| `Analysis` | `analyze_fft.py` over the database, next to ingestion | `analyze_fft.py:41-86`, `storage.py:102-148` |
| `Classifier` | `Analysis` with `labels.py` and `classify_faults.py` on the same database | `labels.py:66-79`, `classify_faults.py:54-81`, `:168-212`, `storage.py:178-237` |
| `Classifier_proofs` | theorems about `Analysis` and `Classifier` | |

### WindowPool

`free` and `ready` are the two FreeRTOS queues, `window` the pool, `active`/`next` the two
locals of `sample_task`, `pubIndex`/`json` those of `publish_task`.  A step is as large as
what the other task cannot tell apart: one queue operation, or *one sample* copied into or
out of a shared buffer, so that a buffer reused too early would show.  `stPc` and `pubPc`
say where the tasks are.  `QueueSend` is `xQueueSend` with timeout 0: it drops the item when
the queue is full, as the code, which never checks, would.  `handed`, `nextRead` and
`dropped` are history.  On its own the module takes a driver that loses samples only when it
says so (`DrainOk`, `DrainOverflow`, `ReadError`); `Firmware` replaces it.

### Mpu6500

`fifo` holds byte offsets, so that misaligned axes and gaps are visible in arithmetic: a
sample is `Aligned` when its first byte is a multiple of the sample size.  Each I2C transfer
is one step, and `TakeSample` may come between any two.  A failed write may or may not have
reached the sensor; a failed burst read may have popped any number of bytes.  `BusError` has
two values because `MPU6500_ERR_FIFO_OVERFLOW` is defined as `ESP_ERR_INVALID_STATE`, which
the bus driver may return too: `sample_task` then discards a window it need not discard.
`silent` records that bytes were lost and that no return value will say so; the properties
about samples hold until then, and `window_with_gap` shows what happens after.

### Firmware

`sample_task` is the driver's only caller: `CallDriver` and `DriverReturns` connect the
two programme counters, and the value returned selects `ReadOk`, `ReadOverflow` or
`ReadError` of `WindowPool`.

### MqttClient

`taskPc` follows `esp_mqtt_task` between the points where the lock, the transport or the
clock can interleave; `pubStep` follows `esp_mqtt_client_publish`.  `apiLock` is
`MQTT_API_LOCK`.  `outbox` is the list of `mqtt_outbox.c`, oldest first; its searches return
the first match, also when two items have the same random id.  `conn` distinguishes a
connection that broke without anyone noticing (`"broken"`: writes still succeed) from one
that this side closed.  Timers count ticks up to the last value the code can tell apart, and
`Tick` may happen at any moment in the safety runs: a step may take arbitrarily long.  A
receive that times out in mid-message counts as a break of the connection.  `kept`,
`expired`, `idReused` are history.

### MqttSession

The same client once more, for what an application may do with it beside the firmware's own
publish: every QoS, `enqueue`, subscriptions and messages in the other direction.  Timers,
the lock and expiry are left to `MqttClient`; here each call and each handler of a packet is
one step, a retransmission may come at any moment, and the broker (external) is modelled in
detail, as what it must not do depends on what it is sent.  `Take`, an action for each kind of packet,
is a broker that keeps a
QoS 2 message until it is released and answers packets it knows nothing of; after a
reconnection of a persistent session it sends again what it had not finished (`Unfinished`).
`outbox` items carry `QUEUED`, `TRANSMITTED` or `ACKNOWLEDGED` as in `mqtt_outbox.c`, and all
searches return the first match.  The number of a call is its message id; that random ids
may collide is in `MqttClient`.  A subscribe takes two steps, since `client->state` is read
before the lock is taken (`CheckState`).

### MqttLifecycle

One `taskPc` per task that was created, because nothing but the order of calls keeps two
tasks from sharing a handle.  `stopped`, `disconnect` and `reconnect` are the event bits,
which nobody clears but the task; calls that do not take the lock (`Disconnect`,
`Reconnect`, the test of `run` in `Destroy`) are steps that may fall into a connection attempt.
The history variable `misused` is set when an application calls again before the task of
a start has begun, starts twice, or reconfigures a running client with a URI that cannot be
parsed: the code has no defence against these, and the properties are stated without
them.  Messages, and the DISCONNECT packet that a stop sends, are in `MqttSession` and `Mqtt5`.

### MqttMsg and MqttWire

`MqttMsg` translates the encoders and readers of `mqtt_msg.c` one by one, on sequences of bytes;
the moves within the buffer are left out, what comes out of them is not.  `MqttWire` encodes one
request of the application and then reads what a broker sent: `Stream` is the bytes of its packets
one after the other, `pos` how far the transport has been read, and `in_buffer` is `held` bytes of
it.  Each call of `esp_transport_read` is a step that returns some bytes, none in time, or an
error, so that `mqtt_message_receive` returns and resumes at every place where it may.  A PUBLISH
above the size of the buffer becomes DATA events whose `offset`, length and total are compared to
the payload the broker sent. The packets of a session are any of a broker's (`BrokerPackets`) that
can be written (`Sendable`), with the CONNACK first (`SessionsAssumption`); a request is any call
with any strings of bytes (`RequestsAssumption`).

### Mqtt5Msg and Mqtt5

`Mqtt5Msg` has the properties (`Number`, `Text`, `UserProperties` for the three shapes that
`append_property` writes) and one encoder and one reader per packet.  `Mqtt5` connects to one
broker after the other, with different CONNACKs, and follows what `mqtt5_client.c` keeps:
`server` over reconnections, `count` within one, `publish_property` until the next message,
`peer_topic_alias`.  `setHere` remembers on which side of a change of brokers the alias of
`publish_property` was checked.  The packets of `last` are real bytes, which `ReadBack` decodes again.
`inFlight` is the broker's side of `count`.

### Device

`publish_task`'s call becomes `CallPublish` (wait for the lock) and `StepPublish`; when the
call returns, `publish_task` goes on.  Window *w* of `MqttClient` is `handed[w]`.

### Wifi

Three tasks: `app_main` (`boot`), the default event loop, which hands one event of `events`
after the other to the handler, and the timer task (`armed`, `firing`: taken off the list, the
callback not yet run).  `sta` is the driver's state machine, and `EspWifiConnect` its answer
to a call, which may be an error: `reconnect_timer_cb` logs that one and does nothing, the
handler of `STA_START` does not even look at it.  `LinkLost` stands for every way to lose an
attempt or a link; the DHCP client may still announce an address for a link already gone
(`lateLease`).  `backoff` and `delay` are the values of the code in seconds; `offline` counts
the disconnections since the last address, to say what the delay should be.

### Ingest

`session` is what the broker holds for the subscriber and has no PUBACK for; a connection
resumes it from the start.  `on_message` is cut where something else can happen: taken from
the socket (`OnMessage`), the commit or the error (`StoreWindow...`), the return
(`Acknowledge`, paho's PUBACK).  A process that dies in between takes the message with it, and
the broker sends it again.  `Malformed` payloads are refused by `validate_payload`; `Odd` ones
pass it and raise an error that `on_message` does not catch.  `rows` is `raw_windows`.

### Analysis and Classifier

A transaction is a step; a program may end (`...Dies`) before each.  `run_once` reads once
(`StartAnalysis`) and commits per window.  `labels.py` clears, labels the healthy ranges and
labels the worn ranges, in that order.  `classify_faults.py` reads spectra and labels in one
statement, splits the healthy rows by position, stores the baseline and then a verdict at a
time.  A window is its row id; a session's time range is the set of windows it covers.
Amplitudes, thresholds and verdicts themselves are data.  Each program is run one instance
at a time, as `storage.py:3` has it.

## 3. What TLC checks

| Run | Checks | Shows |
|---|---|---|
| `window_pool` | `OneOwner`, `HandedGapless`, `ImplementsStream` | the hand-over is safe, payloads are gapless and ordered, and the pool refines `WindowStream` |
| `firmware` | `ReadsWholeSamples`, `GaplessUnlessSilent`, `LossIsLogged`, `FifoDrained` | reads return whole, aligned samples, and payloads over the driver are gapless and no loss goes unlogged, until bytes are lost in silence; neither the queues, the bus nor `publish_task` ever stop `sample_task`, and a backlog is drained |
| `mqtt_client` | `NoSilentLoss`, `StateAgrees` | at-least-once up to the broker, and agreement of the two tasks about the connection |
| `device` | `BufferReturns`, `Delivered` | whatever the network does, `publish_task` is not stuck and no buffer or lock is lost; when the network stops failing, every window in the outbox arrives |
| `mqtt_session` | `NeverTwice`, `AtLeastOnce`, `EventsTrue`, `KeptOrder`, `Answered` | QoS 2 is exactly once for the receiver of the broker, QoS 1 and 2 are kept until they were passed on, an event is raised once and only for what happened, incoming messages are acknowledged after they were given to the application, order is lost only to a queue or a broken connection, and every exchange ends |
| `mqtt_lifecycle` | `StoppedMeansEnded`, `PortAsAsked`, `ConnectsWhenInvited`, `EndsWhenAsked` | a stop or destroy leaves no task and no connection, and returns; connections go to the port that was configured, and are made only when asked for if the client does not reconnect on its own; requests to connect and to disconnect are carried out |
| `mqtt_wire` | `PacketsAsSent`, `PiecesOfPayload`, `RequestReadable`, `PacketsAnswered` | however a stream is cut into reads, the packets that were sent are handled once and in order, large payloads come in the right pieces; what the client writes has the length it announces, and a broker finds the fields of a CONNECT by its flags |
| `mqtt5` | `CountTrue`, `BrokerRespected`, `EventsAsMeant`, `ReadBack` | over changes of brokers, the count, the limits and the broker's aliases are those of the connection (the client's own aliases only in the two cases that the code checks); every packet reads back as what was asked for; properties are used once |
| `wifi` | `ExactlyOneRecovery`, `BitFollowsLink`, `DelayDoubles`, `ComesBack` | a lost link is followed up once and only once, with the documented delay; start-up does not depend on it; the link comes back unless `esp_wifi_connect` has failed |
| `ingest` | `NothingLost`, `OncePerDelivery`, `FirstRowsInOrder`, `HandledUnlessOdd` | what the broker took is stored, held or logged, in every order of crashes and redeliveries; second rows come from second deliveries only; everything is handled in the end unless an odd payload has come |
| `classifier` | `OneResultEach`, `OneLabelling`, `EvaluationHeldOut`, `EveryWindowAnalysed` | the batch programs may be interleaved and stopped between any two transactions: no window is analysed twice or skipped, all are analysed up to the first that raises an error, no reader uses a half-done labelling, no window is both fitted and evaluated |
| `window_with_gap` | `WindowsConsecutive` (violated) | an overflow between the count and the data is not reported, and puts a gap into a published window on a bus that never fails |

`window_with_gap` is a disagreement between the code and what its README says; `PROJECT.json`
quotes the lines.  How likely it is is a matter of time, which the models do not measure: it needs
a preemption of `sample_task` between two transfers while the FIFO is almost full.

Other places where the code does not do what a reader of its comments would expect.  The
properties except them by name, or by a history variable, and the hazards in `PROJECT.json`
give the lines:

* *Driver.*  The last register write of the FIFO restart, if it fails, leaves the FIFO off for
  good (`mpu6500.c:237`).
* *Wi-Fi.*  One error of `esp_wifi_connect` leaves the station offline until it is restarted
  (`wifi.c:36`; `wifi.h:8` has "never giving up").
* *MQTT client.*  Windows are deleted from the outbox after 30 s (`mqtt_client.c:1618`;
  README.md:117 has all of them read once the network is restored).  `esp_mqtt_client_publish`
  waits for a lock that the task holds while it connects, so that samples may be dropped
  although the outbox is empty (`:1660`).
* *MQTT sessions.*  With a clean session, a QoS 2 message that the broker forgot after its PUBREC
  is reported as published.  Incoming QoS 2 messages that are sent again are given to the
  application again (`:1426`).  A subscribe whose write fails returns an error and leaves an item
  behind that is sent later (`:2033`).
* *Client handle.*  Two tasks after a second start before the first has begun (`:1852`); a
  disconnect that is asked for while the client waits to reconnect is forgotten (`:1669`).
* *Byte stream.*  A time-out in the rest of a large PUBLISH has it acknowledged without its end
  (`:1162`).  The condition that resumes in the length of a packet also holds within its body
  (`:1283`): an acknowledgement whose id has two high bytes, cut after its third byte, is read
  together with the first byte of the next packet.  The header of a large PUBLISH is taken for
  two bytes shorter than it is (`:1328`): of a message id that ends beyond `in_buffer`, the rest
  is given to the application as payload.  The last two were met while `PacketsAsSent` and
  `PiecesOfPayload` were proved, and are what the proofs need as hypotheses.  Beside the runs,
  `tlc -config MqttWire_ack.cfg MCMqttWire` and `tlc -config MqttWire_id.cfg MCMqttWire` give the
  counterexamples (to `OneMessage` and to `PiecesOfPayload`).
* *MQTT 5.*  One message more than the broker's receive maximum (`mqtt5_client.c:305`), any
  number from the outbox (`mqtt_client.c:1758`), and a count that grows with each PUBREL or
  SUBSCRIBE sent again (`:1782`).  A response topic joined to the response information loses
  its last byte (`mqtt5_msg.c:766`).  Aliases of the last connection stay known in the next one.
  The limits of the last broker stay too, where the CONNACK of the next one does not name them
  (`server_resp_property_info` is set up once, `:154`), and an alias and a shared subscription are
  checked when they are set (`:433`, `:468`), not when they are sent.  After a broker that takes
  five aliases, alias 1 goes to a broker that takes none: set before the break or after it, if
  the second CONNACK does not name a maximum, and set before it, if it names 0.
  `BrokerRespected` says of aliases what remains: the first broker takes them, and a later one
  that names a maximum takes those that were set since.  A broker's maximum packet size is kept
  and never looked at.
* *Ingestion.*  An odd payload (no `sample_rate_hz`) stops the service, comes back first after
  the restart, and keeps later windows out (`ingest.py:82`).
* *Analysis.*  A stored window of fewer than two samples stops every later analysis
  (`analyze_fft.py:65`).  `EveryWindowAnalysed` excepts this window and those behind it, and the
  run has one of each.

### Bounds

* **WindowPool**: two buffers (as in the code), windows of two samples, batches of up to three,
  nine samples.  A batch can begin in one window and end in another, a third window needs a buffer
  that was used before, and both queues become full and empty.  One-byte samples: the module never
  looks inside one.
* **Mpu6500, Firmware**: a FIFO that is no multiple of the sample (5 bytes of 2, for 512 of 6), so
  that an overflow leaves a partial sample; one-sample chunks, so that a read takes several
  transfers; one failed transfer.  `MaxProduced` ends the sensor after enough samples to overflow,
  restart and overflow again.
* **MqttClient**: two ids for three windows (ids are used again), an outbox of two, a transport
  that holds two packets (writes can block), one failure of the network.  The real time-outs (1,
  10, 30 and 120 s) are scaled to 1, 1, 2 and 2 ticks.  In the safety runs nothing relates ticks
  to steps, so that every order of timers and steps occurs and the ratio does not matter.
* **MqttSession**: two calls out of six kinds, an incoming message, one break, two packets under
  way, and three kinds of session (clean, and persistent with incoming QoS 1 or 2).  Every
  exchange can meet one of its own kind and one of each other kind, and lose any of its packets.
* **MqttLifecycle**: two tasks, three other calls, one failure; seven configurations that set,
  keep and contradict each other's port, scheme and options, one of them with an unknown scheme
  and one that cannot be parsed.
* **MqttWire**: a buffer of 12 bytes, messages that fit it, that exceed it by one read or by many,
  and with a length of two bytes, and a topic that does not fit, so that the message is given up;
  a read returns the first byte, all but the last, or all there is; two connections.  In
  `mqtt_wire` no acknowledgement has an id of two high bytes and no message id ends beyond the
  buffer; `MqttWire_ack.cfg` and `MqttWire_id.cfg` have one session with one of these each.  Requests
  of every kind around the 40 bytes of the output buffer.  What follows a PUBLISH that was given
  up is not followed.
* **Mqtt5**: three calls; four calls, messages and retransmissions together; two connections to
  brokers that say nothing, that limit, that name five or no aliases, or that refuse, one
  retransmission; property texts that need a length of two bytes, and a message that does not fit
  the output buffer and goes out in pieces.
* **Device**: windows of one sample, two windows, an outbox of one; no item becomes old enough to
  be deleted.
* **Wifi**: delays of 1, 2, 4 and 5 seconds (a maximum that is no power of two), five failures
  (the maximum is reached, used again and left), one refused call.
* **Ingest**: four windows, one malformed and one odd; two messages in flight and a queue of three
  (the broker discards), a retransmission, two breaks or kills, one SQLite error.  The odd window
  kills the process on every connection, so that the constraint `FewConnections` ends the run
  after four of them; without odd payloads no behaviour gets there, and with one
  `HandledUnlessOdd` asks for nothing more, so that the bound hides no counterexample.
* **Classifier**: five windows, of which the fourth cannot be analysed and the fifth could be, two
  at a time per run, so that new windows, several runs and a death fall between the steps; two
  labellings over overlapping ranges, one classification, a fraction of 7/10, with one or two
  healthy windows to split.

### Fairness

* `WindowPool.Fairness`: both tasks keep being scheduled.  `sample_task` has the higher
  priority and sleeps between drains; `publish_task` blocks only on its queue and in the
  publish call, which `Device` opens up.
* `FirmwareFairSpec`: a transfer ends within its timeout (an error is an end).
  The sensor is not fair: nothing waits for a sample.
* `DeviceFairness`: strong fairness for taking the lock.  The client's task blocks between two
  iterations without the lock (poll, or event bits), and `publish_task` holds it for one call,
  so neither starves the other.  The network need not break, the broker answers.
* `PromptTick` (in `Device` only): a packet and its answer take less than a tick while the
  connection is up, and the client's task, which polls for at most 1 s, comes to a timer that
  has run out before the next tick.  Without it the clock could outrun both ends for ever.
* `SessionFairness`: the task reads and connects, the broker takes packets; strong for what is sent
  again, because the timer of a retransmission may run out while other packets are under way, but
  does so again and again.  Calls, messages of the broker and breaks are not fair.
* `LifecycleFairness`: strong for each task, which waits for the lock without order; weak for the
  second half of a reconnect.  The application need not call anything.
* `MqttWireFairness`: strong for reads, as bytes that were sent arrive although single
  reads may time out.  `Mqtt5Spec` has no fairness and no liveness: the state it would need is
  that of `MqttSession`.
* `Wifi.FairSpec`: the ESP32's tasks run and timers run out.  `NetworkFair`, that an access
  point lets the station in, is a premise of one half of `ComesBack`: start-up goes on
  without any network.
* `Ingest.FairSpec`: broker and paho go on, systemd restarts the process (`Restart=on-failure`;
  a limit on restarts is not set in the unit and not modelled).
* `Classifier.FairSpec`: cron runs the analysis again and again.  The operator's two programs
  are not fair.

### Mutants

Every property of a passing run has a mutant: a plausible slip in one definition
(`...Late`, `...KeepsIndex`, `...Leaks`, kept next to the definition it changes) with which
TLC finds the property violated.  They show that the bounds reach the case the property is
about.

## 4. What is proved

TLAPS proves the theorems below for every value of the constants: of every safety invariant the
runs check, of one action property and of the refinements.  `PROJECT.json` says of each which
property of a run it states.

Each proof has the same frame: an inductive invariant (TLC checked it on the instances of the
runs before it was proved), a lemma per part of it with a step per action, and theorems that
combine them with the temporal prover.  The assumptions are the named `ASSUME`s
of the modules - sizes are naturals, a window and a sample are not empty, a port is a number,
"none" is no scheme - and TLC evaluates them in every run.  Where a bound of a run is a constant
(`MaxSample`, `MAX_STARTS`, `MaxBreaks`), a theorem holds for every value of it.

### The sampling side

| Theorem | Statement |
|---|---|
| `TypeCorrect` | `Spec => []TypeOK` |
| `SingleOwner` | `Spec => []OneOwner` |
| `PayloadsGapless` | `Spec => []HandedGapless` |
| `NoGapUnlogged` | `Spec => []DropsAreLogged` |
| `PoolImplementsStream` | `Spec => ImplementsStream` |
| `FirmwareSingleOwner` | `FirmwareSpec => [](TypeOK /\ OneOwner /\ MpuTypeOK)` |
| `WholeSamples` | `FirmwareSpec => []ReadsWholeSamples` |
| `FirmwareGapless` | `FirmwareSpec => []GaplessUnlessSilent` |
| `FirmwareLossLogged` | `FirmwareSpec => []LossIsLogged` |

*Ownership.*  `TypeOK /\ OneOwner` is inductive.  The heart of it is `PoolBound`: a queue of
buffers without duplicates holds at most `WINDOW_QUEUE_DEPTH` of them (by cardinality), hence
a queue that does not hold the buffer being sent has room, hence the unchecked `xQueueSend`
never drops an index (`QueueSendNew`).

*Contents.*  `HandedGapless` speaks of payloads only and is not inductive.  `ContentsInv`
strengthens it along the way of a sample:

* `BatchInv`: the rest of a batch is consecutive and ends where the next read begins (`nextRead`);
* `FillInv`: the part of the active window that is written is consecutive, and the sample
  stored next is the one that follows (`NextStored`) - which is why a discarded window must
  also drop `active`, and why a drop can only happen between windows;
* `ReadyInv`, `FlightInv`: the windows in the queue and the one being converted are whole,
  end before the samples still to come (`Frontier`), and are in order;
  the JSON written so far equals the buffer it is read from, which holds because nobody else
  may own that buffer: `OneOwner` again;
* `HandedInv`, `HandedOrder`: payloads are whole and in order.

`PoolInv /\ ContentsInv` is inductive.  It also gives the refinement: `SubmitWindow` maps to
`Complete`, `Publish` to `Deliver`, `JsonTooLarge` to `Discard`, every other step to a stutter.

*The real driver.*  The lemmas about the pool are written for any driver whose batches are
consecutive and which reports what it skips (`SampleTaskOf`), so that those about `Firmware` use
them and add what the FIFO does.  `ReadsInv` says, until bytes are lost in silence: the FIFO holds
whole samples unless it is full, they are the newest bytes while it runs (`FifoInv`), they go on
where the last read ended, unless a restart is reported or a discarded window shows that it was
(`StreamInv`), and the samples read so far are whole and consecutive (`OutInv`).  Sample sizes are
multiplied and divided by variables here, so the arithmetic is in lemmas about `Multiples`.

### The MQTT client and the device

| Theorem | Statement |
|---|---|
| `MqttTypeCorrect` | `MqttSpec => []MqttTypeOK` |
| `StateAlwaysAgrees` | `MqttSpec => []StateAgrees` |
| `NothingLostInSilence` | `MqttSpec => []NoSilentLoss` |
| `DeviceImplementsPool` | `DeviceSpec => Spec` |
| `DeviceImplementsClient` | `DeviceSpec => MqttSpec` |
| `DeviceKeeps` | `DeviceSpec => [](OneOwner /\ HandedGapless /\ StateAgrees /\ NoSilentLoss)` |
| `OnlyGaplessArrive` | `DeviceSpec => []ArrivedGapless` |

`StateInv` is `StateAgrees` without its premise: the three agree with the lock taken as well.
`NoSilentLoss` needs `IdsInv`: while no id was drawn twice, an id stands for one message in the
outbox (`DistinctIds`) and in every packet under way in either direction (`PublishesMatch`,
`AcksMatch`), so that a late PUBACK cannot delete another window.  `outbox_delete_expired` goes
through the list in a loop; a recursive function models it, and the lemma `Remaining` says by
induction on its steps what it keeps.

The device maps each of its steps to a step, or a stutter, of both halves (the call into
the client is a step of the client and a wait of the pool), so that what was proved of each
holds of the whole.  `OnlyGaplessArrive` joins them: what the broker has is among what was handed
over, and that is gapless.

### The sessions

| Theorem | Statement |
|---|---|
| `SessionInductiveInvariant` | `SessionSpec => []SessionInv` |
| `PassedOnOnce` | `SessionSpec => []NeverTwice` |
| `NoneLost` | `SessionSpec => []AtLeastOnce` |
| `EventsAreTrue` | `SessionSpec => []EventsTrue` |
| `OrderIsKept` | `SessionSpec => []KeptOrder` |

None of the four properties is inductive: each speaks of the broker's side and of what the client
knows of it, and between the two are packets that may be lost, come late or come twice.
`SessionInv` says what these may be:

* `IdsInv`: an item, a packet in either direction and what the broker keeps belong to a call, of
  the kind and QoS they say; the outbox is in the order of the calls, one item for each
  (`Ordered`), so that a search finds the item meant.  Nothing is there of a call to come.
* `AnswersTrue`: a PUBACK or PUBCOMP comes of a message that was passed on, a PUBREC, and an item
  or PUBREL that follows from one, of a message that the broker holds or has passed on (`Held`) -
  except that a clean session may have been forgotten.  Hence an answer may be believed however
  late it comes (`NoneLost`, `EventsAreTrue`).
* `EventsInv`: what is in the outbox has not been announced, so that a second answer, which finds
  no item, tells nothing.
* `GivenFirst`: the same of the other direction: nothing is acknowledged that the application does
  not have.
* `ReleasedLast`, the heart of exactly once: while an item may be sent again, no PUBREL of it
  exists and the broker has not passed it on; on the way to the broker no PUBLISH comes behind a
  PUBREL of the same message; and what was passed on is neither stored nor on its way any more.
  It holds because the same task handles the PUBREC and sends again, and a connection keeps the
  order; a PUBLISH written before a break is lost with it.

`OrderInv` carries `OrderIsKept`.  `ItemsInOrder`: everything that was written, and is not
overtaken, was called before anything still queued.  `QueueInOrder`: where a message is on its way
for the first time, all that comes before it, or has arrived, was called before it; a message sent
again is behind its first copy and changes nothing. `Unfinished` is a recursive function over the
messages for the application.

### The client handle

| Theorem | Statement |
|---|---|
| `StoppedHasEnded` | `LifecycleSpec => []StoppedMeansEnded` |
| `PortIsAsAsked` | `LifecycleSpec => []PortAsAsked` |
| `NoUninvitedAttempt` | `LifecycleSpec => WaitsForInvitation` |

`OneTaskAtMost`: without misuse the last task started is the only one, and STOPPED_BIT is set only
when it has ended, or has yet to clear the bit that an earlier one left - which is why a stop in
between returns too early, and counts as misuse.  `LockHeld`: the lock covers an attempt to
connect, so that no configuration changes under it.  `PortKept`: a configuration that names no
port keeps what was there (`ConfigSet`), and what is there is the port asked for or the default of
an unchanged scheme.  `BitsInvite`: RECONNECT_BIT does not outlive the attempt that answers it.
`NoUninvitedAttempt` is an action property, the safety half of `ConnectsWhenInvited`.

### Wi-Fi

| Theorem | Statement |
|---|---|
| `WifiTypeCorrect` | `Spec => []WifiTypeOK` |
| `OneRecoveryAlways` | `Spec => []ExactlyOneRecovery` |
| `BitIsCurrent` | `Spec => []BitFollowsLink` |
| `DelayAsDocumented` | `Spec => []DelayDoubles` |

One invariant, `IInv`, carries them.  `ExactlyOneRecovery` (`OneRecovery` and `NeverStranded`)
says that what keeps the station going (a START or DISCONNECTED event, the timer, its callback, an
attempt or a link) exists exactly once; each action takes it from one form to the next, and
`WakersAppend` and `WakersTail` say what posting and handling an event do to it.  They need to
know how the queue can look: `BootInv` (nothing before `esp_wifi_start`), `StartInv` (START is
alone in it), `CountInv` (`offline` stays below the bound).  `BitFollowsLink` speaks of an empty
queue and is not inductive; `LinkInv` says of a queue with events that the *last* one agrees with
the link, and the bit follows when it is handled.  The assumption is `WifiAssumption`, the range
in Kconfig.

`DelayInv` carries `DelayAsDocumented`: `backoff` is the first delay doubled as often as the link
was lost since the last address, and not beyond the maximum.  The power of two is a recursive
function, `Doubled`, of which only the step from `n` to `n + 1` is used.

### The byte stream

| Theorem | Statement |
|---|---|
| `PlaceInStream` | `QuietAcks`: `MqttWireSpec => []WireInv` |
| `MessageInBuffer` | `QuietAcks`: `MqttWireSpec => []OneMessage` |
| `PacketsHandledAsSent` | `QuietAcks`, `HeadersFit`: `MqttWireSpec => []PacketsAsSent` |
| `PayloadInPieces` | `QuietAcks`, `HeadersFit`: `MqttWireSpec => []PiecesOfPayload` |
| `RequestsReadable` | `MqttWireSpec => []RequestReadable` |

They hold for every size of the buffers, every session of a broker and every way the reads cut it.
The bound `AtMost` on what a read returns plays no part in the proofs but that it is between one
byte and what was asked for.

*What is sent.*  `Formed` says of the bytes of each packet where its header ends, what its first
byte announces, and where topic, id and payload are; it follows from the encoders of `MqttMsg` by
the lemmas of `MqttCodec_proofs`. `Placed` puts each packet at its place in the stream, which is
their concatenation.

*What is read.*  `WireInv` says how far the client is: with an empty `in_buffer`, at the first
byte of the packet after those it handled; else `held` bytes into that packet, and at each `pc` no
further than what is missing there (`Reading`: in the length, in the length of the topic, in the
rest); and while a PUBLISH is passed on, the DATA event is the piece of the payload that ends
where the transport has been read to (`Delivering`, `Told`).  No property of the runs is inductive
without it, and it needs no assumption about how often a read times out.

*The hypotheses* except two errors of `mqtt_message_receive`.  `QuietAcks`: no PUBACK, PUBREC,
PUBREL or PUBCOMP has an id of two bytes of 128 or more.  `HeadersFit`: of no PUBLISH with a
message id that is larger than `in_buffer` does `in_buffer` end just before or within that id.
The session of `MqttWire_ack.cfg` breaks the first, that of `MqttWire_id.cfg` the second; those of
the run `mqtt_wire` keep both.

*What is written.*  `RequestReadable` speaks of the encoders alone.  Each of them gives a `Frame`,
or nothing (`Emitted`), and a `Frame` is as long as the length it begins with.  For a CONNECT,
`Carrying` follows the strings as they are appended, and `FlagBits` reads the flags they were
appended by; nothing is assumed of their lengths but that the output buffer is below 65536 bytes
(`MqttMsgAssumption`).

### MQTT 5

| Theorem | Statement |
|---|---|
| `CountIsTrue` | `Mqtt5Spec => []CountTrue` |
| `BrokerIsRespected` | `Mqtt5Spec => []BrokerRespected` |
| `EventsMeant` | `FewUserProperties`: `Mqtt5Spec => []EventsAsMeant` |
| `PacketsReadBack` | `Mqtt5Spec => []ReadBack` |

`CountInv`: what the broker has not acknowledged are numbers of calls; the outbox has one item for
a number at most, and an item still queued is none of them (`Box`), so that sending it adds one on
both sides and an answer takes one away. `BrokerInv`: of each limit in `server`, the value is the
one the CONNACK of this connection announced, if it did (`Believed`) - also when it repeats a
property, or lists them in an unusual order.  Of aliases that is not enough, as they are checked
earlier than they are used: `AliasesFit` follows the alias that the next message will carry, for
the first broker, and for one that named a maximum (`NamedNumber`: the default plays no part then)
before the alias was set.  `EventsInv`: the aliases that the client has noted
and those the broker has given agree, if connected (`Agreed`), so that a PUBLISH without a topic
gets the one that was meant.  `ReadInv` says of the packet written last that its readers find what
was asked for, encoder by encoder.

The lemmas about bytes are in `MqttCodec_proofs`.  `Carries` is the heart of them: of bytes that,
wherever they are in a buffer, are read as certain fields; it holds of each kind of property and
is kept by appending (`CarriesConcat`), so that lists of any length read back.  `remaining_length`
and the readers are recursive functions; they are unfolded step by step in inductions over sets of
numbers (`NatSetInduction`, `NatSetStrong`).

`FewUserProperties`: no message comes with 256 user properties or more, because
`esp_mqtt5_client_get_user_property_count` returns their number as a `uint8_t` (`mqtt5_client.c:744`).

### The backend

| Theorem | Statement |
|---|---|
| `WindowsNotLost` | `Spec => []NothingLost` of `Ingest` |
| `RowsInOrder` | `Spec => []FirstRowsInOrder` |
| `RowsPerDelivery` | `Spec => []OncePerDelivery` |
| `ResultsOnceInOrder` | `Spec => []OneResultEach` of `Classifier` |
| `LabellingsNeverMixed` | `Spec => []OneLabelling` |
| `NoVerdictOnTheFit` | `Spec => []EvaluationHeldOut` |

*Ingestion.*  `IdsInOrder`: on a connection the ids are, one after the other, those acknowledged,
the one `on_message` works on, those on their way and those not sent yet.  With it `DoneInOrder`
is inductive - everything up to the last acknowledged id is stored or logged - and so is
`RowsHaveOrigin`: a row came from an id before which all others had been dealt with. `RowsCounted`
bounds the rows of a window by the ids of its copies that were handled, connection by connection.

*Analysis and classifier.*  `AnalysisInv`: results are those of the first windows, and a run's
list continues them, so that a run that dies leaves a prefix.  `WornComeLast`: a worn label is
there only if all healthy ones of the same run are, which is why a classifier that finds both has
seen a whole labelling.  `SnapshotInv`, `LeftInv` and `VerdictsInv` follow the classifier's one
SELECT to its verdicts.  `SELECT ... ORDER BY` is the sequence of a set in ascending order
(`Ascending`), defined by what it is; that there is one is proved by induction on the set
(`Enumerable`).

### What is only model-checked

* Liveness under fairness, and `ENABLED`: beyond the prover.
  `ConnectsWhenInvited` is liveness but for its safety half.
* `WindowsConsecutive` is false (`window_with_gap`), as are `OneMessage` without `QuietAcks` and
  `PiecesOfPayload` without `HeadersFit`.

## 5. What is not modelled

* Values: accelerations, JSON text, spectra.  Samples are offsets, windows are numbers, ids are
  model values or numbers of calls; packets are bytes in `MqttWire` and `Mqtt5` only.  The size of
  a window's JSON is a free choice (`JsonTooLarge`), the outbox limit counts windows.  In the code
  the limit is `JSON_BUFFER_SIZE * 8` bytes while a window's text is usually far below
  `JSON_BUFFER_SIZE`, so that more than eight windows fit.
* Real time: the 20 ms period, the 85 samples of the FIFO, the 10 s reconnect delay.
* In the MQTT client: TLS and the platform layer, which only pass options on; credentials,
  WebSocket paths and other settings that are copied; the custom event loop and
  `MQTT_EVENT_DELETED`, which are not configured; `mqtt_header_complete`, which nothing calls;
  freeing of MQTT 5 property lists; running out of memory other than in a publish.  That MQTT 5
  lists are not shared after they were freed is a matter of pointers the models do not have.
* `esp_mqtt_client_enqueue` of QoS 0 without `store`: it makes a message that nothing sends, and of
  one over the output buffer leaves `fragmented_msg_total_length` set (`mqtt_client.c:2140`), which
  `fini_message` uses for the length of the next packet.  Every call that is modelled clears it, so
  that the models' `fini_message` takes the bytes to follow from its own message.
* `mpu6500_init`, the interrupt line (its handler notifies a task that no longer waits for it,
  `app_main.c:243-254`), NVS and GPIO set-up: straight-line code that aborts on failure.
* The FFT, amplitudes, the threshold and the report: floating-point data.  Two analyses at once,
  which `storage.py:3` rules out, and a limit on Mosquitto's queue other than the number of
  messages.
* `window_gen.py`, beyond the row it stores; `generate_figures.py` and the notebook: numeric or
  read-only.

## 6. Plan

Done: the modules above, among them most of `mqtt_client.c`, `mqtt_msg.c` and the core of MQTT 5,
and a proof of every safety invariant the runs check.  What is left:

1. A composition of the pipeline: device, broker and ingestion composed against an abstract
   at-least-once channel.
2. The packet that the broker sends after a PUBLISH was given up (`cut`), which the byte stream
   does not follow.
