---------------------------- MODULE WindowPool ----------------------------
(***************************************************************************)
(* main/app_main.c: the double buffer between sample_task and publish_task *)
(*                                                                         *)
(* sample_task drains the sensor's FIFO and fills window buffers;          *)
(* publish_task converts full windows to JSON and hands them to the MQTT   *)
(* client.  The two tasks run concurrently and share the window_pool array *)
(* with no lock: a buffer's index travels through free_buffer_queue and    *)
(* ready_buffer_queue, and only the task that holds the index may touch    *)
(* the buffer.                                                             *)
(*                                                                         *)
(* This module takes what the driver returns from a FIFO that keeps every  *)
(* sample in order (app_main.c:244); Firmware replaces that by the driver  *)
(* and the sensor themselves.                                              *)
(***************************************************************************)
EXTENDS SampleStream

CONSTANTS
    WINDOW_QUEUE_DEPTH,     \* buffers in the pool and slots in each queue, 2
    WINDOW_SIZE,            \* samples per window, CONFIG_SAMPLE_WINDOW_SIZE
    FIFO_DRAIN_BATCH,       \* samples per driver call, 16
    MaxSample               \* bound: no sample at or past this offset is read

ASSUME WindowPoolAssumption ==
    /\ WINDOW_QUEUE_DEPTH \in Nat \ {0}
    /\ WINDOW_SIZE \in Nat \ {0}
    /\ FIFO_DRAIN_BATCH \in Nat \ {0}
    /\ MaxSample \in Nat

Buffers == 0 .. WINDOW_QUEUE_DEPTH - 1
Slots   == 0 .. WINDOW_SIZE - 1
NoBuffer == WINDOW_QUEUE_DEPTH     \* active_window_index = -1

VARIABLES
    free,       \* free_buffer_queue
    ready,      \* ready_buffer_queue
    window,     \* window_pool: the samples in each buffer
    stPc,       \* where sample_task is: "delay", "drain" or "store"
    batch,      \* the samples of its batch it has not stored yet
    active,     \* active_window_index
    next,       \* next_sample_index
    pubPc,      \* where publish_task is: "receive", "convert", "publish", "release"
    pubIndex,   \* ready_window_index
    json,       \* window_json_buf: the samples written to it so far
    handed,     \* history: the payloads given to esp_mqtt_client_publish
    nextRead,   \* the sample that follows those the driver returned
    dropped     \* history: the firmware dropped samples, and logged it

queueVars == <<free, ready>>
sampleVars == <<stPc, batch, active, next, nextRead>>
publishVars == <<pubPc, pubIndex, json, handed>>
poolVars == <<free, ready, window, stPc, batch, active, next, pubPc,
              pubIndex, json, handed, nextRead, dropped>>

Window == [Slots -> Sample]

TypeOK ==
    /\ free \in Seq(Buffers) /\ ready \in Seq(Buffers)
    /\ window \in [Buffers -> Window]
    /\ stPc \in {"delay", "drain", "store"}
    /\ batch \in Seq(Sample)
    /\ active \in Buffers \cup {NoBuffer}
    /\ next \in 0 .. WINDOW_SIZE
    /\ pubPc \in {"receive", "convert", "publish", "release"}
    /\ pubIndex \in Buffers
    /\ json \in Seq(Sample) /\ Len(json) <= WINDOW_SIZE
    /\ handed \in Seq(Seq(Sample))
    /\ nextRead \in Sample
    /\ dropped \in BOOLEAN

----------------------------------------------------------------------------
\* xQueueSend with a timeout of 0: a full queue drops the item, and no caller
\* looks at the result.
QueueSend(q, item) ==
    IF Len(q) < WINDOW_QUEUE_DEPTH THEN Append(q, item) ELSE q

\* app_main creates the queues and puts every buffer in the free one before it
\* creates the tasks.
PoolInit ==
    /\ free = [i \in 1 .. WINDOW_QUEUE_DEPTH |-> i - 1]
    /\ ready = <<>>
    /\ window = [b \in Buffers |-> [k \in Slots |-> 0]]
    /\ stPc = "delay" /\ batch = <<>>
    /\ active = NoBuffer /\ next = 0
    /\ pubPc = "receive" /\ pubIndex = 0 /\ json = <<>> /\ handed = <<>>
    /\ nextRead = 0 /\ dropped = FALSE

----------------------------------------------------------------------------
(* sample_task *)

\* xTaskDelayUntil returns: start to drain the FIFO.
Wake ==
    /\ stPc = "delay"
    /\ stPc' = "drain"
    /\ UNCHANGED <<queueVars, window, batch, active, next, nextRead, dropped, publishVars>>

\* mpu6500_read_fifo_samples returned ESP_OK and the given samples.
ReadOk(samples) ==
    /\ stPc = "drain"
    /\ stPc' = IF samples = <<>> THEN "delay" ELSE "store"
    /\ batch' = samples
    /\ nextRead' = IF samples = <<>> THEN nextRead ELSE samples[Len(samples)] + SampleBytes
    /\ UNCHANGED <<queueVars, window, active, next, dropped, publishVars>>

\* Mutant of ReadOverflow: active_window_index is not reset.
ReadOverflowKeepsIndex ==
    /\ stPc = "drain"
    /\ stPc' = "delay"
    /\ free' = IF active # NoBuffer THEN QueueSend(free, active) ELSE free
    /\ dropped' = TRUE
    /\ UNCHANGED <<ready, window, batch, active, next, publishVars>>

\* Mutant of ReadOverflow: the partial window is kept.
ReadOverflowKeepsWindow ==
    /\ stPc = "drain"
    /\ stPc' = "delay"
    /\ dropped' = TRUE
    /\ UNCHANGED <<queueVars, window, batch, active, next, publishVars>>

\* It returned MPU6500_ERR_FIFO_OVERFLOW: the partial window is discarded.
ReadOverflow ==
    /\ stPc = "drain"
    /\ stPc' = "delay"
    /\ free' = IF active # NoBuffer THEN QueueSend(free, active) ELSE free
    /\ active' = NoBuffer
    /\ dropped' = TRUE
    /\ UNCHANGED <<ready, window, batch, next, publishVars>>

\* It returned another error: the partial window is kept.
ReadError ==
    /\ stPc = "drain"
    /\ stPc' = "delay"
    /\ UNCHANGED <<queueVars, window, batch, active, next, nextRead, dropped, publishVars>>

\* The window just written to is full: queue it before the next sample.
WindowFull == active # NoBuffer /\ next >= WINDOW_SIZE

\* A new window starts, with a buffer from the free queue.
TakeBuffer ==
    /\ stPc = "store" /\ batch # <<>> /\ active = NoBuffer
    /\ free # <<>>
    /\ active' = Head(free)
    /\ free' = Tail(free)
    /\ next' = 0
    /\ UNCHANGED <<ready, window, stPc, batch, nextRead, dropped, publishVars>>

\* No free buffer: publish_task fell behind, the sample is dropped.
DropSample ==
    /\ stPc = "store" /\ batch # <<>> /\ active = NoBuffer
    /\ free = <<>>
    /\ batch' = Tail(batch)
    /\ dropped' = TRUE
    /\ UNCHANGED <<queueVars, window, stPc, active, next, nextRead, publishVars>>

StoreSample ==
    /\ stPc = "store" /\ batch # <<>> /\ active # NoBuffer /\ ~WindowFull
    /\ window' = [window EXCEPT ![active][next] = Head(batch)]
    /\ next' = next + 1
    /\ batch' = Tail(batch)
    /\ UNCHANGED <<queueVars, stPc, active, nextRead, dropped, publishVars>>

\* Mutant of SubmitWindow: the rest of the batch is left behind.
SubmitDropsBatch ==
    /\ stPc = "store" /\ WindowFull
    /\ ready' = QueueSend(ready, active)
    /\ active' = NoBuffer
    /\ batch' = <<>>
    /\ UNCHANGED <<free, window, stPc, next, nextRead, dropped, publishVars>>

\* Mutant of SubmitWindow: the window goes to the front of the queue.
SubmitToFront ==
    /\ stPc = "store" /\ WindowFull
    /\ ready' = <<active>> \o ready
    /\ active' = NoBuffer
    /\ UNCHANGED <<free, window, stPc, batch, next, nextRead, dropped, publishVars>>

SubmitWindow ==
    /\ stPc = "store" /\ WindowFull
    /\ ready' = QueueSend(ready, active)
    /\ active' = NoBuffer
    /\ UNCHANGED <<free, window, stPc, batch, next, nextRead, dropped, publishVars>>

\* The batch is stored: call the driver again.
BatchDone ==
    /\ stPc = "store" /\ batch = <<>> /\ ~WindowFull
    /\ stPc' = "drain"
    /\ UNCHANGED <<queueVars, window, batch, active, next, nextRead, dropped, publishVars>>

Store == TakeBuffer \/ DropSample \/ StoreSample \/ SubmitWindow \/ BatchDone

----------------------------------------------------------------------------
(* publish_task *)

ReceiveReady ==
    /\ pubPc = "receive" /\ ready # <<>>
    /\ pubIndex' = Head(ready)
    /\ ready' = Tail(ready)
    /\ json' = <<>>
    /\ pubPc' = "convert"
    /\ UNCHANGED <<free, window, sampleVars, handed, dropped>>

\* build_window_json formats the next sample, straight from the shared buffer.
ConvertSample ==
    /\ pubPc = "convert" /\ Len(json) < WINDOW_SIZE
    /\ json' = Append(json, window[pubIndex][Len(json)])
    /\ UNCHANGED <<queueVars, window, sampleVars, pubPc, pubIndex, handed, dropped>>

Converted ==
    /\ pubPc = "convert" /\ Len(json) = WINDOW_SIZE
    /\ pubPc' = "publish"
    /\ UNCHANGED <<queueVars, window, sampleVars, pubIndex, json, handed, dropped>>

\* The text does not fit window_json_buf: drop the window.
JsonTooLarge ==
    /\ pubPc = "convert"
    /\ free' = QueueSend(free, pubIndex)
    /\ pubPc' = "receive"
    /\ dropped' = TRUE
    /\ UNCHANGED <<ready, window, sampleVars, pubIndex, json, handed>>

\* esp_mqtt_client_publish is given the payload; its result is only logged.
Publish ==
    /\ pubPc = "publish"
    /\ handed' = Append(handed, json)
    /\ pubPc' = "release"
    /\ UNCHANGED <<queueVars, window, sampleVars, pubIndex, json, dropped>>

Release ==
    /\ pubPc = "release"
    /\ free' = QueueSend(free, pubIndex)
    /\ pubPc' = "receive"
    /\ UNCHANGED <<ready, window, sampleVars, pubIndex, json, handed, dropped>>

PublishTask ==
    ReceiveReady \/ ConvertSample \/ Converted \/ JsonTooLarge \/ Publish \/ Release

----------------------------------------------------------------------------
(* A driver that loses samples only when it reports an overflow. *)

\* The next n samples.
NextSamples(n) == [i \in 1 .. n |-> nextRead + (i - 1) * SampleBytes]

DrainOk ==
    \E n \in 0 .. FIFO_DRAIN_BATCH :
        /\ nextRead + n * SampleBytes <= MaxSample
        /\ ReadOk(NextSamples(n))

DrainOverflow ==
    \E lost \in 1 .. FIFO_DRAIN_BATCH :
        /\ nextRead + lost * SampleBytes <= MaxSample
        /\ ReadOverflow
        /\ nextRead' = nextRead + lost * SampleBytes

SampleTask == Wake \/ DrainOk \/ DrainOverflow \/ ReadError \/ Store

Next == SampleTask \/ PublishTask

Spec == PoolInit /\ [][Next]_poolVars

(***************************************************************************)
(* FreeRTOS keeps scheduling both tasks: sample_task, of the higher        *)
(* priority, sleeps between drains, and publish_task only blocks on its    *)
(* queue and on esp_mqtt_client_publish, which returns (its lock waits and *)
(* network operations time out).                                           *)
(***************************************************************************)
Fairness == WF_poolVars(Wake \/ Store) /\ WF_poolVars(PublishTask)

FairSpec == Spec /\ Fairness

----------------------------------------------------------------------------
(* Properties *)

Elements(q) == {q[i] : i \in DOMAIN q}

NoDuplicates(q) == \A i, j \in DOMAIN q : q[i] = q[j] => i = j

\* The buffer publish_task took from the ready queue and has not given back.
Publishing == IF pubPc = "receive" THEN {} ELSE {pubIndex}

Filling == {active} \ {NoBuffer}

(***************************************************************************)
(* Every buffer has exactly one owner: it is in the free queue, being      *)
(* filled, in the ready queue or being published, once, and never lost.    *)
(* This is what makes the lock-free hand-over of app_main.c's pool sound,  *)
(* and why the zero-timeout xQueueSend calls never find a queue full.      *)
(***************************************************************************)
OneOwner ==
    /\ NoDuplicates(free) /\ NoDuplicates(ready)
    /\ Elements(free) \cap Elements(ready) = {}
    /\ Filling \cap (Elements(free) \cup Elements(ready)) = {}
    /\ Publishing \cap (Elements(free) \cup Elements(ready)) = {}
    /\ Filling \cap Publishing = {}
    /\ Buffers = Elements(free) \cup Elements(ready) \cup Filling \cup Publishing

\* The payload p holds WINDOW_SIZE samples the sensor took one after another.
Gapless(p) ==
    /\ Len(p) = WINDOW_SIZE
    /\ \A i \in 1 .. WINDOW_SIZE - 1 : Follows(p[i], p[i + 1])

(***************************************************************************)
(* Every payload handed to the MQTT client is a gapless window, and the    *)
(* windows follow one another in time without sharing a sample: dropped    *)
(* samples, discarded partial windows and a buffer reused while its old    *)
(* contents are still there never show in a payload (README: "any single   *)
(* window is a consecutive set of samples").                               *)
(***************************************************************************)
HandedGapless ==
    /\ \A k \in DOMAIN handed : Gapless(handed[k])
    /\ \A k \in 1 .. Len(handed) - 1 :
           handed[k][WINDOW_SIZE] < handed[k + 1][1]

(***************************************************************************)
(* No sample goes missing in silence: unless the firmware logged a drop    *)
(* (an overflow, no free buffer, a JSON too large), each window starts     *)
(* with the sample that follows the window handed before it.               *)
(***************************************************************************)
DropsAreLogged ==
    ~dropped => \A k \in 1 .. Len(handed) - 1 :
                   Follows(handed[k][WINDOW_SIZE], handed[k + 1][1])

----------------------------------------------------------------------------
(* The pool as a queue of whole windows *)

Contents(b) == [i \in 1 .. WINDOW_SIZE |-> window[b][i - 1]]

\* The windows that are complete and not yet handed over, oldest first.
Pending ==
    (IF pubPc \in {"convert", "publish"} THEN <<Contents(pubIndex)>> ELSE <<>>)
        \o [i \in 1 .. Len(ready) |-> Contents(ready[i])]

Stream == INSTANCE WindowStream WITH
    Depth <- WINDOW_QUEUE_DEPTH,
    Size <- WINDOW_SIZE,
    Windows <- [1 .. WINDOW_SIZE -> 0 .. MaxSample],
    pending <- Pending,
    delivered <- handed

(***************************************************************************)
(* The two tasks, with their shared buffers copied sample by sample,       *)
(* behave as an atomic queue of whole windows.                             *)
(***************************************************************************)
ImplementsStream == Stream!Spec
=============================================================================
