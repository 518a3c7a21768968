-------------------------- MODULE Pipeline_proofs --------------------------
(***************************************************************************)
(* Proofs about the way of a sample to the broker: WindowPool, for every   *)
(* depth of the queues, window size, batch size and sample size; MqttClient*)
(* and Device, where publish_task is its caller, for every outbox, buffer, *)
(* timer and set of message ids; and Firmware, what sample_task makes of   *)
(* the sensor's bytes, for every size of the FIFO and of its chunks.       *)
(***************************************************************************)
EXTENDS Device, Firmware, SequenceTheorems, FiniteSetTheorems, WellFoundedInduction, TLAPS

USE SampleBytesAssumption, WindowPoolAssumption

----------------------------------------------------------------------------
(* Queues without duplicates *)

\* Taking the head of a queue removes exactly that element.
LEMMA HeadTail ==
    ASSUME NEW S, NEW q \in Seq(S), q # <<>>
    PROVE  /\ Head(q) \in S /\ Tail(q) \in Seq(S)
           /\ Head(q) \in Elements(q)
           /\ NoDuplicates(q) =>
                /\ NoDuplicates(Tail(q))
                /\ Elements(Tail(q)) = Elements(q) \ {Head(q)}
<1>1. /\ Head(q) \in S /\ Tail(q) \in Seq(S)
      /\ Len(Tail(q)) = Len(q) - 1
      /\ \A i \in 1 .. Len(Tail(q)) : Tail(q)[i] = q[i + 1]
  BY HeadTailProperties
<1>2. Len(q) \in Nat \ {0} /\ DOMAIN q = 1 .. Len(q)
  BY EmptySeq, LenProperties
<1>3. DOMAIN Tail(q) = 1 .. Len(q) - 1
  BY <1>1, <1>2, LenProperties
<1>4. Head(q) = q[1]
  BY <1>2
<1>5. ASSUME NoDuplicates(q)
      PROVE  NoDuplicates(Tail(q))
  BY <1>1, <1>2, <1>3, <1>5 DEF NoDuplicates
<1>6. ASSUME NoDuplicates(q)
      PROVE  Elements(Tail(q)) = Elements(q) \ {Head(q)}
  <2>1. \A i \in DOMAIN Tail(q) : Tail(q)[i] \in Elements(q) \ {Head(q)}
    BY <1>1, <1>2, <1>3, <1>4, <1>6 DEF NoDuplicates, Elements
  <2>2. ASSUME NEW i \in DOMAIN q, q[i] # Head(q)
        PROVE  q[i] \in Elements(Tail(q))
    <3>1. i - 1 \in DOMAIN Tail(q) /\ Tail(q)[i - 1] = q[i]
      BY <1>1, <1>2, <1>3, <1>4, <2>2
    <3>2. QED BY <3>1 DEF Elements
  <2>3. QED BY <2>1, <2>2 DEF Elements
<1>7. Head(q) \in Elements(q)
  BY <1>2, <1>4 DEF Elements
<1>8. QED BY <1>1, <1>5, <1>6, <1>7

\* Adding a new element to a queue adds exactly that element.
LEMMA AppendNew ==
    ASSUME NEW S, NEW q \in Seq(S), NEW x \in S, NoDuplicates(q), x \notin Elements(q)
    PROVE  /\ Append(q, x) \in Seq(S)
           /\ NoDuplicates(Append(q, x))
           /\ Elements(Append(q, x)) = Elements(q) \cup {x}
<1> DEFINE r == Append(q, x)
<1>1. /\ r \in Seq(S) /\ Len(r) = Len(q) + 1
      /\ \A i \in 1 .. Len(q) : r[i] = q[i]
      /\ r[Len(q) + 1] = x
  BY AppendProperties
<1>2. /\ Len(q) \in Nat /\ DOMAIN q = 1 .. Len(q)
      /\ DOMAIN r = 1 .. Len(q) + 1
  BY <1>1, LenProperties
<1> HIDE DEF r
<1>3. NoDuplicates(r)
  BY <1>1, <1>2 DEF NoDuplicates, Elements
<1>4. Elements(r) = Elements(q) \cup {x}
  <2>1. \A i \in DOMAIN r : r[i] \in Elements(q) \cup {x}
    BY <1>1, <1>2 DEF Elements
  <2>2. \A i \in DOMAIN q : q[i] \in Elements(r)
    BY <1>1, <1>2 DEF Elements
  <2>3. x \in Elements(r)
    BY <1>1, <1>2 DEF Elements
  <2>4. QED BY <2>1, <2>2, <2>3 DEF Elements
<1>5. QED BY <1>1, <1>3, <1>4 DEF r

\* A queue of distinct buffers is no longer than the pool is large.
LEMMA PoolBound ==
    ASSUME NEW q \in Seq(Buffers), NoDuplicates(q)
    PROVE  Len(q) <= WINDOW_QUEUE_DEPTH
<1>1. Len(q) \in Nat /\ q \in [1 .. Len(q) -> Buffers] /\ DOMAIN q = 1 .. Len(q)
  BY LenProperties
<1>2. IsFiniteSet(Buffers) /\ Cardinality(Buffers) = WINDOW_QUEUE_DEPTH
  BY FS_Interval DEF Buffers
<1>3. IsFiniteSet(1 .. Len(q)) /\ Cardinality(1 .. Len(q)) = Len(q)
  BY <1>1, FS_Interval
<1>4. q \in Injection(1 .. Len(q), Buffers)
  BY <1>1 DEF NoDuplicates, Injection, IsInjective
<1>5. QED BY <1>2, <1>3, <1>4, FS_Injection

\* Sending a buffer that is not in a queue to it always finds room.
LEMMA QueueSendNew ==
    ASSUME NEW q \in Seq(Buffers), NEW b \in Buffers, NoDuplicates(q), b \notin Elements(q)
    PROVE  /\ QueueSend(q, b) = Append(q, b)
           /\ QueueSend(q, b) \in Seq(Buffers)
           /\ NoDuplicates(QueueSend(q, b))
           /\ Elements(QueueSend(q, b)) = Elements(q) \cup {b}
<1>1. /\ Append(q, b) \in Seq(Buffers) /\ NoDuplicates(Append(q, b))
      /\ Elements(Append(q, b)) = Elements(q) \cup {b}
  BY AppendNew
<1>2. Len(Append(q, b)) <= WINDOW_QUEUE_DEPTH
  BY <1>1, PoolBound
<1>3. Len(Append(q, b)) = Len(q) + 1 /\ Len(q) \in Nat
  BY AppendProperties, LenProperties
<1>4. QueueSend(q, b) = Append(q, b)
  BY <1>2, <1>3 DEF QueueSend
<1>5. QED BY <1>1, <1>4

\* Whatever is sent, a queue of buffers stays one.
LEMMA QueueSendType ==
    ASSUME NEW q \in Seq(Buffers), NEW b \in Buffers
    PROVE  QueueSend(q, b) \in Seq(Buffers)
BY AppendProperties DEF QueueSend

----------------------------------------------------------------------------
(* Type correctness *)

LEMMA InitType == PoolInit => TypeOK
<1> SUFFICES ASSUME PoolInit PROVE TypeOK
  OBVIOUS
<1>1. free \in Seq(Buffers)
  BY DEF PoolInit, Buffers
<1>2. window \in [Buffers -> Window]
  BY DEF PoolInit, Window, Sample
<1>3. ready \in Seq(Buffers) /\ batch \in Seq(Sample) /\ handed \in Seq(Seq(Sample))
  BY DEF PoolInit
<1>4. json \in Seq(Sample) /\ Len(json) <= WINDOW_SIZE
  BY DEF PoolInit
<1>5. pubIndex \in Buffers /\ next \in 0 .. WINDOW_SIZE /\ nextRead \in Sample
  BY DEF PoolInit, Buffers, Sample
<1>6. /\ stPc \in {"delay", "drain", "store"} /\ active \in Buffers \cup {NoBuffer}
      /\ pubPc \in {"receive", "convert", "publish", "release"} /\ dropped \in BOOLEAN
  BY DEF PoolInit
<1>7. QED BY <1>1, <1>2, <1>3, <1>4, <1>5, <1>6, Zenon DEF TypeOK

\* Going forward in the stream leads to a sample.
LEMMA LaterSample ==
    ASSUME NEW s \in Sample, NEW n \in Nat
    PROVE  s + n * SampleBytes \in Sample
<1>1. n * SampleBytes \in Nat
  OBVIOUS
<1>2. QED BY <1>1 DEF Sample

\* One more step in the stream.
LEMMA NextStep ==
    ASSUME NEW i \in Nat
    PROVE  i * SampleBytes \in Nat /\ (i + 1) * SampleBytes = i * SampleBytes + SampleBytes
OBVIOUS

\* What the proofs need of a drain: samples in a row that go on where the last read ended, or
\* later if that shows in dropped and no window is being filled.  The driver of Firmware gives
\* as much.
DrainSome ==
    \E samples \in Seq(Sample) :
        /\ \A i \in 1 .. Len(samples) - 1 : Follows(samples[i], samples[i + 1])
        /\ samples # <<>> => /\ nextRead <= samples[1]
                             /\ samples[1] = nextRead \/ (active = NoBuffer /\ dropped)
        /\ ReadOk(samples)

DrainLost == ReadOverflow /\ nextRead' \in Sample /\ nextRead <= nextRead'

SampleTaskOf == Wake \/ DrainSome \/ DrainLost \/ ReadError \/ Store

\* With whatever samples of S the driver returns.
SampleTaskAny(S) ==
    \/ Wake \/ ReadError \/ Store
    \/ \E samples \in Seq(S) : ReadOk(samples)
    \/ ReadOverflow /\ nextRead' \in Sample

LEMMA SampleTaskOfAny == SampleTaskOf => SampleTaskAny(Sample)
BY DEF SampleTaskOf, SampleTaskAny, DrainSome, DrainLost

LEMMA DrainOkGives ==
    ASSUME nextRead \in Sample, DrainOk PROVE DrainSome
<1> PICK n \in 0 .. FIFO_DRAIN_BATCH : ReadOk(NextSamples(n))
  BY DEF DrainOk
<1> DEFINE samples == NextSamples(n)
<1>1. \A i \in 1 .. n : samples[i] = nextRead + (i - 1) * SampleBytes /\ samples[i] \in Sample
  <2>1. ASSUME NEW i \in 1 .. n PROVE nextRead + (i - 1) * SampleBytes \in Sample
    <3>1. i - 1 \in Nat
      OBVIOUS
    <3>2. QED BY <3>1, LaterSample
  <2>2. QED BY <2>1 DEF NextSamples
<1>2. samples \in Seq(Sample) /\ Len(samples) = n /\ n \in Nat
  BY <1>1 DEF NextSamples
<1>3. ASSUME NEW i \in 1 .. n - 1 PROVE Follows(samples[i], samples[i + 1])
  <2>1. i \in 1 .. n /\ i + 1 \in 1 .. n /\ i - 1 \in Nat /\ (i - 1) + 1 = i /\ (i + 1) - 1 = i
    BY <1>2
  <2>2. i * SampleBytes = (i - 1) * SampleBytes + SampleBytes /\ (i - 1) * SampleBytes \in Nat
    BY <2>1, NextStep
  <2>3. samples[i] = nextRead + (i - 1) * SampleBytes /\ samples[i + 1] = nextRead + i * SampleBytes
    BY <1>1, <2>1
  <2>4. PICK a \in Nat, b \in Nat : a = (i - 1) * SampleBytes /\ b = i * SampleBytes
    BY <2>1, <2>2, NextStep
  <2>5. samples[i] = nextRead + a /\ samples[i + 1] = nextRead + b /\ b = a + SampleBytes
    BY <2>2, <2>3, <2>4, Zenon
  <2> HIDE DEF samples
  <2>6. QED BY <2>5 DEF Follows, Sample
<1>4. samples # <<>> => samples[1] = nextRead
  <2>1. samples # <<>> => 1 \in 1 .. n
    BY <1>2
  <2>2. nextRead + (1 - 1) * SampleBytes = nextRead
    BY DEF Sample
  <2>3. QED BY <1>1, <2>1, <2>2
<1>5. nextRead <= nextRead
  BY DEF Sample
<1> HIDE DEF samples
<1>6. ReadOk(samples)
  BY DEF samples
<1>7. QED BY <1>2, <1>3, <1>4, <1>5, <1>6 DEF DrainSome

LEMMA SampleTaskGives == nextRead \in Sample /\ SampleTask => SampleTaskOf
<1> SUFFICES ASSUME nextRead \in Sample, DrainOverflow PROVE DrainLost
  BY DrainOkGives DEF SampleTask, SampleTaskOf
<1> PICK lost \in 1 .. FIFO_DRAIN_BATCH :
         ReadOverflow /\ nextRead' = nextRead + lost * SampleBytes
  BY DEF DrainOverflow
<1>1. PICK d \in Nat : d = lost * SampleBytes
  BY NextStep
<1>2. nextRead' = nextRead + d
  BY <1>1
<1>3. QED BY <1>2 DEF DrainLost, Sample

LEMMA SampleTaskType == TypeOK /\ SampleTaskAny(Sample) => TypeOK'
<1> SUFFICES ASSUME TypeOK, SampleTaskAny(Sample) PROVE TypeOK'
  OBVIOUS
<1> USE DEF TypeOK, queueVars, sampleVars, publishVars
<1>1. CASE Wake
  BY <1>1 DEF Wake
<1>2. ASSUME NEW samples \in Seq(Sample), ReadOk(samples) PROVE TypeOK'
  <2>1. ASSUME samples # <<>> PROVE samples[Len(samples)] + SampleBytes \in Sample
    <3>1. samples[Len(samples)] \in Sample
      BY <2>1, EmptySeq, ElementOfSeq
    <3>2. QED BY <3>1 DEF Sample
  <2>2. QED BY <1>2, <2>1 DEF ReadOk
<1>3. CASE ReadOverflow /\ nextRead' \in Sample
  BY <1>3, QueueSendType DEF ReadOverflow
<1>4. CASE ReadError
  BY <1>4 DEF ReadError
<1>5. CASE TakeBuffer
  BY <1>5, HeadTailProperties DEF TakeBuffer
<1>6. CASE DropSample
  BY <1>6, HeadTailProperties DEF DropSample
<1>7. CASE StoreSample
  <2>1. next \in Slots /\ next + 1 \in 0 .. WINDOW_SIZE
    BY <1>7 DEF StoreSample, WindowFull, Slots
  <2>2. Head(batch) \in Sample /\ Tail(batch) \in Seq(Sample)
    BY <1>7, HeadTailProperties DEF StoreSample
  <2>3. window' \in [Buffers -> Window]
    BY <1>7, <2>1, <2>2 DEF StoreSample, Window
  <2>4. QED BY <1>7, <2>1, <2>2, <2>3 DEF StoreSample
<1>8. CASE SubmitWindow
  BY <1>8, QueueSendType DEF SubmitWindow, WindowFull
<1>9. CASE BatchDone
  BY <1>9 DEF BatchDone
<1>10. QED BY <1>1, <1>2, <1>3, <1>4, <1>5, <1>6, <1>7, <1>8, <1>9 DEF SampleTaskAny, Store

LEMMA PublishTaskType == TypeOK /\ PublishTask => TypeOK'
<1> SUFFICES ASSUME TypeOK, PublishTask PROVE TypeOK'
  OBVIOUS
<1> USE DEF TypeOK, queueVars, sampleVars, publishVars
<1>1. CASE ReceiveReady
  BY <1>1, HeadTailProperties DEF ReceiveReady
<1>2. CASE ConvertSample
  <2>1. Len(json) \in Slots
    BY <1>2, LenProperties DEF ConvertSample, Slots
  <2>2. window[pubIndex][Len(json)] \in Sample
    BY <2>1 DEF Window
  <2>3. json' \in Seq(Sample) /\ Len(json') <= WINDOW_SIZE
    BY <1>2, <2>1, <2>2, AppendProperties DEF ConvertSample, Slots
  <2>4. QED BY <1>2, <2>3 DEF ConvertSample
<1>3. CASE Converted
  BY <1>3 DEF Converted
<1>4. CASE JsonTooLarge
  BY <1>4, QueueSendType DEF JsonTooLarge
<1>5. CASE Publish
  BY <1>5, AppendProperties DEF Publish
<1>6. CASE Release
  BY <1>6, QueueSendType DEF Release
<1>7. QED BY <1>1, <1>2, <1>3, <1>4, <1>5, <1>6 DEF PublishTask

\* The samples in the buffers and the payloads are among those the driver returned.
SamplesIn(S) ==
    /\ batch \in Seq(S) /\ json \in Seq(S) /\ handed \in Seq(Seq(S))
    /\ window \in [Buffers -> [Slots -> S]]

LEMMA SamplesStay ==
    ASSUME NEW S, TypeOK, SamplesIn(S),
           SampleTaskAny(S) \/ PublishTask \/ UNCHANGED poolVars
    PROVE  SamplesIn(S)'
<1> USE DEF SamplesIn, queueVars, sampleVars, publishVars
<1>1. CASE StoreSample
  <2>1. next \in Slots /\ active \in Buffers
    BY <1>1 DEF StoreSample, WindowFull, Slots, TypeOK
  <2>2. Head(batch) \in S /\ Tail(batch) \in Seq(S)
    BY <1>1, HeadTailProperties DEF StoreSample
  <2>3. QED BY <1>1, <2>1, <2>2 DEF StoreSample
<1>2. CASE DropSample
  BY <1>2, HeadTailProperties DEF DropSample
<1>3. CASE Wake \/ ReadError \/ TakeBuffer \/ SubmitWindow \/ BatchDone \/ ReadOverflow
           \/ UNCHANGED poolVars
  BY <1>3 DEF Wake, ReadError, TakeBuffer, SubmitWindow, BatchDone, ReadOverflow, poolVars
<1>4. ASSUME NEW samples \in Seq(S), ReadOk(samples) PROVE SamplesIn(S)'
  BY <1>4 DEF ReadOk
<1>5. CASE ReceiveReady \/ Converted \/ JsonTooLarge \/ Release
  <2>1. (json' = <<>> \/ json' = json) /\ UNCHANGED <<batch, handed, window>>
    BY <1>5 DEF ReceiveReady, Converted, JsonTooLarge, Release
  <2>2. <<>> \in Seq(S)
    OBVIOUS
  <2>3. QED BY <2>1, <2>2, Zenon
<1>6. CASE ConvertSample
  <2>1. Len(json) \in Slots /\ pubIndex \in Buffers
    BY <1>6, LenProperties DEF ConvertSample, Slots, TypeOK
  <2>2. window[pubIndex][Len(json)] \in S
    BY <2>1
  <2>3. QED BY <1>6, <2>2, AppendProperties DEF ConvertSample
<1>7. CASE Publish
  BY <1>7, AppendProperties DEF Publish
<1>8. QED BY <1>1, <1>2, <1>3, <1>4, <1>5, <1>6, <1>7
          DEF SampleTaskAny, Store, PublishTask

(***************************************************************************)
(* Type correctness of the pool and of both tasks, app_main.c:178-301.     *)
(***************************************************************************)
THEOREM TypeCorrect == Spec => []TypeOK
<1>1. PoolInit => TypeOK
  BY InitType
<1>2. TypeOK /\ [Next]_poolVars => TypeOK'
  <2> SUFFICES ASSUME TypeOK, [Next]_poolVars PROVE TypeOK'
    OBVIOUS
  <2>1. CASE SampleTask
    BY <2>1, SampleTaskGives, SampleTaskOfAny, SampleTaskType DEF TypeOK
  <2>2. CASE PublishTask
    BY <2>2, PublishTaskType
  <2>3. CASE UNCHANGED poolVars
    BY <2>3 DEF poolVars, TypeOK
  <2>4. QED BY <2>1, <2>2, <2>3 DEF Next
<1>3. QED BY <1>1, <1>2, PTL DEF Spec

----------------------------------------------------------------------------
(* Every buffer has one owner *)

PoolInv == TypeOK /\ OneOwner

LEMMA InitOwner == PoolInit => OneOwner
<1> SUFFICES ASSUME PoolInit PROVE OneOwner
  OBVIOUS
<1>1. NoDuplicates(free) /\ NoDuplicates(ready)
  BY DEF PoolInit, NoDuplicates
<1>2. Elements(ready) = {} /\ Filling = {} /\ Publishing = {}
  BY DEF PoolInit, Elements, Filling, Publishing
<1>3. Elements(free) = Buffers
  <2>1. \A i \in DOMAIN free : free[i] \in Buffers
    BY DEF PoolInit, Buffers
  <2>2. \A b \in Buffers : b + 1 \in DOMAIN free /\ free[b + 1] = b
    BY DEF PoolInit, Buffers
  <2>3. QED BY <2>1, <2>2 DEF Elements
<1>4. QED BY <1>1, <1>2, <1>3 DEF OneOwner

LEMMA NoBufferNotBuffer == NoBuffer \notin Buffers
BY DEF NoBuffer, Buffers

LEMMA SampleTaskOwner == PoolInv /\ SampleTaskAny(Sample) => OneOwner'
<1> SUFFICES ASSUME TypeOK, OneOwner, SampleTaskAny(Sample) PROVE OneOwner'
  BY DEF PoolInv
<1> USE NoBufferNotBuffer DEF queueVars, sampleVars, publishVars
<1>1. /\ free \in Seq(Buffers) /\ ready \in Seq(Buffers)
      /\ active \in Buffers \cup {NoBuffer} /\ pubIndex \in Buffers
  BY DEF TypeOK
\* The steps that move no buffer.
<1>2. CASE UNCHANGED <<free, ready, active, pubPc, pubIndex>>
  BY <1>2 DEF OneOwner, Filling, Publishing, Elements, NoDuplicates
<1>3. ASSUME ReadOverflow PROVE OneOwner'
  <2>1. CASE active = NoBuffer
    BY <1>2, <1>3, <2>1 DEF ReadOverflow
  <2>2. CASE active # NoBuffer
    <3>1. active \in Buffers /\ active \notin Elements(free) /\ Filling = {active}
      BY <1>1, <2>2 DEF OneOwner, Filling
    <3>2. free' = QueueSend(free, active) /\ Filling' = {} /\ Publishing' = Publishing
      BY <1>3, <2>2 DEF ReadOverflow, Filling, Publishing
    <3>3. /\ NoDuplicates(free') /\ Elements(free') = Elements(free) \cup {active}
      BY <1>1, <3>1, <3>2, QueueSendNew DEF OneOwner
    <3>4. NoDuplicates(ready') /\ Elements(ready') = Elements(ready)
      BY <1>3 DEF ReadOverflow, OneOwner
    <3>5. QED BY <3>1, <3>2, <3>3, <3>4 DEF OneOwner
  <2>3. QED BY <2>1, <2>2
<1>4. ASSUME TakeBuffer PROVE OneOwner'
  <2>1. /\ Head(free) \in Buffers /\ Head(free) \in Elements(free)
        /\ NoDuplicates(free') /\ Elements(free') = Elements(free) \ {Head(free)}
    BY <1>1, <1>4, HeadTail DEF TakeBuffer, OneOwner
  <2>2. Filling = {} /\ Filling' = {Head(free)} /\ Publishing' = Publishing
    BY <1>4, <2>1 DEF TakeBuffer, Filling, Publishing
  <2>3. NoDuplicates(ready') /\ Elements(ready') = Elements(ready)
    BY <1>4 DEF TakeBuffer, OneOwner
  <2>4. QED BY <2>1, <2>2, <2>3 DEF OneOwner
<1>5. ASSUME SubmitWindow PROVE OneOwner'
  <2>1. active \in Buffers /\ active \notin Elements(ready) /\ Filling = {active}
    BY <1>1, <1>5 DEF SubmitWindow, WindowFull, OneOwner, Filling
  <2>2. ready' = QueueSend(ready, active) /\ Filling' = {} /\ Publishing' = Publishing
    BY <1>5 DEF SubmitWindow, Filling, Publishing
  <2>3. NoDuplicates(ready') /\ Elements(ready') = Elements(ready) \cup {active}
    BY <1>1, <2>1, <2>2, QueueSendNew DEF OneOwner
  <2>4. NoDuplicates(free') /\ Elements(free') = Elements(free)
    BY <1>5 DEF SubmitWindow, OneOwner
  <2>5. QED BY <2>1, <2>2, <2>3, <2>4 DEF OneOwner
<1>6. ASSUME \/ Wake \/ ReadError \/ DropSample \/ StoreSample \/ BatchDone
             \/ \E samples \in Seq(Sample) : ReadOk(samples)
      PROVE  OneOwner'
  BY <1>2, <1>6 DEF Wake, ReadOk, ReadError, DropSample, StoreSample, BatchDone
<1>7. QED BY <1>3, <1>4, <1>5, <1>6 DEF SampleTaskAny, Store

LEMMA PublishTaskOwner == PoolInv /\ PublishTask => OneOwner'
<1> SUFFICES ASSUME TypeOK, OneOwner, PublishTask PROVE OneOwner'
  BY DEF PoolInv
<1> USE DEF queueVars, sampleVars, publishVars
<1>1. /\ free \in Seq(Buffers) /\ ready \in Seq(Buffers)
      /\ active \in Buffers \cup {NoBuffer} /\ pubIndex \in Buffers
  BY DEF TypeOK
<1>2. ASSUME ReceiveReady PROVE OneOwner'
  <2>1. /\ Head(ready) \in Elements(ready)
        /\ NoDuplicates(ready') /\ Elements(ready') = Elements(ready) \ {Head(ready)}
    BY <1>1, <1>2, HeadTail DEF ReceiveReady, OneOwner
  <2>2. Publishing = {} /\ Publishing' = {Head(ready)} /\ Filling' = Filling
    BY <1>2 DEF ReceiveReady, Publishing, Filling
  <2>3. NoDuplicates(free') /\ Elements(free') = Elements(free)
    BY <1>2 DEF ReceiveReady, OneOwner
  <2>4. QED BY <2>1, <2>2, <2>3 DEF OneOwner
\* Dropping a window and releasing it after publishing give the buffer back.
<1>3. ASSUME JsonTooLarge \/ Release PROVE OneOwner'
  <2>1. pubIndex \notin Elements(free) /\ Publishing = {pubIndex}
    BY <1>3 DEF JsonTooLarge, Release, OneOwner, Publishing
  <2>2. /\ free' = QueueSend(free, pubIndex) /\ ready' = ready
        /\ Publishing' = {} /\ Filling' = Filling
    BY <1>3 DEF JsonTooLarge, Release, Publishing, Filling
  <2>3. NoDuplicates(free') /\ Elements(free') = Elements(free) \cup {pubIndex}
    BY <1>1, <2>1, <2>2, QueueSendNew DEF OneOwner
  <2>4. NoDuplicates(ready') /\ Elements(ready') = Elements(ready)
    BY <2>2 DEF OneOwner
  <2>5. QED BY <2>1, <2>2, <2>3, <2>4 DEF OneOwner
\* The other steps stay with the buffer they hold.
<1>4. ASSUME ConvertSample \/ Converted \/ Publish PROVE OneOwner'
  <2>1. UNCHANGED <<free, ready, active, pubIndex>> /\ Publishing' = Publishing
    BY <1>4 DEF ConvertSample, Converted, Publish, Publishing
  <2>2. QED BY <2>1 DEF OneOwner, Filling, Elements, NoDuplicates
<1>5. QED BY <1>2, <1>3, <1>4 DEF PublishTask

LEMMA PoolStays == PoolInv /\ UNCHANGED poolVars => PoolInv'
<1> SUFFICES ASSUME PoolInv, UNCHANGED poolVars PROVE PoolInv'
  OBVIOUS
<1>1. TypeOK'
  BY DEF poolVars, PoolInv, TypeOK
<1>2. OneOwner'
  BY DEF poolVars, PoolInv, OneOwner, Filling, Publishing, Elements, NoDuplicates
<1>3. QED BY <1>1, <1>2 DEF PoolInv

(***************************************************************************)
(* Every buffer of the pool has exactly one owner, so that sample_task     *)
(* never writes a buffer that publish_task reads, no xQueueSend finds its  *)
(* queue full, and no buffer is lost, for every depth of the queues.       *)
(***************************************************************************)
THEOREM SingleOwner == Spec => []OneOwner
<1>1. PoolInit => PoolInv
  BY InitType, InitOwner DEF PoolInv
<1>2. PoolInv /\ [Next]_poolVars => PoolInv'
  <2> SUFFICES ASSUME PoolInv, [Next]_poolVars PROVE PoolInv'
    OBVIOUS
  <2>1. CASE SampleTask
    BY <2>1, SampleTaskGives, SampleTaskOfAny, SampleTaskType, SampleTaskOwner DEF PoolInv, TypeOK
  <2>2. CASE PublishTask
    BY <2>2, PublishTaskType, PublishTaskOwner DEF PoolInv
  <2>3. CASE UNCHANGED poolVars
    BY <2>3, PoolStays
  <2>4. QED BY <2>1, <2>2, <2>3 DEF Next
<1>3. PoolInv => OneOwner
  BY DEF PoolInv
<1>4. QED BY <1>1, <1>2, <1>3, PTL DEF Spec

----------------------------------------------------------------------------
(* Every payload is a gapless window *)

LastSlot == WINDOW_SIZE - 1

\* The sample that sample_task stores next, if nothing is lost before.
NextStored == IF batch # <<>> THEN batch[1] ELSE nextRead

\* All that is complete was taken before this sample.
Frontier == IF active # NoBuffer /\ next > 0 THEN window[active][0] ELSE NextStored

InFlight == pubPc \in {"convert", "publish"}

\* The batch is consecutive and ends with the last sample read.
BatchInv ==
    /\ stPc # "store" => batch = <<>>
    /\ batch # <<>> => Follows(batch[Len(batch)], nextRead)
    /\ \A i \in 1 .. Len(batch) - 1 : Follows(batch[i], batch[i + 1])

\* The window being filled is consecutive up to the sample to store next.
FillInv ==
    active # NoBuffer =>
        /\ \A i \in 0 .. next - 2 : Follows(window[active][i], window[active][i + 1])
        /\ next > 0 => Follows(window[active][next - 1], NextStored)
        /\ \A i \in 0 .. next - 1 : window[active][i] < NextStored

Whole(b) == Consecutive(window[b], WINDOW_SIZE)

\* Windows in the ready queue, and the one being published, are complete and in order.
ReadyInv ==
    /\ \A i \in DOMAIN ready :
           Whole(ready[i]) /\ window[ready[i]][LastSlot] < Frontier
    /\ \A i, j \in DOMAIN ready :
           i < j => window[ready[i]][LastSlot] < window[ready[j]][0]

FlightInv ==
    InFlight =>
        /\ Whole(pubIndex) /\ window[pubIndex][LastSlot] < Frontier
        /\ \A i \in DOMAIN ready : window[pubIndex][LastSlot] < window[ready[i]][0]
        /\ \A i \in 1 .. Len(json) : json[i] = window[pubIndex][i - 1]
        /\ pubPc = "publish" => Len(json) = WINDOW_SIZE

HandedInv ==
    \A k \in DOMAIN handed :
        /\ Gapless(handed[k])
        /\ handed[k][WINDOW_SIZE] < Frontier
        /\ \A i \in DOMAIN ready : handed[k][WINDOW_SIZE] < window[ready[i]][0]
        /\ InFlight => handed[k][WINDOW_SIZE] < window[pubIndex][0]

HandedOrder ==
    \A k \in 1 .. Len(handed) - 1 : handed[k][WINDOW_SIZE] < handed[k + 1][1]

\* What concerns publish_task: the windows that are complete.
CompleteInv == ReadyInv /\ FlightInv /\ HandedInv /\ HandedOrder

ContentsInv == BatchInv /\ FillInv /\ CompleteInv

\* What a buffer holds are numbers.
LEMMA WindowType ==
    ASSUME TypeOK, NEW b \in Buffers
    PROVE  /\ \A i \in Slots : window[b][i] \in Nat
           /\ window[b][0] \in Nat /\ window[b][LastSlot] \in Nat
<1>1. window[b] \in [Slots -> Nat]
  BY DEF TypeOK, Window, Sample
<1>2. \A i \in Slots : window[b][i] \in Nat
  BY <1>1
<1>3. 0 \in Slots /\ LastSlot \in Slots
  BY DEF Slots, LastSlot
<1>4. QED BY <1>2, <1>3

LEMMA FrontierType ==
    ASSUME TypeOK, BatchInv
    PROVE  NextStored \in Nat /\ Frontier \in Nat
<1>1. NextStored \in Nat
  <2>1. CASE batch = <<>>
    BY <2>1 DEF NextStored, TypeOK, Sample
  <2>2. CASE batch # <<>>
    <3>1. batch \in Seq(Sample) /\ 1 \in 1 .. Len(batch)
      BY <2>2, EmptySeq DEF TypeOK
    <3>2. batch[1] \in Sample
      BY <3>1, ElementOfSeq
    <3>3. QED BY <2>2, <3>2 DEF NextStored, Sample
  <2>3. QED BY <2>1, <2>2
<1>2. ASSUME active # NoBuffer, next > 0 PROVE window[active][0] \in Nat
  BY <1>2 DEF TypeOK, Window, Slots, Sample
<1>3. QED BY <1>1, <1>2 DEF Frontier

\* The window being filled starts no later than the sample to store next.
LEMMA FrontierBound ==
    ASSUME TypeOK, BatchInv, FillInv
    PROVE  Frontier <= NextStored
<1>1. NextStored \in Nat /\ Frontier \in Nat
  BY FrontierType
<1>2. CASE active # NoBuffer /\ next > 0
  <2>1. 0 \in 0 .. next - 1
    BY <1>2 DEF TypeOK
  <2>2. window[active][0] < NextStored
    BY <1>2, <2>1 DEF FillInv
  <2>3. QED BY <1>1, <1>2, <2>2 DEF Frontier
<1>3. CASE ~(active # NoBuffer /\ next > 0)
  BY <1>1, <1>3 DEF Frontier
<1>4. QED BY <1>2, <1>3

\* The last sample of a payload is a number.
LEMMA HandedType ==
    ASSUME TypeOK, HandedInv, NEW k \in DOMAIN handed
    PROVE  handed[k][WINDOW_SIZE] \in Nat
<1>1. handed[k] \in Seq(Sample)
  BY LenProperties, ElementOfSeq DEF TypeOK
<1>2. Len(handed[k]) = WINDOW_SIZE
  BY DEF HandedInv, Gapless
<1>3. QED BY <1>1, <1>2, ElementOfSeq DEF Sample

\* Steps of sample_task that leave the queues' windows alone and do not move the
\* frontier back preserve what concerns publish_task.
LEMMA CompleteFrame ==
    ASSUME PoolInv, BatchInv, CompleteInv,
           UNCHANGED <<ready, pubPc, pubIndex, json, handed>>,
           \A b \in Buffers \ Filling : window'[b] = window[b],
           Frontier' \in Nat, Frontier <= Frontier'
    PROVE  CompleteInv'
<1>1. Frontier \in Nat
  BY FrontierType DEF PoolInv
<1>2. ready \in Seq(Buffers) /\ DOMAIN ready = 1 .. Len(ready)
  BY LenProperties DEF PoolInv, TypeOK
<1>3. \A i \in DOMAIN ready : /\ ready[i] \in Buffers /\ ready[i] \notin Filling
                              /\ window'[ready[i]] = window[ready[i]]
                              /\ window[ready[i]][LastSlot] \in Nat
  <2>1. \A i \in DOMAIN ready : ready[i] \in Buffers
    BY <1>2, ElementOfSeq
  <2>2. \A i \in DOMAIN ready : ready[i] \notin Filling
    BY DEF PoolInv, OneOwner, Elements
  <2>3. \A b \in Buffers : window[b][LastSlot] \in Nat
    BY WindowType DEF PoolInv
  <2>4. QED BY <2>1, <2>2, <2>3
<1>4. InFlight => /\ pubIndex \in Buffers /\ window'[pubIndex] = window[pubIndex]
                  /\ window[pubIndex][LastSlot] \in Nat
  <2>1. pubIndex \in Buffers
    BY DEF PoolInv, TypeOK
  <2>2. InFlight => pubIndex \notin Filling
    BY DEF PoolInv, OneOwner, Publishing, InFlight
  <2>3. QED BY <2>1, <2>2, WindowType DEF PoolInv
<1>5. ReadyInv'
  BY <1>1, <1>3 DEF CompleteInv, ReadyInv, Whole
<1>6. FlightInv'
  BY <1>1, <1>3, <1>4 DEF CompleteInv, FlightInv, InFlight, Whole
<1>7. HandedInv'
  <2> SUFFICES ASSUME NEW k \in DOMAIN handed
               PROVE  /\ Gapless(handed[k])
                      /\ handed[k][WINDOW_SIZE] < Frontier'
                      /\ \A i \in DOMAIN ready : handed[k][WINDOW_SIZE] < window'[ready[i]][0]
                      /\ InFlight => handed[k][WINDOW_SIZE] < window'[pubIndex][0]
    BY DEF HandedInv, Gapless, InFlight
  <2>1. /\ Gapless(handed[k])
        /\ handed[k][WINDOW_SIZE] < Frontier
        /\ \A i \in DOMAIN ready : handed[k][WINDOW_SIZE] < window[ready[i]][0]
        /\ InFlight => handed[k][WINDOW_SIZE] < window[pubIndex][0]
    BY DEF CompleteInv, HandedInv
  <2>2. handed[k][WINDOW_SIZE] \in Nat
    BY HandedType DEF PoolInv, CompleteInv
  <2>3. handed[k][WINDOW_SIZE] < Frontier'
    BY <1>1, <2>1, <2>2
  <2>4. \A i \in DOMAIN ready : handed[k][WINDOW_SIZE] < window'[ready[i]][0]
    BY <1>3, <2>1
  <2>5. InFlight => handed[k][WINDOW_SIZE] < window'[pubIndex][0]
    BY <1>4, <2>1
  <2>6. QED BY <2>1, <2>3, <2>4, <2>5
<1>8. HandedOrder'
  BY DEF CompleteInv, HandedOrder
<1>9. QED BY <1>5, <1>6, <1>7, <1>8 DEF CompleteInv

\* The length of a sequence that is not empty.
LEMMA OneOrMore ==
    ASSUME NEW S, NEW q \in Seq(S), q # <<>>
    PROVE  Len(q) = 1 \/ Len(q) > 1
<1>1. Len(q) \in Nat /\ Len(q) # 0
  BY EmptySeq, LenProperties
<1>2. \A n \in Nat : n # 0 => n = 1 \/ n > 1
  OBVIOUS
<1>3. QED BY <1>1, <1>2, Zenon

\* Storing or dropping a sample moves on to the one the sensor took next.
LEMMA TailBatch ==
    ASSUME TypeOK, BatchInv, stPc = "store", batch # <<>>,
           batch' = Tail(batch), stPc' = stPc, nextRead' = nextRead
    PROVE  /\ BatchInv' /\ NextStored = Head(batch)
           /\ NextStored' = NextStored + SampleBytes
<1>1. /\ batch \in Seq(Sample) /\ Len(batch) \in Nat /\ Len(batch) >= 1
      /\ Head(batch) = batch[1]
  BY EmptySeq, LenProperties DEF TypeOK
<1>2. /\ Tail(batch) \in Seq(Sample) /\ Len(Tail(batch)) = Len(batch) - 1
      /\ \A i \in 1 .. Len(Tail(batch)) : Tail(batch)[i] = batch[i + 1]
  BY HeadTailProperties, <1>1
<1>3. Tail(batch) # <<>> <=> Len(batch) > 1
  <2>1. Tail(batch) # <<>> <=> Len(Tail(batch)) # 0
    BY <1>2, EmptySeq, Zenon
  <2>2. Len(Tail(batch)) # 0 <=> Len(batch) > 1
    BY <1>1, <1>2
  <2>3. QED BY <2>1, <2>2, Zenon
<1>4. BatchInv'
  BY <1>1, <1>2, <1>3 DEF BatchInv
<1>5. NextStored' = NextStored + SampleBytes
  <2>1. CASE Len(batch) = 1
    BY <1>1, <1>3, <2>1 DEF BatchInv, NextStored, Follows
  <2>2. CASE Len(batch) # 1
    <3>1. Tail(batch)[1] = batch[2] /\ batch[2] = batch[1] + SampleBytes
      BY <1>1, <1>2, <2>2 DEF BatchInv, Follows
    <3>2. Len(batch) > 1
      BY <1>1, <2>2, OneOrMore
    <3>3. QED BY <1>3, <3>1, <3>2 DEF NextStored
  <2>3. QED BY <2>1, <2>2
<1>6. QED BY <1>1, <1>4, <1>5 DEF NextStored

\* What a drain returned continues the stream where the last batch ended, or starts anew.
LEMMA DrainSomeFill ==
    ASSUME TypeOK, BatchInv, FillInv, DrainSome
    PROVE  /\ BatchInv' /\ FillInv' /\ Frontier <= Frontier' /\ dropped' = dropped
           /\ ~ dropped => Frontier' = Frontier
<1> PICK samples \in Seq(Sample) :
        /\ \A i \in 1 .. Len(samples) - 1 : Follows(samples[i], samples[i + 1])
        /\ samples # <<>> => /\ nextRead <= samples[1]
                             /\ samples[1] = nextRead \/ (active = NoBuffer /\ dropped)
        /\ ReadOk(samples)
  BY DEF DrainSome
<1>1. batch = <<>> /\ batch' = samples /\ UNCHANGED <<window, active, next>>
  BY DEF BatchInv, ReadOk
<1>2. nextRead \in Nat /\ (samples # <<>> => samples[1] \in Nat /\ samples[Len(samples)] \in Nat)
  BY EmptySeq, ElementOfSeq DEF TypeOK, Sample
<1>3. BatchInv'
  BY <1>1 DEF BatchInv, ReadOk, Follows
<1>4. NextStored' = IF samples = <<>> THEN NextStored ELSE samples[1]
  BY <1>1 DEF NextStored, ReadOk
<1>5. NextStored = nextRead
  BY <1>1 DEF NextStored
<1>6. NextStored <= NextStored' /\ (NextStored' = NextStored \/ (active = NoBuffer /\ dropped))
  BY <1>2, <1>4, <1>5
<1>7. FillInv'
  BY <1>1, <1>6 DEF FillInv
<1>8. Frontier <= Frontier' /\ (~ dropped => Frontier' = Frontier)
  BY <1>1, <1>2, <1>5, <1>6, FrontierType DEF Frontier
<1>9. QED BY <1>3, <1>7, <1>8 DEF ReadOk

\* An overflow ends the window being filled.
LEMMA DrainLostFill ==
    ASSUME TypeOK, BatchInv, FillInv, DrainLost
    PROVE  BatchInv' /\ FillInv' /\ Frontier <= Frontier' /\ dropped'
<1>1. dropped' /\ batch = <<>> /\ batch' = <<>> /\ active' = NoBuffer /\ nextRead \in Nat
      /\ nextRead' \in Nat /\ nextRead <= nextRead'
  BY DEF BatchInv, DrainLost, ReadOverflow, TypeOK, Sample
<1>2. BatchInv' /\ FillInv'
  BY <1>1 DEF BatchInv, FillInv
<1>3. NextStored = nextRead /\ Frontier' = nextRead'
  BY <1>1 DEF NextStored, Frontier
<1>4. Frontier <= NextStored /\ Frontier \in Nat
  BY FrontierBound, FrontierType
<1>5. QED BY <1>1, <1>2, <1>3, <1>4

\* The next sample goes into the window being filled.
LEMMA StoreSampleFill ==
    ASSUME TypeOK, BatchInv, FillInv, StoreSample
    PROVE  BatchInv' /\ FillInv' /\ Frontier' = Frontier
<1>1. /\ active # NoBuffer /\ active' = active /\ active \in Buffers
      /\ next \in 0 .. WINDOW_SIZE - 1 /\ next' = next + 1
  BY DEF StoreSample, WindowFull, TypeOK
<1>2. BatchInv' /\ NextStored = Head(batch) /\ NextStored' = NextStored + SampleBytes
  BY TailBatch DEF StoreSample, sampleVars
<1>3. /\ window'[active][next] = NextStored
      /\ \A i \in 0 .. next - 1 : window'[active][i] = window[active][i]
  BY <1>1, <1>2 DEF StoreSample, TypeOK, Window, Slots
<1>4. NextStored \in Nat
  BY FrontierType
<1>5. \A i \in 0 .. next - 1 : window[active][i] \in Nat
  BY <1>1 DEF TypeOK, Window, Slots, Sample
<1>6. \A i \in 0 .. next' - 2 : Follows(window'[active'][i], window'[active'][i + 1])
  <2> SUFFICES ASSUME NEW i \in 0 .. next - 1
               PROVE  Follows(window'[active][i], window'[active][i + 1])
    BY <1>1
  <2>1. CASE i = next - 1
    BY <1>1, <1>3, <2>1 DEF FillInv
  <2>2. CASE i # next - 1
    BY <1>1, <1>3, <2>2 DEF FillInv
  <2>3. QED BY <2>1, <2>2
<1>7. Follows(window'[active'][next' - 1], NextStored')
  BY <1>1, <1>2, <1>3 DEF Follows
<1>8. \A i \in 0 .. next' - 1 : window'[active'][i] < NextStored'
  <2> SUFFICES ASSUME NEW i \in 0 .. next PROVE window'[active][i] < NextStored'
    BY <1>1
  <2>1. CASE i = next
    BY <1>2, <1>3, <1>4, <2>1
  <2>2. CASE i # next
    BY <1>1, <1>2, <1>3, <1>4, <1>5, <2>2 DEF FillInv
  <2>3. QED BY <2>1, <2>2
<1>9. FillInv'
  BY <1>6, <1>7, <1>8 DEF FillInv
<1>10. Frontier' = Frontier
  BY <1>1, <1>3 DEF Frontier
<1>11. QED BY <1>2, <1>9, <1>10

\* Every other step of sample_task, but for the submission of the window.
LEMMA SampleTaskFill ==
    ASSUME TypeOK, BatchInv, FillInv, SampleTaskOf, ~SubmitWindow
    PROVE  /\ BatchInv' /\ FillInv' /\ Frontier <= Frontier'
           /\ ~ dropped' => Frontier' = Frontier
<1>1. NextStored \in Nat /\ Frontier \in Nat
  BY FrontierType
<1>2. CASE DrainSome
  BY <1>1, <1>2, DrainSomeFill
<1>3. CASE DrainLost
  BY <1>3, DrainLostFill
<1>4. CASE StoreSample
  BY <1>1, <1>4, StoreSampleFill
<1>5. CASE Wake \/ ReadError \/ BatchDone
  <2>1. UNCHANGED <<batch, nextRead, window, active, next>>
    BY <1>5 DEF Wake, ReadError, BatchDone
  <2>2. stPc' # "store" => batch = <<>>
    BY <1>5 DEF Wake, ReadError, BatchDone, BatchInv
  <2>3. QED BY <1>1, <2>1, <2>2 DEF BatchInv, FillInv, Frontier, NextStored
<1>6. CASE TakeBuffer
  <2>1. UNCHANGED <<batch, nextRead, window, stPc>> /\ active = NoBuffer /\ next' = 0
    BY <1>6 DEF TakeBuffer
  <2>2. QED BY <1>1, <2>1 DEF BatchInv, FillInv, Frontier, NextStored
<1>7. CASE DropSample
  <2>1. UNCHANGED <<window, active, next>> /\ active = NoBuffer
    BY <1>7 DEF DropSample
  <2>2. BatchInv' /\ NextStored' = NextStored + SampleBytes
    BY <1>7, TailBatch DEF DropSample
  <2>3. dropped'
    BY <1>7 DEF DropSample
  <2>4. QED BY <1>1, <2>1, <2>2, <2>3 DEF FillInv, Frontier
<1>8. QED BY <1>2, <1>3, <1>4, <1>5, <1>6, <1>7 DEF SampleTaskOf, Store

\* The window just filled goes behind all that is complete.
LEMMA SubmitContents ==
    ASSUME PoolInv, ContentsInv, SubmitWindow
    PROVE  ContentsInv'
<1> USE DEF PoolInv, ContentsInv
<1>1. /\ active \in Buffers /\ active # NoBuffer /\ next = WINDOW_SIZE
      /\ active \notin Elements(ready)
      /\ UNCHANGED <<window, stPc, batch, next, nextRead, publishVars>>
      /\ active' = NoBuffer
  BY DEF SubmitWindow, WindowFull, TypeOK, OneOwner, Filling
<1>2. /\ ready' = Append(ready, active) /\ ready \in Seq(Buffers)
      /\ Len(ready) \in Nat /\ Len(ready') = Len(ready) + 1
      /\ DOMAIN ready = 1 .. Len(ready) /\ DOMAIN ready' = 1 .. Len(ready) + 1
      /\ \A i \in 1 .. Len(ready) : ready'[i] = ready[i] /\ ready[i] \in Buffers
      /\ ready'[Len(ready) + 1] = active
  <2>1. ready \in Seq(Buffers) /\ NoDuplicates(ready)
    BY DEF TypeOK, OneOwner
  <2>2. ready' = Append(ready, active) /\ Append(ready, active) \in Seq(Buffers)
    BY <1>1, <2>1, QueueSendNew DEF SubmitWindow
  <2>3. /\ Len(Append(ready, active)) = Len(ready) + 1
        /\ \A i \in 1 .. Len(ready) : Append(ready, active)[i] = ready[i]
        /\ Append(ready, active)[Len(ready) + 1] = active
    BY <1>1, <2>1, AppendProperties
  <2>4. /\ Len(ready) \in Nat /\ DOMAIN ready = 1 .. Len(ready)
        /\ DOMAIN Append(ready, active) = 1 .. Len(ready) + 1
        /\ \A i \in 1 .. Len(ready) : ready[i] \in Buffers
    BY <2>1, <2>2, <2>3, LenProperties, ElementOfSeq
  <2>5. QED BY <2>1, <2>2, <2>3, <2>4
<1>3. /\ NextStored' = NextStored /\ Frontier' = NextStored /\ Frontier = window[active][0]
      /\ NextStored \in Nat /\ Frontier \in Nat /\ Frontier <= NextStored
  BY <1>1, FrontierType, FrontierBound DEF NextStored, Frontier
<1>4. Whole(active) /\ window[active][LastSlot] < NextStored
  BY <1>1 DEF FillInv, Whole, Consecutive, LastSlot
<1>5. BatchInv' /\ FillInv'
  BY <1>1 DEF BatchInv, FillInv
<1>6. ReadyInv'
  <2>1. \A i \in 1 .. Len(ready) :
            Whole(ready[i]) /\ window[ready[i]][LastSlot] \in Nat
               /\ window[ready[i]][LastSlot] < Frontier
    BY <1>2, WindowType DEF CompleteInv, ReadyInv
  <2>2. ASSUME NEW i \in DOMAIN ready'
        PROVE  Whole(ready'[i]) /\ window[ready'[i]][LastSlot] < Frontier'
    <3>1. CASE i \in 1 .. Len(ready)
      <4>1. /\ ready'[i] = ready[i] /\ Whole(ready[i]) /\ window[ready[i]][LastSlot] \in Nat
            /\ window[ready[i]][LastSlot] < Frontier
        BY <1>2, <2>1, <3>1
      <4>2. QED BY <1>3, <4>1
    <3>2. CASE i = Len(ready) + 1
      BY <1>2, <1>3, <1>4, <3>2
    <3>3. QED BY <1>2, <3>1, <3>2
  <2>3. ASSUME NEW i \in DOMAIN ready', NEW j \in DOMAIN ready', i < j
        PROVE  window'[ready'[i]][LastSlot] < window'[ready'[j]][0]
    <3>1. i \in 1 .. Len(ready)
      BY <1>2, <2>3
    <3>2. CASE j \in 1 .. Len(ready)
      BY <1>1, <1>2, <2>3, <3>1, <3>2 DEF CompleteInv, ReadyInv
    <3>3. CASE j = Len(ready) + 1
      BY <1>1, <1>2, <1>3, <2>1, <3>1, <3>3
    <3>4. QED BY <1>2, <3>2, <3>3
  <2>4. window' = window
    BY <1>1
  <2>5. QED BY <2>2, <2>3, <2>4 DEF ReadyInv, Whole
<1>7. FlightInv'
  <2> SUFFICES ASSUME InFlight PROVE FlightInv'
    BY <1>1 DEF FlightInv, InFlight, publishVars
  <2>1. /\ Whole(pubIndex) /\ window[pubIndex][LastSlot] < Frontier
        /\ \A i \in DOMAIN ready : window[pubIndex][LastSlot] < window[ready[i]][0]
        /\ \A i \in 1 .. Len(json) : json[i] = window[pubIndex][i - 1]
        /\ pubPc = "publish" => Len(json) = WINDOW_SIZE
    BY DEF CompleteInv, FlightInv
  <2>2. window[pubIndex][LastSlot] \in Nat
    BY WindowType DEF TypeOK
  <2>3. window[pubIndex][LastSlot] < Frontier'
    BY <1>3, <2>1, <2>2
  <2>4. \A i \in DOMAIN ready' : window[pubIndex][LastSlot] < window[ready'[i]][0]
    BY <1>2, <1>3, <2>1
  <2>5. QED BY <1>1, <2>1, <2>3, <2>4 DEF FlightInv, Whole, publishVars
<1>8. HandedInv'
  <2> SUFFICES ASSUME NEW k \in DOMAIN handed
               PROVE  /\ Gapless(handed[k])
                      /\ handed[k][WINDOW_SIZE] < Frontier'
                      /\ \A i \in DOMAIN ready' : handed[k][WINDOW_SIZE] < window[ready'[i]][0]
                      /\ InFlight => handed[k][WINDOW_SIZE] < window[pubIndex][0]
    BY <1>1 DEF HandedInv, Gapless, InFlight, publishVars
  <2>1. /\ Gapless(handed[k])
        /\ handed[k][WINDOW_SIZE] < Frontier
        /\ \A i \in DOMAIN ready : handed[k][WINDOW_SIZE] < window[ready[i]][0]
        /\ InFlight => handed[k][WINDOW_SIZE] < window[pubIndex][0]
    BY DEF CompleteInv, HandedInv
  <2>2. handed[k][WINDOW_SIZE] \in Nat
    BY HandedType DEF CompleteInv
  <2>3. handed[k][WINDOW_SIZE] < Frontier'
    BY <1>3, <2>1, <2>2
  <2>4. \A i \in DOMAIN ready' : handed[k][WINDOW_SIZE] < window[ready'[i]][0]
    BY <1>2, <1>3, <2>1
  <2>5. QED BY <2>1, <2>3, <2>4
<1>9. HandedOrder'
  BY <1>1 DEF CompleteInv, HandedOrder, publishVars
<1>10. QED BY <1>5, <1>6, <1>7, <1>8, <1>9 DEF CompleteInv

LEMMA SampleTaskContents == PoolInv /\ ContentsInv /\ SampleTaskOf => ContentsInv'
<1> SUFFICES ASSUME PoolInv, ContentsInv, SampleTaskOf, ~SubmitWindow PROVE ContentsInv'
  BY SubmitContents
<1>1. BatchInv' /\ FillInv' /\ Frontier <= Frontier'
  BY SampleTaskFill DEF PoolInv, ContentsInv
<1>2. TypeOK'
  BY SampleTaskType, SampleTaskOfAny DEF PoolInv
<1>3. Frontier' \in Nat
  <2>1. CASE active' # NoBuffer /\ next' > 0
    BY <1>2, <2>1 DEF TypeOK, Window, Slots, Sample, Frontier
  <2>2. CASE ~(active' # NoBuffer /\ next' > 0)
    <3>1. CASE batch' = <<>>
      BY <1>2, <2>2, <3>1 DEF Frontier, NextStored, TypeOK, Sample
    <3>2. CASE batch' # <<>>
      <4>1. batch' \in Seq(Sample) /\ 1 \in 1 .. Len(batch')
        BY <1>2, <3>2, EmptySeq DEF TypeOK
      <4>2. batch'[1] \in Sample
        BY <4>1, ElementOfSeq
      <4>3. QED BY <2>2, <3>2, <4>2 DEF Frontier, NextStored, Sample
    <3>3. QED BY <3>1, <3>2
  <2>3. QED BY <2>1, <2>2
<1>4. /\ UNCHANGED <<ready, pubPc, pubIndex, json, handed>>
      /\ \A b \in Buffers \ Filling : window'[b] = window[b]
  BY DEF PoolInv, TypeOK, SampleTaskOf, Store, Wake, DrainSome, ReadOk, DrainLost, ReadOverflow,
         ReadError, TakeBuffer, DropSample, StoreSample, BatchDone, Filling,
         queueVars, publishVars
<1>5. CompleteInv'
  BY <1>1, <1>3, <1>4, CompleteFrame DEF ContentsInv
<1>6. QED BY <1>1, <1>5 DEF ContentsInv

\* publish_task does not touch what is being filled.
LEMMA PublishTaskFrame ==
    ASSUME PublishTask
    PROVE  UNCHANGED <<window, sampleVars>>
BY DEF PublishTask, ReceiveReady, ConvertSample, Converted, JsonTooLarge, Publish, Release,
       sampleVars

\* The oldest window in the ready queue becomes the one being published.
LEMMA ReceiveReadyContents ==
    ASSUME PoolInv, CompleteInv, ReceiveReady, UNCHANGED <<window, sampleVars>>
    PROVE  CompleteInv'
<1>1. /\ ready \in Seq(Buffers) /\ ready # <<>> /\ ready' = Tail(ready)
      /\ pubIndex' = Head(ready) /\ json' = <<>> /\ pubPc' = "convert" /\ ~InFlight
      /\ handed' = handed /\ window' = window
  BY DEF PoolInv, TypeOK, ReceiveReady, InFlight
<1>2. /\ Len(ready) \in Nat /\ Len(ready) # 0 /\ DOMAIN ready = 1 .. Len(ready)
      /\ Len(Tail(ready)) = Len(ready) - 1 /\ DOMAIN Tail(ready) = 1 .. Len(Tail(ready))
      /\ \A i \in 1 .. Len(Tail(ready)) : Tail(ready)[i] = ready[i + 1]
  <2>1. Tail(ready) \in Seq(Buffers) /\ Len(Tail(ready)) = Len(ready) - 1
    BY <1>1, HeadTailProperties
  <2>2. \A i \in 1 .. Len(Tail(ready)) : Tail(ready)[i] = ready[i + 1]
    BY <1>1, HeadTailProperties
  <2>3. QED BY <1>1, <2>1, <2>2, LenProperties, EmptySeq
<1>3. /\ 1 \in DOMAIN ready /\ pubIndex' = ready[1]
      /\ \A i \in DOMAIN ready' : i \in Nat /\ i + 1 \in DOMAIN ready /\ 1 < i + 1
                                  /\ ready'[i] = ready[i + 1]
  BY <1>1, <1>2
<1>4. Frontier' = Frontier
  BY DEF Frontier, NextStored, sampleVars
<1>5. ReadyInv'
  <2>1. ASSUME NEW i \in DOMAIN ready', NEW j \in DOMAIN ready', i < j
        PROVE  window[ready'[i]][LastSlot] < window[ready'[j]][0]
    <3>1. i + 1 \in DOMAIN ready /\ j + 1 \in DOMAIN ready /\ i + 1 < j + 1
      BY <1>3, <2>1
    <3>2. QED BY <1>3, <3>1 DEF CompleteInv, ReadyInv
  <2>2. QED BY <1>1, <1>3, <1>4, <2>1 DEF CompleteInv, ReadyInv, Whole
<1>6. FlightInv'
  BY <1>1, <1>3, <1>4 DEF CompleteInv, ReadyInv, FlightInv, Whole
<1>7. HandedInv'
  BY <1>1, <1>3, <1>4 DEF CompleteInv, HandedInv, Gapless
<1>8. HandedOrder'
  BY <1>1 DEF CompleteInv, HandedOrder
<1>9. QED BY <1>5, <1>6, <1>7, <1>8 DEF CompleteInv

\* What is converted is what the buffer holds.
LEMMA ConvertSampleContents ==
    ASSUME PoolInv, CompleteInv, ConvertSample, UNCHANGED <<window, sampleVars>>
    PROVE  CompleteInv'
<1>1. /\ UNCHANGED <<ready, window, pubPc, pubIndex, handed>> /\ Frontier' = Frontier
      /\ pubPc = "convert"
  BY DEF ConvertSample, queueVars, Frontier, NextStored, sampleVars
<1>2. /\ json \in Seq(Sample) /\ Len(json) \in Nat
      /\ window[pubIndex][Len(json)] \in Sample
  <2>1. json \in Seq(Sample) /\ Len(json) \in Nat /\ Len(json) < WINDOW_SIZE
    BY LenProperties DEF PoolInv, TypeOK, ConvertSample
  <2>2. Len(json) \in Slots
    BY <2>1 DEF Slots
  <2>3. QED BY <2>1, <2>2 DEF PoolInv, TypeOK, Window
<1>3. /\ Len(json') = Len(json) + 1
      /\ \A i \in 1 .. Len(json) : json'[i] = json[i]
      /\ json'[Len(json) + 1] = window[pubIndex][Len(json)]
  BY <1>2, AppendProperties DEF ConvertSample
<1>4. \A i \in 1 .. Len(json') : json'[i] = window[pubIndex][i - 1]
  <2> SUFFICES ASSUME NEW i \in 1 .. Len(json) + 1
               PROVE  json'[i] = window[pubIndex][i - 1]
    BY <1>3
  <2>1. CASE i \in 1 .. Len(json)
    BY <1>1, <1>3, <2>1 DEF CompleteInv, FlightInv, InFlight
  <2>2. CASE i = Len(json) + 1
    BY <1>2, <1>3, <2>2
  <2>3. QED BY <1>2, <2>1, <2>2
<1>5. ReadyInv' /\ HandedInv' /\ HandedOrder'
  BY <1>1 DEF CompleteInv, ReadyInv, HandedInv, HandedOrder, Whole, Gapless, InFlight
<1>6. FlightInv'
  BY <1>1, <1>4 DEF CompleteInv, FlightInv, InFlight, Whole
<1>7. QED BY <1>5, <1>6 DEF CompleteInv

\* The payload that is handed over is the window in the buffer.
LEMMA JsonGapless ==
    ASSUME PoolInv, CompleteInv, pubPc = "publish" PROVE Gapless(json)
<1>1. /\ Whole(pubIndex) /\ Len(json) = WINDOW_SIZE
      /\ \A i \in 1 .. WINDOW_SIZE : json[i] = window[pubIndex][i - 1]
  BY DEF CompleteInv, FlightInv, InFlight
<1> SUFFICES ASSUME NEW i \in 1 .. WINDOW_SIZE - 1
             PROVE  Follows(json[i], json[i + 1])
  BY <1>1 DEF Gapless
<1>2. i - 1 \in 0 .. WINDOW_SIZE - 2 /\ i + 1 \in 1 .. WINDOW_SIZE /\ i \in 1 .. WINDOW_SIZE
      /\ (i - 1) + 1 = i /\ (i + 1) - 1 = i
  OBVIOUS
<1>3. Follows(window[pubIndex][i - 1], window[pubIndex][i])
  BY <1>1, <1>2 DEF Whole, Consecutive
<1>4. QED BY <1>1, <1>2, <1>3

\* The payload handed over is the window that was in the buffer.
LEMMA PublishContents ==
    ASSUME PoolInv, CompleteInv, Publish, UNCHANGED <<window, sampleVars>>
    PROVE  CompleteInv'
<1>1. /\ UNCHANGED <<ready, window, pubIndex, json>> /\ Frontier' = Frontier
      /\ InFlight /\ ~InFlight' /\ handed' = Append(handed, json)
  BY DEF Publish, queueVars, Frontier, NextStored, sampleVars, InFlight
<1>2. /\ Whole(pubIndex) /\ window[pubIndex][LastSlot] < Frontier
      /\ \A i \in DOMAIN ready : window[pubIndex][LastSlot] < window[ready[i]][0]
      /\ Len(json) = WINDOW_SIZE
      /\ \A i \in 1 .. WINDOW_SIZE : json[i] = window[pubIndex][i - 1]
  BY <1>1 DEF CompleteInv, FlightInv, Publish
<1>3. /\ handed \in Seq(Seq(Sample)) /\ json \in Seq(Sample) /\ Len(handed) \in Nat
      /\ DOMAIN handed = 1 .. Len(handed) /\ DOMAIN handed' = 1 .. Len(handed) + 1
      /\ Len(handed') = Len(handed) + 1
      /\ \A k \in 1 .. Len(handed) : handed'[k] = handed[k]
      /\ handed'[Len(handed) + 1] = json
  <2>1. handed \in Seq(Seq(Sample)) /\ json \in Seq(Sample)
    BY DEF PoolInv, TypeOK
  <2>2. /\ Append(handed, json) \in Seq(Seq(Sample))
        /\ Len(Append(handed, json)) = Len(handed) + 1
        /\ \A k \in 1 .. Len(handed) : Append(handed, json)[k] = handed[k]
        /\ Append(handed, json)[Len(handed) + 1] = json
    BY <2>1, AppendProperties
  <2>3. QED BY <1>1, <2>1, <2>2, LenProperties
<1>4. json[WINDOW_SIZE] = window[pubIndex][LastSlot] /\ json[1] = window[pubIndex][0]
  BY <1>2 DEF LastSlot
<1>5. Gapless(json)
  BY JsonGapless DEF Publish
<1>6. ReadyInv' /\ FlightInv'
  BY <1>1 DEF CompleteInv, ReadyInv, FlightInv, Whole
<1>7. HandedInv'
  <2> SUFFICES ASSUME NEW k \in 1 .. Len(handed) + 1
               PROVE  /\ Gapless(handed'[k]) /\ handed'[k][WINDOW_SIZE] < Frontier
                      /\ \A i \in DOMAIN ready : handed'[k][WINDOW_SIZE] < window[ready[i]][0]
    BY <1>1, <1>3 DEF HandedInv, Gapless
  <2>1. CASE k \in 1 .. Len(handed)
    BY <1>3, <2>1 DEF CompleteInv, HandedInv
  <2>2. CASE k = Len(handed) + 1
    BY <1>2, <1>3, <1>4, <1>5, <2>2
  <2>3. QED BY <1>3, <2>1, <2>2
<1>8. HandedOrder'
  <2> SUFFICES ASSUME NEW k \in 1 .. Len(handed)
               PROVE  handed'[k][WINDOW_SIZE] < handed'[k + 1][1]
    BY <1>3 DEF HandedOrder
  <2>1. CASE k = Len(handed)
    BY <1>1, <1>3, <1>4, <2>1 DEF CompleteInv, HandedInv
  <2>2. CASE k # Len(handed)
    <3>1. \A n \in Nat : \A i \in 1 .. n : i # n => i \in 1 .. n - 1 /\ i + 1 \in 1 .. n
      OBVIOUS
    <3>2. k \in 1 .. Len(handed) - 1 /\ k + 1 \in 1 .. Len(handed)
      BY <1>3, <2>2, <3>1, Zenon
    <3>3. QED BY <1>3, <3>2 DEF CompleteInv, HandedOrder
  <2>3. QED BY <2>1, <2>2
<1>9. QED BY <1>6, <1>7, <1>8 DEF CompleteInv

LEMMA PublishTaskContents == PoolInv /\ ContentsInv /\ PublishTask => ContentsInv'
<1> SUFFICES ASSUME PoolInv, ContentsInv, PublishTask PROVE ContentsInv'
  OBVIOUS
<1>1. UNCHANGED <<window, sampleVars>> /\ CompleteInv
  BY PublishTaskFrame DEF ContentsInv
<1>2. BatchInv' /\ FillInv'
  BY <1>1 DEF ContentsInv, BatchInv, FillInv, NextStored, sampleVars
<1>3. Frontier' = Frontier
  BY <1>1 DEF Frontier, NextStored, sampleVars
<1>4. ASSUME Converted PROVE CompleteInv'
  BY <1>1, <1>3, <1>4 DEF Converted, CompleteInv, ReadyInv, FlightInv, HandedInv, HandedOrder,
     Whole, Gapless, InFlight, queueVars
<1>5. ASSUME JsonTooLarge \/ Release PROVE CompleteInv'
  <2>1. UNCHANGED <<ready, handed, window>> /\ ~InFlight'
    BY <1>5 DEF JsonTooLarge, Release, InFlight
  <2>2. QED BY <1>1, <1>3, <2>1 DEF CompleteInv, ReadyInv, FlightInv, HandedInv, HandedOrder,
               Whole, Gapless
<1>6. CompleteInv'
  BY <1>1, <1>4, <1>5, ReceiveReadyContents, ConvertSampleContents, PublishContents
     DEF PublishTask
<1>7. QED BY <1>2, <1>6 DEF ContentsInv

LEMMA InitContents == PoolInit => ContentsInv
BY DEF PoolInit, ContentsInv, BatchInv, FillInv, CompleteInv, ReadyInv, FlightInv, HandedInv,
       HandedOrder, InFlight, Sample

\* What PoolInv and ContentsInv say holds together.
LEMMA NextContents == PoolInv /\ ContentsInv /\ [SampleTaskOf \/ PublishTask]_poolVars => PoolInv' /\ ContentsInv'
<1> SUFFICES ASSUME PoolInv, ContentsInv, [SampleTaskOf \/ PublishTask]_poolVars PROVE PoolInv' /\ ContentsInv'
  OBVIOUS
<1>1. CASE SampleTaskOf
  BY <1>1, SampleTaskOfAny, SampleTaskType, SampleTaskOwner, SampleTaskContents DEF PoolInv
<1>2. CASE PublishTask
  BY <1>2, PublishTaskType, PublishTaskOwner, PublishTaskContents DEF PoolInv
<1>3. CASE UNCHANGED poolVars
  <2>1. PoolInv'
    BY <1>3, PoolStays
  <2>2. BatchInv' /\ FillInv'
    BY <1>3 DEF poolVars, ContentsInv, BatchInv, FillInv, NextStored
  <2>3. Frontier' = Frontier
    BY <1>3 DEF poolVars, Frontier, NextStored
  <2>4. CompleteInv'
    BY <1>3, <2>3 DEF poolVars, ContentsInv, CompleteInv, ReadyInv, FlightInv, HandedInv,
                      HandedOrder, Whole, Gapless, InFlight
  <2>5. QED BY <2>1, <2>2, <2>4 DEF ContentsInv
<1>4. QED BY <1>1, <1>2, <1>3

\* The invariant of the pool holds in every state it can reach.
THEOREM PoolInductiveInvariant == Spec => [](PoolInv /\ ContentsInv)
<1>1. PoolInit => PoolInv /\ ContentsInv
  BY InitType, InitOwner, InitContents DEF PoolInv
<1>2. PoolInv /\ ContentsInv /\ [Next]_poolVars => PoolInv' /\ ContentsInv'
  BY NextContents, SampleTaskGives DEF PoolInv, TypeOK, Next
<1>3. QED BY <1>1, <1>2, PTL DEF Spec

(***************************************************************************)
(* Every payload handed to esp_mqtt_client_publish (app_main.c:206) is a   *)
(* gapless window, and the payloads follow one another in time, for every  *)
(* depth, window size, batch size and sample size.  The invariant relates  *)
(* the batch, the buffer being filled, the ready queue, the buffer being   *)
(* published and the payloads handed over, in the order of their samples.  *)
(***************************************************************************)
THEOREM PayloadsGapless == Spec => []HandedGapless
<1>1. PoolInv /\ ContentsInv => HandedGapless
  BY DEF ContentsInv, CompleteInv, HandedInv, HandedOrder, HandedGapless
<1>2. QED BY <1>1, PoolInductiveInvariant, PTL

----------------------------------------------------------------------------
(* The windows that are complete and not yet handed over *)

WholeWindows == [1 .. WINDOW_SIZE -> Sample]

\* The windows in the queue: the one being published, then those in the ready queue.
Ahead == IF InFlight THEN 1 ELSE 0

LEMMA ContentsType ==
    ASSUME TypeOK, NEW b \in Buffers PROVE Contents(b) \in WholeWindows
<1>1. \A i \in 1 .. WINDOW_SIZE : i - 1 \in Slots
  BY DEF Slots
<1>2. \A i \in 1 .. WINDOW_SIZE : window[b][i - 1] \in Sample
  BY <1>1 DEF TypeOK, Window
<1>3. QED BY <1>2 DEF Contents, WholeWindows

LEMMA PendingShape ==
    ASSUME TypeOK
    PROVE  /\ Pending \in Seq(WholeWindows) /\ Len(Pending) = Ahead + Len(ready)
           /\ InFlight => Pending[1] = Contents(pubIndex)
           /\ \A i \in 1 .. Len(ready) : Pending[Ahead + i] = Contents(ready[i])
<1> DEFINE a == IF pubPc \in {"convert", "publish"} THEN <<Contents(pubIndex)>> ELSE <<>>
           b == [i \in 1 .. Len(ready) |-> Contents(ready[i])]
<1>1. ready \in Seq(Buffers) /\ Len(ready) \in Nat /\ pubIndex \in Buffers
      /\ \A i \in 1 .. Len(ready) : ready[i] \in Buffers
  BY DEF TypeOK
<1>2. Contents(pubIndex) \in WholeWindows
  BY <1>1, ContentsType
<1>3. a \in Seq(WholeWindows) /\ Len(a) = Ahead /\ (InFlight => a[1] = Contents(pubIndex))
  BY <1>2 DEF Ahead, InFlight
<1>4. \A i \in 1 .. Len(ready) : Contents(ready[i]) \in WholeWindows
  BY <1>1, ContentsType
<1>5. b \in Seq(WholeWindows) /\ Len(b) = Len(ready)
      /\ \A i \in 1 .. Len(ready) : b[i] = Contents(ready[i])
  BY <1>1, <1>4
<1>6. Pending = a \o b
  BY DEF Pending
<1> HIDE DEF a, b
<1>7. /\ Pending \in Seq(WholeWindows) /\ Len(Pending) = Len(a) + Len(b)
      /\ \A i \in 1 .. Len(a) + Len(b) :
             Pending[i] = IF i <= Len(a) THEN a[i] ELSE b[i - Len(a)]
  BY <1>3, <1>5, <1>6, ConcatProperties
<1>8. ASSUME NEW i \in 1 .. Len(ready) PROVE Pending[Ahead + i] = Contents(ready[i])
  <2>1. /\ Ahead + i \in 1 .. Len(a) + Len(b) /\ ~ (Ahead + i <= Len(a))
        /\ (Ahead + i) - Len(a) = i
    BY <1>1, <1>3, <1>5 DEF Ahead
  <2>2. QED BY <1>5, <1>7, <2>1
<1>9. InFlight => Pending[1] = Contents(pubIndex)
  BY <1>1, <1>3, <1>5, <1>7 DEF Ahead
<1>10. QED BY <1>3, <1>5, <1>7, <1>8, <1>9

\* Two states hold the same windows if the same buffers, with the same contents, are in order.
LEMMA PendingSame ==
    ASSUME TypeOK, TypeOK', UNCHANGED <<ready, pubIndex>>, InFlight' = InFlight,
           \A b \in Buffers \ Filling : window'[b] = window[b], OneOwner
    PROVE  Pending' = Pending
<1>1. \A b \in Elements(ready) : b \in Buffers /\ window'[b] = window[b]
  BY DEF OneOwner, TypeOK, Elements
<1>2. ASSUME NEW i \in 1 .. Len(ready) PROVE Contents(ready[i])' = Contents(ready[i])
  <2>1. ready[i] \in Elements(ready)
    BY DEF Elements, TypeOK
  <2>2. window'[ready'[i]] = window[ready[i]]
    BY <1>1, <2>1
  <2>3. QED BY <2>2 DEF Contents
<1>3. InFlight => Contents(pubIndex)' = Contents(pubIndex)
  BY DEF OneOwner, Publishing, InFlight, Contents, TypeOK
<1>4. QED BY <1>2, <1>3 DEF Pending, InFlight

\* The oldest window leaves: to the client, or because its JSON did not fit.
LEMMA PendingLeaves ==
    ASSUME PoolInv, TypeOK', InFlight, ~ InFlight', UNCHANGED <<ready, window>>
    PROVE  Pending # <<>> /\ Head(Pending) = Contents(pubIndex) /\ Pending' = Tail(Pending)
<1>1. /\ Pending \in Seq(WholeWindows) /\ Len(Pending) = 1 + Len(ready) /\ Len(ready) \in Nat
      /\ Pending[1] = Contents(pubIndex)
      /\ \A i \in 1 .. Len(ready) : Pending[1 + i] = Contents(ready[i])
  BY PendingShape DEF PoolInv, TypeOK, Ahead
<1>3. Pending' = [i \in 1 .. Len(ready) |-> Contents(ready[i])]
  BY DEF Pending, InFlight, Contents
<1>4. Pending # <<>> /\ Head(Pending) = Contents(pubIndex)
  BY <1>1
<1>5. Tail(Pending) \in Seq(WholeWindows) /\ Len(Tail(Pending)) = Len(ready)
      /\ \A i \in 1 .. Len(ready) : Tail(Pending)[i] = Contents(ready[i])
  <2>1. Tail(Pending) \in Seq(WholeWindows) /\ Len(Tail(Pending)) = Len(Pending) - 1
        /\ \A i \in 1 .. Len(Tail(Pending)) : Tail(Pending)[i] = Pending[i + 1]
    BY <1>1, <1>4, HeadTailProperties
  <2>2. \A i \in 1 .. Len(ready) : i + 1 = 1 + i
    BY <1>1
  <2>3. QED BY <1>1, <2>1, <2>2
<1>6. QED BY <1>3, <1>4, <1>5, LenProperties

\* publish_task takes the next window: it stays the oldest one.
LEMMA PendingTaken ==
    ASSUME PoolInv, TypeOK', ReceiveReady PROVE Pending' = Pending
<1>1. /\ ready # <<>> /\ ready \in Seq(Buffers) /\ pubIndex' = Head(ready) /\ ready' = Tail(ready)
      /\ window' = window /\ ~ InFlight /\ InFlight'
  BY DEF ReceiveReady, InFlight, PoolInv, TypeOK
<1>2. /\ Pending \in Seq(WholeWindows) /\ Len(Pending) = Len(ready) /\ Len(ready) \in Nat \ {0}
      /\ \A i \in 1 .. Len(ready) : Pending[i] = Contents(ready[i])
  BY <1>1, PendingShape, EmptySeq DEF PoolInv, Ahead
<1>3. /\ Len(ready') = Len(ready) - 1 /\ pubIndex' = ready[1]
      /\ \A i \in 1 .. Len(ready') : ready'[i] = ready[i + 1]
  BY <1>1, <1>2, HeadTailProperties
<1>4. \A b : Contents(b)' = Contents(b)
  BY <1>1 DEF Contents
<1>5. /\ Pending' \in Seq(WholeWindows) /\ Len(Pending') = 1 + Len(ready')
      /\ Pending'[1] = Contents(ready[1])
      /\ \A i \in 1 .. Len(ready') : Pending'[1 + i] = Contents(ready'[i])
  <2>1. (/\ Pending \in Seq(WholeWindows) /\ Len(Pending) = Ahead + Len(ready)
         /\ InFlight => Pending[1] = Contents(pubIndex)
         /\ \A i \in 1 .. Len(ready) : Pending[Ahead + i] = Contents(ready[i]))'
    BY PendingShape, PTL
  <2>2. QED BY <1>1, <1>3, <1>4, <2>1 DEF Ahead
<1>6. ASSUME NEW i \in 1 .. Len(Pending) PROVE Pending'[i] = Pending[i]
  <2>1. CASE i = 1
    BY <1>2, <1>5, <2>1
  <2>2. CASE i # 1
    <3>1. i - 1 \in 1 .. Len(ready') /\ 1 + (i - 1) = i /\ (i - 1) + 1 = i
      BY <1>2, <1>3, <2>2
    <3>2. QED BY <1>2, <1>3, <1>5, <3>1, ZenonT(60)
  <2>3. QED BY <2>1, <2>2
<1>7. QED BY <1>2, <1>3, <1>5, <1>6, SeqEqual

\* A window enters complete, behind the others, and the queue has room for it.
LEMMA PendingEnters ==
    ASSUME PoolInv, ContentsInv, TypeOK', SubmitWindow
    PROVE  Stream!Complete(Contents(active))
<1> DEFINE w == Contents(active)
           n == Len(Pending)
<1>1. /\ active \in Buffers /\ active # NoBuffer /\ next = WINDOW_SIZE /\ next > 0
      /\ active \notin Elements(ready) /\ active \notin Publishing
      /\ UNCHANGED <<window, pubPc, pubIndex, handed>>
  BY DEF SubmitWindow, WindowFull, TypeOK, OneOwner, Filling, PoolInv, publishVars
<1>2. /\ ready \in Seq(Buffers) /\ NoDuplicates(ready) /\ Len(ready) \in Nat
      /\ DOMAIN ready = 1 .. Len(ready)
      /\ \A i \in DOMAIN ready : ready[i] \in Buffers
  BY DEF PoolInv, TypeOK, OneOwner
<1>3. /\ ready' = Append(ready, active) /\ Len(ready') = Len(ready) + 1
      /\ NoDuplicates(ready') /\ Elements(ready') = Elements(ready) \cup {active}
      /\ ready' \in Seq(Buffers)
      /\ \A i \in 1 .. Len(ready) : ready'[i] = ready[i]
      /\ ready'[Len(ready) + 1] = active
  <2>1. ready' = Append(ready, active) /\ ready' \in Seq(Buffers) /\ NoDuplicates(ready')
        /\ Elements(ready') = Elements(ready) \cup {active}
    BY <1>1, <1>2, QueueSendNew DEF SubmitWindow
  <2>2. QED BY <1>1, <1>2, <2>1, AppendProperties
<1>4. /\ Pending \in Seq(WholeWindows) /\ n = Ahead + Len(ready) /\ n \in Nat
      /\ InFlight => Pending[1] = Contents(pubIndex)
      /\ \A i \in 1 .. Len(ready) : Pending[Ahead + i] = Contents(ready[i])
      /\ Ahead \in {0, 1} /\ (Ahead = 1 <=> InFlight)
  BY <1>2, PendingShape DEF PoolInv, Ahead
<1> HIDE DEF n
<1>5. n < WINDOW_QUEUE_DEPTH
  <2>1. CASE InFlight
    <3>1. pubIndex \in Buffers /\ pubIndex \notin Elements(ready')
      BY <1>1, <1>3, <2>1 DEF PoolInv, TypeOK, OneOwner, Publishing, InFlight
    <3>2. Append(ready', pubIndex) \in Seq(Buffers) /\ NoDuplicates(Append(ready', pubIndex))
      BY <1>3, <3>1, AppendNew
    <3>3. Len(Append(ready', pubIndex)) = Len(ready) + 2
      BY <1>2, <1>3, <3>1, AppendProperties
    <3>4. Len(ready) + 2 <= WINDOW_QUEUE_DEPTH
      BY <3>2, <3>3, PoolBound
    <3>5. QED BY <1>2, <1>4, <2>1, <3>4
  <2>2. CASE ~ InFlight
    <3>1. Len(ready) + 1 <= WINDOW_QUEUE_DEPTH
      BY <1>3, PoolBound
    <3>2. QED BY <1>2, <1>4, <2>2, <3>1
  <2>3. QED BY <2>1, <2>2
<1>6. w \in WholeWindows /\ w[1] = window[active][0] /\ Frontier = window[active][0]
  <2>1. w \in WholeWindows
    BY <1>1, ContentsType DEF PoolInv
  <2>2. 1 \in 1 .. WINDOW_SIZE /\ 1 - 1 = 0
    OBVIOUS
  <2>3. QED BY <1>1, <2>1, <2>2 DEF Contents, Frontier
<1>7. Stream!Whole(w)
  <2>1. \A i \in 0 .. WINDOW_SIZE - 2 : Follows(window[active][i], window[active][i + 1])
    BY <1>1 DEF ContentsInv, FillInv
  <2>2. ASSUME NEW i \in 1 .. WINDOW_SIZE - 1 PROVE Follows(w[i], w[i + 1])
    <3>1. i - 1 \in 0 .. WINDOW_SIZE - 2 /\ (i - 1) + 1 = i /\ (i + 1) - 1 = i
          /\ i \in 1 .. WINDOW_SIZE /\ i + 1 \in 1 .. WINDOW_SIZE
      OBVIOUS
    <3>2. w[i] = window[active][i - 1] /\ w[i + 1] = window[active][i]
      BY <3>1 DEF Contents
    <3>3. QED BY <2>1, <3>1, <3>2
  <2>3. QED BY <2>2 DEF Stream!Whole, Stream!Follows, Follows
<1>8. ASSUME Pending # <<>> PROVE Stream!After(Pending[n], w)
  <2>1. \A b : Contents(b)[WINDOW_SIZE] = window[b][LastSlot]
    BY DEF Contents, LastSlot
  <2>2. CASE ready # <<>>
    <3>1. Len(ready) \in 1 .. Len(ready) /\ Pending[n] = Contents(ready[Len(ready)])
      BY <1>2, <1>4, <2>2
    <3>2. window[ready[Len(ready)]][LastSlot] < Frontier
      BY <1>2, <3>1 DEF ContentsInv, CompleteInv, ReadyInv
    <3>3. QED BY <1>6, <2>1, <3>1, <3>2 DEF Stream!After
  <2>3. CASE ready = <<>>
    <3>1. Len(ready) = 0
      BY <2>3
    <3>2. n # 0
      BY <1>4, <1>8 DEF n
    <3>3. InFlight /\ n = 1
      BY <1>4, <3>1, <3>2
    <3>4. window[pubIndex][LastSlot] < Frontier
      BY <3>3 DEF ContentsInv, CompleteInv, FlightInv
    <3>5. QED BY <1>4, <1>6, <2>1, <3>3, <3>4 DEF Stream!After
  <2>4. QED BY <2>2, <2>3
<1>9. ASSUME handed # <<>> PROVE Stream!After(handed[Len(handed)], w)
  <2>1. Len(handed) \in DOMAIN handed
    BY <1>9 DEF PoolInv, TypeOK
  <2>2. handed[Len(handed)][WINDOW_SIZE] < Frontier
    BY <2>1 DEF ContentsInv, CompleteInv, HandedInv
  <2>3. QED BY <1>6, <2>2 DEF Stream!After
<1>10. Pending' = Append(Pending, w)
  <2>1. (/\ Pending \in Seq(WholeWindows) /\ Len(Pending) = Ahead + Len(ready)
         /\ InFlight => Pending[1] = Contents(pubIndex)
         /\ \A i \in 1 .. Len(ready) : Pending[Ahead + i] = Contents(ready[i]))'
    BY PendingShape, PTL
  <2>2. Ahead' = Ahead /\ InFlight' = InFlight /\ \A b : Contents(b)' = Contents(b)
    BY <1>1 DEF Ahead, InFlight, Contents
  <2>3. /\ Pending' \in Seq(WholeWindows) /\ Len(Pending') = n + 1
        /\ InFlight => Pending'[1] = Contents(pubIndex)
        /\ \A i \in 1 .. Len(ready) + 1 : Pending'[Ahead + i] = Contents(ready'[i])
    BY <1>1, <1>2, <1>3, <1>4, <2>1, <2>2
  <2>4. /\ Append(Pending, w) \in Seq(WholeWindows) /\ Len(Append(Pending, w)) = n + 1
        /\ \A i \in 1 .. n : Append(Pending, w)[i] = Pending[i]
        /\ Append(Pending, w)[n + 1] = w
    BY <1>4, <1>6, AppendProperties DEF n
  <2> HIDE DEF w
  <2>5. ASSUME NEW i \in 1 .. n + 1 PROVE Pending'[i] = Append(Pending, w)[i]
    <3>1. CASE i = 1 /\ InFlight
      BY <1>2, <1>4, <2>3, <2>4, <3>1
    <3>2. CASE i = n + 1
      <4>1. Len(ready) + 1 \in 1 .. Len(ready) + 1 /\ Ahead + (Len(ready) + 1) = n + 1
        BY <1>2, <1>4
      <4>2. QED BY <1>3, <2>3, <2>4, <3>2, <4>1 DEF w
    <3>3. CASE ~ (i = 1 /\ InFlight) /\ i # n + 1
      <4>1. PICK k : k = i - Ahead
        OBVIOUS
      <4>2. k \in 1 .. Len(ready) /\ k \in 1 .. Len(ready) + 1 /\ Ahead + k = i /\ i \in 1 .. n
        BY <1>2, <1>4, <3>3, <4>1
      <4>3. QED BY <1>3, <1>4, <2>3, <2>4, <4>2
    <3>4. QED BY <3>1, <3>2, <3>3
  <2>6. QED BY <2>3, <2>4, <2>5, SeqEqual
<1>11. QED BY <1>1, <1>5, <1>7, <1>8, <1>9, <1>10 DEF Stream!Complete, n

\* sample_task only adds a window when it submits one; publish_task copies before it hands over.
LEMMA PendingKept ==
    ASSUME PoolInv, TypeOK',
           \/ SampleTaskOf /\ ~ SubmitWindow
           \/ ConvertSample \/ Converted \/ Release \/ UNCHANGED poolVars
    PROVE  UNCHANGED <<Pending, handed>>
<1>1. OneOwner /\ TypeOK
  BY DEF PoolInv
<1>2. /\ UNCHANGED <<ready, pubIndex, handed>> /\ InFlight' = InFlight
      /\ \A b \in Buffers \ Filling : window'[b] = window[b]
  BY <1>1 DEF TypeOK, SampleTaskOf, Store, Wake, DrainSome, ReadOk, DrainLost,
     ReadOverflow, ReadError, TakeBuffer, DropSample, StoreSample, BatchDone, ConvertSample,
     Converted, Release, Filling, InFlight, queueVars, sampleVars, publishVars, poolVars
<1>3. Pending' = Pending
  BY <1>1, <1>2, PendingSame
<1>4. QED BY <1>2, <1>3

\* The payload is the oldest window, whole.
LEMMA PublishHands ==
    ASSUME PoolInv, ContentsInv, TypeOK', Publish
    PROVE  /\ Pending # <<>> /\ Pending' = Tail(Pending)
           /\ handed' = Append(handed, Head(Pending))
<1>1. /\ InFlight /\ ~ InFlight' /\ UNCHANGED <<ready, window>>
      /\ handed' = Append(handed, json)
  BY DEF Publish, InFlight, queueVars
<1>2. /\ Len(json) = WINDOW_SIZE /\ json \in Seq(Sample)
      /\ \A i \in 1 .. Len(json) : json[i] = window[pubIndex][i - 1]
  BY DEF ContentsInv, CompleteInv, FlightInv, InFlight, Publish, PoolInv, TypeOK
<1>3. json = [i \in 1 .. WINDOW_SIZE |-> json[i]]
  BY <1>2, LenProperties
<1>4. json = Contents(pubIndex)
  BY <1>2, <1>3 DEF Contents
<1>5. QED BY <1>1, <1>4, PendingLeaves

----------------------------------------------------------------------------
(* No sample goes missing in silence *)

\* Every window so far: those handed to the client, then those in the queue.
AllWindows == handed \o Pending

\* Until a drop is logged they leave no gap, up to the window being filled.
ChainInv ==
    ~ dropped =>
        /\ \A k \in 1 .. Len(AllWindows) - 1 :
               Follows(AllWindows[k][WINDOW_SIZE], AllWindows[k + 1][1])
        /\ AllWindows # <<>> => Follows(AllWindows[Len(AllWindows)][WINDOW_SIZE], Frontier)

LEMMA InitChain == PoolInit => ChainInv
<1> SUFFICES ASSUME PoolInit PROVE AllWindows = <<>>
  BY DEF ChainInv
<1>1. Pending = <<>> /\ handed = <<>>
  BY DEF PoolInit, Pending
<1>2. QED BY <1>1 DEF AllWindows

\* A window, whether as a payload or as the contents of a buffer.
AnyWindow == Seq(Sample) \cup WholeWindows

LEMMA WindowsType ==
    ASSUME TypeOK
    PROVE  /\ handed \in Seq(AnyWindow) /\ Pending \in Seq(AnyWindow)
           /\ AllWindows \in Seq(AnyWindow)
           /\ Len(AllWindows) = Len(handed) + Len(Pending)
           /\ \A k \in 1 .. Len(handed) : AllWindows[k] = handed[k]
<1>1. handed \in Seq(AnyWindow)
  <2>1. handed \in Seq(Seq(Sample)) /\ Seq(Sample) \subseteq AnyWindow
    BY DEF TypeOK, AnyWindow
  <2>2. QED BY <2>1
<1>2. Pending \in Seq(AnyWindow)
  <2>1. Pending \in Seq(WholeWindows) /\ WholeWindows \subseteq AnyWindow
    BY PendingShape DEF AnyWindow
  <2>2. QED BY <2>1
<1>3. QED BY <1>1, <1>2, ConcatProperties DEF AllWindows

\* Two states with the same windows, and the same sample to come.
LEMMA ChainSame ==
    ASSUME ChainInv, AllWindows' = AllWindows, dropped => dropped',
           ~ dropped' => Frontier' = Frontier
    PROVE  ChainInv'
BY DEF ChainInv

\* publish_task moves the oldest window from one end of the chain's middle to the other.
LEMMA HandOver ==
    ASSUME NEW W, NEW h \in Seq(W), NEW p \in Seq(W), p # <<>>
    PROVE  Append(h, Head(p)) \o Tail(p) = h \o p
<1>1. /\ Head(p) \in W /\ Tail(p) \in Seq(W) /\ <<Head(p)>> \in Seq(W)
      /\ <<Head(p)>> \o Tail(p) = p
  BY HeadTailProperties
<1>2. Append(h, Head(p)) = h \o <<Head(p)>>
  BY <1>1, AppendIsConcat
<1>3. (h \o <<Head(p)>>) \o Tail(p) = h \o (<<Head(p)>> \o Tail(p))
  BY <1>1, ConcatAssociative
<1>4. QED BY <1>1, <1>2, <1>3, Zenon

\* The window submitted starts with the sample that follows the last window's.
LEMMA SubmitChain ==
    ASSUME PoolInv, ContentsInv, ChainInv, TypeOK', SubmitWindow
    PROVE  ChainInv'
<1> DEFINE w == Contents(active)
           n == Len(AllWindows)
<1>1. /\ active \in Buffers /\ active # NoBuffer /\ next = WINDOW_SIZE /\ active' = NoBuffer
      /\ UNCHANGED <<window, batch, nextRead, dropped>>
  BY DEF SubmitWindow, WindowFull, TypeOK, PoolInv
<1>2. Pending' = Append(Pending, w) /\ handed' = handed
  BY PendingEnters DEF Stream!Complete
<1>3. w \in AnyWindow /\ w[1] = Frontier /\ Follows(w[WINDOW_SIZE], Frontier')
  <2>1. Frontier = window[active][0] /\ Frontier' = NextStored
    BY <1>1 DEF Frontier, NextStored
  <2>2. Follows(window[active][WINDOW_SIZE - 1], NextStored)
    BY <1>1 DEF ContentsInv, FillInv
  <2>3. w[1] = window[active][0] /\ w[WINDOW_SIZE] = window[active][WINDOW_SIZE - 1]
    BY DEF Contents
  <2>4. w \in AnyWindow
    BY <1>1, ContentsType DEF PoolInv, AnyWindow
  <2>5. QED BY <2>1, <2>2, <2>3, <2>4
<1>4. /\ handed \in Seq(AnyWindow) /\ Pending \in Seq(AnyWindow)
      /\ AllWindows \in Seq(AnyWindow)
  BY WindowsType DEF PoolInv
<1> HIDE DEF w
<1>5. AllWindows' = Append(AllWindows, w)
  <2>1. /\ Append(Pending, w) = Pending \o <<w>> /\ <<w>> \in Seq(AnyWindow)
        /\ Append(AllWindows, w) = AllWindows \o <<w>>
    BY <1>3, <1>4, AppendIsConcat
  <2>2. handed \o (Pending \o <<w>>) = (handed \o Pending) \o <<w>>
    BY <1>4, <2>1, ConcatAssociative
  <2>3. AllWindows' = handed \o (Pending \o <<w>>)
    BY <1>2, <2>1, Zenon DEF AllWindows
  <2>4. QED BY <2>1, <2>2, <2>3, Zenon DEF AllWindows
<1>6. /\ n \in Nat /\ Len(AllWindows') = n + 1 /\ AllWindows'[n + 1] = w
      /\ \A k \in 1 .. n : AllWindows'[k] = AllWindows[k]
  BY <1>3, <1>4, <1>5, AppendProperties
<1>7. AllWindows # <<>> <=> n # 0
  BY <1>4, EmptySeq
<1> HIDE DEF n
<1> SUFFICES ASSUME ~ dropped
             PROVE  /\ \A k \in 1 .. n :
                           Follows(AllWindows'[k][WINDOW_SIZE], AllWindows'[k + 1][1])
                    /\ Follows(AllWindows'[n + 1][WINDOW_SIZE], Frontier')
  BY <1>1, <1>6 DEF ChainInv
<1>8. ASSUME NEW k \in 1 .. n
      PROVE  Follows(AllWindows'[k][WINDOW_SIZE], AllWindows'[k + 1][1])
  <2>1. CASE k = n
    BY <1>3, <1>6, <1>7, <2>1 DEF ChainInv, n
  <2>2. CASE k # n
    <3>1. k \in 1 .. n - 1 /\ k + 1 \in 1 .. n
      BY <1>6, <2>2
    <3>2. QED BY <1>6, <3>1 DEF ChainInv, n
  <2>3. QED BY <2>1, <2>2
<1>9. QED BY <1>3, <1>6, <1>8

LEMMA SampleTaskChain ==
    ASSUME PoolInv, ContentsInv, ChainInv, TypeOK', SampleTaskOf PROVE ChainInv'
<1>1. CASE SubmitWindow
  BY <1>1, SubmitChain
<1>2. CASE ~ SubmitWindow
  <2>1. UNCHANGED <<Pending, handed>>
    BY <1>2, PendingKept
  <2>2. ~ dropped' => Frontier' = Frontier
    BY <1>2, SampleTaskFill DEF PoolInv, ContentsInv
  <2>3. dropped => dropped'
    BY <1>2 DEF SampleTaskOf, Store, Wake, DrainSome, ReadOk, DrainLost,
       ReadOverflow, ReadError, TakeBuffer, DropSample, StoreSample, BatchDone
  <2>4. QED BY <2>1, <2>2, <2>3, ChainSame DEF AllWindows
<1>3. QED BY <1>1, <1>2

LEMMA PublishTaskChain ==
    ASSUME PoolInv, ContentsInv, ChainInv, TypeOK', PublishTask PROVE ChainInv'
<1>1. Frontier' = Frontier
  BY PublishTaskFrame DEF Frontier, NextStored, sampleVars
<1>2. CASE JsonTooLarge
  BY <1>2 DEF JsonTooLarge, ChainInv
<1>3. ASSUME ~ JsonTooLarge PROVE AllWindows' = AllWindows
  <2>1. CASE ConvertSample \/ Converted \/ Release
    BY <2>1, PendingKept DEF AllWindows
  <2>2. CASE ReceiveReady
    BY <2>2, PendingTaken DEF AllWindows, ReceiveReady
  <2>3. CASE Publish
    <3>1. handed \in Seq(AnyWindow) /\ Pending \in Seq(AnyWindow)
      BY WindowsType DEF PoolInv
    <3>2. Append(handed, Head(Pending)) \o Tail(Pending) = handed \o Pending
      BY <2>3, <3>1, PublishHands, HandOver
    <3>3. QED BY <2>3, <3>2, PublishHands DEF AllWindows
  <2>4. QED BY <1>3, <2>1, <2>2, <2>3 DEF PublishTask
<1>4. ASSUME ~ JsonTooLarge PROVE dropped' = dropped
  BY <1>4 DEF PublishTask, ConvertSample, Converted, Release, ReceiveReady, Publish
<1>5. QED BY <1>1, <1>2, <1>3, <1>4, ChainSame

LEMMA NextChain ==
    PoolInv /\ ContentsInv /\ ChainInv /\ TypeOK' /\ [SampleTaskOf \/ PublishTask]_poolVars => ChainInv'
<1> SUFFICES ASSUME PoolInv, ContentsInv, ChainInv, TypeOK', UNCHANGED poolVars PROVE ChainInv'
  BY SampleTaskChain, PublishTaskChain
<1>1. UNCHANGED <<Pending, handed>>
  BY PendingKept
<1>2. Frontier' = Frontier /\ dropped' = dropped
  BY DEF Frontier, NextStored, poolVars
<1>3. QED BY <1>1, <1>2, ChainSame DEF AllWindows

\* What is handed is the front of the chain.
LEMMA ChainLogged == TypeOK /\ ChainInv => DropsAreLogged
<1> SUFFICES ASSUME TypeOK, ChainInv, ~ dropped, NEW k \in 1 .. Len(handed) - 1
             PROVE  Follows(handed[k][WINDOW_SIZE], handed[k + 1][1])
  BY DEF DropsAreLogged
<1>1. /\ Len(handed) \in Nat /\ Len(Pending) \in Nat
      /\ Len(AllWindows) = Len(handed) + Len(Pending)
      /\ \A i \in 1 .. Len(handed) : AllWindows[i] = handed[i]
  BY WindowsType
<1>2. k \in 1 .. Len(AllWindows) - 1 /\ k \in 1 .. Len(handed) /\ k + 1 \in 1 .. Len(handed)
  BY <1>1
<1>3. QED BY <1>1, <1>2 DEF ChainInv

(***************************************************************************)
(* As long as the firmware has logged no drop, each window handed to the   *)
(* MQTT client starts with the sample that follows the last one of the     *)
(* window before it (app_main.c:178-301).                                  *)
(***************************************************************************)
THEOREM NoGapUnlogged == Spec => []DropsAreLogged
<1>1. PoolInit => ChainInv
  BY InitChain
<1>2. PoolInv /\ ContentsInv /\ ChainInv /\ TypeOK' /\ [Next]_poolVars => ChainInv'
  BY NextChain, SampleTaskGives DEF PoolInv, TypeOK, Next
<1>3. PoolInv /\ ChainInv => DropsAreLogged
  BY ChainLogged DEF PoolInv
<1>4. QED BY <1>1, <1>2, <1>3, PoolInductiveInvariant, TypeCorrect, PTL DEF Spec

----------------------------------------------------------------------------
(* The pool implements a queue of whole windows *)

InRange == 0 .. MaxSample

\* No sample is beyond the ones of the model.
RangeInv == nextRead \in InRange /\ SamplesIn(InRange)

LEMMA InitRange == PoolInit => RangeInv
BY DEF PoolInit, RangeInv, SamplesIn, InRange

LEMMA NextRange == TypeOK /\ RangeInv /\ [Next]_poolVars => RangeInv'
<1> SUFFICES ASSUME TypeOK, RangeInv, [Next]_poolVars PROVE RangeInv'
  OBVIOUS
<1>1. CASE DrainOk
  <2>1. PICK n \in 0 .. FIFO_DRAIN_BATCH :
             nextRead + n * SampleBytes <= MaxSample /\ ReadOk(NextSamples(n))
    BY <1>1 DEF DrainOk
  <2>2. ASSUME NEW i \in 1 .. n
        PROVE  /\ nextRead + (i - 1) * SampleBytes \in InRange
               /\ (nextRead + (i - 1) * SampleBytes) + SampleBytes \in InRange
    <3>1. /\ (i - 1) * SampleBytes \in Nat /\ (n - i) * SampleBytes \in Nat
          /\ n * SampleBytes = (i - 1) * SampleBytes + SampleBytes + (n - i) * SampleBytes
      OBVIOUS
    <3>2. PICK here \in Nat, rest \in Nat, all \in Nat :
              /\ here = (i - 1) * SampleBytes /\ rest = (n - i) * SampleBytes
              /\ all = n * SampleBytes
      BY <3>1
    <3>3. all = here + SampleBytes + rest /\ nextRead + all <= MaxSample
      BY <2>1, <3>1, <3>2, Zenon
    <3>4. nextRead + here \in InRange /\ (nextRead + here) + SampleBytes \in InRange
      BY <3>3 DEF InRange, RangeInv
    <3>5. QED BY <3>2, <3>4, Zenon
  <2> DEFINE samples == NextSamples(n)
  <2>3. \A i \in 1 .. n : samples[i] \in InRange /\ samples[i] + SampleBytes \in InRange
    BY <2>2, Zenon DEF NextSamples
  <2>4. samples \in Seq(InRange) /\ Len(samples) = n /\ (samples # <<>> => n \in 1 .. n)
    <3>1. n \in Nat /\ samples = [i \in 1 .. n |-> samples[i]]
      BY DEF NextSamples
    <3> HIDE DEF samples
    <3>2. QED BY <2>3, <3>1
  <2>5. nextRead' \in InRange /\ SampleTaskAny(InRange)
    <3> HIDE DEF samples
    <3>1. ReadOk(samples)
      BY <2>1 DEF samples
    <3>2. SampleTaskAny(InRange)
      BY <2>4, <3>1 DEF SampleTaskAny
    <3>3. QED BY <2>3, <2>4, <3>1, <3>2 DEF ReadOk, RangeInv
  <2>6. QED BY <2>5, SamplesStay DEF RangeInv
<1>2. CASE DrainOverflow
  <2>1. PICK lost \in 1 .. FIFO_DRAIN_BATCH :
             /\ nextRead + lost * SampleBytes <= MaxSample
             /\ ReadOverflow /\ nextRead' = nextRead + lost * SampleBytes
    BY <1>2 DEF DrainOverflow
  <2>2. PICK d \in Nat : d = lost * SampleBytes
    BY NextStep
  <2>3. nextRead + d <= MaxSample /\ nextRead' = nextRead + d
    BY <2>1, <2>2, Zenon
  <2>4. nextRead' \in InRange
    BY <2>3 DEF InRange, RangeInv
  <2>5. SampleTaskAny(InRange)
    BY <2>1, <2>4 DEF SampleTaskAny, InRange, Sample
  <2>6. QED BY <2>4, <2>5, SamplesStay DEF RangeInv
<1>3. CASE \/ Wake \/ ReadError \/ Store \/ PublishTask \/ UNCHANGED poolVars
  <2>1. nextRead' = nextRead
    BY <1>3, PublishTaskFrame DEF Wake, ReadError, Store, TakeBuffer, DropSample, StoreSample,
       SubmitWindow, BatchDone, poolVars, sampleVars
  <2>2. SamplesIn(InRange)'
    BY <1>3, SamplesStay DEF SampleTaskAny, RangeInv
  <2>3. QED BY <2>1, <2>2 DEF RangeInv
<1>4. QED BY <1>1, <1>2, <1>3 DEF Next, SampleTask

LEMMA ContentsInRange ==
    ASSUME RangeInv, NEW b \in Buffers PROVE Contents(b) \in [1 .. WINDOW_SIZE -> InRange]
<1>1. \A i \in 1 .. WINDOW_SIZE : i - 1 \in Slots
  BY DEF Slots
<1>2. \A i \in 1 .. WINDOW_SIZE : window[b][i - 1] \in InRange
  BY <1>1 DEF RangeInv, SamplesIn
<1>3. QED BY <1>2 DEF Contents

LEMMA StreamStep ==
    ASSUME PoolInv, ContentsInv, RangeInv, TypeOK', RangeInv', [Next]_poolVars
    PROVE  [Stream!Next]_(Stream!vars)
<1>1. OneOwner /\ TypeOK
  BY DEF PoolInv
\* The steps that only sample_task, or a copy into the JSON, can see.
<1>2. ASSUME \/ SampleTask /\ ~ SubmitWindow
             \/ ConvertSample \/ Converted \/ Release \/ UNCHANGED poolVars
      PROVE  UNCHANGED Stream!vars
  <2>1. SampleTask => SampleTaskOf
    BY <1>1, SampleTaskGives DEF TypeOK
  <2>2. QED BY <1>2, <2>1, PendingKept DEF Stream!vars
<1>3. CASE SubmitWindow
  <2>1. Stream!Complete(Contents(active))
    BY <1>3, PendingEnters
  <2>2. Contents(active) \in [1 .. WINDOW_SIZE -> InRange]
    BY <1>1, <1>3, ContentsInRange DEF SubmitWindow, WindowFull, TypeOK
  <2>3. QED BY <2>1, <2>2 DEF Stream!Next, InRange
<1>4. CASE ReceiveReady
  <2>1. Pending' = Pending
    BY <1>4, PendingTaken
  <2>2. QED BY <1>4, <2>1 DEF ReceiveReady, Stream!vars
<1>5. CASE JsonTooLarge
  <2>1. InFlight /\ ~ InFlight' /\ UNCHANGED <<ready, window, handed>>
    BY <1>5 DEF JsonTooLarge, InFlight
  <2>2. QED BY <2>1, PendingLeaves DEF Stream!Next, Stream!Discard
<1>6. CASE Publish
  BY <1>6, PublishHands DEF Stream!Next, Stream!Deliver
<1>7. QED BY <1>2, <1>3, <1>4, <1>5, <1>6 DEF Next, PublishTask

(***************************************************************************)
(* The two tasks of app_main.c:178-301, which share their buffers without  *)
(* a lock and copy them sample by sample, implement an atomic bounded queue*)
(* of whole windows: a window enters complete, in the order of its samples,*)
(* and leaves unchanged, in order, at most once.                           *)
(***************************************************************************)
THEOREM PoolImplementsStream == Spec => ImplementsStream
<1>1. PoolInit => Stream!Init /\ RangeInv /\ TypeOK
  <2>1. ASSUME PoolInit PROVE Stream!Init
    <3>1. Pending = <<>>
      BY <2>1 DEF PoolInit, Pending
    <3>2. QED BY <2>1, <3>1 DEF PoolInit, Stream!Init
  <2>2. QED BY <2>1, InitRange, InitType
<1>2. Spec => []RangeInv
  <2>1. TypeOK /\ RangeInv /\ [Next]_poolVars => RangeInv'
    BY NextRange
  <2>2. QED BY <1>1, <2>1, TypeCorrect, PTL DEF Spec
<1>3. /\ PoolInv /\ ContentsInv /\ RangeInv /\ TypeOK' /\ RangeInv' /\ [Next]_poolVars
      => [Stream!Next]_(Stream!vars)
  BY StreamStep
<1>4. QED BY <1>1, <1>2, <1>3, PoolInductiveInvariant, TypeCorrect, PTL
          DEF Spec, ImplementsStream, Stream!Spec

----------------------------------------------------------------------------
(* Induction, and the loop of outbox_delete_expired *)

\* A set of naturals with 0 and with the successor of each of its elements has all of them.
LEMMA NatSetInduction ==
    ASSUME NEW S, 0 \in S, \A n \in Nat : n \in S => n + 1 \in S
    PROVE  Nat \subseteq S
<1> DEFINE T == Nat \ S
           R == {ss \in Nat \X Nat : ss[1] < ss[2]}
<1>1. SUFFICES ASSUME T # {} PROVE FALSE
  OBVIOUS
<1>2. IsWellFoundedOn(R, Nat)
  BY NatLessThanWellFounded, Zenon DEF OpToRel
<1>3. PICK n \in T : \A m \in T : ~ (<<m, n>> \in R)
  <2> HIDE DEF R, T
  <2>1. T \subseteq Nat
    BY DEF T
  <2> QED BY <1>1, <1>2, <2>1, WFMin
<1>4. n \in Nat /\ n # 0
  OBVIOUS
<1>5. n - 1 \in Nat /\ n - 1 < n /\ (n - 1) + 1 = n
  BY <1>4
<1>6. n - 1 \notin T
  BY <1>3, <1>4, <1>5
<1>7. QED BY <1>5, <1>6

\* r is made of items of q, each taken from a place of its own: f says from which.
Carries(f, r, q) ==
    /\ f \in [DOMAIN r -> DOMAIN q]
    /\ \A i, j \in DOMAIN r : f[i] = f[j] => i = j
    /\ \A i \in DOMAIN r : r[i].id = q[f[i]].id /\ r[i].window = q[f[i]].window

\* outbox_delete_expired leaves items of the outbox, and all those that are not expired.
LEMMA Remaining ==
    ASSUME NEW q \in Seq(Item)
    PROVE  /\ outbox_delete_expired(q) \in Seq(Item)
           /\ \E f : /\ Carries(f, outbox_delete_expired(q), q)
                     /\ \A i \in DOMAIN q :
                            IsExpired(q[i])
                                \/ \E j \in DOMAIN outbox_delete_expired(q) : f[j] = i
<1> DEFINE Body(g, n) == IF n = 0 THEN <<>>
                         ELSE IF IsExpired(q[n]) THEN g[n - 1] ELSE Append(g[n - 1], q[n])
           Defines(g, n) == g = [m \in 0 .. n |-> Body(g, m)]
           Loop == CHOOSE g : Defines(g, Len(q))
<1>1. Len(q) \in Nat /\ DOMAIN q = 1 .. Len(q) /\ \A i \in DOMAIN q : q[i] \in Item
  OBVIOUS
<1>2. \E g : Defines(g, Len(q))
  <2> DEFINE S == {n \in Nat : \E g : Defines(g, n)}
  <2>1. 0 \in S
    <3> DEFINE g == [m \in 0 .. 0 |-> <<>>]
    <3>1. Defines(g, 0)
      OBVIOUS
    <3>2. QED BY <3>1
  <2>2. ASSUME NEW n \in Nat, n \in S PROVE n + 1 \in S
    <3>1. PICK g : Defines(g, n)
      BY <2>2
    <3> DEFINE h == [m \in 0 .. n + 1 |-> IF m <= n THEN g[m] ELSE Body(g, n + 1)]
    <3>2. \A m \in 0 .. n : h[m] = g[m] /\ g[m] = Body(g, m)
      <4> HIDE DEF Body
      <4>1. \A m \in 0 .. n : g[m] = Body(g, m)
        BY <3>1, Zenon
      <4>2. \A m \in 0 .. n : m \in 0 .. n + 1 /\ m <= n
        BY <2>2
      <4>3. QED BY <4>1, <4>2
    <3>3. h[n + 1] = Body(g, n + 1)
      BY <2>2
    <3> HIDE DEF h
    <3>4. \A m \in 0 .. n + 1 : h[m] = Body(h, m)
      <4> SUFFICES ASSUME NEW m \in 0 .. n + 1 PROVE h[m] = Body(h, m)
        OBVIOUS
      <4>1. CASE m = 0
        BY <2>2, <3>2, <4>1
      <4>2. CASE m # 0
        <5>1. m - 1 \in 0 .. n /\ h[m - 1] = g[m - 1]
          BY <3>2, <4>2
        <5>2. Body(h, m) = Body(g, m)
          BY <4>2, <5>1
        <5>3. QED BY <3>2, <3>3, <5>2
      <4>3. QED BY <4>1, <4>2
    <3>5. Defines(h, n + 1)
      BY <3>4 DEF h
    <3>6. QED BY <3>5, SMTT(30)
  <2>3. Nat \subseteq S
    <3> HIDE DEF S
    <3> QED BY <2>1, <2>2, NatSetInduction
  <2>4. QED BY <1>1, <2>3
<1>3. Defines(Loop, Len(q))
  <2> HIDE DEF Defines
  <2> QED BY <1>2
<1>4. outbox_delete_expired(q) = Loop[Len(q)]
  BY DEF outbox_delete_expired
<1> HIDE DEF Loop
<1>5. /\ Loop[0] = <<>>
      /\ \A n \in 1 .. Len(q) :
             Loop[n] = IF IsExpired(q[n]) THEN Loop[n - 1] ELSE Append(Loop[n - 1], q[n])
  <2>1. \A m \in 0 .. Len(q) : Loop[m] = Body(Loop, m)
    <3> HIDE DEF Body
    <3> QED BY <1>3, Zenon
  <2>2. 0 \in 0 .. Len(q) /\ \A n \in 1 .. Len(q) : n \in 0 .. Len(q) /\ n # 0
    BY <1>1
  <2>3. QED BY <2>1, <2>2, Zenon
<1> DEFINE Upto(f, n) ==
               /\ Loop[n] \in Seq(Item)
               /\ Carries(f, Loop[n], q)
               /\ \A j \in DOMAIN Loop[n] : f[j] <= n
               /\ \A i \in 1 .. n : IsExpired(q[i]) \/ \E j \in DOMAIN Loop[n] : f[j] = i
           Reached == {n \in Nat : n <= Len(q) => \E f : Upto(f, n)}
<1>6. 0 \in Reached
  <2> DEFINE f == [j \in {} |-> 0]
  <2>1. Upto(f, 0)
    BY <1>5 DEF Carries
  <2>2. QED BY <2>1
<1>7. ASSUME NEW n \in Nat, n \in Reached, n + 1 <= Len(q) PROVE n + 1 \in Reached
  <2>1. PICK f : Upto(f, n)
    BY <1>1, <1>7
  <2>2. /\ Loop[n] \in Seq(Item) /\ f \in [DOMAIN Loop[n] -> DOMAIN q]
        /\ \A i, j \in DOMAIN Loop[n] : f[i] = f[j] => i = j
        /\ \A i \in DOMAIN Loop[n] :
               Loop[n][i].id = q[f[i]].id /\ Loop[n][i].window = q[f[i]].window /\ f[i] <= n
        /\ \A i \in 1 .. n : IsExpired(q[i]) \/ \E j \in DOMAIN Loop[n] : f[j] = i
    BY <2>1 DEF Carries
  <2> HIDE DEF Upto
  <2>3. SUFFICES \E h : Upto(h, n + 1)
    BY <1>7
  <2> HIDE DEF Reached, Body
  <2>4. /\ n + 1 \in DOMAIN q /\ q[n + 1] \in Item /\ n + 1 \in 1 .. Len(q)
        /\ (n + 1) - 1 = n
    BY <1>1, <1>7
  <2>5. CASE IsExpired(q[n + 1])
    <3>1. Loop[n + 1] = Loop[n]
      BY <1>5, <2>4, <2>5
    <3>2. Upto(f, n + 1)
      BY <1>7, <2>2, <2>5, <3>1 DEF Carries, Upto
    <3>3. QED BY <3>2
  <2>6. CASE ~ IsExpired(q[n + 1])
    <3>1. PICK r : r = Loop[n]
      OBVIOUS
    <3>2. PICK k : k = Len(r) + 1
      OBVIOUS
    <3>3. r \in Seq(Item) /\ DOMAIN r = 1 .. k - 1 /\ k \in Nat \ {0}
      BY <2>2, <3>1, <3>2
    <3>4. Loop[n + 1] = Append(r, q[n + 1])
      BY <1>5, <2>4, <2>6, <3>1
    <3>5. PICK s : s = Loop[n + 1]
      OBVIOUS
    <3>6. /\ s \in Seq(Item) /\ DOMAIN s = 1 .. k /\ s[k] = q[n + 1]
          /\ \A j \in DOMAIN r : s[j] = r[j]
      BY <2>4, <3>2, <3>3, <3>4, <3>5
    <3>7. PICK h : h = [j \in 1 .. k |-> IF j = k THEN n + 1 ELSE f[j]]
      OBVIOUS
    <3>8. \A j \in DOMAIN s : j = k \/ j \in DOMAIN r
      BY <3>3, <3>6
    <3>9. k \in DOMAIN s /\ h[k] = n + 1
      BY <3>3, <3>6, <3>7
    <3>10. \A j \in DOMAIN r : h[j] = f[j] /\ j \in DOMAIN s /\ f[j] \in DOMAIN q /\ f[j] <= n
                                /\ f[j] # n + 1
      BY <1>1, <2>2, <3>1, <3>3, <3>6, <3>7
    <3>11. h \in [DOMAIN s -> DOMAIN q]
      BY <2>4, <3>6, <3>7, <3>8, <3>9, <3>10
    <3>12. \A i, j \in DOMAIN s : h[i] = h[j] => i = j
      BY <2>2, <3>1, <3>8, <3>9, <3>10
    <3>13. \A i \in DOMAIN s : s[i].id = q[h[i]].id /\ s[i].window = q[h[i]].window
      BY <2>2, <3>1, <3>6, <3>8, <3>9, <3>10
    <3>14. \A i \in DOMAIN s : h[i] <= n + 1
      BY <1>1, <3>8, <3>9, <3>10
    <3>15. \A i \in 1 .. n + 1 : IsExpired(q[i]) \/ \E j \in DOMAIN s : h[j] = i
      <4>1. ASSUME NEW i \in 1 .. n, ~ IsExpired(q[i]) PROVE \E j \in DOMAIN s : h[j] = i
        BY <2>2, <3>1, <3>10, <4>1
      <4>2. \A i \in 1 .. n + 1 : i \in 1 .. n \/ i = n + 1
        OBVIOUS
      <4>3. QED BY <3>9, <4>1, <4>2
    <3>16. Upto(h, n + 1)
      BY <3>5, <3>6, <3>11, <3>12, <3>13, <3>14, <3>15 DEF Carries, Upto
    <3>17. QED BY <3>16
  <2>7. QED BY <2>5, <2>6
<1>8. Len(q) \in Reached
  <2>1. \A n \in Nat : n \in Reached => n + 1 \in Reached
    <3> SUFFICES ASSUME NEW n \in Nat, n \in Reached PROVE n + 1 \in Reached
      OBVIOUS
    <3>1. CASE n + 1 <= Len(q)
      <4> HIDE DEF Reached
      <4> QED BY <1>7, <3>1
    <3>2. CASE ~ (n + 1 <= Len(q))
      BY <3>2
    <3>3. QED BY <3>1, <3>2
  <2>2. Nat \subseteq Reached
    <3> HIDE DEF Reached
    <3> QED BY <1>6, <2>1, NatSetInduction
  <2>3. QED BY <1>1, <2>2
<1>9. PICK f : Upto(f, Len(q))
  BY <1>1, <1>8
<1>10. QED BY <1>1, <1>4, <1>9

----------------------------------------------------------------------------
(* The other searches of the outbox *)

LEMMA Least ==
    ASSUME NEW S \in SUBSET Nat, S # {}
    PROVE  Min(S) \in S /\ \A n \in S : Min(S) <= n
<1> DEFINE R == {ss \in Nat \X Nat : ss[1] < ss[2]}
<1>1. IsWellFoundedOn(R, Nat)
  BY NatLessThanWellFounded, Zenon DEF OpToRel
<1>2. PICK n \in S : \A m \in S : ~ (<<m, n>> \in R)
  <2> HIDE DEF R
  <2> QED BY <1>1, WFMin
<1>3. S \subseteq Nat
  OBVIOUS
<1>4. ASSUME NEW m \in S PROVE n <= m
  <2>1. m \in Nat /\ n \in Nat /\ ~ (m < n)
    BY <1>2, <1>3
  <2>2. QED BY <2>1
<1>5. QED BY <1>4 DEF Min

\* outbox_get finds an item with the id if there is one.
LEMMA FirstWithId ==
    ASSUME NEW q \in Seq(Item), NEW id
    PROVE  LET i == outbox_get(q, id)
           IN  /\ i = 0 => \A j \in DOMAIN q : q[j].id # id
               /\ i # 0 => i \in DOMAIN q /\ q[i].id = id
<1> DEFINE I == {j \in 1 .. Len(q) : q[j].id = id}
<1>1. outbox_get(q, id) = IF I # {} THEN Min(I) ELSE 0
  BY DEF SelectInSeq, outbox_get
<1>2. I \in SUBSET Nat /\ DOMAIN q = 1 .. Len(q)
  OBVIOUS
<1>3. I # {} => Min(I) \in I
  <2> HIDE DEF I
  <2> QED BY <1>2, Least
<1>4. QED BY <1>1, <1>2, <1>3

LEMMA DequeueFinds ==
    ASSUME outbox \in Seq(Item), NEW pending, Dequeue(pending) # 0
    PROVE  Dequeue(pending) \in DOMAIN outbox
<1> DEFINE I == {j \in 1 .. Len(outbox) : outbox[j].pending = pending}
<1>1. Dequeue(pending) = IF I # {} THEN Min(I) ELSE 0
  BY DEF SelectInSeq, Dequeue
<1>2. I \in SUBSET Nat /\ DOMAIN outbox = 1 .. Len(outbox) /\ I \subseteq DOMAIN outbox
  OBVIOUS
<1>3. I # {} => Min(I) \in I
  <2> HIDE DEF I
  <2> QED BY <1>2, Least
<1>4. QED BY <1>1, <1>2, <1>3

\* The two outboxes hold the same messages in the same places.
SameMessages(r, q) ==
    /\ DOMAIN r = DOMAIN q
    /\ \A i \in DOMAIN q : r[i].id = q[i].id /\ r[i].window = q[i].window

LEMMA SetPendingKeeps ==
    ASSUME NEW q \in Seq(Item), NEW id, NEW pending \in {"QUEUED", "TRANSMITTED"}
    PROVE  SetPending(q, id, pending) \in Seq(Item) /\ SameMessages(SetPending(q, id, pending), q)
<1> DEFINE i == outbox_get(q, id)
<1>1. SetPending(q, id, pending) = IF i = 0 THEN q ELSE [q EXCEPT ![i].pending = pending]
  BY DEF SetPending
<1>2. i # 0 => i \in DOMAIN q
  BY FirstWithId
<1> HIDE DEF i
<1>3. CASE i # 0
  <2> DEFINE item == [q[i] EXCEPT !.pending = pending]
             r == [q EXCEPT ![i].pending = pending]
  <2>0. q[i] \in Item
    BY <1>2, <1>3
  <2>1. item \in Item /\ item.id = q[i].id /\ item.window = q[i].window
    BY <2>0 DEF Item
  <2>2. r = [q EXCEPT ![i] = item]
    OBVIOUS
  <2> HIDE DEF item
  <2>3. r \in Seq(Item) /\ SameMessages(r, q)
    BY <1>2, <1>3, <2>1, <2>2, ExceptSeq DEF SameMessages
  <2>4. QED BY <1>1, <1>3, <2>3
<1>5. QED BY <1>1, <1>3 DEF SameMessages

LEMMA SetTickKeeps ==
    ASSUME NEW q \in Seq(Item), NEW id
    PROVE  SetTick(q, id) \in Seq(Item) /\ SameMessages(SetTick(q, id), q)
<1> DEFINE i == outbox_get(q, id)
<1>1. SetTick(q, id) = IF i = 0 THEN q ELSE [q EXCEPT ![i].age = 0]
  BY DEF SetTick
<1>2. i # 0 => i \in DOMAIN q
  BY FirstWithId
<1>3. 0 \in 0 .. MaxAge
  BY MqttClientAssumption
<1> HIDE DEF i
<1>4. CASE i # 0
  <2> DEFINE item == [q[i] EXCEPT !.age = 0]
             r == [q EXCEPT ![i].age = 0]
  <2>0. q[i] \in Item
    BY <1>2, <1>4
  <2>1. item \in Item /\ item.id = q[i].id /\ item.window = q[i].window
    BY <1>3, <2>0 DEF Item
  <2>2. r = [q EXCEPT ![i] = item]
    OBVIOUS
  <2> HIDE DEF item
  <2>3. r \in Seq(Item) /\ SameMessages(r, q)
    BY <1>2, <1>4, <2>1, <2>2, ExceptSeq, SMTT(30) DEF SameMessages
  <2>4. QED BY <1>1, <1>4, <2>3
<1>5. QED BY <1>1, <1>4 DEF SameMessages

\* A PUBACK takes no item with another id out of the outbox.
LEMMA DeleteTakesOne ==
    ASSUME NEW q \in Seq(Item), NEW id
    PROVE  /\ Delete(q, id) \in Seq(Item)
           /\ \E f : /\ Carries(f, Delete(q, id), q)
                     /\ \A i \in DOMAIN q :
                            q[i].id = id \/ \E j \in DOMAIN Delete(q, id) : f[j] = i
<1> DEFINE n == outbox_get(q, id)
<1>1. Delete(q, id) = IF \E i \in 1 .. Len(q) : q[i].id = id THEN RemoveAt(q, n) ELSE q
  BY DEF Delete, RemoveFirstMatch, outbox_get
<1>2. DOMAIN q = 1 .. Len(q) /\ Len(q) \in Nat /\ \A i \in DOMAIN q : q[i] \in Item
  OBVIOUS
<1>3. (\E i \in 1 .. Len(q) : q[i].id = id) => n \in DOMAIN q /\ q[n].id = id
  BY <1>2, FirstWithId
<1> HIDE DEF n
<1>4. CASE \E i \in 1 .. Len(q) : q[i].id = id
  <2> DEFINE r == RemoveAt(q, n)
             f == [j \in DOMAIN r |-> IF j < n THEN j ELSE j + 1]
  <2>1. /\ r \in Seq(Item) /\ DOMAIN r = 1 .. Len(q) - 1
        /\ \A j \in DOMAIN r : r[j] = q[IF j < n THEN j ELSE j + 1]
    <3> DEFINE a == SubSeq(q, 1, n - 1)
               b == SubSeq(q, n + 1, Len(q))
    <3>1. /\ a \in Seq(Item) /\ Len(a) = n - 1
          /\ \A j \in 1 .. n - 1 : a[j] = q[j]
      BY <1>2, <1>3, <1>4
    <3>2. /\ b \in Seq(Item) /\ Len(b) = Len(q) - n
          /\ \A j \in 1 .. Len(q) - n : b[j] = q[n + j]
      BY <1>2, <1>3, <1>4
    <3> HIDE DEF a, b
    <3>3. r = a \o b
      BY DEF RemoveAt, a, b
    <3> HIDE DEF r
    <3>4. /\ r \in Seq(Item) /\ Len(r) = Len(a) + Len(b)
          /\ \A j \in 1 .. Len(a) + Len(b) : r[j] = IF j <= Len(a) THEN a[j] ELSE b[j - Len(a)]
      BY <3>1, <3>2, <3>3, ConcatProperties
    <3>5. DOMAIN r = 1 .. Len(q) - 1
      BY <1>2, <1>3, <1>4, <3>1, <3>2, <3>4
    <3>6. ASSUME NEW j \in DOMAIN r PROVE r[j] = q[IF j < n THEN j ELSE j + 1]
      <4>1. CASE j < n
        BY <1>2, <1>3, <1>4, <3>1, <3>2, <3>4, <3>5, <4>1
      <4>2. CASE ~ (j < n)
        <5>0. PICK l \in Nat : l = Len(q)
          OBVIOUS
        <5>1. r[j] = b[j - (n - 1)] /\ j - (n - 1) \in 1 .. Len(q) - n /\ n + (j - (n - 1)) = j + 1
          <6>1. j \in 1 .. l - 1 /\ n \in 1 .. l
            BY <1>2, <1>3, <1>4, <3>5, <5>0
          <6>2. j - (n - 1) \in 1 .. l - n /\ n + (j - (n - 1)) = j + 1 /\ ~ (j <= n - 1)
            BY <4>2, <6>1
          <6>3. Len(a) = n - 1 /\ j \in 1 .. Len(a) + Len(b)
            BY <3>1, <3>2, <5>0, <6>1
          <6>4. r[j] = b[j - Len(a)]
            BY <3>4, <6>2, <6>3
          <6> QED BY <5>0, <6>2, <6>3, <6>4
        <5>2. QED BY <3>2, <4>2, <5>1
      <4>3. QED BY <4>1, <4>2
    <3>7. QED BY <3>4, <3>5, <3>6
  <2> HIDE DEF r
  <2>2. Carries(f, r, q)
    BY <1>2, <1>3, <1>4, <2>1 DEF Carries
  <2>3. ASSUME NEW i \in DOMAIN q, i # n
        PROVE  \E j \in DOMAIN r : f[j] = i
    <3>1. CASE i < n
      <4>1. i \in DOMAIN r /\ f[i] = i
        BY <1>2, <1>3, <1>4, <2>1, <3>1
      <4>2. QED BY <4>1
    <3>2. CASE i > n
      <4>1. i - 1 \in DOMAIN r /\ f[i - 1] = i
        BY <1>2, <1>3, <1>4, <2>1, <3>2
      <4>2. QED BY <4>1
    <3>3. QED BY <1>2, <1>3, <1>4, <2>3, <3>1, <3>2
  <2>4. Delete(q, id) = r
    BY <1>1, <1>4 DEF r
  <2> HIDE DEF f
  <2>5. QED BY <1>3, <1>4, <2>1, <2>2, <2>3, <2>4
<1>5. CASE ~ \E i \in 1 .. Len(q) : q[i].id = id
  <2> DEFINE f == [j \in DOMAIN q |-> j]
  <2>1. Delete(q, id) = q
    BY <1>1, <1>5
  <2>2. Carries(f, q, q) /\ \A i \in DOMAIN q : f[i] = i
    BY DEF Carries
  <2> HIDE DEF f
  <2>3. QED BY <2>1, <2>2
<1>6. QED BY <1>4, <1>5
----------------------------------------------------------------------------
(* The invariant of the client *)

MqttTypeOK ==
    /\ apiLock \in {"free", "task", "publisher"}
    /\ taskPc \in {"lock", "connect", "receive", "resend", "keepalive", "wait", "check", "poll",
                   "abort"}
    /\ pubStep \in {"idle", "enqueue", "send"} /\ published \in 0 .. MaxWindow
    /\ state \in {"INIT", "CONNECTED", "WAIT_RECONNECT"} /\ connected \in BOOLEAN
    /\ outbox \in Seq(Item)
    /\ sinceRetransmit \in 0 .. Unset /\ sinceKeepalive \in 0 .. KEEPALIVE
    /\ sinceClosed \in 0 .. RECONNECT + 1 /\ waitPing \in BOOLEAN
    /\ conn \in {"up", "broken", "closed"}
    /\ toBroker \in Seq(Packet) /\ toClient \in Seq(Packet)
    /\ received \in SUBSET Windows /\ kept \in SUBSET Windows /\ expired \in SUBSET Windows
    /\ idReused \in BOOLEAN /\ failures \in 0 .. MaxFailures

\* The lock is held exactly where the code has taken it, and the item that
\* esp_mqtt_client_publish has just enqueued is there when it comes to write it.
LockInv ==
    /\ apiLock = "task" <=> taskPc \in {"connect", "receive", "resend", "keepalive", "wait"}
    /\ apiLock = "publisher" <=> pubStep # "idle"
    /\ pubStep # "idle" => published < MaxWindow
    /\ pubStep = "send" => outbox # <<>>

\* StateAgrees holds with the lock taken as well.
StateInv ==
    /\ connected <=> state = "CONNECTED"
    /\ connected <=> conn # "closed"
    /\ taskPc = "wait" => state # "CONNECTED"

\* An id stands for one message, in the outbox and in every packet under way.
DistinctIds == \A i, j \in DOMAIN outbox : outbox[i].id = outbox[j].id => i = j

PublishesMatch ==
    \A k \in DOMAIN toBroker : toBroker[k].type = "PUBLISH" =>
        \A i \in DOMAIN outbox :
            outbox[i].id = toBroker[k].id => outbox[i].window = toBroker[k].window

AcksMatch ==
    \A k \in DOMAIN toClient : toClient[k].type = "PUBACK" =>
        \A i \in DOMAIN outbox : outbox[i].id = toClient[k].id => outbox[i].window \in received

NothingGone == kept \subseteq InOutbox \cup received \cup expired

IdsInv == ~idReused => DistinctIds /\ PublishesMatch /\ AcksMatch /\ NothingGone

\* The windows the client has been given, the one whose call runs included.
Given == 1 .. IF pubStep = "send" THEN published + 1 ELSE published

\* The client makes no window up.
GivenInv ==
    /\ InOutbox \subseteq Given /\ received \subseteq Given
    /\ \A k \in DOMAIN toBroker : toBroker[k].type = "PUBLISH" => toBroker[k].window \in Given

MqttInv == MqttTypeOK /\ LockInv /\ StateInv /\ IdsInv /\ GivenInv

\* What is left after a write is what was under way and perhaps the packet.
LEMMA WriteFrame ==
    ASSUME MqttTypeOK, NEW p \in Packet, WriteOk(p)
    PROVE  /\ toBroker' \in Seq(Packet) /\ conn # "closed"
           /\ \A k \in DOMAIN toBroker' :
                  toBroker'[k] = p \/ \E m \in DOMAIN toBroker : toBroker'[k] = toBroker[m]
<1>1. CASE toBroker' = Append(toBroker, p) /\ conn = "up"
  <2>1. /\ toBroker' \in Seq(Packet) /\ Len(toBroker') = Len(toBroker) + 1
        /\ \A k \in 1 .. Len(toBroker) : toBroker'[k] = toBroker[k]
        /\ toBroker'[Len(toBroker) + 1] = p
    BY <1>1, AppendProperties DEF MqttTypeOK
  <2>2. DOMAIN toBroker' = 1 .. Len(toBroker) + 1 /\ DOMAIN toBroker = 1 .. Len(toBroker)
        /\ Len(toBroker) \in Nat
    BY <2>1 DEF MqttTypeOK
  <2>3. QED BY <1>1, <2>1, <2>2
<1>2. CASE toBroker' = toBroker /\ conn = "broken"
  BY <1>2 DEF MqttTypeOK
<1>3. QED BY <1>1, <1>2 DEF WriteOk

LEMMA PublishPacketType ==
    ASSUME NEW item \in Item PROVE PublishPacket(item) \in Packet
BY DEF PublishPacket, Item, Packet

\* The step sends no PUBLISH but of a message in the outbox.
SendsFromOutbox ==
    \A k \in DOMAIN toBroker' :
        \/ toBroker'[k].type # "PUBLISH"
        \/ \E m \in DOMAIN toBroker : toBroker'[k] = toBroker[m]
        \/ \E i \in DOMAIN outbox : toBroker'[k].id = outbox[i].id
                                      /\ toBroker'[k].window = outbox[i].window

\* The step acknowledges no message but one the broker then has.
AcksWhatArrived ==
    \A k \in DOMAIN toClient' :
        \/ toClient'[k].type # "PUBACK"
        \/ \E m \in DOMAIN toClient : toClient'[k] = toClient[m]
        \/ \E m \in DOMAIN toBroker : /\ toBroker[m].type = "PUBLISH"
                                      /\ toClient'[k].id = toBroker[m].id
                                      /\ toBroker[m].window \in received'

\* The step brings the broker no window but one that was under way.
ReceivesSent ==
    \A w \in received' :
        \/ w \in received
        \/ \E m \in DOMAIN toBroker : toBroker[m].type = "PUBLISH" /\ toBroker[m].window = w

\* A step that adds no message to the outbox, and takes none out that is neither at the
\* broker nor too old, keeps the ids apart.
LEMMA IdsFrame ==
    ASSUME MqttTypeOK, IdsInv, GivenInv, NEW f, Carries(f, outbox', outbox),
           SendsFromOutbox, AcksWhatArrived, ReceivesSent, Given \subseteq Given',
           received \subseteq received',
           expired \subseteq expired', kept' = kept, idReused' = idReused,
           idReused \/ \A i \in DOMAIN outbox : \/ outbox[i].window \in received' \cup expired'
                                                \/ \E j \in DOMAIN outbox' : f[j] = i
    PROVE  IdsInv' /\ GivenInv'
<1>given. GivenInv'
  <2>1. \A i \in DOMAIN outbox' : f[i] \in DOMAIN outbox /\ outbox'[i].window = outbox[f[i]].window
    BY DEF Carries
  <2>2. \A i \in DOMAIN outbox : outbox[i].window \in Given'
    BY DEF GivenInv, InOutbox
  <2>3. InOutbox' \subseteq Given'
    BY <2>1, <2>2 DEF InOutbox
  <2>4. received' \subseteq Given'
    BY DEF GivenInv, ReceivesSent
  <2>5. \A k \in DOMAIN toBroker' : toBroker'[k].type = "PUBLISH" => toBroker'[k].window \in Given'
    BY <2>2 DEF GivenInv, SendsFromOutbox
  <2>6. QED BY <2>3, <2>4, <2>5 DEF GivenInv
<1> SUFFICES ASSUME ~ idReused PROVE (DistinctIds /\ PublishesMatch /\ AcksMatch /\ NothingGone)'
  BY <1>given DEF IdsInv
<1>1. DistinctIds /\ PublishesMatch /\ AcksMatch /\ NothingGone
  BY DEF IdsInv
<1>2. \A i \in DOMAIN outbox' : /\ f[i] \in DOMAIN outbox
                                /\ outbox'[i].id = outbox[f[i]].id
                                /\ outbox'[i].window = outbox[f[i]].window
  BY DEF Carries
<1>3. \A i, j \in DOMAIN outbox' : f[i] = f[j] => i = j
  BY DEF Carries
<1>4. DistinctIds'
  BY <1>1, <1>2, <1>3 DEF DistinctIds
<1>5. PublishesMatch'
  <2> SUFFICES ASSUME NEW k \in DOMAIN toBroker', toBroker'[k].type = "PUBLISH",
                      NEW i \in DOMAIN outbox', outbox'[i].id = toBroker'[k].id
               PROVE  outbox'[i].window = toBroker'[k].window
    BY DEF PublishesMatch
  <2>1. CASE \E m \in DOMAIN toBroker : toBroker'[k] = toBroker[m]
    BY <1>1, <1>2, <2>1 DEF PublishesMatch
  <2>2. CASE \E n \in DOMAIN outbox : toBroker'[k].id = outbox[n].id
                                      /\ toBroker'[k].window = outbox[n].window
    BY <1>1, <1>2, <2>2 DEF DistinctIds
  <2>3. QED BY <2>1, <2>2 DEF SendsFromOutbox
<1>6. AcksMatch'
  <2> SUFFICES ASSUME NEW k \in DOMAIN toClient', toClient'[k].type = "PUBACK",
                      NEW i \in DOMAIN outbox', outbox'[i].id = toClient'[k].id
               PROVE  outbox'[i].window \in received'
    BY DEF AcksMatch
  <2>1. CASE \E m \in DOMAIN toClient : toClient'[k] = toClient[m]
    BY <1>1, <1>2, <2>1 DEF AcksMatch
  <2>2. CASE \E m \in DOMAIN toBroker : /\ toBroker[m].type = "PUBLISH"
                                        /\ toClient'[k].id = toBroker[m].id
                                        /\ toBroker[m].window \in received'
    BY <1>1, <1>2, <2>2 DEF PublishesMatch
  <2>3. QED BY <2>1, <2>2 DEF AcksWhatArrived
<1>7. NothingGone'
  <2> SUFFICES ASSUME NEW w \in kept PROVE w \in InOutbox' \cup received' \cup expired'
    BY DEF NothingGone
  <2>1. CASE \E i \in DOMAIN outbox : w = outbox[i].window
    BY <1>2, <2>1 DEF InOutbox
  <2>2. QED BY <1>1, <2>1 DEF NothingGone, InOutbox
<1>8. QED BY <1>4, <1>5, <1>6, <1>7

\* In particular when the outbox keeps its messages.
LEMMA IdsFrameSame ==
    ASSUME MqttTypeOK, IdsInv, GivenInv, SameMessages(outbox', outbox), SendsFromOutbox,
           AcksWhatArrived, ReceivesSent, Given \subseteq Given', received \subseteq received', expired \subseteq expired', kept' = kept,
           idReused' = idReused
    PROVE  IdsInv' /\ GivenInv'
<1> DEFINE f == [i \in DOMAIN outbox' |-> i]
<1>1. \A i \in DOMAIN outbox' : f[i] = i
  OBVIOUS
<1>2. f \in [DOMAIN outbox' -> DOMAIN outbox] /\ DOMAIN outbox' = DOMAIN outbox
  BY DEF SameMessages
<1> HIDE DEF f
<1>3. Carries(f, outbox', outbox)
  BY <1>1, <1>2 DEF Carries, SameMessages
<1>4. \A i \in DOMAIN outbox : \E j \in DOMAIN outbox' : f[j] = i
  BY <1>1, <1>2
<1>5. QED BY <1>3, <1>4, IdsFrame

LEMMA SameOutbox == outbox' = outbox => SameMessages(outbox', outbox)
BY DEF SameMessages

LEMMA NothingSent ==
    /\ toBroker' = toBroker \/ toBroker' = <<>> => SendsFromOutbox
    /\ toClient' = toClient \/ toClient' = <<>> => AcksWhatArrived
    /\ received' = received => ReceivesSent
BY DEF SendsFromOutbox, AcksWhatArrived, ReceivesSent

LEMMA ItemSent ==
    ASSUME MqttTypeOK, NEW i \in DOMAIN outbox, WriteOk(PublishPacket(outbox[i]))
    PROVE  toBroker' \in Seq(Packet) /\ conn # "closed" /\ SendsFromOutbox
<1>1. outbox[i] \in Item
  BY DEF MqttTypeOK
<1>2. PublishPacket(outbox[i]) \in Packet
  BY <1>1, PublishPacketType
<1>3. PublishPacket(outbox[i]).id = outbox[i].id /\ PublishPacket(outbox[i]).window = outbox[i].window
  BY DEF PublishPacket
<1>4. QED BY <1>2, <1>3, WriteFrame DEF SendsFromOutbox

LEMMA NaturalConstants ==
    /\ MaxWindow \in Nat /\ OUTBOX_WINDOWS \in Nat /\ RETRANSMIT \in Nat /\ RECONNECT \in Nat
    /\ KEEPALIVE \in Nat /\ MaxAge \in Nat /\ MaxFailures \in Nat
BY MqttClientAssumption

LEMMA LaterStays ==
    ASSUME NEW most \in Nat, NEW bound \in 0 .. most, NEW since \in 0 .. most
    PROVE  Later(since, bound) \in 0 .. most
BY DEF Later

LEMMA InitMqtt == MqttInit => MqttInv
<1> SUFFICES ASSUME MqttInit PROVE MqttInv
  OBVIOUS
<1>1. MqttTypeOK
  <2>1. outbox \in Seq(Item) /\ toBroker \in Seq(Packet) /\ toClient \in Seq(Packet)
    BY DEF MqttInit
  <2>2. /\ sinceRetransmit \in 0 .. Unset /\ sinceKeepalive \in 0 .. KEEPALIVE
        /\ sinceClosed \in 0 .. RECONNECT + 1 /\ failures \in 0 .. MaxFailures
        /\ published \in 0 .. MaxWindow
    BY NaturalConstants DEF MqttInit, Unset
  <2>3. QED BY <2>1, <2>2 DEF MqttInit, MqttTypeOK
<1>2. LockInv /\ StateInv
  BY DEF MqttInit, LockInv, StateInv
<1>3. IdsInv
  BY DEF MqttInit, IdsInv, DistinctIds, PublishesMatch, AcksMatch, NothingGone
<1>4. GivenInv
  BY DEF MqttInit, GivenInv, InOutbox
<1>5. QED BY <1>1, <1>2, <1>3, <1>4 DEF MqttInv

\* The steps that touch neither the outbox nor a queue of packets.
LEMMA QuietStep ==
    ASSUME MqttInv, MqttTypeOK', LockInv', StateInv', UNCHANGED <<outbox, received, expired, kept,
           idReused>>, toBroker' = toBroker \/ toBroker' = <<>>, toClient' = toClient \/ toClient' = <<>>,
           Given \subseteq Given'
    PROVE  MqttInv'
<1>1. MqttTypeOK /\ IdsInv /\ GivenInv
  BY DEF MqttInv
<1>2. SameMessages(outbox', outbox) /\ SendsFromOutbox /\ AcksWhatArrived /\ ReceivesSent
  BY SameOutbox, NothingSent
<1>3. IdsInv' /\ GivenInv'
  BY <1>1, <1>2, IdsFrameSame
<1>4. QED BY <1>3 DEF MqttInv

\* Taking the lock, and the items that this iteration deletes by their age.
LEMMA TaskLockKeeps == MqttInv /\ TaskLock => MqttInv'
<1> SUFFICES ASSUME MqttInv, TaskLock PROVE MqttInv'
  OBVIOUS
<1> USE DEF callVars, timerVars, netVars
<1>1. MqttTypeOK /\ LockInv /\ StateInv /\ IdsInv /\ GivenInv
  BY DEF MqttInv
<1>2. /\ apiLock = "free" /\ apiLock' = "task"
      /\ taskPc' \in {"connect", "receive", "wait"} /\ (taskPc' = "wait" => state # "CONNECTED")
      /\ outbox' = outbox_delete_expired(outbox)
      /\ UNCHANGED <<pubStep, published, state, connected, sinceRetransmit, sinceKeepalive,
                     sinceClosed, waitPing, conn, toBroker, toClient, received, failures, kept,
                     idReused>>
  BY <1>1 DEF TaskLock, MqttTypeOK
<1>3. outbox' \in Seq(Item)
  BY <1>1, <1>2, Remaining DEF MqttTypeOK
<1>4. PICK f : /\ Carries(f, outbox', outbox)
               /\ \A i \in DOMAIN outbox :
                      IsExpired(outbox[i]) \/ \E j \in DOMAIN outbox' : f[j] = i
  BY <1>1, <1>2, Remaining DEF MqttTypeOK
<1>5. /\ expired \subseteq expired'
      /\ \A i \in DOMAIN outbox : IsExpired(outbox[i]) => outbox[i].window \in expired'
  BY DEF TaskLock
<1>6. expired' \in SUBSET Windows
  <2>1. \A i \in DOMAIN outbox : outbox[i].window \in Windows
    <3>1. \A i \in DOMAIN outbox : outbox[i] \in Item
      BY <1>1 DEF MqttTypeOK
    <3>2. QED BY <3>1 DEF Item
  <2>2. QED BY <1>1, <2>1 DEF TaskLock, MqttTypeOK
<1>given. Given \subseteq Given'
  BY <1>1, <1>2 DEF Given, MqttTypeOK, LockInv
<1>7. IdsInv' /\ GivenInv'
  BY <1>1, <1>2, <1>4, <1>5, IdsFrame, <1>given, NothingSent
<1>8. MqttTypeOK'
  BY <1>1, <1>2, <1>3, <1>6 DEF MqttTypeOK
<1>9. LockInv' /\ StateInv'
  BY <1>1, <1>2 DEF LockInv, StateInv, MqttTypeOK
<1>10. QED BY <1>7, <1>8, <1>9 DEF MqttInv

\* A connection, a failure, a wait: the outbox and what is under way are left alone.
QuietTaskStep ==
    \/ ConnectOk \/ ConnectFails \/ ReceiveNothing \/ ReceiveFails \/ NothingToResend
    \/ KeepaliveFine \/ NoPingResponse \/ Wait \/ Check \/ PollReturns \/ PollFails \/ PollAbort

LEMMA QuietTaskStepKeeps == MqttInv /\ QuietTaskStep => MqttInv'
<1> SUFFICES ASSUME MqttInv, QuietTaskStep PROVE MqttInv'
  OBVIOUS
<1> USE DEF callVars, timerVars, netVars, historyVars
<1>1. MqttTypeOK /\ LockInv /\ StateInv
  BY DEF MqttInv
<1>2. /\ UNCHANGED <<outbox, received, expired, kept, idReused>>
      /\ toBroker' = toBroker \/ toBroker' = <<>>
      /\ toClient' = toClient \/ toClient' = <<>>
  BY DEF QuietTaskStep, ConnectOk, ConnectFails, ReceiveNothing, ReceiveFails, NothingToResend,
         KeepaliveFine, NoPingResponse, Wait, Check, PollReturns, PollFails, PollAbort
<1>3. MqttTypeOK'
  <2>1. /\ toBroker' \in Seq(Packet) /\ toClient' \in Seq(Packet)
    <3>1. <<>> \in Seq(Packet) /\ toBroker \in Seq(Packet) /\ toClient \in Seq(Packet)
      BY <1>1 DEF MqttTypeOK
    <3>2. QED BY <1>2, <3>1
  <2>2. /\ apiLock' \in {"free", "task", "publisher"}
        /\ taskPc' \in {"lock", "connect", "receive", "resend", "keepalive", "wait", "check",
                        "poll", "abort"}
        /\ pubStep' = pubStep /\ published' = published
    BY <1>1 DEF QuietTaskStep, ConnectOk, ConnectFails, ReceiveNothing, ReceiveFails,
         NothingToResend, KeepaliveFine, NoPingResponse, Wait, Check, PollReturns, PollFails,
         PollAbort, Unlock, MqttTypeOK
  <2>4. /\ state' \in {"INIT", "CONNECTED", "WAIT_RECONNECT"}
        /\ conn' \in {"up", "broken", "closed"}
        /\ connected' \in BOOLEAN /\ waitPing' \in BOOLEAN
    BY <1>1 DEF QuietTaskStep, ConnectOk, ConnectFails, ReceiveNothing, ReceiveFails,
         NothingToResend, KeepaliveFine, NoPingResponse, Wait, Check, PollReturns, PollFails,
         PollAbort, Abort, MqttTypeOK
  <2>3. /\ sinceRetransmit' \in 0 .. Unset /\ sinceKeepalive' \in 0 .. KEEPALIVE
        /\ sinceClosed' \in 0 .. RECONNECT + 1 /\ failures' \in 0 .. MaxFailures
    <3>1. /\ sinceRetransmit' \in {0, sinceRetransmit} /\ sinceKeepalive' \in {0, sinceKeepalive}
          /\ sinceClosed' \in {0, sinceClosed}
          /\ failures' = failures \/ (failures < MaxFailures /\ failures' = failures + 1)
      BY DEF QuietTaskStep, ConnectOk, ConnectFails, ReceiveNothing, ReceiveFails,
         NothingToResend, KeepaliveFine, NoPingResponse, Wait, Check, PollReturns, PollFails,
         PollAbort, Abort, StartRetransmit
    <3>2. QED BY <1>1, <3>1, NaturalConstants DEF MqttTypeOK, Unset
  <2>5. QED BY <1>1, <1>2, <2>1, <2>2, <2>3, <2>4 DEF MqttTypeOK
<1>4. LockInv'
  BY <1>1, <1>2 DEF QuietTaskStep, ConnectOk, ConnectFails, ReceiveNothing, ReceiveFails,
     NothingToResend, KeepaliveFine, NoPingResponse, Wait, Check, PollReturns, PollFails,
     PollAbort, Unlock, LockInv, MqttTypeOK
<1>5. StateInv'
  BY <1>1 DEF QuietTaskStep, ConnectOk, ConnectFails, ReceiveNothing, ReceiveFails,
     NothingToResend, KeepaliveFine, NoPingResponse, Wait, Check, PollReturns, PollFails,
     PollAbort, Abort, StateInv, MqttTypeOK
<1>given. Given \subseteq Given'
  BY <1>1, <1>2 DEF Given, MqttTypeOK, LockInv, QuietTaskStep, ConnectOk, ConnectFails, ReceiveNothing, ReceiveFails,
     NothingToResend, KeepaliveFine, NoPingResponse, Wait, Check, PollReturns, PollFails,
     PollAbort
<1>6. QED BY <1>2, <1>3, <1>4, <1>5, <1>given, QuietStep

\* A PUBACK takes out of the outbox a message that the broker has.
LEMMA ReceivePacketKeeps == MqttInv /\ ReceivePacket => MqttInv'
<1> SUFFICES ASSUME MqttInv, ReceivePacket PROVE MqttInv'
  OBVIOUS
<1> USE DEF callVars, historyVars
<1>1. MqttTypeOK /\ LockInv /\ StateInv /\ IdsInv /\ GivenInv
  BY DEF MqttInv
<1> DEFINE packet == Head(toClient)
<1>2. /\ taskPc = "receive" /\ toClient # <<>> /\ taskPc' = "resend"
      /\ outbox' = IF packet.type = "PUBACK" THEN Delete(outbox, packet.id) ELSE outbox
      /\ waitPing' \in BOOLEAN
      /\ sinceKeepalive' \in {0, sinceKeepalive} /\ sinceRetransmit' \in {0, sinceRetransmit}
      /\ toClient' = Tail(toClient)
      /\ UNCHANGED <<apiLock, pubStep, published, state, connected, sinceClosed, conn, toBroker,
                     received, failures, kept, expired, idReused>>
  BY DEF ReceivePacket, StartRetransmit
<1>3. /\ toClient' \in Seq(Packet) /\ packet = toClient[1] /\ 1 \in DOMAIN toClient
      /\ \A k \in DOMAIN toClient' : toClient'[k] = toClient[k + 1] /\ k + 1 \in DOMAIN toClient
  <2>1. toClient \in Seq(Packet) /\ Len(toClient) \in Nat \ {0}
        /\ DOMAIN toClient = 1 .. Len(toClient)
    BY <1>1, <1>2 DEF MqttTypeOK
  <2>2. QED BY <1>2, <2>1, HeadTailProperties
<1> HIDE DEF packet
<1>4. PICK f : /\ outbox' \in Seq(Item) /\ Carries(f, outbox', outbox)
               /\ \A i \in DOMAIN outbox :
                      \/ packet.type = "PUBACK" /\ outbox[i].id = packet.id
                      \/ \E j \in DOMAIN outbox' : f[j] = i
  <2>1. CASE packet.type = "PUBACK"
    BY <1>1, <1>2, <2>1, DeleteTakesOne DEF MqttTypeOK
  <2>2. CASE packet.type # "PUBACK"
    <3> DEFINE g == [j \in DOMAIN outbox |-> j]
    <3>1. Carries(g, outbox', outbox) /\ \A j \in DOMAIN outbox : g[j] = j
      BY <1>2, <2>2 DEF Carries
    <3> HIDE DEF g
    <3>2. QED BY <1>1, <1>2, <2>2, <3>1 DEF MqttTypeOK
  <2>3. QED BY <2>1, <2>2
<1>5. idReused \/ \A i \in DOMAIN outbox : \/ outbox[i].window \in received' \cup expired'
                                           \/ \E j \in DOMAIN outbox' : f[j] = i
  BY <1>1, <1>2, <1>3, <1>4 DEF IdsInv, AcksMatch
<1>6. SendsFromOutbox /\ AcksWhatArrived
  BY <1>2, <1>3 DEF SendsFromOutbox, AcksWhatArrived
<1>given. Given \subseteq Given'
  BY <1>1, <1>2 DEF Given, MqttTypeOK, LockInv
<1>7. IdsInv' /\ GivenInv'
  BY <1>1, <1>2, <1>4, <1>5, <1>6, IdsFrame, <1>given, NothingSent
<1>8. MqttTypeOK'
  BY <1>1, <1>2, <1>3, <1>4, NaturalConstants DEF MqttTypeOK, Unset
<1>9. LockInv' /\ StateInv'
  BY <1>1, <1>2 DEF LockInv, StateInv, MqttTypeOK
<1>10. QED BY <1>7, <1>8, <1>9 DEF MqttInv

\* A resend or a ping: what is written is in the outbox, and a write that fails aborts.
ResendStep == ResendQueued \/ ResendTransmitted \/ Ping

LEMMA ResendStepKeeps == MqttInv /\ ResendStep => MqttInv'
<1> SUFFICES ASSUME MqttInv, ResendStep PROVE MqttInv'
  OBVIOUS
<1> USE DEF callVars, historyVars
<1>1. MqttTypeOK /\ LockInv /\ StateInv /\ IdsInv /\ GivenInv
  BY DEF MqttInv
<1>2. /\ taskPc \in {"resend", "keepalive"}
      /\ \/ taskPc' = "keepalive" /\ apiLock' = apiLock
         \/ taskPc' = "check" /\ apiLock' = "free"
      /\ sinceRetransmit' \in {0, sinceRetransmit}
      /\ UNCHANGED <<pubStep, published, sinceKeepalive, toClient, received, failures, kept,
                     expired, idReused>>
  BY DEF ResendStep, ResendQueued, ResendTransmitted, Ping, Unlock, RetransmitDue
<1>3. \/ /\ UNCHANGED <<conn, state, connected, sinceClosed>> /\ waitPing' \in BOOLEAN
         /\ toBroker' \in Seq(Packet) /\ conn # "closed" /\ SendsFromOutbox
      \/ /\ conn' = "closed" /\ state' = "WAIT_RECONNECT" /\ connected' = FALSE
         /\ sinceClosed' = 0 /\ waitPing' = FALSE /\ toBroker' = toBroker
  <2>1. CASE ResendQueued
    <3>1. Dequeue("QUEUED") \in DOMAIN outbox
      BY <1>1, <2>1, DequeueFinds DEF ResendQueued, MqttTypeOK
    <3>2. CASE /\ WriteOk(PublishPacket(outbox[Dequeue("QUEUED")]))
               /\ UNCHANGED <<conn, state, connected, sinceClosed, waitPing>>
      BY <1>1, <3>1, <3>2, ItemSent DEF MqttTypeOK
    <3>3. CASE WriteFails /\ Abort
      BY <3>3 DEF WriteFails, Abort
    <3>4. QED BY <2>1, <3>2, <3>3 DEF ResendQueued
  <2>2. CASE ResendTransmitted
    <3>1. Dequeue("TRANSMITTED") \in DOMAIN outbox
      BY <1>1, <2>2, DequeueFinds DEF ResendTransmitted, HasOldTransmitted, MqttTypeOK
    <3>2. CASE /\ WriteOk(PublishPacket(outbox[Dequeue("TRANSMITTED")]))
               /\ UNCHANGED <<conn, state, connected, sinceClosed, waitPing>>
      BY <1>1, <3>1, <3>2, ItemSent DEF MqttTypeOK
    <3>3. CASE WriteFails /\ Abort
      BY <3>3 DEF WriteFails, Abort
    <3>4. QED BY <2>2, <3>2, <3>3 DEF ResendTransmitted
  <2>3. CASE Ping
    <3> DEFINE ping == [type |-> "PINGREQ"]
    <3>1. CASE WriteOk(ping) /\ waitPing' = TRUE /\ UNCHANGED <<conn, state, connected, sinceClosed>>
      <4>1. ping \in Packet /\ ping.type # "PUBLISH"
        BY DEF Packet
      <4> HIDE DEF ping
      <4>2. toBroker' \in Seq(Packet) /\ conn # "closed" /\ SendsFromOutbox
        BY <1>1, <3>1, <4>1, WriteFrame DEF SendsFromOutbox
      <4>3. QED BY <3>1, <4>2
    <3>2. CASE WriteFails /\ Abort
      BY <3>2 DEF WriteFails, Abort
    <3>3. QED BY <2>3, <3>1, <3>2 DEF Ping
  <2>4. QED BY <2>1, <2>2, <2>3 DEF ResendStep
<1>4. outbox' \in Seq(Item) /\ SameMessages(outbox', outbox)
  <2>1. CASE outbox' = outbox
    BY <1>1, <2>1, SameOutbox DEF MqttTypeOK
  <2>2. ASSUME NEW id, outbox' = SetPending(outbox, id, "TRANSMITTED")
        PROVE  outbox' \in Seq(Item) /\ SameMessages(outbox', outbox)
    BY <1>1, <2>2, SetPendingKeeps DEF MqttTypeOK
  <2>3. QED BY <2>1, <2>2 DEF ResendStep, ResendQueued, ResendTransmitted, Ping
<1>5. SendsFromOutbox /\ AcksWhatArrived
  BY <1>2, <1>3, NothingSent
<1>given. Given \subseteq Given'
  BY <1>1, <1>2 DEF Given, MqttTypeOK, LockInv
<1>6. IdsInv' /\ GivenInv'
  BY <1>1, <1>2, <1>4, <1>5, IdsFrameSame, <1>given, NothingSent
<1>7. MqttTypeOK'
  <2>1. /\ toBroker' \in Seq(Packet) /\ state' \in {"INIT", "CONNECTED", "WAIT_RECONNECT"}
        /\ conn' \in {"up", "broken", "closed"} /\ connected' \in BOOLEAN
        /\ waitPing' \in BOOLEAN
    BY <1>1, <1>3 DEF MqttTypeOK
  <2>2. sinceClosed' \in 0 .. RECONNECT + 1 /\ sinceRetransmit' \in 0 .. Unset
    BY <1>1, <1>2, <1>3, NaturalConstants DEF MqttTypeOK, Unset
  <2>3. QED BY <1>1, <1>2, <1>4, <2>1, <2>2 DEF MqttTypeOK
<1>8. LockInv' /\ StateInv'
  <2>1. outbox # <<>> => outbox' # <<>>
    <3>1. outbox \in Seq(Item)
      BY <1>1 DEF MqttTypeOK
    <3>2. QED BY <1>4, <3>1 DEF SameMessages
  <2>2. QED BY <1>1, <1>2, <1>3, <2>1 DEF LockInv, StateInv, MqttTypeOK
<1>9. QED BY <1>6, <1>7, <1>8 DEF MqttInv

\* The ways in and out of esp_mqtt_client_publish that store nothing.
RefusedStep == PublishLock \/ PublishFull \/ PublishNoMemory \/ PublishSendFails

LEMMA RefusedStepKeeps == MqttInv /\ RefusedStep => MqttInv'
<1> SUFFICES ASSUME MqttInv, RefusedStep PROVE MqttInv'
  OBVIOUS
<1> USE DEF timerVars, netVars, historyVars
<1>1. MqttTypeOK /\ LockInv /\ StateInv
  BY DEF MqttInv
<1>2. /\ UNCHANGED <<taskPc, outbox, sinceRetransmit, sinceKeepalive, toBroker, toClient,
                     received, failures, kept, expired, idReused>>
      /\ \/ /\ apiLock = "free" /\ apiLock' = "publisher" /\ pubStep' = "enqueue"
            /\ published < MaxWindow /\ published' = published
         \/ /\ pubStep # "idle" /\ apiLock' = "free" /\ pubStep' = "idle"
            /\ published' = published + 1
  BY DEF RefusedStep, PublishLock, PublishFull, PublishNoMemory, PublishSendFails, PublishReturns,
         Unlock, WriteFails
<1>3. \/ UNCHANGED <<conn, state, connected, sinceClosed, waitPing>>
      \/ /\ conn' = "closed" /\ state' = "WAIT_RECONNECT" /\ connected' = FALSE
         /\ sinceClosed' = 0 /\ waitPing' = FALSE
  BY DEF RefusedStep, PublishLock, PublishFull, PublishNoMemory, PublishSendFails, Abort
<1>4. MqttTypeOK'
  <2>1. /\ state' \in {"INIT", "CONNECTED", "WAIT_RECONNECT"} /\ connected' \in BOOLEAN
        /\ conn' \in {"up", "broken", "closed"} /\ waitPing' \in BOOLEAN
    BY <1>1, <1>3 DEF MqttTypeOK
  <2>2. sinceClosed' \in 0 .. RECONNECT + 1 /\ published' \in 0 .. MaxWindow
    BY <1>1, <1>2, <1>3, NaturalConstants DEF MqttTypeOK, LockInv
  <2>3. /\ apiLock' \in {"free", "task", "publisher"} /\ pubStep' \in {"idle", "enqueue", "send"}
    BY <1>2
  <2>4. QED BY <1>1, <1>2, <2>1, <2>2, <2>3 DEF MqttTypeOK
<1>5. LockInv'
  BY <1>1, <1>2 DEF LockInv, MqttTypeOK
<1>6. StateInv'
  BY <1>1, <1>2, <1>3 DEF StateInv
<1>given. Given \subseteq Given'
  BY <1>1, <1>2 DEF Given, MqttTypeOK, LockInv
<1>7. QED BY <1>2, <1>4, <1>5, <1>6, <1>given, QuietStep

\* A new message: only here can an id be drawn that another message has.
LEMMA PublishEnqueueKeeps ==
    ASSUME MqttInv, NEW id \in MsgIds, PublishEnqueue(id)
    PROVE  MqttInv'
<1> USE DEF timerVars, netVars, callVars
<1>1. MqttTypeOK /\ LockInv /\ StateInv /\ IdsInv /\ GivenInv
  BY DEF MqttInv
<1> DEFINE w == published + 1
           item == [window |-> w, id |-> id, pending |-> "QUEUED", age |-> 0]
           n == Len(outbox) + 1
<1>2. /\ pubStep = "enqueue"
      /\ outbox' = Append(outbox, item)
      /\ kept' = kept \cup {w} /\ (~ idReused' => ~ idReused /\ id \notin IdsInUse)
      /\ idReused' \in BOOLEAN
      /\ \/ /\ state = "CONNECTED" /\ pubStep' = "send"
            /\ UNCHANGED <<apiLock, published>>
         \/ /\ pubStep' = "idle" /\ apiLock' = "free" /\ published' = w
      /\ UNCHANGED <<taskPc, state, connected, sinceRetransmit, sinceKeepalive, sinceClosed,
                     waitPing, conn, toBroker, toClient, received, failures, expired>>
  BY DEF PublishEnqueue, PublishReturns, Unlock
<1>3. w \in Windows /\ w \in 0 .. MaxWindow
  BY <1>1, <1>2, NaturalConstants DEF LockInv, MqttTypeOK, Windows
<1>4. item \in Item /\ item.window = w /\ item.id = id
  BY <1>3, NaturalConstants DEF Item
<1> HIDE DEF item, w
<1>5. /\ outbox' \in Seq(Item) /\ outbox' # <<>>
      /\ DOMAIN outbox' = 1 .. n /\ DOMAIN outbox = 1 .. n - 1 /\ n \in Nat \ {0}
      /\ outbox'[n] = item /\ \A i \in DOMAIN outbox : outbox'[i] = outbox[i] /\ i # n
  BY <1>1, <1>2, <1>4, AppendProperties DEF MqttTypeOK
<1> HIDE DEF n
<1>6. \A i \in DOMAIN outbox' : i = n \/ i \in DOMAIN outbox
  BY <1>5
<1>7. IdsInv'
  <2> SUFFICES ASSUME ~ idReused' PROVE (DistinctIds /\ PublishesMatch /\ AcksMatch /\ NothingGone)'
    BY DEF IdsInv
  <2>1. DistinctIds /\ PublishesMatch /\ AcksMatch /\ NothingGone
    BY <1>1, <1>2 DEF IdsInv
  <2>2. /\ \A i \in DOMAIN outbox : outbox[i].id # id
        /\ \A k \in DOMAIN toBroker : toBroker[k].type = "PUBLISH" => toBroker[k].id # id
        /\ \A k \in DOMAIN toClient : toClient[k].type = "PUBACK" => toClient[k].id # id
    BY <1>2 DEF IdsInUse, ToSet
  <2>3. DistinctIds'
    BY <1>4, <1>5, <1>6, <2>1, <2>2 DEF DistinctIds
  <2>4. PublishesMatch'
    BY <1>2, <1>4, <1>5, <1>6, <2>1, <2>2 DEF PublishesMatch
  <2>5. AcksMatch'
    BY <1>2, <1>4, <1>5, <1>6, <2>1, <2>2 DEF AcksMatch
  <2>6. NothingGone'
    <3>1. InOutbox \subseteq InOutbox' /\ w \in InOutbox'
      <4>1. n \in DOMAIN outbox' /\ outbox'[n].window = w
        BY <1>4, <1>5
      <4>2. \A i \in DOMAIN outbox : i \in DOMAIN outbox' /\ outbox'[i].window = outbox[i].window
        BY <1>5
      <4>3. QED BY <4>1, <4>2 DEF InOutbox
    <3>2. QED BY <1>2, <2>1, <3>1 DEF NothingGone
  <2>7. QED BY <2>3, <2>4, <2>5, <2>6
<1>8. MqttTypeOK'
  <2>1. /\ published' \in 0 .. MaxWindow /\ kept' \in SUBSET Windows
        /\ apiLock' \in {"free", "task", "publisher"} /\ pubStep' \in {"idle", "enqueue", "send"}
    BY <1>1, <1>2, <1>3 DEF MqttTypeOK
  <2>2. QED BY <1>1, <1>2, <1>5, <2>1 DEF MqttTypeOK
<1>9. LockInv' /\ StateInv'
  BY <1>1, <1>2, <1>5 DEF LockInv, StateInv, MqttTypeOK
<1>10. GivenInv'
  <2>1. Given \subseteq Given' /\ w \in Given'
    BY <1>1, <1>2, <1>3 DEF Given, MqttTypeOK, Windows, w
  <2>2. InOutbox' \subseteq InOutbox \cup {w}
    <3>1. \A i \in DOMAIN outbox' : outbox'[i].window \in InOutbox \cup {w}
      BY <1>4, <1>5, <1>6 DEF InOutbox
    <3>2. QED BY <3>1 DEF InOutbox
  <2>3. QED BY <1>1, <1>2, <2>1, <2>2 DEF GivenInv
<1>11. QED BY <1>7, <1>8, <1>9, <1>10 DEF MqttInv

LEMMA PublishSentKeeps == MqttInv /\ PublishSent => MqttInv'
<1> SUFFICES ASSUME MqttInv, PublishSent PROVE MqttInv'
  OBVIOUS
<1> USE DEF timerVars, historyVars
<1>1. MqttTypeOK /\ LockInv /\ StateInv /\ IdsInv /\ GivenInv
  BY DEF MqttInv
<1> DEFINE n == Len(outbox)
<1>2. /\ pubStep = "send"
      /\ WriteOk(PublishPacket(outbox[n]))
      /\ outbox' = SetPending(SetTick(outbox, outbox[n].id), outbox[n].id, "TRANSMITTED")
      /\ apiLock' = "free" /\ pubStep' = "idle" /\ published' = published + 1
      /\ UNCHANGED <<taskPc, state, connected, sinceRetransmit, sinceKeepalive, sinceClosed,
                     waitPing, conn, toClient, received, failures, kept, expired, idReused>>
  BY DEF PublishSent, PublishReturns, Unlock
<1>3. n \in DOMAIN outbox
  <2>1. outbox \in Seq(Item) /\ outbox # <<>>
    BY <1>1, <1>2 DEF LockInv, MqttTypeOK
  <2>2. QED BY <2>1
<1> HIDE DEF n
<1>4. toBroker' \in Seq(Packet) /\ conn # "closed" /\ SendsFromOutbox
  BY <1>1, <1>2, <1>3, ItemSent
<1>5. outbox' \in Seq(Item) /\ SameMessages(outbox', outbox)
  <2>1. /\ SetTick(outbox, outbox[n].id) \in Seq(Item)
        /\ SameMessages(SetTick(outbox, outbox[n].id), outbox)
    BY <1>1, SetTickKeeps DEF MqttTypeOK
  <2>2. outbox' \in Seq(Item) /\ SameMessages(outbox', SetTick(outbox, outbox[n].id))
    BY <1>2, <2>1, SetPendingKeeps
  <2>3. QED BY <2>1, <2>2 DEF SameMessages
<1>given. Given \subseteq Given'
  BY <1>1, <1>2 DEF Given, MqttTypeOK, LockInv
<1>6. IdsInv' /\ GivenInv'
  BY <1>1, <1>2, <1>4, <1>5, IdsFrameSame, <1>given, NothingSent
<1>7. MqttTypeOK'
  <2>1. published' \in 0 .. MaxWindow
    BY <1>1, <1>2, NaturalConstants DEF LockInv, MqttTypeOK
  <2>2. QED BY <1>1, <1>2, <1>4, <1>5, <2>1 DEF MqttTypeOK
<1>8. LockInv' /\ StateInv'
  BY <1>1, <1>2 DEF LockInv, StateInv, MqttTypeOK
<1>9. QED BY <1>6, <1>7, <1>8 DEF MqttInv

\* The broker has a window before its PUBACK is under way.
LEMMA BrokerTakesKeeps == MqttInv /\ BrokerTakes => MqttInv'
<1> SUFFICES ASSUME MqttInv, BrokerTakes PROVE MqttInv'
  OBVIOUS
<1> USE DEF timerVars, historyVars, callVars
<1>1. MqttTypeOK /\ LockInv /\ StateInv /\ IdsInv /\ GivenInv
  BY DEF MqttInv
<1> DEFINE packet == Head(toBroker)
           answer == IF packet.type = "PUBLISH" THEN [type |-> "PUBACK", id |-> packet.id]
                                                ELSE [type |-> "PINGRESP"]
<1>2. /\ toBroker # <<>> /\ toBroker' = Tail(toBroker)
      /\ received' = IF packet.type = "PUBLISH" THEN received \cup {packet.window} ELSE received
      /\ toClient' = IF conn = "up" THEN Append(toClient, answer) ELSE toClient
      /\ UNCHANGED <<apiLock, taskPc, pubStep, published, state, connected, outbox,
                     sinceRetransmit, sinceKeepalive, sinceClosed, waitPing, conn, failures,
                     kept, expired, idReused>>
  BY DEF BrokerTakes
<1>3. /\ toBroker' \in Seq(Packet) /\ packet = toBroker[1] /\ 1 \in DOMAIN toBroker
      /\ packet \in Packet
      /\ \A k \in DOMAIN toBroker' : toBroker'[k] = toBroker[k + 1] /\ k + 1 \in DOMAIN toBroker
  <2>1. toBroker \in Seq(Packet) /\ Len(toBroker) \in Nat \ {0}
        /\ DOMAIN toBroker = 1 .. Len(toBroker)
    BY <1>1, <1>2 DEF MqttTypeOK
  <2>2. QED BY <1>2, <2>1, HeadTailProperties
<1> HIDE DEF packet
<1>4. packet.type = "PUBLISH" => packet.window \in Windows /\ packet.id \in MsgIds
  BY <1>3 DEF Packet
<1>5. /\ answer \in Packet
      /\ answer.type = "PUBACK" => packet.type = "PUBLISH" /\ answer.id = packet.id
  BY <1>4 DEF Packet
<1> HIDE DEF answer
<1>6. /\ toClient' \in Seq(Packet)
      /\ \A k \in DOMAIN toClient' :
             toClient'[k] = answer \/ \E m \in DOMAIN toClient : toClient'[k] = toClient[m]
  <2>1. /\ Append(toClient, answer) \in Seq(Packet)
        /\ Len(Append(toClient, answer)) = Len(toClient) + 1
        /\ \A k \in 1 .. Len(toClient) : Append(toClient, answer)[k] = toClient[k]
        /\ Append(toClient, answer)[Len(toClient) + 1] = answer
    BY <1>1, <1>5, AppendProperties DEF MqttTypeOK
  <2>2. /\ DOMAIN Append(toClient, answer) = 1 .. Len(toClient) + 1
        /\ DOMAIN toClient = 1 .. Len(toClient) /\ Len(toClient) \in Nat
        /\ toClient \in Seq(Packet)
    BY <1>1, <2>1 DEF MqttTypeOK
  <2>3. CASE conn = "up"
    BY <1>2, <2>1, <2>2, <2>3
  <2>4. CASE conn # "up"
    BY <1>2, <2>2, <2>4
  <2>5. QED BY <2>3, <2>4
<1>7. SendsFromOutbox
  BY <1>3 DEF SendsFromOutbox
<1>8. AcksWhatArrived
  BY <1>2, <1>3, <1>5, <1>6 DEF AcksWhatArrived
<1>received. ReceivesSent
  BY <1>2, <1>3 DEF ReceivesSent
<1>given. Given \subseteq Given'
  BY <1>1, <1>2 DEF Given, MqttTypeOK, LockInv
<1>9. IdsInv' /\ GivenInv'
  BY <1>1, <1>2, <1>7, <1>8, <1>given, <1>received, SameOutbox, IdsFrameSame
<1>10. MqttTypeOK'
  <2>1. received' \in SUBSET Windows
    BY <1>1, <1>2, <1>4 DEF MqttTypeOK
  <2>2. QED BY <1>1, <1>2, <1>3, <1>6, <2>1 DEF MqttTypeOK
<1>11. LockInv' /\ StateInv'
  BY <1>1, <1>2 DEF LockInv, StateInv, MqttTypeOK
<1>12. QED BY <1>9, <1>10, <1>11 DEF MqttInv

LEMMA NetworkBreaksKeeps == MqttInv /\ NetworkBreaks => MqttInv'
<1> SUFFICES ASSUME MqttInv, NetworkBreaks PROVE MqttInv'
  OBVIOUS
<1> USE DEF timerVars, historyVars, callVars
<1>1. MqttTypeOK /\ LockInv /\ StateInv /\ IdsInv /\ GivenInv
  BY DEF MqttInv
<1>2. /\ conn = "up" /\ conn' = "broken" /\ failures < MaxFailures /\ failures' = failures + 1
      /\ UNCHANGED <<apiLock, taskPc, pubStep, published, state, connected, outbox,
                     sinceRetransmit, sinceKeepalive, sinceClosed, waitPing, received,
                     kept, expired, idReused>>
  BY DEF NetworkBreaks
<1>3. ASSUME NEW q \in Seq(Packet), NEW r, NEW n \in 0 .. Len(q), r = SubSeq(q, 1, n)
      PROVE  r \in Seq(Packet) /\ \A k \in DOMAIN r : k \in DOMAIN q /\ r[k] = q[k]
  BY <1>3
<1>4. toBroker' \in Seq(Packet)
      /\ \A k \in DOMAIN toBroker' : k \in DOMAIN toBroker /\ toBroker'[k] = toBroker[k]
  BY <1>1, <1>3 DEF NetworkBreaks, MqttTypeOK
<1>5. toClient' \in Seq(Packet)
      /\ \A k \in DOMAIN toClient' : k \in DOMAIN toClient /\ toClient'[k] = toClient[k]
  BY <1>1, <1>3 DEF NetworkBreaks, MqttTypeOK
<1>6. SendsFromOutbox /\ AcksWhatArrived
  BY <1>4, <1>5 DEF SendsFromOutbox, AcksWhatArrived
<1>given. Given \subseteq Given'
  BY <1>1, <1>2 DEF Given, MqttTypeOK, LockInv
<1>7. IdsInv' /\ GivenInv'
  BY <1>1, <1>2, <1>6, SameOutbox, IdsFrameSame, <1>given, NothingSent
<1>8. MqttTypeOK'
  <2>1. failures' \in 0 .. MaxFailures
    BY <1>1, <1>2, NaturalConstants DEF MqttTypeOK
  <2>2. QED BY <1>1, <1>2, <1>4, <1>5, <2>1 DEF MqttTypeOK
<1>9. LockInv' /\ StateInv'
  BY <1>1, <1>2 DEF LockInv, StateInv, MqttTypeOK
<1>10. QED BY <1>7, <1>8, <1>9 DEF MqttInv

LEMMA TickKeeps == MqttInv /\ Tick => MqttInv'
<1> SUFFICES ASSUME MqttInv, Tick PROVE MqttInv'
  OBVIOUS
<1> USE DEF netVars, historyVars, callVars
<1>1. MqttTypeOK /\ LockInv /\ StateInv /\ IdsInv /\ GivenInv
  BY DEF MqttInv
<1>2. /\ UNCHANGED <<apiLock, taskPc, pubStep, published, state, connected, waitPing, conn,
                     toBroker, toClient, received, failures, kept, expired, idReused>>
      /\ outbox' = [i \in DOMAIN outbox |-> [outbox[i] EXCEPT !.age = Later(@, MaxAge)]]
  BY DEF Tick
<1>3. outbox' \in Seq(Item) /\ SameMessages(outbox', outbox)
  <2>1. outbox \in Seq(Item) /\ DOMAIN outbox = 1 .. Len(outbox) /\ Len(outbox) \in Nat
    BY <1>1 DEF MqttTypeOK
  <2>2. ASSUME NEW i \in DOMAIN outbox
        PROVE  outbox'[i] \in Item /\ outbox'[i].id = outbox[i].id
               /\ outbox'[i].window = outbox[i].window
    <3>1. outbox[i] \in Item
      BY <2>1
    <3>2. Later(outbox[i].age, MaxAge) \in 0 .. MaxAge
      BY <3>1, NaturalConstants DEF Item, Later
    <3>3. outbox'[i] = [outbox[i] EXCEPT !.age = Later(outbox[i].age, MaxAge)]
      BY <1>2
    <3> DEFINE age == Later(outbox[i].age, MaxAge)
    <3> HIDE DEF age
    <3>4. age \in 0 .. MaxAge /\ outbox'[i] = [outbox[i] EXCEPT !.age = age]
      BY <3>2, <3>3 DEF age
    <3>5. QED BY <3>1, <3>4 DEF Item
  <2>3. DOMAIN outbox' = DOMAIN outbox
    BY <1>2
  <2>4. outbox' \in [1 .. Len(outbox) -> Item]
    BY <1>2, <2>1, <2>2
  <2>5. QED BY <2>1, <2>2, <2>3, <2>4, SeqDef DEF SameMessages
<1>given. Given \subseteq Given'
  BY <1>1, <1>2 DEF Given, MqttTypeOK, LockInv
<1>4. IdsInv' /\ GivenInv'
  BY <1>1, <1>2, <1>3, IdsFrameSame, <1>given, NothingSent
<1>5. MqttTypeOK'
  <2>1. sinceRetransmit' \in 0 .. Unset
    <3>1. /\ RETRANSMIT \in Nat /\ Unset = RETRANSMIT + 1 /\ sinceRetransmit \in 0 .. Unset
          /\ RETRANSMIT \in 0 .. Unset
      BY <1>1, NaturalConstants DEF MqttTypeOK, Unset
    <3>2. Later(sinceRetransmit, RETRANSMIT) \in 0 .. Unset
      BY <3>1, LaterStays
    <3> QED BY <3>1, <3>2, Zenon DEF Tick
  <2>2. sinceKeepalive' \in 0 .. KEEPALIVE
    <3>1. KEEPALIVE \in Nat /\ sinceKeepalive \in 0 .. KEEPALIVE
      BY <1>1, NaturalConstants DEF MqttTypeOK
    <3>2. Later(sinceKeepalive, KEEPALIVE) \in 0 .. KEEPALIVE
      BY <3>1, LaterStays
    <3> QED BY <1>1, <3>1, <3>2, Zenon DEF Tick
  <2>3. sinceClosed' \in 0 .. RECONNECT + 1
    <3>1. RECONNECT + 1 \in Nat /\ sinceClosed \in 0 .. RECONNECT + 1
      BY <1>1, NaturalConstants DEF MqttTypeOK
    <3>2. Later(sinceClosed, RECONNECT + 1) \in 0 .. RECONNECT + 1
      BY <3>1, LaterStays
    <3> QED BY <1>1, <3>1, <3>2, Zenon DEF Tick
  <2>4. QED BY <1>1, <1>2, <1>3, <2>1, <2>2, <2>3 DEF MqttTypeOK
<1>6. LockInv' /\ StateInv'
  <2>1. outbox # <<>> => outbox' # <<>>
    <3>1. outbox \in Seq(Item)
      BY <1>1 DEF MqttTypeOK
    <3>2. QED BY <1>3, <3>1 DEF SameMessages
  <2>2. QED BY <1>1, <1>2, <2>1 DEF LockInv, StateInv, MqttTypeOK
<1>7. QED BY <1>4, <1>5, <1>6 DEF MqttInv

LEMMA NextKeepsMqtt == MqttInv /\ [MqttNext]_mqttVars => MqttInv'
<1> SUFFICES ASSUME MqttInv, [MqttNext]_mqttVars PROVE MqttInv'
  OBVIOUS
<1>1. CASE TaskTakesLock
  BY <1>1, TaskLockKeeps, QuietTaskStepKeeps DEF TaskTakesLock, QuietTaskStep
<1>2. CASE TaskStep
  BY <1>2, QuietTaskStepKeeps, ReceivePacketKeeps, ResendStepKeeps
     DEF TaskStep, QuietTaskStep, ResendStep
<1>3. CASE PublishLock \/ PublishStep
  BY <1>3, RefusedStepKeeps, PublishEnqueueKeeps, PublishSentKeeps DEF PublishStep, RefusedStep
<1>4. CASE BrokerTakes \/ NetworkBreaks \/ Tick
  BY <1>4, BrokerTakesKeeps, NetworkBreaksKeeps, TickKeeps
<1>5. CASE UNCHANGED mqttVars
  <2>1. UNCHANGED <<apiLock, taskPc, pubStep, published, state, connected, outbox,
                    sinceRetransmit, sinceKeepalive, sinceClosed, waitPing, conn, toBroker,
                    toClient, received, failures, kept, expired, idReused>>
    BY <1>5 DEF mqttVars, callVars, timerVars, netVars, historyVars
  <2>2. MqttTypeOK' /\ LockInv' /\ StateInv' /\ Given' = Given
    BY <2>1 DEF MqttInv, MqttTypeOK, LockInv, StateInv, Given
  <2>3. QED BY <2>1, <2>2, QuietStep
<1>6. QED BY <1>1, <1>2, <1>3, <1>4, <1>5 DEF MqttNext

\* The invariant of the client holds in every state it can reach.
THEOREM MqttInductiveInvariant == MqttSpec => []MqttInv
<1>1. QED BY InitMqtt, NextKeepsMqtt, PTL DEF MqttSpec

\* What the runs check of the client follows from it.
LEMMA MqttInvImplies == MqttInv => MqttTypeOK /\ StateAgrees /\ NoSilentLoss
BY DEF MqttInv, StateInv, StateAgrees, IdsInv, NothingGone, NoSilentLoss

(***************************************************************************)
(* Type correctness of the client, for every size of its outbox and its    *)
(* buffers and every timeout: the bounds of mqtt_client.c and mqtt_outbox.c*)
(* hold on every path through esp_mqtt_task and esp_mqtt_client_publish.   *)
(***************************************************************************)
THEOREM MqttTypeCorrect == MqttSpec => []MqttTypeOK
<1>1. QED BY MqttInductiveInvariant, MqttInvImplies, PTL

(***************************************************************************)
(* The state, the transport and the application's flag agree, whoever runs *)
(* (mqtt_client.c:2205, 851-858, app_main.c:71-78).                        *)
(***************************************************************************)
THEOREM StateAlwaysAgrees == MqttSpec => []StateAgrees
<1>1. QED BY MqttInductiveInvariant, MqttInvImplies, PTL

(***************************************************************************)
(* At least once: no window leaves the outbox but by its arrival or its    *)
(* age, as long as no id was drawn twice (mqtt_msg.c:71, mqtt_outbox.c).   *)
(***************************************************************************)
THEOREM NothingLostInSilence == MqttSpec => []NoSilentLoss
<1>1. QED BY MqttInductiveInvariant, MqttInvImplies, PTL

----------------------------------------------------------------------------
(* The device: the pool above the client *)

\* A step of the device is a step of the pool, or leaves it alone.
LEMMA DeviceStepOfPool == [DeviceNext]_deviceVars => [Next]_poolVars
BY DEF DeviceNext, deviceVars, CallPublish, StepPublish, PublishTaskAlone, SampleTaskAlone, Client,
       Next, PublishTask

\* And a step of the client, or leaves it alone.
LEMMA DeviceStepOfClient == [DeviceNext]_deviceVars => [MqttNext]_mqttVars
BY DEF DeviceNext, deviceVars, CallPublish, StepPublish, PublishTaskAlone, SampleTaskAlone, Client,
       MqttNext, PromptTick

(***************************************************************************)
(* The double buffer is used as WindowPool says, although its call of the  *)
(* client now waits for a lock and may fail: the device implements it.     *)
(***************************************************************************)
THEOREM DeviceImplementsPool == DeviceSpec => Spec
<1>1. QED BY DeviceStepOfPool, PTL DEF DeviceSpec, DeviceInit, Spec

(***************************************************************************)
(* The client is called as MqttClient says, by a task that holds a buffer  *)
(* meanwhile: the device implements it.                                    *)
(***************************************************************************)
THEOREM DeviceImplementsClient == DeviceSpec => MqttSpec
<1>1. QED BY DeviceStepOfClient, PTL DEF DeviceSpec, DeviceInit, MqttSpec

(***************************************************************************)
(* So what was proved of each half holds of the device: no buffer has two  *)
(* owners while the call waits, payloads are gapless and in order, the     *)
(* tasks agree on the connection, and no stored window is lost in silence. *)
(***************************************************************************)
THEOREM DeviceKeeps ==
    DeviceSpec => [](OneOwner /\ HandedGapless /\ StateAgrees /\ NoSilentLoss)
<1>1. QED BY DeviceImplementsPool, DeviceImplementsClient, SingleOwner, PayloadsGapless,
             StateAlwaysAgrees, NothingLostInSilence, PTL

\* Window w of the client: handed over, or about to be while its call runs.
Payload(w) == IF w \in DOMAIN handed THEN handed[w] ELSE json

\* The call runs while publish_task holds the buffer, once for each payload.
CallInv ==
    /\ published = Len(handed)
    /\ pubStep # "idle" => pubPc = "publish"

\* No window is at the broker that is not a gapless payload of the pool.
ArrivedGapless == \A w \in received : Gapless(Payload(w))

LEMMA InitCall == DeviceInit => CallInv
BY DEF DeviceInit, PoolInit, MqttInit, CallInv

LEMMA CallStepKeeps ==
    ASSUME PoolInv, MqttInv, CallInv, [DeviceNext]_deviceVars PROVE CallInv'
<1>1. handed \in Seq(Seq(Sample)) /\ Len(handed) \in Nat /\ json \in Seq(Sample)
  BY DEF PoolInv, TypeOK
<1>2. ASSUME handed' = Append(handed, json) PROVE Len(handed') = Len(handed) + 1
  BY <1>1, <1>2, AppendProperties
<1>3. CASE CallPublish
  BY <1>3 DEF CallPublish, PublishLock, CallInv, poolVars
<1>4. CASE StepPublish
  <2>1. pubStep # "idle"
    BY <1>4 DEF StepPublish, PublishStep, PublishFull, PublishNoMemory, PublishSent,
                PublishSendFails, PublishEnqueue
  <2>2. CASE pubStep' = "idle"
    <3>1. published' = published + 1
      BY <1>4, <2>2 DEF StepPublish, PublishStep, PublishFull, PublishNoMemory, PublishSent,
                        PublishSendFails, PublishEnqueue, PublishReturns
    <3>2. handed' = Append(handed, json)
      BY <1>4, <2>2 DEF StepPublish, Publish
    <3>3. QED BY <1>2, <2>2, <3>1, <3>2 DEF CallInv
  <2>3. CASE pubStep' # "idle"
    <3>1. published' = published
      BY <1>4, <2>3 DEF StepPublish, PublishStep, PublishFull, PublishNoMemory, PublishSent,
                        PublishSendFails, PublishEnqueue, PublishReturns
    <3>2. UNCHANGED poolVars
      BY <1>4, <2>3 DEF StepPublish
    <3>3. QED BY <2>1, <3>1, <3>2 DEF CallInv, poolVars
  <2>4. QED BY <2>2, <2>3
<1>5. CASE PublishTaskAlone
  <2>1. /\ pubPc # "publish" /\ handed' = handed
        /\ UNCHANGED <<pubStep, published>>
    BY <1>5 DEF PublishTaskAlone, ReceiveReady, ConvertSample, Converted, JsonTooLarge, Release,
                mqttVars, callVars
  <2>2. QED BY <2>1 DEF CallInv
<1>6. CASE SampleTaskAlone
  <2>1. UNCHANGED <<pubPc, handed>>
    BY <1>6 DEF SampleTaskAlone, SampleTask, Store, Wake, DrainOk, ReadOk, DrainOverflow,
                ReadOverflow, ReadError, TakeBuffer, DropSample, StoreSample, SubmitWindow,
                BatchDone, publishVars
  <2>2. UNCHANGED <<pubStep, published>>
    BY <1>6 DEF SampleTaskAlone, mqttVars, callVars
  <2>3. QED BY <2>1, <2>2 DEF CallInv
<1>7. CASE Client
  <2>1. UNCHANGED <<pubStep, published>>
    BY <1>7 DEF Client, TaskTakesLock, TaskLock, PollAbort, TaskStep, ConnectOk, ConnectFails,
                ReceiveNothing, ReceivePacket, ReceiveFails, ResendQueued, ResendTransmitted,
                NothingToResend, KeepaliveFine, Ping, NoPingResponse, Wait, Check, PollReturns,
                PollFails, BrokerTakes, NetworkBreaks, PromptTick, Tick, callVars
  <2>2. UNCHANGED <<pubPc, handed>>
    BY <1>7 DEF Client, poolVars
  <2>3. QED BY <2>1, <2>2 DEF CallInv
<1>8. CASE UNCHANGED deviceVars
  BY <1>8 DEF deviceVars, poolVars, mqttVars, callVars, CallInv
<1>9. QED BY <1>3, <1>4, <1>5, <1>6, <1>7, <1>8 DEF DeviceNext

(***************************************************************************)
(* End to end: whatever the broker has is a gapless window of the sensor,  *)
(* although the buffer is reused, the client stores, resends and forgets,  *)
(* and the network breaks (app_main.c:178-301, mqtt_client.c:2191-2273).   *)
(***************************************************************************)
THEOREM OnlyGaplessArrive == DeviceSpec => []ArrivedGapless
<1> DEFINE Inv == PoolInv /\ ContentsInv /\ MqttInv
<1>1. DeviceSpec => []Inv
  BY DeviceImplementsPool, DeviceImplementsClient, PoolInductiveInvariant,
     MqttInductiveInvariant, PTL
<1>2. Inv /\ CallInv => ArrivedGapless
  <2> SUFFICES ASSUME Inv, CallInv, NEW w \in received PROVE Gapless(Payload(w))
    BY DEF ArrivedGapless
  <2>1. w \in Given /\ DOMAIN handed = 1 .. Len(handed) /\ published \in Nat
    BY DEF MqttInv, GivenInv, MqttTypeOK, PoolInv, TypeOK
  <2>2. CASE w \in DOMAIN handed
    BY <2>2 DEF Payload, ContentsInv, CompleteInv, HandedInv
  <2>3. CASE w \notin DOMAIN handed
    <3>1. pubStep = "send"
      BY <2>1, <2>3 DEF Given, CallInv
    <3>2. QED BY <2>3, <3>1, JsonGapless DEF Payload, CallInv, ContentsInv
  <2>4. QED BY <2>2, <2>3
<1>3. Inv /\ CallInv /\ [DeviceNext]_deviceVars => CallInv'
  BY CallStepKeeps
<1>4. QED BY <1>1, <1>2, <1>3, InitCall, PTL DEF DeviceSpec

----------------------------------------------------------------------------
(* The firmware *)

LEMMA MpuConstants ==
    FIFO_SIZE \in Nat /\ FIFO_SIZE > SampleBytes /\ READ_CHUNK \in Nat \ {0}
BY Mpu6500Assumption

USE MpuConstants

----------------------------------------------------------------------------
(* Multiples of a sample's size *)

Multiples == {d * SampleBytes : d \in Nat}

LEMMA TimesIsMultiple ==
    ASSUME NEW n \in Nat PROVE n * SampleBytes \in Multiples /\ n * SampleBytes \in Nat
BY DEF Multiples

LEMMA MultipleIsNat == ASSUME NEW a \in Multiples PROVE a \in Nat
BY TimesIsMultiple DEF Multiples

LEMMA SmallMultiples == 0 \in Multiples /\ SampleBytes \in Multiples
<1>1. 0 * SampleBytes = 0 /\ 1 * SampleBytes = SampleBytes
  OBVIOUS
<1>2. QED BY <1>1, TimesIsMultiple

LEMMA MultipleSum ==
    ASSUME NEW a \in Multiples, NEW b \in Multiples PROVE a + b \in Multiples
<1>1. PICK m \in Nat, n \in Nat : a = m * SampleBytes /\ b = n * SampleBytes
  BY DEF Multiples
<1>2. (m + n) * SampleBytes = m * SampleBytes + n * SampleBytes
  OBVIOUS
<1>3. (m + n) * SampleBytes \in Multiples
  <2>1. m + n \in Nat
    OBVIOUS
  <2>2. QED BY <2>1, TimesIsMultiple, Zenon
<1>4. QED BY <1>1, <1>2, <1>3, Zenon

LEMMA MultipleDifference ==
    ASSUME NEW a \in Multiples, NEW b \in Multiples, b <= a PROVE a - b \in Multiples
<1>1. PICK m \in Nat, n \in Nat : a = m * SampleBytes /\ b = n * SampleBytes
  BY DEF Multiples
<1>2. ASSUME n * SampleBytes <= m * SampleBytes PROVE n <= m
  BY <1>2
<1>3. n <= m
  BY <1>1, <1>2
<1>4. (m - n) * SampleBytes = m * SampleBytes - n * SampleBytes
  OBVIOUS
<1>5. (m - n) * SampleBytes \in Multiples
  <2>1. m - n \in Nat
    BY <1>3
  <2>2. QED BY <2>1, TimesIsMultiple, Zenon
<1>6. QED BY <1>1, <1>4, <1>5, Zenon

LEMMA MultipleIsAligned == ASSUME NEW a \in Multiples PROVE Aligned(a)
<1>1. PICK m \in Nat : a = m * SampleBytes
  BY DEF Multiples
<1>2. (m * SampleBytes) % SampleBytes = 0
  OBVIOUS
<1>3. QED BY <1>1, <1>2 DEF Aligned

LEMMA FifoSizeOdd == FIFO_SIZE \notin Multiples
BY MultipleIsAligned, Mpu6500Assumption DEF Aligned

\* The samples counted are in the FIFO.
LEMMA CountFits ==
    ASSUME NEW n \in Nat, NEW r \in Nat, r <= n \div SampleBytes
    PROVE  r * SampleBytes <= n
OBVIOUS

LEMMA CountType == ASSUME NEW n \in Nat PROVE n \div SampleBytes \in Nat
OBVIOUS

----------------------------------------------------------------------------
(* The operators on the FIFO *)

LEMMA SeqOfTable ==
    ASSUME NEW S, NEW n \in Nat, NEW d, d = [i \in 1 .. n |-> d[i]], \A i \in 1 .. n : d[i] \in S
    PROVE  d \in Seq(S) /\ Len(d) = n
BY SMTT(30)

\* All but the first n elements.
LEMMA RestGives ==
    ASSUME NEW S, NEW q \in Seq(S), NEW n \in 0 .. Len(q)
    PROVE  /\ SubSeq(q, n + 1, Len(q)) \in Seq(S)
           /\ Len(SubSeq(q, n + 1, Len(q))) = Len(q) - n
           /\ \A i \in 1 .. Len(q) - n : SubSeq(q, n + 1, Len(q))[i] = q[n + i]
<1>1. Len(q) \in Nat /\ n \in Nat /\ n + 1 \in Int /\ Len(q) \in Int
  OBVIOUS
<1>2. \A i \in n + 1 .. Len(q) : q[i] \in S
  BY <1>1, ElementOfSeq
<1> DEFINE r == SubSeq(q, n + 1, Len(q))
<1>3. /\ r \in Seq(S)
      /\ Len(r) = IF n + 1 <= Len(q) THEN Len(q) - (n + 1) + 1 ELSE 0
      /\ \A i \in 1 .. Len(q) - (n + 1) + 1 : r[i] = q[(n + 1) + i - 1]
  BY <1>1, <1>2, SubSeqProperties
<1> HIDE DEF r
<1>4. \A i \in 1 .. Len(q) - n : (n + 1) + i - 1 = n + i
  BY <1>1
<1>5. /\ Len(q) - (n + 1) + 1 = Len(q) - n
      /\ (IF n + 1 <= Len(q) THEN Len(q) - (n + 1) + 1 ELSE 0) = Len(q) - n
  BY <1>1
<1>6. QED BY <1>3, <1>4, <1>5 DEF r

LEMMA PopGives ==
    ASSUME fifo \in Seq(Nat), NEW n \in 0 .. Len(fifo)
    PROVE  /\ Pop(n) \in Seq(Nat) /\ Len(Pop(n)) = Len(fifo) - n
           /\ \A i \in 1 .. Len(fifo) - n : Pop(n)[i] = fifo[n + i]
BY RestGives, Zenon DEF Pop

LEMMA NewestGives ==
    ASSUME NEW q \in Seq(Nat), NEW over \in Nat,
           over = IF Len(q) > FIFO_SIZE THEN Len(q) - FIFO_SIZE ELSE 0
    PROVE  /\ Newest(q) \in Seq(Nat) /\ Len(Newest(q)) = Len(q) - over
           /\ \A i \in 1 .. Len(q) - over : Newest(q)[i] = q[over + i]
<1>1. over \in 0 .. Len(q) /\ 1 + over = over + 1
  OBVIOUS
<1>2. Newest(q) = SubSeq(q, over + 1, Len(q))
  BY <1>1, Zenon DEF Newest
<1>3. /\ SubSeq(q, over + 1, Len(q)) \in Seq(Nat)
      /\ Len(SubSeq(q, over + 1, Len(q))) = Len(q) - over
      /\ \A i \in 1 .. Len(q) - over : SubSeq(q, over + 1, Len(q))[i] = q[over + i]
  BY <1>1, RestGives, Zenon
<1>4. QED BY <1>2, <1>3, Zenon

\* The bytes of a sample join those in the FIFO.
Grown == fifo \o [i \in 1 .. SampleBytes |-> produced + i - 1]

LEMMA GrownGives ==
    ASSUME fifo \in Seq(Nat), produced \in Nat
    PROVE  /\ Grown \in Seq(Nat) /\ Len(Grown) = Len(fifo) + SampleBytes
           /\ \A i \in 1 .. Len(fifo) : Grown[i] = fifo[i]
           /\ \A i \in 1 .. SampleBytes : Grown[Len(fifo) + i] = produced + i - 1
<1> DEFINE new == [i \in 1 .. SampleBytes |-> produced + i - 1]
<1>1. \A i \in 1 .. SampleBytes : produced + i - 1 \in Nat
  OBVIOUS
<1>2. new \in Seq(Nat) /\ Len(new) = SampleBytes
  BY <1>1
<1>3. \A i \in 1 .. SampleBytes : new[i] = produced + i - 1
  OBVIOUS
<1>4. Grown = fifo \o new
  BY DEF Grown
<1> HIDE DEF new
<1>5. /\ Grown \in Seq(Nat) /\ Len(Grown) = Len(fifo) + Len(new)
      /\ \A i \in 1 .. Len(fifo) + Len(new) :
             Grown[i] = IF i <= Len(fifo) THEN fifo[i] ELSE new[i - Len(fifo)]
  <2>1. new \in Seq(Nat) /\ fifo \in Seq(Nat)
    BY <1>2
  <2>2. QED BY <1>4, <2>1, ConcatProperties, Zenon
<1>6. Len(fifo) \in Nat /\ Len(new) = SampleBytes
  BY <1>2
<1>7. /\ \A i \in 1 .. Len(fifo) : i \in 1 .. Len(fifo) + Len(new) /\ i <= Len(fifo)
      /\ \A i \in 1 .. SampleBytes : /\ Len(fifo) + i \in 1 .. Len(fifo) + Len(new)
                                     /\ ~ (Len(fifo) + i <= Len(fifo))
                                     /\ (Len(fifo) + i) - Len(fifo) = i
  BY <1>6
<1>8. /\ \A i \in 1 .. Len(fifo) : Grown[i] = fifo[i]
      /\ \A i \in 1 .. SampleBytes : Grown[Len(fifo) + i] = new[i]
  BY <1>5, <1>7, Zenon
<1>9. QED BY <1>3, <1>5, <1>6, <1>8

\* Each sample of a chunk starts SampleBytes bytes after the one before it.
LEMMA DecodeGives ==
    ASSUME fifo \in Seq(Nat), NEW n \in Nat, n * SampleBytes <= Len(fifo)
    PROVE  /\ Decode(n) \in Seq(Nat) /\ Len(Decode(n)) = n
           /\ \A i \in 1 .. n : /\ (i - 1) * SampleBytes + 1 \in 1 .. Len(fifo)
                                /\ Decode(n)[i] = fifo[(i - 1) * SampleBytes + 1]
<1>1. ASSUME NEW i \in 1 .. n PROVE (i - 1) * SampleBytes + 1 \in 1 .. Len(fifo)
  <2>1. /\ (i - 1) * SampleBytes \in Nat /\ (n - i) * SampleBytes \in Nat
        /\ n * SampleBytes = (i - 1) * SampleBytes + SampleBytes + (n - i) * SampleBytes
    OBVIOUS
  <2>2. PICK a \in Nat, b \in Nat, c \in Nat : /\ a = (i - 1) * SampleBytes
                                              /\ b = (n - i) * SampleBytes
                                              /\ c = n * SampleBytes
    BY <2>1
  <2>3. c = a + SampleBytes + b /\ c <= Len(fifo)
    BY <2>1, <2>2, Zenon
  <2>4. a + 1 \in 1 .. Len(fifo)
    BY <2>3
  <2>5. QED BY <2>2, <2>4, Zenon
<1>2. \A i \in 1 .. n : fifo[(i - 1) * SampleBytes + 1] \in Nat
  BY <1>1, ElementOfSeq
<1> DEFINE d == Decode(n)
<1>3. /\ d = [i \in 1 .. n |-> d[i]]
      /\ \A i \in 1 .. n : d[i] = fifo[(i - 1) * SampleBytes + 1]
  BY DEF Decode
<1>4. \A i \in 1 .. n : d[i] \in Nat
  BY <1>2, <1>3
<1> HIDE DEF d
<1>5. d \in Seq(Nat) /\ Len(d) = n
  BY <1>3, <1>4, SeqOfTable
<1>6. QED BY <1>1, <1>3, <1>5 DEF d

----------------------------------------------------------------------------
(* Types, and the bytes a read under way may still pop *)

MpuTypeOK ==
    /\ fifo \in Seq(Nat) /\ out \in Seq(Sample)
    /\ produced \in Nat /\ remaining \in Nat /\ busErrors \in Nat
    /\ fifoEnabled \in BOOLEAN /\ silent \in BOOLEAN
    /\ drvPc \in {"idle", "count", "read", "disable", "reset", "enable", "return"}
    /\ err \in {"OK", "FAIL", "FIFO_OVERFLOW"}

\* The FIFO does not outgrow the sensor, and holds all that a read still wants.
ReadInv ==
    /\ Len(fifo) <= FIFO_SIZE
    /\ drvPc = "read" => remaining > 0 /\ remaining * SampleBytes <= Len(fifo)

MpuTypes == MpuTypeOK /\ ReadInv

LEMMA EmptyFifo == <<>> \in Seq(Nat) /\ Len(<<>>) = 0 /\ 0 <= FIFO_SIZE
OBVIOUS

LEMMA InitMpuTypes == MpuInit => MpuTypes
<1> SUFFICES ASSUME MpuInit PROVE MpuTypes
  OBVIOUS
<1>1. ReadInv
  BY EmptyFifo, Zenon DEF MpuInit, ReadInv
<1>2. MpuTypeOK
  BY EmptyFifo DEF MpuInit, MpuTypeOK, Sample
<1>3. QED BY <1>1, <1>2 DEF MpuTypes

LEMMA ChunkGives ==
    ASSUME MpuTypes, drvPc = "read"
    PROVE  /\ Chunk \in Nat /\ 0 < Chunk /\ Chunk <= remaining
           /\ Chunk * SampleBytes \in Nat /\ Chunk * SampleBytes <= Len(fifo)
           /\ (remaining - Chunk) * SampleBytes <= Len(fifo) - Chunk * SampleBytes
<1>1. remaining \in Nat /\ remaining > 0 /\ remaining * SampleBytes <= Len(fifo)
      /\ Len(fifo) \in Nat
  BY DEF MpuTypes, MpuTypeOK, ReadInv
<1>2. Chunk \in Nat /\ 0 < Chunk /\ Chunk <= remaining
  BY <1>1 DEF Chunk, Smaller
<1>3. PICK k \in Nat : k = remaining - Chunk
  BY <1>1, <1>2
<1>4. remaining = Chunk + k
  BY <1>1, <1>2, <1>3
<1>5. (Chunk + k) * SampleBytes = Chunk * SampleBytes + k * SampleBytes
  BY <1>2
<1>6. PICK a \in Nat, b \in Nat, c \in Nat :
          a = Chunk * SampleBytes /\ b = k * SampleBytes /\ c = remaining * SampleBytes
  BY <1>1, <1>2, TimesIsMultiple
<1>7. c = a + b /\ c <= Len(fifo)
  BY <1>1, <1>4, <1>5, <1>6, Zenon
<1>8. a <= Len(fifo) /\ b <= Len(fifo) - a
  BY <1>1, <1>7
<1>9. QED BY <1>2, <1>3, <1>6, <1>8, Zenon

LEMMA TakeSampleGives ==
    ASSUME MpuTypes, TakeSample
    PROVE  /\ produced' = produced + SampleBytes
           /\ ~ fifoEnabled => UNCHANGED <<fifo, silent>>
           /\ fifoEnabled =>
                 \E over \in Nat :
                    /\ over = IF Len(fifo) + SampleBytes > FIFO_SIZE
                              THEN (Len(fifo) + SampleBytes) - FIFO_SIZE ELSE 0
                    /\ fifo' \in Seq(Nat) /\ Len(fifo') = (Len(fifo) + SampleBytes) - over
                    /\ \A i \in 1 .. (Len(fifo) + SampleBytes) - over : fifo'[i] = Grown[over + i]
                    /\ silent' = (silent \/ (over > 0 /\ drvPc = "read"))
<1>1. produced' = produced + SampleBytes /\ (~ fifoEnabled => UNCHANGED <<fifo, silent>>)
  BY DEF TakeSample
<1>2. ASSUME fifoEnabled
      PROVE  /\ fifo' = Newest(Grown)
             /\ silent' = (silent \/ (Len(Grown) > FIFO_SIZE /\ drvPc = "read"))
  BY <1>2 DEF TakeSample, Grown
<1>3. Grown \in Seq(Nat) /\ Len(Grown) = Len(fifo) + SampleBytes /\ Len(fifo) \in Nat
  BY GrownGives DEF MpuTypes, MpuTypeOK
<1>4. PICK over \in Nat : over = IF Len(Grown) > FIFO_SIZE THEN Len(Grown) - FIFO_SIZE ELSE 0
  <2>1. Len(Grown) \in Nat
    BY <1>3
  <2>2. Len(Grown) > FIFO_SIZE => Len(Grown) - FIFO_SIZE \in Nat
    BY <2>1
  <2>3. CASE Len(Grown) > FIFO_SIZE
    BY <2>2, <2>3
  <2>4. CASE ~ (Len(Grown) > FIFO_SIZE)
    BY <2>4
  <2>5. QED BY <2>3, <2>4
<1>5. /\ Newest(Grown) \in Seq(Nat) /\ Len(Newest(Grown)) = Len(Grown) - over
      /\ \A i \in 1 .. Len(Grown) - over : Newest(Grown)[i] = Grown[over + i]
  BY <1>3, <1>4, NewestGives
<1>6. over > 0 <=> Len(Grown) > FIFO_SIZE
  BY <1>3, <1>4
<1>7. ASSUME fifoEnabled
      PROVE  /\ over = IF Len(fifo) + SampleBytes > FIFO_SIZE
                       THEN (Len(fifo) + SampleBytes) - FIFO_SIZE ELSE 0
             /\ fifo' \in Seq(Nat) /\ Len(fifo') = (Len(fifo) + SampleBytes) - over
             /\ \A i \in 1 .. (Len(fifo) + SampleBytes) - over : fifo'[i] = Grown[over + i]
             /\ silent' = (silent \/ (over > 0 /\ drvPc = "read"))
  BY <1>2, <1>3, <1>4, <1>5, <1>6, <1>7, Zenon
<1>8. QED BY <1>1, <1>7

LEMMA ReadChunkGives ==
    ASSUME MpuTypes, ReadChunk
    PROVE  /\ Decode(Chunk) \in Seq(Nat) /\ Len(Decode(Chunk)) = Chunk
           /\ out' = out \o Decode(Chunk) /\ out' \in Seq(Sample)
           /\ fifo' \in Seq(Nat) /\ Len(fifo') = Len(fifo) - Chunk * SampleBytes
           /\ \A i \in 1 .. Len(fifo') : fifo'[i] = fifo[Chunk * SampleBytes + i]
           /\ remaining' = remaining - Chunk /\ remaining' \in Nat
           /\ drvPc' = IF remaining' > 0 THEN "read" ELSE "return"
           /\ UNCHANGED <<produced, fifoEnabled, err, busErrors, silent>>
<1>1. /\ Chunk \in Nat /\ 0 < Chunk /\ Chunk <= remaining /\ remaining \in Nat
      /\ Chunk * SampleBytes \in Nat /\ Chunk * SampleBytes <= Len(fifo)
      /\ fifo \in Seq(Nat) /\ Len(fifo) \in Nat /\ out \in Seq(Sample)
  BY ChunkGives DEF ReadChunk, MpuTypes, MpuTypeOK
<1>2. Chunk * SampleBytes \in 0 .. Len(fifo)
  BY <1>1
<1>3. /\ fifo' \in Seq(Nat) /\ Len(fifo') = Len(fifo) - Chunk * SampleBytes
      /\ \A i \in 1 .. Len(fifo) - Chunk * SampleBytes : fifo'[i] = fifo[Chunk * SampleBytes + i]
  <2>1. fifo' = Pop(Chunk * SampleBytes)
    BY DEF ReadChunk
  <2>2. QED BY <1>1, <1>2, <2>1, PopGives, Zenon
<1>4. Decode(Chunk) \in Seq(Nat) /\ Len(Decode(Chunk)) = Chunk
  BY <1>1, DecodeGives
<1>5. out' = out \o Decode(Chunk) /\ out' \in Seq(Sample)
  BY <1>1, <1>4, ConcatProperties DEF ReadChunk, Sample
<1>6. remaining' = remaining - Chunk /\ remaining' \in Nat
  BY <1>1 DEF ReadChunk
<1>7. QED BY <1>3, <1>4, <1>5, <1>6 DEF ReadChunk

\* Popping bytes leaves bytes, even past the end.
LEMMA PopType == ASSUME fifo \in Seq(Nat), NEW n \in Nat PROVE Pop(n) \in Seq(Nat) /\ Len(Pop(n)) <= Len(fifo)
<1>1. CASE n <= Len(fifo)
  BY <1>1, PopGives
<1>2. CASE n > Len(fifo)
  BY <1>2, SubSeqEmpty DEF Pop
<1>3. QED BY <1>1, <1>2

LEMMA ReadCountGives ==
    ASSUME MpuTypes, ReadCount
    PROVE  /\ UNCHANGED <<sensorVars, out, busErrors, silent>>
           /\ Len(fifo) >= FIFO_SIZE => drvPc' = "disable" /\ UNCHANGED <<remaining, err>>
           /\ Len(fifo) < FIFO_SIZE =>
                /\ remaining' \in Nat /\ remaining' * SampleBytes <= Len(fifo)
                /\ drvPc' = IF remaining' > 0 THEN "read" ELSE "return"
                /\ err' = "OK"
<1>1. Len(fifo) \in Nat /\ remaining \in Nat
  BY DEF MpuTypes, MpuTypeOK
<1>2. Len(fifo) \div SampleBytes \in Nat
  BY <1>1, CountType
<1>3. ASSUME Len(fifo) < FIFO_SIZE
      PROVE  /\ remaining' = Smaller(Len(fifo) \div SampleBytes, remaining)
             /\ drvPc' = IF remaining' > 0 THEN "read" ELSE "return"
             /\ err' = "OK"
  BY <1>1, <1>3 DEF ReadCount
<1>4. ASSUME Len(fifo) < FIFO_SIZE
      PROVE  remaining' \in Nat /\ remaining' <= Len(fifo) \div SampleBytes
  <2>1. \A a, b \in Nat : Smaller(a, b) \in Nat /\ Smaller(a, b) <= a
    BY DEF Smaller
  <2>2. QED BY <1>1, <1>2, <1>3, <1>4, <2>1
<1>5. ASSUME Len(fifo) < FIFO_SIZE PROVE remaining' * SampleBytes <= Len(fifo)
  BY <1>1, <1>4, <1>5, CountFits
<1>6. QED BY <1>3, <1>4, <1>5 DEF ReadCount

LEMMA MpuTypesNext ==
    ASSUME MpuTypes, TakeSample \/ Call(FIFO_DRAIN_BATCH) \/ Driver \/ Return \/ UNCHANGED mpuVars
    PROVE  MpuTypes'
<1>1. /\ fifo \in Seq(Nat) /\ Len(fifo) \in Nat /\ Len(fifo) <= FIFO_SIZE
      /\ remaining \in Nat /\ produced \in Nat
  BY DEF MpuTypes, MpuTypeOK, ReadInv
<1>2. CASE TakeSample
  <2>1. /\ UNCHANGED <<fifoEnabled, drvPc, remaining, out, err, busErrors>>
        /\ produced' \in Nat
    BY <1>1, <1>2 DEF TakeSample, driverVars
  <2>2. fifo' \in Seq(Nat) /\ silent' \in BOOLEAN /\ Len(fifo) <= Len(fifo') /\ Len(fifo') <= FIFO_SIZE
    <3>1. CASE fifoEnabled
      <4>1. PICK over \in Nat :
                /\ over = IF Len(fifo) + SampleBytes > FIFO_SIZE
                          THEN (Len(fifo) + SampleBytes) - FIFO_SIZE ELSE 0
                /\ fifo' \in Seq(Nat) /\ Len(fifo') = (Len(fifo) + SampleBytes) - over
                /\ silent' = (silent \/ (over > 0 /\ drvPc = "read"))
        BY <1>2, <3>1, TakeSampleGives
      <4>2. Len(fifo) <= Len(fifo') /\ Len(fifo') <= FIFO_SIZE
        BY <1>1, <4>1
      <4>3. silent' \in BOOLEAN
        BY <4>1
      <4>4. QED BY <4>1, <4>2, <4>3
    <3>2. CASE ~ fifoEnabled
      BY <1>1, <1>2, <3>2, TakeSampleGives DEF MpuTypes, MpuTypeOK
    <3>3. QED BY <3>1, <3>2
  <2>3. Len(fifo') \in Nat
    BY <2>2
  <2>4. ASSUME drvPc = "read" PROVE remaining * SampleBytes <= Len(fifo')
    <3>1. PICK r \in Nat : r = remaining * SampleBytes
      BY <1>1, TimesIsMultiple
    <3>2. r <= Len(fifo)
      BY <2>4, <3>1, Zenon DEF MpuTypes, ReadInv
    <3>3. r <= Len(fifo')
      BY <1>1, <2>2, <2>3, <3>2
    <3>4. QED BY <3>1, <3>3, Zenon
  <2>5. QED BY <2>1, <2>2, <2>4 DEF MpuTypes, MpuTypeOK, ReadInv
<1>3. CASE Call(FIFO_DRAIN_BATCH)
  BY <1>3 DEF Call, MpuTypes, MpuTypeOK, ReadInv, sensorVars
<1>4. CASE ReadCount
  BY <1>1, <1>4, ReadCountGives DEF MpuTypes, MpuTypeOK, ReadInv, sensorVars
<1>5. CASE ReadChunk
  <2>1. (remaining - Chunk) * SampleBytes <= Len(fifo) - Chunk * SampleBytes
        /\ Chunk * SampleBytes \in Nat
    BY <1>5, ChunkGives DEF ReadChunk
  <2>2. ReadInv'
    <3>1. remaining' * SampleBytes <= Len(fifo')
      BY <1>5, <2>1, ReadChunkGives, Zenon
    <3>2. Len(fifo') = Len(fifo) - Chunk * SampleBytes
      BY <1>5, ReadChunkGives
    <3>3. Len(fifo') <= FIFO_SIZE
      <4>1. PICK k \in Nat : k = Chunk * SampleBytes
        BY <2>1
      <4>2. QED BY <1>1, <3>2, <4>1
    <3>4. drvPc' = "read" => remaining' > 0
      BY <1>5, ReadChunkGives
    <3>5. QED BY <3>1, <3>3, <3>4 DEF ReadInv
  <2>3. MpuTypeOK'
    BY <1>5, ReadChunkGives DEF MpuTypes, MpuTypeOK
  <2>4. QED BY <2>2, <2>3 DEF MpuTypes
<1>6. CASE Disable \/ Reset \/ Enable
  <2>1. /\ UNCHANGED <<produced, remaining, out, busErrors, silent>>
        /\ fifo' = fifo \/ fifo' = <<>>
        /\ drvPc' \in {"reset", "enable", "return"} /\ fifoEnabled' \in BOOLEAN
        /\ err' = err \/ err' = "FIFO_OVERFLOW"
    BY <1>6 DEF Disable, Reset, Enable, ResetFifo
  <2>2. fifo' \in Seq(Nat) /\ Len(fifo') <= FIFO_SIZE
    BY <1>1, <2>1, EmptyFifo
  <2>3. QED BY <2>1, <2>2 DEF MpuTypes, MpuTypeOK, ReadInv
<1>7. CASE TransferFails
  <2>1. /\ UNCHANGED <<produced, remaining, out>> /\ drvPc' = "return"
        /\ busErrors' = busErrors + 1 /\ err' \in {"FAIL", "FIFO_OVERFLOW"}
    BY <1>7 DEF TransferFails, ReadCountFails, ReadChunkFails, DisableFails, ResetFails,
                EnableFails, BusFails, BusError
  <2>2. fifo' \in Seq(Nat) /\ Len(fifo') <= FIFO_SIZE
    <3>1. CASE ReadChunkFails
      <4>1. PICK popped \in 0 .. Chunk * SampleBytes : fifo' = Pop(popped)
        BY <3>1 DEF ReadChunkFails
      <4>2. popped \in Nat
        OBVIOUS
      <4>3. fifo' \in Seq(Nat) /\ Len(fifo') <= Len(fifo)
        BY <1>1, <4>1, <4>2, PopType
      <4>4. QED BY <1>1, <4>3
    <3>2. CASE ~ ReadChunkFails
      <4>1. fifo' = fifo \/ fifo' = <<>>
        BY <1>7, <3>2 DEF TransferFails, ReadCountFails, DisableFails, ResetFails,
                          EnableFails, ResetFifo
      <4>2. QED BY <1>1, <4>1, EmptyFifo
    <3>3. QED BY <3>1, <3>2
  <2>3. fifoEnabled' \in BOOLEAN /\ silent' \in BOOLEAN
    BY <1>7 DEF TransferFails, ReadCountFails, ReadChunkFails, DisableFails, ResetFails,
                EnableFails, MpuTypes, MpuTypeOK
  <2>4. QED BY <2>1, <2>2, <2>3 DEF MpuTypes, MpuTypeOK, ReadInv
<1>8. CASE Return
  BY <1>8 DEF Return, MpuTypes, MpuTypeOK, ReadInv, sensorVars
<1>9. CASE UNCHANGED mpuVars
  BY <1>9 DEF mpuVars, MpuTypes, MpuTypeOK, ReadInv
<1>10. QED BY <1>2, <1>3, <1>4, <1>5, <1>6, <1>7, <1>8, <1>9 DEF Driver, Transfer

----------------------------------------------------------------------------
(* Until bytes are lost in silence: where the stream goes on *)

Full == Len(fifo) >= FIFO_SIZE

\* The sample that follows those read so far, in this call or before it.
Expected ==
    IF drvPc \in {"read", "return"} /\ out # <<>> THEN out[Len(out)] + SampleBytes ELSE nextRead

\* The next byte in the FIFO is the first of the expected sample.
InStep == Expected + Len(fifo) = produced

\* An overflow ended the window being filled, and no other one has begun.
BetweenWindows == active = NoBuffer /\ dropped

\* How far a call is decides what it has read, and whether the FIFO is running.
CallerInv ==
    /\ drvPc # "idle" => stPc = "drain"
    /\ drvPc \in {"count", "disable", "reset", "enable"} => out = <<>>
    /\ drvPc = "return" /\ err # "OK" => out = <<>>
    /\ drvPc = "read" => err = "OK" /\ ~ Full /\ fifoEnabled
    /\ drvPc \in {"disable", "reset"} => Full
    /\ drvPc \in {"reset", "enable"} => ~ fifoEnabled
    /\ drvPc = "enable" => fifo = <<>>

\* Unless it is full the FIFO holds whole samples; while it runs, the newest bytes.
FifoInv ==
    /\ produced \in Multiples
    /\ ~ Full => Len(fifo) \in Multiples
    /\ fifoEnabled => \A i \in 1 .. Len(fifo) : fifo[i] + Len(fifo) = produced + (i - 1)
    /\ ~ fifoEnabled /\ ~ Full => fifo = <<>>

\* The FIFO goes on where the last read ended, unless a restart is reported or was.
StreamInv ==
    /\ Expected <= produced
    /\ fifoEnabled => Expected + Len(fifo) <= produced
    /\ fifoEnabled /\ ~ Full =>
          \/ InStep
          \/ BetweenWindows /\ stPc # "store"
          \/ drvPc = "return" /\ err = "FIFO_OVERFLOW"
    /\ fifoEnabled /\ ~ Full /\ drvPc \in {"read", "return"} /\ out # <<>> => InStep

\* What was read is whole and consecutive, and continues the window being filled.
OutInv ==
    /\ \A i \in 1 .. Len(out) : out[i] \in Multiples
    /\ \A i \in 1 .. Len(out) - 1 : Follows(out[i], out[i + 1])
    /\ drvPc \in {"read", "return"} /\ out # <<>> =>
          nextRead <= out[1] /\ (out[1] = nextRead \/ BetweenWindows)

ReadsInv == CallerInv /\ FifoInv /\ StreamInv /\ OutInv

Types == PoolInv /\ MpuTypes

\* Lengths and offsets are numbers.
LEMMA Numbers ==
    ASSUME Types
    PROVE  /\ Len(fifo) \in Nat /\ produced \in Nat /\ nextRead \in Nat /\ Expected \in Nat
           /\ Len(out) \in Nat /\ \A i \in 1 .. Len(out) : out[i] \in Nat
           /\ Len(fifo) <= FIFO_SIZE
           /\ out # <<>> <=> Len(out) > 0
<1>1. /\ Len(fifo) \in Nat /\ produced \in Nat /\ nextRead \in Nat /\ Len(out) \in Nat
      /\ Len(fifo) <= FIFO_SIZE /\ out \in Seq(Nat)
  BY DEF Types, PoolInv, TypeOK, MpuTypes, MpuTypeOK, ReadInv, Sample
<1>2. \A i \in 1 .. Len(out) : out[i] \in Nat
  BY <1>1, ElementOfSeq
<1>3. out # <<>> <=> Len(out) > 0
  BY <1>1, EmptySeq
<1>4. Expected \in Nat
  <2>1. out # <<>> => Len(out) \in 1 .. Len(out)
    BY <1>1, <1>3
  <2>2. out # <<>> => out[Len(out)] \in Nat
    BY <1>2, <2>1
  <2>3. QED BY <1>1, <2>2 DEF Expected
<1>5. QED BY <1>1, <1>2, <1>3, <1>4

LEMMA InitReads == Init => ReadsInv
<1> SUFFICES ASSUME Init PROVE ReadsInv
  OBVIOUS
<1>1. /\ fifo = <<>> /\ out = <<>> /\ drvPc = "idle" /\ produced = 0 /\ nextRead = 0
      /\ Len(<<>>) = 0
  BY DEF Init, PoolInit, MpuInit
<1>2. CallerInv
  BY <1>1 DEF CallerInv
<1>3. FifoInv
  BY <1>1, SmallMultiples DEF FifoInv
<1>4. StreamInv
  BY <1>1 DEF StreamInv, Expected, InStep
<1>5. OutInv
  BY <1>1 DEF OutInv
<1>6. QED BY <1>2, <1>3, <1>4, <1>5 DEF ReadsInv

\* A sample is taken between any two transfers.
LEMMA TakeSampleReads ==
    ASSUME Types, Types', ReadsInv, TakeSample, UNCHANGED poolVars, ~ silent'
    PROVE  ReadsInv'
<1>1. /\ UNCHANGED <<fifoEnabled, drvPc, remaining, out, err, stPc, active, dropped, nextRead>>
      /\ produced' = produced + SampleBytes
  BY DEF TakeSample, driverVars, poolVars
<1>2. /\ Len(fifo) \in Nat /\ produced \in Nat /\ Expected \in Nat /\ Len(fifo) <= FIFO_SIZE
      /\ Len(fifo') \in Nat
  BY Numbers DEF Types, MpuTypes, MpuTypeOK
<1>3. Expected' = Expected /\ BetweenWindows' = BetweenWindows
  BY <1>1 DEF Expected, BetweenWindows
<1>4. produced' \in Multiples
  BY <1>1, SmallMultiples, MultipleSum DEF ReadsInv, FifoInv
<1>5. OutInv'
  BY <1>1, <1>3 DEF ReadsInv, OutInv
<1>6. CASE ~ fifoEnabled
  <2>1. fifo' = fifo
    BY <1>6, TakeSampleGives DEF Types
  <2>2. Full' = Full
    BY <2>1 DEF Full
  <2>3. CallerInv' /\ FifoInv'
    BY <1>1, <1>4, <1>6, <2>1, <2>2 DEF ReadsInv, CallerInv, FifoInv
  <2>4. StreamInv'
    BY <1>1, <1>2, <1>3, <1>6 DEF ReadsInv, StreamInv
  <2>5. QED BY <1>5, <2>3, <2>4 DEF ReadsInv
<1>7. CASE fifoEnabled
  <2>1. PICK over \in Nat :
            /\ over = IF Len(fifo) + SampleBytes > FIFO_SIZE
                      THEN (Len(fifo) + SampleBytes) - FIFO_SIZE ELSE 0
            /\ fifo' \in Seq(Nat) /\ Len(fifo') = (Len(fifo) + SampleBytes) - over
            /\ \A i \in 1 .. (Len(fifo) + SampleBytes) - over : fifo'[i] = Grown[over + i]
            /\ silent' = (silent \/ (over > 0 /\ drvPc = "read"))
    BY <1>7, TakeSampleGives DEF Types
  <2>2. /\ \A i \in 1 .. Len(fifo) : Grown[i] = fifo[i]
        /\ \A i \in 1 .. SampleBytes : Grown[Len(fifo) + i] = produced + i - 1
    BY GrownGives DEF Types, MpuTypes, MpuTypeOK
  <2>3. PICK l \in Nat, m \in Nat, b \in Nat, f \in Nat :
            l = Len(fifo) /\ m = Len(fifo') /\ b = SampleBytes /\ f = FIFO_SIZE
    BY <1>2
  <2>4. /\ over = (IF l + b > f THEN (l + b) - f ELSE 0) /\ m = (l + b) - over
        /\ b > 0 /\ l <= f
    BY <1>2, <2>1, <2>3
  <2>5. /\ l + b <= f => over = 0 /\ m = l + b
        /\ ~ (l + b <= f) => over > 0 /\ m = f
        /\ m + over = l + b
    BY <2>4
  \* The bytes that stay are still the newest ones.
  <2>6. ASSUME NEW j \in 1 .. Len(fifo) + SampleBytes
        PROVE  Grown[j] + (Len(fifo) + SampleBytes) = produced' + (j - 1)
    <3>1. CASE j <= Len(fifo)
      <4>1. j \in 1 .. Len(fifo) /\ Grown[j] = fifo[j] /\ fifo[j] \in Nat
        BY <1>2, <2>2, <3>1, ElementOfSeq DEF Types, MpuTypes, MpuTypeOK
      <4>2. fifo[j] + Len(fifo) = produced + (j - 1)
        BY <1>7, <4>1 DEF ReadsInv, FifoInv
      <4>3. QED BY <1>1, <1>2, <4>1, <4>2
    <3>2. CASE j > Len(fifo)
      <4>1. PICK i \in 1 .. SampleBytes : j = Len(fifo) + i
        <5>1. j - Len(fifo) \in 1 .. SampleBytes /\ j = Len(fifo) + (j - Len(fifo))
          BY <1>2, <3>2
        <5>2. QED BY <5>1
      <4>2. Grown[j] = produced + i - 1
        BY <2>2, <4>1
      <4>3. QED BY <1>1, <1>2, <4>1, <4>2
    <3>3. QED BY <1>2, <3>1, <3>2
  <2>7. ASSUME NEW i \in 1 .. Len(fifo') PROVE fifo'[i] + Len(fifo') = produced' + (i - 1)
    <3>1. /\ over + i \in 1 .. Len(fifo) + SampleBytes
          /\ i \in 1 .. (Len(fifo) + SampleBytes) - over
      BY <2>3, <2>5
    <3>2. fifo'[i] = Grown[over + i] /\ fifo'[i] \in Nat
      BY <2>1, <3>1, ElementOfSeq
    <3>3. Grown[over + i] + (Len(fifo) + SampleBytes) = produced' + ((over + i) - 1)
      BY <2>6, <3>1
    <3>4. fifo'[i] + (l + b) = (produced + b) + ((over + i) - 1)
      BY <1>1, <2>3, <3>2, <3>3
    <3>5. fifo'[i] + m = (produced + b) + (i - 1)
      BY <1>2, <2>5, <3>2, <3>4
    <3>6. QED BY <1>1, <2>3, <3>5
  <2>8. Full => Full'
    BY <2>3, <2>5 DEF Full
  <2>9. ~ Full' => ~ Full /\ over = 0 /\ Len(fifo') = Len(fifo) + SampleBytes
    BY <2>3, <2>5 DEF Full
  <2>10. ~ Full' => Len(fifo') \in Multiples
    BY <2>9, SmallMultiples, MultipleSum DEF ReadsInv, FifoInv
  \* A read under way leaves room: the sample fits, or the loss would be silent.
  <2>11. drvPc = "read" => ~ Full'
    <3>1. SUFFICES ASSUME drvPc = "read" PROVE ~ Full'
      OBVIOUS
    <3>2. over = 0 /\ ~ Full
      BY <2>1, <2>5, <3>1 DEF ReadsInv, CallerInv
    <3>3. Len(fifo') = Len(fifo) + SampleBytes /\ Len(fifo') \in Multiples
      <4>1. Len(fifo') = Len(fifo) + SampleBytes
        BY <2>3, <2>5, <3>2
      <4>2. QED BY <3>2, <4>1, SmallMultiples, MultipleSum DEF ReadsInv, FifoInv
    <3>4. Len(fifo') <= FIFO_SIZE /\ Len(fifo') # FIFO_SIZE
      BY <3>3, FifoSizeOdd DEF Types, MpuTypes, ReadInv
    <3>5. QED BY <1>2, <3>4 DEF Full
  <2>12. CallerInv'
    BY <1>1, <1>7, <2>8, <2>11 DEF ReadsInv, CallerInv
  <2>13. FifoInv'
    BY <1>1, <1>4, <1>7, <2>7, <2>10 DEF FifoInv
  <2>14. StreamInv'
    <3>1. Expected' <= produced' /\ Expected' + Len(fifo') <= produced'
      BY <1>1, <1>2, <1>3, <1>7, <2>1 DEF ReadsInv, StreamInv
    <3>2. ~ Full' /\ InStep => InStep'
      BY <1>1, <1>2, <1>3, <2>9 DEF InStep
    <3>3. QED BY <1>1, <1>3, <1>7, <2>9, <3>1, <3>2 DEF ReadsInv, StreamInv
  <2>15. QED BY <1>5, <2>12, <2>13, <2>14 DEF ReadsInv
<1>8. QED BY <1>6, <1>7

\* sample_task calls the driver.
LEMMA CallReads ==
    ASSUME Types, ReadsInv, CallDriver PROVE ReadsInv'
<1>1. /\ UNCHANGED <<produced, fifo, fifoEnabled, err, stPc, active, dropped, nextRead>>
      /\ drvPc = "idle" /\ drvPc' = "count" /\ out' = <<>> /\ stPc = "drain"
  BY DEF CallDriver, Call, sensorVars, poolVars
<1>2. Full' = Full /\ BetweenWindows' = BetweenWindows /\ Expected' = nextRead /\ Expected = nextRead
  BY <1>1 DEF Full, BetweenWindows, Expected
<1>3. CallerInv'
  BY <1>1 DEF CallerInv
<1>4. FifoInv'
  BY <1>1, <1>2 DEF ReadsInv, FifoInv
<1>5. StreamInv'
  BY <1>1, <1>2 DEF ReadsInv, StreamInv, InStep
<1>6. OutInv'
  BY <1>1 DEF OutInv
<1>7. QED BY <1>3, <1>4, <1>5, <1>6 DEF ReadsInv

\* The byte count says whether to read or to restart.
LEMMA ReadCountReads ==
    ASSUME Types, ReadsInv, ReadCount, UNCHANGED poolVars PROVE ReadsInv'
<1>1. /\ UNCHANGED <<produced, fifo, fifoEnabled, stPc, active, dropped, nextRead>>
      /\ drvPc = "count" /\ out = <<>> /\ out' = <<>> /\ stPc = "drain"
      /\ Len(fifo) \in Nat
  BY Numbers DEF ReadCount, sensorVars, poolVars, ReadsInv, CallerInv
<1>2. /\ Full' = Full /\ BetweenWindows' = BetweenWindows /\ Expected' = nextRead
      /\ Expected = nextRead /\ (~ Full <=> Len(fifo) < FIFO_SIZE)
  BY <1>1 DEF Full, BetweenWindows, Expected
<1>3. /\ Full => drvPc' = "disable"
      /\ ~ Full => /\ remaining' \in Nat /\ remaining' * SampleBytes <= Len(fifo)
                   /\ drvPc' = IF remaining' > 0 THEN "read" ELSE "return"
                   /\ err' = "OK"
  BY <1>1, <1>2, ReadCountGives DEF Types, Full
<1>4. drvPc' = "read" => fifoEnabled
  <2> SUFFICES ASSUME drvPc' = "read", ~ fifoEnabled PROVE FALSE
    OBVIOUS
  <2>1. ~ Full /\ remaining' \in Nat /\ remaining' > 0
    BY <1>3
  <2>2. fifo = <<>> /\ Len(<<>>) = 0
    BY <2>1, EmptyFifo DEF ReadsInv, FifoInv
  <2>3. remaining' * SampleBytes <= 0
    BY <1>3, <2>1, <2>2
  <2>4. \A n \in Nat : n > 0 => n * SampleBytes > 0
    OBVIOUS
  <2>5. remaining' * SampleBytes > 0
    BY <2>1, <2>4
  <2>6. PICK r \in Nat : r = remaining' * SampleBytes
    BY <2>1, TimesIsMultiple
  <2>7. QED BY <2>3, <2>5, <2>6
<1>5. CallerInv'
  BY <1>1, <1>2, <1>3, <1>4 DEF CallerInv
<1>6. FifoInv'
  BY <1>1, <1>2 DEF ReadsInv, FifoInv
<1>7. StreamInv'
  BY <1>1, <1>2, <1>3 DEF ReadsInv, StreamInv, InStep
<1>8. OutInv'
  BY <1>1 DEF OutInv
<1>9. QED BY <1>5, <1>6, <1>7, <1>8 DEF ReadsInv

\* A chunk starts with the expected sample and ends just before the next one expected.
LEMMA ReadChunkReads ==
    ASSUME Types, Types', ReadsInv, ReadChunk, UNCHANGED poolVars PROVE ReadsInv'
<1> DEFINE d == Decode(Chunk)
<1>1. /\ UNCHANGED <<produced, fifoEnabled, err, stPc, active, dropped, nextRead>>
      /\ drvPc = "read" /\ drvPc' \in {"read", "return"} /\ stPc = "drain" /\ err = "OK"
      /\ fifoEnabled /\ ~ Full
  BY DEF ReadChunk, poolVars, ReadsInv, CallerInv
<1>2. /\ d \in Seq(Nat) /\ Len(d) = Chunk /\ out' = out \o d /\ out' \in Seq(Sample)
      /\ fifo' \in Seq(Nat) /\ Len(fifo') = Len(fifo) - Chunk * SampleBytes
      /\ \A i \in 1 .. Len(fifo') : fifo'[i] = fifo[Chunk * SampleBytes + i]
  BY ReadChunkGives DEF Types
<1>3. Chunk \in Nat /\ 0 < Chunk /\ Chunk * SampleBytes \in Nat /\ Chunk * SampleBytes <= Len(fifo)
  BY <1>1, ChunkGives DEF Types
<1>4. /\ Len(fifo) \in Nat /\ produced \in Nat /\ nextRead \in Nat /\ Expected \in Nat
      /\ Len(out) \in Nat /\ Len(fifo') \in Nat /\ (out # <<>> <=> Len(out) > 0)
      /\ Len(fifo) <= FIFO_SIZE
  BY <1>2, Numbers
\* first is the offset of the first byte in the FIFO.
<1>5. PICK first \in Nat : first + Len(fifo) = produced /\ Expected <= first
  <2>1. Expected + Len(fifo) <= produced
    BY <1>1 DEF ReadsInv, StreamInv
  <2>2. produced - Len(fifo) \in Nat /\ (produced - Len(fifo)) + Len(fifo) = produced
        /\ Expected <= produced - Len(fifo)
    BY <1>4, <2>1
  <2>3. QED BY <2>2
<1>6. ASSUME NEW j \in 1 .. Len(fifo) PROVE fifo[j] = first + (j - 1)
  <2>1. fifo[j] + Len(fifo) = produced + (j - 1) /\ fifo[j] \in Nat
    BY <1>1, <1>6, ElementOfSeq DEF ReadsInv, FifoInv, Types, MpuTypes, MpuTypeOK
  <2>2. QED BY <1>4, <1>5, <2>1
<1>7. first \in Multiples
  <2>1. produced \in Multiples /\ Len(fifo) \in Multiples
    BY <1>1 DEF ReadsInv, FifoInv
  <2>2. Len(fifo) <= produced /\ produced - Len(fifo) = first
    BY <1>4, <1>5
  <2>3. QED BY <2>1, <2>2, MultipleDifference
<1>8. ASSUME NEW i \in 1 .. Chunk
      PROVE  d[i] = first + (i - 1) * SampleBytes /\ d[i] \in Multiples
  <2>1. /\ (i - 1) * SampleBytes + 1 \in 1 .. Len(fifo)
        /\ d[i] = fifo[(i - 1) * SampleBytes + 1]
    BY <1>3, DecodeGives DEF Types, MpuTypes, MpuTypeOK
  <2>2. i - 1 \in Nat /\ (i - 1) * SampleBytes \in Nat /\ (i - 1) * SampleBytes \in Multiples
    <3>1. i - 1 \in Nat
      OBVIOUS
    <3>2. QED BY <3>1, TimesIsMultiple, Zenon
  <2>3. PICK k \in Nat : k = (i - 1) * SampleBytes
    BY <2>2
  <2>4. fifo[k + 1] = first + k /\ first + k \in Multiples
    <3>1. k + 1 \in 1 .. Len(fifo) /\ (k + 1) - 1 = k
      BY <2>1, <2>3
    <3>2. QED BY <1>6, <1>7, <2>2, <2>3, <3>1, MultipleSum
  <2>5. QED BY <2>1, <2>3, <2>4, Zenon
<1> HIDE DEF d
<1>9. d[1] = first
  <2>1. 1 \in 1 .. Chunk /\ (1 - 1) * SampleBytes = 0 /\ first + 0 = first
    BY <1>3
  <2>2. QED BY <1>8, <2>1, Zenon
<1>10. ASSUME NEW i \in 1 .. Chunk - 1 PROVE Follows(d[i], d[i + 1])
  <2>1. i \in 1 .. Chunk /\ i + 1 \in 1 .. Chunk /\ i - 1 \in Nat /\ (i - 1) + 1 = i
        /\ (i + 1) - 1 = i
    BY <1>3
  <2>2. PICK a \in Nat, b \in Nat : a = (i - 1) * SampleBytes /\ b = i * SampleBytes
    BY <2>1, NextStep
  <2>3. b = a + SampleBytes
    BY <2>1, <2>2, NextStep
  <2>4. d[i] = first + a /\ d[i + 1] = first + b
    BY <1>8, <2>1, <2>2
  <2>5. QED BY <2>3, <2>4 DEF Follows
\* What was read before ends just before the chunk.
<1>11. out # <<>> => Follows(out[Len(out)], d[1])
  <2>1. out # <<>> => InStep
    BY <1>1 DEF ReadsInv, StreamInv
  <2>2. InStep => Expected = first
    BY <1>4, <1>5 DEF InStep
  <2>3. out # <<>> => Expected = out[Len(out)] + SampleBytes
    BY <1>1 DEF Expected
  <2>4. QED BY <1>9, <2>1, <2>2, <2>3 DEF Follows
<1>12. /\ Len(out') = Len(out) + Chunk
       /\ \A i \in 1 .. Len(out) : out'[i] = out[i]
       /\ \A i \in 1 .. Chunk : out'[Len(out) + i] = d[i]
  <2>1. out \in Seq(Nat)
    BY DEF Types, MpuTypes, MpuTypeOK, Sample
  <2>2. /\ Len(out') = Len(out) + Len(d)
        /\ \A i \in 1 .. Len(out) + Len(d) :
               out'[i] = IF i <= Len(out) THEN out[i] ELSE d[i - Len(out)]
    BY <1>2, <2>1, ConcatProperties, Zenon
  <2>3. /\ \A i \in 1 .. Len(out) : i \in 1 .. Len(out) + Chunk /\ i <= Len(out)
        /\ \A i \in 1 .. Chunk : /\ Len(out) + i \in 1 .. Len(out) + Chunk
                                 /\ ~ (Len(out) + i <= Len(out))
                                 /\ (Len(out) + i) - Len(out) = i
    BY <1>3, <1>4
  <2>4. QED BY <1>2, <2>2, <2>3, Zenon
\* So it goes on: the first byte left in the FIFO is the next sample's.
<1>13. PICK k \in Nat, l \in Nat, m \in Nat :
           /\ k = Chunk * SampleBytes /\ l = Len(fifo) /\ m = Len(fifo') /\ m = l - k /\ k <= l
           /\ k \in Multiples
  BY <1>2, <1>3, <1>4, TimesIsMultiple
<1>14. Expected' = first + k /\ out' # <<>>
  <2>1. Chunk \in 1 .. Chunk /\ Len(out') = Len(out) + Chunk /\ Len(out') > 0
    BY <1>3, <1>4, <1>12
  <2>2. out'[Len(out')] = d[Chunk] /\ out' # <<>>
    <3>1. out'[Len(out) + Chunk] = d[Chunk]
      BY <1>12, <2>1
    <3>2. out' # <<>>
      BY <1>2, <2>1, EmptySeq
    <3>3. QED BY <2>1, <3>1, <3>2
  <2>3. Expected' = d[Chunk] + SampleBytes
    BY <1>1, <2>2 DEF Expected
  <2>4. Chunk - 1 \in Nat /\ (Chunk - 1) + 1 = Chunk
    BY <1>3
  <2>5. PICK a \in Nat : a = (Chunk - 1) * SampleBytes
    BY <2>4, NextStep
  <2>6. k = a + SampleBytes
    BY <1>13, <2>4, <2>5, NextStep
  <2>7. d[Chunk] = first + a
    BY <1>8, <2>1, <2>5
  <2>8. QED BY <2>2, <2>3, <2>6, <2>7
<1>15. InStep'
  <2>1. Expected' + m = produced
    BY <1>4, <1>5, <1>13, <1>14
  <2>2. QED BY <1>1, <1>13, <2>1 DEF InStep
<1>16. ~ Full' /\ Len(fifo') \in Multiples
  <2>1. l < FIFO_SIZE /\ m < FIFO_SIZE
    BY <1>1, <1>13 DEF Full
  <2>2. l \in Multiples
    BY <1>1, <1>13 DEF ReadsInv, FifoInv
  <2>3. m \in Multiples
    BY <1>13, <2>2, MultipleDifference
  <2>4. QED BY <1>13, <2>1, <2>3 DEF Full
<1>17. CallerInv'
  BY <1>1, <1>16 DEF CallerInv
<1>18. FifoInv'
  <2>1. ASSUME NEW i \in 1 .. Len(fifo') PROVE fifo'[i] + Len(fifo') = produced + (i - 1)
    <3>1. k + i \in 1 .. Len(fifo) /\ i \in 1 .. m
      BY <1>13
    <3>2. fifo'[i] = first + ((k + i) - 1)
      BY <1>2, <1>6, <1>13, <3>1
    <3>3. fifo'[i] + m = produced + (i - 1)
      <4>1. first + l = produced /\ fifo'[i] = first + (k + i - 1)
        BY <1>5, <1>13, <3>1, <3>2
      <4>2. QED BY <1>13, <4>1
    <3>4. QED BY <1>13, <3>3
  <2>2. QED BY <1>1, <1>16, <2>1 DEF ReadsInv, FifoInv
<1>19. StreamInv'
  <2>1. Expected' + m = produced /\ Expected' <= produced
    BY <1>4, <1>5, <1>13, <1>14
  <2>2. QED BY <1>1, <1>4, <1>13, <1>15, <2>1 DEF StreamInv
<1>20. OutInv'
  <2>1. /\ \A i \in 1 .. Len(out) : out[i] \in Multiples
        /\ \A i \in 1 .. Len(out) - 1 : Follows(out[i], out[i + 1])
        /\ out # <<>> => nextRead <= out[1] /\ (out[1] = nextRead \/ BetweenWindows)
    BY <1>1 DEF ReadsInv, OutInv
  <2>2. ASSUME NEW i \in 1 .. Len(out') PROVE out'[i] \in Multiples
    <3>1. CASE i <= Len(out)
      <4>1. i \in 1 .. Len(out)
        BY <1>4, <3>1
      <4>2. QED BY <1>12, <2>1, <4>1
    <3>2. CASE i > Len(out)
      <4>1. i - Len(out) \in 1 .. Chunk /\ Len(out) + (i - Len(out)) = i
        BY <1>3, <1>4, <1>12, <3>2
      <4>2. QED BY <1>8, <1>12, <4>1
    <3>3. QED BY <1>3, <1>4, <1>12, <3>1, <3>2
  <2>3. ASSUME NEW i \in 1 .. Len(out') - 1 PROVE Follows(out'[i], out'[i + 1])
    <3>1. CASE i < Len(out)
      <4>1. i \in 1 .. Len(out) /\ i + 1 \in 1 .. Len(out) /\ i \in 1 .. Len(out) - 1
        BY <1>4, <3>1
      <4>2. QED BY <1>12, <2>1, <4>1
    <3>2. CASE i = Len(out)
      <4>1. Len(out) \in 1 .. Len(out) /\ 1 \in 1 .. Chunk /\ out # <<>>
        BY <1>3, <1>4, <3>2
      <4>2. QED BY <1>11, <1>12, <3>2, <4>1
    <3>3. CASE i > Len(out)
      <4>1. PICK j \in 1 .. Chunk - 1 : i = Len(out) + j
        <5>1. i - Len(out) \in 1 .. Chunk - 1 /\ i = Len(out) + (i - Len(out))
          BY <1>3, <1>4, <1>12, <3>3
        <5>2. QED BY <5>1
      <4>2. j \in 1 .. Chunk /\ j + 1 \in 1 .. Chunk /\ i + 1 = Len(out) + (j + 1)
        BY <1>3, <1>4, <4>1
      <4>3. out'[i] = d[j] /\ out'[i + 1] = d[j + 1]
        BY <1>12, <4>1, <4>2
      <4>4. QED BY <1>10, <4>3
    <3>4. QED BY <1>4, <3>1, <3>2, <3>3
  <2>4. nextRead <= out'[1] /\ (out'[1] = nextRead \/ BetweenWindows)
    <3>1. CASE out # <<>>
      <4>1. 1 \in 1 .. Len(out)
        BY <1>4, <3>1
      <4>2. QED BY <1>12, <2>1, <3>1, <4>1
    <3>2. CASE out = <<>>
      <4>1. Len(out) = 0 /\ Expected = nextRead
        BY <3>2 DEF Expected
      <4>2. 1 \in 1 .. Chunk /\ 0 + 1 = 1
        BY <1>3
      <4>3. out'[1] = first
        BY <1>9, <1>12, <4>1, <4>2
      <4>4. InStep => nextRead = first
        BY <1>4, <1>5, <4>1 DEF InStep
      <4>5. InStep \/ BetweenWindows
        BY <1>1 DEF ReadsInv, StreamInv
      <4>6. QED BY <1>5, <4>1, <4>3, <4>4, <4>5
    <3>3. QED BY <3>1, <3>2
  <2>5. BetweenWindows' = BetweenWindows /\ nextRead' = nextRead
    BY <1>1 DEF BetweenWindows
  <2>6. QED BY <2>2, <2>3, <2>4, <2>5 DEF OutInv
<1>21. QED BY <1>17, <1>18, <1>19, <1>20 DEF ReadsInv

\* While nothing has been read, what is expected does not depend on the call.
LEMMA NothingRead ==
    ASSUME Types, ReadsInv, out = <<>>, out' = <<>>, UNCHANGED poolVars
    PROVE  /\ OutInv' /\ Expected = nextRead /\ Expected' = nextRead
           /\ BetweenWindows' = BetweenWindows
           /\ nextRead \in Nat /\ produced \in Nat /\ Len(fifo) \in Nat
           /\ Len(<<>>) = 0 /\ 0 < FIFO_SIZE /\ nextRead <= produced
<1>1. OutInv'
  BY DEF OutInv
<1>2. Expected = nextRead /\ Expected' = nextRead /\ BetweenWindows' = BetweenWindows
  BY DEF Expected, BetweenWindows, poolVars
<1>3. nextRead \in Nat /\ produced \in Nat /\ Len(fifo) \in Nat
  BY Numbers
<1>4. QED BY <1>1, <1>2, <1>3 DEF ReadsInv, StreamInv

\* The restart empties the FIFO while it is off.
LEMMA RestartReads ==
    ASSUME Types, ReadsInv, UNCHANGED poolVars, Disable \/ Reset \/ Enable PROVE ReadsInv'
<1>1. out = <<>> /\ out' = <<>> /\ produced' = produced /\ drvPc # "idle" /\ drvPc # "read"
      /\ UNCHANGED <<stPc, nextRead>>
  BY DEF Disable, Reset, Enable, ReadsInv, CallerInv, poolVars
<1>2. /\ OutInv' /\ Expected = nextRead /\ Expected' = nextRead
      /\ nextRead \in Nat /\ produced \in Nat /\ Len(fifo) \in Nat
      /\ Len(<<>>) = 0 /\ 0 < FIFO_SIZE /\ nextRead <= produced
  BY <1>1, NothingRead
<1>3. CASE Disable
  <2>1. /\ drvPc = "disable" /\ drvPc' = "reset" /\ ~ fifoEnabled' /\ fifo' = fifo
        /\ Full /\ Full'
    BY <1>3 DEF Disable, ReadsInv, CallerInv, Full
  <2>2. CallerInv' /\ FifoInv' /\ StreamInv'
    BY <1>1, <1>2, <2>1 DEF ReadsInv, CallerInv, FifoInv, StreamInv
  <2>3. QED BY <1>2, <2>2 DEF ReadsInv
<1>4. CASE Reset
  <2>1. /\ drvPc = "reset" /\ drvPc' = "enable" /\ ~ fifoEnabled' /\ fifo' = <<>>
    BY <1>4 DEF Reset, ResetFifo, ReadsInv, CallerInv
  <2>2. ~ Full' /\ Len(fifo') = 0
    BY <1>2, <2>1 DEF Full
  <2>3. CallerInv' /\ FifoInv' /\ StreamInv'
    BY <1>1, <1>2, <2>1, <2>2, SmallMultiples DEF ReadsInv, CallerInv, FifoInv, StreamInv
  <2>4. QED BY <1>2, <2>3 DEF ReadsInv
<1>5. CASE Enable
  <2>1. /\ drvPc = "enable" /\ drvPc' = "return" /\ fifoEnabled' /\ fifo' = <<>>
        /\ err' = "FIFO_OVERFLOW"
    BY <1>5 DEF Enable, ReadsInv, CallerInv
  <2>2. ~ Full' /\ Len(fifo') = 0
    BY <1>2, <2>1 DEF Full
  <2>3. CallerInv' /\ FifoInv'
    BY <1>1, <1>2, <2>1, <2>2, SmallMultiples DEF ReadsInv, CallerInv, FifoInv
  <2>4. StreamInv'
    BY <1>1, <1>2, <2>1, <2>2 DEF StreamInv
  <2>5. QED BY <1>2, <2>3, <2>4 DEF ReadsInv
<1>6. QED BY <1>3, <1>4, <1>5

\* A transfer that fails, and loses nothing in silence, leaves the stream where it was.
LEMMA FailsReads ==
    ASSUME Types, ReadsInv, UNCHANGED poolVars, TransferFails, ~ silent' PROVE ReadsInv'
<1>1. /\ drvPc' = "return" /\ err' \in {"FAIL", "FIFO_OVERFLOW"}
      /\ UNCHANGED <<produced, out, stPc, nextRead>>
      /\ drvPc \in {"count", "read", "disable", "reset", "enable"} /\ stPc = "drain"
  BY DEF TransferFails, ReadCountFails, ReadChunkFails, DisableFails, ResetFails, EnableFails,
         BusFails, BusError, poolVars, ReadsInv, CallerInv
<1>2. out = <<>>
  <2>1. CASE ReadChunkFails
    BY <2>1 DEF ReadChunkFails
  <2>2. CASE ~ ReadChunkFails
    BY <2>2 DEF TransferFails, ReadCountFails, DisableFails, ResetFails, EnableFails,
                ReadsInv, CallerInv
  <2>3. QED BY <2>1, <2>2
<1>3. /\ OutInv' /\ Expected = nextRead /\ Expected' = nextRead
      /\ BetweenWindows' = BetweenWindows
      /\ nextRead \in Nat /\ produced \in Nat /\ Len(fifo) \in Nat
      /\ Len(<<>>) = 0 /\ 0 < FIFO_SIZE /\ nextRead <= produced
  BY <1>1, <1>2, NothingRead
<1>4. CallerInv'
  BY <1>1, <1>2 DEF CallerInv
\* The FIFO is as it was.
<1>5. ASSUME UNCHANGED <<fifo, fifoEnabled>>, drvPc \in {"count", "read", "disable", "reset", "enable"}
      PROVE  FifoInv' /\ StreamInv'
  <2>1. Full' = Full
    BY <1>5 DEF Full
  <2>2. FifoInv'
    BY <1>1, <1>5, <2>1 DEF ReadsInv, FifoInv
  <2>3. StreamInv'
    BY <1>1, <1>2, <1>3, <1>5, <2>1 DEF ReadsInv, StreamInv, InStep
  <2>4. QED BY <2>2, <2>3
\* It is off.
<1>6. ASSUME ~ fifoEnabled', (fifo' = fifo /\ Full) \/ fifo' = <<>> PROVE FifoInv' /\ StreamInv'
  <2>1. Full' \/ (fifo' = <<>> /\ Len(fifo') = 0)
    BY <1>3, <1>6 DEF Full
  <2>2. FifoInv'
    BY <1>1, <1>6, <2>1, SmallMultiples DEF ReadsInv, FifoInv
  <2>3. StreamInv'
    BY <1>1, <1>3, <1>6 DEF StreamInv
  <2>4. QED BY <2>2, <2>3
<1>7. ASSUME ReadCountFails PROVE FifoInv' /\ StreamInv'
  BY <1>1, <1>5, <1>7 DEF ReadCountFails
<1>8. ASSUME ReadChunkFails PROVE FifoInv' /\ StreamInv'
  <2>1. PICK popped \in 0 .. Chunk * SampleBytes :
            fifo' = Pop(popped) /\ silent' = (silent \/ popped > 0 \/ out # <<>>)
    BY <1>8 DEF ReadChunkFails
  <2>2. popped = 0
    <3>1. ~ (popped > 0)
      BY <2>1, Zenon
    <3>2. popped \in Nat
      OBVIOUS
    <3>3. QED BY <3>1, <3>2
  <2>3. fifo' \in Seq(Nat) /\ Len(fifo') = Len(fifo)
        /\ \A i \in 1 .. Len(fifo) : fifo'[i] = fifo[i]
    <3>1. fifo \in Seq(Nat) /\ 0 \in 0 .. Len(fifo) /\ Len(fifo) - 0 = Len(fifo)
      BY <1>3 DEF Types, MpuTypes, MpuTypeOK
    <3>2. /\ fifo' \in Seq(Nat) /\ Len(fifo') = Len(fifo) - 0
          /\ \A i \in 1 .. Len(fifo) - 0 : fifo'[i] = fifo[0 + i]
      BY <2>1, <2>2, <3>1, PopGives, Zenon
    <3>3. \A i \in 1 .. Len(fifo) : 0 + i = i
      BY <1>3
    <3>4. QED BY <3>1, <3>2, <3>3
  <2>4. fifo' = fifo
    BY <2>3, SeqEqual DEF Types, MpuTypes, MpuTypeOK
  <2>5. QED BY <1>1, <1>5, <1>8, <2>4 DEF ReadChunkFails
<1>9. ASSUME DisableFails PROVE FifoInv' /\ StreamInv'
  <2>1. fifo' = fifo /\ Full /\ (fifoEnabled' = fifoEnabled \/ ~ fifoEnabled')
    BY <1>9 DEF DisableFails, ReadsInv, CallerInv
  <2>2. QED BY <1>1, <1>5, <1>6, <2>1
<1>10. ASSUME ResetFails PROVE FifoInv' /\ StreamInv'
  <2>1. ~ fifoEnabled' /\ Full /\ (fifo' = fifo \/ fifo' = <<>>)
    BY <1>10 DEF ResetFails, ResetFifo, ReadsInv, CallerInv
  <2>2. QED BY <1>6, <2>1
<1>11. ASSUME EnableFails PROVE FifoInv' /\ StreamInv'
  <2>1. fifo = <<>> /\ fifo' = <<>> /\ (fifoEnabled' = fifoEnabled \/ (fifoEnabled' /\ err' = "FIFO_OVERFLOW"))
    BY <1>1, <1>11 DEF EnableFails, ReadsInv, CallerInv
  <2>2. CASE fifoEnabled' = fifoEnabled
    BY <1>1, <1>5, <2>1, <2>2
  <2>3. CASE fifoEnabled' /\ err' = "FIFO_OVERFLOW"
    <3>1. ~ Full' /\ Len(fifo') = 0
      BY <1>3, <2>1 DEF Full
    <3>2. FifoInv'
      BY <1>1, <2>1, <2>3, <3>1, SmallMultiples DEF ReadsInv, FifoInv
    <3>3. StreamInv'
      BY <1>1, <1>2, <1>3, <2>3, <3>1 DEF StreamInv
    <3>4. QED BY <3>2, <3>3
  <2>4. QED BY <2>1, <2>2, <2>3
<1>12. FifoInv' /\ StreamInv'
  BY <1>7, <1>8, <1>9, <1>10, <1>11 DEF TransferFails
<1>13. QED BY <1>3, <1>4, <1>12 DEF ReadsInv

----------------------------------------------------------------------------
(* The driver under sample_task *)

\* What the driver returns, in whatever state, is typed.
LEMMA ReturnsAny ==
    ASSUME MpuTypes, nextRead \in Sample, DriverReturns PROVE SampleTaskAny(Sample)
BY DEF DriverReturns, SampleTaskAny, MpuTypes, MpuTypeOK

LEMMA InitTypes == Init => Types
BY InitType, InitOwner, InitMpuTypes DEF Init, Types, PoolInv

LEMMA TypesNext == Types /\ [FirmwareNext]_vars => Types'
<1> SUFFICES ASSUME Types, [FirmwareNext]_vars PROVE Types'
  OBVIOUS
<1>1. PoolInv /\ MpuTypes /\ nextRead \in Sample
  BY DEF Types, PoolInv, TypeOK
<1>2. MpuTypes'
  <2>1. \/ TakeSample \/ Call(FIFO_DRAIN_BATCH) \/ Driver \/ Return \/ UNCHANGED mpuVars
    BY DEF FirmwareNext, SensorStep, SampleTaskStep, WakeStep, CallDriver, DriverStep,
           DriverReturns, StoreStep, PublishTaskStep, vars
  <2>2. QED BY <1>1, <2>1, MpuTypesNext
<1>3. PoolInv'
  <2>1. SampleTaskAny(Sample) \/ PublishTask \/ UNCHANGED poolVars
    BY <1>1, ReturnsAny DEF FirmwareNext, SensorStep, SampleTaskStep, WakeStep, CallDriver,
       DriverStep, StoreStep, PublishTaskStep, vars, SampleTaskAny
  <2>2. CASE SampleTaskAny(Sample)
    BY <1>1, <2>2, SampleTaskType, SampleTaskOwner DEF PoolInv
  <2>3. CASE PublishTask
    BY <1>1, <2>3, PublishTaskType, PublishTaskOwner DEF PoolInv
  <2>4. CASE UNCHANGED poolVars
    BY <1>1, <2>4, PoolStays
  <2>5. QED BY <2>1, <2>2, <2>3, <2>4
<1>4. QED BY <1>2, <1>3 DEF Types

(***************************************************************************)
(* Whatever the sensor and the I2C bus do (app_main.c:178-266,             *)
(* mpu6500.c:187-317), every buffer of the pool has exactly one owner.     *)
(***************************************************************************)
THEOREM FirmwareSingleOwner == FirmwareSpec => [](TypeOK /\ OneOwner /\ MpuTypeOK)
<1>1. Types => TypeOK /\ OneOwner /\ MpuTypeOK
  BY DEF Types, PoolInv, MpuTypes
<1>2. QED BY <1>1, InitTypes, TypesNext, PTL DEF FirmwareSpec

\* sample_task acts on what was read: the next read is expected to go on there.
LEMMA ReturnReads ==
    ASSUME Types, Types', ReadsInv, DriverReturns
    PROVE  ReadsInv' /\ SampleTaskOf
<1>1. /\ drvPc = "return" /\ drvPc' = "idle" /\ UNCHANGED <<produced, fifo, fifoEnabled, out>>
      /\ err \in {"OK", "FAIL", "FIFO_OVERFLOW"}
  BY DEF DriverReturns, Return, sensorVars, Types, MpuTypes, MpuTypeOK
<1>2. Full' = Full /\ nextRead \in Nat
  BY <1>1, Numbers DEF Full
<1>3. CallerInv' /\ FifoInv' /\ OutInv'
  BY <1>1, <1>2 DEF ReadsInv, CallerInv, FifoInv, OutInv
<1>4. Expected' = nextRead'
  BY <1>1 DEF Expected
<1>5. CASE err = "OK" /\ out # <<>>
  <2>1. /\ ReadOk(out) /\ active' = active /\ dropped' = dropped
        /\ nextRead' = out[Len(out)] + SampleBytes
    BY <1>5 DEF DriverReturns, ReadOk
  <2>2. Expected' = Expected
    BY <1>1, <1>4, <1>5, <2>1 DEF Expected
  <2>3. StreamInv'
    BY <1>1, <1>2, <1>5, <2>2 DEF ReadsInv, StreamInv, InStep
  <2>4. DrainSome
    BY <1>1, <1>5, <2>1 DEF DrainSome, ReadsInv, OutInv, BetweenWindows, Types, MpuTypes, MpuTypeOK
  <2>5. QED BY <1>3, <2>3, <2>4 DEF ReadsInv, SampleTaskOf
<1>6. CASE err = "OK" /\ out = <<>>
  <2>1. ReadOk(out) /\ UNCHANGED <<active, dropped, nextRead>> /\ stPc' = "delay"
    BY <1>6 DEF DriverReturns, ReadOk
  <2>2. Expected' = Expected /\ BetweenWindows' = BetweenWindows
    BY <1>4, <1>6, <2>1 DEF Expected, BetweenWindows
  <2>3. StreamInv'
    BY <1>1, <1>2, <1>6, <2>1, <2>2 DEF ReadsInv, StreamInv, InStep
  <2>4. DrainSome
    <3>1. out \in Seq(Sample) /\ \A i \in 1 .. Len(out) - 1 : Follows(out[i], out[i + 1])
      BY DEF Types, MpuTypes, MpuTypeOK, ReadsInv, OutInv
    <3>2. QED BY <1>6, <2>1, <3>1 DEF DrainSome
  <2>5. QED BY <1>3, <2>3, <2>4 DEF ReadsInv, SampleTaskOf
<1>7. CASE err = "FAIL"
  <2>1. out = <<>> /\ ReadError
    BY <1>1, <1>7 DEF DriverReturns, ReadsInv, CallerInv
  <2>2. UNCHANGED <<active, dropped, nextRead>> /\ stPc' = "delay"
    BY <2>1 DEF ReadError
  <2>3. Expected' = Expected /\ BetweenWindows' = BetweenWindows
    BY <1>4, <2>1, <2>2 DEF Expected, BetweenWindows
  <2>4. StreamInv'
    BY <1>1, <1>2, <1>7, <2>2, <2>3 DEF ReadsInv, StreamInv, InStep
  <2>5. QED BY <1>3, <2>1, <2>4 DEF ReadsInv, SampleTaskOf
<1>8. CASE err = "FIFO_OVERFLOW"
  <2>1. out = <<>> /\ ReadOverflow /\ nextRead' = nextRead
    BY <1>1, <1>8 DEF DriverReturns, ReadsInv, CallerInv
  <2>2. BetweenWindows' /\ stPc' = "delay"
    BY <2>1 DEF ReadOverflow, BetweenWindows
  <2>3. Expected' = Expected
    BY <1>4, <2>1 DEF Expected
  <2>4. StreamInv'
    BY <1>1, <1>2, <2>2, <2>3 DEF ReadsInv, StreamInv
  <2>5. DrainLost
    BY <1>2, <2>1 DEF DrainLost, Sample
  <2>6. QED BY <1>3, <2>4, <2>5 DEF ReadsInv, SampleTaskOf
<1>9. QED BY <1>1, <1>5, <1>6, <1>7, <1>8

\* Storing and publishing do not call the driver.
LEMMA PoolReads ==
    ASSUME Types, ReadsInv, UNCHANGED mpuVars, (drvPc = "idle" /\ Wake) \/ Store \/ PublishTask
    PROVE  ReadsInv'
<1>1. UNCHANGED <<produced, fifo, fifoEnabled, drvPc, remaining, out, err>>
  BY DEF mpuVars
<1>2. nextRead' = nextRead /\ Full' = Full
  BY <1>1, PublishTaskFrame DEF Full, Wake, Store, TakeBuffer, DropSample, StoreSample,
     SubmitWindow, BatchDone, sampleVars
<1>3. Expected' = Expected /\ InStep' = InStep
  BY <1>1, <1>2 DEF Expected, InStep
<1>4. FifoInv'
  BY <1>1, <1>2 DEF ReadsInv, FifoInv
<1>5. CASE (drvPc = "idle" /\ Wake) \/ Store
  <2>1. drvPc = "idle"
    BY <1>5 DEF ReadsInv, CallerInv, Store, TakeBuffer, DropSample, StoreSample,
       SubmitWindow, BatchDone
  <2>2. BetweenWindows /\ stPc # "store" => BetweenWindows' /\ stPc' # "store"
    BY <1>5 DEF BetweenWindows, Wake, Store, TakeBuffer, DropSample, StoreSample,
       SubmitWindow, BatchDone
  <2>3. CallerInv' /\ StreamInv' /\ OutInv'
    BY <1>1, <1>2, <1>3, <2>1, <2>2 DEF ReadsInv, CallerInv, StreamInv, OutInv
  <2>4. QED BY <1>4, <2>3 DEF ReadsInv
<1>6. CASE PublishTask
  <2>1. UNCHANGED <<stPc, active>> /\ (dropped => dropped')
    BY <1>6, PublishTaskFrame DEF PublishTask, ReceiveReady, ConvertSample, Converted,
       JsonTooLarge, Publish, Release, sampleVars
  <2>2. BetweenWindows => BetweenWindows'
    BY <2>1 DEF BetweenWindows
  <2>3. CallerInv' /\ StreamInv' /\ OutInv'
    BY <1>1, <1>2, <1>3, <2>1, <2>2 DEF ReadsInv, CallerInv, StreamInv, OutInv
  <2>4. QED BY <1>4, <2>3 DEF ReadsInv
<1>7. QED BY <1>5, <1>6

\* Until bytes are lost in silence, the pool works as it does over a perfect driver.
CleanInv == ReadsInv /\ ContentsInv /\ ChainInv /\ SamplesIn(Multiples)

FirmwareInv == Types /\ (~ silent => CleanInv)

LEMMA InitClean == Init => CleanInv
<1> SUFFICES ASSUME Init PROVE CleanInv
  OBVIOUS
<1>1. SamplesIn(Multiples)
  BY SmallMultiples DEF Init, PoolInit, SamplesIn
<1>2. QED BY <1>1, InitReads, InitContents, InitChain DEF Init, CleanInv

\* No step takes back that bytes were lost.
LEMMA SilentStays == Types /\ [FirmwareNext]_vars /\ silent => silent'
<1> SUFFICES ASSUME Types, [FirmwareNext]_vars, silent PROVE silent'
  OBVIOUS
<1>1. silent = TRUE
  BY DEF Types, MpuTypes, MpuTypeOK
<1>2. CASE TakeSample
  BY <1>1, <1>2 DEF TakeSample
<1>3. CASE Driver
  BY <1>1, <1>3 DEF Driver, Transfer, TransferFails, ReadCount, ReadChunk, Disable, Reset,
     Enable, ReadCountFails, ReadChunkFails, DisableFails, ResetFails, EnableFails
<1>4. CASE silent' = silent
  BY <1>1, <1>4
<1>5. QED BY <1>2, <1>3, <1>4 DEF FirmwareNext, SensorStep, SampleTaskStep, WakeStep, CallDriver,
     Call, DriverStep, DriverReturns, Return, StoreStep, PublishTaskStep, mpuVars, vars

LEMMA CleanNext ==
    ASSUME Types, Types', CleanInv, [FirmwareNext]_vars, ~ silent'
    PROVE  CleanInv'
<1>1. PoolInv /\ TypeOK /\ TypeOK' /\ ContentsInv /\ ChainInv /\ SamplesIn(Multiples) /\ ReadsInv
  BY DEF CleanInv, Types, PoolInv
\* The pool: it sees the driver as one that only loses samples when it says so.
<1>2. ASSUME UNCHANGED poolVars \/ PublishTask \/ SampleTaskOf PROVE ContentsInv' /\ ChainInv'
  BY <1>1, <1>2, NextContents, NextChain
<1>3. ASSUME ReadsInv', UNCHANGED poolVars \/ PublishTask \/ Wake \/ Store PROVE CleanInv'
  <2>1. SamplesIn(Multiples)'
    BY <1>1, <1>3, SamplesStay DEF SampleTaskAny
  <2>2. ContentsInv' /\ ChainInv'
    BY <1>2, <1>3 DEF SampleTaskOf
  <2>3. QED BY <1>3, <2>1, <2>2 DEF CleanInv
<1>4. CASE SensorStep
  BY <1>1, <1>3, <1>4, TakeSampleReads DEF SensorStep
<1>5. CASE CallDriver
  BY <1>1, <1>3, <1>5, CallReads DEF CallDriver
<1>6. CASE DriverStep
  BY <1>1, <1>3, <1>6, ReadCountReads, ReadChunkReads, RestartReads, FailsReads
     DEF DriverStep, Driver, Transfer
<1>7. CASE WakeStep \/ StoreStep \/ PublishTaskStep
  BY <1>1, <1>3, <1>7, PoolReads DEF WakeStep, StoreStep, PublishTaskStep
<1>8. CASE DriverReturns
  <2>1. ReadsInv' /\ SampleTaskOf
    BY <1>1, <1>8, ReturnReads
  <2>2. SampleTaskAny(Multiples)
    <3>1. out \in Seq(Multiples)
      <4>1. out \in Seq(Sample) /\ \A i \in 1 .. Len(out) : out[i] \in Multiples
        BY <1>1 DEF ReadsInv, OutInv, Types, MpuTypes, MpuTypeOK
      <4>2. Len(out) \in Nat /\ out = [i \in 1 .. Len(out) |-> out[i]]
        BY <4>1, LenProperties
      <4>3. QED BY <4>1, <4>2, SeqOfTable
    <3>2. nextRead \in Sample
      BY <1>1 DEF TypeOK
    <3>3. QED BY <1>8, <3>1, <3>2 DEF DriverReturns, SampleTaskAny
  <2>3. SamplesIn(Multiples)'
    BY <1>1, <2>2, SamplesStay
  <2>4. QED BY <1>2, <2>1, <2>3 DEF CleanInv
<1>9. CASE UNCHANGED vars
  <2>1. ReadsInv'
    BY <1>1, <1>9 DEF vars, poolVars, mpuVars, ReadsInv, CallerInv, FifoInv, StreamInv, OutInv,
       Full, Expected, InStep, BetweenWindows
  <2>2. QED BY <1>3, <1>9, <2>1 DEF vars
<1>10. QED BY <1>4, <1>5, <1>6, <1>7, <1>8, <1>9 DEF FirmwareNext, SampleTaskStep

\* The inductive invariant of the firmware's sampling side.
THEOREM FirmwareInductiveInvariant == FirmwareSpec => []FirmwareInv
<1>1. Init => FirmwareInv
  BY InitTypes, InitClean DEF FirmwareInv
<1>2. FirmwareInv /\ [FirmwareNext]_vars => FirmwareInv'
  <2> SUFFICES ASSUME FirmwareInv, [FirmwareNext]_vars PROVE FirmwareInv'
    OBVIOUS
  <2>1. Types /\ Types'
    BY TypesNext DEF FirmwareInv
  <2>2. ASSUME ~ silent' PROVE CleanInv'
    BY <2>1, <2>2, SilentStays, CleanNext DEF FirmwareInv
  <2>3. QED BY <2>1, <2>2 DEF FirmwareInv
<1>3. QED BY <1>1, <1>2, PTL DEF FirmwareSpec

(***************************************************************************)
(* Until bytes are lost in silence, a read of the FIFO (mpu6500.c:230-317) *)
(* returns whole, aligned, consecutive samples, for every size of the      *)
(* FIFO, of the chunks and of the reads, whatever transfers fail.          *)
(***************************************************************************)
THEOREM WholeSamples == FirmwareSpec => []ReadsWholeSamples
<1>1. FirmwareInv => ReadsWholeSamples
  <2> SUFFICES ASSUME FirmwareInv, ~ silent
               PROVE  /\ \A i \in DOMAIN out : Aligned(out[i])
                      /\ \A i \in 1 .. Len(out) - 1 : Follows(out[i], out[i + 1])
    BY DEF ReadsWholeSamples
  <2>1. DOMAIN out = 1 .. Len(out)
    BY LenProperties DEF FirmwareInv, Types, MpuTypes, MpuTypeOK
  <2>2. QED BY <2>1, MultipleIsAligned DEF FirmwareInv, CleanInv, ReadsInv, OutInv
<1>2. QED BY <1>1, FirmwareInductiveInvariant, PTL

(***************************************************************************)
(* Every payload handed to the MQTT client holds consecutive, aligned      *)
(* samples, unless the driver lost bytes without telling: the FIFO's       *)
(* restart and the window that sample_task discards then (app_main.c:258)  *)
(* go together whatever fails on the bus and however the tasks interleave. *)
(***************************************************************************)
THEOREM FirmwareGapless == FirmwareSpec => []GaplessUnlessSilent
<1>1. FirmwareInv => GaplessUnlessSilent
  <2> SUFFICES ASSUME FirmwareInv, ~ silent
               PROVE  /\ HandedGapless
                      /\ \A k \in DOMAIN handed : \A i \in DOMAIN handed[k] : Aligned(handed[k][i])
    BY DEF GaplessUnlessSilent
  <2>1. HandedGapless
    BY DEF FirmwareInv, CleanInv, ContentsInv, CompleteInv, HandedInv, HandedOrder, HandedGapless
  <2>2. ASSUME NEW k \in DOMAIN handed, NEW i \in DOMAIN handed[k] PROVE Aligned(handed[k][i])
    <3>1. handed \in Seq(Seq(Multiples))
      BY DEF FirmwareInv, CleanInv, SamplesIn
    <3>2. handed[k] \in Seq(Multiples)
      BY <3>1, ElementOfSeq, LenProperties
    <3>3. handed[k][i] \in Multiples
      BY <3>2, ElementOfSeq, LenProperties
    <3>4. QED BY <3>3, MultipleIsAligned
  <2>3. QED BY <2>1, <2>2
<1>2. QED BY <1>1, FirmwareInductiveInvariant, PTL

(***************************************************************************)
(* No sample goes missing between the sensor and the MQTT client without   *)
(* a drop in the firmware's log, unless the driver lost bytes in silence.  *)
(***************************************************************************)
THEOREM FirmwareLossLogged == FirmwareSpec => []LossIsLogged
<1>1. FirmwareInv => LossIsLogged
  BY ChainLogged DEF FirmwareInv, Types, PoolInv, CleanInv, LossIsLogged
<1>2. QED BY <1>1, FirmwareInductiveInvariant, PTL
=============================================================================
