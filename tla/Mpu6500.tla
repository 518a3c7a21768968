------------------------------ MODULE Mpu6500 ------------------------------
(***************************************************************************)
(* components/mpu6500: the sensor's FIFO and the driver that drains it     *)
(*                                                                         *)
(* The sensor appends SampleBytes bytes to its FIFO at its own pace, while *)
(* mpu6500_read_fifo_samples reads the byte count and the data in separate *)
(* I2C transfers, or restarts the FIFO with three register writes.  Every  *)
(* transfer may fail, a failed register write with or without having       *)
(* reached the sensor, a failed data read after having popped some bytes.  *)
(* A transfer of one chunk is one step: a sample that arrives during it is *)
(* taken before or after it.                                               *)
(***************************************************************************)
EXTENDS SampleStream, SequencesExt

CONSTANTS
    FIFO_SIZE,          \* MPU6500_FIFO_SIZE_BYTES, 512
    READ_CHUNK,         \* MPU6500_FIFO_READ_CHUNK_SAMPLES, 16
    MaxProduced,        \* bound: bytes the sensor produces
    MaxBusErrors        \* bound: I2C transfers that fail

\* The FIFO holds at least a sample, and not a whole number of them.
ASSUME Mpu6500Assumption ==
    /\ FIFO_SIZE \in Nat /\ FIFO_SIZE > SampleBytes
    /\ FIFO_SIZE % SampleBytes # 0
    /\ READ_CHUNK \in Nat \ {0}
    /\ MaxProduced \in Nat /\ MaxBusErrors \in Nat

VARIABLES
    produced,       \* bytes the sensor has produced
    fifo,           \* offsets of the bytes in the FIFO, oldest first
    fifoEnabled,    \* USER_CTRL.FIFO_EN
    drvPc,          \* where mpu6500_read_fifo_samples is
    remaining,      \* samples left to read; max_samples until the count is known
    out,            \* out_samples[0 .. n_read - 1]
    err,            \* what it returns
    busErrors,      \* I2C transfers that have failed
    silent          \* history: bytes were lost and no read will say so

sensorVars == <<produced, fifo, fifoEnabled>>
driverVars == <<drvPc, remaining, out, err>>
mpuVars == <<produced, fifo, fifoEnabled, drvPc, remaining, out, err,
             busErrors, silent>>

\* MPU6500_ERR_FIFO_OVERFLOW is ESP_ERR_INVALID_STATE, which the I2C driver may
\* return as well.
BusError == {"FAIL", "FIFO_OVERFLOW"}

\* mpu6500_enable_fifo has just returned ESP_OK.
MpuInit ==
    /\ produced = 0 /\ fifo = <<>> /\ fifoEnabled = TRUE
    /\ drvPc = "idle" /\ remaining = 0 /\ out = <<>> /\ err = "OK"
    /\ busErrors = 0
    /\ silent = FALSE

----------------------------------------------------------------------------
(* The sensor *)

Newest(bytes) == SubSeq(bytes, 1 + IF Len(bytes) > FIFO_SIZE
                                   THEN Len(bytes) - FIFO_SIZE ELSE 0, Len(bytes))

\* A sample is taken; a full FIFO overwrites its oldest bytes.  If a data read is
\* under way, its count was read before, and nothing will tell the caller.
TakeSample ==
    /\ produced + SampleBytes <= MaxProduced
    /\ produced' = produced + SampleBytes
    /\ IF fifoEnabled
       THEN LET grown == fifo \o [i \in 1 .. SampleBytes |-> produced + i - 1]
            IN  /\ fifo' = Newest(grown)
                /\ silent' = (silent \/ (Len(grown) > FIFO_SIZE /\ drvPc = "read"))
       ELSE UNCHANGED <<fifo, silent>>
    /\ UNCHANGED <<fifoEnabled, driverVars, busErrors>>

----------------------------------------------------------------------------
(* mpu6500_read_fifo_samples *)

Smaller(m, n) == IF m < n THEN m ELSE n

Call(max) ==
    /\ drvPc = "idle"
    /\ drvPc' = "count" /\ remaining' = max /\ out' = <<>>
    /\ UNCHANGED <<sensorVars, err, busErrors, silent>>

\* Mutant of ReadCount: > for >= FIFO_SIZE.
ReadCountOffByOne ==
    /\ drvPc = "count"
    /\ IF Len(fifo) > FIFO_SIZE
       THEN drvPc' = "disable" /\ UNCHANGED <<remaining, err>>
       ELSE /\ remaining' = Smaller(Len(fifo) \div SampleBytes, remaining)
            /\ drvPc' = IF remaining' > 0 THEN "read" ELSE "return"
            /\ err' = "OK"
    /\ UNCHANGED <<sensorVars, out, busErrors, silent>>

\* Mutant of ReadCount: an overflow is reported without a restart.
ReadCountNoRestart ==
    /\ drvPc = "count"
    /\ IF Len(fifo) >= FIFO_SIZE
       THEN drvPc' = "return" /\ err' = "FIFO_OVERFLOW" /\ UNCHANGED remaining
       ELSE /\ remaining' = Smaller(Len(fifo) \div SampleBytes, remaining)
            /\ drvPc' = IF remaining' > 0 THEN "read" ELSE "return"
            /\ err' = "OK"
    /\ UNCHANGED <<sensorVars, out, busErrors, silent>>

\* A count at capacity restarts the FIFO, another one bounds what is read.
ReadCount ==
    /\ drvPc = "count"
    /\ IF Len(fifo) >= FIFO_SIZE
       THEN drvPc' = "disable" /\ UNCHANGED <<remaining, err>>
       ELSE /\ remaining' = Smaller(Len(fifo) \div SampleBytes, remaining)
            /\ drvPc' = IF remaining' > 0 THEN "read" ELSE "return"
            /\ err' = "OK"
    /\ UNCHANGED <<sensorVars, out, busErrors, silent>>

Chunk == Smaller(remaining, READ_CHUNK)

\* Only whole samples are in a chunk: each is known by its first byte.
Decode(n) == [i \in 1 .. n |-> fifo[(i - 1) * SampleBytes + 1]]

Pop(n) == SubSeq(fifo, n + 1, Len(fifo))

\* One burst read of FIFO_R_W.
ReadChunk ==
    /\ drvPc = "read"
    /\ out' = out \o Decode(Chunk)
    /\ fifo' = Pop(Chunk * SampleBytes)
    /\ remaining' = remaining - Chunk
    /\ drvPc' = IF remaining' > 0 THEN "read" ELSE "return"
    /\ UNCHANGED <<produced, fifoEnabled, err, busErrors, silent>>

----------------------------------------------------------------------------
(* mpu6500_fifo_restart *)

Disable ==
    /\ drvPc = "disable"
    /\ fifoEnabled' = FALSE
    /\ drvPc' = "reset"
    /\ UNCHANGED <<produced, fifo, remaining, out, err, busErrors, silent>>

\* FIFO_RESET only takes effect while FIFO_EN is 0.
ResetFifo == IF fifoEnabled THEN UNCHANGED fifo ELSE fifo' = <<>>

Reset ==
    /\ drvPc = "reset"
    /\ ResetFifo
    /\ fifoEnabled' = FALSE
    /\ drvPc' = "enable"
    /\ UNCHANGED <<produced, remaining, out, err, busErrors, silent>>

Enable ==
    /\ drvPc = "enable"
    /\ fifoEnabled' = TRUE
    /\ err' = "FIFO_OVERFLOW"
    /\ drvPc' = "return"
    /\ UNCHANGED <<produced, fifo, remaining, out, busErrors, silent>>

----------------------------------------------------------------------------
(* I2C failures *)

\* The transfer fails and its error code is returned at once.
BusFails ==
    /\ busErrors < MaxBusErrors
    /\ busErrors' = busErrors + 1
    /\ err' \in BusError
    /\ drvPc' = "return"
    /\ UNCHANGED <<produced, remaining, out>>

ReadCountFails ==
    /\ drvPc = "count" /\ BusFails
    /\ UNCHANGED <<fifo, fifoEnabled, silent>>

\* The bytes popped before the failure are gone, in this chunk and in those
\* before it: the caller is not told how many samples were read.
ReadChunkFails ==
    /\ drvPc = "read" /\ BusFails
    /\ \E popped \in 0 .. Chunk * SampleBytes :
           /\ fifo' = Pop(popped)
           /\ silent' = (silent \/ popped > 0 \/ out # <<>>)
    /\ UNCHANGED fifoEnabled

DisableFails ==
    /\ drvPc = "disable" /\ BusFails
    /\ fifoEnabled' \in {fifoEnabled, FALSE}
    /\ UNCHANGED <<fifo, silent>>

ResetFails ==
    /\ drvPc = "reset" /\ BusFails
    /\ UNCHANGED fifo \/ ResetFifo
    /\ UNCHANGED <<fifoEnabled, silent>>

\* An enable that reached the sensor fills the FIFO again, with a gap that the
\* error code does not tell.
EnableFails ==
    /\ drvPc = "enable" /\ BusFails
    /\ \/ UNCHANGED <<fifoEnabled, silent>>
       \/ fifoEnabled' = TRUE /\ silent' = (silent \/ err' = "FAIL")
    /\ UNCHANGED fifo

----------------------------------------------------------------------------
Return ==
    /\ drvPc = "return"
    /\ drvPc' = "idle"
    /\ UNCHANGED <<sensorVars, remaining, out, err, busErrors, silent>>

Transfer == ReadCount \/ ReadChunk \/ Disable \/ Reset \/ Enable

TransferFails ==
    ReadCountFails \/ ReadChunkFails \/ DisableFails \/ ResetFails \/ EnableFails

Driver == Transfer \/ TransferFails

----------------------------------------------------------------------------
(* Properties *)

(***************************************************************************)
(* Until bytes have been lost in silence, what a read returns are whole,   *)
(* aligned, consecutive samples; the count, the chunks and the restart see *)
(* to it although samples keep arriving between the transfers.             *)
(***************************************************************************)
ReadsWholeSamples ==
    ~silent => /\ \A i \in DOMAIN out : Aligned(out[i])
               /\ \A i \in 1 .. Len(out) - 1 : Follows(out[i], out[i + 1])
=============================================================================
