----------------------------- MODULE Firmware -----------------------------
(***************************************************************************)
(* The sampling side of the firmware: the sensor and its driver (Mpu6500)  *)
(* under sample_task and publish_task (WindowPool).  sample_task is the    *)
(* driver's only caller; what the driver returns decides whether the       *)
(* window being filled goes on, is kept or is discarded.                   *)
(***************************************************************************)
EXTENDS WindowPool, Mpu6500

vars == <<poolVars, mpuVars>>

\* Before the tasks start the sensor may have been filling its FIFO for the 15 s
\* that wifi_wait_connected may take: TakeSample does that here as well.
Init == PoolInit /\ MpuInit

SensorStep == TakeSample /\ UNCHANGED poolVars

WakeStep == drvPc = "idle" /\ Wake /\ UNCHANGED mpuVars

\* sample_task calls mpu6500_read_fifo_samples ...
CallDriver ==
    /\ stPc = "drain" /\ Call(FIFO_DRAIN_BATCH)
    /\ UNCHANGED poolVars

DriverStep == Driver /\ UNCHANGED poolVars

\* ... and acts on what it returns.
DriverReturns ==
    /\ Return
    /\ \/ err = "OK" /\ ReadOk(out)
       \/ err = "FIFO_OVERFLOW" /\ ReadOverflow /\ UNCHANGED nextRead
       \/ err = "FAIL" /\ ReadError

StoreStep == Store /\ UNCHANGED mpuVars

PublishTaskStep == PublishTask /\ UNCHANGED mpuVars

SampleTaskStep ==
    WakeStep \/ CallDriver \/ DriverStep \/ DriverReturns \/ StoreStep

FirmwareNext == SensorStep \/ SampleTaskStep \/ PublishTaskStep

FirmwareSpec == Init /\ [][FirmwareNext]_vars

\* FreeRTOS schedules both tasks; every I2C transfer ends within its timeout.
\* The sensor needs no fairness: nothing waits for a sample.
FirmwareFairSpec ==
    FirmwareSpec /\ WF_vars(SampleTaskStep) /\ WF_vars(PublishTaskStep)

----------------------------------------------------------------------------
(***************************************************************************)
(* Every payload handed to the MQTT client holds WINDOW_SIZE aligned       *)
(* samples that the sensor took one after another, and payloads follow one *)
(* another in time, unless the driver lost bytes without telling           *)
(* (Mpu6500's silent): an overflow between the count and the data, or a    *)
(* transfer that failed half-way.                                          *)
(***************************************************************************)
GaplessUnlessSilent ==
    ~silent => /\ HandedGapless
               /\ \A k \in DOMAIN handed : \A i \in DOMAIN handed[k] :
                      Aligned(handed[k][i])

(***************************************************************************)
(* No sample goes missing in silence between the sensor and the MQTT       *)
(* client either: consecutive payloads are consecutive in the stream       *)
(* unless the firmware logged a drop or the driver lost bytes.             *)
(***************************************************************************)
LossIsLogged == ~silent => DropsAreLogged

(***************************************************************************)
(* README: "A window in progress can never be truncated or corrupted by    *)
(* network drops, only by hardware issues": with an I2C bus that never     *)
(* fails, every payload is gapless.                                        *)
(***************************************************************************)
WindowsConsecutive == HandedGapless

(***************************************************************************)
(* Whatever fails on the I2C bus and whatever publish_task does,           *)
(* sample_task neither spins nor leaves a backlog: it keeps coming back to *)
(* its delay, and a whole sample in the FIFO is drained or thrown away in  *)
(* the end.                                                                *)
(***************************************************************************)
FifoDrained ==
    /\ []<>(stPc = "delay")
    /\ Len(fifo) >= SampleBytes ~> Len(fifo) < SampleBytes
=============================================================================
