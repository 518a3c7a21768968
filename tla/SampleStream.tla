--------------------------- MODULE SampleStream ---------------------------
(***************************************************************************)
(* What a sample is, for every module that handles samples.                *)
(*                                                                         *)
(* The MPU6500 turns the accelerometer into a stream of bytes,             *)
(* SampleBytes of them per sample.  A sample the firmware decodes is       *)
(* identified by the offset, in that stream, of the first byte it was      *)
(* decoded from.  The values in g are left out: the properties only tell   *)
(* apart which samples a window holds, in which order, and whether their   *)
(* axes are those of one sample (an aligned offset) or of two.             *)
(***************************************************************************)
EXTENDS Naturals, Sequences

CONSTANT SampleBytes        \* MPU6500_FIFO_SAMPLE_BYTES, 6 in the code

ASSUME SampleBytesAssumption == SampleBytes \in Nat \ {0}

Sample == Nat

\* t is the sample the sensor took right after s.
Follows(s, t) == t = s + SampleBytes

\* The x, y and z bytes decoded at s belong to the same sample.
Aligned(s) == s % SampleBytes = 0

\* The samples of a window are those of a function on 0..n-1, as in the C array.
Consecutive(w, n) == \A i \in 0 .. n - 2 : Follows(w[i], w[i + 1])
=============================================================================
