--------------------------- MODULE WindowStream ---------------------------
(***************************************************************************)
(* What the double buffer of main/app_main.c promises: a bounded queue of  *)
(* whole windows.  Windows enter complete, in the order of their samples,  *)
(* leave in the order they entered, unchanged, at most once, and one may   *)
(* be discarded at the head (its JSON did not fit).  No task, buffer or    *)
(* sample-by-sample copy is visible here.                                  *)
(***************************************************************************)
EXTENDS SampleStream

CONSTANTS Depth, Size, Windows   \* Windows: the windows the sensor can produce

VARIABLES pending, delivered

vars == <<pending, delivered>>

Init == pending = <<>> /\ delivered = <<>>

\* w is made of consecutive samples, all taken after those of v.
Whole(w) == \A i \in 1 .. Size - 1 : Follows(w[i], w[i + 1])
After(v, w) == v[Size] < w[1]

Complete(w) ==
    /\ Len(pending) < Depth
    /\ Whole(w)
    /\ pending # <<>> => After(pending[Len(pending)], w)
    /\ delivered # <<>> => After(delivered[Len(delivered)], w)
    /\ pending' = Append(pending, w)
    /\ UNCHANGED delivered

Deliver ==
    /\ pending # <<>>
    /\ delivered' = Append(delivered, Head(pending))
    /\ pending' = Tail(pending)

Discard ==
    /\ pending # <<>>
    /\ pending' = Tail(pending)
    /\ UNCHANGED delivered

Next == (\E w \in Windows : Complete(w)) \/ Deliver \/ Discard

Spec == Init /\ [][Next]_vars
=============================================================================
