------------------------- MODULE MCSignalRefinement -------------------------
(***************************************************************************)
(* Instances of SignalRefinement for TLC: a batch of two signals and one   *)
(* of a single signal, which nearly repeats the first.  The liveness run   *)
(* has the first batch only, and more faults.                              *)
(***************************************************************************)
EXTENDS SignalRefinement

CONSTANTS w1, w2

MCBatch == {{1, 2}}
MCBatches == {{1, 2}, {3}}
MCSimilar == {<<1, 1>>, <<2, 2>>, <<3, 3>>, <<1, 3>>, <<3, 1>>}
=============================================================================
