--------------------------- MODULE MCParallelFor ---------------------------
(***************************************************************************)
(* Instances of ParallelFor for TLC: 4-bit integers.                       *)
(***************************************************************************)
EXTENDS ParallelFor

\* No claim can wrap the batch counter.
SmallRequests ==
  { r \in [elements : 0 .. 6, maxBatch : 0 .. 4, workers : 0 .. 2] :
      BatchCount(r) + TeamSize(r) < Modulus }
=============================================================================
