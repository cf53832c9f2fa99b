---------------------------- MODULE MCSyncLayers ---------------------------
(* An instance of SyncLayers for TLC.                                      *)
EXTENDS SyncLayers, TLC

CONSTANTS r1, r2

(* A record the rolling window comes to and leaves behind, and before it   *)
(* on the pages one it never reaches.                                      *)
MCDateOf == [x \in Records |-> IF x = 1 THEN MaxTime + 1 ELSE 1]

(* Nothing tells the units of overlapping runs apart.                      *)
Symmetry == Permutations(Readers)
============================================================================
