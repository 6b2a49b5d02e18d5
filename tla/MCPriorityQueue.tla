-------------------------- MODULE MCPriorityQueue --------------------------
(***************************************************************************)
(* Two threads send up to three messages of the highest band and two of    *)
(* the lowest; two of the priorities lie outside 0..MaxBand and are        *)
(* clamped.                                                                *)
(***************************************************************************)
EXTENDS PriorityQueue, TLC

CONSTANTS p1, p2, hi1, hi2, hi3, lo1, lo2

MCSender == [m \in Messages |-> IF m \in {hi1, hi3, lo1} THEN p1 ELSE p2]
MCPriority == [m \in Messages |->
    CASE m = hi1 -> 7 [] m \in {hi2, hi3} -> MaxBand [] m = lo1 -> -1 [] m = lo2 -> 0]

ConsumerSymmetry == Permutations(Consumers)
=============================================================================
