--------------------------- MODULE MCTransactedSend ---------------------------
(***************************************************************************)
(* Producers of one session: one that has its destination to itself, and   *)
(* two that share one.                                                     *)
(***************************************************************************)
EXTENDS TransactedSend

CONSTANTS p1, p2, p3, d1, d2, m1, m2, m3, m4

MCDestinationOf == [p \in Producers |-> IF p = p1 THEN d1 ELSE d2]
MCProducerOf == [m \in Messages |->
    CASE m \in {m1, m2} -> p1 [] m = m3 -> p2 [] m = m4 -> p3]
=============================================================================
