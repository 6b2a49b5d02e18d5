------------------------ MODULE MCDeliveryScheduler ------------------------
(***************************************************************************)
(* Messages that are due at once, soon (two at the same time), after more  *)
(* than one maximal sleep of the worker, and absurdly late.                *)
(***************************************************************************)
EXTENDS DeliveryScheduler

CONSTANTS due, soon1, soon2, later, absurd

MCDeliveryTime == [m \in Messages |->
    CASE m = due -> 0 [] m \in {soon1, soon2} -> 3 [] m = later -> 4 [] m = absurd -> 99]
=============================================================================
