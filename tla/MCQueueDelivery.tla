-------------------------- MODULE MCQueueDelivery --------------------------
(***************************************************************************)
(* Sessions in different acknowledge modes; the bounds on createConsumer() *)
(* decide how many of them take part in one behaviour.                     *)
(***************************************************************************)
EXTENDS QueueDelivery, FiniteSets

CONSTANTS client, transacted, dupsOk, auto, m1, m2

MCMode == [s \in Sessions |->
    CASE s = client -> "CLIENT" [] s = transacted -> "TRANSACTED"
      [] s = dupsOk -> "DUPS_OK" [] s = auto -> "AUTO"]

\* Bound: one event disturbs a behaviour, or a close and a crash do; after these two
\* no second consumer is opened.
FewEvents ==
    /\ Cardinality(expired) + bounds["foreign"] > 0 =>
          Cardinality(expired) + bounds["foreign"] + bounds["close"] + bounds["crash"] = 1
    /\ bounds["close"] + bounds["crash"] = 2 => bounds["consumer"] <= 1

NoSelector == [s \in Sessions |-> Messages]
=============================================================================
