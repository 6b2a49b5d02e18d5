---------------------------- MODULE MCConsumer -----------------------------
(***************************************************************************)
(* The consumers of a queue seen from inside and from outside, side by     *)
(* side: a behaviour is one of the in-flight lists in which they keep what *)
(* they received, or one of the delivery from a queue, in which a session  *)
(* also acknowledges what another one received.                            *)
(*                                                                         *)
(* Lists: two consumers that track and one in AUTO_ACKNOWLEDGE mode.       *)
(* Delivery: a persistent message that may expire and one that is neither; *)
(* a selector, no redelivery, and a storage operation that throws.         *)
(***************************************************************************)
EXTENDS InFlightList

CONSTANTS m1, m2, client, transacted, auto

VARIABLES
    side, store, dlqStore, removes, copies, dlqQueue, consumers, defaults, hasDefault, opened, call,
    pendingAcks, expired, bounds, sent, accepted, settled, acked, forgotten, born, deliveries

queueVars == <<store, dlqStore, removes, copies, dlqQueue, consumers, defaults, hasDefault, opened,
               call, pendingAcks, expired, bounds, sent, accepted, settled, acked, forgotten, born,
               deliveries>>

MCSessions == {client, transacted, auto}

Queue == INSTANCE QueueDelivery WITH
    Messages <- {m1, m2}, Sessions <- MCSessions, Persistent <- {m1}, Expiring <- {m1},
    Mode <- [s \in MCSessions |-> CASE s = client -> "CLIENT" [] s = transacted -> "TRANSACTED"
                                    [] s = auto -> "AUTO"],
    Selected <- [s \in MCSessions |-> IF s = auto THEN {m1} ELSE {m1, m2}],
    MaxRedeliveries <- 0, Backoff <- FALSE, DeadLetterQueue <- "open", DupsOkBatch <- 1,
    MaxCount <- 1, MaxDestinations <- 1, MaxConsumers <- 2, MaxCloses <- 0, MaxCrashes <- 0,
    MaxFailures <- 1, MaxForeign <- 1, pc <- call

OfList == side = "list" /\ Next /\ UNCHANGED <<side, queueVars>>
OfQueue == side = "queue" /\ Queue!Next /\ UNCHANGED <<side, vars>>

Begin == side \in {"list", "queue"} /\ Init /\ Queue!Init

SideBySide == Begin /\ [][OfList \/ OfQueue]_<<side, vars, queueVars>>

(* Of the behaviours of the queue: the copies in memory stay accounted for *)
(* (Consumer.cpp:446), also when a storage operation throws and when a     *)
(* message is acknowledged through a session that did not receive it.      *)
NothingVanishes == Queue!NothingVanishes
=============================================================================
