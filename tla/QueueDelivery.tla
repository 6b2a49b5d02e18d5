--------------------------- MODULE QueueDelivery ---------------------------
(***************************************************************************)
(* A queue destination with its consumers, its storage and its dead-letter *)
(* queue: sending, receiving, the acknowledge modes, recover(), rollback() *)
(* and commit(), the redelivery policy, expiration, closing, and a crash   *)
(* of the process followed by a restart.                                   *)
(*                                                                         *)
(* All consumers of a queue share one in-memory queue.  A message may be   *)
(* in memory several times, since createConsumer() replays the storage     *)
(* into that queue; a copy is a message with its deliveryCount, and copies *)
(* counts them by the place where they are.  The order inside the queue    *)
(* is the subject of PriorityQueue.  Every session is one thread with one  *)
(* consumer; the storage worker executes the operations of a thread in     *)
(* order (StorageWorker), so a synchronous call of a session finds its     *)
(* own asynchronous removes done.                                          *)
(***************************************************************************)
EXTENDS Integers, Sequences, FiniteSets

CONSTANTS
    Messages, Sessions,
    Persistent,       \* the messages with Reliability PERSISTENT
    Expiring,         \* the messages with a JMSExpiration
    Mode,             \* the AcknowledgeMode of each session
    Selected,         \* the messages that match the selector of each session
    MaxRedeliveries,  \* RedeliveryPolicy::maxRedeliveries, < 0 for no limit
    Backoff,          \* RedeliveryPolicy::backoffMs > 0
    DeadLetterQueue,  \* "none", "unopened" (no _queue yet) or "open"
    DupsOkBatch,      \* kDupsOkBatch
    MaxCount,         \* bound: deliveryCount
    MaxDestinations,  \* bounds: calls of createDestination(), and of
    MaxConsumers,     \* createConsumer(), in one lifetime of the process
    MaxCloses, MaxCrashes,
    MaxFailures,      \* bounds: storage operations that throw, and calls that
    MaxForeign        \* acknowledge a message another session received

Modes == {"TRANSACTED", "AUTO", "CLIENT", "INDIVIDUAL", "DUPS_OK"}
Counters == {"destination", "consumer", "close", "crash", "failure", "foreign"}
Limited == MaxRedeliveries >= 0

\* The elements of a sequence.
ToSet(s) == {s[i] : i \in DOMAIN s}

ASSUME QueueDeliveryAssumption ==
    /\ Persistent \subseteq Messages /\ Expiring \subseteq Messages
    /\ Mode \in [Sessions -> Modes]
    /\ Selected \in [Sessions -> SUBSET Messages]
    /\ MaxRedeliveries \in Int
    /\ Backoff \in BOOLEAN
    /\ DeadLetterQueue \in {"none", "unopened", "open"}
    /\ DupsOkBatch \in Nat \ {0}
    /\ MaxCount \in Nat /\ MaxCount >= MaxRedeliveries
    /\ {MaxDestinations, MaxConsumers, MaxCloses, MaxCrashes, MaxFailures, MaxForeign}
          \subseteq Nat
    /\ Sessions \cap {"sending", "queue", "scheduled"} = {}

VARIABLES
    store,         \* the live records of the destination's storage
    dlqStore,      \* the live records of the dead-letter queue's storage
    removes,       \* each session: its removeAsync() calls not executed yet
    copies,        \* the in-memory copies: place -> <<message, count>> -> Nat
    dlqQueue,      \* the messages in the in-memory dead-letter queue
    consumers,     \* the sessions whose consumer is in Destination::_consumers
    defaults,      \* number of default consumers in Destination::_consumers
    hasDefault,    \* _defaultConsumer is set
    opened,        \* the destination exists in this process
    pc,            \* what each session is in the middle of
    pendingAcks,   \* _pendingAcks of each session's consumer
    expired,       \* the messages whose expiration has passed
    bounds,        \* counters for the bounds
    sent,          \* history: the messages given to save()
    accepted,      \* history: those whose record was appended
    settled,       \* history: acknowledged, committed, expired or dropped by
                   \* the redelivery policy
    acked,         \* history: acknowledged or committed by each session in this
                   \* lifetime of the process
    forgotten,     \* history: in memory at a crash, or in flight at a close
    born,          \* history: the copies made of each message
    deliveries     \* history: how often recv() returned each message

disk == <<store, dlqStore>>
routes == <<consumers, defaults, hasDefault, opened>>
history == <<sent, accepted, settled, acked, forgotten, born, deliveries>>
vars == <<disk, removes, copies, dlqQueue, routes, pc, pendingAcks, expired,
          bounds, history>>

\* A session is a place too: its in-flight chain, or its _transactQueue.
Places == {"sending", "queue", "scheduled"} \cup Sessions
Copies == Messages \X (0..MaxCount)
NoCopies == [x \in Copies |-> 0]
In(place) == {x \in Copies : copies[place][x] > 0}

Take(x, from) == [copies EXCEPT ![from][x] = @ - 1]
Put(x, to) == [copies EXCEPT ![to][x] = @ + 1]
Shift(x, from, y, to) == [Take(x, from) EXCEPT ![to][y] = @ + 1]

Below(counter, max) == bounds[counter] < max
Count(counter) == bounds' = [bounds EXCEPT ![counter] = @ + 1]

Init ==
    /\ store = {} /\ dlqStore = {}
    /\ removes = [s \in Sessions |-> {}]
    /\ copies = [p \in Places |-> NoCopies]
    /\ dlqQueue = {}
    /\ consumers = {} /\ defaults = 0 /\ hasDefault = FALSE /\ opened = FALSE
    /\ pc = [s \in Sessions |-> "idle"]
    /\ pendingAcks = [s \in Sessions |-> <<>>]
    /\ expired = {}
    /\ bounds = [c \in Counters |-> 0]
    /\ sent = {} /\ accepted = {} /\ settled = {} /\ forgotten = {}
    /\ acked = [s \in Sessions |-> {}]
    /\ born = [m \in Messages |-> 0]
    /\ deliveries = [m \in Messages |-> 0]

-----------------------------------------------------------------------------
(* Opening.                                                                *)

\* Session::createDestination() adds a default consumer every time.
CreateDestination ==
    /\ Below("destination", MaxDestinations) /\ Count("destination")
    /\ opened' = TRUE /\ hasDefault' = TRUE /\ defaults' = defaults + 1
    /\ UNCHANGED <<disk, removes, copies, dlqQueue, consumers, pc, pendingAcks,
                   expired, history>>

\* createConsumer(): the default consumer leaves the map; the storage is
\* scanned and every record goes to the queue; the consumer enters the map.
CreateConsumer(s) ==
    /\ opened /\ s \notin consumers /\ pc[s] = "idle"
    /\ Below("consumer", MaxConsumers) /\ Count("consumer")
    /\ defaults' = IF hasDefault THEN defaults - 1 ELSE defaults
    /\ hasDefault' = FALSE
    /\ pc' = [pc EXCEPT ![s] = "create"]
    /\ UNCHANGED <<disk, removes, copies, dlqQueue, consumers, opened, pendingAcks,
                   expired, history>>

\* What a consumer created by s finds in the storage.  Mutants: the scan
\* overtakes the removes of s; nothing is replayed.
LiveIncludingRemoved(s) == store
LiveNothing(s) == {}
Live(s) == store \ removes[s]

ReplayStoredMessages(s) ==
    /\ pc[s] = "create"
    /\ store' = store \ removes[s]
    /\ LET live == Live(s)
       IN /\ copies' = [copies EXCEPT !["queue"] = [x \in Copies |->
                 IF x[1] \in live /\ x[2] = 0 THEN @[x] + 1 ELSE @[x]]]
          /\ born' = [m \in Messages |-> IF m \in live THEN born[m] + 1 ELSE born[m]]
    /\ removes' = [removes EXCEPT ![s] = {}]
    /\ consumers' = consumers \cup {s}
    /\ pc' = [pc EXCEPT ![s] = "idle"]
    /\ UNCHANGED <<dlqStore, dlqQueue, defaults, hasDefault, opened, pendingAcks, expired,
                   bounds, sent, accepted, settled, acked, forgotten, deliveries>>

-----------------------------------------------------------------------------
(* Sending, outside a transaction.                                         *)

\* save() of a queue pushes to the first consumer of the map only, and to
\* nobody if the map is empty; push() drops what its selector rejects.
Route(m) ==
    {"default" : d \in 1..defaults} \cup {s \in consumers : m \in Selected[s]}
Unrouted(m) == defaults + Cardinality(consumers) = 0 \/ \E s \in consumers : m \notin Selected[s]

SendNowhere(m) ==
    /\ opened /\ m \notin sent
    /\ Unrouted(m)
    /\ sent' = sent \cup {m}
    /\ UNCHANGED <<disk, removes, copies, dlqQueue, routes, pc, pendingAcks, expired,
                   bounds, accepted, settled, acked, forgotten, born, deliveries>>

\* preparePush() copies the message and appends the record.  An append that
\* throws is logged by the worker and the caller goes on.
SendPrepare(m) ==
    /\ opened /\ m \notin sent
    /\ Route(m) # {}
    /\ sent' = sent \cup {m}
    /\ copies' = Put(<<m, 0>>, "sending")
    /\ born' = [born EXCEPT ![m] = @ + 1]
    /\ \/ /\ m \in Persistent
          /\ store' = store \cup {m} /\ accepted' = accepted \cup {m}
          /\ UNCHANGED bounds
       \/ /\ m \in Persistent
          /\ Below("failure", MaxFailures) /\ Count("failure")
          /\ UNCHANGED <<store, accepted>>
       \/ m \notin Persistent /\ UNCHANGED <<store, accepted, bounds>>
    /\ UNCHANGED <<dlqStore, removes, dlqQueue, routes, pc, pendingAcks, expired,
                   settled, acked, forgotten, deliveries>>

SendEnqueue(m) ==
    /\ <<m, 0>> \in In("sending")
    /\ copies' = Shift(<<m, 0>>, "sending", <<m, 0>>, "queue")
    /\ UNCHANGED <<disk, removes, dlqQueue, routes, pc, pendingAcks, expired, bounds,
                   history>>
-----------------------------------------------------------------------------
(* Receiving and acknowledging.                                            *)

Open(s) == s \in consumers /\ pc[s] = "idle"

\* The record of a persistent message is removed by an asynchronous call.
RemoveAsync(s, ms) == removes' = [removes EXCEPT ![s] = @ \cup (ms \cap Persistent)]

\* recv(): an expired message is dropped.  In AUTO mode nothing is kept of a
\* message that recv() returns, and its record stays; in the other modes the
\* session tracks the copy.
RecvExpired(s, x) ==
    /\ Open(s) /\ x \in In("queue") /\ x[1] \in expired
    /\ copies' = Take(x, "queue")
    /\ RemoveAsync(s, {x[1]})
    /\ settled' = settled \cup {x[1]}
    /\ UNCHANGED <<disk, dlqQueue, routes, pc, pendingAcks, expired, bounds, sent,
                   accepted, acked, forgotten, born, deliveries>>

\* Mutant: the record is removed already when recv() returns.
RecvRemoves(s, x) ==
    /\ Open(s) /\ x \in In("queue") /\ x[1] \notin expired
    /\ copies' = Shift(x, "queue", x, s)
    /\ RemoveAsync(s, {x[1]})
    /\ deliveries' = [deliveries EXCEPT ![x[1]] = @ + 1]
    /\ UNCHANGED <<disk, dlqQueue, routes, pc, pendingAcks, expired, bounds,
                   sent, accepted, settled, acked, forgotten, born>>

Recv(s, x) ==
    /\ Open(s) /\ x \in In("queue") /\ x[1] \notin expired
    /\ IF Mode[s] = "AUTO"
       THEN copies' = Take(x, "queue") /\ settled' = settled \cup {x[1]}
       ELSE copies' = Shift(x, "queue", x, s) /\ UNCHANGED settled
    /\ deliveries' = [deliveries EXCEPT ![x[1]] = @ + 1]
    /\ UNCHANGED <<disk, removes, dlqQueue, routes, pc, pendingAcks, expired, bounds,
                   sent, accepted, acked, forgotten, born>>

\* The part of acknowledgeOn() that takes care of the record: at once, or in a
\* batch in DUPS_OK mode.
AcknowledgeRecord(s, m) ==
    LET batch == Append(pendingAcks[s], m)
    IN IF Mode[s] # "DUPS_OK" \/ m \notin Persistent
       THEN RemoveAsync(s, {m}) /\ UNCHANGED pendingAcks
       ELSE IF Len(batch) >= DupsOkBatch
            THEN /\ RemoveAsync(s, ToSet(batch))
                 /\ pendingAcks' = [pendingAcks EXCEPT ![s] = <<>>]
            ELSE /\ pendingAcks' = [pendingAcks EXCEPT ![s] = batch]
                 /\ UNCHANGED removes

\* acknowledgeOn() of a message in the session's own chain.
Acknowledge(s, x) ==
    /\ Open(s) /\ Mode[s] \notin {"TRANSACTED", "AUTO"} /\ x \in In(s)
    /\ copies' = Take(x, s)
    /\ AcknowledgeRecord(s, x[1])
    /\ settled' = settled \cup {x[1]}
    /\ acked' = [acked EXCEPT ![s] = @ \cup {x[1]}]
    /\ UNCHANGED <<disk, dlqQueue, routes, pc, expired, bounds, sent, accepted,
                   forgotten, born, deliveries>>

\* The same for a message in the chain of another session: the chain is left
\* alone, the record is not.
AcknowledgeForeign(s, o, x) ==
    /\ Below("foreign", MaxForeign) /\ Count("foreign")
    /\ s # o /\ Open(s) /\ Mode[s] # "TRANSACTED"
    /\ Mode[o] # "TRANSACTED" /\ x \in In(o)
    /\ AcknowledgeRecord(s, x[1])
    /\ UNCHANGED <<disk, copies, dlqQueue, routes, pc, expired, history>>

-----------------------------------------------------------------------------
(* recover(), rollback(), commit() and closing walk over the tracked copies *)
(* one by one; other threads run in between.                               *)

Begin(s, what) ==
    /\ Open(s)
    /\ pc' = [pc EXCEPT ![s] = what]
    /\ UNCHANGED <<disk, copies, dlqQueue, defaults, hasDefault, opened, expired, history>>

RecoverBegin(s) ==
    /\ Mode[s] # "TRANSACTED" /\ In(s) # {} /\ Begin(s, "recover")
    /\ UNCHANGED <<removes, consumers, pendingAcks, bounds>>

RollbackBegin(s) ==
    /\ Mode[s] = "TRANSACTED" /\ In(s) # {} /\ Begin(s, "rollback")
    /\ UNCHANGED <<removes, consumers, pendingAcks, bounds>>

CommitBegin(s) ==
    /\ Mode[s] = "TRANSACTED" /\ In(s) # {} /\ Begin(s, "commit")
    /\ UNCHANGED <<removes, consumers, pendingAcks, bounds>>

\* ~Session() rolls back while its consumer is still in the map.
CloseSession(s) ==
    /\ Below("close", MaxCloses) /\ Count("close") /\ Begin(s, "close")
    /\ UNCHANGED <<removes, consumers, pendingAcks>>

\* Session::deleteConsumer() takes the consumer out of the map; ~Consumer()
\* flushes the batched acknowledgements and rolls back.
DeleteConsumer(s) ==
    /\ Below("close", MaxCloses) /\ Count("close") /\ Begin(s, "delete")
    /\ consumers' = consumers \ {s}
    /\ RemoveAsync(s, ToSet(pendingAcks[s]))
    /\ pendingAcks' = [pendingAcks EXCEPT ![s] = <<>>]

Redelivering(s) ==
    \/ pc[s] \in {"recover", "rollback"}
    \/ pc[s] \in {"close", "delete"} /\ Mode[s] = "TRANSACTED"

OverLimit(n) == Limited /\ n > MaxRedeliveries

\* Mutants: a delayed copy is not handed to the scheduler; the deliveryCount is
\* not incremented.
RequeueDropsDelayed(s, x) ==
    /\ Redelivering(s) /\ x \in In(s)
    /\ ~OverLimit(x[2] + 1) /\ x[2] < MaxCount
    /\ copies' = IF Backoff /\ pc[s] # "close" THEN Take(x, s)
                 ELSE Shift(x, s, <<x[1], x[2] + 1>>, "queue")
    /\ UNCHANGED <<disk, removes, dlqQueue, routes, pc, pendingAcks, expired, bounds,
                   history>>

RequeueUncounted(s, x) ==
    /\ Redelivering(s) /\ x \in In(s)
    /\ copies' = Shift(x, s, x, "queue")
    /\ UNCHANGED <<disk, removes, dlqQueue, routes, pc, pendingAcks, expired, bounds,
                   history>>

\* redeliver() below the limit: back to the queue, or to the scheduler when
\* there is a backoff; ~Session() never backs off.
Requeue(s, x) ==
    /\ Redelivering(s) /\ x \in In(s)
    /\ ~OverLimit(x[2] + 1) /\ x[2] < MaxCount
    /\ copies' = Shift(x, s, <<x[1], x[2] + 1>>,
                       IF Backoff /\ pc[s] # "close" THEN "scheduled" ELSE "queue")
    /\ UNCHANGED <<disk, removes, dlqQueue, routes, pc, pendingAcks, expired, bounds,
                   history>>

\* Mutant: above the limit the record is removed without deadLetter().
DeadLetterSkipped(s, x) ==
    /\ Redelivering(s) /\ x \in In(s)
    /\ OverLimit(x[2] + 1)
    /\ copies' = Take(x, s)
    /\ RemoveAsync(s, {x[1]})
    /\ UNCHANGED <<disk, dlqQueue, routes, pc, pendingAcks, expired, bounds, history>>

\* redeliver() above the limit: deadLetter() appends to the dead-letter queue,
\* and only then the origin record is removed.  An append that throws is logged
\* by the worker and the caller goes on.
DeadLetter(s, x) ==
    /\ Redelivering(s) /\ x \in In(s)
    /\ OverLimit(x[2] + 1)
    /\ copies' = Take(x, s)
    /\ \/ /\ DeadLetterQueue # "none" /\ x[1] \in Persistent
          /\ dlqStore' = dlqStore \cup {x[1]}
          /\ UNCHANGED bounds
       \/ /\ DeadLetterQueue # "none" /\ x[1] \in Persistent
          /\ Below("failure", MaxFailures) /\ Count("failure")
          /\ UNCHANGED dlqStore
       \/ /\ DeadLetterQueue = "none" \/ x[1] \notin Persistent
          /\ UNCHANGED <<dlqStore, bounds>>
    /\ dlqQueue' = IF DeadLetterQueue = "open" THEN dlqQueue \cup {x[1]} ELSE dlqQueue
    /\ settled' = IF DeadLetterQueue = "none" \/ (DeadLetterQueue = "unopened" /\ x[1] \notin Persistent)
                  THEN settled \cup {x[1]} ELSE settled
    /\ RemoveAsync(s, {x[1]})
    /\ UNCHANGED <<store, routes, pc, pendingAcks, expired, sent, accepted, acked, forgotten,
                   born, deliveries>>

\* commit() acknowledges one message after the other.
CommitOne(s, x) ==
    /\ pc[s] = "commit" /\ x \in In(s)
    /\ copies' = Take(x, s)
    /\ RemoveAsync(s, {x[1]})
    /\ settled' = settled \cup {x[1]}
    /\ acked' = [acked EXCEPT ![s] = @ \cup {x[1]}]
    /\ UNCHANGED <<disk, dlqQueue, routes, pc, pendingAcks, expired, bounds, sent,
                   accepted, forgotten, born, deliveries>>

WalkDone(s) ==
    /\ pc[s] \in {"recover", "rollback", "commit"} /\ In(s) = {}
    /\ pc' = [pc EXCEPT ![s] = "idle"]
    /\ UNCHANGED <<disk, removes, copies, dlqQueue, routes, pendingAcks, expired,
                   bounds, history>>

\* The end of ~Session() and of ~Consumer(): the consumer leaves the map, the
\* batched acknowledgements are flushed, the in-flight chain is dropped.
CloseDone(s) ==
    /\ pc[s] \in {"close", "delete"}
    /\ Mode[s] = "TRANSACTED" => In(s) = {}
    /\ consumers' = consumers \ {s}
    /\ RemoveAsync(s, ToSet(pendingAcks[s]))
    /\ pendingAcks' = [pendingAcks EXCEPT ![s] = <<>>]
    /\ forgotten' = forgotten \cup {x[1] : x \in In(s)}
    /\ copies' = [copies EXCEPT ![s] = NoCopies]
    /\ pc' = [pc EXCEPT ![s] = "idle"]
    /\ UNCHANGED <<disk, dlqQueue, defaults, hasDefault, opened, expired, bounds, sent,
                   accepted, settled, acked, born, deliveries>>
-----------------------------------------------------------------------------
(* The scheduler, the storage worker, the clock, and a crash.              *)

Due(x) ==
    /\ x \in In("scheduled")
    /\ copies' = Shift(x, "scheduled", x, "queue")
    /\ UNCHANGED <<disk, removes, dlqQueue, routes, pc, pendingAcks, expired, bounds,
                   history>>

\* The worker executes a removeAsync() or, if that throws, logs it.
ExecuteRemove(s, m) ==
    /\ m \in removes[s]
    /\ removes' = [removes EXCEPT ![s] = @ \ {m}]
    /\ \/ store' = store \ {m} /\ UNCHANGED bounds
       \/ Below("failure", MaxFailures) /\ Count("failure") /\ UNCHANGED store
    /\ UNCHANGED <<dlqStore, copies, dlqQueue, routes, pc, pendingAcks, expired, history>>

Expire(m) ==
    /\ m \in Expiring \ expired
    /\ expired' = expired \cup {m}
    /\ UNCHANGED <<disk, removes, copies, dlqQueue, routes, pc, pendingAcks, bounds,
                   history>>

SweepExpired(m) ==
    /\ opened /\ m \in store \cap expired
    /\ store' = store \ {m}
    /\ settled' = settled \cup {m}
    /\ UNCHANGED <<dlqStore, removes, copies, dlqQueue, routes, pc, pendingAcks, expired,
                   bounds, sent, accepted, acked, forgotten, born, deliveries>>

\* Only the storages survive.
Crash ==
    /\ opened /\ Below("crash", MaxCrashes)
    /\ bounds' = [c \in Counters |-> IF c \in {"destination", "consumer"} THEN 0
                                 ELSE IF c = "crash" THEN bounds[c] + 1 ELSE bounds[c]]
    /\ forgotten' = forgotten \cup dlqQueue
                        \cup {m \in Messages : \E p \in Places : \E x \in In(p) : x[1] = m}
    /\ copies' = [p \in Places |-> NoCopies]
    /\ dlqQueue' = {}
    /\ acked' = [s \in Sessions |-> {}]
    /\ removes' = [s \in Sessions |-> {}]
    /\ pendingAcks' = [s \in Sessions |-> <<>>]
    /\ consumers' = {} /\ defaults' = 0 /\ hasDefault' = FALSE /\ opened' = FALSE
    /\ pc' = [s \in Sessions |-> "idle"]
    /\ UNCHANGED <<disk, expired, sent, accepted, settled, born, deliveries>>

-----------------------------------------------------------------------------
Opening == CreateDestination \/ \E s \in Sessions : CreateConsumer(s)

Sending(m) == SendNowhere(m) \/ SendPrepare(m)

Receiving(s) == \E x \in Copies : RecvExpired(s, x) \/ Recv(s, x)

\* What the application decides about the messages it holds.
Deciding(s) ==
    \/ \E x \in Copies : Acknowledge(s, x)
    \/ RecoverBegin(s) \/ RollbackBegin(s) \/ CommitBegin(s)

Closing(s) == CloseSession(s) \/ DeleteConsumer(s)

\* The rest of a call that has begun.
Walking(s) ==
    \/ ReplayStoredMessages(s)
    \/ \E x \in Copies : Requeue(s, x) \/ DeadLetter(s, x) \/ CommitOne(s, x)
    \/ WalkDone(s) \/ CloseDone(s)

Background ==
    \/ \E m \in Messages : SendEnqueue(m) \/ SweepExpired(m)
    \/ \E x \in Copies : Due(x)
    \/ \E s \in Sessions, m \in Messages : ExecuteRemove(s, m)

Next ==
    \/ Opening \/ Background \/ Crash
    \/ \E m \in Messages : Sending(m) \/ Expire(m)
    \/ \E s \in Sessions :
          \/ Receiving(s) \/ Deciding(s) \/ Closing(s) \/ Walking(s)
          \/ \E o \in Sessions, x \in Copies : AcknowledgeForeign(s, o, x)

Spec == Init /\ [][Next]_vars

\* Calls that have begun return, the worker and the scheduler run, and the
\* application opens the queue, receives, and decides what to do with what it
\* received.
FairSpec ==
    /\ Spec
    /\ WF_vars(Background)
    /\ WF_vars(consumers = {} /\ Opening)
    /\ \A s \in Sessions : WF_vars(Walking(s)) /\ WF_vars(Receiving(s)) /\ WF_vars(Deciding(s))

-----------------------------------------------------------------------------
\* The types of the variables.  The number of default consumers in the map does
\* not go below zero, and _defaultConsumer is one of them.
TypeOK ==
    /\ store \in SUBSET Persistent /\ dlqStore \in SUBSET Persistent
    /\ removes \in [Sessions -> SUBSET Persistent]
    /\ copies \in [Places -> [Copies -> Nat]]
    /\ dlqQueue \in SUBSET Messages
    /\ consumers \in SUBSET Sessions
    /\ defaults \in Nat /\ hasDefault \in BOOLEAN /\ opened \in BOOLEAN
    /\ hasDefault => defaults > 0
    /\ pc \in [Sessions -> {"idle", "create", "recover", "rollback", "commit", "close", "delete"}]
    /\ pendingAcks \in [Sessions -> Seq(Persistent)]
    /\ expired \in SUBSET Expiring
    /\ bounds \in [Counters -> Nat]
    /\ sent \in SUBSET Messages /\ accepted \in SUBSET Persistent
    /\ settled \in SUBSET Messages /\ forgotten \in SUBSET Messages
    /\ acked \in [Sessions -> SUBSET Messages]
    /\ born \in [Messages -> Nat] /\ deliveries \in [Messages -> Nat]

\* Never lose: a persistent message that was stored by send() is in the storage
\* of its queue or of the dead-letter queue, at every moment and across
\* crashes, until it is acknowledged, committed, expired, or dropped by a
\* redelivery policy without dead-letter queue (Consumer::redeliver: "an
\* at-least-once (duplicate-tolerant, never-lose) trail rather than a hole").
\* This is so as long as no storage operation threw and every session
\* acknowledged only what it received itself.
Undisturbed == bounds["failure"] = 0 /\ bounds["foreign"] = 0
NeverLost == Undisturbed => accepted \subseteq store \cup dlqStore \cup settled

\* Within one lifetime of the process a message that was sent to a consumer is
\* somewhere in memory until it is settled or dead-lettered: no path of
\* recover(), rollback(), commit(), backoff or closing drops it, apart from the
\* in-flight chain that ~Consumer() clears.
InMemory(m) == \E p \in Places : \E x \in In(p) : x[1] = m
NothingVanishes ==
    \A m \in sent : born[m] > 0 =>
        InMemory(m) \/ m \in settled \cup dlqStore \cup dlqQueue \cup forgotten

\* The redelivery limit bounds how often the application meets a poison
\* message: maxRedeliveries + 1 times for each copy made by send() or a replay.
DeliveryBound ==
    Limited => \A m \in Messages : deliveries[m] <= (MaxRedeliveries + 1) * born[m]

\* As long as no storage operation throws, a session that acknowledged a
\* message and then opens a new consumer does not get the message replayed,
\* although the remove is asynchronous: the scan of createConsumer() comes after
\* it in the worker's queue, and so do the batched acknowledgements.
Replayed == {m \in Messages : copies'["queue"][<<m, 0>>] > copies["queue"][<<m, 0>>]}
AckedNotReplayed ==
    [][\A s \in Sessions :
          pc[s] = "create" /\ pc'[s] = "idle" /\ opened' /\ bounds["failure"] = 0 =>
              Replayed \cap acked[s] = {}]_vars

\* Every stored message is eventually settled or dead-lettered, whatever mix of
\* recover(), rollback() and crashes it goes through, as long as nobody closes
\* its consumer.
EveryMessageHandled ==
    \A m \in Persistent :
        (m \in accepted) ~> (m \in settled \cup dlqStore \/ bounds["close"] > 0)

\* What the comment in createConsumer() says of the replay: it brings messages
\* "committed in a previous Exchange lifetime", hence none that is in memory.
ReplaysPreviousLifetime ==
    [][\A s \in Sessions : pc[s] = "create" /\ pc'[s] = "idle" /\ opened' =>
          \A m \in Replayed : ~InMemory(m)]_vars
=============================================================================
