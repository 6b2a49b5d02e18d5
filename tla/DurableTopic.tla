---------------------------- MODULE DurableTopic ----------------------------
(***************************************************************************)
(* A topic and its subscriptions: Destination::createDurableConsumer(),    *)
(* deleteConsumer(), deleteSubscription(), save() and deliverCommitted(),  *)
(* driven from the thread that the destination belongs to, with sessions   *)
(* in CLIENT_ACKNOWLEDGE mode.                                             *)
(*                                                                         *)
(* Every subscriber has a queue of its own.  A durable one also has a      *)
(* storage of its own: what is published while it is attached is appended  *)
(* by Consumer::push(), what is published while it is away by save().  The *)
(* registry of durable subscriptions is in memory; the storages are on     *)
(* disk.  The storage of the topic itself is left out: no operation on a   *)
(* topic reads it back.                                                    *)
(***************************************************************************)
EXTENDS Integers, FiniteSets

CONSTANTS
    Durable,      \* durable subscriptions, by (clientID, name)
    Plain,        \* subscribers without a subscription
    Messages,
    Persistent,   \* the persistent messages
    Transacted,   \* the messages sent in a transaction
    Selectors,    \* selectors, each the set of the messages it matches
    MaxRestarts   \* bound

ASSUME DurableTopicAssumption ==
    /\ Durable \cap Plain = {}
    /\ Persistent \subseteq Messages /\ Transacted \subseteq Messages
    /\ Selectors \subseteq SUBSET Messages
    /\ MaxRestarts \in Nat

Names == Durable \cup Plain

\* A copy of a message in memory; it may know the place of its record in the
\* storage of its subscription (_storageTomId, _storageOffset).
Copies == Messages \X BOOLEAN

VARIABLES
    consumers,   \* the subscribers in _consumers
    held,        \* the subscribers whose session holds a Consumer object
    registered,  \* the keys of _durableSubs
    active,      \* the subscriptions with an activeConsumerUuid
    selector,    \* the selector of each subscriber
    queue,       \* _queue of each Consumer: the number of each copy
    inFlight,    \* the copies received and not acknowledged
    storage,     \* the records in the storage of each subscription
    removes,     \* those that the worker was asked to remove
    staged,      \* _transactQueue of the transacted producer
    restarts,
    txSent,      \* history: the messages sent in the open transaction
    sent,        \* history: the messages sent
    subscribed,  \* history: the subscriptions as the application sees them
    since,       \* history: the messages published since each subscriber subscribed
    owed,        \* history: the persistent ones it was owed, not yet acknowledged
    missed,      \* history: those of them published while it was away
    acked        \* history: the messages it acknowledged

registry == <<consumers, held, registered, active, selector>>
memory == <<queue, inFlight>>
disk == <<storage, removes>>
history == <<sent, subscribed, since, owed, missed, acked>>
vars == <<registry, memory, disk, staged, restarts, txSent, history>>

None == [c \in Copies |-> 0]
Empty == [m \in Messages |-> 0]

\* Selector::matches(); the selector of a subscription is kept while it is away.
Matches(n, m) == m \in selector[n]

\* Mutant: the scan overtakes the removes.
LiveIncludingRemoved(d) == storage[d]

\* What scan() finds: the worker executes the removes that were asked before it.
Live(d) == [m \in Messages |-> storage[d][m] - removes[d][m]]

Init ==
    /\ consumers = {} /\ held = {} /\ registered = {} /\ active = {}
    /\ selector = [n \in Names |-> Messages]
    /\ queue = [n \in Names |-> None]
    /\ inFlight = [n \in Names |-> None]
    /\ storage = [d \in Durable |-> Empty]
    /\ removes = [d \in Durable |-> Empty]
    /\ staged = Empty
    /\ restarts = 0 /\ txSent = {} /\ sent = {} /\ subscribed = {}
    /\ since = [n \in Names |-> {}] /\ acked = [n \in Names |-> {}]
    /\ owed = [d \in Durable |-> {}] /\ missed = [d \in Durable |-> {}]

-----------------------------------------------------------------------------
\* createConsumer() on a topic: an empty queue, nothing is replayed.
SubscribePlain(n, sel) ==
    /\ n \notin held
    /\ consumers' = consumers \cup {n} /\ held' = held \cup {n}
    /\ selector' = [selector EXCEPT ![n] = sel]
    /\ queue' = [queue EXCEPT ![n] = None]
    /\ since' = [since EXCEPT ![n] = {}]
    /\ acked' = [acked EXCEPT ![n] = {}]
    /\ UNCHANGED <<registered, active, inFlight, disk, staged, restarts, txSent, sent,
                   subscribed, owed, missed>>

\* createDurableConsumer(): it throws if the subscription has an active consumer.
\* The storage is created or resumed and replayed into a new queue.
SubscribeDurable(d, sel) ==
    /\ d \notin held /\ d \notin active
    /\ registered' = registered \cup {d}
    /\ selector' = [selector EXCEPT ![d] = sel]
    /\ storage' = [storage EXCEPT ![d] = Live(d)]
    /\ removes' = [removes EXCEPT ![d] = Empty]
    /\ queue' = [queue EXCEPT ![d] = [c \in Copies |-> IF c[2] THEN Live(d)[c[1]] ELSE 0]]
    /\ consumers' = consumers \cup {d} /\ held' = held \cup {d}
    /\ active' = active \cup {d}
    /\ subscribed' = subscribed \cup {d}
    /\ UNCHANGED <<inFlight, staged, restarts, txSent, sent, since, owed, missed, acked>>

\* Mutant: the subscription is not marked offline.
CloseStaysActive(n) ==
    /\ n \in held
    /\ held' = held \ {n}
    /\ consumers' = consumers \ {n}
    /\ queue' = [queue EXCEPT ![n] = None]
    /\ inFlight' = [inFlight EXCEPT ![n] = None]
    /\ UNCHANGED <<registered, active, selector, disk, staged, restarts, txSent, history>>

\* deleteConsumer() through ~Session() or Session::deleteConsumer(): the consumer
\* leaves the map, its subscription is marked offline, and the object is
\* destroyed with its queue and its in-flight list.
Close(n) ==
    /\ n \in held
    /\ held' = held \ {n}
    /\ consumers' = consumers \ {n}
    /\ active' = active \ {n}
    /\ queue' = [queue EXCEPT ![n] = None]
    /\ inFlight' = [inFlight EXCEPT ![n] = None]
    /\ UNCHANGED <<registered, selector, disk, staged, restarts, txSent, history>>

\* Mutant: the directory of the subscription is not wiped.
UnsubscribeKeepsDirectory(d) ==
    /\ d \in subscribed
    /\ IF d \in registered
       THEN /\ consumers' = consumers \ {d} /\ active' = active \ {d}
            /\ registered' = registered \ {d}
       ELSE UNCHANGED <<consumers, active, registered>>
    /\ subscribed' = subscribed \ {d}
    /\ since' = [since EXCEPT ![d] = {}]
    /\ owed' = [owed EXCEPT ![d] = {}]
    /\ missed' = [missed EXCEPT ![d] = {}]
    /\ acked' = [acked EXCEPT ![d] = {}]
    /\ UNCHANGED <<held, selector, memory, disk, staged, restarts, txSent, sent>>

\* deleteSubscription(): nothing for a key that is not registered; else the
\* consumer is detached (the session keeps its object), the worker is stopped
\* and the directory is wiped.
Unsubscribe(d) ==
    /\ d \in subscribed
    /\ IF d \in registered
       THEN /\ consumers' = consumers \ {d} /\ active' = active \ {d}
            /\ registered' = registered \ {d}
            /\ storage' = [storage EXCEPT ![d] = Empty]
            /\ removes' = [removes EXCEPT ![d] = Empty]
       ELSE UNCHANGED <<consumers, active, registered, disk>>
    /\ subscribed' = subscribed \ {d}
    /\ since' = [since EXCEPT ![d] = {}]
    /\ owed' = [owed EXCEPT ![d] = {}]
    /\ missed' = [missed EXCEPT ![d] = {}]
    /\ acked' = [acked EXCEPT ![d] = {}]
    /\ UNCHANGED <<held, selector, memory, staged, restarts, txSent, sent>>

-----------------------------------------------------------------------------
\* The subscribers that push() accepts m for.
Pushed(m) == {n \in consumers : Matches(n, m)}

\* Mutants: save() stores for the subscriptions that are attached, or for all.
BufferedOnline(m) == {d \in active : Matches(d, m) /\ m \in Persistent}
BufferedAll(m) == {d \in registered : Matches(d, m) /\ m \in Persistent}

\* The subscriptions that save() and deliverCommitted() store m for: those away.
Buffered(m) == {d \in registered \ active : Matches(d, m) /\ m \in Persistent}

\* What the application may expect of publishing the messages ms.
Expect(ms) ==
    /\ since' = [n \in Names |->
          IF n \in consumers \cup subscribed THEN since[n] \cup ms ELSE since[n]]
    /\ owed' = [d \in Durable |->
          IF d \in registered
          THEN owed[d] \cup {m \in ms \cap Persistent : Matches(d, m)} ELSE owed[d]]
    /\ missed' = [d \in Durable |->
          IF d \in subscribed \ consumers
          THEN missed[d] \cup {m \in ms \cap Persistent : Matches(d, m)} ELSE missed[d]]

\* save() outside a transaction.
Publish(m) ==
    /\ m \notin sent \cup Transacted
    /\ queue' = [n \in Names |->
          IF n \in Pushed(m)
          THEN [queue[n] EXCEPT ![<<m, n \in Durable /\ m \in Persistent>>] = @ + 1]
          ELSE queue[n]]
    /\ storage' = [d \in Durable |-> [storage[d] EXCEPT ![m] =
          @ + (IF d \in Pushed(m) /\ m \in Persistent THEN 1 ELSE 0)
            + (IF d \in Buffered(m) THEN 1 ELSE 0)]]
    /\ sent' = sent \cup {m}
    /\ Expect({m})
    /\ UNCHANGED <<registry, inFlight, removes, staged, restarts, txSent, subscribed, acked>>

\* save() in a transaction: every push() stages a copy in the producer.
SendTransacted(m) ==
    /\ m \in Transacted \ sent
    /\ staged' = [staged EXCEPT ![m] = Cardinality(Pushed(m))]
    /\ sent' = sent \cup {m} /\ txSent' = txSent \cup {m}
    /\ UNCHANGED <<registry, memory, disk, restarts, subscribed, since, owed, missed, acked>>

\* Producer::commit(): deliverCommitted() for each staged copy, to every attached
\* consumer and to the storage of every matching subscription that is away.
Commit ==
    /\ txSent # {}
    /\ queue' = [n \in Names |->
          IF n \in consumers
          THEN [c \in Copies |-> queue[n][c] + (IF c[2] THEN 0 ELSE staged[c[1]])]
          ELSE queue[n]]
    /\ storage' = [d \in Durable |-> [m \in Messages |->
          storage[d][m] + (IF d \in Buffered(m) THEN staged[m] ELSE 0)]]
    /\ staged' = Empty /\ txSent' = {}
    /\ Expect(txSent)
    /\ UNCHANGED <<registry, inFlight, removes, restarts, sent, subscribed, acked>>

\* Producer::rollback() drops the staged copies.
Rollback ==
    /\ txSent # {}
    /\ staged' = Empty /\ txSent' = {}
    /\ UNCHANGED <<registry, memory, disk, restarts, history>>

-----------------------------------------------------------------------------
Receive(n, c) ==
    /\ n \in held /\ queue[n][c] > 0
    /\ queue' = [queue EXCEPT ![n][c] = @ - 1]
    /\ inFlight' = [inFlight EXCEPT ![n][c] = @ + 1]
    /\ UNCHANGED <<registry, disk, staged, restarts, txSent, history>>

\* acknowledgeOn(): removeAsync() of the record the copy knows.  A persistent copy
\* without one is looked up in vain, and the lookup never returns if the worker of
\* the subscription was stopped by deleteSubscription(): such a call is no step.
Acknowledge(n, c) ==
    /\ inFlight[n][c] > 0
    /\ c[2] \/ c[1] \notin Persistent \/ n \in consumers
    /\ inFlight' = [inFlight EXCEPT ![n][c] = @ - 1]
    /\ removes' = IF c[2] /\ n \in consumers
                  THEN [removes EXCEPT ![n][c[1]] = @ + 1] ELSE removes
    /\ owed' = [d \in Durable |-> IF d = n THEN owed[d] \ {c[1]} ELSE owed[d]]
    /\ missed' = [d \in Durable |-> IF d = n THEN missed[d] \ {c[1]} ELSE missed[d]]
    /\ acked' = [acked EXCEPT ![n] = IF n \in consumers THEN @ \cup {c[1]} ELSE @]
    /\ UNCHANGED <<registry, queue, storage, staged, restarts, txSent, sent, subscribed, since>>

\* The storage worker executes a remove.
ExecuteRemove(d, m) ==
    /\ removes[d][m] > 0
    /\ removes' = [removes EXCEPT ![d][m] = @ - 1]
    /\ storage' = [storage EXCEPT ![d][m] = @ - 1]
    /\ UNCHANGED <<registry, memory, staged, restarts, txSent, history>>

\* The process ends and a new Exchange is created: the registry and everything
\* in memory is gone, with the removes that were not executed.
Restart ==
    /\ restarts < MaxRestarts
    /\ restarts' = restarts + 1
    /\ consumers' = {} /\ held' = {} /\ registered' = {} /\ active' = {}
    /\ queue' = [n \in Names |-> None] /\ inFlight' = [n \in Names |-> None]
    /\ removes' = [d \in Durable |-> Empty]
    /\ staged' = Empty /\ txSent' = {}
    /\ UNCHANGED <<selector, storage, history>>

Next ==
    \/ \E sel \in Selectors : \/ \E n \in Plain : SubscribePlain(n, sel)
                              \/ \E d \in Durable : SubscribeDurable(d, sel)
    \/ \E n \in Names : Close(n) \/ \E c \in Copies : Receive(n, c) \/ Acknowledge(n, c)
    \/ \E d \in Durable : Unsubscribe(d) \/ \E m \in Messages : ExecuteRemove(d, m)
    \/ \E m \in Messages : Publish(m) \/ SendTransacted(m)
    \/ Commit \/ Rollback \/ Restart

Spec == Init /\ [][Next]_vars

-----------------------------------------------------------------------------
Copied(n, m) ==
    queue[n][<<m, TRUE>>] + queue[n][<<m, FALSE>>]
        + inFlight[n][<<m, TRUE>>] + inFlight[n][<<m, FALSE>>]

\* The variables have their types; a record is removed once.
TypeOK ==
    /\ consumers \subseteq held /\ held \subseteq Names
    /\ active \subseteq registered /\ registered \subseteq Durable
    /\ selector \in [Names -> SUBSET Messages]
    /\ queue \in [Names -> [Copies -> Nat]] /\ inFlight \in [Names -> [Copies -> Nat]]
    /\ storage \in [Durable -> [Messages -> Nat]]
    /\ removes \in [Durable -> [Messages -> Nat]]
    /\ \A d \in Durable, m \in Messages : removes[d][m] <= storage[d][m]
    /\ staged \in [Messages -> Nat] /\ restarts \in 0..MaxRestarts
    /\ txSent \subseteq sent /\ sent \subseteq Messages /\ subscribed \subseteq Durable
    /\ since \in [Names -> SUBSET Messages] /\ acked \in [Names -> SUBSET Messages]
    /\ owed \in [Durable -> SUBSET Messages] /\ missed \in [Durable -> SUBSET Messages]

\* A subscription is marked online (activeConsumerUuid) exactly while its consumer
\* is in _consumers: save() neither skips it nor stores for it twice.
OnlineAgrees == active = consumers \cap Durable

\* A persistent message that a registered subscription matched when it was
\* published outside a transaction stays in the storage of the subscription until
\* the subscriber acknowledges it, through closing, resubscribing and restarts.
OwedStored ==
    \A d \in Durable : \A m \in owed[d] \ Transacted : storage[d][m] > removes[d][m]

\* A subscriber gets its own copy of every message published outside a
\* transaction, and one only.
OwnCopy == \A n \in Names, m \in Messages \ Transacted : Copied(n, m) <= 1

\* What a subscriber acknowledged does not come back when it resubscribes (while
\* the process runs: a crash may lose removes).
AckedStaysAway ==
    restarts = 0 =>
        \A n \in consumers : \A m \in acked[n] \ Transacted : Copied(n, m) = 0

\* A subscriber only gets what was published since it subscribed: nothing from
\* before, nothing that was rolled back, nothing from before it unsubscribed (in
\* this process: unsubscribing after a restart wipes nothing).
OnlySinceSubscribed ==
    restarts = 0 =>
        \A n \in consumers, m \in Messages : Copied(n, m) > 0 => m \in since[n]

\* What the test of durable subscriptions says: "Persistent messages published
\* while the durable subscriber is offline must be delivered when it reconnects",
\* hence they are in the storage of the subscription until then.
OfflineBuffered == \A d \in Durable : \A m \in missed[d] : storage[d][m] > removes[d][m]
=============================================================================
