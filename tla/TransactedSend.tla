--------------------------- MODULE TransactedSend ---------------------------
(***************************************************************************)
(* Sending in a SESSION_TRANSACTED session: Producer, Session::commit(),   *)
(* Session::rollback() and one TransactionBuffer per destination, with a   *)
(* crash of the process at any point and the recovery from the log.        *)
(*                                                                         *)
(* A sent message is staged in its producer; if it is persistent, its      *)
(* bytes are also buffered in the destination's TransactionBuffer, in      *)
(* memory.  The log on disk records BEGIN, COMMIT and ROLLBACK, and not    *)
(* the bytes.  A commit goes through the producers one by one: it resolves *)
(* the delivery delays, logs COMMIT, appends the buffered bytes to the     *)
(* storage, and then hands the messages to the consumers.                  *)
(***************************************************************************)
EXTENDS Integers, Sequences

CONSTANTS
    Producers, Destinations, Messages,
    DestinationOf,  \* the destination of each producer
    ProducerOf,     \* the producer that sends each message
    Persistent,     \* the persistent messages
    Delayed,        \* the messages sent with a deliveryDelay
    MaxTx,          \* bound: transactions of the session
    MaxDeletes, MaxCrashes, MaxFailures  \* bounds

ASSUME TransactedSendAssumption ==
    /\ DestinationOf \in [Producers -> Destinations]
    /\ ProducerOf \in [Messages -> Producers]
    /\ Persistent \subseteq Messages /\ Delayed \subseteq Messages
    /\ {MaxTx, MaxDeletes, MaxCrashes, MaxFailures} \subseteq Nat

VARIABLES
    tx,          \* the current transaction: Session::_suffix
    producers,   \* the producers of the session that exist
    sentIn,      \* the transaction each message was sent in, 0 if it was not
    staged,      \* _transactQueue of each producer
    buffered,    \* _transactionMessages and _bufferedData of each destination
    resolved,    \* the messages whose bytes have the resolved deliveryTime
    log,         \* what the log of each destination says of each transaction
    pc,          \* where the session is: "idle", "commit", "append", "deliver"
    todo,        \* the producers that commit() still has to visit
    current,     \* the messages of the producer it visits
    batch,       \* the messages appendBatch() still has to write
    store,       \* the records in the storages
    delayStored, \* the records that carry the resolved deliveryTime
    visible,     \* the messages handed to the consumers' queues
    deletes, crashes, failures,
    committed,   \* history: the messages whose commit() returned
    discarded    \* history: the messages rolled back by the application

disk == <<log, store, delayStored>>
session == <<tx, producers, sentIn, staged>>
buffer == <<buffered, resolved>>
commit == <<pc, todo, current, batch>>
bounds == <<deletes, crashes, failures>>
history == <<committed, discarded>>
vars == <<disk, session, buffer, commit, visible, bounds, history>>

\* The elements of a sequence.
ToSet(s) == {s[i] : i \in DOMAIN s}

HomeOf(m) == DestinationOf[ProducerOf[m]]
OfTx(t) == {m \in Messages : sentIn[m] = t}

Init ==
    /\ tx = 1
    /\ producers = Producers
    /\ sentIn = [m \in Messages |-> 0]
    /\ staged = [p \in Producers |-> <<>>]
    /\ buffered = [d \in Destinations |-> <<>>]
    /\ resolved = {}
    /\ log = [d \in Destinations |-> [t \in 1..MaxTx |-> "none"]]
    /\ pc = "idle" /\ todo = {} /\ current = <<>> /\ batch = <<>>
    /\ store = {} /\ delayStored = {} /\ visible = {}
    /\ deletes = 0 /\ crashes = 0 /\ failures = 0
    /\ committed = {} /\ discarded = {}

-----------------------------------------------------------------------------
\* send(): preparePush() copies the message, buffers and logs it if it is
\* persistent (addMessage), and push() stages it.  The guards on pc are those of
\* one thread per session.
Send(m) ==
    LET p == ProducerOf[m]
        d == HomeOf(m)
    IN /\ pc = "idle" /\ tx <= MaxTx /\ p \in producers /\ sentIn[m] = 0
       /\ sentIn' = [sentIn EXCEPT ![m] = tx]
       /\ staged' = [staged EXCEPT ![p] = Append(@, m)]
       /\ IF m \in Persistent
          THEN /\ buffered' = [buffered EXCEPT ![d] = Append(@, m)]
               /\ log' = [log EXCEPT ![d][tx] = "BEGIN"]
          ELSE UNCHANGED <<buffered, log>>
       /\ UNCHANGED <<tx, producers, resolved, commit, store, delayStored, visible, bounds,
                      history>>

\* Mutant: commit() returns after its first producer.
CommitBeginOne ==
    /\ pc = "idle" /\ tx <= MaxTx
    /\ pc' = "commit" /\ \E p \in producers : todo' = {p}
    /\ UNCHANGED <<disk, session, buffer, current, batch, visible, bounds, history>>

\* Session::commit() clears _suffix and visits its producers.
CommitBegin ==
    /\ pc = "idle" /\ tx <= MaxTx
    /\ pc' = "commit" /\ todo' = producers
    /\ UNCHANGED <<disk, session, buffer, current, batch, visible, bounds, history>>

\* Mutant: the bytes are appended and the COMMIT record is forgotten.
CommitTransactionUnlogged(d) ==
    IF log[d][tx] = "BEGIN"
    THEN /\ batch' = buffered[d]
         /\ buffered' = [buffered EXCEPT ![d] = <<>>]
         /\ UNCHANGED log
    ELSE batch' = <<>> /\ UNCHANGED <<buffered, log>>

\* commitTransaction(): if the transaction is open in d, its bytes leave the
\* buffer as the batch to append, and COMMIT is logged.
CommitTransaction(d) ==
    IF log[d][tx] = "BEGIN"
    THEN /\ batch' = buffered[d]
         /\ buffered' = [buffered EXCEPT ![d] = <<>>]
         /\ log' = [log EXCEPT ![d][tx] = "COMMIT"]
    ELSE batch' = <<>> /\ UNCHANGED <<buffered, log>>

\* Mutant: the delays are resolved after commitTransaction(), when the buffer
\* holds no bytes of the transaction.
PatchedLate(p, ms) ==
    IF log[DestinationOf[p]][tx] = "BEGIN"
    THEN {} ELSE ToSet(ms) \cap ToSet(buffered[DestinationOf[p]]) \cap Delayed

\* The bytes of the messages ms that patchDeliveryTime() still finds buffered.
Patched(p, ms) == ToSet(ms) \cap ToSet(buffered[DestinationOf[p]]) \cap Delayed

\* Producer::commit(): the delays of the staged messages are resolved, in the
\* buffered bytes too if they are still there; then commitTransaction().
CommitProducer(p) ==
    /\ pc = "commit" /\ p \in todo
    /\ todo' = todo \ {p}
    /\ current' = staged[p]
    /\ staged' = [staged EXCEPT ![p] = <<>>]
    /\ resolved' = resolved \cup Patched(p, staged[p])
    /\ CommitTransaction(DestinationOf[p])
    /\ pc' = "append"
    /\ UNCHANGED <<tx, producers, sentIn, store, delayStored, visible, bounds, history>>

\* The worker writes the batch record by record; the session waits.
AppendOne ==
    /\ pc = "append" /\ batch # <<>>
    /\ batch' = Tail(batch)
    /\ store' = store \cup {Head(batch)}
    /\ delayStored' = delayStored \cup ({Head(batch)} \cap resolved)
    /\ UNCHANGED <<log, session, buffer, pc, todo, current, visible, bounds, history>>

\* A record cannot be written: the rest of the batch is given up, the worker
\* reports it to the log only, and the session goes on.
AppendFails ==
    /\ pc = "append" /\ batch # <<>>
    /\ failures < MaxFailures /\ failures' = failures + 1
    /\ batch' = <<>>
    /\ UNCHANGED <<disk, session, buffer, pc, todo, current, visible, deletes, crashes, history>>

\* Mutant: appendBatch() returns without waiting for the worker.
AppendDoneAsync ==
    /\ pc = "append"
    /\ pc' = "deliver"
    /\ UNCHANGED <<disk, session, buffer, todo, current, batch, visible, bounds, history>>

AppendDone ==
    /\ pc = "append" /\ batch = <<>>
    /\ pc' = "deliver"
    /\ UNCHANGED <<disk, session, buffer, todo, current, batch, visible, bounds, history>>

\* deliverCommitted() for each staged message.
DeliverCommitted ==
    /\ pc = "deliver"
    /\ visible' = visible \cup ToSet(current)
    /\ current' = <<>>
    /\ pc' = "commit"
    /\ UNCHANGED <<disk, session, buffer, todo, batch, bounds, history>>

CommitEnd ==
    /\ pc = "commit" /\ todo = {}
    /\ committed' = committed \cup (OfTx(tx) \ discarded)
    /\ tx' = tx + 1
    /\ pc' = "idle"
    /\ UNCHANGED <<disk, producers, sentIn, staged, buffer, todo, current, batch, visible,
                   bounds, discarded>>

\* rollbackTransaction() of the current transaction in the destinations ds.
RollbackTransaction(ds) ==
    LET open == {d \in ds : log[d][tx] = "BEGIN"}
    IN /\ buffered' = [d \in Destinations |-> IF d \in open THEN <<>> ELSE buffered[d]]
       /\ log' = [d \in Destinations |->
                     IF d \in open THEN [log[d] EXCEPT ![tx] = "ROLLBACK"] ELSE log[d]]

\* Session::rollback(), and ~Session() with a new session after it.
Rollback(closing) ==
    /\ pc = "idle" /\ tx <= MaxTx
    /\ RollbackTransaction({DestinationOf[p] : p \in producers})
    /\ staged' = [p \in Producers |-> <<>>]
    /\ discarded' = discarded \cup OfTx(tx)
    /\ tx' = tx + 1
    /\ producers' = IF closing THEN Producers ELSE producers
    /\ UNCHANGED <<sentIn, resolved, commit, store, delayStored, visible, bounds, committed>>

\* Session::deleteProducer(), by an application that keeps no other reference:
\* ~Producer() rolls back the session's transaction in its destination.
DeleteProducer(p) ==
    /\ pc = "idle" /\ tx <= MaxTx /\ p \in producers
    /\ deletes < MaxDeletes /\ deletes' = deletes + 1
    /\ producers' = producers \ {p}
    /\ RollbackTransaction({DestinationOf[p]})
    /\ staged' = [staged EXCEPT ![p] = <<>>]
    /\ discarded' = discarded \cup {m \in OfTx(tx) : ProducerOf[m] = p}
    /\ UNCHANGED <<tx, sentIn, resolved, commit, store, delayStored, visible,
                   crashes, failures, committed>>

\* Memory is lost.  At the next start loadTransactionLog() and recover() log a
\* ROLLBACK for every transaction without an end, and a new session begins (the
\* replay of the storage is in QueueDelivery).
CrashAndRecover ==
    /\ crashes < MaxCrashes /\ crashes' = crashes + 1
    /\ log' = [d \in Destinations |-> [t \in 1..MaxTx |->
                  IF log[d][t] = "BEGIN" THEN "ROLLBACK" ELSE log[d][t]]]
    /\ tx' = tx + 1
    /\ producers' = Producers
    /\ staged' = [p \in Producers |-> <<>>]
    /\ buffered' = [d \in Destinations |-> <<>>]
    /\ resolved' = {}
    /\ pc' = "idle" /\ todo' = {} /\ current' = <<>> /\ batch' = <<>>
    /\ visible' = {}
    /\ UNCHANGED <<sentIn, store, delayStored, deletes, failures, history>>

Next ==
    \/ \E m \in Messages : Send(m)
    \/ \E p \in Producers : CommitProducer(p) \/ DeleteProducer(p)
    \/ CommitBegin \/ AppendOne \/ AppendFails \/ AppendDone \/ DeliverCommitted
    \/ CommitEnd \/ CrashAndRecover
    \/ \E closing \in BOOLEAN : Rollback(closing)

Spec == Init /\ [][Next]_vars

-----------------------------------------------------------------------------
\* Every variable has its type; only persistent messages are buffered, batched
\* or stored, each in the destination it was sent to.
TypeOK ==
    /\ tx \in Nat \ {0}
    /\ producers \in SUBSET Producers
    /\ sentIn \in [Messages -> Nat]
    /\ staged \in [Producers -> Seq(Messages)]
    /\ buffered \in [Destinations -> Seq(Persistent)]
    /\ \A d \in Destinations : \A m \in ToSet(buffered[d]) : HomeOf(m) = d
    /\ resolved \in SUBSET Delayed
    /\ log \in [Destinations -> [1..MaxTx -> {"none", "BEGIN", "COMMIT", "ROLLBACK"}]]
    /\ pc \in {"idle", "commit", "append", "deliver"}
    /\ todo \in SUBSET Producers
    /\ current \in Seq(Messages) /\ batch \in Seq(Persistent)
    /\ store \in SUBSET Persistent /\ delayStored \in SUBSET store
    /\ visible \in SUBSET Messages
    /\ deletes \in Nat /\ crashes \in Nat /\ failures \in Nat
    /\ committed \in SUBSET Messages /\ discarded \in SUBSET Messages

\* The producer of m is the only one of the session on its destination.
Alone(m) == \A p \in Producers : DestinationOf[p] = HomeOf(m) => p = ProducerOf[m]

\* Once commit() has returned, every persistent message of the transaction has
\* its record in the storage, if no append threw and no other producer of the
\* session shares its transaction buffer.
CommittedStored ==
    failures = 0 => \A m \in committed \cap Persistent : Alone(m) => m \in store

\* A persistent message reaches the consumers only after its record is stored,
\* so that an acknowledgement finds the record it has to remove (under the same
\* conditions).
DeliveredAreStored ==
    failures = 0 => \A m \in visible \cap Persistent : Alone(m) => m \in store

\* Nothing of a transaction is stored or delivered unless its COMMIT is in the
\* log of the destination: a crash before that point leaves no trace of it, and
\* a message that the application rolled back never appears.
CommitLoggedFirst ==
    /\ \A m \in store : log[HomeOf(m)][sentIn[m]] = "COMMIT"
    /\ discarded \cap (store \cup visible) = {}

\* "The persisted deliveryTime matches what was just resolved" at the commit
\* (Producer::commit), if no other producer shares the transaction buffer.
StoredDelayResolved ==
    \A m \in store \cap Delayed : Alone(m) => m \in delayStored

\* What the test of the restart says: "committed transactions survive restart",
\* whichever producers the session has.
CommittedSurvive == committed \cap Persistent \subseteq store
=============================================================================
