--------------------------- MODULE StorageWorker ---------------------------
(***************************************************************************)
(* ConcurrentLinearStorage: a storage owned by one worker thread.          *)
(*                                                                         *)
(* Callers put operations into a lock-free queue; it keeps one FIFO stream *)
(* per calling thread and gives no order between streams.  A synchronous   *)
(* call lives on its caller's stack and waits for its event; removeAsync   *)
(* does not wait.  The worker executes one operation after the other,      *)
(* sweeps expired records when its deadline has passed, and leaves its     *)
(* loop when it meets STOP.                                                *)
(*                                                                         *)
(* The storage itself is the append-only log of the records: a record is   *)
(* the uuid of its message and the deleted flag.                           *)
(***************************************************************************)
EXTENDS Integers, Sequences, FiniteSets

CONSTANTS
    Threads,     \* threads that call the storage
    Batches,     \* what an append call may carry: sequences of uuids
    Expiring,    \* the uuids whose message has a JMSExpiration
    Budget,      \* kSweepBudget: records inspected per sweep
    MaxCalls,    \* bound: calls per thread
    MaxFailures, \* bound: operations that throw
    LateCalls,   \* TRUE if stop() may overlap the calls of other threads, as
                 \* when deleteSubscription() stops a storage that a consumer
                 \* still holds; FALSE when the last owner destroys it
    NoOp         \* what the worker holds between two operations

\* The elements of a sequence.
ToSet(s) == {s[i] : i \in DOMAIN s}

Uuids == UNION {ToSet(b) : b \in Batches}

Kinds == {"append", "scan", "remove", "removeAsync", "stop"}
Operations == [kind : Kinds, thread : Threads, items : Seq(Uuids)]

ASSUME StorageWorkerAssumption ==
    /\ Batches \subseteq Seq(Uuids) \ {<<>>}
    /\ Expiring \subseteq Uuids
    /\ Budget \in Nat \ {0}
    /\ MaxCalls \in Nat
    /\ MaxFailures \in Nat
    /\ LateCalls \in BOOLEAN
    /\ NoOp \notin Operations

VARIABLES
    log,         \* the records of the tom files, in file order
    cursor,      \* _sweepCursor: index of the next record to inspect
    expired,     \* the uuids whose expiration has passed
    streams,     \* _operations: one FIFO stream per calling thread
    pc,          \* each thread: "idle", "waiting" for its event, or in stop()
    wpc, op,     \* the worker: program counter and operation in hand
    isRunning, started, stopRequested,
    calls,       \* number of calls made, per thread
    failures,    \* number of operations that threw
    sent,        \* history: the uuids given to append
    asked,       \* history: the uuids each thread gave to removeAsync
    failed       \* history: the uuids whose remove threw

flags == <<isRunning, started, stopRequested>>
history == <<sent, asked, failed>>
bounds == <<calls, failures>>
vars == <<log, cursor, expired, streams, pc, wpc, op, flags, bounds, history>>

Operation(k, t, s) == [kind |-> k, thread |-> t, items |-> s]

InLog(u) == \E i \in DOMAIN log : log[i].uuid = u
Live(u) == \E i \in DOMAIN log : log[i].uuid = u /\ ~log[i].deleted

Init ==
    /\ log = <<>>
    /\ cursor = 1
    /\ expired = {}
    /\ streams = [t \in Threads |-> <<>>]
    /\ pc = [t \in Threads |-> "idle"]
    /\ wpc = "none" /\ op = NoOp
    /\ isRunning = FALSE /\ started = FALSE /\ stopRequested = FALSE
    /\ calls = [t \in Threads |-> 0]
    /\ failures = 0
    /\ sent = {}
    /\ asked = [t \in Threads |-> {}]
    /\ failed = {}

-----------------------------------------------------------------------------
(* Callers.                                                                *)

\* A call enqueues its operation on the thread's own stream; a synchronous one
\* then waits for the event of the operation.
Call(t, k, s) ==
    /\ pc[t] = "idle" /\ started
    /\ calls[t] < MaxCalls
    /\ LateCalls \/ ~stopRequested
    /\ streams' = [streams EXCEPT ![t] = Append(@, Operation(k, t, s))]
    /\ pc' = [pc EXCEPT ![t] = IF k = "removeAsync" THEN "idle" ELSE "waiting"]
    /\ calls' = [calls EXCEPT ![t] = @ + 1]
    /\ UNCHANGED <<log, cursor, expired, wpc, op, flags, failures, failed>>

\* append() and appendBatch(), of messages that were not stored before.
CallAppend(t) ==
    \E s \in Batches :
        /\ ToSet(s) \cap sent = {}
        /\ Call(t, "append", s)
        /\ sent' = sent \cup ToSet(s)
        /\ UNCHANGED asked

\* record(), data() and scan(): they read and do not change the storage.
CallScan(t) == Call(t, "scan", <<>>) /\ UNCHANGED <<sent, asked>>

\* remove() and removeAsync() of a record the thread got from the storage.
CallRemove(t) ==
    \E u \in Uuids : InLog(u) /\ Call(t, "remove", <<u>>) /\ UNCHANGED <<sent, asked>>

CallRemoveAsync(t) ==
    \E u \in Uuids :
        /\ InLog(u)
        /\ Call(t, "removeAsync", <<u>>)
        /\ asked' = [asked EXCEPT ![t] = @ \cup {u}]
        /\ UNCHANGED sent

-----------------------------------------------------------------------------
(* start() and stop().                                                     *)

\* start() creates the thread and returns before run() sets _isRunning.
Start ==
    /\ wpc = "none" /\ ~isRunning /\ ~stopRequested
    /\ wpc' = "starting"
    /\ started' = TRUE
    /\ UNCHANGED <<log, cursor, expired, streams, pc, op, isRunning, stopRequested,
                   bounds, history>>

\* _stopRequested.exchange(true); a second caller returns at once.
StopRequest(t) ==
    /\ pc[t] = "idle" /\ ~stopRequested
    /\ LateCalls \/ \A o \in Threads : pc[o] = "idle"
    /\ stopRequested' = TRUE
    /\ pc' = [pc EXCEPT ![t] = IF started THEN "stopping" ELSE "idle"]
    /\ UNCHANGED <<log, cursor, expired, streams, wpc, op, isRunning, started,
                   bounds, history>>

\* STOP is enqueued only if the worker is seen running; then the join.
StopEnqueue(t) ==
    /\ pc[t] = "stopping"
    /\ IF isRunning
       THEN /\ streams' = [streams EXCEPT ![t] = Append(@, Operation("stop", t, <<>>))]
            /\ pc' = [pc EXCEPT ![t] = "stopWait"]
       ELSE /\ pc' = [pc EXCEPT ![t] = "join"]
            /\ UNCHANGED streams
    /\ UNCHANGED <<log, cursor, expired, wpc, op, flags, bounds, history>>

StopJoin(t) ==
    /\ pc[t] = "join"
    /\ wpc = "exited"
    /\ pc' = [pc EXCEPT ![t] = "idle"]
    /\ UNCHANGED <<log, cursor, expired, streams, wpc, op, flags, bounds, history>>

-----------------------------------------------------------------------------
(* run().                                                                  *)

RunBegin ==
    /\ wpc = "starting"
    /\ isRunning' = TRUE
    /\ wpc' = "wait"
    /\ UNCHANGED <<log, cursor, expired, streams, pc, op, started, stopRequested,
                   bounds, history>>

\* Mutant: the newest operation of a stream first.
DequeueNewest(t) ==
    /\ wpc = "wait"
    /\ streams[t] # <<>>
    /\ op' = streams[t][Len(streams[t])]
    /\ streams' = [streams EXCEPT ![t] = SubSeq(@, 1, Len(@) - 1)]
    /\ wpc' = "exec"
    /\ UNCHANGED <<log, cursor, expired, pc, flags, bounds, history>>

Dequeue(t) ==
    /\ wpc = "wait"
    /\ streams[t] # <<>>
    /\ op' = Head(streams[t])
    /\ streams' = [streams EXCEPT ![t] = Tail(@)]
    /\ wpc' = "exec"
    /\ UNCHANGED <<log, cursor, expired, pc, flags, bounds, history>>

\* The wait lasted one sweep interval: the sweep is due.
WaitTimesOut ==
    /\ wpc = "wait"
    /\ \A t \in Threads : streams[t] = <<>>
    /\ wpc' = "sweep"
    /\ UNCHANGED <<log, cursor, expired, streams, pc, op, flags, bounds, history>>

\* The records an operation appends, and the flags it sets.
Appended(s) == log \o [i \in DOMAIN s |-> [uuid |-> s[i], deleted |-> FALSE]]
Deleted(us) == [i \in DOMAIN log |->
    [log[i] EXCEPT !.deleted = @ \/ log[i].uuid \in us]]

\* Mutant: the event is set before the operation has been executed.
ExecuteSignalsFirst ==
    /\ wpc = "exec" /\ op.kind # "stop"
    /\ log' = IF op.kind = "append" THEN Appended(op.items) ELSE log
    /\ pc' = [pc EXCEPT ![op.thread] = "idle"]
    /\ wpc' = "finish"
    /\ UNCHANGED <<cursor, expired, streams, op, flags, bounds, history>>

Execute ==
    /\ wpc = "exec" /\ op.kind # "stop"
    /\ log' = CASE op.kind = "append" -> Appended(op.items)
                [] op.kind \in {"remove", "removeAsync"} -> Deleted(ToSet(op.items))
                [] op.kind = "scan" -> log
    /\ wpc' = "finish"
    /\ UNCHANGED <<cursor, expired, streams, pc, op, flags, bounds, history>>

\* Mutant: the handler of the exception goes on with the next operation and
\* forgets the event.
ExecuteThrowsForgets ==
    /\ wpc = "exec" /\ op.kind # "stop"
    /\ failures < MaxFailures
    /\ failures' = failures + 1
    /\ op' = NoOp
    /\ wpc' = "wait"
    /\ UNCHANGED <<log, cursor, expired, streams, pc, flags, calls, history>>

\* The operation throws, a batch perhaps after some of its records; the
\* exception is logged and the loop goes on.
ExecuteThrows ==
    /\ wpc = "exec" /\ op.kind # "stop"
    /\ failures < MaxFailures
    /\ failures' = failures + 1
    /\ IF op.kind = "append"
       THEN \E n \in 0..(Len(op.items) - 1) : log' = Appended(SubSeq(op.items, 1, n))
       ELSE UNCHANGED log
    /\ failed' = IF op.kind = "removeAsync" THEN failed \cup ToSet(op.items) ELSE failed
    /\ wpc' = "finish"
    /\ UNCHANGED <<cursor, expired, streams, pc, op, flags, calls, sent, asked>>

\* Delete an asynchronous operation, or set the event of a synchronous one;
\* then sweep if the deadline has passed.
Finish ==
    /\ wpc = "finish"
    /\ pc' = [pc EXCEPT ![op.thread] = IF op.kind = "removeAsync" THEN @ ELSE "idle"]
    /\ op' = NoOp
    /\ wpc' \in {"sweep", "wait"}
    /\ UNCHANGED <<log, cursor, expired, streams, flags, bounds, history>>

\* sweepExpired(): at most Budget records from the cursor on; the cursor goes
\* back to the beginning when the end of the log was reached.
SweepEnd == cursor + Budget

\* Mutant: the cursor is always set back.
NextCursorRestarts == 1

NextCursor == IF SweepEnd <= Len(log) + 1 THEN SweepEnd ELSE 1
SweptBefore(end) == [i \in DOMAIN log |-> [log[i] EXCEPT
    !.deleted = @ \/ (cursor <= i /\ i < end /\ log[i].uuid \in expired)]]

Sweep ==
    /\ wpc = "sweep"
    /\ log' = SweptBefore(SweepEnd)
    /\ cursor' = NextCursor
    /\ wpc' = "wait"
    /\ UNCHANGED <<expired, streams, pc, op, flags, bounds, history>>

\* The sweep throws: in scanPrefix(), or at some record with the cursor already
\* moved; the exception is logged.
SweepThrows ==
    /\ wpc = "sweep"
    /\ failures < MaxFailures
    /\ failures' = failures + 1
    /\ \/ UNCHANGED <<log, cursor>>
       \/ /\ \E end \in cursor..(SweepEnd - 1) : log' = SweptBefore(end)
          /\ cursor' = NextCursor
    /\ wpc' = "wait"
    /\ UNCHANGED <<expired, streams, pc, op, flags, calls, history>>

\* STOP: leave the loop without another access to the files.
ObserveStop ==
    /\ wpc = "exec" /\ op.kind = "stop"
    /\ isRunning' = FALSE
    /\ pc' = [pc EXCEPT ![op.thread] = "join"]
    /\ op' = NoOp
    /\ wpc' = "exited"
    /\ UNCHANGED <<log, cursor, expired, streams, started, stopRequested, bounds, history>>

\* Time passes and a message expires.
Expire ==
    \E u \in Expiring \ expired :
        /\ expired' = expired \cup {u}
        /\ UNCHANGED <<log, cursor, streams, pc, wpc, op, flags, bounds, history>>

-----------------------------------------------------------------------------
Caller(t) ==
    \/ CallAppend(t) \/ CallScan(t) \/ CallRemove(t) \/ CallRemoveAsync(t)
    \/ StopRequest(t)

Stopping(t) == StopEnqueue(t) \/ StopJoin(t)

Worker ==
    \/ RunBegin \/ (\E t \in Threads : Dequeue(t)) \/ WaitTimesOut
    \/ Execute \/ ExecuteThrows \/ Finish \/ Sweep \/ SweepThrows
    \/ ObserveStop

Next == Start \/ Worker \/ Expire \/ \E t \in Threads : Caller(t) \/ Stopping(t)

Spec == Init /\ [][Next]_vars

\* The worker thread runs, and so does a thread inside stop().
FairSpec ==
    /\ Spec
    /\ WF_vars(Worker)
    /\ \A t \in Threads : WF_vars(Stopping(t))

-----------------------------------------------------------------------------
\* The types of the variables.  The cursor of the sweep stays within the log, and
\* the worker holds an operation exactly while it executes one.
TypeOK ==
    /\ log \in Seq([uuid : Uuids, deleted : BOOLEAN])
    /\ cursor \in 1..(Len(log) + 1)
    /\ expired \in SUBSET Expiring
    /\ streams \in [Threads -> Seq(Operations)]
    /\ pc \in [Threads -> {"idle", "waiting", "stopping", "stopWait", "join"}]
    /\ wpc \in {"none", "starting", "wait", "exec", "finish", "sweep", "exited"}
    /\ op \in Operations \cup {NoOp}
    /\ wpc \in {"exec", "finish"} <=> op # NoOp
    /\ isRunning \in BOOLEAN /\ started \in BOOLEAN /\ stopRequested \in BOOLEAN
    /\ calls \in [Threads -> 0..MaxCalls]
    /\ failures \in 0..MaxFailures
    /\ sent \in SUBSET Uuids /\ failed \in SUBSET Uuids
    /\ asked \in [Threads -> SUBSET Uuids]

\* A synchronous Operation lives on the stack of the thread that made it.  As
\* long as the queue or the worker can still reach one, its thread is inside
\* the same call, waiting for the event: no operation outlives its stack frame.
Alive(o) ==
    /\ o.kind = "stop" => pc[o.thread] = "stopWait"
    /\ o.kind \in {"append", "scan", "remove"} => pc[o.thread] = "waiting"
OperationAlive ==
    /\ op # NoOp => Alive(op)
    /\ \A t \in Threads : \A i \in DOMAIN streams[t] : Alive(streams[t][i])

\* A thread sees its own removes: when the worker turns to a read or to the
\* STOP of a thread, every record that thread gave to removeAsync before is
\* deleted, unless that remove threw.  So a consumer that acknowledges and then
\* destroys the destination does not meet the acknowledged messages again.
OwnRemovesFirst ==
    wpc = "exec" /\ op.kind \in {"scan", "stop"} =>
        \A u \in asked[op.thread] \ failed : ~Live(u)

\* Every synchronous call returns, also when its operation threw, unless the
\* storage is stopped meanwhile.
EveryCallAnswered ==
    \A t \in Threads : (pc[t] = "waiting") ~> (pc[t] # "waiting" \/ stopRequested)

\* Every expired record is removed although a sweep inspects only Budget
\* records, unless the storage is stopped first.
ExpiredAreSwept ==
    \A u \in Expiring : (u \in expired /\ Live(u)) ~> (~Live(u) \/ stopRequested)

\* What the comment in stop() says: the first caller "enqueues STOP and joins
\* the thread", so stop() returns.
StopReturns ==
    \A t \in Threads : (pc[t] \in {"stopping", "stopWait", "join"}) ~> (pc[t] = "idle")
=============================================================================
