------------------------ MODULE StorageWorkerProofs -------------------------
(***************************************************************************)
(* Proofs about StorageWorker, for any threads, batches and bounds: no     *)
(* operation outlives its call, and a thread sees its own removes.         *)
(***************************************************************************)
EXTENDS StorageWorker, TLAPS

Asynchronous(o) == o.kind = "removeAsync"

\* The stream of a thread holds operations of that thread; they are alive, and a
\* synchronous one is the last, since its thread waits for it.
Owned(t) == \A o \in ToSet(streams[t]) : o.thread = t /\ Alive(o)
LastWaits(t) ==
    \A i \in 1..Len(streams[t]) : Asynchronous(streams[t][i]) \/ i = Len(streams[t])
StreamsOK == \A t \in Threads : Owned(t) /\ LastWaits(t)

\* The same of the operation that the worker holds.
InHandOK ==
    op # NoOp => Alive(op) /\ (Asynchronous(op) \/ streams[op.thread] = <<>>)

\* The operations that are still to be executed.
Adds(o, u) == o.kind = "append" /\ u \in ToSet(o.items)
Drops(o, u) == o.kind = "removeAsync" /\ u \in ToSet(o.items)
AddsNow(u) == wpc = "exec" /\ Adds(op, u)
AddsLater(t, u) == \E o \in ToSet(streams[t]) : Adds(o, u)

\* A uuid is appended once: it is in the log, or with one operation.
FreshOK == \A u \in Uuids :
    /\ InLog(u) => u \in sent /\ ~AddsNow(u) /\ \A t \in Threads : ~AddsLater(t, u)
    /\ AddsNow(u) => u \in sent /\ \A t \in Threads : ~AddsLater(t, u)
    /\ \A t \in Threads : AddsLater(t, u) =>
          u \in sent /\ \A x \in Threads \ {t} : ~AddsLater(x, u)

\* What a thread gave to removeAsync is deleted, or its operation is still to come.
AskedOK == \A t \in Threads : \A u \in asked[t] :
    /\ InLog(u)
    /\ \/ u \in failed \/ ~Live(u)
       \/ wpc = "exec" /\ op.thread = t /\ Drops(op, u)
       \/ \E o \in ToSet(streams[t]) : Drops(o, u)

StorageInv == TypeOK /\ StreamsOK /\ InHandOK /\ FreshOK /\ AskedOK

Records == [uuid : Uuids, deleted : BOOLEAN]

-----------------------------------------------------------------------------
(* Sequences.                                                              *)

\* Enqueueing adds one operation to a stream, at its end.
LEMMA AppendSet ==
  ASSUME NEW S, NEW s \in Seq(S), NEW e \in S
  PROVE  /\ Append(s, e) \in Seq(S) /\ Len(Append(s, e)) = Len(s) + 1
         /\ \A i \in 1..Len(s) : Append(s, e)[i] = s[i]
         /\ Append(s, e)[Len(s) + 1] = e
         /\ ToSet(Append(s, e)) = ToSet(s) \cup {e}
<1>1. /\ Append(s, e) \in Seq(S) /\ Len(Append(s, e)) = Len(s) + 1
      /\ \A i \in 1..Len(s) : Append(s, e)[i] = s[i]
      /\ Append(s, e)[Len(s) + 1] = e
  OBVIOUS
<1>2. DOMAIN s = 1..Len(s) /\ DOMAIN Append(s, e) = 1..(Len(s) + 1) /\ Len(s) \in Nat
  OBVIOUS
<1>3. ToSet(Append(s, e)) = ToSet(s) \cup {e}
  BY <1>1, <1>2 DEF ToSet
<1> QED
  BY <1>1, <1>3, Zenon

\* Dequeueing takes the first operation and leaves the others in order.
LEMMA TailSet ==
  ASSUME NEW S, NEW s \in Seq(S), s # <<>>
  PROVE  /\ Tail(s) \in Seq(S) /\ Len(Tail(s)) = Len(s) - 1 /\ Len(s) \in Nat \ {0}
         /\ \A i \in 1..Len(Tail(s)) : Tail(s)[i] = s[i + 1]
         /\ Head(s) = s[1] /\ Head(s) \in S /\ Head(s) \in ToSet(s)
         /\ ToSet(s) = {Head(s)} \cup ToSet(Tail(s))
<1>1. /\ Tail(s) \in Seq(S) /\ Len(Tail(s)) = Len(s) - 1 /\ Len(s) \in Nat \ {0}
      /\ \A i \in 1..Len(Tail(s)) : Tail(s)[i] = s[i + 1]
      /\ Head(s) = s[1]
  OBVIOUS
<1>2. DOMAIN s = 1..Len(s) /\ DOMAIN Tail(s) = 1..(Len(s) - 1)
  BY <1>1
<1>3. Head(s) \in S /\ Head(s) \in ToSet(s)
  BY <1>1, <1>2 DEF ToSet
<1>4. ASSUME NEW e \in ToSet(s) PROVE e = Head(s) \/ e \in ToSet(Tail(s))
  <2>1. PICK i \in 1..Len(s) : e = s[i]
    BY <1>2, Zenon DEF ToSet
  <2>2. CASE i = 1
    BY <1>1, <2>1, <2>2, Zenon
  <2>3. CASE i # 1
    <3>1. i - 1 \in 1..(Len(s) - 1) /\ (i - 1) + 1 = i
      BY <1>1, <2>3
    <3> QED
      BY <1>1, <1>2, <2>1, <3>1, ZenonT(30) DEF ToSet
  <2> QED
    BY <2>2, <2>3, Zenon
<1>5. ASSUME NEW e \in ToSet(Tail(s)) PROVE e \in ToSet(s)
  <2>1. PICK i \in 1..(Len(s) - 1) : e = Tail(s)[i]
    BY <1>2, Zenon DEF ToSet
  <2>2. i + 1 \in 1..Len(s)
    BY <1>1
  <2> QED
    BY <1>1, <1>2, <2>1, <2>2, Zenon DEF ToSet
<1> QED
  BY <1>1, <1>3, <1>4, <1>5, Zenon

\* An empty stream holds no operation.
LEMMA EmptySet == ToSet(<<>>) = {}
  BY DEF ToSet

\* A record of a stored message is live, and marking a record keeps its uuid.
LEMMA RecordFacts ==
  /\ \A u \in Uuids : [uuid |-> u, deleted |-> FALSE] \in Records
  /\ \A r \in Records, b \in BOOLEAN :
        /\ [r EXCEPT !.deleted = @ \/ b] \in Records
        /\ [r EXCEPT !.deleted = @ \/ b].uuid = r.uuid
        /\ [r EXCEPT !.deleted = @ \/ b].deleted <=> r.deleted \/ b
  BY Zenon DEF Records

\* A function on 1..n is a sequence.
LEMMA FunctionIsSeq ==
  ASSUME NEW S, NEW n \in Nat, NEW f \in [1..n -> S]
  PROVE  f \in Seq(S) /\ Len(f) = n
  OBVIOUS

\* Concatenation, by position.
LEMMA ConcatAt ==
  \A s, t \in Seq(Records) :
     /\ s \o t \in Seq(Records) /\ Len(s \o t) = Len(s) + Len(t)
     /\ \A i \in 1..Len(s) : (s \o t)[i] = s[i]
     /\ \A i \in 1..Len(t) : (s \o t)[Len(s) + i] = t[i]
  OBVIOUS

\* append() and appendBatch(): the records of s follow those of the log, live.
LEMMA AppendedLog ==
  ASSUME log \in Seq(Records), NEW s \in Seq(Uuids), log' = Appended(s)
  PROVE  /\ log' \in Seq(Records) /\ Len(log) <= Len(log')
         /\ \A u \in Uuids : /\ InLog(u)' <=> InLog(u) \/ u \in ToSet(s)
                             /\ Live(u)' => Live(u) \/ u \in ToSet(s)
<1> DEFINE r == [i \in DOMAIN s |-> [uuid |-> s[i], deleted |-> FALSE]]
<1>1. /\ Len(log) \in Nat /\ Len(s) \in Nat
      /\ DOMAIN log = 1..Len(log) /\ DOMAIN s = 1..Len(s)
  OBVIOUS
<1>2. r \in [1..Len(s) -> Records] /\ \A i \in 1..Len(s) : r[i].uuid = s[i]
  BY <1>1, RecordFacts
<1>3. log' = log \o r
  BY Zenon DEF Appended
<1> HIDE DEF r
<1>4. r \in Seq(Records) /\ Len(r) = Len(s)
  BY <1>1, <1>2, FunctionIsSeq, Zenon
<1>5. /\ log' \in Seq(Records) /\ Len(log') = Len(log) + Len(s)
      /\ \A i \in 1..Len(log) : log'[i] = log[i]
      /\ \A i \in 1..Len(s) : log'[Len(log) + i] = r[i]
  <2>1. /\ log \o r \in Seq(Records) /\ Len(log \o r) = Len(log) + Len(r)
        /\ \A i \in 1..Len(log) : (log \o r)[i] = log[i]
        /\ \A i \in 1..Len(r) : (log \o r)[Len(log) + i] = r[i]
    BY <1>4, ConcatAt, Zenon
  <2> QED
    BY <1>3, <1>4, <2>1, Zenon
<1>6. DOMAIN log' = 1..(Len(log) + Len(s))
  BY <1>5
<1>7. \A i \in DOMAIN log' : \/ i \in DOMAIN log /\ log'[i] = log[i]
                             \/ i - Len(log) \in DOMAIN s /\ log'[i].uuid = s[i - Len(log)]
  <2> SUFFICES ASSUME NEW i \in 1..(Len(log) + Len(s)), i \notin 1..Len(log)
               PROVE  i - Len(log) \in 1..Len(s) /\ log'[i].uuid = s[i - Len(log)]
    BY <1>1, <1>5, <1>6, Zenon
  <2>1. i - Len(log) \in 1..Len(s) /\ Len(log) + (i - Len(log)) = i
    BY <1>1
  <2> QED
    BY <1>2, <1>5, <2>1, Zenon
<1>8. ASSUME NEW i \in DOMAIN s PROVE \E j \in DOMAIN log' : log'[j].uuid = s[i]
  <2>1. Len(log) + i \in DOMAIN log'
    BY <1>1, <1>6
  <2> QED
    BY <1>1, <1>2, <1>5, <2>1, Zenon
<1>9. \A u \in Uuids : InLog(u)' <=> InLog(u) \/ u \in ToSet(s)
  <2>1. \A i \in DOMAIN log : i \in DOMAIN log' /\ log'[i] = log[i]
    BY <1>1, <1>5, <1>6
  <2> QED
    BY <1>7, <1>8, <2>1 DEF InLog, ToSet
<1>10. \A u \in Uuids : Live(u)' => Live(u) \/ u \in ToSet(s)
  BY <1>7 DEF Live, ToSet
<1> QED
  BY <1>1, <1>5, <1>9, <1>10

\* Steps that only set flags of records.
LEMMA FlaggedLog ==
  ASSUME log \in Seq(Records), log' \in [DOMAIN log -> Records],
         \A i \in DOMAIN log : log'[i].uuid = log[i].uuid /\ (log[i].deleted => log'[i].deleted)
  PROVE  /\ log' \in Seq(Records) /\ Len(log') = Len(log)
         /\ \A u \in Uuids : (InLog(u)' <=> InLog(u)) /\ (Live(u)' => Live(u))
<1>1. DOMAIN log = 1..Len(log) /\ Len(log) \in Nat
  OBVIOUS
<1>2. log' \in Seq(Records) /\ Len(log') = Len(log)
  BY <1>1, FunctionIsSeq, Zenon
<1> QED
  BY <1>2, Zenon DEF InLog, Live

\* remove() and removeAsync() of the uuids us.
LEMMA DeletedLog ==
  ASSUME log \in Seq(Records), NEW us, log' = Deleted(us)
  PROVE  /\ log' \in Seq(Records) /\ Len(log') = Len(log)
         /\ \A u \in Uuids : (InLog(u)' <=> InLog(u)) /\ (Live(u)' => Live(u) /\ u \notin us)
<1>1. \A i \in DOMAIN log : log[i] \in Records
  OBVIOUS
<1>2. /\ log' \in [DOMAIN log -> Records]
      /\ \A i \in DOMAIN log : /\ log'[i].uuid = log[i].uuid
                               /\ log'[i].deleted <=> log[i].deleted \/ log[i].uuid \in us
  BY <1>1, RecordFacts, Zenon DEF Deleted
<1>3. /\ log' \in Seq(Records) /\ Len(log') = Len(log)
      /\ \A u \in Uuids : (InLog(u)' <=> InLog(u)) /\ (Live(u)' => Live(u))
  BY <1>2, FlaggedLog, Zenon
<1>4. \A u \in Uuids : Live(u)' => u \notin us
  BY <1>2, ZenonT(30) DEF Live
<1> QED
  BY <1>3, <1>4, Zenon

\* sweepExpired(), complete or interrupted.
LEMMA SweptLog ==
  ASSUME log \in Seq(Records), NEW end, log' = SweptBefore(end)
  PROVE  /\ log' \in Seq(Records) /\ Len(log') = Len(log)
         /\ \A u \in Uuids : (InLog(u)' <=> InLog(u)) /\ (Live(u)' => Live(u))
<1>1. \A i \in DOMAIN log : log[i] \in Records
  OBVIOUS
<1>2. /\ log' \in [DOMAIN log -> Records]
      /\ \A i \in DOMAIN log : /\ log'[i].uuid = log[i].uuid
                               /\ log[i].deleted => log'[i].deleted
  BY <1>1, RecordFacts, Zenon DEF SweptBefore
<1> QED
  BY <1>2, FlaggedLog, Zenon

-----------------------------------------------------------------------------
(* What a step does to the log.                                            *)

\* The record of a call is an operation.
LEMMA MakesOperation ==
  \A k \in Kinds, t \in Threads, s \in Seq(Uuids) : Operation(k, t, s) \in Operations
  BY Zenon DEF Operations, Operation

\* The parts of the type invariant that the other lemmas use.
LEMMA TypeFacts ==
  ASSUME TypeOK
  PROVE  /\ log \in Seq(Records)
         /\ \A t \in Threads : streams[t] \in Seq(Operations) /\ ToSet(streams[t]) \subseteq Operations
         /\ wpc \in {"exec", "finish"} => op \in Operations
         /\ DOMAIN streams = Threads /\ DOMAIN pc = Threads /\ DOMAIN asked = Threads
         /\ sent \subseteq Uuids /\ failed \subseteq Uuids
         /\ \A t \in Threads : asked[t] \subseteq Uuids
<1>1. \A q \in Seq(Operations) : ToSet(q) \subseteq Operations
  BY DEF ToSet
<1>2. \A t \in Threads : streams[t] \in Seq(Operations)
  BY Zenon DEF TypeOK
<1>3. wpc \in {"exec", "finish"} => op \in Operations
  BY Zenon DEF TypeOK
<1>4. log \in Seq(Records)
  BY Zenon DEF TypeOK, Records
<1>5. /\ DOMAIN streams = Threads /\ DOMAIN pc = Threads /\ DOMAIN asked = Threads
      /\ sent \subseteq Uuids /\ failed \subseteq Uuids
      /\ \A t \in Threads : asked[t] \subseteq Uuids
  BY Zenon DEF TypeOK
<1> QED
  BY <1>1, <1>2, <1>3, <1>4, <1>5, Zenon

\* The records of a step are those of before and what the operation in hand adds.
LogGrows ==
    /\ log' \in Seq(Records) /\ Len(log) <= Len(log')
    /\ \A u \in Uuids : /\ InLog(u) => InLog(u)'
                        /\ InLog(u)' => InLog(u) \/ AddsNow(u)
                        /\ Live(u)' => Live(u) \/ AddsNow(u)

\* A step that leaves the log alone.
LEMMA SameLog == ASSUME log \in Seq(Records), UNCHANGED log PROVE LogGrows
  BY DEF LogGrows, InLog, Live

\* Executing an operation: an append adds its items, a remove deletes them, a read
\* does nothing.
LEMMA ExecuteLog ==
  ASSUME TypeOK, Execute
  PROVE  LogGrows /\ \A u \in Uuids : Drops(op, u) => ~Live(u)'
<1>1. /\ log \in Seq(Records) /\ op \in Operations /\ op.kind \in Kinds
      /\ op.items \in Seq(Uuids) /\ wpc = "exec"
  BY TypeFacts, Zenon DEF Execute, Operations
<1>2. CASE op.kind = "append"
  <2>1. log' = Appended(op.items)
    BY <1>2, Zenon DEF Execute
  <2>2. \A u \in Uuids : u \in ToSet(op.items) => AddsNow(u)
    BY <1>1, <1>2, Zenon DEF AddsNow, Adds
  <2> QED
    BY <1>1, <1>2, <2>1, <2>2, AppendedLog, Zenon DEF LogGrows, Drops
<1>3. CASE op.kind \in {"remove", "removeAsync"}
  <2>1. log' = Deleted(ToSet(op.items))
    BY <1>3, Zenon DEF Execute
  <2>2. /\ log' \in Seq(Records) /\ Len(log') = Len(log)
        /\ \A u \in Uuids : (InLog(u)' <=> InLog(u)) /\ (Live(u)' => Live(u) /\ u \notin ToSet(op.items))
    BY <1>1, <2>1, DeletedLog, Zenon
  <2> QED
    BY <1>1, <2>2 DEF LogGrows, Drops
<1>4. CASE op.kind = "scan"
  <2>1. log' = log
    BY <1>4, Zenon DEF Execute
  <2> QED
    BY <1>1, <1>4, <2>1, SameLog, Zenon DEF Drops
<1> QED
  BY <1>1, <1>2, <1>3, <1>4, Zenon DEF Execute, Kinds

\* An operation that throws: a batch may have been appended in part.
LEMMA ExecuteThrowsLog ==
  ASSUME TypeOK, ExecuteThrows
  PROVE  LogGrows
<1>1. /\ log \in Seq(Records) /\ op \in Operations
      /\ op.items \in Seq(Uuids) /\ wpc = "exec"
  BY TypeFacts, Zenon DEF ExecuteThrows, Operations
<1>2. CASE op.kind = "append"
  <2>1. PICK n \in 0..(Len(op.items) - 1) : log' = Appended(SubSeq(op.items, 1, n))
    BY <1>2, Zenon DEF ExecuteThrows
  <2>2. /\ SubSeq(op.items, 1, n) \in Seq(Uuids)
        /\ ToSet(SubSeq(op.items, 1, n)) \subseteq ToSet(op.items)
    BY <1>1 DEF ToSet
  <2>3. \A u \in Uuids : u \in ToSet(op.items) => AddsNow(u)
    BY <1>1, <1>2, Zenon DEF AddsNow, Adds
  <2>4. /\ log' \in Seq(Records) /\ Len(log) <= Len(log')
        /\ \A u \in Uuids : /\ InLog(u)' <=> InLog(u) \/ u \in ToSet(SubSeq(op.items, 1, n))
                            /\ Live(u)' => Live(u) \/ u \in ToSet(SubSeq(op.items, 1, n))
    BY <1>1, <2>1, <2>2, AppendedLog, Zenon
  <2> QED
    BY <2>2, <2>3, <2>4, Zenon DEF LogGrows
<1>3. CASE op.kind # "append"
  BY <1>1, <1>3, SameLog, Zenon DEF ExecuteThrows
<1> QED
  BY <1>2, <1>3, Zenon

\* A sweep only sets flags.
LEMMA SweepLog ==
  ASSUME TypeOK, Sweep \/ SweepThrows
  PROVE  LogGrows /\ Len(log') = Len(log)
<1>1. log \in Seq(Records)
  BY TypeFacts, Zenon
<1>2. log' = log \/ \E end : log' = SweptBefore(end)
  BY Zenon DEF Sweep, SweepThrows
<1>3. CASE log' = log
  BY <1>1, <1>3, SameLog, Zenon
<1>4. ASSUME NEW end, log' = SweptBefore(end) PROVE LogGrows /\ Len(log') = Len(log)
  BY <1>1, <1>4, SweptLog DEF LogGrows
<1> QED
  BY <1>2, <1>3, <1>4, Zenon

-----------------------------------------------------------------------------
(* The steps, as far as the invariant sees them.                           *)

\* A thread that is in no call gives an operation to the queue.
Enqueues(t, o) ==
    /\ pc[t] \in {"idle", "stopping"}
    /\ o \in Operations /\ o.thread = t /\ Alive(o)'
    /\ streams' = [streams EXCEPT ![t] = Append(@, o)]
    /\ \A x \in Threads \ {t} : pc'[x] = pc[x]
    /\ UNCHANGED <<log, wpc, op, failed>>
    /\ \/ o.kind # "append" /\ UNCHANGED sent
       \/ o.kind = "append" /\ ToSet(o.items) \cap sent = {} /\ sent' = sent \cup ToSet(o.items)
    /\ \/ UNCHANGED asked
       \/ \E u \in Uuids : /\ InLog(u) /\ Drops(o, u)
                           /\ asked' = [asked EXCEPT ![t] = @ \cup {u}]

\* A step that leaves the operations where they are.
Resting ==
    /\ UNCHANGED <<streams, op, history>>
    /\ \A x \in Threads : pc'[x] = pc[x] \/ pc[x] \in {"idle", "stopping", "join"}
    /\ \/ UNCHANGED <<log, wpc>>
       \/ wpc \notin {"exec", "finish"} /\ wpc' \notin {"exec", "finish"}

\* The worker is done with its operation.
Settles ==
    /\ wpc \in {"exec", "finish"} /\ wpc' \notin {"exec", "finish"} /\ op' = NoOp
    /\ \A x \in Threads : pc'[x] = pc[x] \/ (x = op.thread /\ ~Asynchronous(op))
    /\ wpc = "exec" => op.kind = "stop"
    /\ UNCHANGED <<log, streams, history>>

\* What an operation o is that a call of kind k with items s enqueues.
Called(t, k, s, o) ==
    /\ pc[t] \in {"idle", "stopping"}
    /\ o \in Operations /\ o.thread = t /\ o.kind = k /\ o.items = s /\ Alive(o)'
    /\ streams' = [streams EXCEPT ![t] = Append(@, o)]
    /\ \A x \in Threads \ {t} : pc'[x] = pc[x]
    /\ UNCHANGED <<log, wpc, op, failed>>

\* A call enqueues such an operation.
LEMMA CallEnqueues ==
  ASSUME TypeOK, NEW t \in Threads, NEW k \in Kinds \ {"stop"}, NEW s \in Seq(Uuids),
         Call(t, k, s)
  PROVE  \E o \in Operations : Called(t, k, s, o)
<1> DEFINE o == Operation(k, t, s)
<1>1. o.kind = k /\ o.items = s /\ o.thread = t
  BY Zenon DEF Operation
<1>2. o \in Operations
  BY MakesOperation, Zenon
<1>3. /\ streams' = [streams EXCEPT ![t] = Append(@, o)]
      /\ UNCHANGED <<log, wpc, op, failed>>
  BY Zenon DEF Call
<1>4. /\ pc[t] = "idle" /\ pc'[t] = (IF k = "removeAsync" THEN "idle" ELSE "waiting")
      /\ \A x \in Threads \ {t} : pc'[x] = pc[x]
  BY TypeFacts, Zenon DEF Call
<1> HIDE DEF o
<1>5. Alive(o)'
  BY <1>1, <1>4, Zenon DEF Alive
<1> QED
  BY <1>1, <1>2, <1>3, <1>4, <1>5, Zenon DEF Called

\* The items of the calls are sequences of uuids.
LEMMA ItemsOf ==
  /\ \A s \in Batches : s \in Seq(Uuids)
  /\ <<>> \in Seq(Uuids)
  /\ \A u \in Uuids : <<u>> \in Seq(Uuids) /\ u \in ToSet(<<u>>)
  BY StorageWorkerAssumption DEF ToSet

\* The public methods of the storage.
LEMMA CallerSteps ==
  ASSUME TypeOK, NEW t \in Threads, Caller(t)
  PROVE  (\E o \in Operations : Enqueues(t, o)) \/ Resting
<1>k. {"append", "scan", "remove", "removeAsync"} \subseteq Kinds \ {"stop"}
  BY Zenon DEF Kinds
<1>1. CASE CallAppend(t)
  <2>1. PICK s \in Batches : /\ ToSet(s) \cap sent = {} /\ Call(t, "append", s)
                             /\ sent' = sent \cup ToSet(s) /\ UNCHANGED asked
    BY <1>1, Zenon DEF CallAppend
  <2>2. PICK o \in Operations : Called(t, "append", s, o)
    BY <1>k, <2>1, ItemsOf, CallEnqueues, Zenon
  <2> QED
    BY <2>1, <2>2, Zenon DEF Called, Enqueues
<1>2. CASE CallScan(t)
  <2>1. Call(t, "scan", <<>>) /\ UNCHANGED <<sent, asked>>
    BY <1>2, Zenon DEF CallScan
  <2>2. PICK o \in Operations : Called(t, "scan", <<>>, o)
    BY <1>k, <2>1, ItemsOf, CallEnqueues, Zenon
  <2> QED
    BY <2>1, <2>2, Zenon DEF Called, Enqueues
<1>3. CASE CallRemove(t)
  <2>1. PICK u \in Uuids : Call(t, "remove", <<u>>) /\ UNCHANGED <<sent, asked>>
    BY <1>3, Zenon DEF CallRemove
  <2>2. PICK o \in Operations : Called(t, "remove", <<u>>, o)
    BY <1>k, <2>1, ItemsOf, CallEnqueues, Zenon
  <2> QED
    BY <2>1, <2>2, Zenon DEF Called, Enqueues
<1>4. CASE CallRemoveAsync(t)
  <2>1. PICK u \in Uuids : /\ InLog(u) /\ Call(t, "removeAsync", <<u>>) /\ UNCHANGED sent
                           /\ asked' = [asked EXCEPT ![t] = @ \cup {u}]
    BY <1>4, Zenon DEF CallRemoveAsync
  <2>2. PICK o \in Operations : Called(t, "removeAsync", <<u>>, o)
    BY <1>k, <2>1, ItemsOf, CallEnqueues, Zenon
  <2>3. Drops(o, u)
    BY <2>2, ItemsOf, Zenon DEF Called, Drops
  <2> QED
    BY <2>1, <2>2, <2>3, Zenon DEF Called, Enqueues
<1>5. CASE StopRequest(t)
  BY <1>5, TypeFacts, Zenon DEF StopRequest, Resting, history
<1> QED
  BY <1>1, <1>2, <1>3, <1>4, <1>5, Zenon DEF Caller

\* The rest of stop().
LEMMA StoppingSteps ==
  ASSUME TypeOK, NEW t \in Threads, Stopping(t)
  PROVE  (\E o \in Operations : Enqueues(t, o)) \/ Resting
<1>1. CASE StopEnqueue(t) /\ isRunning
  <2> DEFINE o == Operation("stop", t, <<>>)
  <2>1. o \in Operations /\ o.thread = t /\ o.kind = "stop"
    <3>1. "stop" \in Kinds
      BY Zenon DEF Kinds
    <3>2. o \in Operations
      BY <3>1, ItemsOf, MakesOperation, Zenon
    <3> QED
      BY <3>2, Zenon DEF Operation
  <2>2. /\ pc[t] = "stopping" /\ streams' = [streams EXCEPT ![t] = Append(@, o)]
        /\ pc' = [pc EXCEPT ![t] = "stopWait"]
        /\ UNCHANGED <<log, wpc, op, history>>
    BY <1>1, Zenon DEF StopEnqueue
  <2> HIDE DEF o
  <2>3. Alive(o)' /\ \A x \in Threads \ {t} : pc'[x] = pc[x]
    BY <2>1, <2>2, TypeFacts, Zenon DEF Alive
  <2> QED
    BY <2>1, <2>2, <2>3, Zenon DEF Enqueues, history
<1>2. CASE StopEnqueue(t) /\ ~isRunning
  BY <1>2, TypeFacts, Zenon DEF StopEnqueue, Resting
<1>3. CASE StopJoin(t)
  BY <1>3, TypeFacts, Zenon DEF StopJoin, Resting
<1> QED
  BY <1>1, <1>2, <1>3, Zenon DEF Stopping

\* Every step is one of these.
LEMMA Steps ==
  ASSUME TypeOK, [Next]_vars
  PROVE  \/ \E t \in Threads, o \in Operations : Enqueues(t, o)
         \/ \E t \in Threads : Dequeue(t)
         \/ Execute \/ ExecuteThrows \/ Settles
         \/ Resting /\ LogGrows
<1>1. ASSUME NEW t \in Threads, Caller(t) \/ Stopping(t)
      PROVE  (\E o \in Operations : Enqueues(t, o)) \/ (Resting /\ LogGrows)
  <2>1. UNCHANGED log
    BY <1>1, Zenon DEF Caller, Stopping, CallAppend, CallScan, CallRemove, CallRemoveAsync, Call,
                StopRequest, StopEnqueue, StopJoin
  <2> QED
    BY <1>1, <2>1, CallerSteps, StoppingSteps, SameLog, TypeFacts, Zenon
<1>2. CASE Finish
  <2>1. op \in Operations
    BY <1>2, TypeFacts, Zenon DEF Finish
  <2> QED
    BY <1>2, <2>1, TypeFacts, Zenon DEF Finish, Settles, Asynchronous, Operations
<1>3. CASE ObserveStop
  <2>1. op \in Operations
    BY <1>3, TypeFacts, Zenon DEF ObserveStop
  <2> QED
    BY <1>3, <2>1, TypeFacts, Zenon DEF ObserveStop, Settles, Asynchronous, Operations
<1>4. CASE Sweep \/ SweepThrows
  <2>1. Resting
    BY <1>4, Zenon DEF Sweep, SweepThrows, Resting
  <2> QED
    BY <1>4, <2>1, SweepLog, Zenon
<1>5. CASE Start \/ RunBegin \/ WaitTimesOut \/ Expire \/ UNCHANGED vars
  <2>1. UNCHANGED log
    BY <1>5, Zenon DEF Start, RunBegin, WaitTimesOut, Expire, vars
  <2>2. Resting
    BY <1>5, Zenon DEF Start, RunBegin, WaitTimesOut, Expire, vars, Resting
  <2> QED
    BY <2>1, <2>2, SameLog, TypeFacts, Zenon
<1> QED
  BY <1>1, <1>2, <1>3, <1>4, <1>5, Zenon DEF Next, Worker

-----------------------------------------------------------------------------
(* The type invariant.                                                     *)

\* The log grows by what the operation in hand adds, in every step.
LEMMA LogStep == ASSUME TypeOK, [Next]_vars PROVE LogGrows
<1>1. ASSUME NEW t \in Threads, NEW o \in Operations, Enqueues(t, o) PROVE UNCHANGED log
  BY <1>1, Zenon DEF Enqueues
<1>2. ASSUME NEW t \in Threads, Dequeue(t) PROVE UNCHANGED log
  BY <1>2, Zenon DEF Dequeue
<1>3. Settles => UNCHANGED log
  BY Zenon DEF Settles
<1> QED
  BY <1>1, <1>2, <1>3, Steps, SameLog, TypeFacts, ExecuteLog, ExecuteThrowsLog, Zenon

\* The cursor only moves in a sweep, which does not shorten the log.
LEMMA CursorStep ==
  ASSUME TypeOK, [Next]_vars
  PROVE  cursor' \in 1..(Len(log') + 1)
<1>1. cursor \in 1..(Len(log) + 1) /\ Len(log) \in Nat
  BY DEF TypeOK
<1>2. Len(log') \in Nat /\ Len(log) <= Len(log')
  BY LogStep DEF LogGrows
<1>3. CASE UNCHANGED cursor
  BY <1>1, <1>2, <1>3
<1>4. CASE (Sweep \/ SweepThrows) /\ cursor' = NextCursor
  <2>1. NextCursor \in 1..(Len(log) + 1)
    BY <1>1, StorageWorkerAssumption DEF NextCursor, SweepEnd
  <2> QED
    BY <1>1, <1>2, <1>4, <2>1
<1>5. UNCHANGED cursor \/ ((Sweep \/ SweepThrows) /\ cursor' = NextCursor)
  BY ZenonT(30) DEF Next, Worker, Caller, Stopping, Start, CallAppend, CallScan, CallRemove,
         CallRemoveAsync, Call, StopRequest, StopEnqueue, StopJoin, RunBegin, Dequeue,
         WaitTimesOut, Execute, ExecuteThrows, Finish, Sweep, SweepThrows, ObserveStop,
         Expire, vars
<1> QED
  BY <1>3, <1>4, <1>5, Zenon

\* Type correctness of the streams.
LEMMA StreamsType ==
  ASSUME TypeOK, [Next]_vars
  PROVE  streams' \in [Threads -> Seq(Operations)]
<1>1. streams \in [Threads -> Seq(Operations)]
  BY Zenon DEF TypeOK
<1>2. ASSUME NEW t \in Threads, NEW o \in Operations, Enqueues(t, o)
      PROVE  streams' \in [Threads -> Seq(Operations)]
  <2>1. Append(streams[t], o) \in Seq(Operations)
    BY <1>1
  <2> QED
    BY <1>1, <1>2, <2>1, Zenon DEF Enqueues
<1>3. ASSUME NEW t \in Threads, Dequeue(t)
      PROVE  streams' \in [Threads -> Seq(Operations)]
  <2>1. Tail(streams[t]) \in Seq(Operations)
    BY <1>1, <1>3 DEF Dequeue
  <2> QED
    BY <1>1, <1>3, <2>1, Zenon DEF Dequeue
<1>4. Execute \/ ExecuteThrows \/ Settles \/ Resting => UNCHANGED streams
  BY Zenon DEF Execute, ExecuteThrows, Settles, Resting
<1> QED
  BY <1>1, <1>2, <1>3, <1>4, Steps, Zenon

\* The worker holds an operation exactly while it executes one.
HandType == /\ wpc \in {"none", "starting", "wait", "exec", "finish", "sweep", "exited"}
            /\ op \in Operations \cup {NoOp}
            /\ wpc \in {"exec", "finish"} <=> op # NoOp

\* Type correctness of the worker.
LEMMA HandTypeStep ==
  ASSUME TypeOK, [Next]_vars
  PROVE  HandType'
<1>1. HandType
  BY Zenon DEF TypeOK, HandType
<1>2. CASE UNCHANGED <<wpc, op>>
  BY <1>1, <1>2, Zenon DEF HandType
<1>3. ASSUME NEW t \in Threads, Dequeue(t) PROVE HandType'
  <2>1. Head(streams[t]) \in Operations
    BY <1>3, TypeFacts DEF Dequeue
  <2> QED
    BY <1>3, <2>1, StorageWorkerAssumption, Zenon DEF Dequeue, HandType
<1>4. CASE Start \/ RunBegin \/ WaitTimesOut \/ Sweep \/ SweepThrows
  BY <1>1, <1>4, Zenon DEF HandType, Start, RunBegin, WaitTimesOut, Sweep, SweepThrows
<1>5. CASE Execute \/ ExecuteThrows
  BY <1>1, <1>5, Zenon DEF HandType, Execute, ExecuteThrows
<1>6. CASE Finish \/ ObserveStop
  BY <1>1, <1>6, Zenon DEF HandType, Finish, ObserveStop
<1>7. ASSUME NEW t \in Threads, Caller(t) \/ Stopping(t) PROVE UNCHANGED <<wpc, op>>
  BY <1>7, Zenon DEF Caller, Stopping, CallAppend, CallScan, CallRemove, CallRemoveAsync, Call,
              StopRequest, StopEnqueue, StopJoin
<1>8. Expire \/ UNCHANGED vars => UNCHANGED <<wpc, op>>
  BY Zenon DEF Expire, vars
<1> QED
  BY <1>2, <1>3, <1>4, <1>5, <1>6, <1>7, <1>8, Zenon DEF Next, Worker

Points == {"idle", "waiting", "stopping", "stopWait", "join"}

\* Type correctness of the threads.
LEMMA PcType ==
  ASSUME TypeOK, [Next]_vars
  PROVE  pc' \in [Threads -> Points]
<1>1. pc \in [Threads -> Points]
  BY Zenon DEF TypeOK, Points
<1>2. ASSUME NEW t \in Threads, Caller(t) \/ Stopping(t)
      PROVE  UNCHANGED pc \/ \E p \in Points : pc' = [pc EXCEPT ![t] = p]
  BY <1>2, Zenon DEF Caller, Stopping, CallAppend, CallScan, CallRemove, CallRemoveAsync, Call,
              StopRequest, StopEnqueue, StopJoin, Points
<1>3. CASE Finish \/ ObserveStop
  BY <1>1, <1>3, Zenon DEF Finish, ObserveStop, Points
<1>4. ASSUME NEW t \in Threads, Dequeue(t) PROVE UNCHANGED pc
  BY <1>4, Zenon DEF Dequeue
<1>5. \/ Start \/ Expire \/ RunBegin \/ WaitTimesOut \/ Execute \/ ExecuteThrows \/ Sweep
      \/ SweepThrows \/ UNCHANGED vars
      => UNCHANGED pc
  BY Zenon DEF Start, Expire, RunBegin, WaitTimesOut, Execute, ExecuteThrows, Sweep, SweepThrows, vars
<1> QED
  BY <1>1, <1>2, <1>3, <1>4, <1>5, Zenon DEF Next, Worker

\* Type correctness of the flags.
LEMMA FlagsType ==
  ASSUME TypeOK, [Next]_vars
  PROVE  isRunning' \in BOOLEAN /\ started' \in BOOLEAN /\ stopRequested' \in BOOLEAN
<1>1. isRunning \in BOOLEAN /\ started \in BOOLEAN /\ stopRequested \in BOOLEAN
  BY Zenon DEF TypeOK
<1>2. isRunning' \in {TRUE, FALSE, isRunning}
  BY ZenonT(30) DEF Next, Worker, Caller, Stopping, Start, CallAppend, CallScan, CallRemove,
         CallRemoveAsync, Call, StopRequest, StopEnqueue, StopJoin, RunBegin, Dequeue,
         WaitTimesOut, Execute, ExecuteThrows, Finish, Sweep, SweepThrows, ObserveStop,
         Expire, vars, flags
<1>3. started' \in {TRUE, started} /\ stopRequested' \in {TRUE, stopRequested}
  BY ZenonT(30) DEF Next, Worker, Caller, Stopping, Start, CallAppend, CallScan, CallRemove,
         CallRemoveAsync, Call, StopRequest, StopEnqueue, StopJoin, RunBegin, Dequeue,
         WaitTimesOut, Execute, ExecuteThrows, Finish, Sweep, SweepThrows, ObserveStop,
         Expire, vars, flags
<1> QED
  BY <1>1, <1>2, <1>3, Zenon

CountsType ==
    /\ calls \in [Threads -> 0..MaxCalls]
    /\ failures \in 0..MaxFailures
    /\ expired \in SUBSET Expiring

\* Type correctness of the counters and of the clock.
LEMMA CountsStep ==
  ASSUME TypeOK, [Next]_vars
  PROVE  CountsType'
<1>1. CountsType /\ MaxCalls \in Nat /\ MaxFailures \in Nat
  BY StorageWorkerAssumption, Zenon DEF TypeOK, CountsType
<1>2. CASE UNCHANGED <<calls, failures, expired>>
  BY <1>1, <1>2, Zenon DEF CountsType
<1>3. ASSUME NEW t \in Threads, NEW k, NEW q, Call(t, k, q) PROVE CountsType'
  BY <1>1, <1>3 DEF CountsType, Call
<1>4. CASE ExecuteThrows \/ SweepThrows
  BY <1>1, <1>4 DEF CountsType, ExecuteThrows, SweepThrows
<1>5. CASE Expire
  BY <1>1, <1>5, Zenon DEF CountsType, Expire, bounds
<1>6. ASSUME NEW t \in Threads, Caller(t)
      PROVE  (\E k, q : Call(t, k, q)) \/ UNCHANGED <<calls, failures, expired>>
  BY <1>6, Zenon DEF Caller, CallAppend, CallScan, CallRemove, CallRemoveAsync, StopRequest, bounds
<1>7. ASSUME NEW t \in Threads, Stopping(t) \/ Dequeue(t)
      PROVE  UNCHANGED <<calls, failures, expired>>
  BY <1>7, Zenon DEF Stopping, StopEnqueue, StopJoin, Dequeue, bounds
<1>8. \/ Start \/ RunBegin \/ WaitTimesOut \/ Execute \/ Finish \/ Sweep \/ ObserveStop
      \/ UNCHANGED vars
      => UNCHANGED <<calls, failures, expired>>
  BY Zenon DEF Start, RunBegin, WaitTimesOut, Execute, Finish, Sweep, ObserveStop, bounds, vars
<1> QED
  BY <1>2, <1>3, <1>4, <1>5, <1>6, <1>7, <1>8, Zenon DEF Next, Worker

HistoryType ==
    /\ sent \in SUBSET Uuids /\ failed \in SUBSET Uuids
    /\ asked \in [Threads -> SUBSET Uuids]

\* Type correctness of the history variables.
LEMMA HistoryStep ==
  ASSUME TypeOK, [Next]_vars
  PROVE  HistoryType'
<1>1. HistoryType
  BY Zenon DEF TypeOK, HistoryType
<1>2. CASE UNCHANGED <<sent, asked, failed>>
  BY <1>1, <1>2, Zenon DEF HistoryType
<1>3. \A o \in Operations : ToSet(o.items) \subseteq Uuids
  BY DEF Operations, ToSet
<1>4. ASSUME NEW t \in Threads, NEW o \in Operations, Enqueues(t, o) PROVE HistoryType'
  <2>1. sent' \in SUBSET Uuids /\ failed' \in SUBSET Uuids
    BY <1>1, <1>3, <1>4, Zenon DEF Enqueues, HistoryType
  <2>2. asked' \in [Threads -> SUBSET Uuids]
    BY <1>1, <1>4 DEF Enqueues, HistoryType
  <2> QED
    BY <2>1, <2>2, Zenon DEF HistoryType
<1>5. CASE ExecuteThrows
  <2>1. op \in Operations
    BY <1>5, TypeFacts, Zenon DEF ExecuteThrows
  <2> QED
    BY <1>1, <1>3, <1>5, <2>1, Zenon DEF HistoryType, ExecuteThrows
<1>6. Execute \/ Settles \/ Resting => UNCHANGED <<sent, asked, failed>>
  BY Zenon DEF Execute, Settles, Resting, history
<1>7. ASSUME NEW t \in Threads, Dequeue(t) PROVE UNCHANGED <<sent, asked, failed>>
  BY <1>7, Zenon DEF Dequeue, history
<1> QED
  BY <1>2, <1>4, <1>5, <1>6, <1>7, Steps, Zenon

\* Type correctness.
LEMMA TypeStep == ASSUME TypeOK, [Next]_vars PROVE TypeOK'
<1>1. (log \in Seq([uuid : Uuids, deleted : BOOLEAN]))'
  BY LogStep, Zenon DEF LogGrows, Records
<1> QED
  BY <1>1, CursorStep, StreamsType, HandTypeStep, PcType, FlagsType, CountsStep, HistoryStep, Zenon
  DEF TypeOK, HandType, CountsType, HistoryType, Points

-----------------------------------------------------------------------------
(* No operation outlives its call.                                         *)

\* In a thread that waits for nothing, every operation is asynchronous.
LEMMA OnlyAsynchronous ==
  ASSUME NEW o \in Operations, Alive(o), pc[o.thread] \notin {"waiting", "stopWait"}
  PROVE  Asynchronous(o)
  BY Zenon DEF Operations, Kinds, Alive, Asynchronous

\* An operation whose thread does not move stays alive.
LEMMA StaysAlive ==
  ASSUME NEW o \in Operations, Alive(o), Asynchronous(o) \/ pc'[o.thread] = pc[o.thread]
  PROVE  Alive(o)'
  BY Zenon DEF Alive, Asynchronous

\* Enqueueing adds one operation to one stream.
LEMMA EnqueueSet ==
  ASSUME TypeOK, NEW t \in Threads, NEW o \in Operations, Enqueues(t, o)
  PROVE  /\ ToSet(streams'[t]) = ToSet(streams[t]) \cup {o}
         /\ \A x \in Threads : x # t => streams'[x] = streams[x]
<1>1. /\ streams[t] \in Seq(Operations) /\ streams'[t] = Append(streams[t], o)
      /\ \A x \in Threads : x # t => streams'[x] = streams[x]
  BY TypeFacts, Zenon DEF Enqueues
<1> QED
  BY <1>1, AppendSet

\* A call enqueues behind asynchronous operations only.
LEMMA EnqueueAlive ==
  ASSUME TypeOK, StreamsOK, InHandOK, NEW t \in Threads, NEW o \in Operations, Enqueues(t, o)
  PROVE  StreamsOK' /\ InHandOK'
<1>1. /\ streams[t] \in Seq(Operations) /\ ToSet(streams[t]) \subseteq Operations
      /\ \A x \in Threads : x # t => streams'[x] = streams[x] /\ pc'[x] = pc[x]
      /\ streams'[t] = Append(streams[t], o)
      /\ pc[t] \notin {"waiting", "stopWait"} /\ o.thread = t /\ Alive(o)'
  BY TypeFacts, Zenon DEF Enqueues
<1>2. \A x \in Threads : ToSet(streams[x]) \subseteq Operations
  BY TypeFacts, Zenon
<1>3. \A e \in ToSet(streams[t]) : Asynchronous(e) /\ e.thread = t /\ Alive(e)
  BY <1>1, OnlyAsynchronous, Zenon DEF StreamsOK, Owned
<1>4. \A x \in Threads : x # t => Owned(x)' /\ LastWaits(x)'
  <2> SUFFICES ASSUME NEW x \in Threads, x # t PROVE Owned(x)' /\ LastWaits(x)'
    BY Zenon
  <2>1. streams'[x] = streams[x] /\ pc'[x] = pc[x] /\ Owned(x) /\ LastWaits(x)
    BY <1>1, Zenon DEF StreamsOK
  <2>2. Owned(x)'
    BY <1>2, <2>1, StaysAlive, Zenon DEF Owned
  <2> QED
    BY <2>1, <2>2, Zenon DEF LastWaits
<1>5. Owned(t)'
  <2>1. ToSet(streams'[t]) = ToSet(streams[t]) \cup {o}
    BY <1>1, AppendSet
  <2> QED
    BY <1>1, <1>3, <2>1, StaysAlive, Zenon DEF Owned
<1>6. LastWaits(t)'
  <2>1. /\ Len(streams'[t]) = Len(streams[t]) + 1 /\ Len(streams[t]) \in Nat
        /\ \A i \in 1..Len(streams[t]) : streams'[t][i] = streams[t][i]
    BY <1>1, AppendSet
  <2>2. \A i \in 1..Len(streams[t]) : streams[t][i] \in ToSet(streams[t])
    <3>1. DOMAIN streams[t] = 1..Len(streams[t])
      BY <1>1
    <3> QED
      BY <3>1, Zenon DEF ToSet
  <2> QED
    BY <1>3, <2>1, <2>2 DEF LastWaits
<1>7. InHandOK'
  <2>1. SUFFICES ASSUME op # NoOp PROVE Alive(op)' /\ (Asynchronous(op) \/ streams'[op.thread] = <<>>)
    BY Zenon DEF InHandOK, Enqueues
  <2>2. op \in Operations /\ op.thread \in Threads
    BY <2>1, Zenon DEF TypeOK, Operations
  <2>3. Alive(op) /\ (Asynchronous(op) \/ streams[op.thread] = <<>>)
    BY <2>1, Zenon DEF InHandOK
  <2>4. op' = op
    BY Zenon DEF Enqueues
  <2>5. CASE op.thread = t
    <3>1. Asynchronous(op)
      BY <1>1, <2>2, <2>3, <2>5, OnlyAsynchronous, Zenon
    <3> QED
      BY <2>4, <3>1, Zenon DEF Alive, Asynchronous
  <2>6. CASE op.thread # t
    <3>1. pc'[op.thread] = pc[op.thread] /\ streams'[op.thread] = streams[op.thread]
      BY <1>1, <2>2, <2>6, Zenon
    <3> QED
      BY <2>3, <2>4, <3>1, Zenon DEF Alive
  <2> QED
    BY <2>5, <2>6, Zenon
<1> QED
  BY <1>4, <1>5, <1>6, <1>7, Zenon DEF StreamsOK

\* Dequeue takes the first operation of a stream; behind a synchronous one there is
\* none.
LEMMA DequeueAlive ==
  ASSUME TypeOK, StreamsOK, NEW t \in Threads, Dequeue(t)
  PROVE  /\ StreamsOK' /\ InHandOK'
         /\ op' \in ToSet(streams[t]) /\ op' \in Operations /\ op'.thread = t
         /\ ToSet(streams[t]) = {op'} \cup ToSet(streams'[t])
         /\ \A x \in Threads : x # t => streams'[x] = streams[x]
         /\ Asynchronous(op') \/ streams'[t] = <<>>
<1>1. /\ streams[t] \in Seq(Operations) /\ streams[t] # <<>>
      /\ \A x \in Threads : x # t => streams'[x] = streams[x]
      /\ streams'[t] = Tail(streams[t]) /\ op' = Head(streams[t]) /\ UNCHANGED pc
  BY TypeFacts, Zenon DEF Dequeue
<1>2. /\ streams'[t] \in Seq(Operations) /\ Len(streams'[t]) = Len(streams[t]) - 1
      /\ Len(streams[t]) \in Nat \ {0}
      /\ \A i \in 1..Len(streams'[t]) : streams'[t][i] = streams[t][i + 1]
      /\ op' = streams[t][1] /\ op' \in Operations /\ op' \in ToSet(streams[t])
      /\ ToSet(streams[t]) = {op'} \cup ToSet(streams'[t])
  BY <1>1, TailSet
<1>3. \A x \in Threads : Owned(x) /\ LastWaits(x)
  BY Zenon DEF StreamsOK
<1>4. \A x \in Threads : Owned(x)'
  <2> SUFFICES ASSUME NEW x \in Threads PROVE Owned(x)'
    BY Zenon
  <2>1. ToSet(streams'[x]) \subseteq ToSet(streams[x])
    BY <1>1, <1>2, Zenon
  <2> QED
    BY <1>1, <1>3, <2>1, Zenon DEF Owned, Alive
<1>5. \A x \in Threads : LastWaits(x)'
  <2> SUFFICES ASSUME NEW x \in Threads PROVE LastWaits(x)'
    BY Zenon
  <2>1. CASE x # t
    BY <1>1, <1>3, <2>1, Zenon DEF LastWaits
  <2>2. CASE x = t
    <3> SUFFICES ASSUME NEW i \in 1..Len(streams'[t])
                 PROVE  Asynchronous(streams'[t][i]) \/ i = Len(streams'[t])
      BY <2>2, Zenon DEF LastWaits
    <3>1. i + 1 \in 1..Len(streams[t])
      BY <1>2
    <3>2. Asynchronous(streams[t][i + 1]) \/ i + 1 = Len(streams[t])
      BY <1>3, <3>1, Zenon DEF LastWaits
    <3>3. streams'[t][i] = streams[t][i + 1]
      BY <1>2, Zenon
    <3>4. i + 1 = Len(streams[t]) => i = Len(streams'[t])
      BY <1>2
    <3> QED
      BY <3>2, <3>3, <3>4, Zenon
  <2> QED
    BY <2>1, <2>2, Zenon
<1>6. op'.thread = t /\ Alive(op)'
  BY <1>1, <1>2, <1>3, Zenon DEF Owned, Alive
<1>7. Asynchronous(op') \/ streams'[t] = <<>>
  <2>1. 1 \in 1..Len(streams[t])
    BY <1>2
  <2>2. Asynchronous(op') \/ 1 = Len(streams[t])
    BY <1>2, <1>3, <2>1, Zenon DEF LastWaits
  <2> QED
    BY <1>2, <2>2
<1>8. InHandOK'
  BY <1>6, <1>7, Zenon DEF InHandOK
<1> QED
  BY <1>1, <1>2, <1>4, <1>5, <1>6, <1>7, <1>8, Zenon DEF StreamsOK

\* A step that leaves the streams alone and moves only threads whose streams are
\* empty, or that wait for nothing.
LEMMA StreamsStay ==
  ASSUME TypeOK, StreamsOK, UNCHANGED streams,
         \A x \in Threads : \/ pc'[x] = pc[x] \/ streams[x] = <<>>
                            \/ pc[x] \notin {"waiting", "stopWait"}
  PROVE  StreamsOK'
<1> SUFFICES ASSUME NEW x \in Threads PROVE Owned(x)' /\ LastWaits(x)'
  BY Zenon DEF StreamsOK
<1>1. Owned(x) /\ LastWaits(x) /\ ToSet(streams[x]) \subseteq Operations /\ streams'[x] = streams[x]
  BY TypeFacts, Zenon DEF StreamsOK
<1>2. Owned(x)'
  <2>1. CASE streams[x] = <<>>
    BY <1>1, <2>1, EmptySet, Zenon DEF Owned
  <2>2. CASE pc'[x] = pc[x] \/ pc[x] \notin {"waiting", "stopWait"}
    BY <1>1, <2>2, OnlyAsynchronous, StaysAlive, Zenon DEF Owned
  <2> QED
    BY <2>1, <2>2, Zenon
<1>3. LastWaits(x)'
  BY <1>1, Zenon DEF LastWaits
<1> QED
  BY <1>2, <1>3, Zenon

\* Every step keeps the operations alive: the event of an operation is set when no
\* stream holds an operation of its thread.
LEMMA AliveStep ==
  ASSUME TypeOK, StreamsOK, InHandOK, [Next]_vars
  PROVE  StreamsOK' /\ InHandOK'
<1>1. CASE Execute \/ ExecuteThrows
  <2>1. UNCHANGED <<streams, pc, op>>
    BY <1>1, Zenon DEF Execute, ExecuteThrows
  <2> QED
    BY <2>1, StreamsStay, Zenon DEF InHandOK, Alive
<1>2. CASE Settles
  <2>1. op \in Operations /\ op # NoOp
    BY <1>2, TypeFacts, StorageWorkerAssumption, Zenon DEF Settles
  <2>2. Asynchronous(op) \/ streams[op.thread] = <<>>
    BY <2>1, Zenon DEF InHandOK
  <2>3. StreamsOK'
    BY <1>2, <2>2, StreamsStay, Zenon DEF Settles
  <2> QED
    BY <1>2, <2>3, Zenon DEF Settles, InHandOK
<1>3. CASE Resting
  <2>1. StreamsOK'
    BY <1>3, StreamsStay, Zenon DEF Resting
  <2>2. ASSUME op # NoOp PROVE Alive(op)'
    <3>1. op \in Operations /\ op.thread \in Threads /\ Alive(op)
      BY <2>2, Zenon DEF TypeOK, Operations, InHandOK
    <3> QED
      BY <1>3, <3>1, OnlyAsynchronous, StaysAlive, Zenon DEF Resting
  <2> QED
    BY <1>3, <2>1, <2>2, Zenon DEF Resting, InHandOK
<1> QED
  BY <1>1, <1>2, <1>3, Steps, EnqueueAlive, DequeueAlive, Zenon

-----------------------------------------------------------------------------
(* A uuid is appended once.                                                *)

\* Every step keeps a uuid with one append.
LEMMA FreshStep ==
  ASSUME TypeOK, StreamsOK, FreshOK, [Next]_vars
  PROVE  FreshOK'
<1>1. LogGrows
  BY LogStep, Zenon
<1>2. ASSUME NEW t \in Threads, NEW o \in Operations, Enqueues(t, o) PROVE FreshOK'
  <2>1. /\ ToSet(streams'[t]) = ToSet(streams[t]) \cup {o}
        /\ \A x \in Threads : x # t => streams'[x] = streams[x]
    BY <1>2, EnqueueSet, Zenon
  <2>2. /\ \A u \in Uuids : (AddsNow(u)' <=> AddsNow(u)) /\ (InLog(u)' <=> InLog(u))
        /\ sent \subseteq sent' /\ \A u : Adds(o, u) => u \in sent' /\ u \notin sent
    BY <1>2, Zenon DEF Enqueues, AddsNow, InLog, Adds
  <2>3. \A u \in Uuids, x \in Threads : AddsLater(x, u)' <=> AddsLater(x, u) \/ (x = t /\ Adds(o, u))
    BY <2>1, Zenon DEF AddsLater
  <2> QED
    BY <2>2, <2>3, Zenon DEF FreshOK
<1>3. ASSUME NEW t \in Threads, Dequeue(t) PROVE FreshOK'
  <2>1. wpc # "exec" /\ UNCHANGED <<log, sent>>
    BY <1>3, Zenon DEF Dequeue, history
  <2>2. /\ \A x \in Threads : x # t => streams'[x] = streams[x]
        /\ ToSet(streams[t]) = {op'} \cup ToSet(streams'[t])
        /\ Asynchronous(op') \/ streams'[t] = <<>>
    BY <1>3, DequeueAlive, Zenon
  <2>3. \A u \in Uuids, x \in Threads : AddsLater(x, u)' => AddsLater(x, u)
    BY <2>2, Zenon DEF AddsLater
  <2>4. \A u \in Uuids : AddsNow(u)' => AddsLater(t, u) /\ ~AddsLater(t, u)'
    BY <2>2, EmptySet, Zenon DEF AddsNow, AddsLater, Adds, Asynchronous
  <2>5. \A u \in Uuids : InLog(u)' <=> InLog(u)
    BY <2>1, Zenon DEF InLog
  <2> QED
    BY <2>1, <2>3, <2>4, <2>5, Zenon DEF FreshOK
<1>4. ASSUME UNCHANGED <<streams, sent>>, \A u \in Uuids : ~AddsNow(u)' PROVE FreshOK'
  <2>1. \A u \in Uuids, x \in Threads : AddsLater(x, u)' <=> AddsLater(x, u)
    BY <1>4, Zenon DEF AddsLater
  <2> QED
    BY <1>1, <1>4, <2>1, Zenon DEF FreshOK, LogGrows
<1>5. CASE Execute \/ ExecuteThrows \/ Settles
  <2>1. UNCHANGED <<streams, sent>> /\ wpc' # "exec"
    BY <1>5, Zenon DEF Execute, ExecuteThrows, Settles, history
  <2> QED
    BY <1>4, <2>1, Zenon DEF AddsNow
<1>6. CASE Resting
  <2>1. UNCHANGED <<streams, sent>> /\ (wpc' # "exec" \/ UNCHANGED <<log, wpc, op>>)
    BY <1>6, Zenon DEF Resting, history
  <2>2. CASE wpc' # "exec"
    BY <1>4, <2>1, <2>2, Zenon DEF AddsNow
  <2>3. CASE UNCHANGED <<log, wpc, op>>
    BY <2>1, <2>3, Zenon DEF FreshOK, AddsNow, AddsLater, InLog
  <2> QED
    BY <2>1, <2>2, <2>3, Zenon
<1> QED
  BY <1>2, <1>3, <1>5, <1>6, Steps, Zenon

-----------------------------------------------------------------------------
(* A thread sees its own removes.                                          *)

\* The remove of u that t asked for: done, failed, in hand, or in the stream.
Removing(t, u) ==
    \/ u \in failed \/ ~Live(u)
    \/ wpc = "exec" /\ op.thread = t /\ Drops(op, u)
    \/ \E o \in ToSet(streams[t]) : Drops(o, u)

\* A remove that was asked for is not lost, and its record does not come back.
LEMMA RemovingStep ==
  ASSUME TypeOK, StreamsOK, FreshOK, [Next]_vars,
         NEW t \in Threads, NEW u \in Uuids, InLog(u), Removing(t, u)
  PROVE  Removing(t, u)'
<1>1. Live(u)' => Live(u)
  BY LogStep, Zenon DEF LogGrows, FreshOK
<1>2. ASSUME NEW x \in Threads, NEW o \in Operations, Enqueues(x, o) PROVE Removing(t, u)'
  <2>1. ToSet(streams[t]) \subseteq ToSet(streams'[t])
    BY <1>2, EnqueueSet, Zenon
  <2>2. UNCHANGED <<wpc, op, failed>>
    BY <1>2, Zenon DEF Enqueues
  <2> QED
    BY <1>1, <2>1, <2>2, Zenon DEF Removing
<1>3. ASSUME NEW x \in Threads, Dequeue(x) PROVE Removing(t, u)'
  <2>1. /\ x # t => streams'[t] = streams[t]
        /\ ToSet(streams[x]) = {op'} \cup ToSet(streams'[x]) /\ op'.thread = x
    BY <1>3, DequeueAlive, Zenon
  <2>2. wpc # "exec" /\ wpc' = "exec" /\ UNCHANGED failed
    BY <1>3, Zenon DEF Dequeue, history
  <2> QED
    BY <1>1, <2>1, <2>2, Zenon DEF Removing
<1>4. CASE Execute
  <2>1. Drops(op, u) => ~Live(u)'
    BY <1>4, ExecuteLog, Zenon
  <2>2. UNCHANGED <<streams, failed>>
    BY <1>4, Zenon DEF Execute, history
  <2> QED
    BY <1>1, <2>1, <2>2, Zenon DEF Removing
<1>5. CASE ExecuteThrows
  <2>1. /\ Drops(op, u) => u \in failed'
        /\ UNCHANGED streams /\ failed \subseteq failed'
    BY <1>5, Zenon DEF ExecuteThrows, Drops
  <2> QED
    BY <1>1, <2>1, Zenon DEF Removing
<1>6. CASE Settles
  <2>1. UNCHANGED <<streams, failed>> /\ (wpc = "exec" => ~Drops(op, u))
    BY <1>6, Zenon DEF Settles, history, Drops
  <2> QED
    BY <1>1, <2>1, Zenon DEF Removing
<1>7. CASE Resting
  <2>1. UNCHANGED <<streams, op, failed>> /\ (wpc # "exec" \/ UNCHANGED wpc)
    BY <1>7, Zenon DEF Resting, history
  <2> QED
    BY <1>1, <2>1, Zenon DEF Removing
<1> QED
  BY <1>2, <1>3, <1>4, <1>5, <1>6, <1>7, Steps, Zenon

\* Every step keeps what the threads asked for.
LEMMA AskedStep ==
  ASSUME TypeOK, StreamsOK, FreshOK, AskedOK, [Next]_vars
  PROVE  AskedOK'
<1> SUFFICES ASSUME NEW t \in Threads, NEW u \in asked'[t] PROVE InLog(u)' /\ Removing(t, u)'
  BY Zenon DEF AskedOK, Removing
<1>1. u \in Uuids
  BY HistoryStep, Zenon DEF HistoryType
<1>2. CASE u \in asked[t]
  <2>1. InLog(u) /\ Removing(t, u)
    BY <1>2, Zenon DEF AskedOK, Removing
  <2> QED
    BY <1>1, <2>1, LogStep, RemovingStep, Zenon DEF LogGrows
<1>3. CASE u \notin asked[t]
  <2>1. ASSUME NEW x \in Threads, Dequeue(x) PROVE UNCHANGED asked
    BY <2>1, Zenon DEF Dequeue, history
  <2>2. Execute \/ ExecuteThrows \/ Settles \/ Resting => UNCHANGED asked
    BY Zenon DEF Execute, ExecuteThrows, Settles, Resting, history
  <2>3. PICK x \in Threads, o \in Operations : Enqueues(x, o)
    BY <1>3, <2>1, <2>2, Steps, Zenon
  <2>4. PICK v \in Uuids : /\ InLog(v) /\ Drops(o, v) /\ UNCHANGED log
                           /\ asked' = [asked EXCEPT ![x] = @ \cup {v}]
    BY <1>3, <2>3, Zenon DEF Enqueues
  <2>5. x = t /\ u = v
    <3>1. DOMAIN asked = Threads
      BY TypeFacts, Zenon
    <3>2. asked'[t] = IF t = x THEN asked[t] \cup {v} ELSE asked[t]
      BY <2>4, <3>1, Zenon
    <3> QED
      BY <1>3, <3>2, Zenon
  <2>6. o \in ToSet(streams'[t])
    BY <2>3, <2>5, EnqueueSet, Zenon
  <2> QED
    BY <2>4, <2>5, <2>6, Zenon DEF Removing, InLog
<1> QED
  BY <1>2, <1>3, Zenon

-----------------------------------------------------------------------------
\* The invariant holds initially.
LEMMA InitStorageInv == Init => StorageInv
<1> SUFFICES ASSUME Init PROVE StorageInv
  BY Zenon
<1>1. log = <<>> /\ streams = [t \in Threads |-> <<>>] /\ asked = [t \in Threads |-> {}]
      /\ op = NoOp /\ wpc = "none"
  BY Zenon DEF Init
<1>2. TypeOK
  <2>1. log \in Seq([uuid : Uuids, deleted : BOOLEAN]) /\ cursor \in 1..(Len(log) + 1)
    BY DEF Init
  <2>2. streams \in [Threads -> Seq(Operations)]
    BY <1>1
  <2>3. /\ pc \in [Threads -> Points] /\ HandType
        /\ expired \in SUBSET Expiring /\ sent \in SUBSET Uuids /\ failed \in SUBSET Uuids
        /\ calls \in [Threads -> 0..MaxCalls] /\ failures \in 0..MaxFailures
    BY StorageWorkerAssumption DEF Init, Points, HandType
  <2>4. /\ isRunning \in BOOLEAN /\ started \in BOOLEAN /\ stopRequested \in BOOLEAN
        /\ asked \in [Threads -> SUBSET Uuids]
    BY Zenon DEF Init
  <2> QED
    BY <2>1, <2>2, <2>3, <2>4, Zenon DEF TypeOK, HandType, Points
<1>3. \A t \in Threads : ToSet(streams[t]) = {} /\ Len(streams[t]) = 0
  BY <1>1, EmptySet, Zenon
<1>4. StreamsOK /\ InHandOK
  BY <1>1, <1>3 DEF StreamsOK, Owned, LastWaits, InHandOK
<1>5. FreshOK /\ AskedOK
  BY <1>1, <1>3 DEF FreshOK, AskedOK, InLog, AddsNow, AddsLater
<1> QED
  BY <1>2, <1>4, <1>5, Zenon DEF StorageInv

\* The inductive invariant.  It relates the queue of the worker to the threads
\* that wait for it and to what they asked for: an operation of a waiting thread is
\* the last of its stream, a message is appended by one operation, and a remove
\* that was asked for is in the stream of its thread until it has been executed.
THEOREM StorageInvariant == Spec => []StorageInv
<1>1. StorageInv /\ [Next]_vars => StorageInv'
  BY TypeStep, AliveStep, FreshStep, AskedStep, Zenon DEF StorageInv
<1> QED
  BY <1>1, InitStorageInv, PTL DEF Spec

\* No operation outlives its call: neither the queue nor the worker holds an
\* Operation whose thread has left waitOperation() or stop(), in whose stack frame
\* it lives.
THEOREM NoDanglingOperation == Spec => []OperationAlive
<1>1. StorageInv => OperationAlive
  <2> SUFFICES ASSUME StorageInv PROVE OperationAlive
    BY Zenon
  <2>1. op # NoOp => Alive(op)
    BY Zenon DEF StorageInv, InHandOK
  <2>2. ASSUME NEW t \in Threads, NEW i \in DOMAIN streams[t] PROVE Alive(streams[t][i])
    BY DEF StorageInv, StreamsOK, Owned, ToSet
  <2> QED
    BY <2>1, <2>2, Zenon DEF OperationAlive
<1> QED
  BY <1>1, StorageInvariant, PTL

\* A thread sees its own removes: the asynchronous removes of a thread are executed
\* before the worker turns to a later read or STOP of that thread.
THEOREM RemovesBeforeReads == Spec => []OwnRemovesFirst
<1>1. StorageInv => OwnRemovesFirst
  <2> SUFFICES ASSUME StorageInv, wpc = "exec", op.kind \in {"scan", "stop"},
                      NEW u \in asked[op.thread] \ failed
               PROVE  ~Live(u)
    BY Zenon DEF OwnRemovesFirst
  <2>1. op \in Operations /\ op # NoOp /\ op.thread \in Threads
    BY Zenon DEF StorageInv, TypeOK, Operations
  <2>2. streams[op.thread] = <<>>
    BY <2>1, Zenon DEF StorageInv, InHandOK, Asynchronous
  <2>3. \/ ~Live(u) \/ Drops(op, u) \/ \E o \in ToSet(streams[op.thread]) : Drops(o, u)
    BY <2>1, Zenon DEF StorageInv, AskedOK
  <2> QED
    BY <2>2, <2>3, EmptySet, Zenon DEF Drops
<1> QED
  BY <1>1, StorageInvariant, PTL
=============================================================================
