------------------------ MODULE DurableTopicProofs --------------------------
(***************************************************************************)
(* Proofs about DurableTopic, for any subscribers, messages and selectors: *)
(* what a subscription is owed is stored, and a subscriber gets one copy   *)
(* of what was published since it subscribed and nothing it acknowledged.  *)
(***************************************************************************)
EXTENDS DurableTopic, TLAPS

\* How often n has the copy c, and the records of m that no remove was asked for.
Total(n, c) == queue[n][c] + inFlight[n][c]
Stored(d, m) == storage[d][m] - removes[d][m]

\* What is staged was sent in the open transaction.
StagedOK == txSent \subseteq Transacted /\ \A m \in Messages : staged[m] > 0 => m \in txSent

\* The registry holds subscriptions of the application, all of them until a restart.
RegistryOK == registered \subseteq subscribed /\ (restarts = 0 => subscribed \subseteq registered)

\* Only what was sent is acknowledged.
AckedSent == \A n \in Names : acked[n] \subseteq sent

FrameOK == OnlineAgrees /\ StagedOK /\ RegistryOK /\ AckedSent

\* The copies c of n: none without a Consumer object, none of a message that was not
\* sent.  Of a message published outside a transaction there is one at most, and it
\* knows a record if there is one.  The record that a copy of an attached subscriber
\* knows is there.  Until a restart an attached subscriber has no copy of what it
\* acknowledged, and only copies of what was published since it subscribed.
CopyOK(n, c) ==
    /\ n \notin held => Total(n, c) = 0
    /\ c[1] \notin sent => Total(n, c) = 0
    /\ c[1] \notin Transacted =>
          /\ Total(n, c) <= 1
          /\ Total(n, c) > 0 => (c[2] <=> n \in Durable /\ c[1] \in Persistent)
    /\ n \in consumers /\ n \in Durable /\ c[2] => Total(n, c) <= Stored(n, c[1])
    /\ restarts = 0 /\ n \in consumers /\ Total(n, c) > 0 =>
          c[1] \in since[n] /\ (c[1] \in Transacted \/ c[1] \notin acked[n])

\* The records of m in the storage of d: none of a message that was not sent or is not
\* persistent; of one published outside a transaction one at most, and one while it is
\* owed.  Until a restart what was acknowledged is gone, and what is there was
\* published since the subscription.
RecordOK(d, m) ==
    /\ m \notin sent => storage[d][m] = 0
    /\ storage[d][m] > 0 => m \in Persistent
    /\ m \notin Transacted => storage[d][m] <= 1 /\ (m \in owed[d] => Stored(d, m) > 0)
    /\ restarts = 0 =>
          /\ m \notin Transacted /\ m \in acked[d] => Stored(d, m) = 0
          /\ storage[d][m] > 0 => m \in since[d]

DataOK ==
    /\ \A n \in Names, c \in Copies : CopyOK(n, c)
    /\ \A d \in Durable, m \in Messages : RecordOK(d, m)
TopicInv == TypeOK /\ FrameOK /\ DataOK

-----------------------------------------------------------------------------
(* Copies and numbers.                                                     *)

\* A copy is a message and whether it knows its record.
LEMMA CopyParts ==
  /\ \A c \in Copies : c[1] \in Messages
  /\ \A m \in Messages, b \in BOOLEAN : <<m, b>> \in Copies /\ <<m, b>>[1] = m /\ (<<m, b>>[2] <=> b)
  /\ \A c, k \in Copies : c[1] = k[1] /\ (c[2] <=> k[2]) => c = k
<1>1. ASSUME NEW m \in Messages, NEW b \in BOOLEAN
      PROVE  <<m, b>> \in Copies /\ <<m, b>>[1] = m /\ (<<m, b>>[2] <=> b)
  BY Zenon DEF Copies
<1>2. ASSUME NEW c \in Copies
      PROVE  c[1] \in Messages /\ c[2] \in BOOLEAN /\ c = <<c[1], c[2]>>
  BY DEF Copies
<1>3. ASSUME NEW c \in Copies, NEW k \in Copies, c[1] = k[1], c[2] <=> k[2]
      PROVE  c = k
  <2>1. c[2] = k[2]
    BY <1>2, <1>3, Zenon
  <2> QED
    BY <1>2, <1>3, <2>1, Zenon
<1> QED
  BY <1>1, <1>2, <1>3, Zenon

\* The types of what is in the memory, on the disk and elsewhere.
MemoryType == queue \in [Names -> [Copies -> Nat]] /\ inFlight \in [Names -> [Copies -> Nat]]
DiskType == /\ storage \in [Durable -> [Messages -> Nat]]
            /\ removes \in [Durable -> [Messages -> Nat]]
RemovesOK == \A d \in Durable, m \in Messages : removes[d][m] <= storage[d][m]
RestType ==
    /\ consumers \subseteq held /\ held \subseteq Names
    /\ active \subseteq registered /\ registered \subseteq Durable
    /\ selector \in [Names -> SUBSET Messages]
    /\ staged \in [Messages -> Nat] /\ restarts \in 0..MaxRestarts
    /\ txSent \subseteq sent /\ sent \subseteq Messages /\ subscribed \subseteq Durable
    /\ since \in [Names -> SUBSET Messages] /\ acked \in [Names -> SUBSET Messages]
    /\ owed \in [Durable -> SUBSET Messages] /\ missed \in [Durable -> SUBSET Messages]

NumbersOK ==
    /\ \A n \in Names, c \in Copies : Total(n, c) \in Nat
    /\ \A d \in Durable, m \in Messages :
         /\ storage[d][m] \in Nat /\ removes[d][m] \in Nat /\ Stored(d, m) \in Nat
         /\ Stored(d, m) <= storage[d][m]

\* The parts of the type invariant, and the numbers that it makes numbers.
LEMMA TypeParts == TypeOK <=> RestType /\ MemoryType /\ DiskType /\ RemovesOK
  BY Zenon DEF TypeOK, RestType, MemoryType, DiskType, RemovesOK

\* The counts of copies and records are natural numbers, the removes asked for among
\* the records.
LEMMA Numbers == TypeOK => NumbersOK
<1>1. ASSUME MemoryType, NEW n \in Names, NEW c \in Copies
      PROVE  Total(n, c) \in Nat
  BY <1>1 DEF MemoryType, Total
<1>2. ASSUME DiskType, RemovesOK, NEW d \in Durable, NEW m \in Messages
      PROVE  /\ storage[d][m] \in Nat /\ removes[d][m] \in Nat /\ Stored(d, m) \in Nat
             /\ Stored(d, m) <= storage[d][m]
  BY <1>2 DEF DiskType, RemovesOK, Stored
<1> QED
  BY <1>1, <1>2, TypeParts, Zenon DEF NumbersOK

\* The same of the next state.
LEMMA TypeNext ==
  ASSUME RestType', MemoryType', DiskType', RemovesOK'
  PROVE  TypeOK' /\ NumbersOK'
<1>1. (TypeOK <=> RestType /\ MemoryType /\ DiskType /\ RemovesOK)'
  BY TypeParts, PTL
<1>2. (TypeOK => NumbersOK)'
  BY Numbers, PTL
<1> QED
  BY <1>1, <1>2, Zenon

-----------------------------------------------------------------------------
(* Steps that add nothing.                                                 *)

\* There are no more copies c than before, and none if the Consumer object is gone.
CopyShrinks(n, c) ==
    /\ Total(n, c)' <= Total(n, c)
    /\ n \in consumers' => n \in consumers
    /\ n \notin held' => n \notin held \/ Total(n, c)' = 0
    /\ c[1] \in sent => c[1] \in sent'
    /\ restarts' = 0 => restarts = 0
    /\ c[1] \in since[n] => c[1] \in since'[n]
    /\ c[1] \in acked'[n] => c[1] \in acked[n]

\* There are no more records of m than before, and no fewer without a remove.
RecordShrinks(d, m) ==
    /\ storage'[d][m] <= storage[d][m]
    /\ Stored(d, m) <= Stored(d, m)' /\ (restarts' = 0 => restarts = 0 /\ Stored(d, m)' = Stored(d, m))
    /\ m \in sent => m \in sent'
    /\ m \in since[d] => m \in since'[d]
    /\ m \in owed'[d] => m \in owed[d]
    /\ m \in acked'[d] => m \in acked[d]

\* CopyOK survives when copies only disappear and what it says of them still applies.
LEMMA CopyStep ==
  ASSUME NumbersOK, NumbersOK', NEW n \in Names, NEW c \in Copies, CopyOK(n, c), CopyShrinks(n, c),
         n \in Durable => Stored(n, c[1]) <= Stored(n, c[1])'
  PROVE  CopyOK(n, c)'
<1>1. Total(n, c) \in Nat /\ Total(n, c)' \in Nat
  BY Zenon DEF NumbersOK
<1>2. n \in Durable => Stored(n, c[1]) \in Nat /\ Stored(n, c[1])' \in Nat
  BY CopyParts, Zenon DEF NumbersOK
<1> QED
  BY <1>1, <1>2 DEF CopyOK, CopyShrinks

\* RecordOK survives when records only disappear.
LEMMA RecordStep ==
  ASSUME NumbersOK, NumbersOK', NEW d \in Durable, NEW m \in Messages, RecordOK(d, m), RecordShrinks(d, m)
  PROVE  RecordOK(d, m)'
  BY DEF NumbersOK, RecordOK, RecordShrinks

\* A step that only takes copies and records away keeps the invariant.
LEMMA ShrinkKeeps ==
  ASSUME TopicInv, RestType', FrameOK', MemoryType', DiskType', RemovesOK',
         \A n \in Names, c \in Copies : CopyShrinks(n, c),
         \A d \in Durable, m \in Messages : RecordShrinks(d, m)
  PROVE  TopicInv'
<1>1. TypeOK' /\ NumbersOK /\ NumbersOK'
  BY TypeNext, Numbers, Zenon DEF TopicInv
<1>2. \A d \in Durable, m \in Messages : RecordOK(d, m)'
  BY <1>1, RecordStep, Zenon DEF TopicInv, DataOK
<1>3. \A n \in Names, c \in Copies : CopyOK(n, c)'
  BY <1>1, CopyStep, CopyParts, Zenon DEF TopicInv, DataOK, RecordShrinks
<1> QED
  BY <1>1, <1>2, <1>3, Zenon DEF TopicInv, DataOK

\* Steps that touch neither the copies nor the records.
LEMMA QuietStep ==
  ASSUME TopicInv, RestType', FrameOK', sent \subseteq sent',
         UNCHANGED <<queue, inFlight, storage, removes, consumers, held, since, owed, acked, restarts>>
  PROVE  TopicInv'
<1>1. MemoryType' /\ DiskType' /\ RemovesOK' /\ NumbersOK
  BY Numbers, TypeParts, Zenon DEF TopicInv, MemoryType, DiskType, RemovesOK
<1>2. \A n \in Names, c \in Copies : CopyShrinks(n, c)
  BY <1>1 DEF CopyShrinks, NumbersOK, Total
<1>3. \A d \in Durable, m \in Messages : RecordShrinks(d, m)
  BY <1>1 DEF RecordShrinks, NumbersOK, Stored
<1> QED
  BY <1>1, <1>2, <1>3, ShrinkKeeps, Zenon

\* A stuttering step keeps the invariant.
LEMMA StutterStep ==
  ASSUME TopicInv, UNCHANGED vars
  PROVE  TopicInv'
<1>1. RestType' /\ FrameOK'
  BY Zenon DEF TopicInv, TypeOK, RestType, FrameOK, OnlineAgrees, StagedOK, RegistryOK, AckedSent,
         vars, registry, memory, disk, history
<1> QED
  BY <1>1, QuietStep, Zenon DEF vars, registry, memory, disk, history

\* save() in a transaction only stages copies.
LEMMA SendTransactedStep ==
  ASSUME TopicInv, NEW p \in Messages, SendTransacted(p), Cardinality(Pushed(p)) \in Nat
  PROVE  TopicInv'
<1>1. /\ UNCHANGED <<consumers, held, registered, active, selector, queue, inFlight, storage, removes,
                     restarts, subscribed, since, owed, missed, acked>>
      /\ p \in Transacted /\ sent' = sent \cup {p} /\ txSent' = txSent \cup {p}
      /\ staged' = [staged EXCEPT ![p] = Cardinality(Pushed(p))]
  BY Zenon DEF SendTransacted, registry, memory, disk
<1>2. RestType' /\ \A m \in Messages \ {p} : staged'[m] = staged[m]
  BY <1>1, Zenon DEF TopicInv, TypeOK, RestType
<1>3. FrameOK'
  BY <1>1, <1>2, Zenon DEF TopicInv, FrameOK, OnlineAgrees, StagedOK, RegistryOK, AckedSent
<1> QED
  BY <1>1, <1>2, <1>3, QuietStep, Zenon

\* rollback() drops what was staged.
LEMMA RollbackStep ==
  ASSUME TopicInv, Rollback
  PROVE  TopicInv'
<1>1. /\ UNCHANGED <<consumers, held, registered, active, selector, queue, inFlight, storage, removes,
                     restarts, sent, subscribed, since, owed, missed, acked>>
      /\ staged' = [m \in Messages |-> 0] /\ txSent' = {}
  BY Zenon DEF Rollback, registry, memory, disk, history, Empty
<1>2. RestType' /\ FrameOK'
  BY <1>1 DEF TopicInv, TypeOK, RestType, FrameOK, OnlineAgrees, StagedOK, RegistryOK, AckedSent
<1> QED
  BY <1>1, <1>2, QuietStep, Zenon

\* A received copy moves from the queue to the list of those in flight.
LEMMA ReceiveStep ==
  ASSUME TopicInv, NEW n \in Names, NEW c \in Copies, Receive(n, c)
  PROVE  TopicInv'
<1>1. /\ UNCHANGED <<consumers, held, registered, active, selector, storage, removes, staged,
                     restarts, txSent, sent, subscribed, since, owed, missed, acked>>
      /\ queue[n][c] > 0 /\ queue' = [queue EXCEPT ![n][c] = @ - 1]
      /\ inFlight' = [inFlight EXCEPT ![n][c] = @ + 1]
  BY Zenon DEF Receive, registry, disk, history
<1>2. RestType' /\ FrameOK' /\ DiskType' /\ RemovesOK'
  BY <1>1, Zenon DEF TopicInv, TypeOK, RestType, FrameOK, OnlineAgrees, StagedOK, RegistryOK, AckedSent,
              DiskType, RemovesOK
<1>3. MemoryType /\ NumbersOK
  BY Numbers, TypeParts, Zenon DEF TopicInv
<1>4. MemoryType'
  BY <1>1, <1>3 DEF MemoryType
<1>5. ASSUME NEW x \in Names, NEW k \in Copies
      PROVE  Total(x, k)' = Total(x, k)
  BY <1>1, <1>3 DEF MemoryType, Total
<1>6. \A x \in Names, k \in Copies : CopyShrinks(x, k)
  BY <1>1, <1>3, <1>5 DEF CopyShrinks, NumbersOK
<1>7. \A d \in Durable, m \in Messages : RecordShrinks(d, m)
  BY <1>1, <1>3 DEF RecordShrinks, NumbersOK, Stored
<1> QED
  BY <1>2, <1>4, <1>6, <1>7, ShrinkKeeps, Zenon

\* The worker executes a remove: the record goes, and so does the request.
LEMMA ExecuteRemoveStep ==
  ASSUME TopicInv, NEW d \in Durable, NEW p \in Messages, ExecuteRemove(d, p)
  PROVE  TopicInv'
<1>1. /\ UNCHANGED <<consumers, held, registered, active, selector, queue, inFlight, staged,
                     restarts, txSent, sent, subscribed, since, owed, missed, acked>>
      /\ removes[d][p] > 0 /\ removes' = [removes EXCEPT ![d][p] = @ - 1]
      /\ storage' = [storage EXCEPT ![d][p] = @ - 1]
  BY Zenon DEF ExecuteRemove, registry, memory, history
<1>2. RestType' /\ FrameOK' /\ MemoryType'
  BY <1>1, Zenon DEF TopicInv, TypeOK, RestType, FrameOK, OnlineAgrees, StagedOK, RegistryOK, AckedSent,
              MemoryType
<1>3. DiskType /\ RemovesOK /\ NumbersOK
  BY Numbers, TypeParts, Zenon DEF TopicInv
<1>4. ASSUME NEW x \in Durable, NEW m \in Messages
      PROVE  /\ removes'[x][m] = removes[x][m] - (IF x = d /\ m = p THEN 1 ELSE 0)
             /\ storage'[x][m] = storage[x][m] - (IF x = d /\ m = p THEN 1 ELSE 0)
  BY <1>1, <1>3 DEF DiskType
<1>5. storage[d][p] - 1 \in Nat /\ removes[d][p] - 1 \in Nat
  BY <1>1, <1>3 DEF RemovesOK, NumbersOK
<1>6. DiskType' /\ RemovesOK'
  BY <1>1, <1>3, <1>4, <1>5 DEF DiskType, RemovesOK
<1>7. \A x \in Names, c \in Copies : CopyShrinks(x, c)
  BY <1>1, <1>3 DEF CopyShrinks, NumbersOK, Total
<1>8. \A x \in Durable, m \in Messages : RecordShrinks(x, m)
  BY <1>1, <1>3, <1>4 DEF RecordShrinks, NumbersOK, Stored
<1> QED
  BY <1>2, <1>6, <1>7, <1>8, ShrinkKeeps, Zenon

\* deleteConsumer() takes the copies of the subscriber with it; its records stay.
LEMMA CloseStep ==
  ASSUME TopicInv, NEW n \in Names, Close(n)
  PROVE  TopicInv'
<1>1. /\ UNCHANGED <<registered, selector, storage, removes, staged, restarts, txSent, sent,
                     subscribed, since, owed, missed, acked>>
      /\ held' = held \ {n} /\ consumers' = consumers \ {n} /\ active' = active \ {n}
      /\ queue' = [queue EXCEPT ![n] = [c \in Copies |-> 0]]
      /\ inFlight' = [inFlight EXCEPT ![n] = [c \in Copies |-> 0]]
  BY Zenon DEF Close, disk, history, None
<1>2. RestType' /\ FrameOK' /\ DiskType' /\ RemovesOK'
  BY <1>1, Zenon DEF TopicInv, TypeOK, RestType, FrameOK, OnlineAgrees, StagedOK, RegistryOK, AckedSent,
              DiskType, RemovesOK
<1>3. MemoryType /\ NumbersOK
  BY Numbers, TypeParts, Zenon DEF TopicInv
<1>4. /\ MemoryType'
      /\ \A x \in Names, c \in Copies : Total(x, c)' = IF x = n THEN 0 ELSE Total(x, c)
  BY <1>1, <1>3 DEF MemoryType, Total
<1>5. \A x \in Names, c \in Copies : CopyShrinks(x, c)
  BY <1>1, <1>3, <1>4 DEF CopyShrinks, NumbersOK
<1>6. \A d \in Durable, m \in Messages : RecordShrinks(d, m)
  BY <1>1, <1>3 DEF RecordShrinks, NumbersOK, Stored
<1> QED
  BY <1>2, <1>4, <1>5, <1>6, ShrinkKeeps, Zenon

\* After a restart nothing is in memory, and every subscription is away.
LEMMA RestartStep ==
  ASSUME TopicInv, Restart
  PROVE  TopicInv'
<1>1. /\ UNCHANGED <<selector, storage, sent, subscribed, since, owed, missed, acked>>
      /\ consumers' = {} /\ held' = {} /\ registered' = {} /\ active' = {} /\ txSent' = {}
      /\ staged' = [m \in Messages |-> 0] /\ removes' = [d \in Durable |-> [m \in Messages |-> 0]]
      /\ queue' = [n \in Names |-> [c \in Copies |-> 0]]
      /\ inFlight' = [n \in Names |-> [c \in Copies |-> 0]]
  BY Zenon DEF Restart, history, Empty, None
<1>2. restarts' \in 0..MaxRestarts /\ restarts' > 0
  BY DurableTopicAssumption DEF TopicInv, TypeOK, Restart
<1>3. RestType' /\ FrameOK' /\ MemoryType' /\ DiskType'
  BY <1>1, <1>2 DEF TopicInv, TypeOK, RestType, FrameOK, OnlineAgrees, StagedOK, RegistryOK, AckedSent,
                    MemoryType, DiskType
<1>4. NumbersOK
  BY Numbers, Zenon DEF TopicInv
<1>5. \A n \in Names, c \in Copies : Total(n, c)' = 0
  BY <1>1 DEF Total
<1>6. \A n \in Names, c \in Copies : CopyShrinks(n, c)
  BY <1>1, <1>2, <1>4, <1>5 DEF CopyShrinks, NumbersOK
<1>7. RemovesOK' /\ \A d \in Durable, m \in Messages : RecordShrinks(d, m)
  BY <1>1, <1>2, <1>4 DEF RecordShrinks, RemovesOK, NumbersOK, Stored
<1> QED
  BY <1>3, <1>6, <1>7, ShrinkKeeps, Zenon

-----------------------------------------------------------------------------
(* Steps that add copies or records, or take records away.                 *)

\* What a step has to establish.
LEMMA Assemble ==
  ASSUME RestType', FrameOK', MemoryType', DiskType', RemovesOK',
         \A n \in Names, c \in Copies : CopyOK(n, c)',
         \A d \in Durable, m \in Messages : RecordOK(d, m)'
  PROVE  TopicInv'
  BY TypeNext, Zenon DEF TopicInv, DataOK

\* A subscriber without a subscription starts with an empty queue.
LEMMA SubscribePlainStep ==
  ASSUME TopicInv, NEW n \in Plain, NEW sel \in Selectors, SubscribePlain(n, sel)
  PROVE  TopicInv'
<1>1. /\ UNCHANGED <<registered, active, inFlight, storage, removes, staged, restarts, txSent, sent,
                     subscribed, owed, missed>>
      /\ n \notin held /\ consumers' = consumers \cup {n} /\ held' = held \cup {n}
      /\ selector' = [selector EXCEPT ![n] = sel]
      /\ queue' = [queue EXCEPT ![n] = [c \in Copies |-> 0]]
      /\ since' = [since EXCEPT ![n] = {}] /\ acked' = [acked EXCEPT ![n] = {}]
  BY Zenon DEF SubscribePlain, disk, None
<1>2. n \in Names /\ n \notin Durable /\ sel \in SUBSET Messages
  BY DurableTopicAssumption, Zenon DEF Names
<1>3. MemoryType /\ NumbersOK /\ RestType
  BY Numbers, TypeParts, Zenon DEF TopicInv
<1>4. /\ \A x \in Names \ {n} : since'[x] = since[x] /\ acked'[x] = acked[x]
      /\ since'[n] = {} /\ acked'[n] = {}
  BY <1>1, <1>2, <1>3, Zenon DEF RestType
<1>5. RestType' /\ FrameOK' /\ DiskType' /\ RemovesOK'
  BY <1>1, <1>2, <1>4 DEF TopicInv, TypeOK, RestType, FrameOK, OnlineAgrees, StagedOK, RegistryOK, AckedSent,
                          DiskType, RemovesOK
<1>6. MemoryType' /\ \A x \in Names, c \in Copies : Total(x, c)' = IF x = n THEN 0 ELSE Total(x, c)
  <2>1. \A c \in Copies : inFlight[n][c] = 0
    BY <1>1, <1>2, <1>3 DEF TopicInv, DataOK, CopyOK, Total, MemoryType
  <2> QED
    BY <1>1, <1>2, <1>3, <2>1 DEF MemoryType, Total
<1>7. NumbersOK' /\ \A d \in Durable, m \in Messages : RecordShrinks(d, m)
  BY <1>1, <1>2, <1>3, <1>4, <1>5, <1>6, TypeNext DEF RecordShrinks, NumbersOK, Stored, Names
<1>8. ASSUME NEW x \in Names, NEW c \in Copies
      PROVE  CopyOK(x, c)'
  <2>1. CASE x = n
    BY <1>1, <1>2, <1>6, <2>1 DEF CopyOK
  <2>2. CASE x # n
    <3>1. CopyShrinks(x, c)
      BY <1>1, <1>3, <1>4, <1>6, <2>2 DEF CopyShrinks, NumbersOK
    <3> QED
      BY <1>3, <1>7, <3>1, CopyStep, CopyParts, Zenon DEF TopicInv, DataOK, RecordShrinks
  <2> QED
    BY <2>1, <2>2, Zenon
<1>9. \A d \in Durable, m \in Messages : RecordOK(d, m)'
  BY <1>3, <1>7, RecordStep, Zenon DEF TopicInv, DataOK
<1> QED
  BY <1>5, <1>6, <1>8, <1>9, Assemble, Zenon

\* createDurableConsumer() replays the records of the subscription, less the removes.
LEMMA SubscribeDurableEffect ==
  ASSUME TopicInv, NEW d \in Durable, NEW sel \in Selectors, SubscribeDurable(d, sel)
  PROVE  /\ MemoryType' /\ DiskType' /\ RemovesOK'
         /\ \A x \in Names, c \in Copies :
              Total(x, c)' = IF x = d THEN (IF c[2] THEN Stored(d, c[1]) ELSE 0) ELSE Total(x, c)
         /\ \A x \in Durable, m \in Messages :
              Stored(x, m)' = Stored(x, m) /\ storage'[x][m] <= storage[x][m]
<1> DEFINE q == [c \in Copies |-> IF c[2] THEN Live(d)[c[1]] ELSE 0]
<1>1. /\ d \notin held /\ UNCHANGED inFlight /\ queue' = [queue EXCEPT ![d] = q]
      /\ storage' = [storage EXCEPT ![d] = Live(d)]
      /\ removes' = [removes EXCEPT ![d] = [m \in Messages |-> 0]]
  BY Zenon DEF SubscribeDurable, Empty
<1>2. d \in Names /\ MemoryType /\ DiskType /\ NumbersOK
  BY Numbers, TypeParts, Zenon DEF TopicInv, Names
<1>3. Live(d) \in [Messages -> Nat] /\ \A m \in Messages : Live(d)[m] = Stored(d, m)
  BY <1>2, Zenon DEF Live, Stored, NumbersOK
<1>4. q \in [Copies -> Nat] /\ \A c \in Copies : q[c] = IF c[2] THEN Stored(d, c[1]) ELSE 0
  BY <1>3, CopyParts, Zenon
<1> HIDE DEF q
<1>5. \A c \in Copies : inFlight[d][c] = 0
  BY <1>1, <1>2 DEF TopicInv, DataOK, CopyOK, Total, MemoryType
<1>6. /\ MemoryType'
      /\ \A x \in Names, c \in Copies :
            Total(x, c)' = IF x = d THEN (IF c[2] THEN Stored(d, c[1]) ELSE 0) ELSE Total(x, c)
  BY <1>1, <1>2, <1>4, <1>5 DEF MemoryType, Total
<1>7. /\ DiskType'
      /\ \A x \in Durable, m \in Messages :
            /\ storage'[x][m] = IF x = d THEN Stored(d, m) ELSE storage[x][m]
            /\ removes'[x][m] = IF x = d THEN 0 ELSE removes[x][m]
  BY <1>1, <1>2, <1>3, Zenon DEF DiskType
<1>8. RemovesOK' /\ \A x \in Durable, m \in Messages :
            Stored(x, m)' = Stored(x, m) /\ storage'[x][m] <= storage[x][m]
  BY <1>2, <1>7, TypeParts DEF TopicInv, NumbersOK, RemovesOK, Stored
<1> QED
  BY <1>6, <1>7, <1>8, Zenon

\* The copies of the new consumer are those of its records.
LEMMA SubscribeDurableStep ==
  ASSUME TopicInv, NEW d \in Durable, NEW sel \in Selectors, SubscribeDurable(d, sel)
  PROVE  TopicInv'
<1>1. /\ UNCHANGED <<staged, restarts, txSent, sent, since, owed, missed, acked>>
      /\ consumers' = consumers \cup {d} /\ held' = held \cup {d}
      /\ registered' = registered \cup {d} /\ active' = active \cup {d} /\ subscribed' = subscribed \cup {d}
      /\ selector' = [selector EXCEPT ![d] = sel] /\ d \in Names /\ sel \in SUBSET Messages
  BY DurableTopicAssumption, Zenon DEF SubscribeDurable, Names
<1>2. RestType' /\ FrameOK'
  BY <1>1, Zenon DEF TopicInv, TypeOK, RestType, FrameOK, OnlineAgrees, StagedOK, RegistryOK, AckedSent
<1>3. NumbersOK /\ NumbersOK'
  BY <1>2, SubscribeDurableEffect, Numbers, TypeNext, Zenon DEF TopicInv
<1>4. \A x \in Durable, m \in Messages : RecordShrinks(x, m)
  BY <1>1, <1>3, SubscribeDurableEffect DEF NumbersOK, RecordShrinks
<1>5. ASSUME NEW c \in Copies
      PROVE  CopyOK(d, c)'
  <2>1. /\ RecordOK(d, c[1]) /\ Stored(d, c[1]) \in Nat /\ storage[d][c[1]] \in Nat
        /\ Stored(d, c[1]) <= storage[d][c[1]]
    BY <1>3, CopyParts, Zenon DEF TopicInv, DataOK, NumbersOK
  <2>2. Stored(d, c[1])' = Stored(d, c[1]) /\ Total(d, c)' = IF c[2] THEN Stored(d, c[1]) ELSE 0
    BY <1>1, SubscribeDurableEffect, CopyParts
  <2>3. d \in held' /\ UNCHANGED <<sent, restarts, since, acked>>
    BY <1>1, Zenon
  <2> QED
    BY <2>1, <2>2, <2>3 DEF CopyOK, RecordOK
<1>6. ASSUME NEW x \in Names \ {d}, NEW c \in Copies
      PROVE  CopyOK(x, c)'
  <2>1. CopyShrinks(x, c)
    BY <1>1, <1>3, SubscribeDurableEffect DEF CopyShrinks, NumbersOK
  <2> QED
    BY <1>3, <1>4, <2>1, CopyStep, CopyParts, Zenon DEF TopicInv, DataOK, RecordShrinks
<1>7. \A x \in Durable, m \in Messages : RecordOK(x, m)'
  BY <1>3, <1>4, RecordStep, Zenon DEF TopicInv, DataOK
<1> QED
  BY <1>2, <1>5, <1>6, <1>7, SubscribeDurableEffect, Assemble, Zenon

\* deleteSubscription() wipes the storage of a registered subscription; one that is not
\* registered has no consumer, and there is one only after a restart.
LEMMA UnsubscribeDisk ==
  ASSUME TopicInv, NEW d \in Durable, Unsubscribe(d)
  PROVE  /\ DiskType' /\ d \notin consumers' /\ consumers' \ {d} = consumers \ {d}
         /\ \A x \in Durable, m \in Messages :
              \/ x # d /\ storage'[x][m] = storage[x][m] /\ removes'[x][m] = removes[x][m]
              \/ x = d /\ storage'[x][m] = 0 /\ removes'[x][m] = 0
              \/ x = d /\ storage'[x][m] = storage[x][m] /\ removes'[x][m] = removes[x][m] /\ restarts # 0
<1>1. DiskType
  BY TypeParts, Zenon DEF TopicInv
<1>2. CASE d \in registered
  <2>1. /\ consumers' = consumers \ {d}
        /\ storage' = [storage EXCEPT ![d] = [m \in Messages |-> 0]]
        /\ removes' = [removes EXCEPT ![d] = [m \in Messages |-> 0]]
    BY <1>2, Zenon DEF Unsubscribe, Empty
  <2> QED
    BY <1>1, <2>1, Zenon DEF DiskType
<1>3. CASE d \notin registered
  <2>1. UNCHANGED <<consumers, storage, removes>> /\ d \in subscribed
    BY <1>3, Zenon DEF Unsubscribe, disk
  <2>2. d \notin consumers /\ restarts # 0
    BY <1>3, <2>1, Zenon DEF TopicInv, TypeOK, FrameOK, OnlineAgrees, RegistryOK
  <2> QED
    BY <1>1, <2>1, <2>2, Zenon DEF DiskType
<1> QED
  BY <1>2, <1>3, Zenon

\* Nothing is left of the subscription but the copies in the object of its session.
LEMMA UnsubscribeStep ==
  ASSUME TopicInv, NEW d \in Durable, Unsubscribe(d)
  PROVE  TopicInv'
<1>1. /\ UNCHANGED <<held, selector, queue, inFlight, staged, restarts, txSent, sent>>
      /\ subscribed' = subscribed \ {d}
      /\ since' = [since EXCEPT ![d] = {}] /\ acked' = [acked EXCEPT ![d] = {}]
      /\ owed' = [owed EXCEPT ![d] = {}] /\ missed' = [missed EXCEPT ![d] = {}]
  BY Zenon DEF Unsubscribe, memory
<1>2. \/ consumers' = consumers \ {d} /\ active' = active \ {d} /\ registered' = registered \ {d}
      \/ UNCHANGED <<consumers, active, registered>> /\ d \notin registered
  BY Zenon DEF Unsubscribe
<1>3. d \in Names /\ NumbersOK /\ RestType /\ RemovesOK
  BY Numbers, TypeParts, Zenon DEF TopicInv, Names
<1>4. /\ since'[d] = {} /\ acked'[d] = {} /\ owed'[d] = {}
      /\ \A x \in Names \ {d} : since'[x] = since[x] /\ acked'[x] = acked[x]
      /\ \A x \in Durable \ {d} : owed'[x] = owed[x]
  BY <1>1, <1>3, Zenon DEF RestType
<1>5. RestType'
  BY <1>1, <1>2, <1>3, Zenon DEF RestType
<1>6. OnlineAgrees' /\ RegistryOK'
  BY <1>1, <1>2, Zenon DEF TopicInv, FrameOK, OnlineAgrees, RegistryOK
<1>7. StagedOK' /\ AckedSent'
  BY <1>1, <1>4, Zenon DEF TopicInv, FrameOK, StagedOK, AckedSent
<1>8. MemoryType' /\ \A x \in Names, c \in Copies : Total(x, c)' = Total(x, c)
  BY <1>1, TypeParts, Zenon DEF TopicInv, MemoryType, Total
<1>9. RemovesOK'
  BY <1>3, UnsubscribeDisk DEF RemovesOK
<1>10. ASSUME NEW x \in Durable, NEW m \in Messages
       PROVE  RecordOK(x, m)'
  <2>1. RecordOK(x, m) /\ storage[x][m] \in Nat /\ removes[x][m] \in Nat /\ x \in Names
    BY <1>3, Zenon DEF TopicInv, DataOK, NumbersOK, Names
  <2>2. UNCHANGED <<sent, restarts>>
    BY <1>1, Zenon
  <2> QED
    BY <1>4, <2>1, <2>2, UnsubscribeDisk DEF RecordOK, Stored
<1>11. ASSUME NEW x \in Names, NEW c \in Copies
       PROVE  CopyOK(x, c)'
  <2>1. CopyOK(x, c) /\ Total(x, c)' = Total(x, c) /\ c[1] \in Messages
    BY <1>8, CopyParts, Zenon DEF TopicInv, DataOK
  <2>2. x # d /\ x \in Durable => Stored(x, c[1])' = Stored(x, c[1])
    BY <2>1, UnsubscribeDisk, ZenonT(30) DEF Stored
  <2>3. UNCHANGED <<sent, restarts, held>> /\ d \notin consumers' /\ (x # d => (x \in consumers' <=> x \in consumers))
    BY <1>1, UnsubscribeDisk, Zenon
  <2> QED
    BY <1>4, <2>1, <2>2, <2>3, Zenon DEF CopyOK
<1> QED
  BY <1>5, <1>6, <1>7, <1>8, <1>9, <1>10, <1>11, UnsubscribeDisk, Assemble, Zenon DEF FrameOK

\* save() gives every consumer that matches a copy, which knows its record if it has one.
LEMMA PublishMemory ==
  ASSUME MemoryType, NEW p \in Messages, Publish(p)
  PROVE  /\ MemoryType'
         /\ \A n \in Names, c \in Copies : Total(n, c)' = Total(n, c) +
              (IF n \in Pushed(p) /\ c[1] = p /\ (c[2] <=> n \in Durable /\ p \in Persistent) THEN 1 ELSE 0)
<1>1. ASSUME NEW n \in Names
      PROVE  /\ queue'[n] \in [Copies -> Nat]
             /\ \A c \in Copies : queue'[n][c] = queue[n][c] +
                  (IF n \in Pushed(p) /\ c[1] = p /\ (c[2] <=> n \in Durable /\ p \in Persistent) THEN 1 ELSE 0)
  <2> DEFINE k == <<p, n \in Durable /\ p \in Persistent>>
  <2>1. k \in Copies /\ \A c \in Copies : c = k <=> c[1] = p /\ (c[2] <=> n \in Durable /\ p \in Persistent)
    <3>1. k \in Copies /\ k[1] = p /\ (k[2] <=> n \in Durable /\ p \in Persistent)
      BY CopyParts, Zenon
    <3> QED
      BY <3>1, CopyParts, Zenon
  <2>2. queue'[n] = IF n \in Pushed(p) THEN [queue[n] EXCEPT ![k] = @ + 1] ELSE queue[n]
    BY Zenon DEF Publish
  <2> HIDE DEF k
  <2>3. queue[n] \in [Copies -> Nat]
    BY Zenon DEF MemoryType
  <2> QED
    BY <2>1, <2>2, <2>3
<1>2. queue' = [n \in Names |-> queue'[n]] /\ UNCHANGED inFlight
  BY Zenon DEF Publish
<1>3. MemoryType'
  BY <1>1, <1>2, Zenon DEF MemoryType
<1> QED
  BY <1>1, <1>2, <1>3 DEF MemoryType, Total

\* It is stored for the subscriptions that are attached and for those that are away.
LEMMA PublishDisk ==
  ASSUME DiskType, NEW p \in Messages, Publish(p)
  PROVE  /\ DiskType' /\ UNCHANGED removes
         /\ \A d \in Durable, m \in Messages : m # p => storage'[d][m] = storage[d][m]
         /\ \A d \in Durable : storage'[d][p] = storage[d][p] +
              (IF d \in Pushed(p) /\ p \in Persistent THEN 1 ELSE 0) + (IF d \in Buffered(p) THEN 1 ELSE 0)
<1>1. /\ storage' = [d \in Durable |-> [storage[d] EXCEPT ![p] =
            @ + (IF d \in Pushed(p) /\ p \in Persistent THEN 1 ELSE 0)
              + (IF d \in Buffered(p) THEN 1 ELSE 0)]]
      /\ UNCHANGED removes
  BY Zenon DEF Publish
<1> QED
  BY <1>1 DEF DiskType

\* What the application may expect of p.
LEMMA PublishHistory ==
  ASSUME TopicInv, NEW p \in Messages, Publish(p)
  PROVE  /\ RestType' /\ FrameOK' /\ sent' = sent \cup {p} /\ p \notin sent /\ p \notin Transacted
         /\ UNCHANGED <<consumers, held, restarts, acked>>
         /\ \A n \in Names, m \in Messages : m \in since'[n] <=>
              m \in since[n] \/ (m = p /\ n \in consumers \cup subscribed)
         /\ \A d \in Durable, m \in Messages : m \in owed'[d] <=>
              m \in owed[d] \/ (m = p /\ p \in Persistent /\ d \in registered /\ Matches(d, p))
<1>1. /\ UNCHANGED <<consumers, held, registered, active, selector, staged, restarts, txSent, subscribed, acked>>
      /\ sent' = sent \cup {p} /\ p \notin sent /\ p \notin Transacted /\ Expect({p})
  BY Zenon DEF Publish, registry
<1>2. RestType
  BY TypeParts, Zenon DEF TopicInv
<1>3. since' \in [Names -> SUBSET Messages] /\ \A n \in Names, m \in Messages :
        m \in since'[n] <=> m \in since[n] \/ (m = p /\ n \in consumers \cup subscribed)
  BY <1>1, <1>2, Zenon DEF Expect, RestType
<1>4. owed' \in [Durable -> SUBSET Messages] /\ \A d \in Durable, m \in Messages :
        m \in owed'[d] <=> m \in owed[d] \/ (m = p /\ p \in Persistent /\ d \in registered /\ Matches(d, p))
  BY <1>1, <1>2, Zenon DEF Expect, RestType
<1>5. missed' \in [Durable -> SUBSET Messages]
  BY <1>1, <1>2, Zenon DEF Expect, RestType
<1>6. RestType'
  BY <1>1, <1>2, <1>3, <1>4, <1>5, Zenon DEF RestType
<1>7. FrameOK'
  BY <1>1, Zenon DEF TopicInv, FrameOK, OnlineAgrees, StagedOK, RegistryOK, AckedSent
<1> QED
  BY <1>1, <1>3, <1>4, <1>6, <1>7, Zenon

\* Nothing of p is there before.
LEMMA PublishNew ==
  ASSUME TopicInv, NEW p \in Messages, p \notin sent, p \notin Transacted
  PROVE  /\ \A d \in Durable : storage[d][p] = 0 /\ removes[d][p] = 0 /\ p \notin owed[d]
         /\ \A n \in Names : p \notin acked[n]
<1>1. ASSUME NEW d \in Durable
      PROVE  storage[d][p] = 0 /\ removes[d][p] = 0 /\ p \notin owed[d]
  <2>1. NumbersOK /\ RemovesOK /\ RecordOK(d, p)
    BY Numbers, TypeParts, Zenon DEF TopicInv, DataOK
  <2> QED
    BY <2>1 DEF NumbersOK, RemovesOK, RecordOK, Stored
<1>2. \A n \in Names : p \notin acked[n]
  BY Zenon DEF TopicInv, FrameOK, AckedSent
<1> QED
  BY <1>1, <1>2, Zenon

\* An attached subscription is not stored for twice, and one that is away once: the
\* record of p is there exactly if somebody expects it.
LEMMA PublishRecord ==
  ASSUME TopicInv, NEW p \in Messages, Publish(p), NEW d \in Durable
  PROVE  /\ storage'[d][p] \in {0, 1} /\ removes'[d][p] = 0 /\ Stored(d, p)' = storage'[d][p]
         /\ storage'[d][p] = 1 => p \in Persistent /\ d \in consumers \cup subscribed
         /\ p \in Persistent /\ d \in registered /\ Matches(d, p) => storage'[d][p] = 1
         /\ p \in Persistent /\ d \in Pushed(p) => storage'[d][p] = 1
<1>1. storage[d][p] = 0 /\ removes[d][p] = 0 /\ DiskType
  BY TypeParts, PublishNew, PublishHistory, Zenon DEF TopicInv
<1>2. /\ d \in Pushed(p) <=> d \in consumers /\ Matches(d, p)
      /\ d \in Buffered(p) <=> d \in registered /\ d \notin active /\ Matches(d, p) /\ p \in Persistent
      /\ d \in active <=> d \in consumers
      /\ d \in active => d \in registered
      /\ d \in registered => d \in subscribed
  BY Zenon DEF Pushed, Buffered, TopicInv, TypeOK, FrameOK, OnlineAgrees, RegistryOK
<1>3. /\ removes'[d][p] = 0
      /\ storage'[d][p] = (IF d \in Pushed(p) /\ p \in Persistent THEN 1 ELSE 0)
                             + (IF d \in Buffered(p) THEN 1 ELSE 0)
  BY <1>1, PublishDisk
<1> QED
  BY <1>2, <1>3 DEF Stored

\* save(): of the published message there is at most one record, of the others as many
\* as before.
LEMMA PublishRecords ==
  ASSUME TopicInv, NEW p \in Messages, Publish(p),
         NEW d \in Durable, NEW m \in Messages
  PROVE  removes'[d][m] <= storage'[d][m] /\ RecordOK(d, m)'
<1>1. DiskType /\ NumbersOK /\ RemovesOK /\ RecordOK(d, m) /\ d \in Names
  BY Numbers, TypeParts, Zenon DEF TopicInv, DataOK, Names
<1>2. /\ p \notin sent /\ p \notin Transacted /\ sent' = sent \cup {p} /\ UNCHANGED <<restarts, acked>>
      /\ m \in since[d] => m \in since'[d]
  BY <1>1, PublishHistory, Zenon
<1>3. CASE m # p
  <2>1. storage'[d][m] = storage[d][m] /\ removes'[d][m] = removes[d][m]
    BY <1>1, <1>3, PublishDisk, Zenon
  <2>2. m \in owed'[d] => m \in owed[d]
    BY <1>3, PublishHistory, Zenon
  <2> QED
    BY <1>1, <1>2, <1>3, <2>1, <2>2, Zenon DEF RecordOK, RemovesOK, Stored
<1>4. CASE m = p
  <2>1. p \notin acked[d] /\ p \notin owed[d]
    BY <1>1, <1>2, PublishNew, Zenon
  <2>2. storage'[d][p] = 1 => p \in since'[d] /\ p \in Persistent
    BY <1>1, PublishRecord, PublishHistory, Zenon
  <2>3. p \in owed'[d] => storage'[d][p] = 1
    BY <2>1, PublishRecord, PublishHistory, Zenon
  <2>4. storage'[d][p] \in {0, 1} /\ removes'[d][p] = 0 /\ Stored(d, p)' = storage'[d][p]
    BY PublishRecord, Zenon
  <2> QED
    BY <1>2, <1>4, <2>1, <2>2, <2>3, <2>4 DEF RecordOK
<1> QED
  BY <1>3, <1>4, Zenon

\* save(): an attached subscriber gets one copy, which knows a record that is there.
LEMMA PublishCopies ==
  ASSUME TopicInv, NEW p \in Messages, Publish(p),
         NEW n \in Names, NEW c \in Copies
  PROVE  CopyOK(n, c)'
<1>1. NumbersOK /\ MemoryType /\ DiskType /\ CopyOK(n, c) /\ c[1] \in Messages
  BY Numbers, TypeParts, CopyParts, Zenon DEF TopicInv, DataOK
<1>2. /\ p \notin sent /\ p \notin Transacted /\ sent' = sent \cup {p}
      /\ UNCHANGED <<restarts, acked, held, consumers>>
      /\ c[1] \in since[n] => c[1] \in since'[n]
  BY <1>1, PublishHistory, Zenon
<1>3. Total(n, c) \in Nat
  BY <1>1, Zenon DEF NumbersOK
<1>4. CASE c[1] # p
  <2>1. n \in Durable => Stored(n, c[1])' = Stored(n, c[1])
    BY <1>1, <1>4, PublishDisk, ZenonT(30) DEF Stored
  <2>2. Total(n, c)' = Total(n, c)
    BY <1>1, <1>3, <1>4, PublishMemory
  <2> QED
    BY <1>1, <1>2, <1>4, <2>1, <2>2, Zenon DEF CopyOK
<1>5. CASE c[1] = p
  <2>1. Total(n, c) = 0 /\ p \notin acked[n]
    BY <1>1, <1>2, <1>5, PublishNew, Zenon DEF CopyOK
  <2>2. CASE n \in Pushed(p) /\ (c[2] <=> n \in Durable /\ p \in Persistent)
    <3>1. Total(n, c)' = 1
      BY <1>1, <1>5, <2>1, <2>2, PublishMemory
    <3>2. n \in consumers /\ n \in held
      BY <2>2, Zenon DEF Pushed, TopicInv, TypeOK
    <3>3. p \in since'[n]
      BY <3>2, PublishHistory, Zenon
    <3>4. n \in Durable /\ c[2] => Stored(n, p)' = 1
      BY <2>2, PublishRecord
    <3> QED
      BY <1>2, <1>5, <2>1, <2>2, <3>1, <3>2, <3>3, <3>4 DEF CopyOK
  <2>3. CASE ~(n \in Pushed(p) /\ (c[2] <=> n \in Durable /\ p \in Persistent))
    <3>1. Total(n, c)' = 0
      BY <1>1, <1>5, <2>1, <2>3, PublishMemory
    <3>2. n \in Durable => Stored(n, p)' \in {0, 1}
      BY PublishRecord, Zenon
    <3> QED
      BY <1>2, <1>5, <3>1, <3>2 DEF CopyOK
  <2> QED
    BY <2>2, <2>3, Zenon
<1> QED
  BY <1>4, <1>5, Zenon

\* save() outside a transaction keeps the invariant.
LEMMA PublishStep ==
  ASSUME TopicInv, NEW p \in Messages, Publish(p)
  PROVE  TopicInv'
<1>1. MemoryType /\ DiskType
  BY TypeParts, Zenon DEF TopicInv
<1>2. RemovesOK'
  BY PublishRecords, Zenon DEF RemovesOK
<1> QED
  BY <1>1, <1>2, PublishRecords, PublishCopies, PublishMemory, PublishDisk, PublishHistory, Assemble, Zenon

\* deliverCommitted() gives every consumer the staged copies, which know no record.
LEMMA CommitMemory ==
  ASSUME MemoryType, staged \in [Messages -> Nat], Commit
  PROVE  /\ MemoryType'
         /\ \A n \in Names, c \in Copies :
              Total(n, c)' = Total(n, c) + (IF n \in consumers /\ ~c[2] THEN staged[c[1]] ELSE 0)
<1>1. ASSUME NEW n \in Names
      PROVE  /\ queue'[n] \in [Copies -> Nat]
             /\ \A c \in Copies : queue'[n][c] =
                  queue[n][c] + (IF n \in consumers /\ ~c[2] THEN staged[c[1]] ELSE 0)
  <2>1. queue'[n] = IF n \in consumers
                    THEN [c \in Copies |-> queue[n][c] + (IF c[2] THEN 0 ELSE staged[c[1]])]
                    ELSE queue[n]
    BY Zenon DEF Commit
  <2>2. queue[n] \in [Copies -> Nat]
    BY Zenon DEF MemoryType
  <2>3. \A c \in Copies : staged[c[1]] \in Nat
    BY CopyParts, Zenon
  <2> QED
    BY <2>1, <2>2, <2>3
<1>2. queue' = [n \in Names |-> queue'[n]] /\ UNCHANGED inFlight
  BY Zenon DEF Commit
<1>3. MemoryType'
  BY <1>1, <1>2, Zenon DEF MemoryType
<1>4. \A c \in Copies : staged[c[1]] \in Nat
  BY CopyParts, Zenon
<1> QED
  BY <1>1, <1>2, <1>3, <1>4 DEF MemoryType, Total

\* It stores them for the subscriptions that are away.
LEMMA CommitDisk ==
  ASSUME DiskType, staged \in [Messages -> Nat], Commit
  PROVE  /\ DiskType' /\ UNCHANGED removes
         /\ \A d \in Durable, m \in Messages :
              storage'[d][m] = storage[d][m] + (IF d \in Buffered(m) THEN staged[m] ELSE 0)
<1>1. /\ storage' = [d \in Durable |-> [m \in Messages |->
            storage[d][m] + (IF d \in Buffered(m) THEN staged[m] ELSE 0)]]
      /\ UNCHANGED removes
  BY Zenon DEF Commit
<1> QED
  BY <1>1 DEF DiskType

\* commit(): what was staged now counts as published; the rest of the history stays.
LEMMA CommitHistory ==
  ASSUME TopicInv, Commit
  PROVE  /\ RestType' /\ FrameOK' /\ UNCHANGED <<consumers, held, restarts, sent, acked>>
         /\ \A n \in Names, m \in Messages : m \in since'[n] <=>
              m \in since[n] \/ (m \in txSent /\ n \in consumers \cup subscribed)
         /\ \A d \in Durable, m \in Messages : m \notin Transacted /\ m \in owed'[d] => m \in owed[d]
<1>1. /\ UNCHANGED <<consumers, held, registered, active, selector, restarts, sent, subscribed, acked>>
      /\ staged' = [m \in Messages |-> 0] /\ txSent' = {} /\ Expect(txSent)
  BY Zenon DEF Commit, registry, Empty
<1>2. RestType /\ txSent \subseteq Transacted
  BY TypeParts, Zenon DEF TopicInv, FrameOK, StagedOK
<1>3. since' \in [Names -> SUBSET Messages] /\ \A n \in Names, m \in Messages :
        m \in since'[n] <=> m \in since[n] \/ (m \in txSent /\ n \in consumers \cup subscribed)
  BY <1>1, <1>2, Zenon DEF Expect, RestType
<1>4. owed' \in [Durable -> SUBSET Messages] /\ \A d \in Durable, m \in Messages :
        m \notin Transacted /\ m \in owed'[d] => m \in owed[d]
  BY <1>1, <1>2, Zenon DEF Expect, RestType
<1>5. missed' \in [Durable -> SUBSET Messages]
  BY <1>1, <1>2, Zenon DEF Expect, RestType
<1>6. RestType'
  BY <1>1, <1>2, <1>3, <1>4, <1>5, Zenon DEF RestType
<1>7. FrameOK'
  BY <1>1 DEF TopicInv, FrameOK, OnlineAgrees, StagedOK, RegistryOK, AckedSent
<1> QED
  BY <1>1, <1>3, <1>4, <1>6, <1>7, Zenon

\* What is staged for a message.
LEMMA StagedParts ==
  ASSUME TopicInv, NEW m \in Messages
  PROVE  /\ staged \in [Messages -> Nat] /\ staged[m] \in Nat
         /\ staged[m] = 0 \/ (m \in txSent /\ m \in Transacted /\ m \in sent)
  BY DEF TopicInv, TypeOK, FrameOK, StagedOK

\* commit() adds records of messages sent in the transaction only.
LEMMA CommitRecords ==
  ASSUME TopicInv, Commit, NEW d \in Durable, NEW m \in Messages
  PROVE  removes'[d][m] <= storage'[d][m] /\ RecordOK(d, m)'
<1>1. DiskType /\ NumbersOK /\ RemovesOK /\ RecordOK(d, m) /\ d \in Names
  BY Numbers, TypeParts, Zenon DEF TopicInv, DataOK, Names
<1>2. /\ UNCHANGED <<restarts, acked, sent>> /\ (m \in since[d] => m \in since'[d])
      /\ m \notin Transacted /\ m \in owed'[d] => m \in owed[d]
  BY <1>1, CommitHistory, Zenon
<1>3. /\ removes'[d][m] = removes[d][m]
      /\ storage'[d][m] = storage[d][m] + (IF d \in Buffered(m) THEN staged[m] ELSE 0)
  BY <1>1, StagedParts, CommitDisk, Zenon
<1>4. storage[d][m] \in Nat /\ removes[d][m] \in Nat /\ removes[d][m] <= storage[d][m]
  BY <1>1, Zenon DEF NumbersOK, RemovesOK
<1>5. CASE staged[m] = 0 \/ d \notin Buffered(m)
  <2>1. storage'[d][m] = storage[d][m]
    BY <1>3, <1>4, <1>5
  <2> QED
    BY <1>1, <1>2, <1>3, <1>4, <2>1, ZenonT(30) DEF RecordOK, Stored
<1>6. CASE m \in txSent /\ m \in Transacted /\ m \in sent /\ d \in Buffered(m)
  <2>1. m \in Persistent /\ d \in subscribed
    BY <1>6, Zenon DEF Buffered, TopicInv, FrameOK, RegistryOK
  <2>2. m \in since'[d]
    BY <1>1, <1>6, <2>1, CommitHistory, Zenon
  <2>3. removes'[d][m] <= storage'[d][m]
    BY <1>3, <1>4, StagedParts
  <2> QED
    BY <1>2, <1>6, <2>1, <2>2, <2>3, Zenon DEF RecordOK
<1> QED
  BY <1>5, <1>6, StagedParts, Zenon

\* commit() adds copies of messages sent in the transaction only, and none that knows a
\* record.
LEMMA CommitCopies ==
  ASSUME TopicInv, Commit, NEW n \in Names, NEW c \in Copies
  PROVE  CopyOK(n, c)'
<1>1. MemoryType /\ DiskType /\ NumbersOK /\ CopyOK(n, c) /\ c[1] \in Messages
  BY Numbers, TypeParts, CopyParts, Zenon DEF TopicInv, DataOK
<1>2. UNCHANGED <<restarts, acked, sent, held, consumers>> /\ (c[1] \in since[n] => c[1] \in since'[n])
  BY <1>1, CommitHistory, Zenon
<1>3. Total(n, c)' = Total(n, c) + (IF n \in consumers /\ ~c[2] THEN staged[c[1]] ELSE 0)
  BY <1>1, StagedParts, CommitMemory, Zenon
<1>4. Total(n, c) \in Nat /\ staged[c[1]] \in Nat
  BY <1>1, StagedParts, ZenonT(30) DEF NumbersOK
<1>5. n \in Durable => Stored(n, c[1]) <= Stored(n, c[1])' /\ Stored(n, c[1]) \in Nat /\ Stored(n, c[1])' \in Nat
  <2>1. ASSUME n \in Durable
        PROVE  /\ removes'[n][c[1]] = removes[n][c[1]]
               /\ storage'[n][c[1]] = storage[n][c[1]] + (IF n \in Buffered(c[1]) THEN staged[c[1]] ELSE 0)
               /\ storage[n][c[1]] \in Nat /\ removes[n][c[1]] \in Nat /\ Stored(n, c[1]) \in Nat
    BY <1>1, <2>1, StagedParts, CommitDisk, ZenonT(30) DEF NumbersOK
  <2> QED
    BY <1>4, <2>1 DEF Stored
<1>6. CASE staged[c[1]] = 0 \/ ~(n \in consumers /\ ~c[2])
  <2>1. Total(n, c)' = Total(n, c)
    BY <1>3, <1>4, <1>6
  <2> QED
    BY <1>1, <1>2, <1>4, <1>5, <2>1 DEF CopyOK
<1>7. CASE c[1] \in txSent /\ c[1] \in Transacted /\ c[1] \in sent /\ n \in consumers /\ ~c[2]
  <2>1. n \in held /\ c[1] \in since'[n]
    BY <1>1, <1>7, CommitHistory, Zenon DEF TopicInv, TypeOK
  <2> QED
    BY <1>2, <1>7, <2>1, Zenon DEF CopyOK
<1> QED
  BY <1>1, <1>6, <1>7, StagedParts, Zenon

\* commit() keeps the invariant.
LEMMA CommitStep ==
  ASSUME TopicInv, Commit
  PROVE  TopicInv'
<1>1. MemoryType /\ DiskType /\ staged \in [Messages -> Nat]
  BY TypeParts, Zenon DEF TopicInv, RestType
<1>2. RemovesOK'
  BY CommitRecords, Zenon DEF RemovesOK
<1> QED
  BY <1>1, <1>2, CommitRecords, CommitCopies, CommitMemory, CommitDisk, CommitHistory, Assemble, Zenon

\* acknowledgeOn() takes the copy c off the list.
LEMMA AcknowledgeMemory ==
  ASSUME MemoryType, NEW n \in Names, NEW c \in Copies, Acknowledge(n, c)
  PROVE  /\ MemoryType' /\ Total(n, c) > 0
         /\ \A x \in Names, k \in Copies :
              Total(x, k)' = Total(x, k) - (IF x = n /\ k = c THEN 1 ELSE 0)
<1>1. /\ inFlight[n][c] > 0 /\ inFlight' = [inFlight EXCEPT ![n][c] = @ - 1] /\ UNCHANGED queue
  BY Zenon DEF Acknowledge
<1>2. inFlight[n][c] - 1 \in Nat /\ Total(n, c) > 0
  BY <1>1 DEF MemoryType, Total
<1>3. MemoryType'
  BY <1>1, <1>2, Zenon DEF MemoryType
<1>4. ASSUME NEW x \in Names, NEW k \in Copies
      PROVE  Total(x, k)' = Total(x, k) - (IF x = n /\ k = c THEN 1 ELSE 0)
  BY <1>1 DEF MemoryType, Total
<1> QED
  BY <1>2, <1>3, <1>4, Zenon

\* While the subscriber is attached it asks for the remove of the record that c knows.
LEMMA AcknowledgeDisk ==
  ASSUME DiskType, NEW n \in Names, NEW c \in Copies, Acknowledge(n, c)
  PROVE  /\ DiskType' /\ UNCHANGED storage
         /\ \A d \in Durable, m \in Messages : removes'[d][m] =
              removes[d][m] + (IF d = n /\ m = c[1] /\ c[2] /\ n \in consumers THEN 1 ELSE 0)
<1>1. UNCHANGED storage /\ c[1] \in Messages
  BY CopyParts, Zenon DEF Acknowledge
<1>2. CASE c[2] /\ n \in consumers
  <2>1. removes' = [removes EXCEPT ![n][c[1]] = @ + 1]
    BY <1>2, Zenon DEF Acknowledge
  <2>2. ASSUME NEW d \in Durable
        PROVE  /\ removes'[d] \in [Messages -> Nat]
               /\ \A m \in Messages : removes'[d][m] = removes[d][m] + (IF d = n /\ m = c[1] THEN 1 ELSE 0)
    BY <1>1, <2>1 DEF DiskType
  <2>3. removes' = [d \in Durable |-> removes'[d]]
    BY <2>1, Zenon DEF DiskType
  <2> QED
    BY <1>1, <1>2, <2>2, <2>3, Zenon DEF DiskType
<1>3. CASE ~(c[2] /\ n \in consumers)
  <2>1. removes' = removes
    BY <1>3, Zenon DEF Acknowledge
  <2> QED
    BY <1>1, <1>3, <2>1 DEF DiskType
<1> QED
  BY <1>2, <1>3, Zenon

\* acknowledgeOn() adds one message at most to what n acknowledged, and adds nothing
\* owed.
LEMMA AcknowledgeHistory ==
  ASSUME TopicInv, NEW n \in Names, NEW c \in Copies, Acknowledge(n, c)
  PROVE  /\ RestType' /\ FrameOK' /\ UNCHANGED <<consumers, held, restarts, sent, since>>
         /\ \A x \in Names, m \in Messages : m \in acked'[x] =>
              m \in acked[x] \/ (x = n /\ m = c[1] /\ n \in consumers)
         /\ \A d \in Durable, m \in Messages : m \in owed'[d] => m \in owed[d] /\ ~(d = n /\ m = c[1])
<1>1. /\ UNCHANGED <<consumers, held, registered, active, selector, staged, restarts, txSent, sent,
                     subscribed, since>>
      /\ owed' = [d \in Durable |-> IF d = n THEN owed[d] \ {c[1]} ELSE owed[d]]
      /\ missed' = [d \in Durable |-> IF d = n THEN missed[d] \ {c[1]} ELSE missed[d]]
      /\ acked' = [acked EXCEPT ![n] = IF n \in consumers THEN @ \cup {c[1]} ELSE @]
  BY Zenon DEF Acknowledge, registry
<1>2. RestType /\ c[1] \in Messages /\ c[1] \in sent
  <2>1. RestType /\ MemoryType /\ CopyOK(n, c) /\ c[1] \in Messages
    BY TypeParts, CopyParts, Zenon DEF TopicInv, DataOK
  <2>2. Total(n, c) > 0
    BY <2>1, AcknowledgeMemory, Zenon
  <2> QED
    BY <2>1, <2>2 DEF CopyOK
<1>3. acked' \in [Names -> SUBSET Messages] /\ \A x \in Names, m \in Messages :
        m \in acked'[x] => m \in acked[x] \/ (x = n /\ m = c[1] /\ n \in consumers)
  BY <1>1, <1>2, Zenon DEF RestType
<1>4. owed' \in [Durable -> SUBSET Messages] /\ missed' \in [Durable -> SUBSET Messages]
      /\ \A d \in Durable, m \in Messages : m \in owed'[d] => m \in owed[d] /\ ~(d = n /\ m = c[1])
  BY <1>1, <1>2, Zenon DEF RestType
<1>5. RestType'
  BY <1>1, <1>2, <1>3, <1>4, Zenon DEF RestType
<1>6. AckedSent'
  BY <1>1, <1>2, <1>3, ZenonT(30) DEF TopicInv, FrameOK, AckedSent, RestType
<1>7. FrameOK'
  BY <1>1, <1>6, Zenon DEF TopicInv, FrameOK, OnlineAgrees, StagedOK, RegistryOK
<1> QED
  BY <1>1, <1>3, <1>4, <1>5, <1>7, Zenon

\* The message of c published outside a transaction: c is its only copy, and the record
\* that c knows its only record.
LEMMA AcknowledgeOnly ==
  ASSUME TopicInv, NEW n \in Names, NEW c \in Copies, Acknowledge(n, c), c[1] \notin Transacted
  PROVE  /\ \A k \in Copies : k[1] = c[1] => Total(n, k)' = 0
         /\ n \in Durable /\ n \in consumers => Stored(n, c[1])' = 0
<1>1. NumbersOK /\ MemoryType /\ DiskType /\ c[1] \in Messages /\ CopyOK(n, c)
  BY Numbers, TypeParts, CopyParts, Zenon DEF TopicInv, DataOK
<1>2. Total(n, c) = 1 /\ (c[2] <=> n \in Durable /\ c[1] \in Persistent)
  <2>1. Total(n, c) > 0 /\ Total(n, c) \in Nat
    BY <1>1, AcknowledgeMemory, Zenon DEF NumbersOK
  <2> QED
    BY <1>1, <2>1 DEF CopyOK
<1>3. ASSUME NEW k \in Copies, k[1] = c[1]
      PROVE  Total(n, k)' = 0
  <2>1. Total(n, k) \in Nat /\ CopyOK(n, k)
    BY <1>1, Zenon DEF NumbersOK, TopicInv, DataOK
  <2>2. Total(n, k)' = Total(n, k) - (IF k = c THEN 1 ELSE 0)
    BY <1>1, AcknowledgeMemory
  <2>3. k # c => ~(k[2] <=> c[2])
    BY <1>3, CopyParts, Zenon
  <2> QED
    BY <1>2, <1>3, <2>1, <2>2, <2>3 DEF CopyOK
<1>4. ASSUME n \in Durable, n \in consumers
      PROVE  Stored(n, c[1])' = 0
  <2>1. /\ storage[n][c[1]] \in Nat /\ removes[n][c[1]] \in Nat /\ storage'[n][c[1]] = storage[n][c[1]]
        /\ removes'[n][c[1]] = removes[n][c[1]] + (IF c[2] THEN 1 ELSE 0)
        /\ removes[n][c[1]] <= storage[n][c[1]] /\ RecordOK(n, c[1])
    BY <1>1, <1>4, TypeParts, AcknowledgeDisk, Zenon DEF NumbersOK, TopicInv, DataOK, RemovesOK
  <2>2. c[2] => Total(n, c) <= Stored(n, c[1])
    BY <1>1, <1>4, Zenon DEF CopyOK
  <2> QED
    BY <1>2, <1>4, <2>1, <2>2 DEF RecordOK, Stored
<1> QED
  BY <1>3, <1>4, Zenon

\* acknowledgeOn() asks for no more removes than there are records.
LEMMA AcknowledgeRecords ==
  ASSUME TopicInv, NEW n \in Names, NEW c \in Copies, Acknowledge(n, c),
         NEW d \in Durable, NEW m \in Messages
  PROVE  removes'[d][m] <= storage'[d][m] /\ RecordOK(d, m)'
<1>1. NumbersOK /\ DiskType /\ RecordOK(d, m) /\ d \in Names /\ removes[d][m] <= storage[d][m]
  BY Numbers, TypeParts, Zenon DEF TopicInv, DataOK, RemovesOK, Names
<1>2. /\ storage[d][m] \in Nat /\ removes[d][m] \in Nat /\ storage'[d][m] = storage[d][m]
      /\ removes'[d][m] = removes[d][m] + (IF d = n /\ m = c[1] /\ c[2] /\ n \in consumers THEN 1 ELSE 0)
  BY <1>1, AcknowledgeDisk, ZenonT(30) DEF NumbersOK
<1>3. UNCHANGED <<restarts, sent, since>> /\ (m \in owed'[d] => m \in owed[d] /\ ~(d = n /\ m = c[1]))
  BY AcknowledgeHistory
<1>4. CASE ~(d = n /\ m = c[1] /\ n \in consumers)
  <2>1. removes'[d][m] = removes[d][m]
    BY <1>2, <1>4
  <2>2. m \in acked'[d] => m \in acked[d]
    BY <1>1, <1>4, AcknowledgeHistory, Zenon
  <2> QED
    BY <1>1, <1>2, <1>3, <2>1, <2>2, Zenon DEF RecordOK, Stored
<1>5. CASE d = n /\ m = c[1] /\ n \in consumers
  <2>1. m \notin Transacted => Stored(d, m)' = 0
    BY <1>5, AcknowledgeOnly, Zenon
  <2>2. removes'[d][m] <= storage'[d][m]
    <3>1. CopyOK(n, c) /\ Total(n, c) > 0 /\ Total(n, c) \in Nat
      BY <1>1, TypeParts, AcknowledgeMemory, Zenon DEF TopicInv, DataOK, NumbersOK
    <3>2. c[2] => Total(n, c) <= Stored(d, m)
      BY <1>5, <3>1, Zenon DEF CopyOK
    <3>3. removes'[d][m] = removes[d][m] + (IF c[2] THEN 1 ELSE 0)
      BY <1>2, <1>5, Zenon
    <3> QED
      BY <1>1, <1>2, <3>1, <3>2, <3>3 DEF Stored
  <2> QED
    BY <1>1, <1>2, <1>3, <1>5, <2>1, <2>2, Zenon DEF RecordOK
<1> QED
  BY <1>4, <1>5, Zenon

\* acknowledgeOn() leaves no copy of a message that is acknowledged now.
LEMMA AcknowledgeCopies ==
  ASSUME TopicInv, NEW n \in Names, NEW c \in Copies, Acknowledge(n, c),
         NEW x \in Names, NEW k \in Copies
  PROVE  CopyOK(x, k)'
<1>1. NumbersOK /\ MemoryType /\ DiskType /\ CopyOK(x, k) /\ k[1] \in Messages
  BY Numbers, TypeParts, CopyParts, Zenon DEF TopicInv, DataOK
<1>2. Total(x, k) \in Nat /\ Total(x, k)' = Total(x, k) - (IF x = n /\ k = c THEN 1 ELSE 0)
  <2>1. Total(x, k)' = Total(x, k) - (IF x = n /\ k = c THEN 1 ELSE 0)
    BY <1>1, AcknowledgeMemory
  <2>2. Total(x, k) \in Nat
    BY <1>1, Zenon DEF NumbersOK
  <2> QED
    BY <2>1, <2>2, Zenon
<1>3. UNCHANGED <<restarts, sent, since, held, consumers>>
  BY AcknowledgeHistory, Zenon
<1>4. ASSUME x \in Durable
      PROVE  /\ Stored(x, k[1]) \in Nat
             /\ Stored(x, k[1])' = Stored(x, k[1]) -
                  (IF x = n /\ k[1] = c[1] /\ c[2] /\ n \in consumers THEN 1 ELSE 0)
  <2>1. /\ storage[x][k[1]] \in Nat /\ removes[x][k[1]] \in Nat /\ storage'[x][k[1]] = storage[x][k[1]]
        /\ removes'[x][k[1]] = removes[x][k[1]] +
                  (IF x = n /\ k[1] = c[1] /\ c[2] /\ n \in consumers THEN 1 ELSE 0)
    BY <1>1, <1>4, AcknowledgeDisk, ZenonT(30) DEF NumbersOK
  <2>2. Stored(x, k[1]) \in Nat
    BY <1>1, <1>4, Zenon DEF NumbersOK
  <2> QED
    BY <2>1, <2>2 DEF Stored
<1>5. CASE ~(x = n /\ k[1] = c[1])
  <2>1. Total(x, k)' = Total(x, k) /\ (x \in Durable => Stored(x, k[1])' = Stored(x, k[1]))
    BY <1>2, <1>4, <1>5
  <2>2. k[1] \in acked'[x] => k[1] \in acked[x]
    BY SMTT(30), <1>1, <1>5, AcknowledgeHistory
  <2> QED
    BY <1>1, <1>3, <2>1, <2>2, Zenon DEF CopyOK
<1>6. CASE x = n /\ k[1] = c[1]
  <2>1. k[1] \notin Transacted => Total(x, k)' = 0
    BY <1>6, AcknowledgeOnly, Zenon
  <2>2. Total(x, k)' \in Nat /\ Total(x, k)' <= Total(x, k)
    <3>1. Total(n, c) > 0
      BY <1>1, AcknowledgeMemory, Zenon
    <3> QED
      BY <1>2, <1>6, <3>1
  <2>3. n \in consumers /\ n \in Durable /\ k[2] => Total(x, k)' <= Stored(x, k[1])'
    <3>1. k[2] /\ c[2] => k = c
      BY <1>6, CopyParts, Zenon
    <3> QED
      BY <1>1, <1>2, <1>4, <1>6, <3>1 DEF CopyOK
  <2> QED
    BY <1>1, <1>2, <1>3, <1>6, <2>1, <2>2, <2>3 DEF CopyOK
<1> QED
  BY <1>5, <1>6, Zenon

\* acknowledgeOn() keeps the invariant.
LEMMA AcknowledgeStep ==
  ASSUME TopicInv, NEW n \in Names, NEW c \in Copies, Acknowledge(n, c)
  PROVE  TopicInv'
<1>1. MemoryType /\ DiskType
  BY TypeParts, Zenon DEF TopicInv
<1>2. RemovesOK'
  BY AcknowledgeRecords, Zenon DEF RemovesOK
<1> QED
  BY <1>1, <1>2, AcknowledgeRecords, AcknowledgeCopies, AcknowledgeMemory, AcknowledgeDisk,
     AcknowledgeHistory, Assemble, Zenon

-----------------------------------------------------------------------------
(* The inductive invariant, and what it implies.                           *)

\* There is nothing at the beginning.
LEMMA InitInv ==
  ASSUME Init
  PROVE  TopicInv
<1>1. RestType
  <2>1. 0 \in 0..MaxRestarts /\ 0 \in Nat
    BY DurableTopicAssumption
  <2> QED
    BY <2>1, Zenon DEF Init, RestType, Empty, Names
<1>2. MemoryType
  BY DEF Init, MemoryType, None
<1>3. DiskType
  BY DEF Init, DiskType, Empty
<1>4. ASSUME NEW d \in Durable, NEW m \in Messages
      PROVE  /\ storage[d][m] = 0 /\ removes[d][m] = 0 /\ Stored(d, m) = 0
             /\ d \in Names /\ owed[d] = {} /\ acked[d] = {}
  BY DEF Init, Empty, Stored, Names
<1>5. ASSUME NEW n \in Names, NEW c \in Copies
      PROVE  Total(n, c) = 0
  BY DEF Init, None, Total
<1>6. RemovesOK
  BY <1>4 DEF RemovesOK
<1>7. FrameOK
  <2>1. OnlineAgrees /\ RegistryOK /\ AckedSent
    BY Zenon DEF Init, OnlineAgrees, RegistryOK, AckedSent
  <2>2. StagedOK
    BY DEF Init, StagedOK, Empty
  <2> QED
    BY <2>1, <2>2, Zenon DEF FrameOK
<1>8. ASSUME NEW n \in Names, NEW c \in Copies
      PROVE  CopyOK(n, c)
  <2>1. Total(n, c) = 0 /\ n \notin consumers
    BY <1>5, Zenon DEF Init
  <2> QED
    BY <2>1 DEF CopyOK
<1>9. ASSUME NEW d \in Durable, NEW m \in Messages
      PROVE  RecordOK(d, m)
  BY <1>4 DEF RecordOK
<1> QED
  BY <1>1, <1>2, <1>3, <1>6, <1>7, <1>8, <1>9, TypeParts, Zenon DEF TopicInv, DataOK

\* The copies of a message: those that know a record and those that do not.
LEMMA CopiedParts ==
  ASSUME TopicInv, NEW n \in Names, NEW m \in Messages
  PROVE  /\ Copied(n, m) = Total(n, <<m, TRUE>>) + Total(n, <<m, FALSE>>)
         /\ Total(n, <<m, TRUE>>) \in Nat /\ Total(n, <<m, FALSE>>) \in Nat
         /\ <<m, TRUE>> \in Copies /\ <<m, FALSE>> \in Copies
         /\ <<m, TRUE>>[1] = m /\ <<m, FALSE>>[1] = m
         /\ CopyOK(n, <<m, TRUE>>) /\ CopyOK(n, <<m, FALSE>>)
<1>1. /\ <<m, TRUE>> \in Copies /\ <<m, FALSE>> \in Copies
      /\ <<m, TRUE>>[1] = m /\ <<m, FALSE>>[1] = m
  BY CopyParts, Zenon
<1>2. MemoryType /\ CopyOK(n, <<m, TRUE>>) /\ CopyOK(n, <<m, FALSE>>)
  BY <1>1, TypeParts, Zenon DEF TopicInv, DataOK
<1>3. /\ queue[n][<<m, TRUE>>] \in Nat /\ queue[n][<<m, FALSE>>] \in Nat
      /\ inFlight[n][<<m, TRUE>>] \in Nat /\ inFlight[n][<<m, FALSE>>] \in Nat
  BY <1>1, <1>2, Zenon DEF MemoryType
<1>4. /\ Copied(n, m) = Total(n, <<m, TRUE>>) + Total(n, <<m, FALSE>>)
      /\ Total(n, <<m, TRUE>>) \in Nat /\ Total(n, <<m, FALSE>>) \in Nat
  BY <1>3 DEF Copied, Total
<1> QED
  BY <1>1, <1>2, <1>4, Zenon

\* What the invariant says of each property.
LEMMA InvImplies ==
  ASSUME TopicInv
  PROVE  OwedStored /\ OwnCopy /\ AckedStaysAway /\ OnlySinceSubscribed
<1>1. RestType /\ NumbersOK
  BY TypeParts, Numbers, Zenon DEF TopicInv
<1>2. ASSUME NEW d \in Durable, NEW m \in owed[d] \ Transacted
      PROVE  storage[d][m] > removes[d][m]
  <2>1. m \in Messages /\ m \in owed[d] /\ m \notin Transacted
    BY <1>1, Zenon DEF RestType
  <2>2. storage[d][m] \in Nat /\ removes[d][m] \in Nat /\ RecordOK(d, m)
    BY <1>1, <2>1, Zenon DEF NumbersOK, TopicInv, DataOK
  <2> QED
    BY <2>1, <2>2 DEF RecordOK, Stored
<1>3. ASSUME NEW n \in Names, NEW m \in Messages \ Transacted
      PROVE  Copied(n, m) <= 1
  <2>1. m \in Messages /\ m \notin Transacted
    BY Zenon
  <2>2. /\ Total(n, <<m, TRUE>>) \in Nat /\ Total(n, <<m, TRUE>>) <= 1
        /\ Total(n, <<m, TRUE>>) > 0 => n \in Durable /\ m \in Persistent
    BY <2>1, CopiedParts, CopyParts, Zenon DEF CopyOK
  <2>3. /\ Total(n, <<m, FALSE>>) \in Nat /\ Total(n, <<m, FALSE>>) <= 1
        /\ Total(n, <<m, FALSE>>) > 0 => ~(n \in Durable /\ m \in Persistent)
    BY <2>1, CopiedParts, CopyParts, Zenon DEF CopyOK
  <2>4. Copied(n, m) = Total(n, <<m, TRUE>>) + Total(n, <<m, FALSE>>)
    BY <2>1, CopiedParts, Zenon
  <2> QED
    BY <2>2, <2>3, <2>4
<1>4. ASSUME restarts = 0, NEW n \in consumers, NEW m \in Messages, Copied(n, m) > 0
      PROVE  m \in since[n] /\ (m \in Transacted \/ m \notin acked[n])
  <2>1. n \in Names
    BY <1>1, Zenon DEF RestType
  <2>2. Total(n, <<m, TRUE>>) > 0 \/ Total(n, <<m, FALSE>>) > 0
    <3>1. /\ Copied(n, m) = Total(n, <<m, TRUE>>) + Total(n, <<m, FALSE>>)
          /\ Total(n, <<m, TRUE>>) \in Nat /\ Total(n, <<m, FALSE>>) \in Nat
      BY <2>1, CopiedParts, Zenon
    <3> QED
      BY <1>4, <3>1
  <2>3. CASE Total(n, <<m, TRUE>>) > 0
    BY <1>4, <2>1, <2>3, CopiedParts, Zenon DEF CopyOK
  <2>4. CASE Total(n, <<m, FALSE>>) > 0
    BY <1>4, <2>1, <2>4, CopiedParts, Zenon DEF CopyOK
  <2> QED
    BY <2>2, <2>3, <2>4, Zenon
<1>5. ASSUME restarts = 0, NEW n \in consumers, NEW m \in acked[n] \ Transacted
      PROVE  Copied(n, m) = 0
  <2>1. n \in Names /\ m \in Messages /\ m \in acked[n] /\ m \notin Transacted
    BY <1>1, Zenon DEF RestType
  <2>2. Copied(n, m) \in Nat
    <3>1. /\ Copied(n, m) = Total(n, <<m, TRUE>>) + Total(n, <<m, FALSE>>)
          /\ Total(n, <<m, TRUE>>) \in Nat /\ Total(n, <<m, FALSE>>) \in Nat
      BY <2>1, CopiedParts, Zenon
    <3> QED
      BY <3>1
  <2>3. ~(Copied(n, m) > 0)
    BY <1>4, <1>5, <2>1, Zenon
  <2> QED
    BY <2>2, <2>3
<1> QED
  BY <1>2, <1>3, <1>4, <1>5, Zenon DEF OwedStored, OwnCopy, AckedStaysAway, OnlySinceSubscribed

INSTANCE FiniteSetTheorems

\* The broker has finitely many consumers at any time.
FiniteOK == IsFiniteSet(consumers)

\* A consumer joins at a time, so they stay finitely many.
LEMMA FiniteStep ==
  ASSUME FiniteOK, [Next]_vars
  PROVE  FiniteOK'
<1>1. \/ UNCHANGED consumers \/ consumers' \subseteq consumers
      \/ \E n \in Names : consumers' = consumers \cup {n}
  <2>1. CASE UNCHANGED vars
    BY <2>1, Zenon DEF vars, registry
  <2>2. ASSUME NEW sel \in Selectors, NEW n \in Plain, SubscribePlain(n, sel)
        PROVE  \E x \in Names : consumers' = consumers \cup {x}
    BY <2>2, Zenon DEF SubscribePlain, Names
  <2>3. ASSUME NEW sel \in Selectors, NEW d \in Durable, SubscribeDurable(d, sel)
        PROVE  \E x \in Names : consumers' = consumers \cup {x}
    BY <2>3, Zenon DEF SubscribeDurable, Names
  <2>4. ASSUME NEW n \in Names, Close(n)
        PROVE  consumers' \subseteq consumers
    BY <2>4, Zenon DEF Close
  <2>5. ASSUME NEW d \in Durable, Unsubscribe(d)
        PROVE  consumers' \subseteq consumers
    BY <2>5, Zenon DEF Unsubscribe
  <2>6. ASSUME Restart
        PROVE  consumers' \subseteq consumers
    BY <2>6, Zenon DEF Restart
  <2>7. ASSUME NEW n \in Names, NEW c \in Copies, Receive(n, c) \/ Acknowledge(n, c)
        PROVE  UNCHANGED consumers
    BY <2>7, Zenon DEF Receive, Acknowledge, registry
  <2>8. ASSUME NEW d \in Durable, NEW m \in Messages, ExecuteRemove(d, m)
        PROVE  UNCHANGED consumers
    BY <2>8, Zenon DEF ExecuteRemove, registry
  <2>9. ASSUME NEW m \in Messages, Publish(m) \/ SendTransacted(m)
        PROVE  UNCHANGED consumers
    BY <2>9, Zenon DEF Publish, SendTransacted, registry
  <2>10. ASSUME Commit \/ Rollback
         PROVE  UNCHANGED consumers
    BY <2>10, Zenon DEF Commit, Rollback, registry
  <2> QED
    BY <2>1, <2>2, <2>3, <2>4, <2>5, <2>6, <2>7, <2>8, <2>9, <2>10, ZenonT(30) DEF Next
<1>2. CASE UNCHANGED consumers
  BY <1>2, Zenon DEF FiniteOK
<1>3. CASE consumers' \subseteq consumers
  BY <1>3, FS_Subset, Zenon DEF FiniteOK
<1>4. ASSUME NEW n \in Names, consumers' = consumers \cup {n}
      PROVE  FiniteOK'
  BY <1>4, FS_AddElement, Zenon DEF FiniteOK
<1> QED
  BY <1>1, <1>2, <1>3, <1>4, ZenonT(30)

\* Every step of the topic keeps the invariant.
LEMMA NextInv ==
  ASSUME FiniteOK, TopicInv, [Next]_vars
  PROVE  TopicInv'
<1>1. CASE UNCHANGED vars
  BY <1>1, StutterStep, Zenon
<1>2. ASSUME NEW sel \in Selectors, NEW n \in Plain, SubscribePlain(n, sel)
      PROVE  TopicInv'
  BY <1>2, SubscribePlainStep, Zenon
<1>3. ASSUME NEW sel \in Selectors, NEW d \in Durable, SubscribeDurable(d, sel)
      PROVE  TopicInv'
  BY <1>3, SubscribeDurableStep, Zenon
<1>4. ASSUME NEW n \in Names, Close(n)
      PROVE  TopicInv'
  BY <1>4, CloseStep, Zenon
<1>5. ASSUME NEW n \in Names, NEW c \in Copies, Receive(n, c) \/ Acknowledge(n, c)
      PROVE  TopicInv'
  BY <1>5, ReceiveStep, AcknowledgeStep, Zenon
<1>6. ASSUME NEW d \in Durable, Unsubscribe(d)
      PROVE  TopicInv'
  BY <1>6, UnsubscribeStep, Zenon
<1>7. ASSUME NEW d \in Durable, NEW m \in Messages, ExecuteRemove(d, m)
      PROVE  TopicInv'
  BY <1>7, ExecuteRemoveStep, Zenon
<1>8. ASSUME NEW m \in Messages, Publish(m)
      PROVE  TopicInv'
  BY <1>8, PublishStep, Zenon
<1>9. ASSUME NEW m \in Messages, SendTransacted(m)
      PROVE  TopicInv'
  <2>1. Pushed(m) \in SUBSET consumers
    BY Zenon DEF Pushed
  <2>2. Cardinality(Pushed(m)) \in Nat
    BY <2>1, FS_Subset, FS_CardinalityType, ZenonT(30) DEF FiniteOK
  <2> QED
    BY <1>9, <2>2, SendTransactedStep, Zenon
<1>10. ASSUME Commit \/ Rollback \/ Restart
       PROVE  TopicInv'
  BY <1>10, CommitStep, RollbackStep, RestartStep, Zenon
<1> QED
  BY <1>1, <1>2, <1>3, <1>4, <1>5, <1>6, <1>7, <1>8, <1>9, <1>10, ZenonT(30) DEF Next

\* Of every behaviour of the topic: the invariant holds in every state.
THEOREM TopicInvariant == Spec => [](FiniteOK /\ TopicInv)
<1>1. Init => FiniteOK /\ TopicInv
  BY InitInv, FS_EmptySet, Zenon DEF Init, FiniteOK
<1>2. FiniteOK /\ TopicInv /\ [Next]_vars => (FiniteOK /\ TopicInv)'
  BY FiniteStep, NextInv, Zenon
<1> QED
  BY <1>1, <1>2, PTL DEF Spec

\* A subscription is marked active exactly while its consumer is attached, through
\* closing, unsubscribing and restarts (Destination::_durableSubs, _consumers).
THEOREM OnlineAgreesAlways == Spec => []OnlineAgrees
<1>1. TopicInv => OnlineAgrees
  BY Zenon DEF TopicInv, FrameOK
<1> QED
  BY <1>1, TopicInvariant, PTL

\* What was published for a registered subscription outside a transaction is in its
\* storage, with no remove asked for, until it is acknowledged (Destination::save()).
THEOREM OwedStoredAlways == Spec => []OwedStored
  BY InvImplies, TopicInvariant, PTL

\* A subscriber never has two copies of a message published outside a transaction,
\* of those replayed and those pushed together (createDurableConsumer(), push()).
THEOREM OneCopyEach == Spec => []OwnCopy
  BY InvImplies, TopicInvariant, PTL

\* Until a restart what a subscriber acknowledged is not in its queue or its in-flight
\* list again (Consumer::acknowledgeOn(), the replay of createDurableConsumer()).
THEOREM NoReplayOfAcked == Spec => []AckedStaysAway
  BY InvImplies, TopicInvariant, PTL

\* Until a restart a subscriber has copies only of what was published since it
\* subscribed: nothing older, nothing rolled back (save(), deliverCommitted()).
THEOREM OnlyWhatIsNew == Spec => []OnlySinceSubscribed
  BY InvImplies, TopicInvariant, PTL
=============================================================================
