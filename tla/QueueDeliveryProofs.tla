------------------------ MODULE QueueDeliveryProofs ------------------------
(***************************************************************************)
(* Proofs about QueueDelivery: its type invariant; that no accepted        *)
(* message is lost, for a storage whose operations do not throw and        *)
(* sessions that acknowledge what they received themselves; that no copy   *)
(* in memory vanishes; and that what a session acknowledged is not         *)
(* replayed to it.                                                         *)
(***************************************************************************)
EXTENDS QueueDelivery, TLAPS

CopiesOK == copies \in [Places -> [Copies -> Nat]]

\* Taking a copy out of a place that has it keeps the counts natural numbers.
LEMMA TakeType ==
  ASSUME CopiesOK, NEW p \in Places, NEW x \in In(p)
  PROVE  Take(x, p) \in [Places -> [Copies -> Nat]]
<1>1. x \in Copies /\ copies[p][x] \in Nat /\ copies[p][x] > 0
  BY Zenon DEF In, CopiesOK
<1>2. [copies[p] EXCEPT ![x] = @ - 1] \in [Copies -> Nat]
  BY <1>1 DEF CopiesOK
<1> QED
  BY <1>2, Zenon DEF Take, CopiesOK

\* Putting a copy somewhere keeps the counts of copies numbers.
LEMMA PutType ==
  ASSUME CopiesOK, NEW p \in Places, NEW x \in Copies
  PROVE  Put(x, p) \in [Places -> [Copies -> Nat]]
<1>1. [copies[p] EXCEPT ![x] = @ + 1] \in [Copies -> Nat]
  BY DEF CopiesOK
<1> QED
  BY <1>1, Zenon DEF Put, CopiesOK

\* A move between two places is a take followed by a put.
LEMMA ShiftType ==
  ASSUME CopiesOK, NEW p \in Places, NEW x \in In(p), NEW q \in Places, NEW y \in Copies
  PROVE  Shift(x, p, y, q) \in [Places -> [Copies -> Nat]]
<1> DEFINE taken == Take(x, p)
<1>1. taken \in [Places -> [Copies -> Nat]]
  BY TakeType, Zenon
<1>2. [taken[q] EXCEPT ![y] = @ + 1] \in [Copies -> Nat]
  BY <1>1
<1>3. [taken EXCEPT ![q] = [taken[q] EXCEPT ![y] = @ + 1]] \in [Places -> [Copies -> Nat]]
  BY <1>1, <1>2, Zenon
<1>4. Shift(x, p, y, q) = [taken EXCEPT ![q][y] = @ + 1]
  BY Zenon DEF Shift
<1> HIDE DEF taken
<1> QED
  BY <1>3, <1>4, Zenon

\* Batching an acknowledgement adds its message to the batch and nothing else.
LEMMA AppendToSet ==
  ASSUME NEW S, NEW q \in Seq(S), NEW m
  PROVE  ToSet(Append(q, m)) = ToSet(q) \cup {m}
<1> DEFINE a == Append(q, m)
<1>1. /\ DOMAIN q = 1..Len(q) /\ Len(q) \in Nat
      /\ DOMAIN a = 1..(Len(q) + 1)
      /\ \A i \in 1..Len(q) : a[i] = q[i]
      /\ a[Len(q) + 1] = m
  OBVIOUS
<1>2. 1..(Len(q) + 1) = (1..Len(q)) \cup {Len(q) + 1}
  BY <1>1
<1>3. ToSet(a) = {a[i] : i \in DOMAIN a} /\ ToSet(q) = {q[i] : i \in DOMAIN q}
  BY Zenon DEF ToSet
<1> HIDE DEF a
<1>4. {a[i] : i \in DOMAIN a} = {q[i] : i \in DOMAIN q} \cup {m}
  BY <1>1, <1>2
<1> QED
  BY ZenonT(30), <1>3, <1>4 DEF a

\* What AcknowledgeRecord() does to the removes and to the batch.
LEMMA AcknowledgeRecordType ==
  ASSUME removes \in [Sessions -> SUBSET Persistent],
         pendingAcks \in [Sessions -> Seq(Persistent)],
         NEW s \in Sessions, NEW m \in Messages, AcknowledgeRecord(s, m)
  PROVE  /\ removes' \in [Sessions -> SUBSET Persistent]
         /\ pendingAcks' \in [Sessions -> Seq(Persistent)]
         /\ \A o \in Sessions :
               /\ removes'[o] \subseteq removes[o] \cup ToSet(pendingAcks[o]) \cup {m}
               /\ ToSet(pendingAcks'[o]) \subseteq ToSet(pendingAcks[o]) \cup {m}
<1> DEFINE batch == Append(pendingAcks[s], m)
<1>1. pendingAcks[s] \in Seq(Persistent)
  BY Zenon
<1>2. ToSet(batch) = ToSet(pendingAcks[s]) \cup {m}
  BY <1>1, AppendToSet, Zenon
<1>3. ToSet(<<>>) = {}
  BY DEF ToSet
<1>4. CASE Mode[s] # "DUPS_OK" \/ m \notin Persistent
  <2>1. /\ removes' = [removes EXCEPT ![s] = @ \cup ({m} \cap Persistent)]
        /\ pendingAcks' = pendingAcks
    BY <1>4, Zenon DEF AcknowledgeRecord, RemoveAsync
  <2> QED
    BY <2>1, Zenon
<1>5. CASE Mode[s] = "DUPS_OK" /\ m \in Persistent /\ Len(batch) >= DupsOkBatch
  <2>1. /\ removes' = [removes EXCEPT ![s] = @ \cup (ToSet(batch) \cap Persistent)]
        /\ pendingAcks' = [pendingAcks EXCEPT ![s] = <<>>]
    BY <1>5, Zenon DEF AcknowledgeRecord, RemoveAsync
  <2> HIDE DEF batch
  <2> QED
    BY <2>1, <1>2, <1>3
<1>6. CASE Mode[s] = "DUPS_OK" /\ m \in Persistent /\ ~(Len(batch) >= DupsOkBatch)
  <2>1. /\ removes' = removes
        /\ pendingAcks' = [pendingAcks EXCEPT ![s] = batch]
    BY <1>6, Zenon DEF AcknowledgeRecord, RemoveAsync
  <2>2. batch \in Seq(Persistent)
    BY <1>1, <1>6
  <2> HIDE DEF batch
  <2> QED
    BY <2>1, <2>2, <1>2, Zenon
<1> QED
  BY <1>4, <1>5, <1>6, Zenon

-----------------------------------------------------------------------------
(* The type invariant.                                                     *)

\* The places and copies the actions name are places and copies.
LEMMA PlacesAndCopies ==
  /\ "sending" \in Places /\ "queue" \in Places /\ "scheduled" \in Places
  /\ Sessions \subseteq Places
  /\ \A x \in Copies : x[1] \in Messages /\ x[2] \in 0..MaxCount
  /\ \A m \in Messages : <<m, 0>> \in Copies
  /\ \A m \in Messages, n \in 0..MaxCount : <<m, n>> \in Copies
BY QueueDeliveryAssumption DEF Places, Copies

\* Removing records asynchronously keeps the type of removes.
LEMMA RemoveAsyncType ==
  ASSUME removes \in [Sessions -> SUBSET Persistent], NEW s \in Sessions, NEW ms,
         RemoveAsync(s, ms)
  PROVE  /\ removes' \in [Sessions -> SUBSET Persistent]
         /\ \A o \in Sessions : removes'[o] \subseteq removes[o] \cup (ms \cap Persistent)
BY Zenon DEF RemoveAsync

\* The batch of a session that flushes its acknowledgements becomes empty.
LEMMA FlushedBatch ==
  ASSUME pendingAcks \in [Sessions -> Seq(Persistent)], NEW s \in Sessions,
         pendingAcks' = [pendingAcks EXCEPT ![s] = <<>>]
  PROVE  /\ pendingAcks' \in [Sessions -> Seq(Persistent)]
         /\ \A o \in Sessions : ToSet(pendingAcks'[o]) \subseteq ToSet(pendingAcks[o])
<1>1. ToSet(<<>>) = {}
  BY DEF ToSet
<1>2. <<>> \in Seq(Persistent)
  OBVIOUS
<1> QED
  BY <1>1, <1>2, Zenon

\* Counting an event keeps the counters numbers.
LEMMA CountType ==
  ASSUME bounds \in [Counters -> Nat], NEW c \in Counters, Count(c)
  PROVE  bounds' \in [Counters -> Nat]
BY DEF Count

\* A new broker satisfies the type invariant.
LEMMA InitType == Init => TypeOK
<1> SUFFICES ASSUME Init PROVE TypeOK
  BY Zenon
<1>1. copies \in [Places -> [Copies -> Nat]]
  BY Zenon DEF Init, NoCopies
<1>2. pendingAcks \in [Sessions -> Seq(Persistent)]
  BY DEF Init
<1> QED
  BY ZenonT(30), <1>1, <1>2 DEF Init, TypeOK

\* Every step of a session, a background thread or a crash keeps the types.
LEMMA NextType == TypeOK /\ [Next]_vars => TypeOK'
<1> SUFFICES ASSUME TypeOK, [Next]_vars PROVE TypeOK'
  BY Zenon
<1>0. CopiesOK /\ removes \in [Sessions -> SUBSET Persistent]
      /\ pendingAcks \in [Sessions -> Seq(Persistent)]
  BY Zenon DEF TypeOK, CopiesOK
<1>0a. bounds \in [Counters -> Nat]
  BY Zenon DEF TypeOK
<1>1. CASE CreateDestination
  <2>1. bounds' \in [Counters -> Nat]
    BY <1>0a, <1>1, CountType, Zenon DEF CreateDestination, Counters
  <2> QED
    BY <1>1, <2>1 DEF CreateDestination, TypeOK, disk, history
<1>2. ASSUME NEW s \in Sessions, CreateConsumer(s) PROVE TypeOK'
  <2>1. bounds' \in [Counters -> Nat]
    BY <1>0a, <1>2, CountType, Zenon DEF CreateConsumer, Counters
  <2>2. defaults' \in Nat /\ hasDefault' = FALSE
    BY <1>2 DEF CreateConsumer, TypeOK
  <2>3. pc' \in [Sessions -> {"idle", "create", "recover", "rollback", "commit", "close", "delete"}]
    BY <1>2, Zenon DEF CreateConsumer, TypeOK
  <2> QED
    BY ZenonT(30), <1>2, <2>1, <2>2, <2>3 DEF CreateConsumer, TypeOK, disk, history
<1>3. ASSUME NEW s \in Sessions, ReplayStoredMessages(s) PROVE TypeOK'
  <2> DEFINE replayed == [x \in Copies |->
                 IF x[1] \in Live(s) /\ x[2] = 0 THEN copies["queue"][x] + 1 ELSE copies["queue"][x]]
  <2>1. copies' = [copies EXCEPT !["queue"] = replayed]
    BY <1>3, Zenon DEF ReplayStoredMessages
  <2>2. replayed \in [Copies -> Nat]
    BY <1>0, PlacesAndCopies DEF CopiesOK
  <2> HIDE DEF replayed
  <2>3. copies' \in [Places -> [Copies -> Nat]]
    BY ZenonT(30), <1>0, <2>1, <2>2 DEF CopiesOK
  <2>4. born' \in [Messages -> Nat]
    BY <1>3 DEF ReplayStoredMessages, TypeOK
  <2> QED
    BY SMTT(30), <1>3, <2>3, <2>4 DEF ReplayStoredMessages, TypeOK
<1>4. ASSUME NEW m \in Messages, SendNowhere(m) PROVE TypeOK'
  BY <1>4, Zenon DEF SendNowhere, TypeOK, disk, routes
<1>5. ASSUME NEW m \in Messages, SendPrepare(m) PROVE TypeOK'
  <2>1. copies' \in [Places -> [Copies -> Nat]]
    BY SMTT(30), <1>0, <1>5, PutType, PlacesAndCopies DEF SendPrepare
  <2>2. bounds' \in [Counters -> Nat]
    BY <1>5 DEF SendPrepare, Count, TypeOK, Counters
  <2>3. store' \in SUBSET Persistent /\ accepted' \in SUBSET Persistent
    BY <1>5, Zenon DEF SendPrepare, TypeOK
  <2>4. born' \in [Messages -> Nat] /\ sent' \in SUBSET Messages
    BY <1>5 DEF SendPrepare, TypeOK
  <2> QED
    BY ZenonT(30), <1>5, <2>1, <2>2, <2>3, <2>4 DEF SendPrepare, TypeOK, routes
<1>6. ASSUME NEW m \in Messages, SendEnqueue(m) PROVE TypeOK'
  <2>1. copies' \in [Places -> [Copies -> Nat]]
    BY ZenonT(30), <1>0, <1>6, ShiftType, PlacesAndCopies DEF SendEnqueue
  <2> QED
    BY ZenonT(30), <1>6, <2>1 DEF SendEnqueue, TypeOK, disk, routes, history
<1>7. ASSUME NEW s \in Sessions, NEW x \in Copies, RecvExpired(s, x) PROVE TypeOK'
  <2>1. copies' \in [Places -> [Copies -> Nat]]
    BY SMTT(30), <1>0, <1>7, TakeType, PlacesAndCopies DEF RecvExpired
  <2>2. removes' \in [Sessions -> SUBSET Persistent]
    BY SMTT(30), <1>0, <1>7, RemoveAsyncType DEF RecvExpired
  <2> QED
    BY ZenonT(30), <1>7, <2>1, <2>2, PlacesAndCopies DEF RecvExpired, TypeOK, disk, routes
<1>8. ASSUME NEW s \in Sessions, NEW x \in Copies, Recv(s, x) PROVE TypeOK'
  <2>1. copies' \in [Places -> [Copies -> Nat]]
    <3>1. "queue" \in Places /\ s \in Places /\ x \in In("queue")
      BY <1>8, PlacesAndCopies, Zenon DEF Recv
    <3>2. CASE Mode[s] = "AUTO"
      BY SMTT(30), <1>0, <1>8, <3>1, <3>2, TakeType DEF Recv
    <3>3. CASE Mode[s] # "AUTO"
      BY SMTT(30), <1>0, <1>8, <3>1, <3>3, ShiftType DEF Recv
    <3> QED
      BY <3>2, <3>3, Zenon
  <2>2. settled' \in SUBSET Messages
    BY <1>8, PlacesAndCopies DEF Recv, TypeOK
  <2>3. deliveries' \in [Messages -> Nat]
    BY <1>8, PlacesAndCopies DEF Recv, TypeOK
  <2> QED
    BY SMTT(30), <1>8, <2>1, <2>2, <2>3 DEF Recv, TypeOK, disk, routes
<1>9. ASSUME NEW s \in Sessions, NEW x \in Copies, Acknowledge(s, x) PROVE TypeOK'
  <2>1. copies' \in [Places -> [Copies -> Nat]]
    BY <1>0, <1>9, TakeType, PlacesAndCopies, Zenon DEF Acknowledge
  <2>2. /\ removes' \in [Sessions -> SUBSET Persistent]
        /\ pendingAcks' \in [Sessions -> Seq(Persistent)]
    BY SMTT(30), <1>0, <1>9, AcknowledgeRecordType, PlacesAndCopies DEF Acknowledge
  <2> QED
    BY ZenonT(30), <1>9, <2>1, <2>2, PlacesAndCopies DEF Acknowledge, TypeOK, disk, routes
<1>10. ASSUME NEW s \in Sessions, NEW o \in Sessions, NEW x \in Copies,
              AcknowledgeForeign(s, o, x)
       PROVE TypeOK'
  <2>1. /\ removes' \in [Sessions -> SUBSET Persistent]
        /\ pendingAcks' \in [Sessions -> Seq(Persistent)]
    BY <1>0, <1>10, AcknowledgeRecordType, PlacesAndCopies, Zenon DEF AcknowledgeForeign
  <2>2. bounds' \in [Counters -> Nat]
    BY <1>0, <1>10 DEF AcknowledgeForeign, Count, TypeOK, Counters
  <2>3. UNCHANGED <<disk, copies, dlqQueue, routes, pc, expired, history>>
    BY <1>10, Zenon DEF AcknowledgeForeign
  <2> QED
    BY SMTT(30), <1>0, <2>1, <2>2, <2>3 DEF TypeOK, disk, routes, history
<1>11. ASSUME NEW s \in Sessions, RecoverBegin(s) \/ RollbackBegin(s) \/ CommitBegin(s)
       PROVE TypeOK'
  <2>1. PICK what \in {"recover", "rollback", "commit"} :
          Begin(s, what) /\ UNCHANGED <<removes, consumers, pendingAcks, bounds>>
    BY <1>11, Zenon DEF RecoverBegin, RollbackBegin, CommitBegin
  <2>2. pc' \in [Sessions -> {"idle", "create", "recover", "rollback", "commit", "close", "delete"}]
    BY <2>1, Zenon DEF Begin, TypeOK
  <2> QED
    BY <2>1, <2>2, Zenon DEF Begin, TypeOK, disk, history
<1>12. ASSUME NEW s \in Sessions, CloseSession(s) PROVE TypeOK'
  BY <1>12 DEF CloseSession, Begin, Count, TypeOK, disk, history, Counters
<1>13. ASSUME NEW s \in Sessions, DeleteConsumer(s) PROVE TypeOK'
  <2>1. removes' \in [Sessions -> SUBSET Persistent]
    BY <1>0, <1>13, RemoveAsyncType, Zenon DEF DeleteConsumer
  <2>2. pendingAcks' \in [Sessions -> Seq(Persistent)]
    BY <1>0, <1>13, FlushedBatch, Zenon DEF DeleteConsumer
  <2> QED
    BY <1>13, <2>1, <2>2 DEF DeleteConsumer, Begin, Count, TypeOK, disk, history, Counters
<1>14. ASSUME NEW s \in Sessions, NEW x \in Copies, Requeue(s, x) PROVE TypeOK'
  <2>1. <<x[1], x[2] + 1>> \in Copies
    <3>1. x[2] \in 0..MaxCount /\ x[2] < MaxCount /\ MaxCount \in Nat /\ x[1] \in Messages
      BY <1>14, PlacesAndCopies, QueueDeliveryAssumption, Zenon DEF Requeue
    <3>2. x[2] + 1 \in 0..MaxCount
      BY <3>1
    <3> QED
      BY <3>1, <3>2, PlacesAndCopies, Zenon
  <2>2. copies' \in [Places -> [Copies -> Nat]]
    <3> DEFINE to == IF Backoff /\ pc[s] # "close" THEN "scheduled" ELSE "queue"
    <3>1. to \in Places /\ s \in Places /\ x \in In(s)
      BY <1>14, PlacesAndCopies, Zenon DEF Requeue
    <3>2. copies' = Shift(x, s, <<x[1], x[2] + 1>>, to)
      BY <1>14, Zenon DEF Requeue
    <3> HIDE DEF to
    <3> QED
      BY ZenonT(30), <1>0, <2>1, <3>1, <3>2, ShiftType
  <2> QED
    BY ZenonT(30), <1>14, <2>2 DEF Requeue, TypeOK, disk, routes, history
<1>15. ASSUME NEW s \in Sessions, NEW x \in Copies, DeadLetter(s, x) PROVE TypeOK'
  <2>1. copies' \in [Places -> [Copies -> Nat]]
    BY SMTT(30), <1>0, <1>15, TakeType, PlacesAndCopies DEF DeadLetter
  <2>2. removes' \in [Sessions -> SUBSET Persistent]
    BY SMTT(30), <1>0, <1>15, RemoveAsyncType DEF DeadLetter
  <2>3. dlqStore' \in SUBSET Persistent /\ bounds' \in [Counters -> Nat]
    BY <1>15 DEF DeadLetter, Count, TypeOK, Counters
  <2>4. dlqQueue' \in SUBSET Messages /\ settled' \in SUBSET Messages
    BY SMTT(30), <1>15, PlacesAndCopies DEF DeadLetter, TypeOK
  <2> QED
    BY SMTT(30), <1>15, <2>1, <2>2, <2>3, <2>4 DEF DeadLetter, TypeOK, routes
<1>16. ASSUME NEW s \in Sessions, NEW x \in Copies, CommitOne(s, x) PROVE TypeOK'
  <2>1. copies' \in [Places -> [Copies -> Nat]]
    BY SMTT(30), <1>0, <1>16, TakeType, PlacesAndCopies DEF CommitOne
  <2>2. removes' \in [Sessions -> SUBSET Persistent]
    BY <1>0, <1>16, RemoveAsyncType, Zenon DEF CommitOne
  <2> QED
    BY ZenonT(30), <1>16, <2>1, <2>2, PlacesAndCopies DEF CommitOne, TypeOK, disk, routes
<1>17. ASSUME NEW s \in Sessions, WalkDone(s) PROVE TypeOK'
  BY <1>17, ZenonT(30) DEF WalkDone, TypeOK, disk, routes, history
<1>18. ASSUME NEW s \in Sessions, CloseDone(s) PROVE TypeOK'
  <2>1. copies' \in [Places -> [Copies -> Nat]]
    BY SMTT(30), <1>0, <1>18, PlacesAndCopies DEF CloseDone, CopiesOK, NoCopies
  <2>2. removes' \in [Sessions -> SUBSET Persistent]
    BY ZenonT(30), <1>0, <1>18, RemoveAsyncType DEF CloseDone
  <2>3. pendingAcks' \in [Sessions -> Seq(Persistent)]
    BY ZenonT(30), <1>0, <1>18, FlushedBatch DEF CloseDone
  <2>4. forgotten' \in SUBSET Messages
    BY SMTT(30), <1>18, PlacesAndCopies DEF CloseDone, In, TypeOK
  <2> QED
    BY SMTT(30), <1>18, <2>1, <2>2, <2>3, <2>4 DEF CloseDone, TypeOK, disk
<1>19. ASSUME NEW x \in Copies, Due(x) PROVE TypeOK'
  <2>1. copies' \in [Places -> [Copies -> Nat]]
    BY SMTT(30), <1>0, <1>19, ShiftType, PlacesAndCopies DEF Due
  <2> QED
    BY <1>19, <2>1, Zenon DEF Due, TypeOK, disk, routes, history
<1>20. ASSUME NEW s \in Sessions, NEW m \in Messages, ExecuteRemove(s, m) PROVE TypeOK'
  BY SMTT(30), <1>20 DEF ExecuteRemove, Count, TypeOK, routes, history, Counters
<1>21. ASSUME NEW m \in Messages, Expire(m) \/ SweepExpired(m) PROVE TypeOK'
  BY <1>21 DEF Expire, SweepExpired, TypeOK, disk, routes, history
<1>22. CASE Crash
  <2>1. copies' \in [Places -> [Copies -> Nat]]
    BY <1>22, Zenon DEF Crash, NoCopies
  <2>2. pendingAcks' \in [Sessions -> Seq(Persistent)]
    BY <1>22 DEF Crash
  <2>3. bounds' \in [Counters -> Nat]
    BY <1>22 DEF Crash, TypeOK
  <2> QED
    BY ZenonT(30), <1>22, <2>1, <2>2, <2>3 DEF Crash, TypeOK, disk
<1>23. CASE UNCHANGED vars
  BY <1>23, Zenon DEF vars, TypeOK, disk, routes, history
<1> QED
  BY SMTT(30), <1>1, <1>2, <1>3, <1>4, <1>5, <1>6, <1>7, <1>8, <1>9, <1>10, <1>11, <1>12, <1>13,
     <1>14, <1>15, <1>16, <1>17, <1>18, <1>19, <1>20, <1>21, <1>22, <1>23
     DEF Next, Opening, Background, Sending, Receiving, Deciding, Closing, Walking

\* The variables of QueueDelivery keep their types: in particular no copy of a
\* message is taken from a place that does not have it, and the default consumer
\* is taken out of the map only if it is there.
THEOREM TypeCorrect == Spec => []TypeOK
<1>1. Init => TypeOK
  BY InitType, Zenon
<1>2. TypeOK /\ [Next]_vars => TypeOK'
  BY NextType, Zenon
<1> QED
  BY <1>1, <1>2, PTL DEF Spec

-----------------------------------------------------------------------------
(* No accepted message is lost.  NeverLost is not inductive: a record leaves *)
(* the storage long after the call that asked for it, so the removes and the *)
(* batched acknowledgements that are still under way must be traced to       *)
(* messages that are settled or stored in the dead-letter queue.             *)

Traced ==
    Undisturbed => \A s \in Sessions :
        /\ removes[s] \subseteq settled \cup dlqStore
        /\ ToSet(pendingAcks[s]) \subseteq settled

LossInv == TypeOK /\ NeverLost /\ Traced

\* What LossInv' needs of a step: nobody loses a trail that was there.
Trail == <<store, dlqStore, removes, pendingAcks, accepted, settled>>

\* A step that leaves storage, removes and acknowledgements alone loses nothing.
LEMMA QuietStep ==
  ASSUME LossInv, Undisturbed, UNCHANGED Trail
  PROVE  /\ accepted' \subseteq store' \cup dlqStore' \cup settled'
         /\ \A s \in Sessions : /\ removes'[s] \subseteq settled' \cup dlqStore'
                               /\ ToSet(pendingAcks'[s]) \subseteq settled'
BY Zenon DEF LossInv, NeverLost, Traced, Trail

\* Every step keeps the record of an unsettled message, and the removes traced.
LEMMA NextLoss == LossInv /\ [Next]_vars => NeverLost' /\ Traced'
<1> DEFINE Goal == /\ accepted' \subseteq store' \cup dlqStore' \cup settled'
                   /\ \A s \in Sessions : /\ removes'[s] \subseteq settled' \cup dlqStore'
                                         /\ ToSet(pendingAcks'[s]) \subseteq settled'
<1> SUFFICES ASSUME LossInv, [Next]_vars, Undisturbed' PROVE Goal
  BY Zenon DEF NeverLost, Traced
<1>t. /\ bounds \in [Counters -> Nat] /\ "failure" \in Counters /\ "foreign" \in Counters
      /\ removes \in [Sessions -> SUBSET Persistent]
      /\ pendingAcks \in [Sessions -> Seq(Persistent)]
      /\ settled \in SUBSET Messages
  BY Zenon DEF LossInv, TypeOK, Counters
<1>u. bounds' = bounds => Undisturbed
  BY Zenon DEF Undisturbed
<1>c. ASSUME NEW c \in Counters, Count(c)
      PROVE  Undisturbed /\ c \notin {"failure", "foreign"}
  BY <1>t, <1>c DEF Count, Undisturbed
<1>i. Undisturbed => /\ accepted \subseteq store \cup dlqStore \cup settled
                     /\ \A s \in Sessions : /\ removes[s] \subseteq settled \cup dlqStore
                                           /\ ToSet(pendingAcks[s]) \subseteq settled
  BY Zenon DEF LossInv, NeverLost, Traced
<1> HIDE DEF Goal
<1>q. ASSUME Undisturbed, UNCHANGED Trail PROVE Goal
  BY <1>q, QuietStep, Zenon DEF Goal
<1>1. CASE CreateDestination
  <2>1. Undisturbed
    BY SMTT(30), <1>1, <1>c DEF CreateDestination, Counters
  <2> QED
    BY SMTT(30), <1>1, <1>q, <2>1 DEF CreateDestination, Trail, disk, history
<1>2. ASSUME NEW s \in Sessions, CreateConsumer(s) PROVE Goal
  <2>1. Undisturbed
    BY SMTT(30), <1>2, <1>c DEF CreateConsumer, Counters
  <2> QED
    BY SMTT(30), <1>2, <1>q, <2>1 DEF CreateConsumer, Trail, disk, history
<1>3. ASSUME NEW s \in Sessions, ReplayStoredMessages(s) PROVE Goal
  BY SMTT(30), <1>3, <1>t, <1>u, <1>i DEF ReplayStoredMessages, Goal
<1>4. ASSUME NEW m \in Messages, SendNowhere(m) PROVE Goal
  BY SMTT(30), <1>4, <1>q, <1>u DEF SendNowhere, Trail, disk
<1>5. ASSUME NEW m \in Messages, SendPrepare(m) PROVE Goal
  <2>1. /\ bounds' = bounds
        /\ \/ store' = store \cup {m} /\ accepted' = accepted \cup {m}
           \/ store' = store /\ accepted' = accepted
        /\ UNCHANGED <<dlqStore, removes, pendingAcks, settled>>
    BY <1>5, <1>c, Zenon DEF SendPrepare, Counters
  <2> QED
    BY SMTT(30), <2>1, <1>u, <1>i DEF Goal
<1>6. ASSUME NEW m \in Messages, SendEnqueue(m) PROVE Goal
  BY SMTT(30), <1>6, <1>q, <1>u DEF SendEnqueue, Trail, disk, history
<1>7. ASSUME NEW s \in Sessions, NEW x \in Copies, RecvExpired(s, x) PROVE Goal
  <2>1. \A o \in Sessions : removes'[o] \subseteq removes[o] \cup {x[1]}
    BY SMTT(30), <1>7, <1>t, RemoveAsyncType DEF RecvExpired
  <2> QED
    BY SMTT(30), <1>7, <1>u, <1>i, <2>1 DEF RecvExpired, disk, Goal
<1>8. ASSUME NEW s \in Sessions, NEW x \in Copies, Recv(s, x) PROVE Goal
  <2>1. settled \subseteq settled'
    BY SMTT(30), <1>8 DEF Recv
  <2> QED
    BY SMTT(30), <1>8, <1>u, <1>i, <2>1 DEF Recv, disk, Goal
<1>9. ASSUME NEW s \in Sessions, NEW x \in Copies, Acknowledge(s, x) PROVE Goal
  <2>1. \A o \in Sessions :
           /\ removes'[o] \subseteq removes[o] \cup ToSet(pendingAcks[o]) \cup {x[1]}
           /\ ToSet(pendingAcks'[o]) \subseteq ToSet(pendingAcks[o]) \cup {x[1]}
    BY SMTT(30), <1>9, <1>t, AcknowledgeRecordType, PlacesAndCopies DEF Acknowledge
  <2> QED
    BY SMTT(30), <1>9, <1>u, <1>i, <2>1 DEF Acknowledge, disk, Goal
<1>10. ASSUME NEW s \in Sessions, NEW o \in Sessions, NEW x \in Copies,
              AcknowledgeForeign(s, o, x)
       PROVE Goal
  BY SMTT(30), <1>10, <1>t, <1>c DEF AcknowledgeForeign
<1>11. ASSUME NEW s \in Sessions, RecoverBegin(s) \/ RollbackBegin(s) \/ CommitBegin(s)
       PROVE Goal
  <2>1. PICK what \in {"recover", "rollback", "commit"} :
          Begin(s, what) /\ UNCHANGED <<removes, consumers, pendingAcks, bounds>>
    BY <1>11, Zenon DEF RecoverBegin, RollbackBegin, CommitBegin
  <2> QED
    BY SMTT(30), <2>1, <1>q, <1>u DEF Begin, Trail, disk, history
<1>12. ASSUME NEW s \in Sessions, CloseSession(s) PROVE Goal
  <2>1. Undisturbed
    BY SMTT(30), <1>12, <1>c DEF CloseSession, Counters
  <2> QED
    BY SMTT(30), <1>12, <1>q, <2>1 DEF CloseSession, Begin, Trail, disk, history
<1>13. ASSUME NEW s \in Sessions, DeleteConsumer(s) PROVE Goal
  <2>1. Undisturbed
    BY SMTT(30), <1>13, <1>c DEF DeleteConsumer, Counters
  <2>2. \A o \in Sessions : removes'[o] \subseteq removes[o] \cup ToSet(pendingAcks[s])
    BY <1>13, <1>t, RemoveAsyncType, Zenon DEF DeleteConsumer
  <2>3. \A o \in Sessions : ToSet(pendingAcks'[o]) \subseteq ToSet(pendingAcks[o])
    BY ZenonT(30), <1>t, <1>13, FlushedBatch DEF DeleteConsumer
  <2> QED
    BY SMTT(30), <1>13, <1>i, <2>1, <2>2, <2>3 DEF DeleteConsumer, Begin, disk, history, Goal
<1>14. ASSUME NEW s \in Sessions, NEW x \in Copies, Requeue(s, x) PROVE Goal
  BY SMTT(30), <1>14, <1>q, <1>u DEF Requeue, Trail, disk, history
<1>15. ASSUME NEW s \in Sessions, NEW x \in Copies, DeadLetter(s, x) PROVE Goal
  \* The append did not throw, so the message is in the dead-letter queue or
  \* has no record that could be removed.
  <2>1. bounds' = bounds /\ dlqStore \subseteq dlqStore' /\ settled \subseteq settled'
    BY <1>15, <1>c, Zenon DEF DeadLetter, Counters
  <2>2. {x[1]} \cap Persistent \subseteq settled' \cup dlqStore'
    BY <1>15, <1>c, Zenon DEF DeadLetter, Counters
  <2>3. \A o \in Sessions : removes'[o] \subseteq removes[o] \cup ({x[1]} \cap Persistent)
    <3>1. RemoveAsync(s, {x[1]})
      BY <1>15, Zenon DEF DeadLetter
    <3> QED
      BY <1>t, <3>1, RemoveAsyncType, Zenon
  <2>4. UNCHANGED <<store, accepted, pendingAcks>>
    BY SMTT(30), <1>15 DEF DeadLetter
  <2> QED
    BY SMTT(30), <1>u, <1>i, <2>1, <2>2, <2>3, <2>4 DEF Goal
<1>16. ASSUME NEW s \in Sessions, NEW x \in Copies, CommitOne(s, x) PROVE Goal
  <2>1. \A o \in Sessions : removes'[o] \subseteq removes[o] \cup {x[1]}
    BY <1>16, <1>t, RemoveAsyncType, Zenon DEF CommitOne
  <2>2. settled' = settled \cup {x[1]} /\ UNCHANGED <<disk, pendingAcks, bounds, accepted>>
    BY <1>16, Zenon DEF CommitOne
  <2> QED
    BY SMTT(30), <1>u, <1>i, <2>1, <2>2 DEF disk, Goal
<1>17. ASSUME NEW s \in Sessions, WalkDone(s) PROVE Goal
  BY SMTT(30), <1>17, <1>q, <1>u DEF WalkDone, Trail, disk, history
<1>18. ASSUME NEW s \in Sessions, CloseDone(s) PROVE Goal
  <2>1. \A o \in Sessions : removes'[o] \subseteq removes[o] \cup ToSet(pendingAcks[s])
    BY SMTT(30), <1>18, <1>t, RemoveAsyncType DEF CloseDone
  <2>2. \A o \in Sessions : ToSet(pendingAcks'[o]) \subseteq ToSet(pendingAcks[o])
    BY ZenonT(30), <1>t, <1>18, FlushedBatch DEF CloseDone
  <2>3. UNCHANGED <<disk, bounds, accepted, settled>>
    BY <1>18, Zenon DEF CloseDone
  <2> QED
    BY SMTT(30), <1>u, <1>i, <2>1, <2>2, <2>3 DEF disk, Goal
<1>19. ASSUME NEW x \in Copies, Due(x) PROVE Goal
  BY SMTT(30), <1>19, <1>q, <1>u DEF Due, Trail, disk, history
<1>20. ASSUME NEW s \in Sessions, NEW m \in Messages, ExecuteRemove(s, m) PROVE Goal
  <2>1. /\ bounds' = bounds /\ store' = store \ {m} /\ m \in removes[s]
        /\ removes' = [removes EXCEPT ![s] = @ \ {m}]
        /\ UNCHANGED <<dlqStore, pendingAcks, accepted, settled>>
    BY <1>20, <1>c, Zenon DEF ExecuteRemove, Counters, history
  <2> QED
    BY SMTT(30), <2>1, <1>t, <1>u, <1>i DEF Goal
<1>21. ASSUME NEW m \in Messages, Expire(m) PROVE Goal
  BY SMTT(30), <1>21, <1>q, <1>u DEF Expire, Trail, disk, history
<1>22. ASSUME NEW m \in Messages, SweepExpired(m) PROVE Goal
  BY SMTT(30), <1>22, <1>u, <1>i DEF SweepExpired, Goal
<1>23. CASE Crash
  <2>1. Undisturbed
    BY <1>23, <1>t, Zenon DEF Crash, Undisturbed
  <2>2. ToSet(<<>>) = {}
    BY DEF ToSet
  <2> QED
    BY SMTT(30), <1>23, <1>i, <2>1, <2>2 DEF Crash, disk, Goal
<1>24. CASE UNCHANGED vars
  BY <1>24, <1>q, <1>u, Zenon DEF vars, Trail, disk, history
<1> QED
  BY SMTT(30), <1>1, <1>2, <1>3, <1>4, <1>5, <1>6, <1>7, <1>8, <1>9, <1>10, <1>11, <1>12, <1>13,
     <1>14, <1>15, <1>16, <1>17, <1>18, <1>19, <1>20, <1>21, <1>22, <1>23, <1>24
     DEF Next, Opening, Background, Sending, Receiving, Deciding, Closing, Walking

\* A persistent message whose record send() appended is in the storage of its
\* queue or of the dead-letter queue until it is acknowledged, committed, expired
\* or dropped by a policy without dead-letter queue, whatever the number of
\* sessions, their acknowledge modes, the redelivery policy and the crashes, as
\* long as no storage operation threw and every session acknowledged only what
\* it received.
THEOREM NeverLoses == Spec => []NeverLost
<1>1. Init => LossInv
  <2> SUFFICES ASSUME Init PROVE LossInv
    BY Zenon
  <2>1. ToSet(<<>>) = {}
    BY DEF ToSet
  <2> QED
    BY <2>1, InitType, Zenon DEF Init, LossInv, NeverLost, Traced
<1>2. LossInv /\ [Next]_vars => LossInv'
  BY NextType, NextLoss, Zenon DEF LossInv
<1>3. LossInv => NeverLost
  BY Zenon DEF LossInv
<1> QED
  BY <1>1, <1>2, <1>3, PTL DEF Spec

-----------------------------------------------------------------------------
(* What a step does to the copies in memory.                               *)

\* Where a message went that needs no copy any more.
Gone == settled \cup dlqStore \cup dlqQueue \cup forgotten

\* A message above the redelivery limit goes to a queue in memory or to the policy's
\* drop, or the append to the storage of the dead-letter queue does not throw.
LettersKept == DeadLetterQueue # "unopened" \/ MaxFailures = 0

\* The copies of m: none disappears without a trace, and a new one is of a message that
\* is sent now or stored; who has been copied is in memory, or was copied before.
Moved(m) ==
    /\ LettersKept /\ InMemory(m) => InMemory(m)' \/ m \in Gone'
    /\ InMemory(m)' => InMemory(m) \/ m \in store \/ m \in sent'
    /\ born'[m] > 0 => born[m] > 0 \/ InMemory(m)'

\* The counts after a copy was taken from a place.
LEMMA TakeCounts ==
  ASSUME CopiesOK, NEW p \in Places, NEW x \in In(p), NEW q \in Places, NEW y \in Copies
  PROVE  Take(x, p)[q][y] = IF q = p /\ y = x THEN copies[q][y] - 1 ELSE copies[q][y]
  BY DEF Take, CopiesOK, In

\* A copy is taken and its message leaves a trace.
LEMMA TakeMoves ==
  ASSUME CopiesOK, NEW p \in Places, NEW x \in In(p), copies' = Take(x, p), UNCHANGED born,
         LettersKept => x[1] \in Gone', NEW m \in Messages
  PROVE  Moved(m)
<1>1. ASSUME NEW q \in Places, NEW y \in Copies
      PROVE  /\ y # x => copies'[q][y] = copies[q][y]
             /\ copies'[q][y] > 0 => copies[q][y] > 0
  <2>1. copies'[q][y] = IF q = p /\ y = x THEN copies[q][y] - 1 ELSE copies[q][y]
    BY TakeCounts
  <2>2. copies[q][y] \in Nat
    BY Zenon DEF CopiesOK
  <2> QED
    BY <2>1, <2>2
<1>2. InMemory(m) /\ m # x[1] => InMemory(m)'
  BY <1>1, ZenonT(30) DEF InMemory, In
<1>3. InMemory(m)' => InMemory(m)
  BY <1>1, Zenon DEF InMemory, In
<1> QED
  BY <1>2, <1>3, Zenon DEF Moved

\* A copy goes from one place to another, perhaps with another deliveryCount.
LEMMA ShiftMoves ==
  ASSUME CopiesOK, NEW p \in Places, NEW x \in In(p), NEW z \in Copies, z[1] = x[1],
         NEW r \in Places, copies' = Shift(x, p, z, r), UNCHANGED born, NEW m \in Messages
  PROVE  Moved(m)
<1> DEFINE taken == Take(x, p)
<1>1. taken \in [Places -> [Copies -> Nat]]
  BY TakeType, Zenon
<1>2. copies' = [taken EXCEPT ![r][z] = @ + 1]
  BY Zenon DEF Shift
<1>3. ASSUME NEW q \in Places, NEW y \in Copies
      PROVE  taken[q][y] = IF q = p /\ y = x THEN copies[q][y] - 1 ELSE copies[q][y]
  BY TakeCounts
<1> HIDE DEF taken
<1>4. ASSUME NEW q \in Places, NEW y \in Copies
      PROVE  copies'[q][y] = IF q = r /\ y = z THEN taken[q][y] + 1 ELSE taken[q][y]
  BY <1>1, <1>2
<1>5. copies'[r][z] > 0
  <2>1. taken[r][z] \in Nat /\ copies'[r][z] = taken[r][z] + 1
    BY <1>1, <1>4, Zenon
  <2> QED
    BY <2>1
<1>6. ASSUME NEW q \in Places, NEW y \in Copies
      PROVE  /\ y[1] # x[1] => copies'[q][y] = copies[q][y]
             /\ copies'[q][y] > 0 => y[1] = x[1] \/ copies[q][y] > 0
  <2>1. y[1] # x[1] => y # z /\ y # x
    BY Zenon
  <2> QED
    BY <1>3, <1>4, <2>1
<1>7. InMemory(x[1]) /\ InMemory(x[1])'
  BY <1>5, Zenon DEF InMemory, In
<1>8. m # x[1] => (InMemory(m) <=> InMemory(m)')
  BY <1>6, ZenonT(30) DEF InMemory, In
<1> QED
  BY <1>7, <1>8, Zenon DEF Moved

\* A step that leaves the copies alone.
LEMMA UnmovedStep ==
  ASSUME UNCHANGED <<copies, born>>, NEW m \in Messages
  PROVE  Moved(m)
  BY Zenon DEF Moved, InMemory, In

\* The steps that take a copy.
LEMMA TakeSteps ==
  ASSUME TypeOK, NEW s \in Sessions, NEW x \in Copies, NEW m \in Messages,
         \/ RecvExpired(s, x) \/ Acknowledge(s, x) \/ CommitOne(s, x) \/ DeadLetter(s, x)
         \/ Recv(s, x) /\ Mode[s] = "AUTO"
  PROVE  Moved(m)
<1>0. CopiesOK /\ "queue" \in Places /\ s \in Places
  BY PlacesAndCopies, Zenon DEF TypeOK, CopiesOK
<1>1. CASE RecvExpired(s, x) \/ (Recv(s, x) /\ Mode[s] = "AUTO")
  <2>1. /\ x \in In("queue") /\ copies' = Take(x, "queue") /\ UNCHANGED born
        /\ x[1] \in settled'
    BY <1>1, Zenon DEF RecvExpired, Recv
  <2> QED
    BY <1>0, <2>1, TakeMoves, Zenon DEF Gone
<1>2. CASE Acknowledge(s, x) \/ CommitOne(s, x)
  <2>1. x \in In(s) /\ copies' = Take(x, s) /\ UNCHANGED born /\ x[1] \in settled'
    BY <1>2, Zenon DEF Acknowledge, CommitOne
  <2> QED
    BY <1>0, <2>1, TakeMoves, Zenon DEF Gone
<1>3. CASE DeadLetter(s, x)
  <2>1. x \in In(s) /\ copies' = Take(x, s) /\ UNCHANGED born
    BY <1>3, Zenon DEF DeadLetter
  <2>2. ASSUME DeadLetterQueue = "open"
        PROVE  x[1] \in Gone'
    BY <1>3, <2>2, Zenon DEF DeadLetter, Gone
  <2>3. ASSUME DeadLetterQueue = "none"
        PROVE  x[1] \in Gone'
    BY <1>3, <2>3, Zenon DEF DeadLetter, Gone
  <2>4. ASSUME DeadLetterQueue = "unopened" /\ x[1] \notin Persistent
        PROVE  x[1] \in Gone'
    BY <1>3, <2>4, Zenon DEF DeadLetter, Gone
  <2>5. ASSUME DeadLetterQueue = "unopened" /\ x[1] \in Persistent /\ LettersKept
        PROVE  x[1] \in Gone'
    <3>1. MaxFailures = 0
      BY <2>5, Zenon DEF LettersKept
    <3>2. bounds["failure"] \in Nat
      BY Zenon DEF TypeOK, Counters
    <3>3. ~Below("failure", MaxFailures)
      BY <3>1, <3>2 DEF Below
    <3> QED
      BY <1>3, <2>5, <3>3, Zenon DEF DeadLetter, Gone
  <2>6. LettersKept => x[1] \in Gone'
    BY <2>2, <2>3, <2>4, <2>5, QueueDeliveryAssumption, Zenon
  <2> QED
    BY <1>0, <2>1, <2>6, TakeMoves, Zenon
<1> QED
  BY <1>1, <1>2, <1>3, Zenon

\* The steps that move a copy from one place to another.
LEMMA ShiftSteps ==
  ASSUME TypeOK, NEW x \in Copies, NEW m \in Messages,
         \/ \E p \in Messages : SendEnqueue(p)
         \/ Due(x)
         \/ \E s \in Sessions : (Recv(s, x) /\ Mode[s] # "AUTO") \/ Requeue(s, x)
  PROVE  Moved(m)
<1>0. /\ CopiesOK /\ "queue" \in Places /\ "sending" \in Places /\ "scheduled" \in Places
      /\ Sessions \subseteq Places
  BY PlacesAndCopies, Zenon DEF TypeOK, CopiesOK
<1>1. ASSUME NEW p \in Messages, SendEnqueue(p)
      PROVE  Moved(m)
  <2>1. /\ <<p, 0>> \in In("sending") /\ <<p, 0>> \in Copies
        /\ copies' = Shift(<<p, 0>>, "sending", <<p, 0>>, "queue") /\ UNCHANGED born
    BY <1>1, PlacesAndCopies, Zenon DEF SendEnqueue, history
  <2> QED
    BY <1>0, <2>1, ShiftMoves, Zenon
<1>2. CASE Due(x)
  <2>1. /\ x \in In("scheduled") /\ copies' = Shift(x, "scheduled", x, "queue") /\ UNCHANGED born
    BY <1>2, Zenon DEF Due, history
  <2> QED
    BY <1>0, <2>1, ShiftMoves, Zenon
<1>3. ASSUME NEW s \in Sessions, Recv(s, x), Mode[s] # "AUTO"
      PROVE  Moved(m)
  <2>1. x \in In("queue") /\ copies' = Shift(x, "queue", x, s) /\ UNCHANGED born
    BY <1>3, Zenon DEF Recv
  <2> QED
    BY <1>0, <2>1, ShiftMoves, Zenon
<1>4. ASSUME NEW s \in Sessions, Requeue(s, x)
      PROVE  Moved(m)
  <2>1. x[1] \in Messages /\ x[2] + 1 \in 0..MaxCount
    <3>1. x[2] \in 0..MaxCount /\ x[2] < MaxCount /\ x[1] \in Messages
      BY <1>4, PlacesAndCopies, Zenon DEF Requeue
    <3> QED
      BY <3>1, QueueDeliveryAssumption
  <2>2. <<x[1], x[2] + 1>> \in Copies /\ <<x[1], x[2] + 1>>[1] = x[1]
    BY <2>1, PlacesAndCopies, Zenon
  <2>3. /\ x \in In(s) /\ UNCHANGED born
        /\ \/ copies' = Shift(x, s, <<x[1], x[2] + 1>>, "scheduled")
           \/ copies' = Shift(x, s, <<x[1], x[2] + 1>>, "queue")
    BY <1>4, Zenon DEF Requeue, history
  <2> QED
    BY <1>0, <2>2, <2>3, ShiftMoves, Zenon
<1> QED
  BY <1>1, <1>2, <1>3, <1>4, Zenon

\* save() makes one copy, of the message it sends.
LEMMA SendMoves ==
  ASSUME TypeOK, NEW p \in Messages, SendPrepare(p), NEW m \in Messages
  PROVE  Moved(m)
<1>1. /\ "sending" \in Places /\ <<p, 0>> \in Copies /\ <<p, 0>>[1] = p
      /\ copies \in [Places -> [Copies -> Nat]]
  BY PlacesAndCopies, Zenon DEF TypeOK
<1>2. /\ copies' = [copies EXCEPT !["sending"][<<p, 0>>] = @ + 1]
      /\ born' = [born EXCEPT ![p] = @ + 1] /\ p \in sent'
  BY Zenon DEF SendPrepare, Put
<1>3. copies'["sending"][<<p, 0>>] > 0
  BY <1>1, <1>2
<1>4. ASSUME NEW q \in Places, NEW y \in Copies, y[1] # p
      PROVE  copies'[q][y] = copies[q][y]
  <2>1. y # <<p, 0>>
    BY <1>1, <1>4, Zenon
  <2> QED
    BY <1>1, <1>2, <2>1
<1>5. InMemory(p)'
  BY <1>1, <1>3, Zenon DEF InMemory, In
<1>6. m # p => (InMemory(m) <=> InMemory(m)') /\ born'[m] = born[m]
  <2>1. m # p => born'[m] = born[m]
    BY <1>2, Zenon DEF TypeOK
  <2>2. m # p => (InMemory(m) <=> InMemory(m)')
    BY <1>4, ZenonT(30) DEF InMemory, In
  <2> QED
    BY <2>1, <2>2, Zenon
<1> QED
  BY <1>2, <1>5, <1>6, Zenon DEF Moved

\* createConsumer() adds a copy of every live message to the queue, and nothing else.
LEMMA ReplayCounts ==
  ASSUME TypeOK, NEW s \in Sessions, ReplayStoredMessages(s)
  PROVE  /\ \A x \in Copies :
              /\ x[1] \in Live(s) /\ x[2] = 0 => copies'["queue"][x] = copies["queue"][x] + 1
              /\ ~(x[1] \in Live(s) /\ x[2] = 0) => copies'["queue"][x] = copies["queue"][x]
              /\ copies["queue"][x] \in Nat
         /\ \A q \in Places : q # "queue" => copies'[q] = copies[q]
<1> DEFINE replayed == [x \in Copies |->
               IF x[1] \in Live(s) /\ x[2] = 0 THEN copies["queue"][x] + 1 ELSE copies["queue"][x]]
<1>1. copies' = [copies EXCEPT !["queue"] = replayed]
  BY Zenon DEF ReplayStoredMessages
<1>2. "queue" \in Places /\ copies \in [Places -> [Copies -> Nat]]
  BY PlacesAndCopies, Zenon DEF TypeOK
<1>3. ASSUME NEW x \in Copies
      PROVE  /\ x[1] \in Live(s) /\ x[2] = 0 => copies'["queue"][x] = copies["queue"][x] + 1
             /\ ~(x[1] \in Live(s) /\ x[2] = 0) => copies'["queue"][x] = copies["queue"][x]
             /\ copies["queue"][x] \in Nat
  BY <1>1, <1>2, Zenon
<1> HIDE DEF replayed
<1>4. ASSUME NEW q \in Places, q # "queue"
      PROVE  copies'[q] = copies[q]
  BY <1>1, <1>2, <1>4, Zenon
<1> QED
  BY <1>3, <1>4, Zenon

\* Hence what is in memory after it was there before or is stored.
LEMMA ReplayMoves ==
  ASSUME TypeOK, NEW s \in Sessions, ReplayStoredMessages(s), NEW m \in Messages
  PROVE  Moved(m)
<1>1. "queue" \in Places
  BY PlacesAndCopies, Zenon
<1>2. ASSUME NEW x \in Copies
      PROVE  /\ x[1] \in Live(s) /\ x[2] = 0 => copies'["queue"][x] = copies["queue"][x] + 1
             /\ ~(x[1] \in Live(s) /\ x[2] = 0) => copies'["queue"][x] = copies["queue"][x]
             /\ copies["queue"][x] \in Nat
  BY ReplayCounts, Zenon
<1>3. ASSUME NEW q \in Places, q # "queue"
      PROVE  copies'[q] = copies[q]
  BY <1>3, ReplayCounts, Zenon
<1>4. ASSUME NEW q \in Places, NEW x \in Copies
      PROVE  /\ copies[q][x] > 0 => copies'[q][x] > 0
             /\ copies'[q][x] > 0 => copies[q][x] > 0 \/ x[1] \in Live(s)
  <2>1. CASE q = "queue"
    BY <1>2, <2>1
  <2>2. CASE q # "queue"
    BY <1>3, <2>2, Zenon
  <2> QED
    BY <2>1, <2>2, Zenon
<1>5. ASSUME m \in Live(s)
      PROVE  InMemory(m)'
  <2>1. <<m, 0>> \in Copies /\ <<m, 0>>[1] = m /\ <<m, 0>>[2] = 0
    BY PlacesAndCopies, Zenon
  <2>2. copies["queue"][<<m, 0>>] \in Nat /\ copies'["queue"][<<m, 0>>] = copies["queue"][<<m, 0>>] + 1
    BY <1>2, <1>5, <2>1, Zenon
  <2>3. copies'["queue"][<<m, 0>>] > 0
    BY <2>2
  <2> QED
    BY <1>1, <2>1, <2>3, Zenon DEF InMemory, In
<1>6. InMemory(m) => InMemory(m)'
  BY <1>4, Zenon DEF InMemory, In
<1>7. InMemory(m)' => InMemory(m) \/ m \in store
  BY <1>4, Zenon DEF InMemory, In, Live
<1>8. m \notin Live(s) => born'[m] = born[m]
  BY Zenon DEF ReplayStoredMessages
<1> QED
  BY <1>5, <1>6, <1>7, <1>8, Zenon DEF Moved

\* ~Consumer() drops its chain, and the messages in it count as forgotten.
LEMMA CloseMoves ==
  ASSUME TypeOK, NEW s \in Sessions, CloseDone(s), NEW m \in Messages
  PROVE  Moved(m)
<1>1. /\ copies' = [copies EXCEPT ![s] = NoCopies] /\ UNCHANGED born
      /\ \A x \in In(s) : x[1] \in forgotten'
  BY Zenon DEF CloseDone
<1>2. s \in Places /\ copies \in [Places -> [Copies -> Nat]]
  BY PlacesAndCopies, Zenon DEF TypeOK
<1>3. ASSUME NEW q \in Places, q # s
      PROVE  copies'[q] = copies[q]
  BY <1>1, <1>2, <1>3, Zenon
<1>4. ASSUME NEW x \in Copies
      PROVE  ~(copies'[s][x] > 0)
  <2>1. copies'[s][x] = 0
    BY <1>1, <1>2, Zenon DEF NoCopies
  <2> QED
    BY <2>1
<1>5. InMemory(m)' => InMemory(m)
  BY <1>3, <1>4, Zenon DEF InMemory, In
<1>6. ASSUME InMemory(m)
      PROVE  InMemory(m)' \/ m \in Gone'
  <2>1. PICK q \in Places : \E x \in In(q) : x[1] = m
    BY <1>6, Zenon DEF InMemory
  <2>2. CASE q = s
    BY <1>1, <2>1, <2>2, Zenon DEF Gone
  <2>3. CASE q # s
    BY <1>3, <2>1, <2>3, Zenon DEF InMemory, In
  <2> QED
    BY <2>2, <2>3, Zenon
<1> QED
  BY <1>1, <1>5, <1>6, Zenon DEF Moved

\* After a crash there is nothing in memory, and what was there counts as forgotten.
LEMMA CrashMoves ==
  ASSUME Crash, NEW m \in Messages
  PROVE  Moved(m)
<1>1. /\ copies' = [p \in Places |-> NoCopies] /\ UNCHANGED born
      /\ InMemory(m) => m \in forgotten'
  BY Zenon DEF Crash, InMemory
<1>2. ASSUME NEW q \in Places, NEW x \in Copies
      PROVE  ~(copies'[q][x] > 0)
  <2>1. copies'[q][x] = 0
    BY <1>1, Zenon DEF NoCopies
  <2> QED
    BY <2>1
<1>3. ~InMemory(m)'
  BY <1>2, Zenon DEF InMemory, In
<1> QED
  BY <1>1, <1>3, Zenon DEF Moved, Gone

\* Every step moves copies in one of these ways.
LEMMA NextMoves ==
  ASSUME TypeOK, [Next]_vars, NEW m \in Messages
  PROVE  Moved(m)
<1>1. ASSUME CreateDestination \/ UNCHANGED vars
      PROVE  UNCHANGED <<copies, born>>
  BY <1>1, Zenon DEF CreateDestination, vars, history
<1>2. ASSUME NEW s \in Sessions, CreateConsumer(s) \/ WalkDone(s) \/ CloseSession(s) \/ DeleteConsumer(s)
      PROVE  UNCHANGED <<copies, born>>
  BY <1>2, Zenon DEF CreateConsumer, WalkDone, CloseSession, DeleteConsumer, Begin, history
<1>3. ASSUME NEW s \in Sessions, RecoverBegin(s) \/ RollbackBegin(s) \/ CommitBegin(s)
      PROVE  UNCHANGED <<copies, born>>
  BY <1>3, Zenon DEF RecoverBegin, RollbackBegin, CommitBegin, Begin, history
<1>4. ASSUME NEW p \in Messages, SendNowhere(p) \/ Expire(p) \/ SweepExpired(p)
      PROVE  UNCHANGED <<copies, born>>
  BY <1>4, Zenon DEF SendNowhere, Expire, SweepExpired, history
<1>5. ASSUME NEW s \in Sessions, NEW p \in Messages, ExecuteRemove(s, p)
      PROVE  UNCHANGED <<copies, born>>
  BY <1>5, Zenon DEF ExecuteRemove, history
<1>6. ASSUME NEW s \in Sessions, NEW o \in Sessions, NEW x \in Copies, AcknowledgeForeign(s, o, x)
      PROVE  UNCHANGED <<copies, born>>
  BY <1>6, Zenon DEF AcknowledgeForeign, history
<1>7. CASE UNCHANGED <<copies, born>>
  BY <1>7, UnmovedStep, Zenon
<1>8. ASSUME NEW s \in Sessions, NEW x \in Copies,
             \/ RecvExpired(s, x) \/ Acknowledge(s, x) \/ CommitOne(s, x) \/ DeadLetter(s, x)
      PROVE  Moved(m)
  BY <1>8, TakeSteps, Zenon
<1>9. ASSUME NEW s \in Sessions, NEW x \in Copies, Recv(s, x) \/ Requeue(s, x)
      PROVE  Moved(m)
  BY <1>9, TakeSteps, ShiftSteps, Zenon
<1>10. ASSUME NEW x \in Copies, Due(x)
       PROVE  Moved(m)
  BY <1>10, ShiftSteps, Zenon
<1>11. ASSUME NEW p \in Messages, SendEnqueue(p)
       PROVE  Moved(m)
  <2>1. <<p, 0>> \in Copies
    BY PlacesAndCopies, Zenon
  <2> QED
    BY <1>11, <2>1, ShiftSteps, Zenon
<1>12. ASSUME NEW p \in Messages, SendPrepare(p)
       PROVE  Moved(m)
  BY <1>12, SendMoves, Zenon
<1>13. ASSUME NEW s \in Sessions, ReplayStoredMessages(s) \/ CloseDone(s)
       PROVE  Moved(m)
  BY <1>13, ReplayMoves, CloseMoves, Zenon
<1>14. CASE Crash
  BY <1>14, CrashMoves, Zenon
<1> QED
  BY <1>1, <1>2, <1>3, <1>4, <1>5, <1>6, <1>7, <1>8, <1>9, <1>10, <1>11, <1>12, <1>13, <1>14, Zenon
     DEF Next, Opening, Background, Sending, Receiving, Deciding, Closing, Walking

-----------------------------------------------------------------------------
(* Nothing vanishes.                                                       *)

\* The traces of messages are kept: a crash empties the dead-letter queue in memory,
\* whose messages then count as forgotten.
LEMMA GoneGrows ==
  ASSUME [Next]_vars
  PROVE  Gone \subseteq Gone'
<1> DEFINE Quiet == UNCHANGED <<dlqStore, dlqQueue, settled, forgotten>>
<1>1. ASSUME CreateDestination \/ UNCHANGED vars
      PROVE  Quiet
  BY <1>1, Zenon DEF CreateDestination, vars, disk, history
<1>2. ASSUME NEW s \in Sessions,
             CreateConsumer(s) \/ WalkDone(s) \/ CloseSession(s) \/ DeleteConsumer(s) \/ ReplayStoredMessages(s)
      PROVE  Quiet
  BY <1>2, Zenon DEF CreateConsumer, WalkDone, CloseSession, DeleteConsumer, ReplayStoredMessages,
                     Begin, disk, history
<1>3. ASSUME NEW s \in Sessions, RecoverBegin(s) \/ RollbackBegin(s) \/ CommitBegin(s)
      PROVE  Quiet
  BY <1>3, Zenon DEF RecoverBegin, RollbackBegin, CommitBegin, Begin, disk, history
<1>4. ASSUME NEW p \in Messages, SendNowhere(p) \/ SendPrepare(p) \/ SendEnqueue(p) \/ Expire(p)
      PROVE  Quiet
  BY <1>4, Zenon DEF SendNowhere, SendPrepare, SendEnqueue, Expire, disk, history
<1>5. ASSUME NEW s \in Sessions, NEW p \in Messages, ExecuteRemove(s, p)
      PROVE  Quiet
  BY <1>5, Zenon DEF ExecuteRemove, disk, history
<1>6. ASSUME NEW s \in Sessions, NEW x \in Copies,
             (\E o \in Sessions : AcknowledgeForeign(s, o, x)) \/ Requeue(s, x) \/ Due(x)
      PROVE  Quiet
  BY <1>6, Zenon DEF AcknowledgeForeign, Requeue, Due, disk, history
<1>7. CASE Quiet
  BY <1>7, Zenon DEF Gone
<1> HIDE DEF Quiet
<1>8. ASSUME NEW s \in Sessions, NEW x \in Copies, RecvExpired(s, x) \/ Recv(s, x)
      PROVE  Gone \subseteq Gone'
  <2>1. settled \subseteq settled' /\ UNCHANGED <<dlqStore, dlqQueue, forgotten>>
    BY <1>8, Zenon DEF RecvExpired, Recv, disk
  <2> QED
    BY <2>1, Zenon DEF Gone
<1>9. ASSUME NEW s \in Sessions, NEW x \in Copies, Acknowledge(s, x) \/ CommitOne(s, x)
      PROVE  Gone \subseteq Gone'
  <2>1. settled \subseteq settled' /\ UNCHANGED <<dlqStore, dlqQueue, forgotten>>
    BY <1>9, Zenon DEF Acknowledge, CommitOne, disk
  <2> QED
    BY <2>1, Zenon DEF Gone
<1>10. ASSUME NEW s \in Sessions, NEW x \in Copies, DeadLetter(s, x)
       PROVE  Gone \subseteq Gone'
  <2>1. settled \subseteq settled' /\ dlqStore \subseteq dlqStore' /\ dlqQueue \subseteq dlqQueue'
        /\ UNCHANGED forgotten
    BY <1>10, Zenon DEF DeadLetter
  <2> QED
    BY <2>1, Zenon DEF Gone
<1>11. ASSUME NEW p \in Messages, SweepExpired(p)
       PROVE  Gone \subseteq Gone'
  BY <1>11, Zenon DEF SweepExpired, Gone
<1>12. ASSUME NEW s \in Sessions, CloseDone(s)
       PROVE  Gone \subseteq Gone'
  BY <1>12, Zenon DEF CloseDone, Gone, disk
<1>13. CASE Crash
  BY <1>13, Zenon DEF Crash, Gone, disk
<1>14. ASSUME NEW x \in Copies, Due(x)
       PROVE  Quiet
  BY <1>14, Zenon DEF Due, disk, history, Quiet
<1> QED
  BY <1>1, <1>2, <1>3, <1>4, <1>5, <1>6, <1>7, <1>8, <1>9, <1>10, <1>11, <1>12, <1>13, <1>14, Zenon
     DEF Next, Opening, Background, Sending, Receiving, Deciding, Closing, Walking

\* Stronger than NothingVanishes, which speaks of the messages given to save() only: a
\* replay makes copies too.
BornKept == \A m \in Messages : born[m] > 0 => InMemory(m) \/ m \in Gone

\* Within one lifetime of the process a message that has been copied is in memory until it
\* is settled, dead-lettered, or forgotten with its consumer or its process: no path of
\* recover(), rollback(), commit(), the backoff or the redelivery limit drops it
\* (Consumer::redeliver(), Destination::deadLetter()), for any sessions and policies.
THEOREM NoCopyVanishes ==
  ASSUME LettersKept
  PROVE  Spec => []NothingVanishes
<1>1. Init => TypeOK /\ BornKept
  <2> SUFFICES ASSUME Init PROVE BornKept
    BY InitType, Zenon
  <2>1. ASSUME NEW m \in Messages
        PROVE  ~(born[m] > 0)
    BY DEF Init
  <2> QED
    BY <2>1, Zenon DEF BornKept
<1>2. TypeOK /\ BornKept /\ [Next]_vars => (TypeOK /\ BornKept)'
  <2> SUFFICES ASSUME TypeOK, BornKept, [Next]_vars PROVE BornKept'
    BY NextType, Zenon
  <2>1. ASSUME NEW m \in Messages, born'[m] > 0
        PROVE  InMemory(m)' \/ m \in Gone'
    <3>1. Moved(m) /\ Gone \subseteq Gone'
      BY NextMoves, GoneGrows, Zenon
    <3> QED
      BY <2>1, <3>1, Zenon DEF Moved, BornKept
  <2> QED
    BY <2>1, Zenon DEF BornKept
<1>3. TypeOK /\ BornKept => NothingVanishes
  BY Zenon DEF TypeOK, BornKept, NothingVanishes, Gone
<1> QED
  BY <1>1, <1>2, <1>3, PTL DEF Spec

-----------------------------------------------------------------------------
(* What was acknowledged is not replayed.                                  *)

\* Only what was sent is in memory, stored or acknowledged.
SentOK ==
    /\ \A m \in Messages : InMemory(m) => m \in sent
    /\ store \subseteq sent
    /\ \A s \in Sessions : acked[s] \subseteq sent

\* A session whose consumer is not in the map has no batch of acknowledgements, and a
\* consumer that is being created is not in the map yet.
PhaseOK(s) ==
    /\ pc[s] = "create" => s \notin consumers
    /\ s \notin consumers => pendingAcks[s] = <<>>

\* The removes that s asked for or will ask for.
Asked(s) == removes[s] \cup ToSet(pendingAcks[s])

\* As long as no storage operation threw, s asked for the remove of every record of a
\* message it acknowledged.
AskedOK(s) == bounds["failure"] = 0 => acked[s] \cap store \subseteq Asked(s)

ReplayInv ==
    TypeOK /\ SentOK /\ \A s \in Sessions : PhaseOK(s) /\ AskedOK(s)

\* The batch of a session consists of persistent messages.
LEMMA BatchType ==
  ASSUME NEW q \in Seq(Persistent)
  PROVE  ToSet(q) \subseteq Persistent
  BY DEF ToSet

\* AcknowledgeRecord() asks for the remove of the record at once or puts it into the
\* batch; what was asked for before is not taken back.
LEMMA AcknowledgeRecordAsks ==
  ASSUME removes \in [Sessions -> SUBSET Persistent],
         pendingAcks \in [Sessions -> Seq(Persistent)],
         NEW s \in Sessions, NEW m \in Messages, AcknowledgeRecord(s, m)
  PROVE  /\ \A o \in Sessions : Asked(o) \subseteq Asked(o)'
         /\ {m} \cap Persistent \subseteq Asked(s)'
         /\ \A o \in Sessions : o # s => pendingAcks'[o] = pendingAcks[o]
<1> DEFINE batch == Append(pendingAcks[s], m)
<1>1. pendingAcks[s] \in Seq(Persistent) /\ ToSet(pendingAcks[s]) \subseteq Persistent
  BY BatchType, Zenon
<1>2. ToSet(batch) = ToSet(pendingAcks[s]) \cup {m}
  BY <1>1, AppendToSet, Zenon
<1> HIDE DEF batch
<1>3. CASE Mode[s] # "DUPS_OK" \/ m \notin Persistent
  <2>1. /\ removes' = [removes EXCEPT ![s] = @ \cup ({m} \cap Persistent)]
        /\ pendingAcks' = pendingAcks
    BY <1>3, Zenon DEF AcknowledgeRecord, RemoveAsync
  <2> QED
    BY <2>1 DEF Asked
<1>4. CASE Mode[s] = "DUPS_OK" /\ m \in Persistent /\ Len(batch) >= DupsOkBatch
  <2>1. /\ removes' = [removes EXCEPT ![s] = @ \cup (ToSet(batch) \cap Persistent)]
        /\ pendingAcks' = [pendingAcks EXCEPT ![s] = <<>>]
    BY <1>4, Zenon DEF AcknowledgeRecord, RemoveAsync, batch
  <2>2. ToSet(batch) \cap Persistent = ToSet(pendingAcks[s]) \cup {m}
    BY <1>1, <1>2, <1>4, Zenon
  <2>3. /\ removes'[s] = removes[s] \cup ToSet(pendingAcks[s]) \cup {m}
        /\ \A o \in Sessions : o # s => removes'[o] = removes[o] /\ pendingAcks'[o] = pendingAcks[o]
    BY <2>1, <2>2
  <2> QED
    BY <2>3, Zenon DEF Asked
<1>5. CASE Mode[s] = "DUPS_OK" /\ m \in Persistent /\ ~(Len(batch) >= DupsOkBatch)
  <2>1. removes' = removes /\ pendingAcks' = [pendingAcks EXCEPT ![s] = batch]
    BY <1>5, Zenon DEF AcknowledgeRecord, batch
  <2>2. /\ pendingAcks'[s] = batch
        /\ \A o \in Sessions : o # s => pendingAcks'[o] = pendingAcks[o]
    BY <2>1
  <2> QED
    BY <1>2, <2>1, <2>2, Zenon DEF Asked
<1> QED
  BY <1>3, <1>4, <1>5, Zenon

\* removeAsync() takes nothing back that was asked for.
LEMMA RemoveAsyncAsks ==
  ASSUME removes \in [Sessions -> SUBSET Persistent], NEW s \in Sessions, NEW ms,
         RemoveAsync(s, ms), UNCHANGED pendingAcks
  PROVE  (\A o \in Sessions : Asked(o) \subseteq Asked(o)') /\ ms \cap Persistent \subseteq Asked(s)'
<1>1. /\ removes'[s] = removes[s] \cup (ms \cap Persistent)
      /\ \A o \in Sessions : o # s => removes'[o] = removes[o]
  BY Zenon DEF RemoveAsync
<1> QED
  BY <1>1, Zenon DEF Asked

\* Neither does the flush of a batch.
LEMMA FlushAsks ==
  ASSUME removes \in [Sessions -> SUBSET Persistent],
         pendingAcks \in [Sessions -> Seq(Persistent)], NEW s \in Sessions,
         RemoveAsync(s, ToSet(pendingAcks[s])), pendingAcks' = [pendingAcks EXCEPT ![s] = <<>>]
  PROVE  /\ \A o \in Sessions : Asked(o) \subseteq Asked(o)'
         /\ pendingAcks'[s] = <<>> /\ \A o \in Sessions : o # s => pendingAcks'[o] = pendingAcks[o]
<1>1. ToSet(pendingAcks[s]) \subseteq Persistent
  BY BatchType, Zenon
<1>2. /\ removes'[s] = removes[s] \cup ToSet(pendingAcks[s])
      /\ \A o \in Sessions : o # s => removes'[o] = removes[o]
  BY <1>1, Zenon DEF RemoveAsync
<1>3. pendingAcks'[s] = <<>> /\ \A o \in Sessions : o # s => pendingAcks'[o] = pendingAcks[o]
  BY Zenon
<1> QED
  BY <1>2, <1>3, Zenon DEF Asked

\* A storage operation that threw is not forgotten.
LEMMA FailureStays ==
  ASSUME TypeOK, [Next]_vars
  PROVE  bounds'["failure"] = 0 => bounds["failure"] = 0
<1>0. bounds \in [Counters -> Nat] /\ "failure" \in Counters
  BY Zenon DEF TypeOK, Counters
<1>1. ASSUME NEW c \in Counters, Count(c)
      PROVE  bounds'["failure"] = 0 => bounds["failure"] = 0
  BY <1>0, <1>1 DEF Count
<1>2. CASE Crash
  BY <1>0, <1>2, Zenon DEF Crash
<1>3. ASSUME CreateDestination \/ UNCHANGED vars
      PROVE  UNCHANGED bounds \/ \E c \in Counters : Count(c)
  BY <1>3, Zenon DEF CreateDestination, vars, Counters
<1>4. ASSUME NEW s \in Sessions,
             CreateConsumer(s) \/ WalkDone(s) \/ CloseSession(s) \/ DeleteConsumer(s) \/ ReplayStoredMessages(s)
      PROVE  UNCHANGED bounds \/ \E c \in Counters : Count(c)
  BY <1>4, Zenon DEF CreateConsumer, WalkDone, CloseSession, DeleteConsumer, ReplayStoredMessages, Counters
<1>5. ASSUME NEW s \in Sessions, RecoverBegin(s) \/ RollbackBegin(s) \/ CommitBegin(s) \/ CloseDone(s)
      PROVE  UNCHANGED bounds
  BY <1>5, Zenon DEF RecoverBegin, RollbackBegin, CommitBegin, CloseDone
<1>6. ASSUME NEW p \in Messages, SendNowhere(p) \/ SendEnqueue(p) \/ Expire(p) \/ SweepExpired(p)
      PROVE  UNCHANGED bounds
  BY <1>6, Zenon DEF SendNowhere, SendEnqueue, Expire, SweepExpired
<1>7. ASSUME NEW p \in Messages, SendPrepare(p) \/ \E s \in Sessions : ExecuteRemove(s, p)
      PROVE  UNCHANGED bounds \/ \E c \in Counters : Count(c)
  BY <1>0, <1>7, Zenon DEF SendPrepare, ExecuteRemove
<1>8. ASSUME NEW s \in Sessions, NEW x \in Copies,
             RecvExpired(s, x) \/ Recv(s, x) \/ Acknowledge(s, x) \/ CommitOne(s, x) \/ Requeue(s, x)
      PROVE  UNCHANGED bounds
  BY <1>8, Zenon DEF RecvExpired, Recv, Acknowledge, CommitOne, Requeue
<1>9. ASSUME NEW s \in Sessions, NEW x \in Copies,
             DeadLetter(s, x) \/ \E o \in Sessions : AcknowledgeForeign(s, o, x)
      PROVE  UNCHANGED bounds \/ \E c \in Counters : Count(c)
  BY <1>9, Zenon DEF DeadLetter, AcknowledgeForeign, Counters
<1>10. ASSUME NEW x \in Copies, Due(x)
       PROVE  UNCHANGED bounds
  BY <1>10, Zenon DEF Due
<1>11. CASE UNCHANGED bounds
  BY <1>11, Zenon
<1> QED
  BY <1>1, <1>2, <1>3, <1>4, <1>5, <1>6, <1>7, <1>8, <1>9, <1>10, <1>11, Zenon
     DEF Next, Opening, Background, Sending, Receiving, Deciding, Closing, Walking

\* Only what is in memory is acknowledged, and only what is sent is stored.
LEMMA SentGrows ==
  ASSUME TypeOK, [Next]_vars
  PROVE  /\ sent \subseteq sent' /\ store' \subseteq store \cup sent'
         /\ \A o \in Sessions : acked'[o] \subseteq acked[o] \cup {m \in Messages : InMemory(m)}
<1> DEFINE Quiet == sent \subseteq sent' /\ store' \subseteq store \cup sent' /\ UNCHANGED acked
<1>1. ASSUME CreateDestination \/ UNCHANGED vars
      PROVE  Quiet
  BY <1>1, Zenon DEF CreateDestination, vars, disk, history
<1>2. ASSUME NEW s \in Sessions,
             CreateConsumer(s) \/ WalkDone(s) \/ CloseSession(s) \/ DeleteConsumer(s)
      PROVE  Quiet
  BY <1>2, Zenon DEF CreateConsumer, WalkDone, CloseSession, DeleteConsumer, Begin, disk, history
<1>3. ASSUME NEW s \in Sessions, RecoverBegin(s) \/ RollbackBegin(s) \/ CommitBegin(s)
      PROVE  Quiet
  BY <1>3, Zenon DEF RecoverBegin, RollbackBegin, CommitBegin, Begin, disk, history
<1>4. ASSUME NEW s \in Sessions, ReplayStoredMessages(s) \/ CloseDone(s)
      PROVE  Quiet
  BY <1>4, Zenon DEF ReplayStoredMessages, CloseDone, disk
<1>5. ASSUME NEW p \in Messages, SendNowhere(p) \/ SendEnqueue(p) \/ Expire(p) \/ SweepExpired(p)
      PROVE  Quiet
  BY <1>5, Zenon DEF SendNowhere, SendEnqueue, Expire, SweepExpired, disk, history
<1>6. ASSUME NEW p \in Messages, SendPrepare(p) \/ \E s \in Sessions : ExecuteRemove(s, p)
      PROVE  Quiet
  BY <1>6, Zenon DEF SendPrepare, ExecuteRemove, history
<1>7. ASSUME NEW s \in Sessions, NEW x \in Copies,
             RecvExpired(s, x) \/ Recv(s, x) \/ Requeue(s, x) \/ DeadLetter(s, x)
      PROVE  Quiet
  BY <1>7, Zenon DEF RecvExpired, Recv, Requeue, DeadLetter, disk, history
<1>8. ASSUME NEW s \in Sessions, NEW o \in Sessions, NEW x \in Copies, AcknowledgeForeign(s, o, x)
      PROVE  Quiet
  BY <1>8, Zenon DEF AcknowledgeForeign, disk, history
<1>9. ASSUME NEW x \in Copies, Due(x)
      PROVE  Quiet
  BY <1>9, Zenon DEF Due, disk, history
<1>10. ASSUME Quiet
       PROVE  /\ sent \subseteq sent' /\ store' \subseteq store \cup sent'
              /\ \A o \in Sessions : acked'[o] \subseteq acked[o] \cup {m \in Messages : InMemory(m)}
  BY <1>10, Zenon
<1> HIDE DEF Quiet
<1>11. ASSUME NEW s \in Sessions, NEW x \in Copies, Acknowledge(s, x) \/ CommitOne(s, x)
       PROVE  /\ UNCHANGED <<sent, store>>
              /\ \A o \in Sessions : acked'[o] \subseteq acked[o] \cup {m \in Messages : InMemory(m)}
  <2>1. /\ UNCHANGED <<sent, store>> /\ x \in In(s)
        /\ acked' = [acked EXCEPT ![s] = @ \cup {x[1]}]
    BY <1>11, Zenon DEF Acknowledge, CommitOne, disk
  <2>2. x[1] \in Messages /\ InMemory(x[1])
    BY <2>1, PlacesAndCopies, Zenon DEF InMemory
  <2>3. \A o \in Sessions : acked'[o] \subseteq acked[o] \cup {x[1]}
    BY <2>1, Zenon DEF TypeOK
  <2> QED
    BY <2>1, <2>2, <2>3, Zenon
<1>12. ASSUME Crash
       PROVE  UNCHANGED <<sent, store>> /\ \A o \in Sessions : acked'[o] = {}
  BY <1>12, Zenon DEF Crash, disk
<1> QED
  BY <1>1, <1>2, <1>3, <1>4, <1>5, <1>6, <1>7, <1>8, <1>9, <1>10, <1>11, <1>12, Zenon
     DEF Next, Opening, Background, Sending, Receiving, Deciding, Closing, Walking

\* Hence what is in memory, stored or acknowledged after a step was sent.
LEMMA NextSent ==
  ASSUME TypeOK, SentOK, [Next]_vars
  PROVE  SentOK'
<1>1. ASSUME NEW m \in Messages, InMemory(m)'
      PROVE  m \in sent'
  <2>1. Moved(m)
    BY NextMoves, Zenon
  <2> QED
    BY <1>1, <2>1, SentGrows, Zenon DEF Moved, SentOK
<1>2. store' \subseteq sent'
  BY SentGrows, Zenon DEF SentOK
<1>3. ASSUME NEW s \in Sessions
      PROVE  acked'[s] \subseteq sent'
  BY SentGrows, Zenon DEF SentOK
<1> QED
  BY <1>1, <1>2, <1>3, Zenon DEF SentOK

\* A batch exists only while its consumer is in the map: closing flushes it first.
LEMMA NextPhase ==
  ASSUME TypeOK, [Next]_vars, \A s \in Sessions : PhaseOK(s), NEW o \in Sessions
  PROVE  PhaseOK(o)'
<1>0. /\ pc \in [Sessions -> {"idle", "create", "recover", "rollback", "commit", "close", "delete"}]
      /\ removes \in [Sessions -> SUBSET Persistent] /\ pendingAcks \in [Sessions -> Seq(Persistent)]
  BY Zenon DEF TypeOK
<1> DEFINE Quiet == UNCHANGED <<consumers, pendingAcks>> /\ (pc'[o] = "create" => pc[o] = "create")
<1>1. ASSUME CreateDestination \/ UNCHANGED vars
      PROVE  Quiet
  BY <1>1, Zenon DEF CreateDestination, vars, routes
<1>2. ASSUME NEW s \in Sessions, WalkDone(s) \/ CloseSession(s)
      PROVE  Quiet
  <2>1. UNCHANGED <<consumers, pendingAcks>>
    BY <1>2, Zenon DEF WalkDone, CloseSession, routes
  <2>2. pc' = [pc EXCEPT ![s] = "idle"] \/ pc' = [pc EXCEPT ![s] = "close"]
    BY <1>2, Zenon DEF WalkDone, CloseSession, Begin
  <2> QED
    BY <1>0, <2>1, <2>2
<1>3. ASSUME NEW s \in Sessions, RecoverBegin(s) \/ RollbackBegin(s) \/ CommitBegin(s)
      PROVE  Quiet
  <2>1. UNCHANGED <<consumers, pendingAcks>>
    BY <1>3, Zenon DEF RecoverBegin, RollbackBegin, CommitBegin
  <2>2. \E what \in {"recover", "rollback", "commit"} : pc' = [pc EXCEPT ![s] = what]
    BY <1>3, Zenon DEF RecoverBegin, RollbackBegin, CommitBegin, Begin
  <2> QED
    BY <1>0, <2>1, <2>2
<1>4. ASSUME NEW p \in Messages,
             SendNowhere(p) \/ SendPrepare(p) \/ SendEnqueue(p) \/ Expire(p) \/ SweepExpired(p)
      PROVE  Quiet
  BY <1>4, Zenon DEF SendNowhere, SendPrepare, SendEnqueue, Expire, SweepExpired, routes
<1>5. ASSUME NEW s \in Sessions, NEW p \in Messages, ExecuteRemove(s, p)
      PROVE  Quiet
  BY <1>5, Zenon DEF ExecuteRemove, routes
<1>6. ASSUME NEW s \in Sessions, NEW x \in Copies,
             RecvExpired(s, x) \/ Recv(s, x) \/ CommitOne(s, x) \/ Requeue(s, x) \/ DeadLetter(s, x)
      PROVE  Quiet
  BY <1>6, Zenon DEF RecvExpired, Recv, CommitOne, Requeue, DeadLetter, routes
<1>7. ASSUME NEW x \in Copies, Due(x)
      PROVE  Quiet
  BY <1>7, Zenon DEF Due, routes
<1>8. ASSUME Quiet
      PROVE  PhaseOK(o)'
  BY <1>8, Zenon DEF PhaseOK
<1> HIDE DEF Quiet
<1>9. ASSUME NEW s \in Sessions, CreateConsumer(s)
      PROVE  PhaseOK(o)'
  <2>1. /\ s \notin consumers /\ UNCHANGED <<consumers, pendingAcks>> /\ (o # s => pc'[o] = pc[o])
    BY <1>0, <1>9, Zenon DEF CreateConsumer
  <2> QED
    BY <2>1, Zenon DEF PhaseOK
<1>10. ASSUME NEW s \in Sessions, ReplayStoredMessages(s)
       PROVE  PhaseOK(o)'
  <2>1. /\ consumers' = consumers \cup {s} /\ UNCHANGED pendingAcks
        /\ (o # s => pc'[o] = pc[o]) /\ pc'[s] = "idle"
    BY <1>0, <1>10, Zenon DEF ReplayStoredMessages
  <2> QED
    BY <2>1, Zenon DEF PhaseOK
<1>11. ASSUME NEW s \in Sessions, NEW x \in Copies,
              Acknowledge(s, x) \/ \E q \in Sessions : AcknowledgeForeign(s, q, x)
       PROVE  PhaseOK(o)'
  <2>1. s \in consumers /\ AcknowledgeRecord(s, x[1]) /\ UNCHANGED <<consumers, pc>>
    BY <1>11, Zenon DEF Acknowledge, AcknowledgeForeign, Open, routes
  <2>2. o # s => pendingAcks'[o] = pendingAcks[o]
    BY <1>0, <2>1, AcknowledgeRecordAsks, PlacesAndCopies, Zenon
  <2> QED
    BY <2>1, <2>2, Zenon DEF PhaseOK
<1>12. ASSUME NEW s \in Sessions, DeleteConsumer(s) \/ CloseDone(s)
       PROVE  PhaseOK(o)'
  <2>1. /\ consumers' = consumers \ {s} /\ pendingAcks' = [pendingAcks EXCEPT ![s] = <<>>]
        /\ pc' = [pc EXCEPT ![s] = "delete"] \/ pc' = [pc EXCEPT ![s] = "idle"]
    BY <1>12, Zenon DEF DeleteConsumer, CloseDone, Begin
  <2>2. /\ pendingAcks'[s] = <<>> /\ pc'[s] # "create"
        /\ o # s => pendingAcks'[o] = pendingAcks[o] /\ pc'[o] = pc[o]
    BY <1>0, <2>1
  <2> QED
    BY <2>1, <2>2, Zenon DEF PhaseOK
<1>13. ASSUME Crash
       PROVE  PhaseOK(o)'
  <2>1. consumers' = {} /\ pendingAcks'[o] = <<>>
    BY <1>13, Zenon DEF Crash
  <2> QED
    BY <2>1, Zenon DEF PhaseOK
<1> QED
  BY <1>1, <1>2, <1>3, <1>4, <1>5, <1>6, <1>7, <1>8, <1>9, <1>10, <1>11, <1>12, <1>13, Zenon
     DEF Next, Opening, Background, Sending, Receiving, Deciding, Closing, Walking

\* A step that stores and acknowledges nothing new and takes back no remove.
LEMMA AsksEnough ==
  ASSUME NEW o \in Sessions, AskedOK(o), bounds'["failure"] = 0 => bounds["failure"] = 0,
         store' \subseteq store, acked'[o] \subseteq acked[o], Asked(o) \subseteq Asked(o)'
  PROVE  AskedOK(o)'
  BY Zenon DEF AskedOK

\* Every session asks for the removes of what it acknowledges, and nothing takes a remove
\* away but its execution.
LEMMA NextAsked ==
  ASSUME TypeOK, SentOK, [Next]_vars, NEW o \in Sessions, AskedOK(o)
  PROVE  AskedOK(o)'
<1>0. /\ removes \in [Sessions -> SUBSET Persistent] /\ pendingAcks \in [Sessions -> Seq(Persistent)]
      /\ store \subseteq Persistent /\ acked \in [Sessions -> SUBSET Messages]
  BY Zenon DEF TypeOK
<1>f. bounds'["failure"] = 0 => bounds["failure"] = 0
  BY FailureStays, Zenon
<1> DEFINE Quiet == UNCHANGED <<store, acked, removes, pendingAcks>>
<1>1. ASSUME CreateDestination \/ UNCHANGED vars
      PROVE  Quiet
  BY <1>1, Zenon DEF CreateDestination, vars, disk, history
<1>2. ASSUME NEW s \in Sessions, CreateConsumer(s) \/ WalkDone(s) \/ CloseSession(s)
      PROVE  Quiet
  BY <1>2, Zenon DEF CreateConsumer, WalkDone, CloseSession, Begin, disk, history
<1>3. ASSUME NEW s \in Sessions, RecoverBegin(s) \/ RollbackBegin(s) \/ CommitBegin(s)
      PROVE  Quiet
  BY <1>3, Zenon DEF RecoverBegin, RollbackBegin, CommitBegin, Begin, disk, history
<1>4. ASSUME NEW p \in Messages, SendNowhere(p) \/ SendEnqueue(p) \/ Expire(p)
      PROVE  Quiet
  BY <1>4, Zenon DEF SendNowhere, SendEnqueue, Expire, disk, history
<1>5. ASSUME NEW s \in Sessions, NEW x \in Copies, Recv(s, x) \/ Requeue(s, x)
      PROVE  Quiet
  BY <1>5, Zenon DEF Recv, Requeue, disk, history
<1>6. ASSUME NEW x \in Copies, Due(x)
      PROVE  Quiet
  BY <1>6, Zenon DEF Due, disk, history
<1>7. ASSUME Quiet
      PROVE  AskedOK(o)'
  BY <1>f, <1>7, AsksEnough, Zenon DEF Asked
<1> HIDE DEF Quiet
<1>8. ASSUME NEW s \in Sessions, NEW x \in Copies, RecvExpired(s, x) \/ DeadLetter(s, x)
      PROVE  AskedOK(o)'
  <2>1. RemoveAsync(s, {x[1]}) /\ UNCHANGED <<store, acked, pendingAcks>>
    BY <1>8, Zenon DEF RecvExpired, DeadLetter, disk
  <2> QED
    BY <1>0, <1>f, <2>1, RemoveAsyncAsks, AsksEnough, Zenon
<1>9. ASSUME NEW s \in Sessions, NEW x \in Copies, \E q \in Sessions : AcknowledgeForeign(s, q, x)
      PROVE  AskedOK(o)'
  <2>1. AcknowledgeRecord(s, x[1]) /\ UNCHANGED <<store, acked>> /\ x[1] \in Messages
    BY <1>9, PlacesAndCopies, Zenon DEF AcknowledgeForeign, disk, history
  <2> QED
    BY <1>0, <1>f, <2>1, AcknowledgeRecordAsks, AsksEnough, Zenon
<1>10. ASSUME NEW s \in Sessions, DeleteConsumer(s) \/ CloseDone(s)
       PROVE  AskedOK(o)'
  <2>1. /\ RemoveAsync(s, ToSet(pendingAcks[s])) /\ pendingAcks' = [pendingAcks EXCEPT ![s] = <<>>]
        /\ UNCHANGED <<store, acked>>
    BY <1>10, Zenon DEF DeleteConsumer, CloseDone, Begin, disk, history
  <2> QED
    BY <1>0, <1>f, <2>1, FlushAsks, AsksEnough, Zenon
<1>11. ASSUME NEW s \in Sessions, NEW x \in Copies, Acknowledge(s, x) \/ CommitOne(s, x)
       PROVE  AskedOK(o)'
  <2>1. /\ UNCHANGED store /\ acked' = [acked EXCEPT ![s] = @ \cup {x[1]}] /\ x[1] \in Messages
        /\ AcknowledgeRecord(s, x[1]) \/ (RemoveAsync(s, {x[1]}) /\ UNCHANGED pendingAcks)
    BY <1>11, PlacesAndCopies, Zenon DEF Acknowledge, CommitOne, disk
  <2>2. Asked(o) \subseteq Asked(o)' /\ {x[1]} \cap Persistent \subseteq Asked(s)'
    <3>1. CASE AcknowledgeRecord(s, x[1])
      BY <1>0, <2>1, <3>1, AcknowledgeRecordAsks, Zenon
    <3>2. CASE RemoveAsync(s, {x[1]}) /\ UNCHANGED pendingAcks
      BY <1>0, <3>2, RemoveAsyncAsks, Zenon
    <3> QED
      BY <2>1, <3>1, <3>2, Zenon
  <2>3. acked'[s] = acked[s] \cup {x[1]} /\ (o # s => acked'[o] = acked[o])
    BY <1>0, <2>1, Zenon
  <2> QED
    BY <1>0, <1>f, <2>1, <2>2, <2>3, Zenon DEF AskedOK
<1>12. ASSUME NEW p \in Messages, SendPrepare(p)
       PROVE  AskedOK(o)'
  <2>1. p \notin sent /\ store' \subseteq store \cup {p} /\ UNCHANGED <<acked, removes, pendingAcks>>
    BY <1>12, Zenon DEF SendPrepare
  <2> QED
    BY <1>f, <2>1, Zenon DEF AskedOK, SentOK, Asked
<1>13. ASSUME NEW s \in Sessions, ReplayStoredMessages(s)
       PROVE  AskedOK(o)'
  <2>1. /\ store' = store \ removes[s] /\ UNCHANGED <<acked, pendingAcks>>
        /\ removes'[s] = {} /\ (o # s => removes'[o] = removes[o])
    BY <1>0, <1>13, Zenon DEF ReplayStoredMessages
  <2> QED
    BY <1>f, <2>1, Zenon DEF AskedOK, Asked
<1>14. ASSUME NEW s \in Sessions, NEW p \in Messages, ExecuteRemove(s, p)
       PROVE  AskedOK(o)'
  <2>1. /\ removes' = [removes EXCEPT ![s] = @ \ {p}] /\ UNCHANGED <<acked, pendingAcks>>
        /\ store' = store \ {p} \/ Count("failure")
    BY <1>14, Zenon DEF ExecuteRemove, history
  <2>2. Count("failure") => bounds'["failure"] # 0
    BY DEF Count, TypeOK, Counters
  <2>3. removes[o] \subseteq removes'[o] \cup {p}
    BY <1>0, <2>1, Zenon
  <2> QED
    BY <1>f, <2>1, <2>2, <2>3, Zenon DEF AskedOK, Asked
<1>15. ASSUME NEW p \in Messages, SweepExpired(p)
       PROVE  AskedOK(o)'
  BY <1>f, <1>15, Zenon DEF SweepExpired, AskedOK, Asked
<1>16. ASSUME Crash
       PROVE  AskedOK(o)'
  BY <1>16, Zenon DEF Crash, AskedOK
<1> QED
  BY <1>1, <1>2, <1>3, <1>4, <1>5, <1>6, <1>7, <1>8, <1>9, <1>10, <1>11, <1>12, <1>13, <1>14, <1>15,
     <1>16, Zenon DEF Next, Opening, Background, Sending, Receiving, Deciding, Closing, Walking

\* The only step in which s comes back from createConsumer(), a crash apart, is the replay.
LEMMA OnlyReplay ==
  ASSUME TypeOK, [Next]_vars, NEW s \in Sessions, pc[s] = "create", pc'[s] = "idle", opened'
  PROVE  ReplayStoredMessages(s)
<1>0. pc \in [Sessions -> {"idle", "create", "recover", "rollback", "commit", "close", "delete"}]
  BY Zenon DEF TypeOK
<1>1. ~(UNCHANGED pc)
  OBVIOUS
<1>2. ~(CreateDestination \/ UNCHANGED vars)
  BY <1>1, Zenon DEF CreateDestination, vars
<1>3. ASSUME NEW t \in Sessions, pc[t] # "create", NEW v, pc' = [pc EXCEPT ![t] = v]
      PROVE  FALSE
  BY <1>0, <1>3
<1>4. ASSUME NEW t \in Sessions, NEW v, v # "idle", pc' = [pc EXCEPT ![t] = v]
      PROVE  FALSE
  BY <1>0, <1>4
<1>5. ASSUME NEW t \in Sessions, WalkDone(t) \/ CloseDone(t)
      PROVE  FALSE
  <2>1. pc[t] # "create" /\ pc' = [pc EXCEPT ![t] = "idle"]
    BY <1>5, Zenon DEF WalkDone, CloseDone
  <2> QED
    BY <1>3, <2>1, Zenon
<1>6. ASSUME NEW t \in Sessions, CreateConsumer(t)
      PROVE  FALSE
  <2>1. pc' = [pc EXCEPT ![t] = "create"]
    BY <1>6, Zenon DEF CreateConsumer
  <2> QED
    BY <1>4, <2>1
<1>7. ASSUME NEW t \in Sessions, NEW v, Begin(t, v)
      PROVE  FALSE
  <2>1. pc[t] # "create" /\ pc' = [pc EXCEPT ![t] = v]
    BY <1>7 DEF Begin, Open
  <2> QED
    BY <1>3, <2>1, Zenon
<1>8. ASSUME NEW t \in Sessions, \/ RecoverBegin(t) \/ RollbackBegin(t) \/ CommitBegin(t)
                                 \/ CloseSession(t) \/ DeleteConsumer(t)
      PROVE  FALSE
  BY <1>7, <1>8, Zenon DEF RecoverBegin, RollbackBegin, CommitBegin, CloseSession, DeleteConsumer
<1>9. ASSUME NEW t \in Sessions, t # s
      PROVE  ~ReplayStoredMessages(t)
  <2>1. ASSUME pc' = [pc EXCEPT ![t] = "idle"]
        PROVE  FALSE
    BY <1>0, <1>9, <2>1
  <2> QED
    BY <2>1, Zenon DEF ReplayStoredMessages
<1>10. ASSUME NEW p \in Messages, \/ SendNowhere(p) \/ SendPrepare(p) \/ SendEnqueue(p) \/ Expire(p)
                                  \/ SweepExpired(p) \/ \E t \in Sessions : ExecuteRemove(t, p)
       PROVE  FALSE
  BY <1>1, <1>10, Zenon DEF SendNowhere, SendPrepare, SendEnqueue, Expire, SweepExpired, ExecuteRemove
<1>11. ASSUME NEW t \in Sessions, NEW x \in Copies,
              \/ RecvExpired(t, x) \/ Recv(t, x) \/ Acknowledge(t, x) \/ CommitOne(t, x)
              \/ Requeue(t, x) \/ DeadLetter(t, x) \/ \E q \in Sessions : AcknowledgeForeign(t, q, x)
       PROVE  FALSE
  BY <1>1, <1>11, Zenon DEF RecvExpired, Recv, Acknowledge, CommitOne, Requeue, DeadLetter,
                            AcknowledgeForeign
<1>12. ASSUME NEW x \in Copies, Due(x)
       PROVE  FALSE
  BY <1>1, <1>12, Zenon DEF Due
<1>13. ~Crash
  BY Zenon DEF Crash
<1> QED
  BY <1>2, <1>5, <1>6, <1>8, <1>9, <1>10, <1>11, <1>12, <1>13, Zenon
     DEF Next, Opening, Background, Sending, Receiving, Deciding, Closing, Walking

\* As long as no storage operation throws, a session that acknowledged or committed a message
\* and then opens a new consumer does not get it replayed: its removes, batched ones included,
\* come before the scan of createConsumer() (Consumer::acknowledgeOn(), flushPendingAcks()).
THEOREM AckedIsNotReplayed == Spec => AckedNotReplayed
<1>1. Init => ReplayInv
  <2> SUFFICES ASSUME Init PROVE ReplayInv
    OBVIOUS
  <2>1. ASSUME NEW m \in Messages
        PROVE  ~InMemory(m)
    <3>1. ASSUME NEW q \in Places, NEW x \in Copies
          PROVE  ~(copies[q][x] > 0)
      <4>1. copies[q][x] = 0
        BY Zenon DEF Init, NoCopies
      <4> QED
        BY <4>1
    <3> QED
      BY <3>1, Zenon DEF InMemory, In
  <2>2. SentOK
    BY <2>1, Zenon DEF Init, SentOK
  <2>3. ASSUME NEW s \in Sessions
        PROVE  PhaseOK(s) /\ AskedOK(s)
    BY Zenon DEF Init, PhaseOK, AskedOK
  <2> QED
    BY <2>2, <2>3, InitType, Zenon DEF ReplayInv
<1>2. ReplayInv /\ [Next]_vars => ReplayInv'
  BY NextType, NextSent, NextPhase, NextAsked, Zenon DEF ReplayInv
<1>3. ASSUME ReplayInv, [Next]_vars, NEW s \in Sessions,
             pc[s] = "create", pc'[s] = "idle", opened', bounds["failure"] = 0
      PROVE  Replayed \cap acked[s] = {}
  <2>1. TypeOK /\ PhaseOK(s) /\ AskedOK(s) /\ ReplayStoredMessages(s)
    BY <1>3, OnlyReplay, Zenon DEF ReplayInv
  <2>2. ToSet(pendingAcks[s]) = {}
    BY <1>3, <2>1 DEF PhaseOK, ToSet
  <2>3. acked[s] \cap Live(s) = {}
    BY <1>3, <2>1, <2>2, Zenon DEF AskedOK, Asked, Live
  <2>4. ASSUME NEW m \in Replayed
        PROVE  m \in Live(s)
    <3>1. /\ m \in Messages /\ <<m, 0>> \in Copies /\ <<m, 0>>[1] = m
          /\ copies'["queue"][<<m, 0>>] > copies["queue"][<<m, 0>>]
      BY PlacesAndCopies, Zenon DEF Replayed
    <3>2. /\ copies["queue"][<<m, 0>>] \in Nat
          /\ m \notin Live(s) => copies'["queue"][<<m, 0>>] = copies["queue"][<<m, 0>>]
      BY <2>1, <3>1, ReplayCounts, Zenon
    <3> QED
      BY <3>1, <3>2
  <2> QED
    BY <2>3, <2>4, Zenon
<1>4. ReplayInv /\ [Next]_vars =>
        [\A s \in Sessions :
           pc[s] = "create" /\ pc'[s] = "idle" /\ opened' /\ bounds["failure"] = 0 =>
              Replayed \cap acked[s] = {}]_vars
  BY <1>3, Zenon
<1> QED
  BY <1>1, <1>2, <1>4, PTL DEF Spec, AckedNotReplayed
=============================================================================
