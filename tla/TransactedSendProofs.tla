------------------------ MODULE TransactedSendProofs ------------------------
(***************************************************************************)
(* Proofs about TransactedSend, for any producers, destinations, messages  *)
(* and bounds: what a commit() has to store is stored before it returns    *)
(* and before a consumer sees it, its delay resolved, and nothing appears  *)
(* of a transaction whose COMMIT is not in the log.                        *)
(***************************************************************************)
EXTENDS TransactedSend, TLAPS

\* Where a message is on its way through a transaction.
InStage(m) == m \in ToSet(staged[ProducerOf[m]])
InBuffer(m) == m \in ToSet(buffered[HomeOf(m)])
InBatch(m) == m \in ToSet(batch)
InCurrent(m) == m \in ToSet(current)

\* The producers that may still have staged messages of the current transaction.
Unvisited == IF pc = "idle" THEN producers ELSE todo

\* What is staged was sent in the current transaction by a producer that exists and
\* that commit() has not visited.
StageOK(m) == InStage(m) =>
    sentIn[m] = tx /\ m \notin discarded /\ tx <= MaxTx /\ ProducerOf[m] \in Unvisited

\* What is buffered is staged as well, in a transaction that is open in its destination.
BufferOK(m) == InBuffer(m) => InStage(m) /\ log[HomeOf(m)][tx] = "BEGIN"

\* What is being appended is logged as committed, and its delay is resolved.
BatchOK(m) == InBatch(m) =>
    /\ pc = "append" /\ sentIn[m] = tx /\ m \notin discarded
    /\ log[HomeOf(m)][tx] = "COMMIT"
    /\ Alone(m) /\ m \in Delayed => m \in resolved

\* What is about to be delivered is of a producer that commit() has visited.
CurrentOK(m) == InCurrent(m) =>
    pc \in {"append", "deliver"} /\ sentIn[m] = tx /\ m \notin discarded /\ ProducerOf[m] \notin todo

\* What is visible was not rolled back, and cannot be any more.
VisibleOK(m) == m \in visible =>
    sentIn[m] > 0 /\ m \notin discarded /\ (sentIn[m] = tx => pc # "idle")

StoreOK(m) == m \in store =>
    /\ sentIn[m] \in 1..MaxTx /\ m \notin discarded
    /\ log[HomeOf(m)][sentIn[m]] = "COMMIT"
    /\ Alone(m) /\ m \in Delayed => m \in delayStored

\* A persistent message of the current transaction is buffered, being appended or
\* stored; what is committed or visible is stored.
KeptOK(m) == failures = 0 /\ Alone(m) /\ m \in Persistent =>
    /\ sentIn[m] = tx /\ m \notin discarded => InBuffer(m) \/ InBatch(m) \/ m \in store
    /\ m \in committed \cup visible => m \in store

\* Messages are sent in transactions up to the current one.
SentOK(m) == sentIn[m] <= tx /\ (m \in discarded => sentIn[m] > 0)

MessageOK(m) ==
    /\ SentOK(m) /\ StageOK(m) /\ BufferOK(m) /\ BatchOK(m) /\ CurrentOK(m)
    /\ VisibleOK(m) /\ StoreOK(m) /\ KeptOK(m)

\* The log says nothing of later transactions, and no COMMIT of one that the
\* application is still sending in.
LogOK == \A d \in Destinations, t \in 1..MaxTx :
    /\ t > tx => log[d][t] = "none"
    /\ t = tx /\ pc = "idle" => log[d][t] # "COMMIT"

TransactionInv ==
    /\ TypeOK /\ LogOK /\ (pc # "idle" => tx <= MaxTx)
    /\ \A p \in Producers : \A m \in ToSet(staged[p]) : ProducerOf[m] = p
    /\ \A m \in Messages : MessageOK(m)

-----------------------------------------------------------------------------
\* Append() adds one element to the set of a sequence.
LEMMA AppendSet ==
  ASSUME NEW S, NEW s \in Seq(S), NEW e \in S
  PROVE  Append(s, e) \in Seq(S) /\ ToSet(Append(s, e)) = ToSet(s) \cup {e}
<1>1. /\ Append(s, e) \in Seq(S) /\ Len(Append(s, e)) = Len(s) + 1
      /\ \A i \in 1..Len(s) : Append(s, e)[i] = s[i]
      /\ Append(s, e)[Len(s) + 1] = e
  OBVIOUS
<1>2. DOMAIN s = 1..Len(s) /\ DOMAIN Append(s, e) = 1..(Len(s) + 1) /\ Len(s) \in Nat
  OBVIOUS
<1> QED
  BY <1>1, <1>2 DEF ToSet

\* Head() and Tail() have the elements of a sequence between them.
LEMMA TailSet ==
  ASSUME NEW S, NEW s \in Seq(S), s # <<>>
  PROVE  /\ Tail(s) \in Seq(S) /\ Head(s) \in S
         /\ Head(s) \in ToSet(s) /\ ToSet(Tail(s)) \subseteq ToSet(s)
         /\ \A e \in ToSet(s) : e = Head(s) \/ e \in ToSet(Tail(s))
<1>1. /\ Tail(s) \in Seq(S) /\ Len(Tail(s)) = Len(s) - 1 /\ Len(s) \in Nat \ {0}
      /\ \A i \in 1..Len(Tail(s)) : Tail(s)[i] = s[i + 1]
      /\ Head(s) = s[1]
  OBVIOUS
<1>2. DOMAIN s = 1..Len(s) /\ DOMAIN Tail(s) = 1..(Len(s) - 1)
  BY <1>1
<1>3. Head(s) \in S /\ Head(s) \in ToSet(s) /\ ToSet(Tail(s)) \subseteq ToSet(s)
  BY <1>1, <1>2 DEF ToSet
<1>4. ASSUME NEW e \in ToSet(s) PROVE e = Head(s) \/ e \in ToSet(Tail(s))
  <2>1. PICK i \in 1..Len(s) : e = s[i]
    BY <1>2 DEF ToSet
  <2>2. i # 1 => i - 1 \in 1..Len(Tail(s)) /\ Tail(s)[i - 1] = s[i]
    BY <1>1
  <2> QED
    BY <1>1, <1>2, <2>1, <2>2, Zenon DEF ToSet
<1> QED
  BY <1>1, <1>3, <1>4

\* An empty sequence has no elements, and a sequence over S has elements of S.
LEMMA EmptySet == ToSet(<<>>) = {}
  BY DEF ToSet

LEMMA SetOf ==
  ASSUME NEW S, NEW s \in Seq(S)
  PROVE  ToSet(s) \subseteq S
  BY DEF ToSet

\* A message has a producer, and a destination.
LEMMA Homes ==
  ASSUME NEW m \in Messages
  PROVE  ProducerOf[m] \in Producers /\ HomeOf(m) \in Destinations
  BY TransactedSendAssumption DEF HomeOf

\* One log, and a log with one more record.
LogTypes == [1..MaxTx -> {"none", "BEGIN", "COMMIT", "ROLLBACK"}]
Logged(old, d, t, e) == [old EXCEPT ![d][t] = e]

\* A record in the log of one destination changes the state of one transaction.
LEMMA LogRecord ==
  ASSUME NEW old \in [Destinations -> LogTypes], NEW d \in Destinations, NEW t \in 1..MaxTx,
         NEW e \in {"BEGIN", "COMMIT"}
  PROVE  /\ Logged(old, d, t, e) \in [Destinations -> LogTypes]
         /\ Logged(old, d, t, e)[d][t] = e
         /\ \A c \in Destinations, u \in 1..MaxTx :
               c # d \/ u # t => Logged(old, d, t, e)[c][u] = old[c][u]
<1> DEFINE new == Logged(old, d, t, e)
<1>1. old[d] \in LogTypes
  OBVIOUS
<1>2. [old[d] EXCEPT ![t] = e] \in LogTypes
  BY <1>1 DEF LogTypes
<1>3. /\ new[d] = [old[d] EXCEPT ![t] = e] /\ new \in [Destinations -> LogTypes]
      /\ \A c \in Destinations : c # d => new[c] = old[c]
  BY <1>2 DEF Logged
<1> HIDE DEF new
<1>4. new[d][t] = e /\ \A u \in 1..MaxTx : u # t => new[d][u] = old[d][u]
  BY <1>1, <1>3 DEF LogTypes
<1>5. \A c \in Destinations, u \in 1..MaxTx : c # d \/ u # t => new[c][u] = old[c][u]
  BY <1>3, <1>4, Zenon
<1> QED
  BY <1>3, <1>4, <1>5, Zenon DEF new

\* The parts of the invariant, for one message.
LEMMA Parts ==
  ASSUME TransactionInv, NEW m \in Messages
  PROVE  /\ SentOK(m) /\ StageOK(m) /\ BufferOK(m) /\ BatchOK(m) /\ CurrentOK(m)
         /\ VisibleOK(m) /\ StoreOK(m) /\ KeptOK(m)
         /\ sentIn[m] \in Nat /\ tx \in Nat \ {0}
         /\ ProducerOf[m] \in Producers /\ HomeOf(m) \in Destinations
  BY Homes DEF TransactionInv, MessageOK, TypeOK

\* In the initial state nothing is sent.
LEMMA InitInv == Init => TransactionInv
<1> SUFFICES ASSUME Init PROVE TransactionInv
  OBVIOUS
<1>1. /\ \A p \in Producers : ToSet(staged[p]) = {}
      /\ \A d \in Destinations : ToSet(buffered[d]) = {}
      /\ ToSet(current) = {} /\ ToSet(batch) = {}
  BY EmptySet DEF Init
<1>2. TypeOK
  BY <1>1, TransactedSendAssumption DEF Init, TypeOK
<1>3. LogOK
  BY DEF Init, LogOK
<1>4. ASSUME NEW m \in Messages PROVE MessageOK(m)
  <2>1. ~InStage(m) /\ ~InBuffer(m) /\ ~InBatch(m) /\ ~InCurrent(m)
    BY <1>1, Homes DEF InStage, InBuffer, InBatch, InCurrent
  <2> QED
    BY <2>1 DEF Init, MessageOK, SentOK, StageOK, BufferOK, BatchOK, CurrentOK, VisibleOK, StoreOK,
       KeptOK
<1> QED
  BY <1>1, <1>2, <1>3, <1>4 DEF TransactionInv, Init

-----------------------------------------------------------------------------
\* send() stages the message, and opens the transaction in its destination if the
\* message is persistent: no COMMIT is overwritten, as the session is idle.
LEMMA SendStep ==
  ASSUME TransactionInv, NEW n \in Messages, Send(n)
  PROVE  TransactionInv'
<1>1. /\ pc = "idle" /\ tx <= MaxTx /\ tx \in Nat \ {0} /\ tx \in 1..MaxTx /\ MaxTx \in Nat
      /\ tx > 0 /\ sentIn[n] = 0 /\ ~(sentIn[n] > 0) /\ ProducerOf[n] \in producers
  BY TransactedSendAssumption DEF Send, TransactionInv, TypeOK
<1>10. UNCHANGED <<tx, producers, resolved, pc, todo, current, batch, store, delayStored, visible,
                   deletes, crashes, failures, committed, discarded>>
  BY DEF Send, commit, bounds, history
<1>11. Unvisited = producers /\ Unvisited' = producers
  BY <1>1, <1>10 DEF Unvisited
<1>2. /\ sentIn'[n] = tx /\ \A m \in Messages : m # n => sentIn'[m] = sentIn[m]
      /\ sentIn' \in [Messages -> Nat]
  BY <1>1 DEF Send, TransactionInv, TypeOK
<1>3. /\ staged' \in [Producers -> Seq(Messages)]
      /\ \A p \in Producers : p # ProducerOf[n] => staged'[p] = staged[p]
      /\ ToSet(staged'[ProducerOf[n]]) = ToSet(staged[ProducerOf[n]]) \cup {n}
  <2>1. /\ staged \in [Producers -> Seq(Messages)] /\ ProducerOf[n] \in Producers
        /\ staged' = [staged EXCEPT ![ProducerOf[n]] = Append(staged[ProducerOf[n]], n)]
    BY Homes DEF Send, TransactionInv, TypeOK
  <2>2. staged[ProducerOf[n]] \in Seq(Messages)
    BY <2>1
  <2> QED
    BY <2>1, <2>2, AppendSet
<1>4. /\ buffered' \in [Destinations -> Seq(Persistent)]
      /\ \A d \in Destinations : d # HomeOf(n) => buffered'[d] = buffered[d]
      /\ ToSet(buffered'[HomeOf(n)]) = ToSet(buffered[HomeOf(n)]) \cup ({n} \cap Persistent)
  <2>1. /\ buffered \in [Destinations -> Seq(Persistent)] /\ HomeOf(n) \in Destinations
        /\ IF n \in Persistent
           THEN buffered' = [buffered EXCEPT ![HomeOf(n)] = Append(buffered[HomeOf(n)], n)]
           ELSE buffered' = buffered
    BY Homes DEF Send, TransactionInv, TypeOK
  <2>2. buffered[HomeOf(n)] \in Seq(Persistent)
    BY <2>1
  <2>3. CASE n \in Persistent
    <3>1. /\ Append(buffered[HomeOf(n)], n) \in Seq(Persistent)
          /\ ToSet(Append(buffered[HomeOf(n)], n)) = ToSet(buffered[HomeOf(n)]) \cup {n}
      BY <2>2, <2>3, AppendSet
    <3>2. buffered' = [buffered EXCEPT ![HomeOf(n)] = Append(buffered[HomeOf(n)], n)]
      BY <2>1, <2>3
    <3>3. {n} \cap Persistent = {n}
      BY <2>3
    <3> QED
      BY <2>1, <3>1, <3>2, <3>3
  <2>4. CASE n \notin Persistent
    BY <2>1, <2>4
  <2> QED
    BY <2>3, <2>4
<1>5. /\ log' \in [Destinations -> LogTypes]
      /\ \A d \in Destinations, t \in 1..MaxTx : t # tx => log'[d][t] = log[d][t]
      /\ \A d \in Destinations : log'[d][tx] \in {log[d][tx], "BEGIN"}
      /\ n \in Persistent => log'[HomeOf(n)][tx] = "BEGIN"
  <2>1. /\ log \in [Destinations -> LogTypes]
        /\ HomeOf(n) \in Destinations
        /\ IF n \in Persistent THEN log' = [log EXCEPT ![HomeOf(n)][tx] = "BEGIN"]
           ELSE log' = log
    BY Homes DEF Send, TransactionInv, TypeOK, LogTypes
  <2>2. CASE n \in Persistent
    <3>1. log' = Logged(log, HomeOf(n), tx, "BEGIN") /\ "BEGIN" \in {"BEGIN", "COMMIT"}
      BY <2>1, <2>2 DEF Logged
    <3>4. tx \in 1..MaxTx /\ HomeOf(n) \in Destinations /\ log \in [Destinations -> LogTypes]
      BY <1>1, <2>1
    <3>5. /\ Logged(log, HomeOf(n), tx, "BEGIN") \in [Destinations -> LogTypes]
          /\ Logged(log, HomeOf(n), tx, "BEGIN")[HomeOf(n)][tx] = "BEGIN"
          /\ \A c \in Destinations, u \in 1..MaxTx :
                c # HomeOf(n) \/ u # tx
                    => Logged(log, HomeOf(n), tx, "BEGIN")[c][u] = log[c][u]
      BY <3>1, <3>4, LogRecord
    <3>2. /\ log' \in [Destinations -> LogTypes] /\ log'[HomeOf(n)][tx] = "BEGIN"
          /\ \A c \in Destinations, u \in 1..MaxTx :
                c # HomeOf(n) \/ u # tx => log'[c][u] = log[c][u]
      BY <3>1, <3>5
    <3>3. \A d \in Destinations : log'[d][tx] = log[d][tx] \/ log'[d][tx] = "BEGIN"
      BY <1>1, <3>2, Zenon
    <3> QED
      BY <1>1, <3>2, <3>3, Zenon
  <2>3. CASE n \notin Persistent
    BY <2>1, <2>3
  <2> QED
    BY <2>2, <2>3
<1>6. TypeOK'
  <2>1. \A d \in Destinations : \A m \in ToSet(buffered'[d]) : HomeOf(m) = d
    BY <1>4, Homes, Zenon DEF TransactionInv, TypeOK
  <2>2. TypeOK
    BY DEF TransactionInv
  <2> QED
    BY <1>2, <1>3, <1>4, <1>5, <1>10, <2>1, <2>2, Zenon DEF TypeOK, HomeOf, LogTypes
<1>7. LogOK'
  <2>1. \A t \in 1..MaxTx : t > tx => t # tx
    BY <1>1
  <2> QED
    BY <1>1, <1>5, <1>10, <2>1 DEF TransactionInv, LogOK
<1>8. \A p \in Producers : \A m \in ToSet(staged'[p]) : ProducerOf[m] = p
  BY <1>3, Zenon DEF TransactionInv
<1>9. ASSUME NEW m \in Messages PROVE MessageOK(m)'
  <2>1. /\ InStage(m)' <=> InStage(m) \/ m = n
        /\ InBuffer(m)' <=> InBuffer(m) \/ (m = n /\ n \in Persistent)
        /\ InBatch(m)' <=> InBatch(m) 
        /\ InCurrent(m)' <=> InCurrent(m)
    <3>1. InStage(m)' <=> InStage(m) \/ m = n
      BY <1>3, Homes, Zenon DEF InStage
    <3>2. InBuffer(m)' <=> InBuffer(m) \/ (m = n /\ n \in Persistent)
      BY <1>4, Homes, Zenon DEF InBuffer, HomeOf
    <3> QED
      BY <1>10, <3>1, <3>2, Zenon DEF InBatch, InCurrent
  <2>2. /\ SentOK(m) /\ StageOK(m) /\ BufferOK(m) /\ BatchOK(m) /\ CurrentOK(m)
        /\ VisibleOK(m) /\ StoreOK(m) /\ KeptOK(m)
        /\ sentIn[m] \in Nat /\ HomeOf(m) \in Destinations
    BY Parts, Zenon
  <2>3. m = n => m \notin discarded /\ m \notin visible /\ m \notin store
    <3>1. sentIn[n] \notin 1..MaxTx
      BY <1>1
    <3> QED
      BY <1>1, <2>2, <3>1, Zenon DEF SentOK, VisibleOK, StoreOK
  <2>4. SentOK(m)' /\ VisibleOK(m)'
    <3>1. tx <= tx
      BY <1>1
    <3>2. CASE m = n
      BY <1>1, <1>2, <1>10, <2>3, <3>1, <3>2, Zenon DEF SentOK, VisibleOK
    <3>3. CASE m # n
      BY <1>2, <1>10, <2>2, <3>3, Zenon DEF SentOK, VisibleOK
    <3> QED
      BY <3>2, <3>3, Zenon
  <2>10. StageOK(m)'
    BY <1>1, <1>2, <1>10, <1>11, <2>1, <2>2, <2>3, Zenon DEF StageOK
  <2>7. ~InBatch(m) /\ ~InCurrent(m)
    <3>1. pc # "append" /\ pc \notin {"append", "deliver"}
      BY <1>1
    <3> QED
      BY <2>2, <3>1, Zenon DEF BatchOK, CurrentOK
  <2>8. CurrentOK(m)' /\ BatchOK(m)'
    BY <2>1, <2>7, Zenon DEF CurrentOK, BatchOK
  <2>9. BufferOK(m)'
    <3>1. InBuffer(m)' => log'[HomeOf(m)][tx] = "BEGIN" /\ InStage(m)'
      BY <1>5, <2>1, <2>2 DEF BufferOK
    <3> QED
      BY <1>10, <3>1, Zenon DEF BufferOK, HomeOf
  <2>5. StoreOK(m)'
    <3>1. ASSUME m \in store PROVE sentIn[m] # tx
      BY <1>1, <2>2, <3>1 DEF TransactionInv, LogOK, StoreOK
    <3>2. m \in store => log'[HomeOf(m)][sentIn'[m]] = log[HomeOf(m)][sentIn[m]]
                         /\ sentIn'[m] = sentIn[m]
      BY <1>2, <1>5, <2>2, <2>3, <3>1, Zenon DEF StoreOK
    <3> QED
      BY <1>10, <2>2, <3>2, Zenon DEF StoreOK, HomeOf, Alone
  <2>6. KeptOK(m)'
    <3>1. CASE m = n
      <4>1. n \in Persistent => InBuffer(m)'
        BY <2>1, <3>1, Zenon
      <4> QED
        BY <1>10, <2>2, <2>3, <3>1, <4>1, Zenon DEF KeptOK, Alone, HomeOf
    <3>2. CASE m # n
      BY <1>2, <1>10, <2>1, <2>2, <3>2, Zenon DEF KeptOK, Alone, HomeOf
    <3> QED
      BY <3>1, <3>2, Zenon
  <2> QED
    BY <2>4, <2>5, <2>6, <2>8, <2>9, <2>10, Zenon DEF MessageOK
<1> QED
  <2>1. (pc # "idle" => tx <= MaxTx)'
    BY <1>1, <1>10, Zenon
  <2> QED
    BY <1>6, <1>7, <1>8, <1>9, <2>1, Zenon DEF TransactionInv

\* A step of commit() that leaves the log, the storage and the producers' messages
\* as they are keeps what the invariant says of those.
LEMMA CommitFrame ==
  ASSUME TransactionInv, UNCHANGED <<disk, session, buffer>>,
         pc' \in {"commit", "append", "deliver"}, pc = "idle" => pc' = "commit" /\ todo' = producers,
         pc # "idle" => todo' = todo, tx <= MaxTx
  PROVE  /\ LogOK' /\ (pc # "idle" => tx <= MaxTx)'
         /\ \A p \in Producers : \A m \in ToSet(staged'[p]) : ProducerOf[m] = p
         /\ Unvisited' = Unvisited
         /\ \A m \in Messages : /\ InStage(m)' <=> InStage(m)
                                /\ InBuffer(m)' <=> InBuffer(m)
<1>1. /\ UNCHANGED <<log, store, delayStored, tx, producers, sentIn, staged, buffered, resolved>>
      /\ pc' # "idle"
  BY DEF disk, session, buffer
<1>2. LogOK'
  BY <1>1 DEF TransactionInv, LogOK
<1>3. Unvisited' = Unvisited
  BY <1>1 DEF Unvisited
<1>4. \A p \in Producers : \A m \in ToSet(staged'[p]) : ProducerOf[m] = p
  BY <1>1, Zenon DEF TransactionInv
<1>5. \A m \in Messages : (InStage(m)' <=> InStage(m)) /\ (InBuffer(m)' <=> InBuffer(m))
  BY <1>1, Zenon DEF InStage, InBuffer, HomeOf
<1>6. (pc # "idle" => tx <= MaxTx)'
  BY <1>1
<1> QED
  BY <1>2, <1>3, <1>4, <1>5, <1>6, Zenon

\* And so for each message of the session.
LEMMA CommitFrameMessage ==
  ASSUME TransactionInv, UNCHANGED <<disk, session, buffer, discarded, committed>>,
         pc' # "idle", Unvisited' = Unvisited, NEW m \in Messages,
         InStage(m)' <=> InStage(m), InBuffer(m)' <=> InBuffer(m)
  PROVE  SentOK(m)' /\ StageOK(m)' /\ BufferOK(m)' /\ StoreOK(m)'
<1>1. UNCHANGED <<log, store, delayStored, tx, sentIn>>
  BY DEF disk, session, buffer
<1>2. SentOK(m) /\ StageOK(m) /\ BufferOK(m) /\ StoreOK(m)
  BY Parts
<1>3. SentOK(m)'
  BY <1>1, <1>2, Zenon DEF SentOK
<1>4. StageOK(m)'
  BY <1>1, <1>2, Zenon DEF StageOK
<1>5. BufferOK(m)'
  BY <1>1, <1>2, Zenon DEF BufferOK, HomeOf
<1>6. StoreOK(m)'
  BY <1>1, <1>2, Zenon DEF StoreOK, HomeOf, Alone
<1> QED
  BY <1>3, <1>4, <1>5, <1>6

\* commit() begins: all of its producers are unvisited.
LEMMA CommitBeginStep ==
  ASSUME TransactionInv, CommitBegin
  PROVE  TransactionInv'
<1>1. /\ pc = "idle" /\ tx <= MaxTx /\ pc' = "commit" /\ todo' = producers
      /\ UNCHANGED <<disk, session, buffer, current, batch, visible, bounds, history>>
  BY DEF CommitBegin
<1>2. UNCHANGED <<committed, discarded, failures, store, tx, sentIn>>
  BY <1>1 DEF bounds, history, disk, session
<1>3. TypeOK'
  BY <1>1 DEF TransactionInv, TypeOK, disk, session, buffer, bounds, history, HomeOf
<1>4. /\ LogOK' /\ (pc # "idle" => tx <= MaxTx)' /\ Unvisited' = Unvisited
      /\ \A p \in Producers : \A m \in ToSet(staged'[p]) : ProducerOf[m] = p
      /\ \A m \in Messages : (InStage(m)' <=> InStage(m)) /\ (InBuffer(m)' <=> InBuffer(m))
  BY <1>1, CommitFrame
<1>5. ASSUME NEW m \in Messages PROVE MessageOK(m)'
  <2>1. SentOK(m)' /\ StageOK(m)' /\ BufferOK(m)' /\ StoreOK(m)'
    BY <1>1, <1>2, <1>4, CommitFrameMessage
  <2>2. BatchOK(m) /\ CurrentOK(m) /\ VisibleOK(m) /\ KeptOK(m)
    BY Parts, Zenon
  <2>3. ~InBatch(m) /\ ~InCurrent(m) /\ ~InBatch(m)' /\ ~InCurrent(m)'
    BY <1>1, <2>2 DEF BatchOK, CurrentOK, InBatch, InCurrent
  <2>4. VisibleOK(m)'
    BY <1>1, <1>2, <2>2 DEF VisibleOK
  <2>5. KeptOK(m)'
    BY <1>1, <1>2, <1>4, <2>2, <2>3, Zenon DEF KeptOK, Alone, HomeOf
  <2> QED
    BY <2>1, <2>3, <2>4, <2>5, Zenon DEF MessageOK, BatchOK, CurrentOK
<1> QED
  BY <1>3, <1>4, <1>5, Zenon DEF TransactionInv

\* An append that fails is counted.
LEMMA AppendFailsStep ==
  ASSUME TransactionInv, AppendFails
  PROVE  TransactionInv'
<1>1. /\ pc = "append" /\ pc' = "append" /\ todo' = todo /\ batch' = <<>>
      /\ failures' = failures + 1 /\ failures \in Nat /\ tx <= MaxTx
      /\ UNCHANGED <<disk, session, buffer, current, visible, deletes, crashes, history>>
  BY DEF AppendFails, TransactionInv, TypeOK
<1>2. UNCHANGED <<committed, discarded, store, tx, sentIn>> /\ failures' # 0
  BY <1>1 DEF history, disk, session
<1>3. TypeOK'
  BY <1>1 DEF TransactionInv, TypeOK, disk, session, buffer, history, HomeOf
<1>4. /\ LogOK' /\ (pc # "idle" => tx <= MaxTx)' /\ Unvisited' = Unvisited
      /\ \A p \in Producers : \A m \in ToSet(staged'[p]) : ProducerOf[m] = p
      /\ \A m \in Messages : (InStage(m)' <=> InStage(m)) /\ (InBuffer(m)' <=> InBuffer(m))
  BY <1>1, CommitFrame
<1>5. ASSUME NEW m \in Messages PROVE MessageOK(m)'
  <2>1. SentOK(m)' /\ StageOK(m)' /\ BufferOK(m)' /\ StoreOK(m)'
    BY <1>1, <1>2, <1>4, CommitFrameMessage
  <2>2. CurrentOK(m) /\ VisibleOK(m)
    BY Parts, Zenon
  <2>3. ~InBatch(m)' /\ (InCurrent(m)' <=> InCurrent(m))
    BY <1>1, EmptySet DEF InBatch, InCurrent
  <2>4. VisibleOK(m)' /\ CurrentOK(m)'
    BY <1>1, <1>2, <2>2, <2>3 DEF VisibleOK, CurrentOK
  <2> QED
    BY <1>2, <2>1, <2>3, <2>4, Zenon DEF MessageOK, BatchOK, KeptOK
<1> QED
  BY <1>3, <1>4, <1>5, Zenon DEF TransactionInv

\* The worker is done with the batch.
LEMMA AppendDoneStep ==
  ASSUME TransactionInv, AppendDone
  PROVE  TransactionInv'
<1>1. /\ pc = "append" /\ pc' = "deliver" /\ todo' = todo /\ batch = <<>> /\ tx <= MaxTx
      /\ UNCHANGED <<disk, session, buffer, current, batch, visible, bounds, history>>
  BY DEF AppendDone, TransactionInv
<1>2. UNCHANGED <<committed, discarded, failures, store, tx, sentIn>>
  BY <1>1 DEF bounds, history, disk, session
<1>3. TypeOK'
  BY <1>1 DEF TransactionInv, TypeOK, disk, session, buffer, bounds, history, HomeOf
<1>4. /\ LogOK' /\ (pc # "idle" => tx <= MaxTx)' /\ Unvisited' = Unvisited
      /\ \A p \in Producers : \A m \in ToSet(staged'[p]) : ProducerOf[m] = p
      /\ \A m \in Messages : (InStage(m)' <=> InStage(m)) /\ (InBuffer(m)' <=> InBuffer(m))
  BY <1>1, CommitFrame
<1>5. ASSUME NEW m \in Messages PROVE MessageOK(m)'
  <2>1. SentOK(m)' /\ StageOK(m)' /\ BufferOK(m)' /\ StoreOK(m)'
    BY <1>1, <1>2, <1>4, CommitFrameMessage
  <2>2. CurrentOK(m) /\ VisibleOK(m) /\ KeptOK(m)
    BY Parts, Zenon
  <2>3. ~InBatch(m) /\ ~InBatch(m)' /\ (InCurrent(m)' <=> InCurrent(m))
    BY <1>1, EmptySet DEF InBatch, InCurrent
  <2>4. VisibleOK(m)' /\ CurrentOK(m)'
    BY <1>1, <1>2, <2>2, <2>3 DEF VisibleOK, CurrentOK
  <2>5. KeptOK(m)'
    BY <1>1, <1>2, <1>4, <2>2, <2>3, Zenon DEF KeptOK, Alone, HomeOf
  <2> QED
    BY <2>1, <2>3, <2>4, <2>5, Zenon DEF MessageOK, BatchOK
<1> QED
  BY <1>3, <1>4, <1>5, Zenon DEF TransactionInv

\* What is delivered is of a producer that has been visited, so it is not buffered
\* any more; nor is it in the batch, which has been written.
LEMMA DeliverCommittedStep ==
  ASSUME TransactionInv, DeliverCommitted
  PROVE  TransactionInv'
<1>1. /\ pc = "deliver" /\ pc' = "commit" /\ todo' = todo /\ tx <= MaxTx /\ tx \in Nat \ {0}
      /\ visible' = visible \cup ToSet(current) /\ current' = <<>> /\ ToSet(current) \subseteq Messages
      /\ UNCHANGED <<disk, session, buffer, batch, bounds, history>>
  BY SetOf DEF DeliverCommitted, TransactionInv, TypeOK
<1>2. UNCHANGED <<committed, discarded, failures, store, tx, sentIn>>
  BY <1>1 DEF bounds, history, disk, session
<1>6. pc # "append" /\ pc' # "idle" /\ tx > 0 /\ Unvisited = todo
  BY <1>1 DEF Unvisited
<1>3. TypeOK'
  BY <1>1 DEF TransactionInv, TypeOK, disk, session, buffer, bounds, history, HomeOf
<1>4. /\ LogOK' /\ (pc # "idle" => tx <= MaxTx)' /\ Unvisited' = Unvisited
      /\ \A p \in Producers : \A m \in ToSet(staged'[p]) : ProducerOf[m] = p
      /\ \A m \in Messages : (InStage(m)' <=> InStage(m)) /\ (InBuffer(m)' <=> InBuffer(m))
  BY <1>1, CommitFrame
<1>5. ASSUME NEW m \in Messages PROVE MessageOK(m)'
  <2>1. SentOK(m)' /\ StageOK(m)' /\ BufferOK(m)' /\ StoreOK(m)'
    BY <1>1, <1>2, <1>4, CommitFrameMessage
  <2>2. /\ StageOK(m) /\ BufferOK(m) /\ BatchOK(m) /\ CurrentOK(m) /\ VisibleOK(m) /\ KeptOK(m)
        /\ sentIn[m] \in Nat
    BY Parts, Zenon
  <2>3. ~InBatch(m) /\ ~InBatch(m)' /\ ~InCurrent(m)' /\ (m \in visible' <=> m \in visible \/ InCurrent(m))
    <3>1. ~InBatch(m)
      BY <1>6, <2>2, Zenon DEF BatchOK
    <3> QED
      BY <1>1, <3>1, EmptySet, Zenon DEF InBatch, InCurrent
  <2>5. InCurrent(m) => ~InBuffer(m) /\ sentIn[m] = tx /\ m \notin discarded
    BY <1>6, <2>2, Zenon DEF CurrentOK, BufferOK, StageOK
  <2>4. VisibleOK(m)'
    BY <1>2, <1>6, <2>2, <2>3, <2>5, Zenon DEF VisibleOK
  <2>6. KeptOK(m)'
    BY <1>1, <1>2, <1>4, <2>2, <2>3, <2>5, Zenon DEF KeptOK, Alone, HomeOf
  <2> QED
    BY <2>1, <2>3, <2>4, <2>6, Zenon DEF MessageOK, BatchOK, CurrentOK
<1> QED
  BY <1>3, <1>4, <1>5, Zenon DEF TransactionInv

\* The record that is written is of a message of the batch: its COMMIT is logged and
\* its delay is resolved.
LEMMA AppendOneStep ==
  ASSUME TransactionInv, AppendOne
  PROVE  TransactionInv'
<1>1. /\ pc = "append" /\ batch # <<>> /\ batch' = Tail(batch) /\ tx <= MaxTx /\ tx \in 1..MaxTx
      /\ store' = store \cup {Head(batch)}
      /\ delayStored' = delayStored \cup ({Head(batch)} \cap resolved)
      /\ UNCHANGED <<log, session, buffer, pc, todo, current, visible, bounds, history>>
  BY TransactedSendAssumption DEF AppendOne, TransactionInv, TypeOK
<1>2. /\ UNCHANGED <<log, tx, producers, sentIn, staged, buffered, resolved, pc, todo, current,
                     visible, failures, deletes, crashes, committed, discarded>>
  BY <1>1 DEF session, buffer, bounds, history
<1>3. /\ batch' \in Seq(Persistent) /\ Head(batch) \in Persistent
      /\ Head(batch) \in ToSet(batch) /\ ToSet(batch') \subseteq ToSet(batch)
      /\ \A e \in ToSet(batch) : e = Head(batch) \/ e \in ToSet(batch')
  BY <1>1, TailSet DEF TransactionInv, TypeOK
<1>4. TypeOK'
  <2>1. store' \in SUBSET Persistent /\ delayStored' \in SUBSET store'
    BY <1>1, <1>3 DEF TransactionInv, TypeOK
  <2> QED
    BY <1>2, <1>3, <2>1, Zenon DEF TransactionInv, TypeOK, HomeOf
<1>5. LogOK' /\ (pc # "idle" => tx <= MaxTx)'
  BY <1>1, <1>2, Zenon DEF TransactionInv, LogOK
<1>6. \A p \in Producers : \A m \in ToSet(staged'[p]) : ProducerOf[m] = p
  BY <1>2, Zenon DEF TransactionInv
<1>7. ASSUME NEW m \in Messages PROVE MessageOK(m)'
  <2>1. /\ SentOK(m) /\ StageOK(m) /\ BufferOK(m) /\ BatchOK(m) /\ CurrentOK(m)
        /\ VisibleOK(m) /\ StoreOK(m) /\ KeptOK(m)
    BY Parts, Zenon
  <2>2. /\ InStage(m)' <=> InStage(m)
        /\ InBuffer(m)' <=> InBuffer(m)
        /\ InCurrent(m)' <=> InCurrent(m)
    BY <1>2, Zenon DEF InStage, InBuffer, InCurrent, HomeOf
  <2>3. /\ InBatch(m)' => InBatch(m)
        /\ InBatch(m) => m = Head(batch) \/ InBatch(m)'
        /\ m \in store' <=> m \in store \/ m = Head(batch)
        /\ m = Head(batch) => InBatch(m)
    BY <1>1, <1>3, Zenon DEF InBatch
  <2>4. SentOK(m)' /\ StageOK(m)'
    BY <1>2, <2>1, <2>2, Zenon DEF SentOK, StageOK, Unvisited
  <2>5. BufferOK(m)' /\ CurrentOK(m)'
    BY <1>2, <2>1, <2>2, Zenon DEF BufferOK, CurrentOK, HomeOf
  <2>6. BatchOK(m)'
    BY <1>2, <2>1, <2>3, Zenon DEF BatchOK, HomeOf, Alone
  <2>7. VisibleOK(m)'
    BY <1>2, <2>1, Zenon DEF VisibleOK
  <2>8. StoreOK(m)'
    <3>1. CASE m = Head(batch)
      <4>1. /\ sentIn[m] = tx /\ m \notin discarded /\ log[HomeOf(m)][tx] = "COMMIT"
            /\ Alone(m) /\ m \in Delayed => m \in resolved
        BY <2>1, <2>3, <3>1, Zenon DEF BatchOK
      <4>2. m \in resolved => m \in delayStored'
        BY <1>1, <3>1, Zenon
      <4> QED
        BY <1>1, <1>2, <4>1, <4>2, Zenon DEF StoreOK, HomeOf, Alone
    <3>2. CASE m # Head(batch)
      <4>1. m \in delayStored => m \in delayStored'
        BY <1>1, Zenon
      <4> QED
        BY <1>2, <2>1, <2>3, <3>2, <4>1, Zenon DEF StoreOK, HomeOf, Alone
    <3> QED
      BY <3>1, <3>2, Zenon
  <2>9. KeptOK(m)'
    BY <1>2, <2>1, <2>2, <2>3, Zenon DEF KeptOK, HomeOf, Alone
  <2> QED
    BY <2>4, <2>5, <2>6, <2>7, <2>8, <2>9, Zenon DEF MessageOK
<1> QED
  BY <1>4, <1>5, <1>6, <1>7, Zenon DEF TransactionInv

\* When commit() has visited every producer, nothing is staged, buffered or in a
\* batch, so what it has to keep is stored.
LEMMA CommitEndStep ==
  ASSUME TransactionInv, CommitEnd
  PROVE  TransactionInv'
<1>1. /\ pc = "commit" /\ todo = {} /\ tx' = tx + 1 /\ pc' = "idle"
      /\ committed' = committed \cup (OfTx(tx) \ discarded)
      /\ UNCHANGED <<disk, producers, sentIn, staged, buffer, todo, current, batch, visible, bounds,
                     discarded>>
      /\ tx \in Nat \ {0}
  BY DEF CommitEnd, TransactionInv, TypeOK
<1>2. UNCHANGED <<log, store, delayStored, producers, sentIn, staged, buffered, resolved, todo,
                  current, batch, visible, deletes, crashes, failures, discarded>>
  BY <1>1 DEF disk, buffer, bounds
<1>8. pc # "append" /\ pc \notin {"append", "deliver"} /\ Unvisited = {}
  BY <1>1 DEF Unvisited
<1>3. TypeOK'
  <2>1. committed' \in SUBSET Messages /\ tx' \in Nat \ {0} /\ pc' \in {"idle", "commit", "append", "deliver"}
    BY <1>1 DEF TransactionInv, TypeOK, OfTx
  <2> QED
    BY <1>2, <2>1, Zenon DEF TransactionInv, TypeOK, HomeOf
<1>4. LogOK'
  <2>1. \A t \in 1..MaxTx : (t > tx' => t > tx) /\ (t = tx' => t > tx)
    BY <1>1, TransactedSendAssumption
  <2>2. "none" # "COMMIT"
    OBVIOUS
  <2> QED
    BY <1>2, <2>1, <2>2, Zenon DEF TransactionInv, LogOK
<1>5. \A p \in Producers : \A m \in ToSet(staged'[p]) : ProducerOf[m] = p
  BY <1>2, Zenon DEF TransactionInv
<1>6. ASSUME NEW m \in Messages PROVE MessageOK(m)'
  <2>1. /\ SentOK(m) /\ StageOK(m) /\ BufferOK(m) /\ BatchOK(m) /\ CurrentOK(m)
        /\ VisibleOK(m) /\ StoreOK(m) /\ KeptOK(m) /\ sentIn[m] \in Nat
    BY Parts, Zenon
  <2>2. ~InStage(m) /\ ~InBuffer(m) /\ ~InBatch(m) /\ ~InCurrent(m)
    BY <1>8, <2>1, Zenon DEF StageOK, BufferOK, BatchOK, CurrentOK
  <2>3. ~InStage(m)' /\ ~InBuffer(m)' /\ ~InBatch(m)' /\ ~InCurrent(m)'
    BY <1>2, <2>2, Zenon DEF InStage, InBuffer, InBatch, InCurrent, HomeOf
  <2>4. sentIn'[m] = sentIn[m] /\ sentIn'[m] <= tx' /\ sentIn'[m] # tx'
    BY <1>1, <1>2, <2>1 DEF SentOK
  <2>5. StageOK(m)' /\ BufferOK(m)' /\ BatchOK(m)' /\ CurrentOK(m)'
    BY <2>3, Zenon DEF StageOK, BufferOK, BatchOK, CurrentOK
  <2>6. SentOK(m)' /\ VisibleOK(m)' /\ StoreOK(m)'
    BY <1>2, <2>1, <2>4, Zenon DEF SentOK, VisibleOK, StoreOK, HomeOf, Alone
  <2>7. KeptOK(m)'
    <3>1. m \in committed' => m \in committed \/ (sentIn[m] = tx /\ m \notin discarded)
      BY <1>1, Zenon DEF OfTx
    <3> QED
      BY <1>2, <2>1, <2>2, <2>4, <3>1, Zenon DEF KeptOK, HomeOf, Alone
  <2> QED
    BY <2>5, <2>6, <2>7, Zenon DEF MessageOK
<1>7. (pc # "idle" => tx <= MaxTx)'
  BY <1>1
<1> QED
  BY <1>3, <1>4, <1>5, <1>6, <1>7, Zenon DEF TransactionInv

\* A crash loses what is in memory, and a new session starts after it.
LEMMA CrashStep ==
  ASSUME TransactionInv, CrashAndRecover
  PROVE  TransactionInv'
<1>1. tx' = tx + 1 /\ pc' = "idle" /\ tx \in Nat \ {0} /\ visible' = {}
  BY DEF CrashAndRecover, TransactionInv, TypeOK
<1>8. log' = [d \in Destinations |-> [t \in 1..MaxTx |->
                 IF log[d][t] = "BEGIN" THEN "ROLLBACK" ELSE log[d][t]]]
  BY DEF CrashAndRecover
<1>9. /\ crashes' = crashes + 1 /\ producers' = Producers
      /\ staged' = [p \in Producers |-> <<>>] /\ buffered' = [d \in Destinations |-> <<>>]
      /\ resolved' = {} /\ todo' = {} /\ current' = <<>> /\ batch' = <<>>
  BY DEF CrashAndRecover
<1>10. UNCHANGED <<sentIn, store, delayStored, deletes, failures, committed, discarded>>
  BY DEF CrashAndRecover, history
<1>2. /\ \A p \in Producers : ToSet(staged'[p]) = {}
      /\ \A d \in Destinations : ToSet(buffered'[d]) = {}
      /\ ToSet(current') = {} /\ ToSet(batch') = {}
  BY <1>9, EmptySet
<1>3. /\ log' \in [Destinations -> LogTypes]
      /\ \A d \in Destinations, t \in 1..MaxTx :
            log[d][t] # "BEGIN" => log'[d][t] = log[d][t]
      /\ \A d \in Destinations, t \in 1..MaxTx :
            log[d][t] = "BEGIN" => log'[d][t] = "ROLLBACK"
  <2>1. log \in [Destinations -> LogTypes]
    BY DEF TransactionInv, TypeOK, LogTypes
  <2>2. \A d \in Destinations : log[d] \in LogTypes
    BY <2>1
  <2>3. ASSUME NEW d \in Destinations, NEW t \in 1..MaxTx
        PROVE  /\ log'[d][t] = IF log[d][t] = "BEGIN" THEN "ROLLBACK" ELSE log[d][t]
               /\ log[d][t] \in {"none", "BEGIN", "COMMIT", "ROLLBACK"}
    BY <1>8, <2>2, Zenon DEF LogTypes
  <2>4. ASSUME NEW d \in Destinations PROVE log'[d] \in LogTypes
    BY <1>8, <2>2, <2>3 DEF LogTypes
  <2>5. log' \in [Destinations -> LogTypes]
    BY <1>8, <2>4
  <2> QED
    BY <2>3, <2>5
<1>4. TypeOK'
  <2>1. TypeOK
    BY DEF TransactionInv
  <2> QED
    BY <1>1, <1>2, <1>3, <1>9, <1>10, <2>1 DEF TypeOK, LogTypes
<1>5. LogOK'
  <2>1. \A t \in 1..MaxTx : (t > tx' => t > tx) /\ (t = tx' => t > tx)
    BY <1>1, TransactedSendAssumption
  <2>2. "none" # "COMMIT" /\ "none" # "BEGIN"
    OBVIOUS
  <2>3. \A d \in Destinations, t \in 1..MaxTx : t > tx => log[d][t] = "none"
    BY Zenon DEF TransactionInv, LogOK
  <2>4. \A d \in Destinations, t \in 1..MaxTx : t > tx => log'[d][t] = "none"
    BY <1>3, <2>2, <2>3
  <2> QED
    BY <2>1, <2>2, <2>4, Zenon DEF LogOK
<1>6. ASSUME NEW m \in Messages PROVE MessageOK(m)'
  <2>1. /\ SentOK(m) /\ StoreOK(m) /\ KeptOK(m) /\ sentIn[m] \in Nat
        /\ ProducerOf[m] \in Producers /\ HomeOf(m) \in Destinations
    BY Parts, Zenon
  <2>2. ~InStage(m)' /\ ~InBuffer(m)' /\ ~InBatch(m)' /\ ~InCurrent(m)' /\ m \notin visible'
    BY <1>1, <1>2, <2>1, ZenonT(30) DEF InStage, InBuffer, InBatch, InCurrent, HomeOf
  <2>3. sentIn'[m] = sentIn[m] /\ sentIn'[m] <= tx' /\ sentIn'[m] # tx'
    BY <1>1, <1>10, <2>1 DEF SentOK
  <2>4. StageOK(m)' /\ BufferOK(m)' /\ BatchOK(m)' /\ CurrentOK(m)' /\ VisibleOK(m)'
    BY <2>2, Zenon DEF StageOK, BufferOK, BatchOK, CurrentOK, VisibleOK
  <2>5. SentOK(m)'
    BY <1>10, <2>1, <2>3, Zenon DEF SentOK
  <2>6. StoreOK(m)'
    <3>1. m \in store => log'[HomeOf(m)][sentIn[m]] = "COMMIT"
      BY <1>3, <2>1 DEF StoreOK
    <3> QED
      BY <1>10, <2>1, <2>3, <3>1, ZenonT(30) DEF StoreOK, HomeOf, Alone
  <2>7. KeptOK(m)'
    BY <1>10, <2>1, <2>2, <2>3, Zenon DEF KeptOK, HomeOf, Alone
  <2> QED
    BY <2>4, <2>5, <2>6, <2>7, Zenon DEF MessageOK
<1>7. (pc # "idle" => tx <= MaxTx)' /\ \A p \in Producers : \A m \in ToSet(staged'[p]) : ProducerOf[m] = p
  BY <1>1, <1>2, Zenon
<1> QED
  BY <1>4, <1>5, <1>6, <1>7, Zenon DEF TransactionInv

\* A transaction that commit() has not closed has nothing in the storage.
LEMMA IdleStored ==
  ASSUME TransactionInv, pc = "idle", NEW m \in Messages, m \in store
  PROVE  sentIn[m] # tx
<1>1. StoreOK(m) /\ HomeOf(m) \in Destinations
  BY Parts
<1>2. sentIn[m] \in 1..MaxTx /\ log[HomeOf(m)][sentIn[m]] = "COMMIT"
  BY <1>1, Zenon DEF StoreOK
<1>3. \A d \in Destinations, t \in 1..MaxTx : t = tx => log[d][t] # "COMMIT"
  BY Zenon DEF TransactionInv, LogOK
<1> QED
  BY <1>1, <1>2, <1>3, ZenonT(30)

\* rollbackTransaction() empties the buffers of the destinations, in which the
\* transaction is open if there is anything in them; the log says so of the current
\* transaction only.
LEMMA RollbackEffect ==
  ASSUME TransactionInv, pc = "idle", tx \in 1..MaxTx, NEW ds \in SUBSET Destinations,
         RollbackTransaction(ds)
  PROVE  /\ buffered' \in [Destinations -> Seq(Persistent)]
         /\ \A d \in Destinations : ToSet(buffered'[d]) \subseteq ToSet(buffered[d])
         /\ \A d \in ds : ToSet(buffered'[d]) = {}
         /\ \A d \in Destinations : d \notin ds => buffered'[d] = buffered[d]
         /\ log' \in [Destinations -> LogTypes]
         /\ \A d \in Destinations, t \in 1..MaxTx : t # tx => log'[d][t] = log[d][t]
         /\ \A d \in Destinations : log'[d][tx] = log[d][tx] \/ log'[d][tx] = "ROLLBACK"
         /\ \A d \in Destinations : d \notin ds => log'[d] = log[d]
<1> DEFINE open == {d \in ds : log[d][tx] = "BEGIN"}
<1>1. /\ buffered' = [d \in Destinations |-> IF d \in open THEN <<>> ELSE buffered[d]]
      /\ log' = [d \in Destinations |->
                     IF d \in open THEN [log[d] EXCEPT ![tx] = "ROLLBACK"] ELSE log[d]]
  BY Zenon DEF RollbackTransaction
<1>2. /\ buffered \in [Destinations -> Seq(Persistent)] /\ log \in [Destinations -> LogTypes]
      /\ \A d \in Destinations : \A m \in ToSet(buffered[d]) : HomeOf(m) = d
  BY Zenon DEF TransactionInv, TypeOK, LogTypes
<1>3. \A d \in ds : d \notin open => log[d][tx] # "BEGIN"
  OBVIOUS
<1>4. open \subseteq ds
  OBVIOUS
<1> HIDE DEF open
<1>5. ASSUME NEW d \in Destinations
      PROVE  /\ buffered'[d] = IF d \in open THEN <<>> ELSE buffered[d]
             /\ buffered[d] \in Seq(Persistent)
  BY <1>1, <1>2
<1>6. ASSUME NEW d \in Destinations PROVE buffered'[d] \in Seq(Persistent)
  <2>1. <<>> \in Seq(Persistent)
    OBVIOUS
  <2> QED
    BY <1>5, <2>1, Zenon
<1>7. buffered' \in [Destinations -> Seq(Persistent)]
  BY <1>1, <1>6
<1>8. ASSUME NEW d \in Destinations PROVE ToSet(buffered'[d]) \subseteq ToSet(buffered[d])
  BY <1>5, EmptySet
<1>9. ASSUME NEW d \in ds PROVE ToSet(buffered'[d]) = {}
  <2>1. CASE d \in open
    BY <1>5, <2>1, EmptySet
  <2>2. CASE d \notin open
    <3>1. buffered'[d] = buffered[d] /\ buffered[d] \in Seq(Persistent)
      BY <1>5, <2>2
    <3>2. ASSUME NEW m \in ToSet(buffered[d]) PROVE FALSE
      <4>1. m \in Messages
        BY <3>1, SetOf, TransactedSendAssumption
      <4>2. HomeOf(m) = d
        BY <1>2
      <4>3. InBuffer(m)
        BY SMTT(30), <3>2, <4>2 DEF InBuffer
      <4>4. BufferOK(m)
        BY <4>1, Parts
      <4> QED
        BY <1>3, <2>2, <4>2, <4>3, <4>4, Zenon DEF BufferOK
    <3> QED
      BY <3>1, <3>2
  <2> QED
    BY <2>1, <2>2
<1>10. ASSUME NEW d \in Destinations
       PROVE  /\ log[d] \in LogTypes
              /\ log'[d] = IF d \in open THEN [log[d] EXCEPT ![tx] = "ROLLBACK"] ELSE log[d]
  BY <1>1, <1>2
<1>11. ASSUME NEW d \in Destinations
       PROVE  /\ log'[d] \in LogTypes
              /\ \A t \in 1..MaxTx : t # tx => log'[d][t] = log[d][t]
              /\ log'[d][tx] = log[d][tx] \/ log'[d][tx] = "ROLLBACK"
  <2>1. CASE d \in open
    <3>1. log'[d] = [log[d] EXCEPT ![tx] = "ROLLBACK"] /\ log[d] \in LogTypes
      BY <1>10, <2>1, Zenon
    <3> QED
      BY <3>1 DEF LogTypes
  <2>2. CASE d \notin open
    BY <1>10, <2>2, Zenon
  <2> QED
    BY <2>1, <2>2, Zenon
<1>12. log' \in [Destinations -> LogTypes]
  <2>1. log' = [d \in Destinations |-> log'[d]]
    BY <1>1
  <2> QED
    BY <1>11, <2>1
<1>13. ASSUME NEW d \in Destinations, d \notin ds
       PROVE  log'[d] = log[d] /\ buffered'[d] = buffered[d]
  <2>1. d \notin open
    BY <1>4, <1>13, Zenon
  <2> QED
    BY <1>5, <1>10, <2>1, Zenon
<1> QED
  BY <1>7, <1>8, <1>9, <1>11, <1>12, <1>13, Zenon

\* A rollback of some of the idle session's transaction, after which no message
\* that was rolled back is anywhere.
LEMMA RollbackMessage ==
  ASSUME TransactionInv, pc = "idle", tx \in 1..MaxTx, NEW ds \in SUBSET Destinations,
         RollbackTransaction(ds),
         UNCHANGED <<sentIn, resolved, commit, store, delayStored, visible, failures, committed>>,
         tx' = tx \/ tx' = tx + 1, discarded \subseteq discarded',
         \A m \in discarded' : m \in discarded \/ sentIn[m] = tx,
         NEW m \in Messages
  PROVE  SentOK(m)' /\ BatchOK(m)' /\ CurrentOK(m)' /\ VisibleOK(m)' /\ StoreOK(m)'
<1>1. /\ SentOK(m) /\ BatchOK(m) /\ CurrentOK(m) /\ VisibleOK(m) /\ StoreOK(m)
      /\ sentIn[m] \in Nat /\ tx \in Nat \ {0} /\ HomeOf(m) \in Destinations
  BY Parts
<1>2. UNCHANGED <<sentIn, pc, todo, current, batch, resolved, store, delayStored, visible>>
  BY DEF commit
<1>3. ~InBatch(m) /\ ~InCurrent(m)
  <2>1. pc # "append" /\ pc \notin {"append", "deliver"}
    OBVIOUS
  <2> QED
    BY <1>1, <2>1, Zenon DEF BatchOK, CurrentOK
<1>4. ~InBatch(m)' /\ ~InCurrent(m)'
  BY <1>2, <1>3, Zenon DEF InBatch, InCurrent
<1>5. BatchOK(m)' /\ CurrentOK(m)'
  BY <1>4, Zenon DEF BatchOK, CurrentOK
<1>6. SentOK(m)'
  <2>1. sentIn[m] <= tx' /\ (sentIn[m] = tx => sentIn[m] > 0)
    BY <1>1 DEF SentOK
  <2> QED
    BY <1>1, <1>2, <2>1, Zenon DEF SentOK
<1>7. VisibleOK(m)'
  <2>1. ASSUME m \in visible PROVE sentIn[m] > 0 /\ m \notin discarded /\ sentIn[m] # tx
    BY <1>1, <2>1, Zenon DEF VisibleOK
  <2>2. ASSUME m \in visible PROVE sentIn[m] # tx'
    BY <1>1, <2>1, <2>2 DEF SentOK
  <2> QED
    BY <1>2, <2>1, <2>2, Zenon DEF VisibleOK
<1>8. StoreOK(m)'
  <2> SUFFICES ASSUME m \in store PROVE StoreOK(m)'
    BY <1>2, Zenon DEF StoreOK
  <2>1. sentIn[m] # tx /\ sentIn[m] \in 1..MaxTx
    BY <1>1, IdleStored, ZenonT(30) DEF StoreOK
  <2>2. \A d \in Destinations, t \in 1..MaxTx : t # tx => log'[d][t] = log[d][t]
    BY RollbackEffect
  <2>3. log'[HomeOf(m)][sentIn[m]] = log[HomeOf(m)][sentIn[m]]
    BY <1>1, <2>1, <2>2, Zenon
  <2>4. m \notin discarded'
    BY <1>1, <2>1, Zenon DEF StoreOK
  <2> QED
    BY <1>1, <1>2, <2>3, <2>4, Zenon DEF StoreOK, HomeOf, Alone
<1> QED
  BY <1>5, <1>6, <1>7, <1>8, ZenonT(30)

\* Session::rollback(): every buffer with something in it is of an existing producer,
\* so that nothing of the transaction is left in any.
LEMMA RollbackStep ==
  ASSUME TransactionInv, NEW closing \in BOOLEAN, Rollback(closing)
  PROVE  TransactionInv'
<1> DEFINE ds == {DestinationOf[p] : p \in producers}
<1>1. pc = "idle" /\ tx \in 1..MaxTx /\ tx' = tx + 1 /\ tx \in Nat \ {0}
  BY TransactedSendAssumption DEF Rollback, TransactionInv, TypeOK
<1>2. ds \in SUBSET Destinations /\ RollbackTransaction(ds)
  BY TransactedSendAssumption DEF Rollback, TransactionInv, TypeOK
<1>3. /\ UNCHANGED <<sentIn, resolved, commit, store, delayStored, visible, failures, committed>>
      /\ UNCHANGED <<pc, todo, current, batch, deletes, crashes>>
  BY DEF Rollback, commit, bounds
<1>4. /\ staged' = [p \in Producers |-> <<>>] /\ discarded' = discarded \cup OfTx(tx)
      /\ producers' \in {producers, Producers}
  BY DEF Rollback
<1>5. \A d \in ds : d \in Destinations
  BY <1>2
<1>6. \A p \in producers : DestinationOf[p] \in ds
  OBVIOUS
<1> HIDE DEF ds
<1>7. /\ buffered' \in [Destinations -> Seq(Persistent)]
      /\ \A d \in Destinations : ToSet(buffered'[d]) \subseteq ToSet(buffered[d])
      /\ \A d \in ds : ToSet(buffered'[d]) = {}
      /\ log' \in [Destinations -> LogTypes]
      /\ \A d \in Destinations, t \in 1..MaxTx : t # tx => log'[d][t] = log[d][t]
  BY <1>1, <1>2, RollbackEffect, Zenon
<1>8. \A p \in Producers : ToSet(staged'[p]) = {}
  BY <1>4, EmptySet
<1>9. TypeOK'
  <2>1. /\ staged' \in [Producers -> Seq(Messages)] /\ discarded' \in SUBSET Messages
        /\ producers' \in SUBSET Producers /\ tx' \in Nat \ {0}
    BY <1>1, <1>4 DEF TransactionInv, TypeOK, OfTx
  <2>2. \A d \in Destinations : \A m \in ToSet(buffered'[d]) : HomeOf(m) = d
    BY <1>7, Zenon DEF TransactionInv, TypeOK
  <2> QED
    BY <1>3, <1>7, <2>1, <2>2, Zenon DEF TransactionInv, TypeOK, HomeOf, LogTypes
<1>10. LogOK'
  <2>1. \A t \in 1..MaxTx : (t > tx' => t > tx) /\ (t = tx' => t > tx) /\ (t > tx => t # tx)
    BY <1>1, TransactedSendAssumption
  <2>2. \A d \in Destinations, t \in 1..MaxTx : t > tx => log[d][t] = "none"
    BY Zenon DEF TransactionInv, LogOK
  <2>3. \A d \in Destinations, t \in 1..MaxTx : t > tx => log'[d][t] = "none"
    BY <1>7, <2>1, <2>2
  <2>4. "none" # "COMMIT"
    OBVIOUS
  <2> QED
    BY <2>1, <2>3, <2>4, Zenon DEF LogOK
<1>11. ASSUME NEW m \in Messages PROVE MessageOK(m)'
  <2>1. /\ SentOK(m) /\ StageOK(m) /\ BufferOK(m) /\ KeptOK(m) /\ sentIn[m] \in Nat
        /\ ProducerOf[m] \in Producers /\ HomeOf(m) \in Destinations
    BY Parts, Zenon
  <2>2. ~InStage(m)'
    BY <1>8, <2>1, Zenon DEF InStage
  <2>3. ~InBuffer(m)'
    <3>1. ASSUME InBuffer(m) PROVE HomeOf(m) \in ds
      <4>1. Unvisited = producers
        BY <1>1 DEF Unvisited
      <4>2. ProducerOf[m] \in producers
        BY <2>1, <3>1, <4>1, Zenon DEF BufferOK, StageOK
      <4> QED
        BY <1>6, <4>2, Zenon DEF HomeOf
    <3>2. InBuffer(m)' => InBuffer(m)
      BY <1>7, <2>1, Zenon DEF InBuffer, HomeOf
    <3> QED
      BY <1>7, <3>1, <3>2, Zenon DEF InBuffer, HomeOf
  <2>4. sentIn[m] # tx'
    BY <1>1, <2>1 DEF SentOK
  <2>5. \A x \in discarded' : x \in discarded \/ sentIn[x] = tx
    BY <1>4, Zenon DEF OfTx
  <2>6. SentOK(m)' /\ BatchOK(m)' /\ CurrentOK(m)' /\ VisibleOK(m)' /\ StoreOK(m)'
    <3>1. discarded \subseteq discarded'
      BY <1>4, Zenon
    <3> QED
      BY <1>1, <1>2, <1>3, <2>5, <3>1, RollbackMessage, Zenon
  <2>7. StageOK(m)' /\ BufferOK(m)'
    BY <2>2, <2>3, Zenon DEF StageOK, BufferOK
  <2>8. KeptOK(m)'
    BY <1>3, <2>1, <2>4, Zenon DEF KeptOK, HomeOf, Alone
  <2> QED
    BY <2>6, <2>7, <2>8, Zenon DEF MessageOK
<1>12. (pc # "idle" => tx <= MaxTx)'
  BY <1>1, <1>3, Zenon
<1>13. \A p \in Producers : \A m \in ToSet(staged'[p]) : ProducerOf[m] = p
  BY <1>8, Zenon
<1> QED
  BY <1>9, <1>10, <1>11, <1>12, <1>13, ZenonT(30) DEF TransactionInv

\* deleteProducer(): the buffer of its destination is emptied, of the messages of
\* other producers too; a producer that is alone on its destination loses nothing.
LEMMA DeleteProducerStep ==
  ASSUME TransactionInv, NEW q \in Producers, DeleteProducer(q)
  PROVE  TransactionInv'
<1> DEFINE ds == {DestinationOf[q]}
<1>1. pc = "idle" /\ tx \in 1..MaxTx /\ tx' = tx /\ tx \in Nat \ {0} /\ tx <= MaxTx
  BY TransactedSendAssumption DEF DeleteProducer, TransactionInv, TypeOK
<1>2. ds \in SUBSET Destinations /\ RollbackTransaction(ds)
  <2>1. DestinationOf[q] \in Destinations
    BY TransactedSendAssumption
  <2>2. RollbackTransaction(ds)
    BY ZenonT(30) DEF DeleteProducer
  <2> QED
    BY <2>1, <2>2, ZenonT(30)
<1>3. /\ UNCHANGED <<sentIn, resolved, commit, store, delayStored, visible, failures, committed>>
      /\ UNCHANGED <<pc, todo, current, batch, crashes>>
  BY SMTT(30) DEF DeleteProducer, commit
<1>4. /\ staged' = [staged EXCEPT ![q] = <<>>] /\ staged \in [Producers -> Seq(Messages)]
      /\ discarded' = discarded \cup {m \in OfTx(tx) : ProducerOf[m] = q}
      /\ producers' = producers \ {q} /\ deletes' = deletes + 1
  BY DEF DeleteProducer, TransactionInv, TypeOK
<1>5. Unvisited = producers /\ Unvisited' = producers'
  BY <1>1, <1>3 DEF Unvisited
<1>6. /\ buffered' \in [Destinations -> Seq(Persistent)]
      /\ \A d \in Destinations : ToSet(buffered'[d]) \subseteq ToSet(buffered[d])
      /\ \A d \in ds : ToSet(buffered'[d]) = {}
      /\ \A d \in Destinations : d \notin ds => buffered'[d] = buffered[d]
      /\ log' \in [Destinations -> LogTypes]
      /\ \A d \in Destinations, t \in 1..MaxTx : t # tx => log'[d][t] = log[d][t]
      /\ \A d \in Destinations : log'[d][tx] = log[d][tx] \/ log'[d][tx] = "ROLLBACK"
      /\ \A d \in Destinations : d \notin ds => log'[d] = log[d]
  BY <1>1, <1>2, RollbackEffect, Zenon
<1>7. /\ ToSet(staged'[q]) = {} /\ staged' \in [Producers -> Seq(Messages)]
      /\ \A p \in Producers : p # q => staged'[p] = staged[p]
  BY <1>4, EmptySet
<1>8. TypeOK'
  <2>1. /\ discarded' \in SUBSET Messages /\ producers' \in SUBSET Producers
        /\ tx' \in Nat \ {0} /\ deletes' \in Nat
    BY <1>1, <1>4 DEF TransactionInv, TypeOK, OfTx
  <2>2. \A d \in Destinations : \A m \in ToSet(buffered'[d]) : HomeOf(m) = d
    BY <1>6, Zenon DEF TransactionInv, TypeOK
  <2> QED
    BY <1>3, <1>6, <1>7, <2>1, <2>2, ZenonT(30) DEF TransactionInv, TypeOK, HomeOf, LogTypes
<1>9. LogOK'
  <2>1. \A t \in 1..MaxTx : t > tx => t # tx
    BY <1>1
  <2>2. \A d \in Destinations, t \in 1..MaxTx : t > tx => log'[d][t] = "none"
    <3>1. \A d \in Destinations, t \in 1..MaxTx : t > tx => log[d][t] = "none"
      BY Zenon DEF TransactionInv, LogOK
    <3>2. ASSUME NEW d \in Destinations, NEW t \in 1..MaxTx, t > tx PROVE log'[d][t] = "none"
      <4>1. log'[d][t] = log[d][t]
        BY <1>6, <2>1, <3>2, Zenon
      <4> QED
        BY <3>1, <3>2, <4>1, Zenon
    <3> QED
      BY <3>2, Zenon
  <2>3. \A d \in Destinations, t \in 1..MaxTx : t = tx => log'[d][t] # "COMMIT"
    <3>1. \A d \in Destinations, t \in 1..MaxTx : t = tx => log[d][t] # "COMMIT"
      BY <1>1, Zenon DEF TransactionInv, LogOK
    <3>2. "ROLLBACK" # "COMMIT"
      OBVIOUS
    <3>3. ASSUME NEW d \in Destinations PROVE log'[d][tx] # "COMMIT"
      <4>1. log'[d][tx] = log[d][tx] \/ log'[d][tx] = "ROLLBACK"
        BY <1>6, Zenon
      <4> QED
        BY <1>1, <3>1, <3>2, <4>1, Zenon
    <3> QED
      BY <3>3, Zenon
  <2> QED
    BY <1>1, <2>2, <2>3, Zenon DEF LogOK
<1>10. ASSUME NEW m \in Messages PROVE MessageOK(m)'
  <2>1. /\ StageOK(m) /\ BufferOK(m) /\ BatchOK(m) /\ KeptOK(m)
        /\ ProducerOf[m] \in Producers /\ HomeOf(m) \in Destinations
    BY Parts, Zenon
  <2>2. InStage(m)' => InStage(m) /\ ProducerOf[m] # q
    BY <1>7, <2>1, Zenon DEF InStage
  <2>3. InStage(m) /\ ProducerOf[m] # q => InStage(m)'
    BY <1>7, <2>1, Zenon DEF InStage
  <2>4. /\ InBuffer(m)' => InBuffer(m) /\ HomeOf(m) \notin ds
        /\ InBuffer(m) /\ HomeOf(m) \notin ds => InBuffer(m)'
    BY <1>6, <2>1, Zenon DEF InBuffer, HomeOf
  <2>5. m \in discarded' <=> m \in discarded \/ (sentIn[m] = tx /\ ProducerOf[m] = q)
    BY <1>4, Zenon DEF OfTx
  <2>6. \A x \in discarded' : x \in discarded \/ sentIn[x] = tx
    BY <1>4, Zenon DEF OfTx
  <2>12. discarded \subseteq discarded'
    BY <1>4, Zenon
  <2>7. SentOK(m)' /\ BatchOK(m)' /\ CurrentOK(m)' /\ VisibleOK(m)' /\ StoreOK(m)'
    BY <1>1, <1>2, <1>3, <2>6, <2>12, RollbackMessage, Zenon
  <2>8. HomeOf(m) \notin ds => ProducerOf[m] # q
    BY DEF HomeOf
  <2>9. StageOK(m)'
    BY <1>1, <1>3, <1>4, <1>5, <2>1, <2>2, <2>5, Zenon DEF StageOK
  <2>10. BufferOK(m)'
    <3>1. InBuffer(m)' => log'[HomeOf(m)][tx] = "BEGIN"
      BY <1>6, <2>1, <2>4, Zenon DEF BufferOK
    <3> QED
      BY <1>1, <2>1, <2>3, <2>4, <2>8, <3>1, Zenon DEF BufferOK, HomeOf
  <2>11. KeptOK(m)'
    <3>1. Alone(m) /\ HomeOf(m) \in ds => ProducerOf[m] = q
      BY DEF Alone
    <3>2. ~InBatch(m)
      <4>1. pc # "append"
        BY <1>1
      <4> QED
        BY <2>1, <4>1, Zenon DEF BatchOK
    <3> QED
      BY <1>1, <1>3, <2>1, <2>4, <2>5, <3>1, <3>2, Zenon DEF KeptOK, Alone, HomeOf
  <2> QED
    BY <2>7, <2>9, <2>10, <2>11, Zenon DEF MessageOK
<1>11. (pc # "idle" => tx <= MaxTx)'
  BY <1>1, <1>3, Zenon
<1>12. \A p \in Producers : \A m \in ToSet(staged'[p]) : ProducerOf[m] = p
  BY <1>7, Zenon DEF TransactionInv
<1> QED
  BY <1>8, <1>9, <1>10, <1>11, <1>12, ZenonT(30) DEF TransactionInv

\* Producer::commit(): what is buffered in the destination becomes the batch, with
\* its COMMIT logged; a message of a producer that is alone there is staged in that
\* producer, so that its delay is resolved.
LEMMA CommitProducerStep ==
  ASSUME TransactionInv, NEW q \in Producers, CommitProducer(q)
  PROVE  TransactionInv'
<1> DEFINE d == DestinationOf[q]
<1>1. /\ pc = "commit" /\ q \in todo /\ pc' = "append" /\ tx' = tx /\ tx \in 1..MaxTx /\ tx <= MaxTx
      /\ tx \in Nat \ {0} /\ d \in Destinations
  <2>1. pc = "commit" /\ q \in todo /\ pc' = "append" /\ tx' = tx
    BY DEF CommitProducer
  <2>2. tx <= MaxTx /\ tx \in Nat \ {0}
    <3>1. (pc # "idle" => tx <= MaxTx) /\ tx \in Nat \ {0}
      BY Zenon DEF TransactionInv, TypeOK
    <3> QED
      BY <2>1, <3>1
  <2>3. d \in Destinations /\ MaxTx \in Nat
    BY TransactedSendAssumption
  <2> HIDE DEF d
  <2> QED
    BY <2>1, <2>2, <2>3
<1>2. /\ todo' = todo \ {q} /\ current' = staged[q] /\ staged' = [staged EXCEPT ![q] = <<>>]
      /\ resolved' = resolved \cup (ToSet(staged[q]) \cap ToSet(buffered[d]) \cap Delayed)
  BY Zenon DEF CommitProducer, Patched
<1>3. UNCHANGED <<tx, producers, sentIn, store, delayStored, visible, deletes, crashes, failures,
                  committed, discarded>>
  BY DEF CommitProducer, bounds, history
<1>4. CommitTransaction(d)
  BY Zenon DEF CommitProducer
<1>5. /\ buffered \in [Destinations -> Seq(Persistent)] /\ log \in [Destinations -> LogTypes]
      /\ staged \in [Producers -> Seq(Messages)]
      /\ \A c \in Destinations : \A m \in ToSet(buffered[c]) : HomeOf(m) = c
      /\ \A p \in Producers : \A m \in ToSet(staged[p]) : ProducerOf[m] = p
  BY Zenon DEF TransactionInv, TypeOK, LogTypes
<1> HIDE DEF d
<1>6. log[d][tx] # "BEGIN" => ToSet(buffered[d]) = {}
  <2> SUFFICES ASSUME NEW m \in ToSet(buffered[d]) PROVE log[d][tx] = "BEGIN"
    BY Zenon
  <2>1. m \in Messages
    <3>1. buffered[d] \in Seq(Persistent)
      BY <1>1, <1>5, Zenon
    <3> QED
      BY <3>1, SetOf, TransactedSendAssumption, Zenon
  <2>2. HomeOf(m) = d
    BY <1>1, <1>5, Zenon
  <2>3. BufferOK(m)
    BY <2>1, Parts, Zenon
  <2> QED
    BY <2>2, <2>3, Zenon DEF BufferOK, InBuffer
<1>7. /\ batch' \in Seq(Persistent) /\ ToSet(batch') = ToSet(buffered[d])
      /\ buffered' \in [Destinations -> Seq(Persistent)]
      /\ ToSet(buffered'[d]) = {} /\ \A c \in Destinations : c # d => buffered'[c] = buffered[c]
  <2>1. buffered[d] \in Seq(Persistent) /\ <<>> \in Seq(Persistent)
    BY <1>1, <1>5
  <2>2. CASE log[d][tx] = "BEGIN"
    <3>1. batch' = buffered[d] /\ buffered' = [buffered EXCEPT ![d] = <<>>]
      BY <1>4, <2>2, Zenon DEF CommitTransaction
    <3> QED
      BY <1>1, <1>5, <2>1, <3>1, EmptySet
  <2>3. CASE log[d][tx] # "BEGIN"
    BY <1>4, <1>5, <1>6, <2>1, <2>3, EmptySet, Zenon DEF CommitTransaction
  <2> QED
    BY <2>2, <2>3, Zenon
<1>8. /\ log' \in [Destinations -> LogTypes]
      /\ log[d][tx] = "BEGIN" => log'[d][tx] = "COMMIT"
      /\ \A c \in Destinations, u \in 1..MaxTx : c # d \/ u # tx => log'[c][u] = log[c][u]
      /\ log[d][tx] # "BEGIN" => log' = log
  <2>1. CASE log[d][tx] = "BEGIN"
    <3>1. log' = Logged(log, d, tx, "COMMIT") /\ "COMMIT" \in {"BEGIN", "COMMIT"}
      BY <1>4, <2>1 DEF CommitTransaction, Logged
    <3>2. /\ Logged(log, d, tx, "COMMIT") \in [Destinations -> LogTypes]
          /\ Logged(log, d, tx, "COMMIT")[d][tx] = "COMMIT"
          /\ \A c \in Destinations, u \in 1..MaxTx :
                c # d \/ u # tx => Logged(log, d, tx, "COMMIT")[c][u] = log[c][u]
      <4>1. tx \in 1..MaxTx /\ d \in Destinations /\ log \in [Destinations -> LogTypes]
        BY <1>1, <1>5, Zenon
      <4> QED
        BY <3>1, <4>1, LogRecord
    <3> QED
      BY <2>1, <3>1, <3>2, Zenon
  <2>2. CASE log[d][tx] # "BEGIN"
    BY <1>4, <1>5, <2>2, Zenon DEF CommitTransaction
  <2> QED
    BY <2>1, <2>2, Zenon
<1>9. /\ ToSet(staged'[q]) = {} /\ staged' \in [Producers -> Seq(Messages)]
      /\ \A p \in Producers : p # q => staged'[p] = staged[p]
  BY <1>2, <1>5, EmptySet
<1>10. TypeOK'
  <2>1. /\ todo' \in SUBSET Producers /\ current' \in Seq(Messages)
        /\ resolved' \in SUBSET Delayed /\ pc' \in {"idle", "commit", "append", "deliver"}
    BY <1>1, <1>2, <1>5 DEF TransactionInv, TypeOK
  <2>2. \A c \in Destinations : \A m \in ToSet(buffered'[c]) : HomeOf(m) = c
    <3>1. ASSUME NEW c \in Destinations, NEW m \in ToSet(buffered'[c]) PROVE HomeOf(m) = c
      <4>1. c # d
        BY <1>7, Zenon
      <4> QED
        BY <1>5, <1>7, <4>1, Zenon
    <3> QED
      BY <3>1, Zenon
  <2> QED
    BY <1>3, <1>7, <1>8, <1>9, <2>1, <2>2, ZenonT(30) DEF TransactionInv, TypeOK, HomeOf, LogTypes
<1>11. LogOK'
  <2>1. \A u \in 1..MaxTx : u > tx => u # tx
    BY <1>1
  <2>2. \A c \in Destinations, u \in 1..MaxTx : u > tx => log[c][u] = "none"
    BY Zenon DEF TransactionInv, LogOK
  <2>3. \A c \in Destinations, u \in 1..MaxTx : u > tx => log'[c][u] = "none"
    BY <1>8, <2>1, <2>2, ZenonT(30)
  <2>4. pc' # "idle"
    BY <1>1
  <2> QED
    BY <1>1, <2>3, <2>4, Zenon DEF LogOK
<1>12. Unvisited = todo /\ Unvisited' = todo' /\ pc' # "idle" /\ pc # "append"
       /\ pc \notin {"append", "deliver"} /\ pc' \in {"append", "deliver"}
  BY <1>1 DEF Unvisited
<1>13. ASSUME NEW m \in Messages PROVE MessageOK(m)'
  <2>1. /\ SentOK(m) /\ StageOK(m) /\ BufferOK(m) /\ BatchOK(m) /\ CurrentOK(m)
        /\ VisibleOK(m) /\ StoreOK(m) /\ KeptOK(m)
        /\ ProducerOf[m] \in Producers /\ HomeOf(m) \in Destinations
    BY Parts, Zenon
  <2>2. /\ InStage(m)' => InStage(m) /\ ProducerOf[m] # q
        /\ InStage(m) /\ ProducerOf[m] # q => InStage(m)'
    BY <1>9, <2>1, Zenon DEF InStage
  <2>3. /\ InBuffer(m)' => InBuffer(m) /\ HomeOf(m) # d
        /\ InBuffer(m) /\ HomeOf(m) # d => InBuffer(m)'
    BY <1>7, <2>1, Zenon DEF InBuffer, HomeOf
  <2>4. /\ InBatch(m)' => InBuffer(m) /\ HomeOf(m) = d
        /\ InBuffer(m) /\ HomeOf(m) = d => InBatch(m)'
    BY <1>1, <1>5, <1>7, Zenon DEF InBatch, InBuffer
  <2>5. InCurrent(m)' => InStage(m) /\ ProducerOf[m] = q
    BY <1>2, <1>5, Zenon DEF InCurrent, InStage
  <2>6. ~InBatch(m)
    BY <1>12, <2>1, Zenon DEF BatchOK
  <2>7. ProducerOf[m] = q => HomeOf(m) = d
    BY Zenon DEF HomeOf, d
  <2>8. SentOK(m)' /\ VisibleOK(m)'
    BY <1>3, <1>12, <2>1, Zenon DEF SentOK, VisibleOK
  <2>9. StageOK(m)'
    <3>1. InStage(m)' => ProducerOf[m] \in todo'
      BY <1>2, <1>12, <2>1, <2>2, Zenon DEF StageOK
    <3> QED
      BY <1>3, <1>12, <2>1, <2>2, <3>1, Zenon DEF StageOK
  <2>10. BufferOK(m)'
    <3>1. InBuffer(m)' => log'[HomeOf(m)][tx] = log[HomeOf(m)][tx]
      BY <1>1, <1>8, <2>1, <2>3, Zenon
    <3> QED
      BY <1>3, <2>1, <2>2, <2>3, <2>7, <3>1, Zenon DEF BufferOK, HomeOf
  <2>11. CurrentOK(m)'
    <3>1. q \notin todo'
      BY <1>2, Zenon
    <3> QED
      BY <1>3, <1>12, <2>1, <2>5, <3>1, Zenon DEF CurrentOK, StageOK
  <2>12. BatchOK(m)'
    <3> SUFFICES ASSUME InBatch(m)' PROVE BatchOK(m)'
      BY Zenon DEF BatchOK
    <3>1. InBuffer(m) /\ HomeOf(m) = d /\ InStage(m) /\ log[d][tx] = "BEGIN"
      BY <2>1, <2>4, Zenon DEF BufferOK
    <3>2. log'[HomeOf(m)][tx] = "COMMIT" /\ sentIn[m] = tx /\ m \notin discarded
      BY <1>8, <2>1, <3>1, Zenon DEF StageOK
    <3>3. Alone(m) => ProducerOf[m] = q
      BY <3>1, Zenon DEF Alone, d
    <3>4. Alone(m) /\ m \in Delayed => m \in resolved'
      BY <1>2, <3>1, <3>3, Zenon DEF InStage, InBuffer
    <3> QED
      BY <1>1, <1>3, <3>2, <3>4, Zenon DEF BatchOK, HomeOf, Alone
  <2>13. StoreOK(m)'
    <3> SUFFICES ASSUME m \in store PROVE StoreOK(m)'
      BY <1>3, Zenon DEF StoreOK
    <3>1. sentIn[m] \in 1..MaxTx /\ log[HomeOf(m)][sentIn[m]] = "COMMIT"
      BY <2>1, Zenon DEF StoreOK
    <3>2. "COMMIT" # "BEGIN"
      OBVIOUS
    <3>3. log'[HomeOf(m)][sentIn[m]] = "COMMIT"
      BY <1>8, <2>1, <3>1, <3>2, Zenon
    <3> QED
      BY <1>3, <2>1, <3>3, Zenon DEF StoreOK, HomeOf, Alone
  <2>14. KeptOK(m)'
    BY <1>3, <2>1, <2>3, <2>4, <2>6, Zenon DEF KeptOK, HomeOf, Alone
  <2> QED
    BY <2>8, <2>9, <2>10, <2>11, <2>12, <2>13, <2>14, Zenon DEF MessageOK
<1>14. (pc # "idle" => tx <= MaxTx)'
  BY <1>1, Zenon
<1>15. \A p \in Producers : \A m \in ToSet(staged'[p]) : ProducerOf[m] = p
  BY <1>5, <1>9, Zenon
<1> QED
  BY <1>10, <1>11, <1>13, <1>14, <1>15, Zenon DEF TransactionInv

-----------------------------------------------------------------------------
\* A step that changes nothing.
LEMMA StutterStep ==
  ASSUME TransactionInv, UNCHANGED vars
  PROVE  TransactionInv'
<1>1. UNCHANGED <<tx, producers, sentIn, staged, buffered, resolved, log, pc, todo, current, batch,
                  store, delayStored, visible, deletes, crashes, failures, committed, discarded>>
  BY DEF vars, disk, session, buffer, commit, bounds, history
<1>2. TypeOK' /\ LogOK'
  BY <1>1, Zenon DEF TransactionInv, TypeOK, LogOK, HomeOf
<1>3. ASSUME NEW m \in Messages PROVE MessageOK(m)'
  <2>1. /\ SentOK(m) /\ StageOK(m) /\ BufferOK(m) /\ BatchOK(m) /\ CurrentOK(m)
        /\ VisibleOK(m) /\ StoreOK(m) /\ KeptOK(m)
    BY Parts, Zenon
  <2>2. SentOK(m)' /\ StageOK(m)' /\ BufferOK(m)'
    BY <1>1, <2>1, Zenon DEF SentOK, StageOK, BufferOK, InStage, InBuffer, Unvisited, HomeOf
  <2>3. BatchOK(m)' /\ CurrentOK(m)' /\ VisibleOK(m)'
    BY <1>1, <2>1, Zenon DEF BatchOK, CurrentOK, VisibleOK, InBatch, InCurrent, Alone, HomeOf
  <2>4. StoreOK(m)' /\ KeptOK(m)'
    BY <1>1, <2>1, Zenon DEF StoreOK, KeptOK, InBuffer, InBatch, Alone, HomeOf
  <2> QED
    BY <2>2, <2>3, <2>4, Zenon DEF MessageOK
<1>4. (pc # "idle" => tx <= MaxTx)' /\ \A p \in Producers : \A m \in ToSet(staged'[p]) : ProducerOf[m] = p
  BY <1>1, Zenon DEF TransactionInv
<1> QED
  BY <1>2, <1>3, <1>4, Zenon DEF TransactionInv

\* Every step of the specification preserves the invariant.
LEMMA NextInv ==
  ASSUME TransactionInv, [Next]_vars
  PROVE  TransactionInv'
<1>1. ASSUME NEW m \in Messages, Send(m) PROVE TransactionInv'
  BY <1>1, SendStep
<1>2. ASSUME NEW p \in Producers, CommitProducer(p) PROVE TransactionInv'
  BY <1>2, CommitProducerStep
<1>3. ASSUME NEW p \in Producers, DeleteProducer(p) PROVE TransactionInv'
  BY <1>3, DeleteProducerStep
<1>4. ASSUME NEW closing \in BOOLEAN, Rollback(closing) PROVE TransactionInv'
  BY <1>4, RollbackStep
<1>5. CASE CommitBegin
  BY <1>5, CommitBeginStep
<1>6. CASE AppendOne
  BY <1>6, AppendOneStep
<1>7. CASE AppendFails
  BY <1>7, AppendFailsStep
<1>8. CASE AppendDone
  BY <1>8, AppendDoneStep
<1>9. CASE DeliverCommitted
  BY <1>9, DeliverCommittedStep
<1>10. CASE CommitEnd
  BY <1>10, CommitEndStep
<1>11. CASE CrashAndRecover
  BY <1>11, CrashStep
<1>12. CASE UNCHANGED vars
  BY <1>12, StutterStep
<1> QED
  BY <1>1, <1>2, <1>3, <1>4, <1>5, <1>6, <1>7, <1>8, <1>9, <1>10, <1>11, <1>12, Zenon DEF Next

\* The invariant holds whatever the application sends, commits, rolls back and
\* deletes, and whenever the process crashes.
THEOREM TransactionInvariant == Spec => []TransactionInv
<1>1. Init => TransactionInv
  BY InitInv
<1>2. TransactionInv /\ [Next]_vars => TransactionInv'
  BY NextInv
<1> QED
  BY <1>1, <1>2, PTL DEF Spec

\* Once commit() has returned, every persistent message of the transaction is in the
\* storage, if no append threw and its producer has the destination to itself.
THEOREM CommitStores == Spec => []CommittedStored
<1>1. TransactionInv => CommittedStored
  BY TransactedSendAssumption, Zenon
  DEF TransactionInv, MessageOK, KeptOK, CommittedStored
<1> QED
  BY <1>1, TransactionInvariant, PTL

\* A consumer sees a persistent message only when its record is in the storage,
\* under the same conditions: deliverCommitted() comes after the append.
THEOREM StoredBeforeDelivered == Spec => []DeliveredAreStored
<1>1. TransactionInv => DeliveredAreStored
  BY TransactedSendAssumption, Zenon
  DEF TransactionInv, MessageOK, KeptOK, DeliveredAreStored
<1> QED
  BY <1>1, TransactionInvariant, PTL

\* A stored message is of a transaction whose COMMIT is in the log, also after a
\* crash, and what was rolled back is neither stored nor delivered.
THEOREM LoggedBeforeStored == Spec => []CommitLoggedFirst
<1>1. TransactionInv => CommitLoggedFirst
  <2> SUFFICES ASSUME TransactionInv PROVE CommitLoggedFirst
    OBVIOUS
  <2>1. store \subseteq Messages /\ visible \subseteq Messages
    BY TransactedSendAssumption DEF TransactionInv, TypeOK
  <2>2. \A m \in Messages : StoreOK(m) /\ VisibleOK(m)
    BY Zenon DEF TransactionInv, MessageOK
  <2>3. \A m \in store : log[HomeOf(m)][sentIn[m]] = "COMMIT" /\ m \notin discarded
    BY <2>1, <2>2, Zenon DEF StoreOK
  <2>4. \A m \in visible : m \notin discarded
    BY <2>1, <2>2, Zenon DEF VisibleOK
  <2> QED
    BY <2>3, <2>4, Zenon DEF CommitLoggedFirst
<1> QED
  BY <1>1, TransactionInvariant, PTL

\* The record of a delayed message has the deliveryTime that Producer::commit()
\* resolved, if its producer has the destination to itself.
THEOREM DelaysResolved == Spec => []StoredDelayResolved
<1>1. TransactionInv => StoredDelayResolved
  BY TransactedSendAssumption, Zenon
  DEF TransactionInv, MessageOK, StoreOK, StoredDelayResolved
<1> QED
  BY <1>1, TransactionInvariant, PTL
=============================================================================
