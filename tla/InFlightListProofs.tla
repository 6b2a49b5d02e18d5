------------------------- MODULE InFlightListProofs -------------------------
(***************************************************************************)
(* Proofs about InFlightList, for any number of consumers and messages:    *)
(* the chains are in order, what is in use is alive, and the list          *)
(* implements InFlightSet.  First the inductive invariant and the steps    *)
(* that touch no link, then the walks of recover() and clearInFlight() and *)
(* recv(), then acknowledgeOn() and the theorems.                          *)
(***************************************************************************)
EXTENDS InFlightList, TLAPS

Walking == {"recover", "redeliver", "clear"}

\* Where the rest of the chain of c hangs: on the consumer, or on a local of its walk.
First(c) == IF pc[c] \in {"recover", "clear"} THEN node[c]
            ELSE IF pc[c] = "redeliver" THEN following[c] ELSE head[c]

\* What the locals of the calls hold.
LocalsOK == \A c \in Consumers :
    /\ pc[c] \notin Walking => node[c] = Null
    /\ pc[c] # "redeliver" => following[c] = Null
    /\ pc[c] \notin {"idle", "ack"} => head[c] = Null /\ tail[c] = Null
    /\ pc[c] \in Walking => c \in Tracking
    /\ pc[c] = "redeliver" =>
          node[c] # Null /\ node[c] \in made \ queued /\ owner[node[c]] = Null
    /\ self[c] = target[c]
    /\ pc[c] # "ack" => target[c] = Null

\* A message that is being redelivered is in the hands of one consumer.
OneRedelivers == \A c, d \in Consumers :
    pc[c] = "redeliver" /\ pc[d] = "redeliver" /\ node[c] = node[d] => c = d

\* A message in a chain is not in the queue, and no two have the same stamp.
TrackedOK == \A m \in Messages :
    /\ owner[m] # Null =>
          m \in made \ queued /\ pc[owner[m]] # "gone" /\ stamp[m] <= received
    /\ owner[m] = Null => next[m] = Null /\ prev[m] = Null
    /\ \A o \in Messages : owner[m] # Null /\ owner[m] = owner[o] /\ stamp[m] = stamp[o] => m = o

\* The links, locally: each pointer with what it points to.
FirstOK == \A c \in Consumers :
    /\ First(c) = Null => \A m \in Messages : owner[m] # c
    /\ First(c) # Null =>
          /\ owner[First(c)] = c
          /\ \A m \in Messages : owner[m] = c => stamp[First(c)] <= stamp[m]
          /\ pc[c] \in {"idle", "ack"} => prev[First(c)] = Null

NextOK == \A m \in Messages : owner[m] # Null /\ next[m] # Null =>
    /\ owner[next[m]] = owner[m] /\ prev[next[m]] = m
    /\ stamp[m] < stamp[next[m]]
    /\ \A x \in Messages : owner[x] = owner[m] =>
          stamp[x] <= stamp[m] \/ stamp[next[m]] <= stamp[x]

PrevOK == \A m \in Messages : owner[m] # Null /\ First(owner[m]) # m =>
    prev[m] # Null /\ owner[prev[m]] = owner[m] /\ next[prev[m]] = m

LastOK == \A m \in Messages : owner[m] # Null /\ next[m] = Null =>
    /\ \A x \in Messages : owner[x] = owner[m] => stamp[x] <= stamp[m]
    /\ pc[owner[m]] \in {"idle", "ack"} => tail[owner[m]] = m

TailOK == \A c \in Consumers :
    /\ tail[c] # Null => owner[tail[c]] = c /\ next[tail[c]] = Null
    /\ tail[c] = Null /\ pc[c] \in {"idle", "ack"} => head[c] = Null

ListInv ==
    /\ TypeOK /\ LocalsOK /\ OneRedelivers /\ TrackedOK
    /\ FirstOK /\ NextOK /\ PrevOK /\ LastOK /\ TailOK

-----------------------------------------------------------------------------
\* The time of receipt recv() leaves on a message is a number.
LEMMA StampIsNat == ASSUME TypeOK, NEW m \in Messages PROVE stamp[m] \in Nat
  BY Zenon DEF TypeOK

\* Receipts that are in order and differ are strictly in order.
LEMMA Stricter == ASSUME NEW i \in Nat, NEW j \in Nat, i <= j, i # j PROVE i < j
  OBVIOUS

\* Receipts that are in order and differ are not in the reverse order.
LEMMA NoLess == ASSUME NEW i \in Nat, NEW j \in Nat, i <= j, i # j PROVE ~(j <= i)
  OBVIOUS

Structure == FirstOK /\ NextOK /\ PrevOK /\ LastOK
Rest == LocalsOK /\ OneRedelivers /\ TrackedOK /\ TailOK

Between(c) == pc[c] \in {"idle", "ack"}

\* The links stay, and every chain hangs where it hung.
ChainsStay ==
    /\ next' = next /\ prev' = prev /\ owner' = owner /\ stamp' = stamp
    /\ \A c \in Consumers : First(c)' = First(c)
    /\ \A c \in Consumers : Between(c)' =>
          /\ Between(c) \/ \A m \in Messages : owner[m] # c
          /\ tail'[c] = tail[c]

\* Actions that leave the links and the start of every chain alone keep its order.
LEMMA StructureKept ==
  ASSUME ListInv, ChainsStay
  PROVE  Structure'
<1>1. FirstOK'
  <2> SUFFICES ASSUME NEW c \in Consumers PROVE FirstOK!(c)'
    BY Zenon DEF FirstOK
  <2>1. FirstOK!(c) /\ First(c)' = First(c)
    BY Zenon DEF ListInv, FirstOK, ChainsStay
  <2>2. pc'[c] \in {"idle", "ack"} => pc[c] \in {"idle", "ack"} \/ First(c) = Null
    <3>1. First(c) # Null => First(c) \in Messages
      BY Zenon DEF ListInv, First, TypeOK
    <3> QED
      BY <2>1, <3>1, Zenon DEF ChainsStay, Between
  <2> QED
    BY <2>1, <2>2, Zenon DEF ChainsStay
<1>2. NextOK'
  BY Zenon DEF ListInv, NextOK, ChainsStay
<1>3. PrevOK'
  <2> SUFFICES ASSUME NEW m \in Messages, owner[m] # Null, First(owner[m])' # m
               PROVE  prev[m] # Null /\ owner[prev[m]] = owner[m] /\ next[prev[m]] = m
    BY Zenon DEF PrevOK, ChainsStay
  <2>1. owner[m] \in Consumers
    BY InFlightListAssumption, Zenon DEF ListInv, TypeOK
  <2>2. First(owner[m]) # m
    BY <2>1, Zenon DEF ChainsStay
  <2> QED
    BY <2>2, Zenon DEF ListInv, PrevOK
<1>4. LastOK'
  <2> SUFFICES ASSUME NEW m \in Messages, owner[m] # Null, next[m] = Null
               PROVE  /\ \A x \in Messages : owner[x] = owner[m] => stamp[x] <= stamp[m]
                      /\ pc'[owner[m]] \in {"idle", "ack"} => tail'[owner[m]] = m
    BY Zenon DEF LastOK, ChainsStay
  <2>1. owner[m] \in Consumers
    BY InFlightListAssumption, Zenon DEF ListInv, TypeOK
  <2>2. pc'[owner[m]] \in {"idle", "ack"} =>
          pc[owner[m]] \in {"idle", "ack"} /\ tail'[owner[m]] = tail[owner[m]]
    BY <2>1, Zenon DEF ChainsStay, Between
  <2> QED
    BY <2>2, Zenon DEF ListInv, LastOK
<1> QED
  BY <1>1, <1>2, <1>3, <1>4, Zenon DEF Structure

\* A new consumer has an empty chain, and a new message an empty link.
LEMMA InitListInv == Init => ListInv
<1> SUFFICES ASSUME Init PROVE ListInv
  BY Zenon
<1> USE InFlightListAssumption DEF Init, NoMessage
<1>1. TypeOK
  BY Zenon DEF TypeOK, States
<1>2. LocalsOK /\ OneRedelivers /\ TrackedOK /\ TailOK
  BY Zenon DEF LocalsOK, OneRedelivers, TrackedOK, TailOK, Walking
<1>3. FirstOK /\ NextOK /\ PrevOK /\ LastOK
  BY Zenon DEF FirstOK, NextOK, PrevOK, LastOK, First
<1> QED
  BY <1>1, <1>2, <1>3, Zenon DEF ListInv

\* Every part of every call keeps the types.
LEMMA TypeStep == TypeOK /\ LocalsOK /\ [Next]_vars => TypeOK'
<1> SUFFICES ASSUME TypeOK, LocalsOK, [Next]_vars PROVE TypeOK'
  BY Zenon
<1> USE InFlightListAssumption DEF TypeOK, ends, links, walk, ack, history, States
<1>1. ASSUME NEW m \in Messages, Send(m) \/ Drop(m) PROVE TypeOK'
  BY <1>1, Zenon DEF Send, Drop, Fresh
<1>2. ASSUME NEW m \in Messages, NEW n \in Messages, Forward(m, n) PROVE TypeOK'
  BY <1>2, Zenon DEF Forward, Fresh
<1>3. ASSUME NEW c \in Consumers, RecoverBegin(c) \/ ClearBegin(c) PROVE TypeOK'
  BY <1>3 DEF RecoverBegin, ClearBegin, DetachChain
<1>4. ASSUME NEW c \in Consumers, Call(c) PROVE TypeOK'
  <2>1. CASE AckReturn(c)
    BY <2>1, Zenon DEF AckReturn
  <2>2. CASE RecoverNode(c)
    BY <2>2, Zenon DEF RecoverNode, ClearLinks
  <2>3. CASE Redeliver(c)
    BY <2>3 DEF Redeliver, LocalsOK
  <2>4. CASE RecoverReturn(c) \/ ClearReturn(c)
    BY <2>4 DEF RecoverReturn, ClearReturn
  <2>5. CASE ClearNode(c)
    BY <2>5, Zenon DEF ClearNode, ClearLinks
  <2> QED
    BY <1>4, <2>1, <2>2, <2>3, <2>4, <2>5, Zenon DEF Call
<1>5. ASSUME NEW c \in Consumers, NEW m \in Messages, RecvTracked(c, m) PROVE TypeOK'
  BY <1>5 DEF RecvTracked, Dequeue
<1>6. ASSUME NEW c \in Consumers, NEW m \in Messages, RecvUntracked(c, m) PROVE TypeOK'
  BY <1>6 DEF RecvUntracked, Dequeue
<1>7. ASSUME NEW c \in Consumers, NEW m \in Messages, Acknowledge(c, m) PROVE TypeOK'
  BY <1>7 DEF Acknowledge, Unlink
<1>8. CASE UNCHANGED vars
  BY <1>8, Zenon DEF vars
<1> QED
  BY <1>1, <1>2, <1>3, <1>4, <1>5, <1>6, <1>7, <1>8, Zenon DEF Next, AcknowledgeOther

\* No chain and no walk is touched, and no message that exists enters the queue.
Quiet ==
    /\ head' = head /\ tail' = tail /\ next' = next /\ prev' = prev /\ owner' = owner
    /\ node' = node /\ following' = following /\ stamp' = stamp
    /\ received' = received \/ received' = received + 1
    /\ made \subseteq made' /\ \A m \in made : m \in queued' => m \in queued
    /\ \A c \in Consumers : pc'[c] = pc[c] \/ (Between(c) /\ Between(c)')
    /\ \A c \in Consumers : self'[c] = target'[c] /\ (pc'[c] # "ack" => target'[c] = Null)

\* Such an action keeps what is said about the locals and the places of messages.
LEMMA QuietStep ==
  ASSUME ListInv, Quiet
  PROVE  Rest' /\ Structure'
<1> USE DEF Quiet
<1>1. \A c \in Consumers :
        /\ \A s \in {"recover", "redeliver", "clear", "gone"} : pc'[c] = s <=> pc[c] = s
        /\ pc'[c] \in {"idle", "ack"} <=> pc[c] \in {"idle", "ack"}
  BY Zenon DEF Between
<1>2. LocalsOK'
  <2> SUFFICES ASSUME NEW c \in Consumers PROVE LocalsOK!(c)'
    BY Zenon DEF LocalsOK
  <2>1. LocalsOK!(c)
    BY Zenon DEF ListInv, LocalsOK
  <2> QED
    BY <1>1, <2>1, Zenon DEF Walking
<1>3. OneRedelivers'
  BY <1>1, Zenon DEF ListInv, OneRedelivers
<1>4. TrackedOK'
  <2> SUFFICES ASSUME NEW m \in Messages PROVE TrackedOK!(m)'
    BY Zenon DEF TrackedOK
  <2>1. TrackedOK!(m)
    BY Zenon DEF ListInv, TrackedOK
  <2>2. received \in Nat /\ stamp[m] \in Nat /\ owner[m] \in Consumers \cup {Null}
    BY InFlightListAssumption, Zenon DEF ListInv, TypeOK
  <2>3. owner[m] # Null => m \in made' \ queued' /\ pc'[owner[m]] # "gone" /\ stamp[m] <= received'
    BY <1>1, <2>1, <2>2
  <2> QED
    BY <2>1, <2>3, Zenon
<1>5. TailOK'
  BY <1>1, Zenon DEF ListInv, TailOK
<1>6. ChainsStay
  BY <1>1, Zenon DEF ChainsStay, First, Between
<1> QED
  BY <1>2, <1>3, <1>4, <1>5, <1>6, StructureKept, Zenon DEF Rest

\* send(), dropping a reference, recv() in AUTO_ACKNOWLEDGE mode and the end of
\* acknowledgeOn() touch no chain.
LEMMA LinksKeptStep ==
  ASSUME ListInv,
         \/ \E m \in Messages : Send(m) \/ Drop(m) \/ \E n \in Messages : Forward(m, n)
         \/ \E c \in Consumers : AckReturn(c) \/ \E m \in Messages : RecvUntracked(c, m)
         \/ UNCHANGED vars
  PROVE  Rest' /\ Structure'
<1> USE DEF ends, links, walk, ack, history
<1>1. ASSUME head' = head, tail' = tail, UNCHANGED links, UNCHANGED walk, UNCHANGED ack, pc' = pc,
             stamp' = stamp, received' = received \/ received' = received + 1,
             made \subseteq made', \A m \in made : m \in queued' => m \in queued
      PROVE  Quiet
  <2>1. \A c \in Consumers : self'[c] = target'[c] /\ (pc'[c] # "ack" => target'[c] = Null)
    BY <1>1, Zenon DEF ListInv, LocalsOK
  <2> QED
    BY <1>1, <2>1, Zenon DEF Quiet
<1>2. ASSUME NEW m \in Messages, Send(m) \/ Drop(m) PROVE Quiet
  BY <1>1, <1>2, Zenon DEF Send, Drop, Fresh
<1>3. ASSUME NEW m \in Messages, NEW n \in Messages, Forward(m, n) PROVE Quiet
  <2>1. owner[n] = Null /\ next[n] = Null /\ prev[n] = Null
    BY <1>3, Zenon DEF Forward, Fresh, ListInv, TrackedOK
  <2>2. UNCHANGED links
    BY <1>3, <2>1, Zenon DEF Forward, ListInv, TypeOK
  <2> QED
    BY <1>1, <1>3, <2>2, Zenon DEF Forward, Fresh
<1>4. ASSUME NEW c \in Consumers, NEW m \in Messages, RecvUntracked(c, m) PROVE Quiet
  BY <1>1, <1>4, Zenon DEF RecvUntracked, Dequeue
<1>5. ASSUME NEW c \in Consumers, AckReturn(c) PROVE Quiet
  <2>1. /\ UNCHANGED <<ends, links, walk, history, queued, made>>
        /\ pc[c] = "ack" /\ pc'[c] = "idle" /\ target'[c] = Null /\ self'[c] = Null
        /\ \A d \in Consumers \ {c} : pc'[d] = pc[d] /\ target'[d] = target[d] /\ self'[d] = self[d]
    BY <1>5, Zenon DEF AckReturn, ListInv, TypeOK
  <2>2. \A d \in Consumers : self'[d] = target'[d] /\ (pc'[d] # "ack" => target'[d] = Null)
    BY <2>1, Zenon DEF ListInv, LocalsOK
  <2> QED
    BY <2>1, <2>2, Zenon DEF Quiet, Between
<1>6. ASSUME UNCHANGED vars PROVE Quiet
  BY <1>1, <1>6, Zenon DEF vars
<1>7. Quiet
  BY <1>2, <1>3, <1>4, <1>5, <1>6, Zenon
<1> QED
  BY <1>7, QuietStep, Zenon

\* recover() and the destructor detach the chain: it hangs on a local now.
LEMMA DetachStep ==
  ASSUME ListInv, NEW c \in Consumers, NEW state \in {"recover", "clear"}, DetachChain(c, state)
  PROVE  Rest' /\ Structure'
<1>1. /\ next' = next /\ prev' = prev /\ owner' = owner /\ stamp' = stamp /\ received' = received
      /\ queued' = queued /\ made' = made /\ following' = following /\ target' = target /\ self' = self
      /\ pc[c] = "idle" /\ pc'[c] = state /\ c \in Tracking
      /\ node'[c] = head[c] /\ head'[c] = Null /\ tail'[c] = Null
      /\ \A d \in Consumers \ {c} : /\ pc'[d] = pc[d] /\ node'[d] = node[d]
                                    /\ head'[d] = head[d] /\ tail'[d] = tail[d]
  BY Zenon DEF DetachChain, ListInv, TypeOK, links, ack, history
<1>2. LocalsOK'
  <2> SUFFICES ASSUME NEW d \in Consumers PROVE LocalsOK!(d)'
    BY Zenon DEF LocalsOK
  <2>1. LocalsOK!(d)
    BY Zenon DEF ListInv, LocalsOK
  <2> QED
    BY <1>1, <2>1, Zenon DEF Walking
<1>3. OneRedelivers'
  BY <1>1, Zenon DEF ListInv, OneRedelivers
<1>4. TrackedOK'
  <2>1. \A m \in Messages : owner[m] # Null => pc'[owner[m]] # "gone"
    BY <1>1, InFlightListAssumption DEF ListInv, TypeOK, TrackedOK
  <2> QED
    BY <1>1, <2>1, Zenon DEF ListInv, TrackedOK
<1>5. TailOK'
  BY <1>1, Zenon DEF ListInv, TailOK
<1>6. ChainsStay
  BY <1>1, Zenon DEF ChainsStay, First, Between
<1> QED
  BY <1>2, <1>3, <1>4, <1>5, <1>6, StructureKept, Zenon DEF Rest

\* redeliver() may put back a message that hangs in no chain and that no other
\* consumer is about to put back.
LEMMA RedeliverStep ==
  ASSUME ListInv, NEW c \in Consumers, Redeliver(c)
  PROVE  Rest' /\ Structure'
<1>1. /\ head' = head /\ tail' = tail /\ next' = next /\ prev' = prev /\ owner' = owner
      /\ made' = made /\ target' = target /\ self' = self /\ stamp' = stamp /\ received' = received
      /\ \A m \in queued' : m \in queued \/ m = node[c]
      /\ pc[c] = "redeliver" /\ pc'[c] = "recover"
      /\ node'[c] = following[c] /\ following'[c] = Null
      /\ \A d \in Consumers \ {c} : /\ pc'[d] = pc[d] /\ node'[d] = node[d]
                                    /\ following'[d] = following[d]
  BY Zenon DEF Redeliver, ListInv, TypeOK, ends, links, ack, history
<1>2. owner[node[c]] = Null /\ \A d \in Consumers \ {c} : pc[d] = "redeliver" => node[d] # node[c]
  BY <1>1, Zenon DEF ListInv, LocalsOK, OneRedelivers
<1>3. LocalsOK'
  <2> SUFFICES ASSUME NEW d \in Consumers PROVE LocalsOK!(d)'
    BY Zenon DEF LocalsOK
  <2>1. LocalsOK!(d)
    BY Zenon DEF ListInv, LocalsOK
  <2> QED
    BY <1>1, <1>2, <2>1, Zenon DEF Walking
<1>4. OneRedelivers'
  BY <1>1, ZenonT(30) DEF ListInv, OneRedelivers
<1>5. TrackedOK'
  <2>1. \A m \in Messages : owner[m] # Null => m \notin queued' /\ pc'[owner[m]] # "gone"
    BY <1>1, <1>2, InFlightListAssumption DEF ListInv, TypeOK, TrackedOK
  <2> QED
    BY <1>1, <2>1, Zenon DEF ListInv, TrackedOK
<1>6. TailOK'
  BY <1>1, Zenon DEF ListInv, TailOK
<1>7. ChainsStay
  BY <1>1, Zenon DEF ChainsStay, First, Between
<1> QED
  BY <1>3, <1>4, <1>5, <1>6, <1>7, StructureKept, Zenon DEF Rest

\* A walk returns when nothing is left of its chain.
LEMMA ReturnStep ==
  ASSUME ListInv, NEW c \in Consumers, RecoverReturn(c) \/ ClearReturn(c)
  PROVE  Rest' /\ Structure'
<1>1. /\ head' = head /\ tail' = tail /\ next' = next /\ prev' = prev /\ owner' = owner
      /\ queued' = queued /\ made' = made /\ target' = target /\ self' = self
      /\ stamp' = stamp /\ received' = received /\ node' = node /\ following' = following
      /\ pc[c] \in {"recover", "clear"} /\ pc'[c] \in {"idle", "gone"} /\ node[c] = Null
      /\ \A d \in Consumers \ {c} : pc'[d] = pc[d]
  BY Zenon DEF RecoverReturn, ClearReturn, ListInv, TypeOK, ends, links, walk, ack, history
<1>2. First(c) = Null /\ head[c] = Null /\ tail[c] = Null /\ target[c] = Null
  BY <1>1, Zenon DEF First, ListInv, LocalsOK
<1>3. \A m \in Messages : owner[m] # c
  BY <1>2, Zenon DEF ListInv, FirstOK
<1>4. LocalsOK'
  <2> SUFFICES ASSUME NEW d \in Consumers PROVE LocalsOK!(d)'
    BY Zenon DEF LocalsOK
  <2>1. LocalsOK!(d)
    BY Zenon DEF ListInv, LocalsOK
  <2> QED
    BY <1>1, <1>2, <2>1, Zenon DEF Walking
<1>5. OneRedelivers'
  BY <1>1, Zenon DEF ListInv, OneRedelivers
<1>6. TrackedOK'
  <2>1. \A m \in Messages : owner[m] # Null => pc'[owner[m]] # "gone"
    BY <1>1, <1>3, InFlightListAssumption DEF ListInv, TypeOK, TrackedOK
  <2> QED
    BY <1>1, <2>1, Zenon DEF ListInv, TrackedOK
<1>7. TailOK'
  BY <1>1, <1>2, Zenon DEF ListInv, TailOK
<1>8. ChainsStay
  BY <1>1, <1>2, <1>3, Zenon DEF ChainsStay, First, Between
<1> QED
  BY <1>4, <1>5, <1>6, <1>7, <1>8, StructureKept, Zenon DEF Rest

-----------------------------------------------------------------------------
(* Steps that change the links: the walks, and recv().                     *)

\* The first node m of the rest of the chain of c is taken off it.
TakesOff(c, m) ==
    /\ m = node[c] /\ m \in Messages /\ owner[m] = c /\ First(c) = m /\ First(c)' = next[m]
    /\ \A d \in Consumers \ {c} : First(d)' = First(d) /\ pc'[d] = pc[d]
    /\ pc[c] \in Walking /\ pc'[c] \in Walking
    /\ owner'[m] = Null /\ next'[m] = Null /\ prev'[m] = Null
    /\ \A x \in Messages \ {m} : next'[x] = next[x] /\ prev'[x] = prev[x] /\ owner'[x] = owner[x]
    /\ head' = head /\ tail' = tail /\ stamp' = stamp

\* The order of what is left of the chain, and of the other chains, stays.
LEMMA TakesOffStep ==
  ASSUME ListInv, NEW c \in Consumers, NEW m \in Messages, TakesOff(c, m)
  PROVE  Structure'
<1>1. /\ owner[m] = c /\ First(c)' = next[m] /\ c # Null
      /\ \A d \in Consumers \ {c} : First(d)' = First(d) /\ pc'[d] = pc[d]
      /\ pc'[c] \notin {"idle", "ack"} /\ tail' = tail /\ stamp' = stamp
  BY InFlightListAssumption, Zenon DEF TakesOff, Walking
<1>2. \A x \in Messages \ {m} : next'[x] = next[x] /\ prev'[x] = prev[x] /\ owner'[x] = owner[x]
  BY Zenon DEF TakesOff
<1>3. owner'[m] = Null
  BY Zenon DEF TakesOff
<1>4. /\ \A x \in Messages : next[x] = Null \/ next[x] \in Messages
      /\ \A x \in Messages : prev[x] = Null \/ prev[x] \in Messages
      /\ \A x \in Messages : owner[x] = Null \/ owner[x] \in Consumers
      /\ \A d \in Consumers : First(d) = Null \/ First(d) \in Messages
  BY InFlightListAssumption, Zenon DEF ListInv, TypeOK, First
<1>5. next[m] # Null => /\ next[m] \in Messages \ {m} /\ owner[next[m]] = c /\ prev[next[m]] = m
                        /\ \A x \in Messages : owner[x] = c =>
                              stamp[x] <= stamp[m] \/ stamp[next[m]] <= stamp[x]
  <2>1. next[m] # Null => /\ owner[next[m]] = c /\ prev[next[m]] = m /\ stamp[m] < stamp[next[m]]
                          /\ \A x \in Messages : owner[x] = c =>
                                stamp[x] <= stamp[m] \/ stamp[next[m]] <= stamp[x]
    BY <1>1, Zenon DEF ListInv, NextOK
  <2>2. ~(stamp[m] < stamp[m])
    BY StampIsNat DEF ListInv
  <2> QED
    BY <1>4, <2>1, <2>2, Zenon
<1>6. \A x \in Messages \ {m} : owner[x] = c => ~(stamp[x] <= stamp[m])
  <2> SUFFICES ASSUME NEW x \in Messages \ {m}, owner[x] = c PROVE ~(stamp[x] <= stamp[m])
    BY Zenon
  <2>1. stamp[m] <= stamp[x]
    BY Zenon DEF TakesOff, ListInv, FirstOK
  <2>2. stamp[m] # stamp[x]
    BY <1>1, Zenon DEF ListInv, TrackedOK
  <2>3. stamp[m] \in Nat /\ stamp[x] \in Nat
    BY StampIsNat, Zenon DEF ListInv
  <2> QED
    BY <2>1, <2>2, <2>3
<1>7. FirstOK'
  <2> SUFFICES ASSUME NEW d \in Consumers PROVE FirstOK!(d)'
    BY Zenon DEF FirstOK
  <2>1. CASE d = c
    <3>1. next[m] = Null => \A x \in Messages \ {m} : owner[x] # c
      BY <1>1, <1>6, Zenon DEF ListInv, LastOK
    <3>2. next[m] # Null => /\ owner'[next[m]] = c
                            /\ \A x \in Messages \ {m} : owner[x] = c => stamp[next[m]] <= stamp[x]
      BY <1>2, <1>5, <1>6, Zenon
    <3> QED
      BY <2>1, <1>1, <1>2, <1>3, <3>1, <3>2
  <2>2. CASE d # c
    <3>1. FirstOK!(d) /\ First(d)' = First(d) /\ pc'[d] = pc[d]
      BY <1>1, <2>2, Zenon DEF ListInv, FirstOK
    <3>2. d # Null /\ First(d) # m
      BY <1>1, <2>2, <3>1, InFlightListAssumption, Zenon
    <3>3. \A x \in Messages : owner'[x] = d => owner[x] = d
      BY <1>2, <1>3, <3>2, Zenon
    <3> QED
      BY <1>1, <1>2, <1>4, <3>1, <3>2, <3>3, Zenon
  <2> QED
    BY <2>1, <2>2, Zenon
<1>8. NextOK'
  <2> SUFFICES ASSUME NEW x \in Messages, owner'[x] # Null, next'[x] # Null PROVE NextOK!(x)'
    BY Zenon DEF NextOK
  <2>1. x # m /\ owner'[x] = owner[x] /\ next'[x] = next[x]
    BY <1>2, <1>3, Zenon
  <2>2. NextOK!(x) /\ next[x] \in Messages
    BY <1>4, <2>1, Zenon DEF ListInv, NextOK
  <2>3. next[x] # m
    <3> SUFFICES ASSUME next[x] = m PROVE FALSE
      BY Zenon
    <3>1. owner[x] = c /\ stamp[x] < stamp[m]
      BY <1>1, <2>1, <2>2, Zenon
    <3>2. stamp[x] \in Nat /\ stamp[m] \in Nat
      BY StampIsNat, Zenon DEF ListInv
    <3>3. stamp[x] <= stamp[m]
      BY <3>1, <3>2
    <3> QED
      BY <1>6, <2>1, <3>1, <3>3, Zenon
  <2>4. \A y \in Messages : owner'[y] = owner[x] => owner[y] = owner[x]
    BY <1>2, <1>3, <2>1, Zenon
  <2> QED
    BY <1>1, <1>2, <2>1, <2>2, <2>3, <2>4, ZenonT(30)
<1>9. PrevOK'
  <2> SUFFICES ASSUME NEW x \in Messages, owner'[x] # Null, First(owner[x])' # x PROVE PrevOK!(x)'
    BY Zenon DEF PrevOK
  <2>1. x # m /\ owner'[x] = owner[x] /\ prev'[x] = prev[x] /\ owner[x] \in Consumers
    BY <1>2, <1>3, <1>4, Zenon
  <2>2. First(owner[x]) # x
    <3>1. First(c) = m
      BY Zenon DEF TakesOff
    <3> QED
      BY <1>1, <2>1, <3>1, Zenon
  <2>3. prev[x] \in Messages /\ owner[prev[x]] = owner[x] /\ next[prev[x]] = x
    BY <1>4, <2>1, <2>2, Zenon DEF ListInv, PrevOK
  <2>4. prev[x] # m
    BY <1>1, <2>1, <2>3, Zenon
  <2> QED
    BY <1>2, <2>1, <2>3, <2>4, InFlightListAssumption, Zenon
<1>10. LastOK'
  <2> SUFFICES ASSUME NEW x \in Messages, owner'[x] # Null, next'[x] = Null PROVE LastOK!(x)'
    BY Zenon DEF LastOK
  <2>1. x # m /\ owner'[x] = owner[x] /\ next'[x] = next[x] /\ owner[x] \in Consumers
    BY <1>2, <1>3, <1>4, Zenon
  <2>2. LastOK!(x)
    BY <2>1, Zenon DEF ListInv, LastOK
  <2>3. \A y \in Messages : owner'[y] = owner[x] => owner[y] = owner[x]
    BY <1>2, <1>3, <2>1, Zenon
  <2> QED
    BY <1>1, <2>1, <2>2, <2>3, Zenon
<1> QED
  BY <1>7, <1>8, <1>9, <1>10, Zenon DEF Structure

\* recover() and clearInFlight() take the first node off the rest of the chain.
LEMMA NodeStep ==
  ASSUME ListInv, NEW c \in Consumers, RecoverNode(c) \/ ClearNode(c)
  PROVE  Rest' /\ Structure'
<1> DEFINE m == node[c]
<1>1. m \in Messages /\ m # Null /\ pc[c] \in {"recover", "clear"} /\ c \in Tracking /\ c # Null
  BY InFlightListAssumption DEF RecoverNode, ClearNode, ListInv, LocalsOK, Walking, TypeOK
<1>2. owner[m] = c /\ First(c) = m
  BY <1>1, Zenon DEF First, ListInv, FirstOK
<1>3. /\ head' = head /\ tail' = tail /\ queued' = queued /\ made' = made
      /\ target' = target /\ self' = self /\ stamp' = stamp /\ received' = received
  BY Zenon DEF RecoverNode, ClearNode, ends, ack, history
<1>4. /\ owner'[m] = Null /\ next'[m] = Null /\ prev'[m] = Null
      /\ \A x \in Messages \ {m} : next'[x] = next[x] /\ prev'[x] = prev[x] /\ owner'[x] = owner[x]
  BY <1>1, Zenon DEF RecoverNode, ClearNode, ClearLinks, ListInv, TypeOK
<1>5. /\ \A d \in Consumers \ {c} : pc'[d] = pc[d] /\ node'[d] = node[d] /\ following'[d] = following[d]
      /\ \/ pc'[c] = "redeliver" /\ node'[c] = m /\ following'[c] = next[m]
         \/ pc'[c] = "clear" /\ node'[c] = next[m] /\ following'[c] = following[c]
  BY <1>1, Zenon DEF RecoverNode, ClearNode, ListInv, TypeOK
<1>6. m \in made \ queued
  BY <1>1, <1>2, Zenon DEF ListInv, TrackedOK
<1>7. LocalsOK'
  <2> SUFFICES ASSUME NEW d \in Consumers PROVE LocalsOK!(d)'
    BY Zenon DEF LocalsOK
  <2>1. LocalsOK!(d)
    BY Zenon DEF ListInv, LocalsOK
  <2>2. CASE d = c
    BY <1>1, <1>3, <1>4, <1>5, <1>6, <2>1, <2>2, Zenon DEF Walking
  <2>3. CASE d # c
    <3>1. pc[d] = "redeliver" => owner'[node[d]] = Null
      <4>1. node[d] # Null => node[d] \in Messages
        BY Zenon DEF ListInv, TypeOK
      <4> QED
        BY <1>4, <2>1, <4>1, Zenon
    <3> QED
      BY <1>3, <1>5, <2>1, <2>3, <3>1, Zenon DEF Walking
  <2> QED
    BY <2>2, <2>3, Zenon
<1>8. OneRedelivers'
  <2>1. \A d \in Consumers : pc[d] = "redeliver" => node[d] # m
    BY <1>1, <1>2, Zenon DEF ListInv, LocalsOK
  <2> QED
    BY <1>5, <2>1 DEF ListInv, OneRedelivers
<1>9. TrackedOK'
  <2> SUFFICES ASSUME NEW x \in Messages PROVE TrackedOK!(x)'
    BY Zenon DEF TrackedOK
  <2>1. CASE x = m
    BY <1>4, <2>1, Zenon
  <2>2. CASE x # m
    <3>1. TrackedOK!(x) /\ (owner[x] # Null => owner[x] \in Consumers)
      BY InFlightListAssumption DEF ListInv, TrackedOK, TypeOK
    <3>2. owner'[x] = owner[x] /\ next'[x] = next[x] /\ prev'[x] = prev[x]
      BY <1>4, <2>2, Zenon
    <3>3. owner[x] # Null => pc'[owner[x]] # "gone"
      BY <1>5, <3>1, Zenon
    <3>4. \A o \in Messages : owner'[o] = owner[x] /\ owner[x] # Null => owner[o] = owner[x]
      BY <1>4, Zenon
    <3> QED
      BY <1>3, <3>1, <3>2, <3>3, <3>4, Zenon
  <2> QED
    BY <2>1, <2>2, Zenon
<1>10. TailOK'
  <2> SUFFICES ASSUME NEW d \in Consumers PROVE TailOK!(d)'
    BY Zenon DEF TailOK
  <2>1. TailOK!(d) /\ d # Null /\ (tail[d] # Null => tail[d] \in Messages)
    BY InFlightListAssumption DEF ListInv, TailOK, TypeOK
  <2>2. CASE d = c
    BY <1>1, <1>3, <1>5, <2>2, Zenon DEF ListInv, LocalsOK
  <2>3. CASE d # c
    BY <1>2, <1>3, <1>4, <1>5, <2>1, <2>3, Zenon
  <2> QED
    BY <2>2, <2>3, Zenon
<1>11. TakesOff(c, m)
  <2>1. First(c)' = next[m] /\ \A d \in Consumers \ {c} : First(d)' = First(d)
    BY <1>3, <1>5, Zenon DEF First
  <2>2. pc[c] \in Walking /\ pc'[c] \in Walking
    BY <1>1, <1>5, Zenon DEF Walking
  <2> QED
    BY <1>1, <1>2, <1>3, <1>4, <1>5, <2>1, <2>2, Zenon DEF TakesOff
<1> QED
  BY <1>1, <1>7, <1>8, <1>9, <1>10, <1>11, TakesOffStep, Zenon DEF Rest

\* recv() links the message behind the tail.
LEMMA RecvStep ==
  ASSUME ListInv, TypeOK', NEW c \in Consumers, NEW m \in Messages, RecvTracked(c, m)
  PROVE  Rest' /\ Structure'
<1> USE InFlightListAssumption DEF ListInv, ends, links, walk, ack, history
<1> DEFINE t == tail[c]
<1>1. /\ pc[c] = "idle" /\ c \in Tracking /\ c # Null
      /\ owner[m] = Null /\ next[m] = Null /\ prev[m] = Null
      /\ t \in Messages \cup {Null} /\ m # Null
  BY DEF RecvTracked, Dequeue, TrackedOK, TypeOK
<1>2. /\ UNCHANGED <<made, pc, walk, ack>> /\ queued' = queued \ {m}
      /\ owner' = [owner EXCEPT ![m] = c] /\ tail' = [tail EXCEPT ![c] = m]
      /\ received' = received + 1 /\ stamp' = [stamp EXCEPT ![m] = received + 1]
  BY Zenon DEF RecvTracked, Dequeue
<1>3. t # Null => /\ next' = [next EXCEPT ![t] = m] /\ prev' = [prev EXCEPT ![m] = t]
                  /\ head' = head /\ owner[t] = c /\ next[t] = Null /\ t # m /\ head[c] # Null
  BY <1>1, ZenonT(30) DEF RecvTracked, TailOK, FirstOK, First, TypeOK
<1>4. t = Null => /\ next' = next /\ prev' = prev
                  /\ head' = [head EXCEPT ![c] = m]
                  /\ \A x \in Messages : owner[x] # c
  BY <1>1 DEF RecvTracked, TailOK, FirstOK, First, TypeOK
<1>5. \A x \in Messages \ {m} : /\ owner'[x] = owner[x] /\ stamp'[x] = stamp[x] /\ prev'[x] = prev[x]
                                /\ x # t => next'[x] = next[x]
  BY <1>2, <1>3, <1>4 DEF TypeOK
<1>6. /\ owner'[m] = c /\ stamp'[m] = received + 1 /\ next'[m] = Null /\ prev'[m] = t
      /\ t # Null => next'[t] = m
  BY SMTT(30), <1>1, <1>2, <1>3, <1>4 DEF TypeOK
<1>7. /\ \A d \in Consumers : d # c \/ t # Null => First(d)' = First(d) /\ First(d) # m
      /\ t = Null => First(c)' = m
  BY <1>1, <1>2, <1>3, <1>4 DEF First, TypeOK, FirstOK
<1>8. \A x \in Messages : owner[x] # Null => stamp[x] < stamp'[m] /\ x # m
  BY <1>1, <1>6 DEF TrackedOK, TypeOK
<1>9. Rest'
  <2>1. LocalsOK'
    BY <1>1, <1>2, <1>3, <1>4, <1>5 DEF LocalsOK, RecvTracked, Dequeue, Walking, TypeOK
  <2>2. OneRedelivers'
    BY <1>2, ZenonT(30) DEF OneRedelivers
  <2>3. TrackedOK'
    <3>1. m \in made /\ received \in Nat
      BY Zenon DEF RecvTracked, Dequeue, TypeOK
    <3> QED
      BY <3>1, <1>1, <1>2, <1>3, <1>5, <1>6, <1>8 DEF TrackedOK, TypeOK
  <2>4. TailOK'
    BY <1>1, <1>2, <1>3, <1>4, <1>5, <1>6 DEF TailOK, TypeOK
  <2> QED
    BY <2>1, <2>2, <2>3, <2>4, ZenonT(30) DEF Rest
<1>10. FirstOK'
  <2> SUFFICES ASSUME NEW d \in Consumers PROVE FirstOK!(d)'
    BY Zenon DEF FirstOK
  <2>1. CASE d = c /\ t = Null
    BY SMTT(30), <2>1, <1>1, <1>4, <1>5, <1>6, <1>7 DEF TypeOK
  <2>2. CASE d # c \/ t # Null
    <3>1. First(d)' = First(d) /\ First(d) # m /\ First(d) \in Messages \cup {Null}
      BY <2>2, <1>7, Zenon DEF First, TypeOK
    <3>2. d = c => First(d) # Null
      BY <2>2, <1>1, <1>3, Zenon DEF First
    <3> QED
      BY <3>1, <3>2, <1>1, <1>2, <1>5, <1>6, <1>8 DEF FirstOK, TypeOK
  <2> QED
    BY ZenonT(30), <2>1, <2>2
<1>11. NextOK'
  <2> SUFFICES ASSUME NEW x \in Messages, owner'[x] # Null, next'[x] # Null PROVE NextOK!(x)'
    BY Zenon DEF NextOK
  <2>1. CASE x = t
    BY SMTT(30), <2>1, <1>1, <1>3, <1>5, <1>6, <1>8 DEF LastOK, TypeOK
  <2>2. CASE x # t
    BY SMTT(30), <2>2, <1>1, <1>5, <1>6, <1>8 DEF NextOK, TypeOK
  <2> QED
    BY ZenonT(30), <2>1, <2>2
<1>12. PrevOK'
  BY SMTT(30), <1>1, <1>3, <1>4, <1>5, <1>6, <1>7 DEF PrevOK, TypeOK
<1>13. LastOK'
  BY <1>1, <1>2, <1>3, <1>4, <1>5, <1>6, <1>8 DEF LastOK, TypeOK
<1> QED
  BY <1>9, <1>10, <1>11, <1>12, <1>13, Zenon DEF Structure

-----------------------------------------------------------------------------
(* acknowledgeOn(), and what follows from the invariant.                    *)

\* acknowledgeOn() splices a message out, wherever in the chain it is.
LEMMA AcknowledgeStep ==
  ASSUME ListInv, TypeOK', NEW c \in Consumers, NEW m \in Messages, Acknowledge(c, m)
  PROVE  Rest' /\ Structure'
<1> USE InFlightListAssumption DEF ListInv, ends, links, walk, ack, history
<1> DEFINE p == prev[m]
           n == next[m]
<1>1. /\ pc[c] = "idle" /\ c # Null /\ owner[m] = c /\ m # Null /\ First(c) = head[c]
      /\ p \in Messages \cup {Null} /\ n \in Messages \cup {Null}
  BY ZenonT(30) DEF Acknowledge, Tracks, First, TypeOK
<1>2. /\ UNCHANGED <<queued, held, made, walk, history>>
      /\ pc' = [pc EXCEPT ![c] = "ack"] /\ target' = [target EXCEPT ![c] = m]
      /\ self' = [self EXCEPT ![c] = IF prev[m] # Null THEN next[prev[m]] ELSE head[c]]
      /\ owner' = [owner EXCEPT ![m] = Null] /\ stamp' = stamp
  BY Zenon DEF Acknowledge, Unlink
<1>3. /\ p # Null => owner[p] = c /\ next[p] = m /\ p # m /\ head[c] # m
      /\ p = Null => head[c] = m
  BY <1>1 DEF PrevOK, FirstOK, NextOK, TypeOK
<1>4. n # Null => owner[n] = c /\ prev[n] = m /\ n # m /\ n # p /\ stamp[m] < stamp[n]
  BY <1>1, <1>3 DEF NextOK, TypeOK
<1>5. p # Null => stamp[p] < stamp[m] /\ n # p
  BY <1>1, <1>3, <1>4, Zenon DEF NextOK, TypeOK
<1>6. /\ next'[m] = Null /\ prev'[m] = Null /\ owner'[m] = Null
      /\ p # Null => next'[p] = n
      /\ n # Null => prev'[n] = p
  BY SMTT(30), <1>1, <1>2, <1>3, <1>4, <1>5 DEF Acknowledge, Unlink, TypeOK
<1>7. \A x \in Messages \ {m} : /\ owner'[x] = owner[x]
                                /\ x # p => next'[x] = next[x]
                                /\ x # n => prev'[x] = prev[x]
  BY <1>1, <1>2 DEF Acknowledge, Unlink, TypeOK
<1>8. /\ head' = IF p = Null THEN [head EXCEPT ![c] = n] ELSE head
      /\ tail' = IF n = Null THEN [tail EXCEPT ![c] = p] ELSE tail
  BY Zenon DEF Acknowledge, Unlink
<1>9. /\ \A d \in Consumers \ {c} : First(d)' = First(d)
      /\ First(c)' = IF p = Null THEN n ELSE head[c]
  BY <1>1, <1>2, <1>8 DEF First, TypeOK
<1>10. n = Null => tail[c] = m
  BY <1>1, Zenon DEF LastOK
<1>11. \A x \in Messages \ {m} : owner[x] = c => stamp[x] # stamp[m]
  BY <1>1, Zenon DEF TrackedOK
<1>12. Rest'
  <2>1. LocalsOK'
    BY SMTT(30), <1>1, <1>2, <1>3, <1>6, <1>7, <1>8 DEF LocalsOK, Walking, TypeOK
  <2>2. OneRedelivers'
    BY SMTT(30), <1>1, <1>2 DEF OneRedelivers, TypeOK
  <2>3. TrackedOK'
    BY SMTT(30), <1>1, <1>2, <1>3, <1>4, <1>6, <1>7 DEF TrackedOK, TypeOK
  <2>4. TailOK'
    BY <1>1, <1>2, <1>3, <1>4, <1>5, <1>6, <1>7, <1>8, <1>10 DEF TailOK, TypeOK, FirstOK
  <2> QED
    BY <2>1, <2>2, <2>3, <2>4, ZenonT(30) DEF Rest
<1>13. FirstOK'
  <2> SUFFICES ASSUME NEW d \in Consumers PROVE FirstOK!(d)'
    BY Zenon DEF FirstOK
  <2>1. CASE d = c /\ p = Null
    <3>1. \A x \in Messages \ {m} : owner[x] = c => stamp[m] < stamp[x]
      <4>1. \A x \in Messages \ {m} : owner[x] = c => stamp[m] <= stamp[x] /\ stamp[x] # stamp[m]
        BY <1>1, <1>3, <2>1, <1>11 DEF FirstOK
      <4> QED
        BY <4>1, StampIsNat, Stricter, Zenon
    <3>2. n = Null => \A x \in Messages \ {m} : owner[x] # c
      BY <1>1, <3>1 DEF LastOK, TypeOK
    <3>3. n # Null => \A x \in Messages \ {m} : owner[x] = c => stamp[n] <= stamp[x]
      BY SMTT(30), <1>1, <3>1 DEF NextOK, TypeOK
    <3> QED
      BY <2>1, <1>1, <1>2, <1>4, <1>6, <1>7, <1>9, <3>2, <3>3
  <2>2. CASE d = c /\ p # Null
    BY SMTT(30), <2>2, <1>1, <1>2, <1>3, <1>4, <1>6, <1>7, <1>9 DEF FirstOK, TypeOK
  <2>3. CASE d # c
    <3>1. First(d)' = First(d) /\ First(d) \in Messages \cup {Null}
      BY <2>3, <1>9, Zenon DEF First, TypeOK
    <3>2. First(d) # Null => First(d) # m /\ First(d) # n
      BY <3>1, <2>3, <1>1, <1>4, Zenon DEF FirstOK
    <3> QED
      BY <2>3, <3>1, <3>2, <1>1, <1>2, <1>6, <1>7 DEF FirstOK, TypeOK
  <2> QED
    BY ZenonT(30), <2>1, <2>2, <2>3
<1>14. NextOK'
  <2> SUFFICES ASSUME NEW x \in Messages, owner'[x] # Null, next'[x] # Null PROVE NextOK!(x)'
    BY Zenon DEF NextOK
  <2>0. x # m
    BY <1>6, ZenonT(30)
  <2>1. CASE x = p
    <3>1. owner[n] = c /\ prev'[n] = x /\ stamp[p] < stamp[m] /\ stamp[m] < stamp[n] /\ next'[x] = n
      BY ZenonT(30), <2>1, <1>4, <1>5, <1>6
    <3>2. \A y \in Messages : owner[y] = c => y = m \/ stamp[y] <= stamp[p] \/ stamp[n] <= stamp[y]
      <4> SUFFICES ASSUME NEW y \in Messages, owner[y] = c, y # m
                   PROVE  stamp[y] <= stamp[p] \/ stamp[n] <= stamp[y]
        BY Zenon
      <4>1. stamp[y] <= stamp[p] \/ stamp[m] <= stamp[y]
        BY <2>1, <1>1, <1>3, Zenon DEF NextOK
      <4>2. stamp[y] <= stamp[m] \/ stamp[n] <= stamp[y]
        BY <2>1, <1>1, <1>6, ZenonT(30) DEF NextOK
      <4>3. stamp[y] # stamp[m]
        BY <1>11, Zenon
      <4> QED
        BY <4>1, <4>2, <4>3, StampIsNat, NoLess, Zenon
    <3> QED
      BY <2>1, <1>1, <1>2, <1>3, <1>4, <1>6, <1>7, <3>1, <3>2 DEF TypeOK
  <2>2. CASE x # p
    <3>1. next'[x] = next[x] /\ owner'[x] = owner[x] /\ next[x] # m /\ next[x] \in Messages
      BY <2>0, <2>2, <1>3, <1>7 DEF NextOK, TypeOK
    <3>2. next[x] # n
      BY <2>0, <3>1, <1>4, Zenon DEF NextOK
    <3> QED
      BY SMTT(30), <2>0, <3>1, <3>2, <1>2, <1>6, <1>7 DEF NextOK, TypeOK
  <2> QED
    BY <2>1, <2>2, Zenon
<1>15. PrevOK'
  <2> SUFFICES ASSUME NEW x \in Messages, owner'[x] # Null, (First(owner[x])') # x
               PROVE  prev'[x] # Null /\ owner'[prev'[x]] = owner'[x] /\ next'[prev'[x]] = x
    BY Zenon DEF PrevOK
  <2>0. x # m /\ owner'[x] = owner[x] /\ owner[x] \in Consumers
    BY <1>6, <1>7, Zenon DEF TypeOK
  <2>1. CASE x = n
    BY ZenonT(30), <2>0, <2>1, <1>1, <1>3, <1>4, <1>6, <1>7, <1>9
  <2>2. CASE x # n
    <3>1. First(owner[x]) # x
      <4>1. CASE owner[x] # c
        BY <2>0, <4>1, <1>9, Zenon
      <4>2. CASE owner[x] = c /\ p = Null
        BY <2>0, <4>2, <1>1, <1>3, Zenon
      <4>3. CASE owner[x] = c /\ p # Null
        BY <2>0, <4>3, <1>1, <1>9, Zenon
      <4> QED
        BY <4>1, <4>2, <4>3, Zenon
    <3>2. prev[x] # Null /\ owner[prev[x]] = owner[x] /\ next[prev[x]] = x /\ prev'[x] = prev[x]
      BY <2>0, <2>2, <3>1, <1>7, Zenon DEF PrevOK
    <3>3. prev[x] # m /\ prev[x] # p /\ prev[x] \in Messages
      BY <2>0, <2>2, <3>2, <1>3, Zenon DEF TypeOK
    <3> QED
      BY ZenonT(30), <2>0, <3>2, <3>3, <1>7
  <2> QED
    BY <2>1, <2>2, Zenon
<1>16. LastOK'
  <2> SUFFICES ASSUME NEW x \in Messages, owner'[x] # Null, next'[x] = Null PROVE LastOK!(x)'
    BY Zenon DEF LastOK
  <2>0. x # m /\ owner'[x] = owner[x] /\ owner[x] \in Consumers
    BY <1>6, <1>7, Zenon DEF TypeOK
  <2>1. CASE x = p
    <3>1. n = Null /\ tail'[c] = p /\ owner[x] = c
      BY <2>1, <1>1, <1>3, <1>6, <1>8, Zenon DEF TypeOK
    <3>2. \A y \in Messages : owner[y] = c => y = m \/ stamp[y] <= stamp[p]
      <4> SUFFICES ASSUME NEW y \in Messages, owner[y] = c, y # m PROVE stamp[y] <= stamp[p]
        BY ZenonT(30)
      <4>1. stamp[y] <= stamp[m] /\ stamp[y] # stamp[m]
        BY <3>1, <1>1, <1>11, Zenon DEF LastOK
      <4>2. stamp[y] <= stamp[p] \/ stamp[m] <= stamp[y]
        BY <2>1, <1>1, <1>3, Zenon DEF NextOK
      <4> QED
        BY <4>1, <4>2, <1>1, StampIsNat, NoLess, Zenon
    <3> QED
      BY <2>0, <2>1, <3>1, <3>2, <1>2, <1>6, <1>7, ZenonT(30)
  <2>2. CASE x # p
    <3>1. next[x] = Null
      BY ZenonT(30), <2>0, <2>2, <1>7
    <3>2. owner[x] = c => n # Null
      BY <2>0, <3>1, <1>1, <1>11 DEF LastOK, TypeOK
    <3>3. owner[x] # c => tail'[owner[x]] = tail[owner[x]] /\ pc'[owner[x]] = pc[owner[x]]
      BY <2>0, <1>2, <1>8, ZenonT(30) DEF TypeOK
    <3>4. owner[x] = c => tail'[owner[x]] = tail[owner[x]] /\ pc[c] = "idle"
      BY <3>2, <1>1, <1>8, Zenon
    <3> QED
      BY ZenonT(30), <2>0, <3>1, <3>3, <3>4, <1>2, <1>6, <1>7 DEF LastOK
  <2> QED
    BY ZenonT(30), <2>1, <2>2
<1> QED
  BY <1>12, <1>13, <1>14, <1>15, <1>16, Zenon DEF Structure

-----------------------------------------------------------------------------
\* The chains of Consumer::_inFlightHead stay well formed through every call.
THEOREM ListInvariant == Spec => []ListInv
<1>1. ListInv /\ [Next]_vars => ListInv'
  <2> SUFFICES ASSUME ListInv, [Next]_vars PROVE ListInv'
    BY Zenon
  <2>1. TypeOK'
    BY TypeStep, Zenon DEF ListInv
  <2>2. Rest' /\ Structure'
    <3>1. ASSUME NEW c \in Consumers, RecoverBegin(c) \/ ClearBegin(c) PROVE Rest' /\ Structure'
      BY <3>1, DetachStep, Zenon DEF RecoverBegin, ClearBegin
    <3>2. ASSUME NEW c \in Consumers, Call(c) PROVE Rest' /\ Structure'
      BY <3>2, LinksKeptStep, NodeStep, RedeliverStep, ReturnStep, Zenon DEF Call
    <3>3. ASSUME NEW c \in Consumers, NEW m \in Messages, RecvTracked(c, m) \/ Acknowledge(c, m)
          PROVE  Rest' /\ Structure'
      BY <2>1, <3>3, RecvStep, AcknowledgeStep, Zenon
    <3>4. CASE UNCHANGED vars
      BY <3>4, LinksKeptStep, Zenon
    <3>5. ASSUME NEW c \in Consumers, NEW m \in Messages, RecvUntracked(c, m) PROVE Rest' /\ Structure'
      BY <3>5, LinksKeptStep, Zenon
    <3>6. ASSUME NEW m \in Messages, Send(m) \/ Drop(m) \/ \E n \in Messages : Forward(m, n)
          PROVE  Rest' /\ Structure'
      BY <3>6, LinksKeptStep, Zenon
    <3> QED
      BY <3>1, <3>2, <3>3, <3>4, <3>5, <3>6, Zenon DEF Next, AcknowledgeOther
  <2> QED
    BY <2>1, <2>2, Zenon DEF Rest, Structure, ListInv
<1> QED
  BY <1>1, InitListInv, PTL DEF Spec

\* Between calls the chain of a consumer runs from head to tail over exactly its
\* messages, in the order recv() returned them, and prev is the inverse of next.
THEOREM ChainsInOrder == Spec => []ChainInOrder
<1>1. ListInv => ChainInOrder
  <2> SUFFICES ASSUME ListInv, NEW c \in Consumers, pc[c] \in {"idle", "ack"}
               PROVE  ChainInOrder!(c)!2
    BY Zenon DEF ChainInOrder
  <2> USE InFlightListAssumption DEF ListInv
  <2>1. c # Null /\ First(c) = head[c] /\ head[c] \in Messages \cup {Null}
        /\ tail[c] \in Messages \cup {Null}
    BY Zenon DEF First, TypeOK
  <2>2. head[c] = Null <=> Flight(c) = {}
    BY <2>1 DEF FirstOK, Flight
  <2>3. tail[c] = Null <=> Flight(c) = {}
    BY <2>1, <2>2, Zenon DEF TailOK, Flight
  <2>4. ASSUME NEW m \in Flight(c)
        PROVE  /\ head[c] = m <=> ~\E o \in Messages : Before(o, m)
               /\ tail[c] = m <=> ~\E o \in Messages : Before(m, o)
               /\ \A o \in Messages : next[m] = o <=> IsNext(m, o)
               /\ \A o \in Messages : prev[m] = o <=> IsNext(o, m)
    <3>1. m \in Messages /\ owner[m] = c /\ head[c] # Null /\ tail[c] # Null
      BY <2>2, <2>3, Zenon DEF Flight
    <3>2. ASSUME NEW x \in Messages, owner[x] = c, next[x] # Null
          PROVE  next[x] \in Messages /\ IsNext(x, next[x])
      <4>1. next[x] \in Messages /\ Before(x, next[x])
        BY <2>1, <3>2 DEF NextOK, Before, TypeOK
      <4>2. ASSUME NEW y \in Messages, Before(x, y), Before(y, next[x]) PROVE FALSE
        <5>1. stamp[x] < stamp[y] /\ stamp[y] < stamp[next[x]] /\ owner[y] = owner[x]
          BY <4>2, Zenon DEF Before
        <5>2. stamp[y] <= stamp[x] \/ stamp[next[x]] <= stamp[y]
          BY <2>1, <3>2, <5>1, Zenon DEF NextOK
        <5> QED
          BY <4>1, <5>1, <5>2, StampIsNat
      <4> QED
        BY <4>1, <4>2, Zenon DEF IsNext
    <3>3. ASSUME NEW x \in Messages, owner[x] = c, NEW o \in Messages, IsNext(x, o)
          PROVE  next[x] = o
      <4>1. owner[o] = c /\ stamp[x] < stamp[o]
        BY <3>3, Zenon DEF IsNext, Before
      <4>2. next[x] # Null
        BY <2>1, <3>3, <4>1, StampIsNat DEF LastOK
      <4>3. next[x] \in Messages /\ owner[next[x]] = c /\ stamp[x] < stamp[next[x]]
        BY <2>1, <3>3, <4>2 DEF NextOK, TypeOK
      <4>4. stamp[next[x]] <= stamp[o]
        BY <2>1, <3>3, <4>1, <4>2, <4>3, StampIsNat DEF NextOK
      <4>5. ~(stamp[next[x]] < stamp[o])
        BY <3>3, <4>1, <4>3, Zenon DEF IsNext, Before
      <4> QED
        BY <2>1, <4>1, <4>3, <4>4, <4>5, StampIsNat DEF TrackedOK
    <3>4. head[c] = m <=> ~\E o \in Messages : Before(o, m)
      <4>1. owner[head[c]] = c /\ head[c] \in Messages /\ stamp[head[c]] <= stamp[m]
        BY <2>1, <3>1, Zenon DEF FirstOK
      <4>2. head[c] # m => Before(head[c], m)
        BY <2>1, <3>1, <4>1, StampIsNat, Stricter, Zenon DEF TrackedOK, Before
      <4>3. ASSUME head[c] = m, NEW o \in Messages, Before(o, m) PROVE FALSE
        BY <2>1, <3>1, <4>3, StampIsNat DEF FirstOK, Before
      <4> QED
        BY <4>1, <4>2, <4>3, Zenon
    <3>5. tail[c] = m <=> ~\E o \in Messages : Before(m, o)
      <4>1. owner[tail[c]] = c /\ tail[c] \in Messages /\ next[tail[c]] = Null
        BY <2>1, <3>1, Zenon DEF TailOK
      <4>2. stamp[m] <= stamp[tail[c]]
        BY <2>1, <3>1, <4>1, Zenon DEF LastOK
      <4>3. tail[c] # m => Before(m, tail[c])
        BY <2>1, <3>1, <4>1, <4>2, StampIsNat, Stricter, Zenon DEF TrackedOK, Before
      <4>4. ASSUME tail[c] = m, NEW o \in Messages, Before(m, o) PROVE FALSE
        BY <2>1, <3>1, <4>1, <4>4, StampIsNat DEF LastOK, Before
      <4> QED
        BY <4>1, <4>3, <4>4, Zenon
    <3>6. ASSUME NEW o \in Messages PROVE next[m] = o <=> IsNext(m, o)
      BY <3>1, <3>2, <3>3, Zenon
    <3>7. ASSUME NEW o \in Messages PROVE prev[m] = o <=> IsNext(o, m)
      <4>1. IsNext(o, m) => owner[o] = c /\ next[o] = m /\ prev[m] = o
        BY <2>1, <3>1, <3>3 DEF IsNext, Before, NextOK
      <4>2. ASSUME prev[m] = o PROVE IsNext(o, m)
        <5>1. head[c] # m
          BY <2>1, <3>1, <4>2 DEF FirstOK
        <5>2. owner[o] = c /\ next[o] = m
          BY <2>1, <3>1, <4>2, <5>1, Zenon DEF PrevOK
        <5> QED
          BY <3>1, <3>2, <5>2, Zenon
      <4> QED
        BY <4>1, <4>2, Zenon
    <3> QED
      BY <3>4, <3>5, <3>6, <3>7, Zenon
  <2> QED
    BY <2>2, <2>3, <2>4, Zenon
<1> QED
  BY <1>1, ListInvariant, PTL

\* A message in a chain, and one that acknowledgeOn() still reads, is owned by
\* something, whatever the application has dropped.
THEOREM InUseAlive == Spec => []InUseIsAlive
<1>1. ListInv => InUseIsAlive
  <2> SUFFICES ASSUME ListInv PROVE InUseIsAlive
    BY Zenon
  <2> USE InFlightListAssumption DEF ListInv
  <2>1. ASSUME NEW m \in Messages, owner[m] # Null PROVE Referenced(m)
    <3>1. owner[m] \in Consumers
      BY <2>1, Zenon DEF TypeOK
    <3>2. CASE First(owner[m]) = m
      BY <3>1, <3>2, Zenon DEF First, Referenced
    <3>3. CASE First(owner[m]) # m
      BY <2>1, <3>3 DEF PrevOK, Referenced, TypeOK
    <3> QED
      BY <3>2, <3>3, Zenon
  <2>2. ASSUME NEW c \in Consumers PROVE Referenced(target[c])
    BY ZenonT(30) DEF LocalsOK, Referenced
  <2> QED
    BY <2>1, <2>2, Zenon DEF InUseIsAlive
<1> QED
  BY <1>1, ListInvariant, PTL

-----------------------------------------------------------------------------
(* The refinement.                                                         *)

FlightOf == [c \in Consumers |-> Flight(c)]

AbstractNext == [Promise!Next]_<<FlightOf, stamp, Draining>>

\* A step that changes no owner is a stutter of InFlightSet.
LEMMA SameFlight ==
  ASSUME owner' = owner, stamp' = stamp, Draining' = Draining
  PROVE  AbstractNext
<1>1. FlightOf' = FlightOf
  BY Zenon DEF FlightOf, Flight
<1> QED
  BY <1>1, Zenon DEF AbstractNext

\* Linking a message at the tail in recv() is a Receive of InFlightSet.
LEMMA ReceiveMaps ==
  ASSUME ListInv, NEW c \in Consumers, NEW m \in Messages, RecvTracked(c, m)
  PROVE  AbstractNext
<1> USE InFlightListAssumption DEF ListInv
<1>1. /\ pc[c] = "idle" /\ pc' = pc /\ owner[m] = Null /\ c # Null
      /\ owner' = [owner EXCEPT ![m] = c] /\ stamp' = [stamp EXCEPT ![m] = received + 1]
  BY Zenon DEF RecvTracked, Dequeue, TrackedOK
<1>2. c \notin Draining /\ Draining' = Draining
  BY <1>1, Zenon DEF Draining
<1>3. FlightOf' = [FlightOf EXCEPT ![c] = @ \cup {m}]
  <2>1. Flight(c)' = Flight(c) \cup {m} /\ \A d \in Consumers \ {c} : Flight(d)' = Flight(d)
    BY <1>1 DEF Flight, TypeOK
  <2> QED
    BY ZenonT(30), <2>1 DEF FlightOf
<1>4. \A d \in Consumers : m \notin FlightOf[d]
  BY <1>1, Zenon DEF FlightOf, Flight
<1>5. /\ stamp' = [stamp EXCEPT ![m] = stamp'[m]]
      /\ stamp'[m] \in Nat /\ \A o \in FlightOf[c] : stamp[o] < stamp'[m]
  BY <1>1 DEF FlightOf, Flight, TypeOK, TrackedOK
<1>6. Promise!Receive(c, m)
  BY <1>2, <1>3, <1>4, <1>5, Zenon DEF Promise!Receive, FlightOf
<1> QED
  BY <1>6, Zenon DEF AbstractNext, Promise!Next

\* Clearing an owner is an Acknowledge, or the HandBack of the oldest message in a walk.
LEMMA RemovalMaps ==
  ASSUME ListInv, NEW c \in Consumers, NEW m \in Messages, owner[m] = c,
         owner' = [owner EXCEPT ![m] = Null], stamp' = stamp, Draining' = Draining,
         c \in Draining => First(c) = m
  PROVE  AbstractNext
<1> USE InFlightListAssumption DEF ListInv
<1>1. FlightOf' = [FlightOf EXCEPT ![c] = @ \ {m}] /\ m \in FlightOf[c]
  <2>1. Flight(c)' = Flight(c) \ {m} /\ \A d \in Consumers \ {c} : Flight(d)' = Flight(d)
    BY Zenon DEF Flight, TypeOK
  <2>2. m \in Flight(c)
    BY Zenon DEF Flight
  <2> QED
    BY ZenonT(30), <2>1, <2>2 DEF FlightOf
<1>2. CASE c \notin Draining
  <2>1. Promise!Acknowledge(c, m)
    BY <1>1, <1>2, Zenon DEF Promise!Acknowledge, FlightOf
  <2> QED
    BY <2>1, Zenon DEF AbstractNext, Promise!Next
<1>3. CASE c \in Draining
  <2>1. m # Null /\ \A o \in FlightOf[c] : stamp[m] <= stamp[o]
    BY <1>3, Zenon DEF FirstOK, FlightOf, Flight
  <2>2. Promise!HandBack(c, m)
    BY <1>1, <1>3, <2>1, Zenon DEF Promise!HandBack, FlightOf
  <2> QED
    BY <2>2, Zenon DEF AbstractNext, Promise!Next
<1> QED
  BY <1>2, <1>3, Zenon

\* Each part of recover(), clearInFlight() and acknowledgeOn() is a step of InFlightSet.
LEMMA CallMaps ==
  ASSUME ListInv, NEW c \in Consumers, RecoverBegin(c) \/ ClearBegin(c) \/ Call(c)
  PROVE  AbstractNext
<1> USE InFlightListAssumption DEF ListInv, links, history
<1>1. CASE RecoverBegin(c) \/ ClearBegin(c)
  <2>1. /\ c \notin Draining /\ Draining' = Draining \cup {c}
        /\ owner' = owner /\ stamp' = stamp
    BY <1>1 DEF RecoverBegin, ClearBegin, DetachChain, Draining, TypeOK
  <2>2. FlightOf' = FlightOf
    BY <2>1, Zenon DEF FlightOf, Flight
  <2>3. Promise!BeginDrain(c)
    BY <2>1, <2>2, Zenon DEF Promise!BeginDrain, FlightOf
  <2> QED
    BY <2>3, Zenon DEF AbstractNext, Promise!Next
<1>2. CASE AckReturn(c) \/ Redeliver(c)
  <2>1. owner' = owner /\ stamp' = stamp /\ Draining' = Draining
    BY <1>2 DEF AckReturn, Redeliver, Draining, TypeOK
  <2> QED
    BY <2>1, SameFlight, Zenon
<1>3. CASE RecoverNode(c) \/ ClearNode(c)
  <2>1. node[c] \in Messages /\ First(c) = node[c] /\ owner[node[c]] = c
    BY <1>3 DEF RecoverNode, ClearNode, First, FirstOK, TypeOK
  <2>2. /\ owner' = [owner EXCEPT ![node[c]] = Null] /\ stamp' = stamp
        /\ Draining' = Draining
    BY <1>3 DEF RecoverNode, ClearNode, ClearLinks, Draining, TypeOK
  <2> QED
    BY ZenonT(30), <2>1, <2>2, RemovalMaps
<1>4. CASE RecoverReturn(c) \/ ClearReturn(c)
  <2>1. First(c) = Null /\ FlightOf[c] = {}
    BY <1>4 DEF RecoverReturn, ClearReturn, First, FirstOK, FlightOf, Flight
  <2>2. /\ c \in Draining /\ Draining' = Draining \ {c}
        /\ owner' = owner /\ stamp' = stamp
    BY <1>4, Zenon DEF RecoverReturn, ClearReturn, Draining, TypeOK
  <2>3. FlightOf' = FlightOf
    BY <2>2, Zenon DEF FlightOf, Flight
  <2>4. Promise!EndDrain(c)
    BY <2>1, <2>2, <2>3, Zenon DEF Promise!EndDrain, FlightOf
  <2> QED
    BY <2>4, Zenon DEF AbstractNext, Promise!Next
<1> QED
  BY <1>1, <1>2, <1>3, <1>4, Zenon DEF Call

\* The pointer surgery implements InFlightSet: every step of the list is one step of
\* the set, or leaves the set alone.
THEOREM ListImplementsSet == Spec => ImplementsPromise
<1>1. Init => Promise!Init
  <2> SUFFICES ASSUME Init PROVE Promise!Init
    BY Zenon
  <2>1. \A c \in Consumers : Flight(c) = {}
    BY ZenonT(30), InFlightListAssumption DEF Init, Flight
  <2>2. Draining = {} /\ stamp = [m \in Messages |-> 0]
    BY Zenon DEF Init, Draining
  <2> QED
    BY <2>1, <2>2, Zenon DEF Promise!Init
<1>2. ListInv /\ [Next]_vars => [Promise!Next]_<<[c \in Consumers |-> Flight(c)], stamp, Draining>>
  <2> SUFFICES ASSUME ListInv, [Next]_vars PROVE AbstractNext
    BY Zenon DEF AbstractNext, FlightOf
  <2> USE DEF links, history
  <2>1. CASE UNCHANGED vars
    BY <2>1, SameFlight, Zenon DEF vars, Draining
  <2>2. ASSUME NEW m \in Messages, Send(m) \/ Drop(m) PROVE AbstractNext
    BY <2>2, SameFlight, Zenon DEF Send, Drop, Draining
  <2>3. ASSUME NEW m \in Messages, NEW n \in Messages, Forward(m, n) PROVE AbstractNext
    <3>1. owner' = owner
      BY <2>3, Zenon DEF Forward, Fresh, ListInv, TrackedOK, TypeOK
    <3> QED
      BY <2>3, <3>1, SameFlight, Zenon DEF Forward, Draining
  <2>4. ASSUME NEW c \in Consumers, NEW m \in Messages, RecvUntracked(c, m) PROVE AbstractNext
    BY <2>4, SameFlight, Zenon DEF RecvUntracked, Dequeue, Draining
  <2>5. ASSUME NEW c \in Consumers, NEW m \in Messages, Acknowledge(c, m) PROVE AbstractNext
    <3>1. /\ owner[m] = c /\ owner' = [owner EXCEPT ![m] = Null] /\ stamp' = stamp
          /\ c \notin Draining /\ Draining' = Draining
      BY <2>5, Zenon DEF Acknowledge, Tracks, Unlink, Draining, ListInv, TypeOK
    <3> QED
      BY ZenonT(30), <3>1, RemovalMaps
  <2> QED
    BY <2>1, <2>2, <2>3, <2>4, <2>5, ReceiveMaps, CallMaps, Zenon DEF Next, AcknowledgeOther
<1> QED
  BY <1>1, <1>2, ListInvariant, PTL DEF Spec, ImplementsPromise, Promise!Spec
=============================================================================
