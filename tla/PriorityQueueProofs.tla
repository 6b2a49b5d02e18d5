------------------------ MODULE PriorityQueueProofs ------------------------
(***************************************************************************)
(* Proofs about PriorityQueueT for any number of threads, messages and     *)
(* bands: types, the conservation of semaphore tokens, that a lone         *)
(* consumer never gives a token back, and the order of the scan.           *)
(***************************************************************************)
EXTENDS PriorityQueue, FiniteSetTheorems, TLAPS

USE PriorityQueueAssumption

\* Every message has a band of the mask.
LEMMA BandType == ASSUME NEW m \in Messages PROVE Band(m) \in Bands
  BY DEF Band, Clamp, Bands

\* Bands are integers between 0 and MaxBand.
LEMMA BandsRange ==
  ASSUME NEW b \in Bands
  PROVE  /\ b \in Int /\ 0 <= b /\ b <= MaxBand
         /\ b > 0 => b - 1 \in Bands
  BY DEF Bands

\* The type invariant holds initially.
LEMMA InitTypeOK == Init => TypeOK
  BY DEF Init, TypeOK, Bands

\* Every step of a producer and of a consumer preserves the types.
LEMMA NextTypeOK == TypeOK /\ [Next]_vars => TypeOK'
<1> SUFFICES ASSUME TypeOK, [Next]_vars PROVE TypeOK'
  OBVIOUS
<1> USE DEF TypeOK
<1>1. ASSUME NEW p \in Producers, NEW m \in Messages, EnqueueBand(p, m)
      PROVE  TypeOK'
  <2>1. IsFiniteSet({o \in Messages : Sender[o] = p /\ ticket[o] > 0})
    BY FS_Subset, {o \in Messages : Sender[o] = p /\ ticket[o] > 0} \in SUBSET Messages
  <2>2. 1 + Cardinality({o \in Messages : Sender[o] = p /\ ticket[o] > 0}) \in Nat
    BY <2>1, FS_CardinalityType
  <2> QED
    BY <1>1, <2>2 DEF EnqueueBand, consVars
<1>2. ASSUME NEW p \in Producers, SetBit(p) PROVE TypeOK'
  <2>1. pmsg[p] \in Messages
    BY <1>2 DEF SetBit
  <2> QED
    BY <1>2, <2>1, BandType DEF SetBit, consVars
<1>3. ASSUME NEW p \in Producers, Signal(p) PROVE TypeOK'
  BY <1>3 DEF Signal, consVars
<1>4. ASSUME NEW c \in Consumers, AcquireToken(c) PROVE TypeOK'
  BY <1>4 DEF AcquireToken, prodVars, Settled
<1>5. ASSUME NEW c \in Consumers, LoadMask(c) PROVE TypeOK'
  <2>1. MaxBand \in Bands
    BY DEF Bands
  <2> QED
    BY <1>5, <2>1 DEF LoadMask, LookAt, prodVars
<1>6. ASSUME NEW c \in Consumers, NEW m \in Messages, TakeHead(c, m) PROVE TypeOK'
  BY <1>6 DEF TakeHead, prodVars
<1>7. ASSUME NEW c \in Consumers, NEW p \in Producers, PassEmptyStream(c, p)
      PROVE  TypeOK'
  BY <1>7 DEF PassEmptyStream, prodVars
<1>8. ASSUME NEW c \in Consumers, MissBand(c) PROVE TypeOK'
  <2>1. cband[c] > 0 => cband[c] - 1 \in Bands
    BY BandsRange
  <2> QED
    BY <1>8, <2>1 DEF MissBand, LookAt, prodVars
<1>9. ASSUME NEW c \in Consumers, ClearBit(c) PROVE TypeOK'
  BY <1>9 DEF ClearBit, prodVars
<1>10. ASSUME NEW c \in Consumers, ReturnToken(c) PROVE TypeOK'
  BY <1>10 DEF ReturnToken, prodVars
<1>11. CASE UNCHANGED vars
  BY <1>11 DEF vars, prodVars, consVars
<1> QED
  BY <1>1, <1>2, <1>3, <1>4, <1>5, <1>6, <1>7, <1>8, <1>9, <1>10, <1>11
  DEF Next, Producer, Consumer

\* Every reachable state of PriorityQueueT is well typed: the mask names bands
\* only, the semaphore count never becomes negative, and a producer holds a
\* message exactly while it is inside enqueue().
THEOREM TypeCorrect == Spec => []TypeOK
  BY InitTypeOK, NextTypeOK, PTL DEF Spec

-----------------------------------------------------------------------------
(* Tokens.  The three sets of the conservation law change by at most one   *)
(* element per step.                                                       *)

\* A message is in a band only after its one enqueue; this is what keeps
\* EnqueueBand from adding a message that is already there.
QueuedWasSent == \A m \in queued : ticket[m] > 0

TokenInv == TypeOK /\ QueuedWasSent /\ TokenPerMessage

\* The sets of the conservation law are finite.
LEMMA TokenSetsFinite ==
  ASSUME TypeOK
  PROVE  /\ IsFiniteSet(queued) /\ Cardinality(queued) \in Nat
         /\ IsFiniteSet(Entering) /\ Cardinality(Entering) \in Nat
         /\ IsFiniteSet(Holding) /\ Cardinality(Holding) \in Nat
<1>1. queued \in SUBSET Messages /\ Entering \in SUBSET Producers
        /\ Holding \in SUBSET Consumers
  BY DEF TypeOK, Entering, Holding
<1>2. IsFiniteSet(queued) /\ IsFiniteSet(Entering) /\ IsFiniteSet(Holding)
  BY <1>1, FS_Subset
<1> QED
  BY <1>2, FS_CardinalityType

\* The empty queue has no token and nobody inside a call.
LEMMA InitTokenInv == Init => TokenInv
<1> SUFFICES ASSUME Init PROVE TokenInv
  OBVIOUS
<1>1. queued = {} /\ Entering = {} /\ Holding = {} /\ sema = 0
  BY DEF Init, Entering, Holding
<1>2. TokenPerMessage
  BY <1>1, FS_EmptySet DEF TokenPerMessage
<1> QED
  BY <1>1, <1>2, InitTypeOK DEF TokenInv, QueuedWasSent

\* Every step keeps one token per message.
LEMMA NextTokenInv == TokenInv /\ [Next]_vars => TokenInv'
<1> SUFFICES ASSUME TokenInv, [Next]_vars PROVE TokenInv'
  OBVIOUS
<1>0. TypeOK /\ TypeOK' /\ QueuedWasSent
  BY NextTypeOK DEF TokenInv
<1>a. Cardinality(queued) = sema + Cardinality(Entering) + Cardinality(Holding)
  BY DEF TokenInv, TokenPerMessage
<1>s. SUFFICES /\ QueuedWasSent'
               /\ Cardinality(queued') =
                     sema' + Cardinality(Entering') + Cardinality(Holding')
  BY <1>0 DEF TokenInv, TokenPerMessage
<1>f. /\ IsFiniteSet(queued) /\ Cardinality(queued) \in Nat
      /\ IsFiniteSet(Entering) /\ Cardinality(Entering) \in Nat
      /\ IsFiniteSet(Holding) /\ Cardinality(Holding) \in Nat
      /\ sema \in Nat
  BY <1>0, TokenSetsFinite DEF TypeOK
<1> DEFINE Goal == /\ QueuedWasSent'
                   /\ Cardinality(queued') =
                         sema' + Cardinality(Entering') + Cardinality(Holding')
<1>1. ASSUME NEW p \in Producers, NEW m \in Messages, EnqueueBand(p, m) PROVE Goal
  <2>1. m \notin queued /\ p \notin Entering
    BY <1>0, <1>1 DEF EnqueueBand, QueuedWasSent, Entering, TypeOK
  <2>2. queued' = queued \cup {m} /\ Entering' = Entering \cup {p}
          /\ Holding' = Holding /\ sema' = sema
    BY <1>0, <1>1 DEF EnqueueBand, Entering, Holding, TypeOK, consVars
  <2>3. Cardinality(queued') = Cardinality(queued) + 1
          /\ Cardinality(Entering') = Cardinality(Entering) + 1
    BY <2>1, <2>2, <1>f, FS_AddElement, Zenon
  <2>4. \A o \in Messages : ticket'[o] = ticket[o] \/ o = m
    BY <1>0, <1>1 DEF EnqueueBand, TypeOK
  <2>5. ticket'[m] > 0
    <3>1. IsFiniteSet({o \in Messages : Sender[o] = p /\ ticket[o] > 0})
      BY FS_Subset, {o \in Messages : Sender[o] = p /\ ticket[o] > 0} \in SUBSET Messages
    <3>2. Cardinality({o \in Messages : Sender[o] = p /\ ticket[o] > 0}) \in Nat
      BY <3>1, FS_CardinalityType
    <3> QED
      BY <1>0, <1>1, <3>2 DEF EnqueueBand, TypeOK
  <2>6. QueuedWasSent'
    BY <1>0, <2>2, <2>4, <2>5 DEF QueuedWasSent, TypeOK
  <2> QED
    BY <1>a, <1>f, <2>2, <2>3, <2>6
<1>2. ASSUME NEW p \in Producers, SetBit(p) PROVE Goal
  <2>1. queued' = queued /\ Entering' = Entering /\ Holding' = Holding
          /\ sema' = sema /\ ticket' = ticket
    BY <1>0, <1>2 DEF SetBit, Entering, Holding, TypeOK, consVars
  <2> QED
    BY <1>0, <1>a, <2>1 DEF QueuedWasSent
<1>3. ASSUME NEW p \in Producers, Signal(p) PROVE Goal
  <2>1. p \in Entering
    BY <1>0, <1>3 DEF Signal, Entering, TypeOK
  <2>2. queued' = queued /\ Entering' = Entering \ {p} /\ Holding' = Holding
          /\ sema' = sema + 1 /\ ticket' = ticket
    BY <1>0, <1>3 DEF Signal, Entering, Holding, TypeOK, consVars
  <2>3. Cardinality(Entering') = Cardinality(Entering) - 1
    BY <2>1, <2>2, <1>f, FS_RemoveElement, Zenon
  <2> QED
    BY <1>0, <1>a, <1>f, <2>2, <2>3 DEF QueuedWasSent
<1>4. ASSUME NEW c \in Consumers, AcquireToken(c) PROVE Goal
  <2>1. c \notin Holding
    BY <1>0, <1>4 DEF AcquireToken, Holding, TypeOK
  <2>2. queued' = queued /\ Entering' = Entering /\ Holding' = Holding \cup {c}
          /\ sema' = sema - 1 /\ ticket' = ticket
    BY <1>0, <1>4 DEF AcquireToken, Entering, Holding, TypeOK, prodVars
  <2>3. Cardinality(Holding') = Cardinality(Holding) + 1
    BY <2>1, <2>2, <1>f, FS_AddElement, Zenon
  <2> QED
    BY <1>0, <1>a, <1>f, <2>2, <2>3 DEF QueuedWasSent
<1>5. ASSUME NEW c \in Consumers, LoadMask(c) \/ MissBand(c) \/ ClearBit(c) PROVE Goal
  <2>1. queued' = queued /\ Entering' = Entering /\ Holding' = Holding
          /\ sema' = sema /\ ticket' = ticket
    BY <1>0, <1>5 DEF LoadMask, MissBand, ClearBit, LookAt, Entering, Holding,
                      TypeOK, prodVars
  <2> QED
    BY <1>0, <1>a, <2>1 DEF QueuedWasSent
<1>6. ASSUME NEW c \in Consumers, NEW m \in Messages, TakeHead(c, m) PROVE Goal
  <2>1. c \in Holding /\ m \in queued
    BY <1>0, <1>6 DEF TakeHead, StreamHead, Stream, Holding, TypeOK
  <2>2. queued' = queued \ {m} /\ Entering' = Entering
          /\ Holding' = Holding \ {c} /\ sema' = sema /\ ticket' = ticket
    BY <1>0, <1>6 DEF TakeHead, Entering, Holding, TypeOK, prodVars
  <2>3. Cardinality(queued') = Cardinality(queued) - 1
          /\ Cardinality(Holding') = Cardinality(Holding) - 1
    BY <2>1, <2>2, <1>f, FS_RemoveElement, Zenon
  <2> QED
    BY <1>0, <1>a, <1>f, <2>2, <2>3 DEF QueuedWasSent
<1>7. ASSUME NEW c \in Consumers, NEW p \in Producers, PassEmptyStream(c, p) PROVE Goal
  <2>1. queued' = queued /\ Entering' = Entering /\ Holding' = Holding
          /\ sema' = sema /\ ticket' = ticket
    BY <1>0, <1>7 DEF PassEmptyStream, Entering, Holding, TypeOK, prodVars
  <2> QED
    BY <1>0, <1>a, <2>1 DEF QueuedWasSent
<1>8. ASSUME NEW c \in Consumers, ReturnToken(c) PROVE Goal
  <2>1. c \in Holding
    BY <1>0, <1>8 DEF ReturnToken, Holding, TypeOK
  <2>2. queued' = queued /\ Entering' = Entering /\ Holding' = Holding \ {c}
          /\ sema' = sema + 1 /\ ticket' = ticket
    BY <1>0, <1>8 DEF ReturnToken, Entering, Holding, TypeOK, prodVars
  <2>3. Cardinality(Holding') = Cardinality(Holding) - 1
    BY <2>1, <2>2, <1>f, FS_RemoveElement, Zenon
  <2> QED
    BY <1>0, <1>a, <1>f, <2>2, <2>3 DEF QueuedWasSent
<1>9. CASE UNCHANGED vars
  BY <1>0, <1>a, <1>9 DEF vars, prodVars, consVars, QueuedWasSent, Entering, Holding
<1> QED
  BY <1>1, <1>2, <1>3, <1>4, <1>5, <1>6, <1>7, <1>8, <1>9
  DEF Next, Producer, Consumer

\* Tokens and messages are conserved whatever the interleaving: every message
\* in a band is matched by a semaphore token, by a producer that has not
\* signalled yet, or by a consumer that holds a token and is still looking.
THEOREM TokensConserved == Spec => []TokenPerMessage
<1>1. TokenInv => TokenPerMessage
  BY DEF TokenInv
<1> QED
  BY <1>1, InitTokenInv, NextTokenInv, PTL DEF Spec

-----------------------------------------------------------------------------
(* A lone consumer.                                                        *)

\* While the only consumer scans, some message is still ahead of the scan: in
\* a lower band, or in a stream of the current band it has not visited.
Ahead(c) == \E m \in queued : \/ Band(m) < cband[c]
                              \/ Band(m) = cband[c] /\ Sender[m] \notin cseen[c]

LoneInv ==
    Cardinality(Consumers) = 1 =>
        \A c \in Consumers : cpc[c] # "return" /\ (cpc[c] = "scan" => Ahead(c))

\* A consumer that holds a token implies that some message is queued.
LEMMA HolderImpliesMessage ==
  ASSUME TokenInv, NEW c \in Consumers, cpc[c] # "idle"
  PROVE  queued # {}
<1>1. /\ Cardinality(queued) = sema + Cardinality(Entering) + Cardinality(Holding)
      /\ sema \in Nat
  BY DEF TokenInv, TokenPerMessage, TypeOK
<1>2. IsFiniteSet(Holding) /\ Cardinality(Entering) \in Nat
        /\ Cardinality(Holding) \in Nat
  BY TokenSetsFinite DEF TokenInv
<1>3. Cardinality(Holding) # 0
  BY <1>2, FS_EmptySet DEF Holding
<1>4. Cardinality(queued) # 0
  BY <1>1, <1>2, <1>3
<1> QED
  BY <1>4, FS_EmptySet

\* LoneInv holds initially, when the consumer is idle.
LEMMA InitLoneInv == Init => LoneInv
  BY DEF Init, LoneInv

\* Every step preserves LoneInv.  Only the lone consumer removes messages or
\* moves the scan, and a scan starts with a message in the queue.
LEMMA NextLoneInv == TokenInv /\ LoneInv /\ [Next]_vars => LoneInv'
<1> SUFFICES ASSUME TokenInv, LoneInv, [Next]_vars, Cardinality(Consumers) = 1,
                    NEW d \in Consumers
             PROVE  (cpc[d] # "return" /\ (cpc[d] = "scan" => Ahead(d)))'
  BY DEF LoneInv
<1> DEFINE Goal == (cpc[d] # "return" /\ (cpc[d] = "scan" => Ahead(d)))'
<1>0. TypeOK /\ TypeOK'
  BY NextTypeOK DEF TokenInv
<1>a. cpc[d] # "return" /\ (cpc[d] = "scan" => Ahead(d))
  BY DEF LoneInv
<1>b. \A c \in Consumers : c = d
  BY FS_Singleton
<1>c. \A m \in queued : Band(m) \in Bands /\ Sender[m] \in Producers
  BY <1>0, BandType DEF TypeOK
<1>1. ASSUME NEW p \in Producers, NEW m \in Messages, EnqueueBand(p, m) PROVE Goal
  BY <1>1, <1>a DEF EnqueueBand, consVars, Ahead
<1>2. ASSUME NEW p \in Producers, SetBit(p) \/ Signal(p) PROVE Goal
  BY <1>2, <1>a DEF SetBit, Signal, consVars, Ahead
<1>3. CASE AcquireToken(d)
  BY <1>3, <1>0 DEF AcquireToken, TypeOK
<1>4. CASE LoadMask(d)
  <2>1. queued # {}
    BY <1>4, HolderImpliesMessage DEF LoadMask
  <2>2. CASE nonEmpty = {} /\ LookAt(d, "scan", MaxBand)
    <3>1. cpc'[d] = "scan" /\ cband'[d] = MaxBand /\ cseen'[d] = {}
      BY <2>2, <1>0 DEF LookAt, TypeOK
    <3>2. PICK m \in queued : TRUE
      BY <2>1
    <3>3. Band(m) \in Int /\ Band(m) <= MaxBand
      BY <1>c, BandsRange
    <3>4. Band(m) < cband'[d] \/ (Band(m) = cband'[d] /\ Sender[m] \notin cseen'[d])
      BY <3>1, <3>3
    <3>5. queued' = queued
      BY <1>4 DEF LoadMask
    <3> QED
      BY <3>1, <3>4, <3>5 DEF Ahead
  <2>3. CASE \E b \in nonEmpty : LookAt(d, "try", b)
    BY <2>3, <1>0 DEF LookAt, TypeOK
  <2> QED
    BY <1>4, <2>2, <2>3 DEF LoadMask
<1>5. ASSUME NEW m \in Messages, TakeHead(d, m) PROVE Goal
  BY SMTT(30), <1>5, <1>0 DEF TakeHead, TypeOK
<1>6. ASSUME NEW p \in Producers, PassEmptyStream(d, p) PROVE Goal
  <2>1. cpc' = cpc /\ cband' = cband /\ queued' = queued
          /\ cseen'[d] = cseen[d] \cup {p}
    BY SMTT(30), <1>6, <1>0 DEF PassEmptyStream, TypeOK
  <2>2. \A m \in queued : Band(m) = cband[d] => Sender[m] # p
    BY <1>6 DEF PassEmptyStream, Stream
  <2> QED
    BY <1>a, <2>1, <2>2 DEF Ahead
<1>7. CASE MissBand(d)
  <2>1. CASE cpc[d] = "try"
    BY <1>7, <2>1, <1>0 DEF MissBand, LookAt, TypeOK
  <2>2. CASE cpc[d] = "scan"
    <3>1. PICK m \in queued : Band(m) < cband[d]
      BY <1>7, <2>2, <1>a, <1>c DEF MissBand, Ahead
    <3>2. /\ Band(m) \in Int /\ 0 <= Band(m) /\ cband[d] \in Int
          /\ queued' = queued
      BY <1>7, <1>0, <1>c, BandsRange DEF MissBand, TypeOK
    <3>3. LookAt(d, "scan", cband[d] - 1)
      BY <1>7, <2>2, <3>1, <3>2 DEF MissBand
    <3>4. cpc'[d] = "scan" /\ cband'[d] = cband[d] - 1 /\ cseen'[d] = {}
      BY <3>3, <1>0 DEF LookAt, TypeOK
    <3>5. Band(m) < cband'[d] \/ (Band(m) = cband'[d] /\ Sender[m] \notin cseen'[d])
      BY <3>1, <3>2, <3>4
    <3> QED
      BY <3>2, <3>4, <3>5 DEF Ahead
  <2> QED
    BY <1>7, <2>1, <2>2 DEF MissBand
<1>8. CASE ClearBit(d)
  BY <1>8, <1>0 DEF ClearBit, TypeOK
<1>9. CASE ReturnToken(d)
  BY <1>9, <1>a DEF ReturnToken
<1>10. CASE UNCHANGED vars
  BY <1>10, <1>a DEF vars, consVars, Ahead
<1> QED
  BY <1>b, <1>1, <1>2, <1>3, <1>4, <1>5, <1>6, <1>7, <1>8, <1>9, <1>10
  DEF Next, Producer, Consumer

\* With one consumer per queue, dequeueFromBands succeeds after every
\* successful wait: the token return of dequeueFromBandsOrReturnToken is dead
\* code, whatever bits of the mask the consumer has cleared under a producer.
THEOREM LoneConsumerAlwaysFinds == Spec => []LoneConsumerFinds
<1>1. LoneInv => LoneConsumerFinds
  BY DEF LoneInv, LoneConsumerFinds
<1> QED
  BY <1>1, InitTokenInv, NextTokenInv, InitLoneInv, NextLoneInv, PTL DEF Spec

-----------------------------------------------------------------------------
(* The scan.                                                               *)

\* What was fully enqueued when a consumer's call began and is still queued has not
\* been passed by its scan: it is in a lower band than the one the scan looks at, or
\* in that band in a stream that the scan has not found empty.
NotPassed(c) ==
    \A o \in atCall[c] \cap queued :
        /\ Band(o) <= cband[c]
        /\ Band(o) = cband[c] => Sender[o] \notin cseen[c]

ScanInv ==
    \A c \in Consumers :
        /\ \A o \in atCall[c] : ticket[o] > 0
        /\ cpc[c] = "scan" => NotPassed(c)

\* Before any call there is nothing to honour.
LEMMA InitScanInv == Init => ScanInv
  BY DEF Init, ScanInv

\* A consumer whose own state and queue contents are left alone, but for messages
\* that leave, keeps what is ahead of its scan.
LEMMA ScanFrame ==
  ASSUME NEW c \in Consumers, NotPassed(c), atCall'[c] = atCall[c], cband'[c] = cband[c],
         cseen'[c] = cseen[c], \A o \in atCall[c] : o \in queued' => o \in queued
  PROVE  NotPassed(c)'
  BY Zenon DEF NotPassed, Band, Clamp

\* No step brings a message back behind a scan: a message is enqueued once, a stream
\* is passed only when it is empty, and a band only when all of its streams are.
LEMMA NextScanInv == TokenInv /\ ScanInv /\ [Next]_vars => ScanInv'
<1> SUFFICES ASSUME TokenInv, ScanInv, [Next]_vars PROVE ScanInv'
  OBVIOUS
<1>1. TypeOK /\ \A m \in queued : ticket[m] > 0
  BY Zenon DEF TokenInv, QueuedWasSent
<1>2. \A c \in Consumers : (\A o \in atCall[c] : ticket[o] > 0) /\ (cpc[c] = "scan" => NotPassed(c))
  BY Zenon DEF ScanInv
<1>3. /\ cpc \in [Consumers -> {"idle", "load", "try", "clear", "scan", "return"}]
      /\ cband \in [Consumers -> Bands] /\ cseen \in [Consumers -> SUBSET Producers]
      /\ atCall \in [Consumers -> SUBSET Messages] /\ ticket \in [Messages -> Nat]
      /\ queued \in SUBSET Messages
  BY <1>1, Zenon DEF TypeOK
<1>4. ASSUME NEW p \in Producers, NEW m \in Messages, EnqueueBand(p, m) PROVE ScanInv'
  <2>1. /\ queued' = queued \cup {m} /\ UNCHANGED <<cpc, cband, cseen, atCall>> /\ ticket[m] = 0
        /\ ~(ticket[m] > 0)
    BY <1>4 DEF EnqueueBand, consVars
  <2>2. \A o \in Messages : o # m => ticket'[o] = ticket[o]
    BY <1>3, <1>4 DEF EnqueueBand
  <2>3. ASSUME NEW c \in Consumers, NEW o \in atCall[c] PROVE o \in Messages /\ o # m
    BY <1>2, <1>3, <2>1
  <2>4. ASSUME NEW c \in Consumers PROVE cpc[c] = "scan" => NotPassed(c)'
    BY <1>2, <2>1, <2>3, ScanFrame, Zenon
  <2>5. ASSUME NEW c \in Consumers, NEW o \in atCall[c] PROVE ticket'[o] > 0
    BY <1>2, <2>2, <2>3, Zenon
  <2> QED
    BY <2>1, <2>4, <2>5, Zenon DEF ScanInv
<1>5. ASSUME UNCHANGED <<queued, ticket, consVars>> PROVE ScanInv'
  <2>1. UNCHANGED <<queued, ticket, cpc, cband, cseen, atCall>>
    BY <1>5 DEF consVars
  <2> QED
    BY <1>2, <2>1, Zenon DEF ScanInv, NotPassed, Band, Clamp
<1>6. ASSUME NEW d \in Consumers, UNCHANGED ticket, queued' \subseteq queued,
             \A c \in Consumers : c # d => /\ cpc'[c] = cpc[c] /\ cband'[c] = cband[c]
                                           /\ cseen'[c] = cseen[c] /\ atCall'[c] = atCall[c],
             \A o \in atCall'[d] : ticket[o] > 0,
             cpc'[d] = "scan" => NotPassed(d)'
      PROVE  ScanInv'
  <2>1. ASSUME NEW c \in Consumers, c # d PROVE cpc'[c] = "scan" => NotPassed(c)'
    BY <1>2, <1>6, <2>1, ScanFrame, Zenon
  <2>2. ASSUME NEW c \in Consumers PROVE \A o \in atCall'[c] : ticket'[o] > 0
    BY <1>2, <1>6, Zenon
  <2> QED
    BY <1>6, <2>1, <2>2, Zenon DEF ScanInv
<1>7. ASSUME NEW d \in Consumers, AcquireToken(d) PROVE ScanInv'
  <2>1. Settled \subseteq queued
    BY DEF Settled
  <2>2. /\ cpc' = [cpc EXCEPT ![d] = "load"] /\ atCall' = [atCall EXCEPT ![d] = Settled]
        /\ UNCHANGED <<queued, ticket, cband, cseen>>
    BY <1>7 DEF AcquireToken
  <2>3. /\ cpc'[d] # "scan" /\ atCall'[d] = Settled
        /\ \A c \in Consumers : c # d => cpc'[c] = cpc[c] /\ atCall'[c] = atCall[c]
    BY <1>3, <2>2
  <2> QED
    BY <1>1, <1>6, <2>1, <2>2, <2>3, Zenon
<1>8. ASSUME NEW d \in Consumers, NEW b \in Bands, NEW pc \in {"try", "clear", "scan", "return"},
             LookAt(d, pc, b), UNCHANGED <<queued, ticket, atCall>>,
             pc = "scan" => \A o \in atCall[d] \cap queued : Band(o) <= b
      PROVE  ScanInv'
  <2>1. /\ cpc'[d] = pc /\ cband'[d] = b /\ cseen'[d] = {}
        /\ \A c \in Consumers : c # d => /\ cpc'[c] = cpc[c] /\ cband'[c] = cband[c]
                                         /\ cseen'[c] = cseen[c]
    BY <1>3, <1>8 DEF LookAt
  <2>2. pc = "scan" => NotPassed(d)'
    BY <1>8, <2>1, Zenon DEF NotPassed, Band, Clamp
  <2> QED
    BY <1>2, <1>6, <1>8, <2>1, <2>2, Zenon
<1>9. ASSUME NEW d \in Consumers, LoadMask(d) PROVE ScanInv'
  <2>1. UNCHANGED <<queued, ticket, atCall>> /\ nonEmpty \subseteq Bands /\ MaxBand \in Bands
    BY <1>1, <1>9 DEF LoadMask, TypeOK, Bands
  <2>2. ASSUME NEW o \in atCall[d] \cap queued PROVE Band(o) <= MaxBand
    BY <1>3, BandType, BandsRange
  <2>3. CASE LookAt(d, "scan", MaxBand)
    BY <1>8, <2>1, <2>2, <2>3
  <2>4. ASSUME NEW b \in nonEmpty, LookAt(d, "try", b) PROVE ScanInv'
    BY <1>8, <2>1, <2>4
  <2> QED
    BY <1>9, <2>3, <2>4, Zenon DEF LoadMask
<1>10. ASSUME NEW d \in Consumers, NEW m \in Messages, TakeHead(d, m) PROVE ScanInv'
  <2>1. /\ queued' = queued \ {m} /\ cpc' = [cpc EXCEPT ![d] = "idle"]
        /\ cseen' = [cseen EXCEPT ![d] = {}] /\ atCall' = [atCall EXCEPT ![d] = {}]
        /\ UNCHANGED <<ticket, cband>>
    BY <1>10 DEF TakeHead
  <2>2. /\ cpc'[d] # "scan" /\ atCall'[d] = {} /\ queued' \subseteq queued
        /\ \A c \in Consumers : c # d => /\ cpc'[c] = cpc[c] /\ atCall'[c] = atCall[c]
                                         /\ cseen'[c] = cseen[c]
    BY <1>3, <2>1
  <2> QED
    BY <1>6, <2>1, <2>2, Zenon
<1>11. ASSUME NEW d \in Consumers, NEW p \in Producers, PassEmptyStream(d, p) PROVE ScanInv'
  <2>1. /\ Stream(p, cband[d]) = {} /\ cseen' = [cseen EXCEPT ![d] = cseen[d] \cup {p}]
        /\ UNCHANGED <<queued, ticket, cpc, cband, atCall>>
    BY <1>11 DEF PassEmptyStream
  <2>2. /\ cseen'[d] = cseen[d] \cup {p}
        /\ \A c \in Consumers : c # d => cseen'[c] = cseen[c]
    BY <1>3, <2>1
  <2>3. \A o \in queued : Band(o) = cband[d] => Sender[o] # p
    BY <2>1, Zenon DEF Stream
  <2>4. cpc'[d] = "scan" => NotPassed(d)'
    BY <1>2, <2>1, <2>2, <2>3, Zenon DEF NotPassed, Band, Clamp
  <2> QED
    BY <1>2, <1>6, <2>1, <2>2, <2>4, Zenon
<1>12. ASSUME NEW d \in Consumers, MissBand(d) PROVE ScanInv'
  <2>1. UNCHANGED <<queued, ticket, atCall>> /\ cseen[d] = Producers /\ cband[d] \in Bands /\ 0 \in Bands
    BY <1>3, <1>12 DEF MissBand, Bands
  <2>2. CASE cpc[d] = "scan" /\ cband[d] > 0 /\ LookAt(d, "scan", cband[d] - 1)
    <3>1. cband[d] - 1 \in Bands /\ cband[d] \in Int
      BY <2>1, <2>2, BandsRange
    <3>2. ASSUME NEW o \in atCall[d] \cap queued PROVE Band(o) <= cband[d] - 1
      <4>1. Sender[o] \in Producers /\ Band(o) \in Int
        BY <1>3, BandType, BandsRange
      <4>2. Band(o) <= cband[d] /\ Band(o) # cband[d]
        BY <1>2, <2>1, <2>2, <4>1, Zenon DEF NotPassed
      <4> QED
        BY <3>1, <4>1, <4>2
    <3> QED
      BY <1>8, <2>1, <2>2, <3>1, <3>2
  <2>3. CASE LookAt(d, "clear", cband[d])
    BY <1>8, <2>1, <2>3
  <2>4. CASE LookAt(d, "return", 0)
    BY <1>8, <2>1, <2>4
  <2> QED
    BY <1>12, <2>2, <2>3, <2>4, Zenon DEF MissBand
<1>13. ASSUME NEW d \in Consumers, ClearBit(d) PROVE ScanInv'
  <2>1. cpc' = [cpc EXCEPT ![d] = "load"] /\ UNCHANGED <<queued, ticket, cband, cseen, atCall>>
    BY <1>13 DEF ClearBit
  <2>2. cpc'[d] # "scan" /\ \A c \in Consumers : c # d => cpc'[c] = cpc[c]
    BY <1>3, <2>1
  <2> QED
    BY <1>2, <1>6, <2>1, <2>2, Zenon
<1>14. ASSUME NEW d \in Consumers, ReturnToken(d) PROVE ScanInv'
  <2>1. /\ cpc' = [cpc EXCEPT ![d] = "idle"] /\ atCall' = [atCall EXCEPT ![d] = {}]
        /\ UNCHANGED <<queued, ticket, cband, cseen>>
    BY <1>14 DEF ReturnToken
  <2>2. /\ cpc'[d] # "scan" /\ atCall'[d] = {}
        /\ \A c \in Consumers : c # d => cpc'[c] = cpc[c] /\ atCall'[c] = atCall[c]
    BY <1>3, <2>1
  <2> QED
    BY <1>6, <2>1, <2>2, Zenon
<1>15. ASSUME NEW p \in Producers, SetBit(p) \/ Signal(p) PROVE ScanInv'
  BY <1>5, <1>15, Zenon DEF SetBit, Signal
<1>16. CASE UNCHANGED vars
  BY <1>5, <1>16, Zenon DEF vars
<1> QED
  BY <1>4, <1>7, <1>9, <1>10, <1>11, <1>12, <1>13, <1>14, <1>15, <1>16, Zenon
  DEF Next, Producer, Consumer

\* The step of a scan that takes a message takes it from the band it looks at.
LEMMA ScanTakes ==
  ASSUME TypeOK, Next, NEW c \in Consumers, NEW m \in Messages, Takes(c, m), cpc[c] = "scan"
  PROVE  Band(m) = cband[c]
<1>1. /\ cpc[c] = "scan" /\ cpc'[c] = "idle" /\ m \in queued /\ queued' = queued \ {m}
      /\ cpc \in [Consumers -> {"idle", "load", "try", "clear", "scan", "return"}]
  BY DEF Takes, TypeOK
<1>2. ASSUME NEW d \in Consumers, NEW n \in Messages, TakeHead(d, n) PROVE Band(m) = cband[c]
  <2>1. /\ cpc' = [cpc EXCEPT ![d] = "idle"] /\ queued' = queued \ {n}
        /\ n \in Stream(Sender[n], cband[d])
    BY <1>2, Zenon DEF TakeHead, StreamHead
  <2>2. d = c
    BY <1>1, <2>1
  <2>3. n = m
    BY <1>1, <2>1, Zenon
  <2> QED
    BY <2>1, <2>2, <2>3, Zenon DEF Stream
<1>3. ASSUME NEW p \in Producers, Producer(p) PROVE FALSE
  <2>1. cpc' = cpc
    BY <1>3, Zenon DEF Producer, EnqueueBand, SetBit, Signal, consVars
  <2> QED
    BY <1>1, <2>1
<1>4. ASSUME NEW d \in Consumers, AcquireToken(d) \/ LoadMask(d) \/ MissBand(d) \/ ClearBit(d)
             \/ ReturnToken(d) \/ \E p \in Producers : PassEmptyStream(d, p)
      PROVE  FALSE
  <2>1. queued' = queued
    BY <1>4 DEF AcquireToken, LoadMask, MissBand, ClearBit, ReturnToken, PassEmptyStream
  <2> QED
    BY <1>1, <2>1
<1> QED
  BY <1>2, <1>3, <1>4, Zenon DEF Next, Consumer

\* The safety-net scan of dequeueFromBands honours priority, whatever producers and
\* other consumers do meanwhile: it takes no message while one of a higher band is
\* queued that was there when the call began.
THEOREM ScanTakesHighest == Spec => ScanHonoursPriority
<1>1. ASSUME TokenInv, ScanInv, [Next]_vars
      PROVE  [\A c \in Consumers, m \in Messages :
                 Takes(c, m) /\ cpc[c] = "scan" =>
                     \A o \in atCall[c] \cap queued : Band(o) <= Band(m)]_vars
  <2> SUFFICES ASSUME Next, NEW c \in Consumers, NEW m \in Messages, Takes(c, m), cpc[c] = "scan",
                      NEW o \in atCall[c] \cap queued
               PROVE  Band(o) <= Band(m)
    BY <1>1, Zenon
  <2>1. Band(m) = cband[c]
    BY <1>1, ScanTakes, Zenon DEF TokenInv
  <2> QED
    BY <1>1, <2>1, Zenon DEF ScanInv, NotPassed
<1> QED
  BY <1>1, InitTokenInv, NextTokenInv, InitScanInv, NextScanInv, PTL DEF Spec, ScanHonoursPriority
==============================================================================
