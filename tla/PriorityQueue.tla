--------------------------- MODULE PriorityQueue ---------------------------
(***************************************************************************)
(* PriorityQueueT (Message.h): the queue behind every consumer.            *)
(*                                                                         *)
(* One lock-free queue per priority band, a bitmask of the bands that look *)
(* non-empty, and a counting semaphore with one token per message.  The    *)
(* three are updated by separate atomic operations, so producer and        *)
(* consumer threads interleave between them; every atomic operation of the *)
(* code is one action here.                                                *)
(*                                                                         *)
(* moodycamel::ConcurrentQueue keeps one FIFO stream per producing thread. *)
(* try_dequeue visits the streams one by one, takes the head of a stream   *)
(* that has one, and fails when every stream it visited was empty at that  *)
(* moment.                                                                 *)
(***************************************************************************)
EXTENDS Integers, FiniteSets

CONSTANTS
    Producers,   \* threads that enqueue
    Consumers,   \* threads that dequeue
    Messages,    \* the messages to be enqueued, each of them once
    Sender,      \* the thread that enqueues each message
    Priority,    \* the jmsHeaders.priority of each message, before clamping
    MaxBand,     \* kBands - 1
    NoMessage    \* what a producer that is not inside enqueue() holds

ASSUME PriorityQueueAssumption ==
    /\ MaxBand \in Nat
    /\ Sender \in [Messages -> Producers]
    /\ Priority \in [Messages -> Int]
    /\ NoMessage \notin Messages
    /\ IsFiniteSet(Messages)
    /\ IsFiniteSet(Producers)
    /\ IsFiniteSet(Consumers)

VARIABLES
    queued,      \* the messages that sit in some band
    ticket,      \* position of each message in the order of its sender's
                 \* enqueues, 0 before it is enqueued
    nonEmpty,    \* _nonEmpty: the bands whose bit is set
    sema,        \* _sema
    ppc, pmsg,   \* each producer: program counter and message in hand
    cpc, cband,  \* each consumer: program counter and band it looks at
    cseen,       \* the streams of that band its try_dequeue found empty
    atCall       \* history: the messages fully enqueued when its call began

prodVars == <<ppc, pmsg>>
consVars == <<cpc, cband, cseen, atCall>>
vars == <<queued, ticket, nonEmpty, sema, prodVars, consVars>>

Bands == 0..MaxBand

Clamp(n) == IF n < 0 THEN 0 ELSE IF n > MaxBand THEN MaxBand ELSE n
Band(m) == Clamp(Priority[m])

\* The messages that thread p put in band b and that are still there.
Stream(p, b) == {m \in queued : Sender[m] = p /\ Band(m) = b}
StreamHead(p, b, m) ==
    /\ m \in Stream(p, b)
    /\ \A o \in Stream(p, b) : ticket[m] <= ticket[o]

\* The messages whose enqueue() has returned.
Settled == queued \ {pmsg[p] : p \in Producers}

Init ==
    /\ queued = {}
    /\ ticket = [m \in Messages |-> 0]
    /\ nonEmpty = {}
    /\ sema = 0
    /\ ppc = [p \in Producers |-> "idle"]
    /\ pmsg = [p \in Producers |-> NoMessage]
    /\ cpc = [c \in Consumers |-> "idle"]
    /\ cband = [c \in Consumers |-> 0]
    /\ cseen = [c \in Consumers |-> {}]
    /\ atCall = [c \in Consumers |-> {}]

-----------------------------------------------------------------------------
(* enqueue(): band, then bit, then semaphore.                              *)

EnqueueBand(p, m) ==
    /\ ppc[p] = "idle"
    /\ Sender[m] = p
    /\ ticket[m] = 0
    /\ queued' = queued \cup {m}
    /\ ticket' = [ticket EXCEPT ![m] =
                     1 + Cardinality({o \in Messages : Sender[o] = p /\ ticket[o] > 0})]
    /\ ppc' = [ppc EXCEPT ![p] = "setBit"]
    /\ pmsg' = [pmsg EXCEPT ![p] = m]
    /\ UNCHANGED <<nonEmpty, sema, consVars>>

SetBit(p) ==
    /\ ppc[p] = "setBit"
    /\ nonEmpty' = nonEmpty \cup {Band(pmsg[p])}
    /\ ppc' = [ppc EXCEPT ![p] = "signal"]
    /\ UNCHANGED <<queued, ticket, sema, pmsg, consVars>>

Signal(p) ==
    /\ ppc[p] = "signal"
    /\ sema' = sema + 1
    /\ ppc' = [ppc EXCEPT ![p] = "idle"]
    /\ pmsg' = [pmsg EXCEPT ![p] = NoMessage]
    /\ UNCHANGED <<queued, ticket, nonEmpty, consVars>>

-----------------------------------------------------------------------------
(* wait_dequeue_timed() and try_dequeue(): a token, then the bands.  A     *)
(* wait that times out changes nothing and is a stuttering step.           *)

AcquireToken(c) ==
    /\ cpc[c] = "idle"
    /\ sema > 0
    /\ sema' = sema - 1
    /\ cpc' = [cpc EXCEPT ![c] = "load"]
    /\ atCall' = [atCall EXCEPT ![c] = Settled]
    /\ UNCHANGED <<queued, ticket, nonEmpty, prodVars, cband, cseen>>

\* The walk over the mask goes to its highest bit (std::countl_zero); when the
\* mask is empty, the walk is over and the scan of all bands starts.
LookAt(c, pc, b) ==
    /\ cpc' = [cpc EXCEPT ![c] = pc]
    /\ cband' = [cband EXCEPT ![c] = b]
    /\ cseen' = [cseen EXCEPT ![c] = {}]

\* Mutants: no scan when the mask is empty; the scan starts at the lowest band.
LoadMaskNoScan(c) ==
    /\ cpc[c] = "load"
    /\ \/ nonEmpty = {} /\ LookAt(c, "return", 0)
       \/ \E b \in nonEmpty : (\A o \in nonEmpty : o <= b) /\ LookAt(c, "try", b)
    /\ UNCHANGED <<queued, ticket, nonEmpty, sema, prodVars, atCall>>

LoadMaskScansLow(c) ==
    /\ cpc[c] = "load"
    /\ \/ nonEmpty = {} /\ LookAt(c, "scan", 0)
       \/ \E b \in nonEmpty : (\A o \in nonEmpty : o <= b) /\ LookAt(c, "try", b)
    /\ UNCHANGED <<queued, ticket, nonEmpty, sema, prodVars, atCall>>

LoadMask(c) ==
    /\ cpc[c] = "load"
    /\ \/ nonEmpty = {} /\ LookAt(c, "scan", MaxBand)
       \/ \E b \in nonEmpty : (\A o \in nonEmpty : o <= b) /\ LookAt(c, "try", b)
    /\ UNCHANGED <<queued, ticket, nonEmpty, sema, prodVars, atCall>>

\* _bands[band].try_dequeue(): one stream after the other.
TakeHead(c, m) ==
    /\ cpc[c] \in {"try", "scan"}
    /\ Sender[m] \notin cseen[c]
    /\ StreamHead(Sender[m], cband[c], m)
    /\ queued' = queued \ {m}
    /\ cpc' = [cpc EXCEPT ![c] = "idle"]
    /\ cseen' = [cseen EXCEPT ![c] = {}]
    /\ atCall' = [atCall EXCEPT ![c] = {}]
    /\ UNCHANGED <<ticket, nonEmpty, sema, prodVars, cband>>

PassEmptyStream(c, p) ==
    /\ cpc[c] \in {"try", "scan"}
    /\ p \notin cseen[c]
    /\ Stream(p, cband[c]) = {}
    /\ cseen' = [cseen EXCEPT ![c] = @ \cup {p}]
    /\ UNCHANGED <<queued, ticket, nonEmpty, sema, prodVars, cpc, cband, atCall>>

\* The band yielded nothing: clear its bit, or go on to the next band of the
\* scan; after band 0 the scan has failed.
MissBand(c) ==
    /\ cpc[c] \in {"try", "scan"}
    /\ cseen[c] = Producers
    /\ \/ cpc[c] = "try" /\ LookAt(c, "clear", cband[c])
       \/ cpc[c] = "scan" /\ cband[c] > 0 /\ LookAt(c, "scan", cband[c] - 1)
       \/ cpc[c] = "scan" /\ cband[c] = 0 /\ LookAt(c, "return", 0)
    /\ UNCHANGED <<queued, ticket, nonEmpty, sema, prodVars, atCall>>

ClearBit(c) ==
    /\ cpc[c] = "clear"
    /\ nonEmpty' = nonEmpty \ {cband[c]}
    /\ cpc' = [cpc EXCEPT ![c] = "load"]
    /\ UNCHANGED <<queued, ticket, sema, prodVars, cband, cseen, atCall>>

\* Mutant: the token is not given back.
ReturnTokenLost(c) ==
    /\ cpc[c] = "return"
    /\ cpc' = [cpc EXCEPT ![c] = "idle"]
    /\ atCall' = [atCall EXCEPT ![c] = {}]
    /\ UNCHANGED <<queued, ticket, nonEmpty, sema, prodVars, cband, cseen>>

ReturnToken(c) ==
    /\ cpc[c] = "return"
    /\ sema' = sema + 1
    /\ cpc' = [cpc EXCEPT ![c] = "idle"]
    /\ atCall' = [atCall EXCEPT ![c] = {}]
    /\ UNCHANGED <<queued, ticket, nonEmpty, prodVars, cband, cseen>>

-----------------------------------------------------------------------------
Producer(p) ==
    \/ \E m \in Messages : EnqueueBand(p, m)
    \/ SetBit(p)
    \/ Signal(p)

Consumer(c) ==
    \/ AcquireToken(c)
    \/ LoadMask(c)
    \/ \E m \in Messages : TakeHead(c, m)
    \/ \E p \in Producers : PassEmptyStream(c, p)
    \/ MissBand(c)
    \/ ClearBit(c)
    \/ ReturnToken(c)

Next == (\E p \in Producers : Producer(p)) \/ (\E c \in Consumers : Consumer(c))

Spec == Init /\ [][Next]_vars

\* Threads inside a call keep running, and consumers keep calling recv().
FairSpec ==
    /\ Spec
    /\ \A p \in Producers : WF_vars(SetBit(p) \/ Signal(p))
    /\ \A c \in Consumers : WF_vars(Consumer(c))

-----------------------------------------------------------------------------
\* The types of the variables: whatever the priority of a message, the band
\* that a bit of the mask or a consumer stands for exists.
TypeOK ==
    /\ queued \in SUBSET Messages
    /\ ticket \in [Messages -> Nat]
    /\ nonEmpty \in SUBSET Bands
    /\ sema \in Nat
    /\ ppc \in [Producers -> {"idle", "setBit", "signal"}]
    /\ pmsg \in [Producers -> Messages \cup {NoMessage}]
    /\ \A p \in Producers : ppc[p] = "idle" <=> pmsg[p] = NoMessage
    /\ cpc \in [Consumers -> {"idle", "load", "try", "clear", "scan", "return"}]
    /\ cband \in [Consumers -> Bands]
    /\ cseen \in [Consumers -> SUBSET Producers]
    /\ atCall \in [Consumers -> SUBSET Messages]

\* The producers between the band enqueue and the signal, and the consumers
\* between the semaphore and the end of their call.
Entering == {p \in Producers : ppc[p] # "idle"}
Holding  == {c \in Consumers : cpc[c] # "idle"}

\* "Every enqueue signals exactly once and every message is consumed by
\* exactly one successful dequeue" (Message.h, dequeueFromBandsOrReturnToken):
\* the messages in the bands are the tokens of the semaphore, plus one for each
\* producer that has not signalled yet and one for each consumer that took a
\* token and has not taken a message yet.  So no wakeup is ever lost and no
\* token outlives its message.
TokenPerMessage ==
    Cardinality(queued) = sema + Cardinality(Entering) + Cardinality(Holding)

\* With one consumer a successful wait() always leads to a message: the path
\* of dequeueFromBandsOrReturnToken that gives the token back is not reached.
LoneConsumerFinds ==
    Cardinality(Consumers) = 1 => \A c \in Consumers : cpc[c] # "return"

\* The safety-net scan of dequeueFromBands honours priority: it never takes a
\* message while one of a higher band is queued that was there before the call.
Takes(c, m) == m \in queued /\ cpc[c] # "idle" /\ queued' = queued \ {m} /\ cpc'[c] = "idle"
ScanHonoursPriority ==
    [][\A c \in Consumers, m \in Messages :
          Takes(c, m) /\ cpc[c] = "scan" =>
              \A o \in atCall[c] \cap queued : Band(o) <= Band(m)]_vars

\* Every message whose enqueue() returned is eventually dequeued by somebody,
\* whichever bits of the mask were lost on the way.
EveryMessageDequeued ==
    \A m \in Messages : (m \in queued) ~> (ticket[m] > 0 /\ m \notin queued)

\* What the feature document says of the order: all of band N before any of
\* band N-1, for messages that are queued when the consumer asks.
HigherBandFirst ==
    [][\A c \in Consumers, m \in Messages :
          Takes(c, m) => \A o \in atCall[c] \cap queued : Band(o) <= Band(m)]_vars
=============================================================================
