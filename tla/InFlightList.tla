---------------------------- MODULE InFlightList ----------------------------
(***************************************************************************)
(* The intrusive doubly linked list of a Consumer: its messages received   *)
(* and not yet acknowledged, linked through Message::InFlightLink.         *)
(*                                                                         *)
(* The consumers of one queue run in different threads and share the       *)
(* Message objects: what one consumer puts back, another may receive at    *)
(* once and link into a chain of its own.  An action is a part of a call   *)
(* that touches nothing another thread can see in between; recover() is    *)
(* cut where redeliver() makes a message visible again, acknowledgeOn()    *)
(* where the chain has given up its reference to the message.              *)
(***************************************************************************)
EXTENDS Integers

CONSTANTS
    Consumers,     \* of one queue, each with its session and thread
    Tracking,      \* those in CLIENT_, DUPS_OK_ or INDIVIDUAL_ACKNOWLEDGE mode
    Messages,      \* the Message objects
    Null,          \* nullptr
    MaxReceives    \* bound: calls of recv() that return a message

ASSUME InFlightListAssumption ==
    /\ Tracking \subseteq Consumers
    /\ Null \notin Messages /\ Null \notin Consumers
    /\ MaxReceives \in Nat

VARIABLES
    head, tail,          \* _inFlightHead (owning) and _inFlightTail
    next, prev, owner,   \* _inFlightLink of each message; next is owning
    queued,              \* the messages in the queue of the consumers
    held,                \* those the application has a Message::Ptr to
    made,                \* those that were created
    pc,                  \* what each consumer is doing
    node, following,     \* the walk of recover() and clearInFlight(): node and next
    target, self,        \* acknowledgeOn(): its message, and the reference it pins
    stamp, received      \* history: when each message was linked, and the count

links == <<next, prev, owner>>
ends == <<head, tail>>
walk == <<node, following>>
ack == <<target, self>>
history == <<stamp, received>>
vars == <<ends, links, queued, held, made, pc, walk, ack, history>>

NoMessage == [c \in Consumers |-> Null]

Init ==
    /\ head = NoMessage /\ tail = NoMessage
    /\ next = [m \in Messages |-> Null]
    /\ prev = [m \in Messages |-> Null]
    /\ owner = [m \in Messages |-> Null]
    /\ queued = {} /\ held = {} /\ made = {}
    /\ pc = [c \in Consumers |-> "idle"]
    /\ node = NoMessage /\ following = NoMessage
    /\ target = NoMessage /\ self = NoMessage
    /\ stamp = [m \in Messages |-> 0] /\ received = 0

-----------------------------------------------------------------------------
(* The application and the queue.                                          *)

\* Unused objects are alike: any fixed order of creation stands for all.
Fresh(m) == m \notin made /\ m = CHOOSE x \in Messages : x \notin made

\* A message is created and put into the queue: its link is empty.
Send(m) ==
    /\ Fresh(m)
    /\ made' = made \cup {m} /\ queued' = queued \cup {m}
    /\ UNCHANGED <<ends, links, held, pc, walk, ack, history>>

\* The application sends a message it has received: preparePush() copies it, and
\* copying an InFlightLink gives an empty one, whatever m is linked into.
Forward(m, n) ==
    /\ m \in held /\ Fresh(n)
    /\ made' = made \cup {n} /\ queued' = queued \cup {n}
    /\ next' = [next EXCEPT ![n] = Null]
    /\ prev' = [prev EXCEPT ![n] = Null]
    /\ owner' = [owner EXCEPT ![n] = Null]
    /\ UNCHANGED <<ends, held, pc, walk, ack, history>>

\* The application drops its Message::Ptr, except to the argument of a call.
Drop(m) ==
    /\ m \in held /\ \A c \in Consumers : target[c] # m
    /\ held' = held \ {m}
    /\ UNCHANGED <<ends, links, queued, made, pc, walk, ack, history>>

-----------------------------------------------------------------------------
(* recv().                                                                 *)

Dequeue(c, m) ==
    /\ pc[c] = "idle" /\ m \in queued /\ received < MaxReceives
    /\ queued' = queued \ {m} /\ held' = held \cup {m}
    /\ received' = received + 1
    /\ UNCHANGED <<made, pc, walk, ack>>

RecvTracked(c, m) ==
    /\ c \in Tracking /\ Dequeue(c, m)
    /\ IF tail[c] # Null
       THEN /\ next' = [next EXCEPT ![tail[c]] = m]
            /\ prev' = [prev EXCEPT ![m] = tail[c]]
            /\ UNCHANGED head
       ELSE /\ prev' = [prev EXCEPT ![m] = Null]
            /\ head' = [head EXCEPT ![c] = m]
            /\ UNCHANGED next
    /\ tail' = [tail EXCEPT ![c] = m]
    /\ owner' = [owner EXCEPT ![m] = c]
    /\ stamp' = [stamp EXCEPT ![m] = received']

RecvUntracked(c, m) ==
    /\ c \notin Tracking /\ Dequeue(c, m)
    /\ UNCHANGED <<ends, links, stamp>>

-----------------------------------------------------------------------------
(* acknowledgeOn().                                                        *)

Tracks(c, m) == owner[m] = c

Unlink(c, m) ==
    /\ IF prev[m] # Null
       THEN next' = [next EXCEPT ![prev[m]] = next[m], ![m] = Null] /\ UNCHANGED head
       ELSE next' = [next EXCEPT ![m] = Null] /\ head' = [head EXCEPT ![c] = next[m]]
    /\ IF next[m] # Null
       THEN prev' = [prev EXCEPT ![next[m]] = prev[m], ![m] = Null] /\ UNCHANGED tail
       ELSE prev' = [prev EXCEPT ![m] = Null] /\ tail' = [tail EXCEPT ![c] = prev[m]]
    /\ owner' = [owner EXCEPT ![m] = Null]

\* Mutant: the reference of the chain is dropped without keeping another one.
AcknowledgeUnpinned(c, m) ==
    /\ pc[c] = "idle" /\ Tracks(c, m)
    /\ Unlink(c, m)
    /\ pc' = [pc EXCEPT ![c] = "ack"]
    /\ target' = [target EXCEPT ![c] = m]
    /\ UNCHANGED <<queued, held, made, walk, self, history>>

Acknowledge(c, m) ==
    /\ pc[c] = "idle" /\ Tracks(c, m)
    /\ self' = [self EXCEPT ![c] = IF prev[m] # Null THEN next[prev[m]] ELSE head[c]]
    /\ Unlink(c, m)
    /\ pc' = [pc EXCEPT ![c] = "ack"]
    /\ target' = [target EXCEPT ![c] = m]
    /\ UNCHANGED <<queued, held, made, walk, history>>

\* Acknowledged again, on another consumer, or not tracked at all: no chain changes.
AcknowledgeOther(c, m) ==
    /\ pc[c] = "idle" /\ m \in held /\ ~Tracks(c, m)
    /\ UNCHANGED vars

\* The rest of the call reads the message (its record is removed elsewhere).
AckReturn(c) ==
    /\ pc[c] = "ack"
    /\ pc' = [pc EXCEPT ![c] = "idle"]
    /\ target' = [target EXCEPT ![c] = Null] /\ self' = [self EXCEPT ![c] = Null]
    /\ UNCHANGED <<ends, links, queued, held, made, walk, history>>

-----------------------------------------------------------------------------
(* recover() and clearInFlight().                                          *)

\* In AUTO_ACKNOWLEDGE mode the chain is empty and there is nothing to walk.
DetachChain(c, state) ==
    /\ c \in Tracking /\ pc[c] = "idle"
    /\ pc' = [pc EXCEPT ![c] = state]
    /\ node' = [node EXCEPT ![c] = head[c]]
    /\ head' = [head EXCEPT ![c] = Null] /\ tail' = [tail EXCEPT ![c] = Null]
    /\ UNCHANGED <<links, queued, held, made, following, ack, history>>

\* Session::recover() reaches every consumer that is not transacted.
RecoverBegin(c) == DetachChain(c, "recover")

ClearLinks(m) ==
    /\ next' = [next EXCEPT ![m] = Null]
    /\ prev' = [prev EXCEPT ![m] = Null]
    /\ owner' = [owner EXCEPT ![m] = Null]

\* Mutant: the links are left for later, when the message is already requeued.
RecoverNodeKeepsLinks(c) ==
    /\ pc[c] = "recover" /\ node[c] # Null
    /\ following' = [following EXCEPT ![c] = next[node[c]]]
    /\ owner' = [owner EXCEPT ![node[c]] = Null]
    /\ pc' = [pc EXCEPT ![c] = "redeliver"]
    /\ UNCHANGED <<ends, next, prev, queued, held, made, node, ack, history>>

RecoverNode(c) ==
    /\ pc[c] = "recover" /\ node[c] # Null
    /\ following' = [following EXCEPT ![c] = next[node[c]]]
    /\ ClearLinks(node[c])
    /\ pc' = [pc EXCEPT ![c] = "redeliver"]
    /\ UNCHANGED <<ends, queued, held, made, node, ack, history>>

\* redeliver(): back into the queue (at once or through the scheduler), or, above
\* the limit, into the dead-letter queue as a copy.
Redeliver(c) ==
    /\ pc[c] = "redeliver"
    /\ queued' \in {queued, queued \cup {node[c]}}
    /\ node' = [node EXCEPT ![c] = following[c]]
    /\ following' = [following EXCEPT ![c] = Null]
    /\ pc' = [pc EXCEPT ![c] = "recover"]
    /\ UNCHANGED <<ends, links, held, made, ack, history>>

RecoverReturn(c) ==
    /\ pc[c] = "recover" /\ node[c] = Null
    /\ pc' = [pc EXCEPT ![c] = "idle"]
    /\ UNCHANGED <<ends, links, queued, held, made, walk, ack, history>>

\* ~Consumer() drops what is still in flight without redelivering it.
ClearBegin(c) == DetachChain(c, "clear")

\* Mutant: the loop ends at the last node instead of after it.
ClearNodeButLast(c) ==
    /\ pc[c] = "clear" /\ node[c] # Null /\ next[node[c]] # Null
    /\ node' = [node EXCEPT ![c] = next[node[c]]]
    /\ ClearLinks(node[c])
    /\ UNCHANGED <<ends, queued, held, made, pc, following, ack, history>>

ClearNode(c) ==
    /\ pc[c] = "clear" /\ node[c] # Null
    /\ node' = [node EXCEPT ![c] = next[node[c]]]
    /\ ClearLinks(node[c])
    /\ UNCHANGED <<ends, queued, held, made, pc, following, ack, history>>

\* Mutant: the head is reset and the chain left to unwind by itself.
ClearReturnEarly(c) ==
    /\ pc[c] = "clear"
    /\ pc' = [pc EXCEPT ![c] = "gone"]
    /\ UNCHANGED <<ends, links, queued, held, made, walk, ack, history>>

ClearReturn(c) ==
    /\ pc[c] = "clear" /\ node[c] = Null
    /\ pc' = [pc EXCEPT ![c] = "gone"]
    /\ UNCHANGED <<ends, links, queued, held, made, walk, ack, history>>

-----------------------------------------------------------------------------
Call(c) ==
    \/ AckReturn(c)
    \/ RecoverNode(c) \/ Redeliver(c) \/ RecoverReturn(c)
    \/ ClearNode(c) \/ ClearReturn(c)

Next ==
    \/ \E m \in Messages : Send(m) \/ Drop(m) \/ \E n \in Messages : Forward(m, n)
    \/ \E c \in Consumers :
          \/ RecoverBegin(c) \/ ClearBegin(c) \/ Call(c)
          \/ \E m \in Messages :
                \/ RecvTracked(c, m) \/ RecvUntracked(c, m)
                \/ Acknowledge(c, m) \/ AcknowledgeOther(c, m)

Spec == Init /\ [][Next]_vars

-----------------------------------------------------------------------------
(* Properties.                                                             *)

States == {"idle", "ack", "recover", "redeliver", "clear", "gone"}

TypeOK ==
    /\ head \in [Consumers -> Messages \cup {Null}]
    /\ tail \in [Consumers -> Messages \cup {Null}]
    /\ next \in [Messages -> Messages \cup {Null}]
    /\ prev \in [Messages -> Messages \cup {Null}]
    /\ owner \in [Messages -> Tracking \cup {Null}]
    /\ queued \subseteq made /\ held \subseteq made /\ made \subseteq Messages
    /\ pc \in [Consumers -> States]
    /\ node \in [Consumers -> Messages \cup {Null}]
    /\ following \in [Consumers -> Messages \cup {Null}]
    /\ target \in [Consumers -> Messages \cup {Null}]
    /\ self \in [Consumers -> Messages \cup {Null}]
    /\ stamp \in [Messages -> Nat] /\ received \in Nat

Flight(c) == {m \in Messages : owner[m] = c}
Draining == {c \in Consumers : pc[c] \in {"recover", "redeliver", "clear"}}

\* The pointer surgery implements the promise of InFlightSet: acknowledging on the
\* wrong consumer changes nothing, a copy is in flight nowhere, and recover() and
\* the destructor hand back exactly what is left, oldest first, to the last one.
Promise == INSTANCE InFlightSet WITH
    flight <- [c \in Consumers |-> Flight(c)], draining <- Draining

ImplementsPromise == Promise!Spec

\* "_inFlightHead owns the chain; _inFlightTail is a non-owning back-pointer.  Empty
\* iff both are null/nullptr" (Consumer.h): between calls the chain of a consumer
\* runs from head to tail over exactly its messages in the order of receipt, and
\* prev is the inverse of next.
Before(m, o) == owner[m] = owner[o] /\ stamp[m] < stamp[o]

IsNext(m, o) == Before(m, o) /\ \A x \in Messages : ~(Before(m, x) /\ Before(x, o))

ChainInOrder == \A c \in Consumers : pc[c] \in {"idle", "ack"} =>
    /\ head[c] = Null <=> Flight(c) = {}
    /\ tail[c] = Null <=> Flight(c) = {}
    /\ \A m \in Flight(c) :
          /\ head[c] = m <=> ~\E o \in Messages : Before(o, m)
          /\ tail[c] = m <=> ~\E o \in Messages : Before(m, o)
          /\ \A o \in Messages : next[m] = o <=> IsNext(m, o)
          /\ \A o \in Messages : prev[m] = o <=> IsNext(o, m)

Referenced(m) ==
    \/ m \in queued \/ m \in held
    \/ \E c \in Consumers : m \in {head[c], node[c], following[c], self[c]}
    \/ \E o \in Messages : owner[o] # Null /\ next[o] = m

\* A message in flight, and one that a running acknowledgeOn() still reads, has an
\* owning reference, although the application may have dropped its own (the chain
\* "keeps every in-flight message alive", Message.h; "self keeps message alive until
\* it goes out of scope", Consumer.cpp).
InUseIsAlive ==
    /\ \A m \in Messages : owner[m] # Null => Referenced(m)
    /\ \A c \in Consumers : target[c] # Null => Referenced(target[c])

\* recover() and the destructor do not get stuck on their chain, also while other
\* consumers receive what they put back and link it anew: in the middle of a walk
\* there is a next step.  By ImplementsPromise what is in flight only shrinks during
\* a walk and the walk ends when nothing is left, so every walk ends.
WalkGoesOn == \A c \in Draining : ENABLED Call(c)
=============================================================================
