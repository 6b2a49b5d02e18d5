------------------------- MODULE DeliveryScheduler -------------------------
(***************************************************************************)
(* DeliveryScheduler: holds delayed messages of a destination until they   *)
(* are due.                                                                *)
(*                                                                         *)
(* Any thread may call enqueueOrSchedule(); a lazily started worker sleeps *)
(* on a condition variable until the earliest delivery time; stop() ends   *)
(* the worker.  A section under _mutex is one action.  Notifying is a step *)
(* of its own after the section, and a notification reaches the worker     *)
(* only if it is blocked at that moment.                                   *)
(***************************************************************************)
EXTENDS Integers

CONSTANTS
    Messages,      \* each is given to enqueueOrSchedule() once
    DeliveryTime,  \* jmsHeaders.deliveryTime of each message, 0 for none
    Persistent,    \* the persistent messages
    MaxFuture,     \* kMaxFutureHeaderMs
    MaxWait,       \* kMaxWaitMs
    MaxTime        \* bound: the clock

ASSUME DeliverySchedulerAssumption ==
    /\ DeliveryTime \in [Messages -> Nat]
    /\ Persistent \subseteq Messages
    /\ MaxFuture \in Nat /\ MaxWait \in Nat \ {0} /\ MaxTime \in Nat

VARIABLES
    now,           \* the clock
    mpc,           \* the thread that brings each message: "new", "late" (about
                   \* to lock), "notify" (about to notify) or "done"
    pending,       \* _pending
    inserted,      \* _version: number of inserts
    ticket,        \* the _version each pending message was inserted with
    queued,        \* the messages given to the consumer's queue
    dropped,       \* the messages given up after stop()
    started,       \* _threadStarted
    stopped,       \* _stop and _stopped
    spc,           \* the thread in stop()
    wpc,           \* the worker
    wakeAt, startVersion,  \* its deadline, and the _version it has seen
    signalled,     \* a notification has reached the blocked worker
    hand           \* the messages it took out to deliver, at most one

entries == <<pending, inserted, ticket>>
worker == <<wpc, wakeAt, startVersion, hand>>
vars == <<now, mpc, entries, queued, dropped, started, stopped, spc, worker, signalled>>

Init ==
    /\ now = 1
    /\ mpc = [m \in Messages |-> "new"]
    /\ pending = {} /\ inserted = 0 /\ ticket = [m \in Messages |-> 0]
    /\ queued = {} /\ dropped = {}
    /\ started = FALSE /\ stopped = FALSE /\ spc = "idle"
    /\ wpc = "none" /\ wakeAt = 0 /\ startVersion = 0 /\ hand = {}
    /\ signalled = FALSE

Blocked == wpc \in {"waitEmpty", "waitUntil"}

-----------------------------------------------------------------------------
(* enqueueOrSchedule().                                                    *)

\* A delivery time too far in the future is taken for garbage.
Sane(m) == DeliveryTime[m] - now <= MaxFuture
IsDue(m) == DeliveryTime[m] = 0 \/ ~Sane(m) \/ DeliveryTime[m] <= now

EnqueueDue(m) ==
    /\ mpc[m] = "new" /\ IsDue(m)
    /\ mpc' = [mpc EXCEPT ![m] = "done"]
    /\ queued' = queued \cup {m}
    /\ UNCHANGED <<now, entries, dropped, started, stopped, spc, worker, signalled>>

FindLate(m) ==
    /\ mpc[m] = "new" /\ ~IsDue(m)
    /\ mpc' = [mpc EXCEPT ![m] = "late"]
    /\ UNCHANGED <<now, entries, queued, dropped, started, stopped, spc, worker, signalled>>

\* Mutant: after stop() every message is delivered at once.
EnqueueStoppedAll(m) ==
    /\ mpc[m] = "late" /\ stopped
    /\ mpc' = [mpc EXCEPT ![m] = "done"]
    /\ queued' = queued \cup {m}
    /\ UNCHANGED <<now, entries, dropped, started, stopped, spc, worker, signalled>>

\* After stop() a persistent message is left to a future replay; any other is
\* delivered at once rather than lost.
EnqueueStopped(m) ==
    /\ mpc[m] = "late" /\ stopped
    /\ mpc' = [mpc EXCEPT ![m] = "done"]
    /\ IF m \in Persistent
       THEN dropped' = dropped \cup {m} /\ UNCHANGED queued
       ELSE queued' = queued \cup {m} /\ UNCHANGED dropped
    /\ UNCHANGED <<now, entries, started, stopped, spc, worker, signalled>>

\* Mutant: the version is not incremented.
ScheduleSameVersion(m) ==
    /\ mpc[m] = "late" /\ ~stopped
    /\ mpc' = [mpc EXCEPT ![m] = "notify"]
    /\ pending' = pending \cup {m}
    /\ ticket' = [ticket EXCEPT ![m] = inserted + 1]
    /\ started' = TRUE
    /\ wpc' = IF started THEN wpc ELSE "loop"
    /\ UNCHANGED <<now, inserted, queued, dropped, stopped, spc, wakeAt, startVersion, hand,
                   signalled>>

Schedule(m) ==
    /\ mpc[m] = "late" /\ ~stopped
    /\ mpc' = [mpc EXCEPT ![m] = "notify"]
    /\ pending' = pending \cup {m}
    /\ inserted' = inserted + 1
    /\ ticket' = [ticket EXCEPT ![m] = inserted + 1]
    /\ started' = TRUE
    /\ wpc' = IF started THEN wpc ELSE "loop"
    /\ UNCHANGED <<now, queued, dropped, stopped, spc, wakeAt, startVersion, hand, signalled>>

NotifyOne(m) ==
    /\ mpc[m] = "notify"
    /\ mpc' = [mpc EXCEPT ![m] = "done"]
    /\ signalled' = (signalled \/ Blocked)
    /\ UNCHANGED <<now, entries, queued, dropped, started, stopped, spc, worker>>

-----------------------------------------------------------------------------
(* run().                                                                  *)

\* The entry that begin() of the multimap shows: the earliest, and the first
\* inserted among equals.
Before(m, o) ==
    \/ DeliveryTime[m] < DeliveryTime[o]
    \/ DeliveryTime[m] = DeliveryTime[o] /\ ticket[m] <= ticket[o]

\* Mutant: entries with equal times in reverse order of insertion.
FirstNewest(m) ==
    m \in pending /\ \A o \in pending :
        \/ DeliveryTime[m] < DeliveryTime[o]
        \/ DeliveryTime[m] = DeliveryTime[o] /\ ticket[m] >= ticket[o]

First(m) == m \in pending /\ \A o \in pending : Before(m, o)

CappedWaitDelta(deadline) ==
    IF deadline <= now THEN 0
    ELSE IF deadline >= now + MaxWait THEN MaxWait ELSE deadline - now

\* Mutant: the worker leaves only when nothing is pending.
LoopExitDrained ==
    /\ wpc = "loop" /\ stopped /\ pending = {}
    /\ wpc' = "exited"
    /\ UNCHANGED <<now, mpc, entries, queued, dropped, started, stopped, spc, wakeAt,
                   startVersion, hand, signalled>>

LoopExit ==
    /\ wpc = "loop" /\ stopped
    /\ wpc' = "exited"
    /\ UNCHANGED <<now, mpc, entries, queued, dropped, started, stopped, spc, wakeAt,
                   startVersion, hand, signalled>>

LoopWaitEmpty ==
    /\ wpc = "loop" /\ ~stopped /\ pending = {}
    /\ wpc' = "waitEmpty"
    /\ signalled' = FALSE
    /\ UNCHANGED <<now, mpc, entries, queued, dropped, started, stopped, spc, wakeAt,
                   startVersion, hand>>

LoopWaitUntil ==
    /\ wpc = "loop" /\ ~stopped
    /\ \E m \in pending : First(m) /\ wakeAt' = now + CappedWaitDelta(DeliveryTime[m])
    /\ startVersion' = inserted
    /\ wpc' = "waitUntil"
    /\ signalled' = FALSE
    /\ UNCHANGED <<now, mpc, entries, queued, dropped, started, stopped, spc, hand>>

\* The predicates of the two waits.
Ready ==
    \/ stopped
    \/ wpc = "waitEmpty" /\ pending # {}
    \/ wpc = "waitUntil" /\ inserted # startVersion

\* A notified worker takes the lock and looks at the predicate again.
WakeUp ==
    /\ Blocked /\ signalled
    /\ signalled' = FALSE
    /\ wpc' = IF Ready THEN "loop" ELSE wpc
    /\ UNCHANGED <<now, mpc, entries, queued, dropped, started, stopped, spc, wakeAt,
                   startVersion, hand>>

\* Mutant: a worker whose deadline has passed looks for the next entry.
TimeOutLoops ==
    /\ wpc = "waitUntil" /\ now >= wakeAt
    /\ signalled' = FALSE
    /\ wpc' = "loop"
    /\ wakeAt' = now
    /\ UNCHANGED <<now, mpc, entries, queued, dropped, started, stopped, spc,
                   startVersion, hand>>

\* The deadline has passed: deliver, unless the predicate has become true.
TimeOut ==
    /\ wpc = "waitUntil" /\ now >= wakeAt
    /\ signalled' = FALSE
    /\ wpc' = IF Ready THEN "loop" ELSE "deliver"
    /\ wakeAt' = now
    /\ UNCHANGED <<now, mpc, entries, queued, dropped, started, stopped, spc,
                   startVersion, hand>>

\* deliverUpToMs is the clock at the time-out; wakeAt holds it here.
TakeDue(m) ==
    /\ wpc = "deliver" /\ hand = {}
    /\ First(m) /\ DeliveryTime[m] <= wakeAt
    /\ pending' = pending \ {m}
    /\ hand' = {m}
    /\ UNCHANGED <<now, mpc, inserted, ticket, queued, dropped, started, stopped, spc,
                   wpc, wakeAt, startVersion, signalled>>

\* Mutant: the entry is erased from the map only after it was delivered.
EnqueueTakenTwice ==
    /\ wpc = "deliver" /\ hand # {}
    /\ queued' = queued \cup hand
    /\ wpc' = "loop"
    /\ UNCHANGED <<now, mpc, entries, hand, dropped, started, stopped, spc, wakeAt,
                   startVersion, signalled>>

EnqueueTaken ==
    /\ wpc = "deliver" /\ hand # {}
    /\ queued' = queued \cup hand
    /\ hand' = {}
    /\ UNCHANGED <<now, mpc, entries, dropped, started, stopped, spc, wpc, wakeAt,
                   startVersion, signalled>>

NoneDue ==
    /\ wpc = "deliver" /\ hand = {}
    /\ \A m \in pending : DeliveryTime[m] > wakeAt
    /\ wpc' = "loop"
    /\ UNCHANGED <<now, mpc, entries, queued, dropped, started, stopped, spc, wakeAt,
                   startVersion, hand, signalled>>

-----------------------------------------------------------------------------
(* stop().                                                                 *)

StopFlag ==
    /\ spc = "idle" /\ ~stopped
    /\ stopped' = TRUE
    /\ spc' = "notify"
    /\ UNCHANGED <<now, mpc, entries, queued, dropped, started, worker, signalled>>

StopNotify ==
    /\ spc = "notify"
    /\ spc' = "join"
    /\ signalled' = (signalled \/ Blocked)
    /\ UNCHANGED <<now, mpc, entries, queued, dropped, started, stopped, worker>>

StopJoin ==
    /\ spc = "join" /\ (started => wpc = "exited")
    /\ spc' = "done"
    /\ UNCHANGED <<now, mpc, entries, queued, dropped, started, stopped, worker, signalled>>

Tick ==
    /\ now < MaxTime
    /\ now' = now + 1
    /\ UNCHANGED <<mpc, entries, queued, dropped, started, stopped, spc, worker, signalled>>
-----------------------------------------------------------------------------
Caller(m) == EnqueueDue(m) \/ FindLate(m) \/ EnqueueStopped(m) \/ Schedule(m) \/ NotifyOne(m)

Worker ==
    \/ LoopExit \/ LoopWaitEmpty \/ LoopWaitUntil \/ WakeUp \/ TimeOut
    \/ (\E m \in Messages : TakeDue(m)) \/ EnqueueTaken \/ NoneDue

Stopper == StopFlag \/ StopNotify \/ StopJoin

Next == (\E m \in Messages : Caller(m)) \/ Worker \/ Stopper \/ Tick

Spec == Init /\ [][Next]_vars

\* Time passes, the worker runs when it can, and a thread that is inside
\* enqueueOrSchedule() or stop() goes on.
FairSpec ==
    /\ Spec
    /\ WF_vars(Tick) /\ WF_vars(Worker) /\ WF_vars(StopNotify \/ StopJoin)
    /\ \A m \in Messages : WF_vars(mpc[m] # "new" /\ Caller(m))

-----------------------------------------------------------------------------
\* The types of the variables; the deadline of a wait is never negative.
TypeOK ==
    /\ now \in Nat
    /\ mpc \in [Messages -> {"new", "late", "notify", "done"}]
    /\ pending \in SUBSET Messages /\ inserted \in Nat /\ ticket \in [Messages -> Nat]
    /\ queued \in SUBSET Messages /\ dropped \in SUBSET Messages
    /\ started \in BOOLEAN /\ stopped \in BOOLEAN /\ signalled \in BOOLEAN
    /\ spc \in {"idle", "notify", "join", "done"}
    /\ wpc \in {"none", "loop", "waitEmpty", "waitUntil", "deliver", "exited"}
    /\ wakeAt \in Nat /\ startVersion \in Nat
    /\ hand \in SUBSET Messages

\* A message becomes visible to consumers only when it is due.  The exceptions
\* are those of the code: a delivery time beyond the sanity bound, and a
\* non-persistent message that comes after stop(); a persistent one never does,
\* since an early acknowledgement would erase its record and its delay.
NeverEarly ==
    [][\A m \in queued' \ queued : IsDue(m) \/ (stopped /\ m \notin Persistent)]_vars

\* Every message that enqueueOrSchedule() took is in one place: nothing is lost
\* or delivered twice while callers, the worker and stop() interleave.
ExactlyOnePlace ==
    \A m \in Messages :
        /\ mpc[m] \in {"new", "late"} => m \notin pending \cup hand \cup queued \cup dropped
        /\ mpc[m] \in {"notify", "done"} =>
               \E place \in {pending, hand, queued, dropped} : m \in place
        /\ m \in pending => m \notin hand \cup queued \cup dropped
        /\ m \in hand => m \notin queued \cup dropped
        /\ m \in queued => m \notin dropped

\* No wakeup is lost: a worker that is asleep has been notified, or somebody is
\* about to notify it, or it sleeps for a good reason: no stop, and nothing
\* pending that is due before its deadline.
Notifying == signalled \/ spc = "notify" \/ \E m \in Messages : mpc[m] = "notify"
NoOversleep ==
    Blocked /\ ~Notifying =>
        /\ ~stopped
        /\ wpc = "waitEmpty" => pending = {}
        /\ wpc = "waitUntil" =>
               \A m \in pending : wakeAt <= now \/ wakeAt <= DeliveryTime[m]

\* The worker hands messages over by delivery time, and by order of insertion
\* when the times are equal.
InDueOrder ==
    [][\A m \in hand : m \in queued' \ queued => \A o \in pending :
          ticket[o] < ticket[m] => DeliveryTime[m] < DeliveryTime[o]]_vars

\* Every scheduled message is delivered unless the scheduler is stopped.
ScheduledAreDelivered ==
    \A m \in Messages :
        (m \in pending /\ DeliveryTime[m] <= MaxTime) ~> (m \in queued \/ stopped)

\* stop() returns: the worker notices the flag wherever it is.
StopReturns == (spc # "idle") ~> (spc = "done")
=============================================================================
