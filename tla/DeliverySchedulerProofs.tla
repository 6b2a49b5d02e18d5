---------------------- MODULE DeliverySchedulerProofs -----------------------
(***************************************************************************)
(* Proofs about DeliveryScheduler, for any messages, delivery times and    *)
(* bounds: no message is lost or doubled, none is delivered early, the     *)
(* worker hands them over in order, and it misses no wakeup.               *)
(***************************************************************************)
EXTENDS DeliveryScheduler, TLAPS

\* What the worker has taken out is due, and nothing inserted before it and still
\* pending is due at the same time or earlier.
HandOK ==
    /\ \A m \in hand : DeliveryTime[m] <= now
    /\ \A m \in hand, o \in pending : ticket[o] < ticket[m] => DeliveryTime[m] < DeliveryTime[o]
    /\ \A m \in Messages : ticket[m] <= inserted

\* deliverUpToMs is a past reading of the clock, and the deadline of a wait is right
\* for what was pending when _version was read.
WaitOK ==
    /\ wpc = "deliver" => wakeAt <= now
    /\ wpc = "waitUntil" =>
          /\ startVersion <= inserted
          /\ startVersion = inserted =>
                \A m \in pending : wakeAt <= now \/ wakeAt <= DeliveryTime[m]

SchedulerInv == TypeOK /\ ExactlyOnePlace /\ HandOK /\ WaitOK /\ NoOversleep

\* The steps of the worker, of stop() and of the clock that move no message.
Moveless ==
    \/ LoopExit \/ LoopWaitEmpty \/ LoopWaitUntil \/ WakeUp \/ TimeOut \/ NoneDue
    \/ Stopper \/ Tick \/ UNCHANGED vars

-----------------------------------------------------------------------------
\* A step moves a message, or is one of those.
LEMMA Steps ==
  ASSUME [Next]_vars
  PROVE  \/ \E m \in Messages : Caller(m) \/ TakeDue(m)
         \/ EnqueueTaken \/ Moveless
  BY DEF Next, Worker, Moveless

\* A moveless step leaves all places and what was inserted alone.
LEMMA MovelessFrame ==
  ASSUME Moveless
  PROVE  /\ mpc' = mpc /\ queued' = queued /\ dropped' = dropped /\ hand' = hand
         /\ pending' = pending /\ inserted' = inserted /\ ticket' = ticket
<1> USE DEF entries, worker
<1>1. CASE LoopExit \/ LoopWaitEmpty \/ LoopWaitUntil
  BY <1>1 DEF LoopExit, LoopWaitEmpty, LoopWaitUntil
<1>2. CASE WakeUp \/ TimeOut \/ NoneDue
  BY <1>2 DEF WakeUp, TimeOut, NoneDue
<1>3. CASE Stopper
  BY <1>3 DEF Stopper, StopFlag, StopNotify, StopJoin
<1>4. CASE Tick \/ UNCHANGED vars
  BY <1>4 DEF Tick, vars
<1> QED
  BY <1>1, <1>2, <1>3, <1>4 DEF Moveless

\* The deadline of a wait is a number.
LEMMA CappedIsNat ==
  ASSUME TypeOK, NEW d \in Nat
  PROVE  CappedWaitDelta(d) \in Nat
  BY DeliverySchedulerAssumption DEF TypeOK, CappedWaitDelta

-----------------------------------------------------------------------------
\* The variables keep their types.
LEMMA TypeStep == TypeOK /\ [Next]_vars => TypeOK'
<1> SUFFICES ASSUME TypeOK, [Next]_vars PROVE TypeOK'
  OBVIOUS
<1> USE DeliverySchedulerAssumption DEF entries, worker
<1>1. ASSUME NEW m \in Messages, EnqueueDue(m) \/ FindLate(m) PROVE TypeOK'
  BY <1>1 DEF TypeOK, EnqueueDue, FindLate
<1>2. ASSUME NEW m \in Messages, EnqueueStopped(m) PROVE TypeOK'
  BY <1>2 DEF TypeOK, EnqueueStopped
<1>3. ASSUME NEW m \in Messages, Schedule(m) PROVE TypeOK'
  BY <1>3 DEF TypeOK, Schedule
<1>4. ASSUME NEW m \in Messages, NotifyOne(m) PROVE TypeOK'
  BY <1>4 DEF TypeOK, NotifyOne, Blocked
<1>5. ASSUME NEW m \in Messages, TakeDue(m) PROVE TypeOK'
  BY <1>5 DEF TypeOK, TakeDue
<1>6. CASE LoopExit \/ LoopWaitEmpty \/ NoneDue \/ EnqueueTaken
  BY <1>6, Zenon DEF TypeOK, LoopExit, LoopWaitEmpty, NoneDue, EnqueueTaken
<1>7. CASE LoopWaitUntil
  <2>1. wakeAt' \in Nat
    <3>1. PICK m \in pending : wakeAt' = now + CappedWaitDelta(DeliveryTime[m])
      BY <1>7 DEF LoopWaitUntil
    <3>2. DeliveryTime[m] \in Nat
      BY DEF TypeOK
    <3>3. CappedWaitDelta(DeliveryTime[m]) \in Nat
      BY <3>2, CappedIsNat
    <3> QED
      BY <3>1, <3>3 DEF TypeOK
  <2> QED
    BY <1>7, <2>1, Zenon DEF TypeOK, LoopWaitUntil
<1>8. CASE WakeUp \/ TimeOut
  BY <1>8, Zenon DEF TypeOK, WakeUp, TimeOut
<1>9. CASE Stopper
  BY <1>9, Zenon DEF TypeOK, Stopper, StopFlag, StopNotify, StopJoin, Blocked
<1>10. CASE Tick
  BY <1>10 DEF TypeOK, Tick
<1>11. CASE UNCHANGED vars
  BY <1>11 DEF TypeOK, vars
<1> QED
  BY <1>1, <1>2, <1>3, <1>4, <1>5, <1>6, <1>7, <1>8, <1>9, <1>10, <1>11, Steps
     DEF Moveless, Caller

\* No step loses a message, or leaves it in two places.
LEMMA PlaceStep == TypeOK /\ ExactlyOnePlace /\ [Next]_vars => ExactlyOnePlace'
<1> SUFFICES ASSUME TypeOK, ExactlyOnePlace, [Next]_vars PROVE ExactlyOnePlace'
  OBVIOUS
<1> DEFINE Somewhere(m) == m \in pending \/ m \in hand \/ m \in queued \/ m \in dropped
           OnePlace(m) ==
             /\ mpc[m] \in {"new", "late"} => ~Somewhere(m)
             /\ mpc[m] \in {"notify", "done"} => Somewhere(m)
             /\ m \in pending => m \notin hand /\ m \notin queued /\ m \notin dropped
             /\ m \in hand => m \notin queued /\ m \notin dropped
             /\ m \in queued => m \notin dropped
<1>a. \A m \in Messages : OnePlace(m)
  BY DEF ExactlyOnePlace
<1>b. SUFFICES ASSUME NEW m \in Messages PROVE OnePlace(m)'
  BY DEF ExactlyOnePlace
<1>c. OnePlace(m)
  BY <1>a
<1> HIDE DEF OnePlace
<1>1. ASSUME NEW o \in Messages, EnqueueDue(o) PROVE OnePlace(m)'
  BY <1>1, <1>c DEF OnePlace, EnqueueDue, TypeOK, entries, worker
<1>2. ASSUME NEW o \in Messages, FindLate(o) PROVE OnePlace(m)'
  BY <1>2, <1>c DEF OnePlace, FindLate, TypeOK, entries, worker
<1>3. ASSUME NEW o \in Messages, EnqueueStopped(o) PROVE OnePlace(m)'
  BY <1>3, <1>c DEF OnePlace, EnqueueStopped, TypeOK, entries, worker
<1>4. ASSUME NEW o \in Messages, Schedule(o) PROVE OnePlace(m)'
  BY <1>4, <1>c DEF OnePlace, Schedule, TypeOK
<1>5. ASSUME NEW o \in Messages, NotifyOne(o) PROVE OnePlace(m)'
  BY <1>5, <1>c DEF OnePlace, NotifyOne, TypeOK, entries, worker
<1>6. ASSUME NEW o \in Messages, TakeDue(o) PROVE OnePlace(m)'
  BY <1>6, <1>c DEF OnePlace, TakeDue, First
<1>7. CASE EnqueueTaken
  BY <1>7, <1>c DEF OnePlace, EnqueueTaken, entries
<1>8. CASE Moveless
  BY <1>8, <1>c, MovelessFrame DEF OnePlace
<1> QED
  BY <1>1, <1>2, <1>3, <1>4, <1>5, <1>6, <1>7, <1>8, Steps DEF Caller

\* What the worker holds stays due and in order: an entry inserted meanwhile is newer.
LEMMA HandStep == TypeOK /\ ExactlyOnePlace /\ HandOK /\ WaitOK /\ [Next]_vars => HandOK'
<1> SUFFICES ASSUME TypeOK, ExactlyOnePlace, HandOK, WaitOK, [Next]_vars PROVE HandOK'
  OBVIOUS
<1>a. /\ now \in Nat /\ inserted \in Nat /\ wakeAt \in Nat /\ hand \subseteq Messages
      /\ \A m \in Messages : ticket[m] \in Nat /\ DeliveryTime[m] \in Nat
  BY DeliverySchedulerAssumption DEF TypeOK
<1>1. ASSUME NEW o \in Messages, EnqueueDue(o) \/ FindLate(o) \/ EnqueueStopped(o) \/ NotifyOne(o)
      PROVE  HandOK'
  <2>1. now' = now /\ UNCHANGED entries /\ hand' = hand
    BY <1>1 DEF EnqueueDue, FindLate, EnqueueStopped, NotifyOne, worker
  <2> QED
    BY <2>1 DEF HandOK, entries
<1>2. ASSUME NEW o \in Messages, Schedule(o) PROVE HandOK'
  <2>1. /\ now' = now /\ hand' = hand /\ pending' = pending \cup {o} /\ inserted' = inserted + 1
        /\ ticket'[o] = inserted + 1 /\ \A m \in Messages \ {o} : ticket'[m] = ticket[m]
    BY <1>2 DEF Schedule, TypeOK
  <2>2. \A m \in Messages : ticket'[m] <= inserted'
    BY <2>1, <1>a DEF HandOK
  <2>3. ASSUME NEW m \in hand, NEW p \in pending', ticket'[p] < ticket'[m]
        PROVE  DeliveryTime[m] < DeliveryTime[p]
    <3>1. ticket'[m] <= inserted + 1 /\ ticket'[m] \in Nat
      BY <2>1, <2>2, <1>a
    <3>2. p # o
      BY <2>1, <2>3, <3>1, <1>a
    <3>3. p \in pending /\ p \in Messages /\ ticket'[p] = ticket[p]
      BY <2>1, <3>2 DEF TypeOK
    <3>4. CASE m # o
      BY <2>1, <2>3, <3>3, <3>4, <1>a DEF HandOK
    <3>5. CASE m = o
      BY <1>2, <3>5 DEF Schedule, ExactlyOnePlace
    <3> QED
      BY <3>4, <3>5
  <2> QED
    BY <2>1, <2>2, <2>3 DEF HandOK
<1>3. ASSUME NEW o \in Messages, TakeDue(o) PROVE HandOK'
  <2>1. /\ now' = now /\ hand' = {o} /\ pending' \subseteq pending /\ inserted' = inserted
        /\ ticket' = ticket /\ DeliveryTime[o] <= wakeAt /\ wakeAt <= now /\ First(o)
    BY <1>3 DEF TakeDue, WaitOK
  <2>2. \A p \in pending : ticket[p] < ticket[o] => DeliveryTime[o] < DeliveryTime[p]
    BY <2>1, <1>a DEF First, Before, TypeOK
  <2>3. DeliveryTime[o] <= now
    BY <2>1, <1>a
  <2> QED
    BY <2>1, <2>2, <2>3 DEF HandOK
<1>4. CASE EnqueueTaken
  BY <1>4 DEF HandOK, EnqueueTaken, entries
<1>5. CASE Moveless
  <2>1. now' = now \/ now' = now + 1
    BY <1>5 DEF Moveless, LoopExit, LoopWaitEmpty, LoopWaitUntil, WakeUp, TimeOut, NoneDue,
                Stopper, StopFlag, StopNotify, StopJoin, Tick, vars
  <2> QED
    BY <1>5, <1>a, <2>1, MovelessFrame DEF HandOK
<1> QED
  BY <1>1, <1>2, <1>3, <1>4, <1>5, Steps DEF Caller

\* A deadline is computed for the earliest entry, and an insert changes _version.
LEMMA WaitStep == TypeOK /\ WaitOK /\ [Next]_vars => WaitOK'
<1> SUFFICES ASSUME TypeOK, WaitOK, [Next]_vars PROVE WaitOK'
  OBVIOUS
<1>a. /\ now \in Nat /\ inserted \in Nat /\ wakeAt \in Nat /\ startVersion \in Nat
      /\ pending \subseteq Messages /\ \A m \in Messages : DeliveryTime[m] \in Nat
  BY DeliverySchedulerAssumption DEF TypeOK
<1>b. ASSUME now' = now, inserted' = inserted, pending' \subseteq pending, wpc' = wpc, wakeAt' = wakeAt,
             startVersion' = startVersion
      PROVE  WaitOK'
  BY <1>b DEF WaitOK
<1>c. ASSUME wpc' \notin {"waitUntil", "deliver"} PROVE WaitOK'
  BY <1>c DEF WaitOK
<1>1. ASSUME NEW o \in Messages, EnqueueDue(o) \/ FindLate(o) \/ EnqueueStopped(o) \/ NotifyOne(o)
      PROVE  WaitOK'
  BY <1>1, <1>b DEF EnqueueDue, FindLate, EnqueueStopped, NotifyOne, entries, worker
<1>2. ASSUME NEW o \in Messages, Schedule(o) PROVE WaitOK'
  <2>1. /\ now' = now /\ inserted' = inserted + 1 /\ wakeAt' = wakeAt
        /\ startVersion' = startVersion /\ (wpc' = wpc \/ wpc' = "loop")
    BY <1>2 DEF Schedule
  <2> QED
    BY <1>a, <2>1 DEF WaitOK
<1>3. ASSUME NEW o \in Messages, TakeDue(o) PROVE WaitOK'
  BY <1>3, <1>b DEF TakeDue
<1>4. CASE EnqueueTaken \/ Stopper \/ UNCHANGED vars
  BY <1>4, <1>b DEF EnqueueTaken, Stopper, StopFlag, StopNotify, StopJoin, vars, entries, worker
<1>5. CASE LoopExit \/ LoopWaitEmpty \/ NoneDue
  BY <1>5, <1>c DEF LoopExit, LoopWaitEmpty, NoneDue
<1>6. CASE LoopWaitUntil
  <2>1. PICK m \in pending : First(m) /\ wakeAt' = now + CappedWaitDelta(DeliveryTime[m])
    BY <1>6 DEF LoopWaitUntil
  <2>2. wakeAt' = now \/ wakeAt' <= DeliveryTime[m]
    BY <1>a, <2>1, DeliverySchedulerAssumption DEF CappedWaitDelta
  <2>3. \A o \in pending : DeliveryTime[m] <= DeliveryTime[o]
    BY <1>a, <2>1 DEF First, Before
  <2>4. wakeAt' \in Nat
    BY TypeStep DEF TypeOK
  <2>5. \A o \in pending : wakeAt' <= now \/ wakeAt' <= DeliveryTime[o]
    BY <1>a, <2>1, <2>2, <2>3, <2>4
  <2>6. /\ now' = now /\ pending' = pending /\ inserted' = inserted /\ startVersion' = inserted
        /\ wpc' = "waitUntil"
    BY <1>6 DEF LoopWaitUntil, entries
  <2> QED
    BY <1>a, <2>5, <2>6 DEF WaitOK
<1>7. CASE WakeUp
  <2>1. \/ wpc' = "loop"
        \/ /\ now' = now /\ pending' = pending /\ inserted' = inserted /\ wpc' = wpc
           /\ wakeAt' = wakeAt /\ startVersion' = startVersion
    BY <1>7 DEF WakeUp, entries
  <2> QED
    BY <2>1, <1>b, <1>c
<1>8. CASE TimeOut
  <2>1. now' = now /\ wakeAt' = now /\ wpc' \in {"loop", "deliver"}
    BY <1>8 DEF TimeOut
  <2> QED
    BY <1>a, <2>1 DEF WaitOK
<1>9. CASE Tick
  <2>1. /\ now' = now + 1 /\ pending' = pending /\ inserted' = inserted /\ wpc' = wpc
        /\ wakeAt' = wakeAt /\ startVersion' = startVersion
    BY <1>9 DEF Tick, entries, worker
  <2> QED
    BY <1>a, <2>1 DEF WaitOK
<1> QED
  BY <1>1, <1>2, <1>3, <1>4, <1>5, <1>6, <1>7, <1>8, <1>9, Steps DEF Moveless, Caller

\* A sleeping worker keeps a reason to sleep, or somebody who will notify it.
LEMMA OversleepStep == TypeOK /\ WaitOK /\ NoOversleep /\ [Next]_vars => NoOversleep'
<1> SUFFICES ASSUME TypeOK, WaitOK, NoOversleep, [Next]_vars, Blocked', ~Notifying'
             PROVE  /\ ~stopped'
                    /\ wpc' = "waitEmpty" => pending' = {}
                    /\ wpc' = "waitUntil" =>
                          \A m \in pending' : wakeAt' <= now' \/ wakeAt' <= DeliveryTime[m]
  BY DEF NoOversleep
<1> DEFINE Goal == /\ ~stopped'
                   /\ wpc' = "waitEmpty" => pending' = {}
                   /\ wpc' = "waitUntil" =>
                         \A m \in pending' : wakeAt' <= now' \/ wakeAt' <= DeliveryTime[m]
<1> SUFFICES Goal
  OBVIOUS
<1> HIDE DEF Goal
<1>a. ~signalled' /\ spc' # "notify" /\ \A m \in Messages : mpc'[m] # "notify"
  BY DEF Notifying
<1>b. ASSUME UNCHANGED <<now, pending, stopped, wakeAt, wpc>>, ~Notifying PROVE Goal
  BY <1>b DEF NoOversleep, Blocked, Goal
<1>1. ASSUME NEW o \in Messages, EnqueueDue(o) \/ FindLate(o) \/ EnqueueStopped(o) PROVE Goal
  <2>1. /\ UNCHANGED <<now, pending, stopped, wakeAt, wpc, signalled, spc>>
        /\ mpc[o] \in {"new", "late"} /\ \A m \in Messages \ {o} : mpc'[m] = mpc[m]
    BY <1>1 DEF EnqueueDue, FindLate, EnqueueStopped, entries, worker, TypeOK
  <2>2. ~Notifying
    BY <1>a, <2>1 DEF Notifying
  <2> QED
    BY <2>1, <2>2, <1>b
<1>2. ASSUME NEW o \in Messages, Schedule(o) PROVE Goal
  BY <1>2, <1>a DEF Schedule, TypeOK
<1>3. ASSUME NEW o \in Messages, NotifyOne(o) PROVE Goal
  BY <1>3, <1>a, Zenon DEF NotifyOne, Blocked, worker
<1>4. ASSUME NEW o \in Messages, TakeDue(o) PROVE Goal
  BY <1>4 DEF TakeDue, Blocked
<1>5. CASE LoopExit \/ NoneDue \/ EnqueueTaken \/ TimeOut
  BY <1>5 DEF LoopExit, NoneDue, EnqueueTaken, TimeOut, Blocked
<1>6. CASE LoopWaitEmpty
  BY <1>6 DEF LoopWaitEmpty, entries, Goal
<1>7. CASE LoopWaitUntil
  <2>1. WaitOK' /\ wpc' = "waitUntil" /\ startVersion' = inserted' /\ ~stopped'
    BY <1>7, WaitStep DEF LoopWaitUntil, entries
  <2> QED
    BY <2>1 DEF WaitOK, Goal
<1>8. CASE WakeUp
  <2>1. /\ ~Ready /\ wpc' = wpc
        /\ UNCHANGED <<now, pending, inserted, stopped, wakeAt, startVersion>>
    BY <1>8 DEF WakeUp, Blocked, entries
  <2> QED
    BY <2>1 DEF WaitOK, Ready, Goal
<1>9. CASE StopFlag \/ StopNotify
  BY <1>9, <1>a, Zenon DEF StopFlag, StopNotify, Blocked, worker
<1>10. CASE StopJoin \/ UNCHANGED vars
  <2>1. ~Notifying /\ UNCHANGED <<now, pending, stopped, wakeAt, wpc>>
    BY <1>10, <1>a DEF StopJoin, Notifying, vars, entries, worker
  <2> QED
    BY <2>1, <1>b
<1>11. CASE Tick
  <2>1. /\ ~Notifying /\ now' = now + 1
        /\ UNCHANGED <<pending, stopped, wakeAt, wpc>>
    BY <1>11, <1>a DEF Tick, Notifying, entries, worker
  <2>2. /\ now \in Nat /\ wakeAt \in Nat
    BY DEF TypeOK
  <2> QED
    BY <2>1, <2>2 DEF NoOversleep, Blocked, Goal
<1> QED
  BY <1>1, <1>2, <1>3, <1>4, <1>5, <1>6, <1>7, <1>8, <1>9, <1>10, <1>11, Steps
     DEF Moveless, Stopper, Caller

-----------------------------------------------------------------------------
\* The inductive invariant of enqueueOrSchedule(), run() and stop().
THEOREM SchedulerInvariant == Spec => []SchedulerInv
<1>1. Init => SchedulerInv
  <2> SUFFICES ASSUME Init PROVE SchedulerInv
    OBVIOUS
  <2>1. TypeOK
    BY Zenon DEF Init, TypeOK
  <2>2. ExactlyOnePlace
    BY DEF Init, ExactlyOnePlace
  <2>3. HandOK /\ WaitOK
    BY DEF Init, HandOK, WaitOK
  <2>4. NoOversleep
    BY DEF Init, NoOversleep, Blocked
  <2> QED
    BY <2>1, <2>2, <2>3, <2>4 DEF SchedulerInv
<1>2. SchedulerInv /\ [Next]_vars => SchedulerInv'
  BY TypeStep, PlaceStep, HandStep, WaitStep, OversleepStep DEF SchedulerInv
<1> QED
  BY <1>1, <1>2, PTL DEF Spec

\* Whatever callers, the worker and stop() do, a message that enqueueOrSchedule()
\* took is in one place: it is neither lost nor delivered twice.
THEOREM OnePlace == Spec => []ExactlyOnePlace
<1>1. SchedulerInv => ExactlyOnePlace
  BY DEF SchedulerInv
<1> QED
  BY <1>1, SchedulerInvariant, PTL

\* run() never sleeps past a stop(), past an insert or past the earliest delivery
\* time without a notification on its way.
THEOREM NoLostWakeup == Spec => []NoOversleep
<1>1. SchedulerInv => NoOversleep
  BY DEF SchedulerInv
<1> QED
  BY <1>1, SchedulerInvariant, PTL

\* No message reaches the queue of its consumer before it is due, except as
\* enqueueOrSchedule() says.
THEOREM NotEarly == Spec => NeverEarly
<1>1. SchedulerInv /\ [Next]_vars =>
        [\A m \in queued' \ queued : IsDue(m) \/ (stopped /\ m \notin Persistent)]_vars
  <2> SUFFICES ASSUME SchedulerInv, [Next]_vars, NEW m \in queued' \ queued
               PROVE  IsDue(m) \/ (stopped /\ m \notin Persistent)
    OBVIOUS
  <2>1. ASSUME NEW o \in Messages, Caller(o) PROVE IsDue(m) \/ (stopped /\ m \notin Persistent)
    <3>1. CASE EnqueueDue(o)
      BY <3>1 DEF EnqueueDue
    <3>2. CASE EnqueueStopped(o)
      BY <3>2 DEF EnqueueStopped
    <3>3. CASE FindLate(o) \/ Schedule(o) \/ NotifyOne(o)
      BY <3>3 DEF FindLate, Schedule, NotifyOne
    <3> QED
      BY <2>1, <3>1, <3>2, <3>3 DEF Caller
  <2>2. ASSUME NEW o \in Messages, TakeDue(o) PROVE FALSE
    BY <2>2 DEF TakeDue
  <2>3. CASE EnqueueTaken
    BY <2>3 DEF EnqueueTaken, SchedulerInv, HandOK, IsDue
  <2>4. CASE Moveless
    BY <2>4, MovelessFrame
  <2> QED
    BY <2>1, <2>2, <2>3, <2>4, Steps
<1> QED
  BY <1>1, SchedulerInvariant, PTL DEF Spec, NeverEarly

\* The worker hands over by delivery time, and by insertion when the times are equal.
THEOREM DueOrder == Spec => InDueOrder
<1>1. SchedulerInv /\ [Next]_vars =>
        [\A m \in hand : m \in queued' \ queued => \A o \in pending :
            ticket[o] < ticket[m] => DeliveryTime[m] < DeliveryTime[o]]_vars
  BY DEF SchedulerInv, HandOK
<1> QED
  BY <1>1, SchedulerInvariant, PTL DEF Spec, InDueOrder
=============================================================================
