---- MODULE SubSchedulerProofs ----
(***************************************************************************)
(* Proofs about SubScheduler, for any subscriptions, workers and request   *)
(* threads: a feed takes at most one worker of the pool, and its refreshes *)
(* do not overlap.                                                         *)
(***************************************************************************)
EXTENDS SubScheduler, FiniteSetTheorems, TLAPS

\* A thread that refreshes has a subscription; a worker has nothing else to do after it; and
\* what a tick has yet to submit is not in flight.
Shape ==
    /\ \A t \in Thread : thread[t].at # "idle" => thread[t].of \in Sub
    /\ \A t \in Worker : thread[t].todo = {}
    /\ tick = "submit" => unsent \cap inflight = {}

\* A refresh that is queued or that a worker runs is tracked, until stop() forgets it.
Tracked ==
    stop = "done" \/
    \A s \in Sub : Queued(s) # {} \/ Workers(s) # {} => s \in inflight /\ future[s] = "pending"

\* Unless a lock was pruned under a thread about to take it, all threads that refresh a
\* subscription have fetched the lock object the table names.
OneLock ==
    orphaned \/ \A t \in Thread :
        thread[t].at # "idle" => locks[thread[t].of] # 0 /\ thread[t].lock = locks[thread[t].of]

\* A thread in the middle of a refresh.
Busy(s, l, todo) == [at |-> "wait", of |-> s, lock |-> l, todo |-> todo]

ThreadType ==
    /\ thread \in [Thread -> [at : {"idle", "wait", "work", "hung"}, of : Sub \cup {None},
                              lock : Lock \cup {0}, todo : SUBSET Sub]]
    /\ \A t \in Thread : (thread[t].at = "idle") = (thread[t] = Idle)
    /\ locks \in [Sub -> Lock \cup {0}]

TickType ==
    /\ sub \in [Sub -> Listed \cup {"unborn", "gone"}] /\ ripe \in [Sub -> BOOLEAN]
    /\ tick \in {"idle", "listed", "submit", "wait"}
    /\ known \subseteq Sub /\ unsent \subseteq Sub /\ batch \subseteq Sub /\ inflight \subseteq Sub
    /\ events \in 0..MaxEvents /\ orphaned \in BOOLEAN

PoolType ==
    /\ future \in [Sub -> Landed \cup {"none", "pending"}] /\ queue \in Seq(Sub)
    /\ pool \in {"none", "open"} /\ stop \in {"no", "drain", "done"}

LEMMA TypeParts == TypeOK <=> ThreadType /\ TickType /\ PoolType
BY DEF TypeOK, ThreadType, TickType, PoolType

\* There are more lock objects than threads, so one that no thread has is left.
LEMMA FreshLock ==
    ASSUME ThreadType, NEW s \in Sub
    PROVE  \E l \in Lock : \A u \in Thread : thread[u].of = s => thread[u].lock # l
<1> DEFINE taken == {thread[u].lock : u \in Thread}
<1>1. IsFiniteSet(Thread)
  BY SchedulerAssumption, FS_Union, Zenon DEF SchedulerAssumption, Thread
<1>2. IsFiniteSet(taken) /\ Cardinality(taken) <= Cardinality(Thread)
  <2> DEFINE f == [u \in Thread |-> thread[u].lock]
  <2>1. f \in Surjection(Thread, taken)
    BY DEF Surjection
  <2> QED BY <2>1, <1>1, FS_Surjection
<1>3. Cardinality(Thread) \in Nat
  BY <1>1, FS_CardinalityType
<1>4. IsFiniteSet(Lock) /\ Cardinality(Lock) = Cardinality(Thread) + 1
  <2> DEFINE n == Cardinality(Thread)
  <2>1. n \in Nat
    BY <1>3
  <2> HIDE DEF n
  <2>2. IsFiniteSet(1..(n + 1)) /\ Cardinality(1..(n + 1)) = n + 1
    BY <2>1, FS_Interval
  <2> QED BY <2>2 DEF Lock, n
<1>5. ~(Lock \subseteq taken)
  <2> SUFFICES ASSUME Lock \subseteq taken PROVE FALSE
    OBVIOUS
  <2>1. Cardinality(Lock) <= Cardinality(taken)
    BY <1>2, FS_Subset
  <2>2. Cardinality(taken) \in Nat
    BY <1>2, FS_CardinalityType
  <2> QED BY <2>1, <2>2, <1>2, <1>3, <1>4
<1> QED BY <1>5

\* _refresh_lock: the lock object in the table, or a new one that is put there.
LEMMA BeginFacts ==
    ASSUME ThreadType, NEW t \in Thread, NEW s \in Sub, NEW todo \in SUBSET Sub,
           Begin(t, s, todo)
    PROVE  \E l \in Lock :
               /\ thread' = [thread EXCEPT ![t] = Busy(s, l, todo)]
               /\ locks' = [locks EXCEPT ![s] = l]
               /\ locks[s] # 0 => l = locks[s]
<1> DEFINE fresh == CHOOSE l \in Lock : \A u \in Thread : thread[u].of = s => thread[u].lock # l
           lock == IF locks[s] = 0 THEN fresh ELSE locks[s]
<1>1. fresh \in Lock
  BY FreshLock
<1>2. lock \in Lock /\ (locks[s] # 0 => lock = locks[s])
  BY <1>1 DEF ThreadType
<1>3. thread' = [thread EXCEPT ![t] = Busy(s, lock, todo)] /\ locks' = [locks EXCEPT ![s] = lock]
  BY DEF Begin, Busy
<1> QED BY <1>2, <1>3, Zenon

\* No thread is both a worker and a request's.
LEMMA ThreadsApart == Worker \subseteq Thread /\ Manual \subseteq Thread /\ Worker \cap Manual = {}
BY SchedulerAssumption DEF SchedulerAssumption, Thread

\* What one step does to the queue of each subscription.
LEMMA AppendQueued ==
    ASSUME queue \in Seq(Sub), NEW x \in Sub, queue' = Append(queue, x), NEW s \in Sub
    PROVE  /\ s # x => Queued(s)' = Queued(s)
           /\ Queued(x) = {} => \A i, j \in Queued(x)' : i = j
<1>1. /\ DOMAIN queue' = 1..(Len(queue) + 1) /\ DOMAIN queue = 1..Len(queue) /\ Len(queue) \in Nat
      /\ queue'[Len(queue) + 1] = x
      /\ \A i \in 1..Len(queue) : queue'[i] = queue[i]
  OBVIOUS
<1> QED BY <1>1 DEF Queued

LEMMA TailQueued ==
    ASSUME queue \in Seq(Sub), queue # <<>>, queue' = Tail(queue), NEW s \in Sub,
           \A i, j \in Queued(s) : i = j
    PROVE  /\ Head(queue) \in Sub /\ Queued(Head(queue)) # {} /\ queue' \in Seq(Sub)
           /\ Queued(s) = {} => Queued(s)' = {}
           /\ s = Head(queue) => Queued(s)' = {}
           /\ \A i, j \in Queued(s)' : i = j
<1>1. /\ Len(queue) \in Nat /\ Len(queue) > 0 /\ Head(queue) = queue[1] /\ Head(queue) \in Sub
      /\ DOMAIN queue = 1..Len(queue) /\ DOMAIN queue' = 1..(Len(queue) - 1)
      /\ \A i \in 1..(Len(queue) - 1) : queue'[i] = queue[i + 1]
      /\ queue' \in Seq(Sub)
  OBVIOUS
<1>2. 1 \in Queued(Head(queue))
  BY <1>1 DEF Queued
<1>3. \A i \in Queued(s)' : i \in Nat /\ i >= 1 /\ i + 1 \in Queued(s)
  BY <1>1 DEF Queued
<1>4. s = Head(queue) => Queued(s)' = {}
  BY <1>2, <1>3
<1> QED BY <1>1, <1>2, <1>3, <1>4

-----------------------------------------------------------------------------
(* What a step does to the threads                                         *)

\* A thread fetches a lock object, takes it, hangs, or is done.
Fetches(t, s, l, todo) ==
    /\ thread' = [thread EXCEPT ![t] = Busy(s, l, todo)]
    /\ locks' = [locks EXCEPT ![s] = l]
    /\ locks[s] # 0 => l = locks[s]
Takes(t) ==
    /\ thread[t].at = "wait" /\ ~Held(thread[t].of, thread[t].lock)
    /\ thread' = [thread EXCEPT ![t].at = "work"] /\ locks' = locks
Hangs(t) == thread[t].at = "work" /\ thread' = [thread EXCEPT ![t].at = "hung"] /\ locks' = locks
Leaves(t) == thread' = [thread EXCEPT ![t] = Idle] /\ locks' = locks

ThreadStep(t) ==
    \/ \E s \in Sub : \E l \in Lock : \E todo \in SUBSET Sub : Fetches(t, s, l, todo)
    \/ Takes(t) \/ Hangs(t) \/ Leaves(t)

\* Every step moves one thread in one of these ways, prunes, or leaves the threads alone.
LEMMA ThreadCases ==
    ASSUME ThreadType, PoolType, [Next]_vars
    PROVE  \/ thread' = thread /\ locks' = locks /\ orphaned' = orphaned
           \/ Due
           \/ orphaned' = orphaned /\ \E t \in Thread : ThreadStep(t)
<1> USE DEF ThreadStep
<1>1. CASE UNCHANGED vars
  BY <1>1 DEF vars, work
<1>2. CASE Tick
  BY <1>2, Zenon DEF Tick, StartTick, SubmitFails, Submit, Collect, GiveUp, work
<1>3. CASE Take
  <2>1. PICK t \in Worker : Begin(t, Head(queue), {})
    BY <1>3 DEF Take
  <2>2. Head(queue) \in Sub /\ t \in Thread /\ {} \in SUBSET Sub /\ orphaned' = orphaned
    BY <1>3, ThreadsApart DEF Take, PoolType
  <2>3. \E l \in Lock : Fetches(t, Head(queue), l, {})
    BY <2>1, <2>2, BeginFacts DEF Fetches
  <2> QED BY <2>2, <2>3
<1>4. ASSUME NEW t \in Thread, Acquire(t) PROVE Takes(t) /\ orphaned' = orphaned
  BY <1>4 DEF Acquire, Takes
<1>5. ASSUME NEW t \in Thread, Hang(t) PROVE Hangs(t) /\ orphaned' = orphaned
  BY <1>5 DEF Hang, Hangs
<1>6. ASSUME NEW t \in Thread, Finish(t) PROVE ThreadStep(t) /\ orphaned' = orphaned
  <2>1. CASE Leaves(t)
    BY <2>1, <1>6 DEF Finish
  <2>2. CASE \E s \in thread[t].todo : Begin(t, s, thread[t].todo \ {s})
    <3>1. PICK s \in thread[t].todo : Begin(t, s, thread[t].todo \ {s})
      BY <2>2
    <3>2. s \in Sub /\ thread[t].todo \ {s} \in SUBSET Sub
      BY <3>1 DEF ThreadType
    <3>3. \E l \in Lock : Fetches(t, s, l, thread[t].todo \ {s})
      BY <3>1, <3>2, BeginFacts DEF Fetches
    <3> QED BY <3>2, <3>3, <1>6 DEF Finish
  <2> QED BY <1>6, <2>1, <2>2 DEF Finish, GoOn, Leaves
<1>7. CASE BeginStop \/ EndStop \/ \E s \in Sub : Ripen(s)
  BY <1>7 DEF BeginStop, EndStop, Ripen, work
<1>8. CASE Request
  <2>1. CASE \E s \in Sub : \E as \in Listed \cup {"gone"} : Edit(s, as)
    BY <2>1 DEF Edit, work
  <2>2. ASSUME NEW t \in Manual, NEW S \in SUBSET Sub, Demand(t, S)
        PROVE  ThreadStep(t) /\ orphaned' = orphaned
    <3>1. PICK s \in S : Begin(t, s, S \ {s})
      BY <2>2, Zenon DEF Demand
    <3>2. \E l \in Lock : Fetches(t, s, l, S \ {s})
      BY <3>1, ThreadsApart, BeginFacts DEF Fetches
    <3> QED BY <2>2, <3>2 DEF Demand
  <2> QED BY <1>8, <2>1, <2>2, ThreadsApart DEF Request
<1> QED BY <1>1, <1>2, <1>3, <1>4, <1>5, <1>6, <1>7, <1>8 DEF Next, Refresh

LEMMA ThreadTypeStep ==
    ASSUME ThreadType, PoolType, [Next]_vars
    PROVE  ThreadType'
<1>1. CASE thread' = thread /\ locks' = locks
  BY <1>1 DEF ThreadType
<1>2. CASE Due
  BY <1>2 DEF Due, ThreadType
<1>3. ASSUME NEW t \in Thread, ThreadStep(t) PROVE ThreadType'
  <2>1. ASSUME NEW s \in Sub, NEW l \in Lock, NEW todo \in SUBSET Sub, Fetches(t, s, l, todo)
        PROVE  ThreadType'
    BY <2>1, Zenon DEF Fetches, ThreadType, Busy, Idle
  <2>2. CASE Takes(t)
    BY <2>2, Zenon DEF Takes, ThreadType, Idle
  <2>3. CASE Hangs(t)
    BY <2>3, Zenon DEF Hangs, ThreadType, Idle
  <2>4. CASE Leaves(t)
    BY <2>4, Zenon DEF Leaves, ThreadType, Idle
  <2> QED BY <1>3, <2>1, <2>2, <2>3, <2>4 DEF ThreadStep
<1> QED BY <1>1, <1>2, <1>3, ThreadCases

LEMMA PoolTypeStep ==
    ASSUME ThreadType, TickType, PoolType, Shape, [Next]_vars
    PROVE  PoolType'
<1>1. CASE UNCHANGED <<future, queue, pool, stop>>
  BY <1>1 DEF PoolType
<1>2. CASE StartTick
  BY <1>2 DEF StartTick, Score, PoolType, Landed
<1>3. CASE Due
  BY <1>3 DEF Due, PoolType
<1>4. ASSUME NEW s \in Sub, Submit(s) \/ Collect(s) PROVE PoolType'
  BY <1>4 DEF Submit, Collect, Score, PoolType, Landed
<1>5. CASE Take
  <2>1. queue' \in Seq(Sub)
    BY <1>5 DEF Take, PoolType
  <2> QED BY <1>5, <2>1 DEF Take, PoolType
<1>6. ASSUME NEW t \in Thread, Finish(t) PROVE PoolType'
  <2>1. thread[t].of \in Sub
    BY <1>6 DEF Finish, Shape
  <2> QED BY <1>6, <2>1 DEF Finish, PoolType, Landed
<1>7. CASE BeginStop
  <2>1. queue' \in Seq(Sub)
    BY <1>7 DEF BeginStop
  <2>2. future' \in [Sub -> Landed \cup {"none", "pending"}]
    BY <1>7 DEF BeginStop, PoolType, Landed
  <2> QED BY <1>7, <2>1, <2>2 DEF BeginStop, PoolType
<1>13. CASE EndStop
  BY <1>13 DEF EndStop, PoolType
<1>8. ASSUME NEW t \in Thread, Acquire(t) \/ Hang(t) PROVE UNCHANGED <<future, queue, pool, stop>>
  BY <1>8 DEF Acquire, Hang
<1>9. CASE Request \/ \E s \in Sub : Ripen(s)
  BY <1>9, <1>1 DEF Request, Edit, Demand, Ripen, work
<1>10. ASSUME NEW s \in Sub, GiveUp(s) \/ SubmitFails PROVE UNCHANGED <<future, queue, pool, stop>>
  BY <1>10 DEF GiveUp, SubmitFails, work
<1>11. CASE SubmitFails
  BY <1>11, <1>1 DEF SubmitFails, work
<1>12. CASE UNCHANGED vars
  BY <1>12, <1>1 DEF vars, work
<1> QED BY <1>1, <1>2, <1>3, <1>4, <1>5, <1>6, <1>7, <1>8, <1>9, <1>10, <1>11, <1>12, <1>13
        DEF Next, Refresh, Tick

LEMMA TickTypeStep ==
    ASSUME ThreadType, TickType, PoolType, Shape, [Next]_vars
    PROVE  TickType'
<1> USE SchedulerAssumption DEF SchedulerAssumption
<1>1. CASE UNCHANGED <<sub, ripe, tick, known, unsent, batch, inflight, events, orphaned>>
  BY <1>1 DEF TickType
<1>2. CASE StartTick
  BY <1>2 DEF StartTick, Score, Reaped, TickType, world
<1>3. CASE Due
  BY <1>3 DEF Due, TickType, world
<1>4. ASSUME NEW s \in Sub, Submit(s) PROVE TickType'
  BY <1>4 DEF Submit, TickType, world
<1>5. ASSUME NEW s \in Sub, Collect(s) \/ GiveUp(s) PROVE TickType'
  BY <1>5, Zenon DEF Collect, GiveUp, Waited, Score, TickType, world
<1>6. CASE SubmitFails
  BY <1>6 DEF SubmitFails, TickType, world
<1>7. CASE Take
  BY <1>7, <1>1 DEF Take, world
<1>8. ASSUME NEW t \in Thread, Acquire(t) PROVE TickType'
  BY <1>8, <1>1 DEF Acquire, world
<1>9. ASSUME NEW t \in Thread, Finish(t) PROVE TickType'
  <2>1. thread[t].of \in Sub
    BY <1>9 DEF Finish, Shape
  <2>2. ripe' \in [Sub -> BOOLEAN]
    BY <1>9, <2>1, Zenon DEF Finish, TickType
  <2> QED BY <1>9, <2>2 DEF Finish, TickType, world
<1>10. ASSUME NEW t \in Thread, Hang(t) PROVE TickType'
  BY <1>10 DEF Hang, Spend, TickType
<1>11. CASE BeginStop
  BY <1>11 DEF BeginStop, Spend, TickType
<1>12. CASE EndStop
  BY <1>12 DEF EndStop, TickType, world
<1>13. ASSUME NEW s \in Sub, NEW as \in Listed \cup {"gone"}, Edit(s, as) PROVE TickType'
  <2>1. sub' \in [Sub -> Listed \cup {"unborn", "gone"}]
    BY <1>13, Zenon DEF Edit, TickType
  <2>2. events' \in 0..MaxEvents
    BY <1>13 DEF Edit, Spend, TickType
  <2> QED BY <1>13, <2>1, <2>2, Zenon DEF Edit, TickType
<1>14. ASSUME NEW t \in Manual, NEW S \in SUBSET Sub, Demand(t, S) PROVE TickType'
  BY <1>14 DEF Demand, Spend, TickType
<1>15. ASSUME NEW s \in Sub, Ripen(s) PROVE TickType'
  BY <1>15 DEF Ripen, TickType, world
<1>16. CASE UNCHANGED vars
  BY <1>16, <1>1 DEF vars, world
<1> QED BY <1>2, <1>3, <1>4, <1>5, <1>6, <1>7, <1>8, <1>9, <1>10, <1>11, <1>12, <1>13, <1>14,
           <1>15, <1>16
        DEF Next, Refresh, Tick, Request

-----------------------------------------------------------------------------
(* One refresh at a time                                                   *)

\* Pruning spares a lock that is held, and notes one that a thread is about to take; a
\* thread that begins fetches the lock of the table, and only one can hold it.
LEMMA LockStep ==
    ASSUME ThreadType, PoolType, TickType, Shape, OneLock, OneRefreshAtATime, [Next]_vars
    PROVE  OneLock' /\ OneRefreshAtATime'
<1> USE DEF OneLock, OneRefreshAtATime
<1>1. CASE thread' = thread /\ locks' = locks /\ orphaned' = orphaned
  BY <1>1
<1>2. CASE Due
  <2> SUFFICES ASSUME ~orphaned' PROVE OneLock' /\ OneRefreshAtATime'
    OBVIOUS
  <2>1. thread' = thread /\ ~orphaned
    BY <1>2 DEF Due, TickType
  <2>2. ASSUME NEW t \in Thread, thread[t].at # "idle"
        PROVE  locks'[thread[t].of] = locks[thread[t].of]
    <3>1. thread[t].of \in Sub /\ thread[t].lock = locks[thread[t].of]
      BY <2>1, <2>2 DEF Shape
    <3>2. thread[t].of \in known \/ Held(thread[t].of, thread[t].lock)
      <4>1. CASE thread[t].at = "wait"
        BY <1>2, <4>1, Zenon DEF Due
      <4>2. CASE thread[t].at \in {"work", "hung"}
        BY <4>2 DEF Held, Holds
      <4> QED BY <2>2, <4>1, <4>2 DEF ThreadType
    <3>3. ~Prunable(thread[t].of)
      BY <3>1, <3>2 DEF Prunable
    <3> QED BY <1>2, <3>1, <3>3 DEF Due
  <2> QED BY <2>1, <2>2
<1>3. ASSUME NEW t \in Thread, ThreadStep(t), orphaned' = orphaned
      PROVE  OneLock' /\ OneRefreshAtATime'
  <2> SUFFICES ASSUME ~orphaned PROVE OneLock' /\ OneRefreshAtATime'
    BY <1>3
  <2>1. ASSUME NEW s \in Sub, NEW l \in Lock, NEW todo \in SUBSET Sub, Fetches(t, s, l, todo)
        PROVE  OneLock' /\ OneRefreshAtATime'
    <3>1. l # 0
      BY SchedulerAssumption DEF Lock
    <3>2. \A u \in Thread : u # t => thread'[u] = thread[u]
      BY <2>1 DEF Fetches, ThreadType
    <3>3. thread'[t] = Busy(s, l, todo)
      BY <2>1 DEF Fetches, ThreadType
    <3>4. locks'[s] = l /\ \A x \in Sub : x # s => locks'[x] = locks[x]
      BY <2>1 DEF Fetches, ThreadType
    <3>5. locks[s] # 0 => l = locks[s]
      BY <2>1 DEF Fetches
    <3>6. OneLock'
      BY <3>1, <3>2, <3>3, <3>4, <3>5 DEF Busy, Shape
    <3>7. OneRefreshAtATime'
      BY <3>2, <3>3 DEF Busy
    <3> QED BY <3>6, <3>7
  <2>2. CASE Takes(t)
    <3>1. \A u \in Thread : u # t => thread'[u] = thread[u]
      BY <2>2 DEF Takes, ThreadType
    <3>2. thread'[t].of = thread[t].of /\ thread'[t].lock = thread[t].lock /\ thread[t].at # "idle"
      BY <2>2 DEF Takes, ThreadType
    <3>3. \A u \in Thread : thread[u].at \in {"work", "hung"} => thread[u].of # thread[t].of
      BY <2>2, <3>2 DEF Takes, Held, Holds
    <3> QED BY <2>2, <3>1, <3>2, <3>3 DEF Takes
  <2>3. CASE Hangs(t)
    <3>1. \A u \in Thread : u # t => thread'[u] = thread[u]
      BY <2>3 DEF Hangs, ThreadType
    <3>2. thread'[t].of = thread[t].of /\ thread'[t].lock = thread[t].lock /\ thread[t].at = "work"
      BY <2>3 DEF Hangs, ThreadType
    <3> QED BY <2>3, <3>1, <3>2 DEF Hangs
  <2>4. CASE Leaves(t)
    <3>1. \A u \in Thread : u # t => thread'[u] = thread[u]
      BY <2>4 DEF Leaves, ThreadType
    <3>2. thread'[t].at = "idle"
      BY <2>4 DEF Leaves, ThreadType, Idle
    <3> QED BY <2>4, <3>1, <3>2 DEF Leaves
  <2> QED BY <1>3, <2>1, <2>2, <2>3, <2>4 DEF ThreadStep
<1> QED BY <1>1, <1>2, <1>3, ThreadCases

-----------------------------------------------------------------------------
(* One worker per feed                                                     *)

\* What a step of a thread means for the pool: an idle worker takes the head of the queue,
\* a worker is done, or every worker stays with the refresh it has.
StaysPut == \A w \in Worker : thread'[w].of = thread[w].of /\ thread'[w].todo = thread[w].todo

TakesHead ==
    /\ queue # <<>> /\ queue' = Tail(queue)
    /\ UNCHANGED <<tick, unsent, inflight, future, stop>>
    /\ \E t \in Worker : /\ thread[t] = Idle
                         /\ \A w \in Worker : w # t => thread'[w] = thread[w]
                         /\ thread'[t].of = Head(queue) /\ thread'[t].todo = {}

Done(t) ==
    /\ thread[t].of \in Sub /\ future' = [future EXCEPT ![thread[t].of] = "done"]
    /\ \A w \in Worker : w # t => thread'[w] = thread[w]
    /\ thread'[t] = Idle
    /\ UNCHANGED <<tick, unsent, inflight, queue, stop>>

LEMMA TakeStep ==
    ASSUME ThreadType, PoolType, Take
    PROVE  TakesHead
<1>1. PICK t \in Worker : thread[t].at = "idle" /\ Begin(t, Head(queue), {})
  BY DEF Take
<1>2. Head(queue) \in Sub /\ t \in Thread /\ {} \in SUBSET Sub
  BY ThreadsApart DEF Take, PoolType
<1>3. PICK l \in Lock : thread' = [thread EXCEPT ![t] = Busy(Head(queue), l, {})]
  BY <1>1, <1>2, BeginFacts
<1>4. thread[t] = Idle
  BY <1>1, <1>2 DEF ThreadType
<1>5. thread'[t].of = Head(queue) /\ thread'[t].todo = {}
  BY <1>2, <1>3 DEF ThreadType, Busy
<1>6. \A w \in Worker : w # t => thread'[w] = thread[w]
  BY <1>2, <1>3, ThreadsApart DEF ThreadType
<1> QED BY <1>4, <1>5, <1>6 DEF Take, TakesHead

LEMMA FinishStep ==
    ASSUME ThreadType, PoolType, Shape, NEW t \in Thread, Finish(t)
    PROVE  IF t \in Worker THEN Done(t)
           ELSE StaysPut /\ UNCHANGED <<tick, unsent, inflight, future, queue, stop>>
<1>1. thread[t].of \in Sub
  BY DEF Finish, Shape
<1>2. CASE t \in Worker
  <2>1. thread' = [thread EXCEPT ![t] = Idle]
    BY <1>2 DEF Finish, GoOn, Shape
  <2> QED BY <1>1, <1>2, <2>1, ThreadsApart DEF Finish, Done, ThreadType
<1>3. CASE t \notin Worker
  <2>1. \A w \in Worker : thread'[w] = thread[w]
    BY <1>3, ThreadsApart DEF Finish, GoOn, Begin, ThreadType
  <2> QED BY <1>3, <2>1 DEF Finish, StaysPut
<1> QED BY <1>2, <1>3

LEMMA DemandStep ==
    ASSUME ThreadType, NEW t \in Manual, NEW S \in SUBSET Sub, Demand(t, S)
    PROVE  StaysPut /\ UNCHANGED <<tick, unsent, inflight, future, queue, stop>>
<1>1. \A w \in Worker : thread'[w] = thread[w]
  BY ThreadsApart DEF Demand, Begin, ThreadType
<1> QED BY <1>1 DEF Demand, StaysPut

LEMMA ShapeStep ==
    ASSUME ThreadType, TickType, PoolType, Shape, [Next]_vars
    PROVE  Shape'
<1>1. \A t \in Thread : thread'[t].at # "idle" => thread'[t].of \in Sub
  <2>1. CASE thread' = thread
    BY <2>1 DEF Shape
  <2>2. ASSUME NEW t \in Thread, ThreadStep(t)
        PROVE  \A u \in Thread : thread'[u].at # "idle" => thread'[u].of \in Sub
    BY <2>2 DEF ThreadStep, Fetches, Takes, Hangs, Leaves, Busy, Idle, Shape, ThreadType
  <2> QED BY <2>1, <2>2, ThreadCases DEF Due
<1>2. /\ \A t \in Worker : thread'[t].todo = {}
      /\ tick' = "submit" => unsent' \cap inflight' = {}
  <2> DEFINE Goal == /\ \A t \in Worker : thread'[t].todo = {}
                     /\ tick' = "submit" => unsent' \cap inflight' = {}
  <2>1. CASE UNCHANGED <<thread, tick, unsent, inflight>>
    BY <2>1 DEF Shape
  <2>2. CASE Tick
    BY <2>2, Zenon DEF Tick, StartTick, Due, SubmitFails, Submit, Collect, GiveUp, Waited, Shape, work
  <2>3. CASE TakesHead
    BY <2>3 DEF TakesHead, Shape
  <2>4. ASSUME NEW t \in Thread, Acquire(t) \/ Hang(t) PROVE Goal
    BY <2>4, ThreadsApart DEF Acquire, Hang, Shape, ThreadType
  <2>5. ASSUME NEW t \in Worker, Done(t) PROVE Goal
    BY <2>5 DEF Done, Shape, Idle
  <2>6. CASE StaysPut /\ UNCHANGED <<tick, unsent, inflight>>
    BY <2>6 DEF StaysPut, Shape
  <2>7. CASE BeginStop \/ EndStop \/ \E s \in Sub : Ripen(s)
    BY <2>7 DEF BeginStop, EndStop, Ripen, Shape, work
  <2>8. ASSUME NEW s \in Sub, NEW as \in Listed \cup {"gone"}, Edit(s, as) PROVE Goal
    BY <2>8, <2>1 DEF Edit, work
  <2>9. CASE UNCHANGED vars
    BY <2>9, <2>1 DEF vars, work
  <2> QED BY <2>2, <2>3, <2>4, <2>5, <2>6, <2>7, <2>8, <2>9, TakeStep, FinishStep, DemandStep
          DEF Next, Refresh, Request
<1> QED BY <1>1, <1>2 DEF Shape

\* Both of them, for one subscription.
Tidy(s) ==
    /\ Queued(s) # {} \/ Workers(s) # {} => s \in inflight /\ future[s] = "pending"
    /\ \A i, j \in Queued(s) : i = j
    /\ \A t, u \in Workers(s) : t = u
    /\ Queued(s) = {} \/ Workers(s) = {}

LEMMA TidyParts == (Tracked /\ OneWorkerPerFeed) <=> (stop = "done" \/ \A s \in Sub : Tidy(s))
BY DEF Tracked, OneWorkerPerFeed, Tidy

\* A refresh is submitted only when none of it is in flight, moves from the queue to one
\* worker, and stays tracked until its future has landed.
LEMMA PoolStep ==
    ASSUME ThreadType, TickType, PoolType, Shape, [Next]_vars, stop # "done", stop' # "done",
           \A s \in Sub : Tidy(s), NEW s \in Sub
    PROVE  Tidy(s)'
<1>0. Tidy(s)
  OBVIOUS
<1>1. ASSUME StaysPut, queue' = queue
      PROVE  Workers(s)' = Workers(s) /\ Queued(s)' = Queued(s)
  BY <1>1 DEF StaysPut, Workers, Queued
<1>2. ASSUME StaysPut, queue' = queue,
             s \in inflight /\ future[s] = "pending" => s \in inflight' /\ future'[s] = "pending"
      PROVE  Tidy(s)'
  BY <1>0, <1>1, <1>2 DEF Tidy
<1>3. ASSUME UNCHANGED thread PROVE StaysPut
  BY <1>3 DEF StaysPut
<1>4. CASE StartTick \/ \E x \in Sub : Collect(x)
  BY <1>2, <1>3, <1>4 DEF StartTick, Collect, Score, Reaped, Landed, PoolType, TickType
<1>5. CASE Due \/ SubmitFails \/ \E x \in Sub : GiveUp(x)
  BY <1>2, <1>3, <1>5, Zenon DEF Due, SubmitFails, GiveUp, work
<1>6. ASSUME NEW x \in Sub, Submit(x) PROVE Tidy(s)'
  <2>1. x \in unsent /\ x \notin inflight
    BY <1>6 DEF Submit, Shape
  <2>2. Queued(x) = {} /\ Workers(x) = {}
    BY <2>1 DEF Tidy
  <2>3. Workers(s)' = Workers(s)
    BY <1>6 DEF Submit, Workers
  <2>4. /\ s # x => Queued(s)' = Queued(s)
        /\ \A i, j \in Queued(x)' : i = j
    BY <1>6, <2>2, AppendQueued DEF Submit, PoolType
  <2>5. /\ x \in inflight' /\ inflight \subseteq inflight' /\ future'[x] = "pending"
        /\ s # x => future'[s] = future[s]
    BY <1>6 DEF Submit, PoolType
  <2>6. CASE s = x
    BY <2>2, <2>3, <2>4, <2>5, <2>6 DEF Tidy
  <2>7. CASE s # x
    BY <1>0, <2>3, <2>4, <2>5, <2>7 DEF Tidy
  <2> QED BY <2>6, <2>7
<1>7. CASE TakesHead
  <2>1. PICK t \in Worker : /\ thread[t] = Idle /\ thread'[t].of = Head(queue)
                            /\ \A w \in Worker : w # t => thread'[w] = thread[w]
    BY <1>7 DEF TakesHead
  <2>2. /\ Head(queue) \in Sub /\ Queued(Head(queue)) # {}
        /\ Queued(s) = {} => Queued(s)' = {}
        /\ s = Head(queue) => Queued(s)' = {}
        /\ \A i, j \in Queued(s)' : i = j
    BY <1>0, <1>7, TailQueued DEF TakesHead, PoolType, Tidy
  <2>3. t \notin Workers(s)
    BY <2>1, SchedulerAssumption DEF Workers, Idle, SchedulerAssumption
  <2>4. s # Head(queue) => Workers(s)' = Workers(s)
    BY <2>1, <2>3 DEF Workers
  <2>5. s = Head(queue) => Workers(s)' = {t}
    <3>1. s = Head(queue) => Workers(s) = {}
      BY <1>0, <2>2 DEF Tidy
    <3> QED BY <2>1, <3>1 DEF Workers
  <2>6. inflight' = inflight /\ future' = future
    BY <1>7 DEF TakesHead
  <2> QED BY <1>0, <2>2, <2>4, <2>5, <2>6 DEF Tidy
<1>8. ASSUME NEW t \in Worker, Done(t) PROVE Tidy(s)'
  <2> DEFINE x == thread[t].of
  <2>1. x \in Sub /\ t \in Workers(x) /\ Queued(s)' = Queued(s) /\ inflight' = inflight
    BY <1>8 DEF Done, Workers, Queued
  <2>2. Workers(x) = {t} /\ Queued(x) = {}
    BY <2>1 DEF Tidy
  <2>3. CASE s = x
    <3>1. Workers(s)' = {}
      BY <1>8, <2>2, <2>3, SchedulerAssumption DEF Done, Workers, Idle, SchedulerAssumption
    <3> QED BY <2>1, <2>2, <2>3, <3>1 DEF Tidy
  <2>4. CASE s # x
    <3>1. Workers(s)' = Workers(s)
      BY <1>8, <2>4, SchedulerAssumption DEF Done, Workers, Idle, SchedulerAssumption
    <3>2. future'[s] = future[s]
      BY <1>8, <2>4 DEF Done, PoolType
    <3> QED BY <1>0, <2>1, <3>1, <3>2 DEF Tidy
  <2> QED BY <2>3, <2>4
<1>9. CASE StaysPut /\ UNCHANGED <<inflight, future, queue>>
  BY <1>2, <1>9
<1>10. ASSUME NEW t \in Thread, Acquire(t) \/ Hang(t) PROVE Tidy(s)'
  <2>1. StaysPut
    BY <1>10, ThreadsApart DEF Acquire, Hang, ThreadType, StaysPut
  <2> QED BY <1>2, <1>10, <2>1 DEF Acquire, Hang
<1>11. CASE BeginStop
  <2>1. Workers(s)' = Workers(s) /\ Queued(s)' = {} /\ inflight' = inflight
    BY <1>11 DEF BeginStop, Workers, Queued
  <2>2. Queued(s) = {} => future'[s] = future[s]
    BY <1>11 DEF BeginStop, Queued
  <2> QED BY <1>0, <2>1, <2>2 DEF Tidy
<1>12. CASE \E x \in Sub : Ripen(x)
  BY <1>2, <1>3, <1>12 DEF Ripen, work
<1>13. ASSUME NEW x \in Sub, NEW as \in Listed \cup {"gone"}, Edit(x, as) PROVE Tidy(s)'
  BY <1>2, <1>3, <1>13 DEF Edit, work
<1>14. CASE UNCHANGED vars
  BY <1>2, <1>3, <1>14 DEF vars, work
<1>15. ~EndStop
  BY DEF EndStop
<1> QED BY <1>4, <1>5, <1>6, <1>7, <1>8, <1>9, <1>10, <1>11, <1>12, <1>13, <1>14, <1>15,
           TakeStep, FinishStep, DemandStep
        DEF Next, Tick, Refresh, Request

-----------------------------------------------------------------------------

SInv == TypeOK /\ Shape /\ Tracked /\ OneWorkerPerFeed /\ OneLock /\ OneRefreshAtATime

LEMMA SInvInit == Init => SInv
<1> SUFFICES ASSUME Init PROVE SInv
  OBVIOUS
<1> USE SchedulerAssumption DEF SchedulerAssumption, Init
<1>1. ThreadType
  BY DEF ThreadType, Idle
<1>2. TickType
  <2>1. events \in 0..MaxEvents
    OBVIOUS
  <2>2. sub \in [Sub -> Listed \cup {"unborn", "gone"}]
    BY DEF Listed
  <2> QED BY <2>1, <2>2, Zenon DEF TickType
<1>3. PoolType
  BY DEF PoolType
<1>4. Shape
  BY ThreadsApart DEF Shape, Idle
<1>5. \A s \in Sub : Queued(s) = {} /\ Workers(s) = {}
  BY ThreadsApart DEF Queued, Workers, Idle
<1>6. Tracked /\ OneWorkerPerFeed
  BY <1>5 DEF Tracked, OneWorkerPerFeed
<1>7. OneLock /\ OneRefreshAtATime
  BY DEF OneLock, OneRefreshAtATime, Idle
<1> QED BY <1>1, <1>2, <1>3, <1>4, <1>6, <1>7, TypeParts DEF SInv

LEMMA SInvStep == SInv /\ [Next]_vars => SInv'
<1> SUFFICES ASSUME SInv, [Next]_vars PROVE SInv'
  OBVIOUS
<1>1. ThreadType /\ TickType /\ PoolType /\ Shape /\ OneLock /\ OneRefreshAtATime
  BY TypeParts DEF SInv
<1>2. ThreadType' /\ TickType' /\ PoolType'
  BY <1>1, ThreadTypeStep, TickTypeStep, PoolTypeStep
<1>3. TypeOK'
  BY <1>2 DEF TypeOK, ThreadType, TickType, PoolType
<1>4. Shape'
  BY <1>1, ShapeStep
<1>5. OneLock' /\ OneRefreshAtATime'
  BY <1>1, LockStep
<1>6. stop = "done" => stop' = "done"
  BY Zenon DEF Next, Tick, StartTick, Due, SubmitFails, Submit, Collect, GiveUp, Take, Refresh, Acquire,
         Finish, Hang, BeginStop, EndStop, Request, Edit, Demand, Ripen, vars, work
<1>7. stop' = "done" \/ \A s \in Sub : Tidy(s)'
  BY <1>1, <1>6, PoolStep, TidyParts DEF SInv
<1>8. Tracked' /\ OneWorkerPerFeed'
  BY <1>7 DEF Tracked, OneWorkerPerFeed, Tidy
<1> QED BY <1>3, <1>4, <1>5, <1>8 DEF SInv

LEMMA SInvHolds == Spec => []SInv
BY SInvInit, SInvStep, PTL DEF Spec

\* For any number of feeds and workers the variables keep their types; in particular there is
\* always a lock object left for a refresh that begins.
THEOREM TypeCorrect == Spec => []TypeOK
<1>1. SInv => TypeOK
  BY DEF SInv
<1> QED BY <1>1, SInvHolds, PTL

\* scheduler.py, due_subs and run_once: whatever times out, lands late, is paused or deleted, a
\* feed has at most one refresh queued or running in the pool until stop() has ended, so a pool of
\* any size is not used up by repeats of one bad feed.
THEOREM OneFeedOneWorker == Spec => []OneWorkerPerFeed
<1>1. SInv => OneWorkerPerFeed
  BY DEF SInv
<1> QED BY <1>1, SInvHolds, PTL

\* service.py, _refresh_lock and prune_refresh_locks: for any feeds, workers and requests, two
\* refreshes of a feed do not overlap unless a lock was pruned while a thread that had fetched
\* it was about to take it.
THEOREM RefreshesDoNotOverlap == Spec => []OneRefreshAtATime
<1>1. SInv => OneRefreshAtATime
  BY DEF SInv
<1> QED BY <1>1, SInvHolds, PTL
====
