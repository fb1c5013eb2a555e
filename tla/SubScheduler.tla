---- MODULE SubScheduler ----
(***************************************************************************)
(* When subscriptions are refreshed, and by whom: subs/scheduler.py, and   *)
(* the per-subscription lock of subs/service.py.                           *)
(*                                                                         *)
(* A tick lists the subscriptions, submits the due ones to a small pool    *)
(* and waits for the batch up to one deadline; a refresh it stopped        *)
(* waiting for stays tracked until it lands.  Routes refresh on demand in  *)
(* threads of their own.  stop() runs beside a tick that was already       *)
(* handed to the executor.  What a refresh does is SubRefresh; here it     *)
(* ends well, fails, or hangs.                                             *)
(*                                                                         *)
(* Time is abstract: a subscription is ripe once its interval, or the      *)
(* backoff after a failure, has passed.                                    *)
(***************************************************************************)
EXTENDS Naturals, Sequences, FiniteSets

CONSTANTS
    Sub,        \* subscription ids
    Worker,     \* the threads of the pool
    Manual,     \* request threads
    None,       \* no subscription
    MaxEvents   \* bound on requests, refreshes that hang for good, and the one stop()

ASSUME SchedulerAssumption ==
    /\ None \notin Sub /\ Worker \cap Manual = {}
    /\ IsFiniteSet(Worker) /\ IsFiniteSet(Manual)
    /\ MaxEvents \in Nat

Thread == Worker \cup Manual

\* Lock objects that may be alive for one subscription; 0 is none.
Lock == 1..(Cardinality(Thread) + 1)

VARIABLES
    sub,        \* the subscriptions table: "auto", "off" (paused, or without interval), or
                \*   "unborn" and "gone": an id is never used again
    ripe,       \* whether the interval or the backoff of each has passed
    tick,       \* run_once: "idle", "listed", "submit", "wait"
    known,      \* its locals: the ids listed,
    unsent,     \*   the due ones it has yet to submit,
    batch,      \*   and the ones it is to wait for
    inflight,   \* _inflight, as the set of its keys
    future,     \* the future submitted for each: "none", "pending", or landed
    queue,      \* the pool's queue
    pool,       \* self._pool: "none", "open"
    stop,       \* stop(): "no", "drain", "done"; _closing is stop # "no"
    thread,     \* each thread's refresh: where it is, of what, on which lock object
    locks,      \* _REFRESH_LOCKS
    events,
    orphaned    \* history: a lock some thread was about to take has been pruned

Listed == {"auto", "off"}
world == <<sub, events>>
work == <<future, queue, pool, stop, thread>>
vars == <<world, tick, known, unsent, batch, inflight, ripe, work, locks, orphaned>>

Spend == events < MaxEvents /\ events' = events + 1
Idle == [at |-> "idle", of |-> None, lock |-> 0, todo |-> {}]
Holds(t, s, l) == thread[t].at \in {"work", "hung"} /\ thread[t].of = s /\ thread[t].lock = l
Held(s, l) == \E t \in Thread : Holds(t, s, l)
Landed == {"done", "cancelled"}

-----------------------------------------------------------------------------
(* run_once                                                                *)

\* A future is dropped.  _score: a success waits for the interval, a failure for its backoff;
\* a cancelled refresh is not scored.
Score(S) ==
    /\ ripe' = [s \in Sub |-> ripe[s] /\ ~(s \in S /\ future[s] = "done")]
    /\ future' = [s \in Sub |-> IF s \in S THEN "none" ELSE future[s]]

\* Mutant: what an earlier tick stopped waiting for is never collected.
ReapNothing == {}

\* _reap_inflight
Reaped == {s \in inflight : future[s] \in Landed}

\* The check of _closing, then due_subs reads the table.
StartTick ==
    /\ tick = "idle" /\ stop = "no"
    /\ Score(Reaped)
    /\ inflight' = inflight \ Reaped
    /\ known' = {s \in Sub : sub[s] \in Listed}
    /\ unsent' = {s \in Sub : sub[s] = "auto"}
    /\ tick' = "listed"
    /\ UNCHANGED <<world, batch, queue, pool, stop, thread, locks, orphaned>>

\* Mutant: a lock that is held is dropped as well.
PrunableHeld(s) == s \notin known /\ locks[s] # 0

\* prune_refresh_locks drops the lock of a subscription that was not listed, unless held.
Prunable(s) == s \notin known /\ locks[s] # 0 /\ ~Held(s, locks[s])

\* _forget_deleted, then the due ones among the rows read before; for those the pool is
\* built, if there is none.
Due ==
    /\ tick = "listed"
    /\ locks' = [s \in Sub |-> IF Prunable(s) THEN 0 ELSE locks[s]]
    /\ orphaned' = (orphaned \/ \E t \in Thread : /\ thread[t].at = "wait"
                                                   /\ thread[t].of \notin known
                                                   /\ ~Held(thread[t].of, thread[t].lock))
    /\ unsent' = {s \in unsent : s \notin inflight /\ ripe[s]}
    /\ known' = {}
    /\ \/ unsent' = {} /\ tick' = "idle" /\ UNCHANGED pool
       \/ unsent' # {} /\ tick' = "submit" /\ pool' = "open"
    /\ UNCHANGED <<world, batch, inflight, ripe, future, queue, stop, thread>>

Submit(s) ==
    /\ tick = "submit" /\ pool = "open"
    /\ s \in unsent
    /\ unsent' = unsent \ {s} /\ batch' = batch \cup {s}
    /\ queue' = Append(queue, s)
    /\ future' = [future EXCEPT ![s] = "pending"]
    /\ inflight' = inflight \cup {s}
    /\ tick' = IF unsent' = {} THEN "wait" ELSE tick
    /\ UNCHANGED <<world, known, ripe, pool, stop, thread, locks, orphaned>>

\* A pool that stop() took away raises out of the tick.
SubmitFails ==
    /\ tick = "submit" /\ pool = "none"
    /\ tick' = "idle" /\ unsent' = {} /\ batch' = {}
    /\ UNCHANGED <<world, known, inflight, ripe, work, locks, orphaned>>

\* The tick stops waiting for s, and ends with the last.
Waited(s) ==
    /\ batch' = batch \ {s}
    /\ tick' = IF batch' = {} THEN "idle" ELSE "wait"

Collect(s) ==
    /\ tick = "wait" /\ s \in batch /\ future[s] \in Landed
    /\ Score({s})
    /\ inflight' = inflight \ {s}
    /\ Waited(s)
    /\ UNCHANGED <<world, known, unsent, queue, pool, stop, thread, locks, orphaned>>

\* Mutant: a refresh the tick gives up on is no longer tracked.
GiveUpForgetting(s) ==
    /\ tick = "wait" /\ s \in batch /\ future[s] = "pending"
    /\ Waited(s)
    /\ inflight' = inflight \ {s}
    /\ UNCHANGED <<world, known, unsent, ripe, work, locks, orphaned>>

\* Past REFRESH_TIMEOUT the future stays in _inflight, and nothing is scored.
GiveUp(s) ==
    /\ tick = "wait" /\ s \in batch /\ future[s] = "pending"
    /\ Waited(s)
    /\ UNCHANGED <<world, known, unsent, inflight, ripe, work, locks, orphaned>>

Tick == \/ StartTick \/ Due \/ SubmitFails
        \/ \E s \in Sub : Submit(s) \/ Collect(s) \/ GiveUp(s)

-----------------------------------------------------------------------------
(* refresh, in a worker or in a request's thread                           *)

\* refresh begins with _refresh_lock, a setdefault: the lock object is fetched, not yet taken.
Begin(t, s, todo) ==
    LET fresh == CHOOSE l \in Lock : \A u \in Thread : thread[u].of = s => thread[u].lock # l
        lock == IF locks[s] = 0 THEN fresh ELSE locks[s]
    IN  /\ locks' = [locks EXCEPT ![s] = lock]
        /\ thread' = [thread EXCEPT ![t] = [at |-> "wait", of |-> s, lock |-> lock, todo |-> todo]]

\* Some idle worker takes the next; a worker of a pool that was shut down takes no other.
Take ==
    LET idle == {t \in Worker : thread[t].at = "idle"} IN
    /\ queue # <<>> /\ idle # {}
    /\ Begin(CHOOSE t \in idle : TRUE, Head(queue), {})
    /\ queue' = Tail(queue)
    /\ UNCHANGED <<world, tick, known, unsent, batch, inflight, ripe, future, pool, stop,
                   orphaned>>

Acquire(t) ==
    /\ thread[t].at = "wait" /\ ~Held(thread[t].of, thread[t].lock)
    /\ thread' = [thread EXCEPT ![t].at = "work"]
    /\ UNCHANGED <<world, tick, known, unsent, batch, inflight, ripe, future, queue, pool, stop,
                   locks, orphaned>>

\* Mutant: refresh-all stops after its first subscription, still holding its lock.
GoOnHolding(t) ==
    /\ thread' = [thread EXCEPT ![t].at = "idle"]
    /\ UNCHANGED locks

\* A worker is idle again; refresh-all goes on to the next row it read.
GoOn(t) ==
    \/ /\ thread[t].todo = {}
       /\ thread' = [thread EXCEPT ![t] = Idle]
       /\ UNCHANGED locks
    \/ \E s \in thread[t].todo : Begin(t, s, thread[t].todo \ {s})

\* The refresh succeeds or fails.  Only a worker has a future to resolve; a success outside
\* the pool may move the first due time, which is taken from last_fetched.
Finish(t) ==
    LET s == thread[t].of IN
    /\ thread[t].at = "work"
    /\ GoOn(t)
    /\ IF t \in Worker
       THEN future' = [future EXCEPT ![s] = "done"] /\ UNCHANGED ripe
       ELSE ripe' \in {ripe, [ripe EXCEPT ![s] = FALSE]} /\ UNCHANGED future
    /\ UNCHANGED <<world, tick, known, unsent, batch, inflight, queue, pool, stop, orphaned>>

\* A fetch or a write that never returns.
Hang(t) ==
    /\ thread[t].at = "work" /\ Spend
    /\ thread' = [thread EXCEPT ![t].at = "hung"]
    /\ UNCHANGED <<sub, tick, known, unsent, batch, inflight, ripe, future, queue, pool, stop,
                   locks, orphaned>>

Refresh(t) == Acquire(t) \/ Finish(t)

-----------------------------------------------------------------------------
(* stop()                                                                  *)

\* _closing, the cancelled task, then pool.shutdown(cancel_futures=True): the queue is emptied.
BeginStop ==
    /\ stop = "no" /\ Spend
    /\ stop' = "drain" /\ pool' = "none"
    /\ queue' = <<>>
    /\ future' = [s \in Sub |-> IF \E i \in DOMAIN queue : queue[i] = s THEN "cancelled"
                                ELSE future[s]]
    /\ UNCHANGED <<sub, tick, known, unsent, batch, inflight, ripe, thread, locks, orphaned>>

\* Each future is waited for up to SHUTDOWN_TIMEOUT, which may always have passed.
EndStop ==
    /\ stop = "drain"
    /\ stop' = "done" /\ inflight' = {}
    /\ UNCHANGED <<world, tick, known, unsent, batch, ripe, future, queue, pool, thread, locks,
                   orphaned>>

-----------------------------------------------------------------------------
(* The rest of the panel, and time                                         *)

\* POST, PATCH and DELETE of a subscription; the server takes no request any more when
\* stop() is called.
Edit(s, as) ==
    /\ stop = "no" /\ Spend
    /\ \/ sub[s] = "unborn" /\ as \in Listed
       \/ sub[s] \in Listed /\ as \in (Listed \cup {"gone"}) \ {sub[s]}
    /\ sub' = [sub EXCEPT ![s] = as]
    /\ UNCHANGED <<tick, known, unsent, batch, inflight, ripe, work, locks, orphaned>>

\* POST /subs/{id}/refresh, or refresh-all: every row that is not paused.
Demand(t, S) ==
    /\ stop = "no" /\ Spend
    /\ thread[t].at = "idle"
    /\ \/ \E s \in Sub : S = {s} /\ sub[s] \in Listed
       \/ {s \in Sub : sub[s] = "auto"} \subseteq S /\ \A s \in S : sub[s] \in Listed
    /\ \E s \in S : Begin(t, s, S \ {s})
    /\ UNCHANGED <<sub, tick, known, unsent, batch, inflight, ripe, future, queue, pool,
                   stop, orphaned>>

\* A tick compares with the time at which it started.
Ripen(s) ==
    /\ ~ripe[s] /\ tick = "idle" /\ stop = "no"
    /\ ripe' = [ripe EXCEPT ![s] = TRUE]
    /\ UNCHANGED <<world, tick, known, unsent, batch, inflight, work, locks, orphaned>>

Init ==
    /\ sub \in [Sub -> {"unborn", "auto"}]
    /\ ripe \in [Sub -> BOOLEAN]
    /\ tick = "idle" /\ known = {} /\ unsent = {} /\ batch = {} /\ inflight = {}
    /\ future = [s \in Sub |-> "none"] /\ queue = <<>>
    /\ pool = "open" /\ stop = "no"
    /\ thread = [t \in Thread |-> Idle] /\ locks = [s \in Sub |-> 0]
    /\ events = 0 /\ orphaned = FALSE

Request == \/ \E s \in Sub : \E as \in Listed \cup {"gone"} : Edit(s, as)
           \/ \E t \in Manual : \E S \in SUBSET Sub : Demand(t, S)

Next == \/ Tick
        \/ Take \/ \E t \in Thread : Refresh(t) \/ Hang(t)
        \/ BeginStop \/ EndStop \/ Request
        \/ \E s \in Sub : Ripen(s)

\* The event loop keeps ticking and a started step goes on; a timeout passes; a lock that is
\* free is taken (requests are few, so nobody overtakes for ever).  Time passes whatever the tick
\* does, so between two ticks an interval has passed sooner or later.  A refresh may hang.
Fairness ==
    /\ WF_vars(Tick) /\ WF_vars(Take)
    /\ \A t \in Thread : WF_vars(Refresh(t))
    /\ \A s \in Sub : SF_vars(Ripen(s))
    /\ WF_vars(EndStop)

Spec == Init /\ [][Next]_vars /\ Fairness

-----------------------------------------------------------------------------
(* Properties                                                              *)

\* Ranges, and: a thread has a subscription and a lock exactly while it refreshes.
TypeOK ==
    /\ sub \in [Sub -> Listed \cup {"unborn", "gone"}] /\ ripe \in [Sub -> BOOLEAN]
    /\ tick \in {"idle", "listed", "submit", "wait"}
    /\ known \subseteq Sub /\ unsent \subseteq Sub /\ batch \subseteq Sub /\ inflight \subseteq Sub
    /\ future \in [Sub -> Landed \cup {"none", "pending"}] /\ queue \in Seq(Sub)
    /\ pool \in {"none", "open"} /\ stop \in {"no", "drain", "done"}
    /\ thread \in [Thread -> [at : {"idle", "wait", "work", "hung"}, of : Sub \cup {None},
                              lock : Lock \cup {0}, todo : SUBSET Sub]]
    /\ \A t \in Thread : (thread[t].at = "idle") = (thread[t] = Idle)
    /\ locks \in [Sub -> Lock \cup {0}]
    /\ events \in 0..MaxEvents /\ orphaned \in BOOLEAN

Queued(s) == {i \in DOMAIN queue : queue[i] = s}
Workers(s) == {t \in Worker : thread[t].of = s}

\* "nothing is ever queued behind a wedged worker and the four-thread pool cannot be exhausted
\* by repeats of one bad feed": whatever timed out, landed late, was paused or deleted, the
\* scheduler has at most one refresh of a subscription queued or running, until stop() has
\* forgotten the ones it would not wait for.
OneWorkerPerFeed ==
    stop = "done" \/
    \A s \in Sub :
        /\ \A i, j \in Queued(s) : i = j
        /\ \A t, u \in Workers(s) : t = u
        /\ Queued(s) = {} \/ Workers(s) = {}

\* Two refreshes of one subscription never overlap, the scheduler's and a request's: both
\* would merge into the same rows.  Pruning keeps that, save for a lock that a thread has
\* fetched and not yet taken when the pruning tick had read the table before the
\* subscription was added.
OneRefreshAtATime ==
    orphaned \/ \A t, u \in Thread :
        (/\ thread[t].at \in {"work", "hung"} /\ thread[u].at \in {"work", "hung"}
         /\ thread[t].of = thread[u].of) => t = u

\* stop(): a run_once already handed to the executor "must not build a fresh pool behind us".
NoPoolBehindStop == stop = "done" => pool = "none"

\* A subscription that is refreshed on an interval is attempted again and again, however many
\* ticks gave up on it and although a refresh of another one hangs.
EveryFeedIsTried ==
    \A s \in Sub : (sub[s] = "auto" /\ stop = "no")
        ~> (\/ \E t \in Thread : thread[t].of = s
            \/ sub[s] # "auto" \/ stop # "no")
====
