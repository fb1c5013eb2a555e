---- MODULE Failover ----
(***************************************************************************)
(* Health and automatic failover: health/failover.py, health/selection.py, *)
(* the probe half of health/liveness.py, health/monitor.py, the health     *)
(* rows of nodes/store.py and the on-demand probes of api/routes.py.       *)
(*                                                                         *)
(* Three actors share the health rows and the selection: the liveness      *)
(* thread (probe the active node, evaluate, preflight, promote), the sweep *)
(* (direct probes of every node, a real request through the active one)    *)
(* and the operator.  Each holds apply_lock only for a read or a write, so *)
(* every action below is one locked section or one unlocked request.       *)
(*                                                                         *)
(* Times are ages, in units of the active probe's interval: a stamp is how *)
(* long ago it was taken, and a stamp never taken is AgeCap.  Stamps       *)
(* within one unit count as equal.  A loop that is due, or a call that has *)
(* reached its timeout, happens before time goes on.                       *)
(***************************************************************************)
EXTENDS Naturals, Sequences, FiniteSets

CONSTANTS
    Node, None,
    Hysteresis, Cooldown, Grace,      \* health_hysteresis, failover_cooldown, DEMOTION_GRACE
    ActiveTtl, StandbyTtl,            \* how old a health row may be
    MaxPreflights,                    \* MAX_PREFLIGHTS
    SweepEvery, MaxSkip,              \* health_interval, BACKOFF_MAX_SKIP
    StreakCap,                        \* bound: failed sweeps counted
    MaxMoves                          \* bound: changes of the world and mishaps

Smaller(a, b) == IF a < b THEN a ELSE b
Larger(a, b) == IF a < b THEN b ELSE a

\* Bound: beyond this age all ages are alike.
AgeCap == 1 + Larger(Cooldown, Larger(Grace, Larger(ActiveTtl, Larger(StandbyTtl, SweepEvery))))

ASSUME FailoverAssumption ==
    /\ None \notin Node /\ IsFiniteSet(Node)
    /\ Hysteresis \in Nat \ {0} /\ Cooldown \in Nat /\ Grace \in Nat
    /\ ActiveTtl \in Nat \ {0} /\ StandbyTtl \in Nat \ {0}
    /\ MaxPreflights \in Nat \ {0} /\ SweepEvery \in Nat \ {0}
    /\ MaxSkip \in Nat /\ StreakCap \in Nat \ {0} /\ MaxMoves \in Nat

VARIABLES
    active, up,               \* active_node_id, and the xray child is running
    health,                   \* node_health
    streak, skip,             \* HealthMonitor._backoff
    lastFailover, demoted,    \* last_failover_at, last_demoted_node_id
    lastAllDown,              \* last_all_down_at
    nodes, sweepOn,           \* the nodes table, health_sweep_enabled
    quality,                  \* what a node would answer
    lpc, aid, cands, now,     \* the liveness tick: its step, active_id, candidates left, `now`
    ran,                      \* some preflight of this evaluation could be run
    tickAge, probeAge,        \* since the last tick, since the last active probe
    spc, due, sActive, sweepAge,  \* the sweep: its step, nodes left, active_id, since `ts`
    manual,                   \* an on-demand probe: the row it has read and will write, and
                              \* whether it stamps the row when it writes it
    moves,                    \* moves the world has left
    fled, fledAge, misses     \* history: the last automatic switch; requests failed in a row

row == <<health, streak, skip>>
stamps == <<lastFailover, demoted, lastAllDown>>
live == <<lpc, aid, cands, now, ran, tickAge, probeAge>>
sweep == <<spc, due, sActive, sweepAge>>
settings == <<nodes, sweepOn>>
world == <<settings, quality, up, moves>>
history == <<fled, fledAge, misses>>
vars == <<active, row, stamps, live, sweep, world, manual, history>>

Age == 0..AgeCap
Older(a) == IF a < AgeCap THEN a + 1 ELSE a
MaybeNode == Node \cup {None}

\* What a node is like: reachable and working, working now and then, reachable with no
\* request getting through, unreachable.
Settled == {"good", "half", "dead"}
Qualities == Settled \cup {"flaky"}
Row == [real : BOOLEAN, direct : BOOLEAN, age : Age, fails : 0..Hysteresis]
NoRow == [real |-> FALSE, direct |-> FALSE, age |-> AgeCap, fails |-> 0]

TypeOK ==
    /\ active \in MaybeNode /\ demoted \in MaybeNode /\ fled \in MaybeNode
    /\ aid \in MaybeNode /\ sActive \in MaybeNode
    /\ nodes \subseteq Node /\ up \in BOOLEAN /\ sweepOn \in BOOLEAN /\ ran \in BOOLEAN
    /\ health \in [Node -> Row]
    /\ streak \in [Node -> 0..StreakCap] /\ skip \in [Node -> 0..MaxSkip]
    /\ lastFailover \in Age /\ lastAllDown \in Age /\ now \in Age /\ fledAge \in Age
    /\ sweepAge \in Age /\ tickAge \in 0..1 /\ probeAge \in 0..1
    /\ quality \in [Node -> Qualities]
    /\ lpc \in {"sleep", "probe", "evaluate", "preflight", "promote", "refuse", "stamp"}
    /\ spc \in {"sleep", "sweep", "real", "record"}
    /\ cands \in Seq(Node) /\ (lpc \in {"preflight", "promote", "refuse"} => cands # <<>>)
    /\ due \subseteq Node
    /\ manual \in [node : MaybeNode, row : Row, late : BOOLEAN]
    /\ moves \in 0..MaxMoves
    /\ misses \in [Node -> 0..Hysteresis]

Idle == [node |-> None, row |-> NoRow, late |-> FALSE]

\* A panel that has just started over a store whose health rows are gone.
Init ==
    /\ nodes \in SUBSET Node /\ active \in nodes \cup {None} /\ up = (active # None)
    /\ health = [n \in Node |-> NoRow]
    /\ streak = [n \in Node |-> 0] /\ skip = [n \in Node |-> 0]
    /\ lastFailover = AgeCap /\ demoted = None /\ lastAllDown = AgeCap
    /\ sweepOn \in BOOLEAN /\ quality \in [Node -> Qualities]
    /\ lpc = "sleep" /\ aid = None /\ cands = <<>> /\ now = 0 /\ ran = FALSE /\ tickAge = 1 /\ probeAge = 1
    /\ spc = "sleep" /\ due = {} /\ sActive = None /\ sweepAge = SweepEvery
    /\ manual = Idle /\ moves \in 0..MaxMoves
    /\ fled = None /\ fledAge = AgeCap /\ misses = [n \in Node |-> 0]

Works(n) == quality[n] = "good"
Broken(n) == quality[n] \in {"half", "dead"}
Answers(n) == IF Works(n) THEN {TRUE} ELSE IF Broken(n) THEN {FALSE} ELSE BOOLEAN
Reachable(n) == quality[n] # "dead"

-----------------------------------------------------------------------------
(* The rows: nodes/store.py                                                *)

\* update_health_real: a result older than the row is dropped, counter included.
Real(r, ok, at) ==
    IF at <= r.age
    THEN [r EXCEPT !.real = ok, !.age = at,
                   !.fails = IF ok THEN 0 ELSE Smaller(@ + 1, Hysteresis)]
    ELSE r

\* update_health_direct with checked_at NULL, and with a stamp.
Direct(r, ok) == [r EXCEPT !.direct = ok]
DirectAt(r, ok, at) == [r EXCEPT !.direct = ok, !.age = Smaller(@, at)]

\* History: a real request through n has come back.
Requested(n, ok) == misses' = [misses EXCEPT ![n] = IF ok THEN 0 ELSE Smaller(@ + 1, Hysteresis)]

-----------------------------------------------------------------------------
(* health/selection.py                                                     *)

Alive(n) == health[n].real \/ health[n].direct

Trusted(n) == health[n].fails < Hysteresis
Score(n) == IF health[n].real THEN 2 ELSE IF health[n].direct THEN 1 ELSE 0

\* Mutant: a record of failures does not count.
AboveByScore(m, n) == Score(m) > Score(n)

\* _rank_key: a candidate with enough failures of its own sorts last.
Above(m, n) == (Trusted(m) /\ ~Trusted(n)) \/ (Trusted(m) = Trusted(n) /\ Score(m) > Score(n))

\* _recently_demoted: the node the last failover left, while its grace lasts.
Demoted == IF lastFailover < Grace THEN {demoted} ELSE {}

\* With the sweep off nothing refreshes a standby, so neither freshness nor life is asked.
Eligible ==
    {n \in nodes \ ({active} \cup Demoted) :
        sweepOn => health[n].age <= StandbyTtl /\ Alive(n)}

\* ranked_nodes, cut at MAX_PREFLIGHTS; latency, which breaks the ties, is left open.
Rankings ==
    LET k == Cardinality(Eligible)
    IN  {SubSeq(s, 1, Smaller(k, MaxPreflights)) :
            s \in {f \in [1..k -> Eligible] :
                     \A i, j \in 1..k : i < j => f[i] # f[j] /\ ~Above(f[j], f[i])}}

-----------------------------------------------------------------------------
(* The liveness tick                                                       *)

Sleep ==
    /\ lpc' = "sleep" /\ tickAge' = 0
    /\ aid' = None /\ cands' = <<>> /\ now' = 0 /\ ran' = FALSE
At(l) == lpc' = l /\ UNCHANGED tickAge

\* _tick: the active probe when it is due, the evaluation in any case.  The probe reads
\* the selection under the lock, and only while xray runs.
Tick ==
    /\ lpc = "sleep"
    /\ tickAge' = 0
    /\ IF probeAge = 1
       THEN /\ probeAge' = 0
            /\ IF active # None /\ up
               THEN lpc' = "probe" /\ aid' = active
               ELSE lpc' = "evaluate" /\ UNCHANGED aid
       ELSE lpc' = "evaluate" /\ UNCHANGED <<aid, probeAge>>
    /\ UNCHANGED <<active, row, stamps, cands, now, ran, sweep, world, manual, history>>

\* _probe_active: the request is over; its result counts if the node is still the active one.
Probed ==
    /\ lpc = "probe"
    /\ IF active = aid
       THEN \E ok \in Answers(aid) :
              /\ health' = [health EXCEPT ![aid] = Real(@, ok, 0)]
              /\ Requested(aid, ok)
       ELSE UNCHANGED <<health, misses>>
    /\ At("evaluate")
    /\ UNCHANGED <<active, streak, skip, stamps, aid, cands, now, ran, probeAge, sweep, world, manual, fled, fledAge>>

\* _maybe_report_all_down, once per cooldown; `at` is the age of the evaluation's `now`.
Report(at) == lastAllDown' = IF lastAllDown >= Cooldown + at THEN at ELSE lastAllDown

\* Mutant: the cooldown is not asked.
FailingAnytime ==
    /\ active # None
    /\ health[active].fails = Hysteresis
    /\ health[active].age <= ActiveTtl

\* decide: the active node has failed enough, by a fresh row, and the cooldown is over.
Failing ==
    /\ active # None
    /\ health[active].fails = Hysteresis
    /\ health[active].age <= ActiveTtl
    /\ lastFailover >= Cooldown

Evaluate ==
    /\ lpc = "evaluate"
    /\ IF Failing /\ Eligible # {}
       THEN /\ lpc' = "preflight" /\ aid' = active /\ cands' \in Rankings /\ now' = 0
            /\ UNCHANGED <<lastAllDown, tickAge, ran>>
       ELSE /\ IF Failing THEN Report(0) ELSE UNCHANGED lastAllDown
            /\ Sleep
    /\ UNCHANGED <<active, row, lastFailover, demoted, probeAge, sweep, world, manual, history>>

\* The selection is checked, then a throwaway xray tries the candidate, without the lock.
Preflight ==
    /\ lpc = "preflight"
    /\ IF active # aid THEN Sleep
       ELSE /\ \E ok \in Answers(Head(cands)) : At(IF ok THEN "promote" ELSE "refuse")
            /\ ran' = TRUE
            /\ UNCHANGED <<aid, cands, now>>
    /\ UNCHANGED <<active, row, stamps, probeAge, sweep, world, manual, history>>

\* Mutant: the end of the candidates is not noticed.
NextCandidateUnchecked ==
    At("preflight") /\ cands' = Tail(cands) /\ UNCHANGED <<aid, now, ran, lastAllDown>>

\* Mutant: an exhausted pool is not reported.
NextCandidateSilent ==
    IF Len(cands) > 1
    THEN At("preflight") /\ cands' = Tail(cands) /\ UNCHANGED <<aid, now, ran, lastAllDown>>
    ELSE Sleep /\ UNCHANGED lastAllDown

\* On to the next candidate, or the pool is exhausted; if not one preflight could be run
\* the evaluation raises instead, and the loop files an error.
NextCandidate ==
    IF Len(cands) > 1
    THEN At("preflight") /\ cands' = Tail(cands) /\ UNCHANGED <<aid, now, ran, lastAllDown>>
    ELSE Sleep /\ IF ran THEN Report(now) ELSE UNCHANGED lastAllDown

\* The throwaway xray could not be run: the row is left alone.
PreflightRaises ==
    /\ lpc = "preflight" /\ active = aid /\ moves > 0
    /\ moves' = moves - 1
    /\ NextCandidate
    /\ UNCHANGED <<active, row, lastFailover, demoted, probeAge, sweep, settings, quality, up, manual, history>>

Recorded(ok) ==
    /\ health' = [health EXCEPT ![Head(cands)] = Real(@, ok, now)]
    /\ Requested(Head(cands), ok)

Refused ==
    /\ lpc = "refuse"
    /\ IF active # aid THEN Sleep /\ UNCHANGED <<health, lastAllDown, misses>>
       ELSE Recorded(FALSE) /\ NextCandidate
    /\ UNCHANGED <<active, streak, skip, lastFailover, demoted, probeAge, sweep, world, manual, fled, fledAge>>

\* Mutant: the selection is not looked at again after the preflight.
PromoteAnyway ==
    /\ lpc = "promote"
    /\ Recorded(TRUE)
    /\ active' = Head(cands) /\ up' = TRUE
    /\ fled' = aid /\ fledAge' = 0
    /\ At("stamp") /\ UNCHANGED <<aid, cands, now, ran>>
    /\ UNCHANGED <<streak, skip, stamps, probeAge, sweep, settings, quality, moves, manual>>

\* Under one hold of the lock: the selection again, the row, apply_node.
Promote ==
    /\ lpc = "promote"
    /\ IF active # aid
       THEN Sleep /\ UNCHANGED <<active, up, health, misses, fled, fledAge>>
       ELSE /\ Recorded(TRUE)
            /\ active' = Head(cands) /\ up' = TRUE
            /\ fled' = aid /\ fledAge' = 0
            /\ At("stamp") /\ UNCHANGED <<aid, cands, now, ran>>
    /\ UNCHANGED <<streak, skip, stamps, probeAge, sweep, settings, quality, moves, manual>>

\* apply_node fails and restores, or stops, what was there.
PromoteFails ==
    /\ lpc = "promote" /\ active = aid /\ moves > 0
    /\ moves' = moves - 1
    /\ Recorded(TRUE)
    /\ up' \in {up, FALSE}
    /\ NextCandidate
    /\ UNCHANGED <<active, streak, skip, lastFailover, demoted, probeAge, sweep, settings, quality, manual, fled, fledAge>>

\* Mutant: only the time of the switch is kept, not the node that was left.
StampTimeOnly ==
    /\ lpc = "stamp"
    /\ lastFailover' = now
    /\ Sleep
    /\ UNCHANGED <<active, row, demoted, lastAllDown, probeAge, sweep, world, manual, history>>

\* The lock is released before the switch is stamped.
Stamp ==
    /\ lpc = "stamp"
    /\ lastFailover' = now /\ demoted' = aid
    /\ Sleep
    /\ UNCHANGED <<active, row, lastAllDown, probeAge, sweep, world, manual, history>>

-----------------------------------------------------------------------------
(* The sweep: HealthMonitor.run_once                                       *)

Backoff(k) == Smaller(MaxSkip, 2 ^ Smaller(k, 3) - 1)

\* Nodes that are backing off sit this sweep out; the active node never does.
SweepStart ==
    /\ spc = "sleep" /\ sweepOn /\ sweepAge >= SweepEvery
    /\ due' = {n \in nodes : n = active \/ skip[n] = 0}
    /\ skip' = [n \in Node |-> IF n # active /\ skip[n] > 0 THEN skip[n] - 1 ELSE skip[n]]
    /\ sActive' = active /\ sweepAge' = 0
    /\ spc' = IF due' = {} THEN "sleep" ELSE "sweep"
    /\ UNCHANGED <<active, health, streak, stamps, live, world, manual, history>>

SweepOn(left) == due' = left /\ spc' = IF left = {} THEN "sleep" ELSE "sweep"

\* One row after the other, in the order of list_nodes.  A success takes one failure off
\* the streak, a failure adds one, except the active node's.
SweepNode(n) ==
    /\ spc = "sweep" /\ n = CHOOSE m \in due : TRUE
    /\ streak' = [streak EXCEPT ![n] =
          IF Reachable(n) THEN (IF @ > 0 THEN @ - 1 ELSE 0)
          ELSE IF n = sActive THEN @ ELSE Smaller(@ + 1, StreakCap)]
    /\ skip' = [skip EXCEPT ![n] = IF Reachable(n) \/ n # sActive THEN Backoff(streak'[n]) ELSE @]
    /\ health' = [health EXCEPT ![n] = IF active = n THEN Direct(@, Reachable(n))
                                       ELSE DirectAt(@, Reachable(n), sweepAge)]
    /\ IF n = sActive
       THEN spc' = "real" /\ UNCHANGED due
       ELSE SweepOn(due \ {n})
    /\ UNCHANGED <<active, stamps, live, sActive, sweepAge, world, manual, history>>

\* The active node's real request goes through the tunnel itself, if it is still active.
SweepReal ==
    /\ spc = "real"
    /\ IF active = sActive THEN spc' = "record" /\ UNCHANGED due ELSE SweepOn(due \ {sActive})
    /\ UNCHANGED <<active, row, stamps, live, sActive, sweepAge, world, manual, history>>

\* A node that stopped being the active one during the request keeps only the direct result.
SweepRecord ==
    /\ spc = "record"
    /\ IF active = sActive
       THEN \E ok \in IF up THEN Answers(sActive) ELSE {FALSE} :
              /\ health' = [health EXCEPT ![sActive] = Real(@, ok, sweepAge)]
              /\ Requested(sActive, ok)
       ELSE /\ health' = [health EXCEPT ![sActive] = DirectAt(@, @.direct, sweepAge)]
            /\ UNCHANGED misses
    /\ SweepOn(due \ {sActive})
    /\ UNCHANGED <<active, streak, skip, stamps, live, sActive, sweepAge, world, manual, fled, fledAge>>

-----------------------------------------------------------------------------
(* The operator and the world.  Every move is charged to MaxMoves.         *)

Move == moves > 0 /\ moves' = moves - 1

Connect(n) ==
    /\ Move /\ n \in nodes
    /\ active' = n /\ up' = TRUE
    /\ UNCHANGED <<row, stamps, live, sweep, settings, quality, manual, history>>

Disconnect ==
    /\ Move /\ active # None
    /\ active' = None
    /\ UNCHANGED <<row, stamps, live, sweep, settings, quality, up, manual, history>>

\* POST /probe/tcp and /probe/http make their requests, read the row and write it back with
\* the time they began at; POST /nodes/{id}/probe makes a real request, reads the row, pings,
\* and writes the row back with the time of the write.  Neither takes the lock, and either
\* writes the failure counter it has read.
ManualRead(n) ==
    /\ Move /\ manual = Idle /\ n \in nodes
    /\ LET r == [health[n] EXCEPT !.direct = Reachable(n), !.age = 0]
       IN  \/ \E a \in 0..1 : manual' = [node |-> n, row |-> [r EXCEPT !.age = a], late |-> FALSE]
          \/ \E ok \in Answers(n) : manual' = [node |-> n, row |-> [r EXCEPT !.real = ok], late |-> TRUE]
    /\ UNCHANGED <<active, row, stamps, live, sweep, settings, quality, up, history>>

ManualWrite ==
    /\ manual # Idle
    /\ health' = [health EXCEPT ![manual.node] =
                     IF manual.late THEN [manual.row EXCEPT !.age = 0] ELSE manual.row]
    /\ manual' = Idle
    /\ UNCHANGED <<active, streak, skip, stamps, live, sweep, world, history>>

Change(n, q) ==
    /\ Move /\ n \in nodes /\ quality[n] # q
    /\ quality' = [quality EXCEPT ![n] = q]
    /\ UNCHANGED <<active, row, stamps, live, sweep, settings, up, manual, history>>

XrayDies ==
    /\ Move /\ up
    /\ up' = FALSE
    /\ UNCHANGED <<active, row, stamps, live, sweep, settings, quality, manual, history>>

\* The watchdog, see module Gateway.
XrayBack ==
    /\ ~up /\ active # None
    /\ up' = TRUE
    /\ UNCHANGED <<active, row, stamps, live, sweep, settings, quality, moves, manual, history>>

\* The panel restarts: the threads and the backoff are gone, the store is not.  A switch
\* that was not stamped yet is forgotten.
Restart ==
    /\ Move
    /\ Sleep /\ probeAge' = 1
    /\ streak' = [n \in Node |-> 0] /\ skip' = [n \in Node |-> 0]
    /\ spc' = "sleep" /\ due' = {} /\ sActive' = None /\ sweepAge' = SweepEvery
    /\ manual' = Idle
    /\ up' = (active # None)
    /\ fled' = (IF lpc = "stamp" THEN None ELSE fled)
    /\ fledAge' = (IF lpc = "stamp" THEN AgeCap ELSE fledAge)
    /\ UNCHANGED <<active, health, stamps, settings, quality, misses>>

\* Time goes on while the threads sleep or wait for an answer, unless a tick or a sweep is
\* due or a request has used up its timeout.
Pass ==
    /\ lpc \in {"sleep", "probe", "promote", "refuse"} /\ spc \in {"sleep", "sweep", "record"}
    /\ tickAge = 0
    /\ spc = "sleep" /\ sweepOn => sweepAge < SweepEvery
    /\ spc # "sleep" => sweepAge = 0
    /\ manual # Idle => manual.late /\ manual.row.age = 0
    /\ health' = [n \in Node |-> [health[n] EXCEPT !.age = Older(@)]]
    /\ lastFailover' = Older(lastFailover) /\ lastAllDown' = Older(lastAllDown)
    /\ fledAge' = Older(fledAge)
    /\ tickAge' = 1 /\ probeAge' = 1
    /\ sweepAge' = Older(sweepAge)
    /\ now' = IF lpc \in {"promote", "refuse"} THEN Older(now) ELSE now
    /\ manual' = IF manual = Idle THEN manual ELSE [manual EXCEPT !.row.age = Older(@)]
    /\ UNCHANGED <<active, streak, skip, demoted, lpc, aid, cands, ran, spc, due, sActive, world, fled, misses>>

LiveStep ==
    \/ Tick \/ Probed \/ Evaluate \/ Preflight \/ Refused \/ Promote \/ Stamp
SweepStep == SweepStart \/ (\E n \in Node : SweepNode(n)) \/ SweepReal \/ SweepRecord
World ==
    \/ \E n \in Node : Connect(n) \/ ManualRead(n) \/ (\E q \in Settled : Change(n, q))
    \/ Disconnect \/ XrayDies \/ Restart \/ PreflightRaises \/ PromoteFails

Next == LiveStep \/ SweepStep \/ World \/ ManualWrite \/ XrayBack \/ Pass

Spec == Init /\ [][Next]_vars

\* The two loops go on, and so does time.
Fairness == WF_vars(LiveStep) /\ WF_vars(SweepStep) /\ WF_vars(ManualWrite) /\ SF_vars(Pass)
FairSpec == Spec /\ Fairness

-----------------------------------------------------------------------------
(* Properties                                                              *)

\* Only Promote changes the selection without a move of the operator.
Automatic == active' # active /\ moves' = moves

\* Failover never selects a node for a gateway the operator has disconnected, however long
\* its preflights take (the two looks at active_node_id in failover.run).
DisconnectedStays == [][Automatic => active # None]_vars

\* Two automatic switches are a cooldown apart, up to the length of one tick (`now` is read
\* before the preflights), unless the panel stops before the switch is stamped.
SwitchesAreSpaced == [][Automatic => fledAge + 1 >= Cooldown]_vars

\* The node an automatic switch has left is not returned to by the next one before its
\* grace is over (DEMOTION_GRACE), with the same two exceptions.
FledNodeSitsOut == [][Automatic /\ active' = fled => fledAge + 1 >= Grace]_vars

\* A node that works, and has no record of failures, is not passed over for ever while the
\* active one fails: nodes that keep failing their preflight sink below it, so the bound of
\* MAX_PREFLIGHTS does not starve it.
PassedOver(b) ==
    /\ b \in nodes /\ active \notin {b, None} /\ up
    /\ Broken(active) /\ Works(b) /\ Trusted(b)
GoodStandbyIsFound == \A b \in Node : []<>~PassedOver(b)

\* While no node works, the operator keeps being told (_maybe_report_all_down).
Hopeless == active # None /\ up /\ \A n \in nodes : Broken(n)
AllDownIsReported == []<>(~Hopeless \/ lastAllDown <= Cooldown)

\* "Fires only when the active node's consecutive real-request failures have reached
\* `hysteresis`" (failover.decide): the last Hysteresis requests counted for the node that an
\* automatic switch leaves have all failed.
LeftOnlyAfterFailing == [][Automatic => misses[active] = Hysteresis]_vars
====
