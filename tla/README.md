# v2pi: a verification project

v2pi turns a small Linux host into a VPN gateway: a Python panel (`src/backend/pi_gw_panel`)
keeps a store of nodes and settings, the live Xray config, the Xray child, the nftables
rules and the segment's interfaces in agreement, and a React client talks to its API. This
directory holds TLA+ models of the parts where that agreement is hard to keep, the TLC
instances that check them, and TLAPS proofs for every value of their constants.

## The system

| Part | State | Who changes it | Hard because |
|---|---|---|---|
| ConfigManager, `xray_config/validate.py` | live config, last-good snapshot, provenance marker | apply, revocation, rollback | several writes, each durable only after an fsync that may fail |
| Apply pipeline, `controller.py` | `active_node_id`, `prev_…`, `pending_…`, enforcement snapshot | apply, disconnect, rollback, boot, failover, feeds | each of four resources can fail after the others changed |
| XraySupervisor | the child, `_want_running` | apply, start/stop, watchdog | dies by itself; may survive SIGKILL |
| nftables backend, `net_control/linux.py` | panel table, emergency table, `ip_forward` | apply_net, stop_net, sync_net, boot | a failed replacement needs a fallback that can fail too |
| Boot, `app.py` | all of the above, inherited | lifespan | must not open the forward path before it is held |
| Remote access, `rw_inbound.py`, `api/routes.py` | grants in the store, the file, the undo, the child; a durable marker | grant, revoke, retry | the store half commits first; the runtime may lag or refuse |
| Health and failover, `health/` | health rows, backoff, stamps | liveness thread, sweep, operator | three actors, slow requests outside the lock |
| Provisioning, `net_control/provision.py` | ownership claim, stale, link and survivor ledgers, pending undo, links and addresses | boot, PUT /network, restore, PD callback | a dozen host calls per pass, and the records must name whatever any prefix of them left |
| Subscriptions, `subs/` | feeds, their nodes, in-flight refreshes, refresh locks | scheduler, operator, failover | a merge that commits before the tunnel follows it; workers that never come back |
| Backup and restore, `backup/` | the whole store | operator, daily task | replaces everything the other parts read |
| Login, statistics, devices, diagnosis, geo data, updates, logs | counters and reports | requests, samplers | little that the rest of the system reads |
| Parsers, config builder, rule renderer, probes | none | | pure functions and I/O |
| Frontend, `src/frontend` | query cache | browser | |

Almost every operation that touches the tunnel or the host holds one lock, `apply_lock`
(`controller.py`), taken before the store's transaction and write locks. What does not hold
it, or holds it only for a read and again for a write (node deletion and edits, on-demand
probes, health requests, preflights, the fetch and the merge of a subscription), is where the
models interleave. `PROJECT.json` lists every part with its status and the hazards of the
code with the properties that would catch each one going wrong.

The rules that tie the parts together:

- with the kill switch on, clients reach the WAN through the tunnel or not at all;
- the config on disk, the child, the rules and `active_node_id` describe one node;
- a rollback promotes the config the live one replaced, and nothing after a revocation;
- nothing is served to a device the store does not grant, and a runtime that lags is on
  record and caught up with;
- failover leaves a node only on evidence, not too often, and finds a node that works;
- every interface the segment is on is named by a durable record and by the ruleset;
- a subscription reverts nobody's switch, weakens no tunnel and deletes nothing on one bad answer.

## Modules

| Module | Source | What it is |
|---|---|---|
| `ConfigManager` | `xray_config/validate.py` | the three files, write by write |
| `UndoRegister` | the interface of the above | a live config with at most one undo |
| `Gateway` | `controller.py`, `app.py`, `api/routes.py`, `xray_supervisor/`, `net_control/linux.py`, `health/liveness.py` | the control loop as one machine |
| `RwRevocation` | `api/routes.py`, `controller.py`, `health/liveness.py`, supervisor start guard | grants and their revocation |
| `Failover` | `health/`, health rows of `nodes/store.py`, probe routes | who is selected, and on what evidence |
| `Provision` | `net_control/provision.py`, `net_control/plan.py`, dnsmasq supervisor | one provisioning pass, call by call, and the records it keeps |
| `SegmentChange` | `api/routes.py` (PUT /network), `controller.py` (restore), `app.py`, `net_control/pd_client.py`, `provision.py` | everything that runs a pass, its rollback and its undo |
| `SubRefresh` | `subs/service.py`, `subs/reconcile.py`, node and subscription routes, `nodes/store.py` | one refresh beside everything that touches node rows and the tunnel |
| `SubScheduler` | `subs/scheduler.py`, locks of `subs/service.py` | the tick, the pool and the per-feed locks |
| `*Proofs` | | theorems about the module of that name (`RwProofs`: `RwRevocation`; `SegmentProofs`, continued in `SegmentRecordProofs`: `Provision` and `SegmentChange`) |
| `MC*` and `*.cfg` | | small instances for TLC |

**ConfigManager.** A file has a visible content and the set of contents a power cut may
leave: a rename whose directory fsync failed stays undecided. `step` is the next write of the
operation in progress, and the panel may be killed between any two. A config stands for its
digest; what `xray -test` rejects never reaches the files. `Foreign` configs are ones somebody
put on the live path out of band.

**UndoRegister** is what the callers rely on: `live` and `undo`. `ConfigManager` defines
the mapping (the undo is `rollback_target()`) and implements it, interrupted operations
included, as long as fsync and unlink do what they report. `Gateway` uses this pair.

**Gateway.** `pc` is the next call of the operation that holds the lock. The flow tables
(`ReloadFlow`, `ApplyFlow`, `StopFlow`, ...) say where each operation goes after a call that
succeeds and after one that does not, so that the calls themselves (reload, apply_tproxy,
guard, config rollback, store commit) are written once, as in the code. A config is named by
the node it was built for. `rules` is one of four rulesets, told apart by whether segment
traffic is sent into xray and whether forwarded traffic is dropped. `Faults` chooses which
failures, crashes and races a run allows; `store` lets each write of a setting raise (the intent,
its removal, the commit, the kill switch), which ends the operation where the code does not catch
it. `stray` is history: the config on disk is neither the active nor the pending node's.

**RwRevocation.** Configs are the sets of devices they grant. A widening applies inside the
transaction that grants (`keptGranted` is the committed half); a revocation commits first,
marks, and then works on the runtime: sample the supervisor, rewrite, push, fail-safe stop,
drop the unsafe undo, settle. `how` is the outcome the route answers with. `apply_node` is
Gateway's, reduced to the config it writes and the child it loads.

**Failover.** Three actors: the liveness thread (`lpc`), the sweep (`spc`) and the operator.
Each action is one locked section or the end of one unlocked request. Times are ages in units
of the active probe's interval. A node is `good`, `flaky`, `half` (reachable, nothing gets
through) or `dead`; latency, which only breaks ties, is left open. `nodes` are the rows that
are not stale, and health checking and failover are switched on.

**Provision.** The host is its links, the segment addresses on them, the interfaces the
ruleset names, the NetworkManager drop-in and what dnsmasq serves. `db` is what a reader of
the settings table sees, `txn` what an open transaction would go back to. One action per host
call or record write of `_provision_segment`, in its order: drain the survivors, read the
plan and the records, record and add the VLAN, stage the ruleset, claim ownership, install
and retire addresses, drop-in, activate, dnsmasq, retire links, narrow, prefix delegation; and
the path with segment management off. A ledger is one set, although it is kept in two rows
(record and journal); `JournalledWrite` is the two-row write and `WriteSetIsJournalled` the
proof that the one-set write covers it. A mishap is a call that fails, a write reported as
failed (kept or not), a probe or read without answer; `mishaps` counts them and `calm`
says that the current operation has had none. `lost` is the set of addresses whose only record
the code itself discards (see Findings).

**SegmentChange** is the operations around the pass. `flow` says whose pass it is: a boot, a
PUT, a restore, a recovery, the PD callback. They hold `apply_lock` to their end, so they do
not interleave with each other; the PD watcher's poll (`PollPrefix`) runs beside them, and
`Crash` and `Reboot` fall between any two calls. `cand` is the candidate in the request's
memory, `db.pend` the record of it that a boot finds. The kill switch is on, IPv6 is on
and dnsmasq is managed; `manage_segment` changes only through a restore; when the operator
follows a report of orphaned addresses, all addresses of that interface go.

**SubRefresh.** One subscription. `pc` and `got` are `refresh()` and its locals: the fetch runs
without a lock, the merge in one transaction, the re-apply under `apply_lock` (`job`), the
write-back under no lock. Around it: connect and failover (`ask`, then `job`), disconnect,
re-applies, PATCH and DELETE of a node (`edit`: the check, and the write later), detaching,
changing and deleting the subscription, a crash. A row is named by its identity and a
generation. What the config takes from a node is one value with a rank on the security ladder
and a `Look`, what `_config_differs` compares. Edits change config fields and not the
identity; status and lifecycle columns are left out. Each store write may raise: of the intent,
its removal, the commit, the deletion of the replaced row, the write-back. Where that ends
`apply_node` with an exception, the refresh ends without its write-back (`Release`). `run` is what
the tunnel runs on and `live` the config on disk, which a failed apply may bring back. `floor`,
`parted`, `cut`, `offered` and `got.taken` are history: the rank to be kept, why the active row
and the tunnel may differ, the rows deleted under an apply or while selected, the last answer
merged, and that another apply has loaded the row a refresh has changed.

**SubScheduler.** The tick (reap, prune, collect the due, submit, wait, give up or score),
the daemon workers, on-demand refreshes and `stop()` beside a tick that is already on its way.
Locks are objects: a thread may hold one that the table no longer names. Time is abstract:
`Ripen` says that an interval or a backoff has passed. A refresh may end, fail or hang.

The modules meet in `UndoRegister` (files and control loop), in `apply_node` (Gateway in
detail; one step in Failover, eight in RwRevocation, three in SubRefresh), in the watchdog
(Gateway, with the start guard of RwRevocation), in the rulesets (Gateway says whether traffic
is held, Provision on which interfaces) and in what a refresh is (SubScheduler says when
one runs and that they do not overlap, SubRefresh what one does).

One assumption comes from the deployment: the panel runs as a container's main process, so a
panel that dies takes the Xray child and dnsmasq with it. Rules, addresses and forwarding
survive a panel crash and not a reboot.

## Runs

| Run | Instance | Distinct states | Result |
|---|---|---|---|
| `config_faults` | 2 configs, every fault | 133,188 | holds |
| `config_register` | 3 configs, 1 foreign; interrupted writes, power cuts, edits | 182,319 | holds |
| `gateway_host` | 1 node; failing host calls and store writes, crash, reboot, unkillable child, kill-switch changes | 588,885 | holds |
| `gateway_switch` | 2 nodes; failing reloads, rules, undos and store writes, crashes at any step, deletions | 2,931,797 | holds |
| `rw_mishaps` | 2 devices; everything but an unkillable child | 724,186 | holds |
| `rw_retry` | 1 device; everything a retry must outlast | 162,059 | holds |
| `failover_pool` | 3 static nodes, or 2 with a change, or 2 flaky ones | 400,016 | holds |
| `segment_faults` | an operator's interface and 2 VLANs, 4 addresses; 2 mishaps, 2 requests or prefix changes | 1,335,097 | holds |
| `subs_merge` | 3 identities, 2 rows of each; 2 refreshes, 2 requests, failing store writes or crashes | 605,565 | holds |
| `subs_schedule` | 2 feeds, 2 workers, 1 request thread; 2 requests, hangs or a stop | 133,899 | holds |
| `failover_count`, `subs_delete` | the smallest causes | | violated, see Findings |

What they show:

- `config_faults`: a durable revocation leaves nothing to promote (`IrreversibleHolds`).
- `config_register`: the files implement `UndoRegister` (`ImplementsRegister`), and the target
  offered is the config the live one was applied over (`RollbackUndoesLastApply`).
- `gateway_host`: with the kill switch on and settled, no step of any operation, failure,
  crash or recovery opens a held forward path (`HeldStaysHeld`); boot does nothing past its
  guard with the path unheld (`BootOpensNothing`); the enforcement snapshot is honest
  (`ReportIsHonest`); every operation ends (`OperationsEnd`).
- `gateway_switch`: traffic that a confirmed apply proxies runs through the node the store
  calls active, or the one whose switch is on record as unfinished
  (`TunnelIsTheSelectedOne`), and a switch whose xray had come up is completed by
  the boots that follow, however often they crash too (`SwitchSurvivesCrash`).
- `rw_mishaps`: no process loads a grant the store does not make (`LoadsOnlyGranted`), an
  answer that means done is true (`AnswerIsProof`), a revocation starts no xray that is down
  (`StoppedStaysStopped`), and a retry keeps a safe undo (`RetryKeepsSafeUndo`).
- `rw_retry`: a process that serves too much is on record (`ExcessIsMarked`), and the retry
  finishes the revocation if the child can be stopped in the end (`RevocationCompletes`).
- `failover_pool`: a disconnect during a preflight is respected (`DisconnectedStays`),
  switches are a cooldown apart (`SwitchesAreSpaced`), the node just left sits out its grace
  (`FledNodeSitsOut`), a working standby is not starved by ones that keep failing their
  preflight (`GoodStandbyIsFound`), and a hopeless pool keeps being reported
  (`AllDownIsReported`).
- `segment_faults`: every interface with a segment address is named by a durable record, in an
  open transaction and in what it would roll back to (`RecordsKnow`); a ruleset is replaced
  only by one that still names every such interface (`RulesFollowSegment`); on a move nothing
  is reachable before the rules name it (`MovesAreStaged`); dnsmasq is pointed only at what is
  up (`ServesOnlyWhatIsUp`); and an operation on which nothing fails puts right whatever
  earlier failures and crashes had left (`UndisturbedHeals`).
- `subs_merge`: a refresh moves the selection only from the node its merge saw active to the
  replacement it named (`RefreshRevertsNoSwitch`); the selection names a row that exists
  (`SelectionHasRow`); a shrunken answer deletes only what the answer before
  it, with the same identities, had also left out (`ShrinkIsConfirmed`); between two choices
  of the operator the tunnel does not move down the security ladder
  (`LadderHoldsUnlessRaced`); and the stored row and the tunnel agree (`StoredIsRunning`). The
  last three hold with every store write failing where it can, and name their exceptions.
- `subs_schedule`: a feed is queued or running at most once in the pool
  (`OneWorkerPerFeed`), two refreshes of a feed do not overlap (`OneRefreshAtATime`), and every
  feed keeps being tried although another one hangs (`EveryFeedIsTried`).

**Bounds.** Two configs are the live one and the one it replaced; the third of
`config_register` tells "the replaced config" from "some older config". Two nodes are the one
left and the one selected; one node is enough where a property is about rules and forwarding
only. Two devices let a revocation remove one and keep one. In `Failover`, hysteresis 2 and one
preflight per evaluation are the least for which failures accumulate and candidates compete;
the cooldown (2) is shorter than the grace (4) and the standby budget (6) is twice the sweep
interval (3), as in the defaults. Sweeps are rarer than active probes, as with the default
settings (1800 s and 60 s): with equal periods a sweep can stamp a candidate's row during each of
its preflights, `update_health_real` then drops each result as older than the row, and
`GoodStandbyIsFound` fails. Operations in `Gateway` and `RwRevocation` are not bounded in number.

In `SegmentChange` two mishaps are a failure and a failure of the recovery from it, and two
requests a move and a move back or elsewhere; of the three segments two share their IPv4 address
on different interfaces, two are on VLANs, and two take IPv6 automatically. In `SubRefresh` two refreshes are what a shrink and its
confirmation take, two rows of one identity what a re-added node takes, and three
identities one that stays, one that goes and one that replaces it; an answer lists one node, which
is a shrink, or all three alike. In `SubScheduler` one feed
may hang while the other needs the second worker. Larger instances hold as well, and take too long
to repeat on every change:

| Instance | Distinct states |
|---|---|
| `segment_faults` with 3 mishaps | 14,450,890 |
| `segment_faults` with 3 requests | 4,894,684 |
| `subs_merge` with 3 requests, failing store writes or crashes | 8,392,978 |
| `subs_merge` with a third config that `_config_differs` cannot tell from the second | 3,254,229 |
| `subs_merge` with every answer of one to three nodes | 2,318,681 |
| `subs_schedule` with 3 requests, hangs or a stop | 849,416 |
| `gateway_switch` with kill-switch changes | 17,377,647 |

Symmetry is used where no `CHOOSE` picks among several nodes, configs, devices or identities, and in
no run with a liveness property. `subs_merge`, `subs_schedule` and `subs_delete` switch
deadlock checking off, because requests are bounded and the system may then come to rest.

**Fairness.** `Gateway`: weak fairness of the step of the operation that holds the lock; every
call it makes has a timeout. `RwRevocation`: the same, and strong fairness of the retry: the
liveness thread comes back at most every 600 s and its turn at the lock comes up again and
again. `Failover`: weak fairness of both loops, whose ticks catch every exception, of the
on-demand probe, whose requests have timeouts, and strong fairness of time. `SubScheduler`:
weak fairness of the tick, whose wait has a deadline, of a free worker taking from the queue, of
a refresh that has not hung, and of the end of `stop()`; strong fairness of an interval
passing. No fairness is assumed of the operator, of failures, of a hung refresh, or of a failed
child coming back, except where a property says so (`RevocationCompletes` assumes that the child
does not stay beyond SIGKILL).

## Proofs

All theorems hold for any nodes, configs, devices, interfaces, feeds, delays, any number of
requests and mishaps, and any choice of faults, except where the table says otherwise. The
assumptions about the constants are the `ASSUME`s of the modules: bounds are naturals, the values
that mean "none" are not values (nor sets of interfaces), and no address is both an IPv4 and an
IPv6 one.

| Theorem | Says |
|---|---|
| `ConfigManagerProofs!TypeCorrect` | the files and the operation in progress keep their types |
| `ConfigManagerProofs!RevocationSticks` | `IrreversibleHolds` |
| `ConfigManagerProofs!TargetIsWhatApplyReplaced` | `RollbackUndoesLastApply`, if fsync and unlink are honest |
| `ConfigManagerProofs!FilesImplementRegister` | the files implement `UndoRegister`, if fsync and unlink are honest |
| `GatewayProofs!TypeCorrect`, `!BootIsClosed`, `!ReportsAreHonest`, `!HeldPathStaysHeld` | types, `BootOpensNothing`, `ReportIsHonest`, `HeldStaysHeld` |
| `GatewayProofs!InterruptedSwitchCompletes` | `SwitchSurvivesCrash` |
| `GatewayProofs!TunnelIsSelected` | `TunnelIsTheSelectedOne`, unless `Faults` has both `stuck` and `toggle` |
| `GatewayProofs!OperationsNeverTurnBack` | an operation under `apply_lock` makes at most 15 calls |
| `RwProofs!TypeCorrect`, `!OnlyGrantedIsLoaded`, `!AnswersAreProofs`, `!ExcessStaysMarked` | types, `LoadsOnlyGranted`, `AnswerIsProof`, `ExcessIsMarked` |
| `RwProofs!SafeUndoSurvives` | `RetryKeepsSafeUndo` |
| `RwProofs!StopIsRespected` | `StoppedStaysStopped`, unless `Faults` has both `stuck` and `dies` |
| `RwProofs!OperationsNeverTurnBack` | an operation, a revocation with all its fallbacks included, makes at most 15 calls |
| `FailoverProofs!TypeCorrect`, `!DisconnectedIsLeftAlone`, `!SwitchesAreACooldownApart`, `!FledNodeIsNotReturnedTo` | types, `DisconnectedStays`, `SwitchesAreSpaced`, `FledNodeSitsOut` |
| `SegmentProofs!WriteSetIsJournalled` | the two-row ledger write shows a reader nothing the one-set write of the model does not |
| `SegmentProofs!TypeCorrect`, `!MovesStayStaged`, `!DhcpServesWhatIsUp` | types, `MovesAreStaged`, `ServesOnlyWhatIsUp` |
| `SegmentProofs!UndisturbedOperationHeals` | `UndisturbedHeals`, if what is not a VLAN is there without the panel |
| `SegmentProofs!OperationsNeverTurnBack` | a boot, a PUT, a restore or a prefix change makes at most 41 calls, its recovery included |
| `SegmentRecordProofs!CarriersAreOnRecord`, `!RulesStayWithSegment` | `RecordsKnow`, `RulesFollowSegment` |
| `SubRefreshProofs!TypeCorrect`, `!SwitchesStand`, `!ShrinkageIsConfirmed`, `!SelectedRowExists` | types and the identity index, `RefreshRevertsNoSwitch`, `ShrinkIsConfirmed`, `SelectionHasRow` |
| `SubRefreshProofs!TunnelIsNotWeakened`, `!StoredRowIsRunning` | `LadderHoldsUnlessRaced`, `StoredIsRunning` |
| `SubSchedulerProofs!TypeCorrect`, `!OneFeedOneWorker`, `!RefreshesDoNotOverlap` | types, `OneWorkerPerFeed`, `OneRefreshAtATime` |

The arguments:

- *Revocation.* A revocation holds because the marker is sealed before the config is
  written. `SealedInv` says so of every content a power cut may leave, and that no rollback
  that could write a pairing is under way.
- *Register.* Which write comes next says what the earlier ones left (`StepInv`); with honest
  calls nothing is undecided but an unlinked marker beside a live file that is not ours
  (`CutInv`). Each step then maps to a step of the register or to none, and the target offered
  is what the last apply replaced.
- *Kill switch.* `IInv` of `GatewayProofs` adds to the types which steps belong to boot, that
  boot is past its guard only with the path held, and that a confirmed report was rendered
  from the kill switch as it still stands, except while PUT /network is changing it. The
  flow tables are summarised by lemmas, so no proof about an action looks inside them.
- *Switch.* From the moment a switch has brought its xray up until a boot has finished it, the
  intent marker and the target of any apply name the node crossed to (`CrossInv`).
- *Tunnel.* Unless `stray`, the config on disk is the active or the pending node's whenever the
  tunnel may rely on it, the target's while it is being applied and the active node's after an
  undo (`DiskInv`); no enforcement call opens the tunnel without a selection (`SelectInv`); and
  what the child has read follows the disk, except between the reload of a switch and its end
  (`ChildInv`). A commit that raises leaves the intent, so the new node is the pending one.
- *Grants.* What the child serves changes by a guarded load or an exit. `IInv` of `RwProofs`
  carries what a step between an observation and the answer relies on: a child seen down is
  still down, a loaded child still serves what it loaded, the marker is cleared on proof. That
  a revocation starts nothing needs which steps are its own (`FlowInv`) and that its rebuild
  began with a child that was up or wanted (`WantInv`).
- *Failover.* While candidates are tried, what `decide` established still holds (`Decided`):
  there was a selection, the cooldown was over, no candidate is in its grace. Once stamped, the
  settings describe the last switch to within one tick (`Stamped`, `Recent`).
- *Segment.* `SInv` of `SegmentProofs` is an account of one pass: which operation may be at
  which call, and that a transaction is open exactly between a request's settings and its
  commit (`Lanes`); that by the time dnsmasq is told, the addresses are on, none of them is owed
  a removal, and the link is up (`Achieved`); that on a move the rules name the new interface
  from the staging to the activation (`Covered`). Only the pass and the PD callback reach those
  calls (`Elsewhere`), so the two properties follow call by call.
- *Healing.* `HInv` of `SegmentProofs` is about an operation on which nothing has failed yet: it
  meets no failure branch and its pass follows the stored plan (`OnCourse`); each call has put
  its part right, and no later call undoes it (`Repaired`). A boot ends
  without a last render, so from its guard on, no step may make more interfaces due than the rules
  name; a request renders last, and ends with exactly what is due (`Ruled`). The pass starts from whatever earlier
  failures left, so this needs that the request's memory and the pending record agree (`Asked`,
  `Pended`), and that the panel deletes only VLANs (`Rooted`): the link of a segment that is no
  VLAN must be there, since no call adds it. Each call has a lemma on what it does when it does
  not fail (`Calm...`), and each group of actions one on what it keeps (`Heal...`).
- *Records.* An address outlives the request that put it there in one of four ways: the claim,
  a ledger, a link the panel owns, or the pending record (`Named`); an open transaction keeps
  the same account of what it would go back to (`Returns`), where the claim made inside it is
  matched by the candidate in the request's memory. `NInv` of `SegmentRecordProofs` adds what the
  request asked for, from `SegmentProofs`, and how far it got (`Preflight`, `Undone`), that no address
  is left on a link that is gone (`OnLinks`), and which column of the claim an address can be in
  (`Columns`): the claim is written column by column, and an IPv4 address must not come back as
  an IPv6 one.
- *Rules.* A ruleset that was read earlier than it is rendered (the transitional one, a
  restore's guard) still covers what the records name when it is rendered (`Rendered`); all
  others read the records as they stand, which name every carrier.
- *Refresh.* Nobody else moves the selection while a refresh applies, because it holds
  `apply_lock` (`Stage`, `Guarded`): it is still the node the merge saw, until the refresh
  commits the replacement, which is never that node itself. The identities remembered of a
  shrunken answer are those of the last answer merged (`Remembered`), so a deletion they
  confirm was announced.
- *Selection.* The node that is active, the one being applied and the one a connect has read each
  have a row or are in `cut` (`CutInv`): a selection comes from an apply, an apply from a request
  or from the selection, and every step that deletes a row while one of the three names it
  records it. The merge deletes nothing that is active, and a refresh retires the node it has left.
- *Ladder.* `Truth` of `SubRefreshProofs` relates the active row to everything the tunnel may
  come to run on: what runs and what lies on disk while no apply is between its load and its
  commit, and what that apply would bring back (`Kept`). The row, what a refresh applies and what
  it may write back keep the rank of the operator's last choice (`RowRank`), and so does each
  config of the active node in `Kept` (`TunnelRank`). Each also looks like the row, unless the refresh
  still owes an apply or a write-back, and then like the row it has at hand (`LookInv`,
  `ReportInv`). Most steps change neither the row nor the report on it (`Calm`), and one lemma
  (`CalmKeeps`) serves them all; commit, merge, write-back and disconnect have their own.
- *Scheduler.* What is queued or running is in flight until `stop()` forgets it (`Tracked`),
  what a tick has yet to submit is not (`Shape`), and all threads on a feed hold the lock the
  table names (`OneLock`), unless a lock was pruned under a thread about to take it.
- *Termination.* Each of the three `OperationsNeverTurnBack` counts the calls an operation can
  still make, from where it is, and shows that every step of it lowers the count whatever fails, and
  that no step of anyone else moves it, a crash or a reboot apart. In the segment the count of a
  pass depends on who runs it: the recovery of a request runs the pass once more and then only
  undoes, a boot first undoes and then runs it.

Only model-checked: the liveness properties, which are outside what the prover handles
(`OperationsEnd`, `RevocationCompletes`, `GoodStandbyIsFound`, `AllDownIsReported`,
`EveryFeedIsTried`). The theorems on termination give the part of `OperationsEnd` and
`RevocationCompletes` that needs no fairness: no operation can go round in a circle. Every
safety invariant and action property of the passing runs has a theorem.

## Findings

Two runs end in a violation: what the code does is not what a line of the repository says.
`PROJECT.json` quotes the lines.

- `failover_count`: the on-demand probe of a node writes back the failure counter it read
  before its pings. A success in between is lost, and fewer failures in a row than the
  hysteresis make the panel leave the node.
- `subs_delete`: a node is detached and the feed still lists it. The merge adds a second row
  of its identity, and the subscription can then not be deleted: setting its rows to manual
  breaks the unique index.

Five more can be reproduced with a configuration kept here; they are not among the runs of
`PROJECT.json`:

- `Gateway_rollback.cfg` (`MCGateway`): `prev_active_node_id` is "the node a rollback would
  return to", but a disconnect overwrites it while the config snapshot stays. Connect A, connect
  B, disconnect, rollback: A's config is live and B is selected. The same holds after a crash
  between the config write and the intent marker: `apply_node`'s recovery takes a valid previous
  node as proof that the rolled-back config is that node's.
- `RwRevocation_resume.cfg` (`MCRwRevocation`): a resume applies inside the transaction that
  grants; when it fails, the recovery has compared the restored config with a grant that is
  then rolled back. A suspended device can be served with no marker.
- `SubRefresh_rekey.cfg` (`MCSubRefresh`): `_CONFIG_FIELDS` names neither `password` nor
  `method` nor `protocol`, although the config builder writes them. A feed that changes only
  those changes the row, and the tunnel keeps running on the old ones.
- `SubRefresh_select.cfg` (`MCSubRefresh`): a merge spares the row that `active_node_id` names
  while a switch to another one is being applied. It can delete that other row, because a second
  shrunken answer confirms that the feed no longer lists it; the commit then selects a node that
  has no row. Two more orders lead there: DELETE of a node between the check and the write of
  which the node becomes active, and DELETE of the node a refresh is switching to. The next
  re-apply finds no row and disconnects.
- `SubScheduler_stop.cfg` (`MCSubScheduler`): a tick that had passed its closing check before
  `stop()` set the flag can still build a pool after `stop()` has shut the old one down; the
  comment in `scheduler.py` says that it "must not build a fresh pool behind us".

Exceptions the properties make, each of them a narrow race in the code:

- `lost` (`RecordsKnow`, `RulesFollowSegment`): a PUT or restore overwrites a pending undo
  record that is still unresolved; an automatic IPv6 address claimed inside a transaction that
  is rolled back is known only to the request's memory, and to nobody when the read-back fails,
  when the survivors cannot be recorded or when the panel dies; an address wanted again leaves the stale ledger before the claim on it is
  written.
- `stray` (`TunnelIsTheSelectedOne`), until the next apply that succeeds: a config promoted by
  POST /rollback; one left by a switch that could not record its intent, could not undo its
  config write, or was cut off before the intent; that of a switch that could not be committed,
  once its intent is gone because a later apply failed or its row was deleted. A commit that
  fails is not itself an exception: the switch is on record and the next re-apply completes it.
- `cut` (`SelectionHasRow`): a row deleted by a merge, by a retiring refresh or by DELETE under a
  connect or an apply that had read it; and by a DELETE checked before its node became active.
- `parted` (`LadderHoldsUnlessRaced`, `StoredIsRunning`), until the next apply that succeeds or a
  disconnect. `edited`: the row was changed under an apply that had read it, or by a PATCH checked before
  its node became active. `overtaken`: another apply loaded the row a refresh had merged, the
  refresh's own apply then failed, and the old row was written back under no lock. `stray`: a failed apply could not roll the
  config back, or brought back one that is not the active node's. For `StoredIsRunning` also
  `unsaved`: a commit, an intent or the write-back raised, or a crash came before it. A
  failed auto-switch or re-apply whose rollback succeeds is no exception.
- `want` at the rebuild (`StoppedStaysStopped`): a child that is still wanted and dies between the
  sample of a revocation and the reload of its rebuild is started by that reload, on the config
  the revocation has written.
- `refused` (`ExcessIsMarked`): see `RwRevocation_resume.cfg` above.
- `stuck` with `toggle` (`TunnelIsSelected`): a switch fails and its child survives the stop,
  still on the new node's config; the guard holds the traffic, until a kill-switch change syncs
  the rules and sends it into that child.
- `stuck` with `dies` (`StopIsRespected`): a child that outlived the operator's stop is seen
  running by a revocation, dies during its rebuild, and is started again by the reload.
- `orphaned` (`OneRefreshAtATime`): the lock table is pruned by a list of subscriptions read
  before one was added, under a thread that has fetched its lock and not yet taken it.

Seen while modelling and not kept as runs: a boot after a crash in the middle of an undo
resumes the switch that had failed; a stale provenance marker that could not be unlinked can
validate again; a sweep's success decays the backoff although the comment above it says that
one success resets it (`health/monitor.py:61-63`); a pass that finds the ownership record blank
stages nothing, whatever the old interface carries; a link probe without answer puts a VLAN
that was there before into the ledger of links the panel made; a management-only boot turns
forwarding on; the prefix poll marks a prefix as seen before its callback has succeeded; the
armed record of a PUT stays when its read-back fails.

## Not modelled

- Text and data: the config builder, the rule renderer, the feed parsers, schemas, key
  material, the text of the ledgers, the backup document. The modules take their results as
  values. They are functions of their input, which table tests reach.
- I/O: probes, fetching, downloads, logs, the dhclient child and its hook.
- Counters and reports that no other part reads: statistics, devices, diagnosis, updates, geo
  data, connection events.
- Access control of the panel: login, sessions, tokens.
- The frontend, and generated protobuf code.
- Within the modelled parts: LAN-access rules; IPv6 or dnsmasq management switched off; the
  kill switch off during a segment change; the classification of a remote-access change as
  narrowing; shutdown; stale nodes in failover; the second PD watcher that a timed-out join
  could leave; capped feed answers and the lifecycle columns of a subscription; several
  subscriptions that share one tunnel; a live profile edit and its apply in one transaction.
- Failures the modules leave out: in `RwRevocation` the commit of `apply_node` and of a widening's
  transaction (they fail in `Gateway`); in `Failover` one of the two stamps of a switch failing
  without the other; in `ConfigManager` a kill between a rename and its fsync, which leaves what
  a failed fsync leaves; in `SegmentChange` the settings write of a restore before its recovery
  pass, and the switching off of forwarding after a failed deny; in `Provision` the removal of
  the NetworkManager drop-in with segment management off, and one of the two reads before the
  narrowing failing without the other. `RecordCandidate` counts as `lost` every address on the
  interface of the overwritten record, also one that the claim still names.
