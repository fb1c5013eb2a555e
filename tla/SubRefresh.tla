---- MODULE SubRefresh ----
(***************************************************************************)
(* A subscription refresh beside everything else that touches node rows    *)
(* and the tunnel: subs/service.py (refresh), subs/reconcile.py, the node  *)
(* and subscription routes, and apply_node as far as they share it.        *)
(*                                                                         *)
(* refresh() fetches without any lock, merges in one store transaction,    *)
(* re-applies the active node under apply_lock, and writes a row back      *)
(* under no lock when that failed.  Between these steps the operator (or   *)
(* failover) connects, disconnects, edits, deletes and detaches nodes and  *)
(* changes or deletes the subscription, and the panel may crash.           *)
(*                                                                         *)
(* One subscription; its refreshes are serial (SubScheduler is about       *)
(* that).  A node row is named by the identity it was created with and a   *)
(* generation: ids are AUTOINCREMENT, so a deleted row's id is not reused. *)
(* What the generated config takes from a node is one value of Cfg, with a *)
(* rank on the security ladder and a look, the part of it that             *)
(* _config_differs compares: password, method and protocol are not in      *)
(* _CONFIG_FIELDS.                                                         *)
(***************************************************************************)
EXTENDS Naturals, FiniteSets

CONSTANTS
    Ident,          \* node identities: address, port, uuid, path, sni, short_id
    Gen,            \* how many rows of one identity are ever created: 1..n
    Cfg,            \* what a node brings into the xray config
    Rank,           \* _SECURITY_RANK of each
    Look,           \* the values of its _CONFIG_FIELDS
    Url,            \* url and injection of the subscription, as one value
    Feeds,          \* the answers a fetch may bring: identity -> config fields
    None,           \* no row, no node, no subscription
    Gone,           \* a row that was deleted
    MaxRefreshes,   \* bound on refreshes
    MaxOps          \* bound on requests, edits and crashes

Id == Ident \X Gen
MaybeId == Id \cup {None}
Row == [cfg : Cfg, mine : BOOLEAN, stale : BOOLEAN]

\* What the tunnel runs on, and an apply in progress: for whom, of what, and over what.
Tunnel == {None} \cup [id : Id, cfg : Cfg]
Applies == [by : {"op", "start", "boot", "ref"}, id : Id, cfg : Cfg, was : Tunnel,
            step : {"load", "commit", "retire"}]

ASSUME RefreshAssumption ==
    /\ None \notin Id \cup Row \cup Applies /\ Gone \notin Row
    /\ Gen \subseteq Nat \ {0} /\ IsFiniteSet(Gen) /\ 1 \in Gen
    /\ Rank \in [Cfg -> 0..2]
    /\ DOMAIN Look = Cfg
    /\ \A f \in Feeds : DOMAIN f \subseteq Ident /\ DOMAIN f # {} /\ \A i \in DOMAIN f : f[i] \in Cfg
    /\ None \notin Url
    /\ MaxRefreshes \in Nat /\ MaxOps \in Nat

VARIABLES
    rows,       \* the nodes table
    url,        \* the subscription, None when deleted
    shrink,     \* settings: subscription_shrink:<id>, the identities of the last shrunken answer
    active,     \* settings: active_node_id
    pending,    \* settings: pending_active_node_id
    run,        \* the node and config the tunnel runs on, None when down
    live,       \* the config on disk: what a failed apply may bring back
    pc,         \* refresh(): "off", "fetch", "merge", "restart", "apply", "writeback"
    got,        \* its locals: the url fetched, the answer, and what the merge saw and reported
                \* (taken is history: another apply has loaded the merged row)
    job,        \* the apply in progress; None exactly when apply_lock is free
    ask,        \* a connect that has read its row and waits for the lock
    edit,       \* a PATCH or DELETE of a node that has passed its check
    floor,      \* history: the highest rank since a node was last chosen, or a race settled
    parted,     \* history: why the tunnel and the row of the active node may be out of step
    cut,        \* history: the ids whose row was deleted under an apply, or while selected
    offered,    \* history: the identities of the last answer merged
    refreshes, ops

store == <<rows, url, shrink, active, pending>>
refresh == <<pc, got>>
tunnel == <<run, live>>
history == <<floor, parted, cut, offered>>
vars == <<store, tunnel, refresh, job, ask, edit, history, refreshes, ops>>

Nothing == [url |-> None, feed |-> <<>>, active |-> None, old |-> None,
            changed |-> FALSE, swap |-> None, taken |-> FALSE]

Exists(id) == id # None /\ rows[id] \in Row
Mine == {id \in Id : Exists(id) /\ rows[id].mine}

\* get_node_by_identity(sub_id, ...)
RowOf(i) == IF \E id \in Mine : id[1] = i THEN CHOOSE id \in Mine : id[1] = i ELSE None

\* uq_nodes_identity: one row per identity in the subscription, and one among the manual ones.
Unique(table) ==
    \A x, y \in {id \in Id : table[id] \in Row} :
        x[1] = y[1] /\ table[x].mine = table[y].mine => x = y

\* Mutant: the ladder is not consulted.
SecurityKeptIgnored(old, new) == old = old /\ new = new

\* security_kept
SecurityKept(old, new) == Rank[new] >= Rank[old]

\* _config_differs
ConfigDiffers(old, new) == Look[old] # Look[new]

Serving == job # None => job.by # "boot"
Spend == ops < MaxOps /\ ops' = ops + 1

\* Why the tunnel and the stored row may part, from then until an apply succeeds or the operator
\* disconnects: the row was changed under an apply that had read it, or by an edit checked before
\* its node became active; a refresh wrote its old row back after another apply had loaded the
\* merged one; a store write of an apply, or that write-back, raised or was cut off; a failed
\* apply left or brought back a config that is not the active node's.
Races == {"edited", "overtaken"}
Causes == Races \cup {"unsaved", "stray"}
If(cause, holds) == IF holds THEN {cause} ELSE {}

\* A connect has read the row and waits, or an apply of it is in progress.
InHand(id) == (ask # None /\ ask.id = id) \/ (job # None /\ job.id = id)
CutUnderApply == {id \in Id : Exists(id) /\ rows'[id] = Gone /\ InHand(id)}

-----------------------------------------------------------------------------
(* apply_node, under apply_lock                                            *)

\* previous_node: there is something to come back to only with the active node's row.
Over(disk) == IF Exists(active) THEN disk ELSE None
Job(by, id, disk) ==
    [by |-> by, id |-> id, cfg |-> rows[id].cfg, was |-> Over(disk), step |-> "load"]
Loaded == [id |-> job.id, cfg |-> job.cfg]

\* History: an apply other than the refresh's own leaves a row the refresh has merged on disk.
Overtakes ==
    /\ job.by # "ref" /\ live' = Loaded
    /\ job.id = got.active /\ got.old # None /\ job.cfg # got.old.cfg

\* Mutant: the refresh never learns that its apply ended.
ReleaseUnheard(by, next) == job' = None /\ UNCHANGED refresh /\ by = by /\ next = next

\* The lock is released; a refresh goes on with its result, or ends when apply_node raised.
Release(by, next) ==
    /\ job' = None
    /\ pc' = IF by = "ref" THEN next ELSE pc
    /\ got' = IF by = "ref" /\ next = "off" THEN Nothing
              ELSE [got EXCEPT !.taken = @ \/ Overtakes]

\* History: the row is still the one the apply had read.
Matches == Exists(job.id) /\ rows[job.id].cfg = job.cfg

\* History: the refresh ends and leaves the row it has merged.
Abandons == job.by = "ref" /\ got.changed

\* The config is written, the intent recorded, xray reloaded.  A config that is refused
\* changes nothing; a store call that raises ends the apply, before or after the write.
Load ==
    /\ job # None /\ job.step = "load"
    /\ \/ /\ run' = Loaded /\ live' = Loaded
          /\ pending' = job.id
          /\ job' = [job EXCEPT !.step = "commit"]
          /\ UNCHANGED <<refresh, parted, ops>>
       \/ UNCHANGED <<tunnel, pending, parted, ops>> /\ Release(job.by, "writeback")
       \/ /\ Spend
          /\ live' \in {live, Loaded}
          /\ Release(job.by, "off")
          /\ parted' = parted \cup If("edited", ~Matches) \cup If("unsaved", Abandons)
          /\ UNCHANGED <<run, pending>>
    /\ UNCHANGED <<rows, url, shrink, active, ask, edit, floor, cut, offered, refreshes>>

\* History: the config on disk is not the one replaced, or not the active node's.
Strays == live' # job.was \/ (live' # None /\ live'.id # active)

\* The reload or the rules failed: the config it replaced comes back if there was a node, or
\* nothing runs.  The rollback may fail, and so may the write that clears the intent.
Undo ==
    /\ job # None /\ job.step = "commit"
    /\ live' \in {job.was, Loaded}
    /\ run' \in {None} \cup (IF live' = job.was THEN {job.was} ELSE {})
    /\ \/ /\ pending' = None
          /\ Release(job.by, "writeback")
          /\ parted' = parted \cup If("stray", Strays)
          /\ UNCHANGED ops
       \/ /\ Spend
          /\ Release(job.by, "off")
          /\ parted' = parted \cup If("stray", Strays) \cup If("unsaved", Abandons)
          /\ UNCHANGED pending
    /\ UNCHANGED <<rows, url, shrink, active, ask, edit, floor, cut, offered, refreshes>>

\* History: the operator's connect, or the boot or start that completes a switch.
Chosen == job.by = "op" \/ (job.by \in {"boot", "start"} /\ job.id # active)

\* The selection changes and the intent goes in one transaction.  When it raises, the tunnel
\* stays on the new config, and the intent on record.
Commit ==
    /\ job # None /\ job.step = "commit"
    /\ UNCHANGED tunnel
    /\ \/ /\ active' = job.id /\ pending' = None
          /\ floor' = IF Chosen \/ parted \cap Races # {} \/ Rank[job.cfg] > floor
                      THEN Rank[job.cfg] ELSE floor
          /\ parted' = If("edited", ~Matches)
          /\ IF job.by = "ref" /\ got.swap = job.id
             THEN job' = [job EXCEPT !.step = "retire"] /\ UNCHANGED refresh
             ELSE Release(job.by, "off")
          /\ UNCHANGED ops
       \/ /\ Spend
          /\ Release(job.by, "off")
          /\ floor' = IF Chosen /\ Rank[job.cfg] < floor THEN Rank[job.cfg] ELSE floor
          /\ parted' = parted \cup If("edited", ~Matches) \cup If("unsaved", job.id # active)
          /\ UNCHANGED <<active, pending>>
    /\ UNCHANGED <<rows, url, shrink, ask, edit, cut, offered, refreshes>>

\* _restart_active deletes the node it replaced, or the deletion raises.
Retire ==
    /\ job # None /\ job.step = "retire"
    /\ \/ rows' = (IF Exists(got.active) THEN [rows EXCEPT ![got.active] = Gone] ELSE rows)
          /\ UNCHANGED ops
       \/ Spend /\ UNCHANGED rows
    /\ cut' = cut \cup CutUnderApply
    /\ Release("ref", "off")
    /\ UNCHANGED <<url, shrink, active, pending, tunnel, ask, edit, floor, parted, offered, refreshes>>

\* _pending_or_active and reapply_active_node: the interrupted switch if its node still
\* exists, else the active node; a node that is missing is disconnected.
PendingOrActive == IF Exists(pending) THEN pending ELSE active

Reapply(by, running, disk) ==
    IF Exists(PendingOrActive)
    THEN /\ job' = Job(by, PendingOrActive, disk)
         /\ run' = running /\ live' = disk
         /\ pending' = IF Exists(pending) THEN pending ELSE None
         /\ UNCHANGED active
    ELSE job' = None /\ run' = None /\ live' = None /\ pending' = None /\ active' = None

\* POST /xray/start, and every settings, profile or routing change that re-applies.
XrayStart ==
    /\ job = None /\ Spend
    /\ Reapply("start", run, live)
    /\ UNCHANGED <<rows, url, shrink, refresh, ask, edit, history, refreshes>>

\* Killed inside a config write or a rollback, the panel finds either config on disk.
Torn == {live} \cup (IF job = None THEN {}
                     ELSE IF job.step = "load" THEN {Loaded}
                     ELSE IF job.step = "commit" THEN {job.was} ELSE {})

\* Threads and xray die with the panel; the boot re-applies before it serves.
Crash ==
    /\ Spend
    /\ \E disk \in Torn : Reapply("boot", None, disk)
    /\ pc' = "off" /\ got' = Nothing /\ ask' = None /\ edit' = None
    /\ parted' = parted \cup If("edited", job # None /\ ~Matches) \cup If("unsaved", got.changed)
    /\ UNCHANGED <<rows, url, shrink, floor, cut, offered, refreshes>>

-----------------------------------------------------------------------------
(* Requests                                                                *)

\* POST /nodes/{id}/apply, connect-best and failover read the row, then wait for the lock.
Connect(id) ==
    /\ Serving /\ ask = None /\ Spend
    /\ Exists(id)
    /\ ask' = [id |-> id, cfg |-> rows[id].cfg]
    /\ UNCHANGED <<store, tunnel, refresh, job, edit, history, refreshes>>

BeginApply ==
    /\ job = None /\ ask # None
    /\ job' = [by |-> "op", id |-> ask.id, cfg |-> ask.cfg, was |-> Over(live), step |-> "load"]
    /\ ask' = None
    /\ UNCHANGED <<store, tunnel, refresh, edit, history, refreshes, ops>>

\* The tunnel is closed, then the selection goes, unless that write raises.  With nothing
\* selected no apply brings the config on disk back.
Disconnect ==
    /\ job = None /\ active # None /\ Spend
    /\ run' = None
    /\ \/ active' = None /\ live' = None /\ floor' = 0 /\ parted' = {}
       \/ UNCHANGED <<active, live, floor, parted>>
    /\ UNCHANGED <<rows, url, shrink, pending, refresh, job, ask, edit, cut, offered, refreshes>>

\* PATCH and DELETE /nodes/{id}: the row is read and the active node refused; the write
\* comes later and under no lock.
CheckEdit(id) ==
    /\ Serving /\ edit = None /\ Spend
    /\ Exists(id) /\ active # id
    /\ \/ \E c \in Cfg : edit' = [id |-> id, row |-> [rows[id] EXCEPT !.cfg = c]]
       \/ edit' = [id |-> id, row |-> Gone]
    /\ UNCHANGED <<store, tunnel, refresh, job, ask, history, refreshes>>

\* update_node writes every column of the row that was read; delete_node.  A write that
\* would break the index is refused.
Updated(id, row) == IF Exists(id) THEN [rows EXCEPT ![id] = row] ELSE rows

WriteEdit ==
    /\ edit # None
    /\ LET table == Updated(edit.id, edit.row) IN
       rows' = IF Unique(table) THEN table ELSE rows
    /\ parted' = parted \cup If("edited", edit.id = active /\ rows' # rows)
    /\ cut' = cut \cup CutUnderApply \cup (IF edit.row = Gone THEN {edit.id} \cap {active} ELSE {})
    /\ edit' = None
    /\ UNCHANGED <<url, shrink, active, pending, tunnel, refresh, job, ask, floor, offered,
                   refreshes, ops>>

\* detach_nodes; one id per call.
Detach(id) ==
    /\ Serving /\ Spend
    /\ id \in Mine
    /\ rows' = [rows EXCEPT ![id].mine = FALSE]
    /\ Unique(rows')
    /\ UNCHANGED <<url, shrink, active, pending, tunnel, refresh, job, ask, edit, history,
                   refreshes>>

PatchSub(u) ==
    /\ Serving /\ Spend
    /\ url # None /\ u # url
    /\ url' = u
    /\ UNCHANGED <<rows, shrink, active, pending, tunnel, refresh, job, ask, edit, history,
                   refreshes>>

\* delete_subscription: every node becomes manual, in one transaction, which the index may
\* refuse.
AllManual == [id \in Id |-> IF id \in Mine THEN [rows[id] EXCEPT !.mine = FALSE] ELSE rows[id]]

DeleteSub ==
    /\ Serving /\ Spend
    /\ url # None
    /\ rows' = AllManual /\ Unique(rows')
    /\ url' = None /\ shrink' = {}
    /\ UNCHANGED <<active, pending, tunnel, refresh, job, ask, edit, history, refreshes>>

-----------------------------------------------------------------------------
(* refresh()                                                               *)

EndRefresh == pc' = "off" /\ got' = Nothing

BeginRefresh ==
    /\ Serving /\ pc = "off" /\ url # None
    /\ refreshes < MaxRefreshes /\ refreshes' = refreshes + 1
    /\ pc' = "fetch" /\ got' = [Nothing EXCEPT !.url = url]
    /\ UNCHANGED <<store, tunnel, job, ask, edit, history, ops>>

\* A failed fetch, and an answer with no usable node, only set the status.
Fetch ==
    /\ pc = "fetch"
    /\ \/ \E f \in Feeds : pc' = "merge" /\ got' = [got EXCEPT !.feed = f]
       \/ EndRefresh
    /\ UNCHANGED <<store, tunnel, job, ask, edit, history, refreshes, ops>>

\* len(parsed) < len(existing) * 0.5
Anomalous(feed) == 2 * Cardinality(DOMAIN feed) < Cardinality(Mine)

\* Mutant: a marked row goes with any second shrunken answer.
ConfirmedByAny(feed) == shrink # {}

\* The same identities as in the shrunken answer before this one.
Confirmed(feed) == shrink = DOMAIN feed

\* A row the answer leaves out stays, flagged, until its absence is confirmed.
Withheld(feed, id) == Anomalous(feed) /\ ~(Confirmed(feed) /\ rows[id].stale)

Weakens(feed, act, id) ==
    id = act /\ id[1] \in DOMAIN feed /\ ~SecurityKept(rows[id].cfg, feed[id[1]])

\* The id the next row of an identity gets.
FreshId(i) == <<i, CHOOSE g \in Gen : rows[<<i, g>>] = None>>
Room(feed) == \A i \in DOMAIN feed : RowOf(i) # None \/ \E g \in Gen : rows[<<i, g>>] = None

\* reconcile(): the nodes table after the merge of an answer.
Merged(feed, act) ==
    [id \in Id |->
        LET listed == id[1] \in DOMAIN feed
            offer == [cfg |-> feed[id[1]], mine |-> TRUE, stale |-> FALSE]
        IN CASE id \in Mine /\ listed /\ Weakens(feed, act, id) -> rows[id]
             [] id \in Mine /\ listed /\ ~Weakens(feed, act, id) -> offer
             [] id \in Mine /\ ~listed -> IF Withheld(feed, id) \/ id = act
                                          THEN [rows[id] EXCEPT !.stale = TRUE]
                                          ELSE Gone
             [] id \notin Mine -> IF listed /\ RowOf(id[1]) = None /\ id = FreshId(id[1])
                                  THEN offer ELSE rows[id]]

\* What it reports of the active node.
ActiveChanged(feed, act) ==
    /\ act \in Mine /\ act[1] \in DOMAIN feed
    /\ SecurityKept(rows[act].cfg, feed[act[1]]) /\ ConfigDiffers(rows[act].cfg, feed[act[1]])

ActiveReplacement(feed, act, table) ==
    LET fresh == {id \in Id : table[id] \in Row /\ table[id].mine /\ ~table[id].stale}
    IN IF /\ act \in Mine /\ act[1] \notin DOMAIN feed /\ ~Withheld(feed, act)
          /\ \E id \in Id : fresh = {id}
       THEN CHOOSE id \in fresh : TRUE
       ELSE None

\* Deleted, or its url or injection edited, during the fetch.
ChangedMeanwhile == url = None \/ url # got.url

\* The merge transaction: the subscription and the active node are read inside it.  It
\* may fail as a whole, and a refused downgrade of the active row fails the refresh
\* although the rest of the merge stays.
MergeAs(act) ==
    /\ pc = "merge"
    /\ \/ EndRefresh /\ UNCHANGED <<rows, shrink, offered>>
       \/ /\ ~ChangedMeanwhile /\ Room(got.feed)
          /\ rows' = Merged(got.feed, act)
          /\ shrink' = IF Anomalous(got.feed) THEN DOMAIN got.feed ELSE {}
          /\ offered' = DOMAIN got.feed
          /\ IF act \in Mine /\ Weakens(got.feed, act, act)
             THEN EndRefresh
             ELSE /\ pc' = "restart"
                  /\ got' = [got EXCEPT !.feed = <<>>, !.active = act,
                                !.old = IF Exists(act) THEN rows[act] ELSE None,
                                !.changed = ActiveChanged(got.feed, act),
                                !.swap = ActiveReplacement(got.feed, act, rows')]
    /\ cut' = cut \cup CutUnderApply
    /\ UNCHANGED <<url, active, pending, tunnel, job, ask, edit, floor, parted, refreshes, ops>>

\* Mutant: the row being switched to is taken for the active one.
MergeSparesPending == MergeAs(IF pending # None THEN pending ELSE active)

Merge == MergeAs(active)

\* _auto_switch_allowed, with the setting subs_auto_switch on
AutoSwitchAllowed ==
    /\ Exists(got.swap)
    /\ Exists(got.active) => SecurityKept(rows[got.active].cfg, rows[got.swap].cfg)

\* Mutant: the active node is not read again under the lock.
StandDownNever == FALSE

\* The tunnel moved during the refresh.
StandDown == active # got.active

\* _restart_active takes apply_lock, and keeps it while it applies.
Restart(autoSwitch) ==
    /\ pc = "restart" /\ job = None
    /\ LET swapping == ~StandDown /\ autoSwitch /\ AutoSwitchAllowed
           changing == ~StandDown /\ ~swapping /\ got.changed /\ Exists(got.active)
           weaker == changing /\ ~SecurityKept(got.old.cfg, rows[got.active].cfg)
       IN \/ swapping /\ pc' = "apply" /\ job' = Job("ref", got.swap, live) /\ UNCHANGED got
          \/ changing /\ ~weaker /\ pc' = "apply" /\ job' = Job("ref", got.active, live)
                      /\ UNCHANGED got
          \/ weaker /\ pc' = "writeback" /\ UNCHANGED <<job, got>>
          \/ ~swapping /\ ~changing /\ EndRefresh /\ UNCHANGED job
    /\ UNCHANGED <<store, tunnel, ask, edit, history, refreshes, ops>>

\* Mutant: the row the merge changed is left when the apply fails.
WriteBackSkipped ==
    /\ pc = "writeback"
    /\ EndRefresh
    /\ UNCHANGED <<store, tunnel, job, ask, edit, history, refreshes, ops>>

\* The row read before the merge, put back where it belongs to the subscription.
Restored == IF got.old # None /\ got.old.mine THEN Updated(got.active, got.old) ELSE rows
Rewrites == Exists(got.active) /\ Restored[got.active].cfg # rows[got.active].cfg

\* The apply failed: the row read before the merge is written back, under no lock.  The write
\* itself may fail, and is refused where it would break the index.
WriteBack ==
    /\ pc = "writeback"
    /\ \/ /\ Unique(Restored) /\ rows' = Restored
          /\ parted' = parted \cup If("overtaken", got.taken /\ active = got.active /\ Rewrites)
          /\ UNCHANGED ops
       \/ /\ Spend \/ (~Unique(Restored) /\ UNCHANGED ops)
          /\ parted' = parted \cup If("unsaved", Rewrites)
          /\ UNCHANGED rows
    /\ EndRefresh
    /\ UNCHANGED <<url, shrink, active, pending, tunnel, job, ask, edit, floor, cut, offered,
                   refreshes>>

-----------------------------------------------------------------------------

\* Ranges, the identity index, and: a refresh applies exactly while its job holds the lock.
TypeOK ==
    /\ rows \in [Id -> Row \cup {None, Gone}] /\ Unique(rows)
    /\ url \in Url \cup {None} /\ shrink \subseteq Ident
    /\ active \in MaybeId /\ pending \in MaybeId
    /\ run \in Tunnel /\ live \in Tunnel /\ job \in Applies \cup {None}
    /\ pc \in {"off", "fetch", "merge", "restart", "apply", "writeback"}
    /\ got.url \in Url \cup {None} /\ got.active \in MaybeId /\ got.swap \in MaybeId
    /\ got.old \in Row \cup {None} /\ got.changed \in BOOLEAN /\ got.taken \in BOOLEAN
    /\ (pc = "apply") = (job # None /\ job.by = "ref")
    /\ floor \in 0..2 /\ parted \subseteq Causes /\ cut \subseteq Id /\ offered \subseteq Ident
    /\ refreshes \in 0..MaxRefreshes /\ ops \in 0..MaxOps

\* A subscription that has been refreshed once, and a tunnel on one of its nodes, or none.
Init ==
    /\ rows \in [Id -> Row \cup {None, Gone}]
    /\ \A id \in Id : IF id[2] = 1 THEN rows[id] \in [cfg : Cfg, mine : {TRUE}, stale : {FALSE}]
                                   ELSE rows[id] = None
    /\ url \in Url /\ shrink = {} /\ offered = Ident
    /\ active \in {None} \cup {<<i, 1>> : i \in Ident} /\ pending = None
    /\ run = IF active = None THEN None ELSE [id |-> active, cfg |-> rows[active].cfg]
    /\ live = run
    /\ pc = "off" /\ got = Nothing /\ job = None /\ ask = None /\ edit = None
    /\ floor = (IF active = None THEN 0 ELSE Rank[rows[active].cfg])
    /\ parted = {} /\ cut = {}
    /\ refreshes = 0 /\ ops = 0

Apply == Load \/ Undo \/ Commit \/ Retire \/ BeginApply
RefreshStep == BeginRefresh \/ Fetch \/ Merge \/ WriteBack \/ \E on \in BOOLEAN : Restart(on)
Request ==
    \/ XrayStart \/ Disconnect \/ DeleteSub
    \/ \E id \in Id : Connect(id) \/ CheckEdit(id) \/ Detach(id)
    \/ \E u \in Url : PatchSub(u)

Next == Apply \/ RefreshStep \/ Request \/ WriteEdit \/ Crash

Spec == Init /\ [][Next]_vars

-----------------------------------------------------------------------------
(* Properties                                                              *)

\* An answer with fewer than half of the nodes deletes nothing by itself: a row it deletes
\* was already missing from the answer merged before, which listed the same identities,
\* whatever was edited, detached or re-applied in between (reconcile's shrink guard).
ShrinkIsConfirmed ==
    [][pc = "merge" /\ pc' # "merge" /\ Anomalous(got.feed)
         => \A id \in Mine : rows'[id] = Gone => offered = DOMAIN got.feed /\ id[1] \notin offered]_vars

\* active_node_id names a row that exists, however the steps of a refresh, connects, edits,
\* failing store writes and crashes fall.  The exceptions: a row that a merge, a retiring refresh
\* or a DELETE removed while a connect that had read it waited or its apply was in progress,
\* which the commit then selects; and a DELETE checked before its node became active.
SelectionHasRow == active # None => Exists(active) \/ active \in cut

\* Without the exceptions, as reconcile promises of its merge: "EXCEPT the active node is never
\* removed (flagged stale instead) so a live connection survives".
SelectedRowStands == active # None => Exists(active)

\* A tunnel moves by a refresh only from the node the merge saw active, and only to the one
\* node the subscription has left: a connect or a failover during the refresh is not undone.
RefreshRevertsNoSwitch ==
    [][(pc = "apply" /\ active' \notin {active, None})
            => (active = got.active /\ active' = got.swap)]_vars

\* "A feed-driven change to the live tunnel may move up this ladder or stay level, never
\* down": from one choice of the operator to the next, whatever is refreshed, re-applied or
\* booted in between runs at least at the highest rank seen since that choice.
LadderHolds == job = None /\ run # None => Rank[run.cfg] >= floor

\* The same, whichever step or store write fails, except from one of these until an apply succeeds
\* or the operator disconnects: a row changed under an apply that had read it, or by an edit
\* checked before its node became active; a refresh's lock-less write-back over a row that
\* another apply had loaded since the merge; a failed apply whose rollback failed, or brought
\* back a config of a node that is not the active one.
LadderHoldsUnlessRaced == parted \cap (Races \cup {"stray"}) # {} \/ LadderHolds

\* delete_subscription: "Detach nodes (→ manual) so a live/active connection survives, then
\* drop the sub."  A subscription can always be deleted so: its nodes fit among the manual ones.
SubscriptionIsDeletable == url # None => Unique(AllManual)

\* Between refreshes the stored row of the active node is what the tunnel runs on, as far as
\* _config_differs can see: a refresh whose apply failed has put the row back.  Besides the
\* exceptions of LadderHoldsUnlessRaced: a commit, an intent or that write-back which raised,
\* or which a crash cut off, until an apply succeeds.
Quiet ==
    parted = {} /\ job = None /\ pc \in {"off", "fetch", "merge"} /\ run # None /\ active # None
StoredIsRunning ==
    Quiet => (run.id = active /\ Exists(active) /\ Look[rows[active].cfg] = Look[run.cfg])

\* reconcile: "the active node stayed (same identity) but a config field changed (e.g. the
\* reality key/sni rotated) -> re-apply it".  Whatever the answer changes in the config of the
\* active node reaches the tunnel.
ChangesAreApplied == Quiet => rows[active].cfg = run.cfg
====
