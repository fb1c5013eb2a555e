---- MODULE SubRefreshProofs ----
(***************************************************************************)
(* Proofs about SubRefresh, for any identities, answers and configs: what  *)
(* a refresh may delete, where it may move the tunnel, when the selection  *)
(* may lack a row, that the tunnel is not weakened, and that the stored    *)
(* row is the one that runs.                                               *)
(***************************************************************************)
EXTENDS SubRefresh, TLAPS

Locals == [url : Url \cup {None}, feed : Feeds \cup {<<>>}, active : MaybeId,
           old : Row \cup {None}, changed : BOOLEAN, swap : MaybeId, taken : BOOLEAN]

Table == [Id -> Row \cup {None, Gone}]

StoreType ==
    /\ rows \in Table /\ Unique(rows)
    /\ url \in Url \cup {None} /\ shrink \subseteq Ident
    /\ active \in MaybeId /\ pending \in MaybeId

LocalType ==
    /\ run \in Tunnel /\ live \in Tunnel /\ got \in Locals
    /\ pc \in {"off", "fetch", "merge", "restart", "apply", "writeback"}
    /\ job = None \/ job \in Applies
    /\ ask = None \/ ask \in [id : Id, cfg : Cfg]
    /\ edit = None \/ edit \in [id : Id, row : Row \cup {Gone}]

CountType ==
    /\ floor \in 0..2 /\ parted \subseteq Causes /\ cut \subseteq Id /\ offered \subseteq Ident
    /\ refreshes \in 0..MaxRefreshes /\ ops \in 0..MaxOps

Types == StoreType /\ LocalType /\ CountType

\* A refresh applies exactly while its job holds apply_lock, and a merge has an answer.
Stage ==
    /\ (pc = "apply") = (job # None /\ job.by = "ref")
    /\ pc = "merge" => got.feed \in Feeds

\* While a refresh applies, nobody else moves the selection: it is still the node the merge saw
\* active, until the refresh itself has committed the replacement.
Guarded ==
    /\ pc \in {"restart", "apply"} => got.swap = None \/ got.swap # got.active
    /\ (pc = "apply" /\ job.step # "retire")
            => active = got.active /\ job.id \in {got.active, got.swap} \ {None}
    /\ (pc = "apply" /\ job.step = "retire") => active = got.swap /\ got.swap # got.active

\* The identities remembered of a shrunken answer are those of the last answer merged.
Remembered == shrink = {} \/ shrink = offered

\* Only a refresh retires a node.
Retiring == job # None /\ job.step = "retire" => job.by = "ref"

\* A write to one row, with the index consulted or the row deleted, keeps the table.
LEMMA UpdatedTable ==
    ASSUME rows \in Table, Unique(rows), NEW id \in Id, NEW row \in Row \cup {Gone}
    PROVE  Updated(id, row) \in Table
BY Zenon DEF Updated, Table

LEMMA RetiredTable ==
    ASSUME rows \in Table, Unique(rows), NEW id \in Id
    PROVE  [rows EXCEPT ![id] = Gone] \in Table /\ Unique([rows EXCEPT ![id] = Gone])
<1> DEFINE table == [rows EXCEPT ![id] = Gone]
<1>1. table \in Table
  BY Zenon DEF Table
<1>2. \A x \in Id : table[x] \in Row => x # id /\ table[x] = rows[x]
  BY RefreshAssumption, Zenon DEF Table, RefreshAssumption
<1>3. Unique(table)
  BY <1>2, Zenon DEF Unique
<1> QED BY <1>1, <1>3, Zenon

LEMMA MineRows == \A id \in Id : id \in Mine <=> rows[id] \in Row /\ rows[id].mine
BY RefreshAssumption, Zenon DEF Mine, Exists, RefreshAssumption

\* get_node_by_identity finds nothing exactly when the subscription has no such row.
LEMMA RowOfNone ==
    ASSUME NEW i
    PROVE  RowOf(i) = None <=> \A id \in Mine : id[1] # i
<1>1. \A id \in Mine : id # None
  BY Zenon DEF Mine, Exists
<1> QED BY <1>1, Zenon DEF RowOf

\* reconcile(), row by row: a row of the subscription is kept, refreshed, flagged or deleted, the
\* last only when it is not listed, not withheld and not active; another row is only ever one
\* that is created for an identity the subscription does not have.
LEMMA MergedRow ==
    ASSUME rows \in Table, NEW feed \in Feeds, NEW act, NEW id \in Id
    PROVE  LET new == Merged(feed, act)[id] IN
           /\ new \in Row \cup {None, Gone}
           /\ id \in Mine => new = Gone \/ (new \in Row /\ new.mine)
           /\ id \in Mine /\ new = Gone
                => id[1] \notin DOMAIN feed /\ ~Withheld(feed, id) /\ id # act
           /\ id \in Mine /\ id[1] \notin DOMAIN feed => new = Gone \/ new.stale
           /\ id \notin Mine /\ new # rows[id]
                => new \in Row /\ new.mine /\ RowOf(id[1]) = None /\ id = FreshId(id[1])
<1> DEFINE new == Merged(feed, act)[id]
           offer == [cfg |-> feed[id[1]], mine |-> TRUE, stale |-> FALSE]
           flagged == [rows[id] EXCEPT !.stale = TRUE]
<1> USE RefreshAssumption DEF RefreshAssumption
<1>1. new = CASE id \in Mine /\ id[1] \in DOMAIN feed /\ Weakens(feed, act, id) -> rows[id]
              [] id \in Mine /\ id[1] \in DOMAIN feed /\ ~Weakens(feed, act, id) -> offer
              [] id \in Mine /\ id[1] \notin DOMAIN feed ->
                    IF Withheld(feed, id) \/ id = act THEN flagged ELSE Gone
              [] id \notin Mine -> IF id[1] \in DOMAIN feed /\ RowOf(id[1]) = None /\ id = FreshId(id[1])
                                  THEN offer ELSE rows[id]
  BY Zenon DEF Merged
<1> HIDE DEF new
<1>2. id[1] \in DOMAIN feed => offer \in Row /\ offer.mine
  BY Zenon DEF Row
<1>3. id \in Mine => rows[id] \in Row /\ rows[id].mine
  BY MineRows, Zenon
<1>4. id \in Mine => flagged \in Row /\ flagged.mine /\ flagged.stale
  BY <1>3, Zenon DEF Row
<1>5. rows[id] \in Row \cup {None, Gone}
  BY Zenon DEF Table
<1> HIDE DEF offer, flagged
<1>6. CASE id \in Mine /\ id[1] \in DOMAIN feed /\ Weakens(feed, act, id)
  <2>1. new = rows[id]
    BY <1>1, <1>6, Zenon
  <2> QED BY <2>1, <1>3, <1>6, Zenon DEF new
<1>7. CASE id \in Mine /\ id[1] \in DOMAIN feed /\ ~Weakens(feed, act, id)
  <2>1. new = offer
    BY <1>1, <1>7, Zenon
  <2> QED BY <2>1, <1>2, <1>7, Zenon DEF new
<1>8. CASE id \in Mine /\ id[1] \notin DOMAIN feed
  <2>1. new = IF Withheld(feed, id) \/ id = act THEN flagged ELSE Gone
    BY <1>1, <1>8, Zenon
  <2> QED BY <2>1, <1>4, <1>8, Zenon DEF new
<1>9. CASE id \notin Mine
  <2>1. new = IF id[1] \in DOMAIN feed /\ RowOf(id[1]) = None /\ id = FreshId(id[1])
              THEN offer ELSE rows[id]
    BY <1>1, <1>9, Zenon
  <2> QED BY <2>1, <1>2, <1>5, <1>9, Zenon DEF new
<1> QED BY <1>6, <1>7, <1>8, <1>9, Zenon

\* The table after a merge still has one row per identity.
LEMMA MergedTable ==
    ASSUME rows \in Table, Unique(rows), NEW feed \in Feeds, NEW act
    PROVE  Merged(feed, act) \in Table /\ Unique(Merged(feed, act))
<1> DEFINE table == Merged(feed, act)
<1>1. table \in Table
  <2>1. table = [id \in Id |-> table[id]]
    BY Zenon DEF Merged
  <2> QED BY <2>1, MergedRow, Zenon DEF Table
<1>2. ASSUME NEW x \in Id, NEW y \in Id, table[x] \in Row, table[y] \in Row, x[1] = y[1],
             table[x].mine = table[y].mine
      PROVE  x = y
  <2>1. CASE x \in Mine /\ y \in Mine
    BY <1>2, <2>1, MineRows, Zenon DEF Unique
  <2>2. CASE x \in Mine /\ y \notin Mine
    <3>1. table[x].mine
      BY <1>2, <2>2, MergedRow, RefreshAssumption DEF RefreshAssumption
    <3>2. table[y] # rows[y]
      BY <1>2, <2>2, <3>1, MineRows, Zenon
    <3> QED BY <1>2, <2>2, <3>2, MergedRow, RowOfNone
  <2>3. CASE x \notin Mine /\ y \in Mine
    <3>1. table[y].mine
      BY <1>2, <2>3, MergedRow, RefreshAssumption DEF RefreshAssumption
    <3>2. table[x] # rows[x]
      BY <1>2, <2>3, <3>1, MineRows, Zenon
    <3> QED BY <1>2, <2>3, <3>2, MergedRow, RowOfNone
  <2>4. CASE x \notin Mine /\ y \notin Mine
    <3> QED BY <1>2, <2>4, MergedRow, MineRows DEF Unique
  <2> QED BY <2>1, <2>2, <2>3, <2>4, Zenon
<1> QED BY <1>1, <1>2, Zenon DEF Unique

-----------------------------------------------------------------------------
(* What a step may do                                                      *)

RInv == Types /\ Stage /\ Guarded /\ Remembered /\ Retiring

LEMMA CountMoves ==
    ASSUME [Next]_vars
    PROVE  /\ refreshes' = refreshes \/ (refreshes < MaxRefreshes /\ refreshes' = refreshes + 1)
           /\ ops' = ops \/ (ops < MaxOps /\ ops' = ops + 1)
           /\ floor' \in {floor, 0} \/ (job # None /\ floor' = Rank[job.cfg])
BY Zenon DEF Next, Apply, RefreshStep, Request, Load, Undo, Commit, Retire, BeginApply, BeginRefresh,
             Fetch, Merge, MergeAs, WriteBack, Restart, XrayStart, Disconnect, DeleteSub, Connect,
             CheckEdit, Detach, PatchSub, WriteEdit, Crash, Spend, vars, history

LEMMA HistoryMoves ==
    ASSUME [Next]_vars
    PROVE  \/ shrink' \in {shrink, {}} /\ offered' = offered
           \/ pc = "merge" /\ offered' = DOMAIN got.feed /\ shrink' \in {offered', {}}
BY Zenon DEF Next, Apply, RefreshStep, Request, Load, Undo, Commit, Retire, BeginApply, BeginRefresh,
             Fetch, Merge, MergeAs, WriteBack, Restart, XrayStart, Disconnect, DeleteSub, Connect,
             CheckEdit, Detach, PatchSub, WriteEdit, Crash, vars, store, history

LEMMA CauseMoves ==
    ASSUME LocalType, [Next]_vars
    PROVE  parted' \subseteq parted \cup Causes /\ cut' \subseteq cut \cup Id
<1>1. \A holds : /\ If("edited", holds) \subseteq Causes /\ If("overtaken", holds) \subseteq Causes
                 /\ If("unsaved", holds) \subseteq Causes /\ If("stray", holds) \subseteq Causes
  BY Zenon DEF If, Causes, Races
<1>2. CutUnderApply \subseteq Id
  BY Zenon DEF CutUnderApply
<1>3. parted' \subseteq parted \cup Causes
  BY <1>1, Zenon DEF Next, Apply, RefreshStep, Request, Load, Undo, Commit, Retire, BeginApply,
             BeginRefresh, Fetch, Merge, MergeAs, WriteBack, Restart, XrayStart, Disconnect, DeleteSub,
             Connect, CheckEdit, Detach, PatchSub, WriteEdit, Crash, vars, history
<1>4. edit # None => edit.id \in Id
  BY Zenon DEF LocalType
<1>5. cut' \subseteq cut \cup Id
  BY <1>2, <1>4, Zenon DEF Next, Apply, RefreshStep, Request, Load, Undo, Commit, Retire, BeginApply,
             BeginRefresh, Fetch, Merge, MergeAs, WriteBack, Restart, XrayStart, Disconnect, DeleteSub,
             Connect, CheckEdit, Detach, PatchSub, WriteEdit, Crash, vars, history
<1> QED BY <1>3, <1>5, Zenon

\* The configs a crash or a failed apply may leave on disk.
LEMMA TornType ==
    ASSUME LocalType
    PROVE  Torn \subseteq Tunnel /\ (job # None => Loaded \in Tunnel)
<1>1. job # None => Loaded \in Tunnel /\ job.was \in Tunnel
  BY Zenon DEF LocalType, Loaded, Tunnel, Applies
<1> QED BY <1>1, Zenon DEF Torn, LocalType

LEMMA StoreMoves ==
    ASSUME [Next]_vars
    PROVE  /\ url' \in Url \cup {url, None}
           /\ active' \in {active, None} \/ (job # None /\ job.step = "commit" /\ active' = job.id)
           /\ pending' \in {pending, None} \/ (job # None /\ pending' = job.id)
<1> USE DEF Next, Apply, RefreshStep, Request, Load, Undo, Commit, Retire, BeginApply, BeginRefresh,
            Fetch, Merge, MergeAs, WriteBack, Restart, XrayStart, Disconnect, DeleteSub, Connect,
            CheckEdit, Detach, PatchSub, WriteEdit, Crash, Reapply, vars, store
<1>1. url' \in Url \cup {url, None}
  BY Zenon
<1>2. active' \in {active, None} \/ (job # None /\ job.step = "commit" /\ active' = job.id)
  BY Zenon
<1>3. pending' \in {pending, None} \/ (job # None /\ pending' = job.id)
  BY Zenon
<1> QED BY <1>1, <1>2, <1>3, Zenon

LEMMA TunnelMoves ==
    ASSUME [Next]_vars
    PROVE  /\ run' \in {run, None} \/ (job # None /\ run' \in {job.was, Loaded})
           /\ live' \in Torn \cup {None} \/ (job # None /\ live' \in {job.was, Loaded})
<1> USE DEF Next, Apply, RefreshStep, Request, Load, Undo, Commit, Retire, BeginApply, BeginRefresh,
            Fetch, Merge, MergeAs, WriteBack, Restart, XrayStart, Disconnect, DeleteSub, Connect,
            CheckEdit, Detach, PatchSub, WriteEdit, Crash, Reapply, vars, tunnel
<1>1. run' \in {run, None} \/ (job # None /\ run' \in {job.was, Loaded})
  BY Zenon
<1>2. live \in Torn
  BY Zenon DEF Torn
<1>3. live' \in Torn \cup {None} \/ (job # None /\ live' \in {job.was, Loaded})
  BY <1>2, Zenon
<1> QED BY <1>1, <1>3, Zenon

LEMMA RequestMoves ==
    ASSUME [Next]_vars
    PROVE  /\ \/ ask' \in {ask, None}
              \/ \E id \in Id : Exists(id) /\ ask' = [id |-> id, cfg |-> rows[id].cfg]
           /\ \/ edit' \in {edit, None}
              \/ \E id \in Id : /\ Exists(id)
                                /\ \/ edit' = [id |-> id, row |-> Gone]
                                   \/ \E c \in Cfg : edit' = [id |-> id, row |-> [rows[id] EXCEPT !.cfg = c]]
<1> USE DEF Next, Apply, RefreshStep, Request, Load, Undo, Commit, Retire, BeginApply, BeginRefresh,
            Fetch, Merge, MergeAs, WriteBack, Restart, XrayStart, Disconnect, DeleteSub, Connect,
            CheckEdit, Detach, PatchSub, WriteEdit, Crash, vars
<1>1. \/ ask' \in {ask, None}
      \/ \E id \in Id : Exists(id) /\ ask' = [id |-> id, cfg |-> rows[id].cfg]
  BY Zenon
<1>2. \/ edit' \in {edit, None}
      \/ \E id \in Id : /\ Exists(id)
                        /\ \/ edit' = [id |-> id, row |-> Gone]
                           \/ \E c \in Cfg : edit' = [id |-> id, row |-> [rows[id] EXCEPT !.cfg = c]]
  BY Zenon
<1> QED BY <1>1, <1>2, Zenon

\* What the merge leaves for the rest of the refresh.
Report(table) ==
    [got EXCEPT !.feed = <<>>, !.active = active, !.old = IF Exists(active) THEN rows[active] ELSE None,
                !.changed = ActiveChanged(got.feed, active),
                !.swap = ActiveReplacement(got.feed, active, table)]

\* Where a refresh goes.
LEMMA RefreshMoves ==
    ASSUME [Next]_vars
    PROVE  \/ pc' = pc /\ got' = got
           \/ pc' = "off" /\ got' = Nothing
           \/ pc' = "fetch" /\ url # None /\ got' = [Nothing EXCEPT !.url = url]
           \/ pc' = "merge" /\ \E f \in Feeds : got' = [got EXCEPT !.feed = f]
           \/ pc' = "restart" /\ pc = "merge" /\ rows' = Merged(got.feed, active) /\ got' = Report(rows')
           \/ /\ pc' \in {pc, "apply", "writeback"}
              /\ got' = got \/ \E taken \in BOOLEAN : got' = [got EXCEPT !.taken = taken]
<1>1. CASE Merge
  BY <1>1, Zenon DEF Merge, MergeAs, EndRefresh, Report
<1>2. CASE Fetch \/ WriteBack \/ BeginRefresh \/ \E on \in BOOLEAN : Restart(on)
  BY <1>2, Zenon DEF Fetch, WriteBack, BeginRefresh, Restart, EndRefresh
<1> QED BY <1>1, <1>2, Zenon
        DEF Next, Apply, RefreshStep, Request, Load, Undo, Commit, Retire, BeginApply, XrayStart,
            Disconnect, DeleteSub, Connect, CheckEdit, Detach, PatchSub, WriteEdit, Crash, Release,
            refresh, vars

LEMMA OverTorn ==
    ASSUME NEW disk \in Torn
    PROVE  Over(disk) \in Torn \cup {None}
BY Zenon DEF Over

\* A start, a boot or a refresh applies a stored row.
Begins ==
    \E by \in {"start", "boot", "ref"}, id \in {got.active, got.swap, active, pending}, was \in Torn \cup {None} :
       /\ Exists(id)
       /\ job' = [by |-> by, id |-> id, cfg |-> rows[id].cfg, was |-> was, step |-> "load"]

\* Who begins, advances and ends an apply.
LEMMA JobMoves ==
    ASSUME [Next]_vars
    PROVE  \/ job' \in {job, None}
           \/ job # None /\ job.step = "load" /\ job' = [job EXCEPT !.step = "commit"]
           \/ job # None /\ job.by = "ref" /\ job' = [job EXCEPT !.step = "retire"]
           \/ /\ ask # None
              /\ job' = [by |-> "op", id |-> ask.id, cfg |-> ask.cfg, was |-> Over(live), step |-> "load"]
           \/ Begins
<1>1. live \in Torn
  BY Zenon DEF Torn
<1>2. ASSUME NEW by \in {"start", "boot"}, NEW running, NEW disk \in Torn, Reapply(by, running, disk)
      PROVE  job' = None \/ Begins
  BY <1>2, OverTorn, Zenon DEF Reapply, PendingOrActive, Job, Begins
<1>3. CASE XrayStart \/ Crash
  BY <1>1, <1>2, <1>3, Zenon DEF XrayStart, Crash
<1>4. ASSUME NEW on \in BOOLEAN, Restart(on) PROVE job' = job \/ Begins
  BY <1>1, <1>4, OverTorn, Zenon DEF Restart, AutoSwitchAllowed, Job, Begins
<1> QED BY <1>3, <1>4, Zenon
        DEF Next, Apply, RefreshStep, Request, Load, Undo, Commit, Retire, BeginApply, BeginRefresh,
            Fetch, Merge, MergeAs, WriteBack, Disconnect, DeleteSub, Connect, CheckEdit, Detach,
            PatchSub, WriteEdit, Release, vars

LEMMA NothingType == Nothing \in Locals
BY Zenon DEF Nothing, Locals, MaybeId

LEMMA ExistingRow ==
    ASSUME StoreType, NEW id \in MaybeId, Exists(id)
    PROVE  id \in Id /\ rows[id] \in Row /\ rows[id].cfg \in Cfg
BY Zenon DEF Exists, MaybeId, Row

LEMMA ReportType ==
    ASSUME StoreType, LocalType, NEW table
    PROVE  Report(table) \in Locals
<1>1. ActiveReplacement(got.feed, active, table) \in MaybeId
  BY Zenon DEF ActiveReplacement, MaybeId
<1>2. (IF Exists(active) THEN rows[active] ELSE None) \in Row \cup {None}
  BY Zenon DEF Exists
<1>3. ActiveChanged(got.feed, active) \in BOOLEAN
  BY Zenon DEF ActiveChanged
<1> QED BY <1>1, <1>2, <1>3, Zenon DEF Report, LocalType, StoreType, Locals

LEMMA BegunType ==
    ASSUME StoreType, LocalType, NEW id \in {got.active, got.swap, active, pending}, Exists(id),
           NEW by \in {"start", "boot", "ref"}, NEW was \in Torn \cup {None}
    PROVE  [by |-> by, id |-> id, cfg |-> rows[id].cfg, was |-> was, step |-> "load"] \in Applies
<1>1. id \in Id /\ rows[id].cfg \in Cfg
  BY ExistingRow, Zenon DEF StoreType, LocalType, Locals
<1>2. was \in Tunnel
  BY TornType, Zenon DEF Tunnel
<1> QED BY <1>1, <1>2, Zenon DEF Applies

LEMMA RowsStep ==
    ASSUME RInv, [Next]_vars
    PROVE  rows' \in Table /\ Unique(rows')
<1>1. rows \in Table /\ Unique(rows)
  BY Zenon DEF RInv, Types, StoreType
<1>2. CASE UNCHANGED rows
  BY <1>1, <1>2, Zenon
<1>3. CASE Retire
  <2>1. Exists(got.active) => got.active \in Id
    BY Zenon DEF Exists, RInv, Types, LocalType, Locals, MaybeId
  <2> QED BY <1>1, <1>3, <2>1, RetiredTable, Zenon DEF Retire
<1>4. CASE Merge
  <2>1. rows' = rows \/ (got.feed \in Feeds /\ rows' = Merged(got.feed, active))
    BY <1>4, Zenon DEF Merge, MergeAs, RInv, Stage
  <2> QED BY <1>1, <2>1, MergedTable, Zenon
<1>5. CASE WriteBack
  <2>1. Restored \in Table
    BY <1>1, UpdatedTable, Zenon DEF Restored, Updated, Exists, RInv, Types, LocalType, Locals, MaybeId
  <2> QED BY <1>1, <1>5, <2>1, Zenon DEF WriteBack
<1>6. CASE WriteEdit
  <2>1. edit.id \in Id /\ edit.row \in Row \cup {Gone}
    BY <1>6, Zenon DEF WriteEdit, RInv, Types, LocalType
  <2> QED BY <1>1, <1>6, <2>1, UpdatedTable, Zenon DEF WriteEdit
<1>7. CASE DeleteSub
  <2>1. \A row \in Row : [row EXCEPT !.mine = FALSE] \in Row
    BY Zenon DEF Row
  <2> QED BY <1>1, <1>7, <2>1, Zenon DEF DeleteSub, AllManual, Table, Mine, Exists
<1>8. ASSUME NEW id \in Id, Detach(id) PROVE rows' \in Table /\ Unique(rows')
  <2>1. [rows[id] EXCEPT !.mine = FALSE] \in Row
    BY <1>8, MineRows, Zenon DEF Detach, Row
  <2> QED BY <1>1, <1>8, <2>1, Zenon DEF Detach, Table
<1> QED BY <1>2, <1>3, <1>4, <1>5, <1>6, <1>7, <1>8, ZenonT(30)
        DEF Next, Apply, RefreshStep, Request, Load, Undo, Commit, BeginApply, BeginRefresh, Fetch,
            Restart, XrayStart, Disconnect, Connect, CheckEdit, PatchSub, Crash, vars, store

LEMMA TypesStep ==
    ASSUME RInv, [Next]_vars
    PROVE  Types'
<1>1. StoreType /\ LocalType /\ CountType /\ (pc = "merge" => got.feed \in Feeds)
  BY Zenon DEF RInv, Types, Stage
<1>2. job # None => /\ job \in Applies /\ job.id \in Id /\ job.cfg \in Cfg /\ job.was \in Tunnel
                    /\ Rank[job.cfg] \in 0..2
  BY <1>1, RefreshAssumption, Zenon DEF LocalType, Applies, RefreshAssumption
<1>3. pc = "merge" => DOMAIN got.feed \subseteq Ident
  BY <1>1, RefreshAssumption, Zenon DEF RefreshAssumption
<1>4. CountType'
  <2>1. refreshes' \in 0..MaxRefreshes /\ ops' \in 0..MaxOps /\ floor' \in 0..2
    BY <1>1, <1>2, CountMoves, RefreshAssumption DEF CountType, RefreshAssumption
  <2>2. parted' \subseteq Causes /\ cut' \subseteq Id
    BY <1>1, CauseMoves, Zenon DEF CountType
  <2>3. offered' \subseteq Ident
    BY <1>1, <1>3, HistoryMoves, Zenon DEF CountType
  <2> QED BY <2>1, <2>2, <2>3, Zenon DEF CountType
<1>5. StoreType'
  <2>1. shrink' \subseteq Ident
    BY <1>1, <1>3, HistoryMoves, Zenon DEF StoreType
  <2>2. url' \in Url \cup {None} /\ active' \in MaybeId /\ pending' \in MaybeId
    BY <1>1, <1>2, StoreMoves, Zenon DEF StoreType, MaybeId
  <2>3. rows' \in Table /\ Unique(rows)'
    BY RowsStep, Zenon DEF Unique
  <2> QED BY <2>1, <2>2, <2>3, Zenon DEF StoreType
<1>6. LocalType'
  <2>1. run' \in Tunnel /\ live' \in Tunnel
    BY <1>1, <1>2, TunnelMoves, TornType, Zenon DEF LocalType, Tunnel
  <2>2. got' \in Locals /\ pc' \in {"off", "fetch", "merge", "restart", "apply", "writeback"}
    <3>1. got \in Locals /\ url \in Url \cup {None} /\ pc \in {"off", "fetch", "merge", "restart", "apply", "writeback"}
      BY <1>1, Zenon DEF LocalType, StoreType
    <3>2. [Nothing EXCEPT !.url = url] \in Locals /\ \A f \in Feeds : [got EXCEPT !.feed = f] \in Locals
      BY <3>1, ZenonT(30) DEF Nothing, Locals, MaybeId
    <3>3. Report(rows') \in Locals
      BY <1>1, ReportType, Zenon
    <3>4. \A taken \in BOOLEAN : [got EXCEPT !.taken = taken] \in Locals
      BY <3>1, Zenon DEF Locals
    <3> QED BY <3>1, <3>2, <3>3, <3>4, RefreshMoves, NothingType, Zenon
  <2>3. job' = None \/ job' \in Applies
    <3>1. job # None => [job EXCEPT !.step = "commit"] \in Applies /\ [job EXCEPT !.step = "retire"] \in Applies
      BY <1>2, Zenon DEF Applies
    <3>2. ask # None
            => [by |-> "op", id |-> ask.id, cfg |-> ask.cfg, was |-> Over(live), step |-> "load"] \in Applies
      BY <1>1, Zenon DEF LocalType, Applies, Over, Tunnel
    <3>4. job = None \/ job \in Applies
      BY <1>1, Zenon DEF LocalType
    <3>5. Begins => job' \in Applies
      BY <1>1, BegunType, ZenonT(30) DEF Begins
    <3> QED BY <3>1, <3>2, <3>4, <3>5, JobMoves, Zenon
  <2>4. ask' = None \/ ask' \in [id : Id, cfg : Cfg]
    BY <1>1, RequestMoves DEF LocalType, Exists, Row
  <2>5. edit' = None \/ edit' \in [id : Id, row : Row \cup {Gone}]
    <3>1. \A row \in Row, c \in Cfg : [row EXCEPT !.cfg = c] \in Row
      BY Zenon DEF Row
    <3> QED BY <1>1, <3>1, RequestMoves DEF LocalType, Exists
  <2> QED BY <2>1, <2>2, <2>3, <2>4, <2>5, Zenon DEF LocalType
<1> QED BY <1>4, <1>5, <1>6, Zenon DEF Types

-----------------------------------------------------------------------------
(* The refresh and the lock                                                *)

\* A refresh takes the lock for a row it checked, under the selection the merge saw.
Takes ==
    /\ pc' = "apply" /\ pc = "restart" /\ got' = got /\ active' = active /\ active = got.active
    /\ \E id \in {got.active, got.swap} : Exists(id) /\ job' = Job("ref", id, live)

\* It gives the lock back and goes on, or anybody else does.
SameReport ==
    /\ got'.feed = got.feed /\ got'.active = got.active /\ got'.old = got.old
    /\ got'.changed = got.changed /\ got'.swap = got.swap /\ (got.taken => got'.taken)
Drops ==
    /\ job # None /\ job' = None
    /\ IF job.by = "ref" THEN pc' = "off" \/ (pc' = "writeback" /\ SameReport)
                         ELSE pc' = pc /\ SameReport

LEMMA ReleaseReport ==
    ASSUME got \in Locals, NEW by, NEW next, Release(by, next), ~(by = "ref" /\ next = "off")
    PROVE  SameReport /\ (got'.taken => got.taken \/ Overtakes) /\ (Overtakes => got'.taken)
<1>1. \A taken : LET new == [got EXCEPT !.taken = taken]
                 IN /\ new.feed = got.feed /\ new.active = got.active /\ new.old = got.old
                    /\ new.changed = got.changed /\ new.swap = got.swap /\ new.taken = taken
  BY Zenon DEF Locals
<1> QED BY <1>1, Zenon DEF Release, SameReport

\* It commits the replacement, and keeps the lock.
Replaces ==
    /\ job # None /\ job.by = "ref" /\ got.swap = job.id /\ job.step = "commit"
    /\ job' = [job EXCEPT !.step = "retire"] /\ active' = job.id /\ pc' = pc /\ got' = got

\* Where it goes without the lock.
Strides ==
    /\ job' = job /\ active' = active /\ pc # "apply" /\ pc' # "apply"
    /\ pc' = "merge" => got'.feed \in Feeds
    /\ pc' = "restart" => pc = "merge" /\ rows' = Merged(got.feed, active) /\ got' = Report(rows')
    /\ pc' = "writeback" => pc = "restart" /\ got' = got

\* A step of somebody else: the refresh and its job do not move, and neither does the
\* selection while a refresh applies.
Aside ==
    /\ pc' = pc /\ got' = got
    /\ \/ job' = job /\ (active' = active \/ job = None)
       \/ job = None /\ (job' = None \/ job'.by # "ref")
       \/ job # None /\ job' = [job EXCEPT !.step = "commit"] /\ job.step = "load" /\ active' = active

Restarted == pc' = "off" /\ (job' = None \/ job'.by # "ref")

\* While a refresh applies nobody else has the lock, and nobody else takes it from one.
LEMMA LockMoves ==
    ASSUME [Next]_vars, Stage, Retiring, got \in Locals
    PROVE  Takes \/ Drops \/ Replaces \/ Strides \/ Aside \/ Restarted
<1>0. ASSUME NEW next \in {"off", "writeback"}, job # None, Release(job.by, next) PROVE Drops
  BY <1>0, ReleaseReport, Zenon DEF Release, Drops
<1>1. CASE Load \/ Undo \/ Commit \/ Retire
  BY <1>0, <1>1, Zenon DEF Load, Undo, Commit, Retire, Retiring, Replaces, Aside, refresh
<1>2. CASE BeginApply \/ XrayStart \/ Crash
  BY <1>2 DEF BeginApply, XrayStart, Crash, Reapply, Job, Aside, Restarted, refresh, store
<1>3. CASE Merge \/ WriteBack \/ BeginRefresh
  BY <1>3, Zenon DEF Merge, MergeAs, WriteBack, BeginRefresh, EndRefresh, Strides, Report, store
<1>4. CASE Fetch
  <2>1. \A f \in Feeds : [got EXCEPT !.feed = f].feed = f
    BY Zenon DEF Locals
  <2> QED BY <1>4, <2>1, Zenon DEF Fetch, EndRefresh, Strides, store
<1>5. ASSUME NEW on \in BOOLEAN, Restart(on) PROVE Takes \/ Strides
  BY <1>5, Zenon DEF Restart, EndRefresh, StandDown, AutoSwitchAllowed, Takes, Strides, store
<1> QED BY <1>1, <1>2, <1>3, <1>4, <1>5, Zenon
        DEF Next, Apply, RefreshStep, Request, Disconnect, DeleteSub, Connect, CheckEdit, Detach,
            PatchSub, WriteEdit, Aside, vars, store, refresh

\* The replacement is never the node it replaces: that one is flagged or gone after the merge.
LEMMA ReplacementDiffers ==
    ASSUME StoreType, got.feed \in Feeds, rows' = Merged(got.feed, active),
           NEW swap, swap = ActiveReplacement(got.feed, active, rows'), swap # None
    PROVE  swap # active
<1> DEFINE fresh == {id \in Id : rows'[id] \in Row /\ rows'[id].mine /\ ~rows'[id].stale}
<1>1. active \in Mine /\ active[1] \notin DOMAIN got.feed /\ swap \in fresh
  BY Zenon DEF ActiveReplacement
<1>2. rows'[active] = Gone \/ rows'[active].stale
  BY <1>1, MergedRow, Zenon DEF StoreType, Mine
<1> QED BY <1>1, <1>2, RefreshAssumption, Zenon DEF RefreshAssumption

LEMMA GuardStep ==
    ASSUME RInv, [Next]_vars
    PROVE  Stage' /\ Guarded'
<1>1. Stage /\ Guarded /\ Retiring /\ got \in Locals /\ StoreType /\ LocalType /\ (job = None \/ job \in Applies)
  BY Zenon DEF RInv, Types, LocalType
<1>2. CASE Takes
  <2>1. PICK id \in {got.active, got.swap} : Exists(id) /\ job' = Job("ref", id, live)
    BY <1>2, Zenon DEF Takes
  <2>2. id \in Id /\ id # None
    BY <1>1, <2>1, RefreshAssumption, Zenon DEF Locals, MaybeId, Exists, RefreshAssumption
  <2>3. job'.by = "ref" /\ job'.id = id /\ job'.step = "load" /\ job' # None
    <3>1. job' \in Applies
      <4>1. Over(live) \in Torn \cup {None}
        BY OverTorn, Zenon DEF Torn
      <4> QED BY <1>1, <2>1, <4>1, BegunType, Zenon DEF Job
    <3> QED BY <2>1, <3>1, RefreshAssumption, Zenon DEF Job, RefreshAssumption
  <2> QED BY <1>1, <1>2, <2>1, <2>2, <2>3, Zenon DEF Takes, Stage, Guarded
<1>3. CASE Drops
  BY <1>1, <1>3, Zenon DEF Drops, SameReport, Stage, Guarded
<1>4. CASE Replaces
  <2>1. job' # None /\ job'.by = "ref" /\ job'.step = "retire"
    BY <1>1, <1>4, RefreshAssumption, Zenon DEF Replaces, Applies, RefreshAssumption
  <2> QED BY <1>1, <1>4, <2>1, Zenon DEF Replaces, Stage, Guarded
<1>5. CASE Strides
  <2>1. pc' = "restart" => got'.swap = None \/ got'.swap # got'.active
    <3>1. ASSUME pc' = "restart"
          PROVE  /\ got.feed \in Feeds /\ rows' = Merged(got.feed, active)
                 /\ got'.swap = ActiveReplacement(got.feed, active, rows') /\ got'.active = active
      BY <1>1, <1>5, <3>1, Zenon DEF Strides, Stage, Report, Locals
    <3> QED BY <1>1, <3>1, ReplacementDiffers, Zenon
  <2> QED BY <1>1, <1>5, <2>1, Zenon DEF Strides, Stage, Guarded
<1>6. CASE Aside
  <2>1. job # None => LET next == [job EXCEPT !.step = "commit"]
                      IN next # None /\ next.by = job.by /\ next.id = job.id /\ next.step = "commit"
    BY <1>1, RefreshAssumption, Zenon DEF Applies, RefreshAssumption
  <2> QED BY <1>1, <1>6, <2>1, Zenon DEF Aside, Stage, Guarded
<1>7. CASE Restarted
  BY <1>7, Zenon DEF Restarted, Stage, Guarded
<1> QED BY <1>1, <1>2, <1>3, <1>4, <1>5, <1>6, <1>7, LockMoves, Zenon

LEMMA RetireStep ==
    ASSUME RInv, [Next]_vars
    PROVE  Remembered' /\ Retiring'
<1>1. Remembered'
  BY HistoryMoves, Zenon DEF RInv, Remembered
<1>2. job # None => job \in Applies
  BY Zenon DEF RInv, Types, LocalType
<1>3. Retiring'
  BY <1>2, JobMoves DEF RInv, Retiring, Begins, Applies
<1> QED BY <1>1, <1>3, Zenon

LEMMA RInvInit == Init => RInv
<1> SUFFICES ASSUME Init PROVE RInv
  BY Zenon
<1> USE RefreshAssumption DEF RefreshAssumption, Init
<1>1. rows \in Table
  BY Zenon DEF Table
<1>2. Unique(rows)
  <2>1. \A id \in Id : rows[id] \in Row => id[2] = 1
    BY Zenon
  <2>2. \A x, y \in Id : x[1] = y[1] /\ x[2] = y[2] => x = y
    BY DEF Id
  <2> QED BY <2>1, <2>2, Zenon DEF Unique
<1>3. active \in MaybeId
  BY DEF MaybeId, Id
<1>4. active # None => rows[active].cfg \in Cfg /\ active \in Id
  <2>1. \A i \in Ident : <<i, 1>> \in Id /\ <<i, 1>>[2] = 1
    BY Zenon DEF Id
  <2>2. \A i \in Ident : rows[<<i, 1>>].cfg \in Cfg
    BY <2>1, Zenon
  <2> QED BY <2>1, <2>2
<1>5. StoreType
  BY <1>1, <1>2, <1>3, Zenon DEF StoreType, MaybeId
<1>6. LocalType
  BY <1>4, NothingType, Zenon DEF LocalType, Tunnel
<1>7. floor \in 0..2
  BY <1>4
<1>8. CountType
  <2>1. parted \subseteq Causes /\ cut \subseteq Id /\ offered \subseteq Ident
    BY Zenon
  <2>2. refreshes \in 0..MaxRefreshes /\ ops \in 0..MaxOps
    OBVIOUS
  <2> QED BY <1>7, <2>1, <2>2, Zenon DEF CountType
<1>9. Stage /\ Guarded /\ Remembered /\ Retiring
  BY Zenon DEF Stage, Guarded, Remembered, Retiring
<1> QED BY <1>5, <1>6, <1>8, <1>9, Zenon DEF RInv, Types

LEMMA RInvStep == RInv /\ [Next]_vars => RInv'
BY TypesStep, GuardStep, RetireStep, Zenon DEF RInv

LEMMA RInvHolds == Spec => []RInv
BY RInvInit, RInvStep, PTL DEF Spec

\* For any identities, configs and answers the table keeps one row per identity in the subscription
\* and one among the manual ones, and a refresh applies exactly while its job has apply_lock.
THEOREM TypeCorrect == Spec => []TypeOK
<1>1. RInv => TypeOK
  BY Zenon DEF RInv, Types, StoreType, LocalType, CountType, Stage, Table, Locals, TypeOK
<1> QED BY <1>1, RInvHolds, PTL

\* service.py, _restart_active: whatever connects, failovers, edits and crashes fall between the
\* merge and the apply, a refresh moves the selection only from the node the merge saw active
\* and only to the replacement the merge named.
THEOREM SwitchesStand == Spec => RefreshRevertsNoSwitch
<1>1. RInv /\ [Next]_vars =>
        [(pc = "apply" /\ active' \notin {active, None})
            => (active = got.active /\ active' = got.swap)]_vars
  <2> SUFFICES ASSUME RInv, [Next]_vars, pc = "apply", active' \notin {active, None}
               PROVE  active = got.active /\ active' = got.swap
    BY Zenon
  <2>1. job # None /\ job \in Applies
    BY Zenon DEF RInv, Types, LocalType, Stage
  <2>2. Commit
    <3>1. ~XrayStart /\ ~Disconnect
      BY <2>1, Zenon DEF XrayStart, Disconnect
    <3>2. ~Crash
      BY Zenon DEF Crash, Reapply
    <3> QED BY <3>1, <3>2, Zenon
            DEF Next, Apply, RefreshStep, Request, Load, Undo, Retire, BeginApply, BeginRefresh, Fetch,
                Merge, MergeAs, WriteBack, Restart, DeleteSub, Connect, CheckEdit, Detach, PatchSub,
                WriteEdit, store, vars
  <2>3. job.step = "commit" /\ active' = job.id
    BY <2>2, Zenon DEF Commit
  <2> QED BY <2>3, Zenon DEF RInv, Guarded
<1> QED BY <1>1, RInvHolds, PTL DEF Spec, RefreshRevertsNoSwitch

\* reconcile.py: for any feed and whatever else happened in between, an answer with fewer than half
\* of the nodes deletes only rows the answer merged before it had left out already, and only
\* when the two answers list the same identities.
THEOREM ShrinkageIsConfirmed == Spec => ShrinkIsConfirmed
<1>1. RInv /\ [Next]_vars =>
        [pc = "merge" /\ pc' # "merge" /\ Anomalous(got.feed)
           => \A id \in Mine : rows'[id] = Gone => offered = DOMAIN got.feed /\ id[1] \notin offered]_vars
  <2> SUFFICES ASSUME RInv, [Next]_vars, NEW id \in Mine, pc = "merge", pc' # "merge",
                      rows'[id] = Gone, Anomalous(got.feed)
               PROVE  offered = DOMAIN got.feed /\ id[1] \notin offered
    BY Zenon
  <2>1. id \in Id /\ rows[id] \in Row /\ rows[id] # Gone
    BY MineRows, RefreshAssumption, Zenon DEF Mine, RefreshAssumption
  <2>2. got.feed \in Feeds /\ DOMAIN got.feed # {}
    BY RefreshAssumption, Zenon DEF RInv, Stage, RefreshAssumption
  <2>3. rows' = Merged(got.feed, active)
    <3>1. CASE Merge
      BY <2>1, <3>1, Zenon DEF Merge, MergeAs
    <3>2. CASE ~Merge
      <4>1. ~Crash
        BY <2>1, Zenon DEF Crash
      <4>2. ~Load /\ ~Undo
        BY <2>1, Zenon DEF Load, Undo
      <4>3. ~Commit
        BY <2>1, Zenon DEF Commit
      <4>4. ~Retire
        BY Zenon DEF Retire, RInv, Stage, Retiring
      <4> QED BY <3>2, <4>1, <4>2, <4>3, <4>4, Zenon
              DEF Next, Apply, RefreshStep, Request, BeginApply, BeginRefresh, Fetch, WriteBack, Restart,
                  XrayStart, Disconnect, DeleteSub, Connect, CheckEdit, Detach, PatchSub, WriteEdit,
                  refresh, vars
    <3> QED BY <3>1, <3>2, Zenon
  <2>4. id[1] \notin DOMAIN got.feed /\ ~Withheld(got.feed, id)
    BY <2>1, <2>2, <2>3, MergedRow, Zenon DEF RInv, Types, StoreType
  <2>5. shrink = DOMAIN got.feed
    BY <2>4, Zenon DEF Withheld, Confirmed
  <2> QED BY <2>2, <2>4, <2>5, Zenon DEF RInv, Remembered
<1> QED BY <1>1, RInvHolds, PTL DEF Spec, ShrinkIsConfirmed

-----------------------------------------------------------------------------
(* The selection                                                           *)

Here(id) == Exists(id) \/ id \in cut

\* What is selected, being applied or about to be was a row, and is one unless its deletion
\* has been noted.
CutInv ==
    /\ active # None => Here(active)
    /\ job # None => Here(job.id)
    /\ ask # None => Here(ask.id)

\* Nobody deletes the active row but a DELETE that had passed its check.
LEMMA RowsGo ==
    ASSUME RInv, [Next]_vars, NEW id \in Id, rows[id] \in Row, rows'[id] \notin Row
    PROVE  id \in cut' \/ (id # active /\ ~InHand(id))
<1>1. StoreType /\ LocalType /\ rows \in Table /\ id # None
  BY RefreshAssumption, Zenon DEF RInv, Types, StoreType, RefreshAssumption
<1>2. rows'[id] = Gone /\ InHand(id) => id \in CutUnderApply
  BY <1>1, Zenon DEF CutUnderApply, Exists
<1>3. CASE Retire
  <2>1. active # got.active
    BY <1>3, Zenon DEF Retire, RInv, Retiring, Stage, Guarded
  <2>2. rows' = [rows EXCEPT ![got.active] = Gone]
    BY <1>3, Zenon DEF Retire
  <2>3. id = got.active /\ rows'[id] = Gone
    BY <1>1, <2>2, Zenon DEF Table
  <2> QED BY <1>2, <1>3, <2>1, <2>3, Zenon DEF Retire
<1>4. CASE Merge
  <2>1. rows' = Merged(got.feed, active) /\ got.feed \in Feeds
    BY <1>4, Zenon DEF Merge, MergeAs, RInv, Stage
  <2>2. rows'[id] = Gone /\ id # active
    BY <1>1, <2>1, MergedRow, Zenon
  <2> QED BY <1>2, <1>4, <2>2, Zenon DEF Merge, MergeAs
<1>5. CASE WriteEdit
  <2>1. rows' = Updated(edit.id, edit.row) /\ edit.id \in Id /\ edit.row \in Row \cup {Gone}
    BY <1>1, <1>5, Zenon DEF WriteEdit, LocalType
  <2>2. id = edit.id /\ rows'[id] = Gone /\ edit.row = Gone
    BY <1>1, <2>1, Zenon DEF Updated, Table
  <2> QED BY <1>2, <1>5, <2>2, Zenon DEF WriteEdit
<1>6. CASE WriteBack
  BY <1>1, <1>6, Zenon DEF WriteBack, Restored, Updated, Table, LocalType, Locals
<1>7. CASE DeleteSub
  <2>1. \A row \in Row : [row EXCEPT !.mine = FALSE] \in Row
    BY Zenon DEF Row
  <2> QED BY <1>1, <1>7, <2>1, Zenon DEF DeleteSub, AllManual
<1>8. ASSUME NEW x \in Id, Detach(x) PROVE FALSE
  <2>1. [rows[x] EXCEPT !.mine = FALSE] \in Row
    BY <1>8, MineRows, Zenon DEF Detach, Row
  <2> QED BY <1>1, <1>8, <2>1, Zenon DEF Detach, Table
<1> QED BY <1>3, <1>4, <1>5, <1>6, <1>7, <1>8, ZenonT(30)
        DEF Next, Apply, RefreshStep, Request, Load, Undo, Commit, BeginApply, BeginRefresh, Fetch,
            Restart, XrayStart, Disconnect, Connect, CheckEdit, PatchSub, Crash, vars, store

\* An apply begins, and a request reads its row, in a step that writes none.
LEMMA RowSteps ==
    ASSUME [Next]_vars
    PROVE  /\ cut \subseteq cut'
           /\ rows' = rows \/ (job' \in {job, None} /\ active' = active /\ ask' = ask)
<1>1. cut \subseteq cut'
  BY Zenon DEF Next, Apply, RefreshStep, Request, Load, Undo, Commit, Retire, BeginApply, BeginRefresh,
             Fetch, Merge, MergeAs, WriteBack, Restart, XrayStart, Disconnect, DeleteSub, Connect,
             CheckEdit, Detach, PatchSub, WriteEdit, Crash, vars, history
<1>2. rows' = rows \/ (job' \in {job, None} /\ active' = active /\ ask' = ask)
  BY Zenon DEF Next, Apply, RefreshStep, Request, Load, Undo, Commit, Retire, BeginApply, BeginRefresh,
             Fetch, Merge, MergeAs, WriteBack, Restart, XrayStart, Disconnect, DeleteSub, Connect,
             CheckEdit, Detach, PatchSub, WriteEdit, Crash, Release, vars, store
<1> QED BY <1>1, <1>2, Zenon

LEMMA CutStep ==
    ASSUME RInv, CutInv, [Next]_vars
    PROVE  CutInv'
<1>1. /\ StoreType /\ LocalType /\ (job # None => job \in Applies /\ job.id \in Id)
      /\ (ask # None => ask.id \in Id) /\ (active # None => active \in Id)
  BY Zenon DEF RInv, Types, StoreType, LocalType, Applies, MaybeId
<1>2. CASE rows' = rows
  <2>1. \A id : (Here(id) => Here(id)') /\ (Exists(id) => Here(id)')
    BY <1>2, RowSteps, Zenon DEF Here, Exists
  <2>2. active' # None => Here(active)'
    BY <2>1, StoreMoves, Zenon DEF CutInv
  <2>3. ask' # None => Here(ask.id)'
    <3>1. CASE ask' \in {ask, None}
      BY <2>1, <3>1, Zenon DEF CutInv
    <3>2. ASSUME NEW id \in Id, Exists(id), ask' = [id |-> id, cfg |-> rows[id].cfg]
          PROVE  Here(ask.id)'
      BY <2>1, <3>2
    <3> QED BY <3>1, <3>2, RequestMoves, Zenon
  <2>4. job' # None => Here(job.id)'
    <3>1. job # None => [job EXCEPT !.step = "commit"].id = job.id /\ [job EXCEPT !.step = "retire"].id = job.id
      BY <1>1, Zenon DEF Applies
    <3>2. ASSUME ask # None,
                 job' = [by |-> "op", id |-> ask.id, cfg |-> ask.cfg, was |-> Over(live), step |-> "load"]
          PROVE  Here(job.id)'
      <4>1. job'.id = ask.id
        BY <3>2
      <4> QED BY <2>1, <3>2, <4>1, Zenon DEF CutInv
    <3>3. ASSUME Begins PROVE Here(job.id)'
      <4>1. \E id : Exists(id) /\ job'.id = id
        BY <3>3 DEF Begins
      <4> QED BY <2>1, <4>1, Zenon
    <3>4. CASE job' \in {job, None}
      BY <2>1, <3>4, Zenon DEF CutInv
    <3> QED BY <2>1, <3>1, <3>2, <3>3, <3>4, JobMoves, Zenon DEF CutInv
  <2> QED BY <2>2, <2>3, <2>4, Zenon DEF CutInv
<1>3. CASE job' \in {job, None} /\ active' = active /\ ask' = ask
  <2>1. \A id \in Id : Here(id) /\ (id = active \/ InHand(id)) => Here(id)'
    BY RowsGo, RowSteps, Zenon DEF Here, Exists
  <2> QED BY <1>1, <1>3, <2>1, Zenon DEF CutInv, InHand
<1> QED BY <1>2, <1>3, RowSteps, Zenon

LEMMA CutInit == Init => CutInv
<1> SUFFICES ASSUME Init PROVE CutInv
  OBVIOUS
<1>1. active # None => rows[active] \in Row
  <2>1. \A i \in Ident : <<i, 1>> \in Id /\ <<i, 1>>[2] = 1
    BY RefreshAssumption, Zenon DEF Id, RefreshAssumption
  <2>2. [cfg : Cfg, mine : {TRUE}, stale : {FALSE}] \subseteq Row
    BY Zenon DEF Row
  <2> QED BY <2>1, <2>2, Zenon DEF Init
<1> QED BY <1>1, Zenon DEF Init, CutInv, Here, Exists

\* controller.py, reconcile.py, routes.py: whatever is connected, edited, detached, refreshed or
\* deleted, and wherever the panel crashes, active_node_id names a row that exists, unless that
\* row was deleted while a connect or an apply had it in hand, or by a DELETE that was
\* checked before its node became active.
THEOREM SelectedRowExists == Spec => []SelectionHasRow
<1>1. CutInv => SelectionHasRow
  BY Zenon DEF CutInv, Here, SelectionHasRow
<1> QED BY <1>1, CutInit, CutStep, RInvHolds, PTL DEF Spec

-----------------------------------------------------------------------------
(* What the tunnel runs, and what is stored                                *)

Unraced == parted \cap Races = {}
Unstrayed == parted \cap (Races \cup {"stray"}) = {}

\* From its merge to its write-back a refresh works with a report of the active row.
Working == pc \in {"restart", "apply", "writeback"}
ReportInv ==
    Working => /\ got.active = None => got.old = None /\ got.swap = None
               /\ got.changed => got.old # None /\ got.old.mine

\* No apply is between its load and its commit; one that is runs what it has loaded.
Settled == job = None \/ job.step # "commit"
JobInv == ~Settled => run = Loaded /\ live = Loaded

\* What runs, what lies on disk, and what a failed apply brings back.
Kept ==
    (IF Settled THEN {run, live} ELSE {})
        \cup (IF job # None /\ job.step # "retire" THEN {job.was} ELSE {})

\* Unless the active row was changed behind it, the row, what a refresh applies and what it may
\* write back keep the rank.
RowRank ==
    Unraced =>
       /\ active # None => rows[active] \in Row /\ Rank[rows[active].cfg] >= floor
       /\ job # None /\ job.by = "ref" => Rank[job.cfg] >= floor
       /\ (Working /\ got.active = active /\ ~got.taken /\ got.old # None) => Rank[got.old.cfg] >= floor

\* So does the tunnel, and every config of the active node it may come back to.
TunnelRank ==
    Unstrayed =>
       /\ Settled /\ run # None => Rank[run.cfg] >= floor
       /\ \A t \in Kept : t # None /\ t.id = active => Rank[t.cfg] >= floor

\* A refresh that changed the active row still owes an apply or the write-back.
Owed == Working /\ got.active = active /\ got.changed

\* The stored row looks like the config, or the refresh has the row that does.
LooksRight(cfg) ==
    /\ ~Owed => Look[rows[active].cfg] = Look[cfg]
    /\ Owed => Look[got.old.cfg] = Look[cfg] \/ (got.taken /\ cfg = rows[active].cfg)

LookInv ==
    parted = {} =>
       /\ Settled /\ run # None => run.id = active
       /\ \A t \in Kept : t # None /\ t.id = active => LooksRight(t.cfg)
       /\ (Working /\ got.active = active /\ ~got.taken /\ ~got.changed /\ got.old # None)
             => Look[got.old.cfg] = Look[rows[active].cfg]

Truth == ReportInv /\ JobInv /\ RowRank /\ TunnelRank /\ LookInv

\* A config of the active node as it is stored, which a refresh would not write back unseen.
AsStored(t) == Exists(active) /\ t.cfg = rows[active].cfg
Seen(t) == Owed' => got'.taken \/ got.old.cfg = t.cfg

\* A step that keeps the selection, and lets nothing into the tunnel or onto the disk but what
\* was there or is stored.
Lasting ==
    /\ UNCHANGED <<active, floor>> /\ parted \subseteq parted'
    /\ (Unstrayed' /\ Settled' /\ run' # None) => (Settled /\ run' = run) \/ run'.id = active
    /\ Unstrayed' => \A t \in Kept' : \/ t = None \/ t.id # active \/ t \in Kept
                                      \/ AsStored(t) /\ Seen(t)

\* A step that takes everything down.
Darkens == active' = None /\ floor' = floor /\ parted \subseteq parted' /\ Kept' \subseteq {None}

\* A step that changes neither the active row nor the report on it.
Calm ==
    /\ Lasting \/ Darkens
    /\ (Unraced' /\ Exists(active) /\ active' # None)
            => rows'[active] \in Row /\ rows'[active].cfg = rows[active].cfg
    /\ (Unraced' /\ job' # None /\ job'.by = "ref") => Rank[job'.cfg] >= floor
    /\ Working' => Working /\ SameReport
    /\ (parted' = {} /\ Owed /\ active' # None) => Working'

LEMMA FewerCauses ==
    ASSUME parted \subseteq parted'
    PROVE  (Unraced' => Unraced) /\ (Unstrayed' => Unstrayed /\ Unraced) /\ (parted' = {} => parted = {})
BY Zenon DEF Unraced, Unstrayed

LEMMA NoCauses == (parted = {} => Unstrayed) /\ (Unstrayed => Unraced)
BY Zenon DEF Unraced, Unstrayed

LEMMA RankLasts ==
    ASSUME RowRank, TunnelRank, Lasting \/ Darkens
    PROVE  TunnelRank'
<1> SUFFICES ASSUME Unstrayed' PROVE TunnelRank'
  BY Zenon DEF TunnelRank
<1>1. Unstrayed /\ Unraced
  BY FewerCauses, Zenon DEF Lasting, Darkens
<1>2. Settled' => run' \in Kept'
  BY Zenon DEF Kept
<1>3. CASE Darkens
  BY <1>2, <1>3, Zenon DEF Darkens, TunnelRank
<1>4. CASE Lasting
  <2>1. \A t \in Kept' : t # None /\ t.id = active => Rank[t.cfg] >= floor
    <3> SUFFICES ASSUME NEW t \in Kept', t # None, t.id = active PROVE Rank[t.cfg] >= floor
      BY Zenon
    <3>1. CASE t \in Kept
      BY <1>1, <3>1, Zenon DEF TunnelRank
    <3>2. CASE AsStored(t)
      BY <1>1, <3>2, Zenon DEF AsStored, Exists, RowRank
    <3> QED BY <1>4, <3>1, <3>2, Zenon DEF Lasting
  <2>2. (Settled' /\ run' # None) => Rank[run'.cfg] >= floor
    BY <1>1, <1>2, <1>4, <2>1, Zenon DEF Lasting, TunnelRank
  <2> QED BY <1>4, <2>1, <2>2, Zenon DEF Lasting, TunnelRank
<1> QED BY <1>3, <1>4, Zenon

LEMMA CalmKeeps ==
    ASSUME Truth, LocalType', ReportInv', JobInv', Calm
    PROVE  Truth'
<1> USE DEF Truth
<1>1. TunnelRank'
  BY RankLasts, Zenon DEF Calm
<1>2. /\ active' \in {active, None} /\ floor' = floor /\ parted \subseteq parted'
      /\ active' # None => active' = active
      /\ active' = None \/ Lasting
  BY Zenon DEF Calm, Lasting, Darkens
<1>3. (Working' /\ active' = None /\ got'.active = active') => got'.old = None
  BY Zenon DEF ReportInv
<1>4. (Working' /\ got'.active = active' /\ got'.old # None) => active # None /\ active' = active
  BY <1>2, <1>3, Zenon
<1>5. Working' => Working /\ SameReport
  BY Zenon DEF Calm
<1>6. (Unraced' /\ active' # None)
         => rows[active] \in Row /\ rows'[active] \in Row /\ rows'[active].cfg = rows[active].cfg
  BY <1>2, FewerCauses, Zenon DEF Calm, RowRank, Exists
<1>7. RowRank'
  <2> SUFFICES ASSUME Unraced' PROVE RowRank'
    BY Zenon DEF RowRank
  <2>1. Unraced
    BY <1>2, FewerCauses, Zenon
  <2>2. active' # None => rows'[active'] \in Row /\ Rank[rows'[active'].cfg] >= floor
    BY <1>2, <1>6, <2>1, Zenon DEF RowRank
  <2>3. (Working' /\ got'.active = active' /\ ~got'.taken /\ got'.old # None) => Rank[got'.old.cfg] >= floor
    BY <1>4, <1>5, <2>1, Zenon DEF RowRank, SameReport
  <2> QED BY <1>2, <2>2, <2>3, Zenon DEF RowRank, Calm
<1>8. LookInv'
  <2> SUFFICES ASSUME parted' = {} PROVE LookInv'
    BY Zenon DEF LookInv
  <2>1. parted = {} /\ Unraced' /\ Unstrayed'
    BY <1>2, FewerCauses, NoCauses, Zenon DEF Unraced, Unstrayed
  <2>2. (Working' /\ got'.active = active' /\ ~got'.taken /\ ~got'.changed /\ got'.old # None)
             => Look[got'.old.cfg] = Look[rows'[active'].cfg]
    BY <1>2, <1>4, <1>5, <1>6, <2>1, Zenon DEF LookInv, SameReport
  <2>3. Settled' => run' \in Kept'
    BY Zenon DEF Kept
  <2>4. CASE active' = None /\ Kept' \subseteq {None}
    BY <2>2, <2>3, <2>4, Zenon DEF LookInv
  <2>5. CASE Lasting
    <3>1. active' = active
      BY <2>5, Zenon DEF Lasting
    <3>2. (Settled' /\ run' # None) => run'.id = active
      BY <2>1, <2>5, Zenon DEF Lasting, LookInv
    <3>0. \A t \in Kept' : t # None => t.id # None
      BY RefreshAssumption, Zenon DEF Kept, LocalType, Applies, Tunnel, RefreshAssumption
    <3>3. ASSUME NEW t \in Kept', t # None, t.id = active, active # None PROVE LooksRight(t.cfg)'
      <4>1. rows'[active].cfg = rows[active].cfg /\ (Owed => Owed') /\ (Owed' => Owed /\ SameReport)
        BY <1>5, <1>6, <2>1, <3>1, <3>3, Zenon DEF Owed, SameReport, Calm
      <4>2. CASE t \in Kept
        <5>1. LooksRight(t.cfg)
          BY <2>1, <3>3, <4>2, Zenon DEF LookInv
        <5> QED BY <3>1, <4>1, <5>1, Zenon DEF LooksRight, SameReport
      <4>3. CASE AsStored(t) /\ Seen(t)
        BY <3>1, <4>1, <4>3, Zenon DEF AsStored, Seen, LooksRight, SameReport
      <4> QED BY <2>1, <2>5, <3>3, <4>2, <4>3, Zenon DEF Lasting
    <3> QED BY <2>2, <3>0, <3>1, <3>2, <3>3, Zenon DEF LookInv
  <2> QED BY <2>4, <2>5, Zenon DEF Calm, Darkens
<1> QED BY <1>1, <1>7, <1>8, Zenon

LEMMA WorkMoves ==
    ASSUME RInv, [Next]_vars
    PROVE  Working' => \/ Working /\ SameReport
                       \/ pc = "merge" /\ pc' = "restart" /\ got' = Report(rows')
<1>1. Stage /\ Retiring /\ got \in Locals
  BY Zenon DEF RInv, Types, LocalType
<1>2. Takes \/ Drops \/ Replaces \/ Strides \/ Aside \/ Restarted
  BY <1>1, LockMoves, Zenon
<1>3. got' = got => SameReport
  BY Zenon DEF SameReport
<1>4. CASE Takes \/ Replaces \/ Strides \/ Aside \/ Restarted
  BY <1>3, <1>4, Zenon DEF Takes, Replaces, Strides, Aside, Restarted, Working
<1>5. CASE Drops
  BY <1>1, <1>5, Zenon DEF Drops, Working, Stage
<1> QED BY <1>2, <1>4, <1>5, Zenon

LEMMA ReportStep ==
    ASSUME RInv, ReportInv, [Next]_vars
    PROVE  ReportInv'
<1>1. got \in Locals
  BY Zenon DEF RInv, Types, LocalType
<1>2. CASE ~Working' \/ (Working /\ SameReport)
  BY <1>2, Zenon DEF ReportInv, SameReport
<1>3. CASE got' = Report(rows')
  <2>1. /\ got'.active = active /\ got'.old = (IF Exists(active) THEN rows[active] ELSE None)
        /\ got'.changed = ActiveChanged(got.feed, active)
        /\ got'.swap = ActiveReplacement(got.feed, active, rows')
    BY <1>1, <1>3, Zenon DEF Report, Locals
  <2>2. got'.changed => got'.old # None /\ got'.old.mine
    BY <2>1, RefreshAssumption, Zenon DEF ActiveChanged, Mine, Exists, RefreshAssumption
  <2>3. active = None => got'.old = None /\ got'.swap = None
    BY <2>1, Zenon DEF Exists, ActiveReplacement, Mine
  <2> QED BY <2>1, <2>2, <2>3, Zenon DEF ReportInv
<1> QED BY <1>2, <1>3, WorkMoves, Zenon

LEMMA JobStep ==
    ASSUME RInv, JobInv, [Next]_vars
    PROVE  JobInv'
<1>1. job # None => job \in Applies
  BY Zenon DEF RInv, Types, LocalType
<1>2. CASE Load
  <2>1. [job EXCEPT !.step = "commit"].id = job.id /\ [job EXCEPT !.step = "commit"].cfg = job.cfg
    BY <1>1, <1>2, Zenon DEF Load, Applies
  <2> QED BY <1>2, <2>1, Zenon DEF Load, Release, Settled, JobInv, Loaded
<1>3. CASE Commit
  <2>1. job # None => [job EXCEPT !.step = "retire"].step # "commit"
    BY <1>1, Zenon DEF Applies
  <2> QED BY <1>3, <2>1, Zenon DEF Commit, Release, Settled, JobInv
<1>4. CASE job' = job /\ UNCHANGED tunnel
  BY <1>4, Zenon DEF Settled, JobInv, Loaded, tunnel
<1>5. ASSUME NEW by, NEW running, NEW disk, Reapply(by, running, disk) PROVE Settled'
  <2>1. \A id : Job(by, id, disk).step = "load"
    BY DEF Job
  <2> QED BY <1>5, <2>1, Zenon DEF Reapply, Settled
<1>6. CASE XrayStart \/ Crash
  BY <1>5, <1>6, Zenon DEF XrayStart, Crash, JobInv
<1>7. CASE BeginApply
  BY <1>7 DEF BeginApply, JobInv, Settled
<1>8. CASE Undo \/ Retire \/ Disconnect
  BY <1>8, Zenon DEF Undo, Retire, Disconnect, Release, JobInv, Settled
<1>9. ASSUME NEW on \in BOOLEAN, Restart(on) PROVE Settled'
  <2>1. \A id : Job("ref", id, live).step = "load"
    BY DEF Job
  <2> QED BY <1>9, <2>1, Zenon DEF Restart, Settled
<1> QED BY <1>2, <1>3, <1>4, <1>6, <1>7, <1>8, <1>9, ZenonT(30)
        DEF Next, Apply, RefreshStep, Request, BeginRefresh, Fetch, Merge, MergeAs, WriteBack,
            DeleteSub, Connect, CheckEdit, Detach, PatchSub, WriteEdit, JobInv, vars

\* A step that leaves the tunnel and the lock alone.
LEMMA IdleCalm ==
    ASSUME RInv, Truth, [Next]_vars, UNCHANGED <<active, floor, run, live, job>>,
           parted \subseteq parted', pc # "merge" \/ pc' = pc,
           (Unraced' /\ Exists(active)) => rows'[active] \in Row /\ rows'[active].cfg = rows[active].cfg,
           (Unraced /\ Owed) => Working'
    PROVE  Calm
<1>1. Settled' = Settled /\ Kept' = Kept
  BY Zenon DEF Settled, Kept
<1>2. Lasting
  BY <1>1, Zenon DEF Lasting
<1>3. (Unraced' => Unraced) /\ (parted' = {} => Unraced)
  BY FewerCauses, NoCauses, Zenon
<1>4. Working' => Working /\ SameReport
  BY WorkMoves, Zenon
<1> QED BY <1>2, <1>3, <1>4, Zenon DEF Calm, Truth, RowRank

\* An apply begins: it comes back to the config on disk, if there is an active row.
LEMMA BeginCalm ==
    ASSUME RInv, Truth, [Next]_vars, UNCHANGED <<rows, active, floor, parted, run, live>>,
           job = None, job' # None, job'.step = "load", job'.was \in {live, None},
           (Unraced /\ job'.by = "ref") => Rank[job'.cfg] >= floor,
           pc # "merge" \/ pc' = pc, pc' = pc \/ pc' = "apply"
    PROVE  Calm
<1>1. Settled /\ Settled' /\ \A t \in Kept' : t = None \/ t \in Kept
  BY Zenon DEF Settled, Kept
<1>2. Lasting
  BY <1>1, Zenon DEF Lasting
<1>3. (Unraced' => Unraced) /\ (parted' = {} => Unraced)
  BY FewerCauses, NoCauses, Zenon
<1>4. Working' => Working /\ SameReport
  BY WorkMoves, Zenon
<1>5. Owed => Working'
  BY Zenon DEF Owed, Working
<1> QED BY <1>2, <1>3, <1>4, <1>5, Zenon DEF Calm, Exists

LEMMA LoadCalm ==
    ASSUME RInv, Truth, [Next]_vars, Load
    PROVE  Calm
<1>1. /\ job # None /\ job \in Applies /\ job.step = "load" /\ UNCHANGED <<rows, active, floor>>
      /\ Stage /\ LocalType /\ got \in Locals /\ Settled
  BY Zenon DEF Load, RInv, Types, LocalType, Settled
<1>2. Kept = {run, live, job.was}
  BY <1>1 DEF Kept
<1>3. pc' # "restart" \/ pc' = pc
  BY Zenon DEF Load, Release, refresh
<1>4. Working' => Working /\ SameReport
  BY <1>3, WorkMoves, Zenon
<1>5. parted \subseteq parted'
  BY Zenon DEF Load
<1>6. CASE job' = [job EXCEPT !.step = "commit"] /\ UNCHANGED refresh
  <2>1. /\ job'.by = job.by /\ job'.cfg = job.cfg /\ job'.was = job.was /\ job'.step = "commit"
        /\ job' \in Applies
    BY <1>1, <1>6, Zenon DEF Applies
  <2>2. ~Settled' /\ Kept' \subseteq Kept
    <3>1. job' # None
      BY <2>1, RefreshAssumption, Zenon DEF RefreshAssumption
    <3> QED BY <1>2, <2>1, <3>1, Zenon DEF Settled, Kept
  <2>3. Lasting
    BY <1>1, <1>5, <2>2, Zenon DEF Lasting
  <2>4. Owed => Working'
    BY <1>6, Zenon DEF Owed, Working, refresh
  <2>5. (Unraced' /\ job'.by = "ref") => Rank[job'.cfg] >= floor
    BY <1>1, <1>5, <2>1, FewerCauses, Zenon DEF Truth, RowRank
  <2> QED BY <1>1, <1>4, <2>3, <2>4, <2>5, Zenon DEF Calm, Exists
<1>7. CASE Release(job.by, "writeback") /\ UNCHANGED tunnel
  <2>1. job' = None /\ run' = run /\ live' = live /\ Settled'
    BY <1>7, Zenon DEF Release, tunnel, Settled
  <2>2. Kept' = {run, live}
    BY <2>1, Zenon DEF Kept
  <2>3. Lasting
    BY <1>1, <1>2, <1>5, <2>1, <2>2, Zenon DEF Lasting
  <2>4. Owed => Working'
    BY <1>7, Zenon DEF Owed, Working, Release
  <2> QED BY <1>1, <1>4, <2>1, <2>3, <2>4, Zenon DEF Calm, Exists
<1>8. CASE /\ live' \in {live, Loaded} /\ Release(job.by, "off") /\ UNCHANGED run
           /\ parted' = parted \cup If("edited", ~Matches) \cup If("unsaved", Abandons)
  <2>1. job' = None /\ Settled' /\ run' = run
    BY <1>8, Zenon DEF Release, Settled
  <2>2. Kept' = {run, live'}
    BY <2>1, Zenon DEF Kept
  <2>3. Unstrayed' => Matches
    BY <1>8, Zenon DEF Unstrayed, If, Races
  <2>4. parted' = {} => ~Abandons
    BY <1>8, Zenon DEF If
  <2>5. Loaded.id = job.id /\ Loaded.cfg = job.cfg
    BY DEF Loaded
  <2>6. ASSUME Owed', live' = Loaded, Loaded.id = active PROVE got'.taken \/ got.old.cfg = job.cfg
    <3>1. job.by # "ref"
      BY <1>8, <2>6, Zenon DEF Release, Owed, Working
    <3>2. SameReport /\ (Overtakes => got'.taken)
      BY <1>1, <1>8, <3>1, ReleaseReport, Zenon
    <3>3. got.active = active /\ got.changed /\ Working
      BY <1>1, <1>4, <2>6, <3>2, Zenon DEF Owed, SameReport
    <3>4. got.old # None
      BY <3>3, Zenon DEF Truth, ReportInv
    <3> QED BY <2>5, <2>6, <3>1, <3>2, <3>3, <3>4, Zenon DEF Overtakes
  <2>7. Lasting
    <3>1. Unstrayed' => \A t \in Kept' : t = None \/ t.id # active \/ t \in Kept \/ (AsStored(t) /\ Seen(t))
      BY <1>2, <1>8, <2>2, <2>3, <2>5, <2>6, Zenon DEF Matches, AsStored, Seen
    <3> QED BY <1>1, <1>5, <2>1, <3>1, Zenon DEF Lasting
  <2>8. (parted' = {} /\ Owed) => Working'
    BY <1>8, <2>4, Zenon DEF Owed, Working, Release, Abandons
  <2> QED BY <1>1, <1>4, <2>1, <2>7, <2>8, Zenon DEF Calm, Exists
<1> QED BY <1>6, <1>7, <1>8, Zenon DEF Load

LEMMA UndoCalm ==
    ASSUME RInv, Truth, [Next]_vars, Undo
    PROVE  Calm
<1>1. /\ job # None /\ job.step = "commit" /\ UNCHANGED <<rows, active, floor>> /\ job' = None
      /\ parted \subseteq parted' /\ (pc' # "restart" \/ pc' = pc)
  BY Zenon DEF Undo, Release
<1>2. Working' => Working /\ SameReport
  BY <1>1, WorkMoves, Zenon
<1>3. Settled' /\ Kept' = {run', live'} /\ job.was \in Kept
  BY <1>1 DEF Settled, Kept
<1>4. Unstrayed' => ~Strays
  BY Zenon DEF Undo, Unstrayed, If
<1>5. ~Strays => live' = job.was /\ (live' = None \/ live'.id = active) /\ run' \in {None, live'}
  BY Zenon DEF Undo, Strays
<1>6. Lasting
  BY <1>1, <1>3, <1>4, <1>5, Zenon DEF Lasting
<1>7. (parted' = {} /\ Owed) => Working'
  BY Zenon DEF Undo, Owed, Working, Release, Abandons, If
<1> QED BY <1>1, <1>2, <1>6, <1>7, Zenon DEF Calm, Exists

LEMMA BeginApplyCalm ==
    ASSUME RInv, Truth, [Next]_vars, BeginApply
    PROVE  Calm
<1>1. /\ UNCHANGED <<rows, active, floor, parted, run, live, pc>> /\ job = None
      /\ job' = [by |-> "op", id |-> ask.id, cfg |-> ask.cfg, was |-> Over(live), step |-> "load"]
  BY Zenon DEF BeginApply, store, tunnel, refresh, history
<1>2. job'.by = "op" /\ job'.was = Over(live) /\ job'.step = "load"
  BY <1>1
<1>3. job' # None
  BY <1>1, RefreshAssumption DEF RInv, Types, LocalType, Applies, Over, Tunnel, BeginApply, RefreshAssumption
<1> QED BY <1>1, <1>2, <1>3, BeginCalm, Zenon DEF Over

LEMMA StartCalm ==
    ASSUME RInv, Truth, [Next]_vars, XrayStart
    PROVE  Calm
<1>1. UNCHANGED <<rows, floor, parted, pc, got>> /\ job = None /\ Reapply("start", run, live)
  BY Zenon DEF XrayStart, refresh, history
<1>2. CASE job' # None
  <2>1. UNCHANGED <<active, run, live>> /\ job' = Job("start", PendingOrActive, live)
    BY <1>1, <1>2, Zenon DEF Reapply
  <2>2. job'.by = "start" /\ job'.was = Over(live) /\ job'.step = "load"
    BY <2>1 DEF Job
  <2> QED BY <1>1, <1>2, <2>1, <2>2, BeginCalm, Zenon DEF Over
<1>3. CASE job' = None /\ Exists(PendingOrActive)
  <2>1. UNCHANGED <<active, run, live, job>>
    BY <1>1, <1>3, Zenon DEF Reapply
  <2>2. Kept' = Kept /\ Settled' = Settled /\ (Owed => Working')
    BY <1>1, <2>1, Zenon DEF Kept, Settled, Owed, Working
  <2>3. Working' => Working /\ SameReport
    BY <1>1, WorkMoves, Zenon
  <2> QED BY <1>1, <1>3, <2>1, <2>2, <2>3, Zenon DEF Calm, Lasting, Exists
<1>4. CASE job' = None /\ ~Exists(PendingOrActive)
  <2>1. run' = None /\ live' = None /\ active' = None
    BY <1>1, <1>4, Zenon DEF Reapply
  <2>2. Kept' \subseteq {None}
    BY <1>4, <2>1, Zenon DEF Kept
  <2>3. Working' => Working /\ SameReport
    BY <1>1, WorkMoves, Zenon
  <2> QED BY <1>1, <1>4, <2>1, <2>2, <2>3, Zenon DEF Calm, Darkens
<1> QED BY <1>2, <1>3, <1>4, Zenon

LEMMA CrashCalm ==
    ASSUME RInv, Truth, [Next]_vars, Crash
    PROVE  Calm
<1>1. /\ UNCHANGED <<rows, floor>> /\ pc' = "off"
      /\ parted' = parted \cup If("edited", job # None /\ ~Matches) \cup If("unsaved", got.changed)
  BY Zenon DEF Crash
<1>2. PICK disk \in Torn : Reapply("boot", None, disk)
  BY Zenon DEF Crash
<1>3. ~Working' /\ ~Owed'
  BY <1>1, Zenon DEF Working, Owed
<1>4. (parted' = {} /\ Owed) => FALSE
  BY <1>1, Zenon DEF Owed, If
<1>5. CASE ~Exists(PendingOrActive)
  <2>1. run' = None /\ live' = None /\ active' = None /\ job' = None
    BY <1>2, <1>5, Zenon DEF Reapply
  <2>2. Kept' \subseteq {None}
    BY <2>1, Zenon DEF Kept
  <2> QED BY <1>1, <1>3, <1>4, <2>1, <2>2, Zenon DEF Calm, Darkens
<1>6. CASE Exists(PendingOrActive)
  <2>1. run' = None /\ live' = disk /\ active' = active /\ job' = Job("boot", PendingOrActive, disk)
    BY <1>2, <1>6, Zenon DEF Reapply
  <2>2. job'.by = "boot" /\ job'.was = Over(disk) /\ job'.step = "load"
    BY <2>1 DEF Job
  <2>3. \A t \in Kept' : t = None \/ t = disk
    BY <2>1, <2>2, Zenon DEF Kept, Over
  <2>4. disk \in Kept \/ (job # None /\ disk = Loaded)
    BY Zenon DEF Torn, Kept, Settled, Truth, JobInv
  <2>5. (Unstrayed' /\ job # None) => Matches
    BY <1>1, Zenon DEF Unstrayed, If, Races
  <2>6. Loaded.id = job.id /\ Loaded.cfg = job.cfg
    BY DEF Loaded
  <2>7. Lasting
    <3>1. Unstrayed' => \A t \in Kept' : t = None \/ t.id # active \/ t \in Kept \/ (AsStored(t) /\ Seen(t))
      BY <1>3, <2>3, <2>4, <2>5, <2>6, Zenon DEF Matches, AsStored, Seen
    <3> QED BY <1>1, <2>1, <3>1, Zenon DEF Lasting
  <2> QED BY <1>1, <1>3, <1>4, <2>1, <2>2, <2>7, Zenon DEF Calm, Exists
<1> QED BY <1>5, <1>6, Zenon

\* What a refresh applies was checked against the ladder under the lock.
LEMMA RestartCalm ==
    ASSUME RInv, Truth, [Next]_vars, NEW on \in BOOLEAN, Restart(on)
    PROVE  Calm
<1>1. job = None /\ pc = "restart" /\ UNCHANGED <<rows, active, floor, parted, run, live>>
  BY Zenon DEF Restart, store, tunnel, history
<1>2. CASE pc' = "apply"
  <2>1. /\ got' = got /\ active = got.active
        /\ \/ AutoSwitchAllowed /\ job' = Job("ref", got.swap, live)
           \/ Exists(got.active) /\ job' = Job("ref", got.active, live)
    BY <1>2, Zenon DEF Restart, EndRefresh, StandDown
  <2>2. (Unraced /\ active # None) => rows[active] \in Row /\ Rank[rows[active].cfg] >= floor
    BY Zenon DEF Truth, RowRank
  <2>3. AutoSwitchAllowed => got.swap # None /\ rows[got.swap] \in Row /\ active # None
    BY <1>1, <2>1, Zenon DEF AutoSwitchAllowed, Exists, Truth, ReportInv, Working
  <2>4. (AutoSwitchAllowed /\ Unraced) => Rank[rows[got.swap].cfg] >= Rank[rows[active].cfg]
    BY <2>1, <2>2, <2>3, Zenon DEF AutoSwitchAllowed, Exists, SecurityKept
  <2>5. \A cfg \in Cfg : Rank[cfg] \in Nat
    BY RefreshAssumption DEF RefreshAssumption
  <2>6. floor \in Nat
    BY DEF RInv, Types, CountType
  <2>7. \A row \in Row : row.cfg \in Cfg
    BY Zenon DEF Row
  <2>8. (AutoSwitchAllowed /\ Unraced) => Rank[rows[got.swap].cfg] >= floor
    BY <2>2, <2>3, <2>4, <2>5, <2>6, <2>7
  <2>9. (Exists(got.active) /\ Unraced) => Rank[rows[got.active].cfg] >= floor
    BY <2>1, <2>2, Zenon DEF Exists
  <2>10. /\ job'.by = "ref" /\ job'.was = Over(live) /\ job'.step = "load"
         /\ Unraced => Rank[job'.cfg] >= floor
    BY <2>1, <2>8, <2>9 DEF Job
  <2>11. job' # None
    BY <1>1, <1>2, GuardStep, Zenon DEF Stage
  <2> QED BY <1>1, <1>2, <2>10, <2>11, BeginCalm, Zenon DEF Over
<1>3. CASE pc' = "writeback"
  BY <1>1, <1>3, IdleCalm, Zenon DEF Restart, EndRefresh, Working, Exists
<1>4. CASE EndRefresh /\ UNCHANGED job /\ ~(~StandDown /\ got.changed /\ Exists(got.active))
  <2>1. (Unraced /\ Owed /\ active # None) => FALSE
    BY <1>4, Zenon DEF Truth, RowRank, Exists, Owed, StandDown
  <2>2. Owed => active # None
    BY Zenon DEF Owed, Truth, ReportInv
  <2> QED BY <1>1, <1>4, <2>1, <2>2, IdleCalm, Zenon DEF Exists
<1> QED BY <1>2, <1>3, <1>4, Zenon DEF Restart

LEMMA RequestCalm ==
    ASSUME RInv, Truth, [Next]_vars,
           \/ BeginRefresh \/ Fetch \/ UNCHANGED vars
           \/ \E id \in Id : Connect(id) \/ CheckEdit(id)
           \/ \E u \in Url : PatchSub(u)
    PROVE  Calm
<1>1. UNCHANGED <<rows, active, floor, parted, run, live, job>>
  BY Zenon DEF BeginRefresh, Fetch, Connect, CheckEdit, PatchSub, vars, store, tunnel, history
<1>2. (pc # "merge" \/ pc' = pc) /\ (Owed => Working')
  BY Zenon DEF BeginRefresh, Fetch, Connect, CheckEdit, PatchSub, vars, refresh, Owed, Working
<1> QED BY <1>1, <1>2, IdleCalm, Zenon DEF Exists

LEMMA DetachCalm ==
    ASSUME RInv, Truth, [Next]_vars, NEW id \in Id, Detach(id)
    PROVE  Calm
<1>1. rows[id] \in Row /\ rows \in Table
  BY MineRows, Zenon DEF Detach, RInv, Types, StoreType
<1>2. LET row == [rows[id] EXCEPT !.mine = FALSE] IN row \in Row /\ row.cfg = rows[id].cfg
  BY <1>1, Zenon DEF Row
<1>3. \A x \in Id : rows'[x] = rows[x] \/ (rows'[x] \in Row /\ rows'[x].cfg = rows[x].cfg)
  BY <1>1, <1>2, Zenon DEF Detach, Table
<1>4. Exists(active) => active \in Id /\ rows[active] \in Row
  BY Zenon DEF Exists, RInv, Types, StoreType, MaybeId
<1>5. UNCHANGED <<active, floor, parted, run, live, job, pc, got>> /\ (Owed => Working')
  BY Zenon DEF Detach, tunnel, refresh, history, Owed, Working
<1> QED BY <1>3, <1>4, <1>5, IdleCalm, Zenon

LEMMA DeleteSubCalm ==
    ASSUME RInv, Truth, [Next]_vars, DeleteSub
    PROVE  Calm
<1>1. \A x \in Mine : x \in Id /\ rows[x] \in Row
  BY MineRows, Zenon DEF Mine
<1>2. \A row \in Row : LET new == [row EXCEPT !.mine = FALSE] IN new \in Row /\ new.cfg = row.cfg
  BY Zenon DEF Row
<1>3. \A x \in Id : rows'[x] = rows[x] \/ (rows'[x] \in Row /\ rows'[x].cfg = rows[x].cfg)
  BY <1>1, <1>2, Zenon DEF DeleteSub, AllManual
<1>4. Exists(active) => active \in Id /\ rows[active] \in Row
  BY Zenon DEF Exists, RInv, Types, StoreType, MaybeId
<1>5. UNCHANGED <<active, floor, parted, run, live, job, pc, got>> /\ (Owed => Working')
  BY Zenon DEF DeleteSub, tunnel, refresh, history, Owed, Working
<1> QED BY <1>3, <1>4, <1>5, IdleCalm, Zenon

LEMMA WriteEditCalm ==
    ASSUME RInv, Truth, [Next]_vars, WriteEdit
    PROVE  Calm
<1>1. UNCHANGED <<active, floor, run, live, job, pc, got>> /\ parted \subseteq parted' /\ (Owed => Working')
  BY Zenon DEF WriteEdit, tunnel, refresh, Owed, Working
<1>2. rows \in Table /\ (Exists(active) => active \in Id /\ rows[active] \in Row)
  BY Zenon DEF Exists, RInv, Types, StoreType, MaybeId
<1>3. Unraced' => rows' = rows \/ edit.id # active
  BY Zenon DEF WriteEdit, Unraced, If, Races
<1>4. (edit.id # active /\ active \in Id) => rows'[active] = rows[active]
  BY <1>2, Zenon DEF WriteEdit, Updated, Table
<1> QED BY <1>1, <1>2, <1>3, <1>4, IdleCalm, Zenon

\* The operator disconnects: nothing runs, and with the selection everything is forgotten.
LEMMA DisconnectKeeps ==
    ASSUME RInv, Truth, [Next]_vars, Disconnect, LocalType', ReportInv', JobInv'
    PROVE  Truth'
<1>1. /\ UNCHANGED <<rows, job, pc, got>> /\ job = None /\ run' = None /\ (Owed => Working')
      /\ Settled /\ Settled'
  BY Zenon DEF Disconnect, refresh, Owed, Working, Settled
<1>2. Kept = {run, live} /\ Kept' = {None, live'}
  BY <1>1, Zenon DEF Kept
<1>3. CASE UNCHANGED <<active, live, floor, parted>>
  <2>1. Lasting
    BY <1>1, <1>2, <1>3, Zenon DEF Lasting
  <2>2. Working' => Working /\ SameReport
    BY <1>1, WorkMoves, Zenon
  <2>3. Calm
    BY <1>1, <2>1, <2>2, Zenon DEF Calm, Exists
  <2> QED BY <2>3, CalmKeeps, Zenon
<1>4. CASE active' = None /\ live' = None
  <2>1. (Working' /\ got'.active = active') => got'.old = None
    BY <1>4, Zenon DEF ReportInv
  <2> QED BY <1>1, <1>2, <1>4, <2>1, Zenon DEF Truth, RowRank, TunnelRank, LookInv
<1> QED BY <1>3, <1>4, Zenon DEF Disconnect

LEMMA RetireCalm ==
    ASSUME RInv, Truth, [Next]_vars, Retire
    PROVE  Calm
<1>1. /\ job # None /\ job.step = "retire" /\ UNCHANGED <<active, floor, parted, run, live>> /\ job' = None
      /\ pc' = "off" /\ rows \in Table
  BY Zenon DEF Retire, Release, tunnel, RInv, Types, StoreType
<1>2. active # got.active
  BY <1>1, Zenon DEF RInv, Retiring, Stage, Guarded
<1>3. Exists(active) => rows'[active] = rows[active] /\ rows[active] \in Row
  BY <1>1, <1>2, Zenon DEF Retire, Table, RInv, Types, StoreType, MaybeId, Exists
<1>4. Settled /\ Settled' /\ Kept' \subseteq Kept
  BY <1>1, Zenon DEF Settled, Kept
<1>5. Lasting
  BY <1>1, <1>4, Zenon DEF Lasting
<1> QED BY <1>1, <1>2, <1>3, <1>5, Zenon DEF Calm, Working, Owed

\* The apply is over or retires: what it loaded runs, and a refresh that had reported on the same
\* row knows.
LEMMA CommitLoads ==
    ASSUME RInv, Truth, [Next]_vars, Commit
    PROVE  /\ run' = Loaded /\ live' = Loaded /\ UNCHANGED rows /\ Settled'
           /\ \A t \in Kept' : t = Loaded
           /\ job' # None => job'.cfg = job.cfg /\ got.swap = job.id /\ active' = job.id
           /\ Working' => Working /\ SameReport
           /\ (Working' /\ got'.active = job.id /\ active' = job.id /\ got'.old # None)
                 => got'.taken \/ got.old.cfg = job.cfg
<1>1. /\ job # None /\ job \in Applies /\ job.step = "commit" /\ UNCHANGED <<rows, run, live>>
      /\ got \in Locals /\ Stage /\ Guarded
  BY Zenon DEF Commit, tunnel, RInv, Types, LocalType
<1>2. run' = Loaded /\ live' = Loaded
  BY <1>1, Zenon DEF Truth, JobInv, Settled
<1>3. \/ Release(job.by, "off")
      \/ /\ job' = [job EXCEPT !.step = "retire"] /\ UNCHANGED refresh
         /\ job.by = "ref" /\ got.swap = job.id /\ active' = job.id
  BY Zenon DEF Commit
<1>4. CASE Release(job.by, "off")
  <2>1. job' = None
    BY <1>4, Zenon DEF Release
  <2>2. Working' => job.by # "ref" /\ Working
    BY <1>4, Zenon DEF Release, Working
  <2>3. Working' => SameReport /\ (Overtakes => got'.taken)
    BY <1>1, <1>4, <2>2, ReleaseReport, Zenon
  <2>4. (Working' /\ got'.active = job.id /\ got'.old # None) => got'.taken \/ got.old.cfg = job.cfg
    BY <1>2, <2>2, <2>3, Zenon DEF Overtakes, SameReport
  <2>5. Settled' /\ \A t \in Kept' : t = Loaded
    BY <1>2, <2>1, Zenon DEF Settled, Kept
  <2> QED BY <1>1, <1>2, <2>1, <2>2, <2>3, <2>4, <2>5, Zenon
<1>5. CASE /\ job' = [job EXCEPT !.step = "retire"] /\ UNCHANGED refresh
           /\ job.by = "ref" /\ got.swap = job.id /\ active' = job.id
  <2>1. job'.step = "retire" /\ job'.cfg = job.cfg
    BY <1>1, <1>5, Zenon DEF Applies
  <2>2. Settled' /\ \A t \in Kept' : t = Loaded
    BY <1>2, <2>1, Zenon DEF Settled, Kept
  <2>3. pc = "apply" /\ got.active # job.id
    BY <1>1, <1>5, RefreshAssumption, Zenon DEF Stage, Guarded, Applies, RefreshAssumption
  <2>4. Working /\ SameReport
    BY <1>5, <2>3, Zenon DEF Working, SameReport, refresh
  <2> QED BY <1>1, <1>2, <1>5, <2>1, <2>2, <2>3, <2>4, Zenon DEF SameReport
<1> QED BY <1>3, <1>4, <1>5, Zenon

\* The transaction goes through, or raises.
Succeeds ==
    /\ active' = job.id /\ parted' = If("edited", ~Matches)
    /\ floor' = IF Chosen \/ parted \cap Races # {} \/ Rank[job.cfg] > floor THEN Rank[job.cfg] ELSE floor
Raises ==
    /\ active' = active /\ job' = None
    /\ parted' = parted \cup If("edited", ~Matches) \cup If("unsaved", job.id # active)
    /\ floor' = IF Chosen /\ Rank[job.cfg] < floor THEN Rank[job.cfg] ELSE floor

\* Whoever applies, the rank is kept or chosen.
LEMMA CommitRank ==
    ASSUME RInv, Truth, Commit, Matches
    PROVE  /\ Succeeds => Rank[job.cfg] >= floor'
           /\ (Raises /\ Unraced) => Rank[job.cfg] >= floor' /\ floor >= floor'
<1>1. job # None /\ job \in Applies /\ job.step = "commit"
  BY Zenon DEF Commit, RInv, Types, LocalType
<1>2. job.cfg \in Cfg /\ job.id # None /\ job.by \in {"op", "start", "boot", "ref"}
  BY <1>1, RefreshAssumption, Zenon DEF Applies, RefreshAssumption
<1>3. Rank[job.cfg] \in Nat /\ floor \in Nat
  BY <1>2, RefreshAssumption DEF RefreshAssumption, RInv, Types, CountType
<1>4. (Unraced /\ ~Chosen) => Rank[job.cfg] >= floor
  <2>1. CASE job.by = "ref"
    BY <1>1, <2>1, Zenon DEF Truth, RowRank
  <2>2. CASE job.by # "ref"
    BY <1>2, <2>2, Zenon DEF Chosen, Truth, RowRank, Matches
  <2> QED BY <2>1, <2>2, Zenon
<1>5. Succeeds => Rank[job.cfg] >= floor'
  BY <1>3, <1>4 DEF Succeeds, Unraced
<1>6. (Raises /\ Unraced) => Rank[job.cfg] >= floor' /\ floor >= floor'
  BY <1>3, <1>4 DEF Raises
<1> QED BY <1>5, <1>6, Zenon

LEMMA CommitKeeps ==
    ASSUME RInv, Truth, [Next]_vars, Commit, LocalType', ReportInv', JobInv'
    PROVE  Truth'
<1>1. /\ run' = Loaded /\ live' = Loaded /\ UNCHANGED rows /\ Settled'
      /\ \A t \in Kept' : t = Loaded
      /\ job' # None => job'.cfg = job.cfg /\ got.swap = job.id /\ active' = job.id
      /\ Working' => Working /\ SameReport
      /\ (Working' /\ got'.active = job.id /\ active' = job.id /\ got'.old # None)
            => got'.taken \/ got.old.cfg = job.cfg
  BY CommitLoads, Zenon
<1>2. Loaded.id = job.id /\ Loaded.cfg = job.cfg
  BY DEF Loaded
<1>3. Succeeds \/ Raises
  BY Zenon DEF Commit, Succeeds, Raises, Release
<1>4. (Unraced' \/ Unstrayed' \/ parted' = {}) => Matches /\ (Raises => Unraced)
  <2>1. ASSUME Raises, Unraced' \/ Unstrayed' \/ parted' = {} PROVE Matches /\ Unraced
    BY <2>1, Zenon DEF Raises, Unraced, Unstrayed, If, Races
  <2>2. ASSUME Succeeds, Unraced' \/ Unstrayed' \/ parted' = {} PROVE Matches
    BY <2>2, Zenon DEF Succeeds, Unraced, Unstrayed, If, Races
  <2> QED BY <1>3, <2>1, <2>2, Zenon
<1>5. (Unraced' \/ Unstrayed' \/ parted' = {}) => Rank[job.cfg] >= floor'
  BY <1>3, <1>4, CommitRank, Zenon
<1>6. TunnelRank'
  BY <1>1, <1>2, <1>5, Zenon DEF TunnelRank
<1>7. Matches => rows'[job.id] \in Row /\ rows'[job.id].cfg = job.cfg
  BY <1>1, Zenon DEF Matches, Exists
<1>8. (Working' /\ got'.active = active' /\ got'.old # None) => got' .old = got.old
  BY <1>1, Zenon DEF SameReport
<1>9. RowRank'
  <2> SUFFICES ASSUME Unraced' PROVE RowRank'
    BY Zenon DEF RowRank
  <2>1. CASE Succeeds
    <3>1. active' = job.id
      BY <2>1, Zenon DEF Succeeds
    <3> QED BY <1>1, <1>4, <1>5, <1>7, <1>8, <3>1, Zenon DEF RowRank
  <2>2. CASE Raises
    <3>1. active' = active /\ Unraced /\ Matches /\ job' = None /\ floor >= floor'
      BY <1>4, <2>2, CommitRank, Zenon DEF Raises
    <3>2. floor \in Nat /\ floor' \in Nat
      BY TypesStep DEF RInv, Types, CountType
    <3>3. active # None => rows[active] \in Row /\ Rank[rows[active].cfg] >= floor
      BY <3>1, Zenon DEF Truth, RowRank
    <3>4. active # None => Rank[rows[active].cfg] \in Nat
      BY <3>3, RefreshAssumption DEF Row, RefreshAssumption
    <3>5. active # None => rows'[active] \in Row /\ Rank[rows'[active].cfg] >= floor'
      BY <1>1, <3>1, <3>2, <3>3, <3>4
    <3>6. ASSUME Working', got'.active = active, ~got'.taken, got'.old # None
          PROVE  Rank[got'.old.cfg] >= floor'
      <4>1. Rank[got.old.cfg] >= floor /\ got'.old = got.old /\ got.old # None
        BY <1>1, <3>1, <3>6, Zenon DEF Truth, RowRank, SameReport
      <4>2. Rank[got.old.cfg] \in Nat
        BY <4>1, RefreshAssumption DEF RInv, Types, LocalType, Locals, Row, RefreshAssumption
      <4> QED BY <3>1, <3>2, <4>1, <4>2
    <3> QED BY <3>1, <3>5, <3>6, Zenon DEF RowRank
  <2> QED BY <1>3, <2>1, <2>2, Zenon
<1>10. LookInv'
  <2> SUFFICES ASSUME parted' = {} PROVE LookInv'
    BY Zenon DEF LookInv
  <2>1. active' = job.id /\ Matches
    BY <1>3, <1>4, Zenon DEF Succeeds, Raises, If
  <2>2. rows'[active'].cfg = job.cfg
    BY <1>7, <2>1, Zenon
  <2>3. ASSUME NEW cfg, cfg = job.cfg PROVE LooksRight(cfg)'
    <3>1. Owed' => got'.old # None /\ got'.old = got.old
      BY <1>1, Zenon DEF Owed, ReportInv, SameReport
    <3>2. Owed' => got'.taken \/ got.old.cfg = job.cfg
      BY <1>1, <2>1, <3>1, Zenon DEF Owed
    <3> QED BY <2>2, <2>3, <3>1, <3>2, Zenon DEF LooksRight
  <2> QED BY <1>1, <1>2, <1>8, <2>1, <2>2, <2>3, Zenon DEF LookInv
<1> QED BY <1>6, <1>9, <1>10, Zenon DEF Truth

LEMMA WriteBackKeeps ==
    ASSUME RInv, Truth, [Next]_vars, WriteBack, ReportInv', JobInv'
    PROVE  Truth'
<1>1. /\ UNCHANGED <<active, run, live, job, floor>> /\ parted \subseteq parted'
      /\ pc = "writeback" /\ ~Working' /\ ~Owed' /\ Working
  BY Zenon DEF WriteBack, EndRefresh, tunnel, Working, Owed
<1>2. /\ rows \in Table /\ (active # None => active \in Id)
      /\ got.old \in Row \cup {None} /\ got.active \in MaybeId
  BY Zenon DEF RInv, Types, StoreType, LocalType, Locals, MaybeId
<1>3. Settled' = Settled /\ Kept' = Kept
  BY <1>1, Zenon DEF Settled, Kept
<1>4. Lasting
  BY <1>1, <1>3, Zenon DEF Lasting
<1>5. TunnelRank'
  BY <1>4, RankLasts, Zenon DEF Truth
<1>6. ASSUME active # None, rows[active] \in Row
      PROVE  /\ Restored[active] \in Row
             /\ got.active # active => Restored[active] = rows[active]
             /\ (got.active = active /\ got.old # None /\ got.old.mine) => Restored[active] = got.old
             /\ Restored[active] # rows[active]
                  => Restored[active] = got.old /\ got.old # None /\ got.active = active
  BY <1>2, <1>6, Zenon DEF Restored, Updated, Exists, Table, MaybeId
<1>7. rows' = rows \/ rows' = Restored
  BY Zenon DEF WriteBack
<1>8. ASSUME active # None, rows[active] \in Row, Unraced', rows'[active].cfg # rows[active].cfg
      PROVE  /\ got.active = active /\ got.old # None /\ ~got.taken
             /\ rows'[active] = got.old
  <2>1. rows' = Restored /\ Unique(Restored)
    BY <1>7, <1>8, Zenon DEF WriteBack
  <2>2. got.active = active /\ got.old # None /\ rows'[active] = got.old
    BY <1>6, <1>8, <2>1, Zenon
  <2>3. Rewrites
    BY <1>8, <2>1, <2>2, Zenon DEF Rewrites, Exists
  <2>4. "overtaken" \notin parted'
    BY <1>8, Zenon DEF Unraced, Races
  <2>5. rows' # rows
    BY <1>8, Zenon
  <2>6. ~got.taken
    BY <2>2, <2>3, <2>4, <2>5, Zenon DEF WriteBack, If
  <2> QED BY <2>2, <2>6, Zenon
<1>9. RowRank'
  <2> SUFFICES ASSUME Unraced' PROVE RowRank'
    BY Zenon DEF RowRank
  <2>1. Unraced
    BY <1>1, FewerCauses, Zenon
  <2>2. active # None => rows'[active] \in Row /\ Rank[rows'[active].cfg] >= floor
    <3> SUFFICES ASSUME active # None PROVE rows'[active] \in Row /\ Rank[rows'[active].cfg] >= floor
      BY Zenon
    <3>1. rows[active] \in Row /\ Rank[rows[active].cfg] >= floor
      BY <2>1, Zenon DEF Truth, RowRank
    <3>2. rows'[active] \in Row
      BY <1>6, <1>7, <3>1, Zenon
    <3>3. CASE rows'[active].cfg # rows[active].cfg
      BY <1>1, <1>8, <2>1, <3>1, <3>2, <3>3, Zenon DEF Truth, RowRank
    <3> QED BY <3>1, <3>2, <3>3, Zenon
  <2> QED BY <1>1, <2>1, <2>2, Zenon DEF Truth, RowRank
<1>10. LookInv'
  <2> SUFFICES ASSUME parted' = {} PROVE LookInv'
    BY Zenon DEF LookInv
  <2>1. parted = {} /\ Unraced /\ Unraced'
    BY <1>1, FewerCauses, NoCauses, Zenon DEF Unraced
  <2>2. ASSUME NEW t \in Kept, t # None, t.id = active PROVE LooksRight(t.cfg)'
    <3>1. LooksRight(t.cfg)
      BY <2>1, <2>2, Zenon DEF Truth, LookInv
    <3>2. active # None => rows[active] \in Row
      BY <2>1, Zenon DEF Truth, RowRank
    <3>3. CASE rows'[active].cfg = rows[active].cfg
      <4>1. CASE Owed
        <5>1. active # None /\ got.active = active /\ got.old # None /\ got.old.mine
          BY <4>1, Zenon DEF Owed, Truth, ReportInv
        <5>2. Restored[active] = got.old /\ Exists(got.active)
          BY <1>6, <3>2, <5>1, Zenon DEF Exists
        <5>3. got.old.cfg = rows[active].cfg
          BY <2>1, <3>3, <5>1, <5>2, Zenon DEF WriteBack, Rewrites, If
        <5> QED BY <1>1, <3>1, <3>3, <4>1, <5>3, Zenon DEF LooksRight
      <4>2. CASE ~Owed
        BY <1>1, <3>1, <3>3, <4>2, Zenon DEF LooksRight
      <4> QED BY <4>1, <4>2, Zenon
    <3>4. CASE rows'[active].cfg # rows[active].cfg /\ active # None
      <4>1. got.active = active /\ got.old # None /\ ~got.taken /\ rows'[active] = got.old
        BY <1>8, <2>1, <3>2, <3>4, Zenon
      <4>2. ~Owed => Look[got.old.cfg] = Look[rows[active].cfg]
        BY <1>1, <2>1, <4>1, Zenon DEF Truth, LookInv, Owed
      <4> QED BY <1>1, <3>1, <4>1, <4>2, Zenon DEF LooksRight
    <3>5. active # None
      BY <2>2, RefreshAssumption, Zenon DEF Kept, RInv, Types, LocalType, Applies, Tunnel, RefreshAssumption
    <3> QED BY <3>3, <3>4, <3>5, Zenon
  <2> QED BY <1>1, <1>3, <2>1, <2>2, Zenon DEF Truth, LookInv
<1> QED BY <1>5, <1>9, <1>10, Zenon DEF Truth

\* Ids are AUTOINCREMENT: a new row gets an id no row has had.
LEMMA FreshIsNew ==
    ASSUME NEW i \in Ident, \E g \in Gen : rows[<<i, g>>] = None
    PROVE  rows[FreshId(i)] = None
BY Zenon DEF FreshId

\* reconcile() and the active row: never a lower rank, and another look only as reported.
LEMMA MergedActive ==
    ASSUME StoreType, NEW feed \in Feeds, Room(feed), Exists(active)
    PROVE  LET new == Merged(feed, active)[active] IN
           /\ new \in Row /\ Rank[new.cfg] >= Rank[rows[active].cfg]
           /\ ~ActiveChanged(feed, active) => Look[new.cfg] = Look[rows[active].cfg]
<1> DEFINE new == Merged(feed, active)[active]
           offer == [cfg |-> feed[active[1]], mine |-> TRUE, stale |-> FALSE]
           flagged == [rows[active] EXCEPT !.stale = TRUE]
<1>1. active \in Id /\ rows[active] \in Row /\ active[1] \in Ident
  BY Zenon DEF StoreType, Exists, MaybeId, Id
<1>2. Rank[rows[active].cfg] \in Nat
  BY <1>1, RefreshAssumption DEF Row, RefreshAssumption
<1>3. flagged \in Row /\ flagged.cfg = rows[active].cfg
  BY <1>1, Zenon DEF Row
<1>4. active[1] \in DOMAIN feed => offer \in Row /\ offer.cfg = feed[active[1]]
  BY RefreshAssumption, Zenon DEF Row, RefreshAssumption
<1>5. (active \notin Mine /\ active[1] \in DOMAIN feed /\ RowOf(active[1]) = None) => active # FreshId(active[1])
  <2>1. ASSUME active[1] \in DOMAIN feed, RowOf(active[1]) = None
        PROVE  rows[FreshId(active[1])] = None
    BY <1>1, <2>1, FreshIsNew, Zenon DEF Room
  <2> QED BY <1>1, <2>1, RefreshAssumption, Zenon DEF RefreshAssumption
<1>6. \/ new = rows[active]
      \/ /\ new = offer /\ active \in Mine /\ active[1] \in DOMAIN feed
         /\ SecurityKept(rows[active].cfg, feed[active[1]])
      \/ new = flagged
  <2> HIDE DEF offer, flagged
  <2>1. new = CASE active \in Mine /\ active[1] \in DOMAIN feed /\ Weakens(feed, active, active) -> rows[active]
              [] active \in Mine /\ active[1] \in DOMAIN feed /\ ~Weakens(feed, active, active) -> offer
              [] active \in Mine /\ active[1] \notin DOMAIN feed ->
                    IF Withheld(feed, active) \/ active = active THEN flagged ELSE Gone
              [] active \notin Mine -> IF active[1] \in DOMAIN feed /\ RowOf(active[1]) = None /\ active = FreshId(active[1])
                                  THEN offer ELSE rows[active]
    BY <1>1, Zenon DEF Merged, offer, flagged
  <2> HIDE DEF new
  <2>2. CASE active \in Mine /\ active[1] \in DOMAIN feed
    BY <2>1, <2>2, Zenon DEF Weakens
  <2>3. CASE active \in Mine /\ active[1] \notin DOMAIN feed
    BY <2>1, <2>3, Zenon
  <2>4. CASE active \notin Mine
    BY <1>5, <2>1, <2>4, Zenon
  <2> QED BY <2>2, <2>3, <2>4
<1> HIDE DEF new, offer, flagged
<1>7. CASE new = rows[active] \/ new = flagged
  <2>1. new \in Row /\ new.cfg = rows[active].cfg
    BY <1>1, <1>3, <1>7, Zenon
  <2> QED BY <1>2, <2>1 DEF new
<1>8. CASE /\ new = offer /\ active \in Mine /\ active[1] \in DOMAIN feed
           /\ SecurityKept(rows[active].cfg, feed[active[1]])
  BY <1>4, <1>8, Zenon DEF SecurityKept, ActiveChanged, ConfigDiffers, new
<1> QED BY <1>6, <1>7, <1>8, Zenon

LEMMA MergeKeeps ==
    ASSUME RInv, Truth, [Next]_vars, Merge, ReportInv', JobInv'
    PROVE  Truth'
<1>1. /\ UNCHANGED <<active, run, live, job, floor, parted>> /\ pc = "merge" /\ StoreType
      /\ got.feed \in Feeds /\ got \in Locals /\ ~Working /\ ~Owed
  BY Zenon DEF Merge, MergeAs, tunnel, RInv, Types, LocalType, Stage, Working, Owed
<1>2. Settled' = Settled /\ Kept' = Kept
  BY <1>1, Zenon DEF Settled, Kept
<1>3. Lasting
  BY <1>1, <1>2, Zenon DEF Lasting
<1>4. TunnelRank'
  BY <1>3, RankLasts, Zenon DEF Truth
<1>5. CASE EndRefresh /\ UNCHANGED rows
  <2>1. ~Working' /\ ~Owed'
    BY <1>5, Zenon DEF EndRefresh, Working, Owed
  <2>2. RowRank'
    BY <1>1, <1>5, <2>1, Zenon DEF Truth, RowRank, Unraced
  <2>3. \A t \in Kept' : LooksRight(t.cfg) => LooksRight(t.cfg)'
    BY <1>1, <1>5, <2>1, Zenon DEF LooksRight
  <2>4. LookInv'
    BY <1>1, <1>2, <2>1, <2>3, Zenon DEF Truth, LookInv
  <2> QED BY <1>4, <2>2, <2>4, Zenon DEF Truth
<1>6. CASE ~(EndRefresh /\ UNCHANGED rows)
  <2>1. Room(got.feed) /\ rows' = Merged(got.feed, active)
    BY <1>6, Zenon DEF Merge, MergeAs
  <2>2. Exists(active) => /\ rows'[active] \in Row /\ Rank[rows'[active].cfg] >= Rank[rows[active].cfg]
                          /\ ~ActiveChanged(got.feed, active) => Look[rows'[active].cfg] = Look[rows[active].cfg]
    BY <1>1, <2>1, MergedActive, Zenon
  <2>3. (Unraced /\ active # None) => Exists(active) /\ Rank[rows[active].cfg] >= floor
    BY Zenon DEF Truth, RowRank, Exists
  <2>4. Working' =>
          /\ got'.active = active /\ got'.changed = ActiveChanged(got.feed, active)
          /\ got'.old = IF Exists(active) THEN rows[active] ELSE None
    <3>1. Working' => got' = Report(rows')
      BY <1>1, WorkMoves, Zenon
    <3> QED BY <1>1, <3>1, Zenon DEF Report, Locals
  <2>5. Working' \/ ~ActiveChanged(got.feed, active)
    BY <1>6, Zenon DEF Merge, MergeAs, Weakens, ActiveChanged, Working
  <2>6. RowRank'
    <3> SUFFICES ASSUME Unraced' PROVE RowRank'
      BY Zenon DEF RowRank
    <3>1. Unraced
      BY <1>1, Zenon DEF Unraced
    <3>2. Exists(active) => Rank[rows[active].cfg] \in Nat /\ Rank[rows'[active].cfg] \in Nat
      BY <2>2, RefreshAssumption DEF Exists, Row, RefreshAssumption
    <3>3. floor \in Nat
      BY DEF RInv, Types, CountType
    <3>4. active # None => rows'[active] \in Row /\ Rank[rows'[active].cfg] >= floor
      BY <2>2, <2>3, <3>1, <3>2, <3>3
    <3>5. (Working' /\ got'.old # None) => Rank[got'.old.cfg] >= floor
      BY <2>3, <2>4, <3>1, Zenon DEF Exists
    <3> QED BY <1>1, <3>1, <3>4, <3>5, Zenon DEF Truth, RowRank
  <2>7. LookInv'
    <3> SUFFICES ASSUME parted' = {} PROVE LookInv'
      BY Zenon DEF LookInv
    <3>1. parted = {} /\ Unraced
      BY <1>1, NoCauses, Zenon
    <3>2. ASSUME NEW t \in Kept, t # None, t.id = active PROVE LooksRight(t.cfg)'
      <4>1. active # None
        BY <3>2, RefreshAssumption, Zenon DEF Kept, RInv, Types, LocalType, Applies, Tunnel, RefreshAssumption
      <4>2. Exists(active) /\ Look[rows[active].cfg] = Look[t.cfg]
        BY <1>1, <2>3, <3>1, <3>2, <4>1, Zenon DEF Truth, LookInv, LooksRight
      <4>3. Owed' => got'.old = rows[active]
        BY <2>4, <4>2, Zenon DEF Owed
      <4>4. ~Owed' => ~ActiveChanged(got.feed, active)
        BY <1>1, <2>4, <2>5, Zenon DEF Owed
      <4> QED BY <1>1, <2>2, <4>2, <4>3, <4>4, Zenon DEF LooksRight
    <3>3. (Working' /\ ~got'.changed /\ got'.old # None) => Look[got'.old.cfg] = Look[rows'[active].cfg]
      BY <2>2, <2>4, Zenon
    <3> QED BY <1>1, <1>2, <3>1, <3>2, <3>3, Zenon DEF Truth, LookInv
  <2> QED BY <1>4, <2>6, <2>7, Zenon DEF Truth
<1> QED BY <1>5, <1>6, Zenon

LEMMA TruthStep ==
    ASSUME RInv, RInv', Truth, [Next]_vars
    PROVE  Truth'
<1>1. LocalType' /\ ReportInv' /\ JobInv'
  BY ReportStep, JobStep, Zenon DEF RInv, Types, Truth
<1>2. Calm => Truth'
  BY <1>1, CalmKeeps, Zenon
<1>3. CASE Apply
  BY <1>1, <1>2, <1>3, LoadCalm, UndoCalm, CommitKeeps, RetireCalm, BeginApplyCalm, Zenon DEF Apply
<1>4. CASE RefreshStep
  BY <1>1, <1>2, <1>4, RequestCalm, MergeKeeps, WriteBackKeeps, RestartCalm, Zenon DEF RefreshStep
<1>5. CASE Request
  BY <1>1, <1>2, <1>5, StartCalm, DisconnectKeeps, DeleteSubCalm, DetachCalm, RequestCalm, Zenon
     DEF Request
<1> QED BY <1>2, <1>3, <1>4, <1>5, WriteEditCalm, CrashCalm, RequestCalm, Zenon DEF Next

LEMMA TruthInit == Init => Truth
<1> SUFFICES ASSUME Init PROVE Truth
  OBVIOUS
<1>1. /\ job = None /\ pc = "off" /\ live = run
      /\ run = IF active = None THEN None ELSE [id |-> active, cfg |-> rows[active].cfg]
      /\ floor = (IF active = None THEN 0 ELSE Rank[rows[active].cfg])
  BY Zenon DEF Init
<1>2. Settled /\ Kept = {run} /\ ~Working /\ ~Owed
  BY <1>1 DEF Settled, Kept, Working, Owed
<1>3. active # None => rows[active] \in Row
  <2>1. CutInv /\ cut = {}
    BY CutInit, Zenon DEF Init
  <2> QED BY <2>1, Zenon DEF CutInv, Here, Exists
<1>4. active # None => Rank[rows[active].cfg] \in Nat
  BY <1>3, RefreshAssumption DEF Row, RefreshAssumption
<1>5. run # None => active # None /\ run.id = active /\ run.cfg = rows[active].cfg
  BY <1>1
<1>6. RowRank /\ TunnelRank
  BY <1>1, <1>2, <1>3, <1>4, <1>5 DEF RowRank, TunnelRank
<1>7. LookInv
  BY <1>2, <1>5, Zenon DEF LookInv, LooksRight
<1> QED BY <1>2, <1>6, <1>7, Zenon DEF Truth, ReportInv, JobInv

LEMMA TruthHolds == Spec => []Truth
BY TruthInit, TruthStep, RInvHolds, PTL DEF Spec

\* service.py, reconcile.py, controller.py: for any configs and ranks, whatever runs beside a
\* refresh and whichever store write fails, the tunnel is never left on a config weaker than one
\* it ran since the operator last chose, unless the active row was changed behind it (by an
\* edit, or by a write-back that an apply had overtaken) or a failed apply left another config.
THEOREM TunnelIsNotWeakened == Spec => []LadderHoldsUnlessRaced
<1>1. Truth => LadderHoldsUnlessRaced
  BY Zenon DEF Truth, TunnelRank, Unstrayed, Settled, LadderHoldsUnlessRaced, LadderHolds
<1> QED BY <1>1, TruthHolds, PTL

\* service.py, _restart_active and its write-back: once a refresh is over, with no apply in
\* progress, the stored active row and the tunnel agree in what _config_differs compares, unless
\* one of the named causes has parted them since an apply last succeeded: an edit, an overtaken
\* write-back, a store write that failed, or a failed apply that left another config.
THEOREM StoredRowIsRunning == Spec => []StoredIsRunning
<1>1. Truth => StoredIsRunning
  <2> SUFFICES ASSUME Truth, Quiet
               PROVE  run.id = active /\ Exists(active) /\ Look[rows[active].cfg] = Look[run.cfg]
    BY Zenon DEF StoredIsRunning
  <2>1. parted = {} /\ job = None /\ ~Owed /\ run # None /\ active # None
    BY Zenon DEF Quiet, Owed, Working
  <2>2. Settled /\ run \in Kept
    BY <2>1, Zenon DEF Settled, Kept
  <2>3. run.id = active /\ LooksRight(run.cfg)
    BY <2>1, <2>2, Zenon DEF Truth, LookInv
  <2>4. Exists(active)
    BY <2>1, NoCauses, Zenon DEF Truth, RowRank, Exists
  <2> QED BY <2>1, <2>3, <2>4, Zenon DEF LooksRight
<1> QED BY <1>1, TruthHolds, PTL
====
