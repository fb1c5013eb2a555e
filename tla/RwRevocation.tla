---- MODULE RwRevocation ----
(***************************************************************************)
(* Remote access and its revocation: the road-warrior routes of            *)
(* api/routes.py, the pending-revocation marker of controller.py, the      *)
(* supervisor's start guard and the retry of health/liveness.py.           *)
(*                                                                         *)
(* The store grants access to a set of devices; the config on disk, the    *)
(* rollback target and the running child each carry the set they were      *)
(* built with.  A revocation commits the store half first and only then    *)
(* works on the runtime, so the three may lag behind.                      *)
(*                                                                         *)
(* Everything here holds apply_lock; `op` is the operation in progress and *)
(* `pc` its next step.  apply_node is module Gateway's, reduced to the     *)
(* config it writes and the child it loads.                                *)
(***************************************************************************)
EXTENDS Naturals

CONSTANTS
    Device,     \* the credentials that can be granted
    None,       \* no rollback target
    Bad,        \* a config file that is missing or is not an xray config
    Faults      \* which failures the run allows, a subset of FaultKinds

FaultKinds == {"write", "xray", "net", "store", "query", "stuck", "dies", "crash", "garble"}

ASSUME RwAssumption ==
    /\ \A g \in SUBSET Device : g # None /\ g # Bad
    /\ Faults \subseteq FaultKinds

VARIABLES
    granted, marker,           \* the store: devices granted, rw_reconcile_pending
    keptGranted, keptMarker,   \* the same as committed, while a transaction is open
    file, undo,                \* the grants of the live config and of its rollback target
    up, served, want, stuck,   \* the child: alive, its grants, _want_running, ignores SIGKILL
    active, prev,              \* active_node_id and prev_active_node_id: unset, a row, a lost row
    op, pc,                    \* the operation and its next step
    running, how,              \* _rw_revoke_apply: the sampled supervisor state, the outcome
    refused                    \* history: devices whose grant a failed apply took back

rows == <<granted, marker>>
kept == <<keptGranted, keptMarker>>
config == <<file, undo>>
child == <<up, served, want, stuck>>
selection == <<active, prev>>
locals == <<running, how>>
vars == <<rows, kept, config, child, selection, op, pc, locals, refused>>

Grants == SUBSET Device
Selection == {"none", "node", "gone"}
Ops == {"none", "connect", "start", "widen", "revoke", "reconcile", "boot", "rollback"}
ApplySteps == {"write", "reload", "net", "undo", "restore", "stop", "failed", "done"}
Steps == ApplySteps \cup
         {"idle", "sample", "resample", "push", "pushReload", "cleanReload", "failStop", "sweep", "settle",
          "drop", "boot", "bootApply", "bare", "backReload", "backStop", "backAbort", "backDone"}

\* _RW_RECONCILED: the outcomes that prove the runtime caught up.
Reconciled == {"reapplied", "rebuilt", "cleaned", "not-live", "stopped"}

StoreOK ==
    /\ granted \in Grants /\ keptGranted \in Grants /\ refused \in Grants
    /\ marker \in BOOLEAN /\ keptMarker \in BOOLEAN
    /\ active \in Selection /\ prev \in Selection
    /\ op # "widen" => granted = keptGranted /\ marker = keptMarker

FilesOK == file \in Grants \cup {Bad} /\ undo \in Grants \cup {None}

ChildOK ==
    /\ up \in BOOLEAN /\ want \in BOOLEAN /\ stuck \in BOOLEAN
    /\ served \in Grants
    /\ up = FALSE => served = {} /\ stuck = FALSE

ControlOK ==
    /\ op \in Ops /\ pc \in Steps
    /\ op = "none" <=> pc = "idle"
    /\ op = "widen" => pc \in ApplySteps
    /\ running \in {"yes", "no", "unknown"}
    /\ how \in Reconciled \cup {"none", "stop-failed"}

\* The types of the state; outside a widening's transaction the store is the committed one,
\* and a child that is down serves nothing.
TypeOK == StoreOK /\ FilesOK /\ ChildOK /\ ControlOK

Init ==
    /\ granted = {} /\ keptGranted = {} /\ marker = FALSE /\ keptMarker = FALSE
    /\ file = Bad /\ undo = None
    /\ up = FALSE /\ served = {} /\ want = FALSE /\ stuck = FALSE
    /\ active = "none" /\ prev = "none"
    /\ op = "none" /\ pc = "idle"
    /\ running = "no" /\ how = "none" /\ refused = {}

Free == pc = "idle"
OnlyIf(kind) == kind \in Faults
OrIf(kind, v) == IF OnlyIf(kind) THEN {v} ELSE {}

Begin(o, l) == op' = o /\ pc' = l
Goto(l) == pc' = l /\ UNCHANGED op
End == op' = "none" /\ pc' = "idle"
----------------------------------------------------------------------------
(* The config on disk.                                                     *)

\* _rw_excess: a file that cannot be read as a config grants nothing.
Clean(c) == c # Bad => c \subseteq granted

\* _rw_rebuild_node: the active node, else the previous one, if its row is there.
Rebuildable == active = "node" \/ prev = "node"

\* Mutant of Rewritten: a write that changes nothing still drops the rollback pairing.
RewrittenOverItself == (file # Bad \/ Rebuildable) /\ file' = granted /\ undo' = None

\* _rw_write_config: the store's grants go into the file, and nothing may undo it.
Rewritten ==
    /\ file # Bad \/ Rebuildable
    /\ file' = granted
    /\ undo' = IF file = granted THEN undo ELSE None

\* The write failed, or there was nothing to build from; the seal may have gone first.
Unwritten ==
    /\ file # granted
    /\ OnlyIf("write") \/ (file = Bad /\ ~Rebuildable)
    /\ UNCHANGED file
    /\ undo' \in {undo} \cup OrIf("write", None)

----------------------------------------------------------------------------
(* The supervisor.                                                         *)

Down == up' = FALSE /\ served' = {} /\ stuck' = FALSE
Alive == up' = TRUE /\ served' = file'
SameChild == UNCHANGED <<up, served, stuck>>

\* Mutant of GuardPasses: the supervisor starts on the file as found.
GuardAbsent == UNCHANGED config

\* rw_start_guard, consulted before every spawn.
GuardPasses == (Clean(file) /\ UNCHANGED config) \/ (~Clean(file) /\ Rewritten)
GuardRefuses == ~Clean(file) /\ Unwritten

Spawned == GuardPasses /\ file' # Bad /\ Alive /\ stuck' = FALSE

\* Died at boot, or never became ready and was stopped, which may fail too.
DiedAtBoot ==
    /\ GuardPasses
    /\ \/ (file' = Bad \/ OnlyIf("xray")) /\ Down
       \/ file' # Bad /\ OnlyIf("xray") /\ OnlyIf("stuck") /\ Alive /\ stuck' = TRUE

NotSpawned == DiedAtBoot \/ (GuardRefuses /\ Down)

ReloadOk == ~stuck /\ Spawned /\ want' = TRUE
ReloadFails ==
    \/ stuck /\ SameChild /\ want' = FALSE /\ UNCHANGED config
    \/ ~stuck /\ NotSpawned /\ want' = TRUE

StopOk == ~stuck /\ Down /\ want' = FALSE
StopFails == stuck /\ SameChild /\ want' = FALSE

----------------------------------------------------------------------------
(* apply_node, in the callers' hands: connect, xray_start, the boot, a     *)
(* widening's _rw_apply and, irreversibly, _rw_revoke_apply.               *)

Irreversible == op = "revoke"

\* ConfigManager.apply files the config it replaces; apply_irreversible files nothing.
ApplyWrite ==
    /\ pc = "write"
    /\ \/ /\ file' = granted
          /\ undo' = IF Irreversible \/ file = Bad THEN None ELSE file
          /\ Goto("reload")
       \/ /\ OnlyIf("write")
          /\ UNCHANGED file /\ undo' \in {undo, None}
          /\ Goto("failed")
    /\ UNCHANGED <<rows, kept, child, selection, locals, refused>>

ApplyReload ==
    /\ pc = "reload"
    /\ (ReloadOk /\ Goto("net")) \/ (ReloadFails /\ Goto("undo"))
    /\ UNCHANGED <<rows, kept, selection, locals, refused>>

ApplyNet ==
    /\ pc = "net"
    /\ Goto("done") \/ (OnlyIf("net") /\ Goto("undo"))
    /\ UNCHANGED <<rows, kept, config, child, selection, locals, refused>>

\* The previous config comes back unless there is none or it must not.
ApplyUndo ==
    /\ pc = "undo"
    /\ IF Irreversible \/ undo = None
       THEN Goto("stop") /\ UNCHANGED file
       ELSE \/ file' = undo /\ Goto(IF active = "node" THEN "restore" ELSE "stop")
            \/ OnlyIf("write") /\ UNCHANGED file /\ Goto("stop")
    /\ UNCHANGED <<rows, kept, undo, child, selection, locals, refused>>

ApplyRestore ==
    /\ pc = "restore"
    /\ \/ ReloadOk /\ (Goto("failed") \/ (OnlyIf("net") /\ Goto("stop")))
       \/ ReloadFails /\ Goto("stop")
    /\ UNCHANGED <<rows, kept, selection, locals, refused>>

ApplyStop ==
    /\ pc = "stop"
    /\ StopOk \/ StopFails
    /\ Goto("failed")
    /\ UNCHANGED <<rows, kept, config, selection, locals, refused>>

\* rw_clear_reconcile_pending: cleared only if it reads back cleared.
Cleared == marker' \in {FALSE} \cup OrIf("store", marker)

\* Success: the selection, and _rw_complete_pending on what was just loaded.
ApplyDone ==
    /\ pc = "done"
    /\ active' = "node"
    /\ prev' \in IF op # "connect" THEN {prev} ELSE IF active = "none" THEN {"none"} ELSE {prev, active}
    /\ Cleared /\ UNCHANGED granted
    /\ keptGranted' = granted /\ keptMarker' = marker'
    /\ IF op = "revoke" THEN how' = "reapplied" /\ Goto("sweep") ELSE UNCHANGED how /\ End
    /\ refused' = {}
    /\ UNCHANGED <<config, child, running>>

\* Mutant of ApplyFailed: the failed widening is committed all the same.
ApplyFailedCommits ==
    /\ pc = "failed"
    /\ IF op = "revoke" THEN Goto("resample") ELSE End
    /\ UNCHANGED <<rows, kept, config, child, selection, locals, refused>>

\* A failed widening takes its transaction down; a failed rebuild goes on to the file.
ApplyFailed ==
    /\ pc = "failed"
    /\ granted' = keptGranted /\ marker' = keptMarker
    /\ refused' = refused \cup (granted \ keptGranted)
    /\ IF op = "revoke" THEN Goto("resample") ELSE End
    /\ UNCHANGED <<kept, config, child, selection, locals>>

----------------------------------------------------------------------------
(* The routes.                                                             *)

Connect ==
    /\ Free /\ Begin("connect", "write")
    /\ UNCHANGED <<rows, kept, config, child, selection, locals, refused>>

Disconnect ==
    /\ Free /\ active # "none"
    /\ prev' = active /\ active' = "none"
    /\ UNCHANGED <<rows, kept, config, child, op, pc, locals, refused>>

DeleteNode ==
    /\ Free /\ prev = "node" /\ prev' = "gone"
    /\ UNCHANGED <<rows, kept, config, child, active, op, pc, locals, refused>>

\* reapply_active_node: without a row it tidies the selection and rebuilds nothing.
Tidied == active' = (IF active = "gone" THEN "none" ELSE active) /\ UNCHANGED prev

\* add_rw_client, a resume, a put_rw that only grants: inside one transaction.
Widen(d) ==
    /\ Free /\ granted' = granted \cup {d}
    /\ Tidied
    /\ IF active = "node"
       THEN Begin("widen", "write") /\ UNCHANGED keptGranted
       ELSE keptGranted' = granted' /\ UNCHANGED <<op, pc>>
    /\ UNCHANGED <<marker, keptMarker, config, child, locals, refused>>

\* delete_rw_client, a suspension, a put_rw that narrows: committed with the marker.
Narrow(d) ==
    /\ Free
    /\ granted' = granted \ {d} /\ marker' = TRUE
    /\ keptGranted' = granted' /\ keptMarker' = TRUE
    /\ refused' = refused \ {d}
    /\ Begin("revoke", "sample")
    /\ UNCHANGED <<config, child, selection, locals>>

XrayStart ==
    /\ Free /\ Tidied
    /\ Begin("start", IF active = "node" THEN "write" ELSE "bare")
    /\ UNCHANGED <<rows, kept, config, child, locals, refused>>

\* The branch of xray_start with no node: _rw_guard_start, then supervisor.start().
BareStart ==
    /\ pc = "bare" /\ End
    /\ \/ GuardRefuses /\ UNCHANGED child
       \/ up /\ GuardPasses /\ SameChild /\ want' = TRUE
       \/ ~up /\ (Spawned \/ DiedAtBoot) /\ want' = TRUE
    /\ UNCHANGED <<rows, kept, selection, locals, refused>>

XrayStop ==
    /\ Free /\ (StopOk \/ StopFails)
    /\ UNCHANGED <<rows, kept, config, selection, op, pc, locals, refused>>

\* _rw_guard_promotion: the target goes live as it is, rewritten to the store, or not at all.
Rollback ==
    /\ Free /\ undo # None
    /\ \/ /\ Clean(undo) /\ file' = undo /\ UNCHANGED undo
          /\ Begin("rollback", IF prev = "none" THEN "backStop" ELSE "backReload")
       \/ /\ ~Clean(undo) /\ file' = granted /\ undo' = None
          /\ Begin("rollback", IF prev = "none" THEN "backStop" ELSE "backReload")
       \/ /\ ~Clean(undo) /\ OnlyIf("write")
          /\ UNCHANGED <<file, op, pc>> /\ undo' \in {undo, None}
    /\ UNCHANGED <<rows, kept, child, selection, locals, refused>>

RollbackReload ==
    /\ pc = "backReload"
    /\ \/ ReloadOk /\ (Goto("backDone") \/ (OnlyIf("net") /\ Goto("backAbort")))
       \/ ReloadFails /\ Goto("backAbort")
    /\ UNCHANGED <<rows, kept, selection, locals, refused>>

RollbackStop ==
    /\ pc = "backStop"
    /\ \/ StopOk /\ (Goto("backDone") \/ (OnlyIf("net") /\ End))
       \/ StopFails /\ End
    /\ UNCHANGED <<rows, kept, config, selection, locals, refused>>

RollbackAbort ==
    /\ pc = "backAbort" /\ (StopOk \/ StopFails) /\ End
    /\ UNCHANGED <<rows, kept, config, selection, locals, refused>>

RollbackDone ==
    /\ pc = "backDone" /\ End
    /\ active' = prev /\ UNCHANGED prev
    /\ UNCHANGED <<rows, kept, config, child, locals, refused>>

----------------------------------------------------------------------------
(* The runtime half of a revocation.                                       *)

\* _rw_supervisor_running: yes, no, or a supervisor that could not be asked.
Sampled == running' \in {IF up THEN "yes" ELSE "no"} \cup OrIf("query", "unknown")

Outcome(h) == how' = h /\ Goto(IF op = "revoke" THEN "sweep" ELSE "drop")

\* Mutant of Sample: the rebuild does not ask whether xray is running.
SampleIgnored ==
    /\ pc = "sample" /\ Sampled /\ Tidied
    /\ Goto(IF active = "node" THEN "write" ELSE "push")
    /\ UNCHANGED <<rows, kept, config, child, how, refused>>

\* _rw_revoke_apply: only a child seen running is rebuilt through the active node.
Sample ==
    /\ pc = "sample" /\ Sampled
    /\ IF running' = "yes"
       THEN Tidied /\ Goto(IF active = "node" THEN "write" ELSE "push")
       ELSE UNCHANGED selection /\ Goto("push")
    /\ UNCHANGED <<rows, kept, config, child, how, refused>>

\* After a failed rebuild, and at the start of a reconciliation.
Resample ==
    /\ pc = "resample" /\ Sampled
    /\ \/ Goto("push") /\ UNCHANGED how
       \/ op = "revoke" /\ OnlyIf("store") /\ Outcome("none")   \* the incident event raised
    /\ UNCHANGED <<rows, kept, config, child, selection, refused>>

\* Mutant of Push: the answer of _rw_write_config is dropped.
PushUnchecked ==
    /\ pc = "push" /\ (Rewritten \/ Unwritten)
    /\ IF running = "unknown" THEN Goto("failStop") /\ UNCHANGED how ELSE Outcome("cleaned")
    /\ UNCHANGED <<rows, kept, child, selection, running, refused>>

\* _rw_push_to_runtime, up to the reload.  A file with no rw-in is the empty grant.
Push ==
    /\ pc = "push"
    /\ \/ /\ file = {} /\ UNCHANGED config
          /\ \/ running = "no" /\ Outcome("not-live")
             \/ running = "yes" /\ Goto("pushReload") /\ UNCHANGED how
             \/ running = "unknown" /\ Goto("failStop") /\ UNCHANGED how
       \/ /\ file # {} /\ Rewritten
          /\ \/ running = "no" /\ Outcome("cleaned")
             \/ running = "yes" /\ Goto("cleanReload") /\ UNCHANGED how
             \/ running = "unknown" /\ Goto("failStop") /\ UNCHANGED how
       \/ file # {} /\ Unwritten /\ Goto("failStop") /\ UNCHANGED how
    /\ UNCHANGED <<rows, kept, child, selection, running, refused>>

\* reload_if_running: the child is looked at again under the supervisor's lock.
PushReload ==
    /\ pc \in {"pushReload", "cleanReload"}
    /\ \/ ~up /\ Outcome(IF pc = "pushReload" THEN "not-live" ELSE "cleaned") /\ UNCHANGED <<child, config>>
       \/ up /\ ReloadOk /\ Outcome("rebuilt")
       \/ up /\ ReloadFails /\ Goto("failStop") /\ UNCHANGED how
    /\ UNCHANGED <<rows, kept, selection, running, refused>>

\* _rw_fail_safe_stop.
FailSafeStop ==
    /\ pc = "failStop"
    /\ \/ StopOk /\ Outcome("stopped")
       \/ StopFails /\ Outcome("stop-failed")
       \/ (StopOk \/ StopFails) /\ op = "revoke" /\ OnlyIf("store") /\ Outcome("none")
    /\ UNCHANGED <<rows, kept, config, selection, running, refused>>

\* Where a reconciliation returns to.
Back == IF op = "boot" THEN Goto("bootApply") ELSE End
\* Mutant of Settling: the marker is cleared whatever the outcome.
SettlingAnyway == Goto("settle")

Settling == IF how \in Reconciled THEN Goto("settle") ELSE Back

\* The `finally` of _rw_revoke: the rollback target goes, whatever the outcome.
Sweep ==
    /\ pc = "sweep" /\ Settling
    /\ undo' \in {None} \cup OrIf("write", undo)
    /\ UNCHANGED <<rows, kept, file, child, selection, locals, refused>>

\* _rw_drop_unsafe_rollback: a retry drops only a target that grants too much.
DropUnsafe ==
    /\ pc = "drop" /\ Settling
    /\ IF undo # None /\ Clean(undo)
       THEN UNCHANGED undo
       ELSE undo' \in {None} \cup OrIf("write", undo)
    /\ UNCHANGED <<rows, kept, file, child, selection, locals, refused>>

Settle ==
    /\ pc = "settle" /\ Back
    /\ Cleared /\ keptMarker' = marker'
    /\ UNCHANGED <<granted, keptGranted, config, child, selection, locals, refused>>

----------------------------------------------------------------------------
(* The panel's own lifecycle, and what happens to it.                      *)

\* Mutant of Reconcile: the tick looks only at an xray in state "error".
ReconcileOnError ==
    /\ Free /\ marker /\ want /\ ~up /\ Begin("reconcile", "resample")
    /\ UNCHANGED <<rows, kept, config, child, selection, locals, refused>>

\* rw_reconcile_pending from a liveness tick.
Reconcile ==
    /\ Free /\ marker /\ Begin("reconcile", "resample")
    /\ UNCHANGED <<rows, kept, config, child, selection, locals, refused>>

\* Startup: finish what is marked, then bring the active node back.
Boot ==
    /\ pc = "boot" /\ Goto(IF marker THEN "resample" ELSE "bootApply")
    /\ UNCHANGED <<rows, kept, config, child, selection, locals, refused>>

BootApply ==
    /\ pc = "bootApply" /\ Tidied
    /\ IF active = "node" THEN Goto("write") ELSE End
    /\ UNCHANGED <<rows, kept, config, child, locals, refused>>

\* A wanted child that died is started again on the file as found.
Watchdog ==
    /\ Free /\ want /\ ~up
    /\ Spawned \/ NotSpawned
    /\ UNCHANGED <<rows, kept, want, selection, op, pc, locals, refused>>

Dies ==
    /\ OnlyIf("dies") /\ up /\ Down
    /\ UNCHANGED <<rows, kept, config, want, selection, op, pc, locals, refused>>

\* The child enters, or leaves, a state SIGKILL cannot reap.
Wedge ==
    /\ OnlyIf("stuck") /\ up /\ stuck' = ~stuck
    /\ UNCHANGED <<rows, kept, config, up, served, want, selection, op, pc, locals, refused>>

\* The panel dies: an open transaction is lost, and the child goes with its panel.
Crash ==
    /\ OnlyIf("crash")
    /\ granted' = keptGranted /\ marker' = keptMarker
    /\ Down /\ want' = FALSE
    /\ Begin("boot", "boot")
    /\ UNCHANGED <<kept, config, selection, locals, refused>>

Garble ==
    /\ OnlyIf("garble") /\ Free /\ file' = Bad /\ undo' = None
    /\ UNCHANGED <<rows, kept, child, selection, op, pc, locals, refused>>

\* The steps of an operation that holds the lock.
Work ==
    \/ ApplyWrite \/ ApplyReload \/ ApplyNet \/ ApplyUndo \/ ApplyRestore \/ ApplyStop
    \/ ApplyDone \/ ApplyFailed \/ BareStart
    \/ RollbackReload \/ RollbackStop \/ RollbackAbort \/ RollbackDone
    \/ Sample \/ Resample \/ Push \/ PushReload \/ FailSafeStop \/ Sweep \/ DropUnsafe \/ Settle
    \/ Boot \/ BootApply

Next ==
    \/ Connect \/ Disconnect \/ DeleteNode \/ XrayStart \/ XrayStop \/ Rollback
    \/ \E d \in Device : Widen(d) \/ Narrow(d)
    \/ Work \/ Reconcile \/ Watchdog
    \/ Dies \/ Wedge \/ Crash \/ Garble

Spec == Init /\ [][Next]_vars

\* An operation goes on, and the liveness thread gets the lock in the end.
FairSpec == Spec /\ WF_vars(Work) /\ SF_vars(Reconcile)

----------------------------------------------------------------------------
(* Properties.                                                             *)

Excess == served \ granted

\* The durable half of a revocation (_rw_mark_reconcile_pending): whenever no operation is
\* in progress, a supervised process that serves a device the store does not grant is on
\* record as a revocation still to be finished.  The one exception is a device whose grant
\* a failed apply took back.
ExcessIsMarked == Free /\ ~marker => Excess \subseteq refused

\* The same without the exception, as _rw_live_excess argues it ("every other way the config
\* is served rebuilds it from the store first, so it agrees with the store").
UnmarkedMeansGranted == Free /\ ~marker => Excess = {}

\* A revocation or its retry never starts an xray that is down, whether it was stopped on purpose
\* or died after it was seen running (reload_if_running).  The exception is a child that is still
\* wanted and dies between that look and the reload of the rebuild, which starts it.
StoppedStaysStopped ==
    [][~up /\ op \in {"revoke", "reconcile"} /\ (want => pc # "reload") => up' = FALSE]_vars

\* A retry never costs the operator an undo that grants nothing too much: the pairing an
\* ordinary apply published after the marker survives (_rw_drop_unsafe_rollback).
RetryKeepsSafeUndo ==
    [][op = "reconcile" /\ file = granted /\ undo # None /\ Clean(undo) => undo' = undo]_vars

\* Every revocation is finished: if the child does not stay beyond SIGKILL forever, the
\* marker is cleared after every revocation (the retry of _reconcile_tick).
RevocationCompletes == <>[](~stuck) => [](marker => <>(~marker))

\* The answer a revocation gives (_RW_RECONCILED): an outcome that means "done" is given
\* only when no supervised process serves a device the store does not grant.
AnswerIsProof == pc \in {"sweep", "drop", "settle"} /\ how \in Reconciled => served \subseteq granted

\* Whatever is started, reloaded, restored or rolled back, a process never loads a config
\* that grants a device the store does not (the supervisor's start guard, the promotion
\* guard and the rebuilds together).
LoadsOnlyGranted == [][up' /\ (~up \/ served' # served) => served' \subseteq granted']_vars

====
