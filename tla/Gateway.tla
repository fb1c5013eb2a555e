---- MODULE Gateway ----
(***************************************************************************)
(* The gateway's control loop: controller.py (apply, stop, sync, boot),    *)
(* the connect / disconnect / xray / rollback / kill-switch routes of      *)
(* api/routes.py, the boot sequence of app.py, XraySupervisor, the         *)
(* watchdog of health/liveness.py and the nftables backend of              *)
(* net_control/linux.py, as one machine.                                   *)
(*                                                                         *)
(* Every operation holds apply_lock, so one is in progress at a time; `pc` *)
(* is its next step and a step is one call that changes the store, the     *)
(* config on disk, the xray child or the host.  The flow tables say where  *)
(* each operation goes after a call that succeeds and after one that does  *)
(* not.  Between any two steps the child may die, an unlocked request may  *)
(* run, and the panel or the host may go down.                             *)
(*                                                                         *)
(* A config is named by the node it was built for.  `live` and `undo` are  *)
(* what ConfigManager promises (see module ConfigManager): the config on   *)
(* disk, and the rollback target valid for it.                             *)
(***************************************************************************)
EXTENDS Naturals

CONSTANTS
    Node,       \* node ids
    None,       \* no node, no config
    Faults      \* which failures and races the run allows, a subset of FaultKinds

\* "store" is a call of the settings store that raises; "undo" a write of the config files
\* that does.
FaultKinds == {"net", "release", "deny", "xray", "undo", "store", "stuck",
               "crash", "reboot", "delete", "toggle"}

ASSUME GatewayAssumption ==
    /\ None \notin Node
    /\ Faults \subseteq FaultKinds

VARIABLES
    nodes,                    \* the rows of the nodes table
    active, prev, pending,    \* active_node_id, prev_active_node_id, pending_active_node_id
    live, undo,               \* the config on disk and its rollback target
    up, loaded, want,         \* the xray child: alive, the config it read, _want_running
    rules, deny, fwd,         \* the host: panel ruleset, emergency table, ip_forward
    ks, ksKept,               \* kill_switch_enabled: as the open transaction sees it, committed
    note, report,             \* in memory: the emergency note, the enforcement snapshot
    phase, pc,                \* the panel process, and the next step of the operation
    target, restorable,       \* apply_node: the node, and previous_node is not None
    asked, doomed,            \* requests that read the store and do not hold the lock
    stray, crossed            \* history: see TunnelIsTheSelectedOne, SwitchSurvivesCrash

store == <<nodes, active, prev, pending>>
disk == <<live, undo>>
child == <<up, loaded, want>>
host == <<rules, deny, fwd>>
switch == <<ks, ksKept>>
memory == <<note, report>>
locals == <<target, restorable>>
requests == <<asked, doomed>>
history == <<stray, crossed>>
vars == <<store, disk, child, host, switch, memory, phase, pc, locals, requests, history>>

MaybeNode == Node \cup {None}

\* The panel's nft tables: segment traffic is sent into xray or not, and forwarded
\* segment traffic is dropped or not (rendered from the kill switch).
Ruleset == {"tproxyDrop", "tproxy", "guard", "none"}
Tproxy(k) == IF k THEN "tproxyDrop" ELSE "tproxy"
Down(k) == IF k THEN "guard" ELSE "none"
Proxying == rules \in {"tproxyDrop", "tproxy"}
Dropping == rules \in {"tproxyDrop", "guard"}

-----------------------------------------------------------------------------
(* Where each operation goes: <<after success, after failure>>.            *)

\* Mutant: a restore that does not come up is tried again.
ReloadFlowRetries == [reload |-> <<"net", "undo">>,
                      restore |-> <<"restoreNet", "undo">>,
                      backReload |-> <<"backNet", "backStop">>]

\* supervisor.reload()
ReloadFlow == [reload |-> <<"net", "undo">>,          \* apply_node: the new config
               restore |-> <<"restoreNet", "stop">>,  \* apply_node: the previous one again
               backReload |-> <<"backNet", "backStop">>]    \* POST /rollback

\* apply_net
ApplyFlow == [net |-> <<"commit", "undo">>,
              restoreNet |-> <<"clear", "stop">>,
              backNet |-> <<"backCommit", "backStop">>]

\* supervisor.stop(); failure is a child that survived SIGKILL
StopFlow == [stop |-> <<"guard", "guard">>,           \* apply_node, nothing restored
             userStop |-> <<"userGuard", "userGuard">>,     \* POST /xray/stop
             backStop |-> <<"backGuard", "backGuard">>,     \* POST /rollback failed
             leaveStop |-> <<"leaveGuard", "keptGuard">>,   \* POST /rollback, no previous node
             netStop |-> <<"idle", "idle">>]          \* PUT /network, nothing else held

\* stop_net
GuardFlow == [guard |-> <<"clear", "clear">>,
              disconnect |-> <<"disconnected", "idle">>,
              userGuard |-> <<"idle", "idle">>,
              backGuard |-> <<"idle", "idle">>,
              leaveGuard |-> <<"backCommit", "backGuard">>,
              keptGuard |-> <<"idle", "backGuard">>,
              staleGuard |-> <<"start", "idle">>,     \* reapply of a vanished node, POST /xray/start
              bootStale |-> <<"idle", "idle">>,       \* the same at boot
              bootGuard |-> <<"bootProvision", "bootDeny">>,
              netGuard |-> <<"idle", "netStop">>]

\* sync_net
SyncFlow == [netSync |-> <<"netCommit", "netRevert">>,
             netResync |-> <<"idle", "netGuard">>,
             netHand |-> <<"netSync", "netRevert">>,  \* _hand_back_from_emergency_deny
             netHandLost |-> <<"netRevert", "netRevert">>,
             netHandAgain |-> <<"netResync", "netResync">>,
             bootHand |-> <<"bootReapply", "bootReapply">>]

\* host_provision, and what follows it when an emergency note is set
ProvisionFlow == [bootProvision |-> {"bootReapply"},
                  netProvision |-> {"netSync", "netRevert"},
                  netRestore |-> {"netResync"}]

HandBackFlow == [bootProvision |-> {"bootHand"},
                 netProvision |-> {"netHand", "netHandLost"},
                 netRestore |-> {"netHandAgain"}]

Steps == DOMAIN ReloadFlow \cup DOMAIN ApplyFlow \cup DOMAIN StopFlow \cup DOMAIN GuardFlow
         \cup DOMAIN SyncFlow \cup DOMAIN ProvisionFlow
         \cup {"idle", "write", "pend", "undo", "clear", "commit", "disconnected", "backCommit",
               "userReapply", "bootReapply", "start", "bootDeny", "netRevert", "netCommit"}

\* The steps of apply_node.
ApplySteps == {"write", "pend", "reload", "net", "undo", "restore", "restoreNet",
               "stop", "guard", "clear", "commit"}

TypeOK ==
    /\ nodes \subseteq Node
    /\ active \in MaybeNode /\ prev \in MaybeNode /\ pending \in MaybeNode
    /\ live \in MaybeNode /\ undo \in MaybeNode /\ loaded \in MaybeNode
    /\ target \in MaybeNode /\ asked \in MaybeNode /\ doomed \in MaybeNode /\ crossed \in MaybeNode
    /\ up \in BOOLEAN /\ want \in BOOLEAN /\ deny \in BOOLEAN /\ fwd \in BOOLEAN
    /\ ks \in BOOLEAN /\ ksKept \in BOOLEAN /\ note \in BOOLEAN
    /\ restorable \in BOOLEAN /\ stray \in BOOLEAN
    /\ rules \in Ruleset
    /\ report \in {"unknown", "error", "open", "blocked"}
    /\ phase \in {"down", "boot", "serving", "unguarded"}
    /\ pc \in Steps
    /\ phase = "down" => pc = "idle"
    /\ pc \in ApplySteps => target # None
    /\ pc \in ApplySteps \ {"write", "pend"} => pending = target

Init ==
    /\ nodes = Node
    /\ active = None /\ prev = None /\ pending = None
    /\ live = None /\ undo = None
    /\ up = FALSE /\ loaded = None /\ want = FALSE
    /\ rules = "none" /\ deny = FALSE /\ fwd = FALSE
    /\ ks = TRUE /\ ksKept = TRUE
    /\ note = FALSE /\ report = "unknown"
    /\ phase = "down" /\ pc = "idle"
    /\ target = None /\ restorable = FALSE
    /\ asked = None /\ doomed = None
    /\ stray = FALSE /\ crossed = None

\* The API answers: boot is over.  A handler starts with the lock free.
Serving == phase \in {"serving", "unguarded"}
Free == pc = "idle" /\ Serving

\* The operation's next step; boot ends by starting the background loops.
Go(l) ==
    /\ pc' = l
    /\ phase' = IF l = "idle" /\ phase = "boot" THEN "serving" ELSE phase

OnlyIf(kind) == kind \in Faults

-----------------------------------------------------------------------------
(* The backend and _record_enforcement.                                    *)

\* Mutant: a deny that could not be released does not fail the result.
ConfirmedSwallowed(r, f, blocked, flow) ==
    /\ rules' = r /\ fwd' = f
    /\ deny' \in {FALSE, deny} /\ note' = FALSE
    /\ report' = IF blocked THEN "blocked" ELSE "open"
    /\ Go(flow[1])

\* The backend confirms: only then is the emergency deny released, and one that will not
\* go turns the success into a failure.
Confirmed(r, f, blocked, flow) ==
    /\ rules' = r /\ fwd' = f
    /\ \/ /\ deny' = FALSE /\ note' = FALSE
          /\ report' = IF blocked THEN "blocked" ELSE "open"
          /\ Go(flow[1])
       \/ /\ OnlyIf("release")
          /\ note' = TRUE
          /\ report' = "error"
          /\ UNCHANGED deny
          /\ Go(flow[2])

\* The backend fails part-way, or a cover that cannot be completed refuses the render and
\* the backend is not called.
Failed(r, f, flow) ==
    /\ OnlyIf("net")
    /\ rules' = r /\ fwd' = f
    /\ report' = "error"
    /\ UNCHANGED <<deny, note>>
    /\ Go(flow[2])

\* Mutant: a failed apply is torn down instead of guarded.
EnforceTproxyTorn(flow) ==
    \/ Confirmed(Tproxy(ks), TRUE, FALSE, flow)
    \/ Failed("none", TRUE, flow)

\* apply_tproxy: the table is replaced first, then routing and forwarding; any failure
\* falls back to apply_guard, which may fail as well.
EnforceTproxy(flow) ==
    \/ Confirmed(Tproxy(ks), TRUE, FALSE, flow)
    \/ Failed(rules, fwd, flow)
    \/ \E r \in {Tproxy(ks), Down(ks)}, f \in {fwd, TRUE} : Failed(r, f, flow)

\* apply_guard with the kill switch on, teardown with it off.
EnforceStop(flow) ==
    \/ Confirmed(Down(ks), fwd, ks, flow)
    \/ \E r \in {rules, Down(ks)} : Failed(r, fwd, flow)

ApplyNet ==
    /\ pc \in DOMAIN ApplyFlow
    /\ EnforceTproxy(ApplyFlow[pc])
    /\ UNCHANGED <<store, disk, child, switch, locals, requests, history>>

\* boot_guard is stop_net only when the kill switch is on.
StopNet ==
    /\ pc \in DOMAIN GuardFlow
    /\ pc = "bootGuard" => ks
    /\ EnforceStop(GuardFlow[pc])
    /\ UNCHANGED <<store, disk, child, switch, locals, requests, history>>

\* _enforcement_mode: tproxy only for a running child with a node selected.
SyncNet ==
    /\ pc \in DOMAIN SyncFlow
    /\ IF up /\ active # None
       THEN EnforceTproxy(SyncFlow[pc])
       ELSE EnforceStop(SyncFlow[pc])
    /\ UNCHANGED <<store, disk, child, switch, locals, requests, history>>

-----------------------------------------------------------------------------
(* XraySupervisor                                                          *)

ChildUp == up' = TRUE /\ loaded' = live
ChildDown == up' = FALSE /\ loaded' = None

\* start(): a live child is left alone; otherwise the spawn may be refused or fail.
Spawn ==
    /\ want' = TRUE
    /\ \/ up /\ UNCHANGED <<up, loaded>>
       \/ ~up /\ ChildUp
       \/ ~up /\ OnlyIf("xray") /\ ChildDown

\* stop() then start() then _wait_ready(): a child that survives SIGKILL is kept,
\* whether it is the old one or a new one that never became ready.
Reload ==
    /\ pc \in DOMAIN ReloadFlow
    /\ \/ want' = TRUE /\ ChildUp /\ Go(ReloadFlow[pc][1])
       \/ OnlyIf("xray") /\ want' = TRUE /\ ChildDown /\ Go(ReloadFlow[pc][2])
       \/ OnlyIf("stuck") /\ want' = TRUE /\ ChildUp /\ Go(ReloadFlow[pc][2])
       \/ OnlyIf("stuck") /\ up /\ want' = FALSE /\ UNCHANGED <<up, loaded>> /\ Go(ReloadFlow[pc][2])
    /\ UNCHANGED <<store, disk, host, switch, memory, locals, requests, history>>

StopXray ==
    /\ pc \in DOMAIN StopFlow
    /\ want' = FALSE
    /\ \/ ChildDown /\ Go(StopFlow[pc][1])
       \/ OnlyIf("stuck") /\ up /\ UNCHANGED <<up, loaded>> /\ Go(StopFlow[pc][2])
    /\ UNCHANGED <<store, disk, host, switch, memory, locals, requests, history>>

\* POST /xray/start with nothing to reapply.
StartXray ==
    /\ pc = "start"
    /\ Spawn
    /\ Go("idle")
    /\ UNCHANGED <<store, disk, host, switch, memory, locals, requests, history>>

XrayDies ==
    /\ up /\ ChildDown
    /\ UNCHANGED <<store, disk, want, host, switch, memory, phase, pc, locals, requests, history>>

\* LivenessLoop._watchdog: wanted and not alive, checked again under the lock.
Watchdog ==
    /\ phase = "serving" /\ pc = "idle"
    /\ want /\ ~up
    /\ Spawn
    /\ UNCHANGED <<store, disk, host, switch, memory, phase, pc, locals, requests, history>>

-----------------------------------------------------------------------------
(* apply_node                                                              *)

\* The route (or failover) reads the node row before it waits for the lock.
AskApply(n) ==
    /\ Serving /\ asked = None
    /\ n \in nodes
    /\ asked' = n
    /\ UNCHANGED <<store, disk, child, host, switch, memory, phase, pc, locals, doomed, history>>

BeginApply ==
    /\ Free /\ asked # None
    /\ target' = asked /\ asked' = None
    /\ Go("write")
    /\ UNCHANGED <<store, disk, child, host, switch, memory, restorable, doomed, history>>

\* ConfigManager.apply: the config it replaces becomes the rollback target.  A config that
\* does not validate ends the apply with nothing changed, one whose write raises may have
\* lost the rollback target.
WriteConfig ==
    /\ pc = "write"
    /\ restorable' = (active \in nodes)
    /\ \/ live' = target /\ undo' = live /\ Go("pend")
       \/ OnlyIf("xray") /\ UNCHANGED disk /\ Go("idle")
       \/ OnlyIf("undo") /\ undo' = None /\ UNCHANGED live /\ Go("idle")
    /\ UNCHANGED <<store, child, host, switch, memory, target, requests, history>>

\* Mutant: the intent is not recorded before the runtime is touched.
MarkPendingSkipped ==
    /\ pc = "pend"
    /\ Go("reload")
    /\ UNCHANGED <<store, disk, child, host, switch, memory, locals, requests, history>>

\* The crash-forward intent marker, written under no try: when the write raises, apply_node is
\* left with the new config on disk, the runtime untouched and nothing on record.
MarkPending ==
    /\ pc = "pend"
    /\ \/ pending' = target /\ Go("reload") /\ UNCHANGED stray
       \/ /\ OnlyIf("store")
          /\ stray' = (stray \/ live # active)
          /\ UNCHANGED pending
          /\ Go("idle")
    /\ UNCHANGED <<nodes, active, prev, disk, child, host, switch, memory, locals, requests, crossed>>

\* mgr.rollback(), then restore the previous tunnel only if there was one.  A rollback that
\* raises may have promoted the config already.
UndoConfig ==
    /\ pc = "undo"
    /\ \/ undo # None /\ live' = undo /\ Go(IF restorable THEN "restore" ELSE "stop")
       \/ (undo = None \/ OnlyIf("undo")) /\ UNCHANGED live /\ Go("stop")
       \/ undo # None /\ OnlyIf("undo") /\ live' = undo /\ Go("stop")
    /\ stray' = (stray \/ (active # None /\ live' # active))
    /\ UNCHANGED <<store, undo, child, host, switch, memory, locals, requests, crossed>>

\* The switch did not happen.  A write that raises leaves the intent on record.
ClearPending ==
    /\ pc = "clear"
    /\ pending' = None \/ (OnlyIf("store") /\ UNCHANGED pending)
    /\ Go("idle")
    /\ UNCHANGED <<nodes, active, prev, disk, child, host, switch, memory, locals, requests, history>>

\* Mutant: the intent is cleared in a write of its own, before the selection is committed.
CommitSplit ==
    /\ pc = "commit"
    /\ \/ prev' = (IF active # target THEN active ELSE prev) /\ active' = target /\ stray' = FALSE
       \/ OnlyIf("store") /\ UNCHANGED <<active, prev, stray>>
    /\ pending' = None
    /\ Go("idle")
    /\ UNCHANGED <<nodes, disk, child, host, switch, memory, locals, requests, crossed>>

\* The selection and the intent change in one transaction, under no try: when it raises, the
\* child and the rules stay on the new node and the intent stays on record.
Commit ==
    /\ pc = "commit"
    /\ \/ /\ prev' = IF active # target THEN active ELSE prev
          /\ active' = target /\ pending' = None
          /\ stray' = FALSE
       \/ OnlyIf("store") /\ UNCHANGED <<active, prev, pending, stray>>
    /\ Go("idle")
    /\ UNCHANGED <<nodes, disk, child, host, switch, memory, locals, requests, crossed>>

-----------------------------------------------------------------------------
(* reapply_active_node, at boot and from POST /xray/start                  *)

\* Mutant: boot trusts active_node_id alone.
PendingOrActiveStored == active

\* _pending_or_active: an interrupted switch whose node still exists wins.
PendingOrActive == IF pending \in nodes THEN pending ELSE active

\* It clears an intent whose node is gone.
LivePending == IF pending \in nodes \cup {active} THEN pending ELSE None

\* A store call that raises here is outside the function's try: POST /xray/start answers 500,
\* and a boot ends (see Crash).
Reapply ==
    /\ pc \in {"bootReapply", "userReapply"}
    /\ \/ /\ PendingOrActive \in nodes
          /\ target' = PendingOrActive
          /\ Go("write")
          /\ pending' = LivePending
          /\ UNCHANGED active
       \/ /\ PendingOrActive = None
          /\ pending' = None
          /\ Go(IF pc = "userReapply" THEN "start" ELSE "idle")
          /\ UNCHANGED <<active, target>>
       \/ /\ PendingOrActive \notin nodes \cup {None}
          /\ active' = None /\ pending' = None
          /\ Go(IF pc = "userReapply" THEN "staleGuard" ELSE "bootStale")
          /\ UNCHANGED target
       \/ /\ OnlyIf("store") /\ pc = "userReapply"
          /\ pending' \in {pending, LivePending}
          /\ Go("idle")
          /\ UNCHANGED <<active, target>>
    /\ stray' = (stray \/ pending' # pending)
    /\ UNCHANGED <<nodes, prev, disk, child, host, switch, memory, restorable, requests, crossed>>

XrayStart ==
    /\ Free
    /\ Go("userReapply")
    /\ UNCHANGED <<store, disk, child, host, switch, memory, locals, requests, history>>

XrayStop ==
    /\ Free
    /\ Go("userStop")
    /\ UNCHANGED <<store, disk, child, host, switch, memory, locals, requests, history>>

-----------------------------------------------------------------------------
(* POST /nodes/{id}/disconnect and POST /rollback                          *)

Disconnect ==
    /\ Free /\ active # None
    /\ Go("disconnect")
    /\ UNCHANGED <<store, disk, child, host, switch, memory, locals, requests, history>>

Disconnected ==
    /\ pc = "disconnected"
    /\ \/ prev' = active /\ active' = None
       \/ OnlyIf("store") /\ UNCHANGED <<prev, active>>
    /\ Go("idle")
    /\ UNCHANGED <<nodes, pending, disk, child, host, switch, memory, locals, requests, history>>

\* The rollback target is promoted to live before anything else is touched.
Rollback ==
    /\ Free /\ undo # None
    /\ live' = undo
    /\ stray' = TRUE
    /\ Go(IF prev # None THEN "backReload" ELSE "leaveStop")
    /\ UNCHANGED <<store, undo, child, host, switch, memory, locals, requests, crossed>>

RolledBack ==
    /\ pc = "backCommit"
    /\ active' = prev \/ (OnlyIf("store") /\ UNCHANGED active)
    /\ Go("idle")
    /\ UNCHANGED <<nodes, prev, pending, disk, child, host, switch, memory, locals, requests, history>>

-----------------------------------------------------------------------------
(* PUT /network, changing the kill switch                                  *)

\* Everything in the transaction is under one try, the commit included: a store call that
\* raises leads to the recovery.
PutKillSwitch ==
    /\ Free /\ OnlyIf("toggle")
    /\ \/ ks' = ~ks /\ Go("netProvision")
       \/ OnlyIf("store") /\ UNCHANGED ks /\ Go("netRevert")
    /\ UNCHANGED <<store, disk, child, host, ksKept, memory, locals, requests, history>>

\* ensure_sysctls turns forwarding on; then the hand-back, if a note asks for one.
HostProvision ==
    /\ pc \in DOMAIN ProvisionFlow
    /\ fwd' \in {fwd, TRUE}
    /\ \E l \in IF note THEN HandBackFlow[pc] ELSE ProvisionFlow[pc] : Go(l)
    /\ UNCHANGED <<store, disk, child, rules, deny, switch, memory, locals, requests, history>>

\* The transaction rolls back, or commits.
RevertNetwork ==
    /\ pc = "netRevert"
    /\ ks' = ksKept
    /\ Go("netRestore")
    /\ UNCHANGED <<store, disk, child, host, ksKept, memory, locals, requests, history>>

CommitNetwork ==
    /\ pc = "netCommit"
    /\ \/ ksKept' = ks /\ Go("idle")
       \/ OnlyIf("store") /\ UNCHANGED ksKept /\ Go("netRevert")
    /\ UNCHANGED <<store, disk, child, host, ks, memory, locals, requests, history>>

-----------------------------------------------------------------------------
(* Boot                                                                    *)

BootPanel ==
    /\ phase = "down"
    /\ phase' = "boot" /\ pc' = "bootGuard"
    /\ UNCHANGED <<store, disk, child, host, switch, memory, locals, requests, history>>

\* The kill switch is off: boot_guard is a no-op, and its ok still releases the deny.
BootUnguarded ==
    /\ pc = "bootGuard" /\ ~ks
    /\ \/ deny' = FALSE /\ note' = FALSE
       \/ OnlyIf("release") /\ UNCHANGED deny /\ note' = TRUE
    /\ Go("bootProvision")
    /\ UNCHANGED <<store, disk, child, rules, fwd, switch, report, locals, requests, history>>

\* Mutant: boot provisions the host whether or not the deny is proven in force.
EmergencyDenyIgnored ==
    /\ pc = "bootDeny"
    /\ note' = TRUE
    /\ deny' \in {deny, TRUE}
    /\ Go("bootProvision")
    /\ UNCHANGED <<store, disk, child, rules, fwd, switch, report, locals, requests, history>>

\* enforcement_fallback: the deny is proven in force, or forwarding is turned off as a
\* last resort and boot goes no further than the management API.
EmergencyDeny ==
    /\ pc = "bootDeny"
    /\ note' = TRUE
    /\ \/ deny' = TRUE /\ UNCHANGED fwd /\ Go("bootProvision")
       \/ /\ OnlyIf("deny")
          /\ deny' \in {deny, TRUE} /\ fwd' \in {fwd, FALSE}
          /\ pc' = "idle" /\ phase' = "unguarded"
    /\ UNCHANGED <<store, disk, child, rules, switch, report, locals, requests, history>>

-----------------------------------------------------------------------------
(* What does not wait for the lock                                         *)

\* DELETE /nodes/{id}: the selection is checked, then the row is deleted.
AskDelete(n) ==
    /\ OnlyIf("delete") /\ Serving /\ doomed = None
    /\ n \in nodes /\ active # n
    /\ doomed' = n
    /\ UNCHANGED <<store, disk, child, host, switch, memory, phase, pc, locals, asked, history>>

DeleteNode ==
    /\ doomed # None
    /\ nodes' = nodes \ {doomed} /\ doomed' = None
    /\ UNCHANGED <<active, prev, pending, disk, child, host, switch, memory, phase, pc, locals, asked, history>>

\* Killed between two writes of ConfigManager.apply or rollback, the one POST /rollback
\* starts with included: the undo is lost, and in a rollback already promoted.
Torn ==
    \/ UNCHANGED disk
    \/ pc = "write" /\ undo' = None /\ UNCHANGED live
    \/ /\ (pc = "undo" \/ Free) /\ undo # None
       /\ live' = undo /\ undo' = None

\* The process and its child are gone; an open transaction is lost.  `crossed` is the
\* node of a switch whose xray had already come up.
Vanish ==
    /\ phase' = "down" /\ pc' = "idle"
    /\ ChildDown /\ want' = FALSE
    /\ ks' = ksKept
    /\ note' = FALSE /\ report' = "unknown"
    /\ target' = None /\ restorable' = FALSE
    /\ asked' = None /\ doomed' = None
    /\ crossed' = IF pc \in {"net", "commit"} THEN target
                  ELSE IF phase = "boot" THEN crossed ELSE None
    /\ Torn
    /\ stray' = (stray \/ (active # None /\ live' \notin {active, pending}))
    /\ UNCHANGED <<store, ksKept>>

\* The panel is killed, or its boot ends with an exception.
Crash ==
    /\ phase # "down"
    /\ OnlyIf("crash") \/ (OnlyIf("store") /\ pc = "bootReapply")
    /\ Vanish
    /\ UNCHANGED host

Reboot ==
    /\ OnlyIf("reboot") /\ phase # "down"
    /\ Vanish
    /\ rules' = "none" /\ deny' = FALSE /\ fwd' = FALSE

-----------------------------------------------------------------------------
LockedStep ==
    \/ ApplyNet \/ StopNet \/ SyncNet
    \/ Reload \/ StopXray \/ StartXray
    \/ WriteConfig \/ MarkPending \/ UndoConfig \/ ClearPending \/ Commit
    \/ Reapply \/ Disconnected \/ RolledBack
    \/ HostProvision \/ RevertNetwork \/ CommitNetwork
    \/ BootUnguarded \/ EmergencyDeny

Request ==
    \/ \E n \in Node : AskApply(n) \/ AskDelete(n)
    \/ BeginApply \/ XrayStart \/ XrayStop \/ Disconnect \/ Rollback \/ PutKillSwitch
    \/ DeleteNode

Environment == XrayDies \/ Crash \/ Reboot

Next == LockedStep \/ Request \/ BootPanel \/ Watchdog \/ Environment

Spec == Init /\ [][Next]_vars

-----------------------------------------------------------------------------
(* Properties                                                              *)

NetSteps == {"netProvision", "netHand", "netHandLost", "netSync", "netRevert", "netCommit",
             "netRestore", "netHandAgain", "netResync", "netGuard", "netStop"}

\* Something on the host keeps segment clients off the WAN.
Held == Dropping \/ deny \/ ~fwd

\* While the kill switch is on and not being changed, no step of any operation, crash or
\* recovery opens a forward path that was held: stop_net guards instead of tearing down, a
\* failed apply_tproxy falls back to the guard, and the emergency deny goes only after a
\* confirmed enforcement.  A panel that came up for management only is the exception the
\* boot sequence documents.
HeldStaysHeld ==
    [][ks /\ ksKept /\ ks' /\ ksKept' /\ pc \notin NetSteps /\ phase # "unguarded" /\ Held
       => Held']_vars

\* With the kill switch on, everything boot does after the guard step (provisioning turns
\* forwarding on, the reapply starts a tunnel) happens with the forward path held by a
\* ruleset or by the emergency deny, never by forwarding merely being off.
BootOpensNothing ==
    phase = "boot" /\ pc \notin {"bootGuard", "bootDeny"} /\ ks => Dropping \/ deny

\* The enforcement snapshot the API serves is honest whenever no operation is running: an
\* "ok" means no emergency deny is left dropping traffic, "blocked" means the guard is on
\* the host, and a gateway that may be open with the kill switch on is reported as an error.
ReportIsHonest ==
    pc = "idle" /\ report \in {"open", "blocked"} =>
        /\ ~deny
        /\ report = "blocked" => rules = "guard"
        /\ ks => Dropping

\* Segment traffic that a confirmed apply sends into xray runs through the node the panel says
\* is active, or through the one whose switch is on record as unfinished: every failure path of
\* apply_node either brings the previous node's config and rules back together, or takes the
\* proxy rules away, or leaves the intent that boot and POST /xray/start complete.  `stray` sets
\* aside, until the next apply that succeeds, a config on disk that is neither node's: one promoted
\* by POST /rollback (see RollbackReturnsToPrev); one left by a switch that could not record its
\* intent, could not undo its config write or was cut off before the intent; and that of a switch
\* that could not be committed, once its intent is gone because a later apply failed or because
\* its row was deleted.  apply_node's recovery takes such a config for the previous node's.
TunnelIsTheSelectedOne ==
    pc = "idle" /\ report = "open" /\ Proxying /\ up /\ ~stray => loaded \in {active, pending}

\* A switch whose xray had come up before the panel died is completed by the next boot, not
\* undone: boot applies the node that was crossed to, as long as its row still exists, and
\* keeps doing so if it dies again on the way.
SwitchSurvivesCrash ==
    phase = "boot" /\ crossed \in nodes
        /\ pc \in {"write", "pend", "reload", "net", "commit"} => target = crossed

\* Every operation ends and releases apply_lock, whatever fails on the way.
OperationsEnd == (pc # "idle") ~> (pc = "idle")

FairSpec == Spec /\ WF_vars(LockedStep)

\* StatusOut.prev_active_node_id is "the node a rollback would return to": when POST
\* /rollback selects it, the config it promoted is that node's.
RollbackReturnsToPrev ==
    pc = "backCommit" /\ prev # None => live = prev
====
