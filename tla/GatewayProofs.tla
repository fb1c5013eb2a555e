---- MODULE GatewayProofs ----
(***************************************************************************)
(* Proofs about Gateway, for any set of nodes and any choice of failures.  *)
(*                                                                         *)
(* The kill-switch claims need three facts beside the types: which steps   *)
(* belong to boot, that boot is past its guard only with the path held,    *)
(* and that a confirmed report was rendered from the kill switch as it     *)
(* still stands.  The flow tables are summarised first, so that no proof   *)
(* about an action looks inside them.  The switch's claims add which node  *)
(* the intent marker, the two configs on disk and the child stand for.     *)
(***************************************************************************)
EXTENDS Gateway, TLAPS

BootOnly == {"bootGuard", "bootDeny", "bootProvision", "bootHand", "bootReapply", "bootStale"}
BootSteps == ApplySteps \cup BootOnly

\* The steps at which the kill switch may differ from the one the rules were rendered from.
Unsettled == {"netProvision", "netHand", "netHandLost", "netSync", "netRevert",
              "netRestore", "netHandAgain", "netResync"}

-----------------------------------------------------------------------------
(* The flow tables                                                         *)

\* The domain of each flow table, spelled out for the provers.
LEMMA FlowDomains ==
    /\ DOMAIN ReloadFlow = {"reload", "restore", "backReload"}
    /\ DOMAIN ApplyFlow = {"net", "restoreNet", "backNet"}
    /\ DOMAIN StopFlow = {"stop", "userStop", "backStop", "leaveStop", "netStop"}
    /\ DOMAIN GuardFlow = {"guard", "disconnect", "userGuard", "backGuard",
                            "leaveGuard", "keptGuard", "staleGuard", "bootStale",
                            "bootGuard", "netGuard"}
    /\ DOMAIN SyncFlow = {"netSync", "netResync", "netHand", "netHandLost",
                            "netHandAgain", "bootHand"}
    /\ DOMAIN ProvisionFlow = {"bootProvision", "netProvision", "netRestore"}
    /\ DOMAIN HandBackFlow = {"bootProvision", "netProvision", "netRestore"}
BY DEF ReloadFlow, ApplyFlow, StopFlow, GuardFlow, SyncFlow, ProvisionFlow, HandBackFlow

\* A step that may follow step l: apply_node is entered only by its own first step, and
\* boot stays in boot.
Leads(l, m) ==
    /\ m \in Steps /\ l # "idle"
    /\ m \in ApplySteps => l \in ApplySteps \ {"write", "pend"} /\ m \notin {"write", "pend"}
    /\ l \in BootSteps => m \in BootSteps \cup {"idle"}
    /\ m \in BootOnly => l \in BootOnly

\* Every entry of every flow table leads to a step that may follow it.
LEMMA FlowsLead ==
    /\ \A l \in DOMAIN ReloadFlow : Leads(l, ReloadFlow[l][1]) /\ Leads(l, ReloadFlow[l][2])
    /\ \A l \in DOMAIN ApplyFlow : Leads(l, ApplyFlow[l][1]) /\ Leads(l, ApplyFlow[l][2])
    /\ \A l \in DOMAIN StopFlow : Leads(l, StopFlow[l][1]) /\ Leads(l, StopFlow[l][2])
    /\ \A l \in DOMAIN GuardFlow : Leads(l, GuardFlow[l][1]) /\ Leads(l, GuardFlow[l][2])
    /\ \A l \in DOMAIN SyncFlow : Leads(l, SyncFlow[l][1]) /\ Leads(l, SyncFlow[l][2])
    /\ \A l \in DOMAIN ProvisionFlow : \A m \in ProvisionFlow[l] \cup HandBackFlow[l] : Leads(l, m)
<1>1. \A l \in DOMAIN ReloadFlow : Leads(l, ReloadFlow[l][1]) /\ Leads(l, ReloadFlow[l][2])
  BY FlowDomains DEF ReloadFlow, Leads, Steps, ApplySteps, BootSteps, BootOnly
<1>2. \A l \in DOMAIN ApplyFlow : Leads(l, ApplyFlow[l][1]) /\ Leads(l, ApplyFlow[l][2])
  BY FlowDomains DEF ApplyFlow, Leads, Steps, ApplySteps, BootSteps, BootOnly
<1>3. \A l \in DOMAIN StopFlow : Leads(l, StopFlow[l][1]) /\ Leads(l, StopFlow[l][2])
  BY FlowDomains DEF StopFlow, Leads, Steps, ApplySteps, BootSteps, BootOnly
<1>4. \A l \in DOMAIN GuardFlow : Leads(l, GuardFlow[l][1]) /\ Leads(l, GuardFlow[l][2])
  BY FlowDomains DEF GuardFlow, Leads, Steps, ApplySteps, BootSteps, BootOnly
<1>5. \A l \in DOMAIN SyncFlow : Leads(l, SyncFlow[l][1]) /\ Leads(l, SyncFlow[l][2])
  BY FlowDomains DEF SyncFlow, Leads, Steps, ApplySteps, BootSteps, BootOnly
<1>6. \A l \in DOMAIN ProvisionFlow : \A m \in ProvisionFlow[l] \cup HandBackFlow[l] : Leads(l, m)
  BY FlowDomains DEF ProvisionFlow, HandBackFlow, Leads, Steps, ApplySteps, BootSteps, BootOnly
<1> QED BY <1>1, <1>2, <1>3, <1>4, <1>5, <1>6

\* Only a failed boot guard asks for the emergency deny, and an unsettled kill switch is
\* settled only by an enforcement call.
LEMMA FlowsSettle ==
    /\ \A l \in DOMAIN ApplyFlow : ApplyFlow[l][1] # "bootDeny" /\ l # "bootGuard"
    /\ \A l \in DOMAIN GuardFlow : GuardFlow[l][1] # "bootDeny"
    /\ GuardFlow["bootGuard"][2] = "bootDeny"
    /\ \A l \in DOMAIN SyncFlow : SyncFlow[l][1] # "bootDeny" /\ l # "bootGuard"
    /\ \A l \in DOMAIN ReloadFlow : l \notin BootOnly \cup Unsettled
    /\ \A l \in DOMAIN StopFlow : l \notin BootOnly \cup Unsettled
    /\ \A l \in DOMAIN ProvisionFlow : \A m \in ProvisionFlow[l] \cup HandBackFlow[l] :
          /\ m # "bootDeny" /\ l \notin {"bootGuard", "bootDeny"}
          /\ l \in Unsettled => m \in Unsettled
          /\ l \notin Unsettled => l \in BootOnly
<1>1. \A l \in DOMAIN ApplyFlow : ApplyFlow[l][1] # "bootDeny" /\ l # "bootGuard"
  BY FlowDomains DEF ApplyFlow
<1>2. \A l \in DOMAIN GuardFlow : GuardFlow[l][1] # "bootDeny"
  BY FlowDomains DEF GuardFlow
<1>3. GuardFlow["bootGuard"][2] = "bootDeny"
  BY DEF GuardFlow
<1>4. \A l \in DOMAIN SyncFlow : SyncFlow[l][1] # "bootDeny" /\ l # "bootGuard"
  BY FlowDomains DEF SyncFlow
<1>5. /\ \A l \in DOMAIN ReloadFlow : l \notin BootOnly \cup Unsettled
      /\ \A l \in DOMAIN StopFlow : l \notin BootOnly \cup Unsettled
  BY FlowDomains DEF BootOnly, Unsettled
<1>6. \A l \in DOMAIN ProvisionFlow : \A m \in ProvisionFlow[l] \cup HandBackFlow[l] :
          /\ m # "bootDeny" /\ l \notin {"bootGuard", "bootDeny"}
          /\ l \in Unsettled => m \in Unsettled
          /\ l \notin Unsettled => l \in BootOnly
  BY FlowDomains DEF ProvisionFlow, HandBackFlow, Unsettled, BootOnly
<1> QED BY <1>1, <1>2, <1>3, <1>4, <1>5, <1>6

\* How many calls the operation can still make, this one included, at step l.
Left(l) ==
    CASE l = "idle" -> 0
      [] l \in {"clear", "commit", "bootStale", "start", "userGuard", "disconnected", "backGuard", "backCommit",
                "netStop"} -> 1
      [] l \in {"guard", "staleGuard", "userStop", "disconnect", "leaveGuard", "keptGuard", "backStop", "netGuard"} -> 2
      [] l \in {"stop", "backNet", "leaveStop", "netResync"} -> 3
      [] l \in {"restoreNet", "backReload", "netHandAgain"} -> 4
      [] l \in {"restore", "netRestore"} -> 5
      [] l \in {"undo", "netRevert"} -> 6
      [] l \in {"net", "netHandLost", "netCommit"} -> 7
      [] l \in {"reload", "netSync"} -> 8
      [] l \in {"pend", "netHand"} -> 9
      [] l \in {"write", "netProvision"} -> 10
      [] l \in {"bootReapply", "userReapply"} -> 11
      [] l = "bootHand" -> 12
      [] l = "bootProvision" -> 13
      [] l = "bootDeny" -> 14
      [] l = "bootGuard" -> 15

\* Step m is closer to the end of an operation than step l.
Nearer(l, m) == Left(m) < Left(l)

\* Every entry of every flow table is nearer to the end.
LEMMA FlowsEnd ==
    /\ \A l \in DOMAIN ReloadFlow : Nearer(l, ReloadFlow[l][1]) /\ Nearer(l, ReloadFlow[l][2])
    /\ \A l \in DOMAIN ApplyFlow : Nearer(l, ApplyFlow[l][1]) /\ Nearer(l, ApplyFlow[l][2])
    /\ \A l \in DOMAIN StopFlow : Nearer(l, StopFlow[l][1]) /\ Nearer(l, StopFlow[l][2])
    /\ \A l \in DOMAIN GuardFlow : Nearer(l, GuardFlow[l][1]) /\ Nearer(l, GuardFlow[l][2])
    /\ \A l \in DOMAIN SyncFlow : Nearer(l, SyncFlow[l][1]) /\ Nearer(l, SyncFlow[l][2])
    /\ \A l \in DOMAIN ProvisionFlow : \A m \in ProvisionFlow[l] \cup HandBackFlow[l] : Nearer(l, m)
<1>1. \A l \in DOMAIN ReloadFlow : Nearer(l, ReloadFlow[l][1]) /\ Nearer(l, ReloadFlow[l][2])
  BY FlowDomains DEF ReloadFlow, Nearer, Left
<1>2. \A l \in DOMAIN ApplyFlow : Nearer(l, ApplyFlow[l][1]) /\ Nearer(l, ApplyFlow[l][2])
  BY FlowDomains DEF ApplyFlow, Nearer, Left
<1>3. \A l \in DOMAIN StopFlow : Nearer(l, StopFlow[l][1]) /\ Nearer(l, StopFlow[l][2])
  BY FlowDomains DEF StopFlow, Nearer, Left
<1>4. \A l \in DOMAIN GuardFlow : Nearer(l, GuardFlow[l][1]) /\ Nearer(l, GuardFlow[l][2])
  <2>1. \A l \in DOMAIN GuardFlow : \A m \in {GuardFlow[l][1], GuardFlow[l][2]} :
            \/ m = "idle"
            \/ l = "guard" /\ m = "clear"
            \/ l = "disconnect" /\ m = "disconnected"
            \/ l = "leaveGuard" /\ m \in {"backCommit", "backGuard"}
            \/ l = "keptGuard" /\ m = "backGuard"
            \/ l = "staleGuard" /\ m = "start"
            \/ l = "bootGuard" /\ m \in {"bootProvision", "bootDeny"}
            \/ l = "netGuard" /\ m = "netStop"
    BY FlowDomains DEF GuardFlow
  <2>2. \A l \in DOMAIN GuardFlow : Nearer(l, "idle")
    BY FlowDomains DEF Nearer, Left
  <2>3. /\ Nearer("guard", "clear") /\ Nearer("disconnect", "disconnected")
        /\ Nearer("leaveGuard", "backCommit") /\ Nearer("leaveGuard", "backGuard")
        /\ Nearer("keptGuard", "backGuard") /\ Nearer("staleGuard", "start")
        /\ Nearer("bootGuard", "bootProvision") /\ Nearer("bootGuard", "bootDeny") /\ Nearer("netGuard", "netStop")
    BY DEF Nearer, Left
  <2>4. ASSUME NEW l \in DOMAIN GuardFlow, NEW m \in {GuardFlow[l][1], GuardFlow[l][2]} PROVE Nearer(l, m)
    BY <2>1, <2>2, <2>3
  <2> QED BY <2>4, Zenon
<1>5. \A l \in DOMAIN SyncFlow : Nearer(l, SyncFlow[l][1]) /\ Nearer(l, SyncFlow[l][2])
  <2>1. \A l \in DOMAIN SyncFlow : \A m \in {SyncFlow[l][1], SyncFlow[l][2]} :
            \/ l = "netSync" /\ m \in {"netCommit", "netRevert"}
            \/ l = "netResync" /\ m \in {"idle", "netGuard"}
            \/ l = "netHand" /\ m \in {"netSync", "netRevert"}
            \/ l = "netHandLost" /\ m = "netRevert"
            \/ l = "netHandAgain" /\ m = "netResync"
            \/ l = "bootHand" /\ m = "bootReapply"
    BY FlowDomains DEF SyncFlow
  <2>2. /\ Nearer("netSync", "netCommit") /\ Nearer("netSync", "netRevert")
        /\ Nearer("netResync", "idle") /\ Nearer("netResync", "netGuard")
        /\ Nearer("netHand", "netSync") /\ Nearer("netHand", "netRevert")
        /\ Nearer("netHandLost", "netRevert")
        /\ Nearer("netHandAgain", "netResync")
        /\ Nearer("bootHand", "bootReapply")
    BY DEF Nearer, Left
  <2>3. ASSUME NEW l \in DOMAIN SyncFlow, NEW m \in {SyncFlow[l][1], SyncFlow[l][2]} PROVE Nearer(l, m)
    BY <2>1, <2>2
  <2> QED BY <2>3, Zenon
<1>6. \A l \in DOMAIN ProvisionFlow : \A m \in ProvisionFlow[l] \cup HandBackFlow[l] : Nearer(l, m)
  BY FlowDomains DEF ProvisionFlow, HandBackFlow, Nearer, Left
<1> QED BY <1>1, <1>2, <1>3, <1>4, <1>5, <1>6, Zenon

LEMMA StepsLeft ==
    /\ \A l \in Steps : Left(l) \in 0 .. 15 /\ (l # "idle" => Nearer(l, "idle"))
    /\ Nearer("write", "pend") /\ Nearer("pend", "reload") /\ Nearer("undo", "restore") /\ Nearer("undo", "stop")
    /\ \A l \in {"bootReapply", "userReapply"} : \A m \in {"write", "start", "staleGuard", "bootStale"} : Nearer(l, m)
    /\ Nearer("netRevert", "netRestore") /\ Nearer("netCommit", "netRevert")
    /\ Nearer("bootGuard", "bootProvision") /\ Nearer("bootDeny", "bootProvision")
<1>1. \A l \in Steps : Left(l) \in 0 .. 15 /\ (l # "idle" => Nearer(l, "idle"))
  <2>1. \A l \in DOMAIN ReloadFlow \cup DOMAIN ApplyFlow \cup DOMAIN StopFlow \cup DOMAIN GuardFlow :
            Left(l) \in 1 .. 15
    BY FlowDomains DEF Left
  <2>2. \A l \in DOMAIN SyncFlow \cup DOMAIN ProvisionFlow : Left(l) \in 1 .. 15
    BY FlowDomains DEF Left
  <2>3. \A l \in {"write", "pend", "undo", "clear", "commit", "disconnected", "backCommit", "userReapply",
                  "bootReapply", "start", "bootDeny", "netRevert", "netCommit"} : Left(l) \in 1 .. 15
    BY DEF Left
  <2>4. Left("idle") = 0
    BY DEF Left
  <2>5. \A l \in Steps : l = "idle" \/ Left(l) \in 1 .. 15
    BY <2>1, <2>2, <2>3, Zenon DEF Steps
  <2> QED BY <2>4, <2>5 DEF Nearer
<1>2. /\ Nearer("write", "pend") /\ Nearer("pend", "reload") /\ Nearer("undo", "restore") /\ Nearer("undo", "stop")
      /\ Nearer("netRevert", "netRestore") /\ Nearer("netCommit", "netRevert")
      /\ Nearer("bootGuard", "bootProvision") /\ Nearer("bootDeny", "bootProvision")
  BY DEF Nearer, Left
<1>3. \A l \in {"bootReapply", "userReapply"} : \A m \in {"write", "start", "staleGuard", "bootStale"} : Nearer(l, m)
  BY DEF Nearer, Left
<1> QED BY <1>1, <1>2, <1>3, Zenon

-----------------------------------------------------------------------------
(* One enforcement call                                                    *)

\* With the kill switch as it stands, a success renders the drop from it and leaves no
\* deny, and a failure is reported and loosens nothing.
Enforced(flow) ==
    /\ rules' \in Ruleset /\ deny' \in BOOLEAN /\ fwd' \in BOOLEAN /\ note' \in BOOLEAN
    /\ \/ /\ report' \in {"open", "blocked"} /\ Go(flow[1])
          /\ deny' = FALSE /\ (ks => Dropping')
          /\ report' = "blocked" => rules' = "guard"
       \/ /\ report' = "error" /\ Go(flow[2])
          /\ ks /\ Dropping => Dropping'
          /\ deny' = deny
          /\ ks /\ fwd' # fwd => Dropping'

\* Every outcome of apply_tproxy, apply_guard and teardown is one of those two.
LEMMA EnforcementEnforces ==
    ASSUME NEW flow, TypeOK, EnforceTproxy(flow) \/ EnforceStop(flow)
    PROVE  Enforced(flow)
<1> USE DEF Enforced, Dropping, Ruleset, TypeOK, Tproxy, Down
<1>1. CASE Confirmed(Tproxy(ks), TRUE, FALSE, flow)
  BY <1>1, Zenon DEF Confirmed
<1>2. CASE Confirmed(Down(ks), fwd, ks, flow)
  BY <1>2, Zenon DEF Confirmed
<1>3. ASSUME NEW r \in {rules, Tproxy(ks), Down(ks)}, NEW f \in {fwd, TRUE},
             Failed(r, f, flow), r = rules => f = fwd \/ r \in {Tproxy(ks), Down(ks)}
      PROVE  Enforced(flow)
  BY <1>3, Zenon DEF Failed
<1> QED BY <1>1, <1>2, <1>3, Zenon DEF EnforceTproxy, EnforceStop

-----------------------------------------------------------------------------
(* The inductive invariant                                                 *)

BootInv ==
    /\ phase = "boot" => pc \in BootSteps
    /\ pc \in BootOnly => phase = "boot"
    /\ pc = "bootDeny" => report = "error"
    /\ BootOpensNothing

HonestInv ==
    report \in {"open", "blocked"} =>
        /\ deny = FALSE
        /\ report = "blocked" => rules = "guard"
        /\ ks /\ pc \notin Unsettled => Dropping

IInv == TypeOK /\ BootInv /\ HonestInv

\* The step names the proofs below tell apart are pairwise the ones they say.
LEMMA StepNames ==
    /\ "idle" \in Steps \ (BootSteps \cup Unsettled)
    /\ ApplySteps \subseteq Steps /\ BootOnly \subseteq Steps
    /\ {"userReapply", "userStop", "disconnect", "start", "staleGuard", "backReload",
        "leaveStop", "netProvision", "netRevert", "netRestore"} \subseteq Steps \ BootSteps
    /\ Unsettled \cap BootSteps = {} /\ ApplySteps \cap BootOnly = {}
BY FlowDomains DEF Steps, ApplySteps, BootOnly, BootSteps, Unsettled

\* The initial state, a panel that is down on a fresh host, satisfies the invariant.
LEMMA Initially == Init => IInv
BY GatewayAssumption, StepNames, Zenon
   DEF Init, IInv, TypeOK, BootInv, HonestInv, BootOpensNothing, MaybeNode, Ruleset, BootSteps

\* The types of TypeOK in three parts: nodes and configs, flags and modes, and what the next
\* step says of an apply under way.
Names ==
    /\ nodes \subseteq Node
    /\ active \in MaybeNode /\ prev \in MaybeNode /\ pending \in MaybeNode
    /\ live \in MaybeNode /\ undo \in MaybeNode /\ loaded \in MaybeNode
    /\ target \in MaybeNode /\ asked \in MaybeNode /\ doomed \in MaybeNode /\ crossed \in MaybeNode

\* BOOLEAN, kept folded so that no proof splits on a flag it does not read.
Flag == BOOLEAN

Flags ==
    /\ up \in Flag /\ want \in Flag /\ deny \in Flag /\ fwd \in Flag
    /\ ks \in Flag /\ ksKept \in Flag /\ note \in Flag
    /\ restorable \in Flag /\ stray \in Flag
    /\ rules \in Ruleset
    /\ report \in {"unknown", "error", "open", "blocked"}
    /\ phase \in {"down", "boot", "serving", "unguarded"}

Placed ==
    /\ pc \in Steps
    /\ phase = "down" => pc = "idle"
    /\ pc \in ApplySteps => target # None
    /\ pc \in ApplySteps \ {"write", "pend"} => pending = target

\* The three parts are TypeOK.
LEMMA TypeParts == TypeOK <=> Names /\ Flags /\ Placed
BY Zenon DEF TypeOK, Names, Flags, Flag, Placed

\* A step names only nodes it was given, a row or another variable held.
LEMMA NamesStep ==
    ASSUME Names, Next
    PROVE  Names'
<1> USE DEF store, disk, child, host, switch, memory, locals, requests, history
<1>0. None \in MaybeNode /\ Node \subseteq MaybeNode
  BY DEF MaybeNode
<1>1. CASE UNCHANGED <<store, disk, child, locals, requests, history>>
  BY <1>1, Zenon DEF Names
<1>2. CASE WriteConfig \/ UndoConfig \/ Rollback
  BY <1>2, <1>0, Zenon DEF Names, WriteConfig, UndoConfig, Rollback
<1>3. CASE MarkPending \/ ClearPending \/ Commit \/ Disconnected \/ RolledBack
  BY <1>3, <1>0, Zenon DEF Names, MarkPending, ClearPending, Commit, Disconnected, RolledBack
<1>4. CASE Reapply
  BY <1>4, <1>0 DEF Names, Reapply, PendingOrActive, LivePending
<1>5. CASE Reload \/ StopXray \/ StartXray \/ Watchdog \/ XrayDies
  BY <1>5, <1>0, Zenon DEF Names, Reload, StopXray, StartXray, Watchdog, XrayDies, Spawn, ChildUp, ChildDown
<1>6. CASE BeginApply \/ DeleteNode \/ \E n \in Node : AskApply(n) \/ AskDelete(n)
  BY <1>6, <1>0 DEF Names, BeginApply, DeleteNode, AskApply, AskDelete
<1>7. CASE Crash \/ Reboot
  BY <1>7, <1>0, Zenon DEF Names, Crash, Reboot, Vanish, Torn, ChildDown
<1> QED
  BY <1>1, <1>2, <1>3, <1>4, <1>5, <1>6, <1>7, Zenon DEF Next, LockedStep, Request, Environment,
     ApplyNet, StopNet, SyncNet, HostProvision, RevertNetwork, CommitNetwork, BootUnguarded,
     EmergencyDeny, XrayStart, XrayStop, Disconnect, PutKillSwitch, BootPanel

\* Every flag stays a Boolean, every mode one of its values.
LEMMA FlagsStep ==
    ASSUME Flags, Next
    PROVE  Flags'
<1> USE DEF store, disk, child, host, switch, memory, locals, requests, history
<1>0. /\ \A l : Go(l) => phase' \in {"down", "boot", "serving", "unguarded"}
      /\ TRUE \in Flag /\ FALSE \in Flag
  BY Zenon DEF Go, Flags, Flag
<1>1. CASE ApplyNet \/ StopNet \/ SyncNet
  <2>1. PICK flow : EnforceTproxy(flow) \/ EnforceStop(flow)
    BY <1>1, Zenon DEF ApplyNet, StopNet, SyncNet
  <2>2. Tproxy(ks) \in Ruleset /\ Down(ks) \in Ruleset
    BY DEF Tproxy, Down, Ruleset
  <2>3. /\ rules' \in Ruleset /\ deny' \in Flag /\ fwd' \in Flag /\ note' \in Flag
        /\ report' \in {"error", "open", "blocked"} /\ \E l : Go(l)
    BY <1>0, <2>1, <2>2, Zenon DEF Flags, EnforceTproxy, EnforceStop, Confirmed, Failed
  <2>4. UNCHANGED <<up, want, ks, ksKept, restorable, stray>>
    BY <1>1, Zenon DEF ApplyNet, StopNet, SyncNet
  <2> QED BY <1>0, <2>3, <2>4, Zenon DEF Flags
<1>2. CASE Reload \/ StopXray \/ StartXray \/ Watchdog \/ XrayDies
  BY <1>2, <1>0, Zenon DEF Flags, Reload, StopXray, StartXray, Watchdog, XrayDies, Spawn, ChildUp, ChildDown
<1>3. CASE WriteConfig
  <2>1. restorable' \in Flag
    BY <1>3 DEF Flag, WriteConfig
  <2> QED BY <1>3, <1>0, <2>1, Zenon DEF Flags, WriteConfig
<1>4. CASE MarkPending \/ UndoConfig \/ Commit \/ Reapply
  <2>1. stray' \in Flag
    BY <1>4, <1>0, Zenon DEF Flags, Flag, MarkPending, UndoConfig, Commit, Reapply
  <2> QED BY <1>4, <1>0, <2>1, Zenon DEF Flags, MarkPending, UndoConfig, Commit, Reapply
<1>5. CASE HostProvision \/ RevertNetwork \/ CommitNetwork \/ PutKillSwitch
  <2>1. ks' \in Flag
    BY <1>5, Zenon DEF Flags, Flag, HostProvision, RevertNetwork, CommitNetwork, PutKillSwitch
  <2> QED BY <1>5, <1>0, <2>1, Zenon DEF Flags, HostProvision, RevertNetwork, CommitNetwork, PutKillSwitch
<1>6. CASE BootPanel \/ BootUnguarded \/ EmergencyDeny
  BY <1>6, <1>0, Zenon DEF Flags, BootPanel, BootUnguarded, EmergencyDeny
<1>7. CASE Crash \/ Reboot
  <2>1. "none" \in Ruleset /\ stray' \in Flag
    BY <1>7, Zenon DEF Ruleset, Flag, Crash, Reboot, Vanish
  <2> QED BY <1>0, <1>7, <2>1, Zenon DEF Flags, Crash, Reboot, Vanish, ChildDown
<1>8. CASE ClearPending \/ Disconnected \/ RolledBack \/ BeginApply
           \/ XrayStart \/ XrayStop \/ Disconnect \/ Rollback
  BY <1>8, <1>0, Zenon DEF Flags, ClearPending, Disconnected, RolledBack,
     BeginApply, XrayStart, XrayStop, Disconnect, Rollback
<1>9. CASE DeleteNode \/ \E n \in Node : AskApply(n) \/ AskDelete(n)
  BY <1>9, Zenon DEF Flags, DeleteNode, AskApply, AskDelete
<1> QED
  BY <1>1, <1>2, <1>3, <1>4, <1>5, <1>6, <1>7, <1>8, <1>9, Zenon DEF Next, LockedStep, Request, Environment

\* Everything in the invariant that depends on the next step.
Staged == Placed /\ BootInv /\ HonestInv

\* One enforcement call, wherever in an operation it is made, keeps it.
LEMMA EnforcementKeeps ==
    ASSUME IInv, NEW flow, Enforced(flow), Leads(pc, flow[1]), Leads(pc, flow[2]),
           flow[1] # "bootDeny", pc = "bootGuard" => flow[2] = "bootDeny", pc # "bootDeny",
           UNCHANGED <<pending, target, ks>>
    PROVE  Staged'
<1>1. Placed'
  BY StepNames, TypeParts DEF IInv, Placed, Enforced, Go, Leads
<1>2. BootInv'
  BY StepNames, TypeParts
     DEF IInv, Placed, BootInv, BootOpensNothing, Enforced, Go, Leads, Dropping, BootSteps
<1>3. HonestInv'
  BY DEF IInv, HonestInv, Enforced, Dropping
<1> QED BY <1>1, <1>2, <1>3 DEF Staged

\* So does a step that enforces nothing and stays where boot, apply_node and PUT /network are.
LEMMA JumpKeeps ==
    ASSUME IInv, NEW l \in Steps, Go(l), pc \notin {"idle", "bootGuard", "bootDeny"},
           l # "bootDeny", l \in BootOnly => pc \in BootOnly,
           phase = "boot" => l \in BootSteps \cup {"idle"},
           pc \in Unsettled => l \in Unsettled,
           l \in ApplySteps => target' # None,
           l \in ApplySteps \ {"write", "pend"} => pending' = target',
           UNCHANGED <<report, rules, deny, ks>>
    PROVE  Staged'
<1>1. Placed'
  BY TypeParts DEF IInv, Placed, Go
<1>2. BootInv' /\ HonestInv'
  BY TypeParts, StepNames
     DEF IInv, Placed, BootInv, BootOpensNothing, HonestInv, Dropping, Go, BootSteps
<1> QED BY <1>1, <1>2 DEF Staged

\* A step of a flow table that changes neither the marker nor the target is one of those.
LEMMA LeadKeeps ==
    ASSUME IInv, NEW l, Leads(pc, l), Go(l), pc \notin {"bootGuard", "bootDeny"},
           l # "bootDeny", pc \in Unsettled => l \in Unsettled,
           UNCHANGED <<pending, target, report, rules, deny, ks>>
    PROVE  Staged'
BY JumpKeeps, TypeParts DEF Leads, IInv, Placed, BootInv

\* The steps under apply_lock that follow a flow table.
LEMMA FlowStepKeeps ==
    ASSUME IInv, ApplyNet \/ StopNet \/ SyncNet \/ Reload \/ StopXray \/ HostProvision
    PROVE  Staged'
<1> USE DEF store, child, host, switch, memory, locals
<1>1. CASE ApplyNet \/ StopNet \/ SyncNet
  <2>1. TypeOK /\ pc # "bootDeny"
    BY <1>1, FlowDomains DEF ApplyNet, StopNet, SyncNet, IInv
  <2> QED
    BY <1>1, <2>1, EnforcementEnforces, EnforcementKeeps, FlowsLead, FlowsSettle, Zenon
       DEF ApplyNet, StopNet, SyncNet
<1>2. CASE Reload \/ StopXray
  <2>1. PICK l : Leads(pc, l) /\ Go(l)
    BY <1>2, FlowsLead, Zenon DEF Reload, StopXray
  <2>2. pc \notin BootOnly \cup Unsettled
    BY <1>2, FlowsSettle, Zenon DEF Reload, StopXray
  <2>3. UNCHANGED <<pending, target, report, rules, deny, ks>>
    BY <1>2, Zenon DEF Reload, StopXray
  <2> QED BY <2>1, <2>2, <2>3, LeadKeeps DEF Leads, BootOnly
<1>3. CASE HostProvision
  <2>1. PICK l \in ProvisionFlow[pc] \cup HandBackFlow[pc] : Go(l)
    BY <1>3 DEF HostProvision
  <2>2. Leads(pc, l) /\ l # "bootDeny" /\ pc \notin {"bootGuard", "bootDeny"}
        /\ (pc \in Unsettled => l \in Unsettled)
    BY <1>3, <2>1, FlowsLead, FlowsSettle DEF HostProvision
  <2> QED BY <1>3, <2>1, <2>2, LeadKeeps, Zenon DEF HostProvision
<1> QED BY <1>1, <1>2, <1>3

\* The steps of apply_node, reapply_active_node, disconnect and rollback that write the store
\* or the disk, and those of boot and PUT /network.
LEMMA WriteStepKeeps ==
    ASSUME IInv,
           \/ StartXray \/ WriteConfig \/ MarkPending \/ UndoConfig \/ ClearPending \/ Commit
           \/ Reapply \/ Disconnected \/ RolledBack \/ RevertNetwork \/ CommitNetwork
           \/ BootUnguarded \/ EmergencyDeny
    PROVE  Staged'
<1> USE DEF store, disk, host, switch, memory, locals
<1>0. Placed /\ BootInv /\ HonestInv /\ None \notin nodes
  BY TypeParts, GatewayAssumption DEF IInv, Names
<1>1. CASE StartXray \/ UndoConfig \/ ClearPending \/ Commit \/ Disconnected \/ RolledBack \/ CommitNetwork
  <2>1. \E l \in {"idle", "restore", "stop", "netRevert"} :
            /\ Go(l) /\ (l \in {"restore", "stop"} => pc = "undo" /\ UNCHANGED <<pending, target>>)
            /\ l = "netRevert" => pc = "netCommit"
    BY <1>1, Zenon
       DEF StartXray, UndoConfig, ClearPending, Commit, Disconnected, RolledBack, CommitNetwork
  <2>2. /\ pc \in {"start", "undo", "clear", "commit", "disconnected", "backCommit", "netCommit"}
        /\ UNCHANGED <<report, rules, deny, ks>>
    BY <1>1, Zenon
       DEF StartXray, UndoConfig, ClearPending, Commit, Disconnected, RolledBack, CommitNetwork
  <2>3. ASSUME Go("netRevert"), pc = "netCommit"
        PROVE  Staged'
    <3>1. phase # "boot"
      BY <1>0, <2>3 DEF BootInv, BootSteps, ApplySteps, BootOnly
    <3> QED BY <1>0, <2>2, <2>3, <3>1, JumpKeeps, StepNames DEF ApplySteps, BootOnly, Unsettled
  <2>4. ASSUME NEW l \in {"idle", "restore", "stop"}, Go(l),
               l \in {"restore", "stop"} => pc = "undo" /\ UNCHANGED <<pending, target>>
        PROVE  Staged'
    BY <1>0, <2>2, <2>4, JumpKeeps, StepNames DEF Placed, ApplySteps, BootSteps, BootOnly, Unsettled
  <2> QED BY <2>1, <2>3, <2>4
<1>2. CASE WriteConfig \/ MarkPending
  <2>1. \E l \in {"idle", "pend", "reload"} : Go(l) /\ (l = "reload" => pending' = target)
    BY <1>2 DEF WriteConfig, MarkPending
  <2>2. pc \in {"write", "pend"} /\ UNCHANGED <<target, report, rules, deny, ks>>
    BY <1>2, Zenon DEF WriteConfig, MarkPending
  <2> QED BY <1>0, <2>1, <2>2, JumpKeeps, StepNames
       DEF Placed, ApplySteps, BootSteps, BootOnly, Unsettled
<1>3. CASE Reapply
  <2>1. \E l : /\ Go(l)
               /\ \/ l = "write" /\ target' # None
                  \/ l \in {"idle", "bootStale"} /\ pc = "bootReapply"
                  \/ l \in {"start", "staleGuard", "idle"} /\ pc = "userReapply"
    BY <1>3, <1>0 DEF Reapply
  <2>2. pc \in {"bootReapply", "userReapply"} /\ UNCHANGED <<report, rules, deny, ks>>
    BY <1>3, Zenon DEF Reapply
  <2> QED BY <1>0, <2>1, <2>2, JumpKeeps, StepNames
       DEF BootInv, ApplySteps, BootSteps, BootOnly, Unsettled
<1>4. CASE RevertNetwork
  <2>1. pc = "netRevert" /\ Go("netRestore") /\ UNCHANGED <<report, rules, deny>>
    BY <1>4, Zenon DEF RevertNetwork
  <2> QED BY <1>0, <2>1, StepNames
     DEF Staged, Placed, BootInv, BootOpensNothing, HonestInv, Go, ApplySteps, BootSteps, BootOnly, Unsettled
<1>5. CASE BootUnguarded
  BY <1>0, <1>5, StepNames
     DEF BootUnguarded, Staged, Placed, BootInv, BootOpensNothing, HonestInv, Go, Dropping,
         ApplySteps, BootSteps, BootOnly, Unsettled
<1>6. CASE EmergencyDeny
  <2>1. /\ pc = "bootDeny" /\ UNCHANGED <<report, rules, ks>>
        /\ \/ pc' = "bootProvision" /\ deny' /\ UNCHANGED phase
           \/ pc' = "idle" /\ phase' = "unguarded"
    BY <1>6, Zenon DEF EmergencyDeny, Go
  <2> QED BY <1>0, <2>1, StepNames
     DEF Staged, Placed, BootInv, BootOpensNothing, HonestInv, ApplySteps, BootSteps, BootOnly, Unsettled
<1> QED BY <1>1, <1>2, <1>3, <1>4, <1>5, <1>6

\* Requests arriving, boot starting, the child coming and going, and the process or host
\* going down.
LEMMA OtherStepKeeps ==
    ASSUME IInv, Request \/ BootPanel \/ Watchdog \/ Environment
    PROVE  Staged'
<1> USE DEF store, disk, host, switch, memory, locals
<1>0. Placed /\ BootInv /\ HonestInv
  BY TypeParts DEF IInv
<1>1. CASE BeginApply \/ XrayStart \/ XrayStop \/ Disconnect \/ Rollback \/ PutKillSwitch
  <2>1. /\ UNCHANGED <<phase, report, rules, deny>> /\ phase \in {"serving", "unguarded"}
        /\ \/ pc' = "write" /\ target' # None /\ UNCHANGED ks
           \/ pc' \in {"userReapply", "userStop", "disconnect", "backReload", "leaveStop"} /\ UNCHANGED ks
           \/ pc' \in {"netProvision", "netRevert"}
    BY <1>1 DEF BeginApply, XrayStart, XrayStop, Disconnect, Rollback, PutKillSwitch, Free, Serving, Go
  <2>2. pc = "idle"
    BY <1>1, Zenon DEF BeginApply, XrayStart, XrayStop, Disconnect, Rollback, PutKillSwitch, Free
  <2> QED BY <1>0, <2>1, <2>2, StepNames
     DEF Staged, Placed, BootInv, BootOpensNothing, HonestInv, Dropping, ApplySteps, BootSteps, BootOnly, Unsettled
<1>2. CASE BootPanel
  BY <1>0, <1>2, StepNames
     DEF BootPanel, Staged, Placed, BootInv, BootOpensNothing, HonestInv, Dropping,
         ApplySteps, BootSteps, BootOnly, Unsettled
<1>3. CASE Watchdog \/ XrayDies \/ DeleteNode \/ \E n \in Node : AskApply(n) \/ AskDelete(n)
  <2>1. UNCHANGED <<pending, target, report, rules, deny, ks, pc, phase>>
    BY <1>3, Zenon DEF Watchdog, XrayDies, DeleteNode, AskApply, AskDelete
  <2> QED BY <1>0, <2>1 DEF Staged, Placed, BootInv, BootOpensNothing, HonestInv, Dropping
<1>4. CASE Crash \/ Reboot
  <2>1. pc' = "idle" /\ phase' = "down" /\ report' = "unknown"
    BY <1>4, Zenon DEF Crash, Reboot, Vanish
  <2> QED BY <2>1, StepNames
     DEF Staged, Placed, BootInv, BootOpensNothing, HonestInv, ApplySteps, BootSteps, BootOnly
<1> QED BY <1>1, <1>2, <1>3, <1>4 DEF Request, Environment

\* The invariant is inductive.
LEMMA Inductive == IInv /\ [Next]_vars => IInv'
<1> SUFFICES ASSUME IInv, [Next]_vars PROVE IInv'
  OBVIOUS
<1>1. CASE Next
  <2>1. Names' /\ Flags'
    BY <1>1, NamesStep, FlagsStep, TypeParts, Zenon DEF IInv
  <2>2. Staged'
    BY <1>1, FlowStepKeeps, WriteStepKeeps, OtherStepKeeps, Zenon DEF Next, LockedStep
  <2>3. Names' /\ Flags' /\ Placed' => TypeOK'
    BY Zenon DEF TypeOK, Names, Flags, Flag, Placed
  <2> QED BY <2>1, <2>2, <2>3, Zenon DEF IInv, Staged
<1>2. CASE UNCHANGED vars
  BY <1>2 DEF IInv, vars, store, disk, child, host, switch, memory, locals, requests, history,
     TypeOK, BootInv, BootOpensNothing, HonestInv, Dropping
<1> QED BY <1>1, <1>2

-----------------------------------------------------------------------------
\* The state has its declared shape at every step of every operation, and an apply that
\* has touched the runtime has its intent on record.
THEOREM TypeCorrect == Spec => []TypeOK
<1>1. IInv => TypeOK
  BY DEF IInv
<1> QED BY <1>1, Initially, Inductive, PTL DEF Spec

\* Boot never runs past its guard with the kill switch on and nothing holding the path.
THEOREM BootIsClosed == Spec => []BootOpensNothing
<1>1. IInv => BootOpensNothing
  BY DEF IInv, BootInv
<1> QED BY <1>1, Initially, Inductive, PTL DEF Spec

\* The enforcement snapshot is honest whenever the lock is free.
THEOREM ReportsAreHonest == Spec => []ReportIsHonest
<1>1. IInv => ReportIsHonest
  BY StepNames DEF IInv, HonestInv, ReportIsHonest
<1> QED BY <1>1, Initially, Inductive, PTL DEF Spec

-----------------------------------------------------------------------------
(* The ratchet                                                             *)

\* One enforcement call does not open a held path.
LEMMA EnforcementHolds ==
    ASSUME NEW flow, Enforced(flow), TypeOK, ks, Held
    PROVE  Held'
BY DEF Enforced, Held, Dropping, TypeOK

\* No step opens a held path: the action property, one action at a time.
LEMMA HeldStep ==
    ASSUME IInv, Next, ks, pc \notin NetSteps, phase # "unguarded", Held
    PROVE  Held'
<1> USE DEF IInv
<1>1. CASE ApplyNet \/ StopNet \/ SyncNet
  BY <1>1, EnforcementEnforces, EnforcementHolds DEF ApplyNet, StopNet, SyncNet
<1>2. CASE HostProvision
  <2>1. pc = "bootProvision"
    BY <1>2, FlowDomains DEF HostProvision, NetSteps
  <2>2. Dropping \/ deny
    BY <2>1 DEF BootInv, BootOpensNothing, BootOnly
  <2> QED BY <1>2, <2>2 DEF HostProvision, Held, Dropping
<1>3. CASE EmergencyDeny
  BY <1>3, Zenon DEF EmergencyDeny, Held, Dropping, TypeOK
<1>4. CASE Reboot
  BY <1>4 DEF Reboot, Held
<1>5. CASE UNCHANGED host
  BY <1>5 DEF host, Held, Dropping
<1>6. CASE BootUnguarded
  BY <1>6 DEF BootUnguarded
<1> QED
  BY <1>1, <1>2, <1>3, <1>4, <1>5, <1>6, Zenon DEF Next, LockedStep, Request, Environment, host,
     Reload, StopXray, StartXray, WriteConfig, MarkPending, UndoConfig, ClearPending, Commit,
     Reapply, Disconnected, RolledBack, RevertNetwork, CommitNetwork, AskApply, AskDelete,
     BeginApply, XrayStart, XrayStop, Disconnect, Rollback, PutKillSwitch, DeleteNode,
     BootPanel, Watchdog, XrayDies, Crash

\* With the kill switch on and settled, nothing the panel does opens a held forward path.
THEOREM HeldPathStaysHeld == Spec => HeldStaysHeld
<1>1. IInv /\ [Next]_vars =>
        [ks /\ ksKept /\ ks' /\ ksKept' /\ pc \notin NetSteps /\ phase # "unguarded" /\ Held
         => Held']_vars
  BY HeldStep
<1> QED BY <1>1, Initially, Inductive, PTL DEF Spec, HeldStaysHeld

-----------------------------------------------------------------------------
(* An interrupted switch                                                   *)

\* From the crash to the end of the next boot, a node that was crossed to is still the one
\* the intent marker names, and the one boot's own apply is for.
CrossInv ==
    phase \in {"down", "boot"} /\ crossed \in nodes =>
        /\ pending = crossed
        /\ pc \in ApplySteps => target = crossed

\* A step that leaves the marker, the target and the history alone and does not enter boot
\* or apply_node from outside keeps it, with rows perhaps deleted.
LEMMA CrossUntouched ==
    ASSUME CrossInv, UNCHANGED <<pending, target, crossed>>, nodes' \subseteq nodes,
           phase' \in {phase, "serving", "unguarded"} \/ (phase = "down" /\ phase' = "boot"),
           pc' \in ApplySteps => pc \in ApplySteps
    PROVE  CrossInv'
BY DEF CrossInv, ApplySteps

\* Every step keeps it: Vanish marks a node only where the marker already names it, and the
\* steps that clear the marker or choose another target end boot or belong to no boot.
LEMMA CrossStep ==
    ASSUME IInv, CrossInv, Next
    PROVE  CrossInv'
<1> USE DEF IInv
<1>0. \A l : Go(l) => pc' = l /\ phase' \in {phase, "serving"} /\ (l = "idle" => phase' # "boot")
  BY DEF Go
<1>1. ASSUME NEW l, Leads(pc, l), Go(l), UNCHANGED <<store, locals, history>> PROVE CrossInv'
  BY <1>0, <1>1, CrossUntouched DEF Leads, store, locals, history
<1>2. CASE ApplyNet \/ StopNet \/ SyncNet
  <2>1. \E l : Leads(pc, l) /\ Go(l)
    BY <1>2, FlowsLead, EnforcementEnforces, Zenon DEF ApplyNet, StopNet, SyncNet, Enforced
  <2> QED BY <1>1, <1>2, <2>1, Zenon DEF ApplyNet, StopNet, SyncNet
<1>3. CASE Reload \/ StopXray
  <2>1. \E l : Leads(pc, l) /\ Go(l)
    BY <1>3, FlowsLead, Zenon DEF Reload, StopXray
  <2> QED BY <1>1, <1>3, <2>1, Zenon DEF Reload, StopXray
<1>4. CASE HostProvision
  <2>1. \E l : Leads(pc, l) /\ Go(l)
    BY <1>4, FlowsLead DEF HostProvision
  <2> QED BY <1>1, <1>4, <2>1, Zenon DEF HostProvision
<1> USE DEF store, locals, history
<1>5. CASE StartXray \/ CommitNetwork \/ Disconnected \/ RolledBack
  <2>1. (Go("idle") \/ Go("netRevert")) /\ UNCHANGED <<nodes, pending, target, crossed>>
    BY <1>5, Zenon DEF StartXray, CommitNetwork, Disconnected, RolledBack
  <2> QED BY <2>1, <1>0, CrossUntouched DEF ApplySteps
<1>6. CASE ClearPending \/ Commit
  <2>1. Go("idle")
    BY <1>6, Zenon DEF ClearPending, Commit
  <2>2. phase # "down"
    BY <1>6 DEF ClearPending, Commit, TypeOK
  <2>3. phase' \notin {"down", "boot"}
    BY <2>1, <2>2, <1>0 DEF TypeOK
  <2> QED BY <2>3 DEF CrossInv
<1>7. CASE WriteConfig
  BY <1>7, <1>0, CrossUntouched DEF WriteConfig, ApplySteps
<1>8. CASE MarkPending
  BY <1>8, <1>0 DEF MarkPending, ApplySteps, CrossInv, TypeOK
<1>9. CASE UndoConfig
  <2>1. \E l \in {"restore", "stop"} : Go(l)
    BY <1>9, Zenon DEF UndoConfig
  <2> QED BY <1>9, <2>1, <1>0, CrossUntouched DEF UndoConfig, ApplySteps
<1>10. CASE Reapply
  <2>1. CASE phase \in {"down", "boot"} /\ crossed \in nodes
    <3>1. phase = "boot" /\ pending = crossed /\ PendingOrActive = crossed /\ crossed # None
      BY <1>10, <2>1, GatewayAssumption DEF Reapply, CrossInv, PendingOrActive, TypeOK
    <3>2. target' = crossed /\ pending' = crossed
      BY <1>10, <2>1, <3>1, StepNames DEF Reapply, LivePending, BootInv
    <3> QED BY <1>10, <3>2 DEF Reapply, CrossInv
  <2>2. CASE crossed \notin nodes
    BY <1>10, <2>2 DEF Reapply, CrossInv
  <2>3. CASE phase \notin {"down", "boot"}
    BY <1>10, <2>3, <1>0 DEF Reapply, CrossInv, Go
  <2> QED BY <2>1, <2>2, <2>3
<1>11. CASE RevertNetwork
  BY <1>11, <1>0, CrossUntouched DEF RevertNetwork, ApplySteps
<1>12. CASE BootUnguarded
  BY <1>12, <1>0, CrossUntouched DEF BootUnguarded, ApplySteps
<1>13. CASE EmergencyDeny
  <2>1. pc' \in {"bootProvision", "idle"} /\ phase' \in {phase, "serving", "unguarded"}
    BY <1>13, <1>0, Zenon DEF EmergencyDeny
  <2> QED BY <1>13, <2>1, CrossUntouched DEF EmergencyDeny, ApplySteps
<1>14. CASE BeginApply \/ XrayStart \/ XrayStop \/ Disconnect \/ Rollback \/ PutKillSwitch
  <2>1. Free /\ \E l \in Steps : Go(l)
    BY <1>14, StepNames, Zenon
       DEF BeginApply, XrayStart, XrayStop, Disconnect, Rollback, PutKillSwitch, ApplySteps
  <2>2. phase' \notin {"down", "boot"}
    BY <2>1, <1>0 DEF Free, Serving
  <2> QED BY <2>2 DEF CrossInv
<1>15. CASE DeleteNode
  BY <1>15, CrossUntouched DEF DeleteNode
<1>16. CASE BootPanel
  BY <1>16, CrossUntouched DEF BootPanel, ApplySteps
<1>17. CASE Watchdog \/ XrayDies
  BY <1>17, CrossUntouched, Zenon DEF Watchdog, XrayDies
<1>18. CASE \E n \in Node : AskApply(n) \/ AskDelete(n)
  <2>1. UNCHANGED <<store, locals, history, phase, pc>>
    BY <1>18, Zenon DEF AskApply, AskDelete
  <2> QED BY <2>1, CrossUntouched
<1>19. CASE Crash \/ Reboot
  <2>1. Vanish
    BY <1>19, Zenon DEF Crash, Reboot
  <2>2. CASE pc \in {"net", "commit"}
    BY <2>1, <2>2 DEF Vanish, CrossInv, TypeOK, ApplySteps
  <2>3. CASE pc \notin {"net", "commit"} /\ phase = "boot"
    BY <2>1, <2>3 DEF Vanish, CrossInv, ApplySteps
  <2>4. CASE pc \notin {"net", "commit"} /\ phase # "boot"
    BY <2>1, <2>4, GatewayAssumption DEF Vanish, CrossInv, TypeOK
  <2> QED BY <2>2, <2>3, <2>4
<1> QED
  BY <1>2, <1>3, <1>4, <1>5, <1>6, <1>7, <1>8, <1>9, <1>10, <1>11, <1>12, <1>13, <1>14,
     <1>15, <1>16, <1>17, <1>18, <1>19, Zenon DEF Next, LockedStep, Request, Environment

\* Boot completes the switch that was interrupted after its xray had come up, however often
\* it dies on the way, for any set of nodes and any failures.
THEOREM InterruptedSwitchCompletes == Spec => []SwitchSurvivesCrash
<1>1. Init => CrossInv
  BY GatewayAssumption DEF Init, CrossInv
<1>2. IInv /\ CrossInv /\ [Next]_vars => CrossInv'
  <2>1. CrossInv /\ UNCHANGED vars => CrossInv'
    BY DEF vars, store, locals, history, CrossInv
  <2> QED BY <2>1, CrossStep
<1>3. CrossInv => SwitchSurvivesCrash
  BY DEF CrossInv, SwitchSurvivesCrash, ApplySteps
<1> QED BY <1>1, <1>2, <1>3, Initially, Inductive, PTL DEF Spec

-----------------------------------------------------------------------------
(* The tunnel is the selected node's, or the unfinished switch's           *)

\* A confirmed apply sends segment traffic into xray.
Opened == report = "open" /\ Proxying

\* The new config is on disk; POST /rollback is working with the promoted one.
Writing == {"pend", "reload", "net", "undo", "commit"}
BackSteps == {"backReload", "backNet", "backCommit", "leaveStop", "leaveGuard"}

\* apply_node's recovery, from the config rollback to its end.
Undoing == {"restore", "restoreNet", "stop", "guard", "clear"}

\* reapply_active_node has found the selected row gone and has not taken the rules down yet.
Dropped == {"bootStale", "staleGuard"}

\* Somebody relies on the config and the child: a node is selected, or a tunnel is open.
Relied == active # None \/ Opened

\* What is on disk, where nothing strayed: the active node's config once a switch has been
\* undone, and otherwise that node's or the one of the switch on record.
DiskInv ==
    /\ pc \in Writing \ {"undo"} => live = target
    /\ pc \in BackSteps => stray
    /\ pc \in Writing /\ restorable => active # None
    /\ pc \in {"restore", "restoreNet"} => active # None
    /\ ~stray /\ active # None /\ pc \in Undoing => live = active
    /\ ~stray /\ Relied /\ pc \notin Writing \cup Undoing \cup Dropped => live \in {active, pending}

\* Which enforcement calls can have opened the tunnel: no recovery with nothing selected before
\* it, no disconnect, and none of PUT /network's in a run that never changes the kill switch.
\* A selection whose row is gone is dropped at once.
SelectInv ==
    /\ pc = "clear" /\ Opened => active # None
    /\ pc = "disconnected" => ~Opened
    /\ pc \in Dropped => active = None
    /\ pc \in NetSteps => "toggle" \in Faults

\* The steps at which the child may run a config that is neither the active node's nor on record.
Switching == {"reload", "net", "commit", "undo", "restore", "restoreNet", "stop", "guard", "clear"}

\* What the child has read.  A child that can outlive its stop is vouched for only behind a
\* confirmed apply.
Vouched == ~stray /\ Relied /\ up /\ ("stuck" \in Faults => Opened)

ChildInv ==
    /\ pc \in {"net", "commit"} /\ up => loaded = target
    /\ pc = "restoreNet" /\ up => loaded = live
    /\ pc = "clear" /\ Vouched /\ active # None => loaded = active
    /\ Vouched /\ pc \notin Switching \cup Dropped => loaded \in {active, pending}
    /\ pc = "guard" /\ up => "stuck" \in Faults
    /\ phase = "down" \/ pc \in BootOnly => ~up

\* A stop or an enforcement call outside apply_node's switch leads outside it, and enters
\* POST /rollback, PUT /network and boot only from within them.
Aside(l, m) ==
    /\ l \notin Writing \cup {"restore", "restoreNet", "clear"}
    /\ m \notin Writing \cup {"restore", "restoreNet", "stop"} \cup Dropped
    /\ m \in Undoing => l \in Undoing
    /\ m = "clear" <=> l = "guard"
    /\ m \in BackSteps => l \in BackSteps
    /\ m \in NetSteps => l \in NetSteps
    /\ m \in BootOnly => l \in BootOnly
    /\ m = "guard" <=> l = "stop"

\* The same for a sync, which belongs to PUT /network or to boot.
Syncs(l, m) ==
    /\ Aside(l, m) /\ m # "disconnected"
    /\ l \in (NetSteps \cup BootOnly) \ (Switching \cup Dropped)

\* Where apply_node and POST /rollback go from a reload and from an apply_net.
LEMMA SwitchFlows ==
    /\ ReloadFlow["reload"][1] = "net" /\ ReloadFlow["reload"][2] = "undo"
    /\ ReloadFlow["restore"][1] = "restoreNet" /\ ReloadFlow["restore"][2] = "stop"
    /\ ReloadFlow["backReload"][1] = "backNet" /\ ReloadFlow["backReload"][2] = "backStop"
    /\ ApplyFlow["net"][1] = "commit" /\ ApplyFlow["net"][2] = "undo"
    /\ ApplyFlow["restoreNet"][1] = "clear" /\ ApplyFlow["restoreNet"][2] = "stop"
    /\ ApplyFlow["backNet"][1] = "backCommit" /\ ApplyFlow["backNet"][2] = "backStop"
BY DEF ReloadFlow, ApplyFlow

\* Where a stop leads, as far as these facts tell steps apart.
LEMMA StopFlows ==
    \A l \in DOMAIN StopFlow : \A m \in {StopFlow[l][1], StopFlow[l][2]} :
        Aside(l, m) /\ m # "disconnected" /\ l # "guard"
BY FlowDomains DEF StopFlow, Aside, Writing, Undoing, Dropped, BackSteps, NetSteps, BootOnly

\* Where a stop_net leads.
LEMMA GuardFlows ==
    \A l \in DOMAIN GuardFlow : \A m \in {GuardFlow[l][1], GuardFlow[l][2]} :
        Aside(l, m) /\ l # "stop"
BY FlowDomains DEF GuardFlow, Aside, Writing, Undoing, Dropped, BackSteps, NetSteps, BootOnly

\* Where a sync leads.
LEMMA SyncFlows ==
    \A l \in DOMAIN SyncFlow : \A m \in {SyncFlow[l][1], SyncFlow[l][2]} : Syncs(l, m)
BY FlowDomains DEF SyncFlow, Aside, Syncs, Writing, Undoing, Dropped, BackSteps, NetSteps,
   BootOnly, Switching

\* Where the provisioning of the host leads.
LEMMA ProvisionFlows ==
    \A l \in DOMAIN ProvisionFlow : \A m \in ProvisionFlow[l] \cup HandBackFlow[l] : Syncs(l, m)
BY FlowDomains DEF ProvisionFlow, HandBackFlow, Aside, Syncs, Writing, Undoing, Dropped, BackSteps,
   NetSteps, BootOnly, Switching

TunnelInv == DiskInv /\ SelectInv /\ ChildInv

\* A step that leaves the selection, the disk, the child and the rules alone, and moves
\* nowhere these facts tell apart.
Quiet ==
    /\ UNCHANGED <<active, pending, live, stray, up, loaded, report, rules>>
    /\ \/ UNCHANGED <<target, restorable, pc, phase>>
       \/ /\ pc \notin Writing \cup Switching \cup Dropped
          /\ pc' \notin Writing \cup Switching \cup BackSteps \cup Dropped \cup {"disconnected"}
          /\ pc' \in NetSteps => pc \in NetSteps \/ "toggle" \in Faults
          /\ phase' = "down" \/ pc' \in BootOnly => phase = "down" \/ pc \in BootOnly

\* Such a step keeps all three facts.
LEMMA QuietKeeps ==
    ASSUME TunnelInv, Quiet
    PROVE  TunnelInv'
<1>1. /\ Opened' <=> Opened
      /\ {"net", "commit", "restore", "restoreNet", "guard", "clear"} \cup Undoing \subseteq Switching
  BY DEF Quiet, Opened, Proxying, Switching, Undoing
<1>2. Relied' <=> Relied
  BY <1>1 DEF Quiet, Relied
<1>3. DiskInv'
  BY <1>1, <1>2 DEF Quiet, TunnelInv, DiskInv
<1>4. SelectInv'
  BY <1>1, Zenon DEF Quiet, TunnelInv, SelectInv
<1>5. ChildInv'
  BY <1>1, <1>2, Zenon DEF Quiet, TunnelInv, ChildInv, Vouched
<1> QED BY <1>3, <1>4, <1>5 DEF TunnelInv

\* What the steps' names and a jump to the next one say, for all the lemmas below.
LEMMA Jumps ==
    ASSUME IInv
    PROVE  /\ \A l : Go(l) => pc' = l /\ (pc # "idle" => phase' # "down")
           /\ "idle" \notin Writing \cup Switching \cup BackSteps \cup Dropped \cup NetSteps \cup BootOnly
           /\ UNCHANGED <<report, rules>> => (Opened' <=> Opened)
BY DEF Go, IInv, TypeOK, Opened, Proxying, Writing, Switching, BackSteps, Dropped, NetSteps, BootOnly

\* The requests, the bookkeeping of PUT /network and of boot, and the rows that come and go.
LEMMA QuietSteps ==
    ASSUME IInv,
           \/ HostProvision \/ CommitNetwork \/ RevertNetwork \/ BootUnguarded
           \/ EmergencyDeny \/ BeginApply \/ XrayStart \/ XrayStop \/ Disconnect \/ PutKillSwitch
           \/ BootPanel \/ DeleteNode \/ \E n \in Node : AskApply(n) \/ AskDelete(n)
    PROVE  Quiet
<1> USE DEF store, disk, child, host, switch, memory, locals, requests, history
<1>1. CASE HostProvision
  <2>1. Syncs(pc, pc') /\ phase' # "down"
    <3>1. PICK l \in ProvisionFlow[pc] \cup HandBackFlow[pc] : Go(l)
      BY <1>1 DEF HostProvision
    <3>2. pc \in DOMAIN ProvisionFlow /\ pc # "idle"
      BY <1>1, FlowDomains DEF HostProvision
    <3> QED BY <3>1, <3>2, Jumps, ProvisionFlows, Zenon
  <2>2. pc \notin Writing \cup Switching \cup Dropped
    BY <2>1, Zenon DEF Syncs, Aside
  <2>3. pc' \notin Writing \cup Switching \cup BackSteps \cup Dropped \cup {"disconnected"}
    BY <2>1 DEF Syncs, Aside, Writing, Switching, NetSteps, BootOnly, BackSteps
  <2> QED BY <1>1, <2>1, <2>2, <2>3, Zenon DEF HostProvision, Quiet, Syncs, Aside
<1>2. CASE CommitNetwork \/ RevertNetwork \/ BootUnguarded \/ EmergencyDeny
  <2>1. /\ UNCHANGED <<active, pending, live, stray, up, loaded, report, rules>>
        /\ pc \in {"netCommit", "netRevert", "bootGuard", "bootDeny"}
        /\ phase' = "down" => phase = "down"
        /\ \/ pc' = "idle"
           \/ pc' \in {"netRevert", "netRestore"} /\ pc \in {"netCommit", "netRevert"}
           \/ pc' = "bootProvision" /\ pc \in {"bootGuard", "bootDeny"}
    BY <1>2, Zenon DEF CommitNetwork, RevertNetwork, BootUnguarded, EmergencyDeny, Go
  <2> QED BY <2>1 DEF Quiet, Writing, Switching, BackSteps, Dropped, NetSteps, BootOnly
<1>3. CASE BeginApply \/ XrayStart \/ XrayStop \/ Disconnect \/ PutKillSwitch \/ BootPanel
  <2>1. /\ UNCHANGED <<active, pending, live, stray, up, loaded, report, rules>>
        /\ pc = "idle"
        /\ \/ pc' \in {"write", "userReapply", "userStop", "disconnect"}
           \/ pc' \in {"netProvision", "netRevert"} /\ "toggle" \in Faults
           \/ pc' = "bootGuard" /\ phase = "down"
    BY <1>3, Zenon DEF BeginApply, XrayStart, XrayStop, Disconnect, PutKillSwitch, BootPanel,
       Go, Free, OnlyIf, IInv, TypeOK
  <2>2. phase' = "down" => phase = "down"
    BY <1>3, Zenon DEF BeginApply, XrayStart, XrayStop, Disconnect, PutKillSwitch, BootPanel, Go
  <2> QED BY <2>1, <2>2 DEF Quiet, Writing, Switching, BackSteps, Dropped, NetSteps, BootOnly
<1>4. CASE DeleteNode \/ \E n \in Node : AskApply(n) \/ AskDelete(n)
  BY <1>4, Zenon DEF DeleteNode, AskApply, AskDelete, Quiet
<1> QED BY <1>1, <1>2, <1>3, <1>4

\* What an enforcement call says: only a confirmed apply_tproxy opens the tunnel, and it
\* goes on where a success goes; stop_net opens none.
LEMMA EnforcementOpens ==
    ASSUME NEW flow, IInv, pc # "idle", EnforceStop(flow) \/ EnforceTproxy(flow)
    PROVE  /\ pc' \in {flow[1], flow[2]} /\ phase' # "down"
           /\ EnforceStop(flow) => ~Opened'
           /\ Opened' => pc' = flow[1]
<1>1. Opened' => report' = "open" /\ rules' \in {"tproxyDrop", "tproxy"}
  BY DEF Opened, Proxying
<1>2. Down(ks) \notin {"tproxyDrop", "tproxy"}
  BY DEF Down
<1> QED
  BY <1>1, <1>2, Jumps, Zenon DEF EnforceStop, EnforceTproxy, Confirmed, Failed

\* apply_net: the new node's, the previous one's again, or POST /rollback's.
LEMMA TunnelApplyNet ==
    ASSUME IInv, TunnelInv, ApplyNet
    PROVE  TunnelInv'
<1>1. /\ pc' \in {ApplyFlow[pc][1], ApplyFlow[pc][2]} /\ phase' # "down"
      /\ Opened' => pc' = ApplyFlow[pc][1]
      /\ UNCHANGED <<active, pending, live, stray, up, loaded, target, restorable>>
  BY FlowDomains, EnforcementOpens DEF ApplyNet, store, disk, child, locals, history
<1>2. CASE pc = "net"
  BY <1>1, <1>2, SwitchFlows
     DEF TunnelInv, DiskInv, SelectInv, ChildInv, Writing, Undoing, Dropped, Switching, BackSteps,
         NetSteps, BootOnly
<1>3. CASE pc = "restoreNet"
  <2>1. /\ pc' \in {"clear", "stop"} /\ active' # None /\ (~stray' => live' = active')
        /\ up' => loaded' = live'
    BY <1>1, <1>3, SwitchFlows DEF TunnelInv, DiskInv, ChildInv, Undoing
  <2> QED BY <1>1, <1>3, <2>1, Zenon
     DEF TunnelInv, DiskInv, SelectInv, ChildInv, Vouched, Writing, Undoing, Dropped, Switching,
         BackSteps, NetSteps, BootOnly
<1>4. CASE pc = "backNet"
  <2>1. pc' \in {"backCommit", "backStop"} /\ stray'
    BY <1>1, <1>4, SwitchFlows DEF TunnelInv, DiskInv, BackSteps
  <2> QED BY <2>1, <1>1
     DEF TunnelInv, DiskInv, SelectInv, ChildInv, Vouched, Writing, Dropped, NetSteps, BootOnly
<1> QED BY <1>2, <1>3, <1>4, FlowDomains DEF ApplyNet

\* supervisor.reload(): a child that came up has read the config on disk.
LEMMA TunnelReload ==
    ASSUME IInv, TunnelInv, Reload
    PROVE  TunnelInv'
<1>1. /\ pc' \in {ReloadFlow[pc][1], ReloadFlow[pc][2]} /\ phase' # "down"
      /\ pc' = ReloadFlow[pc][2] \/ loaded' = live
      /\ UNCHANGED <<active, pending, live, stray, target, restorable>> /\ (Opened' <=> Opened)
  BY FlowDomains, Jumps, Zenon DEF Reload, ChildUp, store, disk, host, memory, locals, history
<1>2. CASE pc = "reload"
  BY <1>1, <1>2, SwitchFlows
     DEF TunnelInv, DiskInv, SelectInv, ChildInv, Writing, Undoing, Dropped, Switching, BackSteps,
         NetSteps, BootOnly
<1>3. CASE pc = "restore"
  <2>1. /\ pc' = "stop" \/ (pc' = "restoreNet" /\ loaded' = live')
        /\ active' # None /\ (~stray' => live' = active')
    BY <1>1, <1>3, SwitchFlows DEF TunnelInv, DiskInv, Undoing
  <2> QED BY <1>1, <1>3, <2>1, Zenon
     DEF TunnelInv, DiskInv, SelectInv, ChildInv, Writing, Undoing, Dropped, Switching, BackSteps,
         NetSteps, BootOnly
<1>4. CASE pc = "backReload"
  <2>1. pc' \in {"backNet", "backStop"} /\ stray'
    BY <1>1, <1>4, SwitchFlows DEF TunnelInv, DiskInv, BackSteps
  <2> QED BY <2>1, <1>1
     DEF TunnelInv, DiskInv, SelectInv, ChildInv, Vouched, Writing, Dropped, NetSteps, BootOnly
<1> QED BY <1>2, <1>3, <1>4, FlowDomains DEF Reload

\* Outside a switch, a step that leaves the selection and the disk alone keeps DiskInv, when
\* nobody comes to rely on them by it.
LEMMA DiskAside ==
    ASSUME DiskInv, UNCHANGED <<active, pending, live, stray>>, Aside(pc, pc'),
           Relied' => Relied /\ pc \notin Dropped, pc \in Undoing => pc' \in Undoing
    PROVE  DiskInv'
<1>1. {"restore", "restoreNet"} \subseteq Undoing
  BY DEF Undoing
<1> QED BY <1>1, Zenon DEF DiskInv, Aside

\* stop_net: no tunnel is open behind it.
LEMMA TunnelStopNet ==
    ASSUME IInv, TunnelInv, StopNet
    PROVE  TunnelInv'
<1>1. pc' \in {GuardFlow[pc][1], GuardFlow[pc][2]} /\ phase' # "down" /\ ~Opened'
  BY FlowDomains, EnforcementOpens DEF StopNet
<1>2. Aside(pc, pc') /\ pc # "stop" /\ UNCHANGED <<active, pending, live, stray, up, loaded>>
  BY <1>1, GuardFlows, Zenon DEF StopNet, store, disk, child, history
<1>3. Relied' => Relied /\ pc \notin Dropped
  BY <1>1, <1>2 DEF Relied, TunnelInv, SelectInv
<1>4. pc \in Undoing => pc = "guard" /\ pc' \in Undoing
  BY <1>2 DEF Undoing, Aside
<1>5. DiskInv' /\ SelectInv'
  BY <1>1, <1>2, <1>3, <1>4, DiskAside, Zenon DEF TunnelInv, SelectInv, Aside
<1>6. (pc' \in Switching => pc' = "clear" /\ pc = "guard") /\ (pc \in Switching => pc = "guard")
  BY <1>2 DEF Aside, Writing, Switching
<1>7. Vouched' => Vouched /\ "stuck" \notin Faults
  BY <1>1, <1>2, <1>3, Zenon DEF Vouched
<1>8. pc = "guard" => pc' = "clear" /\ pc' \notin BootOnly /\ ~Vouched'
  BY <1>2, <1>7 DEF Aside, BootOnly, TunnelInv, ChildInv, Vouched
<1>9. ChildInv'
  BY <1>1, <1>2, <1>3, <1>6, <1>7, <1>8, Zenon DEF TunnelInv, ChildInv, Aside, Vouched, Switching
<1> QED BY <1>5, <1>9 DEF TunnelInv

\* sync_net: PUT /network's, or boot's with no child yet.
LEMMA TunnelSyncNet ==
    ASSUME ~({"stuck", "toggle"} \subseteq Faults), IInv, TunnelInv, SyncNet
    PROVE  TunnelInv'
<1>1. /\ pc' \in {SyncFlow[pc][1], SyncFlow[pc][2]} /\ phase' # "down"
      /\ Opened' => active # None
  BY FlowDomains, EnforcementOpens DEF SyncNet
<1>2. Syncs(pc, pc') /\ UNCHANGED <<active, pending, live, stray, up, loaded>>
  BY <1>1, SyncFlows, Zenon DEF SyncNet, store, disk, child, history
<1>3. pc \notin Switching \cup Undoing \cup Dropped
  BY <1>2 DEF Syncs, Switching, Undoing
<1>4. Relied' => Relied
  BY <1>1, <1>2 DEF Relied
<1>5. DiskInv' /\ SelectInv'
  BY <1>1, <1>2, <1>3, <1>4, DiskAside, Zenon DEF TunnelInv, SelectInv, Syncs, Aside
<1>6. pc' \notin {"net", "commit", "guard", "restoreNet", "clear"}
  BY <1>2, <1>3 DEF Syncs, Aside, Writing, Switching
<1>7. up => "stuck" \notin Faults
  BY <1>2 DEF Syncs, TunnelInv, SelectInv, ChildInv
<1>8. Vouched' => Vouched
  BY <1>2, <1>4, <1>7, Zenon DEF Vouched
<1>9. ChildInv'
  BY <1>1, <1>2, <1>3, <1>6, <1>8, Zenon DEF TunnelInv, ChildInv, Syncs, Aside
<1> QED BY <1>5, <1>9 DEF TunnelInv

\* supervisor.stop(): the child is gone, or it is one that can outlive its stop.
LEMMA TunnelStopXray ==
    ASSUME IInv, TunnelInv, StopXray
    PROVE  TunnelInv'
<1>1. /\ pc' \in {StopFlow[pc][1], StopFlow[pc][2]} /\ phase' # "down" /\ pc \notin BootOnly
      /\ ~up' \/ ("stuck" \in Faults /\ UNCHANGED <<up, loaded>>)
  BY FlowDomains, Jumps DEF StopXray, ChildDown, OnlyIf, BootOnly
<1>2. /\ Aside(pc, pc') /\ pc' # "disconnected" /\ pc # "guard"
      /\ UNCHANGED <<active, pending, live, stray>> /\ (Opened' <=> Opened)
  BY <1>1, StopFlows, Jumps, Zenon DEF StopXray, store, disk, host, memory, history
<1>3. (Relied' <=> Relied) /\ pc \notin Dropped
  BY <1>2, FlowDomains DEF StopXray, Relied, Dropped
<1>4. pc \in Undoing => pc = "stop" /\ pc' = "guard" /\ pc' \in Undoing
  BY <1>2 DEF Undoing, Aside
<1>5. DiskInv' /\ SelectInv'
  BY <1>2, <1>3, <1>4, DiskAside, Zenon DEF TunnelInv, SelectInv, Aside
<1>6. /\ pc' \notin {"net", "commit", "restoreNet", "clear"} /\ pc \notin Switching \ {"stop"}
      /\ pc = "stop" => pc' \in Switching
  BY <1>2 DEF Aside, Writing, Switching
<1>7. ChildInv'
  BY <1>1, <1>2, <1>3, <1>6 DEF TunnelInv, ChildInv, Aside, Vouched
<1> QED BY <1>5, <1>7 DEF TunnelInv

\* POST /xray/start and the watchdog: a child spawned outside a switch reads the config on disk.
LEMMA TunnelSpawn ==
    ASSUME IInv, TunnelInv, StartXray \/ Watchdog
    PROVE  TunnelInv'
<1>1. pc \in {"start", "idle"} /\ pc' = "idle" /\ phase' # "down"
  BY Jumps DEF StartXray, Watchdog
<1>2. ~up' \/ loaded' = live \/ UNCHANGED <<up, loaded>>
  BY Zenon DEF StartXray, Watchdog, Spawn, ChildUp, ChildDown
<1>3. UNCHANGED <<active, pending, live, stray>> /\ (Opened' <=> Opened)
  BY Jumps, Zenon DEF StartXray, Watchdog, store, disk, host, memory, history
<1> QED BY <1>1, <1>2, <1>3
   DEF TunnelInv, DiskInv, SelectInv, ChildInv, Relied, Vouched, Writing, Undoing, Dropped,
       Switching, BackSteps, NetSteps, BootOnly

\* ConfigManager.apply and the intent marker: a config whose intent could not be recorded is
\* the active node's, or has strayed.
LEMMA TunnelWrite ==
    ASSUME IInv, TunnelInv, WriteConfig \/ MarkPending
    PROVE  TunnelInv'
<1>1. /\ pc \in {"write", "pend"} /\ pc' \in {"pend", "idle", "reload"} /\ phase' # "down"
      /\ UNCHANGED <<active, up, loaded, target>> /\ (Opened' <=> Opened) /\ (~stray' => ~stray)
  <2>1. pc \in {"write", "pend"} /\ \E l \in {"pend", "idle", "reload"} : Go(l)
    BY DEF WriteConfig, MarkPending
  <2>2. UNCHANGED <<active, up, loaded, target, report, rules>>
    BY Zenon DEF WriteConfig, MarkPending, store, child, host, memory, locals
  <2>3. ~stray' => ~stray
    BY Zenon DEF WriteConfig, MarkPending, history
  <2> QED BY <2>1, <2>2, <2>3, Jumps, Zenon
<1>2. /\ restorable' => active # None
      /\ \/ pc = "write" /\ pc' = "pend" /\ live' = target /\ UNCHANGED pending
         \/ pc = "write" /\ pc' = "idle" /\ UNCHANGED <<live, pending>>
         \/ pc = "pend" /\ pc' = "reload" /\ UNCHANGED live
         \/ pc = "pend" /\ pc' = "idle" /\ UNCHANGED <<live, pending>> /\ (~stray' => live' = active')
  <2>1. CASE WriteConfig
    BY <2>1, Jumps, GatewayAssumption, Zenon DEF WriteConfig, IInv, TypeOK, disk, store
  <2>2. CASE MarkPending
    BY <2>2, Jumps, Zenon DEF MarkPending, TunnelInv, DiskInv, Writing, disk, locals
  <2> QED BY <2>1, <2>2
<1>3. (Relied' <=> Relied) /\ (Vouched' => Vouched)
  BY <1>1 DEF Relied, Vouched
<1>4. DiskInv'
  BY <1>1, <1>2, <1>3 DEF TunnelInv, DiskInv, Writing, Undoing, Dropped, BackSteps
<1>5. SelectInv' /\ ChildInv'
  BY <1>1, <1>2, <1>3 DEF TunnelInv, SelectInv, ChildInv, Dropped, Switching, NetSteps, BootOnly
<1> QED BY <1>4, <1>5 DEF TunnelInv

\* mgr.rollback(): the active node's config is back, or the disk has strayed.
LEMMA TunnelUndo ==
    ASSUME IInv, TunnelInv, UndoConfig
    PROVE  TunnelInv'
<1>1. /\ pc = "undo" /\ pc' \in {"restore", "stop"} /\ phase' # "down"
      /\ UNCHANGED active /\ (Opened' <=> Opened)
  BY Jumps DEF UndoConfig, store, host, memory
<1>2. ~stray' /\ active' # None => live' = active'
  BY <1>1, Zenon DEF UndoConfig
<1>3. pc' = "restore" => restorable
  BY Jumps DEF UndoConfig
<1>4. DiskInv'
  BY <1>1, <1>2, <1>3 DEF TunnelInv, DiskInv, Writing, Undoing, BackSteps
<1>5. SelectInv' /\ ChildInv'
  BY <1>1 DEF TunnelInv, SelectInv, ChildInv, Dropped, Switching, NetSteps, BootOnly
<1> QED BY <1>4, <1>5 DEF TunnelInv

\* The end of apply_node: the commit of a switch puts everything in step again, strayed or not;
\* one that raises leaves the node on record; and behind a recovery the active node runs, or
\* nothing is relied on.
LEMMA TunnelEnd ==
    ASSUME IInv, TunnelInv, Commit \/ ClearPending
    PROVE  TunnelInv'
<1> USE DEF TunnelInv, DiskInv, SelectInv, ChildInv, Relied, Vouched, Writing, Undoing, Dropped,
            Switching, BackSteps, NetSteps, BootOnly
<1>1. CASE Commit
  <2>1. /\ pc = "commit" /\ pc' = "idle" /\ phase' # "down" /\ UNCHANGED <<live, up, loaded>>
        /\ target # None /\ pending = target
        /\ active' = target \/ UNCHANGED pending
    BY <1>1, Jumps, Zenon DEF Commit, IInv, TypeOK, ApplySteps, disk, child
  <2> QED BY <2>1
<1>2. CASE ClearPending
  <2>1. pc = "clear" /\ pc' = "idle" /\ phase' # "down"
    BY <1>2, Jumps DEF ClearPending
  <2>2. UNCHANGED <<active, live, stray, up, loaded>> /\ (Opened' <=> Opened)
    BY <1>2, Jumps, Zenon DEF ClearPending, disk, child, host, memory, history
  <2> QED BY <2>1, <2>2
<1> QED BY <1>1, <1>2, Zenon

\* reapply_active_node: it selects nothing, may find the selection gone, and an intent it drops
\* makes the disk stray.
LEMMA TunnelReapply ==
    ASSUME IInv, TunnelInv, Reapply
    PROVE  TunnelInv'
<1>1. /\ pc \in {"bootReapply", "userReapply"} /\ phase' # "down"
      /\ pc' \in {"write", "start", "idle", "staleGuard", "bootStale"}
      /\ IF pc' \in {"staleGuard", "bootStale"} THEN active' = None ELSE UNCHANGED active
      /\ pc' = "bootStale" => pc = "bootReapply"
  BY Jumps DEF Reapply
<1>2. UNCHANGED <<live, up, loaded>> /\ (Opened' <=> Opened)
  BY Jumps, Zenon DEF Reapply, disk, child, host, memory
<1>3. ~stray' => ~stray /\ UNCHANGED pending
  BY Zenon DEF Reapply
<1> QED BY <1>1, <1>2, <1>3, Zenon
   DEF TunnelInv, DiskInv, SelectInv, ChildInv, Relied, Vouched, Writing, Undoing, Dropped,
       Switching, BackSteps, NetSteps, BootOnly

\* The selection goes only behind a confirmed stop_net, or comes from a rollback.
LEMMA TunnelLeave ==
    ASSUME IInv, TunnelInv, Disconnected \/ RolledBack \/ Rollback
    PROVE  TunnelInv'
<1>1. CASE Disconnected
  <2>1. /\ pc = "disconnected" /\ pc' = "idle" /\ phase' # "down"
        /\ active' = None \/ UNCHANGED active
    BY <1>1, Jumps DEF Disconnected
  <2>2. UNCHANGED <<pending, live, stray, up, loaded>> /\ (Opened' <=> Opened)
    BY <1>1, Jumps, Zenon DEF Disconnected, disk, child, host, memory, history
  <2> QED BY <2>1, <2>2
     DEF TunnelInv, DiskInv, SelectInv, ChildInv, Relied, Vouched, Writing, Undoing, Dropped,
         Switching, BackSteps, NetSteps, BootOnly
<1>2. CASE RolledBack \/ Rollback
  <2>1. pc' \in {"idle", "backReload", "leaveStop"} /\ phase' # "down"
    BY <1>2 DEF RolledBack, Rollback, Free, Serving, Go, IInv, TypeOK
  <2>2. stray'
    BY <1>2, Zenon DEF RolledBack, Rollback, TunnelInv, DiskInv, BackSteps, history
  <2> QED BY <2>1, <2>2
     DEF TunnelInv, DiskInv, SelectInv, ChildInv, Vouched, Writing, Dropped, NetSteps, BootOnly
<1> QED BY <1>1, <1>2

\* The child dies, alone or with the panel.
LEMMA TunnelGone ==
    ASSUME IInv, TunnelInv, XrayDies \/ Crash \/ Reboot
    PROVE  TunnelInv'
<1>1. CASE XrayDies
  <2>1. /\ UNCHANGED <<active, pending, live, stray, target, restorable, pc>>
        /\ (Opened' <=> Opened) /\ ~up'
    BY <1>1, Jumps, Zenon DEF XrayDies, ChildDown, store, disk, host, memory, locals, history
  <2> QED BY <2>1, Zenon DEF TunnelInv, DiskInv, SelectInv, ChildInv, Relied, Vouched
<1>2. CASE Crash \/ Reboot
  <2>1. Vanish
    BY <1>2, Zenon DEF Crash, Reboot
  <2>2. pc' = "idle" /\ ~up' /\ (~stray' /\ active' # None => live' \in {active', pending'})
    BY <2>1, Zenon DEF Vanish, ChildDown, store
  <2>3. ~Opened'
    BY <2>1 DEF Vanish, Opened
  <2> QED BY <2>2, <2>3
     DEF TunnelInv, DiskInv, SelectInv, ChildInv, Relied, Vouched, Writing, Undoing, Dropped,
         BackSteps, NetSteps
<1> QED BY <1>1, <1>2

\* Segment traffic goes through the node the panel says is active or through the one whose
\* switch is on record, for any set of nodes and every failure the model knows, store calls that
\* raise included, until the config on disk strays; and except that a kill-switch change after a
\* child outlived its own stop syncs the rules back to whatever config that child still runs.
THEOREM TunnelIsSelected ==
    ASSUME ~({"stuck", "toggle"} \subseteq Faults)
    PROVE  Spec => []TunnelIsTheSelectedOne
<1>1. Init => TunnelInv
  BY DEF Init, TunnelInv, DiskInv, SelectInv, ChildInv, Relied, Vouched, Opened, Writing, Undoing,
         Dropped, BackSteps, NetSteps
<1>2. IInv /\ TunnelInv /\ [Next]_vars => TunnelInv'
  <2>1. IInv /\ TunnelInv /\ Next => TunnelInv'
    BY QuietSteps, QuietKeeps, TunnelApplyNet, TunnelReload, TunnelStopNet, TunnelSyncNet,
       TunnelStopXray, TunnelSpawn, TunnelWrite, TunnelUndo, TunnelEnd, TunnelReapply,
       TunnelLeave, TunnelGone, Zenon DEF Next, LockedStep, Request, Environment
  <2>2. UNCHANGED vars => Quiet
    BY Zenon DEF vars, store, disk, child, host, memory, locals, history, Quiet
  <2> QED BY <2>1, <2>2, QuietKeeps
<1>3. TunnelInv => TunnelIsTheSelectedOne
  <2>1. pc = "idle" => pc \notin Switching \cup Dropped
    BY DEF Switching, Dropped
  <2> QED BY <2>1, Zenon DEF TunnelInv, ChildInv, Vouched, Relied, TunnelIsTheSelectedOne, Opened
<1> QED BY <1>1, <1>2, <1>3, Initially, Inductive, PTL DEF Spec

-----------------------------------------------------------------------------
(* How many calls an operation can still make                              *)

\* A step of the operation that holds the lock.
LEMMA LockedStepEnds ==
    ASSUME IInv, LockedStep
    PROVE  Nearer(pc, pc')
<1>1. pc \in Steps
  BY Zenon DEF IInv, TypeOK
<1>2. CASE ApplyNet \/ StopNet \/ SyncNet
  <2>1. PICK flow : /\ EnforceTproxy(flow) \/ EnforceStop(flow)
                    /\ Nearer(pc, flow[1]) /\ Nearer(pc, flow[2])
    BY <1>2, FlowsEnd, Zenon DEF ApplyNet, StopNet, SyncNet
  <2>2. pc' \in {flow[1], flow[2]}
    BY <2>1, EnforcementEnforces, Zenon DEF IInv, Enforced, Go
  <2> QED BY <2>1, <2>2, Zenon
<1>3. CASE Reload \/ StopXray \/ HostProvision
  BY <1>3, FlowsEnd, Zenon DEF Reload, StopXray, HostProvision, Go
<1>4. CASE WriteConfig \/ MarkPending \/ UndoConfig \/ RevertNetwork \/ CommitNetwork
  BY <1>1, <1>4, StepsLeft, Zenon DEF WriteConfig, MarkPending, UndoConfig, RevertNetwork, CommitNetwork, Go
<1>5. CASE StartXray \/ ClearPending \/ Commit \/ Disconnected \/ RolledBack
  BY <1>1, <1>5, StepsLeft, Zenon DEF StartXray, ClearPending, Commit, Disconnected, RolledBack, Go
<1>6. CASE Reapply
  BY <1>1, <1>6, StepsLeft DEF Reapply, Go
<1>7. CASE BootUnguarded \/ EmergencyDeny
  <2>1. pc \in {"bootGuard", "bootDeny"} /\ pc' \in {"bootProvision", "idle"}
    BY <1>7, Zenon DEF BootUnguarded, EmergencyDeny, Go
  <2> QED BY <1>1, <2>1, StepsLeft
<1> QED BY <1>2, <1>3, <1>4, <1>5, <1>6, <1>7, Zenon DEF LockedStep

\* Whatever fails on the way, an operation holds apply_lock for at most fifteen calls: every step of
\* it is nearer to its end than the one before, no recovery goes back, and nothing else moves an
\* operation except a panel that dies.  This is the part of OperationsEnd that is no question of
\* fairness (apply_node and its recovery, POST /rollback, PUT /network, reapply_active_node, boot).
THEOREM OperationsNeverTurnBack ==
    Spec => [][/\ LockedStep => Nearer(pc, pc')
               /\ pc # "idle" => pc' = pc \/ Nearer(pc, pc')
               /\ Left(pc) \in 0 .. 15]_vars
<1>1. IInv /\ Next => /\ LockedStep => Nearer(pc, pc')
                      /\ pc # "idle" => pc' = pc \/ Nearer(pc, pc')
                      /\ Left(pc) \in 0 .. 15
  <2> SUFFICES ASSUME IInv, Next
               PROVE  /\ LockedStep => Nearer(pc, pc')
                      /\ pc # "idle" => pc' = pc \/ Nearer(pc, pc')
                      /\ Left(pc) \in 0 .. 15
    BY Zenon
  <2>1. pc \in Steps /\ (phase = "down" => pc = "idle")
    BY Zenon DEF IInv, TypeOK
  <2>2. CASE Crash \/ Reboot
    <3>1. pc' = "idle"
      BY <2>2, Zenon DEF Crash, Reboot, Vanish
    <3> QED BY <2>1, <3>1, StepsLeft, LockedStepEnds, Zenon
  <2>3. CASE Request \/ BootPanel \/ Watchdog \/ XrayDies
    <3>1. pc = "idle" \/ pc' = pc
      BY <2>1, <2>3, Zenon DEF Request, AskApply, AskDelete, BeginApply, XrayStart, XrayStop, Disconnect, Rollback,
           PutKillSwitch, DeleteNode, BootPanel, Watchdog, XrayDies, Free
    <3> QED BY <2>1, <3>1, StepsLeft, LockedStepEnds, Zenon
  <2>4. CASE LockedStep
    BY <2>1, <2>4, StepsLeft, LockedStepEnds, Zenon
  <2> QED BY <2>2, <2>3, <2>4, Zenon DEF Next, Environment
<1> QED BY <1>1, Initially, Inductive, PTL DEF Spec
=============================================================================
