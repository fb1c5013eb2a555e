--------------------------- MODULE SegmentChange ---------------------------
(***************************************************************************)
(* Everything that runs a provisioning pass or renders the enforcement     *)
(* from the store: PUT /network, restore_backup, boot, the DHCPv6-PD       *)
(* callback and every sync_net, with the candidate record that lets a      *)
(* rolled-back or interrupted change be undone (api/routes.py,             *)
(* controller.py, app.py, net_control/provision.py, pd_client.py).         *)
(*                                                                         *)
(* All of them hold apply_lock to their end, so they do not interleave;    *)
(* the panel may be killed and the host may reboot between any two calls.  *)
(* The kill switch is on.                                                  *)
(***************************************************************************)
EXTENDS Provision

CONSTANTS
    Prefix,         \* addresses a delegated prefix gives the segment
    MaxOps          \* bound on requests and prefix changes

ASSUME CallerAssumption ==
    /\ Prefix \subseteq Addr /\ MaxOps \in Nat
    /\ \A s, t \in Seg : s.a4 \notin {t.v6, Ula} \cup Prefix    \* IPv4 and IPv6

VARIABLES
    want,           \* the configuration the request asks for
    cand,           \* its candidate, in the memory of the request
    inst,           \* the ownership the pass was read back as claiming
    names,          \* interfaces of the guard a restore rendered up front
    ring,           \* the prefix its callback waits for apply_lock with
    ops             \* ghost: requests and prefix changes so far

caller == <<want, cand, inst, names, ring, ops>>
vars == <<host, db, txn, dflt, watch, pc, flow, locals, lost, luck, caller>>

NoWish == [cfg |-> None, manage |-> TRUE]

Quiet ==
    /\ flow = "none" /\ plan = Blank /\ sup = {} /\ cov = {} /\ ok = TRUE
    /\ want = NoWish /\ cand = None /\ inst = Blank /\ names = {}

Forget ==
    /\ flow' = "none" /\ plan' = Blank /\ sup' = {} /\ cov' = {} /\ ok' = TRUE
    /\ want' = NoWish /\ cand' = None /\ inst' = Blank /\ names' = {}

\* A host that has just come up, and a panel that was never run on it.
Init ==
    /\ link = [i \in Iface |-> IF i \in Foreign THEN "up" ELSE "absent"]
    /\ addrs = {} /\ rules = {} /\ fwd = FALSE /\ deny = FALSE /\ note = FALSE
    /\ nm = {} /\ dns = None
    /\ db = [cfg |-> None, manage |-> TRUE, own |-> Blank, stale |-> {},
             links |-> {}, surv |-> {}, pend |-> None, pd |-> None]
    /\ txn = None /\ dflt \in Seg /\ watch = Off /\ ring = Off
    /\ pc = "boot" /\ Quiet
    /\ lost = {} /\ ops = 0 /\ mishaps = 0 /\ calm = TRUE

\* Each request and prefix change is counted.
Request == pc = "idle" /\ ops < MaxOps /\ ops' = ops + 1

\* Of the addresses `held` the ones that records `d` do not name: in effect an
\* automatic IPv6 prefix, which no candidate holds and only a read-back knows.
Unnamed(d, held) ==
    (addrs \cap held) \ (Pairs(cand) \cup Pairs(d.own) \cup d.stale \cup d.surv)

\* The request answers, and what it held in memory is gone.
Finish ==
    /\ pc = "done" /\ pc' = "idle"
    /\ Forget
    /\ ring' = IF flow = "pd" THEN Off ELSE ring
    /\ calm' = TRUE
    /\ lost' = lost \cup Unnamed(db, Pairs(inst))
    /\ UNCHANGED <<host, db, txn, dflt, watch, mishaps, ops>>

(***************************************************************************)
(* The candidate record                                                    *)
(***************************************************************************)

\* provision_candidate: where the pass is headed, with the answer of the
\* link probe taken before it.  An automatic IPv6 prefix is not known yet.
CandidateFor(seg, prior) ==
    [iface |-> seg.iface, a4 |-> seg.a4,
     a6 |-> IF seg.v6 = Automatic THEN None ELSE seg.v6,
     vlan |-> seg.iface \in Vlan, prior |-> prior]

Probed(i) == IF Present(i) THEN "present" ELSE "absent"

\* _unarmed_candidate: names the interface for the cover, licenses nothing.
Unarmed(c) ==
    IF c = None THEN None
    ELSE [c EXCEPT !.a4 = None, !.a6 = None, !.vlan = FALSE, !.prior = "unknown"]

\* record_provision_candidate: nothing is written for an empty candidate,
\* and whatever the row named before is replaced.
RecordCandidate(c, good) ==
    /\ IF c = None THEN good /\ UNCHANGED db
       ELSE \E w \in WriteScalar(db.pend, c) :
              w.ok = good /\ db' = [db EXCEPT !.pend = w.v]
    /\ lost' = IF db.pend # None /\ db'.pend # db.pend /\ Pairs(db.pend) # {}
               THEN lost \cup {p \in addrs : p[1] = db.pend.iface} ELSE lost

\* clear_provision_candidate: the verified terminal form.
ClearCandidate(good) ==
    \E w \in WriteScalar(db.pend, None) :
        w.ok = good /\ db' = [db EXCEPT !.pend = w.v]

(***************************************************************************)
(* PUT /network                                                            *)
(***************************************************************************)

\* The candidate is proven on record before the transaction opens.
PutNetwork(seg) ==
    /\ Request
    /\ \E prior \in {Probed(seg.iface), "unknown"}, good \in BOOLEAN :
        /\ cand' = IF db.manage THEN CandidateFor(seg, prior) ELSE None
        /\ RecordCandidate(cand', good)
        /\ Charge(good /\ prior # "unknown")
        /\ pc' = IF good THEN "begin" ELSE "done"
    /\ want' = [cfg |-> seg, manage |-> db.manage]
    /\ flow' = "put"
    /\ UNCHANGED <<host, txn, dflt, watch, locals, inst, names, ring>>

\* The transaction: the settings, and then the pass inside it.
Begin ==
    /\ pc = "begin" /\ pc' = "drain"
    /\ txn' = db
    /\ db' = [db EXCEPT !.cfg = want.cfg, !.manage = want.manage]
    /\ UNCHANGED <<host, dflt, watch, flow, locals, lost, luck, caller>>

\* Forwarded traffic is handed back from the emergency deny, where this process
\* knows of one, if a complete ruleset can be installed.
Released(good) ==
    IF note THEN SyncNet(good) ELSE good /\ UNCHANGED <<rules, fwd, deny, note>>

\* managed_host_state: what the pass of a request claimed, asked while the
\* transaction that holds the claim is still open.  The pass of its recovery is
\* not asked: the undo goes by what the first one had claimed.
ReadBack(answered) ==
    inst' = IF flow \notin {"put", "restore"} THEN inst
            ELSE IF answered THEN db.own ELSE Blank

\* The end of host_provision, and of the request's pass or of its recovery.
HandBack ==
    /\ pc = "handback"
    /\ \E good, readback \in BOOLEAN :
        /\ flow \notin {"put", "restore"} => readback
        /\ Charge(good /\ readback)
        /\ Released(good)
        /\ ReadBack(readback)
        /\ pc' = CASE flow = "recover" -> "undo"
                   [] flow = "boot" -> "done"
                   [] OTHER -> IF ok /\ good /\ readback THEN "sync" ELSE "rollback"
    /\ UNCHANGED <<link, addrs, nm, dns, db, txn, dflt, watch, flow, locals, want,
                   cand, names, ring, lost, ops>>

SyncAndCommit ==
    /\ pc = "sync"
    /\ \E good \in BOOLEAN :
        /\ Charge(good)
        /\ SyncNet(good)
        /\ pc' = IF good THEN "commit" ELSE "rollback"
    /\ UNCHANGED <<link, addrs, nm, dns, db, txn, dflt, watch, flow, locals, lost, caller>>

Commit ==
    /\ pc = "commit"
    /\ \E good \in BOOLEAN :
        /\ Charge(good)
        /\ txn' = IF good THEN None ELSE txn
        /\ pc' = IF good THEN "clear" ELSE "rollback"
    /\ UNCHANGED <<host, db, dflt, watch, flow, locals, lost, caller>>

\* Mutant: the transaction stays open.
RollbackLeavesOpen ==
    /\ pc = "rollback" /\ pc' = "drain"
    /\ db' = txn
    /\ flow' = "recover"
    /\ UNCHANGED <<host, txn, dflt, watch, locals, lost, luck, caller>>

\* The records go back, the host does not: a second pass re-asserts them.
Rollback ==
    /\ pc = "rollback" /\ pc' = "drain"
    /\ db' = txn /\ txn' = None
    /\ flow' = "recover"
    /\ lost' = lost \cup Unnamed(txn, Pairs(db.own) \ Pairs(inst))
    /\ UNCHANGED <<host, dflt, watch, locals, luck, want, cand, inst, names, ring,
                   ops>>

(***************************************************************************)
(* The undo                                                                *)
(***************************************************************************)

\* _orphan_pairs: what the candidate pass may have left, less what is in use.
Orphans == (Pairs(cand) \cup Pairs(inst)) \ Pairs(db.own)

\* The licence to delete: a VLAN other than the segment in service that was
\* not there before the pass and is there now.
MayDelete ==
    /\ cand.vlan /\ cand.iface # db.own.iface /\ cand.prior = "absent"
    /\ Present(cand.iface)

\* remember_survivors: added to what the ledger holds, never instead of it.
Remember(pairs) == WriteSet(db.surv, db.surv \cup pairs)

\* forget_survivors, once the link they were on is deleted.
ForgetOn(i) == WriteSet(db.surv, {p \in db.surv : p[1] # i})

Settled(good) ==
    pc' = IF good THEN "clear" ELSE IF flow = "boot" THEN "drain" ELSE "resync"

\* undo_provision_candidate.  A link that is deleted settles everything; one
\* that stays is recorded as a survivor before the undo counts as done.
Undo ==
    /\ pc = "undo"
    /\ \/ /\ cand = None
          /\ Settled(FALSE) /\ Charge(TRUE) /\ UNCHANGED <<link, addrs, db>>
       \/ /\ cand # None
          /\ Settled(FALSE) /\ OwnershipUnreadable /\ UNCHANGED <<link, addrs, db>>
       \/ /\ cand # None /\ MayDelete
          /\ Without({cand.iface})
          /\ \E w \in ForgetOn(cand.iface) :
                /\ cand.iface \notin Ifaces(db.surv) => w.ok
                /\ db' = [db EXCEPT !.surv = w.v]
                /\ Charge(w.ok)
          /\ Settled(TRUE)
       \/ /\ cand # None
          /\ \E left \in BOOLEAN, w \in Remember(Orphans) :
               /\ left => cand.vlan /\ cand.iface # db.own.iface
                                    /\ cand.prior = "absent"
               /\ MayDelete => left
               /\ Orphans = {} => w.ok
               /\ Charge(w.ok /\ ~left)
               /\ db' = [db EXCEPT !.surv = w.v]
               /\ Settled(w.ok /\ ~left)
          /\ UNCHANGED <<link, addrs>>
    /\ UNCHANGED <<rules, fwd, deny, note, nm, dns, txn, dflt, watch, flow, locals,
                   lost, caller>>

Clear ==
    /\ pc = "clear"
    /\ \E good \in BOOLEAN :
        /\ Charge(good)
        /\ IF cand = None THEN good /\ UNCHANGED db ELSE ClearCandidate(good)
    /\ pc' = CASE flow = "boot" -> "drain" [] flow = "recover" -> "resync"
               [] OTHER -> "done"
    /\ UNCHANGED <<host, txn, dflt, watch, flow, locals, lost, caller>>

\* The restored plan is rendered.  The guard that PUT /network tries when this
\* is refused is one more SyncAtIdle.
Resync ==
    /\ pc = "resync" /\ pc' = "done"
    /\ \E good \in BOOLEAN : Charge(good) /\ SyncNet(good)
    /\ UNCHANGED <<link, addrs, nm, dns, db, txn, dflt, watch, flow, locals, lost, caller>>

(***************************************************************************)
(* restore_backup                                                          *)
(***************************************************************************)

\* The unarmed record goes in before the guard is rendered, so that the
\* guard names the interface the restore is headed for.
RestoreBackup(seg, manage) ==
    /\ Request
    /\ \E prior \in {Probed(seg.iface), "unknown"}, good \in BOOLEAN :
        /\ cand' = IF manage THEN CandidateFor(seg, prior) ELSE None
        /\ RecordCandidate(Unarmed(cand'), good)
        /\ Charge(good /\ prior # "unknown")
        /\ pc' = IF good THEN "render" ELSE "done"
    /\ want' = [cfg |-> seg, manage |-> manage]
    /\ flow' = "restore"
    /\ UNCHANGED <<host, txn, dflt, watch, locals, inst, names, ring>>

\* The guard is rendered before the tunnel is stopped; a cover that cannot
\* be read leaves the gateway as it was.
RenderGuard ==
    /\ pc = "render"
    /\ \E good \in BOOLEAN :
        /\ Charge(good)
        /\ names' = IF good THEN {SegmentOf(db).iface} \cup Cover(db, SegmentOf(db).iface)
                    ELSE {}
        /\ pc' = IF good THEN "guard" ELSE "settle"
    /\ UNCHANGED <<host, db, txn, dflt, watch, flow, locals, want, cand, inst, ring,
                   lost, ops>>

\* xray stops, or does not; then the guard goes in.
InstallGuard ==
    /\ pc = "guard"
    /\ \E good \in BOOLEAN :
        /\ Charge(good)
        /\ Enforce(names, good)
        /\ pc' = IF good THEN "arm" ELSE "settle"
    /\ UNCHANGED <<link, addrs, nm, dns, db, txn, dflt, watch, flow, locals, lost, caller>>

ArmCandidate ==
    /\ pc = "arm"
    /\ \E good \in BOOLEAN :
        /\ Charge(good)
        /\ RecordCandidate(cand, good)
        /\ pc' = IF good THEN "begin" ELSE "settle"
    /\ UNCHANGED <<host, txn, dflt, watch, flow, locals, want, cand, inst, names, ring,
                   ops>>

SettlePreflight ==
    /\ pc = "settle" /\ pc' = "done"
    /\ \E good \in BOOLEAN :
        /\ Charge(good)
        /\ IF cand = None THEN good /\ UNCHANGED db ELSE ClearCandidate(good)
    /\ UNCHANGED <<host, txn, dflt, watch, flow, locals, lost, caller>>

(***************************************************************************)
(* Boot                                                                    *)
(***************************************************************************)

\* boot_guard, before anything is provisioned.
BootGuard ==
    /\ pc = "boot"
    /\ \E good \in BOOLEAN :
        /\ Charge(good)
        /\ SyncNet(good)
        /\ pc' = IF good THEN "resume" ELSE "fallback"
    /\ flow' = "boot"
    /\ UNCHANGED <<link, addrs, nm, dns, db, txn, dflt, watch, locals, lost, caller>>

\* enforcement_fallback: the emergency deny, or forwarding off and nothing
\* but the management API.
Fallback ==
    /\ pc = "fallback"
    /\ note' = TRUE
    /\ \E good \in BOOLEAN :
        /\ Charge(good)
        /\ IF good THEN deny' = TRUE /\ fwd' = fwd ELSE deny' = deny /\ fwd' = FALSE
        /\ pc' = IF good THEN "resume" ELSE "done"
    /\ UNCHANGED <<link, addrs, rules, nm, dns, db, txn, dflt, watch, flow, locals,
                   lost, caller>>

\* resume_pending_provision_undo, and then the boot's own pass.
ResumeUndo ==
    /\ pc = "resume"
    /\ \E readable \in BOOLEAN :
        /\ Charge(readable)
        /\ cand' = IF readable THEN db.pend ELSE None
        /\ pc' = IF cand' = None THEN "drain" ELSE "undo"
    /\ UNCHANGED <<host, db, txn, dflt, watch, flow, locals, want, inst, names, ring,
                   lost, ops>>

(***************************************************************************)
(* The DHCPv6-PD watcher                                                   *)
(***************************************************************************)

\* poll_once: the value counts as reported before the callback has run, and
\* the callback then waits for apply_lock in its own thread.
PollPrefix(p) ==
    /\ watch \notin {Off, p} /\ ring = Off
    /\ ops < MaxOps /\ ops' = ops + 1
    /\ watch' = p /\ ring' = p
    /\ UNCHANGED <<host, db, txn, dflt, pc, flow, locals, luck, want, cand, inst,
                   names, lost>>

\* The callback asks again, under the lock, whether prefixes are wanted.
StillAuto == db.manage /\ SegmentOf(db).v6 = Automatic

PrefixChanged ==
    /\ pc = "idle" /\ ring # Off
    /\ IF StillAuto
       THEN /\ pc' = "own" /\ flow' = "pd"
            /\ plan' = PlanOf(db, ring)
            /\ UNCHANGED ring
       ELSE ring' = Off /\ UNCHANGED <<pc, flow, plan>>
    /\ UNCHANGED <<host, db, txn, dflt, watch, sup, cov, ok, luck, want, cand, inst,
                   names, lost, ops>>

\* Mutant: dnsmasq follows wherever the addresses are.
ProbedUpAssumed(probed) == TRUE

ProbedUp(probed) == probed /\ link[plan.iface] = "up"

\* The prefix is recorded once it is on the segment, and dnsmasq follows only
\* where the interface is up.
RecordLease ==
    /\ pc = "lease" /\ pc' = "done"
    /\ \E w \in WriteScalar(db.pd, ring), probed, good \in BOOLEAN :
        /\ ProbedUp(probed) \/ good
        /\ Charge(w.ok /\ good /\ probed)
        /\ db' = [db EXCEPT !.pd = w.v]
        /\ dns' \in IF ~ProbedUp(probed) THEN {dns} ELSE IF good THEN {plan} ELSE {dns, None}
    /\ UNCHANGED <<link, addrs, rules, fwd, deny, note, nm, txn, dflt, watch, flow,
                   locals, lost, caller>>

(***************************************************************************)
(* Everything else                                                         *)
(***************************************************************************)

\* Any other render of the stored segment: connect, disconnect, a watchdog.
SyncAtIdle ==
    /\ pc = "idle"
    /\ \E good \in BOOLEAN : Spend(good) /\ SyncNet(good)
    /\ UNCHANGED <<link, addrs, nm, dns, db, txn, dflt, watch, pc, flow, locals, lost,
                   calm, caller>>

\* The operator follows the report of orphaned addresses, or deletes a link
\* of the panel's by hand.
OperatorCleans(i) ==
    /\ pc = "idle" /\ i # db.own.iface
    /\ \/ /\ addrs' = {p \in addrs : p[1] # i} /\ addrs' # addrs
          /\ UNCHANGED link
       \/ i \notin Foreign /\ Present(i) /\ Without({i})
    /\ UNCHANGED <<rules, fwd, deny, note, nm, dns, db, txn, dflt, watch, pc, flow,
                   locals, lost, luck, caller>>

\* The panel is killed, with its children; an open transaction is gone, and
\* the next process may find another default segment in its environment.
Restarted ==
    /\ Spend(FALSE) /\ calm' = TRUE
    /\ db' = IF txn = None THEN db ELSE txn
    /\ txn' = None /\ dflt' \in Seg /\ watch' = Off /\ ring' = Off
    /\ note' = FALSE /\ dns' = None
    /\ pc' = "boot" /\ Forget
    /\ lost' = lost \cup Unnamed(db', Pairs(db.own) \cup Pairs(inst))
    /\ UNCHANGED ops

Crash ==
    /\ Restarted
    /\ UNCHANGED <<link, addrs, rules, fwd, deny, nm>>

\* A reboot also takes everything the kernel held; the drop-in is a file.
Reboot ==
    /\ Restarted
    /\ link' = [i \in Iface |-> IF i \in Foreign THEN "up" ELSE "absent"]
    /\ addrs' = {} /\ rules' = {} /\ fwd' = FALSE /\ deny' = FALSE
    /\ UNCHANGED nm

Pass == PassStep /\ UNCHANGED caller

Step ==
    \/ Pass \/ Begin \/ HandBack \/ SyncAndCommit \/ Commit \/ Rollback
    \/ Undo \/ Clear \/ Resync \/ Finish
    \/ RenderGuard \/ InstallGuard \/ ArmCandidate \/ SettlePreflight
    \/ BootGuard \/ Fallback \/ ResumeUndo \/ RecordLease

Next ==
    \/ Step
    \/ \E seg \in Seg : PutNetwork(seg)
    \/ \E seg \in Seg, manage \in BOOLEAN : RestoreBackup(seg, manage)
    \/ \E p \in Prefix \cup {None} : PollPrefix(p)
    \/ PrefixChanged
    \/ SyncAtIdle
    \/ \E i \in Iface : OperatorCleans(i)
    \/ Crash \/ Reboot

Spec == Init /\ [][Next]_vars

(***************************************************************************)
(* Properties                                                              *)
(***************************************************************************)

\* Every variable holds what the code can put there, and a transaction is
\* open exactly while a request is between its settings and its commit.
TypeOK ==
    /\ link \in [Iface -> {"absent", "down", "up"}]
    /\ addrs \subseteq Pair /\ rules \subseteq Iface /\ nm \subseteq Iface
    /\ {fwd, deny, note, ok, calm} \subseteq BOOLEAN
    /\ dns \in Owner \cup {None} /\ plan \in Owner /\ inst \in Owner
    /\ db \in Records /\ txn \in Records \cup {None}
    /\ dflt \in Seg /\ sup \subseteq Iface /\ names \subseteq Iface
    /\ cov = None \/ cov \subseteq Iface
    /\ cand \in Candidate \cup {None}
    /\ {watch, ring} \subseteq Addr \cup {None, Off, Unseen}
    /\ mishaps \in 0..MaxMishaps /\ ops \in 0..MaxOps /\ lost \subseteq Pair
    /\ txn # None => flow \in {"put", "restore"}

\* What the records name, whatever interface is configured.
Known(d) == Cover(d, None)

\* Every interface with a segment address is named by a durable record, in
\* what a reader sees and in what an open transaction would go back to, so
\* no failure and no crash leaves a carrying interface the next render does
\* not know of.  Excepted are addresses whose record the code itself drops: on
\* the interface of a pending record that a later request overwrites; an
\* automatic prefix claimed in a transaction that went back, with its read-back
\* failed, its survivors not recorded or its panel dead; and one taken off the
\* stale ledger for a claim that was then not written.
RecordsKnow ==
    /\ Ifaces(addrs \ lost) \subseteq Known(db)
    /\ txn # None => Ifaces(addrs \ lost) \subseteq Known(txn)

Carrying(i) == i \in Ifaces(addrs \ lost)

\* A ruleset is only ever replaced by one that still names every interface the
\* segment is on, whichever operation renders it and whatever failed before.
RulesFollowSegment ==
    [][\A i \in rules \ rules' : ~Carrying(i)']_vars

\* On a move, nothing becomes reachable on a segment address before the
\* ruleset names it: neither the new VLAN, raised last, nor an operator's
\* interface that was up all along (_provision_segment, steps 2, 3 and 5).
Reachable(i) == link[i] = "up" /\ i \in Ifaces(addrs)

MovesAreStaged ==
    [][\A i \in Iface : sup # {} /\ Reachable(i)' /\ ~Reachable(i) => i \in rules]_vars

\* dnsmasq is only pointed at a segment whose addresses are on an interface
\* that is up, by a pass and by the PD callback (_probe_iface_up).
ServesOnlyWhatIsUp ==
    [][dns' \notin {dns, None} =>
         Pairs(dns') \subseteq addrs /\ link[dns'.iface] = "up"]_vars

\* A boot, a request or a restore on which nothing fails leaves the host as it
\* is configured, whatever earlier failures and crashes had left behind: the
\* addresses are on, nothing is owed, the ruleset names the segment and what
\* is on record besides, and no undo is pending (one is left alone only by a
\* restore that switches segment management off).
UndisturbedHeals ==
    pc = "done" /\ calm /\ flow \in {"boot", "put", "restore"} =>
        /\ db.stale = {} /\ txn = None
        /\ LET due == {SegmentOf(db).iface} \cup Cover(db, SegmentOf(db).iface) IN
           due \subseteq rules /\ (flow # "boot" => rules = due)
        /\ db.pend # None => ~db.manage /\ flow # "boot"
        /\ IF db.manage
           THEN LET p == PlanOf(db, db.pd) IN
                /\ db.own = p /\ dns = p /\ Pairs(p) \subseteq addrs
                /\ link[p.iface] = "up" /\ db.links \subseteq {p.iface}
           ELSE db.own = Blank /\ dns = None /\ db.links = {} /\ nm = {}
=============================================================================
