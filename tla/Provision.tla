----------------------------- MODULE Provision -----------------------------
(***************************************************************************)
(* One provisioning pass: what host_provision does to the host and to the  *)
(* panel's durable records, call by call (net_control/provision.py).       *)
(*                                                                         *)
(* The host is a set of links, the segment addresses on them, the          *)
(* interfaces the nft ruleset names, the NetworkManager drop-in and the    *)
(* segment dnsmasq serves.  The records are rows of the settings table:    *)
(* `db` is what a reader sees, `txn` the copy an open transaction goes     *)
(* back to.  Every ip, nft and store call may fail, every probe and every  *)
(* read may stay unanswered; each such mishap is counted.                  *)
(***************************************************************************)
EXTENDS Naturals, FiniteSets

CONSTANTS
    Iface,          \* interface names
    Vlan,           \* the names of VLAN form, which the panel may create
    Foreign,        \* links that are there without the panel
    Addr,           \* segment addresses, IPv4 and IPv6
    Ula,            \* the panel's own fallback IPv6 address
    Automatic,      \* the IPv6 setting "auto": a delegated prefix or Ula
    Seg,            \* configurations [iface, a4, v6] an operator may choose
    None,           \* a blank record, no transaction, no delegated prefix
    Off,            \* the DHCPv6-PD client is not running
    Unseen,         \* it runs and has reported nothing yet
    MaxMishaps      \* bound on failed calls, lost writes and crashes

Pair == Iface \X Addr

Blank == [iface |-> None, a4 |-> None, a6 |-> None]

Owner == [iface: Iface \cup {None}, a4: Addr \cup {None}, a6: Addr \cup {None}]

Candidate ==
    [iface: Iface, a4: Addr \cup {None}, a6: Addr \cup {None}, vlan: BOOLEAN,
     prior: {"absent", "present", "unknown"}]

\* The rows of the settings table the segment depends on.
Records ==
    [cfg: Seg \cup {None},          \* the stored segment, or the default's
     manage: BOOLEAN,               \* manage_segment
     own: Owner,                    \* managed_segment_iface/_addr4/_addr6
     stale: SUBSET Pair,            \* managed_segment_stale
     links: SUBSET Iface,           \* managed_segment_link
     surv: SUBSET Pair,             \* provision_candidate_survivors
     pend: Candidate \cup {None},   \* the pending undo
     pd: Addr \cup {None}]          \* pd_segment_prefix6

ASSUME ConstantsAssumption ==
    /\ Vlan \subseteq Iface /\ Foreign \subseteq Iface
    /\ Ula \in Addr /\ Automatic \notin Addr
    /\ None \notin Iface \cup Addr \cup {Automatic}
    /\ Seg \subseteq [iface: Iface, a4: Addr, v6: Addr \cup {Automatic, None}]
    /\ None \notin Seg \cup Owner \cup Candidate \cup Records
    /\ \A covered \in SUBSET Iface : covered # None
    /\ Off # Unseen /\ {Off, Unseen} \cap (Addr \cup {None}) = {}
    /\ MaxMishaps \in Nat

VARIABLES
    link,           \* per interface: "absent", "down" or "up"
    addrs,          \* the segment addresses on the host: <<iface, addr>>
    rules,          \* the interfaces the installed ruleset names
    fwd,            \* kernel forwarding is on
    deny,           \* the emergency deny on forwarded traffic is in force
    note,           \* this process recorded that the deny may be in force
    nm,             \* interfaces the NetworkManager drop-in takes away
    dns,            \* the segment dnsmasq serves, or None
    db,             \* the durable records
    txn,            \* the records an open transaction rolls back to, or None
    dflt,           \* the segment the deployment's environment configures
    watch,          \* what the DHCPv6-PD watcher last reported, or Off
    pc,             \* the next call of the operation that holds apply_lock
    flow,           \* which operation that is
    plan,           \* the pass's plan: iface, a4 and the resolved a6
    sup,            \* interfaces the pass moves off
    cov,            \* what its staged ruleset must name besides, or None
    ok,             \* nothing of the pass has been reported as failed
    lost,           \* ghost: addresses whose only record the code discarded
    mishaps,        \* ghost: mishaps so far
    calm            \* ghost: none of them in the current operation

host == <<link, addrs, rules, fwd, deny, note, nm, dns>>
locals == <<plan, sup, cov, ok>>
luck == <<mishaps, calm>>

(***************************************************************************)
(* Mishaps and the store                                                   *)
(***************************************************************************)

\* A call that does as told costs nothing; one that does not is a mishap.
Spend(good) ==
    /\ good \/ mishaps < MaxMishaps
    /\ mishaps' = IF good THEN mishaps ELSE mishaps + 1

Charge(good) == Spend(good) /\ calm' = (calm /\ good)

\* _verified_write of one row: a write reported as failed may have been kept.
WriteScalar(old, new) == [v: {new}, ok: {TRUE}] \cup [v: {old, new}, ok: {FALSE}]

\* write_set and read_set: the journal row is proven first, then the record
\* row, and the journal is blanked at best.  Both rows are read as one.
ReadSet(l) == l.rec \cup l.journal

JournalledWrite(l, new) ==
    {[l |-> [l EXCEPT !.journal = w.v], ok |-> FALSE] :
        w \in {x \in WriteScalar(l.journal, new) : ~x.ok}}
    \cup {[l |-> [rec |-> w.v, journal |-> new], ok |-> FALSE] :
        w \in {x \in WriteScalar(l.rec, new) : ~x.ok}}
    \cup [l: [rec: {new}, journal: {new, {}}], ok: {TRUE}]

\* What a reader may see of such a write: all of the old content, or all of
\* the new and perhaps some of the old.  Theorem WriteSetIsJournalled.
WriteSet(old, new) ==
    [v: {new}, ok: {TRUE}]
    \cup [v: {old} \cup {new \cup kept : kept \in SUBSET old}, ok: {FALSE}]

\* Mutant: the scalars first, the ledger whatever became of them.
WriteOwnershipScalarsFirst(d, own, stale) ==
    {[v |-> [d EXCEPT !.own = own, !.stale = s.v], ok |-> s.ok] :
        s \in WriteSet(d.stale, stale) \cup [v: {d.stale}, ok: {FALSE}]}

\* The three scalars of a claim, each of which may fail by itself.
WriteScalars(old, new) ==
    [v: {new}, ok: {TRUE}]
    \cup [v: [iface: {old.iface, new.iface}, a4: {old.a4, new.a4}, a6: {old.a6, new.a6}],
          ok: {FALSE}]

\* _record_ownership: the stale ledger first, and the scalars only once it is proven.
WriteOwnership(d, own, stale) ==
    {[v |-> [d EXCEPT !.stale = s.v], ok |-> FALSE] :
        s \in {w \in WriteSet(d.stale, stale) : ~w.ok}}
    \cup {[v |-> [d EXCEPT !.stale = stale, !.own = o.v], ok |-> o.ok] :
        o \in WriteScalars(d.own, own)}

\* _read_ownership finds a scalar, the ledger or its journal it cannot trust.
OwnershipUnreadable == Charge(FALSE)

\* _clear_pd_prefix
ForgetPrefix == WriteScalar(db.pd, None)

(***************************************************************************)
(* What the records say                                                    *)
(***************************************************************************)

Ifaces(pairs) == {p[1] : p \in pairs}

SegmentOf(d) == IF d.cfg = None THEN dflt ELSE d.cfg

\* effective_segment_prefix6: a delegated prefix, else the stored fallback.
Resolved6(seg, pd) ==
    IF seg.v6 # Automatic THEN seg.v6 ELSE IF pd # None THEN pd ELSE Ula

PlanOf(d, pd) ==
    LET seg == SegmentOf(d) IN
    [iface |-> seg.iface, a4 |-> seg.a4, a6 |-> Resolved6(seg, pd)]

Pairs(own) ==
    IF own = None \/ own.iface = None THEN {}
    ELSE {<<own.iface, a>> : a \in {own.a4, own.a6} \ {None}}

\* superseded_state: interfaces the panel holds an address or a link on.
Superseded(d, i) ==
    ({d.own.iface} \cup Ifaces(d.stale) \cup d.links) \ {None, i}

\* The interface a pending undo names, whatever it may license.
Pending(d) == IF d.pend = None THEN {} ELSE {d.pend.iface}

\* enforcement_cover: everything that may still be carrying the segment.
Cover(d, i) == (Superseded(d, i) \cup Ifaces(d.surv) \cup Pending(d)) \ {i}

(***************************************************************************)
(* Host calls                                                              *)
(***************************************************************************)

\* A ruleset is replaced, never edited.  A confirmed one releases the
\* emergency deny; a release that fails turns the success into a failure.
\* The nft half may be in place when a later part of the apply fails, and
\* apply_tproxy turns forwarding on after it.
Enforce(names, good) ==
    \/ /\ good
       /\ rules' = names /\ deny' = FALSE /\ note' = FALSE
       /\ fwd' \in {fwd, TRUE}
    \/ /\ ~good
       /\ rules' = rules /\ UNCHANGED <<deny, note, fwd>>
    \/ /\ ~good
       /\ rules' = names /\ note' \in {note, TRUE}
       /\ fwd' \in {fwd, TRUE} /\ UNCHANGED <<deny>>

\* The store-derived render of sync_net, apply_net and stop_net: a cover
\* that cannot be read in full installs nothing.
SyncNet(good) ==
    Enforce({SegmentOf(db).iface} \cup Cover(db, SegmentOf(db).iface), good)

\* A link that goes takes the addresses on it along.
Without(gone) ==
    /\ link' = [i \in Iface |-> IF i \in gone THEN "absent" ELSE link[i]]
    /\ addrs' = {p \in addrs : p[1] \notin gone}

Present(i) == link[i] # "absent"

(***************************************************************************)
(* The pass                                                                *)
(***************************************************************************)

GiveUp == pc' = "handback" /\ ok' = FALSE

\* The host shows that an address is gone, or its link is.
ProvenGone(pairs) == {p \in pairs : ~Present(p[1]) \/ p \notin addrs}

\* drain_enforcement_cover: a survivor leaves the ledger only when its link
\* or its address is proven gone.  An unanswered probe keeps it.
Drain ==
    /\ pc = "drain"
    /\ \E gone \in SUBSET ProvenGone(db.surv) :
       \E w \in WriteSet(db.surv, db.surv \ gone) :
        /\ gone = {} => w.ok
        /\ db' = [db EXCEPT !.surv = w.v]
        /\ Charge(w.ok /\ gone = ProvenGone(db.surv))
    /\ pc' = IF db.manage THEN "plan" ELSE "off"
    /\ ok' = TRUE
    /\ UNCHANGED <<host, txn, dflt, watch, flow, plan, sup, cov>>

\* ensure_sysctls, the plan, and both readings of the records, taken before
\* the pass rewrites them.  A half-read answer declines.
ReadPlan ==
    /\ pc = "plan"
    /\ fwd' = TRUE
    /\ plan' = PlanOf(db, db.pd)
    /\ \E readable, covered \in BOOLEAN :
        /\ readable => Charge(covered)
        /\ ~readable => covered /\ Charge(FALSE)
        /\ sup' = IF readable THEN Superseded(db, plan'.iface) ELSE {}
        /\ cov' = IF covered THEN Cover(db, plan'.iface) ELSE None
        /\ IF readable THEN pc' = "link" /\ ok' = ok ELSE GiveUp
    /\ UNCHANGED <<link, addrs, rules, deny, note, nm, dns, db, txn, dflt,
                   watch, flow>>

\* Mutant: a VLAN the ledger names is taken to exist.
LinkFoundByLedger(i) == Present(i) \/ i \in db.links

LinkFound(i) == Present(i)

\* 1. ensure_segment_link: the ledger names the VLAN before it exists.  A
\* probe without an answer counts as "not there".
RecordLink ==
    /\ pc = "link"
    /\ LET i == plan.iface IN
       \/ /\ i \notin Vlan \/ LinkFound(i)
          /\ pc' = "stage" /\ Charge(TRUE) /\ UNCHANGED <<db, ok>>
       \/ /\ i \in Vlan
          /\ \E w \in WriteSet(db.links, db.links \cup {i}) :
               /\ i \in db.links => w.ok
               /\ Charge(w.ok /\ ~LinkFound(i))
               /\ db' = [db EXCEPT !.links = w.v]
               /\ IF w.ok THEN pc' = "add" /\ ok' = ok ELSE GiveUp
       \/ Charge(FALSE) /\ GiveUp /\ UNCHANGED db
    /\ UNCHANGED <<host, txn, dflt, watch, flow, plan, sup, cov>>

\* `ip link add`: created down, refused when the link exists after all.
AddLink ==
    /\ pc = "add"
    /\ \E added \in BOOLEAN :
        /\ added => ~Present(plan.iface)
        /\ Charge(added \/ Present(plan.iface))
        /\ link' = IF added THEN [link EXCEPT ![plan.iface] = "down"] ELSE link
        /\ IF added THEN pc' = "stage" /\ ok' = ok ELSE GiveUp
    /\ UNCHANGED <<addrs, rules, fwd, deny, note, nm, dns, db, txn, dflt, watch,
                   flow, plan, sup, cov>>

\* Mutant: the transitional ruleset forgets the new interface.
StagedOldOnly == cov

Staged == cov \cup {plan.iface}

\* 2. On a move, the ruleset covers both ends before anything can be reached.
Stage ==
    /\ pc = "stage"
    /\ \/ /\ sup = {}
          /\ pc' = "own" /\ ok' = ok /\ Charge(TRUE)
          /\ UNCHANGED <<rules, fwd, deny, note>>
       \/ /\ sup # {} /\ cov = None
          /\ GiveUp /\ Charge(TRUE)
          /\ UNCHANGED <<rules, fwd, deny, note>>
       \/ /\ sup # {} /\ cov # None
          /\ \E good \in BOOLEAN :
               /\ Charge(good)
               /\ Enforce(Staged, good)
               /\ IF good THEN pc' = "own" /\ ok' = ok ELSE GiveUp
    /\ UNCHANGED <<link, addrs, nm, dns, db, txn, dflt, watch, flow, plan, sup, cov>>

\* Addresses owed a removal once the plan's are in place.  A claim whose
\* interface is blank is read as one on the plan's interface.
Owed(d) ==
    LET was == IF d.own.iface = None THEN plan.iface ELSE d.own.iface IN
    (d.stale \cup Pairs([d.own EXCEPT !.iface = was])) \ Pairs(plan)

\* Where an unapplied reconcile returns to: the pass, or the PD callback.
NotApplied ==
    /\ ok' = FALSE
    /\ pc' = IF flow = "pd" THEN "done" ELSE "handback"

\* 3. reconcile_segment_addresses: claim before installing.  An address that
\* is wanted again leaves the ledger before the claim on it is written.
RecordOwnership ==
    /\ pc = "own"
    /\ \/ OwnershipUnreadable /\ NotApplied /\ UNCHANGED <<db, lost>>
       \/ \E w \in WriteOwnership(db, plan, Owed(db)) :
            /\ Charge(w.ok)
            /\ db' = w.v
            /\ lost' = lost \cup ((addrs \cap db.stale) \ (db'.stale \cup Pairs(db'.own)))
            /\ IF w.ok THEN pc' = "addr" /\ ok' = ok ELSE NotApplied
    /\ UNCHANGED <<host, txn, dflt, watch, flow, plan, sup, cov>>

\* `ip addr replace`, IPv4 and then IPv6; the first refusal ends it.
InstallAddrs ==
    /\ pc = "addr"
    /\ \E done \in {{}, {<<plan.iface, plan.a4>>}, Pairs(plan)} :
        /\ done # {} => Present(plan.iface)
        /\ Charge(done = Pairs(plan) \/ ~Present(plan.iface))
        /\ addrs' = addrs \cup done
        /\ IF done = Pairs(plan) THEN pc' = "retire" /\ ok' = ok ELSE NotApplied
    /\ UNCHANGED <<link, rules, fwd, deny, note, nm, dns, db, txn, dflt, watch,
                   flow, plan, sup, cov>>

\* _retire_owned: superseded addresses go, and the ledger keeps the ones that
\* would not.  An `ip` that cannot even be run ends the pass in the middle.
RetireAddrs ==
    /\ pc = "retire"
    /\ \E kept \in SUBSET db.stale :
        /\ addrs' = addrs \ (db.stale \ kept)
        /\ \/ \E w \in WriteOwnership(db, db.own, kept) :
                /\ Charge(w.ok /\ kept = {})
                /\ db' = w.v
                /\ ok' = (ok /\ w.ok /\ kept = {})
                /\ pc' = IF flow = "pd" THEN "lease" ELSE "nm"
           \/ Charge(FALSE) /\ NotApplied /\ UNCHANGED db
    /\ UNCHANGED <<link, rules, fwd, deny, note, nm, dns, txn, dflt, watch, flow,
                   plan, sup, cov>>

DropIn == {plan.iface} \cup sup

\* 4. The drop-in takes both ends of a move from NetworkManager.
TakeFromNM ==
    /\ pc = "nm"
    /\ \E good \in BOOLEAN :
        /\ Charge(good)
        /\ nm' = IF good THEN DropIn ELSE nm
        /\ IF good THEN pc' = "up" /\ ok' = ok ELSE GiveUp
    /\ UNCHANGED <<link, addrs, rules, fwd, deny, note, dns, db, txn, dflt, watch,
                   flow, plan, sup, cov>>

\* 5. activate_segment_link, the commit point of the pass.
Activate ==
    /\ pc = "up"
    /\ \E good \in BOOLEAN :
        /\ good => Present(plan.iface)
        /\ Charge(good \/ ~Present(plan.iface))
        /\ link' = IF good THEN [link EXCEPT ![plan.iface] = "up"] ELSE link
        /\ IF good THEN pc' = "dns" /\ ok' = ok ELSE GiveUp
    /\ UNCHANGED <<addrs, rules, fwd, deny, note, nm, dns, db, txn, dflt, watch,
                   flow, plan, sup, cov>>

\* 6. dnsmasq follows; one that will not come up stops the pass.
ServeDhcp ==
    /\ pc = "dns"
    /\ \E good \in BOOLEAN :
        /\ Charge(good)
        /\ IF good THEN dns' = plan ELSE dns' \in {dns, None}
        /\ IF good THEN pc' = "unlink" /\ ok' = ok ELSE GiveUp
    /\ UNCHANGED <<link, addrs, rules, fwd, deny, note, nm, db, txn, dflt, watch,
                   flow, plan, sup, cov>>

\* _retire_links: a link leaves the ledger once deleted or proven absent.
RetireLinks(owned) ==
    \E gone \in SUBSET owned :
        \E w \in WriteSet(db.links, db.links \ gone) :
            /\ Charge(w.ok /\ gone = owned)
            /\ Without(gone)
            /\ db' = [db EXCEPT !.links = w.v]
            /\ ok' = (ok /\ w.ok /\ gone = owned)

RetireSuperseded ==
    /\ pc = "unlink"
    /\ RetireLinks(db.links \ {plan.iface})
    /\ pc' = "narrow"
    /\ UNCHANGED <<rules, fwd, deny, note, nm, dns, txn, dflt, watch, flow, plan,
                   sup, cov>>

\* Mutant: narrowing as soon as the records can be read.
MayNarrowUnread(readable) == readable

MayNarrow(readable) == readable /\ Cover(db, plan.iface) = {}

\* 7. The ruleset and the drop-in shrink to the plan's interface only when
\* the re-read records name nothing else.
Narrow ==
    /\ pc = "narrow"
    /\ \/ sup = {} /\ Charge(TRUE) /\ UNCHANGED <<rules, fwd, deny, note, nm, ok>>
          /\ pc' = "pd"
       \/ /\ sup # {}
          /\ \E readable, good \in BOOLEAN :
              /\ ~MayNarrow(readable) => good
              /\ Charge(readable /\ good)
              /\ nm' = IF readable /\ Superseded(db, plan.iface) = {}
                       THEN {plan.iface} ELSE nm
              /\ IF MayNarrow(readable) THEN Enforce({plan.iface}, good)
                 ELSE UNCHANGED <<rules, fwd, deny, note>>
              /\ ok' = (ok /\ readable /\ good)
          /\ pc' = "pd"
       \/ /\ sup # {} /\ Charge(FALSE) /\ GiveUp       \* the drop-in, unwritable
          /\ UNCHANGED <<rules, fwd, deny, note, nm>>
    /\ UNCHANGED <<link, addrs, dns, db, txn, dflt, watch, flow, plan, sup, cov>>

\* The PD client is started, or stopped and its prefix forgotten.
FollowPrefix ==
    /\ pc = "pd" /\ pc' = "handback"
    /\ \E good \in BOOLEAN :
        /\ Charge(good)
        /\ ok' = (ok /\ good)
        /\ IF SegmentOf(db).v6 = Automatic
           THEN /\ watch' = IF good /\ watch = Off THEN Unseen ELSE watch
                /\ UNCHANGED db
           ELSE /\ watch' = Off
                /\ \E w \in ForgetPrefix :
                    w.ok = good /\ db' = [db EXCEPT !.pd = w.v]
    /\ UNCHANGED <<host, txn, dflt, flow, plan, sup, cov>>

(***************************************************************************)
(* Segment management switched off                                         *)
(***************************************************************************)

\* clear_managed_addresses, with dnsmasq and the PD prefix gone before it.
ClearAddrs ==
    /\ pc = "off"
    /\ watch' = Off
    /\ \E w \in ForgetPrefix :
        LET d == [db EXCEPT !.pd = w.v]
            held == db.stale \cup Pairs(db.own)
        IN  \/ \E kept \in SUBSET held : \E o \in WriteOwnership(d, Blank, kept) :
                 /\ Charge(w.ok /\ o.ok /\ kept = {})
                 /\ addrs' = addrs \ (held \ kept)
                 /\ db' = o.v
                 /\ dns' = None
                 /\ ok' = (ok /\ w.ok /\ o.ok /\ kept = {})
                 /\ pc' = "offlinks"
            \/ /\ OwnershipUnreadable
               /\ db' = d /\ dns' = None /\ ok' = FALSE /\ pc' = "offlinks"
               /\ UNCHANGED addrs
            \/ /\ Charge(FALSE)                       \* dnsmasq will not stop
               /\ db' = d /\ GiveUp
               /\ UNCHANGED <<addrs, dns>>
    /\ UNCHANGED <<link, rules, fwd, deny, note, nm, txn, dflt, flow, plan, sup,
                   cov>>

\* clear_managed_link and remove_nm_unmanaged.
ClearLinks ==
    /\ pc = "offlinks"
    /\ RetireLinks(db.links)
    /\ nm' = {}
    /\ pc' = "handback"
    /\ UNCHANGED <<rules, fwd, deny, note, dns, txn, dflt, watch, flow, plan, sup,
                   cov>>

PassStep ==
    \/ RecordOwnership
    \/ /\ \/ Drain \/ ReadPlan \/ RecordLink \/ AddLink \/ Stage \/ InstallAddrs
          \/ RetireAddrs \/ TakeFromNM \/ Activate \/ ServeDhcp
          \/ RetireSuperseded \/ Narrow \/ FollowPrefix \/ ClearAddrs \/ ClearLinks
       /\ UNCHANGED lost
=============================================================================
