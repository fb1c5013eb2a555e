--------------------------- MODULE SegmentProofs ---------------------------
(***************************************************************************)
(* Proofs about Provision and SegmentChange, for any interfaces, addresses *)
(* and segments, and any number of failures, crashes and requests: types,  *)
(* who runs what, the order in which a pass touches the host, and what an  *)
(* operation on which nothing fails leaves behind.  SegmentRecordProofs    *)
(* continues with the records and the rules.                               *)
(***************************************************************************)
EXTENDS SegmentChange, TLAPS

\* write_set and read_set: whichever of the two rows a crash or a failed write leaves behind, and
\* whatever a reported failure really did, a reader of both sees no more and no less than the
\* one-step write the pass is modelled with.
THEOREM WriteSetIsJournalled ==
    ASSUME NEW l, NEW new, l = [rec |-> l.rec, journal |-> l.journal],
           NEW w \in JournalledWrite(l, new)
    PROVE  [v |-> ReadSet(w.l), ok |-> w.ok] \in WriteSet(ReadSet(l), new)
<1> DEFINE r == l.rec
           j == l.journal
<1>1. ASSUME NEW x \in WriteScalar(j, new), w = [l |-> [l EXCEPT !.journal = x.v], ok |-> FALSE]
      PROVE  ReadSet(w.l) \in {r \cup j} \cup {new \cup kept : kept \in SUBSET (r \cup j)} /\ w.ok = FALSE
  <2>1. x.v \in {j, new}
    BY <1>1, Zenon DEF WriteScalar
  <2>2. w.l.rec = r /\ w.l.journal = x.v /\ w.ok = FALSE
    BY <1>1, Zenon
  <2>3. ReadSet(w.l) = r \cup x.v
    BY <2>2, Zenon DEF ReadSet
  <2>4. r \in SUBSET (r \cup j) /\ new \cup r = r \cup new
    BY Zenon
  <2> QED BY <2>1, <2>2, <2>3, <2>4, Zenon
<1>2. ASSUME NEW x \in WriteScalar(r, new), w = [l |-> [rec |-> x.v, journal |-> new], ok |-> FALSE]
      PROVE  ReadSet(w.l) \in {new \cup kept : kept \in SUBSET (r \cup j)} /\ w.ok = FALSE
  <2>1. x.v \in {r, new}
    BY <1>2, Zenon DEF WriteScalar
  <2>2. ReadSet(w.l) = x.v \cup new /\ w.ok = FALSE
    BY <1>2, Zenon DEF ReadSet
  <2>3. r \in SUBSET (r \cup j) /\ {} \in SUBSET (r \cup j)
    BY Zenon
  <2>4. r \cup new = new \cup r /\ new \cup new = new \cup {}
    BY Zenon
  <2> QED BY <2>1, <2>2, <2>3, <2>4, Zenon
<1>3. ASSUME w \in [l: [rec: {new}, journal: {new, {}}], ok: {TRUE}]
      PROVE  ReadSet(w.l) = new /\ w.ok = TRUE
  BY <1>3, Zenon DEF ReadSet
<1>4. ReadSet(l) = r \cup j
  BY Zenon DEF ReadSet
<1> HIDE DEF r, j
<1>5. \/ \E x \in WriteScalar(j, new) : w = [l |-> [l EXCEPT !.journal = x.v], ok |-> FALSE]
      \/ \E x \in WriteScalar(r, new) : w = [l |-> [rec |-> x.v, journal |-> new], ok |-> FALSE]
      \/ w \in [l: [rec: {new}, journal: {new, {}}], ok: {TRUE}]
  BY Zenon DEF JournalledWrite, r, j
<1>6. \/ w.ok = TRUE /\ ReadSet(w.l) = new
      \/ w.ok = FALSE /\ ReadSet(w.l) \in {ReadSet(l)} \cup {new \cup kept : kept \in SUBSET ReadSet(l)}
  BY <1>1, <1>2, <1>3, <1>4, <1>5, Zenon
<1> QED BY <1>6, Zenon DEF WriteSet

-----------------------------------------------------------------------------
(* What the writes may leave                                               *)

LEMMA WriteScalarType ==
    ASSUME NEW S, NEW old \in S, NEW new \in S, NEW w \in WriteScalar(old, new)
    PROVE  w.v \in S /\ w.ok \in BOOLEAN /\ (w.ok => w.v = new)
BY Zenon DEF WriteScalar

LEMMA WriteSetType ==
    ASSUME NEW S, NEW old \in SUBSET S, NEW new \in SUBSET S, NEW w \in WriteSet(old, new)
    PROVE  w.v \in SUBSET S /\ w.ok \in BOOLEAN /\ (w.ok => w.v = new)
<1>1. CASE w \in [v: {new}, ok: {TRUE}]
  BY <1>1, Zenon
<1>2. CASE w \in [v: {old} \cup {new \cup kept : kept \in SUBSET old}, ok: {FALSE}]
  <2>1. \A kept \in SUBSET old : new \cup kept \in SUBSET S
    BY Zenon
  <2>2. w.v \in {old} \cup {new \cup kept : kept \in SUBSET old} /\ w.ok = FALSE
    BY <1>2, Zenon
  <2> QED BY <2>1, <2>2, Zenon
<1> QED BY <1>1, <1>2, Zenon DEF WriteSet

LEMMA RecordsUpdate ==
    ASSUME NEW d \in Records
    PROVE  /\ \A x \in SUBSET Pair : [d EXCEPT !.surv = x] \in Records
           /\ \A x \in SUBSET Iface : [d EXCEPT !.links = x] \in Records
           /\ \A x \in SUBSET Pair : [d EXCEPT !.stale = x] \in Records
           /\ \A x \in SUBSET Pair, o \in Owner : [d EXCEPT !.stale = x, !.own = o] \in Records
           /\ \A x \in Candidate \cup {None} : [d EXCEPT !.pend = x] \in Records
           /\ \A x \in Addr \cup {None} : [d EXCEPT !.pd = x] \in Records
           /\ \A x \in Seg, m \in BOOLEAN : [d EXCEPT !.cfg = x, !.manage = m] \in Records
BY Zenon DEF Records

LEMMA WriteOwnershipType ==
    ASSUME NEW d \in Records, NEW own \in Owner, NEW stale \in SUBSET Pair,
           NEW w \in WriteOwnership(d, own, stale)
    PROVE  w.v \in Records /\ w.ok \in BOOLEAN /\ (w.ok => w.v.stale = stale)
<1>1. d.stale \in SUBSET Pair /\ d.own \in Owner
  BY Zenon DEF Records
<1>2. ASSUME NEW s \in WriteSet(d.stale, stale), ~s.ok,
             w = [v |-> [d EXCEPT !.stale = s.v], ok |-> FALSE]
      PROVE  w.v \in Records /\ w.ok = FALSE
  <2>1. s.v \in SUBSET Pair
    BY <1>1, <1>2, WriteSetType, Zenon
  <2>2. [d EXCEPT !.stale = s.v] \in Records
    BY <2>1, RecordsUpdate, Zenon
  <2> QED BY <1>2, <2>2, Zenon
<1>3. ASSUME NEW o \in WriteScalars(d.own, own),
             w = [v |-> [d EXCEPT !.stale = stale, !.own = o.v], ok |-> o.ok]
      PROVE  w.v \in Records /\ w.ok \in BOOLEAN /\ w.v.stale = stale
  <2>1. o.v \in Owner /\ o.ok \in BOOLEAN
    BY <1>1, <1>3, Zenon DEF Owner, WriteScalars
  <2>2. [d EXCEPT !.stale = stale, !.own = o.v] \in Records
    BY <2>1, RecordsUpdate, Zenon
  <2>3. [d EXCEPT !.stale = stale, !.own = o.v].stale = stale
    BY Zenon DEF Records
  <2>4. w.v = [d EXCEPT !.stale = stale, !.own = o.v] /\ w.ok = o.ok
    BY <1>3, Zenon
  <2> QED BY <2>1, <2>2, <2>3, <2>4, Zenon
<1>4. \/ \E s \in WriteSet(d.stale, stale) :
            ~s.ok /\ w = [v |-> [d EXCEPT !.stale = s.v], ok |-> FALSE]
      \/ \E o \in WriteScalars(d.own, own) :
            w = [v |-> [d EXCEPT !.stale = stale, !.own = o.v], ok |-> o.ok]
  BY Zenon DEF WriteOwnership
<1> QED BY <1>2, <1>3, <1>4, Zenon

\* _record_ownership: only the claim and the ledger are written, and the claim only over a ledger
\* that is already what it should be.
LEMMA OwnershipWritten ==
    ASSUME NEW d \in Records, NEW own \in Owner, NEW stale \in SUBSET Pair,
           NEW w \in WriteOwnership(d, own, stale)
    PROVE  /\ w.v.surv = d.surv /\ w.v.links = d.links /\ w.v.pend = d.pend
           /\ w.v.cfg = d.cfg /\ w.v.manage = d.manage /\ w.v.pd = d.pd
           /\ \/ w.v.own = d.own /\ (w.v.stale = d.stale \/ stale \subseteq w.v.stale) /\ ~w.ok
              \/ /\ w.v.stale = stale
                 /\ w.v.own.iface \in {d.own.iface, own.iface}
                 /\ w.v.own.a4 \in {d.own.a4, own.a4} /\ w.v.own.a6 \in {d.own.a6, own.a6}
           /\ w.ok => w.v.own = own
<1>1. d.stale \in SUBSET Pair /\ d.own \in Owner
  BY Zenon DEF Records
<1>2. ASSUME NEW s \in WriteSet(d.stale, stale), ~s.ok,
             w = [v |-> [d EXCEPT !.stale = s.v], ok |-> FALSE]
      PROVE  s.v = d.stale \/ stale \subseteq s.v
  BY <1>2, Zenon DEF WriteSet
<1>3. ASSUME NEW s \in WriteSet(d.stale, stale), ~s.ok,
             w = [v |-> [d EXCEPT !.stale = s.v], ok |-> FALSE]
      PROVE  /\ w.v.surv = d.surv /\ w.v.links = d.links /\ w.v.pend = d.pend
             /\ w.v.cfg = d.cfg /\ w.v.manage = d.manage /\ w.v.pd = d.pd
             /\ w.v.own = d.own /\ w.v.stale = s.v /\ w.ok = FALSE
  BY <1>3, Zenon DEF Records
<1>4. ASSUME NEW o \in WriteScalars(d.own, own)
      PROVE  /\ o.v.iface \in {d.own.iface, own.iface}
             /\ o.v.a4 \in {d.own.a4, own.a4} /\ o.v.a6 \in {d.own.a6, own.a6}
             /\ o.ok => o.v = own
  BY <1>4, Zenon DEF WriteScalars
<1>5. ASSUME NEW o \in WriteScalars(d.own, own),
             w = [v |-> [d EXCEPT !.stale = stale, !.own = o.v], ok |-> o.ok]
      PROVE  /\ w.v.surv = d.surv /\ w.v.links = d.links /\ w.v.pend = d.pend
             /\ w.v.cfg = d.cfg /\ w.v.manage = d.manage /\ w.v.pd = d.pd
             /\ w.v.own = o.v /\ w.v.stale = stale /\ w.ok = o.ok
  BY <1>5, Zenon DEF Records
<1>6. \/ \E s \in WriteSet(d.stale, stale) :
            ~s.ok /\ w = [v |-> [d EXCEPT !.stale = s.v], ok |-> FALSE]
      \/ \E o \in WriteScalars(d.own, own) :
            w = [v |-> [d EXCEPT !.stale = stale, !.own = o.v], ok |-> o.ok]
  BY Zenon DEF WriteOwnership
<1>7. CASE \E s \in WriteSet(d.stale, stale) :
            ~s.ok /\ w = [v |-> [d EXCEPT !.stale = s.v], ok |-> FALSE]
  BY <1>2, <1>3, <1>7, Zenon
<1>8. CASE \E o \in WriteScalars(d.own, own) :
            w = [v |-> [d EXCEPT !.stale = stale, !.own = o.v], ok |-> o.ok]
  <2>1. PICK o \in WriteScalars(d.own, own) :
            w = [v |-> [d EXCEPT !.stale = stale, !.own = o.v], ok |-> o.ok]
    BY <1>8, Zenon
  <2>2. /\ w.v.surv = d.surv /\ w.v.links = d.links /\ w.v.pend = d.pend
        /\ w.v.cfg = d.cfg /\ w.v.manage = d.manage /\ w.v.pd = d.pd
        /\ w.v.own = o.v /\ w.v.stale = stale /\ w.ok = o.ok
    BY <1>5, <2>1, Zenon
  <2> QED BY <1>4, <2>2
<1> QED BY <1>6, <1>7, <1>8, Zenon

LEMMA RewriteKeepsClaim ==
    ASSUME NEW d \in Records, NEW stale \in SUBSET d.stale, NEW w \in WriteOwnership(d, d.own, stale)
    PROVE  w.v.own = d.own
<1>1. d.own \in Owner /\ stale \in SUBSET Pair
  BY Zenon DEF Records
<1>2. w.v \in Records
  BY <1>1, WriteOwnershipType, Zenon
<1>3. w.v.own.iface = d.own.iface /\ w.v.own.a4 = d.own.a4 /\ w.v.own.a6 = d.own.a6
  BY <1>1, OwnershipWritten
<1>4. w.v.own \in Owner
  BY <1>2, Zenon DEF Records
<1> QED BY <1>1, <1>3, <1>4 DEF Owner

-----------------------------------------------------------------------------
(* What is read from the records and from a plan                           *)

Drawn == [iface: Iface, a4: Addr, a6: Addr \cup {None}]

LEMMA PairsType ==
    ASSUME NEW own \in Owner \cup Candidate \cup {None}
    PROVE  Pairs(own) \in SUBSET Pair
<1>1. CASE own = None \/ own.iface = None
  BY <1>1, Zenon DEF Pairs
<1>2. CASE ~(own = None \/ own.iface = None)
  <2>1. own.iface \in Iface /\ {own.a4, own.a6} \ {None} \subseteq Addr
    BY <1>2, Zenon DEF Owner, Candidate
  <2> QED BY <1>2, <2>1 DEF Pairs, Pair
<1> QED BY <1>1, <1>2, Zenon

LEMMA IfacesType ==
    ASSUME NEW pairs \in SUBSET Pair
    PROVE  Ifaces(pairs) \in SUBSET Iface
BY Zenon DEF Ifaces, Pair

LEMMA CoverType ==
    ASSUME NEW d \in Records, NEW i
    PROVE  Superseded(d, i) \in SUBSET Iface /\ Cover(d, i) \in SUBSET Iface
<1>1. /\ d.own.iface \in Iface \cup {None} /\ d.stale \in SUBSET Pair /\ d.links \in SUBSET Iface
      /\ d.surv \in SUBSET Pair /\ d.pend \in Candidate \cup {None}
  BY Zenon DEF Records, Owner
<1>2. Ifaces(d.stale) \in SUBSET Iface /\ Ifaces(d.surv) \in SUBSET Iface
  BY <1>1, IfacesType, Zenon
<1>3. Superseded(d, i) \in SUBSET Iface
  BY <1>1, <1>2, Zenon DEF Superseded
<1>4. Pending(d) \in SUBSET Iface
  BY <1>1, Zenon DEF Pending, Candidate
<1> QED BY <1>2, <1>3, <1>4, Zenon DEF Cover

LEMMA PlanType ==
    ASSUME NEW d \in Records, dflt \in Seg, NEW pd \in Addr \cup {None}
    PROVE  PlanOf(d, pd) \in Drawn /\ PlanOf(d, pd) \in Owner /\ SegmentOf(d) \in Seg
<1>1. SegmentOf(d) \in Seg
  BY Zenon DEF SegmentOf, Records
<1>2. PICK seg \in Seg : seg = SegmentOf(d)
  BY <1>1, Zenon
<1>3. seg.iface \in Iface /\ seg.a4 \in Addr /\ seg.v6 \in Addr \cup {Automatic, None}
  BY <1>2, ConstantsAssumption, Zenon DEF ConstantsAssumption
<1>4. Ula \in Addr
  BY ConstantsAssumption, Zenon DEF ConstantsAssumption
<1>5. Resolved6(seg, pd) \in Addr \cup {None}
  BY <1>3, <1>4, Zenon DEF Resolved6
<1>6. PlanOf(d, pd) = [iface |-> seg.iface, a4 |-> seg.a4, a6 |-> Resolved6(seg, pd)]
  BY <1>2, Zenon DEF PlanOf
<1> QED BY <1>1, <1>3, <1>5, <1>6 DEF Drawn, Owner

LEMMA DrawnPairs ==
    ASSUME NEW p \in Drawn
    PROVE  /\ p \in Owner /\ p.iface \in Iface /\ p.a4 \in Addr
           /\ Pairs(p) = {<<p.iface, a>> : a \in {p.a4, p.a6} \ {None}}
           /\ Pairs(p) \in SUBSET Pair
<1>1. p \in Owner /\ p.iface \in Iface /\ p.a4 \in Addr
  BY Zenon DEF Drawn, Owner
<1>2. p.iface # None /\ p # None
  BY <1>1, ConstantsAssumption, Zenon DEF ConstantsAssumption
<1> QED BY <1>1, <1>2, PairsType, Zenon DEF Pairs

LEMMA OwedType ==
    ASSUME NEW d \in Records, plan \in Drawn
    PROVE  Owed(d) \in SUBSET Pair /\ Owed(d) \cap Pairs(plan) = {}
<1> DEFINE was == IF d.own.iface = None THEN plan.iface ELSE d.own.iface
<1>1. d.own \in Owner /\ d.stale \in SUBSET Pair
  BY Zenon DEF Records
<1>2. [d.own EXCEPT !.iface = was] \in Owner
  BY <1>1, DrawnPairs, Zenon DEF Owner
<1>3. Pairs([d.own EXCEPT !.iface = was]) \in SUBSET Pair
  BY <1>2, PairsType, Zenon
<1> QED BY <1>1, <1>3, Zenon DEF Owed

-----------------------------------------------------------------------------
(* The inductive invariant                                                 *)

HostType ==
    /\ link \in [Iface -> {"absent", "down", "up"}]
    /\ addrs \in SUBSET Pair /\ rules \in SUBSET Iface /\ nm \in SUBSET Iface
    /\ fwd \in BOOLEAN /\ deny \in BOOLEAN /\ note \in BOOLEAN
    /\ dns \in Owner \cup {None}

RecordType == db \in Records /\ txn \in Records \cup {None} /\ dflt \in Seg

Wish == [cfg: Seg \cup {None}, manage: BOOLEAN]

LocalType ==
    /\ plan \in Owner /\ sup \in SUBSET Iface /\ ok \in BOOLEAN
    /\ cov = None \/ cov \in SUBSET Iface
    /\ pc \in {"link", "add", "stage", "own", "addr", "retire", "nm", "up", "dns", "unlink",
               "narrow", "pd", "lease"} => plan \in Drawn

CallerType ==
    /\ want \in Wish /\ cand \in Candidate \cup {None} /\ inst \in Owner
    /\ names \in SUBSET Iface /\ lost \in SUBSET Pair
    /\ watch \in Addr \cup {None, Off, Unseen} /\ ring \in Addr \cup {None, Off}
    /\ mishaps \in 0..MaxMishaps /\ ops \in 0..MaxOps /\ calm \in BOOLEAN
    /\ pc \in {"render", "guard", "arm", "begin"} => want.cfg \in Seg

Change == {"put", "restore"}

Open == {"drain", "plan", "link", "add", "stage", "own", "addr", "retire", "nm", "up", "dns",
         "unlink", "narrow", "pd", "off", "offlinks", "handback", "sync", "commit", "rollback"}

\* Which operation may be at which call: a transaction is open exactly while a request is between
\* its settings and its commit, and the PD callback runs only the part of the pass it calls.
Lanes ==
    /\ (txn # None) = (flow \in Change /\ pc \in Open)
    /\ pc \in Open \cup {"lease"} => flow \in Change \cup {"recover", "boot", "pd"}
    /\ pc \in {"begin", "sync", "commit", "rollback"} => flow \in Change
    /\ pc \in {"render", "guard", "arm"} => flow = "restore"
    /\ pc \in {"idle", "boot"} => flow = "none" /\ sup = {}
    /\ pc \in {"fallback", "resume"} => flow = "boot"
    /\ pc = "lease" => flow = "pd"
    /\ flow = "pd" => /\ pc \in {"own", "addr", "retire", "lease", "done"}
                      /\ sup = {} /\ ring \in Addr \cup {None}

\* What the pass has achieved by the time dnsmasq is told: the claim is written before the
\* addresses go on, no address of the plan is still owed a removal, and the link is up.
Achieved ==
    /\ pc \in {"addr", "retire"} => db.stale \cap Pairs(plan) = {}
    /\ pc \in {"addr", "retire", "nm", "up", "dns", "unlink", "narrow", "pd", "lease"} => db.own = plan
    /\ pc \in {"retire", "nm", "up", "dns", "lease"} => Pairs(plan) \subseteq addrs
    /\ pc = "dns" => link[plan.iface] = "up"

\* On a move, the ruleset names the new interface from the staging to the activation.
Covered == pc \in {"own", "addr", "retire", "nm", "up"} /\ sup # {} => plan.iface \in rules

SInv == HostType /\ RecordType /\ LocalType /\ CallerType /\ Lanes /\ Achieved /\ Covered

-----------------------------------------------------------------------------
(* The host keeps its type                                                 *)

LEMMA EnforceType ==
    ASSUME HostType, NEW names_ \in SUBSET Iface, NEW good \in BOOLEAN, Enforce(names_, good)
    PROVE  rules' \in SUBSET Iface /\ fwd' \in BOOLEAN /\ deny' \in BOOLEAN /\ note' \in BOOLEAN
BY Zenon DEF HostType, Enforce

LEMMA SyncType ==
    ASSUME HostType, RecordType, NEW good \in BOOLEAN, SyncNet(good)
    PROVE  rules' \in SUBSET Iface /\ fwd' \in BOOLEAN /\ deny' \in BOOLEAN /\ note' \in BOOLEAN
<1> DEFINE i == SegmentOf(db).iface
<1>1. i \in Iface
  <2>1. SegmentOf(db) \in Seg
    BY PlanType, Zenon DEF RecordType
  <2> QED BY <2>1, ConstantsAssumption, Zenon DEF ConstantsAssumption
<1>2. Cover(db, i) \in SUBSET Iface
  BY CoverType, Zenon DEF RecordType
<1>3. {i} \cup Cover(db, i) \in SUBSET Iface
  BY <1>1, <1>2, Zenon
<1> QED BY <1>3, EnforceType, Zenon DEF SyncNet

LEMMA WithoutType ==
    ASSUME HostType, NEW gone, Without(gone)
    PROVE  link' \in [Iface -> {"absent", "down", "up"}] /\ addrs' \in SUBSET Pair
BY Zenon DEF HostType, Without

LEMMA HostPass ==
    ASSUME SInv, PassStep
    PROVE  HostType'
<1> USE DEF SInv
<1>1. ASSUME UNCHANGED host PROVE HostType'
  BY <1>1, Zenon DEF host, HostType
<1>2. CASE Drain \/ RecordLink \/ RecordOwnership \/ FollowPrefix
  BY <1>1, <1>2, Zenon DEF Drain, RecordLink, RecordOwnership, FollowPrefix
<1>3. CASE ReadPlan
  BY <1>3, Zenon DEF ReadPlan, HostType
<1>4. CASE AddLink
  BY <1>4, Zenon DEF AddLink, HostType
<1>5. CASE Stage
  <2>1. CASE UNCHANGED <<rules, fwd, deny, note>>
    BY <1>5, <2>1, Zenon DEF Stage, HostType
  <2>2. ASSUME NEW good \in BOOLEAN, Enforce(Staged, good), cov # None PROVE HostType'
    <3>1. Staged \in SUBSET Iface
      BY <1>5, <2>2, DrawnPairs, Zenon DEF Stage, Staged, LocalType
    <3> QED BY <1>5, <2>2, <3>1, EnforceType, Zenon DEF Stage, HostType
  <2> QED BY <1>5, <2>1, <2>2, Zenon DEF Stage
<1>6. CASE InstallAddrs
  <2>1. plan \in Drawn
    BY <1>6, Zenon DEF InstallAddrs, LocalType
  <2>2. {<<plan.iface, plan.a4>>} \in SUBSET Pair /\ Pairs(plan) \in SUBSET Pair
    BY <2>1, DrawnPairs DEF Pair
  <2>3. addrs' \in SUBSET Pair
    BY <1>6, <2>2, Zenon DEF InstallAddrs, HostType
  <2> QED BY <1>6, <2>3, Zenon DEF InstallAddrs, HostType
<1>7. CASE RetireAddrs
  BY <1>7, Zenon DEF RetireAddrs, HostType
<1>8. CASE TakeFromNM
  <2>1. DropIn \in SUBSET Iface
    BY <1>8, DrawnPairs, Zenon DEF TakeFromNM, DropIn, LocalType
  <2> QED BY <1>8, <2>1, Zenon DEF TakeFromNM, HostType
<1>9. CASE Activate
  BY <1>9, Zenon DEF Activate, HostType
<1>10. CASE ServeDhcp
  BY <1>10, Zenon DEF ServeDhcp, HostType, LocalType
<1>11. CASE RetireSuperseded
  BY <1>11, WithoutType, Zenon DEF RetireSuperseded, RetireLinks, HostType
<1>12. CASE Narrow
  <2>1. plan.iface \in Iface
    BY <1>12, DrawnPairs, Zenon DEF Narrow, LocalType
  <2>2. CASE UNCHANGED <<rules, fwd, deny, note, nm>>
    BY <1>12, <2>2, Zenon DEF Narrow, HostType
  <2>3. ASSUME NEW good \in BOOLEAN,
               Enforce({plan.iface}, good) \/ UNCHANGED <<rules, fwd, deny, note>>,
               nm' \in {{plan.iface}, nm}
        PROVE  HostType'
    BY <1>12, <2>1, <2>3, EnforceType, Zenon DEF Narrow, HostType
  <2> QED BY <1>12, <2>2, <2>3, Zenon DEF Narrow
<1>13. CASE ClearAddrs
  <2>1. addrs' \in SUBSET Pair /\ dns' \in {dns, None}
    BY <1>13, Zenon DEF ClearAddrs, HostType
  <2> QED BY <1>13, <2>1, Zenon DEF ClearAddrs, HostType
<1>14. CASE ClearLinks
  BY <1>14, WithoutType, Zenon DEF ClearLinks, RetireLinks, HostType
<1> QED BY <1>2, <1>3, <1>4, <1>5, <1>6, <1>7, <1>8, <1>9, <1>10, <1>11, <1>12, <1>13, <1>14, Zenon
        DEF PassStep

LEMMA HostStep ==
    ASSUME SInv, [Next]_vars
    PROVE  HostType'
<1> USE DEF SInv
<1>1. ASSUME UNCHANGED host PROVE HostType'
  BY <1>1, Zenon DEF host, HostType
<1>2. ASSUME UNCHANGED <<link, addrs, nm, dns>>,
             rules' \in SUBSET Iface, fwd' \in BOOLEAN, deny' \in BOOLEAN, note' \in BOOLEAN
      PROVE  HostType'
  BY <1>2, Zenon DEF HostType
<1>3. CASE Pass
  BY <1>3, HostPass, Zenon DEF Pass
<1>4. CASE Begin \/ Commit \/ Rollback \/ Clear \/ Finish \/ RenderGuard \/ ArmCandidate
           \/ SettlePreflight \/ ResumeUndo \/ PrefixChanged \/ UNCHANGED vars
  BY <1>1, <1>4, Zenon DEF Begin, Commit, Rollback, Clear, Finish, RenderGuard, ArmCandidate, SettlePreflight,
                    ResumeUndo, PrefixChanged, vars
<1>5. CASE HandBack
  <2>1. PICK good \in BOOLEAN : Released(good)
    BY <1>5, Zenon DEF HandBack
  <2>2. CASE note
    BY <1>2, <1>5, <2>1, <2>2, SyncType, Zenon DEF HandBack, Released
  <2>3. CASE ~note
    BY <1>1, <1>5, <2>1, <2>3, Zenon DEF HandBack, Released, host
  <2> QED BY <2>2, <2>3, Zenon
<1>6. CASE SyncAndCommit \/ Resync \/ BootGuard \/ SyncAtIdle
  <2>1. PICK good \in BOOLEAN : SyncNet(good)
    BY <1>6, Zenon DEF SyncAndCommit, Resync, BootGuard, SyncAtIdle
  <2>2. UNCHANGED <<link, addrs, nm, dns>>
    BY <1>6, Zenon DEF SyncAndCommit, Resync, BootGuard, SyncAtIdle
  <2> QED BY <1>2, <2>1, <2>2, SyncType, Zenon
<1>7. CASE Undo
  <2>1. CASE UNCHANGED <<link, addrs>>
    BY <1>7, <2>1, Zenon DEF Undo, HostType
  <2>2. CASE Without({cand.iface})
    BY <1>7, <2>2, WithoutType, Zenon DEF Undo, HostType
  <2> QED BY <1>7, <2>1, <2>2, Zenon DEF Undo
<1>8. CASE InstallGuard
  <2>1. PICK good \in BOOLEAN : Enforce(names, good)
    BY <1>8, Zenon DEF InstallGuard
  <2> QED BY <1>2, <1>8, <2>1, EnforceType, Zenon DEF InstallGuard, CallerType
<1>9. CASE Fallback
  BY <1>9, Zenon DEF Fallback, HostType
<1>10. CASE RecordLease
  <2>1. dns' \in {dns, plan, None}
    BY <1>10, Zenon DEF RecordLease
  <2> QED BY <1>10, <2>1, Zenon DEF RecordLease, HostType, LocalType
<1>11. ASSUME NEW seg \in Seg, PutNetwork(seg) PROVE UNCHANGED host
  BY <1>11, Zenon DEF PutNetwork
<1>12. ASSUME NEW seg \in Seg, NEW manage \in BOOLEAN, RestoreBackup(seg, manage) PROVE UNCHANGED host
  BY <1>12, Zenon DEF RestoreBackup
<1>13. ASSUME NEW p \in Prefix \cup {None}, PollPrefix(p) PROVE UNCHANGED host
  BY <1>13, Zenon DEF PollPrefix
<1>14. ASSUME NEW i \in Iface, OperatorCleans(i) PROVE HostType'
  <2>1. CASE UNCHANGED link /\ addrs' = {p \in addrs : p[1] # i}
    BY <1>14, <2>1, Zenon DEF OperatorCleans, HostType
  <2>2. CASE Without({i})
    BY <1>14, <2>2, WithoutType, Zenon DEF OperatorCleans, HostType
  <2> QED BY <1>14, <2>1, <2>2, Zenon DEF OperatorCleans
<1>15. CASE Crash
  BY <1>15, Zenon DEF Crash, Restarted, HostType
<1>16. CASE Reboot
  BY <1>16, Zenon DEF Reboot, Restarted, HostType
<1> QED BY Zenon, <1>1, <1>3, <1>4, <1>5, <1>6, <1>7, <1>8, <1>9, <1>10, <1>11, <1>12, <1>13, <1>14, <1>15,
           <1>16
        DEF Next, Step

-----------------------------------------------------------------------------
(* The records keep their type                                             *)

LEMMA RecordPass ==
    ASSUME SInv, PassStep
    PROVE  RecordType'
<1> USE DEF SInv
<1>1. UNCHANGED <<txn, dflt>>
  BY Zenon DEF PassStep, Drain, ReadPlan, RecordLink, AddLink, Stage, InstallAddrs, RetireAddrs, TakeFromNM,
         Activate, ServeDhcp, RetireSuperseded, Narrow, FollowPrefix, ClearAddrs, ClearLinks,
         RecordOwnership
<1>2. /\ db \in Records /\ db.surv \in SUBSET Pair /\ db.links \in SUBSET Iface
      /\ db.stale \in SUBSET Pair /\ db.own \in Owner /\ db.pd \in Addr \cup {None}
  BY Zenon DEF RecordType, Records
<1>3. SUFFICES db' \in Records
  BY <1>1, <1>3, Zenon DEF RecordType
<1>4. CASE UNCHANGED db
  BY <1>2, <1>4, Zenon
<1>5. CASE Drain
  <2>1. PICK gone \in SUBSET ProvenGone(db.surv) :
             \E w \in WriteSet(db.surv, db.surv \ gone) : db' = [db EXCEPT !.surv = w.v]
    BY <1>5, Zenon DEF Drain
  <2>2. PICK w \in WriteSet(db.surv, db.surv \ gone) : db' = [db EXCEPT !.surv = w.v]
    BY <2>1, Zenon
  <2>3. w.v \in SUBSET Pair
    BY <1>2, WriteSetType
  <2> QED BY <1>2, <2>2, <2>3, RecordsUpdate, Zenon
<1>6. CASE RecordLink
  <2>1. ASSUME NEW w \in WriteSet(db.links, db.links \cup {plan.iface}), db' = [db EXCEPT !.links = w.v]
        PROVE  db' \in Records
    <3>1. plan.iface \in Iface
      BY <1>6, DrawnPairs, Zenon DEF RecordLink, LocalType
    <3>2. w.v \in SUBSET Iface
      BY <1>2, <3>1, WriteSetType
    <3> QED BY <1>2, <2>1, <3>2, RecordsUpdate, Zenon
  <2> QED BY <1>4, <1>6, <2>1, Zenon DEF RecordLink
<1>7. CASE RecordOwnership
  <2>1. plan \in Drawn /\ plan \in Owner
    BY <1>7, Zenon DEF RecordOwnership, LocalType
  <2>2. Owed(db) \in SUBSET Pair
    BY <1>2, <2>1, OwedType, Zenon
  <2>3. ASSUME NEW w \in WriteOwnership(db, plan, Owed(db)), db' = w.v PROVE db' \in Records
    BY <1>2, <2>1, <2>2, <2>3, WriteOwnershipType, Zenon
  <2> QED BY <1>4, <1>7, <2>3, Zenon DEF RecordOwnership
<1>8. CASE RetireAddrs
  <2>1. ASSUME NEW kept \in SUBSET db.stale, NEW w \in WriteOwnership(db, db.own, kept), db' = w.v
        PROVE  db' \in Records
    <3>1. kept \in SUBSET Pair
      BY <1>2, Zenon
    <3> QED BY <1>2, <2>1, <3>1, WriteOwnershipType, Zenon
  <2> QED BY <1>4, <1>8, <2>1, Zenon DEF RetireAddrs
<1>9. CASE RetireSuperseded \/ ClearLinks
  <2>1. PICK owned : RetireLinks(owned)
    BY <1>9, Zenon DEF RetireSuperseded, ClearLinks
  <2>2. PICK gone \in SUBSET owned :
             \E w \in WriteSet(db.links, db.links \ gone) : db' = [db EXCEPT !.links = w.v]
    BY <2>1, Zenon DEF RetireLinks
  <2>3. PICK w \in WriteSet(db.links, db.links \ gone) : db' = [db EXCEPT !.links = w.v]
    BY <2>2, Zenon
  <2>4. w.v \in SUBSET Iface
    BY <1>2, WriteSetType
  <2> QED BY <1>2, <2>3, <2>4, RecordsUpdate, Zenon
<1>10. CASE FollowPrefix
  <2>1. ASSUME NEW w \in ForgetPrefix, db' = [db EXCEPT !.pd = w.v] PROVE db' \in Records
    <3>1. w.v \in Addr \cup {None}
      BY <1>2, <2>1, WriteScalarType, Zenon DEF ForgetPrefix
    <3> QED BY <1>2, <2>1, <3>1, RecordsUpdate, Zenon
  <2> QED BY <1>4, <1>10, <2>1, Zenon DEF FollowPrefix
<1>11. CASE ClearAddrs
  <2>1. PICK w \in ForgetPrefix :
             \/ db' = [db EXCEPT !.pd = w.v]
             \/ \E kept \in SUBSET (db.stale \cup Pairs(db.own)) :
                \E o \in WriteOwnership([db EXCEPT !.pd = w.v], Blank, kept) : db' = o.v
    BY <1>11, Zenon DEF ClearAddrs
  <2>2. w.v \in Addr \cup {None}
    BY <1>2, <2>1, WriteScalarType, Zenon DEF ForgetPrefix
  <2>3. [db EXCEPT !.pd = w.v] \in Records
    BY <1>2, <2>2, RecordsUpdate, Zenon
  <2>4. Blank \in Owner
    BY Zenon DEF Blank, Owner
  <2>5. db.stale \cup Pairs(db.own) \in SUBSET Pair
    BY <1>2, PairsType, Zenon
  <2>6. ASSUME NEW kept \in SUBSET (db.stale \cup Pairs(db.own)),
               NEW o \in WriteOwnership([db EXCEPT !.pd = w.v], Blank, kept)
        PROVE  o.v \in Records
    <3>1. kept \in SUBSET Pair
      BY <2>5, Zenon
    <3> QED BY <2>3, <2>4, <3>1, WriteOwnershipType, Zenon
  <2> QED BY <2>1, <2>3, <2>6, Zenon
<1>12. CASE ReadPlan \/ AddLink \/ Stage \/ InstallAddrs \/ TakeFromNM \/ Activate \/ ServeDhcp \/ Narrow
  BY <1>4, <1>12, Zenon DEF ReadPlan, AddLink, Stage, InstallAddrs, TakeFromNM, Activate, ServeDhcp, Narrow
<1> QED BY <1>5, <1>6, <1>7, <1>8, <1>9, <1>10, <1>11, <1>12, Zenon DEF PassStep

LEMMA CandidateType ==
    ASSUME NEW seg \in Seg, NEW prior \in {"absent", "present", "unknown"}
    PROVE  CandidateFor(seg, prior) \in Candidate
<1>1. seg.iface \in Iface /\ seg.a4 \in Addr /\ seg.v6 \in Addr \cup {Automatic, None}
  BY ConstantsAssumption, Zenon DEF ConstantsAssumption
<1> QED BY <1>1 DEF CandidateFor, Candidate

LEMMA UnarmedType ==
    ASSUME NEW c \in Candidate \cup {None}
    PROVE  Unarmed(c) \in Candidate \cup {None}
BY Zenon DEF Unarmed, Candidate

LEMMA PendType ==
    ASSUME RecordType, NEW c \in Candidate \cup {None}, NEW good \in BOOLEAN,
           RecordCandidate(c, good) \/ ClearCandidate(good) \/ UNCHANGED db
    PROVE  db' \in Records
<1>1. db \in Records /\ db.pend \in Candidate \cup {None}
  BY Zenon DEF RecordType, Records
<1>2. ASSUME NEW x \in Candidate \cup {None}, NEW w \in WriteScalar(db.pend, x),
             db' = [db EXCEPT !.pend = w.v]
      PROVE  db' \in Records
  <2>1. w.v \in Candidate \cup {None}
    BY <1>1, <1>2, WriteScalarType, Zenon
  <2> QED BY <1>1, <1>2, <2>1, RecordsUpdate, Zenon
<1>3. CASE RecordCandidate(c, good)
  BY <1>1, <1>2, <1>3, Zenon DEF RecordCandidate
<1>4. CASE ClearCandidate(good)
  BY <1>2, <1>4, Zenon DEF ClearCandidate
<1> QED BY <1>1, <1>3, <1>4, Zenon

LEMMA PriorType == \A i : Probed(i) \in {"absent", "present", "unknown"}
BY Zenon DEF Probed

\* What a PUT or a restore draws its candidate from.
LEMMA DrawnCandidate ==
    ASSUME NEW seg \in Seg, NEW managed, NEW prior \in {Probed(seg.iface), "unknown"},
           NEW c, c = IF managed THEN CandidateFor(seg, prior) ELSE None
    PROVE  c \in Candidate \cup {None}
<1>1. prior \in {"absent", "present", "unknown"}
  BY PriorType, Zenon
<1> QED BY <1>1, CandidateType, Zenon

LEMMA RecordStep ==
    ASSUME SInv, [Next]_vars
    PROVE  RecordType'
<1> USE DEF SInv
<1>1. db \in Records /\ txn \in Records \cup {None} /\ dflt \in Seg
  BY Zenon DEF RecordType
<1>2. ASSUME UNCHANGED <<db, txn, dflt>> PROVE RecordType'
  BY <1>2, Zenon DEF RecordType
<1>3. ASSUME db' \in Records, UNCHANGED <<txn, dflt>> PROVE RecordType'
  BY <1>1, <1>3, Zenon DEF RecordType
<1>4. CASE Pass
  BY <1>4, RecordPass, Zenon DEF Pass
<1>5. CASE HandBack \/ SyncAndCommit \/ Resync \/ Finish \/ RenderGuard \/ InstallGuard \/ BootGuard
           \/ Fallback \/ ResumeUndo \/ PrefixChanged \/ SyncAtIdle \/ UNCHANGED vars
  BY <1>2, <1>5, Zenon DEF HandBack, SyncAndCommit, Resync, Finish, RenderGuard, InstallGuard, BootGuard,
                    Fallback, ResumeUndo, PrefixChanged, SyncAtIdle, vars
<1>6. CASE Begin
  <2>1. want.cfg \in Seg /\ want.manage \in BOOLEAN
    BY <1>6, Zenon DEF Begin, CallerType, Wish
  <2>2. db' \in Records
    BY <1>1, <1>6, <2>1, RecordsUpdate, Zenon DEF Begin
  <2> QED BY <1>1, <1>6, <2>2, Zenon DEF Begin, RecordType
<1>7. CASE Commit
  BY <1>1, <1>7, Zenon DEF Commit, RecordType
<1>8. CASE Rollback
  <2>1. txn # None
    BY <1>8, Zenon DEF Rollback, Lanes, Open
  <2> QED BY <1>1, <1>8, <2>1, Zenon DEF Rollback, RecordType
<1>9. CASE Undo
  <2>1. ASSUME NEW x \in SUBSET Pair, NEW w \in WriteSet(db.surv, x), db' = [db EXCEPT !.surv = w.v]
        PROVE  db' \in Records
    <3>1. db.surv \in SUBSET Pair
      BY <1>1, Zenon DEF Records
    <3>2. w.v \in SUBSET Pair
      BY <2>1, <3>1, WriteSetType, Zenon
    <3> QED BY <1>1, <2>1, <3>2, RecordsUpdate, Zenon
  <2>2. db.surv \cup Orphans \in SUBSET Pair /\ {p \in db.surv : p[1] # cand.iface} \in SUBSET Pair
    <3>1. db.surv \in SUBSET Pair
      BY <1>1, Zenon DEF Records
    <3>2. Pairs(cand) \in SUBSET Pair /\ Pairs(inst) \in SUBSET Pair
      BY PairsType, Zenon DEF CallerType
    <3> QED BY <3>1, <3>2, Zenon DEF Orphans
  <2>3. db' \in Records
    <3>1. CASE UNCHANGED db
      BY <1>1, <3>1, Zenon
    <3>2. ASSUME NEW w \in ForgetOn(cand.iface), db' = [db EXCEPT !.surv = w.v] PROVE db' \in Records
      BY <2>1, <2>2, <3>2, Zenon DEF ForgetOn
    <3>3. ASSUME NEW w \in Remember(Orphans), db' = [db EXCEPT !.surv = w.v] PROVE db' \in Records
      BY <2>1, <2>2, <3>3, Zenon DEF Remember
    <3> QED BY <1>9, <3>1, <3>2, <3>3, Zenon DEF Undo
  <2> QED BY <1>3, <1>9, <2>3, Zenon DEF Undo
<1>10. CASE Clear \/ SettlePreflight
  <2>1. PICK good \in BOOLEAN : ClearCandidate(good) \/ UNCHANGED db
    BY <1>10, Zenon DEF Clear, SettlePreflight
  <2>2. db' \in Records
    BY <2>1, PendType, Zenon
  <2> QED BY <1>3, <1>10, <2>2, Zenon DEF Clear, SettlePreflight
<1>11. CASE ArmCandidate
  <2>1. PICK good \in BOOLEAN : RecordCandidate(cand, good)
    BY <1>11, Zenon DEF ArmCandidate
  <2>2. db' \in Records
    BY <2>1, PendType, Zenon DEF CallerType
  <2> QED BY <1>3, <1>11, <2>2, Zenon DEF ArmCandidate
<1>12. CASE RecordLease
  <2>1. ring \in Addr \cup {None} /\ db.pd \in Addr \cup {None}
    BY <1>1, <1>12, Zenon DEF RecordLease, Lanes, Records
  <2>2. PICK w \in WriteScalar(db.pd, ring) : db' = [db EXCEPT !.pd = w.v]
    BY <1>12, Zenon DEF RecordLease
  <2>3. w.v \in Addr \cup {None}
    BY <2>1, <2>2, WriteScalarType, Zenon
  <2>4. db' \in Records
    BY <1>1, <2>2, <2>3, RecordsUpdate, Zenon
  <2> QED BY <1>3, <1>12, <2>4, Zenon DEF RecordLease
<1>13. ASSUME NEW seg \in Seg, PutNetwork(seg) PROVE RecordType'
  <2>1. PICK prior \in {Probed(seg.iface), "unknown"}, good \in BOOLEAN :
             /\ cand' = IF db.manage THEN CandidateFor(seg, prior) ELSE None
             /\ RecordCandidate(cand', good)
    BY <1>13, Zenon DEF PutNetwork
  <2>2. PICK c : c = cand' /\ c \in Candidate \cup {None}
    BY <2>1, DrawnCandidate, Zenon
  <2>3. RecordCandidate(c, good)
    BY <2>1, <2>2, Zenon
  <2>4. db' \in Records
    BY <2>2, <2>3, PendType, Zenon
  <2> QED BY <1>3, <1>13, <2>4, Zenon DEF PutNetwork
<1>14. ASSUME NEW seg \in Seg, NEW manage \in BOOLEAN, RestoreBackup(seg, manage) PROVE RecordType'
  <2>1. PICK prior \in {Probed(seg.iface), "unknown"}, good \in BOOLEAN :
             /\ cand' = IF manage THEN CandidateFor(seg, prior) ELSE None
             /\ RecordCandidate(Unarmed(cand'), good)
    BY <1>14, Zenon DEF RestoreBackup
  <2>2. PICK c : c = cand' /\ c \in Candidate \cup {None}
    BY <2>1, DrawnCandidate, Zenon
  <2>3. RecordCandidate(Unarmed(c), good)
    BY <2>1, <2>2, Zenon
  <2>4. db' \in Records
    BY <2>2, <2>3, PendType, UnarmedType, Zenon
  <2> QED BY <1>3, <1>14, <2>4, Zenon DEF RestoreBackup
<1>15. ASSUME NEW p \in Prefix \cup {None}, PollPrefix(p) PROVE RecordType'
  BY <1>2, <1>15, Zenon DEF PollPrefix
<1>16. ASSUME NEW i \in Iface, OperatorCleans(i) PROVE RecordType'
  BY <1>2, <1>16, Zenon DEF OperatorCleans
<1>17. CASE Crash \/ Reboot
  BY <1>1, <1>17, Zenon DEF Crash, Reboot, Restarted, RecordType
<1> QED BY <1>4, <1>5, <1>6, <1>7, <1>8, <1>9, <1>10, <1>11, <1>12, <1>13, <1>14, <1>15, <1>16, <1>17, Zenon
        DEF Next, Step

-----------------------------------------------------------------------------
(* The pass and its callers keep their locals                              *)

LEMMA ForgetType == Forget => /\ plan' \in Owner /\ sup' = {} /\ cov' = {} /\ ok' = TRUE
                             /\ want' \in Wish /\ cand' = None /\ inst' \in Owner /\ names' = {}
                             /\ flow' = "none"
BY DEF Forget, Blank, Owner, NoWish, Wish

LEMMA LocalPass ==
    ASSUME SInv, PassStep
    PROVE  LocalType'
<1> USE DEF SInv
<1>1. CASE ReadPlan
  <2>1. plan' \in Drawn /\ plan' \in Owner
    BY <1>1, PlanType, Zenon DEF ReadPlan, RecordType, Records
  <2>2. \A i : Superseded(db, i) \in SUBSET Iface /\ Cover(db, i) \in SUBSET Iface
    BY CoverType, Zenon DEF RecordType
  <2>3. sup' \in SUBSET Iface /\ (cov' = None \/ cov' \in SUBSET Iface)
    BY <1>1, <2>2, Zenon DEF ReadPlan
  <2>4. ok' \in BOOLEAN
    BY <1>1, Zenon DEF ReadPlan, GiveUp, LocalType
  <2> QED BY <2>1, <2>3, <2>4, Zenon DEF LocalType
<1>2. ASSUME UNCHANGED <<plan, sup, cov>>, ok' \in BOOLEAN,
             \/ pc' \in {"plan", "off", "handback", "done", "offlinks"}
             \/ pc \in {"link", "add", "stage", "own", "addr", "retire", "nm", "up", "dns", "unlink",
                        "narrow", "pd"}
      PROVE  LocalType'
  BY <1>2, Zenon DEF LocalType
<1>3. CASE Drain
  BY <1>2, <1>3, Zenon DEF Drain
<1>4. CASE RecordLink \/ AddLink \/ Stage
  BY <1>2, <1>4, Zenon DEF RecordLink, AddLink, Stage, GiveUp, LocalType
<1>5. CASE RecordOwnership \/ InstallAddrs \/ RetireAddrs
  BY <1>2, <1>5, Zenon DEF RecordOwnership, InstallAddrs, RetireAddrs, NotApplied, LocalType
<1>6. CASE TakeFromNM \/ Activate \/ ServeDhcp
  BY <1>2, <1>6, Zenon DEF TakeFromNM, Activate, ServeDhcp, GiveUp, LocalType
<1>7. CASE RetireSuperseded \/ Narrow \/ FollowPrefix
  BY <1>2, <1>7, Zenon DEF RetireSuperseded, RetireLinks, Narrow, FollowPrefix, GiveUp, LocalType
<1>8. CASE ClearAddrs \/ ClearLinks
  BY <1>2, <1>8, Zenon DEF ClearAddrs, ClearLinks, RetireLinks, GiveUp, LocalType
<1> QED BY <1>1, <1>3, <1>4, <1>5, <1>6, <1>7, <1>8, Zenon DEF PassStep

LEMMA LocalStep ==
    ASSUME SInv, [Next]_vars
    PROVE  LocalType'
<1> USE DEF SInv
<1>1. ASSUME UNCHANGED locals,
             \/ pc' = pc
             \/ pc' \in {"begin", "done", "drain", "undo", "sync", "rollback", "commit", "clear", "resync",
                         "render", "guard", "settle", "arm", "resume", "fallback"}
      PROVE  LocalType'
  BY <1>1, Zenon DEF locals, LocalType
<1>2. CASE Pass
  BY <1>2, LocalPass, Zenon DEF Pass
<1>3. CASE Begin \/ HandBack \/ SyncAndCommit \/ Commit \/ Rollback
  BY <1>1, <1>3, Zenon DEF Begin, HandBack, SyncAndCommit, Commit, Rollback
<1>4. CASE Undo \/ Clear \/ Resync
  BY <1>1, <1>4, Zenon DEF Undo, Settled, Clear, Resync
<1>5. CASE RenderGuard \/ InstallGuard \/ ArmCandidate \/ SettlePreflight
  BY <1>1, <1>5, Zenon DEF RenderGuard, InstallGuard, ArmCandidate, SettlePreflight
<1>6. CASE BootGuard \/ Fallback \/ ResumeUndo \/ RecordLease \/ SyncAtIdle \/ UNCHANGED vars
  BY <1>1, <1>6, Zenon DEF BootGuard, Fallback, ResumeUndo, RecordLease, SyncAtIdle, vars
<1>7. CASE Finish \/ Crash \/ Reboot
  <2>1. Forget /\ pc' \in {"idle", "boot"}
    BY <1>7, Zenon DEF Finish, Crash, Reboot, Restarted
  <2> QED BY <2>1, ForgetType, Zenon DEF LocalType
<1>8. ASSUME NEW seg \in Seg, PutNetwork(seg) PROVE LocalType'
  BY <1>1, <1>8, Zenon DEF PutNetwork
<1>9. ASSUME NEW seg \in Seg, NEW manage \in BOOLEAN, RestoreBackup(seg, manage) PROVE LocalType'
  BY <1>1, <1>9, Zenon DEF RestoreBackup
<1>10. ASSUME NEW p \in Prefix \cup {None}, PollPrefix(p) PROVE LocalType'
  BY <1>1, <1>10, Zenon DEF PollPrefix
<1>11. ASSUME NEW i \in Iface, OperatorCleans(i) PROVE LocalType'
  BY <1>1, <1>11, Zenon DEF OperatorCleans
<1>12. CASE PrefixChanged
  <2>1. CASE ~StillAuto
    BY <1>1, <1>12, <2>1, Zenon DEF PrefixChanged, locals
  <2>2. CASE StillAuto
    <3>1. ring \in Addr \cup {None}
      BY <1>12, Zenon DEF PrefixChanged, CallerType
    <3>2. plan' \in Drawn /\ plan' \in Owner
      BY <1>12, <2>2, <3>1, PlanType, Zenon DEF PrefixChanged, RecordType
    <3> QED BY <1>12, <3>2, Zenon DEF PrefixChanged, LocalType
  <2> QED BY <2>1, <2>2, Zenon
<1> QED BY <1>2, <1>3, <1>4, <1>5, <1>6, <1>7, <1>8, <1>9, <1>10, <1>11, <1>12, Zenon DEF Next, Step

LEMMA LuckStep ==
    ASSUME SInv, [Next]_vars
    PROVE  mishaps' \in 0..MaxMishaps /\ calm' \in BOOLEAN
<1> USE DEF SInv
<1>1. mishaps \in 0..MaxMishaps /\ calm \in BOOLEAN /\ MaxMishaps \in Nat
  BY ConstantsAssumption, Zenon DEF CallerType, ConstantsAssumption
<1>2. ASSUME NEW good, Charge(good) PROVE mishaps' \in 0..MaxMishaps /\ calm' \in BOOLEAN
  BY <1>1, <1>2 DEF Charge, Spend
<1>3. ASSUME UNCHANGED luck PROVE mishaps' \in 0..MaxMishaps /\ calm' \in BOOLEAN
  BY <1>1, <1>3, Zenon DEF luck
<1>4. ASSUME NEW good, Spend(good), calm' \in BOOLEAN PROVE mishaps' \in 0..MaxMishaps
  BY <1>1, <1>4 DEF Spend
<1>5. CASE Pass
  <2>1. CASE Drain \/ ReadPlan \/ RecordLink \/ AddLink \/ Stage
    BY <1>2, <2>1, Zenon DEF Drain, ReadPlan, RecordLink, AddLink, Stage
  <2>2. CASE RecordOwnership \/ InstallAddrs \/ RetireAddrs \/ TakeFromNM \/ Activate
    BY <1>2, <2>2, Zenon DEF RecordOwnership, OwnershipUnreadable, InstallAddrs, RetireAddrs, TakeFromNM, Activate
  <2>3. CASE ServeDhcp \/ RetireSuperseded \/ Narrow \/ FollowPrefix
    BY <1>2, <2>3, Zenon DEF ServeDhcp, RetireSuperseded, RetireLinks, Narrow, FollowPrefix
  <2>4. CASE ClearAddrs \/ ClearLinks
    BY <1>2, <2>4, Zenon DEF ClearAddrs, OwnershipUnreadable, ClearLinks, RetireLinks
  <2> QED BY <1>5, <2>1, <2>2, <2>3, <2>4, Zenon DEF Pass, PassStep
<1>6. CASE HandBack \/ SyncAndCommit \/ Commit \/ Undo \/ Clear \/ Resync
  BY <1>2, <1>6, Zenon DEF HandBack, SyncAndCommit, Commit, Undo, OwnershipUnreadable, Clear, Resync
<1>7. CASE RenderGuard \/ InstallGuard \/ ArmCandidate \/ SettlePreflight
  BY <1>2, <1>7, Zenon DEF RenderGuard, InstallGuard, ArmCandidate, SettlePreflight
<1>8. CASE BootGuard \/ Fallback \/ ResumeUndo \/ RecordLease
  BY <1>2, <1>8, Zenon DEF BootGuard, Fallback, ResumeUndo, RecordLease
<1>9. CASE Begin \/ Rollback \/ PrefixChanged \/ UNCHANGED vars
  BY <1>3, <1>9, Zenon DEF Begin, Rollback, PrefixChanged, vars
<1>10. CASE Finish
  BY <1>1, <1>10, Zenon DEF Finish
<1>11. CASE SyncAtIdle
  BY <1>1, <1>4, <1>11, Zenon DEF SyncAtIdle
<1>12. CASE Crash \/ Reboot
  BY <1>4, <1>12, Zenon DEF Crash, Reboot, Restarted
<1>13. ASSUME NEW seg \in Seg, PutNetwork(seg) PROVE \E good : Charge(good)
  BY <1>13, Zenon DEF PutNetwork
<1>14. ASSUME NEW seg \in Seg, NEW manage \in BOOLEAN, RestoreBackup(seg, manage)
       PROVE  \E good : Charge(good)
  BY <1>14, Zenon DEF RestoreBackup
<1>15. ASSUME NEW p \in Prefix \cup {None}, PollPrefix(p) PROVE UNCHANGED luck
  BY <1>15, Zenon DEF PollPrefix
<1>16. ASSUME NEW i \in Iface, OperatorCleans(i) PROVE UNCHANGED luck
  BY <1>16, Zenon DEF OperatorCleans
<1> QED BY <1>2, <1>3, <1>5, <1>6, <1>7, <1>8, <1>9, <1>10, <1>11, <1>12, <1>13, <1>14, <1>15, <1>16, Zenon
        DEF Next, Step

LEMMA LostStep ==
    ASSUME SInv, [Next]_vars
    PROVE  lost' \in SUBSET Pair
<1> USE DEF SInv
<1>1. lost \in SUBSET Pair /\ addrs \in SUBSET Pair
  BY Zenon DEF CallerType, HostType
<1>2. CASE UNCHANGED lost
  BY <1>1, <1>2, Zenon
<1>3. CASE Pass
  BY <1>1, <1>2, <1>3, Zenon DEF Pass, PassStep, RecordOwnership
<1>4. CASE Finish \/ Rollback
  BY <1>1, <1>4, Zenon DEF Finish, Rollback, Unnamed
<1>5. CASE Crash \/ Reboot
  BY <1>1, <1>5, Zenon DEF Crash, Reboot, Restarted, Unnamed
<1>6. ASSUME NEW c, NEW good, RecordCandidate(c, good) PROVE lost' \in SUBSET Pair
  BY <1>1, <1>6, Zenon DEF RecordCandidate
<1>7. CASE ArmCandidate
  BY <1>6, <1>7, Zenon DEF ArmCandidate
<1>8. ASSUME NEW seg \in Seg, PutNetwork(seg) PROVE lost' \in SUBSET Pair
  BY <1>6, <1>8, Zenon DEF PutNetwork
<1>9. ASSUME NEW seg \in Seg, NEW manage \in BOOLEAN, RestoreBackup(seg, manage)
      PROVE  lost' \in SUBSET Pair
  BY <1>6, <1>9, Zenon DEF RestoreBackup
<1>10. CASE Begin \/ HandBack \/ SyncAndCommit \/ Commit \/ Undo \/ Clear \/ Resync \/ RenderGuard
            \/ InstallGuard \/ SettlePreflight \/ BootGuard \/ Fallback \/ ResumeUndo \/ RecordLease
            \/ PrefixChanged \/ SyncAtIdle \/ UNCHANGED vars
  BY <1>2, <1>10, Zenon DEF Begin, HandBack, SyncAndCommit, Commit, Undo, Clear, Resync, RenderGuard,
       InstallGuard, SettlePreflight, BootGuard, Fallback, ResumeUndo, RecordLease, PrefixChanged,
       SyncAtIdle, vars
<1>11. ASSUME NEW p \in Prefix \cup {None}, PollPrefix(p) PROVE UNCHANGED lost
  BY <1>11, Zenon DEF PollPrefix
<1>12. ASSUME NEW i \in Iface, OperatorCleans(i) PROVE UNCHANGED lost
  BY <1>12, Zenon DEF OperatorCleans
<1> QED BY <1>2, <1>3, <1>4, <1>5, <1>7, <1>8, <1>9, <1>10, <1>11, <1>12, Zenon DEF Next, Step

LEMMA CallerStep ==
    ASSUME SInv, [Next]_vars
    PROVE  CallerType'
<1> USE DEF SInv
<1>1. lost' \in SUBSET Pair /\ mishaps' \in 0..MaxMishaps /\ calm' \in BOOLEAN
  BY LuckStep, LostStep, Zenon
<1>2. ASSUME UNCHANGED caller, watch' \in Addr \cup {None, Off, Unseen},
             pc' \notin {"render", "guard", "arm", "begin"} \/ pc' = pc
                \/ pc \in {"render", "guard", "arm"}
      PROVE  CallerType'
  BY <1>1, <1>2, Zenon DEF CallerType, caller
<1>3. CASE Pass
  <2>1. UNCHANGED caller
    BY <1>3, Zenon DEF Pass
  <2>2. watch' \in Addr \cup {None, Off, Unseen}
    <3>1. CASE UNCHANGED watch
      BY <3>1, Zenon DEF CallerType
    <3>2. CASE FollowPrefix \/ ClearAddrs
      BY <3>2, Zenon DEF FollowPrefix, ClearAddrs, CallerType
    <3> QED BY <1>3, <3>1, <3>2, Zenon DEF Pass, PassStep, Drain, ReadPlan, RecordLink, AddLink, Stage, InstallAddrs,
              RetireAddrs, TakeFromNM, Activate, ServeDhcp, RetireSuperseded, Narrow, ClearLinks,
              RecordOwnership
  <2>3. pc' \notin {"render", "guard", "arm", "begin"}
    <3>1. CASE Drain \/ ReadPlan \/ RecordLink \/ AddLink \/ Stage
      BY <3>1, Zenon DEF Drain, ReadPlan, RecordLink, AddLink, Stage, GiveUp
    <3>2. CASE RecordOwnership \/ InstallAddrs \/ RetireAddrs \/ TakeFromNM \/ Activate
      BY <3>2, Zenon DEF RecordOwnership, InstallAddrs, RetireAddrs, TakeFromNM, Activate, GiveUp, NotApplied
    <3>3. CASE ServeDhcp \/ RetireSuperseded \/ Narrow \/ FollowPrefix \/ ClearAddrs \/ ClearLinks
      BY <3>3, Zenon DEF ServeDhcp, RetireSuperseded, Narrow, FollowPrefix, ClearAddrs, ClearLinks, GiveUp
    <3> QED BY <1>3, <3>1, <3>2, <3>3, Zenon DEF Pass, PassStep
  <2> QED BY <1>2, <2>1, <2>2, <2>3, Zenon
<1>4. CASE Begin \/ SyncAndCommit \/ Commit \/ Undo \/ Clear \/ Resync
  BY <1>2, <1>4, Zenon DEF Begin, SyncAndCommit, Commit, Undo, Settled, Clear, Resync, CallerType
<1>5. CASE InstallGuard \/ SettlePreflight \/ BootGuard \/ Fallback \/ RecordLease
  BY <1>2, <1>5, Zenon DEF InstallGuard, SettlePreflight, BootGuard, Fallback, RecordLease, CallerType
<1>6. CASE SyncAtIdle \/ UNCHANGED vars
  BY <1>2, <1>6, Zenon DEF SyncAtIdle, vars, CallerType
<1>7. CASE HandBack
  <2>1. inst' \in Owner
    BY <1>1, <1>7 DEF HandBack, ReadBack, CallerType, RecordType, Records, Blank, Owner
  <2> QED BY <1>1, <1>7, <2>1, Zenon DEF HandBack, CallerType
<1>8. CASE Rollback
  BY <1>1, <1>8, Zenon DEF Rollback, CallerType
<1>9. CASE Finish
  BY <1>1, <1>9, ForgetType, Zenon DEF Finish, CallerType
<1>10. CASE Crash \/ Reboot
  <2>1. Forget /\ pc' = "boot" /\ watch' = Off /\ ring' = Off /\ UNCHANGED ops
    BY <1>10, Zenon DEF Crash, Reboot, Restarted
  <2> QED BY <1>1, <2>1, ForgetType, Zenon DEF CallerType
<1>11. CASE RenderGuard
  <2>1. SegmentOf(db) \in Seg
    BY PlanType, Zenon DEF RecordType
  <2>2. SegmentOf(db).iface \in Iface
    BY <2>1, ConstantsAssumption, Zenon DEF ConstantsAssumption
  <2>3. Cover(db, SegmentOf(db).iface) \in SUBSET Iface
    BY CoverType, Zenon DEF RecordType
  <2>4. names' \in SUBSET Iface
    BY <1>11, <2>2, <2>3, Zenon DEF RenderGuard
  <2> QED BY <1>1, <1>11, <2>4, Zenon DEF RenderGuard, CallerType
<1>12. CASE ArmCandidate
  BY <1>1, <1>12, Zenon DEF ArmCandidate, CallerType
<1>13. CASE ResumeUndo
  <2>1. cand' \in Candidate \cup {None}
    BY <1>13, Zenon DEF ResumeUndo, RecordType, Records
  <2> QED BY <1>1, <1>13, <2>1, Zenon DEF ResumeUndo, CallerType
<1>14. ASSUME NEW seg \in Seg, PutNetwork(seg) PROVE CallerType'
  <2>1. cand' \in Candidate \cup {None}
    BY <1>14, DrawnCandidate, Zenon DEF PutNetwork
  <2>2. db.manage \in BOOLEAN
    BY Zenon DEF RecordType, Records
  <2>3. want' \in Wish /\ want'.cfg \in Seg
    BY <1>14, <2>2, Zenon DEF PutNetwork, Wish
  <2>4. ops' \in 0..MaxOps
    BY <1>14, CallerAssumption DEF PutNetwork, Request, CallerType, CallerAssumption
  <2> QED BY <1>1, <1>14, <2>1, <2>3, <2>4, Zenon DEF PutNetwork, CallerType
<1>15. ASSUME NEW seg \in Seg, NEW manage \in BOOLEAN, RestoreBackup(seg, manage) PROVE CallerType'
  <2>1. cand' \in Candidate \cup {None}
    BY <1>15, DrawnCandidate, Zenon DEF RestoreBackup
  <2>2. want' \in Wish /\ want'.cfg \in Seg
    BY <1>15, Zenon DEF RestoreBackup, Wish
  <2>3. ops' \in 0..MaxOps
    BY <1>15, CallerAssumption DEF RestoreBackup, Request, CallerType, CallerAssumption
  <2> QED BY <1>1, <1>15, <2>1, <2>2, <2>3, Zenon DEF RestoreBackup, CallerType
<1>16. ASSUME NEW p \in Prefix \cup {None}, PollPrefix(p) PROVE CallerType'
  <2>1. ops' \in 0..MaxOps /\ p \in Addr \cup {None}
    BY <1>16, CallerAssumption DEF PollPrefix, CallerType, CallerAssumption
  <2> QED BY <1>1, <1>16, <2>1, Zenon DEF PollPrefix, CallerType
<1>17. CASE PrefixChanged
  BY <1>1, <1>17, Zenon DEF PrefixChanged, CallerType
<1>18. ASSUME NEW i \in Iface, OperatorCleans(i) PROVE CallerType'
  BY <1>2, <1>18, Zenon DEF OperatorCleans, CallerType
<1> QED BY Zenon, <1>3, <1>4, <1>5, <1>6, <1>7, <1>8, <1>9, <1>10, <1>11, <1>12, <1>13, <1>14, <1>15, <1>16,
           <1>17, <1>18
        DEF Next, Step

-----------------------------------------------------------------------------
(* Who runs what                                                           *)

InPass == Open \ {"sync", "commit", "rollback"}

LEMMA PassLane ==
    ASSUME SInv, PassStep
    PROVE  /\ UNCHANGED <<flow, txn>> /\ pc \in InPass
           /\ \/ flow # "pd" /\ pc' \in InPass
              \/ flow = "pd" /\ pc' \in {"addr", "retire", "lease", "done"} /\ UNCHANGED sup
<1> USE DEF SInv, Lanes, InPass, Open
<1>1. CASE Drain \/ ReadPlan \/ RecordLink
  BY <1>1, Zenon DEF Drain, ReadPlan, RecordLink, GiveUp
<1>2. CASE AddLink \/ Stage
  BY <1>2, Zenon DEF AddLink, Stage, GiveUp
<1>3. CASE RecordOwnership
  BY <1>3, Zenon DEF RecordOwnership, NotApplied
<1>4. CASE InstallAddrs
  BY <1>4, Zenon DEF InstallAddrs, NotApplied
<1>5. CASE RetireAddrs
  BY <1>5, Zenon DEF RetireAddrs, NotApplied
<1>6. CASE TakeFromNM \/ Activate
  BY <1>6, Zenon DEF TakeFromNM, Activate, GiveUp
<1>7. CASE ServeDhcp \/ RetireSuperseded
  BY <1>7, Zenon DEF ServeDhcp, RetireSuperseded, GiveUp
<1>8. CASE Narrow \/ FollowPrefix
  BY <1>8, Zenon DEF Narrow, FollowPrefix, GiveUp
<1>9. CASE ClearAddrs \/ ClearLinks
  BY <1>9, Zenon DEF ClearAddrs, ClearLinks, GiveUp
<1> QED BY <1>1, <1>2, <1>3, <1>4, <1>5, <1>6, <1>7, <1>8, <1>9, Zenon DEF PassStep

LEMMA LaneStep ==
    ASSUME SInv, [Next]_vars
    PROVE  Lanes'
<1> USE DEF SInv, Lanes, Open, Change
<1>1. CASE Pass
  BY <1>1, PassLane, Zenon DEF Pass, InPass, caller
<1>2. CASE UNCHANGED <<pc, flow, txn, sup, ring>>
  BY <1>2, Zenon
<1>3. CASE Begin
  <2>1. db # None
    BY ConstantsAssumption, Zenon DEF RecordType, ConstantsAssumption
  <2> QED BY <1>3, <2>1, Zenon DEF Begin, locals, caller
<1>4. CASE HandBack
  BY <1>4, Zenon DEF HandBack, locals
<1>5. CASE SyncAndCommit
  BY <1>5, Zenon DEF SyncAndCommit, locals, caller
<1>6. CASE Commit
  BY <1>6, Zenon DEF Commit, locals, caller
<1>7. CASE Rollback
  BY <1>7, Zenon DEF Rollback, locals
<1>8. CASE Undo
  BY <1>8, Zenon DEF Undo, Settled, locals, caller
<1>9. CASE Clear \/ Resync
  BY <1>9, Zenon DEF Clear, Resync, locals, caller
<1>10. CASE Finish
  BY <1>10, ForgetType, Zenon DEF Finish
<1>11. CASE RenderGuard \/ InstallGuard
  BY <1>11, Zenon DEF RenderGuard, InstallGuard, locals, caller
<1>12. CASE ArmCandidate \/ SettlePreflight
  BY <1>12, Zenon DEF ArmCandidate, SettlePreflight, locals, caller
<1>13. CASE BootGuard \/ Fallback \/ ResumeUndo
  BY <1>13, Zenon DEF BootGuard, Fallback, ResumeUndo, locals, caller
<1>14. CASE RecordLease
  BY <1>14, Zenon DEF RecordLease, locals, caller
<1>15. CASE PrefixChanged
  BY <1>15, Zenon DEF PrefixChanged, CallerType
<1>16. CASE Crash \/ Reboot
  BY <1>16, ForgetType, Zenon DEF Crash, Reboot, Restarted
<1>17. ASSUME NEW seg \in Seg, PutNetwork(seg) PROVE Lanes'
  BY <1>17, Zenon DEF PutNetwork, Request, locals
<1>18. ASSUME NEW seg \in Seg, NEW manage \in BOOLEAN, RestoreBackup(seg, manage) PROVE Lanes'
  BY <1>18, Zenon DEF RestoreBackup, Request, locals
<1>19. ASSUME NEW p \in Prefix \cup {None}, PollPrefix(p) PROVE Lanes'
  <2>1. p \in Addr \cup {None}
    BY CallerAssumption, Zenon DEF CallerAssumption
  <2> QED BY <1>19, <2>1, Zenon DEF PollPrefix, locals
<1>20. ASSUME NEW i \in Iface, OperatorCleans(i) PROVE UNCHANGED <<pc, flow, txn, sup, ring>>
  BY <1>20, Zenon DEF OperatorCleans, locals, caller
<1>21. CASE SyncAtIdle \/ UNCHANGED vars
  BY <1>2, <1>21, Zenon DEF SyncAtIdle, vars, locals, caller
<1> QED BY Zenon, <1>1, <1>2, <1>3, <1>4, <1>5, <1>6, <1>7, <1>8, <1>9, <1>10, <1>11, <1>12, <1>13, <1>14,
           <1>15, <1>16, <1>17, <1>18, <1>19, <1>20, <1>21
        DEF Next, Step

-----------------------------------------------------------------------------
(* What a pass has achieved, and what its ruleset names                    *)

\* Only the pass, the PD callback and a poll are ever at, or get to, the calls in question.
Watched == {"own", "addr", "retire", "nm", "up", "dns", "unlink", "narrow", "pd", "lease"}

LEMMA Elsewhere ==
    ASSUME SInv, [Next]_vars, ~Pass, ~PrefixChanged
    PROVE  pc' \notin Watched \/ UNCHANGED <<pc, db, plan, addrs, link, sup, rules>>
<1> USE DEF Watched
<1>1. CASE Begin \/ HandBack \/ SyncAndCommit \/ Commit \/ Rollback
  BY <1>1, Zenon DEF Begin, HandBack, SyncAndCommit, Commit, Rollback
<1>2. CASE Undo \/ Clear \/ Resync \/ Finish
  BY <1>2, Zenon DEF Undo, Settled, Clear, Resync, Finish
<1>3. CASE RenderGuard \/ InstallGuard \/ ArmCandidate \/ SettlePreflight
  BY <1>3, Zenon DEF RenderGuard, InstallGuard, ArmCandidate, SettlePreflight
<1>4. CASE BootGuard \/ Fallback \/ ResumeUndo \/ RecordLease
  BY <1>4, Zenon DEF BootGuard, Fallback, ResumeUndo, RecordLease
<1>5. CASE SyncAtIdle \/ Crash \/ Reboot \/ UNCHANGED vars
  BY <1>5, Zenon DEF SyncAtIdle, Crash, Reboot, Restarted, vars, host, locals
<1>6. ASSUME NEW seg \in Seg, PutNetwork(seg) PROVE pc' \notin Watched
  BY <1>6, Zenon DEF PutNetwork
<1>7. ASSUME NEW seg \in Seg, NEW manage \in BOOLEAN, RestoreBackup(seg, manage)
      PROVE  pc' \notin Watched
  BY <1>7, Zenon DEF RestoreBackup
<1>8. ASSUME NEW p \in Prefix \cup {None}, PollPrefix(p)
      PROVE  UNCHANGED <<pc, db, plan, addrs, link, sup, rules>>
  BY <1>8, Zenon DEF PollPrefix, host, locals
<1>9. ASSUME NEW i \in Iface, OperatorCleans(i) PROVE pc' \notin Watched
  BY <1>9, Zenon DEF OperatorCleans
<1> QED BY <1>1, <1>2, <1>3, <1>4, <1>5, <1>6, <1>7, <1>8, <1>9, Zenon DEF Next, Step

LEMMA AchievedStep ==
    ASSUME SInv, [Next]_vars
    PROVE  Achieved' /\ Covered'
<1> USE DEF SInv, Achieved, Covered
<1>1. CASE pc' \notin Watched \/ UNCHANGED <<pc, db, plan, addrs, link, sup, rules>>
  BY <1>1, Zenon DEF Watched
<1>2. CASE PrefixChanged
  BY <1>2, Zenon DEF PrefixChanged, Lanes, host
<1>3. CASE Drain \/ ReadPlan \/ RecordLink \/ AddLink
  BY <1>1, <1>3, Zenon DEF Drain, ReadPlan, RecordLink, AddLink, GiveUp, Watched
<1>4. CASE Stage
  <2>1. CASE pc' # "own"
    BY <1>1, <1>4, <2>1, Zenon DEF Stage, GiveUp, Watched
  <2>2. CASE pc' = "own"
    <3>1. sup' = {} \/ rules' = Staged
      BY <1>4, <2>2, Zenon DEF Stage, GiveUp, Enforce
    <3>2. plan' = plan
      BY <1>4, Zenon DEF Stage
    <3> QED BY <2>2, <3>1, <3>2, Zenon DEF Staged
  <2> QED BY <2>1, <2>2, Zenon
<1>5. CASE RecordOwnership
  <2>1. CASE pc' = "addr"
    <3>1. plan \in Drawn /\ db \in Records
      BY <1>5, Zenon DEF RecordOwnership, LocalType, RecordType
    <3>2. Owed(db) \in SUBSET Pair /\ Owed(db) \cap Pairs(plan) = {} /\ plan \in Owner
      BY <3>1, OwedType, DrawnPairs, Zenon
    <3>3. PICK w \in WriteOwnership(db, plan, Owed(db)) : w.ok /\ db' = w.v
      BY <1>5, <2>1, Zenon DEF RecordOwnership, NotApplied
    <3>4. db'.stale = Owed(db) /\ db'.own = plan
      BY <3>1, <3>2, <3>3, WriteOwnershipType, OwnershipWritten
    <3> QED BY <1>5, <2>1, <3>2, <3>4, Zenon DEF RecordOwnership, host
  <2>2. CASE pc' # "addr"
    BY <1>1, <1>5, <2>2, Zenon DEF RecordOwnership, NotApplied, Watched
  <2> QED BY <2>1, <2>2, Zenon
<1>6. CASE InstallAddrs
  <2>1. CASE pc' = "retire"
    BY <1>6, <2>1, Zenon DEF InstallAddrs, NotApplied
  <2>2. CASE pc' # "retire"
    BY <1>1, <1>6, <2>2, Zenon DEF InstallAddrs, NotApplied, Watched
  <2> QED BY <2>1, <2>2, Zenon
<1>7. CASE RetireAddrs
  <2>1. pc' \in {"nm", "lease", "handback", "done"} /\ UNCHANGED <<plan, link, sup, rules>>
    BY <1>7, Zenon DEF RetireAddrs, NotApplied
  <2>2. Pairs(plan) \subseteq addrs'
    BY <1>7, Zenon DEF RetireAddrs
  <2>3. db.own = plan /\ db.own \in Owner
    BY <1>7, Zenon DEF RetireAddrs, RecordType, Records
  <2>4. \A kept \in SUBSET db.stale : \A w \in WriteOwnership(db, db.own, kept) : w.v.own = plan
    BY <2>3, RewriteKeepsClaim, Zenon DEF RecordType
  <2>5. db'.own = plan
    BY <1>7, <2>3, <2>4, Zenon DEF RetireAddrs
  <2> QED BY <1>7, <2>1, <2>2, <2>5, Zenon DEF RetireAddrs
<1>8. CASE TakeFromNM
  BY <1>1, <1>8, Zenon DEF TakeFromNM, GiveUp, Watched
<1>9. CASE Activate
  <2>1. plan.iface \in Iface
    BY <1>9, DrawnPairs, Zenon DEF Activate, LocalType
  <2> QED BY <1>1, <1>9, <2>1, Zenon DEF Activate, GiveUp, Watched, HostType
<1>10. CASE ServeDhcp \/ Narrow
  BY <1>1, <1>10, Zenon DEF ServeDhcp, Narrow, GiveUp, Watched
<1>11. CASE RetireSuperseded
  <2>1. pc' = "narrow" /\ UNCHANGED <<plan, rules, sup>>
    BY <1>11, Zenon DEF RetireSuperseded
  <2>2. db'.own = db.own
    BY <1>11, Zenon DEF RetireSuperseded, RetireLinks, RecordType, Records
  <2> QED BY <1>11, <2>1, <2>2, Zenon DEF RetireSuperseded
<1>12. CASE FollowPrefix \/ ClearAddrs \/ ClearLinks
  BY <1>1, <1>12, Zenon DEF FollowPrefix, ClearAddrs, ClearLinks, GiveUp, Watched
<1> QED BY <1>1, <1>2, <1>3, <1>4, <1>5, <1>6, <1>7, <1>8, <1>9, <1>10, <1>11, <1>12, Elsewhere, Zenon DEF Pass, PassStep

-----------------------------------------------------------------------------

LEMMA SInvInit == Init => SInv
<1> SUFFICES ASSUME Init PROVE SInv
  BY Zenon
<1> USE DEF Init
<1>1. Blank \in Owner
  BY Zenon DEF Blank, Owner
<1>2. HostType
  BY Zenon DEF HostType
<1>3. db \in Records
  BY <1>1, Zenon DEF Records
<1>4. RecordType
  BY <1>3, Zenon DEF RecordType
<1>5. LocalType
  BY <1>1, Zenon DEF LocalType, Quiet
<1>6. MaxMishaps \in Nat /\ MaxOps \in Nat
  BY ConstantsAssumption, CallerAssumption, Zenon DEF ConstantsAssumption, CallerAssumption
<1>7. CallerType
  BY <1>1, <1>6 DEF CallerType, Quiet, NoWish, Wish
<1>8. Lanes /\ Achieved /\ Covered
  BY Zenon DEF Lanes, Open, Change, Achieved, Covered, Quiet
<1> QED BY <1>2, <1>4, <1>5, <1>7, <1>8, Zenon DEF SInv

LEMMA SInvStep == SInv /\ [Next]_vars => SInv'
BY HostStep, RecordStep, LocalStep, CallerStep, LaneStep, AchievedStep, Zenon DEF SInv

LEMMA SInvHolds == Spec => []SInv
BY SInvInit, SInvStep, PTL DEF Spec

\* Whatever fails, and wherever the panel is killed, every record keeps the form its reader expects
\* (_read_ownership, resume_pending_provision_undo), no pass acts on a plan without an interface,
\* and a transaction is open only while a PUT or a restore is between its settings and its commit.
THEOREM TypeCorrect == Spec => []TypeOK
<1>1. SInv => TypeOK
  <2> SUFFICES ASSUME SInv PROVE TypeOK
    BY Zenon
  <2>1. {fwd, deny, note, ok, calm} \subseteq BOOLEAN
    BY Zenon DEF SInv, HostType, LocalType, CallerType
  <2>2. {watch, ring} \subseteq Addr \cup {None, Off, Unseen}
    BY Zenon DEF SInv, CallerType
  <2>3. txn # None => flow \in {"put", "restore"}
    BY Zenon DEF SInv, Lanes, Change
  <2> QED BY <2>1, <2>2, <2>3, Zenon DEF SInv, HostType, RecordType, LocalType, CallerType, TypeOK
<1> QED BY <1>1, SInvHolds, PTL

\* _provision_segment and the PD callback: for any segments, addresses and prefixes, and whatever
\* failed or was killed before, dnsmasq is only pointed at a segment whose addresses are all on an
\* interface that is up.  The retirement that runs between the installation and dnsmasq never takes
\* an address of the plan, because the claim dropped it from the ledger first.
THEOREM DhcpServesWhatIsUp == Spec => ServesOnlyWhatIsUp
<1>1. SInv /\ [Next]_vars =>
        [dns' \notin {dns, None} => Pairs(dns') \subseteq addrs /\ link[dns'.iface] = "up"]_vars
  <2> SUFFICES ASSUME SInv, [Next]_vars, dns' \notin {dns, None}
               PROVE  Pairs(dns') \subseteq addrs /\ link[dns'.iface] = "up"
    BY Zenon
  <2>1. CASE ServeDhcp
    BY <2>1, Zenon DEF ServeDhcp, SInv, Achieved
  <2>2. CASE RecordLease
    <3>1. dns' = plan /\ link[plan.iface] = "up"
      BY <2>2, Zenon DEF RecordLease, ProbedUp
    <3> QED BY <2>2, <3>1, Zenon DEF RecordLease, SInv, Achieved
  <2>3. CASE Pass /\ ~ServeDhcp
    BY <2>3, Zenon DEF Pass, PassStep, Drain, ReadPlan, RecordLink, AddLink, Stage, InstallAddrs, RetireAddrs,
         TakeFromNM, Activate, RetireSuperseded, Narrow, FollowPrefix, ClearAddrs, ClearLinks,
         RecordOwnership, host
  <2>4. CASE Step /\ ~Pass /\ ~RecordLease
    BY <2>4, Zenon DEF Step, Begin, HandBack, SyncAndCommit, Commit, Rollback, Undo, Clear, Resync, Finish,
         RenderGuard, InstallGuard, ArmCandidate, SettlePreflight, BootGuard, Fallback, ResumeUndo, host
  <2>5. CASE PrefixChanged \/ SyncAtIdle \/ Crash \/ Reboot \/ UNCHANGED vars
    BY <2>5, Zenon DEF PrefixChanged, SyncAtIdle, Crash, Reboot, Restarted, vars, host
  <2>6. /\ \A seg \in Seg : ~PutNetwork(seg)
        /\ \A seg \in Seg, manage \in BOOLEAN : ~RestoreBackup(seg, manage)
        /\ \A p \in Prefix \cup {None} : ~PollPrefix(p)
        /\ \A i \in Iface : ~OperatorCleans(i)
    BY Zenon DEF PutNetwork, RestoreBackup, PollPrefix, OperatorCleans, host
  <2> QED BY <2>1, <2>2, <2>3, <2>4, <2>5, <2>6, Zenon DEF Next, Step, Pass
<1> QED BY <1>1, SInvHolds, PTL DEF Spec, ServesOnlyWhatIsUp

\* Nothing but the installation of addresses and the activation puts an address on a link or raises
\* one, and a link goes only with the addresses on it.
LEMMA HostShrinks ==
    ASSUME SInv, [Next]_vars, ~InstallAddrs, ~Activate
    PROVE  \/ addrs' = {}
           \/ /\ addrs' \subseteq addrs
              /\ \A i \in Iface : /\ link'[i] = "up" => link[i] = "up"
                                  /\ link'[i] = "absent" => link[i] = "absent" \/ i \notin Ifaces(addrs')
<1> DEFINE Shrinks == /\ addrs' \subseteq addrs
                      /\ \A i \in Iface : /\ link'[i] = "up" => link[i] = "up"
                                          /\ link'[i] = "absent" => link[i] = "absent" \/ i \notin Ifaces(addrs')
<1> SUFFICES Shrinks \/ addrs' = {}
  BY Zenon
<1>1. ASSUME addrs' \subseteq addrs, link' = link PROVE Shrinks
  BY <1>1, Zenon
<1>2. ASSUME UNCHANGED <<link, addrs>> PROVE Shrinks
  BY <1>2, Zenon
<1>3. ASSUME NEW gone, Without(gone) PROVE Shrinks
  <2>1. \A i \in Iface : link'[i] = IF i \in gone THEN "absent" ELSE link[i]
    BY <1>3, Zenon DEF Without
  <2>2. addrs' = {p \in addrs : p[1] \notin gone}
    BY <1>3, Zenon DEF Without
  <2>3. \A i \in gone : i \notin Ifaces(addrs')
    BY <2>2, Zenon DEF Ifaces
  <2> QED BY <2>1, <2>2, <2>3, Zenon
<1> HIDE DEF Shrinks
<1>4. CASE AddLink
  BY <1>4, Zenon DEF AddLink, SInv, HostType, Shrinks
<1>5. CASE RetireAddrs \/ ClearAddrs
  BY <1>1, <1>5, Zenon DEF RetireAddrs, ClearAddrs
<1>6. CASE RetireSuperseded \/ ClearLinks
  BY <1>3, <1>6, Zenon DEF RetireSuperseded, ClearLinks, RetireLinks
<1>7. CASE Drain \/ ReadPlan \/ RecordLink \/ Stage \/ RecordOwnership \/ TakeFromNM \/ ServeDhcp \/ Narrow
           \/ FollowPrefix
  BY <1>2, <1>7, Zenon DEF Drain, ReadPlan, RecordLink, Stage, RecordOwnership, TakeFromNM, ServeDhcp, Narrow,
                    FollowPrefix, host
<1>8. CASE Undo
  BY <1>2, <1>3, <1>8, Zenon DEF Undo
<1>9. CASE Step /\ ~Pass /\ ~Undo
  BY <1>2, <1>9, Zenon DEF Step, Begin, HandBack, SyncAndCommit, Commit, Rollback, Clear, Resync, Finish,
       RenderGuard, InstallGuard, ArmCandidate, SettlePreflight, BootGuard, Fallback, ResumeUndo,
       RecordLease, host
<1>10. CASE PrefixChanged \/ SyncAtIdle \/ Crash \/ UNCHANGED vars
  BY <1>2, <1>10, Zenon DEF PrefixChanged, SyncAtIdle, Crash, vars, host
<1>11. CASE Reboot
  BY <1>11, Zenon DEF Reboot
<1>12. ASSUME NEW seg \in Seg, PutNetwork(seg) \/ \E manage \in BOOLEAN : RestoreBackup(seg, manage)
       PROVE  Shrinks
  BY <1>2, <1>12, Zenon DEF PutNetwork, RestoreBackup, host
<1>13. ASSUME NEW p \in Prefix \cup {None}, PollPrefix(p) PROVE Shrinks
  BY <1>2, <1>13, Zenon DEF PollPrefix, host
<1>14. ASSUME NEW k \in Iface, OperatorCleans(k) PROVE Shrinks
  BY <1>1, <1>3, <1>14, Zenon DEF OperatorCleans
<1> QED BY <1>4, <1>5, <1>6, <1>7, <1>8, <1>9, <1>10, <1>11, <1>12, <1>13, <1>14, Zenon
        DEF Next, Step, Pass, PassStep

LEMMA NothingElseReaches ==
    ASSUME SInv, [Next]_vars, ~InstallAddrs, ~Activate, NEW i \in Iface, Reachable(i)'
    PROVE  Reachable(i)
<1>1. i \in Ifaces(addrs') /\ link'[i] = "up"
  BY Zenon DEF Reachable
<1>2. addrs' # {}
  BY <1>1, Zenon DEF Ifaces
<1>3. addrs' \subseteq addrs /\ link[i] = "up"
  BY <1>1, <1>2, HostShrinks, Zenon
<1> QED BY <1>1, <1>3, Zenon DEF Reachable, Ifaces

\* _provision_segment: whatever interfaces a move is between, and whatever was left by earlier
\* failures, an interface becomes reachable on a segment address only once the ruleset names it.
THEOREM MovesStayStaged == Spec => MovesAreStaged
<1>1. SInv /\ [Next]_vars =>
        [\A i \in Iface : sup # {} /\ Reachable(i)' /\ ~Reachable(i) => i \in rules]_vars
  <2> SUFFICES ASSUME SInv, [Next]_vars, NEW i \in Iface, sup # {}, Reachable(i)', ~Reachable(i)
               PROVE  i \in rules
    BY Zenon
  <2>1. InstallAddrs \/ Activate
    BY NothingElseReaches, Zenon
  <2>2. plan \in Drawn /\ plan.iface \in rules
    BY <2>1, Zenon DEF InstallAddrs, Activate, SInv, LocalType, Covered
  <2>3. CASE i # plan.iface
    <3>1. CASE Activate
      BY <2>3, <3>1, Zenon DEF Activate, SInv, HostType, Reachable
    <3>2. CASE InstallAddrs
      <4>1. \A p \in Pairs(plan) \cup {<<plan.iface, plan.a4>>} : p[1] = plan.iface
        BY <2>2, DrawnPairs
      <4>2. \A p \in addrs' : p \in addrs \/ p[1] = plan.iface
        BY <3>2, <4>1, Zenon DEF InstallAddrs
      <4> QED BY <2>3, <3>2, <4>2, Zenon DEF InstallAddrs, Reachable, Ifaces
    <3> QED BY <2>1, <3>1, <3>2, Zenon
  <2> QED BY <2>2, <2>3, Zenon
<1> QED BY <1>1, SInvHolds, PTL DEF Spec, MovesAreStaged
-----------------------------------------------------------------------------
(* How many calls an operation can still make                              *)

\* The calls of a pass, counted from its end; what follows the pass depends on who runs it.
PassLeft == [drain |-> 15, plan |-> 14, link |-> 13, add |-> 12, stage |-> 11, own |-> 10, addr |-> 9, retire |-> 8,
             nm |-> 7, up |-> 6, dns |-> 5, unlink |-> 4, narrow |-> 3, pd |-> 2, off |-> 3, offlinks |-> 2, handback |-> 1]

AfterPass == [put |-> 22, restore |-> 22, recover |-> 4, boot |-> 1, pd |-> 1]

UndoLeft(f) == IF f = "boot" THEN [undo |-> 18, clear |-> 17] ELSE [undo |-> 4, clear |-> 3]

CallsLeft == [render |-> 41, guard |-> 40, arm |-> 39, begin |-> 38, sync |-> 22, commit |-> 21, rollback |-> 20,
              settle |-> 2, resync |-> 2, lease |-> 2, done |-> 1, idle |-> 0,
              boot |-> 21, fallback |-> 20, resume |-> 19]

Left(f, l) ==
    IF l \in InPass THEN PassLeft[l] + AfterPass[f]
    ELSE IF l \in {"undo", "clear"} THEN UndoLeft(f)[l] ELSE CallsLeft[l]

Nearer == Left(flow', pc') < Left(flow, pc)

LEMMA PassEnds ==
    ASSUME SInv, PassStep
    PROVE  Nearer /\ Left(flow, pc) \in 1 .. 41
<1>1. flow' = flow /\ flow \in {"put", "restore", "recover", "boot", "pd"}
  BY PassLane, Zenon DEF SInv, Lanes, Change, InPass
<1> USE DEF Nearer, Left, PassLeft, AfterPass, CallsLeft, InPass, Open
<1>2. CASE Drain \/ ReadPlan \/ RecordLink \/ AddLink
  <2>1. \/ pc = "drain" /\ pc' \in {"plan", "off"}
        \/ pc = "plan" /\ pc' \in {"link", "handback"}
        \/ pc = "link" /\ pc' \in {"add", "stage", "handback"}
        \/ pc = "add" /\ pc' \in {"stage", "handback"}
    BY <1>2, Zenon DEF Drain, ReadPlan, RecordLink, AddLink, GiveUp
  <2> QED BY <1>1, <2>1
<1>3. CASE Stage \/ RecordOwnership \/ InstallAddrs \/ RetireAddrs
  <2>1. \/ pc = "stage" /\ pc' \in {"own", "handback"}
        \/ pc = "own" /\ pc' \in {"addr", "handback", "done"}
        \/ pc = "addr" /\ pc' \in {"retire", "handback", "done"}
        \/ pc = "retire" /\ pc' \in {"nm", "lease", "handback", "done"}
    BY <1>3, Zenon DEF Stage, RecordOwnership, InstallAddrs, RetireAddrs, GiveUp, NotApplied
  <2> QED BY <1>1, <2>1
<1>4. CASE TakeFromNM \/ Activate \/ ServeDhcp \/ RetireSuperseded
  <2>1. \/ pc = "nm" /\ pc' \in {"up", "handback"}
        \/ pc = "up" /\ pc' \in {"dns", "handback"}
        \/ pc = "dns" /\ pc' \in {"unlink", "handback"}
        \/ pc = "unlink" /\ pc' = "narrow"
    BY <1>4, Zenon DEF TakeFromNM, Activate, ServeDhcp, RetireSuperseded, GiveUp
  <2> QED BY <1>1, <2>1
<1>5. CASE Narrow \/ FollowPrefix \/ ClearAddrs \/ ClearLinks
  <2>1. \/ pc = "narrow" /\ pc' \in {"pd", "handback"}
        \/ pc = "pd" /\ pc' = "handback"
        \/ pc = "off" /\ pc' \in {"offlinks", "handback"}
        \/ pc = "offlinks" /\ pc' = "handback"
    BY <1>5, Zenon DEF Narrow, FollowPrefix, ClearAddrs, ClearLinks, GiveUp
  <2> QED BY <1>1, <2>1
<1> QED BY <1>2, <1>3, <1>4, <1>5, Zenon DEF PassStep

LEMMA StepEnds ==
    ASSUME SInv, Step
    PROVE  Nearer /\ Left(flow, pc) \in 1 .. 41
<1>1. Lanes
  BY Zenon DEF SInv
<1>2. CASE Pass
  BY <1>2, PassEnds, Zenon DEF Pass
<1> USE DEF Nearer, Left, PassLeft, AfterPass, UndoLeft, CallsLeft, InPass, Open
<1>3. CASE Begin \/ Rollback
  <2>1. flow \in {"put", "restore"} /\ pc' = "drain"
    BY <1>1, <1>3, Zenon DEF Begin, Rollback, Lanes, Change
  <2>2. \/ pc = "begin" /\ flow' = flow
        \/ pc = "rollback" /\ flow' = "recover"
    BY <1>3, Zenon DEF Begin, Rollback
  <2> QED BY <2>1, <2>2
<1>4. CASE HandBack
  <2>1. pc = "handback" /\ flow' = flow /\ flow \in {"put", "restore", "recover", "boot"}
    BY <1>1, <1>4, Zenon DEF HandBack, Lanes, Change, Open
  <2>2. \/ flow = "recover" /\ pc' = "undo"
        \/ flow = "boot" /\ pc' = "done"
        \/ flow \in {"put", "restore"} /\ pc' \in {"sync", "rollback"}
    BY <1>4, <2>1 DEF HandBack
  <2> QED BY <2>1, <2>2
<1>5. CASE SyncAndCommit \/ Commit
  <2>1. flow' = flow /\ \/ pc = "sync" /\ pc' \in {"commit", "rollback"}
                        \/ pc = "commit" /\ pc' \in {"clear", "rollback"} /\ flow # "boot"
    BY <1>1, <1>5, Zenon DEF SyncAndCommit, Commit, Lanes, Change
  <2> QED BY <2>1
<1>6. CASE Undo \/ Clear
  <2>1. flow' = flow /\ \/ pc = "undo" /\ pc' \in {"clear", IF flow = "boot" THEN "drain" ELSE "resync"}
                        \/ pc = "clear" /\ (pc' = IF flow = "boot" THEN "drain" ELSE IF flow = "recover" THEN "resync" ELSE "done")
    BY <1>6, Zenon DEF Undo, Settled, Clear
  <2> QED BY <2>1
<1>7. CASE Resync \/ Finish \/ SettlePreflight \/ RecordLease
  <2>1. \/ pc \in {"resync", "settle", "lease"} /\ pc' = "done"
        \/ pc = "done" /\ pc' = "idle"
    BY <1>7, Zenon DEF Resync, Finish, SettlePreflight, RecordLease
  <2> QED BY <2>1
<1>8. CASE RenderGuard \/ InstallGuard \/ ArmCandidate
  <2>1. \/ pc = "render" /\ pc' \in {"guard", "settle"}
        \/ pc = "guard" /\ pc' \in {"arm", "settle"}
        \/ pc = "arm" /\ pc' \in {"begin", "settle"}
    BY <1>8, Zenon DEF RenderGuard, InstallGuard, ArmCandidate
  <2> QED BY <2>1
<1>9. CASE BootGuard \/ Fallback \/ ResumeUndo
  <2>1. flow' = "boot"
    BY <1>1, <1>9, Zenon DEF BootGuard, Fallback, ResumeUndo, Lanes
  <2>2. \/ pc = "boot" /\ pc' \in {"resume", "fallback"}
        \/ pc = "fallback" /\ pc' \in {"resume", "done"}
        \/ pc = "resume" /\ pc' \in {"drain", "undo"}
    BY <1>9, Zenon DEF BootGuard, Fallback, ResumeUndo
  <2> QED BY <2>1, <2>2
<1> QED BY <1>2, <1>3, <1>4, <1>5, <1>6, <1>7, <1>8, <1>9, Zenon DEF Step

\* Whatever fails on the way, a boot, a PUT, a restore or a prefix change comes to its end: every call
\* is nearer to it than the one before, a request that fails recovers once and does not recover from
\* its recovery (the except branches of the PUT and of the restore around host_provision), and only a
\* restart of the panel moves an operation in any other way.
THEOREM OperationsNeverTurnBack ==
    Spec => [][/\ Step => Nearer /\ Left(flow, pc) \in 1 .. 41
               /\ pc # "idle" => Nearer \/ UNCHANGED <<flow, pc>> \/ Crash \/ Reboot]_vars
<1>1. SInv /\ Next => /\ Step => Nearer /\ Left(flow, pc) \in 1 .. 41
                      /\ pc # "idle" => Nearer \/ UNCHANGED <<flow, pc>> \/ Crash \/ Reboot
  <2> SUFFICES ASSUME SInv, Next, pc # "idle", ~Step, ~Crash, ~Reboot PROVE UNCHANGED <<flow, pc>>
    BY StepEnds, Zenon
  <2> QED BY Zenon DEF Next, PutNetwork, RestoreBackup, Request, PollPrefix, PrefixChanged, SyncAtIdle, OperatorCleans
<1> QED BY <1>1, SInvHolds, PTL DEF Spec
-----------------------------------------------------------------------------
(* What the request in progress asked for                                  *)

Mid == {"link", "add", "stage", "own", "addr", "retire", "nm", "up", "dns", "unlink", "narrow", "pd"}

Early == {"drain", "plan", "link", "add", "stage", "own"}

Fits(o) == Pairs(cand) \subseteq Pairs(o) /\ o.iface = cand.iface

\* The request's own pass is done, and was not reported as failed.
Ending ==
    \/ txn # None /\ pc = "handback" /\ ok
    \/ pc \in {"sync", "commit"}
    \/ pc = "clear" /\ flow \in Change

\* The candidate is the segment the request asks for, the plan of its pass is at least the
\* candidate, and so is the claim once the pass has run to its end.
Asked ==
    /\ flow \in Change /\ pc \in Open \cup {"render", "guard", "arm", "begin"} =>
         /\ want.cfg \in Seg /\ want.manage = (cand # None)
         /\ cand # None => \E prior : cand = CandidateFor(want.cfg, prior)
    /\ txn # None => db.cfg = want.cfg /\ db.manage = want.manage
    /\ txn # None /\ pc \in Mid => cand # None /\ Fits(plan)
    /\ txn # None /\ pc \in {"off", "offlinks"} => cand = None
    /\ txn # None /\ pc \in Early => db.own = txn.own
    /\ pc = "plan" => db.manage
    /\ pc = "undo" => flow \in {"recover", "boot"}
    /\ Ending /\ cand # None => Fits(db.own)

\* The candidate is on record from before the transaction until it is cleared.
Pended ==
    /\ cand # None /\ (pc \in {"begin", "undo", "clear"} \/ (pc \in Open /\ flow \in Change \cup {"recover"}))
         => db.pend = cand
    /\ cand # None /\ txn # None => txn.pend = cand

LEMMA PassMoves ==
    ASSUME PassStep
    PROVE  \/ pc = "drain" /\ pc' = (IF db.manage THEN "plan" ELSE "off")
           \/ pc = "plan" /\ pc' = "link" /\ plan' = PlanOf(db, db.pd)
           \/ pc \in Mid /\ pc' \in Mid /\ plan' = plan /\ (pc' \in Early => pc \in Early \ {"own"})
           \/ pc' \in {"handback", "done"} /\ ok' = FALSE
           \/ pc = "pd" /\ pc' = "handback" /\ plan' = plan
           \/ pc = "off" /\ pc' = "offlinks"
           \/ pc = "offlinks" /\ pc' = "handback"
           \/ pc' = "lease" /\ flow = "pd"
<1> USE DEF Mid, Early, GiveUp, NotApplied
<1>1. CASE Drain \/ ReadPlan \/ RecordLink
  BY <1>1, Zenon DEF Drain, ReadPlan, RecordLink
<1>2. CASE AddLink \/ Stage \/ RecordOwnership
  BY <1>2, Zenon DEF AddLink, Stage, RecordOwnership
<1>3. CASE InstallAddrs \/ RetireAddrs \/ TakeFromNM
  BY <1>3, Zenon DEF InstallAddrs, RetireAddrs, TakeFromNM
<1>4. CASE Activate \/ ServeDhcp \/ RetireSuperseded
  BY <1>4, Zenon DEF Activate, ServeDhcp, RetireSuperseded
<1>5. CASE Narrow \/ FollowPrefix
  BY <1>5, Zenon DEF Narrow, FollowPrefix
<1>6. CASE ClearAddrs \/ ClearLinks
  BY <1>6, Zenon DEF ClearAddrs, ClearLinks
<1> QED BY <1>1, <1>2, <1>3, <1>4, <1>5, <1>6, Zenon DEF PassStep

\* What a pass leaves of the records: the settings and the pending undo, and the claim but for the
\* two steps that write it.
LEMMA PassKeeps ==
    ASSUME SInv, PassStep
    PROVE  /\ db'.cfg = db.cfg /\ db'.manage = db.manage /\ db'.pend = db.pend
           /\ pc \notin {"own", "off"} => db'.own = db.own
           /\ db'.own.a4 \in {db.own.a4, plan.a4, None} /\ db'.own.a6 \in {db.own.a6, plan.a6, None}
           /\ db'.pd \in {db.pd, None}
<1> USE DEF SInv
<1>1. db \in Records /\ db.own \in Owner /\ db.stale \in SUBSET Pair
  BY Zenon DEF RecordType, Records
<1>2. CASE UNCHANGED db
  BY <1>2, Zenon
<1>3. CASE ReadPlan \/ AddLink \/ Stage \/ InstallAddrs \/ TakeFromNM \/ Activate \/ ServeDhcp \/ Narrow
  BY <1>2, <1>3, Zenon DEF ReadPlan, AddLink, Stage, InstallAddrs, TakeFromNM, Activate, ServeDhcp, Narrow
<1>4. ASSUME NEW v, db' = [db EXCEPT !.pd = v]
      PROVE  /\ db'.cfg = db.cfg /\ db'.manage = db.manage /\ db'.pend = db.pend /\ db'.own = db.own
             /\ db'.pd \in {db.pd, v}
  BY <1>1, <1>4, Zenon DEF Records
<1>5. CASE Drain \/ RecordLink \/ RetireSuperseded \/ ClearLinks
  <2>1. db' = db \/ \E v : db' = [db EXCEPT !.surv = v] \/ db' = [db EXCEPT !.links = v]
    BY <1>5, Zenon DEF Drain, RecordLink, RetireSuperseded, RetireLinks, ClearLinks
  <2>2. ASSUME NEW v, db' = [db EXCEPT !.surv = v] \/ db' = [db EXCEPT !.links = v]
        PROVE  /\ db'.cfg = db.cfg /\ db'.manage = db.manage /\ db'.pend = db.pend /\ db'.own = db.own
               /\ db'.pd = db.pd
    BY <1>1, <2>2, Zenon DEF Records
  <2> QED BY <1>2, <2>1, <2>2, Zenon
<1>9. CASE FollowPrefix
  <2>1. db' = db \/ \E w \in ForgetPrefix : db' = [db EXCEPT !.pd = w.v]
    BY <1>9, Zenon DEF FollowPrefix
  <2>2. \A w \in ForgetPrefix : w.v \in {db.pd, None}
    BY Zenon DEF ForgetPrefix, WriteScalar
  <2> QED BY <1>2, <1>4, <2>1, <2>2, Zenon
<1>6. CASE RecordOwnership
  <2>1. plan \in Drawn
    BY <1>6, Zenon DEF RecordOwnership, LocalType
  <2>2. plan \in Owner /\ Owed(db) \in SUBSET Pair
    BY <1>1, <2>1, OwedType, DrawnPairs, Zenon
  <2>3. ASSUME NEW w \in WriteOwnership(db, plan, Owed(db))
        PROVE  /\ w.v.cfg = db.cfg /\ w.v.manage = db.manage /\ w.v.pend = db.pend /\ w.v.pd = db.pd
               /\ w.v.own.a4 \in {db.own.a4, plan.a4} /\ w.v.own.a6 \in {db.own.a6, plan.a6}
    BY <1>1, <2>2, <2>3, OwnershipWritten
  <2> QED BY <1>2, <1>6, <2>3, Zenon DEF RecordOwnership
<1>7. CASE RetireAddrs
  <2>1. ASSUME NEW kept \in SUBSET db.stale, NEW w \in WriteOwnership(db, db.own, kept)
        PROVE  /\ w.v.cfg = db.cfg /\ w.v.manage = db.manage /\ w.v.pend = db.pend /\ w.v.own = db.own
               /\ w.v.pd = db.pd
    <3>1. kept \in SUBSET Pair
      BY <1>1, Zenon
    <3>2. w.v.own = db.own
      BY <1>1, <2>1, RewriteKeepsClaim, Zenon
    <3>3. w.v.cfg = db.cfg /\ w.v.manage = db.manage /\ w.v.pend = db.pend /\ w.v.pd = db.pd
      BY <1>1, <2>1, <3>1, OwnershipWritten
    <3> QED BY <3>2, <3>3, Zenon
  <2> QED BY <1>2, <1>7, <2>1, Zenon DEF RetireAddrs
<1>8. CASE ClearAddrs
  <2>1. PICK w \in ForgetPrefix :
            LET d == [db EXCEPT !.pd = w.v]
                held == db.stale \cup Pairs(db.own)
            IN  \/ \E kept \in SUBSET held : \E o \in WriteOwnership(d, Blank, kept) : db' = o.v
                \/ db' = d
    BY <1>8, Zenon DEF ClearAddrs
  <2>2. db.pd \in Addr \cup {None} /\ None \in Addr \cup {None}
    BY <1>1, Zenon DEF Records
  <2>3. w.v \in Addr \cup {None}
    BY <2>1, <2>2, WriteScalarType, Zenon DEF ForgetPrefix
  <2>4. PICK d : d = [db EXCEPT !.pd = w.v]
    BY Zenon
  <2>5. /\ d \in Records /\ d.cfg = db.cfg /\ d.manage = db.manage /\ d.pend = db.pend
        /\ d.own = db.own /\ d.pd = w.v
    <3>1. d \in Records
      BY <1>1, <2>3, <2>4, RecordsUpdate, Zenon
    <3> QED BY <1>1, <2>4, <3>1, Zenon DEF Records
  <2>6. db.stale \cup Pairs(db.own) \in SUBSET Pair /\ Blank \in Owner
    BY <1>1, PairsType, Zenon DEF Blank, Owner
  <2>7. ASSUME NEW kept \in SUBSET (db.stale \cup Pairs(db.own)), NEW o \in WriteOwnership(d, Blank, kept)
        PROVE  /\ o.v.cfg = db.cfg /\ o.v.manage = db.manage /\ o.v.pend = db.pend /\ o.v.pd = w.v
               /\ o.v.own.a4 \in {db.own.a4, None} /\ o.v.own.a6 \in {db.own.a6, None}
    <3>1. kept \in SUBSET Pair
      BY <2>6, Zenon
    <3>2. Blank.a4 = None /\ Blank.a6 = None
      BY Zenon DEF Blank
    <3> QED BY <2>5, <2>6, <2>7, <3>1, <3>2, OwnershipWritten
  <2>8. db' = d \/ \E kept \in SUBSET (db.stale \cup Pairs(db.own)) :
                      \E o \in WriteOwnership(d, Blank, kept) : db' = o.v
    BY <2>1, <2>4, Zenon
  <2>9. pc = "off"
    BY <1>8, Zenon DEF ClearAddrs
  <2>10. w.v \in {db.pd, None}
    BY <2>1, Zenon DEF ForgetPrefix, WriteScalar
  <2>11. CASE db' = d
    BY <2>5, <2>9, <2>10, <2>11, Zenon
  <2>12. ASSUME NEW kept \in SUBSET (db.stale \cup Pairs(db.own)), NEW o \in WriteOwnership(d, Blank, kept),
                db' = o.v
         PROVE  /\ db'.cfg = db.cfg /\ db'.manage = db.manage /\ db'.pend = db.pend /\ db'.pd = w.v
                /\ db'.own.a4 \in {db.own.a4, None} /\ db'.own.a6 \in {db.own.a6, None}
    BY <2>7, <2>12, Zenon
  <2> QED BY <2>8, <2>9, <2>10, <2>11, <2>12, Zenon
<1> QED BY <1>3, <1>5, <1>6, <1>7, <1>8, <1>9, Zenon DEF PassStep

LEMMA CandidateFits ==
    ASSUME dflt \in Seg, NEW d \in Records, d.cfg \in Seg, NEW pd \in Addr \cup {None},
           cand \in Candidate \cup {None}, NEW prior, cand = CandidateFor(d.cfg, prior)
    PROVE  Fits(PlanOf(d, pd))
<1>1. SegmentOf(d) = d.cfg
  BY ConstantsAssumption, Zenon DEF SegmentOf, ConstantsAssumption
<1>2. PlanOf(d, pd) = [iface |-> d.cfg.iface, a4 |-> d.cfg.a4, a6 |-> Resolved6(d.cfg, pd)]
  BY <1>1, Zenon DEF PlanOf
<1>3. /\ cand.iface = d.cfg.iface /\ cand.a4 = d.cfg.a4
      /\ cand.a6 \in {None, Resolved6(d.cfg, pd)}
  BY Zenon DEF CandidateFor, Resolved6
<1>4. PlanOf(d, pd) \in Drawn
  BY PlanType, Zenon
<1>5. Pairs(PlanOf(d, pd)) = {<<d.cfg.iface, a>> : a \in {d.cfg.a4, Resolved6(d.cfg, pd)} \ {None}}
  BY <1>2, <1>4, DrawnPairs
<1>6. \A p \in Pairs(cand) : \E a \in {cand.a4, cand.a6} \ {None} : p = <<cand.iface, a>>
  BY Zenon DEF Pairs
<1>7. Pairs(cand) \subseteq Pairs(PlanOf(d, pd))
  BY <1>3, <1>5, <1>6, Zenon
<1> QED BY <1>2, <1>3, <1>7 DEF Fits

LEMMA AskedPass ==
    ASSUME SInv, SInv', Asked, Pended, Pass
    PROVE  Asked' /\ Pended'
<1>1. UNCHANGED <<flow, txn, want, cand>> /\ pc \in InPass /\ PassStep
  BY PassLane, Zenon DEF Pass, caller
<1>2. db'.cfg = db.cfg /\ db'.manage = db.manage /\ db'.pend = db.pend
  BY <1>1, PassKeeps, Zenon
<1>3. pc \in Open
  BY <1>1, Zenon DEF InPass
<1>4. Pended'
  <2>1. pc' \notin {"begin", "undo", "clear"}
    BY <1>1, PassMoves, Zenon DEF Mid
  <2> QED BY <1>1, <1>2, <1>3, <2>1, Zenon DEF Pended
<1>5. txn # None => flow \in Change
  BY Zenon DEF SInv, Lanes
<1>6. flow \in Change =>
        want.cfg \in Seg /\ want.manage = (cand # None) /\ (cand # None => \E prior : cand = CandidateFor(want.cfg, prior))
  BY <1>3, Zenon DEF Asked
<1>7. txn # None => db'.cfg = want.cfg /\ db'.manage = want.manage
  BY <1>2, Zenon DEF Asked
<1>8. ASSUME txn # None, pc' \in Mid PROVE cand # None /\ Fits(plan)'
  <2>1. CASE pc = "plan" /\ plan' = PlanOf(db, db.pd)
    <3>1. db.manage /\ want.manage
      BY <1>8, <2>1, Zenon DEF Asked
    <3>2. cand # None
      BY <1>5, <1>6, <1>8, <3>1, Zenon
    <3>3. PICK prior : cand = CandidateFor(want.cfg, prior)
      BY <1>5, <1>6, <1>8, <3>2, Zenon
    <3>4. db.cfg = want.cfg /\ want.cfg \in Seg
      BY <1>5, <1>6, <1>8, Zenon DEF Asked
    <3>5. /\ db \in Records /\ dflt \in Seg /\ db.pd \in Addr \cup {None}
          /\ cand \in Candidate \cup {None}
      BY Zenon DEF SInv, RecordType, CallerType, Records
    <3>6. Fits(PlanOf(db, db.pd))
      BY <3>3, <3>4, <3>5, CandidateFits, Zenon
    <3> QED BY <1>1, <2>1, <3>2, <3>6, Zenon DEF Fits
  <2>2. CASE pc \in Mid /\ plan' = plan
    BY <1>1, <1>8, <2>2, Zenon DEF Asked, Fits
  <2> QED BY <1>1, <1>8, <2>1, <2>2, PassMoves, Zenon DEF Mid
<1>9. ASSUME txn # None, pc' \in {"off", "offlinks"} PROVE cand = None
  <2>1. (pc = "drain" /\ ~db.manage) \/ pc = "off"
    BY <1>1, <1>9, PassMoves, Zenon DEF Mid
  <2>2. CASE pc = "off"
    BY <1>9, <2>2, Zenon DEF Asked
  <2>3. CASE ~db.manage
    BY <1>5, <1>6, <1>9, <2>3, Zenon DEF Asked
  <2> QED BY <2>1, <2>2, <2>3, Zenon
<1>10. ASSUME txn # None, pc' \in Early PROVE db'.own = txn.own
  <2>1. pc \in Early /\ pc \notin {"own", "off"}
    BY <1>1, <1>10, PassMoves, Zenon DEF Mid, Early
  <2> QED BY <1>1, <1>10, <2>1, PassKeeps, Zenon DEF Asked
<1>11. pc' = "plan" => db'.manage
  <2>1. pc' = "plan" => pc = "drain" /\ db.manage
    BY <1>1, PassMoves, Zenon DEF Mid
  <2> QED BY <1>2, <2>1, Zenon
<1>12. pc' # "undo" /\ pc' \notin {"sync", "commit", "clear"}
  BY <1>1, PassMoves, Zenon DEF Mid
<1>13. ASSUME txn # None, pc' = "handback", ok', cand # None PROVE Fits(db.own)' 
  <2>1. ok' # FALSE
    BY <1>13, Zenon DEF SInv, LocalType
  <2>2. pc \in {"pd", "offlinks"}
    BY <1>1, <1>13, <2>1, PassMoves, Zenon DEF Mid
  <2>3. pc = "pd"
    BY <1>13, <2>2, Zenon DEF Asked
  <2>4. db'.own = plan /\ Fits(plan)
    BY <1>1, <1>13, <2>3, PassKeeps, Zenon DEF Asked, Mid, SInv, Achieved
  <2> QED BY <1>1, <2>4, Zenon DEF Fits
<1>14. (Ending /\ cand # None => Fits(db.own))'
  BY <1>1, <1>12, <1>13, Zenon DEF Ending
<1>15. (flow \in Change /\ pc \in Open \cup {"render", "guard", "arm", "begin"} =>
         /\ want.cfg \in Seg /\ want.manage = (cand # None)
         /\ cand # None => \E prior : cand = CandidateFor(want.cfg, prior))'
  BY <1>1, <1>6, Zenon DEF CandidateFor
<1> QED BY <1>1, <1>4, <1>7, <1>8, <1>9, <1>10, <1>11, <1>12, <1>14, <1>15, Zenon DEF Asked

\* Between operations, and where one has only its answer left to give, nothing is claimed.
LEMMA AskedAtRest ==
    ASSUME Lanes', pc' \in {"idle", "boot", "done", "resume", "fallback", "resync", "settle", "lease"}
    PROVE  Asked' /\ Pended'
<1>1. pc' \notin Open \cup {"render", "guard", "arm", "begin", "undo", "clear"}
  BY Zenon DEF Open
<1>2. txn' = None
  BY <1>1, Zenon DEF Lanes
<1>3. pc' \notin {"sync", "commit", "plan"}
  BY <1>1, Zenon DEF Open
<1> QED BY <1>1, <1>2, <1>3, Zenon DEF Asked, Pended, Ending

LEMMA RecordedCandidate ==
    ASSUME db \in Records, NEW c \in Candidate \cup {None}, NEW good \in BOOLEAN, RecordCandidate(c, good)
    PROVE  /\ db'.own = db.own /\ db'.stale = db.stale /\ db'.surv = db.surv /\ db'.links = db.links
           /\ db'.cfg = db.cfg /\ db'.manage = db.manage /\ db'.pd = db.pd
           /\ db'.pend \in {db.pend, c}
           /\ good /\ c # None => db'.pend = c
<1>1. CASE c = None
  BY <1>1, Zenon DEF RecordCandidate
<1>2. CASE c # None
  <2>1. PICK w \in WriteScalar(db.pend, c) : w.ok = good /\ db' = [db EXCEPT !.pend = w.v]
    BY <1>2, Zenon DEF RecordCandidate
  <2>2. w.v \in {db.pend, c} /\ (good => w.v = c)
    BY <2>1, Zenon DEF WriteScalar
  <2> QED BY <2>1, <2>2, Zenon DEF Records
<1> QED BY <1>1, <1>2, Zenon

LEMMA AskedStep ==
    ASSUME SInv, SInv', Asked, Pended, [Next]_vars
    PROVE  Asked' /\ Pended'
<1>1. db \in Records /\ cand \in Candidate \cup {None} /\ Lanes /\ Lanes'
  BY Zenon DEF SInv, RecordType, CallerType
<1>2. CASE Pass
  BY <1>2, AskedPass, Zenon
<1>3. CASE UNCHANGED <<pc, flow, want, cand, txn, db, plan, ok>>
  BY <1>3, Zenon DEF Asked, Pended, Ending, Fits
<1>4. ASSUME pc' \in {"idle", "boot", "done", "resume", "fallback", "resync", "settle", "lease"}
      PROVE  Asked' /\ Pended'
  BY <1>1, <1>4, AskedAtRest, Zenon
<1>5. CASE Begin
  <2>1. /\ pc = "begin" /\ pc' = "drain" /\ txn' = db /\ UNCHANGED <<flow, want, cand>>
        /\ db' = [db EXCEPT !.cfg = want.cfg, !.manage = want.manage]
    BY <1>5, Zenon DEF Begin, caller
  <2>2. flow \in Change /\ (cand # None => db.pend = cand)
    BY <1>1, <2>1, Zenon DEF Lanes, Pended
  <2>3. /\ db'.cfg = want.cfg /\ db'.manage = want.manage /\ db'.own = db.own /\ db'.pend = db.pend
    BY <1>1, <2>1, Zenon DEF Records
  <2>4. pc' \notin Mid \cup {"off", "offlinks", "plan", "undo"} /\ ~Ending'
    BY <2>1, Zenon DEF Mid, Ending
  <2> QED BY <2>1, <2>2, <2>3, <2>4, Zenon DEF Asked, Pended
<1>6. CASE HandBack
  <2>1. /\ pc = "handback" /\ pc' \in {"undo", "done", "sync", "rollback"} /\ UNCHANGED <<flow, want, cand, txn, db>>
        /\ pc' = "undo" => flow = "recover"
        /\ pc' = "sync" => ok /\ flow # "recover" /\ flow # "boot"
    BY <1>6, Zenon DEF HandBack
  <2>2. CASE pc' = "done"
    BY <1>4, <2>2, Zenon
  <2>3. CASE pc' = "undo"
    BY <1>1, <2>1, <2>3, Zenon DEF Asked, Pended, Ending, Open, Mid, Early, Lanes, Change
  <2>4. CASE pc' \in {"sync", "rollback"}
    <3>1. pc \in Open /\ flow' \in Change /\ pc' \notin {"plan", "undo", "begin", "clear", "off", "offlinks"} \cup Mid \cup Early
      BY <1>1, <2>1, <2>4, Zenon DEF Open, Mid, Early, Lanes
    <3>2. txn # None
      BY <1>1, <2>1, <3>1, Zenon DEF Lanes
    <3>3. Ending' => Ending
      BY <2>1, <2>4, <3>2, Zenon DEF Ending
    <3> QED BY <2>1, <2>4, <3>1, <3>3, Zenon DEF Asked, Pended, Fits
  <2> QED BY <2>1, <2>2, <2>3, <2>4, Zenon
<1>7. CASE SyncAndCommit
  <2>1. pc = "sync" /\ pc' \in {"commit", "rollback"} /\ UNCHANGED <<flow, want, cand, txn, db>>
    BY <1>7, Zenon DEF SyncAndCommit, caller
  <2>2. /\ pc \in Open /\ flow \in Change /\ Ending /\ txn # None
        /\ pc' \notin {"plan", "undo", "begin", "clear", "off", "offlinks"} \cup Mid \cup Early
    BY <1>1, <2>1, Zenon DEF Open, Mid, Early, Lanes, Ending
  <2> QED BY <2>1, <2>2, Zenon DEF Asked, Pended, Fits
<1>8. CASE Commit
  <2>1. /\ pc = "commit" /\ pc' \in {"clear", "rollback"} /\ UNCHANGED <<flow, want, cand, db>>
        /\ (pc' = "rollback" /\ txn' = txn) \/ txn' = None
    BY <1>8, Zenon DEF Commit, caller
  <2>2. /\ pc \in Open /\ flow \in Change /\ Ending /\ txn # None
        /\ pc' \notin {"plan", "undo", "begin", "off", "offlinks"} \cup Mid \cup Early
    BY <1>1, <2>1, Zenon DEF Open, Mid, Early, Lanes, Ending
  <2> QED BY <2>1, <2>2, Zenon DEF Asked, Pended, Fits
<1>9. CASE Rollback
  <2>1. pc = "rollback" /\ pc' = "drain" /\ flow' = "recover" /\ db' = txn /\ txn' = None /\ cand' = cand
    BY <1>9, Zenon DEF Rollback
  <2>2. txn # None /\ flow' \notin Change
    BY <1>1, <2>1, Zenon DEF Lanes, Open, Change
  <2> QED BY <2>1, <2>2, Zenon DEF Asked, Pended, Ending
<1>10. CASE Undo
  <2>1. /\ pc = "undo" /\ UNCHANGED <<flow, cand, txn>>
        /\ pc' \in {"clear", "resync"} \/ (pc' = "drain" /\ flow = "boot")
        /\ \E v : db' = db \/ db' = [db EXCEPT !.surv = v]
    BY <1>10, Zenon DEF Undo, Settled, caller
  <2>2. flow \in {"recover", "boot"} /\ flow \notin Change /\ (cand # None => db.pend = cand)
    BY <2>1, Zenon DEF Asked, Pended, Change
  <2>3. db'.pend = db.pend
    BY <1>1, <2>1, Zenon DEF Records
  <2>4. txn' = None
    BY <1>1, <2>1, <2>2, Zenon DEF Lanes
  <2> QED BY <2>1, <2>2, <2>3, <2>4, Zenon DEF Asked, Pended, Ending
<1>11. CASE Clear
  <2>1. pc' \in {"resync", "done"} \/ (pc' = "drain" /\ flow' = "boot")
    BY <1>11, Zenon DEF Clear
  <2>2. CASE pc' \in {"resync", "done"}
    BY <1>4, <2>2, Zenon
  <2>3. CASE pc' = "drain" /\ flow' = "boot"
    <3>1. flow' \notin Change \cup {"recover"} /\ txn' = None
      BY <1>1, <2>3, Zenon DEF Lanes, Change
    <3> QED BY <2>3, <3>1, Zenon DEF Asked, Pended, Ending
  <2> QED BY <2>1, <2>2, <2>3, Zenon
<1>12. CASE Resync \/ Finish \/ SettlePreflight \/ BootGuard \/ Fallback \/ RecordLease \/ Crash \/ Reboot
  BY <1>4, <1>12, Zenon DEF Resync, Finish, SettlePreflight, BootGuard, Fallback, RecordLease, Crash, Reboot, Restarted
<1>13. CASE RenderGuard \/ InstallGuard
  <2>1. /\ pc \in {"render", "guard"} /\ pc' \in {"guard", "arm", "settle"} /\ UNCHANGED <<flow, want, cand, txn, db>>
    BY <1>13, Zenon DEF RenderGuard, InstallGuard, caller
  <2>2. CASE pc' = "settle"
    BY <1>4, <2>2, Zenon
  <2>3. CASE pc' \in {"guard", "arm"}
    <3>1. txn' = None
      BY <1>1, <2>3, Zenon DEF Lanes, Open
    <3> QED BY <2>1, <2>3, <3>1, Zenon DEF Asked, Pended, Ending, Open
  <2> QED BY <2>1, <2>2, <2>3, Zenon
<1>14. CASE ArmCandidate
  <2>1. PICK good \in BOOLEAN :
            /\ RecordCandidate(cand, good) /\ pc' = IF good THEN "begin" ELSE "settle"
    BY <1>14, Zenon DEF ArmCandidate
  <2>2. pc = "arm" /\ UNCHANGED <<flow, want, cand, txn>>
    BY <1>14, Zenon DEF ArmCandidate
  <2>3. CASE ~good
    BY <1>4, <2>1, <2>3, Zenon
  <2>4. CASE good
    <3>1. cand # None => db'.pend = cand
      BY <1>1, <2>1, <2>4, RecordedCandidate, Zenon
    <3>2. pc' = "begin" /\ txn' = None
      BY <1>1, <2>1, <2>4, Zenon DEF Lanes, Open
    <3> QED BY <2>2, <3>1, <3>2, Zenon DEF Asked, Pended, Ending
  <2> QED BY <2>3, <2>4, Zenon
<1>15. CASE ResumeUndo
  <2>1. pc = "resume" /\ flow' = flow /\ db' = db /\ txn' = txn /\ (pc' = "drain" \/ (pc' = "undo" /\ cand' \in {db.pend, None}))
    BY <1>15, Zenon DEF ResumeUndo
  <2>2. flow' = "boot" /\ txn' = None /\ flow' \notin Change \cup {"recover"}
    BY <1>1, <2>1, Zenon DEF Lanes, Change
  <2> QED BY <2>1, <2>2, Zenon DEF Asked, Pended, Ending
<1>16. CASE PrefixChanged
  <2>1. UNCHANGED <<pc, flow, want, cand, txn, db, plan, ok>> \/ (pc' = "own" /\ flow' = "pd")
    BY <1>16, Zenon DEF PrefixChanged
  <2>2. CASE pc' = "own" /\ flow' = "pd"
    <3>1. txn' = None /\ flow' \notin Change \cup {"recover"}
      BY <1>1, <2>2, Zenon DEF Lanes, Change
    <3> QED BY <2>2, <3>1, Zenon DEF Asked, Pended, Ending
  <2> QED BY <1>3, <2>1, <2>2, Zenon
<1>17. ASSUME NEW seg \in Seg, NEW manage \in BOOLEAN, NEW prior \in {Probed(seg.iface), "unknown"},
              cand' = IF manage THEN CandidateFor(seg, prior) ELSE None,
              want' = [cfg |-> seg, manage |-> manage], pc' \in {"begin", "render"}
       PROVE  /\ want'.cfg \in Seg /\ want'.manage = (cand' # None) /\ cand' \in Candidate \cup {None}
              /\ cand' # None => \E k : cand' = CandidateFor(want'.cfg, k)
              /\ txn' = None
  <2>1. prior \in {"absent", "present", "unknown"}
    BY <1>17, Zenon DEF Probed
  <2>2. CandidateFor(seg, prior) \in Candidate /\ CandidateFor(seg, prior) # None
    <3>1. CandidateFor(seg, prior) \in Candidate
      BY <2>1, CandidateType, Zenon
    <3> QED BY <3>1, ConstantsAssumption, Zenon DEF ConstantsAssumption
  <2>3. txn' = None
    BY <1>1, <1>17, Zenon DEF Lanes, Open
  <2>4. want'.cfg = seg /\ want'.manage = manage
    BY <1>17, Zenon
  <2>5. CASE manage
    BY <1>17, <2>2, <2>3, <2>4, <2>5, Zenon
  <2>6. CASE ~manage
    BY <1>17, <2>3, <2>4, <2>6, Zenon
  <2> QED BY <2>5, <2>6, Zenon
<1>18. ASSUME NEW seg \in Seg, PutNetwork(seg) PROVE Asked' /\ Pended'
  <2>1. db.manage \in BOOLEAN
    BY <1>1, Zenon DEF Records
  <2>2. PICK prior \in {Probed(seg.iface), "unknown"}, good \in BOOLEAN :
            /\ cand' = IF db.manage THEN CandidateFor(seg, prior) ELSE None
            /\ RecordCandidate(cand', good) /\ pc' = IF good THEN "begin" ELSE "done"
    BY <1>18, Zenon DEF PutNetwork
  <2>3. CASE ~good
    BY <1>4, <2>2, <2>3, Zenon
  <2>4. CASE good
    <3>1. pc' = "begin" /\ want' = [cfg |-> seg, manage |-> db.manage]
      BY <1>18, <2>2, <2>4, Zenon DEF PutNetwork
    <3>2. /\ want'.cfg \in Seg /\ want'.manage = (cand' # None) /\ cand' \in Candidate \cup {None}
          /\ cand' # None => \E k : cand' = CandidateFor(want'.cfg, k)
          /\ txn' = None
      BY <1>17, <2>1, <2>2, <3>1, Zenon
    <3>3. cand' # None => db'.pend = cand'
      BY <1>1, <2>2, <2>4, <3>2, RecordedCandidate, Zenon
    <3> QED BY <3>1, <3>2, <3>3, Zenon DEF Asked, Pended, Ending
  <2> QED BY <2>3, <2>4, Zenon
<1>19. ASSUME NEW seg \in Seg, NEW manage \in BOOLEAN, RestoreBackup(seg, manage) PROVE Asked' /\ Pended'
  <2>1. PICK prior \in {Probed(seg.iface), "unknown"}, good \in BOOLEAN :
            /\ cand' = IF manage THEN CandidateFor(seg, prior) ELSE None
            /\ pc' = IF good THEN "render" ELSE "done"
    BY <1>19, Zenon DEF RestoreBackup
  <2>2. want' = [cfg |-> seg, manage |-> manage]
    BY <1>19, Zenon DEF RestoreBackup
  <2>3. CASE ~good
    BY <1>4, <2>1, <2>3, Zenon
  <2>4. CASE good
    <3>1. pc' = "render"
      BY <2>1, <2>4, Zenon
    <3>2. /\ want'.cfg \in Seg /\ want'.manage = (cand' # None)
          /\ cand' # None => \E k : cand' = CandidateFor(want'.cfg, k)
          /\ txn' = None
      BY <1>17, <2>1, <2>2, <3>1, Zenon
    <3> QED BY <3>1, <3>2, Zenon DEF Asked, Pended, Ending, Open
  <2> QED BY <2>3, <2>4, Zenon
<1>20. ASSUME NEW p \in Prefix \cup {None}, PollPrefix(p) PROVE Asked' /\ Pended'
  BY <1>3, <1>20, Zenon DEF PollPrefix, locals
<1>21. ASSUME NEW i \in Iface, OperatorCleans(i) PROVE Asked' /\ Pended'
  BY <1>3, <1>21, Zenon DEF OperatorCleans, locals, caller
<1>22. CASE SyncAtIdle \/ UNCHANGED vars
  BY <1>3, <1>22, Zenon DEF SyncAtIdle, vars, locals, caller
<1> QED BY Zenon, <1>2, <1>5, <1>6, <1>7, <1>8, <1>9, <1>10, <1>11, <1>12, <1>13, <1>14, <1>15, <1>16, <1>18,
           <1>19, <1>20, <1>21, <1>22
        DEF Next, Step

LEMMA AskedInit == Init => Asked /\ Pended
<1> SUFFICES ASSUME Init PROVE Asked /\ Pended
  BY Zenon
<1>1. pc = "boot" /\ flow = "none" /\ txn = None /\ cand = None
  BY Zenon DEF Init, Quiet
<1> QED BY <1>1, Zenon DEF Asked, Pended, Ending, Change

LEMMA AskedHolds == Spec => [](SInv /\ Asked /\ Pended)
<1>1. Init => SInv /\ Asked /\ Pended
  BY SInvInit, AskedInit, Zenon
<1>2. SInv /\ Asked /\ Pended /\ [Next]_vars => SInv' /\ Asked' /\ Pended'
  BY SInvStep, AskedStep, Zenon
<1> QED BY <1>1, <1>2, PTL DEF Spec

-----------------------------------------------------------------------------
(* The steps outside a pass, by what they do to the records                *)

LEMMA OutsidePass ==
    ASSUME SInv, [Next]_vars, ~Pass
    PROVE  /\ txn' \in {txn, None, db}
           /\ \/ db' = txn /\ txn # None
              \/ /\ db'.own = db.own /\ db'.stale = db.stale /\ db'.links = db.links
                 /\ db'.pd = db.pd \/ (pc = "lease" /\ db'.pd \in {db.pd, ring})
           /\ plan' \in {plan, Blank} \/ (ring # Off /\ plan' = PlanOf(db, ring))
           /\ ring' \in {ring, Off} \cup Prefix \cup {None}
<1>1. db \in Records /\ cand \in Candidate \cup {None}
  BY Zenon DEF SInv, RecordType, CallerType
<1> DEFINE Same(d) == d.own = db.own /\ d.stale = db.stale /\ d.links = db.links /\ d.pd = db.pd
<1>2. Same(db)
  BY Zenon
<1>3. ASSUME NEW v PROVE Same([db EXCEPT !.pend = v]) /\ Same([db EXCEPT !.surv = v])
  BY <1>1, Zenon DEF Records
<1>4. ASSUME NEW c, NEW m PROVE Same([db EXCEPT !.cfg = c, !.manage = m])
  BY <1>1, Zenon DEF Records
<1> SUFFICES /\ txn' \in {txn, None, db}
             /\ \/ db' = txn /\ txn # None
                \/ Same(db')
                \/ /\ db'.own = db.own /\ db'.stale = db.stale /\ db'.links = db.links
                   /\ pc = "lease" /\ db'.pd \in {db.pd, ring}
             /\ plan' \in {plan, Blank} \/ (ring # Off /\ plan' = PlanOf(db, ring))
             /\ ring' \in {ring, Off} \cup Prefix \cup {None}
  BY Zenon
<1> HIDE DEF Same
<1>5. ASSUME NEW c, NEW good, RecordCandidate(c, good) \/ ClearCandidate(good) PROVE Same(db')
  BY <1>2, <1>3, <1>5, Zenon DEF RecordCandidate, ClearCandidate
<1>6. CASE Begin \/ HandBack \/ SyncAndCommit \/ Commit
  <2>1. CASE Begin
    BY <1>4, <2>1, Zenon DEF Begin, locals, caller
  <2>2. CASE HandBack
    BY <1>2, <2>2, Zenon DEF HandBack, locals
  <2>3. CASE SyncAndCommit \/ Commit
    BY <1>2, <2>3, Zenon DEF SyncAndCommit, Commit, locals, caller
  <2> QED BY <1>6, <2>1, <2>2, <2>3, Zenon
<1>7. CASE Rollback
  <2>1. txn # None
    BY <1>7, Zenon DEF Rollback, SInv, Lanes, Open
  <2> QED BY <1>7, <2>1, Zenon DEF Rollback, locals
<1>8. CASE Undo
  BY <1>2, <1>3, <1>8, Zenon DEF Undo, locals, caller
<1>9. CASE Clear \/ SettlePreflight \/ ArmCandidate
  BY <1>2, <1>5, <1>9, Zenon DEF Clear, SettlePreflight, ArmCandidate, locals, caller
<1>10. CASE Resync \/ Finish \/ RenderGuard \/ InstallGuard
  BY <1>2, <1>10, Zenon DEF Resync, Finish, Forget, RenderGuard, InstallGuard, locals, caller
<1>11. CASE BootGuard \/ Fallback \/ ResumeUndo
  BY <1>2, <1>11, Zenon DEF BootGuard, Fallback, ResumeUndo, locals, caller
<1>12. CASE RecordLease
  <2>1. PICK w \in WriteScalar(db.pd, ring) : db' = [db EXCEPT !.pd = w.v]
    BY <1>12, Zenon DEF RecordLease
  <2>2. w.v \in {db.pd, ring}
    BY Zenon DEF WriteScalar
  <2>3. /\ db'.own = db.own /\ db'.stale = db.stale /\ db'.links = db.links /\ db'.pd \in {db.pd, ring}
    BY <1>1, <2>1, <2>2, Zenon DEF Records
  <2> QED BY <1>12, <2>3, Zenon DEF RecordLease, locals, caller
<1>13. CASE PrefixChanged \/ SyncAtIdle \/ UNCHANGED vars
  BY <1>2, <1>13, Zenon DEF PrefixChanged, SyncAtIdle, vars, locals, caller
<1>14. CASE Crash \/ Reboot
  BY <1>2, <1>14, Zenon DEF Crash, Reboot, Restarted, Forget
<1>15. ASSUME NEW seg \in Seg, PutNetwork(seg) \/ \E manage \in BOOLEAN : RestoreBackup(seg, manage)
       PROVE  Same(db') /\ UNCHANGED <<txn, plan, ring>>
  BY <1>5, <1>15, Zenon DEF PutNetwork, RestoreBackup, locals
<1>16. ASSUME NEW p \in Prefix \cup {None}, PollPrefix(p) PROVE Same(db') /\ UNCHANGED <<txn, plan>> /\ ring' = p
  BY <1>2, <1>16, Zenon DEF PollPrefix, locals
<1>17. ASSUME NEW i \in Iface, OperatorCleans(i) PROVE Same(db') /\ UNCHANGED <<txn, plan, ring>>
  BY <1>2, <1>17, Zenon DEF OperatorCleans, locals, caller
<1>18. CASE Same(db') /\ UNCHANGED <<txn, plan>> /\ (ring' = ring \/ ring' \in Prefix \cup {None})
  BY <1>18, Zenon
<1> QED BY <1>6, <1>7, <1>8, <1>9, <1>10, <1>11, <1>12, <1>13, <1>14, <1>15, <1>16, <1>17, <1>18, Zenon DEF Next, Step

-----------------------------------------------------------------------------
(* The links the panel may delete                                          *)

VlanOnly(c) == c # None /\ c.vlan => c.iface \in Vlan

\* Only VLANs are ever deleted, so an interface of another kind stays.
Rooted ==
    /\ \A i \in Iface \ Vlan : Present(i)
    /\ db.links \subseteq Vlan /\ (txn # None => txn.links \subseteq Vlan)
    /\ VlanOnly(cand) /\ VlanOnly(db.pend) /\ (txn # None => VlanOnly(txn.pend))

\* _record_ownership leaves the other ledgers alone, whoever calls it.
LEMMA LedgersApart ==
    ASSUME SInv, RecordOwnership \/ RetireAddrs \/ ClearAddrs
    PROVE  db'.links = db.links /\ db'.surv = db.surv
<1>1. db \in Records /\ db.own \in Owner /\ db.stale \in SUBSET Pair
  BY Zenon DEF SInv, RecordType, Records
<1>2. ASSUME NEW d \in Records, NEW own \in Owner, NEW stale \in SUBSET Pair,
             NEW w \in WriteOwnership(d, own, stale)
      PROVE  w.v.links = d.links /\ w.v.surv = d.surv
  BY <1>2, OwnershipWritten, Zenon
<1>3. CASE RecordOwnership
  <2>1. plan \in Drawn
    BY <1>3, Zenon DEF RecordOwnership, SInv, LocalType
  <2>2. plan \in Owner /\ Owed(db) \in SUBSET Pair
    BY <1>1, <2>1, OwedType, DrawnPairs, Zenon
  <2>3. db' = db \/ \E w \in WriteOwnership(db, plan, Owed(db)) : db' = w.v
    BY <1>3, Zenon DEF RecordOwnership
  <2>4. ASSUME NEW w \in WriteOwnership(db, plan, Owed(db)), db' = w.v
        PROVE  db'.links = db.links /\ db'.surv = db.surv
    BY <1>1, <1>2, <2>2, <2>4, Zenon
  <2> QED BY <2>3, <2>4, Zenon
<1>4. CASE RetireAddrs
  <2>1. db' = db \/ \E kept \in SUBSET db.stale : \E w \in WriteOwnership(db, db.own, kept) : db' = w.v
    BY <1>4, Zenon DEF RetireAddrs
  <2>2. ASSUME NEW kept \in SUBSET db.stale, NEW w \in WriteOwnership(db, db.own, kept), db' = w.v
        PROVE  db'.links = db.links /\ db'.surv = db.surv
    <3>1. kept \in SUBSET Pair
      BY <1>1, Zenon
    <3> QED BY <1>1, <1>2, <2>2, <3>1, Zenon
  <2> QED BY <2>1, <2>2, Zenon
<1>5. CASE ClearAddrs
  <2> DEFINE held == db.stale \cup Pairs(db.own)
  <2>1. PICK v \in {db.pd, None} :
            \/ \E kept \in SUBSET held : \E o \in WriteOwnership([db EXCEPT !.pd = v], Blank, kept) : db' = o.v
            \/ db' = [db EXCEPT !.pd = v]
    <3>1. \A w \in ForgetPrefix : w.v \in {db.pd, None}
      BY Zenon DEF ForgetPrefix, WriteScalar
    <3> QED BY <1>5, <3>1, Zenon DEF ClearAddrs
  <2>2. PICK d : d = [db EXCEPT !.pd = v]
    BY Zenon
  <2>3. v \in Addr \cup {None}
    BY <1>1, <2>1, Zenon DEF Records
  <2>4. d \in Records
    BY <1>1, <2>2, <2>3, RecordsUpdate, Zenon
  <2>5. d.surv = db.surv /\ d.links = db.links
    BY <1>1, <2>2, Zenon DEF Records
  <2>6. held \in SUBSET Pair /\ Blank \in Owner
    BY <1>1, PairsType, Zenon DEF Blank, Owner
  <2>7. ASSUME NEW kept \in SUBSET held, NEW o \in WriteOwnership(d, Blank, kept), db' = o.v
        PROVE  db'.links = d.links /\ db'.surv = d.surv
    <3>1. kept \in SUBSET Pair
      BY <2>6, <2>7, Zenon
    <3> QED BY <1>2, <2>4, <2>6, <2>7, <3>1, Zenon
  <2> QED BY <2>1, <2>2, <2>5, <2>7, Zenon
<1> QED BY <1>3, <1>4, <1>5, Zenon

\* ensure_segment_link and _retire_links: a pass records and deletes VLANs only.
LEMMA LinksMove ==
    ASSUME SInv, PassStep
    PROVE  /\ db'.links \subseteq db.links \cup ({plan.iface} \cap Vlan)
           /\ \A i \in Iface : Present(i)' \/ ~Present(i) \/ i \in db.links
<1>1. db \in Records /\ link \in [Iface -> {"absent", "down", "up"}]
  BY Zenon DEF SInv, RecordType, HostType
<1>2. CASE ReadPlan \/ Stage \/ InstallAddrs \/ TakeFromNM \/ ServeDhcp \/ Narrow
  <2>1. UNCHANGED <<link, db>>
    BY <1>2, Zenon DEF ReadPlan, Stage, InstallAddrs, TakeFromNM, ServeDhcp, Narrow
  <2> QED BY <2>1, Zenon DEF Present
<1>3. CASE AddLink \/ Activate
  <2>1. db' = db /\ (link' = link \/ link' = [link EXCEPT ![plan.iface] = "down"]
                                  \/ link' = [link EXCEPT ![plan.iface] = "up"])
    BY <1>3, Zenon DEF AddLink, Activate
  <2>2. \A i \in Iface : link[i] # "absent" => link'[i] # "absent"
    BY <1>1, <2>1
  <2> QED BY <2>1, <2>2, Zenon DEF Present
<1>4. CASE Drain \/ FollowPrefix
  <2>1. link' = link /\ (db' = db \/ \E v : db' = [db EXCEPT !.surv = v] \/ db' = [db EXCEPT !.pd = v])
    BY <1>4, Zenon DEF Drain, FollowPrefix, host
  <2>2. db'.links = db.links
    BY <1>1, <2>1, Zenon DEF Records
  <2> QED BY <2>1, <2>2, Zenon DEF Present
<1>5. CASE RecordLink
  <2>1. link' = link
    BY <1>5, Zenon DEF RecordLink, host
  <2>2. db' = db \/ (plan.iface \in Vlan /\ \E w \in WriteSet(db.links, db.links \cup {plan.iface}) :
                        db' = [db EXCEPT !.links = w.v])
    BY <1>5, Zenon DEF RecordLink
  <2>3. \A w \in WriteSet(db.links, db.links \cup {plan.iface}) : w.v \subseteq db.links \cup {plan.iface}
    BY Zenon DEF WriteSet
  <2>4. ASSUME NEW v, db' = [db EXCEPT !.links = v] PROVE db'.links = v
    BY <1>1, <2>4, Zenon DEF Records
  <2> QED BY <2>1, <2>2, <2>3, <2>4, Zenon DEF Present
<1>6. CASE RecordOwnership \/ RetireAddrs \/ ClearAddrs
  <2>1. link' = link
    BY <1>6, Zenon DEF RecordOwnership, RetireAddrs, ClearAddrs, host
  <2> QED BY <1>6, <2>1, LedgersApart, Zenon DEF Present
<1>7. CASE RetireSuperseded \/ ClearLinks
  <2>1. PICK owned \in SUBSET db.links : RetireLinks(owned)
    BY <1>7, Zenon DEF RetireSuperseded, ClearLinks
  <2>2. PICK gone \in SUBSET owned : \E w \in WriteSet(db.links, db.links \ gone) :
            Without(gone) /\ db' = [db EXCEPT !.links = w.v]
    BY <2>1, Zenon DEF RetireLinks
  <2>3. PICK w \in WriteSet(db.links, db.links \ gone) : Without(gone) /\ db' = [db EXCEPT !.links = w.v]
    BY <2>2, Zenon
  <2>4. w.v \subseteq db.links
    BY <2>3, Zenon DEF WriteSet
  <2>5. db'.links = w.v
    BY <1>1, <2>3, Zenon DEF Records
  <2>6. \A i \in Iface : i \in gone \/ link'[i] = link[i]
    BY <2>3, Zenon DEF Without
  <2> QED BY <2>1, <2>2, <2>4, <2>5, <2>6, Zenon DEF Present
<1> QED BY <1>2, <1>3, <1>4, <1>5, <1>6, <1>7, Zenon DEF PassStep

\* Where the candidate in memory and the one on record come from, outside a pass.
LEMMA CandidateMoves ==
    ASSUME SInv, [Next]_vars, ~Pass
    PROVE  /\ cand' \in {cand, None, db.pend} \/ \E seg \in Seg : \E prior : cand' = CandidateFor(seg, prior)
           /\ db'.pend \in {db.pend, None, cand', Unarmed(cand')} \/ (txn # None /\ db' = txn)
<1> DEFINE From == cand' \in {cand, None, db.pend} \/ \E seg \in Seg : \E prior : cand' = CandidateFor(seg, prior)
           To == db'.pend \in {db.pend, None, cand', Unarmed(cand')} \/ (txn # None /\ db' = txn)
<1> SUFFICES From /\ To
  BY Zenon
<1>1. db \in Records /\ Lanes
  BY Zenon DEF SInv, RecordType
<1>2. ASSUME NEW c, NEW good, RecordCandidate(c, good) PROVE db'.pend \in {db.pend, c}
  <2>1. CASE c = None
    BY <1>2, <2>1, Zenon DEF RecordCandidate
  <2>2. CASE c # None
    <3>1. PICK w \in WriteScalar(db.pend, c) : db' = [db EXCEPT !.pend = w.v]
      BY <1>2, <2>2, Zenon DEF RecordCandidate
    <3>2. w.v \in {db.pend, c}
      BY <3>1, Zenon DEF WriteScalar
    <3> QED BY <1>1, <3>1, <3>2, Zenon DEF Records
  <2> QED BY <2>1, <2>2, Zenon
<1>3. ASSUME NEW good, ClearCandidate(good) PROVE db'.pend \in {db.pend, None}
  <2>1. PICK w \in WriteScalar(db.pend, None) : db' = [db EXCEPT !.pend = w.v]
    BY <1>3, Zenon DEF ClearCandidate
  <2>2. w.v \in {db.pend, None}
    BY <2>1, Zenon DEF WriteScalar
  <2> QED BY <1>1, <2>1, <2>2, Zenon DEF Records
<1>4. CASE UNCHANGED <<cand, db>>
  BY <1>4, Zenon
<1>5. CASE HandBack \/ SyncAndCommit \/ Commit \/ Resync \/ RenderGuard \/ InstallGuard \/ BootGuard \/ Fallback
           \/ PrefixChanged \/ SyncAtIdle \/ UNCHANGED vars
  BY <1>4, <1>5, Zenon DEF HandBack, SyncAndCommit, Commit, Resync, RenderGuard, InstallGuard, BootGuard, Fallback,
       PrefixChanged, SyncAtIdle, vars, caller
<1>6. CASE Begin \/ Undo \/ RecordLease
  <2>1. cand' = cand /\ (db' = db \/ \E v, m : \/ db' = [db EXCEPT !.cfg = v, !.manage = m]
                                               \/ db' = [db EXCEPT !.surv = v] \/ db' = [db EXCEPT !.pd = v])
    BY <1>6, Zenon DEF Begin, Undo, RecordLease, caller
  <2>2. db'.pend = db.pend
    BY <1>1, <2>1, Zenon DEF Records
  <2> QED BY <2>1, <2>2, Zenon
<1>7. CASE Clear \/ SettlePreflight
  <2>1. cand' = cand /\ (db' = db \/ \E good \in BOOLEAN : ClearCandidate(good))
    BY <1>7, Zenon DEF Clear, SettlePreflight, caller
  <2> QED BY <1>3, <2>1, Zenon
<1>8. CASE ArmCandidate
  <2>1. cand' = cand /\ \E good \in BOOLEAN : RecordCandidate(cand, good)
    BY <1>8, Zenon DEF ArmCandidate
  <2> QED BY <1>2, <2>1, Zenon
<1>9. CASE Rollback
  <2>1. cand' = cand /\ db' = txn /\ pc = "rollback"
    BY <1>9, Zenon DEF Rollback
  <2>2. txn # None
    BY <1>1, <2>1, Zenon DEF Lanes, Open
  <2> QED BY <2>1, <2>2, Zenon
<1>10. CASE Finish \/ ResumeUndo
  <2>1. db' = db /\ cand' \in {None, db.pend}
    BY <1>10, Zenon DEF Finish, Forget, ResumeUndo
  <2> QED BY <2>1, Zenon
<1>11. CASE Crash \/ Reboot
  <2>1. cand' = None /\ db' = (IF txn = None THEN db ELSE txn)
    BY <1>11, Zenon DEF Crash, Reboot, Restarted, Forget
  <2> QED BY <2>1, Zenon
<1>12. ASSUME NEW seg \in Seg, PutNetwork(seg) PROVE From /\ To
  <2>1. PICK prior \in {Probed(seg.iface), "unknown"}, good \in BOOLEAN :
            /\ cand' = IF db.manage THEN CandidateFor(seg, prior) ELSE None
            /\ RecordCandidate(cand', good)
    BY <1>12, Zenon DEF PutNetwork
  <2>2. db'.pend \in {db.pend, cand'}
    BY <1>2, <2>1, Zenon
  <2> QED BY <2>1, <2>2, Zenon
<1>13. ASSUME NEW seg \in Seg, NEW manage \in BOOLEAN, RestoreBackup(seg, manage) PROVE From /\ To
  <2>1. PICK prior \in {Probed(seg.iface), "unknown"}, good \in BOOLEAN :
            /\ cand' = IF manage THEN CandidateFor(seg, prior) ELSE None
            /\ RecordCandidate(Unarmed(cand'), good)
    BY <1>13, Zenon DEF RestoreBackup
  <2>2. db'.pend \in {db.pend, Unarmed(cand')}
    BY <1>2, <2>1, Zenon
  <2> QED BY <2>1, <2>2, Zenon
<1>14. ASSUME NEW p \in Prefix \cup {None}, PollPrefix(p) PROVE From /\ To
  BY <1>4, <1>14, Zenon DEF PollPrefix
<1>15. ASSUME NEW i \in Iface, OperatorCleans(i) PROVE From /\ To
  BY <1>4, <1>15, Zenon DEF OperatorCleans, caller
<1> HIDE DEF From, To
<1> QED BY <1>5, <1>6, <1>7, <1>8, <1>9, <1>10, <1>11, <1>12, <1>13, <1>14, <1>15, Zenon DEF Next, Step

\* Outside a pass a link goes in an undo, by the operator's hand or in a reboot.
LEMMA LinkGoes ==
    ASSUME SInv, [Next]_vars, ~Pass, NEW i \in Iface, Present(i), ~Present(i)'
    PROVE  i \notin Foreign \/ (cand # None /\ cand.vlan /\ i = cand.iface)
<1>1. link' # link
  BY Zenon DEF Present
<1>2. CASE Undo
  <2>1. cand # None /\ cand.vlan /\ link' = [j \in Iface |-> IF j \in {cand.iface} THEN "absent" ELSE link[j]]
    BY <1>1, <1>2, Zenon DEF Undo, MayDelete, Without
  <2> QED BY <2>1, Zenon DEF Present
<1>3. CASE Reboot
  BY <1>3, Zenon DEF Reboot, Present
<1>4. ASSUME NEW j \in Iface, OperatorCleans(j) PROVE i \notin Foreign
  <2>1. j \notin Foreign /\ link' = [k \in Iface |-> IF k \in {j} THEN "absent" ELSE link[k]]
    BY <1>1, <1>4, Zenon DEF OperatorCleans, Without
  <2> QED BY <2>1, Zenon DEF Present
<1>5. CASE Step /\ ~Pass /\ ~Undo
  BY <1>1, <1>5, Zenon DEF Step, Begin, HandBack, SyncAndCommit, Commit, Rollback, Clear, Resync, Finish, RenderGuard,
       InstallGuard, ArmCandidate, SettlePreflight, BootGuard, Fallback, ResumeUndo, RecordLease, host
<1>6. CASE PrefixChanged \/ SyncAtIdle \/ Crash \/ UNCHANGED vars
  BY <1>1, <1>6, Zenon DEF PrefixChanged, SyncAtIdle, Crash, vars, host
<1>7. /\ \A seg \in Seg : ~PutNetwork(seg)
      /\ \A seg \in Seg, manage \in BOOLEAN : ~RestoreBackup(seg, manage)
      /\ \A p \in Prefix \cup {None} : ~PollPrefix(p)
  BY <1>1, Zenon DEF PutNetwork, RestoreBackup, PollPrefix, host
<1> QED BY <1>2, <1>3, <1>4, <1>5, <1>6, <1>7, Zenon DEF Next, Step

LEMMA RootedStep ==
    ASSUME Iface \ Vlan \subseteq Foreign, SInv, Rooted, [Next]_vars
    PROVE  Rooted'
<1>1. CASE Pass
  <2>1. UNCHANGED <<cand, txn>> /\ db'.pend = db.pend /\ PassStep
    BY <1>1, PassLane, PassKeeps, Zenon DEF Pass, caller
  <2>2. /\ db'.links \subseteq db.links \cup ({plan.iface} \cap Vlan)
        /\ \A i \in Iface : Present(i)' \/ ~Present(i) \/ i \in db.links
    BY <2>1, LinksMove, Zenon
  <2> QED BY <2>1, <2>2, Zenon DEF Rooted, VlanOnly
<1>2. CASE ~Pass
  <2>1. \A i \in Iface \ Vlan : Present(i)'
    <3> SUFFICES ASSUME NEW i \in Iface \ Vlan, ~Present(i)' PROVE FALSE
      BY Zenon
    <3>1. Present(i) /\ i \in Foreign
      BY Zenon DEF Rooted
    <3>2. i \notin Foreign \/ (cand # None /\ cand.vlan /\ i = cand.iface)
      BY <1>2, <3>1, LinkGoes, Zenon
    <3> QED BY <3>1, <3>2, Zenon DEF Rooted, VlanOnly
  <2>2. txn' \in {txn, None, db} /\ (db'.links = db.links \/ (txn # None /\ db' = txn))
    BY <1>2, OutsidePass, Zenon
  <2>3. /\ cand' \in {cand, None, db.pend} \/ \E seg \in Seg : \E prior : cand' = CandidateFor(seg, prior)
        /\ db'.pend \in {db.pend, None, cand', Unarmed(cand')} \/ (txn # None /\ db' = txn)
    BY <1>2, CandidateMoves, Zenon
  <2>4. VlanOnly(cand)'
    <3>1. ASSUME NEW seg, NEW prior, cand' = CandidateFor(seg, prior) PROVE cand'.vlan => cand'.iface \in Vlan
      BY <3>1, Zenon DEF CandidateFor
    <3> QED BY <2>3, <3>1, Zenon DEF Rooted, VlanOnly
  <2>5. VlanOnly(Unarmed(cand'))
    <3>1. cand' \in Candidate \cup {None}
      BY CallerStep, Zenon DEF SInv, CallerType
    <3>2. CASE cand' # None
      <4>1. Unarmed(cand').vlan = FALSE
        BY <3>1, <3>2, Zenon DEF Unarmed, Candidate
      <4> QED BY <4>1, Zenon DEF VlanOnly
    <3> QED BY <3>2, Zenon DEF Unarmed, VlanOnly
  <2>6. VlanOnly(db.pend)'
    BY <2>3, <2>4, <2>5, Zenon DEF Rooted, VlanOnly
  <2> QED BY <2>1, <2>2, <2>4, <2>6, Zenon DEF Rooted, VlanOnly
<1> QED BY <1>1, <1>2, Zenon

-----------------------------------------------------------------------------
(* What holds while nothing has failed in an operation                     *)

\* The interfaces a ruleset rendered from the store names.
Due == {SegmentOf(db).iface} \cup Cover(db, SegmentOf(db).iface)

\* The records and the host are as the store configures the segment.
Stood ==
    /\ db.stale = {}
    /\ IF db.manage
       THEN LET p == PlanOf(db, db.pd) IN
            /\ db.own = p /\ dns = p /\ Pairs(p) \subseteq addrs
            /\ link[p.iface] = "up" /\ db.links \subseteq {p.iface}
       ELSE db.own = Blank /\ dns = None /\ db.links = {} /\ nm = {}

\* A boot, a request or a restore on which nothing has failed so far.
Healing == calm /\ flow \in Change \cup {"boot"}

\* Such an operation meets no failure branch, its pass follows the stored plan, and the candidate it
\* has is cleared.
OnCourse ==
    /\ pc \notin {"fallback", "rollback", "settle", "resync"}
    /\ pc \in Open \ {"drain"} => ok = TRUE
    /\ pc \in Mid \cup {"plan"} => db.manage
    /\ pc \in {"off", "offlinks"} => ~db.manage
    /\ pc \in Mid => plan = PlanOf(db, db.pd)
    /\ flow = "boot" /\ pc \in {"undo", "clear"} => cand # None
    /\ flow = "boot" /\ pc \in Open \cup {"done"} => db.pend = None
    /\ flow \in Change /\ pc = "clear" => db.manage = (cand # None)
    /\ flow \in Change /\ pc = "done" => db.pend = None \/ ~db.manage

\* What each call of the pass has put right.
Repaired ==
    /\ pc = "add" => ~Present(plan.iface)
    /\ pc \in {"stage", "own", "addr", "retire", "nm", "up"} => Present(plan.iface)
    /\ pc \in {"nm", "up", "dns", "unlink", "narrow", "pd"} => db.stale = {}
    /\ pc \in {"unlink", "narrow", "pd"} =>
         dns = plan /\ Pairs(plan) \subseteq addrs /\ link[plan.iface] = "up"
    /\ pc \in {"narrow", "pd"} => db.links \subseteq {plan.iface}
    /\ pc = "offlinks" => db.stale = {} /\ db.own = Blank /\ dns = None
    /\ pc \in {"handback", "sync", "commit", "done"} \/ (pc = "clear" /\ flow \in Change) => Stood

\* A boot never uncovers what its guard covered; a request ends with exactly what is due.
Ruled ==
    /\ flow = "boot" => Due \subseteq rules
    /\ flow \in Change /\ pc \in {"commit", "clear", "done"} => rules = Due
    /\ pc \in {"link", "add", "stage"} => cov = Cover(db, plan.iface)

HInv ==
    /\ flow \in {"none", "boot"} => inst = Blank
    /\ Healing => OnCourse /\ Repaired /\ Ruled

LEMMA DueShrinks ==
    ASSUME dflt' = dflt, db'.cfg = db.cfg,
           db'.own.iface \in {db.own.iface, None, SegmentOf(db).iface},
           Ifaces(db'.stale) \subseteq Ifaces(db.stale) \cup {db.own.iface, SegmentOf(db).iface},
           db'.links \subseteq db.links \cup {SegmentOf(db).iface},
           Ifaces(db'.surv) \subseteq Ifaces(db.surv) \cup Pending(db),
           Pending(db') \subseteq Pending(db)
    PROVE  Due' \subseteq Due
<1>1. SegmentOf(db)' = SegmentOf(db)
  BY Zenon DEF SegmentOf
<1> SUFFICES ASSUME NEW i \in Due' PROVE i \in Due
  BY Zenon
<1>2. CASE i = SegmentOf(db).iface
  BY <1>2, Zenon DEF Due
<1>3. CASE i # SegmentOf(db).iface
  <2>1. \/ i \in ({db'.own.iface} \cup Ifaces(db'.stale) \cup db'.links) \ {None, SegmentOf(db).iface}
        \/ i \in Ifaces(db'.surv) \/ i \in Pending(db')
    BY <1>1, <1>3, Zenon DEF Due, Cover, Superseded
  <2>2. CASE i \in ({db'.own.iface} \cup Ifaces(db'.stale) \cup db'.links) \ {None, SegmentOf(db).iface}
    <3>1. i \in ({db.own.iface} \cup Ifaces(db.stale) \cup db.links) \ {None, SegmentOf(db).iface}
      BY <2>2, Zenon
    <3> QED BY <1>3, <3>1, Zenon DEF Due, Cover, Superseded
  <2>3. CASE i \in Ifaces(db'.surv) \/ i \in Pending(db')
    BY <1>3, <2>3, Zenon DEF Due, Cover
  <2> QED BY <2>1, <2>2, <2>3, Zenon
<1> QED BY <1>2, <1>3, Zenon

\* The calls that write the records, when nothing fails.
LEMMA CalmDrain ==
    ASSUME SInv, Drain, calm'
    PROVE  /\ calm /\ ok' = TRUE /\ pc' = (IF db.manage THEN "plan" ELSE "off")
           /\ db'.surv \subseteq db.surv
           /\ db'.own = db.own /\ db'.stale = db.stale /\ db'.links = db.links /\ db'.pd = db.pd
<1>1. db \in Records
  BY Zenon DEF SInv, RecordType
<1>2. PICK gone \in SUBSET ProvenGone(db.surv) : \E w \in WriteSet(db.surv, db.surv \ gone) :
          db' = [db EXCEPT !.surv = w.v]
  BY Zenon DEF Drain
<1>3. PICK w \in WriteSet(db.surv, db.surv \ gone) : db' = [db EXCEPT !.surv = w.v]
  BY <1>2, Zenon
<1>4. w.v \subseteq db.surv
  BY <1>3, Zenon DEF WriteSet
<1>5. calm
  BY Zenon DEF Drain, Charge
<1>6. ok' = TRUE /\ pc' = (IF db.manage THEN "plan" ELSE "off")
  BY Zenon DEF Drain
<1> QED BY <1>1, <1>3, <1>4, <1>5, <1>6, Zenon DEF Records

LEMMA CalmOwnership ==
    ASSUME SInv, RecordOwnership, calm'
    PROVE  /\ calm /\ pc' = "addr" /\ ok' = ok
           /\ db'.own = plan /\ db'.stale = Owed(db)
           /\ db'.surv = db.surv /\ db'.links = db.links /\ db'.pd = db.pd
<1>1. db \in Records /\ plan \in Drawn
  BY Zenon DEF SInv, RecordType, RecordOwnership, LocalType
<1>2. plan \in Owner /\ Owed(db) \in SUBSET Pair
  BY <1>1, OwedType, DrawnPairs, Zenon
<1>3. PICK w \in WriteOwnership(db, plan, Owed(db)) : calm /\ w.ok /\ db' = w.v /\ pc' = "addr" /\ ok' = ok
  BY Zenon DEF RecordOwnership, OwnershipUnreadable, Charge
<1>4. /\ w.v.surv = db.surv /\ w.v.links = db.links /\ w.v.pd = db.pd
      /\ w.v.own = plan /\ w.v.stale = Owed(db)
  BY <1>1, <1>2, <1>3, OwnershipWritten
<1> QED BY <1>3, <1>4, Zenon

LEMMA CalmRetire ==
    ASSUME SInv, RetireAddrs, calm', flow # "pd"
    PROVE  /\ calm /\ pc' = "nm" /\ ok' = ok
           /\ db'.own = db.own /\ db'.stale = {}
           /\ db'.surv = db.surv /\ db'.links = db.links /\ db'.pd = db.pd
<1>1. db \in Records /\ db.own \in Owner /\ {} \in SUBSET Pair /\ {} \in SUBSET db.stale /\ ok \in BOOLEAN
  BY Zenon DEF SInv, RecordType, Records, LocalType
<1>2. PICK w \in WriteOwnership(db, db.own, {}) :
          calm /\ w.ok /\ db' = w.v /\ pc' = "nm" /\ ok' = (ok /\ w.ok)
  BY Zenon DEF RetireAddrs, Charge
<1>3. /\ w.v.surv = db.surv /\ w.v.links = db.links /\ w.v.pd = db.pd
      /\ w.v.own = db.own /\ w.v.stale = {}
  BY <1>1, <1>2, OwnershipWritten
<1>4. ok' = ok
  BY <1>1, <1>2, Zenon
<1> QED BY <1>2, <1>3, <1>4, Zenon

LEMMA CalmClear ==
    ASSUME SInv, ClearAddrs, calm'
    PROVE  /\ calm /\ pc' = "offlinks" /\ ok' = ok /\ dns' = None
           /\ db'.own = Blank /\ db'.stale = {} /\ db'.surv = db.surv /\ db'.links = db.links
<1>1. db \in Records /\ Blank \in Owner /\ {} \in SUBSET Pair /\ ok \in BOOLEAN
  BY Zenon DEF SInv, RecordType, LocalType, Blank, Owner
<1>2. PICK v \in {db.pd, None} : \E o \in WriteOwnership([db EXCEPT !.pd = v], Blank, {}) :
          calm /\ o.ok /\ db' = o.v /\ dns' = None /\ pc' = "offlinks" /\ ok' = ok
  <2>1. PICK w \in ForgetPrefix : \E kept \in SUBSET (db.stale \cup Pairs(db.own)) :
            \E o \in WriteOwnership([db EXCEPT !.pd = w.v], Blank, kept) :
              /\ Charge(w.ok /\ o.ok /\ kept = {}) /\ db' = o.v /\ dns' = None
              /\ ok' = (ok /\ w.ok /\ o.ok /\ kept = {}) /\ pc' = "offlinks"
    BY Zenon DEF ClearAddrs, OwnershipUnreadable, Charge
  <2>2. w.v \in {db.pd, None}
    BY <2>1, Zenon DEF ForgetPrefix, WriteScalar
  <2> QED BY <1>1, <2>1, <2>2, Zenon DEF Charge
<1>3. PICK d : d = [db EXCEPT !.pd = v]
  BY Zenon
<1>4. v \in Addr \cup {None}
  BY <1>1, <1>2, Zenon DEF Records
<1>5. d \in Records /\ d.surv = db.surv /\ d.links = db.links
  <2>1. d \in Records
    BY <1>1, <1>3, <1>4, RecordsUpdate, Zenon
  <2> QED BY <1>1, <1>3, <2>1, Zenon DEF Records
<1>6. PICK o \in WriteOwnership(d, Blank, {}) :
          calm /\ o.ok /\ db' = o.v /\ dns' = None /\ pc' = "offlinks" /\ ok' = ok
  BY <1>2, <1>3, Zenon
<1>7. o.v.surv = d.surv /\ o.v.links = d.links /\ o.v.own = Blank /\ o.v.stale = {}
  BY <1>1, <1>5, <1>6, OwnershipWritten
<1> QED BY <1>5, <1>6, <1>7, Zenon

LEMMA CalmLinks ==
    ASSUME SInv, NEW owned \in SUBSET db.links, RetireLinks(owned), calm'
    PROVE  /\ calm /\ ok' = ok /\ Without(owned)
           /\ db'.links = db.links \ owned
           /\ db'.own = db.own /\ db'.stale = db.stale /\ db'.surv = db.surv /\ db'.pd = db.pd
<1>1. db \in Records /\ ok \in BOOLEAN
  BY Zenon DEF SInv, RecordType, LocalType
<1>2. PICK w \in WriteSet(db.links, db.links \ owned) :
          calm /\ w.ok /\ Without(owned) /\ db' = [db EXCEPT !.links = w.v] /\ ok' = (ok /\ w.ok)
  BY Zenon DEF RetireLinks, Charge
<1>3. w.v = db.links \ owned
  BY <1>2, Zenon DEF WriteSet
<1>4. ok' = ok
  BY <1>1, <1>2, Zenon
<1> QED BY <1>1, <1>2, <1>3, <1>4, Zenon DEF Records

LEMMA OwedIfaces ==
    ASSUME db \in Records
    PROVE  Ifaces(Owed(db)) \subseteq Ifaces(db.stale) \cup {db.own.iface, plan.iface}
<1> DEFINE was == IF db.own.iface = None THEN plan.iface ELSE db.own.iface
           claim == [db.own EXCEPT !.iface = was]
<1>1. claim.iface = was
  BY Zenon DEF Records, Owner
<1>2. was \in {db.own.iface, plan.iface}
  BY Zenon
<1>3. Owed(db) \subseteq db.stale \cup Pairs(claim)
  BY Zenon DEF Owed
<1> HIDE DEF was, claim
<1>4. \A p \in Pairs(claim) : p[1] = claim.iface
  BY DEF Pairs
<1> QED BY <1>1, <1>2, <1>3, <1>4, Zenon DEF Ifaces

\* The calls of a pass that write no record, when nothing fails.
LEMMA CalmCalls ==
    ASSUME SInv, calm', ok = TRUE, Rooted, Repaired, flow # "pd",
           pc = "stage" => cov # None, pc \in Mid => plan.iface \in Iface
    PROVE  /\ ReadPlan => /\ calm /\ pc' = "link" /\ ok' = ok /\ plan' = PlanOf(db, db.pd)
                          /\ cov' = Cover(db, plan'.iface) /\ UNCHANGED <<rules, db>>
           /\ AddLink => calm /\ pc' = "stage" /\ ok' = ok /\ Present(plan.iface)'
           /\ Stage => calm /\ pc' = "own" /\ ok' = ok /\ rules' \in {rules, cov \cup {plan.iface}}
           /\ InstallAddrs => calm /\ pc' = "retire" /\ ok' = ok
           /\ TakeFromNM => calm /\ pc' = "up" /\ ok' = ok
           /\ Activate => calm /\ pc' = "dns" /\ ok' = ok
           /\ ServeDhcp => calm /\ pc' = "unlink" /\ ok' = ok /\ dns' = plan
           /\ Narrow => /\ calm /\ pc' = "pd" /\ ok' = ok
                        /\ rules' = rules \/ (rules' = {plan.iface} /\ Cover(db, plan.iface) = {})
<1>1. ReadPlan => /\ calm /\ pc' = "link" /\ ok' = ok /\ plan' = PlanOf(db, db.pd)
                  /\ cov' = Cover(db, plan'.iface) /\ UNCHANGED <<rules, db>>
  BY Zenon DEF ReadPlan, Charge
<1>2. ASSUME AddLink PROVE calm /\ pc' = "stage" /\ ok' = ok /\ Present(plan.iface)'
  <2>1. pc = "add" /\ plan.iface \in Iface
    BY <1>2, Zenon DEF AddLink, Mid
  <2>2. ~Present(plan.iface)
    BY <2>1, Zenon DEF Repaired
  <2>3. calm /\ pc' = "stage" /\ ok' = ok /\ plan' = plan /\ link' = [link EXCEPT ![plan.iface] = "down"]
    BY <1>2, <2>2, Zenon DEF AddLink, Charge
  <2>4. link'[plan.iface] = "down"
    BY <2>1, <2>3, Zenon DEF SInv, HostType
  <2> QED BY <2>3, <2>4, Zenon DEF Present
<1>3. Stage => calm /\ pc' = "own" /\ ok' = ok /\ rules' \in {rules, cov \cup {plan.iface}}
  BY Zenon DEF Stage, Charge, Enforce, Staged
<1>4. ASSUME InstallAddrs PROVE calm /\ pc' = "retire" /\ ok' = ok
  <2>1. Present(plan.iface)
    BY <1>4, Zenon DEF InstallAddrs, Repaired
  <2> QED BY <1>4, <2>1, Zenon DEF InstallAddrs, Charge
<1>5. TakeFromNM => calm /\ pc' = "up" /\ ok' = ok
  BY Zenon DEF TakeFromNM, Charge
<1>6. ASSUME Activate PROVE calm /\ pc' = "dns" /\ ok' = ok
  <2>1. Present(plan.iface)
    BY <1>6, Zenon DEF Activate, Repaired
  <2> QED BY <1>6, <2>1, Zenon DEF Activate, Charge
<1>7. ServeDhcp => calm /\ pc' = "unlink" /\ ok' = ok /\ dns' = plan
  BY Zenon DEF ServeDhcp, Charge
<1>8. Narrow => /\ calm /\ pc' = "pd" /\ ok' = ok
                /\ rules' = rules \/ (rules' = {plan.iface} /\ Cover(db, plan.iface) = {})
  BY Zenon DEF Narrow, Charge, Enforce, MayNarrow
<1> QED BY <1>1, <1>2, <1>3, <1>4, <1>5, <1>6, <1>7, <1>8, Zenon

\* ensure_segment_link and the PD client, when nothing fails.
LEMMA CalmLink ==
    ASSUME SInv, RecordLink, calm', Rooted, plan.iface \in Iface
    PROVE  /\ calm /\ ok' = ok /\ UNCHANGED <<rules, plan, cov>>
           /\ \/ pc' = "stage" /\ Present(plan.iface)'
              \/ pc' = "add" /\ ~Present(plan.iface)'
           /\ db'.links \subseteq db.links \cup {plan.iface} /\ db.links \subseteq db'.links
           /\ db'.own = db.own /\ db'.stale = db.stale /\ db'.surv = db.surv /\ db'.pd = db.pd
<1>1. db \in Records
  BY Zenon DEF SInv, RecordType
<1>2. calm /\ ok' = ok /\ UNCHANGED <<link, rules, plan, cov>>
  BY Zenon DEF RecordLink, Charge, host
<1>3. CASE pc' = "stage" /\ db' = db /\ Present(plan.iface)
  BY <1>2, <1>3, Zenon DEF Present
<1>4. CASE pc' = "add" /\ ~Present(plan.iface)
           /\ \E w \in WriteSet(db.links, db.links \cup {plan.iface}) : w.ok /\ db' = [db EXCEPT !.links = w.v]
  <2>1. PICK w \in WriteSet(db.links, db.links \cup {plan.iface}) : w.ok /\ db' = [db EXCEPT !.links = w.v]
    BY <1>4, Zenon
  <2>2. w.v = db.links \cup {plan.iface}
    BY <2>1, Zenon DEF WriteSet
  <2> QED BY <1>1, <1>2, <1>4, <2>1, <2>2, Zenon DEF Records, Present
<1>5. plan.iface \notin Vlan => Present(plan.iface)
  BY Zenon DEF Rooted
<1> QED BY <1>3, <1>4, <1>5, Zenon DEF RecordLink, LinkFound, Charge

LEMMA CalmPrefix ==
    ASSUME SInv, FollowPrefix, calm', ok = TRUE
    PROVE  /\ calm /\ pc' = "handback" /\ ok' = ok
           /\ db'.own = db.own /\ db'.stale = db.stale /\ db'.surv = db.surv /\ db'.links = db.links
           /\ db'.cfg = db.cfg /\ PlanOf(db, db.pd)' = PlanOf(db, db.pd)
<1>1. db \in Records /\ dflt' = dflt
  BY Zenon DEF SInv, RecordType, FollowPrefix
<1>2. calm /\ pc' = "handback" /\ ok' = ok
  BY Zenon DEF FollowPrefix, Charge
<1>3. CASE SegmentOf(db).v6 = Automatic
  <2>1. db' = db
    BY <1>3, Zenon DEF FollowPrefix
  <2> QED BY <1>1, <1>2, <2>1, Zenon DEF PlanOf, SegmentOf
<1>4. CASE SegmentOf(db).v6 # Automatic
  <2>1. PICK v : db' = [db EXCEPT !.pd = v]
    BY <1>4, Zenon DEF FollowPrefix
  <2>2. /\ db'.own = db.own /\ db'.stale = db.stale /\ db'.surv = db.surv /\ db'.links = db.links
        /\ db'.cfg = db.cfg
    BY <1>1, <2>1, Zenon DEF Records
  <2>3. SegmentOf(db)' = SegmentOf(db)
    BY <1>1, <2>2, Zenon DEF SegmentOf
  <2>4. PlanOf(db, db.pd)' = PlanOf(db, db.pd)
    BY <1>4, <2>3, Zenon DEF PlanOf, Resolved6
  <2> QED BY <1>2, <2>2, <2>4, Zenon
<1> QED BY <1>3, <1>4, Zenon

-----------------------------------------------------------------------------
(* A request or a start on which nothing fails puts everything right       *)

\* What a step of such a pass starts from, and what it leaves as it is.
Frame ==
    /\ flow \in Change \cup {"boot"} /\ flow' = flow /\ flow # "pd"
    /\ db \in Records /\ dflt' = dflt
    /\ db'.cfg = db.cfg /\ db'.manage = db.manage /\ db'.pend = db.pend
    /\ pc \in Mid => /\ plan.iface = SegmentOf(db).iface /\ plan.iface \in Iface /\ plan = PlanOf(db, db.pd)
                     /\ db.manage /\ ok = TRUE
    /\ pc # "drain" => ok = TRUE
    /\ pc = "stage" => cov # None
    /\ flow = "boot" => db.pend = None /\ Due \subseteq rules

\* A pass keeps the configuration it reads, and the plan it resolved is the stored one.
LEMMA PassFrame ==
    ASSUME SInv, flow \in Change \cup {"boot"}, OnCourse, Ruled, PassStep
    PROVE  Frame
<1>1. flow' = flow /\ flow # "pd" /\ pc \in InPass
  BY PassLane, Zenon DEF Change
<1>2. /\ db'.cfg = db.cfg /\ db'.manage = db.manage /\ db'.pend = db.pend
  BY PassKeeps, Zenon
<1>3. dflt' = dflt
  BY Zenon DEF PassStep, Drain, ReadPlan, RecordLink, AddLink, Stage, InstallAddrs, RetireAddrs, TakeFromNM, Activate,
         ServeDhcp, RetireSuperseded, Narrow, FollowPrefix, ClearAddrs, ClearLinks, RecordOwnership
<1>4. db \in Records /\ dflt \in Seg /\ ok \in BOOLEAN
  BY Zenon DEF SInv, RecordType, LocalType
<1>5. ASSUME pc \in Mid
      PROVE  /\ plan.iface = SegmentOf(db).iface /\ plan.iface \in Iface /\ plan = PlanOf(db, db.pd)
             /\ db.manage /\ ok = TRUE
  <2>1. plan = PlanOf(db, db.pd) /\ db.manage /\ ok = TRUE
    BY <1>5, Zenon DEF OnCourse, Mid, Open
  <2>2. plan.iface = SegmentOf(db).iface
    BY <2>1, Zenon DEF PlanOf
  <2>3. plan.iface \in Iface
    BY <1>5, Zenon DEF SInv, LocalType, Mid, Drawn
  <2> QED BY <2>1, <2>2, <2>3, Zenon
<1>6. pc # "drain" => ok = TRUE
  BY <1>1, Zenon DEF OnCourse, InPass
<1>7. pc = "stage" => cov # None
  <2>1. pc = "stage" => cov = Cover(db, plan.iface)
    BY Zenon DEF Ruled
  <2> QED BY <1>4, <2>1, CoverType, ConstantsAssumption, Zenon DEF ConstantsAssumption
<1>8. flow = "boot" => db.pend = None /\ Due \subseteq rules
  BY <1>1, Zenon DEF OnCourse, Ruled, InPass
<1> QED BY <1>1, <1>2, <1>3, <1>4, <1>5, <1>6, <1>7, <1>8, Zenon DEF Frame

LEMMA SegmentKept ==
    ASSUME Frame
    PROVE  /\ SegmentOf(db)' = SegmentOf(db) /\ Pending(db)' = Pending(db)
           /\ db'.pd = db.pd => PlanOf(db, db.pd)' = PlanOf(db, db.pd)
<1>1. SegmentOf(db)' = SegmentOf(db) /\ Pending(db)' = Pending(db)
  BY Zenon DEF Frame, SegmentOf, Pending
<1>2. db'.pd = db.pd => PlanOf(db, db.pd)' = PlanOf(db, db.pd)
  BY <1>1, Zenon DEF PlanOf, Resolved6
<1> QED BY <1>1, <1>2, Zenon

LEMMA NothingWritten ==
    ASSUME db' = db, dflt' = dflt
    PROVE  Due' = Due /\ PlanOf(db, db.pd)' = PlanOf(db, db.pd)
BY Zenon DEF Due, Cover, Superseded, Ifaces, Pending, SegmentOf, PlanOf, Resolved6

\* A step that records only names already recorded adds no interface to a ruleset.
LEMMA DueAfter ==
    ASSUME Frame,
           db'.own.iface \in {db.own.iface, None, SegmentOf(db).iface},
           Ifaces(db'.stale) \subseteq Ifaces(db.stale) \cup {db.own.iface, SegmentOf(db).iface},
           db'.links \subseteq db.links \cup {SegmentOf(db).iface}, db'.surv \subseteq db.surv
    PROVE  Due' \subseteq Due
<1>1. Ifaces(db'.surv) \subseteq Ifaces(db.surv) \cup Pending(db)
  BY Zenon DEF Ifaces
<1>2. Pending(db') \subseteq Pending(db)
  BY SegmentKept, Zenon
<1>3. dflt' = dflt /\ db'.cfg = db.cfg
  BY Zenon DEF Frame
<1> QED BY <1>1, <1>2, <1>3, DueShrinks, Zenon

KeepsCourse == OnCourse' /\ Ruled'

LEMMA StaysOnCourse ==
    ASSUME Frame, ok' = TRUE, pc' \in Mid \cup {"plan", "off", "offlinks", "handback"},
           pc' \in Mid \cup {"plan"} => db.manage, pc' \in {"off", "offlinks"} => ~db.manage,
           pc' \in Mid => plan' = PlanOf(db, db.pd)', flow = "boot" => Due' \subseteq rules',
           pc' \in {"link", "add", "stage"} => cov' = Cover(db, plan.iface)'
    PROVE  KeepsCourse
<1>1. pc' \notin {"fallback", "rollback", "settle", "resync", "undo", "clear", "commit", "done"}
  BY Zenon DEF Mid
<1>2. flow' = flow /\ db'.manage = db.manage /\ (flow = "boot" => db'.pend = None)
  BY Zenon DEF Frame
<1> QED BY <1>1, <1>2, Zenon DEF KeepsCourse, OnCourse, Ruled

\* A call that changes neither plan nor outcome leads to the next one.
LEMMA StaysInPass ==
    ASSUME Frame, pc \in Mid, plan' = plan, db'.pd = db.pd, ok' = ok, pc' \in Mid \ {"link", "add", "stage"},
           flow = "boot" => Due' \subseteq rules'
    PROVE  KeepsCourse
<1>1. pc' \notin {"off", "offlinks"}
  BY Zenon DEF Mid
<1>2. plan = PlanOf(db, db.pd) /\ db.manage /\ ok = TRUE
  BY Zenon DEF Frame
<1> QED BY <1>1, <1>2, SegmentKept, StaysOnCourse, Zenon

\* The last call of a pass, on either side of the manage switch.
LEMMA EndsPass ==
    ASSUME Frame, pc' = "handback", ok' = TRUE, flow = "boot" => Due' \subseteq rules', Stood'
    PROVE  KeepsCourse /\ Repaired'
<1>1. KeepsCourse
  BY StaysOnCourse, Zenon DEF Mid
<1> QED BY <1>1, Zenon DEF Repaired

\* The pass, call by call.
LEMMA HealOpening ==
    ASSUME SInv, SInv', Rooted, OnCourse, Repaired, Ruled, Frame, calm', Drain \/ ReadPlan \/ RecordLink
    PROVE  KeepsCourse /\ Repaired'
<1>1. flow # "pd"
  BY Zenon DEF Frame
<1>2. dflt' = dflt
  BY Zenon DEF Frame
<1>3. pc \in Mid => /\ plan.iface = SegmentOf(db).iface /\ plan.iface \in Iface /\ plan = PlanOf(db, db.pd)
                   /\ db.manage /\ ok = TRUE
  BY Zenon DEF Frame
<1>4. pc # "drain" => ok = TRUE
  BY Zenon DEF Frame
<1>5. pc = "stage" => cov # None
  BY Zenon DEF Frame
<1>6. flow = "boot" => db.pend = None /\ Due \subseteq rules
  BY Zenon DEF Frame
<1>7. CASE Drain
  <2>1. /\ calm /\ ok' = TRUE /\ pc' = (IF db.manage THEN "plan" ELSE "off")
        /\ db'.surv \subseteq db.surv
        /\ db'.own = db.own /\ db'.stale = db.stale /\ db'.links = db.links
    BY <1>7, CalmDrain, Zenon
  <2>2. rules' = rules
    BY <1>7, Zenon DEF Drain, host
  <2>3. Due' \subseteq Due
    BY DueAfter, <2>1, Zenon
  <2>4. pc' \in {"plan", "off"}
    BY <2>1, Zenon
  <2>5. KeepsCourse
    <3>1. pc' \notin Mid /\ pc' \notin {"link", "add", "stage", "offlinks", "handback"}
      BY <2>4, Zenon DEF Mid
    <3> QED BY <1>6, StaysOnCourse, <2>1, <2>2, <2>3, <3>1, Zenon
  <2> QED BY <2>1, <2>4, <2>5, Zenon DEF Repaired
<1>8. CASE ReadPlan
  <2>1. /\ calm /\ pc' = "link" /\ ok' = ok /\ plan' = PlanOf(db, db.pd)
        /\ cov' = Cover(db, plan'.iface) /\ UNCHANGED <<rules, db>> /\ pc = "plan"
    BY <1>1, <1>4, <1>5, <1>8, <1>3, CalmCalls, Zenon DEF ReadPlan
  <2>2. db.manage
    BY <2>1, Zenon DEF OnCourse
  <2>3. cov' = Cover(db, plan.iface)'
    BY <2>1, Zenon DEF Cover, Superseded, Ifaces, Pending
  <2>4. KeepsCourse
    BY <1>4, <1>6, StaysOnCourse, NothingWritten, <1>2, <2>1, <2>2, <2>3, Zenon DEF Mid
  <2> QED BY <2>1, <2>4, Zenon DEF Repaired
<1>9. CASE RecordLink
  <2>1. pc = "link" /\ pc \in Mid
    BY <1>9, Zenon DEF RecordLink, Mid
  <2>2. /\ calm /\ ok' = ok /\ UNCHANGED <<rules, plan, cov>>
        /\ \/ pc' = "stage" /\ Present(plan.iface)'
           \/ pc' = "add" /\ ~Present(plan.iface)'
        /\ db'.links \subseteq db.links \cup {plan.iface} /\ db.links \subseteq db'.links
        /\ db'.own = db.own /\ db'.stale = db.stale /\ db'.surv = db.surv /\ db'.pd = db.pd
    BY <1>3, <1>9, <2>1, CalmLink, Zenon
  <2>3. Due' \subseteq Due
    BY <1>3, DueAfter, <2>1, <2>2, Zenon
  <2>4. Superseded(db, plan.iface)' = Superseded(db, plan.iface)
    BY <2>2, Zenon DEF Superseded, Ifaces
  <2>5. Cover(db, plan.iface)' = Cover(db, plan.iface)
    BY SegmentKept, <2>2, <2>4, Zenon DEF Cover, Ifaces
  <2>6. cov' = Cover(db, plan.iface)'
    BY <2>1, <2>2, <2>5, Zenon DEF Ruled
  <2>7. plan' = PlanOf(db, db.pd)' /\ pc' \in Mid
    BY <1>3, SegmentKept, <2>1, <2>2, Zenon DEF Mid
  <2>8. KeepsCourse
    BY <1>3, <1>6, StaysOnCourse, <2>1, <2>2, <2>3, <2>6, <2>7, Zenon
  <2>9. Repaired'
    BY <2>2, Zenon DEF Repaired
  <2> QED BY <2>2, <2>8, <2>9, Zenon
<1> QED BY <1>7, <1>8, <1>9, Zenon

LEMMA HealLink ==
    ASSUME SInv, SInv', Rooted, OnCourse, Repaired, Ruled, Frame, calm', AddLink \/ Stage \/ RecordOwnership
    PROVE  KeepsCourse /\ Repaired'
<1>1. flow # "pd"
  BY Zenon DEF Frame
<1>2. dflt' = dflt
  BY Zenon DEF Frame
<1>3. db \in Records
  BY Zenon DEF Frame
<1>4. pc \in Mid => /\ plan.iface = SegmentOf(db).iface /\ plan.iface \in Iface /\ plan = PlanOf(db, db.pd)
                   /\ db.manage /\ ok = TRUE
  BY Zenon DEF Frame
<1>5. pc # "drain" => ok = TRUE
  BY Zenon DEF Frame
<1>6. pc = "stage" => cov # None
  BY Zenon DEF Frame
<1>7. flow = "boot" => db.pend = None /\ Due \subseteq rules
  BY Zenon DEF Frame
<1>8. CASE AddLink
  <2>1. calm /\ pc' = "stage" /\ ok' = ok /\ Present(plan.iface)' /\ pc = "add" /\ pc \in Mid
    BY <1>1, <1>4, <1>5, <1>6, <1>8, CalmCalls, Zenon DEF AddLink, Mid
  <2>2. UNCHANGED <<db, rules, plan, cov>>
    BY <1>8, Zenon DEF AddLink
  <2>3. Cover(db, plan.iface)' = Cover(db, plan.iface)
    BY <2>2, Zenon DEF Cover, Superseded, Ifaces, Pending
  <2>4. cov' = Cover(db, plan.iface)'
    BY <2>1, <2>2, <2>3, Zenon DEF Ruled
  <2>5. KeepsCourse
    BY <1>4, <1>7, StaysOnCourse, NothingWritten, <1>2, <2>1, <2>2, <2>4, Zenon DEF Mid
  <2> QED BY <2>1, <2>5, Zenon DEF Repaired
<1>9. CASE Stage
  <2>1. /\ calm /\ pc' = "own" /\ ok' = ok /\ rules' \in {rules, cov \cup {plan.iface}}
        /\ pc = "stage" /\ pc \in Mid
    BY <1>1, <1>4, <1>5, <1>6, <1>9, CalmCalls, Zenon DEF Stage, Mid
  <2>2. UNCHANGED <<db, link, plan>>
    BY <1>9, Zenon DEF Stage
  <2>3. cov = Cover(db, SegmentOf(db).iface)
    BY <1>4, <2>1, Zenon DEF Ruled
  <2>4. flow = "boot" => Due' \subseteq rules'
    BY <1>4, <1>7, NothingWritten, <1>2, <2>1, <2>2, <2>3, Zenon DEF Due
  <2>5. Present(plan.iface)'
    BY <2>1, <2>2, Zenon DEF Repaired, Present
  <2>6. KeepsCourse
    BY StaysInPass, <2>1, <2>2, <2>4, Zenon DEF Mid
  <2> QED BY <2>1, <2>5, <2>6, Zenon DEF Repaired
<1>10. CASE RecordOwnership
  <2>1. pc = "own" /\ pc \in Mid /\ UNCHANGED <<link, rules, plan>>
    BY <1>10, Zenon DEF RecordOwnership, Mid, host
  <2>2. /\ calm /\ pc' = "addr" /\ ok' = ok
        /\ db'.own = plan /\ db'.stale = Owed(db)
        /\ db'.surv = db.surv /\ db'.links = db.links /\ db'.pd = db.pd
    BY <1>10, CalmOwnership, Zenon
  <2>3. Due' \subseteq Due
    BY <1>3, <1>4, DueAfter, <2>1, <2>2, OwedIfaces, Zenon
  <2>4. KeepsCourse
    BY <1>7, StaysInPass, <2>1, <2>2, <2>3, Zenon DEF Mid
  <2>5. Present(plan.iface)'
    BY <2>1, Zenon DEF Repaired, Present
  <2> QED BY <2>2, <2>4, <2>5, Zenon DEF Repaired
<1> QED BY <1>8, <1>9, <1>10, Zenon

LEMMA HealAddrs ==
    ASSUME SInv, SInv', Rooted, OnCourse, Repaired, Ruled, Frame, calm', InstallAddrs \/ RetireAddrs \/ TakeFromNM \/ Activate
    PROVE  KeepsCourse /\ Repaired'
<1>1. flow # "pd"
  BY Zenon DEF Frame
<1>2. dflt' = dflt
  BY Zenon DEF Frame
<1>3. pc \in Mid => /\ plan.iface = SegmentOf(db).iface /\ plan.iface \in Iface /\ plan = PlanOf(db, db.pd)
                   /\ db.manage /\ ok = TRUE
  BY Zenon DEF Frame
<1>4. pc # "drain" => ok = TRUE
  BY Zenon DEF Frame
<1>5. pc = "stage" => cov # None
  BY Zenon DEF Frame
<1>6. flow = "boot" => db.pend = None /\ Due \subseteq rules
  BY Zenon DEF Frame
<1>7. CASE InstallAddrs
  <2>1. calm /\ pc' = "retire" /\ ok' = ok /\ pc = "addr" /\ pc \in Mid
    BY <1>1, <1>3, <1>4, <1>5, <1>7, CalmCalls, Zenon DEF InstallAddrs, Mid
  <2>2. UNCHANGED <<db, link, rules, plan>>
    BY <1>7, Zenon DEF InstallAddrs
  <2>3. KeepsCourse
    BY <1>6, NothingWritten, <1>2, StaysInPass, <2>1, <2>2, Zenon DEF Mid
  <2>4. Present(plan.iface)'
    BY <2>1, <2>2, Zenon DEF Repaired, Present
  <2> QED BY <2>1, <2>3, <2>4, Zenon DEF Repaired
<1>8. CASE RetireAddrs
  <2>1. pc = "retire" /\ pc \in Mid /\ UNCHANGED <<link, rules, plan>>
    BY <1>8, Zenon DEF RetireAddrs, Mid
  <2>2. /\ calm /\ pc' = "nm" /\ ok' = ok /\ db'.own = db.own /\ db'.stale = {}
        /\ db'.surv = db.surv /\ db'.links = db.links /\ db'.pd = db.pd
    BY <1>1, <1>8, CalmRetire, Zenon
  <2>3. Due' \subseteq Due
    BY DueAfter, <2>2, Zenon DEF Ifaces
  <2>4. KeepsCourse
    BY <1>6, StaysInPass, <2>1, <2>2, <2>3, Zenon DEF Mid
  <2>5. Present(plan.iface)'
    BY <2>1, Zenon DEF Repaired, Present
  <2> QED BY <2>2, <2>4, <2>5, Zenon DEF Repaired
<1>9. CASE TakeFromNM
  <2>1. calm /\ pc' = "up" /\ ok' = ok /\ pc = "nm" /\ pc \in Mid
    BY <1>1, <1>3, <1>4, <1>5, <1>9, CalmCalls, Zenon DEF TakeFromNM, Mid
  <2>2. UNCHANGED <<db, link, rules, plan>>
    BY <1>9, Zenon DEF TakeFromNM
  <2>3. KeepsCourse
    BY <1>6, NothingWritten, <1>2, StaysInPass, <2>1, <2>2, Zenon DEF Mid
  <2>4. Present(plan.iface)' /\ db'.stale = {}
    BY <2>1, <2>2, Zenon DEF Repaired, Present
  <2> QED BY <2>1, <2>3, <2>4, Zenon DEF Repaired
<1>10. CASE Activate
  <2>1. calm /\ pc' = "dns" /\ ok' = ok /\ pc = "up" /\ pc \in Mid
    BY <1>1, <1>3, <1>4, <1>5, <1>10, CalmCalls, Zenon DEF Activate, Mid
  <2>2. UNCHANGED <<db, rules, plan>>
    BY <1>10, Zenon DEF Activate
  <2>3. KeepsCourse
    BY <1>6, NothingWritten, <1>2, StaysInPass, <2>1, <2>2, Zenon DEF Mid
  <2>4. db'.stale = {}
    BY <2>1, <2>2, Zenon DEF Repaired
  <2> QED BY <2>1, <2>3, <2>4, Zenon DEF Repaired
<1> QED BY <1>7, <1>8, <1>9, <1>10, Zenon

LEMMA HealServing ==
    ASSUME SInv, SInv', Rooted, OnCourse, Repaired, Ruled, Frame, calm', ServeDhcp \/ RetireSuperseded
    PROVE  KeepsCourse /\ Repaired'
<1>1. flow # "pd"
  BY Zenon DEF Frame
<1>2. dflt' = dflt
  BY Zenon DEF Frame
<1>3. pc \in Mid => /\ plan.iface = SegmentOf(db).iface /\ plan.iface \in Iface /\ plan = PlanOf(db, db.pd)
                   /\ db.manage /\ ok = TRUE
  BY Zenon DEF Frame
<1>4. pc # "drain" => ok = TRUE
  BY Zenon DEF Frame
<1>5. pc = "stage" => cov # None
  BY Zenon DEF Frame
<1>6. flow = "boot" => db.pend = None /\ Due \subseteq rules
  BY Zenon DEF Frame
<1>7. CASE ServeDhcp
  <2>1. calm /\ pc' = "unlink" /\ ok' = ok /\ dns' = plan /\ pc = "dns" /\ pc \in Mid
    BY <1>1, <1>3, <1>4, <1>5, <1>7, CalmCalls, Zenon DEF ServeDhcp, Mid
  <2>2. UNCHANGED <<db, link, addrs, rules, plan>>
    BY <1>7, Zenon DEF ServeDhcp
  <2>3. KeepsCourse
    BY <1>6, NothingWritten, <1>2, StaysInPass, <2>1, <2>2, Zenon DEF Mid
  <2>4. db'.stale = {} /\ Pairs(plan) \subseteq addrs /\ link[plan.iface] = "up"
    BY <2>1, <2>2, Zenon DEF Repaired, SInv, Achieved
  <2>5. Pairs(plan)' = Pairs(plan)
    BY <2>2, Zenon DEF Pairs
  <2> QED BY <2>1, <2>2, <2>3, <2>4, <2>5, Zenon DEF Repaired
<1>8. CASE RetireSuperseded
  <2> DEFINE owned == db.links \ {plan.iface}
  <2>1. pc = "unlink" /\ pc \in Mid /\ pc' = "narrow" /\ UNCHANGED <<rules, dns, plan>> /\ RetireLinks(owned)
    BY <1>8, Zenon DEF RetireSuperseded, Mid
  <2>2. /\ calm /\ ok' = ok /\ Without(owned) /\ db'.links = db.links \ owned
        /\ db'.own = db.own /\ db'.stale = db.stale /\ db'.surv = db.surv /\ db'.pd = db.pd
    <3>1. owned \in SUBSET db.links
      BY Zenon
    <3> QED BY <2>1, <3>1, CalmLinks, Zenon
  <2>3. Due' \subseteq Due
    BY DueAfter, <2>2, Zenon
  <2>4. KeepsCourse
    BY <1>6, StaysInPass, <2>1, <2>2, <2>3, Zenon DEF Mid
  <2>5. db.stale = {} /\ dns = plan /\ Pairs(plan) \subseteq addrs /\ link[plan.iface] = "up"
    BY <2>1, Zenon DEF Repaired
  <2>6. link'[plan.iface] = "up"
    BY <1>3, <2>1, <2>2, <2>5, Zenon DEF Without
  <2>7. Pairs(plan)' \subseteq addrs'
    <3>1. \A p \in Pairs(plan) : p[1] = plan.iface
      BY DEF Pairs
    <3>2. Pairs(plan)' = Pairs(plan)
      BY <2>1, Zenon DEF Pairs
    <3> QED BY <2>2, <2>5, <3>1, <3>2, Zenon DEF Without
  <2>8. db'.links \subseteq {plan.iface}
    BY <2>2, Zenon
  <2> QED BY <2>1, <2>2, <2>4, <2>5, <2>6, <2>7, <2>8, Zenon DEF Repaired
<1> QED BY <1>7, <1>8, Zenon

LEMMA HealClosing ==
    ASSUME SInv, SInv', Rooted, OnCourse, Repaired, Ruled, Frame, calm', Narrow \/ FollowPrefix
    PROVE  KeepsCourse /\ Repaired'
<1>1. flow # "pd"
  BY Zenon DEF Frame
<1>2. db'.cfg = db.cfg /\ db'.manage = db.manage /\ db'.pend = db.pend
  BY Zenon DEF Frame
<1>3. dflt' = dflt
  BY Zenon DEF Frame
<1>4. pc \in Mid => /\ plan.iface = SegmentOf(db).iface /\ plan.iface \in Iface /\ plan = PlanOf(db, db.pd)
                   /\ db.manage /\ ok = TRUE
  BY Zenon DEF Frame
<1>5. pc # "drain" => ok = TRUE
  BY Zenon DEF Frame
<1>6. pc = "stage" => cov # None
  BY Zenon DEF Frame
<1>7. flow = "boot" => db.pend = None /\ Due \subseteq rules
  BY Zenon DEF Frame
<1>8. CASE Narrow
  <2>1. /\ calm /\ pc' = "pd" /\ ok' = ok /\ pc = "narrow" /\ pc \in Mid
        /\ rules' = rules \/ (rules' = {plan.iface} /\ Cover(db, plan.iface) = {})
    BY <1>1, <1>4, <1>5, <1>6, <1>8, CalmCalls, Zenon DEF Narrow, Mid
  <2>2. UNCHANGED <<db, link, addrs, dns, plan>>
    BY <1>8, Zenon DEF Narrow
  <2>3. flow = "boot" => Due' \subseteq rules'
    BY <1>4, <1>7, NothingWritten, <1>3, <2>1, <2>2, Zenon DEF Due
  <2>4. KeepsCourse
    BY StaysInPass, <2>1, <2>2, <2>3, Zenon DEF Mid
  <2>5. /\ db.stale = {} /\ dns = plan /\ Pairs(plan) \subseteq addrs /\ link[plan.iface] = "up"
        /\ db.links \subseteq {plan.iface}
    BY <2>1, Zenon DEF Repaired
  <2>6. Pairs(plan)' = Pairs(plan)
    BY <2>2, Zenon DEF Pairs
  <2> QED BY <2>1, <2>2, <2>4, <2>5, <2>6, Zenon DEF Repaired
<1>9. CASE FollowPrefix
  <2>1. pc = "pd" /\ pc \in Mid /\ UNCHANGED <<link, addrs, rules, dns, plan>>
    BY <1>9, Zenon DEF FollowPrefix, Mid, host
  <2>2. /\ calm /\ pc' = "handback" /\ ok' = ok
        /\ db'.own = db.own /\ db'.stale = db.stale /\ db'.surv = db.surv /\ db'.links = db.links
        /\ PlanOf(db, db.pd)' = PlanOf(db, db.pd)
    BY <1>4, <1>9, <2>1, CalmPrefix, Zenon
  <2>3. Due' \subseteq Due
    BY DueAfter, <2>2, Zenon
  <2>4. /\ db.stale = {} /\ dns = plan /\ Pairs(plan) \subseteq addrs /\ link[plan.iface] = "up"
        /\ db.links \subseteq {plan.iface} /\ db.own = plan
    BY <2>1, Zenon DEF Repaired, SInv, Achieved
  <2>5. db'.manage /\ plan = PlanOf(db, db.pd)'
    BY <1>2, <1>4, <2>1, <2>2, Zenon
  <2>6. Pairs(plan) = Pairs(PlanOf(db, db.pd)')
    BY <2>5, Zenon
  <2>7. Stood'
    BY <2>1, <2>2, <2>4, <2>5, Zenon DEF Stood, Pairs
  <2> QED BY <1>4, <1>7, EndsPass, <2>1, <2>2, <2>3, <2>7, Zenon
<1> QED BY <1>8, <1>9, Zenon

LEMMA HealOff ==
    ASSUME SInv, SInv', Rooted, OnCourse, Repaired, Ruled, Frame, calm', ClearAddrs \/ ClearLinks
    PROVE  KeepsCourse /\ Repaired'
<1>1. db'.cfg = db.cfg /\ db'.manage = db.manage /\ db'.pend = db.pend
  BY Zenon DEF Frame
<1>2. pc # "drain" => ok = TRUE
  BY Zenon DEF Frame
<1>3. flow = "boot" => db.pend = None /\ Due \subseteq rules
  BY Zenon DEF Frame
<1>4. CASE ClearAddrs
  <2>1. pc = "off" /\ rules' = rules
    BY <1>4, Zenon DEF ClearAddrs
  <2>2. /\ calm /\ pc' = "offlinks" /\ ok' = ok /\ dns' = None
        /\ db'.own = Blank /\ db'.stale = {} /\ db'.surv = db.surv /\ db'.links = db.links
    BY <1>4, CalmClear, Zenon
  <2>3. db'.own.iface = None
    BY <2>2 DEF Blank
  <2>4. Due' \subseteq Due
    BY DueAfter, <2>2, <2>3, Zenon DEF Ifaces
  <2>5. ~db.manage /\ ok = TRUE
    BY <1>2, <2>1, Zenon DEF OnCourse
  <2>6. KeepsCourse
    BY <1>3, StaysOnCourse, <2>1, <2>2, <2>4, <2>5, Zenon DEF Mid
  <2> QED BY <2>2, <2>6, Zenon DEF Repaired
<1>5. CASE ClearLinks
  <2>1. pc = "offlinks" /\ pc' = "handback" /\ nm' = {} /\ UNCHANGED <<rules, dns>> /\ RetireLinks(db.links)
    BY <1>5, Zenon DEF ClearLinks
  <2>2. /\ calm /\ ok' = ok /\ db'.links = db.links \ db.links
        /\ db'.own = db.own /\ db'.stale = db.stale /\ db'.surv = db.surv
    <3>1. db.links \in SUBSET db.links
      BY Zenon
    <3> QED BY <2>1, <3>1, CalmLinks, Zenon
  <2>3. Due' \subseteq Due
    BY DueAfter, <2>2, Zenon
  <2>4. db.stale = {} /\ db.own = Blank /\ dns = None /\ ~db.manage /\ ok = TRUE
    BY <1>2, <2>1, Zenon DEF Repaired, OnCourse
  <2>5. db'.links = {} /\ ~db'.manage
    BY <1>1, <2>2, <2>4, Zenon
  <2>6. Stood'
    BY <2>1, <2>2, <2>4, <2>5, Zenon DEF Stood
  <2> QED BY <1>3, EndsPass, <2>1, <2>2, <2>3, <2>4, <2>6, Zenon
<1> QED BY <1>4, <1>5, Zenon

LEMMA HealPass ==
    ASSUME SInv, SInv', Rooted, flow \in Change \cup {"boot"}, OnCourse, Repaired, Ruled, PassStep, calm'
    PROVE  OnCourse' /\ Repaired' /\ Ruled'
<1>1. Frame
  BY PassFrame, Zenon
<1>2. KeepsCourse /\ Repaired'
  BY <1>1, HealOpening, HealLink, HealAddrs, HealServing, HealClosing, HealOff, Zenon DEF PassStep
<1> QED BY <1>2, Zenon DEF KeepsCourse

\* The undo of a boot and the clearing of its record, when nothing fails: what may survive is on the
\* interface the pending record named.
LEMMA CalmUndo ==
    ASSUME SInv, Pended, Undo, calm', flow = "boot", cand # None, inst = Blank
    PROVE  calm /\ pc' = "clear" /\ Due' \subseteq Due
<1>1. db \in Records /\ dflt' = dflt /\ pc = "undo"
  BY Zenon DEF SInv, RecordType, Undo
<1>2. db.pend = cand
  BY <1>1, Zenon DEF Pended
<1>3. Ifaces(Orphans) \subseteq Pending(db)
  <2>1. Pairs(inst) = {}
    BY Zenon DEF Pairs, Blank
  <2>2. \A p \in Pairs(cand) : p[1] = cand.iface
    BY DEF Pairs
  <2> QED BY <1>2, <2>1, <2>2, Zenon DEF Ifaces, Orphans, Pending
<1>4. PICK v : db' = [db EXCEPT !.surv = v] /\ Ifaces(v) \subseteq Ifaces(db.surv) \cup Pending(db) /\ calm /\ pc' = "clear"
  <2>1. \/ \E w \in ForgetOn(cand.iface) : w.ok /\ db' = [db EXCEPT !.surv = w.v] /\ calm /\ pc' = "clear"
        \/ \E w \in Remember(Orphans) : w.ok /\ db' = [db EXCEPT !.surv = w.v] /\ calm /\ pc' = "clear"
    BY Zenon DEF Undo, Settled, OwnershipUnreadable, Charge
  <2>2. ASSUME NEW w \in ForgetOn(cand.iface), w.ok PROVE Ifaces(w.v) \subseteq Ifaces(db.surv)
    BY <2>2, Zenon DEF ForgetOn, WriteSet, Ifaces
  <2>3. ASSUME NEW w \in Remember(Orphans), w.ok PROVE Ifaces(w.v) \subseteq Ifaces(db.surv) \cup Ifaces(Orphans)
    BY <2>3, Zenon DEF Remember, WriteSet, Ifaces
  <2> QED BY <1>3, <2>1, <2>2, <2>3, Zenon
<1>5. /\ db'.cfg = db.cfg /\ db'.own = db.own /\ db'.stale = db.stale /\ db'.links = db.links /\ db'.surv = v
      /\ db'.pend = db.pend
  BY <1>1, <1>4, Zenon DEF Records
<1>6. Pending(db') \subseteq Pending(db)
  BY <1>5, Zenon DEF Pending
<1> QED BY <1>1, <1>4, <1>5, <1>6, DueShrinks, Zenon

LEMMA CalmCleared ==
    ASSUME SInv, Clear, calm', cand # None
    PROVE  /\ calm /\ db'.pend = None /\ db'.cfg = db.cfg /\ db'.manage = db.manage /\ db'.own = db.own
           /\ db'.stale = db.stale /\ db'.links = db.links /\ db'.surv = db.surv /\ db'.pd = db.pd
           /\ Due' \subseteq Due
<1>1. db \in Records /\ dflt' = dflt
  BY Zenon DEF SInv, RecordType, Clear
<1>2. PICK w \in WriteScalar(db.pend, None) : w.ok = TRUE /\ db' = [db EXCEPT !.pend = w.v] /\ calm
  BY Zenon DEF Clear, ClearCandidate, Charge
<1>3. w.v = None
  BY <1>2, Zenon DEF WriteScalar
<1>4. /\ db'.pend = None /\ db'.cfg = db.cfg /\ db'.manage = db.manage /\ db'.own = db.own
      /\ db'.stale = db.stale /\ db'.links = db.links /\ db'.surv = db.surv /\ db'.pd = db.pd
  BY <1>1, <1>2, <1>3, Zenon DEF Records
<1>5. Pending(db') \subseteq Pending(db)
  BY <1>4, Zenon DEF Pending
<1>6. Due' \subseteq Due
  BY <1>1, <1>4, <1>5, DueShrinks, Zenon
<1> QED BY <1>2, <1>4, <1>6, Zenon

\* At the start of a request nothing is promised yet.
LEMMA StartsAfresh ==
    ASSUME pc' \in {"begin", "drain", "render", "guard", "arm"}, flow' \in Change
    PROVE  OnCourse' /\ Repaired' /\ Ruled'
<1>1. flow' # "boot" /\ pc' \notin Mid \cup (Open \ {"drain"})
  BY Zenon DEF Change, Mid, Open
<1> QED BY <1>1, Zenon DEF OnCourse, Repaired, Ruled

\* What stood stands when neither its records nor its part of the host change.
LEMMA StillStands ==
    ASSUME db'.stale = db.stale, db'.manage = db.manage, db'.own = db.own, db'.links = db.links,
           PlanOf(db, db.pd)' = PlanOf(db, db.pd), UNCHANGED <<link, addrs, dns, nm>>, Stood
    PROVE  Stood'
BY Zenon DEF Stood, Pairs

\* An operation that is still undisturbed after a step was so before it.
LEMMA HealingBefore ==
    ASSUME HInv, Healing',
           \/ Begin \/ HandBack \/ SyncAndCommit \/ Commit \/ Undo \/ Clear \/ Resync \/ RenderGuard \/ InstallGuard
           \/ ArmCandidate \/ SettlePreflight \/ Fallback \/ ResumeUndo \/ UNCHANGED vars
           \/ \E p \in Prefix \cup {None} : PollPrefix(p)
    PROVE  flow' = flow /\ flow \in Change \cup {"boot"} /\ OnCourse /\ Repaired /\ Ruled
<1>1. flow' = flow
  BY Zenon DEF Begin, HandBack, SyncAndCommit, Commit, Undo, Clear, Resync, RenderGuard, InstallGuard,
       ArmCandidate, SettlePreflight, Fallback, ResumeUndo, vars, PollPrefix
<1>2. CASE Begin \/ UNCHANGED vars \/ \E p \in Prefix \cup {None} : PollPrefix(p)
  <2>1. calm' = calm
    BY <1>2, Zenon DEF Begin, vars, PollPrefix, luck
  <2> QED BY <1>1, <2>1, Zenon DEF HInv, Healing
<1>3. CASE HandBack \/ SyncAndCommit \/ Commit \/ Undo \/ Clear \/ Resync \/ RenderGuard \/ InstallGuard
            \/ ArmCandidate \/ SettlePreflight \/ Fallback \/ ResumeUndo
  <2>1. \E good : Charge(good)
    BY <1>3, Zenon DEF HandBack, SyncAndCommit, Commit, Undo, OwnershipUnreadable, Clear, Resync, RenderGuard,
         InstallGuard, ArmCandidate, SettlePreflight, Fallback, ResumeUndo
  <2>2. calm
    BY <2>1, Zenon DEF Charge, Healing
  <2> QED BY <1>1, <2>2, Zenon DEF HInv, Healing
<1> QED BY <1>2, <1>3, Zenon

LEMMA HealStarts ==
    ASSUME SInv, SInv', Asked, Pended, HInv, Healing',
           \/ BootGuard \/ Begin \/ RenderGuard \/ InstallGuard \/ ArmCandidate
           \/ (\E seg \in Seg : PutNetwork(seg)) \/ (\E seg \in Seg, manage \in BOOLEAN : RestoreBackup(seg, manage))
    PROVE  OnCourse' /\ Repaired' /\ Ruled'
<1>1. calm' /\ flow' \in Change \cup {"boot"} /\ Lanes
  BY Zenon DEF Healing, SInv
<1>2. flow' \notin {"none", "recover", "pd"}
  BY <1>1, Zenon DEF Change
<1>3. ASSUME NEW seg \in Seg, PutNetwork(seg) PROVE OnCourse' /\ Repaired' /\ Ruled'
  <2>1. pc' = "begin" /\ flow' = "put"
    BY <1>1, <1>3, Zenon DEF PutNetwork, Charge
  <2> QED BY StartsAfresh, <2>1, Zenon DEF Change
<1>4. ASSUME NEW seg \in Seg, NEW manage \in BOOLEAN, RestoreBackup(seg, manage) PROVE OnCourse' /\ Repaired' /\ Ruled'
  <2>1. pc' = "render" /\ flow' = "restore"
    BY <1>1, <1>4, Zenon DEF RestoreBackup, Charge
  <2> QED BY StartsAfresh, <2>1, Zenon DEF Change
<1>5. CASE BootGuard
  <2>1. pc' = "resume" /\ flow' = "boot" /\ rules' = Due /\ db' = db /\ dflt' = dflt
    BY <1>1, <1>5, Zenon DEF BootGuard, Charge, SyncNet, Enforce, Due
  <2>2. Due' \subseteq rules'
    BY NothingWritten, <2>1, Zenon
  <2>3. pc' \notin Mid \cup Open
    BY <2>1, Zenon DEF Mid, Open
  <2>4. flow' \notin Change
    BY <2>1, Zenon DEF Change
  <2> QED BY <2>1, <2>2, <2>3, <2>4, Zenon DEF OnCourse, Repaired, Ruled
<1>6. CASE Begin
  <2>1. pc = "begin" /\ pc' = "drain" /\ flow' = flow
    BY <1>6, Zenon DEF Begin
  <2> QED BY <1>1, StartsAfresh, <2>1, Zenon DEF Lanes
<1>7. CASE RenderGuard \/ InstallGuard \/ ArmCandidate
  <2>1. pc \in {"render", "guard", "arm"} /\ pc' \in {"guard", "arm", "begin"} /\ flow' = flow
    BY <1>1, <1>7, Zenon DEF RenderGuard, InstallGuard, ArmCandidate, Charge
  <2> QED BY <1>1, StartsAfresh, <2>1, Zenon DEF Lanes, Change
<1> QED BY <1>3, <1>4, <1>5, <1>6, <1>7, Zenon

LEMMA HealAside ==
    ASSUME SInv, SInv', Asked, Pended, HInv, Healing',
           \/ Finish \/ Rollback \/ RecordLease \/ PrefixChanged \/ SyncAtIdle \/ Crash \/ Reboot
           \/ (\E i \in Iface : OperatorCleans(i)) \/ Resync \/ SettlePreflight \/ Fallback
           \/ UNCHANGED vars \/ (\E p \in Prefix \cup {None} : PollPrefix(p))
    PROVE  OnCourse' /\ Repaired' /\ Ruled'
<1>1. calm' /\ flow' \in Change \cup {"boot"} /\ Lanes
  BY Zenon DEF Healing, SInv
<1>2. flow' \notin {"none", "recover", "pd"}
  BY <1>1, Zenon DEF Change
<1>3. CASE Finish \/ Rollback \/ RecordLease \/ PrefixChanged \/ SyncAtIdle \/ Crash \/ Reboot
           \/ \E i \in Iface : OperatorCleans(i)
  <2>1. CASE Finish \/ Crash \/ Reboot \/ Rollback
    <3>1. flow' \in {"none", "recover"}
      BY <2>1, Zenon DEF Finish, Forget, Crash, Reboot, Restarted, Rollback
    <3> QED BY <1>2, <3>1, Zenon
  <2>2. CASE RecordLease
    <3>1. flow = "pd" /\ flow' = flow
      BY <1>1, <2>2, Zenon DEF RecordLease, Lanes
    <3> QED BY <1>2, <3>1, Zenon
  <2>3. CASE PrefixChanged \/ SyncAtIdle \/ \E i \in Iface : OperatorCleans(i)
    <3>1. pc = "idle" /\ flow' \in {flow, "pd"}
      BY <2>3, Zenon DEF PrefixChanged, SyncAtIdle, OperatorCleans
    <3> QED BY <1>1, <1>2, <3>1, Zenon DEF Lanes
  <2> QED BY <1>3, <2>1, <2>2, <2>3, Zenon
<1>4. CASE Resync \/ SettlePreflight \/ Fallback
  <2>1. pc \in {"resync", "settle", "fallback"}
    BY <1>4, Zenon DEF Resync, SettlePreflight, Fallback
  <2> QED BY HealingBefore, <1>4, <2>1, Zenon DEF OnCourse
<1>5. CASE UNCHANGED vars \/ \E p \in Prefix \cup {None} : PollPrefix(p)
  <2>1. /\ db' = db /\ dflt' = dflt /\ UNCHANGED <<link, addrs, dns, nm>> /\ rules' = rules /\ pc' = pc
        /\ ok' = ok /\ plan' = plan /\ cov' = cov /\ cand' = cand
    BY <1>5, Zenon DEF vars, PollPrefix, host, locals, caller
  <2>2. flow' = flow /\ OnCourse /\ Repaired /\ Ruled
    BY HealingBefore, <1>5, Zenon
  <2>3. Due' = Due /\ PlanOf(db, db.pd)' = PlanOf(db, db.pd)
    BY NothingWritten, <2>1, Zenon
  <2>4. OnCourse'
    BY <2>1, <2>2, <2>3, Zenon DEF OnCourse
  <2>5. Stood => Stood'
    BY StillStands, <2>1, <2>3, Zenon
  <2>6. Repaired'
    BY <2>1, <2>2, <2>5, Zenon DEF Repaired, Present, Pairs
  <2>7. Cover(db, plan.iface)' = Cover(db, plan.iface)
    BY <2>1, Zenon DEF Cover, Superseded, Ifaces, Pending
  <2>8. Ruled'
    BY <2>1, <2>2, <2>3, <2>7, Zenon DEF Ruled
  <2> QED BY <2>4, <2>6, <2>8, Zenon
<1> QED BY <1>3, <1>4, <1>5, Zenon

LEMMA HealCommits ==
    ASSUME SInv, SInv', Asked, Pended, HInv, Healing',
           HandBack \/ SyncAndCommit \/ Commit
    PROVE  OnCourse' /\ Repaired' /\ Ruled'
<1>1. calm' /\ flow' \in Change \cup {"boot"} /\ Lanes
  BY Zenon DEF Healing, SInv
<1>2. flow' \notin {"none", "recover", "pd"}
  BY <1>1, Zenon DEF Change
<1>3. CASE HandBack
  <2>1. pc = "handback" /\ UNCHANGED <<link, addrs, dns, nm>> /\ db' = db /\ dflt' = dflt /\ ok' = ok
    BY <1>3, Zenon DEF HandBack, locals
  <2>2. flow' = flow /\ OnCourse /\ Repaired /\ Ruled /\ flow \in Change \cup {"boot"}
    BY HealingBefore, <1>3, Zenon
  <2>3. Due' = Due /\ PlanOf(db, db.pd)' = PlanOf(db, db.pd)
    BY NothingWritten, <2>1, Zenon
  <2>4. ok' = TRUE /\ Stood
    BY <2>1, <2>2, Zenon DEF OnCourse, Repaired, Open
  <2>5. Stood'
    BY StillStands, <2>1, <2>3, <2>4, Zenon
  <2>6. CASE flow = "boot"
    <3>1. pc' = "done" /\ rules' \in {rules, Due}
      BY <1>1, <1>3, <2>6, Zenon DEF HandBack, Charge, Released, SyncNet, Enforce, Due
    <3>2. Due' \subseteq rules' /\ db'.pend = None
      BY <2>1, <2>2, <2>3, <2>6, <3>1, Zenon DEF Ruled, OnCourse, Open
    <3>3. pc' \notin Mid \cup Open /\ flow' \notin Change
      BY <2>2, <2>6, <3>1, Zenon DEF Mid, Open, Change
    <3> QED BY <2>5, <3>1, <3>2, <3>3, Zenon DEF OnCourse, Repaired, Ruled
  <2>7. CASE flow \in Change
    <3>1. flow \notin {"boot", "recover"} /\ flow' # "boot"
      BY <2>2, <2>7, Zenon DEF Change
    <3>2. pc' = "sync"
      BY <1>1, <1>3, <2>1, <2>4, <3>1 DEF HandBack, Charge
    <3>3. pc' \notin Mid
      BY <3>2, Zenon DEF Mid
    <3> QED BY <2>4, <2>5, <3>1, <3>2, <3>3, Zenon DEF OnCourse, Repaired, Ruled
  <2> QED BY <2>2, <2>6, <2>7, Zenon
<1>4. CASE SyncAndCommit
  <2>1. /\ pc = "sync" /\ UNCHANGED <<link, addrs, dns, nm>> /\ db' = db /\ dflt' = dflt /\ ok' = ok
        /\ pc' = "commit" /\ rules' = Due
    BY <1>1, <1>4, Zenon DEF SyncAndCommit, locals, Charge, SyncNet, Enforce, Due
  <2>2. flow' = flow /\ OnCourse /\ Repaired /\ Ruled /\ flow \in Change
    BY <1>1, HealingBefore, <1>4, <2>1, Zenon DEF Lanes
  <2>3. Due' = Due /\ PlanOf(db, db.pd)' = PlanOf(db, db.pd)
    BY NothingWritten, <2>1, Zenon
  <2>4. ok' = TRUE /\ Stood /\ flow' # "boot"
    BY <2>1, <2>2, Zenon DEF OnCourse, Repaired, Open, Change
  <2>5. Stood'
    BY StillStands, <2>1, <2>3, <2>4, Zenon
  <2>6. pc' \notin Mid
    BY <2>1, Zenon DEF Mid
  <2> QED BY <2>1, <2>3, <2>4, <2>5, <2>6, Zenon DEF OnCourse, Repaired, Ruled
<1>5. CASE Commit
  <2>1. /\ pc = "commit" /\ UNCHANGED <<link, addrs, dns, nm>> /\ db' = db /\ dflt' = dflt /\ rules' = rules
        /\ pc' = "clear" /\ cand' = cand
    BY <1>1, <1>5, Zenon DEF Commit, locals, caller, Charge, host
  <2>2. flow' = flow /\ OnCourse /\ Repaired /\ Ruled /\ flow \in Change
    BY <1>1, HealingBefore, <1>5, <2>1, Zenon DEF Lanes
  <2>3. Due' = Due /\ PlanOf(db, db.pd)' = PlanOf(db, db.pd)
    BY NothingWritten, <2>1, Zenon
  <2>4. Stood /\ rules = Due /\ flow' # "boot"
    BY <2>1, <2>2, Zenon DEF Repaired, Ruled, Change
  <2>5. Stood'
    BY StillStands, <2>1, <2>3, <2>4, Zenon
  <2>6. db.manage = (cand # None)
    <3>1. txn # None /\ pc \in Open
      BY <1>1, <2>1, <2>2, Zenon DEF Lanes, Open
    <3> QED BY <2>2, <3>1, Zenon DEF Asked
  <2>7. pc' \notin Mid \cup Open
    BY <2>1, Zenon DEF Mid, Open
  <2>8. OnCourse'
    BY <2>1, <2>4, <2>6, <2>7, Zenon DEF OnCourse
  <2> QED BY <2>1, <2>3, <2>4, <2>5, <2>7, <2>8, Zenon DEF Repaired, Ruled
<1> QED BY <1>3, <1>4, <1>5, Zenon

LEMMA HealUndoes ==
    ASSUME SInv, SInv', Asked, Pended, HInv, Healing',
           Undo \/ ResumeUndo \/ (Clear /\ flow = "boot")
    PROVE  OnCourse' /\ Repaired' /\ Ruled'
<1>1. calm' /\ flow' \in Change \cup {"boot"} /\ Lanes
  BY Zenon DEF Healing, SInv
<1>2. flow' \notin {"none", "recover", "pd"}
  BY <1>1, Zenon DEF Change
<1>3. CASE Undo
  <2>1. pc = "undo" /\ UNCHANGED <<cand, rules>>
    BY <1>3, Zenon DEF Undo, caller
  <2>2. flow' = flow /\ OnCourse /\ Ruled /\ flow = "boot"
    BY <1>1, <1>2, HealingBefore, <1>3, <2>1, Zenon DEF Asked
  <2>3. cand # None /\ inst = Blank /\ Due \subseteq rules
    BY <2>1, <2>2, Zenon DEF OnCourse, HInv, Ruled
  <2>4. pc' = "clear" /\ Due' \subseteq Due
    BY <1>1, <1>3, <2>2, <2>3, CalmUndo, Zenon
  <2>5. pc' \notin Mid \cup Open /\ flow' \notin Change
    BY <2>2, <2>4, Zenon DEF Mid, Open, Change
  <2>6. OnCourse'
    BY <2>1, <2>2, <2>3, <2>4, <2>5, Zenon DEF OnCourse
  <2> QED BY <2>1, <2>3, <2>4, <2>5, <2>6, Zenon DEF Repaired, Ruled
<1>4. CASE ResumeUndo
  <2>1. /\ pc = "resume" /\ db' = db /\ dflt' = dflt /\ rules' = rules /\ cand' = db.pend
        /\ pc' = IF cand' = None THEN "drain" ELSE "undo"
    BY <1>1, <1>4, Zenon DEF ResumeUndo, Charge, host
  <2>2. flow' = flow /\ Ruled /\ flow = "boot"
    BY <1>1, HealingBefore, <1>4, <2>1, Zenon DEF Lanes
  <2>3. Due' \subseteq rules'
    BY NothingWritten, <2>1, <2>2, Zenon DEF Ruled
  <2>4. pc' \in {"drain", "undo"}
    BY <2>1, Zenon
  <2>5. pc' \notin Mid \cup (Open \ {"drain"}) /\ flow' \notin Change
    BY <2>2, <2>4, Zenon DEF Mid, Open, Change
  <2>6. OnCourse'
    BY <2>1, <2>2, <2>4, <2>5, Zenon DEF OnCourse, Open
  <2> QED BY <2>3, <2>4, <2>5, <2>6, Zenon DEF Repaired, Ruled
<1>5. CASE Clear /\ flow = "boot"
  <2>1. pc = "clear" /\ pc' = "drain" /\ rules' = rules
    BY <1>5, Zenon DEF Clear, host
  <2>2. flow' = flow /\ OnCourse /\ Ruled
    BY HealingBefore, <1>5, Zenon
  <2>3. cand # None
    BY <1>5, <2>1, <2>2, Zenon DEF OnCourse
  <2>4. db'.pend = None /\ Due' \subseteq Due
    BY <1>1, <1>5, <2>3, CalmCleared, Zenon
  <2>5. pc' \notin Mid \cup (Open \ {"drain"}) /\ flow' \notin Change
    BY <1>5, <2>1, <2>2, Zenon DEF Mid, Open, Change
  <2>6. OnCourse'
    BY <2>1, <2>4, <2>5, Zenon DEF OnCourse
  <2>7. Due' \subseteq rules'
    BY <1>5, <2>1, <2>2, <2>4, Zenon DEF Ruled
  <2> QED BY <2>1, <2>5, <2>6, <2>7, Zenon DEF Repaired, Ruled
<1> QED BY <1>3, <1>4, <1>5, Zenon

LEMMA HealClears ==
    ASSUME SInv, SInv', Asked, Pended, HInv, Healing',
           Clear /\ flow \in Change
    PROVE  OnCourse' /\ Repaired' /\ Ruled'
<1>1. calm' /\ flow' \in Change \cup {"boot"} /\ Lanes
  BY Zenon DEF Healing, SInv
<1>2. flow' \notin {"none", "recover", "pd"}
  BY <1>1, Zenon DEF Change
<1>3. CASE Clear /\ flow \in Change
  <2>1. flow' = flow /\ OnCourse /\ Repaired /\ Ruled /\ flow \notin {"boot", "recover"}
    BY HealingBefore, <1>3, Zenon DEF Change
  <2>2. pc = "clear" /\ pc' = "done" /\ rules' = rules /\ UNCHANGED <<link, addrs, dns, nm>> /\ dflt' = dflt
    BY <1>3, <2>1, Zenon DEF Clear, host
  <2>3. Stood /\ rules = Due /\ db.manage = (cand # None)
    BY <1>3, <2>1, <2>2, Zenon DEF OnCourse, Repaired, Ruled
  <2>4. Stood' /\ rules' = Due' /\ (db'.pend = None \/ ~db'.manage)
    <3>1. CASE cand = None
      <4>1. db' = db
        BY <1>3, <3>1, Zenon DEF Clear
      <4>2. Due' = Due /\ PlanOf(db, db.pd)' = PlanOf(db, db.pd)
        BY NothingWritten, <2>2, <4>1, Zenon
      <4> QED BY StillStands, <2>2, <2>3, <3>1, <4>1, <4>2, Zenon
    <3>2. CASE cand # None
      <4>1. /\ db'.pend = None /\ db'.cfg = db.cfg /\ db'.manage = db.manage /\ db'.own = db.own
            /\ db'.stale = db.stale /\ db'.links = db.links /\ db'.surv = db.surv /\ db'.pd = db.pd
            /\ Due' \subseteq Due
        BY <1>1, <1>3, <3>2, CalmCleared, Zenon
      <4>2. SegmentOf(db)' = SegmentOf(db)
        BY <2>2, <4>1, Zenon DEF SegmentOf
      <4>3. PlanOf(db, db.pd)' = PlanOf(db, db.pd)
        BY <4>1, <4>2, Zenon DEF PlanOf, Resolved6
      <4>4. Stood'
        BY StillStands, <2>2, <2>3, <4>1, <4>3, Zenon
      <4>5. db.own.iface = SegmentOf(db).iface
        <5>1. db.own = PlanOf(db, db.pd)
          BY <2>3, <3>2, Zenon DEF Stood
        <5> QED BY <5>1 DEF PlanOf
      <4>6. cand.iface = db.own.iface /\ db.pend = cand
        BY <1>3, <2>2, <3>2, Zenon DEF Asked, Ending, Fits, Pended
      <4>7. Pending(db) \subseteq {SegmentOf(db).iface}
        BY <4>5, <4>6, Zenon DEF Pending
      <4>8. Cover(db, SegmentOf(db).iface) \subseteq Cover(db, SegmentOf(db).iface)'
        BY <4>1, <4>2, <4>7, Zenon DEF Cover, Superseded, Ifaces
      <4>9. Due \subseteq Due'
        BY <4>2, <4>8, Zenon DEF Due
      <4> QED BY <2>2, <2>3, <4>1, <4>4, <4>9, Zenon
    <3> QED BY <3>1, <3>2, Zenon
  <2>5. pc' \notin Mid \cup Open
    BY <2>2, Zenon DEF Mid, Open
  <2>6. OnCourse'
    BY <2>1, <2>2, <2>4, <2>5, Zenon DEF OnCourse
  <2> QED BY <2>1, <2>2, <2>4, <2>5, <2>6, Zenon DEF Repaired, Ruled
<1> QED BY <1>3, Zenon

LEMMA HealElse ==
    ASSUME SInv, SInv', Asked, Pended, HInv, [Next]_vars, ~Pass, Healing'
    PROVE  OnCourse' /\ Repaired' /\ Ruled'
<1>1. CASE Clear
  BY <1>1, HealingBefore, HealUndoes, HealClears, Zenon
<1> QED BY <1>1, HealStarts, HealAside, HealCommits, HealUndoes, Zenon DEF Next, Step

LEMMA PassCalm ==
    ASSUME PassStep, calm'
    PROVE  calm
<1>1. \E good : Charge(good)
  <2>1. ReadPlan \/ AddLink \/ Stage \/ InstallAddrs \/ RetireAddrs \/ TakeFromNM \/ Activate \/ ServeDhcp => \E good : Charge(good)
    BY Zenon DEF ReadPlan, AddLink, Stage, InstallAddrs, RetireAddrs, TakeFromNM, Activate, ServeDhcp
  <2>2. Drain \/ RecordLink \/ RetireSuperseded \/ Narrow \/ FollowPrefix \/ ClearLinks => \E good : Charge(good)
    BY Zenon DEF Drain, RecordLink, RetireSuperseded, Narrow, FollowPrefix, ClearLinks, RetireLinks
  <2>3. ClearAddrs \/ RecordOwnership => \E good : Charge(good)
    BY Zenon DEF ClearAddrs, RecordOwnership, OwnershipUnreadable
  <2> QED BY <2>1, <2>2, <2>3, Zenon DEF PassStep
<1> QED BY <1>1, Zenon DEF Charge

LEMMA UnaskedStep ==
    ASSUME SInv, HInv, [Next]_vars, flow' \in {"none", "boot"}
    PROVE  inst' = Blank
<1>1. Lanes /\ (flow \in {"none", "boot"} => inst = Blank)
  BY Zenon DEF SInv, HInv
<1>2. CASE Forget
  BY <1>2, Zenon DEF Forget
<1>3. CASE inst' = inst /\ flow' = flow
  BY <1>1, <1>3, Zenon
<1>4. CASE Pass
  BY <1>3, <1>4, PassLane, Zenon DEF Pass, caller
<1>5. CASE Begin \/ SyncAndCommit \/ Commit \/ Undo \/ Clear \/ Resync \/ RenderGuard \/ InstallGuard \/ ArmCandidate
           \/ SettlePreflight \/ Fallback \/ ResumeUndo \/ RecordLease \/ SyncAtIdle \/ UNCHANGED vars
  BY <1>3, <1>5, Zenon DEF Begin, SyncAndCommit, Commit, Undo, Clear, Resync, RenderGuard, InstallGuard, ArmCandidate,
       SettlePreflight, Fallback, ResumeUndo, RecordLease, SyncAtIdle, vars, caller
<1>6. CASE HandBack
  <2>1. flow' = flow /\ (flow \notin {"put", "restore"} => inst' = inst)
    BY <1>6, Zenon DEF HandBack, ReadBack
  <2> QED BY <1>1, <2>1, Zenon
<1>7. CASE Finish \/ Crash \/ Reboot
  BY <1>2, <1>7, Zenon DEF Finish, Crash, Reboot, Restarted
<1>8. CASE Rollback
  BY <1>8, Zenon DEF Rollback
<1>9. CASE BootGuard
  <2>1. pc = "boot" /\ inst' = inst
    BY <1>9, Zenon DEF BootGuard, caller
  <2> QED BY <1>1, <2>1, Zenon DEF Lanes
<1>10. CASE PrefixChanged
  <2>1. inst' = inst /\ flow' \in {flow, "pd"}
    BY <1>10, Zenon DEF PrefixChanged
  <2> QED BY <1>3, <2>1, Zenon
<1>11. /\ \A seg \in Seg : ~PutNetwork(seg)
       /\ \A seg \in Seg, manage \in BOOLEAN : ~RestoreBackup(seg, manage)
  BY Zenon DEF PutNetwork, RestoreBackup
<1>12. ASSUME NEW p \in Prefix \cup {None}, PollPrefix(p) PROVE inst' = Blank
  BY <1>3, <1>12, Zenon DEF PollPrefix
<1>13. ASSUME NEW i \in Iface, OperatorCleans(i) PROVE inst' = Blank
  BY <1>3, <1>13, Zenon DEF OperatorCleans, caller
<1> QED BY <1>4, <1>5, <1>6, <1>7, <1>8, <1>9, <1>10, <1>11, <1>12, <1>13, Zenon DEF Next, Step

LEMMA HealStep ==
    ASSUME SInv, SInv', Asked, Pended, Rooted, HInv, [Next]_vars
    PROVE  HInv'
<1>1. ASSUME Healing' PROVE OnCourse' /\ Repaired' /\ Ruled'
  <2>1. CASE Pass
    <3>1. calm' /\ PassStep /\ flow' \in Change \cup {"boot"} /\ flow' = flow
      BY <1>1, <2>1, PassLane, Zenon DEF Healing, Pass
    <3>2. calm
      BY <3>1, PassCalm, Zenon
    <3>3. OnCourse /\ Repaired /\ Ruled /\ flow \in Change \cup {"boot"}
      BY <3>1, <3>2, Zenon DEF HInv, Healing
    <3> QED BY <3>1, <3>3, HealPass, Zenon
  <2> QED BY <1>1, <2>1, HealElse, Zenon
<1> QED BY <1>1, UnaskedStep, Zenon DEF HInv

\* A boot, a PUT or a restore on which nothing fails leaves the host as it is configured, whatever
\* earlier failures and crashes had left behind (host_provision, undo_provision_candidate,
\* resume_pending_provision_undo and the renders around them).  Assumed: what is not a VLAN, and so is
\* nothing the panel can add, is there without it.
THEOREM UndisturbedOperationHeals ==
    ASSUME Iface \ Vlan \subseteq Foreign
    PROVE  Spec => []UndisturbedHeals
<1>1. Init => Rooted /\ HInv
  <2> SUFFICES ASSUME Init PROVE Rooted /\ HInv
    BY Zenon
  <2>1. db.links = {} /\ db.pend = None /\ txn = None /\ cand = None /\ flow = "none" /\ inst = Blank
    BY DEF Init, Quiet
  <2>2. \A i \in Iface \ Vlan : Present(i)
    BY DEF Init, Present
  <2>3. ~Healing
    BY <2>1, Zenon DEF Healing, Change
  <2> QED BY <2>1, <2>2, <2>3, Zenon DEF Rooted, VlanOnly, HInv
<1>2. SInv /\ SInv' /\ Asked /\ Pended /\ Rooted /\ HInv /\ [Next]_vars => Rooted' /\ HInv'
  BY RootedStep, HealStep, Zenon
<1>3. SInv /\ HInv => UndisturbedHeals
  <2> SUFFICES ASSUME SInv, HInv, pc = "done", calm, flow \in {"boot", "put", "restore"}
               PROVE  /\ db.stale = {} /\ txn = None
                      /\ Due \subseteq rules /\ (flow # "boot" => rules = Due)
                      /\ db.pend # None => ~db.manage /\ flow # "boot"
                      /\ Stood
    BY Zenon DEF UndisturbedHeals, Due, Stood
  <2>1. OnCourse /\ Repaired /\ Ruled
    BY Zenon DEF HInv, Healing, Change
  <2>2. Stood
    BY <2>1, Zenon DEF Repaired
  <2>3. txn = None
    BY Zenon DEF SInv, Lanes, Open
  <2>4. Due \subseteq rules /\ (flow # "boot" => rules = Due)
    BY <2>1, Zenon DEF Ruled, Change
  <2>5. db.pend # None => ~db.manage /\ flow # "boot"
    BY <2>1, Zenon DEF OnCourse, Change
  <2> QED BY <2>2, <2>3, <2>4, <2>5, Zenon DEF Stood
<1> QED BY <1>1, <1>2, <1>3, AskedHolds, PTL DEF Spec
=============================================================================
