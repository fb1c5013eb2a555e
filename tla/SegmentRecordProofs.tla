------------------------ MODULE SegmentRecordProofs ------------------------
(***************************************************************************)
(* Proofs about SegmentChange: the records know every carrier, and the     *)
(* guard's rules follow the segment.                                       *)
(***************************************************************************)
EXTENDS SegmentProofs

-----------------------------------------------------------------------------
(* Which record names an address                                           *)

\* IPv4 and IPv6 addresses stay in their columns of the claim.
Columns4 == {s.a4 : s \in Seg} \cup {None}

Columns6 == {s.v6 : s \in Seg} \cup {Ula} \cup Prefix \cup {None}

InColumns(o) == o.a4 \in Columns4 /\ o.a6 \in Columns6

Columns ==
    /\ InColumns(db.own) /\ InColumns(plan)
    /\ db.pd \in Prefix \cup {None} /\ ring \in Prefix \cup {None, Off}
    /\ txn # None => InColumns(txn.own) /\ txn.pd \in Prefix \cup {None}

OnLinks == \A p \in addrs : Present(p[1])

LEMMA OnLinksStep ==
    ASSUME SInv, OnLinks, [Next]_vars
    PROVE  OnLinks'
<1>1. \A p \in Pair : p[1] \in Iface
  BY Zenon DEF Pair
<1>2. addrs \in SUBSET Pair /\ link \in [Iface -> {"absent", "down", "up"}]
  BY Zenon DEF SInv, HostType
<1>3. CASE InstallAddrs
  <2>1. plan \in Drawn
    BY <1>3, Zenon DEF InstallAddrs, SInv, LocalType
  <2>2. PICK done \in {{}, {<<plan.iface, plan.a4>>}, Pairs(plan)} :
            (done # {} => Present(plan.iface)) /\ addrs' = addrs \cup done
    BY <1>3, Zenon DEF InstallAddrs
  <2>3. \A p \in done : p[1] = plan.iface
    BY <2>1, <2>2, DrawnPairs
  <2>4. link' = link
    BY <1>3, Zenon DEF InstallAddrs
  <2> QED BY <2>2, <2>3, <2>4, Zenon DEF OnLinks, Present
<1>4. CASE Activate
  <2>1. addrs' = addrs /\ (link' = link \/ link' = [link EXCEPT ![plan.iface] = "up"])
    BY <1>4, Zenon DEF Activate
  <2>2. \A i \in Iface : link[i] # "absent" => link'[i] # "absent"
    BY <1>2, <2>1, Zenon
  <2> QED BY <1>1, <1>2, <2>1, <2>2, Zenon DEF OnLinks, Present
<1>5. CASE ~InstallAddrs /\ ~Activate
  <2>1. \/ addrs' = {}
        \/ addrs' \subseteq addrs /\ \A i \in Iface : link'[i] = "absent" => link[i] = "absent" \/ i \notin Ifaces(addrs')
    BY <1>5, HostShrinks, Zenon
  <2>2. \A p \in addrs' : p[1] \in Ifaces(addrs')
    BY Zenon DEF Ifaces
  <2> QED BY <1>1, <1>2, <2>1, <2>2, Zenon DEF OnLinks, Present
<1> QED BY <1>3, <1>4, <1>5, Zenon

LEMMA PlanColumns ==
    ASSUME dflt \in Seg, NEW d \in Records, NEW pd \in Prefix \cup {None}
    PROVE  InColumns(PlanOf(d, pd))
<1>1. PICK seg \in Seg : seg = SegmentOf(d)
  BY Zenon DEF SegmentOf, Records
<1>2. Resolved6(seg, pd) \in Columns6
  BY <1>1, Zenon DEF Resolved6, Columns6
<1>3. PlanOf(d, pd) = [iface |-> seg.iface, a4 |-> seg.a4, a6 |-> Resolved6(seg, pd)]
  BY <1>1, Zenon DEF PlanOf
<1>4. seg.a4 \in Columns4
  BY <1>1, Zenon DEF Columns4
<1> QED BY <1>2, <1>3, <1>4 DEF InColumns

LEMMA ColumnsStep ==
    ASSUME SInv, Columns, [Next]_vars
    PROVE  Columns'
<1>1. db \in Records /\ dflt \in Seg /\ None \in Columns4 \cap Columns6 /\ db # None
  BY ConstantsAssumption, Zenon DEF SInv, RecordType, Columns4, Columns6, ConstantsAssumption
<1>2. InColumns(Blank)
  BY <1>1, Zenon DEF InColumns, Blank
<1>3. CASE Pass
  <2>1. PassStep /\ UNCHANGED <<txn, ring>>
    BY <1>3, PassLane, Zenon DEF Pass, caller
  <2>2. InColumns(db.own)' /\ db'.pd \in Prefix \cup {None}
    BY <1>1, <2>1, PassKeeps, Zenon DEF Columns, InColumns
  <2>3. plan' = plan \/ plan' = PlanOf(db, db.pd)
    BY <2>1, Zenon DEF PassStep, Drain, ReadPlan, RecordLink, AddLink, Stage, RecordOwnership, InstallAddrs, RetireAddrs,
         TakeFromNM, Activate, ServeDhcp, RetireSuperseded, Narrow, FollowPrefix, ClearAddrs, ClearLinks
  <2>4. InColumns(PlanOf(db, db.pd))
    BY <1>1, PlanColumns, Zenon DEF Columns
  <2>5. InColumns(plan)'
    BY <2>3, <2>4, Zenon DEF Columns, InColumns
  <2> QED BY <2>1, <2>2, <2>5, Zenon DEF Columns, InColumns
<1>4. CASE ~Pass
  <2>1. db'.pd \in Prefix \cup {None} /\ InColumns(db.own)'
    <3>1. pc = "lease" => ring \in Prefix \cup {None}
      BY ConstantsAssumption, Zenon DEF Columns, SInv, Lanes, ConstantsAssumption
    <3> QED BY <1>4, <3>1, OutsidePass, Zenon DEF Columns, InColumns
  <2>2. InColumns(plan)'
    <3>1. ring # Off => InColumns(PlanOf(db, ring))
      BY <1>1, PlanColumns, Zenon DEF Columns
    <3> QED BY <1>2, <1>4, <3>1, OutsidePass, Zenon DEF Columns, InColumns
  <2>3. ring' \in Prefix \cup {None, Off}
    BY <1>4, OutsidePass, Zenon DEF Columns
  <2>4. txn' # None => InColumns(txn.own)' /\ txn'.pd \in Prefix \cup {None}
    BY <1>4, OutsidePass, Zenon DEF Columns, InColumns
  <2> QED BY <2>1, <2>2, <2>3, <2>4, Zenon DEF Columns
<1> QED BY <1>3, <1>4, Zenon

\* An address is held by the claim or one of the two ledgers, or it is on a link the panel owns.
Held(d) == Pairs(d.own) \cup d.stale \cup d.surv

Kept(p, d) == p \in Held(d) \/ p[1] \in d.links

Live == addrs \ lost

\* drain_enforcement_cover, ensure_segment_link and _retire_links: what is still on the host stays
\* on record.
LEMMA LedgersKeep ==
    ASSUME SInv, OnLinks, Drain \/ RecordLink \/ RetireSuperseded \/ ClearLinks, UNCHANGED lost
    PROVE  \A p \in Live' : p \in Live /\ (Kept(p, db) => Kept(p, db'))
<1>1. db \in Records
  BY Zenon DEF SInv, RecordType
<1>2. CASE Drain
  <2>0. PICK gone \in SUBSET ProvenGone(db.surv) :
            \E w \in WriteSet(db.surv, db.surv \ gone) : db' = [db EXCEPT !.surv = w.v]
    BY <1>2, Zenon DEF Drain
  <2>1. PICK w \in WriteSet(db.surv, db.surv \ gone) : db' = [db EXCEPT !.surv = w.v]
    BY <2>0, Zenon
  <2>2. w.v = db.surv \/ db.surv \ gone \subseteq w.v
    BY <2>1, Zenon DEF WriteSet
  <2>3. db'.surv = w.v /\ db'.own = db.own /\ db'.stale = db.stale /\ db'.links = db.links
    BY <1>1, <2>1, Zenon DEF Records
  <2>4. addrs' = addrs
    BY <1>2, Zenon DEF Drain, host
  <2>5. \A p \in addrs : p \notin gone
    BY <2>0, Zenon DEF ProvenGone, OnLinks
  <2> QED BY <2>2, <2>3, <2>4, <2>5, Zenon DEF Live, Kept, Held
<1>3. CASE RecordLink
  <2>1. /\ addrs' = addrs
        /\ db' = db \/ \E w \in WriteSet(db.links, db.links \cup {plan.iface}) : db' = [db EXCEPT !.links = w.v]
    BY <1>3, Zenon DEF RecordLink, host
  <2>2. ASSUME NEW w \in WriteSet(db.links, db.links \cup {plan.iface}), db' = [db EXCEPT !.links = w.v]
        PROVE  db.links \subseteq db'.links /\ db'.surv = db.surv /\ db'.own = db.own /\ db'.stale = db.stale
    <3>1. db.links \subseteq w.v
      BY <2>2, Zenon DEF WriteSet
    <3> QED BY <1>1, <2>2, <3>1, Zenon DEF Records
  <2> QED BY <2>1, <2>2, Zenon DEF Live, Kept, Held
<1>4. ASSUME NEW owned, RetireLinks(owned) PROVE \A p \in Live' : p \in Live /\ (Kept(p, db) => Kept(p, db'))
  <2>0. PICK gone \in SUBSET owned : \E w \in WriteSet(db.links, db.links \ gone) :
            Without(gone) /\ db' = [db EXCEPT !.links = w.v]
    BY <1>4, Zenon DEF RetireLinks
  <2>1. PICK w \in WriteSet(db.links, db.links \ gone) : Without(gone) /\ db' = [db EXCEPT !.links = w.v]
    BY <2>0, Zenon
  <2>2. db.links \ gone \subseteq w.v
    BY <2>1, Zenon DEF WriteSet
  <2>3. db'.links = w.v /\ db'.own = db.own /\ db'.stale = db.stale /\ db'.surv = db.surv
    BY <1>1, <2>1, Zenon DEF Records
  <2>4. \A p \in addrs' : p \in addrs /\ p[1] \notin gone
    BY <2>1, Zenon DEF Without
  <2> QED BY <2>2, <2>3, <2>4, Zenon DEF Live, Kept, Held
<1> QED BY <1>2, <1>3, <1>4, Zenon DEF RetireSuperseded, ClearLinks

\* _record_ownership: an address the claim and the plan share is in the same column of both, so that
\* it stays in the claim whichever of the scalars are written.
LEMMA SharedStays ==
    ASSUME SInv, Columns, plan \in Drawn, NEW own \in Owner,
           own.iface \in {db.own.iface, plan.iface}, own.a4 \in {db.own.a4, plan.a4}, own.a6 \in {db.own.a6, plan.a6},
           NEW p \in Pairs(db.own), p \in Pairs(plan)
    PROVE  p \in Pairs(own)
<1>1. db.own \in Owner /\ db.own # None /\ db.own.iface # None /\ own # None
  BY ConstantsAssumption, Zenon DEF SInv, RecordType, Records, Pairs, ConstantsAssumption
<1>2. PICK a \in {db.own.a4, db.own.a6} \ {None} : p = <<db.own.iface, a>>
  BY <1>1, Zenon DEF Pairs
<1>3. PICK b \in {plan.a4, plan.a6} \ {None} : p = <<plan.iface, b>>
  BY DrawnPairs, Zenon
<1>4. db.own.iface = plan.iface /\ a = b
  BY <1>2, <1>3
<1>5. Columns4 \cap Columns6 \subseteq {None}
  BY CallerAssumption, Zenon DEF Columns4, Columns6, CallerAssumption
<1>6. /\ db.own.a4 \in Columns4 /\ db.own.a6 \in Columns6
      /\ plan.a4 \in Columns4 /\ plan.a6 \in Columns6
  BY Zenon DEF Columns, InColumns
<1>7. (a = db.own.a4 /\ a = plan.a4) \/ (a = db.own.a6 /\ a = plan.a6)
  BY <1>2, <1>3, <1>4, <1>5, <1>6, Zenon
<1>8. a \in {own.a4, own.a6} \ {None} /\ own.iface = db.own.iface
  BY <1>2, <1>4, <1>7, Zenon
<1> QED BY <1>1, <1>2, <1>8, Zenon DEF Pairs

\* Whatever a pass takes from a record, it leaves in another, removes from the host, or is excepted.
LEMMA PassKept ==
    ASSUME SInv, OnLinks, Columns, PassStep, NEW p \in Live'
    PROVE  Kept(p, db') \/ (p \in Live /\ ~Kept(p, db))
<1>1. db \in Records /\ db.own \in Owner /\ db.stale \in SUBSET Pair
  BY Zenon DEF SInv, RecordType, Records
<1>2. CASE Drain \/ RecordLink \/ RetireSuperseded \/ ClearLinks
  BY <1>2, LedgersKeep, Zenon DEF PassStep, RecordOwnership, Drain, RecordLink, RetireSuperseded, ClearLinks
<1>3. CASE ReadPlan \/ AddLink \/ Stage \/ TakeFromNM \/ Activate \/ ServeDhcp \/ Narrow
  <2>1. UNCHANGED <<addrs, db>>
    BY <1>3, Zenon DEF ReadPlan, AddLink, Stage, TakeFromNM, Activate, ServeDhcp, Narrow
  <2>2. pc # "own"
    BY <1>3, Zenon DEF ReadPlan, AddLink, Stage, TakeFromNM, Activate, ServeDhcp, Narrow
  <2> QED BY <2>1, <2>2, Zenon DEF PassStep, RecordOwnership, Live
<1>4. CASE FollowPrefix
  <2>1. addrs' = addrs /\ pc # "own"
    BY <1>4, Zenon DEF FollowPrefix, host
  <2>2. db' = db \/ \E v : db' = [db EXCEPT !.pd = v]
    BY <1>4, Zenon DEF FollowPrefix
  <2>3. db'.own = db.own /\ db'.stale = db.stale /\ db'.surv = db.surv /\ db'.links = db.links
    BY <1>1, <2>2, Zenon DEF Records
  <2> QED BY <2>1, <2>3, Zenon DEF PassStep, RecordOwnership, Live, Kept, Held
<1>5. CASE RecordOwnership
  <2>1. plan \in Drawn
    BY <1>5, Zenon DEF RecordOwnership, SInv, LocalType
  <2>2. plan \in Owner /\ Owed(db) \in SUBSET Pair
    BY <1>1, <2>1, OwedType, DrawnPairs, Zenon
  <2>3. CASE UNCHANGED <<db, lost>>
    BY <1>5, <2>3, Zenon DEF RecordOwnership, host, Live
  <2>4. CASE \E w \in WriteOwnership(db, plan, Owed(db)) :
                db' = w.v /\ lost' = lost \cup ((addrs \cap db.stale) \ (db'.stale \cup Pairs(db'.own)))
    <3>1. PICK w \in WriteOwnership(db, plan, Owed(db)) :
                db' = w.v /\ lost' = lost \cup ((addrs \cap db.stale) \ (db'.stale \cup Pairs(db'.own)))
      BY <2>4, Zenon
    <3>2. addrs' = addrs
      BY <1>5, Zenon DEF RecordOwnership, host
    <3>3. p \in addrs /\ p \notin lost /\ p \notin (addrs \cap db.stale) \ (db'.stale \cup Pairs(db'.own))
      BY <3>1, <3>2, Zenon DEF Live
    <3>4. p \in db.stale => p \in db'.stale \cup Pairs(db'.own)
      BY <3>3, Zenon
    <3>5. db'.surv = db.surv /\ db'.links = db.links
      BY <1>1, <2>2, <3>1, OwnershipWritten
    <3>6. \/ db'.own = db.own
          \/ /\ db'.stale = Owed(db)
             /\ db'.own.iface \in {db.own.iface, plan.iface}
             /\ db'.own.a4 \in {db.own.a4, plan.a4} /\ db'.own.a6 \in {db.own.a6, plan.a6}
      BY <1>1, <2>2, <3>1, OwnershipWritten, Zenon
    <3>7. db' \in Records
      BY <1>1, <2>2, <3>1, WriteOwnershipType, Zenon
    <3>8. db'.own \in Owner
      BY <3>7, Zenon DEF Records
    <3>9. ASSUME p \in Pairs(db.own) PROVE p \in db'.stale \cup Pairs(db'.own)
      <4>1. CASE db'.own = db.own
        BY <3>9, <4>1, Zenon
      <4>2. CASE p \in Pairs(plan) /\ db'.own # db.own
        BY <2>1, <3>6, <3>8, <3>9, <4>2, SharedStays, Zenon
      <4>3. CASE p \notin Pairs(plan) /\ db'.own # db.own
        <5>1. db.own.iface # None
          BY <3>9, Zenon DEF Pairs
        <5>2. [db.own EXCEPT !.iface = db.own.iface] = db.own
          BY <1>1, Zenon DEF Owner
        <5>3. Pairs(db.own) \ Pairs(plan) \subseteq Owed(db)
          BY <5>1, <5>2, Zenon DEF Owed
        <5> QED BY <3>6, <3>9, <4>3, <5>3, Zenon
      <4> QED BY <4>1, <4>2, <4>3, Zenon
    <3> QED BY <3>3, <3>4, <3>5, <3>9, Zenon DEF Kept, Held, Live
  <2> QED BY <1>5, <2>3, <2>4, Zenon DEF RecordOwnership
<1>6. CASE InstallAddrs
  <2>1. /\ plan \in Drawn /\ db.own = plan /\ db' = db /\ pc # "own"
    BY <1>6, Zenon DEF InstallAddrs, SInv, LocalType, Achieved
  <2>2. PICK done \in {{}, {<<plan.iface, plan.a4>>}, Pairs(plan)} : addrs' = addrs \cup done
    BY <1>6, Zenon DEF InstallAddrs
  <2>3. done \subseteq Pairs(plan)
    <3>1. <<plan.iface, plan.a4>> \in Pairs(plan)
      <4>1. plan.a4 # None
        BY <2>1, DrawnPairs, ConstantsAssumption, Zenon DEF ConstantsAssumption
      <4> QED BY <2>1, <4>1, DrawnPairs
    <3> QED BY <2>2, <3>1, Zenon
  <2>4. lost' = lost
    BY <2>1, Zenon DEF PassStep, RecordOwnership
  <2> QED BY <2>1, <2>2, <2>3, <2>4, Zenon DEF Live, Kept, Held
<1>7. CASE RetireAddrs
  <2>1. PICK kept \in SUBSET db.stale :
            /\ addrs' = addrs \ (db.stale \ kept)
            /\ db' = db \/ \E w \in WriteOwnership(db, db.own, kept) : db' = w.v
    BY <1>7, Zenon DEF RetireAddrs
  <2>2. kept \in SUBSET Pair
    BY <1>1, <2>1, Zenon
  <2>3. lost' = lost
    BY <1>7, Zenon DEF RetireAddrs, PassStep, RecordOwnership
  <2>4. p \in addrs /\ p \notin lost /\ (p \in db.stale => p \in kept)
    BY <2>1, <2>3, Zenon DEF Live
  <2>5. ASSUME NEW w \in WriteOwnership(db, db.own, kept), db' = w.v
        PROVE  /\ db'.surv = db.surv /\ db'.links = db.links /\ db'.own = db.own
               /\ db'.stale = db.stale \/ kept \subseteq db'.stale
    <3>1. db'.own = db.own
      BY <1>1, <2>5, RewriteKeepsClaim, Zenon
    <3>2. /\ db'.surv = db.surv /\ db'.links = db.links
          /\ db'.stale = db.stale \/ kept \subseteq db'.stale
      BY <1>1, <2>2, <2>5, OwnershipWritten
    <3> QED BY <3>1, <3>2, Zenon
  <2> QED BY <2>1, <2>4, <2>5, Zenon DEF Kept, Held, Live
<1>8. CASE ClearAddrs
  <2> DEFINE held == db.stale \cup Pairs(db.own)
  <2>1. PICK v \in {db.pd, None} :
            \/ \E kept \in SUBSET held : \E o \in WriteOwnership([db EXCEPT !.pd = v], Blank, kept) :
                 addrs' = addrs \ (held \ kept) /\ db' = o.v
            \/ addrs' = addrs /\ db' = [db EXCEPT !.pd = v]
    <3>1. \A w \in ForgetPrefix : w.v \in {db.pd, None}
      BY Zenon DEF ForgetPrefix, WriteScalar
    <3> QED BY <1>8, <3>1, Zenon DEF ClearAddrs
  <2>2. PICK d : d = [db EXCEPT !.pd = v]
    BY Zenon
  <2>3. v \in Addr \cup {None}
    BY <1>1, <2>1, Zenon DEF Records
  <2>4. d \in Records
    BY <1>1, <2>2, <2>3, RecordsUpdate, Zenon
  <2>5. d.own = db.own /\ d.stale = db.stale /\ d.surv = db.surv /\ d.links = db.links
    BY <1>1, <2>2, Zenon DEF Records
  <2>6. held \in SUBSET Pair /\ Blank \in Owner
    BY <1>1, PairsType, Zenon DEF Blank, Owner
  <2>7. lost' = lost
    BY <1>8, Zenon DEF ClearAddrs, PassStep, RecordOwnership
  <2>8. CASE addrs' = addrs /\ db' = d
    BY <2>5, <2>7, <2>8, Zenon DEF Live, Kept, Held
  <2>9. ASSUME NEW kept \in SUBSET held, NEW o \in WriteOwnership(d, Blank, kept),
               addrs' = addrs \ (held \ kept), db' = o.v
        PROVE  Kept(p, db') \/ (p \in Live /\ ~Kept(p, db))
    <3>1. kept \in SUBSET Pair
      BY <2>6, <2>9, Zenon
    <3>2. /\ db'.surv = db.surv /\ db'.links = db.links
          /\ \/ db'.own = db.own /\ (db'.stale = db.stale \/ kept \subseteq db'.stale)
             \/ db'.stale = kept
      BY <2>4, <2>5, <2>6, <2>9, <3>1, OwnershipWritten
    <3>3. p \in addrs /\ p \notin lost /\ (p \in held => p \in kept)
      BY <2>7, <2>9, Zenon DEF Live
    <3> QED BY <3>2, <3>3, Zenon DEF Kept, Held, Live
  <2> QED BY <2>1, <2>2, <2>8, <2>9, Zenon
<1> QED BY <1>2, <1>3, <1>4, <1>5, <1>6, <1>7, <1>8, Zenon DEF PassStep

-----------------------------------------------------------------------------
(* Every address is named, before and after a transaction goes back        *)

\* What only the undo in progress knows of: an automatic prefix that the request's pass was read
\* back as claiming, on the interface its candidate names.
ByUndo(p) == flow = "recover" /\ cand # None /\ db.pend = cand /\ p[1] = cand.iface /\ p \in Pairs(inst)

Named == \A p \in Live : Kept(p, db) \/ p \in Pairs(db.pend) \/ ByUndo(p)

\* What is named only by the claim of the open transaction, on the interface its candidate names.
ByClaim(p) == cand # None /\ txn.pend = cand /\ p[1] = cand.iface /\ p \in Pairs(db.own)

Returns == txn # None => \A p \in Live : Kept(p, txn) \/ p \in Pairs(txn.pend) \/ ByClaim(p)

\* Until a restore arms its candidate, the pending record names nothing by itself.
Preflight ==
    pc \in {"render", "guard", "arm", "settle"} /\ cand # None => \A p \in Live : Kept(p, db)

\* What the undo was for is on record, or gone, before the candidate is cleared.
Undone ==
    pc = "clear" /\ cand # None => \A p \in Live : p \in Pairs(cand) \/ ByUndo(p) => Kept(p, db)

NInv == Asked /\ Pended /\ OnLinks /\ Columns /\ Named /\ Returns /\ Preflight /\ Undone

SameNames ==
    db'.own = db.own /\ db'.stale = db.stale /\ db'.surv = db.surv /\ db'.links = db.links

LEMMA NamesStay ==
    ASSUME Named, Returns, addrs' \subseteq addrs, lost \subseteq lost', SameNames, db'.pend = db.pend,
           UNCHANGED <<txn, cand>>, UNCHANGED <<flow, inst>> \/ flow # "recover"
    PROVE  Named' /\ Returns'
<1>1. Live' \subseteq Live
  BY Zenon DEF Live
<1>2. \A p : Kept(p, db) = Kept(p, db')
  BY Zenon DEF Kept, Held, SameNames
<1>3. \A p : ByUndo(p) => ByUndo(p)'
  BY Zenon DEF ByUndo
<1>4. \A p : ByClaim(p) => ByClaim(p)'
  BY Zenon DEF ByClaim, SameNames
<1>5. Named'
  BY <1>1, <1>2, <1>3, Zenon DEF Named
<1>6. \A p : Kept(p, txn)' = Kept(p, txn)
  BY Zenon DEF Kept, Held
<1> QED BY <1>1, <1>4, <1>5, <1>6, Zenon DEF Returns

\* Only the installation puts an address on the host that was not there, and only the plan's.
LEMMA PassShrinks ==
    ASSUME SInv, PassStep
    PROVE  /\ lost \subseteq lost'
           /\ addrs' \subseteq addrs \/ (InstallAddrs /\ addrs' \subseteq addrs \cup Pairs(plan))
<1>1. lost \subseteq lost'
  BY Zenon DEF PassStep, RecordOwnership
<1>2. CASE InstallAddrs
  <2>1. plan \in Drawn
    BY <1>2, Zenon DEF InstallAddrs, SInv, LocalType
  <2>2. plan.a4 # None
    BY <2>1, DrawnPairs, ConstantsAssumption, Zenon DEF ConstantsAssumption
  <2>3. <<plan.iface, plan.a4>> \in Pairs(plan)
    BY <2>1, <2>2, DrawnPairs, Zenon
  <2> QED BY <1>1, <1>2, <2>3, Zenon DEF InstallAddrs
<1>3. CASE RetireSuperseded \/ ClearLinks
  BY <1>1, <1>3, Zenon DEF RetireSuperseded, ClearLinks, RetireLinks, Without
<1>4. CASE RetireAddrs \/ ClearAddrs
  BY <1>1, <1>4, Zenon DEF RetireAddrs, ClearAddrs
<1>5. CASE Drain \/ ReadPlan \/ RecordLink \/ AddLink \/ Stage \/ RecordOwnership \/ TakeFromNM \/ Activate
           \/ ServeDhcp \/ Narrow \/ FollowPrefix
  BY <1>1, <1>5, Zenon DEF Drain, ReadPlan, RecordLink, AddLink, Stage, RecordOwnership, TakeFromNM, Activate,
       ServeDhcp, Narrow, FollowPrefix, host
<1> QED BY <1>2, <1>3, <1>4, <1>5, Zenon DEF PassStep

LEMMA NamesPass ==
    ASSUME SInv, NInv, Pass
    PROVE  Named' /\ Returns'
<1>1. PassStep /\ UNCHANGED <<flow, txn, cand, inst>> /\ OnLinks /\ Columns
  BY PassLane, Zenon DEF Pass, caller, NInv
<1>2. db'.pend = db.pend
  BY <1>1, PassKeeps, Zenon
<1>3. ASSUME NEW p \in Live' PROVE Kept(p, db') \/ (p \in Live /\ ~Kept(p, db))
  BY <1>1, <1>3, PassKept, Zenon
<1>4. Named'
  BY <1>1, <1>2, <1>3, Zenon DEF NInv, Named, ByUndo
<1>5. ASSUME txn # None, NEW p \in Live' PROVE Kept(p, txn) \/ p \in Pairs(txn.pend) \/ ByClaim(p)'
  <2>1. CASE p \in Live /\ ~ByClaim(p)
    BY <1>5, <2>1, Zenon DEF NInv, Returns
  <2>2. CASE p \in Live /\ ByClaim(p) /\ pc \notin {"own", "off"}
    BY <1>1, <2>2, PassKeeps, Zenon DEF ByClaim
  <2>3. CASE ByClaim(p) /\ pc = "own"
    BY <1>5, <2>3, Zenon DEF ByClaim, NInv, Asked, Early, Kept, Held
  <2>4. CASE ByClaim(p) /\ pc = "off"
    BY <1>5, <2>4, Zenon DEF ByClaim, NInv, Asked
  <2>5. CASE p \notin Live
    <3>1. InstallAddrs
      BY <1>1, <1>5, <2>5, PassShrinks, Zenon DEF Live
    <3>2. pc = "addr" /\ db.own = plan /\ db' = db /\ plan \in Drawn
      BY <3>1, Zenon DEF InstallAddrs, SInv, Achieved, LocalType
    <3>3. cand # None /\ Fits(plan)
      BY <1>5, <3>2, Zenon DEF NInv, Asked, Mid
    <3>4. txn.pend = cand
      BY <1>5, <3>3, Zenon DEF NInv, Pended
    <3>5. p \in Pairs(plan)
      BY <1>1, <1>5, <2>5, <3>1, PassShrinks, Zenon DEF Live
    <3>6. p[1] = cand.iface
      BY <3>2, <3>3, <3>5, DrawnPairs DEF Fits
    <3> QED BY <1>1, <3>2, <3>3, <3>4, <3>5, <3>6, Zenon DEF ByClaim
  <2> QED BY <2>1, <2>2, <2>3, <2>4, <2>5, Zenon
<1>6. \A p : Kept(p, txn)' = Kept(p, txn)
  BY <1>1, Zenon DEF Kept, Held
<1> QED BY <1>1, <1>4, <1>5, <1>6, Zenon DEF Returns

\* The steps that leave the host's addresses and every record of them as they are.
LEMMA NamesAside ==
    ASSUME SInv, SInv', NInv,
           \/ HandBack \/ SyncAndCommit \/ Resync \/ RenderGuard \/ InstallGuard \/ BootGuard \/ Fallback
           \/ RecordLease \/ PrefixChanged \/ SyncAtIdle \/ UNCHANGED vars
           \/ (\E p \in Prefix \cup {None} : PollPrefix(p)) \/ (\E i \in Iface : OperatorCleans(i))
    PROVE  Named' /\ Returns' /\ Preflight' /\ Undone'
<1>1. addrs' \subseteq addrs
  BY Zenon DEF HandBack, SyncAndCommit, Resync, RenderGuard, InstallGuard, BootGuard, Fallback, RecordLease,
       PrefixChanged, SyncAtIdle, vars, PollPrefix, OperatorCleans, Without, host
<1>2. UNCHANGED <<lost, txn, cand>>
  BY Zenon DEF HandBack, SyncAndCommit, Resync, RenderGuard, InstallGuard, BootGuard, Fallback, RecordLease,
       PrefixChanged, SyncAtIdle, vars, PollPrefix, OperatorCleans, caller
<1>3. SameNames /\ db'.pend = db.pend
  <2>1. db' = db \/ \E v : db' = [db EXCEPT !.pd = v]
    BY Zenon DEF HandBack, SyncAndCommit, Resync, RenderGuard, InstallGuard, BootGuard, Fallback, RecordLease,
         PrefixChanged, SyncAtIdle, vars, PollPrefix, OperatorCleans
  <2>2. db \in Records
    BY Zenon DEF SInv, RecordType
  <2> QED BY <2>1, <2>2, Zenon DEF SameNames, Records
<1>4. UNCHANGED <<flow, inst>> \/ flow # "recover"
  <2>1. UNCHANGED <<flow, inst>> \/ (HandBack /\ flow \in {"put", "restore"}) \/ pc \in {"boot", "idle"}
    BY Zenon DEF HandBack, ReadBack, SyncAndCommit, Resync, RenderGuard, InstallGuard, BootGuard, Fallback, RecordLease,
         PrefixChanged, SyncAtIdle, vars, PollPrefix, OperatorCleans, caller
  <2> QED BY <2>1, Zenon DEF SInv, Lanes
<1>5. Named' /\ Returns'
  BY <1>1, <1>2, <1>3, <1>4, NamesStay, Zenon DEF NInv
<1>6. pc' \in {"render", "guard", "arm", "settle", "clear"} => pc \in {"render", "guard", "arm", "settle", "clear"}
  BY Zenon DEF HandBack, SyncAndCommit, Resync, RenderGuard, InstallGuard, BootGuard, Fallback, RecordLease,
       PrefixChanged, SyncAtIdle, vars, PollPrefix, OperatorCleans
<1>7. pc' = "clear" => pc = "clear" /\ UNCHANGED <<flow, inst>>
  BY Zenon DEF HandBack, SyncAndCommit, Resync, RenderGuard, InstallGuard, BootGuard, Fallback, RecordLease,
       PrefixChanged, SyncAtIdle, vars, PollPrefix, OperatorCleans, caller
<1>8. pc' \in {"render", "guard", "arm", "settle"} => pc # "clear"
  BY Zenon DEF HandBack, SyncAndCommit, Resync, RenderGuard, InstallGuard, BootGuard, Fallback, RecordLease,
       PrefixChanged, SyncAtIdle, vars, PollPrefix, OperatorCleans
<1>9. Live' \subseteq Live /\ \A p : Kept(p, db) = Kept(p, db')
  BY <1>1, <1>2, <1>3, Zenon DEF Live, Kept, Held, SameNames
<1>10. Preflight'
  BY <1>2, <1>6, <1>8, <1>9, Zenon DEF NInv, Preflight
<1>11. Undone'
  BY <1>2, <1>3, <1>7, <1>9, Zenon DEF NInv, Undone, ByUndo
<1> QED BY <1>5, <1>10, <1>11, Zenon

\* record_provision_candidate: the addresses that only the overwritten record named are excepted.
LEMMA NamesRecord ==
    ASSUME db \in Records, Named, NEW c \in Candidate \cup {None}, NEW good \in BOOLEAN,
           RecordCandidate(c, good), addrs' = addrs, flow # "recover"
    PROVE  /\ \A p \in Live' : p \in Live /\ (Kept(p, db') \/ p \in Pairs(db'.pend))
           /\ \A p : Kept(p, db) = Kept(p, db')
<1>1. SameNames
  BY RecordedCandidate, Zenon DEF SameNames
<1>2. \A p : Kept(p, db) = Kept(p, db')
  BY <1>1, Zenon DEF Kept, Held, SameNames
<1>3. lost' = IF db.pend # None /\ db'.pend # db.pend /\ Pairs(db.pend) # {}
              THEN lost \cup {p \in addrs : p[1] = db.pend.iface} ELSE lost
  BY Zenon DEF RecordCandidate
<1>4. ASSUME NEW p \in Live' PROVE p \in Live /\ (Kept(p, db') \/ p \in Pairs(db'.pend))
  <2>1. p \in Live
    BY <1>3, <1>4, Zenon DEF Live
  <2>2. Kept(p, db) \/ p \in Pairs(db.pend)
    BY <2>1, Zenon DEF Named, ByUndo
  <2>3. CASE p \in Pairs(db.pend) /\ db'.pend # db.pend
    <3>1. db.pend # None /\ Pairs(db.pend) # {}
      BY <2>3, Zenon DEF Pairs
    <3>2. p[1] = db.pend.iface
      BY <2>3 DEF Pairs
    <3> QED BY <1>3, <1>4, <2>1, <2>3, <3>1, <3>2, Zenon DEF Live
  <2> QED BY <1>2, <2>1, <2>2, <2>3, Zenon
<1> QED BY <1>2, <1>4, Zenon

\* Begin, Commit and Rollback: what is named in the open transaction is named by what it goes back
\* to, with the candidate that was recorded before it.
LEMMA NamesTransaction ==
    ASSUME SInv, SInv', NInv, Begin \/ Commit \/ Rollback
    PROVE  Named' /\ Returns' /\ Preflight' /\ Undone'
<1>1. db \in Records
  BY Zenon DEF SInv, RecordType
<1>2. Preflight'
  BY Zenon DEF Begin, Commit, Rollback, Preflight
<1>3. CASE Begin
  <2>1. /\ pc = "begin" /\ pc' # "clear" /\ txn' = db /\ UNCHANGED <<addrs, lost, cand, flow, inst>>
        /\ db' = [db EXCEPT !.cfg = want.cfg, !.manage = want.manage]
    BY <1>3, Zenon DEF Begin, host, caller
  <2>2. flow # "recover"
    BY <2>1, Zenon DEF SInv, Lanes, Change
  <2>3. db'.own = db.own /\ db'.stale = db.stale /\ db'.surv = db.surv /\ db'.links = db.links /\ db'.pend = db.pend
    BY <1>1, <2>1, Zenon DEF Records
  <2>4. \A p \in Live : Kept(p, db) \/ p \in Pairs(db.pend)
    BY <2>2, Zenon DEF NInv, Named, ByUndo
  <2>5. Live' = Live /\ \A p : Kept(p, db)' = Kept(p, db) /\ Kept(p, txn)' = Kept(p, db)
    BY <2>1, <2>3, Zenon DEF Live, Kept, Held
  <2>6. Named' /\ Returns'
    BY <2>1, <2>3, <2>4, <2>5, Zenon DEF Named, Returns
  <2> QED BY <1>2, <2>1, <2>6, Zenon DEF Undone
<1>4. CASE Commit
  <2>1. /\ pc = "commit" /\ pc' \in {"clear", "rollback"} /\ UNCHANGED <<addrs, lost, cand, flow, inst, db>>
        /\ txn' = None \/ (txn' = txn /\ pc' # "clear")
    BY <1>4, Zenon DEF Commit, host, caller
  <2>2. Live' = Live /\ (\A p : Kept(p, db)' = Kept(p, db)) /\ (\A p : ByUndo(p)' = ByUndo(p))
    BY <2>1, Zenon DEF Live, Kept, Held, ByUndo
  <2>3. Named'
    BY <2>1, <2>2, Zenon DEF NInv, Named
  <2>4. txn' = txn => Returns'
    BY <2>1, <2>2, Zenon DEF NInv, Returns, ByClaim, Kept, Held
  <2>5. Returns'
    BY <2>1, <2>4, Zenon DEF Returns
  <2>6. flow # "recover" /\ (cand # None => Fits(db.own))
    BY <2>1, Zenon DEF SInv, Lanes, Change, NInv, Asked, Ending
  <2>7. Undone'
    BY <2>1, <2>2, <2>6, Zenon DEF Undone, Fits, Kept, Held, ByUndo
  <2> QED BY <1>2, <2>3, <2>5, <2>7, Zenon
<1>5. CASE Rollback
  <2>1. /\ pc = "rollback" /\ pc' = "drain" /\ db' = txn /\ txn' = None /\ flow' = "recover"
        /\ lost' = lost \cup Unnamed(txn, Pairs(db.own) \ Pairs(inst))
        /\ UNCHANGED <<addrs, cand, inst>>
    BY <1>5, Zenon DEF Rollback, host
  <2>2. txn # None
    BY <2>1, Zenon DEF SInv, Lanes, Open
  <2>3. ASSUME NEW p \in Live' PROVE (Kept(p, db) \/ p \in Pairs(db.pend) \/ ByUndo(p))'
    <3>1. p \in Live /\ p \in addrs /\ p \notin Unnamed(txn, Pairs(db.own) \ Pairs(inst))
      BY <2>1, <2>3, Zenon DEF Live
    <3>2. CASE Kept(p, txn) \/ p \in Pairs(txn.pend)
      BY <2>1, <3>2, Zenon DEF Kept, Held
    <3>3. CASE ByClaim(p) /\ p \in Pairs(inst)
      BY <2>1, <3>3, Zenon DEF ByClaim, ByUndo
    <3>4. CASE ByClaim(p) /\ p \notin Pairs(inst)
      <4>1. p \in Pairs(cand) \cup Pairs(txn.own) \cup txn.stale \cup txn.surv
        BY <3>1, <3>4, Zenon DEF Unnamed, ByClaim
      <4>2. txn.pend = cand
        BY <3>4, Zenon DEF ByClaim
      <4> QED BY <3>2, <4>1, <4>2, Zenon DEF Kept, Held
    <3> QED BY <2>2, <3>1, <3>2, <3>3, <3>4, Zenon DEF NInv, Returns
  <2>4. Named'
    BY <2>3, Zenon DEF Named
  <2> QED BY <1>2, <2>1, <2>4, Zenon DEF Returns, Undone
<1> QED BY <1>3, <1>4, <1>5, Zenon

\* undo_provision_candidate: what it was for is in the ledger or gone before it counts as done, and
\* nothing leaves the ledger but with its link.
LEMMA NamesUndo ==
    ASSUME SInv, SInv', NInv, Undo
    PROVE  Named' /\ Returns' /\ Preflight' /\ Undone'
<1>1. db \in Records
  BY Zenon DEF SInv, RecordType
<1>2. pc = "undo" /\ pc' \in {"clear", "drain", "resync"} /\ UNCHANGED <<lost, txn, cand, flow, inst>>
  BY Zenon DEF Undo, Settled, caller
<1>3. flow \notin Change /\ (cand # None => db.pend = cand)
  BY <1>2, Zenon DEF NInv, Asked, Pended, Change
<1>4. txn = None
  BY <1>3, Zenon DEF SInv, Lanes
<1>5. Preflight' /\ Returns'
  BY <1>2, <1>4, Zenon DEF Preflight, Returns
<1>6. CASE UNCHANGED <<addrs, db>> /\ Settled(FALSE)
  <2>1. pc' # "clear"
    BY <1>6, Zenon DEF Settled
  <2>2. Named'
    BY <1>2, <1>4, <1>6, NamesStay, Zenon DEF NInv, SameNames
  <2> QED BY <1>5, <2>1, <2>2, Zenon DEF Undone
<1>7. CASE /\ cand # None /\ Without({cand.iface})
           /\ \E w \in ForgetOn(cand.iface) : db' = [db EXCEPT !.surv = w.v]
  <2>1. PICK w \in ForgetOn(cand.iface) : db' = [db EXCEPT !.surv = w.v]
    BY <1>7, Zenon
  <2>2. {p \in db.surv : p[1] # cand.iface} \subseteq w.v
    BY <2>1, Zenon DEF ForgetOn, WriteSet
  <2>3. /\ db'.surv = w.v /\ db'.own = db.own /\ db'.stale = db.stale /\ db'.links = db.links
        /\ db'.pend = db.pend
    BY <1>1, <2>1, Zenon DEF Records
  <2>4. \A p \in addrs' : p \in addrs /\ p[1] # cand.iface
    BY <1>7, Zenon DEF Without
  <2>5. \A p \in Live' : p \in Live /\ p[1] # cand.iface /\ (Kept(p, db) => Kept(p, db'))
    BY <1>2, <2>2, <2>3, <2>4, Zenon DEF Live, Kept, Held
  <2>6. Named'
    BY <1>2, <2>3, <2>5, Zenon DEF NInv, Named, ByUndo
  <2>7. \A p \in Pairs(cand) : p[1] = cand.iface
    BY DEF Pairs
  <2>8. Undone'
    BY <1>2, <2>5, <2>7, Zenon DEF Undone, ByUndo
  <2> QED BY <1>5, <2>6, <2>8, Zenon
<1>8. CASE /\ cand # None /\ addrs' = addrs
           /\ \E left \in BOOLEAN, w \in Remember(Orphans) :
                db' = [db EXCEPT !.surv = w.v] /\ Settled(w.ok /\ ~left)
  <2>1. PICK left \in BOOLEAN, w \in Remember(Orphans) :
            db' = [db EXCEPT !.surv = w.v] /\ Settled(w.ok /\ ~left)
    BY <1>8, Zenon
  <2>2. db.surv \subseteq w.v /\ (w.ok => Orphans \subseteq w.v)
    BY <2>1, Zenon DEF Remember, WriteSet
  <2>3. /\ db'.surv = w.v /\ db'.own = db.own /\ db'.stale = db.stale /\ db'.links = db.links
        /\ db'.pend = db.pend
    BY <1>1, <2>1, Zenon DEF Records
  <2>4. \A p \in Live' : p \in Live /\ (Kept(p, db) => Kept(p, db'))
    BY <1>2, <1>8, <2>2, <2>3, Zenon DEF Live, Kept, Held
  <2>5. Named'
    BY <1>2, <2>3, <2>4, Zenon DEF NInv, Named, ByUndo
  <2>6. ASSUME pc' = "clear", NEW p \in Live', p \in Pairs(cand) \/ ByUndo(p)' PROVE Kept(p, db')
    <3>1. w.ok
      BY <2>1, <2>6, Zenon DEF Settled
    <3>2. p \in Pairs(cand) \cup Pairs(inst)
      BY <1>2, <2>6, Zenon DEF ByUndo
    <3> QED BY <2>2, <2>3, <3>1, <3>2, Zenon DEF Orphans, Kept, Held
  <2>7. Undone'
    BY <1>2, <2>6, Zenon DEF Undone
  <2> QED BY <1>5, <2>5, <2>7, Zenon
<1> QED BY <1>6, <1>7, <1>8, Zenon DEF Undo

\* clear_provision_candidate: the record goes once it is the only name of nothing.
LEMMA NamesClear ==
    ASSUME SInv, SInv', NInv, Clear \/ SettlePreflight
    PROVE  Named' /\ Returns' /\ Preflight' /\ Undone'
<1>1. db \in Records
  BY Zenon DEF SInv, RecordType
<1>2. /\ pc \in {"clear", "settle"} /\ pc' \in {"drain", "resync", "done"}
      /\ UNCHANGED <<addrs, lost, txn, cand, flow, inst>>
      /\ db' = db \/ (cand # None /\ \E good \in BOOLEAN : ClearCandidate(good))
  BY Zenon DEF Clear, SettlePreflight, host, caller
<1>3. Preflight' /\ Undone'
  BY <1>2, Zenon DEF Preflight, Undone
<1>4. pc \notin Open
  BY <1>2, Zenon DEF Open
<1>5. txn = None
  BY <1>4, Zenon DEF SInv, Lanes
<1>6. Returns'
  BY <1>2, <1>5, Zenon DEF Returns
<1>7. CASE db' = db
  BY <1>2, <1>3, <1>7, NamesStay, Zenon DEF NInv, SameNames
<1>8. CASE cand # None /\ \E good \in BOOLEAN : ClearCandidate(good)
  <2>1. \E v \in {db.pend, None} : db' = [db EXCEPT !.pend = v]
    BY <1>8, Zenon DEF ClearCandidate, WriteScalar
  <2>2. SameNames /\ db'.pend \in {db.pend, None}
    BY <1>1, <2>1, Zenon DEF Records, SameNames
  <2>3. ASSUME NEW p \in Live PROVE Kept(p, db)
    <3>1. CASE pc = "settle"
      BY <1>8, <2>3, <3>1, Zenon DEF NInv, Preflight
    <3>2. CASE pc = "clear"
      <4>1. db.pend = cand
        BY <1>8, <3>2, Zenon DEF NInv, Pended
      <4> QED BY <1>8, <2>3, <3>2, <4>1, Zenon DEF NInv, Named, Undone
    <3> QED BY <1>2, <3>1, <3>2, Zenon
  <2>4. Live' = Live /\ \A p : Kept(p, db)' = Kept(p, db)
    BY <1>2, <2>2, Zenon DEF Live, Kept, Held, SameNames
  <2>5. Named'
    BY <2>3, <2>4, Zenon DEF Named
  <2> QED BY <1>3, <1>6, <2>5, Zenon
<1> QED BY <1>2, <1>7, <1>8, Zenon

\* The answer, and the death of the panel: what only memory knew of is excepted.
LEMMA NamesForgotten ==
    ASSUME SInv, SInv', NInv, Finish \/ Crash \/ Reboot
    PROVE  Named' /\ Returns' /\ Preflight' /\ Undone'
<1>1. pc' \in {"idle", "boot"} /\ addrs' \subseteq addrs
  BY Zenon DEF Finish, Crash, Reboot, Restarted, host
<1>2. Preflight' /\ Undone'
  BY <1>1, Zenon DEF Preflight, Undone
<1>3. pc' \notin Open
  BY <1>1, Zenon DEF Open
<1>4. txn' = None
  BY <1>3, Zenon DEF SInv, Lanes
<1>5. Returns'
  BY <1>4, Zenon DEF Returns
<1>6. /\ db' = IF txn = None THEN db ELSE txn
      /\ \/ lost' = lost \cup Unnamed(db', Pairs(inst)) /\ txn = None
         \/ lost' = lost \cup Unnamed(db', Pairs(db.own) \cup Pairs(inst))
  <2>1. CASE Finish
    <3>1. pc \notin Open
      BY <2>1, Zenon DEF Open, Finish
    <3>2. txn = None
      BY <3>1, Zenon DEF SInv, Lanes
    <3> QED BY <2>1, <3>2, Zenon DEF Finish
  <2> QED BY <2>1, Zenon DEF Crash, Reboot, Restarted
<1>7. ASSUME NEW p \in Live' PROVE Kept(p, db') \/ p \in Pairs(db'.pend)
  <2>1. /\ p \in Live /\ p \in addrs
        /\ p \in Pairs(inst) \/ (txn # None /\ p \in Pairs(db.own)) =>
             p \in Pairs(cand) \cup Pairs(db'.own) \cup db'.stale \cup db'.surv
    BY <1>1, <1>6, <1>7, Zenon DEF Live, Unnamed
  <2>2. p \in Pairs(inst) \/ (txn # None /\ p \in Pairs(db.own)) => p \in Pairs(cand) \/ Kept(p, db')
    BY <2>1, Zenon DEF Kept, Held
  <2>3. CASE txn = None
    BY <1>6, <2>1, <2>2, <2>3, Zenon DEF NInv, Named, ByUndo
  <2>4. CASE txn # None
    BY <1>6, <2>1, <2>2, <2>4, Zenon DEF NInv, Returns, ByClaim
  <2> QED BY <2>3, <2>4, Zenon
<1>8. Named'
  BY <1>7, Zenon DEF Named
<1> QED BY <1>2, <1>5, <1>8, Zenon

LEMMA NamesCandidate ==
    ASSUME SInv, SInv', NInv,
           \/ ArmCandidate \/ ResumeUndo
           \/ \E seg \in Seg : PutNetwork(seg)
           \/ \E seg \in Seg, manage \in BOOLEAN : RestoreBackup(seg, manage)
    PROVE  Named' /\ Returns' /\ Preflight' /\ Undone'
<1>1. db \in Records /\ cand \in Candidate \cup {None} /\ cand' \in Candidate \cup {None}
  BY Zenon DEF SInv, RecordType, CallerType
<1>2. /\ pc \in {"arm", "resume", "idle"} /\ pc' \notin {"clear", "guard", "arm"} /\ UNCHANGED <<addrs, inst, txn>>
  BY Zenon DEF ArmCandidate, ResumeUndo, PutNetwork, RestoreBackup, Request, host
<1>3. pc \notin Open /\ flow # "recover"
  BY <1>2, Zenon DEF SInv, Lanes, Open
<1>4. txn = None
  BY <1>3, Zenon DEF SInv, Lanes
<1>5. Returns' /\ Undone'
  BY <1>2, <1>4, Zenon DEF Returns, Undone
<1>6. CASE ResumeUndo
  <2>1. /\ UNCHANGED <<db, lost, flow>> /\ pc' \in {"drain", "undo"}
    BY <1>6, Zenon DEF ResumeUndo
  <2>2. Live' = Live /\ \A p : Kept(p, db)' = Kept(p, db)
    BY <1>2, <2>1, Zenon DEF Live, Kept, Held
  <2>3. Named'
    BY <1>3, <2>1, <2>2, Zenon DEF NInv, Named, ByUndo
  <2> QED BY <1>5, <2>1, <2>3, Zenon DEF Preflight
<1>7. ASSUME NEW c \in Candidate \cup {None}, NEW good \in BOOLEAN, RecordCandidate(c, good)
      PROVE  /\ Named' /\ (\A p \in Live' : p \in Live) /\ (\A p : Kept(p, db)' = Kept(p, db))
             /\ good /\ c # None /\ Pairs(c) = {} => \A p \in Live' : Kept(p, db')
  <2>1. /\ \A p \in Live' : p \in Live /\ (Kept(p, db') \/ p \in Pairs(db'.pend))
        /\ \A p : Kept(p, db) = Kept(p, db')
    BY <1>1, <1>2, <1>3, <1>7, NamesRecord, Zenon DEF NInv
  <2>2. Named'
    BY <2>1, Zenon DEF Named
  <2>3. good /\ c # None => db'.pend = c
    BY <1>1, <1>7, RecordedCandidate, Zenon
  <2> QED BY <2>1, <2>2, <2>3, Zenon DEF Kept, Held
<1>8. CASE ArmCandidate
  <2>1. PICK good \in BOOLEAN : RecordCandidate(cand, good)
    BY <1>8, Zenon DEF ArmCandidate
  <2>2. pc = "arm" /\ cand' = cand
    BY <1>8, Zenon DEF ArmCandidate
  <2>3. Named' /\ (\A p \in Live' : p \in Live) /\ (\A p : Kept(p, db)' = Kept(p, db))
    BY <1>1, <1>7, <2>1, Zenon
  <2>4. Preflight'
    BY <2>2, <2>3, Zenon DEF NInv, Preflight
  <2> QED BY <1>5, <2>3, <2>4, Zenon
<1>9. ASSUME NEW seg \in Seg, PutNetwork(seg) PROVE Named' /\ Preflight'
  <2>1. PICK good \in BOOLEAN : RecordCandidate(cand', good) /\ pc' = IF good THEN "begin" ELSE "done"
    BY <1>9, Zenon DEF PutNetwork
  <2>2. Named'
    BY <1>1, <1>7, <2>1, Zenon
  <2> QED BY <2>1, <2>2, Zenon DEF Preflight
<1>10. ASSUME NEW seg \in Seg, NEW manage \in BOOLEAN, RestoreBackup(seg, manage) PROVE Named' /\ Preflight'
  <2>1. PICK good \in BOOLEAN : RecordCandidate(Unarmed(cand'), good) /\ pc' = IF good THEN "render" ELSE "done"
    BY <1>10, Zenon DEF RestoreBackup
  <2>2. Unarmed(cand') \in Candidate \cup {None}
    BY <1>1, UnarmedType, Zenon
  <2>3. Named' /\ (good /\ Unarmed(cand') # None /\ Pairs(Unarmed(cand')) = {} => \A p \in Live' : Kept(p, db'))
    BY <1>7, <2>1, <2>2, Zenon
  <2>4. cand' # None => Unarmed(cand') # None /\ Pairs(Unarmed(cand')) = {}
    <3>1. ASSUME cand' # None
          PROVE  cand' \in Candidate /\ Unarmed(cand') = [cand' EXCEPT !.a4 = None, !.a6 = None, !.vlan = FALSE, !.prior = "unknown"]
      BY <1>1, <3>1, Zenon DEF Unarmed
    <3>2. ASSUME cand' # None
          PROVE  Unarmed(cand') \in Candidate /\ Unarmed(cand').a4 = None /\ Unarmed(cand').a6 = None
      BY <3>1, <3>2, Zenon DEF Candidate
    <3> QED BY <3>2, ConstantsAssumption DEF ConstantsAssumption, Pairs
  <2> QED BY <2>1, <2>3, <2>4, Zenon DEF Preflight, Kept, Held
<1> QED BY <1>5, <1>6, <1>8, <1>9, <1>10, Zenon

LEMMA NInvInit == Init => NInv
<1> SUFFICES ASSUME Init PROVE NInv
  OBVIOUS
<1>1. /\ addrs = {} /\ pc = "boot" /\ flow = "none" /\ txn = None /\ cand = None
      /\ plan = Blank /\ db.own = Blank /\ db.pd = None /\ ring = Off
  BY Zenon DEF Init, Quiet
<1>2. InColumns(Blank)
  BY Zenon DEF InColumns, Blank, Columns4, Columns6
<1>3. Columns
  BY <1>1, <1>2, Zenon DEF Columns
<1>4. OnLinks /\ Named /\ Returns /\ Preflight /\ Undone
  BY <1>1, Zenon DEF OnLinks, Named, Returns, Preflight, Undone, Live
<1>5. Asked /\ Pended
  BY AskedInit, Zenon
<1> QED BY <1>3, <1>4, <1>5, Zenon DEF NInv

LEMMA NInvStep ==
    ASSUME SInv, SInv', NInv, [Next]_vars
    PROVE  NInv'
<1>1. Asked' /\ Pended'
  BY AskedStep, Zenon DEF NInv
<1>2. OnLinks'
  BY OnLinksStep, Zenon DEF NInv
<1>3. Columns'
  BY ColumnsStep, Zenon DEF NInv
<1>4. CASE Pass
  <2>1. Named' /\ Returns'
    BY <1>4, NamesPass, Zenon
  <2>2. pc' \notin {"render", "guard", "arm", "settle", "clear"}
    BY <1>4, PassMoves, Zenon DEF Pass, Mid
  <2> QED BY <1>1, <1>2, <1>3, <2>1, <2>2, Zenon DEF NInv, Preflight, Undone
<1>5. CASE \/ HandBack \/ SyncAndCommit \/ Resync \/ RenderGuard \/ InstallGuard \/ BootGuard \/ Fallback
           \/ RecordLease \/ PrefixChanged \/ SyncAtIdle \/ UNCHANGED vars
           \/ (\E p \in Prefix \cup {None} : PollPrefix(p)) \/ (\E i \in Iface : OperatorCleans(i))
  BY <1>1, <1>2, <1>3, <1>5, NamesAside, Zenon DEF NInv
<1>6. CASE Begin \/ Commit \/ Rollback
  BY <1>1, <1>2, <1>3, <1>6, NamesTransaction, Zenon DEF NInv
<1>7. CASE Undo
  BY <1>1, <1>2, <1>3, <1>7, NamesUndo, Zenon DEF NInv
<1>8. CASE Clear \/ SettlePreflight
  BY <1>1, <1>2, <1>3, <1>8, NamesClear, Zenon DEF NInv
<1>9. CASE Finish \/ Crash \/ Reboot
  BY <1>1, <1>2, <1>3, <1>9, NamesForgotten, Zenon DEF NInv
<1>10. CASE \/ ArmCandidate \/ ResumeUndo
            \/ \E seg \in Seg : PutNetwork(seg)
            \/ \E seg \in Seg, manage \in BOOLEAN : RestoreBackup(seg, manage)
  BY <1>1, <1>2, <1>3, <1>10, NamesCandidate, Zenon DEF NInv
<1> QED BY <1>4, <1>5, <1>6, <1>7, <1>8, <1>9, <1>10, Zenon DEF Next, Step

LEMMA NInvHolds == Spec => [](SInv /\ NInv)
<1>1. Init => SInv /\ NInv
  BY SInvInit, NInvInit, Zenon
<1>2. SInv /\ NInv /\ [Next]_vars => SInv' /\ NInv'
  BY SInvStep, NInvStep, Zenon
<1> QED BY <1>1, <1>2, PTL DEF Spec

LEMMA KnownKept ==
    ASSUME NEW d \in Records, NEW p \in Pair, Kept(p, d)
    PROVE  p[1] \in Known(d)
<1>1. p[1] \in Iface /\ p[1] # None
  BY ConstantsAssumption, Zenon DEF Pair, ConstantsAssumption
<1>2. p \in Pairs(d.own) => p[1] = d.own.iface
  BY DEF Pairs
<1>3. p[1] \in {d.own.iface} \cup Ifaces(d.stale) \cup d.links \cup Ifaces(d.surv)
  BY <1>2, Zenon DEF Kept, Held, Ifaces
<1> QED BY <1>1, <1>3, Zenon DEF Known, Cover, Superseded

LEMMA KnownPending ==
    ASSUME NEW d \in Records, NEW p \in Pair, p[1] \in Pending(d)
    PROVE  p[1] \in Known(d)
<1>1. p[1] # None
  BY ConstantsAssumption, Zenon DEF Pair, ConstantsAssumption
<1> QED BY <1>1, Zenon DEF Known, Cover

LEMMA NamedIsKnown ==
    ASSUME SInv, NInv
    PROVE  RecordsKnow
<1>1. Live \subseteq Pair /\ db \in Records /\ (txn # None => txn \in Records)
  BY Zenon DEF Live, SInv, HostType, RecordType
<1>2. ASSUME NEW d, NEW p \in Pairs(d.pend) PROVE p[1] \in Pending(d)
  BY <1>2 DEF Pairs, Pending
<1>3. ASSUME NEW p \in Live PROVE p[1] \in Known(db)
  <2>1. CASE Kept(p, db)
    BY <1>1, <2>1, KnownKept, Zenon
  <2>2. CASE p[1] \in Pending(db)
    BY <1>1, <2>2, KnownPending, Zenon
  <2>3. ByUndo(p) => p[1] \in Pending(db)
    BY Zenon DEF ByUndo, Pending
  <2> QED BY <1>2, <2>1, <2>2, <2>3, Zenon DEF NInv, Named
<1>4. ASSUME txn # None, NEW p \in Live PROVE p[1] \in Known(txn)
  <2>1. CASE Kept(p, txn)
    BY <1>1, <1>4, <2>1, KnownKept, Zenon
  <2>2. CASE p[1] \in Pending(txn)
    BY <1>1, <1>4, <2>2, KnownPending, Zenon
  <2>3. ByClaim(p) => p[1] \in Pending(txn)
    BY Zenon DEF ByClaim, Pending
  <2> QED BY <1>2, <1>4, <2>1, <2>2, <2>3, Zenon DEF NInv, Returns
<1> QED BY <1>3, <1>4, Zenon DEF RecordsKnow, Ifaces, Live

\* host_provision, undo_provision_candidate, the two transactions and every crash between their
\* calls: whatever fails, and however many requests, restarts and prefix changes there were, an
\* interface with a segment address on it is named by a record, both in what a reader sees and in
\* what an open transaction would go back to.  `lost` holds the addresses whose record the code
\* itself drops.
THEOREM CarriersAreOnRecord == Spec => []RecordsKnow
BY NInvHolds, NamedIsKnown, PTL

-----------------------------------------------------------------------------
(* What is rendered names every interface that carries the segment         *)

\* The two renders whose interfaces are read some calls before they are installed.
Rendered ==
    /\ pc \in {"link", "add", "stage"} /\ cov # None => Ifaces(Live) \subseteq cov \cup {plan.iface}
    /\ pc = "guard" => Ifaces(Live) \subseteq names

LEMMA CoverIsEnough ==
    ASSUME RecordsKnow, NEW i
    PROVE  Ifaces(Live) \subseteq {i} \cup Cover(db, i)
BY Zenon DEF RecordsKnow, Known, Cover, Superseded, Live

LEMMA RenderedStep ==
    ASSUME SInv, NInv, Rendered, [Next]_vars
    PROVE  Rendered'
<1>1. RecordsKnow
  BY NamedIsKnown, Zenon
<1>2. CASE pc' \notin {"link", "add", "stage", "guard"}
  BY <1>2, Zenon DEF Rendered
<1>3. CASE UNCHANGED <<pc, cov, plan, names, addrs, lost>>
  BY <1>3, Zenon DEF Rendered, Live, Ifaces
<1>4. CASE Pass
  <2>1. Pass => PassStep /\ pc' # "guard"
    BY <1>4, PassMoves, Zenon DEF Pass, Mid
  <2>2. CASE ReadPlan
    <3>1. UNCHANGED <<addrs, lost>> /\ (cov' = Cover(db, plan'.iface) \/ cov' = None)
      BY <1>4, <2>2, Zenon DEF Pass, PassStep, ReadPlan, RecordOwnership
    <3>2. Ifaces(Live) \subseteq {plan'.iface} \cup Cover(db, plan'.iface)
      BY <1>1, CoverIsEnough, Zenon
    <3> QED BY <1>4, <2>1, <3>1, <3>2, Zenon DEF Rendered, Live, Ifaces
  <2>3. CASE RecordLink \/ AddLink
    <3>1. pc \in {"link", "add"} /\ UNCHANGED <<addrs, cov, plan>>
      BY <2>3, Zenon DEF RecordLink, AddLink, host
    <3>2. UNCHANGED lost
      BY <2>1, <1>4, <3>1, Zenon DEF PassStep, RecordOwnership
    <3> QED BY <1>4, <2>1, <3>1, <3>2, Zenon DEF Rendered, Live, Ifaces
  <2>4. CASE ~ReadPlan /\ ~RecordLink /\ ~AddLink
    <3>1. \/ Drain \/ Stage \/ RecordOwnership \/ InstallAddrs \/ RetireAddrs \/ TakeFromNM \/ Activate
          \/ ServeDhcp \/ RetireSuperseded \/ Narrow \/ FollowPrefix \/ ClearAddrs \/ ClearLinks
      BY <1>4, <2>1, <2>4, Zenon DEF PassStep
    <3>2. ASSUME Drain \/ Stage \/ RecordOwnership \/ InstallAddrs \/ RetireAddrs \/ TakeFromNM
          PROVE  pc' \notin {"link", "add", "stage"}
      BY <3>2, Zenon DEF Drain, Stage, RecordOwnership, InstallAddrs, RetireAddrs, TakeFromNM, GiveUp, NotApplied
    <3>3. ASSUME Activate \/ ServeDhcp \/ RetireSuperseded \/ Narrow \/ FollowPrefix \/ ClearAddrs \/ ClearLinks
          PROVE  pc' \notin {"link", "add", "stage"}
      BY <3>3, Zenon DEF Activate, ServeDhcp, RetireSuperseded, Narrow, FollowPrefix, ClearAddrs, ClearLinks, GiveUp,
           NotApplied
    <3> QED BY <1>2, <1>4, <2>1, <3>1, <3>2, <3>3, Zenon
  <2> QED BY <2>2, <2>3, <2>4, Zenon
<1>5. CASE RenderGuard
  <2>1. /\ pc' \in {"guard", "settle"} /\ UNCHANGED <<addrs, lost>>
        /\ pc' = "guard" => names' = {SegmentOf(db).iface} \cup Cover(db, SegmentOf(db).iface)
    BY <1>5, Zenon DEF RenderGuard, host
  <2>2. Ifaces(Live) \subseteq {SegmentOf(db).iface} \cup Cover(db, SegmentOf(db).iface)
    BY <1>1, CoverIsEnough, Zenon
  <2> QED BY <2>1, <2>2, Zenon DEF Rendered, Live, Ifaces
<1>6. CASE Step /\ ~Pass /\ ~RenderGuard
  BY <1>2, <1>6, Zenon DEF Step, Begin, HandBack, SyncAndCommit, Commit, Rollback, Undo, Settled, Clear, Resync, Finish,
       InstallGuard, ArmCandidate, SettlePreflight, BootGuard, Fallback, ResumeUndo, RecordLease
<1>7. CASE PrefixChanged \/ SyncAtIdle \/ Crash \/ Reboot \/ UNCHANGED vars
  BY <1>2, <1>3, <1>7, Zenon DEF PrefixChanged, SyncAtIdle, Crash, Reboot, Restarted, vars, host, locals, caller
<1>8. ASSUME NEW seg \in Seg, PutNetwork(seg) \/ \E manage \in BOOLEAN : RestoreBackup(seg, manage)
      PROVE  pc' \notin {"link", "add", "stage", "guard"}
  BY <1>8, Zenon DEF PutNetwork, RestoreBackup
<1>9. ASSUME NEW p \in Prefix \cup {None}, PollPrefix(p) PROVE UNCHANGED <<pc, cov, plan, names, addrs, lost>>
  BY <1>9, Zenon DEF PollPrefix, host, locals
<1>10. ASSUME NEW i \in Iface, OperatorCleans(i) PROVE pc' \notin {"link", "add", "stage", "guard"}
  BY <1>10, Zenon DEF OperatorCleans
<1> QED BY <1>2, <1>3, <1>4, <1>5, <1>6, <1>7, <1>8, <1>9, <1>10, Zenon DEF Next, Step

LEMMA RenderedHolds == Spec => [](SInv /\ NInv /\ Rendered)
<1>1. Init => Rendered
  BY Zenon DEF Init, Rendered
<1>2. SInv /\ NInv /\ Rendered /\ [Next]_vars => Rendered'
  BY RenderedStep, Zenon
<1> QED BY <1>1, <1>2, NInvHolds, PTL DEF Spec

\* Every replacement of the ruleset, with the interfaces it may name.
LEMMA RulesMove ==
    ASSUME SInv, [Next]_vars, rules' # rules
    PROVE  \/ addrs' = {}
           \/ /\ UNCHANGED <<addrs, lost>>
              /\ \/ rules' = {SegmentOf(db).iface} \cup Cover(db, SegmentOf(db).iface)
                 \/ pc = "stage" /\ cov # None /\ rules' = cov \cup {plan.iface}
                 \/ Cover(db, plan.iface) = {} /\ rules' = {plan.iface}
                 \/ pc = "guard" /\ rules' = names
<1>1. ASSUME NEW S, NEW good, Enforce(S, good) PROVE rules' = S
  BY <1>1, Zenon DEF Enforce
<1>2. ASSUME NEW good, SyncNet(good) PROVE rules' = {SegmentOf(db).iface} \cup Cover(db, SegmentOf(db).iface)
  BY <1>1, <1>2, Zenon DEF SyncNet
<1>3. CASE Pass
  <2>1. CASE Stage
    <3>1. UNCHANGED <<addrs, lost>> /\ pc = "stage" /\ cov # None /\ \E good \in BOOLEAN : Enforce(Staged, good)
      BY <1>3, <2>1, Zenon DEF Pass, PassStep, Stage, RecordOwnership
    <3> QED BY <1>1, <3>1, Zenon DEF Staged
  <2>2. CASE Narrow
    <3>1. UNCHANGED addrs /\ Cover(db, plan.iface) = {} /\ \E good \in BOOLEAN : Enforce({plan.iface}, good)
      BY <2>2, Zenon DEF Narrow, MayNarrow
    <3>2. pc = "narrow"
      BY <2>2, Zenon DEF Narrow
    <3>3. UNCHANGED lost
      BY <1>3, <3>2, Zenon DEF Pass, PassStep, RecordOwnership
    <3> QED BY <1>1, <3>1, <3>3, Zenon
  <2>3. CASE ~Stage /\ ~Narrow
    <3>1. \/ Drain \/ ReadPlan \/ RecordLink \/ AddLink \/ RecordOwnership \/ InstallAddrs \/ RetireAddrs
          \/ TakeFromNM \/ Activate \/ ServeDhcp \/ RetireSuperseded \/ FollowPrefix \/ ClearAddrs \/ ClearLinks
      BY <1>3, <2>3, Zenon DEF Pass, PassStep
    <3>2. ~(Drain \/ ReadPlan \/ RecordLink \/ AddLink \/ RecordOwnership \/ InstallAddrs \/ RetireAddrs)
      BY Zenon DEF Drain, ReadPlan, RecordLink, AddLink, RecordOwnership, InstallAddrs, RetireAddrs, host
    <3>3. ~(TakeFromNM \/ Activate \/ ServeDhcp \/ RetireSuperseded \/ FollowPrefix \/ ClearAddrs \/ ClearLinks)
      BY Zenon DEF TakeFromNM, Activate, ServeDhcp, RetireSuperseded, FollowPrefix, ClearAddrs, ClearLinks, host
    <3> QED BY <3>1, <3>2, <3>3, Zenon
  <2> QED BY <2>1, <2>2, <2>3, Zenon
<1>4. CASE HandBack \/ SyncAndCommit \/ Resync \/ BootGuard \/ SyncAtIdle
  <2>1. UNCHANGED <<addrs, lost>> /\ \E good \in BOOLEAN : SyncNet(good)
    BY <1>4, Zenon DEF HandBack, Released, SyncAndCommit, Resync, BootGuard, SyncAtIdle
  <2> QED BY <1>2, <2>1, Zenon
<1>5. CASE InstallGuard
  <2>1. UNCHANGED <<addrs, lost>> /\ pc = "guard" /\ \E good \in BOOLEAN : Enforce(names, good)
    BY <1>5, Zenon DEF InstallGuard
  <2> QED BY <1>1, <2>1, Zenon
<1>6. CASE Reboot
  BY <1>6, Zenon DEF Reboot
<1>7. ~(Begin \/ Commit \/ Rollback \/ Undo \/ Clear \/ Finish \/ RenderGuard \/ ArmCandidate \/ SettlePreflight
        \/ Fallback \/ ResumeUndo \/ RecordLease)
  BY Zenon DEF Begin, Commit, Rollback, Undo, Clear, Finish, RenderGuard, ArmCandidate, SettlePreflight, Fallback,
       ResumeUndo, RecordLease, host
<1>8. /\ ~PrefixChanged /\ ~Crash /\ ~UNCHANGED vars
      /\ \A seg \in Seg : ~PutNetwork(seg)
      /\ \A seg \in Seg, manage \in BOOLEAN : ~RestoreBackup(seg, manage)
      /\ \A p \in Prefix \cup {None} : ~PollPrefix(p)
      /\ \A i \in Iface : ~OperatorCleans(i)
  BY Zenon DEF PrefixChanged, Crash, vars, PutNetwork, RestoreBackup, PollPrefix, OperatorCleans, host
<1> QED BY <1>3, <1>4, <1>5, <1>6, <1>7, <1>8, Zenon DEF Next, Step

\* Every render of the ruleset, at boot, in a pass, for a request or a watchdog: for any segments,
\* failures and crashes, the one that replaces another still names every interface that carries a
\* segment address, although the transitional one and a restore's guard were read calls before.
THEOREM RulesStayWithSegment == Spec => RulesFollowSegment
<1>1. SInv /\ NInv /\ Rendered /\ [Next]_vars => [\A i \in rules \ rules' : ~Carrying(i)']_vars
  <2> SUFFICES ASSUME SInv, NInv, Rendered, [Next]_vars, NEW i \in rules \ rules', Carrying(i)'
               PROVE  FALSE
    BY Zenon
  <2>1. rules' # rules /\ i \in Ifaces(Live)' /\ addrs' # {}
    BY Zenon DEF Carrying, Live, Ifaces
  <2>2. /\ Ifaces(Live) \subseteq {SegmentOf(db).iface} \cup Cover(db, SegmentOf(db).iface)
        /\ Ifaces(Live) \subseteq {plan.iface} \cup Cover(db, plan.iface)
    BY NamedIsKnown, CoverIsEnough, Zenon
  <2>3. UNCHANGED <<addrs, lost>> /\ Ifaces(Live) \subseteq rules'
    BY <2>1, <2>2, RulesMove, Zenon DEF Rendered
  <2> QED BY <2>1, <2>3, Zenon DEF Live, Ifaces
<1> QED BY <1>1, RenderedHolds, PTL DEF Spec, RulesFollowSegment

=============================================================================
