---- MODULE ConfigManagerProofs ----
(***************************************************************************)
(* ConfigManager for any set of configs and any combination of faults: the *)
(* state stays well typed, and once the marker has been sealed durably no  *)
(* interleaving of failed writes, crashes and power cuts lets a rollback   *)
(* promote anything until an apply publishes a new undo.  With an honest   *)
(* fsync and unlink the three files implement UndoRegister, and a rollback *)
(* is offered only what the last apply replaced.                           *)
(***************************************************************************)
EXTENDS ConfigManager, TLAPS

\* While revoked, no pairing is visible or can come back after a power cut, and
\* no rollback that could write one is under way.
SealedInv ==
    revoked => /\ \A m \in markerCut : m.kind # "pair"
               /\ step \notin {"rollbackWrite", "rollbackMark"}

\* The three kinds of marker are markers, and only a pairing pairs.
LEMMA Markers ==
    /\ NoMarker \in Marker /\ NoMarker.kind = "missing"
    /\ Sealed \in Marker /\ Sealed.kind = "sealed"
    /\ \A a, b \in Content : Pair(a, b) \in Marker
BY DEF NoMarker, Sealed, Pair, Marker, Content

\* A rollback target is a readable config, and finding one needs a pairing.
LEMMA TargetReadable ==
    RollbackTarget # Missing => RollbackTarget \in Readable /\ marker.kind = "pair"
BY DEF RollbackTarget

\* Whether or not the directory fsync succeeds, each file's visible content is
\* among those a power cut may leave.
LEMMA SettleKeepsTypes ==
    ASSUME TypeOK, NEW d \in BOOLEAN, Settle(d),
           live' \in Content, lastgood' \in Content, marker' \in Marker
    PROVE  /\ liveCut' \subseteq Content /\ live' \in liveCut'
           /\ lastgoodCut' \subseteq Content /\ lastgood' \in lastgoodCut'
           /\ markerCut' \subseteq Marker /\ marker' \in markerCut'
BY DEF TypeOK, Settle

\* The panel's files and bookkeeping stay well formed through every step of
\* every ConfigManager operation, fault or no fault.
THEOREM TypeCorrect == Spec => []TypeOK
<1>1. Init => TypeOK
  BY ConfigAssumption, Markers, Zenon DEF Init, TypeOK, Content, Steps
<1>2. TypeOK /\ [Next]_vars => TypeOK'
  <2> SUFFICES ASSUME TypeOK, [Next]_vars PROVE TypeOK'
    OBVIOUS
  <2> USE ConfigAssumption
  <2>a. Durability \subseteq BOOLEAN
    BY Zenon DEF Durability
  <2>b. Missing \in Content /\ Configs \subseteq Readable /\ Readable \subseteq Content
    BY DEF Content, Readable
  <2>c. Missing \notin Readable
    BY DEF Readable
  <2>1. ASSUME NEW c \in Configs, Apply(c) PROVE TypeOK'
    BY <2>1, <2>b, <2>c DEF Apply, TypeOK, files, cuts, Steps
  <2>2. ASSUME NEW c \in Configs, ApplyIrreversible(c) PROVE TypeOK'
    BY <2>2, <2>b, <2>c DEF ApplyIrreversible, TypeOK, files, cuts, Steps
  <2>3. CASE Snapshot
    <3>1. PICK d \in Durability : WriteLastgood(prev, d)
      BY <2>3 DEF Snapshot
    <3>2. live' \in Content /\ lastgood' \in Content /\ marker' \in Marker
      BY <3>1 DEF WriteLastgood, TypeOK
    <3> QED BY <2>3, <3>1, <3>2, <2>a, SettleKeepsTypes
         DEF Snapshot, WriteLastgood, TypeOK, Next_, Steps
  <2>4. CASE Mark
    <3>1. PICK d \in Durability : WriteMarker(Pair(prev, cfg), d)
      BY <2>4 DEF Mark
    <3>2. live' \in Content /\ lastgood' \in Content /\ marker' \in Marker
      BY <3>1, Markers DEF WriteMarker, TypeOK
    <3> QED BY <2>4, <3>1, <3>2, <2>a, SettleKeepsTypes, Zenon
         DEF Mark, WriteMarker, TypeOK, Next_, Steps
  <2>5. CASE Unmark
    <3>1. CASE marker' = NoMarker /\ UNCHANGED <<live, lastgood>> /\ Settle(FALSE)
      <4>1. live' \in Content /\ lastgood' \in Content /\ marker' \in Marker
        BY <3>1, Markers DEF TypeOK
      <4> QED BY <2>5, <3>1, <4>1, SettleKeepsTypes, Zenon DEF Unmark, TypeOK, Next_, Steps
    <3>2. CASE UNCHANGED <<files, cuts>>
      BY <2>5, <3>2 DEF Unmark, TypeOK, files, cuts, Next_, Steps
    <3> QED BY <2>5, <3>1, <3>2, Zenon DEF Unmark
  <2>6. CASE Write
    <3>1. PICK d \in Durability : WriteLive(cfg, d)
      BY <2>6 DEF Write
    <3>2. live' \in Content /\ lastgood' \in Content /\ marker' \in Marker
      BY <3>1 DEF WriteLive, TypeOK
    <3> QED BY <2>6, <3>1, <3>2, <2>a, <2>b, SettleKeepsTypes, Zenon
         DEF Write, WriteLive, TypeOK, Done, Steps
  <2>7. CASE InvalidateRollback
    BY <2>7 DEF InvalidateRollback, TypeOK, files, cuts, Steps
  <2>8. CASE Seal
    <3>1. PICK d \in Durability : WriteMarker(Sealed, d) /\ revoked' = (revoked \/ d)
                                  /\ IF d THEN Next_("writeSealed") ELSE Done
      BY <2>8 DEF Seal
    <3>2. live' \in Content /\ lastgood' \in Content /\ marker' \in Marker
      BY <3>1, Markers DEF WriteMarker, TypeOK
    <3>3. revoked' \in BOOLEAN
      BY <3>1, <2>a, Zenon DEF TypeOK
    <3> QED BY <2>8, <3>1, <3>2, <3>3, <2>a, <2>b, SettleKeepsTypes
         DEF Seal, WriteMarker, TypeOK, Next_, Done, Steps
  <2>9. CASE Sweep
    <3>1. PICK d \in Durability : WriteMarker(Sealed, d) /\ revoked' = (revoked \/ d)
      BY <2>9 DEF Sweep
    <3>2. live' \in Content /\ lastgood' \in Content /\ marker' \in Marker
      BY <3>1, Markers DEF WriteMarker, TypeOK
    <3>3. revoked' \in BOOLEAN
      BY <3>1, <2>a, Zenon DEF TypeOK
    <3> QED BY <2>9, <3>1, <3>2, <3>3, <2>a, <2>b, SettleKeepsTypes
         DEF Sweep, WriteMarker, TypeOK, Done, Steps
  <2>10. CASE WriteSealed
    <3>1. PICK d \in Durability : WriteLive(cfg, d)
      BY <2>10 DEF WriteSealed
    <3>2. live' \in Content /\ lastgood' \in Content /\ marker' \in Marker
      BY <3>1 DEF WriteLive, TypeOK
    <3> QED BY <2>10, <3>1, <3>2, <2>a, <2>b, SettleKeepsTypes, Zenon
         DEF WriteSealed, WriteLive, TypeOK, Done, Steps
  <2>11. CASE Rollback
    BY <2>11, <2>b, <2>c, TargetReadable DEF Rollback, TypeOK, files, cuts, Steps
  <2>12. CASE RollbackWrite
    <3>1. PICK d \in Durability : WriteLive(cfg, d)
      BY <2>12 DEF RollbackWrite
    <3>2. live' \in Content /\ lastgood' \in Content /\ marker' \in Marker
      BY <3>1 DEF WriteLive, TypeOK
    <3> QED BY <2>12, <3>1, <3>2, <2>a, SettleKeepsTypes
         DEF RollbackWrite, WriteLive, TypeOK, Next_, Steps
  <2>13. CASE RollbackMark
    <3>1. PICK d \in Durability : WriteMarker(Pair(cfg, cfg), d)
      BY <2>13 DEF RollbackMark
    <3>2. live' \in Content /\ lastgood' \in Content /\ marker' \in Marker
      BY <3>1, Markers DEF WriteMarker, TypeOK
    <3> QED BY <2>13, <3>1, <3>2, <2>a, <2>b, SettleKeepsTypes
         DEF RollbackMark, WriteMarker, TypeOK, Done, Steps
  <2>14. CASE Abandon
    BY <2>14, <2>b DEF Abandon, TypeOK, files, cuts, Done, Steps
  <2>15. CASE PowerCut
    BY <2>15, <2>b DEF PowerCut, TypeOK, Done, Steps
  <2>16. ASSUME NEW c \in Foreign \cup {Garbage}, Edit(c) PROVE TypeOK'
    BY <2>16 DEF Edit, TypeOK, Content, Readable, Steps
  <2>17. CASE UNCHANGED vars
    BY <2>17 DEF vars, files, cuts, TypeOK
  <2> QED BY <2>1, <2>2, <2>3, <2>4, <2>5, <2>6, <2>7, <2>8, <2>9, <2>10, <2>11,
          <2>12, <2>13, <2>14, <2>15, <2>16, <2>17 DEF Next
<1> QED BY <1>1, <1>2, PTL DEF Spec

\* Every step keeps the seal: the only writes of a pairing are Mark, which ends
\* the revocation, and RollbackMark, which a revocation rules out.
LEMMA SealKept == TypeOK /\ SealedInv /\ [Next]_vars => SealedInv'
<1> SUFFICES ASSUME TypeOK, SealedInv, [Next]_vars PROVE SealedInv'
  OBVIOUS
<1>m. Sealed.kind # "pair" /\ NoMarker.kind # "pair"
  BY Markers
<1>a. Durability \subseteq BOOLEAN
  BY Zenon DEF Durability
<1>1. CASE \E c \in Configs : Apply(c) \/ ApplyIrreversible(c)
  BY <1>1, Zenon DEF Apply, ApplyIrreversible, SealedInv, cuts
<1>2. CASE Snapshot \/ Write \/ WriteSealed
  BY <1>2, Zenon DEF Snapshot, Write, WriteSealed, WriteLastgood, WriteLive, Settle,
              Next_, Done, SealedInv, TypeOK
<1>3. CASE Mark
  BY <1>3 DEF Mark, SealedInv
<1>4. CASE Unmark
  BY <1>4, <1>m DEF Unmark, Settle, Next_, SealedInv, TypeOK, files, cuts
<1>5. CASE InvalidateRollback
  BY <1>5 DEF InvalidateRollback, SealedInv, cuts
<1>6. CASE Seal
  <2>1. PICK d \in Durability : WriteMarker(Sealed, d) /\ revoked' = (revoked \/ d)
                                /\ IF d THEN Next_("writeSealed") ELSE Done
    BY <1>6 DEF Seal
  <2>2. CASE d
    BY <2>1, <2>2, <1>m DEF WriteMarker, Settle, Next_, SealedInv
  <2>3. CASE ~d
    BY <2>1, <2>3, <1>m, Zenon DEF WriteMarker, Settle, Done, SealedInv
  <2> QED BY <2>2, <2>3
<1>7. CASE Sweep
  <2>1. PICK d \in Durability : WriteMarker(Sealed, d) /\ revoked' = (revoked \/ d)
    BY <1>7 DEF Sweep
  <2>2. CASE d
    BY <1>7, <2>1, <2>2, <1>m DEF Sweep, WriteMarker, Settle, Done, SealedInv
  <2>3. CASE ~d
    BY <1>7, <2>1, <2>3, <1>m, Zenon DEF Sweep, WriteMarker, Settle, Done, SealedInv
  <2> QED BY <2>2, <2>3
<1>8. CASE Rollback
  BY <1>8, TargetReadable DEF Rollback, SealedInv, TypeOK, cuts
<1>9. CASE RollbackWrite \/ RollbackMark
  BY <1>9, Zenon DEF RollbackWrite, RollbackMark, SealedInv
<1>10. CASE Abandon \/ PowerCut
  BY <1>10, Zenon DEF Abandon, PowerCut, Done, SealedInv, cuts
<1>11. CASE \E c \in Foreign \cup {Garbage} : Edit(c)
  BY <1>11 DEF Edit, SealedInv
<1>12. CASE UNCHANGED vars
  BY <1>12 DEF vars, cuts, SealedInv
<1> QED BY <1>1, <1>2, <1>3, <1>4, <1>5, <1>6, <1>7, <1>8, <1>9, <1>10, <1>11, <1>12
        DEF Next

\* A revocation is never undone by a rollback: once the marker was sealed on
\* stable storage, rollback_target() refuses until an apply() publishes again.
THEOREM RevocationSticks == Spec => []IrreversibleHolds
<1>1. Init => SealedInv
  BY DEF Init, SealedInv
<1>2. TypeOK /\ SealedInv => IrreversibleHolds
  BY TargetReadable DEF TypeOK, SealedInv, IrreversibleHolds
<1> QED BY <1>1, <1>2, TypeCorrect, SealKept, PTL DEF Spec

-----------------------------------------------------------------------------
(* The files implement the register, when fsync and unlink tell the truth. *)

\* Which write comes next says what the earlier ones left: nothing unsettled but an
\* unlinked marker beside a live file that is not ours, and a pairing for any other config
\* than ours names that config twice.
StepInv ==
    /\ step \in {"snapshot", "mark", "unmark", "write", "seal", "writeSealed"} => cfg \in Configs
    /\ step \in {"snapshot", "mark"} => prev = live
    /\ step = "mark" => lastgood = prev
    /\ step = "unmark" => live \notin Readable
    /\ step = "write" /\ prev # Missing =>
           prev = live /\ prev \in Readable /\ lastgood = prev /\ marker = Pair(prev, cfg)
    /\ step = "write" /\ prev = Missing => marker.kind # "pair" /\ live \notin Readable
    /\ step = "unmark" => prev = Missing
    /\ step = "writeSealed" => marker.kind # "pair"
    /\ step = "rollbackWrite" => RollbackTarget = cfg
    /\ step = "rollbackMark" => cfg \in Readable /\ live = cfg /\ lastgood = cfg

CutInv ==
    /\ liveCut = {live} /\ lastgoodCut = {lastgood}
    /\ \A m \in markerCut : m = marker \/ live \notin Configs
    /\ \A m \in markerCut : m.kind = "pair" /\ m.live \notin Configs => m.lastgood = m.live

FileInv == StepInv /\ CutInv

Honest == Faults \cap {"fsync", "unlink"} = {}

\* The marker's fields are what Pair put there.
LEMMA PairFields ==
    \A a, b : Pair(a, b).kind = "pair" /\ Pair(a, b).lastgood = a /\ Pair(a, b).live = b
BY DEF Pair

\* With an fsync that succeeds, a write leaves nothing unsettled.
LEMMA SettleAll ==
    ASSUME Honest
    PROVE  Durability = {TRUE} /\ (Settle(TRUE) => liveCut' = {live'} /\ lastgoodCut' = {lastgood'}
                                                   /\ markerCut' = {marker'})
BY Zenon DEF Honest, Durability, Settle

\* The invariant on the files is kept by every write and every interruption.
LEMMA FilesKept == Honest /\ TypeOK /\ FileInv /\ [Next]_vars => FileInv'
<1> SUFFICES ASSUME Honest, TypeOK, FileInv, [Next]_vars PROVE FileInv'
  OBVIOUS
<1> USE ConfigAssumption
<1>r. Configs \subseteq Readable /\ Missing \notin Readable /\ Garbage \notin Readable
      /\ Foreign \cap Configs = {}
  BY DEF Readable
<1>1. ASSUME NEW c \in Configs, Apply(c) PROVE FileInv'
  BY <1>1, <1>r DEF Apply, FileInv, StepInv, CutInv, files, cuts, RollbackTarget
<1>2. ASSUME NEW c \in Configs, ApplyIrreversible(c) PROVE FileInv'
  BY <1>2 DEF ApplyIrreversible, FileInv, StepInv, CutInv, files, cuts, RollbackTarget
<1>3. CASE Snapshot
  BY <1>3, <1>r, SettleAll, Zenon DEF Snapshot, WriteLastgood, Next_, FileInv, StepInv, CutInv, TypeOK
<1>4. CASE Mark
  <2>1. /\ marker' = Pair(prev, cfg) /\ step' = "write"
        /\ liveCut' = {live'} /\ lastgoodCut' = {lastgood'} /\ markerCut' = {marker'}
        /\ UNCHANGED <<live, lastgood, cfg, prev>>
    BY <1>4, SettleAll, Zenon DEF Mark, WriteMarker, Next_
  <2>2. marker'.kind = "pair" /\ marker'.lastgood = prev /\ marker'.live = cfg
    BY <2>1, PairFields
  <2>3. CutInv'
    BY <1>4, <2>1, <2>2 DEF Mark, FileInv, StepInv, CutInv
  <2>4. StepInv'
    BY <1>4, <1>r, <2>1 DEF Mark, FileInv, StepInv, TypeOK, Pair
  <2> QED BY <2>3, <2>4 DEF FileInv
<1>5. CASE Unmark
  BY <1>5, <1>r, Markers DEF Unmark, Settle, Next_, FileInv, StepInv, CutInv, TypeOK, Honest
<1>6. CASE Write
  <2>1. /\ UNCHANGED <<marker, lastgood>> /\ step' = "idle"
        /\ liveCut' = {live'} /\ lastgoodCut' = {lastgood'} /\ markerCut' = {marker'}
    BY <1>6, SettleAll, Zenon DEF Write, WriteLive, Done
  <2>2. StepInv'
    BY <2>1 DEF StepInv
  <2>3. marker.kind = "pair" /\ marker.live \notin Configs => marker.lastgood = marker.live
    BY DEF FileInv, CutInv, TypeOK
  <2> QED BY <2>1, <2>2, <2>3 DEF FileInv, CutInv
<1>7. CASE InvalidateRollback
  BY <1>7 DEF InvalidateRollback, FileInv, StepInv, CutInv, files, cuts
<1>8. CASE Seal \/ Sweep
  BY <1>8, <1>r, SettleAll, Markers, Zenon DEF Seal, Sweep, WriteMarker, Next_, Done, FileInv, StepInv, CutInv, TypeOK
<1>9. CASE WriteSealed
  BY <1>9, SettleAll, Zenon DEF WriteSealed, WriteLive, Done, FileInv, StepInv, CutInv, TypeOK
<1>10. CASE Rollback
  BY <1>10 DEF Rollback, FileInv, StepInv, CutInv, files, cuts, RollbackTarget
<1>11. CASE RollbackWrite
  BY <1>11, <1>r, SettleAll, TargetReadable, Zenon
     DEF RollbackWrite, WriteLive, Next_, FileInv, StepInv, CutInv, TypeOK, RollbackTarget
<1>12. CASE RollbackMark
  <2>1. /\ marker' = Pair(cfg, cfg) /\ step' = "idle"
        /\ liveCut' = {live'} /\ lastgoodCut' = {lastgood'} /\ markerCut' = {marker'}
    BY <1>12, SettleAll, Zenon DEF RollbackMark, WriteMarker, Done
  <2>2. marker'.lastgood = marker'.live
    BY <2>1, PairFields
  <2> QED BY <2>1, <2>2 DEF FileInv, StepInv, CutInv
<1>13. CASE Abandon
  BY <1>13 DEF Abandon, Done, FileInv, StepInv, CutInv, files, cuts
<1>14. CASE PowerCut
  BY <1>14 DEF PowerCut, Done, FileInv, StepInv, CutInv
<1>15. ASSUME NEW c \in Foreign \cup {Garbage}, Edit(c) PROVE FileInv'
  BY <1>15, <1>r DEF Edit, FileInv, StepInv, CutInv, TypeOK
<1>16. CASE UNCHANGED vars
  BY <1>16 DEF vars, files, cuts, FileInv, StepInv, CutInv, RollbackTarget
<1> QED BY <1>1, <1>2, <1>3, <1>4, <1>5, <1>6, <1>7, <1>8, <1>9, <1>10, <1>11, <1>12, <1>13,
          <1>14, <1>15, <1>16 DEF Next

\* One write, or one interruption, is one step of the register or none of it changes.
LEMMA StepIsRegisterStep ==
    Honest /\ TypeOK /\ FileInv /\ [Next]_vars => [Register!Next]_<<live, RollbackTarget>>
<1> SUFFICES ASSUME Honest, TypeOK, FileInv, [Next]_vars
             PROVE  [Register!Next]_<<live, RollbackTarget>>
  OBVIOUS
<1> USE ConfigAssumption
<1>r. Configs \subseteq Readable /\ Missing \notin Readable /\ Garbage \notin Readable
  BY DEF Readable
<1>s. ASSUME UNCHANGED files PROVE UNCHANGED <<live, RollbackTarget>>
  BY <1>s DEF files, RollbackTarget
<1>1. CASE \/ \E c \in Configs : Apply(c) \/ ApplyIrreversible(c)
           \/ InvalidateRollback \/ Rollback \/ Abandon \/ UNCHANGED vars
  BY <1>1, <1>s DEF Apply, ApplyIrreversible, InvalidateRollback, Rollback, Abandon, vars
<1>2. CASE Snapshot
  <2>1. lastgood' = live /\ UNCHANGED <<live, marker>>
    BY <1>2 DEF Snapshot, WriteLastgood, FileInv, StepInv
  <2>2. RollbackTarget' \in {Missing, live} /\ UNCHANGED live
    BY <2>1 DEF RollbackTarget
  <2> QED BY <2>2 DEF Register!Next, Register!Forget
<1>3. CASE Mark
  <2>1. lastgood = live /\ UNCHANGED <<live, lastgood>>
    BY <1>3 DEF Mark, WriteMarker, FileInv, StepInv
  <2>2. RollbackTarget' \in {Missing, live} /\ UNCHANGED live
    BY <2>1 DEF RollbackTarget
  <2> QED BY <2>2 DEF Register!Next, Register!Forget
<1>4. CASE Unmark
  <2>1. live \notin Readable /\ UNCHANGED live
    BY <1>4, Zenon DEF Unmark, FileInv, StepInv, files
  <2>2. RollbackTarget' = Missing
    BY <2>1 DEF RollbackTarget
  <2> QED BY <2>1, <2>2 DEF Register!Next, Register!Forget
<1>5. CASE Write
  <2>1. live' = cfg /\ cfg \in Configs /\ UNCHANGED <<lastgood, marker>>
    BY <1>5 DEF Write, WriteLive, FileInv, StepInv
  <2>2. CASE prev # Missing
    <3>1. prev = live /\ prev \in Readable /\ lastgood = prev /\ marker = Pair(prev, cfg)
      BY <1>5, <2>2 DEF Write, FileInv, StepInv
    <3>2. marker.kind = "pair" /\ marker.lastgood = prev /\ marker.live = cfg
      BY <3>1, PairFields
    <3>3. RollbackTarget' = live
      BY <2>1, <3>1, <3>2, <1>r DEF RollbackTarget
    <3> QED BY <2>1, <3>3 DEF Register!Next, Register!Publish
  <2>3. CASE prev = Missing
    <3>1. RollbackTarget' = Missing
      BY <1>5, <2>1, <2>3 DEF Write, FileInv, StepInv, RollbackTarget
    <3> QED BY <2>1, <3>1 DEF Register!Next, Register!Replace
  <2> QED BY <2>2, <2>3
<1>6. CASE Seal \/ Sweep
  <2>1. marker' = Sealed /\ UNCHANGED live
    BY <1>6 DEF Seal, Sweep, WriteMarker
  <2>2. RollbackTarget' = Missing
    BY <2>1, Markers DEF RollbackTarget
  <2> QED BY <2>1, <2>2 DEF Register!Next, Register!Forget
<1>7. CASE WriteSealed
  <2>1. live' = cfg /\ cfg \in Configs /\ UNCHANGED marker /\ marker.kind # "pair"
    BY <1>7 DEF WriteSealed, WriteLive, FileInv, StepInv
  <2>2. RollbackTarget' = Missing
    BY <2>1 DEF RollbackTarget
  <2> QED BY <2>1, <2>2 DEF Register!Next, Register!Replace
<1>8. CASE RollbackWrite
  <2>1. live' = cfg /\ RollbackTarget = cfg /\ cfg # Missing /\ UNCHANGED <<lastgood, marker>>
    BY <1>8 DEF RollbackWrite, WriteLive, FileInv, StepInv, TypeOK
  <2>2. RollbackTarget' \in {Missing, RollbackTarget}
    BY <2>1 DEF RollbackTarget
  <2> QED BY <2>1, <2>2 DEF Register!Next, Register!Promote
<1>9. CASE RollbackMark
  <2>1. lastgood = live /\ UNCHANGED <<live, lastgood>>
    BY <1>9 DEF RollbackMark, WriteMarker, FileInv, StepInv
  <2>2. RollbackTarget' \in {Missing, live} /\ UNCHANGED live
    BY <2>1 DEF RollbackTarget
  <2> QED BY <2>2 DEF Register!Next, Register!Forget
<1>10. CASE PowerCut
  <2>1. live' = live /\ lastgood' = lastgood /\ marker' \in markerCut
    BY <1>10 DEF PowerCut, FileInv, CutInv
  <2>2. CASE marker' = marker
    BY <2>1, <2>2, <1>s DEF files
  <2>3. CASE live \notin Configs
    <3>1. RollbackTarget' \in {Missing, live}
      BY <2>1, <2>3 DEF RollbackTarget, FileInv, CutInv
    <3> QED BY <2>1, <3>1 DEF Register!Next, Register!Forget
  <2> QED BY <2>1, <2>2, <2>3 DEF FileInv, CutInv
<1>11. ASSUME NEW c \in Foreign \cup {Garbage}, Edit(c)
       PROVE  [Register!Next]_<<live, RollbackTarget>>
  <2>1. live' = c /\ UNCHANGED <<lastgood, marker>>
    BY <1>11 DEF Edit
  <2>2. marker.kind = "pair" /\ marker.live \notin Configs => marker.lastgood = marker.live
    BY DEF FileInv, CutInv, TypeOK
  <2>3. RollbackTarget' \in {Missing, live'}
    BY <2>1, <2>2 DEF RollbackTarget
  <2> QED BY <2>1, <2>3 DEF Register!Next, Register!Overwrite
<1> QED BY <1>1, <1>2, <1>3, <1>4, <1>5, <1>6, <1>7, <1>8, <1>9, <1>10, <1>11 DEF Next

\* When fsync and unlink do what they report, ConfigManager's three files behave, through
\* every interleaving of writes, interruptions and edits, as a live config with one undo.
THEOREM FilesImplementRegister == ASSUME Honest PROVE Spec => ImplementsRegister
<1>1. Init => Register!Init
  BY DEF Init, Register!Init, RollbackTarget
<1>2. Init => FileInv
  BY ConfigAssumption, Markers DEF Init, FileInv, StepInv, CutInv
<1>3. TypeOK /\ FileInv /\ [Next]_vars => FileInv'
  BY FilesKept
<1>4. TypeOK /\ FileInv /\ [Next]_vars => [Register!Next]_<<live, RollbackTarget>>
  BY StepIsRegisterStep
<1> QED BY <1>1, <1>2, <1>3, <1>4, TypeCorrect, PTL DEF Spec, ImplementsRegister, Register!Spec

\* Every step keeps the history of applies in agreement with the pairing: the undo a step leaves
\* is the live config itself, the config the live one was just written over, or the one before.
LEMMA UndoKept ==
    ASSUME Honest, TypeOK, FileInv, RollbackUndoesLastApply, [Next]_vars
    PROVE  RollbackUndoesLastApply'
<1> USE ConfigAssumption
<1>r. Configs \subseteq Readable /\ Missing \notin Readable /\ Garbage \notin Readable
      /\ Foreign \cap Configs = {}
  BY DEF Readable
<1>s. ASSUME UNCHANGED files, UNCHANGED over PROVE RollbackUndoesLastApply'
  BY <1>s DEF files, RollbackTarget, RollbackUndoesLastApply
<1>t. ASSUME RollbackTarget' \in {Missing, live'} PROVE RollbackUndoesLastApply'
  BY <1>t DEF RollbackUndoesLastApply
<1>1. CASE \/ \E c \in Configs : Apply(c) \/ ApplyIrreversible(c)
           \/ InvalidateRollback \/ Rollback \/ Abandon \/ UNCHANGED vars
  BY <1>1, <1>s, Zenon DEF Apply, ApplyIrreversible, InvalidateRollback, Rollback, Abandon, vars
<1>2. CASE Snapshot \/ Mark \/ RollbackMark
  <2>1. lastgood' = live'
    BY <1>2 DEF Snapshot, Mark, RollbackMark, WriteLastgood, WriteMarker, FileInv, StepInv
  <2>2. RollbackTarget' \in {Missing, live'}
    BY <2>1 DEF RollbackTarget
  <2> QED BY <2>2, <1>t
<1>3. CASE Unmark
  <2>1. live' \notin Readable
    BY <1>3, Zenon DEF Unmark, FileInv, StepInv, files
  <2>2. RollbackTarget' = Missing
    BY <2>1 DEF RollbackTarget
  <2> QED BY <2>2, <1>t
<1>4. CASE Write
  <2>1. live' = cfg /\ cfg \in Configs /\ UNCHANGED <<lastgood, marker>> /\ over' = [over EXCEPT ![cfg] = prev]
    BY <1>4 DEF Write, WriteLive, FileInv, StepInv
  <2>2. CASE prev # Missing
    <3>1. lastgood = prev
      BY <1>4, <2>2 DEF Write, FileInv, StepInv
    <3>2. RollbackTarget' \in {Missing, prev}
      BY <2>1, <3>1 DEF RollbackTarget
    <3>3. over'[live'] = prev
      BY <2>1 DEF TypeOK
    <3> QED BY <2>1, <3>2, <3>3 DEF RollbackUndoesLastApply
  <2>3. CASE prev = Missing
    <3>1. RollbackTarget' = Missing
      BY <1>4, <2>1, <2>3 DEF Write, FileInv, StepInv, RollbackTarget
    <3> QED BY <3>1, <1>t
  <2> QED BY <2>2, <2>3
<1>5. CASE Seal \/ Sweep
  <2>1. marker' = Sealed
    BY <1>5 DEF Seal, Sweep, WriteMarker
  <2>2. RollbackTarget' = Missing
    BY <2>1, Markers DEF RollbackTarget
  <2> QED BY <2>2, <1>t
<1>6. CASE WriteSealed
  <2>1. UNCHANGED marker /\ marker.kind # "pair"
    BY <1>6 DEF WriteSealed, WriteLive, FileInv, StepInv
  <2>2. RollbackTarget' = Missing
    BY <2>1 DEF RollbackTarget
  <2> QED BY <2>2, <1>t
<1>7. CASE RollbackWrite
  <2>1. live' = cfg /\ RollbackTarget = cfg /\ cfg # Missing /\ UNCHANGED <<lastgood, marker>>
    BY <1>7 DEF RollbackWrite, WriteLive, FileInv, StepInv, TypeOK
  <2>2. RollbackTarget' \in {Missing, live'}
    BY <2>1 DEF RollbackTarget
  <2> QED BY <2>2, <1>t
<1>8. CASE PowerCut
  <2>1. live' = live /\ lastgood' = lastgood /\ marker' \in markerCut /\ UNCHANGED over
    BY <1>8 DEF PowerCut, FileInv, CutInv
  <2>2. CASE marker' = marker
    BY <2>1, <2>2, <1>s DEF files
  <2>3. CASE live \notin Configs
    <3>1. RollbackTarget' \in {Missing, live'}
      BY <2>1, <2>3 DEF RollbackTarget, FileInv, CutInv
    <3> QED BY <3>1, <1>t
  <2> QED BY <2>1, <2>2, <2>3 DEF FileInv, CutInv
<1>9. ASSUME NEW c \in Foreign \cup {Garbage}, Edit(c) PROVE RollbackUndoesLastApply'
  <2>1. live' = c /\ UNCHANGED <<lastgood, marker>>
    BY <1>9 DEF Edit
  <2>2. marker.kind = "pair" /\ marker.live \notin Configs => marker.lastgood = marker.live
    BY DEF FileInv, CutInv, TypeOK
  <2>3. RollbackTarget' \in {Missing, live'}
    BY <2>1, <2>2, <1>r DEF RollbackTarget
  <2> QED BY <2>3, <1>t
<1> QED BY <1>1, <1>2, <1>3, <1>4, <1>5, <1>6, <1>7, <1>8, <1>9, Zenon DEF Next

\* rollback_target() never offers a snapshot that some earlier or interrupted apply left beside the
\* live config, for any configs and wherever an operation is interrupted, when fsync and unlink
\* tell the truth.
THEOREM TargetIsWhatApplyReplaced == ASSUME Honest PROVE Spec => []RollbackUndoesLastApply
<1>1. Init => FileInv /\ RollbackUndoesLastApply
  BY ConfigAssumption, Markers DEF Init, FileInv, StepInv, CutInv, RollbackUndoesLastApply, RollbackTarget
<1>2. TypeOK /\ FileInv /\ [Next]_vars => FileInv'
  BY FilesKept
<1>3. TypeOK /\ FileInv /\ RollbackUndoesLastApply /\ [Next]_vars => RollbackUndoesLastApply'
  BY UndoKept
<1> QED BY <1>1, <1>2, <1>3, TypeCorrect, PTL DEF Spec
=============================================================================
