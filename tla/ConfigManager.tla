---- MODULE ConfigManager ----
(***************************************************************************)
(* The on-disk half of an apply: xray_config/validate.py, ConfigManager.   *)
(*                                                                         *)
(* Three files share one data directory: the live config, the last-good    *)
(* snapshot, and the provenance marker that pairs the two by digest.  Each *)
(* is replaced by temp file + rename (_write_atomic), and the rename is    *)
(* durable only once the directory fsync succeeds.  So a file has a        *)
(* visible content (what a read returns) and a set of contents a power cut *)
(* may leave behind.  An operation is several such writes; the panel can   *)
(* be killed, or the power cut, between any two of them.                   *)
(*                                                                         *)
(* A config stands for its digest (config_digest is injective here), and   *)
(* every config passed to an operation is one `xray -test` accepts: a      *)
(* rejected one returns before anything is written.  All callers hold      *)
(* apply_lock, so one operation is in progress at a time.                  *)
(***************************************************************************)
EXTENDS Naturals, FiniteSets

CONSTANTS
    Configs,    \* configs the panel builds and applies
    Foreign,    \* readable configs written to the live path out of band
    Missing,    \* no such file
    Garbage,    \* a file that is there and is not JSON
    Faults      \* which failures the run allows, a subset of FaultKinds

FaultKinds == {"fsync", "unlink", "write", "powercut", "edit"}

ASSUME ConfigAssumption ==
    /\ Configs \cap Foreign = {}
    /\ Missing \notin Configs \cup Foreign
    /\ Garbage \notin Configs \cup Foreign
    /\ Missing # Garbage
    /\ Faults \subseteq FaultKinds

Readable == Configs \cup Foreign
Content == Readable \cup {Missing, Garbage}

\* A marker is a pairing, the deliberate {"invalidated": true}, or absent.
Marker == [kind : {"pair", "sealed", "missing"}, lastgood : Content, live : Content]
NoMarker == [kind |-> "missing", lastgood |-> Missing, live |-> Missing]
Sealed == [kind |-> "sealed", lastgood |-> Missing, live |-> Missing]
Pair(lg, lv) == [kind |-> "pair", lastgood |-> lg, live |-> lv]

Steps == {"idle", "snapshot", "mark", "unmark", "write", "seal", "writeSealed",
          "rollbackWrite", "rollbackMark", "sweep"}

VARIABLES
    live, lastgood, marker,            \* the visible content of the three files
    liveCut, lastgoodCut, markerCut,   \* the contents a power cut may leave
    step,                              \* the next write of the operation in progress
    cfg,                               \* the config that operation installs
    prev,                              \* the live config it read before writing
    over,      \* history: the config each panel config was last applied over
    revoked    \* history: sealed durably, and no apply has published an undo since

files == <<live, lastgood, marker>>
cuts == <<liveCut, lastgoodCut, markerCut>>
vars == <<files, cuts, step, cfg, prev, over, revoked>>

TypeOK ==
    /\ live \in Content /\ lastgood \in Content /\ marker \in Marker
    /\ liveCut \subseteq Content /\ lastgoodCut \subseteq Content /\ markerCut \subseteq Marker
    /\ live \in liveCut /\ lastgood \in lastgoodCut /\ marker \in markerCut
    /\ step \in Steps
    /\ cfg \in Content /\ prev \in Content
    /\ step \in {"idle", "sweep"} <=> cfg = Missing
    /\ step \in {"snapshot", "mark"} => prev \in Readable
    /\ over \in [Configs -> Content]
    /\ revoked \in BOOLEAN

\* Mutant: the live digest is not compared.
RollbackTargetHalfChecked ==
    IF /\ lastgood \in Readable
       /\ live \in Readable
       /\ marker.kind = "pair"
       /\ marker.lastgood = lastgood
    THEN lastgood
    ELSE Missing

\* rollback_target: the snapshot, when it and the live config both match the marker.
RollbackTarget ==
    IF /\ lastgood \in Readable
       /\ live \in Readable
       /\ marker.kind = "pair"
       /\ marker.lastgood = lastgood
       /\ marker.live = live
    THEN lastgood
    ELSE Missing

Init ==
    /\ live = Missing /\ lastgood = Missing /\ marker = NoMarker
    /\ liveCut = {Missing} /\ lastgoodCut = {Missing} /\ markerCut = {NoMarker}
    /\ step = "idle" /\ cfg = Missing /\ prev = Missing
    /\ over = [c \in Configs |-> Missing]
    /\ revoked = FALSE

-----------------------------------------------------------------------------
(* _write_atomic.  `durable` is its result: the directory fsync of one     *)
(* rename also settles every earlier rename in the same directory.         *)

Durability == {TRUE} \cup IF "fsync" \in Faults THEN {FALSE} ELSE {}

Settle(durable) ==
    /\ liveCut' = IF durable THEN {live'} ELSE liveCut \cup {live'}
    /\ lastgoodCut' = IF durable THEN {lastgood'} ELSE lastgoodCut \cup {lastgood'}
    /\ markerCut' = IF durable THEN {marker'} ELSE markerCut \cup {marker'}

WriteLive(c, durable) ==
    live' = c /\ UNCHANGED <<lastgood, marker>> /\ Settle(durable)

WriteLastgood(c, durable) ==
    lastgood' = c /\ UNCHANGED <<live, marker>> /\ Settle(durable)

WriteMarker(m, durable) ==
    marker' = m /\ UNCHANGED <<live, lastgood>> /\ Settle(durable)

Next_(s) == step' = s /\ UNCHANGED <<cfg, prev>>

\* The operation returns, raises or dies: nothing of it is left but the files.
Done == step' = "idle" /\ cfg' = Missing /\ prev' = Missing

-----------------------------------------------------------------------------
(* apply(cfg)                                                              *)

\* Validate, then try to read the live config: readable means it is snapshotted.
Apply(c) ==
    /\ step = "idle"
    /\ cfg' = c
    /\ IF live \in Readable
       THEN step' = "snapshot" /\ prev' = live
       ELSE step' = "unmark" /\ prev' = Missing
    /\ UNCHANGED <<files, cuts, over, revoked>>

\* The snapshot becomes last-good before anything else changes.
Snapshot ==
    /\ step = "snapshot"
    /\ \E d \in Durability : WriteLastgood(prev, d)
    /\ Next_("mark")
    /\ UNCHANGED <<over, revoked>>

\* The marker pairs that snapshot with the config about to be written.
Mark ==
    /\ step = "mark"
    /\ \E d \in Durability : WriteMarker(Pair(prev, cfg), d)
    /\ revoked' = FALSE
    /\ Next_("write")
    /\ UNCHANGED over

\* Mutant: the marker survives an apply that took no snapshot.
UnmarkSkipped ==
    /\ step = "unmark"
    /\ Next_("write")
    /\ UNCHANGED <<files, cuts, over, revoked>>

\* _invalidate_provenance: an unlink with no fsync, whose failure is only logged.
Unmark ==
    /\ step = "unmark"
    /\ \/ marker' = NoMarker /\ UNCHANGED <<live, lastgood>> /\ Settle(FALSE)
       \/ "unlink" \in Faults /\ UNCHANGED <<files, cuts>>
    /\ Next_("write")
    /\ UNCHANGED <<over, revoked>>

\* The live config is replaced last.
Write ==
    /\ step = "write"
    /\ \E d \in Durability : WriteLive(cfg, d)
    /\ over' = [over EXCEPT ![cfg] = prev]
    /\ Done
    /\ UNCHANGED revoked

-----------------------------------------------------------------------------
(* apply_irreversible(cfg) and invalidate_rollback()                       *)

ApplyIrreversible(c) ==
    /\ step = "idle"
    /\ step' = "seal" /\ cfg' = c /\ prev' = Missing
    /\ UNCHANGED <<files, cuts, over, revoked>>

InvalidateRollback ==
    /\ step = "idle"
    /\ step' = "sweep" /\ UNCHANGED <<cfg, prev>>
    /\ UNCHANGED <<files, cuts, over, revoked>>

\* Mutant: the fsync result is ignored.
SealUnchecked ==
    /\ step = "seal"
    /\ \E d \in Durability : WriteMarker(Sealed, d)
    /\ revoked' = TRUE
    /\ Next_("writeSealed")
    /\ UNCHANGED over

\* _invalidate_provenance_durably: TRUE only when the sealed marker is on stable
\* storage; otherwise the irreversible apply aborts before the live config.
Seal ==
    /\ step = "seal"
    /\ \E d \in Durability :
         /\ WriteMarker(Sealed, d)
         /\ revoked' = (revoked \/ d)
         /\ IF d THEN Next_("writeSealed") ELSE Done
    /\ UNCHANGED over

Sweep ==
    /\ step = "sweep"
    /\ \E d \in Durability : WriteMarker(Sealed, d) /\ revoked' = (revoked \/ d)
    /\ Done
    /\ UNCHANGED over

WriteSealed ==
    /\ step = "writeSealed"
    /\ \E d \in Durability : WriteLive(cfg, d)
    /\ over' = [over EXCEPT ![cfg] = Missing]
    /\ Done
    /\ UNCHANGED revoked

-----------------------------------------------------------------------------
(* rollback()                                                              *)

\* Mutant: no check that there is a provable target.
RollbackUnchecked ==
    /\ step = "idle"
    /\ step' = "rollbackWrite" /\ cfg' = RollbackTarget /\ prev' = Missing
    /\ UNCHANGED <<files, cuts, over, revoked>>

Rollback ==
    /\ step = "idle"
    /\ RollbackTarget # Missing
    /\ step' = "rollbackWrite" /\ cfg' = RollbackTarget /\ prev' = Missing
    /\ UNCHANGED <<files, cuts, over, revoked>>

RollbackWrite ==
    /\ step = "rollbackWrite"
    /\ \E d \in Durability : WriteLive(cfg, d)
    /\ Next_("rollbackMark")
    /\ UNCHANGED <<over, revoked>>

\* The snapshot is now also the live config: a repeated rollback is a no-op.
RollbackMark ==
    /\ step = "rollbackMark"
    /\ \E d \in Durability : WriteMarker(Pair(cfg, cfg), d)
    /\ Done
    /\ UNCHANGED <<over, revoked>>

-----------------------------------------------------------------------------
(* What happens around the operations                                      *)

\* A write raises (disk full, read-only mount) or the process is killed: the
\* operation ends where it was and the files keep their visible content.
Abandon ==
    /\ step # "idle"
    /\ "write" \in Faults
    /\ Done
    /\ UNCHANGED <<files, cuts, over, revoked>>

\* Each file independently comes back as one of the contents not yet settled.
PowerCut ==
    /\ "powercut" \in Faults
    /\ live' \in liveCut /\ lastgood' \in lastgoodCut /\ marker' \in markerCut
    /\ liveCut' = {live'} /\ lastgoodCut' = {lastgood'} /\ markerCut' = {marker'}
    /\ Done
    /\ UNCHANGED <<over, revoked>>

\* A live config truncated, or replaced over SSH, behind the panel's back.
Edit(c) ==
    /\ "edit" \in Faults
    /\ step = "idle"
    /\ live' = c /\ liveCut' = {c}
    /\ UNCHANGED <<lastgood, marker, lastgoodCut, markerCut, step, cfg, prev, over, revoked>>

Next ==
    \/ \E c \in Configs : Apply(c) \/ ApplyIrreversible(c)
    \/ Snapshot \/ Mark \/ Unmark \/ Write
    \/ InvalidateRollback \/ Seal \/ Sweep \/ WriteSealed
    \/ Rollback \/ RollbackWrite \/ RollbackMark
    \/ Abandon \/ PowerCut
    \/ \E c \in Foreign \cup {Garbage} : Edit(c)

Spec == Init /\ [][Next]_vars

-----------------------------------------------------------------------------
(* Properties                                                              *)

\* A revocation cannot be undone by POST /rollback: from the moment
\* _invalidate_provenance_durably reports success until a later apply()
\* publishes a fresh pairing, rollback_target() finds nothing to promote,
\* whatever writes fail and wherever the power is cut.
IrreversibleHolds == revoked => RollbackTarget = Missing

\* rollback_target() offers only the config that the live one was applied
\* over (or the live one itself, after a rollback): never an older snapshot
\* that some earlier or interrupted apply left beside it.
RollbackUndoesLastApply ==
    RollbackTarget # Missing =>
        \/ RollbackTarget = live
        \/ live \in Configs /\ RollbackTarget = over[live]

\* The three files implement the register the callers of ConfigManager rely on, as long as
\* fsync and unlink do what they report: every write of every operation, and every
\* interruption between two writes, is one step of the register or none.
Register == INSTANCE UndoRegister
    WITH Foreign <- Foreign \cup {Garbage}, None <- Missing, undo <- RollbackTarget
ImplementsRegister == Register!Spec

====
