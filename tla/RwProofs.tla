---- MODULE RwProofs ----
(***************************************************************************)
(* Proofs about RwRevocation, for any set of devices and any failures.     *)
(*                                                                         *)
(* What the running child serves changes in two ways only: a spawn loads   *)
(* the file after the start guard has compared it with the store, and an   *)
(* exit empties it.  The inductive invariant adds what the steps between   *)
(* a spawn, or an observation of the child, and the answer rely on.  What  *)
(* a revocation and its retry leave alone needs which steps are theirs.    *)
(***************************************************************************)
EXTENDS RwRevocation, TLAPS

Answering == {"sweep", "drop", "settle"}

\* Between the load and the end of a successful apply, the child serves what it loaded.
LoadedInv == pc \in {"net", "done"} => served \subseteq granted

\* A child seen down stays down until the operation that saw it ends.
SeenDownInv == pc = "push" /\ running = "no" => served = {}

\* Settle is reached only with an outcome that means done.
SettleInv == pc = "settle" => how \in Reconciled

\* The marker in the transaction is the committed one, and unmarked excess was refused.
MarkInv == marker = keptMarker /\ (~marker => Excess \subseteq refused)

\* What the step that follows an invariant state may rely on.
IInv == TypeOK /\ LoadedInv /\ SeenDownInv /\ SettleInv /\ MarkInv /\ AnswerIsProof

-----------------------------------------------------------------------------
(* What the building blocks of the actions do.                             *)

\* A write leaves typed files; a successful one leaves a file the store grants.
LEMMA WriteFacts ==
    ASSUME TypeOK, Rewritten \/ Unwritten
    PROVE  FilesOK' /\ (Rewritten => file' = granted)
BY DEF TypeOK, StoreOK, Rewritten, Unwritten, FilesOK, Grants, OrIf

\* The start guard lets a spawn read only a file that the store grants, or one that is no
\* config at all.
LEMMA GuardFacts ==
    ASSUME TypeOK, GuardPasses
    PROVE  FilesOK' /\ (file' # Bad => file' \in Grants /\ file' \subseteq granted)
<1>1. CASE Clean(file) /\ UNCHANGED config
  BY <1>1 DEF TypeOK, StoreOK, Clean, config, FilesOK, Grants
<1>2. CASE ~Clean(file) /\ Rewritten
  BY <1>2, WriteFacts DEF TypeOK, StoreOK, FilesOK, Grants
<1>3. QED BY <1>1, <1>2 DEF GuardPasses

\* A spawn, however it ends, leaves a child that serves only what the store grants.
LEMMA SpawnFacts ==
    ASSUME TypeOK, Spawned \/ NotSpawned, want' \in BOOLEAN
    PROVE  ChildOK' /\ FilesOK' /\ served' \subseteq granted
<1>1. CASE Spawned
  BY <1>1, GuardFacts, Zenon DEF Spawned, Alive, ChildOK
<1>2. CASE DiedAtBoot
  BY <1>2, GuardFacts, Zenon DEF DiedAtBoot, Alive, Down, ChildOK, Grants
<1>3. CASE GuardRefuses /\ Down
  BY <1>3, WriteFacts, Zenon DEF GuardRefuses, Down, ChildOK, Grants
<1>4. QED BY <1>1, <1>2, <1>3 DEF NotSpawned

\* A reload leaves the child it could not stop, or one that serves only what is granted.
LEMMA ReloadFacts ==
    ASSUME TypeOK, ReloadOk \/ ReloadFails
    PROVE  /\ ChildOK' /\ FilesOK'
           /\ served' \subseteq granted \/ (served' = served /\ up' = up)
           /\ ReloadOk => served' \subseteq granted
<1>1. CASE ReloadOk
  BY <1>1, SpawnFacts DEF ReloadOk
<1>2. CASE stuck /\ SameChild /\ want' = FALSE /\ UNCHANGED config /\ ~ReloadOk
  BY <1>2, Zenon DEF SameChild, config, TypeOK, ChildOK, FilesOK
<1>3. CASE ~stuck /\ NotSpawned /\ want' = TRUE /\ ~ReloadOk
  BY <1>3, SpawnFacts
<1>4. QED BY <1>1, <1>2, <1>3, Zenon DEF ReloadFails

\* A stop leaves no child, or the one it could not stop.
LEMMA StopFacts ==
    ASSUME TypeOK, StopOk \/ StopFails
    PROVE  /\ ChildOK'
           /\ served' = {} \/ (served' = served /\ up' = up)
           /\ StopOk => served' = {}
BY Zenon DEF TypeOK, StoreOK, StopOk, StopFails, Down, SameChild, ChildOK, Grants



-----------------------------------------------------------------------------
(* Every step.                                                             *)

\* The initial state satisfies the invariant.
LEMMA InitInv == Init => IInv
BY Zenon DEF Init, IInv, Free, TypeOK, StoreOK, FilesOK, ChildOK, ControlOK, LoadedInv, SeenDownInv,
  SettleInv, MarkInv, AnswerIsProof, Excess, Ops, Steps, Selection, Reconciled, Grants, rows,
  kept, config, child, selection, locals, ApplySteps

\* Every step keeps the invariant: loads are guarded, observations hold until they are used,
\* and the marker is cleared only on proof.
LEMMA StepInv == IInv /\ [Next]_vars => IInv'
<1> SUFFICES ASSUME IInv, [Next]_vars PROVE IInv'
  OBVIOUS
<1> USE DEF IInv
<1>1. CASE Connect
  BY <1>1 DEF Connect, TypeOK, StoreOK, FilesOK, ChildOK, ControlOK, LoadedInv, SeenDownInv,
    SettleInv, MarkInv, AnswerIsProof, Excess, Ops, Steps, Selection, Reconciled, Grants,
    rows, kept, config, child, selection, locals, ApplySteps, Free, Begin
<1>2. CASE Disconnect
  BY <1>2 DEF Disconnect, TypeOK, StoreOK, FilesOK, ChildOK, ControlOK, LoadedInv,
    SeenDownInv, SettleInv, MarkInv, AnswerIsProof, Excess, Ops, Steps, Selection,
    Reconciled, Grants, rows, kept, config, child, selection, locals, ApplySteps, Free
<1>3. CASE DeleteNode
  BY <1>3 DEF DeleteNode, TypeOK, StoreOK, FilesOK, ChildOK, ControlOK, LoadedInv,
    SeenDownInv, SettleInv, MarkInv, AnswerIsProof, Excess, Ops, Steps, Selection,
    Reconciled, Grants, rows, kept, config, child, selection, locals, ApplySteps, Free
<1>4. CASE XrayStart
  BY <1>4 DEF XrayStart, TypeOK, StoreOK, FilesOK, ChildOK, ControlOK, LoadedInv,
    SeenDownInv, SettleInv, MarkInv, AnswerIsProof, Excess, Ops, Steps, Selection,
    Reconciled, Grants, rows, kept, config, child, selection, locals, ApplySteps, Free,
    Begin, Tidied
<1>5. CASE XrayStop
  <2>1. TypeOK'
    <3>1. StoreOK'
      BY <1>5, StopFacts DEF XrayStop, TypeOK, StoreOK, ControlOK, ApplySteps,
        Selection, Grants, rows, kept, config, child, selection, locals, Free, ChildOK
    <3>2. FilesOK'
      BY <1>5, StopFacts DEF XrayStop, TypeOK, StoreOK, FilesOK, Grants, rows, kept,
        config, child, selection, locals, Free, ChildOK
    <3>3. ChildOK'
      BY <1>5, StopFacts, Zenon DEF XrayStop, TypeOK, StoreOK, ChildOK, Grants, rows, kept,
        config, child, selection, locals, Free
    <3>4. ControlOK'
      BY <1>5, StopFacts DEF XrayStop, TypeOK, StoreOK, ControlOK, Ops, Steps,
        ApplySteps, Reconciled, rows, kept, config, child, selection, locals, Free,
        ChildOK
    <3> QED BY <1>5, <3>1, <3>2, <3>3, <3>4 DEF XrayStop, TypeOK, ChildOK
  <2>2. LoadedInv' /\ SeenDownInv' /\ SettleInv'
    BY <1>5, StopFacts DEF XrayStop, TypeOK, StoreOK, FilesOK, ChildOK, ControlOK,
      LoadedInv, SeenDownInv, SettleInv, Reconciled, rows, kept, config, child, selection,
      locals, Free
  <2>3. MarkInv' /\ AnswerIsProof'
    BY <1>5, StopFacts, Zenon DEF XrayStop, TypeOK, StoreOK, FilesOK, ChildOK, ControlOK,
      LoadedInv, SeenDownInv, SettleInv, MarkInv, AnswerIsProof, Excess, Reconciled,
      Grants, rows, kept, config, child, selection, locals, Free
  <2> QED BY <2>1, <2>2, <2>3
<1>6. CASE Rollback
  BY <1>6 DEF Rollback, TypeOK, StoreOK, FilesOK, ChildOK, ControlOK, LoadedInv,
    SeenDownInv, SettleInv, MarkInv, AnswerIsProof, Excess, Ops, Steps, Selection,
    Reconciled, Grants, rows, kept, config, child, selection, locals, ApplySteps, Free,
    Begin, Clean
<1>7. CASE ApplyWrite
  BY <1>7 DEF ApplyWrite, TypeOK, StoreOK, FilesOK, ChildOK, ControlOK, LoadedInv,
    SeenDownInv, SettleInv, MarkInv, AnswerIsProof, Excess, Ops, Steps, Selection,
    Reconciled, Grants, rows, kept, config, child, selection, locals, ApplySteps, Goto
<1>8. CASE ApplyReload
  <2>1. TypeOK'
    <3>1. StoreOK'
      BY <1>8, ReloadFacts DEF ApplyReload, TypeOK, StoreOK, ControlOK, ApplySteps,
        Selection, Grants, rows, kept, config, child, selection, locals, Goto, ChildOK,
        FilesOK
    <3>2. FilesOK'
      BY <1>8, ReloadFacts, Zenon DEF ApplyReload, TypeOK, StoreOK, FilesOK, Grants, rows,
        kept, config, child, selection, locals, Goto, ChildOK
    <3>3. ChildOK'
      BY <1>8, ReloadFacts, Zenon DEF ApplyReload
    <3>4. ControlOK'
      BY <1>8, ReloadFacts DEF ApplyReload, TypeOK, StoreOK, ControlOK, Ops, Steps,
        ApplySteps, Reconciled, rows, kept, config, child, selection, locals, Goto,
        ChildOK, FilesOK
    <3> QED BY <1>8, <3>1, <3>2, <3>3, <3>4 DEF ApplyReload, TypeOK, ChildOK
  <2>2. LoadedInv' /\ SeenDownInv' /\ SettleInv'
    BY <1>8, ReloadFacts, Zenon DEF ApplyReload, TypeOK, StoreOK, FilesOK, ChildOK, ControlOK,
      LoadedInv, SeenDownInv, SettleInv, Reconciled, rows, kept, config, child, selection,
      locals, Goto
  <2>3. MarkInv' /\ AnswerIsProof'
    BY <1>8, ReloadFacts, Zenon DEF ApplyReload, TypeOK, StoreOK, FilesOK, ChildOK, ControlOK,
      LoadedInv, SeenDownInv, SettleInv, MarkInv, AnswerIsProof, Excess, Reconciled,
      Grants, rows, kept, config, child, selection, locals, Goto
  <2> QED BY <2>1, <2>2, <2>3
<1>9. CASE ApplyNet
  BY <1>9 DEF ApplyNet, TypeOK, StoreOK, FilesOK, ChildOK, ControlOK, LoadedInv,
    SeenDownInv, SettleInv, MarkInv, AnswerIsProof, Excess, Ops, Steps, Selection,
    Reconciled, Grants, rows, kept, config, child, selection, locals, ApplySteps, Goto
<1>10. CASE ApplyUndo
  BY <1>10 DEF ApplyUndo, TypeOK, StoreOK, FilesOK, ChildOK, ControlOK, LoadedInv,
    SeenDownInv, SettleInv, MarkInv, AnswerIsProof, Excess, Ops, Steps, Selection,
    Reconciled, Grants, rows, kept, config, child, selection, locals, ApplySteps, Goto
<1>11. CASE ApplyRestore
  <2>1. TypeOK'
    <3>1. StoreOK'
      BY <1>11, ReloadFacts DEF ApplyRestore, TypeOK, StoreOK, ControlOK, ApplySteps,
        Selection, Grants, rows, kept, config, child, selection, locals, Goto, ChildOK,
        FilesOK
    <3>2. FilesOK'
      BY <1>11, ReloadFacts, Zenon DEF ApplyRestore, TypeOK, StoreOK, FilesOK, Grants, rows,
        kept, config, child, selection, locals, Goto, ChildOK
    <3>3. ChildOK'
      BY <1>11, ReloadFacts, Zenon DEF ApplyRestore
    <3>4. ControlOK'
      BY <1>11, ReloadFacts DEF ApplyRestore, TypeOK, StoreOK, ControlOK, Ops, Steps,
        ApplySteps, Reconciled, rows, kept, config, child, selection, locals, Goto,
        ChildOK, FilesOK
    <3> QED BY <1>11, <3>1, <3>2, <3>3, <3>4 DEF ApplyRestore, TypeOK, ChildOK
  <2>2. LoadedInv' /\ SeenDownInv' /\ SettleInv'
    BY <1>11, ReloadFacts DEF ApplyRestore, TypeOK, StoreOK, FilesOK, ChildOK, ControlOK,
      LoadedInv, SeenDownInv, SettleInv, Reconciled, rows, kept, config, child, selection,
      locals, Goto
  <2>3. MarkInv' /\ AnswerIsProof'
    BY <1>11, ReloadFacts, Zenon DEF ApplyRestore, TypeOK, StoreOK, FilesOK, ChildOK, ControlOK,
      LoadedInv, SeenDownInv, SettleInv, MarkInv, AnswerIsProof, Excess, Reconciled,
      Grants, rows, kept, config, child, selection, locals, Goto
  <2> QED BY <2>1, <2>2, <2>3
<1>12. CASE ApplyStop
  <2>1. TypeOK'
    <3>1. StoreOK'
      BY <1>12, StopFacts DEF ApplyStop, TypeOK, StoreOK, ControlOK, ApplySteps,
        Selection, Grants, rows, kept, config, child, selection, locals, Goto, ChildOK
    <3>2. FilesOK'
      BY <1>12, StopFacts DEF ApplyStop, TypeOK, StoreOK, FilesOK, Grants, rows, kept,
        config, child, selection, locals, Goto, ChildOK
    <3>3. ChildOK'
      BY <1>12, StopFacts, Zenon DEF ApplyStop, TypeOK, StoreOK, ChildOK, Grants, rows, kept,
        config, child, selection, locals, Goto
    <3>4. ControlOK'
      BY <1>12, StopFacts DEF ApplyStop, TypeOK, StoreOK, ControlOK, Ops, Steps,
        ApplySteps, Reconciled, rows, kept, config, child, selection, locals, Goto,
        ChildOK
    <3> QED BY <1>12, <3>1, <3>2, <3>3, <3>4 DEF ApplyStop, TypeOK, ChildOK
  <2>2. LoadedInv' /\ SeenDownInv' /\ SettleInv'
    BY <1>12, StopFacts DEF ApplyStop, TypeOK, StoreOK, FilesOK, ChildOK, ControlOK,
      LoadedInv, SeenDownInv, SettleInv, Reconciled, rows, kept, config, child, selection,
      locals, Goto
  <2>3. MarkInv' /\ AnswerIsProof'
    BY <1>12, StopFacts, Zenon DEF ApplyStop, TypeOK, StoreOK, FilesOK, ChildOK, ControlOK,
      LoadedInv, SeenDownInv, SettleInv, MarkInv, AnswerIsProof, Excess, Reconciled,
      Grants, rows, kept, config, child, selection, locals, Goto
  <2> QED BY <2>1, <2>2, <2>3
<1>13. CASE ApplyDone
  <2>1. TypeOK'
    <3>1. StoreOK'
      BY <1>13, Zenon DEF ApplyDone, TypeOK, StoreOK, ControlOK, ApplySteps, Selection, Grants,
        rows, kept, config, child, selection, locals, Goto, End, Cleared, OrIf
    <3>2. FilesOK'
      BY <1>13 DEF ApplyDone, TypeOK, StoreOK, FilesOK, Grants, rows, kept, config,
        child, selection, locals, Goto, End, Cleared, OrIf
    <3>3. ChildOK'
      BY <1>13 DEF ApplyDone, TypeOK, StoreOK, ChildOK, Grants, rows, kept, config,
        child, selection, locals, Goto, End, Cleared, OrIf
    <3>4. ControlOK'
      BY <1>13 DEF ApplyDone, TypeOK, StoreOK, ControlOK, Ops, Steps, ApplySteps,
        Reconciled, rows, kept, config, child, selection, locals, Goto, End, Cleared,
        OrIf
    <3> QED BY <1>13, <3>1, <3>2, <3>3, <3>4 DEF ApplyDone, TypeOK, ChildOK
  <2>2. LoadedInv' /\ SeenDownInv' /\ SettleInv'
    BY <1>13 DEF ApplyDone, TypeOK, StoreOK, FilesOK, ChildOK, ControlOK, LoadedInv,
      SeenDownInv, SettleInv, Reconciled, rows, kept, config, child, selection, locals,
      Goto, End, Cleared, OrIf
  <2>3. MarkInv' /\ AnswerIsProof'
    BY <1>13 DEF ApplyDone, TypeOK, StoreOK, FilesOK, ChildOK, ControlOK, LoadedInv,
      SeenDownInv, SettleInv, MarkInv, AnswerIsProof, Excess, Reconciled, Grants, rows,
      kept, config, child, selection, locals, Goto, End, Cleared, OrIf
  <2> QED BY <2>1, <2>2, <2>3
<1>14. CASE ApplyFailed
  BY <1>14 DEF ApplyFailed, TypeOK, StoreOK, FilesOK, ChildOK, ControlOK, LoadedInv,
    SeenDownInv, SettleInv, MarkInv, AnswerIsProof, Excess, Ops, Steps, Selection,
    Reconciled, Grants, rows, kept, config, child, selection, locals, ApplySteps, Goto, End
<1>15. CASE BareStart
  <2>1. TypeOK'
    <3>1. StoreOK'
      BY <1>15, SpawnFacts, GuardFacts, WriteFacts DEF BareStart, TypeOK, StoreOK,
        ControlOK, ApplySteps, Selection, Grants, rows, kept, config, child, selection,
        locals, End, ChildOK, FilesOK, NotSpawned, GuardRefuses, SameChild
    <3>2. FilesOK'
      BY <1>15, SpawnFacts, GuardFacts, WriteFacts, Zenon DEF BareStart, TypeOK, StoreOK,
        FilesOK, Grants, rows, kept, config, child, selection, locals, End, ChildOK,
        NotSpawned, GuardRefuses, SameChild
    <3>3. ChildOK'
      BY <1>15, SpawnFacts, Zenon DEF BareStart, NotSpawned, child, SameChild, TypeOK, ChildOK
    <3>4. ControlOK'
      BY <1>15, SpawnFacts, GuardFacts, WriteFacts DEF BareStart, TypeOK, StoreOK,
        ControlOK, Ops, Steps, ApplySteps, Reconciled, rows, kept, config, child,
        selection, locals, End, ChildOK, FilesOK, NotSpawned, GuardRefuses, SameChild
    <3> QED BY <1>15, <3>1, <3>2, <3>3, <3>4 DEF BareStart, TypeOK, ChildOK
  <2>2. LoadedInv' /\ SeenDownInv' /\ SettleInv'
    BY <1>15, SpawnFacts, GuardFacts, WriteFacts DEF BareStart, TypeOK, StoreOK, FilesOK,
      ChildOK, ControlOK, LoadedInv, SeenDownInv, SettleInv, Reconciled, rows, kept,
      config, child, selection, locals, End, NotSpawned, GuardRefuses, SameChild
  <2>3. MarkInv' /\ AnswerIsProof'
    BY <1>15, SpawnFacts, GuardFacts, WriteFacts, Zenon DEF BareStart, TypeOK, StoreOK, FilesOK,
      ChildOK, ControlOK, LoadedInv, SeenDownInv, SettleInv, MarkInv, AnswerIsProof,
      Excess, Reconciled, Grants, rows, kept, config, child, selection, locals, End,
      NotSpawned, GuardRefuses, SameChild
  <2> QED BY <2>1, <2>2, <2>3
<1>16. CASE RollbackReload
  <2>1. TypeOK'
    <3>1. StoreOK'
      BY <1>16, ReloadFacts DEF RollbackReload, TypeOK, StoreOK, ControlOK, ApplySteps,
        Selection, Grants, rows, kept, config, child, selection, locals, Goto, ChildOK,
        FilesOK
    <3>2. FilesOK'
      BY <1>16, ReloadFacts, Zenon DEF RollbackReload, TypeOK, StoreOK, FilesOK, Grants, rows,
        kept, config, child, selection, locals, Goto, ChildOK
    <3>3. ChildOK'
      BY <1>16, ReloadFacts, Zenon DEF RollbackReload
    <3>4. ControlOK'
      BY <1>16, ReloadFacts DEF RollbackReload, TypeOK, StoreOK, ControlOK, Ops, Steps,
        ApplySteps, Reconciled, rows, kept, config, child, selection, locals, Goto,
        ChildOK, FilesOK
    <3> QED BY <1>16, <3>1, <3>2, <3>3, <3>4 DEF RollbackReload, TypeOK, ChildOK
  <2>2. LoadedInv' /\ SeenDownInv' /\ SettleInv'
    BY <1>16, ReloadFacts DEF RollbackReload, TypeOK, StoreOK, FilesOK, ChildOK,
      ControlOK, LoadedInv, SeenDownInv, SettleInv, Reconciled, rows, kept, config, child,
      selection, locals, Goto
  <2>3. MarkInv' /\ AnswerIsProof'
    BY <1>16, ReloadFacts, Zenon DEF RollbackReload, TypeOK, StoreOK, FilesOK, ChildOK,
      ControlOK, LoadedInv, SeenDownInv, SettleInv, MarkInv, AnswerIsProof, Excess,
      Reconciled, Grants, rows, kept, config, child, selection, locals, Goto
  <2> QED BY <2>1, <2>2, <2>3
<1>17. CASE RollbackStop
  <2>1. TypeOK'
    <3>1. StoreOK'
      BY <1>17, StopFacts DEF RollbackStop, TypeOK, StoreOK, ControlOK, ApplySteps,
        Selection, Grants, rows, kept, config, child, selection, locals, Goto, End,
        ChildOK
    <3>2. FilesOK'
      BY <1>17, StopFacts DEF RollbackStop, TypeOK, StoreOK, FilesOK, Grants, rows,
        kept, config, child, selection, locals, Goto, End, ChildOK
    <3>3. ChildOK'
      BY <1>17, StopFacts, Zenon DEF RollbackStop, TypeOK, StoreOK, ChildOK, Grants, rows,
        kept, config, child, selection, locals, Goto, End
    <3>4. ControlOK'
      BY <1>17, StopFacts DEF RollbackStop, TypeOK, StoreOK, ControlOK, Ops, Steps,
        ApplySteps, Reconciled, rows, kept, config, child, selection, locals, Goto, End,
        ChildOK
    <3> QED BY <1>17, <3>1, <3>2, <3>3, <3>4 DEF RollbackStop, TypeOK, ChildOK
  <2>2. LoadedInv' /\ SeenDownInv' /\ SettleInv'
    BY <1>17, StopFacts DEF RollbackStop, TypeOK, StoreOK, FilesOK, ChildOK, ControlOK,
      LoadedInv, SeenDownInv, SettleInv, Reconciled, rows, kept, config, child, selection,
      locals, Goto, End
  <2>3. MarkInv' /\ AnswerIsProof'
    BY <1>17, StopFacts, Zenon DEF RollbackStop, TypeOK, StoreOK, FilesOK, ChildOK, ControlOK,
      LoadedInv, SeenDownInv, SettleInv, MarkInv, AnswerIsProof, Excess, Reconciled,
      Grants, rows, kept, config, child, selection, locals, Goto, End
  <2> QED BY <2>1, <2>2, <2>3
<1>18. CASE RollbackAbort
  <2>1. TypeOK'
    <3>1. StoreOK'
      BY <1>18, StopFacts DEF RollbackAbort, TypeOK, StoreOK, ControlOK, ApplySteps,
        Selection, Grants, rows, kept, config, child, selection, locals, End, ChildOK
    <3>2. FilesOK'
      BY <1>18, StopFacts DEF RollbackAbort, TypeOK, StoreOK, FilesOK, Grants, rows,
        kept, config, child, selection, locals, End, ChildOK
    <3>3. ChildOK'
      BY <1>18, StopFacts, Zenon DEF RollbackAbort, TypeOK, StoreOK, ChildOK, Grants, rows,
        kept, config, child, selection, locals, End
    <3>4. ControlOK'
      BY <1>18, StopFacts DEF RollbackAbort, TypeOK, StoreOK, ControlOK, Ops, Steps,
        ApplySteps, Reconciled, rows, kept, config, child, selection, locals, End,
        ChildOK
    <3> QED BY <1>18, <3>1, <3>2, <3>3, <3>4 DEF RollbackAbort, TypeOK, ChildOK
  <2>2. LoadedInv' /\ SeenDownInv' /\ SettleInv'
    BY <1>18, StopFacts DEF RollbackAbort, TypeOK, StoreOK, FilesOK, ChildOK, ControlOK,
      LoadedInv, SeenDownInv, SettleInv, Reconciled, rows, kept, config, child, selection,
      locals, End
  <2>3. MarkInv' /\ AnswerIsProof'
    BY <1>18, StopFacts, Zenon DEF RollbackAbort, TypeOK, StoreOK, FilesOK, ChildOK, ControlOK,
      LoadedInv, SeenDownInv, SettleInv, MarkInv, AnswerIsProof, Excess, Reconciled,
      Grants, rows, kept, config, child, selection, locals, End
  <2> QED BY <2>1, <2>2, <2>3
<1>19. CASE RollbackDone
  BY <1>19 DEF RollbackDone, TypeOK, StoreOK, FilesOK, ChildOK, ControlOK, LoadedInv,
    SeenDownInv, SettleInv, MarkInv, AnswerIsProof, Excess, Ops, Steps, Selection,
    Reconciled, Grants, rows, kept, config, child, selection, locals, ApplySteps, End
<1>20. CASE Sample
  BY <1>20 DEF Sample, TypeOK, StoreOK, FilesOK, ChildOK, ControlOK, LoadedInv, SeenDownInv,
    SettleInv, MarkInv, AnswerIsProof, Excess, Ops, Steps, Selection, Reconciled, Grants,
    rows, kept, config, child, selection, locals, ApplySteps, Goto, Sampled, OrIf, Tidied
<1>21. CASE Resample
  BY <1>21 DEF Resample, TypeOK, StoreOK, FilesOK, ChildOK, ControlOK, LoadedInv,
    SeenDownInv, SettleInv, MarkInv, AnswerIsProof, Excess, Ops, Steps, Selection,
    Reconciled, Grants, rows, kept, config, child, selection, locals, ApplySteps, Goto,
    Sampled, OrIf, Outcome
<1>22. CASE Push
  <2>1. TypeOK'
    <3>1. StoreOK'
      BY <1>22, WriteFacts DEF Push, TypeOK, StoreOK, ControlOK, ApplySteps, Selection,
        Grants, rows, kept, config, child, selection, locals, Goto, Outcome, FilesOK
    <3>2. FilesOK'
      BY <1>22, WriteFacts DEF Push, TypeOK, StoreOK, FilesOK, Grants, rows, kept,
        config, child, selection, locals, Goto, Outcome
    <3>3. ChildOK'
      BY <1>22, WriteFacts DEF Push, TypeOK, StoreOK, ChildOK, Grants, rows, kept,
        config, child, selection, locals, Goto, Outcome, FilesOK
    <3>4. ControlOK'
      BY <1>22, WriteFacts DEF Push, TypeOK, StoreOK, ControlOK, Ops, Steps, ApplySteps,
        Reconciled, rows, kept, config, child, selection, locals, Goto, Outcome, FilesOK
    <3> QED BY <1>22, <3>1, <3>2, <3>3, <3>4 DEF Push, TypeOK, ChildOK
  <2>2. LoadedInv' /\ SeenDownInv' /\ SettleInv'
    BY <1>22, WriteFacts DEF Push, TypeOK, StoreOK, FilesOK, ChildOK, ControlOK,
      LoadedInv, SeenDownInv, SettleInv, Reconciled, rows, kept, config, child, selection,
      locals, Goto, Outcome
  <2>3. MarkInv' /\ AnswerIsProof'
    BY <1>22, WriteFacts DEF Push, TypeOK, StoreOK, FilesOK, ChildOK, ControlOK,
      LoadedInv, SeenDownInv, SettleInv, MarkInv, AnswerIsProof, Excess, Reconciled,
      Grants, rows, kept, config, child, selection, locals, Goto, Outcome
  <2> QED BY <2>1, <2>2, <2>3
<1>23. CASE PushReload
  <2>1. TypeOK'
    <3>1. StoreOK'
      BY <1>23, ReloadFacts DEF PushReload, TypeOK, StoreOK, ControlOK, ApplySteps,
        Selection, Grants, rows, kept, config, child, selection, locals, Goto, Outcome,
        ChildOK, FilesOK
    <3>2. FilesOK'
      BY <1>23, ReloadFacts, Zenon DEF PushReload, TypeOK, StoreOK, FilesOK, Grants, rows,
        kept, config, child, selection, locals, Goto, Outcome, ChildOK
    <3>3. ChildOK'
      BY <1>23, ReloadFacts, Zenon DEF PushReload, child, TypeOK, ChildOK
    <3>4. ControlOK'
      BY <1>23, ReloadFacts DEF PushReload, TypeOK, StoreOK, ControlOK, Ops, Steps,
        ApplySteps, Reconciled, rows, kept, config, child, selection, locals, Goto,
        Outcome, ChildOK, FilesOK
    <3> QED BY <1>23, <3>1, <3>2, <3>3, <3>4 DEF PushReload, TypeOK, ChildOK
  <2>2. LoadedInv' /\ SeenDownInv' /\ SettleInv'
    BY <1>23, ReloadFacts DEF PushReload, TypeOK, StoreOK, FilesOK, ChildOK, ControlOK,
      LoadedInv, SeenDownInv, SettleInv, Reconciled, rows, kept, config, child, selection,
      locals, Goto, Outcome
  <2>3. MarkInv' /\ AnswerIsProof'
    BY <1>23, ReloadFacts, Zenon DEF PushReload, TypeOK, StoreOK, FilesOK, ChildOK, ControlOK,
      LoadedInv, SeenDownInv, SettleInv, MarkInv, AnswerIsProof, Excess, Reconciled,
      Grants, rows, kept, config, child, selection, locals, Goto, Outcome
  <2> QED BY <2>1, <2>2, <2>3
<1>24. CASE FailSafeStop
  <2>1. TypeOK'
    <3>1. StoreOK'
      BY <1>24, StopFacts DEF FailSafeStop, TypeOK, StoreOK, ControlOK, ApplySteps,
        Selection, Grants, rows, kept, config, child, selection, locals, Goto, Outcome,
        ChildOK
    <3>2. FilesOK'
      BY <1>24, StopFacts DEF FailSafeStop, TypeOK, StoreOK, FilesOK, Grants, rows,
        kept, config, child, selection, locals, Goto, Outcome, ChildOK
    <3>3. ChildOK'
      BY <1>24, StopFacts, Zenon DEF FailSafeStop, TypeOK, StoreOK, ChildOK, Grants, rows,
        kept, config, child, selection, locals, Goto, Outcome
    <3>4. ControlOK'
      BY <1>24, StopFacts DEF FailSafeStop, TypeOK, StoreOK, ControlOK, Ops, Steps,
        ApplySteps, Reconciled, rows, kept, config, child, selection, locals, Goto,
        Outcome, ChildOK
    <3> QED BY <1>24, <3>1, <3>2, <3>3, <3>4 DEF FailSafeStop, TypeOK, ChildOK
  <2>2. LoadedInv' /\ SeenDownInv' /\ SettleInv'
    BY <1>24, StopFacts DEF FailSafeStop, TypeOK, StoreOK, FilesOK, ChildOK, ControlOK,
      LoadedInv, SeenDownInv, SettleInv, Reconciled, rows, kept, config, child, selection,
      locals, Goto, Outcome
  <2>3. MarkInv' /\ AnswerIsProof'
    BY <1>24, StopFacts, Zenon DEF FailSafeStop, TypeOK, StoreOK, FilesOK, ChildOK, ControlOK,
      LoadedInv, SeenDownInv, SettleInv, MarkInv, AnswerIsProof, Excess, Reconciled,
      Grants, rows, kept, config, child, selection, locals, Goto, Outcome
  <2> QED BY <2>1, <2>2, <2>3
<1>25. CASE Sweep
  BY <1>25 DEF Sweep, TypeOK, StoreOK, FilesOK, ChildOK, ControlOK, LoadedInv, SeenDownInv,
    SettleInv, MarkInv, AnswerIsProof, Excess, Ops, Steps, Selection, Reconciled, Grants,
    rows, kept, config, child, selection, locals, ApplySteps, Settling, Back, Goto, End,
    OrIf
<1>26. CASE DropUnsafe
  BY <1>26 DEF DropUnsafe, TypeOK, StoreOK, FilesOK, ChildOK, ControlOK, LoadedInv,
    SeenDownInv, SettleInv, MarkInv, AnswerIsProof, Excess, Ops, Steps, Selection,
    Reconciled, Grants, rows, kept, config, child, selection, locals, ApplySteps, Settling,
    Back, Goto, End, OrIf
<1>27. CASE Settle
  <2>1. TypeOK'
    <3>1. StoreOK'
      BY <1>27, Zenon DEF Settle, TypeOK, StoreOK, ControlOK, ApplySteps, Selection, Grants,
        rows, kept, config, child, selection, locals, Back, Goto, End, Cleared, OrIf
    <3>2. FilesOK'
      BY <1>27 DEF Settle, TypeOK, StoreOK, FilesOK, Grants, rows, kept, config, child,
        selection, locals, Back, Goto, End, Cleared, OrIf
    <3>3. ChildOK'
      BY <1>27 DEF Settle, TypeOK, StoreOK, ChildOK, Grants, rows, kept, config, child,
        selection, locals, Back, Goto, End, Cleared, OrIf
    <3>4. ControlOK'
      BY <1>27 DEF Settle, TypeOK, StoreOK, ControlOK, Ops, Steps, ApplySteps,
        Reconciled, rows, kept, config, child, selection, locals, Back, Goto, End,
        Cleared, OrIf
    <3> QED BY <1>27, <3>1, <3>2, <3>3, <3>4 DEF Settle, TypeOK, ChildOK
  <2>2. LoadedInv' /\ SeenDownInv' /\ SettleInv'
    BY <1>27 DEF Settle, TypeOK, StoreOK, FilesOK, ChildOK, ControlOK, LoadedInv,
      SeenDownInv, SettleInv, Reconciled, rows, kept, config, child, selection, locals,
      Back, Goto, End, Cleared, OrIf
  <2>3. MarkInv' /\ AnswerIsProof'
    BY <1>27 DEF Settle, TypeOK, StoreOK, FilesOK, ChildOK, ControlOK, LoadedInv,
      SeenDownInv, SettleInv, MarkInv, AnswerIsProof, Excess, Reconciled, Grants, rows,
      kept, config, child, selection, locals, Back, Goto, End, Cleared, OrIf
  <2> QED BY <2>1, <2>2, <2>3
<1>28. CASE Boot
  BY <1>28 DEF Boot, TypeOK, StoreOK, FilesOK, ChildOK, ControlOK, LoadedInv, SeenDownInv,
    SettleInv, MarkInv, AnswerIsProof, Excess, Ops, Steps, Selection, Reconciled, Grants,
    rows, kept, config, child, selection, locals, ApplySteps, Goto
<1>29. CASE BootApply
  BY <1>29 DEF BootApply, TypeOK, StoreOK, FilesOK, ChildOK, ControlOK, LoadedInv,
    SeenDownInv, SettleInv, MarkInv, AnswerIsProof, Excess, Ops, Steps, Selection,
    Reconciled, Grants, rows, kept, config, child, selection, locals, ApplySteps, Goto, End,
    Tidied
<1>30. CASE Reconcile
  <2>1. TypeOK'
    <3>1. StoreOK'
      BY <1>30, Zenon DEF Reconcile, TypeOK, StoreOK, ControlOK, ApplySteps, Selection, Grants,
        rows, kept, config, child, selection, locals, Free, Begin
    <3>2. FilesOK'
      BY <1>30 DEF Reconcile, TypeOK, StoreOK, FilesOK, Grants, rows, kept, config,
        child, selection, locals, Free, Begin
    <3>3. ChildOK'
      BY <1>30 DEF Reconcile, TypeOK, StoreOK, ChildOK, Grants, rows, kept, config,
        child, selection, locals, Free, Begin
    <3>4. ControlOK'
      BY <1>30 DEF Reconcile, TypeOK, StoreOK, ControlOK, Ops, Steps, ApplySteps,
        Reconciled, rows, kept, config, child, selection, locals, Free, Begin
    <3> QED BY <1>30, <3>1, <3>2, <3>3, <3>4 DEF Reconcile, TypeOK, ChildOK
  <2>2. LoadedInv' /\ SeenDownInv' /\ SettleInv'
    BY <1>30 DEF Reconcile, TypeOK, StoreOK, FilesOK, ChildOK, ControlOK, LoadedInv,
      SeenDownInv, SettleInv, Reconciled, rows, kept, config, child, selection, locals,
      Free, Begin
  <2>3. MarkInv' /\ AnswerIsProof'
    BY <1>30, Zenon DEF Reconcile, TypeOK, StoreOK, FilesOK, ChildOK, ControlOK, LoadedInv,
      SeenDownInv, SettleInv, MarkInv, AnswerIsProof, Excess, Reconciled, Grants, rows,
      kept, config, child, selection, locals, Free, Begin
  <2> QED BY <2>1, <2>2, <2>3
<1>31. CASE Watchdog
  <2>1. TypeOK'
    <3>1. StoreOK'
      BY <1>31, SpawnFacts DEF Watchdog, TypeOK, StoreOK, ControlOK, ApplySteps,
        Selection, Grants, rows, kept, config, child, selection, locals, Free, ChildOK,
        FilesOK
    <3>2. FilesOK'
      BY <1>31, SpawnFacts, Zenon DEF Watchdog, TypeOK, StoreOK, FilesOK, Grants, rows, kept,
        config, child, selection, locals, Free, ChildOK
    <3>3. ChildOK'
      BY <1>31, SpawnFacts, Zenon DEF Watchdog, TypeOK, ChildOK
    <3>4. ControlOK'
      BY <1>31, SpawnFacts DEF Watchdog, TypeOK, StoreOK, ControlOK, Ops, Steps,
        ApplySteps, Reconciled, rows, kept, config, child, selection, locals, Free,
        ChildOK, FilesOK
    <3> QED BY <1>31, <3>1, <3>2, <3>3, <3>4 DEF Watchdog, TypeOK, ChildOK
  <2>2. LoadedInv' /\ SeenDownInv' /\ SettleInv'
    BY <1>31, SpawnFacts DEF Watchdog, TypeOK, StoreOK, FilesOK, ChildOK, ControlOK,
      LoadedInv, SeenDownInv, SettleInv, Reconciled, rows, kept, config, child, selection,
      locals, Free
  <2>3. MarkInv' /\ AnswerIsProof'
    BY <1>31, SpawnFacts, Zenon DEF Watchdog, TypeOK, StoreOK, FilesOK, ChildOK, ControlOK,
      LoadedInv, SeenDownInv, SettleInv, MarkInv, AnswerIsProof, Excess, Reconciled,
      Grants, rows, kept, config, child, selection, locals, Free
  <2> QED BY <2>1, <2>2, <2>3
<1>32. CASE Dies
  <2>1. TypeOK'
    <3>1. StoreOK'
      BY <1>32 DEF Dies, TypeOK, StoreOK, ControlOK, ApplySteps, Selection, Grants,
        rows, kept, config, child, selection, locals, Down
    <3>2. FilesOK'
      BY <1>32 DEF Dies, TypeOK, StoreOK, FilesOK, Grants, rows, kept, config, child,
        selection, locals, Down
    <3>3. ChildOK'
      BY <1>32, Zenon DEF Dies, TypeOK, StoreOK, ChildOK, Grants, rows, kept, config, child,
        selection, locals, Down
    <3>4. ControlOK'
      BY <1>32 DEF Dies, TypeOK, StoreOK, ControlOK, Ops, Steps, ApplySteps, Reconciled,
        rows, kept, config, child, selection, locals, Down
    <3> QED BY <1>32, <3>1, <3>2, <3>3, <3>4 DEF Dies, TypeOK, ChildOK
  <2>2. LoadedInv' /\ SeenDownInv' /\ SettleInv'
    BY <1>32 DEF Dies, TypeOK, StoreOK, FilesOK, ChildOK, ControlOK, LoadedInv,
      SeenDownInv, SettleInv, Reconciled, rows, kept, config, child, selection, locals,
      Down
  <2>3. MarkInv' /\ AnswerIsProof'
    BY <1>32 DEF Dies, TypeOK, StoreOK, FilesOK, ChildOK, ControlOK, LoadedInv,
      SeenDownInv, SettleInv, MarkInv, AnswerIsProof, Excess, Reconciled, Grants, rows,
      kept, config, child, selection, locals, Down
  <2> QED BY <2>1, <2>2, <2>3
<1>33. CASE Wedge
  BY <1>33 DEF Wedge, TypeOK, StoreOK, FilesOK, ChildOK, ControlOK, LoadedInv, SeenDownInv,
    SettleInv, MarkInv, AnswerIsProof, Excess, Ops, Steps, Selection, Reconciled, Grants,
    rows, kept, config, child, selection, locals, ApplySteps
<1>34. CASE Crash
  <2>1. TypeOK'
    <3>1. StoreOK'
      BY <1>34 DEF Crash, TypeOK, StoreOK, ControlOK, ApplySteps, Selection, Grants,
        rows, kept, config, child, selection, locals, Begin, Down
    <3>2. FilesOK'
      BY <1>34 DEF Crash, TypeOK, StoreOK, FilesOK, Grants, rows, kept, config, child,
        selection, locals, Begin, Down
    <3>3. ChildOK'
      BY <1>34, Zenon DEF Crash, TypeOK, StoreOK, ChildOK, Grants, rows, kept, config, child,
        selection, locals, Begin, Down
    <3>4. ControlOK'
      BY <1>34 DEF Crash, TypeOK, StoreOK, ControlOK, Ops, Steps, ApplySteps,
        Reconciled, rows, kept, config, child, selection, locals, Begin, Down
    <3> QED BY <1>34, <3>1, <3>2, <3>3, <3>4 DEF Crash, TypeOK, ChildOK
  <2>2. LoadedInv' /\ SeenDownInv' /\ SettleInv'
    BY <1>34 DEF Crash, TypeOK, StoreOK, FilesOK, ChildOK, ControlOK, LoadedInv,
      SeenDownInv, SettleInv, Reconciled, rows, kept, config, child, selection, locals,
      Begin, Down
  <2>3. MarkInv' /\ AnswerIsProof'
    BY <1>34 DEF Crash, TypeOK, StoreOK, FilesOK, ChildOK, ControlOK, LoadedInv,
      SeenDownInv, SettleInv, MarkInv, AnswerIsProof, Excess, Reconciled, Grants, rows,
      kept, config, child, selection, locals, Begin, Down
  <2> QED BY <2>1, <2>2, <2>3
<1>35. CASE Garble
  BY <1>35 DEF Garble, TypeOK, StoreOK, FilesOK, ChildOK, ControlOK, LoadedInv, SeenDownInv,
    SettleInv, MarkInv, AnswerIsProof, Excess, Ops, Steps, Selection, Reconciled, Grants,
    rows, kept, config, child, selection, locals, ApplySteps, Free
<1>36. ASSUME NEW d \in Device, Widen(d) PROVE IInv'
  BY <1>36 DEF Widen, TypeOK, StoreOK, FilesOK, ChildOK, ControlOK, LoadedInv, SeenDownInv,
    SettleInv, MarkInv, AnswerIsProof, Excess, Ops, Steps, Selection, Reconciled, Grants,
    rows, kept, config, child, selection, locals, ApplySteps, Free, Begin, Tidied
<1>37. ASSUME NEW d \in Device, Narrow(d) PROVE IInv'
  BY <1>37 DEF Narrow, TypeOK, StoreOK, FilesOK, ChildOK, ControlOK, LoadedInv, SeenDownInv,
    SettleInv, MarkInv, AnswerIsProof, Excess, Ops, Steps, Selection, Reconciled, Grants,
    rows, kept, config, child, selection, locals, ApplySteps, Free, Begin, Tidied
<1>38. CASE UNCHANGED vars
  BY <1>38 DEF vars, TypeOK, StoreOK, FilesOK, ChildOK, ControlOK, LoadedInv, SeenDownInv,
    SettleInv, MarkInv, AnswerIsProof, Excess, Ops, Steps, Selection, Reconciled, Grants,
    rows, kept, config, child, selection, locals, ApplySteps, Free
<1> QED
  BY Zenon, <1>1, <1>2, <1>3, <1>4, <1>5, <1>6, <1>7, <1>8, <1>9, <1>10, <1>11, <1>12, <1>13,
    <1>14, <1>15, <1>16, <1>17, <1>18, <1>19, <1>20, <1>21, <1>22, <1>23, <1>24, <1>25,
    <1>26, <1>27, <1>28, <1>29, <1>30, <1>31, <1>32, <1>33, <1>34, <1>35, <1>36, <1>37,
    <1>38 DEF Next, Work

\* A step that brings a child up, or changes what it serves, serves only what is granted.
LEMMA StepLoads ==
    ASSUME TypeOK, [Next]_vars
    PROVE  up' /\ (~up \/ served' # served) => served' \subseteq granted'
<1>1. CASE XrayStop \/ ApplyStop \/ RollbackStop \/ RollbackAbort \/ FailSafeStop
  <2>1. StopOk \/ StopFails
    BY <1>1 DEF XrayStop, ApplyStop, RollbackStop, RollbackAbort, FailSafeStop
  <2> QED BY <2>1, StopFacts, Zenon
<1>2. CASE ApplyReload \/ ApplyRestore \/ RollbackReload \/ PushReload
  <2>1. UNCHANGED granted /\ (ReloadOk \/ ReloadFails \/ UNCHANGED child)
    BY <1>2 DEF ApplyReload, ApplyRestore, RollbackReload, PushReload, rows
  <2> QED BY <2>1, ReloadFacts, Zenon DEF child
<1>3. CASE Watchdog
  BY <1>3, SpawnFacts, Zenon DEF Watchdog, TypeOK, ChildOK, rows
<1>4. CASE BareStart
  <2>1. CASE UNCHANGED child
    BY <2>1 DEF child
  <2>2. CASE SameChild
    BY <2>2 DEF SameChild
  <2>3. CASE (Spawned \/ DiedAtBoot) /\ want' = TRUE
    BY <1>4, <2>3, SpawnFacts DEF BareStart, NotSpawned, rows
  <2> QED BY <1>4, <2>1, <2>2, <2>3, Zenon DEF BareStart
<1>5. CASE Dies \/ Crash
  BY <1>5 DEF Dies, Crash, Down
<1>6. CASE \/ Connect \/ Disconnect \/ DeleteNode \/ XrayStart \/ Rollback
           \/ ApplyWrite \/ ApplyNet \/ ApplyUndo \/ ApplyDone \/ ApplyFailed
           \/ RollbackDone \/ Sample \/ Resample \/ Push \/ Sweep \/ DropUnsafe \/ Settle
           \/ Boot \/ BootApply \/ Reconcile \/ Wedge \/ Garble \/ UNCHANGED vars
  <2>1. UNCHANGED <<up, served>>
    BY <1>6, Zenon DEF Connect, Disconnect, DeleteNode, XrayStart, Rollback, ApplyWrite, ApplyNet,
      ApplyUndo, ApplyDone, ApplyFailed, RollbackDone, Sample, Resample, Push, Sweep,
      DropUnsafe, Settle, Boot, BootApply, Reconcile, Wedge, Garble, vars, child
  <2> QED BY <2>1
<1>7. ASSUME NEW d \in Device, Widen(d) \/ Narrow(d) PROVE UNCHANGED <<up, served>>
  BY <1>7 DEF Widen, Narrow, child
<1> QED
  BY <1>1, <1>2, <1>3, <1>4, <1>5, <1>6, <1>7, Zenon DEF Next, Work

-----------------------------------------------------------------------------
(* The theorems.                                                           *)

\* The invariant holds throughout.
LEMMA Invariance == Spec => []IInv
<1>1. IInv /\ UNCHANGED vars => IInv'
  BY StepInv
<1> QED BY InitInv, StepInv, PTL DEF Spec

\* The store, the files, the child and the control state keep their types; in particular the
\* store outside a widening's transaction is the committed one.
THEOREM TypeCorrect == Spec => []TypeOK
<1>1. IInv => TypeOK
  BY DEF IInv
<1> QED BY <1>1, Invariance, PTL

\* Whatever is started, reloaded, restored, rolled back or restarted by the watchdog, no
\* process ever loads a config that grants a device the store does not.
THEOREM OnlyGrantedIsLoaded == Spec => LoadsOnlyGranted
<1>1. TypeOK /\ [Next]_vars => [up' /\ (~up \/ served' # served) => served' \subseteq granted']_vars
  BY StepLoads
<1> QED BY <1>1, TypeCorrect, PTL DEF Spec, LoadsOnlyGranted

\* _rw_revoke and its retry answer with an outcome that means done only when the supervised
\* process serves nothing the store does not grant.
THEOREM AnswersAreProofs == Spec => []AnswerIsProof
<1>1. IInv => AnswerIsProof
  BY DEF IInv
<1> QED BY <1>1, Invariance, PTL

\* Whenever apply_lock is free, a supervised process that serves a device the store does not
\* grant is marked for another attempt, unless a failed apply took that grant back.
THEOREM ExcessStaysMarked == Spec => []ExcessIsMarked
<1>1. IInv => ExcessIsMarked
  BY DEF IInv, MarkInv, ExcessIsMarked
<1> QED BY <1>1, Invariance, PTL

-----------------------------------------------------------------------------
(* What a revocation and its retry never do.                               *)

RuntimeSteps == {"resample", "push", "pushReload", "cleanReload", "failStop", "settle"}

RevokeSteps == RuntimeSteps \cup
    {"sample", "write", "reload", "net", "undo", "stop", "failed", "done", "sweep"}

\* A revocation never restores a previous config, and its retry never applies a node.
FlowInv ==
    /\ op = "revoke" => pc \in RevokeSteps
    /\ op = "reconcile" => pc \in RuntimeSteps \cup {"drop"}

\* A child that can be stopped is up only while it is wanted, and the rebuild of a revocation
\* begins with a child that is up, or still wanted after it died.
WantInv ==
    /\ "stuck" \notin Faults => stuck = FALSE /\ (up => want)
    /\ op = "revoke" /\ pc \in {"write", "reload"} => up \/ want

\* Every step of a revocation and of its retry leads to one of its own steps.
LEMMA FlowStep == TypeOK /\ FlowInv /\ [Next]_vars => FlowInv'
<1> SUFFICES ASSUME TypeOK, FlowInv, [Next]_vars PROVE FlowInv'
  OBVIOUS
<1>0. pc = "idle" <=> op = "none"
  BY DEF TypeOK, ControlOK
<1> USE DEF FlowInv, RevokeSteps, RuntimeSteps
<1>1. CASE Connect \/ XrayStart \/ Rollback \/ Reconcile
  BY <1>0, <1>1 DEF Connect, XrayStart, Rollback, Reconcile, Free, Begin
<1>2. CASE Disconnect \/ DeleteNode \/ XrayStop \/ Watchdog \/ Dies \/ Wedge \/ Garble
  BY <1>2 DEF Disconnect, DeleteNode, XrayStop, Watchdog, Dies, Wedge, Garble
<1>3. CASE BareStart \/ RollbackAbort \/ RollbackDone
  BY <1>3 DEF BareStart, RollbackAbort, RollbackDone, End
<1>4. CASE ApplyWrite \/ ApplyReload \/ ApplyNet \/ ApplyUndo \/ ApplyRestore \/ ApplyStop
  BY <1>4 DEF ApplyWrite, ApplyReload, ApplyNet, ApplyUndo, ApplyRestore, ApplyStop, Goto,
    Irreversible
<1>5. CASE ApplyDone \/ ApplyFailed
  BY <1>5 DEF ApplyDone, ApplyFailed, Goto, End
<1>6. CASE RollbackReload \/ RollbackStop \/ Boot \/ BootApply
  BY <1>6 DEF RollbackReload, RollbackStop, Boot, BootApply, Goto, End
<1>7. CASE Sample \/ Resample \/ Push \/ PushReload \/ FailSafeStop
  BY <1>7 DEF Sample, Resample, Push, PushReload, FailSafeStop, Outcome, Goto
<1>8. CASE Sweep \/ DropUnsafe \/ Settle
  BY <1>8 DEF Sweep, DropUnsafe, Settle, Settling, Back, Goto, End
<1>9. CASE Crash
  BY <1>9 DEF Crash, Begin
<1>10. ASSUME NEW d \in Device, Widen(d) \/ Narrow(d) PROVE FlowInv'
  BY <1>0, <1>10 DEF Widen, Narrow, Free, Begin
<1>11. CASE UNCHANGED vars
  BY <1>11 DEF vars
<1> QED BY <1>1, <1>2, <1>3, <1>4, <1>5, <1>6, <1>7, <1>8, <1>9, <1>10, <1>11, Zenon DEF Next, Work

\* Of the steps that change the child, a start leaves it wanted, a stop that succeeds leaves it
\* down, and one that fails needs a child beyond SIGKILL.
LEMMA WantStep ==
    ASSUME TypeOK, FlowInv, WantInv, [Next]_vars, ~({"stuck", "dies"} \subseteq Faults)
    PROVE  WantInv'
<1>0. pc = "idle" <=> op = "none"
  BY DEF TypeOK, ControlOK
<1> USE DEF WantInv
<1>1. CASE \/ Connect \/ Disconnect \/ DeleteNode \/ XrayStart \/ Rollback \/ Reconcile \/ Garble
           \/ ApplyWrite \/ ApplyNet \/ ApplyUndo \/ ApplyDone \/ ApplyFailed \/ RollbackDone
           \/ Resample \/ Push \/ Sweep \/ DropUnsafe \/ Settle \/ Boot \/ BootApply
  <2>1. UNCHANGED <<up, want, stuck>>
    BY <1>1, Zenon DEF Connect, Disconnect, DeleteNode, XrayStart, Rollback, Reconcile, Garble,
      ApplyWrite, ApplyNet, ApplyUndo, ApplyDone, ApplyFailed, RollbackDone, Resample, Push, Sweep,
      DropUnsafe, Settle, Boot, BootApply, child
  <2>2. op' = "revoke" /\ pc' \in {"write", "reload"} => op = "revoke" /\ pc \in {"write", "reload"}
    BY <1>0, <1>1 DEF Connect, Disconnect, DeleteNode, XrayStart, Rollback, Reconcile, Garble,
      ApplyWrite, ApplyNet, ApplyUndo, ApplyDone, ApplyFailed, RollbackDone, Resample, Push, Sweep,
      DropUnsafe, Settle, Settling, Back, Boot, BootApply, Outcome, Free, Begin, Goto, End,
      FlowInv, RevokeSteps, RuntimeSteps
  <2> QED BY <2>1, <2>2, Zenon
<1>2. CASE Sample
  BY <1>2 DEF Sample, Sampled, OrIf, child, Goto
<1>3. CASE XrayStop \/ ApplyStop \/ RollbackStop \/ RollbackAbort \/ FailSafeStop
  <2>1. (StopOk \/ StopFails)
    BY <1>3, Zenon DEF XrayStop, ApplyStop, RollbackStop, RollbackAbort, FailSafeStop
  <2>2. ~(op' = "revoke" /\ pc' \in {"write", "reload"})
    BY <1>0, <1>3 DEF XrayStop, ApplyStop, RollbackStop, RollbackAbort, FailSafeStop, Outcome, Free,
      Goto, End
  <2> QED BY <2>1, <2>2, Zenon DEF StopOk, StopFails, Down, SameChild
<1>4. CASE ApplyReload \/ ApplyRestore \/ RollbackReload \/ PushReload
  <2>1. ReloadOk \/ ReloadFails \/ UNCHANGED <<up, want, stuck>>
    BY <1>4, Zenon DEF ApplyReload, ApplyRestore, RollbackReload, PushReload, child
  <2>2. ~(op' = "revoke" /\ pc' \in {"write", "reload"})
    BY <1>4 DEF ApplyReload, ApplyRestore, RollbackReload, PushReload, Outcome, Goto
  <2>3. CASE ReloadOk
    BY <2>2, <2>3, Zenon DEF ReloadOk, Spawned
  <2>4. CASE ReloadFails
    BY <2>2, <2>4, Zenon DEF ReloadFails, NotSpawned, DiedAtBoot, Down, SameChild, OnlyIf
  <2>5. CASE UNCHANGED <<up, want, stuck>>
    BY <2>2, <2>5
  <2> QED BY <2>1, <2>3, <2>4, <2>5, Zenon
<1>5. CASE BareStart \/ Watchdog
  <2>1. ~(op' = "revoke" /\ pc' \in {"write", "reload"})
    BY <1>0, <1>5 DEF BareStart, Watchdog, Free, End
  <2>2. \/ UNCHANGED <<up, want, stuck>>
        \/ UNCHANGED <<up, stuck>> /\ want' = TRUE
        \/ (Spawned \/ NotSpawned) /\ want' = TRUE
    <3>1. CASE BareStart
      BY <3>1, Zenon DEF BareStart, NotSpawned, SameChild, child
    <3>2. CASE Watchdog
      <4>1. want' = TRUE
        BY <3>2 DEF Watchdog, TypeOK, ChildOK
      <4> QED BY <3>2, <4>1, Zenon DEF Watchdog
    <3> QED BY <1>5, <3>1, <3>2, Zenon
  <2>3. CASE UNCHANGED <<up, want, stuck>>
    BY <2>1, <2>3
  <2> QED BY <2>1, <2>2, <2>3, Zenon DEF Spawned, NotSpawned, DiedAtBoot, Down, OnlyIf
<1>6. CASE Dies
  <2>1. "stuck" \notin Faults
    BY <1>6 DEF Dies, OnlyIf
  <2>2. UNCHANGED <<op, pc, want>> /\ up /\ up' = FALSE /\ stuck' = FALSE
    BY <1>6 DEF Dies, Down
  <2> QED BY <2>1, <2>2
<1>7. CASE Wedge \/ Crash
  BY <1>7, Zenon DEF Wedge, Crash, OnlyIf, Begin, Down
<1>8. ASSUME NEW d \in Device, Widen(d) \/ Narrow(d) PROVE WantInv'
  BY <1>0, <1>8 DEF Widen, Narrow, Free, Begin, child
<1>9. CASE UNCHANGED vars
  BY <1>9 DEF vars, child
<1> QED BY <1>1, <1>2, <1>3, <1>4, <1>5, <1>6, <1>7, <1>8, <1>9, Zenon DEF Next, Work

\* Both invariants hold throughout.
LEMMA FlowHolds == Spec => []FlowInv
<1>1. Init => FlowInv
  BY DEF Init, FlowInv
<1> QED BY <1>1, FlowStep, TypeCorrect, PTL DEF Spec

LEMMA WantHolds ==
    ASSUME ~({"stuck", "dies"} \subseteq Faults)
    PROVE  Spec => []WantInv
<1>1. Init => WantInv
  BY Zenon DEF Init, WantInv
<1>2. TypeOK /\ FlowInv /\ WantInv /\ [Next]_vars => WantInv'
  BY WantStep
<1> QED BY <1>1, <1>2, FlowHolds, TypeCorrect, PTL DEF Spec

\* A step of a revocation or of its retry that finds the child down leaves it down, unless it is the
\* reload of a wanted one.
LEMMA StaysStopped ==
    ASSUME TypeOK, FlowInv, WantInv, [Next]_vars,
           ~up, op \in {"revoke", "reconcile"}, want => pc # "reload"
    PROVE  up' = FALSE
<1>0. pc # "idle" /\ pc \notin {"reload", "restore", "bare", "backReload"}
  BY DEF TypeOK, ControlOK, FlowInv, WantInv, RevokeSteps, RuntimeSteps
<1>1. up = FALSE
  BY DEF TypeOK, ChildOK
<1>2. CASE Connect \/ XrayStart \/ Rollback \/ Reconcile \/ Disconnect \/ DeleteNode \/ XrayStop
           \/ Watchdog \/ Garble \/ ApplyReload \/ ApplyRestore \/ BareStart \/ RollbackReload
  BY <1>0, <1>2, Zenon DEF Connect, XrayStart, Rollback, Reconcile, Disconnect, DeleteNode,
    XrayStop, Watchdog, Garble, Free, ApplyReload, ApplyRestore, BareStart, RollbackReload
<1>3. CASE ApplyStop \/ RollbackStop \/ RollbackAbort \/ FailSafeStop
  BY <1>1, <1>3, Zenon DEF ApplyStop, RollbackStop, RollbackAbort, FailSafeStop, StopOk, StopFails,
    Down, SameChild
<1>4. CASE PushReload
  BY <1>1, <1>4 DEF PushReload, child
<1>5. CASE \/ ApplyWrite \/ ApplyNet \/ ApplyUndo \/ ApplyDone \/ ApplyFailed \/ RollbackDone
           \/ Sample \/ Resample \/ Push \/ Sweep \/ DropUnsafe \/ Settle \/ Boot \/ BootApply
  <2>1. UNCHANGED up
    BY <1>5, Zenon DEF ApplyWrite, ApplyNet, ApplyUndo, ApplyDone, ApplyFailed, RollbackDone, Sample, Resample,
      Push, Sweep, DropUnsafe, Settle, Boot, BootApply, child
  <2> QED BY <1>1, <2>1
<1>6. CASE Dies \/ Wedge \/ Crash
  BY <1>1, <1>6 DEF Dies, Wedge, Crash, Down
<1>7. ASSUME NEW d \in Device, Widen(d) \/ Narrow(d) PROVE FALSE
  BY <1>0, <1>7 DEF Widen, Narrow, Free
<1>8. CASE UNCHANGED vars
  BY <1>1, <1>8 DEF vars, child
<1> QED BY <1>2, <1>3, <1>4, <1>5, <1>6, <1>7, <1>8, Zenon DEF Next, Work

\* _rw_revoke_apply and _rw_push_to_runtime never start an xray that is down, whatever fails, but by
\* the rebuild's reload of one that is still wanted; and not even then one stopped on purpose,
\* unless a child that outlived its own stop dies in the middle of the rebuild.
THEOREM StopIsRespected ==
    ASSUME ~({"stuck", "dies"} \subseteq Faults)
    PROVE  Spec => StoppedStaysStopped
<1>1. TypeOK /\ FlowInv /\ WantInv /\ [Next]_vars
        => [~up /\ op \in {"revoke", "reconcile"} /\ (want => pc # "reload") => up' = FALSE]_vars
  BY StaysStopped, Zenon
<1> QED BY <1>1, WantHolds, FlowHolds, TypeCorrect, PTL DEF Spec, StoppedStaysStopped

\* A step of a retry leaves the rollback target alone when the file is the store's and the target
\* grants nothing more.
LEMMA UndoKept ==
    ASSUME TypeOK, FlowInv, [Next]_vars,
           op = "reconcile", file = granted, undo # None, Clean(undo)
    PROVE  undo' = undo
<1>0. pc \in RuntimeSteps \cup {"drop"}
  BY DEF FlowInv
<1>1. Clean(file)
  BY DEF Clean
<1> USE DEF RuntimeSteps
<1>2. CASE Push
  BY <1>2 DEF Push, Rewritten, Unwritten, config
<1>3. CASE PushReload
  <2>1. UNCHANGED config \/ ReloadOk \/ ReloadFails
    BY <1>3, Zenon DEF PushReload
  <2>2. UNCHANGED config
    BY <1>1, <2>1, Zenon DEF ReloadOk, ReloadFails, Spawned, NotSpawned, DiedAtBoot, GuardPasses,
      GuardRefuses
  <2> QED BY <2>2 DEF config
<1>4. CASE DropUnsafe
  BY <1>4 DEF DropUnsafe
<1>5. CASE Resample \/ FailSafeStop \/ Settle \/ Dies \/ Wedge \/ Crash \/ UNCHANGED vars
  BY <1>5 DEF Resample, FailSafeStop, Settle, Dies, Wedge, Crash, vars, config
<1>6. CASE Connect \/ XrayStart \/ Rollback \/ Reconcile \/ Disconnect \/ DeleteNode \/ XrayStop
           \/ Watchdog \/ Garble
  BY <1>0, <1>6 DEF Connect, XrayStart, Rollback, Reconcile, Disconnect, DeleteNode, XrayStop,
    Watchdog, Garble, Free
<1>7. CASE \/ ApplyWrite \/ ApplyReload \/ ApplyNet \/ ApplyUndo \/ ApplyRestore \/ ApplyStop
           \/ ApplyDone \/ ApplyFailed \/ BareStart \/ RollbackReload \/ RollbackStop
           \/ RollbackAbort \/ RollbackDone \/ Sample \/ Sweep \/ Boot \/ BootApply
  BY <1>0, <1>7 DEF ApplyWrite, ApplyReload, ApplyNet, ApplyUndo, ApplyRestore, ApplyStop, ApplyDone,
    ApplyFailed, BareStart, RollbackReload, RollbackStop, RollbackAbort, RollbackDone, Sample, Sweep,
    Boot, BootApply
<1>8. ASSUME NEW d \in Device, Widen(d) \/ Narrow(d) PROVE FALSE
  BY <1>0, <1>8 DEF Widen, Narrow, Free
<1> QED BY <1>2, <1>3, <1>4, <1>5, <1>6, <1>7, <1>8, Zenon DEF Next, Work

\* _rw_drop_unsafe_rollback: a retry never costs the operator an undo that an ordinary apply
\* published after the marker and that grants nothing too much.
THEOREM SafeUndoSurvives == Spec => RetryKeepsSafeUndo
<1>1. TypeOK /\ FlowInv /\ [Next]_vars
        => [op = "reconcile" /\ file = granted /\ undo # None /\ Clean(undo) => undo' = undo]_vars
  BY UndoKept, Zenon
<1> QED BY <1>1, FlowHolds, TypeCorrect, PTL DEF Spec, RetryKeepsSafeUndo
----------------------------------------------------------------------------
(* How many calls an operation can still make                              *)

\* A boot reconciles and then applies; everything else applies and then, if it revokes, reconciles.
BootLeft(l) ==
    CASE l = "idle" -> 0
      [] l \in {"failed", "done", "bare", "backAbort", "backDone"} -> 1
      [] l \in {"stop", "backReload", "backStop"} -> 2
      [] l = "restore" -> 3
      [] l = "undo" -> 4
      [] l = "net" -> 5
      [] l = "reload" -> 6
      [] l = "write" -> 7
      [] l = "bootApply" -> 8
      [] l = "settle" -> 9
      [] l \in {"sweep", "drop"} -> 10
      [] l = "failStop" -> 11
      [] l \in {"pushReload", "cleanReload"} -> 12
      [] l = "push" -> 13
      [] l \in {"sample", "resample"} -> 14
      [] l = "boot" -> 15

ElseLeft(l) ==
    CASE l = "idle" -> 0
      [] l \in {"settle", "bare", "backAbort", "backDone"} -> 1
      [] l \in {"sweep", "drop", "backReload", "backStop"} -> 2
      [] l = "failStop" -> 3
      [] l \in {"pushReload", "cleanReload"} -> 4
      [] l = "push" -> 5
      [] l = "resample" -> 6
      [] l \in {"failed", "done"} -> 7
      [] l = "stop" -> 8
      [] l = "restore" -> 9
      [] l = "undo" -> 10
      [] l = "net" -> 11
      [] l = "reload" -> 12
      [] l = "write" -> 13
      [] l \in {"bootApply", "sample"} -> 14
      [] l = "boot" -> 15

Left(o, l) == IF o = "boot" THEN BootLeft(l) ELSE ElseLeft(l)

\* The operation is closer to its end after the step than before it.
Nearer == Left(op', pc') < Left(op, pc)

\* A step of apply_node, whoever called it.
LEMMA ApplyEnds ==
    ASSUME op \in Ops,
           \/ ApplyWrite \/ ApplyReload \/ ApplyNet \/ ApplyUndo \/ ApplyRestore \/ ApplyStop \/ ApplyDone \/ ApplyFailed
    PROVE  Nearer
<1> USE DEF Nearer, Left, BootLeft, ElseLeft
<1>1. CASE ApplyWrite \/ ApplyReload \/ ApplyNet
  <2>1. op' = op /\ \/ pc = "write" /\ pc' \in {"reload", "failed"}
                    \/ pc = "reload" /\ pc' \in {"net", "undo"}
                    \/ pc = "net" /\ pc' \in {"done", "undo"}
    BY <1>1, Zenon DEF ApplyWrite, ApplyReload, ApplyNet, Goto
  <2> QED BY <2>1
<1>2. CASE ApplyUndo \/ ApplyRestore \/ ApplyStop
  <2>1. op' = op /\ \/ pc = "undo" /\ pc' \in {"restore", "stop"}
                    \/ pc = "restore" /\ pc' \in {"stop", "failed"}
                    \/ pc = "stop" /\ pc' = "failed"
    BY <1>2, Zenon DEF ApplyUndo, ApplyRestore, ApplyStop, Goto
  <2> QED BY <2>1
<1>3. CASE ApplyDone \/ ApplyFailed
  <2>1. pc \in {"done", "failed"}
    BY <1>3, Zenon DEF ApplyDone, ApplyFailed
  <2>2. \/ op' = "none" /\ pc' = "idle"
        \/ op = "revoke" /\ op' = op /\ pc' \in {"sweep", "resample"}
    BY <1>3, Zenon DEF ApplyDone, ApplyFailed, Goto, End
  <2>3. CASE op' = "none" /\ pc' = "idle"
    BY <2>1, <2>3
  <2>4. CASE op = "revoke" /\ op' = op /\ pc' \in {"sweep", "resample"}
    <3>1. op # "boot" /\ op' # "boot"
      BY <2>4, Zenon
    <3>2. ElseLeft(pc) = 7 /\ ElseLeft(pc') \in {2, 6}
      BY <2>1, <2>4
    <3> HIDE DEF BootLeft, ElseLeft
    <3> QED BY <3>1, <3>2
  <2> QED BY <2>2, <2>3, <2>4, Zenon
<1> QED BY <1>1, <1>2, <1>3, Zenon

\* A step of the runtime half of a revocation.
LEMMA RuntimeEnds ==
    ASSUME op \in Ops, Sample \/ Resample \/ Push \/ PushReload \/ FailSafeStop \/ Sweep \/ DropUnsafe \/ Settle
    PROVE  Nearer
<1> USE DEF Nearer, Left, BootLeft, ElseLeft
<1>1. CASE Sample \/ Resample
  <2>1. op' = op /\ \/ pc = "sample" /\ pc' \in {"write", "push"}
                    \/ pc = "resample" /\ pc' \in {"push", "sweep", "drop"}
    BY <1>1, Zenon DEF Sample, Resample, Outcome, Goto
  <2> QED BY <2>1
<1>2. CASE Push
  <2>1. op' = op /\ pc = "push" /\ pc' \in {"pushReload", "cleanReload", "failStop", "sweep", "drop"}
    BY <1>2, Zenon DEF Push, Outcome, Goto
  <2> QED BY <2>1
<1>3. CASE PushReload \/ FailSafeStop
  <2>1. op' = op /\ \/ pc \in {"pushReload", "cleanReload"} /\ pc' \in {"failStop", "sweep", "drop"}
                    \/ pc = "failStop" /\ pc' \in {"sweep", "drop"}
    BY <1>3, Zenon DEF PushReload, FailSafeStop, Outcome, Goto
  <2> QED BY <2>1
<1>4. CASE Sweep \/ DropUnsafe \/ Settle
  <2>1. pc \in {"sweep", "drop", "settle"}
    BY <1>4, Zenon DEF Sweep, DropUnsafe, Settle
  <2>2. \/ op' = "none" /\ pc' = "idle"
        \/ op = "boot" /\ op' = op /\ pc' = "bootApply"
        \/ op' = op /\ pc' = "settle" /\ pc # "settle"
    BY <1>4, Zenon DEF Sweep, DropUnsafe, Settle, Settling, Back, Goto, End
  <2> QED BY <2>1, <2>2
<1> QED BY <1>1, <1>2, <1>3, <1>4, Zenon

LEMMA WorkEnds ==
    ASSUME TypeOK, Work
    PROVE  Nearer
<1>1. op \in Ops
  BY Zenon DEF TypeOK, ControlOK
<1> USE DEF Nearer, Left, BootLeft, ElseLeft
<1>2. CASE BareStart \/ RollbackAbort \/ RollbackDone \/ RollbackReload \/ RollbackStop
  <2>1. \/ pc \in {"bare", "backAbort", "backDone", "backStop"} /\ op' = "none" /\ pc' = "idle"
        \/ pc \in {"backReload", "backStop"} /\ op' = op /\ pc' \in {"backDone", "backAbort"}
    BY <1>2, Zenon DEF BareStart, RollbackAbort, RollbackDone, RollbackReload, RollbackStop, Goto, End
  <2> QED BY <2>1
<1>3. CASE Boot \/ BootApply
  <2>1. \/ pc = "boot" /\ op' = op /\ pc' \in {"resample", "bootApply"}
        \/ pc = "bootApply" /\ op' = op /\ pc' = "write"
        \/ pc = "bootApply" /\ op' = "none" /\ pc' = "idle"
    BY <1>3, Zenon DEF Boot, BootApply, Goto, End
  <2> QED BY <2>1
<1> QED BY <1>1, <1>2, <1>3, ApplyEnds, RuntimeEnds, Zenon DEF Work

\* Whatever fails on the way, no operation takes more than fifteen calls, a revocation with a failed
\* rebuild, the file, the reload and the fail-safe stop included: each of its steps is nearer to its
\* end than the one before, and only a crash of the panel moves it in any other way.  It is the part of
\* RevocationCompletes that is no question of fairness (_rw_revoke_apply, apply_node, the boot).
THEOREM OperationsNeverTurnBack ==
    Spec => [][/\ Work => Nearer
               /\ pc # "idle" => Nearer \/ UNCHANGED <<op, pc>> \/ Crash
               /\ Left(op, pc) \in 0 .. 15]_vars
<1>1. TypeOK /\ Next => /\ Work => Nearer
                        /\ pc # "idle" => Nearer \/ UNCHANGED <<op, pc>> \/ Crash
                        /\ Left(op, pc) \in 0 .. 15
  <2> SUFFICES ASSUME TypeOK, Next
               PROVE  /\ Work => Nearer
                      /\ pc # "idle" => Nearer \/ UNCHANGED <<op, pc>> \/ Crash
                      /\ Left(op, pc) \in 0 .. 15
    BY Zenon
  <2>1. Left(op, pc) \in 0 .. 15
    <3>1. pc \in Steps
      BY Zenon DEF TypeOK, ControlOK
    <3> QED BY <3>1 DEF Steps, ApplySteps, Left, BootLeft, ElseLeft
  <2>2. ASSUME pc # "idle", ~Work, ~Crash PROVE UNCHANGED <<op, pc>>
    BY <2>2, Zenon DEF Next, Connect, Disconnect, DeleteNode, XrayStart, XrayStop, Rollback, Widen, Narrow, Reconcile,
         Watchdog, Dies, Wedge, Garble, Free
  <2> QED BY <2>1, <2>2, WorkEnds, Zenon
<1> QED BY <1>1, TypeCorrect, PTL DEF Spec
=============================================================================
