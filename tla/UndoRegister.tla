---- MODULE UndoRegister ----
(***************************************************************************)
(* What ConfigManager promises its callers: a live config and at most one  *)
(* undo, the config the live one replaced.  The undo may be lost when an   *)
(* operation is interrupted, and may be the live config itself, which      *)
(* makes a rollback a no-op; it is never any other config.  This is the    *)
(* pair <<live, undo>> of module Gateway.                                  *)
(***************************************************************************)
CONSTANTS
    Configs,    \* configs the panel applies
    Foreign,    \* what the live file may be overwritten with behind its back
    None        \* no config

VARIABLES live, undo

Init == live = None /\ undo = None

\* apply(): the replaced config becomes the undo.
Publish(c) == live' = c /\ undo' = live

\* apply_irreversible(), and apply() over a live config that cannot be read.
Replace(c) == live' = c /\ undo' = None

\* rollback(): the undo becomes live, and then its own undo.
Promote == undo # None /\ live' = undo /\ undo' \in {None, undo}

\* Interrupted or sealed: there is no undo any more, or a vacuous one.
Forget == undo' \in {None, live} /\ UNCHANGED live

\* The live file is edited or damaged from outside.
Overwrite == live' \in Foreign /\ undo' \in {None, live'}

Next ==
    \/ \E c \in Configs : Publish(c) \/ Replace(c)
    \/ Promote \/ Forget \/ Overwrite

Spec == Init /\ [][Next]_<<live, undo>>
====
