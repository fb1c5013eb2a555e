---- MODULE MCGateway ----
(* Instances of Gateway for TLC. *)
EXTENDS Gateway, TLC

Perms == Permutations(Node)

\* The host: enforcement failures, the emergency deny, kill-switch changes, restarts, and
\* a child that survives SIGKILL.
HostFaults == {"net", "release", "deny", "stuck", "store", "crash", "reboot", "toggle"}

\* A switch: failed applies, spawns, undos and store calls, concurrent deletes, and a panel that
\* dies at any step of it, of its recovery or of a boot.
SwitchFaults == {"net", "xray", "undo", "store", "crash", "delete"}

\* The cause behind the disagreement about rollbacks.
NoFaults == {}
====
