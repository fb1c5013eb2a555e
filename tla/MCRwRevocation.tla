---- MODULE MCRwRevocation ----
(* Small instances of RwRevocation for TLC.                                *)
EXTENDS RwRevocation, TLC

CONSTANTS phone, laptop

Devices == {phone, laptop}
Symmetry == Permutations(Devices)
OneDevice == {phone}

\* Everything but a child beyond SIGKILL.
Mishaps == {"write", "xray", "net", "store", "query", "dies", "garble", "crash"}

\* What a retry has to outlast: the store and the panel stay up.
Retried == {"write", "xray", "net", "query", "stuck", "dies"}

\* The cause behind the disagreement.
FailedGrants == {"write", "xray"}
====
