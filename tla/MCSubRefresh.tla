---- MODULE MCSubRefresh ----
(* Instances of SubRefresh for TLC. *)
EXTENDS SubRefresh, TLC

CONSTANTS a, b, c

Idents == {a, b, c}
Symmetry == Permutations(Idents) \cup Permutations(Url)

\* Without transport security, with it, and the same with another password.
Weak == "none"
Strong == "tls"
Rekeyed == "tls, new password"
Ladder == {Weak, Strong}
WithPassword == {Weak, Strong, Rekeyed}
Ranks == [x \in Cfg |-> IF x = Weak THEN 0 ELSE 1]
Looks == [x \in Cfg |-> IF x = Rekeyed THEN Strong ELSE x]

\* Every answer with one node, and with all three alike.
AnyFeed == UNION {[{i} -> Cfg] : i \in Idents} \cup {[i \in Idents |-> x] : x \in Cfg}
====
