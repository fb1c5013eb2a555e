---- MODULE MCFailover ----
(* Instances of Failover for TLC. *)
EXTENDS Failover, TLC

CONSTANTS n1, n2, n3

Pool == {n1, n2, n3}
Pair == {n1, n2}

\* The first node is active and does not work well: among three nodes whose quality stays
\* as it is, with a standby that works and a world that changes, or with a standby that is
\* no better and no sweep.
Trouble ==
    /\ Init
    /\ active = n1
    /\ \/ /\ nodes = Pool /\ moves = 0 /\ quality[n1] = "half"
          /\ \A n \in Pool : quality[n] # "flaky"
       \/ /\ nodes = Pair /\ moves = MaxMoves /\ sweepOn
          /\ quality = [n \in Pool |-> IF n = n2 THEN "good" ELSE "half"]
       \/ /\ nodes = Pair /\ moves = 0 /\ ~sweepOn
          /\ quality = [n \in Pool |-> "flaky"]

\* Two nodes that work now and then, no sweep, and an operator.
Flaky ==
    /\ Init
    /\ active = n1 /\ nodes = Pair /\ moves = MaxMoves /\ ~sweepOn
    /\ quality = [n \in Pool |-> "flaky"]

FairTroubleSpec == Trouble /\ [][Next]_vars /\ Fairness
FlakySpec == Flaky /\ [][Next]_vars
====
