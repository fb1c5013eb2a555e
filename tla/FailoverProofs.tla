---- MODULE FailoverProofs ----
(***************************************************************************)
(* Proofs about Failover, for any nodes, delays and bounds: who an         *)
(* automatic switch may leave, how soon, and to whom.                      *)
(***************************************************************************)
EXTENDS Failover, FiniteSetTheorems, TLAPS

\* The evaluation has chosen candidates and not switched yet.
Trying == {"preflight", "promote", "refuse"}

Stamps ==
    /\ lastFailover \in Age /\ fledAge \in Age /\ now \in Age
    /\ tickAge \in 0..1 /\ moves \in Nat /\ cands \in Seq(Node) /\ nodes \subseteq Node

\* An evaluation began at most one unit ago.
Recent == now <= tickAge /\ (lpc \in {"sleep", "probe", "evaluate"} => now = 0)

\* What decide and ranked_nodes have established still holds while candidates are tried.
Decided ==
    lpc \in Trying =>
        /\ aid # None /\ lastFailover >= Cooldown /\ cands # <<>>
        /\ \A i \in 1..Len(cands) : cands[i] = demoted => lastFailover >= Grace

\* The settings describe the last automatic switch, once it is stamped.
Stamped ==
    IF lpc = "stamp" THEN fledAge = 0 /\ fled = aid
    ELSE fled \in {None, demoted} /\ lastFailover <= fledAge + 1

FInv == Stamps /\ Recent /\ Decided /\ Stamped

vFailover == <<lpc, aid, cands, now, tickAge, lastFailover, demoted, fled, fledAge, nodes>>

\* The bound on ages is a positive number.
LEMMA AgeCapType == AgeCap \in Nat /\ AgeCap >= 1
BY FailoverAssumption DEF AgeCap, FailoverAssumption, Larger

\* Time adds at most one to an age, and keeps the order of two ages that are one apart.
LEMMA OlderAges ==
    ASSUME NEW a \in Age, NEW b \in Age
    PROVE  /\ Older(a) \in Age /\ a <= Older(a) /\ Older(a) <= a + 1
           /\ a <= b + 1 => Older(a) <= Older(b) + 1
BY AgeCapType DEF Age, Older

\* ranked_nodes: what is tried is eligible, and there is something to try.
LEMMA RankedAreEligible ==
    ASSUME nodes \subseteq Node, Eligible # {}, NEW c \in Rankings
    PROVE  c \in Seq(Node) /\ c # <<>> /\ \A i \in 1..Len(c) : c[i] \in Eligible
<1> DEFINE k == Cardinality(Eligible)
<1>1. IsFiniteSet(Eligible)
  BY FailoverAssumption, FS_Subset DEF Eligible, FailoverAssumption
<1>2. k \in Nat /\ k # 0
  BY <1>1, FS_CardinalityType, FS_EmptySet
<1>3. PICK f \in [1..k -> Eligible] : c = SubSeq(f, 1, Smaller(k, MaxPreflights))
  BY DEF Rankings
<1>4. f \in Seq(Eligible) /\ Len(f) = k
  BY <1>2, <1>3
<1>5. Smaller(k, MaxPreflights) \in 1..k
  BY <1>2, FailoverAssumption DEF FailoverAssumption, Smaller
<1>6. c \in Seq(Eligible) /\ Len(c) = Smaller(k, MaxPreflights)
  <2> HIDE DEF k
  <2> QED BY <1>2, <1>3, <1>4, <1>5
<1>7. Eligible \subseteq Node
  BY DEF Eligible
<1>8. c \in Seq(Node) /\ \A i \in 1..Len(c) : c[i] \in Eligible
  BY <1>6, <1>7
<1> QED BY <1>5, <1>6, <1>8

\* Steps that touch neither the evaluation nor its stamps.
LEMMA QuietStep ==
    ASSUME FInv, UNCHANGED vFailover, moves' \in Nat
    PROVE  FInv'
BY DEF FInv, Stamps, Recent, Decided, Stamped, vFailover

\* The evaluation goes back to sleep without a switch.
LEMMA SleepStep ==
    ASSUME FInv, Sleep, lpc # "stamp", moves' \in Nat,
           UNCHANGED <<lastFailover, demoted, fled, fledAge, nodes>>
    PROVE  FInv'
<1>1. Stamps' /\ Recent'
  BY AgeCapType DEF FInv, Stamps, Recent, Sleep, Age
<1>2. Decided' /\ Stamped'
  BY DEF FInv, Decided, Stamped, Sleep, Trying
<1> QED BY <1>1, <1>2 DEF FInv

\* On to the next candidate: what was decided holds for the rest of them.
LEMMA NextCandidateStep ==
    ASSUME FInv, NextCandidate, lpc \in Trying, moves' \in Nat,
           UNCHANGED <<lastFailover, demoted, fled, fledAge, nodes>>
    PROVE  FInv'
<1>1. CASE Sleep
  BY <1>1, SleepStep DEF Trying
<1>2. CASE Len(cands) > 1 /\ lpc' = "preflight" /\ cands' = Tail(cands) /\ UNCHANGED <<tickAge, aid, now>>
  <2> cands \in Seq(Node)
    BY DEF FInv, Stamps
  <2>0. cands' \in Seq(Node) /\ Len(cands') = Len(cands) - 1
    BY <1>2
  <2>1. cands' \in Seq(Node) /\ cands' # <<>> /\ Len(cands') = Len(cands) - 1
    BY <1>2, <2>0
  <2>2. \A i \in 1..Len(cands') : i + 1 \in 1..Len(cands) /\ cands'[i] = cands[i + 1]
    BY <1>2, <2>1 DEF FInv, Stamps
  <2>3. Stamps' /\ Recent'
    BY <1>2, <2>1 DEF FInv, Stamps, Recent
  <2>4. Decided'
    BY <1>2, <2>1, <2>2 DEF FInv, Decided, Trying
  <2>5. Stamped'
    BY <1>2 DEF FInv, Stamped, Trying
  <2> QED BY <2>3, <2>4, <2>5 DEF FInv
<1> QED BY <1>1, <1>2 DEF NextCandidate, At

\* FInv is inductive.
LEMMA FailoverInit == Init => FInv
<1> SUFFICES ASSUME Init PROVE FInv
  OBVIOUS
<1>1. Stamps
  BY AgeCapType, FailoverAssumption DEF Init, Stamps, Age, FailoverAssumption
<1>2. Recent /\ Decided /\ Stamped
  BY AgeCapType DEF Init, Recent, Decided, Stamped, Trying
<1> QED BY <1>1, <1>2 DEF FInv

LEMMA EvaluateStep ==
    ASSUME FInv, Evaluate
    PROVE  FInv'
<1> USE DEF Evaluate
<1> moves' \in Nat /\ lpc # "stamp" /\ UNCHANGED <<lastFailover, demoted, fled, fledAge, nodes>>
  BY DEF FInv, Stamps, world, settings, history
<1>1. CASE Failing /\ Eligible # {}
  <2>1. /\ lpc' = "preflight" /\ aid' = active /\ cands' \in Rankings /\ now' = 0
        /\ UNCHANGED tickAge
    BY <1>1
  <2>2. nodes \subseteq Node
    BY DEF FInv, Stamps
  <2>3. cands' \in Seq(Node) /\ cands' # <<>> /\ \A i \in 1..Len(cands') : cands'[i] \in Eligible
    BY <1>1, <2>1, <2>2, RankedAreEligible
  <2>4. \A i \in 1..Len(cands') : cands'[i] = demoted => ~(lastFailover < Grace)
    BY <2>3 DEF Eligible, Demoted
  <2>5. Stamps' /\ Recent'
    BY <2>1, <2>3, AgeCapType DEF FInv, Stamps, Recent, Age
  <2>6. lastFailover \in Nat /\ Grace \in Nat
    BY AgeCapType, FailoverAssumption DEF FInv, Stamps, Age, FailoverAssumption
  <2>7. Decided'
    BY <1>1, <2>1, <2>3, <2>4, <2>6 DEF Decided, Failing
  <2>8. Stamped'
    BY <2>1 DEF FInv, Stamped
  <2> QED BY <2>5, <2>7, <2>8 DEF FInv
<1>2. CASE ~(Failing /\ Eligible # {})
  BY <1>2, SleepStep
<1> QED BY <1>1, <1>2

LEMMA PassStep ==
    ASSUME FInv, Pass
    PROVE  FInv'
<1> USE DEF Pass
<1>0. /\ lpc # "stamp" /\ tickAge = 0 /\ tickAge' = 1
      /\ UNCHANGED <<lpc, aid, cands, demoted, fled, nodes, moves>>
      /\ lastFailover' = Older(lastFailover) /\ fledAge' = Older(fledAge)
      /\ now' = IF lpc \in {"promote", "refuse"} THEN Older(now) ELSE now
  BY DEF world, settings
<1>1. /\ lastFailover' \in Age /\ fledAge' \in Age /\ now' \in Age
      /\ lastFailover <= lastFailover' /\ now' <= now + 1
      /\ lastFailover <= fledAge + 1 => lastFailover' <= fledAge' + 1
  BY <1>0, OlderAges DEF FInv, Stamps, Age
<1>2. Stamps'
  BY <1>0, <1>1 DEF FInv, Stamps
<1>3. Recent'
  BY <1>0, <1>1, AgeCapType DEF FInv, Stamps, Recent, Age
<1>4. Decided'
  <2>1. lastFailover \in Nat /\ lastFailover' \in Nat
    BY <1>1, AgeCapType DEF FInv, Stamps, Age
  <2>2. \A d \in Nat : lastFailover >= d => lastFailover' >= d
    BY <1>1, <2>1
  <2> QED BY <1>0, <2>2, FailoverAssumption DEF FInv, Decided, FailoverAssumption
<1>5. Stamped'
  BY <1>0, <1>1 DEF FInv, Stamped
<1> QED BY <1>2, <1>3, <1>4, <1>5 DEF FInv

\* The switch, and its stamp.
LEMMA PromoteStep ==
    ASSUME FInv, Promote
    PROVE  FInv'
<1> USE DEF Promote
<1> moves' \in Nat /\ UNCHANGED <<lastFailover, demoted, nodes>>
  BY DEF FInv, Stamps, stamps, settings
<1>1. CASE active # aid
  BY <1>1, SleepStep
<1>2. CASE active = aid
  <2>1. fled' = aid /\ fledAge' = 0 /\ lpc' = "stamp" /\ UNCHANGED <<tickAge, aid, cands, now>>
    BY <1>2 DEF At
  <2>2. Stamps' /\ Recent'
    BY <2>1, AgeCapType DEF FInv, Stamps, Recent, Age
  <2>3. Decided' /\ Stamped'
    BY <2>1 DEF Decided, Stamped, Trying
  <2> QED BY <2>2, <2>3 DEF FInv
<1> QED BY <1>1, <1>2

LEMMA StampStep ==
    ASSUME FInv, Stamp
    PROVE  FInv'
<1> USE DEF Stamp
<1>1. /\ lpc = "stamp" /\ lastFailover' = now /\ demoted' = aid
      /\ lpc' = "sleep" /\ tickAge' = 0 /\ cands' = <<>> /\ now' = 0
      /\ UNCHANGED <<fled, fledAge, nodes, moves>>
  BY DEF Sleep, world, settings, history
<1>2. Stamps' /\ Recent'
  BY <1>1, AgeCapType DEF FInv, Stamps, Recent, Age
<1>3. Decided' /\ Stamped'
  BY <1>1, AgeCapType DEF FInv, Stamps, Recent, Decided, Stamped, Trying, Age
<1> QED BY <1>2, <1>3 DEF FInv

LEMMA FailoverStep == FInv /\ [Next]_vars => FInv'
<1> SUFFICES ASSUME FInv, [Next]_vars PROVE FInv'
  OBVIOUS
<1> moves \in Nat
  BY DEF FInv, Stamps
<1> USE DEF stamps, live, world, settings, history
<1>1. CASE Tick
  <2>1. /\ lpc = "sleep" /\ lpc' \in {"probe", "evaluate"} /\ tickAge' = 0
        /\ UNCHANGED <<lastFailover, demoted, fled, fledAge, nodes, moves, cands, now>>
    BY <1>1 DEF Tick
  <2> QED BY <2>1 DEF FInv, Stamps, Recent, Decided, Stamped, Trying
<1>2. CASE Probed
  <2>1. /\ lpc = "probe" /\ lpc' = "evaluate"
        /\ UNCHANGED <<lastFailover, demoted, fled, fledAge, nodes, moves, cands, now, tickAge, aid>>
    BY <1>2 DEF Probed, At
  <2> QED BY <2>1 DEF FInv, Stamps, Recent, Decided, Stamped, Trying
<1>3. CASE Evaluate
  BY <1>3, EvaluateStep
<1>4. CASE Preflight
  <2>1. CASE active # aid
    BY <1>4, <2>1, SleepStep DEF Preflight
  <2>2. CASE active = aid
    <3>1. /\ lpc = "preflight" /\ lpc' \in {"promote", "refuse"}
          /\ UNCHANGED <<lastFailover, demoted, fled, fledAge, nodes, moves, cands, now, tickAge, aid>>
      BY <1>4, <2>2 DEF Preflight, At
    <3> QED BY <3>1 DEF FInv, Stamps, Recent, Decided, Stamped, Trying
  <2> QED BY <2>1, <2>2
<1>5. CASE PreflightRaises
  BY <1>5, NextCandidateStep DEF PreflightRaises, Trying
<1>6. CASE Refused
  <2>1. CASE active # aid
    BY <1>6, <2>1, SleepStep DEF Refused
  <2>2. CASE active = aid
    BY <1>6, <2>2, NextCandidateStep DEF Refused, Trying
  <2> QED BY <2>1, <2>2
<1>7. CASE Promote
  BY <1>7, PromoteStep
<1>8. CASE PromoteFails
  BY <1>8, NextCandidateStep DEF PromoteFails, Trying
<1>9. CASE Stamp
  BY <1>9, StampStep
<1>10. CASE SweepStep
  <2>1. UNCHANGED vFailover /\ moves' \in Nat
    BY <1>10, Zenon DEF SweepStep, SweepStart, SweepNode, SweepReal, SweepRecord, vFailover
  <2> QED BY <2>1, QuietStep
<1>11. CASE \/ \E n \in Node : Connect(n) \/ ManualRead(n) \/ (\E q \in Settled : Change(n, q))
            \/ Disconnect \/ XrayDies \/ ManualWrite \/ XrayBack
  <2>0. Move => moves' \in Nat
    BY DEF Move
  <2>1. UNCHANGED vFailover /\ moves' \in Nat
    <3>1. CASE \E n \in Node : Connect(n)
      BY <2>0, <3>1 DEF Connect, vFailover
    <3>2. CASE \E n \in Node : ManualRead(n)
      BY <2>0, <3>2, Zenon DEF ManualRead, vFailover
    <3>3. CASE \E n \in Node, q \in Settled : Change(n, q)
      BY <2>0, <3>3 DEF Change, vFailover
    <3>4. CASE Disconnect \/ XrayDies
      BY <2>0, <3>4 DEF Disconnect, XrayDies, vFailover
    <3>5. CASE ManualWrite \/ XrayBack
      BY <3>5 DEF ManualWrite, XrayBack, vFailover
    <3> QED BY <1>11, <3>1, <3>2, <3>3, <3>4, <3>5
  <2> QED BY <2>1, QuietStep
<1>12. CASE Restart
  <2>1. /\ lpc' = "sleep" /\ tickAge' = 0 /\ cands' = <<>> /\ now' = 0 /\ moves' \in Nat
        /\ UNCHANGED <<lastFailover, demoted, nodes>>
        /\ fled' = (IF lpc = "stamp" THEN None ELSE fled)
        /\ fledAge' = (IF lpc = "stamp" THEN AgeCap ELSE fledAge)
    BY <1>12 DEF Restart, Sleep, Move
  <2>2. Stamps' /\ Recent'
    BY <2>1, AgeCapType DEF FInv, Stamps, Recent, Age
  <2>3. Decided' /\ Stamped'
    BY <2>1, AgeCapType DEF FInv, Stamps, Decided, Stamped, Trying, Age
  <2> QED BY <2>2, <2>3 DEF FInv
<1>13. CASE Pass
  BY <1>13, PassStep
<1>14. CASE UNCHANGED vars
  BY <1>14, QuietStep DEF vars, vFailover
<1> QED
  BY <1>1, <1>2, <1>3, <1>4, <1>5, <1>6, <1>7, <1>8, <1>9, <1>10, <1>11, <1>12, <1>13, <1>14
  DEF Next, LiveStep, World

LEMMA FailoverInvariant == Spec => []FInv
BY FailoverInit, FailoverStep, PTL DEF Spec

\* Only a promotion changes the selection without a move of the operator.
LEMMA AutomaticIsPromote ==
    ASSUME FInv, Next, Automatic
    PROVE  Promote /\ active = aid /\ active' = cands[1]
<1> moves \in Nat
  BY DEF FInv, Stamps
<1> USE DEF Automatic
<1>0. moves' # moves - 1
  OBVIOUS
<1>1. ~Restart /\ ~PreflightRaises /\ ~PromoteFails /\ ~Disconnect /\ ~XrayDies
  BY <1>0, Zenon DEF Restart, PreflightRaises, PromoteFails, Disconnect, XrayDies, Move
<1>2. ~\E n \in Node : Connect(n) \/ ManualRead(n) \/ (\E q \in Settled : Change(n, q))
  BY <1>0, Zenon DEF Connect, ManualRead, Change, Move
<1>3. ~SweepStep /\ ~ManualWrite /\ ~XrayBack /\ ~Pass
  BY Zenon DEF SweepStep, SweepStart, SweepNode, SweepReal, SweepRecord, ManualWrite, XrayBack, Pass
<1>4. ~Tick /\ ~Probed /\ ~Evaluate /\ ~Preflight /\ ~Refused /\ ~Stamp
  BY Zenon DEF Tick, Probed, Evaluate, Preflight, Refused, Stamp
<1>5. Promote
  BY <1>1, <1>2, <1>3, <1>4 DEF Next, LiveStep, World
<1>6. active = aid /\ active' = Head(cands)
  BY <1>5, Zenon DEF Promote
<1>7. Head(cands) = cands[1]
  BY DEF FInv, Stamps
<1> QED BY <1>5, <1>6, <1>7

\* Failover never selects a node for a disconnected gateway: whatever the preflights' length,
\* the node left is the one the evaluation began with, and there was one.
THEOREM DisconnectedIsLeftAlone == Spec => DisconnectedStays
<1>1. FInv /\ [Next]_vars => [Automatic => active # None]_vars
  <2> SUFFICES ASSUME FInv, Next, Automatic PROVE active # None
    BY DEF Automatic, vars
  <2>1. lpc = "promote" /\ active = aid
    BY AutomaticIsPromote DEF Promote
  <2> QED BY <2>1 DEF FInv, Decided, Trying
<1> QED BY <1>1, FailoverInvariant, PTL DEF Spec, DisconnectedStays

\* Two automatic switches are a cooldown apart, up to one tick, for any cooldown.
THEOREM SwitchesAreACooldownApart == Spec => SwitchesAreSpaced
<1>1. FInv /\ [Next]_vars => [Automatic => fledAge + 1 >= Cooldown]_vars
  <2> SUFFICES ASSUME FInv, Next, Automatic PROVE fledAge + 1 >= Cooldown
    BY DEF Automatic, vars
  <2>1. lpc = "promote"
    BY AutomaticIsPromote DEF Promote
  <2>2. lastFailover >= Cooldown /\ lastFailover <= fledAge + 1
    BY <2>1 DEF FInv, Decided, Stamped, Trying
  <2> QED BY <2>2, AgeCapType, FailoverAssumption DEF FInv, Stamps, Age, FailoverAssumption
<1> QED BY <1>1, FailoverInvariant, PTL DEF Spec, SwitchesAreSpaced

\* The node an automatic switch left is not returned to by the next one within its grace.
THEOREM FledNodeIsNotReturnedTo == Spec => FledNodeSitsOut
<1>1. FInv /\ [Next]_vars => [Automatic /\ active' = fled => fledAge + 1 >= Grace]_vars
  <2> SUFFICES ASSUME FInv, Next, Automatic, active' = fled PROVE fledAge + 1 >= Grace
    BY DEF Automatic, vars
  <2>1. lpc = "promote" /\ fled = cands[1]
    BY AutomaticIsPromote DEF Promote
  <2>2. cands \in Seq(Node) /\ cands # <<>>
    BY <2>1 DEF FInv, Stamps, Decided, Trying
  <2>3. 1 \in 1..Len(cands) /\ cands[1] \in Node
    BY <2>2
  <2>4. fled # None
    BY <2>1, <2>3, FailoverAssumption DEF FailoverAssumption
  <2>5. fled = demoted /\ lastFailover <= fledAge + 1
    BY <2>1, <2>4 DEF FInv, Stamped
  <2>6. lastFailover >= Grace
    BY <2>1, <2>3, <2>5, Zenon DEF FInv, Decided, Trying
  <2> QED BY <2>5, <2>6, AgeCapType, FailoverAssumption DEF FInv, Stamps, Age, FailoverAssumption
<1> QED BY <1>1, FailoverInvariant, PTL DEF Spec, FledNodeSitsOut

-----------------------------------------------------------------------------
(* The types of the health rows, the stamps and the three actors' state.   *)

\* The evaluation's own state, the sweep's, the rows with the on-demand probe that holds one,
\* and the selection with everything else.
EvalType ==
    /\ aid \in MaybeNode /\ ran \in BOOLEAN /\ now \in Age /\ tickAge \in 0..1
    /\ lastAllDown \in Age
    /\ lpc \in {"sleep", "probe", "evaluate", "preflight", "promote", "refuse", "stamp"}
    /\ cands \in Seq(Node) /\ (lpc \in Trying => cands # <<>>)

SweepType ==
    /\ spc \in {"sleep", "sweep", "real", "record"} /\ due \subseteq Node
    /\ sActive \in MaybeNode /\ sweepAge \in Age
    /\ streak \in [Node -> 0..StreakCap] /\ skip \in [Node -> 0..MaxSkip]

RowsType ==
    /\ health \in [Node -> Row]
    /\ manual \in [node : MaybeNode, row : Row, late : BOOLEAN]

AskedType == misses \in [Node -> 0..Hysteresis]

SelectType ==
    /\ active \in MaybeNode /\ demoted \in MaybeNode /\ fled \in MaybeNode
    /\ up \in BOOLEAN /\ lastFailover \in Age /\ fledAge \in Age /\ probeAge \in 0..1
    /\ moves \in 0..MaxMoves

WorldType == nodes \subseteq Node /\ sweepOn \in BOOLEAN /\ quality \in [Node -> Qualities]

LEMMA TypeParts ==
    TypeOK <=> EvalType /\ SweepType /\ RowsType /\ AskedType /\ SelectType /\ WorldType
BY Zenon DEF TypeOK, EvalType, SweepType, RowsType, AskedType, SelectType, WorldType, Trying

\* What an answer is.
LEMMA AnswerType == \A n : Answers(n) \subseteq BOOLEAN
BY Zenon DEF Answers

\* update_health_real, update_health_direct: a row stays a row.
LEMMA RowFacts ==
    ASSUME NEW r \in Row, NEW ok \in BOOLEAN, NEW at \in Age
    PROVE  /\ Real(r, ok, at) \in Row /\ Direct(r, ok) \in Row /\ DirectAt(r, ok, at) \in Row
           /\ r.age \in Age /\ r.direct \in BOOLEAN
           /\ [r EXCEPT !.age = at] \in Row /\ [r EXCEPT !.real = ok] \in Row
<1>0. Hysteresis \in Nat \ {0} /\ AgeCap \in Nat
  BY FailoverAssumption, AgeCapType DEF FailoverAssumption
<1>1. /\ r.real \in BOOLEAN /\ r.direct \in BOOLEAN /\ r.age \in Age /\ r.fails \in 0..Hysteresis
  BY DEF Row
<1>2. Smaller(r.age, at) \in Age
  BY <1>1 DEF Smaller
<1>3. Smaller(r.fails + 1, Hysteresis) \in 0..Hysteresis /\ 0 \in 0..Hysteresis
  BY <1>0, <1>1 DEF Smaller
<1>4. Direct(r, ok) \in Row /\ DirectAt(r, ok, at) \in Row
      /\ [r EXCEPT !.age = at] \in Row /\ [r EXCEPT !.real = ok] \in Row
  BY <1>1, <1>2, Zenon DEF Direct, DirectAt, Row
<1>5. \A f \in 0..Hysteresis : [r EXCEPT !.real = ok, !.age = at, !.fails = f] \in Row
  BY <1>1, Zenon DEF Row
<1>6. Real(r, ok, at) \in Row
  BY <1>3, <1>5, Zenon DEF Real
<1> QED BY <1>1, <1>4, <1>6

LEMMA Blanks == NoRow \in Row /\ Idle \in [node : MaybeNode, row : Row, late : BOOLEAN]
<1>1. AgeCap \in Age /\ 0 \in 0..Hysteresis
  BY FailoverAssumption, AgeCapType DEF Age, FailoverAssumption
<1>2. NoRow \in Row
  BY <1>1, Zenon DEF NoRow, Row
<1> QED BY <1>2, Zenon DEF Idle, MaybeNode

\* _backoff: the skip stays within BACKOFF_MAX_SKIP.
LEMMA BackoffType == \A k \in Nat : Backoff(k) \in 0..MaxSkip
<1> SUFFICES ASSUME NEW k \in Nat PROVE Backoff(k) \in 0..MaxSkip
  OBVIOUS
<1>0. MaxSkip \in Nat
  BY FailoverAssumption DEF FailoverAssumption
<1>1. Smaller(k, 3) \in {0, 1, 2, 3}
  BY DEF Smaller
<1>2. 2^0 = 1 /\ 2^1 = 2 /\ 2^2 = 4 /\ 2^3 = 8
  OBVIOUS
<1>3. 2 ^ Smaller(k, 3) \in {2^0, 2^1, 2^2, 2^3}
  BY <1>1, Zenon
<1>4. PICK x \in {1, 2, 4, 8} : 2 ^ Smaller(k, 3) = x
  BY <1>2, <1>3, Zenon
<1>5. Backoff(k) = Smaller(MaxSkip, x - 1)
  BY <1>4, Zenon DEF Backoff
<1> QED BY <1>0, <1>4, <1>5 DEF Smaller

LEMMA SweepEveryAge == SweepEvery \in Age
<1>1. /\ SweepEvery \in Nat /\ StandbyTtl \in Nat /\ ActiveTtl \in Nat
      /\ Grace \in Nat /\ Cooldown \in Nat
  BY FailoverAssumption DEF FailoverAssumption
<1>2. \A a, b \in Nat : Larger(a, b) \in Nat /\ b <= Larger(a, b)
  BY DEF Larger
<1> DEFINE s == Larger(StandbyTtl, SweepEvery)
           t == Larger(ActiveTtl, s)
           g == Larger(Grace, t)
           c == Larger(Cooldown, g)
<1>3. s \in Nat /\ SweepEvery <= s
  BY <1>1, <1>2
<1>4. t \in Nat /\ s <= t
  BY <1>1, <1>2, <1>3, Zenon
<1>5. g \in Nat /\ t <= g
  BY <1>1, <1>2, <1>4, Zenon
<1>6. c \in Nat /\ g <= c
  BY <1>1, <1>2, <1>5, Zenon
<1>7. AgeCap = 1 + c
  BY DEF AgeCap
<1> HIDE DEF s, t, g, c
<1> QED BY <1>1, <1>3, <1>4, <1>5, <1>6, <1>7 DEF Age

LEMMA TypeInit == Init => TypeOK
<1> SUFFICES ASSUME Init PROVE TypeOK
  OBVIOUS
<1>0. /\ 0 \in Age /\ AgeCap \in Age /\ SweepEvery \in Age /\ 0 \in 0..Hysteresis
      /\ 0 \in 0..StreakCap /\ 0 \in 0..MaxSkip
  BY FailoverAssumption, AgeCapType, SweepEveryAge DEF FailoverAssumption, Age
<1>1. EvalType
  <2>1. tickAge \in 0..1 /\ cands \in Seq(Node)
    BY DEF Init
  <2> QED BY <1>0, <2>1, Zenon DEF Init, EvalType, Trying, MaybeNode
<1>2. SweepType
  BY <1>0 DEF Init, SweepType, MaybeNode
<1>3. RowsType
  BY Blanks DEF Init, RowsType
<1>4. AskedType
  BY <1>0 DEF Init, AskedType
<1>5. SelectType
  <2>1. moves \in 0..MaxMoves /\ probeAge \in 0..1
    BY DEF Init
  <2>2. active \in MaybeNode
    BY DEF Init, MaybeNode
  <2> QED BY <1>0, <2>1, <2>2, Zenon DEF Init, SelectType, MaybeNode
<1>6. WorldType
  BY DEF Init, WorldType
<1> QED BY <1>1, <1>2, <1>3, <1>4, <1>5, <1>6, TypeParts

\* The end of an evaluation, and the step to its next candidate, leave its state typed.
LEMMA SleepType == ASSUME EvalType, Sleep, lastAllDown' \in Age PROVE EvalType'
<1>1. 0 \in Age
  BY AgeCapType DEF Age
<1>2. None \in MaybeNode
  BY DEF MaybeNode
<1>3. <<>> \in Seq(Node)
  OBVIOUS
<1>4. 0 \in 0..1
  OBVIOUS
<1> QED BY <1>1, <1>2, <1>3, <1>4, Zenon DEF EvalType, Sleep, Trying

LEMMA ReportType == ASSUME EvalType, NEW at \in Age, Report(at) PROVE lastAllDown' \in Age
BY DEF EvalType, Report

LEMMA NextCandidateType ==
    ASSUME EvalType, lpc \in Trying, NextCandidate
    PROVE  EvalType'
<1>1. CASE Len(cands) > 1
  <2>1. /\ lpc' = "preflight" /\ cands' = Tail(cands)
        /\ UNCHANGED <<tickAge, aid, now, ran, lastAllDown>>
    BY <1>1 DEF NextCandidate, At
  <2>2. cands' \in Seq(Node) /\ Len(cands') = Len(cands) - 1
    BY <1>1, <2>1 DEF EvalType
  <2>3. cands' # <<>>
    BY <1>1, <2>2 DEF EvalType
  <2> QED BY <2>1, <2>2, <2>3 DEF EvalType
<1>2. CASE ~(Len(cands) > 1)
  <2>1. Sleep /\ (Report(now) \/ UNCHANGED lastAllDown)
    BY <1>2 DEF NextCandidate
  <2>2. lastAllDown' \in Age
    BY <2>1, ReportType DEF EvalType
  <2> QED BY <2>1, <2>2, SleepType
<1> QED BY <1>1, <1>2

\* The liveness tick.
LEMMA EvalStep == ASSUME TypeOK, [Next]_vars PROVE EvalType'
<1> EvalType /\ SelectType /\ WorldType
  BY TypeParts
<1>0. 0 \in Age
  BY AgeCapType DEF Age
<1>1. CASE Tick
  BY <1>1 DEF Tick, EvalType, SelectType, Trying, stamps
<1>2. CASE Probed
  BY <1>2 DEF Probed, At, EvalType, Trying, stamps
<1>3. CASE Evaluate
  <2>1. CASE Failing /\ Eligible # {}
    <3>1. /\ lpc' = "preflight" /\ aid' = active /\ cands' \in Rankings /\ now' = 0
          /\ UNCHANGED <<lastAllDown, tickAge, ran>>
      BY <1>3, <2>1 DEF Evaluate
    <3>2. cands' \in Seq(Node) /\ cands' # <<>>
      BY <2>1, <3>1, RankedAreEligible DEF WorldType
    <3> QED BY <1>0, <3>1, <3>2 DEF EvalType, SelectType
  <2>2. CASE ~(Failing /\ Eligible # {})
    <3>1. Sleep /\ (Report(0) \/ UNCHANGED lastAllDown)
      BY <1>3, <2>2 DEF Evaluate
    <3>2. lastAllDown' \in Age
      BY <1>0, <3>1, ReportType DEF EvalType
    <3> QED BY <3>1, <3>2, SleepType
  <2> QED BY <2>1, <2>2
<1>4. CASE Preflight
  <2>1. CASE Sleep
    BY <1>4, <2>1, SleepType DEF Preflight, stamps, EvalType
  <2>2. CASE ~Sleep
    BY <1>4, <2>2, Zenon DEF Preflight, stamps, EvalType, At, Trying
  <2> QED BY <2>1, <2>2
<1>5. CASE PreflightRaises \/ PromoteFails
  BY <1>5, NextCandidateType, Zenon DEF PreflightRaises, PromoteFails, Trying
<1>6. CASE Refused
  <2>1. CASE active # aid
    BY <1>6, <2>1, SleepType DEF Refused, EvalType
  <2>2. CASE active = aid
    BY <1>6, <2>2, NextCandidateType DEF Refused, Trying
  <2> QED BY <2>1, <2>2
<1>7. CASE Promote
  <2>1. CASE active # aid
    BY <1>7, <2>1, SleepType DEF Promote, EvalType, stamps
  <2>2. CASE active = aid
    BY <1>7, <2>2 DEF Promote, EvalType, stamps, At, Trying
  <2> QED BY <2>1, <2>2
<1>8. CASE Stamp \/ Restart
  BY <1>8, SleepType DEF Stamp, Restart, stamps, EvalType
<1>9. CASE Pass
  <2>1. now' \in Age /\ lastAllDown' \in Age
    BY <1>9, OlderAges DEF Pass, EvalType
  <2> QED BY <1>9, <2>1 DEF Pass, EvalType
<1>10. CASE SweepStep \/ ManualWrite \/ XrayBack \/ Disconnect \/ XrayDies
  BY <1>10, Zenon DEF SweepStep, SweepStart, SweepNode, SweepReal, SweepRecord, ManualWrite, XrayBack,
    Disconnect, XrayDies, live, stamps, EvalType
<1>11. ASSUME NEW n \in Node, Connect(n) \/ ManualRead(n) \/ (\E q \in Settled : Change(n, q))
       PROVE  EvalType'
  BY <1>11, Zenon DEF Connect, ManualRead, Change, live, stamps, EvalType
<1>12. CASE UNCHANGED vars
  BY <1>12, Zenon DEF vars, live, stamps, EvalType
<1> QED BY <1>1, <1>2, <1>3, <1>4, <1>5, <1>6, <1>7, <1>8, <1>9, <1>10, <1>11, <1>12, Zenon
        DEF Next, LiveStep, World

\* The sweep and its backoff.
LEMMA SweepTypeStep == ASSUME TypeOK, [Next]_vars PROVE SweepType'
<1> SweepType /\ SelectType /\ WorldType
  BY TypeParts
<1>0. /\ 0 \in Age /\ SweepEvery \in Age /\ StreakCap \in Nat /\ MaxSkip \in Nat
  BY FailoverAssumption, AgeCapType, SweepEveryAge DEF FailoverAssumption, Age
<1>1. CASE SweepStart
  <2>1. skip' \in [Node -> 0..MaxSkip]
    BY <1>0, <1>1 DEF SweepStart, SweepType
  <2> QED BY <1>0, <1>1, <2>1 DEF SweepStart, SweepType, SelectType, WorldType
<1>2. ASSUME NEW n \in Node, SweepNode(n) PROVE SweepType'
  <2>1. streak' \in [Node -> 0..StreakCap]
    BY <1>0, <1>2 DEF SweepNode, SweepType, Smaller
  <2>2. skip' \in [Node -> 0..MaxSkip]
    <3>1. Backoff(streak'[n]) \in 0..MaxSkip
      BY <2>1, BackoffType
    <3> QED BY <1>2, <3>1 DEF SweepNode, SweepType
  <2>3. spc' \in {"real", "sleep", "sweep"} /\ due' \subseteq due /\ UNCHANGED <<sActive, sweepAge>>
    BY <1>2 DEF SweepNode, SweepOn
  <2> QED BY <2>1, <2>2, <2>3 DEF SweepType
<1>3. CASE SweepReal \/ SweepRecord
  <2>1. /\ spc' \in {"record", "sleep", "sweep"} /\ due' \subseteq due
        /\ UNCHANGED <<sActive, sweepAge, streak, skip>>
    BY <1>3, Zenon DEF SweepReal, SweepRecord, SweepOn, row
  <2> QED BY <2>1 DEF SweepType
<1>4. CASE Restart
  BY <1>0, <1>4 DEF Restart, SweepType, MaybeNode
<1>5. CASE Pass
  <2>1. sweepAge' \in Age
    BY <1>5, OlderAges DEF Pass, SweepType
  <2> QED BY <1>5, <2>1 DEF Pass, SweepType
<1>6. CASE LiveStep \/ PreflightRaises \/ PromoteFails
  <2>1. UNCHANGED <<sweep, streak, skip>>
    BY <1>6, Zenon DEF LiveStep, Tick, Probed, Evaluate, Preflight, Refused, Promote, Stamp,
      PreflightRaises, PromoteFails, row
  <2> QED BY <2>1 DEF sweep, SweepType
<1>7. CASE ManualWrite \/ XrayBack \/ Disconnect \/ XrayDies
  BY <1>7 DEF ManualWrite, XrayBack, Disconnect, XrayDies, sweep, row, SweepType
<1>8. ASSUME NEW n \in Node, Connect(n) \/ ManualRead(n) \/ (\E q \in Settled : Change(n, q))
      PROVE  SweepType'
  BY <1>8, Zenon DEF Connect, ManualRead, Change, sweep, row, SweepType
<1>9. CASE UNCHANGED vars
  BY <1>9 DEF vars, sweep, row, SweepType
<1> QED BY <1>1, <1>2, <1>3, <1>4, <1>5, <1>6, <1>7, <1>8, <1>9, Zenon DEF Next, SweepStep, World

\* A write of one row leaves a table of rows.
LEMMA PutRow ==
    ASSUME RowsType, NEW n, NEW r, n \in Node => r \in Row
    PROVE  [health EXCEPT ![n] = r] \in [Node -> Row]
BY Zenon DEF RowsType

\* The rows, whoever writes them, and the row an on-demand probe holds.
LEMMA RowsStep == ASSUME TypeOK, [Next]_vars PROVE RowsType'
<1> EvalType /\ SweepType /\ RowsType /\ SelectType /\ WorldType
  BY TypeParts
<1>0. 0 \in Age /\ 1 \in Age
  BY AgeCapType DEF Age
<1>r. \A n \in Node : health[n] \in Row
  BY DEF RowsType
<1>1. CASE Probed
  <2>1. CASE active = aid
    <3>1. PICK ok \in Answers(aid) : health' = [health EXCEPT ![aid] = Real(health[aid], ok, 0)]
      BY <1>1, <2>1, Zenon DEF Probed
    <3>2. aid \in Node => Real(health[aid], ok, 0) \in Row
      BY <1>0, <1>r, AnswerType, RowFacts, Zenon
    <3>3. health' \in [Node -> Row]
      BY <3>1, <3>2, PutRow, Zenon
    <3> QED BY <1>1, <3>3 DEF Probed, RowsType
  <2> QED BY <1>1, <2>1 DEF Probed, RowsType
<1>2. CASE Refused \/ Promote \/ PromoteFails
  <2>1. Recorded(TRUE) \/ Recorded(FALSE) \/ UNCHANGED health
    BY <1>2, Zenon DEF Refused, Promote, PromoteFails
  <2>2. UNCHANGED manual
    BY <1>2, Zenon DEF Refused, Promote, PromoteFails
  <2>3. ASSUME NEW ok \in BOOLEAN, Recorded(ok) PROVE health' \in [Node -> Row]
    <3>1. health' = [health EXCEPT ![Head(cands)] = Real(health[Head(cands)], ok, now)]
      BY <2>3, Zenon DEF Recorded
    <3>2. Head(cands) \in Node => Real(health[Head(cands)], ok, now) \in Row
      BY <1>r, RowFacts, Zenon DEF EvalType
    <3> QED BY <3>1, <3>2, PutRow, Zenon
  <2>4. health' \in [Node -> Row]
    BY <2>1, <2>3, Zenon DEF RowsType
  <2> QED BY <2>2, <2>4 DEF RowsType
<1>3. ASSUME NEW n \in Node, SweepNode(n) PROVE RowsType'
  <2>1. Direct(health[n], Reachable(n)) \in Row /\ DirectAt(health[n], Reachable(n), sweepAge) \in Row
    <3>1. Reachable(n) \in BOOLEAN
      BY Zenon DEF Reachable
    <3> QED BY <1>r, <3>1, RowFacts, Zenon DEF SweepType
  <2>2. \E r \in Row : health' = [health EXCEPT ![n] = r]
    BY <1>3, <2>1, Zenon DEF SweepNode
  <2>3. health' \in [Node -> Row]
    BY <2>2, PutRow, Zenon
  <2> QED BY <1>3, <2>3 DEF SweepNode, RowsType
<1>4. CASE SweepRecord
  <2>1. \E r : (sActive \in Node => r \in Row) /\ health' = [health EXCEPT ![sActive] = r]
    <3>1. CASE active = sActive
      <4>1. PICK ok \in IF up THEN Answers(sActive) ELSE {FALSE} :
               health' = [health EXCEPT ![sActive] = Real(health[sActive], ok, sweepAge)]
        BY <1>4, <3>1, Zenon DEF SweepRecord
      <4>2. ok \in BOOLEAN
        BY <4>1, AnswerType, Zenon
      <4>3. sActive \in Node => Real(health[sActive], ok, sweepAge) \in Row
        BY <1>r, <4>2, RowFacts, Zenon DEF SweepType
      <4> QED BY <4>1, <4>3, Zenon
    <3>2. CASE active # sActive
      <4>1. health' = [health EXCEPT ![sActive] =
                         DirectAt(health[sActive], health[sActive].direct, sweepAge)]
        BY <1>4, <3>2, Zenon DEF SweepRecord
      <4>2. sActive \in Node => health[sActive].direct \in BOOLEAN
        BY <1>r, <1>0, RowFacts, Zenon
      <4>3. sActive \in Node => DirectAt(health[sActive], health[sActive].direct, sweepAge) \in Row
        BY <1>r, <4>2, RowFacts, Zenon DEF SweepType
      <4> QED BY <4>1, <4>3, Zenon
    <3> QED BY <3>1, <3>2
  <2>2. health' \in [Node -> Row]
    BY <2>1, PutRow, Zenon
  <2> QED BY <1>4, <2>2 DEF SweepRecord, RowsType
<1>5. ASSUME NEW n \in Node, ManualRead(n) PROVE RowsType'
  <2> DEFINE r == [health[n] EXCEPT !.direct = Reachable(n), !.age = 0]
  <2>1. r \in Row
    <3>1. Direct(health[n], Reachable(n)) \in Row
      <4>1. Reachable(n) \in BOOLEAN
        BY Zenon DEF Reachable
      <4> QED BY <1>r, <1>0, <4>1, RowFacts, Zenon
    <3>2. r = [Direct(health[n], Reachable(n)) EXCEPT !.age = 0]
      BY <1>r DEF Direct, Row
    <3> QED BY <1>0, <3>1, <3>2, RowFacts, Zenon
  <2>2. \E x \in Row, l \in BOOLEAN : manual' = [node |-> n, row |-> x, late |-> l]
    <3>1. CASE \E a \in 0..1 : manual' = [node |-> n, row |-> [r EXCEPT !.age = a], late |-> FALSE]
      <4>0. 0..1 = {0, 1}
        OBVIOUS
      <4>1. PICK a \in {0, 1} : manual' = [node |-> n, row |-> [r EXCEPT !.age = a], late |-> FALSE]
        BY <3>1, <4>0, Zenon
      <4>2. [r EXCEPT !.age = a] \in Row
        BY <1>0, <2>1, <4>1, RowFacts, Zenon
      <4> QED BY <4>1, <4>2, Zenon
    <3>2. CASE \E ok \in Answers(n) : manual' = [node |-> n, row |-> [r EXCEPT !.real = ok], late |-> TRUE]
      <4>1. PICK ok \in Answers(n) : manual' = [node |-> n, row |-> [r EXCEPT !.real = ok], late |-> TRUE]
        BY <3>2, Zenon
      <4>2. [r EXCEPT !.real = ok] \in Row
        BY <1>0, <2>1, <4>1, AnswerType, RowFacts, Zenon
      <4> QED BY <4>1, <4>2, Zenon
    <3> QED BY <1>5, <3>1, <3>2, Zenon DEF ManualRead
  <2>3. manual' \in [node : MaybeNode, row : Row, late : BOOLEAN]
    <3>1. PICK x \in Row, l \in BOOLEAN : manual' = [node |-> n, row |-> x, late |-> l]
      BY <2>2
    <3>2. n \in MaybeNode
      BY DEF MaybeNode
    <3> QED BY <3>1, <3>2, Zenon
  <2> QED BY <1>5, <2>3, Zenon DEF ManualRead, RowsType, row
<1>6. CASE ManualWrite
  <2>1. manual.row \in Row /\ [manual.row EXCEPT !.age = 0] \in Row
    BY <1>0, RowFacts, Zenon DEF RowsType
  <2>2. \E r \in Row : health' = [health EXCEPT ![manual.node] = r]
    BY <1>6, <2>1, Zenon DEF ManualWrite
  <2>3. health' \in [Node -> Row]
    BY <2>2, PutRow, Zenon
  <2> QED BY <1>6, <2>3, Blanks DEF ManualWrite, RowsType
<1>7. CASE Restart
  BY <1>7, Blanks DEF Restart, RowsType
<1>8. CASE Pass
  <2>1. \A r \in Row : [r EXCEPT !.age = Older(r.age)] \in Row
    <3> SUFFICES ASSUME NEW r \in Row PROVE [r EXCEPT !.age = Older(r.age)] \in Row
      OBVIOUS
    <3>1. r.age \in Age
      BY DEF Row
    <3>2. Older(r.age) \in Age
      BY <3>1, OlderAges
    <3> QED BY <3>2, RowFacts, Zenon
  <2>2. health' \in [Node -> Row]
    BY <1>8, <1>r, <2>1, Zenon DEF Pass
  <2>3. manual' \in [node : MaybeNode, row : Row, late : BOOLEAN]
    <3>1. manual' = manual \/ manual' = [manual EXCEPT !.row = [manual.row EXCEPT !.age = Older(manual.row.age)]]
      BY <1>8 DEF Pass, RowsType
    <3>2. manual.row \in Row
      BY DEF RowsType
    <3>3. [manual.row EXCEPT !.age = Older(manual.row.age)] \in Row
      BY <2>1, <3>2, Zenon
    <3> QED BY <3>1, <3>3, Zenon DEF RowsType
  <2> QED BY <2>2, <2>3 DEF RowsType
<1>9. CASE Tick \/ Evaluate \/ Preflight \/ Stamp \/ PreflightRaises \/ SweepStart \/ SweepReal
           \/ XrayBack \/ Disconnect \/ XrayDies
  BY <1>9, Zenon DEF Tick, Evaluate, Preflight, Stamp, PreflightRaises, SweepStart, SweepReal,
    XrayBack, Disconnect, XrayDies, row, RowsType
<1>10. ASSUME NEW n \in Node, Connect(n) \/ (\E q \in Settled : Change(n, q)) PROVE RowsType'
  BY <1>10, Zenon DEF Connect, Change, row, RowsType
<1>11. CASE UNCHANGED vars
  BY <1>11 DEF vars, row, RowsType
<1> QED BY <1>1, <1>2, <1>3, <1>4, <1>5, <1>6, <1>7, <1>8, <1>9, <1>10, <1>11, Zenon
        DEF Next, LiveStep, SweepStep, World

\* The history of requests.
LEMMA AskedStep == ASSUME TypeOK, [Next]_vars PROVE AskedType'
<1> AskedType
  BY TypeParts
<1>0. Hysteresis \in Nat
  BY FailoverAssumption DEF FailoverAssumption
<1>1. ASSUME NEW n, NEW ok \in BOOLEAN, Requested(n, ok) PROVE AskedType'
  <2>1. \A k \in 0..Hysteresis : Smaller(k + 1, Hysteresis) \in 0..Hysteresis
    BY <1>0 DEF Smaller
  <2>2. 0 \in 0..Hysteresis
    BY <1>0
  <2>3. PICK k : /\ misses' = [misses EXCEPT ![n] = k]
                 /\ k = 0 \/ k = Smaller(misses[n] + 1, Hysteresis)
    BY <1>1, Zenon DEF Requested
  <2>4. n \in Node => k \in 0..Hysteresis
    BY <2>1, <2>2, <2>3, Zenon DEF AskedType
  <2> QED BY <2>3, <2>4, Zenon DEF AskedType
<1>2. CASE Probed
  BY <1>1, <1>2, AnswerType, Zenon DEF Probed, AskedType
<1>3. CASE Refused \/ Promote \/ PromoteFails
  BY <1>1, <1>3, Zenon DEF Refused, Promote, PromoteFails, Recorded, AskedType
<1>4. CASE SweepRecord
  BY <1>1, <1>4, AnswerType, Zenon DEF SweepRecord, AskedType
<1>5. CASE Tick \/ Evaluate \/ Preflight \/ Stamp \/ PreflightRaises \/ SweepStart \/ SweepReal
           \/ XrayBack \/ Disconnect \/ XrayDies \/ ManualWrite \/ Restart \/ Pass
  BY <1>5, Zenon DEF Tick, Evaluate, Preflight, Stamp, PreflightRaises, SweepStart, SweepReal,
    XrayBack, Disconnect, XrayDies, ManualWrite, Restart, Pass, history, AskedType
<1>6. ASSUME NEW n \in Node,
             SweepNode(n) \/ Connect(n) \/ ManualRead(n) \/ (\E q \in Settled : Change(n, q))
      PROVE  AskedType'
  BY <1>6, Zenon DEF SweepNode, Connect, ManualRead, Change, history, AskedType
<1>7. CASE UNCHANGED vars
  BY <1>7 DEF vars, history, AskedType
<1> QED BY <1>2, <1>3, <1>4, <1>5, <1>6, <1>7, Zenon DEF Next, LiveStep, SweepStep, World

\* The selection, its stamps and the budget of moves.
LEMMA SelectStep == ASSUME TypeOK, [Next]_vars PROVE SelectType'
<1> EvalType /\ SelectType /\ WorldType
  BY TypeParts
<1>0. 0 \in Age /\ AgeCap \in Age /\ None \in MaybeNode /\ Node \subseteq MaybeNode
  BY AgeCapType DEF Age, MaybeNode
<1>m. moves > 0 /\ moves' = moves - 1 => moves' \in 0..MaxMoves
  BY FailoverAssumption DEF SelectType, FailoverAssumption
<1>1. CASE Promote
  <2>1. lpc = "promote" => Head(cands) \in Node
    BY DEF EvalType, Trying
  <2>2. active' \in MaybeNode /\ up' \in BOOLEAN /\ fled' \in MaybeNode /\ fledAge' \in Age
    BY <1>0, <1>1, <2>1, Zenon DEF Promote, SelectType, EvalType
  <2> QED BY <1>1, <2>2 DEF Promote, stamps, SelectType
<1>2. CASE Stamp
  BY <1>2 DEF Stamp, EvalType, SelectType, world, history
<1>3. CASE Tick
  BY <1>3 DEF Tick, SelectType, stamps, world, history
<1>4. CASE PreflightRaises \/ PromoteFails
  <2>1. moves' \in 0..MaxMoves
    BY <1>4, <1>m, Zenon DEF PreflightRaises, PromoteFails
  <2>2. up' \in BOOLEAN
    BY <1>4, Zenon DEF PreflightRaises, PromoteFails, SelectType
  <2>3. UNCHANGED <<active, demoted, fled, lastFailover, fledAge, probeAge>>
    BY <1>4, Zenon DEF PreflightRaises, PromoteFails, history
  <2> QED BY <2>1, <2>2, <2>3 DEF SelectType
<1>5. CASE Restart
  <2>1. up' \in BOOLEAN
    BY <1>5, Zenon DEF Restart
  <2>2. probeAge' \in 0..1
    BY <1>5 DEF Restart
  <2>3. fled' \in MaybeNode /\ fledAge' \in Age
    BY <1>0, <1>5 DEF Restart, SelectType
  <2> QED BY <1>5, <1>m, <2>1, <2>2, <2>3 DEF Restart, Move, SelectType, stamps
<1>6. CASE Pass
  <2>1. lastFailover' \in Age /\ fledAge' \in Age
    BY <1>6, OlderAges DEF Pass, SelectType
  <2> QED BY <1>6, <2>1 DEF Pass, SelectType, world
<1>7. CASE Disconnect \/ XrayDies \/ XrayBack
  BY <1>0, <1>7, <1>m, Zenon DEF Disconnect, XrayDies, XrayBack, Move, SelectType, stamps, live, history
<1>8. ASSUME NEW n \in Node, Connect(n) \/ ManualRead(n) \/ (\E q \in Settled : Change(n, q))
      PROVE  SelectType'
  BY <1>0, <1>8, <1>m, Zenon DEF Connect, ManualRead, Change, Move, SelectType, stamps, live, history
<1>9. CASE Probed \/ Evaluate \/ Preflight \/ Refused \/ SweepStep \/ ManualWrite
  BY <1>9, Zenon DEF Probed, Evaluate, Preflight, Refused, SweepStep, SweepStart, SweepNode, SweepReal,
    SweepRecord, ManualWrite, SelectType, stamps, live, world, history
<1>10. CASE UNCHANGED vars
  BY <1>10 DEF vars, SelectType, stamps, live, world, history
<1> QED BY <1>1, <1>2, <1>3, <1>4, <1>5, <1>6, <1>7, <1>8, <1>9, <1>10, Zenon
        DEF Next, LiveStep, World

\* The nodes table and what the nodes are like.
LEMMA WorldStep == ASSUME TypeOK, [Next]_vars PROVE WorldType'
<1> WorldType
  BY TypeParts
<1>1. ASSUME NEW n \in Node, NEW q \in Settled, Change(n, q) PROVE WorldType'
  BY <1>1 DEF Change, WorldType, Qualities, settings
<1>2. ASSUME NEW n \in Node, Connect(n) \/ ManualRead(n) PROVE WorldType'
  BY <1>2, Zenon DEF Connect, ManualRead, WorldType, settings
<1>3. CASE LiveStep \/ SweepStep \/ ManualWrite \/ XrayBack \/ Pass
  BY <1>3, Zenon DEF LiveStep, Tick, Probed, Evaluate, Preflight, Refused, Promote, Stamp, SweepStep,
    SweepStart, SweepNode, SweepReal, SweepRecord, ManualWrite, XrayBack, Pass, world, settings, WorldType
<1>4. CASE Disconnect \/ XrayDies \/ Restart \/ PreflightRaises \/ PromoteFails
  BY <1>4, Zenon DEF Disconnect, XrayDies, Restart, PreflightRaises, PromoteFails, settings, WorldType
<1>5. CASE UNCHANGED vars
  BY <1>5 DEF vars, world, settings, WorldType
<1> QED BY <1>1, <1>2, <1>3, <1>4, <1>5, Zenon DEF Next, World

\* The health rows, the failure counters, the backoff, the stamps and the three actors' state keep
\* their types, for any nodes, delays and bounds; an evaluation under way always has a candidate.
THEOREM TypeCorrect == Spec => []TypeOK
<1>1. TypeOK /\ [Next]_vars => TypeOK'
  <2> SUFFICES ASSUME TypeOK, [Next]_vars PROVE TypeOK'
    OBVIOUS
  <2>1. EvalType' /\ SweepType' /\ RowsType' /\ AskedType' /\ SelectType' /\ WorldType'
    BY EvalStep, SweepTypeStep, RowsStep, AskedStep, SelectStep, WorldStep
  <2> QED BY <2>1, TypeParts, Zenon
       DEF TypeOK, EvalType, SweepType, RowsType, AskedType, SelectType, WorldType, Trying
<1> QED BY <1>1, TypeInit, PTL DEF Spec
=============================================================================
