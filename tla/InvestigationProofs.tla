-------------------------- MODULE InvestigationProofs --------------------------
(***************************************************************************)
(* What holds of Investigate for every wiring of collectors and analyzers,   *)
(* every behaviour of the world outside and every bound.  Only the section   *)
(* on staged collection is about the collectors of PodInvestigation.         *)
(***************************************************************************)
EXTENDS PodInvestigation, HypothesisProofs

\* The analyzers are asked what they need only while rounds are left.
RoundsLeft == pc = "ask" => round < maxAdaptiveRounds

\* Nothing is observed before the initial collection has ended.
StartsEmpty == pc \in {"start", "refused", "collect"} /\ round = 0 => observations = {}

\* Timeline, graph and analysis follow the observations at once.
BuiltFromAll == built = observations

\* A report is returned once, and speaks of all that was observed and missed.
ReportIsFinal ==
  report # NoReport =>
    pc = "returned" /\ report.built = observations /\ report.gaps = gaps

\* Each accepted request is what some analyzer needs for some live hypothesis.
AsksWanted ==
  /\ pc = "start" => asks = <<>>
  /\ pc \in {"ask", "collect"} => \A n \in DOMAIN asks :
       \E k \in DOMAIN hypotheses, a \in AnalyzerIds :
         /\ hypotheses[k].id = asks[n].id
         /\ [hint |-> asks[n].hint, cost |-> asks[n].cost] \in NeedsOf(a, k)

\* pendingRequests has been past request r of hypothesis k for the n-th analyzer.
Passed(n, k, r) ==
  \/ n < cursor.a
  \/ n = cursor.a /\ k < cursor.h
  \/ n = cursor.a /\ k = cursor.h /\ r < cursor.r

\* As long as nothing is accepted, all it has been past is beyond the budget.
NothingFits ==
  pc = "ask" /\ asks = <<>> /\ maxRequests > 0 =>
    /\ spent = 0
    /\ \A n \in DOMAIN AnalyzerList, k \in DOMAIN hypotheses :
         \A r \in DOMAIN wants(AnalyzerList[n], hypotheses[k]) :
           Passed(n, k, r) => wants(AnalyzerList[n], hypotheses[k])[r].cost > requestBudget

\* No analyzer has failed so far.
NoneFailed == \A g \in gaps : g.category # "analyzer-error"

\* While the analyzers run, what they emitted and found is that of those that have
\* run, over the observations as they are now.
AnalyzedSoFar ==
  NoneFailed /\ pc = "analyze" =>
    /\ next <= Len(AnalyzerList) + 1
    /\ emitted = EmittedBy(observations)[next - 1]
    /\ findings = {f \in FindingsOver(observations) :
                     \E n \in 1..next - 1 : f[1] = AnalyzerList[n]}

\* From the first analysis on, verdicts and findings are those of all observations.
Concluded ==
  pc \in {"ask", "summarize", "returned"} \/ (pc = "collect" /\ round > 0)

AnalyzedAll ==
  NoneFailed /\ Concluded =>
    /\ hypotheses = Merge(EmittedOver(observations))
    /\ findings = FindingsOver(observations)

\* A report carries the observations and the verdicts the engine ended with.
ReportSays ==
  report # NoReport =>
    report.observations = observations /\ report.hypotheses = hypotheses

\* No round comes before the initial collection.
RoundsCome == pc = "start" => round = 0

Fresh == AnalyzedSoFar /\ AnalyzedAll /\ ReportSays /\ RoundsCome

\* The inductive invariant.
IInv ==
  /\ TypeOK
  /\ RoundsLeft /\ StartsEmpty /\ BuiltFromAll /\ ReportIsFinal
  /\ RequestsBounded /\ AsksWanted /\ NothingFits
  /\ Fresh

-------------------------------------------------------------------------------

\* What the engine is given, in the form the proofs use it.
LEMMA Parameters ==
  /\ NoID \notin Ids
  /\ maxAdaptiveRounds \in Nat /\ maxRequests \in Nat /\ requestBudget \in Nat
  /\ \A ws \in Wirings : \A n \in 1..Len(ws) : ws[n] \in CollectorIds
  /\ \A n \in 1..Len(AnalyzerList) : AnalyzerList[n] \in AnalyzerIds
  /\ Len(AnalyzerList) \in Nat /\ DOMAIN AnalyzerList = 1..Len(AnalyzerList)
  BY BoundsAssumption, WiringAssumption, AnalyzerAssumption

\* A hypothesis an analyzer emits and one Merge returns, as HypothesisProofs has them.
LEMMA HypothesisTypes ==
  /\ Emitted = Hyps(Ids \cup {NoID}, EvidenceIds, EvidenceIds, MissingIds,
                    Statuses \cup {""})
  /\ Verdict = Hyps(Ids, EvidenceIds, EvidenceIds, MissingIds, Statuses)
  BY DEF Emitted, Verdict, Hyps

\* What an analyzer wants is a list of requests.
LEMMA WantsType ==
  ASSUME NEW a \in AnalyzerIds, NEW h \in Verdict
  PROVE  wants(a, h) \in Seq(Ask)
<1>1. h.id \in Ids /\ h.missing \in SUBSET MissingIds
  BY DEF Verdict
<1>2. <<>> \in Seq(Ask)
  OBVIOUS
<1> QED BY <1>1, <1>2, AnalyzerAssumption DEF wants

\* The status line is a label of an analyzer, or INVESTIGATED.
LEMMA StatusType == Status \in Cards
<1> DEFINE f == [n \in DOMAIN AnalyzerList |-> Precedence(AnalyzerList[n])]
           best(n, m) == \/ Precedence(AnalyzerList[m]) < Precedence(AnalyzerList[n])
                         \/ Precedence(AnalyzerList[m]) = Precedence(AnalyzerList[n]) /\ n <= m
           first == CHOOSE n \in Carded : \A m \in Carded : best(n, m)
<1>1. CASE Carded = {}
  BY <1>1 DEF Status, Cards
<1>2. CASE Carded # {}
  <2>1. /\ Carded \in SUBSET (1..Len(AnalyzerList)) /\ Carded \subseteq Int
        /\ Carded \subseteq DOMAIN AnalyzerList
    <3>1. Carded \in SUBSET (DOMAIN AnalyzerList)
      BY DEF Carded
    <3> QED BY <3>1, Parameters
  <2>2. IsFiniteSet(Carded)
    <3>1. IsFiniteSet(1..Len(AnalyzerList))
      BY Parameters, FS_Interval
    <3> QED BY <2>1, <3>1, FS_Subset
  <2>3. \A n \in Carded : f[n] = Precedence(AnalyzerList[n]) /\ f[n] \in Int
    BY <2>1, Parameters, AnalyzerAssumption
  <2>4. PICK n \in Carded : \A m \in Carded : f[m] < f[n] \/ (f[m] = f[n] /\ n <= m)
    <3> HIDE DEF f
    <3> QED BY <1>2, <2>1, <2>2, <2>3, HasBest
  <2>5. \A m \in Carded : best(n, m)
    <3> HIDE DEF f
    <3> QED BY <2>3, <2>4
  <2>6. first \in Carded
    <3> HIDE DEF best
    <3> QED BY <2>5
  <2>7. Status = Label(AnalyzerList[first])
    BY <1>2 DEF Status
  <2> HIDE DEF first
  <2>8. AnalyzerList[first] \in AnalyzerIds
    BY <2>1, <2>6, Parameters
  <2> QED BY <2>7, <2>8 DEF Cards
<1> QED BY <1>1, <1>2

\* Severities and confidence are what the report says they are.
LEMMA SummaryTypes ==
  ASSUME TypeOK
  PROVE  /\ Severity \in Severities
         /\ (IF Top(hypotheses) = 0 THEN 0 ELSE hypotheses[Top(hypotheses)].score) \in Nat
<1>1. Severity \in Severities
  BY DEF Severity, Severities
<1>2. hypotheses \in Seq(Hyps(Ids, EvidenceIds, EvidenceIds, MissingIds, Statuses))
  BY HypothesisTypes DEF TypeOK
<1>3. Top(hypotheses) = 0 \/ Top(hypotheses) \in DOMAIN hypotheses
  BY <1>2, TopType
<1>4. \A k \in DOMAIN hypotheses : hypotheses[k].score \in Nat
  <2>1. \A h \in Hyps(Ids, EvidenceIds, EvidenceIds, MissingIds, Statuses) : h.score \in Nat
    BY DEF Hyps
  <2> QED BY <1>2, <2>1
<1> QED BY <1>1, <1>3, <1>4

\* The cursors pendingRequests moves to.
LEMMA CursorTypes ==
  ASSUME cursor \in Cursors
  PROVE  /\ [cursor EXCEPT !.r = @ + 1] \in Cursors
         /\ [cursor EXCEPT !.h = @ + 1, !.r = 1] \in Cursors
         /\ [a |-> cursor.a + 1, h |-> 1, r |-> 1] \in Cursors
         /\ FirstCursor \in Cursors
         /\ cursor.a \in Nat \ {0} /\ cursor.h \in Nat \ {0} /\ cursor.r \in Nat \ {0}
<1>1. \A n \in Nat \ {0} : n + 1 \in Nat \ {0}
  OBVIOUS
<1>2. 1 \in Nat \ {0}
  OBVIOUS
<1> QED BY <1>1, <1>2 DEF Cursors, FirstCursor

\* Where pendingRequests reads: an analyzer, a hypothesis, and a request of the list
\* the analyzer returned.
LEMMA ReadAt ==
  ASSUME TypeOK, InLoops, cursor.r <= Len(needed)
  PROVE  /\ AnalyzerList[cursor.a] \in AnalyzerIds
         /\ cursor.h \in DOMAIN hypotheses /\ hypotheses[cursor.h] \in Verdict
         /\ hypotheses[cursor.h].id \in Ids
         /\ cursor.r \in DOMAIN needed /\ needed[cursor.r] \in Ask
<1>1. cursor.a \in Nat \ {0} /\ cursor.h \in Nat \ {0} /\ cursor.r \in Nat \ {0}
  BY CursorTypes DEF TypeOK
<1>2. cursor.a <= Len(AnalyzerList) /\ cursor.h <= Len(hypotheses)
  BY DEF InLoops
<1>3. hypotheses \in Seq(Verdict)
  BY DEF TypeOK
<1>4. AnalyzerList[cursor.a] \in AnalyzerIds
  BY <1>1, <1>2, Parameters
<1>5. cursor.h \in DOMAIN hypotheses /\ hypotheses[cursor.h] \in Verdict
  BY <1>1, <1>2, <1>3
<1>6. needed \in Seq(Ask)
  BY <1>4, <1>5, WantsType DEF needed
<1>7. cursor.r \in DOMAIN needed /\ needed[cursor.r] \in Ask
  BY <1>1, <1>6
<1> QED BY <1>4, <1>5, <1>7 DEF Verdict

\* The hints handed to the collectors, as a set.
LEMMA HintsType == ASSUME asks \in Seq(EvidenceRequest) PROVE hints \in SUBSET Hints
<1>1. \A n \in DOMAIN asks : asks[n] \in EvidenceRequest
  OBVIOUS
<1>2. \A r \in EvidenceRequest : r.hint \in Hints
  BY DEF EvidenceRequest
<1> QED BY <1>1, <1>2 DEF hints

\* One step keeps every variable in its type.
LEMMA TypeStep ==
  ASSUME TypeOK, RoundsLeft, Next PROVE TypeOK'
<1> USE DEF TypeOK, analysis, asking
<1>1. CASE WorldMoves
  BY <1>1, WiringAssumption DEF WorldMoves
<1>2. CASE Refuse
  BY <1>2 DEF Refuse, Places
<1>3. CASE Begin
  BY <1>3 DEF Begin, Places
<1>4. CASE CollectOk
  <2>1. next \in 1..Len(wired) /\ wired[next] \in CollectorIds
    BY <1>4, Parameters, WiringAssumption DEF CollectOk
  <2>2. hints \in SUBSET Hints /\ Mentions(prior) \in SUBSET Subjects
    BY HintsType, CollectorAssumption
  <2>3. Answers(wired[next], world, Mentions(prior), hints) \subseteq Answer
    BY <2>1, <2>2, CollectorAssumption
  <2>4. PICK got \in Answer :
          /\ prior' = prior \cup got.obs
          /\ sources' = IF round = 0 /\ got.cited
                        THEN sources \cup {wired[next]} ELSE sources
    BY <1>4, <2>3 DEF CollectOk
  <2>5. prior' \subseteq Obs /\ sources' \subseteq CollectorIds
    BY <2>1, <2>4 DEF Answer
  <2> QED BY <1>4, <2>5 DEF CollectOk
<1>5. CASE CollectFails
  <2>1. next \in 1..Len(wired) /\ wired[next] \in CollectorIds
    BY <1>5, Parameters, WiringAssumption DEF CollectFails
  <2>2. gaps' \subseteq Gap
    BY <1>5, <2>1, Parameters DEF CollectFails, Gap
  <2> QED BY <1>5, <2>2 DEF CollectFails
<1>6. CASE InitialPassEnds
  BY <1>6 DEF InitialPassEnds, Build, Places
<1>7. CASE NewEvidenceArrives
  BY <1>7 DEF NewEvidenceArrives, Build, Places
<1>8. CASE NothingNewArrives
  BY <1>8 DEF NothingNewArrives, Places
<1>9. CASE AnalyzeOk
  <2>1. AnalyzerList[next] \in AnalyzerIds
    BY <1>9, Parameters DEF AnalyzeOk
  <2>2. /\ Emits(AnalyzerList[next], observations) \in Seq(Emitted)
        /\ Finds(AnalyzerList[next], observations) \subseteq Severities
    BY <2>1, AnalyzerAssumption
  <2>3. emitted' \in Seq(Emitted) /\ findings' \subseteq AnalyzerIds \X Severities
    BY <1>9, <2>1, <2>2 DEF AnalyzeOk
  <2> QED BY <1>9, <2>3 DEF AnalyzeOk
<1>10. CASE AnalyzeFails
  <2>1. AnalyzerList[next] \in AnalyzerIds
    BY <1>10, Parameters DEF AnalyzeFails
  <2>2. gaps' \subseteq Gap
    BY <1>10, <2>1, Parameters DEF AnalyzeFails, Gap
  <2> QED BY <1>10, <2>2 DEF AnalyzeFails
<1>11. CASE MergeHypotheses
  <2>1. Merge(emitted) \in Seq(Verdict)
    BY Parameters, HypothesisTypes, MergeRanks
  <2>2. /\ pc' \in Places /\ asks' \in Seq(EvidenceRequest) /\ spent' \in Nat
        /\ cursor' \in Cursors
    <3>1. CASE round < maxAdaptiveRounds
      BY <1>11, <3>1, CursorTypes DEF MergeHypotheses, Places
    <3>2. CASE ~(round < maxAdaptiveRounds)
      BY <1>11, <3>2 DEF MergeHypotheses, Places
    <3> QED BY <3>1, <3>2
  <2>3. hypotheses' \in Seq(Verdict)
    BY <1>11, <2>1 DEF MergeHypotheses
  <2> QED BY <1>11, <2>2, <2>3 DEF MergeHypotheses
<1>12. CASE AcceptAsk
  <2>1. needed[cursor.r] \in Ask /\ hypotheses[cursor.h].id \in Ids
    BY <1>12, ReadAt DEF AcceptAsk
  <2>2. asks' \in Seq(EvidenceRequest) /\ spent' \in Nat
    BY <1>12, <2>1 DEF AcceptAsk, Ask, EvidenceRequest
  <2>3. cursor' \in Cursors
    BY <1>12, CursorTypes DEF AcceptAsk
  <2> QED BY <1>12, <2>2, <2>3 DEF AcceptAsk
<1>13. CASE SkipAsk
  BY <1>13, CursorTypes DEF SkipAsk
<1>14. CASE NextHypothesis
  BY <1>14, CursorTypes DEF NextHypothesis
<1>15. CASE NextAnalyzer
  BY <1>15, CursorTypes DEF NextAnalyzer
<1>16. CASE StartRound
  BY <1>16, Parameters DEF StartRound, AllAsked, RoundsLeft, Places
<1>17. CASE NothingToAsk
  BY <1>17 DEF NothingToAsk, Places
<1>18. CASE Summarize
  <2>1. report' \in Reports
    BY <1>18, StatusType, SummaryTypes DEF Summarize, Reports
  <2> QED BY <1>18, <2>1 DEF Summarize, Places
<1> QED BY <1>1, <1>2, <1>3, <1>4, <1>5, <1>6, <1>7, <1>8, <1>9, <1>10, <1>11,
           <1>12, <1>13, <1>14, <1>15, <1>16, <1>17, <1>18 DEF Next, Engine

\* The parts of the invariant that only count rounds and compare what is held.
LEMMA FlowStep ==
  ASSUME IInv, Next
  PROVE  (RoundsLeft /\ StartsEmpty /\ BuiltFromAll /\ ReportIsFinal)'
<1> DEFINE Flow == RoundsLeft /\ StartsEmpty /\ BuiltFromAll /\ ReportIsFinal
<1> USE DEF IInv, RoundsLeft, StartsEmpty, BuiltFromAll, ReportIsFinal, analysis
<1>1. CASE WorldMoves
  BY <1>1 DEF WorldMoves
<1>2. CASE Refuse \/ Begin
  BY <1>2 DEF Refuse, Begin
<1>3. CASE CollectOk \/ CollectFails
  BY <1>3 DEF CollectOk, CollectFails
<1>4. CASE InitialPassEnds \/ NewEvidenceArrives
  BY <1>4 DEF InitialPassEnds, NewEvidenceArrives, Build
<1>5. CASE NothingNewArrives \/ NothingToAsk
  BY <1>5 DEF NothingNewArrives, NothingToAsk, AllAsked
<1>6. CASE AnalyzeOk \/ AnalyzeFails
  BY <1>6 DEF AnalyzeOk, AnalyzeFails
<1>7. CASE MergeHypotheses
  BY <1>7 DEF MergeHypotheses
<1>8. CASE AcceptAsk \/ SkipAsk \/ NextHypothesis \/ NextAnalyzer
  BY <1>8 DEF AcceptAsk, SkipAsk, NextHypothesis, NextAnalyzer
<1>9. CASE StartRound
  BY <1>9 DEF StartRound, AllAsked, TypeOK
<1>10. CASE Summarize
  BY <1>10 DEF Summarize
<1> QED BY <1>1, <1>2, <1>3, <1>4, <1>5, <1>6, <1>7, <1>8, <1>9, <1>10 DEF Next, Engine

\* Only AcceptAsk lets a request through, and only within the bounds.
LEMMA BoundsStep ==
  ASSUME IInv, Next PROVE RequestsBounded'
<1>1. CASE AcceptAsk
  <2> DEFINE id  == hypotheses[cursor.h].id
             ask == needed[cursor.r]
             new == [id |-> id, hint |-> ask.hint, cost |-> ask.cost]
  <2>1. /\ ~seen(id, ask.hint) /\ spent + ask.cost <= requestBudget
        /\ Len(asks) < maxRequests
        /\ asks' = Append(asks, new) /\ spent' = spent + ask.cost
    BY <1>1 DEF AcceptAsk, Affordable
  <2>2. asks \in Seq(EvidenceRequest) /\ RequestsBounded
    BY DEF IInv, TypeOK
  <2>3. new.id = id /\ new.hint = ask.hint
    OBVIOUS
  <2> HIDE DEF id, ask, new
  <2>4. /\ Len(asks') = Len(asks) + 1 /\ DOMAIN asks' = 1..Len(asks) + 1
        /\ DOMAIN asks = 1..Len(asks) /\ Len(asks) \in Nat
        /\ asks'[Len(asks) + 1] = new /\ \A n \in 1..Len(asks) : asks'[n] = asks[n]
    BY <2>1, <2>2
  <2>5. \A n \in 1..Len(asks) : ~(asks[n].id = new.id /\ asks[n].hint = new.hint)
    BY <2>1, <2>3, <2>4 DEF seen
  <2>6. Len(asks') <= maxRequests /\ spent' <= requestBudget
    BY <2>1, <2>4, Parameters
  <2>7. ASSUME NEW m \in DOMAIN asks', NEW n \in DOMAIN asks',
               asks'[m].id = asks'[n].id, asks'[m].hint = asks'[n].hint
        PROVE  m = n
    <3>1. CASE m \in 1..Len(asks) /\ n \in 1..Len(asks)
      BY <2>2, <2>4, <2>7, <3>1 DEF RequestsBounded
    <3>2. CASE m = Len(asks) + 1 /\ n \in 1..Len(asks)
      BY <2>4, <2>5, <2>7, <3>2
    <3>3. CASE n = Len(asks) + 1 /\ m \in 1..Len(asks)
      BY <2>4, <2>5, <2>7, <3>3
    <3> QED BY <2>4, <3>1, <3>2, <3>3
  <2> QED BY <2>6, <2>7 DEF RequestsBounded
<1>2. CASE MergeHypotheses
  <2>1. (asks' = <<>> /\ spent' = 0) \/ (asks' = asks /\ spent' = spent)
    BY <1>2 DEF MergeHypotheses, asking
  <2>2. CASE asks' = <<>> /\ spent' = 0
    BY <2>2, Parameters DEF RequestsBounded
  <2>3. CASE asks' = asks /\ spent' = spent
    BY <2>3 DEF RequestsBounded, IInv
  <2> QED BY <2>1, <2>2, <2>3
<1>3. CASE asks' = asks /\ spent' = spent
  BY <1>3 DEF RequestsBounded, IInv
<1>4. ASSUME ~AcceptAsk, ~MergeHypotheses PROVE asks' = asks /\ spent' = spent
  BY <1>4 DEF Next, Engine, WorldMoves, Refuse, Begin, CollectOk, CollectFails,
     InitialPassEnds, NewEvidenceArrives, NothingNewArrives, AnalyzeOk, AnalyzeFails,
     SkipAsk, NextHypothesis, NextAnalyzer, StartRound, NothingToAsk, Summarize, asking
<1> QED BY <1>1, <1>2, <1>3, <1>4

\* A request enters the list because a live hypothesis needs it, and the hypotheses
\* stay as they are until the list is started afresh.
LEMMA WantedStep ==
  ASSUME IInv, Next PROVE AsksWanted'
<1> USE DEF IInv
<1>1. CASE AcceptAsk
  <2> DEFINE new == [id |-> hypotheses[cursor.h].id, hint |-> needed[cursor.r].hint,
                     cost |-> needed[cursor.r].cost]
             w(n, k, a) == /\ hypotheses[k].id = asks'[n].id
                           /\ [hint |-> asks'[n].hint, cost |-> asks'[n].cost] \in NeedsOf(a, k)
  <2>1. /\ pc' = pc /\ pc = "ask" /\ hypotheses' = hypotheses
        /\ asks' = Append(asks, new)
    BY <1>1 DEF AcceptAsk, analysis
  <2>2. /\ AnalyzerList[cursor.a] \in AnalyzerIds /\ cursor.h \in DOMAIN hypotheses
        /\ cursor.r \in DOMAIN needed /\ needed[cursor.r] \in Ask
    BY <1>1, ReadAt DEF AcceptAsk
  <2>3. needed[cursor.r] \in NeedsOf(AnalyzerList[cursor.a], cursor.h)
    BY <2>2 DEF NeedsOf, needed
  <2>4. needed[cursor.r] = [hint |-> new.hint, cost |-> new.cost]
    BY <2>2 DEF Ask
  <2>5. new.id = hypotheses[cursor.h].id
    OBVIOUS
  <2> HIDE DEF new
  <2>6. /\ DOMAIN asks' = 1..Len(asks) + 1 /\ Len(asks) \in Nat
        /\ DOMAIN asks = 1..Len(asks)
        /\ asks'[Len(asks) + 1] = new /\ \A n \in 1..Len(asks) : asks'[n] = asks[n]
    BY <2>1 DEF TypeOK
  <2>7. ASSUME NEW n \in DOMAIN asks'
        PROVE  \E k \in DOMAIN hypotheses, a \in AnalyzerIds : w(n, k, a)
    <3>1. CASE n \in 1..Len(asks)
      BY <2>1, <2>6, <3>1 DEF AsksWanted
    <3>2. CASE n = Len(asks) + 1
      BY <2>2, <2>3, <2>4, <2>5, <2>6, <3>2
    <3> QED BY <2>6, <3>1, <3>2
  <2>8. \A a, k : NeedsOf(a, k)' = NeedsOf(a, k)
    BY <2>1 DEF NeedsOf
  <2> QED BY <2>1, <2>7, <2>8 DEF AsksWanted
<1>2. CASE MergeHypotheses
  <2>1. \/ asks' = <<>> /\ pc' = "ask"
        \/ pc' = "summarize"
    BY <1>2 DEF MergeHypotheses
  <2>2. CASE asks' = <<>> /\ pc' = "ask"
    BY <2>2 DEF AsksWanted
  <2>3. CASE pc' = "summarize"
    BY <2>3 DEF AsksWanted
  <2> QED BY <2>1, <2>2, <2>3
<1>3. ASSUME ~AcceptAsk, ~MergeHypotheses
      PROVE  /\ asks' = asks /\ hypotheses' = hypotheses
             /\ pc' = "start" => pc = "start"
             /\ pc' \in {"ask", "collect"} => pc \in {"start", "ask", "collect"}
  BY <1>3 DEF Next, Engine, WorldMoves, Refuse, Begin, CollectOk, CollectFails,
     InitialPassEnds, NewEvidenceArrives, NothingNewArrives, AnalyzeOk, AnalyzeFails,
     SkipAsk, NextHypothesis, NextAnalyzer, StartRound, NothingToAsk, Summarize,
     AllAsked, Build, asking, analysis
<1>4. CASE ~AcceptAsk /\ ~MergeHypotheses
  <2>1. \A a, k : NeedsOf(a, k)' = NeedsOf(a, k)
    BY <1>3, <1>4 DEF NeedsOf
  <2>2. CASE pc = "start"
    BY <1>3, <1>4, <2>2 DEF AsksWanted
  <2>3. CASE pc \in {"ask", "collect"}
    BY <1>3, <1>4, <2>1, <2>3 DEF AsksWanted
  <2>4. CASE pc \notin {"start", "ask", "collect"}
    BY <1>3, <1>4, <2>4 DEF AsksWanted
  <2> QED BY <2>2, <2>3, <2>4
<1> QED BY <1>1, <1>2, <1>4

\* The loops of pendingRequests pass a request only by refusing it.
LEMMA FitsStep ==
  ASSUME IInv, Next PROVE NothingFits'
<1> DEFINE W(n, k) == wants(AnalyzerList[n], hypotheses[k])
           Past(n, k, r) == Passed(n, k, r)
<1> USE DEF IInv
<1>1. SUFFICES ASSUME pc' = "ask", asks' = <<>>, maxRequests > 0
               PROVE  /\ spent' = 0
                      /\ \A n \in DOMAIN AnalyzerList, k \in DOMAIN hypotheses' :
                           \A r \in DOMAIN W(n, k)' :
                             Past(n, k, r)' => W(n, k)'[r].cost > requestBudget
  BY DEF NothingFits
<1>2. CASE MergeHypotheses
  <2>1. cursor' = FirstCursor /\ spent' = 0
    BY <1>1, <1>2 DEF MergeHypotheses
  <2>2. ASSUME NEW n \in DOMAIN AnalyzerList, NEW k \in DOMAIN hypotheses',
               NEW r \in DOMAIN W(n, k)'
        PROVE  ~Past(n, k, r)'
    <3>1. n \in Nat \ {0}
      BY Parameters
    <3>2. k \in Nat \ {0}
      <4>1. hypotheses' \in Seq(Verdict)
        BY TypeStep DEF TypeOK
      <4> QED BY <4>1
    <3>3. r \in Nat \ {0}
      <4>1. hypotheses' \in Seq(Verdict)
        BY TypeStep DEF TypeOK
      <4>2. hypotheses'[k] \in Verdict /\ AnalyzerList[n] \in AnalyzerIds
        BY <4>1, Parameters
      <4>3. W(n, k)' \in Seq(Ask)
        BY <4>2, WantsType
      <4> QED BY <4>3
    <3> QED BY <2>1, <3>1, <3>2, <3>3 DEF Passed, FirstCursor
  <2> QED BY <2>1, <2>2
<1>3. CASE AcceptAsk
  <2>1. PICK new : asks' = Append(asks, new)
    BY <1>3 DEF AcceptAsk
  <2>2. Len(asks') = Len(asks) + 1 /\ Len(asks) \in Nat
    BY <2>1 DEF TypeOK
  <2> QED BY <1>1, <2>2
<1>4. ASSUME SkipAsk \/ NextHypothesis \/ NextAnalyzer
      PROVE  /\ pc = "ask" /\ asks = <<>> /\ spent = 0 /\ spent' = spent
             /\ hypotheses' = hypotheses
             /\ \A n \in DOMAIN AnalyzerList, k \in DOMAIN hypotheses :
                  /\ W(n, k)' = W(n, k)
                  /\ \A r \in DOMAIN W(n, k) : Past(n, k, r) => W(n, k)[r].cost > requestBudget
                  /\ W(n, k) \in Seq(Ask) /\ n \in Nat \ {0} /\ k \in Nat \ {0}
  <2>1. /\ pc = "ask" /\ asks = <<>> /\ spent' = spent /\ hypotheses' = hypotheses
    BY <1>1, <1>4 DEF SkipAsk, NextHypothesis, NextAnalyzer, analysis
  <2>2. /\ spent = 0
        /\ \A n \in DOMAIN AnalyzerList, k \in DOMAIN hypotheses :
             \A r \in DOMAIN W(n, k) : Past(n, k, r) => W(n, k)[r].cost > requestBudget
    BY <1>1, <2>1 DEF NothingFits
  <2>3. ASSUME NEW n \in DOMAIN AnalyzerList, NEW k \in DOMAIN hypotheses
        PROVE  W(n, k)' = W(n, k) /\ W(n, k) \in Seq(Ask) /\ n \in Nat \ {0} /\ k \in Nat \ {0}
    <3>1. AnalyzerList[n] \in AnalyzerIds /\ n \in Nat \ {0}
      BY Parameters
    <3>2. hypotheses[k] \in Verdict /\ k \in Nat \ {0}
      BY DEF TypeOK
    <3> QED BY <2>1, <3>1, <3>2, WantsType
  <2> QED BY <2>1, <2>2, <2>3
<1>5. cursor.a \in Nat \ {0} /\ cursor.h \in Nat \ {0} /\ cursor.r \in Nat \ {0}
  BY CursorTypes DEF TypeOK
<1> HIDE DEF W, Past
<1>6. CASE SkipAsk
  <2>1. cursor' = [cursor EXCEPT !.r = @ + 1] /\ InLoops /\ cursor.r <= Len(needed)
    BY <1>6 DEF SkipAsk
  <2>2. cursor'.a = cursor.a /\ cursor'.h = cursor.h /\ cursor'.r = cursor.r + 1
    BY <2>1 DEF TypeOK, Cursors
  <2>3. needed = W(cursor.a, cursor.h)
    BY DEF needed, W
  <2>4. needed[cursor.r] \in Ask /\ needed[cursor.r].cost \in Nat
    BY <2>1, ReadAt DEF Ask
  <2>5. needed[cursor.r].cost > requestBudget
    <3>1. ~Affordable(hypotheses[cursor.h].id, needed[cursor.r])
      BY <1>6 DEF SkipAsk
    <3>2. ~seen(hypotheses[cursor.h].id, needed[cursor.r].hint) /\ Len(asks) = 0 /\ spent = 0
      BY <1>4, <1>6 DEF seen
    <3>3. ~(0 + needed[cursor.r].cost <= requestBudget)
      BY <1>1, <3>1, <3>2, Parameters DEF Affordable
    <3> QED BY <2>4, <3>3, Parameters
  <2>6. ASSUME NEW n \in DOMAIN AnalyzerList, NEW k \in DOMAIN hypotheses,
               NEW r \in DOMAIN W(n, k), Past(n, k, r)'
        PROVE  W(n, k)[r].cost > requestBudget
    <3>1. Past(n, k, r) \/ (n = cursor.a /\ k = cursor.h /\ r = cursor.r)
      <4>1. n \in Nat /\ k \in Nat /\ r \in Nat
        BY <1>4, <1>6
      <4> QED BY <1>5, <2>2, <2>6, <4>1 DEF Past, Passed
    <3> QED BY <1>4, <1>6, <2>3, <2>5, <3>1
  <2> QED BY <1>4, <1>6, <2>6
<1>7. CASE NextHypothesis
  <2>1. cursor' = [cursor EXCEPT !.h = @ + 1, !.r = 1] /\ cursor.r > Len(needed)
    BY <1>7 DEF NextHypothesis
  <2>2. cursor'.a = cursor.a /\ cursor'.h = cursor.h + 1 /\ cursor'.r = 1
    BY <2>1 DEF TypeOK, Cursors
  <2>3. needed = W(cursor.a, cursor.h)
    BY DEF needed, W
  <2>4. ASSUME NEW n \in DOMAIN AnalyzerList, NEW k \in DOMAIN hypotheses,
               NEW r \in DOMAIN W(n, k), Past(n, k, r)'
        PROVE  Past(n, k, r)
    <3>1. n \in Nat /\ k \in Nat /\ r \in 1..Len(W(n, k))
      BY <1>4, <1>7
    <3>2. n < cursor.a \/ (n = cursor.a /\ k < cursor.h + 1)
      BY <1>5, <2>2, <2>4, <3>1 DEF Past, Passed
    <3>3. CASE n = cursor.a /\ k = cursor.h
      BY <1>5, <2>1, <2>3, <3>1, <3>3, <1>4, <1>7 DEF Past, Passed
    <3> QED BY <1>5, <3>1, <3>2, <3>3 DEF Past, Passed
  <2> QED BY <1>4, <1>7, <2>4
<1>8. CASE NextAnalyzer
  <2>1. /\ cursor' = [a |-> cursor.a + 1, h |-> 1, r |-> 1]
        /\ cursor.h > Len(hypotheses)
    BY <1>8 DEF NextAnalyzer
  <2>2. ASSUME NEW n \in DOMAIN AnalyzerList, NEW k \in DOMAIN hypotheses,
               NEW r \in DOMAIN W(n, k), Past(n, k, r)'
        PROVE  Past(n, k, r)
    <3>1. n \in Nat /\ k \in 1..Len(hypotheses) /\ r \in 1..Len(W(n, k))
      BY <1>4, <1>8 DEF TypeOK
    <3>2. n < cursor.a + 1
      BY <1>5, <2>1, <2>2, <3>1, <1>4, <1>8 DEF Past, Passed
    <3>3. k < cursor.h
      BY <1>5, <2>1, <3>1 DEF TypeOK
    <3> QED BY <1>5, <3>1, <3>2, <3>3 DEF Past, Passed
  <2> QED BY <1>4, <1>8, <2>2
<1>9. CASE WorldMoves \/ Refuse \/ Begin \/ CollectOk \/ CollectFails \/ InitialPassEnds
           \/ NewEvidenceArrives \/ NothingNewArrives \/ AnalyzeOk \/ AnalyzeFails
           \/ StartRound \/ NothingToAsk \/ Summarize
  BY <1>1, <1>9 DEF WorldMoves, Refuse, Begin, CollectOk, CollectFails,
     InitialPassEnds, NewEvidenceArrives, NothingNewArrives, AnalyzeOk, AnalyzeFails,
     StartRound, NothingToAsk, Summarize, AllAsked, Build
<1> QED BY <1>2, <1>3, <1>6, <1>7, <1>8, <1>9 DEF Next, Engine

\* What the first n analyzers emit over O is what the first n - 1 emit, and then the
\* n-th: the recursion has a solution, since otherwise there would be a shortest list
\* of analyzers it has none for.
LEMMA EmittedByRuns ==
  ASSUME NEW O
  PROVE  /\ EmittedBy(O)[0] = <<>>
         /\ \A n \in 1..Len(AnalyzerList) :
              EmittedBy(O)[n] = EmittedBy(O)[n - 1] \o Emits(AnalyzerList[n], O)
<1> DEFINE N == Len(AnalyzerList)
           After(f, n) == IF n = 0 THEN <<>> ELSE f[n - 1] \o Emits(AnalyzerList[n], O)
           Runs(f, k) == f = [n \in 0..k |-> After(f, n)]
           Has(k) == \E f : Runs(f, k)
           Stuck == {k \in 0..N : ~Has(k)}
<1>1. N \in Nat
  BY Parameters
<1>2. Has(N)
  <2>1. SUFFICES ASSUME Stuck # {} PROVE FALSE
    <3> HIDE DEF Has
    <3> QED BY <1>1
  <2>2. Stuck \subseteq Int /\ IsFiniteSet(Stuck)
    <3>1. IsFiniteSet(0..N) /\ Stuck \subseteq 0..N
      <4> HIDE DEF Has
      <4> QED BY <1>1, FS_Interval
    <3>2. 0..N \subseteq Int
      BY <1>1
    <3> HIDE DEF Stuck
    <3> QED BY <3>1, <3>2, FS_Subset
  <2>3. PICK k \in Stuck : \A j \in Stuck : k <= j
    <3> HIDE DEF Stuck
    <3> QED BY <2>1, <2>2, HasSmallest
  <2>4. k # 0
    <3>1. Runs([n \in 0..0 |-> <<>>], 0)
      OBVIOUS
    <3>2. Has(0)
      <4> HIDE DEF Runs
      <4> QED BY <3>1
    <3> HIDE DEF Has
    <3> QED BY <3>2
  <2>5. k - 1 \in 0..N /\ k \in 1..N /\ k - 1 \notin Stuck
    <3> HIDE DEF Has
    <3> QED BY <1>1, <2>3, <2>4
  <2>6. PICK f : Runs(f, k - 1)
    <3>1. Has(k - 1)
      <4> HIDE DEF Has
      <4> QED BY <2>5
    <3> QED BY <3>1
  <2> DEFINE g == [n \in 0..k |-> IF n = k THEN f[k - 1] \o Emits(AnalyzerList[k], O)
                                  ELSE f[n]]
  <2>7. \A n \in 0..k : g[n] = After(g, n)
    <3>1. SUFFICES ASSUME NEW n \in 0..k PROVE g[n] = After(g, n)
      OBVIOUS
    <3>2. \A m \in 0..k - 1 : g[m] = f[m] /\ f[m] = After(f, m)
      BY <2>5, <2>6
    <3>3. CASE n = k
      BY <2>5, <3>2, <3>3
    <3>4. CASE n # k
      <4>1. n \in 0..k - 1 /\ (n = 0 \/ n - 1 \in 0..k - 1)
        BY <2>5, <3>4
      <4> HIDE DEF g
      <4> QED BY <3>2, <4>1
    <3> QED BY <3>3, <3>4
  <2>8. Runs(g, k)
    <3>1. g = [n \in 0..k |-> g[n]]
      OBVIOUS
    <3> HIDE DEF g, After
    <3> QED BY <2>7, <3>1
  <2>9. Has(k)
    <3> HIDE DEF Runs, g
    <3> QED BY <2>8
  <2> HIDE DEF Has
  <2> QED BY <2>3, <2>9
<1>3. Runs(EmittedBy(O), N)
  <2>1. EmittedBy(O) = CHOOSE f : Runs(f, N)
    BY DEF EmittedBy
  <2> HIDE DEF Runs
  <2> QED BY <1>2, <2>1
<1>4. \A n \in 0..N : EmittedBy(O)[n] = After(EmittedBy(O), n)
  BY <1>3
<1>5. 0 \in 0..N /\ \A n \in 1..N : n \in 0..N /\ n # 0
  BY <1>1
<1> QED BY <1>4, <1>5

\* Every round begins its analysis afresh, each analyzer adds its part to it, and
\* nothing else touches what it found: a round that ends without new observations
\* leaves the conclusions of the last analysis, which were drawn from the same ones.
LEMMA FreshStep ==
  ASSUME IInv, Next PROVE Fresh'
<1> USE DEF IInv, Fresh
<1>0. RoundsCome'
  <2>1. pc' # "start" \/ (pc = "start" /\ round' = round)
    BY DEF Next, Engine, WorldMoves, Refuse, Begin, CollectOk, CollectFails,
       InitialPassEnds, NewEvidenceArrives, NothingNewArrives, AnalyzeOk, AnalyzeFails,
       MergeHypotheses, AcceptAsk, SkipAsk, NextHypothesis, NextAnalyzer, StartRound,
       NothingToAsk, Summarize, AllAsked, Build
  <2> QED BY <2>1 DEF RoundsCome
<1>1. NoneFailed' => NoneFailed
  <2>1. gaps \subseteq gaps'
    BY DEF Next, Engine, WorldMoves, Refuse, Begin, CollectOk, CollectFails,
       InitialPassEnds, NewEvidenceArrives, NothingNewArrives, AnalyzeOk, AnalyzeFails,
       MergeHypotheses, AcceptAsk, SkipAsk, NextHypothesis, NextAnalyzer, StartRound,
       NothingToAsk, Summarize, Build
  <2> QED BY <2>1 DEF NoneFailed
<1>2. ReportSays'
  <2>1. CASE Summarize
    BY <2>1 DEF Summarize, analysis, ReportSays
  <2>2. CASE ~Summarize
    <3>1. report' = report
      BY <2>2 DEF Next, Engine, WorldMoves, Refuse, Begin, CollectOk, CollectFails,
         InitialPassEnds, NewEvidenceArrives, NothingNewArrives, AnalyzeOk, AnalyzeFails,
         MergeHypotheses, AcceptAsk, SkipAsk, NextHypothesis, NextAnalyzer, StartRound,
         NothingToAsk
    <3>2. pc = "returned" => FALSE
      BY <2>2 DEF Next, Engine, WorldMoves, Refuse, Begin, CollectOk, CollectFails,
         InitialPassEnds, NewEvidenceArrives, NothingNewArrives, AnalyzeOk, AnalyzeFails,
         MergeHypotheses, AcceptAsk, SkipAsk, NextHypothesis, NextAnalyzer, StartRound,
         NothingToAsk, AllAsked
    <3> QED BY <3>1, <3>2 DEF ReportSays, ReportIsFinal
  <2> QED BY <2>1, <2>2
<1>3. CASE InitialPassEnds \/ NewEvidenceArrives
  <2>1. /\ pc' = "analyze" /\ next' = 1 /\ emitted' = <<>> /\ findings' = {}
    BY <1>3 DEF InitialPassEnds, NewEvidenceArrives, Build
  <2>2. AnalyzedSoFar'
    <3>1. emitted' = EmittedBy(observations')[next' - 1]
      <4>1. EmittedBy(observations')[0] = <<>>
        BY EmittedByRuns
      <4>2. next' - 1 = 0
        BY <2>1
      <4> QED BY <2>1, <4>1, <4>2
    <3>2. findings' = {f \in FindingsOver(observations') :
                         \E n \in 1..next' - 1 : f[1] = AnalyzerList[n]}
      BY <2>1
    <3>3. next' <= Len(AnalyzerList) + 1
      BY <2>1, Parameters
    <3> QED BY <3>1, <3>2, <3>3 DEF AnalyzedSoFar, FindingsOver
  <2>3. AnalyzedAll'
    BY <2>1 DEF AnalyzedAll, Concluded
  <2> QED BY <1>0, <1>2, <2>2, <2>3
<1>4. CASE AnalyzeOk
  <2>1. /\ pc = "analyze" /\ pc' = "analyze" /\ next <= Len(AnalyzerList)
        /\ next' = next + 1 /\ observations' = observations /\ gaps' = gaps
        /\ emitted' = emitted \o Emits(AnalyzerList[next], observations)
        /\ findings' = findings \cup {<<AnalyzerList[next], s>> :
                                      s \in Finds(AnalyzerList[next], observations)}
    BY <1>4 DEF AnalyzeOk
  <2>2. next \in Nat \ {0} /\ next \in 1..Len(AnalyzerList)
    BY <2>1, Parameters DEF TypeOK
  <2>3. AnalyzerList[next] \in AnalyzerIds
    BY <2>2, Parameters
  <2>4. Finds(AnalyzerList[next], observations) \subseteq Severities
    <3>1. observations \in SUBSET Obs
      BY DEF TypeOK
    <3> QED BY <2>3, <3>1, AnalyzerAssumption
  <2>5. ASSUME NoneFailed'
        PROVE  /\ emitted' = EmittedBy(observations)[next]
               /\ findings' = {f \in FindingsOver(observations) :
                                 \E n \in 1..next : f[1] = AnalyzerList[n]}
    <3>1. /\ emitted = EmittedBy(observations)[next - 1]
          /\ findings = {f \in FindingsOver(observations) :
                           \E n \in 1..next - 1 : f[1] = AnalyzerList[n]}
      BY <1>1, <2>1, <2>5 DEF AnalyzedSoFar
    <3>2. emitted' = EmittedBy(observations)[next]
      BY <2>1, <2>2, <3>1, EmittedByRuns
    <3>3. {<<AnalyzerList[next], s>> : s \in Finds(AnalyzerList[next], observations)}
            = {f \in FindingsOver(observations) : f[1] = AnalyzerList[next]}
      BY <2>3, <2>4 DEF FindingsOver
    <3>4. \A n : n \in 1..next <=> n \in 1..next - 1 \/ n = next
      BY <2>2
    <3> QED BY <2>1, <3>1, <3>2, <3>3, <3>4
  <2>6. next' <= Len(AnalyzerList) + 1 /\ next' - 1 = next
    BY <2>1, <2>2, Parameters
  <2>7. AnalyzedSoFar'
    BY <2>1, <2>5, <2>6 DEF AnalyzedSoFar
  <2>8. AnalyzedAll'
    BY <2>1 DEF AnalyzedAll, Concluded
  <2> QED BY <1>0, <1>2, <2>7, <2>8
<1>5. CASE AnalyzeFails
  <2>1. ~NoneFailed'
    <3> DEFINE gap == [category |-> "analyzer-error", source |-> AnalyzerList[next],
                       pass |-> round]
    <3>1. gap \in gaps' /\ gap.category = "analyzer-error"
      BY <1>5 DEF AnalyzeFails
    <3> QED BY <3>1 DEF NoneFailed
  <2> QED BY <1>0, <1>2, <2>1 DEF AnalyzedSoFar, AnalyzedAll
<1>6. CASE MergeHypotheses
  <2>1. /\ pc = "analyze" /\ pc' # "analyze" /\ next > Len(AnalyzerList)
        /\ hypotheses' = Merge(emitted)
        /\ UNCHANGED <<next, emitted, findings, observations, gaps>>
    BY <1>6 DEF MergeHypotheses
  <2>2. ASSUME NoneFailed'
        PROVE  /\ hypotheses' = Merge(EmittedOver(observations))
               /\ findings = FindingsOver(observations)
    <3>1. /\ next <= Len(AnalyzerList) + 1
          /\ emitted = EmittedBy(observations)[next - 1]
          /\ findings = {f \in FindingsOver(observations) :
                           \E n \in 1..next - 1 : f[1] = AnalyzerList[n]}
      BY <1>1, <2>1, <2>2 DEF AnalyzedSoFar
    <3>2. next - 1 = Len(AnalyzerList)
      BY <2>1, <3>1, Parameters DEF TypeOK
    <3>3. \A f \in FindingsOver(observations) :
            \E n \in 1..Len(AnalyzerList) : f[1] = AnalyzerList[n]
      BY Parameters DEF FindingsOver, AnalyzerIds
    <3> QED BY <2>1, <3>1, <3>2, <3>3 DEF EmittedOver
  <2>3. AnalyzedSoFar' /\ AnalyzedAll'
    BY <2>1, <2>2 DEF AnalyzedSoFar, AnalyzedAll
  <2> QED BY <1>0, <1>2, <2>3
<1>7. CASE /\ ~InitialPassEnds /\ ~NewEvidenceArrives /\ ~AnalyzeOk /\ ~AnalyzeFails
           /\ ~MergeHypotheses
  <2>1. /\ UNCHANGED <<emitted, findings, observations, hypotheses>>
        /\ Concluded' => Concluded
        /\ pc' = "analyze" => pc = "analyze" /\ next' = next
    BY <1>7 DEF Next, Engine, WorldMoves, Refuse, Begin, CollectOk, CollectFails,
       NothingNewArrives, AcceptAsk, SkipAsk, NextHypothesis, NextAnalyzer, StartRound,
       NothingToAsk, Summarize, AllAsked, Concluded, RoundsCome, analysis
  <2>2. AnalyzedSoFar' /\ AnalyzedAll'
    BY <1>1, <2>1 DEF AnalyzedSoFar, AnalyzedAll
  <2> QED BY <1>0, <1>2, <2>2
<1> QED BY <1>3, <1>4, <1>5, <1>6, <1>7

\* A fresh call of Investigate satisfies the invariant.
LEMMA InvariantInit == Init => IInv
<1>1. SUFFICES ASSUME Init PROVE IInv
  OBVIOUS
<1>2. TypeOK
  BY <1>1, Parameters, WiringAssumption, CursorTypes
     DEF Init, TypeOK, Places, FirstCursor, Cursors
<1>3. RoundsLeft /\ StartsEmpty /\ BuiltFromAll /\ ReportIsFinal /\ AsksWanted /\ NothingFits
  BY <1>1 DEF Init, RoundsLeft, StartsEmpty, BuiltFromAll, ReportIsFinal, AsksWanted,
     NothingFits
<1>4. RequestsBounded
  BY <1>1, Parameters DEF Init, RequestsBounded
<1>5. Fresh
  BY <1>1 DEF Init, Fresh, AnalyzedSoFar, AnalyzedAll, Concluded, ReportSays, RoundsCome
<1> QED BY <1>2, <1>3, <1>4, <1>5 DEF IInv

\* Every step of the engine, and of the world around it, keeps the invariant.
LEMMA InvariantStep == IInv /\ [Next]_vars => IInv'
<1>1. SUFFICES ASSUME IInv, [Next]_vars PROVE IInv'
  OBVIOUS
<1>2. CASE Next
  <2>1. TypeOK'
    BY <1>1, <1>2, TypeStep DEF IInv
  <2> QED BY <1>1, <1>2, <2>1, FlowStep, BoundsStep, WantedStep, FitsStep,
             FreshStep DEF IInv
<1>3. CASE UNCHANGED vars
  <2> USE <1>1, <1>3 DEF IInv, vars, analysis, asking
  <2>1. TypeOK'
    BY DEF TypeOK
  <2>2. (RoundsLeft /\ StartsEmpty /\ BuiltFromAll /\ ReportIsFinal /\ RequestsBounded)'
    BY DEF RoundsLeft, StartsEmpty, BuiltFromAll, ReportIsFinal, RequestsBounded
  <2>3. AsksWanted'
    BY DEF AsksWanted, NeedsOf
  <2>4. NothingFits'
    BY DEF NothingFits, Passed
  <2>5. Fresh'
    BY DEF Fresh, AnalyzedSoFar, AnalyzedAll, Concluded, ReportSays, NoneFailed,
           RoundsCome
  <2> QED BY <2>1, <2>2, <2>3, <2>4, <2>5
<1> QED BY <1>1, <1>2, <1>3

\* The invariant holds throughout every investigation.
THEOREM Invariance == Spec => []IInv
<1> QED BY InvariantInit, InvariantStep, PTL DEF Spec

\* Every variable keeps its type, for every wiring and every bound.
THEOREM TypeCorrect == Spec => []TypeOK
<1>1. IInv => TypeOK
  BY DEF IInv
<1> QED BY <1>1, Invariance, PTL

\* The bounds of engine.go 40-47 hold of the requests in force, and none is a repeat.
THEOREM BoundsHold == Spec => []RequestsBounded
<1>1. IInv => RequestsBounded
  BY DEF IInv
<1> QED BY <1>1, Invariance, PTL

\* Collectors are only asked for what a live hypothesis still lacks.
THEOREM AsksAreWanted == Spec => []AsksAreUnmet
<1>1. IInv => AsksAreUnmet
  BY DEF IInv, AsksWanted, AsksAreUnmet
<1> QED BY <1>1, Invariance, PTL

\* A report concludes from the observations it carries, all of them and no others,
\* unless an analyzer failed: its verdicts are the merge of what the analyzers emit
\* over them, and the findings behind its status and severity are theirs.
THEOREM VerdictsAreFresh == Spec => []FreshVerdict
<1>1. IInv => FreshVerdict
  <2>1. SUFFICES ASSUME IInv, report # NoReport PROVE FreshVerdict
    BY DEF FreshVerdict
  <2>2. /\ pc = "returned" /\ report.built = built /\ report.gaps = gaps
        /\ report.observations = observations /\ report.hypotheses = hypotheses
        /\ built = observations
    BY <2>1 DEF IInv, Fresh, ReportIsFinal, ReportSays, BuiltFromAll
  <2>3. NoneFailed => /\ hypotheses = Merge(EmittedOver(observations))
                      /\ findings = FindingsOver(observations)
    BY <2>1, <2>2 DEF IInv, Fresh, AnalyzedAll, Concluded
  <2> QED BY <2>2, <2>3 DEF FreshVerdict, NoneFailed
<1> QED BY <1>1, Invariance, PTL

\* The engine does not give up early: it goes to its summary only when the rounds are
\* used up, a round brought nothing, or nothing affordable is missing.
THEOREM NeverGivesUpEarly == Spec => StopsForAReason
<1> DEFINE Reason ==
             \/ pc = "collect" /\ round > 0 /\ prior \subseteq observations
             \/ round = maxAdaptiveRounds
             \/ maxRequests = 0
             \/ \A k \in DOMAIN hypotheses', a \in AnalyzerIds :
                  \A ask \in NeedsOf(a, k)' : ask.cost > requestBudget
           Stop == pc # "summarize" /\ pc' = "summarize"
<1>1. ASSUME IInv, Next, Stop PROVE Reason
  <2> HIDE DEF Reason
  <2>1. CASE MergeHypotheses
    <3>1. round >= maxAdaptiveRounds /\ round \in 0..maxAdaptiveRounds
      BY <1>1, <2>1, Parameters DEF MergeHypotheses, IInv, TypeOK
    <3> QED BY <3>1, Parameters DEF Reason
  <2>2. CASE NothingNewArrives
    BY <2>2 DEF NothingNewArrives, Reason
  <2>3. CASE NothingToAsk /\ maxRequests > 0
    <3>1. /\ pc = "ask" /\ asks = <<>> /\ cursor.a > Len(AnalyzerList)
          /\ hypotheses' = hypotheses
      BY <2>3 DEF NothingToAsk, AllAsked, analysis
    <3>2. cursor.a \in Nat
      BY <1>1, CursorTypes DEF IInv, TypeOK
    <3>3. \A n \in DOMAIN AnalyzerList : \A k, r : Passed(n, k, r)
      BY <3>1, <3>2, Parameters DEF Passed
    <3>4. \A n \in DOMAIN AnalyzerList, k \in DOMAIN hypotheses :
            \A r \in DOMAIN wants(AnalyzerList[n], hypotheses[k]) :
              wants(AnalyzerList[n], hypotheses[k])[r].cost > requestBudget
      BY <1>1, <2>3, <3>1, <3>3 DEF IInv, NothingFits
    <3>5. \A k \in DOMAIN hypotheses, a \in AnalyzerIds :
            \A ask \in NeedsOf(a, k) : ask.cost > requestBudget
      BY <3>4 DEF NeedsOf, AnalyzerIds
    <3>6. \A a, k : NeedsOf(a, k)' = NeedsOf(a, k)
      BY <3>1 DEF NeedsOf
    <3> QED BY <3>1, <3>5, <3>6 DEF Reason
  <2>4. CASE ~(maxRequests > 0)
    BY <2>4, Parameters DEF Reason
  <2> QED BY <1>1, <2>1, <2>2, <2>3, <2>4 DEF Next, Engine, WorldMoves, Refuse, Begin,
       CollectOk, CollectFails, InitialPassEnds, NewEvidenceArrives, AnalyzeOk,
       AnalyzeFails, AcceptAsk, SkipAsk, NextHypothesis, NextAnalyzer, StartRound,
       Summarize, Build
<1>2. IInv /\ [Next]_vars => [Stop => Reason]_vars
  BY <1>1
<1> QED BY <1>2, Invariance, PTL DEF Spec, StopsForAReason

-------------------------------------------------------------------------------
(* The refinement of Gathering. *)

\* A fresh call of Investigate has promised everything and done nothing.
LEMMA PromiseInit == Init => Promise!Init
  BY Parameters DEF Init, Promise!Init

\* Every step of the engine is a step of Gathering or invisible to it: a round is a
\* retry, taking observations in or recording a gap gathers, Summarize publishes.
LEMMA PromiseStep == IInv /\ [Next]_vars => [Promise!Next]_(Promise!vars)
<1> DEFINE verdict == IF report = NoReport THEN NoReport
                      ELSE [evidence |-> report.built, faults |-> report.gaps]
<1>1. SUFFICES ASSUME IInv, [Next]_vars PROVE [Promise!Next]_(Promise!vars)
  OBVIOUS
<1> USE DEF analysis
<1>2. ASSUME UNCHANGED <<observations, gaps, round, report>>
      PROVE  [Promise!Next]_(Promise!vars)
  BY <1>2 DEF Promise!vars
<1>3. CASE CollectFails \/ AnalyzeFails \/ InitialPassEnds \/ NewEvidenceArrives
  <2>1. /\ report = NoReport
        /\ UNCHANGED <<round, report>>
        /\ observations \subseteq observations' /\ gaps \subseteq gaps'
    BY <1>1, <1>3 DEF CollectFails, AnalyzeFails, InitialPassEnds, NewEvidenceArrives,
       Build, IInv, ReportIsFinal, StartsEmpty
  <2>2. observations' \in SUBSET Obs /\ gaps' \in SUBSET Gap
    <3>1. TypeOK'
      BY <1>1, InvariantStep DEF IInv
    <3> QED BY <3>1 DEF TypeOK
  <2>3. Promise!Gather
    BY <2>1, <2>2 DEF Promise!Gather
  <2> QED BY <2>3 DEF Promise!Next
<1>4. CASE StartRound
  <2>1. /\ report = NoReport /\ UNCHANGED <<observations, gaps, report>>
        /\ round' = round + 1 /\ round < maxAdaptiveRounds /\ round \in Nat
    BY <1>1, <1>4, Parameters
       DEF StartRound, AllAsked, IInv, ReportIsFinal, RoundsLeft, TypeOK
  <2>2. /\ maxAdaptiveRounds - round > 0
        /\ maxAdaptiveRounds - round' = (maxAdaptiveRounds - round) - 1
    BY <2>1, Parameters
  <2>3. Promise!Retry
    BY <2>1, <2>2 DEF Promise!Retry
  <2> QED BY <2>3 DEF Promise!Next
<1>5. CASE Summarize
  <2>1. /\ report = NoReport /\ UNCHANGED <<observations, gaps, round>>
        /\ report'.built = observations /\ report'.gaps = gaps
    BY <1>1, <1>5 DEF Summarize, IInv, ReportIsFinal, BuiltFromAll
  <2>2. report' # NoReport
    <3>1. report' \in Reports
      BY <1>1, <1>5, StatusType, SummaryTypes DEF Summarize, Reports, IInv, TypeOK
    <3> QED BY <3>1, ReportAssumption
  <2>3. Promise!Publish
    BY <2>1, <2>2 DEF Promise!Publish
  <2> QED BY <2>3 DEF Promise!Next
<1>6. CASE UNCHANGED vars
  BY <1>2, <1>6 DEF vars
<1>7. CASE \/ WorldMoves \/ Refuse \/ Begin \/ CollectOk \/ NothingNewArrives \/ AnalyzeOk
           \/ MergeHypotheses \/ AcceptAsk \/ SkipAsk \/ NextHypothesis \/ NextAnalyzer
           \/ NothingToAsk
  BY <1>2, <1>7 DEF WorldMoves, Refuse, Begin, CollectOk, NothingNewArrives, AnalyzeOk,
     MergeHypotheses, AcceptAsk, SkipAsk, NextHypothesis, NextAnalyzer, NothingToAsk
<1> QED BY <1>1, <1>3, <1>4, <1>5, <1>6, <1>7 DEF Next, Engine

\* Investigate implements Gathering, whatever collectors and analyzers it is given.
THEOREM InvestigateKeepsItsPromise == Spec => KeepsPromise
<1> QED BY PromiseInit, PromiseStep, Invariance, PTL DEF Spec, KeepsPromise, Promise!Spec

-------------------------------------------------------------------------------
(* Staged collection, with the collectors of PodEvidence. *)

\* Without Prometheus in the list there is nothing to stage.
Unstaged == \A n \in DOMAIN wired : wired[n] # "prometheus"

\* Kubernetes has had its turn in this pass.
Asked == \E n \in DOMAIN wired : n < next /\ wired[n] = "kubernetes"

\* Pods are known in a pass only from a Kubernetes collector that answered in it.
PodsAreFresh ==
  pc = "collect" =>
    /\ Failed("kubernetes", round) => Asked
    /\ \/ PodMentions(prior) = {} \/ Unstaged
       \/ Asked /\ ~Failed("kubernetes", round)

Staged ==
  /\ \A g \in gaps : g.pass <= round
  /\ pc = "start" => gaps = {} /\ prior = {}
  /\ PodsAreFresh
  /\ CascadeVisible

\* Metrics and logs name no pods, and without pods there are no metrics.
LEMMA NoPodsAdded ==
  /\ \A w, pods, hs : \A c \in {"prometheus", "loki"} :
       \A got \in PodAnswers(c, w, pods, hs) : PodMentions(got.obs) = {}
  /\ \A w, hs : PodAnswers("prometheus", w, {}, hs) = {}
<1>1. ASSUME NEW pods, NEW got \in Prometheus(pods)
      PROVE  pods # {} /\ PodMentions(got.obs) = {}
  <2>1. pods # {}
    BY DEF Prometheus
  <2>2. PICK known : got.obs = {Series(p) : p \in known}
    BY <2>1 DEF Prometheus
  <2>3. \A p : Series(p).kind = "metric.series"
    BY DEF Series
  <2> QED BY <2>1, <2>2, <2>3 DEF PodMentions
<1>2. ASSUME NEW hs, NEW got \in Loki(hs)
      PROVE  PodMentions(got.obs) = {}
  <2>1. got.obs = {} \/ \E p : got.obs = {Snippet(p, "loki")}
    BY DEF Loki
  <2>2. \A p : Snippet(p, "loki").kind = "log.snippet"
    BY DEF Snippet
  <2> QED BY <2>1, <2>2 DEF PodMentions
<1>3. \A w, pods, hs : /\ PodAnswers("prometheus", w, pods, hs) = Prometheus(pods)
                       /\ PodAnswers("loki", w, pods, hs) = Loki(hs)
  BY DEF PodAnswers
<1> QED BY <1>1, <1>2, <1>3

\* What the wiring allows.
LEMMA WiredOnce ==
  ASSUME TypeOK
  PROVE  /\ DOMAIN wired = 1..Len(wired) /\ Len(wired) \in Nat
         /\ \A k, n \in DOMAIN wired : wired[k] = "kubernetes" /\ wired[n] = "kubernetes" => k = n
         /\ \A k, n \in DOMAIN wired : ~(wired[k] = "prometheus" /\ wired[n] = "replay")
         /\ \A n \in DOMAIN wired :
              /\ wired[n] \in CollectorIds
              /\ wired[n] \in {"kubernetes", "prometheus", "loki", "replay"}
<1>1. wired \in Wirings /\ wired \in Seq(CollectorIds)
  BY WiringAssumption DEF TypeOK
<1>2. DOMAIN wired = 1..Len(wired) /\ Len(wired) \in Nat
  BY <1>1
<1>3. \A n \in DOMAIN wired : wired[n] \in CollectorIds
  BY <1>1
<1>4. \A n \in DOMAIN wired : wired[n] \in {"kubernetes", "prometheus", "loki", "replay"}
  BY <1>3, PodAssumption
<1>5. /\ \A k, n \in DOMAIN wired : wired[k] = "kubernetes" /\ wired[n] = "kubernetes" => k = n
      /\ \A k, n \in DOMAIN wired : ~(wired[k] = "prometheus" /\ wired[n] = "replay")
  BY <1>1, StagedAssumption
<1> QED BY <1>2, <1>3, <1>4, <1>5

\* A collector that answers.
LEMMA StagedThroughAnswer ==
  ASSUME TypeOK, Staged, CollectOk
  PROVE  PodsAreFresh' /\ CascadeVisible'
<1>1. /\ pc = "collect" /\ next \in DOMAIN wired /\ next' = next + 1 /\ next \in Nat
      /\ UNCHANGED <<wired, pc, round, gaps>>
  BY WiredOnce DEF CollectOk, TypeOK
<1>2. /\ hints \in SUBSET Hints /\ Mentions(prior) = PodMentions(prior)
      /\ Mentions(prior) \in SUBSET Subjects /\ world \in Worlds /\ wired[next] \in CollectorIds
  BY <1>1, HintsType, CollectorAssumption, PodAssumption, WiredOnce DEF TypeOK
<1>3. Answers(wired[next], world, Mentions(prior), hints)
        = PodAnswers(wired[next], world, PodMentions(prior), hints)
  BY <1>2, PodAssumption
<1>4. PICK got \in PodAnswers(wired[next], world, PodMentions(prior), hints) :
        prior' = prior \cup got.obs
  BY <1>3 DEF CollectOk
<1>5. PodMentions(prior') = PodMentions(prior) \cup PodMentions(got.obs)
  BY <1>4 DEF PodMentions
<1>6. \A c, pass : Failed(c, pass)' <=> Failed(c, pass)
  BY <1>1 DEF Failed
<1>7. Asked' <=> Asked \/ wired[next] = "kubernetes"
  BY <1>1, WiredOnce DEF Asked
<1>8. Unstaged' <=> Unstaged
  BY <1>1 DEF Unstaged
<1>9. PodsAreFresh'
  <2>1. wired[next] = "kubernetes" => ~Asked
    BY <1>1, WiredOnce DEF Asked
  <2>2. (Failed("kubernetes", round) => Asked)
        /\ (PodMentions(prior) = {} \/ Unstaged \/ (Asked /\ ~Failed("kubernetes", round)))
    BY <1>1 DEF Staged, PodsAreFresh
  <2>3. CASE wired[next] = "kubernetes"
    <3>1. ~Failed("kubernetes", round)' /\ Asked'
      BY <1>1, <1>6, <1>7, <2>1, <2>2, <2>3
    <3> QED BY <3>1 DEF PodsAreFresh
  <2>4. CASE wired[next] = "replay"
    <3>1. Unstaged
      BY <1>1, <2>4, WiredOnce DEF Unstaged
    <3> QED BY <1>1, <1>6, <1>7, <1>8, <2>2, <3>1 DEF PodsAreFresh
  <2>5. CASE wired[next] \in {"prometheus", "loki"}
    <3>1. PodMentions(prior') = PodMentions(prior)
      BY <1>4, <1>5, <2>5, NoPodsAdded
    <3> QED BY <1>1, <1>6, <1>7, <1>8, <2>2, <3>1 DEF PodsAreFresh
  <2> QED BY <1>1, <2>3, <2>4, <2>5, WiredOnce
<1>10. CascadeVisible'
  <2> SUFFICES ASSUME NEW k \in DOMAIN wired, NEW m \in DOMAIN wired, NEW pass \in 0..round,
                      wired[k] = "kubernetes", wired[m] = "prometheus", k < m,
                      Failed("kubernetes", pass),
                      pass < round \/ m < next + 1
               PROVE  Failed("prometheus", pass)
    BY <1>1, <1>6 DEF CascadeVisible
  <2>1. CASE pass < round \/ m < next
    BY <2>1 DEF Staged, CascadeVisible
  <2>2. CASE ~(pass < round \/ m < next)
    <3>1. pass = round /\ m = next
      BY <1>1, <2>2, WiredOnce DEF TypeOK
    <3>2. ~Unstaged
      BY DEF Unstaged
    <3>3. PodMentions(prior) = {}
      BY <1>1, <3>1, <3>2 DEF Staged, PodsAreFresh
    <3>4. got \in PodAnswers("prometheus", world, {}, hints)
      BY <1>4, <3>1, <3>3
    <3> QED BY <3>4, NoPodsAdded
  <2> QED BY <2>1, <2>2
<1> QED BY <1>9, <1>10

\* A collector that fails.
LEMMA StagedThroughFailure ==
  ASSUME TypeOK, Staged, CollectFails
  PROVE  /\ \A g \in gaps' : g.pass <= round
         /\ PodsAreFresh' /\ CascadeVisible'
<1> DEFINE new == [category |-> "collector-down", source |-> wired[next], pass |-> round]
<1>1. /\ pc = "collect" /\ next \in DOMAIN wired /\ next' = next + 1 /\ next \in Nat
      /\ UNCHANGED <<wired, pc, round, prior>> /\ gaps' = gaps \cup {new}
      /\ round \in Nat
  BY WiredOnce, Parameters DEF CollectFails, TypeOK
<1>2. new.category = "collector-down" /\ new.source = wired[next] /\ new.pass = round
  OBVIOUS
<1> HIDE DEF new
<1>3. \A g \in gaps' : g.pass <= round
  BY <1>1, <1>2 DEF Staged
<1>4. \A c, pass : Failed(c, pass)' <=> Failed(c, pass) \/ (c = wired[next] /\ pass = round)
  BY <1>1, <1>2 DEF Failed
<1>5. Asked' <=> Asked \/ wired[next] = "kubernetes"
  BY <1>1, WiredOnce DEF Asked
<1>6. Unstaged' <=> Unstaged
  BY <1>1 DEF Unstaged
<1>7. wired[next] = "kubernetes" => ~Asked
  BY <1>1, WiredOnce DEF Asked
<1>8. PodsAreFresh'
  <2>1. (Failed("kubernetes", round) => Asked)
        /\ (PodMentions(prior) = {} \/ Unstaged \/ (Asked /\ ~Failed("kubernetes", round)))
    BY <1>1 DEF Staged, PodsAreFresh
  <2>2. Failed("kubernetes", round)' => Asked'
    BY <1>1, <1>4, <1>5, <2>1
  <2>3. (Asked /\ ~Failed("kubernetes", round)) => (Asked /\ ~Failed("kubernetes", round))'
    BY <1>1, <1>4, <1>5, <1>7
  <2> QED BY <1>1, <1>6, <2>1, <2>2, <2>3 DEF PodsAreFresh
<1>9. CascadeVisible'
  <2> SUFFICES ASSUME NEW k \in DOMAIN wired, NEW m \in DOMAIN wired, NEW pass \in 0..round,
                      wired[k] = "kubernetes", wired[m] = "prometheus", k < m,
                      Failed("kubernetes", pass)', pass < round \/ m < next + 1
               PROVE  Failed("prometheus", pass)'
    BY <1>1 DEF CascadeVisible
  <2>1. CASE pass < round \/ m < next
    <3>1. Failed("kubernetes", pass)
      <4>1. CASE pass < round
        BY <1>1, <1>4, <4>1
      <4>2. CASE m < next
        <5>1. k < next
          BY <1>1, <4>2, WiredOnce
        <5>2. Asked
          BY <5>1 DEF Asked
        <5> QED BY <1>4, <1>7, <5>2
      <4> QED BY <2>1, <4>1, <4>2
    <3>2. Failed("prometheus", pass)
      BY <2>1, <3>1 DEF Staged, CascadeVisible
    <3> QED BY <1>4, <3>2
  <2>2. CASE ~(pass < round \/ m < next)
    <3>1. pass = round /\ m = next
      BY <1>1, <2>2, WiredOnce
    <3> QED BY <1>4, <3>1
  <2> QED BY <2>1, <2>2
<1> QED BY <1>3, <1>8, <1>9

LEMMA StagedInit == Init => Staged
BY DEF Init, Staged, PodsAreFresh, PodMentions, CascadeVisible, Failed

LEMMA StagedStep == IInv /\ Staged /\ [Next]_vars => Staged'
<1> SUFFICES ASSUME TypeOK, RoundsCome, Staged, [Next]_vars PROVE Staged'
  BY DEF IInv, Fresh
<1>1. CASE WorldMoves \/ UNCHANGED vars
  BY <1>1 DEF WorldMoves, vars, Staged, PodsAreFresh, Asked, Unstaged, CascadeVisible, Failed,
          analysis, asking
<1>2. CASE CollectOk
  <2>1. UNCHANGED <<gaps, round, pc>> /\ pc = "collect"
    BY <1>2 DEF CollectOk
  <2> QED BY <1>2, <2>1, StagedThroughAnswer DEF Staged
<1>3. CASE CollectFails
  <2>1. UNCHANGED <<round, pc>> /\ pc = "collect"
    BY <1>3 DEF CollectFails
  <2> QED BY <1>3, <2>1, StagedThroughFailure DEF Staged
<1>4. CASE Begin
  <2>1. /\ gaps' = {} /\ prior' = {} /\ pc' = "collect"
    BY <1>4 DEF Begin, Staged
  <2>2. \A c, pass : ~Failed(c, pass)'
    BY <2>1 DEF Failed
  <2>3. PodMentions(prior)' = {}
    BY <2>1 DEF PodMentions
  <2> QED BY <2>1, <2>2, <2>3 DEF Staged, PodsAreFresh, CascadeVisible
<1>5. CASE StartRound
  <2>1. /\ pc = "ask" /\ round' = round + 1 /\ pc' = "collect" /\ prior' = {} /\ next' = 1
        /\ UNCHANGED <<gaps, wired>> /\ round \in Nat /\ gaps \subseteq Gap
    BY <1>5, Parameters DEF StartRound, AllAsked, TypeOK
  <2>2. \A g \in gaps : g.pass <= round /\ g.pass \in Nat
    BY <2>1 DEF Staged, Gap
  <2>3. \A c, p : Failed(c, p)' => p \in Nat /\ p <= round
    BY <2>1, <2>2 DEF Failed
  <2>4. PodMentions(prior)' = {}
    BY <2>1 DEF PodMentions
  <2>5. CascadeVisible'
    <3> SUFFICES ASSUME NEW k \in DOMAIN wired, NEW m \in DOMAIN wired, NEW pass \in 0..round',
                        wired[k] = "kubernetes", wired[m] = "prometheus", k < m,
                        Failed("kubernetes", pass)'
                 PROVE  Failed("prometheus", pass)'
      BY <2>1 DEF CascadeVisible
    <3>1. \A c : Failed(c, pass)' <=> Failed(c, pass)
      BY <2>1 DEF Failed
    <3>2. pass \in 0..round
      BY <2>1, <2>3
    <3> QED BY <2>1, <3>1, <3>2 DEF Staged, CascadeVisible
  <2>6. \A g \in gaps' : g.pass <= round'
    BY <2>1, <2>2
  <2>7. ~Failed("kubernetes", round)'
    <3>1. ~(round' <= round)
      BY <2>1
    <3> QED BY <2>3, <3>1
  <2>8. PodsAreFresh'
    BY <2>4, <2>7 DEF PodsAreFresh
  <2> QED BY <2>1, <2>5, <2>6, <2>8 DEF Staged
<1>6. CASE AnalyzeFails
  <2>1. /\ pc = "analyze" /\ pc' = "analyze" /\ UNCHANGED <<wired, round>>
        /\ round \in Nat
    BY <1>6, Parameters DEF AnalyzeFails, TypeOK
  <2> DEFINE g == [category |-> "analyzer-error", source |-> AnalyzerList[next],
                   pass |-> round]
  <2>2. gaps' = gaps \cup {g} /\ g.category = "analyzer-error" /\ g.pass = round
    BY <1>6 DEF AnalyzeFails
  <2> HIDE DEF g
  <2>3. \A c, pass : Failed(c, pass)' <=> Failed(c, pass)
    BY <2>2 DEF Failed
  <2>4. CascadeVisible'
    BY <2>1, <2>3 DEF Staged, CascadeVisible
  <2> QED BY <2>1, <2>2, <2>4 DEF Staged, PodsAreFresh
<1>7. ASSUME \/ Refuse \/ InitialPassEnds \/ NewEvidenceArrives \/ NothingNewArrives
             \/ AnalyzeOk \/ MergeHypotheses \/ AcceptAsk \/ SkipAsk \/ NextHypothesis
             \/ NextAnalyzer \/ NothingToAsk \/ Summarize
      PROVE  Staged'
  <2>1. /\ UNCHANGED <<gaps, round, wired>> /\ pc' \notin {"start", "collect"}
        /\ pc = "collect" => next > Len(wired)
    BY <1>7 DEF Refuse, InitialPassEnds, NewEvidenceArrives, NothingNewArrives, Build, AnalyzeOk,
            MergeHypotheses, AcceptAsk, SkipAsk, NextHypothesis, NextAnalyzer, NothingToAsk,
            AllAsked, Summarize
  <2>2. \A c, pass : Failed(c, pass)' <=> Failed(c, pass)
    BY <2>1 DEF Failed
  <2>3. \A m \in DOMAIN wired : pc # "collect" \/ m < next
    BY <2>1, WiredOnce DEF TypeOK
  <2>4. CascadeVisible'
    BY <2>1, <2>2, <2>3 DEF Staged, CascadeVisible
  <2> QED BY <2>1, <2>4 DEF Staged, PodsAreFresh
<1> QED BY <1>1, <1>2, <1>3, <1>4, <1>5, <1>6, <1>7 DEF Next, Engine

\* When Kubernetes fails in a pass, Prometheus behind it has no pods of an earlier pass to
\* go on with, and says so with a gap of its own (prometheus.go, the pods of scope.Prior).
THEOREM CascadesAreVisible == Spec => []CascadeVisible
<1>1. Spec => [](IInv /\ Staged)
  BY InvariantInit, InvariantStep, StagedInit, StagedStep, PTL DEF Spec
<1>2. IInv /\ Staged => CascadeVisible
  BY DEF Staged
<1> QED BY <1>1, <1>2, PTL

===============================================================================
