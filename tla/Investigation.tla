----------------------------- MODULE Investigation -----------------------------
(***************************************************************************)
(* internal/engine: one call of Investigate.                                *)
(*                                                                         *)
(* The engine asks its collectors for observations one after the other,     *)
(* runs the analyzers over what it holds, merges their hypotheses, and      *)
(* then, for at most maxAdaptiveRounds rounds, asks every collector again   *)
(* with the evidence requests of the live hypotheses.  Collectors and        *)
(* analyzers are parameters: a collector is an operator from the state of    *)
(* the world outside (the cluster, Prometheus, Loki) to the observations it  *)
(* may return, and the world moves while the engine works.                   *)
(*                                                                         *)
(* Observations are identified by their content hash, so a list of them      *)
(* deduplicated by ID is a set.  A gap carries the pass it was recorded in,   *)
(* which keeps the entries of the list EvidenceGaps apart in a set.           *)
(***************************************************************************)
EXTENDS Hypothesis

CONSTANTS
  Wirings,            \* the collector lists an engine may be built with
  CollectorIds,
  Infallible,         \* collectors whose Collect never returns an error
  AnalyzerList,       \* the registered analyzers, in order
  Fallible,           \* analyzers whose Analyze may return an error
  Worlds,             \* states of the world outside
  Shifts(_),          \* Shifts(w): the states the world may move to
  InitialWorlds,
  Obs,                \* observations
  Subjects,           \* the resources observations are about
  Mentions(_),        \* Mentions(O): the pods with a pod.state among O
  Answers(_, _, _, _),\* Answers(c, w, pods, hints): what Collect may return
  Ids,                \* hypothesis IDs
  MissingIds,         \* entries of a hypothesis' Missing list
  EvidenceIds,        \* entries of its Evidence list
  Emits(_, _),        \* Emits(a, O): the hypotheses analyzer a emits over O
  Finds(_, _),        \* Finds(a, O): the severities of its findings over O
  Needs(_, _, _),     \* Needs(a, id, missing): what NeedsEvidence returns
  Hints,              \* values of EvidenceRequest.QueryHint
  Label(_),           \* StatusLabel of an analyzer, "" if it has none
  Precedence(_),
  maxAdaptiveRounds, maxRequests, requestBudget,
  NoReport

AnalyzerIds == {AnalyzerList[n] : n \in DOMAIN AnalyzerList}

Ask == [hint : Hints, cost : Nat]

EvidenceRequest == [id : Ids, hint : Hints, cost : Nat]

Emitted == [id : Ids \cup {NoID}, scored : BOOLEAN, margin : Int, score : Nat,
            claim : EvidenceIds, evidence : SUBSET EvidenceIds,
            missing : SUBSET MissingIds, status : Statuses \cup {""}]

Severities == {"INFO", "WARNING", "HIGH", "CRITICAL"}

\* What Collect returns: observations, and whether it returns any SourceRef.
Answer == [obs : SUBSET Obs, cited : BOOLEAN]

Gap == [category : {"collector-down", "analyzer-error"},
        source : CollectorIds \cup AnalyzerIds, pass : Nat]

ASSUME BoundsAssumption ==
  maxAdaptiveRounds \in Nat /\ maxRequests \in Nat /\ requestBudget \in Nat

ASSUME WiringAssumption ==
  /\ Wirings \subseteq Seq(CollectorIds)
  /\ InitialWorlds \subseteq Worlds
  /\ \A w \in Worlds : Shifts(w) \subseteq Worlds

ASSUME CollectorAssumption ==
  /\ \A O \in SUBSET Obs : Mentions(O) \subseteq Subjects
  /\ \A c \in CollectorIds, w \in Worlds, pods \in SUBSET Subjects,
       hints \in SUBSET Hints : Answers(c, w, pods, hints) \subseteq Answer

ASSUME AnalyzerAssumption ==
  /\ AnalyzerList \in Seq(AnalyzerIds)
  /\ NoID \notin Ids
  /\ \A a \in AnalyzerIds :
       /\ \A O \in SUBSET Obs : Emits(a, O) \in Seq(Emitted)
       /\ \A O \in SUBSET Obs : Finds(a, O) \subseteq Severities
       /\ \A id \in Ids, m \in SUBSET MissingIds : Needs(a, id, m) \in Seq(Ask)
       /\ Precedence(a) \in Nat

VARIABLES
  world,         \* outside the program
  wired,         \* e.collectors.All()
  pc,            \* where Investigate is
  round,         \* 0 for the initial collection, then the adaptive round
  next,          \* the collector or analyzer the current loop has reached
  prior,         \* scopePlan.Prior: what this pass has collected so far
  observations, gaps, sources,
  built,         \* the observations events, changes and graph were built from
  emitted,       \* hypotheses of the running analysis, before Merge
  findings,      \* <<analyzer, severity>> pairs
  hypotheses,    \* after Merge
  asks,          \* scopePlan.EvidenceRequests
  spent,         \* their total cost
  cursor,        \* pendingRequests' loops over analyzers, hypotheses, requests
  report         \* what Investigate returns

vars == <<world, wired, pc, round, next, prior, observations, gaps, sources,
          built, emitted, findings, hypotheses, asks, spent, cursor, report>>

analysis == <<built, emitted, findings, hypotheses>>
asking == <<asks, spent, cursor>>

FirstCursor == [a |-> 1, h |-> 1, r |-> 1]

Init ==
  /\ world \in InitialWorlds
  /\ wired \in Wirings
  /\ pc = "start"
  /\ round = 0
  /\ next = 1
  /\ prior = {} /\ observations = {} /\ gaps = {} /\ sources = {}
  /\ built = {} /\ emitted = <<>> /\ findings = {} /\ hypotheses = <<>>
  /\ asks = <<>> /\ spent = 0 /\ cursor = FirstCursor
  /\ report = NoReport

\* The cluster and the telemetry backends change whenever they like; only the
\* collectors see it.
WorldMoves ==
  /\ pc = "collect"
  /\ world' \in Shifts(world)
  /\ UNCHANGED <<wired, pc, round, next, prior, observations, gaps, sources,
                 analysis, asking, report>>

\* ErrNoCollectors.
Refuse ==
  /\ pc = "start" /\ wired = <<>>
  /\ pc' = "refused"
  /\ UNCHANGED <<world, wired, round, next, prior, observations, gaps, sources,
                 analysis, asking, report>>

Begin ==
  /\ pc = "start" /\ wired # <<>>
  /\ pc' = "collect"
  /\ UNCHANGED <<world, wired, round, next, prior, observations, gaps, sources,
                 analysis, asking, report>>

-------------------------------------------------------------------------------
(* collectAll: one pass over the collectors. *)

hints == {asks[n].hint : n \in DOMAIN asks}

\* SourcesHit keeps what the initial collection cited; later passes drop theirs.
CollectOk ==
  /\ pc = "collect" /\ next <= Len(wired)
  /\ \E got \in Answers(wired[next], world, Mentions(prior), hints) :
       /\ prior' = prior \cup got.obs
       /\ sources' = IF round = 0 /\ got.cited
                     THEN sources \cup {wired[next]} ELSE sources
  /\ next' = next + 1
  /\ UNCHANGED <<world, wired, pc, round, observations, gaps, analysis, asking,
                 report>>

\* A slip: the failed collector is asked again, and again.
CollectFailsRetrying ==
  /\ pc = "collect" /\ next <= Len(wired)
  /\ wired[next] \notin Infallible
  /\ gaps' = gaps \cup {[category |-> "collector-down", source |-> wired[next],
                         pass |-> round]}
  /\ UNCHANGED <<world, wired, pc, round, next, prior, observations, sources,
                 analysis, asking, report>>

\* Whatever the collector gathered before its error is dropped.
CollectFails ==
  /\ pc = "collect" /\ next <= Len(wired)
  /\ wired[next] \notin Infallible
  /\ gaps' = gaps \cup {[category |-> "collector-down", source |-> wired[next],
                         pass |-> round]}
  /\ next' = next + 1
  /\ UNCHANGED <<world, wired, pc, round, prior, observations, sources, analysis,
                 asking, report>>

\* A slip: hypotheses and findings of the last analysis are kept.
BuildKeepingVerdicts(obs) ==
  /\ observations' = obs
  /\ built' = obs
  /\ pc' = "analyze"
  /\ next' = 1
  /\ UNCHANGED <<emitted, findings, hypotheses>>

\* buildStage on the deduplicated observations, then on to the analyzers.
Build(obs) ==
  /\ observations' = obs
  /\ built' = obs
  /\ pc' = "analyze"
  /\ next' = 1
  /\ emitted' = <<>> /\ findings' = {}
  /\ UNCHANGED hypotheses

InitialPassEnds ==
  /\ pc = "collect" /\ next > Len(wired) /\ round = 0
  /\ Build(prior)
  /\ UNCHANGED <<world, wired, round, prior, gaps, sources, asking, report>>

\* A slip: a round replaces what was observed.
NewEvidenceReplaces ==
  /\ pc = "collect" /\ next > Len(wired) /\ round > 0
  /\ ~(prior \subseteq observations)
  /\ Build(prior)
  /\ UNCHANGED <<world, wired, round, prior, gaps, sources, asking, report>>

NewEvidenceArrives ==
  /\ pc = "collect" /\ next > Len(wired) /\ round > 0
  /\ ~(prior \subseteq observations)
  /\ Build(observations \cup prior)
  /\ UNCHANGED <<world, wired, round, prior, gaps, sources, asking, report>>

\* "nothing new arrived; re-requesting would spin"
NothingNewArrives ==
  /\ pc = "collect" /\ next > Len(wired) /\ round > 0
  /\ prior \subseteq observations
  /\ pc' = "summarize"
  /\ UNCHANGED <<world, wired, round, next, prior, observations, gaps, sources,
                 analysis, asking, report>>

-------------------------------------------------------------------------------
(* analyzeAll and Merge. *)

AnalyzeOk ==
  /\ pc = "analyze" /\ next <= Len(AnalyzerList)
  /\ LET a == AnalyzerList[next]
     IN  /\ emitted' = emitted \o Emits(a, observations)
         /\ findings' = findings \cup {<<a, s>> : s \in Finds(a, observations)}
  /\ next' = next + 1
  /\ UNCHANGED <<world, wired, pc, round, prior, observations, gaps, sources,
                 built, hypotheses, asking, report>>

AnalyzeFails ==
  /\ pc = "analyze" /\ next <= Len(AnalyzerList)
  /\ AnalyzerList[next] \in Fallible
  /\ gaps' = gaps \cup {[category |-> "analyzer-error",
                         source |-> AnalyzerList[next], pass |-> round]}
  /\ next' = next + 1
  /\ UNCHANGED <<world, wired, pc, round, prior, observations, sources, analysis,
                 asking, report>>

\* Slips: one round too many, one too few, requests that pile up over the rounds.
MergeOneRoundMore ==
  /\ pc = "analyze" /\ next > Len(AnalyzerList)
  /\ hypotheses' = Merge(emitted)
  /\ IF round <= maxAdaptiveRounds
     THEN pc' = "ask" /\ asks' = <<>> /\ spent' = 0 /\ cursor' = FirstCursor
     ELSE pc' = "summarize" /\ UNCHANGED asking
  /\ UNCHANGED <<world, wired, round, next, prior, observations, gaps, sources,
                 built, emitted, findings, report>>

MergeOneRoundLess ==
  /\ pc = "analyze" /\ next > Len(AnalyzerList)
  /\ hypotheses' = Merge(emitted)
  /\ IF round + 1 < maxAdaptiveRounds
     THEN pc' = "ask" /\ asks' = <<>> /\ spent' = 0 /\ cursor' = FirstCursor
     ELSE pc' = "summarize" /\ UNCHANGED asking
  /\ UNCHANGED <<world, wired, round, next, prior, observations, gaps, sources,
                 built, emitted, findings, report>>

MergeKeepingAsks ==
  /\ pc = "analyze" /\ next > Len(AnalyzerList)
  /\ hypotheses' = Merge(emitted)
  /\ IF round < maxAdaptiveRounds
     THEN pc' = "ask" /\ cursor' = FirstCursor /\ UNCHANGED <<asks, spent>>
     ELSE pc' = "summarize" /\ UNCHANGED asking
  /\ UNCHANGED <<world, wired, round, next, prior, observations, gaps, sources,
                 built, emitted, findings, report>>

\* hypothesis.Merge, and the head of the adaptive loop.
MergeHypotheses ==
  /\ pc = "analyze" /\ next > Len(AnalyzerList)
  /\ hypotheses' = Merge(emitted)
  /\ IF round < maxAdaptiveRounds
     THEN pc' = "ask" /\ asks' = <<>> /\ spent' = 0 /\ cursor' = FirstCursor
     ELSE pc' = "summarize" /\ UNCHANGED asking
  /\ UNCHANGED <<world, wired, round, next, prior, observations, gaps, sources,
                 built, emitted, findings, report>>

-------------------------------------------------------------------------------
(* pendingRequests: analyzers x hypotheses x what each would need. *)

live(h) == h.status \in {"Likely", "Candidate"}

\* What analyzer a would need to settle hypothesis h.
wants(a, h) == IF live(h) THEN Needs(a, h.id, h.missing) ELSE <<>>

\* The requests the two outer loops have reached.
needed == wants(AnalyzerList[cursor.a], hypotheses[cursor.h])

InLoops == cursor.a <= Len(AnalyzerList) /\ cursor.h <= Len(hypotheses)

\* seen of the code; its count is Len(asks).
seen(id, hint) == \E n \in DOMAIN asks : asks[n].id = id /\ asks[n].hint = hint

\* A slip: the budget is checked before the cost is added.
AffordableLate(id, ask) ==
  /\ ~seen(id, ask.hint)
  /\ spent <= requestBudget
  /\ Len(asks) < maxRequests

Affordable(id, ask) ==
  /\ ~seen(id, ask.hint)
  /\ spent + ask.cost <= requestBudget
  /\ Len(asks) < maxRequests

AcceptAsk ==
  /\ pc = "ask" /\ InLoops /\ cursor.r <= Len(needed)
  /\ LET id  == hypotheses[cursor.h].id
         ask == needed[cursor.r]
     IN  /\ Affordable(id, ask)
         /\ asks' = Append(asks, [id |-> id, hint |-> ask.hint, cost |-> ask.cost])
         /\ spent' = spent + ask.cost
  /\ cursor' = [cursor EXCEPT !.r = @ + 1]
  /\ UNCHANGED <<world, wired, pc, round, next, prior, observations, gaps,
                 sources, analysis, report>>

\* A request that is a repeat or does not fit is skipped; a later, cheaper one may
\* still fit.
SkipAsk ==
  /\ pc = "ask" /\ InLoops /\ cursor.r <= Len(needed)
  /\ ~Affordable(hypotheses[cursor.h].id, needed[cursor.r])
  /\ cursor' = [cursor EXCEPT !.r = @ + 1]
  /\ UNCHANGED <<world, wired, pc, round, next, prior, observations, gaps,
                 sources, analysis, asks, spent, report>>

NextHypothesis ==
  /\ pc = "ask" /\ InLoops /\ cursor.r > Len(needed)
  /\ cursor' = [cursor EXCEPT !.h = @ + 1, !.r = 1]
  /\ UNCHANGED <<world, wired, pc, round, next, prior, observations, gaps,
                 sources, analysis, asks, spent, report>>

NextAnalyzer ==
  /\ pc = "ask"
  /\ cursor.a <= Len(AnalyzerList) /\ cursor.h > Len(hypotheses)
  /\ cursor' = [a |-> cursor.a + 1, h |-> 1, r |-> 1]
  /\ UNCHANGED <<world, wired, pc, round, next, prior, observations, gaps,
                 sources, analysis, asks, spent, report>>

AllAsked == pc = "ask" /\ cursor.a > Len(AnalyzerList)

\* A slip: the pass begins with what the last one collected.
StartRoundWithPrior ==
  /\ AllAsked /\ asks # <<>>
  /\ round' = round + 1
  /\ pc' = "collect"
  /\ next' = 1
  /\ UNCHANGED <<world, wired, prior, observations, gaps, sources, analysis, asking,
                 report>>

\* Every collector is asked again, not only those a request names.
StartRound ==
  /\ AllAsked /\ asks # <<>>
  /\ round' = round + 1
  /\ pc' = "collect"
  /\ next' = 1
  /\ prior' = {}
  /\ UNCHANGED <<world, wired, observations, gaps, sources, analysis, asking,
                 report>>

NothingToAsk ==
  /\ AllAsked /\ asks = <<>>
  /\ pc' = "summarize"
  /\ UNCHANGED <<world, wired, round, next, prior, observations, gaps, sources,
                 analysis, asking, report>>

-------------------------------------------------------------------------------
(* The outcome. *)

Carded == {n \in DOMAIN AnalyzerList :
             /\ \E f \in findings : f[1] = AnalyzerList[n]
             /\ Label(AnalyzerList[n]) # "" /\ Precedence(AnalyzerList[n]) > 0}

\* statusFromFindings: the most specific analyzer with a finding names the card.
Status ==
  IF Carded = {}
  THEN "INVESTIGATED"
  ELSE Label(AnalyzerList[CHOOSE n \in Carded : \A m \in Carded :
         \/ Precedence(AnalyzerList[m]) < Precedence(AnalyzerList[n])
         \/ Precedence(AnalyzerList[m]) = Precedence(AnalyzerList[n]) /\ n <= m])

Found(s) == \E f \in findings : f[2] = s

\* severityFromFindings.
Severity ==
  CASE Found("CRITICAL") -> "CRITICAL"
    [] Found("HIGH") /\ ~Found("CRITICAL") -> "HIGH"
    [] Found("WARNING") /\ ~Found("HIGH") /\ ~Found("CRITICAL") -> "WARNING"
    [] OTHER -> "INFO"

Summarize ==
  /\ pc = "summarize"
  /\ pc' = "returned"
  /\ report' = [observations |-> observations, built |-> built,
                hypotheses |-> hypotheses, gaps |-> gaps, sources |-> sources,
                status |-> Status, severity |-> Severity,
                confidence |-> IF Top(hypotheses) = 0 THEN 0
                               ELSE hypotheses[Top(hypotheses)].score]
  /\ UNCHANGED <<world, wired, round, next, prior, observations, gaps, sources,
                 analysis, asking>>

-------------------------------------------------------------------------------

Engine ==
  \/ Refuse \/ Begin
  \/ CollectOk \/ CollectFails
  \/ InitialPassEnds \/ NewEvidenceArrives \/ NothingNewArrives
  \/ AnalyzeOk \/ AnalyzeFails \/ MergeHypotheses
  \/ AcceptAsk \/ SkipAsk \/ NextHypothesis \/ NextAnalyzer
  \/ StartRound \/ NothingToAsk
  \/ Summarize

Next == Engine \/ WorldMoves

\* Investigate runs in one goroutine and waits for nothing but its collectors.  The
\* Prometheus and Loki clients time out; of the Kubernetes client, which has no
\* timeout, fairness assumes that the API server answers or the connection breaks.
Spec == Init /\ [][Next]_vars /\ WF_vars(Engine)

-------------------------------------------------------------------------------
(* Properties. *)

\* A verdict of Merge: a hypothesis with a real ID and a status.
Verdict == [id : Ids, scored : BOOLEAN, margin : Int, score : Nat,
            claim : EvidenceIds, evidence : SUBSET EvidenceIds,
            missing : SUBSET MissingIds, status : Statuses]

Places == {"start", "refused", "collect", "analyze", "ask", "summarize", "returned"}

Cursors == [a : Nat \ {0}, h : Nat \ {0}, r : Nat \ {0}]

Cards == {Label(a) : a \in AnalyzerIds} \cup {"INVESTIGATED"}

Reports == [observations : SUBSET Obs, built : SUBSET Obs, hypotheses : Seq(Verdict),
            gaps : SUBSET Gap, sources : SUBSET CollectorIds, status : Cards,
            severity : Severities, confidence : Nat]

ASSUME ReportAssumption == NoReport \notin Reports

\* Every variable keeps its type, and the cursors stay within what they run over.
TypeOK ==
  /\ world \in Worlds /\ wired \in Wirings
  /\ pc \in Places
  /\ round \in 0..maxAdaptiveRounds
  /\ next \in Nat \ {0}
  /\ prior \subseteq Obs /\ observations \subseteq Obs /\ built \subseteq Obs
  /\ gaps \subseteq Gap /\ sources \subseteq CollectorIds
  /\ emitted \in Seq(Emitted) /\ hypotheses \in Seq(Verdict)
  /\ findings \subseteq AnalyzerIds \X Severities
  /\ asks \in Seq(EvidenceRequest) /\ spent \in Nat
  /\ cursor \in Cursors
  /\ report \in Reports \cup {NoReport}

\* What the first n analyzers emit over O, one after the other.
EmittedBy(O) ==
  LET upTo[n \in 0..Len(AnalyzerList)] ==
        IF n = 0 THEN <<>> ELSE upTo[n - 1] \o Emits(AnalyzerList[n], O)
  IN  upTo

EmittedOver(O) == EmittedBy(O)[Len(AnalyzerList)]

FindingsOver(O) == {f \in AnalyzerIds \X Severities : f[2] \in Finds(f[1], O)}

\* The timeline, the graph and the hypotheses of a report are those of the
\* observations it carries: no adaptive round leaves a conclusion of an earlier,
\* smaller set of observations in it (Investigate re-assigns findings, hypotheses
\* and evidence on every round).  Analyzers that failed are excepted.
FreshVerdict ==
  report # NoReport =>
    /\ report.built = report.observations
    /\ (\A g \in report.gaps : g.category # "analyzer-error") =>
         /\ report.hypotheses = Merge(EmittedOver(report.observations))
         /\ findings = FindingsOver(report.observations)

\* What is sent to the collectors stays within the documented bounds, and no
\* hypothesis asks the same thing twice in a round.
RequestsBounded ==
  /\ Len(asks) <= maxRequests
  /\ spent <= requestBudget
  /\ \A m, n \in DOMAIN asks :
       asks[m].id = asks[n].id /\ asks[m].hint = asks[n].hint => m = n

\* What analyzer a still wants for the k-th hypothesis.
NeedsOf(a, k) == LET needs == wants(a, hypotheses[k]) IN {needs[n] : n \in DOMAIN needs}

\* Whatever the collectors are asked for in an adaptive round is still missing for
\* a hypothesis that is still live: a request of an earlier round that was met, or
\* whose hypothesis was ruled out, is not sent again.
AsksAreUnmet ==
  pc = "collect" => \A n \in DOMAIN asks :
    \E k \in DOMAIN hypotheses, a \in AnalyzerIds :
      /\ hypotheses[k].id = asks[n].id
      /\ [hint |-> asks[n].hint, cost |-> asks[n].cost] \in NeedsOf(a, k)

\* The engine never gives up on a live hypothesis early: it stops only when the
\* rounds are used up, when a round brought nothing new, or when no live hypothesis
\* lacks evidence that the budget could pay for.
StopsForAReason ==
  [][pc # "summarize" /\ pc' = "summarize" =>
       \/ pc = "collect" /\ round > 0 /\ prior \subseteq observations
       \/ round = maxAdaptiveRounds
       \/ maxRequests = 0
       \/ \A k \in DOMAIN hypotheses', a \in AnalyzerIds :
            \A ask \in NeedsOf(a, k)' : ask.cost > requestBudget]_vars

\* Investigate returns, however the collectors fail and the world moves.
Termination == <>(pc \in {"returned", "refused"})

Promise == INSTANCE Gathering WITH
  Facts <- Obs, Faults <- Gap, Retries <- maxAdaptiveRounds, NoVerdict <- NoReport,
  evidence <- observations, faults <- gaps, left <- maxAdaptiveRounds - round,
  verdict <- IF report = NoReport THEN NoReport
             ELSE [evidence |-> report.built, faults |-> report.gaps]

\* Investigate keeps the promise of Gathering: bounded retries, nothing that was
\* observed or recorded as a gap is dropped, one verdict on all of it.
KeepsPromise == Promise!Spec

===============================================================================
