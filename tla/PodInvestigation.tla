--------------------------- MODULE PodInvestigation ---------------------------
(***************************************************************************)
(* The engine with its Kubernetes, Prometheus, Loki and replay collectors and  *)
(* the oom and crashloop analyzers: what the parts owe each other.             *)
(***************************************************************************)
EXTENDS Investigation, PodEvidence

\* The parameters of the engine are the collectors of PodEvidence.
ASSUME PodAssumption ==
  /\ CollectorIds \subseteq {"kubernetes", "prometheus", "loki", "replay"}
  /\ \A O \in SUBSET Obs : Mentions(O) = PodMentions(O)
  /\ \A c \in CollectorIds, w \in Worlds, pods \in SUBSET Subjects, hint \in SUBSET Hints :
       Answers(c, w, pods, hint) = PodAnswers(c, w, pods, hint)

\* buildLiveCollectors of root.go lists each collector once; every other engine is built
\* with a replay alone.
ASSUME StagedAssumption ==
  \A ws \in Wirings :
    /\ \A k, n \in DOMAIN ws : ws[k] = "kubernetes" /\ ws[n] = "kubernetes" => k = n
    /\ \A k, n \in DOMAIN ws : ~(ws[k] = "prometheus" /\ ws[n] = "replay")

Failed(c, pass) ==
  \E g \in gaps : g.category = "collector-down" /\ g.source = c /\ g.pass = pass

\* Staged collection: Prometheus takes its pods from what Kubernetes found in the
\* same pass.  When Kubernetes fails in a pass, Prometheus fails in it too and says
\* so with a gap of its own: it never goes on with the pods of an earlier pass.
CascadeVisible ==
  \A k, m \in DOMAIN wired, pass \in 0..round :
    /\ wired[k] = "kubernetes" /\ wired[m] = "prometheus" /\ k < m
    /\ Failed("kubernetes", pass)
    /\ pass < round \/ pc # "collect" \/ m < next
    => Failed("prometheus", pass)

===============================================================================
