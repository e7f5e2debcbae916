------------------------------ MODULE Diagnosis -------------------------------
(***************************************************************************)
(* One pass over a workload whose cluster keeps changing: the collectors read  *)
(* it call by call, any call may fail, and the analyzers, hypothesis.Merge and  *)
(* the status card turn what was read into a report.  Investigation models the  *)
(* engine around such passes; here a pass is taken apart.                      *)
(***************************************************************************)
EXTENDS Workload, Analyzers, Hypothesis

CONSTANTS
  StartWorlds,   \* worlds the cluster may start in
  MaxShifts,     \* bound on the changes of the cluster
  MaxLost        \* bound on the calls that fail

\* Events come from what the pod has been through: the kubelet probes or kills a container
\* that ran, and fails to pull an image for a pod that has a node.
Plausible(w) ==
  /\ w.pod \in {"unscheduled", "creating", "pulling"} =>
       "Unhealthy" \notin w.events /\ w.kills = 0
  /\ w.pod \in {"unscheduled", "creating"} => "Failed" \notin w.events

ASSUME DiagnosisAssumption ==
  /\ StartWorlds \subseteq {w \in Worlds : Plausible(w)}
  /\ MaxShifts \in Nat /\ MaxLost \in Nat

\* Kubernetes names a pod of a Deployment after the Deployment with two suffixes; "unknown"
\* is the name dns.go gives a hypothesis that has no resource.
ASSUME NamesAssumption ==
  /\ Pod \notin {App, Claim, Node, "unknown"}
  /\ NoID \notin {<<p, n>> : p \in DOMAIN Precedence, n \in {Pod, App}}

\* Scores are in ten thousandths here; outrankGap of hypothesis.go:24 is 0.25.
ASSUME GapAssumption == outrankGap >= 2500

VARIABLES
  world,    \* the cluster
  shifts,   \* changes of the cluster so far
  target,   \* what the investigation was asked about
  pc,       \* "idle", the next call, "analyze" or "report"
  lost,     \* calls that failed
  obs,      \* the observations of the pass
  moments,  \* the worlds the cluster was in since the pass began
  report    \* the ranked hypotheses, the card and the severity

vars == <<world, shifts, target, pc, lost, obs, moments, report>>

NoReport == [ranked |-> <<>>, card |-> "", severity |-> ""]

Init ==
  /\ world \in StartWorlds
  /\ target \in {PodRef, AppRef}
  /\ shifts = 0 /\ lost = 0
  /\ pc = "idle" /\ obs = {} /\ moments = {} /\ report = NoReport

\* The cluster changes, before or during the pass.
Shift ==
  /\ pc # "report" /\ pc # "analyze" /\ shifts < MaxShifts
  /\ world' \in Shifts(world)
  /\ shifts' = shifts + 1
  /\ moments' = IF pc = "idle" THEN {} ELSE moments \cup {world'}
  /\ UNCHANGED <<target, pc, lost, obs, report>>

\* Collect dispatches on the kind of the target.
Begin ==
  /\ pc = "idle"
  /\ pc' = IF target = AppRef THEN "deployment" ELSE "pod"
  /\ moments' = {world}
  /\ UNCHANGED <<world, shifts, target, lost, obs, report>>

Calling == pc \in {Calls[i] : i \in DOMAIN Calls}

CallAnswers ==
  /\ Calling
  /\ obs' = obs \cup Reads(pc, world, target, obs)
  /\ pc' = AfterSuccess(pc)
  /\ UNCHANGED <<world, shifts, target, lost, moments, report>>

CallFails ==
  /\ Calling /\ lost < MaxLost
  /\ lost' = lost + 1
  /\ \E left \in LeftOf(pc, world) : obs' = obs \cup left
  /\ pc' = AfterFailure(pc, target)
  /\ UNCHANGED <<world, shifts, target, moments, report>>

ReportOf(O, order) ==
  LET hs == Emitted(O, DnsRef, order)
  IN  [ranked |-> Merge(hs), card |-> Card(hs), severity |-> Severity(hs)]

Analyze ==
  /\ pc = "analyze"
  /\ \E order \in Orders(obs) : report' = ReportOf(obs, order)
  /\ pc' = "report"
  /\ UNCHANGED <<world, shifts, target, lost, obs, moments>>

Next == Shift \/ Begin \/ CallAnswers \/ CallFails \/ Analyze

Spec == Init /\ [][Next]_vars

-------------------------------------------------------------------------------
(* Properties. *)

Reported == pc = "report"
Verdicts == report.ranked

\* Hypothesis with this prefix and name is ranked above that one, when both are there.
Above(id, other) ==
  \A i, j \in DOMAIN Verdicts : Verdicts[i].id = id /\ Verdicts[j].id = other => i < j

\* What a pass taken at one instant would have observed.  The calls that go by what
\* earlier ones read, "node" and "git", find it in what all calls read without them.
AtOnce(w, t) ==
  LET AllRead(O) == UNION {Reads(Calls[i], w, t, O) : i \in DOMAIN Calls}
  IN  AllRead(AllRead({}))

Blamed(O) ==
  LET order == CHOOSE f \in Orders(O) : TRUE
      hs    == Emitted(O, DnsRef, order)
  IN  {hs[i].id : i \in DOMAIN hs}

TypeOK ==
  /\ world \in Worlds /\ moments \subseteq Worlds
  /\ shifts \in 0..MaxShifts /\ lost \in 0..MaxLost
  /\ target \in {PodRef, AppRef}
  /\ pc \in {Calls[i] : i \in DOMAIN Calls} \cup {"idle", "analyze", "report"}
  /\ obs = {} \/ pc # "idle"
  /\ \A i \in DOMAIN Verdicts : Verdicts[i].status \in Statuses
  /\ report.card \in {p \in DOMAIN Precedence : Precedence[p] > 0} \cup {"", "INVESTIGATED"}

\* A claim that is not bound outranks the generic explanation of the same Pending
\* pod (scheduling.go:57-58: "it competes with (and outranks)").
ClaimOutranksScheduling ==
  Reported /\ UnboundClaims(obs) # {} /\ PendingPods(obs) # {}
    => Above(<<"pvc", Claim>>, <<"scheduling", Pod>>)

\* A container whose state is that it was killed for memory explains the failing probes,
\* the crash loop and the name errors around it, and none of them is ranked above it
\* (oom.go:22-30, crashloop.go:94, dns.go:177-178); the one exception is a first kill
\* without a limit on a node that is short of memory itself.  Of a kill that only events still
\* tell of nothing is said: in back-off it does not count against the loop (crashloop.go:95-99).
KillOutranksSymptoms ==
  Reported /\ PodRef \in OOMKilled(obs) =>
    \/ \A p \in {"probe", "crashloop", "dns"} : Above(<<"memory", Pod>>, <<p, Pod>>)
    \/ /\ Seen(obs, "node.condition", NodeRef, {"MemoryPressure"})
       /\ Seen(obs, "container.spec", PodRef, {"unlimited"})
       /\ ~RestartedOver(obs, {"container.terminated"}, PodRef, 1)
       /\ ~Seen(obs, "event.recorded", PodRef, {"OOMKilling"})

Quiet == Verdicts = <<>> /\ report.card = "INVESTIGATED" /\ report.severity = "INFO"
AllHealthy == Reported /\ \A w \in moments : Healthy(w)

\* A pass during which nothing was ever wrong reports nothing, whatever it changed to
\* see, whichever calls failed and although coreDNS and every deployment are observed
\* (dns.go:143-147); but Endpoints that cannot be read count as empty
\* (collector.go:400-402), and then the service is blamed, and nothing else.
QuietWhenHealthy ==
  AllHealthy =>
    \/ Quiet
    \/ /\ lost > 0 /\ ServiceRef \in NoEndpoints(obs)
       /\ Len(Verdicts) = 1 /\ Verdicts[1].id = <<"service", App>>

\* What explains a pod in a state that its GET alone shows.
Explains(s) ==
  CASE s \in {"unscheduled", "creating"} -> {"scheduling"}
    [] s = "pulling"                     -> {"imagepull"}
    [] s = "oom"                         -> {"memory"}
    [] s = "backoff"                     -> {"crashloop"}
    [] OTHER                             -> {}

\* A pod that stays in a failing state throughout the pass is explained by the analyzer
\* of that state, whichever call failed as long as the pod itself was read, and no
\* explanation of the same pod rules it out (hypothesis.go:62-77) but a commit, which git
\* reports on the target and which can.
FailureIsExplained ==
  Reported /\ (\E o \in obs : o.kind = "pod.state") =>
    \A s \in PodStates : (\A w \in moments : w.pod = s) =>
      \A p \in Explains(s) : \E i \in DOMAIN Verdicts :
        /\ Verdicts[i].id = <<p, Pod>>
        /\ (Verdicts[i].status = "RuledOut" => Verdicts[1].id[1] = "configregression")

\* The order in which Go ranges over the changed resources decides which of equal scores
\* comes first, and what follows from that (the statuses of the others), but neither which
\* hypotheses there are, nor their evidence, nor the score at any place of the ranking.
OrderOnlyBreaksTies ==
  Reported =>
    LET other == ReportOf(obs, CHOOSE f \in Orders(obs) : TRUE)
        Facts(r) == {[id |-> r.ranked[i].id, score |-> r.ranked[i].score,
                      evidence |-> r.ranked[i].evidence, missing |-> r.ranked[i].missing] :
                        i \in DOMAIN r.ranked}
    IN  /\ Facts(report) = Facts(other)
        /\ \A i \in DOMAIN Verdicts : Verdicts[i].score = other.ranked[i].score
        /\ report.card = other.card /\ report.severity = other.severity

\* What a pass makes of a loop that is polled in state s, before it begins.
LoopedTwice == pc = "idle" /\ world.restarts = 2 /\ world.pod \in {"crashed", "backoff"}
PolledIn(s) ==
  LET O == AtOnce([world EXCEPT !.pod = s], target)
  IN  ReportOf(O, CHOOSE f \in Orders(O) : TRUE).ranked

\* A crash loop is the same loop whether it is polled in back-off or just after a crash:
\* every explanation has the same score and evidence, but a change, whose age counts from
\* the onset, and an earlier kill, to which oom adds the restarts of a container that is
\* not waiting only (oom.go:87-91).
LoopLooksTheSame ==
  LoopedTwice =>
    LET Facts(hs) == {<<hs[i].id, hs[i].score, hs[i].evidence, hs[i].missing>> :
                        i \in {i \in DOMAIN hs : hs[i].id[1] \notin {"configregression", "memory"}}}
    IN  Facts(PolledIn("crashed")) = Facts(PolledIn("backoff"))

\* The calls of a pass read the cluster at different times, but every hypothesis is one
\* that a pass taken at a single instant between its first and its last call would
\* have made, from all it could have read.
EachBlameHasAMoment ==
  Reported /\ lost = 0 =>
    \A i \in DOMAIN Verdicts : \E w \in moments : Verdicts[i].id \in Blamed(AtOnce(w, target))

===============================================================================
