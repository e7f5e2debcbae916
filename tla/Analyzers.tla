------------------------------ MODULE Analyzers -------------------------------
(***************************************************************************)
(* The eleven analyzers of internal/analyze over the observations of one      *)
(* pass, a set O of the records of Workload.  Each yields at most one          *)
(* hypothesis per resource, in the form Hypothesis ranks, and findings.       *)
(*                                                                         *)
(* Left out: metric series and log snippets (PodEvidence models what they do), *)
(* the wording of claims, and messages, which Kubernetes always gives and the  *)
(* analyzers only copy.  A margin is written as the sum of its terms.          *)
(***************************************************************************)
EXTENDS Integers, Sequences, FiniteSets

CONSTANTS
  maxRegressionAge,  \* of a commit before the onset
  Overlapping        \* pairs of names in one namespace, the first part of the second

-------------------------------------------------------------------------------
(* The weight scale of score/scale.go and the penalty for missing evidence. *)

Decisive == 40
Primary == 30
Strong == 25
Corroborating == 20
Supporting == 15
Contextual == 10
DefaultLambdaMissing == 6

Points(holds, weight) == IF holds THEN weight ELSE 0

\* 10000 * sigmoid(margin / 26), rounded, for margins from -40 to 110: fine enough
\* to keep different margins apart.
SigmoidTable ==
  <<1768, 1824, 1882, 1942, 2003, 2065, 2129, 2194, 2260, 2328, 2398, 2469, 2541, 2614,
    2689, 2766, 2843, 2922, 3002, 3084, 3166, 3250, 3335, 3421, 3508, 3596, 3685, 3775,
    3866, 3958, 4050, 4143, 4237, 4331, 4426, 4521, 4616, 4712, 4808, 4904, 5000, 5096,
    5192, 5288, 5384, 5479, 5574, 5669, 5763, 5857, 5950, 6042, 6134, 6225, 6315, 6404,
    6492, 6579, 6665, 6750, 6834, 6916, 6998, 7078, 7157, 7234, 7311, 7386, 7459, 7531,
    7602, 7672, 7740, 7806, 7871, 7935, 7997, 8058, 8118, 8176, 8232, 8288, 8342, 8394,
    8445, 8495, 8544, 8591, 8637, 8681, 8725, 8767, 8808, 8848, 8886, 8924, 8960, 8996,
    9030, 9063, 9095, 9126, 9156, 9186, 9214, 9241, 9268, 9294, 9318, 9342, 9366, 9388,
    9410, 9431, 9451, 9471, 9490, 9508, 9526, 9543, 9559, 9575, 9591, 9605, 9620, 9634,
    9647, 9660, 9672, 9684, 9696, 9707, 9718, 9728, 9738, 9748, 9757, 9766, 9775, 9783,
    9791, 9799, 9806, 9813, 9820, 9827, 9833, 9839, 9845, 9851, 9857>>
Sigmoid(margin) == SigmoidTable[margin + 41]

-------------------------------------------------------------------------------
(* Observations. *)

Of(O, kind) == {o \in O : o.kind = kind}

\* Some observation of r is of this kind and has one of these values.
Seen(O, kind, r, vals) == \E o \in O : o.kind = kind /\ o.on = r /\ o.val \in vals

On(O, kind, vals) == {o.on : o \in {o \in O : o.kind = kind /\ o.val \in vals}}

\* The container of r was restarted more than k times when it was seen.
RestartedOver(O, kinds, r, k) == \E o \in O : o.kind \in kinds /\ o.on = r /\ o.n > k

OOMKilled(O) == On(O, "container.terminated", {"OOMKilled"})

\* Kills for memory, by the state of the container or by an event of the kubelet.
Kills(O) == {o \in O : \/ o.kind = "container.terminated" /\ o.val = "OOMKilled"
                       \/ o.kind = "event.recorded" /\ o.val = "OOMKilling"}
Killed(O) == {o.on : o \in Kills(O)}
Pressures == {"MemoryPressure", "DiskPressure", "PIDPressure"}
NotACrash == {"OOMKilled", "Completed"}

-------------------------------------------------------------------------------
(* Hypotheses.  Evidence is given as pairs of a name and whether it is listed.  *)

Hypothesize(prefix, name, margin, evidence, missing) ==
  [id |-> <<prefix, name>>, scored |-> TRUE, margin |-> margin,
   score |-> Sigmoid(margin), claim |-> prefix,
   evidence |-> {e[1] : e \in {e \in evidence : e[2]}}, missing |-> missing,
   status |-> "Likely"]

\* oom: two kills are a repetition.  The limit and the repetition are listed even when they earn no points.
Memory(O, r) ==
  LET limited  == Seen(O, "container.spec", r, {"limited"})
      again    == \/ RestartedOver(O, {"container.terminated", "container.running"}, r, 1)
                  \/ \E o, p \in Kills(O) : o.on = r /\ p.on = r /\ o # p
      pressure == \E o \in O : o.kind = "node.condition" /\ o.val = "MemoryPressure"
      margin   == Corroborating + 27 + Points(limited, Supporting) + Points(again, Contextual)
                    - Points(pressure, 12) - Points(~limited, DefaultLambdaMissing)
  IN  Hypothesize("memory", r[2], margin,
        {<<"terminated", TRUE>>, <<"limit", TRUE>>, <<"repro", TRUE>>, <<"temporal", TRUE>>,
         <<"nodepressure", pressure>>},
        IF limited THEN {} ELSE {"limit"})

\* Slip: only the container that waits is taken for a loop.
LoopingInBackOff(O) == On(O, "container.waiting", {"CrashLoopBackOff"})

\* A container in back-off, or one that failed again after two restarts.
Looping(O) ==
  On(O, "container.waiting", {"CrashLoopBackOff"})
  \cup {o.on : o \in {o \in Of(O, "container.terminated") : o.val \notin NotACrash /\ o.n >= 2}}

\* crashloop: both moments of the loop carry an exit code.
CrashLoop(O, r) ==
  LET again == RestartedOver(O, {"container.waiting", "container.terminated",
                                 "container.running"}, r, 1)
      oom   == r \in OOMKilled(O)
  IN  Hypothesize("crashloop", r[2],
        Primary + Supporting + Points(again, Contextual) - Points(oom, Corroborating),
        {<<"waiting", TRUE>>, <<"exit", TRUE>>, <<"restarts", TRUE>>, <<"oom", oom>>}, {})

\* Slip: the back-off after a failed pull is forgotten.
PullErrors(O) == On(O, "container.waiting", {"ErrImagePull"})

PullFailing(O) == On(O, "container.waiting", {"ErrImagePull", "ImagePullBackOff"})

ImagePull(O, r) ==
  LET image == \E o \in Of(O, "container.spec") : o.on = r
  IN  Hypothesize("imagepull", r[2], Primary + Supporting + Points(image, Contextual),
        {<<"waiting", TRUE>>, <<"message", TRUE>>, <<"image", image>>}, {})

\* scheduling: a group per resource that is Pending or that has a scheduler event.
\* The group takes its name from the Pending state, and has none without it.
PendingPods(O) == On(O, "pod.state", {"Pending"})
Unschedulable(O) == PendingPods(O) \cup On(O, "event.recorded", {"FailedScheduling"})

\* Slip: a claim that is still Pending does not count as unbound.
UnboundForGood(O) == \E o \in Of(O, "pvc.state") : o.val = "Lost"

Unbound(O) == \E o \in Of(O, "pvc.state") : o.val # "Bound"

Scheduling(O, r) ==
  LET pending  == r \in PendingPods(O)
      name     == IF pending THEN r[2] ELSE ""
      event    == Seen(O, "event.recorded", r, {"FailedScheduling"})
      requests == \E o \in Of(O, "container.spec") : o.on = r /\ o.n = 1
      blocked  == pending /\ Unbound(O)
      margin   == Primary + Points(event, Corroborating) + Points(requests, Contextual)
                    - Points(blocked, Corroborating) - Points(~event, DefaultLambdaMissing)
  IN  Hypothesize("scheduling", name, margin,
        {<<"pending", TRUE>>, <<"message", event>>, <<"requests", requests>>, <<"pvc", blocked>>},
        IF event THEN {} ELSE {"message"})

Pressured(O) == On(O, "node.condition", Pressures)

NodePressure(O, r) ==
  LET types == {o.val : o \in {o \in Of(O, "node.condition") : o.on = r /\ o.val \in Pressures}}
  IN  Hypothesize("nodepressure", r[2],
        Decisive + Supporting * (Cardinality(types) - 1) + Contextual,
        {<<t, TRUE>> : t \in types} \cup {<<"message", TRUE>>}, {})

Unhealthy(O) == On(O, "event.recorded", {"Unhealthy", "ProbeError"})

\* Slip: a kill for memory does not argue against the probe.
ProbeDespiteKill(O, r) ==
  LET restarted == RestartedOver(O, {"container.running"}, r, 0)
  IN  Hypothesize("probe", r[2], Primary + Corroborating + Points(restarted, Contextual),
        {<<"event", TRUE>>, <<"message", TRUE>>, <<"restart", restarted>>}, {})

Probe(O, r) ==
  LET restarted == RestartedOver(O, {"container.running"}, r, 0)
      oom       == r \in OOMKilled(O)
  IN  Hypothesize("probe", r[2],
        Primary + Corroborating + Points(restarted, Contextual) - Points(oom, Corroborating),
        {<<"event", TRUE>>, <<"message", TRUE>>, <<"restart", restarted>>, <<"oom", oom>>}, {})

-------------------------------------------------------------------------------
(* dns: one hypothesis for the pass, named after the first event's resource.   *)

DnsEvents(O) == {o \in Of(O, "event.recorded") : o.n = 1}
CoreDnsDown(O, dns) == Seen(O, "deployment.state", dns, {"down"})

\* Some container crashed or is in back-off, whichever it is.
CrashSymptom(O) ==
  \E o \in O : \/ o.kind = "container.waiting" /\ o.val = "CrashLoopBackOff"
               \/ o.kind = "container.terminated" /\ o.val \notin NotACrash

DnsTrouble(O, dns) == CoreDnsDown(O, dns) \/ DnsEvents(O) # {}

DnsFailure(O, dns) ==
  LET events  == DnsEvents(O) # {}
      name    == IF events THEN (CHOOSE o \in DnsEvents(O) : TRUE).on[2] ELSE "unknown"
      down    == CoreDnsDown(O, dns)
      symptom == CrashSymptom(O)
      oom     == OOMKilled(O) # {}
      margin  == Points(down, Primary) + Points(events, Strong)
                   + Points(symptom, Corroborating) - Points(oom, Corroborating)
  IN  Hypothesize("dns", name, margin,
        {<<"coredns", down>>, <<"events", events>>, <<"symptom", symptom>>, <<"oom", oom>>}, {})

-------------------------------------------------------------------------------
(* pvc, service and hpa.                                                      *)

\* Slip: a claim is only reported with a pod that waits for it.
UnboundClaimsOfPending(O) ==
  IF PendingPods(O) = {} THEN {} ELSE On(O, "pvc.state", {"Pending", "Lost"})

UnboundClaims(O) == On(O, "pvc.state", {"Pending", "Lost"})

\* The loop that gathers the failure events of a claim accepts every observation
\* the analyzer supports, the state that opened the group included.
ClaimEvents(O, r) ==
  {o \in O : /\ o.on = r
             /\ \/ o.kind = "pvc.state" /\ o.val \in {"Pending", "Lost"}
                \/ o.kind = "event.recorded"
                   /\ o.val \in {"FailedBinding", "FailedMount", "ProvisioningFailed"}}

ClaimUnbound(O, r) ==
  LET event == ClaimEvents(O, r) # {}
  IN  Hypothesize("pvc", r[2], Primary + Points(event, Corroborating) + Contextual,
        {<<"pending", TRUE>>, <<"event", event>>, <<"request", TRUE>>}, {})

NoEndpoints(O) == On(O, "service.state", {"empty"})

\* "Ready" pods are those in phase Running, "failing" pods all others.
ReadyPods(O) == On(O, "pod.state", {"Running"})
FailingPods(O) == {o.on : o \in Of(O, "pod.state")} \ ReadyPods(O)

ServiceDown(O, r) ==
  LET mismatch  == ReadyPods(O) # {}
      unhealthy == ReadyPods(O) = {} /\ FailingPods(O) # {}
      margin    == Primary + Points(mismatch, Corroborating) + Contextual
                     - Points(unhealthy, Corroborating)
  IN  Hypothesize("service", r[2], margin,
        {<<"noendpoints", TRUE>>, <<"mismatch", mismatch>>, <<"selector", TRUE>>,
         <<"unhealthy", unhealthy>>}, {})

AtMax(O) == On(O, "hpa.state", {"atMax"})

AtMaximum(O, r) ==
  LET easing == \E o \in Of(O, "hpa.state") : o.on = r /\ o.n = 1
  IN  [Hypothesize("hpa", r[2], Primary + Points(easing, Supporting),
         {<<"atmax", TRUE>>, <<"scaling", easing>>}, {}) EXCEPT !.status = "Candidate"]

-------------------------------------------------------------------------------
(* configregression: one hypothesis per changed resource, once anything at all  *)
(* waits, has terminated or is Pending.                                        *)

HasSymptom(O) ==
  \/ \E o \in O : o.kind \in {"container.terminated", "container.waiting"}
  \/ PendingPods(O) # {}

Failures(O) == Of(O, "container.terminated") \cup Of(O, "container.waiting")

\* The earliest of them, if there is one.
Onset(O) == CHOOSE t \in {o.at : o \in Failures(O)} : \A o \in Failures(O) : t <= o.at

\* Slip: a change is blamed without a symptom.
ChangedAnyway(O) ==
  {o.on : o \in Of(O, "git.commit") \cup Of(O, "gitops.state") \cup Of(O, "deployment.state")}

ChangedResources(O) ==
  IF HasSymptom(O)
  THEN {o.on : o \in Of(O, "git.commit") \cup Of(O, "gitops.state")
                     \cup Of(O, "deployment.state")}
  ELSE {}

Commits(O, r) == {o \in Of(O, "git.commit") : o.on = r}
Newest(S) == CHOOSE o \in S : \A p \in S : p.at <= o.at

\* The newest commit on r lies at most maxRegressionAge before the onset.
Recent(O, r) ==
  /\ Commits(O, r) # {} /\ Failures(O) # {}
  /\ Onset(O) - Newest(Commits(O, r)).at \in 0..maxRegressionAge

\* A deployment was observed whose name is that of r, contains it or is part of it.
RelatedChange(O, r) ==
  \E o \in Of(O, "deployment.state") :
    o.on[2] = r[2] \/ <<o.on[2], r[2]>> \in Overlapping \/ <<r[2], o.on[2]>> \in Overlapping

Regression(O, r) ==
  LET commit   == Commits(O, r) # {}
      recent   == Recent(O, r)
      troubled == Seen(O, "gitops.state", r, {"troubled"})
      change   == RelatedChange(O, r)
      pressure == Pressured(O) # {}
      margin   == Points(commit, Primary) + Points(recent, Strong) + Points(troubled, Strong)
                    + Points(change, Contextual) + Primary - Points(pressure, 12)
                    - Points(~commit, DefaultLambdaMissing)
  IN  [Hypothesize("configregression", r[2], margin,
         {<<"commit", commit>>, <<"recency", recent>>, <<"gitops", troubled>>,
          <<"change", change>>, <<"symptom", TRUE>>, <<"nodepressure", pressure>>},
         IF commit THEN {} ELSE {"commit"})
       EXCEPT !.claim = IF commit THEN "commit" ELSE "change"]

-------------------------------------------------------------------------------
(* The registered analyzers in order, and the status card.                    *)

\* One hypothesis for each resource of S, in the order of their first observation;
\* one workload has one resource of each kind.
Each(S, H(_)) ==
  LET order == CHOOSE f \in [1..Cardinality(S) -> S] : \A r \in S : \E i \in DOMAIN f : f[i] = r
  IN  [i \in DOMAIN order |-> H(order[i])]

\* Slip: the loop over the changed resources ends after the first.
EmittedOneChange(O, dns, order) ==
  Each(Killed(O), LAMBDA r : Memory(O, r)) \o Each(Looping(O), LAMBDA r : CrashLoop(O, r))
  \o (IF order = <<>> THEN <<>> ELSE <<Regression(O, order[1])>>)

\* configregression ranges over a Go map: its hypotheses come in the order given.
Emitted(O, dns, order) ==
  Each(Killed(O), LAMBDA r : Memory(O, r))
  \o Each(Looping(O), LAMBDA r : CrashLoop(O, r))
  \o Each(PullFailing(O), LAMBDA r : ImagePull(O, r))
  \o Each(Unschedulable(O), LAMBDA r : Scheduling(O, r))
  \o Each(Pressured(O), LAMBDA r : NodePressure(O, r))
  \o Each(Unhealthy(O), LAMBDA r : Probe(O, r))
  \o (IF DnsTrouble(O, dns) THEN <<DnsFailure(O, dns)>> ELSE <<>>)
  \o Each(UnboundClaims(O), LAMBDA r : ClaimUnbound(O, r))
  \o Each(NoEndpoints(O), LAMBDA r : ServiceDown(O, r))
  \o Each(AtMax(O), LAMBDA r : AtMaximum(O, r))
  \o [i \in DOMAIN order |-> Regression(O, order[i])]

Orders(O) ==
  LET R == ChangedResources(O)
  IN  {f \in [1..Cardinality(R) -> R] : \A r \in R : \E i \in DOMAIN f : f[i] = r}

\* Each hypothesis comes with a finding, of this severity.
Severe(h) ==
  CASE h.id[1] \in {"scheduling", "hpa"} -> FALSE
    [] h.id[1] = "dns"                   -> {"coredns", "symptom"} \subseteq h.evidence
    [] h.id[1] = "service"               -> "mismatch" \in h.evidence
    [] OTHER                             -> TRUE

Severity(hs) ==
  IF hs = <<>> THEN "INFO"
  ELSE IF \E i \in DOMAIN hs : Severe(hs[i]) THEN "HIGH" ELSE "WARNING"

\* The rank of an analyzer's claim on the card, by the prefix of its hypotheses.
Precedence ==
  [nodepressure |-> 8, memory |-> 7, pvc |-> 6, imagepull |-> 5, crashloop |-> 4,
   scheduling |-> 3, probe |-> 2, service |-> 1,
   dns |-> 0, hpa |-> 0, configregression |-> 0]

\* Slip: a claim without a label of its own is put on the card.
CardOfAny(hs) ==
  IF hs = <<>> THEN "INVESTIGATED"
  ELSE CHOOSE p \in {hs[i].id[1] : i \in DOMAIN hs} :
         \A i \in DOMAIN hs : Precedence[hs[i].id[1]] <= Precedence[p]

Card(hs) ==
  LET ranks == {Precedence[hs[i].id[1]] : i \in DOMAIN hs}
      best  == CHOOSE n \in ranks \cup {0} : \A m \in ranks : m <= n
  IN  IF best = 0
      THEN "INVESTIGATED"
      ELSE CHOOSE p \in DOMAIN Precedence : Precedence[p] = best

===============================================================================
