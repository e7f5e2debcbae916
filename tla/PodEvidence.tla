------------------------------ MODULE PodEvidence ------------------------------
(***************************************************************************)
(* The collectors and analyzers Investigation is run with: the Kubernetes,   *)
(* Prometheus, Loki and replay collectors over a cluster of a few pods, and   *)
(* the two analyzers that share a pod and drive the adaptive loop, oom and    *)
(* crashloop.                                                                *)
(*                                                                         *)
(* Of a pod the model keeps what these analyzers look at.  Its state is       *)
(*   absent       not in the API any more                                     *)
(*   running                                                                  *)
(*   backoff      waiting in CrashLoopBackOff, last termination not reported   *)
(*   backoffExit  waiting in CrashLoopBackOff with a last exit code            *)
(*   crashed      terminated, non-zero exit code, at least two restarts        *)
(*   oomKilled    terminated with reason OOMKilled                             *)
(* and one GET of the pod yields its pod.state and container observations,     *)
(* here one record that carries the state.                                     *)
(***************************************************************************)
EXTENDS Integers, Sequences, FiniteSets

CONSTANTS
  Pods,
  PodOrder,      \* the pods as a list: the order the API server lists them in
  Unlimited,     \* pods without a memory limit
  TargetKind,    \* "pod", "deployment" or "namespace"
  TargetPod,     \* the pod asked about when TargetKind = "pod"
  ScopeLogs,     \* scopePlan.Logs
  Recorded       \* the observations of the record a replay serves

States == {"absent", "running", "backoff", "backoffExit", "crashed", "oomKilled"}

PodWorlds == [Pods -> States]

\* What may become of one pod; the kubelet and the controllers decide.  A pod that
\* comes back to a state does so with more restarts, which is another observation:
\* the model follows a pod through each state once.
Turns(s) ==
  CASE s = "running"     -> {"crashed", "oomKilled", "absent"}
    [] s = "backoff"     -> {"crashed", "oomKilled", "absent"}
    [] s = "crashed"     -> {"oomKilled", "backoffExit", "absent"}
    [] s = "oomKilled"   -> {"backoffExit", "absent"}
    [] s = "backoffExit" -> {"absent"}
    [] s = "absent"      -> {}

PodShifts(w) == UNION {{[w EXCEPT ![p] = s] : s \in Turns(w[p])} : p \in Pods}

-------------------------------------------------------------------------------
(* Observations. *)

PodState(p, s) == [kind |-> "pod.state", pod |-> p, state |-> s]
Snippet(p, from) == [kind |-> "log.snippet", pod |-> p, state |-> from]
Series(p) == [kind |-> "metric.series", pod |-> p, state |-> ""]

PodObs ==
  {PodState(p, s) : p \in Pods, s \in States \ {"absent"}}
  \cup {Snippet(p, from) : p \in Pods, from \in {"kubelet", "loki"}}
  \cup {Series(p) : p \in Pods}

-------------------------------------------------------------------------------
(* Collectors: what a call may return without an error.                       *)

InScope == IF TargetKind = "pod" THEN {TargetPod} ELSE Pods

Present(w) == {p \in InScope : w[p] # "absent"}

PodMentions(O) == {o.pod : o \in {o \in O : o.kind = "pod.state"}}

\* collectPod, collectDeployment, collectNamespace: a pod that cannot be fetched is
\* skipped without an error, unless it is the target itself.  logSnippets is called
\* only if scope.Logs, and skips a container whose logs it cannot read.
Kubernetes(w) ==
  UNION {{[obs   |-> {PodState(p, w[p]) : p \in fetched}
                       \cup {Snippet(p, "kubelet") : p \in tailed},
           cited |-> fetched # {} \/ TargetKind = "deployment"] :
            tailed \in IF ScopeLogs THEN SUBSET fetched ELSE {{}}} :
          fetched \in IF TargetKind = "pod" THEN {Present(w)} \ {{}}
                       ELSE SUBSET Present(w)}

\* Pods come from the pod.state observations of this pass; with none it fails.
\* A series the server does not have is not an error, a failed query is.
Prometheus(pods) ==
  IF pods = {}
  THEN {}
  ELSE {[obs |-> {Series(p) : p \in known}, cited |-> TRUE] : known \in SUBSET pods}

\* Only a pod target has a log stream to query, and a failed query is silent.
Loki(hints) ==
  {[obs |-> {}, cited |-> FALSE]}
  \cup {[obs |-> {Snippet(p, "loki")}, cited |-> TRUE] :
          p \in IF TargetKind = "pod" /\ (ScopeLogs \/ "logs" \in hints)
                THEN {TargetPod} ELSE {}}

\* ReplayCollector: what was recorded, whatever is asked.
Replay == {[obs |-> Recorded, cited |-> Recorded # {}]}

PodAnswers(c, w, pods, hints) ==
  CASE c = "kubernetes" -> Kubernetes(w)
    [] c = "prometheus" -> Prometheus(pods)
    [] c = "loki"       -> Loki(hints)
    [] c = "replay"     -> Replay

-------------------------------------------------------------------------------
(* Analyzers. *)

Seen(O, p, states) == \E s \in states : PodState(p, s) \in O

\* 100 * sigmoid(margin / 26) for the margins below, rounded.
Sigmoid(margin) ==
  CASE margin = 20 -> 68 [] margin = 30 -> 76 [] margin = 35 -> 79
    [] margin = 40 -> 82 [] margin = 45 -> 85 [] margin = 50 -> 87
    [] margin = 51 -> 88 [] margin = 55 -> 89 [] margin = 65 -> 92
    [] margin = 72 -> 94 [] margin = 92 -> 97

Points(cond, n) == IF cond THEN n ELSE 0

\* oom.Analyze for one pod: mechanism 20, temporal 30 x 0.9, reproduced 10, the
\* limit 15 or the missing penalty -6, and 20 if the metrics reached the limit.
\* The limit evidence is listed whether or not there is a limit.
OOMHypothesis(O, p) ==
  LET limited == p \notin Unlimited
      breach  == limited /\ Series(p) \in O
      margin  == 57 + Points(limited, 15) - Points(~limited, 6) + Points(breach, 20)
  IN  [id |-> <<"memory", p>>, scored |-> TRUE, margin |-> margin,
       score |-> Sigmoid(margin), claim |-> "memory",
       evidence |-> {"terminated", "limit", "repro", "temporal"}
                      \cup (IF breach THEN {"breach"} ELSE {}),
       missing |-> IF limited THEN {} ELSE {"limit"},
       status |-> "Likely"]

\* crashloop.Analyze for one pod: waiting 30, restarts 10, exit codes 15, logs 10,
\* and -20 if the pod was also seen OOM-killed.
CrashHypothesis(O, p) ==
  LET codes  == Seen(O, p, {"crashed", "oomKilled", "backoffExit"})
      logs   == \E from \in {"kubelet", "loki"} : Snippet(p, from) \in O
      oom    == Seen(O, p, {"oomKilled"})
      margin == 40 + Points(codes, 15) + Points(logs, 10) - Points(oom, 20)
  IN  [id |-> <<"crashloop", p>>, scored |-> TRUE, margin |-> margin,
       score |-> Sigmoid(margin), claim |-> "crashloop",
       evidence |-> {"waiting", "exit", "restarts"}
                      \cup (IF oom THEN {"oom"} ELSE {})
                      \cup (IF logs THEN {"logs"} ELSE {}),
       missing |-> IF codes \/ logs THEN {} ELSE {"exit-logs"},
       status |-> "Likely"]

Killed(O, p) == Seen(O, p, {"oomKilled"})
Waiting(O, p) == Seen(O, p, {"backoff", "backoffExit"})

\* crashloop groups the pods seen waiting first, then those only seen to crash.
PodEmits(a, O) ==
  LET killed  == SelectSeq(PodOrder, LAMBDA p : Killed(O, p))
      waiting == SelectSeq(PodOrder, LAMBDA p : Waiting(O, p))
      crashed == SelectSeq(PodOrder, LAMBDA p : ~Waiting(O, p) /\ Seen(O, p, {"crashed"}))
      looping == waiting \o crashed
  IN  IF a = "oom"
      THEN [n \in DOMAIN killed |-> OOMHypothesis(O, killed[n])]
      ELSE [n \in DOMAIN looping |-> CrashHypothesis(O, looping[n])]

\* Both analyzers report a HIGH finding per hypothesis.
PodFinds(a, O) == IF PodEmits(a, O) = <<>> THEN {} ELSE {"HIGH"}

\* Only crashloop asks for more: the logs of a crash whose cause is unknown.
PodNeeds(a, id, missing) ==
  IF a = "crashloop" /\ "exit-logs" \in missing
  THEN <<[hint |-> "logs", cost |-> 2]>>
  ELSE <<>>

PodLabel(a) == IF a = "oom" THEN "OOMKILLED" ELSE "CRASHLOOPBACKOFF"
PodPrecedence(a) == IF a = "oom" THEN 7 ELSE 4

PodIds == {"memory", "crashloop"} \X Pods
PodMissing == {"limit", "exit-logs"}
PodEvidenceIds == {"memory", "crashloop", "terminated", "limit", "repro", "temporal",
                   "breach", "waiting", "exit", "restarts", "oom", "logs"}

===============================================================================
