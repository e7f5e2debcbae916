------------------------------ MODULE Remediation ------------------------------
(***************************************************************************)
(* internal/action and the `action` command: several operators apply an action  *)
(* of one incident (`kubetective action <id> --apply <action> --yes`) to a       *)
(* cluster that has a life of its own.                                        *)
(*                                                                         *)
(* The cluster is one Deployment with its ReplicaSets and one pod.  Of the      *)
(* deployment controller (outside src/) the model has what rollback relies on:   *)
(* it gives the ReplicaSet of the current template the highest revision, some     *)
(* time after the template changed, and then writes the revision to the           *)
(* Deployment.  Every write to the Deployment raises its resourceVersion.          *)
(***************************************************************************)
EXTENDS Integers, Sequences, SequencesExt, FiniteSets

CONSTANTS
  Operators,       \* runs of the command
  Results,         \* what the replay of the record may come to
  Templates,       \* pod templates of the Deployment
  Initial,         \* its templates up to the time the incident is recorded, in order
  Foreign,         \* templates of ReplicaSets of other Deployments in the namespace
  InitialSets,     \* what `sets` may be then
  HistoryLimit,    \* spec.revisionHistoryLimit
  MaxEdits,        \* bound on the edits by others
  Nothing

Deployment == [template : Templates, version : Nat, revision : Nat]

\* After the n-th revision of the history the same template never came again.
LastUse(history, n) == \A m \in DOMAIN history : m > n => history[m] # history[n]

\* A template used last after that of a ReplicaSet has a ReplicaSet of a higher revision:
\* the controller counts up, and prunes the lowest.
InOrder(revisions, history) ==
  \A n, m \in DOMAIN history :
    /\ LastUse(history, n) /\ LastUse(history, m) /\ n < m
    /\ revisions[history[n]] > 0
    => revisions[history[n]] < revisions[history[m]]

ASSUME DeploymentAssumption ==
  /\ Initial \in Seq(Templates) /\ Initial # <<>>
  /\ Foreign \cap Templates = {}
  /\ Nothing \notin Templates \cup {"ok", "error"} /\ Nothing \notin Deployment
  /\ InitialSets \subseteq [Templates \cup Foreign -> Nat]
  /\ \A s \in InitialSets, t \in Templates :
       s[t] > 0 => \E n \in DOMAIN Initial : Initial[n] = t
  /\ \A s \in InitialSets : InOrder(s, Initial)
  /\ HistoryLimit \in Nat /\ MaxEdits \in Nat

VARIABLES
  result,      \* res: what the replay of the incident gives every operator
  dep,         \* the Deployment: template, resourceVersion, revision annotation
  sets,        \* template -> the revision of its ReplicaSet, 0 if there is none
  edits,       \* edits by others so far
  pod,         \* the pod of the incident: up, terminating or gone
  pc,          \* operator -> where its command is
  snapshot,    \* operator -> the Deployment it got
  chosen,      \* operator -> the template it rolls back to
  outcome,     \* operator -> what Apply returned
  trail,       \* audit lines of the incident record
  rollout,     \* history: the templates of its revisions, in order
  took,        \* history: operators whose mutation the cluster took
  settled      \* history: operators that got the Deployment with its ReplicaSet

cluster == <<dep, sets, edits, pod, rollout>>
vars == <<result, dep, sets, edits, pod, pc, snapshot, chosen, outcome, trail,
          rollout, took, settled>>

-------------------------------------------------------------------------------
(* Plan. *)

Rollbackable == {"memory", "config", "crashloop", "probe"}

BadStatus == {"OOMKILLED", "CRASHLOOPBACKOFF", "IMAGEPULLBACKOFF"}

\* A result of the replay: the category and status of the head of the list ("" for an
\* empty list), the kinds of the changed resources, the kind of the target and the card.
Plan(res) ==
  (IF /\ res.category \in Rollbackable /\ res.status # "RuledOut"
      /\ "deployment" \in res.changed
   THEN {"rollback"} ELSE {})
  \cup (IF res.category # "" /\ res.target = "pod" /\ res.card \in BadStatus
        THEN {"restart-pod"} ELSE {})

-------------------------------------------------------------------------------

\* The templates whose ReplicaSet has the highest revision.
newest == {t \in Templates : \A u \in Templates : sets[u] <= sets[t]}

Init ==
  /\ result \in Results
  /\ sets \in InitialSets
  /\ dep = [template |-> Last(Initial), version |-> 1, revision |-> sets[Last(Initial)]]
  /\ edits = 0
  /\ pod = "up"
  /\ pc = [o \in Operators |-> "start"]
  /\ snapshot = [o \in Operators |-> Nothing]
  /\ chosen = [o \in Operators |-> Nothing]
  /\ outcome = [o \in Operators |-> Nothing]
  /\ trail = {}
  /\ rollout = Initial
  /\ took = {} /\ settled = {}

Goes(o, place) == pc' = [pc EXCEPT ![o] = place]

\* Apply returns; the command goes on to its audit record.
Returns(o, what) ==
  /\ outcome' = [outcome EXCEPT ![o] = what]
  /\ Goes(o, "audit")

\* Load, replay and plan, then --apply names one of the planned actions with --yes.
Choose(o) ==
  /\ pc[o] = "start"
  /\ \E act \in Plan(result) : Goes(o, IF act = "rollback" THEN "get" ELSE "delete")
  /\ UNCHANGED <<result, cluster, snapshot, chosen, outcome, trail, took, settled>>

\* The record does not load, --yes is missing, the action is unknown, no kubeconfig.
Refuse(o) ==
  /\ pc[o] = "start"
  /\ Goes(o, "done")
  /\ UNCHANGED <<result, cluster, snapshot, chosen, outcome, trail, took, settled>>

(* rollback. *)

GetDeployment(o) ==
  /\ pc[o] = "get"
  /\ snapshot' = [snapshot EXCEPT ![o] = dep]
  /\ settled' = IF sets[dep.template] > 0 /\ dep.template \in newest
                THEN settled \cup {o} ELSE settled
  /\ Goes(o, "list")
  /\ UNCHANGED <<result, cluster, chosen, outcome, trail, took>>

\* Slips: every ReplicaSet of the namespace is taken; the oldest revision is chosen.
AllReplicaSets == {t \in DOMAIN sets : sets[t] > 0}

owned == {t \in Templates : sets[t] > 0}

Oldest(rss) == {t \in rss : \A u \in rss : sets[t] <= sets[u]}

PreviousIsOldest(rss) == Oldest(rss)

\* The highest revision below the highest one, if there is one.
Previous(rss) ==
  LET below == {t \in rss : \E u \in rss : sets[t] < sets[u]}
  IN  {t \in below : \A u \in below : sets[u] <= sets[t]}

\* A slip: with no revision below the current one, the zero template is installed.
ListUnchecked(o) ==
  /\ pc[o] = "list"
  /\ \E t \in Previous(owned) \cup (IF Previous(owned) = {} THEN {Nothing} ELSE {}) :
       chosen' = [chosen EXCEPT ![o] = t]
  /\ Goes(o, "update")
  /\ UNCHANGED <<result, cluster, snapshot, outcome, trail, took, settled>>

\* Of the ReplicaSets the Deployment controls.
ListReplicaSets(o) ==
  /\ pc[o] = "list"
  /\ \E t \in Previous(owned) : chosen' = [chosen EXCEPT ![o] = t]
  /\ Goes(o, "update")
  /\ UNCHANGED <<result, cluster, snapshot, outcome, trail, took, settled>>

NoPreviousRevision(o) ==
  /\ pc[o] = "list"
  /\ Previous(owned) = {}
  /\ Returns(o, "error")
  /\ UNCHANGED <<result, cluster, snapshot, chosen, trail, took, settled>>

\* The API server takes the update: the template, without the revision annotation.
Installs(o) ==
  /\ dep' = [template |-> chosen[o], version |-> dep.version + 1, revision |-> 0]
  /\ took' = took \cup {o}

\* A slip: a patch instead of an update, which has no resourceVersion to conflict.
PatchDeployment(o) ==
  /\ pc[o] = "update"
  /\ Installs(o)
  /\ Returns(o, "ok")
  /\ UNCHANGED <<result, sets, edits, pod, rollout, snapshot, chosen, trail,
                 settled>>

UpdateDeployment(o) ==
  /\ pc[o] = "update" /\ dep.version = snapshot[o].version
  /\ Installs(o)
  /\ Returns(o, "ok")
  /\ UNCHANGED <<result, sets, edits, pod, rollout, snapshot, chosen, trail,
                 settled>>

\* The update is taken and its answer lost.
UpdateUnanswered(o) ==
  /\ pc[o] = "update" /\ dep.version = snapshot[o].version
  /\ Installs(o)
  /\ Returns(o, "error")
  /\ UNCHANGED <<result, sets, edits, pod, rollout, snapshot, chosen, trail,
                 settled>>

\* A slip: a conflict counts as done.
ConflictIsFine(o) ==
  /\ pc[o] = "update" /\ dep.version # snapshot[o].version
  /\ Returns(o, "ok")
  /\ UNCHANGED <<result, cluster, snapshot, chosen, trail, took, settled>>

UpdateConflicts(o) ==
  /\ pc[o] = "update" /\ dep.version # snapshot[o].version
  /\ Returns(o, "error")
  /\ UNCHANGED <<result, cluster, snapshot, chosen, trail, took, settled>>

\* restartPod: by name, whatever pod has it.
DeletePod(o) ==
  /\ pc[o] = "delete" /\ pod # "gone"
  /\ pod' = "terminating"
  /\ took' = took \cup {o}
  /\ Returns(o, "ok")
  /\ UNCHANGED <<result, dep, sets, edits, snapshot, chosen, trail, rollout, settled>>

PodNotFound(o) ==
  /\ pc[o] = "delete" /\ pod = "gone"
  /\ Returns(o, "error")
  /\ UNCHANGED <<result, cluster, snapshot, chosen, trail, took, settled>>

\* A request the API server does not take.
RequestFails(o) ==
  /\ pc[o] \in {"get", "list", "update", "delete"}
  /\ Returns(o, "error")
  /\ UNCHANGED <<result, cluster, snapshot, chosen, trail, took, settled>>

\* NewAudit and AppendAudit, whatever Apply returned.
AppendAudit(o) ==
  /\ pc[o] = "audit"
  /\ trail' = trail \cup {[by |-> o, result |-> outcome[o]]}
  /\ Goes(o, "done")
  /\ UNCHANGED <<result, cluster, snapshot, chosen, outcome, took, settled>>

\* "note: audit record not written".
AuditFails(o) ==
  /\ pc[o] = "audit"
  /\ Goes(o, "done")
  /\ UNCHANGED <<result, cluster, snapshot, chosen, outcome, trail, took, settled>>

Interrupted(o) ==
  /\ pc[o] \notin {"start", "done", "killed"}
  /\ Goes(o, "killed")
  /\ UNCHANGED <<result, cluster, snapshot, chosen, outcome, trail, took, settled>>

-------------------------------------------------------------------------------
(* The cluster.                                                              *)

operators == <<pc, snapshot, chosen, outcome, trail, took, settled>>

\* Somebody applies another template.
Edit ==
  /\ edits < MaxEdits
  /\ edits' = edits + 1
  /\ \E t \in Templates \ {dep.template} :
       dep' = [dep EXCEPT !.template = t, !.version = @ + 1]
  /\ UNCHANGED <<result, sets, pod, rollout, operators>>

\* The controller creates the ReplicaSet of the template, or raises its revision.
Reconcile ==
  /\ sets[dep.template] = 0 \/ dep.template \notin newest
  /\ \E t \in newest : sets' = [sets EXCEPT ![dep.template] = sets[t] + 1]
  /\ rollout' = Append(rollout, dep.template)
  /\ UNCHANGED <<result, dep, edits, pod, operators>>

\* It copies the revision to the Deployment.
Annotate ==
  /\ dep.template \in newest /\ dep.revision # sets[dep.template]
  /\ dep' = [dep EXCEPT !.revision = sets[dep.template], !.version = @ + 1]
  /\ UNCHANGED <<result, sets, edits, pod, rollout, operators>>

\* It removes old ReplicaSets beyond the history limit, the oldest first.
Prune ==
  /\ dep.template \in newest
  /\ LET old == owned \ {dep.template}
     IN  /\ Cardinality(old) > HistoryLimit
         /\ \E t \in Oldest(old) : sets' = [sets EXCEPT ![t] = 0]
  /\ UNCHANGED <<result, dep, edits, pod, rollout, operators>>

\* The kubelet stops the containers and the pod is removed.
PodStops ==
  /\ pod = "terminating"
  /\ pod' = "gone"
  /\ UNCHANGED <<result, dep, sets, edits, rollout, operators>>

-------------------------------------------------------------------------------

Works(o) ==
  \/ Choose(o) \/ Refuse(o)
  \/ GetDeployment(o) \/ ListReplicaSets(o) \/ NoPreviousRevision(o)
  \/ UpdateDeployment(o) \/ UpdateUnanswered(o) \/ UpdateConflicts(o)
  \/ DeletePod(o) \/ PodNotFound(o) \/ RequestFails(o)
  \/ AppendAudit(o) \/ AuditFails(o)

Kubernetes == Reconcile \/ Annotate \/ Prune \/ PodStops

Next ==
  \/ \E o \in Operators : Works(o) \/ Interrupted(o)
  \/ Edit
  \/ Kubernetes

\* The controllers and the kubelet act when they can.
Spec == Init /\ [][Next]_vars /\ WF_vars(Kubernetes)

-------------------------------------------------------------------------------
(* Properties. *)

\* Every variable keeps its type, and nobody updates what it has not read.
TypeOK ==
  /\ result \in Results
  /\ dep \in Deployment
  /\ sets \in [Templates \cup Foreign -> Nat]
  /\ edits \in 0..MaxEdits
  /\ pod \in {"up", "terminating", "gone"}
  /\ pc \in [Operators -> {"start", "get", "list", "update", "delete", "audit",
                           "done", "killed"}]
  /\ snapshot \in [Operators -> Deployment \cup {Nothing}]
  /\ chosen \in [Operators -> Templates \cup {Nothing}]
  /\ outcome \in [Operators -> {"ok", "error", Nothing}]
  /\ trail \subseteq [by : Operators, result : {"ok", "error"}]
  /\ rollout \in Seq(Templates)
  /\ took \subseteq Operators /\ settled \subseteq Operators
  /\ \A o \in Operators :
       /\ pc[o] \in {"list", "update"} => snapshot[o] # Nothing
       /\ pc[o] = "update" => chosen[o] # Nothing
       /\ pc[o] = "audit" => outcome[o] # Nothing

\* A rollback the cluster takes by o.
RollsBack(o) == o \in took' \ took /\ pc[o] = "update"

\* A rollback never overwrites a change its operator has not seen: whoever changed the
\* template since the operator read the Deployment wins, and the rollback fails
\* (Update sends back the resourceVersion Get returned).
NoEditIsLost ==
  [][\A o \in Operators : RollsBack(o) => dep.template = snapshot[o].template]_vars

\* Whatever the ReplicaSets in the namespace, a rollback installs a template that this
\* Deployment has been rolled out with.
OnlyKnownTemplates ==
  [][\A o \in Operators : RollsBack(o) => \E n \in DOMAIN rollout : rollout[n] = dep'.template]_vars

\* t is the template of the last revision that is not the present one.
Precedes(t) ==
  \E n \in DOMAIN rollout :
    /\ rollout[n] = t /\ t # dep.template
    /\ \A m \in n + 1..Len(rollout) : rollout[m] = dep.template

\* If the controller had caught up with the Deployment when the operator read it, the
\* rollback it makes goes to the template before, also when that ReplicaSet has
\* been used again and again and others have been pruned.
SettledGoesBackOne ==
  [][\A o \in settled : RollsBack(o) => Precedes(dep'.template)]_vars

\* The trail does not lie: an action it records as done was taken by the cluster, each
\* by an operator of its own.
TrailIsTrue == \A line \in trail : line.result = "ok" => line.by \in took

===============================================================================
