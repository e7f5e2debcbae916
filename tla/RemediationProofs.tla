--------------------------- MODULE RemediationProofs ---------------------------
(***************************************************************************)
(* What holds of Remediation for any number of operators, templates and edits:   *)
(* the audit trail is true, and a rollback overwrites nothing unseen, installs    *)
(* a known template, and goes back one if the controller had caught up.           *)
(***************************************************************************)
EXTENDS Remediation, WellFoundedInduction, TLAPS

\* The templates the Deployment has been rolled out with.
RolledOut == {rollout[n] : n \in DOMAIN rollout}

\* Every ReplicaSet of the Deployment came with a revision.
SetsAreRevisions == \A t \in Templates : sets[t] > 0 => t \in RolledOut

ChoicesAreRevisions == \A o \in Operators : pc[o] = "update" => chosen[o] \in RolledOut

\* The resourceVersion an operator holds tells whether the template has changed.
VersionsTell ==
  \A o \in Operators : pc[o] \in {"list", "update"} =>
    /\ snapshot[o].version <= dep.version
    /\ snapshot[o].version = dep.version => snapshot[o].template = dep.template

DoneIsTaken == \A o \in Operators : outcome[o] = "ok" => o \in took

IInv ==
  /\ TypeOK
  /\ SetsAreRevisions
  /\ ChoicesAreRevisions
  /\ VersionsTell
  /\ DoneIsTaken
  /\ TrailIsTrue

-------------------------------------------------------------------------------

\* A rollout history that grows keeps what it had.
LEMMA RolledOutGrows ==
  ASSUME rollout \in Seq(Templates), NEW t \in Templates, rollout' = Append(rollout, t)
  PROVE  RolledOut \subseteq RolledOut' /\ t \in RolledOut'
<1>1. /\ Len(rollout') = Len(rollout) + 1 /\ Len(rollout) \in Nat
      /\ DOMAIN rollout = 1..Len(rollout) /\ DOMAIN rollout' = 1..Len(rollout')
      /\ \A n \in 1..Len(rollout) : rollout'[n] = rollout[n]
      /\ rollout'[Len(rollout) + 1] = t
  OBVIOUS
<1>2. ASSUME NEW n \in DOMAIN rollout PROVE rollout[n] \in RolledOut'
  BY <1>1 DEF RolledOut
<1>3. t \in RolledOut'
  <2>1. Len(rollout) + 1 \in DOMAIN rollout'
    BY <1>1
  <2> QED BY <1>1, <2>1 DEF RolledOut
<1> QED BY <1>2, <1>3 DEF RolledOut

\* Writes to a Deployment leave a Deployment.
LEMMA DeploymentWrites ==
  ASSUME NEW d \in Deployment, NEW t \in Templates, NEW n \in Nat
  PROVE  /\ [d EXCEPT !.template = t, !.version = @ + 1] \in Deployment
         /\ [d EXCEPT !.revision = n, !.version = @ + 1] \in Deployment
         /\ [template |-> t, version |-> d.version + 1, revision |-> n] \in Deployment
         /\ d.template \in Templates
<1>1. d.template \in Templates /\ d.version \in Nat
  BY DEF Deployment
<1>2. d.version + 1 \in Nat
  BY <1>1
<1>3. ASSUME NEW v \in Nat
      PROVE  /\ [d EXCEPT !.template = t, !.version = v] \in Deployment
             /\ [d EXCEPT !.revision = n, !.version = v] \in Deployment
             /\ [template |-> t, version |-> v, revision |-> n] \in Deployment
  BY DEF Deployment
<1> HIDE DEF Deployment
<1> QED BY <1>1, <1>2, <1>3

\* The initial state satisfies the invariant.
LEMMA InvariantInit == Init => IInv
<1> SUFFICES ASSUME Init PROVE IInv
  OBVIOUS
<1>1. Last(Initial) \in Templates
  BY DeploymentAssumption DEF Last
<1>2. dep \in Deployment /\ sets \in [Templates \cup Foreign -> Nat]
  BY <1>1, DeploymentAssumption DEF Init, Deployment
<1>3. TypeOK
  <2>1. rollout \in Seq(Templates) /\ edits \in 0..MaxEdits
    BY DeploymentAssumption DEF Init
  <2>2. /\ snapshot \in [Operators -> Deployment \cup {Nothing}]
        /\ chosen \in [Operators -> Templates \cup {Nothing}]
        /\ outcome \in [Operators -> {"ok", "error", Nothing}]
    BY DEF Init
  <2>3. /\ pc \in [Operators -> {"start", "get", "list", "update", "delete", "audit",
                                  "done", "killed"}]
        /\ \A o \in Operators : pc[o] = "start"
    BY DEF Init
  <2> QED BY <1>2, <2>1, <2>2, <2>3 DEF Init, TypeOK
<1>4. SetsAreRevisions
  BY DeploymentAssumption DEF Init, SetsAreRevisions, RolledOut
<1>5. ChoicesAreRevisions /\ VersionsTell /\ DoneIsTaken /\ TrailIsTrue
  BY DeploymentAssumption
  DEF Init, ChoicesAreRevisions, VersionsTell, DoneIsTaken, TrailIsTrue
<1> QED BY <1>3, <1>4, <1>5 DEF IInv

\* What the command does keeps the types.
LEMMA CommandTypes ==
  ASSUME IInv, NEW o \in Operators, Works(o) \/ Interrupted(o)
  PROVE  TypeOK'
<1> USE DeploymentAssumption DEF IInv, TypeOK, cluster
<1>1. CASE Choose(o)
  <2>1. pc' = [pc EXCEPT ![o] = "get"] \/ pc' = [pc EXCEPT ![o] = "delete"]
    BY <1>1 DEF Choose, Goes
  <2>2. UNCHANGED <<result, cluster, snapshot, chosen, outcome, trail, took, settled>>
    BY <1>1 DEF Choose
  <2>3. pc' \in [Operators -> {"start", "get", "list", "update", "delete", "audit",
                              "done", "killed"}]
    BY <2>1
  <2>4. \A p \in Operators : pc'[p] = pc[p] \/ pc'[p] \in {"get", "delete"}
    BY <2>1
  <2>5. \A p \in Operators :
           /\ pc'[p] \in {"list", "update"} => snapshot'[p] # Nothing
           /\ pc'[p] = "update" => chosen'[p] # Nothing
           /\ pc'[p] = "audit" => outcome'[p] # Nothing
    BY <2>2, <2>4
  <2>6. /\ result' \in Results /\ dep' \in Deployment
        /\ sets' \in [Templates \cup Foreign -> Nat]
        /\ edits' \in 0..MaxEdits /\ pod' \in {"up", "terminating", "gone"}
        /\ rollout' \in Seq(Templates)
    BY <2>2
  <2>7. /\ snapshot' \in [Operators -> Deployment \cup {Nothing}]
        /\ chosen' \in [Operators -> Templates \cup {Nothing}]
        /\ outcome' \in [Operators -> {"ok", "error", Nothing}]
        /\ trail' \subseteq [by : Operators, result : {"ok", "error"}]
        /\ took' \subseteq Operators /\ settled' \subseteq Operators
    BY <2>2
  <2> HIDE DEF IInv, TypeOK
  <2> QED BY <2>3, <2>5, <2>6, <2>7 DEF TypeOK
<1>2. CASE GetDeployment(o)
  BY <1>2 DEF GetDeployment, Goes
<1>3. CASE ListReplicaSets(o)
  <2>1. PICK t \in Templates : chosen' = [chosen EXCEPT ![o] = t]
    BY <1>3 DEF ListReplicaSets, Previous, owned
  <2> QED BY <1>3, <2>1 DEF ListReplicaSets, Goes
<1>4. CASE NoPreviousRevision(o) \/ UpdateConflicts(o) \/ PodNotFound(o) \/ RequestFails(o)
  <2>1. /\ pc' = [pc EXCEPT ![o] = "audit"] /\ outcome' = [outcome EXCEPT ![o] = "error"]
        /\ UNCHANGED <<result, cluster, snapshot, chosen, trail, took, settled>>
    BY <1>4 DEF NoPreviousRevision, UpdateConflicts, PodNotFound, RequestFails, Returns, Goes
  <2> QED BY <2>1
<1>5. CASE UpdateDeployment(o) \/ UpdateUnanswered(o)
  <2>1. chosen[o] \in Templates
    BY <1>5 DEF UpdateDeployment, UpdateUnanswered
  <2>2. dep' \in Deployment
    <3>1. dep' = [template |-> chosen[o], version |-> dep.version + 1, revision |-> 0]
      BY <1>5 DEF UpdateDeployment, UpdateUnanswered, Installs
    <3>2. dep \in Deployment
      OBVIOUS
    <3> HIDE DEF TypeOK, IInv
    <3> QED BY <2>1, <3>1, <3>2, DeploymentWrites
  <2>3. /\ pc' = [pc EXCEPT ![o] = "audit"] /\ took' = took \cup {o}
        /\ \E what \in {"ok", "error"} : outcome' = [outcome EXCEPT ![o] = what]
        /\ UNCHANGED <<result, sets, edits, pod, rollout, snapshot, chosen, trail,
                       settled>>
    BY <1>5 DEF UpdateDeployment, UpdateUnanswered, Installs, Returns, Goes
  <2> QED BY <2>2, <2>3
<1>6. CASE DeletePod(o)
  BY <1>6 DEF DeletePod, Returns, Goes
<1>7. CASE AppendAudit(o)
  <2>1. outcome[o] \in {"ok", "error"}
    BY <1>7 DEF AppendAudit
  <2> QED BY <1>7, <2>1 DEF AppendAudit, Goes
<1>8. CASE Refuse(o) \/ Interrupted(o) \/ AuditFails(o)
  <2>1. \E place \in {"done", "killed"} : pc' = [pc EXCEPT ![o] = place]
    BY <1>8 DEF Refuse, Interrupted, AuditFails, Goes
  <2> QED BY <1>8, <2>1 DEF Refuse, Interrupted, AuditFails
<1> QED BY <1>1, <1>2, <1>3, <1>4, <1>5, <1>6, <1>7, <1>8 DEF Works

\* What the cluster and the people around it do keeps the types.
LEMMA ClusterTypes ==
  ASSUME IInv, Edit \/ Kubernetes
  PROVE  TypeOK'
<1> USE DeploymentAssumption DEF IInv, TypeOK, operators
<1>1. CASE Edit
  <2>1. dep' \in Deployment
    <3>1. PICK t \in Templates : dep' = [dep EXCEPT !.template = t, !.version = @ + 1]
      BY <1>1 DEF Edit
    <3> QED BY <3>1, DeploymentWrites
  <2>2. edits' \in 0..MaxEdits
    <3>1. edits \in 0..MaxEdits
      OBVIOUS
    <3>2. edits < MaxEdits /\ edits' = edits + 1
      BY <1>1 DEF Edit
    <3> HIDE DEF TypeOK, IInv
    <3> QED BY <3>1, <3>2
  <2> QED BY <1>1, <2>1, <2>2 DEF Edit
<1>2. CASE Reconcile
  <2>1. dep.template \in Templates
    BY DEF Deployment
  <2>2. PICK t \in Templates : sets' = [sets EXCEPT ![dep.template] = sets[t] + 1]
    BY <1>2 DEF Reconcile, newest
  <2>3. sets' \in [Templates \cup Foreign -> Nat] /\ rollout' \in Seq(Templates)
    BY <1>2, <2>1, <2>2 DEF Reconcile
  <2> QED BY <1>2, <2>3 DEF Reconcile
<1>3. CASE Annotate
  <2>1. dep' \in Deployment
    <3>1. sets[dep.template] \in Nat
      BY DEF Deployment
    <3>2. /\ dep' = [dep EXCEPT !.revision = sets[dep.template], !.version = @ + 1]
          /\ dep \in Deployment /\ dep.template \in Templates
      BY <1>3 DEF Annotate, Deployment
    <3> HIDE DEF TypeOK, IInv
    <3> QED BY <3>1, <3>2, DeploymentWrites
  <2> QED BY <1>3, <2>1 DEF Annotate
<1>4. CASE Prune
  <2>1. PICK t : sets' = [sets EXCEPT ![t] = 0]
    BY <1>4 DEF Prune
  <2>2. sets' \in [Templates \cup Foreign -> Nat]
    BY <2>1
  <2> QED BY <1>4, <2>2 DEF Prune
<1>5. CASE PodStops
  BY <1>5 DEF PodStops
<1> QED BY <1>1, <1>2, <1>3, <1>4, <1>5 DEF Kubernetes

\* ReplicaSets come and go with the revisions, and a choice is made among them.
LEMMA RevisionsStep ==
  ASSUME IInv, Next
  PROVE  SetsAreRevisions' /\ ChoicesAreRevisions'
<1> USE DEF IInv, TypeOK
<1>1. CASE Reconcile
  <2>1. dep.template \in Templates
    BY DEF Deployment
  <2>2. RolledOut \subseteq RolledOut' /\ dep.template \in RolledOut'
    BY <1>1, <2>1, RolledOutGrows DEF Reconcile
  <2>3. \A t \in Templates : sets'[t] > 0 => sets[t] > 0 \/ t = dep.template
    BY <1>1 DEF Reconcile
  <2> QED BY <1>1, <2>2, <2>3
          DEF SetsAreRevisions, ChoicesAreRevisions, Reconcile, operators
<1>2. CASE Prune
  <2>1. PICK t : sets' = [sets EXCEPT ![t] = 0]
    BY <1>2 DEF Prune
  <2>2. \A u \in Templates : sets'[u] > 0 => sets[u] > 0
    BY <2>1
  <2> QED BY <1>2, <2>2
          DEF SetsAreRevisions, ChoicesAreRevisions, Prune, operators, RolledOut
<1>3. ASSUME NEW o \in Operators, ListReplicaSets(o)
      PROVE  SetsAreRevisions' /\ ChoicesAreRevisions'
  <2>1. PICK t \in Templates : sets[t] > 0 /\ chosen' = [chosen EXCEPT ![o] = t]
    BY <1>3 DEF ListReplicaSets, Previous, owned
  <2>2. UNCHANGED <<sets, rollout>> /\ t \in RolledOut
    BY <1>3, <2>1 DEF ListReplicaSets, cluster, SetsAreRevisions
  <2>3. pc' = [pc EXCEPT ![o] = "update"]
    BY <1>3 DEF ListReplicaSets, Goes
  <2> QED BY <2>1, <2>2, <2>3 DEF SetsAreRevisions, ChoicesAreRevisions, RolledOut
<1>4. CASE Edit \/ Annotate \/ PodStops
  <2>1. UNCHANGED <<sets, rollout, chosen, pc>>
    BY <1>4 DEF Edit, Annotate, PodStops, operators
  <2> QED BY <2>1 DEF SetsAreRevisions, ChoicesAreRevisions, RolledOut
<1>5. ASSUME NEW o \in Operators,
             \/ Choose(o) \/ Refuse(o) \/ GetDeployment(o) \/ NoPreviousRevision(o)
             \/ UpdateDeployment(o) \/ UpdateUnanswered(o) \/ UpdateConflicts(o)
             \/ DeletePod(o) \/ PodNotFound(o) \/ RequestFails(o)
             \/ AppendAudit(o) \/ AuditFails(o) \/ Interrupted(o)
      PROVE  SetsAreRevisions' /\ ChoicesAreRevisions'
  <2>1. UNCHANGED <<sets, rollout, chosen>>
    BY <1>5 DEF Choose, Refuse, GetDeployment, NoPreviousRevision, UpdateDeployment,
       UpdateUnanswered, UpdateConflicts, DeletePod, PodNotFound, RequestFails,
       AppendAudit, AuditFails, Interrupted, Installs, cluster
  <2>2. \A p \in Operators : pc'[p] = "update" => pc[p] = "update"
    BY <1>5 DEF Choose, Refuse, GetDeployment, NoPreviousRevision, UpdateDeployment,
       UpdateUnanswered, UpdateConflicts, DeletePod, PodNotFound, RequestFails,
       AppendAudit, AuditFails, Interrupted, Returns, Goes
  <2> QED BY <2>1, <2>2 DEF SetsAreRevisions, ChoicesAreRevisions, RolledOut
<1> QED BY <1>1, <1>2, <1>3, <1>4, <1>5 DEF Next, Works, Kubernetes

\* Whoever changes the template raises the version.
LEMMA VersionsStep ==
  ASSUME IInv, Next
  PROVE  VersionsTell'
<1> USE DEF IInv, TypeOK, Deployment
<1>1. CASE Edit \/ Kubernetes
  <2>1. UNCHANGED <<pc, snapshot>>
    BY <1>1 DEF Edit, Kubernetes, Reconcile, Annotate, Prune, PodStops,
       operators
  <2>2. \/ dep'.version = dep.version + 1
        \/ UNCHANGED dep
    BY <1>1 DEF Edit, Kubernetes, Reconcile, Annotate, Prune, PodStops
  <2> QED BY <2>1, <2>2 DEF VersionsTell
<1>2. ASSUME NEW o \in Operators, GetDeployment(o)
      PROVE  VersionsTell'
  BY <1>2 DEF GetDeployment, Goes, cluster, VersionsTell
<1>3. ASSUME NEW o \in Operators, ListReplicaSets(o)
      PROVE  VersionsTell'
  BY <1>3 DEF ListReplicaSets, Goes, cluster, VersionsTell
<1>4. ASSUME NEW o \in Operators,
             \/ Choose(o) \/ Refuse(o) \/ NoPreviousRevision(o)
             \/ UpdateDeployment(o) \/ UpdateUnanswered(o) \/ UpdateConflicts(o)
             \/ DeletePod(o) \/ PodNotFound(o) \/ RequestFails(o)
             \/ AppendAudit(o) \/ AuditFails(o) \/ Interrupted(o)
      PROVE  VersionsTell'
  <2>1. UNCHANGED snapshot /\ (dep'.version = dep.version + 1 \/ UNCHANGED dep)
    BY <1>4 DEF Choose, Refuse, NoPreviousRevision, UpdateDeployment,
       UpdateUnanswered, UpdateConflicts, DeletePod, PodNotFound, RequestFails,
       AppendAudit, AuditFails, Interrupted, Installs, cluster
  <2>2. \A p \in Operators : pc'[p] \in {"list", "update"} => pc[p] \in {"list", "update"}
    BY <1>4 DEF Choose, Refuse, NoPreviousRevision, UpdateDeployment,
       UpdateUnanswered, UpdateConflicts, DeletePod, PodNotFound, RequestFails,
       AppendAudit, AuditFails, Interrupted, Returns, Goes
  <2> QED BY <2>1, <2>2 DEF VersionsTell
<1> QED BY <1>1, <1>2, <1>3, <1>4 DEF Next, Works

\* Only UpdateDeployment and DeletePod report success, and both are taken.
LEMMA TrailStep ==
  ASSUME IInv, Next
  PROVE  DoneIsTaken' /\ TrailIsTrue'
<1> USE DEF IInv, TypeOK
<1>1. CASE Edit \/ Kubernetes
  <2>1. UNCHANGED <<outcome, took, trail>>
    BY <1>1 DEF Edit, Kubernetes, Reconcile, Annotate, Prune, PodStops,
       operators
  <2> QED BY <2>1 DEF DoneIsTaken, TrailIsTrue
<1>2. ASSUME NEW o \in Operators, UpdateDeployment(o) \/ UpdateUnanswered(o) \/ DeletePod(o)
      PROVE  DoneIsTaken' /\ TrailIsTrue'
  <2>1. took' = took \cup {o} /\ UNCHANGED trail
        /\ \A p \in Operators \ {o} : outcome'[p] = outcome[p]
    BY <1>2 DEF UpdateDeployment, UpdateUnanswered, DeletePod, Installs, Returns
  <2> QED BY <2>1 DEF DoneIsTaken, TrailIsTrue
<1>3. ASSUME NEW o \in Operators,
             NoPreviousRevision(o) \/ UpdateConflicts(o) \/ PodNotFound(o) \/ RequestFails(o)
      PROVE  DoneIsTaken' /\ TrailIsTrue'
  BY <1>3 DEF NoPreviousRevision, UpdateConflicts, PodNotFound, RequestFails, Returns,
     DoneIsTaken, TrailIsTrue
<1>4. ASSUME NEW o \in Operators, AppendAudit(o)
      PROVE  DoneIsTaken' /\ TrailIsTrue'
  BY <1>4 DEF AppendAudit, DoneIsTaken, TrailIsTrue
<1>5. ASSUME NEW o \in Operators,
             \/ Choose(o) \/ Refuse(o) \/ GetDeployment(o) \/ ListReplicaSets(o)
             \/ AuditFails(o) \/ Interrupted(o)
      PROVE  DoneIsTaken' /\ TrailIsTrue'
  BY <1>5 DEF Choose, Refuse, GetDeployment, ListReplicaSets, AuditFails, Interrupted,
     DoneIsTaken, TrailIsTrue
<1> QED BY <1>1, <1>2, <1>3, <1>4, <1>5 DEF Next, Works

\* Every step keeps the invariant.
LEMMA InvariantStep == IInv /\ [Next]_vars => IInv'
<1>1. ASSUME IInv, Next PROVE IInv'
  <2>1. TypeOK'
    BY <1>1, CommandTypes, ClusterTypes DEF Next
  <2> QED BY <1>1, <2>1, RevisionsStep, VersionsStep, TrailStep DEF IInv
<1>2. ASSUME IInv, UNCHANGED vars PROVE IInv'
  BY <1>2 DEF IInv, vars, TypeOK, SetsAreRevisions, ChoicesAreRevisions, VersionsTell,
     DoneIsTaken, TrailIsTrue, RolledOut
<1> QED BY <1>1, <1>2

\* The invariant holds throughout.
THEOREM Invariance == Spec => []IInv
<1> QED BY InvariantInit, InvariantStep, PTL DEF Spec

-------------------------------------------------------------------------------

\* Every variable keeps its type, and nobody updates what it has not read.
THEOREM TypeCorrect == Spec => []TypeOK
<1>1. IInv => TypeOK
  BY DEF IInv
<1> QED BY <1>1, Invariance, PTL

\* The audit trail records no action as done that the cluster did not take.
THEOREM TheTrailIsTrue == Spec => []TrailIsTrue
<1>1. IInv => TrailIsTrue
  BY DEF IInv
<1> QED BY <1>1, Invariance, PTL

\* What a rollback that is taken sends, and what it was checked against.
LEMMA TakenRollback ==
  ASSUME IInv, Next, NEW o \in Operators, RollsBack(o)
  PROVE  dep'.template = chosen[o] /\ dep.version = snapshot[o].version
<1>1. o \notin took /\ o \in took' /\ pc[o] = "update"
  BY DEF RollsBack
<1>2. CASE Edit \/ Kubernetes
  BY <1>1, <1>2 DEF Edit, Kubernetes, Reconcile, Annotate, Prune, PodStops, operators
<1>3. ASSUME NEW p \in Operators, Works(p) \/ Interrupted(p)
      PROVE  dep'.template = chosen[o] /\ dep.version = snapshot[o].version
  BY <1>1, <1>3 DEF Works, Choose, Refuse, GetDeployment, ListReplicaSets,
     NoPreviousRevision, UpdateDeployment, UpdateUnanswered, UpdateConflicts,
     DeletePod, PodNotFound, RequestFails, AppendAudit, AuditFails, Interrupted, Installs
<1> QED BY <1>2, <1>3 DEF Next

\* No rollback overwrites a change of the template its operator has not seen, however
\* many operators, edits and controller steps come between.
THEOREM EditsSurvive == Spec => NoEditIsLost
<1> DEFINE Seen == \A o \in Operators : RollsBack(o) => dep.template = snapshot[o].template
<1>1. ASSUME IInv, Next, NEW o \in Operators, RollsBack(o)
      PROVE  dep.template = snapshot[o].template
  <2>1. dep.version = snapshot[o].version
    BY <1>1, TakenRollback
  <2> QED BY <1>1, <2>1 DEF IInv, VersionsTell, RollsBack
<1>2. IInv /\ [Next]_vars => [Seen]_vars
  BY <1>1
<1> QED BY <1>2, Invariance, PTL DEF Spec, NoEditIsLost

\* A rollback only installs a template that was a revision of this Deployment, whatever
\* other ReplicaSets the namespace holds.
THEOREM RollbacksAreKnown == Spec => OnlyKnownTemplates
<1> DEFINE Known == \A o \in Operators :
             RollsBack(o) => \E n \in DOMAIN rollout : rollout[n] = dep'.template
<1>1. ASSUME IInv, Next, NEW o \in Operators, RollsBack(o)
      PROVE  \E n \in DOMAIN rollout : rollout[n] = dep'.template
  <2>1. dep'.template = chosen[o]
    BY <1>1, TakenRollback
  <2>2. chosen[o] \in RolledOut
    BY <1>1 DEF IInv, ChoicesAreRevisions, RollsBack
  <2> QED BY <2>1, <2>2 DEF RolledOut
<1>2. IInv /\ [Next]_vars => [Known]_vars
  BY <1>1
<1> QED BY <1>2, Invariance, PTL DEF Spec, OnlyKnownTemplates

-------------------------------------------------------------------------------
(* Where a rollback goes.                                                    *)

\* The ReplicaSet of the current template is there and has the highest revision.
CaughtUp == sets[dep.template] > 0 /\ dep.template \in newest

\* What an operator that got the Deployment with its ReplicaSet still knows, as long as
\* nobody has written to the Deployment.
SettledKnows ==
  \A o \in Operators :
    /\ pc[o] \in {"start", "get"} => o \notin settled
    /\ o \in settled /\ pc[o] \in {"list", "update"} /\ snapshot[o].version = dep.version
       => /\ CaughtUp
          /\ pc[o] = "update" => Precedes(chosen[o])

RInv ==
  /\ IInv
  /\ InOrder(sets, rollout)
  /\ SettledKnows

\* A nonempty set of numbers has a smallest one.
LEMMA HasLeast ==
  ASSUME NEW S \in SUBSET Nat, S # {}
  PROVE  \E x \in S : \A y \in S : x <= y
<1> DEFINE R == {p \in Nat \X Nat : p[1] < p[2]}
<1>1. IsWellFoundedOn(R, Nat)
  BY NatLessThanWellFounded, Zenon DEF OpToRel
<1>2. PICK x \in S : \A y \in S : ~ (<<y, x>> \in R)
  <2> HIDE DEF R
  <2> QED BY <1>1, WFMin, S \subseteq Nat, Zenon
<1>3. \A y \in S : ~(y < x)
  <2>1. \A y \in S : <<y, x>> \in Nat \X Nat
    OBVIOUS
  <2> QED BY <1>2, <2>1
<1> HIDE DEF R
<1> QED BY <1>3

\* What is in a history has a last use.
LEMMA HasLastUse ==
  ASSUME NEW T, NEW h \in Seq(T), NEW n \in DOMAIN h
  PROVE  \E m \in DOMAIN h : h[m] = h[n] /\ LastUse(h, m) /\ n <= m
<1> DEFINE S == {Len(h) - k : k \in {k \in DOMAIN h : h[k] = h[n]}}
<1>1. Len(h) \in Nat /\ DOMAIN h = 1..Len(h)
  OBVIOUS
<1>2. S \subseteq Nat /\ Len(h) - n \in S
  BY <1>1
<1>3. PICK x \in S : \A y \in S : x <= y
  <2> HIDE DEF S
  <2> QED BY <1>2, HasLeast
<1>4. PICK m \in DOMAIN h : h[m] = h[n] /\ x = Len(h) - m
  BY <1>3
<1>5. ASSUME NEW k \in DOMAIN h, h[k] = h[n]
      PROVE  k <= m
  <2>1. Len(h) - k \in S
    BY <1>5
  <2>2. Len(h) - m <= Len(h) - k
    BY <1>3, <1>4, <2>1
  <2> HIDE DEF S
  <2> QED BY <1>1, <2>2
<1> HIDE DEF S
<1> QED BY <1>1, <1>4, <1>5 DEF LastUse

\* The controller numbers a template it rolls out above all others.
LEMMA ReconcileInOrder ==
  ASSUME IInv, InOrder(sets, rollout), Reconcile
  PROVE  InOrder(sets, rollout)'
<1> DEFINE d == dep.template
           L == Len(rollout)
<1>1. /\ rollout \in Seq(Templates) /\ d \in Templates
      /\ sets \in [Templates \cup Foreign -> Nat]
  BY DEF IInv, TypeOK, Deployment
<1>2. /\ L \in Nat /\ DOMAIN rollout = 1..L /\ DOMAIN rollout' = 1..L+1
      /\ rollout'[L + 1] = d /\ \A k \in 1..L : rollout'[k] = rollout[k] /\ rollout[k] \in Templates
  BY <1>1 DEF Reconcile
<1>3. PICK t \in Templates : /\ \A u \in Templates : sets[u] <= sets[t]
                             /\ sets' = [sets EXCEPT ![d] = sets[t] + 1]
  BY DEF Reconcile, newest
<1>4. /\ sets'[d] = sets[t] + 1
      /\ \A u \in Templates : u # d => sets'[u] = sets[u]
      /\ \A u \in Templates : sets[u] \in Nat
  BY <1>1, <1>3
<1> SUFFICES ASSUME NEW n \in DOMAIN rollout', NEW m \in DOMAIN rollout',
                    LastUse(rollout', n), LastUse(rollout', m), n < m,
                    sets'[rollout'[n]] > 0
             PROVE  sets'[rollout'[n]] < sets'[rollout'[m]]
  BY DEF InOrder, LastUse
<1> HIDE DEF d, L
<1>5. ASSUME NEW k \in 1..L, LastUse(rollout', k)
      PROVE  rollout'[k] # d /\ rollout'[k] = rollout[k] /\ LastUse(rollout, k)
  <2>1. L + 1 \in 1..L+1 /\ L + 1 > k /\ k \in 1..L+1 /\ \A j \in 1..L : j \in 1..L+1
    BY <1>2
  <2> QED BY <1>2, <1>5, <2>1 DEF LastUse
<1>6. n \in 1..L /\ (m \in 1..L \/ m = L + 1)
  BY <1>2
<1>7. /\ sets'[rollout'[n]] = sets[rollout[n]] /\ rollout[n] \in Templates
      /\ LastUse(rollout, n) /\ sets[rollout[n]] > 0
  BY <1>2, <1>4, <1>5, <1>6
<1>8. CASE m = L + 1
  BY <1>2, <1>3, <1>4, <1>7, <1>8
<1>9. CASE m \in 1..L
  <2>1. sets'[rollout'[m]] = sets[rollout[m]] /\ LastUse(rollout, m)
    BY <1>2, <1>4, <1>5, <1>9
  <2> QED BY <1>2, <1>6, <1>7, <1>9, <2>1 DEF InOrder
<1> QED BY <1>6, <1>8, <1>9

\* It removes the lowest of the old ones, and keeps the one it is at.
LEMMA PruneInOrder ==
  ASSUME IInv, InOrder(sets, rollout), Prune
  PROVE  /\ InOrder(sets, rollout)'
         /\ CaughtUp => CaughtUp'
<1> DEFINE d == dep.template
<1>1. /\ rollout \in Seq(Templates) /\ d \in Templates
      /\ sets \in [Templates \cup Foreign -> Nat]
      /\ UNCHANGED <<dep, rollout>>
  BY DEF IInv, TypeOK, Deployment, Prune
<1>2. /\ \A u \in Templates : sets[u] <= sets[d]
      /\ \A u \in Templates : sets[u] \in Nat
      /\ \A k \in DOMAIN rollout : rollout[k] \in Templates
  BY <1>1 DEF Prune, newest
<1>3. PICK t \in owned \ {d} : /\ \A u \in owned \ {d} : sets[t] <= sets[u]
                               /\ sets' = [sets EXCEPT ![t] = 0]
  BY DEF Prune, Oldest
<1>4. /\ t \in Templates /\ t # d /\ sets'[t] = 0
      /\ \A u \in Templates : u # t => sets'[u] = sets[u]
  BY <1>1, <1>3 DEF owned
<1>5. ASSUME NEW u \in Templates, sets[u] > 0 PROVE sets[t] <= sets[u]
  BY <1>2, <1>3, <1>4, <1>5 DEF owned
<1> HIDE DEF d
<1>6. InOrder(sets, rollout)'
  <2> SUFFICES ASSUME NEW n \in DOMAIN rollout, NEW m \in DOMAIN rollout,
                      LastUse(rollout, n), LastUse(rollout, m), n < m,
                      sets'[rollout[n]] > 0
               PROVE  sets'[rollout[n]] < sets'[rollout[m]]
    BY <1>1 DEF InOrder, LastUse
  <2>1. /\ rollout[n] # t /\ sets'[rollout[n]] = sets[rollout[n]]
    BY <1>2, <1>4
  <2>2. sets[rollout[n]] < sets[rollout[m]]
    BY <2>1 DEF InOrder
  <2>3. sets[t] <= sets[rollout[n]]
    BY <1>2, <1>5, <2>1
  <2>4. rollout[m] # t
    BY <1>2, <1>4, <2>2, <2>3
  <2> QED BY <1>2, <1>4, <2>1, <2>2, <2>4
<1>7. ASSUME CaughtUp PROVE CaughtUp'
  <2>1. sets'[d] = sets[d] /\ \A u \in Templates : sets'[u] <= sets'[d]
    BY <1>1, <1>2, <1>4
  <2> QED BY <1>1, <1>7, <2>1 DEF CaughtUp, newest, d
<1> QED BY <1>6, <1>7

\* When the controller has caught up, the highest revision below the current one is that
\* of the template before.
LEMMA PreviousPrecedes ==
  ASSUME IInv, InOrder(sets, rollout), CaughtUp, NEW t \in Previous(owned)
  PROVE  Precedes(t)
<1> DEFINE d == dep.template
           L == Len(rollout)
<1>1. /\ rollout \in Seq(Templates) /\ d \in Templates
      /\ \A u \in Templates : sets[u] \in Nat
      /\ \A u \in Templates : sets[u] > 0 => \E n \in DOMAIN rollout : rollout[n] = u
  BY DEF IInv, TypeOK, Deployment, SetsAreRevisions, RolledOut
<1>2. L \in Nat /\ DOMAIN rollout = 1..L /\ \A k \in 1..L : rollout[k] \in Templates
  BY <1>1
<1>3. sets[d] > 0 /\ \A u \in Templates : sets[u] <= sets[d]
  BY DEF CaughtUp, newest
<1>4. /\ t \in Templates /\ sets[t] > 0
      /\ \E u \in Templates : sets[t] < sets[u]
      /\ \A v \in Templates : sets[v] > 0 /\ (\E u \in owned : sets[v] < sets[u]) => sets[v] <= sets[t]
  BY DEF Previous, owned
<1>5. sets[t] < sets[d] /\ t # d
  BY <1>1, <1>3, <1>4
<1>6. d \in owned
  BY <1>1, <1>3 DEF owned
<1> HIDE DEF d, L
<1>7. PICK n \in 1..L : rollout[n] = t /\ LastUse(rollout, n)
  BY <1>1, <1>2, <1>4, HasLastUse
<1>8. PICK e \in 1..L : rollout[e] = d /\ LastUse(rollout, e)
  BY <1>1, <1>2, <1>3, HasLastUse
<1>9. ASSUME NEW k \in 1..L, k > n
      PROVE  rollout[k] = d
  <2> SUFFICES ASSUME rollout[k] # d PROVE FALSE
    OBVIOUS
  <2>1. PICK m \in 1..L : rollout[m] = rollout[k] /\ LastUse(rollout, m) /\ k <= m
    BY <1>1, <1>2, HasLastUse
  <2>2. sets[t] < sets[rollout[m]]
    BY <1>2, <1>4, <1>7, <1>9, <2>1 DEF InOrder
  <2>3. m # e /\ rollout[m] \in Templates
    BY <1>2, <1>8, <2>1
  <2>4. sets[rollout[m]] > 0
    BY <1>1, <1>4, <2>2, <2>3
  <2>5. sets[rollout[m]] < sets[d]
    <3>1. m < e => sets[rollout[m]] < sets[rollout[e]]
      BY <1>2, <1>8, <2>1, <2>4 DEF InOrder
    <3>2. e < m => sets[rollout[e]] < sets[rollout[m]]
      BY <1>2, <1>3, <1>8, <2>1 DEF InOrder
    <3>3. m < e \/ e < m
      BY <2>3
    <3> QED BY <1>1, <1>3, <1>8, <2>3, <3>1, <3>2, <3>3
  <2> QED BY <1>1, <1>4, <1>6, <2>2, <2>3, <2>4, <2>5
<1>10. \A m \in n + 1..Len(rollout) : rollout[m] = d
  BY <1>2, <1>9 DEF L
<1> QED BY <1>2, <1>5, <1>7, <1>10 DEF Precedes, d

\* The revisions stay in the order of the rollouts.
LEMMA OrderStep ==
  ASSUME IInv, InOrder(sets, rollout), Next
  PROVE  InOrder(sets, rollout)'
<1>1. CASE Reconcile \/ Prune
  BY <1>1, ReconcileInOrder, PruneInOrder
<1>2. CASE Edit \/ Annotate \/ PodStops
  BY <1>2 DEF Edit, Annotate, PodStops, InOrder, LastUse
<1>3. ASSUME NEW o \in Operators, Works(o) \/ Interrupted(o)
      PROVE  UNCHANGED <<sets, rollout>>
  BY <1>3 DEF Works, Choose, Refuse, GetDeployment, ListReplicaSets,
     NoPreviousRevision, UpdateDeployment, UpdateUnanswered, UpdateConflicts,
     DeletePod, PodNotFound, RequestFails, AppendAudit, AuditFails, Interrupted, Installs, cluster
<1> QED BY <1>1, <1>2, <1>3 DEF Next, Kubernetes, InOrder, LastUse

\* A write to the Deployment ends what operators know of it, a step of the controller that
\* writes nothing keeps it.
LEMMA KnowsStep ==
  ASSUME RInv, Next
  PROVE  SettledKnows'
<1> USE DEF RInv, SettledKnows
<1>1. TypeOK /\ VersionsTell /\ dep.version \in Nat
  BY DEF IInv, TypeOK, Deployment
<1>2. ASSUME UNCHANGED <<pc, settled, snapshot>>, dep'.version = dep.version + 1
      PROVE  SettledKnows'
  <2>1. \A o \in Operators : pc[o] \in {"list", "update"} =>
          snapshot[o].version \in Nat /\ snapshot[o].version <= dep.version
    BY <1>1 DEF TypeOK, VersionsTell, Deployment
  <2>2. ASSUME NEW o \in Operators, pc[o] \in {"list", "update"}
        PROVE  snapshot'[o].version # dep'.version
    BY <1>1, <1>2, <2>1, <2>2
  <2>3. \A o \in Operators : pc'[o] \in {"start", "get"} => o \notin settled'
    BY <1>2
  <2>4. \A o \in Operators : pc'[o] \in {"list", "update"} => snapshot'[o].version # dep'.version
    BY <1>2, <2>2
  <2> QED BY <2>3, <2>4, Zenon
<1>3. CASE Edit \/ Annotate
  <2>1. dep'.version = dep.version + 1
    BY <1>1, <1>3 DEF Edit, Annotate, TypeOK, Deployment
  <2>2. UNCHANGED <<pc, settled, snapshot>>
    BY <1>3 DEF Edit, Annotate, operators
  <2> QED BY <1>2, <2>1, <2>2
<1>4. CASE Reconcile
  <2>1. ~CaughtUp /\ UNCHANGED <<pc, settled, snapshot, dep>>
    BY <1>4 DEF Reconcile, operators, CaughtUp, IInv, TypeOK, Deployment
  <2> QED BY <2>1
<1>5. CASE Prune
  <2>1. UNCHANGED <<pc, settled, snapshot, dep, chosen, rollout>>
    BY <1>5 DEF Prune, operators
  <2>2. CaughtUp => CaughtUp'
    BY <1>5, PruneInOrder
  <2> QED BY <2>1, <2>2 DEF Precedes
<1>6. CASE PodStops
  BY <1>6 DEF PodStops, operators, CaughtUp, newest, Precedes
<1>7. ASSUME NEW o \in Operators, GetDeployment(o)
      PROVE  SettledKnows'
  <2>1. /\ UNCHANGED <<dep, sets, rollout, chosen>>
        /\ \A p \in Operators : p # o =>
             pc'[p] = pc[p] /\ snapshot'[p] = snapshot[p] /\ (p \in settled' <=> p \in settled)
    BY <1>7 DEF GetDeployment, Goes, cluster
  <2>2. pc'[o] = "list" /\ (o \in settled' => CaughtUp)
    BY <1>1, <1>7 DEF GetDeployment, Goes, CaughtUp, TypeOK
  <2> QED BY <2>1, <2>2 DEF CaughtUp, newest, Precedes
<1>8. ASSUME NEW o \in Operators, ListReplicaSets(o)
      PROVE  SettledKnows'
  <2>1. /\ UNCHANGED <<dep, sets, rollout, settled, snapshot>>
        /\ \A p \in Operators : p # o => pc'[p] = pc[p] /\ chosen'[p] = chosen[p]
    BY <1>8 DEF ListReplicaSets, Goes, cluster
  <2>2. pc[o] = "list" /\ pc'[o] = "update" /\ chosen'[o] \in Previous(owned)
    BY <1>1, <1>8 DEF ListReplicaSets, Goes, TypeOK
  <2>3. CaughtUp => Precedes(chosen'[o])
    BY <2>2, PreviousPrecedes
  <2> QED BY <2>1, <2>2, <2>3 DEF CaughtUp, newest, Precedes
<1>9. ASSUME NEW o \in Operators, UpdateDeployment(o) \/ UpdateUnanswered(o)
      PROVE  SettledKnows'
  <2>1. /\ dep'.version = dep.version + 1 /\ UNCHANGED <<settled, snapshot>>
        /\ pc' = [pc EXCEPT ![o] = "audit"]
    BY <1>9 DEF UpdateDeployment, UpdateUnanswered, Installs, Returns, Goes
  <2>2. \A p \in Operators : pc[p] \in {"list", "update"} =>
          snapshot[p].version \in Nat /\ snapshot[p].version <= dep.version
    BY <1>1 DEF TypeOK, VersionsTell, Deployment
  <2>3. \A p \in Operators : pc'[p] = pc[p] \/ pc'[p] = "audit"
    BY <1>1, <2>1 DEF TypeOK
  <2> QED BY <1>1, <2>1, <2>2, <2>3
<1>10. ASSUME NEW o \in Operators,
              \/ Choose(o) \/ Refuse(o) \/ NoPreviousRevision(o) \/ UpdateConflicts(o)
              \/ DeletePod(o) \/ PodNotFound(o) \/ RequestFails(o)
              \/ AppendAudit(o) \/ AuditFails(o) \/ Interrupted(o)
       PROVE  SettledKnows'
  <2>1. UNCHANGED <<dep, sets, rollout, chosen, settled, snapshot>>
    BY <1>10 DEF Choose, Refuse, NoPreviousRevision, UpdateConflicts, DeletePod,
       PodNotFound, RequestFails, AppendAudit, AuditFails, Interrupted, cluster
  <2>2. \A p \in Operators : /\ pc'[p] \in {"start", "get"} => pc[p] \in {"start", "get"}
                             /\ pc'[p] \in {"list", "update"} => pc[p] = pc'[p]
    BY <1>1, <1>10 DEF Choose, Refuse, NoPreviousRevision, UpdateConflicts, DeletePod,
       PodNotFound, RequestFails, AppendAudit, AuditFails, Interrupted, Returns, Goes, TypeOK
  <2> QED BY <2>1, <2>2 DEF CaughtUp, newest, Precedes
<1> QED BY <1>3, <1>4, <1>5, <1>6, <1>7, <1>8, <1>9, <1>10 DEF Next, Works, Kubernetes

\* What an operator has read of a settled Deployment stays true until somebody writes it.
LEMMA KnowledgeHolds == Spec => []RInv
<1>1. Init => RInv
  <2>1. ASSUME Init PROVE RInv
    <3>1. InOrder(sets, rollout)
      BY <2>1, DeploymentAssumption DEF Init
    <3> QED BY <2>1, <3>1, InvariantInit DEF RInv, SettledKnows, Init
  <2> QED BY <2>1
<1>2. RInv /\ [Next]_vars => RInv'
  <2>1. ASSUME RInv, Next PROVE RInv'
    BY <2>1, InvariantStep, OrderStep, KnowsStep DEF RInv
  <2>2. ASSUME RInv, UNCHANGED vars PROVE RInv'
    BY <2>2, InvariantStep
    DEF RInv, vars, SettledKnows, InOrder, LastUse, CaughtUp, newest, Precedes
  <2> QED BY <2>1, <2>2
<1> QED BY <1>1, <1>2, PTL DEF Spec

\* A rollback from a Deployment whose controller had caught up goes to the template of
\* the revision before, whatever was reused or pruned and whoever else wrote.
THEOREM RollbackGoesBackOne == Spec => SettledGoesBackOne
<1> DEFINE Back == \A o \in settled : RollsBack(o) => Precedes(dep'.template)
<1>1. ASSUME RInv, Next, NEW o \in settled, RollsBack(o)
      PROVE  Precedes(dep'.template)
  <2>1. IInv /\ o \in Operators /\ pc[o] = "update"
    BY <1>1 DEF RInv, IInv, TypeOK, RollsBack
  <2>2. dep'.template = chosen[o] /\ dep.version = snapshot[o].version
    BY <1>1, <2>1, TakenRollback
  <2>3. Precedes(chosen[o])
    BY <1>1, <2>1, <2>2 DEF RInv, SettledKnows
  <2> QED BY <2>2, <2>3
<1>2. RInv /\ [Next]_vars => [Back]_vars
  BY <1>1
<1> QED BY <1>2, KnowledgeHolds, PTL DEF Spec, SettledGoesBackOne
===============================================================================
