------------------------------- MODULE Workload -------------------------------
(***************************************************************************)
(* One workload and the cluster around it, and what the collectors of        *)
(* internal/collect read of it: the Kubernetes collector call by call, the    *)
(* git and the GitOps collector as one read each.                            *)
(*                                                                         *)
(* The workload is a Deployment with one pod, a claim it mounts, a node, a     *)
(* service, an autoscaler and a Kustomization; service, autoscaler and        *)
(* Kustomization carry the name of the Deployment, as they commonly do.       *)
(* The cluster belongs to Kubernetes: how it changes is not code of the       *)
(* repository.  A world is a record:                                         *)
(*   pod       state of the pod and its one container                         *)
(*   restarts  restart count, counted up to 2                                  *)
(*   limited   the container has requests and a memory limit                   *)
(*   claim     phase of the claim, "none" if the pod mounts none               *)
(*   node      pressure conditions of the node that are True                   *)
(*   dns       coreDNS: "up", "down", "hidden" if it may not be read            *)
(*   routed    the service has a ready endpoint                                *)
(*   hpa       "below" its maximum, "pinned" there, "easing" off it            *)
(*   events    reasons of the events still in the window                       *)
(*   kills     OOMKilling events on the pod in the window, counted up to 2        *)
(*   commit    time of the commit that touched the manifests, 0 if none         *)
(*   gitops    "none", "fine" or "troubled"                                    *)
(***************************************************************************)
EXTENDS Integers, FiniteSets

CONSTANTS
  App, Pod, ReplicaSet, Claim, Node, Dns,  \* names
  started,      \* when the pod started
  failed        \* when its container last terminated

ASSUME TimesAssumption == started \in Nat /\ failed \in Nat /\ 0 < started /\ started < failed

PodRef == <<"pod", Pod>>
RsRef == <<"replicaset", ReplicaSet>>
AppRef == <<"deployment", App>>
ClaimRef == <<"pvc", Claim>>
ServiceRef == <<"service", App>>
HpaRef == <<"hpa", App>>
NodeRef == <<"node", Node>>
DnsRef == <<"deployment", Dns>>
KustomizationRef == <<"kustomization", App>>

PodStates == {"unscheduled", "creating", "pulling", "running", "unready", "crashed",
              "oom", "backoff"}
EventReasons == {"FailedScheduling", "Unhealthy", "Failed", "FailedBinding"}

Worlds ==
  [pod : PodStates, restarts : 0..2, limited : BOOLEAN,
   claim : {"none", "Pending", "Bound", "Lost"},
   node : SUBSET {"MemoryPressure", "DiskPressure"},
   dns : {"up", "down", "hidden"}, routed : BOOLEAN,
   hpa : {"below", "pinned", "easing"}, events : SUBSET EventReasons, kills : 0..2,
   commit : Nat, gitops : {"none", "fine", "troubled"}]

-------------------------------------------------------------------------------
(* How the cluster changes: one step of the scheduler, the kubelet or a        *)
(* controller.  The endpoints follow the pod in a step of their own, and an    *)
(* event leaves the window in a step of its own.                              *)

More(n) == IF n < 2 THEN n + 1 ELSE 2

PodShifts(w) ==
  LET To(s) == {[w EXCEPT !.pod = s]}
      ToWith(s, e) == {[w EXCEPT !.pod = s, !.events = @ \cup {e}]}
      \* The kubelet may record a kill or not.
      Kill == To("oom") \cup {[w EXCEPT !.pod = "oom", !.kills = More(@)]}
  IN  CASE w.pod = "unscheduled" -> ToWith("unscheduled", "FailedScheduling")
                   \cup (IF w.claim \in {"none", "Bound"} THEN To("creating") ELSE {})
        [] w.pod = "creating" -> To("running") \cup To("pulling")
        [] w.pod = "pulling"  -> To("running")
                   \cup (IF w.dns = "down" THEN ToWith("pulling", "Failed") ELSE {})
        [] w.pod = "running"  -> ToWith("unready", "Unhealthy") \cup To("crashed") \cup Kill
        [] w.pod = "unready"  -> To("running") \cup To("crashed") \cup Kill
        [] w.pod \in {"crashed", "oom"} -> To("backoff")
        [] w.pod = "backoff"  -> {[w EXCEPT !.pod = "running", !.restarts = More(@)]}

ClaimShifts(w) ==
  CASE w.claim = "Pending" -> {[w EXCEPT !.claim = "Bound"],
                               [w EXCEPT !.events = @ \cup {"FailedBinding"}]}
    [] w.claim = "Bound"   -> {[w EXCEPT !.claim = "Lost"]}
    [] OTHER               -> {}

AroundShifts(w) ==
  {[w EXCEPT !.node = n] : n \in SUBSET {"MemoryPressure", "DiskPressure"}}
  \cup {[w EXCEPT !.dns = d] : d \in IF w.dns = "hidden" THEN {} ELSE {"up", "down"}}
  \cup {[w EXCEPT !.hpa = h] : h \in {"below", "pinned", "easing"}}
  \cup {[w EXCEPT !.routed = (w.pod = "running")]}
  \cup {[w EXCEPT !.events = @ \ {e}] : e \in w.events}
  \cup {[w EXCEPT !.kills = k] : k \in {w.kills - 1} \cap Nat}

Shifts(w) == (PodShifts(w) \cup ClaimShifts(w) \cup AroundShifts(w)) \ {w}

\* Nothing is wrong and no event of an earlier fault is left in the window.
Healthy(w) ==
  /\ w.pod = "running" /\ w.routed
  /\ w.claim \in {"none", "Bound"} /\ w.node = {} /\ w.dns # "down"
  /\ w.hpa = "below" /\ w.events = {} /\ w.kills = 0

-------------------------------------------------------------------------------
(* Observations.  n is the restart count of a container, 1 if a pod has a      *)
(* node, if a container has requests or if an event speaks of DNS, and 0        *)
(* elsewhere; at is the timestamp where an analyzer compares it, and tells       *)
(* events of one reason apart.                                               *)

Obs(k, r, v, n, at) == [kind |-> k, on |-> r, val |-> v, n |-> n, at |-> at]

Bit(b) == IF b THEN 1 ELSE 0

Phase(w) ==
  IF w.pod \in {"unscheduled", "creating", "pulling"} THEN "Pending" ELSE "Running"

\* The state of the container; without a status the phase is the reason to wait.
ContainerState(w) ==
  LET Of(k, v, at) == {Obs(k, PodRef, v, w.restarts, at)}
  IN  CASE w.pod = "unscheduled" -> Of("container.waiting", "Pending", started)
        [] w.pod = "creating"    -> Of("container.waiting", "ContainerCreating", started)
        [] w.pod = "pulling"     -> Of("container.waiting", "ImagePullBackOff", started)
        [] w.pod = "backoff"     -> Of("container.waiting", "CrashLoopBackOff", started)
        [] w.pod = "crashed"     -> Of("container.terminated", "Error", failed)
        [] w.pod = "oom"         -> Of("container.terminated", "OOMKilled", failed)
        [] OTHER                 -> Of("container.running", "", started)

\* One GET of the pod: its state, and the spec and the state of its container.
PodObservations(w) ==
  {Obs("pod.state", PodRef, Phase(w), Bit(w.pod # "unscheduled"), started),
   Obs("container.spec", PodRef, IF w.limited THEN "limited" ELSE "unlimited",
       Bit(w.limited), started)}
  \cup ContainerState(w)

OwnerChain ==
  {Obs("resource.owner", PodRef, "ReplicaSet", 0, started),
   Obs("resource.owner", RsRef, "Deployment", 0, started)}

\* A deployment is observed whether or not it changed, at the time of its creation.
DeploymentState(r, available) == Obs("deployment.state", r, available, 0, 1)

Event(r, reason) == Obs("event.recorded", r, reason, Bit(reason = "Failed"), failed)

PodEvents(w) == {Event(PodRef, e) : e \in w.events \ {"FailedBinding"}}
                \cup {Obs("event.recorded", PodRef, "OOMKilling", 0, k) : k \in 1..w.kills}

\* The owner reference of the pod is followed to its Deployment, which is read.
ControllerState == DeploymentState(AppRef, "up")

\* The claim and the events on it, which are listed without a window.
ClaimObservations(w) ==
  IF w.claim = "none"
  THEN {}
  ELSE {Obs("pvc.state", ClaimRef, w.claim, 0, 1)}
         \cup {Event(ClaimRef, e) : e \in w.events \cap {"FailedBinding"}}

ServiceObservations(w) ==
  {Obs("service.state", ServiceRef, IF w.routed THEN "ready" ELSE "empty", 0, 1)}

HpaObservations(w) ==
  {Obs("hpa.state", HpaRef, IF w.hpa = "below" THEN "below" ELSE "atMax",
       Bit(w.hpa = "easing"), 1)}

NodeObservations(w) == {Obs("node.condition", NodeRef, c, 0, 1) : c \in w.node}

DnsObservations(w) ==
  IF w.dns = "hidden" THEN {} ELSE {DeploymentState(DnsRef, w.dns)}

-------------------------------------------------------------------------------
(* The calls of a pass, in order. *)

Calls == <<"deployment", "pod", "owners", "controller", "claim", "services", "autoscaler",
           "events", "node", "coredns", "git", "gitops">>

\* The names git matches file names against: the target, and the owners and
\* deployments the Kubernetes collector has reported.
KnowsApp(target, O) ==
  \/ target = AppRef
  \/ \E o \in O : \/ o.kind = "resource.owner" /\ o.on = RsRef
                  \/ o.kind = "deployment.state" /\ o.on = AppRef

\* A commit is reported on the target, whichever name its files matched.
GitObservations(w, target, O) ==
  IF w.commit # 0 /\ KnowsApp(target, O)
  THEN {Obs("git.commit", target, "", 0, w.commit)}
  ELSE {}

\* scopeRelatesTo holds of every object in the namespace of the target.
GitOpsObservations(w) ==
  IF w.gitops = "none"
  THEN {}
  ELSE {Obs("gitops.state", KustomizationRef, w.gitops, 0, 1)}

\* What a call that succeeds adds to the observations O of the pass.
Reads(call, w, target, O) ==
  CASE call = "deployment" -> IF target = AppRef THEN {DeploymentState(AppRef, "up")} ELSE {}
    [] call = "pod"        -> PodObservations(w)
    [] call = "owners"     -> OwnerChain
    [] call = "controller" -> {ControllerState}
    [] call = "claim"      -> ClaimObservations(w)
    [] call = "services"   -> ServiceObservations(w)
    [] call = "autoscaler" -> HpaObservations(w)
    [] call = "events"     -> PodEvents(w)
    [] call = "node"       -> IF \E o \in O : o.kind = "pod.state" /\ o.n = 1
                              THEN NodeObservations(w) ELSE {}
    [] call = "coredns"    -> DnsObservations(w)
    [] call = "git"        -> GitObservations(w, target, O)
    [] call = "gitops"     -> GitOpsObservations(w)

\* What it may add when a request of it fails: the owner the pod itself names, the
\* claim without its events, the service as one without endpoints, or nothing.
LeftOf(call, w) ==
  CASE call = "owners"   -> {{o \in OwnerChain : o.on = PodRef}}
    [] call = "claim"    -> {{}, {o \in ClaimObservations(w) : o.kind = "pvc.state"}}
    [] call = "services" -> {{}, {Obs("service.state", ServiceRef, "empty", 0, 1)}}
    [] OTHER             -> {{}}

\* Where a pass goes on after a call failed.  The target itself must be read, or
\* the Kubernetes collector gives up with what it has; a pod of a deployment is
\* skipped; every other call is left out.
AfterSuccess(call) ==
  LET i == CHOOSE i \in DOMAIN Calls : Calls[i] = call
  IN  IF call = "gitops" THEN "analyze" ELSE Calls[i + 1]

AfterFailure(call, target) ==
  CASE call = "deployment"               -> "git"
    [] call = "pod" /\ target = PodRef   -> "git"
    [] call = "pod" /\ target = AppRef   -> "coredns"
    [] OTHER                             -> AfterSuccess(call)

===============================================================================
