---------------------------- MODULE DiagnosisProofs ----------------------------
(***************************************************************************)
(* What a pass reads of a workload that changes meanwhile, and what its       *)
(* report says then: for all worlds, names and numbers of changes and of      *)
(* failing calls.                                                            *)
(***************************************************************************)
EXTENDS Diagnosis, HypothesisProofs, SequenceTheorems

-------------------------------------------------------------------------------
(* What the calls read. *)

PodKinds == {"pod.state", "container.spec", "container.waiting", "container.terminated",
             "container.running"}

\* What was read of the pod and its container.
OfThePod(O) == {o \in O : o.kind \in PodKinds}

\* What an observation of its kind is about.
Placed(o) ==
  /\ o.kind \in PodKinds => o.on = PodRef
  /\ o.kind = "event.recorded" => \/ o.on = PodRef
                                  \/ o.on = ClaimRef /\ o.val = "FailedBinding"
  /\ o.kind = "git.commit" => o.on \in {PodRef, AppRef}
  /\ o.kind = "gitops.state" => o.on = KustomizationRef
  /\ o.kind = "node.condition" => o.on = NodeRef /\ o.val \in {"MemoryPressure", "DiskPressure"}
  /\ o.kind = "pvc.state" => o.on = ClaimRef

\* An observation of something that works.
Calm(o) ==
  /\ o.kind \notin {"container.terminated", "container.waiting", "node.condition",
                    "event.recorded"}
  /\ o.kind = "pod.state" => o.val = "Running"
  /\ o.kind = "pvc.state" => o.val = "Bound"
  /\ o.kind = "service.state" => o.val = "ready"
  /\ o.kind = "hpa.state" => o.val = "below"
  /\ o.kind = "deployment.state" => o.val = "up"

\* What a failed GET of the Endpoints leaves.
Unread == Obs("service.state", ServiceRef, "empty", 0, 1)

CallSet == {"deployment", "pod", "owners", "controller", "claim", "services", "autoscaler",
            "events", "node", "coredns", "git", "gitops"}

LEMMA CallsAre == {Calls[i] : i \in DOMAIN Calls} = CallSet
<1>1. DOMAIN Calls = 1..12
  BY DEF Calls
<1>2. /\ Calls[1] = "deployment" /\ Calls[2] = "pod" /\ Calls[3] = "owners"
      /\ Calls[4] = "controller" /\ Calls[5] = "claim" /\ Calls[6] = "services"
      /\ Calls[7] = "autoscaler" /\ Calls[8] = "events" /\ Calls[9] = "node"
      /\ Calls[10] = "coredns" /\ Calls[11] = "git" /\ Calls[12] = "gitops"
  BY DEF Calls
<1>3. \A i \in 1..12 : \/ i = 1 \/ i = 2 \/ i = 3 \/ i = 4 \/ i = 5 \/ i = 6 \/ i = 7
                       \/ i = 8 \/ i = 9 \/ i = 10 \/ i = 11 \/ i = 12
  OBVIOUS
<1>4. ASSUME NEW i \in DOMAIN Calls PROVE Calls[i] \in CallSet
  BY <1>1, <1>2, <1>3 DEF CallSet
<1>5. ASSUME NEW c \in CallSet PROVE \E i \in DOMAIN Calls : Calls[i] = c
  BY <1>1, <1>2 DEF CallSet
<1> QED BY <1>4, <1>5

\* Once the pod was read or given up, no call reads it again.
LEMMA CallsGoOn ==
  ASSUME NEW c \in CallSet, NEW t \in {PodRef, AppRef}
  PROVE  /\ AfterSuccess(c) \in CallSet \cup {"analyze"}
         /\ AfterSuccess(c) # "deployment"
         /\ c # "deployment" => AfterSuccess(c) # "pod"
         /\ AfterFailure(c, t) \in CallSet \cup {"analyze"}
         /\ AfterFailure(c, t) \notin {"deployment", "pod"}
<1>1. /\ Calls[1] = "deployment" /\ Calls[2] = "pod" /\ Calls[3] = "owners"
      /\ Calls[4] = "controller" /\ Calls[5] = "claim" /\ Calls[6] = "services"
      /\ Calls[7] = "autoscaler" /\ Calls[8] = "events" /\ Calls[9] = "node"
      /\ Calls[10] = "coredns" /\ Calls[11] = "git" /\ Calls[12] = "gitops"
  BY DEF Calls
<1>2. DOMAIN Calls = 1..12
  BY DEF Calls
<1>3. \A i \in 1..12 : \/ i = 1 \/ i = 2 \/ i = 3 \/ i = 4 \/ i = 5 \/ i = 6 \/ i = 7
                       \/ i = 8 \/ i = 9 \/ i = 10 \/ i = 11 \/ i = 12
  OBVIOUS
<1>4. PICK i \in 1..12 : Calls[i] = c /\ i = CHOOSE j \in DOMAIN Calls : Calls[j] = c
  BY <1>2, CallsAre
<1>5. AfterSuccess(c) = IF c = "gitops" THEN "analyze" ELSE Calls[i + 1]
  BY <1>4 DEF AfterSuccess
<1>6. (c # "gitops" => i # 12) /\ (c # "deployment" => i # 1)
  BY <1>1, <1>4
<1>7. c # "gitops" => /\ i + 1 \in 2..12
                      /\ c # "deployment" => i + 1 \in 3..12
  <2>1. i # 12 => i + 1 \in 2..12
    OBVIOUS
  <2>2. i # 12 /\ i # 1 => i + 1 \in 3..12
    OBVIOUS
  <2> QED BY <1>6, <2>1, <2>2
<1>8. /\ \A j \in 2..12 : Calls[j] \in CallSet /\ Calls[j] # "deployment"
      /\ \A j \in 3..12 : Calls[j] # "pod"
  <2>1. \A j \in 2..12 : j \in 1..12 /\ j # 1
    OBVIOUS
  <2>2. \A j \in 3..12 : j \in 1..12 /\ j # 1 /\ j # 2
    OBVIOUS
  <2> QED BY <1>1, <1>3, <2>1, <2>2 DEF CallSet
<1>9. /\ AfterSuccess(c) \in CallSet \cup {"analyze"} /\ AfterSuccess(c) # "deployment"
      /\ c # "deployment" => AfterSuccess(c) # "pod"
  BY <1>5, <1>7, <1>8
<1>10. /\ AfterFailure(c, t) \in CallSet \cup {"analyze"}
       /\ AfterFailure(c, t) \notin {"deployment", "pod"}
  BY <1>9 DEF AfterFailure, CallSet
<1> QED BY <1>9, <1>10

LEMMA SmallSets ==
  /\ IsFiniteSet({})
  /\ \A x : IsFiniteSet({x})
  /\ \A x, y : IsFiniteSet({x, y})
  /\ \A x, y, z : IsFiniteSet({x, y, z})
<1>1. IsFiniteSet({})
  BY FS_EmptySet
<1>2. \A x : IsFiniteSet({x})
  BY FS_Singleton
<1>3. \A x, y : IsFiniteSet({x, y})
  <2>1. SUFFICES ASSUME NEW x, NEW y PROVE IsFiniteSet({x, y})
    OBVIOUS
  <2>2. IsFiniteSet({x} \cup {y})
    BY <1>2, FS_AddElement
  <2>3. {x, y} = {x} \cup {y}
    OBVIOUS
  <2> QED BY <2>2, <2>3
<1>4. \A x, y, z : IsFiniteSet({x, y, z})
  <2>1. SUFFICES ASSUME NEW x, NEW y, NEW z PROVE IsFiniteSet({x, y, z})
    OBVIOUS
  <2>2. IsFiniteSet({x, y} \cup {z})
    BY <1>3, FS_AddElement
  <2>3. {x, y, z} = {x, y} \cup {z}
    OBVIOUS
  <2> QED BY <2>2, <2>3
<1> QED BY <1>1, <1>2, <1>3, <1>4

\* What a function takes a finite set to is finite.
LEMMA ImageFinite ==
  ASSUME NEW S, IsFiniteSet(S), NEW f
  PROVE  IsFiniteSet({f[x] : x \in S})
<1> DEFINE T == {f[x] : x \in S}
           g == [x \in S |-> f[x]]
<1>1. g \in [S -> T] /\ \A y \in T : \E x \in S : g[x] = y
  OBVIOUS
<1>2. g \in Surjection(S, T)
  <2> HIDE DEF g, T
  <2> QED BY <1>1, Fun_IsSurj
<1> HIDE DEF g, T
<1>3. IsFiniteSet(T)
  BY <1>2, FS_Surjection
<1> QED BY <1>3 DEF T

\* The events of a world.
LEMMA EventsAre ==
  ASSUME NEW w \in Worlds, NEW r, NEW E \in SUBSET w.events
  PROVE  /\ IsFiniteSet({Event(r, e) : e \in E})
         /\ \A o \in {Event(r, e) : e \in E} : o.kind = "event.recorded" /\ o.on = r
         /\ Healthy(w) => E = {}
<1>1. w.events \in SUBSET EventReasons
  BY DEF Worlds
<1>2. IsFiniteSet(EventReasons)
  <2>1. EventReasons = {"FailedScheduling", "Unhealthy", "Failed"} \cup {"FailedBinding"}
    BY DEF EventReasons
  <2>2. IsFiniteSet({"FailedScheduling", "Unhealthy", "Failed"} \cup {"FailedBinding"})
    BY SmallSets, FS_AddElement
  <2> QED BY <2>1, <2>2
<1>3. IsFiniteSet(E)
  BY <1>1, <1>2, FS_Subset
<1>4. IsFiniteSet({Event(r, e) : e \in E})
  <2> DEFINE f == [e \in E |-> Event(r, e)]
  <2>1. {Event(r, e) : e \in E} = {f[e] : e \in E}
    OBVIOUS
  <2> HIDE DEF f
  <2> QED BY <1>3, <2>1, ImageFinite
<1>5. \A e \in E : Event(r, e).kind = "event.recorded" /\ Event(r, e).on = r
  BY DEF Event, Obs
<1>6. Healthy(w) => E = {}
  BY DEF Healthy
<1> QED BY <1>4, <1>5, <1>6

\* The events on the pod.
LEMMA PodEventsAre ==
  ASSUME NEW w \in Worlds
  PROVE  /\ IsFiniteSet(PodEvents(w))
         /\ \A o \in PodEvents(w) : o.kind = "event.recorded" /\ o.on = PodRef
         /\ Healthy(w) => PodEvents(w) = {}
<1> DEFINE E == w.events \ {"FailedBinding"}
           T == {Event(PodRef, e) : e \in E}
           f == [k \in 1..w.kills |-> Obs("event.recorded", PodRef, "OOMKilling", 0, k)]
           K == {f[k] : k \in 1..w.kills}
<1>1. PodEvents(w) = T \cup K
  BY DEF PodEvents
<1>2. E \in SUBSET w.events
  OBVIOUS
<1>3. /\ IsFiniteSet(T) /\ \A o \in T : o.kind = "event.recorded" /\ o.on = PodRef
      /\ Healthy(w) => T = {}
  <2>1. /\ IsFiniteSet(T) /\ \A o \in T : o.kind = "event.recorded" /\ o.on = PodRef
        /\ Healthy(w) => E = {}
    <3> HIDE DEF E
    <3> QED BY <1>2, EventsAre
  <2> QED BY <2>1
<1>4. w.kills \in 0..2
  BY DEF Worlds
<1>5. IsFiniteSet(K)
  <2>1. IsFiniteSet(1..w.kills)
    BY <1>4, FS_Interval
  <2> HIDE DEF f
  <2> QED BY <2>1, ImageFinite
<1>6. \A o \in K : o.kind = "event.recorded" /\ o.on = PodRef
  <2>1. \A k \in 1..w.kills : f[k].kind = "event.recorded" /\ f[k].on = PodRef
    BY DEF Obs
  <2> HIDE DEF f
  <2> QED BY <2>1
<1>7. Healthy(w) => K = {}
  BY <1>4 DEF Healthy
<1> HIDE DEF T, K
<1> QED BY <1>1, <1>3, <1>5, <1>6, <1>7, FS_Union

\* Every observation of a call is about what its kind says, the pod is read by one
\* call, and of a healthy world only calm observations are made.
LEMMA ReadsAre ==
  ASSUME NEW w \in Worlds, NEW t \in {PodRef, AppRef}, NEW O, NEW c \in CallSet
  PROVE  /\ IsFiniteSet(Reads(c, w, t, O))
         /\ \A o \in Reads(c, w, t, O) :
              /\ Placed(o)
              /\ c # "pod" => o.kind \notin PodKinds
              /\ Healthy(w) => Calm(o)
<1> DEFINE Fine(o) == /\ Placed(o)
                      /\ o.kind \notin PodKinds
                      /\ Healthy(w) => Calm(o)
           Good(S) == IsFiniteSet(S) /\ \A o \in S : Fine(o)
<1>1. Good({})
  BY SmallSets
<1>2. \A o : Fine(o) => Good({o})
  <2> HIDE DEF Fine
  <2> QED BY SmallSets
<1>3. \A S, T : Good(S) /\ Good(T) => Good(S \cup T)
  <2> HIDE DEF Fine
  <2> QED BY FS_Union
<1>4. c = "deployment" => Good(Reads(c, w, t, O))
  <2>1. Fine(DeploymentState(AppRef, "up"))
    BY DEF DeploymentState, Obs, Placed, Calm, PodKinds
  <2>2. c = "deployment" =>
          Reads(c, w, t, O) = {DeploymentState(AppRef, "up")} \/ Reads(c, w, t, O) = {}
    BY DEF Reads
  <2> HIDE DEF Fine
  <2> QED BY <1>1, <1>2, <2>1, <2>2
<1>5. c = "owners" => Good(Reads(c, w, t, O))
  <2> DEFINE p == Obs("resource.owner", PodRef, "ReplicaSet", 0, started)
             r == Obs("resource.owner", RsRef, "Deployment", 0, started)
  <2>1. Fine(p) /\ Fine(r)
    BY DEF Obs, Placed, Calm, PodKinds
  <2>2. c = "owners" => Reads(c, w, t, O) = {p} \cup {r}
    BY DEF Reads, OwnerChain
  <2> HIDE DEF Fine, p, r, Good
  <2> QED BY <1>2, <1>3, <2>1, <2>2
<1>6. c = "controller" => Good(Reads(c, w, t, O))
  <2>1. Fine(ControllerState)
    BY DEF ControllerState, DeploymentState, Obs, Placed, Calm, PodKinds
  <2>2. c = "controller" => Reads(c, w, t, O) = {ControllerState}
    BY DEF Reads
  <2> HIDE DEF Fine
  <2> QED BY <1>2, <2>1, <2>2
<1>7. c = "claim" => Good(Reads(c, w, t, O))
  <2> DEFINE p == Obs("pvc.state", ClaimRef, w.claim, 0, 1)
             E == w.events \cap {"FailedBinding"}
             T == {Event(ClaimRef, e) : e \in E}
  <2>1. w.claim # "none" => Fine(p)
    BY DEF Obs, Placed, Calm, PodKinds, Healthy
  <2>2. Good(T)
    <3>1. E \in SUBSET w.events
      OBVIOUS
    <3>2. \A o \in T : o.val = "FailedBinding"
      BY DEF Event, Obs
    <3>3. /\ IsFiniteSet(T) /\ \A o \in T : o.kind = "event.recorded" /\ o.on = ClaimRef
          /\ Healthy(w) => E = {}
      <4> HIDE DEF E
      <4> QED BY <3>1, EventsAre
    <3>4. Healthy(w) => T = {}
      BY <3>3
    <3> HIDE DEF T
    <3> QED BY <3>2, <3>3, <3>4 DEF Placed, PodKinds
  <2>3. c = "claim" => \/ Reads(c, w, t, O) = {}
                       \/ w.claim # "none" /\ Reads(c, w, t, O) = {p} \cup T
    BY DEF Reads, ClaimObservations
  <2> HIDE DEF Fine, Good, p, T
  <2> QED BY <1>1, <1>2, <1>3, <2>1, <2>2, <2>3
<1>8. c = "services" => Good(Reads(c, w, t, O))
  <2> DEFINE p == Obs("service.state", ServiceRef, IF w.routed THEN "ready" ELSE "empty", 0, 1)
  <2>1. Fine(p)
    BY DEF Obs, Placed, Calm, PodKinds, Healthy
  <2>2. c = "services" => Reads(c, w, t, O) = {p}
    BY DEF Reads, ServiceObservations
  <2> HIDE DEF Fine, Good, p
  <2> QED BY <1>2, <2>1, <2>2
<1>9. c = "autoscaler" => Good(Reads(c, w, t, O))
  <2> DEFINE p == Obs("hpa.state", HpaRef, IF w.hpa = "below" THEN "below" ELSE "atMax",
                      Bit(w.hpa = "easing"), 1)
  <2>1. Fine(p)
    BY DEF Obs, Placed, Calm, PodKinds, Healthy
  <2>2. c = "autoscaler" => Reads(c, w, t, O) = {p}
    BY DEF Reads, HpaObservations
  <2> HIDE DEF Fine, Good, p
  <2> QED BY <1>2, <2>1, <2>2
<1>10. c = "events" => Good(Reads(c, w, t, O))
  <2> DEFINE T == PodEvents(w)
  <2>1. /\ IsFiniteSet(T) /\ \A o \in T : o.kind = "event.recorded" /\ o.on = PodRef
        /\ Healthy(w) => T = {}
    BY PodEventsAre
  <2>2. c = "events" => Reads(c, w, t, O) = T
    BY DEF Reads
  <2> HIDE DEF T
  <2> QED BY <2>1, <2>2 DEF Placed, PodKinds
<1>11. c = "node" => Good(Reads(c, w, t, O))
  <2>1. Good(NodeObservations(w))
    <3>1. w.node \in SUBSET {"MemoryPressure", "DiskPressure"}
      BY DEF Worlds
    <3>2. IsFiniteSet(w.node)
      BY <3>1, SmallSets, FS_Subset
    <3> DEFINE f == [x \in w.node |-> Obs("node.condition", NodeRef, x, 0, 1)]
    <3>3. NodeObservations(w) = {f[x] : x \in w.node}
      BY DEF NodeObservations
    <3>4. IsFiniteSet(NodeObservations(w))
      <4> HIDE DEF f
      <4> QED BY <3>2, <3>3, ImageFinite
    <3>5. Healthy(w) => NodeObservations(w) = {}
      BY DEF Healthy, NodeObservations
    <3>6. \A o \in NodeObservations(w) : Placed(o) /\ o.kind \notin PodKinds
      BY <3>1 DEF NodeObservations, Obs, Placed, PodKinds
    <3> QED BY <3>4, <3>5, <3>6
  <2>2. c = "node" => Reads(c, w, t, O) = NodeObservations(w) \/ Reads(c, w, t, O) = {}
    BY DEF Reads
  <2> HIDE DEF Good
  <2> QED BY <1>1, <2>1, <2>2
<1>12. c = "coredns" => Good(Reads(c, w, t, O))
  <2> DEFINE p == DeploymentState(DnsRef, w.dns)
  <2>1. w.dns # "hidden" => Fine(p)
    <3>1. w.dns \in {"up", "down", "hidden"}
      BY DEF Worlds
    <3> QED BY <3>1 DEF DeploymentState, Obs, Placed, Calm, PodKinds, Healthy
  <2>2. c = "coredns" => \/ Reads(c, w, t, O) = {}
                         \/ w.dns # "hidden" /\ Reads(c, w, t, O) = {p}
    BY DEF Reads, DnsObservations
  <2> HIDE DEF Fine, Good, p
  <2> QED BY <1>1, <1>2, <2>1, <2>2
<1>13. c = "git" => Good(Reads(c, w, t, O))
  <2> DEFINE p == Obs("git.commit", t, "", 0, w.commit)
  <2>1. Fine(p)
    BY DEF Obs, Placed, Calm, PodKinds
  <2>2. c = "git" => Reads(c, w, t, O) = {} \/ Reads(c, w, t, O) = {p}
    BY DEF Reads, GitObservations
  <2> HIDE DEF Fine, Good, p
  <2> QED BY <1>1, <1>2, <2>1, <2>2
<1>14. c = "gitops" => Good(Reads(c, w, t, O))
  <2> DEFINE p == Obs("gitops.state", KustomizationRef, w.gitops, 0, 1)
  <2>1. Fine(p)
    BY DEF Obs, Placed, Calm, PodKinds
  <2>2. c = "gitops" => Reads(c, w, t, O) = {} \/ Reads(c, w, t, O) = {p}
    BY DEF Reads, GitOpsObservations
  <2> HIDE DEF Fine, Good, p
  <2> QED BY <1>1, <1>2, <2>1, <2>2
<1>15. CASE c = "pod"
  <2> DEFINE s == Obs("pod.state", PodRef, Phase(w), Bit(w.pod # "unscheduled"), started)
             l == Obs("container.spec", PodRef, IF w.limited THEN "limited" ELSE "unlimited",
                      Bit(w.limited), started)
  <2>1. Reads(c, w, t, O) = {s, l} \cup ContainerState(w)
    BY <1>15 DEF Reads, PodObservations
  <2>2. PICK k, v, at : ContainerState(w) = {Obs(k, PodRef, v, w.restarts, at)} /\ k \in PodKinds
                        /\ (Healthy(w) => k = "container.running")
    <3>1. w.pod \in PodStates
      BY DEF Worlds
    <3> QED BY <3>1 DEF ContainerState, PodKinds, Healthy, PodStates
  <2> DEFINE x == Obs(k, PodRef, v, w.restarts, at)
  <2>3. Placed(x) /\ (Healthy(w) => Calm(x))
    BY <2>2 DEF Obs, Placed, Calm, PodKinds
  <2>4. Placed(s) /\ Placed(l) /\ (Healthy(w) => Calm(s) /\ Calm(l))
    BY DEF Obs, Placed, Calm, PodKinds, Healthy, Phase
  <2>5. IsFiniteSet({s, l} \cup {x})
    <3> HIDE DEF s, l, x
    <3> QED BY SmallSets, FS_AddElement
  <2> HIDE DEF s, l, x
  <2>6. Reads(c, w, t, O) = {s, l} \cup {x}
    BY <2>1, <2>2 DEF x
  <2> QED BY <1>15, <2>3, <2>4, <2>5, <2>6
<1> HIDE DEF Good
<1>16. c # "pod" => Good(Reads(c, w, t, O))
  BY <1>4, <1>5, <1>6, <1>7, <1>8, <1>9, <1>10, <1>11, <1>12, <1>13, <1>14 DEF CallSet
<1> QED BY <1>15, <1>16 DEF Good

\* What a call leaves that fails.
LEMMA LeftIsRead ==
  ASSUME NEW w \in Worlds, NEW t \in {PodRef, AppRef}, NEW O, NEW c \in CallSet,
         NEW left \in LeftOf(c, w)
  PROVE  /\ left \subseteq Reads(c, w, t, O) \cup {Unread}
         /\ c # "services" => left \subseteq Reads(c, w, t, O)
         /\ c = "pod" => left = {}
<1>1. CASE c = "owners"
  BY <1>1 DEF LeftOf, Reads
<1>2. CASE c = "claim"
  BY <1>2 DEF LeftOf, Reads
<1>3. CASE c = "services"
  BY <1>3 DEF LeftOf, Unread
<1>4. CASE c \notin {"owners", "claim", "services"}
  <2>1. left = {}
    BY <1>4 DEF LeftOf
  <2> QED BY <2>1
<1> QED BY <1>1, <1>2, <1>3, <1>4

LEMMA UnreadIs ==
  Placed(Unread) /\ Unread.kind = "service.state" /\ Unread.kind \notin PodKinds
BY DEF Unread, Obs, Placed, PodKinds

\* The cluster stays a cluster.
LEMMA ShiftsStay ==
  ASSUME NEW w \in Worlds
  PROVE  Shifts(w) \subseteq Worlds
<1>1. PodShifts(w) \subseteq Worlds
  <2>1. \A s \in PodStates : [w EXCEPT !.pod = s] \in Worlds
    BY DEF Worlds
  <2>2. \A s \in PodStates, e \in EventReasons :
          [w EXCEPT !.pod = s, !.events = @ \cup {e}] \in Worlds
    BY DEF Worlds
  <2>3. /\ [w EXCEPT !.pod = "running", !.restarts = More(@)] \in Worlds
        /\ [w EXCEPT !.pod = "oom", !.kills = More(@)] \in Worlds
    <3>1. More(w.restarts) \in 0..2 /\ More(w.kills) \in 0..2
      BY DEF More, Worlds
    <3> QED BY <3>1 DEF Worlds, PodStates
  <2>4. {"FailedScheduling", "Failed", "Unhealthy"} \subseteq EventReasons
    BY DEF EventReasons
  <2>5. w.pod \in PodStates
    BY DEF Worlds
  <2> DEFINE To(s) == [w EXCEPT !.pod = s]
             ToWith(s, e) == [w EXCEPT !.pod = s, !.events = @ \cup {e}]
             Again == [w EXCEPT !.pod = "running", !.restarts = More(@)]
             Kill == [w EXCEPT !.pod = "oom", !.kills = More(@)]
  <2>6. ASSUME NEW v \in PodShifts(w)
        PROVE  \/ v = Kill
               \/ \E s \in PodStates : v = To(s)
               \/ \E s \in PodStates, e \in EventReasons : v = ToWith(s, e)
               \/ v = Again
    <3>1. w.pod = "unscheduled" => v \in {ToWith("unscheduled", "FailedScheduling"), To("creating")}
      BY <2>6 DEF PodShifts
    <3>2. w.pod = "creating" => v \in {To("running"), To("pulling")}
      BY <2>6 DEF PodShifts
    <3>3. w.pod = "pulling" => v \in {To("running"), ToWith("pulling", "Failed")}
      BY <2>6 DEF PodShifts
    <3>4. w.pod = "running" => v \in {ToWith("unready", "Unhealthy"), To("crashed"), To("oom"), Kill}
      BY <2>6 DEF PodShifts
    <3>5. w.pod = "unready" => v \in {To("running"), To("crashed"), To("oom"), Kill}
      BY <2>6 DEF PodShifts
    <3>6. w.pod \in {"crashed", "oom"} => v = To("backoff")
      BY <2>6 DEF PodShifts
    <3>7. w.pod = "backoff" => v = Again
      BY <2>6 DEF PodShifts
    <3> HIDE DEF To, ToWith, Again, Kill
    <3> QED BY <2>4, <2>5, <3>1, <3>2, <3>3, <3>4, <3>5, <3>6, <3>7 DEF PodStates
  <2>7. /\ \A s \in PodStates : To(s) \in Worlds
        /\ \A s \in PodStates, e \in EventReasons : ToWith(s, e) \in Worlds
        /\ Again \in Worlds /\ Kill \in Worlds
    BY <2>1, <2>2, <2>3
  <2> HIDE DEF To, ToWith, Again, Kill
  <2> QED BY <2>6, <2>7
<1>2. ClaimShifts(w) \subseteq Worlds
  BY DEF ClaimShifts, Worlds, EventReasons
<1>3. AroundShifts(w) \subseteq Worlds
  <2>1. \A n \in SUBSET {"MemoryPressure", "DiskPressure"} : [w EXCEPT !.node = n] \in Worlds
    BY DEF Worlds
  <2>2. \A d \in {"up", "down"} : [w EXCEPT !.dns = d] \in Worlds
    BY DEF Worlds
  <2>3. \A h \in {"below", "pinned", "easing"} : [w EXCEPT !.hpa = h] \in Worlds
    BY DEF Worlds
  <2>4. [w EXCEPT !.routed = (w.pod = "running")] \in Worlds
    BY DEF Worlds
  <2>5. \A e : [w EXCEPT !.events = @ \ {e}] \in Worlds
    BY DEF Worlds
  <2>6. \A k \in {w.kills - 1} \cap Nat : [w EXCEPT !.kills = k] \in Worlds
    <3>1. \A k \in {w.kills - 1} \cap Nat : k \in 0..2
      BY DEF Worlds
    <3>2. \A k \in 0..2 : [w EXCEPT !.kills = k] \in Worlds
      BY DEF Worlds
    <3> QED BY <3>1, <3>2
  <2> QED BY <2>1, <2>2, <2>3, <2>4, <2>5, <2>6 DEF AroundShifts
<1> QED BY <1>1, <1>2, <1>3 DEF Shifts

-------------------------------------------------------------------------------
(* The pass. *)

Typed ==
  /\ world \in Worlds /\ moments \subseteq Worlds
  /\ shifts \in 0..MaxShifts /\ lost \in 0..MaxLost
  /\ target \in {PodRef, AppRef}
  /\ pc \in CallSet \cup {"idle", "analyze", "report"}

\* While the pass goes on, the moments are those since it began.
Watched ==
  /\ pc = "idle" => obs = {}
  /\ pc # "idle" => world \in moments

Collected == IsFiniteSet(obs) /\ \A o \in obs : Placed(o)

\* The pod is read at one moment, if at all: its container is seen in one state.
PodReadOnce ==
  /\ pc \in {"idle", "deployment", "pod"} => OfThePod(obs) = {}
  /\ OfThePod(obs) = {} \/ \E w \in moments : OfThePod(obs) = PodObservations(w)

CalmWhenHealthy ==
  (\A w \in moments : Healthy(w)) => \A o \in obs : Calm(o) \/ (lost > 0 /\ o = Unread)

ReportIsOfObs ==
  /\ pc # "report" => report = NoReport
  /\ pc = "report" => \E order \in Orders(obs) : report = ReportOf(obs, order)

IInv == Typed /\ Watched /\ Collected /\ PodReadOnce /\ CalmWhenHealthy /\ ReportIsOfObs

\* One GET of the pod reads of the pod and nothing else.
LEMMA PodIsRead ==
  ASSUME NEW w \in Worlds
  PROVE  \A o \in PodObservations(w) : o.kind \in PodKinds
<1>1. \A o \in ContainerState(w) : o.kind \in PodKinds
  <2>1. w.pod \in PodStates
    BY DEF Worlds
  <2>2. PICK k, v, at : ContainerState(w) = {Obs(k, PodRef, v, w.restarts, at)} /\ k \in PodKinds
    BY <2>1 DEF ContainerState, PodKinds, PodStates
  <2> QED BY <2>2 DEF Obs
<1>2. \A k, v, n, at : Obs(k, PodRef, v, n, at).kind = k
  BY DEF Obs
<1>3. {"pod.state", "container.spec"} \subseteq PodKinds
  BY DEF PodKinds
<1> QED BY <1>1, <1>2, <1>3 DEF PodObservations

\* What some calls add keeps what the invariant says of the observations.
LEMMA MoreIsCollected ==
  ASSUME Typed, Watched, Collected, PodReadOnce, CalmWhenHealthy, pc \in CallSet,
         NEW S, S \subseteq Reads(pc, world, target, obs) \cup {Unread},
         pc = "pod" => S \in {{}, PodObservations(world)}
  PROVE  /\ IsFiniteSet(obs \cup S) /\ \A o \in obs \cup S : Placed(o)
         /\ pc # "pod" => OfThePod(obs \cup S) = OfThePod(obs)
         /\ \/ OfThePod(obs \cup S) = {}
            \/ \E w \in moments : OfThePod(obs \cup S) = PodObservations(w)
         /\ (\A w \in moments : Healthy(w)) => \A o \in S \ {Unread} : Calm(o)
         /\ S \subseteq Reads(pc, world, target, obs) =>
              ((\A w \in moments : Healthy(w)) => \A o \in S : Calm(o))
<1>1. world \in Worlds /\ target \in {PodRef, AppRef} /\ world \in moments /\ pc # "report"
  BY DEF Typed, Watched, CallSet
<1> DEFINE R == Reads(pc, world, target, obs)
<1>2. /\ IsFiniteSet(R)
      /\ \A o \in R : /\ Placed(o)
                      /\ pc # "pod" => o.kind \notin PodKinds
                      /\ Healthy(world) => Calm(o)
  BY <1>1, ReadsAre
<1>3. S \subseteq R \cup {Unread}
  OBVIOUS
<1> HIDE DEF R
<1>4. IsFiniteSet(S)
  <2>1. IsFiniteSet(R \cup {Unread})
    BY <1>2, FS_AddElement
  <2> QED BY <1>3, <2>1, FS_Subset
<1>5. IsFiniteSet(obs \cup S) /\ \A o \in obs \cup S : Placed(o)
  BY <1>2, <1>3, <1>4, UnreadIs, FS_Union DEF Collected
<1>6. pc # "pod" => OfThePod(obs \cup S) = OfThePod(obs)
  BY <1>2, <1>3, UnreadIs DEF OfThePod
<1>7. pc = "pod" => \/ OfThePod(obs \cup S) = {}
                    \/ OfThePod(obs \cup S) = PodObservations(world)
  <2>1. pc = "pod" => OfThePod(obs) = {}
    BY DEF PodReadOnce
  <2>2. \A o \in PodObservations(world) : o.kind \in PodKinds
    BY <1>1, PodIsRead
  <2> QED BY <2>1, <2>2 DEF OfThePod
<1>8. \/ OfThePod(obs \cup S) = {}
      \/ \E w \in moments : OfThePod(obs \cup S) = PodObservations(w)
  BY <1>1, <1>6, <1>7 DEF PodReadOnce
<1>9. (\A w \in moments : Healthy(w)) => \A o \in R : Calm(o)
  BY <1>1, <1>2
<1>10. (\A w \in moments : Healthy(w)) => \A o \in S \ {Unread} : Calm(o)
  BY <1>3, <1>9
<1>11. S \subseteq R => ((\A w \in moments : Healthy(w)) => \A o \in S : Calm(o))
  BY <1>9
<1> QED BY <1>5, <1>6, <1>8, <1>10, <1>11 DEF R

\* The invariant holds when the program starts.
LEMMA Starts == Init => IInv
<1> SUFFICES ASSUME Init PROVE IInv
  OBVIOUS
<1>1. Typed
  BY DiagnosisAssumption DEF Init, Typed
<1>2. Collected
  BY SmallSets DEF Init, Collected
<1>3. Watched /\ PodReadOnce /\ CalmWhenHealthy /\ ReportIsOfObs
  BY DEF Init, Watched, PodReadOnce, OfThePod, CalmWhenHealthy, ReportIsOfObs
<1> QED BY <1>1, <1>2, <1>3 DEF IInv

\* And every step keeps it.
LEMMA Continues == IInv /\ [Next]_vars => IInv'
<1> SUFFICES ASSUME IInv, [Next]_vars PROVE IInv'
  OBVIOUS
<1> USE DEF IInv
<1>1. CASE Shift
  <2>1. Typed'
    <3>1. world' \in Worlds
      BY <1>1, ShiftsStay DEF Shift, Typed
    <3>2. shifts' \in 0..MaxShifts
      BY <1>1, DiagnosisAssumption DEF Shift, Typed
    <3> QED BY <1>1, <3>1, <3>2 DEF Shift, Typed
  <2>2. pc # "idle" => moments \subseteq moments'
    BY <1>1 DEF Shift
  <2>3. Watched' /\ Collected'
    BY <1>1, <2>2 DEF Shift, Watched, Collected
  <2>4. PodReadOnce'
    BY <1>1, <2>2 DEF Shift, PodReadOnce
  <2>5. CalmWhenHealthy'
    BY <1>1, <2>2 DEF Shift, CalmWhenHealthy, Watched
  <2>6. ReportIsOfObs'
    BY <1>1 DEF Shift, ReportIsOfObs
  <2> QED BY <2>1, <2>3, <2>4, <2>5, <2>6
<1>2. CASE Begin
  <2>1. obs = {} /\ obs' = {} /\ OfThePod(obs') = {}
    BY <1>2 DEF Begin, Watched, OfThePod
  <2>2. Typed'
    BY <1>2 DEF Begin, Typed, CallSet
  <2>3. Watched' /\ CalmWhenHealthy'
    BY <1>2, <2>1 DEF Begin, Watched, CalmWhenHealthy
  <2>4. Collected'
    BY <2>1, SmallSets DEF Collected
  <2>5. PodReadOnce'
    BY <2>1 DEF PodReadOnce
  <2>6. ReportIsOfObs'
    BY <1>2 DEF Begin, ReportIsOfObs
  <2> QED BY <2>2, <2>3, <2>4, <2>5, <2>6
<1>3. ASSUME pc \in CallSet, obs' = obs \cup Reads(pc, world, target, obs),
             pc' = AfterSuccess(pc),
             UNCHANGED <<world, shifts, target, lost, moments, report>>
      PROVE  IInv'
  <2> DEFINE S == Reads(pc, world, target, obs)
  <2>1. pc = "pod" => S = PodObservations(world)
    BY DEF Reads
  <2>2. /\ IsFiniteSet(obs \cup S) /\ \A o \in obs \cup S : Placed(o)
        /\ pc # "pod" => OfThePod(obs \cup S) = OfThePod(obs)
        /\ \/ OfThePod(obs \cup S) = {}
           \/ \E w \in moments : OfThePod(obs \cup S) = PodObservations(w)
        /\ (\A w \in moments : Healthy(w)) => \A o \in S : Calm(o)
    BY <1>3, <2>1, MoreIsCollected
  <2>3. obs' = obs \cup S
    BY <1>3
  <2> HIDE DEF S
  <2>4. /\ pc' \in CallSet \cup {"analyze"} /\ pc' # "deployment"
        /\ pc # "deployment" => pc' # "pod"
    BY <1>3, CallsGoOn DEF Typed
  <2>5. pc # "idle" /\ pc # "report" /\ pc' # "idle" /\ pc' # "report"
    BY <1>3, <2>4 DEF CallSet
  <2>6. Typed'
    BY <1>3, <2>4 DEF Typed
  <2>7. Watched'
    BY <1>3, <2>5 DEF Watched
  <2>8. Collected'
    BY <2>2, <2>3 DEF Collected
  <2>9. PodReadOnce'
    <3>1. pc = "deployment" => OfThePod(obs') = {}
      BY <2>2, <2>3 DEF PodReadOnce
    <3> QED BY <1>3, <2>2, <2>3, <2>4, <2>5, <3>1 DEF PodReadOnce
  <2>10. CalmWhenHealthy'
    BY <1>3, <2>2, <2>3 DEF CalmWhenHealthy
  <2>11. ReportIsOfObs'
    BY <1>3, <2>5 DEF ReportIsOfObs
  <2> QED BY <2>6, <2>7, <2>8, <2>9, <2>10, <2>11
<1>4. CASE CallAnswers
  BY <1>3, <1>4, CallsAre DEF CallAnswers, Calling
<1>5. CASE CallFails
  <2>1. pc \in CallSet
    BY <1>5, CallsAre DEF CallFails, Calling
  <2>0. PICK S \in LeftOf(pc, world) : obs' = obs \cup S
    BY <1>5 DEF CallFails
  <2>2. S \subseteq Reads(pc, world, target, obs) \cup {Unread} /\ (pc = "pod" => S = {})
    BY <2>1, LeftIsRead DEF Typed
  <2>3. /\ IsFiniteSet(obs \cup S) /\ \A o \in obs \cup S : Placed(o)
        /\ \/ OfThePod(obs \cup S) = {}
           \/ \E w \in moments : OfThePod(obs \cup S) = PodObservations(w)
        /\ (\A w \in moments : Healthy(w)) => \A o \in S \ {Unread} : Calm(o)
    BY <2>1, <2>2, MoreIsCollected
  <2>4. obs' = obs \cup S
    BY <2>0
  <2>5. pc' \in CallSet \cup {"analyze"} /\ pc' \notin {"deployment", "pod"}
    BY <1>5, <2>1, CallsGoOn DEF CallFails, Typed
  <2>6. pc # "idle" /\ pc # "report" /\ pc' # "idle" /\ pc' # "report"
    BY <2>1, <2>5 DEF CallSet
  <2>7. Typed'
    <3>1. lost' \in 0..MaxLost
      BY <1>5, DiagnosisAssumption DEF CallFails, Typed
    <3> QED BY <1>5, <2>5, <3>1 DEF CallFails, Typed
  <2>8. Watched'
    BY <1>5, <2>6 DEF CallFails, Watched
  <2>9. Collected'
    BY <2>3, <2>4 DEF Collected
  <2>10. PodReadOnce'
    BY <1>5, <2>3, <2>4, <2>5, <2>6 DEF CallFails, PodReadOnce
  <2>11. CalmWhenHealthy'
    <3>1. lost' > 0 /\ moments' = moments
      BY <1>5 DEF CallFails, Typed
    <3> QED BY <2>3, <2>4, <3>1 DEF CalmWhenHealthy
  <2>12. ReportIsOfObs'
    BY <1>5, <2>6 DEF CallFails, ReportIsOfObs
  <2> QED BY <2>7, <2>8, <2>9, <2>10, <2>11, <2>12
<1>6. CASE Analyze
  <2>1. Typed' /\ Watched'
    BY <1>6 DEF Analyze, Typed, Watched
  <2>2. Collected' /\ PodReadOnce' /\ CalmWhenHealthy'
    BY <1>6 DEF Analyze, Collected, PodReadOnce, CalmWhenHealthy
  <2>3. ReportIsOfObs'
    BY <1>6 DEF Analyze, ReportIsOfObs
  <2> QED BY <2>1, <2>2, <2>3
<1>7. CASE UNCHANGED vars
  <2>1. Typed' /\ Watched' /\ Collected'
    BY <1>7 DEF vars, Typed, Watched, Collected
  <2>2. PodReadOnce' /\ CalmWhenHealthy' /\ ReportIsOfObs'
    BY <1>7 DEF vars, PodReadOnce, CalmWhenHealthy, ReportIsOfObs
  <2> QED BY <2>1, <2>2
<1> QED BY <1>1, <1>2, <1>4, <1>5, <1>6, <1>7 DEF Next

LEMMA Always == Spec => []IInv
BY Starts, Continues, PTL DEF Spec

-------------------------------------------------------------------------------
(* What the analyzers emit. *)

\* The resources an analyzer finds, in the order in which it speaks of them.
Listing(S) ==
  CHOOSE f \in [1..Cardinality(S) -> S] : \A r \in S : \E i \in DOMAIN f : f[i] = r

LEMMA ListingIs ==
  ASSUME NEW S, IsFiniteSet(S)
  PROVE  /\ Listing(S) \in [1..Cardinality(S) -> S] /\ Cardinality(S) \in Nat
         /\ \A r \in S : \E i \in DOMAIN Listing(S) : Listing(S)[i] = r
<1>1. \E f \in [1..Cardinality(S) -> S] : \A r \in S : \E i \in DOMAIN f : f[i] = r
  <2>1. PICK f \in Bijection(1..Cardinality(S), S) : TRUE
    BY FS_CardinalityType DEF ExistsBijection
  <2> QED BY <2>1 DEF Bijection, Surjection
<1> QED BY <1>1, FS_CardinalityType DEF Listing

\* One hypothesis for each resource found.
LEMMA ListingEmits ==
  ASSUME NEW S, IsFiniteSet(S), NEW X, NEW g, \A r \in S : g[r] \in X
  PROVE  [i \in DOMAIN Listing(S) |-> g[Listing(S)[i]]] \in Seq(X)
<1>1. Listing(S) \in [1..Cardinality(S) -> S] /\ Cardinality(S) \in Nat
  BY ListingIs
<1>2. [i \in DOMAIN Listing(S) |-> g[Listing(S)[i]]] \in [1..Cardinality(S) -> X]
  BY <1>1
<1> QED BY <1>1, <1>2, SeqDef

\* All that the analyzers may say of O.
Emissions(O) ==
  {Memory(O, r) : r \in Killed(O)}
  \cup {CrashLoop(O, r) : r \in Looping(O)}
  \cup {ImagePull(O, r) : r \in PullFailing(O)}
  \cup {Scheduling(O, r) : r \in Unschedulable(O)}
  \cup {NodePressure(O, r) : r \in Pressured(O)}
  \cup {Probe(O, r) : r \in Unhealthy(O)}
  \cup {ClaimUnbound(O, r) : r \in UnboundClaims(O)}
  \cup {ServiceDown(O, r) : r \in NoEndpoints(O)}
  \cup {AtMaximum(O, r) : r \in AtMax(O)}
  \cup {h \in {DnsFailure(O, DnsRef)} : DnsTrouble(O, DnsRef)}
  \cup {Regression(O, r) : r \in ChangedResources(O)}

LEMMA PlacesFinite ==
  ASSUME NEW S, IsFiniteSet(S)
  PROVE  IsFiniteSet({o.on : o \in S})
<1> DEFINE f == [o \in S |-> o.on]
<1>1. {o.on : o \in S} = {f[o] : o \in S}
  OBVIOUS
<1> HIDE DEF f
<1> QED BY <1>1, ImageFinite

LEMMA OnFinite ==
  ASSUME NEW O, IsFiniteSet(O), NEW kind, NEW vals
  PROVE  IsFiniteSet(On(O, kind, vals)) /\ IsFiniteSet(Of(O, kind))
<1> DEFINE S == {o \in O : o.kind = kind /\ o.val \in vals}
<1>1. IsFiniteSet(S) /\ IsFiniteSet(Of(O, kind))
  BY FS_Subset DEF Of
<1>2. IsFiniteSet({o.on : o \in S})
  <2> HIDE DEF S
  <2> QED BY <1>1, PlacesFinite
<1> QED BY <1>1, <1>2 DEF On

LEMMA FoundFinite ==
  ASSUME NEW O, IsFiniteSet(O)
  PROVE  /\ IsFiniteSet(Killed(O)) /\ IsFiniteSet(Looping(O)) /\ IsFiniteSet(PullFailing(O))
         /\ IsFiniteSet(Unschedulable(O)) /\ IsFiniteSet(Pressured(O))
         /\ IsFiniteSet(Unhealthy(O)) /\ IsFiniteSet(UnboundClaims(O))
         /\ IsFiniteSet(NoEndpoints(O)) /\ IsFiniteSet(AtMax(O))
         /\ IsFiniteSet(ChangedResources(O))
<1>0. IsFiniteSet(Killed(O))
  <2>1. IsFiniteSet(Kills(O))
    BY FS_Subset DEF Kills
  <2> QED BY <2>1, PlacesFinite DEF Killed
<1>1. /\ IsFiniteSet(PullFailing(O)) /\ IsFiniteSet(Pressured(O))
      /\ IsFiniteSet(Unhealthy(O)) /\ IsFiniteSet(UnboundClaims(O))
      /\ IsFiniteSet(NoEndpoints(O)) /\ IsFiniteSet(AtMax(O))
  BY OnFinite DEF PullFailing, Pressured, Unhealthy, UnboundClaims, NoEndpoints, AtMax
<1>2. IsFiniteSet(Unschedulable(O))
  BY OnFinite, FS_Union DEF Unschedulable, PendingPods
<1>3. IsFiniteSet(Looping(O))
  <2> DEFINE S == {o \in Of(O, "container.terminated") : o.val \notin NotACrash /\ o.n >= 2}
  <2>1. IsFiniteSet(S)
    BY OnFinite, FS_Subset
  <2>2. IsFiniteSet({o.on : o \in S})
    <3> HIDE DEF S
    <3> QED BY <2>1, PlacesFinite
  <2>3. IsFiniteSet(On(O, "container.waiting", {"CrashLoopBackOff"}))
    BY OnFinite
  <2>4. IsFiniteSet(On(O, "container.waiting", {"CrashLoopBackOff"}) \cup {o.on : o \in S})
    BY <2>2, <2>3, FS_Union
  <2> QED BY <2>4 DEF Looping
<1>4. IsFiniteSet(ChangedResources(O))
  <2> DEFINE S == Of(O, "git.commit") \cup Of(O, "gitops.state") \cup Of(O, "deployment.state")
  <2>1. IsFiniteSet(S)
    BY OnFinite, FS_Union
  <2>2. IsFiniteSet({o.on : o \in S})
    <3> HIDE DEF S
    <3> QED BY <2>1, PlacesFinite
  <2> QED BY <2>2, FS_EmptySet DEF ChangedResources
<1> QED BY <1>0, <1>1, <1>2, <1>3, <1>4

\* The emissions of one analyzer, a hypothesis for each resource it found.
LEMMA EachLists ==
  ASSUME NEW S, IsFiniteSet(S), NEW g, NEW X, X = {g[r] : r \in S}
  PROVE  Lists([i \in DOMAIN Listing(S) |-> g[Listing(S)[i]]], X)
<1> DEFINE s == [i \in DOMAIN Listing(S) |-> g[Listing(S)[i]]]
<1>1. /\ Listing(S) \in [1..Cardinality(S) -> S] /\ Cardinality(S) \in Nat
      /\ \A r \in S : \E i \in DOMAIN Listing(S) : Listing(S)[i] = r
  BY ListingIs
<1>2. s \in Seq(X)
  BY <1>1, ListingEmits
<1>3. ASSUME NEW x \in X PROVE \E i \in DOMAIN s : s[i] = x
  <2>1. PICK r \in S : x = g[r]
    OBVIOUS
  <2>2. PICK i \in DOMAIN Listing(S) : Listing(S)[i] = r
    BY <1>1
  <2> QED BY <2>1, <2>2
<1> QED BY <1>2, <1>3 DEF Lists

LEMMA ConcatLists ==
  ASSUME NEW X, NEW Y, NEW s, NEW t, Lists(s, X), Lists(t, Y)
  PROVE  Lists(s \o t, X \cup Y)
<1>1. s \in Seq(X \cup Y) /\ t \in Seq(X \cup Y)
  BY DEF Lists
<1>2. /\ s \o t \in Seq(X \cup Y)
      /\ Len(s \o t) = Len(s) + Len(t)
      /\ Len(s) \in Nat /\ Len(t) \in Nat
      /\ DOMAIN s = 1..Len(s) /\ DOMAIN t = 1..Len(t) /\ DOMAIN (s \o t) = 1..Len(s \o t)
      /\ \A i \in 1..Len(s) : (s \o t)[i] = s[i]
      /\ \A i \in 1..Len(t) : (s \o t)[Len(s) + i] = t[i]
  BY <1>1
<1>3. ASSUME NEW x \in X PROVE \E i \in DOMAIN (s \o t) : (s \o t)[i] = x
  <2>1. PICK i \in 1..Len(s) : s[i] = x
    BY <1>2 DEF Lists
  <2> QED BY <1>2, <2>1
<1>4. ASSUME NEW x \in Y PROVE \E i \in DOMAIN (s \o t) : (s \o t)[i] = x
  <2>1. PICK i \in 1..Len(t) : t[i] = x
    BY <1>2 DEF Lists
  <2>2. Len(s) + i \in 1..(Len(s) + Len(t))
    BY <1>2
  <2> QED BY <1>2, <2>1, <2>2
<1> QED BY <1>2, <1>3, <1>4 DEF Lists

\* The analyzers emit exactly the emissions, in whichever order the resources come.
LEMMA EmittedLists ==
  ASSUME NEW O, IsFiniteSet(O), NEW order \in Orders(O)
  PROVE  Lists(Emitted(O, DnsRef, order), Emissions(O))
<1>1. Lists(Each(Killed(O), LAMBDA r : Memory(O, r)), {Memory(O, r) : r \in Killed(O)})
  <2> DEFINE S == Killed(O)
             X == {Memory(O, r) : r \in S}
             g == [r \in S |-> Memory(O, r)]
  <2>1. X = {g[r] : r \in S}
    <3> HIDE DEF S
    <3> QED OBVIOUS
  <2>2. Each(S, LAMBDA r : Memory(O, r)) = [i \in DOMAIN Listing(S) |-> Memory(O, Listing(S)[i])]
    BY DEF Each, Listing
  <2>3. IsFiniteSet(S)
    BY FoundFinite
  <2>4. \A i \in DOMAIN Listing(S) : Listing(S)[i] \in S
    <3> HIDE DEF S
    <3> QED BY <2>3, ListingIs
  <2>5. [i \in DOMAIN Listing(S) |-> Memory(O, Listing(S)[i])]
          = [i \in DOMAIN Listing(S) |-> g[Listing(S)[i]]]
    <3> HIDE DEF S
    <3> QED BY <2>4
  <2>6. Lists([i \in DOMAIN Listing(S) |-> g[Listing(S)[i]]], X)
    <3> HIDE DEF S, g, X
    <3> QED BY <2>1, <2>3, EachLists
  <2> QED BY <2>2, <2>5, <2>6
<1>2. Lists(Each(Looping(O), LAMBDA r : CrashLoop(O, r)), {CrashLoop(O, r) : r \in Looping(O)})
  <2> DEFINE S == Looping(O)
             X == {CrashLoop(O, r) : r \in S}
             g == [r \in S |-> CrashLoop(O, r)]
  <2>1. X = {g[r] : r \in S}
    <3> HIDE DEF S
    <3> QED OBVIOUS
  <2>2. Each(S, LAMBDA r : CrashLoop(O, r)) = [i \in DOMAIN Listing(S) |-> CrashLoop(O, Listing(S)[i])]
    BY DEF Each, Listing
  <2>3. IsFiniteSet(S)
    BY FoundFinite
  <2>4. \A i \in DOMAIN Listing(S) : Listing(S)[i] \in S
    <3> HIDE DEF S
    <3> QED BY <2>3, ListingIs
  <2>5. [i \in DOMAIN Listing(S) |-> CrashLoop(O, Listing(S)[i])]
          = [i \in DOMAIN Listing(S) |-> g[Listing(S)[i]]]
    <3> HIDE DEF S
    <3> QED BY <2>4
  <2>6. Lists([i \in DOMAIN Listing(S) |-> g[Listing(S)[i]]], X)
    <3> HIDE DEF S, g, X
    <3> QED BY <2>1, <2>3, EachLists
  <2> QED BY <2>2, <2>5, <2>6
<1>3. Lists(Each(PullFailing(O), LAMBDA r : ImagePull(O, r)), {ImagePull(O, r) : r \in PullFailing(O)})
  <2> DEFINE S == PullFailing(O)
             X == {ImagePull(O, r) : r \in S}
             g == [r \in S |-> ImagePull(O, r)]
  <2>1. X = {g[r] : r \in S}
    <3> HIDE DEF S
    <3> QED OBVIOUS
  <2>2. Each(S, LAMBDA r : ImagePull(O, r)) = [i \in DOMAIN Listing(S) |-> ImagePull(O, Listing(S)[i])]
    BY DEF Each, Listing
  <2>3. IsFiniteSet(S)
    BY FoundFinite
  <2>4. \A i \in DOMAIN Listing(S) : Listing(S)[i] \in S
    <3> HIDE DEF S
    <3> QED BY <2>3, ListingIs
  <2>5. [i \in DOMAIN Listing(S) |-> ImagePull(O, Listing(S)[i])]
          = [i \in DOMAIN Listing(S) |-> g[Listing(S)[i]]]
    <3> HIDE DEF S
    <3> QED BY <2>4
  <2>6. Lists([i \in DOMAIN Listing(S) |-> g[Listing(S)[i]]], X)
    <3> HIDE DEF S, g, X
    <3> QED BY <2>1, <2>3, EachLists
  <2> QED BY <2>2, <2>5, <2>6
<1>4. Lists(Each(Unschedulable(O), LAMBDA r : Scheduling(O, r)), {Scheduling(O, r) : r \in Unschedulable(O)})
  <2> DEFINE S == Unschedulable(O)
             X == {Scheduling(O, r) : r \in S}
             g == [r \in S |-> Scheduling(O, r)]
  <2>1. X = {g[r] : r \in S}
    <3> HIDE DEF S
    <3> QED OBVIOUS
  <2>2. Each(S, LAMBDA r : Scheduling(O, r)) = [i \in DOMAIN Listing(S) |-> Scheduling(O, Listing(S)[i])]
    BY DEF Each, Listing
  <2>3. IsFiniteSet(S)
    BY FoundFinite
  <2>4. \A i \in DOMAIN Listing(S) : Listing(S)[i] \in S
    <3> HIDE DEF S
    <3> QED BY <2>3, ListingIs
  <2>5. [i \in DOMAIN Listing(S) |-> Scheduling(O, Listing(S)[i])]
          = [i \in DOMAIN Listing(S) |-> g[Listing(S)[i]]]
    <3> HIDE DEF S
    <3> QED BY <2>4
  <2>6. Lists([i \in DOMAIN Listing(S) |-> g[Listing(S)[i]]], X)
    <3> HIDE DEF S, g, X
    <3> QED BY <2>1, <2>3, EachLists
  <2> QED BY <2>2, <2>5, <2>6
<1>5. Lists(Each(Pressured(O), LAMBDA r : NodePressure(O, r)), {NodePressure(O, r) : r \in Pressured(O)})
  <2> DEFINE S == Pressured(O)
             X == {NodePressure(O, r) : r \in S}
             g == [r \in S |-> NodePressure(O, r)]
  <2>1. X = {g[r] : r \in S}
    <3> HIDE DEF S
    <3> QED OBVIOUS
  <2>2. Each(S, LAMBDA r : NodePressure(O, r)) = [i \in DOMAIN Listing(S) |-> NodePressure(O, Listing(S)[i])]
    BY DEF Each, Listing
  <2>3. IsFiniteSet(S)
    BY FoundFinite
  <2>4. \A i \in DOMAIN Listing(S) : Listing(S)[i] \in S
    <3> HIDE DEF S
    <3> QED BY <2>3, ListingIs
  <2>5. [i \in DOMAIN Listing(S) |-> NodePressure(O, Listing(S)[i])]
          = [i \in DOMAIN Listing(S) |-> g[Listing(S)[i]]]
    <3> HIDE DEF S
    <3> QED BY <2>4
  <2>6. Lists([i \in DOMAIN Listing(S) |-> g[Listing(S)[i]]], X)
    <3> HIDE DEF S, g, X
    <3> QED BY <2>1, <2>3, EachLists
  <2> QED BY <2>2, <2>5, <2>6
<1>6. Lists(Each(Unhealthy(O), LAMBDA r : Probe(O, r)), {Probe(O, r) : r \in Unhealthy(O)})
  <2> DEFINE S == Unhealthy(O)
             X == {Probe(O, r) : r \in S}
             g == [r \in S |-> Probe(O, r)]
  <2>1. X = {g[r] : r \in S}
    <3> HIDE DEF S
    <3> QED OBVIOUS
  <2>2. Each(S, LAMBDA r : Probe(O, r)) = [i \in DOMAIN Listing(S) |-> Probe(O, Listing(S)[i])]
    BY DEF Each, Listing
  <2>3. IsFiniteSet(S)
    BY FoundFinite
  <2>4. \A i \in DOMAIN Listing(S) : Listing(S)[i] \in S
    <3> HIDE DEF S
    <3> QED BY <2>3, ListingIs
  <2>5. [i \in DOMAIN Listing(S) |-> Probe(O, Listing(S)[i])]
          = [i \in DOMAIN Listing(S) |-> g[Listing(S)[i]]]
    <3> HIDE DEF S
    <3> QED BY <2>4
  <2>6. Lists([i \in DOMAIN Listing(S) |-> g[Listing(S)[i]]], X)
    <3> HIDE DEF S, g, X
    <3> QED BY <2>1, <2>3, EachLists
  <2> QED BY <2>2, <2>5, <2>6
<1>7. Lists(IF DnsTrouble(O, DnsRef) THEN <<DnsFailure(O, DnsRef)>> ELSE <<>>,
            {h \in {DnsFailure(O, DnsRef)} : DnsTrouble(O, DnsRef)})
  <2>1. \A h : Lists(<<h>>, {h})
    BY DEF Lists
  <2>2. Lists(<<>>, {})
    BY DEF Lists
  <2>3. CASE DnsTrouble(O, DnsRef)
    BY <2>1, <2>3
  <2>4. CASE ~DnsTrouble(O, DnsRef)
    BY <2>2, <2>4
  <2> QED BY <2>3, <2>4
<1>8. Lists(Each(UnboundClaims(O), LAMBDA r : ClaimUnbound(O, r)), {ClaimUnbound(O, r) : r \in UnboundClaims(O)})
  <2> DEFINE S == UnboundClaims(O)
             X == {ClaimUnbound(O, r) : r \in S}
             g == [r \in S |-> ClaimUnbound(O, r)]
  <2>1. X = {g[r] : r \in S}
    <3> HIDE DEF S
    <3> QED OBVIOUS
  <2>2. Each(S, LAMBDA r : ClaimUnbound(O, r)) = [i \in DOMAIN Listing(S) |-> ClaimUnbound(O, Listing(S)[i])]
    BY DEF Each, Listing
  <2>3. IsFiniteSet(S)
    BY FoundFinite
  <2>4. \A i \in DOMAIN Listing(S) : Listing(S)[i] \in S
    <3> HIDE DEF S
    <3> QED BY <2>3, ListingIs
  <2>5. [i \in DOMAIN Listing(S) |-> ClaimUnbound(O, Listing(S)[i])]
          = [i \in DOMAIN Listing(S) |-> g[Listing(S)[i]]]
    <3> HIDE DEF S
    <3> QED BY <2>4
  <2>6. Lists([i \in DOMAIN Listing(S) |-> g[Listing(S)[i]]], X)
    <3> HIDE DEF S, g, X
    <3> QED BY <2>1, <2>3, EachLists
  <2> QED BY <2>2, <2>5, <2>6
<1>9. Lists(Each(NoEndpoints(O), LAMBDA r : ServiceDown(O, r)), {ServiceDown(O, r) : r \in NoEndpoints(O)})
  <2> DEFINE S == NoEndpoints(O)
             X == {ServiceDown(O, r) : r \in S}
             g == [r \in S |-> ServiceDown(O, r)]
  <2>1. X = {g[r] : r \in S}
    <3> HIDE DEF S
    <3> QED OBVIOUS
  <2>2. Each(S, LAMBDA r : ServiceDown(O, r)) = [i \in DOMAIN Listing(S) |-> ServiceDown(O, Listing(S)[i])]
    BY DEF Each, Listing
  <2>3. IsFiniteSet(S)
    BY FoundFinite
  <2>4. \A i \in DOMAIN Listing(S) : Listing(S)[i] \in S
    <3> HIDE DEF S
    <3> QED BY <2>3, ListingIs
  <2>5. [i \in DOMAIN Listing(S) |-> ServiceDown(O, Listing(S)[i])]
          = [i \in DOMAIN Listing(S) |-> g[Listing(S)[i]]]
    <3> HIDE DEF S
    <3> QED BY <2>4
  <2>6. Lists([i \in DOMAIN Listing(S) |-> g[Listing(S)[i]]], X)
    <3> HIDE DEF S, g, X
    <3> QED BY <2>1, <2>3, EachLists
  <2> QED BY <2>2, <2>5, <2>6
<1>10. Lists(Each(AtMax(O), LAMBDA r : AtMaximum(O, r)), {AtMaximum(O, r) : r \in AtMax(O)})
  <2> DEFINE S == AtMax(O)
             X == {AtMaximum(O, r) : r \in S}
             g == [r \in S |-> AtMaximum(O, r)]
  <2>1. X = {g[r] : r \in S}
    <3> HIDE DEF S
    <3> QED OBVIOUS
  <2>2. Each(S, LAMBDA r : AtMaximum(O, r)) = [i \in DOMAIN Listing(S) |-> AtMaximum(O, Listing(S)[i])]
    BY DEF Each, Listing
  <2>3. IsFiniteSet(S)
    BY FoundFinite
  <2>4. \A i \in DOMAIN Listing(S) : Listing(S)[i] \in S
    <3> HIDE DEF S
    <3> QED BY <2>3, ListingIs
  <2>5. [i \in DOMAIN Listing(S) |-> AtMaximum(O, Listing(S)[i])]
          = [i \in DOMAIN Listing(S) |-> g[Listing(S)[i]]]
    <3> HIDE DEF S
    <3> QED BY <2>4
  <2>6. Lists([i \in DOMAIN Listing(S) |-> g[Listing(S)[i]]], X)
    <3> HIDE DEF S, g, X
    <3> QED BY <2>1, <2>3, EachLists
  <2> QED BY <2>2, <2>5, <2>6
<1>11. Lists([i \in DOMAIN order |-> Regression(O, order[i])],
             {Regression(O, r) : r \in ChangedResources(O)})
  <2> DEFINE R == ChangedResources(O)
             X == {Regression(O, r) : r \in R}
             s == [i \in DOMAIN order |-> Regression(O, order[i])]
  <2>1. order \in [1..Cardinality(R) -> R] /\ \A r \in R : \E i \in DOMAIN order : order[i] = r
    BY DEF Orders
  <2>2. Cardinality(R) \in Nat
    BY FoundFinite, FS_CardinalityType
  <2> HIDE DEF R
  <2>3. s \in [1..Cardinality(R) -> X]
    BY <2>1
  <2>4. s \in Seq(X)
    BY <2>2, <2>3, SeqDef
  <2>5. \A x \in X : \E i \in DOMAIN s : s[i] = x
    BY <2>1
  <2> QED BY <2>4, <2>5 DEF Lists, R
<1> DEFINE s1 == Each(Killed(O), LAMBDA r : Memory(O, r))
           x1 == {Memory(O, r) : r \in Killed(O)}
           s2 == Each(Looping(O), LAMBDA r : CrashLoop(O, r))
           x2 == {CrashLoop(O, r) : r \in Looping(O)}
           s3 == Each(PullFailing(O), LAMBDA r : ImagePull(O, r))
           x3 == {ImagePull(O, r) : r \in PullFailing(O)}
           s4 == Each(Unschedulable(O), LAMBDA r : Scheduling(O, r))
           x4 == {Scheduling(O, r) : r \in Unschedulable(O)}
           s5 == Each(Pressured(O), LAMBDA r : NodePressure(O, r))
           x5 == {NodePressure(O, r) : r \in Pressured(O)}
           s6 == Each(Unhealthy(O), LAMBDA r : Probe(O, r))
           x6 == {Probe(O, r) : r \in Unhealthy(O)}
           s7 == IF DnsTrouble(O, DnsRef) THEN <<DnsFailure(O, DnsRef)>> ELSE <<>>
           x7 == {h \in {DnsFailure(O, DnsRef)} : DnsTrouble(O, DnsRef)}
           s8 == Each(UnboundClaims(O), LAMBDA r : ClaimUnbound(O, r))
           x8 == {ClaimUnbound(O, r) : r \in UnboundClaims(O)}
           s9 == Each(NoEndpoints(O), LAMBDA r : ServiceDown(O, r))
           x9 == {ServiceDown(O, r) : r \in NoEndpoints(O)}
           s10 == Each(AtMax(O), LAMBDA r : AtMaximum(O, r))
           x10 == {AtMaximum(O, r) : r \in AtMax(O)}
           s11 == [i \in DOMAIN order |-> Regression(O, order[i])]
           x11 == {Regression(O, r) : r \in ChangedResources(O)}
<1>12. Emitted(O, DnsRef, order) = s1 \o s2 \o s3 \o s4 \o s5 \o s6 \o s7 \o s8 \o s9 \o s10 \o s11
  BY DEF Emitted
<1>13. Emissions(O) = x1 \cup x2 \cup x3 \cup x4 \cup x5 \cup x6 \cup x7 \cup x8 \cup x9 \cup x10 \cup x11
  BY DEF Emissions
<1>14. /\ Lists(s1, x1)
       /\ Lists(s2, x2)
       /\ Lists(s3, x3)
       /\ Lists(s4, x4)
       /\ Lists(s5, x5)
       /\ Lists(s6, x6)
       /\ Lists(s7, x7)
       /\ Lists(s8, x8)
       /\ Lists(s9, x9)
       /\ Lists(s10, x10)
       /\ Lists(s11, x11)
  BY <1>1, <1>2, <1>3, <1>4, <1>5, <1>6, <1>7, <1>8, <1>9, <1>10, <1>11
<1> HIDE DEF s1, x1, s2, x2, s3, x3, s4, x4, s5, x5, s6, x6, s7, x7, s8, x8, s9, x9, s10, x10, s11, x11
<1>15. Lists(s1 \o s2,
             x1 \cup x2)
  BY <1>14, ConcatLists
<1>16. Lists(s1 \o s2 \o s3,
             x1 \cup x2 \cup x3)
  BY <1>14, <1>15, ConcatLists
<1>17. Lists(s1 \o s2 \o s3 \o s4,
             x1 \cup x2 \cup x3 \cup x4)
  BY <1>14, <1>16, ConcatLists
<1>18. Lists(s1 \o s2 \o s3 \o s4 \o s5,
             x1 \cup x2 \cup x3 \cup x4 \cup x5)
  BY <1>14, <1>17, ConcatLists
<1>19. Lists(s1 \o s2 \o s3 \o s4 \o s5 \o s6,
             x1 \cup x2 \cup x3 \cup x4 \cup x5 \cup x6)
  BY <1>14, <1>18, ConcatLists
<1>20. Lists(s1 \o s2 \o s3 \o s4 \o s5 \o s6 \o s7,
             x1 \cup x2 \cup x3 \cup x4 \cup x5 \cup x6 \cup x7)
  BY <1>14, <1>19, ConcatLists
<1>21. Lists(s1 \o s2 \o s3 \o s4 \o s5 \o s6 \o s7 \o s8,
             x1 \cup x2 \cup x3 \cup x4 \cup x5 \cup x6 \cup x7 \cup x8)
  BY <1>14, <1>20, ConcatLists
<1>22. Lists(s1 \o s2 \o s3 \o s4 \o s5 \o s6 \o s7 \o s8 \o s9,
             x1 \cup x2 \cup x3 \cup x4 \cup x5 \cup x6 \cup x7 \cup x8 \cup x9)
  BY <1>14, <1>21, ConcatLists
<1>23. Lists(s1 \o s2 \o s3 \o s4 \o s5 \o s6 \o s7 \o s8 \o s9 \o s10,
             x1 \cup x2 \cup x3 \cup x4 \cup x5 \cup x6 \cup x7 \cup x8 \cup x9 \cup x10)
  BY <1>14, <1>22, ConcatLists
<1>24. Lists(s1 \o s2 \o s3 \o s4 \o s5 \o s6 \o s7 \o s8 \o s9 \o s10 \o s11,
             x1 \cup x2 \cup x3 \cup x4 \cup x5 \cup x6 \cup x7 \cup x8 \cup x9 \cup x10 \cup x11)
  BY <1>14, <1>23, ConcatLists
<1> QED BY <1>12, <1>13, <1>24

\* Nothing else is emitted, whichever order the changes come in.
LEMMA EmittedIs ==
  ASSUME NEW O, IsFiniteSet(O), NEW order \in Orders(O)
  PROVE  Emitted(O, DnsRef, order) \in Seq(Emissions(O))
BY EmittedLists DEF Lists

LEMMA SigmoidType ==
  \A m \in -40..110 : Sigmoid(m) \in Nat
<1>1. SigmoidTable \in Seq(Nat)
  BY DEF SigmoidTable
<1>2. Len(SigmoidTable) = 151
  BY DEF SigmoidTable
<1>3. ASSUME NEW j \in 1..151 PROVE SigmoidTable[j] \in Nat
  <2>1. j \in 1..Len(SigmoidTable)
    BY <1>2
  <2> QED BY <1>1, <2>1, ElementOfSeq
<1>4. ASSUME NEW m \in -40..110 PROVE Sigmoid(m) \in Nat
  <2>1. m + 41 \in 1..151
    OBVIOUS
  <2> QED BY <1>3, <2>1 DEF Sigmoid
<1> QED BY <1>4

\* A hypothesis with margin m, before Merge.
IsHyp(h, m) ==
  \E id, c, e, a, s : h = [id |-> id, scored |-> TRUE, margin |-> m, score |-> Sigmoid(m),
                           claim |-> c, evidence |-> e, missing |-> a, status |-> s]

Emittable(X) == \A h \in X : \E m \in -40..110 : IsHyp(h, m)

\* What Merge is given of X.
HypsOf(X) ==
  Hyps({h.id : h \in X}, {h.claim : h \in X}, UNION {h.evidence : h \in X},
       UNION {h.missing : h \in X}, {h.status : h \in X})

LEMMA EmittableType ==
  ASSUME NEW X, Emittable(X)
  PROVE  X \subseteq HypsOf(X) /\ \A h \in X : h.scored
<1> SUFFICES ASSUME NEW h \in X PROVE h \in HypsOf(X) /\ h.scored
  OBVIOUS
<1>1. PICK m \in -40..110 : IsHyp(h, m)
  BY DEF Emittable
<1>2. PICK id, c, e, a, s :
        h = [id |-> id, scored |-> TRUE, margin |-> m, score |-> Sigmoid(m),
             claim |-> c, evidence |-> e, missing |-> a, status |-> s]
  BY <1>1 DEF IsHyp
<1>3. /\ h.id = id /\ h.claim = c /\ h.evidence = e /\ h.missing = a /\ h.status = s
      /\ h.scored = TRUE
  BY <1>2
<1>4. m \in Int /\ Sigmoid(m) \in Nat
  BY SigmoidType
<1>5. /\ id \in {g.id : g \in X} /\ c \in {g.claim : g \in X} /\ s \in {g.status : g \in X}
      /\ e \in SUBSET UNION {g.evidence : g \in X} /\ a \in SUBSET UNION {g.missing : g \in X}
  BY <1>3
<1> QED BY <1>2, <1>3, <1>4, <1>5 DEF HypsOf, Hyps

\* Every entry of the ranking has the ID and the score of something emitted, and a status
\* Merge gave it; a higher place has no lower score.
LEMMA RankedFrom ==
  ASSUME NEW X, Emittable(X), NEW hs \in Seq(X)
  PROVE  /\ DOMAIN Merge(hs) \subseteq Nat
         /\ \A k \in DOMAIN Merge(hs) :
              /\ Merge(hs)[k].status \in Statuses
              /\ Merge(hs)[k].score \in Nat
              /\ \E h \in X : h.id = Merge(hs)[k].id /\ h.score = Merge(hs)[k].score
         /\ \A j, k \in DOMAIN Merge(hs) : j < k => Merge(hs)[j].score >= Merge(hs)[k].score
<1> DEFINE I == {h.id : h \in X}
           C == {h.claim : h \in X}
           E == UNION {h.evidence : h \in X}
           M == UNION {h.missing : h \in X}
           T == {h.status : h \in X}
<1>1. X \subseteq Hyps(I, C, E, M, T) /\ \A h \in X : h.scored
  BY EmittableType DEF HypsOf
<1> HIDE DEF I, C, E, M, T
<1>2. hs \in Seq(Hyps(I, C, E, M, T)) /\ \A i \in DOMAIN hs : hs[i] \in X
  BY <1>1
<1>3. /\ DOMAIN Merge(hs) = 1..Cardinality(Firsts(hs))
      /\ \A k \in DOMAIN Merge(hs) :
           /\ EntryAt(hs, k) \in Firsts(hs) /\ Rank(hs, EntryAt(hs, k)) = k
           /\ Merge(hs)[k] = [MergedAt(hs, EntryAt(hs, k)) EXCEPT
                                !.status = StatusAt(Ranked(hs), k)]
  BY <1>2, MergeEntries
<1>4. ASSUME NEW i \in Firsts(hs)
      PROVE  /\ MergedAt(hs, i) \in Hyps(I, C, E, M, T)
             /\ \E h \in X : /\ h.id = MergedAt(hs, i).id
                             /\ h.score = MergedAt(hs, i).score
             /\ scoreOf(MergedAt(hs, i)) = MergedAt(hs, i).score
  <2>1. i \in DOMAIN hs
    BY DEF Firsts
  <2> DEFINE m == MergedAt(hs, i)
             k == Keeper(hs, i)
  <2>2. m \in Hyps(I, C, E, M, T) /\ m.id = hs[i].id
    BY <1>2, <2>1, MergedAtType
  <2>3. k \in DOMAIN hs /\ hs[k].id = hs[i].id
    BY <1>2, <2>1, KeeperIsBest DEF SameID
  <2>4. m.score = hs[k].score /\ m.scored = hs[i].scored
    <3>1. hs[i] \in Hyps(I, C, E, M, T)
      BY <1>2, <2>1
    <3> QED BY <3>1 DEF MergedAt, Hyps
  <2>5. hs[i].scored /\ hs[k] \in X
    BY <1>1, <1>2, <2>1, <2>3
  <2>6. scoreOf(m) = m.score
    BY <2>4, <2>5 DEF scoreOf
  <2> HIDE DEF m, k
  <2>7. \E h \in X : h.id = m.id /\ h.score = m.score
    BY <2>2, <2>3, <2>4, <2>5
  <2> QED BY <2>2, <2>6, <2>7 DEF m
<1>5. ASSUME NEW k \in DOMAIN Merge(hs)
      PROVE  /\ Merge(hs)[k].status \in Statuses
             /\ Merge(hs)[k].score = MergedAt(hs, EntryAt(hs, k)).score
             /\ Merge(hs)[k].id = MergedAt(hs, EntryAt(hs, k)).id
             /\ Merge(hs)[k].score \in Nat
  <2>1. StatusAt(Ranked(hs), k) \in Statuses
    BY DEF StatusAt, Statuses
  <2> DEFINE m == MergedAt(hs, EntryAt(hs, k))
             v == Merge(hs)[k]
             st == StatusAt(Ranked(hs), k)
  <2>2. m \in Hyps(I, C, E, M, T) /\ v = [m EXCEPT !.status = st] /\ st \in Statuses
    BY <1>3, <1>4, <2>1
  <2> HIDE DEF m, v, st
  <2>3. v.status \in Statuses /\ v.score = m.score /\ v.id = m.id /\ v.score \in Nat
    BY <2>2 DEF Hyps
  <2> QED BY <2>3 DEF m, v
<1>6. DOMAIN Merge(hs) \subseteq Nat
  BY <1>2, <1>3, RanksArePlaces
<1>7. \A i, j \in Firsts(hs) : Rank(hs, i) < Rank(hs, j) =>
        scoreOf(MergedAt(hs, i)) >= scoreOf(MergedAt(hs, j))
  BY <1>2, RanksArePlaces
<1>8. ASSUME NEW j \in DOMAIN Merge(hs), NEW k \in DOMAIN Merge(hs), j < k
      PROVE  Merge(hs)[j].score >= Merge(hs)[k].score
  <2>1. /\ EntryAt(hs, j) \in Firsts(hs) /\ Rank(hs, EntryAt(hs, j)) = j
        /\ EntryAt(hs, k) \in Firsts(hs) /\ Rank(hs, EntryAt(hs, k)) = k
    BY <1>3
  <2>2. scoreOf(MergedAt(hs, EntryAt(hs, j))) >= scoreOf(MergedAt(hs, EntryAt(hs, k)))
    BY <1>7, <1>8, <2>1
  <2> QED BY <1>4, <1>5, <2>1, <2>2
<1>9. \A k \in DOMAIN Merge(hs) :
        \E h \in X : h.id = Merge(hs)[k].id /\ h.score = Merge(hs)[k].score
  BY <1>3, <1>4, <1>5
<1> QED BY <1>5, <1>6, <1>8, <1>9

\* What scores higher wherever it is emitted is placed higher.
LEMMA Outranks ==
  ASSUME NEW X, Emittable(X), NEW hs \in Seq(X), NEW a, NEW b,
         \A h, g \in X : h.id = a /\ g.id = b => h.score > g.score
  PROVE  \A i, j \in DOMAIN Merge(hs) : Merge(hs)[i].id = a /\ Merge(hs)[j].id = b => i < j
<1> DEFINE V == Merge(hs)
<1>1. /\ DOMAIN V \subseteq Nat
      /\ \A k \in DOMAIN V : /\ V[k].score \in Nat
                             /\ \E h \in X : h.id = V[k].id /\ h.score = V[k].score
      /\ \A j, k \in DOMAIN V : j < k => V[j].score >= V[k].score
  BY RankedFrom
<1> HIDE DEF V
<1>2. ASSUME NEW i \in DOMAIN V, NEW j \in DOMAIN V, V[i].id = a, V[j].id = b
      PROVE  i < j
  <2>1. PICK h \in X : h.id = a /\ h.score = V[i].score
    BY <1>1, <1>2
  <2>2. PICK g \in X : g.id = b /\ g.score = V[j].score
    BY <1>1, <1>2
  <2>3. V[i].score > V[j].score
    BY <2>1, <2>2
  <2>4. V[i].score \in Nat /\ V[j].score \in Nat /\ i \in Nat /\ j \in Nat
    BY <1>1
  <2>5. ~(j < i) /\ i # j
    BY <1>1, <2>3, <2>4
  <2> QED BY <2>4, <2>5
<1> QED BY <1>2 DEF V

\* h is a hypothesis of this ID and margin.
Says(h, id, m) == IsHyp(h, m) /\ h.id = id /\ h.score = Sigmoid(m)

LEMMA HypothesizeSays ==
  ASSUME NEW p, NEW n, NEW m, NEW e, NEW a
  PROVE  /\ Says(Hypothesize(p, n, m, e, a), <<p, n>>, m)
         /\ \A s : Says([Hypothesize(p, n, m, e, a) EXCEPT !.status = s], <<p, n>>, m)
         /\ \A c : Says([Hypothesize(p, n, m, e, a) EXCEPT !.claim = c], <<p, n>>, m)
<1> DEFINE l == {x[1] : x \in {x \in e : x[2]}}
           id == <<p, n>>
           sc == Sigmoid(m)
           yes == TRUE
           Hyp(c, s) == [id |-> id, scored |-> yes, margin |-> m, score |-> sc,
                         claim |-> c, evidence |-> l, missing |-> a, status |-> s]
<1>1. Hypothesize(p, n, m, e, a) = Hyp(p, "Likely")
  BY DEF Hypothesize
<1> HIDE DEF l
<1>2. \A c, s : Says(Hyp(c, s), <<p, n>>, m)
  BY DEF Says, IsHyp
<1>3. ASSUME NEW s PROVE [Hyp(p, "Likely") EXCEPT !.status = s] = Hyp(p, s)
  <2> HIDE DEF id, sc, yes
  <2> QED OBVIOUS
<1>4. ASSUME NEW c PROVE [Hyp(p, "Likely") EXCEPT !.claim = c] = Hyp(c, "Likely")
  <2> HIDE DEF id, sc, yes
  <2> QED OBVIOUS
<1> HIDE DEF Hyp
<1>5. Says(Hypothesize(p, n, m, e, a), <<p, n>>, m)
  BY <1>1, <1>2
<1>6. ASSUME NEW s PROVE Says([Hypothesize(p, n, m, e, a) EXCEPT !.status = s], <<p, n>>, m)
  <2>1. [Hypothesize(p, n, m, e, a) EXCEPT !.status = s] = Hyp(p, s)
    BY <1>1, <1>3, Zenon
  <2> QED BY <1>2, <2>1, Zenon
<1>7. ASSUME NEW c PROVE Says([Hypothesize(p, n, m, e, a) EXCEPT !.claim = c], <<p, n>>, m)
  <2>1. [Hypothesize(p, n, m, e, a) EXCEPT !.claim = c] = Hyp(c, "Likely")
    BY <1>1, <1>4, Zenon
  <2> QED BY <1>2, <2>1, Zenon
<1> QED BY <1>5, <1>6, <1>7

KilledTwice(O, r) == \E o, p \in Kills(O) : o.on = r /\ p.on = r /\ o # p

LEMMA MemorySays ==
  ASSUME NEW O, NEW r
  PROVE  \E m \in {29, 39, 41, 50, 51, 60, 62, 72} :
           /\ Says(Memory(O, r), <<"memory", r[2]>>, m)
           /\ m = 29 => /\ ~Seen(O, "container.spec", r, {"limited"})
                        /\ ~RestartedOver(O, {"container.terminated", "container.running"}, r, 1)
                        /\ ~KilledTwice(O, r)
                        /\ \E o \in O : o.kind = "node.condition" /\ o.val = "MemoryPressure"
<1> DEFINE limited  == Seen(O, "container.spec", r, {"limited"})
           over     == RestartedOver(O, {"container.terminated", "container.running"}, r, 1)
           twice    == KilledTwice(O, r)
           again    == over \/ twice
           pressure == \E o \in O : o.kind = "node.condition" /\ o.val = "MemoryPressure"
           a == Points(limited, 15)
           b == Points(again, 10)
           c == Points(pressure, 12)
           d == Points(~limited, 6)
           m == 20 + 27 + a + b - c - d
<1>1. Says(Memory(O, r), <<"memory", r[2]>>, m)
  <2>1. \E e, x : Memory(O, r) = Hypothesize("memory", r[2], m, e, x)
    BY DEF Memory, KilledTwice, Corroborating, Supporting, Contextual, DefaultLambdaMissing
  <2> HIDE DEF m
  <2> QED BY <2>1, HypothesizeSays
<1>2. /\ \/ limited /\ a = 15 /\ d = 0
         \/ ~limited /\ a = 0 /\ d = 6
      /\ \/ again /\ b = 10
         \/ ~again /\ b = 0
      /\ \/ pressure /\ c = 12
         \/ ~pressure /\ c = 0
  BY DEF Points
<1> HIDE DEF limited, over, twice, pressure, a, b, c, d
<1>3. m \in {29, 39, 41, 50, 51, 60, 62, 72} /\ (m = 29 => ~limited /\ ~over /\ ~twice /\ pressure)
  BY <1>2
<1> HIDE DEF m
<1> QED BY <1>1, <1>3 DEF limited, over, twice, pressure

LEMMA CrashLoopSays ==
  ASSUME NEW O, NEW r
  PROVE  \E m \in {25, 35, 45, 55} : Says(CrashLoop(O, r), <<"crashloop", r[2]>>, m)
<1> DEFINE again == RestartedOver(O, {"container.waiting", "container.terminated",
                                      "container.running"}, r, 1)
           oom == r \in OOMKilled(O)
           a == Points(again, 10)
           b == Points(oom, 20)
           m == 30 + 15 + a - b
<1>1. Says(CrashLoop(O, r), <<"crashloop", r[2]>>, m)
  BY HypothesizeSays DEF CrashLoop, Primary, Supporting, Contextual, Corroborating
<1>2. a \in {0, 10} /\ b \in {0, 20}
  BY DEF Points
<1> HIDE DEF a, b
<1>3. m \in {25, 35, 45, 55}
  BY <1>2
<1> HIDE DEF m
<1> QED BY <1>1, <1>3

LEMMA ImagePullSays ==
  ASSUME NEW O, NEW r
  PROVE  \E m \in {45, 55} : Says(ImagePull(O, r), <<"imagepull", r[2]>>, m)
<1> DEFINE image == \E o \in Of(O, "container.spec") : o.on = r
           a == Points(image, 10)
           m == 30 + 15 + a
<1>1. Says(ImagePull(O, r), <<"imagepull", r[2]>>, m)
  BY HypothesizeSays DEF ImagePull, Primary, Supporting, Contextual
<1>2. a \in {0, 10}
  BY DEF Points
<1> HIDE DEF a
<1>3. m \in {45, 55}
  BY <1>2
<1> HIDE DEF m
<1> QED BY <1>1, <1>3

\* A claim that is not bound takes more than half of the points of a Pending pod.
LEMMA SchedulingSays ==
  ASSUME NEW O, NEW r
  PROVE  \E m \in {4, 14, 24, 30, 34, 40, 50, 60} : \E n :
           /\ Says(Scheduling(O, r), <<"scheduling", n>>, m)
           /\ r \in PendingPods(O) /\ Unbound(O) => m \in {4, 14, 30, 40}
           /\ n = IF r \in PendingPods(O) THEN r[2] ELSE ""
<1> DEFINE pending == r \in PendingPods(O)
           name == IF pending THEN r[2] ELSE ""
           event == Seen(O, "event.recorded", r, {"FailedScheduling"})
           requests == \E o \in Of(O, "container.spec") : o.on = r /\ o.n = 1
           blocked == pending /\ Unbound(O)
           a == Points(event, 20)
           b == Points(requests, 10)
           c == Points(blocked, 20)
           d == Points(~event, 6)
           m == 30 + a + b - c - d
<1>1. Says(Scheduling(O, r), <<"scheduling", name>>, m)
  <2>1. \E e, x : Scheduling(O, r) = Hypothesize("scheduling", name, m, e, x)
    BY DEF Scheduling, Primary, Corroborating, Contextual, DefaultLambdaMissing
  <2> HIDE DEF m, name
  <2> QED BY <2>1, HypothesizeSays
<1> HIDE DEF blocked, event, requests
<1>2. /\ (event /\ a = 20 /\ d = 0) \/ (~event /\ a = 0 /\ d = 6)
      /\ b \in {0, 10}
      /\ (blocked /\ c = 20) \/ (~blocked /\ c = 0)
  BY DEF Points
<1> HIDE DEF a, b, c, d
<1>3. m \in {4, 14, 24, 30, 34, 40, 50, 60} /\ (blocked => m \in {4, 14, 30, 40})
  BY <1>2
<1> HIDE DEF m
<1> QED BY <1>1, <1>3 DEF blocked

LEMMA NodePressureSays ==
  ASSUME NEW O, NEW r, \A o \in O : Placed(o)
  PROVE  \E m \in {35, 50, 65} : Says(NodePressure(O, r), <<"nodepressure", r[2]>>, m)
<1> DEFINE types == {o.val : o \in {o \in Of(O, "node.condition") : o.on = r /\ o.val \in Pressures}}
           n == Cardinality(types)
           m == 40 + 15 * (n - 1) + 10
<1>1. Says(NodePressure(O, r), <<"nodepressure", r[2]>>, m)
  BY HypothesizeSays DEF NodePressure, Decisive, Supporting, Contextual
<1>2. types \subseteq {"MemoryPressure", "DiskPressure"}
  BY DEF Of, Placed
<1>3. n \in 0..2
  <2> HIDE DEF types
  <2>1. IsFiniteSet({"MemoryPressure", "DiskPressure"})
    BY SmallSets
  <2>2. Cardinality({"MemoryPressure", "DiskPressure"}) = 2
    <3>1. IsFiniteSet({"MemoryPressure"}) /\ Cardinality({"MemoryPressure"}) = 1
      BY FS_Singleton
    <3>2. Cardinality({"MemoryPressure"} \cup {"DiskPressure"}) = 2
      BY <3>1, FS_AddElement
    <3>3. {"MemoryPressure", "DiskPressure"} = {"MemoryPressure"} \cup {"DiskPressure"}
      OBVIOUS
    <3> QED BY <3>2, <3>3
  <2>3. n \in Nat /\ n <= 2
    BY <1>2, <2>1, <2>2, FS_Subset, FS_CardinalityType
  <2> QED BY <2>3
<1> HIDE DEF n
<1>4. m \in {35, 50, 65}
  BY <1>3
<1> HIDE DEF m
<1> QED BY <1>1, <1>4

\* A kill takes what an event of a probe alone is worth.
LEMMA ProbeSays ==
  ASSUME NEW O, NEW r
  PROVE  \E m \in {30, 40, 50, 60} :
           /\ Says(Probe(O, r), <<"probe", r[2]>>, m)
           /\ r \in OOMKilled(O) /\ ~RestartedOver(O, {"container.running"}, r, 0) => m = 30
<1> DEFINE restarted == RestartedOver(O, {"container.running"}, r, 0)
           oom == r \in OOMKilled(O)
           a == Points(restarted, 10)
           b == Points(oom, 20)
           m == 30 + 20 + a - b
<1>1. Says(Probe(O, r), <<"probe", r[2]>>, m)
  BY HypothesizeSays DEF Probe, Primary, Corroborating, Contextual
<1> HIDE DEF restarted, oom
<1>2. /\ (restarted /\ a = 10) \/ (~restarted /\ a = 0)
      /\ (oom /\ b = 20) \/ (~oom /\ b = 0)
  BY DEF Points
<1> HIDE DEF a, b
<1>3. m \in {30, 40, 50, 60} /\ (oom /\ ~restarted => m = 30)
  BY <1>2
<1> HIDE DEF m
<1> QED BY <1>1, <1>3 DEF oom, restarted

LEMMA DnsSays ==
  ASSUME NEW O
  PROVE  \E m \in -40..110 : \E n :
           /\ Says(DnsFailure(O, DnsRef), <<"dns", n>>, m)
           /\ m \in {-20, 0, 5, 10, 20, 25, 30, 35, 45, 50, 55, 75}
           /\ OOMKilled(O) # {} /\ ~CrashSymptom(O) => m \in {-20, 5, 10, 35}
<1> DEFINE events == DnsEvents(O) # {}
           name == IF events THEN (CHOOSE o \in DnsEvents(O) : TRUE).on[2] ELSE "unknown"
           down == CoreDnsDown(O, DnsRef)
           symptom == CrashSymptom(O)
           oom == OOMKilled(O) # {}
           a == Points(down, 30)
           b == Points(events, 25)
           c == Points(symptom, 20)
           d == Points(oom, 20)
           m == a + b + c - d
<1>1. Says(DnsFailure(O, DnsRef), <<"dns", name>>, m)
  BY HypothesizeSays DEF DnsFailure, Primary, Strong, Corroborating
<1> HIDE DEF events, down, symptom, oom, name
<1>2. /\ a \in {0, 30} /\ b \in {0, 25}
      /\ (symptom /\ c = 20) \/ (~symptom /\ c = 0)
      /\ (oom /\ d = 20) \/ (~oom /\ d = 0)
  BY DEF Points
<1> HIDE DEF a, b, c, d
<1>3. /\ m \in {-20, 0, 5, 10, 20, 25, 30, 35, 45, 50, 55, 75}
      /\ oom /\ ~symptom => m \in {-20, 5, 10, 35}
  BY <1>2
<1> HIDE DEF m
<1> QED BY <1>1, <1>3 DEF symptom, oom

\* The state of a claim that is not bound is also taken for an event about it.
LEMMA ClaimSays ==
  ASSUME NEW O, NEW r
  PROVE  \E m \in {40, 60} :
           /\ Says(ClaimUnbound(O, r), <<"pvc", r[2]>>, m)
           /\ r \in UnboundClaims(O) => m = 60
<1> DEFINE event == ClaimEvents(O, r) # {}
           a == Points(event, 20)
           m == 30 + a + 10
<1>1. Says(ClaimUnbound(O, r), <<"pvc", r[2]>>, m)
  BY HypothesizeSays DEF ClaimUnbound, Primary, Corroborating, Contextual
<1>2. r \in UnboundClaims(O) => event
  BY DEF UnboundClaims, On, ClaimEvents
<1> HIDE DEF event
<1>3. (event /\ a = 20) \/ (~event /\ a = 0)
  BY DEF Points
<1> HIDE DEF a
<1>4. m \in {40, 60} /\ (event => m = 60)
  BY <1>3
<1> HIDE DEF m
<1> QED BY <1>1, <1>2, <1>4

LEMMA ServiceSays ==
  ASSUME NEW O, NEW r
  PROVE  \E m \in {20, 40, 60} : Says(ServiceDown(O, r), <<"service", r[2]>>, m)
<1> DEFINE mismatch == ReadyPods(O) # {}
           unhealthy == ReadyPods(O) = {} /\ FailingPods(O) # {}
           a == Points(mismatch, 20)
           b == Points(unhealthy, 20)
           m == 30 + a + 10 - b
<1>1. Says(ServiceDown(O, r), <<"service", r[2]>>, m)
  BY HypothesizeSays DEF ServiceDown, Primary, Corroborating, Contextual
<1>2. a \in {0, 20} /\ b \in {0, 20}
  BY DEF Points
<1> HIDE DEF a, b
<1>3. m \in {20, 40, 60}
  BY <1>2
<1> HIDE DEF m
<1> QED BY <1>1, <1>3

LEMMA AtMaximumSays ==
  ASSUME NEW O, NEW r
  PROVE  \E m \in {30, 45} : Says(AtMaximum(O, r), <<"hpa", r[2]>>, m)
<1> DEFINE easing == \E o \in Of(O, "hpa.state") : o.on = r /\ o.n = 1
           a == Points(easing, 15)
           m == 30 + a
<1>1. Says(AtMaximum(O, r), <<"hpa", r[2]>>, m)
  BY HypothesizeSays DEF AtMaximum, Primary, Supporting
<1>2. a \in {0, 15}
  BY DEF Points
<1> HIDE DEF a
<1>3. m \in {30, 45}
  BY <1>2
<1> HIDE DEF m
<1> QED BY <1>1, <1>3

\* No resource has both commits and a sync that is in trouble.
LEMMA RegressionSays ==
  ASSUME NEW O, NEW r, \A o \in O : Placed(o)
  PROVE  \E m \in -40..110 : Says(Regression(O, r), <<"configregression", r[2]>>, m)
<1> DEFINE commit == Commits(O, r) # {}
           recent == Recent(O, r)
           troubled == Seen(O, "gitops.state", r, {"troubled"})
           change == RelatedChange(O, r)
           pressure == Pressured(O) # {}
           a == Points(commit, 30)
           b == Points(recent, 25)
           c == Points(troubled, 25)
           d == Points(change, 10)
           e == Points(pressure, 12)
           f == Points(~commit, 6)
           m == a + b + c + d + 30 - e - f
<1>1. Says(Regression(O, r), <<"configregression", r[2]>>, m)
  <2> DEFINE x == {<<"commit", commit>>, <<"recency", recent>>, <<"gitops", troubled>>,
                   <<"change", change>>, <<"symptom", TRUE>>, <<"nodepressure", pressure>>}
             y == IF commit THEN {} ELSE {"commit"}
             z == IF commit THEN "commit" ELSE "change"
  <2>1. Regression(O, r) = [Hypothesize("configregression", r[2], m, x, y) EXCEPT !.claim = z]
    BY DEF Regression, Primary, Strong, Contextual, DefaultLambdaMissing
  <2> HIDE DEF m, x, y, z
  <2> QED BY <2>1, HypothesizeSays
<1>2. ~(commit /\ troubled)
  BY DEF Commits, Of, Seen, Placed, PodRef, AppRef, KustomizationRef
<1> HIDE DEF commit, recent, troubled, change, pressure
<1>3. /\ (commit /\ a = 30 /\ f = 0) \/ (~commit /\ a = 0 /\ f = 6)
      /\ b \in {0, 25} /\ d \in {0, 10} /\ e \in {0, 12}
      /\ (troubled /\ c = 25) \/ (~troubled /\ c = 0)
  BY DEF Points
<1> HIDE DEF a, b, c, d, e, f
<1>4. m \in -40..110
  BY <1>2, <1>3
<1> HIDE DEF m
<1> QED BY <1>1, <1>4

\* The scores that are compared.
LEMMA Scores ==
  /\ Sigmoid(-20) = 3166 /\ Sigmoid(4) = 5384 /\ Sigmoid(5) = 5479
  /\ Sigmoid(10) = 5950 /\ Sigmoid(14) = 6315 /\ Sigmoid(30) = 7602
  /\ Sigmoid(35) = 7935 /\ Sigmoid(39) = 8176 /\ Sigmoid(40) = 8232
  /\ Sigmoid(41) = 8288 /\ Sigmoid(50) = 8725 /\ Sigmoid(51) = 8767
  /\ Sigmoid(60) = 9095 /\ Sigmoid(62) = 9156 /\ Sigmoid(72) = 9410
<1>1. -20 + 41 = 21 /\ SigmoidTable[21] = 3166
  BY DEF SigmoidTable
<1>2. 4 + 41 = 45 /\ SigmoidTable[45] = 5384
  BY DEF SigmoidTable
<1>3. 5 + 41 = 46 /\ SigmoidTable[46] = 5479
  BY DEF SigmoidTable
<1>4. 10 + 41 = 51 /\ SigmoidTable[51] = 5950
  BY DEF SigmoidTable
<1>5. 14 + 41 = 55 /\ SigmoidTable[55] = 6315
  BY DEF SigmoidTable
<1>6. 30 + 41 = 71 /\ SigmoidTable[71] = 7602
  BY DEF SigmoidTable
<1>7. 35 + 41 = 76 /\ SigmoidTable[76] = 7935
  BY DEF SigmoidTable
<1>8. 39 + 41 = 80 /\ SigmoidTable[80] = 8176
  BY DEF SigmoidTable
<1>9. 40 + 41 = 81 /\ SigmoidTable[81] = 8232
  BY DEF SigmoidTable
<1>10. 41 + 41 = 82 /\ SigmoidTable[82] = 8288
  BY DEF SigmoidTable
<1>11. 50 + 41 = 91 /\ SigmoidTable[91] = 8725
  BY DEF SigmoidTable
<1>12. 51 + 41 = 92 /\ SigmoidTable[92] = 8767
  BY DEF SigmoidTable
<1>13. 60 + 41 = 101 /\ SigmoidTable[101] = 9095
  BY DEF SigmoidTable
<1>14. 62 + 41 = 103 /\ SigmoidTable[103] = 9156
  BY DEF SigmoidTable
<1>15. 72 + 41 = 113 /\ SigmoidTable[113] = 9410
  BY DEF SigmoidTable
<1> QED BY <1>1, <1>2, <1>3, <1>4, <1>5, <1>6, <1>7, <1>8, <1>9, <1>10, <1>11, <1>12, <1>13, <1>14, <1>15 DEF Sigmoid

\* The prefix of a hypothesis tells which analyzer emitted it.
LEMMA EmissionsSay ==
  ASSUME NEW O, \A o \in O : Placed(o), NEW h \in Emissions(O)
  PROVE  /\ \E m \in -40..110 : IsHyp(h, m)
         /\ h.id[1] \in DOMAIN Precedence
         /\ h.id[1] = "memory" => \E r \in Killed(O) : h = Memory(O, r)
         /\ h.id[1] = "crashloop" => \E r \in Looping(O) : h = CrashLoop(O, r)
         /\ h.id[1] = "scheduling" => \E r \in Unschedulable(O) : h = Scheduling(O, r)
         /\ h.id[1] = "probe" => \E r \in Unhealthy(O) : h = Probe(O, r)
         /\ h.id[1] = "pvc" => \E r \in UnboundClaims(O) : h = ClaimUnbound(O, r)
         /\ h.id[1] = "dns" => h = DnsFailure(O, DnsRef)
<1> DEFINE Fits(p) == /\ \E m \in -40..110 : IsHyp(h, m)
                      /\ h.id[1] = p
<1>1. DOMAIN Precedence = {"nodepressure", "memory", "pvc", "imagepull", "crashloop",
                           "scheduling", "probe", "service", "dns", "hpa", "configregression"}
  BY DEF Precedence
<1>2. ASSUME NEW r \in Killed(O), h = Memory(O, r) PROVE Fits("memory")
  BY <1>2, MemorySays DEF Says
<1>3. ASSUME NEW r \in Looping(O), h = CrashLoop(O, r) PROVE Fits("crashloop")
  BY <1>3, CrashLoopSays DEF Says
<1>4. ASSUME NEW r \in PullFailing(O), h = ImagePull(O, r) PROVE Fits("imagepull")
  BY <1>4, ImagePullSays DEF Says
<1>5. ASSUME NEW r \in Unschedulable(O), h = Scheduling(O, r) PROVE Fits("scheduling")
  <2>1. PICK m \in {4, 14, 24, 30, 34, 40, 50, 60} : \E n :
          Says(Scheduling(O, r), <<"scheduling", n>>, m)
    BY SchedulingSays
  <2> QED BY <1>5, <2>1 DEF Says
<1>6. ASSUME NEW r \in Pressured(O), h = NodePressure(O, r) PROVE Fits("nodepressure")
  BY <1>6, NodePressureSays DEF Says
<1>7. ASSUME NEW r \in Unhealthy(O), h = Probe(O, r) PROVE Fits("probe")
  BY <1>7, ProbeSays DEF Says
<1>8. ASSUME NEW r \in UnboundClaims(O), h = ClaimUnbound(O, r) PROVE Fits("pvc")
  BY <1>8, ClaimSays DEF Says
<1>9. ASSUME NEW r \in NoEndpoints(O), h = ServiceDown(O, r) PROVE Fits("service")
  BY <1>9, ServiceSays DEF Says
<1>10. ASSUME NEW r \in AtMax(O), h = AtMaximum(O, r) PROVE Fits("hpa")
  BY <1>10, AtMaximumSays DEF Says
<1>11. ASSUME NEW r \in ChangedResources(O), h = Regression(O, r) PROVE Fits("configregression")
  BY <1>11, RegressionSays DEF Says
<1>12. ASSUME h = DnsFailure(O, DnsRef) PROVE Fits("dns")
  BY <1>12, DnsSays DEF Says
<1> HIDE DEF Fits
<1>13. \/ \E r \in Killed(O) : h = Memory(O, r)
       \/ \E r \in Looping(O) : h = CrashLoop(O, r)
       \/ \E r \in PullFailing(O) : h = ImagePull(O, r)
       \/ \E r \in Unschedulable(O) : h = Scheduling(O, r)
       \/ \E r \in Pressured(O) : h = NodePressure(O, r)
       \/ \E r \in Unhealthy(O) : h = Probe(O, r)
       \/ \E r \in UnboundClaims(O) : h = ClaimUnbound(O, r)
       \/ \E r \in NoEndpoints(O) : h = ServiceDown(O, r)
       \/ \E r \in AtMax(O) : h = AtMaximum(O, r)
       \/ \E r \in ChangedResources(O) : h = Regression(O, r)
       \/ h = DnsFailure(O, DnsRef)
  BY DEF Emissions
<1>14. \/ Fits("memory") /\ \E r \in Killed(O) : h = Memory(O, r)
       \/ Fits("crashloop") /\ \E r \in Looping(O) : h = CrashLoop(O, r)
       \/ Fits("imagepull")
       \/ Fits("scheduling") /\ \E r \in Unschedulable(O) : h = Scheduling(O, r)
       \/ Fits("nodepressure")
       \/ Fits("probe") /\ \E r \in Unhealthy(O) : h = Probe(O, r)
       \/ Fits("pvc") /\ \E r \in UnboundClaims(O) : h = ClaimUnbound(O, r)
       \/ Fits("service") \/ Fits("hpa") \/ Fits("configregression")
       \/ Fits("dns") /\ h = DnsFailure(O, DnsRef)
  BY <1>2, <1>3, <1>4, <1>5, <1>6, <1>7, <1>8, <1>9, <1>10, <1>11, <1>12, <1>13
<1> QED BY <1>1, <1>14 DEF Fits

LEMMA EmissionsEmittable ==
  ASSUME NEW O, \A o \in O : Placed(o)
  PROVE  Emittable(Emissions(O))
BY EmissionsSay DEF Emittable

\* The card names an analyzer that has a claim, or none.
LEMMA CardIs ==
  ASSUME NEW X, \A h \in X : h.id[1] \in DOMAIN Precedence, NEW hs \in Seq(X)
  PROVE  Card(hs) \in {p \in DOMAIN Precedence : Precedence[p] > 0} \cup {"INVESTIGATED"}
<1> DEFINE ranks == {Precedence[hs[i].id[1]] : i \in DOMAIN hs}
           best == CHOOSE n \in ranks \cup {0} : \A m \in ranks : m <= n
<1>1. \A p \in DOMAIN Precedence : Precedence[p] \in 0..8
  BY DEF Precedence
<1>2. \A i \in DOMAIN hs : hs[i].id[1] \in DOMAIN Precedence
  OBVIOUS
<1>3. ranks \subseteq 0..8
  BY <1>1, <1>2
<1>4. \E n \in ranks \cup {0} : \A m \in ranks : m <= n
  <2> HIDE DEF ranks
  <2> DEFINE S == ranks \cup {0}
             f == [x \in S |-> x]
  <2>1. S \subseteq 0..8
    BY <1>3
  <2>2. IsFiniteSet(0..8)
    <3>1. 0 \in Int /\ 8 \in Int
      OBVIOUS
    <3> QED BY <3>1, FS_Interval
  <2>3. IsFiniteSet(S) /\ S # {} /\ S \subseteq Int /\ \A x \in S : f[x] \in Int
    BY <2>1, <2>2, FS_Subset
  <2>4. PICK x \in S : \A y \in S : f[y] < f[x] \/ (f[y] = f[x] /\ x <= y)
    <3> HIDE DEF S, f
    <3> QED BY <2>3, HasBest
  <2>5. \A y \in S : y <= x
    <3>1. \A y \in S : f[y] = y /\ y \in Int
      BY <2>1
    <3> HIDE DEF f
    <3> QED BY <2>4, <3>1
  <2> QED BY <2>5
<1>5. best \in ranks \cup {0}
  BY <1>4
<1> HIDE DEF best
<1>6. best # 0 => \E p \in DOMAIN Precedence : Precedence[p] = best
  <2>1. best # 0 => \E i \in DOMAIN hs : Precedence[hs[i].id[1]] = best
    BY <1>5
  <2> HIDE DEF ranks
  <2> QED BY <1>2, <2>1
<1>7. best # 0 => best > 0
  <2>1. best \in 0..8
    <3> HIDE DEF ranks
    <3>1. CASE best = 0
      BY <3>1
    <3>2. CASE best \in ranks
      BY <1>3, <3>2
    <3> QED BY <1>5, <3>1, <3>2
  <2> QED BY <2>1
<1>8. Card(hs) = IF best = 0 THEN "INVESTIGATED"
                 ELSE CHOOSE p \in DOMAIN Precedence : Precedence[p] = best
  BY DEF Card, best
<1> HIDE DEF ranks
<1> QED BY <1>6, <1>7, <1>8

\* Nothing is said when nothing is emitted.
LEMMA NothingSaid ==
  ASSUME NEW hs \in Seq({})
  PROVE  Merge(hs) = <<>> /\ Card(hs) = "INVESTIGATED" /\ Severity(hs) = "INFO"
<1>1. hs = <<>>
  OBVIOUS
<1>2. Firsts(hs) = {} /\ DOMAIN hs = {}
  BY <1>1 DEF Firsts
<1>3. Ranked(hs) = <<>>
  <2>1. Cardinality(Firsts(hs)) = 0
    BY <1>2, FS_EmptySet
  <2>2. 1..0 = {}
    OBVIOUS
  <2> QED BY <2>1, <2>2 DEF Ranked
<1>4. Merge(hs) = <<>>
  BY <1>3 DEF Merge
<1>5. Card(hs) = "INVESTIGATED"
  BY <1>2 DEF Card
<1>6. Severity(hs) = "INFO"
  BY <1>1 DEF Severity
<1> QED BY <1>4, <1>5, <1>6

\* A ranking holds what is emitted and nothing else.
LEMMA MergedEmissions ==
  ASSUME NEW X, Emittable(X), NEW hs, Lists(hs, X)
  PROVE  /\ \A n \in DOMAIN Merge(hs) : /\ MergedFrom(Merge(hs)[n], X)
                                        /\ Merge(hs)[n].id \in {h.id : h \in X} \ {NoID}
         /\ \A h \in X : h.id # NoID => \E n \in DOMAIN Merge(hs) : Merge(hs)[n].id = h.id
<1> DEFINE I == {h.id : h \in X}
           C == {h.claim : h \in X}
           E == UNION {h.evidence : h \in X}
           M == UNION {h.missing : h \in X}
           T == {h.status : h \in X}
<1>1. X \subseteq Hyps(I, C, E, M, T) /\ \A h \in X : h.scored
  BY EmittableType DEF HypsOf
<1> HIDE DEF I, C, E, M, T
<1>2. ASSUME NEW n \in DOMAIN Merge(hs)
      PROVE  /\ MergedFrom(Merge(hs)[n], X)
             /\ Merge(hs)[n].id \in {h.id : h \in X} \ {NoID}
  BY <1>1, <1>2, MergeIsFromSet
<1>3. ASSUME NEW h \in X, h.id # NoID
      PROVE  \E n \in DOMAIN Merge(hs) : Merge(hs)[n].id = h.id
  BY <1>1, <1>3, MergeIsFromSet
<1> QED BY <1>2, <1>3

\* The report of a single hypothesis.
LEMMA OneSaid ==
  ASSUME NEW h, h.id # NoID, Emittable({h}), NEW hs, Lists(hs, {h})
  PROVE  Len(Merge(hs)) = 1 /\ Merge(hs)[1].id = h.id
<1> DEFINE X == {h}
           I == {g.id : g \in X}
           C == {g.claim : g \in X}
           E == UNION {g.evidence : g \in X}
           M == UNION {g.missing : g \in X}
           T == {g.status : g \in X}
           V == Merge(hs)
<1>1. hs \in Seq(Hyps(I, C, E, M, T))
  <2>1. X \subseteq Hyps(I, C, E, M, T)
    BY EmittableType DEF HypsOf
  <2> HIDE DEF I, C, E, M, T
  <2> QED BY <2>1 DEF Lists
<1> HIDE DEF I, C, E, M, T
<1>2. /\ V \in Seq(Hyps(I, C, E, M, Statuses))
      /\ \A j, k \in DOMAIN V : V[j].id = V[k].id => j = k
  BY <1>1, MergeDescends
<1>3. /\ \A n \in DOMAIN V : V[n].id = h.id
      /\ \E n \in DOMAIN V : V[n].id = h.id
  BY MergedEmissions
<1> HIDE DEF V, X
<1>4. Len(V) \in Nat /\ DOMAIN V = 1..Len(V)
  BY <1>2
<1>5. Len(V) > 0
  BY <1>3, <1>4
<1>6. ~(Len(V) > 1)
  <2> SUFFICES ASSUME Len(V) > 1 PROVE FALSE
    OBVIOUS
  <2>1. 1 \in DOMAIN V /\ 2 \in DOMAIN V
    BY <1>4
  <2> QED BY <1>2, <1>3, <2>1
<1>7. Len(V) = 1 /\ 1 \in DOMAIN V
  BY <1>4, <1>5, <1>6
<1> QED BY <1>3, <1>7 DEF V

\* What the report of a pass is made of.
LEMMA Reports ==
  ASSUME IInv, Reported
  PROVE  \E hs \in Seq(Emissions(obs)) :
           report = [ranked |-> Merge(hs), card |-> Card(hs), severity |-> Severity(hs)]
<1>1. PICK order \in Orders(obs) : report = ReportOf(obs, order)
  BY DEF IInv, ReportIsOfObs, Reported
<1>2. Emitted(obs, DnsRef, order) \in Seq(Emissions(obs))
  BY EmittedIs DEF IInv, Collected
<1> QED BY <1>1, <1>2 DEF ReportOf

-------------------------------------------------------------------------------
(* The theorems. *)

\* Every state has its type: every hypothesis of a report has a status of Merge, and the
\* card names an analyzer with a claim of its own, or none.
THEOREM TypeCorrect == Spec => []TypeOK
<1>1. IInv => TypeOK
  <2> SUFFICES ASSUME IInv PROVE TypeOK
    OBVIOUS
  <2>1. pc \in {Calls[i] : i \in DOMAIN Calls} \cup {"idle", "analyze", "report"}
    BY CallsAre DEF IInv, Typed
  <2>2. /\ \A i \in DOMAIN Verdicts : Verdicts[i].status \in Statuses
        /\ report.card \in {p \in DOMAIN Precedence : Precedence[p] > 0} \cup {"", "INVESTIGATED"}
    <3>1. CASE Reported
      <4>1. PICK hs \in Seq(Emissions(obs)) :
              report = [ranked |-> Merge(hs), card |-> Card(hs), severity |-> Severity(hs)]
        BY <3>1, Reports
      <4>2. Emittable(Emissions(obs)) /\ \A h \in Emissions(obs) : h.id[1] \in DOMAIN Precedence
        BY EmissionsEmittable, EmissionsSay DEF IInv, Collected
      <4>3. \A k \in DOMAIN Merge(hs) : Merge(hs)[k].status \in Statuses
        BY <4>2, RankedFrom
      <4>4. Card(hs) \in {p \in DOMAIN Precedence : Precedence[p] > 0} \cup {"INVESTIGATED"}
        BY <4>2, CardIs
      <4>5. Verdicts = Merge(hs) /\ report.card = Card(hs)
        BY <4>1 DEF Verdicts
      <4> QED BY <4>3, <4>4, <4>5
    <3>2. CASE ~Reported
      <4>1. report = NoReport
        BY <3>2 DEF IInv, ReportIsOfObs, Reported
      <4>2. Verdicts = <<>> /\ report.card = ""
        BY <4>1 DEF NoReport, Verdicts
      <4>3. DOMAIN Verdicts = {}
        <5>1. DOMAIN <<>> = {}
          OBVIOUS
        <5> QED BY <4>2, <5>1
      <4> QED BY <4>2, <4>3
    <3> QED BY <3>1, <3>2
  <2> QED BY <2>1, <2>2 DEF IInv, Typed, Watched, TypeOK
<1> QED BY <1>1, Always, PTL

\* Of something that works, and of a service whose endpoints could not be read, the
\* analyzers say at most that the service has none.
LEMMA CalmEmissions ==
  ASSUME NEW O, \A o \in O : Calm(o) \/ o = Unread
  PROVE  Emissions(O) = {ServiceDown(O, r) : r \in NoEndpoints(O)}
<1>1. \A o \in O :
        /\ o.kind \notin {"container.terminated", "container.waiting", "node.condition",
                          "event.recorded"}
        /\ o.kind = "pod.state" => o.val = "Running"
        /\ o.kind = "pvc.state" => o.val = "Bound"
        /\ o.kind = "hpa.state" => o.val = "below"
        /\ o.kind = "deployment.state" => o.val = "up"
  <2>1. Unread.kind = "service.state"
    BY DEF Unread, Obs
  <2> QED BY <2>1 DEF Calm
<1>2. Killed(O) = {} /\ Looping(O) = {} /\ PullFailing(O) = {}
  BY <1>1 DEF Killed, Kills, Looping, PullFailing, On, Of
<1>3. PendingPods(O) = {} /\ Unschedulable(O) = {}
  BY <1>1 DEF PendingPods, Unschedulable, On
<1>4. Pressured(O) = {} /\ Unhealthy(O) = {}
  BY <1>1 DEF Pressured, Unhealthy, On
<1>5. UnboundClaims(O) = {} /\ AtMax(O) = {}
  BY <1>1 DEF UnboundClaims, AtMax, On
<1>6. ~DnsTrouble(O, DnsRef)
  BY <1>1 DEF DnsTrouble, CoreDnsDown, DnsEvents, Seen, Of
<1>7. ChangedResources(O) = {}
  BY <1>1, <1>3 DEF ChangedResources, HasSymptom
<1> QED BY <1>2, <1>3, <1>4, <1>5, <1>6, <1>7 DEF Emissions

\* A pass during which nothing was ever wrong blames nothing, but for a service whose
\* endpoints could not be read.
THEOREM HealthyIsQuiet == Spec => []QuietWhenHealthy
<1>1. IInv => QuietWhenHealthy
  <2> SUFFICES ASSUME IInv, Reported, \A w \in moments : Healthy(w)
               PROVE  \/ Quiet
                      \/ /\ lost > 0 /\ ServiceRef \in NoEndpoints(obs)
                         /\ Len(Verdicts) = 1 /\ Verdicts[1].id = <<"service", App>>
    BY DEF QuietWhenHealthy, AllHealthy
  <2> DEFINE X == Emissions(obs)
  <2>1. \A o \in obs : Calm(o) \/ (lost > 0 /\ o = Unread)
    BY DEF IInv, CalmWhenHealthy
  <2>2. X = {ServiceDown(obs, r) : r \in NoEndpoints(obs)}
    BY <2>1, CalmEmissions
  <2>3. PICK order \in Orders(obs) : report = ReportOf(obs, order)
    BY DEF IInv, ReportIsOfObs, Reported
  <2> DEFINE hs == Emitted(obs, DnsRef, order)
  <2>4. Lists(hs, X)
    BY EmittedLists DEF IInv, Collected
  <2>5. report = [ranked |-> Merge(hs), card |-> Card(hs), severity |-> Severity(hs)]
    BY <2>3 DEF ReportOf
  <2> HIDE DEF hs, X
  <2>6. CASE NoEndpoints(obs) = {}
    <3>1. X = {}
      BY <2>2, <2>6
    <3>2. hs \in Seq({})
      BY <2>4, <3>1 DEF Lists
    <3>3. Merge(hs) = <<>> /\ Card(hs) = "INVESTIGATED" /\ Severity(hs) = "INFO"
      BY <3>2, NothingSaid
    <3> QED BY <2>5, <3>3 DEF Quiet, Verdicts
  <2>7. CASE NoEndpoints(obs) # {}
    <3>1. Unread.on = ServiceRef
      BY DEF Unread, Obs
    <3>2. \A o \in obs : o.kind = "service.state" /\ o.val = "empty" => lost > 0 /\ o = Unread
      BY <2>1 DEF Calm
    <3>3. lost > 0 /\ NoEndpoints(obs) = {ServiceRef}
      BY <2>7, <3>1, <3>2 DEF NoEndpoints, On
    <3> DEFINE h == ServiceDown(obs, ServiceRef)
    <3>4. X = {h}
      BY <2>2, <3>3
    <3>5. h.id = <<"service", App>>
      <4>1. h.id = <<"service", ServiceRef[2]>>
        BY ServiceSays DEF Says
      <4> QED BY <4>1 DEF ServiceRef
    <3>6. h.id # NoID
      BY <3>5, NamesAssumption DEF Precedence
    <3>7. Emittable(X)
      BY EmissionsEmittable DEF IInv, Collected, X
    <3> HIDE DEF h
    <3>8. Len(Merge(hs)) = 1 /\ Merge(hs)[1].id = h.id
      BY <2>4, <3>4, <3>6, <3>7, OneSaid
    <3> QED BY <2>5, <3>3, <3>5, <3>8 DEF Verdicts
  <2> QED BY <2>6, <2>7
<1> QED BY <1>1, Always, PTL

\* What scores higher in every emission of a pass stands above in its report.
LEMMA AboveIs ==
  ASSUME IInv, Reported, NEW a, NEW b,
         \A h, g \in Emissions(obs) : h.id = a /\ g.id = b => h.score > g.score
  PROVE  Above(a, b)
<1>1. PICK hs \in Seq(Emissions(obs)) :
        report = [ranked |-> Merge(hs), card |-> Card(hs), severity |-> Severity(hs)]
  BY Reports
<1>2. Emittable(Emissions(obs))
  BY EmissionsEmittable DEF IInv, Collected
<1>3. \A i, j \in DOMAIN Merge(hs) : Merge(hs)[i].id = a /\ Merge(hs)[j].id = b => i < j
  BY <1>2, Outranks
<1>4. Verdicts = Merge(hs)
  BY <1>1 DEF Verdicts
<1> QED BY <1>3, <1>4 DEF Above

\* A claim that is not bound is ranked above the scheduling of the pod that waits for it,
\* whatever else was seen.
THEOREM ClaimFirst == Spec => []ClaimOutranksScheduling
<1>1. IInv => ClaimOutranksScheduling
  <2> SUFFICES ASSUME IInv, Reported, UnboundClaims(obs) # {}, PendingPods(obs) # {}
               PROVE  Above(<<"pvc", Claim>>, <<"scheduling", Pod>>)
    BY DEF ClaimOutranksScheduling
  <2>1. \A o \in obs : Placed(o)
    BY DEF IInv, Collected
  <2>2. \A r \in PendingPods(obs) : r = PodRef
    BY <2>1 DEF PendingPods, On, Placed, PodKinds
  <2>3. \A r \in Unschedulable(obs) : r = PodRef
    <3>1. \A r \in On(obs, "event.recorded", {"FailedScheduling"}) : r = PodRef
      BY <2>1 DEF On, Placed
    <3> QED BY <2>2, <3>1 DEF Unschedulable
  <2>4. Unbound(obs)
    BY DEF UnboundClaims, On, Unbound, Of
  <2>5. ASSUME NEW h \in Emissions(obs), NEW g \in Emissions(obs),
               h.id = <<"pvc", Claim>>, g.id = <<"scheduling", Pod>>
        PROVE  h.score > g.score
    <3>1. h.id[1] = "pvc" /\ g.id[1] = "scheduling"
      BY <2>5
    <3>2. PICK r \in UnboundClaims(obs) : h = ClaimUnbound(obs, r)
      BY <2>1, <3>1, EmissionsSay
    <3>3. h.score = Sigmoid(60)
      BY <3>2, ClaimSays DEF Says
    <3>4. PICK p \in Unschedulable(obs) : g = Scheduling(obs, p)
      BY <2>1, <3>1, EmissionsSay
    <3>5. p \in PendingPods(obs)
      BY <2>2, <2>3, <3>4
    <3>6. PICK m \in {4, 14, 30, 40} : g.score = Sigmoid(m)
      BY <2>4, <3>4, <3>5, SchedulingSays DEF Says
    <3> QED BY <3>3, <3>6, Scores
  <2> QED BY <2>5, AboveIs
<1> QED BY <1>1, Always, PTL

\* Only the pod is killed for memory, whatever tells of it.
LEMMA KilledPod ==
  ASSUME NEW O, \A o \in O : Placed(o), NEW r \in Killed(O)
  PROVE  r = PodRef
BY DEF Killed, Kills, Placed, PodKinds

\* A container that was killed is in no other state, whenever the pod was read.
LEMMA KilledOnly ==
  ASSUME IInv, NEW r \in OOMKilled(obs)
  PROVE  /\ r = PodRef
         /\ Looping(obs) = {} /\ ~CrashSymptom(obs)
         /\ \A p, k : ~RestartedOver(obs, {"container.running"}, p, k)
         /\ Seen(obs, "container.spec", PodRef, {"limited", "unlimited"})
<1>1. \A o \in obs : Placed(o)
  BY DEF IInv, Collected
<1>2. PICK k \in obs : k.kind = "container.terminated" /\ k.val = "OOMKilled" /\ k.on = r
  BY DEF OOMKilled, On
<1>3. k \in OfThePod(obs)
  BY <1>2 DEF OfThePod, PodKinds
<1>4. PICK w \in moments : OfThePod(obs) = PodObservations(w)
  BY <1>3 DEF IInv, PodReadOnce
<1>5. w \in Worlds
  BY <1>4 DEF IInv, Typed
<1> DEFINE s == Obs("pod.state", PodRef, Phase(w), Bit(w.pod # "unscheduled"), started)
           l == Obs("container.spec", PodRef, IF w.limited THEN "limited" ELSE "unlimited",
                    Bit(w.limited), started)
<1>6. PodObservations(w) = {s, l} \cup ContainerState(w)
  BY DEF PodObservations
<1>7. s.kind = "pod.state" /\ l.kind = "container.spec"
  BY DEF Obs
<1>8. PICK x : ContainerState(w) = {x}
  BY <1>5 DEF ContainerState, Worlds, PodStates
<1>9. l \in obs /\ l.on = PodRef /\ l.val \in {"limited", "unlimited"}
  <2>1. l \in OfThePod(obs)
    BY <1>4, <1>6
  <2>2. l.on = PodRef /\ l.val \in {"limited", "unlimited"}
    BY DEF Obs
  <2> QED BY <2>1, <2>2 DEF OfThePod
<1> HIDE DEF s, l
<1>10. k = x
  BY <1>2, <1>3, <1>4, <1>6, <1>7, <1>8
<1>11. \A o \in obs : o.kind \in {"container.waiting", "container.terminated",
                                  "container.running"} => o = k
  BY <1>4, <1>6, <1>7, <1>8, <1>10 DEF OfThePod, PodKinds
<1>12. r = PodRef
  BY <1>1, <1>2 DEF Placed, PodKinds
<1>13. Looping(obs) = {}
  BY <1>2, <1>11 DEF Looping, On, Of, NotACrash
<1>14. ~CrashSymptom(obs)
  BY <1>2, <1>11 DEF CrashSymptom, NotACrash
<1>15. \A p, n : ~RestartedOver(obs, {"container.running"}, p, n)
  BY <1>2, <1>11 DEF RestartedOver
<1>16. Seen(obs, "container.spec", PodRef, {"limited", "unlimited"})
  BY <1>7, <1>9 DEF Seen
<1> QED BY <1>12, <1>13, <1>14, <1>15, <1>16

\* A kill that is the state of the container is ranked above the symptoms it causes, unless
\* it is the first, has no limit to exceed and happens on a node that is short of memory.
THEOREM KillFirst == Spec => []KillOutranksSymptoms
<1>1. IInv => KillOutranksSymptoms
  <2> DEFINE Excused == /\ Seen(obs, "node.condition", NodeRef, {"MemoryPressure"})
                        /\ Seen(obs, "container.spec", PodRef, {"unlimited"})
                        /\ ~RestartedOver(obs, {"container.terminated"}, PodRef, 1)
                        /\ ~Seen(obs, "event.recorded", PodRef, {"OOMKilling"})
  <2> SUFFICES ASSUME IInv, Reported, PodRef \in OOMKilled(obs), ~Excused,
                      NEW p \in {"probe", "crashloop", "dns"}
               PROVE  Above(<<"memory", Pod>>, <<p, Pod>>)
    BY DEF KillOutranksSymptoms
  <2>1. \A o \in obs : Placed(o)
    BY DEF IInv, Collected
  <2>2. ASSUME NEW h \in Emissions(obs), NEW g \in Emissions(obs),
               h.id = <<"memory", Pod>>, g.id = <<p, Pod>>
        PROVE  h.score > g.score
    <3>1. h.id[1] = "memory" /\ g.id[1] = p
      BY <2>2
    <3>2. PICK r \in Killed(obs) : h = Memory(obs, r)
      BY <2>1, <3>1, EmissionsSay
    <3>0. r = PodRef
      BY <2>1, <3>2, KilledPod
    <3>3. /\ r = PodRef
          /\ Looping(obs) = {} /\ ~CrashSymptom(obs)
          /\ \A q, k : ~RestartedOver(obs, {"container.running"}, q, k)
          /\ Seen(obs, "container.spec", PodRef, {"limited", "unlimited"})
      BY <3>0, KilledOnly
    <3>4. PICK m \in {29, 39, 41, 50, 51, 60, 62, 72} :
            /\ h.score = Sigmoid(m)
            /\ m = 29 => /\ ~Seen(obs, "container.spec", r, {"limited"})
                         /\ ~RestartedOver(obs, {"container.terminated", "container.running"}, r, 1)
                         /\ ~KilledTwice(obs, r)
                         /\ \E o \in obs : o.kind = "node.condition" /\ o.val = "MemoryPressure"
      BY <3>2, MemorySays DEF Says
    <3>5. m # 29
      <4> SUFFICES ASSUME m = 29 PROVE Excused
        OBVIOUS
      <4>1. Seen(obs, "node.condition", NodeRef, {"MemoryPressure"})
        BY <2>1, <3>4 DEF Seen, Placed
      <4>2. Seen(obs, "container.spec", PodRef, {"unlimited"})
        BY <3>3, <3>4 DEF Seen
      <4>3. ~RestartedOver(obs, {"container.terminated"}, PodRef, 1)
        BY <3>3, <3>4 DEF RestartedOver
      <4>4. ASSUME Seen(obs, "event.recorded", PodRef, {"OOMKilling"}) PROVE FALSE
        <5>1. PICK e \in obs : e.kind = "event.recorded" /\ e.on = PodRef /\ e.val = "OOMKilling"
          BY <4>4 DEF Seen
        <5>2. PICK k \in obs : /\ k.kind = "container.terminated" /\ k.on = PodRef
                               /\ k.val = "OOMKilled"
          BY DEF OOMKilled, On
        <5>3. e \in Kills(obs) /\ k \in Kills(obs) /\ e # k
          BY <5>1, <5>2 DEF Kills
        <5> QED BY <3>3, <3>4, <5>1, <5>2, <5>3 DEF KilledTwice
      <4> QED BY <4>1, <4>2, <4>3, <4>4
    <3>6. h.score >= Sigmoid(39) /\ h.score \in Nat
      BY <3>4, <3>5, Scores
    <3>7. CASE p = "probe"
      <4>1. PICK q \in Unhealthy(obs) : g = Probe(obs, q)
        BY <2>1, <3>1, <3>7, EmissionsSay
      <4>2. q = PodRef
        BY <2>1 DEF Unhealthy, On, Placed
      <4>3. g.score = Sigmoid(30)
        BY <3>2, <3>3, <4>1, <4>2, ProbeSays DEF Says
      <4> QED BY <3>6, <4>3, Scores
    <3>8. CASE p = "crashloop"
      BY <2>1, <3>1, <3>3, <3>8, EmissionsSay
    <3>9. CASE p = "dns"
      <4>1. g = DnsFailure(obs, DnsRef)
        BY <2>1, <3>1, <3>9, EmissionsSay
      <4>2. PICK n \in {-20, 5, 10, 35} : g.score = Sigmoid(n)
        BY <3>2, <3>3, <4>1, DnsSays DEF Says
      <4> QED BY <3>6, <4>2, Scores
    <3> QED BY <3>7, <3>8, <3>9
  <2> QED BY <2>2, AboveIs
<1> QED BY <1>1, Always, PTL

-------------------------------------------------------------------------------
(* What the order of the changes does not decide. *)

LEMMA CardOfAll ==
  ASSUME NEW X, NEW hs, Lists(hs, X), NEW gs, Lists(gs, X)
  PROVE  Card(hs) = Card(gs) /\ Severity(hs) = Severity(gs)
<1> DEFINE ranks(s) == {Precedence[s[i].id[1]] : i \in DOMAIN s}
<1>1. /\ \A i \in DOMAIN hs : \E j \in DOMAIN gs : gs[j] = hs[i]
      /\ \A j \in DOMAIN gs : \E i \in DOMAIN hs : hs[i] = gs[j]
  BY DEF Lists
<1>2. ranks(hs) = ranks(gs)
  <2>1. ranks(hs) \subseteq ranks(gs)
    BY <1>1
  <2>2. ranks(gs) \subseteq ranks(hs)
    BY <1>1
  <2> QED BY <2>1, <2>2
<1> DEFINE CardOf(R) == LET best == CHOOSE n \in R \cup {0} : \A m \in R : m <= n
                        IN  IF best = 0
                            THEN "INVESTIGATED"
                            ELSE CHOOSE p \in DOMAIN Precedence : Precedence[p] = best
<1>3. Card(hs) = CardOf(ranks(hs)) /\ Card(gs) = CardOf(ranks(gs))
  BY DEF Card
<1>4. Card(hs) = Card(gs)
  <2> HIDE DEF ranks, CardOf
  <2> QED BY <1>2, <1>3
<1>5. Severity(hs) = Severity(gs)
  <2>1. hs = <<>> <=> gs = <<>>
    <3>1. hs \in Seq(X) /\ gs \in Seq(X)
      BY DEF Lists
    <3> QED BY <1>1, <3>1
  <2>2. (\E i \in DOMAIN hs : Severe(hs[i])) <=> (\E i \in DOMAIN gs : Severe(gs[i]))
    BY <1>1
  <2> QED BY <2>1, <2>2 DEF Severity
<1> QED BY <1>4, <1>5

\* What a ranking says of each hypothesis, without its place.
FactsOf(ranked) ==
  {[id |-> ranked[i].id, score |-> ranked[i].score,
    evidence |-> ranked[i].evidence, missing |-> ranked[i].missing] : i \in DOMAIN ranked}

LEMMA FactsWithin ==
  ASSUME NEW a, NEW b,
         \A k \in DOMAIN a : \E l \in DOMAIN b :
           /\ b[l].id = a[k].id /\ b[l].score = a[k].score
           /\ b[l].evidence = a[k].evidence /\ b[l].missing = a[k].missing
  PROVE  FactsOf(a) \subseteq FactsOf(b)
<1> SUFFICES ASSUME NEW k \in DOMAIN a
             PROVE  [id |-> a[k].id, score |-> a[k].score, evidence |-> a[k].evidence,
                     missing |-> a[k].missing] \in FactsOf(b)
  BY DEF FactsOf
<1>1. PICK l \in DOMAIN b : /\ b[l].id = a[k].id /\ b[l].score = a[k].score
                            /\ b[l].evidence = a[k].evidence /\ b[l].missing = a[k].missing
  OBVIOUS
<1> QED BY <1>1 DEF FactsOf

\* The score of what is emitted goes with its margin.
LEMMA ScoreIsOfMargin ==
  ASSUME NEW X, Emittable(X)
  PROVE  \A h, g \in X : h.margin = g.margin => h.score = g.score
<1>1. ASSUME NEW h \in X PROVE h.score = Sigmoid(h.margin)
  <2>1. PICK m \in -40..110 : IsHyp(h, m)
    BY DEF Emittable
  <2> QED BY <2>1 DEF IsHyp
<1> QED BY <1>1

\* The order in which Go ranges over the changed resources decides between equal scores
\* and nothing else (configregression.go 72-78).
THEOREM OrderIsForTies == Spec => []OrderOnlyBreaksTies
<1>1. IInv => OrderOnlyBreaksTies
  <2> SUFFICES ASSUME IInv, Reported PROVE OrderOnlyBreaksTies
    BY DEF OrderOnlyBreaksTies
  <2> DEFINE some == CHOOSE f \in Orders(obs) : TRUE
             other == ReportOf(obs, some)
             X == Emissions(obs)
  <2>1. IsFiniteSet(obs) /\ Emittable(X)
    BY EmissionsEmittable DEF IInv, Collected
  <2>2. PICK order \in Orders(obs) : report = ReportOf(obs, order)
    BY DEF IInv, ReportIsOfObs, Reported
  <2>3. some \in Orders(obs)
    BY <2>2
  <2> DEFINE hs == Emitted(obs, DnsRef, order)
             gs == Emitted(obs, DnsRef, some)
  <2>4. Lists(hs, X) /\ Lists(gs, X)
    <3> HIDE DEF some
    <3> QED BY <2>1, <2>2, <2>3, EmittedLists
  <2>5. /\ report = [ranked |-> Merge(hs), card |-> Card(hs), severity |-> Severity(hs)]
        /\ other = [ranked |-> Merge(gs), card |-> Card(gs), severity |-> Severity(gs)]
    BY <2>2 DEF ReportOf
  <2> HIDE DEF some, hs, gs, X
  <2>6. X \subseteq HypsOf(X) /\ \A h \in X : h.scored
    BY <2>1, EmittableType
  <2>7. \A h, g \in X : h.margin = g.margin => h.score = g.score
    BY <2>1, ScoreIsOfMargin
  <2>8. ASSUME NEW s, Lists(s, X), NEW u, Lists(u, X)
        PROVE  /\ DOMAIN Merge(s) = DOMAIN Merge(u)
               /\ \A k \in DOMAIN Merge(s) : Merge(s)[k].score = Merge(u)[k].score
               /\ FactsOf(Merge(s)) \subseteq FactsOf(Merge(u))
    <3> DEFINE I == {h.id : h \in X}
               C == {h.claim : h \in X}
               E == UNION {h.evidence : h \in X}
               M == UNION {h.missing : h \in X}
               T == {h.status : h \in X}
    <3>1. X \subseteq Hyps(I, C, E, M, T)
      BY <2>6 DEF HypsOf
    <3> HIDE DEF I, C, E, M, T
    <3>2. /\ DOMAIN Merge(s) = DOMAIN Merge(u)
          /\ \A k \in DOMAIN Merge(s) : Merge(s)[k].score = Merge(u)[k].score
          /\ \A k \in DOMAIN Merge(s) : \E l \in DOMAIN Merge(u) :
               /\ Merge(u)[l].id = Merge(s)[k].id
               /\ Merge(u)[l].score = Merge(s)[k].score
               /\ Merge(u)[l].evidence = Merge(s)[k].evidence
               /\ Merge(u)[l].missing = Merge(s)[k].missing
      BY <2>6, <2>7, <2>8, <3>1, OrderOfEmission
    <3> QED BY <3>2, FactsWithin
  <2>9. Card(hs) = Card(gs) /\ Severity(hs) = Severity(gs)
    BY <2>4, CardOfAll
  <2>10. /\ report.ranked = Merge(hs) /\ report.card = Card(hs) /\ report.severity = Severity(hs)
         /\ other.ranked = Merge(gs) /\ other.card = Card(gs) /\ other.severity = Severity(gs)
    BY <2>5
  <2> HIDE DEF other
  <2>11. FactsOf(report.ranked) = FactsOf(other.ranked)
    <3>1. FactsOf(Merge(hs)) \subseteq FactsOf(Merge(gs))
      BY <2>4, <2>8
    <3>2. FactsOf(Merge(gs)) \subseteq FactsOf(Merge(hs))
      BY <2>4, <2>8
    <3> QED BY <2>10, <3>1, <3>2
  <2>12. \A i \in DOMAIN Verdicts : Verdicts[i].score = other.ranked[i].score
    BY <2>4, <2>8, <2>10 DEF Verdicts
  <2> QED BY <2>9, <2>10, <2>11, <2>12 DEF OrderOnlyBreaksTies, FactsOf, other, some
<1> QED BY <1>1, Always, PTL

-------------------------------------------------------------------------------
(* A pass taken at one instant. *)

LEMMA CallsCount == IsFiniteSet(DOMAIN Calls)
<1>1. DOMAIN Calls = 1..12
  BY DEF Calls
<1>2. 1 \in Int /\ 12 \in Int
  OBVIOUS
<1> QED BY <1>1, <1>2, FS_Interval

\* It is what all calls read, the pod and its owners among it.
LEMMA AtOnceIs ==
  ASSUME NEW w \in Worlds, NEW t \in {PodRef, AppRef}
  PROVE  \E F : /\ PodObservations(w) \cup OwnerChain \subseteq F
                /\ AtOnce(w, t) = UNION {Reads(c, w, t, F) : c \in CallSet}
<1> DEFINE AllRead(O) == UNION {Reads(Calls[i], w, t, O) : i \in DOMAIN Calls}
           Each1(O) == UNION {Reads(c, w, t, O) : c \in CallSet}
           F == AllRead({})
<1>1. AtOnce(w, t) = AllRead(F)
  BY DEF AtOnce
<1>2. \A O : AllRead(O) = Each1(O)
  BY CallsAre
<1>3. Reads("pod", w, t, {}) = PodObservations(w) /\ Reads("owners", w, t, {}) = OwnerChain
  BY DEF Reads
<1>4. "pod" \in CallSet /\ "owners" \in CallSet
  BY DEF CallSet
<1>5. PodObservations(w) \cup OwnerChain \subseteq Each1({})
  BY <1>3, <1>4
<1> HIDE DEF AllRead, Each1
<1>6. PodObservations(w) \cup OwnerChain \subseteq F /\ AtOnce(w, t) = Each1(F)
  BY <1>1, <1>2, <1>5
<1> QED BY <1>6 DEF Each1

\* It holds what any call reads at that instant, of a node only when the pod has one.
LEMMA AtOnceHolds ==
  ASSUME NEW w \in Worlds, NEW t \in {PodRef, AppRef}, NEW O, NEW c \in CallSet,
         c = "node" => w.pod # "unscheduled"
  PROVE  Reads(c, w, t, O) \subseteq AtOnce(w, t)
<1>1. PICK F : /\ PodObservations(w) \cup OwnerChain \subseteq F
               /\ AtOnce(w, t) = UNION {Reads(d, w, t, F) : d \in CallSet}
  BY AtOnceIs
<1>2. Reads(c, w, t, F) \subseteq AtOnce(w, t)
  BY <1>1
<1>3. c \notin {"node", "git"} => Reads(c, w, t, O) = Reads(c, w, t, F)
  BY DEF Reads, CallSet
<1>4. CASE c = "node"
  <2> DEFINE s == Obs("pod.state", PodRef, Phase(w), Bit(w.pod # "unscheduled"), started)
  <2>1. s \in F
    BY <1>1 DEF PodObservations
  <2>2. s.kind = "pod.state" /\ s.n = 1
    BY <1>4 DEF Obs, Bit
  <2> HIDE DEF s
  <2>3. Reads(c, w, t, F) = NodeObservations(w)
    BY <1>4, <2>1, <2>2 DEF Reads
  <2>4. Reads(c, w, t, O) \subseteq NodeObservations(w)
    BY <1>4 DEF Reads
  <2> QED BY <1>2, <2>3, <2>4
<1>5. CASE c = "git"
  <2> DEFINE r == Obs("resource.owner", RsRef, "Deployment", 0, started)
  <2>1. r \in F /\ r.kind = "resource.owner" /\ r.on = RsRef
    BY <1>1 DEF OwnerChain, Obs
  <2> HIDE DEF r
  <2>2. KnowsApp(t, F)
    BY <2>1 DEF KnowsApp
  <2>3. GitObservations(w, t, O) \subseteq GitObservations(w, t, F)
    BY <2>2 DEF GitObservations
  <2>4. \A G : Reads(c, w, t, G) = GitObservations(w, t, G)
    BY <1>5 DEF Reads
  <2> QED BY <1>2, <2>3, <2>4
<1> QED BY <1>2, <1>3, <1>4, <1>5

\* It reads the pod as one GET does, and nothing where it does not belong.
LEMMA AtOnceReads ==
  ASSUME NEW w \in Worlds, NEW t \in {PodRef, AppRef}
  PROVE  /\ IsFiniteSet(AtOnce(w, t))
         /\ \A o \in AtOnce(w, t) : Placed(o)
         /\ OfThePod(AtOnce(w, t)) = PodObservations(w)
         /\ \A o \in AtOnce(w, t) : \E c \in CallSet : \E F : o \in Reads(c, w, t, F)
<1> DEFINE A == AtOnce(w, t)
<1>1. PICK F : A = UNION {Reads(c, w, t, F) : c \in CallSet}
  BY AtOnceIs
<1>2. ASSUME NEW c \in CallSet
      PROVE  /\ IsFiniteSet(Reads(c, w, t, F))
             /\ \A o \in Reads(c, w, t, F) : Placed(o) /\ (c # "pod" => o.kind \notin PodKinds)
  BY ReadsAre
<1>3. IsFiniteSet(A)
  <2> DEFINE f == [i \in DOMAIN Calls |-> Reads(Calls[i], w, t, F)]
             R == {f[i] : i \in DOMAIN Calls}
  <2>1. IsFiniteSet(R)
    <3> HIDE DEF f
    <3> QED BY CallsCount, ImageFinite
  <2>2. R = {Reads(c, w, t, F) : c \in CallSet}
    BY CallsAre
  <2>3. \A S \in R : IsFiniteSet(S)
    BY <1>2, <2>2
  <2>4. A = UNION R
    BY <1>1, <2>2
  <2> HIDE DEF R
  <2> QED BY <2>1, <2>3, <2>4, FS_UNION
<1>4. PodObservations(w) \subseteq A
  <2>1. Reads("pod", w, t, F) = PodObservations(w) /\ "pod" \in CallSet
    BY DEF Reads, CallSet
  <2> QED BY <1>1, <2>1
<1>5. OfThePod(A) = PodObservations(w)
  <2>1. PodObservations(w) \subseteq OfThePod(A)
    BY <1>4, PodIsRead DEF OfThePod
  <2>2. ASSUME NEW o \in OfThePod(A) PROVE o \in PodObservations(w)
    <3>1. o.kind \in PodKinds /\ o \in A
      BY DEF OfThePod
    <3> HIDE DEF A
    <3>2. PICK c \in CallSet : o \in Reads(c, w, t, F)
      BY <1>1, <3>1
    <3>3. c = "pod"
      BY <1>2, <3>1, <3>2
    <3> QED BY <3>2, <3>3 DEF Reads
  <2> QED BY <2>1, <2>2
<1> HIDE DEF A
<1>6. \A o \in A : Placed(o) /\ \E c \in CallSet : \E G : o \in Reads(c, w, t, G)
  BY <1>1, <1>2
<1> QED BY <1>3, <1>5, <1>6 DEF A

\* There is an order of the changes, and what is blamed is what is emitted.
LEMMA BlamedIs ==
  ASSUME NEW O, IsFiniteSet(O)
  PROVE  /\ (CHOOSE f \in Orders(O) : TRUE) \in Orders(O)
         /\ Blamed(O) = {h.id : h \in Emissions(O)}
<1> DEFINE R == ChangedResources(O)
           order == CHOOSE f \in Orders(O) : TRUE
           hs == Emitted(O, DnsRef, order)
<1>1. IsFiniteSet(R)
  BY FoundFinite
<1>2. Listing(R) \in Orders(O)
  <2> HIDE DEF R
  <2>1. Listing(R) \in {f \in [1..Cardinality(R) -> R] : \A r \in R : \E i \in DOMAIN f : f[i] = r}
    BY <1>1, ListingIs
  <2> QED BY <2>1 DEF Orders, R
<1>3. order \in Orders(O)
  BY <1>2
<1>4. Lists(hs, Emissions(O))
  <2> HIDE DEF order
  <2> QED BY <1>3, EmittedLists
<1>5. Blamed(O) = {hs[i].id : i \in DOMAIN hs}
  BY DEF Blamed
<1> HIDE DEF order, hs
<1>6. \A i \in DOMAIN hs : hs[i] \in Emissions(O)
  BY <1>4 DEF Lists
<1>7. \A h \in Emissions(O) : \E i \in DOMAIN hs : hs[i] = h
  BY <1>4 DEF Lists
<1>8. {hs[i].id : i \in DOMAIN hs} = {h.id : h \in Emissions(O)}
  BY <1>6, <1>7
<1> QED BY <1>3, <1>5, <1>8 DEF order

-------------------------------------------------------------------------------
(* A crash loop, polled at either of its moments. *)

ContainerKinds == {"container.waiting", "container.terminated", "container.running"}

\* Only the GET of the pod sees the state of the container.
LEMMA ElsewhereTheSame ==
  ASSUME NEW w, NEW v, NEW t, NEW O, NEW c \in CallSet \ {"pod"},
         v.limited = w.limited, v.claim = w.claim, v.node = w.node, v.dns = w.dns,
         v.routed = w.routed, v.hpa = w.hpa, v.events = w.events, v.kills = w.kills,
         v.commit = w.commit, v.gitops = w.gitops
  PROVE  Reads(c, w, t, O) = Reads(c, v, t, O)
<1>1. /\ ClaimObservations(w) = ClaimObservations(v)
      /\ ServiceObservations(w) = ServiceObservations(v)
      /\ HpaObservations(w) = HpaObservations(v)
      /\ NodeObservations(w) = NodeObservations(v)
      /\ DnsObservations(w) = DnsObservations(v)
      /\ GitObservations(w, t, O) = GitObservations(v, t, O)
      /\ GitOpsObservations(w) = GitOpsObservations(v)
      /\ PodEvents(w) = PodEvents(v)
  BY DEF ClaimObservations, ServiceObservations, HpaObservations, NodeObservations,
         DnsObservations, GitObservations, GitOpsObservations, PodEvents
<1> QED BY <1>1 DEF Reads, CallSet

\* The two passes over a loop differ in the state of the container.
LEMMA LoopReads ==
  ASSUME NEW w \in Worlds, NEW t \in {PodRef, AppRef}, w.restarts = 2
  PROVE  \E R : /\ AtOnce([w EXCEPT !.pod = "crashed"], t)
                     = R \cup {Obs("container.terminated", PodRef, "Error", 2, failed)}
                /\ AtOnce([w EXCEPT !.pod = "backoff"], t)
                     = R \cup {Obs("container.waiting", PodRef, "CrashLoopBackOff", 2, started)}
                /\ \A o \in R : o.kind \notin ContainerKinds
<1> DEFINE v == [w EXCEPT !.pod = "crashed"]
           u == [w EXCEPT !.pod = "backoff"]
           A == AtOnce(v, t)
           B == AtOnce(u, t)
           a == Obs("container.terminated", PodRef, "Error", 2, failed)
           b == Obs("container.waiting", PodRef, "CrashLoopBackOff", 2, started)
           spec == Obs("container.spec", PodRef, IF w.limited THEN "limited" ELSE "unlimited",
                       Bit(w.limited), started)
           state == Obs("pod.state", PodRef, "Running", 1, started)
<1>1. /\ v \in Worlds /\ v.pod = "crashed" /\ v.restarts = 2
      /\ u \in Worlds /\ u.pod = "backoff" /\ u.restarts = 2
      /\ v.limited = w.limited /\ u.limited = w.limited
      /\ v.claim = u.claim /\ v.node = u.node /\ v.dns = u.dns /\ v.routed = u.routed
      /\ v.hpa = u.hpa /\ v.events = u.events /\ v.kills = u.kills
      /\ v.commit = u.commit /\ v.gitops = u.gitops
  BY DEF Worlds, PodStates
<1> HIDE DEF v, u
<1>2. PodObservations(v) = {state, spec} \cup {a} /\ PodObservations(u) = {state, spec} \cup {b}
  BY <1>1 DEF PodObservations, ContainerState, Phase, Bit
<1>3. /\ a.kind \in ContainerKinds /\ b.kind \in ContainerKinds
      /\ state.kind \notin ContainerKinds /\ spec.kind \notin ContainerKinds
  BY DEF Obs, ContainerKinds
<1> HIDE DEF a, b, spec, state
<1>4. ASSUME NEW x \in {v, u}, NEW y \in {v, u}, NEW o \in AtOnce(x, t),
             o.kind \notin ContainerKinds
      PROVE  o \in AtOnce(y, t)
  <2>1. x \in Worlds /\ y \in Worlds /\ y.pod # "unscheduled"
    BY <1>1
  <2>2. PICK c \in CallSet : \E F : o \in Reads(c, x, t, F)
    BY <2>1, AtOnceReads
  <2> PICK F : o \in Reads(c, x, t, F)
    BY <2>2
  <2>3. CASE c = "pod"
    <3>1. o \in PodObservations(x)
      BY <2>3 DEF Reads
    <3>2. o \in {state, spec}
      BY <1>2, <1>3, <1>4, <3>1
    <3>3. o \in PodObservations(y)
      BY <1>2, <3>2
    <3> QED BY <2>1, <3>3, AtOnceReads DEF OfThePod
  <2>4. CASE c # "pod"
    <3>1. Reads(c, x, t, F) = Reads(c, y, t, F)
      BY <1>1, <2>4, ElsewhereTheSame
    <3>2. Reads(c, y, t, F) \subseteq AtOnce(y, t)
      BY <2>1, AtOnceHolds
    <3> QED BY <3>1, <3>2
  <2> QED BY <2>3, <2>4
<1>5. /\ \A o \in A : o.kind \in ContainerKinds => o = a
      /\ \A o \in B : o.kind \in ContainerKinds => o = b
      /\ a \in A /\ b \in B
  <2>1. OfThePod(A) = {state, spec} \cup {a} /\ OfThePod(B) = {state, spec} \cup {b}
    BY <1>1, <1>2, AtOnceReads
  <2>2. ContainerKinds \subseteq PodKinds
    BY DEF ContainerKinds, PodKinds
  <2> HIDE DEF A, B
  <2> QED BY <1>3, <2>1, <2>2 DEF OfThePod
<1>6. \A o : o.kind \notin ContainerKinds => (o \in A <=> o \in B)
  BY <1>4
<1> HIDE DEF A, B
<1> DEFINE R == {o \in A : o.kind \notin ContainerKinds}
<1>7. A = R \cup {a}
  BY <1>5
<1>8. B = R \cup {b}
  BY <1>3, <1>5, <1>6
<1>9. \A o \in R : o.kind \notin ContainerKinds
  OBVIOUS
<1> HIDE DEF R
<1> QED BY <1>7, <1>8, <1>9 DEF A, B, v, u, a, b

\* What may differ between the two moments of a loop: a change by its age, and an earlier
\* kill by the restarts it is seen with.
Polled == {"configregression", "memory"}

\* Everything else is explained the same from both.
LEMMA LoopEmits ==
  ASSUME NEW R, \A o \in R : o.kind \notin ContainerKinds,
         NEW P, P = R \cup {Obs("container.terminated", PodRef, "Error", 2, failed)},
         NEW Q, Q = R \cup {Obs("container.waiting", PodRef, "CrashLoopBackOff", 2, started)}
  PROVE  {h \in Emissions(P) : h.id[1] \notin Polled} = {h \in Emissions(Q) : h.id[1] \notin Polled}
<1> DEFINE a == Obs("container.terminated", PodRef, "Error", 2, failed)
           b == Obs("container.waiting", PodRef, "CrashLoopBackOff", 2, started)
<1>1. /\ a.kind = "container.terminated" /\ a.on = PodRef /\ a.val = "Error" /\ a.n = 2
      /\ b.kind = "container.waiting" /\ b.on = PodRef /\ b.val = "CrashLoopBackOff" /\ b.n = 2
  BY DEF Obs
<1>2. P = R \cup {a} /\ Q = R \cup {b}
  OBVIOUS
<1> HIDE DEF a, b
<1>3. /\ \A o \in P : o.kind \in ContainerKinds => o = a
      /\ \A o \in Q : o.kind \in ContainerKinds => o = b
      /\ a \in P /\ b \in Q
      /\ \A o : o.kind \notin ContainerKinds => (o \in P <=> o \in Q)
  BY <1>1, <1>2 DEF ContainerKinds
<1>4. ASSUME NEW kind, kind \notin ContainerKinds
      PROVE  /\ Of(P, kind) = Of(Q, kind)
             /\ \A vals : On(P, kind, vals) = On(Q, kind, vals)
             /\ \A r, vals : Seen(P, kind, r, vals) <=> Seen(Q, kind, r, vals)
  <2>1. Of(P, kind) = Of(Q, kind)
    BY <1>3, <1>4 DEF Of
  <2>2. ASSUME NEW vals PROVE On(P, kind, vals) = On(Q, kind, vals)
    <3>1. {o \in P : o.kind = kind /\ o.val \in vals} = {o \in Q : o.kind = kind /\ o.val \in vals}
      BY <1>3, <1>4
    <3> QED BY <3>1 DEF On
  <2>3. ASSUME NEW r, NEW vals PROVE Seen(P, kind, r, vals) <=> Seen(Q, kind, r, vals)
    BY <1>3, <1>4 DEF Seen
  <2> QED BY <2>1, <2>2, <2>3
<1>5. /\ \A k \in {"pod.state", "container.spec", "event.recorded", "node.condition", "pvc.state",
                   "service.state", "hpa.state", "deployment.state"} : k \notin ContainerKinds
      /\ {"container.waiting", "container.terminated", "container.running"} = ContainerKinds
  BY DEF ContainerKinds
<1>6. OOMKilled(P) = {} /\ OOMKilled(Q) = {} /\ PullFailing(P) = {} /\ PullFailing(Q) = {}
  BY <1>1, <1>3, <1>5 DEF OOMKilled, PullFailing, On
<1>7. Looping(P) = {PodRef} /\ Looping(Q) = {PodRef}
  <2>1. On(P, "container.waiting", {"CrashLoopBackOff"}) = {}
    BY <1>1, <1>3, <1>5 DEF On
  <2>2. {o \in Of(P, "container.terminated") : o.val \notin NotACrash /\ o.n >= 2} = {a}
    BY <1>1, <1>3, <1>5 DEF Of, NotACrash
  <2>3. {o \in Q : o.kind = "container.waiting" /\ o.val \in {"CrashLoopBackOff"}} = {b}
    BY <1>1, <1>3, <1>5
  <2>4. Of(Q, "container.terminated") = {}
    BY <1>1, <1>3, <1>5 DEF Of
  <2>5. Looping(P) = {} \cup {o.on : o \in {a}}
    BY <2>1, <2>2 DEF Looping
  <2>6. Looping(Q) = {o.on : o \in {b}}
        \cup {o.on : o \in {o \in Of(Q, "container.terminated") : o.val \notin NotACrash /\ o.n >= 2}}
    BY <2>3 DEF Looping, On
  <2> QED BY <1>1, <2>4, <2>5, <2>6
<1>8. CrashLoop(P, PodRef) = CrashLoop(Q, PodRef)
  <2> DEFINE K == {"container.waiting", "container.terminated", "container.running"}
  <2>1. RestartedOver(P, K, PodRef, 1) /\ RestartedOver(Q, K, PodRef, 1)
    BY <1>1, <1>3 DEF RestartedOver
  <2>2. PodRef \notin OOMKilled(P) /\ PodRef \notin OOMKilled(Q)
    BY <1>6
  <2>3. RestartedOver(P, K, PodRef, 1) = RestartedOver(Q, K, PodRef, 1)
    BY <2>1, Zenon
  <2>4. (PodRef \in OOMKilled(P)) = (PodRef \in OOMKilled(Q))
    BY <2>2, SMT
  <2> QED BY <2>3, <2>4, Zenon DEF CrashLoop
<1>9. PendingPods(P) = PendingPods(Q) /\ Unschedulable(P) = Unschedulable(Q)
  BY <1>4, <1>5 DEF PendingPods, Unschedulable
<1>10. ASSUME NEW r PROVE Scheduling(P, r) = Scheduling(Q, r)
  <2>1. Seen(P, "event.recorded", r, {"FailedScheduling"})
          = Seen(Q, "event.recorded", r, {"FailedScheduling"})
    <3>1. Seen(P, "event.recorded", r, {"FailedScheduling"})
            <=> Seen(Q, "event.recorded", r, {"FailedScheduling"})
      BY <1>4, <1>5
    <3> QED BY ONLY <3>1, SMT DEF Seen
  <2>2. Unbound(P) = Unbound(Q)
    BY <1>4, <1>5 DEF Unbound
  <2>3. Of(P, "container.spec") = Of(Q, "container.spec")
    BY <1>4, <1>5
  <2> QED BY <1>9, <2>1, <2>2, <2>3 DEF Scheduling
<1>11. /\ Pressured(P) = Pressured(Q)
       /\ \A r : NodePressure(P, r) = NodePressure(Q, r)
  BY <1>4, <1>5 DEF Pressured, NodePressure
<1>12. /\ Unhealthy(P) = Unhealthy(Q)
       /\ \A r : Probe(P, r) = Probe(Q, r)
  <2>1. Unhealthy(P) = Unhealthy(Q)
    BY <1>4, <1>5 DEF Unhealthy
  <2>2. \A r : /\ RestartedOver(P, {"container.running"}, r, 0) = FALSE
               /\ RestartedOver(Q, {"container.running"}, r, 0) = FALSE
    BY <1>1, <1>3, <1>5 DEF RestartedOver
  <2> QED BY <1>6, <2>1, <2>2 DEF Probe
<1>13. DnsTrouble(P, DnsRef) = DnsTrouble(Q, DnsRef) /\ DnsFailure(P, DnsRef) = DnsFailure(Q, DnsRef)
  <2>1. DnsEvents(P) = DnsEvents(Q)
    BY <1>4, <1>5 DEF DnsEvents
  <2>2. CoreDnsDown(P, DnsRef) = CoreDnsDown(Q, DnsRef)
    <3>1. Seen(P, "deployment.state", DnsRef, {"down"}) <=> Seen(Q, "deployment.state", DnsRef, {"down"})
      BY <1>4, <1>5
    <3> QED BY ONLY <3>1, SMT DEF CoreDnsDown, Seen
  <2>3. CrashSymptom(P) = TRUE /\ CrashSymptom(Q) = TRUE
    BY <1>1, <1>3 DEF CrashSymptom, NotACrash
  <2> QED BY <1>6, <2>1, <2>2, <2>3 DEF DnsTrouble, DnsFailure
<1>14. UnboundClaims(P) = UnboundClaims(Q) /\ \A r : ClaimUnbound(P, r) = ClaimUnbound(Q, r)
  <2>1. \A r : ClaimEvents(P, r) = ClaimEvents(Q, r)
    BY <1>3, <1>5 DEF ClaimEvents
  <2> QED BY <1>4, <1>5, <2>1 DEF UnboundClaims, ClaimUnbound
<1>15. /\ NoEndpoints(P) = NoEndpoints(Q)
       /\ \A r : ServiceDown(P, r) = ServiceDown(Q, r)
  <2>1. ReadyPods(P) = ReadyPods(Q) /\ FailingPods(P) = FailingPods(Q)
    BY <1>4, <1>5 DEF ReadyPods, FailingPods
  <2> QED BY <1>4, <1>5, <2>1 DEF NoEndpoints, ServiceDown
<1>16. AtMax(P) = AtMax(Q) /\ \A r : AtMaximum(P, r) = AtMaximum(Q, r)
  BY <1>4, <1>5 DEF AtMax, AtMaximum
<1>17. \A O, r : Regression(O, r).id[1] \in Polled /\ Memory(O, r).id[1] \in Polled
  <2>1. \A O, r : Regression(O, r).id[1] = "configregression"
    BY HypothesizeSays DEF Regression, Says
  <2>2. ASSUME NEW O, NEW r PROVE Memory(O, r).id[1] = "memory"
    <3>1. Memory(O, r).id = <<"memory", r[2]>>
      BY MemorySays DEF Says
    <3> QED BY <3>1
  <2> QED BY <2>1, <2>2 DEF Polled
<1> DEFINE Rest(O) ==
      {CrashLoop(O, r) : r \in Looping(O)}
      \cup {ImagePull(O, r) : r \in PullFailing(O)}
      \cup {Scheduling(O, r) : r \in Unschedulable(O)}
      \cup {NodePressure(O, r) : r \in Pressured(O)}
      \cup {Probe(O, r) : r \in Unhealthy(O)}
      \cup {ClaimUnbound(O, r) : r \in UnboundClaims(O)}
      \cup {ServiceDown(O, r) : r \in NoEndpoints(O)}
      \cup {AtMaximum(O, r) : r \in AtMax(O)}
      \cup {h \in {DnsFailure(O, DnsRef)} : DnsTrouble(O, DnsRef)}
<1>18. \A O : Emissions(O) = Rest(O) \cup {Regression(O, r) : r \in ChangedResources(O)}
                             \cup {Memory(O, r) : r \in Killed(O)}
  BY DEF Emissions
<1>19. Rest(P) = Rest(Q)
  <2>2. {CrashLoop(P, r) : r \in Looping(P)} = {CrashLoop(Q, r) : r \in Looping(Q)}
    BY <1>7, <1>8
  <2>3. {ImagePull(P, r) : r \in PullFailing(P)} = {ImagePull(Q, r) : r \in PullFailing(Q)}
    BY <1>6
  <2>4. {Scheduling(P, r) : r \in Unschedulable(P)} = {Scheduling(Q, r) : r \in Unschedulable(Q)}
    BY <1>9, <1>10
  <2>5. {NodePressure(P, r) : r \in Pressured(P)} = {NodePressure(Q, r) : r \in Pressured(Q)}
    BY <1>11
  <2>6. {Probe(P, r) : r \in Unhealthy(P)} = {Probe(Q, r) : r \in Unhealthy(Q)}
    BY <1>12
  <2>7. {ClaimUnbound(P, r) : r \in UnboundClaims(P)} = {ClaimUnbound(Q, r) : r \in UnboundClaims(Q)}
    BY <1>14
  <2>8. {ServiceDown(P, r) : r \in NoEndpoints(P)} = {ServiceDown(Q, r) : r \in NoEndpoints(Q)}
    BY <1>15
  <2>9. {AtMaximum(P, r) : r \in AtMax(P)} = {AtMaximum(Q, r) : r \in AtMax(Q)}
    BY <1>16
  <2>10. {h \in {DnsFailure(P, DnsRef)} : DnsTrouble(P, DnsRef)}
           = {h \in {DnsFailure(Q, DnsRef)} : DnsTrouble(Q, DnsRef)}
    BY <1>13
  <2> QED BY <2>2, <2>3, <2>4, <2>5, <2>6, <2>7, <2>8, <2>9, <2>10, Zenon
<1> HIDE DEF Rest
<1>20. \A O : {h \in Emissions(O) : h.id[1] \notin Polled} = {h \in Rest(O) : h.id[1] \notin Polled}
  BY <1>17, <1>18
<1> QED BY <1>19, <1>20

\* What a ranking says of everything else.
ButChanges(hs) ==
  {<<hs[i].id, hs[i].score, hs[i].evidence, hs[i].missing>> :
     i \in {i \in DOMAIN hs : hs[i].id[1] \notin Polled}}

LEMMA SameButChanges ==
  ASSUME NEW X, Emittable(X), NEW Y, Emittable(Y), NEW hs, Lists(hs, X), NEW gs, Lists(gs, Y),
         {h \in X : h.id[1] \notin Polled} = {h \in Y : h.id[1] \notin Polled}
  PROVE  ButChanges(Merge(hs)) \subseteq ButChanges(Merge(gs))
<1> DEFINE V == Merge(hs)
           U == Merge(gs)
<1>1. /\ \A n \in DOMAIN V : MergedFrom(V[n], X) /\ V[n].id \in {h.id : h \in X} \ {NoID}
      /\ \A n \in DOMAIN U : MergedFrom(U[n], Y)
      /\ \A h \in Y : h.id # NoID => \E n \in DOMAIN U : U[n].id = h.id
  <2>1. ASSUME NEW Z, Emittable(Z), NEW s, Lists(s, Z)
        PROVE  /\ \A n \in DOMAIN Merge(s) : /\ MergedFrom(Merge(s)[n], Z)
                                             /\ Merge(s)[n].id \in {h.id : h \in Z} \ {NoID}
               /\ \A h \in Z : h.id # NoID => \E n \in DOMAIN Merge(s) : Merge(s)[n].id = h.id
    BY <2>1, MergedEmissions
  <2> QED BY <2>1
<1>2. /\ \A h \in X : h.margin \in Int
      /\ \A h, g \in X : h.margin = g.margin => h.score = g.score
  <2>1. ASSUME NEW h \in X PROVE h.margin \in Int
    <3>1. PICK m \in -40..110 : IsHyp(h, m)
      BY DEF Emittable
    <3> QED BY <3>1 DEF IsHyp
  <2> QED BY <2>1, ScoreIsOfMargin
<1> HIDE DEF V, U
<1>3. ASSUME NEW i \in DOMAIN V, V[i].id[1] \notin Polled
      PROVE  \E j \in DOMAIN U :
               /\ U[j].id = V[i].id /\ U[j].score = V[i].score
               /\ U[j].evidence = V[i].evidence /\ U[j].missing = V[i].missing
  <2>1. PICK h \in X : h.id = V[i].id /\ h.id # NoID
    BY <1>1
  <2>2. h \in Y
    BY <1>3, <2>1
  <2>3. PICK j \in DOMAIN U : U[j].id = V[i].id
    BY <1>1, <2>1, <2>2
  <2>4. {k \in X : k.id = V[i].id} = {k \in Y : k.id = V[i].id}
    BY <1>3
  <2> DEFINE m == V[i]
             u == U[j]
  <2>5. MergedFrom(m, X) /\ MergedFrom(u, Y) /\ u.id = m.id
    BY <1>1, <2>3
  <2>6. u.score = m.score /\ u.evidence = m.evidence /\ u.missing = m.missing
    <3>1. {k \in X : k.id = m.id} = {k \in Y : k.id = m.id}
      BY <2>4
    <3> HIDE DEF m, u
    <3> QED BY <1>2, <2>5, <3>1, SameEntry
  <2> QED BY <2>3, <2>6
<1>4. ASSUME NEW i \in DOMAIN V, V[i].id[1] \notin Polled
      PROVE  <<V[i].id, V[i].score, V[i].evidence, V[i].missing>> \in ButChanges(U)
  <2>1. PICK j \in DOMAIN U : /\ U[j].id = V[i].id /\ U[j].score = V[i].score
                              /\ U[j].evidence = V[i].evidence /\ U[j].missing = V[i].missing
    BY <1>3, <1>4
  <2> QED BY <1>4, <2>1 DEF ButChanges
<1> QED BY <1>4 DEF ButChanges, V, U

\* A crash loop is the same loop whether it is polled in back-off or just after a crash
\* (crashloop.go 55-62): but for a change and an earlier kill, the rankings say the same.
THEOREM LoopIsALoop == Spec => []LoopLooksTheSame
<1>1. IInv => LoopLooksTheSame
  <2> SUFFICES ASSUME IInv, LoopedTwice PROVE LoopLooksTheSame
    BY DEF LoopLooksTheSame
  <2>1. world \in Worlds /\ target \in {PodRef, AppRef} /\ world.restarts = 2
    BY DEF IInv, Typed, LoopedTwice
  <2> DEFINE P == AtOnce([world EXCEPT !.pod = "crashed"], target)
             Q == AtOnce([world EXCEPT !.pod = "backoff"], target)
  <2>2. {h \in Emissions(P) : h.id[1] \notin Polled}
          = {h \in Emissions(Q) : h.id[1] \notin Polled}
    <3>1. PICK R : /\ P = R \cup {Obs("container.terminated", PodRef, "Error", 2, failed)}
                   /\ Q = R \cup {Obs("container.waiting", PodRef, "CrashLoopBackOff", 2, started)}
                   /\ \A o \in R : o.kind \notin ContainerKinds
      BY <2>1, LoopReads
    <3> HIDE DEF P, Q
    <3> QED BY <3>1, LoopEmits
  <2>3. /\ [world EXCEPT !.pod = "crashed"] \in Worlds
        /\ [world EXCEPT !.pod = "backoff"] \in Worlds
    BY <2>1 DEF Worlds, PodStates
  <2>4. /\ IsFiniteSet(P) /\ \A o \in P : Placed(o)
        /\ IsFiniteSet(Q) /\ \A o \in Q : Placed(o)
    BY <2>1, <2>3, AtOnceReads
  <2>5. PICK f \in Orders(P) : PolledIn("crashed") = Merge(Emitted(P, DnsRef, f))
    BY <2>4, BlamedIs DEF PolledIn, ReportOf
  <2>6. PICK g \in Orders(Q) : PolledIn("backoff") = Merge(Emitted(Q, DnsRef, g))
    BY <2>4, BlamedIs DEF PolledIn, ReportOf
  <2> DEFINE hs == Emitted(P, DnsRef, f)
             gs == Emitted(Q, DnsRef, g)
  <2>7. Lists(hs, Emissions(P)) /\ Lists(gs, Emissions(Q))
    BY <2>4, <2>5, <2>6, EmittedLists
  <2>8. Emittable(Emissions(P)) /\ Emittable(Emissions(Q))
    BY <2>4, EmissionsEmittable
  <2> HIDE DEF P, Q, hs, gs
  <2>9. /\ ButChanges(Merge(hs)) \subseteq ButChanges(Merge(gs))
        /\ ButChanges(Merge(gs)) \subseteq ButChanges(Merge(hs))
    BY <2>2, <2>7, <2>8, SameButChanges
  <2>10. PolledIn("crashed") = Merge(hs) /\ PolledIn("backoff") = Merge(gs)
    BY <2>5, <2>6 DEF hs, gs
  <2> QED BY <2>9, <2>10 DEF LoopLooksTheSame, ButChanges, Polled
<1> QED BY <1>1, Always, PTL

-------------------------------------------------------------------------------
(* When what was read was so. *)

PodSeen == \E o \in obs : o.kind = "pod.state"
SeenRunning == \E o \in obs : o.kind = "pod.state" /\ o.val = "Running"
SeenPlaced == \E o \in obs : o.kind = "pod.state" /\ o.n = 1

\* Nothing a pass can see makes the manifests or the view of coreDNS change.
Alike(w, v) ==
  w.commit = v.commit /\ w.gitops = v.gitops /\ (w.dns = "hidden" <=> v.dns = "hidden")

\* What cannot change during a pass, and what a pod that was read cannot lose any more.
Kept ==
  /\ \A w \in moments : Alike(w, world)
  /\ SeenRunning => Phase(world) = "Running"
  /\ SeenPlaced => world.pod # "unscheduled"

\* Without a failing call the pod is read, after nothing but its deployment.
PodInTurn ==
  /\ pc \in {"idle", "deployment", "pod"} => \A o \in obs : o.kind = "deployment.state"
  /\ lost = 0 /\ pc \notin {"idle", "deployment", "pod"} => PodSeen

\* Every observation is one that all calls made at some moment would have shared, the
\* events one of a moment at which the pod ran if it was seen running; but for endpoints
\* that could not be read.
ReadAt(o) ==
  \E w \in moments :
    /\ o \in AtOnce(w, target)
    /\ o.kind = "event.recorded" /\ SeenRunning => Phase(w) = "Running"
ReadInTime == \A o \in obs : ReadAt(o) \/ (lost > 0 /\ o = Unread)

BeforeEvents ==
  pc \in {"idle", "deployment", "pod", "owners", "controller", "claim", "services",
          "autoscaler", "events"}

\* coreDNS was down at a moment at which no event spoke of it.
DownUnnoticed == \E w \in moments : w.dns = "down" /\ "Failed" \notin w.events

\* When coreDNS was seen down and the events did not speak of it, there was such a
\* moment: a pull only fails for its name while coreDNS is down.
DnsInTime ==
  lost = 0 /\ DnsEvents(obs) = {} =>
    /\ BeforeEvents \/ "Failed" \notin world.events \/ DownUnnoticed
    /\ CoreDnsDown(obs, DnsRef) => DownUnnoticed

AllPlausible == Plausible(world) /\ \A w \in moments : Plausible(w)

Timed == IInv /\ Kept /\ PodInTurn /\ ReadInTime /\ DnsInTime /\ AllPlausible

\* What no change of the cluster does.
LEMMA ShiftsKeep ==
  ASSUME NEW w \in Worlds, NEW v \in Shifts(w)
  PROVE  /\ Alike(v, w)
         /\ Phase(w) = "Running" => Phase(v) = "Running"
         /\ w.pod # "unscheduled" => v.pod # "unscheduled"
         /\ Plausible(w) => Plausible(v)
         /\ "Failed" \in v.events => "Failed" \in w.events \/ w.dns = "down"
<1> DEFINE Pending == {"unscheduled", "creating", "pulling"}
           Fine == /\ Alike(v, w)
                   /\ w.pod \notin Pending => v.pod \notin Pending
                   /\ w.pod # "unscheduled" => v.pod # "unscheduled"
                   /\ Plausible(w) => Plausible(v)
                   /\ "Failed" \in v.events => "Failed" \in w.events \/ w.dns = "down"
           To(s) == [w EXCEPT !.pod = s]
           ToWith(s, e) == [w EXCEPT !.pod = s, !.events = @ \cup {e}]
           Kill == [w EXCEPT !.pod = "oom", !.kills = More(@)]
           Again == [w EXCEPT !.pod = "running", !.restarts = More(@)]
<1> SUFFICES Fine
  BY DEF Phase
<1>1. /\ w.pod \in PodStates
      /\ \A s : /\ To(s).pod = s /\ To(s).events = w.events /\ To(s).commit = w.commit
                /\ To(s).gitops = w.gitops /\ To(s).dns = w.dns /\ To(s).kills = w.kills
      /\ \A s, e : /\ ToWith(s, e).pod = s /\ ToWith(s, e).events = w.events \cup {e}
                   /\ ToWith(s, e).commit = w.commit /\ ToWith(s, e).gitops = w.gitops
                   /\ ToWith(s, e).dns = w.dns /\ ToWith(s, e).kills = w.kills
      /\ Kill.pod = "oom" /\ Kill.events = w.events /\ Kill.commit = w.commit
      /\ Kill.gitops = w.gitops /\ Kill.dns = w.dns
      /\ Again.pod = "running" /\ Again.events = w.events /\ Again.commit = w.commit
      /\ Again.gitops = w.gitops /\ Again.dns = w.dns
  BY DEF Worlds
<1>2. CASE v \in PodShifts(w)
  <2>1. w.pod = "unscheduled" => v \in {ToWith("unscheduled", "FailedScheduling"), To("creating")}
    BY <1>2 DEF PodShifts
  <2>2. w.pod = "creating" => v \in {To("running"), To("pulling")}
    BY <1>2 DEF PodShifts
  <2>3. w.pod = "pulling" => v \in {To("running"), ToWith("pulling", "Failed")}
                             /\ (v = To("running") \/ w.dns = "down")
    BY <1>2 DEF PodShifts
  <2>4. w.pod = "running" => v \in {ToWith("unready", "Unhealthy"), To("crashed"), To("oom"), Kill}
    BY <1>2 DEF PodShifts
  <2>5. w.pod = "unready" => v \in {To("running"), To("crashed"), To("oom"), Kill}
    BY <1>2 DEF PodShifts
  <2>6. w.pod \in {"crashed", "oom"} => v = To("backoff")
    BY <1>2 DEF PodShifts
  <2>7. w.pod = "backoff" => v = Again
    BY <1>2 DEF PodShifts
  <2> HIDE DEF To, ToWith, Kill, Again
  <2>8. CASE w.pod = "unscheduled"
    BY <1>1, <2>1, <2>8 DEF Alike, Plausible
  <2>9. CASE w.pod = "creating"
    BY <1>1, <2>2, <2>9 DEF Alike, Plausible
  <2>10. CASE w.pod = "pulling"
    BY <1>1, <2>3, <2>10 DEF Alike, Plausible
  <2>11. CASE w.pod = "running"
    BY <1>1, <2>4, <2>11 DEF Alike, Plausible
  <2>12. CASE w.pod = "unready"
    BY <1>1, <2>5, <2>12 DEF Alike, Plausible
  <2>13. CASE w.pod \in {"crashed", "oom"}
    BY <1>1, <2>6, <2>13 DEF Alike, Plausible
  <2>14. CASE w.pod = "backoff"
    BY <1>1, <2>7, <2>14 DEF Alike, Plausible
  <2> QED BY <1>1, <2>8, <2>9, <2>10, <2>11, <2>12, <2>13, <2>14 DEF PodStates
<1> HIDE DEF To, ToWith, Kill, Again
<1>3. CASE v \in ClaimShifts(w)
  <2>1. /\ v.pod = w.pod /\ v.commit = w.commit /\ v.gitops = w.gitops /\ v.dns = w.dns
        /\ v.events \subseteq w.events \cup {"FailedBinding"} /\ v.kills = w.kills
    BY <1>3 DEF ClaimShifts, Worlds
  <2> QED BY <2>1 DEF Alike, Plausible
<1>4. CASE v \in AroundShifts(w)
  <2>1. /\ v.pod = w.pod /\ v.commit = w.commit /\ v.gitops = w.gitops
        /\ v.events \subseteq w.events
        /\ v.dns = "hidden" <=> w.dns = "hidden"
        /\ w.kills = 0 => v.kills = 0
    <3>1. \/ v \in {[w EXCEPT !.node = n] : n \in SUBSET {"MemoryPressure", "DiskPressure"}}
          \/ v \in {[w EXCEPT !.dns = d] : d \in IF w.dns = "hidden" THEN {} ELSE {"up", "down"}}
          \/ v \in {[w EXCEPT !.hpa = h] : h \in {"below", "pinned", "easing"}}
          \/ v = [w EXCEPT !.routed = (w.pod = "running")]
          \/ v \in {[w EXCEPT !.events = @ \ {e}] : e \in w.events}
          \/ v = [w EXCEPT !.kills = w.kills - 1] /\ w.kills - 1 \in Nat
      BY <1>4 DEF AroundShifts
    <3> QED BY <3>1 DEF Worlds
  <2> QED BY <2>1 DEF Alike, Plausible
<1> QED BY <1>2, <1>3, <1>4 DEF Shifts

\* What the observations of a call say of the world they were made in.
LEMMA KindsRead ==
  ASSUME NEW w \in Worlds, NEW t \in {PodRef, AppRef}, NEW O, NEW c \in CallSet,
         NEW o \in Reads(c, w, t, O)
  PROVE  /\ o.kind = "event.recorded" =>
              /\ o.n = 1 <=> o.val = "Failed"
              /\ \/ o.on = PodRef /\ o.val \in w.events /\ c = "events"
                 \/ o.on = PodRef /\ o.val = "OOMKilling" /\ w.kills # 0 /\ c = "events"
                 \/ o.on = ClaimRef /\ o.val = "FailedBinding"
         /\ o.kind = "deployment.state" =>
              \/ o.on = AppRef /\ o.val = "up"
              \/ c = "coredns" /\ w.dns # "hidden" /\ o.on = DnsRef /\ o.val = w.dns
         /\ o.kind = "git.commit" => w.commit # 0 /\ o.on = t
         /\ o.kind = "gitops.state" => w.gitops # "none" /\ o.on = KustomizationRef
         /\ o.kind \in PodKinds => c = "pod"
<1> DEFINE Told ==
      /\ o.kind = "event.recorded" =>
           /\ o.n = 1 <=> o.val = "Failed"
           /\ \/ o.on = PodRef /\ o.val \in w.events /\ c = "events"
              \/ o.on = PodRef /\ o.val = "OOMKilling" /\ w.kills # 0 /\ c = "events"
              \/ o.on = ClaimRef /\ o.val = "FailedBinding"
      /\ o.kind = "deployment.state" =>
           \/ o.on = AppRef /\ o.val = "up"
           \/ c = "coredns" /\ w.dns # "hidden" /\ o.on = DnsRef /\ o.val = w.dns
      /\ o.kind = "git.commit" => w.commit # 0 /\ o.on = t
      /\ o.kind = "gitops.state" => w.gitops # "none" /\ o.on = KustomizationRef
<1>1. o.kind \in PodKinds => c = "pod"
  BY ReadsAre
<1> SUFFICES Told
  BY <1>1
<1>2. ASSUME o.kind \notin {"event.recorded", "deployment.state", "git.commit", "gitops.state"}
      PROVE  Told
  BY <1>2
<1>3. ASSUME NEW k, NEW r, NEW v, NEW n, NEW at, o = Obs(k, r, v, n, at)
      PROVE  o.kind = k /\ o.on = r /\ o.val = v /\ o.n = n
  BY <1>3 DEF Obs
<1>4. CASE c \in {"deployment", "controller"}
  <2>1. o = Obs("deployment.state", AppRef, "up", 0, 1)
    BY <1>4 DEF Reads, ControllerState, DeploymentState
  <2> QED BY <1>3, <2>1
<1>5. CASE c = "pod"
  <2>1. o.kind \in PodKinds
    BY <1>5, PodIsRead DEF Reads
  <2> QED BY <1>2, <2>1 DEF PodKinds
<1>6. CASE c = "owners"
  <2>1. \E r, v : o = Obs("resource.owner", r, v, 0, started)
    BY <1>6 DEF Reads, OwnerChain
  <2> QED BY <1>2, <1>3, <2>1
<1>7. CASE c = "claim"
  <2>1. \/ o = Obs("pvc.state", ClaimRef, w.claim, 0, 1)
        \/ \E e \in {"FailedBinding"} : o = Event(ClaimRef, e)
    BY <1>7 DEF Reads, ClaimObservations
  <2>2. ASSUME o = Event(ClaimRef, "FailedBinding") PROVE Told
    <3>1. o = Obs("event.recorded", ClaimRef, "FailedBinding", 0, failed)
      BY <2>2 DEF Event, Bit
    <3> QED BY <1>3, <3>1
  <2> QED BY <1>2, <1>3, <2>1, <2>2
<1>8. CASE c = "services"
  <2>1. \E v : o = Obs("service.state", ServiceRef, v, 0, 1)
    BY <1>8 DEF Reads, ServiceObservations
  <2> QED BY <1>2, <1>3, <2>1
<1>9. CASE c = "autoscaler"
  <2>1. \E v, n : o = Obs("hpa.state", HpaRef, v, n, 1)
    BY <1>9 DEF Reads, HpaObservations
  <2> QED BY <1>2, <1>3, <2>1
<1>10. CASE c = "events"
  <2>1. o \in PodEvents(w)
    BY <1>10 DEF Reads
  <2>2. CASE \E e \in w.events \ {"FailedBinding"} : o = Event(PodRef, e)
    <3>1. PICK e \in w.events : o = Event(PodRef, e)
      BY <2>2
    <3>2. o = Obs("event.recorded", PodRef, e, Bit(e = "Failed"), failed)
      BY <3>1 DEF Event
    <3>3. o.kind = "event.recorded" /\ o.on = PodRef /\ o.val = e /\ o.n = Bit(e = "Failed")
      BY <1>3, <3>2
    <3>4. Bit(e = "Failed") = 1 <=> e = "Failed"
      BY DEF Bit
    <3> QED BY <1>10, <3>3, <3>4
  <2>3. CASE \E k \in 1..w.kills : o = Obs("event.recorded", PodRef, "OOMKilling", 0, k)
    <3>1. w.kills # 0
      BY <2>3 DEF Worlds
    <3>2. o.kind = "event.recorded" /\ o.on = PodRef /\ o.val = "OOMKilling" /\ o.n = 0
      BY <1>3, <2>3
    <3> QED BY <1>10, <3>1, <3>2
  <2> QED BY <2>1, <2>2, <2>3 DEF PodEvents
<1>11. CASE c = "node"
  <2>1. \E v : o = Obs("node.condition", NodeRef, v, 0, 1)
    BY <1>11 DEF Reads, NodeObservations
  <2> QED BY <1>2, <1>3, <2>1
<1>12. CASE c = "coredns"
  <2>1. w.dns # "hidden" /\ o = Obs("deployment.state", DnsRef, w.dns, 0, 1)
    BY <1>12 DEF Reads, DnsObservations, DeploymentState
  <2> QED BY <1>3, <1>12, <2>1
<1>13. CASE c = "git"
  <2>1. w.commit # 0 /\ o = Obs("git.commit", t, "", 0, w.commit)
    BY <1>13 DEF Reads, GitObservations
  <2> QED BY <1>3, <2>1
<1>14. CASE c = "gitops"
  <2>1. w.gitops # "none" /\ o = Obs("gitops.state", KustomizationRef, w.gitops, 0, 1)
    BY <1>14 DEF Reads, GitOpsObservations
  <2> QED BY <1>3, <2>1
<1> HIDE DEF Told
<1> QED BY <1>4, <1>5, <1>6, <1>7, <1>8, <1>9, <1>10, <1>11, <1>12, <1>13, <1>14 DEF CallSet

\* What a pod is read to be in is the phase it is in.
LEMMA PodStateRead ==
  ASSUME NEW w \in Worlds
  PROVE  /\ Obs("pod.state", PodRef, Phase(w), Bit(w.pod # "unscheduled"), started)
              \in PodObservations(w)
         /\ \A o \in PodObservations(w) : o.kind = "pod.state" =>
              /\ o.on = PodRef /\ o.val = Phase(w)
              /\ o.n = 1 <=> w.pod # "unscheduled"
<1> DEFINE s == Obs("pod.state", PodRef, Phase(w), Bit(w.pod # "unscheduled"), started)
<1>1. /\ s.kind = "pod.state" /\ s.on = PodRef /\ s.val = Phase(w)
      /\ s.n = Bit(w.pod # "unscheduled")
  BY DEF Obs
<1>2. Bit(w.pod # "unscheduled") = 1 <=> w.pod # "unscheduled"
  BY DEF Bit
<1>3. \A o \in ContainerState(w) : o.kind # "pod.state"
  <2>1. w.pod \in PodStates
    BY DEF Worlds
  <2>2. PICK k, v, at : /\ ContainerState(w) = {Obs(k, PodRef, v, w.restarts, at)}
                        /\ k \in ContainerKinds
    BY <2>1 DEF ContainerState, ContainerKinds, PodStates
  <2> QED BY <2>2 DEF Obs, ContainerKinds
<1>4. \A v, n, at : Obs("container.spec", PodRef, v, n, at).kind # "pod.state"
  BY DEF Obs
<1> HIDE DEF s
<1>5. \A o \in PodObservations(w) : o.kind = "pod.state" => o = s
  BY <1>3, <1>4 DEF PodObservations, s
<1>6. s \in PodObservations(w)
  BY DEF PodObservations, s
<1> QED BY <1>1, <1>2, <1>5, <1>6 DEF s

\* Where a call is in the order of calls.
LEMMA EventsInTurn ==
  ASSUME NEW c \in CallSet,
         c \in {"deployment", "pod", "owners", "controller", "claim", "services", "autoscaler"}
  PROVE  /\ AfterSuccess(c) \in {"pod", "owners", "controller", "claim", "services",
                                 "autoscaler", "events"}
         /\ c = "deployment" => AfterSuccess(c) = "pod"
<1>1. /\ DOMAIN Calls = 1..12
      /\ Calls[1] = "deployment" /\ Calls[2] = "pod" /\ Calls[3] = "owners"
      /\ Calls[4] = "controller" /\ Calls[5] = "claim" /\ Calls[6] = "services"
      /\ Calls[7] = "autoscaler" /\ Calls[8] = "events" /\ Calls[9] = "node"
      /\ Calls[10] = "coredns" /\ Calls[11] = "git" /\ Calls[12] = "gitops"
  BY DEF Calls
<1>2. \A i \in 1..12 : \/ i = 1 \/ i = 2 \/ i = 3 \/ i = 4 \/ i = 5 \/ i = 6 \/ i = 7
                       \/ i = 8 \/ i = 9 \/ i = 10 \/ i = 11 \/ i = 12
  OBVIOUS
<1> DEFINE i == CHOOSE i \in DOMAIN Calls : Calls[i] = c
<1>3. i \in DOMAIN Calls /\ Calls[i] = c
  BY <1>1 DEF CallSet
<1>4. c # "gitops" => AfterSuccess(c) = Calls[i + 1]
  BY DEF AfterSuccess
<1> HIDE DEF i
<1>5. i \in {1, 2, 3, 4, 5, 6, 7} /\ (c = "deployment" => i = 1)
  BY <1>1, <1>2, <1>3
<1> QED BY <1>1, <1>4, <1>5

LEMMA TimedStarts == Init => Timed
<1> SUFFICES ASSUME Init PROVE Timed
  OBVIOUS
<1>1. IInv
  BY Starts
<1>2. obs = {} /\ moments = {} /\ pc = "idle" /\ Plausible(world)
  BY DiagnosisAssumption DEF Init
<1>3. Kept /\ PodInTurn /\ ReadInTime /\ AllPlausible
  BY <1>2 DEF Kept, SeenRunning, SeenPlaced, PodInTurn, ReadInTime, AllPlausible
<1>4. DnsInTime
  BY <1>2 DEF DnsInTime, BeforeEvents, CoreDnsDown, Seen
<1> QED BY <1>1, <1>3, <1>4 DEF Timed

LEMMA TimedThroughShift == Timed /\ Shift => Timed'
<1> SUFFICES ASSUME Timed, Shift PROVE Timed'
  OBVIOUS
<1>1. IInv /\ IInv'
  BY Continues DEF Timed, Next
<1>2. /\ world \in Worlds /\ world' \in Shifts(world)
      /\ pc' = pc /\ obs' = obs /\ lost' = lost /\ target' = target
      /\ pc = "idle" => obs = {} /\ moments' = {}
      /\ pc # "idle" => world \in moments /\ moments' = moments \cup {world'}
  BY <1>1 DEF Shift, IInv, Typed, Watched
<1>3. /\ Alike(world', world)
      /\ Phase(world) = "Running" => Phase(world') = "Running"
      /\ world.pod # "unscheduled" => world'.pod # "unscheduled"
      /\ Plausible(world) => Plausible(world')
      /\ "Failed" \in world'.events => "Failed" \in world.events \/ world.dns = "down"
  BY <1>2, ShiftsKeep
<1>4. Kept'
  <2>1. \A w \in moments' : Alike(w, world')
    BY <1>2, <1>3 DEF Timed, Kept, Alike
  <2> QED BY <1>2, <1>3, <2>1 DEF Timed, Kept, SeenRunning, SeenPlaced
<1>5. PodInTurn'
  BY <1>2 DEF Timed, PodInTurn, PodSeen
<1>6. ReadInTime'
  <2>1. pc # "idle" => moments \subseteq moments'
    BY <1>2
  <2>2. SeenRunning' <=> SeenRunning
    BY <1>2 DEF SeenRunning
  <2> QED BY <1>2, <2>1, <2>2 DEF Timed, ReadInTime, ReadAt
<1>7. DnsInTime'
  <2>1. BeforeEvents' <=> BeforeEvents
    BY <1>2 DEF BeforeEvents
  <2>2. pc # "idle" /\ DownUnnoticed => DownUnnoticed'
    BY <1>2 DEF DownUnnoticed
  <2>3. pc # "idle" /\ "Failed" \notin world.events =>
          "Failed" \notin world'.events \/ DownUnnoticed'
    BY <1>2, <1>3 DEF DownUnnoticed
  <2>4. pc = "idle" => BeforeEvents /\ ~CoreDnsDown(obs, DnsRef)
    BY <1>2 DEF BeforeEvents, CoreDnsDown, Seen
  <2> QED BY <1>2, <2>1, <2>2, <2>3, <2>4 DEF Timed, DnsInTime
<1>8. AllPlausible'
  BY <1>2, <1>3 DEF Timed, AllPlausible
<1> QED BY <1>1, <1>4, <1>5, <1>6, <1>7, <1>8 DEF Timed

\* What some calls add keeps what was read in time.
LEMMA MoreInTime ==
  ASSUME Timed, pc \in CallSet, NEW S, S \subseteq Reads(pc, world, target, obs) \cup {Unread},
         S \subseteq Reads(pc, world, target, obs) \/ (pc = "services" /\ lost' > 0),
         lost > 0 => lost' > 0,
         obs' = obs \cup S, pc = "pod" => S \in {{}, PodObservations(world)},
         UNCHANGED <<world, target, moments>>
  PROVE  /\ Kept' /\ ReadInTime' /\ AllPlausible'
         /\ pc = "deployment" => \A o \in obs' : o.kind = "deployment.state"
         /\ PodSeen => PodSeen'
<1>1. /\ world \in Worlds /\ target \in {PodRef, AppRef} /\ world \in moments
      /\ moments \subseteq Worlds
  BY DEF Timed, IInv, Typed, Watched, CallSet
<1>0. Unread.kind = "service.state"
  BY DEF Unread, Obs
<1>2. \A o \in S : o.kind \in PodKinds => pc = "pod"
  BY <1>0, <1>1, KindsRead DEF PodKinds
<1>3. /\ SeenRunning' => SeenRunning \/ (pc = "pod" /\ Phase(world) = "Running")
      /\ SeenPlaced' => SeenPlaced \/ (pc = "pod" /\ world.pod # "unscheduled")
  <2>1. \A o \in S : o.kind = "pod.state" =>
          pc = "pod" /\ o.val = Phase(world) /\ (o.n = 1 => world.pod # "unscheduled")
    <3>1. \A o \in S : o.kind = "pod.state" => pc = "pod" /\ o \in PodObservations(world)
      BY <1>2 DEF PodKinds
    <3> QED BY <1>1, <3>1, PodStateRead
  <2>2. ASSUME SeenRunning', ~SeenRunning PROVE pc = "pod" /\ Phase(world) = "Running"
    <3>1. PICK o \in obs \cup S : o.kind = "pod.state" /\ o.val = "Running"
      BY <2>2 DEF SeenRunning
    <3>2. o \in S
      BY <2>2, <3>1 DEF SeenRunning
    <3> QED BY <2>1, <3>1, <3>2
  <2>3. ASSUME SeenPlaced', ~SeenPlaced PROVE pc = "pod" /\ world.pod # "unscheduled"
    <3>1. PICK o \in obs \cup S : o.kind = "pod.state" /\ o.n = 1
      BY <2>3 DEF SeenPlaced
    <3>2. o \in S
      BY <2>3, <3>1 DEF SeenPlaced
    <3> QED BY <2>1, <3>1, <3>2
  <2> QED BY <2>2, <2>3
<1>4. Kept'
  BY <1>3 DEF Timed, Kept
<1>5. Reads(pc, world, target, obs) \subseteq AtOnce(world, target)
  <2>1. CASE pc = "node" /\ world.pod = "unscheduled"
    <3>1. ~SeenPlaced
      BY <2>1 DEF Timed, Kept
    <3>2. Reads(pc, world, target, obs) = {}
      BY <2>1, <3>1 DEF Reads, SeenPlaced
    <3> QED BY <3>2
  <2>2. CASE ~(pc = "node" /\ world.pod = "unscheduled")
    BY <1>1, <2>2, AtOnceHolds
  <2> QED BY <2>1, <2>2
<1>6. ReadInTime'
  <2> SUFFICES ASSUME NEW o \in obs \cup S, ~(lost' > 0 /\ o = Unread)
               PROVE  \E w \in moments : /\ o \in AtOnce(w, target)
                                         /\ o.kind = "event.recorded" /\ SeenRunning' =>
                                              Phase(w) = "Running"
    BY DEF ReadInTime, ReadAt
  <2>1. CASE o \in obs
    <3>0. ReadAt(o)
      BY <2>1 DEF Timed, ReadInTime
    <3>1. PICK w \in moments : /\ o \in AtOnce(w, target)
                               /\ o.kind = "event.recorded" /\ SeenRunning => Phase(w) = "Running"
      BY <3>0 DEF ReadAt
    <3>2. o.kind = "event.recorded" => pc # "pod"
      BY <2>1 DEF Timed, PodInTurn
    <3> QED BY <1>3, <3>1, <3>2
  <2>2. CASE o \in S
    <3>1. o \in AtOnce(world, target)
      BY <1>5, <2>2
    <3>2. SeenRunning' => Phase(world) = "Running"
      BY <1>3 DEF Timed, Kept
    <3> QED BY <1>1, <3>1, <3>2
  <2> QED BY <2>1, <2>2
<1>7. AllPlausible'
  BY DEF Timed, AllPlausible
<1>8. pc = "deployment" => \A o \in obs' : o.kind = "deployment.state"
  <2>1. DeploymentState(AppRef, "up").kind = "deployment.state"
    BY DEF DeploymentState, Obs
  <2>2. pc = "deployment" => Reads(pc, world, target, obs) \subseteq {DeploymentState(AppRef, "up")}
    BY DEF Reads
  <2>3. pc = "deployment" => \A o \in obs : o.kind = "deployment.state"
    BY DEF Timed, PodInTurn
  <2> QED BY <2>1, <2>2, <2>3
<1>9. PodSeen => PodSeen'
  BY DEF PodSeen
<1> QED BY <1>4, <1>6, <1>7, <1>8, <1>9

LEMMA TimedThroughAnswer ==
  ASSUME Timed, IInv', pc \in CallSet, obs' = obs \cup Reads(pc, world, target, obs),
         pc' = AfterSuccess(pc), UNCHANGED <<world, shifts, target, lost, moments, report>>
  PROVE  Timed'
<1> DEFINE S == Reads(pc, world, target, obs)
<1>1. /\ world \in Worlds /\ target \in {PodRef, AppRef} /\ world \in moments
  BY DEF Timed, IInv, Typed, Watched, CallSet
<1>2. pc = "pod" => S = PodObservations(world)
  BY DEF Reads
<1>3. /\ Kept' /\ ReadInTime' /\ AllPlausible'
      /\ pc = "deployment" => \A o \in obs' : o.kind = "deployment.state"
      /\ PodSeen => PodSeen'
  BY <1>2, MoreInTime
<1>4. /\ pc' # "idle" /\ pc' # "deployment" /\ (pc # "deployment" => pc' # "pod")
  BY <1>1, CallsGoOn DEF CallSet
<1>5. PodInTurn'
  <2>1. pc' \in {"idle", "deployment", "pod"} => \A o \in obs' : o.kind = "deployment.state"
    BY <1>3, <1>4
  <2>2. ASSUME lost' = 0, pc' \notin {"idle", "deployment", "pod"} PROVE PodSeen'
    <3>1. CASE pc = "pod"
      <4> DEFINE s == Obs("pod.state", PodRef, Phase(world), Bit(world.pod # "unscheduled"), started)
      <4>1. s \in obs'
        BY <1>1, <1>2, <3>1, PodStateRead
      <4>2. s.kind = "pod.state"
        BY DEF Obs
      <4> HIDE DEF s
      <4> QED BY <4>1, <4>2 DEF PodSeen
    <3>2. CASE pc = "deployment"
      <4>1. AfterSuccess("deployment") = "pod"
        BY EventsInTurn DEF CallSet
      <4> QED BY <2>2, <3>2, <4>1
    <3>3. CASE pc \notin {"deployment", "pod"}
      BY <1>3, <2>2, <3>3 DEF Timed, PodInTurn, CallSet
    <3> QED BY <3>1, <3>2, <3>3
  <2> QED BY <2>1, <2>2 DEF PodInTurn
<1>6. DnsInTime'
  <2> SUFFICES ASSUME lost = 0, DnsEvents(obs') = {}
               PROVE  /\ BeforeEvents' \/ "Failed" \notin world.events \/ DownUnnoticed
                      /\ CoreDnsDown(obs', DnsRef) => DownUnnoticed
    BY DEF DnsInTime, DownUnnoticed
  <2>1. DnsEvents(obs) = {}
    BY DEF DnsEvents, Of
  <2>2. /\ BeforeEvents \/ "Failed" \notin world.events \/ DownUnnoticed
        /\ CoreDnsDown(obs, DnsRef) => DownUnnoticed
    BY <2>1 DEF Timed, DnsInTime
  <2>3. BeforeEvents' \/ "Failed" \notin world.events \/ DownUnnoticed
    <3>1. CASE pc = "events"
      <4> DEFINE e == Event(PodRef, "Failed")
      <4>1. e.kind = "event.recorded" /\ e.n = 1
        BY DEF Event, Obs, Bit
      <4>2. "Failed" \in world.events => e \in S
        BY <3>1 DEF Reads, PodEvents
      <4> HIDE DEF e
      <4>3. "Failed" \notin world.events
        BY <4>1, <4>2 DEF DnsEvents, Of
      <4> QED BY <4>3
    <3>2. CASE pc \in {"deployment", "pod", "owners", "controller", "claim", "services",
                       "autoscaler"}
      <4>1. BeforeEvents'
        BY <3>2, EventsInTurn DEF BeforeEvents
      <4> QED BY <4>1
    <3>3. CASE ~BeforeEvents
      BY <2>2, <3>3
    <3> QED BY <3>1, <3>2, <3>3 DEF BeforeEvents, CallSet
  <2>4. ASSUME CoreDnsDown(obs', DnsRef), ~CoreDnsDown(obs, DnsRef) PROVE DownUnnoticed
    <3>1. PICK o \in S : o.kind = "deployment.state" /\ o.on = DnsRef /\ o.val = "down"
      BY <2>4 DEF CoreDnsDown, Seen
    <3>2. pc = "coredns" /\ world.dns = "down"
      BY <1>1, <3>1, KindsRead
    <3>3. ~BeforeEvents
      BY <3>2 DEF BeforeEvents
    <3> QED BY <1>1, <2>2, <3>2, <3>3 DEF DownUnnoticed
  <2> QED BY <2>2, <2>3, <2>4
<1> QED BY <1>3, <1>5, <1>6 DEF Timed

LEMMA TimedThroughFailure == Timed /\ CallFails => Timed'
<1> SUFFICES ASSUME Timed, CallFails PROVE Timed'
  OBVIOUS
<1>1. IInv /\ IInv'
  BY Continues DEF Timed, Next
<1>2. pc \in CallSet /\ world \in Worlds /\ target \in {PodRef, AppRef}
  BY <1>1, CallsAre DEF CallFails, Calling, IInv, Typed
<1>3. PICK S \in LeftOf(pc, world) : obs' = obs \cup S
  BY DEF CallFails
<1>4. /\ pc' = AfterFailure(pc, target) /\ lost' = lost + 1
      /\ UNCHANGED <<world, target, moments>>
  BY DEF CallFails
<1>9. /\ S \subseteq Reads(pc, world, target, obs) \cup {Unread}
      /\ S \subseteq Reads(pc, world, target, obs) \/ pc = "services"
      /\ pc = "pod" => S = {}
  BY <1>2, LeftIsRead
<1>5. lost' > 0
  BY <1>1, <1>4, DiagnosisAssumption DEF IInv, Typed
<1>6. Kept' /\ ReadInTime' /\ AllPlausible'
  BY <1>2, <1>3, <1>4, <1>5, <1>9, MoreInTime
<1>7. pc' \notin {"idle", "deployment", "pod"}
  BY <1>2, <1>4, CallsGoOn DEF CallSet
<1>8. PodInTurn' /\ DnsInTime'
  BY <1>5, <1>7 DEF PodInTurn, DnsInTime
<1> QED BY <1>1, <1>6, <1>8 DEF Timed

LEMMA TimedGoesOn == Timed /\ [Next]_vars => Timed'
<1> SUFFICES ASSUME Timed, [Next]_vars PROVE Timed'
  OBVIOUS
<1>1. IInv'
  BY Continues DEF Timed
<1>2. CASE Shift
  BY <1>2, TimedThroughShift
<1>3. CASE Begin
  <2>1. obs = {} /\ obs' = {} /\ world' = world /\ moments' = {world} /\ pc = "idle"
        /\ pc' \in {"deployment", "pod"}
    BY <1>3 DEF Begin, Timed, IInv, Watched
  <2>2. Kept' /\ PodInTurn' /\ ReadInTime'
    BY <2>1 DEF Kept, Alike, SeenRunning, SeenPlaced, PodInTurn, ReadInTime
  <2>3. DnsInTime'
    BY <2>1 DEF DnsInTime, BeforeEvents, CoreDnsDown, Seen
  <2>4. AllPlausible'
    BY <2>1 DEF Timed, AllPlausible
  <2> QED BY <1>1, <2>2, <2>3, <2>4 DEF Timed
<1>4. CASE CallAnswers
  <2>1. pc \in CallSet
    BY <1>4, CallsAre DEF CallAnswers, Calling
  <2> QED BY <1>1, <1>4, <2>1, TimedThroughAnswer DEF CallAnswers
<1>5. CASE CallFails
  BY <1>5, TimedThroughFailure
<1>6. CASE Analyze
  <2>1. /\ obs' = obs /\ world' = world /\ moments' = moments /\ lost' = lost
        /\ target' = target /\ pc = "analyze" /\ pc' = "report"
    BY <1>6 DEF Analyze
  <2>2. Kept' /\ PodInTurn' /\ AllPlausible'
    BY <2>1 DEF Timed, Kept, SeenRunning, SeenPlaced, PodInTurn, PodSeen, AllPlausible
  <2>3. ReadInTime'
    BY <2>1 DEF Timed, ReadInTime, ReadAt, SeenRunning
  <2>4. DnsInTime'
    BY <2>1 DEF Timed, DnsInTime, BeforeEvents, DownUnnoticed
  <2> QED BY <1>1, <2>2, <2>3, <2>4 DEF Timed
<1>7. CASE UNCHANGED vars
  <2>1. /\ obs' = obs /\ world' = world /\ moments' = moments /\ lost' = lost
        /\ target' = target /\ pc' = pc
    BY <1>7 DEF vars
  <2>2. Kept' /\ PodInTurn' /\ AllPlausible'
    BY <2>1 DEF Timed, Kept, SeenRunning, SeenPlaced, PodInTurn, PodSeen, AllPlausible
  <2>3. ReadInTime'
    BY <2>1 DEF Timed, ReadInTime, ReadAt, SeenRunning
  <2>4. DnsInTime'
    BY <2>1 DEF Timed, DnsInTime, BeforeEvents, DownUnnoticed
  <2> QED BY <1>1, <2>2, <2>3, <2>4 DEF Timed
<1> QED BY <1>2, <1>3, <1>4, <1>5, <1>6, <1>7 DEF Next

\* Throughout, what was read was so, at some moment.
THEOREM InTime == Spec => []Timed
BY TimedStarts, TimedGoesOn, PTL DEF Spec

\* The IDs of what is emitted.
LEMMA IdsSay ==
  ASSUME NEW O, NEW r
  PROVE  /\ Memory(O, r).id = <<"memory", r[2]>>
         /\ CrashLoop(O, r).id = <<"crashloop", r[2]>>
         /\ ImagePull(O, r).id = <<"imagepull", r[2]>>
         /\ NodePressure(O, r).id = <<"nodepressure", r[2]>>
         /\ Probe(O, r).id = <<"probe", r[2]>>
         /\ ClaimUnbound(O, r).id = <<"pvc", r[2]>>
         /\ ServiceDown(O, r).id = <<"service", r[2]>>
         /\ AtMaximum(O, r).id = <<"hpa", r[2]>>
         /\ Regression(O, r).id = <<"configregression", r[2]>>
<1> DEFINE Has(h, p, n) == h.id = <<p, n>>
<1>1. \A p, n, m, e, a : /\ Has(Hypothesize(p, n, m, e, a), p, n)
                         /\ \A s : Has([Hypothesize(p, n, m, e, a) EXCEPT !.status = s], p, n)
                         /\ \A c : Has([Hypothesize(p, n, m, e, a) EXCEPT !.claim = c], p, n)
  BY HypothesizeSays DEF Says
<1> HIDE DEF Has
<1>2. Has(Memory(O, r), "memory", r[2]) /\ Has(CrashLoop(O, r), "crashloop", r[2])
  BY <1>1 DEF Memory, CrashLoop
<1>3. Has(ImagePull(O, r), "imagepull", r[2]) /\ Has(NodePressure(O, r), "nodepressure", r[2])
  BY <1>1 DEF ImagePull, NodePressure
<1>4. Has(Probe(O, r), "probe", r[2]) /\ Has(ClaimUnbound(O, r), "pvc", r[2])
  BY <1>1 DEF Probe, ClaimUnbound
<1>5. Has(ServiceDown(O, r), "service", r[2]) /\ Has(AtMaximum(O, r), "hpa", r[2])
  BY <1>1 DEF ServiceDown, AtMaximum
<1>6. Has(Regression(O, r), "configregression", r[2])
  BY <1>1 DEF Regression
<1> QED BY <1>2, <1>3, <1>4, <1>5, <1>6 DEF Has

\* A scheduler event without a Pending pod leaves the hypothesis without a name.
LEMMA SchedulingId ==
  ASSUME NEW O, NEW r
  PROVE  /\ r \in PendingPods(O) => Scheduling(O, r).id = <<"scheduling", r[2]>>
         /\ r \notin PendingPods(O) => Scheduling(O, r).id = <<"scheduling", "">>
<1>1. PICK m, n : /\ Says(Scheduling(O, r), <<"scheduling", n>>, m)
                  /\ n = IF r \in PendingPods(O) THEN r[2] ELSE ""
  BY SchedulingSays
<1> QED BY <1>1 DEF Says

\* The hypothesis on DNS is named after an event that speaks of it, if there is one.
LEMMA DnsId ==
  ASSUME NEW O
  PROVE  /\ DnsEvents(O) # {} => \E o \in DnsEvents(O) : DnsFailure(O, DnsRef).id = <<"dns", o.on[2]>>
         /\ DnsEvents(O) = {} => DnsFailure(O, DnsRef).id = <<"dns", "unknown">>
<1> DEFINE name == IF DnsEvents(O) # {} THEN (CHOOSE o \in DnsEvents(O) : TRUE).on[2] ELSE "unknown"
<1>1. \E m, e : DnsFailure(O, DnsRef) = Hypothesize("dns", name, m, e, {})
  BY DEF DnsFailure
<1>2. DnsFailure(O, DnsRef).id = <<"dns", name>>
  <2> HIDE DEF name
  <2> QED BY <1>1, HypothesizeSays DEF Says
<1> QED BY <1>2

\* A hypothesis on a resource has the same ID in every pass.
LEMMA SameIds ==
  ASSUME NEW O, NEW Q, NEW r
  PROVE  /\ Memory(O, r).id = Memory(Q, r).id
         /\ CrashLoop(O, r).id = CrashLoop(Q, r).id
         /\ ImagePull(O, r).id = ImagePull(Q, r).id
         /\ NodePressure(O, r).id = NodePressure(Q, r).id
         /\ Probe(O, r).id = Probe(Q, r).id
         /\ ClaimUnbound(O, r).id = ClaimUnbound(Q, r).id
         /\ ServiceDown(O, r).id = ServiceDown(Q, r).id
         /\ AtMaximum(O, r).id = AtMaximum(Q, r).id
         /\ Regression(O, r).id = Regression(Q, r).id
<1>1. ASSUME NEW X
      PROVE  /\ Memory(X, r).id = <<"memory", r[2]>>
             /\ CrashLoop(X, r).id = <<"crashloop", r[2]>>
             /\ ImagePull(X, r).id = <<"imagepull", r[2]>>
             /\ NodePressure(X, r).id = <<"nodepressure", r[2]>>
             /\ Probe(X, r).id = <<"probe", r[2]>>
             /\ ClaimUnbound(X, r).id = <<"pvc", r[2]>>
             /\ ServiceDown(X, r).id = <<"service", r[2]>>
             /\ AtMaximum(X, r).id = <<"hpa", r[2]>>
             /\ Regression(X, r).id = <<"configregression", r[2]>>
  BY IdsSay
<1> QED BY <1>1

\* What was seen of a kind was there to be seen at some moment.
LEMMA WholeIsInTime ==
  ASSUME Timed, lost = 0, NEW o \in obs
  PROVE  ReadAt(o)
<1>1. ~(lost > 0)
  OBVIOUS
<1>2. ReadAt(o) \/ (lost > 0 /\ o = Unread)
  BY DEF Timed, ReadInTime
<1> QED BY <1>1, <1>2

LEMMA SeenAt ==
  ASSUME Timed, lost = 0, NEW kind, NEW vals, NEW r \in On(obs, kind, vals)
  PROVE  \E w \in moments : r \in On(AtOnce(w, target), kind, vals)
<1>1. PICK o \in obs : o.kind = kind /\ o.val \in vals /\ o.on = r
  BY DEF On
<1>2. PICK w \in moments : o \in AtOnce(w, target)
  BY <1>1, WholeIsInTime DEF ReadAt
<1> QED BY <1>1, <1>2 DEF On

\* Whether the pod waits for a node or an image shows in what was read of it alone.
LEMMA PendingIs ==
  ASSUME NEW w \in Worlds, NEW O, OfThePod(O) = PodObservations(w)
  PROVE  PendingPods(O) = IF Phase(w) = "Pending" THEN {PodRef} ELSE {}
<1> DEFINE s == Obs("pod.state", PodRef, Phase(w), Bit(w.pod # "unscheduled"), started)
<1>1. /\ s \in PodObservations(w) /\ s.kind = "pod.state" /\ s.on = PodRef /\ s.val = Phase(w)
      /\ \A o \in PodObservations(w) : o.kind = "pod.state" => o.on = PodRef /\ o.val = Phase(w)
  BY PodStateRead DEF Obs
<1> HIDE DEF s
<1>2. \A o \in O : o.kind = "pod.state" => o \in PodObservations(w)
  BY DEF OfThePod, PodKinds
<1>3. s \in O
  BY <1>1 DEF OfThePod
<1>4. PendingPods(O) \subseteq {PodRef} /\ (Phase(w) # "Pending" => PendingPods(O) = {})
  BY <1>1, <1>2 DEF PendingPods, On
<1>5. Phase(w) = "Pending" => PodRef \in PendingPods(O)
  BY <1>1, <1>3 DEF PendingPods, On
<1> QED BY <1>4, <1>5

LEMMA SymptomOfPod ==
  ASSUME NEW O, NEW Q, OfThePod(O) = OfThePod(Q), HasSymptom(O)
  PROVE  HasSymptom(Q)
<1>1. \A o \in O : o.kind \in PodKinds => o \in Q
  BY DEF OfThePod
<1>2. {"container.terminated", "container.waiting", "pod.state"} \subseteq PodKinds
  BY DEF PodKinds
<1>3. PendingPods(O) \subseteq PendingPods(Q)
  BY <1>1, <1>2 DEF PendingPods, On
<1> QED BY <1>1, <1>2, <1>3 DEF HasSymptom

\* A change that can be seen at one moment of a pass can be seen at every other.
LEMMA ChangesStay ==
  ASSUME NEW w \in Worlds, NEW v \in Worlds, NEW t \in {PodRef, AppRef}, Alike(w, v),
         NEW o \in AtOnce(w, t), o.kind \in {"git.commit", "gitops.state", "deployment.state"}
  PROVE  \E p \in AtOnce(v, t) : p.kind = o.kind /\ p.on = o.on
<1>1. PICK c \in CallSet : \E F : o \in Reads(c, w, t, F)
  BY AtOnceReads
<1> PICK F : o \in Reads(c, w, t, F)
  BY <1>1
<1>2. \A d \in CallSet \ {"node"} : \A G : Reads(d, v, t, G) \subseteq AtOnce(v, t)
  BY AtOnceHolds
<1>3. CASE o.kind = "git.commit"
  <2> DEFINE p == Obs("git.commit", t, "", 0, v.commit)
             G == {Obs("resource.owner", RsRef, "Deployment", 0, started)}
  <2>1. w.commit # 0 /\ o.on = t
    BY <1>3, KindsRead
  <2>2. p.kind = "git.commit" /\ p.on = t
    BY DEF Obs
  <2>3. KnowsApp(t, G)
    BY DEF KnowsApp, Obs
  <2>4. p \in Reads("git", v, t, G)
    BY <2>1, <2>3 DEF Reads, GitObservations, Alike
  <2>5. p \in AtOnce(v, t)
    BY <1>2, <2>4 DEF CallSet
  <2> HIDE DEF p
  <2> QED BY <1>3, <2>1, <2>2, <2>5
<1>4. CASE o.kind = "gitops.state"
  <2> DEFINE p == Obs("gitops.state", KustomizationRef, v.gitops, 0, 1)
  <2>1. w.gitops # "none" /\ o.on = KustomizationRef
    BY <1>4, KindsRead
  <2>2. p.kind = "gitops.state" /\ p.on = KustomizationRef
    BY DEF Obs
  <2>3. p \in Reads("gitops", v, t, {})
    BY <2>1 DEF Reads, GitOpsObservations, Alike
  <2>4. p \in AtOnce(v, t)
    BY <1>2, <2>3 DEF CallSet
  <2> HIDE DEF p
  <2> QED BY <1>4, <2>1, <2>2, <2>4
<1>5. CASE o.kind = "deployment.state"
  <2>1. \A r, x : DeploymentState(r, x).kind = "deployment.state" /\ DeploymentState(r, x).on = r
    BY DEF DeploymentState, Obs
  <2>2. o.on = AppRef \/ (o.on = DnsRef /\ w.dns # "hidden")
    BY <1>5, KindsRead
  <2>3. DeploymentState(AppRef, "up") \in AtOnce(v, t)
    <3>1. DeploymentState(AppRef, "up") \in Reads("controller", v, t, {})
      BY DEF Reads, ControllerState
    <3> QED BY <1>2, <3>1 DEF CallSet
  <2>4. w.dns # "hidden" => DeploymentState(DnsRef, v.dns) \in AtOnce(v, t)
    <3>1. w.dns # "hidden" => DeploymentState(DnsRef, v.dns) \in Reads("coredns", v, t, {})
      BY DEF Reads, DnsObservations, Alike
    <3> QED BY <1>2, <3>1 DEF CallSet
  <2> QED BY <1>5, <2>1, <2>2, <2>3, <2>4
<1> QED BY <1>3, <1>4, <1>5

\* Each hypothesis of a pass without failing calls has a moment of its own.
LEMMA EmissionHasAMoment ==
  ASSUME Timed, lost = 0, pc = "report", NEW h \in Emissions(obs)
  PROVE  \E w \in moments : \E g \in Emissions(AtOnce(w, target)) : g.id = h.id
<1> DEFINE Somewhere == \E w \in moments : \E g \in Emissions(AtOnce(w, target)) : g.id = h.id
<1> SUFFICES Somewhere
  OBVIOUS
<1>1. /\ world \in Worlds /\ moments \subseteq Worlds /\ target \in {PodRef, AppRef}
      /\ \A o \in obs : Placed(o)
  BY DEF Timed, IInv, Typed, Collected
<1>2. PICK w0 \in moments : OfThePod(obs) = PodObservations(w0)
  <2>1. PodSeen
    BY DEF Timed, PodInTurn
  <2>2. OfThePod(obs) # {}
    BY <2>1 DEF PodSeen, OfThePod, PodKinds
  <2> QED BY <2>2 DEF Timed, IInv, PodReadOnce
<1>3. \A w \in moments : /\ OfThePod(AtOnce(w, target)) = PodObservations(w)
                         /\ \A o \in AtOnce(w, target) : \E c \in CallSet : \E F :
                              o \in Reads(c, w, target, F)
  BY <1>1, AtOnceReads
<1>4. ASSUME NEW r \in Killed(obs), h = Memory(obs, r) PROVE Somewhere
  <2>0. PICK o \in Kills(obs) : o.on = r
    BY DEF Killed
  <2>1. PICK w \in moments : o \in AtOnce(w, target)
    BY WholeIsInTime DEF ReadAt, Kills
  <2>4. r \in Killed(AtOnce(w, target))
    BY <2>0, <2>1 DEF Killed, Kills
  <2>2. Memory(AtOnce(w, target), r) \in Emissions(AtOnce(w, target))
    BY <2>4 DEF Emissions
  <2>3. Memory(AtOnce(w, target), r).id = h.id
    BY <1>4, SameIds
  <2> QED BY <2>2, <2>3
<1>5. ASSUME NEW r \in Looping(obs), h = CrashLoop(obs, r) PROVE Somewhere
  <2>1. PICK o \in obs :
          /\ o.on = r
          /\ \/ o.kind = "container.waiting" /\ o.val \in {"CrashLoopBackOff"}
             \/ o.kind = "container.terminated" /\ o.val \notin NotACrash /\ o.n >= 2
    BY DEF Looping, On, Of
  <2>2. PICK w \in moments : o \in AtOnce(w, target)
    BY WholeIsInTime DEF ReadAt
  <2>3. r \in Looping(AtOnce(w, target))
    BY <2>1, <2>2 DEF Looping, On, Of
  <2>4. CrashLoop(AtOnce(w, target), r) \in Emissions(AtOnce(w, target))
    BY <2>3 DEF Emissions
  <2>5. CrashLoop(AtOnce(w, target), r).id = h.id
    BY <1>5, SameIds
  <2> QED BY <2>4, <2>5
<1>6. ASSUME NEW r \in PullFailing(obs), h = ImagePull(obs, r) PROVE Somewhere
  <2>1. PICK w \in moments : r \in PullFailing(AtOnce(w, target))
    BY SeenAt DEF PullFailing
  <2>2. ImagePull(AtOnce(w, target), r) \in Emissions(AtOnce(w, target))
    BY <2>1 DEF Emissions
  <2>3. ImagePull(AtOnce(w, target), r).id = h.id
    BY <1>6, SameIds
  <2> QED BY <2>2, <2>3
<1>7. ASSUME NEW r \in Unschedulable(obs), h = Scheduling(obs, r) PROVE Somewhere
  <2>1. CASE r \in PendingPods(obs)
    <3>1. PICK w \in moments : r \in PendingPods(AtOnce(w, target))
      BY <2>1, SeenAt DEF PendingPods
    <3>2. Scheduling(AtOnce(w, target), r) \in Emissions(AtOnce(w, target))
      BY <3>1 DEF Emissions, Unschedulable
    <3>3. Scheduling(AtOnce(w, target), r).id = <<"scheduling", r[2]>>
      BY <3>1, SchedulingId
    <3>4. h.id = <<"scheduling", r[2]>>
      BY <1>7, <2>1, SchedulingId
    <3> QED BY <3>2, <3>3, <3>4
  <2>2. CASE r \notin PendingPods(obs)
    <3>1. PICK o \in obs : /\ o.kind = "event.recorded" /\ o.on = r
                           /\ o.val \in {"FailedScheduling"}
      BY <2>2 DEF Unschedulable, On
    <3>2. r = PodRef
      BY <1>1, <3>1 DEF Placed
    <3>3. Phase(w0) # "Pending"
      BY <1>1, <1>2, <2>2, <3>2, PendingIs
    <3>4. SeenRunning
      <4> DEFINE s == Obs("pod.state", PodRef, Phase(w0), Bit(w0.pod # "unscheduled"), started)
      <4>1. s \in obs
        BY <1>1, <1>2, PodStateRead DEF OfThePod
      <4>2. s.kind = "pod.state" /\ s.val = Phase(w0)
        BY DEF Obs
      <4>3. Phase(w0) = "Running"
        BY <3>3 DEF Phase
      <4> HIDE DEF s
      <4> QED BY <4>1, <4>2, <4>3 DEF SeenRunning
    <3>5. PICK w \in moments : o \in AtOnce(w, target) /\ Phase(w) = "Running"
      BY <3>1, <3>4, WholeIsInTime DEF ReadAt
    <3>6. r \notin PendingPods(AtOnce(w, target))
      BY <1>1, <1>3, <3>5, PendingIs
    <3>7. r \in Unschedulable(AtOnce(w, target))
      BY <3>1, <3>5 DEF Unschedulable, On
    <3>8. Scheduling(AtOnce(w, target), r) \in Emissions(AtOnce(w, target))
      BY <3>7 DEF Emissions
    <3>9. Scheduling(AtOnce(w, target), r).id = <<"scheduling", "">>
      BY <3>6, SchedulingId
    <3>10. h.id = <<"scheduling", "">>
      BY <1>7, <2>2, SchedulingId
    <3> QED BY <3>8, <3>9, <3>10
  <2> QED BY <2>1, <2>2
<1>8. ASSUME NEW r \in Pressured(obs), h = NodePressure(obs, r) PROVE Somewhere
  <2>1. PICK w \in moments : r \in Pressured(AtOnce(w, target))
    BY SeenAt DEF Pressured
  <2>2. NodePressure(AtOnce(w, target), r) \in Emissions(AtOnce(w, target))
    BY <2>1 DEF Emissions
  <2>3. NodePressure(AtOnce(w, target), r).id = h.id
    BY <1>8, SameIds
  <2> QED BY <2>2, <2>3
<1>9. ASSUME NEW r \in Unhealthy(obs), h = Probe(obs, r) PROVE Somewhere
  <2>1. PICK w \in moments : r \in Unhealthy(AtOnce(w, target))
    BY SeenAt DEF Unhealthy
  <2>2. Probe(AtOnce(w, target), r) \in Emissions(AtOnce(w, target))
    BY <2>1 DEF Emissions
  <2>3. Probe(AtOnce(w, target), r).id = h.id
    BY <1>9, SameIds
  <2> QED BY <2>2, <2>3
<1>10. ASSUME NEW r \in UnboundClaims(obs), h = ClaimUnbound(obs, r) PROVE Somewhere
  <2>1. PICK w \in moments : r \in UnboundClaims(AtOnce(w, target))
    BY SeenAt DEF UnboundClaims
  <2>2. ClaimUnbound(AtOnce(w, target), r) \in Emissions(AtOnce(w, target))
    BY <2>1 DEF Emissions
  <2>3. ClaimUnbound(AtOnce(w, target), r).id = h.id
    BY <1>10, SameIds
  <2> QED BY <2>2, <2>3
<1>11. ASSUME NEW r \in NoEndpoints(obs), h = ServiceDown(obs, r) PROVE Somewhere
  <2>1. PICK w \in moments : r \in NoEndpoints(AtOnce(w, target))
    BY SeenAt DEF NoEndpoints
  <2>2. ServiceDown(AtOnce(w, target), r) \in Emissions(AtOnce(w, target))
    BY <2>1 DEF Emissions
  <2>3. ServiceDown(AtOnce(w, target), r).id = h.id
    BY <1>11, SameIds
  <2> QED BY <2>2, <2>3
<1>12. ASSUME NEW r \in AtMax(obs), h = AtMaximum(obs, r) PROVE Somewhere
  <2>1. PICK w \in moments : r \in AtMax(AtOnce(w, target))
    BY SeenAt DEF AtMax
  <2>2. AtMaximum(AtOnce(w, target), r) \in Emissions(AtOnce(w, target))
    BY <2>1 DEF Emissions
  <2>3. AtMaximum(AtOnce(w, target), r).id = h.id
    BY <1>12, SameIds
  <2> QED BY <2>2, <2>3
<1>13. ASSUME NEW r \in ChangedResources(obs), h = Regression(obs, r) PROVE Somewhere
  <2>1. HasSymptom(obs) /\ \E o \in obs :
          /\ o.on = r /\ o.kind \in {"git.commit", "gitops.state", "deployment.state"}
    BY DEF ChangedResources, Of
  <2> PICK o \in obs : o.on = r /\ o.kind \in {"git.commit", "gitops.state", "deployment.state"}
    BY <2>1
  <2>2. PICK w \in moments : o \in AtOnce(w, target)
    BY WholeIsInTime DEF ReadAt
  <2>3. Alike(w, w0)
    BY DEF Timed, Kept, Alike
  <2>4. PICK p \in AtOnce(w0, target) : p.kind = o.kind /\ p.on = o.on
    BY <1>1, <2>2, <2>3, ChangesStay
  <2>5. HasSymptom(AtOnce(w0, target))
    BY <1>2, <1>3, <2>1, SymptomOfPod
  <2>6. r \in ChangedResources(AtOnce(w0, target))
    BY <2>4, <2>5 DEF ChangedResources, Of
  <2>7. Regression(AtOnce(w0, target), r) \in Emissions(AtOnce(w0, target))
    BY <2>6 DEF Emissions
  <2>8. Regression(AtOnce(w0, target), r).id = h.id
    BY <1>13, SameIds
  <2> QED BY <2>7, <2>8
<1>14. ASSUME h = DnsFailure(obs, DnsRef), DnsTrouble(obs, DnsRef) PROVE Somewhere
  <2>1. \A w \in moments : \A o \in DnsEvents(AtOnce(w, target)) :
          o.on = PodRef /\ o.val = "Failed" /\ "Failed" \in w.events
    <3> SUFFICES ASSUME NEW w \in moments, NEW o \in DnsEvents(AtOnce(w, target))
                 PROVE  o.on = PodRef /\ o.val = "Failed" /\ "Failed" \in w.events
      OBVIOUS
    <3>1. o \in AtOnce(w, target) /\ o.kind = "event.recorded" /\ o.n = 1
      BY DEF DnsEvents, Of
    <3>2. PICK c \in CallSet : \E F : o \in Reads(c, w, target, F)
      BY <1>3, <3>1
    <3> PICK F : o \in Reads(c, w, target, F)
      BY <3>2
    <3> QED BY <1>1, <3>1, KindsRead
  <2>2. ASSUME NEW w \in moments, DnsTrouble(AtOnce(w, target), DnsRef)
        PROVE  DnsFailure(AtOnce(w, target), DnsRef) \in Emissions(AtOnce(w, target))
    BY <2>2 DEF Emissions
  <2>3. CASE DnsEvents(obs) # {}
    <3>1. PICK e \in DnsEvents(obs) : h.id = <<"dns", e.on[2]>>
      BY <1>14, <2>3, DnsId
    <3>2. PICK w \in moments : e \in AtOnce(w, target)
      BY <3>1, WholeIsInTime DEF ReadAt, DnsEvents, Of
    <3>3. e \in DnsEvents(AtOnce(w, target))
      BY <3>1, <3>2 DEF DnsEvents, Of
    <3>4. PICK f \in DnsEvents(AtOnce(w, target)) :
            DnsFailure(AtOnce(w, target), DnsRef).id = <<"dns", f.on[2]>>
      BY <3>3, DnsId
    <3>5. e.on = PodRef /\ f.on = PodRef
      BY <2>1, <3>3
    <3>6. DnsFailure(AtOnce(w, target), DnsRef) \in Emissions(AtOnce(w, target))
      BY <2>2, <3>3 DEF DnsTrouble
    <3> QED BY <3>1, <3>4, <3>5, <3>6
  <2>4. CASE DnsEvents(obs) = {}
    <3>1. CoreDnsDown(obs, DnsRef)
      BY <1>14, <2>4 DEF DnsTrouble
    <3>2. PICK w \in moments : w.dns = "down" /\ "Failed" \notin w.events
      BY <2>4, <3>1 DEF Timed, DnsInTime, DownUnnoticed
    <3>3. DnsEvents(AtOnce(w, target)) = {}
      BY <2>1, <3>2
    <3>4. CoreDnsDown(AtOnce(w, target), DnsRef)
      <4> DEFINE d == DeploymentState(DnsRef, "down")
      <4>1. d.kind = "deployment.state" /\ d.on = DnsRef /\ d.val = "down"
        BY DEF DeploymentState, Obs
      <4>2. d \in Reads("coredns", w, target, {})
        BY <3>2 DEF Reads, DnsObservations
      <4>3. d \in AtOnce(w, target)
        BY <1>1, <4>2, AtOnceHolds DEF CallSet
      <4> HIDE DEF d
      <4> QED BY <4>1, <4>3 DEF CoreDnsDown, Seen
    <3>5. DnsFailure(AtOnce(w, target), DnsRef) \in Emissions(AtOnce(w, target))
      BY <2>2, <3>4 DEF DnsTrouble
    <3>6. DnsFailure(AtOnce(w, target), DnsRef).id = <<"dns", "unknown">>
      BY <3>3, DnsId
    <3>7. h.id = <<"dns", "unknown">>
      BY <1>14, <2>4, DnsId
    <3> QED BY <3>5, <3>6, <3>7
  <2> QED BY <2>3, <2>4
<1>15. \/ \E r \in Killed(obs) : h = Memory(obs, r)
       \/ \E r \in Looping(obs) : h = CrashLoop(obs, r)
       \/ \E r \in PullFailing(obs) : h = ImagePull(obs, r)
       \/ \E r \in Unschedulable(obs) : h = Scheduling(obs, r)
       \/ \E r \in Pressured(obs) : h = NodePressure(obs, r)
       \/ \E r \in Unhealthy(obs) : h = Probe(obs, r)
       \/ \E r \in UnboundClaims(obs) : h = ClaimUnbound(obs, r)
       \/ \E r \in NoEndpoints(obs) : h = ServiceDown(obs, r)
       \/ \E r \in AtMax(obs) : h = AtMaximum(obs, r)
       \/ \E r \in ChangedResources(obs) : h = Regression(obs, r)
       \/ h = DnsFailure(obs, DnsRef) /\ DnsTrouble(obs, DnsRef)
  BY DEF Emissions
<1> HIDE DEF Somewhere
<1> QED BY <1>4, <1>5, <1>6, <1>7, <1>8, <1>9, <1>10, <1>11, <1>12, <1>13, <1>14, <1>15

\* What a report says is emitted from what was read, and all of it is said.
LEMMA ReportSays ==
  ASSUME IInv, Reported
  PROVE  \E hs : /\ Lists(hs, Emissions(obs)) /\ Verdicts = Merge(hs)
                 /\ Emittable(Emissions(obs))
<1>1. IsFiniteSet(obs) /\ Emittable(Emissions(obs))
  BY EmissionsEmittable DEF IInv, Collected
<1>2. PICK order \in Orders(obs) : report = ReportOf(obs, order)
  BY DEF IInv, ReportIsOfObs, Reported
<1> DEFINE hs == Emitted(obs, DnsRef, order)
<1>3. Lists(hs, Emissions(obs))
  BY <1>1, <1>2, EmittedLists
<1>4. Verdicts = Merge(hs)
  BY <1>2 DEF ReportOf, Verdicts
<1> HIDE DEF hs
<1> QED BY <1>1, <1>3, <1>4

\* The calls of a pass read the cluster at different times, but every hypothesis is one
\* that a pass at a single instant between them would have made (kubernetes/collector.go
\* 92-200, the calls of one Collect).
THEOREM BlameHasAMoment == Spec => []EachBlameHasAMoment
<1>1. Timed => EachBlameHasAMoment
  <2> SUFFICES ASSUME Timed, Reported, lost = 0, NEW i \in DOMAIN Verdicts
               PROVE  \E w \in moments : Verdicts[i].id \in Blamed(AtOnce(w, target))
    BY DEF EachBlameHasAMoment
  <2>1. PICK hs : /\ Lists(hs, Emissions(obs)) /\ Verdicts = Merge(hs)
                  /\ Emittable(Emissions(obs))
    BY ReportSays DEF Timed
  <2>2. Verdicts[i].id \in {h.id : h \in Emissions(obs)}
    BY <2>1, MergedEmissions
  <2>3. PICK h \in Emissions(obs) : Verdicts[i].id = h.id
    BY <2>2
  <2>4. PICK w \in moments : \E g \in Emissions(AtOnce(w, target)) : g.id = h.id
    BY EmissionHasAMoment DEF Reported
  <2>5. w \in Worlds /\ target \in {PodRef, AppRef}
    BY DEF Timed, IInv, Typed
  <2>6. Blamed(AtOnce(w, target)) = {g.id : g \in Emissions(AtOnce(w, target))}
    BY <2>5, AtOnceReads, BlamedIs
  <2> QED BY <2>3, <2>4, <2>6
<1> QED BY <1>1, InTime, PTL

-------------------------------------------------------------------------------
(* Why a failing pod is explained. *)

\* A score that leaves the gap to no explanation of a pod that scores at least lo.
Between(x, lo) == x \in Nat /\ lo <= x /\ x <= 9471

\* The margins of what is seen of a container that failed, and those of what else is said
\* of a pod.
FailureMargins == {25, 29, 35, 39, 41, 45, 50, 51, 55, 60, 62, 72}
PodMargins == {-20, 0, 4, 5, 10, 14, 20, 24, 25, 30, 34, 35, 40, 45, 50, 55, 60, 75}

\* The scores between which the explanations of a pod lie.
LEMMA ScoreBounds ==
  /\ \A m \in FailureMargins : Between(Sigmoid(m), 7234)
  /\ \A m \in PodMargins : Between(Sigmoid(m), 0)
<1>1. 0 + 41 = 41 /\ SigmoidTable[41] = 5000
  BY DEF SigmoidTable
<1>2. 20 + 41 = 61 /\ SigmoidTable[61] = 6834
  BY DEF SigmoidTable
<1>3. 24 + 41 = 65 /\ SigmoidTable[65] = 7157
  BY DEF SigmoidTable
<1>4. 25 + 41 = 66 /\ SigmoidTable[66] = 7234
  BY DEF SigmoidTable
<1>5. 29 + 41 = 70 /\ SigmoidTable[70] = 7531
  BY DEF SigmoidTable
<1>6. 34 + 41 = 75 /\ SigmoidTable[75] = 7871
  BY DEF SigmoidTable
<1>7. 45 + 41 = 86 /\ SigmoidTable[86] = 8495
  BY DEF SigmoidTable
<1>8. 55 + 41 = 96 /\ SigmoidTable[96] = 8924
  BY DEF SigmoidTable
<1>9. 75 + 41 = 116 /\ SigmoidTable[116] = 9471
  BY DEF SigmoidTable
<1>10. /\ Sigmoid(0) = 5000 /\ Sigmoid(20) = 6834 /\ Sigmoid(24) = 7157 /\ Sigmoid(25) = 7234
       /\ Sigmoid(29) = 7531 /\ Sigmoid(34) = 7871 /\ Sigmoid(45) = 8495
       /\ Sigmoid(55) = 8924 /\ Sigmoid(75) = 9471
  BY <1>1, <1>2, <1>3, <1>4, <1>5, <1>6, <1>7, <1>8, <1>9 DEF Sigmoid
<1>11. \A m \in FailureMargins : Between(Sigmoid(m), 7234)
  BY <1>10, Scores DEF Between, FailureMargins
<1>12. \A m \in PodMargins : Between(Sigmoid(m), 0)
  BY <1>10, Scores DEF Between, PodMargins
<1> QED BY <1>11, <1>12

\* The hypotheses on resources that are not a pod, and those on a failed pull.
LEMMA OtherEmissions ==
  ASSUME NEW O, NEW h \in Emissions(O)
  PROVE  /\ h.id[1] = "imagepull" => \E r \in PullFailing(O) : h = ImagePull(O, r)
         /\ h.id[1] = "nodepressure" => \E r \in Pressured(O) : h.id[2] = r[2]
         /\ h.id[1] = "pvc" => \E r \in UnboundClaims(O) : h.id[2] = r[2]
         /\ h.id[1] = "service" => \E r \in NoEndpoints(O) : h.id[2] = r[2]
         /\ h.id[1] = "hpa" => \E r \in AtMax(O) : h.id[2] = r[2]
<1> DEFINE Fits == 
      /\ h.id[1] = "imagepull" => \E r \in PullFailing(O) : h = ImagePull(O, r)
      /\ h.id[1] = "nodepressure" => \E r \in Pressured(O) : h.id[2] = r[2]
      /\ h.id[1] = "pvc" => \E r \in UnboundClaims(O) : h.id[2] = r[2]
      /\ h.id[1] = "service" => \E r \in NoEndpoints(O) : h.id[2] = r[2]
      /\ h.id[1] = "hpa" => \E r \in AtMax(O) : h.id[2] = r[2]
<1> SUFFICES Fits
  OBVIOUS
<1>1. ASSUME h.id[1] \in {"memory", "crashloop", "scheduling", "probe", "dns", "configregression"}
      PROVE  Fits
  BY <1>1
<1>2. \A p, n : <<p, n>>[1] = p /\ <<p, n>>[2] = n
  OBVIOUS
<1>3. ASSUME NEW r \in Killed(O), h = Memory(O, r) PROVE h.id[1] = "memory"
  BY <1>2, <1>3, IdsSay
<1>4. ASSUME NEW r \in Looping(O), h = CrashLoop(O, r) PROVE h.id[1] = "crashloop"
  BY <1>2, <1>4, IdsSay
<1>5. ASSUME NEW r \in Unschedulable(O), h = Scheduling(O, r) PROVE h.id[1] = "scheduling"
  <2>1. h.id = <<"scheduling", r[2]>> \/ h.id = <<"scheduling", "">>
    BY <1>5, SchedulingId
  <2> QED BY <1>2, <2>1
<1>6. ASSUME NEW r \in Unhealthy(O), h = Probe(O, r) PROVE h.id[1] = "probe"
  BY <1>2, <1>6, IdsSay
<1>7. ASSUME h = DnsFailure(O, DnsRef) PROVE h.id[1] = "dns"
  BY <1>2, <1>7, DnsId
<1>8. ASSUME NEW r \in ChangedResources(O), h = Regression(O, r) PROVE h.id[1] = "configregression"
  BY <1>2, <1>8, IdsSay
<1>9. ASSUME NEW r \in PullFailing(O), h = ImagePull(O, r) PROVE Fits
  <2>1. h.id[1] = "imagepull"
    BY <1>2, <1>9, IdsSay
  <2> QED BY <1>9, <2>1
<1>10. ASSUME NEW r \in Pressured(O), h = NodePressure(O, r) PROVE Fits
  <2>1. h.id[1] = "nodepressure" /\ h.id[2] = r[2]
    BY <1>2, <1>10, IdsSay
  <2> QED BY <2>1
<1>11. ASSUME NEW r \in UnboundClaims(O), h = ClaimUnbound(O, r) PROVE Fits
  <2>1. h.id[1] = "pvc" /\ h.id[2] = r[2]
    BY <1>2, <1>11, IdsSay
  <2> QED BY <2>1
<1>12. ASSUME NEW r \in NoEndpoints(O), h = ServiceDown(O, r) PROVE Fits
  <2>1. h.id[1] = "service" /\ h.id[2] = r[2]
    BY <1>2, <1>12, IdsSay
  <2> QED BY <2>1
<1>13. ASSUME NEW r \in AtMax(O), h = AtMaximum(O, r) PROVE Fits
  <2>1. h.id[1] = "hpa" /\ h.id[2] = r[2]
    BY <1>2, <1>13, IdsSay
  <2> QED BY <2>1
<1>14. \/ \E r \in Killed(O) : h = Memory(O, r)
       \/ \E r \in Looping(O) : h = CrashLoop(O, r)
       \/ \E r \in PullFailing(O) : h = ImagePull(O, r)
       \/ \E r \in Unschedulable(O) : h = Scheduling(O, r)
       \/ \E r \in Pressured(O) : h = NodePressure(O, r)
       \/ \E r \in Unhealthy(O) : h = Probe(O, r)
       \/ \E r \in UnboundClaims(O) : h = ClaimUnbound(O, r)
       \/ \E r \in NoEndpoints(O) : h = ServiceDown(O, r)
       \/ \E r \in AtMax(O) : h = AtMaximum(O, r)
       \/ \E r \in ChangedResources(O) : h = Regression(O, r)
       \/ h = DnsFailure(O, DnsRef)
  BY DEF Emissions
<1> HIDE DEF Fits
<1> QED BY <1>1, <1>3, <1>4, <1>5, <1>6, <1>7, <1>8, <1>9, <1>10, <1>11, <1>12, <1>13, <1>14

\* What the service and the autoscaler are read to be carries their name.
LEMMA AroundRead ==
  ASSUME NEW w \in Worlds, NEW t \in {PodRef, AppRef}, NEW O, NEW c \in CallSet,
         NEW o \in Reads(c, w, t, O)
  PROVE  /\ o.kind = "service.state" => o.on = ServiceRef
         /\ o.kind = "hpa.state" => o.on = HpaRef
<1>1. ASSUME NEW k, NEW r, NEW v, NEW n, NEW at, o = Obs(k, r, v, n, at)
      PROVE  o.kind = k /\ o.on = r
  BY <1>1 DEF Obs
<1>2. CASE c \in {"deployment", "controller", "coredns"}
  <2>1. \E r, v : o = Obs("deployment.state", r, v, 0, 1)
    BY <1>2 DEF Reads, ControllerState, DeploymentState, DnsObservations
  <2> QED BY <1>1, <2>1
<1>3. CASE c = "pod"
  BY <1>3, PodIsRead DEF Reads, PodKinds
<1>4. CASE c = "owners"
  <2>1. \E r, v : o = Obs("resource.owner", r, v, 0, started)
    BY <1>4 DEF Reads, OwnerChain
  <2> QED BY <1>1, <2>1
<1>5. CASE c \in {"claim", "events"}
  <2>1. \/ o = Obs("pvc.state", ClaimRef, w.claim, 0, 1)
        \/ \E r, e : o = Event(r, e)
        \/ \E k : o = Obs("event.recorded", PodRef, "OOMKilling", 0, k)
    BY <1>5 DEF Reads, ClaimObservations, PodEvents
  <2>2. o.kind \in {"pvc.state", "event.recorded"}
    BY <1>1, <2>1 DEF Event
  <2> QED BY <2>2
<1>6. CASE c = "services"
  <2>1. \E v : o = Obs("service.state", ServiceRef, v, 0, 1)
    BY <1>6 DEF Reads, ServiceObservations
  <2> QED BY <1>1, <2>1
<1>7. CASE c = "autoscaler"
  <2>1. \E v, n : o = Obs("hpa.state", HpaRef, v, n, 1)
    BY <1>7 DEF Reads, HpaObservations
  <2> QED BY <1>1, <2>1
<1>8. CASE c = "node"
  <2>1. \E v : o = Obs("node.condition", NodeRef, v, 0, 1)
    BY <1>8 DEF Reads, NodeObservations
  <2> QED BY <1>1, <2>1
<1>9. CASE c = "git"
  <2>1. o = Obs("git.commit", t, "", 0, w.commit)
    BY <1>9 DEF Reads, GitObservations
  <2> QED BY <1>1, <2>1
<1>10. CASE c = "gitops"
  <2>1. o = Obs("gitops.state", KustomizationRef, w.gitops, 0, 1)
    BY <1>10 DEF Reads, GitOpsObservations
  <2> QED BY <1>1, <2>1
<1> QED BY <1>2, <1>3, <1>4, <1>5, <1>6, <1>7, <1>8, <1>9, <1>10 DEF CallSet

\* Only a hypothesis on the same resource rules out, from the first place and by the gap.
LEMMA RuledOutBy ==
  ASSUME NEW X, Emittable(X), NEW hs \in Seq(X), NEW i \in DOMAIN Merge(hs),
         Merge(hs)[i].status = "RuledOut"
  PROVE  /\ 1 \in DOMAIN Merge(hs)
         /\ Merge(hs)[1].id[2] = Merge(hs)[i].id[2]
         /\ Merge(hs)[1].score - Merge(hs)[i].score >= outrankGap
<1> DEFINE I == {h.id : h \in X}
           C == {h.claim : h \in X}
           E == UNION {h.evidence : h \in X}
           M == UNION {h.missing : h \in X}
           T == {h.status : h \in X}
<1>1. X \subseteq Hyps(I, C, E, M, T) /\ \A h \in X : h.scored
  BY EmittableType DEF HypsOf
<1> HIDE DEF I, C, E, M, T
<1>2. hs \in Seq(Hyps(I, C, E, M, T)) /\ \A j \in DOMAIN hs : hs[j] \in X
  BY <1>1
<1>3. /\ DOMAIN Merge(hs) = 1..Cardinality(Firsts(hs))
      /\ \A k \in DOMAIN Merge(hs) :
           /\ EntryAt(hs, k) \in Firsts(hs)
           /\ Merge(hs)[k] = [MergedAt(hs, EntryAt(hs, k)) EXCEPT
                                !.status = StatusAt(Ranked(hs), k)]
  BY <1>2, MergeEntries
<1>4. Cardinality(Firsts(hs)) \in Nat
  BY <1>2, RanksArePlaces
<1>5. 1 \in DOMAIN Merge(hs)
  BY <1>3, <1>4
<1>6. ASSUME NEW k \in DOMAIN Merge(hs)
      PROVE  /\ Ranked(hs)[k].id = Merge(hs)[k].id
             /\ scoreOf(Ranked(hs)[k]) = Merge(hs)[k].score
             /\ Merge(hs)[k].status = StatusAt(Ranked(hs), k)
  <2>1. Ranked(hs)[k] = MergedAt(hs, EntryAt(hs, k))
    BY <1>3 DEF Ranked
  <2>2. EntryAt(hs, k) \in DOMAIN hs
    BY <1>3 DEF Firsts
  <2> DEFINE m == MergedAt(hs, EntryAt(hs, k))
             st == StatusAt(Ranked(hs), k)
             v == Merge(hs)[k]
  <2>3. m \in Hyps(I, C, E, M, T) /\ m.scored = hs[EntryAt(hs, k)].scored
    <3>1. m \in Hyps(I, C, E, M, T)
      BY <1>2, <2>2, MergedAtType
    <3>2. hs[EntryAt(hs, k)] \in Hyps(I, C, E, M, T)
      BY <1>2, <2>2
    <3> QED BY <3>1, <3>2 DEF MergedAt, Hyps
  <2>4. m.scored
    BY <1>1, <1>2, <2>2, <2>3
  <2>5. v = [m EXCEPT !.status = st]
    BY <1>3
  <2> HIDE DEF m, st, v
  <2>6. v.id = m.id /\ v.score = m.score /\ v.status = st
    BY <2>3, <2>5 DEF Hyps
  <2>7. scoreOf(m) = m.score
    BY <2>4 DEF scoreOf
  <2> QED BY <2>1, <2>6, <2>7 DEF m, st, v
<1>7. StatusAt(Ranked(hs), i) = "RuledOut"
  BY <1>6
<1>8. /\ resourceOf(Ranked(hs)[1].id) = resourceOf(Ranked(hs)[i].id)
      /\ scoreOf(Ranked(hs)[1]) - scoreOf(Ranked(hs)[i]) >= outrankGap
  BY <1>7 DEF StatusAt, sameResource
<1> QED BY <1>5, <1>6, <1>8 DEF resourceOf

\* A pod that was waiting to start whenever it could be seen has not run, and no event
\* says that it did.
LEMMA NothingRan ==
  ASSUME Timed, NEW w0 \in moments, OfThePod(obs) = PodObservations(w0),
         \A w \in moments : w.pod \in {"unscheduled", "creating"}
  PROVE  /\ Killed(obs) = {} /\ Looping(obs) = {} /\ PullFailing(obs) = {}
         /\ Unhealthy(obs) = {} /\ DnsEvents(obs) = {}
<1>1. moments \subseteq Worlds /\ target \in {PodRef, AppRef}
  BY DEF Timed, IInv, Typed
<1>2. PICK v : ContainerState(w0) = {Obs("container.waiting", PodRef, v, w0.restarts, started)}
               /\ v \in {"Pending", "ContainerCreating"}
  BY DEF ContainerState
<1>3. \A o \in obs : /\ o.kind \notin {"container.terminated", "container.running"}
                     /\ o.kind = "container.waiting" => o.val \in {"Pending", "ContainerCreating"}
  <2> SUFFICES ASSUME NEW o \in obs, o.kind \in ContainerKinds
               PROVE  o.kind = "container.waiting" /\ o.val \in {"Pending", "ContainerCreating"}
    BY DEF ContainerKinds
  <2>1. o \in PodObservations(w0)
    BY DEF OfThePod, PodKinds, ContainerKinds
  <2>2. \A x, n, at : /\ Obs("pod.state", PodRef, x, n, at).kind \notin ContainerKinds
                      /\ Obs("container.spec", PodRef, x, n, at).kind \notin ContainerKinds
    BY DEF Obs, ContainerKinds
  <2>3. o \in ContainerState(w0)
    BY <2>1, <2>2 DEF PodObservations
  <2>4. o.kind = "container.waiting" /\ o.val = v
    BY <1>2, <2>3 DEF Obs
  <2> QED BY <1>2, <2>4
<1>5. \A o \in obs : o.kind = "event.recorded" =>
        o.n # 1 /\ o.val \notin {"Unhealthy", "ProbeError", "OOMKilling"}
  <2> SUFFICES ASSUME NEW o \in obs, o.kind = "event.recorded"
               PROVE  o.n # 1 /\ o.val \notin {"Unhealthy", "ProbeError", "OOMKilling"}
    OBVIOUS
  <2>0. Unread.kind # "event.recorded"
    BY DEF Unread, Obs
  <2>1. PICK w \in moments : o \in AtOnce(w, target)
    BY <2>0 DEF Timed, ReadInTime, ReadAt
  <2>2. PICK c \in CallSet : \E F : o \in Reads(c, w, target, F)
    BY <1>1, <2>1, AtOnceReads
  <2> PICK F : o \in Reads(c, w, target, F)
    BY <2>2
  <2>3. /\ o.n = 1 <=> o.val = "Failed"
        /\ \/ o.val \in w.events \/ o.val = "FailedBinding"
           \/ o.val = "OOMKilling" /\ w.kills # 0
    BY <1>1, KindsRead
  <2>4. "Unhealthy" \notin w.events /\ "Failed" \notin w.events /\ w.kills = 0
    BY DEF Timed, AllPlausible, Plausible
  <2>5. "ProbeError" \notin w.events /\ "OOMKilling" \notin w.events
    BY <1>1 DEF Worlds, EventReasons
  <2> QED BY <2>3, <2>4, <2>5
<1>6. Unhealthy(obs) = {} /\ DnsEvents(obs) = {}
  BY <1>5 DEF Unhealthy, DnsEvents, On, Of
<1>7. Killed(obs) = {} /\ Looping(obs) = {} /\ PullFailing(obs) = {}
  BY <1>3, <1>5 DEF Killed, Kills, Looping, PullFailing, On, Of
<1> QED BY <1>6, <1>7

LEMMA BetweenToo == \A x : Between(x, 7234) => Between(x, 0)
BY DEF Between

\* What can be in the first place of the pod, changes aside.
LEMMA OnThePod ==
  ASSUME Timed, NEW h \in Emissions(obs), h.id[2] = Pod, h.id[1] # "configregression"
  PROVE  /\ Between(h.score, 0)
         /\ h.id[1] \in {"memory", "imagepull", "crashloop"} => Between(h.score, 7234)
         /\ h.id[1] # "scheduling" =>
              \/ Killed(obs) # {} \/ Looping(obs) # {} \/ PullFailing(obs) # {}
              \/ Unhealthy(obs) # {} \/ DnsEvents(obs) # {}
         /\ h.id[1] = "scheduling" => h = Scheduling(obs, PodRef)
<1>1. /\ moments \subseteq Worlds /\ target \in {PodRef, AppRef}
      /\ \A o \in obs : Placed(o)
  BY DEF Timed, IInv, Typed, Collected
<1>2. \A o \in obs : /\ o.kind = "node.condition" => o.on[2] = Node
                     /\ o.kind = "pvc.state" => o.on[2] = Claim
                     /\ o.kind \in {"service.state", "hpa.state"} => o.on[2] = App
  <2> SUFFICES ASSUME NEW o \in obs
               PROVE  /\ o.kind = "node.condition" => o.on[2] = Node
                      /\ o.kind = "pvc.state" => o.on[2] = Claim
                      /\ o.kind \in {"service.state", "hpa.state"} => o.on[2] = App
    OBVIOUS
  <2>1. ASSUME ReadAt(o)
        PROVE  /\ o.kind = "service.state" => o.on = ServiceRef
               /\ o.kind = "hpa.state" => o.on = HpaRef
    <3>1. PICK w \in moments : o \in AtOnce(w, target)
      BY <2>1 DEF ReadAt
    <3>2. PICK c \in CallSet : \E F : o \in Reads(c, w, target, F)
      BY <1>1, <3>1, AtOnceReads
    <3> PICK F : o \in Reads(c, w, target, F)
      BY <3>2
    <3> QED BY <1>1, AroundRead
  <2>2. ASSUME o = Unread
        PROVE  /\ o.kind = "service.state" => o.on = ServiceRef
               /\ o.kind = "hpa.state" => o.on = HpaRef
    <3>1. Unread.kind = "service.state" /\ Unread.on = ServiceRef
      BY DEF Unread, Obs
    <3> QED BY <2>2, <3>1
  <2>3. /\ o.kind = "service.state" => o.on = ServiceRef
        /\ o.kind = "hpa.state" => o.on = HpaRef
    BY <2>1, <2>2 DEF Timed, ReadInTime
  <2>4. ServiceRef[2] = App /\ HpaRef[2] = App /\ NodeRef[2] = Node /\ ClaimRef[2] = Claim
    BY DEF ServiceRef, HpaRef, NodeRef, ClaimRef
  <2> QED BY <1>1, <2>3, <2>4 DEF Placed
<1>3. h.id[1] \notin {"nodepressure", "pvc", "service", "hpa"}
  <2>1. \A r \in Pressured(obs) : r[2] = Node
    BY <1>2 DEF Pressured, On
  <2>2. \A r \in UnboundClaims(obs) : r[2] = Claim
    BY <1>2 DEF UnboundClaims, On
  <2>3. \A r \in NoEndpoints(obs) \cup AtMax(obs) : r[2] = App
    BY <1>2 DEF NoEndpoints, AtMax, On
  <2>4. Pod \notin {App, Claim, Node}
    BY NamesAssumption
  <2> QED BY <2>1, <2>2, <2>3, <2>4, OtherEmissions
<1>4. h.id[1] \in {"memory", "imagepull", "crashloop", "scheduling", "probe", "dns"}
  <2>1. h.id[1] \in DOMAIN Precedence
    BY <1>1, EmissionsSay
  <2>2. DOMAIN Precedence = {"nodepressure", "memory", "pvc", "imagepull", "crashloop",
                             "scheduling", "probe", "service", "dns", "hpa", "configregression"}
    BY DEF Precedence
  <2> QED BY <1>3, <2>1, <2>2
<1> DEFINE Fits == /\ Between(h.score, 0)
                   /\ h.id[1] \in {"memory", "imagepull", "crashloop"} => Between(h.score, 7234)
                   /\ h.id[1] # "scheduling" =>
                        \/ Killed(obs) # {} \/ Looping(obs) # {} \/ PullFailing(obs) # {}
                        \/ Unhealthy(obs) # {} \/ DnsEvents(obs) # {}
                   /\ h.id[1] = "scheduling" => h = Scheduling(obs, PodRef)
<1> SUFFICES Fits
  OBVIOUS
<1>5. CASE h.id[1] = "memory"
  <2>1. PICK r \in Killed(obs) : h = Memory(obs, r)
    BY <1>1, <1>5, EmissionsSay
  <2>2. PICK m \in FailureMargins : h.score = Sigmoid(m)
    BY <2>1, MemorySays DEF Says, FailureMargins
  <2>3. Between(h.score, 7234)
    BY <2>2, ScoreBounds
  <2> QED BY <1>5, <2>1, <2>3, BetweenToo
<1>6. CASE h.id[1] = "crashloop"
  <2>1. PICK r \in Looping(obs) : h = CrashLoop(obs, r)
    BY <1>1, <1>6, EmissionsSay
  <2>2. PICK m \in FailureMargins : h.score = Sigmoid(m)
    BY <2>1, CrashLoopSays DEF Says, FailureMargins
  <2>3. Between(h.score, 7234)
    BY <2>2, ScoreBounds
  <2> QED BY <1>6, <2>1, <2>3, BetweenToo
<1>7. CASE h.id[1] = "imagepull"
  <2>1. PICK r \in PullFailing(obs) : h = ImagePull(obs, r)
    BY <1>7, OtherEmissions
  <2>2. PICK m \in FailureMargins : h.score = Sigmoid(m)
    BY <2>1, ImagePullSays DEF Says, FailureMargins
  <2>3. Between(h.score, 7234)
    BY <2>2, ScoreBounds
  <2> QED BY <1>7, <2>1, <2>3, BetweenToo
<1>8. CASE h.id[1] = "scheduling"
  <2>1. PICK r \in Unschedulable(obs) : h = Scheduling(obs, r)
    BY <1>1, <1>8, EmissionsSay
  <2>2. r = PodRef
    BY <1>1 DEF Unschedulable, PendingPods, On, Placed, PodKinds
  <2>3. PICK m \in PodMargins : h.score = Sigmoid(m)
    <3>1. PICK m \in {4, 14, 24, 30, 34, 40, 50, 60} : \E n : Says(h, <<"scheduling", n>>, m)
      BY <2>1, SchedulingSays
    <3>2. m \in PodMargins
      BY DEF PodMargins
    <3> QED BY <3>1, <3>2 DEF Says
  <2>4. Between(h.score, 0)
    BY <2>3, ScoreBounds
  <2> QED BY <1>8, <2>1, <2>2, <2>4
<1>9. CASE h.id[1] = "probe"
  <2>1. PICK r \in Unhealthy(obs) : h = Probe(obs, r)
    BY <1>1, <1>9, EmissionsSay
  <2>2. PICK m \in PodMargins : h.score = Sigmoid(m)
    BY <2>1, ProbeSays DEF Says, PodMargins
  <2>3. Between(h.score, 0)
    BY <2>2, ScoreBounds
  <2> QED BY <1>9, <2>1, <2>3
<1>10. CASE h.id[1] = "dns"
  <2>1. h = DnsFailure(obs, DnsRef)
    BY <1>1, <1>10, EmissionsSay
  <2>2. PICK m \in PodMargins : h.score = Sigmoid(m)
    BY <2>1, DnsSays DEF Says, PodMargins
  <2>3. Between(h.score, 0)
    BY <2>2, ScoreBounds
  <2>4. DnsEvents(obs) # {}
    <3> SUFFICES ASSUME DnsEvents(obs) = {} PROVE FALSE
      OBVIOUS
    <3>1. h.id = <<"dns", "unknown">>
      BY <2>1, DnsId
    <3> QED BY <3>1, NamesAssumption
  <2> QED BY <1>10, <2>3, <2>4
<1> HIDE DEF Fits
<1> QED BY <1>4, <1>5, <1>6, <1>7, <1>8, <1>9, <1>10

\* What the GET of a pod shows of a failing state is what its analyzer needs.
LEMMA ShownToItsAnalyzer ==
  ASSUME IInv, NEW w0 \in moments, OfThePod(obs) = PodObservations(w0),
         NEW p \in Explains(w0.pod)
  PROVE  /\ p \in {"scheduling", "imagepull", "memory", "crashloop"}
         /\ p = "scheduling" => w0.pod \in {"unscheduled", "creating"}
         /\ \E h \in Emissions(obs) : h.id = <<p, Pod>>
<1>1. w0 \in Worlds /\ w0.pod \in PodStates
  BY DEF IInv, Typed, Worlds
<1>2. \A o \in ContainerState(w0) : o \in obs
  BY DEF OfThePod, PodObservations
<1>3. \A k, v, n, at : /\ Obs(k, PodRef, v, n, at).kind = k /\ Obs(k, PodRef, v, n, at).val = v
                       /\ Obs(k, PodRef, v, n, at).on = PodRef
  BY DEF Obs
<1>4. PodRef[2] = Pod
  BY DEF PodRef
<1>5. CASE w0.pod \in {"unscheduled", "creating"}
  <2>1. p = "scheduling"
    BY <1>5 DEF Explains
  <2>2. PodRef \in PendingPods(obs)
    BY <1>1, <1>5, PendingIs DEF Phase
  <2>3. Scheduling(obs, PodRef) \in Emissions(obs)
    BY <2>2 DEF Emissions, Unschedulable
  <2>4. Scheduling(obs, PodRef).id = <<"scheduling", Pod>>
    BY <1>4, <2>2, SchedulingId
  <2> QED BY <1>5, <2>1, <2>3, <2>4
<1>6. CASE w0.pod = "pulling"
  <2>1. p = "imagepull"
    BY <1>6 DEF Explains
  <2> DEFINE o == Obs("container.waiting", PodRef, "ImagePullBackOff", w0.restarts, started)
  <2>2. o \in ContainerState(w0)
    BY <1>6 DEF ContainerState
  <2>3. o \in obs /\ o.kind = "container.waiting" /\ o.val = "ImagePullBackOff" /\ o.on = PodRef
    BY <1>2, <1>3, <2>2
  <2> HIDE DEF o
  <2>4. PodRef \in PullFailing(obs)
    BY <2>3 DEF PullFailing, On
  <2>5. ImagePull(obs, PodRef) \in Emissions(obs)
    BY <2>4 DEF Emissions
  <2>6. ImagePull(obs, PodRef).id = <<"imagepull", Pod>>
    BY <1>4, IdsSay
  <2> QED BY <2>1, <2>5, <2>6
<1>7. CASE w0.pod = "oom"
  <2>1. p = "memory"
    BY <1>7 DEF Explains
  <2> DEFINE o == Obs("container.terminated", PodRef, "OOMKilled", w0.restarts, failed)
  <2>2. o \in ContainerState(w0)
    BY <1>7 DEF ContainerState
  <2>3. o \in obs /\ o.kind = "container.terminated" /\ o.val = "OOMKilled" /\ o.on = PodRef
    BY <1>2, <1>3, <2>2
  <2> HIDE DEF o
  <2>4. PodRef \in Killed(obs)
    BY <2>3 DEF Killed, Kills
  <2>5. Memory(obs, PodRef) \in Emissions(obs)
    BY <2>4 DEF Emissions
  <2>6. Memory(obs, PodRef).id = <<"memory", Pod>>
    BY <1>4, IdsSay
  <2> QED BY <2>1, <2>5, <2>6
<1>8. CASE w0.pod = "backoff"
  <2>1. p = "crashloop"
    BY <1>8 DEF Explains
  <2> DEFINE o == Obs("container.waiting", PodRef, "CrashLoopBackOff", w0.restarts, started)
  <2>2. o \in ContainerState(w0)
    BY <1>8 DEF ContainerState
  <2>3. o \in obs /\ o.kind = "container.waiting" /\ o.val = "CrashLoopBackOff" /\ o.on = PodRef
    BY <1>2, <1>3, <2>2
  <2> HIDE DEF o
  <2>4. PodRef \in Looping(obs)
    BY <2>3 DEF Looping, On
  <2>5. CrashLoop(obs, PodRef) \in Emissions(obs)
    BY <2>4 DEF Emissions
  <2>6. CrashLoop(obs, PodRef).id = <<"crashloop", Pod>>
    BY <1>4, IdsSay
  <2> QED BY <2>1, <2>5, <2>6
<1>9. CASE w0.pod \in {"running", "unready", "crashed"}
  BY <1>9 DEF Explains
<1> QED BY <1>1, <1>5, <1>6, <1>7, <1>8, <1>9 DEF PodStates

\* A pod that stays in a failing state throughout the pass is explained by the analyzer of
\* that state as long as it was read, and nothing but a commit on the pod rules that
\* explanation out (hypothesis.go:62-77).
THEOREM FailuresExplained == Spec => []FailureIsExplained
<1>1. Timed => FailureIsExplained
  <2> SUFFICES ASSUME Timed, Reported, \E o \in obs : o.kind = "pod.state",
                      NEW s \in PodStates, \A w \in moments : w.pod = s,
                      NEW p \in Explains(s)
               PROVE  \E i \in DOMAIN Verdicts :
                        /\ Verdicts[i].id = <<p, Pod>>
                        /\ (Verdicts[i].status = "RuledOut" =>
                              Verdicts[1].id[1] = "configregression")
    BY DEF FailureIsExplained
  <2>1. OfThePod(obs) # {}
    BY DEF OfThePod, PodKinds
  <2>2. PICK w0 \in moments : OfThePod(obs) = PodObservations(w0)
    BY <2>1 DEF Timed, IInv, PodReadOnce
  <2>3. w0.pod = s
    OBVIOUS
  <2>4. /\ p \in {"scheduling", "imagepull", "memory", "crashloop"}
        /\ p = "scheduling" => s \in {"unscheduled", "creating"}
        /\ \E h \in Emissions(obs) : h.id = <<p, Pod>>
    BY <2>2, <2>3, ShownToItsAnalyzer DEF Timed
  <2>5. PICK hs : /\ Lists(hs, Emissions(obs)) /\ Verdicts = Merge(hs)
                  /\ Emittable(Emissions(obs))
    BY ReportSays DEF Timed
  <2>6. <<p, Pod>> # NoID
    <3>1. p \in DOMAIN Precedence
      BY <2>4 DEF Precedence
    <3> QED BY <3>1, NamesAssumption
  <2>7. PICK i \in DOMAIN Verdicts : Verdicts[i].id = <<p, Pod>>
    <3>1. PICK h \in Emissions(obs) : h.id = <<p, Pod>>
      BY <2>4
    <3>2. h.id # NoID
      BY <2>6, <3>1
    <3>3. \E n \in DOMAIN Merge(hs) : Merge(hs)[n].id = h.id
      BY <2>5, <3>2, MergedEmissions
    <3> QED BY <2>5, <3>1, <3>3
  <2> SUFFICES ASSUME Verdicts[i].status = "RuledOut",
                      Verdicts[1].id[1] # "configregression"
               PROVE  FALSE
    BY <2>7
  <2>8. hs \in Seq(Emissions(obs))
    BY <2>5 DEF Lists
  <2>9. /\ 1 \in DOMAIN Verdicts
        /\ Verdicts[1].id[2] = Verdicts[i].id[2]
        /\ Verdicts[1].score - Verdicts[i].score >= outrankGap
    BY <2>5, <2>8, RuledOutBy
  <2>10. \A k \in DOMAIN Verdicts : \E h \in Emissions(obs) :
           h.id = Verdicts[k].id /\ h.score = Verdicts[k].score
    BY <2>5, <2>8, RankedFrom
  <2>11. PICK g \in Emissions(obs) : g.id = Verdicts[1].id /\ g.score = Verdicts[1].score
    BY <2>9, <2>10
  <2>12. PICK h \in Emissions(obs) : h.id = Verdicts[i].id /\ h.score = Verdicts[i].score
    BY <2>10
  <2>13. h.id[1] = p /\ h.id[2] = Pod /\ g.id[2] = Pod /\ g.id[1] # "configregression"
    BY <2>7, <2>9, <2>11, <2>12
  <2>14. g.score - h.score >= outrankGap
    BY <2>9, <2>11, <2>12
  <2>15. Between(g.score, 0) /\ Between(h.score, 0)
    <3>1. h.id[1] # "configregression"
      BY <2>4, <2>13
    <3> QED BY <2>13, <3>1, OnThePod
  <2>16. outrankGap >= 2500 /\ outrankGap \in Nat
    BY GapAssumption, OutrankGapAssumption
  <2>17. CASE p = "scheduling"
    <3>1. \A w \in moments : w.pod \in {"unscheduled", "creating"}
      BY <2>4, <2>17
    <3>2. /\ Killed(obs) = {} /\ Looping(obs) = {} /\ PullFailing(obs) = {}
          /\ Unhealthy(obs) = {} /\ DnsEvents(obs) = {}
      BY <2>2, <3>1, NothingRan
    <3>3. g.id[1] = "scheduling"
      BY <2>13, <3>2, OnThePod
    <3>4. g = Scheduling(obs, PodRef)
      BY <2>13, <3>3, OnThePod
    <3>5. h = Scheduling(obs, PodRef)
      BY <2>13, <2>17, OnThePod
    <3>6. g.score = h.score
      BY <3>4, <3>5
    <3> QED BY ONLY <2>14, <2>15, <2>16, <3>6 DEF Between
  <2>18. CASE p # "scheduling"
    <3>1. Between(h.score, 7234)
      BY <2>4, <2>13, <2>18, OnThePod
    <3> QED BY ONLY <2>14, <2>15, <2>16, <3>1 DEF Between
  <2> QED BY <2>17, <2>18
<1> QED BY <1>1, InTime, PTL

===============================================================================
