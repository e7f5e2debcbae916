---------------------------- MODULE PipelineProofs ----------------------------
(***************************************************************************)
(* Theorems about Pipeline, for every number of processes, requests, contexts   *)
(* and records: a notification tells the truth about the record, the tag of a     *)
(* record names the cluster it was read from, the similar incidents shown are of  *)
(* that cluster and the best there are, what is investigated is what the request   *)
(* means, and every variable keeps its type.  Of HypothesisProofs it takes the     *)
(* lemmas about strict orders.                                                *)
(***************************************************************************)
EXTENDS Pipeline, HypothesisProofs, TLAPS

Places == Final \cup {"start", "scoped", "connected", "ready", "built", "open",
                      "saved", "notified", "listing", "comparing"}
Early == {"start", "scoped", "connected", "ready", "refused", "failed"}
Late == {"saved", "notified", "listing", "comparing", "done", "killed"}

\* What keeps its shape: functions of the processes.
Shape ==
  /\ at \in [Processes -> Places]
  /\ id \in [Processes -> NewIds \cup {0}]
  /\ saved \in [Processes -> BOOLEAN]
  /\ DOMAIN scope = Processes /\ DOMAIN tag = Processes /\ DOMAIN observed = Processes

\* Where a process is tells whether it has an ID and whether Save may have returned.
Progress ==
  \A p \in Processes :
    /\ at[p] \in Early => id[p] = 0 /\ ~ saved[p]
    /\ at[p] \notin Late => ~ saved[p]
    /\ at[p] \in {"built", "open"} => id[p] # 0

\* A record whose Save returned is there, and, if its file is of one process, it is whole
\* and never touched again.
KeptBy(p) ==
  /\ id[p] \in DOMAIN records /\ id[p] # 0
  /\ ~ Shared(id[p]) => records[id[p]] = Record(p, "whole", observed[p])
Kept == \A p \in Processes : saved[p] => KeptBy(p)

\* A notification that names a record is of a process whose Save returned.
Told ==
  \A n \in delivered : n.record # 0 =>
    \E p \in Processes : saved[p] /\ n = Notification(p)

IInv == Shape /\ Progress /\ Kept /\ Told

still == <<id, saved, scope, tag, observed, records, delivered>>

-------------------------------------------------------------------------------

\* At the start nothing has an ID and nobody was told anything.
LEMMA InitIInv == Init => IInv
BY IdsAssumption DEF Init, IInv, Shape, Progress, Kept, Told, Places, Final, Early, Late

\* A step of a process that only moves it on keeps the invariant, if the process does not
\* come back from a later place.
LEMMA MoveOn ==
  ASSUME IInv, NEW p \in Processes, NEW place \in Places,
         Go(p, place), UNCHANGED still,
         place \in Early => at[p] \in Early,
         place \notin Late => at[p] \notin Late,
         place \in {"built", "open"} => at[p] \in {"built", "open"}
  PROVE  IInv'
<1>1. Shape'
  BY DEF IInv, Shape, Go, still
<1>2. Progress'
  BY DEF IInv, Shape, Progress, Go, still
<1>3. Kept' /\ Told'
  BY DEF IInv, Kept, KeptBy, Shared, Told, still, Record, Notification
<1>4. QED  BY <1>1, <1>2, <1>3 DEF IInv

\* Whatever else changes, the invariant is about still and at.
LEMMA StandStill == ASSUME IInv, UNCHANGED <<at, still>> PROVE IInv'
BY DEF IInv, Shape, Progress, Kept, KeptBy, Shared, Told, still, Record, Notification

\* A write to the file of a process that has not returned from Save touches no saved record.
LEMMA WriteKeeps ==
  ASSUME IInv, NEW p \in Processes, id[p] # 0, ~ saved[p], NEW record, Put(p, record),
         UNCHANGED <<id, saved, scope, tag, observed>>
  PROVE  Kept'
<1> SUFFICES ASSUME NEW q \in Processes, saved[q] PROVE KeptBy(q)'
  BY DEF Kept
<1>1. KeptBy(q) /\ q # p
  BY DEF IInv, Kept
<1>2. Shared(id[q])' = Shared(id[q]) /\ Record(q, "whole", observed[q])' = Record(q, "whole", observed[q])
  BY DEF Shared, Record
<1>3. CASE id[q] = id[p]
  BY <1>1, <1>2, <1>3 DEF Shared, KeptBy, Put
<1>4. CASE id[q] # id[p]
  BY <1>1, <1>2, <1>4 DEF KeptBy, Put
<1>5. QED  BY <1>3, <1>4

\* What was told stays true as long as the processes that saved keep what they told of.
LEMMA ToldStays ==
  ASSUME IInv, delivered' = delivered,
         \A q \in Processes : saved[q] => Notification(q)' = Notification(q) /\ saved'[q]
  PROVE  Told'
BY DEF IInv, Told

LEMMA NextIInv == IInv /\ [Next]_vars => IInv'
<1> SUFFICES ASSUME IInv, [Next]_vars PROVE IInv'
  OBVIOUS
<1>1. CASE SwitchContext
  BY <1>1, StandStill DEF SwitchContext, request, still
<1>2. CASE RemoveRecord
  <2> PICK i \in Removable \cap DOMAIN records :
        records' = [j \in DOMAIN records \ {i} |-> records[j]]
    BY <1>2 DEF RemoveRecord
  <2> UNCHANGED <<delivered, at, id, saved, scope, tag, observed>>
    BY <1>2 DEF RemoveRecord, request
  <2>1. ASSUME NEW q \in Processes, saved[q] PROVE id[q] # i
    <3>1. id[q] \in NewIds
      BY <2>1 DEF IInv, Shape, Kept, KeptBy
    <3>2. i \in DOMAIN Past
      BY IdsAssumption
    <3>3. QED  BY <3>1, <3>2, IdsAssumption
  <2>2. Kept'
    BY <2>1 DEF IInv, Kept, KeptBy, Shared, Record
  <2>3. QED  BY <2>2 DEF IInv, Shape, Progress, Told, Notification
<1>3. ASSUME NEW p \in Processes, Killed(p) PROVE IInv'
  <2>1. at[p] \notin Final \cup {"start"} /\ Go(p, "killed") /\ UNCHANGED still
    BY <1>3 DEF Killed, request, still
  <2>2. QED  BY <2>1, MoveOn DEF Places, Final, Early, Late
<1>4. ASSUME NEW p \in Processes, Step(p) PROVE IInv'
  <2>1. CASE Invoke(p)
    <3>1. at[p] = "start" /\ UNCHANGED still
          /\ (Go(p, "refused") \/ Go(p, "scoped"))
      BY <2>1 DEF Invoke, request, still, Go
    <3>2. QED  BY <3>1, MoveOn DEF Places, Final, Early, Late
  <2>2. CASE Connect(p)
    <3> at[p] = "scoped" /\ Go(p, "connected")
        /\ UNCHANGED <<records, delivered, scope, observed, id, saved>>
      BY <2>2 DEF Connect
    <3>1. PICK t : tag' = [tag EXCEPT ![p] = t]
      BY <2>2 DEF Connect
    <3>2. ~ saved[p] /\ id[p] = 0
      BY DEF IInv, Progress, Early
    <3>3. Shape' /\ Progress'
      BY <3>1, <3>2 DEF IInv, Shape, Progress, Go, Places, Early, Late
    <3>4. \A q \in Processes : saved[q] => tag'[q] = tag[q]
      BY <3>1, <3>2 DEF IInv, Shape
    <3>5. QED  BY <3>3, <3>4, ToldStays DEF IInv, Kept, KeptBy, Shared, Record, Notification
  <2>3. CASE ConnectFails(p)
    <3>1. at[p] = "scoped" /\ UNCHANGED still /\ Go(p, "failed")
      BY <2>3 DEF ConnectFails, request, still
    <3>2. QED  BY <3>1, MoveOn DEF Places, Final, Early, Late
  <2>4. CASE CompleteTarget(p)
    <3> at[p] = "connected" /\ Go(p, "ready")
        /\ UNCHANGED <<records, delivered, tag, observed, id, saved>>
      BY <2>4 DEF CompleteTarget
    <3>1. DOMAIN scope' = Processes /\ \A q \in Processes \ {p} : scope'[q] = scope[q]
      BY <2>4 DEF CompleteTarget, IInv, Shape
    <3>2. ~ saved[p] /\ id[p] = 0
      BY DEF IInv, Progress, Early
    <3>3. Shape' /\ Progress'
      BY <3>1, <3>2 DEF IInv, Shape, Progress, Go, Places, Early, Late
    <3>4. \A q \in Processes : saved[q] => scope'[q] = scope[q]
      BY <3>1, <3>2
    <3>5. QED  BY <3>3, <3>4, ToldStays DEF IInv, Kept, KeptBy, Shared, Record, Notification
  <2>5. CASE Investigate(p)
    <3> at[p] = "ready" /\ Go(p, "built")
        /\ UNCHANGED <<records, delivered, scope, tag, saved>>
      BY <2>5 DEF Investigate, request
    <3>1. PICK ks : observed' = [observed EXCEPT ![p] = ks]
      BY <2>5 DEF Investigate
    <3>2. PICK i \in NewIds : id' = [id EXCEPT ![p] = i]
      BY <2>5 DEF Investigate
    <3>3. ~ saved[p] /\ i # 0
      BY IdsAssumption DEF IInv, Progress, Early
    <3>4. Shape'
      BY <3>1, <3>2 DEF IInv, Shape, Go, Places
    <3>5. Progress'
      BY <3>2, <3>3 DEF IInv, Shape, Progress, Go, Early, Late
    <3>6. \A q \in Processes : saved[q] => q # p /\ id'[q] = id[q] /\ observed'[q] = observed[q]
      BY <3>1, <3>2, <3>3 DEF IInv, Shape
    <3>7. ASSUME NEW q \in Processes, saved'[q] PROVE KeptBy(q)'
      <4>1. saved[q] /\ q # p /\ KeptBy(q) /\ id'[q] = id[q] /\ observed'[q] = observed[q]
        BY <3>6, <3>7 DEF IInv, Kept
      <4>2. Shared(id[q]) => Shared(id[q])'
        <5> SUFFICES ASSUME NEW a \in Processes, NEW b \in Processes, a # b, id[a] = id[q], id[b] = id[q]
                     PROVE  Shared(id[q])'
          BY DEF Shared
        <5>1. id[p] = 0 /\ id[q] # 0
          BY <4>1 DEF IInv, Progress, Early, KeptBy
        <5>2. id'[a] = id'[q] /\ id'[b] = id'[q]
          BY <5>1, <3>2, <4>1 DEF IInv, Shape
        <5>3. QED  BY <5>2 DEF Shared
      <4>3. QED  BY <4>1, <4>2 DEF KeptBy, Record
    <3>71. Kept'
      BY <3>7 DEF Kept
    <3>8. QED  BY <3>4, <3>5, <3>6, <3>71, ToldStays DEF IInv, Notification
  <2>6. CASE CreateRecord(p)
    <3> at[p] = "built" /\ Go(p, "open") /\ Put(p, Record(p, "none", {}))
        /\ UNCHANGED <<delivered, scope, tag, observed, id, saved>>
      BY <2>6 DEF CreateRecord, request
    <3>1. ~ saved[p] /\ id[p] # 0
      BY DEF IInv, Progress, Late
    <3>2. Shape' /\ Progress'
      BY <3>1 DEF IInv, Shape, Progress, Go, Places, Early, Late
    <3>3. Kept'
      BY <3>1, WriteKeeps
    <3>4. QED  BY <3>2, <3>3 DEF IInv, Told, Notification
  <2>7. CASE WriteSome(p)
    <3> at[p] = "open" /\ UNCHANGED <<at, delivered, scope, tag, observed, id, saved>>
      BY <2>7 DEF WriteSome, request
    <3>1. PICK record : Put(p, record)
      BY <2>7 DEF WriteSome
    <3>2. ~ saved[p] /\ id[p] # 0
      BY DEF IInv, Progress, Late
    <3>3. Kept'
      BY <3>1, <3>2, WriteKeeps
    <3>4. QED  BY <3>3 DEF IInv, Shape, Progress, Told, Notification
  <2>8. CASE WriteRest(p)
    <3> at[p] = "open" /\ Go(p, "saved")
        /\ saved' = [saved EXCEPT ![p] = TRUE]
        /\ UNCHANGED <<delivered, scope, tag, observed, id>>
      BY <2>8 DEF WriteRest, request
    <3> PICK record \in Written(p, Record(p, "whole", observed[p])) : Put(p, record)
      BY <2>8 DEF WriteRest
    <3>1. ~ saved[p] /\ id[p] # 0
      BY DEF IInv, Progress, Late
    <3>2. Shape' /\ Progress'
      BY <3>1 DEF IInv, Shape, Progress, Go, Places, Early, Late
    <3>3. ASSUME NEW q \in Processes, saved'[q] PROVE KeptBy(q)'
      <4> Shared(id[q])' = Shared(id[q])
          /\ Record(q, "whole", observed[q])' = Record(q, "whole", observed[q])
        BY DEF Shared, Record
      <4>1. CASE q = p
        BY <4>1, <3>1 DEF Put, KeptBy, Written
      <4>2. CASE q # p
        <5>1. saved[q]
          BY <3>3, <4>2 DEF IInv, Shape
        <5>2. KeptBy(q)
          BY <5>1 DEF IInv, Kept
        <5>3. id[q] # id[p] \/ Shared(id[q])
          BY <4>2 DEF Shared
        <5>4. QED  BY <5>2, <5>3 DEF Put, KeptBy
      <4>3. QED  BY <4>1, <4>2
    <3>4. Kept'
      BY <3>3 DEF Kept
    <3>5. \A q \in Processes : saved[q] => q # p /\ saved'[q]
      BY <3>1 DEF IInv, Shape
    <3>6. QED  BY <3>2, <3>4, <3>5, ToldStays DEF IInv, Notification
  <2>9. CASE SaveFails(p)
    <3>1. at[p] \in {"built", "open"} /\ UNCHANGED still /\ Go(p, "saved")
      BY <2>9 DEF SaveFails, request, still
    <3>2. QED  BY <3>1, MoveOn DEF Places, Final, Early, Late
  <2>10. CASE NoWebhook(p) \/ NotifyFails(p) \/ NoRecordToCompare(p) \/ OwnUnreadable(p)
    <3>1. at[p] \in {"saved", "notified"} /\ UNCHANGED still
          /\ (Go(p, "notified") \/ Go(p, "done"))
      BY <2>10 DEF NoWebhook, NotifyFails, NoRecordToCompare, OwnUnreadable, request, still
    <3>2. QED  BY <3>1, MoveOn DEF Places, Final, Early, Late
  <2>11. CASE NotifyArrives(p)
    <3> at[p] = "saved" /\ Go(p, "notified") /\ delivered' = delivered \cup {Notification(p)}
        /\ UNCHANGED <<records, scope, tag, observed, id, saved>>
      BY <2>11 DEF NotifyArrives, request
    <3>1. Shape' /\ Progress'
      BY DEF IInv, Shape, Progress, Go, Places, Early, Late
    <3>2. Kept'
      BY DEF IInv, Kept, KeptBy, Shared, Record
    <3>3. \A q \in Processes : Notification(q)' = Notification(q)
      BY DEF Notification
    <3>4. Notification(p).record # 0 => saved[p]
      BY DEF Notification
    <3>5. Told'
      BY <3>3, <3>4 DEF IInv, Told
    <3>6. QED  BY <3>1, <3>2, <3>5 DEF IInv
  <2>12. CASE LoadOwn(p) \/ ListRecords(p) \/ ShowSimilar(p)
    <3>1. at[p] \in {"notified", "listing", "comparing"} /\ UNCHANGED still
          /\ (Go(p, "listing") \/ Go(p, "comparing") \/ Go(p, "done"))
      BY <2>12 DEF LoadOwn, ListRecords, ShowSimilar, request, still
    <3>2. QED  BY <3>1, MoveOn DEF Places, Final, Early, Late
  <2>13. CASE Compare(p)
    BY <2>13, StandStill DEF Compare, request, still
  <2>14. QED
    BY <1>4, <2>1, <2>2, <2>3, <2>4, <2>5, <2>6, <2>7, <2>8, <2>9, <2>10, <2>11, <2>12, <2>13
       DEF Step
<1>5. CASE UNCHANGED vars
  BY <1>5, StandStill DEF vars, request, still
<1>6. QED  BY <1>1, <1>2, <1>3, <1>4, <1>5 DEF Next

\* A notification that names a record names a complete one, of the target and the cluster
\* it tells (root.go:368-403), unless another command was given the same file: Save fails,
\* processes are killed and records are removed, and still no receiver is sent to a record
\* that is not there.
THEOREM NotificationsAreTrue == Spec => []NotifiedOfSaved
<1>1. IInv => NotifiedOfSaved
  <2> SUFFICES ASSUME IInv, NEW n \in delivered, n.record # 0, ~ Shared(n.record)
               PROVE  /\ n.record \in DOMAIN records
                      /\ records[n.record].lines = "whole"
                      /\ records[n.record].target = n.target
                      /\ records[n.record].tag = n.tag
    BY DEF NotifiedOfSaved
  <2>1. PICK p \in Processes : saved[p] /\ n = Notification(p)
    BY DEF IInv, Told
  <2>2. n.record = id[p] /\ n.target = scope[p].target /\ n.tag = tag[p]
    BY <2>1 DEF Notification
  <2>3. id[p] \in DOMAIN records /\ records[id[p]] = Record(p, "whole", observed[p])
    BY <2>1, <2>2 DEF IInv, Kept, KeptBy
  <2>4. QED  BY <2>2, <2>3 DEF Record
<1>2. QED  BY InitIInv, NextIInv, <1>1, PTL DEF Spec

-------------------------------------------------------------------------------
(* The tag. *)

\* What FirstNot returns: the first value, if it is one, else the second.
LEMMA FirstOfTwo == \A none, a, b : a # none => FirstNot(none, <<a, b>>) = a
<1> SUFFICES ASSUME NEW none, NEW a, NEW b, a # none PROVE FirstNot(none, <<a, b>>) = a
  OBVIOUS
<1> DEFINE given == {i \in 1..Len(<<a, b>>) : <<a, b>>[i] # none}
<1>1. 1 \in given /\ \A i \in given : 1 <= i
  OBVIOUS
<1>2. (CHOOSE i \in given : \A j \in given : i <= j) = 1
  BY <1>1
<1>3. QED  BY <1>1, <1>2 DEF FirstNot

LEMMA FirstOfThree == \A none, a, b, c : a # none => FirstNot(none, <<a, b, c>>) = a
<1> SUFFICES ASSUME NEW none, NEW a, NEW b, NEW c, a # none
             PROVE  FirstNot(none, <<a, b, c>>) = a
  OBVIOUS
<1> DEFINE given == {i \in 1..Len(<<a, b, c>>) : <<a, b, c>>[i] # none}
<1>1. 1 \in given /\ \A i \in given : 1 <= i
  OBVIOUS
<1>2. (CHOOSE i \in given : \A j \in given : i <= j) = 1
  BY <1>1
<1>3. QED  BY <1>1, <1>2 DEF FirstNot

LEMMA SecondOfTwo == \A none, b : FirstNot(none, <<none, b>>) = b
<1> SUFFICES ASSUME NEW none, NEW b PROVE FirstNot(none, <<none, b>>) = b
  OBVIOUS
<1> DEFINE given == {i \in 1..Len(<<none, b>>) : <<none, b>>[i] # none}
<1>1. CASE b # none
  <2>1. given = {2}
    BY <1>1
  <2>2. (CHOOSE i \in given : \A j \in given : i <= j) = 2
    BY <2>1
  <2>3. QED  BY <2>1, <2>2 DEF FirstNot
<1>2. CASE b = none
  <2>1. given = {}
    BY <1>2
  <2>2. QED  BY <1>2, <2>1 DEF FirstNot
<1>3. QED  BY <1>1, <1>2

\* The tag a process gets when it connects by the flag, or without any choice.
TagRight(p) ==
  cluster[p] # NoCluster /\ (asked[p].context # "" \/ Chosen(asked[p]) = "") =>
    tag[p] \in TagsOf(cluster[p], asked[p].file)

TInv ==
  /\ DOMAIN tag = Processes /\ DOMAIN cluster = Processes
  /\ \A p \in Processes :
       asked[p] \in Requests(p) /\ settings[p] = Effective(asked[p]) /\ TagRight(p)

LEMMA ConnectTags ==
  ASSUME TInv, NEW p \in Processes, Connect(p),
         asked[p].context # "" \/ Chosen(asked[p]) = ""
  PROVE  tag'[p] \in TagsOf(cluster'[p], asked[p].file)
<1> DEFINE r == asked[p]
<1> DEFINE c == contextOf(p)
<1>1. cluster'[p] = Cluster(c) /\ c \in Contexts
      /\ tag'[p] = FirstNot("", <<Effective(r).clusterId, ClusterID(Cluster(c))>>)
  BY DEF TInv, Connect
<1>2. tag'[p] = IF Effective(r).clusterId # "" THEN Effective(r).clusterId
                ELSE ClusterID(Cluster(c))
  <2> DEFINE configured == Effective(r).clusterId
             derived == ClusterID(Cluster(c))
  <2>1. tag'[p] = FirstNot("", <<configured, derived>>)
    BY <1>1
  <2> HIDE DEF configured, derived
  <2>2. tag'[p] = IF configured # "" THEN configured ELSE derived
    <3>1. ASSUME configured # "" PROVE FirstNot("", <<configured, derived>>) = configured
      BY ONLY FirstOfTwo, <3>1
    <3>2. FirstNot("", <<"", derived>>) = derived
      BY ONLY SecondOfTwo
    <3>3. QED  BY ONLY <2>1, <3>1, <3>2
  <2>3. QED  BY <2>2 DEF configured, derived
<1>3. "" \notin DOMAIN r.file.clusters
  BY FilesAssumption DEF TInv
<1>4. CASE Effective(r).clusterId = ""
  BY <1>1, <1>2, <1>4 DEF TagsOf
<1>5. CASE Effective(r).clusterId # "" /\ Chosen(r) \notin DOMAIN r.file.clusters
  <2>1. Effective(r).clusterId = r.file.top.clusterId
    BY <1>5 DEF Effective, ForContext
  <2>2. QED  BY <1>1, <1>2, <1>5, <2>1 DEF TagsOf
<1>6. CASE Effective(r).clusterId # "" /\ Chosen(r) \in DOMAIN r.file.clusters
  <2>1. Chosen(r) \in DOMAIN r.file.clusters
    BY <1>6
  <2>2. r.context # "" /\ Chosen(r) = r.context /\ c = r.context
    <3>1. r.context # ""
      BY <2>1, <1>3
    <3> DEFINE flag == r.context
               env == r.env
               chosen == r.file.top.context
    <3>2. Chosen(r) = FirstNot("", <<flag, env, chosen>>) /\ c = FirstNot("", <<flag, current>>)
      BY DEF Chosen, contextOf
    <3>3. flag # ""
      BY <3>1
    <3> HIDE DEF flag, env, chosen
    <3>4. FirstNot("", <<flag, env, chosen>>) = flag
      <4>1. \A a, b, d : a # "" => FirstNot("", <<a, b, d>>) = a
        BY ONLY FirstOfThree
      <4>2. QED  BY ONLY <4>1, <3>3, Zenon
    <3>5. FirstNot("", <<flag, current>>) = flag
      BY ONLY <3>3, FirstOfTwo
    <3>6. QED  BY <3>1, <3>2, <3>4, <3>5 DEF flag
  <2>3. Effective(r).clusterId = FirstNot("", <<r.file.clusters[c].clusterId, r.file.top.clusterId>>)
    BY <2>1, <2>2 DEF Effective, ForContext, merge
  <2>4. Effective(r).clusterId \in {r.file.clusters[c].clusterId, r.file.top.clusterId}
    <3> DEFINE configured == Effective(r).clusterId
               ofProfile == r.file.clusters[c].clusterId
               ofTop == r.file.top.clusterId
    <3>1. configured = FirstNot("", <<ofProfile, ofTop>>)
      BY <2>3
    <3> HIDE DEF configured, ofProfile, ofTop
    <3>2. ASSUME ofProfile # "" PROVE FirstNot("", <<ofProfile, ofTop>>) = ofProfile
      BY ONLY FirstOfTwo, <3>2
    <3>3. FirstNot("", <<"", ofTop>>) = ofTop
      BY ONLY SecondOfTwo
    <3>4. configured \in {ofProfile, ofTop}
      BY ONLY <3>1, <3>2, <3>3
    <3>5. QED  BY <3>4 DEF configured, ofProfile, ofTop
  <2>5. QED  BY <1>1, <1>2, <1>6, <2>1, <2>2, <2>4 DEF TagsOf
<1>7. QED  BY <1>4, <1>5, <1>6

\* Steps that leave the choice, the client and the tag alone.
LEMMA TagStays == ASSUME TInv, UNCHANGED <<asked, settings, cluster, tag>> PROVE TInv'
BY DEF TInv, TagRight

LEMMA InitTInv == Init => TInv
<1> SUFFICES ASSUME Init PROVE TInv
  OBVIOUS
<1>1. \A p \in Processes : asked[p] \in Requests(p) /\ settings[p] = Effective(asked[p])
  BY DEF Init
<1>2. DOMAIN tag = Processes /\ DOMAIN cluster = Processes
      /\ \A p \in Processes : cluster[p] = NoCluster
  BY DEF Init
<1>3. QED  BY <1>1, <1>2 DEF TInv, TagRight

LEMMA NextTInv == TInv /\ [Next]_vars => TInv'
<1> SUFFICES ASSUME TInv, [Next]_vars PROVE TInv'
  OBVIOUS
<1>1. ASSUME NEW p \in Processes, Connect(p) PROVE TInv'
  <2>1. UNCHANGED <<asked, settings>> /\ DOMAIN tag' = Processes /\ DOMAIN cluster' = Processes
        /\ \A q \in Processes \ {p} : cluster'[q] = cluster[q] /\ tag'[q] = tag[q]
    BY <1>1 DEF Connect, TInv
  <2>2. TagRight(p)'
    BY <1>1, <2>1, ConnectTags DEF TagRight, Chosen
  <2>3. QED  BY <2>1, <2>2 DEF TInv, TagRight
<1>2. ASSUME NEW p \in Processes, Step(p), ~ Connect(p)
      PROVE  UNCHANGED <<asked, settings, cluster, tag>>
  BY <1>2 DEF Step, Invoke, ConnectFails, CompleteTarget, Investigate, CreateRecord, WriteSome,
          WriteRest, SaveFails, NoWebhook, NotifyArrives, NotifyFails, NoRecordToCompare,
          OwnUnreadable, LoadOwn, ListRecords, Compare, ShowSimilar, request
<1>3. ASSUME NEW p \in Processes, Killed(p) PROVE UNCHANGED <<asked, settings, cluster, tag>>
  BY <1>3 DEF Killed, request
<1>4. ASSUME SwitchContext \/ RemoveRecord \/ UNCHANGED vars
      PROVE  UNCHANGED <<asked, settings, cluster, tag>>
  BY <1>4 DEF SwitchContext, RemoveRecord, vars, request
<1>5. QED  BY <1>1, <1>2, <1>3, <1>4, TagStays DEF Next

\* A record is tagged with the cluster it was read from (root.go:190-219), or with the tag
\* that the settings give to every context without its own, for any settings, any contexts
\* and any switching of the current one, if the flag names the context or nothing does.
THEOREM TagsAreTrue == Spec => []TagNamesTheCluster
<1>1. TInv => TagNamesTheCluster
  BY DEF TInv, TagRight, TagNamesTheCluster
<1> QED BY InitTInv, NextTInv, <1>1, PTL DEF Spec

-------------------------------------------------------------------------------
(* The similar incidents. *)

\* Products keep an order, and a positive factor can be cancelled.
LEMMA TimesKeeps ==
  ASSUME NEW a \in Nat, NEW b \in Nat, NEW z \in Nat
  PROVE  /\ a >= b => a * z >= b * z
         /\ a > b /\ z > 0 => a * z > b * z
<1>1. a * z - b * z = (a - b) * z
  OBVIOUS
<1>2. ASSUME NEW x \in Nat PROVE x * z \in Nat /\ (x > 0 /\ z > 0 => x * z > 0)
  BY <1>2
<1>3. ASSUME a >= b PROVE a * z >= b * z
  <2>1. (a - b) * z \in Nat
    BY <1>2, <1>3
  <2> QED BY <1>1, <2>1
<1>4. ASSUME a > b, z > 0 PROVE a * z > b * z
  <2>1. (a - b) * z \in Nat /\ (a - b) * z > 0
    BY <1>2, <1>4
  <2> QED BY <1>1, <2>1
<1> QED BY <1>3, <1>4

Fractions == Nat \X (Nat \ {0})

\* Fractions are ordered by their value.
LEMMA MoreIsOrder ==
  /\ \A x, y \in Fractions : More(x, y) => ~ More(y, x)
  /\ \A x, y, z \in Fractions :
       /\ ~ More(y, x) /\ ~ More(z, y) => ~ More(z, x)
       /\ More(x, y) /\ ~ More(z, y) => More(x, z)
       /\ ~ More(y, x) /\ More(y, z) => More(x, z)
<1>1. ASSUME NEW x \in Fractions, NEW y \in Fractions, More(x, y) PROVE ~ More(y, x)
  <2>1. x[1] * y[2] \in Nat /\ y[1] * x[2] \in Nat
    BY DEF Fractions
  <2> QED BY <1>1, <2>1 DEF More
<1>2. ASSUME NEW a \in Nat, NEW b \in Nat \ {0}, NEW c \in Nat, NEW d \in Nat \ {0},
             NEW e \in Nat, NEW f \in Nat \ {0},
             a * d >= c * b, c * f >= e * d
      PROVE  /\ a * f >= e * b
             /\ a * d > c * b \/ c * f > e * d => a * f > e * b
  <2> DEFINE ad == a * d
             cb == c * b
             cf == c * f
             ed == e * d
             af == a * f
             eb == e * b
  <2>1. ad \in Nat /\ cb \in Nat /\ cf \in Nat /\ ed \in Nat /\ af \in Nat /\ eb \in Nat
    OBVIOUS
  <2>2. cb * f = cf * b /\ ad * f = af * d /\ ed * b = eb * d
    OBVIOUS
  <2>3. ad >= cb /\ cf >= ed
    BY <1>2
  <2> HIDE DEF ad, cb, cf, ed, af, eb
  <2>4. ad * f >= cb * f /\ cf * b >= ed * b
        /\ (ad > cb => ad * f > cb * f) /\ (cf > ed => cf * b > ed * b)
    BY <2>1, <2>3, TimesKeeps
  <2>5. /\ ad * f \in Nat /\ cb * f \in Nat /\ cf * b \in Nat /\ ed * b \in Nat
        /\ af * d \in Nat /\ eb * d \in Nat
    BY <2>1
  <2>6. af * d >= eb * d /\ (ad > cb \/ cf > ed => af * d > eb * d)
    BY <2>2, <2>4, <2>5
  <2>7. (eb > af => eb * d > af * d) /\ (eb >= af => eb * d >= af * d)
    BY <2>1, TimesKeeps
  <2>8. af >= eb /\ (ad > cb \/ cf > ed => af > eb)
    BY <2>1, <2>5, <2>6, <2>7
  <2> QED BY <2>8 DEF ad, cb, cf, ed, af, eb
<1>3. ASSUME NEW x \in Fractions, NEW y \in Fractions, NEW z \in Fractions,
             ~ More(y, x), ~ More(z, y)
      PROVE  ~ More(z, x) /\ (More(x, y) \/ More(y, z) => More(x, z))
  <2> DEFINE a == x[1]
             b == x[2]
             c == y[1]
             d == y[2]
             e == z[1]
             f == z[2]
  <2>1. /\ a \in Nat /\ b \in Nat \ {0} /\ c \in Nat /\ d \in Nat \ {0}
        /\ e \in Nat /\ f \in Nat \ {0}
    BY DEF Fractions
  <2>2. /\ More(x, y) <=> a * d > c * b
        /\ More(y, x) <=> c * b > a * d
        /\ More(y, z) <=> c * f > e * d
        /\ More(z, y) <=> e * d > c * f
        /\ More(x, z) <=> a * f > e * b
        /\ More(z, x) <=> e * b > a * f
    BY DEF More
  <2> HIDE DEF a, b, c, d, e, f
  <2>3. /\ a * d \in Nat /\ c * b \in Nat /\ c * f \in Nat /\ e * d \in Nat
        /\ a * f \in Nat /\ e * b \in Nat
    BY <2>1
  <2>4. a * d >= c * b /\ c * f >= e * d
    BY <1>3, <2>2, <2>3
  <2>5. a * f >= e * b /\ (a * d > c * b \/ c * f > e * d => a * f > e * b)
    BY <1>2, <2>1, <2>4
  <2> QED BY <2>2, <2>3, <2>5
<1> QED BY <1>1, <1>3

Entries == [id : Nat, kinds : SUBSET Kinds]

\* The overlap of a match with the incident, which shares a kind with it.
LEMMA JaccardType ==
  ASSUME NEW a \in SUBSET Kinds, NEW b \in SUBSET Kinds, a \cap b # {}
  PROVE  jaccard(a, b) \in Fractions
<1>1. IsFiniteSet(a) /\ IsFiniteSet(b)
  BY PastAssumption, FS_Subset
<1>2. IsFiniteSet(a \cap b) /\ IsFiniteSet(a \cup b)
  BY <1>1, FS_Intersection, FS_Union
<1>3. a \cup b # {}
  OBVIOUS
<1>4. Cardinality(a \cap b) \in Nat /\ Cardinality(a \cup b) \in Nat \ {0}
  BY <1>2, <1>3, FS_CardinalityType, FS_EmptySet
<1> QED BY <1>4 DEF jaccard, Fractions

\* The pairs of places of a list whose first is the closer match.
Nearness(p, list) ==
  {jk \in (1..Len(list)) \X (1..Len(list)) : Closer(p, list[jk[1]], list[jk[2]])}

\* A list of matches that the incident shares a kind with, each with an ID of its own.
MatchList(p, list) ==
  /\ own[p] \in SUBSET Kinds
  /\ list \in Seq(Entries)
  /\ \A j \in 1..Len(list) : own[p] \cap list[j].kinds # {}
  /\ \A j, k \in 1..Len(list) : list[j].id = list[k].id => j = k

\* The place of each match when the closest come first.
Standing(p, list) == Place(1..Len(list), Nearness(p, list))

LEMMA NearnessIsOrder ==
  ASSUME NEW p, NEW list, MatchList(p, list)
  PROVE  StrictOrder(1..Len(list), Nearness(p, list))
<1> DEFINE P == 1..Len(list)
           f(j) == jaccard(own[p], list[j].kinds)
           closer(j, k) == More(f(j), f(k)) \/ (~ More(f(k), f(j)) /\ list[j].id > list[k].id)
<1>1. \A j, k \in P : <<j, k>> \in Nearness(p, list) <=> closer(j, k)
  BY DEF Nearness, Closer
<1>2. \A j \in P : f(j) \in Fractions /\ list[j].id \in Nat
  <2>1. ASSUME NEW j \in P PROVE list[j] \in Entries /\ own[p] \cap list[j].kinds # {}
    BY DEF MatchList
  <2>2. ASSUME NEW j \in P PROVE list[j].kinds \in SUBSET Kinds /\ list[j].id \in Nat
    BY <2>1 DEF Entries
  <2> QED BY <2>1, <2>2, JaccardType DEF MatchList
<1>3. \A j, k \in P : list[j].id = list[k].id => j = k
  BY DEF MatchList
<1> HIDE DEF P, f
<1>4. \A j \in P : ~ closer(j, j)
  BY <1>2, MoreIsOrder
<1>5. \A j, k \in P : j # k => closer(j, k) \/ closer(k, j)
  BY <1>2, <1>3, MoreIsOrder
<1>6. ASSUME NEW j \in P, NEW k \in P, NEW l \in P, closer(j, k), closer(k, l)
      PROVE  closer(j, l)
  <2>1. ~ More(f(k), f(j)) /\ ~ More(f(l), f(k))
    BY <1>2, <1>6, MoreIsOrder
  <2>2. ~ More(f(l), f(j))
    BY <1>2, <2>1, MoreIsOrder
  <2>3. CASE More(f(j), f(k)) \/ More(f(k), f(l))
    BY <1>2, <2>1, <2>3, MoreIsOrder
  <2>4. CASE ~ More(f(j), f(k)) /\ ~ More(f(k), f(l))
    <3>1. list[j].id > list[k].id /\ list[k].id > list[l].id
      BY <1>6, <2>4
    <3>2. list[j].id > list[l].id
      BY <1>2, <3>1
    <3> QED BY <2>2, <3>2
  <2> QED BY <2>3, <2>4
<1> HIDE DEF closer
<1> QED BY <1>1, <1>4, <1>5, <1>6 DEF StrictOrder, P

\* The list in order is the list rearranged: the n-th is the one whose place is n.
LEMMA InOrderPlaces ==
  ASSUME NEW p, NEW list, MatchList(p, list), NEW P, P = 1..Len(list)
  PROVE  /\ InOrder(p, list) \in Seq(Entries) /\ Len(InOrder(p, list)) = Len(list)
         /\ Standing(p, list) \in [P -> P]
         /\ \A n \in P : \E k \in P :
              Standing(p, list)[k] = n /\ InOrder(p, list)[n] = list[k]
         /\ \A k \in P : InOrder(p, list)[Standing(p, list)[k]] = list[k]
         /\ \A j, k \in P :
              Standing(p, list)[j] < Standing(p, list)[k] => Closer(p, list[j], list[k])
<1> DEFINE R == Nearness(p, list)
           place == Standing(p, list)
           the(n) == CHOOSE k \in P : Cardinality({j \in P : Closer(p, list[j], list[k])}) = n - 1
<1>1. list \in Seq(Entries) /\ Len(list) \in Nat
  BY DEF MatchList
<1>2. IsFiniteSet(P) /\ Cardinality(P) = Len(list) /\ place = Place(P, R)
  BY <1>1, FS_Interval DEF Standing
<1>3. StrictOrder(P, R)
  BY NearnessIsOrder
<1>4. \A j, k \in P : <<j, k>> \in R <=> Closer(p, list[j], list[k])
  BY DEF Nearness
<1>5. \A k \in P : Cardinality({j \in P : Closer(p, list[j], list[k])}) + 1 = place[k]
  <2>1. ASSUME NEW k \in P
        PROVE  {j \in P : Closer(p, list[j], list[k])} = {j \in P : <<j, k>> \in R}
    BY <1>4
  <2>2. place = Place(P, R)
    BY <1>2
  <2> HIDE DEF R, place
  <2> QED BY <2>1, <2>2 DEF Place
<1>6. InOrder(p, list) = [n \in P |-> list[the(n)]]
  BY DEF InOrder
<1>7. \A k \in P : Cardinality({j \in P : Closer(p, list[j], list[k])}) \in Nat
  <2>1. ASSUME NEW k \in P PROVE {j \in P : Closer(p, list[j], list[k])} \in SUBSET P
    OBVIOUS
  <2> QED BY <1>2, <2>1, FS_Subset, FS_CardinalityType
<1> HIDE DEF R
<1> HIDE DEF place
<1>8. place \in Bijection(P, P) /\ \A j, k \in P : <<j, k>> \in R => place[j] < place[k]
  <2>1. P = 1..Cardinality(P)
    BY <1>1, <1>2
  <2> QED BY <1>2, <1>3, <2>1, OrderNumbers
<1>9. /\ place \in [P -> P]
      /\ \A n \in P : \E k \in P : place[k] = n
      /\ \A j, k \in P : place[j] = place[k] => j = k
  <2> HIDE DEF the
  <2>1. place \in Bijection(P, P)
    BY <1>8
  <2> QED BY ONLY <2>1, Fun_BijectionProperties
<1>10. \A n \in P : the(n) \in P /\ place[the(n)] = n
  <2>1. SUFFICES ASSUME NEW n \in P PROVE the(n) \in P /\ place[the(n)] = n
    OBVIOUS
  <2>2. PICK k \in P : place[k] = n
    BY <1>9
  <2>3. Cardinality({j \in P : Closer(p, list[j], list[k])}) = n - 1
    BY <1>5, <1>7, <2>2
  <2>4. the(n) \in P /\ Cardinality({j \in P : Closer(p, list[j], list[the(n)])}) = n - 1
    BY <2>3
  <2> HIDE DEF the
  <2>5. n \in Nat
    BY <1>1
  <2> QED BY <1>5, <2>4, <2>5
<1> HIDE DEF the
<1>11. \A n \in P : InOrder(p, list)[n] = list[the(n)]
  BY <1>6
<1>12. \A k \in P : the(place[k]) = k
  BY <1>9, <1>10
<1>13. InOrder(p, list) \in Seq(Entries) /\ Len(InOrder(p, list)) = Len(list)
  BY <1>1, <1>6, <1>10
<1>14. \A j, k \in P : place[j] < place[k] => Closer(p, list[j], list[k])
  <2>1. SUFFICES ASSUME NEW j \in P, NEW k \in P, place[j] < place[k], <<j, k>> \notin R
                 PROVE  FALSE
    BY <1>4
  <2>2. place[j] \in Nat /\ place[k] \in Nat
    <3>1. P \subseteq Nat
      BY <1>1
    <3> QED BY <1>9, <3>1
  <2>4. j # k
    BY <2>1, <2>2
  <2>3. <<k, j>> \in R
    BY <1>3, <2>1, <2>4 DEF StrictOrder
  <2> QED BY <1>8, <2>1, <2>2, <2>3
<1>15. \A n \in P : \E k \in P : place[k] = n /\ InOrder(p, list)[n] = list[k]
  BY <1>10, <1>11
<1>16. \A k \in P : place[k] \in P
  BY <1>9
<1>17. \A k \in P : InOrder(p, list)[place[k]] = list[k]
  BY <1>11, <1>12, <1>16
<1>18. place \in [P -> P]
  BY <1>9
<1> QED BY ONLY <1>13, <1>14, <1>15, <1>17, <1>18 DEF place

\* As many of the matches shown as there is room for are closer than m.
Outdone(p, shown, m) == Cardinality({n \in shown : Closer(p, n, m)}) = TopN

\* The matches of a list.
Among(list) == {list[n] : n \in 1..Len(list)}

\* What is shown is from the list, and what is not shown is behind TopN others.
LEMMA ShownIsBest ==
  ASSUME NEW p, NEW list, MatchList(p, list)
  PROVE  /\ Shown(p, list) \in Seq(Entries)
         /\ Among(Shown(p, list)) \subseteq Among(list)
         /\ \A k \in 1..Len(list) :
              list[k] \in Among(Shown(p, list)) \/ Outdone(p, Among(Shown(p, list)), list[k])
<1> DEFINE P == 1..Len(list)
           place == Standing(p, list)
           sorted == InOrder(p, list)
           show == Shown(p, list)
           shown == {show[n] : n \in 1..Len(show)}
           size == IF Len(list) < TopN THEN Len(list) ELSE TopN
<1>1. /\ sorted \in Seq(Entries) /\ Len(sorted) = Len(list)
      /\ place \in [P -> P]
      /\ \A n \in P : \E k \in P : place[k] = n /\ sorted[n] = list[k]
      /\ \A k \in P : sorted[place[k]] = list[k]
      /\ \A j, k \in P : place[j] < place[k] => Closer(p, list[j], list[k])
  BY InOrderPlaces
<1>2. list \in Seq(Entries) /\ Len(list) \in Nat /\ TopN \in Nat
      /\ \A j, k \in P : list[j].id = list[k].id => j = k
  BY TopAssumption DEF MatchList
<1>3. show = SubSeq(sorted, 1, size)
  BY <1>1 DEF Shown, UpTo
<1> HIDE DEF place, sorted, show
<1>4. size \in Nat /\ size <= Len(list)
  BY <1>2
<1>5. show \in Seq(Entries) /\ Len(show) = size /\ \A n \in 1..size : show[n] = sorted[n]
  <2> HIDE DEF size
  <2>1. sorted \in Seq(Entries) /\ size \in Nat /\ size <= Len(sorted)
    BY <1>1, <1>4
  <2>2. SubSeq(sorted, 1, size) \in Seq(Entries) /\ Len(SubSeq(sorted, 1, size)) = size
    BY <2>1
  <2>3. \A n \in 1..size : SubSeq(sorted, 1, size)[n] = sorted[n]
    BY <2>1
  <2> QED BY <1>3, <2>2, <2>3
<1>6. shown \subseteq {list[k] : k \in P}
  <2>1. SUFFICES ASSUME NEW n \in 1..Len(show) PROVE \E k \in P : show[n] = list[k]
    OBVIOUS
  <2> HIDE DEF size
  <2>2. n \in 1..size /\ n \in P
    BY <1>2, <1>4, <1>5
  <2>3. \E k \in P : sorted[n] = list[k]
    BY <1>1, <2>2
  <2>4. show[n] = sorted[n]
    BY <1>5, <2>2
  <2> QED BY ONLY <2>3, <2>4
<1>7. ASSUME NEW k \in P, list[k] \notin shown
      PROVE  Outdone(p, shown, list[k])
  <2>1. place[k] \in P /\ sorted[place[k]] = list[k]
    BY <1>1
  <2>2. place[k] \notin 1..size
    BY <1>5, <1>7, <2>1
  <2>3. size = TopN /\ TopN < place[k]
    BY <1>2, <2>1, <2>2
  <2>10. \A n \in 1..TopN : n \in P /\ n \in Nat /\ n < place[k] /\ show[n] = sorted[n]
    <3>1. TopN <= Len(list) /\ place[k] \in Nat
      BY <1>2, <1>4, <2>1, <2>3
    <3>2. \A n \in 1..TopN : show[n] = sorted[n]
      BY <1>5, <2>3
    <3> QED BY <1>2, <2>3, <3>1, <3>2
  <2>4. \A n \in 1..TopN : \E j \in P : place[j] = n /\ show[n] = list[j]
    BY <1>1, <2>10
  <2>5. \A n \in 1..TopN : Closer(p, show[n], list[k])
    BY <1>1, <2>4, <2>10
  <2>6. ASSUME NEW m \in 1..TopN, NEW n \in 1..TopN, show[m] = show[n] PROVE m = n
    <3>1. PICK j \in P : place[j] = m /\ show[m] = list[j]
      BY <2>4
    <3>2. PICK l \in P : place[l] = n /\ show[n] = list[l]
      BY <2>4
    <3>3. j = l
      BY <1>2, <2>6, <3>1, <3>2
    <3> QED BY <3>1, <3>2, <3>3
  <2>7. shown = {show[n] : n \in 1..TopN}
    BY <1>5, <2>3
  <2>8. {m \in shown : Closer(p, m, list[k])} = {show[n] : n \in 1..TopN}
    BY <2>5, <2>7
  <2>9. Cardinality({show[n] : n \in 1..TopN}) = TopN
    <3> DEFINE T == 1..TopN
               g == [n \in T |-> show[n]]
               U == {show[n] : n \in T}
    <3>1. IsFiniteSet(T) /\ Cardinality(T) = TopN
      <4>1. 1 \in Int /\ TopN \in Int /\ 1 <= TopN
        BY TopAssumption
      <4> QED BY <4>1, FS_Interval
    <3>2. g \in [T -> U] /\ (\A m, n \in T : g[m] = g[n] => m = n)
          /\ \A u \in U : \E n \in T : g[n] = u
      BY <2>6
    <3> HIDE DEF T, g, U
    <3>3. g \in Injection(T, U) /\ g \in Surjection(T, U)
      BY <3>2, Fun_IsInj, Fun_IsSurj
    <3>4. g \in Bijection(T, U)
      BY <3>3, Fun_IsBij
    <3>5. Cardinality(T) = Cardinality(U)
      BY <3>1, <3>4, FS_Bijection, Fun_ExistsBij
    <3> QED BY <3>1, <3>5 DEF T, U
  <2> QED BY <2>8, <2>9 DEF Outdone
<1> HIDE DEF shown
<1>8. show \in Seq(Entries)
  BY <1>5
<1>9. shown = Among(Shown(p, list)) /\ {list[k] : k \in P} = Among(list) /\ show = Shown(p, list)
  BY DEF Among, shown, show
<1> QED BY ONLY <1>6, <1>7, <1>8, <1>9

Linked == {"connected", "ready", "built", "open", "saved", "notified", "listing", "comparing", "done"}

\* The store: what was there at first is there until people remove it, and what is new
\* is tagged by a process that wrote it.
Stored ==
  /\ IsFiniteSet(DOMAIN records) /\ DOMAIN records \subseteq DOMAIN Past \cup NewIds
  /\ \A i \in DOMAIN records : records[i].kinds \in SUBSET Kinds
  /\ \A i \in DOMAIN Past :
       /\ i \in DOMAIN records => records[i] = Past[i]
       /\ i \notin removed => i \in DOMAIN records
  /\ \A i \in DOMAIN records \ DOMAIN Past :
       \E q \in Processes : id[q] = i /\ records[i].tag = tag[q]

\* A match is another incident of the cluster that shares a kind with this one.
Matching(p, m) ==
  /\ m \in Entries /\ m.id # id[p]
  /\ m.id \in DOMAIN records \cup DOMAIN Past
  /\ Shared(m.id) \/ RecordOf(m.id).tag = tag[p]
  /\ own[p] \cap m.kinds # {}

Found(p) ==
  /\ matches[p] \in Seq(Entries)
  /\ \A n \in 1..Len(matches[p]) : Matching(p, matches[p][n])

\* The entry of a past incident, and those that must not be passed over.
PastEntry(i) == [id |-> i, kinds |-> Past[i].kinds]
Due(p) == {i \in DOMAIN Past \ removed : Loads(Past[i]) /\ Alike(p, Past[i])}

\* Every incident that is due is still to be compared or among the matches, once.
Searching(p) ==
  /\ todo[p] \in SUBSET Nat /\ IsFiniteSet(todo[p]) /\ id[p] \notin todo[p]
  /\ \A n \in 1..Len(matches[p]) : matches[p][n].id \notin todo[p]
  /\ \A j, k \in 1..Len(matches[p]) : matches[p][j].id = matches[p][k].id => j = k
  /\ \A i \in Due(p) :
       i \in todo[p] \/ \E n \in 1..Len(matches[p]) : matches[p][n] = PastEntry(i)

Display(p) == Among(matches[p])

BestShown(p) ==
  \A i \in Due(p) :
    PastEntry(i) \in Display(p) \/ Outdone(p, Display(p), PastEntry(i))

\* The own record was torn by another command.
Unread(p) == own[p] = NoOwn /\ id[p] # 0 /\ Shared(id[p])

SearchOf(p) ==
  /\ observed[p] \in SUBSET Kinds
  /\ at[p] \in Linked => tag[p] # ""
  /\ at[p] \in {"listing", "comparing"} => saved[p] /\ own[p] \in SUBSET Kinds
  /\ at[p] \notin {"listing", "comparing", "done", "killed"} => own[p] = NoOwn
  /\ at[p] \notin {"comparing", "done", "killed"} \/ (at[p] = "done" /\ ~ saved[p]) =>
       matches[p] = <<>>
  /\ at[p] \in {"comparing", "done"} => Found(p)
  /\ at[p] = "comparing" => Searching(p)
  /\ at[p] = "done" /\ saved[p] => BestShown(p) \/ Unread(p)

SInv ==
  /\ DOMAIN own = Processes /\ DOMAIN todo = Processes /\ DOMAIN matches = Processes
  /\ Stored /\ \A p \in Processes : SearchOf(p)

\* What the steps of others may do to the store: records disappear, a file of several
\* processes stays one, and a record of one process keeps its tag.
TagsStay ==
  /\ removed \subseteq removed'
  /\ \A i : i # 0 /\ Shared(i) => Shared(i)'
  /\ \A i \in DOMAIN records \cup DOMAIN Past :
       /\ i # 0 /\ i \in DOMAIN records' \cup DOMAIN Past
       /\ Shared(i)' \/ RecordOf(i)'.tag = RecordOf(i).tag

LEMMA InitSInv == Init => SInv
<1> SUFFICES ASSUME Init PROVE SInv
  OBVIOUS
<1>1. DOMAIN own = Processes /\ DOMAIN todo = Processes /\ DOMAIN matches = Processes
  BY DEF Init
<1>2. Stored
  <2>1. records = Past /\ removed = {}
    BY DEF Init
  <2>2. \A i \in DOMAIN Past : Past[i].kinds \in SUBSET Kinds
    BY PastAssumption DEF RecordSet
  <2> QED BY <2>1, <2>2, PastAssumption DEF Stored
<1>3. ASSUME NEW p \in Processes PROVE SearchOf(p)
  <2>1. at[p] = "start" /\ matches[p] = <<>> /\ observed[p] = {} /\ own[p] = NoOwn
    BY DEF Init
  <2> QED BY <2>1 DEF SearchOf, Linked
<1> QED BY <1>1, <1>2, <1>3 DEF SInv

\* A new ID is none of the past ones.
LEMMA NewIsNotPast == \A i \in NewIds \cup {0} : i \notin DOMAIN Past
<1> SUFFICES ASSUME NEW i \in NewIds \cup {0}, i \in DOMAIN Past PROVE FALSE
  OBVIOUS
<1>1. i # 0 /\ i \in NewIds /\ i \in Nat
  BY IdsAssumption
<1>2. i < i
  BY <1>1, IdsAssumption
<1> QED BY <1>1, <1>2

\* An ID is given once.
LEMMA SharedStays ==
  ASSUME \A q \in Processes : id[q] # 0 => id'[q] = id[q]
  PROVE  \A i : i # 0 /\ Shared(i) => Shared(i)'
<1> SUFFICES ASSUME NEW i, i # 0, Shared(i) PROVE Shared(i)'
  OBVIOUS
<1>1. PICK a, b \in Processes : a # b /\ id[a] = i /\ id[b] = i
  BY DEF Shared
<1>2. id'[a] = i /\ id'[b] = i
  BY <1>1
<1> QED BY <1>1, <1>2 DEF Shared

\* 0 is no ID of a record.
LEMMA NoZero == Stored => \A i \in DOMAIN records \cup DOMAIN Past : i # 0
BY IdsAssumption DEF Stored

LEMMA StoreStays ==
  ASSUME IInv, Stored, UNCHANGED <<records, removed>>,
         \A q \in Processes : id[q] # 0 => id'[q] = id[q] /\ tag'[q] = tag[q]
  PROVE  Stored' /\ TagsStay
<1>1. 0 \notin DOMAIN records
  BY IdsAssumption DEF Stored
<1>2. \A i \in DOMAIN records \ DOMAIN Past :
        \E q \in Processes : id'[q] = i /\ records[i].tag = tag'[q]
  BY <1>1 DEF Stored
<1>3. Stored'
  BY <1>2 DEF Stored
<1>4. TagsStay
  BY NoZero, SharedStays DEF TagsStay, RecordOf
<1> QED BY <1>3, <1>4

LEMMA StoreLoses ==
  ASSUME IInv, Stored, RemoveRecord
  PROVE  Stored' /\ TagsStay
<1>1. PICK i \in Removable \cap DOMAIN records :
        /\ records' = [j \in DOMAIN records \ {i} |-> records[j]]
        /\ removed' = removed \cup {i}
        /\ id' = id /\ tag' = tag
  BY DEF RemoveRecord, request
<1>2. i \in DOMAIN Past /\ records[i] = Past[i]
  BY IdsAssumption DEF Stored
<1>3. DOMAIN records' = DOMAIN records \ {i} /\ \A j \in DOMAIN records' : records'[j] = records[j]
  BY <1>1
<1>4. IsFiniteSet(DOMAIN records')
  BY <1>3, FS_Subset DEF Stored
<1>5. /\ DOMAIN records' \subseteq DOMAIN Past \cup NewIds
      /\ \A j \in DOMAIN records' : records'[j].kinds \in SUBSET Kinds
      /\ \A j \in DOMAIN Past :
           /\ j \in DOMAIN records' => records'[j] = Past[j]
           /\ j \notin removed' => j \in DOMAIN records'
  BY <1>1, <1>3 DEF Stored
<1>6. \A j \in DOMAIN records' \ DOMAIN Past :
        \E q \in Processes : id'[q] = j /\ records'[j].tag = tag'[q]
  BY <1>1, <1>3 DEF Stored
<1>7. Stored'
  BY <1>4, <1>5, <1>6 DEF Stored
<1>8. ASSUME NEW j \in DOMAIN records \cup DOMAIN Past
      PROVE  j \in DOMAIN records' \cup DOMAIN Past /\ RecordOf(j)' = RecordOf(j)
  BY <1>2, <1>3 DEF RecordOf
<1>9. TagsStay
  BY <1>1, <1>8, NoZero, SharedStays DEF TagsStay
<1> QED BY <1>7, <1>9

LEMMA StoreGains ==
  ASSUME IInv, Stored, NEW p \in Processes, id[p] # 0, NEW new, Put(p, new),
         new.kinds \in SUBSET Kinds,
         NEW w \in Processes, id[w] = id[p], new.tag = tag[w],
         UNCHANGED <<removed, id, tag>>
  PROVE  Stored' /\ TagsStay
<1> DEFINE i == id[p]
<1>1. /\ DOMAIN records' = DOMAIN records \cup {i} /\ records'[i] = new
      /\ \A j \in DOMAIN records \ {i} : records'[j] = records[j]
  BY DEF Put
<1>3. i \in NewIds /\ i \notin DOMAIN Past
  BY NewIsNotPast DEF IInv, Shape
<1> HIDE DEF i
<1>4. IsFiniteSet(DOMAIN records')
  BY <1>1, FS_AddElement DEF Stored
<1>5. /\ DOMAIN records' \subseteq DOMAIN Past \cup NewIds
      /\ \A j \in DOMAIN records' : records'[j].kinds \in SUBSET Kinds
      /\ \A j \in DOMAIN Past :
           /\ j \in DOMAIN records' => records'[j] = Past[j]
           /\ j \notin removed' => j \in DOMAIN records'
  BY <1>1, <1>3 DEF Stored
<1>6. ASSUME NEW j \in DOMAIN records' \ DOMAIN Past
      PROVE  \E q \in Processes : id'[q] = j /\ records'[j].tag = tag'[q]
  <2>1. CASE j = i
    BY <1>1, <2>1 DEF i
  <2>2. CASE j # i
    BY <1>1, <1>6, <2>2 DEF Stored
  <2> QED BY <2>1, <2>2
<1>7. Stored'
  BY <1>4, <1>5, <1>6 DEF Stored
<1>8. ASSUME NEW j \in DOMAIN records \cup DOMAIN Past
      PROVE  /\ j \in DOMAIN records' \cup DOMAIN Past
             /\ Shared(j)' \/ RecordOf(j)'.tag = RecordOf(j).tag
  <2>1. CASE j # i
    BY <1>1, <2>1 DEF RecordOf
  <2>2. CASE j = i
    <3>1. j \in DOMAIN records \ DOMAIN Past
      BY <1>3, <2>2
    <3>2. PICK q \in Processes : id[q] = j /\ records[j].tag = tag[q]
      BY <3>1 DEF Stored
    <3>3. q = w \/ Shared(j)'
      BY <2>2, <3>2 DEF i, Shared
    <3> QED BY <1>1, <2>2, <3>1, <3>2, <3>3 DEF RecordOf
  <2> QED BY <2>1, <2>2
<1>9. TagsStay
  BY <1>8, NoZero, SharedStays DEF TagsStay
<1> QED BY <1>7, <1>9


\* What a process found stays right when the store changes and it does not step.
LEMMA MatchingStays ==
  ASSUME NEW q, NEW m, TagsStay, Matching(q, m),
         own'[q] = own[q], tag'[q] = tag[q], id'[q] = id[q]
  PROVE  Matching(q, m)'
BY DEF Matching, TagsStay

LEMMA DueShrinks ==
  ASSUME NEW q, removed \subseteq removed', own'[q] = own[q], tag'[q] = tag[q]
  PROVE  Due(q)' \subseteq Due(q)
BY DEF Due, Alike

LEMMA FoundStays ==
  ASSUME NEW q, TagsStay, Found(q), matches'[q] = matches[q],
         own'[q] = own[q], tag'[q] = tag[q], id'[q] = id[q]
  PROVE  Found(q)'
<1>1. ASSUME NEW n \in 1..Len(matches[q]) PROVE Matching(q, matches[q][n])'
  <2>1. Matching(q, matches[q][n])
    BY DEF Found
  <2> HIDE DEF Matching
  <2> DEFINE m == matches[q][n]
  <2>2. matches'[q][n] = m
    OBVIOUS
  <2> QED BY <2>1, MatchingStays, <2>2 DEF Matching
<1> QED BY <1>1 DEF Found, Matching

LEMMA SearchStays ==
  ASSUME NEW q, TagsStay, SearchOf(q), at'[q] = at[q], observed'[q] = observed[q],
         own'[q] = own[q], todo'[q] = todo[q], matches'[q] = matches[q],
         saved'[q] = saved[q], tag'[q] = tag[q], id'[q] = id[q]
  PROVE  SearchOf(q)'
<1>1. Due(q)' \subseteq Due(q)
  BY DueShrinks DEF TagsStay
<1>2. Found(q) => Found(q)'
  BY FoundStays
<1>3. Searching(q) => Searching(q)'
  BY <1>1 DEF Searching, PastEntry
<1>4. BestShown(q) => BestShown(q)'
  <2>1. Display(q)' = Display(q)
    BY DEF Display
  <2>2. \A m, n : Closer(q, m, n)' <=> Closer(q, m, n)
    BY DEF Closer
  <2>3. \A n : Outdone(q, Display(q), n)' <=> Outdone(q, Display(q), n)
    <3>1. \A n : {m \in Display(q) : Closer(q, m, n)}' = {m \in Display(q) : Closer(q, m, n)}
      BY <2>1, <2>2
    <3> QED BY <3>1 DEF Outdone
  <2> QED BY <1>1, <2>1, <2>3 DEF BestShown, PastEntry
<1>5. Unread(q) => Unread(q)'
  BY DEF Unread, TagsStay
<1> QED BY <1>2, <1>3, <1>4, <1>5 DEF SearchOf

\* Before it lists the records a process has no matches, and a killed one shows none.
LEMMA NotYetSearching ==
  ASSUME NEW q, observed'[q] \in SUBSET Kinds, at'[q] \in Linked => tag'[q] # "",
         at'[q] \notin {"listing", "comparing", "done"},
         at'[q] = "killed" \/ (matches'[q] = <<>> /\ own'[q] = NoOwn)
  PROVE  SearchOf(q)'
BY DEF SearchOf

\* The processes that do not step keep what they found.
LEMMA OthersStay ==
  ASSUME IInv, SInv, TagsStay, NEW p \in Processes,
         \A q \in Processes \ {p} :
           /\ at'[q] = at[q] /\ observed'[q] = observed[q] /\ own'[q] = own[q]
           /\ todo'[q] = todo[q] /\ matches'[q] = matches[q]
           /\ saved'[q] = saved[q] /\ tag'[q] = tag[q] /\ id'[q] = id[q]
  PROVE  \A q \in Processes \ {p} : SearchOf(q)'
<1> SUFFICES ASSUME NEW q \in Processes \ {p} PROVE SearchOf(q)'
  OBVIOUS
<1>1. SearchOf(q)
  BY DEF SInv
<1> HIDE DEF SearchOf
<1> QED BY <1>1, SearchStays

\* A process that only moves on, and not into the search.
LEMMA SearchMovesOn ==
  ASSUME IInv, SInv, NEW p \in Processes,
         NEW place \in Places \ {"listing", "comparing", "done"}, Go(p, place),
         UNCHANGED <<records, removed, tag, observed, id, saved, own, todo, matches>>,
         place \in Linked => at[p] \in Linked,
         place = "killed" \/ at[p] \notin {"listing", "comparing", "done", "killed"}
  PROVE  SInv'
<1>1. at'[p] = place /\ \A q \in Processes \ {p} : at'[q] = at[q]
  BY DEF Go, IInv, Shape
<1>2. Stored' /\ TagsStay
  BY StoreStays DEF SInv
<1>3. \A q \in Processes \ {p} : SearchOf(q)'
  BY <1>1, <1>2, OthersStay
<1>4. SearchOf(p)'
  <2>1. /\ observed[p] \in SUBSET Kinds
        /\ at[p] \in Linked => tag[p] # ""
        /\ at[p] \notin {"listing", "comparing", "done", "killed"} =>
             matches[p] = <<>> /\ own[p] = NoOwn
    BY DEF SInv, SearchOf
  <2> QED BY <1>1, <2>1, NotYetSearching
<1> QED BY <1>2, <1>3, <1>4 DEF SInv

LEMMA ConnectSearch == ASSUME IInv, SInv, NEW p \in Processes, Connect(p) PROVE SInv'
<1> DEFINE c == Cluster(contextOf(p))
<1>1. /\ at[p] = "scoped" /\ Go(p, "connected") /\ contextOf(p) \in Contexts
      /\ tag' = [tag EXCEPT ![p] = FirstNot("", <<settings[p].clusterId, ClusterID(c)>>)]
      /\ UNCHANGED <<records, removed, observed, id, saved, own, todo, matches>>
  BY DEF Connect, world, search
<1>2. tag'[p] # ""
  <2> DEFINE configured == settings[p].clusterId
             derived == ClusterID(c)
  <2>1. tag'[p] = FirstNot("", <<configured, derived>>) /\ derived # ""
    BY <1>1, TagsAssumption DEF IInv, Shape
  <2> HIDE DEF configured, derived
  <2>2. ASSUME configured # "" PROVE FirstNot("", <<configured, derived>>) = configured
    BY ONLY FirstOfTwo, <2>2
  <2>3. FirstNot("", <<"", derived>>) = derived
    BY ONLY SecondOfTwo
  <2> QED BY ONLY <2>1, <2>2, <2>3
<1>3. /\ at'[p] = "connected"
      /\ \A q \in Processes \ {p} : at'[q] = at[q] /\ tag'[q] = tag[q]
  BY <1>1 DEF Go, IInv, Shape
<1>4. id[p] = 0
  BY <1>1 DEF IInv, Progress, Early
<1>5. Stored' /\ TagsStay
  BY <1>1, <1>3, <1>4, StoreStays DEF SInv
<1>6. \A q \in Processes \ {p} : SearchOf(q)'
  BY <1>1, <1>3, <1>5, OthersStay
<1>7. observed[p] \in SUBSET Kinds /\ matches[p] = <<>> /\ own[p] = NoOwn
  BY <1>1 DEF SInv, SearchOf
<1>8. SearchOf(p)'
  BY <1>1, <1>2, <1>3, <1>7, NotYetSearching
<1> QED BY <1>1, <1>5, <1>6, <1>8 DEF SInv

LEMMA InvestigateSearch == ASSUME IInv, SInv, NEW p \in Processes, Investigate(p) PROVE SInv'
<1>1. PICK ks \in Views : observed' = [observed EXCEPT ![p] = ks]
  BY DEF Investigate
<1>2. PICK i \in NewIds : id' = [id EXCEPT ![p] = i]
  BY DEF Investigate
<1>3. /\ at[p] = "ready" /\ Go(p, "built")
      /\ UNCHANGED <<records, removed, tag, saved, own, todo, matches>>
  BY DEF Investigate, world, search, request
<1>4. /\ at'[p] = "built" /\ observed'[p] = ks
      /\ \A q \in Processes \ {p} : at'[q] = at[q] /\ observed'[q] = observed[q] /\ id'[q] = id[q]
  BY <1>1, <1>2, <1>3 DEF Go, IInv, Shape
<1>5. id[p] = 0
  BY <1>3 DEF IInv, Progress, Early
<1>6. Stored' /\ TagsStay
  BY <1>3, <1>4, <1>5, StoreStays DEF SInv
<1>7. \A q \in Processes \ {p} : SearchOf(q)'
  BY <1>3, <1>4, <1>6, OthersStay
<1>8. ks \in SUBSET Kinds /\ tag[p] # "" /\ matches[p] = <<>> /\ own[p] = NoOwn
  BY <1>3, TopAssumption DEF SInv, SearchOf, Linked
<1>9. SearchOf(p)'
  BY <1>3, <1>4, <1>8, NotYetSearching
<1> QED BY <1>3, <1>6, <1>7, <1>9 DEF SInv

\* What is written is of kinds, and tagged by one that writes the file.
LEMMA WrittenIs ==
  ASSUME SInv, NEW p \in Processes, NEW lines, NEW ks \in SUBSET observed[p],
         NEW new \in Written(p, Record(p, lines, ks))
  PROVE  new.kinds \in SUBSET Kinds /\ \E w \in Processes : id[w] = id[p] /\ new.tag = tag[w]
<1>1. \A q \in Processes : observed[q] \in SUBSET Kinds
  BY DEF SInv, SearchOf
<1>2. CASE Shared(id[p])
  <2>1. new \in Mixtures(id[p])
    BY <1>2 DEF Written
  <2>2. /\ new.tag \in {tag[q] : q \in {w \in Processes : id[w] = id[p]}}
        /\ new.kinds \subseteq UNION {observed[q] : q \in {w \in Processes : id[w] = id[p]}}
    BY <2>1 DEF Mixtures
  <2> QED BY <1>1, <2>2
<1>3. CASE ~ Shared(id[p])
  <2>1. new = Record(p, lines, ks)
    BY <1>3 DEF Written
  <2> QED BY <1>1, <2>1 DEF Record
<1> QED BY <1>2, <1>3

LEMMA WriteSearch ==
  ASSUME IInv, SInv, NEW p \in Processes, CreateRecord(p) \/ WriteSome(p) \/ WriteRest(p)
  PROVE  SInv'
<1>1. at[p] \in {"built", "open"} /\ id[p] # 0
  BY DEF CreateRecord, WriteSome, WriteRest, IInv, Progress
<1>2. /\ observed[p] \in SUBSET Kinds /\ tag[p] # "" /\ matches[p] = <<>> /\ own[p] = NoOwn
  BY <1>1 DEF SInv, SearchOf, Linked
<1>3. PICK new : /\ Put(p, new) /\ new.kinds \in SUBSET Kinds
                 /\ \E w \in Processes : id[w] = id[p] /\ new.tag = tag[w]
  <2>1. CASE CreateRecord(p)
    <3>1. Put(p, Record(p, "none", {}))
      BY <2>1 DEF CreateRecord
    <3>2. Record(p, "none", {}).kinds = {} /\ Record(p, "none", {}).tag = tag[p]
      BY DEF Record
    <3> QED BY <3>1, <3>2
  <2>2. CASE WriteSome(p)
    <3>1. PICK lines \in {"torn", "cut"}, ks \in SUBSET observed[p] :
            \E new \in Written(p, Record(p, lines, ks)) : Put(p, new)
      BY <2>2 DEF WriteSome
    <3> QED BY <3>1, WrittenIs
  <2>3. CASE WriteRest(p)
    <3>1. \E new \in Written(p, Record(p, "whole", observed[p])) : Put(p, new)
      BY <2>3 DEF WriteRest
    <3> QED BY <3>1, WrittenIs
  <2> QED BY <2>1, <2>2, <2>3
<1>4. UNCHANGED <<removed, tag, observed, id, own, todo, matches>>
  BY DEF CreateRecord, WriteSome, WriteRest, world, search, request
<1>5. /\ at'[p] \in {"open", "saved"}
      /\ \A q \in Processes \ {p} : at'[q] = at[q] /\ saved'[q] = saved[q]
  BY DEF CreateRecord, WriteSome, WriteRest, Go, IInv, Shape
<1>6. Stored' /\ TagsStay
  <2>1. PICK w \in Processes : id[w] = id[p] /\ new.tag = tag[w]
    BY <1>3
  <2> HIDE DEF Put
  <2> QED BY <1>1, <1>3, <1>4, <2>1, StoreGains DEF SInv
<1>7. \A q \in Processes \ {p} : SearchOf(q)'
  BY <1>4, <1>5, <1>6, OthersStay
<1>8. SearchOf(p)'
  BY <1>2, <1>4, <1>5, NotYetSearching
<1> QED BY <1>4, <1>6, <1>7, <1>8 DEF SInv

\* The steps from the loading of the own record on leave the store alone.
LEMMA SearchStep ==
  ASSUME IInv, SInv, NEW p \in Processes,
         UNCHANGED <<records, removed, tag, observed, id, saved>>,
         DOMAIN own' = Processes, DOMAIN todo' = Processes, DOMAIN matches' = Processes,
         \A q \in Processes \ {p} :
           at'[q] = at[q] /\ own'[q] = own[q] /\ todo'[q] = todo[q] /\ matches'[q] = matches[q],
         SearchOf(p)'
  PROVE  SInv'
<1>1. Stored' /\ TagsStay
  BY StoreStays DEF SInv
<1>2. \A q \in Processes \ {p} : SearchOf(q)'
  BY <1>1, OthersStay
<1> QED BY <1>1, <1>2 DEF SInv

LEMMA NoMatches == <<>> \in Seq(Entries) /\ 1..Len(<<>>) = {}
<1>1. \A S : <<>> \in Seq(S)
  OBVIOUS
<1>2. 1..Len(<<>>) = {}
  OBVIOUS
<1> QED BY <1>1, <1>2

LEMMA GiveUpSearch == ASSUME IInv, SInv, NEW p \in Processes, NoRecordToCompare(p) PROVE SInv'
<1>1. /\ at[p] = "notified" /\ ~ saved[p] /\ Go(p, "done")
      /\ UNCHANGED <<records, removed, tag, observed, id, saved, own, todo, matches>>
  BY DEF NoRecordToCompare, world, search, request
<1>2. at'[p] = "done" /\ \A q \in Processes \ {p} : at'[q] = at[q]
  BY <1>1 DEF Go, IInv, Shape
<1>3. observed[p] \in SUBSET Kinds /\ tag[p] # "" /\ matches[p] = <<>>
  BY <1>1 DEF SInv, SearchOf, Linked
<1>4. Found(p)'
  <2>1. matches'[p] = <<>>
    BY <1>1, <1>3
  <2> QED BY <2>1, NoMatches DEF Found
<1>5. SearchOf(p)'
  BY <1>1, <1>2, <1>3, <1>4 DEF SearchOf
<1> QED BY <1>1, <1>2, <1>5, SearchStep DEF SInv

LEMMA UnreadSearch == ASSUME IInv, SInv, NEW p \in Processes, OwnUnreadable(p) PROVE SInv'
<1>1. /\ at[p] = "notified" /\ saved[p] /\ ~ Loads(records[id[p]]) /\ Go(p, "done")
      /\ UNCHANGED <<records, removed, tag, observed, id, saved, own, todo, matches>>
  BY DEF OwnUnreadable, world, search, request
<1>2. at'[p] = "done" /\ \A q \in Processes \ {p} : at'[q] = at[q]
  BY <1>1 DEF Go, IInv, Shape
<1>3. observed[p] \in SUBSET Kinds /\ tag[p] # "" /\ matches[p] = <<>> /\ own[p] = NoOwn
  BY <1>1 DEF SInv, SearchOf, Linked
<1>4. Found(p)'
  <2>1. matches'[p] = <<>>
    BY <1>1, <1>3
  <2> QED BY <2>1, NoMatches DEF Found
<1>5. Unread(p)'
  <2>0. id[p] # 0 /\ (~ Shared(id[p]) => records[id[p]] = Record(p, "whole", observed[p]))
    BY <1>1 DEF IInv, Kept, KeptBy
  <2>1. id[p] # 0 /\ (~ Shared(id[p]) => records[id[p]].lines = "whole")
    BY <2>0 DEF Record
  <2>2. Shared(id[p])
    BY <1>1, <2>1 DEF Loads
  <2> QED BY <1>1, <1>3, <2>1, <2>2 DEF Unread, Shared
<1>6. SearchOf(p)'
  BY <1>1, <1>2, <1>3, <1>4, <1>5 DEF SearchOf
<1> QED BY <1>1, <1>2, <1>6, SearchStep DEF SInv

LEMMA LoadSearch == ASSUME IInv, SInv, NEW p \in Processes, LoadOwn(p) PROVE SInv'
<1>1. /\ at[p] = "notified" /\ saved[p] /\ Go(p, "listing")
      /\ own' = [own EXCEPT ![p] = records[id[p]].kinds]
      /\ UNCHANGED <<records, removed, tag, observed, id, saved, todo, matches>>
  BY DEF LoadOwn, world, request
<1>2. /\ at'[p] = "listing" /\ own'[p] = records[id[p]].kinds /\ DOMAIN own' = Processes
      /\ \A q \in Processes \ {p} : at'[q] = at[q] /\ own'[q] = own[q]
  BY <1>1 DEF Go, IInv, Shape, SInv
<1>3. records[id[p]].kinds \in SUBSET Kinds
  BY <1>1 DEF IInv, Kept, KeptBy, SInv, Stored
<1>4. observed[p] \in SUBSET Kinds /\ tag[p] # "" /\ matches[p] = <<>>
  BY <1>1 DEF SInv, SearchOf, Linked
<1>5. SearchOf(p)'
  BY <1>1, <1>2, <1>3, <1>4 DEF SearchOf
<1> QED BY <1>1, <1>2, <1>5, SearchStep DEF SInv

LEMMA ListSearch == ASSUME IInv, SInv, NEW p \in Processes, ListRecords(p) PROVE SInv'
<1>1. /\ at[p] = "listing" /\ Go(p, "comparing")
      /\ todo' = [todo EXCEPT ![p] = DOMAIN records \ {id[p]}]
      /\ UNCHANGED <<records, removed, tag, observed, id, saved, own, matches>>
  BY DEF ListRecords, world, request
<1>2. /\ at'[p] = "comparing" /\ todo'[p] = DOMAIN records \ {id[p]} /\ DOMAIN todo' = Processes
      /\ \A q \in Processes \ {p} : at'[q] = at[q] /\ todo'[q] = todo[q]
  BY <1>1 DEF Go, IInv, Shape, SInv
<1>3. /\ observed[p] \in SUBSET Kinds /\ tag[p] # "" /\ matches[p] = <<>>
      /\ saved[p] /\ own[p] \in SUBSET Kinds
  BY <1>1 DEF SInv, SearchOf, Linked
<1>4. matches'[p] = <<>> /\ <<>> \in Seq(Entries) /\ 1..Len(<<>>) = {}
  BY <1>1, <1>3, NoMatches
<1>5. Found(p)'
  BY <1>4 DEF Found
<1>6. Searching(p)'
  <2>1. todo'[p] \in SUBSET Nat
    BY <1>2, IdsAssumption DEF SInv, Stored
  <2>2. IsFiniteSet(todo'[p])
    BY <1>2, FS_Subset DEF SInv, Stored
  <2>3. \A i \in DOMAIN Past \ removed : i \in todo'[p]
    <3>1. id[p] \notin DOMAIN Past
      BY NewIsNotPast DEF IInv, Shape
    <3> QED BY <1>2, <3>1 DEF SInv, Stored
  <2>4. id'[p] \notin todo'[p]
    BY <1>1, <1>2
  <2>5. \A i \in Due(p)' : i \in todo'[p]
    BY <1>1, <2>3 DEF Due
  <2> QED BY <1>4, <2>1, <2>2, <2>4, <2>5 DEF Searching
<1>7. SearchOf(p)'
  BY <1>1, <1>2, <1>3, <1>5, <1>6 DEF SearchOf
<1> QED BY <1>1, <1>2, <1>7, SearchStep DEF SInv

LEMMA CompareSearch == ASSUME IInv, SInv, NEW p \in Processes, Compare(p) PROVE SInv'
<1> DEFINE i == CHOOSE j \in todo[p] : \A k \in todo[p] : k <= j
           fits == i \in DOMAIN records /\ Loads(records[i]) /\ Alike(p, records[i])
           entry == [id |-> i, kinds |-> records[i].kinds]
<1>1. /\ at[p] = "comparing" /\ todo[p] # {}
      /\ todo' = [todo EXCEPT ![p] = @ \ {i}]
      /\ matches' = IF fits THEN [matches EXCEPT ![p] = Append(@, entry)] ELSE matches
      /\ UNCHANGED <<records, removed, tag, at, observed, id, saved, own>>
  BY DEF Compare, world, request
<1>2. /\ observed[p] \in SUBSET Kinds /\ tag[p] # "" /\ saved[p] /\ own[p] \in SUBSET Kinds
      /\ Found(p) /\ Searching(p)
  BY <1>1 DEF SInv, SearchOf, Linked
<1>3. i \in todo[p]
  <2> DEFINE T == todo[p]
             f == [x \in T |-> x]
  <2>0. T \in SUBSET Nat /\ IsFiniteSet(T) /\ T # {}
    BY <1>1, <1>2 DEF Searching
  <2>1. T \subseteq Int /\ IsFiniteSet(T) /\ T # {} /\ \A x \in T : f[x] \in Int
    <3> HIDE DEF T
    <3> QED BY <2>0
  <2>2. PICK x \in T : \A y \in T : f[y] < f[x] \/ (f[y] = f[x] /\ x <= y)
    <3> HIDE DEF T, f
    <3> QED BY <2>1, HasBest
  <2>3. \A y \in T : y <= x
    <3>1. \A y \in T : f[y] = y /\ y \in Int
      BY <2>1
    <3> HIDE DEF f, T
    <3> QED BY <2>2, <3>1
  <2> QED BY <2>3
<1> HIDE DEF i
<1>4. /\ todo'[p] = todo[p] \ {i} /\ DOMAIN todo' = Processes /\ DOMAIN matches' = Processes
      /\ matches'[p] = IF fits THEN Append(matches[p], entry) ELSE matches[p]
      /\ \A q \in Processes \ {p} : todo'[q] = todo[q] /\ matches'[q] = matches[q]
  <2> HIDE DEF fits, entry
  <2> QED BY <1>1 DEF SInv
<1>5. i \in Nat /\ i # id[p]
  BY <1>2, <1>3 DEF Searching
<1>6. matches[p] \in Seq(Entries) /\ Len(matches[p]) \in Nat
      /\ \A n \in 1..Len(matches[p]) : Matching(p, matches[p][n])
  <2>1. matches[p] \in Seq(Entries)
    BY <1>2 DEF Found
  <2>2. \A s \in Seq(Entries) : Len(s) \in Nat
    OBVIOUS
  <2>3. \A n \in 1..Len(matches[p]) : Matching(p, matches[p][n])
    BY <1>2 DEF Found
  <2> QED BY ONLY <2>1, <2>2, <2>3
<1>7. ASSUME i \in Due(p) PROVE fits /\ entry = PastEntry(i)
  <2>1. i \in DOMAIN Past \ removed /\ Loads(Past[i]) /\ Alike(p, Past[i])
    BY <1>7 DEF Due
  <2>2. i \in DOMAIN records /\ records[i] = Past[i]
    BY <2>1 DEF SInv, Stored
  <2> QED BY <2>1, <2>2 DEF PastEntry
<1>8. Due(p)' = Due(p)
  BY <1>1 DEF Due, Alike
<1>9. todo'[p] \in SUBSET Nat /\ IsFiniteSet(todo'[p]) /\ id'[p] \notin todo'[p]
  <2>1. todo'[p] \in SUBSET todo[p] /\ todo[p] \in SUBSET Nat /\ IsFiniteSet(todo[p])
        /\ id[p] \notin todo[p]
    BY <1>2, <1>4 DEF Searching
  <2> QED BY <1>1, <2>1, FS_Subset
<1>10. \A m : Matching(p, m)' <=> Matching(p, m)
  BY <1>1 DEF Matching, Shared, RecordOf
<1>11. CASE ~ fits
  <2>1. matches'[p] = matches[p]
    BY <1>4, <1>11
  <2> HIDE DEF fits
  <2>2. Found(p)'
    BY <1>6, <1>10, <2>1 DEF Found
  <2>3. \A j \in Due(p) : j \in todo'[p] \/ \E n \in 1..Len(matches[p]) : matches[p][n] = PastEntry(j)
    BY <1>2, <1>4, <1>7, <1>11 DEF Searching
  <2>4. /\ \A n \in 1..Len(matches[p]) : matches[p][n].id \notin todo'[p]
        /\ \A j, k \in 1..Len(matches[p]) : matches[p][j].id = matches[p][k].id => j = k
    BY <1>2, <1>4 DEF Searching
  <2>5. Searching(p)'
    BY <1>8, <1>9, <2>1, <2>3, <2>4 DEF Searching, PastEntry
  <2>6. SearchOf(p)'
    BY <1>1, <1>2, <2>2, <2>5 DEF SearchOf
  <2> QED BY <1>1, <1>4, <2>6, SearchStep DEF SInv
<1>12. CASE fits
  <2> DEFINE old == matches[p]
             new == matches'[p]
  <2>1. new = Append(old, entry)
    BY <1>4, <1>12
  <2>2. entry \in Entries /\ entry.id = i
    BY <1>5, <1>12 DEF Entries, SInv, Stored
  <2>3. Matching(p, entry)
    <3>1. LoadedTag(records[i]) = tag[p] /\ own[p] \cap records[i].kinds # {}
      BY <1>2, <1>12 DEF Alike
    <3>2. records[i].tag = tag[p]
      BY <1>2, <3>1 DEF LoadedTag
    <3> QED BY <1>5, <1>12, <2>2, <3>1, <3>2 DEF Matching, RecordOf
  <2> HIDE DEF fits, entry
  <2>4. /\ new \in Seq(Entries) /\ Len(new) = Len(old) + 1 /\ new[Len(old) + 1] = entry
        /\ \A n \in 1..Len(old) : new[n] = old[n]
    <3> HIDE DEF old, new
    <3> QED BY <1>6, <2>1, <2>2 DEF old
  <2>5. \A n \in 1..Len(new) : n \in 1..Len(old) \/ n = Len(old) + 1
    BY <1>6, <2>4
  <2> HIDE DEF new
  <2>6. \A n \in 1..Len(new) : Matching(p, new[n])
    <3> HIDE DEF old, Matching
    <3> QED BY <1>6, <2>3, <2>4, <2>5 DEF old
  <2>7. Found(p)'
    BY <1>10, <2>4, <2>6 DEF Found, new
  <2>8. \A n \in 1..Len(new) : new[n].id \notin todo'[p]
    <3>1. \A n \in 1..Len(old) : old[n].id \notin todo'[p]
      BY <1>2, <1>4 DEF Searching
    <3>2. entry.id \notin todo'[p]
      BY <1>4, <2>2
    <3> HIDE DEF old
    <3> QED BY <2>4, <2>5, <3>1, <3>2
  <2>9. \A j, k \in 1..Len(new) : new[j].id = new[k].id => j = k
    <3>1. \A n \in 1..Len(old) : old[n].id # entry.id
      BY <1>2, <1>3, <2>2 DEF Searching
    <3>2. \A j, k \in 1..Len(old) : old[j].id = old[k].id => j = k
      BY <1>2 DEF Searching
    <3> HIDE DEF old
    <3> QED BY <2>4, <2>5, <3>1, <3>2
  <2>10. \A j \in Due(p) : j \in todo'[p] \/ \E n \in 1..Len(new) : new[n] = PastEntry(j)
    <3>1. SUFFICES ASSUME NEW j \in Due(p), j \notin todo'[p]
                   PROVE  \E n \in 1..Len(new) : new[n] = PastEntry(j)
      OBVIOUS
    <3>2. 1..Len(old) \subseteq 1..Len(new) /\ Len(old) + 1 \in 1..Len(new)
      BY <1>6, <2>4
    <3>3. CASE j = i
      BY <1>7, <2>4, <3>1, <3>2, <3>3
    <3>4. CASE j # i
      <4>1. PICK n \in 1..Len(old) : old[n] = PastEntry(j)
        BY <1>2, <1>4, <3>1, <3>4 DEF Searching
      <4> QED BY <2>4, <3>2, <4>1
    <3> QED BY <3>3, <3>4
  <2>11. Searching(p)'
    BY <1>8, <1>9, <2>8, <2>9, <2>10 DEF Searching, PastEntry, new
  <2>12. SearchOf(p)'
    BY <1>1, <1>2, <2>7, <2>11 DEF SearchOf
  <2> QED BY <1>1, <1>4, <2>12, SearchStep DEF SInv
<1> QED BY <1>11, <1>12

LEMMA ShowSearch == ASSUME IInv, SInv, NEW p \in Processes, ShowSimilar(p) PROVE SInv'
<1> DEFINE list == matches[p]
           show == Shown(p, list)
<1>1. /\ at[p] = "comparing" /\ todo[p] = {} /\ Go(p, "done")
      /\ matches' = [matches EXCEPT ![p] = show]
      /\ UNCHANGED <<records, removed, tag, observed, id, saved, own, todo>>
  BY DEF ShowSimilar, world, request
<1> DEFINE shown == Among(show)
<1> HIDE DEF show
<1>2. /\ at'[p] = "done" /\ matches'[p] = show /\ DOMAIN matches' = Processes
      /\ \A q \in Processes \ {p} : at'[q] = at[q] /\ matches'[q] = matches[q]
  BY <1>1 DEF Go, IInv, Shape, SInv
<1>3. /\ observed[p] \in SUBSET Kinds /\ tag[p] # "" /\ saved[p] /\ own[p] \in SUBSET Kinds
      /\ Found(p) /\ Searching(p)
  BY <1>1 DEF SInv, SearchOf, Linked
<1>4. MatchList(p, list)
  BY <1>3 DEF MatchList, Found, Matching, Searching
<1>5. /\ show \in Seq(Entries)
      /\ shown \subseteq Among(list)
      /\ \A k \in 1..Len(list) : list[k] \in shown \/ Outdone(p, shown, list[k])
  <2> HIDE DEF list
  <2> QED BY ONLY <1>4, ShownIsBest DEF show, shown
<1>6. Display(p)' = shown
  BY <1>2 DEF Display
<1>7. Found(p)'
  <2>1. ASSUME NEW n \in 1..Len(show) PROVE Matching(p, show[n])
    <3>1. PICK k \in 1..Len(list) : show[n] = list[k]
      BY <1>5 DEF Among
    <3> QED BY <1>3, <3>1 DEF Found
  <2>2. \A m : Matching(p, m)' <=> Matching(p, m)
    BY <1>1 DEF Matching, Shared, RecordOf
  <2> HIDE DEF Matching
  <2> QED BY <1>2, <1>5, <2>1, <2>2 DEF Found
<1>8. BestShown(p)'
  <2>1. Due(p)' = Due(p)
    BY <1>1 DEF Due, Alike
  <2>2. \A m, n : Closer(p, m, n)' <=> Closer(p, m, n)
    BY <1>1 DEF Closer
  <2>3. \A n : Outdone(p, Display(p), n)' <=> Outdone(p, shown, n)
    <3>1. \A n : {m \in Display(p) : Closer(p, m, n)}' = {m \in shown : Closer(p, m, n)}
      BY <1>6, <2>2
    <3> QED BY <3>1 DEF Outdone
  <2>4. \A i \in Due(p) : \E k \in 1..Len(list) : list[k] = PastEntry(i)
    BY <1>1, <1>3 DEF Searching
  <2>5. ASSUME NEW i \in Due(p)
        PROVE  PastEntry(i) \in Display(p)' \/ Outdone(p, Display(p), PastEntry(i))'
    <3>1. PICK k \in 1..Len(list) : list[k] = PastEntry(i)
      BY <2>4
    <3>2. list[k] \in shown \/ Outdone(p, shown, list[k])
      BY <1>5
    <3> QED BY <1>6, <2>3, <3>1, <3>2 DEF PastEntry
  <2> QED BY <2>1, <2>5 DEF BestShown, PastEntry
<1>9. SearchOf(p)'
  BY <1>1, <1>2, <1>3, <1>7, <1>8 DEF SearchOf
<1> QED BY <1>1, <1>2, <1>9, SearchStep DEF SInv

LEMMA NextSInv == IInv /\ SInv /\ [Next]_vars => SInv'
<1> SUFFICES ASSUME IInv, SInv, [Next]_vars PROVE SInv'
  OBVIOUS
<1>1. ASSUME UNCHANGED <<records, removed, at, tag, observed, id, saved, own, todo, matches>>
      PROVE  SInv'
  <2>1. Stored' /\ TagsStay
    BY <1>1, StoreStays DEF SInv
  <2>2. ASSUME NEW q \in Processes PROVE SearchOf(q)'
    <3>1. SearchOf(q)
      BY DEF SInv
    <3> QED BY <1>1, <2>1, <3>1, SearchStays
  <2> QED BY <1>1, <2>1, <2>2 DEF SInv
<1>2. CASE SwitchContext
  BY <1>1, <1>2 DEF SwitchContext, request, search
<1>3. CASE RemoveRecord
  <2>1. Stored' /\ TagsStay
    BY <1>3, StoreLoses DEF SInv
  <2>2. UNCHANGED <<at, tag, observed, id, saved, own, todo, matches>>
    BY <1>3 DEF RemoveRecord, request, search
  <2>3. ASSUME NEW q \in Processes PROVE SearchOf(q)'
    <3>1. SearchOf(q)
      BY DEF SInv
    <3> QED BY <2>1, <2>2, <3>1, SearchStays
  <2> QED BY <2>1, <2>2, <2>3 DEF SInv
<1>4. ASSUME NEW p \in Processes, Killed(p) PROVE SInv'
  <2>1. /\ Go(p, "killed")
        /\ UNCHANGED <<records, removed, tag, observed, id, saved, own, todo, matches>>
    BY <1>4 DEF Killed, world, request, search
  <2> QED BY <2>1, SearchMovesOn DEF Places, Final, Linked
<1>5. ASSUME NEW p \in Processes, Step(p) PROVE SInv'
  <2>1. CASE Invoke(p) \/ ConnectFails(p)
    <3>1. /\ at[p] \in {"start", "scoped"}
          /\ Go(p, "refused") \/ Go(p, "scoped") \/ Go(p, "failed")
          /\ UNCHANGED <<records, removed, tag, observed, id, saved, own, todo, matches>>
      BY <2>1 DEF Invoke, ConnectFails, world, request, search, Go
    <3> QED BY <3>1, SearchMovesOn DEF Places, Final, Linked
  <2>2. CASE CompleteTarget(p)
    <3>1. /\ at[p] = "connected" /\ Go(p, "ready")
          /\ UNCHANGED <<records, removed, tag, observed, id, saved, own, todo, matches>>
      BY <2>2 DEF CompleteTarget, world, search
    <3> QED BY <3>1, SearchMovesOn DEF Places, Final, Linked
  <2>3. CASE SaveFails(p)
    <3>1. /\ at[p] \in {"built", "open"} /\ Go(p, "saved")
          /\ UNCHANGED <<records, removed, tag, observed, id, saved, own, todo, matches>>
      BY <2>3 DEF SaveFails, world, request, search
    <3> QED BY <3>1, SearchMovesOn DEF Places, Final, Linked
  <2>4. CASE NoWebhook(p) \/ NotifyArrives(p) \/ NotifyFails(p)
    <3>1. /\ at[p] = "saved" /\ Go(p, "notified")
          /\ UNCHANGED <<records, removed, tag, observed, id, saved, own, todo, matches>>
      BY <2>4 DEF NoWebhook, NotifyArrives, NotifyFails, world, request, search
    <3> QED BY <3>1, SearchMovesOn DEF Places, Final, Linked
  <2> QED
    BY <1>5, <2>1, <2>2, <2>3, <2>4, ConnectSearch, InvestigateSearch, WriteSearch,
       GiveUpSearch, UnreadSearch, LoadSearch, ListSearch, CompareSearch, ShowSearch DEF Step
<1>6. CASE UNCHANGED vars
  BY <1>1, <1>6 DEF vars, world, request, search
<1> QED BY <1>2, <1>3, <1>4, <1>5, <1>6 DEF Next

\* The similar incidents shown are others of the same cluster that share a kind
\* (memory.go:99-130), for any store, any number of processes and any removals: the tag of
\* a file that one process writes never changes, and only matched ones are shown.
THEOREM SimilarAreScoped == Spec => []SimilarIsScoped
<1>1. SInv => SimilarIsScoped
  <2> SUFFICES ASSUME SInv, NEW p \in Processes, at[p] = "done",
                      NEW n \in 1..Len(matches[p])
               PROVE  /\ matches[p][n].id # id[p]
                      /\ Shared(matches[p][n].id) \/ RecordOf(matches[p][n].id).tag = tag[p]
                      /\ own[p] \cap matches[p][n].kinds # {}
    BY DEF SimilarIsScoped
  <2>1. Matching(p, matches[p][n])
    BY DEF SInv, SearchOf, Found
  <2> QED BY <2>1 DEF Matching
<1> QED BY InitIInv, NextIInv, InitSInv, NextSInv, <1>1, PTL DEF Spec

\* No past incident that is still there is passed over for one that is less alike, or
\* equally alike and older (memory.go:145-156): the order is total and the best TopN of
\* the list are shown, for every size of the store.
THEOREM BestAreShown == Spec => []SimilarFindsBest
<1>1. SInv => SimilarFindsBest
  <2> SUFFICES ASSUME SInv, NEW p \in Processes, at[p] = "done", saved[p],
                      Shared(id[p]) => own[p] # NoOwn,
                      NEW i \in DOMAIN Past \ removed, Loads(Past[i]), Alike(p, Past[i])
               PROVE  LET shown == {matches[p][n] : n \in 1..Len(matches[p])}
                          entry == [id |-> i, kinds |-> Past[i].kinds]
                      IN entry \in shown \/ Cardinality({m \in shown : Closer(p, m, entry)}) = TopN
    BY DEF SimilarFindsBest
  <2>1. BestShown(p)
    BY DEF SInv, SearchOf, Unread
  <2>2. i \in Due(p)
    BY DEF Due
  <2> QED BY <2>1, <2>2 DEF BestShown, Display, Among, PastEntry, Outdone
<1> QED BY InitIInv, NextIInv, InitSInv, NextSInv, <1>1, PTL DEF Spec

-------------------------------------------------------------------------------
(* The target and the window. *)

\* A nonempty set of places has a first one.
LEMMA FirstExists ==
  ASSUME NEW n \in Nat, NEW S \in SUBSET (1..n), S # {}
  PROVE  firstOf(S) \in S /\ \A j \in S : firstOf(S) <= j
<1>1. S \subseteq Int /\ IsFiniteSet(S)
  <2>1. IsFiniteSet(1..n)
    BY FS_Interval
  <2>2. IsFiniteSet(S)
    BY ONLY <2>1, S \in SUBSET (1..n), FS_Subset
  <2> QED BY <2>2
<1>2. \E i \in S : \A j \in S : i <= j
  BY <1>1, HasSmallest
<1> QED BY <1>2 DEF firstOf

LEMMA FirstNotType ==
  ASSUME NEW T, NEW none, NEW vals \in Seq(T)
  PROVE  FirstNot(none, vals) \in T \cup {none}
<1> DEFINE given == {i \in 1..Len(vals) : vals[i] # none}
<1>1. FirstNot(none, vals) = IF given = {} THEN none ELSE vals[firstOf(given)]
  BY DEF FirstNot, firstOf
<1>2. given \in SUBSET (1..Len(vals)) /\ Len(vals) \in Nat /\ \A i \in 1..Len(vals) : vals[i] \in T
  OBVIOUS
<1> HIDE DEF given
<1>3. CASE given = {}
  BY <1>1, <1>3
<1>4. CASE given # {}
  <2>1. firstOf(given) \in given
    BY <1>2, <1>4, FirstExists
  <2> QED BY <1>1, <1>2, <1>4, <2>1
<1> QED BY <1>3, <1>4

LEMMA SmallestIs ==
  ASSUME NEW S \in SUBSET Int, NEW k \in S, \A j \in S : k <= j
  PROVE  S # {} /\ (CHOOSE i \in S : \A j \in S : i <= j) = k
<1>1. \A i \in S : (\A j \in S : i <= j) => i = k
  OBVIOUS
<1> QED BY <1>1

\* FirstNot of a few values: the first that is not none, else the last.
LEMMA ChoiceOfThree ==
  \A none, a, b, c :
    /\ a # none => FirstNot(none, <<a, b, c>>) = a
    /\ a = none /\ b # none => FirstNot(none, <<a, b, c>>) = b
    /\ a = none /\ b = none => FirstNot(none, <<a, b, c>>) = c
<1> SUFFICES ASSUME NEW none, NEW a, NEW b, NEW c
             PROVE
               /\ a # none => FirstNot(none, <<a, b, c>>) = a
               /\ a = none /\ b # none => FirstNot(none, <<a, b, c>>) = b
               /\ a = none /\ b = none => FirstNot(none, <<a, b, c>>) = c
  OBVIOUS
<1> DEFINE given == {i \in 1..Len(<<a, b, c>>) : <<a, b, c>>[i] # none}
           chosen == CHOOSE i \in given : \A j \in given : i <= j
<1>1. FirstNot(none, <<a, b, c>>) = IF given = {} THEN none ELSE <<a, b, c>>[chosen]
  BY DEF FirstNot
<1>2. given = {i \in {1, 2, 3} : <<a, b, c>>[i] # none}
  OBVIOUS
<1>3. ASSUME a # none PROVE given # {} /\ chosen = 1
  <2>1. 1 \in given /\ given \in SUBSET Int /\ \A j \in given : 1 <= j
    BY <1>2, <1>3
  <2> HIDE DEF given
  <2> QED BY <2>1, SmallestIs
<1>4. ASSUME a = none, b # none PROVE given # {} /\ chosen = 2
  <2>1. 2 \in given /\ given \in SUBSET Int /\ \A j \in given : 2 <= j
    BY <1>2, <1>4
  <2> HIDE DEF given
  <2> QED BY <2>1, SmallestIs
<1>5. ASSUME a = none, b = none, c # none PROVE given # {} /\ chosen = 3
  <2>1. 3 \in given /\ given \in SUBSET Int /\ \A j \in given : 3 <= j
    BY <1>2, <1>5
  <2> HIDE DEF given
  <2> QED BY <2>1, SmallestIs
<1>6. ASSUME a = none, b = none, c = none PROVE given = {}
  BY <1>2, <1>6
<1> HIDE DEF given, chosen
<1> QED BY <1>1, <1>3, <1>4, <1>5, <1>6

LEMMA ChoiceOfFour ==
  \A none, a, b, c, d :
    /\ a # none => FirstNot(none, <<a, b, c, d>>) = a
    /\ a = none /\ b # none => FirstNot(none, <<a, b, c, d>>) = b
    /\ a = none /\ b = none /\ c # none => FirstNot(none, <<a, b, c, d>>) = c
    /\ a = none /\ b = none /\ c = none => FirstNot(none, <<a, b, c, d>>) = d
<1> SUFFICES ASSUME NEW none, NEW a, NEW b, NEW c, NEW d
             PROVE
               /\ a # none => FirstNot(none, <<a, b, c, d>>) = a
               /\ a = none /\ b # none => FirstNot(none, <<a, b, c, d>>) = b
               /\ a = none /\ b = none /\ c # none => FirstNot(none, <<a, b, c, d>>) = c
               /\ a = none /\ b = none /\ c = none => FirstNot(none, <<a, b, c, d>>) = d
  OBVIOUS
<1> DEFINE given == {i \in 1..Len(<<a, b, c, d>>) : <<a, b, c, d>>[i] # none}
           chosen == CHOOSE i \in given : \A j \in given : i <= j
<1>1. FirstNot(none, <<a, b, c, d>>) = IF given = {} THEN none ELSE <<a, b, c, d>>[chosen]
  BY DEF FirstNot
<1>2. given = {i \in {1, 2, 3, 4} : <<a, b, c, d>>[i] # none}
  OBVIOUS
<1>3. ASSUME a # none PROVE given # {} /\ chosen = 1
  <2>1. 1 \in given /\ given \in SUBSET Int /\ \A j \in given : 1 <= j
    BY <1>2, <1>3
  <2> HIDE DEF given
  <2> QED BY <2>1, SmallestIs
<1>4. ASSUME a = none, b # none PROVE given # {} /\ chosen = 2
  <2>1. 2 \in given /\ given \in SUBSET Int /\ \A j \in given : 2 <= j
    BY <1>2, <1>4
  <2> HIDE DEF given
  <2> QED BY <2>1, SmallestIs
<1>5. ASSUME a = none, b = none, c # none PROVE given # {} /\ chosen = 3
  <2>1. 3 \in given /\ given \in SUBSET Int /\ \A j \in given : 3 <= j
    BY <1>2, <1>5
  <2> HIDE DEF given
  <2> QED BY <2>1, SmallestIs
<1>6. ASSUME a = none, b = none, c = none, d # none PROVE given # {} /\ chosen = 4
  <2>1. 4 \in given /\ given \in SUBSET Int /\ \A j \in given : 4 <= j
    BY <1>2, <1>6
  <2> HIDE DEF given
  <2> QED BY <2>1, SmallestIs
<1>7. ASSUME a = none, b = none, c = none, d = none PROVE given = {}
  BY <1>2, <1>7
<1> HIDE DEF given, chosen
<1> QED BY <1>1, <1>3, <1>4, <1>5, <1>6, <1>7

\* What a text may refer to, and what an alert may: never to a node, and to a namespace
\* only by its name.
TextRefs == {x \in Refs : x = NoRef \/ x.kind \in SlashKinds}
AlertRefs ==
  {x \in Refs : x = NoRef \/ (x.kind \notin {"", "node"} /\ (x.kind = "namespace" => x.ns # ""))}

\* Of two strings the one that is given is a string.
LEMMA StringOfTwo == \A a, b \in Strings : FirstNot("", <<a, b>>) \in Strings
<1> SUFFICES ASSUME NEW a \in Strings, NEW b \in Strings PROVE FirstNot("", <<a, b>>) \in Strings
  OBVIOUS
<1>1. a # "" => FirstNot("", <<a, b>>) = a
  BY ONLY FirstOfTwo
<1>2. FirstNot("", <<"", b>>) = b
  BY ONLY SecondOfTwo
<1> QED BY <1>1, <1>2

LEMMA RefType == \A kind, ns, name \in Strings :
  Ref(kind, ns, name) \in Refs /\ Ref(kind, ns, name).kind = kind /\ Ref(kind, ns, name).ns = ns
BY DEF Ref, Refs

LEMMA TextRef == \A kind \in SlashKinds, ns, name \in Strings : Ref(kind, ns, name) \in TextRefs
<1>1. SlashKinds \subseteq Strings
  BY StringsAssumption DEF SlashKinds
<1> QED BY <1>1, RefType DEF TextRefs

LEMMA NoRefType == NoRef \in TextRefs /\ NoRef \in AlertRefs /\ TextRefs \subseteq AlertRefs
<1>1. NoRef \in Refs
  BY StringsAssumption DEF NoRef, Refs
<1>2. \A k \in SlashKinds : k \notin {"", "node", "namespace"}
  BY DEF SlashKinds
<1> QED BY <1>1, <1>2 DEF TextRefs, AlertRefs

LEMMA TextTarget == ASSUME NEW text \in Texts PROVE targetFromTextNoNS(text) \in TextRefs
<1> DEFINE withForm(form) ==
             {i \in 1..Len(text) : text[i].form = form /\ text[i].kind \in SlashKinds}
           spaced == {i \in 1..Len(text) - 1 :
                        text[i].form = "kind" /\ text[i].kind \in SpaceKinds
                        /\ Start(text[i + 1]) # ""}
           bare == {i \in 1..Len(text) : Start(text[i]) # ""}
<1>1. Len(text) \in Nat /\ \A i \in 1..Len(text) : text[i] \in Words
  BY DEF Texts
<1>2. \A w \in Words : w.kind \in Strings /\ w.ns \in Strings /\ w.name \in Strings
                       /\ Start(w) \in Strings
  BY StringsAssumption DEF Words, Start
<1>3. SpaceKinds \subseteq SlashKinds /\ "pod" \in SlashKinds /\ SlashKinds \subseteq Strings
  BY StringsAssumption DEF SpaceKinds, SlashKinds
<1>4. \A kind \in SlashKinds, ns, name \in Strings : Ref(kind, ns, name) \in TextRefs
  BY TextRef
<1>5. \A form : withForm(form) # {} =>
        /\ text[firstOf(withForm(form))] \in Words
        /\ text[firstOf(withForm(form))].kind \in SlashKinds
  <2> SUFFICES ASSUME NEW form, withForm(form) # {}
               PROVE  /\ text[firstOf(withForm(form))] \in Words
                      /\ text[firstOf(withForm(form))].kind \in SlashKinds
    OBVIOUS
  <2> DEFINE S == withForm(form)
  <2>1. S \in SUBSET (1..Len(text)) /\ \A i \in S : text[i].kind \in SlashKinds
    OBVIOUS
  <2> HIDE DEF S
  <2>2. firstOf(S) \in S
    BY <1>1, <2>1, FirstExists DEF S
  <2> QED BY <1>1, <2>1, <2>2 DEF S
<1>6. spaced # {} => /\ text[firstOf(spaced)].kind \in SlashKinds
                     /\ text[firstOf(spaced) + 1] \in Words
  <2> SUFFICES ASSUME spaced # {} PROVE /\ text[firstOf(spaced)].kind \in SlashKinds
                                        /\ text[firstOf(spaced) + 1] \in Words
    OBVIOUS
  <2>1. \A i \in 1..Len(text) - 1 : i \in 1..Len(text) /\ i + 1 \in 1..Len(text)
    <3>1. Len(text) \in Nat
      BY <1>1
    <3> QED BY ONLY <3>1
  <2>2. \A i \in spaced : text[i].kind \in SpaceKinds /\ i \in 1..Len(text) - 1
    BY Zenon
  <2>4. spaced \subseteq 1..Len(text)
    BY <2>1, <2>2, Zenon
  <2> HIDE DEF spaced
  <2>3. firstOf(spaced) \in spaced
    BY <1>1, <2>4, FirstExists
  <2> QED BY <1>1, <1>3, <2>1, <2>2, <2>3
<1>7. bare # {} => text[firstOf(bare)] \in Words
  <2> SUFFICES ASSUME bare # {} PROVE text[firstOf(bare)] \in Words
    OBVIOUS
  <2>1. bare \in SUBSET (1..Len(text))
    OBVIOUS
  <2> HIDE DEF bare
  <2>2. firstOf(bare) \in bare
    BY <1>1, <2>1, FirstExists
  <2> QED BY <1>1, <2>1, <2>2
<1> DEFINE full == text[firstOf(withForm("full"))]
           short == text[firstOf(withForm("short"))]
           kind == text[firstOf(spaced)].kind
           after == Start(text[firstOf(spaced) + 1])
           start == Start(text[firstOf(bare)])
<1>8. targetFromTextNoNS(text) =
        IF withForm("full") # {} THEN Ref(full.kind, full.ns, full.name)
        ELSE IF withForm("short") # {} THEN Ref(short.kind, "", short.name)
        ELSE IF spaced # {} THEN Ref(kind, "", after)
        ELSE IF bare # {} /\ start \in Generated THEN Ref("pod", "", start)
        ELSE NoRef
  BY DEF targetFromTextNoNS
<1>9. /\ withForm("full") # {} => full \in Words /\ full.kind \in SlashKinds
      /\ withForm("short") # {} => short \in Words /\ short.kind \in SlashKinds
      /\ spaced # {} => kind \in SlashKinds /\ after \in Strings
      /\ bare # {} => start \in Strings
  BY <1>2, <1>5, <1>6, <1>7
<1> HIDE DEF withForm, spaced, bare, full, short, kind, after, start
<1>10. "" \in Strings
  BY StringsAssumption
<1> QED BY <1>2, <1>3, <1>4, <1>8, <1>9, <1>10, NoRefType

LEMMA TextTargetPlaced == ASSUME NEW text \in Texts PROVE targetFromText(text) \in TextRefs
<1> DEFINE ref == targetFromTextNoNS(text)
           saying(i) == IF text[i].form = "ns" THEN text[i].ns
                        ELSE IF text[i].form = "flag" /\ i < Len(text) THEN Start(text[i + 1]) ELSE ""
           named == [i \in 1..Len(text) |-> saying(i)]
<1>1. ref \in TextRefs
  BY TextTarget
<1>2. namespaceFromText(text) \in Strings
  <2>1. Len(text) \in Nat /\ \A i \in 1..Len(text) : text[i] \in Words
    BY DEF Texts
  <2>2. \A w \in Words : w.ns \in Strings /\ Start(w) \in Strings
    BY StringsAssumption DEF Words, Start
  <2>3. named \in Seq(Strings)
    <3>1. ASSUME NEW i \in 1..Len(text) PROVE saying(i) \in Strings
      <4>1. text[i].ns \in Strings
        BY <2>1, <2>2
      <4>2. i < Len(text) => Start(text[i + 1]) \in Strings
        <5> HAVE i < Len(text)
        <5>1. i + 1 \in 1..Len(text)
          BY <2>1
        <5> QED BY <2>1, <2>2, <5>1
      <4> QED BY <4>1, <4>2, StringsAssumption
    <3>2. named = [i \in 1..Len(text) |-> saying(i)]
      OBVIOUS
    <3>3. Len(text) \in Nat
      BY <2>1
    <3> HIDE DEF saying, named
    <3> QED BY ONLY <3>1, <3>2, <3>3
  <2>4. namespaceFromText(text) = FirstNot("", named)
    BY DEF namespaceFromText
  <2> HIDE DEF named
  <2>5. FirstNot("", named) \in Strings \cup {""}
    BY ONLY <2>3, FirstNotType
  <2> QED BY <2>4, <2>5, StringsAssumption
<1> HIDE DEF ref
<1>3. targetFromText(text) =
        IF ref = NoRef THEN ref
        ELSE [ref EXCEPT !.ns = FirstNot("", <<ref.ns, namespaceFromText(text)>>)]
  BY DEF targetFromText, ref
<1>4. FirstNot("", <<ref.ns, namespaceFromText(text)>>) \in Strings
  <2>1. ref.ns \in Strings
    BY <1>1 DEF TextRefs, Refs
  <2> QED BY <1>2, <2>1, StringOfTwo
<1>5. \A x \in TextRefs, ns \in Strings : x # NoRef => [x EXCEPT !.ns = ns] \in TextRefs
  BY DEF TextRefs, Refs
<1> QED BY <1>1, <1>3, <1>4, <1>5

LEMMA SingleTarget == ASSUME NEW text \in Texts PROVE singleToken(text) \in TextRefs
<1>1. Len(text) = 1 => text[1] \in Words
  BY DEF Texts
<1>2. \A w \in Words : Ref("pod", "", w.name) \in TextRefs
  <2>1. \A w \in Words : w.name \in Strings
    BY DEF Words
  <2>2. "pod" \in Strings /\ "" \in Strings /\ "pod" \in SlashKinds
    BY StringsAssumption DEF SlashKinds
  <2> QED BY <2>1, <2>2, TextRef
<1> QED BY <1>1, <1>2, NoRefType DEF singleToken

\* What a label says, if it is there.
LEMMA LabelType == ASSUME NEW labels, IsLabels(labels), NEW key PROVE At(labels, key) \in Strings
BY StringsAssumption DEF IsLabels, At

LEMMA LabelsTarget == ASSUME NEW labels, IsLabels(labels) PROVE targetFromLabels(labels) \in AlertRefs
<1> DEFINE ns == FirstNot("", <<At(labels, "kubernetes_namespace_name"), At(labels, "namespace")>>)
           named == {i \in 1..Len(labelKeys) : At(labels, labelKeys[i][1]) # ""}
           hint == labelKeys[firstOf(named)]
<1>1. ns \in Strings
  BY LabelType, StringOfTwo
<1>2. Len(labelKeys) = 8 /\ \A i \in 1..8 :
        labelKeys[i][2] \in {"pod", "deployment", "statefulset"}
  BY DEF labelKeys
<1>3. named # {} => hint[2] \in {"pod", "deployment", "statefulset"} /\ labels[hint[1]] \in Strings
  <2> SUFFICES ASSUME named # {}
               PROVE  hint[2] \in {"pod", "deployment", "statefulset"} /\ labels[hint[1]] \in Strings
    OBVIOUS
  <2>1. named \in SUBSET (1..8) /\ \A i \in named : At(labels, labelKeys[i][1]) # ""
    BY <1>2
  <2> HIDE DEF named
  <2>2. firstOf(named) \in named
    BY <2>1, FirstExists
  <2>3. At(labels, hint[1]) # "" /\ hint[2] \in {"pod", "deployment", "statefulset"}
    BY <1>2, <2>1, <2>2
  <2> QED BY <2>3, LabelType DEF At
<1>4. targetFromLabels(labels) =
        IF named # {} THEN Ref(hint[2], ns, labels[hint[1]])
        ELSE IF ns # "" THEN Ref("namespace", ns, ns) ELSE NoRef
  BY DEF targetFromLabels
<1> HIDE DEF ns, named, hint
<1>5. \A k \in {"pod", "deployment", "statefulset"}, m, n \in Strings : Ref(k, m, n) \in AlertRefs
  BY RefType, StringsAssumption DEF AlertRefs
<1>6. ns # "" => Ref("namespace", ns, ns) \in AlertRefs
  <2>1. /\ Ref("namespace", ns, ns) \in Refs /\ Ref("namespace", ns, ns).kind = "namespace"
        /\ Ref("namespace", ns, ns).ns = ns
    BY <1>1, StringsAssumption DEF Ref, Refs
  <2> QED BY <2>1 DEF AlertRefs
<1> QED BY <1>1, <1>3, <1>4, <1>5, <1>6, NoRefType

LEMMA DetailsTarget == ASSUME NEW details, IsLabels(details) PROVE detailsTarget(details) \in AlertRefs
<1> DEFINE podKeys == <<"pod", "pod_name", "kubernetes_pod_name">>
           loadKeys == <<"deployment", "workload", "statefulset">>
           pod(i) == At(details, podKeys[4 - i])
           load(i) == At(details, loadKeys[i])
           pods == {i \in 1..3 : pod(i) # ""}
           loads == {i \in 1..3 : load(i) # ""}
<1>1. \A i : pod(i) \in Strings /\ load(i) \in Strings
  BY LabelType
<1>2. \A i \in 1..3 : loadKeys[i] \in {"deployment", "workload", "statefulset"}
  OBVIOUS
<1>3. detailsTarget(details) =
        IF pods # {} THEN Ref("pod", "", pod(firstOf(pods)))
        ELSE IF loads # {} THEN Ref(loadKeys[firstOf(loads)], "", load(firstOf(loads))) ELSE NoRef
  BY DEF detailsTarget
<1> HIDE DEF pod, load
<1>4. pods # {} => firstOf(pods) \in pods
  <2>1. pods \in SUBSET (1..3)
    OBVIOUS
  <2> HIDE DEF pods
  <2> QED BY <2>1, FirstExists
<1>5. loads # {} => firstOf(loads) \in 1..3
  <2>1. loads \in SUBSET (1..3)
    OBVIOUS
  <2> HIDE DEF loads
  <2> QED BY <2>1, FirstExists
<1>6. \A k \in {"pod", "deployment", "workload", "statefulset"}, n \in Strings :
        Ref(k, "", n) \in AlertRefs
  BY RefType, StringsAssumption DEF AlertRefs
<1> HIDE DEF pods, loads, loadKeys
<1> QED BY <1>1, <1>2, <1>3, <1>5, <1>6, NoRefType DEF loadKeys

\* The first target of some is a target or none.
LEMMA FirstTargetType ==
  ASSUME NEW refs \in Seq(AlertRefs) PROVE FirstTarget(refs) \in AlertRefs
<1>1. FirstNot(NoRef, refs) \in AlertRefs \cup {NoRef}
  BY FirstNotType
<1> QED BY <1>1, NoRefType DEF FirstTarget

\* What an alert refers to lives in a namespace, or is one that is named.
LEMMA ParseTarget == ASSUME NEW p, IsBody(p) PROVE Parse(p).target \in AlertRefs
<1>1. \A text \in Texts : targetFromText(text) \in AlertRefs /\ singleToken(text) \in AlertRefs
  BY TextTargetPlaced, SingleTarget, NoRefType
<1>2. CASE p.provider = "pagerduty"
  <2>1. IsLabels(p.details) /\ {p.title, p.service, p.summary, p.subject} \subseteq Texts
    BY <1>2 DEF IsBody
  <2> DEFINE details == IF p.title = <<>> THEN detailsTarget(p.details) ELSE NoRef
             refs == <<details, targetFromText(p.title), targetFromText(p.service),
                       targetFromText(p.summary), targetFromText(p.subject)>>
  <2>2. details \in AlertRefs
    BY <2>1, DetailsTarget, NoRefType
  <2> HIDE DEF details
  <2>3. refs \in Seq(AlertRefs)
    BY <1>1, <2>1, <2>2
  <2>4. parsePagerDuty(p) = FirstTarget(refs)
    BY DEF parsePagerDuty, details
  <2> HIDE DEF refs
  <2>5. Parse(p).target = parsePagerDuty(p)
    BY <1>2 DEF Parse
  <2> QED BY <2>3, <2>4, <2>5, FirstTargetType
<1>3. CASE p.provider = "grafana"
  <2> DEFINE sets == IF p.alerts # <<>> THEN p.alerts ELSE p.matches
             texts == IF p.alerts # <<>> THEN <<p.title, p.message>>
                      ELSE <<p.title, p.message, p.rule>>
             labelled == [i \in 1..Len(sets) |-> targetFromLabels(sets[i])]
             written == [i \in 1..Len(texts) |-> targetFromText(texts[i])]
  <2>1. /\ {p.title, p.message, p.rule} \subseteq Texts
        /\ Len(sets) \in Nat /\ \A i \in 1..Len(sets) : IsLabels(sets[i])
    BY <1>3 DEF IsBody
  <2>2. Len(texts) \in Nat /\ \A i \in 1..Len(texts) : texts[i] \in Texts
    BY <2>1
  <2>3. parseGrafana(p) \in {NoRef, FirstTarget(labelled \o written)}
    BY DEF parseGrafana
  <2> HIDE DEF sets, texts
  <2>4. labelled \in Seq(AlertRefs)
    BY <2>1, LabelsTarget
  <2>5. written \in Seq(AlertRefs)
    BY <1>1, <2>2
  <2> HIDE DEF labelled, written
  <2>6. labelled \o written \in Seq(AlertRefs)
    BY <2>4, <2>5
  <2>7. Parse(p).target = parseGrafana(p)
    BY <1>3 DEF Parse
  <2> QED BY <2>3, <2>6, <2>7, FirstTargetType, NoRefType
<1>4. CASE p.provider = "slack"
  <2> DEFINE refs == <<targetFromText(p.text), singleToken(p.text)>>
  <2>1. refs \in Seq(AlertRefs)
    BY <1>1, <1>4 DEF IsBody
  <2>2. parseSlack(p) = FirstTarget(refs)
    BY DEF parseSlack
  <2> HIDE DEF refs
  <2>3. Parse(p).target = parseSlack(p)
    BY <1>4 DEF Parse
  <2> QED BY <2>1, <2>2, <2>3, FirstTargetType
<1> QED BY <1>2, <1>3, <1>4 DEF IsBody

\* The settings of a request are settings.
LEMMA EffectiveType == ASSUME NEW r, IsRequest(r) PROVE Effective(r) \in SettingsSet
<1>1. r.file.top \in SettingsSet /\ \A c \in DOMAIN r.file.clusters : r.file.clusters[c] \in SettingsSet
  BY DEF IsRequest
<1>2. \A s, q \in SettingsSet : merge(s, q) \in SettingsSet
  <2> SUFFICES ASSUME NEW s \in SettingsSet, NEW q \in SettingsSet PROVE merge(s, q) \in SettingsSet
    OBVIOUS
  <2>1. /\ {s.context, s.namespace, s.clusterId, s.webhook} \subseteq Strings /\ s.since \in Durations
        /\ {q.context, q.namespace, q.clusterId, q.webhook} \subseteq Strings /\ q.since \in Durations
    BY DEF SettingsSet
  <2>2. FirstNot(NoDuration, <<q.since, s.since>>) \in Durations
    <3>1. \A none, a, b \in Durations : FirstNot(none, <<a, b>>) \in Durations
      <4>1. \A none, a, b : FirstNot(none, <<a, b>>) \in {a, b}
        <5> SUFFICES ASSUME NEW none, NEW a, NEW b PROVE FirstNot(none, <<a, b>>) \in {a, b}
          OBVIOUS
        <5>1. a # none => FirstNot(none, <<a, b>>) = a
          BY ONLY FirstOfTwo
        <5>2. FirstNot(none, <<none, b>>) = b
          BY ONLY SecondOfTwo
        <5> QED BY ONLY <5>1, <5>2
      <4> SUFFICES ASSUME NEW none \in Durations, NEW a \in Durations, NEW b \in Durations
                   PROVE  FirstNot(none, <<a, b>>) \in Durations
        OBVIOUS
      <4>2. FirstNot(none, <<a, b>>) \in {a, b}
        BY ONLY <4>1
      <4> QED BY ONLY <4>2
    <3>2. NoDuration \in Durations
      BY DEF NoDuration, Duration, Durations
    <3> QED BY <2>1, <3>1, <3>2
  <2> QED BY <2>1, <2>2, StringOfTwo DEF merge, SettingsSet
<1> QED BY <1>1, <1>2 DEF Effective, ForContext

\* The window: a valid duration is none only if it is NoDuration.
LEMMA WindowType ==
  \A t \in Durations : /\ ParseDuration(t) = 0 <=> t = NoDuration
                       /\ ParseDuration(t) \in Nat \cup {Invalid}
<1> SUFFICES ASSUME NEW t \in Durations
             PROVE  /\ ParseDuration(t) = 0 <=> t = NoDuration
                    /\ ParseDuration(t) \in Nat \cup {Invalid}
  OBVIOUS
<1>1. t = [d |-> t.d, h |-> t.h, m |-> t.m, s |-> t.s]
  BY DEF Durations
<1>2. t.d \in Nat /\ t.h \in Nat /\ t.m \in Nat /\ t.s \in Nat
  BY DEF Durations
<1>3. t = NoDuration <=> t.d = 0 /\ t.h = 0 /\ t.m = 0 /\ t.s = 0
  BY <1>1 DEF NoDuration, Duration
<1>4. ParseDuration(t) = IF t.d > 0 THEN Invalid ELSE 3600 * t.h + 60 * t.m + t.s
  BY DEF ParseDuration
<1> DEFINE days == t.d
           hours == t.h
           minutes == t.m
           seconds == t.s
           total == 3600 * hours + 60 * minutes + seconds
<1>5. (total = 0 <=> hours = 0 /\ minutes = 0 /\ seconds = 0) /\ total \in Nat
  <2> HIDE DEF hours, minutes, seconds
  <2>1. hours \in Nat /\ minutes \in Nat /\ seconds \in Nat
    BY <1>2 DEF hours, minutes, seconds
  <2> QED BY ONLY <2>1
<1> HIDE DEF total
<1>6. ParseDuration(t) = IF t.d > 0 THEN Invalid ELSE total
  BY <1>4 DEF total
<1> QED BY <1>2, <1>3, <1>5, <1>6 DEF Invalid

\* The window of a scope that is not refused is the one meant.
LEMMA WindowMeant ==
  ASSUME NEW r, IsRequest(r), ~ Refused(ScopeOf(r)) PROVE ScopeOf(r).window = MeantWindow(r)
<1> DEFINE flag == ParseDuration(r.since)
           given == ParseDuration(Effective(r).since)
           file == IF given = Invalid THEN 0 ELSE given
           seed == Parse(r.payload).window
<1>1. r.since \in Durations /\ Effective(r).since \in Durations
  BY EffectiveType DEF IsRequest, SettingsSet
<1>2. CASE r.door = "alert"
  <2>1. ScopeOf(r).window = FirstNot(0, <<flag, seed, file, DefaultWindow>>)
    BY <1>2 DEF ScopeOf, AlertScope
  <2>2. MeantWindow(r) = FirstNot(0, <<flag, seed, file, DefaultWindow>>)
    BY <1>2 DEF MeantWindow
  <2> QED BY <2>1, <2>2
<1>3. CASE r.door # "alert"
  <2>1. ScopeOf(r).window = IF r.since # NoDuration THEN flag
                            ELSE IF Effective(r).since # NoDuration THEN given ELSE DefaultWindow
    BY <1>3 DEF ScopeOf, InvestigateScope
  <2>2. ScopeOf(r).window # Invalid
    BY DEF Refused
  <2>3. MeantWindow(r) = FirstNot(0, <<flag, 0, file, DefaultWindow>>)
    BY <1>3 DEF MeantWindow
  <2>4. flag = 0 <=> r.since = NoDuration
    BY <1>1, WindowType
  <2>5. given = 0 <=> Effective(r).since = NoDuration
    BY <1>1, WindowType
  <2> HIDE DEF flag, given, file
  <2>6. FirstNot(0, <<flag, 0, file, DefaultWindow>>) =
          IF flag # 0 THEN flag ELSE IF file # 0 THEN file ELSE DefaultWindow
    BY ONLY ChoiceOfFour
  <2> QED BY <2>1, <2>2, <2>3, <2>4, <2>5, <2>6 DEF file, Invalid
<1> QED BY <1>2, <1>3

\* The namespace a request means, when the context names space.
Meaning(r, space) ==
  IF GivenNamespace(r) # "" \/ Named(r).kind \in {"namespace", "node"} THEN GivenNamespace(r)
  ELSE FirstNot("", <<space, "default">>)

\* What CompleteTarget makes of a target, when the settings name the namespace st.
Completed(ref, st, space) ==
  IF Unplaced(ref) THEN [ref EXCEPT !.ns = FirstNot("", <<st, space, "default">>)] ELSE ref

\* The choices among names, in the form the proofs below use.
LEMMA NameOfTwo == \A a, b : FirstNot("", <<a, b>>) = IF a # "" THEN a ELSE b
<1>1. \A a, b : a # "" => FirstNot("", <<a, b>>) = a
  BY ONLY FirstOfTwo
<1>2. \A b : FirstNot("", <<"", b>>) = b
  BY ONLY SecondOfTwo
<1> QED BY ONLY <1>1, <1>2

LEMMA NameOfThree ==
  \A a, b, c : FirstNot("", <<a, b, c>>) =
    IF a # "" THEN a ELSE IF b # "" THEN b ELSE c
<1> DEFINE none == ""
<1> HIDE DEF none
<1>1. \A a, b, c : FirstNot(none, <<a, b, c>>) =
        IF a # none THEN a ELSE IF b # none THEN b ELSE c
  <2> SUFFICES ASSUME NEW a, NEW b, NEW c
               PROVE  FirstNot(none, <<a, b, c>>) =
                        IF a # none THEN a ELSE IF b # none THEN b ELSE c
    OBVIOUS
  <2> QED BY ONLY ChoiceOfThree
<1> QED BY ONLY <1>1 DEF none
\* What a scope is: a target, or none, and a window.
IsScope(s) == s = [target |-> s.target, window |-> s.window] /\ s.target \in Refs

\* The arguments that are references: of one, two or three parts, with a kind and a name.
Readable(parts) ==
  \/ Len(parts) = 1 /\ parts[1] # ""
  \/ Len(parts) = 2 /\ parts[1] # "" /\ parts[2] # ""
  \/ Len(parts) = 3 /\ parts[1] # "" /\ parts[3] # ""

\* What a reference is parsed to: only one of three parts has a namespace of its own.
LEMMA ParsedReference ==
  ASSUME NEW parts \in Seq(Strings), NEW ns \in Strings
  PROVE  LET ref == parseTarget(parts, ns)
         IN /\ ref \in Refs
            /\ parts = <<>> => ref = Ref("namespace", ns, ns)
            /\ parts # <<>> /\ ~ Readable(parts) => ref = NoRef
            /\ Readable(parts) /\ Len(parts) = 1 => ref = Ref("pod", ns, parts[1])
            /\ Readable(parts) /\ Len(parts) = 2 => ref = Ref(parts[1], ns, parts[2])
            /\ Readable(parts) /\ Len(parts) = 3 => ref = Ref(parts[1], parts[2], parts[3])
<1> DEFINE size == Len(parts)
<1>1. size \in Nat /\ \A i \in 1..size : parts[i] \in Strings
  OBVIOUS
<1>2. {"pod", "namespace"} \subseteq Strings /\ NoRef \in Refs
  BY StringsAssumption, NoRefType DEF TextRefs
<1>3. CASE parts = <<>>
  <2>1. parseTarget(parts, ns) = Ref("namespace", ns, ns)
    BY <1>3 DEF parseTarget
  <2>2. Len(parts) = 0
    BY <1>3
  <2> QED BY <1>2, <1>3, <2>1, <2>2, RefType DEF Readable
<1>4. CASE parts # <<>>
  <2>1. parseTarget(parts, ns) = parseResourceRef(parts, ns)
    BY <1>4 DEF parseTarget
  <2>2. CASE size = 1
    <3> DEFINE x == Ref("pod", ns, parts[1])
    <3>1. parts[1] \in Strings
      BY <1>1, <2>2
    <3>2. x \in Refs /\ x.kind = "pod" /\ x.name = parts[1]
      BY <1>2, <3>1 DEF Ref, Refs
    <3>3. parseResourceRef(parts, ns) = IF x.kind = "" \/ x.name = "" THEN NoRef ELSE x
      BY <2>2 DEF parseResourceRef
    <3> HIDE DEF x
    <3>4. parseResourceRef(parts, ns) = IF parts[1] = "" THEN NoRef ELSE x
      BY <3>2, <3>3
    <3>5. Readable(parts) <=> parts[1] # ""
      BY <2>2 DEF Readable
    <3> HIDE DEF size
    <3>6. parseTarget(parts, ns) \in Refs
          /\ parseTarget(parts, ns) = IF Readable(parts) THEN x ELSE NoRef
      BY <1>2, <2>1, <3>2, <3>4, <3>5
    <3>7. Len(parts) = 1
      BY <2>2 DEF size
    <3> QED BY <1>4, <3>6, <3>7 DEF x
  <2>3. CASE size = 2
    <3> DEFINE x == Ref(parts[1], ns, parts[2])
    <3>1. parts[1] \in Strings /\ parts[2] \in Strings
      BY <1>1, <2>3
    <3>2. x \in Refs /\ x.kind = parts[1] /\ x.name = parts[2]
      BY <3>1 DEF Ref, Refs
    <3>3. parseResourceRef(parts, ns) = IF x.kind = "" \/ x.name = "" THEN NoRef ELSE x
      BY <2>3 DEF parseResourceRef
    <3> HIDE DEF x
    <3>5. Readable(parts) <=> parts[1] # "" /\ parts[2] # ""
      BY <2>3 DEF Readable
    <3> HIDE DEF size
    <3>6. parseTarget(parts, ns) \in Refs
          /\ parseTarget(parts, ns) = IF Readable(parts) THEN x ELSE NoRef
      BY <1>2, <2>1, <3>2, <3>3, <3>5
    <3>7. Len(parts) = 2
      BY <2>3 DEF size
    <3> QED BY <1>4, <3>6, <3>7 DEF x
  <2>4. CASE size = 3
    <3> DEFINE x == Ref(parts[1], parts[2], parts[3])
    <3>1. parts[1] \in Strings /\ parts[2] \in Strings /\ parts[3] \in Strings
      BY <1>1, <2>4
    <3>2. x \in Refs /\ x.kind = parts[1] /\ x.name = parts[3]
      BY <3>1 DEF Ref, Refs
    <3>3. parseResourceRef(parts, ns) = IF x.kind = "" \/ x.name = "" THEN NoRef ELSE x
      BY <2>4 DEF parseResourceRef
    <3> HIDE DEF x
    <3>5. Readable(parts) <=> parts[1] # "" /\ parts[3] # ""
      BY <2>4 DEF Readable
    <3> HIDE DEF size
    <3>6. parseTarget(parts, ns) \in Refs
          /\ parseTarget(parts, ns) = IF Readable(parts) THEN x ELSE NoRef
      BY <1>2, <2>1, <3>2, <3>3, <3>5
    <3>7. Len(parts) = 3
      BY <2>4 DEF size
    <3> QED BY <1>4, <3>6, <3>7 DEF x
  <2>5. CASE size \notin {1, 2, 3}
    <3>1. parseResourceRef(parts, ns) = NoRef
      BY <2>5 DEF parseResourceRef, NoRef
    <3> QED BY <1>2, <1>4, <2>1, <2>5, <3>1 DEF Readable
  <2> QED BY <2>2, <2>3, <2>4, <2>5
<1> QED BY <1>3, <1>4

\* Every request has a scope.
LEMMA ScopeType == ASSUME NEW r, IsRequest(r) PROVE IsScope(ScopeOf(r))
<1>1. Effective(r).namespace \in Strings /\ r.namespace \in Strings
  BY EffectiveType DEF IsRequest, SettingsSet
<1>2. CASE r.door = "alert"
  <2> DEFINE target == Parse(r.payload).target
             ns == FirstNot("", <<target.ns, r.namespace>>)
  <2>1. target \in AlertRefs
    BY <1>2, ParseTarget DEF IsRequest
  <2>2. target \in Refs /\ NoRef \in Refs
    BY <2>1, NoRefType DEF AlertRefs, TextRefs
  <2>3. ns \in Strings
    BY <1>1, <2>2, StringOfTwo DEF Refs
  <2>4. ScopeOf(r).target = (IF target = NoRef THEN NoRef ELSE [target EXCEPT !.ns = ns])
        /\ ScopeOf(r) = [target |-> ScopeOf(r).target, window |-> ScopeOf(r).window]
    BY <1>2 DEF ScopeOf, AlertScope
  <2> HIDE DEF target, ns
  <2> QED BY <2>2, <2>3, <2>4 DEF IsScope, Refs
<1>3. CASE r.door # "alert"
  <2> DEFINE ns == FirstNot("", <<r.namespace, Effective(r).namespace>>)
  <2>1. ns \in Strings
    BY <1>1, StringOfTwo
  <2>2. ScopeOf(r).target = parseTarget(r.arg, ns)
        /\ ScopeOf(r) = [target |-> ScopeOf(r).target, window |-> ScopeOf(r).window]
    BY <1>3 DEF ScopeOf, InvestigateScope
  <2> HIDE DEF ns
  <2>3. parseTarget(r.arg, ns) \in Refs
    BY <2>1, ParsedReference DEF IsRequest
  <2> QED BY <2>2, <2>3 DEF IsScope
<1> QED BY <1>2, <1>3

\* An alert: the namespace of the payload, --namespace, the settings, the context.
LEMMA AlertMeant ==
  ASSUME NEW r, IsRequest(r), r.door = "alert", ~ Refused(ScopeOf(r)), NEW space
  PROVE  LET ref == Completed(ScopeOf(r).target, Effective(r).namespace, space)
         IN ref.kind = Named(r).kind /\ ref.ns = Meaning(r, space)
<1> DEFINE none == ""
           target == Parse(r.payload).target
           st == Effective(r).namespace
           flag == r.namespace
           ns == FirstNot("", <<target.ns, flag>>)
           given == [target EXCEPT !.ns = ns]
<1>1. Named(r) = target
  BY DEF Named
<1>2. ScopeOf(r).target = IF target = NoRef THEN NoRef ELSE given
  BY DEF ScopeOf, AlertScope
<1>3. ScopeOf(r).target # NoRef
  BY DEF Refused
<1>4. target # NoRef /\ ScopeOf(r).target = given
  BY <1>2, <1>3
<1>5. /\ target \in Refs /\ target.kind \notin {"", "node"}
      /\ target.kind = "namespace" => target.ns # ""
  BY <1>4, ParseTarget DEF IsRequest, AlertRefs
<1>6. ns = IF target.ns # "" THEN target.ns ELSE flag
  BY ONLY NameOfTwo
<1> DEFINE placeless == target.kind \in {"namespace", "node"}
           three == FirstNot("", <<target.ns, flag, st>>)
           rest == FirstNot("", <<space, "default">>)
           last == FirstNot("", <<st, space, "default">>)
<1>7. Meaning(r, space) = IF three # "" \/ placeless THEN three ELSE rest
  BY <1>1 DEF Meaning, GivenNamespace
<1>14. three = IF target.ns # "" THEN target.ns ELSE IF flag # "" THEN flag ELSE st
  BY ONLY NameOfThree
<1>16. rest = IF space # "" THEN space ELSE "default"
  BY ONLY NameOfTwo
<1>8. last = IF st # "" THEN st ELSE IF space # "" THEN space ELSE "default"
  BY ONLY NameOfThree
<1>9. given.kind = target.kind /\ given.ns = ns /\ given \in [kind : {target.kind}, ns : {ns}, name : {target.name}]
  BY <1>5 DEF Refs
<1>10. Completed(given, st, space) = IF Unplaced(given) THEN [given EXCEPT !.ns = last] ELSE given
  BY DEF Completed
<1>11. Unplaced(given) <=> ns = "" /\ ~ placeless
  BY <1>5, <1>9 DEF Unplaced
<1> HIDE DEF given, ns, target, st, flag, last, three, rest
<1>12. Completed(given, st, space).kind = target.kind
  BY <1>9, <1>10
<1>13. Completed(given, st, space).ns = IF ns = "" /\ ~ placeless THEN last ELSE ns
  BY <1>9, <1>10, <1>11
<1>15. Completed(given, st, space).ns = IF three # "" \/ placeless THEN three ELSE rest
  <2>1. placeless => target.ns # ""
    BY <1>5
  <2> HIDE DEF placeless
  <2> QED BY <1>6, <1>8, <1>13, <1>14, <1>16, <2>1
<1> QED BY <1>1, <1>4, <1>7, <1>12, <1>15 DEF st

\* A command line: the namespace of the reference, --namespace, the settings, the context.
LEMMA ArgumentMeant ==
  ASSUME NEW r, IsRequest(r), r.door # "alert", ~ Refused(ScopeOf(r)), NEW space
  PROVE  LET ref == Completed(ScopeOf(r).target, Effective(r).namespace, space)
         IN ref.kind = Named(r).kind /\ (WellFormed(r) => ref.ns = Meaning(r, space))
<1> DEFINE parts == r.arg
           st == Effective(r).namespace
           flag == r.namespace
           ns == FirstNot("", <<flag, st>>)
           target == parseTarget(parts, ns)
           none == ""
           named == parseTarget(parts, none)
           last == FirstNot("", <<st, space, "default">>)
           placeless == named.kind \in {"namespace", "node"}
           first == named.ns
           three == FirstNot("", <<first, flag, st>>)
           rest == FirstNot("", <<space, "default">>)
<1>1. /\ parts \in Seq(Strings) /\ flag \in Strings /\ st \in Strings /\ none \in Strings
      /\ r.door = "investigate"
  BY EffectiveType, StringsAssumption DEF IsRequest, SettingsSet
<1>2. ns \in Strings /\ ns = IF flag # "" THEN flag ELSE st
  <2>1. ns \in Strings
    BY <1>1, StringOfTwo
  <2> QED BY <2>1, NameOfTwo
<1>3. ScopeOf(r).target = target /\ target # NoRef
  BY <1>1 DEF ScopeOf, InvestigateScope, Refused
<1>4. last = IF st # "" THEN st ELSE IF space # "" THEN space ELSE "default"
  BY ONLY NameOfThree
<1>5. Named(r) = named
  BY <1>1 DEF Named
<1>6. Meaning(r, space) = IF three # "" \/ placeless THEN three ELSE rest
  BY <1>1, <1>5 DEF Meaning, GivenNamespace
<1>61. WellFormed(r) => \A i \in 1..Len(parts) : parts[i] # ""
  BY <1>1 DEF WellFormed
<1>7. three = IF first # "" THEN first ELSE IF flag # "" THEN flag ELSE st
  BY ONLY NameOfThree
<1>71. rest = IF space # "" THEN space ELSE "default"
  BY ONLY NameOfTwo
<1> HIDE DEF none, parts, st, flag, ns, first, last, three, rest
\* The target and what is named differ in the namespace only.
<1>8. /\ target \in Refs /\ named \in Refs /\ target.kind = named.kind
      /\ Len(parts) = 3 => target.ns = named.ns /\ named.ns = parts[2]
      /\ Len(parts) # 3 => target.ns = ns /\ named.ns = none
      /\ parts = <<>> => target.kind = "namespace"
  <2>1. target \in Refs /\ named \in Refs
    BY <1>1, <1>2, ParsedReference
  <2>2. CASE parts = <<>>
    <3>1. target = Ref("namespace", ns, ns) /\ named = Ref("namespace", none, none)
      BY <1>1, <1>2, <2>2, ParsedReference
    <3>2. Len(parts) = 0
      BY <2>2
    <3>3. target.kind = "namespace" /\ target.ns = ns /\ named.kind = "namespace" /\ named.ns = none
      BY <3>1 DEF Ref
    <3> QED BY <2>1, <3>2, <3>3
  <2>3. CASE parts # <<>>
    <3>1. Readable(parts)
      BY <1>1, <1>2, <1>3, <2>3, ParsedReference
    <3>2. CASE Len(parts) = 1
      <4>1. target = Ref("pod", ns, parts[1]) /\ named = Ref("pod", none, parts[1])
        BY <1>1, <1>2, <3>1, <3>2, ParsedReference
      <4>2. target.kind = "pod" /\ target.ns = ns /\ named.kind = "pod" /\ named.ns = none
        BY <4>1 DEF Ref
      <4> QED BY <2>1, <2>3, <3>2, <4>2
    <3>3. CASE Len(parts) = 2
      <4>1. target = Ref(parts[1], ns, parts[2]) /\ named = Ref(parts[1], none, parts[2])
        BY <1>1, <1>2, <3>1, <3>3, ParsedReference
      <4>2. target.kind = parts[1] /\ target.ns = ns /\ named.kind = parts[1] /\ named.ns = none
        BY <4>1 DEF Ref
      <4> QED BY <2>1, <2>3, <3>3, <4>2
    <3>4. CASE Len(parts) = 3
      <4>1. target = Ref(parts[1], parts[2], parts[3]) /\ named = Ref(parts[1], parts[2], parts[3])
        BY <1>1, <1>2, <3>1, <3>4, ParsedReference
      <4>2. target = named /\ named.ns = parts[2]
        BY <4>1 DEF Ref
      <4> QED BY <2>1, <2>3, <3>4, <4>2
    <3> QED BY <3>1, <3>2, <3>3, <3>4 DEF Readable
  <2> QED BY <2>2, <2>3
<1>9. Completed(target, st, space) = IF Unplaced(target) THEN [target EXCEPT !.ns = last] ELSE target
  BY DEF Completed, last
<1>10. Unplaced(target) <=> target.ns = none /\ ~ placeless
  BY <1>8 DEF Unplaced, none
<1> HIDE DEF target, named
<1>11. /\ Completed(target, st, space).kind = named.kind
       /\ Completed(target, st, space).ns =
            IF target.ns = none /\ ~ placeless THEN last ELSE target.ns
  BY <1>8, <1>9, <1>10 DEF Refs
<1>12. ASSUME WellFormed(r)
       PROVE  Completed(target, st, space).ns = IF three # "" \/ placeless THEN three ELSE rest
  <2>1. Len(parts) = 3 => first # ""
    <3> HAVE Len(parts) = 3
    <3>1. 2 \in 1..Len(parts)
      OBVIOUS
    <3> QED BY <1>8, <1>12, <1>61, <3>1 DEF first
  <2>2. target.ns = IF Len(parts) = 3 THEN first ELSE ns
    BY <1>8 DEF first
  <2>3. Len(parts) # 3 => first = ""
    BY <1>8 DEF first, none
  <2> HIDE DEF placeless
  <2> QED BY <1>2, <1>4, <1>7, <1>71, <1>11, <2>1, <2>2, <2>3 DEF none
<1> QED BY <1>3, <1>5, <1>6, <1>11, <1>12 DEF st

-------------------------------------------------------------------------------
(* From the request to the investigation. *)

\* Until the target is completed the scope is the one the request asks for, and from the
\* first step on it is not refused.
Asked(p) ==
  /\ at[p] \in {"start", "scoped", "connected"} => scope[p] = ScopeOf(asked[p])
  /\ at[p] \in {"scoped", "connected"} => ~ Refused(scope[p])

AInv == \A p \in Processes : Asked(p)

LEMMA InitAInv == Init => AInv
BY DEF Init, AInv, Asked

\* Steps that leave the scopes and requests alone, and take no process to an early place.
LEMMA AskedStays ==
  ASSUME IInv, AInv, UNCHANGED <<asked, scope>>, NEW p \in Processes,
         at' = at \/ \E place : Go(p, place) /\ place \notin {"start", "scoped", "connected"}
  PROVE  AInv'
<1>1. CASE at' = at
  BY <1>1 DEF AInv, Asked
<1>2. CASE \E place : Go(p, place) /\ place \notin {"start", "scoped", "connected"}
  <2>1. /\ at'[p] \notin {"start", "scoped", "connected"}
        /\ \A q \in Processes \ {p} : at'[q] = at[q]
    BY <1>2 DEF Go, IInv, Shape
  <2> QED BY <2>1 DEF AInv, Asked
<1> QED BY <1>1, <1>2

LEMMA NextAInv == IInv /\ AInv /\ [Next]_vars => AInv'
<1> SUFFICES ASSUME IInv, AInv, [Next]_vars PROVE AInv'
  OBVIOUS
<1>1. CASE SwitchContext \/ RemoveRecord \/ UNCHANGED vars
  <2>1. UNCHANGED <<at, asked, scope>>
    BY <1>1 DEF SwitchContext, RemoveRecord, vars, request
  <2> QED BY <2>1 DEF AInv, Asked
<1>2. ASSUME NEW p \in Processes, Killed(p) PROVE AInv'
  <2>1. Go(p, "killed") /\ UNCHANGED <<asked, scope>>
    BY <1>2 DEF Killed, request
  <2> QED BY <2>1, AskedStays
<1>3. ASSUME NEW p \in Processes, Step(p) PROVE AInv'
  <2>1. CASE Invoke(p)
    <3>1. /\ at[p] = "start" /\ at' = [at EXCEPT ![p] = IF Refused(scope[p]) THEN "refused" ELSE "scoped"]
          /\ UNCHANGED <<asked, scope>>
      BY <2>1 DEF Invoke, Go, request
    <3>2. /\ at'[p] = IF Refused(scope[p]) THEN "refused" ELSE "scoped"
          /\ \A q \in Processes \ {p} : at'[q] = at[q]
      BY <3>1 DEF IInv, Shape
    <3> QED BY <3>1, <3>2 DEF AInv, Asked
  <2>2. CASE Connect(p)
    <3>1. at[p] = "scoped" /\ Go(p, "connected") /\ UNCHANGED <<asked, scope>>
      BY <2>2 DEF Connect
    <3>2. at'[p] = "connected" /\ \A q \in Processes \ {p} : at'[q] = at[q]
      BY <3>1 DEF Go, IInv, Shape
    <3> QED BY <3>1, <3>2 DEF AInv, Asked
  <2>3. CASE CompleteTarget(p)
    <3>1. /\ at'[p] = "ready" /\ asked' = asked
          /\ \A q \in Processes \ {p} : at'[q] = at[q] /\ scope'[q] = scope[q]
      BY <2>3 DEF CompleteTarget, Go, IInv, Shape
    <3> QED BY <3>1 DEF AInv, Asked
  <2>4. CASE ConnectFails(p) \/ Investigate(p) \/ CreateRecord(p) \/ WriteSome(p) \/ WriteRest(p)
    <3>1. /\ UNCHANGED <<asked, scope>>
          /\ at' = at \/ Go(p, "failed") \/ Go(p, "built") \/ Go(p, "open") \/ Go(p, "saved")
      BY <2>4 DEF ConnectFails, Investigate, CreateRecord, WriteSome, WriteRest, request
    <3> QED BY <3>1, AskedStays
  <2>5. CASE SaveFails(p) \/ NoWebhook(p) \/ NotifyArrives(p) \/ NotifyFails(p)
    <3>1. UNCHANGED <<asked, scope>> /\ (Go(p, "saved") \/ Go(p, "notified"))
      BY <2>5 DEF SaveFails, NoWebhook, NotifyArrives, NotifyFails, request
    <3> QED BY <3>1, AskedStays
  <2>6. CASE NoRecordToCompare(p) \/ OwnUnreadable(p) \/ LoadOwn(p) \/ ListRecords(p)
             \/ Compare(p) \/ ShowSimilar(p)
    <3>1. /\ UNCHANGED <<asked, scope>>
          /\ at' = at \/ Go(p, "done") \/ Go(p, "listing") \/ Go(p, "comparing")
      BY <2>6 DEF NoRecordToCompare, OwnUnreadable, LoadOwn, ListRecords, Compare, ShowSimilar, request
    <3> QED BY <3>1, AskedStays
  <2> QED BY <1>3, <2>1, <2>2, <2>3, <2>4, <2>5, <2>6 DEF Step
<1> QED BY <1>1, <1>2, <1>3 DEF Next

\* Only CompleteTarget makes a connected process ready.
LEMMA OnlyCompleted ==
  ASSUME IInv, [Next]_vars, NEW p \in Processes, at[p] = "connected", at'[p] = "ready"
  PROVE  CompleteTarget(p)
<1>1. CASE SwitchContext \/ RemoveRecord \/ UNCHANGED vars
  BY <1>1 DEF SwitchContext, RemoveRecord, vars
<1>2. ASSUME NEW q \in Processes, Killed(q) \/ Step(q), q # p PROVE FALSE
  <2>1. at' = at \/ \E place : Go(q, place)
    BY <1>2 DEF Killed, Step, Invoke, Connect, ConnectFails, CompleteTarget, Investigate,
                CreateRecord, WriteSome, WriteRest, SaveFails, NoWebhook, NotifyArrives,
                NotifyFails, NoRecordToCompare, OwnUnreadable, LoadOwn, ListRecords, Compare,
                ShowSimilar
  <2> QED BY <1>2, <2>1 DEF Go, IInv, Shape
<1>3. ASSUME Killed(p) PROVE FALSE
  BY <1>3 DEF Killed, Go, IInv, Shape
<1>4. ASSUME Step(p), ~ CompleteTarget(p) PROVE FALSE
  BY <1>4 DEF Step, Invoke, Connect, ConnectFails, Investigate, CreateRecord, WriteSome, WriteRest,
              SaveFails, NoWebhook, NotifyArrives, NotifyFails, NoRecordToCompare,
              OwnUnreadable, LoadOwn, ListRecords, Compare, ShowSimilar
<1> QED BY <1>1, <1>2, <1>3, <1>4 DEF Next

\* What CompleteTarget does to the scope of its process.
LEMMA CompletedScope ==
  ASSUME IInv, TInv, AInv, NEW p \in Processes, CompleteTarget(p)
  PROVE  /\ IsRequest(asked[p]) /\ scope[p] = ScopeOf(asked[p]) /\ ~ Refused(scope[p])
         /\ scope'[p] = [scope[p] EXCEPT !.target =
                           Completed(@, Effective(asked[p]).namespace, Namespace(contextOf(p)))]
<1> DEFINE st == settings[p].namespace
           space == Namespace(contextOf(p))
           ns == FirstNot("", <<st, space, "default">>)
           ref == scope[p].target
<1>1. /\ at[p] = "connected"
      /\ scope' = IF ~ Unplaced(ref) THEN scope ELSE [scope EXCEPT ![p].target.ns = ns]
  BY DEF CompleteTarget
<1>2. asked[p] \in Requests(p) /\ settings[p] = Effective(asked[p]) /\ IsRequest(asked[p])
  BY FilesAssumption DEF TInv
<1>3. scope[p] = ScopeOf(asked[p]) /\ ~ Refused(scope[p])
  BY <1>1 DEF AInv, Asked
<1>4. IsScope(scope[p])
  BY <1>2, <1>3, ScopeType
<1>5. Completed(ref, st, space) = IF Unplaced(ref) THEN [ref EXCEPT !.ns = ns] ELSE ref
  BY DEF Completed
<1>6. DOMAIN scope = Processes
  BY DEF IInv, Shape
<1> HIDE DEF ns, st, space
<1>7. CASE Unplaced(ref)
  <2>1. scope'[p] = [scope[p] EXCEPT !.target.ns = ns]
    BY <1>1, <1>6, <1>7
  <2> QED BY <1>2, <1>3, <1>5, <1>7, <2>1 DEF st, space
<1>8. CASE ~ Unplaced(ref)
  <2>1. scope'[p] = scope[p] /\ Completed(ref, st, space) = ref
    BY <1>1, <1>5, <1>8
  <2>2. [scope[p] EXCEPT !.target = ref] = scope[p]
    BY <1>4 DEF IsScope
  <2> QED BY <1>2, <1>3, <2>1, <2>2 DEF st, space
<1> QED BY <1>7, <1>8

\* Both commands investigate what the request means (root.go:245-261, :349-356,
\* alert_cmd.go:80-104), for any request without empty parts, any settings and any
\* switching of the context.  A namespace that the kubeconfig has to say is the one of the
\* context the cluster is read by if the current context is the same at both readings.
THEOREM ScopesAreMeant == Spec => ScopeIsMeant
<1> DEFINE Steady(p) == GivenNamespace(asked[p]) # "" \/ contextOf(p) = client[p]
           Meant(p) == at[p] = "connected" /\ at'[p] = "ready" =>
                         /\ scope'[p].target.kind = Named(asked[p]).kind
                         /\ WellFormed(asked[p]) /\ Steady(p) =>
                              scope'[p].target.ns = MeantNamespace(p)
                         /\ scope'[p].window = MeantWindow(asked[p])
<1>1. ASSUME IInv, TInv, AInv, [Next]_vars PROVE \A p \in Processes : Meant(p)
  <2> SUFFICES ASSUME NEW p \in Processes, at[p] = "connected", at'[p] = "ready"
               PROVE  /\ scope'[p].target.kind = Named(asked[p]).kind
                      /\ WellFormed(asked[p]) /\ Steady(p) =>
                           scope'[p].target.ns = MeantNamespace(p)
                      /\ scope'[p].window = MeantWindow(asked[p])
    OBVIOUS
  <2> DEFINE r == asked[p]
             space == Namespace(contextOf(p))
             ref == Completed(ScopeOf(r).target, Effective(r).namespace, space)
  <2>1. CompleteTarget(p)
    BY <1>1, OnlyCompleted
  <2>2. /\ IsRequest(r) /\ scope[p] = ScopeOf(r) /\ ~ Refused(ScopeOf(r))
        /\ scope'[p] = [ScopeOf(r) EXCEPT !.target = ref]
    BY <1>1, <2>1, CompletedScope
  <2>3. ScopeOf(r) = [target |-> ScopeOf(r).target, window |-> ScopeOf(r).window]
    BY <2>2, ScopeType DEF IsScope
  <2>4. ref.kind = Named(r).kind /\ (WellFormed(r) => ref.ns = Meaning(r, space))
    BY <2>2, AlertMeant, ArgumentMeant
  <2>5. Steady(p) => MeantNamespace(p) = Meaning(r, space)
    BY DEF MeantNamespace, Meaning
  <2>6. ScopeOf(r).window = MeantWindow(r)
    BY <2>2, WindowMeant
  <2> HIDE DEF r, space, ref
  <2>7. scope'[p].target = ref /\ scope'[p].window = ScopeOf(r).window
    BY <2>2, <2>3
  <2> QED BY <2>4, <2>5, <2>6, <2>7 DEF r
<1>2. IInv /\ TInv /\ AInv /\ [Next]_vars => [\A p \in Processes : Meant(p)]_vars
  BY <1>1
<1> QED
  BY InitIInv, NextIInv, InitTInv, NextTInv, InitAInv, NextAInv, <1>2, PTL DEF Spec, ScopeIsMeant

-------------------------------------------------------------------------------
(* The types. *)

\* The types that the proofs above did not need.  A connected process has a context of the
\* kubeconfig, whatever the current one becomes.
Typed(p) ==
  /\ client[p] \in Contexts \cup {""}
  /\ cluster[p] \in Clusters \cup {NoCluster}
  /\ tag[p] \in Strings
  /\ scope[p].target \in Refs
  /\ at[p] = "connected" => contextOf(p) \in Contexts
  /\ todo[p] \subseteq DOMAIN Past \cup NewIds

YInv ==
  /\ current \in Contexts /\ switches \in 0..MaxSwitches /\ removed \subseteq Removable
  /\ DOMAIN client = Processes
  /\ \A i \in DOMAIN records : records[i] \in RecordSet
  /\ \A p \in Processes : Typed(p)

\* The first of two given names is the same whatever the second, if it is not empty.
LEMMA ContextStays ==
  ASSUME NEW p \in Processes, contextOf(p) \in Contexts, asked' = asked, current' \in Contexts
  PROVE  contextOf(p)' \in Contexts
<1> DEFINE flag == asked[p].context
<1>1. contextOf(p) = IF flag # "" THEN flag ELSE current
  BY NameOfTwo DEF contextOf
<1>2. contextOf(p)' = IF flag' # "" THEN flag' ELSE current'
  BY NameOfTwo DEF contextOf
<1>3. flag' = flag
  OBVIOUS
<1> QED BY <1>1, <1>2, <1>3

LEMMA InitYInv == Init => YInv
<1> SUFFICES ASSUME Init PROVE YInv
  OBVIOUS
<1>1. \A p \in Processes : scope[p].target \in Refs
  <2> SUFFICES ASSUME NEW p \in Processes PROVE scope[p].target \in Refs
    OBVIOUS
  <2>1. scope[p] = ScopeOf(asked[p]) /\ IsRequest(asked[p])
    BY FilesAssumption DEF Init
  <2> QED BY <2>1, ScopeType DEF IsScope
<1>2. \A p \in Processes : /\ client[p] = "" /\ cluster[p] = NoCluster /\ tag[p] = ""
                            /\ at[p] = "start" /\ todo[p] = {}
  BY DEF Init
<1>3. "" \in Strings
  BY StringsAssumption
<1>4. \A p \in Processes : Typed(p)
  BY <1>1, <1>2, <1>3 DEF Typed
<1>5. records = Past /\ removed = {} /\ DOMAIN client = Processes /\ current \in Contexts /\ switches = 0
  BY DEF Init
<1> QED BY <1>4, <1>5, PastAssumption, TopAssumption DEF YInv

\* A step that moves its process on, to any place but "connected".
LEMMA TypedMoves ==
  ASSUME IInv, YInv, NEW p \in Processes,
         UNCHANGED <<current, switches, removed, records, asked, scope, client, cluster, tag, todo>>,
         at' = at \/ \E place : Go(p, place) /\ place # "connected"
  PROVE  YInv'
<1>1. \A q \in Processes : at'[q] = "connected" => at[q] = "connected"
  BY DEF Go, IInv, Shape
<1>2. \A q \in Processes : Typed(q)'
  BY <1>1 DEF YInv, Typed, contextOf
<1> QED BY <1>2 DEF YInv

\* What a file may hold that a process writes into is a record.
LEMMA RecordType ==
  ASSUME SInv, YInv, NEW p \in Processes, NEW ks \in SUBSET observed[p],
         NEW lines \in {"none", "torn", "cut", "whole"}
  PROVE  /\ Record(p, lines, ks) \in RecordSet
         /\ \A new \in Written(p, Record(p, lines, ks)) : new \in RecordSet
<1>1. \A q \in Processes : observed[q] \in SUBSET Kinds
  BY DEF SInv, SearchOf
<1>2. \A q \in Processes : tag[q] \in Strings /\ scope[q].target \in Refs
  BY DEF YInv, Typed
<1>3. Record(p, lines, ks) \in RecordSet
  BY <1>1, <1>2 DEF Record, RecordSet
<1>4. \A new \in Mixtures(id[p]) : new \in RecordSet
  <2> DEFINE writers == {q \in Processes : id[q] = id[p]}
  <2>1. {tag[q] : q \in writers} \subseteq Strings /\ {scope[q].target : q \in writers} \subseteq Refs
    BY <1>2
  <2>2. UNION {observed[q] : q \in writers} \subseteq Kinds
    BY <1>1
  <2> QED BY <2>1, <2>2 DEF Mixtures, RecordSet
<1> QED BY <1>3, <1>4 DEF Written

LEMMA PutType ==
  ASSUME YInv, NEW p \in Processes, NEW new \in RecordSet, Put(p, new)
  PROVE  \A i \in DOMAIN records' : records'[i] \in RecordSet
BY DEF Put, YInv

LEMMA NextYInv == IInv /\ TInv /\ AInv /\ SInv /\ YInv /\ [Next]_vars => YInv'
<1> SUFFICES ASSUME IInv, TInv, AInv, SInv, YInv, [Next]_vars PROVE YInv'
  OBVIOUS
<1>1. CASE SwitchContext
  <2>1. /\ current' \in Contexts /\ switches < MaxSwitches /\ switches' = switches + 1
        /\ UNCHANGED <<removed, records, at, asked, scope, client, cluster, tag, todo>>
    BY <1>1 DEF SwitchContext, request, search
  <2>2. switches' \in 0..MaxSwitches
    BY <2>1, TopAssumption DEF YInv
  <2>3. \A p \in Processes : Typed(p)'
    <3> SUFFICES ASSUME NEW p \in Processes PROVE Typed(p)'
      OBVIOUS
    <3>1. at[p] = "connected" => contextOf(p)' \in Contexts
      BY <2>1, ContextStays DEF YInv, Typed
    <3> QED BY <2>1, <3>1 DEF YInv, Typed
  <2> QED BY <2>1, <2>2, <2>3 DEF YInv
<1>2. CASE RemoveRecord
  <2>1. PICK i \in Removable \cap DOMAIN records :
          /\ records' = [j \in DOMAIN records \ {i} |-> records[j]]
          /\ removed' = removed \cup {i}
          /\ UNCHANGED <<current, switches, at, asked, scope, client, cluster, tag, todo>>
    BY <1>2 DEF RemoveRecord, request, search
  <2>2. \A p \in Processes : Typed(p)'
    BY <2>1 DEF YInv, Typed, contextOf
  <2>3. \A j \in DOMAIN records' : records'[j] \in RecordSet
    BY <2>1 DEF YInv
  <2> QED BY <2>1, <2>2, <2>3 DEF YInv
<1>3. CASE UNCHANGED vars
  BY <1>3 DEF vars, world, request, search, YInv, Typed, contextOf
<1>4. ASSUME NEW p \in Processes, Killed(p) PROVE YInv'
  <2>1. /\ Go(p, "killed")
        /\ UNCHANGED <<current, switches, removed, records, asked, scope, client, cluster, tag, todo>>
    BY <1>4 DEF Killed, world, request, search
  <2> QED BY <2>1, TypedMoves
<1>5. ASSUME NEW p \in Processes, Step(p) PROVE YInv'
  <2>1. CASE Connect(p)
    <3> DEFINE c == Cluster(contextOf(p))
               configured == settings[p].clusterId
    <3>1. /\ at[p] = "scoped" /\ contextOf(p) \in Contexts /\ Go(p, "connected")
          /\ client' = [client EXCEPT ![p] = contextOf(p)]
          /\ cluster' = [cluster EXCEPT ![p] = c]
          /\ tag' = [tag EXCEPT ![p] = FirstNot("", <<configured, ClusterID(c)>>)]
          /\ UNCHANGED <<current, switches, removed, records, asked, scope, todo>>
      BY <2>1 DEF Connect, world, search
    <3>2. c \in Clusters /\ ClusterID(c) \in Strings
      BY <3>1, TagsAssumption
    <3>3. configured \in Strings
      <4>1. settings[p] \in SettingsSet
        BY EffectiveType, FilesAssumption DEF TInv
      <4> QED BY <4>1 DEF SettingsSet
    <3> HIDE DEF c, configured
    <3>4. FirstNot("", <<configured, ClusterID(c)>>) \in Strings
      BY <3>2, <3>3, StringOfTwo
    <3>5. /\ DOMAIN client' = Processes
          /\ client'[p] \in Contexts /\ cluster'[p] = c /\ tag'[p] \in Strings
          /\ \A q \in Processes \ {p} : /\ at'[q] = at[q] /\ client'[q] = client[q]
                                     /\ cluster'[q] = cluster[q] /\ tag'[q] = tag[q]
      BY <3>1, <3>4 DEF Go, IInv, Shape, TInv, YInv
    <3>6. contextOf(p)' \in Contexts
      BY <3>1, ContextStays DEF YInv
    <3>7. Typed(p)'
      BY <3>1, <3>2, <3>5, <3>6 DEF YInv, Typed
    <3>8. \A q \in Processes \ {p} : Typed(q)'
      BY <3>1, <3>5 DEF YInv, Typed, contextOf
    <3> QED BY <3>1, <3>5, <3>7, <3>8 DEF YInv
  <2>2. CASE CompleteTarget(p)
    <3> DEFINE st == Effective(asked[p]).namespace
               space == Namespace(contextOf(p))
               ns == FirstNot("", <<st, space, "default">>)
    <3>1. /\ at[p] = "connected" /\ Go(p, "ready")
          /\ scope' = IF ~ Unplaced(scope[p].target) THEN scope
                      ELSE [scope EXCEPT ![p].target.ns =
                              FirstNot("", <<settings[p].namespace, space, "default">>)]
          /\ UNCHANGED <<current, switches, removed, records, asked, client, cluster, tag, todo>>
      BY <2>2 DEF CompleteTarget, world, search
    <3>2. IsRequest(asked[p]) /\ scope[p] = ScopeOf(asked[p])
          /\ scope'[p] = [scope[p] EXCEPT !.target = Completed(@, st, space)]
      BY <2>2, CompletedScope
    <3>3. IsScope(scope[p])
      BY <3>2, ScopeType
    <3>4. st \in Strings /\ space \in Strings /\ "default" \in Strings
      <4>1. contextOf(p) \in Contexts
        BY <3>1 DEF YInv, Typed
      <4> QED BY <3>2, <4>1, EffectiveType, TagsAssumption, StringsAssumption DEF SettingsSet
    <3>5. ns \in Strings
      <4>1. ns = IF st # "" THEN st ELSE IF space # "" THEN space ELSE "default"
        <5> HIDE DEF st, space
        <5> QED BY ONLY NameOfThree
      <4> QED BY <3>4, <4>1
    <3>6. Completed(scope[p].target, st, space) \in Refs
      <4>1. Completed(scope[p].target, st, space) =
              IF Unplaced(scope[p].target) THEN [scope[p].target EXCEPT !.ns = ns] ELSE scope[p].target
        BY DEF Completed
      <4> HIDE DEF ns
      <4> QED BY <3>3, <3>5, <4>1 DEF IsScope, Refs
    <3>7. scope'[p].target \in Refs
      BY <3>2, <3>3, <3>6 DEF IsScope
    <3>8. at'[p] = "ready" /\ \A q \in Processes \ {p} : at'[q] = at[q] /\ scope'[q] = scope[q]
      BY <3>1 DEF Go, IInv, Shape
    <3>9. \A q \in Processes : Typed(q)'
      BY <3>1, <3>7, <3>8 DEF YInv, Typed, contextOf
    <3> QED BY <3>1, <3>9 DEF YInv
  <2>3. CASE CreateRecord(p) \/ WriteSome(p) \/ WriteRest(p)
    <3>1. /\ UNCHANGED <<current, switches, removed, asked, scope, client, cluster, tag, todo>>
          /\ at' = at \/ Go(p, "open") \/ Go(p, "saved")
      BY <2>3 DEF CreateRecord, WriteSome, WriteRest, world, request, search
    <3>2. PICK new \in RecordSet : Put(p, new)
      <4> HIDE DEF Put, Record, Written
      <4>1. CASE CreateRecord(p)
        BY <4>1, RecordType DEF CreateRecord
      <4>2. CASE WriteSome(p)
        <5>1. PICK lines \in {"torn", "cut"}, ks \in SUBSET observed[p] :
                \E new \in Written(p, Record(p, lines, ks)) : Put(p, new)
          BY <4>2 DEF WriteSome
        <5> QED BY <5>1, RecordType
      <4>3. CASE WriteRest(p)
        <5>1. \E new \in Written(p, Record(p, "whole", observed[p])) : Put(p, new)
          BY <4>3 DEF WriteRest
        <5> QED BY <5>1, RecordType
      <4> QED BY <2>3, <4>1, <4>2, <4>3
    <3>4. \A i \in DOMAIN records' : records'[i] \in RecordSet
      BY <3>2, PutType
    <3>5. \A q \in Processes : at'[q] = "connected" => at[q] = "connected"
      BY <3>1 DEF Go, IInv, Shape
    <3>6. \A q \in Processes : Typed(q)'
      BY <3>1, <3>5 DEF YInv, Typed, contextOf
    <3> QED BY <3>1, <3>4, <3>6 DEF YInv
  <2>4. CASE ListRecords(p) \/ Compare(p)
    <3>1. /\ UNCHANGED <<current, switches, removed, records, asked, scope, client, cluster, tag>>
          /\ at' = at \/ Go(p, "comparing")
      BY <2>4 DEF ListRecords, Compare, world, request
    <3>2. todo'[p] \subseteq todo[p] \cup DOMAIN records /\ \A q \in Processes \ {p} : todo'[q] = todo[q]
      BY <2>4 DEF ListRecords, Compare, SInv
    <3>3. DOMAIN records \subseteq DOMAIN Past \cup NewIds
      BY DEF SInv, Stored
    <3>4. \A q \in Processes : at'[q] = "connected" => at[q] = "connected"
      BY <3>1 DEF Go, IInv, Shape
    <3>5. \A q \in Processes : Typed(q)'
      BY <3>1, <3>2, <3>3, <3>4 DEF YInv, Typed, contextOf
    <3> QED BY <3>1, <3>5 DEF YInv
  <2>5. CASE Invoke(p) \/ ConnectFails(p) \/ Investigate(p)
    <3>1. /\ UNCHANGED <<current, switches, removed, records, asked, scope, client, cluster, tag, todo>>
          /\ Go(p, "refused") \/ Go(p, "scoped") \/ Go(p, "failed") \/ Go(p, "built")
      BY <2>5 DEF Invoke, ConnectFails, Investigate, world, request, search
    <3> QED BY <3>1, TypedMoves
  <2>6. CASE SaveFails(p) \/ NoWebhook(p) \/ NotifyArrives(p) \/ NotifyFails(p)
    <3>1. /\ UNCHANGED <<current, switches, removed, records, asked, scope, client, cluster, tag, todo>>
          /\ Go(p, "saved") \/ Go(p, "notified")
      BY <2>6 DEF SaveFails, NoWebhook, NotifyArrives, NotifyFails, world, request, search
    <3> QED BY <3>1, TypedMoves
  <2>7. CASE NoRecordToCompare(p) \/ OwnUnreadable(p) \/ LoadOwn(p) \/ ShowSimilar(p)
    <3>1. /\ UNCHANGED <<current, switches, removed, records, asked, scope, client, cluster, tag, todo>>
          /\ Go(p, "done") \/ Go(p, "listing")
      BY <2>7 DEF NoRecordToCompare, OwnUnreadable, LoadOwn, ShowSimilar, world, request, search
    <3> QED BY <3>1, TypedMoves
  <2> QED BY <1>5, <2>1, <2>2, <2>3, <2>4, <2>5, <2>6, <2>7 DEF Step
<1> QED BY <1>1, <1>2, <1>3, <1>4, <1>5 DEF Next

\* The variables keep their types for any processes, requests, contexts and store: a
\* record in the store is always one a file can hold, and a path that Save returned is
\* that of a file, though people remove files all the time.
THEOREM TypeCorrect == Spec => []TypeOK
<1>1. IInv /\ TInv /\ AInv /\ SInv /\ YInv => TypeOK
  <2> SUFFICES ASSUME IInv, TInv, AInv, SInv, YInv PROVE TypeOK
    OBVIOUS
  <2>1. /\ current \in Contexts /\ switches \in 0..MaxSwitches /\ removed \subseteq Removable
        /\ \A i \in DOMAIN records : records[i] \in RecordSet
    BY DEF YInv
  <2>2. DOMAIN records \subseteq DOMAIN Past \cup NewIds
    BY DEF SInv, Stored
  <2>3. \A n \in delivered : n.record \in NewIds \cup {0}
    <3> SUFFICES ASSUME NEW n \in delivered, n.record # 0 PROVE n.record \in NewIds
      OBVIOUS
    <3>1. PICK p \in Processes : saved[p] /\ n = Notification(p)
      BY DEF IInv, Told
    <3>2. n.record = id[p]
      BY <3>1 DEF Notification
    <3> QED BY <3>2 DEF IInv, Shape
  <2>4. at \in [Processes -> Final \cup {"start", "scoped", "connected", "ready", "built", "open",
                                         "saved", "notified", "listing", "comparing"}]
    BY DEF IInv, Shape, Places
  <2>5. ASSUME NEW p \in Processes
        PROVE  /\ client[p] \in Contexts \cup {""} /\ cluster[p] \in Clusters \cup {NoCluster}
               /\ observed[p] \subseteq Kinds
               /\ id[p] \in NewIds \cup {0}
               /\ saved[p] => id[p] \in DOMAIN records
               /\ todo[p] \subseteq DOMAIN Past \cup NewIds
    BY <2>5 DEF YInv, Typed, SInv, SearchOf, IInv, Shape, Kept, KeptBy
  <2> QED BY <2>1, <2>2, <2>3, <2>4, <2>5 DEF TypeOK
<1> QED
  BY InitIInv, NextIInv, InitTInv, NextTInv, InitAInv, NextAInv, InitSInv, NextSInv,
     InitYInv, NextYInv, <1>1, PTL DEF Spec
===============================================================================
