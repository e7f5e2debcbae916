-------------------------------- MODULE Pipeline --------------------------------
(***************************************************************************)
(* One live investigation of internal/cli (runInvestigationPipeline), as the    *)
(* commands investigate and alert run it: connect, resolve the target,          *)
(* investigate, save the record, send the webhook, look for similar incidents.  *)
(* Every process is one command; they share the kubeconfig, which kubectl may    *)
(* switch at any time, and the incident store, from which people remove files.   *)
(*                                                                         *)
(* The investigation itself is Investigation, here reduced to the kinds it       *)
(* observes.  Two commands that end in one second and whose targets have one     *)
(* slug write one file; what it then holds is any mixture of theirs here, and    *)
(* IncidentStore has the detail.                                              *)
(***************************************************************************)
EXTENDS Scope, FiniteSets

CONSTANTS
  Processes,
  Requests(_),     \* what a process may be asked
  Contexts,        \* the contexts of the kubeconfig
  Cluster(_),      \* the cluster a context points at
  Namespace(_),    \* the namespace a context names
  Clusters,
  ClusterID(_),    \* the tag derived from the API server of a cluster
  slug(_),         \* a name in small letters, digits and hyphens
  Kinds,           \* kinds of observations
  Views,           \* the sets of kinds an investigation may observe
  Past,            \* the records in the store at first, by ID
  NewIds,          \* the IDs of this second and the next ones, all later than the past ones
  TopN,            \* how many similar incidents are shown
  MaxSwitches,     \* bound on the switches of the current context
  Removable,       \* past records people may remove
  NoCluster, NoOwn

ASSUME IdsAssumption ==
  /\ DOMAIN Past \subseteq Nat \ {0} /\ NewIds \subseteq Nat \ {0}
  /\ \A old \in DOMAIN Past, new \in NewIds : old < new
  /\ Removable \subseteq DOMAIN Past
ASSUME TagsAssumption ==
  /\ NoCluster \notin Clusters /\ "" \notin Contexts
  /\ \A c \in Contexts :
       /\ Cluster(c) \in Clusters /\ Namespace(c) \in Strings
       /\ ClusterID(Cluster(c)) \in Strings \ {""}
ASSUME TopAssumption == TopN \in Nat \ {0} /\ MaxSwitches \in Nat /\ Views \subseteq SUBSET Kinds

\* What the file of a record may hold; the store is a finite directory of such files.
Refs == [kind : Strings, ns : Strings, name : Strings]
RecordSet ==
  [tag : Strings, target : Refs, kinds : SUBSET Kinds, lines : {"none", "torn", "cut", "whole"}]
ASSUME PastAssumption ==
  /\ IsFiniteSet(DOMAIN Past) /\ IsFiniteSet(Kinds)
  /\ \A i \in DOMAIN Past : Past[i] \in RecordSet

\* No profile of the settings is that of a context without a name.
ASSUME FilesAssumption ==
  \A p \in Processes : \A r \in Requests(p) : IsRequest(r) /\ "" \notin DOMAIN r.file.clusters

VARIABLES
  current,      \* the current context of the kubeconfig
  switches,     \* how often it was switched
  records,      \* the store: ID -> record
  removed,      \* the IDs of the records people removed
  delivered,    \* the notifications that reached their receiver
  at,           \* process -> where it is
  asked,        \* process -> its request, which never changes
  settings,     \* process -> the settings it goes by, read once when it starts
  scope,        \* process -> its target and window
  client,       \* process -> the context its client was built for, "" before it is
  cluster,      \* process -> the cluster its client reads
  tag,          \* process -> clusterID
  observed,     \* process -> the kinds it observed
  id,           \* process -> the ID of its incident, 0 before it has one
  saved,        \* process -> Save returned its path
  own,          \* process -> the kinds Similar read of its own record
  todo,         \* process -> the listed IDs Similar has yet to load
  matches       \* process -> the matches so far, in the end the ones shown

world == <<current, switches, removed>>
search == <<own, todo, matches>>
request == <<asked, settings, scope, client, cluster, tag>>
vars == <<world, records, delivered, at, request, observed, id, saved, search>>

Final == {"refused", "failed", "killed", "done"}
Go(p, place) == at' = [at EXCEPT ![p] = place]

\* What the file of a record holds: lines "none", "torn", "cut" or "whole".
Record(p, lines, kinds) ==
  [tag |-> tag[p], target |-> scope[p].target, kinds |-> kinds, lines |-> lines]

Init ==
  /\ current \in Contexts /\ switches = 0
  /\ records = Past /\ removed = {} /\ delivered = {}
  /\ at = [p \in Processes |-> "start"]
  /\ asked \in {a \in [Processes -> UNION {Requests(p) : p \in Processes}] :
                 \A p \in Processes : a[p] \in Requests(p)}
  /\ settings = [p \in Processes |-> Effective(asked[p])]
  /\ scope = [p \in Processes |-> ScopeOf(asked[p])]
  /\ client = [p \in Processes |-> ""]
  /\ cluster = [p \in Processes |-> NoCluster]
  /\ tag = [p \in Processes |-> ""]
  /\ observed = [p \in Processes |-> {}]
  /\ id = [p \in Processes |-> 0]
  /\ saved = [p \in Processes |-> FALSE]
  /\ own = [p \in Processes |-> NoOwn]
  /\ todo = [p \in Processes |-> {}]
  /\ matches = [p \in Processes |-> <<>>]

-------------------------------------------------------------------------------
(* People. *)

SwitchContext ==
  /\ switches < MaxSwitches
  /\ \E c \in Contexts \ {current} : current' = c
  /\ switches' = switches + 1
  /\ UNCHANGED <<removed, records, delivered, at, request, observed, id, saved, search>>

RemoveRecord ==
  \E i \in Removable \cap DOMAIN records :
    /\ records' = [j \in DOMAIN records \ {i} |-> records[j]]
    /\ removed' = removed \cup {i}
    /\ UNCHANGED <<current, switches, delivered, at, request, observed, id, saved, search>>

\* Ctrl-C, or the machine goes down.
Killed(p) ==
  /\ at[p] \notin Final \cup {"start"}
  /\ Go(p, "killed")
  /\ UNCHANGED <<world, records, delivered, request, observed, id, saved, search>>

-------------------------------------------------------------------------------
(* The front of the command. *)

Invoke(p) ==
  /\ at[p] = "start"
  /\ Go(p, IF Refused(scope[p]) THEN "refused" ELSE "scoped")
  /\ UNCHANGED <<world, records, delivered, request, observed, id, saved, search>>

\* The context a read of the kubeconfig takes: the flag, else the current one.
contextOf(p) == FirstNot("", <<asked[p].context, current>>)

Connect(p) ==
  /\ at[p] = "scoped"
  /\ contextOf(p) \in Contexts
  /\ client' = [client EXCEPT ![p] = contextOf(p)]
  /\ cluster' = [cluster EXCEPT ![p] = Cluster(contextOf(p))]
  /\ tag' = [tag EXCEPT ![p] =
       FirstNot("", <<settings[p].clusterId, ClusterID(Cluster(contextOf(p)))>>)]
  /\ Go(p, "connected")
  /\ UNCHANGED <<world, records, delivered, asked, settings, scope, observed, id, saved, search>>

\* The kubeconfig has no such context.
ConnectFails(p) ==
  /\ at[p] = "scoped"
  /\ contextOf(p) \notin Contexts
  /\ Go(p, "failed")
  /\ UNCHANGED <<world, records, delivered, request, observed, id, saved, search>>

\* A target without a namespace, and what it gets from the settings or the kubeconfig.
Unplaced(ref) == ref.ns = "" /\ ref.kind \notin {"namespace", "node"}

\* The kubeconfig is read once more.
CompleteTarget(p) ==
  /\ at[p] = "connected"
  /\ scope' = IF ~ Unplaced(scope[p].target) THEN scope
              ELSE [scope EXCEPT ![p].target.ns =
                      FirstNot("", <<settings[p].namespace, Namespace(contextOf(p)),
                                     "default">>)]
  /\ Go(p, "ready")
  /\ UNCHANGED <<world, records, delivered, asked, settings, client, cluster, tag, observed, id,
                 saved, search>>

slugOf(ref) == slug(FirstNot("", <<ref.name, ref.ns, "cluster">>))

\* The engine, which never fails, and BuildIncident: an ID is a second and a slug.
Investigate(p) ==
  /\ at[p] = "ready"
  /\ \E ks \in Views : observed' = [observed EXCEPT ![p] = ks]
  /\ \E i \in NewIds :
       /\ \A q \in Processes : id[q] = i => slugOf(scope[q].target) = slugOf(scope[p].target)
       /\ id' = [id EXCEPT ![p] = i]
  /\ Go(p, "built")
  /\ UNCHANGED <<world, records, delivered, request, saved, search>>

-------------------------------------------------------------------------------
(* Save. *)

Shared(i) == \E p, q \in Processes : p # q /\ id[p] = i /\ id[q] = i

\* What a file may hold that several commands write: lines of any, in any order.
Mixtures(i) ==
  LET writers == {q \in Processes : id[q] = i}
  IN [tag : {tag[q] : q \in writers}, target : {scope[q].target : q \in writers},
      kinds : SUBSET UNION {observed[q] : q \in writers}, lines : {"torn", "cut"}]

\* The file of a process holds what it wrote, unless it is not its own alone.
Written(p, record) == IF Shared(id[p]) THEN Mixtures(id[p]) ELSE {record}

Put(p, record) == records' = [i \in DOMAIN records \cup {id[p]} |->
                                IF i = id[p] THEN record ELSE records[i]]

\* The file is created, or emptied if it is there.
CreateRecord(p) ==
  /\ at[p] = "built"
  /\ Put(p, Record(p, "none", {}))
  /\ Go(p, "open")
  /\ UNCHANGED <<world, delivered, request, observed, id, saved, search>>

\* The buffer is flushed in the middle of a line, or just after one.
WriteSome(p) ==
  /\ at[p] = "open" /\ records[id[p]].lines = "none"
  /\ \E lines \in {"torn", "cut"}, ks \in SUBSET observed[p] :
       \E record \in Written(p, Record(p, lines, ks)) : Put(p, record)
  /\ UNCHANGED <<world, delivered, at, request, observed, id, saved, search>>

WriteRest(p) ==
  /\ at[p] = "open"
  /\ \E record \in Written(p, Record(p, "whole", observed[p])) : Put(p, record)
  /\ saved' = [saved EXCEPT ![p] = TRUE]
  /\ Go(p, "saved")
  /\ UNCHANGED <<world, delivered, request, observed, id, search>>

\* A slip: Save returns the path with the error, and the error is dropped.
SaveFailsUnnoticed(p) ==
  /\ at[p] \in {"built", "open"}
  /\ saved' = [saved EXCEPT ![p] = TRUE]
  /\ Go(p, "saved")
  /\ UNCHANGED <<world, records, delivered, request, observed, id, search>>

\* No directory, no file or no room: the investigation goes on without a record.
SaveFails(p) ==
  /\ at[p] \in {"built", "open"}
  /\ Go(p, "saved")
  /\ UNCHANGED <<world, records, delivered, request, observed, id, saved, search>>

-------------------------------------------------------------------------------
(* The webhook. *)

\* A slip: the notification names the incident whether Save succeeded or not.
NotificationOfBuilt(p) ==
  [record |-> id[p], target |-> scope[p].target, tag |-> tag[p]]

\* RecordID is empty, here 0, when Save failed.
Notification(p) ==
  [record |-> IF saved[p] THEN id[p] ELSE 0, target |-> scope[p].target, tag |-> tag[p]]

NoWebhook(p) ==
  /\ at[p] = "saved" /\ settings[p].webhook = ""
  /\ Go(p, "notified")
  /\ UNCHANGED <<world, records, delivered, request, observed, id, saved, search>>

\* The receiver has it; whether its answer is good, bad or lost changes a note only.
NotifyArrives(p) ==
  /\ at[p] = "saved" /\ settings[p].webhook # ""
  /\ delivered' = delivered \cup {Notification(p)}
  /\ Go(p, "notified")
  /\ UNCHANGED <<world, records, request, observed, id, saved, search>>

\* It cannot be sent, or the ten seconds are over before it arrives.
NotifyFails(p) ==
  /\ at[p] = "saved" /\ settings[p].webhook # ""
  /\ Go(p, "notified")
  /\ UNCHANGED <<world, records, delivered, request, observed, id, saved, search>>

-------------------------------------------------------------------------------
(* memory.Similar.  A torn record does not load; an empty one loads without       *)
(* kinds and without a tag.                                                    *)

Loads(record) == record.lines # "torn"
LoadedTag(record) == IF record.lines = "none" THEN "" ELSE record.tag

\* Without a record there is nothing to compare.
NoRecordToCompare(p) ==
  /\ at[p] = "notified" /\ ~ saved[p]
  /\ Go(p, "done")
  /\ UNCHANGED <<world, records, delivered, request, observed, id, saved, search>>

\* Another command wrote into it.
OwnUnreadable(p) ==
  /\ at[p] = "notified" /\ saved[p] /\ ~ Loads(records[id[p]])
  /\ Go(p, "done")
  /\ UNCHANGED <<world, records, delivered, request, observed, id, saved, search>>

LoadOwn(p) ==
  /\ at[p] = "notified" /\ saved[p] /\ Loads(records[id[p]])
  /\ own' = [own EXCEPT ![p] = records[id[p]].kinds]
  /\ Go(p, "listing")
  /\ UNCHANGED <<world, records, delivered, request, observed, id, saved, todo, matches>>

\* A slip, and once a bug: the ID of the caller is compared with its suffix.
ListWithOwn(p) ==
  /\ at[p] = "listing"
  /\ todo' = [todo EXCEPT ![p] = DOMAIN records]
  /\ Go(p, "comparing")
  /\ UNCHANGED <<world, records, delivered, request, observed, id, saved, own, matches>>

ListRecords(p) ==
  /\ at[p] = "listing"
  /\ todo' = [todo EXCEPT ![p] = DOMAIN records \ {id[p]}]
  /\ Go(p, "comparing")
  /\ UNCHANGED <<world, records, delivered, request, observed, id, saved, own, matches>>

\* The Jaccard index of two sets of kinds is the fraction x[1] / x[2].
jaccard(a, b) == <<Cardinality(a \cap b), Cardinality(a \cup b)>>
More(x, y) == x[1] * y[2] > y[1] * x[2]

\* A search without a tag is not scoped; no live investigation is without one.
Alike(p, record) ==
  tag[p] \in {"", LoadedTag(record)} /\ own[p] \cap record.kinds # {}

\* The order of the matches: overlap, then the later ID.
Closer(p, m, n) ==
  LET x == jaccard(own[p], m.kinds)
      y == jaccard(own[p], n.kinds)
  IN More(x, y) \/ (~ More(y, x) /\ m.id > n.id)

\* A slip: a record that does not load is tried again.
CompareRetrying(p) ==
  /\ at[p] = "comparing" /\ todo[p] # {}
  /\ LET i == CHOOSE j \in todo[p] : \A k \in todo[p] : k <= j
     IN IF i \in DOMAIN records /\ Loads(records[i])
        THEN /\ todo' = [todo EXCEPT ![p] = @ \ {i}]
             /\ matches' =
                  IF Alike(p, records[i])
                  THEN [matches EXCEPT ![p] = Append(@, [id |-> i, kinds |-> records[i].kinds])]
                  ELSE matches
        ELSE UNCHANGED <<todo, matches>>
  /\ UNCHANGED <<world, records, delivered, at, request, observed, id, saved, own>>

\* Newest first; a record that is gone or does not load is skipped.
Compare(p) ==
  /\ at[p] = "comparing" /\ todo[p] # {}
  /\ LET i == CHOOSE j \in todo[p] : \A k \in todo[p] : k <= j
     IN /\ todo' = [todo EXCEPT ![p] = @ \ {i}]
        /\ matches' =
             IF i \in DOMAIN records /\ Loads(records[i]) /\ Alike(p, records[i])
             THEN [matches EXCEPT ![p] = Append(@, [id |-> i, kinds |-> records[i].kinds])]
             ELSE matches
  /\ UNCHANGED <<world, records, delivered, at, request, observed, id, saved, own>>

InOrder(p, list) ==
  [n \in 1..Len(list) |->
     list[CHOOSE k \in 1..Len(list) :
            Cardinality({j \in 1..Len(list) : Closer(p, list[j], list[k])}) = n - 1]]

UpTo(n, list) == SubSeq(list, 1, IF Len(list) < n THEN Len(list) ELSE n)

\* A slip: the list is cut before it is sorted.
CutThenSort(p, list) == InOrder(p, UpTo(TopN, list))

Shown(p, list) == UpTo(TopN, InOrder(p, list))

ShowSimilar(p) ==
  /\ at[p] = "comparing" /\ todo[p] = {}
  /\ matches' = [matches EXCEPT ![p] = Shown(p, @)]
  /\ Go(p, "done")
  /\ UNCHANGED <<world, records, delivered, request, observed, id, saved, own, todo>>

-------------------------------------------------------------------------------

Step(p) ==
  \/ Invoke(p) \/ Connect(p) \/ ConnectFails(p) \/ CompleteTarget(p) \/ Investigate(p)
  \/ CreateRecord(p) \/ WriteSome(p) \/ WriteRest(p) \/ SaveFails(p)
  \/ NoWebhook(p) \/ NotifyArrives(p) \/ NotifyFails(p)
  \/ NoRecordToCompare(p) \/ OwnUnreadable(p) \/ LoadOwn(p) \/ ListRecords(p) \/ Compare(p)
  \/ ShowSimilar(p)

Next ==
  \/ SwitchContext \/ RemoveRecord
  \/ \E p \in Processes : Killed(p) \/ Step(p)

\* A process runs on; the webhook is given up after ten seconds.
Fairness == \A p \in Processes : WF_vars(Step(p))

Spec == Init /\ [][Next]_vars /\ Fairness
-------------------------------------------------------------------------------
(* Properties. *)

\* The variables keep their types; a path that Save returned is that of a file.
TypeOK ==
  /\ current \in Contexts /\ switches \in 0..MaxSwitches
  /\ DOMAIN records \subseteq DOMAIN Past \cup NewIds
  /\ \A i \in DOMAIN records : records[i] \in RecordSet
  /\ removed \subseteq Removable
  /\ \A n \in delivered : n.record \in NewIds \cup {0}
  /\ at \in [Processes -> Final \cup {"start", "scoped", "connected", "ready", "built", "open",
                                     "saved", "notified", "listing", "comparing"}]
  /\ \A p \in Processes :
       /\ client[p] \in Contexts \cup {""} /\ cluster[p] \in Clusters \cup {NoCluster}
       /\ observed[p] \subseteq Kinds
       /\ id[p] \in NewIds \cup {0}
       /\ saved[p] => id[p] \in DOMAIN records
       /\ todo[p] \subseteq DOMAIN Past \cup NewIds

\* The tags that name a cluster: the derived one, the one the settings give to every context
\* without its own, and those of the profiles of its contexts.
TagsOf(c, file) ==
  {ClusterID(c)} \cup ({file.top.clusterId} \ {""})
  \cup {file.clusters[x].clusterId :
           x \in {y \in DOMAIN file.clusters \cap Contexts : Cluster(y) = c}}

\* If a context is named by the flag, or not at all, a record is tagged with the cluster
\* it was read from, whatever profiles the settings hold and however often kubectl
\* switches: buildLiveCollectors takes the client and the tag from one choice.
TagNamesTheCluster ==
  \A p \in Processes : cluster[p] # NoCluster =>
    LET r == asked[p]
    IN r.context # "" \/ Chosen(r) = "" => tag[p] \in TagsOf(cluster[p], r.file)

\* A notification that names a record names one that is complete, of the target and the
\* cluster it tells, unless another command was given the same file in the same second: it
\* is sent after Save, and Save may have failed half way.
NotifiedOfSaved ==
  \A n \in delivered : n.record # 0 /\ ~ Shared(n.record) =>
    /\ n.record \in DOMAIN records
    /\ records[n.record].lines = "whole"
    /\ records[n.record].target = n.target /\ records[n.record].tag = n.tag

RecordOf(i) == IF i \in DOMAIN records THEN records[i] ELSE Past[i]

\* The similar incidents shown are others of the same cluster, never the incident itself
\* and never one without a tag (memory.go:99-105, :117-122), though records are written
\* and removed while they are listed and loaded.  What a file of two commands says of its
\* cluster may change after it was loaded.
SimilarIsScoped ==
  \A p \in Processes : at[p] = "done" =>
    \A n \in 1..Len(matches[p]) :
      /\ matches[p][n].id # id[p]
      /\ Shared(matches[p][n].id) \/ RecordOf(matches[p][n].id).tag = tag[p]
      /\ own[p] \cap matches[p][n].kinds # {}

\* No past incident of the cluster that is still there is passed over for one that is less
\* alike, or equally alike and older, whenever the own record can be read, and a record
\* that no other command wrote into always can.
SimilarFindsBest ==
  \A p \in Processes : at[p] = "done" /\ saved[p] /\ (Shared(id[p]) => own[p] # NoOwn) =>
    \A i \in DOMAIN Past \ removed :
      Loads(Past[i]) /\ Alike(p, Past[i]) =>
        LET shown == {matches[p][n] : n \in 1..Len(matches[p])}
            entry == [id |-> i, kinds |-> Past[i].kinds]
        IN entry \in shown \/ Cardinality({m \in shown : Closer(p, m, entry)}) = TopN

\* What a request means, whichever door it comes through: a namespace in the reference
\* goes before --namespace, the settings and the context the cluster is read by, a window
\* on the command line before the payload, the settings and the default.
Named(r) == IF r.door = "alert" THEN Parse(r.payload).target ELSE parseTarget(r.arg, "")
GivenNamespace(r) == FirstNot("", <<Named(r).ns, r.namespace, Effective(r).namespace>>)
MeantNamespace(p) ==
  IF GivenNamespace(asked[p]) # "" \/ Named(asked[p]).kind \in {"namespace", "node"}
  THEN GivenNamespace(asked[p])
  ELSE FirstNot("", <<Namespace(client[p]), "default">>)

\* No part of the argument is missing, as one is in pod//web-1.
WellFormed(r) == r.door = "alert" \/ \A i \in 1..Len(r.arg) : r.arg[i] # ""

MeantWindow(r) ==
  FirstNot(0, <<ParseDuration(r.since), IF r.door = "alert" THEN Parse(r.payload).window ELSE 0,
                IF ParseDuration(Effective(r).since) = Invalid THEN 0
                ELSE ParseDuration(Effective(r).since), DefaultWindow>>)

\* Both commands investigate what the request means, though the namespace is resolved in
\* three places.  Where the kubeconfig has to say the namespace, this is if it still says
\* at the second read what it said at the first.
ScopeIsMeant ==
  [][\A p \in Processes : at[p] = "connected" /\ at'[p] = "ready" =>
       /\ scope'[p].target.kind = Named(asked[p]).kind
       /\ WellFormed(asked[p]) /\ (GivenNamespace(asked[p]) # "" \/ contextOf(p) = client[p]) =>
            scope'[p].target.ns = MeantNamespace(p)
       /\ scope'[p].window = MeantWindow(asked[p])]_vars

\* Every command ends, whatever the webhook and the records of others do.
Finishes == \A p \in Processes : <>(at[p] \in Final)
===============================================================================
