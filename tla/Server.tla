-------------------------------- MODULE Server --------------------------------
(***************************************************************************)
(* `kubetective serve`: HTTP handlers that investigate at the same time, with    *)
(* one engine and so one Kubernetes collector between them; its shutdown; and     *)
(* the ways back into a record, `kubetective replay` and `action` on the command   *)
(* line, and the tools of the MCP server.                                       *)
(*                                                                         *)
(* Of an investigation the model keeps what handlers share: the collector's map    *)
(* from a namespace to its list of services.  What the engine does with the rest     *)
(* is in Investigation, the file of the record in IncidentStore.                  *)
(***************************************************************************)
EXTENDS Integers, Sequences, FiniteSets

CONSTANTS
  Clients,       \* requests to POST /v1/investigate
  Bodies,        \* their bodies: the target, split at "/", and the namespace
  Namespaces,    \* namespaces of the cluster
  MaxVersion,    \* bound on the changes to the services of a namespace
  MaxLooks,      \* bound on the pods one investigation looks up services for
  NoList, NoRef, NoReplay

ASSUME ServerAssumption ==
  /\ MaxVersion \in Nat /\ MaxLooks \in Nat
  /\ NoList \notin [namespace : Namespaces, version : 0..MaxVersion]

VARIABLES
  services,      \* namespace -> the version of its services in the cluster
  svcCache,      \* namespace -> the list in the map of the collector, or NoList
  process,       \* up, draining, ended, cutOff, crashed
  pc,            \* client -> where its handler is
  ref,           \* client -> the target its handler parsed
  looks,         \* client -> lookups of its investigation so far
  listed,        \* client -> the list the API server gave its handler
  views,         \* client -> the lists its investigation went by
  cancelled,     \* clients that went away while their handler works
  records,       \* the saved records: whose, and the text of the target
  replay         \* the last replay of a record

vars == <<services, svcCache, process, pc, ref, looks, listed, views, cancelled, records,
          replay>>

List(ns) == [namespace |-> ns, version |-> services[ns]]

Lists == [namespace : Namespaces, version : 0..MaxVersion]

-------------------------------------------------------------------------------
(* References as text. *)

\* A slip: the namespace first, as parseRef has it.
StringNamespaceFirst(r) ==
  IF r.namespace = "" THEN <<r.kind, r.name>> ELSE <<r.namespace, r.kind, r.name>>

\* ResourceRef.String.
String(r) ==
  IF r.namespace = "" THEN <<r.kind, r.name>> ELSE <<r.kind, r.namespace, r.name>>

Named(r) == IF r.kind = "" \/ r.name = "" THEN NoRef ELSE r

\* The server's.
parseRef(parts, ns) ==
  CASE Len(parts) = 2 -> Named([kind |-> parts[1], namespace |-> ns, name |-> parts[2]])
    [] Len(parts) = 3 -> Named([namespace |-> parts[1], kind |-> parts[2], name |-> parts[3]])
    [] OTHER -> NoRef

\* The command line's.
parseResourceRef(parts, ns) ==
  CASE Len(parts) = 1 -> Named([kind |-> "pod", namespace |-> ns, name |-> parts[1]])
    [] Len(parts) = 2 -> Named([kind |-> parts[1], namespace |-> ns, name |-> parts[2]])
    [] Len(parts) = 3 -> Named([kind |-> parts[1], namespace |-> parts[2], name |-> parts[3]])
    [] OTHER -> NoRef

Refs == {parseRef(b.target, b.namespace) : b \in Bodies}

\* The namespace in which the collector looks for pods; a kind it does not know is an
\* error and so an evidence gap.  Kinds stand for their lower-case form.
podNamespace(r) ==
  CASE r.kind \in {"pod", "deployment", "deploy"} -> r.namespace
    [] r.kind \in {"namespace", "ns"} -> IF r.namespace = "" THEN r.name ELSE r.namespace
    [] OTHER -> ""

-------------------------------------------------------------------------------

Init ==
  /\ services = [ns \in Namespaces |-> 0]
  /\ svcCache = [ns \in Namespaces |-> NoList]
  /\ process = "up"
  /\ pc = [h \in Clients |-> "new"]
  /\ ref = [h \in Clients |-> NoRef]
  /\ looks = [h \in Clients |-> 0]
  /\ listed = [h \in Clients |-> NoList]
  /\ views = [h \in Clients |-> {}]
  /\ cancelled = {} /\ records = {}
  /\ replay = NoReplay

Running == process \in {"up", "draining"}
InFlight(h) == pc[h] \notin {"new", "done"}
Goes(h, place) == pc' = [pc EXCEPT ![h] = place]

collecting == <<svcCache, looks, listed, views>>
saving == <<records, replay>>

\* Decode the body and parse the target; a body that cannot be used is answered at once.
Accept(h) ==
  /\ process = "up" /\ pc[h] = "new"
  /\ \E b \in Bodies :
       /\ ref' = [ref EXCEPT ![h] = parseRef(b.target, b.namespace)]
       /\ Goes(h, IF parseRef(b.target, b.namespace) = NoRef THEN "answer" ELSE "collect")
  /\ UNCHANGED <<services, process, collecting, cancelled, saving>>

(* servicesInNamespace, once for every pod of every Collect. *)

LooksFor(h) ==
  /\ Running /\ pc[h] = "collect" /\ looks[h] < MaxLooks
  /\ podNamespace(ref[h]) \in Namespaces

\* A pod is done with once its services and its autoscaler are looked up; for the latter
\* a pod of a ReplicaSet has the owner of that asked for (topControllerName).
Looked(h) ==
  /\ looks' = [looks EXCEPT ![h] = @ + 1]
  /\ \E place \in {"collect", "owner"} : Goes(h, place)

\* A slip: the map is not keyed by namespace.
LookupAnyNamespace(h) ==
  /\ LooksFor(h)
  /\ \E ns \in Namespaces :
       /\ svcCache[ns] # NoList
       /\ views' = [views EXCEPT ![h] = @ \cup {svcCache[ns]}]
  /\ Looked(h)
  /\ UNCHANGED <<services, process, ref, svcCache, listed, cancelled, saving>>

LookupHit(h) ==
  /\ LooksFor(h) /\ svcCache[podNamespace(ref[h])] # NoList
  /\ views' = [views EXCEPT ![h] = @ \cup {svcCache[podNamespace(ref[h])]}]
  /\ Looked(h)
  /\ UNCHANGED <<services, process, ref, svcCache, listed, cancelled, saving>>

LookupMiss(h) ==
  /\ LooksFor(h) /\ svcCache[podNamespace(ref[h])] = NoList
  /\ Goes(h, "list")
  /\ UNCHANGED <<services, process, ref, collecting, cancelled, saving>>

ListOk(h) ==
  /\ Running /\ pc[h] = "list"
  /\ listed' = [listed EXCEPT ![h] = List(podNamespace(ref[h]))]
  /\ Goes(h, "store")
  /\ UNCHANGED <<services, process, ref, svcCache, looks, views, cancelled, saving>>

\* Without services the pod is observed all the same.
GivesUpListing(h) ==
  /\ Running /\ pc[h] = "list"
  /\ Looked(h)
  /\ UNCHANGED <<services, process, ref, svcCache, listed, views, cancelled, saving>>

\* A slip: the error is dropped and the empty answer kept in the map.
ListFailsUnchecked(h) ==
  /\ Running /\ pc[h] = "list"
  /\ Goes(h, "store")
  /\ UNCHANGED <<services, process, ref, collecting, cancelled, saving>>

ListFails(h) == h \notin cancelled /\ GivesUpListing(h)

\* A slip: the call has the context of the server and not that of the request.
ListCancelledByServer(h) == process = "draining" /\ GivesUpListing(h)

\* The request's context ends the call.
ListCancelled(h) == h \in cancelled /\ GivesUpListing(h)

\* The write to the map takes its time.
BeginStore(h) ==
  /\ Running /\ pc[h] = "store"
  /\ Goes(h, "storing")
  /\ UNCHANGED <<services, process, ref, collecting, cancelled, saving>>

EndStore(h) ==
  /\ Running /\ pc[h] = "storing"
  /\ svcCache' = [svcCache EXCEPT ![podNamespace(ref[h])] = listed[h]]
  /\ views' = [views EXCEPT ![h] = @ \cup {listed[h]}]
  /\ listed' = [listed EXCEPT ![h] = NoList]
  /\ Looked(h)
  /\ UNCHANGED <<services, process, ref, cancelled, saving>>

\* The answer for the owner: this call has the context of nobody, and nothing ends it.
OwnerAnswers(h) ==
  /\ Running /\ pc[h] = "owner"
  /\ Goes(h, "collect")
  /\ UNCHANGED <<services, process, ref, collecting, cancelled, saving>>

\* Two goroutines in one map, one of them writing: the Go runtime may notice, and then
\* it ends the process.
MapRace(h) ==
  /\ LooksFor(h) \/ (Running /\ pc[h] = "store")
  /\ \E other \in Clients \ {h} : pc[other] = "storing"
  /\ process' = "crashed"
  /\ UNCHANGED <<services, pc, ref, collecting, cancelled, saving>>

\* The engine returns its result, the lookups done or not (there may be fewer pods).
EndInvestigation(h) ==
  /\ Running /\ pc[h] = "collect"
  /\ looks' = [looks EXCEPT ![h] = 0]
  /\ views' = [views EXCEPT ![h] = {}]
  /\ Goes(h, "save")
  /\ UNCHANGED <<services, process, ref, svcCache, listed, cancelled, saving>>

\* The file is named by the second and the name of the target (slug), and truncated.
\* Two investigations of one name in one second write one file: it keeps one of them or,
\* their lines mixed, neither.  How the file is written is in IncidentStore.
Save(h) ==
  LET own == [of |-> h, target |-> String(ref[h])]
  IN  /\ Running /\ pc[h] = "save"
      /\ \/ records' = records \cup {own}
         \/ \E other \in records :
              /\ ref[other.of].name = ref[h].name
              /\ \E kept \in {{}, {other}, {own}} :
                   records' = (records \ {other}) \cup kept
      /\ Goes(h, "answer")
      /\ UNCHANGED <<services, process, ref, collecting, cancelled, replay>>

SaveFails(h) ==
  /\ Running /\ pc[h] = "save"
  /\ Goes(h, "answer")
  /\ UNCHANGED <<services, process, ref, collecting, cancelled, saving>>

Answer(h) ==
  /\ Running /\ pc[h] = "answer"
  /\ cancelled' = cancelled \ {h}
  /\ Goes(h, "done")
  /\ UNCHANGED <<services, process, ref, collecting, saving>>

\* net/http cancels the context of the request.
Disconnect(h) ==
  /\ Running /\ InFlight(h) /\ h \notin cancelled
  /\ cancelled' = cancelled \cup {h}
  /\ UNCHANGED <<services, process, pc, ref, collecting, saving>>

-------------------------------------------------------------------------------
(* The process. *)

\* SIGINT or SIGTERM: Shutdown closes the listener and waits for the handlers.
Signal ==
  /\ process = "up"
  /\ process' = "draining"
  /\ UNCHANGED <<services, pc, ref, collecting, cancelled, saving>>

Drained ==
  /\ process = "draining" /\ \A h \in Clients : ~InFlight(h)
  /\ process' = "ended"
  /\ UNCHANGED <<services, pc, ref, collecting, cancelled, saving>>

\* A slip: the time is looked at between two steps of the handlers only.
DeadlineBetweenSteps ==
  /\ process = "draining" /\ \E h \in Clients : InFlight(h)
  /\ \A h \in Clients : pc[h] # "list"
  /\ process' = "cutOff"
  /\ UNCHANGED <<services, pc, ref, collecting, cancelled, saving>>

\* Ten seconds have passed: Shutdown fails and main exits under the handlers.
Deadline ==
  /\ process = "draining" /\ \E h \in Clients : InFlight(h)
  /\ process' = "cutOff"
  /\ UNCHANGED <<services, pc, ref, collecting, cancelled, saving>>

\* Somebody creates, changes or deletes a service.
ServicesChange(ns) ==
  /\ services[ns] < MaxVersion
  /\ services' = [services EXCEPT ![ns] = @ + 1]
  /\ UNCHANGED <<svcCache, process, pc, ref, looks, listed, views, cancelled, saving>>

\* A record is loaded and investigated again: with the target that its text gives, or a
\* made-up one.
Replay(door) ==
  /\ \E rec \in records :
       LET parsed == IF door = "mcp" THEN parseRef(rec.target, "")
                     ELSE parseResourceRef(rec.target, "")
       IN  replay' = [door |-> door, of |-> rec.of,
                      ref |-> IF parsed # NoRef THEN parsed
                              ELSE [kind |-> "pod", namespace |-> "", name |-> "scenario"]]
  /\ UNCHANGED <<services, process, pc, ref, collecting, cancelled, records>>

-------------------------------------------------------------------------------

\* What a handler does without waiting for others.
Handler(h) ==
  \/ LookupHit(h) \/ LookupMiss(h) \/ ListCancelled(h) \/ BeginStore(h) \/ EndStore(h)
  \/ EndInvestigation(h) \/ Save(h) \/ SaveFails(h) \/ Answer(h)

Next ==
  \/ \E h \in Clients :
       \/ Accept(h) \/ Handler(h) \/ ListOk(h) \/ ListFails(h) \/ OwnerAnswers(h)
       \/ MapRace(h) \/ Disconnect(h)
  \/ Signal \/ Drained \/ Deadline
  \/ \E ns \in Namespaces : ServicesChange(ns)
  \/ \E door \in {"cli", "mcp"} : Replay(door)

\* Goroutines are scheduled and the timer of Shutdown fires; the API server may never
\* answer.
Spec ==
  /\ Init /\ [][Next]_vars
  /\ \A h \in Clients : WF_vars(Handler(h))
  /\ WF_vars(Drained) /\ WF_vars(Deadline)

-------------------------------------------------------------------------------
(* Properties. *)

\* Every variable keeps its type; a handler holds a list exactly while it stores it.
TypeOK ==
  /\ services \in [Namespaces -> 0..MaxVersion]
  /\ svcCache \in [Namespaces -> Lists \cup {NoList}]
  /\ process \in {"up", "draining", "ended", "cutOff", "crashed"}
  /\ pc \in [Clients -> {"new", "collect", "list", "store", "storing", "owner", "save",
                         "answer", "done"}]
  /\ ref \in [Clients -> Refs \cup {NoRef}]
  /\ looks \in [Clients -> 0..MaxLooks]
  /\ listed \in [Clients -> Lists \cup {NoList}]
  /\ views \in [Clients -> SUBSET Lists]
  /\ cancelled \subseteq Clients
  /\ records \subseteq [of : Clients, target : {String(r) : r \in Refs \ {NoRef}}]
  /\ \A h \in Clients :
       /\ pc[h] \in {"store", "storing"} <=> listed[h] # NoList
       /\ pc[h] \in {"collect", "list", "store", "storing", "owner", "save"} => ref[h] # NoRef

\* Handlers that share the map never go by the services of another namespace, or by
\* a list that the cluster has not had, in whatever order their lists arrive.
ListsAreReal ==
  \A h \in Clients : \A l \in views[h] :
    l.namespace = podNamespace(ref[h]) /\ l.version <= services[l.namespace]

\* root.go:570: the command line reads a target in the form in which records keep it, so
\* a replay is about the resource that was investigated, however the request wrote it.
ReplayFindsTarget ==
  replay # NoReplay /\ replay.door = "cli" => replay.ref = ref[replay.of]

\* After a signal serve does end, also if the API server never answers.
DrainEnds == process = "draining" ~> process \in {"ended", "cutOff", "crashed"}

\* A client that goes away frees its handler, also if the API server never answers: the
\* context of the request ends every call but the one for the owner of a ReplicaSet
\* (kubernetes/collector.go:420), and only there can the handler stay.
FreesItsHandler ==
  \A h \in Clients :
    h \in cancelled ~> (~InFlight(h) \/ ~Running \/ [](pc[h] = "owner"))

-------------------------------------------------------------------------------
(* What a comment says and the code does not keep. *)

\* kubernetes/collector.go:29-30: the cache is safe, since the engine runs collectors one
\* after the other.
MapIsSafe == process # "crashed"

===============================================================================
