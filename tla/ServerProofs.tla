------------------------------ MODULE ServerProofs ------------------------------
(***************************************************************************)
(* What holds of Server for any number of clients and namespaces, whatever they  *)
(* ask for.                                                                   *)
(***************************************************************************)
EXTENDS Server, TLAPS

\* A handler that is at a lookup may make one, and knows its namespace.
LookupsAreOwed ==
  \A h \in Clients : pc[h] \in {"list", "store", "storing"} =>
    looks[h] < MaxLooks /\ podNamespace(ref[h]) \in Namespaces

\* The list is of that namespace, and the cluster has had it.
Real(list, ns) == list.namespace = ns /\ list.version <= services[ns]

CacheIsReal == \A ns \in Namespaces : svcCache[ns] # NoList => Real(svcCache[ns], ns)

ListedIsReal ==
  \A h \in Clients : listed[h] # NoList => Real(listed[h], podNamespace(ref[h]))

NothingViewed == \A h \in Clients : pc[h] = "new" => views[h] = {}

RecordsTellTargets ==
  \A rec \in records :
    /\ rec.of \in Clients /\ pc[rec.of] # "new"
    /\ ref[rec.of] # NoRef /\ rec.target = String(ref[rec.of])

ReplaysAreOfRecords == replay # NoReplay => replay.of \in Clients /\ pc[replay.of] # "new"

IInv ==
  /\ TypeOK
  /\ LookupsAreOwed
  /\ CacheIsReal
  /\ ListedIsReal
  /\ NothingViewed
  /\ ListsAreReal
  /\ RecordsTellTargets
  /\ ReplaysAreOfRecords
  /\ ReplayFindsTarget

-------------------------------------------------------------------------------

\* A target that a request was accepted with has a kind and a name.
LEMMA RefsHaveParts ==
  ASSUME NEW r \in Refs, r # NoRef
  PROVE  /\ r = [kind |-> r.kind, namespace |-> r.namespace, name |-> r.name]
         /\ r.kind # "" /\ r.name # ""
<1>1. PICK b \in Bodies : r = parseRef(b.target, b.namespace)
  BY DEF Refs
<1> DEFINE two == [kind |-> b.target[1], namespace |-> b.namespace, name |-> b.target[2]]
           three == [namespace |-> b.target[1], kind |-> b.target[2], name |-> b.target[3]]
<1>2. r = Named(two) \/ r = Named(three)
  BY <1>1 DEF parseRef
<1>3. CASE r = Named(two)
  BY <1>3 DEF Named
<1>4. CASE r = Named(three)
  BY <1>4 DEF Named
<1> QED BY <1>2, <1>3, <1>4

\* root.go:570: what the record says of a target, the command line reads back.
LEMMA TextTellsTarget ==
  ASSUME NEW r \in Refs, r # NoRef
  PROVE  parseResourceRef(String(r), "") = r
<1>1. /\ r = [kind |-> r.kind, namespace |-> r.namespace, name |-> r.name]
      /\ r.kind # "" /\ r.name # ""
  BY RefsHaveParts
<1>2. CASE r.namespace = ""
  <2>1. String(r) = <<r.kind, r.name>>
    BY <1>2 DEF String
  <2>2. parseResourceRef(String(r), "") =
          Named([kind |-> r.kind, namespace |-> "", name |-> r.name])
    BY <2>1 DEF parseResourceRef
  <2> QED BY <1>1, <1>2, <2>2 DEF Named
<1>3. CASE r.namespace # ""
  <2>1. String(r) = <<r.kind, r.namespace, r.name>>
    BY <1>3 DEF String
  <2>2. parseResourceRef(String(r), "") =
          Named([kind |-> r.kind, namespace |-> r.namespace, name |-> r.name])
    BY <2>1 DEF parseResourceRef
  <2> QED BY <1>1, <2>2 DEF Named
<1> QED BY <1>2, <1>3

-------------------------------------------------------------------------------

LEMMA InvariantInit == Init => IInv
<1> SUFFICES ASSUME Init PROVE IInv
  OBVIOUS
<1>1. TypeOK
  BY ServerAssumption DEF Init, TypeOK, Lists
<1> QED
  BY <1>1 DEF Init, IInv, LookupsAreOwed, CacheIsReal, ListedIsReal, NothingViewed,
       ListsAreReal, RecordsTellTargets, ReplaysAreOfRecords, ReplayFindsTarget

\* Every step keeps the types and the lookups.
LEMMA TypesStep ==
  ASSUME IInv, [Next]_vars
  PROVE  TypeOK' /\ LookupsAreOwed'
<1> USE ServerAssumption DEF IInv, Goes, collecting, saving
<1>1. ASSUME NEW h \in Clients, Accept(h) PROVE TypeOK' /\ LookupsAreOwed'
  BY <1>1 DEF Accept, TypeOK, LookupsAreOwed, Refs
<1>2. ASSUME NEW h \in Clients, LookupHit(h) PROVE TypeOK' /\ LookupsAreOwed'
  BY <1>2 DEF LookupHit, Looked, LooksFor, TypeOK, LookupsAreOwed
<1>3. ASSUME NEW h \in Clients, LookupMiss(h) PROVE TypeOK' /\ LookupsAreOwed'
  BY <1>3 DEF LookupMiss, LooksFor, TypeOK, LookupsAreOwed
<1>4. ASSUME NEW h \in Clients, GivesUpListing(h) PROVE TypeOK' /\ LookupsAreOwed'
  BY <1>4 DEF GivesUpListing, Looked, TypeOK, LookupsAreOwed
<1>5. ASSUME NEW h \in Clients, ListOk(h) PROVE TypeOK' /\ LookupsAreOwed'
  <2>1. List(podNamespace(ref[h])) \in Lists
    BY <1>5 DEF ListOk, TypeOK, LookupsAreOwed, List, Lists
  <2>2. Lists = [namespace : Namespaces, version : 0..MaxVersion]
    BY DEF Lists
  <2> QED BY <1>5, <2>1, <2>2 DEF ListOk, TypeOK, LookupsAreOwed
<1>6. ASSUME NEW h \in Clients, BeginStore(h) PROVE TypeOK' /\ LookupsAreOwed'
  BY <1>6 DEF BeginStore, TypeOK, LookupsAreOwed
<1>7. ASSUME NEW h \in Clients, EndStore(h) PROVE TypeOK' /\ LookupsAreOwed'
  BY <1>7 DEF EndStore, Looked, TypeOK, LookupsAreOwed
<1>17. ASSUME NEW h \in Clients, OwnerAnswers(h) PROVE TypeOK' /\ LookupsAreOwed'
  BY <1>17 DEF OwnerAnswers, TypeOK, LookupsAreOwed
<1>8. ASSUME NEW h \in Clients, MapRace(h) PROVE TypeOK' /\ LookupsAreOwed'
  BY <1>8 DEF MapRace, TypeOK, LookupsAreOwed
<1>9. ASSUME NEW h \in Clients, EndInvestigation(h) PROVE TypeOK' /\ LookupsAreOwed'
  BY <1>9 DEF EndInvestigation, TypeOK, LookupsAreOwed
<1>10. ASSUME NEW h \in Clients, Save(h) PROVE TypeOK' /\ LookupsAreOwed'
  <2>1. ref[h] \in Refs \ {NoRef}
    BY <1>10 DEF Save, TypeOK
  <2>2. [of |-> h, target |-> String(ref[h])]
          \in [of : Clients, target : {String(r) : r \in Refs \ {NoRef}}]
    BY <2>1
  <2>3. records' \subseteq records \cup {[of |-> h, target |-> String(ref[h])]}
    BY <1>10 DEF Save
  <2>4. records' \subseteq [of : Clients, target : {String(r) : r \in Refs \ {NoRef}}]
    BY <2>2, <2>3 DEF TypeOK
  <2> QED BY <1>10, <2>4 DEF Save, TypeOK, LookupsAreOwed
<1>11. ASSUME NEW h \in Clients, SaveFails(h) \/ Answer(h) PROVE TypeOK' /\ LookupsAreOwed'
  BY <1>11 DEF SaveFails, Answer, TypeOK, LookupsAreOwed
<1>12. ASSUME NEW h \in Clients, Disconnect(h) PROVE TypeOK' /\ LookupsAreOwed'
  BY <1>12 DEF Disconnect, TypeOK, LookupsAreOwed
<1>13. CASE Signal \/ Drained \/ Deadline
  BY <1>13 DEF Signal, Drained, Deadline, TypeOK, LookupsAreOwed
<1>14. ASSUME NEW ns \in Namespaces, ServicesChange(ns) PROVE TypeOK' /\ LookupsAreOwed'
  BY <1>14 DEF ServicesChange, TypeOK, LookupsAreOwed
<1>15. ASSUME NEW door \in {"cli", "mcp"}, Replay(door) PROVE TypeOK' /\ LookupsAreOwed'
  BY <1>15 DEF Replay, TypeOK, LookupsAreOwed
<1>16. CASE UNCHANGED vars
  BY <1>16 DEF vars, TypeOK, LookupsAreOwed
<1> QED
  BY <1>1, <1>2, <1>3, <1>4, <1>5, <1>6, <1>7, <1>8, <1>9, <1>10, <1>11, <1>12, <1>13,
     <1>14, <1>15, <1>16, <1>17 DEF Next, Handler, ListFails, ListCancelled

ListParts == CacheIsReal /\ ListedIsReal /\ NothingViewed /\ ListsAreReal

\* Every step leaves the lists in the hands of the handlers and of the collector real.
LEMMA ListsStep ==
  ASSUME IInv, [Next]_vars
  PROVE  ListParts'
<1> USE ServerAssumption
    DEF IInv, Goes, collecting, saving, ListParts, CacheIsReal, ListedIsReal, NothingViewed,
        ListsAreReal, Real
<1> DEFINE AllTheSame == UNCHANGED <<services, svcCache, listed, views, ref>>
<1>0. ASSUME AllTheSame, \A h \in Clients : pc'[h] = "new" => pc[h] = "new"
      PROVE  ListParts'
  BY <1>0
<1>1. ASSUME NEW h \in Clients, Accept(h) PROVE ListParts'
  <2>1. views[h] = {} /\ listed[h] = NoList
    BY <1>1 DEF Accept, TypeOK
  <2> QED BY <1>1, <2>1 DEF Accept, TypeOK
<1>2. ASSUME NEW h \in Clients, LookupHit(h) PROVE ListParts'
  BY <1>2 DEF LookupHit, Looked, LooksFor, TypeOK
<1>3. ASSUME NEW h \in Clients, LookupMiss(h) \/ GivesUpListing(h) \/ OwnerAnswers(h)
      PROVE ListParts'
  BY <1>3, <1>0 DEF LookupMiss, OwnerAnswers, Looked, LooksFor, GivesUpListing, TypeOK
<1>4. ASSUME NEW h \in Clients, ListOk(h) PROVE ListParts'
  <2>1. /\ podNamespace(ref[h]) \in Namespaces
        /\ services[podNamespace(ref[h])] \in Nat
    BY <1>4 DEF ListOk, LookupsAreOwed, TypeOK
  <2> QED BY <1>4, <2>1 DEF ListOk, TypeOK, List
<1>5. ASSUME NEW h \in Clients, BeginStore(h) PROVE ListParts'
  BY <1>5, <1>0 DEF BeginStore, TypeOK
<1>6. ASSUME NEW h \in Clients, EndStore(h) PROVE ListParts'
  <2>1. podNamespace(ref[h]) \in Namespaces /\ listed[h] # NoList
    BY <1>6 DEF EndStore, Looked, LookupsAreOwed, TypeOK
  <2> QED BY <1>6, <2>1 DEF EndStore, Looked, TypeOK
<1>7. ASSUME NEW h \in Clients, MapRace(h) \/ Disconnect(h) PROVE ListParts'
  BY <1>7 DEF MapRace, Disconnect
<1>8. ASSUME NEW h \in Clients, EndInvestigation(h) PROVE ListParts'
  BY <1>8 DEF EndInvestigation, TypeOK
<1>9. ASSUME NEW h \in Clients, Save(h) \/ SaveFails(h) \/ Answer(h) PROVE ListParts'
  BY <1>9, <1>0 DEF Save, SaveFails, Answer, TypeOK
<1>10. CASE Signal \/ Drained \/ Deadline
  BY <1>10 DEF Signal, Drained, Deadline
<1>11. ASSUME NEW ns \in Namespaces, ServicesChange(ns) PROVE ListParts'
  <2>1. \A n \in Namespaces : services[n] \in Nat /\ services'[n] \in Nat
                            /\ services[n] <= services'[n]
    BY <1>11 DEF ServicesChange, TypeOK
  <2>2. \A l \in Lists : l.namespace \in Namespaces /\ l.version \in Nat
    BY DEF Lists
  <2> QED BY <1>11, <2>1, <2>2 DEF ServicesChange, TypeOK
<1>12. ASSUME NEW door \in {"cli", "mcp"}, Replay(door) PROVE ListParts'
  BY <1>12 DEF Replay
<1>13. CASE UNCHANGED vars
  BY <1>13 DEF vars
<1> QED
  BY <1>1, <1>2, <1>3, <1>4, <1>5, <1>6, <1>7, <1>8, <1>9, <1>10, <1>11, <1>12, <1>13
     DEF Next, Handler, ListFails, ListCancelled

RecordParts == RecordsTellTargets /\ ReplaysAreOfRecords /\ ReplayFindsTarget

\* Every step keeps what records and replays say of their targets.
LEMMA RecordsStep ==
  ASSUME IInv, [Next]_vars
  PROVE  RecordParts'
<1> USE DEF IInv, Goes, collecting, saving, RecordParts
<1>0. ASSUME UNCHANGED <<records, replay, ref>>,
             \A h \in Clients : pc[h] # "new" => pc'[h] # "new"
      PROVE  RecordParts'
  BY <1>0 DEF RecordsTellTargets, ReplaysAreOfRecords, ReplayFindsTarget
<1>1. ASSUME NEW h \in Clients, Accept(h) PROVE RecordParts'
  <2>1. \A rec \in records : rec.of # h /\ pc'[rec.of] # "new"
    BY <1>1 DEF Accept, RecordsTellTargets, TypeOK
  <2>3. replay # NoReplay => replay.of # h /\ pc'[replay.of] # "new"
    BY <1>1 DEF Accept, ReplaysAreOfRecords, TypeOK
  <2> QED BY <1>1, <2>1, <2>3 DEF Accept, RecordsTellTargets, ReplaysAreOfRecords,
          ReplayFindsTarget, TypeOK
<1>2. ASSUME NEW h \in Clients,
             LookupHit(h) \/ LookupMiss(h) \/ ListOk(h) \/ GivesUpListing(h)
               \/ BeginStore(h) \/ EndStore(h) \/ OwnerAnswers(h) \/ MapRace(h)
               \/ EndInvestigation(h)
      PROVE RecordParts'
  BY <1>2, <1>0 DEF LookupHit, Looked, LookupMiss, ListOk, GivesUpListing, BeginStore, EndStore,
     OwnerAnswers, MapRace, EndInvestigation, TypeOK
<1>3. ASSUME NEW h \in Clients, Save(h) PROVE RecordParts'
  <2> DEFINE new == [of |-> h, target |-> String(ref[h])]
  <2>1. /\ ref[h] # NoRef /\ records' \subseteq records \cup {new}
        /\ UNCHANGED <<ref, replay>>
        /\ \A g \in Clients : pc[g] # "new" => pc'[g] # "new"
        /\ pc'[h] # "new"
    BY <1>3 DEF Save, TypeOK
  <2>2. new.of = h /\ new.target = String(ref[h])
    OBVIOUS
  <2> HIDE DEF new
  <2>3. RecordsTellTargets'
    BY <2>1, <2>2 DEF RecordsTellTargets
  <2>4. ReplaysAreOfRecords' /\ ReplayFindsTarget'
    BY <2>1 DEF ReplaysAreOfRecords, ReplayFindsTarget
  <2> QED BY <2>3, <2>4
<1>4. ASSUME NEW h \in Clients, SaveFails(h) \/ Answer(h) \/ Disconnect(h)
      PROVE RecordParts'
  BY <1>4, <1>0 DEF SaveFails, Answer, Disconnect, TypeOK
<1>5. CASE Signal \/ Drained \/ Deadline
  BY <1>5, <1>0 DEF Signal, Drained, Deadline
<1>6. ASSUME NEW ns \in Namespaces, ServicesChange(ns) PROVE RecordParts'
  BY <1>6, <1>0 DEF ServicesChange
<1>7. ASSUME NEW door \in {"cli", "mcp"}, Replay(door) PROVE RecordParts'
  <2> DEFINE Parsed(rec) == IF door = "mcp" THEN parseRef(rec.target, "")
                            ELSE parseResourceRef(rec.target, "")
             Target(rec) == IF Parsed(rec) # NoRef THEN Parsed(rec)
                            ELSE [kind |-> "pod", namespace |-> "", name |-> "scenario"]
  <2>0. \E rec \in records :
          replay' = [door |-> door, of |-> rec.of, ref |-> Target(rec)]
    BY <1>7, Zenon DEF Replay
  <2>1. PICK rec \in records :
          replay'.of = rec.of /\ replay'.door = door /\ replay'.ref = Target(rec)
    <3> HIDE DEF Target
    <3> QED BY <2>0
  <2>2. rec.of \in Clients /\ pc[rec.of] # "new" /\ rec.target = String(ref[rec.of])
    BY DEF RecordsTellTargets
  <2>3. ref[rec.of] \in Refs /\ ref[rec.of] # NoRef
    BY <2>2 DEF RecordsTellTargets, TypeOK
  <2>4. replay'.door = "cli" => replay'.ref = ref[replay'.of]
    BY <2>1, <2>2, <2>3, TextTellsTarget
  <2> QED BY <1>7, <2>1, <2>2, <2>4 DEF Replay, RecordsTellTargets, ReplaysAreOfRecords,
          ReplayFindsTarget
<1>8. CASE UNCHANGED vars
  BY <1>8, <1>0 DEF vars
<1> QED
  BY <1>1, <1>2, <1>3, <1>4, <1>5, <1>6, <1>7, <1>8
     DEF Next, Handler, ListFails, ListCancelled

LEMMA InvariantStep == IInv /\ [Next]_vars => IInv'
<1> SUFFICES ASSUME IInv, [Next]_vars PROVE IInv'
  OBVIOUS
<1> QED
  BY TypesStep, ListsStep, RecordsStep DEF IInv, ListParts, RecordParts

-------------------------------------------------------------------------------

\* The invariant holds of every run of the server.
THEOREM Invariance == Spec => []IInv
<1> QED
  BY InvariantInit, InvariantStep, PTL DEF Spec

\* Every variable keeps its type (the fields of REST, of the collector and the locals of
\* handleInvestigate and servicesInNamespace).
THEOREM TypeCorrect == Spec => []TypeOK
<1>1. IInv => TypeOK
  BY DEF IInv
<1> QED
  BY Invariance, <1>1, PTL

\* No investigation goes by services of another namespace, or by a list the cluster has
\* not had, for any number of handlers that share the map (servicesInNamespace).
THEOREM HandlersGoByRealLists == Spec => []ListsAreReal
<1>1. IInv => ListsAreReal
  BY DEF IInv
<1> QED
  BY Invariance, <1>1, PTL

\* The command line replays the resource that was investigated, for every way to write a
\* target (String and parseResourceRef are inverse on what parseRef accepts).
THEOREM ReplaysFindTargets == Spec => []ReplayFindsTarget
<1>1. IInv => ReplayFindsTarget
  BY DEF IInv
<1> QED
  BY Invariance, <1>1, PTL
===============================================================================
