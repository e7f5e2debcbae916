SPECIFICATION Spec
CONSTANTS
  p1 = p1
  p2 = p2
  Strings <- AllStrings
  Generated = {"web-1", "web-2"}
  Processes = {p1, p2}
  Requests <- Beside
  Contexts = {"prod"}
  Cluster <- ClusterOf
  Namespace <- NamespaceOf
  Clusters = {"east"}
  ClusterID <- TagOf
  slug <- SlugOf
  Kinds = {"log", "event"}
  Views <- BothKinds
  Past <- Store
  NewIds = {5, 6}
  TopN = 1
  MaxSwitches = 0
  Removable = {3}
  NoCluster = NoCluster
  NoOwn = NoOwn
INVARIANTS
  TypeOK
  NotifiedOfSaved
  SimilarIsScoped
  SimilarFindsBest
PROPERTIES
  Finishes
CHECK_DEADLOCK FALSE
