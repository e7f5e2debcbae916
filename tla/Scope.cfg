SPECIFICATION Spec
CONSTANTS
  p1 = p1
  p2 = p2
  Strings <- AllStrings
  Generated = {"web-1", "web-2"}
  Processes = {p1}
  Requests <- Anything
  Contexts = {"prod", "staging"}
  Cluster <- ClusterOf
  Namespace <- NamespaceOf
  Clusters = {"east", "west"}
  ClusterID <- TagOf
  slug <- SlugOf
  Kinds = {"log", "event"}
  Views <- AllViews
  Past <- Store
  NewIds = {5}
  TopN = 1
  MaxSwitches = 1
  Removable = {3}
  NoCluster = NoCluster
  NoOwn = NoOwn
INVARIANTS
  TagNamesTheCluster
PROPERTIES
  ScopeIsMeant
CHECK_DEADLOCK FALSE
