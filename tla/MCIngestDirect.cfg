SPECIFICATION FairSpec
CONSTANTS
  a = a  b = b  c = c  proxy = proxy
  ipA = ipA  ipB = ipB  ipC = ipC
  default = default  infra = infra  root = root  other = other  health = health  GET = GET
  Empty = Empty  External = External  Unknown = Unknown
  None = None  NoNode = NoNode
  Names = {a, b, c, Empty}
  Ips = {ipA, ipB, ipC}
  Namespaces = {default, Unknown, External}
  Paths = {root, health}
  HealthPaths = {health}
  Methods = {GET}
  K8sEvents = {}
  Ports = {Empty}
  Hosts <- DirectHosts
  Inputs <- DirectInputs
  PodUpdates <- DirectUpdates
  PodMaps <- DirectMaps
  RouteLists <- DirectRoutes
  Tasks = {t1, t2}
  Handlers = {h1}
  MaxEvents = 2
  MaxRestarts = 1
INVARIANTS
  NamedSources
  DedupLosesNoPair
PROPERTIES
  StaleHealed
  ImplementsServiceGraph
