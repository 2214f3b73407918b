SPECIFICATION Spec
CONSTANTS
  a = a  b = b  c = c  proxy = proxy
  ipA = ipA  ipB = ipB  ipC = ipC
  default = default  infra = infra  root = root  other = other  health = health  GET = GET
  Empty = Empty  External = External  Unknown = Unknown
  None = None  NoNode = NoNode
  Names = {a, b, c, proxy, Empty}
  Ips = {ipA, ipB}
  Namespaces = {default, infra, Unknown, External}
  Paths = {root, health}
  HealthPaths = {health}
  Methods = {GET}
  K8sEvents = {}
  Ports = {Empty}
  Hosts <- RouteHosts
  Inputs <- RouteInputs
  PodUpdates = {}
  PodMaps <- RouteMaps
  RouteLists <- RouteTables
  Tasks = {t1, t2}
  Handlers = {h1}
  MaxEvents = 2
  MaxRestarts = 0
INVARIANTS
  DedupLosesNoPair
