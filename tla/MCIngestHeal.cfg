SPECIFICATION Spec
CONSTANTS
  a = a  b = b  c = c  proxy = proxy
  ipA = ipA  ipB = ipB  ipC = ipC
  default = default  infra = infra  root = root  other = other  health = health  GET = GET
  Empty = Empty  External = External  Unknown = Unknown
  None = None  NoNode = NoNode
  Names = {a, b, c, Empty}
  Ips = {ipA, ipB}
  Namespaces = {default, Unknown, External}
  Paths = {root, other, health}
  HealthPaths = {health}
  Methods = {GET}
  K8sEvents = {}
  Ports = {Empty}
  Hosts <- HealHosts
  Inputs <- HealInputs
  PodUpdates <- HealUpdates
  PodMaps <- HealMaps
  RouteLists = {}
  Tasks = {t1, t2}
  Handlers = {h1}
  MaxEvents = 3
  MaxRestarts = 0
SYMMETRY TaskSymmetry
INVARIANTS
  TypeOK
  GraphConsistent
  FlowBudget
PROPERTIES
  EdgesNeverLost
