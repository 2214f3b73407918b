SPECIFICATION FairSpec
CONSTANTS
  a = a  b = b  ip1 = ip1  blue = blue  green = green
  root = root  GET = GET  POST = POST  Rollout = Rollout
  Unknown = Unknown  NoNode = NoNode
  Names = {a, b}
  Ips = {ip1}
  SomeIp = ip1
  Namespaces = {blue, Unknown}
  Paths = {root}
  Methods = {GET, POST}
  K8sEvents = {Rollout}
  Calls <- FlushCalls
  Pods <- HealPods
  ResourceEvents <- Rollouts
  MaxResourceEvents = 2
  MaxExpired = 1
  MaxRestarts = 1
INVARIANTS
  TypeOK
PROPERTIES
  NeverStoredAgain
  EventuallyStored
  EventsStayAttached
