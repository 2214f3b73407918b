SPECIFICATION FairSpec
CONSTANTS
  a = a  b = b  ip1 = ip1  blue = blue  green = green
  root = root  GET = GET  POST = POST  Rollout = Rollout
  Unknown = Unknown  NoNode = NoNode
  Names = {a, b}
  Ips = {ip1}
  SomeIp = ip1
  Namespaces = {blue, green, Unknown}
  Paths = {root}
  Methods = {GET}
  K8sEvents = {Rollout}
  Calls <- NamespaceCalls
  Pods = {}
  ResourceEvents = {}
  MaxResourceEvents = 0
  MaxExpired = 0
  MaxRestarts = 0
PROPERTIES
  AllFlowsStored
