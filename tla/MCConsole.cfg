SPECIFICATION ConsoleSpec
CONSTANTS
  a = a  b = b  c = c  d = d
  ipB = ipB  default = default  root = root  GET = GET
  Unknown = Unknown  NoNode = NoNode  None = None
  Names = {a, b, c, d}
  Ips = {ipB}
  Namespaces = {default, Unknown}
  Paths = {root}
  Methods = {GET}
  K8sEvents = {}
  CallSet <- MCCalls
  Resolved <- MCResolved
  Depths = {1, 2}
  MaxSteps = 4
  MaxFaults = 1
  Unset = Unset
  DefaultSize = 1
  MaxPageSize = 2
  Requested = {Unset, 3}
  Ttl = 2
  Limit = 2
  Minute = 1
  Word = 4
  BatchSizes = {1, 2}
  MaxRows = 3
  MaxTime = 2
  MaxRefetch = 1
CHECK_DEADLOCK FALSE
INVARIANTS
  TypeOK
  SubgraphExact
  SubgraphIsTree
  AnswersDrawable
  SelectionShown
  TablesTypeOK
  PagingMissesOnlyLate
  WindowExact
