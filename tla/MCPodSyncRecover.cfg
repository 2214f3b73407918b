SPECIFICATION FairSpec
CONSTANTS
  a = a  b = b  blue = blue  green = green
  None = None  Empty = Empty
  Ips = {ip1}
  Pods <- RecoverPods
  Services <- RecoverServices
  MaxChanges = 4
  MaxRestarts = 1
  Failures = {"core", "agent", "rpc"}
INVARIANTS
  TypeOK
  NoForeignInfo
PROPERTIES
  CacheRecovers
