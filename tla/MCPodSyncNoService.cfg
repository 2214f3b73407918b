SPECIFICATION FairSpec
CONSTANTS
  a = a  b = b  blue = blue  green = green
  None = None  Empty = Empty
  Ips = {ip1}
  Pods <- PlainPods
  Services = {}
  MaxChanges = 1
  MaxRestarts = 1
  Failures = {"core"}
PROPERTIES
  RunningPodsKnown
