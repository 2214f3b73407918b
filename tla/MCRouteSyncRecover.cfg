SPECIFICATION FairSpec
CONSTANTS
  Star = Star  Svc = Svc  Empty = Empty  NoYaml = NoYaml  Absent = Absent
  a = a  b = b  ns = ns  shop = shop  cm1 = cm1  cm2 = cm2  up = up  other = other
  Labels = {Star, Svc, a, b, ns, shop}
  Clusters = {up, other}
  ConfigMaps <- TwoMaps
  Configs <- ShopConfigs
  Handlers = {h1, h2}
  MaxChanges = 2
  MaxRestarts = 1
CHECK_DEADLOCK FALSE
INVARIANTS
  TypeOK
  RoutesGenuine
PROPERTIES
  RoutesRecover
