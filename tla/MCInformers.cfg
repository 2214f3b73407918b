SPECIFICATION FairSpec
CONSTANTS
  Deployment = Deployment  EventKind = EventKind
  Rollout = Rollout  HTTPProxy = HTTPProxy
  Native = {Deployment, EventKind}
  Custom = {Rollout, HTTPProxy}
  Installed = {Rollout}
  Ephemeral = {EventKind}
  Objects <- OneOfEach
  MaxChanges = 3
  MaxErrors = 1
  MaxRestarts = 1
CHECK_DEADLOCK FALSE
INVARIANTS
  TypeOK
  OneRowPerEvent
PROPERTIES
  AgentStaysUp
  ExistingReported
