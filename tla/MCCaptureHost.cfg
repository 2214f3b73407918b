SPECIFICATION Spec
CONSTANTS
  SP = SP  EOL = EOL  COLON = COLON  HOST = HOST  NonUtf8 = NonUtf8
  GET = GET  HTTP = HTTP  slash = slash  sub = sub  b = b  c = c  p80 = p80
  XForwarded = XForwarded  Accept = Accept  OtherPort = OtherPort
  Upper = {GET, HTTP, XForwarded, Accept}
  Cells = {SP, EOL, COLON, HOST, NonUtf8, GET, HTTP, slash, sub, b, c, p80, XForwarded, Accept}
  KernelPayload = 22
  UserPayload = 20
  Cpus = {cpu0, cpu1}
  RunningCpu = cpu0
  HttpPorts = {http}
  Requests <- HostRequests
  Packets <- CapturePackets
  BufferSize = 2
  BatchSize = 2
  MaxPackets = 1
  MaxRestarts = 0
CHECK_DEADLOCK FALSE
INVARIANTS
  HostHeaderReported
