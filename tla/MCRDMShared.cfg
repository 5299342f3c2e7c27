SPECIFICATION Spec
CONSTANTS
  portA = portA
  portB = portB
  uidA = uidA
  uidB = uidB
  everyone = everyone
  pidA = pidA
  pidB = pidB
  queuedMsg = queuedMsg
  statusMsgs = statusMsgs
  Links <- OnePort
  UIDs <- TwoUIDs
  Broadcast = everyone
  PIDs <- FewPIDs
  QueuedMessage = queuedMsg
  StatusMessages = statusMsgs
  DeviceInfo = pidA
  Retries = 0
  MaxAckTimerCollect = 2
  ProxyBackoffAttempts = 1
  MaxQueuedMessageDrain = 1
  TNs = 16
  Workload <- Shared
  MaxCmds = 3
  MaxReplies = 1
  MaxLate = 1
  ProxyBreakerTrip = 2
  SilenceBreakerTrip = 1
  CooldownFactor = 2
  CooldownMax = 1
PROPERTIES
  ImplementsService
