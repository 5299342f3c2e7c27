SPECIFICATION FairSpec
CONSTANTS
  portA = portA
  portB = portB
  uidA = uidA
  uidB = uidB
  everyone = everyone
  pidA = pidA
  pidB = pidB
  queuedMsg = queuedMsg
  statusMsgs = statusMsgs
  Links <- TwoPorts
  UIDs <- OneUID
  Broadcast = everyone
  PIDs <- FewPIDs
  QueuedMessage = queuedMsg
  StatusMessages = statusMsgs
  DeviceInfo = pidA
  Retries = 0
  MaxAckTimerCollect = 1
  ProxyBackoffAttempts = 1
  MaxQueuedMessageDrain = 1
  TNs = 16
  Workload <- Twice
  MaxCmds = 2
  MaxReplies = 1
  MaxLate = 1
  ProxyBreakerTrip = 1
  SilenceBreakerTrip = 2
  CooldownFactor = 2
  CooldownMax = 1
INVARIANTS
  ControllerInvariant
PROPERTIES
  EveryCommandEnds
