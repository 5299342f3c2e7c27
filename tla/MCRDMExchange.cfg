SPECIFICATION Spec
CONSTANTS
  portA = portA
  portB = portB
  uidA = uidA
  uidB = uidB
  everyone = everyone
  pidA = pidA
  pidB = pidB
  queuedMsg = queuedMsg
  statusMsgs = statusMsgs
  Links <- OnePort
  UIDs <- OneUID
  Broadcast = everyone
  PIDs <- AllPIDs
  QueuedMessage = queuedMsg
  StatusMessages = statusMsgs
  DeviceInfo = pidB
  Retries = 1
  MaxAckTimerCollect = 2
  ProxyBackoffAttempts = 1
  MaxQueuedMessageDrain = 1
  TNs = 16
  Workload <- Exchange
  MaxCmds = 1
  MaxReplies = 4
  MaxLate = 1
  ProxyBreakerTrip = 2
  SilenceBreakerTrip = 2
  CooldownFactor = 2
  CooldownMax = 4
INVARIANTS
  ControllerInvariant
  AnswerIsOwn
