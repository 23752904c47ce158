\* Two turns of one chat and a core that crashes twice.
SPECIFICATION Spec
CONSTANTS
  c1 = c1
  c2 = c2
  m1 = m1
  m2 = m2
  m3 = m3
  NTurns = 2
  Chats <- PairChats
  Messages <- PairMessages
  chatOf <- PairChatOf
  msgOf <- PairMsgOf
  Concurrency = 2
  MaxAttempts = 2
  MaxStalls = 1
  Faults = {"crash"}
  MaxFaults = 2
INVARIANTS
  OneRunPerChat
  RepeatsOnlyStalledJobs
CHECK_DEADLOCK FALSE
