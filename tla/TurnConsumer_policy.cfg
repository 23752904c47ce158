\* Every fault but a crash; turns of two chats on two worker slots.
SPECIFICATION Spec
CONSTANTS
  c1 = c1
  c2 = c2
  m1 = m1
  m2 = m2
  m3 = m3
  NTurns = 3
  Chats <- MCChats
  Messages <- MCMessages
  chatOf <- MCChatOf
  msgOf <- MCMsgOf
  Concurrency = 2
  MaxAttempts = 2
  MaxStalls = 1
  Faults = {"mark", "has", "clear", "add", "publish"}
  MaxFaults = 2
INVARIANTS
  ActsInOneRun
  SettledOrLost
  HeldWhileLive
PROPERTIES
  FirstRunsInOrder
  EveryTurnEnds
CHECK_DEADLOCK FALSE
