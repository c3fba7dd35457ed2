SPECIFICATION WakeSpec
CONSTANTS
  Role = {r1, r2}
  Proc = {r1, r2, sh1, sh2}
  Sender = {r1, r2}
  Message = {m1, m2}
  Todo = {}
  Priority = {2, 3}
  SendPriority = {2}
  RoleState = {"active"}
  ClaimSeconds = 1
  ReplyLimit = 1
  ListLimit = 2
  MaxTime = 1
  NoTodo = NoTodo
  NoMessage = NoMessage
  NoEnvelope = NoEnvelope
INVARIANTS
  WakeTypeOK
  NoLostWake
PROPERTIES
  EveryMessageTaken
CHECK_DEADLOCK FALSE
