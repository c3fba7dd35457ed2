SPECIFICATION Spec
CONSTANTS
  Proc = {p1, p2}
  Role = {r1, r2}
  Sender = {r1, r2}
  Message = {m1, m2}
  Todo = {}
  Priority = {2, 3}
  SendPriority = {2}
  RoleState = {"active"}
  ClaimSeconds = 1
  ReplyLimit = 1
  ListLimit = 2
  MaxTime = 1
  NoTodo = NoTodo
  NoMessage = NoMessage
  NoEnvelope = NoEnvelope
SYMMETRY Symmetry
INVARIANTS
  CommandsTypeOK
  ReplySound
  ReplyAtMostOnce
