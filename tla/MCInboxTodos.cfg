SPECIFICATION Spec
CONSTANTS
  Proc = {p1, p2}
  Role = {r1}
  Sender = {r1}
  Message = {m1}
  Todo = {t1, t2, t3}
  Priority = {2, 3}
  SendPriority = {2}
  RoleState = {"active", "paused"}
  ClaimSeconds = 1
  ReplyLimit = 1
  ListLimit = 2
  MaxTime = 1
  NoTodo = NoTodo
  NoMessage = NoMessage
  NoEnvelope = NoEnvelope
SYMMETRY Symmetry
INVARIANTS
  TodosOnClaimedWork
  SupersedeChain
