SPECIFICATION Spec
CONSTANTS
  Clients = {c1}
  Auth = {a1, a2}
  Fsd = {f}
  Kbd = {k}
  Mortal = {a1}
  Boxless = {f}
  Q = 2
  SvcMax = 2
  Patient = FALSE
  MaxCalls = 2
  MaxKeys = 2
INVARIANTS
  TypeOK
PROPERTIES
  AnswersInOrder
  AnswerKind
  KeysInOrder
  CallReturns
