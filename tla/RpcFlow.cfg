SPECIFICATION Spec
CONSTANTS
  Clients = {c1}
  Auth = {a1}
  Fsd = {}
  Kbd = {k}
  Mortal = {}
  Boxless = {}
  Q = 2
  SvcMax = 2
  Patient = TRUE
  MaxCalls = 2
  MaxKeys = 1
PROPERTIES
  SingleFlow
