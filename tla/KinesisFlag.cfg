SPECIFICATION Spec
CONSTANTS
  N = 4
  MaxPid = 5
  Codes = {0, 1}
  Kormi = 1
PROPERTIES
  IfRestored
