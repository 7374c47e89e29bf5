SPECIFICATION Spec
CONSTANTS
  B = 2
  Q = 2
  Pids = {1, 2, 4}
  Capable = {1, 2}
  Targets = {0, 1, 2, 3, 4}
  Data = {a}
INVARIANTS
  TypeOK
  OneMailbox
PROPERTIES
  ImplementsFifo
