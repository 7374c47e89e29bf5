SPECIFICATION Spec
CONSTANTS
  Names = {"adm"}
  LongNames = {"adm"}
  Pws = {"pa"}
  LongPws = {"pa"}
  UserMax = 1
  TicketMax = 1
  Contracts = {0}
  MaxLogins = 1
  MaxLate = 0
INVARIANT
  BootstrapAnswered
CHECK_DEADLOCK FALSE
