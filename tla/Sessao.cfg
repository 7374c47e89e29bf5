SPECIFICATION Spec
CONSTANTS
  adm = adm
  ana = ana
  pa = pa
  pb = pb
  no = no
  Names = {adm, ana}
  LongNames = {adm, ana}
  Pws = {pa, pb, no}
  LongPws = {pa, pb}
  UserMax = 2
  TicketMax = 2
  Contracts = {0, 1}
  MaxLogins = 2
  MaxLate = 2
SYMMETRY Swaps
INVARIANTS
  TypeOK
  SovereignKept
  OneOpenTicket
  SessionLawful
  FirstSessionRights
PROPERTIES
  LoginSpendsTicket
CHECK_DEADLOCK FALSE
