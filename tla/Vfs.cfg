SPECIFICATION Spec
CONSTANTS
  Modules = {"praxia"}
  Kormi = {}
  Manifest <- MCManifest
  Pactos <- MCPactos
  Args <- MCArgs
  Texts <- MCTexts
  MaxFiles = 19
  MaxData = 3
  FirstCap = 1
  StMax = 2
  DirMax = 8
  ReqMax = 2
  StData = 9
  SyndMax = 1

  
PROPERTIES
  MoveKeepsText
  ProtectedKept
  
CHECK_DEADLOCK FALSE
