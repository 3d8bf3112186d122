\* The process exits when Run returns, so the model stops there.
CONSTANTS
  Clients <- MC_Clients
  StallingPeers <- MC_Stalls
  QCap = 2
  SigCap = 2
  MaxSignals = 2
  Oper = "b"
  WallopsUsers <- MC_WallopsUsers
  Lines <- MC_Lines
SPECIFICATION Spec
PROPERTY ShutdownCompletes
CHECK_DEADLOCK FALSE
