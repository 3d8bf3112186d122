CONSTANTS
  Clients <- MC_Clients
  Nicks <- MC_Nicks
  NoNick = NoNick
  NoClient = NoClient
  ServerPassword = FALSE
SPECIFICATION Spec
INVARIANT NickUnique
