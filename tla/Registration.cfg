CONSTANTS
  Clients <- MC_Clients
  Nicks <- MC_Nicks
  NoNick = NoNick
  NoClient = NoClient
  ServerPassword = TRUE
SPECIFICATION Spec

INVARIANT RegisteredOnlyWithPassword
INVARIANT RegistrationCompletes
