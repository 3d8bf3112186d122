CONSTANTS
  Accounts <- MC_Accounts
  Password <- MC_Password
  Blobs <- MC_Blobs
  NoAccount = NoAccount
  NoAuthzid = NoAuthzid
  ServerPassword = TRUE
  MaxBuf = 3
SPECIFICATION Spec
INVARIANT TypeOK
