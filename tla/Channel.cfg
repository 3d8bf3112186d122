CONSTANTS
  ch1 = ch1
  ch2 = ch2
  ch3 = ch3
  NoChan = NoChan
  Clients <- MC_Clients
  Names <- MC_Names
  Chans <- MC_Chans
  Lines <- MC_Lines
  Operators <- MC_Operators
  MaxReplyLen = 15
  ReplyHeaderLen = 4
SPECIFICATION Spec
SYMMETRY MC_Symmetry
INVARIANT WhoisListsChannels
CHECK_DEADLOCK FALSE
