\* MultilineReply returns after its last chunk: the model stops there.
CONSTANTS
  MaxReplyLen = 20
  LineLimit = 22
  HeaderLen = 4
  FormatLen = 8
  Verbs = 2
  FixedArgsLen = 5
  NameSet <- MC_NameSet
  MaxNames = 4
SPECIFICATION Spec
INVARIANT LinesFit
CHECK_DEADLOCK FALSE
