\* Two goroutines calling Append and Find.  Find's limit is 1, as for a
\* WHOWAS with count 1, which may break early, or 3, more than the ring
\* holds, which never does.  The system stops when a call hangs.
CONSTANTS
  Callers <- MC_TwoCallers
  Size = 3
  Nicks <- MC_Nicks
  Limits <- MC_HangLimits
  MaxAppends = 3
  Nil = Nil
  NoCaller = NoCaller
  MaxReaders = 3
SPECIFICATION Spec
PROPERTY CallsComplete
CHECK_DEADLOCK FALSE
