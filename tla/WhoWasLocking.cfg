\* Two goroutines calling Append and Find on a ring of 3 slots, with four
\* appends so that it wraps.  Find's limit is 1, as for WHOWAS with count
\* 1: Find breaks at the first match, or returns when the channel closes.
\* The program hangs in some of these interleavings (the run
\* whowas_calls_hang shows how), so a state with no step is allowed here.
CONSTANTS
  Callers <- MC_TwoCallers
  Size = 3
  Nicks <- MC_Nicks
  Limits <- MC_FindLimits
  MaxAppends = 4
  Nil = Nil
  NoCaller = NoCaller
  MaxReaders = 3
SPECIFICATION Spec
INVARIANT TypeOK
PROPERTY CallsAtomic KeepsSizeMinusOne
CHECK_DEADLOCK FALSE
