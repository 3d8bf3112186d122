---------------------------- MODULE WhoWasLocking ----------------------------
(***************************************************************************)
(* The locking of the who-was list (src/pkg/whois.go).  Callers (client    *)
(* goroutines running WHOWAS, or a nick change or quit appending a         *)
(* snapshot) call Append, which holds the list's sync.RWMutex for writing, *)
(* and Find, which holds it for reading while it ranges over the channel   *)
(* of Each.  Each starts a goroutine that takes the read lock again, and   *)
(* once more inside every call of prev, and sends the snapshots one by one *)
(* on an unbuffered channel.                                               *)
(*                                                                         *)
(* sync.RWMutex: Lock first waits for any other writer, then announces     *)
(* itself, after which RLock blocks; it then waits for the readers that    *)
(* hold the lock to leave.  rw.writer is the writer that has announced.    *)
(***************************************************************************)
EXTENDS Naturals, Sequences

CONSTANTS
  Callers,     \* goroutines that call Append and Find
  Size, Nicks, Limits, MaxAppends, Nil,
  NoCaller,    \* rw.writer when no writer has announced
  MaxReaders   \* bound on the read locks held: goroutines left blocked
               \* by Find keep theirs for ever

VARIABLES
  buffer, start, end, appended, found,  \* the list, as in WhoWasList
  rw,        \* the RWMutex: [readers |-> read locks held, writer |-> caller]
  pc,        \* the caller: "idle", "lock" (Append waiting for readers), "recv"
  arg,       \* the caller's current call: [nick, limit]
  results,   \* Find's results so far
  g,         \* the caller's Each goroutine: "none", "rlock", "prev1", "prev2",
             \* "send", "advance", "close"
  gs, ge,    \* the goroutine's start and end
  closed,    \* the goroutine has closed the channel
  orphaned   \* Find has returned while its goroutine still runs

Ring == INSTANCE WhoWasList

vars == <<buffer, start, end, appended, found, rw, pc, arg, results, g, gs,
          ge, closed, orphaned>>
listVars == <<buffer, start, end, appended>>
goVars == <<g, gs, ge, closed>>

(* RLock does not block: no writer has announced.                          *)
RLockFree == rw.writer = NoCaller

-----------------------------------------------------------------------------
(* Append: Lock's first half (wait for other writers, announce).           *)
AppendLock(c, n) ==
  /\ pc[c] = "idle"
  /\ appended < MaxAppends
  /\ rw.writer = NoCaller
  /\ rw' = [rw EXCEPT !.writer = c]
  /\ pc' = [pc EXCEPT ![c] = "lock"]
  /\ arg' = [arg EXCEPT ![c] = [nick |-> n, limit |-> 0]]
  /\ UNCHANGED <<listVars, found, results, goVars, orphaned>>

(* Lock returns once no reader holds the lock; the body of Append and the *)
(* deferred Unlock follow without blocking.                                *)
AppendBody(c) ==
  /\ pc[c] = "lock"
  /\ rw.readers = 0
  /\ Ring!AppendEntry(arg[c].nick)
  /\ rw' = [rw EXCEPT !.writer = NoCaller]
  /\ pc' = [pc EXCEPT ![c] = "idle"]
  /\ UNCHANGED <<arg, results, goVars, orphaned>>

(* Find: RLock, then Each makes the channel and starts its goroutine.  A   *)
(* caller whose earlier goroutine is blocked for ever on its send leaves   *)
(* it there, read lock and all.                                            *)
FindStart(c, n, l) ==
  /\ pc[c] = "idle"
  /\ g[c] = "none" \/ (orphaned[c] /\ g[c] = "send")
  /\ rw.readers < MaxReaders
  /\ RLockFree
  /\ rw' = [rw EXCEPT !.readers = @ + 1]
  /\ pc' = [pc EXCEPT ![c] = "recv"]
  /\ arg' = [arg EXCEPT ![c] = [nick |-> n, limit |-> l]]
  /\ results' = [results EXCEPT ![c] = <<>>]
  /\ g' = [g EXCEPT ![c] = "rlock"]
  /\ closed' = [closed EXCEPT ![c] = FALSE]
  /\ orphaned' = [orphaned EXCEPT ![c] = FALSE]
  /\ UNCHANGED <<listVars, found, gs, ge>>

(* A plausible slip in Find's loop: break once len(results) > limit.       *)
ReceiveBreakLate(c) ==
  LET e == buffer[gs[c]]
      res == IF e.nick = arg[c].nick THEN Append(results[c], e) ELSE results[c]
      brk == e.nick = arg[c].nick /\ Len(res) > arg[c].limit
  IN /\ pc[c] = "recv"
     /\ g[c] = "send"
     /\ g' = [g EXCEPT ![c] = "advance"]
     /\ results' = [results EXCEPT ![c] = res]
     /\ IF brk
        THEN /\ pc' = [pc EXCEPT ![c] = "idle"]
             /\ found' = res
             /\ rw' = [rw EXCEPT !.readers = @ - 1]
             /\ orphaned' = [orphaned EXCEPT ![c] = TRUE]
        ELSE UNCHANGED <<pc, found, rw, orphaned>>
     /\ UNCHANGED <<listVars, arg, gs, ge, closed>>

(* One value received by Find's range loop: keep it if its nickname        *)
(* matches and break once len(results) >= limit; the break returns,        *)
(* running the deferred RUnlock, and nobody receives on the channel again. *)
Receive(c) ==
  LET e == buffer[gs[c]]
      res == IF e.nick = arg[c].nick THEN Append(results[c], e) ELSE results[c]
      brk == e.nick = arg[c].nick /\ Len(res) >= arg[c].limit
  IN /\ pc[c] = "recv"
     /\ g[c] = "send"
     /\ g' = [g EXCEPT ![c] = "advance"]
     /\ results' = [results EXCEPT ![c] = res]
     /\ IF brk
        THEN /\ pc' = [pc EXCEPT ![c] = "idle"]
             /\ found' = res
             /\ rw' = [rw EXCEPT !.readers = @ - 1]
             /\ orphaned' = [orphaned EXCEPT ![c] = TRUE]
        ELSE UNCHANGED <<pc, found, rw, orphaned>>
     /\ UNCHANGED <<listVars, arg, gs, ge, closed>>

(* The range loop ends when the channel is closed; Find returns.           *)
FindReturn(c) ==
  /\ pc[c] = "recv"
  /\ closed[c]
  /\ pc' = [pc EXCEPT ![c] = "idle"]
  /\ found' = results[c]
  /\ rw' = [rw EXCEPT !.readers = @ - 1]
  /\ UNCHANGED <<listVars, arg, results, goVars, orphaned>>

-----------------------------------------------------------------------------
(* The goroutine of Each.  Its RLock; if the list is empty it closes the   *)
(* channel and, deferred, RUnlocks.                                        *)
EachRLock(c) ==
  /\ g[c] = "rlock"
  /\ RLockFree
  /\ rw' = [rw EXCEPT !.readers = @ + 1]
  /\ g' = [g EXCEPT ![c] = IF start = end THEN "close" ELSE "prev1"]
  /\ UNCHANGED <<listVars, found, pc, arg, results, gs, ge, closed, orphaned>>

(* start := prev(list.end) and end := prev(list.start): prev takes and     *)
(* releases the read lock again, so it blocks once a writer announced.     *)
EachPrevEnd(c) ==
  /\ g[c] = "prev1"
  /\ RLockFree
  /\ gs' = [gs EXCEPT ![c] = Ring!Prev(end)]
  /\ g' = [g EXCEPT ![c] = "prev2"]
  /\ UNCHANGED <<listVars, found, rw, pc, arg, results, ge, closed, orphaned>>

EachPrevStart(c) ==
  /\ g[c] = "prev2"
  /\ RLockFree
  /\ ge' = [ge EXCEPT ![c] = Ring!Prev(start)]
  /\ g' = [g EXCEPT ![c] = IF gs[c] # Ring!Prev(start) THEN "send" ELSE "close"]
  /\ UNCHANGED <<listVars, found, rw, pc, arg, results, gs, closed, orphaned>>

(* After a send: start = prev(start), and loop while start != end.         *)
EachAdvance(c) ==
  /\ g[c] = "advance"
  /\ RLockFree
  /\ gs' = [gs EXCEPT ![c] = Ring!Prev(gs[c])]
  /\ g' = [g EXCEPT ![c] = IF Ring!Prev(gs[c]) # ge[c] THEN "send" ELSE "close"]
  /\ UNCHANGED <<listVars, found, rw, pc, arg, results, ge, closed, orphaned>>

(* The deferred close(ch) and RUnlock.                                     *)
EachClose(c) ==
  /\ g[c] = "close"
  /\ closed' = [closed EXCEPT ![c] = TRUE]
  /\ rw' = [rw EXCEPT !.readers = @ - 1]
  /\ g' = [g EXCEPT ![c] = "none"]
  /\ UNCHANGED <<listVars, found, pc, arg, results, gs, ge, orphaned>>

-----------------------------------------------------------------------------
Init ==
  /\ Ring!Init
  /\ rw = [readers |-> 0, writer |-> NoCaller]
  /\ pc = [c \in Callers |-> "idle"]
  /\ arg = [c \in Callers |-> [nick |-> CHOOSE n \in Nicks : TRUE, limit |-> 0]]
  /\ results = [c \in Callers |-> <<>>]
  /\ g = [c \in Callers |-> "none"]
  /\ gs = [c \in Callers |-> 0]
  /\ ge = [c \in Callers |-> 0]
  /\ closed = [c \in Callers |-> FALSE]
  /\ orphaned = [c \in Callers |-> FALSE]

CallerStep(c) == AppendBody(c) \/ Receive(c) \/ FindReturn(c)

EachStep(c) ==
  \/ EachRLock(c) \/ EachPrevEnd(c) \/ EachPrevStart(c)
  \/ EachAdvance(c) \/ EachClose(c)

Next ==
  \E c \in Callers :
    \/ \E n \in Nicks : AppendLock(c, n)
    \/ \E n \in Nicks, l \in Limits : FindStart(c, n, l)
    \/ CallerStep(c)
    \/ EachStep(c)

(* The Go scheduler runs every runnable goroutine: a call in progress and *)
(* an Each goroutine are weakly fair.  Starting a call is up to the client.*)
Fairness == \A c \in Callers : WF_vars(CallerStep(c)) /\ WF_vars(EachStep(c))

Spec == Init /\ [][Next]_vars /\ Fairness

-----------------------------------------------------------------------------
(* Every call of the list returns: a nick change or a quit that records a *)
(* who-was snapshot (Append) never hangs, and a WHOWAS (Find) always gets  *)
(* its answer.                                                             *)
CallsComplete == \A c \in Callers : pc[c] # "idle" ~> pc[c] = "idle"

(* The list's fields keep their types through every interleaving.          *)
TypeOK ==
  /\ Ring!TypeOK
  /\ rw.readers \in Nat /\ rw.writer \in Callers \cup {NoCaller}
  /\ pc \in [Callers -> {"idle", "lock", "recv"}]

(* The locking makes each call atomic: the list and the answers of Find   *)
(* change only as WhoWasList's Append and Find, one call at a time, would  *)
(* change them, however Append, Find and the Each goroutines interleave.   *)
CallsAtomic == Ring!Spec

(* With its locking, the list still keeps the last Size - 1 snapshots.     *)
KeepsSizeMinusOne == Ring!KeepsSizeMinusOne
=============================================================================
