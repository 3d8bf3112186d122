----------------------------- MODULE WhoWasList -----------------------------
(***************************************************************************)
(* The who-was ring buffer of src/pkg/whois.go (WhoIsList; the server      *)
(* keeps one of 100 slots as server.whoWas): Append, and Find over the     *)
(* reverse iteration Each.  Every call holds the list's lock for its whole *)
(* run, so here each is one step; WhoWasLocking models the locking.        *)
(* An entry is a snapshot record; seq is the identity of the *WhoIs.       *)
(***************************************************************************)
EXTENDS Naturals, Sequences

CONSTANTS
  Size,        \* len(list.buffer)
  Nicks,       \* nicknames of the snapshots
  Limits,      \* the limit arguments of Find
  MaxAppends,  \* bound on the number of Append calls
  Nil          \* an empty slot

ASSUME Size \in Nat \ {0, 1} /\ MaxAppends \in Nat

Entries == [seq : 1..MaxAppends, nick : Nicks]

VARIABLES
  buffer,    \* list.buffer
  start,     \* list.start
  end,       \* list.end
  appended,  \* number of Append calls so far
  found      \* the result of the latest Find

vars == <<buffer, start, end, appended, found>>

(* WhoIsList.prev                                                          *)
Prev(i) == IF i - 1 < 0 THEN i - 1 + Size ELSE i - 1

(* The values Each sends, from slot s back to slot e (exclusive).          *)
RECURSIVE EachFrom(_, _)
EachFrom(s, e) ==
  IF s = e THEN <<>> ELSE <<buffer[s]>> \o EachFrom(Prev(s), e)

(* WhoIsList.Each: the stored snapshots, newest first.                     *)
Each ==
  IF start = end THEN <<>> ELSE EachFrom(Prev(end), Prev(start))

(* The loop of WhoIsList.Find over the values of Each: keep the snapshots *)
(* of nickname, and break once len(results) >= limit.                      *)
RECURSIVE FindLoop(_, _, _, _)
FindLoop(s, n, limit, results) ==
  IF s = <<>> THEN results
  ELSE IF Head(s).nick # n THEN FindLoop(Tail(s), n, limit, results)
  ELSE IF Len(results) + 1 >= limit THEN Append(results, Head(s))
  ELSE FindLoop(Tail(s), n, limit, Append(results, Head(s)))

(* Plausible slips in Append: end advanced without the modulo, and the    *)
(* wrap test that moves start left out.                                    *)
AppendEntryNoWrap(n) ==
  /\ appended < MaxAppends
  /\ buffer' = [buffer EXCEPT ![end] = [seq |-> appended + 1, nick |-> n]]
  /\ end' = end + 1
  /\ start' = IF end + 1 = start THEN end + 2 ELSE start
  /\ appended' = appended + 1
  /\ UNCHANGED found

AppendEntryNoEvict(n) ==
  /\ appended < MaxAppends
  /\ buffer' = [buffer EXCEPT ![end] = [seq |-> appended + 1, nick |-> n]]
  /\ end' = (end + 1) % Size
  /\ appended' = appended + 1
  /\ UNCHANGED <<start, found>>

(* WhoIsList.Append                                                        *)
AppendEntry(n) ==
  LET e == [seq |-> appended + 1, nick |-> n]
      newEnd == (end + 1) % Size
  IN /\ appended < MaxAppends
     /\ buffer' = [buffer EXCEPT ![end] = e]
     /\ end' = newEnd
     /\ start' = IF newEnd = start THEN (newEnd + 1) % Size ELSE start
     /\ appended' = appended + 1
     /\ UNCHANGED found

(* WhoIsList.Find                                                          *)
Find(n, limit) ==
  /\ found' = FindLoop(Each, n, limit, <<>>)
  /\ UNCHANGED <<buffer, start, end, appended>>

Init ==
  /\ buffer = [i \in 0..Size - 1 |-> Nil]
  /\ start = 0
  /\ end = 0
  /\ appended = 0
  /\ found = <<>>

Next ==
  \/ \E n \in Nicks : AppendEntry(n)
  \/ \E n \in Nicks, l \in Limits : Find(n, l)

Spec == Init /\ [][Next]_vars

-----------------------------------------------------------------------------
TypeOK ==
  /\ buffer \in [0..Size - 1 -> Entries \cup {Nil}]
  /\ start \in 0..Size - 1 /\ end \in 0..Size - 1
  /\ appended \in 0..MaxAppends
  /\ found \in Seq(Entries)

(* The snapshots, oldest first, as the abstract history sees them.         *)
Kept == [i \in 1..Len(Each) |-> Each[Len(Each) - i + 1]]

(* The list implements the history of its last Size - 1 snapshots: the     *)
(* slot start points at is given up as soon as the ring wraps.  spec.md 3  *)
(* gives the ring capacity Size (100 for server.whoWas); with Cap <- Size  *)
(* the refinement fails at the Size-th append.                             *)
HistoryMinusOne == INSTANCE WhoWasHistory WITH Cap <- Size - 1, kept <- Kept
KeepsSizeMinusOne == HistoryMinusOne!Spec
=============================================================================
