---------------------------- MODULE WhoWasHistory ----------------------------
(***************************************************************************)
(* What the who-was list promises (spec.md 3 and 4.5): it keeps the Cap    *)
(* most recent snapshots, oldest first in kept, and Find(nick, limit)      *)
(* returns up to limit of the snapshots of nick, newest first.             *)
(***************************************************************************)
EXTENDS Naturals, Sequences

CONSTANTS Cap, Entries, Nicks, Limits

VARIABLES kept, found

(* The snapshots of nick n among s, newest first, at most limit of them.   *)
RECURSIVE NewestMatches(_, _, _)
NewestMatches(s, n, limit) ==
  IF s = <<>> \/ limit <= 0 THEN <<>>
  ELSE LET e == s[Len(s)]
           rest == SubSeq(s, 1, Len(s) - 1)
       IN IF e.nick = n
          THEN <<e>> \o NewestMatches(rest, n, limit - 1)
          ELSE NewestMatches(rest, n, limit)

Append_(e) ==
  /\ kept' = IF Len(kept) = Cap THEN Append(Tail(kept), e) ELSE Append(kept, e)
  /\ UNCHANGED found

Find(n, limit) ==
  /\ found' = NewestMatches(kept, n, limit)
  /\ UNCHANGED kept

Init == kept = <<>> /\ found = <<>>

Next ==
  \/ \E e \in Entries : Append_(e)
  \/ \E n \in Nicks, l \in Limits : Find(n, l)

Spec == Init /\ [][Next]_<<kept, found>>
=============================================================================
