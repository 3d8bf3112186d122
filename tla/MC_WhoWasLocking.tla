--------------------------- MODULE MC_WhoWasLocking ---------------------------
EXTENDS WhoWasLocking

MC_Nicks == {"n1", "n2"}
MC_OneCaller == {"c1"}
MC_TwoCallers == {"c1", "c2"}

Parser == INSTANCE LineParser WITH line <- <<>>, Lines <- {}, ArgModes <- {}, Source <- <<>>

(* The limits WHOWAS passes to Find: the counts its lines parse to.        *)
WhoWasLimits(lines) == {Parser!ParseCommand(l).count : l \in lines}

(* WHOWAS n 1: Find breaks at the first match.                             *)
MC_FindLimits == WhoWasLimits({<<"WHOWAS", " ", "n", " ", "1">>})

(* WHOWAS n 1, and WHOWAS n 3, which asks for more than the ring holds.    *)
MC_HangLimits == WhoWasLimits({<<"WHOWAS", " ", "n", " ", "1">>,
                               <<"WHOWAS", " ", "n", " ", "3">>})
=============================================================================
