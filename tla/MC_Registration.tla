--------------------------- MODULE MC_Registration ---------------------------
(* Two connections competing for two nicknames, with a server password.    *)
EXTENDS Registration

MC_Clients == {"c1", "c2"}
MC_Nicks == {"n1", "n2"}
=============================================================================
