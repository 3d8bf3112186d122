---------------------------- MODULE MC_ServerLoop ----------------------------
EXTENDS ServerLoop

(* Two clients, whose nicks are "a" and "b"; b is the operator and the    *)
(* one client with mode WallOps.                                           *)
MC_Clients == {"a", "b"}
MC_NoStalls == {}
MC_Stalls == {"a"}
MC_WallopsUsers == {"b"}

(* PRIVMSG to either nick, NOTICE to a nick and to "*", WALLOPS, REHASH    *)
(* and PING: each handler's branches, from either sender.                  *)
MC_Lines ==
  { <<"PRIVMSG", " ", "a", " ", ":", "m">>,
    <<"PRIVMSG", " ", "b", " ", ":", "m">>,
    <<"NOTICE", " ", "a", " ", ":", "m">>,
    <<"NOTICE", " ", "*", " ", ":", "m">>,
    <<"WALLOPS", " ", ":", "m">>,
    <<"REHASH">>,
    <<"PING", " ", "s">> }
=============================================================================
