------------------------------ MODULE MC_Channel ------------------------------
EXTENDS Channel, TLC

CONSTANTS ch1, ch2, ch3

(* Two clients, whose nicks are "a" and "b", and two channel names.       *)
MC_Clients == {"a", "b"}
MC_Names == {<<"#", "x">>, <<"#", "y">>}
MC_Chans == {ch1, ch2, ch3}
MC_Operators == <<"o">> :> <<"p">>

(* The lines: JOIN of one name, of two, of a nick and a name, and JOIN 0; *)
(* PART of two names and of one; KICK of one nick from two channels and   *)
(* of two nicks pairwise; QUIT; OPER with the right password and a wrong *)
(* one; KILL of either client; NAMES of a channel and a nick, and NAMES  *)
(* without arguments; WHOIS of b.                                          *)
MC_Lines ==
  { <<"JOIN", " ", "#", "x">>,
    <<"JOIN", " ", "#", "x", ",", "#", "y">>,
    <<"JOIN", " ", "b", ",", "#", "y">>,
    <<"JOIN", " ", "0">>,
    <<"PART", " ", "#", "x", ",", "#", "y">>,
    <<"PART", " ", "#", "y">>,
    <<"KICK", " ", "#", "x", ",", "#", "y", " ", "b">>,
    <<"KICK", " ", "#", "x", ",", "#", "y", " ", "a", ",", "b">>,
    <<"QUIT">>,
    <<"OPER", " ", "o", " ", "p">>,
    <<"OPER", " ", "o", " ", "q">>,
    <<"KILL", " ", "a", " ", ":", "r">>,
    <<"KILL", " ", "b", " ", ":", "r">>,
    <<"NAMES", " ", "#", "x", ",", "b">>,
    <<"NAMES">>,
    <<"WHOIS", " ", "b">> }

(* Channel objects are interchangeable: no definition names one of them.  *)
(* The clients are not: the lines name them.                               *)
MC_Symmetry == Permutations(MC_Chans)
=============================================================================
