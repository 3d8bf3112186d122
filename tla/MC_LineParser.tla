---------------------------- MODULE MC_LineParser ----------------------------
(* MODE lines for a channel #c and a nick n with up to three tokens after  *)
(* the target: mode groups of a sign and one or two of the letters k (Key, *)
(* takes an argument), o (ChannelOperator, takes one) and i (InviteOnly),  *)
(* and the arguments a and b.                                              *)
EXTENDS LineParser

MC_Letters == {"k", "o", "i"}
MC_Groups == {<<s>> \o w : s \in {"+", "-"}, w \in SeqOf(MC_Letters, 2) \ {<<>>}}
MC_Tokens == MC_Groups \cup {<<"a">>, <<"b">>}
MC_Targets == {<<"#", "c">>, <<"n">>}
MC_Lines ==
  {<<"MODE", " ">> \o t \o FlattenSeq([i \in DOMAIN ts |-> <<" ">> \o ts[i]]) :
     t \in MC_Targets, ts \in SeqOf(MC_Tokens, 3)}
MC_ArgModes == {"k", "o"}
MC_Source == <<"s">>
=============================================================================
