-------------------------- MODULE MC_MultilineReply --------------------------
EXTENDS MultilineReply

(* RplNamReply: format "= %s :%s" (8 bytes, two verbs), the channel name   *)
(* as fixed argument.  Lengths are scaled down from the 510/512 limits so  *)
(* that a few names already fill a line: names of 1, 3 and 6 characters.   *)
MC_NameSet == {<<"n">>, <<"n", "n", "n">>, <<"n", "n", "n", "n", "n", "n">>}
=============================================================================
