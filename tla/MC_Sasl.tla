------------------------------ MODULE MC_Sasl ------------------------------
(* Two accounts and the blobs that exercise each exit of the handler: a    *)
(* good blob with and without authzid, a foreign authzid and a wrong       *)
(* password.                                                               *)
EXTENDS Sasl

MC_Accounts == {"a1", "a2"}
MC_Password == [a \in MC_Accounts |-> IF a = "a1" THEN "p1" ELSE "p2"]
MC_Blobs ==
  { [authcid |-> "a1", authzid |-> NoAuthzid, pw |-> "p1"],
    [authcid |-> "a1", authzid |-> "a1",      pw |-> "p1"],
    [authcid |-> "a1", authzid |-> "a2",      pw |-> "p1"],
    [authcid |-> "a2", authzid |-> NoAuthzid, pw |-> "p1"] }
=============================================================================
