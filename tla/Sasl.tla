-------------------------------- MODULE Sasl --------------------------------
(***************************************************************************)
(* SASL PLAIN authentication of one connection before registration:        *)
(* AuthenticateCommand.HandleRegServer and the PASS handler it depends on  *)
(* (src/internal/server.go).  The SaslState methods it calls (Started,     *)
(* Start, WriteString, String, Reset, Login) are not in src/ and are       *)
(* modelled from spec.md 4.3: a started flag, a payload buffer and the     *)
(* logged-in account.                                                      *)
(*                                                                         *)
(* Payloads are abstract.  A credential blob b (authcid, authzid,          *)
(* password) travels base64-encoded either whole, as Last(b), or as a      *)
(* 400-byte piece Part(b) followed by Last(b).  Decoding a buffer that is  *)
(* not exactly one such transmission yields bytes of no account: either    *)
(* invalid base64 or a blob that does not split into three tokens.         *)
(***************************************************************************)
EXTENDS Naturals, Sequences

CONSTANTS
  Accounts,        \* authcids of the accounts table
  Password,        \* Password[a]: the password the account store verifies
  Blobs,           \* credential blobs a client may send
  NoAccount,       \* sasl.Id() of a connection that has not logged in
  NoAuthzid,       \* the empty authzid
  ServerPassword,  \* TRUE when the config sets server.password
  MaxBuf           \* bound on the pieces kept in the SASL buffer

ASSUME NoAccount \notin Accounts /\ MaxBuf \in Nat \ {0}

(* The arguments of AUTHENTICATE: the mechanism names PLAIN and another    *)
(* one, the abort "*", the empty continuation "+", an argument over 400    *)
(* bytes, and the pieces of blobs.                                         *)
Word(w) == [k |-> w, b |-> NoAccount]
Part(b) == [k |-> "part", b |-> b]
Last(b) == [k |-> "last", b |-> b]
Args == {Word(w) : w \in {"PLAIN", "EXTERNAL", "*", "+", "TooLong"}}
          \cup {Part(b) : b \in Blobs} \cup {Last(b) : b \in Blobs}

VARIABLES
  authorized,  \* client.authorized
  dead,        \* no connection: not yet accepted, or quit
  started,     \* client.sasl.Started()
  buf,         \* client.sasl buffer: the pieces written so far
  account,     \* client.sasl.Id(), set by Login
  modes,       \* client.modes, of which only Registered (+r) is set here
  reply        \* the numeric of the handler's last answer ("+" for RPL_AUTHENTICATE)

vars == <<authorized, dead, started, buf, account, modes, reply>>

(* base64.StdEncoding.DecodeString of the buffer, then the split on NUL.   *)
(* "blob": exactly one transmission of blob b; "base64": invalid base64;   *)
(* "tokens": valid base64 that does not split into three tokens.  "PLAIN"  *)
(* is five characters, so a buffer holding it is never valid base64.       *)
DecodeResults(s) ==
  IF \E b \in Blobs : s = <<Last(b)>> \/ s = <<Part(b), Last(b)>>
  THEN {[kind |-> "blob",
         blob |-> CHOOSE b \in Blobs : s = <<Last(b)>> \/ s = <<Part(b), Last(b)>>]}
  ELSE IF s = <<>> THEN {[kind |-> "tokens"]}
  ELSE IF \E i \in 1..Len(s) : s[i] = Word("PLAIN") THEN {[kind |-> "base64"]}
  ELSE {[kind |-> "base64"], [kind |-> "tokens"]}

(* PasswordStore.Verify: bcrypt comparison against the stored hash.        *)
Verify(a, p) == a \in Accounts /\ Password[a] = p

-----------------------------------------------------------------------------
(* The answer of one of the handler's exits: "+" (RPL_AUTHENTICATE), 903  *)
(* (RPL_SASLSUCCESS), 904 (ERR_SASLFAIL), 905 (too long), 906 (aborted).   *)
Replies == {"none", "+", "903", "904", "905", "906"}

Reply(r) == reply' = r

Fail == Reply("904")

(* An empty authzid stands for the authcid; any other must equal it.       *)
AuthzidMatches(b) == b.authzid \in {NoAuthzid, b.authcid}

(* A plausible slip: logging in as the authzid before it defaults to the   *)
(* authcid.                                                                *)
LoginAsAuthzid(b, s) ==
  /\ account' = b.authzid
  /\ modes' = modes \cup {"Registered"}
  /\ Reply("903")
  /\ buf' = s
  /\ UNCHANGED <<dead, started>>

(* sasl.Login(authcid), RPL_LOGGEDIN, RPL_SASLSUCCESS and user mode +r.     *)
(* The SASL state is neither reset nor stopped.                            *)
Login(b, s) ==
  /\ account' = b.authcid
  /\ modes' = modes \cup {"Registered"}
  /\ Reply("903")
  /\ buf' = s
  /\ UNCHANGED <<dead, started>>

(* The buffer is not valid base64: ERR_SASLFAIL and sasl.Reset().          *)
DecodeFailed ==
  /\ Fail
  /\ started' = FALSE /\ buf' = <<>>
  /\ UNCHANGED <<dead, account, modes>>

(* PassCommand.HandleRegServer: a wrong server password quits.             *)
Pass(correct) ==
  /\ ~dead
  /\ IF ServerPassword /\ ~correct
     THEN dead' = TRUE /\ UNCHANGED authorized
     ELSE authorized' = TRUE /\ UNCHANGED dead
  /\ UNCHANGED <<started, buf, account, modes, reply>>

(* AuthenticateCommand.HandleRegServer with argument arg.                  *)
Authenticate(arg) ==
  /\ ~dead
  /\ CASE ~authorized ->
            /\ dead' = TRUE
            /\ UNCHANGED <<started, buf, account, modes, reply>>
       [] arg = Word("*") ->
            /\ Reply("906")
            /\ UNCHANGED <<dead, started, buf, account, modes>>
       [] ~started /\ arg = Word("PLAIN") ->
            /\ started' = TRUE
            /\ Reply("+")
            /\ UNCHANGED <<dead, buf, account, modes>>
       [] ~started ->
            /\ Fail
            /\ UNCHANGED <<dead, started, buf, account, modes>>
       [] arg = Word("TooLong") ->
            /\ Reply("905")
            /\ UNCHANGED <<dead, started, buf, account, modes>>
       [] arg.k = "part" ->
            /\ Len(buf) < MaxBuf
            /\ buf' = Append(buf, arg)
            /\ UNCHANGED <<dead, started, account, modes, reply>>
       [] OTHER ->
            LET s == IF arg = Word("+") THEN buf ELSE Append(buf, arg)
            IN /\ Len(s) <= MaxBuf
               /\ \E d \in DecodeResults(s) :
                    IF d.kind = "base64"
                    THEN DecodeFailed
                    ELSE IF d.kind = "tokens"
                            \/ ~AuthzidMatches(d.blob)
                            \/ ~Verify(d.blob.authcid, d.blob.pw)
                    THEN /\ Fail
                         /\ buf' = s
                         /\ UNCHANGED <<dead, started, account, modes>>
                    ELSE Login(d.blob, s)
  /\ UNCHANGED authorized

(* A new connection in the slot (NewClient, spec.md 4.3).                  *)
Accept ==
  /\ dead
  /\ dead' = FALSE
  /\ authorized' = ~ServerPassword
  /\ started' = FALSE
  /\ buf' = <<>>
  /\ account' = NoAccount
  /\ modes' = {}
  /\ reply' = "none"

Init ==
  /\ dead = FALSE
  /\ authorized = ~ServerPassword
  /\ started = FALSE
  /\ buf = <<>>
  /\ account = NoAccount
  /\ modes = {}
  /\ reply = "none"

Next ==
  \/ \E ok \in BOOLEAN : Pass(ok)
  \/ \E arg \in Args : Authenticate(arg)
  \/ Accept

Spec == Init /\ [][Next]_vars

-----------------------------------------------------------------------------
(* Every variable keeps its type; in particular sasl.Login only ever       *)
(* records an authcid of the accounts table, never the authzid.           *)
TypeOK ==
  /\ authorized \in BOOLEAN
  /\ dead \in BOOLEAN
  /\ started \in BOOLEAN
  /\ buf \in Seq(Args)
  /\ Len(buf) <= MaxBuf
  /\ account \in Accounts \cup {NoAccount}
  /\ modes \subseteq {"Registered"}
  /\ reply \in Replies
=============================================================================
