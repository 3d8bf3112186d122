---------------------------- MODULE Registration ----------------------------
(***************************************************************************)
(* Connection registration of a BlockIRC server: the registration-phase    *)
(* handlers PASS, NICK, USER, CAP and QUIT, the clients index they update  *)
(* (server.clients, keyed by folded nick) and Server.tryRegister.          *)
(*                                                                         *)
(* Server.Run (src/internal/server.go) has no case for client commands:    *)
(* every client's commands are handled on that client's own goroutine, so  *)
(* the handlers of different clients interleave.  A handler is one step,   *)
(* except UserCommand.setUserInfo, which takes the index lock twice        *)
(* (clients.Remove, then clients.Add) and is split at that point.          *)
(*                                                                         *)
(* The NICK and CAP handlers, Client.Quit and the ClientLookupSet are not  *)
(* in src/; they are modelled from spec.md sections 4.3 and 4.5.           *)
(***************************************************************************)
EXTENDS Naturals, FiniteSets, Bitwise

CONSTANTS
  Clients,         \* the accepted connections
  Nicks,           \* folded nicknames the clients ask for
  NoNick,          \* the nick of a client that has not sent NICK
  NoClient,        \* the value of an unclaimed key of the clients index
  ServerPassword   \* TRUE when the config sets server.password

ASSUME NoNick \notin Nicks /\ NoClient \notin Clients
ASSUME ServerPassword \in BOOLEAN

VARIABLES
  authorized,  \* client.authorized
  nick,        \* client.nick
  hasUser,     \* client.HasUsername()
  capState,    \* client.capState
  registered,  \* client.registered
  modes,       \* client.modes: the user modes set while registering
  dead,        \* no connection in this slot: not yet accepted, or quit
  userStep,    \* "removed" between clients.Remove and clients.Add in setUserInfo
  index,       \* server.clients: folded nick -> client
  welcomed,    \* number of RPL_WELCOME replies sent to each client (history)
  passOk       \* clients that presented the server password (history)

vars == <<authorized, nick, hasUser, capState, registered, modes, dead,
          userStep, index, welcomed, passOk>>

UserModes == {"WallOps", "Invisible"}

(* The <mode> arguments of USER: bitmasks, and one that does not parse as  *)
(* a uint8 (strconv.ParseUint(args[1], 10, 8) fails).                      *)
ModeArgs == {0, 4, 8, 12, 256}
CapStates == {"None", "Negotiating", "Negotiated"}

Live == {c \in Clients : ~dead[c]}

(* A command of client c is handled only while c's goroutine is not in the *)
(* middle of an earlier one, and reaches the registration-phase handlers   *)
(* only while c is not registered.                                         *)
RegPhase(c) ==
  /\ ~dead[c]
  /\ ~registered[c]
  /\ userStep[c] = "idle"

-----------------------------------------------------------------------------
(* ClientLookupSet (spec.md 4.5): Remove deletes the key of the client's   *)
(* current nick; Add stores the client under its nick unless the key is    *)
(* already claimed.                                                        *)
IndexRemove(idx, c) ==
  IF nick[c] = NoNick THEN idx ELSE [idx EXCEPT ![nick[c]] = NoClient]

IndexAdd(idx, c, n) ==
  IF n = NoNick \/ idx[n] # NoClient THEN idx ELSE [idx EXCEPT ![n] = c]

(* A plausible slip: tryRegister without the capability-negotiation test. *)
TryRegisterDuringCap(c, n, hasU, cs) ==
  IF registered[c] \/ n = NoNick \/ ~hasU
  THEN UNCHANGED <<registered, welcomed>>
  ELSE /\ registered' = [registered EXCEPT ![c] = TRUE]
       /\ welcomed' = [welcomed EXCEPT ![c] = @ + 1]

(* Server.tryRegister, applied to the values the calling handler leaves:   *)
(* register and send the welcome burst once the client has a nick and a    *)
(* username and is not negotiating capabilities.                           *)
TryRegister(c, n, hasU, cs) ==
  IF registered[c] \/ n = NoNick \/ ~hasU \/ cs = "Negotiating"
  THEN UNCHANGED <<registered, welcomed>>
  ELSE /\ registered' = [registered EXCEPT ![c] = TRUE]
       /\ welcomed' = [welcomed EXCEPT ![c] = @ + 1]

(* Client.Quit (spec.md 5): leave the clients index and die.               *)
QuitClient(c) ==
  /\ dead' = [dead EXCEPT ![c] = TRUE]
  /\ index' = IndexRemove(index, c)

-----------------------------------------------------------------------------
(* PassCommand.HandleRegServer.  CheckPassword leaves err nil when the     *)
(* server has no password; a mismatch answers ERR_PASSWDMISMATCH and quits.*)
Pass(c, correct) ==
  /\ RegPhase(c)
  /\ IF ServerPassword /\ ~correct
     THEN /\ QuitClient(c)
          /\ UNCHANGED <<authorized, passOk>>
     ELSE /\ authorized' = [authorized EXCEPT ![c] = TRUE]
          /\ passOk' = IF ServerPassword THEN passOk \cup {c} ELSE passOk
          /\ UNCHANGED <<dead, index>>
  /\ UNCHANGED <<nick, hasUser, capState, registered, modes, userStep, welcomed>>

(* NickCommand.HandleRegServer (spec.md 4.3): a nick claimed by another    *)
(* client is refused with ERR_NICKNAMEINUSE; otherwise the client is       *)
(* re-keyed in the index under the new nick and tryRegister runs.          *)
Nick(c, n) ==
  /\ RegPhase(c)
  /\ IF index[n] \notin {NoClient, c}
     THEN UNCHANGED vars
     ELSE /\ nick' = [nick EXCEPT ![c] = n]
          /\ index' = [IndexRemove(index, c) EXCEPT ![n] = c]
          /\ TryRegister(c, n, hasUser[c], capState[c])
          /\ UNCHANGED <<authorized, hasUser, capState, modes, dead,
                         userStep, passOk>>

(* ParseUserCommand and RFC2812UserCommand.Flags: a <mode> that parses as  *)
(* a uint8 gives the RFC 2812 shape, whose bits 4 and 8 select WallOps and *)
(* Invisible; any other gives the RFC 1459 shape, which sets no modes.     *)
Flags(m) ==
  IF m > 255 THEN {}
  ELSE {f \in UserModes : (f = "WallOps" /\ (m & 4) = 4)
                          \/ (f = "Invisible" /\ (m & 8) = 8)}

(* A plausible slip: an RFC 2812 USER that skips the authorization check.  *)
UserRemoveUnauthorized(c, m) ==
  /\ RegPhase(c)
  /\ modes' = [modes EXCEPT ![c] = @ \cup Flags(m)]
  /\ index' = IndexRemove(index, c)
  /\ userStep' = [userStep EXCEPT ![c] = "removed"]
  /\ UNCHANGED <<dead, authorized, nick, hasUser, capState, registered,
                 welcomed, passOk>>

(* RFC1459UserCommand / RFC2812UserCommand.HandleRegServer up to the       *)
(* clients.Remove of setUserInfo.  An unauthorized client gets             *)
(* ERR_PASSWDMISMATCH and quits; the RFC 2812 shape sets its user modes.   *)
UserRemove(c, m) ==
  /\ RegPhase(c)
  /\ IF ~authorized[c]
     THEN /\ QuitClient(c)
          /\ UNCHANGED <<modes, userStep>>
     ELSE /\ modes' = [modes EXCEPT ![c] = @ \cup Flags(m)]
          /\ index' = IndexRemove(index, c)
          /\ userStep' = [userStep EXCEPT ![c] = "removed"]
          /\ UNCHANGED dead
  /\ UNCHANGED <<authorized, nick, hasUser, capState, registered, welcomed,
                 passOk>>

(* The rest of setUserInfo: store username and realname, clients.Add, and  *)
(* tryRegister.                                                            *)
UserAdd(c) ==
  /\ userStep[c] = "removed"
  /\ userStep' = [userStep EXCEPT ![c] = "idle"]
  /\ hasUser' = [hasUser EXCEPT ![c] = TRUE]
  /\ index' = IndexAdd(index, c, nick[c])
  /\ TryRegister(c, nick[c], TRUE, capState[c])
  /\ UNCHANGED <<authorized, nick, capState, modes, dead, passOk>>

(* CapCommand.HandleRegServer (spec.md 4.3): LS and REQ suspend            *)
(* registration, END resumes it through tryRegister.                       *)
CapNegotiate(c) ==
  /\ RegPhase(c)
  /\ capState' = [capState EXCEPT ![c] = "Negotiating"]
  /\ UNCHANGED <<authorized, nick, hasUser, registered, modes, dead,
                 userStep, index, welcomed, passOk>>

CapEnd(c) ==
  /\ RegPhase(c)
  /\ capState' = [capState EXCEPT ![c] = "Negotiated"]
  /\ TryRegister(c, nick[c], hasUser[c], "Negotiated")
  /\ UNCHANGED <<authorized, nick, hasUser, modes, dead, userStep, index,
                 passOk>>

(* QuitCommand.HandleRegServer and QuitCommand.HandleServer.               *)
Quit(c) ==
  /\ ~dead[c]
  /\ userStep[c] = "idle"
  /\ QuitClient(c)
  /\ UNCHANGED <<authorized, nick, hasUser, capState, registered, modes,
                 userStep, welcomed, passOk>>

(* Server.acceptor hands a connection to Server.Run, which starts          *)
(* NewClient on it; the new client is authorized at once when the server   *)
(* has no password (spec.md 4.3).  A slot whose client quit is reused.     *)
Accept(c) ==
  /\ dead[c]
  /\ dead' = [dead EXCEPT ![c] = FALSE]
  /\ authorized' = [authorized EXCEPT ![c] = ~ServerPassword]
  /\ nick' = [nick EXCEPT ![c] = NoNick]
  /\ hasUser' = [hasUser EXCEPT ![c] = FALSE]
  /\ capState' = [capState EXCEPT ![c] = "None"]
  /\ registered' = [registered EXCEPT ![c] = FALSE]
  /\ modes' = [modes EXCEPT ![c] = {}]
  /\ welcomed' = [welcomed EXCEPT ![c] = 0]
  /\ passOk' = passOk \ {c}
  /\ UNCHANGED <<userStep, index>>

-----------------------------------------------------------------------------
Init ==
  /\ authorized = [c \in Clients |-> FALSE]
  /\ nick = [c \in Clients |-> NoNick]
  /\ hasUser = [c \in Clients |-> FALSE]
  /\ capState = [c \in Clients |-> "None"]
  /\ registered = [c \in Clients |-> FALSE]
  /\ modes = [c \in Clients |-> {}]
  /\ dead = [c \in Clients |-> TRUE]
  /\ userStep = [c \in Clients |-> "idle"]
  /\ index = [n \in Nicks |-> NoClient]
  /\ welcomed = [c \in Clients |-> 0]
  /\ passOk = {}

Next ==
  \E c \in Clients :
    \/ Accept(c)
    \/ \E ok \in BOOLEAN : Pass(c, ok)
    \/ \E n \in Nicks : Nick(c, n)
    \/ \E m \in ModeArgs : UserRemove(c, m)
    \/ UserAdd(c)
    \/ CapNegotiate(c)
    \/ CapEnd(c)
    \/ Quit(c)

Spec == Init /\ [][Next]_vars

-----------------------------------------------------------------------------
(* spec.md P1: no two registered clients hold the same folded nick.  At  *)
(* risk from the window setUserInfo opens between clients.Remove and       *)
(* clients.Add, in which another client's NICK finds the nick unclaimed:   *)
(* the Add that follows is refused, but tryRegister runs regardless.       *)
NickUnique ==
  \A c, d \in Live :
    c # d /\ registered[c] /\ registered[d] => nick[c] # nick[d]

(* With a server password configured, no client registers without having  *)
(* presented it in PASS, whatever order it sends PASS, NICK, USER and CAP. *)
RegisteredOnlyWithPassword ==
  \A c \in Clients : registered[c] /\ ServerPassword => c \in passOk

(* spec.md P6: a live client is registered exactly when its NICK and USER *)
(* have been handled and it is not negotiating capabilities, and then it   *)
(* has had exactly one welcome; an unregistered client has had none.       *)
RegistrationCompletes ==
  \A c \in Live :
    /\ registered[c] <=> (nick[c] # NoNick /\ hasUser[c]
                          /\ capState[c] # "Negotiating" /\ userStep[c] = "idle")
    /\ welcomed[c] = IF registered[c] THEN 1 ELSE 0
=============================================================================
