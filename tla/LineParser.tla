----------------------------- MODULE LineParser -----------------------------
(***************************************************************************)
(* The line parser of src/internal/command/command.go (ParseLine and       *)
(* ParseCommand) with the MODE parsers of command/channel.go, and the      *)
(* replies that render a MODE back onto the wire (reply.go): the server    *)
(* echoes the changes it parsed as "MODE <target> <changes>".  The JOIN,   *)
(* PART, KICK, QUIT, OPER and KILL constructors give the Channel module    *)
(* its commands, PRIVMSG's, NOTICE's, WALLOPS's, REHASH's and PING's give  *)
(* ServerLoop its, and WHOWAS's gives WhoWasLocking the limits of Find.    *)
(*                                                                         *)
(* A line is a sequence of characters.  The command word is one character  *)
(* here ("MODE", or "mode" which ToUpper maps to it, "JOIN", ...); the     *)
(* other characters are single letters, signs, '#', ',', ':' and the       *)
(* space.  ModeOp, UserMode, ChannelMode and Name are not in src/: an op   *)
(* is its byte ('+', '-', and '=' for List), a mode is its letter, and a   *)
(* name is a channel when it starts with '#' (spec.md 3).                  *)
(***************************************************************************)
EXTENDS Integers, Sequences, SequencesExt

CONSTANTS
  Lines,     \* the lines a client may send
  ArgModes,  \* Key, BanMask, ..., ChannelOperator, Voice: the modes taking an argument
  Source     \* the source prefix of the server's replies, as characters

VARIABLE line  \* the last line the reader received, <<>> before the first

-----------------------------------------------------------------------------
(* strings.ToUpper on the command word.                                    *)
ToUpper(s) == [i \in DOMAIN s |-> IF s[i] = "mode" THEN "MODE" ELSE s[i]]

(* splitArg: spacesExpr.Split(line, 2), the text before the first run of  *)
(* spaces and the text after it.                                           *)
SplitArg(l) ==
  LET i == SelectInSeq(l, LAMBDA ch : ch = " ")
      after == SubSeq(l, i + 1, Len(l))
      j == SelectInSeq(after, LAMBDA ch : ch # " ")
  IN IF i = 0 THEN [arg |-> l, rest |-> <<>>]
     ELSE [arg |-> SubSeq(l, 1, i - 1),
           rest |-> IF j = 0 THEN <<>> ELSE SubSeq(after, j, Len(after))]

(* The loop of ParseLine: a ':' starts the trailing argument, which takes  *)
(* the rest of the line; otherwise splitArg takes the next argument.       *)
RECURSIVE ArgsLoop(_, _)
ArgsLoop(l, args) ==
  IF l = <<>> THEN args
  ELSE IF Head(l) = ":" THEN Append(args, Tail(l))
  ELSE ArgsLoop(SplitArg(l).rest, Append(args, SplitArg(l).arg))

(* ParseLine: drop a ':' prefix, then the upper-cased command and its args. *)
ParseLine(l) ==
  LET body == IF l # <<>> /\ Head(l) = ":" THEN SplitArg(l).rest ELSE l
  IN [code |-> ToUpper(SplitArg(body).arg), args |-> ArgsLoop(SplitArg(body).rest, <<>>)]

-----------------------------------------------------------------------------
(* The result of a parser: kind "user" or "channel" for a ModeCommand or   *)
(* ChannelModeCommand, "error" for an error, "other" for another code.     *)
Parsed(kind, target, changes) == [kind |-> kind, target |-> target, changes |-> changes]

(* ParseUserModeCommand: every token must start with '+' or '-'; each of  *)
(* its other characters is a change with that op.  Empty tokens are skipped.*)
RECURSIVE UserModeLoop(_, _, _)
UserModeLoop(nick, args, changes) ==
  IF args = <<>> THEN Parsed("user", nick, changes)
  ELSE LET tok == Head(args)
       IN IF tok = <<>> THEN UserModeLoop(nick, Tail(args), changes)
          ELSE IF Head(tok) \notin {"+", "-"} THEN Parsed("error", nick, <<>>)
          ELSE UserModeLoop(nick, Tail(args),
                 changes \o [i \in 1..Len(tok) - 1 |-> [mode |-> tok[i + 1], op |-> Head(tok)]])

(* The inner loop of ParseChannelModeCommand over the letters of a token:  *)
(* a mode of ArgModes takes args[skip] when there is one.                  *)
RECURSIVE GroupLoop(_, _, _, _, _)
GroupLoop(letters, op, args, skip, changes) ==
  IF letters = <<>> THEN [changes |-> changes, skip |-> skip]
  ELSE LET takes == Head(letters) \in ArgModes /\ Len(args) > skip
           change == [mode |-> Head(letters), op |-> op,
                      arg |-> IF takes THEN args[skip + 1] ELSE <<>>]
       IN GroupLoop(Tail(letters), op, args, IF takes THEN skip + 1 ELSE skip,
                    Append(changes, change))

(* ParseChannelModeCommand: each token is a sign (List when it has none)  *)
(* and letters; the arguments its letters took are skipped with it.        *)
RECURSIVE ChannelModeLoop(_, _, _)
ChannelModeLoop(chan, args, changes) ==
  IF args = <<>> THEN Parsed("channel", chan, changes)
  ELSE IF Head(args) = <<>> THEN ChannelModeLoop(chan, Tail(args), changes)
  ELSE LET tok == Head(args)
           signed == Head(tok) \in {"+", "-"}
           g == GroupLoop(IF signed THEN Tail(tok) ELSE tok,
                          IF signed THEN Head(tok) ELSE "=", args, 1, <<>>)
       IN ChannelModeLoop(chan, SubSeq(args, g.skip + 1, Len(args)), changes \o g.changes)

(* Name.IsChannel                                                          *)
IsChannel(name) == name # <<>> /\ Head(name) = "#"

(* ParseModeCommand                                                        *)
ParseModeCommand(args) ==
  IF args = <<>> THEN Parsed("error", <<>>, <<>>)
  ELSE IF IsChannel(Head(args)) THEN ChannelModeLoop(Head(args), Tail(args), <<>>)
  ELSE UserModeLoop(Head(args), Tail(args), <<>>)

(* strings.Split(s, ","): the pieces around each comma.                  *)
SplitComma(s) ==
  FoldLeft(LAMBDA acc, ch : IF ch = "," THEN Append(acc, <<>>)
                            ELSE [acc EXCEPT ![Len(acc)] = @ \o <<ch>>],
           <<<<>>>>, s)

(* The last index of x in s: a later write to a Go map key overwrites an  *)
(* earlier one.                                                            *)
LastIndex(s, x) == Max({i \in DOMAIN s : s[i] = x})

(* ParseJoinCommand: "0" parts every channel; otherwise a map from each   *)
(* name of the comma list to the key at its position, or "".              *)
ParseJoinCommand(args) ==
  IF args = <<>> THEN Parsed("error", <<>>, <<>>)
  ELSE IF args[1] = <<"0">> THEN [kind |-> "join", zero |-> TRUE, channels |-> <<>>]
  ELSE LET chans == SplitComma(args[1])
           keys == IF Len(args) > 1 THEN SplitComma(args[2]) ELSE <<>>
           key(i) == IF i <= Len(keys) THEN keys[i] ELSE <<>>
       IN [kind |-> "join", zero |-> FALSE,
           channels |-> [n \in ToSet(chans) |-> key(LastIndex(chans, n))]]

(* ParsePartCommand: the comma list of channels, in order.                 *)
ParsePartCommand(args) ==
  IF args = <<>> THEN Parsed("error", <<>>, <<>>)
  ELSE [kind |-> "part", channels |-> SplitComma(args[1])]

(* ParseKickCommand: channels and users pair up by position, or every     *)
(* channel goes with the one user; other lengths are an error.            *)
ParseKickCommand(args) ==
  IF Len(args) < 2 THEN Parsed("error", <<>>, <<>>)
  ELSE LET chans == SplitComma(args[1])
           users == SplitComma(args[2])
       IN IF Len(chans) # Len(users) /\ Len(users) # 1 THEN Parsed("error", <<>>, <<>>)
          ELSE [kind |-> "kick",
                kicks |-> [n \in ToSet(chans) |->
                             users[IF Len(users) = 1 THEN 1 ELSE LastIndex(chans, n)]]]

(* ParseQuitCommand never fails; the message is not modelled.             *)
ParseQuitCommand(args) == [kind |-> "quit"]

(* ParseOperCommand: a name and a password.                                *)
ParseOperCommand(args) ==
  IF Len(args) < 2 THEN Parsed("error", <<>>, <<>>)
  ELSE [kind |-> "oper", name |-> args[1], password |-> args[2]]

(* ParseKillCommand: a nickname and a comment, which is not modelled.      *)
ParseKillCommand(args) ==
  IF Len(args) < 2 THEN Parsed("error", <<>>, <<>>)
  ELSE [kind |-> "kill", nickname |-> args[1]]

(* ParsePrivMsgCommand and ParseNoticeCommand: a target and a message,    *)
(* which is not modelled.                                                  *)
ParsePrivMsgCommand(args) ==
  IF Len(args) < 2 THEN Parsed("error", <<>>, <<>>)
  ELSE [kind |-> "privmsg", target |-> args[1]]

ParseNoticeCommand(args) ==
  IF Len(args) < 2 THEN Parsed("error", <<>>, <<>>)
  ELSE [kind |-> "notice", target |-> args[1]]

(* ParseWallopsCommand needs the message; ParseRehashCommand takes none;   *)
(* ParsePingCommand needs a server name (the names are not modelled).      *)
ParseWallopsCommand(args) ==
  IF args = <<>> THEN Parsed("error", <<>>, <<>>) ELSE [kind |-> "wallops"]

ParseRehashCommand(args) == [kind |-> "rehash"]

ParsePingCommand(args) ==
  IF args = <<>> THEN Parsed("error", <<>>, <<>>) ELSE [kind |-> "ping"]

(* strconv.ParseInt(s, 10, 64) with its error ignored: the value of an   *)
(* optional sign and decimal digits, and 0 for anything else.  (Values    *)
(* past 64 bits, which ParseInt clamps, do not fit in these lines.)       *)
ParseInt(s) ==
  LET digits == {ToString(d) : d \in 0..9}
      body == IF s # <<>> /\ Head(s) \in {"+", "-"} THEN Tail(s) ELSE s
      value == FoldLeft(LAMBDA acc, ch : 10 * acc + (CHOOSE d \in 0..9 : ToString(d) = ch),
                        0, body)
  IN IF body = <<>> \/ \E i \in DOMAIN body : body[i] \notin digits THEN 0
     ELSE IF Head(s) = "-" THEN -value ELSE value

(* ParseWhoWasCommand: a comma list of nicks, then the count, 0 when it   *)
(* is missing; the target server is not modelled.                          *)
ParseWhoWasCommand(args) ==
  IF args = <<>> THEN Parsed("error", <<>>, <<>>)
  ELSE [kind |-> "whowas", nicknames |-> SplitComma(args[1]),
        count |-> IF Len(args) > 1 THEN ParseInt(args[2]) ELSE 0]

(* ParseNamesCommand: the comma list of channels when there are args; no  *)
(* channels otherwise.  The target server is not modelled.                 *)
ParseNamesCommand(args) ==
  [kind |-> "names", channels |-> IF args = <<>> THEN <<>> ELSE SplitComma(args[1])]

(* ParseWhoisCommand: WHOIS [ <target> ] <mask> *( "," <mask> ); the      *)
(* target is not modelled.                                                 *)
ParseWhoisCommand(args) ==
  IF args = <<>> THEN Parsed("error", <<>>, <<>>)
  ELSE [kind |-> "whois", masks |-> SplitComma(IF Len(args) > 1 THEN args[2] ELSE args[1])]

(* ParseCommand: ParseLine, then the constructor registered for the code  *)
(* in parseCommandFuncs.  The constructors of the other codes, and the    *)
(* UnknownCommand of a code with none, are "other": the code and args.    *)
ParseCommand(l) ==
  LET p == ParseLine(l)
  IN CASE p.code = <<"MODE">> -> ParseModeCommand(p.args)
       [] p.code = <<"JOIN">> -> ParseJoinCommand(p.args)
       [] p.code = <<"PART">> -> ParsePartCommand(p.args)
       [] p.code = <<"KICK">> -> ParseKickCommand(p.args)
       [] p.code = <<"QUIT">> -> ParseQuitCommand(p.args)
       [] p.code = <<"OPER">> -> ParseOperCommand(p.args)
       [] p.code = <<"KILL">> -> ParseKillCommand(p.args)
       [] p.code = <<"WHOWAS">> -> ParseWhoWasCommand(p.args)
       [] p.code = <<"NAMES">> -> ParseNamesCommand(p.args)
       [] p.code = <<"WHOIS">> -> ParseWhoisCommand(p.args)
       [] p.code = <<"PRIVMSG">> -> ParsePrivMsgCommand(p.args)
       [] p.code = <<"NOTICE">> -> ParseNoticeCommand(p.args)
       [] p.code = <<"WALLOPS">> -> ParseWallopsCommand(p.args)
       [] p.code = <<"REHASH">> -> ParseRehashCommand(p.args)
       [] p.code = <<"PING">> -> ParsePingCommand(p.args)
       [] OTHER -> Parsed("other", p.code, p.args)

-----------------------------------------------------------------------------
(* ModeChanges.String: the first op, then each mode; when the op changes, *)
(* a space and the new op.                                                 *)
ModeChangesString(changes) ==
  IF changes = <<>> THEN <<>>
  ELSE FoldLeft(LAMBDA acc, c :
                  IF c.op = acc.op THEN [acc EXCEPT !.str = @ \o <<c.mode>>]
                  ELSE [op |-> c.op, str |-> acc.str \o <<" ", c.op>>],
                [op |-> changes[1].op, str |-> <<changes[1].op>>], changes).str

(* ChannelModeChanges.String: '-' if the first change removes, '+'        *)
(* otherwise, then every mode, then every argument after a space.          *)
ChannelModeChangesString(changes) ==
  IF changes = <<>> THEN <<>>
  ELSE <<IF changes[1].op = "-" THEN "-" ELSE "+">>
       \o [i \in DOMAIN changes |-> changes[i].mode]
       \o FlattenSeq([i \in DOMAIN changes |->
                        IF changes[i].arg = <<>> THEN <<>> ELSE <<" ">> \o changes[i].arg])

(* NewStringReply(source, MODE, ...): ":<source> MODE " and the payload.  *)
StringReply(payload) == <<":">> \o Source \o <<" ", "MODE", " ">> \o payload

(* RplModeChanges ("%s :%s") and RplChannelMode ("%s %s").                 *)
RenderMode(cmd) ==
  IF cmd.kind = "user"
  THEN StringReply(cmd.target \o <<" ", ":">> \o ModeChangesString(cmd.changes))
  ELSE StringReply(cmd.target \o <<" ">> \o ChannelModeChangesString(cmd.changes))

-----------------------------------------------------------------------------
(* The reader goroutine receives a line.                                   *)
Receive(l) == line' = l

Init == line = <<>>

Next == \E l \in Lines : Receive(l)

Spec == Init /\ [][Next]_line

-----------------------------------------------------------------------------
(* spec.md 8, P7: a well-formed MODE line, one whose every change adds or  *)
(* removes a mode (a token without a sign is a List query), parsed,        *)
(* rendered as the server echoes it (ModeChanges.String and               *)
(* ChannelModeChanges.String in RplModeChanges and RplChannelMode) and     *)
(* parsed again gives the same command.                                    *)
ModeRoundTrip ==
  LET cmd == ParseCommand(line)
  IN /\ cmd.kind \in {"user", "channel"}
     /\ \A i \in DOMAIN cmd.changes : cmd.changes[i].op \in {"+", "-"}
     => ParseCommand(RenderMode(cmd)) = cmd
=============================================================================
