------------------------------- MODULE Channel -------------------------------
(***************************************************************************)
(* The channel handlers of src/internal/server.go: JOIN (including JOIN 0) *)
(* PART, KICK, QUIT, NAMES and WHOIS of registered clients, over the      *)
(* channels index                                                          *)
(* (server.channels) and the channels' member maps.  Each handler runs on  *)
(* its client's goroutine, so handlers of different clients interleave.    *)
(*                                                                         *)
(* JOIN looks the name up with channels.Get, creates the channel with      *)
(* NewChannel(s, name, true) when Get returned nil, and then calls          *)
(* channel.Join: three lock regions, so three steps.  The Channel type,    *)
(* NewChannel, the index's Add and Remove and Client.Quit are not in src/  *)
(* and follow spec.md 4.4, 4.5 and 5:                                      *)
(*  - Join adds a non-member; the first member of an empty channel gets    *)
(*    ChannelOperator (spec.md 8, scenario 5: the creator is op);          *)
(*  - Part, Kick and Quit remove the member, and a channel left empty is   *)
(*    removed from the index (P3);                                         *)
(*  - the index is keyed on the name: Add leaves a name that is taken to   *)
(*    its channel, Remove deletes the entry only if it is that channel.    *)
(* Channel objects are model values; one that nothing references any more *)
(* is garbage and may be handed out again by NewChannel.                   *)
(*                                                                         *)
(* A handler gets its command from a line through LineParser's            *)
(* ParseCommand; a command that failed to parse, and every error reply    *)
(* (ERR_NOSUCHCHANNEL, ERR_NOSUCHNICK, ERR_PASSWDMISMATCH, ...), changes  *)
(* no state.  A client's nick is its name in Clients, as characters.       *)
(***************************************************************************)
EXTENDS Naturals, FiniteSets, Functions, SequencesExt

CONSTANTS
  Clients,   \* connections, named by their nicks
  Names,     \* channel names
  Chans,     \* channel objects NewChannel may allocate
  NoChan,    \* nil *Channel
  Lines,     \* the lines clients send
  Operators, \* server.operators: operator name -> password
  MaxReplyLen,    \* MAX_REPLY_LEN
  ReplyHeaderLen  \* len(":<server> <code> <nick> ") of a numeric

VARIABLES
  index,    \* server.channels: name -> channel or NoChan
  chname,   \* channel.name of each channel object
  members,  \* channel.members
  ops,      \* members holding ChannelOperator
  joined,   \* client.channels
  live,     \* clients in the clients index (registered, not quit)
  opers,    \* clients with user mode Operator
  pc,       \* the client's handler: JOIN's "loop", "create" (after Get) and
            \* "enter"; "whois" inside RplWhois; "idle"; or "panicked"
  todo,     \* the names JOIN's loop over m.channels has still to visit
  jname,    \* the name that JOIN is working on
  got,      \* JOIN's local variable channel
  replies,  \* the NAMES or RPL_WHOISCHANNELS replies of the last step;
            \* <<>> after any other step
  wtarget,  \* the client RplWhois is about
  wcount    \* WhoisChannelsNames's len(chstrs)

vars == <<index, chname, members, ops, joined, live, opers, pc, todo, jname, got,
          replies, wtarget, wcount>>

(* What the WHOIS handler keeps; the other handlers leave it.             *)
listing == <<wtarget, wcount>>

(* A handler has panicked: the process is gone.                           *)
Panicked == \E c \in Clients : pc[c] = "panicked"

(* Every step but a NAMES and a WHOIS's Range: the process still runs,  *)
(* and the step sends no NAMES or WHOIS channels reply.                    *)
Quiet == ~Panicked /\ replies' = <<>>

Parser == INSTANCE LineParser WITH line <- <<>>, ArgModes <- {}, Source <- <<>>

(* RPL_NAMREPLY's MultilineReply: format "= %s :%s", whose channel name  *)
(* argument does not enter the estimate baseLen.                           *)
NamReply == INSTANCE MultilineReply
  WITH HeaderLen <- ReplyHeaderLen, FormatLen <- 8, Verbs <- 2, FixedArgsLen <- 0,
       LineLimit <- 0, NameSet <- {}, MaxNames <- 0,
       names <- <<>>, sent <- <<>>, done <- FALSE

(* RPL_WHOISCHANNELS's MultilineReply: format "%s :%s", the nick first.  *)
WhoisReply == INSTANCE MultilineReply
  WITH HeaderLen <- ReplyHeaderLen, FormatLen <- 7, Verbs <- 2, FixedArgsLen <- 0,
       LineLimit <- 0, NameSet <- {}, MaxNames <- 0,
       names <- <<>>, sent <- <<>>, done <- FALSE

(* The commands the lines parse to.                                        *)
Commands == {Parser!ParseCommand(l) : l \in Lines}

(* server.clients.Get(nickname): the live clients with that nick.          *)
ClientsNamed(nick) == {x \in live : <<x>> = nick}

-----------------------------------------------------------------------------
(* A channel object nothing references: not indexed, no members, and no   *)
(* JOIN holding it in its local variable.                                  *)
Free(ch) ==
  /\ ch \notin Range(index)
  /\ members[ch] = {}
  /\ \A c \in Clients : pc[c] \in {"idle", "whois"} \/ got[c] # ch

(* Channel.Join (spec.md 4.4): add c and record the channel on c; the      *)
(* first member of an empty channel is its operator.                       *)
ChannelJoin(c, ch) ==
  IF c \in members[ch]
  THEN UNCHANGED <<members, ops, joined>>
  ELSE /\ members' = [members EXCEPT ![ch] = @ \cup {c}]
       /\ ops' = IF members[ch] = {} THEN [ops EXCEPT ![ch] = @ \cup {c}] ELSE ops
       /\ joined' = [joined EXCEPT ![c] = @ \cup {ch}]

(* For each pair <<x, ch>> of P, remove x from ch (when it is a member), *)
(* as Part, Kick and Quit do, and remove every channel this leaves empty  *)
(* from the index, where the index still holds that channel.               *)
RemovePairs(P) ==
  LET gone(ch) == {x \in Clients : <<x, ch>> \in P}
      emptied == {ch \in Chans : members[ch] # {} /\ members[ch] \subseteq gone(ch)}
  IN /\ members' = [ch \in Chans |-> members[ch] \ gone(ch)]
     /\ ops' = [ch \in Chans |-> ops[ch] \ gone(ch)]
     /\ joined' = [x \in Clients |-> {ch \in joined[x] : <<x, ch>> \notin P}]
     /\ index' = [n \in Names |-> IF index[n] \in emptied THEN NoChan ELSE index[n]]

(* Remove x from each channel of S.                                        *)
RemoveFrom(x, S) == RemovePairs({x} \X S)

(* The bound on channel objects: a JOIN of k names starts only while     *)
(* every channel that a JOIN may still have to create (one per name left  *)
(* in its loop, and one in "create") will find a free object.              *)
ObjectsLeft(k) ==
  LET demand == {<<c, n>> \in Clients \X Names : n \in todo[c]}
                   \cup {<<c, jname[c]>> : c \in {x \in Clients : pc[x] = "create"}}
  IN Cardinality({ch \in Chans : ~Free(ch)}) + Cardinality(demand) + k
       <= Cardinality(Chans)

-----------------------------------------------------------------------------
(* JoinCommand.HandleServer, not JOIN 0: the loop over the names of      *)
(* m.channels, in Go's map order.                                           *)
JoinStart(c, cmd) ==
  /\ c \in live
  /\ pc[c] = "idle"
  /\ cmd.kind = "join" /\ ~cmd.zero
  /\ ObjectsLeft(Cardinality(DOMAIN cmd.channels \cap Names))
  /\ pc' = [pc EXCEPT ![c] = "loop"]
  /\ todo' = [todo EXCEPT ![c] = DOMAIN cmd.channels]
  /\ Quiet
  /\ UNCHANGED <<listing, index, chname, members, ops, joined, live, opers, jname, got>>

(* The loop goes on with the next name, or the handler returns.            *)
NextName(c, left) ==
  /\ todo' = [todo EXCEPT ![c] = left]
  /\ pc' = [pc EXCEPT ![c] = IF left = {} THEN "idle" ELSE "loop"]

(* A name that is not a channel name is answered ERR_NOSUCHCHANNEL.        *)
JoinSkip(c) ==
  /\ pc[c] = "loop"
  /\ \E n \in todo[c] : ~Parser!IsChannel(n) /\ NextName(c, todo[c] \ {n})
  /\ Quiet
  /\ UNCHANGED <<listing, index, chname, members, ops, joined, live, opers, jname, got>>

(* channel := Get(name).  The loop does not look at whether the client    *)
(* has quit meanwhile.                                                     *)
JoinGet(c) ==
  /\ pc[c] = "loop"
  /\ \E n \in todo[c] \cap Names :
       /\ pc' = [pc EXCEPT ![c] = IF index[n] = NoChan THEN "create" ELSE "enter"]
       /\ todo' = [todo EXCEPT ![c] = @ \ {n}]
       /\ jname' = [jname EXCEPT ![c] = n]
       /\ got' = [got EXCEPT ![c] = index[n]]
  /\ Quiet
  /\ UNCHANGED <<listing, index, chname, members, ops, joined, live, opers>>

(* channel == nil: channel = NewChannel(s, name, true), which makes a new  *)
(* channel and Adds it to the index unless the name was taken meanwhile.   *)
JoinCreate(c) ==
  /\ pc[c] = "create"
  /\ \E ch \in Chans :
       /\ Free(ch)
       /\ chname' = [chname EXCEPT ![ch] = jname[c]]
       /\ index' = IF index[jname[c]] = NoChan
                   THEN [index EXCEPT ![jname[c]] = ch] ELSE index
       /\ got' = [got EXCEPT ![c] = ch]
  /\ pc' = [pc EXCEPT ![c] = "enter"]
  /\ Quiet
  /\ UNCHANGED <<listing, members, ops, joined, live, opers, todo, jname>>

(* channel.Join(client, key), on the channel JOIN got or made; then the    *)
(* next name.  Keys are not modelled: no channel has mode Key.             *)
JoinEnter(c) ==
  /\ pc[c] = "enter"
  /\ ChannelJoin(c, got[c])
  /\ NextName(c, todo[c])
  /\ Quiet
  /\ UNCHANGED <<listing, index, chname, live, opers, jname, got>>

(* JOIN 0: client.channels.Range, calling channel.Part on each.            *)
JoinZero(c) ==
  /\ c \in live
  /\ pc[c] = "idle"
  /\ joined[c] # {}
  /\ RemoveFrom(c, joined[c])
  /\ Quiet
  /\ UNCHANGED <<listing, chname, live, opers, pc, todo, jname, got>>

(* PartCommand.HandleServer: for each name, Get(name), then channel.Part, *)
(* which removes a member (ERR_NOTONCHANNEL otherwise).  The parts touch   *)
(* one client's memberships only, so the loop is one step.                 *)
PartHandler(c, cmd) ==
  /\ c \in live
  /\ pc[c] = "idle"
  /\ cmd.kind = "part"
  /\ RemoveFrom(c, {index[n] : n \in ToSet(cmd.channels) \cap Names} \ {NoChan})
  /\ Quiet
  /\ UNCHANGED <<listing, chname, live, opers, pc, todo, jname, got>>

(* KickCommand.HandleServer: for each channel of m.kicks, Get(chname),    *)
(* clients.Get(nickname), then channel.Kick, which needs the kicker to be *)
(* an operator of the channel and the target a member.  The channels of a *)
(* map are distinct, so the loop is one step.                              *)
KickHandler(c, cmd) ==
  /\ c \in live
  /\ pc[c] = "idle"
  /\ cmd.kind = "kick"
  /\ LET kicked(n) == {t \in ClientsNamed(cmd.kicks[n]) : t \in members[index[n]]}
         opped == {n \in DOMAIN cmd.kicks \cap Names : index[n] # NoChan /\ c \in ops[index[n]]}
     IN RemovePairs(UNION {kicked(n) \X {index[n]} : n \in opped})
  /\ Quiet
  /\ UNCHANGED <<listing, chname, live, opers, pc, todo, jname, got>>

(* Client.Quit (spec.md 5): remove the client from every channel it is in *)
(* and from the clients index.  It runs on whichever goroutine calls it.   *)
ClientQuit(t) ==
  /\ RemoveFrom(t, joined[t])
  /\ live' = live \ {t}
  /\ opers' = opers \ {t}

(* QuitCommand.HandleServer, on the client's own goroutine.                *)
Quit(c) ==
  /\ c \in live
  /\ pc[c] = "idle"
  /\ ClientQuit(c)
  /\ Quiet
  /\ UNCHANGED <<listing, chname, pc, todo, jname, got>>

(* OperCommand.HandleServer: when the password matches the one in       *)
(* server.operators for the name (LoadPassword, CheckPassword), set user  *)
(* modes Operator and WallOps; otherwise ERR_PASSWDMISMATCH.               *)
OperHandler(c, cmd) ==
  /\ c \in live
  /\ pc[c] = "idle"
  /\ cmd.kind = "oper"
  /\ cmd.name \in DOMAIN Operators
  /\ Operators[cmd.name] = cmd.password
  /\ opers' = opers \cup {c}
  /\ Quiet
  /\ UNCHANGED <<listing, index, chname, members, ops, joined, live, pc, todo, jname, got>>

(* KillCommand.HandleServer: an operator looks the target up in the       *)
(* clients index and calls target.Quit on its own goroutine, whatever the  *)
(* target's goroutine is doing.                                            *)
KillHandler(c, cmd) ==
  /\ c \in live
  /\ pc[c] = "idle"
  /\ cmd.kind = "kill"
  /\ c \in opers
  /\ \E t \in ClientsNamed(cmd.nickname) : ClientQuit(t)
  /\ Quiet
  /\ UNCHANGED <<listing, chname, pc, todo, jname, got>>

(* Channel.Nicks(target) (not in src/; spec.md 4.4, Names): the members' *)
(* nicks, an operator's prefixed with "@".  No client has multi-prefix and *)
(* no member has Voice.                                                    *)
Nicks(ch) == {IF x \in ops[ch] THEN <<"@", x>> ELSE <<x>> : x \in members[ch]}

(* channel.Names(client): RplNamReply, MultilineReply over the nicks in    *)
(* the member map's order, which Go leaves open, then RPL_ENDOFNAMES.  No  *)
(* channel has mode Secret or Private, so every client sees every list.    *)
NamesBursts(n, ch) ==
  {[about |-> "names", name |-> n, found |-> TRUE, chunks |-> NamReply!Chunks(o)] : o \in SetToSeqs(Nicks(ch))}

(* The loop over msg.channels: Get(chname), then ERR_NOSUCHCHANNEL or     *)
(* channel.Names; the possible replies of the whole loop.                   *)
RECURSIVE NamesLoop(_)
NamesLoop(ns) ==
  IF ns = <<>> THEN {<<>>}
  ELSE LET n == Head(ns)
           here == IF n \in Names /\ index[n] # NoChan THEN NamesBursts(n, index[n])
                   ELSE {[about |-> "names", name |-> n, found |-> FALSE, chunks |-> <<>>]}
       IN {<<b>> \o rest : b \in here, rest \in NamesLoop(Tail(ns))}

(* NamesCommand.HandleServer.  When the index is empty (Count() == 0) it  *)
(* ranges over all channels, which are none; otherwise it runs the loop    *)
(* over msg.channels, which is empty for NAMES without arguments.  Each    *)
(* channel's Get and Names read under their own locks; the model reads the *)
(* whole loop in one step.                                                  *)
NamesHandler(c, cmd) ==
  /\ c \in live
  /\ pc[c] = "idle"
  /\ cmd.kind = "names"
  /\ ~Panicked
  /\ \E out \in IF \A n \in Names : index[n] = NoChan THEN {<<>>}
                ELSE NamesLoop(cmd.channels) :
       replies' = out
  /\ UNCHANGED <<index, chname, members, ops, joined, live, opers, pc, todo, jname, got,
                 wtarget, wcount>>

(* WhoisCommand.HandleServer for a line of one mask: FindAll(mask), exact *)
(* nicks only (wildcards are not modelled); no match is ERR_NOSUCHNICK.     *)
(* For a match, RplWhois sends the user, operator and idle lines and calls *)
(* WhoisChannelsNames, which makes chstrs of len client.channels.Count().  *)
WhoisStart(c, cmd) ==
  /\ c \in live
  /\ pc[c] = "idle"
  /\ cmd.kind = "whois" /\ Len(cmd.masks) = 1
  /\ \E t \in ClientsNamed(cmd.masks[1]) :
       /\ pc' = [pc EXCEPT ![c] = "whois"]
       /\ wtarget' = [wtarget EXCEPT ![c] = t]
       /\ wcount' = [wcount EXCEPT ![c] = Cardinality(joined[t])]
  /\ Quiet
  /\ UNCHANGED <<index, chname, members, ops, joined, live, opers, todo, jname, got>>

(* chstrs[index] of WhoisChannelsNames: the channel's name, "@" first    *)
(* when the target is its operator (no member has Voice).                  *)
Prefixed(t, ch) == IF t \in ops[ch] THEN <<"@">> \o chname[ch] ELSE chname[ch]

(* A plausible slip: the loop never increments index, so every channel is *)
(* written to chstrs[0] and the last one stays.                            *)
WhoisNamesNoIncrement(t, n, o) ==
  [i \in 1..n |-> IF i = 1 /\ o # <<>> THEN Prefixed(t, o[Len(o)]) ELSE <<>>]

(* WhoisChannelsNames's chstrs, of len n (the Count taken before), after  *)
(* client.channels.Range visits the channels in the order o: slot i holds *)
(* the i-th channel, and the slots past the channels visited stay "".     *)
(* CanSeeChannel holds for every channel: none is Secret or Private.      *)
WhoisChannelsNames(t, n, o) ==
  [i \in 1..n |-> IF i <= Len(o) THEN Prefixed(t, o[i]) ELSE <<>>]

(* client.channels.Range, then RplWhoisChannels, when the target is in no *)
(* more channels than Count said: MultilineReply over chstrs, "" slots of  *)
(* channels left since included, then the closing lines.  The locals are  *)
(* gone when RplWhois returns.                                             *)
WhoisRange(c) ==
  LET t == wtarget[c]
  IN /\ pc[c] = "whois"
     /\ ~Panicked
     /\ Cardinality(joined[t]) <= wcount[c]
     /\ \E o \in SetToSeqs(joined[t]) :
          replies' = <<[about |-> "whois", name |-> t, found |-> TRUE,
                        chunks |-> WhoisReply!Chunks(WhoisChannelsNames(t, wcount[c], o))]>>
     /\ pc' = [pc EXCEPT ![c] = "idle"]
     /\ wtarget' = [wtarget EXCEPT ![c] = c]
     /\ wcount' = [wcount EXCEPT ![c] = 0]
     /\ UNCHANGED <<index, chname, members, ops, joined, live, opers, todo, jname, got>>

(* The same Range when the target has joined a channel since Count: the   *)
(* write to chstrs[len(chstrs)] is out of range, a panic that no          *)
(* goroutine recovers, which ends the process: no step follows (Quiet).   *)
WhoisOverrun(c) ==
  /\ pc[c] = "whois"
  /\ Cardinality(joined[wtarget[c]]) > wcount[c]
  /\ pc' = [pc EXCEPT ![c] = "panicked"]
  /\ Quiet
  /\ UNCHANGED <<listing, index, chname, members, ops, joined, live, opers, todo, jname, got>>

(* A new client registers in a slot whose goroutine has ended.             *)
Accept(c) ==
  /\ c \notin live
  /\ pc[c] = "idle"
  /\ joined[c] = {}
  /\ live' = live \cup {c}
  /\ Quiet
  /\ UNCHANGED <<listing, index, chname, members, ops, joined, opers, pc, todo, jname, got>>

-----------------------------------------------------------------------------
Init ==
  /\ index = [n \in Names |-> NoChan]
  /\ chname = [ch \in Chans |-> CHOOSE n \in Names : TRUE]
  /\ members = [ch \in Chans |-> {}]
  /\ ops = [ch \in Chans |-> {}]
  /\ joined = [c \in Clients |-> {}]
  /\ live = Clients
  /\ opers = {}
  /\ pc = [c \in Clients |-> "idle"]
  /\ todo = [c \in Clients |-> {}]
  /\ jname = [c \in Clients |-> CHOOSE n \in Names : TRUE]
  /\ got = [c \in Clients |-> NoChan]
  /\ replies = <<>>
  /\ wtarget = [c \in Clients |-> c]
  /\ wcount = [c \in Clients |-> 0]

(* The handler ParseCommand's result runs.                                *)
Handle(c, cmd) ==
  \/ cmd.kind = "join" /\ cmd.zero /\ JoinZero(c)
  \/ JoinStart(c, cmd)
  \/ PartHandler(c, cmd)
  \/ KickHandler(c, cmd)
  \/ cmd.kind = "quit" /\ Quit(c)
  \/ OperHandler(c, cmd)
  \/ KillHandler(c, cmd)
  \/ WhoisStart(c, cmd)
  \/ NamesHandler(c, cmd)

Next ==
  \E c \in Clients :
    \/ \E cmd \in Commands : Handle(c, cmd)
    \/ JoinSkip(c) \/ JoinGet(c) \/ JoinCreate(c) \/ JoinEnter(c)
    \/ WhoisRange(c) \/ WhoisOverrun(c)
    \/ Accept(c)

Spec == Init /\ [][Next]_vars

-----------------------------------------------------------------------------
(* spec.md 5: Client.Quit removes a client from every channel, so every   *)
(* member of a channel is a live client, whichever goroutine quit it and  *)
(* whatever its own goroutine was doing.                                    *)
MembersLive ==
  \A ch \in Chans : members[ch] \subseteq live

(* spec.md 4.5, 5: the channels index is the owning side: every channel a *)
(* client has joined is the one the index holds for its name, so PRIVMSG, *)
(* NAMES and TOPIC for that name reach it.                                  *)
JoinedChannelsIndexed ==
  \A x \in Clients : \A ch \in joined[x] : index[chname[ch]] = ch

(* spec.md 4.2 (WHOIS channels): the RPL_WHOISCHANNELS lines list every *)
(* channel the target is in when the reply is sent, each once and "@"     *)
(* where it is operator, whatever JOIN, PART, KICK or KILL ran between    *)
(* WhoisChannelsNames's Count and its Range.  ("" slots of channels left  *)
(* in between are not names.)                                              *)
WhoisListsChannels ==
  \A i \in DOMAIN replies :
    replies[i].about = "whois" =>
      LET t == replies[i].name
          listed == SelectSeq(FlattenSeq(replies[i].chunks), LAMBDA x : x # <<>>)
      IN /\ Len(listed) = Cardinality(joined[t])
         /\ ToSet(listed) = {Prefixed(t, ch) : ch \in joined[t]}
=============================================================================
