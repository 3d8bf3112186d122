----------------------------- MODULE ServerLoop -----------------------------
(***************************************************************************)
(* Server.Run (src/internal/server.go): the goroutine that selects over    *)
(* done, signals, newConns and idle, with what it calls.  On a signal it   *)
(* runs Shutdown, whose Global sends the notice on every indexed client's  *)
(* replies channel with a blocking send, and then starts a goroutine that  *)
(* calls Stop (done <- true) after a second.  The acceptor hands           *)
(* connections to Run on the unbuffered newConns.                          *)
(*                                                                         *)
(* The other goroutines that matter here: each client's writer, which      *)
(* drains its replies channel unless its peer does not read; the client   *)
(* handlers, which run commands parsed from lines (LineParser) and queue  *)
(* replies with Client.Reply; and the operator's handler, whose WALLOPS,   *)
(* NOTICE * and REHASH broadcast from its own goroutine.                   *)
(* A client's replies channel holds at most QCap replies (spec.md 5).      *)
(***************************************************************************)
EXTENDS Naturals, FiniteSets, Sequences

CONSTANTS
  Clients,        \* connections
  StallingPeers,  \* peers that do not read from their socket
  QCap,           \* capacity of a client's replies channel
  SigCap,         \* capacity of server.signals: len(SERVER_SIGNALS)
  MaxSignals,     \* bound on the signals the process receives
  Oper,           \* a client that is a server operator
  WallopsUsers,   \* clients with user mode WallOps
  Lines           \* the lines clients send; a client's nick is its name

ASSUME StallingPeers \subseteq Clients /\ QCap \in Nat \ {0}
ASSUME Oper \in WallopsUsers /\ WallopsUsers \subseteq Clients

VARIABLES
  runPc,       \* main and NewServer: "main", "listen", "setup", "register";
               \* Run: "select", "global" (inside Shutdown's Global), "done";
               \* the process ended: "crashed", "exited"
  toNotify,    \* the clients Global's Range has still to visit
  sigQ,        \* signals buffered in server.signals
  signals,     \* signals the process has received
  stoppers,    \* goroutines started by Run that will call Stop
  handoff,     \* the acceptor is blocked sending a connection on newConns
  connected,   \* clients in server.clients
  queue,       \* queue[c]: replies buffered in c's replies channel
  idleReady,   \* clients whose idle watchdog is sending on server.idle
  opPc,        \* Oper's handler: "idle", "broadcast" (in Wallops or Global), "rehash"
  opTo,        \* the clients that broadcast's Range has still to visit
  opNext,      \* what the handler does after the broadcast: "rehash" or "return"
  registered   \* NewServer's metrics registered so far: a prefix of Metrics

opVars == <<opPc, opTo, opNext>>

Parser == INSTANCE LineParser WITH line <- <<>>, ArgModes <- {}, Source <- <<>>

(* The commands the lines parse to.                                        *)
Commands == {Parser!ParseCommand(l) : l \in Lines}

(* server.clients.Get(nick): the indexed clients with that nick.           *)
ClientsNamed(nick) == {x \in connected : <<x>> = nick}
vars == <<runPc, toNotify, sigQ, signals, stoppers, handoff, connected, queue,
          idleReady, opPc, opTo, opNext, registered>>

-----------------------------------------------------------------------------
(* Server startup, NewServer: the listeners and their acceptors first,   *)
(* then the templates and WWW listeners and signal.Notify, then the        *)
(* metrics, registered by key in this order; then go metrics.Run, and main *)
(* calls Run.  Listen errors and template errors end the process with      *)
(* log.Fatal.                                                              *)
Metrics == <<"server_uptime", "client_commands", "client_messages",
             "server_connections", "server_registered", "server_clients",
             "server_channels", "client_command_duration_seconds",
             "client_ping_latency_seconds">>

Registered == {Metrics[i] : i \in 1..registered}

(* Metrics.GaugeVec, SummaryVec, Counter, Gauge, Summary: the metric       *)
(* stored under key, or nil when it is not registered yet.                 *)
Found(key) == key \in Registered

Exited == {"done", "crashed", "exited"}
Running == runPc \notin Exited

startVars == <<toNotify, sigQ, signals, stoppers, handoff, connected, queue,
               idleReady, opVars>>

(* main (src/cmd/main.go): with -v it prints the version and exits; a    *)
(* config that LoadConfig rejects is log.Fatal; otherwise it calls         *)
(* NewServer(config).Run().  The flags and the file are inputs, so either  *)
(* outcome can happen.                                                     *)
Main ==
  /\ runPc = "main"
  /\ runPc' \in {"listen", "exited"}
  /\ UNCHANGED <<startVars, registered>>

(* The Listen loops: net.Listen and go s.acceptor for each address.        *)
Listen ==
  /\ runPc = "listen"
  /\ runPc' \in {"setup", "exited"}
  /\ UNCHANGED <<startVars, registered>>

(* Templates and WWW listeners, then signal.Notify(server.signals, ...).   *)
Setup ==
  /\ runPc = "setup"
  /\ runPc' \in {"register", "exited"}
  /\ UNCHANGED <<startVars, registered>>

(* One Metrics.New* call: the key is stored in its map under the lock.    *)
(* After the last one main starts the exporter and enters Run.             *)
Register ==
  /\ runPc = "register"
  /\ registered' = registered + 1
  /\ runPc' = IF registered' = Len(Metrics) THEN "select" ELSE "register"
  /\ UNCHANGED startVars

StartStep == Main \/ Listen \/ Setup \/ Register

(* A signal before signal.Notify ends the process (Go's default action    *)
(* for SIGINT and SIGTERM).  After it, Notify delivers without blocking:   *)
(* a signal arriving while the buffer is full is dropped.                  *)
Signal ==
  /\ Running
  /\ signals < MaxSignals
  /\ signals' = signals + 1
  /\ IF runPc \in {"main", "listen", "setup"}
     THEN runPc' = "exited" /\ UNCHANGED sigQ
     ELSE sigQ' = (IF sigQ < SigCap THEN sigQ + 1 ELSE sigQ) /\ UNCHANGED runPc
  /\ UNCHANGED <<toNotify, stoppers, handoff, connected, queue,
                 idleReady>>
  /\ UNCHANGED <<opVars, registered>>

(* case <-server.done: Run returns (and main with it).                     *)
RunDone ==
  /\ runPc = "select"
  /\ stoppers > 0
  /\ runPc' = "done"
  /\ stoppers' = stoppers - 1
  /\ UNCHANGED <<toNotify, sigQ, signals, handoff, connected, queue,
                 idleReady>>
  /\ UNCHANGED <<opVars, registered>>

(* case <-server.signals: Shutdown, that is Global("shutting down..."),    *)
(* whose Range starts over the indexed clients.                            *)
RunSignal ==
  /\ runPc = "select"
  /\ sigQ > 0
  /\ sigQ' = sigQ - 1
  /\ runPc' = "global"
  /\ toNotify' = connected
  /\ UNCHANGED <<signals, stoppers, handoff, connected, queue,
                 idleReady>>
  /\ UNCHANGED <<opVars, registered>>

(* One call of Global's Range callback: client.replies <- notice, which    *)
(* blocks while c's channel is full; the callback returns true.            *)
GlobalSend(c) ==
  /\ runPc = "global"
  /\ c \in toNotify
  /\ queue[c] < QCap
  /\ queue' = [queue EXCEPT ![c] = @ + 1]
  /\ toNotify' = toNotify \ {c}
  /\ UNCHANGED <<runPc, sigQ, signals, stoppers, handoff, connected,
                 idleReady>>
  /\ UNCHANGED <<opVars, registered>>

(* A plausible slip: Shutdown without the goroutine that calls Stop.       *)
GlobalEndNoStop ==
  /\ runPc = "global"
  /\ toNotify = {}
  /\ runPc' = "select"
  /\ UNCHANGED <<toNotify, sigQ, signals, stoppers, handoff, connected, queue,
                  idleReady>>
  /\ UNCHANGED <<opVars, registered>>

(* Global returns; Run starts the goroutine that sleeps and calls Stop,    *)
(* and selects again.                                                      *)
GlobalEnd ==
  /\ runPc = "global"
  /\ toNotify = {}
  /\ runPc' = "select"
  /\ stoppers' = stoppers + 1
  /\ UNCHANGED <<toNotify, sigQ, signals, handoff, connected, queue,
                 idleReady>>
  /\ UNCHANGED <<opVars, registered>>

(* case conn := <-server.newConns: go NewClient(server, conn).  The new    *)
(* client reaches the index as soon as it registers.                       *)
RunConn(c) ==
  /\ runPc = "select"
  /\ handoff
  /\ c \notin connected
  /\ handoff' = FALSE
  /\ connected' = connected \cup {c}
  /\ queue' = [queue EXCEPT ![c] = 0]
  /\ UNCHANGED <<runPc, toNotify, sigQ, signals, stoppers, idleReady>>
  /\ UNCHANGED <<opVars, registered>>

(* Client.Reply (not in src/; spec.md 5): queue a reply, or, when the     *)
(* client's channel is full, drop it and kill the client, which leaves the *)
(* index.                                                                  *)
Reply(c) ==
  IF queue[c] < QCap
  THEN queue' = [queue EXCEPT ![c] = @ + 1] /\ UNCHANGED connected
  ELSE connected' = connected \ {c} /\ UNCHANGED queue

(* case client := <-server.idle: client.Idle(), which Replies a PING.      *)
RunIdle(c) ==
  /\ runPc = "select"
  /\ c \in idleReady
  /\ idleReady' = idleReady \ {c}
  /\ Reply(c)
  /\ UNCHANGED <<runPc, toNotify, sigQ, signals, stoppers, handoff>>
  /\ UNCHANGED <<opVars, registered>>

-----------------------------------------------------------------------------
(* Server.acceptor, started by Listen: listener.Accept returns a          *)
(* connection, metrics.GaugeVec("server", "clients") is looked up and its  *)
(* WithLabelValues(...).Inc() called, which panics on the nil a missing    *)
(* key gives and ends the process; then s.newConns <- conn blocks until    *)
(* Run receives it.                                                        *)
Accept ==
  /\ Running
  /\ runPc \notin {"main", "listen"}
  /\ ~handoff
  /\ connected # Clients
  /\ IF Found("server_clients")
     THEN handoff' = TRUE /\ UNCHANGED runPc
     ELSE runPc' = "crashed" /\ UNCHANGED handoff
  /\ UNCHANGED <<toNotify, sigQ, signals, stoppers, connected, queue,
                  idleReady>>
  /\ UNCHANGED <<opVars, registered>>

(* A client's idle watchdog fires and sends on server.idle.                *)
IdleFire(c) ==
  /\ Running
  /\ c \in connected \ idleReady
  /\ idleReady' = idleReady \cup {c}
  /\ UNCHANGED <<runPc, toNotify, sigQ, signals, stoppers, handoff, connected,
                 queue>>
  /\ UNCHANGED <<opVars, registered>>

(* c's writer writes one reply to the socket.                              *)
Drain(c) ==
  /\ Running
  /\ queue[c] > 0
  /\ c \notin StallingPeers
  /\ queue' = [queue EXCEPT ![c] = @ - 1]
  /\ UNCHANGED <<runPc, toNotify, sigQ, signals, stoppers, handoff, connected,
                  idleReady>>
  /\ UNCHANGED <<opVars, registered>>

-----------------------------------------------------------------------------
(* A handler step whose only effect is Client.Reply to x.                *)
ReplyStep(x) ==
  /\ Reply(x)
  /\ UNCHANGED <<runPc, toNotify, sigQ, signals, stoppers, handoff,
                 idleReady, opVars, registered>>

(* Wallops, Global and Wallopsf called on Oper's goroutine: the same Range *)
(* over the clients index, with a blocking send, as Shutdown's Global; the *)
(* handler goes on with next when the Range ends.                          *)
StartBroadcast(to, next) ==
  /\ opPc' = "broadcast"
  /\ opTo' = to
  /\ opNext' = next
  /\ UNCHANGED <<runPc, toNotify, sigQ, signals, stoppers, handoff, connected,
                 queue, idleReady, registered>>

(* PRIVMSG and NOTICE to a nick: clients.Get(target); ERR_NOSUCHNICK to    *)
(* the sender when nobody holds it, or the message counted and queued for  *)
(* the target.  CanSpeak's test of secure connections always passes here:  *)
(* the connections do not differ in security.                              *)
Deliver(s, target) ==
  IF ClientsNamed(target) = {} THEN ReplyStep(s)
  ELSE \E t \in ClientsNamed(target) : ReplyStep(t)

(* PrivMsgCommand.HandleServer.  No target is a channel (ServerLoop has    *)
(* none) and nobody is away, so RPL_AWAY is never sent.                    *)
PrivMsgHandler(s, cmd) == Deliver(s, cmd.target)

(* NoticeCommand.HandleServer: NOTICE * from an operator is Global to      *)
(* every client; any other NOTICE goes as PRIVMSG does.                    *)
NoticeHandler(s, cmd) ==
  IF cmd.target = <<"*">> /\ s = Oper
  THEN StartBroadcast(connected, "return")
  ELSE Deliver(s, cmd.target)

(* WallopsCommand.HandleServer: ERR_NOPRIVILEGES, or Wallops to the        *)
(* clients with mode WallOps.                                              *)
WallopsHandler(s) ==
  IF s = Oper THEN StartBroadcast(connected \cap WallopsUsers, "return")
  ELSE ReplyStep(s)

(* RehashCommand.HandleServer: ERR_NOPRIVILEGES, or Wallopsf("Rehashing   *)
(* server config ...") and then server.Rehash.                             *)
RehashHandler(s) ==
  IF s = Oper THEN StartBroadcast(connected \cap WallopsUsers, "rehash")
  ELSE ReplyStep(s)

(* PingCommand.HandleServer: PONG to the sender.                           *)
PingHandler(s) == ReplyStep(s)

(* A command of client s, parsed from one of Lines, handled on s's own    *)
(* goroutine once it is done with the previous one.                        *)
ClientCommand(s, cmd) ==
  /\ Running
  /\ s \in connected
  /\ s = Oper => opPc = "idle"
  /\ CASE cmd.kind = "privmsg" -> PrivMsgHandler(s, cmd)
       [] cmd.kind = "notice" -> NoticeHandler(s, cmd)
       [] cmd.kind = "wallops" -> WallopsHandler(s)
       [] cmd.kind = "rehash" -> RehashHandler(s)
       [] cmd.kind = "ping" -> PingHandler(s)

(* One call of the broadcast's Range callback: client.replies <- notice.  *)
OpSend(c) ==
  /\ Running
  /\ opPc = "broadcast"
  /\ c \in opTo
  /\ queue[c] < QCap
  /\ queue' = [queue EXCEPT ![c] = @ + 1]
  /\ opTo' = opTo \ {c}
  /\ UNCHANGED <<runPc, toNotify, sigQ, signals, stoppers, handoff, connected,
                 idleReady, opPc, opNext, registered>>

(* The broadcast returns: the handler returns, or REHASH goes on.          *)
OpEnd ==
  /\ Running
  /\ opPc = "broadcast"
  /\ opTo = {}
  /\ opPc' = IF opNext = "rehash" THEN "rehash" ELSE "idle"
  /\ UNCHANGED <<runPc, toNotify, sigQ, signals, stoppers, handoff, connected,
                 queue, idleReady, opTo, opNext,
                 registered>>

(* A plausible slip: REHASH retries the reload after reporting its        *)
(* failure, instead of returning.                                          *)
RehashRetries ==
  /\ Running
  /\ opPc = "rehash"
  /\ \/ /\ opPc' = "idle"
        /\ Reply(Oper)
        /\ UNCHANGED <<opTo, opNext>>
     \/ /\ opPc' = "broadcast"
        /\ opTo' = connected \cap WallopsUsers
        /\ opNext' = "rehash"
        /\ UNCHANGED <<queue, connected>>
  /\ UNCHANGED <<runPc, toNotify, sigQ, signals, stoppers, handoff,
                 idleReady, registered>>

(* server.Rehash: config.Reload succeeds, the handler answers             *)
(* RPL_REHASHING with client.Reply; or it fails, and the handler broadcasts the error with        *)
(* Wallopsf.  The reloaded fields are not read by this model.             *)
Rehash ==
  /\ Running
  /\ opPc = "rehash"
  /\ \/ /\ opPc' = "idle"
        /\ Reply(Oper)
        /\ UNCHANGED <<opTo, opNext>>
     \/ /\ opPc' = "broadcast"
        /\ opTo' = connected \cap WallopsUsers
        /\ opNext' = "return"
        /\ UNCHANGED <<queue, connected>>
  /\ UNCHANGED <<runPc, toNotify, sigQ, signals, stoppers, handoff,
                 idleReady, registered>>

(* Oper's handler's steps.                                                  *)
OperStep ==
  \/ OpEnd \/ Rehash
  \/ \E c \in Clients : OpSend(c)

-----------------------------------------------------------------------------
Init ==
  /\ runPc = "main"
  /\ toNotify = {}
  /\ sigQ = 0
  /\ signals = 0
  /\ stoppers = 0
  /\ handoff = FALSE
  /\ connected = {}
  /\ queue = [c \in Clients |-> 0]
  /\ idleReady = {}
  /\ opPc = "idle"
  /\ opTo = {}
  /\ opNext = "return"
  /\ registered = 0

(* Run's steps: one case of its select, or one step inside Global.         *)
RunStep ==
  \/ RunDone \/ RunSignal \/ GlobalEnd
  \/ \E c \in Clients : GlobalSend(c) \/ RunConn(c) \/ RunIdle(c)

Next ==
  \/ StartStep
  \/ RunStep
  \/ OperStep
  \/ Signal
  \/ Accept
  \/ \E s \in Clients, cmd \in Commands : ClientCommand(s, cmd)
  \/ \E c \in Clients : IdleFire(c) \/ Drain(c)

(* main, Run, the writers and Oper's handler are goroutines the scheduler *)
(* keeps running while they can proceed.  Go's select picks among the      *)
(* ready cases at random, so a case ready again and again is taken         *)
(* eventually (strong fairness for the signal and done cases), and a       *)
(* channel hands its free slots to blocked senders in FIFO order, so a     *)
(* broadcast's send to a channel that is drained again and again gets      *)
(* through.  Signals, connections, idle timers, traffic and operator       *)
(* commands come from outside and need not happen.                         *)
Fairness ==
  /\ WF_vars(StartStep)
  /\ WF_vars(RunStep)
  /\ SF_vars(RunSignal) /\ SF_vars(RunDone) /\ WF_vars(GlobalEnd)
  /\ WF_vars(OpEnd) /\ WF_vars(Rehash)
  /\ \A c \in Clients : /\ SF_vars(GlobalSend(c)) /\ SF_vars(OpSend(c))
                        /\ WF_vars(Drain(c))

Spec == Init /\ [][Next]_vars /\ Fairness

-----------------------------------------------------------------------------
(* spec.md 5: SIGINT or SIGTERM shuts the server down.  A received signal  *)
(* leads to the process ending: Run returns, or, during NewServer, the     *)
(* signal's default action or a startup failure ends it.                   *)
ShutdownCompletes ==
  (signals > 0) ~> ~Running

(* WALLOPS, NOTICE * and REHASH return to Oper's command loop: the         *)
(* broadcast's blocking sends and REHASH's second broadcast all end, while *)
(* the peers keep reading.                                                 *)
OperCommandsComplete ==
  (opPc # "idle") ~> (opPc = "idle" \/ ~Running)
=============================================================================
