# TLA+ models of BlockIRC

These modules model the BlockIRC server in `src/`, a Go IRC daemon. They are
checked with TLC. `PROJECT.json` lists the components, runs, mutants, the map
from each definition to the source lines it translates, the findings and the
hazards. This file explains them.

## The system and how its parts interact

- **Server loop** (`Server.Run`, `src/internal/server.go:301`). One goroutine
  serves new connections, signals and idle checks. It has no case for client
  commands. A signal runs `Shutdown`, whose `Global` sends a notice to every
  client, and then a goroutine that calls `Stop` a second later.
- **Startup** (`NewServer`, `server.go:85-262`). It starts the listeners and
  their acceptor goroutines first, then loads templates, starts the WWW
  listeners and calls `signal.Notify`, then registers nine metrics by key
  (`metrics.go`), and only then returns, so that `main` calls Run.
- **Acceptor and listeners** (`server.go:323-510`). The acceptor looks up the
  `server_clients` gauge for each new connection and hands it to Run, which
  starts `NewClient` on its own goroutine.
- **Client goroutines.** Each client parses its lines (`src/internal/command/`)
  and runs the handler directly on its own goroutine:
  - `HandleRegServer` before registration;
  - `HandleServer` after it.
  Commands of different clients therefore interleave freely. They share the
  clients index (`server.clients`, keyed by folded nick), the channels index,
  the channels themselves and the who-was list.
- **Registration** (`server.go:512-768`). It covers PASS, USER, NICK, CAP and
  QUIT, plus `tryRegister`, which sends the welcome burst once NICK and USER are
  done and no capability negotiation is open.
- **SASL** (`AuthenticateCommand.HandleRegServer`, `server.go:639-728`). It is
  PLAIN over AUTHENTICATE, in 400-byte pieces, against the account store.
- **Who-was list** (`src/pkg/whois.go`). It is a ring buffer of snapshots taken
  on nick change and quit and read by WHOWAS. It is guarded by a
  `sync.RWMutex`, and iterated by a goroutine sending on an unbuffered channel.
- **Channel handlers** (`server.go:769-1135`). JOIN loops over the names of
  its list, looking each channel up in the channels index and creating it when
  it is missing; PART, KICK and QUIT remove members, and an emptied channel
  leaves the index. PRIVMSG and NOTICE queue replies for their targets. NAMES
  answers with `MultilineReply` chunks per channel. WHOIS looks the target up
  and sizes a slice by its channel count, then fills it inside `Range`.
- **Operator handlers** (`server.go:931-1179`). OPER sets the Operator mode.
  KILL calls the target's `Quit` on the operator's goroutine, concurrently with
  whatever the target's own goroutine is doing. WALLOPS, NOTICE `*` and REHASH
  broadcast with blocking sends on the operator's goroutine, like Shutdown's
  `Global` on Run's.
- **Line parser** (`src/internal/command/command.go`, `channel.go`, `user.go`).
  `ParseLine` splits a line into code and arguments; `ParseCommand` hands the
  arguments to the code's constructor, such as the MODE parsers or the JOIN,
  PART and KICK parsers of comma lists.
- **Replies** (`src/internal/reply.go`). Numerics, `MultilineReply`, and the
  MODE echo, which renders parsed mode changes back with
  `ModeChanges.String` and `ChannelModeChanges.String`.
- **Metrics** (`metrics.go`). Maps from key to metric, written by the `New*`
  methods under a lock and read by the lookups (`Counter` without it); a
  lookup of a key not yet stored returns nil, or panics on the type
  assertion. The server never reads a metric's value back.
- **Main and version** (`src/cmd/blockircd/main.go`). `main` prints the
  version and exits on `-v`, ends the process with `log.Fatal` when
  `LoadConfig` fails, and otherwise calls `NewServer` and `Run`. The version
  string itself is not modelled.

Several types the handlers call are not in `src/`:
- `Client` and `Client.Quit`;
- `ClientLookupSet`;
- `Channel`, `NewChannel` and the channels index's `Add` and `Remove`;
- `SaslState`;
- the NICK and CAP handlers;
- the password store.

They are modelled from `spec.md` and marked `spec_modelled` in the map.

## Modules

| Module | Models | State | Actions |
|---|---|---|---|
| `Registration` | registration handlers, clients index | per-client `authorized`, `nick`, `hasUser`, `capState`, `registered`, `modes`, `dead`; `index`; `userStep` marks a USER between its two index sections | `Accept`, `Pass`, `Nick`, `UserRemove`, `UserAdd`, `CapNegotiate`, `CapEnd`, `Quit` |
| `Sasl` | AUTHENTICATE and PASS of one connection | `authorized`, `started`, `buf`, `account`, `modes`; `reply`, the numeric of the handler's last answer | `Accept`, `Pass`, `Authenticate` (one CASE arm per exit of the handler) |
| `WhoWasHistory` | the promise of the who-was list: the last `Cap` snapshots, newest-first lookups up to a limit | `kept`, `found` | `Append_`, `Find` |
| `WhoWasList` | the ring of `whois.go`, each call atomic | `buffer`, `start`, `end`, `found` | `AppendEntry`, `Find` (via the recursive `EachFrom` and `FindLoop`) |
| `ServerLoop` | `main` (`Main`: `-v`, a config error, or NewServer), NewServer's steps (`Listen`, `Setup`, one `Register` per metric, in the order of `Metrics`), Run's select, Shutdown and Global, the Stop goroutine, the acceptor hand-off, client commands parsed from lines by `LineParser` (an `INSTANCE`) and dispatched by `ClientCommand`: PRIVMSG and NOTICE to a nick (looked up with `ClientsNamed`, then a reply for the target or ERR_NOSUCHNICK for the sender, through `Client.Reply`), PING, and WALLOPS, NOTICE `*` and REHASH (a broadcast from the operator, ERR_NOPRIVILEGES from anyone else), with client writers and the constant set `StallingPeers` of peers that do not read | `runPc` (from `"main"`), `toNotify` (Global's Range), `sigQ`, `stoppers`, `handoff`, `connected`, `queue`, `idleReady`; the operator's `opPc`, `opTo` (its broadcast's Range), `opNext`; `registered` (how many of `Metrics` are stored) | `Main`, `Listen`, `Setup`, `Register`, `Signal`, `RunSignal`, `GlobalSend`, `GlobalEnd`, `RunDone`, `RunConn`, `RunIdle`, `Accept`, `IdleFire`, `ClientCommand` (`PrivMsgHandler`, `NoticeHandler`, `PingHandler`, `WallopsHandler`, `RehashHandler`), `Drain`, `OpSend`, `OpEnd`, `Rehash` |
| `MultilineReply` | `Client.MultilineReply`: its loop over `from` and `to` is the recursive operator `ChunkLoop`, `Chunks(names)` the sequence of chunks sent; names are sequences of characters | `names`, the chunks `sent`, `done` | `Reply` |
| `Channel` | JOIN, JOIN 0, PART, KICK, QUIT, OPER, KILL, NAMES and WHOIS over the channels index, each run on a command `LineParser` parsed from a line (an `INSTANCE`); NAMES and WHOIS chunk their lists with `MultilineReply` (two `INSTANCE`s, `NamReply` and `WhoisReply`) | `index` (name to channel object), `chname`, `members`, `ops`, `joined` (`client.channels`), `live`, `opers`; per client JOIN's `pc` (also `"whois"` inside WHOIS's Range and `"panicked"`), the names `todo` in its loop, `jname` and local `got`, WHOIS's locals `wtarget` and `wcount`; `replies`, the NAMES bursts or the RPL_WHOISCHANNELS reply of the last step | `JoinStart`, `JoinSkip`, `JoinGet`, `JoinCreate`, `JoinEnter`, `JoinZero`, `PartHandler`, `KickHandler`, `Quit`, `OperHandler`, `KillHandler`, `NamesHandler`, `WhoisStart`, `WhoisRange`, `WhoisOverrun`, `Accept` |
| `LineParser` | `ParseLine`, `splitArg`, `ParseCommand`, the user and channel MODE parsers, the JOIN, PART, KICK, QUIT, OPER, KILL, WHOWAS, PRIVMSG, NOTICE, WALLOPS, REHASH, PING, NAMES and WHOIS constructors, the two mode-string renderers and the MODE replies, as (recursive) operators over lines of characters | `line`, the last line the reader received | `Receive` |
| `WhoWasLocking` | the RWMutex, Each's goroutine and its channel, over the ring of `WhoWasList` (an `INSTANCE`) | the ring, plus `rw`, per caller `pc`, `results`, and per goroutine `g`, `gs`, `ge`, `closed`, `orphaned` | `AppendLock`, `AppendBody`, `FindStart`, `Receive`, `FindReturn`, `EachRLock`, `EachPrevEnd`, `EachPrevStart`, `EachAdvance`, `EachClose` |

Each handler is one action, with two exceptions:
- `setUserInfo` takes the index lock twice, once in `clients.Remove` and once in
  `clients.Add`, so it is split into `UserRemove` and `UserAdd`. Another
  client's step can fall between them.
- WHOIS is split at `Range`: `WhoisStart` takes the target's channel count
  for `make`, so another client's JOIN, PART, KICK or KILL can come before the
  Range. If the target is in no more channels than the count, `WhoisRange`
  fills the slice (`WhoisChannelsNames`) and sends it through
  `MultilineReply`; otherwise `WhoisOverrun` is the panic.
- JOIN is split into its loop over the names and, for each name, its three
  critical sections: `channels.Get`, `NewChannel` (which Adds to the index),
  and `channel.Join`. Another client's handler can run between any two of
  them. The loop goes on after a KILL of the client, as the code's does.
  PART and KICK loops are one step each: every iteration touches a different
  channel, and the outcome does not depend on the order.
- In `WhoWasLocking`, every point where a goroutine may block is its own step:
  - `Lock`, in two phases: announce, then wait for the readers;
  - each `RLock`, including the one inside `prev`;
  - the channel send, as a rendezvous with `Receive`;
  - `close`.

`Sasl` abstracts payload bytes:
- A credential blob travels whole (`Last(b)`) or as a 400-byte piece followed by
  the rest (`Part(b)`, `Last(b)`).
- Any other buffer decodes to either invalid base64 or a blob that does not
  split into three tokens. TLC explores both outcomes.

`LineParser` keeps the characters that matter to the grammar: the space,
`:`, `,`, `+`, `-`, `#`, and single letters. The command word is one character
(`MODE`, or `mode`, which `ToUpper` maps to it, `JOIN`, `KICK`, ...). The
constructors this project does not model at the character level give the
result `"other"`. `ModeOp`, the mode types and
`Name` are not in `src/`: an op is its byte, with `=` for List, and a name is
a channel when it starts with `#`.

`Registration` models the USER mode argument by what `ParseUserCommand` and
`Flags` do with it:
- values that parse as a `uint8` (0, 4, 8, 12) select WallOps and Invisible bit
  by bit;
- 256 falls back to the RFC 1459 shape, which sets no modes.

## Runs

| Run | Expect | What it shows |
|---|---|---|
| `registration` | pass | Two clients interleave every registration command with a server password. Two properties hold: `RegisteredOnlyWithPassword` (with a server password, nobody registers without having sent it, in any order of PASS, NICK, USER and CAP) and `RegistrationCompletes` (registered exactly when NICK and USER are done and CAP is not open, with exactly one welcome). |
| `registration_nick_unique` | violation | `NickUnique` (spec P1) fails. Client 1 sends NICK n1 and then USER, which removes it from the index. Client 2 sends NICK n1 and finds it free. Client 1's `clients.Add` is then refused, because n1 is claimed, but `setUserInfo` calls `tryRegister` regardless, and client 1 registers. Client 2's USER follows and it registers too: two registered clients hold n1, and client 1 is not in the index. |
| `sasl` | pass | `TypeOK`: every sequence of aborts, pieces, continuations, retries and leftovers leaves the state well typed, and a Login records an authcid of the accounts table, never the authzid (its mutant logs in under the authzid). The run also reaches the exits that keep the session: after `AUTHENTICATE *` (ERR_SASLABORTED) the server keeps the session started with its buffer, although spec.md 4.3 says `*` aborts it, so a later `AUTHENTICATE PLAIN` is read as payload and answered 904. No property states that, because the difference is only in which 90x reply the client sees. |
| `whowas` | pass | Two goroutines call Append and Find through the RWMutex and Each's goroutine. `CallsAtomic`: the list and Find's answers change only as `WhoWasList`'s atomic Append and Find would, one call at a time (the locked list refines the atomic ring). `KeepsSizeMinusOne`: the ring, through the same mapping, refines `WhoWasHistory` with `Cap = Size - 1`, both in what it keeps and what `Find` returns. It keeps one snapshot fewer than its size: with `Cap = Size`, which spec section 3 asks for (capacity 100), the refinement fails at the third append into three slots. |
| `whowas_calls_hang` | violation | `CallsComplete` (every Append and Find returns) fails. TLC's trace: a Find holds the read lock, an Append announces itself as writer, and the `RLock` of Each's goroutine (like the one in `prev`) then blocks; Find waits for the goroutine and the writer for Find. The same property fails with a single caller (`Callers <- MC_OneCaller`, `Limits = {1}`): a `Find(n, 1)` that breaks leaves Each's goroutine blocked on its send holding a read lock, and the next Append never returns. |
| `channel` | pass | Two clients interleave JOIN (of one or two names, or a name and a nick), JOIN 0, PART, KICK, QUIT, OPER and KILL on two names, each parsed from its line. NAMES and WHOIS are answered from the state. `WhoisListsChannels` holds: the RPL_WHOISCHANNELS lines list each channel the target is in when they are sent, once, with `@` where it is operator, whatever ran between the count and the Range. Its mutant, a Range that never advances `index`, fails it. The run also cuts a WHOIS list of three channel objects (one orphaned by the JOIN race) into two chunks. WHOIS's index-out-of-range panic (a JOIN of the target between `make` and `Range`) is reached in this run; the process ends there. |
| `channel_kill_during_join` | violation | `MembersLive` fails. Client 1's JOIN has looked its channel up; client 2 becomes operator and KILLs client 1, whose `Quit` removes it from the channels it is in at that moment; then client 1's goroutine finishes the JOIN, and the killed client stays a member for good. |
| `channel_join_race` | violation | `JoinedChannelsIndexed` fails. Two clients JOIN a new channel, both get nil from `channels.Get`, and both call `NewChannel`. The index keeps the first one, and the second client is alone, as operator, in a channel no PRIVMSG, NAMES or later JOIN to that name reaches. |
| `multiline_reply_line_limit` | violation | `LinesFit` (spec P4) fails for two names. The last chunk is never measured, and the estimate counts the two `%s` verbs instead of the channel name. |
| `server_loop` | pass | From the start of `NewServer`, with peers that keep reading, whatever signals, connections, idle timers, parsed PRIVMSG, NOTICE, PING, WALLOPS and REHASH lines interleave: `ShutdownCompletes` (a signal always ends the process: Run returns, or during startup the signal's default action or a `log.Fatal` ends it), and `OperCommandsComplete` (every WALLOPS, NOTICE `*` and REHASH returns). The acceptor's panic on the missing `server_clients` gauge is reached in this run: a connection accepted between `Listen` and that gauge's `Register` ends the process. |
| `mode_reply_roundtrip` | violation | `ModeRoundTrip` (spec P7) fails. TLC's counterexample is the line `MODE n -i +i`. The echo is `:s MODE n :-i +`: `ModeChanges.String` writes the new op when the op changes but not the mode, and the `:` makes the changes one trailing argument, which parses as `-i`, `- `, `-+`. For a channel, `MODE #c -i +i` is echoed as `-ii`, because `ChannelModeChanges.String` uses the first op for every change (checked with the channel target alone). |
| `server_loop_stall` | violation | One peer does not read, and its reply channel fills. Global blocks inside Run and the server never shuts down, against spec.md 5's drop-and-kill backpressure. |

The findings in `PROJECT.json` give the source line and what spec.md says for
each violation.

Each property of a passing run has a mutant in `PROJECT.json`: a copy of one
mapped definition with a plausible slip, defined just before it in the module.
Examples are a USER that skips the authorization check, a tryRegister that
ignores an open CAP negotiation, a Login under the authzid, an Append without
the modulo or without the eviction, a Find that breaks one match late, a
Shutdown without the Stop goroutine, a REHASH that retries, and a WHOIS Range
that never advances its index. TLC finds each mutant's property violated.

## Bounds

- **Registration.** Two clients and two nicks: the least that can collide. The
  USER mode arguments cover both bits, both together, no bits and an
  unparseable value. A quit slot is reused by `Accept`, so behaviours do not
  end.
- **Sasl.**
  - Two accounts and four blobs: a good one, one with an explicit matching
    authzid, one with a foreign authzid, and one with the wrong password.
  - `MaxBuf = 3` pieces, so a blob can be sent after a leftover piece and after
    a failed attempt.
  - The code itself has no total bound on the buffer (see the hazards).
- **WhoWasLocking.**
  - `Size = 3`, so there are two entries to iterate and an early break is
    possible. The `whowas` run makes four appends, so the ring wraps; the hang
    run needs three.
  - Find's limits are the counts `ParseWhoWasCommand` gives the lines
    `WHOWAS n 1` and, for the hang run, `WHOWAS n 3`.
  - Two callers. In `whowas` the limit is 1: Find breaks at a match, or
    returns when the channel closes after no match. In the hang run, limits 1
    and 3 give a Find that breaks early and one that does not. One caller is
    enough for the leak; the recursive read lock needs two.
  - `MaxReaders = 3` bounds the read locks held: each Find that breaks early
    leaves one held for ever, and without a bound Finds could pile them up.
  - `Find(n, 0)`, which WHOWAS passes when no count is given, returns one
    entry (`whois.go:51`); a single call shows it, so it is left to a unit
    test.
- **LineParser.** Every `MODE` line for the channel `#c` or the nick `n` with
  up to three tokens: mode groups of a sign and one or two of `k`, `o`
  (both take an argument) and `i`, and the arguments `a` and `b`. This is
  enough for a group that takes two arguments, a missing argument, and two
  groups of opposite signs.

- **ServerLoop.**
  - Two clients and reply channels of 2, so one channel can be full while the
    other is not.
  - Two signals, so a second Shutdown can race with the first Stop goroutine.
  - The signal buffer holds 2, as `len(SERVER_SIGNALS)` does.
  - Nine metrics, registered one step each, so the acceptor can run between
    any two registrations.
  - Client `b` is the operator and the one client with mode WallOps, so a
    WALLOPS reaches one client and a NOTICE `*` both, and the same lines
    from `a` take the ERR_NOPRIVILEGES path (or, for NOTICE `*`, the
    ERR_NOSUCHNICK one). The operator's handler can start any number of
    broadcasts; the queues bound the state.
  - Seven lines: PRIVMSG to `a` and to `b`, NOTICE to `a` and to `*`,
    WALLOPS, REHASH and PING. A client is named by its nick, so PRIVMSG to
    a client not connected yet takes the ERR_NOSUCHNICK path.

- **Channel.**
  - Two clients and two channel names: the least that can race on a JOIN and
    leave a client in two channels for JOIN 0.
  - Sixteen lines: JOIN of `#x`, of `#x,#y` and of `b,#y` (a nick, which
    the loop skips), `JOIN 0`, PART of both names and of one, KICK of one nick
    from both channels and of two nicks pairwise, QUIT, OPER with the right
    and a wrong password, KILL of either client, `NAMES #x,b`, bare `NAMES`
    and `WHOIS b`.
  - Replies use `MAX_REPLY_LEN = 15` and a four-byte header. With two
    clients a NAMES list holds at most two names, which the loop never cuts
    (a cut needs three), so no property is stated of NAMES. A third client did not finish in ten minutes. A
    WHOIS list of three channel objects is cut at this limit, because two
    channel names already fill a line. The limit is scaled down from 510,
    like the `MultilineReply` run's.
  - Three channel objects. A JOIN starts only while enough objects are free
    for every channel that the JOINs in progress may still have to create
    (`ObjectsLeft`); an object no index entry, member or JOIN refers to is
    free again, as it would be garbage.
  - The model is safety only, so channel objects are symmetric. Clients are
    not, because the lines name them.

- **MultilineReply.**
  - Lengths are scaled down: a 20-byte `MAX_REPLY_LEN` and a 22-byte line, so
    a few names of length 1, 3 and 6 already cross the limit.
  - The constants are those of `RplNamReply`: the format `= %s :%s` with two
    verbs and a five-byte channel name.
  - All lists of up to four names are checked.
  - That every name is sent exactly once is checked through Channel's
    WHOIS (`WhoisListsChannels`), whose list of three channel objects the
    loop cuts; the line-limit run checks the lengths.
  - `MAX_REPLY_LEN` is not defined in `src/`, so it is a constant.

## Fairness

Two modules state liveness, `WhoWasLocking` and `ServerLoop`; the others
check safety only and assume no fairness.

In `WhoWasLocking`, a call in progress and an Each goroutine
are weakly fair: `WF_vars(CallerStep(c))` and `WF_vars(EachStep(c))`. The Go
scheduler runs every runnable goroutine, and a blocked one is disabled, which
is exactly the condition weak fairness asks for.

Starting an `Append` or a `Find` carries no fairness, because it is up to the
clients.

`ServerLoop` states liveness under these assumptions:
- main (during `NewServer`), Run, each writer and the operator's handler
  are weakly fair.
- Run's signal and done cases are strongly fair, because Go's `select` picks a
  ready case at random.
- Global's send and the operator's broadcast send to a channel are strongly
  fair, because a channel serves blocked senders in FIFO order.
- Signals, connections, idle timers, traffic from other handlers and the
  operator's broadcasts are the environment and carry no fairness. A peer in `StallingPeers` never reads, so
  its writer never drains.
- When Run returns, or the process dies during startup, the model stops
  there, and its cfgs set `CHECK_DEADLOCK FALSE`.

The `WhoWasLocking` runs set `CHECK_DEADLOCK FALSE`, because the program
really does stop: the hang run's counterexample ends in a state where every
goroutine is blocked, and the `whowas` run reaches such states too.
`MultilineReply` sets it because the function returns. The `Channel` runs set
it because WHOIS's panic ends the process, and nothing can step after it.

## Not modelled

What a further development would take on, in this order:

1. **The two panics.** ServerLoop reaches the acceptor's panic on the
   `server_clients` gauge (hazard at `server.go:333`), and Channel reaches
   WHOIS's index out of range (`server.go:856`). No run states that they
   never happen; each would need a violation run of its own.
2. **The rest of Channel.** TOPIC needs a topic per channel object. With
   that state and two TOPIC lines, the channel run took 4m45s even with a
   view that merges the topics of free objects, so TOPIC is left out.
   INVITE, LIST, WHO, ISON, AWAY, MOTD, VERSION, TIME and LUSERS only
   reply from state the model has; no property of spec.md is about their
   output. AWAY would also add a flag per client to `ServerLoop`. The channel modes and a NICK change with
   membership are not modelled either.
3. **WHOIS's empty names.** A PART, KICK or KILL of the target between the
   count and the Range leaves `""` slots in chstrs (hazard at
   `server.go:854`). RplWhoisChannels then sends them as empty names.
   `WhoisListsChannels` disregards them, and no run slot is free for a
   property that forbids them.
4. **NAMES with no channel in the index.** `server.go:1088` replies with every
   channel when the index is *not* empty and with nothing when it is; spec.md
   205 notes the same. The model has the code's test; no property singles it
   out.
5. **The other command parsers.** MODE's, JOIN's, PART's, KICK's, QUIT's,
   OPER's and KILL's are modelled; the rest copy arguments into fields after
   an argument count check.
6. **The index after a refused Add.** In `registration_nick_unique` the
   first client is left out of the clients index while it holds the nick.
   A later QUIT of that client removes the key by nick. Whether Remove
   checks ownership is up to `ClientLookupSet`, which is not in `src/`, so
   no property states the fallout.
7. **SASL after an abort.** `AUTHENTICATE *` keeps the session (hazard at
   `server.go:647`). The sasl run reaches it, but the only visible effect is
   which 90x reply comes next. A leftover buffer (`server.go:713`) is
   covered by the model only at the level of whole blobs, where it always
   fails to split into three tokens.
8. **Operator broadcasts to a stalled peer.** `OperCommandsComplete` is
   checked only with peers that keep reading. The operator's broadcast
   would block on a full channel just as Shutdown's Global does in
   `server_loop_stall`.

Left out for good:
- the TLS, I2P and Tor listener set-up and the HTTP metrics exporter, which are
  library I/O (a listener is created or `log.Fatal` ends the process; the
  exporter's own `log.Fatal` when its port is taken is listed as a hazard);
- config loading and the version string, which have no behaviour to check
  beyond `main`'s three exits;
- bcrypt, base64 and the byte layout of replies, which are abstracted as
  described above.
