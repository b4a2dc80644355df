# A TLA+ verification of sshconf

sshconf is a set of OpenSSH-compatible programs in Go (`ssh`, `sshd`,
`ssh-agent`, `ssh-add`, `ssh-keygen`, `ssh-keyscan`, `ssh-copy-id`) and the
packages they are built from. This directory holds a model of the parts where
goroutines, connections and failures meet, the properties that make those parts
correct, TLC runs that check them on small instances, and TLAPS proofs for every
instance.

## 1. Inventory

| Component (source) | State it keeps | Operations | Hard behaviour | What makes it correct |
|---|---|---|---|---|
| Remote forwarding in sshd (`pkg/sshserver/default_forward.go`, `ssh.go`) | `forwards`: key to listener, shared by ALL client connections; one request loop per connection; one accept loop per listener | start, cancel, accept, dispatch | bind and insert, and delete and close, are two steps with other connections in between; requests outlive the connection | no listener is lost, map entries are live, cancel frees the port, nothing accepted outlives the client |
| Sessions in sshd (`default_session.go`, `session.go`, `ssh.go`) | pty and env of a session, `sent` of the exit reporter, the process, the bounded request buffer of each channel | pty-req, env, window-change, signal, shell, exec, subsystem; exit, close | one mux goroutine for all channels; the handler stops reading requests; the process, its input and the client end in any order | one answer per request, one truthful exit message, close last; sessions end |
| Relays (`pkg/forward/forward.go`, `stdio.go`, `default_forward.go`) | two `io.Copy` goroutines and two ends | copy, half-close, close | half-close, reset, back-pressure, one direction ending first | no stream is ended early; no relay outlives its peers |
| sshd process and connections (`cmd/sshd/main.go`, `ssh.go`) | listeners, signal channel, wait group, login deadline | listen, serve, authenticate, admit, shut down | signal against accept, deadline against handshake, access check after authentication | a denied client gets no channel; shutdown closes what was opened |
| Authentication and access in sshd (`default_auth.go`, `handlers.go`) | none beyond the options | check key, check access | order of the checks | deny before allow, and no admission without both |
| sshd configuration (`resolve.go`, `apply.go`, `keyword.go`) | `Options` | one pass over the entries | entries that change what later ones do | the options are what is written, first value first |
| ssh_config files (`pkg/sshconfig`) | parser stack, visited files, current conditions | parse, Include, Match, patterns, list operators | recursion, cycles, inherited conditions | entries equal to the flat reading of the files |
| ssh configuration (`pkg/sshclient/resolve.go` and others) | `Options`, match context | three passes and a merge | the context changes while entries are applied; entries are applied again | priority order, nothing applied twice, nothing dropped |
| ssh terminal and session (`cmd/ssh/main.go`, `pkg/terminal`, `pkg/session`) | saved terminal state, escape state | raw mode, restore, escapes, signals, exit code | two entries into raw mode, several exits | the terminal is left as it was found |
| ssh forwarding set-up (`pkg/forward`, `ssh.go`) | local and remote listeners | set up, accept | partial failure | what was promised is listening |
| Host keys and user authentication (`hostkey.go`, `auth.go`) | key files, known hosts | decide, choose methods | layered policy | revoked keys never, changed keys only with "no" |
| Patterns and lists (`pkg/sshconfig/pattern.go`, `listop.go`, `pkg/session/match.go`, `crypto.go`) | none | match, `+ - ^`, intersect with what is supported | three matchers that treat runs of stars differently; order and repetition in lists | one meaning of a pattern; nothing lost, added or offered that is not supported |
| Command line of ssh (`pkg/sshclient/args.go`) | `CLIArgs` | flags, clusters, values, destination, command | a repeated flag, values in three places, directive against field | how flags are bundled makes no difference; each source keeps its priority |
| Key files (`pkg/sshkeygen`) | private and public file | generate, change passphrase, change comment | failure or death between two writes, two programs at once, a question asked long before the write | the two files are of one key |
| ssh-agent (`pkg/sshagent`) | listener, socket and directory, keyring; parent and child of a daemon | listen, announce, serve, run a command, `-k` | the parent ends before the child listens; a signal at any point; two agents on one path | an agent that was announced serves; one that ends leaves nothing behind |
| ssh-add, ssh-copy-id, the keys of ssh (`pkg/sshadd`, `pkg/sshcopyid`, `auth.go`) | keys in hand | add, delete, lock, unlock; read, install; offer | the agent ends in between; files change in between; offers run out | a key that was installed opens the server |
| ssh-keyscan, GSSAPI, prompts, dialer, logger | little or none | sequential, or independent goroutines | few | out of scope, reasons in `PROJECT.json` |

How they interact. `handleConnection` authenticates a client and then runs the
global request loop (to the forwarder) and one goroutine per channel (to the
session handler or a relay). All of them are fed by the mux of
`golang.org/x/crypto/ssh`, one goroutine per connection. The forwarder is one
object for the whole process, so connections meet in its map. On the client,
`main` resolves the configuration, connects, sets up forwardings (each accepted
connection is a relay) and then runs a stdio relay, nothing, or a session. The small
programs meet in the two files of a key, in the socket of an agent and in the
keyring behind it; nothing locks any of them.

## 2. Plan

Done, in this order:

1. `TcpForwarder` with the abstract `ForwardTable`, and its proofs;
2. `ServerSession` with the abstract `SessionProtocol`;
3. `Relay`, and its proofs;
4. `ConfigParser`, `ConfigResolve` on top of it, and their proofs;
5. `Sshd`, and its proofs;
6. `SshClient`, and its proofs;
7. `ServerConfig`, from which the options of `Sshd` are made;
8. `Tools`, `KeyFiles` and `Agent`, composed by `KeyUse` with the programs that use
   keys, and their proofs;
9. the proofs of `ServerSession`, its refinement of `SessionProtocol` included;
10. `Patterns` and `ClientArgs`, compared with `PatternReference`; the command lines
    of `MCConfig` and `MCSshClient` are parsed by `ClientArgs`.
11. the proofs of `CommandLineWins`, of `InputIsFiltered` and the types of `SshClient`;
12. `SshdAsWritten`, the entries of sshd read as a whole, and the proofs that its
    options, and what it begins for a client, are as written;
13. `FlatReading`, the entries of an ssh_config read from the outside in, and the proof
    that the parser returns them;
14. the proofs about `Patterns`, for patterns, names and lists of any length.

Left, in the order of what it would add:

15. `AuthMethods`: the order of `buildAuthMethods` against what a server offers,
    which needs the client loop of x/crypto.
16. Stream-local and tunnel channels, once `cmd/sshd` installs a handler for them.

## 3. Modules

### TcpForwarder, ForwardTable

State. `conn`, `sent`, `queue`: the client's connection and the global requests
buffered for its loop. `at`, `held`: where `handleGlobalRequests` is, and the
listener it has in its hands. `sock`, `bound`, `owner`: the kernel's sockets.
`forwards`: the map of `DefaultTcpForwarder`. `loop`: the accept loops. `raw`,
`via`: third-party connections, from the backlog to their relay.

Actions. `StartRemoteForward` is `ListenForward` (policy, `net.Listen`) and
`RegisterForward` (lock, insert, unlock, start the accept loop, reply);
`StopRemoteForward` is `DeleteForward` (lock, look up, delete) and `CloseForward`
(close after unlocking), or `RefuseCancel`. `Accept`, `AcceptFails` and
`AcceptLoopEnds` are `acceptLoop`; `ChannelOpens`, `ChannelRefused` and
`ChannelFails` are `dispatchForwarded`. Of the relay behind it, `DataComes` and
`DataTaken` say when its copier is in `raw.Write`; `PipeEnds` is a relay that ends for
any reason, at any time or never, and `PipeBreaks` the end of one whose copier waits
in the channel of a client that is gone. A copier in `raw.Write` does not see that, and
stays there for as long as the third party takes nothing. `Disconnect` closes the transport only:
nothing in the code tells the forwarder, and requests that are still buffered are
handled. Whose forward a cancel hits makes no difference, as in the code.

`ForwardTable` is what the forwarder promises: an atomic table from key to owner
in which an occupied entry is never overwritten.

### ServerSession, SessionProtocol

State. `inHand` is the packet the mux is delivering; `buffer` and `over` are a
channel's `incomingRequests`, `data` and `eof` its byte stream; `at` is where the
goroutine of `dispatchChannel` is, `setup` the pty and env `HandleSession` has
collected, `run` what it started, `owed` the requests still without a reply;
`proc` and `copy` are the process and the os/exec goroutine that feeds it;
`exits` counts the messages that `channelExitReporter` has handed to the channel, and
`report` is what the last one says. `config` is chosen at the
start among the configurations.

Actions. One per outcome of the switch in `HandleSession` (`RefuseSetup`,
`GrantPty`, `TakeEnv`, `IgnoreControl`, `RefuseOther`, `RefuseStart`,
`StartProgram`, `StartSubsystem`, `RequestsEnd`), then `Spawn`, `SpawnFails`,
`WaitReturns` (`ExecProcessLauncher.Run`), `RunFailed` (`runProcess`, which reports 1
when `Run` has returned an error, after `Run` has called the reporter itself; `Tell` is
what the reporter does with it), `InternalEnds`, `InternalFails`
(registered handlers), `NothingToRun`, and `CloseChannel` (`dispatchChannel`). The
mux actions `DeliverRequest`, `DeliverData`, `DeliverEof`, `DeliverClose` and
`MuxEnds` are external: `DeliverRequest` blocks, with everything behind it, while
the buffer is full. A process counts as alive as long as anything holds its
output, which is what `cmd.Wait` waits for. `Deaf` is a client
that has closed its channel or is gone: only then can output not be written, which
`cmd.Wait` returns as an error that is no `ExitError`, and only then can the exit
message not be sent. `Resize` and `Signal` are no-ops of
the reference launcher. Exit codes are abstracted to "its code".

`SessionProtocol` is what a client may rely on: setup, started, exited, closed,
in this order, each at most once.

### Relay

`style` chooses which loop it is; `wrote`, `read`, `written`, `got` count the
chunks of a direction from hand to hand; `copier` is the goroutine of a direction;
`end` is what the relay has done to an end. `CopyReads`, `CopyWrites` and
`CopyStops` are `io.Copy`; `HalfClose` and `BiCopyReturns` are `BiCopy` and its
callers; `CloseDst` and `CloseSrc` are `pipeClose`; `HalfClose`, `StdoutDone` and
`StdioReturns` are `RunStdioForward`. Bytes that a kernel has taken are counted as
delivered, also when the socket is closed afterwards.

### Sshd

State. `main`, `exit`, `signal`: where `run` is, the exit code, and what the signal
goroutine has received; `sock` and `serve`: the listening sockets and their `Serve`
loops. For each client, `phase` is how far its `handleConnection` is, `link` the
transport, `timer` the read deadline, `tries` and `who` what `NewServerConn` has
seen, `chans` and `reqs` the two Go channels it returns, `globals` the goroutine of
`handleGlobalRequests`, and `served` what was begun for the client. `config` is the
resolved `Options`, chosen at the start; in the run each is what `ServerConfig`
makes of a command line and a file.

Actions. `Bind`, `BindFails`, `StartServing`, `Signal`, `CloseListener`,
`ServeReturns`, `MainReturns` are `run` with `Listen` and `Serve`; `StartInetd` and
`InetdReturns` are `-i`. `Accept`, `ArmDeadline`, `LoadHostKeys` (or `NoHostKeys`),
`ClearDeadline`, `CheckAccess` and `ChannelLoopEnds` are `handleConnection` in its
order; `AuthSucceeds`, `AuthFails`, `HandshakeFails` are outcomes of
`NewServerConn`, with the callbacks of `wireAuthCallbacks`; `DispatchChannel`,
`HandleGlobal` and `GlobalLoopEnds` are the two loops. Every action of a process
that has ended is disabled, because `Terminate` closes all it had.

Abstractions. A pattern names a user or everybody; the authorized_keys files are a
function from users to keys; the key exchange is part of `phase = "auth"`. What a
session or a forward does after it is begun is in the modules above.

### ServerConfig, SshdAsWritten

No state: `CLIArgs.Parse`, `Directives` and `Lookup.Resolve` run once, in one
goroutine, before anything else. A boot is the flags typed and the entries of the
file. `CommandLine` puts the flags before all `-o`; `Resolve` folds `ApplyEntry`
over `AllEntries` (`Applied`, a function of how many entries it has taken) and fills in
`WithDefaults`; `Starts` says whether `run` gets to
`Listen` or `serveInetd`; `ServedWith` is what `Sshd` looks at in the result, with
the handlers of `cmd/sshd`. A keyword stands for the others of its class in
`directiveTable`.

Match blocks are evaluated in `BootContext`, once, before anybody has connected: a
block for a user applies to nobody unless its patterns match the empty name, or it
is negated, and then to everybody. The comment at `resolve.go:14` speaks of a
resolution per connection; there is none in this version. Two more things the
model shows that a reader may not expect: a `-p` adds to the ports of the file, and
a `LoginGraceTime` that cannot be read means no deadline, while a Boolean that
cannot be read leaves the place to the next line, or the default.

`SshdAsWritten` puts `Sshd` and `ServerConfig` together and holds the reference for
both: what a list of entries says (`Counts`, `Says`, `Setting`, `Listed`), stated of the
list as a whole, without following `Resolve` through it. `ServedAsWritten` speaks of
any boot, and `MCSshd` chooses some.

### SshClient

State. `at` is where `main` is, `exit` how the process ended, `link` the transport,
`tried`, `up`, `failed` how far `SetupForwarding` is and what came of it; `pty`,
`chan`, `report` are the session, `tty` and `saved` the terminal and the `oldState`
of `terminal.State`; `stdin`, `pos`, `atStart`, `hand`, `sent` are the copying
goroutine with the `EscapeReader` between them; `sig` is what `signal.Notify` has
set up. `config` holds the resolved options, the arguments that `main` looks at, and
the surroundings: whether stdin is a terminal, what known_hosts says of the key.

Actions. One per step of `main` that can go on or fail: `BuildConfig`, `Dial`,
`CheckHostKey`, `Authenticate`, `Forward` and `ForwardFails`, `PostConnect`,
`CommandEnds`, `NoSession`, `OpenSession`, the steps of `ConfigureSession`
(`PtyGranted`, `AgentForwarded`, `SetupTerminal`), `StartCopy`, `StartProgram`,
`Notify`, `WaitReturns`, with their failures. `ReadInput`, `ReadSecond`, `InputEnds`
are `EscapeReader.Read`; `WriteInput` and `WriteFails` are `io.Copy`. Authentication,
dialing, the server and the person are external, and so is whoever reads the output of
ssh: `stdout` is read, stuck (`StdoutSticks`), or cannot be written (`StdoutFails`),
which `Session.Wait` returns as an error if the status is 0, and `exitCode` makes 255.

Abstractions. A key is what the files say of it: listed as revoked, the same, changed,
unknown (also when `knownhosts` returns any other error). An environment variable that
is sent, and a change of the window, have no effect on the rest.

### ConfigParser, FlatReading, ConfigResolve

`ConfigParser` is `ParseFile`. The recursion of `parseFile`, `parseReader` and
`handleInclude` is `stack`, one frame per file being read, with the locals of the
two functions: line, current conditions, entries, and inside an Include line the
globs and matches that are left. `visited` is `visitedFiles`; `status` and `result`
are what the caller sees. Files are numbers, their order is the lexical one, and
a file holds lines that are already split into keyword and value. `ReadBlock`,
`ReadOption`, `ReadBad` and `ReadInclude` are the switch over a line; `NextPath`,
`SkipMatch`, `ExceedDepth`, `SkipVisited`, `OpenMatch` and `EndInclude` are
`handleInclude` with the start of `parseFile`; `EndFile` is its return, with the
deferred delete.

`FlatReading` is the reference for what the parser returns: the option at a line
stands under the last block before it in its own file (`Own`), and if there is none
under the conditions where the file is included (`InForceAt`); `OfLine`, `OfLines`,
`OfFile` put together what a line, the lines and a file say, and `Reading` says it for
each number of Includes that may still be followed. It follows no stack, no visited
files and no conditions handed up.

`ConfigResolve` is `Lookup.Resolve`. `phase` says where it is: the two files, the
three passes, the end. `entries` is `allEntries`, `context` the match context,
`opts` the result, `fresh` the options of the canonical or final pass, `outcome`
the index of the loop together with what became of each entry (history, read by
properties only). `SkipEntry`, `RejectEntry` and `ApplyEntry` are the body of the
three loops; `FirstPassEnds`, `CanonicalPassEnds` and `FinalPassEnds` what stands
between them. `Merge` is `mergeOptions`, `WithDefaults` is `applyDefaults`.

Abstractions. Keywords are told apart by how they are applied: every scalar that
nothing else in `Resolve` looks at is one of `PlainKeys`, and one list stands for
each way a list can behave. A pattern list is the set of names it matches and the
set its negations match, which `ListsAreTwoSets` of `PatternReference` justifies.
What a `Match exec` command or the name service answers is chosen anew each time.
Path and token expansion are left out; the list operators are in `Patterns`.

### Patterns, ClientArgs, PatternReference

No state: pure functions of the code, as operators. `MatchPattern` is the matcher of
`pkg/sshconfig` and, word for word the same, that of the environment names of sshd;
`MatchGlob` is the one of `pkg/session`. `MatchPatternList` is the loop over a list,
`ApplyListOp` the operators `+ - ^`, `filterSupported` and `resolveAlgorithmList`
what both programs make of a list for x/crypto. A name is a sequence of characters.
The loops are recursive functions. A matcher only ever cuts from the front, so what it
holds is the last n characters of the pattern and the last k of the name: `Fits` and
`GlobFits` say for each n which k fit. A loop over a list is a function of how many
elements are done (`Verdicts`, `Extended`, `Retained`, `Supported`). At the end of the
module stands what is meant by them: `Denotes` says that a pattern matches what can be
cut into one piece for each of its characters, `StandsAt` that a list is what stands at
some places of another one, in order. `ListsAreTwoSets` and the theorems below take the
matchers for that.

`ClientArgs` is `CLIArgs.Parse` as `cmd/ssh` calls it (`HostCommand`), a fold over the
arguments: `TakeArgument` is the body of its loop, `TakeCluster` the loop over the
letters of an argument, `TakeLetter` and `TakeValue` its two switches.
`CommandLineDirectives` is the order in which `Directives` puts the flags and the
`-o`, and `LookupUser` where the name of the user comes from. An argument is a word,
`--`, or a cluster that is already split into its letters; its whole text stays with
it, because a flag may take any argument for its value. `convertForwardSpec` takes the
parts of a specification, of which the first may be an address; bracketed addresses
are left out, and so are the other modes of `Parse`, which `cmd/ssh` does not use.

`PatternReference` holds what both are compared with, as assumptions that TLC
evaluates at the start of the runs of `MCConfig`: `MatchersAgree`, `ListsAreTwoSets`,
`OperatorsDoAsSaid`, `OnlySupported`, `BundlingIsFree`. `MCConfig` and `MCSshClient`
type command lines and give `Resolve`, and `main`, what `Parse` makes of them;
`CommandLinesAreRead` says what that is for the configurations of `MCSshClient`.

### Tools, KeyFiles, Agent, KeyUse

One user's home, with as many invocations of the small programs as there are `Procs`;
a plan says which program each is. `Tools` is what they have in common: `tool`, `at`
(the place an invocation is at) and `exit`, and two histories for the properties,
`alone` (no `ssh-keygen` that writes was at work beside it) and `spoiled` (the pair was
left half-written, or two wrote at once). An invocation begins when it likes after the one before has begun.

`KeyFiles` is `pkg/sshkeygen`. `priv` and `pub` are the files: missing, torn or whole,
with the number of the key and whether a passphrase seals it; `fresh` is the next
key, `key` and `sealed` what an invocation has in its hands. `Stat`, `Overwrite`,
`MakeKey` are `Generate`; `ReadKey`, `Unseal`, `NewPass`, `NewComment` the two changes;
`OpenPriv`, `WritePriv`, `OpenPub`, `WritePub` with `PubFails` are `os.WriteFile`, which
truncates the file first and writes it then, and `KillWriter` may come between any
two. `Reported` says whether the person is told of a failure: `ChangeComment` tells
nobody of one of the `.pub`, the others exit with 1.

`Agent` is `pkg/sshagent`. `socket` says who has bound a name, `path` and `dir` what an
agent listens at and whether it made a directory for it, `serve` how far its process
is, `signalled` whether a signal is pending, `told` whether its address was printed,
`code` the exit code of a command, `keyring`, `locked` and `conn` what clients see.
`Listen`, `CloseOwn`, `Spawn`, `TellOfChild` are `Run` and the parent of `runDaemon`;
`ChildListens`, `Announce`, `Notify` the child, which is `StartForeground`;
`RunCommand` and `CommandEnds` the child mode; `Deliver`, `CloseListener`, `CleanUp`
the end. A name in use cannot be bound, and `net.Listen` may fail for any other reason,
in the child too, which then ends with nobody to tell; a socket whose owner is gone or
has closed it cannot be dialed. `Interrupt`, `KillAgent`, `KillParent` come from outside, `Kill` is
`ssh-agent -k`.

`KeyUse` composes them with the clients: `ssh-add` (`ConnectAgent`, `ReadToAdd`, `Ask`,
`Send`, `Refused`), `ssh-copy-id` (`LoadPublicKey`, `Install`) and the public keys of ssh
(`AgentSigners`, `ReadIdentity`, `PassphraseFor`, `AddSigner`, `LogIn`). `authorized` is
the file on the server, `offers` the keys that ssh has collected, `listed` those among
them that the agent has listed. The keyring and the server are external; the server
hangs up after `MaxTries` keys it does not know. The connection to the agent stays
open, and the agent is asked for a signature only in `LogIn` (`Signs`): if a key of
its own is the first that the server knows, and it is gone, locked or without it by then,
the login fails with no look at the file's key.

Abstractions. A key is a number, a file its state, its key and its seal. The prompts
are choices. The remote command of `ssh-copy-id` adds the key once or fails.

## 4. Runs

| Run | Instance | What it shows |
|---|---|---|
| `forwarder` | 2 clients, 2 sockets, 2 contending addresses, 2 ports, 1 third party, 2 requests each, 1 buffered | the safety of the shared map (`NoListenerLost`), that it refines `ForwardTable`, and that cancels, request loops and accepted connections end (`CancelReleasesPort`, `RequestLoopsEnd`, `NoOrphanRaw`) |
| `session` | 2 channels, 2 configurations, 10 kinds of request, 3 packets, buffer of 1 | `EachAnsweredOnce`, `ExitTellsTheTruth`, refinement of `SessionProtocol`, `ReaderNeverBlocks`, `LostSessionsEnd` |
| `session_run` | 1 channel | violation: `Run` does not return when the process exits, but only when the client's input has ended too |
| `relay` | 3 styles, 2 chunks each way, window 1 | `EndsAreEarned`, `FirstStreamComplete`, `BytesArrive`, `BothEndsClose` |
| `relay_stdio` | `-W` alone | violation: the end of stdin cuts off the answer |
| `sshd` | 9 boots, of which 7 start; 25 263 boots for `Resolve` alone; one client that asks for 2 things or two clients, 2 users with keys and one without, `MaxAuthTries` 2, 1 failing Accept | `OnlyAdmitted`, `ServedOutliveGrace`, `GraceEnds`, `ShutdownEnds`, `NoClientBlocksOthers`, `ServedAsWritten` |
| `client` | 27 configurations, typed as command lines: interactive, commands, `-T -t -n -N -W`, forwardings, host keys; 4 characters typed, a window of 2 | `InputIsFiltered`, `ExitCodeIsReported`, `SessionIsEarned`, `RestoredWithoutPty`, `EndsWithSession` |
| `client_terminal` | the sessions among them, nothing typed | violation: with a pty the terminal is left raw |
| `config` | 3 files, Includes to depth 2, all user files of at most 2 (Includes) or exactly 3 lines (directives) from a pool, 2 command lines, parsed from their arguments | `EntriesAreFlatReading`, `CyclesAreHarmless`, `FirstMatchWins`, `CommandLineWins`, `HostBlocksCountWhole`, `ResolutionEnds`; the assumptions of `PatternReference` |
| `config_include` | 3 files that include each other | violation: an entry under a block of an included file does not inherit the conditions of the block that includes it |
| `config_merge` | one `LocalForward` in one file | violation: the final pass appends it a second time |
| `keys` | 33 plans of two to four invocations, two files to start from, one path for `-a`, 1 refused key | `PairIsWhole`, `AgentKeepsItsSocket`, `LoginAfterCopy`, `SocketsAreCleaned` |

Why the bounds are enough. Two clients and two sockets are what it takes for one
loop to be inside a window while the other binds, inserts or cancels the same
key; the requests cover the own forward, the other's, a key that is not there, a
port the policy refuses and port 0. In `session`, three packets on one channel
fill a buffer of one and leave the mux with a packet in its hand, the state that
takes 18 packets with the 16 of x/crypto; the second channel is the one that must
not be affected while the first still reads. In `relay`, two chunks and a window of one put a
chunk at the sender, in the copier and at the receiver at the same time. In
`sshd`, two questions are a channel and a global request sent before the access
check; two clients are one that is served while the other logs in, waits, or
stays silent; two addresses are a listener that fails and one that does not, or
one address that cannot be bound twice. `OptionsAsWritten` takes every file of at most
three entries from a pool of twenty (each class of keyword, an alias, values that
cannot be read, Match blocks that apply and that do not) under three command lines:
three entries are an IgnoreUnknown or a first value, what it affects, and one more
that must not be affected. It compares the fold with a reading of the entries as a
whole, and is an assumption that TLC evaluates at the start of the run, because it
does not depend on a state; the order of ports, lists and subsystems is part of it. `ServedAsWritten` uses
the same reading for what is begun in the end, so that it does not rest on `Resolve`,
`AccessAllowed` or `TcpForwardingAllowed`. In
`client`, four characters are a line end, an escape and a character, or two escapes
in a row, the shortest inputs on which a wrong `atStart` shows; a window of two
takes an unrecognised escape and makes the next character wait. In
`config`, three files make every cycle of length one to three, and with the depth
limit at 2 instead of 16 the deepest chain that is still legal and the first that
is not; a file that is included twice, by one glob and by two, is among them.
Three lines of a user file are a block and two directives under it, or two blocks,
which is what it takes for a directive to change the block it stands in; they meet
a system file whose blocks only apply to the canonical name. One of the command lines
repeats `-p`, names a user in the destination and with `-l`, and sets a Boolean with a
flag and with `-o`. The assumptions of `PatternReference` take all patterns and names
of at most three characters, two letters and two wildcards (two stars in a row, a star
between two letters), lists of at most three terms, and two clusters of at most two
letters, with and without a value.

In `keys`, two writers are what it takes for one to come between the two writes of
another; a third invocation is the one that meets what they left (an `ssh`, or another
`ssh-keygen`), a fourth the change between `ssh-copy-id` and `ssh`. Two agents meet at
one path, and a third invocation is a client of either, or `-k`. With `MaxTries` 1 a
single key of an agent uses up the tries; that it does so although the right key is
among the offers takes a fifth invocation, and is left to the theorem, which has any
number.

Bounds in the guards: `MaxRequests`, `QueueCap` (forwarder), `MaxPackets`,
`BufCap` (session), `Chunks`, `Window` (relay), `MaxAsked`, `MaxFaults`, `config.clients` (sshd), `MaxTyped`, `Window`
(client); `MaxDepth` (config) is the code's
own, made smaller; `Plans` and `MaxTries` (keys). `CHECK_DEADLOCK` is off because
every one of these systems may come to rest.

Each property also has a mutant, a definition marked as a slip in the module, that
breaks the code the way a plausible error would; with it TLC finds the property
violated.

## 5. Fairness

Weak fairness for goroutines only: a goroutine that can run does. Nothing is
assumed of clients, third parties, processes, registered subsystem handlers or
errors: they may stop at any point. Hence `LostSessionsEnd` excepts a program that
is still running and a mux that is stuck, and `BothEndsClose` a peer that does not
read. In the forwarder a relay need not end by itself; fair are the refusal of a
channel on a connection that is gone and the return of a copier that waits in it, and
`NoOrphanRaw` excepts a third party that from some point on never takes what it was
sent.

In `Sshd` the goroutine of each connection, the read deadline, the closes of the
signal goroutine, the return of `Serve` from a closed listener and the return of
`run` are fair; clients, signals, and Accept failing on an open listener are not.
`GraceEnds` therefore holds because of the deadline alone.

In `SshClient` only `main` is fair, and its requests to a server that is gone fail.
The server need not answer, the person need not type or answer, a local command and
whoever reads the output may hang: `EndsWithSession` names the last three.

`ResolutionEnds` has weak fairness on the whole next-state relation: `Resolve` is
one goroutine that waits for nobody (a `Match exec` command that hangs is not
modelled).

In `KeyUse` an agent goes on by itself: its child listens, announces itself, asks for
signals, closes and cleans up, and a signal that was sent arrives. People, programs
that are started, and whoever kills need not act, so an agent may serve for ever.
`SocketsAreCleaned` therefore starts where the agent was asked to end, and has asked
for its signals itself. That an agent comes to serve is not claimed: its `net.Listen`
may fail.

## 6. Proofs

`TcpForwarder_proofs`, for any sets of connections, sockets, addresses and ports.
The assumptions are that ports are positive, that contention of addresses is
reflexive and symmetric, that the nil values are distinct, and that there is some
connection and some address. `NoListenerLost` is not inductive: an insert could
overwrite a live listener unless the kernel never binds two contending addresses
(`SocketsDisjoint`), and a close could hit a listener of the map unless every held
listener is open (`HeldAreOpen`). The invariant is

    IInv == TypeOK /\ EntriesAreLive /\ NoListenerLost /\ HeldAreOpen /\ SocketsDisjoint

with one lemma per action, and from it follow `TypeCorrect`, `EntriesStayLive`,
`NoListenerIsLost` and `TableImplemented` (every step is a step of `ForwardTable`
or leaves the table unchanged).

`Relay_proofs`, for any number of chunks and any window. `EndsAreEarned` speaks of
ends; what is inductive speaks of goroutines: an end of a BiCopy is touched only
by a goroutine that is done (`EndsFollowCopiers`), and a goroutine that has left
`io.Copy` while nobody is gone has carried its whole stream (`StoppedIsComplete`,
`SomeStoppedIsComplete`). From `RelayInvariance` follow `ChunksInOrder`,
`BiCopyEndsAreEarned` and `TearDownAfterAStream`.

`Sshd_proofs`, for any clients, users, keys, options and limits. `OnlyAdmitted`
speaks of what was begun; what is inductive says for each phase of a connection
what is known of its client (`Admission`: proven from "authed" on, allowed from
"admitted" on, nothing begun before, and no goroutine for its global requests), and
that the deadline is only set during the login (`DeadlineIsForLogin`), from which
`SessionsOutliveGrace` follows. `TypeOK` is inductive only with its conjunct that
`MaxAuthTries` failures end the connection: without it one more failure would leave
the range.

The options of sshd are proved, for any boot, to be what is written. `ReadTo` says of
the options after n entries what the entries up to n say: each scalar is what its first
usable line gives, each list holds the words of all its lines, and what is ignored is
what an IgnoreUnknown line has silenced by then. `EntryFollows` carries it over one
entry, over every class of keyword, and `AllRead` over all of them, by induction on
their number. From it follows `OptionsAreAsWritten`, which speaks of settings and of the
members of lists. `ServedIsAsWritten` joins it to what is known of a client that is
served (`OnlyAdmitted`), and needs one more invariant: who has logged in has done so
with a method that was wired (`LoggedIn`).

`SshClient_proofs`, for any options, input and window. Three of its properties speak of
the end; the invariant says for each place of `main` what is true there: the host
key is accepted and the revoked keys were read (`Passed`), the forwardings that were
tried listen or `failed` is set, a channel exists only past that (`Session`), a
report only while `main` waits (`Reporting`), and without a pty what is saved is what
was found (`SavedIsFound`). Of the copying goroutine only ~. touches any of this.

`InputsAreFiltered` is about the copying goroutine. It says where the escapes begin, and
that what the server got is what was typed at exactly the other places. Where they begin
is settled by what was typed alone: an escape character at the start of a line, but the
line end that follows one is sent with it and starts no line.
The invariant has these places at every moment (`Kept`), together with what the copier
has in its hands (`Copying`) and what the reader knows (`Escaped`): it takes itself to be
at the start of a line exactly when the next character could begin an escape, and it
waits for a second character exactly when the last one did begin one. The next character
settles nothing before it but that (`NextMayBegin`, `RemovedStays`); it is either kept,
which makes what was sent longer by one (`OneMoreIsKept`), or removed. Every other action
leaves all this alone (`Aside`).

`ConfigParser_proofs`, for any finite set of files with any contents and any depth
limit. A frame can only be typed by the line it stands at, so the invariant adds
`FramesInText`: every frame stands in the text of its file. With it,
`VisitedAreBeingRead` is inductive, because a file that is opened is not yet
visited, and the one that is closed is read by no other frame. It also gives
`CyclesAreHarmless`: the frames of a stack map one to one to text files, so that
a stack deeper than the limit needs more files than the limit, cycle or not.

That the entries are the flat reading is proved there too, for any files. The parser
hands an included file no conditions and lets what comes back inherit, the reference
hands the conditions down: that it is the same (`ReadingInherits`: what a file says
under conditions is what it says under none, made to inherit) is an induction over the
number of Includes left, over the lines of a file and over the files of a glob. The
invariant `StackReads` says of every frame of the stack what its entries are: those of
the lines above, followed, if an Include is open, by something that the globs and the
matches that are left complete to what that line says (`FrameReads`), with
what the frames above will return standing for the file that is being read. One lemma
per action; `ReturnReads` is the one in which a finished file becomes a part of the
line that included it. Concatenations are taken apart by `PartByPart`, `FirstPart` and
`AllParts`, and inductions rest on the least member of a set of numbers
(`InductionUpTo`). In `ConfigResolve_proofs`, `EntriesAreAsRead` is that invariant for
the one or two files that `Resolve` reads.

The last part of it is about `Patterns`, for names over any characters and of any
length. Of a recursive function one has only its definition by CHOOSE; `Recursion`
shows by induction that a loop over m elements, whose results stay in a set, has one, and
every loop is an instance. For `PatternsDenote` the two matchers are first shown to be
one: what a star makes of a set of lengths is everything above the least of them, twice
is the same as once (`AboveTwice`), so a run of stars may be taken at once or star by
star (`RunOfStars`, `SameFits`). That one is then followed from the end of the pattern
to its front: a length fits exactly when that much of the name can be cut into pieces
for that much of the pattern (`FitsAreCuts`), and a cut that is counted from the end is
one of `Denotes` turned round (`CutsTurned`). `ListsAreSets` has by induction what each
`Verdicts` knows of the terms before it (`VerdictsAre`). `OperatorsKeepOrder` rests on
`OnlyIs` and `WithNewIs`: after i elements the result stands at those places up to i
that are kept, or that are first, and the next element adds its place or none
(`OneMorePlace`). `SupportedAreOffered` collects, element by element, what each word
brings (`OfferedWords`); it assumes that no name that x/crypto supports looks like a
pattern, which is true of all of them.

`ConfigResolve_proofs`, for any configuration and command line; assumed are the
types of the inputs, and that no keyword belongs to two classes. The properties
speak of the history, the code keeps options, and `ValuesFollowHistory` relates the
two pass by pass: `opts` is what the first pass has set so far, then `fresh` what
the current one has, and the merge makes `opts` the first of all. `RecordValue`
(what one more entry does to the history) and `ApplyShape` (what it does to the
options) say the same of both sides. From it follow `FirstMatchDecides` and, with
the same shape lemmas, `ScalarsAreFinal`. `HostBlocksAreWhole` compares two
entries of a pass; what is inductive compares each with the name that is matched
(`HostVerdicts`), which no step changes during a pass. `CommandLineIsFirst` has an
invariant of its own: the entries of the command line stand first and have no
conditions, so that each one that was reached was applied, or had one before it with
the same keyword or that made it ignored, which no later entry changes.

`ServerSession_proofs`, for any channels, requests, buffer and configuration. Each
of the three properties needs more than it says. `EachAnsweredOnce` equates what the
client is owed with what lies between it and the handler, so the mux and the handler
each disturb one side only: the lemmas that count the requests of a buffer and of the
packet in hand show that what leaves one place arrives in the next. `ExitTellsTheTruth` speaks
of a channel that is closed; the invariant says for each place of the handler what
process there is and what has been reported (`Life`), and of what the client was told
(`Truth`). The reporter may be called twice; that the second call says nothing is part of
`Life`, which has one message where the handler is past the first, and in the abstract
specification `exits` never passes 1. The same invariant gives `ProtocolImplemented`: each action that a client
can see is one of `SessionProtocol`, because `Life` says that it is its turn, and every
other leaves the mapped state alone.

`KeyUse_proofs`, for any number of invocations, any plans and any tries. `PairIsWhole`
speaks of a moment when no `ssh-keygen` is at work, so the invariant follows each one
through its writes: what lies in the files when it is at a step and was alone so far
(`InPlace`, `OwnIsWritten`), that two that are at work both know it
(`AloneMeansAlone`), and that whoever was not alone has left a mark (`TwoAreSpoiled`).
`LoginAfterCopy` needs that ssh has in its hands what is in the files, or the files
have changed (`SshHolds`). `AgentKeepsItsSocket` needs that a name is only ever taken away by
who has it or by an agent that ends: a parent of a daemon that closes the listener still
has the name (`SocketInv`), and every other action leaves the names alone
(`OthersAtSockets`).

Only model-checked: all liveness (fairness and ENABLED are outside the prover's
reach); the order of ports, lists and subsystems in `OptionsAsWritten`, of
which the theorem has the settings and the members; `ClientArgs` against
`PatternReference` over small inputs, and what `MCSshClient` says of its command lines;
and that nothing is offered twice (`OnlySupported`). The other assumptions of
`PatternReference` are, over small inputs, what the theorems say of `Patterns`, in part
in other words (`IsOnce`). Every invariant, every action property and
every refinement that a run checks is a theorem. The other way round, type correctness
of `ConfigResolve` and `KeyUse`, `EntriesAreLive`, `VisitedAreBeingRead` and
`ScalarsStay` are proved for every instance and checked by no run.

## 7. What the code does that its documents do not say

Five disagreements are runs (`findings` in `PROJECT.json`): `Run` does not return when
the process exits, `-W` loses the answer, entries of an included file do not inherit
conditions if they have some of their own, the merge of a pass appends lists a second
time, and with a pty ssh leaves the terminal raw. Seen on the way, and visible in the
reachable states, but contradicted by no document or not by a checked property: control
requests (`window-change`, `signal`) reach nobody once the program runs, because
`HandleSession` has left its request loop, although `default_session.go:25-26` says that
they are forwarded; a program that succeeded, but whose output could not be written, is
reported with 1; the listeners of a client that is gone stay open, and so does a
relayed connection whose third party does not read; `acceptLoop` ends on any error of Accept although
its comment says it runs until the listener is closed; a session channel with a
full request buffer holds up its whole connection for good, and the goroutines
of a connection that is lost in that state never end. `AccessController` is said to
be asked "before authentication succeeds" (`handlers.go`), but the client has been
told of its success by then, and sees the connection close. With `-i` the read
deadline has no effect, so `LoginGraceTime` drops nobody. `Serve` returns on any
error of Accept and leaves its listener open; if every listener fails that way the
process exits with 0. On a signal, `run` waits for the `Serve` loops, not for the
connections, which end with the process. ssh without a terminal on
stdin fails before it starts anything, with 255, because `SetupTerminal` wants raw mode
whether there is a pty or not. After `~` and a line end the escape reader does not
know that it is at the start of a line, so the next `~.` is sent. Against a server that hangs `~.` does not
end ssh. A key that known_hosts marks as revoked, or that is looked up under a
`HostKeyAlias`, gets an error that is no `KeyError`, and counts as unknown. A `User` or `HostName` under
`Match final` or `Match canonical` comes too late, because both are filled in
after the first pass; `Match user` sees no user at all when neither the command
line nor the configuration names one; the canonical flag stays on in the final
pass; `IdentityFile none` empties the list, and then the default identities are
put in.

Of the command line: a repeated `-p` is a directive each time, of which the first
wins, and one field, of which the last stays; nothing after the destination is read
for flags, unlike OpenSSH. Of the lists: `listop.go:13` promises a
result without duplicates, which a value without an operator is not; and a list of
which nothing is left, such as `Ciphers -*`, resolves to nil, with which x/crypto uses
its own defaults.

Of the keys: `ChangeComment` writes the key back without a passphrase, whatever it had,
and ignores an error of the write of the `.pub` file. The parent of a daemon prints the
environment and returns 0 before the child listens; with `-a` somebody else may have
bound the path by then. A signal that comes before `signal.Notify` ends an agent with
its socket left behind. `cleanupSocket` removes by name, also the socket of another
agent that has bound the path since. A key that ssh reads after an agent has offered
`MaxAuthTries` others is never tried, and neither is one behind a key of an agent that
the server knows and the agent no longer signs with.

## 8. Not modelled

See `components` in `PROJECT.json` for every part and its reason: parts of the
plan that are still to come; wording, prompts, encodings and cryptography, which
no property is about; external libraries (x/crypto, SOCKS, Kerberos), of which
only what the code relies on is modelled and marked external.
