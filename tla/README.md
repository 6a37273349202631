# orange-ftpd in TLA+

A verification project for the FTP server in `src/`: TLA+ modules translated from
its source, TLC runs over small instances, and theorems checked by TLAPS.

## 1. The system

`ftpd` is an asynchronous FTP server built on asio. `main.cc` registers the commands,
reads the configuration and starts a `Server`. The server accepts control connections
on its own thread and gives each to one of N worker threads, each running one
`io_context`. Everything that happens to a session afterwards is a completion handler
of that `io_context`, so the handlers of a session never run at the same time; what is
hard is their order, and what each finds when it finally runs.

| component | state | operations | interacts with | what makes it correct |
|---|---|---|---|---|
| `Server` (`server.cc`, `main.cc`) | acceptor, workers, `work_index_` | accept, hand out | creates `Session`s, counts clients in `Config` | every worker gets its share; the client count is the number of sessions |
| `Config` (`config/`) | settings, atomic `client_num_` | init, count | read by all | what a thread has read stays true; the count never drifts |
| `Session` (`session/session.*`) | `stoped_`, read buffer, `check_idle_timer_` | start, read and dispatch a command, idle timer, close | owns `SessionContext`; kept alive by the handler of its read, or, after an end of file during a transfer, by one more wait on its timer | closes when idle and only then; is destroyed in the end; nothing runs after that |
| `SessionContext` (`session/context.*`) | login, working directory, `message_queue_`, `active_op_num_`, acceptor, control and data socket | write a message, write loop | used by every operation through a raw pointer | replies in order, one write at a time; the counter is right |
| `BasicOp` (`op/basic_op.*`) | completion token | count up/down and restart of the timer, accept of the data connection | `shared_ptr` held by whatever it waits for | each live operation is held by exactly one thing still to come |
| `ListOp`, `SendFileOp`, `RecvFileOp` | file, pipe, offset, limiter timer, the text of a listing | 150, transfer, 226 | share the context's one data socket | the data socket is theirs while they transfer; 226 means complete |
| `AuthOp` | (context) | USER, PASS, refusal before login | dispatch | the login is what the lines said, and no other command comes before it |
| `PassiveModeOp` | (context's acceptor) | close and reopen the data port | aborts outstanding accepts | the port announced is the one that listens |
| `ChangeWorkingDirOp`, `CdToParentOp`, `PrintWorkingDirOp`, `CreateDirOp`, `SizeOp` | working directory, file system | answer | file system shared with other sessions | one reply, no exception |
| `AckOp`, `SystOp`, `StatOp`, `PropertyOp` | transfer type | answer | — | one reply; the type is the one asked for last |
| `PluginRegistry`, `regist_all_operation` | map from command to factory | create | `Session::dispatch_task` | every command finds its operation |
| `Response`, `SharedConstBuffer`, `FtpRequest` | — | format | all | the 227 encoding is decoded to the same address |
| benchmark client (`client/benchmark.cc`) | sockets, timer, offset | USER … RETR script with read timeouts | talks to the server | ends with a verdict; success only after all that was not lost |

What is hard, in the code's own places: handlers that capture a raw `this`
(`session.cc:88`, `context.cc:55`); a timer restarted from two places on the
evidence of a counter and a queue; one data socket and one acceptor shared by
whatever operations are alive; replies with completion tokens that start a transfer
later; a session kept alive by a timer somebody else has to cancel; exceptions that
nothing catches. `PROJECT.json` lists each hazard at its line with the properties
aimed at it.

## 2. The modules

| module | what it models |
|---|---|
| `SessionContext` | the variables of one session, the type invariant, and what `SessionContext`, `BasicOp`'s constructor and destructor, the idle timer and asio do to them, as operators |
| `ControlConnection` | welcome, read loop and dispatch, login, PASV, commands that answer at once, refusal and start of transfers, end of the read loop, idle timer, write loop |
| `Transfers` | the accept of the data connection and the handlers of `ListOp`, `SendFileOp` and `RecvFileOp` |
| `Session` | the composition of the three with the client; fairness; the properties |
| `ReplyChannel` | abstract: what a session promises a client that waits for its replies |
| `Requests` | below `ControlConnection`: from the bytes of the control connection to lines, words and requests, and what they do to login and transfer type |
| `SendFile`, `RecvFile` | below `Transfers`: one RETR and one STOR byte by byte, from the 150 to the 226 |
| `DataTransfer` | abstract: what the transfer of a file promises |
| `SharedFile` | the composition of `SendFile` and `RecvFile` on one file, on one worker or two |
| `FileCommands` | several sessions over one file system: MKD, CWD, CDUP, SIZE and the constructors of RETR and STOR, one step per call of the file system |
| `Listing` | the text of LIST, call by call, written by two workers that share the object `localtime` returns |
| `PassivePort` | the data port from the acceptor through the text of reply 227 to the benchmark client |
| `Server` | the accept loop, the round robin over the workers, and the count of clients, with sessions that begin and end |
| `Startup` | `main`, the settings one by one, and the threads that read them |
| `Benchmark` | the clients of `client/benchmark.cc`: their chain of operations, the reads with their timers, and the receive loop, against any server |
| `MCSession`, `MCFileCommands`, `MCParts` | the values TLC gives to the constants; `MCParts` also puts the four smaller parts side by side |
| `SessionProofs`, `TeardownProofs`, `SerialProofs` | the theorems about `Session` |
| `TransferProofs` | those about `SendFile`, `RecvFile` and `SharedFile` |
| `FileProofs`, `ServerProofs`, `BenchmarkProofs` | those about `FileCommands`, `Server` and `Benchmark` |
| `PartsProofs` | those about `Listing`, `Startup`, `PassivePort` and `Requests` |

**How state corresponds.** A variable is a field or an asynchronous operation asio has
started. `queue` is `message_queue_` with the operation its completion token captures;
`opNum` is `active_op_num_`; `stoped` is `stoped_` and at the same time "the control
socket is closed", which the code always sets together; `data` is `data_socket_`.
`read`, `writes`, `idleWait`, `keepWait`, `accepts` and `phase[o]` are outstanding
`async_` calls, each with what it completed with once it has: between the completion and
the handler other handlers may run, which is where the races of a single-threaded
program live. `expiry` is the timer's expiry relative to the clock: ahead (`armed`),
`passed`, or the `time_point::max()` the code uses for "held". `orphans` are handlers
left behind by a destroyed session; `fate` says what ended the process, if anything, and the
members of `Fate` name the ways: an exception no handler catches (of `std::filesystem`, of a control
socket asked for its address or, by the log, for its peer, of `listen` or `set_option`, of a closed
acceptor asked for its port, of a closed data socket made non-blocking), a null `data_socket_` that is
followed, SIGPIPE, a loop that never ends, or freed memory that was read. `owner` and `writeFailed` are
history variables, read by properties only.

**How actions correspond.** In the modules of a session one action is one handler, everything it calls included:
`MessageWritten` runs the token, pops, and writes the next message or restarts the
timer; `DataConnectionAccepted` closes the acceptor, replaces the data socket and queues
the 150. The destructor of an operation runs where its last `shared_ptr` goes, so the
counter and the timer are part of the handler that lets go (`DestroyOps`,
`CompleteTransfer`, `RestartIdleTimer`). Actions named `...Ready` are asio and the
kernel, `Client...`, `Reader...` and `Sender...` the peer. Definitions introduced as "faulty" in their comments are
plausible mistakes used to show that a property can fail; no action uses them.

**Below the handler.** Some things happen inside one handler of `Session` or between
handlers of different threads, and have modules of their own with finer steps.

- `SendFile` and `RecvFile` take a transfer up where `Transfers` leaves it at "ready": one
  action is one call of `sendfile` or `splice` with what `deal_event` does about its result. In
  `SendFile` an event sends a slice, as much as the connection takes; `burst` counts the
  bytes since the limiter's last wait (history); a connection that was reset makes the call fail or, by SIGPIPE, ends the
  process (`killed`). In `RecvFile` `pipe` is what the pipe holds and
  `bytes_in_pipe` the code's own count of it, which a failed `splice` (-1) makes too large
  for good. In `SharedFile` the bytes the upload writes are the length the download finds, and
  on one worker no handler of the download runs while the upload's loop does.
- `FileCommands` has one step per call of the file system, because the
  file system is what sessions of different workers share. `step[s]` is the call session `s` comes to next and `target[s]` its path;
  `Begin` takes a command up only when the worker has no handler under way. `tree` maps
  each path to `none`, `dir` or `file`; `author`, `made` and `met` are history:
  who stored a file, who was told it made a directory, and, for a command that has looked at a path, who has made, stored or
  removed something there since. Another process may remove one entry (`Remove`). MKD looks at the setting `write_enable`; STOR does not, in
  the code as in the model.
- `Listing` does the same for `list_file`, with `tm` for the one object that `localtime` and
  `gmtime` fill, field by field and under a lock that the reader does not hold.
- `Requests` has the stream of symbols that `async_read_until` cuts at any place; a
  word, a blank and each half of the delimiter is a symbol. `Words` is `is >> line` on what `async_read_until` has
  delimited, as a function over the symbols. `lines` and `handled` are history.
- `PassivePort` writes and parses the text in the brackets of 227 digit by digit, since the
  property is about that conversion; `to_string` has a case for one, two and three digits, as what it is given is a byte.
- In `Server` the accept thread goes through the accept handler in
  the steps where a worker can come between: count, construct, start. A worker's side is
  only the end of its sessions, `EndSession`.
- `Startup` sets one setting per step, in the order `Config::init` does; a value is what it says of its origin
  (`zero`, `given`, `cut` to 16 bits).
- `Benchmark` has one action for each stage of `async_session`. A stage that
  fails lets the rest of the chain run through, which is `Fail`: `do_recv_op` is an
  argument of `then()`, hence called even so. The read that races its timer is `race`,
  with whichever completed first. A reply whose code, size or
  address cannot be converted throws (`ReplyThrows`). A reset of the data connection may lose what is on it
  (`ResetData`; `lost` counts it, history), and the client, as in the code, takes a connection with nothing to
  read for one that ended (`RemoteClosed`).

Only `SharedFile` and `Session` compose modules that share state. The others have no variable
in common with `Session`: what joins them in the program is one call or one message,
named in the map.

**The abstract specifications.** `ReplyChannel` has a turn (idle, asked, started) and the
replies on their way. `Session` implements it under the mapping `turn <- Turn` (a
transfer that waits, sends or receives has started; a command read or underway is asked) and the queue's
codes as preliminary or final replies. `DataTransfer` has a number of bytes to give and a
number moved; it may be complete only when they are equal or the source was cut off.
`SendFile` implements it with `moved` the bytes sent, never cut; `RecvFile` with the bytes written, and
cut when its connection was reset: a reset in the middle of an upload is one of the findings.

**Abstractions.** Replies are their codes; the texts are left out, but for 227. In `Session` the commands that
answer from `do_operation` are one command, `SIMPLE`, with reply 200 for whatever they
say; a file is present or not by choice; how many bytes a transfer has left is a choice
at each event. Time is whether the expiry has passed. Which fault can happen is the
constant `Faults`: `reset` (the peer resets the control connection), `data` (a data
connection breaks, and a RETR that goes on sending may get SIGPIPE), `accept`, `bind` (opening or binding the
data port fails, or `set_option` or `listen` throws), `pipe`, `filesystem`
(`std::filesystem` throws), `disk` (writing the file fails). In `SendFile` and `RecvFile`
`reset` is a reset of the data connection.

## 3. The runs

Constants of the session's runs: `OpIds`, the identities of transfer operations alive at a
time; `MaxCommands`, how many commands the client sends; `MaxConnections`, how many data
connections may wait in the backlog; `OpNumModulus`, the width of the unsigned counter
(8 for 2^32: more than the operations there are); `StartOpNums`, what the counter starts
with. `TransfersSent` in `Session` keeps the transfers sent and not finished within `OpIds`.

| run | instance | shows |
|---|---|---|
| `session_pipelined` | 2 operations, 5 commands sent without waiting, 1 connection, all faults | `WriteDiscipline`, `OperationsHeld`, `IdleTimerHeld`, `IdleTimerRestarted`, `KeepaliveHasReason`, `IdleCloseOnlyWhenQuiet`, `CleanTeardown`, `KeptForTransfers` |
| `session_sequential` | 2 operations, 8 commands, 2 connections, all commands, all faults but `pipe`, a client that waits for its replies | `ExclusiveDataSocket`, `NoProcessEnd`, `ImplementsReplyChannel` |
| `session_live` | 1 operation, 4 commands, pipelined, all faults, fair | `IdleSessionCloses`, `RepliesDrain`, `StoppedSessionEnds` |
| `finished_session` | 1 operation, 4 commands, no fault, fair | violation of `FinishedSessionDestroyed` |
| `uninitialised_counter` | the same, counter starting at 0 or 1 | violation of `IdleTimerRestarted` |
| `files_shared` | 2 sessions, 2 workers, 2 names, 4 commands, 1 removal | `CwdIsDirectory`, `MadeOnce`, `ThrowHasCause`, `OverwritesOnlyByRace` |
| `files_anonymous` | the same | violation of `AnonymousNeverOverwrites` |
| `transfers` | a download of up to 3 bytes and an upload of up to 4, limits 0 and 1, send buffer 2, receive buffer 3, pipe 2, faults `reset` and `disk` | `RateLimited`, `CompleteIsDelivered`, `NothingLeftBehind`, `DownloadEnds`, `StorEnds`, `FailureIsFinal`, `RetrIsTransfer`, `StorIsTransfer` |
| `transfer_complete` | an upload alone, of up to 3 bytes, fault `reset` | violation of `TransferCompleteIsTrue` |
| `server` | 3 clients, 3 workers, 2 sockets, index modulo 8 | `ClientNumIsSessions`, `Balanced`, `ConnectedIsServed` |
| `benchmark` | 1 client, a file of 0 to 3 pieces that may grow | `SuccessIsComplete`, `CrashHasCause`, `ReplyAnswersRequest`, `AnswerOrTimeout` |
| `parts` | 4 lines of 10 kinds; 13 ports, 2 addresses, 3 PASV; 2 workers, 2 entries, 2 listings, 1 removal; files with at most 1 odd setting | `LoginIsWhatLinesSay`, `TypeIsWhatLinesSay`, `EveryLineAnswered`, `TargetListens`, `TimeIsOwn`, `ReadIsFinal` |

`MCParts` checks four small modules in one run: its variable `part` chooses which of them a behaviour
is of, and the variables of the others stay as they were. Nothing is said of the four together.

*Bounds.* A transfer needs four commands (USER, PASS, PASV and the transfer itself); five let
a second transfer or a second PASV overlap the first in every order, and two live
operations are what sharing the acceptor and the data socket takes. The sequential
client needs PASV and a transfer twice, eight commands with a refusal in between, to meet
what the first transfer left. Two identical operations are interchangeable (symmetry); the
liveness runs use one operation and no symmetry. In `FileCommands` `MaxDepth` 2 is the least
with a directory below a directory, whose parent can go; `MaxCommands` 4 lets each session
make an entry and use it, and the workers may be one or two, since `worker` is any function. In `transfers`
the upload is longer than the pipe and than the receive buffer, and the file longer than the send buffer, so that
every write may be short; the upload may end up shorter than, as long as, or longer than the file
it replaces; with `Kilobyte` 2 for 1024 and `time_splice` 2 for 10 a limit of 1 is a slice of one byte, and 0 none.
`MaxSpins` bounds how often the endless loop counts up. In `Server`
`IndexModulus` stands for 2^32 and is not a multiple of the 3 workers, as 2^32 is not of a
number that is no power of 2, so a wrap costs its pick; `MaxSockets` 2 of 3 clients makes accepts
fail, and `MaxPicks` bounds how often worker 0 is picked, which gives two wraps. In
`Benchmark` `MaxFile` 3 is a file that is empty or not and may grow while part of it is on its way; `--dummy` is chosen in the
initial state. What clients share is the threads and the end of the process, so one client is enough for what is said of each: a
thread lost to another client's endless loop is what `AnswerOrTimeout` excepts, and the theorems hold for any number. In `parts` four lines are USER, PASS and two commands after the login;
`MaxPending` 2 lets a line arrive while the end of the last one is being read, so that reads hold parts of two;
the ports are those around the boundaries of a byte and of one to three digits. Deadlock is not checked: a session that
ended, or whose client is silent for ever, does stop.

*What holds only under a condition.* `IdleTimerRestarted`, `KeepaliveHasReason`,
`IdleSessionCloses` and `StoppedSessionEnds` except a session with a reply that could
not be written (`writeFailed`): the code does not look after the timer there, and
`finished_session` is what comes of it. `KeptForTransfers` is about the end of file; another read error does
destroy a session with operations alive. `CleanTeardown` is about a session that was closed before it is destroyed, by the
timer or by an end of file. It has one exception, which it bounds: a command that had been read when the timer closed the socket
is handled all the same (`session.cc:131-136`), and if it starts a transfer, the next read fails (`badfd`) and destroys the session
under that operation; no other handler is left behind even then. `ExclusiveDataSocket`, `NoProcessEnd` and
`ImplementsReplyChannel` are about a client that waits for its replies; with one that pipelines, two transfers do share the data
socket and a PASV during an accept does end the process, as the code has it. The run leaves out only `pipe`, with which STOR replies twice.
`NoProcessEnd` denies the ends of the process that one handler prepares for another: no null or closed data socket is used,
no closed acceptor is asked for its port, and a closed control socket is asked for its address only by a command that was read as
the idle timer closed it, never after an end of file. It does not deny the ends a handler meets by itself: `std::filesystem`,
`set_option` or `listen` throwing, SIGPIPE, the loop after a failed write to the file, the log line that asks a control socket the
client has reset for its peer (`LogThrows`), and what an orphaned handler may do.
`MadeOnce`, `ThrowHasCause` and `OverwritesOnlyByRace` allow what a command meets between two of its own calls, and only that: a
session of another worker that made or stored something at the very path since (`RacedBy`), or another process that removed it.
`SuccessIsComplete` counts what a reset lost apart: of that the client takes no notice. `CrashHasCause` names the three
exceptions that end the client. `StorEnds` also excepts a process that SIGPIPE ended in a download. `DownloadEnds` excepts a connection that the client reset, a file that stays
shorter than it was measured (the code asks `sendfile` for the rest for ever), and a thread lost to the endless loop
of `FailureIsFinal`; `StorEnds` excepts that loop itself.

*Fairness.* `FairSpec` of `Session` has weak fairness for every handler, because `io_context::run`
invokes each ready handler and a session's handlers are few and end; for the clock; and
for completions of reads, accepts and writes. The one for writes and for `DataReady`
assumes a peer that goes on reading and a data connection on which something happens:
the code has no timeout for either. Nothing is assumed of the client's commands. `RepliesDrain`
is about a client that stops sending, which the bound on commands makes it do. `SharedFile` has weak fairness for the
upload's handler and for clients that go on reading and sending, and strong fairness for the download's handlers: on one
worker the upload's loop takes the thread again and again, but `io_context` keeps the order of what is ready, so a handler that
is ready when the thread comes free runs. `Server` has weak fairness for the accept thread and
nothing for the sessions, which may keep their sockets for ever; `Benchmark` for the timers and
the handlers of the clients, and nothing for the server. `AnswerOrTimeout` ends where a client waits
for data: that wait has no timer. `MCParts` has weak fairness for the reads and the handler of `Requests`: what was
sent arrives.

*Findings.* (1) `finished_session`: a session whose client closes the control connection during a transfer
is never destroyed: `session.cc:112` keeps it until the timer is cancelled, the 226
cannot be written, and the error branch of the write loop (`context.cc:56-60`) cancels
nothing. (2) `uninitialised_counter`: `active_op_num_` is not initialised (`context.cc:11`):
unless the memory happens to hold 0 an idle session never times out again. (3) `files_anonymous`: STOR of an
anonymous user may empty a file (`recv_file_op.cc:29-36`), though only one that a session of another worker
stored since the STOR looked (`OverwritesOnlyByRace`). (4) `transfer_complete`: an upload whose data connection was
reset when nothing was left to read is answered with "226 Transfer complete." (`recv_file_op.cc:97`), and the file holds a part.

*Disagreements that no run shows.* They came up while modelling, and are visible in one line of the code, so none
has a run of its own. `data_connection_timeout` is declared
(`config.h:31`) and set in `ftpd.json`, but read nowhere: an accept never times out (`basic_op.h:31`). A listing whose data connection broke
ends with 226 (`list_op.cc:96` does not look at the error). When `pipe()` fails, STOR answers 553 and,
because `fd_` is open, goes on to its own reply (`recv_file_op.cc:44`, `65`): with that fault the session does not implement
`ReplyChannel`. Nothing ignores SIGPIPE: asio writes with `MSG_NOSIGNAL`, but `sendfile` (`send_file_op.cc:99`) on a data connection
the client closed and then reset ends the process. PASV handles the errors of `open` and `bind`, but calls the overloads of `set_option` and
`listen` that throw (`passive_mode_op.cc:32`, `39`). The benchmark client, like STOR, takes a data connection with nothing to read
or an error for one that has ended (`benchmark.cc:181`), and never compares what it received with the size it asked for: when the
server has given everything to its kernel, a reset loses a part, and the session is reported as finished. The macros of `config.h:9-15` drop the default value they are given: a setting that the file lacks is 0
(`Startup` starts from there).

## 4. The proofs

`SessionProofs` proves, for every number of operations, commands and connections, with and
without pipelining and under any set of faults:

| theorem | statement |
|---|---|
| `TypeCorrect`, `WriteDisciplineCorrect` | `Spec => []TypeOK`, `Spec => []WriteDiscipline` |
| `HeldCorrect` | `Spec => [](TokensHold /\ AcceptsHold)` |
| `OperationsHeldCorrect` | `Spec => []OperationsHeld` |
| `IdleTimerHeldCorrect` | `Spec => []IdleTimerHeld` |
| `IdleCloseOnlyWhenQuietCorrect` | `Spec => IdleCloseOnlyWhenQuiet` |

They assume `ConstantsAssumption` (in `SessionContext`): finitely many operations, fewer
than the counter can count, and nothing of the rest but its type. The last three also
assume `StartOpNums = {0}`, that is, that the counter starts at 0: without it they are
false, which is finding (2).

The argument goes up a ladder. `TypeOK` is not inductive alone: the write loop takes the
head of `queue` when a write completes, which is a message only because a write is
outstanding exactly when messages are queued; so `TypeOK` and `WriteDiscipline` are proved together
(`Base`). On top of `Base`, `Held` says that operations in phase `replying` are those the
tokens of queued messages name, once each, and those in phase `accepting` those with an
outstanding accept: without it the destruction of "the operations in the dropped queue"
could destroy one twice or one that is not alive, and the counter would be wrong. With
`Held`, each step changes `LiveOps` by exactly what it adds to `opNum`, by the
cardinality lemmas of the library (`OpNumCounts`). With that,
`exists_pending_operator` says whether anything is under way (`PendingIsBusy`), and each
restart of the timer is shown to arm it only then (`IdleTimerHeld`). A close by the
timer needs an expiry that passed, which is not the maximum, so it finds the session quiet.

`TeardownProofs` goes on from there, under the same assumptions, to `KeepaliveHasReasonCorrect`,
`IdleTimerRestartedCorrect`, `CleanTeardownCorrect` and `KeptForTransfersCorrect`. Its invariant `Ends` adds where the
timer's waits are: a kept session has stopped and has no read and no idle wait that is running (`KeptAfterEof`), a closed session
whose read is still to be handled has no wait left and is quiet, unless the timer closed it over a command that was read
(`ClosedByTimer`), no wait begins before the greeting (`GreetingWaits`), and a session that runs always has its idle wait
(`TimerWaits`). A step that leaves nothing to do is one that restarts the timer: by
`PendingIsBusy` the restart then arms it, or cancels the wait that keeps the session.

`SerialProofs` is about a client that waits for its replies, and any value of the counter at the start.
`ExclusiveDataSocketCorrect` (`Spec => []ExclusiveDataSocket`) needs the invariant `Alone`: at most one operation is alive,
none while a command is on its way, and no accept was aborted. So the destructor that closes the data socket
is always that of its owner. `NoProcessEndCorrect`, under every set of faults, takes each handler that can end the process (`Fatal`) and shows
that the ends it denies need a second operation or an aborted accept, or, for the closed control socket, a read that goes on after
an end of file: `ReadLoopOver` says that a session that is kept alive reads no more.

`ImplementsReplyChannelCorrect` is the refinement: `Spec => ImplementsReplyChannel` if `~ Pipelining` and `"pipe"` is not in
`Faults`, the one fault with which STOR answers twice. Each handler is shown to be a step of `ReplyChannel` under the
mapping or to leave `turn` and replies as they are (`RepliesStep`). With `Alone`, what `Turn` reads off the phases is decided
by the one operation alive; `RepliesOf` of the queue gains one reply, loses its head, or loses all, and that is what
`OneReply` and `TailReplies` say of the sequences. The destruction of a session in any state is the channel that gives up.

`TransferProofs` proves, for every size of files, buffers, pipe and pieces and every limit:
`SendTypeCorrect`, `RateLimitedCorrect`, `SendImplementsTransfer`; `RecvTypeCorrect`, `PipeDrainedCorrect`, `NothingLeftBehindCorrect`,
`FailureIsFinalCorrect`, `RecvImplementsTransfer`, from `SendAssumption` and `RecvAssumption`. The limiter's invariant relates `burst` to what `deal_event` waits for: a burst
begins only after a wait. `NothingLeftBehind` rests on `PipeDrained`: the connection is looked at only with an empty
pipe, so a 226 leaves nothing in it. A step of `SendFile` or `RecvFile` that moves bytes is a `Move` of
`DataTransfer`; the 226 is its `Complete`, which for a RETR needs `file_offset = file_size` and for a STOR what
`NothingLeftBehind` says. Its last part shows that the composition is, seen from either side,
a behaviour of that side alone (`SharedIsUpload`, `SharedIsDownload`): the upload is, to the download, a change of the file at most. So
the safety theorems of both hold of `SharedFile`.

`FileProofs` proves, for every number of sessions, workers, names and commands and every depth:

| theorem | statement |
|---|---|
| `FileTypeCorrect`, `CwdIsDirectoryCorrect` | `Spec => []TypeOK`, `Spec => []CwdIsDirectory` |
| `OverwritesOnlyByRaceCorrect` | `Spec => OverwritesOnlyByRace` |
| `MadeOnceCorrect`, `ThrowHasCauseCorrect` | `Spec => MadeOnce`, `Spec => []ThrowHasCause` |

They assume `FilesAssumption` (`NoSession` is no session, there is a worker, and the bounds are natural numbers). What a
command found with one call must be carried to its next: `DirectoryFound` says that
between the two calls of CWD or CDUP their directory stays one, because no command removes or
replaces it; `NothingFound` says that a file at the path where an anonymous STOR or a MKD found
nothing was stored since, by a session of another worker, as a worker is in one
handler at a time (`OnePerWorker`); this is what `met` remembers (`RacedBy`). `TypeOK` includes that every entry has a directory
above it, which a removal keeps by taking only what has nothing below it. `History` is the invariant of the last two:
what a step of a command found at its path is still so unless another process removed it since
(`WhatWasFound`), two sessions that make the same directory, or one that makes it and one that has made it, have raced (`MakersMeet`, `MadeByOthers`),
and a path with nothing at it has no maker (`NothingMade`).

`ServerProofs` proves `ClientNumCorrect`, `Spec => []ClientNumIsSessions`, from
`ServerAssumption` (finitely many clients). The invariant it adds is `WaitsOnce`: a client
that waits is once in the backlog or in the accept thread's hands, and has no session, so the
constructor adds a session that was not there, and a session that ends is not the one
under construction. `BalancedCorrect`, `Spec => []Balanced`, needs where the index stands: within one wrap the workers before
`work_index % Workers` are one pick ahead (`RoundRobin`), and a wrap
to 0 may cut a round short, which puts some workers one more ahead.

`BenchmarkProofs` proves `SuccessIsCompleteCorrect`, `CrashHasCauseCorrect` and `ReplyAnswersRequestCorrect` from
`BenchmarkAssumption`, for any number of clients, sizes and bounds. Its invariant follows one client's conversation
(`Chained`): the requests the server has and the replies on their way belong to the stage the client is in, at most one of
them unanswered, since a chain that saw a timeout sends no more; what was served is in the client's file, on its way, lost by a reset, or
still to be sent (`Pieces`); and a 226 on its way means that nothing is left to send. `SizeKnown` adds that all replies to SIZE name the size of a file
that has not grown.

`PartsProofs` proves, each for the specification of its part:

| theorem | statement | from |
|---|---|---|
| `LoginIsWhatLinesSayCorrect`, `TypeIsWhatLinesSayCorrect` | `Spec => []LoginIsWhatLinesSay`, `Spec => []TypeIsWhatLinesSay` | `LineAssumption` |
| `TargetListensCorrect` | `Port!Spec => []TargetListens` | `PortAssumption` |
| `TimeIsOwnCorrect` | `List!Spec => []TimeIsOwn` | nothing |
| `ReadIsFinalCorrect` | `Start!Spec => ReadIsFinal` | nothing |
| `EachPartByItself` | `MCSpec => Spec /\ Port!Spec /\ List!Spec /\ Start!Spec` | nothing |

The last one ties the run `parts` to the others: what TLC explores is a behaviour of each part.

*The line reader.* `LineAssumption` says that lines are sequences of words, that no word is blank and that separators are.
`StreamInv` says that what is in the buffer and on the wire is, one after the other, the texts of the lines
not handled yet (`Cut`, with the place where each ends). Then the first delimiter in the buffer, if there is one, is the
end of the first of them (`CutFirst`: no delimiter stands between or in the words, even if they are separated by
single LFs), its words are the words sent (`WordsOfLine`), and what is consumed leaves the rest as it was
(`CutConsume`), wherever the reads were cut. On top of it `RequestInv` says that login and type are those of the lines handled so far, as
predicates of lines and a number (`LoginIs`, `TypeIs`): `LoginStep` and `TypeStep` extend them by one line, and
`LineIsDispatched` shows that each operation does to the login and the type what its words say, upper case or not.

*The port.* The reply names an address and a port in six decimal numbers; the client splits and converts them. `Decimal` and
`stoiOfString` say that a byte's digits give the byte back, `SplitLonger` and `SplitMore` what `split_string` makes of one character more,
`SixFields` puts the six together, and `Whole` joins the two halves of the port, in all 16 bits (`EndpointOfResponse`).
`PortInv` is then: the last 227 on its way names the acceptor that is open, or the client has read it.

*The listing.* `TimeSoFar` follows one worker from `stat` to the last field; what it took from the shared object is its own entry's
time unless it was disturbed, which every other worker's `localtime` does to all but itself (`Alone`).

*Induction over data.* The library's induction theorems take an operator as a parameter and cannot be used. `PartsProofs`
proves induction over a set of natural numbers from well-foundedness (`Induction`), and with it that the recursive functions
`split_string` and `Words` have at each argument the value their definitions say, for texts and lines of every length.

*Only model-checked.* Liveness, which is out of the prover's reach (fairness and ENABLED): `IdleSessionCloses`, `RepliesDrain`,
`StoppedSessionEnds`, `DownloadEnds`, `CompleteIsDelivered`, `StorEnds`, `ConnectedIsServed`, `AnswerOrTimeout`, `EveryLineAnswered`. Every
safety property of a passing run has a theorem; those of `SharedFile` that concern one side only are proved of that side and
hold of the composition by `SharedIsUpload` and `SharedIsDownload`.

## 5. Not modelled, and what could follow

Left out: permissions and links of the file system (a call fails only for what is or is
not at a path), the text of listings (but its times), of STAT and of other replies, logging, command line handling,
third-party code, and the C++ memory model beyond "freed memory may do anything". Of the
benchmark client the regular expressions that split a reply (what can go wrong in the conversions after them is modelled), the
drawing of the progress bar (but its division), and the wait for the futures in `main`: the model ends the process where an
exception is thrown, also where it would come out of a future only later. No property refutes that a session is destroyed
under a write (`session.cc:109`) or under transfers after a read error (`session.cc:119`): the model has it (`orphans`, `undefined`), and
nothing in the repository says otherwise. `hardware_concurrency()` of 0 is excluded by `ServerAssumption`.

What could follow: the safety core of the liveness properties (that a step toward the end is possible in each state
before it), proved as invariants; and a composition of `Server` with several sessions of `Session`, which today meet
only in the count of clients.

## 6. Running

    tlc -config session_pipelined.cfg MCSession.tla      (and the other session_*, finished_session,
                                                          uninitialised_counter)
    tlc -config files_shared.cfg MCFileCommands.tla      (and files_anonymous)
    tlc -config transfers.cfg SharedFile.tla
    tlc -config transfer_complete.cfg RecvFile.tla
    tlc -config server.cfg Server.tla
    tlc -config benchmark.cfg Benchmark.tla
    tlc -config parts.cfg MCParts.tla
    tlapm SessionProofs.tla                              (and the other seven modules of proofs)
