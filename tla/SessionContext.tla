--------------------------- MODULE SessionContext ---------------------------
(***************************************************************************)
(* The state of one FTP session and what SessionContext, BasicOp and the   *)
(* idle timer do to it (session/context.{h,cc}, session/session.{h,cc},    *)
(* op/basic_op.{h,cc}).  ControlConnection and Transfers build the         *)
(* session's completion handlers from these operators; Session composes    *)
(* them with the client.                                                   *)
(*                                                                         *)
(* All completion handlers of a session run on the one thread of its       *)
(* io_context, so a handler is one step.  An operation that asio has       *)
(* started and whose handler has not run yet is a value of a variable: the *)
(* interleaving of the handlers is the order in which those values are     *)
(* taken up.                                                               *)
(***************************************************************************)
EXTENDS Integers, Sequences, FiniteSets

CONSTANTS
  OpIds,            \* identities of the transfer operations alive at a time
  NoOp,             \* the empty completion token of a message; nobody
  Commands,         \* the commands the client of this instance uses
  MaxCommands,      \* bound: commands the client sends
  MaxConnections,   \* bound: data connections waiting in the backlog
  Pipelining,       \* may the client send before the previous reply is in?
  Faults,           \* the failures of the environment this instance allows
  OpNumModulus,     \* the counter of operations is a uint: 2^32 in the code
  StartOpNums       \* what active_op_num_, which no constructor sets, may hold

TransferCommand == {"LIST", "RETR", "STOR"}

(* SIMPLE is any registered operation that answers from its do_operation    *)
(* and is destroyed there: NOOP, SYST, STAT, PWD, CWD, CDUP, MKD, SIZE,     *)
(* TYPE, OPTS and, after login, AUTH.  BLANK is a line without a word.      *)
Command == {"USER", "PASS", "BLANK", "UNKNOWN", "SIMPLE", "PASV"} \cup TransferCommand

Fault == {"reset", "filesystem", "pipe", "bind", "accept", "data", "disk"}

ASSUME ConstantsAssumption ==
  /\ IsFiniteSet(OpIds)
  /\ NoOp \notin OpIds
  /\ Commands \subseteq Command
  /\ MaxCommands \in Nat
  /\ MaxConnections \in Nat
  /\ Pipelining \in BOOLEAN
  /\ Faults \subseteq Fault
  /\ OpNumModulus \in Nat /\ Cardinality(OpIds) < OpNumModulus
  /\ StartOpNums \subseteq 0 .. OpNumModulus - 1

VARIABLES
  \* the client and the network
  peer,         \* the client's end of the control connection
  inbox,        \* commands sent and not yet handled
  sent,         \* number of commands sent so far
  \* Session
  object,       \* the Session object: alive, or destroyed
  stoped,       \* stoped_; the control socket is closed exactly when it is set
  read,         \* the outstanding async_read_until, or how it completed
  expiry,       \* check_idle_timer_.expiry(), relative to the clock
  idleWait,     \* the wait of start_idle_timer, which captures a raw this
  keepWait,     \* the wait of the end-of-file branch, which captures self
  \* SessionContext
  user,         \* is user_ set?
  verified,     \* verified_
  queue,        \* message_queue_
  writes,       \* the async_writes on the control socket that are outstanding
  opNum,        \* active_op_num_
  acceptor,     \* acceptor_
  backlog,      \* data connections the kernel holds for the acceptor
  data,         \* data_socket_: no object, an open one, or a closed one
  owner,        \* the operation whose accept filled data_socket_ (history)
  \* the transfer operations
  phase,        \* what each live operation waits for
  kind,         \* the command each live operation serves
  accepts,      \* the operations with an outstanding async_accept, in order
  \* how it ends
  writeFailed,  \* has a queued message failed to be written? (history)
  orphans,      \* completions left behind by a destroyed session
  fate          \* is the process running, or what ended it?

netVars   == <<peer, sent>>
timerVars == <<expiry, idleWait, keepWait>>
loginVars == <<user, verified>>
portVars  == <<acceptor, backlog, accepts>>
dataVars  == <<data, owner>>
opVars    == <<phase, kind, opNum>>
endVars   == <<object, orphans>>

stateVars == <<peer, inbox, sent, object, stoped, read, expiry, idleWait, keepWait,
               user, verified, queue, writes, opNum, acceptor, backlog, data,
               owner, phase, kind, accepts, writeFailed, orphans>>

vars == <<stateVars, fate>>

Phase == {"none",          \* no such operation
          "accepting",     \* async_accept outstanding
          "accepted",      \* ... completed with a connection
          "acceptfailed",  \* ... completed with an error
          "aborted",       \* ... completed with operation_aborted
          "replying",      \* held by the token of its 150 message
          "waiting",       \* async_wait or async_write on the data socket
          "ready",         \* ... completed
          "failed",        \* ... completed with an error
          "limited"}       \* the speed limiter's wait outstanding

Code == {150, 200, 226, 227, 230, 331, 500, 503, 530, 550, 553}

(* What may end the process, or this session's part in it.                  *)
Fate == {"running",
         "filesystem",      \* std::filesystem throws
         "address",         \* a closed control socket is asked for its address
         "log",             \* a control socket that was reset, for its peer
         "listen",          \* set_option or listen throw for the new acceptor
         "closedacceptor",  \* a closed acceptor is asked for its port
         "nullsocket",      \* a null data_socket_ is followed
         "closedsocket",    \* a closed data socket is made non-blocking
         "signal",          \* SIGPIPE
         "spinning",        \* a loop never returns
         "undefined"}       \* freed memory was read

Message == [code : Code, token : OpIds \cup {NoOp}]

TypeOK ==
  /\ peer \in {"up", "fin", "reset"}
  /\ inbox \in Seq(Command)
  /\ sent \in Nat
  /\ object \in {"live", "destroyed"}
  /\ stoped \in BOOLEAN
  /\ read \in {"greeting", "pending", "command", "eof", "reset", "aborted", "badfd", "none"}
  /\ expiry \in {"armed", "passed", "max"}
  /\ idleWait \in {"none", "waiting", "ready"}
  /\ keepWait \in {"none", "waiting", "ready"}
  /\ user \in BOOLEAN
  /\ verified \in BOOLEAN
  /\ queue \in Seq(Message)
  /\ writes \in Seq({"pending", "ok", "error"})
  /\ opNum \in 0 .. OpNumModulus - 1
  /\ acceptor \in {"closed", "listening", "unbound"}
  /\ backlog \in Nat
  /\ data \in {"null", "open", "closed"}
  /\ owner \in OpIds \cup {NoOp}
  /\ phase \in [OpIds -> Phase]
  /\ kind \in [OpIds -> TransferCommand \cup {"none"}]
  /\ accepts \in Seq(OpIds)
  /\ writeFailed \in BOOLEAN
  /\ orphans \in SUBSET {"idle", "write", "operation"}
  /\ fate \in Fate

Init ==
  /\ peer = "up" /\ inbox = <<>> /\ sent = 0
  /\ object = "live" /\ stoped = FALSE /\ read = "greeting"
  /\ expiry = "passed" /\ idleWait = "none" /\ keepWait = "none"
  /\ user = FALSE /\ verified = FALSE
  /\ queue = <<>> /\ writes = <<>> /\ opNum \in StartOpNums
  /\ acceptor = "closed" /\ backlog = 0 /\ accepts = <<>>
  /\ data = "null" /\ owner = NoOp
  /\ phase = [o \in OpIds |-> "none"] /\ kind = [o \in OpIds |-> "none"]
  /\ writeFailed = FALSE /\ orphans = {} /\ fate = "running"

Running == fate = "running" /\ object = "live"

LiveOps == {o \in OpIds : phase[o] # "none"}

-----------------------------------------------------------------------------
(* check_idle_timer_.  Setting the expiry or cancelling completes the waits  *)
(* that are outstanding; their handlers still have to run.                  *)

Fired(wait) == IF wait = "waiting" THEN "ready" ELSE wait

cancel_idle_timer ==
  /\ idleWait' = Fired(idleWait)
  /\ keepWait' = Fired(keepWait)
  /\ UNCHANGED expiry

update_idle_timer(time) ==
  /\ expiry' = time
  /\ idleWait' = Fired(idleWait)
  /\ keepWait' = Fired(keepWait)

(* A faulty reading of exists_pending_operator that forgets the messages.   *)
exists_active_operator(num, messages) == num # 0

exists_pending_operator(num, messages) == num # 0 \/ messages # <<>>

(* A faulty constructor that does not count.                                *)
NotCounted == opNum

(* The constructor and the destructors of BasicOp on active_op_num_.        *)
Counted == (opNum + 1) % OpNumModulus

Discounted(n) == (opNum - n) % OpNumModulus

(* Two faulty restarts: one that does nothing for a stopped session, and    *)
(* one that confuses the stopped session with the other.                    *)
RestartUnlessStoped ==
  IF exists_pending_operator(opNum', queue') \/ stoped THEN UNCHANGED timerVars
  ELSE update_idle_timer("armed")

RestartSwapped ==
  IF exists_pending_operator(opNum', queue') THEN UNCHANGED timerVars
  ELSE IF stoped THEN update_idle_timer("armed") ELSE cancel_idle_timer

(* What ~BasicOp and the end of do_write_message have in common.  They see  *)
(* the operation already discounted and the message already popped.         *)
RestartIdleTimer ==
  \/ /\ exists_pending_operator(opNum', queue')
     /\ UNCHANGED timerVars
  \/ /\ ~ exists_pending_operator(opNum', queue')
     /\ IF stoped THEN cancel_idle_timer ELSE update_idle_timer("armed")

-----------------------------------------------------------------------------
(* The message queue: the front message is the one being written.          *)

(* An async_write on a closed socket completes at once with an error.       *)
StartedWrite == IF stoped THEN "error" ELSE "pending"

Reply(code) == <<[code |-> code, token |-> NoOp]>>

(* A faulty write_message that does not look whether a write is going on.   *)
WriteMessageUnguarded(messages) ==
  /\ queue' = queue \o messages
  /\ writes' = IF messages = <<>> THEN writes ELSE Append(writes, StartedWrite)

(* One or more calls of write_message within a handler.                     *)
write_message(messages) ==
  /\ queue' = queue \o messages
  /\ writes' = IF queue = <<>> /\ messages # <<>>
               THEN Append(writes, StartedWrite) ELSE writes

(* Closing the control socket aborts the write it has not finished.         *)
AbortedWrites == [i \in DOMAIN writes |-> IF writes[i] = "pending" THEN "error" ELSE writes[i]]

-----------------------------------------------------------------------------
(* The data port and the data socket.                                      *)

(* Closing the acceptor aborts the accepts that have not completed.         *)
AbortAccepts(ph) == [o \in OpIds |-> IF ph[o] = "accepting" THEN "aborted" ELSE ph[o]]

(* Closing, replacing or destroying data_socket_ ends the waits on it.      *)
AbortWaits(ph) == [o \in OpIds |-> IF ph[o] = "waiting" THEN "failed" ELSE ph[o]]

close_acceptor ==
  /\ acceptor' = "closed"
  /\ backlog' = 0
  /\ accepts' = <<>>

(* The destructors of the transfer operations in gone, run after phases ph: *)
(* each closes data_socket_ if it is open, whoever uses it, and gives up    *)
(* its share of active_op_num_.                                             *)
DestroyOps(gone, ph) ==
  /\ phase' = [o \in OpIds |-> IF o \in gone THEN "none" ELSE AbortWaits(ph)[o]]
  /\ kind' = [o \in OpIds |-> IF o \in gone THEN "none" ELSE kind[o]]
  /\ opNum' = Discounted(Cardinality(gone))
  /\ data' = IF data = "open" THEN "closed" ELSE data
  /\ owner' = NoOp

-----------------------------------------------------------------------------
(* The end of the session and of the process.                              *)

(* The last shared_ptr to the Session is gone.  What is still outstanding   *)
(* and was started with a raw pointer to it becomes an orphan.              *)
DestroySession ==
  /\ object' = "destroyed"
  /\ orphans' = {k \in {"idle", "write", "operation"} :
                   \/ k = "idle" /\ idleWait # "none"
                   \/ k = "write" /\ writes # <<>>
                   \/ k = "operation" /\ LiveOps # {}}
  /\ read' = "none" /\ expiry' = "max" /\ idleWait' = "none" /\ keepWait' = "none"
  /\ queue' = <<>> /\ writes' = <<>> /\ opNum' = 0
  /\ close_acceptor
  /\ data' = "null" /\ owner' = NoOp
  /\ phase' = [o \in OpIds |-> "none"] /\ kind' = [o \in OpIds |-> "none"]
  /\ UNCHANGED <<netVars, inbox, loginVars, writeFailed, fate>>

(* An exception no handler catches, a signal, a null pointer followed or a  *)
(* loop that never returns: nothing of this session happens any more.       *)
EndProcess(why) ==
  /\ fate' = why
  /\ UNCHANGED stateVars

(* A completion left behind by a destroyed session reads freed memory: it   *)
(* may return as if nothing were wrong, or anything may happen.             *)
OrphanRuns ==
  /\ fate = "running"
  /\ object = "destroyed"
  /\ \E k \in orphans : orphans' = orphans \ {k}
  /\ fate' \in {"running", "undefined"}
  /\ UNCHANGED <<netVars, inbox, object, stoped, read, timerVars, loginVars, queue,
                 writes, opVars, portVars, dataVars, writeFailed>>
=============================================================================
