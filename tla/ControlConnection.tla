------------------------- MODULE ControlConnection --------------------------
(***************************************************************************)
(* The Session class: the welcome message, the read loop with the          *)
(* dispatch of commands, the idle timer and the end of the session, and    *)
(* the write loop of SessionContext (session/session.cc,                   *)
(* session/context.cc, op/auth_op.cc, op/passive_mode_op.cc and the        *)
(* operations that answer at once).                                        *)
(***************************************************************************)
EXTENDS SessionContext

(* Session::start: the welcome message has been written.  The timer starts  *)
(* and the first read is issued.                                            *)
WelcomeWritten ==
  /\ Running /\ read = "greeting"
  /\ read' = "pending"
  /\ expiry' = "armed" /\ idleWait' = "waiting"
  /\ UNCHANGED <<netVars, inbox, endVars, stoped, keepWait, loginVars, queue, writes,
                 opVars, portVars, dataVars, writeFailed, fate>>

(* Session::start: writing the welcome message failed; nothing keeps the    *)
(* session any more.                                                        *)
WelcomeFailed ==
  /\ Running /\ read = "greeting" /\ peer = "reset"
  /\ DestroySession
  /\ UNCHANGED stoped

-----------------------------------------------------------------------------
(* The read loop.                                                          *)

(* asio completes the outstanding read.                                     *)
ReadReady ==
  /\ Running /\ read = "pending"
  /\ \/ inbox # <<>> /\ read' = "command"
     \/ inbox = <<>> /\ peer = "fin" /\ read' = "eof"
     \/ peer = "reset" /\ read' = "reset"
  /\ UNCHANGED <<netVars, inbox, endVars, stoped, timerVars, loginVars, queue, writes,
                 opVars, portVars, dataVars, writeFailed, fate>>

(* The part of the read handler that every command shares: the line is      *)
(* consumed and, at the end, do_read issues the next read.                  *)
TakeCommand(c) ==
  /\ Running /\ read = "command"
  /\ inbox # <<>> /\ c = Head(inbox)
  /\ inbox' = Tail(inbox)
  /\ \/ ~ stoped /\ read' = "pending"
     \/ stoped /\ read' = "badfd"
     \/ stoped /\ inbox' # <<>> /\ read' = "command"  \* it was in the buffer
  /\ UNCHANGED <<netVars, endVars, stoped, writeFailed, fate>>

(* The timer over a whole read handler: the handler first sets the expiry   *)
(* to the maximum, and the end of the dispatch may set it again, to time.   *)
IdleTimerAfterRead(time) ==
  update_idle_timer(IF exists_pending_operator(opNum', queue') THEN "max" ELSE time)

(* An operation created for the command is destroyed in the same handler.   *)
OperationDone == IdleTimerAfterRead(IF stoped THEN "max" ELSE "armed")

(* build_request finds no word in the line, or dispatch_task returns false. *)
NotDispatched == IdleTimerAfterRead("armed")

BlankLine ==
  /\ TakeCommand("BLANK")
  /\ UNCHANGED <<queue, writes, opVars, portVars, dataVars, loginVars>>
  /\ NotDispatched

(* AuthOp: the user has not logged in yet.                                  *)
AuthOp(c) ==
  /\ ~ verified /\ c # "BLANK"
  /\ TakeCommand(c)
  /\ \/ c = "USER" /\ user' \in BOOLEAN /\ write_message(Reply(331)) /\ UNCHANGED verified
     \/ c = "PASS" /\ ~ user /\ write_message(Reply(503)) /\ UNCHANGED loginVars
     \/ c = "PASS" /\ user /\ verified' = TRUE /\ write_message(Reply(230)) /\ UNCHANGED user
     \/ c \notin {"USER", "PASS"} /\ write_message(Reply(530)) /\ UNCHANGED loginVars
  /\ UNCHANGED <<opVars, portVars, dataVars>>
  /\ OperationDone

(* A faulty dispatch_task that answers and goes on to look for an operation.*)
RefuseFallsThrough(c) ==
  /\ verified
  /\ TakeCommand(c)
  /\ \/ c = "USER" /\ write_message(Reply(530) \o Reply(500))
     \/ c = "PASS" /\ write_message(Reply(230) \o Reply(500))
     \/ c = "UNKNOWN" /\ write_message(Reply(500))
  /\ UNCHANGED <<loginVars, opVars, portVars, dataVars>>
  /\ NotDispatched

(* dispatch_task answers by itself.                                         *)
RefuseCommand(c) ==
  /\ verified
  /\ TakeCommand(c)
  /\ \/ c = "USER" /\ write_message(Reply(530))
     \/ c = "PASS" /\ write_message(Reply(230))
     \/ c = "UNKNOWN" /\ write_message(Reply(500))
  /\ UNCHANGED <<loginVars, opVars, portVars, dataVars>>
  /\ NotDispatched

(* An operation that answers and is done.                                   *)
AnswerCommand ==
  /\ verified
  /\ TakeCommand("SIMPLE")
  /\ write_message(Reply(200))
  /\ UNCHANGED <<loginVars, opVars, portVars, dataVars>>
  /\ OperationDone

(* A command that ends in an exception: std::filesystem throws (as          *)
(* create_directory does for MKD and file_size for RETR), PASV or STAT asks *)
(* the control socket for its address after the idle timer closed it, or    *)
(* PASV meets a failure of set_option or listen, which it does not catch.   *)
CommandThrows(c) ==
  /\ verified
  /\ Running /\ read = "command"
  /\ inbox # <<>> /\ c = Head(inbox)
  /\ \/ "filesystem" \in Faults /\ c \in {"SIMPLE", "RETR", "STOR"} /\ EndProcess("filesystem")
     \/ stoped /\ c \in {"SIMPLE", "PASV"} /\ EndProcess("address")
     \/ "bind" \in Faults /\ c = "PASV" /\ EndProcess("listen")

(* PassiveModeOp: an open acceptor is closed, which aborts its accepts, and *)
(* opened again on a new port.                                              *)
PassiveModeOp ==
  /\ verified
  /\ TakeCommand("PASV")
  /\ \/ ~ stoped /\ acceptor' = "listening" /\ write_message(Reply(227))
     \/ "bind" \in Faults /\ acceptor' \in {"closed", "unbound"} /\ write_message(Reply(550))
  /\ phase' = AbortAccepts(phase)
  /\ backlog' = 0 /\ accepts' = <<>>
  /\ UNCHANGED <<loginVars, kind, opNum, dataVars>>
  /\ OperationDone

(* A transfer operation that answers from its constructor (the file cannot  *)
(* be opened) or from check_data_port (no data port), and is done.  When    *)
(* pipe() fails RecvFileOp does both.                                       *)
RefuseTransfer(c) ==
  /\ verified /\ c \in TransferCommand
  /\ TakeCommand(c)
  /\ \/ c = "RETR" /\ write_message(Reply(550))
     \/ c = "STOR" /\ write_message(Reply(553))
     \/ acceptor = "closed" /\ write_message(Reply(503))
     \/ /\ acceptor = "closed" /\ c = "STOR" /\ "pipe" \in Faults
        /\ write_message(Reply(553) \o Reply(503))
  /\ UNCHANGED <<loginVars, opNum, portVars>>
  \* its destructor closes the data socket that is open, if any
  /\ phase' = AbortWaits(phase) /\ kind' = kind
  /\ data' = (IF data = "open" THEN "closed" ELSE data) /\ owner' = NoOp
  /\ OperationDone

(* A transfer operation that starts to wait for the data connection.  After *)
(* a failure of pipe() RecvFileOp has answered 553 and goes on all the same.*)
StartTransfer(c, o) ==
  /\ verified /\ c \in TransferCommand
  /\ acceptor # "closed"
  /\ phase[o] = "none"
  /\ TakeCommand(c)
  /\ phase' = [phase EXCEPT ![o] = "accepting"]
  /\ kind' = [kind EXCEPT ![o] = c]
  /\ opNum' = Counted
  /\ accepts' = Append(accepts, o)
  /\ \/ write_message(<<>>)
     \/ c = "STOR" /\ "pipe" \in Faults /\ write_message(Reply(553))
  /\ UNCHANGED <<loginVars, acceptor, backlog, dataVars>>
  /\ IdleTimerAfterRead("max")

HandleCommand ==
  \/ BlankLine
  \/ AnswerCommand
  \/ PassiveModeOp
  \/ \E c \in Commands :
       \/ AuthOp(c)
       \/ RefuseCommand(c)
       \/ CommandThrows(c)
       \/ RefuseTransfer(c)
       \/ \E o \in OpIds : StartTransfer(c, o)

-----------------------------------------------------------------------------
(* The end of the read loop.                                               *)

(* The client closed its end.  With a transfer under way the session is     *)
(* kept by one more wait on the timer; otherwise its last owner was this    *)
(* handler.                                                                 *)
ReadEof ==
  /\ Running /\ read = "eof"
  /\ stoped' = TRUE
  /\ \/ /\ opNum # 0
        /\ writes' = AbortedWrites
        /\ read' = "none"
        /\ expiry' = "max" /\ idleWait' = Fired(idleWait) /\ keepWait' = "waiting"
        /\ UNCHANGED <<netVars, inbox, endVars, loginVars, queue, opVars, portVars,
                       dataVars, writeFailed, fate>>
     \/ opNum = 0 /\ DestroySession

(* Any other error: logged, and the session's last owner is gone.  On a     *)
(* closed socket a write and a read complete at once, in their order: the   *)
(* handler of a reply to the last command runs before this one.             *)
ReadError ==
  /\ Running
  /\ read = "reset" \/ (read = "badfd" /\ writes = <<>>)
  /\ DestroySession
  /\ UNCHANGED stoped

(* The idle timer closed the socket under the read.                         *)
ReadAborted ==
  /\ Running /\ read = "aborted"
  /\ DestroySession
  /\ UNCHANGED stoped

ReadHandler == HandleCommand \/ ReadEof \/ ReadError \/ ReadAborted

-----------------------------------------------------------------------------
(* The idle timer.                                                         *)

(* Time passes until the expiry of the timer.                               *)
Tick ==
  /\ Running /\ expiry = "armed"
  /\ expiry' = "passed"
  /\ UNCHANGED <<netVars, inbox, endVars, stoped, read, idleWait, keepWait, loginVars,
                 queue, writes, opVars, portVars, dataVars, writeFailed, fate>>

TimerDue == idleWait = "ready" \/ (idleWait = "waiting" /\ expiry = "passed")

(* Closing the session from the timer: what Session::close does then.       *)
CloseByTimer ==
  /\ stoped' = TRUE
  /\ read' = IF read = "pending" THEN "aborted" ELSE read
  /\ writes' = AbortedWrites

(* Three faulty handlers: one that closes without looking at the expiry     *)
(* again, one that waits again after closing, one that waits only once.     *)
IdleTimerFrame ==
  /\ Running /\ TimerDue
  /\ UNCHANGED <<netVars, inbox, endVars, expiry, keepWait, loginVars, queue, opVars,
                 portVars, dataVars, writeFailed, fate>>

IdleTimerUnchecked ==
  /\ IdleTimerFrame
  /\ idleWait' = "none"
  /\ IF stoped THEN UNCHANGED <<stoped, read, writes>> ELSE CloseByTimer

IdleTimerAlwaysWaits ==
  /\ IdleTimerFrame
  /\ idleWait' = IF stoped THEN "none" ELSE "waiting"
  /\ IF ~ stoped /\ expiry = "passed" THEN CloseByTimer
     ELSE UNCHANGED <<stoped, read, writes>>

IdleTimerOnce ==
  /\ IdleTimerFrame
  /\ idleWait' = "none"
  /\ IF ~ stoped /\ expiry = "passed" THEN CloseByTimer
     ELSE UNCHANGED <<stoped, read, writes>>

(* The handler of start_idle_timer's wait, which runs when the timer        *)
(* expired or was set or cancelled.  It waits again, or closes the session. *)
IdleTimer ==
  /\ IdleTimerFrame
  /\ \/ /\ stoped
        /\ idleWait' = "none"
        /\ UNCHANGED <<stoped, read, writes>>
     \/ /\ ~ stoped /\ expiry # "passed"
        /\ idleWait' = "waiting"
        /\ UNCHANGED <<stoped, read, writes>>
     \/ /\ ~ stoped /\ expiry = "passed"
        /\ idleWait' = "none"
        /\ CloseByTimer

(* The wait that kept the session after the end of file was cancelled: its  *)
(* handler is the session's last owner.  A cancellation completes the waits *)
(* in their order, so the idle wait's handler runs before this one.         *)
KeepaliveDone ==
  /\ Running /\ keepWait = "ready" /\ idleWait # "ready"
  /\ DestroySession
  /\ UNCHANGED stoped

-----------------------------------------------------------------------------
(* The write loop.                                                         *)

(* asio completes an outstanding write of a message.                        *)
WriteReady ==
  /\ Running
  /\ \E i \in DOMAIN writes :
       /\ writes[i] = "pending"
       /\ writes' = [writes EXCEPT ![i] = IF peer = "reset" THEN "error" ELSE "ok"]
  /\ UNCHANGED <<netVars, inbox, endVars, stoped, read, timerVars, loginVars, queue,
                 opVars, portVars, dataVars, writeFailed, fate>>

(* The log line of do_write_message asks the control socket for its peer,   *)
(* which throws once the client has reset the connection.                   *)
LogThrows ==
  /\ peer = "reset" /\ ~ stoped
  /\ Len(queue) = 1 /\ opNum = 0

(* The completion token of the written message, if it has one, runs: it     *)
(* starts the transfer of the operation it holds.                           *)
RunToken ==
  LET token == Head(queue).token
  IN  IF token = NoOp THEN UNCHANGED phase
      ELSE /\ data # "null"
           /\ phase' = [phase EXCEPT ![token] = IF data = "open" THEN "waiting" ELSE "failed"]

(* A faulty handler that does not go on to the next message.                *)
MessageWrittenStops ==
  /\ Running /\ writes # <<>> /\ Head(writes) = "ok"
  /\ ~ LogThrows
  /\ RunToken
  /\ queue' = Tail(queue) /\ writes' = Tail(writes)
  /\ UNCHANGED opNum
  /\ RestartIdleTimer
  /\ UNCHANGED <<netVars, inbox, endVars, stoped, read, loginVars, kind, portVars,
                 dataVars, writeFailed, fate>>

(* A message was written: its completion token runs, and the next message   *)
(* is written or the idle timer restarted.                                  *)
MessageWritten ==
  /\ Running /\ writes # <<>> /\ Head(writes) = "ok"
  /\ ~ LogThrows
  /\ RunToken
  /\ queue' = Tail(queue)
  /\ writes' = IF queue' = <<>> THEN Tail(writes) ELSE Append(Tail(writes), StartedWrite)
  /\ UNCHANGED opNum
  /\ \/ queue' # <<>> /\ UNCHANGED timerVars
     \/ queue' = <<>> /\ RestartIdleTimer
  /\ UNCHANGED <<netVars, inbox, endVars, stoped, read, loginVars, kind, portVars,
                 dataVars, writeFailed, fate>>

(* The completion token finds no data socket, or the log line throws.       *)
MessageWrittenFatal ==
  /\ Running /\ writes # <<>> /\ Head(writes) = "ok"
  /\ \/ Head(queue).token # NoOp /\ data = "null" /\ EndProcess("nullsocket")
     \/ LogThrows /\ EndProcess("log")

(* The operations held by the tokens of the queued messages.                *)
QueuedOps == {queue[i].token : i \in DOMAIN queue} \ {NoOp}

(* A message could not be written: all messages are dropped, and with them  *)
(* the operations their tokens hold.                                        *)
MessageFailed ==
  /\ Running /\ writes # <<>> /\ Head(writes) = "error"
  /\ queue' = <<>>
  /\ writes' = Tail(writes)
  /\ writeFailed' = TRUE
  /\ \/ QueuedOps = {} /\ UNCHANGED <<opVars, dataVars, timerVars>>
     \/ QueuedOps # {} /\ DestroyOps(QueuedOps, phase) /\ RestartIdleTimer
  /\ UNCHANGED <<netVars, inbox, endVars, stoped, read, loginVars, portVars, fate>>

WriteHandler == MessageWritten \/ MessageWrittenFatal \/ MessageFailed
=============================================================================
