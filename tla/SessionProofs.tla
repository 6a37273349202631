---------------------------- MODULE SessionProofs ----------------------------
(***************************************************************************)
(* Theorems about Session, for every number of operations, commands and    *)
(* connections, with and without pipelining, under all failures.           *)
(***************************************************************************)
EXTENDS Session, FiniteSetTheorems, TLAPS

USE ConstantsAssumption DEF netVars, timerVars, loginVars, portVars, dataVars, opVars, endVars

-----------------------------------------------------------------------------
(* What the operators of SessionContext return.                            *)

WriteState == {"pending", "ok", "error"}
TimerTypes == expiry \in {"armed", "passed", "max"} /\ idleWait \in {"none", "waiting", "ready"}
              /\ keepWait \in {"none", "waiting", "ready"}

(* The counter of operations stays within its width.                       *)
LEMMA CounterRange ==
  ASSUME NEW n \in Int
  PROVE  n % OpNumModulus \in 0 .. OpNumModulus - 1
  BY FS_CardinalityType

(* A reply is one message that no operation's completion token goes with.  *)
LEMMA ReplyType ==
  ASSUME NEW code \in Code
  PROVE  /\ Reply(code) \in Seq(Message)
         /\ Len(Reply(code)) = 1
         /\ Reply(code)[1].token = NoOp
  BY DEF Reply, Message

(* Aborting the writes changes how they completed, not how many there are. *)
LEMMA AbortedWritesType ==
  ASSUME writes \in Seq(WriteState)
  PROVE  /\ AbortedWrites \in Seq(WriteState)
         /\ Len(AbortedWrites) = Len(writes)
  BY DEF AbortedWrites, WriteState

(* write_message queues messages and starts at most one write.              *)
LEMMA WriteMessageType ==
  ASSUME TypeOK, NEW messages \in Seq(Message), write_message(messages)
  PROVE  /\ queue' \in Seq(Message)
         /\ writes' \in Seq(WriteState)
  BY DEF TypeOK, write_message, StartedWrite, WriteState

(* The restart of the idle timer by ~BasicOp or do_write_message is typed.  *)
LEMMA RestartType ==
  ASSUME TypeOK, RestartIdleTimer
  PROVE  TimerTypes'
  BY DEF TypeOK, TimerTypes, RestartIdleTimer, cancel_idle_timer, update_idle_timer, Fired

(* The expiry a read handler leaves behind is typed.                        *)
LEMMA AfterReadType ==
  ASSUME TypeOK, NEW time \in {"armed", "max"}, IdleTimerAfterRead(time)
  PROVE  TimerTypes'
  BY DEF TypeOK, TimerTypes, IdleTimerAfterRead, update_idle_timer, Fired

(* Closing the acceptor or the data socket moves operations between phases. *)
LEMMA AbortType ==
  ASSUME NEW ph \in [OpIds -> Phase]
  PROVE  /\ AbortAccepts(ph) \in [OpIds -> Phase]
         /\ AbortWaits(ph) \in [OpIds -> Phase]
  BY DEF AbortAccepts, AbortWaits, Phase

DestroyedTypes ==
  /\ phase' \in [OpIds -> Phase]
  /\ kind' \in [OpIds -> TransferCommand \cup {"none"}]
  /\ opNum' \in 0 .. OpNumModulus - 1
  /\ data' \in {"null", "open", "closed"}
  /\ owner' \in OpIds \cup {NoOp}

(* The destructors of transfer operations leave every field typed.          *)
LEMMA DestroyOpsType ==
  ASSUME TypeOK, NEW gone \in SUBSET OpIds, NEW ph \in [OpIds -> Phase], DestroyOps(gone, ph)
  PROVE  DestroyedTypes
<1>1. Cardinality(gone) \in Nat
  BY FS_Subset, FS_CardinalityType
<1>2. opNum' \in 0 .. OpNumModulus - 1
  <2>1. opNum - Cardinality(gone) \in Int
    BY <1>1 DEF TypeOK
  <2> QED
    BY <2>1, CounterRange DEF DestroyOps, Discounted
<1>3. AbortWaits(ph) \in [OpIds -> Phase]
  BY AbortType
<1> QED
  BY <1>2, <1>3 DEF DestroyOps, DestroyedTypes, TypeOK, Phase

(* ~Session and ~SessionContext leave every field typed.                    *)
LEMMA DestroySessionType ==
  ASSUME TypeOK, DestroySession, stoped' \in BOOLEAN
  PROVE  TypeOK'
<1>1. 0 \in 0 .. OpNumModulus - 1
  BY FS_CardinalityType
<1> QED
  BY <1>1 DEF TypeOK, DestroySession, close_acceptor, Phase

-----------------------------------------------------------------------------
(* Type correctness, one lemma per group of handlers.                      *)

(* Whatever the client does, the types hold.                                *)
LEMMA ClientType == TypeOK /\ Client => TypeOK'
<1> SUFFICES ASSUME TypeOK, Client PROVE TypeOK'
  OBVIOUS
<1>1. ASSUME NEW c \in Commands, ClientSend(c) PROVE TypeOK'
  BY <1>1 DEF ClientSend, TypeOK
<1>2. CASE ClientConnect
  BY <1>2 DEF ClientConnect, TypeOK
<1>3. CASE ClientClose
  BY <1>3 DEF ClientClose, TypeOK
<1> QED
  BY <1>1, <1>2, <1>3 DEF Client

(* The part of a command's handler that is the same for all commands.      *)
LEMMA TakeCommandType ==
  ASSUME TypeOK, NEW c, TakeCommand(c)
  PROVE  /\ inbox' \in Seq(Command)
         /\ read' \in {"pending", "badfd", "command"}
         /\ UNCHANGED <<netVars, endVars, stoped, writeFailed, fate>>
  BY DEF TakeCommand, Running, TypeOK

(* handle_read and the operations it dispatches to keep the types.          *)
LEMMA HandleCommandType == TypeOK /\ HandleCommand => TypeOK'
<1> SUFFICES ASSUME TypeOK, HandleCommand PROVE TypeOK'
  OBVIOUS
<1> DEFINE Rest == /\ inbox' \in Seq(Command)
                   /\ read' \in {"pending", "badfd", "command"}
                   /\ UNCHANGED <<netVars, endVars, stoped, writeFailed, fate>>
<1>1. CASE BlankLine
  <2>1. Rest /\ TimerTypes'
    BY <1>1, TakeCommandType, AfterReadType DEF BlankLine, NotDispatched
  <2> QED
    BY <1>1, <2>1 DEF BlankLine, TypeOK, TimerTypes
<1>2. CASE AnswerCommand
  <2>1. Rest /\ TimerTypes'
    BY <1>2, TakeCommandType, AfterReadType DEF AnswerCommand, OperationDone
  <2>2. queue' \in Seq(Message) /\ writes' \in Seq(WriteState)
    BY <1>2, ReplyType, WriteMessageType DEF AnswerCommand, Code
  <2> QED
    BY <1>2, <2>1, <2>2 DEF AnswerCommand, TypeOK, TimerTypes, WriteState
<1>3. CASE PassiveModeOp
  <2>1. Rest /\ TimerTypes'
    BY <1>3, TakeCommandType, AfterReadType DEF PassiveModeOp, OperationDone
  <2>2. queue' \in Seq(Message) /\ writes' \in Seq(WriteState)
    BY <1>3, ReplyType, WriteMessageType DEF PassiveModeOp, Code
  <2>3. phase' \in [OpIds -> Phase]
    BY <1>3, AbortType DEF PassiveModeOp, TypeOK
  <2> QED
    BY <1>3, <2>1, <2>2, <2>3 DEF PassiveModeOp, TypeOK, TimerTypes, WriteState
<1>4. ASSUME NEW c \in Commands, AuthOp(c) PROVE TypeOK'
  <2>1. Rest /\ TimerTypes'
    BY <1>4, TakeCommandType, AfterReadType DEF AuthOp, OperationDone
  <2>2. queue' \in Seq(Message) /\ writes' \in Seq(WriteState)
    BY <1>4, ReplyType, WriteMessageType DEF AuthOp, Code
  <2>3. user' \in BOOLEAN /\ verified' \in BOOLEAN
    BY <1>4 DEF AuthOp, TypeOK
  <2>4. UNCHANGED <<opVars, portVars, dataVars>>
    BY <1>4 DEF AuthOp
  <2> QED
    BY <2>1, <2>2, <2>3, <2>4 DEF TypeOK, TimerTypes, WriteState
<1>5. ASSUME NEW c \in Commands, RefuseCommand(c) PROVE TypeOK'
  <2>1. Rest /\ TimerTypes'
    BY <1>5, TakeCommandType, AfterReadType DEF RefuseCommand, NotDispatched
  <2>2. queue' \in Seq(Message) /\ writes' \in Seq(WriteState)
    BY <1>5, ReplyType, WriteMessageType DEF RefuseCommand, Code
  <2> QED
    BY <1>5, <2>1, <2>2 DEF RefuseCommand, TypeOK, TimerTypes, WriteState
<1>6. ASSUME NEW c \in Commands, CommandThrows(c) PROVE TypeOK'
  <2>1. PICK why \in {"filesystem", "address", "listen"} : EndProcess(why)
    BY <1>6 DEF CommandThrows
  <2>2. UNCHANGED stateVars /\ fate' \in Fate
    BY <2>1 DEF EndProcess, Fate
  <2> QED
    BY <2>2 DEF stateVars, TypeOK
<1>7. ASSUME NEW c \in Commands, RefuseTransfer(c) PROVE TypeOK'
  <2>1. Rest /\ TimerTypes'
    BY <1>7, TakeCommandType, AfterReadType DEF RefuseTransfer, OperationDone
  <2>2. Reply(553) \o Reply(503) \in Seq(Message)
    BY ReplyType DEF Code
  <2>3. queue' \in Seq(Message) /\ writes' \in Seq(WriteState)
    <3>1. \/ write_message(Reply(550)) \/ write_message(Reply(553))
          \/ write_message(Reply(503)) \/ write_message(Reply(553) \o Reply(503))
      BY <1>7 DEF RefuseTransfer
    <3>2. /\ Reply(550) \in Seq(Message) /\ Reply(553) \in Seq(Message)
          /\ Reply(503) \in Seq(Message)
      BY ReplyType DEF Code
    <3> QED
      BY <2>2, <3>1, <3>2, WriteMessageType, ZenonT(60)
  <2>4. phase' \in [OpIds -> Phase]
    BY <1>7, AbortType DEF RefuseTransfer, TypeOK
  <2> QED
    BY <1>7, <2>1, <2>3, <2>4 DEF RefuseTransfer, TypeOK, TimerTypes, WriteState
<1>8. ASSUME NEW c \in Commands, NEW o \in OpIds, StartTransfer(c, o) PROVE TypeOK'
  <2>1. Rest /\ TimerTypes'
    BY <1>8, TakeCommandType, AfterReadType DEF StartTransfer
  <2>2. queue' \in Seq(Message) /\ writes' \in Seq(WriteState)
    <3>1. write_message(<<>>) \/ write_message(Reply(553))
      BY <1>8 DEF StartTransfer
    <3>2. <<>> \in Seq(Message) /\ Reply(553) \in Seq(Message)
      BY ReplyType DEF Code
    <3> QED
      BY <3>1, <3>2, WriteMessageType
  <2>3. opNum' \in 0 .. OpNumModulus - 1
    <3>1. opNum + 1 \in Int
      BY DEF TypeOK
    <3> QED
      BY <1>8, <3>1, CounterRange DEF StartTransfer, Counted
  <2> QED
    BY <1>8, <2>1, <2>2, <2>3 DEF StartTransfer, TypeOK, TimerTypes, WriteState, Phase
<1> QED
  BY <1>1, <1>2, <1>3, <1>4, <1>5, <1>6, <1>7, <1>8 DEF HandleCommand

(* The other ends of do_read and the idle timer keep the types.             *)
LEMMA ReadTimerType ==
  TypeOK /\ (WelcomeWritten \/ WelcomeFailed \/ ReadReady \/ ReadHandler \/ Tick \/ IdleTimer
             \/ KeepaliveDone) => TypeOK'
<1> SUFFICES ASSUME TypeOK PROVE
      WelcomeWritten \/ WelcomeFailed \/ ReadReady \/ ReadHandler \/ Tick \/ IdleTimer
        \/ KeepaliveDone => TypeOK'
  OBVIOUS
<1>1. CASE WelcomeWritten
  BY <1>1 DEF WelcomeWritten, TypeOK
<1>2. CASE WelcomeFailed
  BY <1>2, DestroySessionType DEF WelcomeFailed, TypeOK
<1>3. CASE ReadReady
  BY <1>3 DEF ReadReady, TypeOK
<1>4. CASE ReadEof
  <2>1. CASE DestroySession
    BY <1>4, <2>1, DestroySessionType DEF ReadEof
  <2>2. CASE ~ DestroySession
    <3>1. AbortedWrites \in Seq(WriteState)
      BY AbortedWritesType DEF TypeOK, WriteState
    <3> QED
      BY <1>4, <2>2, <3>1 DEF ReadEof, TypeOK, Fired, WriteState
  <2> QED
    BY <2>1, <2>2
<1>5. CASE ReadError \/ ReadAborted
  BY <1>5, DestroySessionType DEF ReadError, ReadAborted, TypeOK
<1>6. CASE Tick
  BY <1>6 DEF Tick, TypeOK
<1>7. CASE IdleTimer
  <2>1. AbortedWrites \in Seq(WriteState)
    BY AbortedWritesType DEF TypeOK, WriteState
  <2> QED
    BY <1>7, <2>1 DEF IdleTimer, IdleTimerFrame, CloseByTimer, TypeOK, WriteState
<1>8. CASE KeepaliveDone
  BY <1>8, DestroySessionType DEF KeepaliveDone, TypeOK
<1> QED
  BY <1>1, <1>2, <1>3, <1>4, <1>5, <1>6, <1>7, <1>8, HandleCommandType DEF ReadHandler

(* The message whose write has completed is at the head of the queue, so   *)
(* this one needs the discipline of the write loop.                        *)
LEMMA WriteType == TypeOK /\ WriteDiscipline /\ (WriteReady \/ WriteHandler) => TypeOK'
<1> SUFFICES ASSUME TypeOK, WriteDiscipline PROVE WriteReady \/ WriteHandler => TypeOK'
  OBVIOUS
<1>1. CASE WriteReady
  BY <1>1 DEF WriteReady, TypeOK
<1>2. CASE MessageWritten
  <2>1. TimerTypes'
    BY <1>2, RestartType DEF MessageWritten, TypeOK, TimerTypes
  <2>0. queue # <<>> /\ Tail(writes) \in Seq(WriteState)
    BY <1>2 DEF MessageWritten, WriteDiscipline, TypeOK, WriteState
  <2>2. writes' \in Seq(WriteState) /\ queue' \in Seq(Message)
    BY <1>2, <2>0 DEF MessageWritten, StartedWrite, TypeOK, WriteState
  <2>3. phase' \in [OpIds -> Phase]
    BY <1>2 DEF MessageWritten, RunToken, TypeOK, Phase
  <2> QED
    BY <1>2, <2>1, <2>2, <2>3 DEF MessageWritten, TypeOK, TimerTypes, WriteState
<1>3. CASE MessageWrittenFatal
  BY <1>3 DEF MessageWrittenFatal, EndProcess, stateVars, TypeOK, Fate
<1>4. CASE MessageFailed
  <2>1. QueuedOps \in SUBSET OpIds
    <3>1. ASSUME NEW i \in DOMAIN queue PROVE queue[i] \in Message
      BY DEF TypeOK
    <3> QED
      BY <3>1 DEF QueuedOps, Message
  <2>2. CASE QueuedOps = {}
    BY <1>4, <2>2 DEF MessageFailed, DestroyOps, TypeOK
  <2>3. CASE QueuedOps # {}
    <3>1. TimerTypes'
      BY <1>4, <2>3, RestartType DEF MessageFailed
    <3>2. DestroyOps(QueuedOps, phase) /\ phase \in [OpIds -> Phase]
      BY <1>4, <2>3 DEF MessageFailed, TypeOK
    <3>3. DestroyedTypes
      BY <2>1, <3>2, DestroyOpsType
    <3> QED
      BY <1>4, <3>1, <3>3 DEF MessageFailed, TypeOK, TimerTypes, DestroyedTypes
  <2> QED
    BY <2>2, <2>3
<1> QED
  BY <1>1, <1>2, <1>3, <1>4 DEF WriteHandler

(* fetch_passive_connection's handler keeps the types.                      *)
LEMMA AcceptType == TypeOK /\ (AcceptReady \/ AcceptHandler) => TypeOK'
<1> SUFFICES ASSUME TypeOK PROVE AcceptReady \/ AcceptHandler => TypeOK'
  OBVIOUS
<1>1. CASE AcceptReady
  <2>1. Head(accepts) \in OpIds /\ Tail(accepts) \in Seq(OpIds)
    BY <1>1 DEF AcceptReady, TypeOK
  <2>2. phase' \in [OpIds -> Phase]
    BY <1>1, <2>1 DEF AcceptReady, TypeOK, Phase
  <2>3. backlog' \in Nat
    BY <1>1 DEF AcceptReady, TypeOK
  <2> QED
    BY <1>1, <2>1, <2>2, <2>3 DEF AcceptReady, TypeOK
<1>2. ASSUME NEW o \in OpIds, DataConnectionAccepted(o) PROVE TypeOK'
  <2>1. <<[code |-> 150, token |-> o]>> \in Seq(Message)
    BY DEF Message, Code
  <2>2. queue' \in Seq(Message) /\ writes' \in Seq(WriteState)
    BY <1>2, <2>1, WriteMessageType DEF DataConnectionAccepted
  <2>3. AbortWaits(AbortAccepts(phase)) \in [OpIds -> Phase]
    BY AbortType DEF TypeOK
  <2> QED
    BY <1>2, <2>2, <2>3 DEF DataConnectionAccepted, close_acceptor, TypeOK, WriteState, Phase
<1>3. ASSUME NEW o \in OpIds, ListingThrows(o) PROVE TypeOK'
  BY <1>3 DEF ListingThrows, EndProcess, stateVars, TypeOK, Fate
<1>4. ASSUME NEW o \in OpIds, DataConnectionFailed(o) PROVE TypeOK'
  <2>1. TimerTypes'
    BY <1>4, RestartType DEF DataConnectionFailed
  <2>2. AbortAccepts(phase) \in [OpIds -> Phase]
    BY AbortType DEF TypeOK
  <2>3. DestroyedTypes
    BY <1>4, <2>2, DestroyOpsType DEF DataConnectionFailed
  <2> QED
    BY <1>4, <2>1, <2>3
       DEF DataConnectionFailed, close_acceptor, TypeOK, TimerTypes, DestroyedTypes
<1>5. ASSUME NEW o \in OpIds, AcceptAborted(o) PROVE TypeOK'
  <2>1. TimerTypes'
    BY <1>5, RestartType DEF AcceptAborted
  <2>2. phase \in [OpIds -> Phase]
    BY DEF TypeOK
  <2>3. DestroyedTypes
    BY <1>5, <2>2, DestroyOpsType DEF AcceptAborted
  <2> QED
    BY <1>5, <2>1, <2>3 DEF AcceptAborted, TypeOK, TimerTypes, DestroyedTypes
<1>6. ASSUME NEW o \in OpIds, AcceptAbortedThrows(o) PROVE TypeOK'
  BY <1>6 DEF AcceptAbortedThrows, EndProcess, stateVars, TypeOK, Fate
<1> QED
  BY <1>1, <1>2, <1>3, <1>4, <1>5, <1>6 DEF AcceptHandler

(* The handlers of a running transfer keep the types.                       *)
LEMMA TransferType == TypeOK /\ (DataReady \/ TransferHandler) => TypeOK'
<1> SUFFICES ASSUME TypeOK PROVE DataReady \/ TransferHandler => TypeOK'
  OBVIOUS
<1>1. CASE DataReady
  BY <1>1 DEF DataReady, TypeOK, Phase
<1>2. ASSUME NEW o \in OpIds, CompleteTransfer(o) PROVE TypeOK'
  <2>1. TimerTypes'
    BY <1>2, RestartType DEF CompleteTransfer
  <2>2. queue' \in Seq(Message) /\ writes' \in Seq(WriteState)
    BY <1>2, ReplyType, WriteMessageType DEF CompleteTransfer, Code
  <2>3. AbortWaits(phase) \in [OpIds -> Phase]
    BY AbortType DEF TypeOK
  <2>4. opNum' \in 0 .. OpNumModulus - 1
    <3>1. opNum - 1 \in Int
      BY DEF TypeOK
    <3> QED
      BY <1>2, <3>1, CounterRange DEF CompleteTransfer, Discounted
  <2> QED
    BY <1>2, <2>1, <2>2, <2>3, <2>4
       DEF CompleteTransfer, TypeOK, TimerTypes, WriteState, Phase
<1>3. ASSUME NEW o \in OpIds, AbandonTransfer(o) PROVE TypeOK'
  <2>1. TimerTypes'
    BY <1>3, RestartType DEF AbandonTransfer
  <2>2. phase \in [OpIds -> Phase]
    BY DEF TypeOK
  <2>3. DestroyedTypes
    BY <1>3, <2>2, DestroyOpsType DEF AbandonTransfer
  <2> QED
    BY <1>3, <2>1, <2>3 DEF AbandonTransfer, TypeOK, TimerTypes, DestroyedTypes
<1>4. ASSUME NEW o \in OpIds, NEW next \in {"waiting", "limited"}, ContinueTransfer(o, next)
      PROVE  TypeOK'
  BY <1>4 DEF ContinueTransfer, TypeOK, Phase
<1>5. ASSUME NEW why \in Fate, EndProcess(why) PROVE TypeOK'
  BY <1>5 DEF EndProcess, stateVars, TypeOK
<1>6. ASSUME NEW o \in OpIds, ListWritten(o) PROVE TypeOK'
  BY <1>2, <1>6 DEF ListWritten
<1>7. ASSUME NEW o \in OpIds, TransferAborted(o) PROVE TypeOK'
  BY <1>3, <1>7 DEF TransferAborted
<1>8. ASSUME NEW o \in OpIds, DealEvent(o) PROVE TypeOK'
  BY <1>2, <1>3, <1>4, <1>5, <1>8 DEF DealEvent, SendFileEvent, RecvFileEvent, Fate
<1>9. ASSUME NEW o \in OpIds, DealEventFatal(o) PROVE TypeOK'
  BY <1>5, <1>9 DEF DealEventFatal, Fate
<1> QED
  BY <1>1, <1>6, <1>7, <1>8, <1>9 DEF TransferHandler

(* What runs after the session was destroyed keeps the types.               *)
LEMMA OrphanType == TypeOK /\ OrphanRuns => TypeOK'
  BY DEF OrphanRuns, TypeOK, Fate

-----------------------------------------------------------------------------
(* The discipline of the write loop.  It rests on the welcome message being *)
(* written before anything else can happen in the session.                 *)

GreetingQuiet == read = "greeting" => Quiet /\ accepts = <<>> /\ expiry = "passed"

Base == TypeOK /\ WriteDiscipline /\ GreetingQuiet

Disciplined == WriteDiscipline' /\ GreetingQuiet'

(* write_message starts a write exactly when none is outstanding.           *)
LEMMA WriteMessageDiscipline ==
  ASSUME TypeOK, WriteDiscipline, NEW messages \in Seq(Message), write_message(messages)
  PROVE  Len(writes') = IF queue' = <<>> THEN 0 ELSE 1
<1>1. queue \in Seq(Message) /\ writes \in Seq(WriteState)
  BY DEF TypeOK, WriteState
<1>2. queue' = <<>> <=> queue = <<>> /\ messages = <<>>
  BY <1>1 DEF write_message
<1>3. CASE queue = <<>> /\ messages # <<>>
  <2>1. writes' = Append(writes, StartedWrite) /\ StartedWrite \in WriteState
    BY <1>3 DEF write_message, StartedWrite, WriteState
  <2>2. Len(writes) = 0
    BY <1>3 DEF WriteDiscipline
  <2> QED
    BY <1>1, <1>2, <1>3, <2>1, <2>2
<1>4. CASE ~ (queue = <<>> /\ messages # <<>>)
  BY <1>2, <1>4 DEF write_message, WriteDiscipline
<1> QED
  BY <1>3, <1>4

(* A destroyed session has neither messages nor writes.                     *)
LEMMA DestroySessionDiscipline ==
  ASSUME DestroySession
  PROVE  Disciplined
  BY DEF DestroySession, Disciplined, WriteDiscipline, GreetingQuiet

(* The end of the process changes nothing in the session.                   *)
LEMMA EndProcessDiscipline ==
  ASSUME Base, NEW why, EndProcess(why)
  PROVE  Disciplined
  BY DEF EndProcess, stateVars, Base, Disciplined, WriteDiscipline, GreetingQuiet, Quiet, LiveOps

(* A command's handler writes by write_message, or does not write.         *)
LEMMA CommandDiscipline ==
  ASSUME Base, NEW c, TakeCommand(c),
         \/ UNCHANGED <<queue, writes>>
         \/ \E messages \in Seq(Message) : write_message(messages)
  PROVE  Disciplined
<1>1. read' # "greeting"
  BY DEF TakeCommand
<1>2. Len(writes') = IF queue' = <<>> THEN 0 ELSE 1
  BY WriteMessageDiscipline DEF Base, WriteDiscipline
<1> QED
  BY <1>1, <1>2 DEF Disciplined, WriteDiscipline, GreetingQuiet

(* Every command is answered within the discipline of the write loop.       *)
LEMMA HandleCommandDiscipline ==
  ASSUME Base, HandleCommand
  PROVE  Disciplined
<1>1. CASE BlankLine
  BY <1>1, CommandDiscipline DEF BlankLine
<1>2. CASE AnswerCommand
  BY <1>2, CommandDiscipline, ReplyType DEF AnswerCommand, Code
<1>3. CASE PassiveModeOp
  BY <1>3, CommandDiscipline, ReplyType DEF PassiveModeOp, Code
<1>4. ASSUME NEW c \in Commands, AuthOp(c) PROVE Disciplined
  BY <1>4, CommandDiscipline, ReplyType DEF AuthOp, Code
<1>5. ASSUME NEW c \in Commands, RefuseCommand(c) PROVE Disciplined
  BY <1>5, CommandDiscipline, ReplyType DEF RefuseCommand, Code
<1>6. ASSUME NEW c \in Commands, CommandThrows(c) PROVE Disciplined
  BY <1>6, EndProcessDiscipline DEF CommandThrows
<1>7. ASSUME NEW c \in Commands, RefuseTransfer(c) PROVE Disciplined
  <2>1. /\ Reply(550) \in Seq(Message) /\ Reply(553) \in Seq(Message)
        /\ Reply(503) \in Seq(Message)
    BY ReplyType DEF Code
  <2>2. Reply(553) \o Reply(503) \in Seq(Message)
    BY <2>1
  <2> QED
    BY <1>7, <2>1, <2>2, CommandDiscipline, ZenonT(60) DEF RefuseTransfer
<1>8. ASSUME NEW c \in Commands, NEW o \in OpIds, StartTransfer(c, o) PROVE Disciplined
  <2>1. <<>> \in Seq(Message) /\ Reply(553) \in Seq(Message)
    BY ReplyType DEF Code
  <2> QED
    BY <1>8, <2>1, CommandDiscipline, ZenonT(30) DEF StartTransfer
<1> QED
  BY <1>1, <1>2, <1>3, <1>4, <1>5, <1>6, <1>7, <1>8 DEF HandleCommand

(* Handlers that have no business with the messages.                       *)
LEMMA OtherDiscipline ==
  ASSUME Base,
         \/ Client \/ WelcomeWritten \/ ReadReady \/ Tick \/ IdleTimer \/ AcceptReady
         \/ DataReady \/ OrphanRuns
  PROVE  Disciplined
<1> USE DEF Base, Disciplined, WriteDiscipline, GreetingQuiet, Quiet, LiveOps
<1>1. CASE Client
  BY <1>1 DEF Client, ClientSend, ClientConnect, ClientClose
<1>2. CASE WelcomeWritten
  BY <1>2 DEF WelcomeWritten
<1>3. CASE ReadReady
  BY <1>3 DEF ReadReady
<1>4. CASE Tick
  BY <1>4 DEF Tick
<1>5. CASE IdleTimer
  <2>1. Len(AbortedWrites) = Len(writes)
    BY AbortedWritesType DEF TypeOK, WriteState
  <2> QED
    BY <1>5, <2>1 DEF IdleTimer, IdleTimerFrame, CloseByTimer
<1>6. CASE AcceptReady
  BY <1>6 DEF AcceptReady
<1>7. CASE DataReady
  BY <1>7 DEF DataReady
<1>8. CASE OrphanRuns
  BY <1>8 DEF OrphanRuns
<1> QED
  BY <1>1, <1>2, <1>3, <1>4, <1>5, <1>6, <1>7, <1>8

(* So do the ends of the read loop and of the session.                      *)
LEMMA EndDiscipline ==
  ASSUME Base, WelcomeFailed \/ ReadEof \/ ReadError \/ ReadAborted \/ KeepaliveDone
  PROVE  Disciplined
<1>1. CASE DestroySession
  BY <1>1, DestroySessionDiscipline
<1>2. CASE ~ DestroySession
  <2>1. Len(AbortedWrites) = Len(writes)
    BY AbortedWritesType DEF Base, TypeOK, WriteState
  <2> QED
    BY <1>2, <2>1 DEF WelcomeFailed, ReadEof, ReadError, ReadAborted, KeepaliveDone, Base,
       Disciplined, WriteDiscipline, GreetingQuiet
<1> QED
  BY <1>1, <1>2

(* do_write_message's handler goes on with the next message or stops.       *)
LEMMA WriteLoopDiscipline ==
  ASSUME Base, WriteReady \/ WriteHandler
  PROVE  Disciplined
<1>1. read # "greeting"
  BY DEF Base, GreetingQuiet, Quiet, WriteDiscipline, WriteReady, WriteHandler, MessageWritten,
     MessageWrittenFatal, MessageFailed, TypeOK
<1>2. CASE WriteReady
  BY <1>1, <1>2 DEF WriteReady, Base, TypeOK, Disciplined, WriteDiscipline, GreetingQuiet
<1>3. CASE MessageWritten
  <2>1. writes \in Seq(WriteState) /\ StartedWrite \in WriteState
    BY DEF Base, TypeOK, WriteState, StartedWrite
  <2>2. Len(Tail(writes)) = 0 /\ Tail(writes) \in Seq(WriteState)
    <3>1. Len(writes) = 1 /\ writes # <<>>
      BY <1>3, <2>1 DEF MessageWritten, Base, WriteDiscipline
    <3> QED
      BY <2>1, <3>1
  <2>3. Len(writes') = IF queue' = <<>> THEN 0 ELSE 1
    BY <1>3, <2>1, <2>2 DEF MessageWritten
  <2>4. read' # "greeting"
    BY <1>1, <1>3 DEF MessageWritten
  <2> QED
    BY <2>3, <2>4 DEF Disciplined, WriteDiscipline, GreetingQuiet
<1>4. CASE MessageWrittenFatal
  BY <1>4, EndProcessDiscipline DEF MessageWrittenFatal
<1>5. CASE MessageFailed
  BY <1>1, <1>5 DEF MessageFailed, Base, TypeOK, Disciplined, WriteDiscipline, GreetingQuiet
<1> QED
  BY <1>2, <1>3, <1>4, <1>5 DEF WriteHandler

(* While an operation is alive the welcome message is behind.              *)
LEMMA OperationDiscipline ==
  ASSUME Base, NEW o \in OpIds, phase[o] # "none", UNCHANGED read,
         \/ UNCHANGED <<queue, writes>>
         \/ \E messages \in Seq(Message) : write_message(messages)
  PROVE  Disciplined
<1>1. read' # "greeting"
  BY DEF Base, GreetingQuiet, Quiet, LiveOps
<1>2. Len(writes') = IF queue' = <<>> THEN 0 ELSE 1
  BY WriteMessageDiscipline DEF Base, WriteDiscipline
<1> QED
  BY <1>1, <1>2 DEF Disciplined, WriteDiscipline, GreetingQuiet

(* The 150 of an accepted data connection is queued by write_message.       *)
LEMMA AcceptDiscipline ==
  ASSUME Base, AcceptHandler
  PROVE  Disciplined
<1>1. ASSUME NEW o \in OpIds, DataConnectionAccepted(o) PROVE Disciplined
  <2>1. <<[code |-> 150, token |-> o]>> \in Seq(Message)
    BY DEF Message, Code
  <2> QED
    BY <1>1, <2>1, OperationDiscipline DEF DataConnectionAccepted
<1>2. ASSUME NEW o \in OpIds, ListingThrows(o) \/ AcceptAbortedThrows(o) PROVE Disciplined
  BY <1>2, EndProcessDiscipline DEF ListingThrows, AcceptAbortedThrows
<1>3. ASSUME NEW o \in OpIds, DataConnectionFailed(o) \/ AcceptAborted(o) PROVE Disciplined
  BY <1>3, OperationDiscipline DEF DataConnectionFailed, AcceptAborted
<1> QED
  BY <1>1, <1>2, <1>3 DEF AcceptHandler

(* The 226 of a finished transfer is queued by write_message.               *)
LEMMA TransferDiscipline ==
  ASSUME Base, TransferHandler
  PROVE  Disciplined
<1>1. ASSUME NEW o \in OpIds, phase[o] # "none", CompleteTransfer(o) PROVE Disciplined
  BY <1>1, OperationDiscipline, ReplyType DEF CompleteTransfer, Code
<1>2. ASSUME NEW o \in OpIds, phase[o] # "none", AbandonTransfer(o) PROVE Disciplined
  BY <1>2, OperationDiscipline DEF AbandonTransfer
<1>3. ASSUME NEW o \in OpIds, phase[o] # "none", NEW next, ContinueTransfer(o, next)
      PROVE  Disciplined
  BY <1>3, OperationDiscipline DEF ContinueTransfer
<1>4. ASSUME NEW why, EndProcess(why) PROVE Disciplined
  BY <1>4, EndProcessDiscipline
<1>5. ASSUME NEW o \in OpIds, ListWritten(o) \/ TransferAborted(o) PROVE Disciplined
  BY <1>1, <1>2, <1>5 DEF ListWritten, TransferAborted
<1>6. ASSUME NEW o \in OpIds, DealEvent(o) PROVE Disciplined
  BY <1>1, <1>2, <1>3, <1>4, <1>6 DEF DealEvent, SendFileEvent, RecvFileEvent
<1>7. ASSUME NEW o \in OpIds, DealEventFatal(o) PROVE Disciplined
  BY <1>4, <1>7 DEF DealEventFatal
<1> QED
  BY <1>5, <1>6, <1>7 DEF TransferHandler

(* The types and the discipline of the write loop, proved together.         *)
THEOREM BaseCorrect == Spec => []Base
<1>1. Init => Base
  <2> SUFFICES ASSUME Init PROVE Base
    OBVIOUS
  <2>1. opNum \in 0 .. OpNumModulus - 1
    BY DEF Init
  <2>2. phase \in [OpIds -> Phase] /\ kind \in [OpIds -> TransferCommand \cup {"none"}]
    BY DEF Init, Phase
  <2>3. stoped \in BOOLEAN /\ user \in BOOLEAN /\ verified \in BOOLEAN /\ writeFailed \in BOOLEAN
    BY DEF Init
  <2>4. inbox \in Seq(Command) /\ queue \in Seq(Message) /\ accepts \in Seq(OpIds)
    BY DEF Init
  <2>5. writes \in Seq({"pending", "ok", "error"})
    BY DEF Init
  <2>6. TypeOK
    BY <2>1, <2>2, <2>3, <2>4, <2>5 DEF Init, TypeOK, Fate
  <2> QED
    BY <2>6 DEF Init, Base, WriteDiscipline, GreetingQuiet, Quiet, LiveOps
<1>2. Base /\ [Next]_vars => Base'
  <2>1. Base /\ UNCHANGED vars => Base'
    BY DEF vars, stateVars, Base, TypeOK, WriteDiscipline, GreetingQuiet, Quiet, LiveOps
  <2>2. Base /\ Next => TypeOK'
    BY ClientType, ReadTimerType, WriteType, AcceptType, TransferType, OrphanType
       DEF Next, Server, Base
  <2>3. Base /\ Next => Disciplined
    BY HandleCommandDiscipline, OtherDiscipline, EndDiscipline, WriteLoopDiscipline,
       AcceptDiscipline, TransferDiscipline DEF Next, Server, ReadHandler
  <2> QED
    BY <2>1, <2>2, <2>3 DEF Base, Disciplined
<1> QED
  BY <1>1, <1>2, PTL DEF Spec

(* Type correctness: every reachable state of a session is well formed; in *)
(* particular active_op_num_ stays within its width and the queue holds    *)
(* messages whose tokens are operations.                                   *)
THEOREM TypeCorrect == Spec => []TypeOK
  BY BaseCorrect, PTL DEF Base

(* do_write_message keeps exactly one write outstanding while messages are *)
(* queued and none otherwise, whatever handlers run in between.            *)
THEOREM WriteDisciplineCorrect == Spec => []WriteDiscipline
  BY BaseCorrect, PTL DEF Base

-----------------------------------------------------------------------------
(* Who holds the live operations.                                          *)

Held == TokensHold /\ AcceptsHold

SamePhase(p) == \A o \in OpIds : phase'[o] = p <=> phase[o] = p

(* Replies of no operation are queued, and nobody starts or stops waiting   *)
(* for its 150 to be written.                                              *)
LEMMA TokensStay ==
  ASSUME TypeOK, TokensHold, SamePhase("replying"), NEW messages \in Seq(Message),
         \A i \in DOMAIN messages : messages[i].token = NoOp,
         queue' = queue \o messages
  PROVE  TokensHold'
<1>1. queue \in Seq(Message)
  BY DEF TypeOK
<1>2. /\ DOMAIN queue' = 1 .. Len(queue) + Len(messages)
      /\ \A i \in 1 .. Len(queue) : queue'[i] = queue[i]
      /\ \A i \in DOMAIN queue' : i \notin 1 .. Len(queue) => queue'[i].token = NoOp
  BY <1>1
<1>3. ASSUME NEW o \in OpIds
      PROVE  (\E i \in DOMAIN queue' : queue'[i].token = o)
               <=> (\E i \in DOMAIN queue : queue[i].token = o)
  <2>1. o # NoOp /\ DOMAIN queue = 1 .. Len(queue)
    BY <1>1
  <2>2. ASSUME NEW i \in DOMAIN queue', queue'[i].token = o
        PROVE  \E k \in DOMAIN queue : queue[k].token = o
    BY <1>2, <2>1, <2>2
  <2>3. ASSUME NEW i \in DOMAIN queue, queue[i].token = o
        PROVE  \E k \in DOMAIN queue' : queue'[k].token = o
    <3>1. i \in DOMAIN queue' /\ queue'[i] = queue[i]
      BY <1>1, <1>2, <2>1
    <3> QED
      BY <2>3, <3>1
  <2> QED
    BY <2>2, <2>3
<1>4. \A i, j \in DOMAIN queue' : queue'[i].token = queue'[j].token /\ queue'[i].token # NoOp => i = j
  BY <1>1, <1>2, SMTT(30) DEF TokensHold
<1> QED
  BY <1>3, <1>4 DEF TokensHold, SamePhase

(* Who waits for a connection depends on the phases and the accepts alone.  *)
LEMMA AcceptsStay ==
  ASSUME AcceptsHold, SamePhase("accepting"), UNCHANGED accepts
  PROVE  AcceptsHold'
  BY DEF AcceptsHold, SamePhase

(* close_acceptor leaves no accept, and nobody that waits for one.          *)
LEMMA AcceptsGone ==
  ASSUME accepts' = <<>>, \A o \in OpIds : phase'[o] # "accepting"
  PROVE  AcceptsHold'
  BY DEF AcceptsHold

(* An empty queue holds no operation.                                       *)
LEMMA NothingQueued ==
  ASSUME TypeOK, TokensHold, SamePhase("replying"), UNCHANGED queue
  PROVE  TokensHold'
  BY DEF TokensHold, SamePhase

(* write_message with a reply to a command, whose token is empty.          *)
LEMMA TokensOfReply ==
  ASSUME TypeOK, TokensHold, SamePhase("replying"), NEW code \in Code,
         write_message(Reply(code))
  PROVE  TokensHold'
<1>1. /\ Reply(code) \in Seq(Message)
      /\ \A i \in DOMAIN Reply(code) : Reply(code)[i].token = NoOp
  BY ReplyType DEF Reply
<1> QED
  BY <1>1, TokensStay DEF write_message

(* The destructors of operations that neither wait for an accept nor for    *)
(* their 150 leave the others held as they were.                           *)
LEMMA DestroyOpsHeld ==
  ASSUME TypeOK, NEW gone \in SUBSET OpIds, NEW ph \in [OpIds -> Phase], DestroyOps(gone, ph),
         NEW p \in {"replying", "accepting"},
         \A o \in gone : phase[o] # p,
         \A o \in OpIds : ph[o] = p <=> phase[o] = p
  PROVE  SamePhase(p)
  BY DEF SamePhase, DestroyOps, AbortWaits

(* A destroyed session holds no operation.                                  *)
LEMMA DestroySessionHeld ==
  ASSUME DestroySession
  PROVE  Held'
  BY DEF DestroySession, close_acceptor, Held, TokensHold, AcceptsHold

(* A step that leaves phases, messages and accepts alone changes no hold.   *)
LEMMA NothingHeldChanges ==
  ASSUME Held, UNCHANGED <<phase, queue, accepts>>
  PROVE  Held'
  BY DEF Held, TokensHold, AcceptsHold

(* The end of the process changes no hold.                                  *)
LEMMA EndProcessHeld ==
  ASSUME Held, NEW why, EndProcess(why)
  PROVE  Held'
  BY NothingHeldChanges DEF EndProcess, stateVars

(* An operation that outlives its command is handed to async_accept.        *)
LEMMA HandleCommandHeld ==
  ASSUME Base, Held, HandleCommand
  PROVE  Held'
<1> USE DEF Base, Held
<1>1. CASE BlankLine
  BY <1>1, NothingHeldChanges DEF BlankLine
<1>2. CASE AnswerCommand
  BY <1>2, TokensOfReply, AcceptsStay DEF AnswerCommand, SamePhase, Code
<1>3. CASE PassiveModeOp
  <2>1. SamePhase("replying") /\ \A o \in OpIds : phase'[o] # "accepting"
    BY <1>3 DEF PassiveModeOp, AbortAccepts, SamePhase
  <2> QED
    BY <1>3, <2>1, TokensOfReply, AcceptsGone DEF PassiveModeOp, Code
<1>4. ASSUME NEW c \in Commands, AuthOp(c) PROVE Held'
  BY <1>4, TokensOfReply, AcceptsStay DEF AuthOp, SamePhase, Code
<1>5. ASSUME NEW c \in Commands, RefuseCommand(c) PROVE Held'
  BY <1>5, TokensOfReply, AcceptsStay DEF RefuseCommand, SamePhase, Code
<1>6. ASSUME NEW c \in Commands, CommandThrows(c) PROVE Held'
  BY <1>6, EndProcessHeld DEF CommandThrows
<1>7. ASSUME NEW c \in Commands, RefuseTransfer(c) PROVE Held'
  <2>1. SamePhase("replying") /\ SamePhase("accepting")
    BY <1>7 DEF RefuseTransfer, AbortWaits, SamePhase
  <2> DEFINE both == Reply(553) \o Reply(503)
  <2>2. both \in Seq(Message) /\ \A i \in DOMAIN both : both[i].token = NoOp
    BY DEF Reply, Message, Code
  <2>3. AcceptsHold'
    BY <1>7, <2>1, AcceptsStay DEF RefuseTransfer
  <2>4. CASE write_message(Reply(553) \o Reply(503))
    <3>1. queue' = queue \o both
      BY <2>4 DEF write_message
    <3> HIDE DEF both
    <3>2. TokensHold'
      BY <2>1, <2>2, <3>1, TokensStay
    <3> QED
      BY <2>3, <3>2
  <2>5. ASSUME NEW code \in Code, write_message(Reply(code)) PROVE Held'
    BY <2>1, <2>3, <2>5, TokensOfReply
  <2>6. \/ write_message(Reply(550)) \/ write_message(Reply(553))
        \/ write_message(Reply(503)) \/ write_message(Reply(553) \o Reply(503))
    BY <1>7 DEF RefuseTransfer
  <2>7. 550 \in Code /\ 553 \in Code /\ 503 \in Code
    BY DEF Code
  <2> QED
    BY <2>4, <2>5, <2>6, <2>7
<1>8. ASSUME NEW c \in Commands, NEW o \in OpIds, StartTransfer(c, o) PROVE Held'
  <2>1. phase \in [OpIds -> Phase] /\ accepts \in Seq(OpIds) /\ queue \in Seq(Message)
    BY DEF TypeOK
  <2>2. SamePhase("replying")
    BY <1>8, <2>1 DEF StartTransfer, SamePhase
  <2>3. TokensHold'
    <3>1. CASE write_message(<<>>)
      <4>1. queue' = queue
        BY <2>1, <3>1 DEF write_message
      <4> QED
        BY <2>2, <4>1, NothingQueued
    <3> QED
      BY <1>8, <2>2, <3>1, TokensOfReply DEF StartTransfer, Code
  <2>4. AcceptsHold'
    <3>1. /\ accepts' = Append(accepts, o) /\ phase[o] = "none"
          /\ phase' = [phase EXCEPT ![o] = "accepting"]
      BY <1>8 DEF StartTransfer
    <3>2. /\ DOMAIN accepts' = 1 .. Len(accepts) + 1
          /\ \A i \in DOMAIN accepts : accepts'[i] = accepts[i] /\ accepts[i] \in OpIds
          /\ accepts'[Len(accepts) + 1] = o
          /\ DOMAIN accepts = 1 .. Len(accepts)
      BY <2>1, <3>1
    <3>3. \A i \in DOMAIN accepts : accepts[i] # o
      BY <2>1, <3>1 DEF AcceptsHold
    <3>4. \A i, j \in DOMAIN accepts' : accepts'[i] = accepts'[j] => i = j
      BY <2>1, <3>2, <3>3 DEF AcceptsHold
    <3>5. ASSUME NEW q \in OpIds
          PROVE  phase'[q] = "accepting" <=> \E i \in DOMAIN accepts' : accepts'[i] = q
      <4>1. CASE q = o
        BY <2>1, <3>1, <3>2, <4>1
      <4>2. CASE q # o
        <5>1. phase'[q] = phase[q]
          BY <2>1, <3>1, <4>2
        <5>2. (\E i \in DOMAIN accepts' : accepts'[i] = q)
                <=> (\E i \in DOMAIN accepts : accepts[i] = q)
          BY <2>1, <3>2, <4>2
        <5> QED
          BY <5>1, <5>2 DEF AcceptsHold
      <4> QED
        BY <4>1, <4>2
    <3> QED
      BY <3>4, <3>5 DEF AcceptsHold
  <2> QED
    BY <2>3, <2>4
<1> QED
  BY <1>1, <1>2, <1>3, <1>4, <1>5, <1>6, <1>7, <1>8 DEF HandleCommand

(* Handlers that leave the messages, the accepts and the operations alone.  *)
LEMMA OtherHeld ==
  ASSUME Base, Held,
         \/ Client \/ WelcomeWritten \/ ReadReady \/ Tick \/ IdleTimer \/ WriteReady
         \/ OrphanRuns
  PROVE  Held'
<1>1. UNCHANGED <<phase, queue, accepts>>
  BY DEF Client, ClientSend, ClientConnect, ClientClose, WelcomeWritten, ReadReady, Tick,
     IdleTimer, IdleTimerFrame, WriteReady, OrphanRuns
<1> QED
  BY <1>1, NothingHeldChanges

(* The ends of the read loop and of the session keep the holds.             *)
LEMMA EndHeld ==
  ASSUME Base, Held, WelcomeFailed \/ ReadEof \/ ReadError \/ ReadAborted \/ KeepaliveDone
  PROVE  Held'
<1>1. DestroySession \/ UNCHANGED <<phase, queue, accepts>>
  BY DEF WelcomeFailed, ReadEof, ReadError, ReadAborted, KeepaliveDone
<1> QED
  BY <1>1, DestroySessionHeld, NothingHeldChanges

(* The write loop takes a message from the queue and with it the operation  *)
(* its token holds: to its transfer, or to its end.                        *)
LEMMA MessageWrittenHeld ==
  ASSUME Base, Held, MessageWritten
  PROVE  Held'
<1> DEFINE token == Head(queue).token
<1>1. /\ phase \in [OpIds -> Phase] /\ queue \in Seq(Message) /\ queue # <<>>
      /\ queue' = Tail(queue) /\ UNCHANGED accepts
  BY DEF Base, TypeOK, WriteDiscipline, MessageWritten
<1>2. /\ \A i \in DOMAIN queue' : i + 1 \in DOMAIN queue /\ queue'[i] = queue[i + 1]
      /\ \A i \in DOMAIN queue : i # 1 => i - 1 \in DOMAIN queue' /\ queue'[i - 1] = queue[i]
      /\ 1 \in DOMAIN queue /\ Head(queue) = queue[1]
      /\ DOMAIN queue \subseteq Nat /\ DOMAIN queue' \subseteq Nat \ {0}
  BY <1>1
<1>3. \A i, j \in DOMAIN queue' : queue'[i].token = queue'[j].token /\ queue'[i].token # NoOp => i = j
  BY <1>2 DEF Held, TokensHold
<1>4. CASE token = NoOp
  <2>1. UNCHANGED phase
    BY <1>4 DEF MessageWritten, RunToken
  <2>2. ASSUME NEW o \in OpIds
        PROVE  (\E i \in DOMAIN queue' : queue'[i].token = o)
                 <=> (\E i \in DOMAIN queue : queue[i].token = o)
    BY <1>2, <1>4
  <2> QED
    BY <1>1, <1>3, <2>1, <2>2 DEF Held, TokensHold, AcceptsHold
<1>5. CASE token # NoOp
  <2>1. token \in OpIds
    <3>1. queue[1] \in Message
      BY <1>1, <1>2
    <3> QED
      BY <1>2, <1>5, <3>1 DEF Message
  <2>2. phase[token] = "replying" /\ \A i \in DOMAIN queue' : queue'[i].token # token
    BY <1>2, <1>5, <2>1 DEF Held, TokensHold
  <2>3. /\ phase'[token] \in {"waiting", "failed"}
        /\ \A o \in OpIds : o # token => phase'[o] = phase[o]
    BY <1>1, <1>5, <2>1 DEF MessageWritten, RunToken
  <2>4. ASSUME NEW o \in OpIds
        PROVE  phase'[o] = "replying" <=> \E i \in DOMAIN queue' : queue'[i].token = o
    <3>1. CASE o = token
      BY <2>2, <2>3, <3>1
    <3>2. CASE o # token
      <4>1. (\E i \in DOMAIN queue' : queue'[i].token = o)
              <=> (\E i \in DOMAIN queue : queue[i].token = o)
        BY <1>2, <3>2
      <4> QED
        BY <2>3, <3>2, <4>1 DEF Held, TokensHold
    <3> QED
      BY <3>1, <3>2
  <2>5. SamePhase("accepting")
    BY <2>2, <2>3 DEF SamePhase
  <2>6. AcceptsHold'
    BY <1>1, <2>5, AcceptsStay DEF Held
  <2> QED
    BY <1>3, <2>4, <2>6 DEF Held, TokensHold
<1> QED
  BY <1>4, <1>5

(* Dropping the queue destroys exactly the operations its tokens hold.      *)
LEMMA MessageFailedHeld ==
  ASSUME Base, Held, MessageFailed
  PROVE  Held'
<1>1. /\ phase \in [OpIds -> Phase] /\ queue \in Seq(Message)
      /\ queue' = <<>> /\ UNCHANGED accepts
  BY DEF Base, TypeOK, MessageFailed
<1>2. \A o \in OpIds : o \in QueuedOps <=> phase[o] = "replying"
  BY DEF QueuedOps, Held, TokensHold
<1>3. \A o \in OpIds : phase'[o] # "replying" /\ (phase'[o] = "accepting" <=> phase[o] = "accepting")
  BY <1>1, <1>2 DEF MessageFailed, DestroyOps, AbortWaits
<1>4. AcceptsHold'
  BY <1>1, <1>3, AcceptsStay DEF Held, SamePhase
<1> QED
  BY <1>1, <1>3, <1>4 DEF Held, TokensHold

(* A completed accept no longer holds its operation; the others stay held.  *)
LEMMA AcceptReadyHeld ==
  ASSUME Base, Held, AcceptReady
  PROVE  Held'
<1> DEFINE first == Head(accepts)
<1>1. /\ phase \in [OpIds -> Phase] /\ accepts \in Seq(OpIds) /\ accepts # <<>>
      /\ first \in OpIds
      /\ accepts' = Tail(accepts) /\ UNCHANGED queue
      /\ phase'[first] \in {"accepted", "acceptfailed"}
      /\ \A o \in OpIds : o # first => phase'[o] = phase[o]
  BY DEF Base, TypeOK, AcceptReady
<1>2. /\ \A i \in DOMAIN accepts' : i + 1 \in DOMAIN accepts /\ accepts'[i] = accepts[i + 1]
      /\ \A i \in DOMAIN accepts : i # 1 => i - 1 \in DOMAIN accepts' /\ accepts'[i - 1] = accepts[i]
      /\ 1 \in DOMAIN accepts /\ first = accepts[1]
      /\ DOMAIN accepts \subseteq Nat /\ DOMAIN accepts' \subseteq Nat \ {0}
  BY <1>1
<1>3. phase[first] = "accepting" /\ \A i \in DOMAIN accepts' : accepts'[i] # first
  BY <1>1, <1>2 DEF Held, AcceptsHold
<1>4. \A i, j \in DOMAIN accepts' : accepts'[i] = accepts'[j] => i = j
  BY <1>2 DEF Held, AcceptsHold
<1>5. ASSUME NEW o \in OpIds
      PROVE  phase'[o] = "accepting" <=> \E i \in DOMAIN accepts' : accepts'[i] = o
  <2>1. CASE o = first
    BY <1>1, <1>3, <2>1
  <2>2. CASE o # first
    <3>1. (\E i \in DOMAIN accepts' : accepts'[i] = o)
            <=> (\E i \in DOMAIN accepts : accepts[i] = o)
      BY <1>2, <2>2
    <3> QED
      BY <1>1, <2>2, <3>1 DEF Held, AcceptsHold
  <2> QED
    BY <2>1, <2>2
<1>6. TokensHold'
  <2>1. SamePhase("replying")
    BY <1>1, <1>3 DEF SamePhase
  <2> QED
    BY <1>1, <2>1, NothingQueued DEF Base, Held
<1> QED
  BY <1>4, <1>5, <1>6 DEF Held, AcceptsHold

(* An accepted operation passes from its accept to the token of its 150.    *)
LEMMA AcceptedHeld ==
  ASSUME Base, Held, NEW o \in OpIds, DataConnectionAccepted(o)
  PROVE  Held'
<1>1. /\ phase \in [OpIds -> Phase] /\ queue \in Seq(Message)
      /\ phase[o] = "accepted" /\ phase'[o] = "replying"
      /\ \A q \in OpIds : q # o => phase'[q] # "accepting"
      /\ \A q \in OpIds : q # o => (phase'[q] = "replying" <=> phase[q] = "replying")
      /\ accepts' = <<>>
      /\ queue' = Append(queue, [code |-> 150, token |-> o])
  <2>1. phase \in [OpIds -> Phase] /\ queue \in Seq(Message) /\ phase[o] = "accepted"
    BY DEF Base, TypeOK, DataConnectionAccepted
  <2>2. phase' = [AbortWaits(AbortAccepts(phase)) EXCEPT ![o] = "replying"]
    BY DEF DataConnectionAccepted
  <2>3. /\ phase'[o] = "replying"
        /\ \A q \in OpIds : q # o => phase'[q] # "accepting"
        /\ \A q \in OpIds : q # o => (phase'[q] = "replying" <=> phase[q] = "replying")
    BY <2>1, <2>2 DEF AbortWaits, AbortAccepts
  <2>4. accepts' = <<>> /\ queue' = Append(queue, [code |-> 150, token |-> o])
    BY <2>1 DEF DataConnectionAccepted, close_acceptor, write_message
  <2> QED
    BY <2>1, <2>3, <2>4
<1>2. /\ DOMAIN queue' = 1 .. Len(queue) + 1 /\ DOMAIN queue = 1 .. Len(queue)
      /\ \A i \in DOMAIN queue : queue'[i] = queue[i]
      /\ queue'[Len(queue) + 1].token = o
  BY <1>1
<1>3. \A i \in DOMAIN queue : queue[i].token # o
  BY <1>1 DEF Held, TokensHold
<1>4. \A i, j \in DOMAIN queue' : queue'[i].token = queue'[j].token /\ queue'[i].token # NoOp => i = j
  BY <1>1, <1>2, <1>3 DEF Held, TokensHold
<1>5. ASSUME NEW q \in OpIds
      PROVE  phase'[q] = "replying" <=> \E i \in DOMAIN queue' : queue'[i].token = q
  <2>1. CASE q = o
    BY <1>1, <1>2, <2>1
  <2>2. CASE q # o
    <3>1. (\E i \in DOMAIN queue' : queue'[i].token = q)
            <=> (\E i \in DOMAIN queue : queue[i].token = q)
      BY <1>1, <1>2, <2>2
    <3> QED
      BY <1>1, <2>2, <3>1 DEF Held, TokensHold
  <2> QED
    BY <2>1, <2>2
<1>6. AcceptsHold'
  <2>1. \A q \in OpIds : phase'[q] # "accepting"
    BY <1>1
  <2> QED
    BY <1>1, <2>1, AcceptsGone
<1> QED
  BY <1>4, <1>5, <1>6 DEF Held, TokensHold

(* So every outcome of an accept keeps the holds.                           *)
LEMMA AcceptHeld ==
  ASSUME Base, Held, AcceptHandler
  PROVE  Held'
<1>1. ASSUME NEW o \in OpIds, ListingThrows(o) \/ AcceptAbortedThrows(o) PROVE Held'
  BY <1>1, EndProcessHeld DEF ListingThrows, AcceptAbortedThrows
<1>2. ASSUME NEW o \in OpIds, DataConnectionFailed(o) PROVE Held'
  <2>1. SamePhase("replying") /\ \A q \in OpIds : phase'[q] # "accepting"
    BY <1>2 DEF DataConnectionFailed, DestroyOps, AbortWaits, AbortAccepts, SamePhase
  <2> QED
    BY <1>2, <2>1, NothingQueued, AcceptsGone DEF DataConnectionFailed, close_acceptor, Base, Held
<1>3. ASSUME NEW o \in OpIds, AcceptAborted(o) PROVE Held'
  <2>1. SamePhase("replying") /\ SamePhase("accepting")
    BY <1>3 DEF AcceptAborted, DestroyOps, AbortWaits, SamePhase
  <2> QED
    BY <1>3, <2>1, NothingQueued, AcceptsStay DEF AcceptAborted, Base, Held
<1> QED
  BY <1>1, <1>2, <1>3, AcceptedHeld DEF AcceptHandler

(* An operation that transfers is held neither by a token nor by an accept. *)
LEMMA TransferHeld ==
  ASSUME Base, Held, DataReady \/ TransferHandler
  PROVE  Held'
<1> DEFINE Transferring(o) == phase[o] \in {"waiting", "ready", "failed", "limited"}
<1>0. phase \in [OpIds -> Phase]
  BY DEF Base, TypeOK
<1>1. ASSUME NEW o \in OpIds, Transferring(o), CompleteTransfer(o) PROVE Held'
  <2>1. SamePhase("replying") /\ SamePhase("accepting")
    BY <1>0, <1>1 DEF CompleteTransfer, AbortWaits, SamePhase
  <2> QED
    BY <1>1, <2>1, TokensOfReply, AcceptsStay DEF CompleteTransfer, Code, Base, Held
<1>2. ASSUME NEW o \in OpIds, Transferring(o), AbandonTransfer(o) PROVE Held'
  <2>1. SamePhase("replying") /\ SamePhase("accepting")
    BY <1>2 DEF AbandonTransfer, DestroyOps, AbortWaits, SamePhase
  <2> QED
    BY <1>2, <2>1, NothingQueued, AcceptsStay DEF AbandonTransfer, Base, Held
<1>3. ASSUME NEW o \in OpIds, Transferring(o), NEW next \in {"waiting", "limited"},
             ContinueTransfer(o, next)
      PROVE  Held'
  <2>1. SamePhase("replying") /\ SamePhase("accepting")
    BY <1>0, <1>3 DEF ContinueTransfer, SamePhase
  <2> QED
    BY <1>3, <2>1, NothingQueued, AcceptsStay DEF ContinueTransfer, Base, Held
<1>4. ASSUME NEW why, EndProcess(why) PROVE Held'
  BY <1>4, EndProcessHeld
<1>5. CASE DataReady
  <2>1. SamePhase("replying") /\ SamePhase("accepting")
    BY <1>0, <1>5 DEF DataReady, SamePhase
  <2> QED
    BY <1>5, <2>1, NothingQueued, AcceptsStay DEF DataReady, Base, Held
<1>6. ASSUME NEW o \in OpIds, ListWritten(o) \/ TransferAborted(o) PROVE Held'
  BY <1>1, <1>2, <1>6 DEF ListWritten, TransferAborted
<1>7. ASSUME NEW o \in OpIds, DealEvent(o) PROVE Held'
  BY <1>1, <1>2, <1>3, <1>4, <1>7 DEF DealEvent, SendFileEvent, RecvFileEvent
<1>8. ASSUME NEW o \in OpIds, DealEventFatal(o) PROVE Held'
  BY <1>4, <1>8 DEF DealEventFatal
<1> QED
  BY <1>5, <1>6, <1>7, <1>8 DEF TransferHandler

(* Every step keeps every live operation held by exactly one thing.         *)
LEMMA HeldStep == Base /\ Held /\ [Next]_vars => Held'
<1> SUFFICES ASSUME Base, Held, [Next]_vars PROVE Held'
  OBVIOUS
<1>1. CASE UNCHANGED vars
  BY <1>1, NothingHeldChanges DEF vars, stateVars
<1>2. CASE WriteHandler
  BY <1>2, MessageWrittenHeld, MessageFailedHeld, EndProcessHeld
     DEF WriteHandler, MessageWrittenFatal
<1> QED
  BY <1>1, <1>2, HandleCommandHeld, OtherHeld, EndHeld, AcceptReadyHeld, AcceptHeld, TransferHeld
     DEF Next, Server, ReadHandler

(* Tokens and outstanding accepts hold exactly the operations they are for. *)
THEOREM HeldCorrect == Spec => []Held
<1>1. Init => Held
  BY DEF Init, Held, TokensHold, AcceptsHold
<1> QED
  BY <1>1, BaseCorrect, HeldStep, PTL DEF Spec

-----------------------------------------------------------------------------
(* The counter of operations, in a session whose memory was zero.          *)

(* A subset of the operations has fewer members than the counter has values.*)
LEMMA SmallSet ==
  ASSUME NEW S \in SUBSET OpIds
  PROVE  IsFiniteSet(S) /\ Cardinality(S) \in Nat /\ Cardinality(S) < OpNumModulus
  BY FS_Subset, FS_CardinalityType

(* A number within the width of the counter is not changed by it.           *)
LEMMA InRange ==
  ASSUME NEW n \in Nat, n < OpNumModulus
  PROVE  n % OpNumModulus = n
  OBVIOUS

(* The destructors of live operations are counted.                         *)
LEMMA DiscountedIsCardinality ==
  ASSUME NEW S \in SUBSET OpIds, NEW gone \in SUBSET S, opNum = Cardinality(S)
  PROVE  Discounted(Cardinality(gone)) = Cardinality(S \ gone)
<1>1. Cardinality(S \ gone) = Cardinality(S) - Cardinality(S \cap gone) /\ S \cap gone = gone
  BY SmallSet, FS_Difference
<1>2. S \ gone \in SUBSET OpIds
  OBVIOUS
<1>3. Cardinality(S \ gone) \in Nat /\ Cardinality(S \ gone) < OpNumModulus
  BY <1>2, SmallSet
<1> QED
  BY <1>1, <1>3, InRange DEF Discounted

(* The constructor of BasicOp counts the new operation.                     *)
LEMMA CountedIsCardinality ==
  ASSUME NEW S \in SUBSET OpIds, NEW o \in OpIds, o \notin S, opNum = Cardinality(S)
  PROVE  Counted = Cardinality(S \cup {o})
<1>1. Cardinality(S \cup {o}) = Cardinality(S) + 1
  BY SmallSet, FS_AddElement
<1>2. S \cup {o} \in SUBSET OpIds
  OBVIOUS
<1>3. Cardinality(S \cup {o}) \in Nat /\ Cardinality(S \cup {o}) < OpNumModulus
  BY <1>2, SmallSet
<1> QED
  BY <1>1, <1>3, InRange DEF Counted

SameLive == LiveOps' = LiveOps /\ UNCHANGED opNum

(* The count stays right while the live operations stay the same.           *)
LEMMA CountStays ==
  ASSUME OpNumCounts, SameLive
  PROVE  OpNumCounts'
  BY DEF OpNumCounts, SameLive

(* ~BasicOp discounts the destroyed operations, and no other.               *)
LEMMA DestroyOpsCount ==
  ASSUME TypeOK, OpNumCounts, NEW gone \in SUBSET LiveOps, NEW ph \in [OpIds -> Phase],
         \A o \in OpIds : ph[o] = "none" <=> phase[o] = "none",
         DestroyOps(gone, ph)
  PROVE  OpNumCounts'
<1>1. LiveOps' = LiveOps \ gone
  BY DEF DestroyOps, AbortWaits, LiveOps
<1>2. LiveOps \in SUBSET OpIds
  BY DEF LiveOps
<1> QED
  BY <1>1, <1>2, DiscountedIsCardinality DEF OpNumCounts, DestroyOps

(* A completed transfer is discounted once.                                 *)
LEMMA CompleteTransferCount ==
  ASSUME TypeOK, OpNumCounts, NEW o \in LiveOps, CompleteTransfer(o)
  PROVE  OpNumCounts'
<1>1. LiveOps \in SUBSET OpIds /\ {o} \in SUBSET LiveOps /\ Cardinality({o}) = 1
  BY FS_Singleton DEF LiveOps
<1>2. LiveOps' = LiveOps \ {o}
  BY <1>1 DEF CompleteTransfer, AbortWaits, LiveOps, TypeOK
<1> QED
  BY <1>1, <1>2, DiscountedIsCardinality DEF OpNumCounts, CompleteTransfer

(* A destroyed session has no operation and counts none.                    *)
LEMMA DestroySessionCount ==
  ASSUME DestroySession
  PROVE  OpNumCounts'
<1>1. LiveOps' = {} /\ opNum' = 0
  BY DEF DestroySession, LiveOps
<1> QED
  BY <1>1, FS_EmptySet DEF OpNumCounts

(* A command counts the operation that outlives it, if there is one.        *)
LEMMA HandleCommandCount ==
  ASSUME Base, OpNumCounts, HandleCommand
  PROVE  OpNumCounts'
<1>1. ASSUME UNCHANGED <<phase, opNum>> PROVE OpNumCounts'
  BY <1>1, CountStays DEF SameLive, LiveOps
<1>2. CASE BlankLine \/ AnswerCommand
  BY <1>1, <1>2 DEF BlankLine, AnswerCommand
<1>3. CASE PassiveModeOp
  BY <1>3, CountStays DEF PassiveModeOp, AbortAccepts, SameLive, LiveOps
<1>4. ASSUME NEW c \in Commands, AuthOp(c) \/ RefuseCommand(c) \/ CommandThrows(c)
      PROVE  OpNumCounts'
  BY <1>1, <1>4 DEF AuthOp, RefuseCommand, CommandThrows, EndProcess, stateVars
<1>5. ASSUME NEW c \in Commands, RefuseTransfer(c) PROVE OpNumCounts'
  BY <1>5, CountStays DEF RefuseTransfer, AbortWaits, SameLive, LiveOps
<1>6. ASSUME NEW c \in Commands, NEW o \in OpIds, StartTransfer(c, o) PROVE OpNumCounts'
  <2>1. LiveOps \in SUBSET OpIds /\ o \notin LiveOps
    BY <1>6 DEF StartTransfer, LiveOps
  <2>2. LiveOps' = LiveOps \cup {o}
    BY <1>6 DEF StartTransfer, LiveOps, Base, TypeOK
  <2> QED
    BY <1>6, <2>1, <2>2, CountedIsCardinality DEF OpNumCounts, StartTransfer
<1> QED
  BY <1>2, <1>3, <1>4, <1>5, <1>6 DEF HandleCommand

(* Handlers without a hand in the operations leave the count alone.         *)
LEMMA OtherCount ==
  ASSUME Base, OpNumCounts,
         \/ Client \/ WelcomeWritten \/ WelcomeFailed \/ ReadReady \/ ReadEof \/ ReadError
         \/ ReadAborted \/ Tick \/ IdleTimer \/ KeepaliveDone \/ WriteReady \/ OrphanRuns
  PROVE  OpNumCounts'
<1>1. DestroySession \/ UNCHANGED <<phase, opNum>>
  BY DEF Client, ClientSend, ClientConnect, ClientClose, WelcomeWritten, WelcomeFailed, ReadReady,
     ReadEof, ReadError, ReadAborted, Tick, IdleTimer, IdleTimerFrame, KeepaliveDone, WriteReady,
     OrphanRuns
<1> QED
  BY <1>1, DestroySessionCount, CountStays DEF SameLive, LiveOps

(* Dropping the queue discounts each operation once.                        *)
LEMMA WriteHandlerCount ==
  ASSUME Base, Held, OpNumCounts, WriteHandler
  PROVE  OpNumCounts'
<1>0. phase \in [OpIds -> Phase]
  BY DEF Base, TypeOK
<1>1. CASE MessageWritten
  <2>1. queue # <<>> /\ queue[1] \in Message /\ Head(queue) = queue[1] /\ 1 \in DOMAIN queue
    <3>1. queue # <<>> /\ queue \in Seq(Message)
      BY <1>1 DEF MessageWritten, Base, TypeOK, WriteDiscipline
    <3> QED
      BY <3>1
  <2>2. Head(queue).token # NoOp => phase[Head(queue).token] = "replying"
    BY <2>1 DEF Message, Held, TokensHold
  <2>3. \A o \in OpIds : phase'[o] = "none" <=> phase[o] = "none"
    BY <1>0, <1>1, <2>2 DEF MessageWritten, RunToken
  <2> QED
    BY <1>1, <2>3, CountStays DEF MessageWritten, SameLive, LiveOps
<1>2. CASE MessageWrittenFatal
  BY <1>2, CountStays DEF MessageWrittenFatal, EndProcess, stateVars, SameLive, LiveOps
<1>3. CASE MessageFailed
  <2>1. QueuedOps \in SUBSET LiveOps
    <3>1. ASSUME NEW i \in DOMAIN queue, queue[i].token # NoOp
          PROVE  queue[i].token \in LiveOps
      <4>1. queue[i].token \in OpIds
        <5>1. queue[i] \in Message
          BY DEF Base, TypeOK
        <5> QED
          BY <3>1, <5>1 DEF Message
      <4> QED
        BY <4>1 DEF Held, TokensHold, LiveOps
    <3> QED
      BY <3>1 DEF QueuedOps
  <2>2. CASE DestroyOps(QueuedOps, phase)
    BY <1>0, <2>1, <2>2, DestroyOpsCount DEF Base
  <2>3. CASE UNCHANGED opVars
    BY <2>3, CountStays DEF SameLive, LiveOps
  <2> QED
    BY <1>3, <2>2, <2>3 DEF MessageFailed
<1> QED
  BY <1>1, <1>2, <1>3 DEF WriteHandler

(* The handlers of accepts and transfers discount what they destroy.        *)
LEMMA TransfersCount ==
  ASSUME Base, Held, OpNumCounts,
         AcceptReady \/ AcceptHandler \/ DataReady \/ TransferHandler
  PROVE  OpNumCounts'
<1>0. /\ phase \in [OpIds -> Phase]
      /\ AbortAccepts(phase) \in [OpIds -> Phase]
      /\ \A o \in OpIds : AbortAccepts(phase)[o] = "none" <=> phase[o] = "none"
  BY AbortType DEF Base, TypeOK, AbortAccepts
<1>1. CASE AcceptReady
  <2>1. Head(accepts) \in OpIds /\ phase[Head(accepts)] = "accepting"
    <3>1. 1 \in DOMAIN accepts /\ Head(accepts) = accepts[1] /\ accepts[1] \in OpIds
      BY <1>1 DEF AcceptReady, Base, TypeOK
    <3> QED
      BY <3>1 DEF Held, AcceptsHold
  <2>2. \A o \in OpIds : phase'[o] = "none" <=> phase[o] = "none"
    BY <1>0, <1>1, <2>1 DEF AcceptReady
  <2> QED
    BY <1>1, <2>2, CountStays DEF AcceptReady, SameLive, LiveOps
<1>2. ASSUME NEW o \in OpIds, DataConnectionAccepted(o) PROVE OpNumCounts'
  <2>1. \A q \in OpIds : phase'[q] = "none" <=> phase[q] = "none"
    BY <1>0, <1>2 DEF DataConnectionAccepted, AbortWaits
  <2> QED
    BY <1>2, <2>1, CountStays DEF DataConnectionAccepted, SameLive, LiveOps
<1>3. ASSUME NEW why, EndProcess(why) PROVE OpNumCounts'
  BY <1>3, CountStays DEF EndProcess, stateVars, SameLive, LiveOps
<1>4. ASSUME NEW o \in OpIds, DataConnectionFailed(o) PROVE OpNumCounts'
  <2>1. {o} \in SUBSET LiveOps
    BY <1>4 DEF DataConnectionFailed, LiveOps
  <2> QED
    BY <1>0, <1>4, <2>1, DestroyOpsCount DEF DataConnectionFailed, Base
<1>5. ASSUME NEW o \in LiveOps, DestroyOps({o}, phase) PROVE OpNumCounts'
  BY <1>0, <1>5, DestroyOpsCount DEF Base
<1>6. ASSUME NEW o \in OpIds, AcceptAborted(o) PROVE OpNumCounts'
  BY <1>5, <1>6 DEF AcceptAborted, LiveOps
<1>7. CASE DataReady
  <2>1. \A q \in OpIds : phase'[q] = "none" <=> phase[q] = "none"
    BY <1>0, <1>7 DEF DataReady
  <2> QED
    BY <1>7, <2>1, CountStays DEF DataReady, SameLive, LiveOps
<1>8. ASSUME NEW o \in LiveOps, CompleteTransfer(o) PROVE OpNumCounts'
  BY <1>8, CompleteTransferCount DEF Base
<1>9. ASSUME NEW o \in LiveOps, NEW next \in {"waiting", "limited"}, ContinueTransfer(o, next)
      PROVE  OpNumCounts'
  <2>1. \A q \in OpIds : phase'[q] = "none" <=> phase[q] = "none"
    BY <1>0, <1>9 DEF ContinueTransfer, LiveOps
  <2> QED
    BY <1>9, <2>1, CountStays DEF ContinueTransfer, SameLive, LiveOps
<1>10. ASSUME NEW o \in OpIds, ListWritten(o) \/ TransferAborted(o) PROVE OpNumCounts'
  BY <1>5, <1>8, <1>10 DEF ListWritten, TransferAborted, AbandonTransfer, LiveOps
<1>11. ASSUME NEW o \in OpIds, DealEvent(o) \/ DealEventFatal(o) PROVE OpNumCounts'
  <2>1. o \in LiveOps
    BY <1>11 DEF DealEvent, SendFileEvent, RecvFileEvent, DealEventFatal, LiveOps
  <2> QED
    BY <1>3, <1>5, <1>8, <1>9, <1>11, <2>1 DEF DealEvent,
       SendFileEvent, RecvFileEvent, DealEventFatal, AbandonTransfer
<1> QED
  BY <1>1, <1>2, <1>3, <1>4, <1>6, <1>7, <1>10, <1>11
     DEF AcceptHandler, ListingThrows, AcceptAbortedThrows, TransferHandler

(* Every step keeps active_op_num_ the number of live operations.           *)
LEMMA CountStep == Base /\ Held /\ OpNumCounts /\ [Next]_vars => OpNumCounts'
<1> SUFFICES ASSUME Base, Held, OpNumCounts, [Next]_vars PROVE OpNumCounts'
  OBVIOUS
<1>1. CASE UNCHANGED vars
  BY <1>1, CountStays DEF vars, stateVars, SameLive, LiveOps
<1> QED
  BY <1>1, HandleCommandCount, OtherCount, WriteHandlerCount, TransfersCount
     DEF Next, Server, ReadHandler

(* Every live operation is counted once and held once, in a session whose  *)
(* memory was zero: BasicOp's constructor and destructors keep              *)
(* active_op_num_, whatever the handlers destroy.                          *)
THEOREM OperationsHeldCorrect ==
  ASSUME StartOpNums = {0}
  PROVE  Spec => []OperationsHeld
<1>1. Init => OpNumCounts
  <2>1. Init => LiveOps = {} /\ opNum = 0
    BY DEF Init, LiveOps
  <2> QED
    BY <2>1, FS_EmptySet DEF OpNumCounts
<1>2. Spec => []OpNumCounts
  BY <1>1, BaseCorrect, HeldCorrect, CountStep, PTL DEF Spec
<1>3. OpNumCounts /\ Held => OperationsHeld
  BY DEF Held, OperationsHeld
<1> QED
  BY <1>2, <1>3, HeldCorrect, PTL

-----------------------------------------------------------------------------
(* The idle timer.                                                         *)

(* The counter tells whether there is something to do.                     *)
LEMMA PendingIsBusy ==
  ASSUME OpNumCounts
  PROVE  exists_pending_operator(opNum, queue) <=> ~ Quiet
<1>1. LiveOps \in SUBSET OpIds
  BY DEF LiveOps
<1>2. Cardinality(LiveOps) = 0 <=> LiveOps = {}
  BY <1>1, SmallSet, FS_EmptySet
<1> QED
  BY <1>2 DEF exists_pending_operator, OpNumCounts, Quiet

(* The same after a step, as the restarts of the timer look at it.          *)
LEMMA PendingIsBusyNext ==
  ASSUME OpNumCounts'
  PROVE  exists_pending_operator(opNum', queue') <=> ~ Quiet'
<1>1. LiveOps' \in SUBSET OpIds
  BY DEF LiveOps
<1>2. Cardinality(LiveOps') = 0 <=> LiveOps' = {}
  BY <1>1, SmallSet, FS_EmptySet
<1> QED
  BY <1>2 DEF exists_pending_operator, OpNumCounts, Quiet

(* A restart arms the timer only if there is nothing to do.                 *)
LEMMA RestartHeld ==
  ASSUME OpNumCounts', IdleTimerHeld, ~ Quiet, RestartIdleTimer
  PROVE  IdleTimerHeld'
  BY PendingIsBusyNext DEF RestartIdleTimer, IdleTimerHeld, cancel_idle_timer

(* A read handler leaves the timer armed only if there is nothing to do.    *)
LEMMA AfterReadHeld ==
  ASSUME OpNumCounts', NEW time, IdleTimerAfterRead(time)
  PROVE  IdleTimerHeld'
  BY PendingIsBusyNext DEF IdleTimerAfterRead, update_idle_timer, IdleTimerHeld

(* A handler that leaves the timer alone, in a session that has something   *)
(* to do or in which it starts nothing.                                    *)
LEMMA TimerAlone ==
  ASSUME IdleTimerHeld, UNCHANGED expiry, ~ Quiet \/ UNCHANGED <<phase, queue>>
  PROVE  IdleTimerHeld'
  BY DEF IdleTimerHeld, Quiet, LiveOps

(* The timer of a destroyed session is not armed.                           *)
LEMMA DestroySessionTimer ==
  ASSUME DestroySession
  PROVE  IdleTimerHeld'
  BY DEF DestroySession, IdleTimerHeld

(* A command that leaves something to do leaves the timer held.             *)
LEMMA HandleCommandTimer ==
  ASSUME IdleTimerHeld, OpNumCounts', HandleCommand
  PROVE  IdleTimerHeld'
<1>1. CASE BlankLine \/ AnswerCommand \/ PassiveModeOp
  BY <1>1, AfterReadHeld DEF BlankLine, AnswerCommand, PassiveModeOp, NotDispatched, OperationDone
<1>2. ASSUME NEW c \in Commands,
             AuthOp(c) \/ RefuseCommand(c) \/ RefuseTransfer(c)
      PROVE  IdleTimerHeld'
  BY <1>2, AfterReadHeld DEF AuthOp, RefuseCommand, RefuseTransfer, NotDispatched, OperationDone
<1>3. ASSUME NEW c \in Commands, NEW o \in OpIds, StartTransfer(c, o) PROVE IdleTimerHeld'
  BY <1>3, AfterReadHeld DEF StartTransfer
<1>4. ASSUME NEW c \in Commands, CommandThrows(c) PROVE IdleTimerHeld'
  BY <1>4, TimerAlone DEF CommandThrows, EndProcess, stateVars
<1> QED
  BY <1>1, <1>2, <1>3, <1>4 DEF HandleCommand

(* Handlers that start nothing leave the timer held.                        *)
LEMMA OtherTimer ==
  ASSUME Base, IdleTimerHeld,
         \/ Client \/ WelcomeWritten \/ WelcomeFailed \/ ReadReady \/ ReadEof \/ ReadError
         \/ ReadAborted \/ Tick \/ IdleTimer \/ KeepaliveDone \/ WriteReady \/ OrphanRuns
  PROVE  IdleTimerHeld'
<1>1. CASE DestroySession
  BY <1>1, DestroySessionTimer
<1>2. CASE WelcomeWritten
  BY <1>2 DEF WelcomeWritten, Base, GreetingQuiet, IdleTimerHeld, Quiet, LiveOps
<1>3. CASE ReadEof /\ ~ DestroySession
  BY <1>3 DEF ReadEof, IdleTimerHeld
<1>4. CASE Tick
  BY <1>4 DEF Tick, IdleTimerHeld, Quiet, LiveOps
<1>5. CASE Client \/ ReadReady \/ IdleTimer \/ WriteReady \/ OrphanRuns
  <2>1. UNCHANGED <<expiry, phase, queue>>
    BY <1>5 DEF Client, ClientSend, ClientConnect, ClientClose, ReadReady, IdleTimer,
       IdleTimerFrame, WriteReady, OrphanRuns
  <2> QED
    BY <2>1, TimerAlone
<1> QED
  BY <1>1, <1>2, <1>3, <1>4, <1>5 DEF WelcomeFailed, ReadError, ReadAborted, KeepaliveDone

(* What handles a message has one to handle.                                *)
LEMMA WriteHandlerBusy == ASSUME Base, WriteHandler PROVE ~ Quiet
  BY DEF WriteHandler, MessageWritten, MessageWrittenFatal, MessageFailed, Quiet, Base, TypeOK,
     WriteDiscipline

(* What handles an operation has one to handle.                             *)
LEMMA TransfersBusy ==
  ASSUME Base, Held, AcceptReady \/ AcceptHandler \/ DataReady \/ TransferHandler
  PROVE  ~ Quiet
<1>1. CASE AcceptReady
  <2>1. 1 \in DOMAIN accepts /\ accepts[1] \in OpIds
    BY <1>1 DEF AcceptReady, Base, TypeOK
  <2>2. phase[accepts[1]] = "accepting"
    BY <2>1 DEF Held, AcceptsHold
  <2> QED
    BY <2>1, <2>2 DEF Quiet, LiveOps
<1>2. CASE AcceptHandler
  BY <1>2 DEF AcceptHandler, DataConnectionAccepted, ListingThrows, DataConnectionFailed,
     AcceptAborted, AcceptAbortedThrows, Quiet, LiveOps
<1>3. CASE DataReady
  BY <1>3 DEF DataReady, Quiet, LiveOps
<1>4. CASE TransferHandler
  BY <1>4 DEF TransferHandler, ListWritten, TransferAborted, DealEvent,
     SendFileEvent, RecvFileEvent, DealEventFatal, Quiet, LiveOps
<1> QED
  BY <1>1, <1>2, <1>3, <1>4

(* The write loop restarts the timer only after the last message.           *)
LEMMA WriteHandlerTimer ==
  ASSUME Base, IdleTimerHeld, OpNumCounts', WriteHandler
  PROVE  IdleTimerHeld'
<1>1. ~ Quiet
  BY WriteHandlerBusy
<1>2. RestartIdleTimer \/ UNCHANGED expiry
  BY DEF WriteHandler, MessageWritten, MessageWrittenFatal, MessageFailed, EndProcess, stateVars
<1> QED
  BY <1>1, <1>2, RestartHeld, TimerAlone

(* The last operation restarts the timer, the 150 and 226 find it held.     *)
LEMMA TransfersTimer ==
  ASSUME Base, Held, IdleTimerHeld, OpNumCounts',
         AcceptReady \/ AcceptHandler \/ DataReady \/ TransferHandler
  PROVE  IdleTimerHeld'
<1>1. ~ Quiet
  BY TransfersBusy
<1>2. RestartIdleTimer \/ UNCHANGED expiry
  <2>1. CASE AcceptReady \/ AcceptHandler
    BY <2>1 DEF AcceptReady, AcceptHandler, DataConnectionAccepted, ListingThrows,
       DataConnectionFailed, AcceptAborted, AcceptAbortedThrows, EndProcess, stateVars
  <2>2. CASE DataReady \/ TransferHandler
    BY <2>2 DEF DataReady, TransferHandler, ListWritten, TransferAborted, DealEvent,
       SendFileEvent, RecvFileEvent,
       DealEventFatal, CompleteTransfer, AbandonTransfer, ContinueTransfer, EndProcess, stateVars
  <2> QED
    BY <2>1, <2>2
<1> QED
  BY <1>1, <1>2, RestartHeld, TimerAlone

(* Every step keeps the timer held while there is something to do.          *)
LEMMA TimerStep ==
  Base /\ Held /\ OpNumCounts' /\ IdleTimerHeld /\ [Next]_vars => IdleTimerHeld'
<1> SUFFICES ASSUME Base, Held, OpNumCounts', IdleTimerHeld, [Next]_vars PROVE IdleTimerHeld'
  OBVIOUS
<1>1. CASE UNCHANGED vars
  BY <1>1, TimerAlone DEF vars, stateVars
<1> QED
  BY <1>1, HandleCommandTimer, OtherTimer, WriteHandlerTimer, TransfersTimer
     DEF Next, Server, ReadHandler

(* While an operation is alive or a reply is queued the idle timer is not   *)
(* armed, however the handlers of the session interleave.                  *)
THEOREM IdleTimerHeldCorrect ==
  ASSUME StartOpNums = {0}
  PROVE  Spec => []IdleTimerHeld
<1>1. Init => IdleTimerHeld
  BY DEF Init, IdleTimerHeld, Quiet, LiveOps
<1>2. OperationsHeld => OpNumCounts
  BY DEF OperationsHeld
<1> QED
  BY <1>1, <1>2, BaseCorrect, HeldCorrect, OperationsHeldCorrect, TimerStep, PTL DEF Spec

(* start_idle_timer closes a session only when no operation is alive and no *)
(* reply is queued.                                                        *)
THEOREM IdleCloseOnlyWhenQuietCorrect ==
  ASSUME StartOpNums = {0}
  PROVE  Spec => IdleCloseOnlyWhenQuiet
<1>1. IdleTimerHeld /\ [Next]_vars => [stoped' # stoped /\ read # "eof" => Quiet]_vars
  <2> SUFFICES ASSUME IdleTimerHeld, Next, stoped' # stoped, read # "eof" PROVE Quiet
    OBVIOUS
  <2>1. IdleTimer
    <3>1. ~ Client /\ ~ HandleCommand
      BY DEF Client, ClientSend, ClientConnect, ClientClose, HandleCommand, BlankLine,
         AnswerCommand, PassiveModeOp, AuthOp, RefuseCommand, CommandThrows, RefuseTransfer,
         StartTransfer, TakeCommand, EndProcess, stateVars
    <3>2. ~ WriteHandler /\ ~ AcceptHandler
      BY DEF WriteHandler, MessageWritten, MessageWrittenFatal, MessageFailed, AcceptHandler,
         DataConnectionAccepted, ListingThrows, DataConnectionFailed, AcceptAborted,
         AcceptAbortedThrows, EndProcess, stateVars
    <3>3. ~ TransferHandler
      BY DEF TransferHandler, ListWritten, TransferAborted, DealEvent,
         SendFileEvent, RecvFileEvent, DealEventFatal,
         CompleteTransfer, AbandonTransfer, ContinueTransfer, EndProcess, stateVars
    <3> QED
      BY <3>1, <3>2, <3>3 DEF Next, Server, WelcomeWritten, WelcomeFailed, ReadReady, ReadHandler,
         ReadEof, ReadError, ReadAborted, Tick, KeepaliveDone, WriteReady, AcceptReady, DataReady,
         OrphanRuns
  <2> QED
    BY <2>1 DEF IdleTimer, IdleTimerHeld
<1> QED
  BY <1>1, IdleTimerHeldCorrect, PTL DEF Spec, IdleCloseOnlyWhenQuiet
=============================================================================
