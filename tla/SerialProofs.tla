---------------------------- MODULE SerialProofs -----------------------------
(***************************************************************************)
(* Theorems about a client that waits for its replies: its transfers come  *)
(* one after the other, so each has the data socket to itself, and what    *)
(* the handlers take for granted of it is there.                           *)
(***************************************************************************)
EXTENDS SessionProofs

USE ConstantsAssumption DEF netVars, timerVars, loginVars, portVars, dataVars, opVars, endVars

Live(o) == phase[o] # "none"

(* There is one operation at a time, and none while a command is on its     *)
(* way.                                                                     *)
Serial ==
  /\ \A o, p \in OpIds : Live(o) /\ Live(p) => o = p
  /\ inbox # <<>> => Tail(inbox) = <<>> /\ \A o \in OpIds : ~ Live(o)

(* So nobody closes the acceptor under an accept.                           *)
NoneAborted == \A o \in OpIds : phase[o] # "aborted"

Alone == Serial /\ NoneAborted /\ ExclusiveDataSocket

Waiting == {"replying", "waiting", "ready", "limited"}

-----------------------------------------------------------------------------
(* A step without operations before and after.                              *)
LEMMA IdleAlone ==
  ASSUME Serial, inbox' = <<>> \/ inbox' = inbox \/ Tail(inbox') = <<>>,
         \A o \in OpIds : ~ Live(o)'
  PROVE  Alone'
  BY DEF Alone, Serial, NoneAborted, ExclusiveDataSocket, Live

(* A step that leaves the operations, the inbox and the data socket alone.  *)
LEMMA SameAlone ==
  ASSUME Alone, UNCHANGED <<inbox, phase, data, owner>>
  PROVE  Alone'
  BY DEF Alone, Serial, NoneAborted, ExclusiveDataSocket, Live

(* A step of the one operation there is: it comes to another phase, of the  *)
(* kind it had or with the data socket its own.                             *)
LEMMA StepAlone ==
  ASSUME TypeOK, Alone, NEW o \in OpIds, Live(o), inbox' = inbox,
         NEW next \in Phase, next \notin {"none", "aborted"},
         phase' \in [OpIds -> Phase], phase'[o] = next,
         \A p \in OpIds \ {o} : ~ Live(p) => phase'[p] = "none",
         next \in Waiting => data' = "open" /\ owner' = o
  PROVE  Alone'
<1>1. \A p \in OpIds \ {o} : phase'[p] = "none"
  BY DEF Alone, Serial, Live
<1>2. inbox' = <<>>
  BY DEF Alone, Serial
<1> QED
  BY <1>1, <1>2 DEF Alone, Serial, NoneAborted, ExclusiveDataSocket, Live, Waiting

(* The end of the one operation there is.                                   *)
LEMMA GoneAlone ==
  ASSUME TypeOK, Alone, NEW o \in OpIds, Live(o), inbox' = inbox,
         phase'[o] = "none",
         \A p \in OpIds \ {o} : ~ Live(p) => phase'[p] = "none"
  PROVE  Alone'
<1>1. \A p \in OpIds : ~ Live(p)'
  BY DEF Alone, Serial, Live
<1> QED
  BY <1>1, IdleAlone DEF Alone

LEMMA DestroyOpsAlone ==
  ASSUME TypeOK, Alone, NEW o \in OpIds, Live(o), inbox' = inbox,
         NEW gone, o \in gone,
         DestroyOps(gone, phase) \/ DestroyOps(gone, AbortAccepts(phase))
  PROVE  Alone'
<1>1. phase'[o] = "none" /\ \A p \in OpIds : ~ Live(p) => phase'[p] = "none"
  BY DEF DestroyOps, AbortAccepts, AbortWaits, Live, TypeOK
<1> QED
  BY <1>1, GoneAlone

LEMMA DestroySessionAlone == ASSUME Alone, DestroySession PROVE Alone'
  BY IdleAlone DEF DestroySession, Alone, Live

-----------------------------------------------------------------------------
(* A command is handled when there is no operation (handle_read).           *)
LEMMA CommandAlone ==
  ASSUME TypeOK, Alone, HandleCommand
  PROVE  Alone'
<1>1. CASE BlankLine \/ AnswerCommand \/ PassiveModeOp
  <2>1. inbox' = <<>> /\ \A o \in OpIds : ~ Live(o)
    BY <1>1 DEF BlankLine, AnswerCommand, PassiveModeOp, TakeCommand, Alone, Serial
  <2>2. \A o \in OpIds : ~ Live(o)'
    BY <1>1, <2>1 DEF BlankLine, AnswerCommand, PassiveModeOp, AbortAccepts, Live
  <2> QED
    BY <2>1, <2>2, IdleAlone DEF Alone
<1>2. ASSUME NEW c \in Commands, AuthOp(c) \/ RefuseCommand(c) \/ RefuseTransfer(c)
      PROVE  Alone'
  <2>1. inbox' = <<>> /\ \A o \in OpIds : ~ Live(o)
    BY <1>2 DEF AuthOp, RefuseCommand, RefuseTransfer, TakeCommand, Alone, Serial
  <2>2. \A o \in OpIds : ~ Live(o)'
    BY <1>2, <2>1 DEF AuthOp, RefuseCommand, RefuseTransfer, AbortWaits, Live
  <2> QED
    BY <2>1, <2>2, IdleAlone DEF Alone
<1>3. ASSUME NEW c \in Commands, NEW o \in OpIds, StartTransfer(c, o)
      PROVE  Alone'
  <2>1. inbox' = <<>> /\ \A p \in OpIds : ~ Live(p)
    BY <1>3 DEF StartTransfer, TakeCommand, Alone, Serial
  <2>2. phase'[o] = "accepting" /\ \A p \in OpIds \ {o} : phase'[p] = "none"
    BY <1>3, <2>1 DEF StartTransfer, TypeOK, Live
  <2> QED
    BY <2>1, <2>2 DEF Alone, Serial, NoneAborted, ExclusiveDataSocket, Live
<1>4. ASSUME NEW c \in Commands, CommandThrows(c)
      PROVE  Alone'
  BY <1>4, SameAlone DEF CommandThrows, EndProcess, stateVars
<1> QED
  BY <1>1, <1>2, <1>3, <1>4 DEF HandleCommand

(* The client sends its next command when the last is answered.             *)
LEMMA ClientAlone ==
  ASSUME TypeOK, Alone, Client, ~ Pipelining
  PROVE  Alone'
<1>1. ASSUME NEW c \in Commands, ClientSend(c) PROVE Alone'
  <2>1. inbox = <<>> /\ LiveOps = {} /\ inbox' = Append(inbox, c) /\ phase' = phase
    BY <1>1 DEF ClientSend, Answered
  <2>2. Tail(inbox') = <<>>
    BY <2>1
  <2>3. \A o \in OpIds : ~ Live(o)'
    BY <2>1 DEF LiveOps, Live
  <2> QED
    BY <2>2, <2>3, IdleAlone DEF Alone
<1>2. CASE ClientConnect \/ ClientClose
  BY <1>2, SameAlone DEF ClientConnect, ClientClose
<1> QED
  BY <1>1, <1>2 DEF Client

(* The timer, the end of the read loop, and asio.                           *)
LEMMA OtherAlone ==
  ASSUME TypeOK, Alone,
         \/ WelcomeWritten \/ WelcomeFailed \/ ReadReady \/ ReadEof \/ ReadError \/ ReadAborted
         \/ Tick \/ IdleTimer \/ KeepaliveDone \/ WriteReady \/ OrphanRuns \/ UNCHANGED vars
  PROVE  Alone'
<1>1. CASE DestroySession
  BY <1>1, DestroySessionAlone
<1>2. CASE ~ DestroySession
  <2>1. UNCHANGED <<inbox, phase, data, owner>>
    BY <1>2 DEF WelcomeWritten, WelcomeFailed, ReadReady, ReadEof, ReadError, ReadAborted, Tick,
       IdleTimer, IdleTimerFrame, KeepaliveDone, WriteReady, OrphanRuns, vars, stateVars
  <2> QED
    BY <2>1, SameAlone
<1> QED
  BY <1>1, <1>2

-----------------------------------------------------------------------------
(* The token of a queued message holds an operation that waits for its 150. *)
LEMMA TokenReplies ==
  ASSUME TypeOK, Held, NEW i \in DOMAIN queue, queue[i].token # NoOp
  PROVE  queue[i].token \in OpIds /\ phase[queue[i].token] = "replying"
<1>1. queue[i] \in Message
  BY DEF TypeOK
<1>2. queue[i].token \in OpIds
  BY <1>1 DEF Message
<1> QED
  BY <1>2 DEF Held, TokensHold

(* The write loop starts a transfer, or drops it (do_write_message).        *)
LEMMA WriteAlone ==
  ASSUME Base, Held, Alone, WriteHandler
  PROVE  Alone'
<1>0. TypeOK /\ (writes # <<>> => 1 \in DOMAIN queue /\ Head(queue) = queue[1])
  BY DEF Base, TypeOK, WriteDiscipline
<1>1. CASE MessageWritten /\ Head(queue).token = NoOp
  BY <1>1, SameAlone DEF MessageWritten, RunToken
<1>2. CASE MessageWritten /\ Head(queue).token # NoOp
  <2> DEFINE o == Head(queue).token
  <2>1. o \in OpIds /\ phase[o] = "replying" /\ inbox' = inbox
    BY <1>0, <1>2, TokenReplies DEF MessageWritten
  <2>2. data = "open" /\ owner = o /\ UNCHANGED <<data, owner>>
    BY <1>2, <2>1 DEF Alone, ExclusiveDataSocket, MessageWritten
  <2>3. phase' = [phase EXCEPT ![o] = "waiting"]
    BY <1>2, <2>2 DEF MessageWritten, RunToken
  <2> HIDE DEF o
  <2>4. /\ phase' \in [OpIds -> Phase] /\ phase'[o] = "waiting"
        /\ \A p \in OpIds \ {o} : ~ Live(p) => phase'[p] = "none"
    BY <1>0, <2>1, <2>3 DEF TypeOK, Phase, Live
  <2> QED
    BY <1>0, <2>1, <2>2, <2>4, StepAlone DEF Live, Phase
<1>3. CASE MessageWrittenFatal
  BY <1>3, SameAlone DEF MessageWrittenFatal, EndProcess, stateVars
<1>4. CASE MessageFailed /\ QueuedOps = {}
  BY <1>4, SameAlone DEF MessageFailed
<1>5. CASE MessageFailed /\ QueuedOps # {}
  <2>1. PICK o \in QueuedOps : TRUE
    BY <1>5
  <2>2. o \in OpIds /\ Live(o)
    BY <1>0, <2>1, TokenReplies DEF QueuedOps, Live
  <2> QED
    BY <1>0, <1>5, <2>1, <2>2, DestroyOpsAlone DEF MessageFailed
<1> QED
  BY <1>1, <1>2, <1>3, <1>4, <1>5 DEF WriteHandler, MessageFailed

(* The accept of the data connection (fetch_passive_connection).            *)
LEMMA AcceptAlone ==
  ASSUME TypeOK, Held, Alone, AcceptReady \/ AcceptHandler
  PROVE  Alone'
<1>1. CASE AcceptReady
  <2> DEFINE o == Head(accepts)
  <2>1. 1 \in DOMAIN accepts /\ o = accepts[1] /\ o \in OpIds
    BY <1>1 DEF AcceptReady, TypeOK
  <2>2. Live(o)
    BY <2>1 DEF Held, AcceptsHold, Live
  <2> HIDE DEF o
  <2>3. PICK next \in {"accepted", "acceptfailed"} : phase' = [phase EXCEPT ![o] = next]
    BY <1>1 DEF AcceptReady, o
  <2>4. /\ phase' \in [OpIds -> Phase] /\ phase'[o] = next
        /\ \A p \in OpIds \ {o} : ~ Live(p) => phase'[p] = "none"
    BY <2>1, <2>3 DEF TypeOK, Phase, Live
  <2>5. inbox' = inbox
    BY <1>1 DEF AcceptReady
  <2> QED
    BY <2>1, <2>2, <2>4, <2>5, StepAlone DEF Phase, Waiting
<1>2. ASSUME NEW o \in OpIds, DataConnectionAccepted(o) PROVE Alone'
  <2>1. /\ phase' \in [OpIds -> Phase] /\ phase'[o] = "replying"
        /\ \A p \in OpIds \ {o} : ~ Live(p) => phase'[p] = "none"
    BY <1>2 DEF DataConnectionAccepted, AbortWaits, AbortAccepts, TypeOK, Phase, Live
  <2>2. Live(o) /\ inbox' = inbox /\ data' = "open" /\ owner' = o
    BY <1>2 DEF DataConnectionAccepted, Live
  <2> QED
    BY <2>1, <2>2, StepAlone DEF Phase
<1>3. ASSUME NEW o \in OpIds, DataConnectionFailed(o) \/ AcceptAborted(o) PROVE Alone'
  <2>1. /\ Live(o) /\ inbox' = inbox
        /\ DestroyOps({o}, phase) \/ DestroyOps({o}, AbortAccepts(phase))
    BY <1>3 DEF DataConnectionFailed, AcceptAborted, Live
  <2> QED
    BY <2>1, DestroyOpsAlone
<1>4. ASSUME NEW o \in OpIds, ListingThrows(o) \/ AcceptAbortedThrows(o) PROVE Alone'
  BY <1>4, SameAlone DEF ListingThrows, AcceptAbortedThrows, EndProcess, stateVars
<1> QED
  BY <1>1, <1>2, <1>3, <1>4 DEF AcceptHandler

(* The handlers of the transfers.                                           *)
LEMMA TransferAlone ==
  ASSUME TypeOK, Alone, DataReady \/ TransferHandler
  PROVE  Alone'
<1>1. CASE DataReady
  <2>1. PICK o \in OpIds, next \in {"ready", "failed"} :
          phase[o] = "waiting" /\ phase' = [phase EXCEPT ![o] = next]
    BY <1>1 DEF DataReady
  <2>2. /\ phase' \in [OpIds -> Phase] /\ phase'[o] = next
        /\ \A p \in OpIds \ {o} : ~ Live(p) => phase'[p] = "none"
    BY <2>1 DEF TypeOK, Phase, Live
  <2>3. data' = "open" /\ owner' = o /\ inbox' = inbox
    BY <1>1, <2>1 DEF DataReady, Alone, ExclusiveDataSocket
  <2> QED
    BY <2>1, <2>2, <2>3, StepAlone DEF Live, Phase
<1>2. ASSUME NEW o \in OpIds, Live(o), CompleteTransfer(o) PROVE Alone'
  <2>1. phase'[o] = "none" /\ \A p \in OpIds \ {o} : ~ Live(p) => phase'[p] = "none"
    BY <1>2 DEF CompleteTransfer, AbortWaits, TypeOK, Live
  <2> QED
    BY <1>2, <2>1, GoneAlone DEF CompleteTransfer
<1>3. ASSUME NEW o \in OpIds, Live(o), AbandonTransfer(o) PROVE Alone'
  BY <1>3, DestroyOpsAlone DEF AbandonTransfer
<1>4. ASSUME NEW o \in OpIds, phase[o] \in Waiting,
             NEW next \in {"waiting", "limited"}, ContinueTransfer(o, next)
      PROVE  Alone'
  <2>1. /\ phase' \in [OpIds -> Phase] /\ phase'[o] = next
        /\ \A p \in OpIds \ {o} : ~ Live(p) => phase'[p] = "none"
    BY <1>4 DEF ContinueTransfer, TypeOK, Phase, Live
  <2>2. data' = "open" /\ owner' = o /\ inbox' = inbox
    BY <1>4 DEF ContinueTransfer, Alone, ExclusiveDataSocket, Waiting
  <2> QED
    BY <1>4, <2>1, <2>2, StepAlone DEF Live, Phase, Waiting
<1>5. ASSUME NEW why, EndProcess(why) PROVE Alone'
  BY <1>5, SameAlone DEF EndProcess, stateVars
<1>6. CASE TransferHandler
  <2>1. PICK o \in OpIds :
          ListWritten(o) \/ TransferAborted(o) \/ DealEvent(o) \/ DealEventFatal(o)
    BY <1>6 DEF TransferHandler
  <2>2. CASE ListWritten(o) \/ TransferAborted(o)
    BY <2>2, <1>2, <1>3 DEF ListWritten, TransferAborted, Live
  <2>3. CASE SendFileEvent(o)
    BY <2>3, <1>2, <1>3, <1>4, <1>5 DEF SendFileEvent, Live, Waiting
  <2>4. CASE RecvFileEvent(o)
    BY <2>4, <1>2, <1>3, <1>4, <1>5 DEF RecvFileEvent, Live, Waiting
  <2>5. CASE DealEventFatal(o)
    BY <2>5, <1>5 DEF DealEventFatal
  <2> QED
    BY <2>1, <2>2, <2>3, <2>4, <2>5 DEF DealEvent
<1> QED
  BY <1>1, <1>6

LEMMA AloneStep ==
  ASSUME ~ Pipelining
  PROVE  Base /\ Held /\ Alone /\ [Next]_vars => Alone'
<1> SUFFICES ASSUME Base, Held, Alone, [Next]_vars PROVE Alone'
  OBVIOUS
<1>1. TypeOK
  BY DEF Base
<1> QED
  BY <1>1, CommandAlone, ClientAlone, OtherAlone, WriteAlone, AcceptAlone, TransferAlone
     DEF Next, Server, ReadHandler

LEMMA AloneCorrect ==
  ASSUME ~ Pipelining
  PROVE  Spec => []Alone
<1>1. Init => Alone
  BY DEF Init, Alone, Serial, NoneAborted, ExclusiveDataSocket, Live
<1> QED
  BY <1>1, AloneStep, BaseCorrect, HeldCorrect, PTL DEF Spec

(* The socket a client's data connection became serves one transfer at a    *)
(* time, if the client waits for its replies (SessionContext, BasicOp).     *)
THEOREM ExclusiveDataSocketCorrect ==
  ASSUME ~ Pipelining
  PROVE  Spec => []ExclusiveDataSocket
<1>1. Alone => ExclusiveDataSocket
  BY DEF Alone
<1> QED
  BY <1>1, AloneCorrect, PTL

-----------------------------------------------------------------------------
(* The steps that end the process.                                          *)
Fatal ==
  \/ \E c \in Commands : CommandThrows(c)
  \/ MessageWrittenFatal
  \/ \E o \in OpIds : AcceptAbortedThrows(o) \/ DealEventFatal(o)
  \/ fate' \in {"filesystem", "signal", "spinning"}

LEMMA OnlyFatalEnds ==
  ASSUME Next
  PROVE  fate = "running" /\ (fate' \in {"running", "undefined"} \/ Fatal)
<1> USE DEF Running
<1>1. CASE Client
  BY <1>1 DEF Client, ClientSend, ClientConnect, ClientClose
<1>2. CASE HandleCommand
  <2>1. CASE BlankLine \/ AnswerCommand \/ PassiveModeOp
    BY <2>1 DEF BlankLine, AnswerCommand, PassiveModeOp, NotDispatched, OperationDone, TakeCommand,
       IdleTimerAfterRead
  <2>2. ASSUME NEW c \in Commands, AuthOp(c) \/ RefuseCommand(c) \/ RefuseTransfer(c)
        PROVE  fate = "running" /\ fate' = fate
    BY <2>2 DEF AuthOp, RefuseCommand, RefuseTransfer, NotDispatched, OperationDone, TakeCommand,
       IdleTimerAfterRead
  <2>3. ASSUME NEW c \in Commands, NEW o \in OpIds, StartTransfer(c, o)
        PROVE  fate = "running" /\ fate' = fate
    BY <2>3 DEF StartTransfer, TakeCommand, IdleTimerAfterRead
  <2>4. ASSUME NEW c \in Commands, CommandThrows(c) PROVE fate = "running" /\ Fatal
    BY <2>4 DEF CommandThrows, Fatal
  <2> QED
    BY <1>2, <2>1, <2>2, <2>3, <2>4 DEF HandleCommand
<1>3. CASE ReadEof \/ ReadError \/ ReadAborted \/ WelcomeFailed \/ KeepaliveDone
  BY <1>3 DEF ReadEof, ReadError, ReadAborted, WelcomeFailed, KeepaliveDone, DestroySession
<1>4. CASE WelcomeWritten \/ ReadReady \/ Tick \/ IdleTimer \/ WriteReady
  BY <1>4 DEF WelcomeWritten, ReadReady, Tick, IdleTimer, IdleTimerFrame, WriteReady
<1>5. CASE WriteHandler
  BY <1>5 DEF WriteHandler, MessageWritten, MessageFailed, MessageWrittenFatal, Fatal
<1>6. CASE AcceptReady \/ DataReady \/ OrphanRuns
  BY <1>6 DEF AcceptReady, DataReady, OrphanRuns
<1>7. CASE AcceptHandler
  <2>1. PICK o \in OpIds :
          DataConnectionAccepted(o) \/ DataConnectionFailed(o) \/ AcceptAborted(o)
            \/ ListingThrows(o) \/ AcceptAbortedThrows(o)
    BY <1>7 DEF AcceptHandler
  <2> QED
    BY <2>1 DEF DataConnectionAccepted, DataConnectionFailed, AcceptAborted, ListingThrows,
       AcceptAbortedThrows, EndProcess, Fatal
<1>8. CASE TransferHandler
  <2>1. PICK o \in OpIds :
          ListWritten(o) \/ TransferAborted(o) \/ DealEvent(o) \/ DealEventFatal(o)
    BY <1>8 DEF TransferHandler
  <2>2. fate = "running"
    BY <2>1 DEF ListWritten, TransferAborted, DealEvent, SendFileEvent, RecvFileEvent,
       DealEventFatal
  <2>3. \/ CompleteTransfer(o) \/ AbandonTransfer(o)
        \/ ContinueTransfer(o, "waiting") \/ ContinueTransfer(o, "limited")
        \/ Fatal
    BY <2>1 DEF ListWritten, TransferAborted, DealEvent, SendFileEvent, RecvFileEvent,
       EndProcess, Fatal
  <2> QED
    BY <2>2, <2>3 DEF CompleteTransfer, AbandonTransfer, ContinueTransfer
<1> QED
  BY <1>1, <1>2, <1>3, <1>4, <1>5, <1>6, <1>7, <1>8 DEF Next, Server, ReadHandler

(* The read loop of a session that is kept after the end of file is over.   *)
ReadLoopOver == keepWait # "none" => read = "none"

LEMMA ReadLoopOverStep == TypeOK /\ ReadLoopOver /\ [Next]_vars => ReadLoopOver'
<1> SUFFICES ASSUME TypeOK, ReadLoopOver, [Next]_vars PROVE ReadLoopOver'
  OBVIOUS
<1> USE DEF ReadLoopOver, Fired
<1>1. CASE Client \/ WriteReady \/ DataReady \/ AcceptReady \/ OrphanRuns \/ UNCHANGED vars
  BY <1>1 DEF Client, ClientSend, ClientConnect, ClientClose, WriteReady, DataReady, AcceptReady,
     OrphanRuns, vars, stateVars
<1>2. CASE WelcomeWritten \/ WelcomeFailed \/ ReadReady \/ ReadEof \/ ReadError \/ ReadAborted
             \/ KeepaliveDone
  BY <1>2 DEF WelcomeWritten, WelcomeFailed, ReadReady, ReadEof, ReadError, ReadAborted,
     KeepaliveDone, DestroySession
<1>3. CASE Tick \/ IdleTimer
  BY <1>3 DEF Tick, IdleTimer, IdleTimerFrame, CloseByTimer
<1>4. CASE HandleCommand
  <2>1. \/ read = "command" /\ keepWait' = Fired(keepWait)
        \/ UNCHANGED stateVars
    BY <1>4 DEF HandleCommand, BlankLine, AnswerCommand, PassiveModeOp, AuthOp, RefuseCommand,
       RefuseTransfer, StartTransfer, NotDispatched, OperationDone, TakeCommand,
       IdleTimerAfterRead, update_idle_timer, CommandThrows, EndProcess
  <2> QED
    BY <2>1 DEF stateVars
<1>5. CASE WriteHandler \/ AcceptHandler \/ TransferHandler
  <2>1. read' = read /\ (UNCHANGED keepWait \/ keepWait' = Fired(keepWait))
    <3>1. ASSUME RestartIdleTimer PROVE UNCHANGED keepWait \/ keepWait' = Fired(keepWait)
      BY <3>1 DEF RestartIdleTimer, cancel_idle_timer, update_idle_timer
    <3>2. CASE WriteHandler
      BY <3>1, <3>2 DEF WriteHandler, MessageWritten, MessageWrittenFatal, MessageFailed,
         EndProcess, stateVars
    <3>3. CASE AcceptHandler
      BY <3>1, <3>3 DEF AcceptHandler, DataConnectionAccepted, ListingThrows,
         DataConnectionFailed, AcceptAborted, AcceptAbortedThrows, EndProcess, stateVars
    <3>4. CASE TransferHandler
      BY <3>1, <3>4 DEF TransferHandler, ListWritten, TransferAborted, DealEvent, SendFileEvent,
         RecvFileEvent, DealEventFatal, CompleteTransfer, AbandonTransfer, ContinueTransfer,
         EndProcess, stateVars
    <3> QED
      BY <1>5, <3>2, <3>3, <3>4
  <2> QED
    BY <2>1
<1> QED
  BY <1>1, <1>2, <1>3, <1>4, <1>5 DEF Next, Server, ReadHandler

LEMMA ReadLoopOverCorrect == Spec => []ReadLoopOver
<1>1. Init => ReadLoopOver
  BY DEF Init, ReadLoopOver
<1>2. Base => TypeOK
  BY DEF Base
<1> QED
  BY <1>1, <1>2, ReadLoopOverStep, BaseCorrect, PTL DEF Spec

(* A command is handled when no operation is alive, the data socket of a    *)
(* transfer is open, and no accept was aborted.                             *)
LEMMA FatalHasCause ==
  ASSUME Base, Held, Alone, ReadLoopOver, Fatal
  PROVE  NoProcessEnd'
<1>1. ASSUME NEW c \in Commands, CommandThrows(c) PROVE NoProcessEnd'
  <2>1. keepWait = "none" /\ LiveOps = {}
    BY <1>1 DEF CommandThrows, ReadLoopOver, Alone, Serial, Live, LiveOps
  <2>2. UNCHANGED stateVars /\ fate' \in {"filesystem", "address", "listen"}
    BY <1>1 DEF CommandThrows, EndProcess
  <2> QED
    BY <2>1, <2>2 DEF stateVars, NoProcessEnd, LiveOps
<1>2. CASE MessageWrittenFatal
  <2>1. TypeOK /\ 1 \in DOMAIN queue /\ Head(queue) = queue[1]
    BY <1>2 DEF MessageWrittenFatal, Base, TypeOK, WriteDiscipline
  <2>2. Head(queue).token # NoOp => data = "open"
    BY <2>1, TokenReplies DEF Alone, ExclusiveDataSocket
  <2>3. fate' = "log"
    BY <1>2, <2>2 DEF MessageWrittenFatal, EndProcess
  <2> QED
    BY <2>3 DEF NoProcessEnd
<1>3. ASSUME NEW o \in OpIds PROVE ~ AcceptAbortedThrows(o) /\ ~ DealEventFatal(o)
  BY DEF AcceptAbortedThrows, DealEventFatal, Alone, NoneAborted, ExclusiveDataSocket
<1>4. CASE fate' \in {"filesystem", "signal", "spinning"}
  BY <1>4 DEF NoProcessEnd
<1> QED
  BY <1>1, <1>2, <1>3, <1>4 DEF Fatal

(* No transfer of a client that waits for its replies follows a null        *)
(* data_socket_ or works on a closed one, no accept logs the port of a      *)
(* closed acceptor, and none asks a closed control socket for its address   *)
(* while a transfer is under way (SendFileOp, RecvFileOp, BasicOp,          *)
(* PassiveModeOp), whatever fails.                                          *)
THEOREM NoProcessEndCorrect ==
  ASSUME ~ Pipelining
  PROVE  Spec => []NoProcessEnd
<1>1. Init => NoProcessEnd
  BY DEF Init, NoProcessEnd
<1>2. Base /\ Held /\ Alone /\ ReadLoopOver /\ NoProcessEnd /\ [Next]_vars => NoProcessEnd'
  <2>1. CASE Next
    BY <2>1, OnlyFatalEnds, FatalHasCause DEF NoProcessEnd
  <2>2. CASE UNCHANGED vars
    BY <2>2 DEF vars, stateVars, NoProcessEnd, LiveOps
  <2> QED
    BY <2>1, <2>2
<1> QED
  BY <1>1, <1>2, AloneCorrect, ReadLoopOverCorrect, BaseCorrect, HeldCorrect, PTL DEF Spec

-----------------------------------------------------------------------------
(* The session as a reply channel: what a step does to the mapped state.    *)
LEMMA TurnIdle ==
  ASSUME inbox = <<>>, \A o \in OpIds : ~ Live(o)
  PROVE  Turn = "idle"
  BY DEF Turn, Live, LiveOps

LEMMA TurnAsked ==
  ASSUME Alone, object = "live", inbox # <<>>
  PROVE  Turn = "asked"
  BY DEF Turn, Alone, Serial, Live, LiveOps

LEMMA TurnAccepting ==
  ASSUME Alone, object = "live", NEW o \in OpIds,
         phase[o] \in {"accepting", "accepted", "acceptfailed"}
  PROVE  Turn = "asked"
<1>1. \A p \in OpIds : p # o => phase[p] = "none"
  BY DEF Alone, Serial, Live
<1>2. LiveOps # {}
  BY DEF LiveOps
<1> QED
  BY <1>1, <1>2 DEF Turn

LEMMA TurnStarted ==
  ASSUME object = "live", NEW o \in OpIds,
         phase[o] \in {"replying", "waiting", "ready", "failed", "limited"}
  PROVE  Turn = "started"
  BY DEF Turn

(* What the handlers do to the queue.                                       *)
LEMMA NoReplies == RepliesOf(<<>>) = <<>>
  BY DEF RepliesOf

LEMMA RepliesOfType ==
  ASSUME NEW q \in Seq(Message)
  PROVE  /\ RepliesOf(q) \in Seq({"preliminary", "final"})
         /\ Len(RepliesOf(q)) = Len(q)
         /\ \A i \in 1 .. Len(q) : RepliesOf(q)[i] = ReplyOf(q[i])
<1>1. DOMAIN q = 1 .. Len(q) /\ Len(q) \in Nat
  OBVIOUS
<1>2. ASSUME NEW m PROVE ReplyOf(m) \in {"preliminary", "final"}
  BY DEF ReplyOf
<1> QED
  BY <1>1, <1>2 DEF RepliesOf

LEMMA SameSequence ==
  ASSUME NEW R, NEW s \in Seq(R), NEW t \in Seq(R), Len(s) = Len(t),
         \A i \in 1 .. Len(s) : s[i] = t[i]
  PROVE  s = t
  OBVIOUS

LEMMA OneReply ==
  ASSUME NEW q \in Seq(Message), NEW m \in Message
  PROVE  RepliesOf(q \o <<m>>) = Append(RepliesOf(q), ReplyOf(m))
<1> DEFINE R == {"preliminary", "final"}
           p == q \o <<m>>
           s == RepliesOf(p)
           t == Append(RepliesOf(q), ReplyOf(m))
<1>1. /\ p \in Seq(Message) /\ Len(p) = Len(q) + 1
      /\ \A i \in 1 .. Len(q) : p[i] = q[i]
      /\ p[Len(q) + 1] = m
  OBVIOUS
<1> HIDE DEF p
<1>2. /\ s \in Seq(R) /\ Len(s) = Len(q) + 1
      /\ \A i \in 1 .. Len(q) : s[i] = ReplyOf(q[i])
      /\ s[Len(q) + 1] = ReplyOf(m)
  BY <1>1, RepliesOfType
<1>3. ReplyOf(m) \in R
  BY DEF ReplyOf
<1>4. /\ t \in Seq(R) /\ Len(t) = Len(q) + 1
      /\ \A i \in 1 .. Len(q) : t[i] = ReplyOf(q[i])
      /\ t[Len(q) + 1] = ReplyOf(m)
  BY <1>3, RepliesOfType
<1>5. \A i \in 1 .. Len(s) : s[i] = t[i]
  BY <1>2, <1>4
<1> HIDE DEF s, t
<1> QED
  BY <1>2, <1>4, <1>5, SameSequence DEF p, s, t

LEMMA TailReplies ==
  ASSUME NEW q \in Seq(Message), q # <<>>
  PROVE  RepliesOf(q) # <<>> /\ RepliesOf(Tail(q)) = Tail(RepliesOf(q))
<1> DEFINE R == {"preliminary", "final"}
           p == Tail(q)
           s == RepliesOf(p)
           t == Tail(RepliesOf(q))
<1>1. /\ p \in Seq(Message) /\ Len(q) > 0 /\ Len(p) = Len(q) - 1
      /\ \A i \in 1 .. Len(q) - 1 : p[i] = q[i + 1]
  OBVIOUS
<1> HIDE DEF p
<1>2. /\ s \in Seq(R) /\ Len(s) = Len(q) - 1
      /\ \A i \in 1 .. Len(q) - 1 : s[i] = ReplyOf(q[i + 1])
  BY <1>1, RepliesOfType
<1>3. RepliesOf(q) # <<>> /\ RepliesOf(q) \in Seq(R) /\ Len(RepliesOf(q)) = Len(q)
  BY <1>1, RepliesOfType
<1>4. /\ t \in Seq(R) /\ Len(t) = Len(q) - 1
      /\ \A i \in 1 .. Len(q) - 1 : t[i] = RepliesOf(q)[i + 1]
  BY <1>1, <1>3
<1>5. \A i \in 1 .. Len(q) : RepliesOf(q)[i] = ReplyOf(q[i])
  BY RepliesOfType
<1> HIDE DEF s, t
<1>6. \A i \in 1 .. Len(s) : s[i] = t[i]
  <2> SUFFICES ASSUME NEW i \in 1 .. Len(q) - 1
               PROVE  s[i] = t[i]
    BY <1>2
  <2>1. i + 1 \in 1 .. Len(q)
    BY <1>1
  <2>2. RepliesOf(q)[i + 1] = ReplyOf(q[i + 1])
    BY <1>5, <2>1
  <2> QED
    BY <1>2, <1>4, <2>2
<1> QED
  BY <1>2, <1>3, <1>4, <1>6, SameSequence DEF p, s, t

-----------------------------------------------------------------------------
(* The steps of the reply channel.                                          *)
RepliesStep == [Replies!Next]_(Replies!vars)

LEMMA StutterReplies ==
  ASSUME UNCHANGED <<object, inbox, phase, queue>>
  PROVE  RepliesStep
  BY DEF RepliesStep, Replies!vars, Turn, LiveOps

LEMMA GiveUpReplies ==
  ASSUME Turn' = "idle", queue' = queue
  PROVE  RepliesStep
  BY DEF RepliesStep, Replies!Next, Replies!GiveUp

LEMMA DropReplies ==
  ASSUME queue' = <<>>, Turn' \in {Turn, "idle"}
  PROVE  RepliesStep
  BY NoReplies DEF RepliesStep, Replies!Next, Replies!Drop

LEMMA FinishReplies ==
  ASSUME TypeOK, Turn \in {"asked", "started"}, Turn' = "idle",
         NEW code \in Code \ {150}, queue' = queue \o Reply(code)
  PROVE  RepliesStep
<1> DEFINE m == [code |-> code, token |-> NoOp]
<1>1. queue \in Seq(Message) /\ m \in Message /\ queue' = queue \o <<m>>
  BY DEF TypeOK, Message, Reply
<1>2. ReplyOf(m) = "final"
  BY DEF ReplyOf
<1>3. RepliesOf(queue') = Append(RepliesOf(queue), "final")
  BY <1>1, <1>2, OneReply
<1> QED
  BY <1>3 DEF RepliesStep, Replies!Next, Replies!Finish

LEMMA StartReplies ==
  ASSUME TypeOK, Turn = "asked", Turn' = "started",
         NEW o \in OpIds, queue' = queue \o <<[code |-> 150, token |-> o]>>
  PROVE  RepliesStep
<1> DEFINE m == [code |-> 150, token |-> o]
<1>1. queue \in Seq(Message) /\ m \in Message /\ queue' = queue \o <<m>>
  BY DEF TypeOK, Message, Code
<1>2. ReplyOf(m) = "preliminary"
  BY DEF ReplyOf
<1>3. RepliesOf(queue') = Append(RepliesOf(queue), "preliminary")
  BY <1>1, <1>2, OneReply
<1> QED
  BY <1>3 DEF RepliesStep, Replies!Next, Replies!Start

LEMMA DeliverReplies ==
  ASSUME TypeOK, queue # <<>>, queue' = Tail(queue), Turn' = Turn
  PROVE  RepliesStep
<1>1. queue \in Seq(Message)
  BY DEF TypeOK
<1> QED
  BY <1>1, TailReplies DEF RepliesStep, Replies!Next, Replies!Deliver

LEMMA DestroySessionReplies == ASSUME DestroySession PROVE RepliesStep
  BY DropReplies DEF DestroySession, Turn

(* A step that leaves no operation and no command.                          *)
LEMMA LeavesIdle ==
  ASSUME inbox' = <<>>, \A o \in OpIds : ~ Live(o)'
  PROVE  Turn' = "idle"
  BY DEF Turn, Live, LiveOps

-----------------------------------------------------------------------------
(* A command is asked, and answered in the handler or by a transfer.        *)
LEMMA CommandReplies ==
  ASSUME TypeOK, Alone, HandleCommand, "pipe" \notin Faults
  PROVE  RepliesStep
<1>1. Running /\ inbox # <<>> => Turn = "asked"
  BY TurnAsked DEF Running
<1>2. CASE BlankLine
  <2>1. inbox' = <<>> /\ \A o \in OpIds : ~ Live(o)'
    BY <1>2 DEF BlankLine, TakeCommand, Alone, Serial, Live
  <2> QED
    BY <1>2, <2>1, LeavesIdle, GiveUpReplies DEF BlankLine
<1>3. CASE AnswerCommand \/ PassiveModeOp
  <2>1. Turn = "asked"
    BY <1>1, <1>3 DEF AnswerCommand, PassiveModeOp, TakeCommand
  <2>2. inbox' = <<>> /\ \A o \in OpIds : ~ Live(o)'
    BY <1>3, ZenonT(30) DEF AnswerCommand, PassiveModeOp, TakeCommand, AbortAccepts, Alone, Serial, Live
  <2>3. PICK code \in Code \ {150} : queue' = queue \o Reply(code)
    BY <1>3, SMTT(30) DEF AnswerCommand, PassiveModeOp, write_message, Code
  <2> QED
    BY <2>1, <2>2, <2>3, LeavesIdle, FinishReplies
<1>4. ASSUME NEW c \in Commands, AuthOp(c) \/ RefuseCommand(c) \/ RefuseTransfer(c)
      PROVE  RepliesStep
  <2>1. Turn = "asked"
    BY <1>1, <1>4 DEF AuthOp, RefuseCommand, RefuseTransfer, TakeCommand
  <2>2. inbox' = <<>> /\ \A o \in OpIds : ~ Live(o)'
    BY <1>4, SMTT(30) DEF AuthOp, RefuseCommand, RefuseTransfer, TakeCommand, AbortWaits, Alone, Serial, Live
  <2>3. PICK code \in Code \ {150} : queue' = queue \o Reply(code)
    <3>1. CASE AuthOp(c)
      BY <3>1, SMTT(30) DEF AuthOp, write_message, Code
    <3>2. CASE RefuseCommand(c)
      BY <3>2 DEF RefuseCommand, write_message, Code
    <3>3. CASE RefuseTransfer(c)
      BY <3>3 DEF RefuseTransfer, write_message, Code
    <3> QED
      BY <1>4, <3>1, <3>2, <3>3
  <2> QED
    BY <2>1, <2>2, <2>3, LeavesIdle, FinishReplies
<1>5. ASSUME NEW c \in Commands, NEW o \in OpIds, StartTransfer(c, o)
      PROVE  RepliesStep
  <2>1. Turn = "asked" /\ object' = "live" /\ inbox' = <<>>
    BY <1>1, <1>5 DEF StartTransfer, TakeCommand, Running, endVars, Alone, Serial
  <2>2. phase'[o] = "accepting" /\ \A p \in OpIds \ {o} : phase'[p] = "none"
    BY <1>5 DEF StartTransfer, TakeCommand, TypeOK, Alone, Serial, Live
  <2>3. Turn' = "asked"
    BY <2>1, <2>2 DEF Turn, LiveOps
  <2>4. queue' = queue
    BY <1>5 DEF StartTransfer, write_message, TypeOK
  <2> QED
    BY <2>1, <2>3, <2>4 DEF RepliesStep, Replies!vars
<1>6. ASSUME NEW c \in Commands, CommandThrows(c)
      PROVE  RepliesStep
  BY <1>6, StutterReplies DEF CommandThrows, EndProcess, stateVars
<1> QED
  BY <1>2, <1>3, <1>4, <1>5, <1>6 DEF HandleCommand

(* The client asks when nothing is asked.                                   *)
LEMMA ClientReplies ==
  ASSUME TypeOK, Client, ~ Pipelining
  PROVE  RepliesStep
<1>1. ASSUME NEW c \in Commands, ClientSend(c) PROVE RepliesStep
  <2>1. inbox = <<>> /\ LiveOps = {} /\ UNCHANGED <<phase, object, queue>>
    BY <1>1 DEF ClientSend, Answered
  <2>2. object = "live" /\ inbox' # <<>>
    <3>1. object = "live" /\ inbox' = Append(inbox, c)
      BY <1>1 DEF ClientSend, Running
    <3> QED
      BY <2>1, <3>1
  <2>3. Turn = "idle"
    BY <2>1, TurnIdle DEF LiveOps, Live
  <2>4. Turn' = "asked"
    BY <2>1, <2>2 DEF Turn, LiveOps
  <2> QED
    BY <2>1, <2>3, <2>4 DEF RepliesStep, Replies!Next, Replies!Ask
<1>2. CASE ClientConnect \/ ClientClose
  BY <1>2, StutterReplies DEF ClientConnect, ClientClose
<1> QED
  BY <1>1, <1>2 DEF Client

(* The timer, the end of the read loop, and asio.                           *)
LEMMA OtherReplies ==
  ASSUME TypeOK,
         \/ WelcomeWritten \/ WelcomeFailed \/ ReadReady \/ ReadEof \/ ReadError \/ ReadAborted
         \/ Tick \/ IdleTimer \/ KeepaliveDone \/ WriteReady \/ OrphanRuns \/ UNCHANGED vars
  PROVE  RepliesStep
<1>1. CASE DestroySession
  BY <1>1, DestroySessionReplies
<1>2. CASE ~ DestroySession
  <2>1. UNCHANGED <<object, inbox, phase, queue>>
    BY <1>2 DEF WelcomeWritten, WelcomeFailed, ReadReady, ReadEof, ReadError, ReadAborted, Tick,
       IdleTimer, IdleTimerFrame, KeepaliveDone, WriteReady, OrphanRuns, vars, stateVars
  <2> QED
    BY <2>1, StutterReplies
<1> QED
  BY <1>1, <1>2

(* The write loop delivers the replies in their order, or drops them.       *)
LEMMA WriteReplies ==
  ASSUME Base, Held, Alone, WriteHandler
  PROVE  RepliesStep
<1>0. TypeOK /\ (writes # <<>> => queue # <<>> /\ 1 \in DOMAIN queue /\ Head(queue) = queue[1])
  BY DEF Base, TypeOK, WriteDiscipline
<1>1. CASE MessageWritten
  <2>1. queue # <<>> /\ queue' = Tail(queue) /\ UNCHANGED <<object, inbox>>
    BY <1>0, <1>1 DEF MessageWritten
  <2>2. CASE Head(queue).token = NoOp
    <3>1. phase' = phase
      BY <1>1, <2>2 DEF MessageWritten, RunToken
    <3> QED
      BY <1>0, <2>1, <3>1, DeliverReplies DEF Turn, LiveOps
  <2>3. CASE Head(queue).token # NoOp
    <3> DEFINE o == Head(queue).token
    <3>1. o \in OpIds /\ phase[o] = "replying"
      BY <1>0, <1>1, <2>3, TokenReplies DEF MessageWritten
    <3>2. phase' = [phase EXCEPT ![o] = "waiting"]
      BY <1>1, <2>3, <3>1 DEF MessageWritten, RunToken, Alone, ExclusiveDataSocket
    <3> HIDE DEF o
    <3>3. object = "live" /\ object' = "live"
      BY <1>1, <2>1 DEF MessageWritten, Running
    <3>4. phase'[o] = "waiting"
      BY <1>0, <3>1, <3>2 DEF TypeOK
    <3>5. Turn = "started" /\ Turn' = "started"
      BY <3>1, <3>3, <3>4 DEF Turn
    <3> QED
      BY <1>0, <2>1, <3>5, DeliverReplies
  <2> QED
    BY <2>2, <2>3
<1>2. CASE MessageWrittenFatal
  BY <1>2, StutterReplies DEF MessageWrittenFatal, EndProcess, stateVars
<1>3. CASE MessageFailed /\ QueuedOps = {}
  BY <1>3, DropReplies DEF MessageFailed, Turn, LiveOps, opVars
<1>4. CASE MessageFailed /\ QueuedOps # {}
  <2>1. PICK o \in QueuedOps : TRUE
    BY <1>4
  <2>2. o \in OpIds /\ Live(o)
    BY <1>0, <2>1, TokenReplies DEF QueuedOps, Live
  <2>3. inbox' = <<>>
    BY <1>4, <2>2 DEF MessageFailed, Alone, Serial
  <2>4. \A p \in OpIds : ~ Live(p)'
    BY <1>4, <2>1, <2>2 DEF MessageFailed, DestroyOps, AbortWaits, Alone, Serial, Live
  <2> QED
    BY <1>4, <2>3, <2>4, LeavesIdle, DropReplies DEF MessageFailed
<1> QED
  BY <1>1, <1>2, <1>3, <1>4 DEF WriteHandler

(* A transfer whose connection is there starts; one whose accept failed is  *)
(* given up.                                                                *)
LEMMA AcceptReplies ==
  ASSUME TypeOK, Held, Alone, AcceptReady \/ AcceptHandler
  PROVE  RepliesStep
<1>1. CASE AcceptReady
  <2> DEFINE o == Head(accepts)
  <2>1. o \in OpIds /\ phase[o] = "accepting"
    BY <1>1 DEF AcceptReady, TypeOK, Held, AcceptsHold
  <2> HIDE DEF o
  <2>2. PICK next \in {"accepted", "acceptfailed"} : phase' = [phase EXCEPT ![o] = next]
    BY <1>1 DEF AcceptReady, o
  <2>3. object = "live" /\ object' = "live" /\ queue' = queue
    BY <1>1 DEF AcceptReady, Running, endVars
  <2>4. Turn = "asked"
    BY <2>1, <2>3, TurnAccepting
  <2>5. phase'[o] = next /\ \A p \in OpIds \ {o} : phase'[p] = "none"
    BY <2>1, <2>2 DEF TypeOK, Alone, Serial, Live
  <2>6. Turn' = "asked"
    BY <2>1, <2>3, <2>5 DEF Turn, LiveOps
  <2> QED
    BY <2>3, <2>4, <2>6 DEF RepliesStep, Replies!vars
<1>2. ASSUME NEW o \in OpIds, DataConnectionAccepted(o) PROVE RepliesStep
  <2>1. object = "live" /\ object' = "live" /\ phase[o] = "accepted"
    BY <1>2 DEF DataConnectionAccepted, Running, endVars
  <2>2. Turn = "asked"
    BY <2>1, TurnAccepting
  <2>3. phase'[o] = "replying"
    BY <1>2 DEF DataConnectionAccepted, AbortWaits, AbortAccepts
  <2>4. Turn' = "started"
    BY <2>1, <2>3 DEF Turn
  <2> QED
    BY <1>2, <2>2, <2>4, StartReplies DEF DataConnectionAccepted, write_message
<1>3. ASSUME NEW o \in OpIds, DataConnectionFailed(o) PROVE RepliesStep
  <2>1. inbox' = <<>> /\ \A p \in OpIds : ~ Live(p)'
    BY <1>3 DEF DataConnectionFailed, DestroyOps, AbortWaits, AbortAccepts, Alone, Serial, Live
  <2> QED
    BY <1>3, <2>1, LeavesIdle, GiveUpReplies DEF DataConnectionFailed
<1>4. ASSUME NEW o \in OpIds, ListingThrows(o) PROVE RepliesStep
  BY <1>4, StutterReplies DEF ListingThrows, EndProcess, stateVars
<1>5. ASSUME NEW o \in OpIds PROVE ~ AcceptAborted(o) /\ ~ AcceptAbortedThrows(o)
  BY DEF AcceptAborted, AcceptAbortedThrows, Alone, NoneAborted
<1> QED
  BY <1>1, <1>2, <1>3, <1>4, <1>5 DEF AcceptHandler

(* A transfer that started is finished, or given up.                        *)
LEMMA TransferReplies ==
  ASSUME TypeOK, Alone, DataReady \/ TransferHandler
  PROVE  RepliesStep
<1> DEFINE Moving == {"replying", "waiting", "ready", "failed", "limited"}
<1>1. ASSUME NEW o \in OpIds, object = "live", phase[o] \in Moving, CompleteTransfer(o)
      PROVE  RepliesStep
  <2>1. Turn = "started"
    BY <1>1, TurnStarted
  <2>2. inbox' = <<>> /\ \A p \in OpIds : ~ Live(p)'
    BY <1>1 DEF CompleteTransfer, AbortWaits, Alone, Serial, Live
  <2> QED
    BY <1>1, <2>1, <2>2, LeavesIdle, FinishReplies DEF CompleteTransfer, write_message, Code
<1>2. ASSUME NEW o \in OpIds, Live(o), AbandonTransfer(o)
      PROVE  RepliesStep
  <2>1. inbox' = <<>> /\ \A p \in OpIds : ~ Live(p)'
    BY <1>2 DEF AbandonTransfer, DestroyOps, AbortWaits, Alone, Serial, Live
  <2> QED
    BY <1>2, <2>1, LeavesIdle, GiveUpReplies DEF AbandonTransfer
<1>3. ASSUME NEW o \in OpIds, object = "live", phase[o] \in Moving, NEW next \in Moving,
             phase' = [phase EXCEPT ![o] = next], UNCHANGED <<object, queue>>
      PROVE  RepliesStep
  <2>1. phase'[o] = next
    BY <1>3 DEF TypeOK
  <2>2. Turn = "started" /\ Turn' = "started"
    BY <1>3, <2>1 DEF Turn
  <2> QED
    BY <1>3, <2>2 DEF RepliesStep, Replies!vars
<1>4. ASSUME NEW why, EndProcess(why) PROVE RepliesStep
  BY <1>4, StutterReplies DEF EndProcess, stateVars
<1>5. CASE DataReady
  <2>1. PICK o \in OpIds, next \in {"ready", "failed"} :
          phase[o] = "waiting" /\ phase' = [phase EXCEPT ![o] = next]
    BY <1>5 DEF DataReady
  <2>2. object = "live" /\ UNCHANGED <<object, queue>>
    BY <1>5 DEF DataReady, Running
  <2> QED
    BY <2>1, <2>2, <1>3
<1>6. CASE TransferHandler
  <2>1. PICK o \in OpIds :
          ListWritten(o) \/ TransferAborted(o) \/ DealEvent(o) \/ DealEventFatal(o)
    BY <1>6 DEF TransferHandler
  <2>2. object = "live"
    BY <2>1 DEF ListWritten, TransferAborted, DealEvent, SendFileEvent, RecvFileEvent,
       DealEventFatal, Running
  <2>3. CASE ListWritten(o) \/ TransferAborted(o)
    BY <2>2, <2>3, <1>1, <1>2 DEF ListWritten, TransferAborted, Live
  <2>4. CASE SendFileEvent(o)
    BY <2>2, <2>4, <1>1, <1>2, <1>3, <1>4 DEF SendFileEvent, ContinueTransfer, Live
  <2>5. CASE RecvFileEvent(o)
    BY <2>2, <2>5, <1>1, <1>2, <1>3, <1>4 DEF RecvFileEvent, ContinueTransfer, Live
  <2>6. CASE DealEventFatal(o)
    BY <2>6, <1>4 DEF DealEventFatal
  <2> QED
    BY <2>1, <2>3, <2>4, <2>5, <2>6 DEF DealEvent
<1> QED
  BY <1>5, <1>6

(* A session implements a reply channel for a client that waits for its     *)
(* replies, whatever fails but pipe(): each command is answered once and in *)
(* its turn, a transfer by a 150 before (the handlers of Session).          *)
THEOREM ImplementsReplyChannelCorrect ==
  ASSUME ~ Pipelining, "pipe" \notin Faults
  PROVE  Spec => ImplementsReplyChannel
<1>1. Init => Replies!Init
  BY NoReplies, TurnIdle DEF Init, Replies!Init, Live
<1>2. Base /\ Held /\ Alone /\ [Next]_vars => [Replies!Next]_(Replies!vars)
  <2> SUFFICES ASSUME Base, Held, Alone, [Next]_vars PROVE RepliesStep
    BY DEF RepliesStep
  <2>1. TypeOK
    BY DEF Base
  <2> QED
    BY <2>1, CommandReplies, ClientReplies, OtherReplies, WriteReplies, AcceptReplies,
       TransferReplies DEF Next, Server, ReadHandler
<1> QED
  BY <1>1, <1>2, AloneCorrect, BaseCorrect, HeldCorrect, PTL
     DEF Spec, ImplementsReplyChannel, Replies!Spec
=============================================================================
