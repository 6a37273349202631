--------------------------- MODULE TeardownProofs ---------------------------
(***************************************************************************)
(* Theorems about the end of a session: what keeps it alive has a reason,  *)
(* its idle timer comes back, and it takes nothing with it that is needed. *)
(* As in SessionProofs, the counter of operations starts at 0.             *)
(***************************************************************************)
EXTENDS SessionProofs

USE ConstantsAssumption DEF netVars, timerVars, loginVars, portVars, dataVars, opVars, endVars

(* The state of the timer's waits when the read loop has ended, in one of   *)
(* the two ways that leave the session to the timer, or goes on.            *)
KeptAfterEof ==
  /\ keepWait # "none" => stoped /\ read = "none" /\ idleWait # "waiting"
  /\ keepWait = "ready" => Quiet

(* ... or was ended by the timer: it found nothing to do, and only a command *)
(* that had been read by then can change this.                              *)
ClosedByTimer ==
  /\ read = "aborted" => stoped
  /\ stoped /\ read # "none" =>
       /\ idleWait = "none" /\ keepWait = "none"
       /\ (read \in {"aborted", "eof", "reset"} /\ Quiet) \/ read \in {"command", "badfd"}

GreetingWaits == read = "greeting" => idleWait = "none"

TimerWaits == Running /\ ~ stoped /\ read # "greeting" => idleWait # "none"

Ends ==
  /\ KeptAfterEof /\ ClosedByTimer /\ GreetingWaits /\ TimerWaits
  /\ KeepaliveHasReason /\ IdleTimerRestarted

(* All that is known of a reachable state.                                  *)
Known == Base /\ Held /\ OpNumCounts /\ IdleTimerHeld

-----------------------------------------------------------------------------
(* The steps that may leave nothing to do: a restart of the timer is part   *)
(* of each, unless a reply could not be written.                            *)

(* A restart that finds nothing to do does what it is for.                  *)
LEMMA RestartOfQuiet ==
  ASSUME OpNumCounts', Quiet', RestartIdleTimer
  PROVE  IF stoped THEN cancel_idle_timer ELSE update_idle_timer("armed")
  BY PendingIsBusyNext DEF RestartIdleTimer

LEMMA LastMessageRestarts ==
  ASSUME WriteHandler, Quiet', fate' = "running"
  PROVE  RestartIdleTimer \/ writeFailed'
<1>1. CASE MessageWritten
  BY <1>1 DEF MessageWritten, Quiet
<1>2. CASE MessageWrittenFatal
  BY <1>2 DEF MessageWrittenFatal, EndProcess
<1>3. CASE MessageFailed
  BY <1>3 DEF MessageFailed
<1> QED
  BY <1>1, <1>2, <1>3 DEF WriteHandler

LEMMA LastTransferRestarts ==
  ASSUME Base, Held, AcceptReady \/ AcceptHandler \/ DataReady \/ TransferHandler,
         Quiet', fate' = "running"
  PROVE  RestartIdleTimer
<1>1. CASE AcceptReady
  <2>1. 1 \in DOMAIN accepts /\ accepts[1] \in OpIds
    BY <1>1 DEF AcceptReady, Base, TypeOK
  <2>2. phase'[accepts[1]] # "none"
    BY <1>1, <2>1 DEF AcceptReady, Base, TypeOK
  <2> QED
    BY <2>1, <2>2 DEF Quiet, LiveOps
<1>2. CASE AcceptHandler
  <2>1. PICK o \in OpIds :
          \/ DataConnectionAccepted(o) \/ ListingThrows(o) \/ DataConnectionFailed(o)
          \/ AcceptAborted(o) \/ AcceptAbortedThrows(o)
    BY <1>2 DEF AcceptHandler
  <2>2. ~ DataConnectionAccepted(o)
    BY DEF DataConnectionAccepted, AbortWaits, Quiet, LiveOps, Base, TypeOK
  <2>3. ~ ListingThrows(o) /\ ~ AcceptAbortedThrows(o)
    BY DEF ListingThrows, AcceptAbortedThrows, EndProcess
  <2> QED
    BY <2>1, <2>2, <2>3 DEF DataConnectionFailed, AcceptAborted
<1>3. CASE DataReady
  BY <1>3 DEF DataReady, Quiet, LiveOps, Base, TypeOK
<1>4. CASE TransferHandler
  <2>1. PICK o \in OpIds :
          ListWritten(o) \/ TransferAborted(o) \/ DealEvent(o) \/ DealEventFatal(o)
    BY <1>4 DEF TransferHandler
  <2>2. ~ DealEventFatal(o) /\ ~ EndProcess("spinning") /\ ~ EndProcess("signal")
    BY DEF DealEventFatal, EndProcess
  <2>3. ~ ContinueTransfer(o, "waiting") /\ ~ ContinueTransfer(o, "limited")
    BY DEF ContinueTransfer, Quiet, LiveOps, Base, TypeOK
  <2> QED
    BY <2>1, <2>2, <2>3 DEF ListWritten, TransferAborted, DealEvent, SendFileEvent,
       RecvFileEvent, CompleteTransfer, AbandonTransfer
<1> QED
  BY <1>1, <1>2, <1>3, <1>4

Handlers ==
  WriteHandler \/ AcceptReady \/ AcceptHandler \/ DataReady \/ TransferHandler

(* What these handlers leave alone.                                         *)
LEMMA HandlersFrame ==
  ASSUME Handlers
  PROVE  /\ UNCHANGED <<object, stoped, read>>
         /\ RestartIdleTimer \/ UNCHANGED timerVars
         /\ fate = "running" /\ Running
<1>1. CASE WriteHandler
  BY <1>1 DEF WriteHandler, MessageWritten, MessageWrittenFatal, MessageFailed, EndProcess,
     stateVars, Running
<1>2. CASE AcceptReady \/ AcceptHandler
  BY <1>2 DEF AcceptReady, AcceptHandler, DataConnectionAccepted, ListingThrows,
     DataConnectionFailed, AcceptAborted, AcceptAbortedThrows, EndProcess, stateVars, Running
<1>3. CASE DataReady \/ TransferHandler
  BY <1>3 DEF DataReady, TransferHandler, ListWritten, TransferAborted, DealEvent,
     SendFileEvent, RecvFileEvent, DealEventFatal, CompleteTransfer, AbandonTransfer,
     ContinueTransfer, EndProcess, stateVars, Running
<1> QED
  BY <1>1, <1>2, <1>3 DEF Handlers

(* The write loop and the operations keep what is known of the ends.        *)
LEMMA HandlersEnds ==
  ASSUME Known, OpNumCounts', Ends, Handlers
  PROVE  Ends'
<1>1. ~ Quiet
  BY WriteHandlerBusy, TransfersBusy DEF Handlers, Known
<1>2. Quiet' /\ fate' = "running" => RestartIdleTimer \/ writeFailed'
  BY LastMessageRestarts, LastTransferRestarts DEF Handlers, Known
<1>3. /\ UNCHANGED <<object, stoped, read>>
      /\ RestartIdleTimer \/ UNCHANGED timerVars
      /\ Running
  BY HandlersFrame
<1>4. TimerTypes /\ writeFailed \in BOOLEAN
  BY DEF Known, Base, TypeOK, TimerTypes
<1>5. RestartIdleTimer => \/ UNCHANGED timerVars
                          \/ Quiet' /\ stoped /\ cancel_idle_timer
                          \/ Quiet' /\ ~ stoped /\ update_idle_timer("armed")
  BY PendingIsBusyNext DEF RestartIdleTimer
<1>6. /\ idleWait' \in {idleWait, "ready"} /\ (idleWait = "none" <=> idleWait' = "none")
      /\ idleWait' = "waiting" => idleWait = "waiting"
      /\ keepWait = "none" <=> keepWait' = "none"
  BY <1>3, <1>4, <1>5 DEF TimerTypes, cancel_idle_timer, update_idle_timer, Fired
<1>7. KeptAfterEof'
  BY <1>1, <1>3, <1>4, <1>5, <1>6 DEF Ends, KeptAfterEof
<1>8. ClosedByTimer' /\ GreetingWaits' /\ TimerWaits'
  BY <1>1, <1>3, <1>6 DEF Ends, ClosedByTimer, GreetingWaits, TimerWaits, Running
<1>9. KeepaliveHasReason'
  <2> SUFFICES ASSUME keepWait' = "waiting", fate' = "running", ~ writeFailed', Quiet'
               PROVE  FALSE
    BY <1>3, <1>4, <1>6 DEF Ends, KeptAfterEof, KeepaliveHasReason
  <2>1. IF stoped THEN cancel_idle_timer ELSE update_idle_timer("armed")
    BY <1>2, RestartOfQuiet
  <2> QED
    BY <2>1, <1>4 DEF cancel_idle_timer, update_idle_timer, Fired, TimerTypes
<1>10. IdleTimerRestarted'
  <2> SUFFICES ASSUME Running', ~ stoped', read' # "greeting", Quiet', ~ writeFailed'
               PROVE  expiry' # "max" /\ idleWait' # "none"
    BY DEF IdleTimerRestarted
  <2>1. update_idle_timer("armed")
    BY <1>2, <1>3, RestartOfQuiet DEF Running
  <2>2. idleWait # "none"
    BY <1>3 DEF Ends, TimerWaits
  <2> QED
    BY <2>1, <2>2, <1>6 DEF update_idle_timer
<1> QED
  BY <1>7, <1>8, <1>9, <1>10 DEF Ends
-----------------------------------------------------------------------------
(* The read loop, the timer and the client.                                 *)

(* A command is handled when the read loop goes on, and leaves the timer    *)
(* armed when there is nothing to do.                                       *)
LEMMA CommandSetsTimer ==
  ASSUME HandleCommand, OpNumCounts', Known
  PROVE  /\ Running /\ read = "command" /\ UNCHANGED <<object, stoped>>
         /\ \/ UNCHANGED stateVars /\ fate' # "running"
            \/ /\ read' \in {"badfd", "command"} \/ (~ stoped /\ read' = "pending")
               /\ UNCHANGED <<fate, writeFailed>>
               /\ idleWait' = Fired(idleWait) /\ keepWait' = Fired(keepWait)
               /\ Quiet' /\ ~ stoped => expiry' = "armed"
<1>. USE DEF TakeCommand
<1>1. CASE BlankLine \/ AnswerCommand \/ PassiveModeOp
  BY <1>1, PendingIsBusyNext DEF BlankLine, AnswerCommand, PassiveModeOp, NotDispatched,
     OperationDone, IdleTimerAfterRead, update_idle_timer
<1>2. ASSUME NEW c \in Commands, AuthOp(c) \/ RefuseCommand(c) \/ RefuseTransfer(c)
      PROVE  /\ Running /\ read = "command" /\ UNCHANGED <<object, stoped>>
             /\ read' \in {"badfd", "command"} \/ (~ stoped /\ read' = "pending")
             /\ UNCHANGED <<fate, writeFailed>>
             /\ idleWait' = Fired(idleWait) /\ keepWait' = Fired(keepWait)
             /\ Quiet' /\ ~ stoped => expiry' = "armed"
  BY <1>2, PendingIsBusyNext DEF AuthOp, RefuseCommand, RefuseTransfer, NotDispatched,
     OperationDone, IdleTimerAfterRead, update_idle_timer
<1>3. ASSUME NEW c \in Commands, NEW o \in OpIds, StartTransfer(c, o)
      PROVE  /\ Running /\ read = "command" /\ UNCHANGED <<object, stoped>>
             /\ read' \in {"badfd", "command"} \/ (~ stoped /\ read' = "pending")
             /\ UNCHANGED <<fate, writeFailed>>
             /\ idleWait' = Fired(idleWait) /\ keepWait' = Fired(keepWait)
             /\ ~ Quiet'
  BY <1>3 DEF StartTransfer, IdleTimerAfterRead, update_idle_timer, Quiet, LiveOps, Known, Base,
     TypeOK
<1>4. ASSUME NEW c \in Commands, CommandThrows(c)
      PROVE  /\ Running /\ read = "command" /\ UNCHANGED <<object, stoped>>
             /\ UNCHANGED stateVars /\ fate' # "running"
  BY <1>4 DEF CommandThrows, EndProcess, stateVars
<1> QED
  BY <1>1, <1>2, <1>3, <1>4 DEF HandleCommand

LEMMA CommandEnds ==
  ASSUME Known, OpNumCounts', Ends, HandleCommand
  PROVE  Ends'
<1>1. CASE UNCHANGED stateVars /\ fate' # "running"
  BY <1>1 DEF Ends, KeptAfterEof, ClosedByTimer, GreetingWaits, TimerWaits, KeepaliveHasReason,
     IdleTimerRestarted, Quiet, LiveOps, Running, stateVars
<1>2. ASSUME ~ (UNCHANGED stateVars /\ fate' # "running") PROVE Ends'
  <2>1. /\ Running /\ read = "command" /\ UNCHANGED <<object, stoped, fate, writeFailed>>
        /\ read' \in {"badfd", "command"} \/ (~ stoped /\ read' = "pending")
        /\ idleWait' = Fired(idleWait) /\ keepWait' = Fired(keepWait)
        /\ Quiet' /\ ~ stoped => expiry' = "armed"
    BY <1>2, CommandSetsTimer
  <2>2. keepWait = "none"
    BY <2>1 DEF Ends, KeptAfterEof
  <2>3. keepWait' = "none" /\ (idleWait # "none" => idleWait' # "none")
    BY <2>1, <2>2 DEF Fired
  <2> QED
    BY <2>1, <2>3 DEF Ends, KeptAfterEof, ClosedByTimer, GreetingWaits, TimerWaits, KeepaliveHasReason,
       IdleTimerRestarted, Running
<1> QED
  BY <1>1, <1>2

(* A session that is destroyed has no wait left and is not running.         *)
LEMMA DestroyedEnds == ASSUME DestroySession PROVE Ends'
  BY DEF DestroySession, Ends, KeptAfterEof, ClosedByTimer, GreetingWaits, TimerWaits, KeepaliveHasReason,
     IdleTimerRestarted, Running

LEMMA OtherEnds ==
  ASSUME Known, Ends,
         \/ Client \/ WelcomeWritten \/ WelcomeFailed \/ ReadReady \/ ReadEof \/ ReadError
         \/ ReadAborted \/ Tick \/ IdleTimer \/ KeepaliveDone \/ WriteReady \/ OrphanRuns
         \/ UNCHANGED vars
  PROVE  Ends'
<1>. USE DEF Ends, KeptAfterEof, ClosedByTimer, GreetingWaits, TimerWaits, KeepaliveHasReason,
             IdleTimerRestarted, Quiet, LiveOps, Running
<1>1. CASE DestroySession
  BY <1>1, DestroyedEnds
<1>2. CASE WelcomeWritten
  BY <1>2 DEF WelcomeWritten
<1>3. CASE ReadReady
  BY <1>3 DEF ReadReady
<1>4. CASE ReadEof /\ ~ DestroySession
  <2>1. ~ Quiet
    BY <1>4, PendingIsBusy DEF ReadEof, Known, exists_pending_operator
  <2>2. ~ Quiet' /\ keepWait' = "waiting" /\ stoped' /\ read' = "none" /\ idleWait' # "waiting"
    BY <1>4, <2>1 DEF ReadEof, Fired
  <2> QED
    BY <2>2
<1>5. CASE Tick
  BY <1>5 DEF Tick
<1>6. CASE IdleTimer
  <2>1. /\ Running /\ TimerDue
        /\ UNCHANGED <<object, expiry, keepWait, queue, phase, writeFailed, fate>>
    BY <1>6 DEF IdleTimer, IdleTimerFrame
  <2>2. CASE UNCHANGED <<stoped, read>> /\ idleWait' = (IF stoped THEN "none" ELSE "waiting")
    BY <2>1, <2>2 DEF TimerDue
  <2>3. CASE ~ stoped /\ expiry = "passed" /\ idleWait' = "none" /\ CloseByTimer
    <3>1. Quiet
      BY <2>3 DEF Known, IdleTimerHeld
    <3>2. /\ keepWait' = "none" /\ idleWait' = "none" /\ stoped' /\ Quiet'
          /\ read' = IF read = "pending" THEN "aborted" ELSE read
      BY <2>1, <2>3, <3>1 DEF CloseByTimer
    <3>3. read # "greeting"
      BY <2>1 DEF TimerDue
    <3>4. read \in {"pending", "command", "eof", "reset", "aborted", "badfd", "none"}
      BY <3>3 DEF Known, Base, TypeOK
    <3> QED
      BY <3>2, <3>4
  <2> QED
    BY <1>6, <2>2, <2>3 DEF IdleTimer
<1>7. CASE Client \/ WriteReady
  <2>1. UNCHANGED <<object, stoped, read, timerVars, queue, phase, writeFailed, fate>>
    BY <1>7 DEF Client, ClientSend, ClientConnect, ClientClose, WriteReady
  <2> QED
    BY <2>1
<1>8. CASE OrphanRuns
  <2>1. /\ object' = "destroyed"
        /\ UNCHANGED <<stoped, read, timerVars, queue, phase, writeFailed>>
        /\ fate = "running"
    BY <1>8 DEF OrphanRuns
  <2> QED
    BY <2>1
<1>9. CASE UNCHANGED vars
  BY <1>9 DEF vars, stateVars
<1> QED
  BY <1>1, <1>2, <1>3, <1>4, <1>5, <1>6, <1>7, <1>8, <1>9
     DEF WelcomeFailed, ReadError, ReadAborted, KeepaliveDone

LEMMA EndsStep == Known /\ OpNumCounts' /\ Ends /\ [Next]_vars => Ends'
<1> SUFFICES ASSUME Known, OpNumCounts', Ends, [Next]_vars PROVE Ends'
  OBVIOUS
<1> QED
  BY HandlersEnds, CommandEnds, OtherEnds DEF Handlers, Next, Server, ReadHandler

LEMMA KnownCorrect ==
  ASSUME StartOpNums = {0}
  PROVE  Spec => []Known
<1>1. OperationsHeld => OpNumCounts
  BY DEF OperationsHeld
<1> QED
  BY <1>1, BaseCorrect, HeldCorrect, OperationsHeldCorrect, IdleTimerHeldCorrect, PTL DEF Known

LEMMA EndsCorrect ==
  ASSUME StartOpNums = {0}
  PROVE  Spec => []Ends
<1>1. Init => Ends
  BY DEF Init, Ends, KeptAfterEof, ClosedByTimer, GreetingWaits, TimerWaits, KeepaliveHasReason,
     IdleTimerRestarted
<1>2. Known => OpNumCounts
  BY DEF Known
<1> QED
  BY <1>1, <1>2, KnownCorrect, EndsStep, PTL DEF Spec

-----------------------------------------------------------------------------
(* The wait that keeps a session after the end of file is left alone only   *)
(* while there is something to do (session.cc, do_read), unless a reply     *)
(* could not be written.                                                    *)
THEOREM KeepaliveHasReasonCorrect ==
  ASSUME StartOpNums = {0}
  PROVE  Spec => []KeepaliveHasReason
<1>1. Ends => KeepaliveHasReason
  BY DEF Ends
<1> QED
  BY <1>1, EndsCorrect, PTL

(* Whatever a session did, its idle timer runs when it has nothing to do    *)
(* (~BasicOp and do_write_message), unless a reply could not be written.    *)
THEOREM IdleTimerRestartedCorrect ==
  ASSUME StartOpNums = {0}
  PROVE  Spec => []IdleTimerRestarted
<1>1. Ends => IdleTimerRestarted
  BY DEF Ends
<1> QED
  BY <1>1, EndsCorrect, PTL

-----------------------------------------------------------------------------
(* A session is destroyed only by the end of its read loop or of the wait   *)
(* that kept it.                                                            *)
LEMMA WhoDestroys ==
  ASSUME Next, object' # object
  PROVE  WelcomeFailed \/ ReadEof \/ ReadError \/ ReadAborted \/ KeepaliveDone
<1>1. ~ Client /\ ~ HandleCommand
  BY DEF Client, ClientSend, ClientConnect, ClientClose, HandleCommand, BlankLine,
     AnswerCommand, PassiveModeOp, AuthOp, RefuseCommand, CommandThrows, RefuseTransfer,
     StartTransfer, TakeCommand, EndProcess, stateVars
<1>2. ~ Handlers
  BY HandlersFrame
<1> QED
  BY <1>1, <1>2 DEF Handlers, Next, Server, WelcomeWritten, ReadReady, ReadHandler, Tick,
     IdleTimer, IdleTimerFrame, WriteReady, OrphanRuns

(* A session that was closed, by its idle timer or at the end of file, takes *)
(* nothing with it that is needed, but for the transfer of a command that   *)
(* had been read as the timer closed it (session.cc, do_read and close).    *)
THEOREM CleanTeardownCorrect ==
  ASSUME StartOpNums = {0}
  PROVE  Spec => CleanTeardown
<1>1. Known /\ Ends /\ [Next]_vars =>
        [object' # object /\ stoped =>
           orphans' = {} \/ (read = "badfd" /\ orphans' = {"operation"})]_vars
  <2> SUFFICES ASSUME Known, Ends, Next, object' # object, stoped
               PROVE  orphans' = {} \/ (read = "badfd" /\ orphans' = {"operation"})
    OBVIOUS
  <2>1. WelcomeFailed \/ ReadEof \/ ReadError \/ ReadAborted \/ KeepaliveDone
    BY WhoDestroys
  <2>2. DestroySession
    BY <2>1 DEF WelcomeFailed, ReadEof, ReadError, ReadAborted, KeepaliveDone, endVars
  <2>3. CASE KeepaliveDone
    <3>1. Quiet /\ idleWait = "none"
      BY <2>3 DEF KeepaliveDone, Ends, KeptAfterEof, Known, Base, TypeOK
    <3>2. writes = <<>> /\ LiveOps = {}
      BY <3>1 DEF Known, Base, TypeOK, WriteDiscipline, Quiet
    <3> QED
      BY <2>2, <3>1, <3>2 DEF DestroySession
  <2>4. CASE ReadEof \/ ReadAborted \/ (ReadError /\ read # "badfd")
    <3>1. Quiet /\ idleWait = "none"
      BY <2>4 DEF ReadEof, ReadAborted, ReadError, Ends, ClosedByTimer
    <3>2. writes = <<>> /\ LiveOps = {}
      BY <3>1 DEF Known, Base, TypeOK, WriteDiscipline, Quiet
    <3> QED
      BY <2>2, <3>1, <3>2 DEF DestroySession
  <2>5. CASE ReadError /\ read = "badfd"
    <3>1. writes = <<>> /\ idleWait = "none"
      BY <2>5 DEF ReadError, Ends, ClosedByTimer
    <3> QED
      BY <2>2, <2>5, <3>1 DEF DestroySession
  <2>6. ~ WelcomeFailed
    BY DEF WelcomeFailed, Ends, ClosedByTimer
  <2> QED
    BY <2>1, <2>3, <2>4, <2>5, <2>6
<1> QED
  BY <1>1, KnownCorrect, EndsCorrect, PTL DEF Spec, CleanTeardown

(* The end of file destroys a session only when no operation is alive.      *)
THEOREM KeptForTransfersCorrect ==
  ASSUME StartOpNums = {0}
  PROVE  Spec => KeptForTransfers
<1>1. Known /\ Ends /\ [Next]_vars => [object' # object /\ read = "eof" => LiveOps = {}]_vars
  <2> SUFFICES ASSUME Known, Ends, Next, object' # object, read = "eof"
               PROVE  LiveOps = {}
    OBVIOUS
  <2>1. ReadEof
    BY WhoDestroys DEF WelcomeFailed, ReadError, ReadAborted, KeepaliveDone, Ends, KeptAfterEof
  <2>2. opNum = 0
    BY <2>1 DEF ReadEof
  <2>3. LiveOps \in SUBSET OpIds
    BY DEF LiveOps
  <2> QED
    BY <2>2, <2>3, SmallSet, FS_EmptySet DEF Known, OpNumCounts
<1> QED
  BY <1>1, KnownCorrect, EndsCorrect, PTL DEF Spec, KeptForTransfers
=============================================================================
