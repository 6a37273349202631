------------------------------ MODULE Session -------------------------------
(***************************************************************************)
(* One FTP session: the handlers of ControlConnection and Transfers, which *)
(* the session's io_context runs one after the other, and the client.      *)
(***************************************************************************)
EXTENDS ControlConnection, Transfers

(* External: the client.  A client that does not pipeline sends a command   *)
(* when all it sent is answered: nothing is being read or transferred, and  *)
(* of the replies at most the last is still queued, written already.  (It   *)
(* also goes on after a transfer that ended without a reply.)               *)
Answered ==
  /\ inbox = <<>> /\ read = "pending"
  /\ LiveOps = {}
  /\ queue = <<>> \/ (Len(queue) = 1 /\ writes = <<"ok">>)

(* The transfers sent and not finished stay within the identities there are.*)
TransfersSent == Cardinality(LiveOps) +
                 Cardinality({i \in DOMAIN inbox : inbox[i] \in TransferCommand})

ClientSend(c) ==
  /\ Running /\ peer = "up" /\ sent < MaxCommands
  /\ Pipelining \/ Answered
  /\ c \in TransferCommand => TransfersSent < Cardinality(OpIds)
  /\ inbox' = Append(inbox, c)
  /\ sent' = sent + 1
  /\ UNCHANGED <<peer, endVars, stoped, read, timerVars, loginVars, queue, writes, opVars,
                 portVars, dataVars, writeFailed, fate>>

ClientConnect ==
  /\ Running /\ acceptor = "listening" /\ backlog < MaxConnections
  /\ backlog' = backlog + 1
  /\ UNCHANGED <<netVars, inbox, endVars, stoped, read, timerVars, loginVars, queue, writes,
                 opVars, acceptor, accepts, dataVars, writeFailed, fate>>

ClientClose ==
  /\ Running
  /\ \/ peer = "up" /\ peer' = "fin"
     \/ peer \in {"up", "fin"} /\ "reset" \in Faults /\ peer' = "reset"
  /\ UNCHANGED <<inbox, sent, endVars, stoped, read, timerVars, loginVars, queue, writes,
                 opVars, portVars, dataVars, writeFailed, fate>>

Client ==
  \/ \E c \in Commands : ClientSend(c)
  \/ ClientConnect
  \/ ClientClose

-----------------------------------------------------------------------------
Server ==
  \/ WelcomeWritten
  \/ WelcomeFailed
  \/ ReadReady
  \/ ReadHandler
  \/ Tick
  \/ IdleTimer
  \/ KeepaliveDone
  \/ WriteReady
  \/ WriteHandler
  \/ AcceptReady
  \/ AcceptHandler
  \/ DataReady
  \/ TransferHandler
  \/ OrphanRuns

Next == Client \/ Server

(* The clock advances, what the network can do it does, and the io_context  *)
(* runs every handler that is ready.  Nothing is assumed of the client but  *)
(* that the replies it is sent get through.                                 *)
Fairness ==
  /\ WF_vars(WelcomeWritten)
  /\ WF_vars(ReadReady) /\ WF_vars(ReadHandler)
  /\ WF_vars(Tick) /\ WF_vars(IdleTimer) /\ WF_vars(KeepaliveDone)
  /\ WF_vars(WriteReady) /\ WF_vars(WriteHandler)
  /\ WF_vars(AcceptReady) /\ WF_vars(AcceptHandler)
  /\ WF_vars(DataReady) /\ WF_vars(TransferHandler)

Spec == Init /\ [][Next]_vars

FairSpec == Spec /\ Fairness

-----------------------------------------------------------------------------
(* Nothing to do: no operation is alive and no reply is queued.  This is    *)
(* what exists_pending_operator means to say by its counter.                *)
Quiet == LiveOps = {} /\ queue = <<>>

(* do_write_message: the control socket has at most one asynchronous write  *)
(* outstanding, and it has one exactly when messages are queued -- a second *)
(* would interleave the bytes of two replies, a missing one would leave a   *)
(* reply in the queue for ever.                                             *)
WriteDiscipline ==
  /\ Len(writes) = IF queue = <<>> THEN 0 ELSE 1
  /\ read = "greeting" => queue = <<>>

(* exists_pending_operator guards every restart of the idle timer: while an *)
(* operation is alive or a reply is queued the timer is never armed,        *)
(* however the completions of several operations and replies interleave.    *)
IdleTimerHeld == expiry # "max" => Quiet

(* ... and conversely a session with nothing to do is never left without    *)
(* its idle timer, unless a reply could not be written: do_write_message    *)
(* drops the queue then, and does not restart the timer.                    *)
IdleTimerRestarted ==
  Running /\ ~ stoped /\ read # "greeting" /\ Quiet /\ ~ writeFailed
    => expiry # "max" /\ idleWait # "none"

(* BasicOp's constructor and destructor keep active_op_num_, and every live *)
(* operation is held by exactly one thing still to come: those that wait    *)
(* for a connection by one accept of the acceptor, those that wait for      *)
(* their 150 to be written by the token of one queued message.              *)
OpNumCounts == opNum = Cardinality(LiveOps)

TokensHold ==
  /\ \A o \in OpIds : phase[o] = "replying" <=> \E i \in DOMAIN queue : queue[i].token = o
  /\ \A i, j \in DOMAIN queue :
       queue[i].token = queue[j].token /\ queue[i].token # NoOp => i = j

AcceptsHold ==
  /\ \A o \in OpIds : phase[o] = "accepting" <=> \E i \in DOMAIN accepts : accepts[i] = o
  /\ \A i, j \in DOMAIN accepts : accepts[i] = accepts[j] => i = j

OperationsHeld == OpNumCounts /\ TokensHold /\ AcceptsHold

(* The wait that keeps a session alive after the client closed the control  *)
(* connection during a transfer is cancelled when the last operation is     *)
(* destroyed or the last reply written: it is never left waiting for        *)
(* nothing, unless a reply could not be written.                            *)
KeepaliveHasReason ==
  keepWait = "waiting" /\ fate = "running" /\ ~ writeFailed => stoped /\ ~ Quiet

(* With a client that waits for its replies, an operation between its 150   *)
(* and its 226 has the data socket of the session to itself, open.          *)
ExclusiveDataSocket ==
  \A o \in OpIds :
    phase[o] \in {"replying", "waiting", "ready", "limited"} => data = "open" /\ owner = o

(* ... so that no handler meets what another has left behind: no transfer   *)
(* follows a null data_socket_ or works on a closed one, no accept logs the *)
(* port of a closed acceptor, and the closed control socket is asked for    *)
(* its address only by a command that was read as the idle timer closed it, *)
(* with no transfer under way, never after an end of file.  The other ends  *)
(* of the process (see Fate) are failures that the handler itself is told   *)
(* of and does not catch, and what an orphan does.                          *)
NoProcessEnd ==
  /\ fate \notin {"nullsocket", "closedsocket", "closedacceptor"}
  /\ fate = "address" => keepWait = "none" /\ LiveOps = {}

(* A session is a reply channel, for a client that waits for its replies.   *)
Turn ==
  IF object = "destroyed" THEN "idle"
  ELSE IF \E o \in OpIds : phase[o] \in {"replying", "waiting", "ready", "failed", "limited"}
  THEN "started"
  ELSE IF inbox # <<>> \/ LiveOps # {} THEN "asked" ELSE "idle"

ReplyOf(message) == IF message.code = 150 THEN "preliminary" ELSE "final"

RepliesOf(messages) == [i \in DOMAIN messages |-> ReplyOf(messages[i])]

Replies == INSTANCE ReplyChannel WITH turn <- Turn, out <- RepliesOf(queue)

(* ... whatever fails, be it the accept, the data connection or the control *)
(* connection -- but not with a failure of pipe(), see RefuseTransfer.      *)
ImplementsReplyChannel == Replies!Spec

(* start_idle_timer closes a session only when nothing is under way in it:  *)
(* it never cuts a transfer or a reply short.                               *)
IdleCloseOnlyWhenQuiet ==
  [][stoped' # stoped /\ read # "eof" => Quiet]_vars

(* A session that was closed before it is destroyed, be it by the idle      *)
(* timer or at the end of file and then kept until its last operation       *)
(* finished, leaves no handler behind that still points to it, whichever of *)
(* its handlers is the last.  There is one exception: a command that had    *)
(* been read when the timer closed the socket is handled all the same, and  *)
(* the next read fails ("badfd") and destroys the session under the         *)
(* transfer this command may have started -- but under nothing else.        *)
CleanTeardown ==
  [][object' # object /\ stoped =>
       orphans' = {} \/ (read = "badfd" /\ orphans' = {"operation"})]_vars

(* The end of file on the control connection never takes the session from   *)
(* under an operation that still points to its context: do_read keeps it as *)
(* long as one is alive.  (Any other read error does.)                      *)
KeptForTransfers ==
  [][object' # object /\ read = "eof" => LiveOps = {}]_vars

-----------------------------------------------------------------------------
(* start_idle_timer: a session that stays quiet is closed in the end.       *)
IdleSessionCloses ==
  (Running /\ read = "pending" /\ Quiet /\ ~ writeFailed)
    ~> (~ Running \/ stoped \/ read # "pending" \/ ~ Quiet)

(* Once the client stops sending, every reply that is queued is written or  *)
(* dropped: the write loop never stops with messages left.                  *)
RepliesDrain == (Running /\ queue # <<>>) ~> (~ Running \/ queue = <<>>)

(* A session whose read loop has ended and that has no operation and no     *)
(* reply left is destroyed, unless a reply could not be written.            *)
StoppedSessionEnds ==
  (Running /\ stoped /\ Quiet /\ ~ writeFailed) ~> ~ Running

(* session.cc, in the handler of the wait that keeps the session: "All      *)
(* operator finished, session is about to be destroyed".  Read as what it   *)
(* says of a session whose client is gone: once all operations finished it  *)
(* is destroyed.                                                            *)
FinishedSessionDestroyed ==
  (Running /\ keepWait # "none" /\ opNum = 0) ~> ~ Running
=============================================================================
