----------------------------- MODULE Transfers ------------------------------
(***************************************************************************)
(* The transfer operations from the moment they wait for their data        *)
(* connection: BasicOp::fetch_passive_connection and the handlers of       *)
(* ListOp, SendFileOp and RecvFileOp (op/basic_op.h, op/list_op.cc,        *)
(* op/send_file_op.cc, op/recv_file_op.cc).  Which bytes are moved is left *)
(* out; what a step of a transfer may do to the session is not.            *)
(***************************************************************************)
EXTENDS SessionContext

(* asio completes the accept that has waited longest: with a connection     *)
(* from the backlog, or with an error.                                      *)
AcceptReady ==
  /\ Running /\ accepts # <<>>
  /\ \/ /\ acceptor = "listening" /\ backlog > 0
        /\ backlog' = backlog - 1
        /\ phase' = [phase EXCEPT ![Head(accepts)] = "accepted"]
     \/ /\ acceptor = "unbound" \/ "accept" \in Faults
        /\ phase' = [phase EXCEPT ![Head(accepts)] = "acceptfailed"]
        /\ UNCHANGED backlog
  /\ accepts' = Tail(accepts)
  /\ UNCHANGED <<netVars, inbox, endVars, stoped, read, timerVars, loginVars, queue, writes,
                 kind, opNum, acceptor, dataVars, writeFailed, fate>>

(* A faulty handler that forgets set_data_socket.                           *)
AcceptedNotStored(o) ==
  /\ Running /\ phase[o] = "accepted"
  /\ close_acceptor
  /\ phase' = [AbortAccepts(phase) EXCEPT ![o] = "replying"]
  /\ write_message(<<[code |-> 150, token |-> o]>>)
  /\ UNCHANGED <<netVars, inbox, endVars, stoped, read, timerVars, loginVars, kind, opNum,
                 dataVars, writeFailed, fate>>

(* The data connection is there: the acceptor closes, the connection takes  *)
(* the place of the data socket, and the 150 reply is queued with the start *)
(* of the transfer as its completion token.                                 *)
DataConnectionAccepted(o) ==
  /\ Running /\ phase[o] = "accepted"
  /\ close_acceptor
  /\ data' = "open" /\ owner' = o
  /\ phase' = [AbortWaits(AbortAccepts(phase)) EXCEPT ![o] = "replying"]
  /\ write_message(<<[code |-> 150, token |-> o]>>)
  /\ UNCHANGED <<netVars, inbox, endVars, stoped, read, timerVars, loginVars, kind, opNum,
                 writeFailed, fate>>

(* ListOp reads the directory in this handler, and the directory is gone.   *)
ListingThrows(o) ==
  /\ Running /\ phase[o] = "accepted" /\ kind[o] = "LIST" /\ "filesystem" \in Faults
  /\ EndProcess("filesystem")

(* The accept failed: the acceptor closes, the operation goes unanswered.   *)
DataConnectionFailed(o) ==
  /\ Running /\ phase[o] = "acceptfailed"
  /\ close_acceptor
  /\ DestroyOps({o}, AbortAccepts(phase))
  /\ UNCHANGED <<queue, writes>>
  /\ RestartIdleTimer
  /\ UNCHANGED <<netVars, inbox, endVars, stoped, read, loginVars, writeFailed, fate>>

(* The acceptor was closed under the accept.  The handler logs the port of  *)
(* the acceptor, which throws unless PASV has opened it again, and the      *)
(* operation goes unanswered.                                               *)
AcceptAborted(o) ==
  /\ Running /\ phase[o] = "aborted" /\ acceptor # "closed"
  /\ DestroyOps({o}, phase)
  /\ UNCHANGED <<queue, writes>>
  /\ RestartIdleTimer
  /\ UNCHANGED <<netVars, inbox, endVars, stoped, read, portVars, loginVars, writeFailed, fate>>

AcceptAbortedThrows(o) ==
  /\ Running /\ phase[o] = "aborted" /\ acceptor = "closed"
  /\ EndProcess("closedacceptor")

AcceptHandler ==
  \E o \in OpIds :
    \/ DataConnectionAccepted(o)
    \/ ListingThrows(o)
    \/ DataConnectionFailed(o)
    \/ AcceptAborted(o)
    \/ AcceptAbortedThrows(o)

-----------------------------------------------------------------------------
(* asio completes the wait on the data socket.  Only the write of a listing *)
(* reports the error of a connection; the others find out by themselves.    *)
DataReady ==
  /\ Running
  /\ \E o \in OpIds :
       /\ phase[o] = "waiting"
       /\ \/ phase' = [phase EXCEPT ![o] = "ready"]
          \/ /\ kind[o] = "LIST" /\ "data" \in Faults
             /\ phase' = [phase EXCEPT ![o] = "failed"]
  /\ UNCHANGED <<netVars, inbox, endVars, stoped, read, timerVars, loginVars, queue, writes,
                 kind, opNum, portVars, dataVars, writeFailed, fate>>

(* The end of a transfer: 226 is queued, the data socket is closed and      *)
(* dropped, and the operation is destroyed.                                 *)
CompleteTransfer(o) ==
  /\ write_message(Reply(226))
  /\ data' = "null" /\ owner' = NoOp
  /\ phase' = [AbortWaits(phase) EXCEPT ![o] = "none"]
  /\ kind' = [kind EXCEPT ![o] = "none"]
  /\ opNum' = Discounted(1)
  /\ RestartIdleTimer
  /\ UNCHANGED <<netVars, inbox, endVars, stoped, read, portVars, loginVars, writeFailed, fate>>

(* A transfer given up: nothing is replied, and the operation is destroyed. *)
AbandonTransfer(o) ==
  /\ DestroyOps({o}, phase)
  /\ UNCHANGED <<queue, writes>>
  /\ RestartIdleTimer
  /\ UNCHANGED <<netVars, inbox, endVars, stoped, read, portVars, loginVars, writeFailed, fate>>

(* The transfer goes on, after waiting for what next says.                  *)
ContinueTransfer(o, next) ==
  /\ phase' = [phase EXCEPT ![o] = next]
  /\ UNCHANGED <<netVars, inbox, endVars, stoped, read, timerVars, loginVars, queue, writes,
                 kind, opNum, portVars, dataVars, writeFailed, fate>>

(* ListOp: the listing has been written, or not; the handler does not look. *)
ListWritten(o) ==
  /\ Running /\ kind[o] = "LIST" /\ phase[o] \in {"ready", "failed"}
  /\ CompleteTransfer(o)

(* deal_event of SendFileOp and RecvFileOp: the wait failed.                *)
TransferAborted(o) ==
  /\ Running /\ kind[o] \in {"RETR", "STOR"} /\ phase[o] = "failed"
  /\ AbandonTransfer(o)

(* SendFileOp::deal_event works on whatever data socket the context has by  *)
(* now: all is sent, the socket is full, the slice of the speed limit is    *)
(* sent, or sendfile fails.  It fails with an error for a connection that   *)
(* was reset; one that the client closed before the reset came (EPIPE)      *)
(* raises SIGPIPE, which nothing ignores.                                   *)
SendFileEvent(o) ==
  /\ Running /\ kind[o] = "RETR" /\ phase[o] \in {"ready", "limited"}
  /\ data = "open"
  /\ \/ CompleteTransfer(o)
     \/ ContinueTransfer(o, "waiting")
     \/ ContinueTransfer(o, "limited")
     \/ "data" \in Faults /\ AbandonTransfer(o)
     \/ "data" \in Faults /\ EndProcess("signal")

(* RecvFileOp::deal_event: the client closed, all that is there was read,   *)
(* or splice fails.  A failure to write the file is not looked at: the loop *)
(* that empties the pipe never ends.                                        *)
RecvFileEvent(o) ==
  /\ Running /\ kind[o] = "STOR" /\ phase[o] = "ready"
  /\ data = "open"
  /\ \/ CompleteTransfer(o)
     \/ ContinueTransfer(o, "waiting")
     \/ "data" \in Faults /\ AbandonTransfer(o)
     \/ "disk" \in Faults /\ EndProcess("spinning")

DealEvent(o) == SendFileEvent(o) \/ RecvFileEvent(o)

(* There is no data socket any more, or a closed one, on which making it    *)
(* non-blocking throws.                                                     *)
DealEventFatal(o) ==
  /\ Running /\ data # "open"
  /\ \/ kind[o] = "RETR" /\ phase[o] \in {"ready", "limited"}
     \/ kind[o] = "STOR" /\ phase[o] = "ready"
  /\ EndProcess(IF data = "null" THEN "nullsocket" ELSE "closedsocket")

TransferHandler ==
  \E o \in OpIds :
    \/ ListWritten(o)
    \/ TransferAborted(o)
    \/ DealEvent(o)
    \/ DealEventFatal(o)
=============================================================================
