------------------------------ MODULE RecvFile -------------------------------
(***************************************************************************)
(* One STOR from the moment its 150 has been written                       *)
(* (op/recv_file_op.cc): when the data connection is readable, splice from *)
(* it into a pipe and from the pipe to the file until nothing more can be  *)
(* read.  The connection may break and the file may not take the bytes.    *)
(***************************************************************************)
EXTENDS Integers

CONSTANTS
  MaxTotal,     \* bound: the bytes a client uploads
  ReceiveBuffer,   \* bytes the data connection holds
  PipeSize,     \* bytes the pipe holds
  MaxSpins,     \* bound: how far bytes_in_pipe runs ahead of the pipe
  Faults        \* failures that happen

ASSUME RecvAssumption ==
  /\ MaxTotal \in Nat /\ MaxSpins \in Nat
  /\ ReceiveBuffer \in Nat \ {0} /\ PipeSize \in Nat \ {0}
  /\ Faults \subseteq {"reset", "disk"}

VARIABLES
  total,         \* bytes the client has to give
  sent,          \* bytes it has given to the connection
  arrived,       \* bytes in the connection, not yet read
  stor_link,          \* the data connection
  pipe,          \* bytes in the pipe
  bytes_in_pipe, \* bytes_in_pipe, the inner loop's own count of them
  written,       \* bytes in the file
  step,          \* where deal_event is
  stor_verdict        \* what became of the transfer

netVars == <<total, sent, stor_link>>
recvVars == <<netVars, arrived, pipe, bytes_in_pipe, written, step, stor_verdict>>

(* open has emptied the file, and do_recv_file waits for the connection.    *)
RecvInit ==
  /\ total \in 0 .. MaxTotal
  /\ sent = 0 /\ arrived = 0 /\ stor_link = "open"
  /\ pipe = 0 /\ bytes_in_pipe = 0 /\ written = 0
  /\ step = "wait" /\ stor_verdict = "none"

-----------------------------------------------------------------------------
(* External: the data connection has bytes, its end or an error to report.  *)
Readable == arrived > 0 \/ stor_link # "open"

(* A faulty reaction to the end: another wait.                              *)
KeepsWaiting == step' = "wait" /\ UNCHANGED stor_verdict

RemotePeerClosed == step' = "over" /\ stor_verdict' = "complete"

(* deal_event up to its loop: a connection with no bytes is taken for one   *)
(* that was closed.                                                         *)
RecvDealEvent ==
  /\ step = "wait" /\ Readable
  /\ \/ arrived = 0 /\ RemotePeerClosed
     \/ arrived > 0 /\ step' = "socket" /\ UNCHANGED stor_verdict
  /\ UNCHANGED <<netVars, arrived, pipe, bytes_in_pipe, written>>

SpliceIn ==
  /\ step = "socket" /\ pipe < PipeSize
  /\ \E n \in 1 .. arrived :
       /\ pipe + n <= PipeSize
       /\ arrived' = arrived - n
       /\ pipe' = pipe + n
       /\ bytes_in_pipe' = n
  /\ step' = "pipe"
  /\ UNCHANGED <<netVars, written, stor_verdict>>

(* try_again and the end of the stream end the loop, any other error ends   *)
(* the operation, without a reply.                                          *)
SpliceNothing ==
  /\ step = "socket"
  /\ arrived = 0 \/ pipe = PipeSize
  /\ \/ stor_link # "reset" /\ step' = "wait" /\ UNCHANGED stor_verdict
     \/ stor_link = "reset" /\ step' = "over" /\ stor_verdict' = "failed"
  /\ UNCHANGED <<netVars, arrived, pipe, bytes_in_pipe, written>>

(* A faulty loop: one splice, and on to the connection again.               *)
LoopOnce == step' = "socket"

Loop == step' = IF bytes_in_pipe' > 0 THEN "pipe" ELSE "socket"

SpliceOut ==
  /\ step = "pipe"
  /\ \E n \in 1 .. bytes_in_pipe :
       /\ n <= pipe
       /\ pipe' = pipe - n
       /\ written' = written + n
       /\ bytes_in_pipe' = bytes_in_pipe - n
  /\ Loop
  /\ UNCHANGED <<netVars, arrived, stor_verdict>>

(* splice fails, because the file takes nothing or the pipe is empty: the   *)
(* -1 it returns is subtracted from bytes_in_pipe.                          *)
SpliceOutFails ==
  /\ step = "pipe"
  /\ pipe = 0 \/ "disk" \in Faults
  /\ bytes_in_pipe < pipe + MaxSpins
  /\ bytes_in_pipe' = bytes_in_pipe + 1
  /\ Loop
  /\ UNCHANGED <<netVars, arrived, pipe, written, stor_verdict>>

RecvHandler == RecvDealEvent \/ SpliceIn \/ SpliceNothing \/ SpliceOut \/ SpliceOutFails

-----------------------------------------------------------------------------
(* External: the client, which closes the connection at the end of its file,*)
(* or is cut off.  What has arrived can still be read then.                 *)
SenderSends ==
  /\ stor_link = "open" /\ sent < total /\ arrived < ReceiveBuffer
  /\ \E n \in 1 .. total - sent :
       /\ arrived + n <= ReceiveBuffer
       /\ sent' = sent + n
       /\ arrived' = arrived + n
  /\ UNCHANGED <<total, stor_link, pipe, bytes_in_pipe, written, step, stor_verdict>>

SenderCloses ==
  /\ stor_link = "open" /\ sent = total
  /\ stor_link' = "fin"
  /\ UNCHANGED <<total, sent, arrived, pipe, bytes_in_pipe, written, step, stor_verdict>>

SenderResets ==
  /\ stor_link = "open" /\ "reset" \in Faults
  /\ stor_link' = "reset"
  /\ UNCHANGED <<total, sent, arrived, pipe, bytes_in_pipe, written, step, stor_verdict>>

Sender == SenderSends \/ SenderCloses \/ SenderResets

RecvNext == RecvHandler \/ Sender

RecvSpec == RecvInit /\ [][RecvNext]_recvVars

-----------------------------------------------------------------------------
(* A splice to the file has failed, once: the inner loop's count is wrong.  *)
Overcounted == bytes_in_pipe > pipe

RecvTypeOK ==
  /\ total \in Nat
  /\ sent \in 0 .. total
  /\ arrived \in 0 .. ReceiveBuffer
  /\ stor_link \in {"open", "fin", "reset"}
  /\ pipe \in 0 .. PipeSize
  /\ bytes_in_pipe \in Nat
  /\ written \in Nat
  /\ step \in {"wait", "socket", "pipe", "over"}
  /\ stor_verdict \in {"none", "complete", "failed"}

(* The inner loop: however the bytes come and go in pieces, the pipe is     *)
(* empty whenever the data connection is read or waited for.  Otherwise a   *)
(* full pipe would be taken for "No more data can be read", or bytes would  *)
(* stay behind in it when the connection ends.                              *)
PipeDrained == step # "pipe" => pipe = 0 /\ bytes_in_pipe = 0

(* The file holds what the client sent, less what is still on its way: the  *)
(* 226 is sent when nothing is on its way any more, also after a reset.     *)
NothingLeftBehind ==
  /\ sent = arrived + pipe + written
  /\ stor_verdict = "complete" => stor_link # "open" /\ written = sent

(* A splice to the file that fails, be it once, is never made good: the     *)
(* loop on bytes_in_pipe does not end, no reply is sent, and no other       *)
(* session of this worker is served.  A failed write is not reported as a   *)
(* success at least.                                                        *)
FailureIsFinal == [][Overcounted => Overcounted' /\ stor_verdict' = "none"]_recvVars

(* A STOR is a data transfer from the client to the file.                   *)
Stor == INSTANCE DataTransfer WITH
  moved <- written, cut <- stor_link = "reset", verdict <- stor_verdict

StorIsTransfer == Stor!Spec

(* code.cc says "Transfer complete." with its reply 226: the whole file     *)
(* that the client sends has been stored.                                   *)
TransferCompleteIsTrue == stor_verdict = "complete" => written = total
=============================================================================
