------------------------------ MODULE SendFile -------------------------------
(***************************************************************************)
(* One RETR from the moment its 150 has been written                       *)
(* (op/send_file_op.cc): sendfile from the file to the data connection,    *)
(* as much as the connection takes, the rest when it takes more, with the  *)
(* speed limit's slices of 1 / time_splice second.  The file may be        *)
(* changed by others meanwhile.                                            *)
(***************************************************************************)
EXTENDS Integers

CONSTANTS
  MaxLength,    \* bound: the length of the file when it is measured
  Limits,       \* settings of download_speed_limit_in_kb_per_s
  Kilobyte,     \* 1024 in the code
  time_splice,  \* slices in a second: 10 in the code
  SendBuffer    \* bytes the data connection takes before it blocks

ASSUME SendAssumption ==
  /\ MaxLength \in Nat
  /\ Limits \subseteq Nat
  /\ time_splice \in Nat \ {0} /\ Kilobyte \in Nat /\ Kilobyte >= time_splice
  /\ SendBuffer \in Nat \ {0}

VARIABLES
  length,       \* bytes in the file now
  limit,        \* download_speed_limit_in_kb_per_s
  file_size,    \* file_size_
  file_offset,  \* file_offset_
  wait,         \* what the operation waits for
  burst,        \* bytes sent since the limiter's last wait was over (history)
  buffered,     \* bytes the connection has taken and the client not yet read
  received,     \* bytes the client has read
  retr_link,    \* the data connection
  retr_verdict  \* what became of the transfer, or, with it, of the process

retrVars   == <<limit, file_size, file_offset>>
readerVars == <<buffered, received, retr_link>>
sendVars == <<length, retrVars, wait, burst, readerVars, retr_verdict>>

(* The file was measured and opened by the constructor, and do_send_file    *)
(* waits for the connection for the first time.                             *)
SendInit ==
  /\ length \in 0 .. MaxLength
  /\ limit \in Limits
  /\ file_size = length /\ file_offset = 0
  /\ wait = "writable" /\ burst = 0
  /\ buffered = 0 /\ received = 0 /\ retr_link = "open"
  /\ retr_verdict = "none"

Lesser(a, b) == IF a <= b THEN a ELSE b

(* A faulty slice: the division first makes small limits none at all.       *)
SliceOfQuotient == (limit \div time_splice) * Kilobyte

slice_size == (limit * Kilobyte) \div time_splice

Rest == file_size - file_offset

(* The count given to sendfile.                                             *)
Count == IF slice_size = 0 THEN Rest ELSE Lesser(Rest, slice_size)

(* External: what sendfile may send, if anything.  At the end of the file   *)
(* it returns 0 whatever the connection.                                    *)
AtEnd == Count = 0 \/ file_offset >= length

Sendable ==
  IF retr_link = "reset" \/ AtEnd THEN {}
  ELSE {n \in 1 .. Count : n <= length - file_offset /\ n <= SendBuffer - buffered}

-----------------------------------------------------------------------------
(* External: the data connection is writable, or broken.                    *)
Writable == buffered < SendBuffer \/ retr_link = "reset"

(* A faulty continuation that takes a short write for the end.              *)
ContinueOnce == wait' = "over" /\ retr_verdict' = "complete"

(* After a sendfile that did not fail: all is sent, or the rest follows.    *)
Continue ==
  \/ file_offset' # file_size /\ slice_size = 0 /\ wait' = "writable" /\ UNCHANGED retr_verdict
  \/ file_offset' # file_size /\ slice_size # 0 /\ wait' = "limiter" /\ UNCHANGED retr_verdict
  \/ file_offset' = file_size /\ wait' = "over" /\ retr_verdict' = "complete"

(* A faulty reaction to a sendfile that sent nothing.                       *)
NothingIsError == wait' = "over" /\ retr_verdict' = "failed"

NothingSent == Continue

WouldBlock == wait' = "writable" /\ UNCHANGED retr_verdict

(* deal_event.  It may run although the connection takes nothing, after the *)
(* limiter's wait.  On a connection that was reset sendfile fails with an   *)
(* error, or, if the client had closed it before, with SIGPIPE, which ends  *)
(* the process: nothing ignores it.                                         *)
SendDealEvent ==
  /\ wait = "due" \/ (wait = "writable" /\ Writable)
  /\ \/ \E n \in Sendable :
          /\ file_offset' = file_offset + n
          /\ buffered' = buffered + n
          /\ Continue
     \/ /\ AtEnd
        /\ UNCHANGED <<file_offset, buffered>>
        /\ NothingSent
     \/ /\ ~ AtEnd /\ retr_link = "open" /\ buffered = SendBuffer
        /\ WouldBlock
        /\ UNCHANGED <<file_offset, buffered>>
     \/ /\ ~ AtEnd /\ retr_link = "reset"
        /\ wait' = "over" /\ retr_verdict' \in {"failed", "killed"}
        /\ UNCHANGED <<file_offset, buffered>>
  /\ burst' = burst + (file_offset' - file_offset)
  /\ UNCHANGED <<length, limit, file_size, received, retr_link>>

(* The time of a slice has passed.                                          *)
LimiterExpires ==
  /\ wait = "limiter"
  /\ wait' = "due"
  /\ burst' = 0
  /\ UNCHANGED <<length, retrVars, readerVars, retr_verdict>>

-----------------------------------------------------------------------------
(* External: the client reads.  What the connection has taken is delivered  *)
(* after the server has closed it, too.                                     *)
ReaderReads ==
  /\ retr_link = "open" /\ buffered > 0
  /\ \E n \in 1 .. buffered : buffered' = buffered - n /\ received' = received + n
  /\ UNCHANGED <<length, retrVars, wait, burst, retr_link, retr_verdict>>

ReaderResets ==
  /\ retr_link = "open"
  /\ retr_link' = "reset" /\ buffered' = 0
  /\ UNCHANGED <<length, retrVars, wait, burst, received, retr_verdict>>

(* Somebody else truncates the file or appends to it.                       *)
FileChanges ==
  /\ length' \in Nat
  /\ UNCHANGED <<retrVars, wait, burst, readerVars, retr_verdict>>

SendNext == SendDealEvent \/ LimiterExpires \/ ReaderReads \/ ReaderResets \/ FileChanges

SendSpec == SendInit /\ [][SendNext]_sendVars

-----------------------------------------------------------------------------
SendTypeOK ==
  /\ length \in Nat
  /\ limit \in Limits
  /\ file_size \in Nat
  /\ file_offset \in 0 .. file_size
  /\ wait \in {"writable", "limiter", "due", "over"}
  /\ burst \in 0 .. file_offset
  /\ buffered \in 0 .. SendBuffer
  /\ received \in Nat
  /\ retr_link \in {"open", "reset"}
  /\ retr_verdict \in {"none", "complete", "failed", "killed"}

(* download_speed_limit_in_kb_per_s: whatever the connection takes at once, *)
(* and however often it blocks in between, no more than a slice's share is  *)
(* sent before the first wait of the limiter and between any two.  A limit, *)
(* be it small, is never taken for none.                                    *)
RateLimited == limit # 0 => burst * time_splice <= limit * Kilobyte

(* The 226 follows the last byte into the connection: a client that does    *)
(* not break it gets as many bytes as the file had when it was measured.    *)
CompleteIsDelivered ==
  retr_verdict = "complete" ~> received = file_size \/ retr_link = "reset"

(* A RETR is a data transfer, from the file as it was measured to the data  *)
(* connection.  One that ends with the process is given up like any other.  *)
Retr == INSTANCE DataTransfer WITH
  total <- file_size, moved <- file_offset, cut <- FALSE,
  verdict <- IF retr_verdict = "killed" THEN "failed" ELSE retr_verdict

RetrIsTransfer == Retr!Spec
=============================================================================
