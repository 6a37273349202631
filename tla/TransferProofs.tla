--------------------------- MODULE TransferProofs ----------------------------
(***************************************************************************)
(* Theorems about SendFile, RecvFile and SharedFile, for any length of the *)
(* file, any limit and size of a slice, and any buffers: the speed limit,  *)
(* the bytes that pass, and that both are data transfers.  They hold of    *)
(* each transfer by itself and, as the composition adds nothing to its     *)
(* parts, of both at work on one file, on one worker or on two.            *)
(***************************************************************************)
EXTENDS SharedFile, TLAPS

(* A limited transfer waits for the connection, or is due, only with a      *)
(* fresh slice.                                                             *)
FreshSlice ==
  limit # 0 => burst <= slice_size /\ (wait \in {"writable", "due"} => burst = 0)

(* The operation is over when it has a verdict, and complete at the end of  *)
(* the file as it was measured.                                             *)
OverIsDecided ==
  /\ wait = "over" <=> retr_verdict # "none"
  /\ retr_verdict = "complete" => file_offset = file_size

SendInv == SendTypeOK /\ FreshSlice /\ OverIsDecided

-----------------------------------------------------------------------------
(* What integer division gives the limiter: a share that is no more than a  *)
(* slice's, and not 0 when the dividend is large enough.                    *)
LEMMA Division ==
  ASSUME NEW x \in Nat, NEW d \in Nat \ {0}
  PROVE  /\ x \div d \in Nat
         /\ (x \div d) * d <= x
         /\ x >= d => x \div d >= 1
  OBVIOUS

LEMMA Monotone ==
  ASSUME NEW a \in Nat, NEW b \in Nat, NEW d \in Nat, a <= b
  PROVE  a * d <= b * d
  OBVIOUS

LEMMA Products ==
  ASSUME NEW a \in Nat, NEW b \in Nat
  PROVE  a * b \in Nat /\ (a >= 1 => a * b >= b)
  OBVIOUS

(* The slices of a limit (do_send_file's argument of deal_event): none for  *)
(* no limit, and something for the least limit there is.                    *)
LEMMA Slices ==
  ASSUME limit \in Limits
  PROVE  /\ limit \in Nat
         /\ slice_size \in Nat
         /\ slice_size * time_splice <= limit * Kilobyte
         /\ limit # 0 => slice_size # 0
<1>1. limit \in Nat /\ Kilobyte \in Nat /\ time_splice \in Nat \ {0} /\ Kilobyte >= time_splice
  BY SendAssumption
<1>2. limit * Kilobyte \in Nat /\ (limit # 0 => limit * Kilobyte >= time_splice)
  BY <1>1, Products
<1>. QED  BY <1>1, <1>2, Division DEF slice_size

(* What sendfile sends is no more than what is left, than a slice, and than *)
(* the connection takes.                                                    *)
LEMMA SendableBounds ==
  ASSUME SendTypeOK, NEW n \in Sendable
  PROVE  /\ n \in Nat /\ n >= 1
         /\ file_offset + n <= file_size
         /\ buffered + n <= SendBuffer
         /\ slice_size # 0 => n <= slice_size
<1>1. n \in 1 .. Count /\ n <= SendBuffer - buffered
  BY DEF Sendable
<1>2. /\ file_size \in Nat /\ file_offset \in Nat /\ file_offset <= file_size
      /\ length \in Nat /\ buffered \in Nat /\ SendBuffer \in Nat /\ buffered <= SendBuffer
  BY SendAssumption DEF SendTypeOK
<1>3. slice_size \in Nat
  BY Slices DEF SendTypeOK
<1>4. Count \in Nat /\ Count <= file_size - file_offset
  BY <1>2, <1>3 DEF Count, Rest, Lesser
<1>5. slice_size # 0 => Count <= slice_size
  BY <1>2, <1>3 DEF Count, Rest, Lesser
<1>. QED  BY <1>1, <1>2, <1>3, <1>4, <1>5

LEMMA SendInitInv == SendInit => SendInv
  BY SendAssumption, Slices
     DEF SendInit, SendInv, SendTypeOK, FreshSlice, OverIsDecided

(* deal_event after a sendfile that did not fail: 226, the limiter or the   *)
(* connection, with what was sent counted.                                  *)
LEMMA SentInv ==
  ASSUME SendInv, NEW n \in Nat,
         wait \in {"writable", "due"},
         file_offset + n <= file_size, buffered + n <= SendBuffer,
         slice_size # 0 => n <= slice_size,
         file_offset' = file_offset + n, buffered' = buffered + n, burst' = burst + n,
         Continue, UNCHANGED <<length, limit, file_size, received, retr_link>>
  PROVE  SendInv'
<1>. USE DEF SendInv
<1>1. slice_size' = slice_size
  BY DEF slice_size
<1>2. SendTypeOK'
  BY SendAssumption DEF SendTypeOK, Continue
<1>3. FreshSlice'
  BY <1>1, Slices DEF SendTypeOK, FreshSlice, Continue
<1>4. OverIsDecided'
  BY DEF SendTypeOK, OverIsDecided, Continue
<1>. QED  BY <1>2, <1>3, <1>4

LEMMA SendDealEventInv == ASSUME SendInv, SendDealEvent PROVE SendInv'
<1>. USE DEF SendInv
<1>1. wait \in {"writable", "due"}
  BY DEF SendDealEvent
<1>2. ASSUME NEW n \in Sendable,
             file_offset' = file_offset + n, buffered' = buffered + n, Continue
      PROVE  SendInv'
  <2>1. burst' = burst + n
    BY <1>2, SendableBounds DEF SendDealEvent, SendTypeOK
  <2>. QED  BY <1>1, <1>2, <2>1, SendableBounds, SentInv DEF SendDealEvent
<1>3. CASE UNCHANGED <<file_offset, buffered>> /\ NothingSent
  <2>1. burst' = burst + 0 /\ file_offset' = file_offset + 0 /\ buffered' = buffered + 0
    BY <1>3 DEF SendDealEvent, SendTypeOK
  <2>2. file_offset + 0 <= file_size /\ buffered + 0 <= SendBuffer
    BY SendAssumption DEF SendTypeOK
  <2>3. slice_size # 0 => 0 <= slice_size
    BY Slices DEF SendTypeOK
  <2>. QED  BY <1>1, <1>3, <2>1, <2>2, <2>3, SentInv DEF SendDealEvent, NothingSent
<1>4. CASE /\ UNCHANGED <<file_offset, buffered>>
           /\ WouldBlock \/ (wait' = "over" /\ retr_verdict' \in {"failed", "killed"})
  <2>1. burst' = burst /\ slice_size' = slice_size
    BY <1>4 DEF SendDealEvent, SendTypeOK, slice_size
  <2>2. SendTypeOK'
    BY <1>4, <2>1 DEF SendDealEvent, SendTypeOK, WouldBlock
  <2>3. FreshSlice'
    BY <1>1, <1>4, <2>1 DEF SendDealEvent, FreshSlice, WouldBlock
  <2>4. OverIsDecided'
    BY <1>1, <1>4 DEF SendDealEvent, OverIsDecided, WouldBlock
  <2>. QED  BY <2>2, <2>3, <2>4
<1>. QED  BY <1>2, <1>3, <1>4 DEF SendDealEvent

(* The limiter's wait ends: a slice is fresh again.                         *)
LEMMA LimiterInv == ASSUME SendInv, LimiterExpires PROVE SendInv'
  BY SendAssumption, Slices
     DEF SendInv, SendTypeOK, FreshSlice, OverIsDecided, LimiterExpires, slice_size,
         retrVars, readerVars

(* The client and whoever changes the file leave the operation alone.       *)
LEMMA OthersInv ==
  ASSUME SendInv, ReaderReads \/ ReaderResets \/ FileChanges PROVE SendInv'
<1>. USE SendAssumption DEF SendInv
<1>1. UNCHANGED <<retrVars, wait, burst, retr_verdict>>
  BY DEF ReaderReads, ReaderResets, FileChanges, readerVars
<1>2. SendTypeOK'
  <2>1. CASE ReaderReads
    BY <2>1 DEF ReaderReads, SendTypeOK, retrVars
  <2>2. CASE ReaderResets
    BY <2>2 DEF ReaderResets, SendTypeOK, retrVars
  <2>3. CASE FileChanges
    BY <2>3 DEF FileChanges, SendTypeOK, retrVars, readerVars
  <2>. QED  BY <2>1, <2>2, <2>3
<1>3. FreshSlice' /\ OverIsDecided'
  BY <1>1 DEF FreshSlice, OverIsDecided, slice_size, retrVars
<1>. QED  BY <1>2, <1>3

LEMMA SendStepInv == SendInv /\ [SendNext]_sendVars => SendInv'
<1>. SUFFICES ASSUME SendInv, [SendNext]_sendVars PROVE SendInv'
  OBVIOUS
<1>1. CASE SendDealEvent
  BY <1>1, SendDealEventInv
<1>2. CASE LimiterExpires
  BY <1>2, LimiterInv
<1>3. CASE ReaderReads \/ ReaderResets \/ FileChanges
  BY <1>3, OthersInv
<1>4. CASE UNCHANGED sendVars
  BY <1>4 DEF SendInv, SendTypeOK, FreshSlice, OverIsDecided, slice_size, sendVars, retrVars, readerVars
<1>. QED  BY <1>1, <1>2, <1>3, <1>4 DEF SendNext

LEMMA SendInvariant == SendSpec => []SendInv
<1>. QED  BY SendInitInv, SendStepInv, PTL DEF SendSpec

-----------------------------------------------------------------------------
(* The offset stays within the file as it was measured, and the connection  *)
(* never holds more than it can (SendFileOp).                               *)
THEOREM SendTypeCorrect == SendSpec => []SendTypeOK
<1>1. SendInv => SendTypeOK
  BY DEF SendInv
<1>. QED  BY <1>1, SendInvariant, PTL

(* download_speed_limit_in_kb_per_s holds for every limit and every         *)
(* division of the second (send_file_op.cc, deal_event).                    *)
THEOREM RateLimitedCorrect == SendSpec => []RateLimited
<1>1. SendInv => RateLimited
  <2>. SUFFICES ASSUME SendInv, limit # 0 PROVE burst * time_splice <= limit * Kilobyte
    BY DEF RateLimited
  <2>1. burst \in Nat /\ burst <= slice_size
    BY DEF SendInv, SendTypeOK, FreshSlice
  <2>2. /\ limit \in Nat /\ slice_size \in Nat
        /\ slice_size * time_splice <= limit * Kilobyte
    BY Slices DEF SendInv, SendTypeOK
  <2>3. time_splice \in Nat /\ Kilobyte \in Nat
    BY SendAssumption
  <2>4. burst * time_splice <= slice_size * time_splice
    BY <2>1, <2>2, <2>3, Monotone
  <2>5. /\ burst * time_splice \in Nat
        /\ slice_size * time_splice \in Nat
        /\ limit * Kilobyte \in Nat
    BY <2>1, <2>2, <2>3, Products
  <2>. QED  BY <2>2, <2>4, <2>5
<1>. QED  BY <1>1, SendInvariant, PTL

-----------------------------------------------------------------------------
(* deal_event moves the file on, completes the transfer, gives it up, or    *)
(* does nothing a transfer would notice.                                    *)
LEMMA DealEventTransfers ==
  ASSUME SendInv, SendDealEvent PROVE [Retr!Next]_(Retr!vars)
<1>. USE DEF Retr!Next, Retr!vars
<1>1. retr_verdict = "none" /\ file_size' = file_size
  BY DEF SendDealEvent, SendInv, OverIsDecided
<1>2. ASSUME NEW n \in Sendable, file_offset' = file_offset + n, Continue
      PROVE  Retr!Move \/ Retr!Complete
  <2>1. file_offset' \in file_offset + 1 .. file_size
    BY <1>2, SendableBounds DEF SendInv, SendTypeOK
  <2>. QED  BY <1>1, <1>2, <2>1 DEF Continue, Retr!Move, Retr!Complete
<1>3. CASE UNCHANGED file_offset /\ NothingSent
  BY <1>1, <1>3 DEF NothingSent, Continue, Retr!Complete
<1>4. CASE UNCHANGED file_offset /\ WouldBlock
  BY <1>1, <1>4 DEF WouldBlock
<1>5. CASE UNCHANGED file_offset /\ retr_verdict' \in {"failed", "killed"}
  BY <1>1, <1>5 DEF Retr!GiveUp
<1>. QED  BY <1>2, <1>3, <1>4, <1>5 DEF SendDealEvent

(* A RETR is a data transfer, of the file as it was measured.               *)
THEOREM SendImplementsTransfer == SendSpec => RetrIsTransfer
<1>1. SendInit => Retr!Init
  BY SendAssumption DEF SendInit, Retr!Init
<1>2. SendInv /\ [SendNext]_sendVars => [Retr!Next]_(Retr!vars)
  <2>1. ASSUME LimiterExpires \/ ReaderReads \/ ReaderResets \/ FileChanges \/ UNCHANGED sendVars
        PROVE  UNCHANGED Retr!vars
    BY <2>1 DEF LimiterExpires, ReaderReads, ReaderResets, FileChanges, sendVars, retrVars,
                Retr!vars
  <2>. QED  BY <2>1, DealEventTransfers DEF SendNext
<1>. QED  BY <1>1, <1>2, SendInvariant, PTL DEF SendSpec, RetrIsTransfer, Retr!Spec

-----------------------------------------------------------------------------
(* The inner loop's count is never short of what the pipe holds, and the    *)
(* loop goes on as long as the count does.                                  *)
LoopCounts ==
  /\ step = "pipe" => bytes_in_pipe >= pipe /\ bytes_in_pipe > 0
  /\ step # "pipe" => pipe = 0 /\ bytes_in_pipe = 0

(* What can be said of the end of the connection and of the operation.      *)
EndsDecided ==
  /\ stor_link = "fin" => sent = total
  /\ stor_link = "reset" => "reset" \in Faults
  /\ step = "over" <=> stor_verdict # "none"
  /\ stor_verdict # "none" => stor_link # "open"
  /\ stor_verdict = "complete" => arrived = 0

Conserved == sent = arrived + pipe + written

RecvInv == RecvTypeOK /\ LoopCounts /\ EndsDecided /\ Conserved

-----------------------------------------------------------------------------
LEMMA RecvInitInv == RecvInit => RecvInv
  BY RecvAssumption
     DEF RecvInit, RecvInv, RecvTypeOK, LoopCounts, EndsDecided, Conserved

LEMMA RecvDealEventInv == ASSUME RecvInv, RecvDealEvent PROVE RecvInv'
  BY RecvAssumption
     DEF RecvInv, RecvTypeOK, LoopCounts, EndsDecided, Conserved, RecvDealEvent, Readable,
         RemotePeerClosed, netVars

(* A splice into the pipe moves n bytes, which the inner loop then counts.  *)
LEMMA SpliceInInv == ASSUME RecvInv, SpliceIn PROVE RecvInv'
<1>. USE RecvAssumption DEF RecvInv
<1>1. PICK n \in 1 .. arrived :
        pipe + n <= PipeSize /\ arrived' = arrived - n /\ pipe' = pipe + n /\ bytes_in_pipe' = n
  BY DEF SpliceIn
<1>3. n \in Nat /\ n >= 1 /\ n <= arrived
  BY <1>1 DEF RecvTypeOK
<1>4. RecvTypeOK'
  BY <1>1, <1>3 DEF RecvTypeOK, SpliceIn, netVars
<1>5. LoopCounts'
  BY <1>1, <1>3 DEF RecvTypeOK, LoopCounts, SpliceIn
<1>6. EndsDecided' /\ Conserved'
  BY <1>1, <1>3 DEF RecvTypeOK, EndsDecided, Conserved, SpliceIn, netVars
<1>. QED  BY <1>4, <1>5, <1>6

LEMMA SpliceNothingInv == ASSUME RecvInv, SpliceNothing PROVE RecvInv'
  BY RecvAssumption
     DEF RecvInv, RecvTypeOK, LoopCounts, EndsDecided, Conserved, SpliceNothing, netVars

(* A splice to the file moves n bytes, and takes them off the count.        *)
LEMMA SpliceOutBytes ==
  ASSUME RecvInv, SpliceOut
  PROVE  \E n \in Nat :
           /\ n >= 1 /\ n <= bytes_in_pipe /\ n <= pipe
           /\ pipe' = pipe - n /\ written' = written + n
           /\ bytes_in_pipe' = bytes_in_pipe - n
<1>1. PICK n \in 1 .. bytes_in_pipe :
        /\ n <= pipe
        /\ pipe' = pipe - n /\ written' = written + n /\ bytes_in_pipe' = bytes_in_pipe - n
  BY DEF SpliceOut
<1>3. n \in Nat /\ n >= 1 /\ n <= bytes_in_pipe
  BY <1>1 DEF RecvInv, RecvTypeOK
<1>. QED  BY <1>1, <1>3

LEMMA SpliceOutInv == ASSUME RecvInv, SpliceOut PROVE RecvInv'
<1>. USE RecvAssumption DEF RecvInv
<1>1. PICK n \in Nat :
        /\ n >= 1 /\ n <= bytes_in_pipe /\ n <= pipe
        /\ pipe' = pipe - n /\ written' = written + n
        /\ bytes_in_pipe' = bytes_in_pipe - n
  BY SpliceOutBytes
<1>2. RecvTypeOK'
  BY <1>1 DEF RecvTypeOK, SpliceOut, Loop, netVars
<1>3. LoopCounts'
  BY <1>1 DEF RecvTypeOK, LoopCounts, SpliceOut, Loop
<1>4. EndsDecided' /\ Conserved'
  BY <1>1 DEF RecvTypeOK, EndsDecided, Conserved, SpliceOut, Loop, netVars
<1>. QED  BY <1>2, <1>3, <1>4

LEMMA SpliceOutFailsInv == ASSUME RecvInv, SpliceOutFails PROVE RecvInv'
  BY RecvAssumption
     DEF RecvInv, RecvTypeOK, LoopCounts, EndsDecided, Conserved, SpliceOutFails, Loop, netVars

LEMMA ClientSendsInv == ASSUME RecvInv, SenderSends PROVE RecvInv'
<1>. USE RecvAssumption DEF RecvInv
<1>1. PICK n \in 1 .. total - sent :
        arrived + n <= ReceiveBuffer /\ sent' = sent + n /\ arrived' = arrived + n
  BY DEF SenderSends
<1>3. n \in Nat /\ n >= 1 /\ n <= total - sent
  BY <1>1 DEF RecvTypeOK
<1>4. RecvTypeOK'
  BY <1>1, <1>3 DEF RecvTypeOK, SenderSends
<1>5. LoopCounts' /\ EndsDecided'
  BY <1>1, <1>3 DEF RecvTypeOK, LoopCounts, EndsDecided, SenderSends
<1>6. Conserved'
  BY <1>1, <1>3 DEF RecvTypeOK, Conserved, SenderSends
<1>. QED  BY <1>4, <1>5, <1>6

LEMMA ClientEndsInv == ASSUME RecvInv, SenderCloses \/ SenderResets PROVE RecvInv'
  BY RecvAssumption
     DEF RecvInv, RecvTypeOK, LoopCounts, EndsDecided, Conserved, SenderCloses, SenderResets

LEMMA RecvStepInv == RecvInv /\ [RecvNext]_recvVars => RecvInv'
<1>. SUFFICES ASSUME RecvInv, [RecvNext]_recvVars PROVE RecvInv'
  OBVIOUS
<1>1. CASE RecvHandler
  BY <1>1, RecvDealEventInv, SpliceInInv, SpliceNothingInv, SpliceOutInv, SpliceOutFailsInv
     DEF RecvHandler
<1>2. CASE Sender
  BY <1>2, ClientSendsInv, ClientEndsInv DEF Sender
<1>3. CASE UNCHANGED recvVars
  BY <1>3 DEF RecvInv, RecvTypeOK, LoopCounts, EndsDecided, Conserved, recvVars, netVars
<1>. QED  BY <1>1, <1>2, <1>3 DEF RecvNext

LEMMA RecvInvariant == RecvSpec => []RecvInv
<1>. QED  BY RecvInitInv, RecvStepInv, PTL DEF RecvSpec

-----------------------------------------------------------------------------
(* The counters of an upload stay within what was sent (RecvFileOp).        *)
THEOREM RecvTypeCorrect == RecvSpec => []RecvTypeOK
<1>1. RecvInv => RecvTypeOK
  BY DEF RecvInv
<1>. QED  BY <1>1, RecvInvariant, PTL

(* The pipe is empty whenever deal_event comes back to the data connection, *)
(* for pipes and pieces of any size (recv_file_op.cc, deal_event).          *)
THEOREM PipeDrainedCorrect == RecvSpec => []PipeDrained
<1>1. RecvInv => PipeDrained
  BY DEF RecvInv, LoopCounts, PipeDrained
<1>. QED  BY <1>1, RecvInvariant, PTL

(* No byte of an upload is lost or written twice, and none is on its way    *)
(* when the 226 is sent, also if the connection was reset.                  *)
THEOREM NothingLeftBehindCorrect == RecvSpec => []NothingLeftBehind
<1>1. RecvInv => NothingLeftBehind
  BY DEF RecvInv, RecvTypeOK, LoopCounts, EndsDecided, Conserved, NothingLeftBehind
<1>. QED  BY <1>1, RecvInvariant, PTL

(* A splice to the file that failed once keeps the worker in its loop.      *)
THEOREM FailureIsFinalCorrect == RecvSpec => FailureIsFinal
<1>1. RecvInv /\ [RecvNext]_recvVars => [Overcounted => Overcounted' /\ stor_verdict' = "none"]_recvVars
  <2>. SUFFICES ASSUME RecvInv, [RecvNext]_recvVars, Overcounted
                PROVE  Overcounted' /\ stor_verdict' = "none"
    OBVIOUS
  <2>1. step = "pipe" /\ stor_verdict = "none"
    BY RecvAssumption DEF RecvInv, RecvTypeOK, LoopCounts, EndsDecided, Overcounted
  <2>2. CASE RecvHandler
    <3>1. CASE SpliceOut
      BY <3>1, SpliceOutBytes, <2>1, RecvAssumption DEF RecvInv, RecvTypeOK, Overcounted, SpliceOut
    <3>2. CASE SpliceOutFails
      BY <3>2, <2>1, RecvAssumption DEF RecvInv, RecvTypeOK, Overcounted, SpliceOutFails
    <3>. QED  BY <2>1, <2>2, <3>1, <3>2 DEF RecvHandler, RecvDealEvent, SpliceIn, SpliceNothing
  <2>3. CASE Sender \/ UNCHANGED recvVars
    BY <2>1, <2>3 DEF Sender, SenderSends, SenderCloses, SenderResets, recvVars, Overcounted
  <2>. QED  BY <2>2, <2>3 DEF RecvNext
<1>. QED  BY <1>1, RecvInvariant, PTL DEF RecvSpec, FailureIsFinal

-----------------------------------------------------------------------------
(* A STOR is a data transfer: its 226 says that the whole file is stored,   *)
(* unless the client was cut off.                                           *)
THEOREM RecvImplementsTransfer == RecvSpec => StorIsTransfer
<1>1. RecvInit => Stor!Init
  BY DEF RecvInit, Stor!Init
<1>2. RecvInv /\ [RecvNext]_recvVars => [Stor!Next]_(Stor!vars)
  <2>. SUFFICES ASSUME RecvInv, [RecvNext]_recvVars
                PROVE  [Stor!Next]_(Stor!vars)
    OBVIOUS
  <2>. USE DEF Stor!Next, Stor!vars
  <2>1. CASE RecvDealEvent
    <3>1. stor_verdict = "none" /\ UNCHANGED <<total, written, stor_link>>
      BY <2>1 DEF RecvDealEvent, RecvInv, EndsDecided, netVars
    <3>2. CASE arrived = 0 /\ RemotePeerClosed
      <4>1. CASE stor_link = "reset"
        BY <3>1, <3>2, <4>1 DEF RemotePeerClosed, Stor!Complete
      <4>2. CASE stor_link # "reset"
        <5>1. sent = total
          BY <2>1, <3>2, <4>2 DEF RecvDealEvent, Readable, RecvInv, RecvTypeOK, EndsDecided
        <5>2. written = total
          BY <2>1, <3>2, <5>1, RecvAssumption
             DEF RecvDealEvent, RecvInv, RecvTypeOK, LoopCounts, Conserved
        <5>. QED  BY <3>1, <3>2, <5>2 DEF RemotePeerClosed, Stor!Complete
      <4>. QED  BY <4>1, <4>2
    <3>. QED  BY <2>1, <3>1, <3>2 DEF RecvDealEvent
  <2>2. CASE SpliceNothing
    <3>1. stor_verdict = "none" /\ UNCHANGED <<total, written, stor_link>>
      BY <2>2 DEF SpliceNothing, RecvInv, EndsDecided, netVars
    <3>. QED  BY <2>2, <3>1 DEF SpliceNothing, Stor!GiveUp
  <2>3. CASE SpliceOut
    <3>1. stor_verdict = "none" /\ UNCHANGED <<total, stor_verdict, stor_link>>
      BY <2>3 DEF SpliceOut, RecvInv, EndsDecided, netVars
    <3>2. PICK n \in Nat : n >= 1 /\ n <= pipe /\ written' = written + n
      BY <2>3, SpliceOutBytes
    <3>3. written' \in written + 1 .. total
      BY <3>2, RecvAssumption DEF RecvInv, RecvTypeOK, Conserved
    <3>. QED  BY <3>1, <3>3 DEF Stor!Move
  <2>4. CASE SpliceIn \/ SpliceOutFails \/ SenderSends \/ UNCHANGED recvVars
    BY <2>4 DEF SpliceIn, SpliceOutFails, SenderSends, recvVars, netVars
  <2>5. CASE SenderCloses
    BY <2>5 DEF SenderCloses
  <2>6. CASE SenderResets
    BY <2>6 DEF SenderResets, Stor!CutOff
  <2>. QED  BY <2>1, <2>2, <2>3, <2>4, <2>5, <2>6 DEF RecvNext, RecvHandler, Sender
<1>. QED  BY <1>1, <1>2, RecvInvariant, PTL DEF RecvSpec, StorIsTransfer, Stor!Spec

-----------------------------------------------------------------------------
(* The composition.                                                         *)

(* The upload notices nothing of the download (RecvFileOp).                 *)
THEOREM SharedIsUpload == Spec => RecvSpec
<1>1. Init => RecvInit
  BY DEF Init
<1>2. [Next]_vars => [RecvNext]_recvVars
  BY DEF Next, Download, Reader, OpenToStore, Upload, Uploader, RecvNext, Sender, vars
<1>. QED  BY <1>1, <1>2, PTL DEF Spec, RecvSpec

(* To the download, whatever the upload does is a change of the file, at    *)
(* most (SendFileOp).                                                       *)
THEOREM SharedIsDownload == Spec => SendSpec
<1>1. Init => SendInit
  BY DEF Init
<1>2. Spec => []RecvTypeOK
  BY SharedIsUpload, RecvTypeCorrect, PTL
<1>3. RecvTypeOK' /\ [Next]_vars => [SendNext]_sendVars
  <2>. SUFFICES ASSUME RecvTypeOK', Next PROVE SendNext \/ UNCHANGED sendVars
    BY DEF vars
  <2>. USE DEF sendVars, retrAll
  <2>1. CASE Download(SendDealEvent) \/ Download(LimiterExpires)
    BY <2>1 DEF Download, SendNext
  <2>2. CASE Reader(ReaderReads) \/ Reader(ReaderResets)
    BY <2>2 DEF Reader, SendNext
  <2>3. CASE OpenToStore
    BY <2>3 DEF OpenToStore, SendNext, FileChanges
  <2>4. CASE Upload
    BY <2>4 DEF Upload, RecvTypeOK, SendNext, FileChanges
  <2>5. CASE Uploader(SenderSends) \/ Uploader(SenderCloses) \/ Uploader(SenderResets)
    BY <2>5 DEF Uploader
  <2>. QED  BY <2>1, <2>2, <2>3, <2>4, <2>5 DEF Next
<1>. QED  BY <1>1, <1>2, <1>3, PTL DEF Spec, SendSpec
=============================================================================
