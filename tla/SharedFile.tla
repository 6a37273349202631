----------------------------- MODULE SharedFile ------------------------------
(***************************************************************************)
(* A download and an upload of the same file, of two sessions.  The        *)
(* download (SendFile) has measured and opened the file; the upload        *)
(* (RecvFile) empties it when it opens it.  Sessions of one worker share   *)
(* its thread: while deal_event of the upload loops no other handler runs. *)
(* All sessions share the process, which SIGPIPE may end.                  *)
(***************************************************************************)
EXTENDS SendFile, RecvFile

VARIABLES
  opened,   \* whether the upload has opened, and emptied, the file
  same      \* whether the sessions have the same worker

retrAll == <<retrVars, wait, burst, readerVars, retr_verdict>>
vars == <<opened, same, sendVars, recvVars>>

Init ==
  /\ opened = FALSE /\ same \in BOOLEAN
  /\ SendInit
  /\ RecvInit

-----------------------------------------------------------------------------
ThreadFree == same => step \notin {"socket", "pipe"}

Download(handler) == ThreadFree /\ handler /\ UNCHANGED <<opened, same, recvVars>>

Reader(action) == action /\ UNCHANGED <<opened, same, recvVars>>

ProcessRuns == retr_verdict # "killed"

(* RecvFileOp's constructor.                                                *)
OpenToStore ==
  /\ ProcessRuns /\ ~ opened
  /\ opened' = TRUE
  /\ length' = 0
  /\ UNCHANGED <<same, retrAll, recvVars>>

(* What the upload writes is in the file at once.                           *)
Upload ==
  /\ ProcessRuns /\ opened
  /\ RecvHandler
  /\ length' = written'
  /\ UNCHANGED <<opened, same, retrAll>>

Uploader(action) == action /\ UNCHANGED <<opened, same, length, retrAll>>

Next ==
  \/ Download(SendDealEvent)
  \/ Download(LimiterExpires)
  \/ Reader(ReaderReads)
  \/ Reader(ReaderResets)
  \/ OpenToStore
  \/ Upload
  \/ Uploader(SenderSends)
  \/ Uploader(SenderCloses)
  \/ Uploader(SenderResets)

Spec == Init /\ [][Next]_vars

(* The io_context runs the handlers that are ready in their order: a loop   *)
(* of the upload that ends lets the download's handler run.  The clock      *)
(* advances.  Clients that keep their connections go on reading and sending.*)
FairSpec ==
  /\ Spec
  /\ SF_vars(Download(SendDealEvent)) /\ SF_vars(Download(LimiterExpires))
  /\ WF_vars(Upload)
  /\ WF_vars(Reader(ReaderReads))
  /\ WF_vars(Uploader(SenderSends)) /\ WF_vars(Uploader(SenderCloses))

-----------------------------------------------------------------------------
(* The file ends up too short for the download: the upload was shorter, or  *)
(* it broke.  Nothing tells the download, which waits for the connection    *)
(* and asks sendfile for the rest for ever.                                 *)
CutShort == opened /\ length < file_size /\ (stor_verdict # "none" \/ Overcounted)

(* The thread is lost to the endless loop of an upload that failed.         *)
ThreadLost == same /\ Overcounted

(* A RETR is completed, however often the connection blocks or the limiter  *)
(* waits, unless the client breaks the connection: no wait is for a         *)
(* connection that takes already, or for a limiter that was not started.    *)
(* One that is overtaken by a STOR of the same file goes on: sendfile,      *)
(* which has nothing to send for the moment, catches up with the upload. It *)
(* is completed, with as many bytes as the file once had, unless the file   *)
(* ends up shorter, or the upload failed on the same worker.                *)
DownloadEnds ==
  retr_verdict = "none" ~>
    \/ retr_verdict = "complete" \/ retr_link = "reset"
    \/ CutShort \/ ThreadLost

(* STOR ends when the client has sent its file or is cut off, unless a      *)
(* splice to the file has failed, be it once: the loop on bytes_in_pipe     *)
(* does not end then.  It ends with the process if another session's client *)
(* closes and resets its data connection during a RETR.                     *)
StorEnds ==
  opened /\ stor_verdict = "none" ~> stor_verdict # "none" \/ Overcounted \/ ~ ProcessRuns
=============================================================================
