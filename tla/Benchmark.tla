----------------------------- MODULE Benchmark -----------------------------
(***************************************************************************)
(* The benchmark client (client/benchmark.cc).  Each client downloads one  *)
(* file with a chain of deferred operations, each built from the outcome   *)
(* of the one before; a step that failed lets the rest of the chain run    *)
(* through with no reply in hand.  Every read of a reply races a timer.    *)
(* The chains of the clients run on the threads of one pool.  The server   *)
(* may be any, so here it is the environment: it answers the requests in   *)
(* order, with success, with failure or with a line whose number cannot be *)
(* converted, late or never; a size that is a number is that of the file.  *)
(* The data connection may be reset, and what is on it may then be lost.   *)
(***************************************************************************)
EXTENDS Integers, Sequences, FiniteSets

CONSTANTS
  Clients,
  thread_num,  \* threads of the pool
  MaxFile      \* bound: the size of the file, in pieces

ASSUME BenchmarkAssumption ==
  /\ thread_num \in Nat \ {0}
  /\ MaxFile \in Nat

VARIABLES
  dummy,      \* --dummy: the file is thrown away and no progress is shown
  stage,      \* the reply or the event each chain waits for
  race,       \* the read with its timer: which of them completed first
  control,    \* the control socket
  unread,     \* replies that arrived and were not consumed
  requests,   \* requests the server has not answered
  file,       \* size of the file on the server
  grown,      \* did it grow? (history)
  file_size,  \* what SIZE said
  served,     \* size of the file when RETR was accepted (history)
  sending,    \* 0, or one more than the pieces the server has yet to send
  wire,       \* pieces on the data connection
  closed,     \* was the data connection closed, by the server or by a reset?
  lost,       \* pieces lost by a reset (history)
  offset,     \* pieces received: offset_
  result,     \* the future of each session ("spinning": its handler never returns)
  crashed     \* the exception or the signal that ended the process, or "no"

netVars  == <<control, unread, requests>>
fileVars == <<file, grown, file_size>>
dataVars == <<served, sending, wire, closed, lost, offset>>
vars == <<dummy, stage, race, netVars, fileVars, dataVars, result, crashed>>

(* The stages of async_session, in its order.                               *)
Replying == {"welcome", "user", "pass", "size", "pasv", "retr", "complete"}
Stage    == Replying \cup {"init", "connect", "receive", "over"}

After == [welcome |-> "user", user |-> "pass", pass |-> "size", size |-> "pasv"]

(* main refuses more than one client without --dummy.                       *)
Init ==
  /\ dummy \in BOOLEAN
  /\ \E started \in SUBSET Clients :
       /\ dummy \/ Cardinality(started) = 1
       /\ stage = [c \in Clients |-> IF c \in started THEN "init" ELSE "over"]
  /\ race = [c \in Clients |-> "none"]
  /\ control = [c \in Clients |-> "unopened"]
  /\ unread = [c \in Clients |-> <<>>]
  /\ requests = [c \in Clients |-> <<>>]
  /\ file \in 0 .. MaxFile /\ grown = FALSE
  /\ file_size = [c \in Clients |-> 0]
  /\ served = [c \in Clients |-> 0]
  /\ sending = [c \in Clients |-> 0]
  /\ wire = [c \in Clients |-> 0]
  /\ closed = [c \in Clients |-> FALSE]
  /\ lost = [c \in Clients |-> 0]
  /\ offset = [c \in Clients |-> 0]
  /\ result = [c \in Clients |-> "none"]
  /\ crashed = "no"

Spinning == {c \in Clients : result[c] = "spinning"}

Running == crashed = "no"

(* A handler needs a thread of the pool.                                    *)
ThreadFree == Running /\ Cardinality(Spinning) < thread_num

-----------------------------------------------------------------------------
(* get_read_with_timeout_op.                                                *)

(* A faulty read that does not start its timer.                             *)
ReadWithoutTimeout(c) == race' = [race EXCEPT ![c] = "untimed"]

ReadWithTimeout(c) == race' = [race EXCEPT ![c] = "running"]

(* The read completes first: with a line, or with the error of a socket     *)
(* that is closed or was never connected.                                   *)
ReadFirst(c) ==
  /\ ThreadFree /\ race[c] \in {"running", "untimed"}
  /\ \/ unread[c] # <<>> /\ race' = [race EXCEPT ![c] = "reply"]
     \/ unread[c] = <<>> /\ control[c] # "open" /\ race' = [race EXCEPT ![c] = "error"]
  /\ UNCHANGED <<dummy, stage, netVars, fileVars, dataVars, result, crashed>>

TimerFirst(c) ==
  /\ ThreadFree /\ race[c] = "running"
  /\ race' = [race EXCEPT ![c] = "timeout"]
  /\ UNCHANGED <<dummy, stage, netVars, fileVars, dataVars, result, crashed>>

(* build_resp's conversion of the code throws, or that of the size in a 213 *)
(* or of a field in a 227, and nothing catches it.                          *)
Malformed(c) == race[c] = "reply" /\ Head(unread[c]).code = "junk"

ReplyThrows(c) ==
  /\ ThreadFree /\ Malformed(c)
  /\ crashed' = "malformed"
  /\ UNCHANGED <<dummy, stage, race, netVars, fileVars, dataVars, result>>

(* The group of the read and its timer has completed, with a reply or with  *)
(* none.                                                                    *)
Answered(c) == race[c] \in {"reply", "error", "timeout"} /\ ~ Malformed(c)

(* A faulty chain that goes on when no reply came in time.                  *)
PatientSuccess(c) ==
  \/ race[c] = "timeout" /\ control[c] = "open"
  \/ race[c] = "reply" /\ Head(unread[c]).code = "ok"

(* The reply has the code that the next step of the chain asks for.         *)
Successful(c) == race[c] = "reply" /\ Head(unread[c]).code = "ok"

(* The line is consumed, in time or not at all.                             *)
Consume(c) ==
  unread' = IF race[c] = "reply" THEN [unread EXCEPT ![c] = Tail(@)] ELSE unread

-----------------------------------------------------------------------------
(* The rest of the chain runs through.  do_recv_op is called all the same,  *)
(* and it asks the control socket for its port, which throws if no socket   *)
(* was opened; so does the message about the failed read.                   *)
Fail(c) ==
  IF control[c] = "unopened"
    THEN crashed' = "unopened" /\ UNCHANGED <<stage, result>>
    ELSE /\ stage' = [stage EXCEPT ![c] = "over"]
         /\ result' = [result EXCEPT ![c] = "failed"]
         /\ UNCHANGED crashed

(* async_init: resolve and connect.  Whatever comes of it the welcome is    *)
(* read.                                                                    *)
Connected(c) ==
  /\ ThreadFree /\ stage[c] = "init"
  /\ \E outcome \in {"open", "failed", "unopened"} : control' = [control EXCEPT ![c] = outcome]
  /\ stage' = [stage EXCEPT ![c] = "welcome"]
  /\ ReadWithTimeout(c)
  /\ UNCHANGED <<dummy, unread, requests, fileVars, dataVars, result, crashed>>

(* async_call: the write's error code is not looked at; the read follows.   *)
Call(c, request) ==
  /\ stage' = [stage EXCEPT ![c] = request]
  /\ ReadWithTimeout(c)
  /\ requests' = IF control[c] = "open"
                   THEN [requests EXCEPT ![c] = Append(@, request)]
                   ELSE requests
  /\ UNCHANGED <<result, crashed>>

(* A faulty chain that does not keep the size it was told.                  *)
SizeIgnored(c) == UNCHANGED file_size

KeepSize(c) ==
  file_size' = IF stage[c] = "size" /\ Successful(c)
                 THEN [file_size EXCEPT ![c] = Head(unread[c]).size]
                 ELSE file_size

(* Welcome, USER, PASS and SIZE: the next request, or failure.              *)
NextRequest(c) ==
  /\ ThreadFree /\ stage[c] \in DOMAIN After /\ Answered(c)
  /\ Consume(c)
  /\ KeepSize(c)
  /\ \/ Successful(c) /\ Call(c, After[stage[c]])
     \/ /\ ~ Successful(c) /\ Fail(c)
        /\ race' = [race EXCEPT ![c] = "none"]
        /\ UNCHANGED requests
  /\ UNCHANGED <<dummy, control, file, grown, dataVars>>

(* PASV: connect to the address in the reply.                               *)
Passive(c) ==
  /\ ThreadFree /\ stage[c] = "pasv" /\ Answered(c)
  /\ Consume(c)
  /\ race' = [race EXCEPT ![c] = "none"]
  /\ \/ Successful(c) /\ stage' = [stage EXCEPT ![c] = "connect"] /\ UNCHANGED <<result, crashed>>
     \/ ~ Successful(c) /\ Fail(c)
  /\ UNCHANGED <<dummy, control, requests, fileVars, dataVars>>

DataConnected(c) ==
  /\ ThreadFree /\ stage[c] = "connect"
  /\ \/ Call(c, "retr")
     \/ Fail(c) /\ UNCHANGED <<race, requests>>
  /\ UNCHANGED <<dummy, control, unread, fileVars, dataVars>>

(* RETR: do_recv_op, whose file or pipe may fail to open.                   *)
Retrieving(c) ==
  /\ ThreadFree /\ stage[c] = "retr" /\ Answered(c)
  /\ Consume(c)
  /\ race' = [race EXCEPT ![c] = "none"]
  /\ \/ Successful(c) /\ stage' = [stage EXCEPT ![c] = "receive"] /\ UNCHANGED <<result, crashed>>
     \/ Fail(c)
  /\ UNCHANGED <<dummy, control, requests, fileVars, dataVars>>

-----------------------------------------------------------------------------
(* RecvFileImpl.  It waits for the data socket to be readable; then a       *)
(* socket with nothing to read is taken for one that was closed, whether    *)
(* its end was the server's or a reset.                                     *)

(* A faulty end that does not wait for the socket to be readable.           *)
NothingToRead(c) == wire[c] = 0

RemoteClosed(c) == wire[c] = 0 /\ closed[c]

Finished(c) ==
  /\ ThreadFree /\ stage[c] = "receive" /\ RemoteClosed(c)
  /\ stage' = [stage EXCEPT ![c] = "complete"]
  /\ ReadWithTimeout(c)
  /\ UNCHANGED <<dummy, netVars, fileVars, dataVars, result, crashed>>

Counted(c) == offset' = [offset EXCEPT ![c] = @ + 1]

(* deal_event: pieces go through the pipe to the file, and the progress is  *)
(* a quotient by the size SIZE gave.                                        *)
Receive(c) ==
  /\ ThreadFree /\ stage[c] = "receive" /\ wire[c] > 0
  /\ wire' = [wire EXCEPT ![c] = @ - 1]
  /\ Counted(c)
  /\ crashed' = IF ~ dummy /\ file_size[c] = 0 THEN "division" ELSE crashed
  /\ UNCHANGED <<dummy, stage, race, netVars, fileVars, served, sending, closed, lost, result>>

(* splice from the socket fails and ends the chain; a splice to the file    *)
(* that fails is counted as minus one byte and tried for ever.              *)
ReceiveFails(c) ==
  /\ ThreadFree /\ stage[c] = "receive" /\ wire[c] > 0
  /\ stage' = [stage EXCEPT ![c] = "over"]
  /\ \E r \in {"failed", "spinning"} : result' = [result EXCEPT ![c] = r]
  /\ UNCHANGED <<dummy, race, netVars, fileVars, dataVars, crashed>>

(* The last reply says whether the transfer was complete.                   *)
Complete(c) ==
  /\ ThreadFree /\ stage[c] = "complete" /\ Answered(c)
  /\ Consume(c)
  /\ race' = [race EXCEPT ![c] = "none"]
  /\ stage' = [stage EXCEPT ![c] = "over"]
  /\ result' = [result EXCEPT ![c] = IF Successful(c) THEN "ok" ELSE "failed"]
  /\ UNCHANGED <<dummy, control, requests, fileVars, dataVars, crashed>>

Chain(c) ==
  \/ ReplyThrows(c) \/ Connected(c) \/ NextRequest(c) \/ Passive(c) \/ DataConnected(c)
  \/ Retrieving(c) \/ Receive(c) \/ ReceiveFails(c) \/ Finished(c) \/ Complete(c)

-----------------------------------------------------------------------------
(* External: the server.  What it does after the end of a chain is seen by  *)
(* nobody.                                                                  *)

Code == {"ok", "no", "junk"}

Reply(to, code) == [to |-> to, code |-> code, size |-> file]

Tell(c, reply) == unread' = [unread EXCEPT ![c] = Append(@, reply)]

Welcome(c) ==
  /\ Running /\ control[c] = "open" /\ requests[c] = <<>>
  /\ stage[c] = "welcome" /\ unread[c] = <<>>
  /\ \E code \in Code : Tell(c, Reply("welcome", code))
  /\ UNCHANGED <<dummy, stage, race, control, requests, fileVars, dataVars, result, crashed>>

Serve(c) ==
  /\ Running /\ control[c] = "open" /\ requests[c] # <<>>
  /\ requests' = [requests EXCEPT ![c] = Tail(@)]
  /\ \E code \in Code :
       /\ Tell(c, Reply(Head(requests[c]), code))
       /\ \/ /\ Head(requests[c]) = "retr" /\ code = "ok"
             /\ served' = [served EXCEPT ![c] = file]
             /\ sending' = [sending EXCEPT ![c] = file + 1]
          \/ /\ ~ (Head(requests[c]) = "retr" /\ code = "ok")
             /\ UNCHANGED <<served, sending>>
  /\ UNCHANGED <<dummy, stage, race, control, fileVars, wire, closed, lost, offset, result, crashed>>

(* The pieces of the file, then 226 and the end of the data connection; or  *)
(* its end only.                                                            *)
SendPiece(c) ==
  /\ Running /\ sending[c] > 1
  /\ sending' = [sending EXCEPT ![c] = @ - 1]
  /\ wire' = [wire EXCEPT ![c] = @ + 1]
  /\ UNCHANGED <<dummy, stage, race, netVars, fileVars, served, closed, lost, offset,
                 result, crashed>>

SendEnd(c) ==
  /\ Running /\ sending[c] > 0
  /\ \/ sending[c] = 1 /\ control[c] = "open" /\ Tell(c, Reply("complete", "ok"))
     \/ UNCHANGED unread
  /\ sending' = [sending EXCEPT ![c] = 0]
  /\ closed' = [closed EXCEPT ![c] = TRUE]
  /\ UNCHANGED <<dummy, stage, race, control, requests, fileVars, served, wire, lost, offset,
                 result, crashed>>

(* A reset of the data connection: some of what is on it is lost, and a     *)
(* server that has more to send gives up; one that has sent everything does *)
(* not see it and says 226 all the same.                                    *)
ResetData(c) ==
  /\ Running /\ (sending[c] > 0 \/ wire[c] > 0)
  /\ \E k \in 0 .. wire[c] :
       /\ wire' = [wire EXCEPT ![c] = @ - k]
       /\ lost' = [lost EXCEPT ![c] = @ + k]
  /\ closed' = [closed EXCEPT ![c] = TRUE]
  /\ sending' = [sending EXCEPT ![c] = IF @ > 1 THEN 0 ELSE @]
  /\ UNCHANGED <<dummy, stage, race, netVars, fileVars, served, offset, result, crashed>>

Disconnect(c) ==
  /\ Running /\ control[c] = "open"
  /\ control' = [control EXCEPT ![c] = "failed"]
  /\ UNCHANGED <<dummy, stage, race, unread, requests, fileVars, dataVars, result, crashed>>

FileGrows ==
  /\ Running /\ file < MaxFile
  /\ file' = file + 1
  /\ grown' = TRUE
  /\ UNCHANGED <<dummy, stage, race, netVars, file_size, dataVars, result, crashed>>

Network ==
  \E c \in Clients :
    /\ stage[c] # "over"
    /\ Welcome(c) \/ Serve(c) \/ SendPiece(c) \/ SendEnd(c) \/ ResetData(c) \/ Disconnect(c)

Next ==
  \/ \E c \in Clients : ReadFirst(c) \/ TimerFirst(c) \/ Chain(c)
  \/ Network
  \/ FileGrows

Spec == Init /\ [][Next]_vars

(* The timers expire and the pool runs what is ready.  Nothing is assumed   *)
(* of the server.                                                           *)
FairSpec == Spec /\ \A c \in Clients : WF_vars(TimerFirst(c)) /\ WF_vars(Chain(c))

-----------------------------------------------------------------------------
(* The types.                                                               *)
ReplyType == [to : Replying, code : Code, size : 0 .. MaxFile]

TypeOK ==
  /\ dummy \in BOOLEAN
  /\ stage \in [Clients -> Stage]
  /\ race \in [Clients -> {"none", "untimed", "running", "reply", "error", "timeout"}]
  /\ control \in [Clients -> {"unopened", "open", "failed"}]
  /\ unread \in [Clients -> Seq(ReplyType)]
  /\ requests \in [Clients -> Seq(Replying)]
  /\ file \in 0 .. MaxFile
  /\ file_size \in [Clients -> 0 .. MaxFile]
  /\ grown \in BOOLEAN
  /\ served \in [Clients -> 0 .. MaxFile]
  /\ sending \in [Clients -> 0 .. MaxFile + 1]
  /\ wire \in [Clients -> 0 .. MaxFile]
  /\ closed \in [Clients -> BOOLEAN]
  /\ lost \in [Clients -> 0 .. MaxFile]
  /\ offset \in [Clients -> 0 .. MaxFile]
  /\ result \in [Clients -> {"none", "ok", "failed", "spinning"}]
  /\ crashed \in {"no", "unopened", "malformed", "division"}

(* A reply that comes after its read timed out is never taken for the       *)
(* answer to the next request: what a stage consumes answers that stage.    *)
ReplyAnswersRequest ==
  [][\A c \in Clients : Len(unread'[c]) < Len(unread[c]) => Head(unread[c]).to = stage[c]]_vars

(* A session that is reported finished received every piece of the file as  *)
(* it was when RETR was accepted, in whatever order the pieces, the end of  *)
(* the data connection and the 226 arrived -- but for those that a reset of *)
(* the data connection lost, which the client takes for its end.            *)
SuccessIsComplete ==
  \A c \in Clients : result[c] = "ok" => offset[c] + lost[c] = served[c]

(* The process ends only for a welcome that is read without a socket to     *)
(* name, for a reply whose number cannot be converted, or, where progress   *)
(* is shown, because the file grew from nothing between SIZE and RETR.      *)
CrashHasCause ==
  /\ crashed = "unopened" =>
       \E c \in Clients : stage[c] = "welcome" /\ control[c] = "unopened"
  /\ crashed = "malformed" => \E c \in Clients : Malformed(c)
  /\ crashed = "division" =>
       grown /\ ~ dummy /\ \E c \in Clients : file_size[c] = 0 /\ offset[c] > 0

(* A chain that waits for replies comes to its next other stage, or to its  *)
(* end, whatever the server does.                                           *)
AnswerOrTimeout ==
  \A c \in Clients :
    stage[c] \in Replying ~> stage[c] \notin Replying \/ ~ ThreadFree
=============================================================================
