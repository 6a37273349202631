--------------------------- MODULE BenchmarkProofs ---------------------------
(***************************************************************************)
(* Theorems about the benchmark client, for any number of clients and of   *)
(* threads and any size of the file: a reply is never taken for the answer *)
(* to another request, a session that is reported finished lacks nothing   *)
(* but what a reset lost, and what can end the process.                    *)
(***************************************************************************)
EXTENDS Benchmark, TLAPS

(* The requests and replies of a chain that is not over.  One request is    *)
(* under way and the replies to the earlier ones were consumed; only the    *)
(* 226 comes without one, behind the reply to RETR.                         *)
Dialogue(c) ==
  /\ requests[c] # <<>> =>
       /\ unread[c] = <<>> /\ Len(requests[c]) = 1 /\ requests[c][1] = stage[c]
       /\ stage[c] \in Replying \ {"welcome", "complete"}
  /\ unread[c] # <<>> =>
       /\ stage[c] \in Replying \cup {"receive"}
       /\ unread[c][1].to = (IF stage[c] = "receive" THEN "complete" ELSE stage[c])
  /\ Len(unread[c]) > 1 =>
       stage[c] = "retr" /\ Len(unread[c]) = 2 /\ unread[c][2].to = "complete"

(* Before RETR is answered nothing has moved.                               *)
Accepted(c) ==
  stage[c] \in {"receive", "complete"} \/ (stage[c] = "retr" /\ unread[c] # <<>>)

(* The pieces: those the server has yet to send, those on the way, those    *)
(* lost and those received are the file, until the server gives up; after a *)
(* 226 none is left to send.                                                *)
Gone(c) == wire[c] + lost[c] + offset[c]

Pieces(c) ==
  /\ ~ Accepted(c) =>
       /\ served[c] = 0 /\ sending[c] = 0 /\ wire[c] = 0 /\ ~ closed[c]
       /\ lost[c] = 0 /\ offset[c] = 0
  /\ Gone(c) <= served[c]
  /\ sending[c] > 0 =>
       /\ sending[c] + Gone(c) = served[c] + 1
       /\ closed[c] => sending[c] = 1
  /\ \A i \in 1 .. Len(unread[c]) :
       unread[c][i].to = "complete" =>
         sending[c] = 0 /\ closed[c] /\ Gone(c) = served[c]
  /\ stage[c] = "complete" => wire[c] = 0 /\ closed[c]

Chained(c) ==
  /\ stage[c] # "over" => Dialogue(c) /\ Pieces(c)
  /\ race[c] = "reply" => unread[c] # <<>>
  /\ control[c] = "unopened" => stage[c] \in {"init", "welcome", "over"} /\ unread[c] = <<>>
  /\ result[c] = "ok" => stage[c] = "over" /\ offset[c] + lost[c] = served[c]

(* As long as the file has not grown everybody knows its size.              *)
SizeKnown(c) ==
  ~ grown /\ stage[c] # "over" =>
    /\ \A i \in 1 .. Len(unread[c]) : unread[c][i].size = file
    /\ stage[c] \in {"pasv", "connect", "retr", "receive", "complete"} => file_size[c] = file
    /\ served[c] <= file

Inv ==
  /\ TypeOK
  /\ \A c \in Clients : Chained(c) /\ SizeKnown(c)
  /\ CrashHasCause

-----------------------------------------------------------------------------
(* At the start no chain has sent or received anything (async_init).        *)
LEMMA InitInv == Init => Inv
<1>. SUFFICES ASSUME Init PROVE Inv
  OBVIOUS
<1>1. TypeOK
  <2>1. unread \in [Clients -> Seq(ReplyType)] /\ requests \in [Clients -> Seq(Replying)]
    BY DEF Init
  <2>2. PICK started \in SUBSET Clients :
          stage = [c \in Clients |-> IF c \in started THEN "init" ELSE "over"]
    BY DEF Init
  <2>3. stage \in [Clients -> Stage]
    BY <2>2 DEF Stage
  <2>4. 0 \in 0 .. MaxFile /\ 0 \in 0 .. MaxFile + 1
    BY BenchmarkAssumption
  <2>. QED  BY <2>1, <2>3, <2>4 DEF Init, TypeOK
<1>2. ASSUME NEW c \in Clients PROVE Chained(c) /\ SizeKnown(c)
  BY BenchmarkAssumption DEF Init, Chained, SizeKnown, Dialogue, Pieces, Gone, Accepted, Replying
<1>3. CrashHasCause
  BY DEF Init, CrashHasCause
<1>. QED  BY <1>1, <1>2, <1>3 DEF Inv

(* What belongs to one client.                                              *)
Same(c) ==
  /\ stage'[c] = stage[c] /\ race'[c] = race[c] /\ control'[c] = control[c]
  /\ unread'[c] = unread[c] /\ requests'[c] = requests[c] /\ file_size'[c] = file_size[c]
  /\ served'[c] = served[c] /\ sending'[c] = sending[c] /\ wire'[c] = wire[c]
  /\ closed'[c] = closed[c] /\ lost'[c] = lost[c] /\ offset'[c] = offset[c] /\ result'[c] = result[c]

(* A client whose state stays the same keeps what holds of it.              *)
LEMMA SameClient ==
  ASSUME NEW c \in Clients, Chained(c), SizeKnown(c), Same(c),
         grown' \/ (file' = file /\ grown' = grown)
  PROVE  Chained(c)' /\ SizeKnown(c)'
<1>1. Chained(c)'
  BY DEF Same, Chained, Dialogue, Pieces, Gone, Accepted
<1>2. SizeKnown(c)'
  BY DEF Same, SizeKnown
<1>. QED  BY <1>1, <1>2

(* A step of one client, of its chain or of what its server does.           *)
LEMMA OneClient ==
  ASSUME Inv, TypeOK', NEW c \in Clients, \A d \in Clients : d # c => Same(d),
         file' = file, grown' = grown,
         Chained(c)', SizeKnown(c)', CrashHasCause'
  PROVE  Inv'
<1>1. ASSUME NEW d \in Clients PROVE Chained(d)' /\ SizeKnown(d)'
  <2>1. CASE d = c
    BY <2>1
  <2>2. CASE d # c
    BY <2>2, SameClient DEF Inv
  <2>. QED  BY <2>1, <2>2
<1>. QED  BY <1>1 DEF Inv

-----------------------------------------------------------------------------
(* The sequence without its head.                                           *)
LEMMA TailFacts ==
  ASSUME NEW S, NEW s \in Seq(S), s # <<>>
  PROVE  /\ s[1] \in S /\ Head(s) = s[1]
         /\ Tail(s) \in Seq(S) /\ Len(Tail(s)) = Len(s) - 1
         /\ \A i \in 1 .. Len(Tail(s)) : Tail(s)[i] = s[i + 1]
  OBVIOUS

LEMMA EmptySequence ==
  ASSUME NEW S, NEW s \in Seq(S), Len(s) = 0
  PROVE  s = <<>>
  OBVIOUS

(* One of the read and its timer comes first                                *)
(* (get_read_with_timeout_op).                                              *)
LEMMA RaceInv ==
  ASSUME Inv, NEW c \in Clients, ReadFirst(c) \/ TimerFirst(c)
  PROVE  Inv'
<1>. USE DEF ReadFirst, TimerFirst, ThreadFree, Running, netVars, fileVars, dataVars
<1>1. TypeOK'
  <2>1. race' \in [Clients -> {"none", "untimed", "running", "reply", "error", "timeout"}]
    BY ZenonT(30) DEF Inv, TypeOK
  <2>. QED  BY <2>1 DEF Inv, TypeOK
<1>2. \A d \in Clients : d # c => Same(d)
  BY DEF Inv, TypeOK, Same
<1>3. Chained(c)'
  <2>1. Chained(c)
    BY DEF Inv
  <2>2. race'[c] = "reply" => unread[c] # <<>>
    BY DEF Inv, TypeOK
  <2>. QED  BY <2>1, <2>2 DEF Chained, Dialogue, Pieces, Gone, Accepted
<1>4. SizeKnown(c)'
  BY DEF Inv, TypeOK, SizeKnown
<1>5. CrashHasCause'
  BY DEF Inv, CrashHasCause
<1>. QED  BY <1>1, <1>2, <1>3, <1>4, <1>5, OneClient

(* build_resp throws, and the process ends.                                 *)
LEMMA ReplyThrowsInv ==
  ASSUME Inv, NEW c \in Clients, ReplyThrows(c)
  PROVE  Inv'
<1>. USE DEF ReplyThrows, netVars, fileVars, dataVars
<1>1. TypeOK'
  BY DEF Inv, TypeOK
<1>2. ASSUME NEW d \in Clients PROVE Chained(d)' /\ SizeKnown(d)'
  <2>1. Same(d)
    BY DEF Same
  <2>. QED  BY <2>1, SameClient DEF Inv
<1>3. CrashHasCause'
  BY DEF CrashHasCause, Malformed
<1>. QED  BY <1>1, <1>2, <1>3 DEF Inv

(* async_init.                                                              *)
LEMMA ConnectedInv ==
  ASSUME Inv, NEW c \in Clients, Connected(c)
  PROVE  Inv'
<1>. USE DEF Connected, ReadWithTimeout, ThreadFree, Running, fileVars, dataVars
<1>1. TypeOK'
  <2>1. control' \in [Clients -> {"unopened", "open", "failed"}]
    BY DEF Inv, TypeOK
  <2>2. stage' \in [Clients -> Stage] /\ race' \in [Clients -> {"none", "untimed", "running", "reply", "error", "timeout"}]
    BY DEF Inv, TypeOK, Stage, Replying
  <2>. QED  BY <2>1, <2>2 DEF Inv, TypeOK
<1>2. \A d \in Clients : d # c => Same(d)
  BY DEF Inv, TypeOK, Same
<1>3. Chained(c)'
  BY ZenonT(30) DEF Inv, TypeOK, Chained, Dialogue, Pieces, Gone, Accepted, Replying
<1>4. SizeKnown(c)'
  BY DEF Inv, TypeOK, SizeKnown
<1>5. CrashHasCause'
  BY DEF Inv, CrashHasCause
<1>. QED  BY <1>1, <1>2, <1>3, <1>4, <1>5, OneClient

(* What Consume leaves.  A reply is consumed as the answer to the stage the *)
(* chain is in, and then at most the 226 is left.                           *)
LEMMA ConsumeFacts ==
  ASSUME Inv, NEW c \in Clients, stage[c] \in Replying, Consume(c)
  PROVE  /\ unread' \in [Clients -> Seq(ReplyType)]
         /\ \A d \in Clients : d # c => unread'[d] = unread[d]
         /\ race[c] # "reply" => unread'[c] = unread[c]
         /\ race[c] = "reply" =>
              /\ unread[c] # <<>> /\ unread[c][1] \in ReplyType
              /\ Head(unread[c]) = unread[c][1] /\ unread[c][1].to = stage[c]
              /\ Len(unread'[c]) = Len(unread[c]) - 1
              /\ \A i \in 1 .. Len(unread'[c]) : unread'[c][i] = unread[c][i + 1]
<1>1. unread \in [Clients -> Seq(ReplyType)]
  BY DEF Inv, TypeOK
<1>2. CASE race[c] # "reply"
  BY <1>1, <1>2 DEF Consume
<1>3. CASE race[c] = "reply"
  <2>1. unread[c] # <<>> /\ unread[c][1].to = stage[c]
    BY <1>3 DEF Inv, Chained, Dialogue, Replying
  <2>2. unread' = [unread EXCEPT ![c] = Tail(unread[c])]
    BY <1>3 DEF Consume
  <2>3. unread[c] \in Seq(ReplyType)
    BY <1>1
  <2>4. /\ unread[c][1] \in ReplyType /\ Head(unread[c]) = unread[c][1]
        /\ Tail(unread[c]) \in Seq(ReplyType) /\ Len(Tail(unread[c])) = Len(unread[c]) - 1
        /\ \A i \in 1 .. Len(Tail(unread[c])) : Tail(unread[c])[i] = unread[c][i + 1]
    BY <2>1, <2>3, TailFacts
  <2>. QED  BY <1>1, <1>3, <2>1, <2>2, <2>4
<1>. QED  BY <1>2, <1>3

(* A chain that came to its end without success: nothing more is asked.     *)
LEMMA EndOfChain ==
  ASSUME NEW c \in Clients, stage'[c] = "over", result'[c] # "ok",
         control'[c] # "unopened", race'[c] = "reply" => unread'[c] # <<>>
  PROVE  Chained(c)' /\ SizeKnown(c)'
<1>1. Chained(c)'
  BY DEF Chained
<1>2. SizeKnown(c)'
  BY DEF SizeKnown
<1>. QED  BY <1>1, <1>2

(* Fail: the end of the chain, or of the process if no socket was opened.   *)
LEMMA FailFacts ==
  ASSUME TypeOK, NEW c \in Clients, Fail(c)
  PROVE  /\ stage' \in [Clients -> Stage] /\ crashed' \in {"no", "unopened", "malformed", "division"}
         /\ result' \in [Clients -> {"none", "ok", "failed", "spinning"}]
         /\ \A d \in Clients : d # c => stage'[d] = stage[d] /\ result'[d] = result[d]
         /\ control[c] # "unopened" =>
              stage'[c] = "over" /\ result'[c] = "failed" /\ crashed' = crashed
         /\ control[c] = "unopened" =>
              stage' = stage /\ result' = result /\ crashed' = "unopened"
  BY ZenonT(30) DEF TypeOK, Fail, Stage

(* The welcome and the replies to USER, PASS and SIZE (async_call).         *)
LEMMA NextRequestInv ==
  ASSUME Inv, NEW c \in Clients, NextRequest(c)
  PROVE  Inv'
<1>. DEFINE next == After[stage[c]]
<1>1. /\ stage[c] \in {"welcome", "user", "pass", "size"} /\ crashed = "no"
      /\ Consume(c) /\ KeepSize(c)
      /\ UNCHANGED <<dummy, control, file, grown, dataVars>>
  BY DEF NextRequest, After, ThreadFree, Running
<1>2. /\ stage[c] \in Replying /\ next \in {"user", "pass", "size", "pasv"}
      /\ stage[c] # "size" => next # "pasv"
  BY <1>1 DEF After, Replying
<1>. HIDE DEF next
<1>3. TypeOK /\ Chained(c) /\ SizeKnown(c) /\ Dialogue(c) /\ Pieces(c)
  BY <1>1 DEF Inv, Chained
<1>4. /\ unread' \in [Clients -> Seq(ReplyType)]
      /\ \A d \in Clients : d # c => unread'[d] = unread[d]
      /\ race[c] # "reply" => unread'[c] = unread[c]
      /\ race[c] = "reply" =>
           unread[c] # <<>> /\ unread[c][1] \in ReplyType /\ Head(unread[c]) = unread[c][1]
             /\ Len(unread'[c]) = Len(unread[c]) - 1
  BY <1>1, <1>2, ConsumeFacts
<1>5. /\ file_size' \in [Clients -> 0 .. MaxFile]
      /\ \A d \in Clients : d # c => file_size'[d] = file_size[d]
      /\ stage[c] = "size" /\ Successful(c) => file_size'[c] = unread[c][1].size
  <2>1. race[c] = "reply" => unread[c][1].size \in 0 .. MaxFile
    BY <1>4 DEF ReplyType
  <2>2. CASE stage[c] = "size" /\ Successful(c)
    <3>1. file_size' = [file_size EXCEPT ![c] = unread[c][1].size]
      BY <1>1, <1>4, <2>2 DEF KeepSize, Successful
    <3>. QED  BY <1>3, <2>1, <2>2, <3>1 DEF TypeOK, Successful
  <2>3. CASE ~ (stage[c] = "size" /\ Successful(c))
    BY <1>1, <1>3, <2>3 DEF KeepSize, TypeOK
  <2>. QED  BY <2>2, <2>3
<1>6. CASE Successful(c) /\ Call(c, next)
  <2>1. /\ stage' = [stage EXCEPT ![c] = next] /\ race' = [race EXCEPT ![c] = "running"]
        /\ UNCHANGED <<result, crashed>>
        /\ requests' = IF control[c] = "open"
                         THEN [requests EXCEPT ![c] = Append(@, next)] ELSE requests
    BY <1>6 DEF Call, ReadWithTimeout
  <2>2. race[c] = "reply" /\ requests[c] = <<>> /\ Len(unread[c]) = 1
    BY <1>1, <1>3, <1>4, <1>6, SMTT(30) DEF Successful, Dialogue, TypeOK
  <2>3. unread'[c] = <<>> /\ control[c] # "unopened"
    BY <1>3, <1>4, <2>2 DEF Chained
  <2>4. /\ requests' \in [Clients -> Seq(Replying)]
        /\ \A d \in Clients : d # c => requests'[d] = requests[d]
        /\ requests'[c] # <<>> => Len(requests'[c]) = 1 /\ requests'[c][1] = next
    BY <1>2, <1>3, <2>1, <2>2 DEF TypeOK, Replying
  <2>5. TypeOK'
    BY <1>1, <1>2, <1>3, <1>4, <1>5, <2>1, <2>4 DEF TypeOK, dataVars, Stage, Replying
  <2>6. \A d \in Clients : d # c => Same(d)
    BY <1>1, <1>3, <1>4, <1>5, <2>1, <2>4 DEF TypeOK, Same, dataVars
  <2>7. stage'[c] = next /\ race'[c] = "running"
    BY <1>3, <2>1 DEF TypeOK
  <2>8. Chained(c)'
    BY <1>1, <1>2, <1>3, <2>1, <2>3, <2>4, <2>7
    DEF Chained, Dialogue, Pieces, Gone, Accepted, dataVars, Replying
  <2>9. SizeKnown(c)'
    BY <1>1, <1>2, <1>3, <1>5, <1>6, <2>2, <2>3, <2>7 DEF SizeKnown, dataVars
  <2>10. CrashHasCause'
    BY <1>1, <2>1 DEF CrashHasCause
  <2>. QED  BY <1>1, <2>5, <2>6, <2>8, <2>9, <2>10, OneClient
<1>7. CASE Fail(c) /\ race' = [race EXCEPT ![c] = "none"] /\ UNCHANGED requests
  <2>1. /\ stage' \in [Clients -> Stage] /\ crashed' \in {"no", "unopened", "malformed", "division"}
        /\ result' \in [Clients -> {"none", "ok", "failed", "spinning"}]
        /\ \A d \in Clients : d # c => stage'[d] = stage[d] /\ result'[d] = result[d]
        /\ control[c] # "unopened" =>
             stage'[c] = "over" /\ result'[c] = "failed" /\ crashed' = crashed
        /\ control[c] = "unopened" =>
             stage' = stage /\ result' = result /\ crashed' = "unopened"
    BY <1>3, <1>7, FailFacts
  <2>2. TypeOK'
    BY <1>1, <1>3, <1>4, <1>5, <1>7, <2>1 DEF TypeOK, dataVars
  <2>3. \A d \in Clients : d # c => Same(d)
    BY <1>1, <1>3, <1>4, <1>5, <1>7, <2>1 DEF TypeOK, Same, dataVars
  <2>4. race'[c] = "none" /\ control' = control
    BY <1>1, <1>3, <1>7 DEF TypeOK
  <2>5. CASE control[c] # "unopened"
    <3>1. Chained(c)' /\ SizeKnown(c)'
      BY <2>1, <2>4, <2>5, EndOfChain
    <3>2. CrashHasCause'
      BY <1>1, <2>1, <2>5 DEF CrashHasCause
    <3>. QED  BY <1>1, <2>2, <2>3, <3>1, <3>2, OneClient
  <2>6. CASE control[c] = "unopened"
    <3>1. unread[c] = <<>> /\ stage[c] = "welcome" /\ race[c] # "reply"
      BY <1>1, <1>3, <2>6 DEF Chained
    <3>2. unread'[c] = <<>> /\ stage'[c] = "welcome" /\ result'[c] = result[c]
      BY <1>4, <2>1, <2>6, <3>1
    <3>3. Chained(c)'
      BY <1>1, <1>3, <1>7, <2>4, <2>6, <3>1, <3>2
      DEF Chained, Dialogue, Pieces, Gone, Accepted, dataVars
    <3>4. SizeKnown(c)'
      BY <1>1, <1>3, <3>1, <3>2 DEF SizeKnown, dataVars
    <3>5. CrashHasCause'
      BY <2>1, <2>4, <2>6, <3>2 DEF CrashHasCause
    <3>. QED  BY <1>1, <2>2, <2>3, <3>3, <3>4, <3>5, OneClient
  <2>. QED  BY <2>5, <2>6
<1>. QED  BY <1>6, <1>7 DEF NextRequest, next

(* A chain with a socket fails: the process goes on.                        *)
LEMMA FailInv ==
  ASSUME Inv, NEW c \in Clients, crashed = "no", Fail(c), control[c] # "unopened",
         UNCHANGED <<dummy, control, requests, fileVars, dataVars>>,
         race' = [race EXCEPT ![c] = "none"] \/ UNCHANGED <<race, unread>>,
         unread' \in [Clients -> Seq(ReplyType)],
         \A d \in Clients : d # c => unread'[d] = unread[d]
  PROVE  Inv'
<1>1. TypeOK /\ Chained(c)
  BY DEF Inv
<1>2. /\ stage' \in [Clients -> Stage] /\ crashed' \in {"no", "unopened", "malformed", "division"}
      /\ result' \in [Clients -> {"none", "ok", "failed", "spinning"}]
      /\ \A d \in Clients : d # c => stage'[d] = stage[d] /\ result'[d] = result[d]
      /\ stage'[c] = "over" /\ result'[c] = "failed" /\ crashed' = crashed
  BY <1>1, FailFacts
<1>3. TypeOK'
  BY <1>1, <1>2 DEF TypeOK, fileVars, dataVars
<1>4. \A d \in Clients : d # c => Same(d)
  BY <1>1, <1>2 DEF TypeOK, Same, fileVars, dataVars
<1>5. race'[c] = "reply" => unread'[c] # <<>>
  BY <1>1 DEF Chained, TypeOK
<1>6. Chained(c)' /\ SizeKnown(c)'
  BY <1>2, <1>5, EndOfChain
<1>7. CrashHasCause'
  BY <1>2 DEF CrashHasCause
<1>8. file' = file /\ grown' = grown
  BY DEF fileVars
<1>. QED  BY <1>3, <1>4, <1>6, <1>7, <1>8, OneClient

(* The reply to PASV, and to RETR when the file to receive is there.        *)
LEMMA AcceptedInv ==
  ASSUME Inv, NEW c \in Clients, crashed = "no", Consume(c), Successful(c),
         NEW next,
         \/ stage[c] = "pasv" /\ next = "connect"
         \/ stage[c] = "retr" /\ next = "receive",
         stage' = [stage EXCEPT ![c] = next], race' = [race EXCEPT ![c] = "none"],
         UNCHANGED <<dummy, control, requests, fileVars, dataVars, result, crashed>>
  PROVE  Inv'
<1>1. TypeOK /\ Chained(c) /\ SizeKnown(c) /\ Dialogue(c) /\ Pieces(c)
  BY DEF Inv, Chained
<1>2. stage[c] \in Replying /\ stage[c] # "over" /\ next \in Stage /\ next # "over"
  BY DEF Replying, Stage
<1>3. /\ unread' \in [Clients -> Seq(ReplyType)]
      /\ \A d \in Clients : d # c => unread'[d] = unread[d]
      /\ unread[c] # <<>> /\ Len(unread'[c]) = Len(unread[c]) - 1
      /\ \A i \in 1 .. Len(unread'[c]) : unread'[c][i] = unread[c][i + 1]
  BY <1>2, ConsumeFacts DEF Successful
<1>4. TypeOK'
  BY <1>1, <1>2, <1>3 DEF TypeOK, fileVars, dataVars
<1>5. \A d \in Clients : d # c => Same(d)
  BY <1>1, <1>3 DEF TypeOK, Same, fileVars, dataVars
<1>6. stage'[c] = next /\ race'[c] = "none"
  BY <1>1 DEF TypeOK
<1>7. requests[c] = <<>>
  BY <1>1, <1>3 DEF Dialogue
<1>8. Dialogue(c)'
  <2>1. unread[c] \in Seq(ReplyType) /\ unread'[c] \in Seq(ReplyType)
    BY <1>1, <1>3 DEF TypeOK
  <2>2. CASE stage[c] = "pasv"
    BY <1>1, <1>3, <1>6, <1>7, <2>1, <2>2 DEF Dialogue
  <2>3. CASE stage[c] = "retr"
    <3>1. unread'[c] # <<>> => unread'[c][1] = unread[c][2] /\ Len(unread[c]) > 1
      BY <1>3, <2>1, SMTT(30)
    <3>2. Len(unread'[c]) <= 1
      <4>1. Len(unread[c]) > 1 => Len(unread[c]) = 2
        BY <1>1 DEF Dialogue
      <4>2. Len(unread[c]) \in Nat
        BY <2>1
      <4>. QED  BY <1>3, <4>1, <4>2, SMTT(30)
    <3>. QED  BY <1>1, <1>6, <1>7, <2>3, <3>1, <3>2 DEF Dialogue
  <2>. QED  BY <2>2, <2>3
<1>9. Pieces(c)'
  <2>1. unread[c] \in Seq(ReplyType) /\ unread'[c] \in Seq(ReplyType)
    BY <1>1, <1>3 DEF TypeOK
  <2>2. \A i \in 1 .. Len(unread'[c]) : i + 1 \in 1 .. Len(unread[c])
    BY <1>3, <2>1
  <2>. QED  BY <1>1, <1>3, <1>6, <2>2 DEF Pieces, Gone, Accepted, dataVars
<1>10. Chained(c)'
  BY <1>1, <1>3, <1>6, <1>8, <1>9 DEF Chained
<1>11. SizeKnown(c)'
  <2>1. unread[c] \in Seq(ReplyType) /\ unread'[c] \in Seq(ReplyType)
    BY <1>1, <1>3 DEF TypeOK
  <2>2. \A i \in 1 .. Len(unread'[c]) : i + 1 \in 1 .. Len(unread[c])
    BY <1>3, <2>1
  <2>. QED  BY <1>1, <1>3, <1>6, <2>2 DEF SizeKnown, fileVars, dataVars
<1>12. CrashHasCause'
  BY DEF CrashHasCause
<1>13. file' = file /\ grown' = grown
  BY DEF fileVars
<1>. QED  BY <1>4, <1>5, <1>10, <1>11, <1>12, <1>13, OneClient

(* PASV, and RETR with do_recv_op.                                          *)
LEMMA PassiveInv ==
  ASSUME Inv, NEW c \in Clients, Passive(c) \/ Retrieving(c)
  PROVE  Inv'
<1>1. /\ crashed = "no" /\ Consume(c) /\ race' = [race EXCEPT ![c] = "none"]
      /\ stage[c] \in {"pasv", "retr"}
      /\ UNCHANGED <<dummy, control, requests, fileVars, dataVars>>
  BY DEF Passive, Retrieving, ThreadFree, Running
<1>2. stage[c] \in Replying /\ control[c] # "unopened"
  BY <1>1 DEF Inv, Chained, Replying
<1>3. CASE Fail(c)
  BY <1>1, <1>2, <1>3, ConsumeFacts, FailInv
<1>4. CASE Successful(c) /\ UNCHANGED <<result, crashed>>
           /\ stage[c] = "pasv" /\ stage' = [stage EXCEPT ![c] = "connect"]
  BY <1>1, <1>4, AcceptedInv
<1>5. CASE Successful(c) /\ UNCHANGED <<result, crashed>>
           /\ stage[c] = "retr" /\ stage' = [stage EXCEPT ![c] = "receive"]
  BY <1>1, <1>5, AcceptedInv
<1>. QED  BY <1>3, <1>4, <1>5 DEF Passive, Retrieving

(* The data connection is there, and RETR is sent; or it is not.            *)
LEMMA DataConnectedInv ==
  ASSUME Inv, NEW c \in Clients, DataConnected(c)
  PROVE  Inv'
<1>1. /\ crashed = "no" /\ stage[c] = "connect"
      /\ UNCHANGED <<dummy, control, unread, fileVars, dataVars>>
  BY DEF DataConnected, ThreadFree, Running
<1>2. TypeOK /\ Chained(c) /\ SizeKnown(c) /\ Dialogue(c) /\ Pieces(c)
  BY <1>1 DEF Inv, Chained
<1>3. control[c] # "unopened" /\ unread[c] = <<>> /\ requests[c] = <<>>
  BY <1>1, <1>2 DEF Chained, Dialogue, Replying
<1>4. CASE Call(c, "retr")
  <2>1. /\ stage' = [stage EXCEPT ![c] = "retr"] /\ race' = [race EXCEPT ![c] = "running"]
        /\ UNCHANGED <<result, crashed>>
    BY <1>4 DEF Call, ReadWithTimeout
  <2>2. /\ requests' \in [Clients -> Seq(Replying)]
        /\ \A d \in Clients : d # c => requests'[d] = requests[d]
        /\ requests'[c] # <<>> => Len(requests'[c]) = 1 /\ requests'[c][1] = "retr"
    BY <1>2, <1>3, <1>4 DEF TypeOK, Call, Replying
  <2>3. TypeOK'
    BY <1>1, <1>2, <2>1, <2>2 DEF TypeOK, fileVars, dataVars, Stage, Replying
  <2>4. \A d \in Clients : d # c => Same(d)
    BY <1>1, <1>2, <2>1, <2>2 DEF TypeOK, Same, fileVars, dataVars
  <2>5. stage'[c] = "retr" /\ race'[c] = "running"
    BY <1>2, <2>1 DEF TypeOK
  <2>6. Chained(c)'
    BY <1>1, <1>2, <1>3, <2>1, <2>2, <2>5
    DEF Chained, Dialogue, Pieces, Gone, Accepted, dataVars, Replying
  <2>7. SizeKnown(c)'
    BY <1>1, <1>2, <1>3, <2>5 DEF SizeKnown, fileVars, dataVars
  <2>8. CrashHasCause'
    BY <1>1, <2>1 DEF CrashHasCause
  <2>9. file' = file /\ grown' = grown
    BY <1>1 DEF fileVars
  <2>. QED  BY <2>3, <2>4, <2>6, <2>7, <2>8, <2>9, OneClient
<1>5. CASE Fail(c) /\ UNCHANGED <<race, requests>>
  <2>1. unread' \in [Clients -> Seq(ReplyType)] /\ unread' = unread
    BY <1>1, <1>2 DEF TypeOK
  <2>. QED  BY <1>1, <1>3, <1>5, <2>1, FailInv
<1>. QED  BY <1>4, <1>5 DEF DataConnected

(* deal_event.  The progress is a quotient by the size that SIZE gave,      *)
(* which is not zero when something is received -- unless the file grew.    *)
LEMMA ReceiveInv ==
  ASSUME Inv, NEW c \in Clients, Receive(c)
  PROVE  Inv'
<1>. USE BenchmarkAssumption DEF Receive, Counted, ThreadFree, Running, netVars, fileVars
<1>1. TypeOK /\ Chained(c) /\ SizeKnown(c) /\ Dialogue(c) /\ Pieces(c)
  BY DEF Inv, Chained
<1>2. /\ wire'[c] = wire[c] - 1 /\ offset'[c] = offset[c] + 1
      /\ wire[c] \in Nat /\ offset[c] \in Nat /\ lost[c] \in Nat
      /\ served[c] \in 0 .. MaxFile /\ sending[c] \in Nat
      /\ Gone(c) <= served[c] /\ Gone(c) = wire[c] + lost[c] + offset[c] /\ wire[c] > 0
  BY <1>1 DEF TypeOK, Pieces, Gone
<1>3. TypeOK'
  <2>1. wire' \in [Clients -> 0 .. MaxFile]
    BY <1>1, <1>2, SMTT(30) DEF TypeOK
  <2>2. offset'[c] \in 0 .. MaxFile
    BY <1>2
  <2>3. offset' \in [Clients -> 0 .. MaxFile]
    BY <1>1, <2>2 DEF TypeOK
  <2>. QED  BY <1>1, <2>1, <2>3 DEF TypeOK
<1>4. \A d \in Clients : d # c => Same(d)
  BY <1>1 DEF TypeOK, Same
<1>5. Pieces(c)'
  <2>1. wire'[c] + lost[c] + offset'[c] = wire[c] + lost[c] + offset[c]
    BY <1>2
  <2>2. Gone(c)' = Gone(c)
    BY <2>1 DEF Gone
  <2>3. UNCHANGED <<stage, unread, sending, served, closed, lost>> /\ stage[c] = "receive"
    OBVIOUS
  <2>. QED  BY <1>1, <1>2, <2>2, <2>3 DEF Pieces, Accepted
<1>6. Chained(c)'
  BY <1>1, <1>5 DEF Chained, Dialogue
<1>7. SizeKnown(c)'
  BY <1>1 DEF SizeKnown
<1>8. CrashHasCause'
  <2>1. ~ grown => file_size[c] = file /\ served[c] <= file
    BY <1>1 DEF SizeKnown
  <2>2. ~ grown => file_size[c] # 0
    BY <1>1, <1>2, <2>1 DEF TypeOK
  <2>3. file_size' = file_size /\ offset'[c] > 0 /\ grown' = grown /\ dummy' = dummy
    BY <1>2
  <2>4. CASE ~ dummy /\ file_size[c] = 0
    BY <2>2, <2>3, <2>4 DEF CrashHasCause
  <2>5. CASE ~ (~ dummy /\ file_size[c] = 0)
    BY <2>5 DEF CrashHasCause
  <2>. QED  BY <2>4, <2>5
<1>. QED  BY <1>3, <1>4, <1>6, <1>7, <1>8, OneClient

(* The chain ends when the splice from the socket or to the file fails.     *)
LEMMA ReceiveFailsInv ==
  ASSUME Inv, NEW c \in Clients, ReceiveFails(c)
  PROVE  Inv'
<1>. USE DEF ReceiveFails, ThreadFree, Running, netVars, fileVars, dataVars
<1>1. TypeOK /\ Chained(c)
  BY DEF Inv
<1>2. /\ stage' \in [Clients -> Stage] /\ result'[c] # "ok" /\ stage'[c] = "over"
      /\ result' \in [Clients -> {"none", "ok", "failed", "spinning"}]
      /\ \A d \in Clients : d # c => stage'[d] = stage[d] /\ result'[d] = result[d]
  BY <1>1 DEF TypeOK, Stage
<1>3. TypeOK'
  BY <1>1, <1>2 DEF TypeOK
<1>4. \A d \in Clients : d # c => Same(d)
  BY <1>1, <1>2 DEF Same
<1>5. control'[c] # "unopened" /\ (race'[c] = "reply" => unread'[c] # <<>>)
  BY <1>1 DEF Chained
<1>6. Chained(c)' /\ SizeKnown(c)'
  BY <1>2, <1>5, EndOfChain
<1>7. CrashHasCause'
  BY DEF CrashHasCause
<1>. QED  BY <1>3, <1>4, <1>6, <1>7, OneClient

(* The end of the data connection is seen: nothing is left on it.           *)
LEMMA FinishedInv ==
  ASSUME Inv, NEW c \in Clients, Finished(c)
  PROVE  Inv'
<1>. USE DEF Finished, ReadWithTimeout, RemoteClosed, ThreadFree, Running, netVars, fileVars, dataVars
<1>1. TypeOK /\ Chained(c) /\ SizeKnown(c) /\ Dialogue(c) /\ Pieces(c)
  BY DEF Inv, Chained
<1>2. stage'[c] = "complete" /\ race'[c] = "running"
  BY <1>1 DEF TypeOK
<1>3. TypeOK'
  <2>1. race' \in [Clients -> {"none", "untimed", "running", "reply", "error", "timeout"}]
    BY <1>1 DEF TypeOK
  <2>2. stage' \in [Clients -> Stage]
    BY <1>1 DEF TypeOK, Stage, Replying
  <2>. QED  BY <1>1, <2>1, <2>2 DEF TypeOK
<1>4. \A d \in Clients : d # c => Same(d)
  BY <1>1 DEF TypeOK, Same
<1>5. Dialogue(c)'
  BY <1>1, <1>2 DEF Dialogue, Replying
<1>6. Pieces(c)'
  BY <1>1, <1>2 DEF Pieces, Gone, Accepted
<1>7. Chained(c)'
  BY <1>1, <1>2, <1>5, <1>6 DEF Chained
<1>8. SizeKnown(c)'
  BY <1>1, <1>2 DEF SizeKnown
<1>9. CrashHasCause'
  BY DEF CrashHasCause
<1>. QED  BY <1>3, <1>4, <1>7, <1>8, <1>9, OneClient

(* The last reply: when it says that the transfer is complete, as many      *)
(* pieces were received or lost as the file had.                            *)
LEMMA CompleteInv ==
  ASSUME Inv, NEW c \in Clients, Complete(c)
  PROVE  Inv'
<1>. USE DEF Complete, ThreadFree, Running, fileVars, dataVars
<1>1. TypeOK /\ Chained(c) /\ Dialogue(c) /\ Pieces(c) /\ stage[c] \in Replying
  BY DEF Inv, Chained, Replying
<1>2. /\ unread' \in [Clients -> Seq(ReplyType)]
      /\ \A d \in Clients : d # c => unread'[d] = unread[d]
      /\ race[c] = "reply" => unread[c] # <<>> /\ unread[c][1].to = "complete"
  BY <1>1, ConsumeFacts
<1>3. stage'[c] = "over" /\ race'[c] = "none" /\ control'[c] # "unopened"
  BY <1>1 DEF TypeOK, Chained
<1>4. result'[c] = IF Successful(c) THEN "ok" ELSE "failed"
  BY <1>1 DEF TypeOK
<1>5. TypeOK'
  <2>1. stage' \in [Clients -> Stage]
    BY <1>1 DEF TypeOK, Stage
  <2>2. result' \in [Clients -> {"none", "ok", "failed", "spinning"}]
    BY <1>1 DEF TypeOK
  <2>3. race' \in [Clients -> {"none", "untimed", "running", "reply", "error", "timeout"}]
    BY <1>1 DEF TypeOK
  <2>. QED  BY <1>1, <1>2, <2>1, <2>2, <2>3 DEF TypeOK
<1>6. \A d \in Clients : d # c => Same(d)
  BY <1>1, <1>2 DEF TypeOK, Same
<1>7. Successful(c) => offset[c] + lost[c] = served[c]
  <2>1. SUFFICES ASSUME Successful(c) PROVE offset[c] + lost[c] = served[c]
    OBVIOUS
  <2>2. unread[c] # <<>> /\ unread[c][1].to = "complete"
    BY <1>2, <2>1 DEF Successful
  <2>3. 1 \in 1 .. Len(unread[c])
    BY <1>1, <2>2 DEF TypeOK
  <2>4. Gone(c) = served[c] /\ wire[c] = 0
    BY <1>1, <2>2, <2>3 DEF Pieces
  <2>5. wire[c] \in Int /\ lost[c] \in Int /\ offset[c] \in Int
    BY <1>1, BenchmarkAssumption DEF TypeOK
  <2>. QED  BY <2>4, <2>5 DEF Gone
<1>8. Chained(c)' /\ SizeKnown(c)'
  BY <1>3, <1>4, <1>7 DEF Chained, SizeKnown
<1>9. CrashHasCause'
  BY DEF CrashHasCause
<1>. QED  BY <1>5, <1>6, <1>8, <1>9, OneClient

-----------------------------------------------------------------------------
(* What Tell adds: one reply behind the others, with the size as it is.     *)
LEMMA TellFacts ==
  ASSUME TypeOK, NEW c \in Clients, NEW to \in Replying, NEW code \in Code,
         Tell(c, Reply(to, code))
  PROVE  /\ unread' \in [Clients -> Seq(ReplyType)]
         /\ \A d \in Clients : d # c => unread'[d] = unread[d]
         /\ Len(unread'[c]) = Len(unread[c]) + 1
         /\ \A i \in 1 .. Len(unread[c]) : unread'[c][i] = unread[c][i]
         /\ unread'[c][Len(unread'[c])].to = to
         /\ unread'[c][Len(unread'[c])].size = file
         /\ unread'[c] # <<>>
         /\ unread[c] = <<>> =>
              Len(unread'[c]) = 1 /\ unread'[c][1].to = to /\ unread'[c][1].size = file
<1>. DEFINE r == Reply(to, code)
<1>1. r \in ReplyType /\ r.to = to /\ r.size = file
  BY DEF TypeOK, Reply, ReplyType
<1>2. unread' = [unread EXCEPT ![c] = Append(@, r)]
  BY DEF Tell
<1>. HIDE DEF r
<1>3. unread \in [Clients -> Seq(ReplyType)] /\ unread[c] \in Seq(ReplyType)
  BY DEF TypeOK
<1>4. /\ Append(unread[c], r) \in Seq(ReplyType)
      /\ Len(Append(unread[c], r)) = Len(unread[c]) + 1
      /\ \A i \in 1 .. Len(unread[c]) : Append(unread[c], r)[i] = unread[c][i]
      /\ Append(unread[c], r)[Len(unread[c]) + 1] = r
      /\ Len(unread[c]) \in Nat /\ (unread[c] = <<>> => Len(unread[c]) = 0)
  BY <1>1, <1>3
<1>5. unread'[c] = Append(unread[c], r)
  BY <1>2, <1>3
<1>6. unread' \in [Clients -> Seq(ReplyType)] /\ \A d \in Clients : d # c => unread'[d] = unread[d]
  BY <1>2, <1>3, <1>4
<1>7. unread'[c] # <<>>
  BY <1>4, <1>5
<1>. QED  BY <1>1, <1>4, <1>5, <1>6, <1>7

(* The server greets.                                                       *)
LEMMA WelcomeInv ==
  ASSUME Inv, NEW c \in Clients, Welcome(c)
  PROVE  Inv'
<1>1. /\ crashed = "no" /\ control[c] = "open" /\ requests[c] = <<>>
      /\ stage[c] = "welcome" /\ unread[c] = <<>>
      /\ UNCHANGED <<dummy, stage, race, control, requests, fileVars, dataVars, result, crashed>>
  BY DEF Welcome, Running
<1>2. TypeOK /\ Chained(c) /\ SizeKnown(c) /\ Dialogue(c) /\ Pieces(c)
  BY <1>1 DEF Inv, Chained
<1>3. PICK code \in Code : Tell(c, Reply("welcome", code))
  BY DEF Welcome
<1>4. "welcome" \in Replying
  BY DEF Replying
<1>5. /\ unread' \in [Clients -> Seq(ReplyType)]
      /\ \A d \in Clients : d # c => unread'[d] = unread[d]
      /\ Len(unread'[c]) = 1 /\ unread'[c] # <<>>
      /\ unread'[c][1].to = "welcome" /\ unread'[c][1].size = file
  BY <1>1, <1>2, <1>3, <1>4, TellFacts
<1>6. TypeOK'
  BY <1>1, <1>2, <1>5 DEF TypeOK, fileVars, dataVars
<1>7. \A d \in Clients : d # c => Same(d)
  BY <1>1, <1>5 DEF Same, fileVars, dataVars
<1>9. Chained(c)'
  BY <1>1, <1>2, <1>5 DEF Chained, Dialogue, Pieces, Gone, Accepted, Replying, dataVars
<1>10. SizeKnown(c)'
  BY <1>1, <1>2, <1>5 DEF SizeKnown, fileVars, dataVars
<1>11. CrashHasCause'
  BY <1>1 DEF CrashHasCause
<1>12. file' = file /\ grown' = grown
  BY <1>1 DEF fileVars
<1>. QED  BY <1>6, <1>7, <1>9, <1>10, <1>11, <1>12, OneClient

(* The server answers a request, and accepts RETR.                          *)
LEMMA ServeInv ==
  ASSUME Inv, NEW c \in Clients, stage[c] # "over", Serve(c)
  PROVE  Inv'
<1>. DEFINE accepts(code) == Head(requests[c]) = "retr" /\ code = "ok"
<1>1. /\ crashed = "no" /\ control[c] = "open" /\ requests[c] # <<>>
      /\ requests' = [requests EXCEPT ![c] = Tail(@)]
      /\ UNCHANGED <<dummy, stage, race, control, fileVars, wire, closed, lost, offset,
                     result, crashed>>
  BY DEF Serve, Running
<1>2. TypeOK /\ Chained(c) /\ SizeKnown(c) /\ Dialogue(c) /\ Pieces(c)
  BY DEF Inv, Chained
<1>3. PICK code \in Code :
        /\ Tell(c, Reply(Head(requests[c]), code))
        /\ \/ /\ accepts(code)
              /\ served' = [served EXCEPT ![c] = file]
              /\ sending' = [sending EXCEPT ![c] = file + 1]
           \/ ~ accepts(code) /\ UNCHANGED <<served, sending>>
  BY DEF Serve
<1>4. /\ unread[c] = <<>> /\ Len(requests[c]) = 1 /\ Head(requests[c]) = stage[c]
      /\ stage[c] \in Replying \ {"welcome", "complete"}
  BY <1>1, <1>2 DEF Dialogue, TypeOK
<1>5. /\ unread' \in [Clients -> Seq(ReplyType)]
      /\ \A d \in Clients : d # c => unread'[d] = unread[d]
      /\ Len(unread'[c]) = 1 /\ unread'[c] # <<>>
      /\ unread'[c][1].to = stage[c] /\ unread'[c][1].size = file
  BY <1>2, <1>3, <1>4, TellFacts
<1>6. /\ requests' \in [Clients -> Seq(Replying)]
      /\ \A d \in Clients : d # c => requests'[d] = requests[d]
      /\ requests'[c] = <<>>
  <2>1. requests \in [Clients -> Seq(Replying)] /\ requests[c] \in Seq(Replying)
    BY <1>2 DEF TypeOK
  <2>2. Tail(requests[c]) \in Seq(Replying) /\ Len(Tail(requests[c])) = 0
    BY <1>1, <1>4, <2>1, TailFacts
  <2>3. Tail(requests[c]) = <<>>
    BY <2>2, EmptySequence
  <2>. QED  BY <1>1, <2>1, <2>2, <2>3
<1>7. /\ served' \in [Clients -> 0 .. MaxFile] /\ sending' \in [Clients -> 0 .. MaxFile + 1]
      /\ \A d \in Clients : d # c => served'[d] = served[d] /\ sending'[d] = sending[d]
      /\ \/ stage[c] = "retr" /\ served'[c] = file /\ sending'[c] = file + 1
         \/ served'[c] = served[c] /\ sending'[c] = sending[c]
  <2>1. /\ served \in [Clients -> 0 .. MaxFile] /\ sending \in [Clients -> 0 .. MaxFile + 1]
        /\ file \in 0 .. MaxFile /\ file + 1 \in 0 .. MaxFile + 1
    BY <1>2, BenchmarkAssumption DEF TypeOK
  <2>2. CASE ~ accepts(code)
    BY <1>3, <2>1, <2>2
  <2>3. CASE accepts(code)
    <3>1. /\ served' = [served EXCEPT ![c] = file] /\ sending' = [sending EXCEPT ![c] = file + 1]
          /\ stage[c] = "retr"
      BY <1>3, <1>4, <2>3
    <3>. QED  BY <2>1, <3>1
  <2>. QED  BY <2>2, <2>3
<1>8. TypeOK'
  BY <1>1, <1>2, <1>5, <1>6, <1>7 DEF TypeOK, fileVars
<1>9. \A d \in Clients : d # c => Same(d)
  BY <1>1, <1>5, <1>6, <1>7 DEF Same, fileVars
<1>11. Dialogue(c)'
  BY <1>1, <1>4, <1>5, <1>6 DEF Dialogue, Replying
<1>12. Pieces(c)'
  <2>1. /\ served[c] = 0 /\ sending[c] = 0 /\ wire[c] = 0 /\ ~ closed[c]
        /\ lost[c] = 0 /\ offset[c] = 0
    BY <1>2, <1>4 DEF Pieces, Accepted, Replying
  <2>2. file \in Nat /\ stage' = stage /\ UNCHANGED <<wire, closed, lost, offset>>
    BY <1>1, <1>2, BenchmarkAssumption DEF TypeOK
  <2>3. \A i \in 1 .. Len(unread'[c]) : unread'[c][i].to # "complete"
    BY <1>4, <1>5
  <2>. QED  BY <1>4, <1>5, <1>7, <2>1, <2>2, <2>3 DEF Pieces, Gone, Accepted
<1>13. Chained(c)'
  BY <1>1, <1>2, <1>5, <1>11, <1>12 DEF Chained
<1>14. SizeKnown(c)'
  BY <1>1, <1>2, <1>5, <1>7, BenchmarkAssumption DEF SizeKnown, TypeOK, fileVars
<1>15. CrashHasCause'
  BY <1>1 DEF CrashHasCause
<1>16. file' = file /\ grown' = grown
  BY <1>1 DEF fileVars
<1>. QED  BY <1>8, <1>9, <1>13, <1>14, <1>15, <1>16, OneClient

(* A piece goes from the server to the data connection.                     *)
LEMMA SendPieceInv ==
  ASSUME Inv, NEW c \in Clients, stage[c] # "over", SendPiece(c)
  PROVE  Inv'
<1>. USE DEF SendPiece, Running, netVars, fileVars
<1>1. TypeOK /\ Chained(c) /\ SizeKnown(c) /\ Dialogue(c) /\ Pieces(c)
  BY DEF Inv, Chained
<1>2. /\ wire'[c] = wire[c] + 1 /\ sending'[c] = sending[c] - 1
      /\ wire[c] \in Nat /\ offset[c] \in Nat /\ lost[c] \in Nat
      /\ served[c] \in 0 .. MaxFile /\ sending[c] \in Nat /\ sending[c] > 1
  BY <1>1, BenchmarkAssumption DEF TypeOK
<1>3. sending[c] + Gone(c) = served[c] + 1 /\ ~ closed[c]
  BY <1>1, <1>2 DEF Pieces
<1>4. /\ Gone(c)' <= served[c] /\ wire'[c] \in 0 .. MaxFile
      /\ sending'[c] + Gone(c)' = served[c] + 1
  BY <1>2, <1>3, BenchmarkAssumption DEF Gone
<1>5. TypeOK'
  <2>1. wire' \in [Clients -> 0 .. MaxFile]
    BY <1>1, <1>4 DEF TypeOK
  <2>2. sending' \in [Clients -> 0 .. MaxFile + 1]
    BY <1>1, <1>2, BenchmarkAssumption DEF TypeOK
  <2>. QED  BY <1>1, <2>1, <2>2 DEF TypeOK
<1>6. \A d \in Clients : d # c => Same(d)
  BY <1>1 DEF TypeOK, Same
<1>7. Pieces(c)'
  <2>1. UNCHANGED <<stage, unread, served, closed, lost, offset>>
    OBVIOUS
  <2>2. Accepted(c) /\ stage[c] # "complete"
    BY <1>1, <1>2, <1>3 DEF Pieces
  <2>3. \A i \in 1 .. Len(unread[c]) : unread[c][i].to # "complete"
    BY <1>1, <1>2 DEF Pieces
  <2>. QED  BY <1>3, <1>4, <2>1, <2>2, <2>3 DEF Pieces, Accepted
<1>8. Chained(c)'
  BY <1>1, <1>7 DEF Chained, Dialogue
<1>9. SizeKnown(c)'
  BY <1>1 DEF SizeKnown
<1>10. CrashHasCause'
  BY DEF CrashHasCause
<1>. QED  BY <1>5, <1>6, <1>8, <1>9, <1>10, OneClient

(* The data connection ends, after the last piece and 226 or before.        *)
LEMMA SendEndInv ==
  ASSUME Inv, NEW c \in Clients, stage[c] # "over", SendEnd(c)
  PROVE  Inv'
<1>1. /\ crashed = "no" /\ sending[c] > 0
      /\ sending' = [sending EXCEPT ![c] = 0] /\ closed' = [closed EXCEPT ![c] = TRUE]
      /\ UNCHANGED <<dummy, stage, race, control, requests, fileVars, served, wire, lost, offset,
                     result, crashed>>
  BY DEF SendEnd, Running
<1>2. TypeOK /\ Chained(c) /\ SizeKnown(c) /\ Dialogue(c) /\ Pieces(c)
  BY DEF Inv, Chained
<1>3. /\ sending' \in [Clients -> 0 .. MaxFile + 1] /\ closed' \in [Clients -> BOOLEAN]
      /\ sending'[c] = 0 /\ closed'[c]
      /\ \A d \in Clients : d # c => sending'[d] = sending[d] /\ closed'[d] = closed[d]
  BY <1>1, <1>2, BenchmarkAssumption DEF TypeOK
<1>4. /\ sending[c] + Gone(c) = served[c] + 1 /\ Accepted(c)
      /\ \A i \in 1 .. Len(unread[c]) : unread[c][i].to # "complete"
  BY <1>1, <1>2 DEF Pieces
<1>5. CASE sending[c] = 1 /\ control[c] = "open" /\ Tell(c, Reply("complete", "ok"))
  <2>1. "complete" \in Replying /\ "ok" \in Code
    BY DEF Replying, Code
  <2>2. /\ unread' \in [Clients -> Seq(ReplyType)]
        /\ \A d \in Clients : d # c => unread'[d] = unread[d]
        /\ Len(unread'[c]) = Len(unread[c]) + 1
        /\ \A i \in 1 .. Len(unread[c]) : unread'[c][i] = unread[c][i]
        /\ unread'[c][Len(unread'[c])].to = "complete"
        /\ unread'[c][Len(unread'[c])].size = file
    BY <1>2, <1>5, <2>1, TellFacts
  <2>3. TypeOK'
    BY <1>1, <1>2, <1>3, <2>2 DEF TypeOK, fileVars
  <2>4. \A d \in Clients : d # c => Same(d)
    BY <1>1, <1>3, <2>2 DEF Same, fileVars
  <2>5. Len(unread[c]) \in Nat /\ unread'[c] # <<>>
    BY <1>2, <2>2 DEF TypeOK
  <2>6. Len(unread[c]) = IF stage[c] = "retr" THEN 1 ELSE 0
    <3>1. CASE stage[c] = "retr"
      <4>1. unread[c] # <<>>
        BY <1>4, <3>1 DEF Accepted
      <4>2. Len(unread[c]) <= 1
        BY <1>2, <1>4 DEF Dialogue
      <4>3. unread[c] # <<>> => Len(unread[c]) # 0
        BY <1>2 DEF TypeOK
      <4>4. Len(unread[c]) # 0
        BY <4>1, <4>3
      <4>5. ASSUME NEW n \in Nat, n <= 1, n # 0 PROVE n = 1
        BY <4>5
      <4>6. Len(unread[c]) = 1
        BY <2>5, <4>2, <4>4, <4>5
      <4>. QED  BY <3>1, <4>6
    <3>2. CASE stage[c] \in {"receive", "complete"}
      <4>1. unread[c] = <<>>
        <5>1. SUFFICES ASSUME unread[c] # <<>> PROVE FALSE
          OBVIOUS
        <5>2. unread[c][1].to = "complete" /\ 1 \in 1 .. Len(unread[c])
          BY <1>2, <2>5, <3>2, <5>1 DEF Dialogue
        <5>. QED  BY <1>4, <5>2
      <4>. QED  BY <3>2, <4>1
    <3>. QED  BY <1>4, <3>1, <3>2 DEF Accepted
  <2>7. Dialogue(c)'
    <3>1. requests'[c] = <<>>
      BY <1>1, <1>2, <1>4 DEF Dialogue, Accepted, Replying
    <3>2. CASE stage[c] = "retr"
      <4>1. Len(unread'[c]) = 2 /\ unread'[c][2].to = "complete" /\ unread'[c][1].to = "retr"
        BY <1>2, <2>2, <2>5, <2>6, <3>2 DEF Dialogue
      <4>. QED  BY <1>1, <3>1, <3>2, <4>1 DEF Dialogue, Replying
    <3>3. CASE stage[c] \in {"receive", "complete"}
      <4>1. Len(unread'[c]) = 1 /\ unread'[c][1].to = "complete"
        BY <2>2, <2>6, <3>3
      <4>. QED  BY <1>1, <3>1, <3>3, <4>1 DEF Dialogue, Replying
    <3>. QED  BY <1>4, <3>2, <3>3 DEF Accepted
  <2>8. Pieces(c)'
    <3>1. Gone(c) = served[c] /\ Gone(c)' = Gone(c)
      <4>1. wire[c] \in Int /\ lost[c] \in Int /\ offset[c] \in Int /\ served[c] \in Int
        BY <1>2, BenchmarkAssumption DEF TypeOK
      <4>2. Gone(c)' = Gone(c)
        BY <1>1 DEF Gone
      <4>3. Gone(c) \in Int
        BY <4>1 DEF Gone
      <4>4. 1 + Gone(c) = served[c] + 1
        BY <1>4, <1>5
      <4>. QED  BY <4>1, <4>2, <4>3, <4>4
    <3>2. UNCHANGED <<stage, served, wire>>
      BY <1>1
    <3>3. Gone(c) <= served[c] /\ (stage[c] = "complete" => wire[c] = 0)
      BY <1>2 DEF Pieces
    <3>. QED  BY <1>3, <1>4, <2>5, <3>1, <3>2, <3>3 DEF Pieces, Accepted
  <2>9. Chained(c)'
    BY <1>1, <1>2, <1>5, <2>5, <2>7, <2>8 DEF Chained
  <2>10. SizeKnown(c)'
    <3>1. \A i \in 1 .. Len(unread'[c]) : i \in 1 .. Len(unread[c]) \/ i = Len(unread'[c])
      BY <2>2, <2>5
    <3>. QED  BY <1>1, <1>2, <2>2, <3>1 DEF SizeKnown, fileVars
  <2>11. CrashHasCause'
    BY <1>1 DEF CrashHasCause
  <2>12. file' = file /\ grown' = grown
    BY <1>1 DEF fileVars
  <2>. QED  BY <2>3, <2>4, <2>9, <2>10, <2>11, <2>12, OneClient
<1>6. CASE UNCHANGED unread
  <2>1. TypeOK'
    BY <1>1, <1>2, <1>3, <1>6 DEF TypeOK, fileVars
  <2>2. \A d \in Clients : d # c => Same(d)
    BY <1>1, <1>3, <1>6 DEF Same, fileVars
  <2>3. Pieces(c)'
    <3>1. UNCHANGED <<stage, unread, served, wire>> /\ Gone(c)' = Gone(c)
      BY <1>1, <1>6 DEF Gone
    <3>. QED  BY <1>2, <1>3, <1>4, <3>1 DEF Pieces, Accepted
  <2>4. Chained(c)'
    BY <1>1, <1>2, <1>6, <2>3 DEF Chained, Dialogue
  <2>5. SizeKnown(c)'
    BY <1>1, <1>2, <1>6 DEF SizeKnown, fileVars
  <2>6. CrashHasCause'
    BY <1>1 DEF CrashHasCause
  <2>7. file' = file /\ grown' = grown
    BY <1>1 DEF fileVars
  <2>. QED  BY <2>1, <2>2, <2>4, <2>5, <2>6, <2>7, OneClient
<1>. QED  BY <1>5, <1>6 DEF SendEnd

(* The data connection is reset: what it lost of the pieces on it is the    *)
(* only thing the sum of the pieces misses.                                 *)
LEMMA ResetDataInv ==
  ASSUME Inv, NEW c \in Clients, stage[c] # "over", ResetData(c)
  PROVE  Inv'
<1>1. PICK k \in 0 .. wire[c] :
        wire' = [wire EXCEPT ![c] = @ - k] /\ lost' = [lost EXCEPT ![c] = @ + k]
  BY DEF ResetData
<1>2. /\ crashed = "no" /\ (sending[c] > 0 \/ wire[c] > 0)
      /\ closed' = [closed EXCEPT ![c] = TRUE]
      /\ sending' = [sending EXCEPT ![c] = IF @ > 1 THEN 0 ELSE @]
      /\ UNCHANGED <<dummy, stage, race, netVars, fileVars, served, offset, result, crashed>>
  BY DEF ResetData, Running
<1>3. TypeOK /\ Chained(c) /\ SizeKnown(c) /\ Dialogue(c) /\ Pieces(c)
  BY DEF Inv, Chained
<1>4. /\ wire[c] \in Nat /\ lost[c] \in Nat /\ offset[c] \in Nat /\ sending[c] \in Nat
      /\ served[c] \in 0 .. MaxFile /\ k \in Nat /\ k <= wire[c]
      /\ Gone(c) <= served[c] /\ Gone(c) = wire[c] + lost[c] + offset[c]
  BY <1>3, BenchmarkAssumption DEF TypeOK, Pieces, Gone
<1>5. wire'[c] = wire[c] - k /\ lost'[c] = lost[c] + k /\ closed'[c]
  BY <1>1, <1>2, <1>3 DEF TypeOK
<1>6. sending'[c] = IF sending[c] > 1 THEN 0 ELSE sending[c]
  BY <1>2, <1>3 DEF TypeOK
<1>7. /\ Gone(c)' = Gone(c)
      /\ wire'[c] \in 0 .. MaxFile /\ lost'[c] \in 0 .. MaxFile
      /\ sending'[c] > 0 => sending'[c] = 1 /\ sending[c] = 1
  BY <1>2, <1>4, <1>5, <1>6, BenchmarkAssumption DEF Gone
<1>8. TypeOK'
  <2>1. wire' \in [Clients -> 0 .. MaxFile] /\ lost' \in [Clients -> 0 .. MaxFile]
    BY <1>1, <1>3, <1>5, <1>7 DEF TypeOK
  <2>2. sending' \in [Clients -> 0 .. MaxFile + 1] /\ closed' \in [Clients -> BOOLEAN]
    BY <1>2, <1>3, BenchmarkAssumption DEF TypeOK
  <2>. QED  BY <1>2, <1>3, <2>1, <2>2 DEF TypeOK, netVars, fileVars
<1>9. \A d \in Clients : d # c => Same(d)
  BY <1>1, <1>2, <1>3 DEF TypeOK, Same, netVars, fileVars
<1>10. Pieces(c)'
  <2>1. UNCHANGED <<stage, unread, served, offset>>
    BY <1>2 DEF netVars
  <2>2. Accepted(c)
    BY <1>2, <1>3, <1>4 DEF Pieces
  <2>3. stage[c] = "complete" => wire'[c] = 0
    BY <1>3, <1>4, <1>5 DEF Pieces
  <2>4. sending'[c] > 0 => sending'[c] + Gone(c) = served[c] + 1
    <3>1. sending[c] = 1 => sending[c] + Gone(c) = served[c] + 1
      BY <1>3 DEF Pieces
    <3>. QED  BY <1>7, <3>1
  <2>5. ASSUME NEW i \in 1 .. Len(unread[c]), unread[c][i].to = "complete"
        PROVE  sending'[c] = 0 /\ Gone(c) = served[c]
    BY <1>3, <1>6, <2>5 DEF Pieces
  <2>. QED  BY <1>4, <1>5, <1>7, <2>1, <2>2, <2>3, <2>4, <2>5 DEF Pieces, Accepted
<1>11. Chained(c)'
  BY <1>2, <1>3, <1>10 DEF Chained, Dialogue, netVars
<1>12. SizeKnown(c)'
  BY <1>2, <1>3 DEF SizeKnown, netVars, fileVars
<1>13. CrashHasCause'
  BY <1>2 DEF CrashHasCause
<1>14. file' = file /\ grown' = grown
  BY <1>2 DEF fileVars
<1>. QED  BY <1>8, <1>9, <1>11, <1>12, <1>13, <1>14, OneClient

(* The control connection ends.                                             *)
LEMMA DisconnectInv ==
  ASSUME Inv, NEW c \in Clients, Disconnect(c)
  PROVE  Inv'
<1>. USE DEF Disconnect, Running, fileVars, dataVars
<1>1. TypeOK /\ Chained(c) /\ SizeKnown(c)
  BY DEF Inv
<1>2. /\ control' \in [Clients -> {"unopened", "open", "failed"}] /\ control'[c] = "failed"
      /\ \A d \in Clients : d # c => control'[d] = control[d]
  BY <1>1 DEF TypeOK
<1>3. TypeOK'
  BY <1>1, <1>2 DEF TypeOK
<1>4. \A d \in Clients : d # c => Same(d)
  BY <1>2 DEF Same
<1>5. Chained(c)'
  BY <1>1, <1>2 DEF Chained, Dialogue, Pieces, Gone, Accepted
<1>6. SizeKnown(c)'
  BY <1>1 DEF SizeKnown
<1>7. CrashHasCause'
  BY DEF CrashHasCause
<1>. QED  BY <1>3, <1>4, <1>5, <1>6, <1>7, OneClient

(* The file grows on the server.                                            *)
LEMMA FileGrowsInv == ASSUME Inv, FileGrows PROVE Inv'
<1>. USE DEF FileGrows, Running, netVars, dataVars
<1>1. TypeOK'
  BY BenchmarkAssumption DEF Inv, TypeOK
<1>2. ASSUME NEW c \in Clients PROVE Chained(c)' /\ SizeKnown(c)'
  <2>1. Same(c)
    BY DEF Same
  <2>. QED  BY <2>1, SameClient DEF Inv
<1>3. CrashHasCause'
  BY DEF CrashHasCause
<1>. QED  BY <1>1, <1>2, <1>3 DEF Inv

(* Every step of the clients and of the server.                             *)
LEMMA StepInv == Inv /\ [Next]_vars => Inv'
<1>. SUFFICES ASSUME Inv, [Next]_vars PROVE Inv'
  OBVIOUS
<1>1. ASSUME NEW c \in Clients, ReadFirst(c) \/ TimerFirst(c) PROVE Inv'
  BY <1>1, RaceInv
<1>2. ASSUME NEW c \in Clients, Chain(c) PROVE Inv'
  BY <1>2, ReplyThrowsInv, ConnectedInv, NextRequestInv, PassiveInv, DataConnectedInv, ReceiveInv,
     ReceiveFailsInv, FinishedInv, CompleteInv DEF Chain
<1>3. CASE Network
  BY <1>3, WelcomeInv, ServeInv, SendPieceInv, SendEndInv, ResetDataInv, DisconnectInv DEF Network
<1>4. CASE UNCHANGED vars
  <2>1. TypeOK' /\ CrashHasCause'
    BY <1>4 DEF Inv, TypeOK, CrashHasCause, Malformed, vars, netVars, fileVars, dataVars
  <2>2. ASSUME NEW c \in Clients PROVE Chained(c)' /\ SizeKnown(c)'
    <3>1. Same(c) /\ file' = file /\ grown' = grown
      BY <1>4 DEF Same, vars, netVars, fileVars, dataVars
    <3>. QED  BY <3>1, SameClient DEF Inv
  <2>. QED  BY <2>1, <2>2 DEF Inv
<1>. QED  BY <1>1, <1>2, <1>3, <1>4, FileGrowsInv DEF Next

THEOREM Invariant == Spec => []Inv
  BY InitInv, StepInv, PTL DEF Spec

(* A session that is reported finished received every piece of the file as  *)
(* it was when RETR was accepted but those a reset lost: when the 226 is in *)
(* hand nothing is left to send, and when the end of the data connection    *)
(* was seen nothing is left on it (RecvFileImpl, and the last read of       *)
(* async_session).                                                          *)
THEOREM SuccessIsCompleteCorrect == Spec => []SuccessIsComplete
<1>1. Inv => SuccessIsComplete
  BY DEF Inv, Chained, SuccessIsComplete
<1>. QED  BY <1>1, Invariant, PTL

(* What ends the process: a failed read of the welcome without a socket to  *)
(* name, a reply whose number cannot be converted, or a quotient by a size  *)
(* of 0 for a file that grew after SIZE (get_read_with_timeout_op,          *)
(* build_resp, do_recv_op and deal_event).                                  *)
THEOREM CrashHasCauseCorrect == Spec => []CrashHasCause
<1>1. Inv => CrashHasCause
  BY DEF Inv
<1>. QED  BY <1>1, Invariant, PTL

(* What a stage of async_session consumes is the reply to its own request:  *)
(* a late reply never becomes the answer to the next one, as a chain that   *)
(* saw a timeout sends no more.                                             *)
THEOREM ReplyAnswersRequestCorrect == Spec => ReplyAnswersRequest
<1>. DEFINE A == \A c \in Clients :
                   Len(unread'[c]) < Len(unread[c]) => Head(unread[c]).to = stage[c]
<1>1. ASSUME Inv, [Next]_vars PROVE [A]_vars
  <2>. SUFFICES ASSUME Next, NEW c \in Clients, Len(unread'[c]) < Len(unread[c])
                PROVE  Head(unread[c]).to = stage[c]
    BY <1>1
  <2>. USE <1>1
  <2>1. unread \in [Clients -> Seq(ReplyType)] /\ unread[c] \in Seq(ReplyType)
        /\ Len(unread[c]) \in Nat
    BY DEF Inv, TypeOK
  <2>2. unread'[c] # unread[c]
    BY <2>1
  <2>3. ASSUME NEW d \in Clients, stage[d] \in Replying, Consume(d)
        PROVE  Head(unread[c]).to = stage[c]
    <3>1. d = c /\ race[c] = "reply"
      BY <2>2, <2>3, ConsumeFacts
    <3>. QED  BY <2>3, <3>1, ConsumeFacts
  <2>4. ASSUME NEW d \in Clients, NEW r, Tell(d, r) PROVE FALSE
    BY <2>1, <2>4 DEF Tell
  <2>5. ASSUME NEW d \in Clients, Chain(d) PROVE Head(unread[c]).to = stage[c]
    <3>1. NextRequest(d) \/ Passive(d) \/ Retrieving(d) \/ Complete(d)
      BY <2>2, <2>5
      DEF Chain, ReplyThrows, Connected, DataConnected, Receive, ReceiveFails, Finished, netVars
    <3>2. stage[d] \in Replying /\ Consume(d)
      BY <3>1 DEF NextRequest, Passive, Retrieving, Complete, Replying, After
    <3>. QED  BY <2>3, <3>2
  <2>6. ASSUME Network PROVE FALSE
    <3>1. PICK d \in Clients :
            Welcome(d) \/ Serve(d) \/ SendPiece(d) \/ SendEnd(d) \/ ResetData(d) \/ Disconnect(d)
      BY <2>6 DEF Network
    <3>2. \E r : Tell(d, r)
      BY <2>2, <3>1 DEF Welcome, Serve, SendPiece, SendEnd, ResetData, Disconnect, netVars
    <3>. QED  BY <2>4, <3>2
  <2>7. ~ FileGrows /\ \A d \in Clients : ~ ReadFirst(d) /\ ~ TimerFirst(d)
    BY <2>2 DEF FileGrows, ReadFirst, TimerFirst, netVars
  <2>. QED  BY <2>5, <2>6, <2>7 DEF Next
<1>. QED  BY <1>1, Invariant, PTL DEF Spec, ReplyAnswersRequest
=============================================================================
