------------------------------- MODULE Server -------------------------------
(***************************************************************************)
(* The accept loop (server.cc) and the count of clients (config.cc).  The  *)
(* accept thread hands each connection to a worker; the session then lives *)
(* on that worker's thread, which interleaves with the accept thread       *)
(* between any two calls of its handler.  What a session does is the       *)
(* module Session; here it starts and ends.                                *)
(***************************************************************************)
EXTENDS Integers, Sequences, FiniteSets

CONSTANTS
  Clients,
  NoClient,
  Workers,       \* works_.size(), the hardware concurrency
  IndexModulus,  \* work_index_ is a uint: 2^32 in the code
  MaxSockets,    \* bound: how many sockets the process may have
  MaxPicks       \* bound: how often a worker is picked

ASSUME ServerAssumption ==
  /\ IsFiniteSet(Clients) /\ NoClient \notin Clients
  /\ Workers \in Nat \ {0}
  /\ IndexModulus \in Nat \ {0, 1} /\ Workers <= IndexModulus
  /\ MaxSockets \in Nat \ {0}
  /\ MaxPicks \in Nat

VARIABLES
  client,        \* what each client is doing
  backlog,       \* the connections the kernel holds for the acceptor
  gone,          \* the connections reset by their client
  at,            \* where the accept thread is ("none": no accept is outstanding)
  accepted,      \* ... and the connection it has in hand
  work_index,    \* work_index_
  pick,          \* the worker the outstanding accept is for
  serves,        \* the worker of each session
  client_num,    \* client_num_
  picks,         \* how often each worker was picked (history)
  wraps,         \* how often work_index_ wrapped (history)
  crashed        \* an exception ended the process

clientVars == <<client, backlog, gone>>
indexVars  == <<work_index, pick, picks, wraps>>

vars == <<clientVars, at, accepted, indexVars, serves, client_num, crashed>>

Worker == 0 .. Workers - 1

Init ==
  /\ client = [c \in Clients |-> "away"]
  /\ backlog = <<>> /\ gone = {}
  /\ at = "accept" /\ accepted = NoClient
  /\ work_index = 1 /\ pick = 0
  /\ picks = [w \in Worker |-> IF w = 0 THEN 1 ELSE 0]
  /\ wraps = 0
  /\ serves = [c \in Clients |-> 0]
  /\ client_num = 0 /\ crashed = FALSE

Sessions == {c \in Clients : client[c] = "session"}

-----------------------------------------------------------------------------
(* External: clients connect and may be gone again before they are served.  *)
Connect(c) ==
  /\ ~ crashed /\ client[c] = "away"
  /\ client' = [client EXCEPT ![c] = "connected"]
  /\ backlog' = Append(backlog, c)
  /\ UNCHANGED <<gone, at, accepted, indexVars, serves, client_num, crashed>>

Reset(c) ==
  /\ ~ crashed /\ client[c] = "connected" /\ c \notin gone
  /\ gone' = gone \cup {c}
  /\ UNCHANGED <<client, backlog, at, accepted, indexVars, serves, client_num, crashed>>

-----------------------------------------------------------------------------
(* do_accept: the next worker is picked when the accept is started.         *)

(* A faulty pick that goes on from the worker after the next.               *)
PickSkipping ==
  /\ pick' = work_index % Workers
  /\ picks' = [picks EXCEPT ![pick'] = @ + 1]
  /\ work_index' = (work_index + 2) % IndexModulus
  /\ wraps' = IF work_index' < work_index THEN wraps + 1 ELSE wraps

PickWorker ==
  /\ pick' = work_index % Workers
  /\ picks' = [picks EXCEPT ![pick'] = @ + 1]
  /\ work_index' = (work_index + 1) % IndexModulus
  /\ wraps' = IF work_index' < work_index THEN wraps + 1 ELSE wraps

Picked == picks[0] < MaxPicks

(* The accept completes with the connection that waited longest.            *)
AcceptReady ==
  /\ ~ crashed /\ at = "accept" /\ backlog # <<>>
  /\ Cardinality(Sessions) < MaxSockets
  /\ accepted' = Head(backlog) /\ backlog' = Tail(backlog)
  /\ at' = "count"
  /\ UNCHANGED <<client, gone, indexVars, serves, client_num, crashed>>

(* Two faulty accepts: one that counts the client it could not accept, and  *)
(* one that does not accept again after an error.                           *)
AcceptFailedCounted ==
  /\ ~ crashed /\ at = "accept" /\ backlog # <<>> /\ Picked
  /\ Cardinality(Sessions) = MaxSockets
  /\ PickWorker
  /\ client_num' = client_num + 1
  /\ UNCHANGED <<clientVars, at, accepted, serves, crashed>>

AcceptFailedForGood ==
  /\ ~ crashed /\ at = "accept" /\ backlog # <<>>
  /\ Cardinality(Sessions) = MaxSockets
  /\ at' = "none"
  /\ UNCHANGED <<clientVars, accepted, indexVars, serves, client_num, crashed>>

(* The process has no socket left: the error is logged, and the loop tries  *)
(* again at once.                                                           *)
AcceptFailed ==
  /\ ~ crashed /\ at = "accept" /\ backlog # <<>> /\ Picked
  /\ Cardinality(Sessions) = MaxSockets
  /\ PickWorker
  /\ UNCHANGED <<clientVars, at, accepted, serves, client_num, crashed>>

IncClientNum ==
  /\ ~ crashed /\ at = "count"
  /\ client_num' = client_num + 1
  /\ at' = "construct"
  /\ UNCHANGED <<clientVars, accepted, indexVars, serves, crashed>>

(* The constructor of Session asks the socket for its peer, which throws    *)
(* when the client is gone.                                                 *)
Construct ==
  /\ ~ crashed /\ at = "construct"
  /\ \/ /\ accepted \notin gone
        /\ client' = [client EXCEPT ![accepted] = "session"]
        /\ serves' = [serves EXCEPT ![accepted] = pick]
        /\ at' = "start"
        /\ UNCHANGED <<backlog, gone, accepted, indexVars, client_num, crashed>>
     \/ /\ accepted \in gone
        /\ crashed' = TRUE
        /\ UNCHANGED <<clientVars, at, accepted, indexVars, serves, client_num>>

(* The handler's shared_ptr goes, and the next accept is started.           *)
StartSession ==
  /\ ~ crashed /\ at = "start" /\ Picked
  /\ accepted' = NoClient
  /\ at' = "accept"
  /\ PickWorker
  /\ UNCHANGED <<clientVars, serves, client_num, crashed>>

AcceptThread == AcceptReady \/ AcceptFailed \/ IncClientNum \/ Construct \/ StartSession

(* On its worker: ~Session.  The accept thread's own shared_ptr keeps the   *)
(* session until the handler that made it has returned.  The client may     *)
(* come again.                                                              *)
EndSession(c) ==
  /\ ~ crashed /\ client[c] = "session" /\ c # accepted
  /\ client' = [client EXCEPT ![c] = "away"]
  /\ client_num' = client_num - 1
  /\ UNCHANGED <<backlog, gone, at, accepted, indexVars, serves, crashed>>

Next ==
  \/ \E c \in Clients : Connect(c) \/ Reset(c) \/ EndSession(c)
  \/ AcceptThread

Spec == Init /\ [][Next]_vars

(* The accept thread runs.  Nothing is assumed of the sessions.             *)
FairSpec == Spec /\ WF_vars(AcceptThread)

-----------------------------------------------------------------------------
(* The types.                                                               *)
TypeOK ==
  /\ client \in [Clients -> {"away", "connected", "session"}]
  /\ backlog \in Seq(Clients)
  /\ gone \in SUBSET Clients
  /\ at \in {"none", "accept", "count", "construct", "start"}
  /\ accepted \in Clients \cup {NoClient}
  /\ work_index \in 0 .. IndexModulus - 1
  /\ pick \in Worker
  /\ serves \in [Clients -> Worker]
  /\ client_num \in Nat
  /\ picks \in [Worker -> Nat]
  /\ wraps \in Nat
  /\ crashed \in BOOLEAN

(* What STAT reports, config's client_num_, is the number of sessions that  *)
(* exist, but for the one between its count and its constructor: it counts  *)
(* neither a failed accept nor a session twice, whatever the workers do     *)
(* meanwhile.                                                               *)
ClientNumIsSessions ==
  client_num = Cardinality(Sessions) + (IF at = "construct" THEN 1 ELSE 0)

(* Round robin: no worker is picked much more often than another.  A number *)
(* of workers that does not divide 2^32 costs one pick at each wrap.        *)
Balanced == \A v, w \in Worker : picks[v] - picks[w] <= 1 + wraps

(* A client that connected is served, unless the process has no socket left *)
(* or ends.  In particular an accept that failed is not the last: once a    *)
(* session ends the clients that wait get their turn.  (MaxPicks bounds the *)
(* instance.)                                                               *)
ConnectedIsServed ==
  \A c \in Clients :
    client[c] = "connected"
      ~> (client[c] # "connected" \/ Cardinality(Sessions) = MaxSockets \/ crashed \/ ~ Picked)
=============================================================================
