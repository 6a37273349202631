---------------------------- MODULE ServerProofs ----------------------------
(***************************************************************************)
(* The count of clients is the number of sessions, and the round robin     *)
(* gives each worker its share, for any number of clients, workers and     *)
(* sockets.                                                                *)
(***************************************************************************)
EXTENDS Server, TLAPS, FiniteSetTheorems

(* The types the count depends on.                                          *)
CountTypes ==
  /\ client \in [Clients -> {"away", "connected", "session"}]
  /\ backlog \in Seq(Clients)
  /\ at \in {"accept", "count", "construct", "start"}
  /\ accepted \in Clients \cup {NoClient}
  /\ client_num \in Int

(* A client waits at one place: once in the backlog, or in the hands of the *)
(* accept thread, and then it has no session until it is constructed.      *)
WaitsOnce ==
  /\ \A i \in 1 .. Len(backlog) :
       /\ client[backlog[i]] = "connected"
       /\ backlog[i] # accepted
       /\ \A j \in 1 .. Len(backlog) : backlog[j] = backlog[i] => j = i
  /\ at \in {"count", "construct"} => accepted \in Clients /\ client[accepted] = "connected"
  /\ at = "start" => accepted \in Clients /\ client[accepted] = "session"
  /\ at = "accept" => accepted = NoClient

IInv == CountTypes /\ WaitsOnce /\ ClientNumIsSessions

(* The clients that have a session are finitely many.                       *)
LEMMA SessionsFinite == IsFiniteSet(Sessions)
  BY ServerAssumption, FS_Subset DEF Sessions

(* At the start there is no client and no session (Server's constructor).   *)
LEMMA InitCount == Init => IInv
<1>. SUFFICES ASSUME Init PROVE IInv
  OBVIOUS
<1>1. CountTypes /\ WaitsOnce
  BY DEF Init, CountTypes, WaitsOnce
<1>2. Sessions = {}
  BY DEF Init, Sessions
<1>3. ClientNumIsSessions
  BY <1>2, FS_EmptySet DEF Init, ClientNumIsSessions
<1>. QED  BY <1>1, <1>3 DEF IInv

(* The count depends on the clients, the stage of the accept and itself.    *)
LEMMA SameCount ==
  ASSUME ClientNumIsSessions, Sessions' = Sessions, UNCHANGED client_num,
         (at' = "construct") <=> (at = "construct")
  PROVE  ClientNumIsSessions'
  BY DEF ClientNumIsSessions

(* A connection joins the backlog: nobody has a session more (Connect).     *)
LEMMA ConnectCount == ASSUME IInv, NEW c \in Clients, Connect(c) PROVE IInv'
<1>. USE ServerAssumption DEF IInv
<1>1. client'[c] = "connected" /\ \A d \in Clients : d # c => client'[d] = client[d]
  BY DEF Connect, CountTypes
<1>2. CountTypes'
  BY DEF Connect, CountTypes
<1>3. /\ backlog \in Seq(Clients) /\ backlog' = Append(backlog, c)
      /\ Len(backlog') = Len(backlog) + 1
      /\ backlog'[Len(backlog) + 1] = c
      /\ \A i \in 1 .. Len(backlog) : backlog'[i] = backlog[i] /\ backlog[i] \in Clients
  BY DEF Connect, CountTypes
<1>4. \A i \in 1 .. Len(backlog) : backlog[i] # c /\ client'[backlog[i]] = "connected"
  BY <1>1, <1>3 DEF Connect, WaitsOnce
<1>5. accepted # c /\ accepted' = accepted /\ at' = at
  BY DEF Connect, WaitsOnce, CountTypes
<1>6. WaitsOnce'
  <2>1. ASSUME NEW i \in 1 .. Len(backlog')
        PROVE  /\ client'[backlog'[i]] = "connected"
               /\ backlog'[i] # accepted'
               /\ \A j \in 1 .. Len(backlog') : backlog'[j] = backlog'[i] => j = i
    <3>1. CASE i \in 1 .. Len(backlog)
      <4>1. client'[backlog'[i]] = "connected" /\ backlog'[i] # accepted'
        BY <1>3, <1>4, <1>5, <3>1 DEF WaitsOnce
      <4>2. ASSUME NEW j \in 1 .. Len(backlog'), backlog'[j] = backlog'[i] PROVE j = i
        BY <1>3, <1>4, <3>1, <4>2 DEF WaitsOnce
      <4>. QED  BY <4>1, <4>2
    <3>2. CASE i = Len(backlog) + 1
      BY <1>1, <1>3, <1>4, <1>5, <3>2
    <3>. QED  BY <1>3, <3>1, <3>2
  <2>. QED  BY <1>1, <1>5, <2>1 DEF WaitsOnce
<1>7. Sessions' = Sessions
  BY <1>1 DEF Sessions, Connect
<1>8. ClientNumIsSessions'
  BY <1>5, <1>7, SameCount DEF Connect
<1>. QED  BY <1>2, <1>6, <1>8

(* A connection passes from the backlog into the accept thread's hands      *)
(* (the handler of async_accept begins).                                    *)
LEMMA AcceptCount == ASSUME IInv, AcceptReady PROVE IInv'
<1>. USE ServerAssumption DEF IInv
<1>1. /\ backlog \in Seq(Clients) /\ Len(backlog) \in Nat \ {0} /\ 1 \in 1 .. Len(backlog)
      /\ accepted' = backlog[1] /\ backlog[1] \in Clients
      /\ Len(backlog') = Len(backlog) - 1
      /\ \A i \in 1 .. Len(backlog') : backlog'[i] = backlog[i + 1] /\ i + 1 \in 1 .. Len(backlog)
  BY DEF AcceptReady, CountTypes
<1>2. CountTypes'
  BY <1>1 DEF AcceptReady, CountTypes
<1>3. client[accepted'] = "connected" /\ client' = client /\ at' = "count"
  BY <1>1 DEF AcceptReady, WaitsOnce
<1>4. ASSUME NEW i \in 1 .. Len(backlog')
      PROVE  /\ client'[backlog'[i]] = "connected"
             /\ backlog'[i] # accepted'
             /\ \A j \in 1 .. Len(backlog') : backlog'[j] = backlog'[i] => j = i
  <2>1. \A j \in 1 .. Len(backlog') : backlog'[j] = backlog'[i] => j + 1 = i + 1
    BY <1>1, <1>4 DEF WaitsOnce
  <2>2. backlog'[i] # accepted'
    BY <1>1, <1>4 DEF WaitsOnce
  <2>3. client'[backlog'[i]] = "connected"
    BY <1>1, <1>3, <1>4 DEF WaitsOnce
  <2>. QED  BY <1>1, <2>1, <2>2, <2>3
<1>5. WaitsOnce'
  BY <1>1, <1>3, <1>4 DEF WaitsOnce
<1>6. ClientNumIsSessions'
  BY <1>3, SameCount DEF AcceptReady, Sessions
<1>. QED  BY <1>2, <1>5, <1>6

(* inc_client_num, and an accept that failed, leave clients and backlog.    *)
LEMMA CountingCount == ASSUME IInv, IncClientNum \/ AcceptFailed PROVE IInv'
<1>. USE ServerAssumption DEF IInv, clientVars
<1>1. CountTypes' /\ WaitsOnce'
  BY DEF IncClientNum, AcceptFailed, CountTypes, WaitsOnce
<1>2. Sessions' = Sessions /\ Cardinality(Sessions) \in Nat
  BY SessionsFinite, FS_CardinalityType DEF IncClientNum, AcceptFailed, Sessions
<1>3. ClientNumIsSessions'
  BY <1>2 DEF IncClientNum, AcceptFailed, ClientNumIsSessions
<1>. QED  BY <1>1, <1>3

(* The constructor makes the session that was counted, or throws.           *)
LEMMA ConstructCount == ASSUME IInv, Construct PROVE IInv'
<1>. USE ServerAssumption DEF IInv, clientVars
<1>1. CASE accepted \in gone
  <2>1. UNCHANGED <<client, backlog, at, accepted, client_num>>
    BY <1>1 DEF Construct
  <2>2. ClientNumIsSessions'
    BY <2>1, SameCount DEF Sessions
  <2>. QED  BY <2>1, <2>2 DEF CountTypes, WaitsOnce
<1>2. CASE accepted \notin gone
  <2>1. /\ accepted \in Clients /\ client[accepted] = "connected"
        /\ client' = [client EXCEPT ![accepted] = "session"]
        /\ at = "construct" /\ at' = "start"
        /\ UNCHANGED <<backlog, accepted, client_num>>
    BY <1>2 DEF Construct, WaitsOnce
  <2>2. CountTypes'
    BY <2>1 DEF CountTypes
  <2>3. \A i \in 1 .. Len(backlog) : client'[backlog[i]] = client[backlog[i]]
    BY <2>1 DEF CountTypes, WaitsOnce
  <2>4. WaitsOnce'
    BY <2>1, <2>3 DEF CountTypes, WaitsOnce
  <2>5. Sessions' = Sessions \cup {accepted} /\ accepted \notin Sessions
    BY <2>1 DEF Sessions, CountTypes
  <2>6. Cardinality(Sessions') = Cardinality(Sessions) + 1
    BY <2>5, SessionsFinite, FS_AddElement
  <2>7. ClientNumIsSessions'
    BY <2>1, <2>6, SessionsFinite, FS_CardinalityType DEF ClientNumIsSessions
  <2>. QED  BY <2>2, <2>4, <2>7
<1>. QED  BY <1>1, <1>2

(* The handler of the accept returns.                                       *)
LEMMA StartCount == ASSUME IInv, StartSession PROVE IInv'
<1>. USE ServerAssumption DEF IInv, clientVars
<1>1. /\ accepted' = NoClient /\ at = "start" /\ at' = "accept"
      /\ UNCHANGED <<client, backlog, client_num>>
  BY DEF StartSession
<1>2. CountTypes'
  BY <1>1 DEF CountTypes
<1>3. \A i \in 1 .. Len(backlog) : backlog[i] # NoClient
  BY DEF CountTypes
<1>4. WaitsOnce'
  BY <1>1, <1>3 DEF WaitsOnce
<1>5. ClientNumIsSessions'
  BY <1>1, SameCount DEF Sessions
<1>. QED  BY <1>2, <1>4, <1>5

(* A session ends on its worker (~Session).                                 *)
LEMMA EndCount == ASSUME IInv, NEW c \in Clients, EndSession(c) PROVE IInv'
<1>. USE ServerAssumption DEF IInv
<1>1. /\ client[c] = "session" /\ c # accepted
      /\ client' = [client EXCEPT ![c] = "away"]
      /\ client_num' = client_num - 1
      /\ UNCHANGED <<backlog, at, accepted>>
  BY DEF EndSession
<1>2. CountTypes'
  BY <1>1 DEF CountTypes
<1>3. \A i \in 1 .. Len(backlog) : client'[backlog[i]] = client[backlog[i]]
  BY <1>1 DEF CountTypes, WaitsOnce
<1>4. WaitsOnce'
  BY <1>1, <1>3 DEF CountTypes, WaitsOnce
<1>5. Sessions' = Sessions \ {c} /\ c \in Sessions
  BY <1>1 DEF Sessions, CountTypes
<1>6. Cardinality(Sessions') = Cardinality(Sessions) - 1
  BY <1>5, SessionsFinite, FS_RemoveElement
<1>7. ClientNumIsSessions'
  BY <1>1, <1>6, SessionsFinite, FS_CardinalityType DEF ClientNumIsSessions
<1>. QED  BY <1>2, <1>4, <1>7

(* What config's client_num_ says is the number of sessions, whatever the   *)
(* workers do while the accept thread counts and constructs.                *)
THEOREM ClientNumCorrect == Spec => []ClientNumIsSessions
<1>1. Init => IInv
  BY InitCount
<1>2. IInv /\ [Next]_vars => IInv'
  <2>. SUFFICES ASSUME IInv, [Next]_vars PROVE IInv'
    OBVIOUS
  <2>1. ASSUME NEW c \in Clients, Connect(c) PROVE IInv'
    BY <2>1, ConnectCount
  <2>2. ASSUME NEW c \in Clients, Reset(c) PROVE IInv'
    BY <2>2 DEF Reset, IInv, CountTypes, WaitsOnce, ClientNumIsSessions, Sessions
  <2>3. ASSUME NEW c \in Clients, EndSession(c) PROVE IInv'
    BY <2>3, EndCount
  <2>4. CASE AcceptReady
    BY <2>4, AcceptCount
  <2>5. CASE IncClientNum \/ AcceptFailed
    BY <2>5, CountingCount
  <2>6. CASE Construct
    BY <2>6, ConstructCount
  <2>7. CASE StartSession
    BY <2>7, StartCount
  <2>8. CASE UNCHANGED vars
    BY <2>8 DEF vars, clientVars, IInv, CountTypes, WaitsOnce, ClientNumIsSessions, Sessions
  <2>. QED  BY <2>1, <2>2, <2>3, <2>4, <2>5, <2>6, <2>7, <2>8 DEF Next, AcceptThread
<1>3. IInv => ClientNumIsSessions
  BY DEF IInv
<1>. QED  BY <1>1, <1>2, <1>3, PTL DEF Spec

-----------------------------------------------------------------------------
(* Round robin.  The workers up to the next one have been picked once more  *)
(* than those after it; each wrap may have cost one pick.                   *)
Ahead(w) == IF w < work_index % Workers THEN 1 ELSE 0

RoundRobin ==
  /\ work_index \in 0 .. IndexModulus - 1
  /\ picks \in [Worker -> Nat]
  /\ wraps \in Nat
  /\ \A v, w \in Worker : picks[v] - picks[w] <= wraps + Ahead(v) - Ahead(w)

(* Counting on modulo n.                                                    *)
LEMMA Division ==
  ASSUME NEW n \in Nat \ {0}, NEW x \in Nat
  PROVE  x = (x \div n) * n + (x % n) /\ x \div n \in Nat /\ x % n \in 0 .. n - 1
  BY SMTT(20)

LEMMA Remainder ==
  ASSUME NEW n \in Nat \ {0}, NEW q \in Nat, NEW r \in 0 .. n - 1
  PROVE  (q * n + r) % n = r
  BY SMTT(20)

LEMMA NextModulo ==
  ASSUME NEW n \in Nat \ {0}, NEW x \in Nat
  PROVE  (x + 1) % n = IF x % n = n - 1 THEN 0 ELSE (x % n) + 1
<1>1. PICK q \in Nat, r \in 0 .. n - 1 : x = q * n + r
  BY Division
<1>2. x % n = r
  BY <1>1, Remainder
<1>3. CASE r = n - 1
  <2>1. x + 1 = (q + 1) * n + 0 /\ q + 1 \in Nat /\ 0 \in 0 .. n - 1
    BY <1>1, <1>3
  <2>2. (x + 1) % n = 0
    BY <2>1, Remainder
  <2>. QED  BY <1>2, <1>3, <2>2
<1>4. CASE r # n - 1
  <2>1. x + 1 = q * n + (r + 1) /\ r + 1 \in 0 .. n - 1
    BY <1>1, <1>4
  <2>2. (x + 1) % n = r + 1
    BY <2>1, Remainder
  <2>. QED  BY <1>2, <1>4, <2>2
<1>. QED  BY <1>3, <1>4

LEMMA PickRoundRobin == ASSUME RoundRobin, PickWorker PROVE RoundRobin'
<1>. USE ServerAssumption
<1>. DEFINE r == work_index % Workers
<1>1. work_index \in Nat /\ r \in Worker
  BY Division DEF RoundRobin, Worker
<1>2. picks' = [picks EXCEPT ![r] = @ + 1] /\ work_index' = (work_index + 1) % IndexModulus
  BY DEF PickWorker
<1>3. (work_index + 1) % Workers = IF r = Workers - 1 THEN 0 ELSE r + 1
  BY <1>1, NextModulo
<1>4. work_index' = IF work_index = IndexModulus - 1 THEN 0 ELSE work_index + 1
  <2>1. work_index % IndexModulus = work_index
    <3>1. work_index = 0 * IndexModulus + work_index /\ 0 \in Nat
      BY <1>1
    <3>. QED  BY <3>1, Remainder DEF RoundRobin
  <2>. QED  BY <1>1, <1>2, <2>1, NextModulo
<1>5. 0 % Workers = 0
  <2>1. 0 * Workers + 0 = 0 /\ 0 \in 0 .. Workers - 1
    OBVIOUS
  <2>. QED  BY <2>1, Remainder
<1>6. /\ work_index' \in 0 .. IndexModulus - 1
      /\ wraps' = IF work_index = IndexModulus - 1 THEN wraps + 1 ELSE wraps
      /\ wraps' \in Nat
  BY <1>4 DEF RoundRobin, PickWorker
<1>7. work_index' % Workers =
        IF work_index = IndexModulus - 1 \/ r = Workers - 1 THEN 0 ELSE r + 1
  BY <1>3, <1>4, <1>5
<1>8. /\ picks \in [Worker -> Nat] /\ wraps \in Nat
      /\ \A v, w \in Worker : picks[v] - picks[w] <= wraps + Ahead(v) - Ahead(w)
  BY DEF RoundRobin
<1> HIDE DEF r
<1>9. picks' \in [Worker -> Nat] /\ \A w \in Worker : picks'[w] = IF w = r THEN picks[w] + 1 ELSE picks[w]
  BY <1>1, <1>2, <1>8
<1>10. \A w \in Worker : Ahead(w) = IF w < r THEN 1 ELSE 0
  BY DEF Ahead, r
<1>11. \A w \in Worker : w \in 0 .. Workers - 1
  BY DEF Worker
<1>12. ASSUME NEW v \in Worker, NEW w \in Worker
       PROVE  picks'[v] - picks'[w]
                <= wraps' + (IF v < work_index' % Workers THEN 1 ELSE 0)
                          - (IF w < work_index' % Workers THEN 1 ELSE 0)
  <2>1. /\ picks[v] \in Nat /\ picks[w] \in Nat /\ r \in 0 .. Workers - 1
        /\ picks[v] - picks[w] <= wraps + Ahead(v) - Ahead(w)
    BY <1>1, <1>8, <1>11
  <2>2. /\ picks'[v] = IF v = r THEN picks[v] + 1 ELSE picks[v]
        /\ picks'[w] = IF w = r THEN picks[w] + 1 ELSE picks[w]
        /\ Ahead(v) = IF v < r THEN 1 ELSE 0
        /\ Ahead(w) = IF w < r THEN 1 ELSE 0
        /\ v \in 0 .. Workers - 1 /\ w \in 0 .. Workers - 1
    BY <1>9, <1>10, <1>11
  <2>3. CASE work_index = IndexModulus - 1
    <3>1. work_index' % Workers = 0 /\ wraps' = wraps + 1
      BY <1>6, <1>7, <2>3
    <3>2. picks'[v] - picks'[w] <= wraps + 1
      BY <1>8, <2>1, <2>2
    <3>. QED  BY <1>8, <2>2, <3>1, <3>2
  <2>4. CASE work_index # IndexModulus - 1
    <3>1. work_index' % Workers = (IF r = Workers - 1 THEN 0 ELSE r + 1) /\ wraps' = wraps
      BY <1>6, <1>7, <2>4
    <3>. QED  BY <1>8, <2>1, <2>2, <3>1
  <2>. QED  BY <2>3, <2>4
<1>. QED  BY <1>6, <1>9, <1>12 DEF RoundRobin, Ahead

(* No worker is picked much more often than another, for any number of      *)
(* workers and however often the index wraps (Server::do_accept).           *)
THEOREM BalancedCorrect == Spec => []Balanced
<1>1. Init => RoundRobin
  <2>. SUFFICES ASSUME Init PROVE RoundRobin
    OBVIOUS
  <2>1. work_index = 1 /\ wraps = 0 /\ picks = [w \in Worker |-> IF w = 0 THEN 1 ELSE 0]
    BY DEF Init
  <2>2. ASSUME NEW v \in Worker, NEW w \in Worker
        PROVE  picks[v] - picks[w] <= wraps + Ahead(v) - Ahead(w)
    <3>1. CASE Workers = 1
      <4>1. v = 0 /\ w = 0 /\ Ahead(v) \in Nat /\ picks[v] \in Nat
        BY <2>1, <3>1 DEF Worker, Ahead
      <4>. QED  BY <2>1, <4>1
    <3>2. CASE Workers # 1
      <4>1. 1 = 0 * Workers + 1 /\ 1 \in 0 .. Workers - 1 /\ 0 \in Nat
            /\ v \in 0 .. Workers - 1 /\ w \in 0 .. Workers - 1
        BY <3>2, ServerAssumption DEF Worker
      <4>2. 1 % Workers = 1
        BY <4>1, Remainder, ServerAssumption
      <4>3. /\ picks[v] = (IF v = 0 THEN 1 ELSE 0) /\ Ahead(v) = IF v < 1 THEN 1 ELSE 0
            /\ picks[w] = (IF w = 0 THEN 1 ELSE 0) /\ Ahead(w) = IF w < 1 THEN 1 ELSE 0
        BY <2>1, <4>2 DEF Ahead
      <4>. QED  BY <2>1, <4>1, <4>3
    <3>. QED  BY <3>1, <3>2
  <2>. QED  BY <2>1, <2>2, ServerAssumption DEF RoundRobin
<1>2. RoundRobin /\ [Next]_vars => RoundRobin'
  <2>. SUFFICES ASSUME RoundRobin, [Next]_vars PROVE RoundRobin'
    OBVIOUS
  <2>1. CASE PickWorker
    BY <2>1, PickRoundRobin
  <2>2. CASE ~ PickWorker
    <3>1. UNCHANGED <<work_index, picks, wraps>>
      BY <2>2 DEF Next, AcceptThread, Connect, Reset, EndSession, AcceptReady, AcceptFailed,
         IncClientNum, Construct, StartSession, vars, indexVars
    <3>. QED  BY <3>1 DEF RoundRobin, Ahead
  <2>. QED  BY <2>1, <2>2
<1>3. RoundRobin => Balanced
  <2>. SUFFICES ASSUME RoundRobin, NEW v \in Worker, NEW w \in Worker
                PROVE  picks[v] - picks[w] <= 1 + wraps
    BY DEF Balanced
  <2>1. picks[v] \in Nat /\ picks[w] \in Nat /\ wraps \in Nat
    BY DEF RoundRobin
  <2>. QED  BY <2>1 DEF RoundRobin, Ahead
<1>. QED  BY <1>1, <1>2, <1>3, PTL DEF Spec
=============================================================================
