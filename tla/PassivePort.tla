----------------------------- MODULE PassivePort -----------------------------
(***************************************************************************)
(* The data port on its way to the client: PassiveModeOp opens the         *)
(* acceptor on a port the kernel chooses, Response writes its address into *)
(* the reply 227 (session/code.cc), and the client of client/benchmark.cc  *)
(* takes it out again and connects.  The text in the brackets of the reply *)
(* is a sequence of digits and commas.                                     *)
(***************************************************************************)
EXTENDS Integers, Sequences

CONSTANTS
  Addresses,   \* addresses of the server: four numbers
  Ports,       \* what the kernel may choose: 1 .. 65535
  MaxPasv      \* bound: how often PASV is given

VARIABLES
  address,    \* the server's address on the control connection
  acceptor,   \* the port the acceptor listens on, 0 when it is closed
  passives,   \* how often PASV was given
  texts,      \* the 227 replies on their way
  target      \* the endpoint the client has read last

vars == <<address, acceptor, passives, texts, target>>

NoEndpoint == [address |-> <<>>, port |-> 0]

Init ==
  /\ address \in Addresses
  /\ acceptor = 0 /\ passives = 0 /\ texts = <<>>
  /\ target = NoEndpoint

-----------------------------------------------------------------------------
(* Numbers of up to three digits: std::to_string and std::stoi.             *)
Comma == 10

to_string(n) ==
  IF n < 10 THEN <<n>>
  ELSE IF n < 100 THEN <<n \div 10, n % 10>>
  ELSE <<n \div 100, (n \div 10) % 10, n % 10>>

stoi(digits) ==
  LET n == Len(digits)
  IN  digits[n] + (IF n > 1 THEN 10 * digits[n - 1] ELSE 0)
        + (IF n > 2 THEN 100 * digits[n - 2] ELSE 0)

(* The address with commas for dots.                                        *)
AddressText(a) ==
  to_string(a[1]) \o <<Comma>> \o to_string(a[2]) \o <<Comma>>
    \o to_string(a[3]) \o <<Comma>> \o to_string(a[4])

(* A faulty order of the two halves of the port.                            *)
pasv_response_swapped(a, port) ==
  AddressText(a) \o <<Comma>> \o to_string(port % 256) \o <<Comma>> \o to_string(port \div 256)

get_pasv_response(a, port) ==
  AddressText(a) \o <<Comma>> \o to_string(port \div 256) \o <<Comma>> \o to_string(port % 256)

(* split_string by commas: what stands between one and the next.            *)
split_string(text) ==
  LET split[i \in 0 .. Len(text)] ==
        IF i = 0 THEN << <<>> >>
        ELSE LET fields == split[i - 1]
             IN  IF text[i] = Comma THEN Append(fields, <<>>)
                 ELSE [fields EXCEPT ![Len(fields)] = Append(@, text[i])]
  IN  split[Len(text)]

(* The regular expression: six numbers.                                     *)
Matches(text) ==
  LET fields == split_string(text)
  IN  Len(fields) = 6 /\ \A k \in 1 .. 6 : fields[k] # <<>>

(* pasv_addr and pasv_port; the port is 16 bits wide.                       *)
Endpoint(text) ==
  LET fields == split_string(text)
      n == Len(fields)
  IN  [address |-> [i \in 1 .. 4 |-> stoi(fields[i])],
       port    |-> (stoi(fields[n - 1]) * 256 + stoi(fields[n])) % (256 * 256)]

-----------------------------------------------------------------------------
(* PassiveModeOp::do_operation, when nothing fails: an open acceptor is     *)
(* closed and opened again on a port that is free.                          *)
Passive ==
  /\ passives < MaxPasv
  /\ passives' = passives + 1
  /\ acceptor' \in Ports \ {acceptor}
  /\ texts' = Append(texts, get_pasv_response(address, acceptor'))
  /\ UNCHANGED <<address, target>>

ClientReads ==
  /\ texts # <<>> /\ Matches(Head(texts))
  /\ texts' = Tail(texts)
  /\ target' = Endpoint(Head(texts))
  /\ UNCHANGED <<address, acceptor, passives>>

(* async_establish_data_connection: it connects where somebody listens, and *)
(* the accept closes the acceptor.                                          *)
ClientConnects ==
  /\ acceptor # 0 /\ target = [address |-> address, port |-> acceptor]
  /\ acceptor' = 0
  /\ UNCHANGED <<address, passives, texts, target>>

Next == Passive \/ ClientReads \/ ClientConnects

Spec == Init /\ [][Next]_vars

-----------------------------------------------------------------------------
(* get_pasv_response and the client's regular expression, split and stoi:   *)
(* the client that has read the last 227 has the address and the port the   *)
(* acceptor listens on, in all 16 bits, for as long as it listens.          *)
TargetListens ==
  texts = <<>> /\ acceptor # 0 => target = [address |-> address, port |-> acceptor]
=============================================================================
