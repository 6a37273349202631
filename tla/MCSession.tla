----------------------------- MODULE MCSession ------------------------------
(* Instances of Session for TLC: the operations are interchangeable.       *)
EXTENDS Session, TLC

Symmetry == Permutations(OpIds)

(* Every failure the environment can have.                                 *)
AllFaults == Fault
(* All of them but the one with which STOR replies twice.                  *)
AllButPipe == Fault \ {"pipe"}

AllCommands == Command
(* A session that logs in and transfers.                                   *)
TransferCommands == {"USER", "PASS", "PASV", "LIST", "RETR", "STOR"}
=============================================================================
