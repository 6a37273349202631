---------------------------- MODULE DataTransfer ----------------------------
(***************************************************************************)
(* What the transfer of a file promises: bytes pass from the source to the *)
(* target in their order, none is lost or invented, and the transfer is    *)
(* called complete (reply 226) only when all of them have passed, or the   *)
(* source was cut off.  It may be given up, without a reply.  SendFile and *)
(* RecvFile implement it.                                                  *)
(***************************************************************************)
EXTENDS Integers

VARIABLES
  total,    \* bytes the source has to give
  moved,    \* bytes that have passed
  cut,      \* whether the source was cut off before it had given them all
  verdict   \* what became of the transfer

vars == <<total, moved, cut, verdict>>

Init == total \in Nat /\ moved = 0 /\ cut = FALSE /\ verdict = "none"

Move ==
  /\ verdict = "none"
  /\ moved' \in moved + 1 .. total
  /\ UNCHANGED <<total, cut, verdict>>

CutOff == ~ cut /\ cut' = TRUE /\ UNCHANGED <<total, moved, verdict>>

(* The last bytes may pass in the step that says so.  When the source is    *)
(* cut off nobody can tell what it still had.                               *)
Complete ==
  /\ verdict = "none"
  /\ moved' = total \/ (cut /\ moved' = moved)
  /\ verdict' = "complete"
  /\ UNCHANGED <<total, cut>>

GiveUp ==
  /\ verdict = "none"
  /\ verdict' = "failed"
  /\ UNCHANGED <<total, moved, cut>>

Next == Move \/ CutOff \/ Complete \/ GiveUp

Spec == Init /\ [][Next]_vars
=============================================================================
