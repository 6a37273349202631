---------------------------- MODULE ReplyChannel -----------------------------
(***************************************************************************)
(* What a session promises to a client that waits for its replies: each    *)
(* command gets one final reply, and a transfer that starts one            *)
(* preliminary reply (150) before it.  There is no reply without a         *)
(* command, and none is overtaken.  A command may go unanswered, as a      *)
(* transfer does that breaks.  Session implements it.                      *)
(***************************************************************************)
EXTENDS Sequences

VARIABLES
  turn,   \* what the client's last command has got so far
  out     \* the replies on their way

vars == <<turn, out>>

Init == turn = "idle" /\ out = <<>>

Ask ==
  /\ turn = "idle"
  /\ turn' = "asked"
  /\ UNCHANGED out

Start ==
  /\ turn = "asked"
  /\ turn' = "started"
  /\ out' = Append(out, "preliminary")

Finish ==
  /\ turn \in {"asked", "started"}
  /\ turn' = "idle"
  /\ out' = Append(out, "final")

GiveUp == turn' = "idle" /\ UNCHANGED out

Deliver ==
  /\ out # <<>>
  /\ out' = Tail(out)
  /\ UNCHANGED turn

(* The control connection broke: all is dropped, with the transfer whose    *)
(* preliminary reply was on its way.                                        *)
Drop == out' = <<>> /\ turn' \in {turn, "idle"}

Next == Ask \/ Start \/ Finish \/ GiveUp \/ Deliver \/ Drop

Spec == Init /\ [][Next]_vars
=============================================================================
