------------------------------- MODULE Startup -------------------------------
(***************************************************************************)
(* The start of the process (main.cc): the commands are registered, the    *)
(* settings are read from a file (config/config.cc), then the server is    *)
(* constructed, whose threads read them.  Neither the registry nor the     *)
(* settings are guarded.  A value is what it says of its origin.           *)
(***************************************************************************)
EXTENDS Naturals, Sequences, FiniteSets

CONSTANTS
  Workers,   \* the worker threads
  MaxOdd     \* bound: settings that differ from the others in the file

(* The settings config.h declares, in the order init sets them; the last is *)
(* declared only.                                                           *)
Order == <<"ftpd_banner", "max_idle_timeout", "data_connection_timeout", "data_transfer_port",
           "use_local_time", "anonymous_enable", "write_enable", "port",
           "download_speed_limit_in_kb_per_s">>

Setting == {Order[i] : i \in DOMAIN Order} \cup {"upload_speed_limit_in_kb_per_s"}

(* The settings of 16 bits.                                                 *)
Short == {"data_transfer_port", "port", "download_speed_limit_in_kb_per_s"}

VARIABLES
  file,       \* what becomes of reading the file, and what it says
  settings,   \* the members of Config
  registry,   \* whether the registry of operations is filled
  main,       \* where main is
  at,         \* the setting init is at, by its place in Order
  seen,       \* what a worker has seen when it began a session
  fate        \* how main ended, if it did

vars == <<file, settings, registry, main, at, seen, fate>>

Unread == [settings |-> [s \in Setting |-> "unread"], registry |-> FALSE]

(* What a file may say of a setting.                                        *)
Entry(s) == {"absent", "good", "wrong_type"} \cup (IF s \in Short THEN {"large"} ELSE {})

Says(usual, odd) == [s \in Setting |-> IF s \in DOMAIN odd THEN odd[s] ELSE usual]

Files ==
  [found : {"missing", "not_JSON", "parsed"},
   says  : UNION {{Says(usual, odd) : odd \in {f \in [O -> {"absent", "good", "wrong_type", "large"}] :
                                                \A s \in O : f[s] \in Entry(s)}} :
                  O \in {O \in SUBSET Setting : Cardinality(O) <= MaxOdd},
                  usual \in {"absent", "good"}}]

(* A static object is filled with zeroes before its constructor.            *)
Init ==
  /\ file \in Files
  /\ settings = [s \in Setting |-> "zero"]
  /\ registry = FALSE
  /\ main = "register" /\ at = 0
  /\ seen = [w \in Workers |-> Unread]
  /\ fate = "running"

End(why) == fate' = why /\ UNCHANGED <<settings, registry, main, at>>

-----------------------------------------------------------------------------
(* regist_all_operation.                                                    *)
RegistAllOperation ==
  /\ main = "register"
  /\ registry' = TRUE
  /\ main' = "open"
  /\ UNCHANGED <<settings, at, fate>>

(* init up to the parse.  A file that is missing is logged, no more.        *)
OpenFile ==
  /\ main = "open"
  /\ \/ file.found = "not_JSON" /\ End("exception")
     \/ /\ file.found # "not_JSON"
        /\ IF file.found = "missing" THEN main' = "construct" /\ UNCHANGED at
           ELSE main' = "set" /\ at' = 1
        /\ UNCHANGED <<settings, registry, fate>>

(* On to the next setting, and after the last one to the server.            *)
Advance ==
  IF at < Len(Order) THEN main' = "set" /\ at' = at + 1 ELSE main' = "construct" /\ UNCHANGED at

Here == file.says[Order[at]]

(* set_field: a key of another type makes the conversion throw, a number    *)
(* that is too large loses its higher bits.                                 *)
set_field ==
  \/ Here = "wrong_type" /\ End("exception")
  \/ /\ Here # "wrong_type"
     /\ settings' = [settings EXCEPT ![Order[at]] =
                       CASE Here = "good"   -> "given"
                         [] Here = "large"  -> "cut"
                         [] Here = "absent" -> @]
     /\ Advance
     /\ UNCHANGED <<registry, fate>>

(* Server's constructor: the port may be in use.  A port of 0 never is.     *)
ConstructServer ==
  /\ main = "construct"
  /\ \/ main' = "serve" /\ UNCHANGED <<settings, registry, at, fate>>
     \/ settings["port"] # "zero" /\ End("exception")

Main ==
  /\ fate = "running"
  /\ \/ RegistAllOperation
     \/ OpenFile
     \/ main = "set" /\ set_field
     \/ ConstructServer
  /\ UNCHANGED <<file, seen>>

(* A faulty order: the server is started before the settings are read.      *)
ServingEarly == main \in {"set", "construct", "serve"}

(* The threads of the workers are there.                                    *)
Serving == main = "serve"

(* A session begins on a worker, which reads the settings and the registry. *)
BeginSession(w) ==
  /\ fate = "running" /\ Serving
  /\ seen' = [seen EXCEPT ![w] = [settings |-> settings, registry |-> registry]]
  /\ UNCHANGED <<file, settings, registry, main, at, fate>>

Next == Main \/ \E w \in Workers : BeginSession(w)

Spec == Init /\ [][Next]_vars

-----------------------------------------------------------------------------
(* main: the order of the calls is all that protects the settings and the   *)
(* registry.  What a thread has read of them stays true: nobody changes     *)
(* them any more once there are threads.                                    *)
ReadIsFinal ==
  [][\A w \in Workers : seen[w] # Unread =>
       settings' = seen[w].settings /\ registry' = seen[w].registry]_vars
=============================================================================
