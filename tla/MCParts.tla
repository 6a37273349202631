------------------------------- MODULE MCParts -------------------------------
(* The smaller parts of the server for TLC, each by itself: a behaviour is  *)
(* one of Requests, PassivePort, Listing or Startup, while the variables of *)
(* the others stay as they were in the beginning.                           *)
EXTENDS Requests

CONSTANTS
  Addresses, Ports, MaxPasv,                              \* PassivePort
  Workers, Entries, Directories, MaxListings, MaxRemovals, \* Listing
  MaxOdd                                                  \* Startup, with Workers

(* Numbers of a byte, and of 16 bits.                                       *)
Numbers == 0 .. 255

PortNumbers == 1 .. 256 * 256 - 1

ASSUME PortAssumption == Addresses \subseteq [1 .. 4 -> Numbers] /\ Ports \subseteq PortNumbers

VARIABLES
  part,                                                      \* the part that is at work
  address, acceptor, passives, texts, target,                \* PassivePort
  present, tm, begun, step, todo, entry, mtime, line,        \* Listing
  disturbed, fate,
  file, settings, registry, main, at, seen, main_fate        \* Startup

portVars  == <<address, acceptor, passives, texts, target>>
listVars  == <<present, tm, begun, step, todo, entry, mtime, line, disturbed, fate>>
startVars == <<file, settings, registry, main, at, seen, main_fate>>

(* Ports at the boundaries of a byte, and numbers of one to three digits.   *)
SomeAddresses == {<<127, 0, 0, 1>>, <<10, 99, 255, 100>>}

SomePorts == {1, 9, 255, 256, 257, 1023, 2560, 10086, 32767, 32768, 60000, 65280, 65535}

Port == INSTANCE PassivePort

List == INSTANCE Listing

Start == INSTANCE Startup WITH fate <- main_fate

(* Lines of each command in the forms that matter.                          *)
SomeLines == {<<>>, <<"USER">>, <<"user", "bob">>, <<"USER", "Anonymous">>, <<"pass">>,
              <<"TYPE", "a">>, <<"type", "l", "8">>, <<"OPTS", "utf8", "on">>, <<"XYZ", "a">>,
              <<"TYPE", "N">>}

SomeSeparators == {"space", "LF"}

-----------------------------------------------------------------------------
MCInit ==
  /\ part \in {"requests", "port", "listing", "start"}
  /\ Init /\ Port!Init /\ List!Init /\ Start!Init
  /\ part # "requests" => separator = "space"
  /\ part # "port" => address = <<127, 0, 0, 1>>
  /\ part # "start" => file.found = "missing" /\ \A s \in Start!Setting : file.says[s] = "good"

RequestsStep(action) ==
  part = "requests" /\ action /\ UNCHANGED <<part, portVars, listVars, startVars>>

MCNext ==
  \/ RequestsStep(Next)
  \/ /\ part = "port"
     /\ Port!Next
     /\ UNCHANGED <<part, vars, listVars, startVars>>
  \/ /\ part = "listing"
     /\ List!Next
     /\ UNCHANGED <<part, vars, portVars, startVars>>
  \/ /\ part = "start"
     /\ Start!Next
     /\ UNCHANGED <<part, vars, portVars, listVars>>

MCVars == <<part, vars, portVars, listVars, startVars>>

(* The read loop goes on.                                                   *)
MCSpec ==
  /\ MCInit /\ [][MCNext]_MCVars
  /\ WF_MCVars(RequestsStep(ReadSome)) /\ WF_MCVars(RequestsStep(HandleRead))

-----------------------------------------------------------------------------
(* PassivePort: the client connects to the port that listens.               *)
TargetListens == Port!TargetListens

(* Listing: a line of LIST shows the time of its own file.                  *)
TimeIsOwn == List!TimeIsOwn

(* Startup: what a thread has read of the settings stays true.              *)
ReadIsFinal == Start!ReadIsFinal
=============================================================================
