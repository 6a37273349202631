------------------------------ MODULE Requests -------------------------------
(***************************************************************************)
(* From the bytes of the control connection to the requests of a session   *)
(* and what they do to its login and transfer type: the line reader        *)
(* (session/session.cc), FtpRequest, the registry of operations            *)
(* (utils/regist_factory.h, utils/regist_operation.cc), AuthOp, PropertyOp *)
(* and StatOp.  A word is one symbol of the stream, a blank and each half  *)
(* of the end of a line another.  What the other operations do, and when   *)
(* replies are written, is the subject of Session and FileCommands.        *)
(***************************************************************************)
EXTENDS Integers, Sequences, FiniteSetsExt

CONSTANTS
  Lines,             \* the lines a client sends: sequences of words
  Separators,        \* what clients put between words
  MaxLines,          \* bound: lines sent
  MaxPending,        \* bound: symbols not handled yet when a client sends a line
  anonymous_enable   \* the setting

VARIABLES
  separator,     \* what the client puts between words
  lines,         \* the lines sent so far (history)
  wire,          \* the symbols sent that the server has not read
  buf,           \* buf, what the server has read and not consumed
  handled,       \* number of lines handled (history)
  request,       \* request_
  user,          \* user_
  verified,      \* verified_
  is_anonymous,  \* is_anonymous_
  type,          \* type_
  replies        \* the replies, as codes

netVars   == <<separator, lines, wire>>
loginVars == <<user, verified, is_anonymous>>
vars == <<netVars, buf, handled, request, loginVars, type, replies>>

Blank == {"space", "CR", "LF"}

(* The words of the lines; none of them is blank.                           *)
Vocabulary == UNION {{line[i] : i \in DOMAIN line} : line \in Lines}

ASSUME LineAssumption ==
  /\ Lines \subseteq Seq(Vocabulary) /\ Vocabulary \cap Blank = {}
  /\ Separators \subseteq Blank
  /\ anonymous_enable \in BOOLEAN

(* regist_all_operation.                                                    *)
Registered ==
  {"NOOP", "AUTH", "MKD", "XMKD", "RETR", "STOR", "STAT", "SYST", "PWD", "XPWD", "CWD",
   "XCWD", "OPTS", "TYPE", "PASV", "LIST", "SIZE", "CDUP", "XCUP"}

Init ==
  /\ separator \in Separators
  /\ lines = <<>> /\ wire = <<>> /\ buf = <<>> /\ handled = 0
  /\ request = [command |-> "", body |-> <<>>]
  /\ user = <<>> /\ verified = FALSE /\ is_anonymous = FALSE
  /\ type = "binary"
  /\ replies = <<>>

-----------------------------------------------------------------------------
(* toupper and tolower, on the words that have two forms.                   *)
Pairs == {<<"user", "USER">>, <<"pass", "PASS">>, <<"type", "TYPE">>, <<"opts", "OPTS">>,
          <<"a", "A">>, <<"i", "I">>, <<"n", "N">>, <<"l", "L">>, <<"l8", "L8">>,
          <<"utf8", "UTF8">>, <<"on", "ON">>, <<"anonymous", "ANONYMOUS">>,
          <<"Anonymous", "ANONYMOUS">>}

Upper(w) == IF \E p \in Pairs : p[1] = w THEN (CHOOSE p \in Pairs : p[1] = w)[2] ELSE w

AnonymousName(name) == Len(name) = 1 /\ Upper(name[1]) = "ANONYMOUS"

-----------------------------------------------------------------------------
(* The first n symbols of buf end with the delimiter.                       *)
DelimiterAt(n) == buf[n - 1] = "CR" /\ buf[n] = "LF"

Ends == {n \in 2 .. Len(buf) : DelimiterAt(n)}

(* async_read_until reads some of what is there as long as it has no line.  *)
ReadSome ==
  /\ Ends = {} /\ wire # <<>>
  /\ \E n \in 1 .. Len(wire) :
       /\ buf' = buf \o SubSeq(wire, 1, n)
       /\ wire' = SubSeq(wire, n + 1, Len(wire))
  /\ UNCHANGED <<separator, lines, handled, request, loginVars, type, replies>>

(* is >> line: the words of the line, one after the other.                  *)
Words(n) ==
  LET words[i \in 0 .. n] ==
        IF i = 0 THEN <<>>
        ELSE IF buf[i] \in Blank THEN words[i - 1] ELSE Append(words[i - 1], buf[i])
  IN  words[n]

(* A faulty consume that empties the buffer.                                *)
ConsumeAll(n) == buf' = <<>>

Consume(n) == buf' = SubSeq(buf, n + 1, Len(buf))

(* A faulty build_request: without reset, and a body only if there is one.  *)
StaleBody(words) ==
  [command |-> Upper(Head(words)),
   body    |-> IF Len(words) > 1 THEN Tail(words) ELSE request.body]

(* reset and build_request: the words after the first are joined again, by  *)
(* single blanks.                                                           *)
Request(words) == [command |-> Upper(Head(words)), body |-> Tail(words)]

Reply(code) == replies' = Append(replies, code)

BlankLine(words) ==
  /\ words = <<>>
  /\ request' = [command |-> "", body |-> <<>>]
  /\ UNCHANGED <<loginVars, type, replies>>

User ==
  /\ request'.command = "USER"
  /\ user' = request'.body
  /\ Reply(331)
  /\ UNCHANGED <<verified, is_anonymous>>

(* A USER without a name does not count.                                    *)
validate ==
  \/ user = <<>> /\ Reply(503) /\ UNCHANGED <<verified, is_anonymous>>
  \/ /\ user # <<>>
     /\ is_anonymous' = (anonymous_enable /\ AnonymousName(user))
     /\ verified' = TRUE
     /\ Reply(230)

Pass == request'.command = "PASS" /\ validate /\ UNCHANGED user

AuthOp(words) ==
  /\ ~ verified /\ words # <<>>
  /\ request' = Request(words)
  /\ \/ User
     \/ Pass
     \/ request'.command \notin {"USER", "PASS"} /\ Reply(530) /\ UNCHANGED loginVars
  /\ UNCHANGED type

(* dispatch_task of a user that has logged in, without an operation.        *)
Refuse(words) ==
  /\ verified /\ words # <<>>
  /\ request' = Request(words)
  /\ LET c == request'.command
     IN  \/ c = "USER" /\ Reply(530)
         \/ c = "PASS" /\ Reply(230)
         \/ c \notin Registered \cup {"USER", "PASS"} /\ Reply(500)
  /\ UNCHANGED <<loginVars, type>>

(* A faulty TYPE: what is not binary is ascii.                              *)
SetTypeOrAscii(body) ==
  IF body \in {<<"I">>, <<"L8">>, <<"L", "8">>} THEN type' = "binary" /\ Reply(200)
  ELSE type' = "ascii" /\ Reply(IF body \in {<<"A">>, <<"A", "N">>} THEN 200 ELSE 500)

SetType(body) ==
  \/ body \in {<<"I">>, <<"L8">>, <<"L", "8">>} /\ type' = "binary" /\ Reply(200)
  \/ body \in {<<"A">>, <<"A", "N">>} /\ type' = "ascii" /\ Reply(200)
  \/ /\ body \notin {<<"I">>, <<"L8">>, <<"L", "8">>, <<"A">>, <<"A", "N">>}
     /\ Reply(500)
     /\ UNCHANGED type

SetOption(body) == UNCHANGED type /\ Reply(IF body = <<"UTF8", "ON">> THEN 200 ELSE 501)

(* PropertyOp turns the body of the request to upper case where it is.      *)
PropertyOp(words) ==
  /\ verified /\ words # <<>>
  /\ LET r == Request(words)
     IN  request' = [r EXCEPT !.body = [i \in DOMAIN r.body |-> Upper(r.body[i])]]
  /\ \/ request'.command = "TYPE" /\ SetType(request'.body)
     \/ request'.command = "OPTS" /\ SetOption(request'.body)
  /\ UNCHANGED loginVars

(* The other operations leave the login and the type alone; AUTH asks to    *)
(* log in.  0 stands for what the rest answers, at once or later.           *)
OtherOp(words) ==
  /\ verified /\ words # <<>>
  /\ request' = Request(words)
  /\ request'.command \in Registered \ {"TYPE", "OPTS"}
  /\ Reply(IF request'.command = "AUTH" THEN 530 ELSE 0)
  /\ UNCHANGED <<loginVars, type>>

(* handle_read, with dispatch_task.                                         *)
HandleRead ==
  /\ Ends # {}
  /\ LET n == Min(Ends)
         words == Words(n)
     IN  /\ Consume(n)
         /\ BlankLine(words) \/ AuthOp(words) \/ Refuse(words) \/ PropertyOp(words)
              \/ OtherOp(words)
  /\ handled' = handled + 1
  /\ UNCHANGED netVars

-----------------------------------------------------------------------------
(* External: the client sends a line.                                       *)
Text(line) ==
  [i \in 1 .. 2 * Len(line) |-> IF i % 2 = 1 THEN line[(i + 1) \div 2] ELSE separator]
    \o <<"CR", "LF">>

ClientSends ==
  /\ Len(lines) < MaxLines /\ Len(wire) + Len(buf) <= MaxPending
  /\ \E line \in Lines :
       /\ lines' = Append(lines, line)
       /\ wire' = wire \o Text(line)
  /\ UNCHANGED <<separator, buf, handled, request, loginVars, type, replies>>

Next == ClientSends \/ ReadSome \/ HandleRead

Spec == Init /\ [][Next]_vars

-----------------------------------------------------------------------------
(* What the lines say, whatever pieces they came in and whatever stood      *)
(* between their words.  U is the line of the user's name for a login at p. *)
Is(i, command) == lines[i] # <<>> /\ Upper(Head(lines[i])) = command

NamedAt(u, p) ==
  /\ u \in 1 .. p - 1 /\ Is(u, "USER")
  /\ \A v \in u + 1 .. p - 1 : ~ Is(v, "USER")

LoginAt(p) ==
  /\ Is(p, "PASS")
  /\ \E u \in 1 .. p - 1 : NamedAt(u, p) /\ Len(lines[u]) > 1

Logins == {p \in 1 .. handled : LoginAt(p)}

AnonymousNames == {<<"anonymous">>, <<"ANONYMOUS">>, <<"Anonymous">>}

(* The line reader, FtpRequest and AuthOp together: a session is logged in  *)
(* by the first PASS that follows a USER with a name, under the last name   *)
(* given before it, for good, and as the anonymous user if that is allowed  *)
(* and the name is that, in any case.  No line is lost, split, run into     *)
(* the next, or completed by words of an earlier one.                       *)
LoginIsWhatLinesSay ==
  /\ verified <=> Logins # {}
  /\ verified => \E u \in 1 .. handled :
                   /\ NamedAt(u, Min(Logins))
                   /\ user = Tail(lines[u])
                   /\ is_anonymous <=> anonymous_enable /\ user \in AnonymousNames

(* PropertyOp: the transfer type is that of the last TYPE after the login   *)
(* whose argument is one of the types there are, and binary before that.    *)
BinaryNames == {<<"i">>, <<"I">>, <<"l8">>, <<"L8">>, <<"l", "8">>, <<"L", "8">>}

AsciiNames == {<<"a">>, <<"A">>, <<"a", "n">>, <<"a", "N">>, <<"A", "n">>, <<"A", "N">>}

Binary(i) == Is(i, "TYPE") /\ Tail(lines[i]) \in BinaryNames

Ascii(i) == Is(i, "TYPE") /\ Tail(lines[i]) \in AsciiNames

TypeIsWhatLinesSay ==
  type = "ascii" <=>
    \E i \in 1 .. handled :
      /\ Ascii(i) /\ \E p \in Logins : p < i
      /\ \A j \in i + 1 .. handled : ~ Binary(j)

(* async_read_until and dispatch_task: a line that was sent is handled,     *)
(* wherever it was cut, also between the two halves of its end, and by then *)
(* each line so far that has a word in it has been answered once.           *)
EveryLineAnswered ==
  \A k \in 1 .. MaxLines :
    Len(lines) >= k ~>
      /\ handled >= k
      /\ Len(replies) = Cardinality({i \in 1 .. handled : lines[i] # <<>>})
=============================================================================
