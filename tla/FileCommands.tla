---------------------------- MODULE FileCommands ----------------------------
(***************************************************************************)
(* The commands that work on the file system, given by several sessions at *)
(* the same time: MKD, CWD, CDUP, SIZE, and the constructors of RETR and   *)
(* STOR (op/create_dir_op.cc, op/change_working_dir_op.cc,                 *)
(* op/cd_to_parent.cc, op/size_op.cc, op/send_file_op.cc,                  *)
(* op/recv_file_op.cc).  A session belongs to a worker thread.  The        *)
(* handlers of one worker run one after the other, those of two workers    *)
(* interleave between one call of the file system and the next, so every   *)
(* such call is a step.                                                    *)
(***************************************************************************)
EXTENDS Integers, Sequences, FiniteSets

CONSTANTS
  Sessions,
  NoSession,     \* no session: a file that was there before
  Workers,       \* the worker threads
  Names,         \* names of files and directories
  MaxDepth,      \* bound: how deep directories are nested
  MaxCommands    \* bound: commands the sessions are sent

ASSUME FilesAssumption ==
  /\ NoSession \notin Sessions
  /\ Workers # {}
  /\ MaxDepth \in Nat
  /\ MaxCommands \in Nat

VARIABLES
  tree,          \* the file system: what each path leads to
  cwd,           \* current_path_ of each session (they are all logged in)
  anonymous,     \* is_anonymous_ of each session
  write_enable,  \* the setting of that name
  worker,        \* the worker a session belongs to
  step,          \* the file system call each session comes to next
  target,        \* ... and the path it is about
  author,        \* the session whose STOR opened a file last (history)
  made,          \* the sessions told by 257 that they made a directory (history)
  sent,          \* number of commands so far
  removed,       \* has another process removed something? (history)
  met,           \* who else made, stored or removed what the path of each
                 \* session's command leads to, since it looked (history)
  thrown         \* the session whose handler threw and ended the process

setVars == <<anonymous, write_enable, worker>>

vars == <<tree, cwd, setVars, step, target, author, made, sent, removed, met, thrown>>

Path == UNION {[1 .. n -> Names] : n \in 0 .. MaxDepth}

Root == <<>>

Parent(p) == SubSeq(p, 1, Len(p) - 1)

Step == {"none",        \* no command
         "mkd_create", "mkd_check", "mkd_name",
         "cwd_name", "cdup_name",
         "size_measure",
         "retr_measure", "retr_open",
         "stor_open"}

(* What a client may write after a command: a path that starts at the root, *)
(* or one that starts in the current directory.                             *)
Body == [absolute : BOOLEAN, path : Path]

(* A path of the file system stands for its canonical name; the root is the *)
(* HOME of the server, where every session starts.                          *)
get_target_path(s, body) == IF body.absolute THEN body.path ELSE cwd[s] \o body.path

Init ==
  /\ \E files \in SUBSET {p \in Path : Len(p) = 1} :
       tree = [p \in Path |-> IF p = Root THEN "dir" ELSE IF p \in files THEN "file" ELSE "none"]
  /\ cwd = [s \in Sessions |-> Root]
  /\ anonymous \in [Sessions -> BOOLEAN]
  /\ write_enable \in BOOLEAN
  /\ worker \in [Sessions -> Workers]
  /\ step = [s \in Sessions |-> "none"]
  /\ target = [s \in Sessions |-> Root]
  /\ author = [p \in Path |-> NoSession]
  /\ made = [p \in Path |-> {}]
  /\ sent = 0 /\ removed = FALSE /\ thrown = NoSession
  /\ met = [s \in Sessions |-> {}]

Running == thrown = NoSession

-----------------------------------------------------------------------------
(* A worker takes up the next command when its last handler has returned.   *)
Begin(s) ==
  /\ Running /\ sent < MaxCommands
  /\ \A t \in Sessions : worker[t] = worker[s] => step[t] = "none"
  /\ sent' = sent + 1
  /\ met' = [met EXCEPT ![s] = {}]
  /\ UNCHANGED <<tree, cwd, setVars, author, made, removed, thrown>>

At(s, name) == Running /\ step[s] = name

GoTo(s, name, p) ==
  /\ step' = [step EXCEPT ![s] = name]
  /\ target' = [target EXCEPT ![s] = p]

(* The command is answered and its handler returns.                         *)
Done(s) == GoTo(s, "none", Root)

(* who does something to path p: the commands that have looked at it and    *)
(* are not done meet with it.                                               *)
Meet(p, who) ==
  met' = [s \in Sessions |->
            IF s # who /\ step[s] # "none" /\ target[s] = p THEN met[s] \cup {who} ELSE met[s]]

(* std::filesystem throws, and nothing catches it.                          *)
Throw(s) ==
  /\ thrown' = s
  /\ UNCHANGED <<tree, cwd, setVars, step, target, author, made, sent, removed, met>>

(* A command with a path goes on to its next call if holds says so of what  *)
(* the path leads to; otherwise it is answered with an error.  The code may *)
(* ask twice (exists, then is_directory or is_regular_file): a change in    *)
(* between has the outcome of a change before or after both, so they are    *)
(* one step.  A command without a path is answered like one that fails.     *)
Check(s, p, holds, name) ==
  /\ Begin(s)
  /\ \/ holds /\ GoTo(s, name, p)
     \/ ~ holds /\ Done(s)

-----------------------------------------------------------------------------
(* MKD.  create_directory of what is a directory by now is no error.        *)

(* A faulty MKD that does not look whether the path exists.                 *)
MakeUnchecked(s, p) == Check(s, p, write_enable, "mkd_create")

Make(s, p) == Check(s, p, write_enable /\ tree[p] = "none", "mkd_create")

Create(s) ==
  LET p == target[s]
  IN  /\ At(s, "mkd_create")
      /\ \/ /\ tree[p] = "dir" \/ (tree[p] = "none" /\ tree[Parent(p)] = "dir")
            /\ tree' = [tree EXCEPT ![p] = "dir"]
            /\ Meet(p, s)
            /\ GoTo(s, "mkd_check", p)
            /\ UNCHANGED <<cwd, setVars, author, made, sent, removed, thrown>>
         \/ /\ tree[p] = "file" \/ (tree[p] = "none" /\ tree[Parent(p)] # "dir")
            /\ Throw(s)

CheckMade(s) ==
  /\ At(s, "mkd_check")
  /\ \/ tree[target[s]] = "dir" /\ GoTo(s, "mkd_name", target[s])
     \/ tree[target[s]] # "dir" /\ Done(s)
  /\ UNCHANGED <<tree, cwd, setVars, author, made, sent, removed, met, thrown>>

(* canonical(), and the 257 that says the directory was created.            *)
ReportMade(s) ==
  LET p == target[s]
  IN  /\ At(s, "mkd_name")
      /\ \/ /\ tree[p] # "none"
            /\ made' = [made EXCEPT ![p] = @ \cup {s}]
            /\ Done(s)
            /\ UNCHANGED <<tree, cwd, setVars, author, sent, removed, met, thrown>>
         \/ tree[p] = "none" /\ Throw(s)

MakeDirectory(s) ==
  \/ \E body \in Body : get_target_path(s, body) \in Path /\ Make(s, get_target_path(s, body))
  \/ Create(s)
  \/ CheckMade(s)
  \/ ReportMade(s)

-----------------------------------------------------------------------------
(* CWD, and CDUP, which looks for ".." in the current directory.            *)

(* A faulty CWD that takes a file for a directory.                          *)
ChangeToExisting(s, p) == Check(s, p, tree[p] # "none", "cwd_name")

Change(s, p) == Check(s, p, tree[p] = "dir", "cwd_name")

Enter(s) ==
  LET p == target[s]
  IN  /\ At(s, "cwd_name")
      /\ \/ /\ tree[p] # "none"
            /\ cwd' = [cwd EXCEPT ![s] = p]
            /\ Done(s)
            /\ UNCHANGED <<tree, setVars, author, made, sent, removed, met, thrown>>
         \/ tree[p] = "none" /\ Throw(s)

ChangeWorkingDir(s) ==
  \E body \in Body : get_target_path(s, body) \in Path /\ Change(s, get_target_path(s, body))

CdToParent(s) == Check(s, cwd[s], tree[cwd[s]] = "dir", "cdup_name")

EnterParent(s) ==
  /\ At(s, "cdup_name")
  /\ \/ /\ tree[target[s]] = "dir"
        /\ cwd' = [cwd EXCEPT ![s] = Parent(target[s])]
        /\ Done(s)
        /\ UNCHANGED <<tree, setVars, author, made, sent, removed, met, thrown>>
     \/ tree[target[s]] # "dir" /\ Throw(s)

-----------------------------------------------------------------------------
(* SIZE and RETR measure a file after they looked whether it is there.      *)

Size(s) ==
  \E body \in Body :
    LET p == get_target_path(s, body)
    IN  p \in Path /\ Check(s, p, tree[p] = "file", "size_measure")

Retrieve(s) ==
  \E body \in Body :
    LET p == get_target_path(s, body)
    IN  p \in Path /\ Check(s, p, tree[p] # "none", "retr_measure")

(* file_size() throws for what is not a file.                               *)
Measure(s) ==
  /\ Running /\ step[s] \in {"size_measure", "retr_measure"}
  /\ \/ /\ tree[target[s]] = "file"
        /\ \/ step[s] = "size_measure" /\ Done(s)
           \/ step[s] = "retr_measure" /\ GoTo(s, "retr_open", target[s])
        /\ UNCHANGED <<tree, cwd, setVars, author, made, sent, removed, met, thrown>>
     \/ tree[target[s]] # "file" /\ Throw(s)

(* RETR opens the file, or answers 550; either way the handler returns.     *)
OpenToSend(s) ==
  /\ At(s, "retr_open")
  /\ Done(s)
  /\ UNCHANGED <<tree, cwd, setVars, author, made, sent, removed, met, thrown>>

-----------------------------------------------------------------------------
(* STOR.  Only for an anonymous user does it look whether the file exists.  *)

(* A faulty STOR that forgets whose session it is.                          *)
StoreAny(s, p) == Check(s, p, TRUE, "stor_open")

Store(s, p) == Check(s, p, ~ anonymous[s] \/ tree[p] = "none", "stor_open")

(* open() with O_CREAT and O_TRUNC: it makes the file or empties it.        *)
OpenToStore(s) ==
  LET p == target[s]
  IN  /\ At(s, "stor_open")
      /\ \/ /\ tree[p] = "file" \/ (tree[p] = "none" /\ tree[Parent(p)] = "dir")
            /\ tree' = [tree EXCEPT ![p] = "file"]
            /\ author' = [author EXCEPT ![p] = s]
            /\ Meet(p, s)
         \/ /\ tree[p] = "dir" \/ (tree[p] = "none" /\ tree[Parent(p)] # "dir")
            /\ UNCHANGED <<tree, author, met>>
      /\ Done(s)
      /\ UNCHANGED <<cwd, setVars, made, sent, removed, thrown>>

StoreFile(s) ==
  \/ \E body \in Body : get_target_path(s, body) \in Path /\ Store(s, get_target_path(s, body))
  \/ OpenToStore(s)

-----------------------------------------------------------------------------
(* External: another process removes a file or an empty directory.          *)
Remove ==
  /\ Running /\ ~ removed
  /\ removed' = TRUE
  /\ \E p \in Path \ {Root} :
       /\ tree[p] # "none"
       /\ \A q \in Path : Parent(q) = p /\ q # Root => tree[q] = "none"
       /\ tree' = [tree EXCEPT ![p] = "none"]
       /\ author' = [author EXCEPT ![p] = NoSession]
       /\ made' = [made EXCEPT ![p] = {}]
       /\ Meet(p, NoSession)
  /\ UNCHANGED <<cwd, setVars, step, target, sent, thrown>>

Next ==
  \/ \E s \in Sessions :
       \/ MakeDirectory(s)
       \/ ChangeWorkingDir(s)
       \/ CdToParent(s)
       \/ Enter(s)
       \/ EnterParent(s)
       \/ Size(s)
       \/ Retrieve(s)
       \/ Measure(s)
       \/ OpenToSend(s)
       \/ StoreFile(s)
  \/ Remove

Spec == Init /\ [][Next]_vars

-----------------------------------------------------------------------------
(* The types, and the shape of the file system: what exists is in a         *)
(* directory.                                                               *)
TypeOK ==
  /\ tree \in [Path -> {"none", "dir", "file"}]
  /\ tree[Root] = "dir"
  /\ \A p \in Path \ {Root} : tree[p] # "none" => tree[Parent(p)] = "dir"
  /\ cwd \in [Sessions -> Path]
  /\ anonymous \in [Sessions -> BOOLEAN]
  /\ write_enable \in BOOLEAN
  /\ worker \in [Sessions -> Workers]
  /\ step \in [Sessions -> Step]
  /\ target \in [Sessions -> Path]
  /\ author \in [Path -> Sessions \cup {NoSession}]
  /\ made \in [Path -> SUBSET Sessions]
  /\ sent \in Nat
  /\ removed \in BOOLEAN
  /\ met \in [Sessions -> SUBSET (Sessions \cup {NoSession})]
  /\ thrown \in Sessions \cup {NoSession}

(* CWD and CDUP look first and set current_path_ later: no command of       *)
(* another session turns the path into something else in between, so a      *)
(* session is always in a directory, unless another process removes it.     *)
CwdIsDirectory == ~ removed => \A s \in Sessions : tree[cwd[s]] = "dir"

(* A session of another worker came between two calls of this command: it   *)
(* made or stored what the path leads to after this command had looked.     *)
RacedBy(s, t) == t \in met[s] \ {NoSession} /\ worker[t] # worker[s]

(* MKD answers 257 to the session that made the directory.  A second one is *)
(* told so of the same directory only if the first came between its calls,  *)
(* or if it was removed in the meantime.                                    *)
MadeOnce ==
  [][\A p \in Path : \A s \in made'[p] \ made[p], t \in made[p] :
       removed \/ RacedBy(s, t)]_vars

(* A command on the file system ends the process only for what it was asked *)
(* (MKD in a directory that is not there, RETR of a directory), because     *)
(* another process removed since it looked what it then asked about, or,    *)
(* MKD, because a STOR of another worker made a file of the path since.     *)
(* In particular no session of its own worker can be the cause, and no      *)
(* session at all that of a throw in CWD, CDUP, SIZE or RETR.               *)
ThrowHasCause ==
  ~ Running =>
    \/ NoSession \in met[thrown]
    \/ step[thrown] = "retr_measure" /\ tree[target[thrown]] = "dir"
    \/ /\ step[thrown] = "mkd_create"
       /\ \/ tree[Parent(target[thrown])] # "dir"
          \/ tree[target[thrown]] = "file" /\ RacedBy(thrown, author[target[thrown]])

(* recv_file_op.cc: "for anonymous user, disable overwrite".                *)
Overwrites(s, p) == author'[p] = s /\ author[p] # s /\ tree[p] = "file"

AnonymousNeverOverwrites ==
  [][\A s \in Sessions, p \in Path : anonymous[s] => ~ Overwrites(s, p)]_vars

(* What the code does grant: an anonymous STOR empties only a file that a   *)
(* session of another worker stored after this STOR had looked.             *)
OverwritesOnlyByRace ==
  [][\A s \in Sessions, p \in Path :
       anonymous[s] /\ Overwrites(s, p)
         => RacedBy(s, author[p])]_vars
=============================================================================
