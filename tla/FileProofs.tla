----------------------------- MODULE FileProofs -----------------------------
(***************************************************************************)
(* Theorems about FileCommands, for any number of sessions, workers, names *)
(* and commands and any depth of directories.                              *)
(***************************************************************************)
EXTENDS FileCommands, SequenceTheorems, TLAPS

(* A worker has one handler under way.                                      *)
OnePerWorker ==
  \A s, t \in Sessions : s # t /\ worker[s] = worker[t] => step[s] = "none" \/ step[t] = "none"

(* Unless another process removed it, the directory that CWD or CDUP found  *)
(* is still one when its name is asked for.                                 *)
DirectoryFound ==
  removed = FALSE => \A s \in Sessions : step[s] \in {"cwd_name", "cdup_name"} => tree[target[s]] = "dir"

(* The path at which MKD or an anonymous STOR found nothing is still no     *)
(* file, or one that a session of another worker stored since.              *)
FoundNothing(s) == step[s] = "mkd_create" \/ (anonymous[s] /\ step[s] = "stor_open")

NothingFound ==
  \A s \in Sessions :
    FoundNothing(s) /\ tree[target[s]] = "file" => RacedBy(s, author[target[s]])

IInv == TypeOK /\ OnePerWorker /\ DirectoryFound /\ NothingFound /\ CwdIsDirectory

-----------------------------------------------------------------------------
(* Paths: the root is one, and so is the parent of one.                     *)
LEMMA PathFacts == Root \in Path /\ \A p \in Path : Parent(p) \in Path
<1>1. Root \in [1 .. 0 -> Names] /\ 0 \in 0 .. MaxDepth
  BY FilesAssumption DEF Root
<1>2. Root \in Path
  BY <1>1 DEF Path
<1>3. ASSUME NEW p \in Path PROVE Parent(p) \in Path
  <2>1. PICK n \in 0 .. MaxDepth : p \in [1 .. n -> Names]
    BY <1>3 DEF Path
  <2>2. p \in Seq(Names) /\ Len(p) = n
    BY <2>1, FilesAssumption
  <2>3. CASE n = 0
    BY <1>1, <2>2, <2>3, FilesAssumption DEF Parent, Path
  <2>4. CASE n # 0
    <3>1. Parent(p) \in [1 .. n - 1 -> Names]
      <4>1. 1 \in 1 .. Len(p) + 1 /\ Len(p) - 1 \in 0 .. Len(p) /\ Len(p) - 1 - 1 + 1 = n - 1
        BY <2>2, <2>4
      <4>2. Parent(p) \in Seq(Names) /\ Len(Parent(p)) = n - 1
        BY <2>2, <4>1, SubSeqProperties DEF Parent
      <4>. QED  BY <4>2
    <3>2. n - 1 \in 0 .. MaxDepth
      BY <2>4, FilesAssumption
    <3>. QED  BY <3>1, <3>2 DEF Path
  <2>. QED  BY <2>3, <2>4
<1>. QED  BY <1>2, <1>3

(* At the start every session is in the root, which is a directory          *)
(* (SessionContext's constructor).                                          *)
LEMMA InitFiles == Init => IInv
<1>. SUFFICES ASSUME Init PROVE IInv
  OBVIOUS
<1>1. PICK files \in SUBSET {p \in Path : Len(p) = 1} :
        tree = [p \in Path |-> IF p = Root THEN "dir" ELSE IF p \in files THEN "file" ELSE "none"]
  BY DEF Init
<1>2. ASSUME NEW p \in Path \ {Root}, tree[p] # "none" PROVE tree[Parent(p)] = "dir"
  <2>1. p \in Path /\ Len(p) = 1
    BY <1>1, <1>2
  <2>2. PICK n \in 0 .. MaxDepth : p \in [1 .. n -> Names]
    BY DEF Path
  <2>3. p \in Seq(Names)
    BY <2>2, FilesAssumption
  <2>4. Parent(p) = Root
    BY <2>1, <2>3 DEF Parent, Root
  <2>. QED  BY <1>1, <2>4, PathFacts
<1>3. TypeOK
  BY <1>1, <1>2, PathFacts DEF Init, TypeOK, Step
<1>4. OnePerWorker /\ DirectoryFound /\ NothingFound /\ CwdIsDirectory
  BY <1>1, PathFacts
     DEF Init, OnePerWorker, DirectoryFound, NothingFound, FoundNothing, CwdIsDirectory
<1>. QED  BY <1>3, <1>4 DEF IInv

-----------------------------------------------------------------------------
(* A command counts among the commands sent.                                *)
LEMMA BeginCounts == ASSUME TypeOK, NEW s, Begin(s) PROVE sent' \in Nat
  BY DEF Begin, TypeOK

(* Who does something to a path is met by the commands that are about it.   *)
LEMMA MeetFacts ==
  ASSUME TypeOK, NEW p \in Path, NEW who \in Sessions \cup {NoSession}, Meet(p, who)
  PROVE  /\ met' \in [Sessions -> SUBSET (Sessions \cup {NoSession})]
         /\ \A t \in Sessions :
              /\ met[t] \subseteq met'[t] /\ met'[t] \subseteq met[t] \cup {who}
              /\ t # who /\ step[t] # "none" /\ target[t] = p => who \in met'[t]
  BY DEF Meet, TypeOK

LEMMA RacedStays ==
  ASSUME NEW s, NEW t, met[s] \subseteq met'[s], worker' = worker, RacedBy(s, t)
  PROVE  t \in met'[s] \ {NoSession} /\ worker'[t] # worker'[s]
  BY DEF RacedBy

(* A command begins (dispatch_task): what it noted of the path is so.       *)
LEMMA BeginFiles ==
  ASSUME IInv, NEW s \in Sessions, NEW p \in Path, NEW name \in Step,
         Begin(s), GoTo(s, name, p),
         name \in {"cwd_name", "cdup_name"} => tree[p] = "dir",
         name = "stor_open" => ~ anonymous[s] \/ tree[p] = "none",
         name = "mkd_create" => tree[p] = "none"
  PROVE  IInv'
<1>. USE DEF IInv
<1>1. /\ step' = [step EXCEPT ![s] = name] /\ target' = [target EXCEPT ![s] = p]
      /\ met' = [met EXCEPT ![s] = {}]
      /\ UNCHANGED <<tree, cwd, anonymous, write_enable, worker, author, made, removed, thrown>>
      /\ \A t \in Sessions : worker[t] = worker[s] => step[t] = "none"
  BY DEF Begin, GoTo, setVars
<1>2. TypeOK'
  <2>1. step' \in [Sessions -> Step] /\ target' \in [Sessions -> Path]
    BY <1>1 DEF TypeOK
  <2>2. sent' \in Nat
    BY BeginCounts
  <2>3. \A q \in Path \ {Root} : tree'[q] # "none" => tree'[Parent(q)] = "dir"
    BY <1>1 DEF TypeOK
  <2>. QED  BY <1>1, <2>1, <2>2, <2>3 DEF TypeOK
<1>3. OnePerWorker'
  BY <1>1 DEF OnePerWorker, TypeOK
<1>4. DirectoryFound'
  BY <1>1 DEF DirectoryFound, TypeOK
<1>5. NothingFound'
  <2>. SUFFICES ASSUME NEW t \in Sessions, FoundNothing(t)', tree'[target'[t]] = "file"
                PROVE  RacedBy(t, author[target[t]])' /\ t # s
    BY DEF NothingFound
  <2>1. t # s
    BY <1>1 DEF FoundNothing, TypeOK
  <2>2. FoundNothing(t) /\ target'[t] = target[t] /\ met'[t] = met[t]
    BY <1>1, <2>1 DEF FoundNothing, TypeOK
  <2>. QED  BY <1>1, <2>1, <2>2 DEF NothingFound, RacedBy
<1>6. CwdIsDirectory'
  BY <1>1 DEF CwdIsDirectory
<1>. QED  BY <1>2, <1>3, <1>4, <1>5, <1>6

(* A command goes on, or is answered, and the file system stays as it is.   *)
LEMMA ContinueFiles ==
  ASSUME IInv, NEW s \in Sessions, NEW p \in Path, NEW name \in Step, step[s] # "none",
         name \notin {"cwd_name", "cdup_name", "mkd_create", "stor_open"}, GoTo(s, name, p),
         UNCHANGED <<tree, anonymous, write_enable, worker, author, sent, removed, met, thrown>>,
         made' \in [Path -> SUBSET Sessions],
         cwd' \in [Sessions -> Path]
  PROVE  CwdIsDirectory' => IInv'
<1>. USE DEF IInv
<1>1. /\ step' = [step EXCEPT ![s] = name] /\ target' = [target EXCEPT ![s] = p]
      /\ UNCHANGED <<tree, anonymous, write_enable, worker, author, sent, removed, met, thrown>>
  BY DEF GoTo
<1>2. TypeOK'
  <2>1. step' \in [Sessions -> Step] /\ target' \in [Sessions -> Path]
    BY <1>1 DEF TypeOK
  <2>3. \A q \in Path \ {Root} : tree'[q] # "none" => tree'[Parent(q)] = "dir"
    BY <1>1 DEF TypeOK
  <2>. QED  BY <1>1, <2>1, <2>3 DEF TypeOK
<1>3. OnePerWorker'
  BY <1>1 DEF OnePerWorker, TypeOK
<1>4. DirectoryFound'
  BY <1>1 DEF DirectoryFound, TypeOK
<1>5. NothingFound'
  BY <1>1 DEF NothingFound, FoundNothing, RacedBy, TypeOK
<1>. QED  BY <1>2, <1>3, <1>4, <1>5

(* A file system call that throws changes nothing but that it threw.        *)
LEMMA ThrowFiles == ASSUME IInv, NEW s \in Sessions, Throw(s) PROVE IInv'
<1>1. /\ thrown' = s
      /\ UNCHANGED <<tree, cwd, anonymous, write_enable, worker, step, target, author, made, sent, removed, met>>
  BY DEF Throw, setVars
<1>2. TypeOK'
  <2>1. \A q \in Path \ {Root} : tree'[q] # "none" => tree'[Parent(q)] = "dir"
    BY <1>1 DEF IInv, TypeOK
  <2>. QED  BY <1>1, <2>1 DEF IInv, TypeOK
<1>3. OnePerWorker' /\ DirectoryFound' /\ NothingFound' /\ CwdIsDirectory'
  BY <1>1
     DEF IInv, OnePerWorker, DirectoryFound, NothingFound, FoundNothing, RacedBy, CwdIsDirectory
<1>. QED  BY <1>2, <1>3 DEF IInv

(* MKD creates its directory where there is one to hold it.                 *)
LEMMA CreateFiles == ASSUME IInv, NEW s \in Sessions, Create(s) PROVE IInv'
<1>. USE DEF IInv
<1>. DEFINE p == target[s]
<1>1. CASE Throw(s)
  BY <1>1, ThrowFiles
<1>2. CASE /\ tree[p] = "dir" \/ (tree[p] = "none" /\ tree[Parent(p)] = "dir")
           /\ tree' = [tree EXCEPT ![p] = "dir"]
           /\ Meet(p, s) /\ GoTo(s, "mkd_check", p)
           /\ UNCHANGED <<cwd, setVars, author, made, sent, removed, thrown>>
  <2>1. /\ step' = [step EXCEPT ![s] = "mkd_check"] /\ target' = [target EXCEPT ![s] = p]
        /\ UNCHANGED <<cwd, anonymous, write_enable, worker, author, made, sent, removed, thrown>>
        /\ step[s] = "mkd_create" /\ p \in Path
    BY <1>2 DEF GoTo, setVars, Create, At, TypeOK
  <2>. p \in Path
    BY DEF TypeOK
  <2>2. \A q \in Path : tree[q] = "dir" => tree'[q] = "dir"
    BY <1>2 DEF TypeOK
  <2>3. \A q \in Path : tree'[q] = "file" => tree[q] = "file"
    BY <1>2 DEF TypeOK
  <2>4. \A q \in Path \ {Root} : tree'[q] # "none" => tree'[Parent(q)] = "dir"
    BY <1>2, <2>2, PathFacts DEF TypeOK
  <2>5. TypeOK'
    BY <1>2, <2>1, <2>2, <2>4, PathFacts, MeetFacts DEF TypeOK, Step
  <2>6. OnePerWorker'
    BY <2>1, <1>2 DEF OnePerWorker, TypeOK, Create, At
  <2>7. DirectoryFound' /\ CwdIsDirectory'
    BY <2>1, <2>2 DEF DirectoryFound, CwdIsDirectory, TypeOK
  <2>8. ASSUME NEW t \in Sessions, FoundNothing(t)', tree'[target'[t]] = "file"
        PROVE  RacedBy(t, author[target[t]])'
    <3>1. FoundNothing(t) /\ target'[t] = target[t] /\ target[t] \in Path
      BY <2>1, <2>8 DEF FoundNothing, TypeOK
    <3>2. RacedBy(t, author[target[t]])
      BY <2>3, <2>8, <3>1 DEF NothingFound
    <3>3. met[t] \subseteq met'[t]
      BY <1>2, <2>1, MeetFacts
    <3>. QED  BY <2>1, <3>1, <3>2, <3>3 DEF RacedBy
  <2>9. NothingFound'
    BY <2>8 DEF NothingFound
  <2>. QED  BY <2>5, <2>6, <2>7, <2>9
<1>. QED  BY <1>1, <1>2 DEF Create

(* STOR makes its file or empties it.                                       *)
LEMMA OpenToStoreFiles == ASSUME IInv, NEW s \in Sessions, OpenToStore(s) PROVE IInv'
<1>. USE DEF IInv
<1>. DEFINE p == target[s]
<1>1. /\ step' = [step EXCEPT ![s] = "none"] /\ target' = [target EXCEPT ![s] = Root]
      /\ UNCHANGED <<cwd, anonymous, write_enable, worker, made, sent, removed, thrown>>
      /\ step[s] = "stor_open" /\ p \in Path
  BY DEF GoTo, Done, setVars, OpenToStore, At, TypeOK
<1>2. CASE UNCHANGED <<tree, author, met>>
  <2>1. TypeOK'
    BY <1>1, <1>2, PathFacts DEF TypeOK, Step
  <2>2. OnePerWorker' /\ DirectoryFound' /\ CwdIsDirectory'
    BY <1>1, <1>2 DEF OnePerWorker, DirectoryFound, CwdIsDirectory, TypeOK
  <2>3. NothingFound'
    BY <1>1, <1>2 DEF NothingFound, FoundNothing, RacedBy, TypeOK
  <2>. QED  BY <2>1, <2>2, <2>3
<1>3. CASE /\ tree[p] = "file" \/ (tree[p] = "none" /\ tree[Parent(p)] = "dir")
           /\ tree' = [tree EXCEPT ![p] = "file"]
           /\ author' = [author EXCEPT ![p] = s]
           /\ Meet(p, s)
  <2>2. \A q \in Path : tree[q] = "dir" => tree'[q] = "dir"
    BY <1>1, <1>3 DEF TypeOK
  <2>4. \A q \in Path \ {Root} : tree'[q] # "none" => tree'[Parent(q)] = "dir"
    BY <1>1, <1>3, <2>2, PathFacts DEF TypeOK
  <2>5. TypeOK'
    BY <1>1, <1>3, <2>2, <2>4, PathFacts, MeetFacts DEF TypeOK, Step
  <2>6. OnePerWorker'
    BY <1>1 DEF OnePerWorker, TypeOK
  <2>7. DirectoryFound' /\ CwdIsDirectory'
    BY <1>1, <2>2 DEF DirectoryFound, CwdIsDirectory, TypeOK
  <2>8. ASSUME NEW t \in Sessions, FoundNothing(t)', tree'[target'[t]] = "file"
        PROVE  RacedBy(t, author[target[t]])'
    <3>1. t # s /\ FoundNothing(t) /\ step[t] # "none"
          /\ target'[t] = target[t] /\ target[t] \in Path
      BY <1>1, <2>8 DEF FoundNothing, TypeOK
    <3>2. worker[s] # worker[t]
      BY <1>1, <3>1 DEF OnePerWorker
    <3>3. met[t] \subseteq met'[t] /\ (target[t] = p => s \in met'[t])
      BY <1>1, <1>3, <3>1, MeetFacts
    <3>4. CASE target[t] = p
      <4>1. author'[target'[t]] = s
        BY <1>1, <1>3, <3>1, <3>4 DEF TypeOK
      <4>. QED  BY <1>1, <3>2, <3>3, <3>4, <4>1, FilesAssumption DEF RacedBy
    <3>5. CASE target[t] # p
      <4>1. author'[target'[t]] = author[target[t]] /\ tree[target[t]] = "file"
        BY <1>1, <1>3, <2>8, <3>1, <3>5 DEF TypeOK
      <4>2. RacedBy(t, author[target[t]])
        BY <3>1, <4>1 DEF NothingFound
      <4>. QED  BY <1>1, <3>3, <4>1, <4>2 DEF RacedBy
    <3>. QED  BY <3>4, <3>5
  <2>9. NothingFound'
    BY <2>8 DEF NothingFound
  <2>. QED  BY <2>5, <2>6, <2>7, <2>9
<1>. QED  BY <1>2, <1>3 DEF OpenToStore

(* Another process removes something.                                       *)
LEMMA RemoveFiles == ASSUME IInv, Remove PROVE IInv'
<1>. USE DEF IInv
<1>1. PICK p \in Path \ {Root} :
        /\ tree[p] # "none"
        /\ \A q \in Path : Parent(q) = p /\ q # Root => tree[q] = "none"
        /\ tree' = [tree EXCEPT ![p] = "none"]
        /\ author' = [author EXCEPT ![p] = NoSession]
        /\ made' = [made EXCEPT ![p] = {}]
        /\ Meet(p, NoSession)
  BY DEF Remove
<1>2. removed' = TRUE /\ UNCHANGED <<cwd, anonymous, write_enable, worker, step, target, sent, thrown>>
  BY DEF Remove, setVars
<1>3. \A q \in Path \ {Root} : tree'[q] # "none" => tree'[Parent(q)] = "dir"
  BY <1>1, PathFacts DEF TypeOK
<1>4. TypeOK'
  BY <1>1, <1>2, <1>3, MeetFacts DEF TypeOK
<1>5. OnePerWorker' /\ DirectoryFound' /\ CwdIsDirectory'
  BY <1>2 DEF OnePerWorker, DirectoryFound, CwdIsDirectory
<1>6. NothingFound'
  <2>. SUFFICES ASSUME NEW t \in Sessions, FoundNothing(t)', tree'[target'[t]] = "file"
                PROVE  RacedBy(t, author[target[t]])'
    BY DEF NothingFound
  <2>1. FoundNothing(t) /\ target'[t] = target[t] /\ target[t] \in Path
    BY <1>2 DEF FoundNothing, TypeOK
  <2>2. target[t] # p /\ tree[target[t]] = "file" /\ author'[target[t]] = author[target[t]]
    BY <1>1, <2>1 DEF TypeOK
  <2>3. RacedBy(t, author[target[t]]) /\ met[t] \subseteq met'[t]
    BY <1>1, <2>1, <2>2, MeetFacts DEF NothingFound
  <2>. QED  BY <1>2, <2>1, <2>2, <2>3 DEF RacedBy
<1>. QED  BY <1>4, <1>5, <1>6

(* CWD sets current_path_ to the directory it found.                        *)
LEMMA EnterFiles == ASSUME IInv, NEW s \in Sessions, Enter(s) \/ EnterParent(s) PROVE IInv'
<1>1. CASE Throw(s)
  BY <1>1, ThrowFiles
<1>2. CASE ~ Throw(s)
  <2>1. PICK p \in Path :
          /\ cwd' = [cwd EXCEPT ![s] = p]
          /\ ~ removed => tree[p] = "dir"
    <3>1. target[s] \in Path
      BY DEF IInv, TypeOK
    <3>2. CASE Enter(s)
      <4>1. cwd' = [cwd EXCEPT ![s] = target[s]] /\ step[s] = "cwd_name"
        BY <1>2, <3>2 DEF Enter, At
      <4>2. removed = FALSE => tree[target[s]] = "dir"
        BY <4>1 DEF IInv, DirectoryFound
      <4>3. removed = FALSE \/ removed = TRUE
        BY DEF IInv, TypeOK
      <4>4. ~ removed => tree[target[s]] = "dir"
        BY <4>2, <4>3
      <4>. QED  BY <3>1, <4>1, <4>4
    <3>3. CASE EnterParent(s)
      <4>1. tree[target[s]] = "dir" /\ cwd' = [cwd EXCEPT ![s] = Parent(target[s])]
        BY <1>2, <3>3 DEF EnterParent
      <4>2. Parent(target[s]) \in Path
        BY <3>1, PathFacts
      <4>3. tree[Parent(target[s])] = "dir"
        <5>1. CASE target[s] = Root
          <6>1. Parent(Root) = Root
            BY SubSeqEmpty DEF Parent, Root
          <6>. QED  BY <5>1, <6>1 DEF IInv, TypeOK
        <5>2. CASE target[s] # Root
          BY <3>1, <4>1, <5>2 DEF IInv, TypeOK
        <5>. QED  BY <5>1, <5>2
      <4>. QED  BY <4>1, <4>2, <4>3
    <3>. QED  BY <3>2, <3>3
  <2>2. /\ Done(s) /\ step[s] # "none"
        /\ UNCHANGED <<tree, anonymous, write_enable, worker, author, made, sent, removed, met, thrown>>
    BY <1>2 DEF Enter, EnterParent, At, setVars
  <2>3. cwd' \in [Sessions -> Path]
    BY <2>1 DEF IInv, TypeOK
  <2>4. CwdIsDirectory'
    BY <2>1, <2>2 DEF IInv, TypeOK, CwdIsDirectory
  <2>5. made' \in [Path -> SUBSET Sessions]
    BY <2>2 DEF IInv, TypeOK
  <2>. QED  BY <2>2, <2>3, <2>4, <2>5, ContinueFiles, PathFacts DEF Done, Step
<1>. QED  BY <1>1, <1>2

(* The rest of MKD, SIZE and RETR leaves the file system as it is.          *)
LEMMA AskFiles ==
  ASSUME IInv, NEW s \in Sessions, CheckMade(s) \/ ReportMade(s) \/ Measure(s) \/ OpenToSend(s)
  PROVE  IInv'
<1>1. CASE Throw(s)
  BY <1>1, ThrowFiles
<1>2. CASE ~ Throw(s)
  <2>1. /\ step[s] # "none"
        /\ \/ Done(s)
           \/ \E name \in {"mkd_name", "retr_open"} : GoTo(s, name, target[s])
        /\ UNCHANGED <<tree, cwd, anonymous, write_enable, worker, author, sent, removed, met, thrown>>
    BY <1>2 DEF CheckMade, ReportMade, Measure, OpenToSend, At, setVars
  <2>2. made' \in [Path -> SUBSET Sessions]
    <3>1. made \in [Path -> SUBSET Sessions] /\ target[s] \in Path
      BY DEF IInv, TypeOK
    <3>2. made' = made \/ made' = [made EXCEPT ![target[s]] = @ \cup {s}]
      BY <1>2 DEF CheckMade, ReportMade, Measure, OpenToSend
    <3>. QED  BY <3>1, <3>2
  <2>3. cwd' \in [Sessions -> Path] /\ CwdIsDirectory'
    BY <2>1 DEF IInv, TypeOK, CwdIsDirectory
  <2>4. target[s] \in Path
    BY DEF IInv, TypeOK
  <2>. QED  BY <2>1, <2>2, <2>3, <2>4, ContinueFiles, PathFacts DEF Done, Step
<1>. QED  BY <1>1, <1>2

(* Every command begins with Check.                                         *)
LEMMA CommandFiles ==
  ASSUME IInv, NEW s \in Sessions,
         \/ \E p \in Path : Make(s, p) \/ Change(s, p) \/ Store(s, p)
         \/ CdToParent(s) \/ Size(s) \/ Retrieve(s)
  PROVE  IInv'
<1>1. PICK p \in Path, name \in Step :
        /\ Begin(s) /\ GoTo(s, name, p)
        /\ name \in {"cwd_name", "cdup_name"} => tree[p] = "dir"
        /\ name = "stor_open" => ~ anonymous[s] \/ tree[p] = "none"
        /\ name = "mkd_create" => tree[p] = "none"
  <2>1. CASE \E p \in Path : Make(s, p)
    BY <2>1, PathFacts DEF Make, Check, Done, Step
  <2>2. CASE \E p \in Path : Change(s, p)
    BY <2>2, PathFacts DEF Change, Check, Done, Step
  <2>3. CASE \E p \in Path : Store(s, p)
    BY <2>3, PathFacts DEF Store, Check, Done, Step
  <2>4. CASE CdToParent(s)
    <3>1. cwd[s] \in Path
      BY DEF IInv, TypeOK
    <3>. QED  BY <2>4, <3>1, PathFacts DEF CdToParent, Check, Done, Step
  <2>5. CASE Size(s)
    BY <2>5, PathFacts DEF Size, Check, Done, Step
  <2>6. CASE Retrieve(s)
    BY <2>6, PathFacts DEF Retrieve, Check, Done, Step
  <2>. QED  BY <2>1, <2>2, <2>3, <2>4, <2>5, <2>6
<1>. QED  BY <1>1, BeginFiles

(* Every step keeps what the commands found before it.                      *)
LEMMA NextFiles == IInv /\ [Next]_vars => IInv'
<1>. SUFFICES ASSUME IInv, [Next]_vars PROVE IInv'
  OBVIOUS
<1>1. ASSUME NEW s \in Sessions, MakeDirectory(s) PROVE IInv'
  BY <1>1, CommandFiles, CreateFiles, AskFiles DEF MakeDirectory
<1>2. ASSUME NEW s \in Sessions, ChangeWorkingDir(s) PROVE IInv'
  BY <1>2, CommandFiles DEF ChangeWorkingDir
<1>3. ASSUME NEW s \in Sessions, CdToParent(s) \/ Size(s) \/ Retrieve(s) PROVE IInv'
  BY <1>3, CommandFiles
<1>4. ASSUME NEW s \in Sessions, Enter(s) \/ EnterParent(s) PROVE IInv'
  BY <1>4, EnterFiles
<1>5. ASSUME NEW s \in Sessions, Measure(s) \/ OpenToSend(s) PROVE IInv'
  BY <1>5, AskFiles
<1>6. ASSUME NEW s \in Sessions, StoreFile(s) PROVE IInv'
  BY <1>6, CommandFiles, OpenToStoreFiles DEF StoreFile
<1>7. CASE Remove
  BY <1>7, RemoveFiles
<1>8. CASE UNCHANGED vars
  <2>1. /\ UNCHANGED <<tree, cwd, anonymous, write_enable, worker, step, target>>
        /\ UNCHANGED <<author, made, sent, removed, met, thrown>>
    BY <1>8 DEF vars, setVars
  <2>2. TypeOK'
    <3>1. \A q \in Path \ {Root} : tree'[q] # "none" => tree'[Parent(q)] = "dir"
      BY <2>1 DEF IInv, TypeOK
    <3>. QED  BY <2>1, <3>1 DEF IInv, TypeOK
  <2>3. OnePerWorker' /\ DirectoryFound' /\ NothingFound' /\ CwdIsDirectory'
    BY <2>1
       DEF IInv, OnePerWorker, DirectoryFound, NothingFound, FoundNothing, RacedBy, CwdIsDirectory
  <2>. QED  BY <2>2, <2>3 DEF IInv
<1>. QED  BY <1>1, <1>2, <1>3, <1>4, <1>5, <1>6, <1>7, <1>8 DEF Next

(* The file system keeps its shape, whatever is made, stored and removed.   *)
THEOREM FileTypeCorrect == Spec => []TypeOK
<1>1. IInv => TypeOK
  BY DEF IInv
<1>. QED  BY <1>1, InitFiles, NextFiles, PTL DEF Spec

(* A session is in a directory, though CWD and CDUP look first and move     *)
(* later (change_working_dir_op.cc, cd_to_parent.cc).                       *)
THEOREM CwdIsDirectoryCorrect == Spec => []CwdIsDirectory
<1>1. IInv => CwdIsDirectory
  BY DEF IInv
<1>. QED  BY <1>1, InitFiles, NextFiles, PTL DEF Spec

(* Only the opening of a STOR, and a removal, change who stored a file.     *)
LEMMA AuthorChanges ==
  [Next]_vars => author' = author \/ Remove \/ \E t \in Sessions : OpenToStore(t)
<1>. SUFFICES ASSUME [Next]_vars, ~ Remove, ~ \E t \in Sessions : OpenToStore(t)
              PROVE  author' = author
  OBVIOUS
<1>1. ASSUME NEW s, Begin(s) \/ Throw(s) PROVE author' = author
  BY <1>1 DEF Begin, Throw
<1>2. ASSUME NEW s \in Sessions, MakeDirectory(s) PROVE author' = author
  BY <1>1, <1>2 DEF MakeDirectory, Make, Check, Create, CheckMade, ReportMade
<1>3. ASSUME NEW s \in Sessions, ChangeWorkingDir(s) \/ CdToParent(s) PROVE author' = author
  BY <1>1, <1>3 DEF ChangeWorkingDir, Change, CdToParent, Check
<1>4. ASSUME NEW s \in Sessions, Enter(s) \/ EnterParent(s) PROVE author' = author
  BY <1>1, <1>4 DEF Enter, EnterParent
<1>5. ASSUME NEW s \in Sessions, Size(s) \/ Retrieve(s) PROVE author' = author
  BY <1>1, <1>5 DEF Size, Retrieve, Check
<1>6. ASSUME NEW s \in Sessions, Measure(s) \/ OpenToSend(s) PROVE author' = author
  BY <1>1, <1>6 DEF Measure, OpenToSend
<1>7. ASSUME NEW s \in Sessions, StoreFile(s) PROVE author' = author
  BY <1>1, <1>7 DEF StoreFile, Store, Check
<1>8. CASE UNCHANGED vars
  BY <1>8 DEF vars
<1>. QED  BY <1>2, <1>3, <1>4, <1>5, <1>6, <1>7, <1>8 DEF Next

(* An anonymous STOR empties a file only if a session of another worker     *)
(* stored it since the STOR looked (recv_file_op.cc:30-36).                 *)
THEOREM OverwritesOnlyByRaceCorrect == Spec => OverwritesOnlyByRace
<1>1. ASSUME IInv, [Next]_vars
      PROVE  [\A s \in Sessions, p \in Path :
                anonymous[s] /\ Overwrites(s, p)
                  => RacedBy(s, author[p])]_vars
  <2>. SUFFICES ASSUME NEW s \in Sessions, NEW p \in Path, anonymous[s], Overwrites(s, p)
                PROVE  RacedBy(s, author[p])
    OBVIOUS
  <2>1. author'[p] = s /\ author[p] # s /\ tree[p] = "file"
    BY DEF Overwrites
  <2>2. author \in [Path -> Sessions \cup {NoSession}] /\ s # NoSession
    BY <1>1, FilesAssumption DEF IInv, TypeOK
  <2>3. CASE \E t \in Sessions : OpenToStore(t)
    <3>1. PICK t \in Sessions : OpenToStore(t)
      BY <2>3
    <3>2. author' = [author EXCEPT ![target[t]] = t] /\ step[t] = "stor_open"
      BY <2>1, <3>1 DEF OpenToStore, At
    <3>3. t = s /\ p = target[t]
      BY <2>1, <2>2, <3>2
    <3>. QED  BY <1>1, <2>1, <3>2, <3>3 DEF IInv, NothingFound, FoundNothing
  <2>4. CASE Remove
    <3>1. PICK q \in Path : author' = [author EXCEPT ![q] = NoSession]
      BY <2>4 DEF Remove
    <3>. QED  BY <2>1, <2>2, <3>1
  <2>5. CASE author' = author
    BY <2>1, <2>5
  <2>. QED  BY <1>1, <2>3, <2>4, <2>5, AuthorChanges
<1>. QED  BY <1>1, InitFiles, NextFiles, PTL DEF Spec, OverwritesOnlyByRace

-----------------------------------------------------------------------------
(* What a command found of its path still holds at each of its later calls, *)
(* unless it meets with the removal of the path.                            *)
Needs(name, what) ==
  /\ name \in {"mkd_check", "mkd_name", "cwd_name", "cdup_name"} => what = "dir"
  /\ name = "size_measure" => what = "file"
  /\ name = "retr_measure" => what # "none"

WhatWasFound == \A s \in Sessions : NoSession \in met[s] \/ Needs(step[s], tree[target[s]])

MetRemoval == \A s \in Sessions : NoSession \in met[s] => removed = TRUE

(* Of two that make the same directory each meets with what the other did   *)
(* before it, and whoever is told that it made a directory has been met by  *)
(* those that still make it.                                                *)
Making == {"mkd_create", "mkd_check", "mkd_name"}
Created == {"mkd_check", "mkd_name"}

MakersMeet ==
  \A s, t \in Sessions :
    s # t /\ step[s] \in Making /\ step[t] \in Created /\ target[s] = target[t]
      => removed = TRUE \/ RacedBy(s, t)

MadeByOthers ==
  \A s \in Sessions : step[s] \in Making =>
    \A t \in made[target[s]] : removed = TRUE \/ RacedBy(s, t)

NothingMade == \A p \in Path : tree[p] = "none" => made[p] = {}

History ==
  WhatWasFound /\ MetRemoval /\ MakersMeet /\ MadeByOthers /\ NothingMade /\ ThrowHasCause

LEMMA InitHistory == Init => History
<1>. SUFFICES ASSUME Init PROVE History
  OBVIOUS
<1>1. /\ step = [s \in Sessions |-> "none"] /\ made = [p \in Path |-> {}]
      /\ met = [s \in Sessions |-> {}] /\ thrown = NoSession
  BY DEF Init
<1>. QED
  BY <1>1 DEF History, WhatWasFound, Needs, MetRemoval, MakersMeet, Created, MadeByOthers, Making,
     NothingMade, ThrowHasCause, Running

LEMMA NoneNeeds ==
  /\ "none" \notin Making /\ "none" \notin Created /\ Created \subseteq Making
  /\ \A what : Needs("none", what) /\ Needs("retr_open", what)
  /\ \A name, what : Needs(name, "none") => Needs(name, what)
  BY DEF Making, Created, Needs

LEMMA NoThrow == ASSUME thrown' = NoSession PROVE ThrowHasCause'
  BY Zenon DEF ThrowHasCause, Running

(* A command begins: it has met with nothing yet.                           *)
LEMMA BeginHistory ==
  ASSUME IInv, History, NEW s \in Sessions, NEW p \in Path, NEW name \in Step,
         Begin(s), GoTo(s, name, p), Needs(name, tree[p]),
         name \in Making => name = "mkd_create" /\ tree[p] = "none"
  PROVE  History'
<1>1. /\ step' = [step EXCEPT ![s] = name] /\ target' = [target EXCEPT ![s] = p]
      /\ met' = [met EXCEPT ![s] = {}]
      /\ step \in [Sessions -> Step] /\ target \in [Sessions -> Path]
      /\ met \in [Sessions -> SUBSET (Sessions \cup {NoSession})]
      /\ Running /\ UNCHANGED <<tree, worker, removed, thrown, made>>
  BY DEF Begin, GoTo, setVars, IInv, TypeOK
<1>2. step'[s] = name /\ target'[s] = p /\ met'[s] = {}
  BY <1>1
<1>3. ASSUME NEW t \in Sessions \ {s}
      PROVE  step'[t] = step[t] /\ target'[t] = target[t] /\ met'[t] = met[t]
  BY <1>1
<1>4. WhatWasFound'
  <2>. SUFFICES ASSUME NEW t \in Sessions
                PROVE  NoSession \in met'[t] \/ Needs(step'[t], tree'[target'[t]])
    BY DEF WhatWasFound
  <2>. QED  BY <1>1, <1>2, <1>3 DEF History, WhatWasFound
<1>5. MetRemoval'
  BY <1>1, <1>2, <1>3 DEF History, MetRemoval
<1>6. MakersMeet'
  <2>. SUFFICES ASSUME NEW a \in Sessions, NEW b \in Sessions, a # b, step'[a] \in Making,
                       step'[b] \in Created, target'[a] = target'[b]
                PROVE  removed = TRUE \/ RacedBy(a, b)'
    BY <1>1 DEF MakersMeet
  <2>1. b # s /\ step[b] \in Created /\ target'[b] = target[b]
    BY <1>2, <1>3 DEF Created, Making
  <2>2. CASE a = s
    <3>1. tree[target[b]] = "none"
      BY <1>2, <2>1, <2>2
    <3>2. NoSession \in met[b]
      BY <2>1, <3>1 DEF History, WhatWasFound, Needs, Created
    <3>. QED  BY <3>2 DEF History, MetRemoval
  <2>3. CASE a # s
    <3>1. removed = TRUE \/ RacedBy(a, b)
      BY <1>3, <2>1, <2>3 DEF History, MakersMeet
    <3>. QED  BY <1>1, <1>3, <2>3, <3>1 DEF RacedBy
  <2>. QED  BY <2>2, <2>3
<1>7. MadeByOthers'
  <2>. SUFFICES ASSUME NEW a \in Sessions, step'[a] \in Making, NEW b \in made[target'[a]]
                PROVE  removed = TRUE \/ RacedBy(a, b)'
    BY <1>1 DEF MadeByOthers
  <2>1. a # s
    BY <1>2 DEF History, NothingMade
  <2>2. removed = TRUE \/ RacedBy(a, b)
    BY <1>3, <2>1 DEF History, MadeByOthers
  <2>. QED  BY <1>1, <1>3, <2>1, <2>2 DEF RacedBy
<1>8. NothingMade'
  BY <1>1 DEF History, NothingMade
<1>9. ThrowHasCause'
  BY <1>1, NoThrow DEF Running
<1>. QED  BY <1>4, <1>5, <1>6, <1>7, <1>8, <1>9 DEF History

LEMMA CommandHistory ==
  ASSUME IInv, History, NEW s \in Sessions,
         \/ \E p \in Path : Make(s, p) \/ Change(s, p) \/ Store(s, p)
         \/ CdToParent(s) \/ Size(s) \/ Retrieve(s)
  PROVE  History'
<1>1. PICK p \in Path, name \in Step :
        /\ Begin(s) /\ GoTo(s, name, p) /\ Needs(name, tree[p])
        /\ name \in Making => name = "mkd_create" /\ tree[p] = "none"
  <2>1. CASE \E p \in Path : Make(s, p)
    BY <2>1, PathFacts DEF Make, Check, Done, Step, Needs, Making
  <2>2. CASE \E p \in Path : Change(s, p)
    BY <2>2, PathFacts DEF Change, Check, Done, Step, Needs, Making
  <2>3. CASE \E p \in Path : Store(s, p)
    BY <2>3, PathFacts DEF Store, Check, Done, Step, Needs, Making
  <2>4. CASE CdToParent(s)
    <3>1. cwd[s] \in Path
      BY DEF IInv, TypeOK
    <3>. QED  BY <2>4, <3>1, PathFacts DEF CdToParent, Check, Done, Step, Needs, Making
  <2>5. CASE Size(s)
    BY <2>5, PathFacts DEF Size, Check, Done, Step, Needs, Making
  <2>6. CASE Retrieve(s)
    BY <2>6, PathFacts DEF Retrieve, Check, Done, Step, Needs, Making
  <2>. QED  BY <2>1, <2>2, <2>3, <2>4, <2>5, <2>6
<1>. QED  BY <1>1, BeginHistory

(* A command goes on or is answered, and the file system stays as it is.    *)
LEMMA GoOnHistory ==
  ASSUME IInv, History, NEW s \in Sessions, NEW p \in Path,
         NEW name \in {"none", "mkd_name", "retr_open"}, GoTo(s, name, p), Running,
         UNCHANGED <<tree, worker, removed, met, thrown>>,
         name = "mkd_name" => step[s] = "mkd_check" /\ p = target[s] /\ tree[p] = "dir",
         \/ made' = made
         \/ /\ step[s] = "mkd_name" /\ name = "none" /\ tree[target[s]] # "none"
            /\ made' = [made EXCEPT ![target[s]] = @ \cup {s}]
  PROVE  History'
<1>1. /\ step' = [step EXCEPT ![s] = name] /\ target' = [target EXCEPT ![s] = p]
      /\ step \in [Sessions -> Step] /\ target \in [Sessions -> Path]
      /\ made \in [Path -> SUBSET Sessions]
  BY DEF GoTo, IInv, TypeOK
<1>2. step'[s] = name /\ target'[s] = p
  BY <1>1
<1>3. ASSUME NEW t \in Sessions \ {s} PROVE step'[t] = step[t] /\ target'[t] = target[t]
  BY <1>1
<1>4. ASSUME NEW t \in Sessions
      PROVE  /\ step'[t] \in Making => step[t] \in Making /\ target'[t] = target[t]
             /\ step'[t] \in Created => step[t] \in Created /\ target'[t] = target[t]
  BY <1>2, <1>3 DEF Making, Created
<1>5. WhatWasFound'
  <2>. SUFFICES ASSUME NEW t \in Sessions
                PROVE  NoSession \in met'[t] \/ Needs(step'[t], tree'[target'[t]])
    BY DEF WhatWasFound
  <2>1. CASE t = s
    <3>1. CASE name = "mkd_name"
      BY <1>2, <2>1, <3>1 DEF Needs
    <3>2. CASE name # "mkd_name"
      BY <1>2, <2>1, <3>2, NoneNeeds
    <3>. QED  BY <3>1, <3>2
  <2>2. CASE t # s
    BY <1>3, <2>2 DEF History, WhatWasFound
  <2>. QED  BY <2>1, <2>2
<1>6. MetRemoval'
  BY DEF History, MetRemoval
<1>7. MakersMeet'
  <2>. SUFFICES ASSUME NEW a \in Sessions, NEW b \in Sessions, a # b, step'[a] \in Making,
                       step'[b] \in Created, target'[a] = target'[b]
                PROVE  removed = TRUE \/ RacedBy(a, b)'
    BY DEF MakersMeet
  <2>1. removed = TRUE \/ RacedBy(a, b)
    BY <1>4 DEF History, MakersMeet
  <2>. QED  BY <2>1 DEF RacedBy
<1>8. MadeByOthers'
  <2>. SUFFICES ASSUME NEW a \in Sessions, step'[a] \in Making, NEW b \in made'[target'[a]]
                PROVE  removed = TRUE \/ RacedBy(a, b)'
    BY DEF MadeByOthers
  <2>1. step[a] \in Making /\ target'[a] = target[a]
    BY <1>4
  <2>2. CASE b \in made[target[a]]
    BY <2>1, <2>2 DEF History, MadeByOthers, RacedBy
  <2>3. CASE b \notin made[target[a]]
    <3>1. b = s /\ target[a] = target[s] /\ step[s] \in Created /\ name = "none"
      BY <1>1, <2>1, <2>3 DEF Created
    <3>2. a # s
      BY <1>2, <3>1, NoneNeeds
    <3>3. removed = TRUE \/ RacedBy(a, s)
      BY <2>1, <3>1, <3>2 DEF History, MakersMeet
    <3>. QED  BY <3>1, <3>3 DEF RacedBy
  <2>. QED  BY <2>2, <2>3
<1>9. NothingMade'
  <2>. SUFFICES ASSUME NEW q \in Path, tree[q] = "none" PROVE made'[q] = {}
    BY DEF NothingMade
  <2>1. made[q] = {}
    BY DEF History, NothingMade
  <2>. QED  BY <1>1, <2>1
<1>10. ThrowHasCause'
  BY NoThrow DEF Running
<1>. QED  BY <1>5, <1>6, <1>7, <1>8, <1>9, <1>10 DEF History

LEMMA AskHistory ==
  ASSUME IInv, History, NEW s \in Sessions,
         CheckMade(s) \/ ReportMade(s) \/ Measure(s) \/ OpenToSend(s) \/ Enter(s) \/ EnterParent(s),
         ~ Throw(s)
  PROVE  History'
<1>1. target[s] \in Path /\ Root \in Path
  BY PathFacts DEF IInv, TypeOK
<1>2. Running /\ UNCHANGED <<tree, worker, removed, met, thrown>>
  BY DEF CheckMade, ReportMade, Measure, OpenToSend, Enter, EnterParent, At, setVars
<1>3. CASE CheckMade(s)
  <2>1. /\ made' = made
        /\ \/ GoTo(s, "mkd_name", target[s]) /\ step[s] = "mkd_check" /\ tree[target[s]] = "dir"
           \/ GoTo(s, "none", Root)
    BY <1>3 DEF CheckMade, At, Done
  <2>. QED  BY <1>1, <1>2, <2>1, GoOnHistory
<1>4. CASE ReportMade(s)
  <2>1. /\ step[s] = "mkd_name" /\ GoTo(s, "none", Root) /\ tree[target[s]] # "none"
        /\ made' = [made EXCEPT ![target[s]] = @ \cup {s}]
    BY <1>4 DEF ReportMade, At, Done
  <2>. QED  BY <1>1, <1>2, <2>1, GoOnHistory
<1>5. CASE Measure(s) \/ OpenToSend(s) \/ Enter(s) \/ EnterParent(s)
  <2>1. /\ made' = made
        /\ GoTo(s, "retr_open", target[s]) \/ GoTo(s, "none", Root)
    BY <1>5 DEF Measure, OpenToSend, Enter, EnterParent, Done
  <2>. QED  BY <1>1, <1>2, <2>1, GoOnHistory
<1>. QED  BY <1>3, <1>4, <1>5

(* MKD and STOR make what their path leads to, and others meet with it.     *)
LEMMA WriteHistory ==
  ASSUME IInv, History, NEW s \in Sessions, Create(s) \/ OpenToStore(s), ~ Throw(s)
  PROVE  History'
<1>. DEFINE p == target[s]
<1>1. /\ p \in Path /\ tree \in [Path -> {"none", "dir", "file"}] /\ s # NoSession
      /\ step \in [Sessions -> Step] /\ target \in [Sessions -> Path] /\ TypeOK
  BY FilesAssumption DEF IInv, TypeOK
<1>2. Running /\ step[s] # "none" /\ UNCHANGED <<worker, removed, thrown, made>>
  BY DEF Create, OpenToStore, At, setVars
<1>3. /\ \/ step[s] = "mkd_create" /\ GoTo(s, "mkd_check", p) /\ tree'[p] = "dir" /\ Meet(p, s)
         \/ GoTo(s, "none", Root)
      /\ Meet(p, s) \/ met' = met
  BY <1>1 DEF Create, OpenToStore, At, Done
<1>4. ASSUME NEW q \in Path PROVE tree'[q] = tree[q] \/ tree[q] = "none"
  BY <1>1 DEF Create, OpenToStore
<1>5. ASSUME NEW t \in Sessions
      PROVE  /\ t # s => step'[t] = step[t] /\ target'[t] = target[t]
             /\ met[t] \subseteq met'[t] /\ met'[t] \subseteq met[t] \cup {s}
  BY <1>1, <1>3, MeetFacts DEF GoTo
<1>6. \/ step'[s] = "mkd_check" /\ target'[s] = p /\ step[s] \in Making
      \/ step'[s] = "none"
  BY <1>1, <1>3 DEF GoTo, Making
<1>7. WhatWasFound'
  <2>. SUFFICES ASSUME NEW t \in Sessions, NoSession \notin met'[t]
                PROVE  Needs(step'[t], tree'[target'[t]])
    BY DEF WhatWasFound
  <2>1. CASE t = s
    <3>1. (step'[s] = "mkd_check" /\ target'[s] = p /\ tree'[p] = "dir") \/ step'[s] = "none"
      BY <1>1, <1>3 DEF GoTo
    <3>2. Needs("mkd_check", "dir")
      BY DEF Needs
    <3>. QED  BY <2>1, <3>1, <3>2, NoneNeeds
  <2>2. CASE t # s
    <3>1. Needs(step[t], tree[target[t]]) /\ target[t] \in Path
      BY <1>1, <1>5 DEF History, WhatWasFound
    <3>. QED  BY <1>4, <1>5, <2>2, <3>1, NoneNeeds
  <2>. QED  BY <2>1, <2>2
<1>8. MetRemoval'
  BY <1>1, <1>2, <1>5 DEF History, MetRemoval
<1>9. ASSUME NEW a \in Sessions, NEW b, removed = TRUE \/ RacedBy(a, b)
      PROVE  removed = TRUE \/ RacedBy(a, b)'
  BY <1>2, <1>5, <1>9 DEF RacedBy
<1>10. MakersMeet'
  <2>. SUFFICES ASSUME NEW a \in Sessions, NEW b \in Sessions, a # b, step'[a] \in Making,
                       step'[b] \in Created, target'[a] = target'[b]
                PROVE  removed = TRUE \/ RacedBy(a, b)'
    BY <1>2 DEF MakersMeet
  <2>1. step[a] \in Making /\ target'[a] = target[a]
    BY <1>5, <1>6, NoneNeeds
  <2>2. CASE b = s
    <3>1. step'[s] = "mkd_check" /\ Meet(p, s) /\ target[a] = p /\ a # s
      BY <1>1, <1>3, <2>1, <2>2, NoneNeeds DEF GoTo
    <3>2. step[a] # "none"
      BY <2>1, NoneNeeds
    <3>3. s \in met'[a]
      BY <1>1, <3>1, <3>2, MeetFacts
    <3>4. worker[s] # worker[a]
      BY <1>2, <3>1, <3>2 DEF IInv, OnePerWorker
    <3>. QED  BY <1>1, <1>2, <2>2, <3>3, <3>4 DEF RacedBy
  <2>3. CASE b # s
    <3>1. removed = TRUE \/ RacedBy(a, b)
      BY <1>5, <2>1, <2>3 DEF History, MakersMeet
    <3>. QED  BY <3>1, <1>9
  <2>. QED  BY <2>2, <2>3
<1>11. MadeByOthers'
  <2>. SUFFICES ASSUME NEW a \in Sessions, step'[a] \in Making, NEW b \in made[target'[a]]
                PROVE  removed = TRUE \/ RacedBy(a, b)'
    BY <1>2 DEF MadeByOthers
  <2>1. step[a] \in Making /\ target'[a] = target[a]
    BY <1>5, <1>6, NoneNeeds
  <2>2. removed = TRUE \/ RacedBy(a, b)
    BY <2>1 DEF History, MadeByOthers
  <2>. QED  BY <2>2, <1>9
<1>12. NothingMade'
  BY <1>2, <1>4 DEF History, NothingMade
<1>13. ThrowHasCause'
  BY <1>2, NoThrow DEF Running
<1>. QED  BY <1>7, <1>8, <1>10, <1>11, <1>12, <1>13 DEF History

(* A removal takes with it what is said of the path.                        *)
LEMMA RemoveHistory == ASSUME IInv, History, Remove PROVE History'
<1>1. PICK p \in Path :
        /\ tree' = [tree EXCEPT ![p] = "none"] /\ made' = [made EXCEPT ![p] = {}]
        /\ Meet(p, NoSession)
  BY DEF Remove
<1>2. removed' = TRUE /\ thrown' = NoSession /\ UNCHANGED <<step, target, worker>>
  BY DEF Remove, Running, setVars
<1>3. /\ tree \in [Path -> {"none", "dir", "file"}] /\ made \in [Path -> SUBSET Sessions]
      /\ target \in [Sessions -> Path] /\ NoSession \notin Sessions /\ TypeOK
  BY FilesAssumption DEF IInv, TypeOK
<1>4. MetRemoval' /\ MakersMeet' /\ MadeByOthers'
  BY <1>2 DEF MetRemoval, MakersMeet, MadeByOthers
<1>5. NothingMade'
  BY <1>1, <1>3 DEF History, NothingMade
<1>6. WhatWasFound'
  <2>. SUFFICES ASSUME NEW t \in Sessions, NoSession \notin met'[t]
                PROVE  Needs(step[t], tree'[target[t]])
    BY <1>2 DEF WhatWasFound
  <2>1. NoSession \notin met[t] /\ (step[t] = "none" \/ target[t] # p)
    BY <1>1, <1>3, MeetFacts
  <2>2. CASE step[t] = "none"
    BY <2>2, NoneNeeds
  <2>3. CASE target[t] # p
    BY <1>1, <1>3, <2>1, <2>3 DEF History, WhatWasFound
  <2>. QED  BY <2>1, <2>2, <2>3
<1>. QED  BY <1>2, <1>4, <1>5, <1>6, NoThrow DEF History

(* A call that throws has found what is not so any more, or what only a     *)
(* second look would have shown.                                            *)
LEMMA ThrowHistory ==
  ASSUME IInv, History, NEW s \in Sessions, Throw(s),
         Create(s) \/ ReportMade(s) \/ Measure(s) \/ Enter(s) \/ EnterParent(s)
  PROVE  History'
<1>1. thrown' = s /\ UNCHANGED <<tree, worker, step, target, author, made, removed, met>>
  BY DEF Throw, setVars
<1>2. WhatWasFound' /\ MetRemoval' /\ MakersMeet' /\ MadeByOthers' /\ NothingMade'
  BY <1>1
     DEF History, WhatWasFound, MetRemoval, MakersMeet, MadeByOthers, NothingMade, RacedBy
<1>3. tree[target[s]] \in {"none", "dir", "file"}
  BY DEF IInv, TypeOK
<1>4. \/ NoSession \in met[s]
      \/ step[s] = "retr_measure" /\ tree[target[s]] = "dir"
      \/ /\ step[s] = "mkd_create"
         /\ \/ tree[Parent(target[s])] # "dir"
            \/ tree[target[s]] = "file" /\ RacedBy(s, author[target[s]])
  <2>1. NoSession \in met[s] \/ Needs(step[s], tree[target[s]])
    BY DEF History, WhatWasFound
  <2>2. thrown # thrown'
    BY <1>1, FilesAssumption DEF Create, ReportMade, Measure, Enter, EnterParent, At, Running
  <2>3. CASE Create(s)
    <3>1. step[s] = "mkd_create"
      BY <2>3 DEF Create, At
    <3>2. tree[target[s]] = "file" \/ tree[Parent(target[s])] # "dir"
      BY <2>2, <2>3 DEF Create
    <3>. QED  BY <3>1, <3>2 DEF IInv, NothingFound, FoundNothing
  <2>4. CASE ReportMade(s) \/ Enter(s) \/ EnterParent(s)
    BY <2>1, <2>2, <2>4 DEF ReportMade, Enter, EnterParent, At, Needs
  <2>5. CASE Measure(s)
    BY <1>3, <2>1, <2>2, <2>5 DEF Measure, Needs
  <2>. QED  BY <2>3, <2>4, <2>5
<1>5. ThrowHasCause'
  BY <1>1, <1>4 DEF ThrowHasCause, RacedBy
<1>. QED  BY <1>2, <1>5 DEF History

LEMMA NextHistory == IInv /\ History /\ [Next]_vars => History'
<1>. SUFFICES ASSUME IInv, History, [Next]_vars PROVE History'
  OBVIOUS
<1>1. ASSUME NEW s \in Sessions, MakeDirectory(s) PROVE History'
  <2>1. CASE Throw(s)
    <3>1. (\E p \in Path : Make(s, p)) \/ Create(s) \/ ReportMade(s) \/ (CheckMade(s) /\ thrown' = thrown)
      BY <1>1 DEF MakeDirectory, CheckMade
    <3>2. CASE CheckMade(s) /\ thrown' = thrown
      BY <2>1, <3>2, FilesAssumption DEF CheckMade, At, Running, Throw
    <3>. QED  BY <2>1, <3>1, <3>2, CommandHistory, ThrowHistory
  <2>2. CASE ~ Throw(s)
    BY <1>1, <2>2, CommandHistory, AskHistory, WriteHistory DEF MakeDirectory
  <2>. QED  BY <2>1, <2>2
<1>2. ASSUME NEW s \in Sessions, ChangeWorkingDir(s) PROVE History'
  BY <1>2, CommandHistory DEF ChangeWorkingDir
<1>3. ASSUME NEW s \in Sessions, CdToParent(s) \/ Size(s) \/ Retrieve(s) PROVE History'
  BY <1>3, CommandHistory
<1>4. ASSUME NEW s \in Sessions, Enter(s) \/ EnterParent(s) \/ Measure(s) PROVE History'
  BY <1>4, AskHistory, ThrowHistory
<1>5. ASSUME NEW s \in Sessions, OpenToSend(s) PROVE History'
  <2>1. ~ Throw(s)
    BY <1>5, FilesAssumption DEF OpenToSend, At, Running, Throw
  <2>. QED  BY <1>5, <2>1, AskHistory
<1>6. ASSUME NEW s \in Sessions, StoreFile(s) PROVE History'
  <2>1. CASE OpenToStore(s)
    <3>1. ~ Throw(s)
      BY <2>1, FilesAssumption DEF OpenToStore, At, Running, Throw
    <3>. QED  BY <2>1, <3>1, WriteHistory
  <2>. QED  BY <1>6, <2>1, CommandHistory DEF StoreFile
<1>7. CASE Remove
  BY <1>7, RemoveHistory
<1>8. CASE UNCHANGED vars
  <2>1. UNCHANGED <<tree, worker, step, target, author, made, removed, met, thrown>>
    BY <1>8 DEF vars, setVars
  <2>. QED
    BY <2>1
       DEF History, WhatWasFound, MetRemoval, MakersMeet, MadeByOthers, NothingMade, RacedBy,
           ThrowHasCause, Running
<1>. QED  BY <1>1, <1>2, <1>3, <1>4, <1>5, <1>6, <1>7, <1>8 DEF Next

(* Only the 257 of a MKD, and a removal, change who made a directory.       *)
LEMMA MadeChanges ==
  [Next]_vars => made' = made \/ Remove \/ \E t \in Sessions : ReportMade(t)
<1>. SUFFICES ASSUME [Next]_vars, ~ Remove, ~ \E t \in Sessions : ReportMade(t)
              PROVE  made' = made
  OBVIOUS
<1>1. ASSUME NEW s, Begin(s) \/ Throw(s) PROVE made' = made
  BY <1>1 DEF Begin, Throw
<1>2. ASSUME NEW s \in Sessions, MakeDirectory(s) PROVE made' = made
  BY <1>1, <1>2 DEF MakeDirectory, Make, Check, Create, CheckMade
<1>3. ASSUME NEW s \in Sessions, ChangeWorkingDir(s) \/ CdToParent(s) PROVE made' = made
  BY <1>1, <1>3 DEF ChangeWorkingDir, Change, CdToParent, Check
<1>4. ASSUME NEW s \in Sessions, Enter(s) \/ EnterParent(s) PROVE made' = made
  BY <1>1, <1>4 DEF Enter, EnterParent
<1>5. ASSUME NEW s \in Sessions, Size(s) \/ Retrieve(s) PROVE made' = made
  BY <1>1, <1>5 DEF Size, Retrieve, Check
<1>6. ASSUME NEW s \in Sessions, Measure(s) \/ OpenToSend(s) PROVE made' = made
  BY <1>1, <1>6 DEF Measure, OpenToSend
<1>7. ASSUME NEW s \in Sessions, StoreFile(s) PROVE made' = made
  BY <1>1, <1>7 DEF StoreFile, Store, Check, OpenToStore
<1>8. CASE UNCHANGED vars
  BY <1>8 DEF vars
<1>. QED  BY <1>2, <1>3, <1>4, <1>5, <1>6, <1>7, <1>8 DEF Next

(* Two sessions are told that they made the same directory only if one came *)
(* from another worker between the calls of the other (create_dir_op.cc),   *)
(* or if the directory was removed in the meantime.                         *)
THEOREM MadeOnceCorrect == Spec => MadeOnce
<1>1. ASSUME IInv, History, [Next]_vars
      PROVE  [\A p \in Path : \A s \in made'[p] \ made[p], t \in made[p] :
                removed \/ RacedBy(s, t)]_vars
  <2>. SUFFICES ASSUME NEW p \in Path, NEW s \in made'[p] \ made[p], NEW t \in made[p]
                PROVE  removed = TRUE \/ RacedBy(s, t)
    OBVIOUS
  <2>1. made \in [Path -> SUBSET Sessions]
    BY <1>1 DEF IInv, TypeOK
  <2>2. CASE \E u \in Sessions : ReportMade(u)
    <3>1. PICK u \in Sessions : ReportMade(u)
      BY <2>2
    <3>2. /\ step[u] = "mkd_name"
          /\ made' = made \/ made' = [made EXCEPT ![target[u]] = @ \cup {u}]
      BY <3>1 DEF ReportMade, At, Throw
    <3>3. u = s /\ p = target[u] /\ step[u] \in Making
      BY <2>1, <3>2 DEF Making
    <3>. QED  BY <1>1, <3>3 DEF History, MadeByOthers
  <2>3. CASE Remove
    <3>1. PICK q \in Path : made' = [made EXCEPT ![q] = {}]
      BY <2>3 DEF Remove
    <3>. QED  BY <2>1, <3>1
  <2>. QED  BY <1>1, <2>2, <2>3, MadeChanges
<1>. QED  BY <1>1, InitFiles, NextFiles, InitHistory, NextHistory, PTL DEF Spec, MadeOnce

(* A command on the file system ends the process only by MKD in a directory *)
(* that is not there, by RETR of a directory, by the removal of what it had *)
(* found, or, MKD, by a STOR of another worker between its calls            *)
(* (create_dir_op.cc, change_working_dir_op.cc, cd_to_parent.cc, size_op.cc,*)
(* send_file_op.cc).                                                        *)
THEOREM ThrowHasCauseCorrect == Spec => []ThrowHasCause
<1>1. History => ThrowHasCause
  BY DEF History
<1>. QED  BY <1>1, InitFiles, NextFiles, InitHistory, NextHistory, PTL DEF Spec
=============================================================================
