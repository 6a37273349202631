----------------------------- MODULE PartsProofs -----------------------------
(***************************************************************************)
(* Theorems about the smaller parts of the server, each for its own        *)
(* specification and every value of its constants: Listing, Startup,       *)
(* PassivePort and Requests.                                               *)
(***************************************************************************)
EXTENDS MCParts, TLAPS, WellFoundedInduction, SequenceTheorems

-----------------------------------------------------------------------------
(* Listing.                                                                 *)

Times == Entries \cup {List!Epoch}

Dates == [day : Times, hour : Times]

(* The time of the entry a worker is at, or of one that is gone.            *)
Own(w) == {entry[w]} \cup (IF List!Gone(w) THEN {List!Epoch} ELSE {})

ListTypes ==
  /\ step \in [Workers -> {"idle", "entry", "hard_link_count", "is_regular_file", "file_size",
                           "stat", "localtime", "filling", "day", "hour"}]
  /\ todo \in [Workers -> SUBSET Entries]
  /\ entry \in [Workers -> Entries \cup {List!Nothing}]
  /\ mtime \in [Workers -> Times]
  /\ line \in [Workers -> Dates]
  /\ tm \in Dates
  /\ disturbed \in [Workers -> BOOLEAN]
  /\ present \subseteq Entries

(* Who fills the object has it alone until localtime returns.               *)
Alone ==
  \A w \in Workers : step[w] = "filling" =>
    ~ disturbed[w] /\ \A v \in Workers : v # w => disturbed[v]

(* From stat to the last field the time is the entry's own, and so is what  *)
(* was taken from the object while nobody else asked for a time.            *)
TimeSoFar(w) ==
  /\ step[w] = "idle" => entry[w] = List!Nothing
  /\ step[w] \notin {"idle", "entry"} => entry[w] \in Entries
  /\ step[w] \in {"localtime", "filling", "day", "hour"} => mtime[w] \in Own(w)
  /\ step[w] = "filling" => tm.day = mtime[w]
  /\ step[w] \in {"day", "hour"} /\ ~ disturbed[w] => tm.day = mtime[w] /\ tm.hour = mtime[w]
  /\ step[w] = "hour" /\ ~ disturbed[w] => line[w].day = mtime[w]
  /\ List!Written(w) => line[w].day = line[w].hour /\ line[w].day \in Own(w)

ListInv == ListTypes /\ Alone /\ \A w \in Workers : TimeSoFar(w)

LEMMA ListInitInv == List!Init => ListInv
  BY DEF List!Init, List!Written, List!Epoch, List!Nothing, ListInv, ListTypes, Alone, TimeSoFar,
         Times, Dates

(* What belongs to one worker.                                              *)
SameWork(w) ==
  /\ step'[w] = step[w] /\ entry'[w] = entry[w] /\ mtime'[w] = mtime[w] /\ line'[w] = line[w]
  /\ disturbed'[w] = disturbed[w]

(* A worker whose state stays the same keeps what it has, if the object     *)
(* does or it was disturbed.                                                *)
LEMMA SameWorker ==
  ASSUME NEW w \in Workers, TimeSoFar(w), SameWork(w), present' \subseteq present,
         tm' = tm \/ (disturbed[w] /\ step[w] # "filling")
  PROVE  TimeSoFar(w)'
  BY DEF TimeSoFar, SameWork, Own, List!Gone, List!Written

(* A step of one worker that leaves the object alone.                       *)
LEMMA OneWorker ==
  ASSUME ListInv, ListTypes', Alone', NEW w \in Workers,
         \A v \in Workers : v # w => SameWork(v),
         present' = present, tm' = tm, TimeSoFar(w)'
  PROVE  ListInv'
<1>1. ASSUME NEW v \in Workers PROVE TimeSoFar(v)'
  <2>1. CASE v = w
    BY <2>1
  <2>2. CASE v # w
    BY <2>2, SameWorker DEF ListInv
  <2>. QED  BY <2>1, <2>2
<1>. QED  BY <1>1 DEF ListInv

(* A step that neither fills the object nor writes from it.                 *)
LEMMA CallInv ==
  ASSUME ListInv, NEW w \in Workers,
         \/ List!Begin(w) \/ List!NextEntry(w) \/ List!HardLinkCount(w)
         \/ List!IsRegularFile(w) \/ List!FileSize(w) \/ List!Stat(w)
  PROVE  ListInv'
<1>. USE DEF ListInv, List!At, List!Go, List!Throw, List!workVars
<1>1. ListTypes'
  <2>1. CASE List!Begin(w)
    BY <2>1 DEF ListTypes, List!Begin
  <2>2. CASE List!NextEntry(w)
    BY <2>2 DEF ListTypes, List!NextEntry
  <2>3. CASE List!HardLinkCount(w) \/ List!FileSize(w)
    BY <2>3 DEF ListTypes, List!HardLinkCount, List!FileSize
  <2>4. CASE List!IsRegularFile(w)
    BY <2>4 DEF ListTypes, List!IsRegularFile
  <2>5. CASE List!Stat(w)
    <3>1. List!Time(w) \in Times
      BY <2>5 DEF TimeSoFar, List!Time, List!Stat, Times
    <3>. QED  BY <2>5, <3>1 DEF ListTypes, List!Stat
  <2>. QED  BY <2>1, <2>2, <2>3, <2>4, <2>5
<1>2. /\ \A v \in Workers : v # w => SameWork(v)
      /\ \A v \in Workers : step'[v] = "filling" => step[v] = "filling"
      /\ UNCHANGED <<present, tm, disturbed>>
  BY DEF ListTypes, SameWork, List!Begin, List!NextEntry, List!HardLinkCount,
         List!IsRegularFile, List!FileSize, List!Stat
<1>3. Alone'
  BY <1>2 DEF Alone
<1>4. TimeSoFar(w)'
  <2>. USE DEF TimeSoFar, ListTypes, Own, List!Gone, List!Written
  <2>1. CASE List!Begin(w)
    BY <2>1 DEF List!Begin
  <2>2. CASE List!NextEntry(w)
    BY <2>2 DEF List!NextEntry
  <2>3. CASE List!HardLinkCount(w)
    BY <2>3 DEF List!HardLinkCount
  <2>4. CASE List!FileSize(w)
    BY <2>4 DEF List!FileSize
  <2>5. CASE List!IsRegularFile(w)
    BY <2>5 DEF List!IsRegularFile
  <2>6. CASE List!Stat(w)
    BY <2>6 DEF List!Stat, List!Time
  <2>. QED  BY <2>1, <2>2, <2>3, <2>4, <2>5, <2>6
<1>. QED  BY <1>1, <1>2, <1>3, <1>4, OneWorker

(* The object is filled, and the fields of the line are written from it.    *)
LEMMA FillInv ==
  ASSUME ListInv, NEW w \in Workers,
         \/ List!Localtime(w) \/ List!LocaltimeReturns(w) \/ List!WriteDay(w) \/ List!WriteHour(w)
  PROVE  ListInv'
<1>. USE DEF ListInv, List!At, List!Go, List!workVars
<1>1. CASE List!Localtime(w)
  <2>. USE <1>1 DEF List!Localtime
  <2>1. ListTypes'
    BY DEF ListTypes, Dates
  <2>2. /\ \A v \in Workers : v # w => step'[v] = step[v] /\ disturbed'[v] /\ step[v] # "filling"
        /\ step'[w] = "filling" /\ ~ disturbed'[w] /\ tm'.day = mtime[w]
    BY DEF ListTypes, Dates
  <2>3. Alone'
    BY <2>2 DEF Alone
  <2>4. ASSUME NEW v \in Workers PROVE TimeSoFar(v)'
    BY <2>2 DEF TimeSoFar, Own, List!Gone, List!Written
  <2>. QED  BY <2>1, <2>3, <2>4
<1>2. CASE List!LocaltimeReturns(w)
  <2>. USE <1>2 DEF List!LocaltimeReturns
  <2>1. ListTypes'
    BY DEF ListTypes, Dates
  <2>2. /\ step'[w] = "day" /\ tm'.day = tm.day /\ tm'.hour = mtime[w]
        /\ \A v \in Workers : v # w => SameWork(v) /\ disturbed[v] /\ step[v] # "filling"
    BY DEF ListTypes, Dates, SameWork, Alone
  <2>3. Alone'
    BY <2>2 DEF Alone, SameWork
  <2>4. ASSUME NEW v \in Workers, v # w PROVE TimeSoFar(v)'
    BY <2>2, <2>4, SameWorker
  <2>5. TimeSoFar(w)'
    BY <2>2 DEF TimeSoFar, Own, List!Gone, List!Written
  <2>. QED  BY <2>1, <2>3, <2>4, <2>5
<1>3. CASE List!WriteDay(w) \/ List!WriteHour(w)
  <2>. USE <1>3 DEF List!WriteDay, List!WriteHour
  <2>1. ListTypes'
    <3>1. line[w] \in Dates /\ tm \in Dates
      BY DEF ListTypes
    <3>2. [line[w] EXCEPT !.day = tm.day] \in Dates /\ [line[w] EXCEPT !.hour = tm.hour] \in Dates
      BY <3>1 DEF Dates
    <3>3. line' \in [Workers -> Dates]
      BY <3>2 DEF ListTypes
    <3>. QED  BY <3>3 DEF ListTypes
  <2>2. /\ \A v \in Workers : v # w => SameWork(v)
        /\ \A v \in Workers : step'[v] = "filling" => step[v] = "filling"
    BY DEF ListTypes, SameWork
  <2>3. Alone'
    BY <2>2 DEF Alone
  <2>4. TimeSoFar(w)'
    BY DEF TimeSoFar, ListTypes, Dates, Own, List!Gone, List!Written
  <2>. QED  BY <2>1, <2>2, <2>3, <2>4, OneWorker
<1>. QED  BY <1>1, <1>2, <1>3

LEMMA ListStepInv == ListInv /\ [List!Next]_(List!vars) => ListInv'
<1>. SUFFICES ASSUME ListInv, [List!Next]_(List!vars) PROVE ListInv'
  OBVIOUS
<1>1. ASSUME NEW w \in Workers, List!Work(w) PROVE ListInv'
  BY <1>1, CallInv, FillInv DEF List!Work
<1>2. ASSUME List!Remove \/ UNCHANGED List!vars PROVE ListInv'
  <2>1. present' \subseteq present /\ tm' = tm /\ \A w \in Workers : SameWork(w)
    BY <1>2 DEF List!Remove, List!vars, List!workVars, SameWork
  <2>2. ListTypes' /\ Alone'
    BY <1>2 DEF ListInv, ListTypes, Alone, List!Remove, List!vars, List!workVars
  <2>3. \A w \in Workers : TimeSoFar(w)'
    BY <2>1, SameWorker DEF ListInv
  <2>. QED  BY <2>2, <2>3 DEF ListInv
<1>. QED  BY <1>1, <1>2 DEF List!Next

(* list_file: a line of LIST shows the time of its own file, or the epoch   *)
(* for one that is gone, unless another worker asked for a time between     *)
(* localtime and the last field -- whatever was removed and listed before.  *)
THEOREM TimeIsOwnCorrect == List!Spec => []TimeIsOwn
<1>1. ListInv => TimeIsOwn
  BY DEF ListInv, TimeSoFar, TimeIsOwn, List!TimeIsOwn, Own
<1>. QED  BY <1>1, ListInitInv, ListStepInv, PTL DEF List!Spec

-----------------------------------------------------------------------------
(* Startup.                                                                 *)

(* Only after its threads were started has anybody read the settings, and   *)
(* then they and the registry are what was read.                            *)
ReadLate ==
  /\ seen = [w \in Workers |-> seen[w]]
  /\ \A w \in Workers : seen[w] # Start!Unread =>
       main = "serve" /\ settings = seen[w].settings /\ registry = seen[w].registry

LEMMA StartInitInv == Start!Init => ReadLate
  BY DEF Start!Init, ReadLate

(* What main does while it still is on its way to serve.                    *)
LEMMA MainMoves ==
  ASSUME Start!Main
  PROVE  main # "serve" /\ UNCHANGED seen
  BY DEF Start!Main, Start!RegistAllOperation, Start!OpenFile, Start!ConstructServer

LEMMA StartStepInv == ReadLate /\ [Start!Next]_(Start!vars) => ReadLate'
<1>. SUFFICES ASSUME ReadLate, [Start!Next]_(Start!vars) PROVE ReadLate'
  OBVIOUS
<1>1. CASE Start!Main
  BY <1>1, MainMoves DEF ReadLate
<1>2. ASSUME NEW w \in Workers, Start!BeginSession(w) PROVE ReadLate'
  <2>. DEFINE r == [settings |-> settings, registry |-> registry]
  <2>1. main = "serve" /\ UNCHANGED <<settings, registry, main>> /\ seen' = [seen EXCEPT ![w] = r]
    BY <1>2 DEF Start!BeginSession, Start!Serving
  <2>2. r.settings = settings /\ r.registry = registry
    OBVIOUS
  <2>. HIDE DEF r
  <2>3. seen' = [v \in Workers |-> IF v = w THEN r ELSE seen[v]]
    BY <2>1 DEF ReadLate
  <2>. QED  BY <2>1, <2>2, <2>3 DEF ReadLate
<1>3. CASE UNCHANGED Start!vars
  BY <1>3 DEF Start!vars, ReadLate
<1>. QED  BY <1>1, <1>2, <1>3 DEF Start!Next

(* main: the server is constructed last, so nobody changes the settings or  *)
(* fills the registry after a thread has read them.                         *)
THEOREM ReadIsFinalCorrect == Start!Spec => ReadIsFinal
<1>1. ASSUME ReadLate, [Start!Next]_(Start!vars), NEW w \in Workers, seen[w] # Start!Unread
      PROVE  settings' = seen[w].settings /\ registry' = seen[w].registry
  <2>1. main = "serve" /\ settings = seen[w].settings /\ registry = seen[w].registry
    BY <1>1 DEF ReadLate
  <2>2. UNCHANGED <<settings, registry>>
    BY <1>1, <2>1, MainMoves DEF Start!Next, Start!BeginSession, Start!vars
  <2>. QED  BY <2>1, <2>2
<1>2. ASSUME ReadLate, [Start!Next]_(Start!vars)
      PROVE  [\A w \in Workers : seen[w] # Start!Unread =>
                settings' = seen[w].settings /\ registry' = seen[w].registry]_(Start!vars)
  BY <1>1, <1>2
<1>. QED  BY <1>2, StartInitInv, StartStepInv, PTL DEF Start!Spec, ReadIsFinal, Start!ReadIsFinal

-----------------------------------------------------------------------------
(* Induction over the natural numbers, for a set: there is no least number  *)
(* outside it.                                                              *)
LEMMA NatWellFounded ==
  \E R : IsWellFoundedOn(R, Nat) /\ \A x, y \in Nat : y < x => <<y, x>> \in R
<1>. DEFINE R == OpToRel(<, Nat)
<1>1. \A x, y \in Nat : y < x => <<y, x>> \in R
  BY DEF OpToRel
<1>2. IsWellFoundedOn(R, Nat)
  BY NatLessThanWellFounded
<1>. HIDE DEF R
<1>. QED  BY <1>1, <1>2

LEMMA Induction ==
  ASSUME NEW S, 0 \in S, \A n \in Nat : n \in S => n + 1 \in S
  PROVE  Nat \subseteq S
<1>. DEFINE T == Nat \ S
<1>. SUFFICES ASSUME T # {} PROVE FALSE
  OBVIOUS
<1>2. PICK R : IsWellFoundedOn(R, Nat) /\ \A x, y \in Nat : y < x => <<y, x>> \in R
  BY NatWellFounded
<1>3. T \subseteq Nat
  OBVIOUS
<1>4. PICK x \in T : \A y \in T : ~ (<<y, x>> \in R)
  <2>. HIDE DEF T
  <2>. QED  BY <1>2, <1>3, WFMin
<1>5. \A y \in T : ~ (y < x)
  BY <1>2, <1>3, <1>4
<1>. QED  BY <1>5

-----------------------------------------------------------------------------
(* PassivePort: split_string.                                               *)

(* One more character.                                                      *)
Split(fields, x) ==
  IF x = Port!Comma THEN Append(fields, <<>>)
  ELSE [fields EXCEPT ![Len(fields)] = Append(@, x)]

(* The fields after each of the first n characters.                         *)
Splits(s, n, text) ==
  s = [i \in 0 .. n |-> IF i = 0 THEN << <<>> >> ELSE Split(s[i - 1], text[i])]

Stepwise(s, n, text) ==
  s[0] = << <<>> >> /\ \A i \in 1 .. n : s[i] = Split(s[i - 1], text[i])

LEMMA SplitsStep ==
  ASSUME NEW s, NEW n \in Nat, NEW text, Splits(s, n, text)
  PROVE  Stepwise(s, n, text)
<1>. DEFINE e(i) == IF i = 0 THEN << <<>> >> ELSE Split(s[i - 1], text[i])
<1>1. s = [i \in 0 .. n |-> e(i)]
  BY DEF Splits
<1>2. \A i \in 0 .. n : s[i] = e(i)
  <2>. HIDE DEF e
  <2>. QED  BY <1>1
<1>3. 0 \in 0 .. n /\ \A i \in 1 .. n : i \in 0 .. n /\ i # 0
  OBVIOUS
<1>. QED  BY <1>2, <1>3 DEF Stepwise

LEMMA SplitsExist ==
  ASSUME NEW text
  PROVE  \A n \in Nat : \E s : Splits(s, n, text)
<1>. DEFINE S == {n \in Nat : \E s : Splits(s, n, text)}
<1>1. 0 \in S
  <2>. DEFINE s == [i \in 0 .. 0 |-> << <<>> >>]
  <2>1. \A i \in 0 .. 0 : i = 0
    OBVIOUS
  <2>2. Splits(s, 0, text)
    BY <2>1 DEF Splits
  <2>. QED  BY <2>2
<1>2. ASSUME NEW n \in Nat, n \in S PROVE n + 1 \in S
  <2>1. PICK s : Splits(s, n, text)
    BY <1>2
  <2>0. s[0] = << <<>> >> /\ \A i \in 1 .. n : s[i] = Split(s[i - 1], text[i])
    BY <2>1, SplitsStep DEF Stepwise
  <2>. DEFINE r == [i \in 0 .. n + 1 |-> IF i <= n THEN s[i] ELSE Split(s[n], text[n + 1])]
  <2>2. /\ \A i \in 0 .. n : r[i] = s[i]
        /\ r[n + 1] = Split(s[n], text[n + 1])
    OBVIOUS
  <2>3. ASSUME NEW i \in 0 .. n + 1
        PROVE  r[i] = IF i = 0 THEN << <<>> >> ELSE Split(r[i - 1], text[i])
    <3>1. CASE i = n + 1
      <4>1. n \in 0 .. n /\ i - 1 = n /\ i # 0
        BY <3>1
      <4>2. r[i - 1] = s[n] /\ r[i] = Split(s[n], text[i])
        BY <2>2, <3>1, <4>1
      <4>. QED  BY <4>1, <4>2
    <3>2. CASE i = 0
      BY <2>0, <2>2, <3>2
    <3>3. CASE i \in 1 .. n
      <4>1. i \in 0 .. n /\ i - 1 \in 0 .. n /\ i # 0
        BY <3>3
      <4>2. r[i - 1] = s[i - 1] /\ r[i] = s[i]
        BY <2>2, <4>1
      <4>3. s[i] = Split(s[i - 1], text[i])
        BY <2>0, <3>3
      <4>. QED  BY <4>1, <4>2, <4>3
    <3>. QED  BY <2>3, <3>1, <3>2, <3>3
  <2>4. r = [i \in 0 .. n + 1 |-> r[i]]
    OBVIOUS
  <2>. HIDE DEF r
  <2>5. Splits(r, n + 1, text)
    BY <2>3, <2>4 DEF Splits
  <2>. QED  BY <2>5
<1>3. Nat \subseteq S
  <2>. HIDE DEF S
  <2>. QED  BY <1>1, <1>2, Induction
<1>. QED  BY <1>3

(* What split_string does with one more character.                          *)
LEMMA SplitString ==
  ASSUME NEW text, Len(text) \in Nat
  PROVE  \E s : Splits(s, Len(text), text) /\ Port!split_string(text) = s[Len(text)]
<1>. DEFINE s == CHOOSE s : Splits(s, Len(text), text)
<1>1. Splits(s, Len(text), text)
  BY SplitsExist
<1>2. Port!split_string(text) = s[Len(text)]
  BY DEF Port!split_string, Splits, Split
<1>. QED  BY <1>1, <1>2

(* One character more is one step of split_string more.                     *)
LEMMA SplitLonger ==
  ASSUME NEW text, NEW n \in Nat, Len(text) = n, NEW longer, Len(longer) = n + 1,
         \A i \in 1 .. n : longer[i] = text[i]
  PROVE  Port!split_string(longer) = Split(Port!split_string(text), longer[n + 1])
<1>1. PICK s : Splits(s, n, text) /\ Port!split_string(text) = s[n]
  BY SplitString
<1>2. PICK m \in Nat : m = n + 1
  OBVIOUS
<1>3. PICK r : Splits(r, m, longer) /\ Port!split_string(longer) = r[m]
  BY <1>2, SplitString
<1>4. s[0] = << <<>> >> /\ \A i \in 1 .. n : s[i] = Split(s[i - 1], text[i])
  <2>1. Splits(s, n, text)
    BY <1>1
  <2>2. Stepwise(s, n, text)
    BY <2>1, SplitsStep
  <2>. QED  BY <2>2 DEF Stepwise
<1>5. r[0] = << <<>> >> /\ \A i \in 1 .. m : r[i] = Split(r[i - 1], longer[i])
  <2>1. Splits(r, m, longer) /\ m \in Nat
    BY <1>3
  <2>2. Stepwise(r, m, longer)
    BY <2>1, SplitsStep
  <2>. QED  BY <2>2 DEF Stepwise
<1>. DEFINE S == {i \in Nat : i <= n => r[i] = s[i]}
<1>6. 0 \in S
  BY <1>4, <1>5
<1>7. ASSUME NEW i \in Nat, i \in S PROVE i + 1 \in S
  <2>. SUFFICES ASSUME i + 1 <= n PROVE r[i + 1] = s[i + 1]
    OBVIOUS
  <2>1. i + 1 \in 1 .. n /\ i + 1 \in 1 .. m /\ (i + 1) - 1 = i /\ i <= n
    BY <1>2
  <2>2. r[i] = s[i] /\ longer[i + 1] = text[i + 1]
    BY <1>7, <2>1
  <2>. QED  BY <1>4, <1>5, <2>1, <2>2
<1>8. Nat \subseteq S
  <2>. HIDE DEF S
  <2>. QED  BY <1>6, <1>7, Induction
<1>9. m \in 1 .. m /\ m - 1 = n /\ r[n] = s[n]
  BY <1>2, <1>8
<1>. QED  BY <1>1, <1>2, <1>3, <1>5, <1>9

LEMMA SplitAppend ==
  ASSUME NEW text \in Seq(Nat), NEW x \in Nat
  PROVE  Port!split_string(Append(text, x)) = Split(Port!split_string(text), x)
<1>. DEFINE longer == Append(text, x)
            n == Len(text)
<1>1. /\ n \in Nat /\ Len(longer) = n + 1 /\ longer[n + 1] = x
      /\ \A i \in 1 .. n : longer[i] = text[i]
  OBVIOUS
<1>2. Len(text) = n
  OBVIOUS
<1>. HIDE DEF longer, n
<1>3. Port!split_string(longer) = Split(Port!split_string(text), longer[n + 1])
  BY <1>1, <1>2, SplitLonger
<1>4. Port!split_string(longer) = Split(Port!split_string(text), x)
  BY <1>1, <1>3
<1>. QED  BY <1>4 DEF longer

LEMMA SplitEmpty == Port!split_string(<<>>) = << <<>> >>
<1>1. Len(<<>>) = 0
  OBVIOUS
<1>2. PICK s : Splits(s, 0, <<>>) /\ Port!split_string(<<>>) = s[0]
  BY <1>1, SplitString
<1>. QED  BY <1>2, SplitsStep DEF Stepwise

(* A number in decimal: one to three digits, none of them a comma, and what *)
(* stoi makes of them.                                                      *)
LEMMA Decimal ==
  ASSUME NEW n \in Numbers
  PROVE  \E a, b, c \in 0 .. 9 :
           \/ Port!to_string(n) = <<a>> /\ n = a
           \/ Port!to_string(n) = <<a, b>> /\ n = 10 * a + b
           \/ Port!to_string(n) = <<a, b, c>> /\ n = 100 * a + 10 * b + c
<1>1. CASE n < 10
  <2>1. Port!to_string(n) = <<n>> /\ n \in 0 .. 9
    BY <1>1 DEF Port!to_string, Numbers
  <2>. QED  BY <2>1
<1>2. CASE 10 <= n /\ n < 100
  <2>1. Port!to_string(n) = <<n \div 10, n % 10>>
    BY <1>2 DEF Port!to_string, Numbers
  <2>2. n \div 10 \in 0 .. 9 /\ n % 10 \in 0 .. 9 /\ n = 10 * (n \div 10) + (n % 10)
    BY <1>2 DEF Numbers
  <2>. QED  BY <2>1, <2>2
<1>3. CASE 100 <= n
  <2>1. Port!to_string(n) = <<n \div 100, (n \div 10) % 10, n % 10>>
    BY <1>3 DEF Port!to_string, Numbers
  <2>2. /\ n \div 100 \in 0 .. 9 /\ (n \div 10) % 10 \in 0 .. 9 /\ n % 10 \in 0 .. 9
        /\ n = 100 * (n \div 100) + 10 * ((n \div 10) % 10) + (n % 10)
    BY <1>3 DEF Numbers
  <2>. QED  BY <2>1, <2>2
<1>4. n < 10 \/ (10 <= n /\ n < 100) \/ 100 <= n
  BY DEF Numbers
<1>. QED  BY <1>1, <1>2, <1>3, <1>4

LEMMA stoiOfString ==
  ASSUME NEW n \in Numbers
  PROVE  Port!stoi(Port!to_string(n)) = n /\ Port!to_string(n) # <<>>
<1>1. PICK a, b, c \in 0 .. 9 :
           \/ Port!to_string(n) = <<a>> /\ n = a
           \/ Port!to_string(n) = <<a, b>> /\ n = 10 * a + b
           \/ Port!to_string(n) = <<a, b, c>> /\ n = 100 * a + 10 * b + c
  BY Decimal
<1>2. CASE Port!to_string(n) = <<a>> /\ n = a
  BY <1>2 DEF Port!stoi
<1>3. CASE Port!to_string(n) = <<a, b>> /\ n = 10 * a + b
  BY <1>3 DEF Port!stoi
<1>4. CASE Port!to_string(n) = <<a, b, c>> /\ n = 100 * a + 10 * b + c
  BY <1>4 DEF Port!stoi
<1>. QED  BY <1>1, <1>2, <1>3, <1>4, SMTT(30)

(* Sequences that are given by their elements, and appending to them.       *)
LEMMA SameAppend ==
  ASSUME NEW S, NEW s \in Seq(S), NEW x \in S, NEW t \in Seq(S), Len(t) = Len(s) + 1,
         t[Len(s) + 1] = x, \A i \in 1 .. Len(s) : t[i] = s[i]
  PROVE  Append(s, x) = t
<1>. DEFINE r == Append(s, x)
<1>1. /\ r \in Seq(S) /\ Len(r) = Len(s) + 1 /\ r[Len(s) + 1] = x
      /\ \A i \in 1 .. Len(s) : r[i] = s[i]
  OBVIOUS
<1>. HIDE DEF r
<1>2. \A i \in 1 .. Len(r) : r[i] = t[i]
  <2>. SUFFICES ASSUME NEW i \in 1 .. Len(r) PROVE r[i] = t[i]
    OBVIOUS
  <2>1. i = Len(s) + 1 \/ i \in 1 .. Len(s)
    BY <1>1
  <2>. QED  BY <1>1, <2>1
<1>3. r = t
  BY <1>1, <1>2, SeqEqual
<1>. QED  BY <1>3 DEF r

LEMMA AppendSecond ==
  ASSUME NEW S, NEW a \in S, NEW b \in S
  PROVE  Append(<<a>>, b) = <<a, b>>
<1>. DEFINE s == <<a>>
            t == <<a, b>>
<1>1. /\ s \in Seq(S) /\ t \in Seq(S) /\ Len(s) = 1 /\ Len(t) = 2
      /\ s[1] = a /\ t[1] = a /\ t[2] = b
  OBVIOUS
<1>. HIDE DEF s, t
<1>2. Len(t) = Len(s) + 1 /\ t[Len(s) + 1] = b /\ \A i \in 1 .. Len(s) : t[i] = s[i]
  BY <1>1
<1>3. Append(s, b) = t
  BY <1>1, <1>2, SameAppend
<1>. QED  BY <1>3 DEF s, t

LEMMA AppendThird ==
  ASSUME NEW S, NEW a \in S, NEW b \in S, NEW c \in S
  PROVE  Append(<<a, b>>, c) = <<a, b, c>>
<1>. DEFINE s == <<a, b>>
            t == <<a, b, c>>
<1>1. /\ s \in Seq(S) /\ t \in Seq(S) /\ Len(s) = 2 /\ Len(t) = 3
      /\ s[1] = a /\ s[2] = b /\ t[1] = a /\ t[2] = b /\ t[3] = c
  OBVIOUS
<1>. HIDE DEF s, t
<1>2. Len(t) = Len(s) + 1 /\ t[Len(s) + 1] = c /\ \A i \in 1 .. Len(s) : t[i] = s[i]
  BY <1>1
<1>3. Append(s, c) = t
  BY <1>1, <1>2, SameAppend
<1>. QED  BY <1>3 DEF s, t

LEMMA ConcatAppend ==
  ASSUME NEW S, NEW s \in Seq(S), NEW t \in Seq(S), NEW x \in S
  PROVE  s \o Append(t, x) = Append(s \o t, x)
<1>1. <<x>> \in Seq(S)
  OBVIOUS
<1>2. Append(t, x) = t \o <<x>>
  BY AppendIsConcat
<1>3. s \o (t \o <<x>>) = (s \o t) \o <<x>>
  BY <1>1, ConcatAssociative
<1>4. Append(s \o t, x) = (s \o t) \o <<x>>
  BY ConcatProperties, AppendIsConcat
<1>. QED  BY <1>2, <1>3, <1>4

LEMMA ExceptLast ==
  ASSUME NEW S, NEW s \in Seq(S), NEW e \in S, NEW d \in S
  PROVE  [Append(s, e) EXCEPT ![Len(s) + 1] = d] = Append(s, d)
<1>. DEFINE p == Append(s, e)
            q == Append(s, d)
            n == Len(s) + 1
            r == [p EXCEPT ![n] = d]
<1>1. p \in Seq(S) /\ q \in Seq(S) /\ Len(p) = n /\ Len(q) = n /\ n \in 1 .. Len(p)
      /\ p[n] = e /\ q[n] = d /\ \A i \in 1 .. Len(s) : p[i] = q[i]
  BY AppendProperties, LenProperties
<1>2. \A i \in 1 .. n : i = n \/ i \in 1 .. Len(s)
  OBVIOUS
<1>. HIDE DEF p, q, n
<1>3. r \in Seq(S) /\ Len(r) = n /\ \A i \in 1 .. n : r[i] = IF i = n THEN d ELSE p[i]
  BY <1>1, ExceptSeq
<1>. HIDE DEF r
<1>4. \A i \in 1 .. n : r[i] = q[i]
  BY <1>1, <1>2, <1>3
<1>5. r = q
  BY <1>1, <1>3, <1>4, SeqEqual
<1>. QED  BY <1>5 DEF r, p, q, n

(* A digit goes to the last field, a comma begins the next.                 *)
LEMMA SplitDigit ==
  ASSUME NEW text \in Seq(Nat), NEW F \in Seq(Seq(Nat)), NEW e \in Seq(Nat), NEW x \in 0 .. 9,
         Port!split_string(text) = Append(F, e)
  PROVE  Port!split_string(Append(text, x)) = Append(F, Append(e, x))
<1>. DEFINE G == Append(F, e)
            d == Append(e, x)
<1>1. x \in Nat /\ x # Port!Comma
  BY DEF Port!Comma
<1>2. Port!split_string(Append(text, x)) = Split(G, x)
  BY <1>1, SplitAppend
<1>3. Len(G) = Len(F) + 1 /\ G[Len(F) + 1] = e
  BY AppendProperties
<1>4. d \in Seq(Nat)
  BY <1>1
<1>. HIDE DEF G
<1>5. Split(G, x) = [G EXCEPT ![Len(F) + 1] = d]
  BY <1>1, <1>3 DEF Split
<1>. HIDE DEF d
<1>6. [Append(F, e) EXCEPT ![Len(F) + 1] = d] = Append(F, d)
  BY <1>4, ExceptLast
<1>. QED  BY <1>2, <1>5, <1>6 DEF G, d

LEMMA SplitComma ==
  ASSUME NEW text \in Seq(Nat)
  PROVE  /\ text \o <<Port!Comma>> \in Seq(Nat)
         /\ Port!split_string(text \o <<Port!Comma>>) = Append(Port!split_string(text), <<>>)
<1>1. Port!Comma \in Nat
  BY DEF Port!Comma
<1>2. text \o <<Port!Comma>> = Append(text, Port!Comma) /\ Append(text, Port!Comma) \in Seq(Nat)
  BY <1>1, AppendIsConcat, AppendProperties
<1>3. Port!split_string(Append(text, Port!Comma)) = Split(Port!split_string(text), Port!Comma)
  BY <1>1, SplitAppend
<1>. QED  BY <1>2, <1>3 DEF Split

(* One digit more of a number that goes to the last field.                  *)
LEMMA SplitMore ==
  ASSUME NEW text \in Seq(Nat), NEW F \in Seq(Seq(Nat)), NEW d \in Seq(Nat), NEW x \in 0 .. 9,
         Port!split_string(text \o d) = Append(F, d)
  PROVE  Port!split_string(text \o Append(d, x)) = Append(F, Append(d, x))
<1>1. x \in Nat
  OBVIOUS
<1>. DEFINE t == text \o d
<1>2. text \o Append(d, x) = Append(t, x) /\ t \in Seq(Nat) /\ Port!split_string(t) = Append(F, d)
  BY <1>1, ConcatAppend, ConcatProperties, SMTT(30)
<1>. HIDE DEF t
<1>3. Port!split_string(Append(t, x)) = Append(F, Append(d, x))
  BY <1>2, SplitDigit
<1>. QED  BY <1>2, <1>3

(* A number is the next field.                                              *)
LEMMA SplitNumber ==
  ASSUME NEW text \in Seq(Nat), NEW F \in Seq(Seq(Nat)), NEW n \in Numbers,
         Port!split_string(text) = Append(F, <<>>)
  PROVE  /\ Port!to_string(n) \in Seq(Nat) /\ text \o Port!to_string(n) \in Seq(Nat)
         /\ Port!split_string(text \o Port!to_string(n)) = Append(F, Port!to_string(n))
<1>1. PICK a, b, c \in 0 .. 9 :
           \/ Port!to_string(n) = <<a>> /\ n = a
           \/ Port!to_string(n) = <<a, b>> /\ n = 10 * a + b
           \/ Port!to_string(n) = <<a, b, c>> /\ n = 100 * a + 10 * b + c
  BY Decimal
<1>. DEFINE z == <<>>
            s == <<a>>
            t == <<a, b>>
            u == <<a, b, c>>
<1>2. a \in Nat /\ b \in Nat /\ c \in Nat
  OBVIOUS
<1>3. s \in Seq(Nat) /\ t \in Seq(Nat) /\ u \in Seq(Nat) /\ z \in Seq(Nat)
  BY <1>2
<1>4. s = Append(z, a) /\ t = Append(s, b) /\ u = Append(t, c)
  BY <1>2, AppendSecond, AppendThird
<1>5. Port!to_string(n) = s \/ Port!to_string(n) = t \/ Port!to_string(n) = u
  BY <1>1
<1>6. Port!split_string(text \o z) = Append(F, z)
  BY ConcatEmptySeq
<1>. HIDE DEF z, s, t, u
<1>7. Port!split_string(text \o s) = Append(F, s)
  <2>1. Port!split_string(text \o Append(z, a)) = Append(F, Append(z, a))
    BY <1>3, <1>6, SplitMore, ZenonT(30)
  <2>. QED  BY <1>4, <2>1
<1>8. Port!split_string(text \o t) = Append(F, t)
  <2>1. Port!split_string(text \o Append(s, b)) = Append(F, Append(s, b))
    BY <1>3, <1>7, SplitMore, ZenonT(30)
  <2>. QED  BY <1>4, <2>1
<1>9. Port!split_string(text \o u) = Append(F, u)
  <2>1. Port!split_string(text \o Append(t, c)) = Append(F, Append(t, c))
    BY <1>3, <1>8, SplitMore, ZenonT(30)
  <2>. QED  BY <1>4, <2>1
<1>10. text \o s \in Seq(Nat) /\ text \o t \in Seq(Nat) /\ text \o u \in Seq(Nat)
  BY <1>3, ConcatProperties, SMTT(30)
<1>. QED  BY <1>3, <1>5, <1>7, <1>8, <1>9, <1>10

(* The first field, and the next one: a comma and a number.                 *)
LEMMA SplitFirst ==
  ASSUME NEW n \in Numbers
  PROVE  \E text, F :
           /\ text = Port!to_string(n) /\ text \in Seq(Nat)
           /\ F \in Seq(Seq(Nat)) /\ Port!split_string(text) = F
           /\ Len(F) = 1 /\ F[1] = Port!to_string(n)
<1>. DEFINE z == <<>>
            F == Append(z, Port!to_string(n))
<1>1. z \in Seq(Nat) /\ z \in Seq(Seq(Nat)) /\ Len(z) = 0 /\ Port!split_string(z) = Append(z, <<>>)
  BY SplitEmpty
<1>. HIDE DEF z
<1>2. /\ Port!to_string(n) \in Seq(Nat)
      /\ Port!split_string(z \o Port!to_string(n)) = F
  BY <1>1, SplitNumber
<1>3. z \o Port!to_string(n) = Port!to_string(n)
  BY <1>2, ConcatEmptySeq DEF z
<1>4. F \in Seq(Seq(Nat)) /\ Len(F) = 1 /\ F[1] = Port!to_string(n)
  BY <1>1, <1>2, AppendProperties
<1>. QED  BY <1>2, <1>3, <1>4

(* A text with k fields, and one that has a comma and a string more.        *)
Fields(text, F, k) ==
  /\ text \in Seq(Nat) /\ F \in Seq(Seq(Nat))
  /\ Port!split_string(text) = F /\ Len(F) = k

WithField(text, digits) == text \o <<Port!Comma>> \o digits

Longer(F, k, G, digits) == G[k + 1] = digits /\ \A i \in 1 .. k : G[i] = F[i]

LEMMA SplitNext ==
  ASSUME NEW text, NEW F, NEW k \in Nat, NEW m \in Nat, m = k + 1, NEW n \in Numbers,
         Fields(text, F, k)
  PROVE  \E longer, G : /\ Fields(longer, G, m) /\ longer = WithField(text, Port!to_string(n))
                        /\ Longer(F, k, G, Port!to_string(n))
<1>. DEFINE t == text \o <<Port!Comma>>
            longer == t \o Port!to_string(n)
            G == Append(F, Port!to_string(n))
<1>0. /\ text \in Seq(Nat) /\ F \in Seq(Seq(Nat))
      /\ Port!split_string(text) = F /\ Len(F) = k
  BY DEF Fields
<1>1. t \in Seq(Nat) /\ Port!split_string(t) = Append(F, <<>>)
  BY <1>0, SplitComma
<1>. HIDE DEF t
<1>2. /\ Port!to_string(n) \in Seq(Nat) /\ longer \in Seq(Nat)
      /\ Port!split_string(longer) = G
  BY <1>0, <1>1, SplitNumber
<1>3. /\ G \in Seq(Seq(Nat)) /\ Len(G) = k + 1 /\ G[k + 1] = Port!to_string(n)
      /\ \A i \in 1 .. k : G[i] = F[i]
  <2>1. PICK d \in Seq(Nat) : d = Port!to_string(n)
    BY <1>2
  <2>2. /\ Append(F, d) \in Seq(Seq(Nat)) /\ Len(Append(F, d)) = k + 1 /\ Append(F, d)[k + 1] = d
        /\ \A i \in 1 .. k : Append(F, d)[i] = F[i]
    BY <1>0, AppendProperties
  <2>. QED  BY <2>1, <2>2
<1>4. longer = WithField(text, Port!to_string(n))
  BY Zenon DEF t, WithField
<1>. HIDE DEF G, longer
<1>5. /\ Fields(longer, G, m) /\ longer = WithField(text, Port!to_string(n))
      /\ Longer(F, k, G, Port!to_string(n))
  BY <1>2, <1>3, <1>4 DEF Fields, Longer
<1>. QED  BY <1>5

(* The two bytes of a port, and the port they make.                         *)
LEMMA Halves ==
  ASSUME NEW port \in PortNumbers
  PROVE  \E hi, lo \in Numbers : port \div 256 = hi /\ port % 256 = lo
<1>0. port \in Nat /\ port < 256 * 256
  BY SMTT(30) DEF PortNumbers
<1>1. PICK p \in Nat : p = port /\ p < 256 * 256
  BY <1>0, Zenon
<1>2. PICK hi \in Nat, lo \in Nat : hi = p \div 256 /\ lo = p % 256
  BY SMT
<1>3. lo <= 255 /\ hi <= 255
  BY <1>1, <1>2, SMT
<1>4. hi \in Numbers /\ lo \in Numbers
  BY <1>3, SMT DEF Numbers
<1>5. port \div 256 = hi /\ port % 256 = lo
  BY <1>1, <1>2, SMT
<1>. QED  BY <1>4, <1>5, Zenon

LEMMA Whole ==
  ASSUME NEW port \in PortNumbers, NEW hi \in Numbers, NEW lo \in Numbers,
         port \div 256 = hi, port % 256 = lo
  PROVE  (hi * 256 + lo) % (256 * 256) = port
<1>0. port \in Nat /\ port < 256 * 256
  BY SMTT(30) DEF PortNumbers
<1>1. PICK p \in Nat : p = port /\ p < 256 * 256
  BY <1>0, Zenon
<1>2. hi \in Nat /\ lo \in Nat /\ p = 256 * hi + lo
  BY <1>1, SMT DEF Numbers
<1>3. hi * 256 + lo = p /\ p % (256 * 256) = p
  BY <1>1, <1>2, SMT
<1>. QED  BY <1>1, <1>3, SMT

(* The six fields of a reply 227.                                           *)
LEMMA SixFields ==
  ASSUME NEW a \in [1 .. 4 -> Numbers], NEW port \in PortNumbers
  PROVE  \E fields : /\ fields = Port!split_string(Port!get_pasv_response(a, port))
                     /\ Len(fields) = 6
                     /\ \A i \in 1 .. 4 : fields[i] = Port!to_string(a[i])
                     /\ fields[5] = Port!to_string(port \div 256)
                     /\ fields[6] = Port!to_string(port % 256)
<1>1. a[1] \in Numbers /\ a[2] \in Numbers /\ a[3] \in Numbers /\ a[4] \in Numbers
  OBVIOUS
<1>2. PICK hi \in Numbers, lo \in Numbers : port \div 256 = hi /\ port % 256 = lo
  BY Halves
<1>3. PICK a1 \in Numbers, a2 \in Numbers, a3 \in Numbers, a4 \in Numbers :
        a1 = a[1] /\ a2 = a[2] /\ a3 = a[3] /\ a4 = a[4]
  BY <1>1
<1>4. PICK t1, F1 : Fields(t1, F1, 1) /\ t1 = Port!to_string(a1) /\ F1[1] = Port!to_string(a1)
  BY SplitFirst DEF Fields
<1>5. PICK t2, F2 :
        /\ Fields(t2, F2, 2) /\ t2 = WithField(t1, Port!to_string(a2))
        /\ Longer(F1, 1, F2, Port!to_string(a2))
  BY <1>4, SplitNext
<1>6. PICK t3, F3 :
        /\ Fields(t3, F3, 3) /\ t3 = WithField(t2, Port!to_string(a3))
        /\ Longer(F2, 2, F3, Port!to_string(a3))
  BY <1>5, SplitNext
<1>7. PICK t4, F4 :
        /\ Fields(t4, F4, 4) /\ t4 = WithField(t3, Port!to_string(a4))
        /\ Longer(F3, 3, F4, Port!to_string(a4))
  BY <1>6, SplitNext
<1>8. PICK t5, F5 :
        /\ Fields(t5, F5, 5) /\ t5 = WithField(t4, Port!to_string(hi))
        /\ Longer(F4, 4, F5, Port!to_string(hi))
  BY <1>7, SplitNext
<1>9. PICK t6, F6 :
        /\ Fields(t6, F6, 6) /\ t6 = WithField(t5, Port!to_string(lo))
        /\ Longer(F5, 5, F6, Port!to_string(lo))
  BY <1>8, SplitNext
<1>10. Port!get_pasv_response(a, port) = t6
  <2>1. /\ t2 = WithField(t1, Port!to_string(a2)) /\ t3 = WithField(t2, Port!to_string(a3))
        /\ t4 = WithField(t3, Port!to_string(a4)) /\ t5 = WithField(t4, Port!to_string(hi))
        /\ t6 = WithField(t5, Port!to_string(lo)) /\ t1 = Port!to_string(a1)
    BY <1>4, <1>5, <1>6, <1>7, <1>8, <1>9, Zenon
  <2>2. Port!get_pasv_response(a, port)
          = WithField(WithField(WithField(WithField(WithField(Port!to_string(a[1]),
              Port!to_string(a[2])), Port!to_string(a[3])), Port!to_string(a[4])),
              Port!to_string(port \div 256)), Port!to_string(port % 256))
    BY Zenon DEF WithField, Port!get_pasv_response, Port!AddressText
  <2>. QED  BY <1>2, <1>3, <2>1, <2>2
<1>11. F6[1] = Port!to_string(a1) /\ F6[2] = Port!to_string(a2)
       /\ F6[3] = Port!to_string(a3) /\ F6[4] = Port!to_string(a4)
       /\ F6[5] = Port!to_string(hi) /\ F6[6] = Port!to_string(lo)
  <2>1. F2[1] = F1[1] /\ F2[2] = Port!to_string(a2)
    BY <1>5 DEF Longer
  <2>2. F3[1] = F2[1] /\ F3[2] = F2[2] /\ F3[3] = Port!to_string(a3)
    BY <1>6 DEF Longer
  <2>3. F4[1] = F3[1] /\ F4[2] = F3[2] /\ F4[3] = F3[3] /\ F4[4] = Port!to_string(a4)
    BY <1>7 DEF Longer
  <2>4. (\A i \in 1 .. 4 : F5[i] = F4[i]) /\ F5[5] = Port!to_string(hi)
    BY <1>8 DEF Longer
  <2>5. (\A i \in 1 .. 5 : F6[i] = F5[i]) /\ F6[6] = Port!to_string(lo)
    BY <1>9 DEF Longer
  <2>. QED  BY <1>4, <2>1, <2>2, <2>3, <2>4, <2>5
<1>12. \A i \in 1 .. 4 : F6[i] = Port!to_string(a[i])
  <2>1. \A i \in 1 .. 4 : i = 1 \/ i = 2 \/ i = 3 \/ i = 4
    OBVIOUS
  <2>. QED  BY <1>3, <1>11, <2>1
<1>13. F6[5] = Port!to_string(port \div 256) /\ F6[6] = Port!to_string(port % 256)
  BY <1>2, <1>11
<1>14. Port!split_string(Port!get_pasv_response(a, port)) = F6 /\ Len(F6) = 6
  BY <1>9, <1>10 DEF Fields
<1>. QED  BY <1>12, <1>13, <1>14

(* get_pasv_response, and what the client makes of it: the address and the  *)
(* port come back, in all 16 bits.                                          *)
LEMMA EndpointOfResponse ==
  ASSUME NEW a \in [1 .. 4 -> Numbers], NEW port \in PortNumbers
  PROVE  Port!Endpoint(Port!get_pasv_response(a, port)) = [address |-> a, port |-> port]
<1>1. PICK fields : /\ fields = Port!split_string(Port!get_pasv_response(a, port))
                    /\ Len(fields) = 6
                    /\ \A i \in 1 .. 4 : fields[i] = Port!to_string(a[i])
                    /\ fields[5] = Port!to_string(port \div 256)
                    /\ fields[6] = Port!to_string(port % 256)
  BY SixFields, ZenonT(30)
<1>2. PICK hi \in Numbers, lo \in Numbers : port \div 256 = hi /\ port % 256 = lo
  BY Halves, Zenon
<1>3. \A i \in 1 .. 4 : Port!stoi(fields[i]) = a[i]
  BY <1>1, stoiOfString
<1>4. [i \in 1 .. 4 |-> Port!stoi(fields[i])] = a
  BY <1>3
<1>5. Port!stoi(fields[5]) = hi /\ Port!stoi(fields[6]) = lo
  BY <1>1, <1>2, stoiOfString
<1>6. Len(fields) - 1 = 5
  BY <1>1
<1>7. (Port!stoi(fields[Len(fields) - 1]) * 256 + Port!stoi(fields[Len(fields)])) % (256 * 256) = port
  <2>1. (hi * 256 + lo) % (256 * 256) = port
    BY <1>2, Whole, SMT
  <2>. QED  BY <1>1, <1>5, <1>6, <2>1, SMT
<1>. QED  BY <1>1, <1>4, <1>7, SMT DEF Port!Endpoint

Responses == {Port!get_pasv_response(a, port) : a \in [1 .. 4 -> Numbers], port \in PortNumbers}

(* While the acceptor is open, the last 227 of those still on their way     *)
(* names its port, and if there is none the client has read it.             *)
PortInv ==
  /\ address \in [1 .. 4 -> Numbers]
  /\ acceptor \in PortNumbers \cup {0}
  /\ texts \in Seq(Responses)
  /\ acceptor # 0 =>
       IF texts = <<>> THEN target = [address |-> address, port |-> acceptor]
       ELSE texts[Len(texts)] = Port!get_pasv_response(address, acceptor)

LEMMA PortInitInv == Port!Init => PortInv
<1>1. Addresses \subseteq [1 .. 4 -> Numbers]
  BY PortAssumption
<1>2. <<>> \in Seq(Responses)
  OBVIOUS
<1>. QED  BY <1>1, <1>2 DEF PortInv, Port!Init

LEMMA PortStepInv == PortInv /\ [Port!Next]_(Port!vars) => PortInv'
<1>. SUFFICES ASSUME PortInv, [Port!Next]_(Port!vars) PROVE PortInv'
  OBVIOUS
<1>1. CASE Port!Passive
  <2>1. Ports \subseteq PortNumbers
    BY PortAssumption
  <2>2. acceptor' \in PortNumbers /\ address' = address
    BY <1>1, <2>1 DEF Port!Passive
  <2>3. PICK a \in [1 .. 4 -> Numbers], p \in PortNumbers : a = address' /\ p = acceptor'
    BY <2>2 DEF PortInv
  <2>4. PICK response \in Responses : response = Port!get_pasv_response(a, p)
    <3>1. Port!get_pasv_response(a, p) \in Responses
      BY DEF Responses
    <3>. QED  BY <3>1, Zenon
  <2>5. texts' = Append(texts, response)
    BY <1>1, <2>2, <2>3, <2>4 DEF Port!Passive
  <2>6. texts' \in Seq(Responses) /\ texts' # <<>> /\ texts'[Len(texts')] = response
    BY <2>5, AppendProperties DEF PortInv
  <2>7. response = Port!get_pasv_response(address', acceptor')
    BY <2>3, <2>4
  <2>. QED  BY <2>2, <2>6, <2>7 DEF PortInv
<1>2. CASE Port!ClientReads
  <2>1. /\ texts # <<>> /\ texts' = Tail(texts) /\ target' = Port!Endpoint(Head(texts))
        /\ UNCHANGED <<address, acceptor>>
    BY <1>2 DEF Port!ClientReads
  <2>2. CASE Len(texts) = 1
    <3>1. texts' = <<>> /\ texts[1] = Head(texts) /\ texts' \in Seq(Responses)
      BY <2>1, <2>2, HeadTailProperties, EmptySeq DEF PortInv
    <3>2. ASSUME acceptor # 0 PROVE target' = [address |-> address, port |-> acceptor]
      <4>1. acceptor \in PortNumbers /\ address \in [1 .. 4 -> Numbers]
        BY <3>2 DEF PortInv
      <4>2. Head(texts) = Port!get_pasv_response(address, acceptor)
        BY <2>1, <2>2, <3>1, <3>2 DEF PortInv
      <4>. QED  BY <2>1, <4>1, <4>2, EndpointOfResponse
    <3>. QED  BY <2>1, <3>1, <3>2 DEF PortInv
  <2>3. CASE Len(texts) # 1
    <3>1. /\ texts' \in Seq(Responses) /\ texts' # <<>>
          /\ texts'[Len(texts')] = texts[Len(texts)]
      <4>1. PICK rest, n : rest = Tail(texts) /\ n = Len(rest)
        OBVIOUS
      <4>2. /\ rest \in Seq(Responses) /\ n \in Nat /\ Len(texts) = n + 1
            /\ \A i \in 1 .. n : rest[i] = texts[i + 1]
        BY <2>1, <4>1, HeadTailProperties, EmptySeq, LenProperties DEF PortInv
      <4>3. n \in 1 .. n
        BY <2>3, <4>2
      <4>4. rest # <<>>
        BY <4>1, <4>3
      <4>5. rest[n] = texts[n + 1]
        BY <4>2, <4>3
      <4>. QED  BY <2>1, <4>1, <4>2, <4>4, <4>5
    <3>. QED  BY <2>1, <3>1 DEF PortInv
  <2>. QED  BY <2>2, <2>3
<1>3. CASE Port!ClientConnects
  BY <1>3 DEF PortInv, Port!ClientConnects
<1>4. CASE UNCHANGED Port!vars
  BY <1>4 DEF PortInv, Port!vars
<1>. QED  BY <1>1, <1>2, <1>3, <1>4 DEF Port!Next

(* get_pasv_response, and the client's regular expression, split and stoi:  *)
(* for all addresses and ports the client that has read the last 227 has    *)
(* the endpoint the acceptor listens on, however often PASV is given.       *)
THEOREM TargetListensCorrect == Port!Spec => []TargetListens
<1>1. PortInv => TargetListens
  BY DEF PortInv, TargetListens, Port!TargetListens
<1>. QED  BY <1>1, PortInitInv, PortStepInv, PTL DEF Port!Spec

-----------------------------------------------------------------------------
(* Requests: the line reader.                                               *)

Symbols == Vocabulary \cup Blank

(* From the symbol after the first k on, stream has the text of a line.     *)
TextAt(stream, k, words, x) ==
  /\ \A i \in 1 .. Len(words) : stream[k + 2 * i - 1] = words[i] /\ stream[k + 2 * i] = x
  /\ stream[k + 2 * Len(words) + 1] = "CR" /\ stream[k + 2 * Len(words) + 2] = "LF"

(* The stream is the texts of the lines after the first h; that of line i   *)
(* ends at b[i].                                                            *)
Cut(stream, ls, h, x, b) ==
  /\ b \in [h .. Len(ls) -> 0 .. Len(stream)]
  /\ b[h] = 0 /\ b[Len(ls)] = Len(stream)
  /\ \A i \in h + 1 .. Len(ls) :
       b[i] = b[i - 1] + 2 * Len(ls[i]) + 2 /\ TextAt(stream, b[i - 1], ls[i], x)
  /\ \A i, j \in h .. Len(ls) : i <= j => b[i] <= b[j]

(* No delimiter stands before the end of the first line.                    *)
LEMMA FirstLine ==
  ASSUME NEW words \in Seq(Vocabulary), NEW x \in Blank, NEW stream, TextAt(stream, 0, words, x),
         NEW n \in Nat, n >= 2, stream[n - 1] = "CR", stream[n] = "LF"
  PROVE  n >= 2 * Len(words) + 2
<1>. DEFINE k == Len(words)
<1>1. /\ k \in Nat
      /\ \A i \in 1 .. k : stream[2 * i - 1] = words[i] /\ stream[2 * i] = x
      /\ stream[2 * k + 1] = "CR"
  BY DEF TextAt
<1>2. \A i \in 1 .. k : words[i] # "CR" /\ words[i] # "LF"
  BY LineAssumption DEF Blank
<1>. HIDE DEF k
<1>. SUFFICES ASSUME n < 2 * k + 2 PROVE FALSE
  BY <1>1 DEF k
<1>3. PICK i \in Nat : n = 2 * i \/ n = 2 * i + 1
  <2>1. n = 2 * (n \div 2) \/ n = 2 * (n \div 2) + 1
    OBVIOUS
  <2>2. n \div 2 \in Nat
    OBVIOUS
  <2>. QED  BY <2>1, <2>2
<1>4. CASE n = 2 * i
  <2>1. i \in 1 .. k /\ n - 1 = 2 * i - 1
    BY <1>1, <1>4
  <2>. QED  BY <1>1, <1>2, <2>1
<1>5. CASE n = 2 * i + 1 /\ i < k
  <2>1. i + 1 \in 1 .. k /\ n = 2 * (i + 1) - 1
    BY <1>1, <1>5
  <2>. QED  BY <1>1, <1>2, <2>1
<1>6. CASE n = 2 * i + 1 /\ i >= k
  <2>1. n = 2 * k + 1
    BY <1>1, <1>6
  <2>. QED  BY <1>1, <2>1
<1>. QED  BY <1>1, <1>3, <1>4, <1>5, <1>6

(* So the first delimiter is the end of the first line.                     *)
LEMMA CutFirst ==
  ASSUME NEW stream \in Seq(Symbols), NEW ls \in Seq(Seq(Vocabulary)), NEW h \in Nat, NEW x \in Blank,
         NEW b, h <= Len(ls), Cut(stream, ls, h, x, b),
         NEW n \in 2 .. Len(stream), stream[n - 1] = "CR", stream[n] = "LF"
  PROVE  /\ h < Len(ls) /\ b[h + 1] = 2 * Len(ls[h + 1]) + 2 /\ b[h + 1] <= n
         /\ TextAt(stream, 0, ls[h + 1], x)
<1>1. Len(ls) \in Nat /\ Len(stream) \in Nat
  OBVIOUS
<1>2. h < Len(ls)
  BY <1>1 DEF Cut
<1>3. PICK g \in 1 .. Len(ls) : g = h + 1
  BY <1>1, <1>2
<1>4. PICK words \in Seq(Vocabulary) : words = ls[g]
  OBVIOUS
<1>5. g - 1 = h /\ g \in h + 1 .. Len(ls)
  BY <1>1, <1>3
<1>6. b[g] = b[h] + 2 * Len(words) + 2 /\ TextAt(stream, b[h], words, x) /\ b[h] = 0
  BY <1>4, <1>5 DEF Cut
<1>7. TextAt(stream, 0, words, x) /\ Len(words) \in Nat /\ b[g] = 2 * Len(words) + 2
  BY <1>6
<1>8. n >= 2 * Len(words) + 2
  BY <1>7, FirstLine
<1>. QED  BY <1>2, <1>3, <1>4, <1>7, <1>8

(* Where a text stands in another stream, or further on.                    *)
LEMMA TextMoves ==
  ASSUME NEW words \in Seq(Vocabulary), NEW x, NEW stream, NEW o \in Nat, NEW rest, NEW p \in Nat,
         TextAt(stream, o, words, x),
         \A j \in 1 .. 2 * Len(words) + 2 : rest[p + j] = stream[o + j]
  PROVE  TextAt(rest, p, words, x)
<1>1. PICK n \in Nat : n = Len(words)
  OBVIOUS
<1>2. PICK d \in Nat : d = 2 * n
  OBVIOUS
<1>3. \A j \in 1 .. d + 2 : rest[p + j] = stream[o + j]
  BY <1>1, <1>2
<1>4. /\ \A j \in 1 .. n : stream[o + 2 * j - 1] = words[j] /\ stream[o + 2 * j] = x
      /\ stream[o + d + 1] = "CR" /\ stream[o + d + 2] = "LF"
  BY <1>1, <1>2 DEF TextAt
<1>5. ASSUME NEW j \in 1 .. n PROVE rest[p + 2 * j - 1] = words[j] /\ rest[p + 2 * j] = x
  <2>1. PICK k \in Nat : k = 2 * j /\ k >= 2 /\ k <= d
    BY <1>2
  <2>2. k - 1 \in 1 .. d + 2 /\ k \in 1 .. d + 2
    BY <2>1
  <2>3. rest[p + (k - 1)] = stream[o + (k - 1)] /\ rest[p + k] = stream[o + k]
    BY <1>3, <2>2
  <2>4. p + (k - 1) = p + k - 1 /\ o + (k - 1) = o + k - 1
    BY <2>1
  <2>. QED  BY <1>4, <2>1, <2>3, <2>4
<1>6. rest[p + d + 1] = "CR" /\ rest[p + d + 2] = "LF"
  <2>1. d + 1 \in 1 .. d + 2 /\ d + 2 \in 1 .. d + 2
    OBVIOUS
  <2>2. rest[p + (d + 1)] = stream[o + (d + 1)] /\ rest[p + (d + 2)] = stream[o + (d + 2)]
    BY <1>3, <2>1
  <2>3. /\ p + (d + 1) = p + d + 1 /\ o + (d + 1) = o + d + 1
        /\ p + (d + 2) = p + d + 2 /\ o + (d + 2) = o + d + 2
    OBVIOUS
  <2>. QED  BY <1>4, <2>2, <2>3
<1>. QED  BY <1>1, <1>2, <1>5, <1>6 DEF TextAt

(* What is left of a stream when its first m symbols are taken away.        *)
RestOf(rest, stream, m) ==
  Len(rest) + m = Len(stream) /\ \A i \in 1 .. Len(rest) : rest[i] = stream[i + m]

LEMMA CutConsume ==
  ASSUME NEW stream \in Seq(Symbols), NEW ls \in Seq(Seq(Vocabulary)), NEW h \in Nat, NEW x,
         NEW b, h < Len(ls), Cut(stream, ls, h, x, b),
         NEW rest \in Seq(Symbols), RestOf(rest, stream, b[h + 1])
  PROVE  \E c : Cut(rest, ls, h + 1, x, c)
<1>1. PICK e \in Nat : e = Len(ls)
  OBVIOUS
<1>2. PICK l \in Nat : l = Len(stream)
  OBVIOUS
<1>3. PICK g \in Nat : g = h + 1 /\ g <= e
  BY <1>1
<1>4. /\ b \in [h .. e -> 0 .. l] /\ b[e] = l
      /\ \A i \in g .. e : b[i] = b[i - 1] + 2 * Len(ls[i]) + 2 /\ TextAt(stream, b[i - 1], ls[i], x)
      /\ \A i, j \in h .. e : i <= j => b[i] <= b[j]
  BY <1>1, <1>2, <1>3 DEF Cut
<1>5. PICK m \in Nat : m = b[g] /\ RestOf(rest, stream, m)
  BY <1>3, <1>4
<1>13. PICK r \in Nat : r = Len(rest) /\ r + m = l
  BY <1>2, <1>5 DEF RestOf
<1>6. ASSUME NEW i \in g .. e PROVE \E v \in Nat : v = b[i] /\ m <= v /\ v <= l
  <2>1. g \in h .. e /\ i \in h .. e /\ g <= i
    BY <1>3
  <2>2. b[g] <= b[i] /\ b[i] \in 0 .. l
    BY <1>4, <2>1
  <2>. QED  BY <1>5, <2>2
<1>. DEFINE c == [i \in g .. e |-> b[i] - m]
<1>7. ASSUME NEW i \in g .. e
      PROVE  \E v, u \in Nat : v = b[i] /\ u = c[i] /\ u + m = v /\ u <= r
  <2>1. PICK v \in Nat : v = b[i] /\ m <= v /\ v <= l
    BY <1>6
  <2>2. PICK u \in Nat : u = v - m
    BY <2>1
  <2>3. c[i] = u
    BY <2>1, <2>2
  <2>4. u + m = v
    BY <2>1, <2>2
  <2>5. u <= r
    <3>1. u + m <= r + m
      BY <1>13, <2>1, <2>4
    <3>. QED  BY <3>1
  <2>. QED  BY <2>1, <2>3, <2>4, <2>5
<1>12. c \in [g .. e -> 0 .. r]
  <2>1. ASSUME NEW i \in g .. e PROVE c[i] \in 0 .. r
    BY <1>7
  <2>. QED  BY <2>1
<1>. HIDE DEF c
<1>8. c[g] = 0 /\ c[e] = r
  <2>1. g \in g .. e /\ e \in g .. e
    BY <1>3
  <2>2. PICK v, u \in Nat : v = b[g] /\ u = c[g] /\ u + m = v
    BY <1>7, <2>1
  <2>3. PICK w, t \in Nat : w = b[e] /\ t = c[e] /\ t + m = w
    BY <1>7, <2>1
  <2>4. u + m = m /\ t + m = l
    BY <1>4, <1>5, <2>2, <2>3
  <2>5. r + m = l
    BY <1>13
  <2>6. u = 0 /\ t = r
    BY <2>4, <2>5
  <2>. QED  BY <2>2, <2>3, <2>6
<1>9. ASSUME NEW i \in g .. e, NEW j \in g .. e, i <= j PROVE c[i] <= c[j]
  <2>1. i \in h .. e /\ j \in h .. e
    BY <1>3
  <2>2. b[i] <= b[j]
    BY <1>4, <1>9, <2>1
  <2>3. PICK v, u \in Nat : v = b[i] /\ u = c[i] /\ u + m = v
    BY <1>7
  <2>4. PICK w, t \in Nat : w = b[j] /\ t = c[j] /\ t + m = w
    BY <1>7
  <2>5. u + m <= t + m
    BY <2>2, <2>3, <2>4
  <2>6. u <= t
    BY <2>5
  <2>. QED  BY <2>3, <2>4, <2>6
<1>10. ASSUME NEW i \in g + 1 .. e
       PROVE  c[i] = c[i - 1] + 2 * Len(ls[i]) + 2 /\ TextAt(rest, c[i - 1], ls[i], x)
  <2>1. i \in g .. e /\ i - 1 \in g .. e
    BY <1>3
  <2>2. PICK words \in Seq(Vocabulary) : words = ls[i]
    BY <1>1, <1>3
  <2>3. PICK o, p \in Nat : o = b[i - 1] /\ p = c[i - 1] /\ p + m = o
    BY <1>7, <2>1
  <2>4. PICK d \in Nat : d = 2 * Len(words)
    OBVIOUS
  <2>5. PICK v, u \in Nat : v = b[i] /\ u = c[i] /\ u + m = v /\ u <= r
    BY <1>7, <2>1
  <2>6. v = o + d + 2 /\ TextAt(stream, o, words, x)
    BY <1>4, <2>1, <2>2, <2>3, <2>4, <2>5
  <2>10. p + m = o /\ u + m = v /\ u <= r /\ v = o + d + 2
    BY <2>3, <2>5, <2>6
  <2>7. u = p + d + 2
    BY <2>10
  <2>8. ASSUME NEW j \in 1 .. d + 2 PROVE rest[p + j] = stream[o + j]
    <3>1. p + j \in 1 .. r /\ (p + j) + m = o + j
      BY <2>7, <2>10
    <3>2. rest[p + j] = stream[(p + j) + m]
      BY <1>5, <1>13, <3>1 DEF RestOf
    <3>. QED  BY <3>1, <3>2
  <2>9. TextAt(rest, p, words, x)
    BY <2>4, <2>6, <2>8, TextMoves
  <2>. QED  BY <2>2, <2>3, <2>4, <2>5, <2>7, <2>9
<1>11. Cut(rest, ls, g, x, c)
  BY <1>1, <1>8, <1>9, <1>10, <1>12, <1>13 DEF Cut
<1>. QED  BY <1>3, <1>11

(* Another line is sent.                                                    *)
Continued(longer, stream, text) ==
  /\ Len(longer) = Len(stream) + Len(text)
  /\ \A i \in 1 .. Len(stream) : longer[i] = stream[i]
  /\ \A i \in 1 .. Len(text) : longer[Len(stream) + i] = text[i]

LEMMA CutSend ==
  ASSUME NEW stream \in Seq(Symbols), NEW ls \in Seq(Seq(Vocabulary)), NEW h \in Nat, NEW x,
         NEW b, h <= Len(ls), Cut(stream, ls, h, x, b),
         NEW words \in Seq(Vocabulary), NEW text \in Seq(Symbols),
         Len(text) = 2 * Len(words) + 2, TextAt(text, 0, words, x),
         NEW longer \in Seq(Symbols), Continued(longer, stream, text)
  PROVE  \E c : Cut(longer, Append(ls, words), h, x, c)
<1>1. PICK e, l \in Nat : e = Len(ls) /\ l = Len(stream)
  OBVIOUS
<1>2. PICK d \in Nat : d = 2 * Len(words)
  OBVIOUS
<1>3. PICK sent \in Seq(Seq(Vocabulary)) : sent = Append(ls, words)
  BY AppendProperties
<1>4. Len(sent) = e + 1 /\ sent[e + 1] = words /\ \A i \in 1 .. e : sent[i] = ls[i]
  BY <1>1, <1>3
<1>5. PICK g, t \in Nat : g = e + 1 /\ t = l + d + 2
  OBVIOUS
<1>6. /\ Len(longer) = t /\ \A i \in 1 .. l : longer[i] = stream[i]
      /\ \A i \in 1 .. d + 2 : longer[l + i] = text[i]
  <2>1. /\ Len(longer) = Len(stream) + Len(text)
        /\ \A i \in 1 .. Len(stream) : longer[i] = stream[i]
        /\ \A i \in 1 .. Len(text) : longer[Len(stream) + i] = text[i]
    BY DEF Continued
  <2>2. Len(stream) = l /\ Len(text) = d + 2 /\ l + (d + 2) = t
    BY <1>1, <1>2, <1>5
  <2>. QED  BY <2>1, <2>2
<1>7. h <= e /\ h < g
  BY <1>1, <1>5
<1>8. /\ b \in [h .. e -> 0 .. l] /\ b[h] = 0 /\ b[e] = l
      /\ \A i \in h + 1 .. e : b[i] = b[i - 1] + 2 * Len(ls[i]) + 2 /\ TextAt(stream, b[i - 1], ls[i], x)
      /\ \A i, j \in h .. e : i <= j => b[i] <= b[j]
  BY <1>1 DEF Cut
<1>. DEFINE c == [i \in h .. g |-> IF i <= e THEN b[i] ELSE t]
<1>9. /\ \A i \in h .. e : c[i] = b[i] /\ c[i] \in 0 .. l
      /\ c[g] = t
      /\ c = [i \in h .. g |-> c[i]]
  BY <1>5, <1>7, <1>8
<1>. HIDE DEF c
<1>10. \A i \in h .. g : i \in h .. e \/ i = g
  BY <1>5
<1>11. c \in [h .. g -> 0 .. t]
  <2>1. ASSUME NEW i \in h .. g PROVE c[i] \in 0 .. t
    <3>1. l <= t /\ t \in 0 .. t
      BY <1>5
    <3>2. CASE i = g
      BY <1>9, <3>1, <3>2
    <3>3. CASE i \in h .. e
      <4>1. c[i] \in 0 .. l
        BY <1>9, <3>3
      <4>. QED  BY <3>1, <4>1
    <3>. QED  BY <1>10, <3>2, <3>3
  <2>. QED  BY <1>9, <2>1
<1>12. c[h] = 0 /\ c[g] = t /\ c[e] = l
  <2>1. h \in h .. e /\ e \in h .. e
    BY <1>7
  <2>. QED  BY <1>8, <1>9, <2>1
<1>13. ASSUME NEW i \in h .. g, NEW j \in h .. g, i <= j PROVE c[i] <= c[j]
  <2>1. CASE j = g
    <3>1. c[i] \in 0 .. t /\ t \in Nat
      BY <1>11
    <3>. QED  BY <1>9, <2>1, <3>1
  <2>2. CASE j \in h .. e
    <3>1. i \in h .. e
      BY <1>5, <1>13, <2>2
    <3>. QED  BY <1>8, <1>9, <1>13, <2>2, <3>1
  <2>. QED  BY <1>10, <2>1, <2>2
<1>14. ASSUME NEW i \in h + 1 .. g
       PROVE  c[i] = c[i - 1] + 2 * Len(sent[i]) + 2 /\ TextAt(longer, c[i - 1], sent[i], x)
  <2>1. CASE i = g
    <3>1. c[i] = t /\ c[i - 1] = l /\ sent[i] = words /\ t = l + d + 2
      BY <1>4, <1>5, <1>12, <2>1
    <3>2. \A j \in 1 .. 2 * Len(words) + 2 : longer[l + j] = text[0 + j]
      <4>1. ASSUME NEW j \in 1 .. d + 2 PROVE longer[l + j] = text[0 + j]
        BY <1>6
      <4>. QED  BY <1>2, <4>1
    <3>3. TextAt(longer, l, words, x)
      <4>1. 0 \in Nat
        OBVIOUS
      <4>. QED  BY <3>2, <4>1, TextMoves
    <3>. QED  BY <1>2, <3>1, <3>3
  <2>2. CASE i \in h + 1 .. e
    <3>1. i \in h .. e /\ i - 1 \in h .. e /\ i \in 1 .. e
      BY <2>2
    <3>2. PICK w \in Seq(Vocabulary) : w = ls[i]
      BY <1>1, <3>1
    <3>3. PICK o, v \in Nat : o = b[i - 1] /\ v = b[i] /\ v <= l
      <4>1. b[i] \in 0 .. l /\ b[i - 1] \in 0 .. l
        BY <1>8, <3>1
      <4>2. b[i] \in Nat /\ b[i - 1] \in Nat /\ b[i] <= l
        BY <4>1, SMTT(30)
      <4>. QED  BY <4>2, Zenon
    <3>4. v = o + 2 * Len(w) + 2 /\ TextAt(stream, o, w, x)
      BY <1>8, <2>2, <3>2, <3>3
    <3>5. ASSUME NEW j \in 1 .. 2 * Len(w) + 2 PROVE longer[o + j] = stream[o + j]
      <4>1. PICK k \in Nat : k = 2 * Len(w)
        OBVIOUS
      <4>2. v = o + k + 2 /\ v <= l /\ j \in 1 .. k + 2
        BY <3>3, <3>4, <4>1
      <4>3. o + j \in 1 .. l
        BY <4>2
      <4>. QED  BY <1>6, <4>3
    <3>6. TextAt(longer, o, w, x)
      BY <3>4, <3>5, TextMoves
    <3>7. c[i] = v /\ c[i - 1] = o /\ sent[i] = w
      BY <1>4, <1>9, <3>1, <3>2, <3>3
    <3>. QED  BY <3>4, <3>6, <3>7
  <2>3. i = g \/ i \in h + 1 .. e
    BY <1>5
  <2>. QED  BY <2>1, <2>2, <2>3
<1>15. Len(sent) = g /\ Len(longer) = t
  BY <1>4, <1>5, <1>6
<1>16. Cut(longer, sent, h, x, c)
  BY <1>11, <1>12, <1>13, <1>14, <1>15 DEF Cut
<1>. QED  BY <1>3, <1>16

(* What a client sends for a line.                                          *)
LEMMA TextOfLine ==
  ASSUME NEW words \in Seq(Vocabulary), separator \in Blank
  PROVE  /\ Text(words) \in Seq(Symbols) /\ Len(Text(words)) = 2 * Len(words) + 2
         /\ TextAt(Text(words), 0, words, separator)
<1>1. PICK n \in Nat : n = Len(words)
  OBVIOUS
<1>2. PICK d \in Nat : d = 2 * n
  OBVIOUS
<1>. DEFINE s == [i \in 1 .. d |-> IF i % 2 = 1 THEN words[(i + 1) \div 2] ELSE separator]
            z == <<"CR", "LF">>
<1>3. Text(words) = s \o z
  BY <1>1, <1>2 DEF Text
<1>4. ASSUME NEW i \in 1 .. d
      PROVE  IF i % 2 = 1 THEN words[(i + 1) \div 2] \in Symbols ELSE separator \in Symbols
  <2>1. i % 2 = 1 => (i + 1) \div 2 \in 1 .. n
    BY <1>2
  <2>. QED  BY <1>1, <2>1 DEF Symbols
<1>5. s \in Seq(Symbols) /\ Len(s) = d
  <2>1. s \in [1 .. d -> Symbols]
    BY <1>4
  <2>. HIDE DEF s
  <2>. QED  BY <2>1
<1>6. \A i \in 1 .. d : s[i] = IF i % 2 = 1 THEN words[(i + 1) \div 2] ELSE separator
  OBVIOUS
<1>7. z \in Seq(Symbols) /\ Len(z) = 2 /\ z[1] = "CR" /\ z[2] = "LF"
  BY DEF Symbols, Blank
<1>. HIDE DEF s, z
<1>8. PICK t \in Seq(Symbols) : t = s \o z
  BY <1>5, <1>7, ConcatProperties
<1>9. Len(t) = d + 2 /\ (\A i \in 1 .. d : t[i] = s[i]) /\ t[d + 1] = "CR" /\ t[d + 2] = "LF"
  <2>1. /\ Len(t) = Len(s) + Len(z)
        /\ \A i \in 1 .. Len(s) + Len(z) : t[i] = IF i <= Len(s) THEN s[i] ELSE z[i - Len(s)]
    BY <1>5, <1>7, <1>8, ConcatProperties
  <2>2. \A i \in 1 .. d + 2 : t[i] = IF i <= d THEN s[i] ELSE z[i - d]
    BY <1>5, <1>7, <2>1
  <2>3. d + 1 \in 1 .. d + 2 /\ d + 2 \in 1 .. d + 2 /\ d + 1 - d = 1 /\ d + 2 - d = 2
    OBVIOUS
  <2>4. t[d + 1] = z[1] /\ t[d + 2] = z[2]
    BY <2>2, <2>3
  <2>. QED  BY <1>5, <1>7, <2>1, <2>2, <2>4
<1>10. ASSUME NEW j \in 1 .. n PROVE t[0 + 2 * j - 1] = words[j] /\ t[0 + 2 * j] = separator
  <2>1. PICK k \in Nat : k = 2 * j /\ k >= 2 /\ k <= d
    BY <1>2
  <2>2. k - 1 \in 1 .. d /\ k \in 1 .. d /\ (k - 1) % 2 = 1 /\ k % 2 # 1 /\ ((k - 1) + 1) \div 2 = j
    BY <2>1
  <2>3. t[k - 1] = words[j] /\ t[k] = separator
    BY <1>6, <1>9, <2>2
  <2>4. 0 + 2 * j - 1 = k - 1 /\ 0 + 2 * j = k
    BY <2>1
  <2>. QED  BY <2>3, <2>4
<1>11. TextAt(t, 0, words, separator)
  <2>1. 0 + 2 * n + 1 = d + 1 /\ 0 + 2 * n + 2 = d + 2
    BY <1>2
  <2>. QED  BY <1>1, <1>9, <1>10, <2>1 DEF TextAt
<1>. QED  BY <1>1, <1>2, <1>3, <1>8, <1>9, <1>11

(* The words read so far, after each of the first n symbols.                *)
Read(s, n, text) ==
  s = [i \in 0 .. n |->
         IF i = 0 THEN <<>>
         ELSE IF text[i] \in Blank THEN s[i - 1] ELSE Append(s[i - 1], text[i])]

More(s, symbol) == IF symbol \in Blank THEN s ELSE Append(s, symbol)

LEMMA ReadStep ==
  ASSUME NEW s, NEW n \in Nat, NEW text, Read(s, n, text)
  PROVE  s[0] = <<>> /\ \A i \in 1 .. n : s[i] = More(s[i - 1], text[i])
<1>. DEFINE e(i) == IF i = 0 THEN <<>>
                    ELSE IF text[i] \in Blank THEN s[i - 1] ELSE Append(s[i - 1], text[i])
<1>1. s = [i \in 0 .. n |-> e(i)]
  BY DEF Read
<1>2. \A i \in 0 .. n : s[i] = e(i)
  <2>. HIDE DEF e
  <2>. QED  BY <1>1
<1>3. 0 \in 0 .. n /\ \A i \in 1 .. n : i \in 0 .. n /\ i # 0
  OBVIOUS
<1>. QED  BY <1>2, <1>3 DEF More

LEMMA ReadExists ==
  ASSUME NEW text
  PROVE  \A n \in Nat : \E s : Read(s, n, text)
<1>. DEFINE S == {n \in Nat : \E s : Read(s, n, text)}
<1>1. 0 \in S
  <2>. DEFINE s == [i \in 0 .. 0 |-> <<>>]
  <2>1. \A i \in 0 .. 0 : i = 0
    OBVIOUS
  <2>2. Read(s, 0, text)
    BY <2>1 DEF Read
  <2>. QED  BY <2>2
<1>2. ASSUME NEW n \in Nat, n \in S PROVE n + 1 \in S
  <2>1. PICK s : Read(s, n, text)
    BY <1>2
  <2>2. s[0] = <<>> /\ \A i \in 1 .. n : s[i] = More(s[i - 1], text[i])
    BY <2>1, ReadStep
  <2>. DEFINE r == [i \in 0 .. n + 1 |-> IF i <= n THEN s[i] ELSE More(s[n], text[n + 1])]
  <2>3. /\ \A i \in 0 .. n : r[i] = s[i]
        /\ r[n + 1] = More(s[n], text[n + 1])
    OBVIOUS
  <2>4. ASSUME NEW i \in 0 .. n + 1
        PROVE  r[i] = IF i = 0 THEN <<>> ELSE More(r[i - 1], text[i])
    <3>1. CASE i = n + 1
      <4>1. n \in 0 .. n /\ i - 1 = n /\ i # 0
        BY <3>1
      <4>2. r[i - 1] = s[n] /\ r[i] = More(s[n], text[i])
        BY <2>3, <3>1, <4>1
      <4>. QED  BY <4>1, <4>2
    <3>2. CASE i = 0
      BY <2>2, <2>3, <3>2
    <3>3. CASE i \in 1 .. n
      <4>1. i \in 0 .. n /\ i - 1 \in 0 .. n /\ i # 0
        BY <3>3
      <4>2. r[i - 1] = s[i - 1] /\ r[i] = s[i]
        BY <2>3, <4>1
      <4>3. s[i] = More(s[i - 1], text[i])
        BY <2>2, <3>3
      <4>. QED  BY <4>1, <4>2, <4>3
    <3>. QED  BY <3>1, <3>2, <3>3
  <2>5. r = [i \in 0 .. n + 1 |-> r[i]]
    OBVIOUS
  <2>. HIDE DEF r
  <2>6. Read(r, n + 1, text)
    BY <2>4, <2>5 DEF Read, More
  <2>. QED  BY <2>6
<1>3. Nat \subseteq S
  <2>. HIDE DEF S
  <2>. QED  BY <1>1, <1>2, Induction
<1>. QED  BY <1>3

(* A text is read as the words of its line.                                 *)
LEMMA ReadText ==
  ASSUME NEW words \in Seq(Vocabulary), NEW x \in Blank, NEW text, TextAt(text, 0, words, x),
         NEW n \in Nat, n = 2 * Len(words) + 2, NEW s, Read(s, n, text)
  PROVE  s[n] = words
<1>1. PICK l \in Nat : l = Len(words)
  OBVIOUS
<1>2. s[0] = <<>> /\ \A i \in 1 .. n : s[i] = More(s[i - 1], text[i])
  BY ReadStep
<1>3. PICK m \in Nat : m = n /\ m = 2 * l + 2
  BY <1>1
<1>4. \A i \in 1 .. l : text[2 * i - 1] = words[i] /\ text[2 * i] = x
  BY <1>1 DEF TextAt
<1>5. \A i \in 1 .. l : words[i] \in Vocabulary /\ words[i] \notin Blank
  BY <1>1, LineAssumption
(* After the first k words and what follows each.                           *)
<1>. DEFINE P(k) == /\ s[2 * k] \in Seq(Vocabulary) /\ Len(s[2 * k]) = k
                    /\ \A i \in 1 .. k : s[2 * k][i] = words[i]
            S == {k \in Nat : k <= l => P(k)}
<1>6. 0 \in S
  <2>1. PICK z \in Nat : z = 0 /\ z = 2 * z
    OBVIOUS
  <2>2. s[z] \in Seq(Vocabulary) /\ Len(s[z]) = 0 /\ \A i \in 1 .. 0 : s[z][i] = words[i]
    <3>1. s[z] = <<>>
      BY <1>2, <2>1
    <3>2. <<>> \in Seq(Vocabulary) /\ Len(<<>>) = 0 /\ \A i \in 1 .. 0 : FALSE
      OBVIOUS
    <3>. QED  BY <3>1, <3>2
  <2>3. P(z)
    BY <2>1, <2>2
  <2>. QED  BY <2>1, <2>3
<1>7. ASSUME NEW k \in Nat, k \in S PROVE k + 1 \in S
  <2>. SUFFICES ASSUME k + 1 <= l PROVE P(k + 1)
    OBVIOUS
  <2>1. PICK d \in Nat : d = 2 * k /\ d + 2 <= m
    BY <1>3
  <2>2. 2 * (k + 1) = d + 2 /\ k + 1 \in 1 .. l /\ 2 * (k + 1) - 1 = d + 1
    BY <2>1
  <2>3. PICK w \in Seq(Vocabulary) : w = s[d] /\ Len(w) = k /\ \A i \in 1 .. k : w[i] = words[i]
    BY <1>7, <2>1
  <2>4. PICK y \in Vocabulary : y = words[k + 1] /\ y \notin Blank /\ text[d + 1] = y /\ text[d + 2] = x
    BY <1>4, <1>5, <2>2
  <2>5. d + 1 \in 1 .. m /\ d + 2 \in 1 .. m /\ (d + 1) - 1 = d /\ (d + 2) - 1 = d + 1
    BY <2>1
  <2>6. s[d + 1] = Append(w, y)
    BY <1>2, <1>3, <2>3, <2>4, <2>5 DEF More
  <2>7. s[d + 2] = Append(w, y)
    BY <1>2, <1>3, <2>4, <2>5, <2>6 DEF More
  <2>8. PICK v \in Seq(Vocabulary) : v = Append(w, y)
    BY AppendProperties
  <2>9. Len(v) = k + 1 /\ \A i \in 1 .. k + 1 : v[i] = words[i]
    <3>1. /\ Len(v) = Len(w) + 1 /\ v[Len(w) + 1] = y
          /\ \A i \in 1 .. Len(w) : v[i] = w[i]
      BY <2>8, AppendProperties
    <3>2. Len(v) = k + 1 /\ v[k + 1] = y /\ \A i \in 1 .. k : v[i] = w[i]
      BY <2>3, <3>1
    <3>3. \A i \in 1 .. k + 1 : i \in 1 .. k \/ i = k + 1
      OBVIOUS
    <3>. QED  BY <2>3, <2>4, <3>2, <3>3
  <2>. QED  BY <2>2, <2>7, <2>8, <2>9
<1>8. Nat \subseteq S
  <2>. HIDE DEF S
  <2>. QED  BY <1>6, <1>7, Induction
<1>9. P(l)
  <2>1. l \in S
    <3>. HIDE DEF S
    <3>. QED  BY <1>8
  <2>2. l <= l
    OBVIOUS
  <2>. QED  BY <2>1, <2>2
<1>. HIDE DEF P
<1>10. s[2 * l] = words
  <2>1. PICK w \in Seq(Vocabulary) : w = s[2 * l] /\ Len(w) = l /\ \A i \in 1 .. l : w[i] = words[i]
    BY <1>9 DEF P
  <2>2. w = words
    BY <1>1, <2>1, SeqEqual
  <2>. QED  BY <2>1, <2>2
<1>11. PICK d \in Nat : d = 2 * l
  OBVIOUS
<1>12. text[d + 1] \in Blank /\ text[d + 2] \in Blank
  <2>1. text[0 + 2 * l + 1] = "CR" /\ text[0 + 2 * l + 2] = "LF"
    BY <1>1 DEF TextAt
  <2>2. 0 + 2 * l + 1 = d + 1 /\ 0 + 2 * l + 2 = d + 2
    BY <1>11
  <2>. QED  BY <2>1, <2>2 DEF Blank
<1>13. d + 1 \in 1 .. m /\ d + 2 \in 1 .. m /\ (d + 1) - 1 = d /\ (d + 2) - 1 = d + 1 /\ m = d + 2
  BY <1>3, <1>11
<1>14. s[d + 1] = s[d]
  BY <1>2, <1>3, <1>12, <1>13 DEF More
<1>15. s[d + 2] = s[d + 1]
  BY <1>2, <1>3, <1>12, <1>13 DEF More
<1>. QED  BY <1>3, <1>10, <1>11, <1>13, <1>14, <1>15

(* Words, of a whole line.                                                  *)
LEMMA WordsOfLine ==
  ASSUME NEW words \in Seq(Vocabulary), NEW x \in Blank, TextAt(buf, 0, words, x),
         NEW n \in Nat, n = 2 * Len(words) + 2
  PROVE  Words(n) = words
<1>. DEFINE s == CHOOSE s : Read(s, n, buf)
<1>1. Read(s, n, buf)
  BY ReadExists
<1>2. Words(n) = s[n]
  BY DEF Words, Read
<1>. HIDE DEF s
<1>3. s[n] = words
  BY <1>1, ReadText
<1>. QED  BY <1>2, <1>3

(* The stream is what the server has read and not consumed, and what is on  *)
(* its way.                                                                 *)
StreamInv ==
  /\ separator \in Blank
  /\ lines \in Seq(Seq(Vocabulary))
  /\ wire \in Seq(Symbols) /\ buf \in Seq(Symbols)
  /\ handled \in Nat /\ handled <= Len(lines)
  /\ \E b : Cut(buf \o wire, lines, handled, separator, b)

LEMMA LeastIsMin ==
  ASSUME NEW S \in SUBSET Nat, NEW n \in S, \A k \in S : n <= k
  PROVE  Min(S) = n
<1>. DEFINE m == CHOOSE k \in S : \A j \in S : k <= j
<1>1. m \in S /\ \A j \in S : m <= j
  OBVIOUS
<1>2. Min(S) = m
  BY DEF Min
<1>. HIDE DEF m
<1>. QED  BY <1>1, <1>2

(* The pieces a read takes the stream in.                                   *)
LEMMA Pieces ==
  ASSUME NEW s \in Seq(Symbols), NEW n \in 0 .. Len(s)
  PROVE  /\ SubSeq(s, 1, n) \in Seq(Symbols) /\ SubSeq(s, n + 1, Len(s)) \in Seq(Symbols)
         /\ SubSeq(s, 1, n) \o SubSeq(s, n + 1, Len(s)) = s
<1>1. PICK l, k \in Nat : l = Len(s) /\ k = n /\ k <= l
  OBVIOUS
<1>2. /\ (\A i \in 1 .. k : s[i] \in Symbols) /\ (\A i \in k + 1 .. l : s[i] \in Symbols)
      /\ 1 \in Int /\ k \in Int /\ k + 1 \in Int /\ l \in Int
  BY <1>1
<1>3. SubSeq(s, 1, k) \in Seq(Symbols) /\ SubSeq(s, k + 1, l) \in Seq(Symbols)
  BY <1>2, SubSeqProperties
<1>4. 1 \in 1 .. Len(s) + 1 /\ k \in 1 - 1 .. Len(s) /\ l \in k .. Len(s)
  BY <1>1
<1>5. SubSeq(s, 1, k) \o SubSeq(s, k + 1, l) = SubSeq(s, 1, l)
  BY <1>4, ConcatAdjacentSubSeq
<1>6. SubSeq(s, 1, l) = s
  BY <1>1, SubSeqFull
<1>. QED  BY <1>1, <1>3, <1>5, <1>6

LEMMA Associative ==
  ASSUME NEW r1 \in Seq(Symbols), NEW r2 \in Seq(Symbols), NEW r3 \in Seq(Symbols)
  PROVE  (r1 \o r2) \o r3 = r1 \o (r2 \o r3)
  BY ConcatAssociative

LEMMA Restream ==
  ASSUME NEW s \in Seq(Symbols), NEW w \in Seq(Symbols), NEW n \in 0 .. Len(w)
  PROVE  (s \o SubSeq(w, 1, n)) \o SubSeq(w, n + 1, Len(w)) = s \o w
<1>1. PICK a, z \in Seq(Symbols) :
        a = SubSeq(w, 1, n) /\ z = SubSeq(w, n + 1, Len(w)) /\ a \o z = w
  BY Pieces, ZenonT(30)
<1>2. (s \o a) \o z = s \o (a \o z)
  BY Associative, ZenonT(30)
<1>. QED  BY <1>1, <1>2

(* What consume leaves.                                                     *)
LEMMA RestOfBuf ==
  ASSUME NEW s \in Seq(Symbols), NEW w \in Seq(Symbols), NEW n \in 0 .. Len(s)
  PROVE  /\ SubSeq(s, n + 1, Len(s)) \o w \in Seq(Symbols)
         /\ RestOf(SubSeq(s, n + 1, Len(s)) \o w, s \o w, n)
<1>1. PICK a, z \in Seq(Symbols) :
        a = SubSeq(s, 1, n) /\ z = SubSeq(s, n + 1, Len(s)) /\ a \o z = s
  BY Pieces, ZenonT(30)
<1>2. PICK k \in Nat : k = n /\ Len(a) = k
  <2>1. \A i \in 1 .. n : s[i] \in Symbols
    OBVIOUS
  <2>2. Len(SubSeq(s, 1, n)) = IF 1 <= n THEN n - 1 + 1 ELSE 0
    BY <2>1, SubSeqProperties
  <2>. QED  BY <1>1, <2>2
<1>3. PICK r \in Seq(Symbols) : r = z \o w
  BY ConcatProperties
<1>4. s \o w = a \o r
  <2>1. (a \o z) \o w = a \o (z \o w)
    BY Associative, ZenonT(30)
  <2>. QED  BY <1>1, <1>3, <2>1
<1>5. PICK t \in Seq(Symbols) : t = a \o r
  BY ConcatProperties
<1>6. Len(t) = Len(a) + Len(r)
      /\ \A i \in 1 .. Len(a) + Len(r) : t[i] = IF i <= Len(a) THEN a[i] ELSE r[i - Len(a)]
  BY <1>5, ConcatProperties
<1>7. PICK d \in Nat : d = Len(r)
  OBVIOUS
<1>8. ASSUME NEW i \in 1 .. d PROVE r[i] = t[i + k]
  <2>1. i + k \in 1 .. k + d /\ ~ (i + k <= k) /\ i + k - k = i
    OBVIOUS
  <2>. QED  BY <1>2, <1>6, <1>7, <2>1
<1>9. RestOf(r, t, k)
  BY <1>2, <1>6, <1>7, <1>8 DEF RestOf
<1>. QED  BY <1>1, <1>2, <1>3, <1>4, <1>5, <1>9

LEMMA SentStream ==
  ASSUME NEW s \in Seq(Symbols), NEW w \in Seq(Symbols), NEW t \in Seq(Symbols)
  PROVE  /\ s \o (w \o t) \in Seq(Symbols)
         /\ Continued(s \o (w \o t), s \o w, t)
<1>1. PICK a \in Seq(Symbols) : a = s \o w
  BY ConcatProperties
<1>2. PICK r \in Seq(Symbols) : r = a \o t
  BY ConcatProperties
<1>3. s \o (w \o t) = r
  BY <1>1, <1>2, ConcatAssociative
<1>4. Len(r) = Len(a) + Len(t)
      /\ \A i \in 1 .. Len(a) + Len(t) : r[i] = IF i <= Len(a) THEN a[i] ELSE t[i - Len(a)]
  BY <1>2, ConcatProperties
<1>5. PICK k, d \in Nat : k = Len(a) /\ d = Len(t)
  OBVIOUS
<1>6. \A i \in 1 .. k : i \in 1 .. k + d /\ i <= k
  OBVIOUS
<1>7. \A i \in 1 .. d : k + i \in 1 .. k + d /\ ~ (k + i <= k) /\ k + i - k = i
  OBVIOUS
<1>8. Continued(r, a, t)
  <2>1. \A i \in 1 .. k + d : r[i] = IF i <= k THEN a[i] ELSE t[i - k]
    BY <1>4, <1>5
  <2>2. \A i \in 1 .. k : r[i] = a[i]
    BY <1>6, <2>1
  <2>3. ASSUME NEW i \in 1 .. d PROVE r[k + i] = t[i]
    BY <1>7, <2>1
  <2>. QED  BY <1>4, <1>5, <2>2, <2>3 DEF Continued
<1>. QED  BY <1>1, <1>3, <1>8

(* The server takes the first line of those it has not handled.             *)
LEMMA NextLine ==
  ASSUME StreamInv, Ends # {}
  PROVE  \E n \in Nat : \E b :
           /\ Cut(buf \o wire, lines, handled, separator, b)
           /\ n = Min(Ends) /\ n = b[handled + 1] /\ n <= Len(buf)
           /\ handled < Len(lines) /\ Words(n) = lines[handled + 1]
<1>1. PICK stream \in Seq(Symbols) : stream = buf \o wire
  BY ConcatProperties DEF StreamInv
<1>2. PICK b : Cut(stream, lines, handled, separator, b)
  BY <1>1 DEF StreamInv
<1>3. PICK l, k \in Nat : l = Len(buf) /\ k = Len(stream) /\ l <= k /\ \A i \in 1 .. l : stream[i] = buf[i]
  <2>1. PICK l, d \in Nat : l = Len(buf) /\ d = Len(wire)
    BY DEF StreamInv
  <2>2. PICK k \in Nat : k = l + d
    OBVIOUS
  <2>3. Len(stream) = k /\ \A i \in 1 .. k : stream[i] = IF i <= l THEN buf[i] ELSE wire[i - l]
    BY <1>1, <2>1, <2>2, ConcatProperties DEF StreamInv
  <2>4. l <= k /\ \A i \in 1 .. l : i \in 1 .. k /\ i <= l
    BY <2>2
  <2>. QED  BY <2>1, <2>3, <2>4
<1>4. ASSUME NEW e \in Ends
      PROVE  /\ handled < Len(lines) /\ b[handled + 1] = 2 * Len(lines[handled + 1]) + 2
             /\ b[handled + 1] <= e /\ TextAt(stream, 0, lines[handled + 1], separator)
             /\ e <= l
  <2>1. e \in 2 .. l /\ buf[e - 1] = "CR" /\ buf[e] = "LF"
    BY <1>3 DEF Ends, DelimiterAt
  <2>2. e - 1 \in 1 .. l /\ e \in 1 .. l /\ e \in 2 .. Len(stream) /\ e <= l
    BY <1>3, <2>1
  <2>3. stream[e - 1] = "CR" /\ stream[e] = "LF"
    BY <1>3, <2>1, <2>2
  <2>. QED  BY <1>2, <2>2, <2>3, CutFirst DEF StreamInv
<1>5. PICK h \in Nat : h = handled /\ h < Len(lines) /\ h + 1 \in 1 .. Len(lines)
  BY <1>4 DEF StreamInv
<1>6. PICK words \in Seq(Vocabulary) : words = lines[h + 1]
  BY <1>5 DEF StreamInv
<1>7. PICK d \in Nat : d = 2 * Len(words)
  OBVIOUS
<1>8. PICK n \in Nat : n = d + 2
  OBVIOUS
<1>9. /\ b[h + 1] = n /\ TextAt(stream, 0, words, separator)
      /\ \A e \in Ends : n <= e /\ e <= l
  BY <1>4, <1>5, <1>6, <1>7, <1>8
<1>10. n <= l
  <2>1. PICK e \in Ends : n <= e /\ e <= l
    BY <1>9
  <2>2. e \in Nat
    BY DEF Ends
  <2>. QED  BY <2>1, <2>2
<1>11. \A j \in 1 .. 2 * Len(words) + 2 : buf[0 + j] = stream[0 + j]
  <2>1. ASSUME NEW j \in 1 .. n PROVE buf[0 + j] = stream[0 + j]
    <3>1. j \in 1 .. l /\ 0 + j = j
      BY <1>10
    <3>. QED  BY <1>3, <3>1
  <2>. QED  BY <1>7, <1>8, <2>1
<1>12. TextAt(buf, 0, words, separator)
  <2>1. 0 \in Nat
    OBVIOUS
  <2>. QED  BY <1>9, <1>11, <2>1, TextMoves
<1>13. Words(n) = words
  BY <1>7, <1>8, <1>12, WordsOfLine DEF StreamInv
<1>14. n \in Ends
  <2>1. buf[0 + 2 * Len(words) + 1] = "CR" /\ buf[0 + 2 * Len(words) + 2] = "LF"
    BY <1>12 DEF TextAt
  <2>2. 0 + 2 * Len(words) + 1 = n - 1 /\ 0 + 2 * Len(words) + 2 = n
    BY <1>7, <1>8
  <2>3. n \in 2 .. l
    BY <1>8, <1>10
  <2>. QED  BY <1>3, <2>1, <2>2, <2>3 DEF Ends, DelimiterAt
<1>15. Min(Ends) = n
  <2>1. Ends \in SUBSET Nat
    BY <1>3 DEF Ends
  <2>2. \A e \in Ends : n <= e
    BY <1>9
  <2>. QED  BY <1>14, <2>1, <2>2, LeastIsMin
<1>. QED  BY <1>1, <1>2, <1>3, <1>5, <1>6, <1>9, <1>10, <1>13, <1>15

LEMMA StreamInitInv == Init => StreamInv
<1>. SUFFICES ASSUME Init PROVE StreamInv
  OBVIOUS
<1>. DEFINE z == <<>>
<1>1. z \in Seq(Symbols) /\ z \in Seq(Seq(Vocabulary)) /\ Len(z) = 0 /\ z \o z = z
  BY ConcatEmptySeq
<1>2. PICK b : b = [i \in 0 .. 0 |-> 0]
  OBVIOUS
<1>3. b \in [0 .. 0 -> 0 .. 0] /\ \A i \in 0 .. 0 : b[i] = 0 /\ i = 0
  BY <1>2
<1>4. 0 \in 0 .. 0 /\ 0 + 1 .. 0 = {}
  OBVIOUS
<1>5. buf = z /\ wire = z /\ lines = z /\ handled = 0
  BY DEF Init
<1>. HIDE DEF z
<1>6. Cut(z, z, 0, separator, b)
  BY <1>1, <1>3, <1>4 DEF Cut
<1>7. separator \in Blank
  BY LineAssumption DEF Init
<1>. QED  BY <1>1, <1>5, <1>6, <1>7 DEF StreamInv

LEMMA ReadSomeStream ==
  ASSUME StreamInv, ReadSome
  PROVE  StreamInv'
<1>1. PICK n \in 1 .. Len(wire) :
        buf' = buf \o SubSeq(wire, 1, n) /\ wire' = SubSeq(wire, n + 1, Len(wire))
  BY DEF ReadSome
<1>2. UNCHANGED <<separator, lines, handled>>
  BY DEF ReadSome
<1>3. buf \in Seq(Symbols) /\ wire \in Seq(Symbols) /\ n \in 0 .. Len(wire)
  BY DEF StreamInv
<1>4. SubSeq(wire, 1, n) \in Seq(Symbols) /\ wire' \in Seq(Symbols)
  BY <1>1, <1>3, Pieces
<1>5. buf' \in Seq(Symbols)
  BY <1>1, <1>3, <1>4, ConcatProperties
<1>6. buf' \o wire' = buf \o wire
  BY <1>1, <1>3, Restream
<1>. QED  BY <1>2, <1>4, <1>5, <1>6 DEF StreamInv

LEMMA ClientSendsStream ==
  ASSUME StreamInv, ClientSends
  PROVE  StreamInv' /\ \A i \in 1 .. handled : lines'[i] = lines[i]
<1>1. PICK words \in Lines : lines' = Append(lines, words) /\ wire' = wire \o Text(words)
  BY DEF ClientSends
<1>2. UNCHANGED <<separator, buf, handled>>
  BY DEF ClientSends
<1>3. words \in Seq(Vocabulary)
  BY LineAssumption
<1>4. PICK text \in Seq(Symbols) : /\ text = Text(words) /\ Len(text) = 2 * Len(words) + 2
                                   /\ TextAt(text, 0, words, separator)
  BY <1>3, TextOfLine DEF StreamInv
<1>5. PICK stream, longer \in Seq(Symbols) :
        stream = buf \o wire /\ longer = buf' \o wire' /\ Continued(longer, stream, text)
  <2>1. buf \o wire \in Seq(Symbols)
    BY ConcatProperties DEF StreamInv
  <2>2. buf \o (wire \o text) \in Seq(Symbols) /\ Continued(buf \o (wire \o text), buf \o wire, text)
    BY SentStream DEF StreamInv
  <2>3. buf' \o wire' = buf \o (wire \o text)
    BY <1>1, <1>2, <1>4
  <2>. QED  BY <2>1, <2>2, <2>3
<1>6. PICK b : Cut(stream, lines, handled, separator, b)
  BY <1>5 DEF StreamInv
<1>7. PICK c : Cut(longer, Append(lines, words), handled, separator, c)
  BY <1>3, <1>4, <1>5, <1>6, CutSend DEF StreamInv
<1>8. wire' \in Seq(Symbols)
  BY <1>1, <1>4, ConcatProperties DEF StreamInv
<1>9. /\ lines' \in Seq(Seq(Vocabulary)) /\ Len(lines') = Len(lines) + 1
      /\ \A i \in 1 .. Len(lines) : lines'[i] = lines[i]
  BY <1>1, <1>3, AppendProperties DEF StreamInv
<1>10. handled <= Len(lines') /\ \A i \in 1 .. handled : i \in 1 .. Len(lines)
  BY <1>9 DEF StreamInv
<1>11. Cut(buf' \o wire', lines', handled', separator', c)
  BY <1>1, <1>2, <1>5, <1>7
<1>12. StreamInv'
  BY <1>2, <1>8, <1>9, <1>10, <1>11 DEF StreamInv
<1>. QED  BY <1>9, <1>10, <1>12

LEMMA HandleReadStream ==
  ASSUME StreamInv, HandleRead
  PROVE  /\ StreamInv' /\ handled' = handled + 1 /\ lines' = lines /\ handled < Len(lines)
         /\ lines[handled + 1] \in Seq(Vocabulary) /\ Words(Min(Ends)) = lines[handled + 1]
<1>0. PICK n \in Nat : \E b :
           /\ Cut(buf \o wire, lines, handled, separator, b)
           /\ n = Min(Ends) /\ n = b[handled + 1] /\ n <= Len(buf)
           /\ handled < Len(lines) /\ Words(n) = lines[handled + 1]
  BY NextLine DEF HandleRead
<1>1. PICK b :
           /\ Cut(buf \o wire, lines, handled, separator, b)
           /\ n = Min(Ends) /\ n = b[handled + 1] /\ n <= Len(buf)
           /\ handled < Len(lines) /\ Words(n) = lines[handled + 1]
  BY <1>0
<1>2. buf' = SubSeq(buf, n + 1, Len(buf)) /\ handled' = handled + 1 /\ UNCHANGED netVars
  BY <1>1 DEF HandleRead, Consume
<1>3. n \in 0 .. Len(buf) /\ buf \in Seq(Symbols) /\ wire \in Seq(Symbols)
  BY <1>1 DEF StreamInv
<1>4. UNCHANGED <<separator, lines, wire>>
  BY <1>2 DEF netVars
<1>5. PICK stream, rest \in Seq(Symbols) :
        stream = buf \o wire /\ rest = buf' \o wire' /\ RestOf(rest, stream, n)
  <2>1. buf \o wire \in Seq(Symbols)
    BY <1>3, ConcatProperties
  <2>2. /\ SubSeq(buf, n + 1, Len(buf)) \o wire \in Seq(Symbols)
        /\ RestOf(SubSeq(buf, n + 1, Len(buf)) \o wire, buf \o wire, n)
    BY <1>3, RestOfBuf
  <2>. QED  BY <1>2, <1>4, <2>1, <2>2
<1>6. \E c : Cut(rest, lines, handled + 1, separator, c)
  <2>1. Cut(stream, lines, handled, separator, b) /\ RestOf(rest, stream, b[handled + 1])
    BY <1>1, <1>5
  <2>. QED  BY <1>1, <2>1, CutConsume DEF StreamInv
<1>7. buf' \in Seq(Symbols)
  BY <1>2, <1>3, Pieces
<1>8. handled' \in Nat /\ handled' <= Len(lines) /\ handled + 1 \in 1 .. Len(lines)
  BY <1>1, <1>2 DEF StreamInv
<1>9. StreamInv'
  BY <1>2, <1>4, <1>5, <1>6, <1>7, <1>8 DEF StreamInv
<1>10. lines[handled + 1] \in Seq(Vocabulary)
  BY <1>8 DEF StreamInv
<1>. QED  BY <1>1, <1>2, <1>4, <1>9, <1>10

-----------------------------------------------------------------------------
(* Requests: what the lines say, of lines ls of which h are handled.        *)

Command(ls, i, c) == ls[i] # <<>> /\ Upper(Head(ls[i])) = c

NameGiven(ls, n, p) ==
  /\ n \in 1 .. p - 1 /\ Command(ls, n, "USER")
  /\ \A m \in n + 1 .. p - 1 : ~ Command(ls, m, "USER")

LogsIn(ls, p) ==
  Command(ls, p, "PASS") /\ \E n \in 1 .. p - 1 : NameGiven(ls, n, p) /\ Len(ls[n]) > 1

(* Nobody logged in yet; u is the last name.                                *)
LastName(ls, h, u) ==
  /\ \A p \in 1 .. h : ~ LogsIn(ls, p)
  /\ \/ u = <<>> /\ \A i \in 1 .. h : ~ Command(ls, i, "USER")
     \/ \E n \in 1 .. h : NameGiven(ls, n, h + 1) /\ u = Tail(ls[n])

LoggedIn(ls, h, u, a) ==
  \E p, n \in 1 .. h :
    /\ LogsIn(ls, p) /\ \A q \in 1 .. p - 1 : ~ LogsIn(ls, q)
    /\ NameGiven(ls, n, p) /\ u = Tail(ls[n])
    /\ a <=> anonymous_enable /\ u \in AnonymousNames

LoginIs(ls, h, u, v, a) ==
  v \in BOOLEAN /\ IF v THEN LoggedIn(ls, h, u, a) ELSE LastName(ls, h, u)

BinaryLine(ls, i) == Command(ls, i, "TYPE") /\ Tail(ls[i]) \in BinaryNames

AsciiLine(ls, i) == Command(ls, i, "TYPE") /\ Tail(ls[i]) \in AsciiNames

TypeIs(ls, h, t) ==
  t = "ascii" <=>
    \E i \in 1 .. h :
      /\ AsciiLine(ls, i) /\ \E p \in 1 .. i - 1 : LogsIn(ls, p)
      /\ \A j \in i + 1 .. h : ~ BinaryLine(ls, j)

(* Only the lines that are handled matter.                                  *)
LEMMA SameLines ==
  ASSUME NEW ls, NEW more, NEW h \in Nat, \A i \in 1 .. h : more[i] = ls[i],
         NEW u, NEW v, NEW a, NEW t, LoginIs(ls, h, u, v, a), TypeIs(ls, h, t)
  PROVE  LoginIs(more, h, u, v, a) /\ TypeIs(more, h, t)
<1>1. \A i \in 1 .. h : \A c : Command(more, i, c) <=> Command(ls, i, c)
  BY DEF Command
<1>2. ASSUME NEW p \in 1 .. h + 1, NEW n \in 1 .. h
      PROVE  NameGiven(more, n, p) <=> NameGiven(ls, n, p)
  <2>1. \A m \in n + 1 .. p - 1 : m \in 1 .. h
    OBVIOUS
  <2>. QED  BY <1>1, <2>1 DEF NameGiven
<1>3. ASSUME NEW p \in 1 .. h PROVE LogsIn(more, p) <=> LogsIn(ls, p)
  <2>1. p \in 1 .. h + 1 /\ \A n \in 1 .. p - 1 : n \in 1 .. h
    OBVIOUS
  <2>. QED  BY <1>1, <1>2, <2>1 DEF LogsIn
<1>4. LastName(ls, h, u) => LastName(more, h, u)
  <2>1. h + 1 \in 1 .. h + 1
    OBVIOUS
  <2>. QED  BY <1>1, <1>2, <1>3, <2>1 DEF LastName
<1>5. LoggedIn(ls, h, u, a) => LoggedIn(more, h, u, a)
  <2>. SUFFICES ASSUME LoggedIn(ls, h, u, a) PROVE LoggedIn(more, h, u, a)
    OBVIOUS
  <2>1. PICK p, n \in 1 .. h :
          /\ LogsIn(ls, p) /\ \A q \in 1 .. p - 1 : ~ LogsIn(ls, q)
          /\ NameGiven(ls, n, p) /\ u = Tail(ls[n])
          /\ a <=> anonymous_enable /\ u \in AnonymousNames
    BY DEF LoggedIn
  <2>2. p \in 1 .. h + 1 /\ \A q \in 1 .. p - 1 : q \in 1 .. h
    OBVIOUS
  <2>3. /\ LogsIn(more, p) /\ \A q \in 1 .. p - 1 : ~ LogsIn(more, q)
        /\ NameGiven(more, n, p) /\ u = Tail(more[n])
    BY <1>2, <1>3, <2>1, <2>2
  <2>. QED  BY <2>1, <2>3 DEF LoggedIn
<1>6. \A i \in 1 .. h : /\ BinaryLine(more, i) <=> BinaryLine(ls, i)
                        /\ AsciiLine(more, i) <=> AsciiLine(ls, i)
  BY <1>1 DEF BinaryLine, AsciiLine
<1>7. \A i \in 1 .. h : /\ \A j \in i + 1 .. h : j \in 1 .. h
                        /\ \A p \in 1 .. i - 1 : p \in 1 .. h
  OBVIOUS
<1>8. TypeIs(more, h, t)
  BY <1>3, <1>6, <1>7 DEF TypeIs
<1>. QED  BY <1>4, <1>5, <1>8 DEF LoginIs

LEMMA OneName ==
  ASSUME NEW ls, NEW p \in Nat, NEW n, NEW m, NameGiven(ls, n, p), NameGiven(ls, m, p)
  PROVE  n = m
<1>1. n \in 1 .. p - 1 /\ m \in 1 .. p - 1
  BY DEF NameGiven
<1>2. ~ (n < m)
  <2>1. n < m => m \in n + 1 .. p - 1
    BY <1>1
  <2>. QED  BY <2>1 DEF NameGiven
<1>3. ~ (m < n)
  <2>1. m < n => n \in m + 1 .. p - 1
    BY <1>1
  <2>. QED  BY <2>1 DEF NameGiven
<1>. QED  BY <1>1, <1>2, <1>3

(* A line that names nobody leaves the last name what it was.               *)
LEMMA NameStays ==
  ASSUME NEW ls, NEW h \in Nat, NEW n, ~ Command(ls, h + 1, "USER")
  PROVE  NameGiven(ls, n, h + 1) => NameGiven(ls, n, h + 2)
<1>. SUFFICES ASSUME NameGiven(ls, n, h + 1) PROVE NameGiven(ls, n, h + 2)
  OBVIOUS
<1>1. n \in 1 .. h /\ Command(ls, n, "USER") /\ \A m \in n + 1 .. h : ~ Command(ls, m, "USER")
  <2>1. h + 1 - 1 = h
    OBVIOUS
  <2>. QED  BY <2>1 DEF NameGiven
<1>2. \A m \in n + 1 .. h + 1 : m \in n + 1 .. h \/ m = h + 1
  BY <1>1
<1>3. h + 2 - 1 = h + 1 /\ n \in 1 .. h + 1
  BY <1>1
<1>. QED  BY <1>1, <1>2, <1>3 DEF NameGiven

LEMMA NotLoggedIn ==
  ASSUME NEW ls, NEW h \in Nat, NEW u, LastName(ls, h, u), ~ LogsIn(ls, h + 1),
         ~ Command(ls, h + 1, "USER")
  PROVE  LastName(ls, h + 1, u)
<1>1. \A p \in 1 .. h + 1 : p \in 1 .. h \/ p = h + 1
  OBVIOUS
<1>2. \A p \in 1 .. h + 1 : ~ LogsIn(ls, p)
  BY <1>1 DEF LastName
<1>3. PICK g \in Nat : g = h + 1 /\ g + 1 = h + 2
  OBVIOUS
<1>4. CASE u = <<>> /\ \A i \in 1 .. h : ~ Command(ls, i, "USER")
  BY <1>1, <1>2, <1>4 DEF LastName
<1>5. CASE \E n \in 1 .. h : NameGiven(ls, n, h + 1) /\ u = Tail(ls[n])
  <2>1. PICK n \in 1 .. h : NameGiven(ls, n, h + 1) /\ u = Tail(ls[n])
    BY <1>5
  <2>2. NameGiven(ls, n, g + 1) /\ n \in 1 .. g
    BY <1>3, <2>1, NameStays
  <2>. QED  BY <1>2, <1>3, <2>1, <2>2 DEF LastName
<1>. QED  BY <1>4, <1>5 DEF LastName

(* What a line does to the login: u, v and a are user, verified and         *)
(* is_anonymous before it, the others after it.                             *)
Kept(words, v) ==
  words = <<>> \/ v \/ Upper(Head(words)) \notin {"USER", "PASS"}

Named(words, v, u2) ==
  words # <<>> /\ ~ v /\ Upper(Head(words)) = "USER" /\ u2 = Tail(words)

Dispatched(words, u, v, a, u2, v2, a2) ==
  \/ Kept(words, v) /\ u2 = u /\ v2 = v /\ a2 = a
  \/ Named(words, v, u2) /\ v2 = v
  \/ /\ words # <<>> /\ ~ v /\ Upper(Head(words)) = "PASS" /\ u2 = u
     /\ \/ u = <<>> /\ v2 = v
        \/ u # <<>> /\ v2 = TRUE /\ a2 = (anonymous_enable /\ u \in AnonymousNames)

(* A USER line has a word, and a name if it has another.                    *)
LEMMA NameOfLine ==
  ASSUME NEW words \in Seq(Vocabulary), words # <<>>
  PROVE  Len(words) > 1 <=> Tail(words) # <<>>
<1>1. PICK n \in Nat : n = Len(words) /\ n # 0
  BY EmptySeq
<1>2. PICK k \in Nat : k = n - 1
  BY <1>1
<1>3. PICK rest \in Seq(Vocabulary) : rest = Tail(words) /\ Len(rest) = k
  BY <1>1, <1>2, HeadTailProperties
<1>4. rest # <<>> <=> k # 0
  BY <1>3, EmptySeq
<1>5. n > 1 <=> k # 0
  BY <1>2
<1>. QED  BY <1>1, <1>3, <1>4, <1>5, Zenon

(* A PASS logs in exactly if there is a name.                               *)
LEMMA PassNeedsName ==
  ASSUME NEW ls \in Seq(Seq(Vocabulary)), NEW h \in Nat, h < Len(ls), NEW u,
         LastName(ls, h, u), Command(ls, h + 1, "PASS")
  PROVE  LogsIn(ls, h + 1) <=> u # <<>>
<1>. DEFINE g == h + 1
<1>1. g \in Nat /\ g - 1 = h
  OBVIOUS
<1>2. \A n \in 1 .. h : ls[n] \in Seq(Vocabulary)
  OBVIOUS
<1>. HIDE DEF g
<1>3. LogsIn(ls, g) <=> \E n \in 1 .. h : NameGiven(ls, n, g) /\ Len(ls[n]) > 1
  BY <1>1 DEF LogsIn, g
<1>4. \A n \in 1 .. h : NameGiven(ls, n, g) => (Len(ls[n]) > 1 <=> Tail(ls[n]) # <<>>)
  BY <1>2, NameOfLine DEF NameGiven, Command
<1>5. CASE u = <<>> /\ \A i \in 1 .. h : ~ Command(ls, i, "USER")
  BY <1>3, <1>5 DEF NameGiven, g
<1>6. CASE \E n \in 1 .. h : NameGiven(ls, n, h + 1) /\ u = Tail(ls[n])
  <2>1. PICK n \in 1 .. h : NameGiven(ls, n, g) /\ u = Tail(ls[n])
    BY <1>6 DEF g
  <2>2. \A m \in 1 .. h : NameGiven(ls, m, g) => m = n
    BY <1>1, <2>1, OneName
  <2>. QED  BY <1>3, <1>4, <2>1, <2>2 DEF g
<1>. QED  BY <1>5, <1>6 DEF LastName

LEMMA LoginStep ==
  ASSUME NEW ls \in Seq(Seq(Vocabulary)), NEW h \in Nat, h < Len(ls),
         NEW u, NEW v, NEW a, NEW u2, NEW v2, NEW a2,
         LoginIs(ls, h, u, v, a), Dispatched(ls[h + 1], u, v, a, u2, v2, a2)
  PROVE  LoginIs(ls, h + 1, u2, v2, a2)
<1>. DEFINE g == h + 1
<1>1. g \in Nat /\ g - 1 = h /\ g \in 1 .. g /\ \A i \in 1 .. h : i \in 1 .. g
  OBVIOUS
<1>2. \A c : Command(ls, g, c) <=> ls[g] # <<>> /\ Upper(Head(ls[g])) = c
  BY DEF Command
<1>. HIDE DEF g
<1>3. CASE v
  <2>1. u2 = u /\ v2 = v /\ a2 = a
    BY <1>3 DEF Dispatched, Named
  <2>2. LoggedIn(ls, h, u, a)
    BY <1>3 DEF LoginIs
  <2>3. LoggedIn(ls, g, u, a)
    BY <1>1, <2>2 DEF LoggedIn
  <2>. QED  BY <1>3, <2>1, <2>3 DEF LoginIs, g
<1>4. ASSUME ~ v PROVE v = FALSE /\ LastName(ls, h, u)
  BY <1>4 DEF LoginIs
<1>5. ASSUME ~ v, ~ LogsIn(ls, g), ~ Command(ls, g, "USER"), u2 = u, v2 = v
      PROVE  LoginIs(ls, g, u2, v2, a2)
  <2>1. LastName(ls, g, u)
    BY <1>4, <1>5, NotLoggedIn DEF g
  <2>. QED  BY <1>4, <1>5, <2>1 DEF LoginIs
<1>6. CASE ~ v /\ Kept(ls[g], v) /\ u2 = u /\ v2 = v
  <2>1. ~ Command(ls, g, "PASS") /\ ~ Command(ls, g, "USER")
    BY <1>2, <1>6 DEF Kept
  <2>2. ~ LogsIn(ls, g)
    BY <2>1 DEF LogsIn
  <2>. QED  BY <1>5, <1>6, <2>1, <2>2 DEF g
<1>7. CASE ~ v /\ Named(ls[g], v, u2) /\ v2 = v
  <2>1. Command(ls, g, "USER") /\ ~ Command(ls, g, "PASS") /\ u2 = Tail(ls[g])
    BY <1>2, <1>7 DEF Named
  <2>2. \A p \in 1 .. g : p \in 1 .. h \/ p = g
    BY <1>1
  <2>3. \A p \in 1 .. g : ~ LogsIn(ls, p)
    <3>1. ~ LogsIn(ls, g)
      BY <2>1 DEF LogsIn
    <3>. QED  BY <1>4, <1>7, <2>2, <3>1 DEF LastName
  <2>4. NameGiven(ls, g, g + 1)
    <3>1. g \in 1 .. g + 1 - 1 /\ g + 1 .. g + 1 - 1 = {}
      BY <1>1
    <3>. QED  BY <2>1, <3>1 DEF NameGiven
  <2>5. LastName(ls, g, u2)
    BY <1>1, <2>1, <2>3, <2>4 DEF LastName
  <2>. QED  BY <1>4, <1>7, <2>5 DEF LoginIs, g
<1>8. CASE ~ v /\ Command(ls, g, "PASS") /\ u2 = u /\ u = <<>> /\ v2 = v
  <2>1. ~ LogsIn(ls, g)
    BY <1>4, <1>8, PassNeedsName DEF g
  <2>2. ~ Command(ls, g, "USER")
    BY <1>8 DEF Command
  <2>. QED  BY <1>5, <1>8, <2>1, <2>2 DEF g
<1>9. CASE /\ ~ v /\ Command(ls, g, "PASS") /\ u2 = u /\ u # <<>>
           /\ v2 = TRUE /\ a2 = (anonymous_enable /\ u \in AnonymousNames)
  <2>1. LogsIn(ls, g) /\ LastName(ls, h, u)
    BY <1>4, <1>9, PassNeedsName DEF g
  <2>2. PICK n \in 1 .. h : NameGiven(ls, n, g) /\ u = Tail(ls[n])
    BY <1>9, <2>1 DEF LastName, g
  <2>3. \A q \in 1 .. g - 1 : ~ LogsIn(ls, q)
    BY <1>1, <2>1 DEF LastName
  <2>4. n \in 1 .. g
    BY <1>1
  <2>5. LoggedIn(ls, g, u2, a2)
    BY <1>1, <1>9, <2>1, <2>2, <2>3, <2>4 DEF LoggedIn
  <2>. QED  BY <1>9, <2>5 DEF LoginIs, g
<1>10. Dispatched(ls[g], u, v, a, u2, v2, a2)
  BY DEF g
<1>. QED  BY <1>2, <1>3, <1>6, <1>7, <1>8, <1>9, <1>10 DEF Dispatched, g

(* The words that have two forms.                                           *)
LEMMA UpperOf ==
  ASSUME NEW w
  PROVE  \/ <<w, Upper(w)>> \in Pairs
         \/ Upper(w) = w /\ \A p \in Pairs : p[1] # w
<1>1. CASE \E p \in Pairs : p[1] = w
  <2>1. PICK p : p = CHOOSE q \in Pairs : q[1] = w
    OBVIOUS
  <2>2. p \in Pairs /\ p[1] = w
    BY <1>1, <2>1
  <2>3. Upper(w) = p[2]
    BY <1>1, <2>1 DEF Upper
  <2>4. \A q \in Pairs : q = <<q[1], q[2]>>
    BY DEF Pairs
  <2>. QED  BY <2>2, <2>3, <2>4
<1>2. CASE ~ \E p \in Pairs : p[1] = w
  BY <1>2 DEF Upper
<1>. QED  BY <1>1, <1>2

LEMMA UpperForms ==
  ASSUME NEW w
  PROVE  /\ Upper(w) = "ANONYMOUS" <=> w \in {"anonymous", "ANONYMOUS", "Anonymous"}
         /\ Upper(w) = "I" <=> w \in {"i", "I"}
         /\ Upper(w) = "A" <=> w \in {"a", "A"}
         /\ Upper(w) = "N" <=> w \in {"n", "N"}
         /\ Upper(w) = "L" <=> w \in {"l", "L"}
         /\ Upper(w) = "L8" <=> w \in {"l8", "L8"}
         /\ Upper(w) = "8" <=> w = "8"
<1>1. CASE <<w, Upper(w)>> \in Pairs
  BY <1>1 DEF Pairs
<1>2. CASE Upper(w) = w /\ \A p \in Pairs : p[1] # w
  <2>1. w \notin {"anonymous", "Anonymous", "i", "a", "n", "l", "l8"}
    BY <1>2 DEF Pairs
  <2>. QED  BY <1>2, <2>1
<1>. QED  BY <1>1, <1>2, UpperOf

LEMMA OneWord ==
  ASSUME NEW S, NEW words \in Seq(S), NEW w
  PROVE  words = <<w>> <=> Len(words) = 1 /\ words[1] = w
OBVIOUS

LEMMA TwoWords ==
  ASSUME NEW S, NEW words \in Seq(S)
  PROVE  Len(words) = 2 => words = <<words[1], words[2]>>
OBVIOUS

LEMMA AnonymousForms ==
  ASSUME NEW name \in Seq(Vocabulary)
  PROVE  AnonymousName(name) <=> name \in AnonymousNames
<1>1. \A w : name = <<w>> <=> Len(name) = 1 /\ name[1] = w
  BY OneWord
<1>. QED  BY <1>1, UpperForms DEF AnonymousName, AnonymousNames

(* PropertyOp knows the types in any case.                                  *)
Raised(body) == [i \in DOMAIN body |-> Upper(body[i])]

LEMMA RaisedForms ==
  ASSUME NEW body \in Seq(Vocabulary)
  PROVE  /\ Raised(body) \in {<<"I">>, <<"L8">>, <<"L", "8">>} <=> body \in BinaryNames
         /\ Raised(body) \in {<<"A">>, <<"A", "N">>} <=> body \in AsciiNames
<1>. DEFINE Raisings == {Upper(body[i]) : i \in DOMAIN body}
<1>1. PICK n \in Nat : n = Len(body) /\ DOMAIN body = 1 .. n
  OBVIOUS
<1>2. \A i \in 1 .. n : Upper(body[i]) \in Raisings
  BY <1>1
<1>. HIDE DEF Raisings
<1>3. Raised(body) \in Seq(Raisings) /\ Len(Raised(body)) = n
  BY <1>1, <1>2 DEF Raised
<1>4. \A i \in 1 .. n : Raised(body)[i] = Upper(body[i])
  BY <1>1 DEF Raised
<1>5. /\ \A w : Raised(body) = <<w>> <=> n = 1 /\ Upper(body[1]) = w
      /\ \A w : body = <<w>> <=> n = 1 /\ body[1] = w
  <2>1. \A w : Raised(body) = <<w>> <=> n = 1 /\ Raised(body)[1] = w
    BY <1>3, OneWord
  <2>2. \A w : body = <<w>> <=> n = 1 /\ body[1] = w
    BY <1>1, OneWord
  <2>. QED  BY <1>4, <2>1, <2>2
<1>7. PICK w, x : w = body[1] /\ x = body[2]
  OBVIOUS
<1>8. /\ Upper(w) = "I" <=> w = "i" \/ w = "I"
      /\ Upper(w) = "L8" <=> w = "l8" \/ w = "L8"
      /\ Upper(w) = "L" <=> w = "l" \/ w = "L"
      /\ Upper(w) = "A" <=> w = "a" \/ w = "A"
      /\ Upper(x) = "8" <=> x = "8"
      /\ Upper(x) = "N" <=> x = "n" \/ x = "N"
  BY UpperForms
<1>9. \A y : /\ Raised(body) = <<y>> <=> n = 1 /\ Upper(w) = y
             /\ body = <<y>> <=> n = 1 /\ w = y
  BY <1>5, <1>7
<1>10. n = 2 => Raised(body)[1] = Upper(w) /\ Raised(body)[2] = Upper(x)
  BY <1>4, <1>7
<1>11. /\ Raised(body) = <<"I">> <=> body = <<"i">> \/ body = <<"I">>
       /\ Raised(body) = <<"L8">> <=> body = <<"l8">> \/ body = <<"L8">>
       /\ Raised(body) = <<"A">> <=> body = <<"a">> \/ body = <<"A">>
  BY <1>8, <1>9, Zenon
<1>12. Raised(body) = <<"L", "8">> <=> body = <<"l", "8">> \/ body = <<"L", "8">>
  <2>1. Raised(body) = <<"L", "8">> <=> n = 2 /\ Upper(w) = "L" /\ Upper(x) = "8"
    <3>1. PICK r \in Seq(Raisings) : r = Raised(body) /\ Len(r) = n
      BY <1>3
    <3>2. r = <<"L", "8">> => n = 2 /\ r[1] = "L" /\ r[2] = "8"
      BY <3>1
    <3>3. n = 2 => r = <<r[1], r[2]>>
      BY <3>1, TwoWords
    <3>4. n = 2 /\ r[1] = "L" /\ r[2] = "8" => r = <<"L", "8">>
      BY <3>3, Zenon
    <3>. QED  BY <1>10, <3>1, <3>2, <3>4
  <2>2. body = <<"l", "8">> <=> n = 2 /\ w = "l" /\ x = "8"
    BY <1>1, <1>7
  <2>3. body = <<"L", "8">> <=> n = 2 /\ w = "L" /\ x = "8"
    BY <1>1, <1>7
  <2>. QED  BY <1>8, <2>1, <2>2, <2>3, Zenon
<1>13. Raised(body) = <<"A", "N">> <=>
         \/ body = <<"a", "n">> \/ body = <<"a", "N">>
         \/ body = <<"A", "n">> \/ body = <<"A", "N">>
  <2>1. Raised(body) = <<"A", "N">> <=> n = 2 /\ Upper(w) = "A" /\ Upper(x) = "N"
    <3>1. PICK r \in Seq(Raisings) : r = Raised(body) /\ Len(r) = n
      BY <1>3
    <3>2. r = <<"A", "N">> => n = 2 /\ r[1] = "A" /\ r[2] = "N"
      BY <3>1
    <3>3. n = 2 => r = <<r[1], r[2]>>
      BY <3>1, TwoWords
    <3>4. n = 2 /\ r[1] = "A" /\ r[2] = "N" => r = <<"A", "N">>
      BY <3>3, Zenon
    <3>. QED  BY <1>10, <3>1, <3>2, <3>4
  <2>2. /\ body = <<"a", "n">> <=> n = 2 /\ w = "a" /\ x = "n"
        /\ body = <<"a", "N">> <=> n = 2 /\ w = "a" /\ x = "N"
    BY <1>1, <1>7
  <2>3. /\ body = <<"A", "n">> <=> n = 2 /\ w = "A" /\ x = "n"
        /\ body = <<"A", "N">> <=> n = 2 /\ w = "A" /\ x = "N"
    BY <1>1, <1>7
  <2>. QED  BY <1>8, <2>1, <2>2, <2>3, Zenon
<1>. HIDE DEF Raised
<1>. QED  BY <1>11, <1>12, <1>13, Zenon DEF BinaryNames, AsciiNames

LEMMA NoTypeIsBoth == BinaryNames \cap AsciiNames = {}
<1>1. \A w, x : <<w>> = <<x>> <=> w = x
  OBVIOUS
<1>2. \A w, x, y, z : <<w, x>> = <<y, z>> <=> w = y /\ x = z
  OBVIOUS
<1>3. \A w, x, y : <<w>> # <<x, y>>
  OBVIOUS
<1>. QED  BY <1>1, <1>2, <1>3 DEF BinaryNames, AsciiNames

(* What a line does to the type: t before it, t2 after it.                  *)
TypeSet(words, v, t, t2) ==
  \/ (words = <<>> \/ ~ v \/ Upper(Head(words)) # "TYPE") /\ t2 = t
  \/ /\ words # <<>> /\ v /\ Upper(Head(words)) = "TYPE"
     /\ \/ Tail(words) \in BinaryNames /\ t2 = "binary"
        \/ Tail(words) \in AsciiNames /\ t2 = "ascii"
        \/ Tail(words) \notin BinaryNames \cup AsciiNames /\ t2 = t

LEMMA TypeStep ==
  ASSUME NEW ls, NEW h \in Nat, NEW u, NEW v, NEW a, NEW t, NEW t2,
         LoginIs(ls, h, u, v, a), TypeIs(ls, h, t), TypeSet(ls[h + 1], v, t, t2)
  PROVE  TypeIs(ls, h + 1, t2)
<1>. DEFINE g == h + 1
            Told(k, i) == /\ AsciiLine(ls, i) /\ \E p \in 1 .. i - 1 : LogsIn(ls, p)
                          /\ \A j \in i + 1 .. k : ~ BinaryLine(ls, j)
<1>1. /\ g \in Nat /\ g \in 1 .. g /\ g - 1 = h /\ g + 1 .. g = {}
      /\ \A i \in 1 .. g : i \in 1 .. h \/ i = g
      /\ \A i \in 1 .. h : i \in 1 .. g /\ g \in i + 1 .. g /\ \A j \in i + 1 .. h : j \in i + 1 .. g
      /\ \A i \in 1 .. h : \A j \in i + 1 .. g : j \in i + 1 .. h \/ j = g
      /\ \A i \in 1 .. g : \A p \in 1 .. i - 1 : p \in 1 .. h
  OBVIOUS
<1>2. /\ t = "ascii" <=> \E i \in 1 .. h : Told(h, i)
      /\ TypeIs(ls, g, t2) <=> (t2 = "ascii" <=> \E i \in 1 .. g : Told(g, i))
  BY DEF TypeIs
<1>3. /\ BinaryLine(ls, g) <=> ls[g] # <<>> /\ Upper(Head(ls[g])) = "TYPE" /\ Tail(ls[g]) \in BinaryNames
      /\ AsciiLine(ls, g) <=> ls[g] # <<>> /\ Upper(Head(ls[g])) = "TYPE" /\ Tail(ls[g]) \in AsciiNames
  BY DEF BinaryLine, AsciiLine, Command
<1>4. TypeSet(ls[g], v, t, t2)
  OBVIOUS
<1>5. v <=> \E p \in 1 .. h : LogsIn(ls, p)
  BY DEF LoginIs, LoggedIn, LastName
<1>6. \A k, i : Told(k, i) <=>
        /\ AsciiLine(ls, i) /\ \E p \in 1 .. i - 1 : LogsIn(ls, p)
        /\ \A j \in i + 1 .. k : ~ BinaryLine(ls, j)
  OBVIOUS
<1>. HIDE DEF g, Told
<1>7. CASE ~ v
  <2>1. t2 = t
    BY <1>4, <1>7 DEF TypeSet
  <2>2. \A k : \A i \in 1 .. g : ~ Told(k, i)
    BY <1>1, <1>5, <1>6, <1>7
  <2>. QED  BY <1>1, <1>2, <2>1, <2>2 DEF g
<1>8. CASE v /\ BinaryLine(ls, g)
  <2>1. t2 = "binary" /\ ~ AsciiLine(ls, g)
    BY <1>3, <1>4, <1>8, NoTypeIsBoth DEF TypeSet
  <2>2. \A i \in 1 .. g : ~ Told(g, i)
    BY <1>1, <1>6, <1>8, <2>1
  <2>. QED  BY <1>2, <2>1, <2>2 DEF g
<1>9. CASE v /\ AsciiLine(ls, g)
  <2>1. t2 = "ascii"
    BY <1>3, <1>4, <1>9, NoTypeIsBoth DEF TypeSet
  <2>2. \E p \in 1 .. g - 1 : LogsIn(ls, p)
    BY <1>1, <1>5, <1>9
  <2>3. Told(g, g)
    BY <1>1, <1>6, <1>9, <2>2
  <2>. QED  BY <1>1, <1>2, <2>1, <2>3 DEF g
<1>10. CASE v /\ ~ BinaryLine(ls, g) /\ ~ AsciiLine(ls, g)
  <2>1. t2 = t
    BY <1>3, <1>4, <1>10 DEF TypeSet
  <2>2. \A i \in 1 .. h : Told(g, i) <=> Told(h, i)
    BY <1>1, <1>6, <1>10
  <2>3. ~ Told(g, g)
    BY <1>6, <1>10
  <2>. QED  BY <1>1, <1>2, <2>1, <2>2, <2>3 DEF g
<1>. QED  BY <1>7, <1>8, <1>9, <1>10

-----------------------------------------------------------------------------
RequestInv ==
  /\ StreamInv
  /\ user \in Seq(Vocabulary)
  /\ LoginIs(lines, handled, user, verified, is_anonymous)
  /\ TypeIs(lines, handled, type)

LEMMA RequestInit == Init => RequestInv
<1>. SUFFICES ASSUME Init PROVE RequestInv
  OBVIOUS
<1>1. handled = 0 /\ user = <<>> /\ verified = FALSE /\ type = "binary"
  BY DEF Init
<1>2. user \in Seq(Vocabulary)
  BY <1>1, EmptySeq
<1>3. LoginIs(lines, handled, user, verified, is_anonymous)
  <2>1. 1 .. 0 = {}
    OBVIOUS
  <2>2. LastName(lines, 0, <<>>)
    BY <2>1 DEF LastName
  <2>. QED  BY <1>1, <2>2 DEF LoginIs
<1>4. TypeIs(lines, handled, type)
  <2>1. 1 .. 0 = {}
    OBVIOUS
  <2>. QED  BY <1>1, <2>1 DEF TypeIs
<1>. QED  BY <1>2, <1>3, <1>4, StreamInitInv DEF RequestInv

(* A line without a word, and one after the login, leave the login alone.   *)
LEMMA KeptLine ==
  ASSUME NEW words, NEW v
  PROVE  /\ words = <<>> \/ v => Kept(words, v)
         /\ \A t : words = <<>> \/ ~ v \/ Upper(Head(words)) # "TYPE" => TypeSet(words, v, t, t)
<1>1. ASSUME words = <<>> \/ v PROVE Kept(words, v)
  BY <1>1 DEF Kept
<1>2. ASSUME NEW t, words = <<>> \/ ~ v \/ Upper(Head(words)) # "TYPE"
      PROVE  TypeSet(words, v, t, t)
  BY <1>2 DEF TypeSet
<1>. QED  BY <1>1, <1>2

(* handle_read does to the session what the words of its line say.          *)
LEMMA LineIsDispatched ==
  ASSUME NEW words \in Seq(Vocabulary), user \in Seq(Vocabulary), verified \in BOOLEAN,
         \/ BlankLine(words) \/ AuthOp(words) \/ Refuse(words) \/ PropertyOp(words)
         \/ OtherOp(words)
  PROVE  /\ Dispatched(words, user, verified, is_anonymous, user', verified', is_anonymous')
         /\ TypeSet(words, verified, type, type') /\ user' \in Seq(Vocabulary)
<1>1. words # <<>> => Tail(words) \in Seq(Vocabulary)
  OBVIOUS
<1>. DEFINE Kept3 == user' = user /\ verified' = verified /\ is_anonymous' = is_anonymous
<1>2. UNCHANGED loginVars => Kept3
  BY DEF loginVars
<1>3. ASSUME Kept3, Kept(words, verified)
      PROVE  /\ Dispatched(words, user, verified, is_anonymous, user', verified', is_anonymous')
             /\ user' \in Seq(Vocabulary)
  BY <1>3 DEF Dispatched
<1>4. CASE BlankLine(words)
  <2>1. words = <<>> /\ UNCHANGED loginVars /\ type' = type
    BY <1>4 DEF BlankLine
  <2>2. Kept(words, verified) /\ TypeSet(words, verified, type, type')
    BY <2>1, KeptLine
  <2>. QED  BY <1>2, <1>3, <2>1, <2>2
<1>5. CASE AuthOp(words)
  <2>1. /\ ~ verified /\ words # <<>> /\ type' = type
        /\ request'.command = Upper(Head(words)) /\ request'.body = Tail(words)
    BY <1>5 DEF AuthOp, Request
  <2>2. TypeSet(words, verified, type, type')
    BY <2>1 DEF TypeSet
  <2>3. CASE User
    BY <1>1, <2>1, <2>2, <2>3 DEF User, Dispatched, Named
  <2>4. CASE Pass
    <3>1. Upper(Head(words)) = "PASS" /\ user' = user
      BY <2>1, <2>4 DEF Pass
    <3>2. AnonymousName(user) <=> user \in AnonymousNames
      BY AnonymousForms
    <3>3. AnonymousName(user) \in BOOLEAN /\ (user \in AnonymousNames) \in BOOLEAN
      BY DEF AnonymousName
    <3>4. \/ user = <<>> /\ verified' = verified
          \/ user # <<>> /\ verified' = TRUE
               /\ is_anonymous' = (anonymous_enable /\ user \in AnonymousNames)
      BY <2>4, <3>2, <3>3 DEF Pass, validate
    <3>. QED  BY <2>1, <2>2, <3>1, <3>4 DEF Dispatched
  <2>5. CASE request'.command \notin {"USER", "PASS"} /\ UNCHANGED loginVars
    BY <1>2, <1>3, <2>1, <2>2, <2>5 DEF Kept
  <2>. QED  BY <1>5, <2>3, <2>4, <2>5 DEF AuthOp
<1>6. CASE Refuse(words)
  <2>1. Upper(Head(words)) # "TYPE"
    <3>1. request'.command = Upper(Head(words))
      BY <1>6 DEF Refuse, Request
    <3>2. request'.command # "TYPE"
      BY <1>6 DEF Refuse, Registered
    <3>. QED  BY <3>1, <3>2
  <2>2. verified /\ UNCHANGED loginVars /\ type' = type
    BY <1>6 DEF Refuse
  <2>3. Kept(words, verified) /\ TypeSet(words, verified, type, type')
    BY <2>1, <2>2, KeptLine
  <2>. QED  BY <1>2, <1>3, <2>2, <2>3
<1>7. CASE PropertyOp(words)
  <2>1. PICK r : r = Request(words)
    OBVIOUS
  <2>2. r.command = Upper(Head(words)) /\ r.body = Tail(words) /\ DOMAIN r = {"command", "body"}
    BY <2>1 DEF Request
  <2>3. request' = [r EXCEPT !.body = Raised(r.body)]
    BY <1>7, <2>1 DEF PropertyOp, Raised
  <2>4. request'.command = Upper(Head(words)) /\ request'.body = Raised(Tail(words))
    BY <2>2, <2>3
  <2>5. verified /\ words # <<>> /\ UNCHANGED loginVars
    BY <1>7 DEF PropertyOp
  <2>6. CASE request'.command = "TYPE" /\ SetType(request'.body)
    <3>1. PICK body : body = Raised(Tail(words)) /\ SetType(body)
      BY <2>4, <2>6
    <3>2. /\ body \in {<<"I">>, <<"L8">>, <<"L", "8">>} <=> Tail(words) \in BinaryNames
          /\ body \in {<<"A">>, <<"A", "N">>} <=> Tail(words) \in AsciiNames
      BY <1>1, <2>5, <3>1, RaisedForms
    <3>3. \/ Tail(words) \in BinaryNames /\ type' = "binary"
          \/ Tail(words) \in AsciiNames /\ type' = "ascii"
          \/ Tail(words) \notin BinaryNames \cup AsciiNames /\ type' = type
      BY <3>1, <3>2 DEF SetType
    <3>4. TypeSet(words, verified, type, type')
      BY <2>4, <2>5, <2>6, <3>3 DEF TypeSet
    <3>. QED  BY <1>2, <1>3, <2>5, <3>4, KeptLine
  <2>7. CASE request'.command = "OPTS" /\ SetOption(request'.body)
    <3>1. TypeSet(words, verified, type, type')
      BY <2>4, <2>7 DEF SetOption, TypeSet
    <3>. QED  BY <1>2, <1>3, <2>5, <3>1, KeptLine
  <2>. QED  BY <1>7, <2>6, <2>7 DEF PropertyOp
<1>8. CASE OtherOp(words)
  <2>1. Upper(Head(words)) # "TYPE"
    <3>1. request'.command = Upper(Head(words))
      BY <1>8 DEF OtherOp, Request
    <3>2. request'.command # "TYPE"
      BY <1>8 DEF OtherOp
    <3>. QED  BY <3>1, <3>2
  <2>2. verified /\ UNCHANGED loginVars /\ type' = type
    BY <1>8 DEF OtherOp
  <2>3. Kept(words, verified) /\ TypeSet(words, verified, type, type')
    BY <2>1, <2>2, KeptLine
  <2>. QED  BY <1>2, <1>3, <2>2, <2>3
<1>. QED  BY <1>4, <1>5, <1>6, <1>7, <1>8

LEMMA RequestStep ==
  ASSUME RequestInv, [Next]_vars
  PROVE  RequestInv'
<1>1. CASE UNCHANGED vars
  BY <1>1 DEF RequestInv, StreamInv, vars, netVars, loginVars
<1>2. CASE ClientSends
  <2>1. StreamInv' /\ \A i \in 1 .. handled : lines'[i] = lines[i]
    BY <1>2, ClientSendsStream DEF RequestInv
  <2>2. UNCHANGED <<handled, user, verified, is_anonymous, type>>
    BY <1>2 DEF ClientSends, loginVars
  <2>3. handled \in Nat
    BY DEF RequestInv, StreamInv
  <2>4. LoginIs(lines', handled, user, verified, is_anonymous) /\ TypeIs(lines', handled, type)
    BY <2>1, <2>3, SameLines DEF RequestInv
  <2>. QED  BY <2>1, <2>2, <2>4 DEF RequestInv
<1>3. CASE ReadSome
  <2>1. StreamInv'
    BY <1>3, ReadSomeStream DEF RequestInv
  <2>2. UNCHANGED <<lines, handled, user, verified, is_anonymous, type>>
    BY <1>3 DEF ReadSome, loginVars
  <2>. QED  BY <2>1, <2>2 DEF RequestInv
<1>4. CASE HandleRead
  <2>1. /\ StreamInv' /\ handled' = handled + 1 /\ lines' = lines /\ handled < Len(lines)
        /\ lines[handled + 1] \in Seq(Vocabulary) /\ Words(Min(Ends)) = lines[handled + 1]
    BY <1>4, HandleReadStream DEF RequestInv
  <2>2. PICK words \in Seq(Vocabulary) : words = lines[handled + 1]
    BY <2>1
  <2>3. \/ BlankLine(words) \/ AuthOp(words) \/ Refuse(words) \/ PropertyOp(words)
        \/ OtherOp(words)
    BY <1>4, <2>1, <2>2 DEF HandleRead
  <2>4. verified \in BOOLEAN /\ handled \in Nat /\ lines \in Seq(Seq(Vocabulary))
    BY DEF RequestInv, LoginIs, StreamInv
  <2>5. /\ Dispatched(words, user, verified, is_anonymous, user', verified', is_anonymous')
        /\ TypeSet(words, verified, type, type') /\ user' \in Seq(Vocabulary)
    BY <2>3, <2>4, LineIsDispatched DEF RequestInv
  <2>6. LoginIs(lines, handled + 1, user', verified', is_anonymous')
    BY <2>1, <2>2, <2>4, <2>5, LoginStep DEF RequestInv
  <2>7. TypeIs(lines, handled + 1, type')
    BY <2>2, <2>4, <2>5, TypeStep DEF RequestInv
  <2>. QED  BY <2>1, <2>5, <2>6, <2>7 DEF RequestInv
<1>. QED  BY <1>1, <1>2, <1>3, <1>4 DEF Next

LEMMA LoginsAre ==
  ASSUME NEW p \in Nat
  PROVE  /\ LoginAt(p) <=> LogsIn(lines, p)
         /\ \A n : NamedAt(n, p) <=> NameGiven(lines, n, p)
         /\ Binary(p) <=> BinaryLine(lines, p)
         /\ Ascii(p) <=> AsciiLine(lines, p)
<1>1. \A i, c : Is(i, c) <=> Command(lines, i, c)
  BY DEF Is, Command
<1>2. \A n : NamedAt(n, p) <=> NameGiven(lines, n, p)
  BY <1>1 DEF NamedAt, NameGiven
<1>. QED  BY <1>1, <1>2 DEF LoginAt, LogsIn, Binary, BinaryLine, Ascii, AsciiLine

LEMMA RequestInvLogin == RequestInv => LoginIsWhatLinesSay
<1>. SUFFICES ASSUME RequestInv PROVE LoginIsWhatLinesSay
  OBVIOUS
<1>1. handled \in Nat /\ LoginIs(lines, handled, user, verified, is_anonymous)
  BY DEF RequestInv, StreamInv
<1>2. Logins = {p \in 1 .. handled : LogsIn(lines, p)}
  BY <1>1, LoginsAre DEF Logins
<1>3. CASE ~ verified
  <2>1. \A p \in 1 .. handled : ~ LogsIn(lines, p)
    BY <1>1, <1>3 DEF LoginIs, LastName
  <2>. QED  BY <1>2, <1>3, <2>1 DEF LoginIsWhatLinesSay
<1>4. CASE verified
  <2>1. PICK p, n \in 1 .. handled :
          /\ LogsIn(lines, p) /\ \A q \in 1 .. p - 1 : ~ LogsIn(lines, q)
          /\ NameGiven(lines, n, p) /\ user = Tail(lines[n])
          /\ is_anonymous <=> anonymous_enable /\ user \in AnonymousNames
    BY <1>1, <1>4 DEF LoginIs, LoggedIn
  <2>2. p \in Logins
    BY <1>2, <2>1
  <2>3. \A q \in Logins : p <= q
    <3>1. \A q \in 1 .. handled : q < p => q \in 1 .. p - 1
      BY <1>1
    <3>2. \A q \in Logins : ~ (q < p) /\ q \in Nat
      BY <1>1, <1>2, <2>1, <3>1
    <3>. QED  BY <1>1, <3>2
  <2>4. Min(Logins) = p
    <3>1. Logins \in SUBSET Nat
      BY <1>1, <1>2
    <3>. QED  BY <2>2, <2>3, <3>1, LeastIsMin
  <2>5. NamedAt(n, Min(Logins))
    BY <1>1, <2>1, <2>4, LoginsAre
  <2>. QED  BY <1>4, <2>1, <2>2, <2>5 DEF LoginIsWhatLinesSay
<1>5. verified \in BOOLEAN
  BY <1>1 DEF LoginIs
<1>. QED  BY <1>3, <1>4, <1>5

LEMMA RequestInvType == RequestInv => TypeIsWhatLinesSay
<1>. SUFFICES ASSUME RequestInv PROVE TypeIsWhatLinesSay
  OBVIOUS
<1>1. handled \in Nat /\ TypeIs(lines, handled, type)
  BY DEF RequestInv, StreamInv
<1>2. ASSUME NEW i \in 1 .. handled
      PROVE  (\E p \in Logins : p < i) <=> \E p \in 1 .. i - 1 : LogsIn(lines, p)
  <2>1. \A p \in 1 .. handled : p < i <=> p \in 1 .. i - 1
    BY <1>1
  <2>2. \A p \in 1 .. i - 1 : p \in 1 .. handled
    BY <1>1
  <2>. QED  BY <1>1, <2>1, <2>2, LoginsAre DEF Logins
<1>3. \A i \in 1 .. handled : Ascii(i) <=> AsciiLine(lines, i)
  BY <1>1, LoginsAre
<1>4. \A i \in 1 .. handled : \A j \in i + 1 .. handled : Binary(j) <=> BinaryLine(lines, j)
  BY <1>1, LoginsAre
<1>. QED  BY <1>1, <1>2, <1>3, <1>4 DEF TypeIs, TypeIsWhatLinesSay

(* For all lines and separators, however the stream is cut: the first PASS  *)
(* after a USER with a name logs in, under the last name given before it.   *)
THEOREM LoginIsWhatLinesSayCorrect == Spec => []LoginIsWhatLinesSay
<1>1. RequestInv /\ [Next]_vars => RequestInv'
  BY RequestStep
<1>. QED  BY <1>1, RequestInit, RequestInvLogin, PTL DEF Spec

(* And the type is that of the last TYPE after the login that names one.    *)
THEOREM TypeIsWhatLinesSayCorrect == Spec => []TypeIsWhatLinesSay
<1>1. RequestInv /\ [Next]_vars => RequestInv'
  BY RequestStep
<1>. QED  BY <1>1, RequestInit, RequestInvType, PTL DEF Spec

-----------------------------------------------------------------------------
(* What TLC explores for the four parts together is, for each of them, a    *)
(* behaviour of its own specification: the theorems hold of it.             *)
THEOREM EachPartByItself == MCSpec => Spec /\ Port!Spec /\ List!Spec /\ Start!Spec
<1>1. MCInit => Init /\ Port!Init /\ List!Init /\ Start!Init
  BY DEF MCInit
<1>2. MCNext => [Next]_vars
  BY DEF MCNext, RequestsStep
<1>3. MCNext => [Port!Next]_(Port!vars)
  BY DEF MCNext, RequestsStep, portVars, Port!vars
<1>4. MCNext => [List!Next]_(List!vars)
  BY DEF MCNext, RequestsStep, listVars, List!vars, List!workVars
<1>5. MCNext => [Start!Next]_(Start!vars)
  BY DEF MCNext, RequestsStep, startVars, Start!vars
<1>6. UNCHANGED MCVars =>
        UNCHANGED vars /\ UNCHANGED Port!vars /\ UNCHANGED List!vars /\ UNCHANGED Start!vars
  BY DEF MCVars, portVars, listVars, startVars, Port!vars, List!vars, List!workVars, Start!vars
<1>. QED  BY <1>1, <1>2, <1>3, <1>4, <1>5, <1>6, PTL DEF MCSpec, Spec, Port!Spec, List!Spec, Start!Spec
=============================================================================
