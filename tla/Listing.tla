------------------------------ MODULE Listing --------------------------------
(***************************************************************************)
(* The text of LIST (list_file in op/list_op.cc), which sessions of        *)
(* different workers write at the same time: call by call of the file      *)
(* system, from which another process may remove entries, and of           *)
(* localtime, whose result is one object for the whole process.  A worker  *)
(* is in one listing at a time.  The fields of a time stand for the file   *)
(* they are taken from.                                                    *)
(***************************************************************************)
EXTENDS Integers, FiniteSets

CONSTANTS
  Workers,       \* worker threads
  Entries,       \* the entries of the directory
  Directories,   \* those of them that are directories; the rest are regular files
  MaxListings,   \* bound: listings begun
  MaxRemovals    \* bound: entries that another process removes

VARIABLES
  present,    \* the entries that are there
  tm,         \* the object localtime and gmtime return a pointer to
  begun,      \* number of listings begun
  step,       \* the call each worker comes to next
  todo,       \* the entries its iterator has not given yet
  entry,      \* the entry it is at
  mtime,      \* file_state.st_mtime
  line,       \* the date and hour it has written for the entry
  disturbed,  \* has another worker called localtime since it did? (history)
  fate        \* is the process running?

workVars == <<todo, entry, mtime, line, disturbed>>
vars == <<present, tm, begun, step, workVars, fate>>

Epoch == "epoch"     \* the time of a file_state that stat has not filled
Nothing == "nothing"

Init ==
  /\ present = Entries
  /\ tm = [day |-> Epoch, hour |-> Epoch]
  /\ begun = 0
  /\ step = [w \in Workers |-> "idle"]
  /\ todo = [w \in Workers |-> {}]
  /\ entry = [w \in Workers |-> Nothing]
  /\ mtime = [w \in Workers |-> Epoch]
  /\ line = [w \in Workers |-> [day |-> Epoch, hour |-> Epoch]]
  /\ disturbed = [w \in Workers |-> FALSE]
  /\ fate = "running"

At(w, call) == fate = "running" /\ step[w] = call

Go(w, call) == step' = [step EXCEPT ![w] = call]

Gone(w) == entry[w] \notin present

Sizeless(w) == Gone(w) \/ entry[w] \in Directories

(* An exception of std::filesystem, which nobody catches.                   *)
Throw == fate' = "exception" /\ UNCHANGED step

Begin(w) ==
  /\ At(w, "idle") /\ begun < MaxListings
  /\ begun' = begun + 1
  /\ todo' = [todo EXCEPT ![w] = present]
  /\ Go(w, "entry")
  /\ UNCHANGED <<present, tm, entry, mtime, line, disturbed, fate>>

(* The iterator's next entry.  An entry removed meanwhile it may give, or   *)
(* leave out.  The type and permissions of one that is gone are not errors. *)
NextEntry(w) ==
  /\ At(w, "entry")
  /\ \/ \E e \in todo[w] :
          /\ todo' = [todo EXCEPT ![w] = @ \ {e}]
          /\ entry' = [entry EXCEPT ![w] = e]
          /\ Go(w, "hard_link_count")
     \/ /\ todo[w] \cap present = {}
        /\ todo' = [todo EXCEPT ![w] = {}]
        /\ entry' = [entry EXCEPT ![w] = Nothing]
        /\ Go(w, "idle")
  /\ UNCHANGED <<present, tm, begun, mtime, line, disturbed, fate>>

HardLinkCount(w) ==
  /\ At(w, "hard_link_count")
  /\ \/ Gone(w) /\ Throw
     \/ ~ Gone(w) /\ Go(w, "is_regular_file") /\ UNCHANGED fate
  /\ UNCHANGED <<present, tm, begun, workVars>>

IsRegularFile(w) ==
  /\ At(w, "is_regular_file")
  /\ Go(w, IF Sizeless(w) THEN "stat" ELSE "file_size")
  /\ UNCHANGED <<present, tm, begun, workVars, fate>>

(* file_size, which is an error for a directory.                            *)
FileSize(w) ==
  /\ At(w, "file_size")
  /\ \/ Sizeless(w) /\ Throw
     \/ ~ Sizeless(w) /\ Go(w, "stat") /\ UNCHANGED fate
  /\ UNCHANGED <<present, tm, begun, workVars>>

(* A faulty file_state that keeps what the last entry left in it.           *)
LastTime(w) == IF Gone(w) THEN mtime[w] ELSE entry[w]

(* file_state{}, then stat, whose failure is not looked at.                 *)
Time(w) == IF Gone(w) THEN Epoch ELSE entry[w]

Stat(w) ==
  /\ At(w, "stat")
  /\ mtime' = [mtime EXCEPT ![w] = Time(w)]
  /\ Go(w, "localtime")
  /\ UNCHANGED <<present, tm, begun, todo, entry, line, disturbed, fate>>

(* External: localtime and gmtime fill the same object, field by field,     *)
(* and under a lock.  Who reads the object does not hold the lock.          *)
Localtime(w) ==
  /\ At(w, "localtime") /\ \A v \in Workers : step[v] # "filling"
  /\ tm' = [tm EXCEPT !.day = mtime[w]]
  /\ disturbed' = [v \in Workers |-> v # w]
  /\ Go(w, "filling")
  /\ UNCHANGED <<present, begun, todo, entry, mtime, line, fate>>

LocaltimeReturns(w) ==
  /\ At(w, "filling")
  /\ tm' = [tm EXCEPT !.hour = mtime[w]]
  /\ Go(w, "day")
  /\ UNCHANGED <<present, begun, workVars, fate>>

(* The line is written from the object, one field after the other.          *)
WriteDay(w) ==
  /\ At(w, "day")
  /\ line' = [line EXCEPT ![w].day = tm.day]
  /\ Go(w, "hour")
  /\ UNCHANGED <<present, tm, begun, todo, entry, mtime, disturbed, fate>>

WriteHour(w) ==
  /\ At(w, "hour")
  /\ line' = [line EXCEPT ![w].hour = tm.hour]
  /\ Go(w, "entry")
  /\ UNCHANGED <<present, tm, begun, todo, entry, mtime, disturbed, fate>>

(* External: another process.                                               *)
Remove ==
  /\ fate = "running"
  /\ Cardinality(Entries \ present) < MaxRemovals
  /\ \E e \in present : present' = present \ {e}
  /\ UNCHANGED <<tm, begun, step, workVars, fate>>

Work(w) ==
  \/ Begin(w)
  \/ NextEntry(w)
  \/ HardLinkCount(w)
  \/ IsRegularFile(w)
  \/ FileSize(w)
  \/ Stat(w)
  \/ Localtime(w)
  \/ LocaltimeReturns(w)
  \/ WriteDay(w)
  \/ WriteHour(w)

Next == Remove \/ \E w \in Workers : Work(w)

Spec == Init /\ [][Next]_vars

-----------------------------------------------------------------------------
(* A line has been written: the entry it is for is still known.             *)
Written(w) == step[w] = "entry" /\ entry[w] # Nothing /\ ~ disturbed[w]

(* A line shows the time of its own file, or the epoch when the file was    *)
(* removed after its name was read -- unless another worker asked for a     *)
(* time between localtime and the last field: then it may show the time of  *)
(* another directory's file, or of two.  What this worker has listed before *)
(* never shows.                                                             *)
TimeIsOwn ==
  \A w \in Workers : Written(w) =>
    /\ line[w].day = line[w].hour
    /\ line[w].day \in {entry[w]} \cup (IF Gone(w) THEN {Epoch} ELSE {})
=============================================================================
