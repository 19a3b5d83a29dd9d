-------------------------- MODULE PersonalDictionary --------------------------
(***************************************************************************)
(* One dictionary file of the user: ExpandableBinaryDictionary.java, with  *)
(* the UserBinaryDictionary (a copy of the system's user dictionary, which *)
(* a ContentObserver watches) or the UserHistoryDictionary (the words the  *)
(* keyboard learns) on it, and the native flush that writes the file       *)
(* (ver4_dict_buffers.cpp).  Calls come from the main thread, binder       *)
(* threads and the threads that look words up; the tasks run one by one on *)
(* the keyboard's executor, each under the write lock.  The process may be *)
(* killed between any two steps, and any file operation may fail.          *)
(***************************************************************************)
EXTENDS Naturals, Sequences

CONSTANTS
    Insts,          \* bound of the model: dictionary objects on the file
    MaxChanges,     \* bound of the model: changes of the system's user dictionary
    MaxUpdates,     \* bound of the model: words learned
    MaxQueue,       \* bound of the model: tasks that wait for the executor
    MaxFaults,      \* bound of the model: file operations that fail
    MaxKills,       \* bound of the model: kills of the process
    Torn,           \* what a file holds that was cut off
    None

VARIABLES
    kind,           \* "user" or "history": the class of the dictionary
    provider,       \* version of the system's user dictionary
    dir, tmp,       \* the directory of the dictionary, and the temporary one
    alive,          \* whether the process runs
    current,        \* the object in use (mDictionaryGroups), or None
    insts,          \* the objects: [used, bd, reloading, recreate]
    queue,          \* the executor's tasks
    task,           \* the task that runs: [op, inst, at]
    recreated,      \* localesNotNeededToRecreate contains the locale
    saved,          \* history: what the last flush that returned true wrote
    lost,           \* history: a file operation failed, or the process was
                    \* killed while the file was being replaced
    missed,         \* history: a change came when nobody would act on it
    faults, kills, updates

disk  == <<dir, tmp>>
hist  == <<saved, lost, missed>>
bound == <<faults, kills, updates>>
vars  == <<kind, provider, disk, alive, current, insts, queue, task, recreated, hist, bound>>

-----------------------------------------------------------------------------
(***************************************************************************)
(* Files.  A directory is None or [header, body]; a file is None, Torn,   *)
(* or the contents it was written from: the version of the user dictionary *)
(* or the number of words learned.                                         *)
(***************************************************************************)
FileType == Nat \cup {None, Torn}
DirType  == [header : FileType, body : FileType]

\* BinaryDictionary: its native handle, whether it has updates, is corrupted
BdType   == [valid : BOOLEAN, content : Nat, updated : BOOLEAN, corrupted : BOOLEAN]

ASSUME DictionaryAssumption ==
    /\ MaxChanges \in Nat /\ MaxUpdates \in Nat /\ MaxQueue \in Nat
    /\ MaxFaults \in Nat /\ MaxKills \in Nat
    /\ None \notin Insts \cup Nat \cup DirType \cup BdType
    /\ Torn \notin Nat \cup {None}

EmptyDir == [header |-> None, body |-> None]

Files(d)  == {f \in {"header", "body"} : d[f] # None}
Whole(d)  == d # None /\ d.header \in Nat /\ d.body \in Nat

\* newPolicyForDirectoryDict: a missing header or body does not open, nor does a
\* body that is cut off; a header that is may.
MayOpen(d, valid) ==
    IF Whole(d) THEN valid
    ELSE valid => d # None /\ d.header = Torn /\ d.body \in Nat

Dictionary(valid, content, updated) ==
    [valid |-> valid, content |-> content, updated |-> updated, corrupted |-> FALSE]

Opened(d, valid) == Dictionary(valid, IF valid THEN d.body ELSE 0, FALSE)

NoTask == [op |-> "none", inst |-> None, at |-> "idle"]

Init ==
    /\ kind \in {"user", "history"}
    /\ provider = 0
    /\ dir = None /\ tmp = None
    /\ alive = FALSE /\ current = None
    /\ insts = [i \in Insts |-> [used |-> FALSE, bd |-> None,
                                 reloading |-> FALSE, recreate |-> FALSE]]
    /\ queue = <<>> /\ task = NoTask
    /\ recreated = FALSE
    /\ saved = 0 /\ lost = FALSE /\ missed = FALSE
    /\ faults = 0 /\ kills = 0 /\ updates = 0

-----------------------------------------------------------------------------
(***************************************************************************)
(* Calls from other threads                                                *)
(***************************************************************************)
Task(i, op) == [op |-> op, inst |-> i, at |-> "start"]

\* isReloadRequired
IsReloadRequired(i) == insts[i].bd = None \/ insts[i].recreate

\* Faulty variant: isReloading is not looked at.
StartsReloadAnyway(i) == IsReloadRequired(i)

\* asyncReloadDictionary: one reload of an object at a time
StartsReload(i) == IsReloadRequired(i) /\ ~insts[i].reloading

\* reloadDictionaryIfRequired, with the tasks that the caller appends
Call(i, ops, max) ==
    LET reload == StartsReload(i)
        tasks  == (IF reload THEN <<Task(i, "reload")>> ELSE <<>>)
                  \o [n \in 1 .. Len(ops) |-> Task(i, ops[n])]
    IN  /\ ops # <<>> => Len(queue) + Len(ops) <= max
        /\ queue' = queue \o tasks
        /\ insts' = [insts EXCEPT ![i].reloading = @ \/ reload]

\* A lookup (getSuggestions, isInDictionary ..) holds the read lock of its object:
\* no task of it runs.  It queues the removal of a dictionary that it finds
\* corrupted.
Lookup(i) ==
    /\ alive /\ i = current
    /\ LET bd == insts[i].bd
           corrupted == bd # None /\ bd.valid /\ bd.corrupted
       IN  /\ corrupted => task.inst # i
           /\ corrupted \/ StartsReload(i)
           /\ Call(i, IF corrupted THEN <<"remove">> ELSE <<>>, MaxQueue + 1)
    /\ UNCHANGED <<kind, provider, disk, alive, current, task, recreated, hist, bound>>

\* updateEntriesForWord, when a word was typed
Update(i) ==
    /\ alive /\ i = current /\ kind = "history"
    /\ updates < MaxUpdates
    /\ updates' = updates + 1
    /\ Call(i, <<"update">>, MaxQueue)
    /\ UNCHANGED <<kind, provider, disk, alive, current, task, recreated, hist, faults, kills>>

\* flushUserHistoryDictionaries, clear
Request(i, op) ==
    /\ alive /\ i = current /\ kind = "history"
    /\ op \in {"flush", "clear"}
    /\ Len(queue) < MaxQueue
    /\ queue' = Append(queue, Task(i, op))
    /\ UNCHANGED <<kind, provider, disk, alive, current, insts, task, recreated, hist, bound>>

\* A change of the system's user dictionary.  The observer of the object in use
\* marks it; the mark is lost when a reload that has read the contents already
\* clears it, or when there is no observer.  The first object of a process is
\* created anew.
Change ==
    /\ kind = "user"
    /\ provider < MaxChanges
    /\ provider' = provider + 1
    /\ IF current # None
       THEN insts' = [insts EXCEPT ![current].recreate = TRUE]
       ELSE UNCHANGED insts
    /\ missed' = (missed \/ (alive /\ current = None)
                  \/ (task.op = "reload" /\ task.inst = current
                      /\ task.at \notin {"start", "delete", "load", "end"}))
    /\ UNCHANGED <<kind, disk, alive, current, queue, task, recreated, saved, lost, bound>>

\* Faulty variant: a new object opens what the file holds.
CreatedFromFile(i) ==
    [insts EXCEPT ![i] = [used |-> TRUE, bd |-> None, reloading |-> TRUE, recreate |-> FALSE]]

\* The constructor, which queues a reload
Created(i) ==
    [insts EXCEPT ![i] = [used |-> TRUE, bd |-> None, reloading |-> TRUE,
                          recreate |-> kind = "user" /\ ~recreated]]

\* getSubDict: a new UserBinaryDictionary, which is recreated the first time
\* only; the UserHistoryDictionary of a locale is cached (one whose soft reference
\* was cleared is closed, and a new one no different).
Open(i) ==
    /\ alive /\ current = None
    /\ current' = i
    /\ IF kind = "history" /\ insts[i].used
       THEN Call(i, <<>>, MaxQueue)
       ELSE /\ \A j \in Insts : kind = "history" => ~insts[j].used
            /\ ~insts[i].used
            /\ Len(queue) < MaxQueue
            /\ queue' = Append(queue, Task(i, "reload"))
            /\ insts' = Created(i)
    /\ recreated' = TRUE
    /\ UNCHANGED <<kind, provider, disk, alive, task, hist, bound>>

\* Nobody will act on a mark whose reload is not on its way.
Forgotten(i) ==
    /\ insts[i].recreate
    /\ insts[i].reloading => task.op = "reload" /\ task.inst = i /\ task.at = "end"

\* resetDictionaries to other locales closes this one; the history is flushed.
Close ==
    /\ alive /\ current # None
    /\ LET ops == IF kind = "history" THEN <<"flush", "close">> ELSE <<"close">>
       IN  /\ Len(queue) + Len(ops) <= MaxQueue
           /\ queue' = queue \o [n \in 1 .. Len(ops) |-> Task(current, ops[n])]
    /\ current' = None
    /\ missed' = (missed \/ Forgotten(current))
    /\ UNCHANGED <<kind, provider, disk, alive, insts, task, recreated, saved, lost, bound>>

\* resetDictionaries with forceReloadAllDictionaries: the new object comes before
\* the old one is closed, without a flush; the cached one is closed itself.
ForceReload(i) ==
    /\ alive /\ current # None
    /\ IF kind = "history"
       THEN i = current /\ Call(i, <<"close">>, MaxQueue)
       ELSE /\ ~insts[i].used
            /\ Len(queue) + 2 <= MaxQueue
            /\ queue' = queue \o <<Task(i, "reload"), Task(current, "close")>>
            /\ insts' = Created(i)
    /\ current' = i
    /\ missed' = (missed \/ (i # current /\ Forgotten(current)))
    /\ UNCHANGED <<kind, provider, disk, alive, task, recreated, saved, lost, bound>>

-----------------------------------------------------------------------------
(***************************************************************************)
(* The executor                                                            *)
(***************************************************************************)
Busy(at) == alive /\ task.at = at

Goto(at) == task' = [task EXCEPT !.at = at]

Bd == insts[task.inst].bd

\* isValidDictionary
BdIsValid == Bd # None /\ Bd.valid

SetBd(bd) == insts' = [insts EXCEPT ![task.inst].bd = bd]

outside == <<kind, provider, alive, current, recreated, updates>>

\* A file operation fails.
Fault == faults < MaxFaults /\ faults' = faults + 1 /\ lost' = TRUE

NoFault == UNCHANGED <<faults, lost>>

Take ==
    /\ Busy("idle")
    /\ queue # <<>>
    /\ task' = Head(queue)
    /\ queue' = Tail(queue)
    /\ UNCHANGED <<outside, disk, insts, hist, faults, kills>>

\* The first step of a flush, and what follows when the last one was made
FlushFirst == "cleanTmp"

Flushed ==
    Goto(CASE task.op = "reload" -> "loaded"
           [] task.op = "update" -> "update"
           [] OTHER -> "end")

\* Faulty variant: a dictionary that is not open is created anew.
NeedsNewUnopened(i) == Bd = None \/ insts[i].recreate

\* The file is missing, or its contents have been updated.
NeedsNew(i) == dir = None \/ insts[i].recreate

\* Faulty variant: a dictionary that does not open is kept.
AfterOpenUnchecked(valid) == "loaded"

\* A dictionary that does not open is created anew.
AfterOpen(valid) == IF valid THEN "loaded" ELSE "delete"

\* asyncReloadDictionary
StartReload ==
    /\ Busy("start") /\ task.op = "reload"
    /\ \/ /\ NeedsNew(task.inst)
          /\ SetBd(None) /\ Goto("delete")
       \/ /\ ~NeedsNew(task.inst) /\ Bd = None
          /\ \E valid \in BOOLEAN :
              /\ MayOpen(dir, valid)
              /\ SetBd(Opened(dir, valid)) /\ Goto(AfterOpen(valid))
       \/ /\ ~NeedsNew(task.inst) /\ Bd # None
          /\ Goto("loaded") /\ UNCHANGED insts
    /\ UNCHANGED <<outside, disk, queue, hist, faults, kills>>

\* removeBinaryDictionaryLocked: the files and the directory, one by one; when
\* one cannot be deleted the rest stays.
Delete ==
    /\ Busy("delete")
    /\ LET done == IF task.op = "reload" THEN "load"
                   ELSE IF task.op = "clear" THEN "create" ELSE "end"
       IN  \/ dir = None /\ Goto(done) /\ UNCHANGED dir /\ NoFault
           \/ dir # None /\ Goto(done) /\ UNCHANGED dir /\ Fault
           \/ /\ dir # None
              /\ IF Files(dir) = {} THEN dir' = None
                 ELSE \E f \in Files(dir) : dir' = [dir EXCEPT ![f] = None]
              /\ UNCHANGED task /\ NoFault
    /\ UNCHANGED <<outside, tmp, insts, queue, saved, missed, kills>>

\* createOnMemoryBinaryDictionaryLocked and loadInitialContentsLocked: what the
\* system's user dictionary holds now
Load ==
    /\ Busy("load")
    /\ SetBd(Dictionary(TRUE, provider, provider # 0))
    /\ Goto(IF provider # 0 THEN FlushFirst ELSE "loaded")
    /\ missed' = FALSE
    /\ UNCHANGED <<outside, disk, queue, saved, lost, faults, kills>>

\* clearNeedsToRecreate
Loaded ==
    /\ Busy("loaded")
    /\ insts' = [insts EXCEPT ![task.inst].recreate = FALSE]
    /\ Goto("end")
    /\ UNCHANGED <<outside, disk, queue, hist, faults, kills>>

\* Faulty variant: the task is not over for the executor.
EndKeepsTask ==
    /\ Busy("end")
    /\ insts' = IF task.op = "reload"
                THEN [insts EXCEPT ![task.inst].reloading = FALSE] ELSE insts
    /\ task' = [task EXCEPT !.at = "idle"]
    /\ UNCHANGED <<outside, disk, queue, hist, faults, kills>>

\* isReloading.set(false), and the executor takes the next task.
End ==
    /\ Busy("end")
    /\ insts' = IF task.op = "reload"
                THEN [insts EXCEPT ![task.inst].reloading = FALSE] ELSE insts
    /\ task' = NoTask
    /\ UNCHANGED <<outside, disk, queue, hist, faults, kills>>

\* updateDictionaryWithWriteLock, asyncFlushBinaryDictionary: a garbage
\* collection flushes too.
StartWrite ==
    /\ Busy("start") /\ task.op \in {"update", "flush"}
    /\ \/ ~BdIsValid /\ Goto("end")
       \/ /\ BdIsValid
          /\ \E needsToRunGC \in BOOLEAN :
              Goto(IF needsToRunGC \/ (task.op = "flush" /\ Bd.updated) THEN FlushFirst
                   ELSE IF task.op = "update" THEN "update" ELSE "end")
    /\ UNCHANGED <<outside, disk, insts, queue, hist, faults, kills>>

\* updateEntriesForWordWithNgramContext, in memory
DoUpdate ==
    /\ Busy("update")
    /\ Goto("end")
    /\ IF Bd.valid
       THEN SetBd([Bd EXCEPT !.content = @ + 1, !.updated = TRUE])
       ELSE UNCHANGED insts
    /\ UNCHANGED <<outside, disk, queue, hist, faults, kills>>

\* close, removeBinaryDictionary, clear
StartDrop ==
    /\ Busy("start") /\ task.op \in {"close", "remove", "clear"}
    /\ SetBd(None)
    /\ Goto(IF task.op = "close" THEN "end" ELSE "delete")
    /\ saved' = IF task.op = "clear" THEN 0 ELSE saved
    /\ UNCHANGED <<outside, disk, queue, lost, missed, faults, kills>>

CreateCleared ==
    /\ Busy("create")
    /\ SetBd(Dictionary(TRUE, 0, FALSE))
    /\ Goto("end")
    /\ UNCHANGED <<outside, disk, queue, hist, faults, kills>>

-----------------------------------------------------------------------------
(***************************************************************************)
(* flushHeaderAndDictBuffers                                               *)
(***************************************************************************)
flushing == <<outside, queue, missed, kills>>

\* flush, flushWithGC: the dictionary in memory is corrupted from now on.
Fail == Fault /\ SetBd([Bd EXCEPT !.corrupted = TRUE]) /\ Flushed

Goon(at) == NoFault /\ Goto(at) /\ UNCHANGED insts

\* A temporary directory is left from a flush that failed or was killed: remove
\* its files and itself; then make a new one.
CleanTmp ==
    /\ Busy("cleanTmp")
    /\ \/ tmp = None /\ tmp' = EmptyDir /\ Goon("header")
       \/ /\ tmp # None
          /\ IF Files(tmp) = {} THEN tmp' = None
             ELSE \E f \in Files(tmp) : tmp' = [tmp EXCEPT ![f] = None]
          /\ Goon("cleanTmp")
       \/ Fail /\ UNCHANGED tmp
    /\ UNCHANGED <<flushing, dir, saved>>

\* What fclose cannot write is not noticed; a header that fwrite could not write
\* is removed, a body stays.
WriteFile(f, next, failed) ==
    /\ Busy(f)
    /\ \/ tmp' = [tmp EXCEPT ![f] = Bd.content] /\ Goon(next)
       \/ tmp' = [tmp EXCEPT ![f] = Torn] /\ Fault /\ Goto(next) /\ UNCHANGED insts
       \/ tmp' = [tmp EXCEPT ![f] = failed] /\ Fail
    /\ UNCHANGED <<flushing, dir, saved>>

WriteHeader == WriteFile("header", "body", None)
WriteBody   == WriteFile("body", "removeOld", Torn)

\* removeDirAndFiles(dictDirPath): a file that cannot be removed is an error; a
\* directory that cannot is not.
RemoveOld ==
    /\ Busy("removeOld")
    /\ \/ dir = None /\ UNCHANGED dir /\ Goon("rename")
       \/ /\ dir # None /\ Files(dir) # {}
          /\ \/ \E f \in Files(dir) : dir' = [dir EXCEPT ![f] = None] /\ Goon("removeOld")
             \/ UNCHANGED dir /\ Fail
       \/ /\ dir # None /\ Files(dir) = {}
          /\ \/ dir' = None /\ Goon("rename")
             \/ UNCHANGED <<dir, insts>> /\ Fault /\ Goto("rename")
    /\ UNCHANGED <<flushing, tmp, saved>>

Rename ==
    /\ Busy("rename")
    /\ \/ dir' = tmp /\ tmp' = None /\ saved' = Bd.content /\ Goon("reopen")
       \/ Fail /\ UNCHANGED <<disk, saved>>
    /\ UNCHANGED flushing

\* reopen: the dictionary is closed and opened from the new file.
Reopen ==
    /\ Busy("reopen")
    /\ \E valid \in BOOLEAN :
        /\ MayOpen(dir, valid)
        /\ SetBd(Opened(dir, valid))
    /\ Flushed
    /\ UNCHANGED <<outside, disk, queue, hist, faults, kills>>

-----------------------------------------------------------------------------
\* The service is created, in a new process or, when it was destroyed (Close), in
\* the old one: LatinIME.onCreate forgets which locales were recreated.
Start ==
    /\ current = None
    /\ alive' = TRUE
    /\ recreated' = FALSE /\ missed' = FALSE
    /\ UNCHANGED <<kind, provider, disk, current, insts, queue, task, saved, lost, bound>>

\* The process is killed.  A file that is being written is cut off.
Kill ==
    /\ alive /\ kills < MaxKills
    /\ kills' = kills + 1
    /\ alive' = FALSE /\ current' = None
    /\ insts' = [i \in Insts |-> [used |-> FALSE, bd |-> None,
                                  reloading |-> FALSE, recreate |-> FALSE]]
    /\ queue' = <<>> /\ task' = NoTask
    /\ \/ UNCHANGED tmp
       \/ task.at \in {"header", "body"} /\ tmp' = [tmp EXCEPT ![task.at] = Torn]
    /\ lost' = (lost \/ (task.at \in {"removeOld", "rename"} /\ ~Whole(dir)))
    /\ UNCHANGED <<kind, provider, dir, recreated, saved, missed, faults, updates>>

Lookups == \E i \in Insts : Lookup(i)

Executor ==
    \/ Take \/ StartReload \/ Delete \/ Load \/ Loaded \/ End
    \/ StartWrite \/ DoUpdate \/ StartDrop \/ CreateCleared
    \/ CleanTmp \/ WriteHeader \/ WriteBody \/ RemoveOld \/ Rename \/ Reopen

Calls ==
    \/ \E i \in Insts :
        \/ Update(i)
        \/ \E op \in {"flush", "clear"} : Request(i, op)
        \/ Open(i)
        \/ ForceReload(i)
    \/ Change
    \/ Close

Next == Lookups \/ Executor \/ Calls \/ Start \/ Kill

\* The executor goes on, and while a dictionary is in use words are looked up: a
\* lookup gets the read lock in the end.
Fairness == SF_vars(Lookups) /\ WF_vars(Executor)

Spec == Init /\ [][Next]_vars /\ Fairness

-----------------------------------------------------------------------------
Ops == {"reload", "update", "flush", "close", "remove", "clear"}

Steps == {"start", "delete", "load", "loaded", "end", "create", "update", "cleanTmp",
          "header", "body", "removeOld", "rename", "reopen"}

TaskType == [op : Ops, inst : Insts, at : Steps] \cup {NoTask}

\* Every variable keeps its type.
PersonalTypeOK ==
    /\ kind \in {"user", "history"} /\ provider \in 0 .. MaxChanges
    /\ dir \in DirType \cup {None} /\ tmp \in DirType \cup {None}
    /\ alive \in BOOLEAN /\ current \in Insts \cup {None}
    /\ insts \in [Insts -> [used : BOOLEAN, bd : BdType \cup {None},
                            reloading : BOOLEAN, recreate : BOOLEAN]]
    /\ queue \in Seq(TaskType) /\ task \in TaskType
    /\ recreated \in BOOLEAN
    /\ saved \in Nat /\ lost \in BOOLEAN /\ missed \in BOOLEAN
    /\ faults \in Nat /\ kills \in Nat /\ updates \in Nat

\* The words that a flush has saved stay on the disk, whatever task is killed or
\* comes after; until an operation on a file fails, or the process is killed
\* while the old file is replaced by the new one, which is whole by then.
SavedOnDisk ==
    kind = "history" /\ ~lost /\ saved > 0 =>
        \/ Whole(dir) /\ dir.body >= saved
        \/ Whole(tmp) /\ tmp.body >= saved /\ task.at \in {"removeOld", "rename"}

\* A dictionary that is in use, open and not to be reloaded holds what the
\* system's user dictionary holds, unless a change came when nobody would act on
\* it: while another language was used, or behind the read of a reload, which
\* then clears the mark.
FreshUnlessMissed ==
    kind = "user" /\ current # None /\ ~lost /\ ~missed =>
        LET i == insts[current]
        IN  i.bd # None /\ i.bd.valid /\ ~i.recreate /\ ~i.reloading
                => i.bd.content = provider

Reloads(i) == {n \in 1 .. Len(queue) : queue[n] = Task(i, "reload")}

\* isReloading says that a reload waits or runs, and never two of one object:
\* a flag that stays set would keep the dictionary from ever being reloaded.
ReloadingHasTask ==
    \A i \in Insts :
        LET running == task.op = "reload" /\ task.inst = i
        IN  /\ insts[i].reloading <=> running \/ Reloads(i) # {}
            /\ \A m, n \in Reloads(i) : m = n /\ ~running

\* A lookup gets the lock and an answer.
Usable ==
    /\ task.at = "idle"
    /\ current # None => LET bd == insts[current].bd
                         IN  bd # None /\ bd.valid /\ ~bd.corrupted

IsTorn == dir # None /\ Torn \in {dir.header, dir.body}

\* A dictionary that stays in use can be looked up in the end, whatever was left
\* on the disk and whatever operations failed, unless a file was cut off and
\* nobody noticed.
UsableInTheEnd == []<>(Usable \/ IsTorn)

=============================================================================
