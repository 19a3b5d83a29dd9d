---------------------- MODULE PersonalDictionary_proof ----------------------
(***************************************************************************)
(* Proofs about PersonalDictionary: the types of its variables, that the   *)
(* flag isReloading stands for one task, that the learned words that were  *)
(* saved stay on the disk, and that the copy of the user dictionary is     *)
(* fresh unless a change was missed, for every number of objects, changes, *)
(* words, tasks, faults and kills.                                         *)
(***************************************************************************)
EXTENDS PersonalDictionary, TLAPS

-----------------------------------------------------------------------------
(* The tasks.                                                              *)

Runs(i, op) == task.op = op /\ task.inst = i

\* A task in the queue has not begun; it is of an object that was created, and so
\* is the one that runs.
TasksOfUsed ==
    /\ queue \in Seq([op : Ops, inst : Insts, at : {"start"}])
    /\ \A n \in DOMAIN queue : insts[queue[n].inst].used
    /\ task # NoTask => task.op \in Ops /\ task.inst \in Insts /\ insts[task.inst].used
    /\ current # None => insts[current].used /\ alive /\ recreated
    /\ \A i \in Insts : ~insts[i].used => insts[i] = [used |-> FALSE, bd |-> None,
                                        reloading |-> FALSE, recreate |-> FALSE]

FlushSteps == {"cleanTmp", "header", "body", "removeOld", "rename", "reopen"}

\* A task that flushes or updates has a dictionary, and where it writes there is a
\* directory.
TaskHasFiles ==
    /\ task.at \in FlushSteps \cup {"update"} => Bd # None
    /\ task.at \in {"header", "body", "removeOld", "rename"} => tmp # None
    /\ task.at \in FlushSteps => task.op \in {"reload", "update", "flush"}
    /\ task.at = "update" => task.op = "update"
    /\ task.at \in {"load", "loaded"} => task.op = "reload"
    /\ task.at = "create" => task.op = "clear"
    /\ task.at = "delete" => task.op \in {"reload", "clear", "remove"}

TaskInv == PersonalTypeOK /\ TasksOfUsed /\ TaskHasFiles /\ ReloadingHasTask

-----------------------------------------------------------------------------
(* As long as no operation failed and no replacement was cut off.          *)

\* A flush that was not disturbed has written what the dictionary holds; a reload
\* has removed the old file before.
FlushWrites ==
    /\ task.at \in {"body", "removeOld", "rename"} => tmp.header = Bd.content
    /\ task.at \in {"removeOld", "rename"} => tmp.body = Bd.content
    /\ task.at = "reopen" => Whole(dir) /\ dir.body = Bd.content
    /\ task.op = "reload" /\ task.at \in ({"load"} \cup FlushSteps) \ {"reopen"} => dir = None

\* No dictionary is found corrupted, and none is removed for it.
NotCorrupted ==
    /\ \A i \in Insts : insts[i].bd # None => ~insts[i].bd.corrupted
    /\ \A n \in DOMAIN queue : queue[n].op # "remove"
    /\ task.op # "remove"

Undisturbed == ~lost => FlushWrites /\ NotCorrupted

-----------------------------------------------------------------------------
(* The words learned.                                                      *)

\* One object is used, and never created anew.
OneHistory ==
    kind = "history" =>
        /\ \A i, j \in Insts : insts[i].used /\ insts[j].used => i = j
        /\ \A i \in Insts : ~insts[i].recreate
        /\ provider = 0

\* No dictionary, and no file, is behind what was saved; the files are deleted
\* only when nothing is.
NothingBehind ==
    kind = "history" /\ ~lost =>
        /\ \A i \in Insts : insts[i].bd # None => insts[i].bd.content >= saved
        /\ Whole(dir) => dir.body >= saved
        /\ saved > 0 => Whole(dir) \/ task.at \in {"removeOld", "rename"}
        /\ task.at \in {"delete", "load", "create"} => saved = 0

-----------------------------------------------------------------------------
(* The copy of the system's user dictionary.                               *)

\* Only reloads and closes; an object is not closed while it is in use.
UserTasks ==
    kind = "user" =>
        /\ \A n \in DOMAIN queue : /\ queue[n].op \in {"reload", "close", "remove"}
                                   /\ queue[n].op = "close" => queue[n].inst # current
        /\ task # NoTask => /\ task.op \in {"reload", "close", "remove"}
                            /\ task.op = "close" => task.inst # current

\* A reload of an object that is not in use any more comes before the first
\* reload of the one that is.
OldRunsFirst ==
    task.op = "reload" /\ task.inst # current => insts[current].bd = None /\ Reloads(current) # {}

OldWaitsFirst ==
    \A m \in DOMAIN queue :
        queue[m].op = "reload" /\ queue[m].inst # current =>
            insts[current].bd = None /\ \E n \in Reloads(current) : n > m

OldReloadsFirst == kind = "user" /\ current # None => OldRunsFirst /\ OldWaitsFirst

FileFresh == dir # None => Whole(dir) /\ dir.body = provider

AtRest       == FileFresh /\ ~(task.op = "reload" /\ task.at \in FlushSteps)
MarkedInUse  == current # None /\ insts[current].recreate
MarkedWaits  == \E n \in DOMAIN queue : queue[n].op = "reload" /\ insts[queue[n].inst].recreate
MarkedStarts == task.op = "reload" /\ task.at = "start" /\ insts[task.inst].recreate
Rereads      == task.op = "reload" /\ task.at \in {"delete", "load"}
Rewrites     == task.op = "reload" /\ task.at \in FlushSteps /\ Bd.content = provider

FileOnItsWay == AtRest \/ MarkedWaits \/ MarkedStarts \/ Rereads \/ Rewrites

\* The file holds what the system's dictionary holds, or a reload that will read
\* it anew is on its way, or will be asked for.
FileFollows ==
    kind = "user" /\ ~lost /\ ~missed /\ alive /\ recreated => FileOnItsWay \/ MarkedInUse

InUseFresh ==
    LET i == insts[current]
    IN  i.bd # None /\ i.bd.valid /\ ~i.recreate => i.bd.content = provider

ReloadFresh ==
    Runs(current, "reload") =>
        /\ task.at \in FlushSteps \cup {"loaded"} /\ Bd # None /\ Bd.valid =>
              Bd.content = provider
        /\ task.at \in FlushSteps => Bd.valid
        /\ task.at = "loaded" => FileFresh

\* What the object in use holds is fresh, or marked; a reload of it that is past
\* the read has the fresh contents.
ObjectFresh ==
    kind = "user" /\ ~lost /\ ~missed /\ current # None => InUseFresh /\ ReloadFresh

-----------------------------------------------------------------------------
(* Queues.                                                                 *)

InstType == [used : BOOLEAN, bd : BdType \cup {None},
             reloading : BOOLEAN, recreate : BOOLEAN]

Running == [op : Ops, inst : Insts, at : Steps]
Waiting == [op : Ops, inst : Insts, at : {"start"}]

Core == PersonalTypeOK /\ TasksOfUsed /\ TaskHasFiles

LEMMA ConcatFacts ==
    ASSUME NEW S, NEW l \in Seq(S), NEW r \in Seq(S)
    PROVE  /\ l \o r \in Seq(S) /\ Len(l \o r) = Len(l) + Len(r)
           /\ DOMAIN (l \o r) = 1 .. (Len(l) + Len(r))
           /\ \A k \in 1 .. (Len(l) + Len(r)) :
                 (l \o r)[k] = IF k <= Len(l) THEN l[k] ELSE r[k - Len(l)]
OBVIOUS

\* What a call appends to the queue: no reload, or one of the object i that comes
\* first.
Adds(t, i, reload) ==
    /\ t \in Seq(Waiting)
    /\ \A n \in DOMAIN t : (t[n].op = "reload") = (reload /\ n = 1)
    /\ reload => 1 \in DOMAIN t /\ t[1] = Task(i, "reload")

LEMMA AddsQueue ==
    ASSUME queue \in Seq(Waiting), NEW t, t \in Seq(Waiting), queue' = queue \o t
    PROVE  /\ queue' \in Seq(Waiting) /\ Len(queue) \in Nat /\ Len(t) \in Nat
           /\ DOMAIN queue = 1 .. Len(queue) /\ DOMAIN t = 1 .. Len(t)
           /\ DOMAIN queue' = 1 .. (Len(queue) + Len(t))
           /\ Len(queue') = Len(queue) + Len(t)
           /\ \A n \in DOMAIN queue : n \in DOMAIN queue' /\ queue'[n] = queue[n]
           /\ \A n \in DOMAIN queue' : n \notin DOMAIN queue =>
                 n - Len(queue) \in DOMAIN t /\ queue'[n] = t[n - Len(queue)]
<1>1. /\ Len(queue) \in Nat /\ Len(t) \in Nat
      /\ DOMAIN queue = 1 .. Len(queue) /\ DOMAIN t = 1 .. Len(t)
    OBVIOUS
<1>2. /\ queue' \in Seq(Waiting) /\ Len(queue') = Len(queue) + Len(t)
      /\ DOMAIN queue' = 1 .. (Len(queue) + Len(t))
      /\ \A k \in 1 .. (Len(queue) + Len(t)) :
            queue'[k] = IF k <= Len(queue) THEN queue[k] ELSE t[k - Len(queue)]
    BY ConcatFacts
<1>3. \A n \in 1 .. Len(queue) : n \in DOMAIN queue' /\ queue'[n] = queue[n]
    BY <1>1, <1>2
<1>4. \A n \in DOMAIN queue' : n \notin 1 .. Len(queue) =>
          n - Len(queue) \in DOMAIN t /\ queue'[n] = t[n - Len(queue)]
    BY <1>1, <1>2
<1> QED BY <1>1, <1>2, <1>3, <1>4

LEMMA AddsReloads ==
    ASSUME queue \in Seq(Waiting), NEW i \in Insts, NEW reload \in BOOLEAN, NEW t,
           Adds(t, i, reload), queue' = queue \o t
    PROVE  /\ queue' \in Seq(Waiting) /\ Len(queue) \in Nat /\ Len(t) \in Nat
           /\ DOMAIN queue = 1 .. Len(queue) /\ DOMAIN t = 1 .. Len(t)
           /\ DOMAIN queue' = 1 .. (Len(queue) + Len(t))
           /\ Len(queue') = Len(queue) + Len(t)
           /\ \A n \in DOMAIN queue : n \in DOMAIN queue' /\ queue'[n] = queue[n]
           /\ \A n \in DOMAIN queue' : n \notin DOMAIN queue =>
                 n - Len(queue) \in DOMAIN t /\ queue'[n] = t[n - Len(queue)]
           /\ \A j \in Insts : Reloads(j) \subseteq Reloads(j)'
           /\ \A j \in Insts : j # i => Reloads(j)' = Reloads(j)
           /\ ~reload => Reloads(i)' = Reloads(i)
           /\ reload => Reloads(i)' = Reloads(i) \cup {Len(queue) + 1}
<1>1. t \in Seq(Waiting) /\ Len(queue) \in Nat /\ Len(t) \in Nat
      /\ DOMAIN queue = 1 .. Len(queue) /\ DOMAIN t = 1 .. Len(t)
    BY DEF Adds
<1>2. /\ queue' \in Seq(Waiting) /\ Len(queue') = Len(queue) + Len(t)
      /\ DOMAIN queue' = 1 .. (Len(queue) + Len(t))
      /\ \A k \in 1 .. (Len(queue) + Len(t)) :
            queue'[k] = IF k <= Len(queue) THEN queue[k] ELSE t[k - Len(queue)]
    BY <1>1, ConcatFacts
<1>3. \A n \in 1 .. Len(queue) : n \in DOMAIN queue' /\ queue'[n] = queue[n]
    BY <1>1, <1>2
<1>4. \A n \in DOMAIN queue' : n \notin 1 .. Len(queue) =>
          n - Len(queue) \in DOMAIN t /\ queue'[n] = t[n - Len(queue)]
    BY <1>1, <1>2
<1>5. \A n \in DOMAIN queue' : n \notin 1 .. Len(queue) =>
          (queue'[n].op = "reload") = (reload /\ n = Len(queue) + 1)
    BY <1>1, <1>2, <1>4 DEF Adds
<1>6. reload => /\ Len(queue) + 1 \in DOMAIN queue'
                /\ queue'[Len(queue) + 1] = Task(i, "reload")
    BY <1>1, <1>2, <1>4 DEF Adds
<1>7. \A j \in Insts : Task(j, "reload").op = "reload" /\ Task(j, "reload").inst = j
    BY DEF Task
<1>8. \A j \in Insts, n \in 1 .. Len(queue') :
          n \in Reloads(j)' <=> n \in Reloads(j) \/ (reload /\ j = i /\ n = Len(queue) + 1)
  <2> SUFFICES ASSUME NEW j \in Insts, NEW n \in 1 .. Len(queue')
               PROVE  n \in Reloads(j)' <=>
                        n \in Reloads(j) \/ (reload /\ j = i /\ n = Len(queue) + 1)
      OBVIOUS
  <2>1. n \in DOMAIN queue' /\ n \in Nat
      BY <1>1, <1>2
  <2>2. n \in Reloads(j)' <=> queue'[n] = Task(j, "reload")
      BY DEF Reloads, Task
  <2>3. CASE n \in 1 .. Len(queue)
      BY <2>2, <2>3, <1>1, <1>3 DEF Reloads
  <2>4. CASE n \notin 1 .. Len(queue)
    <3>1. n \notin Reloads(j)
        BY <2>4 DEF Reloads
    <3>2. queue'[n] = Task(j, "reload") => reload /\ n = Len(queue) + 1 /\ j = i
        BY <2>1, <2>4, <1>5, <1>6, <1>7
    <3> QED BY <3>1, <3>2, <2>2, <1>6
  <2> QED BY <2>3, <2>4
<1>9. \A j \in Insts : Reloads(j)' \subseteq 1 .. Len(queue')
                       /\ Reloads(j) \subseteq 1 .. Len(queue')
    BY <1>1, <1>2 DEF Reloads
<1>10. reload => Len(queue) + 1 \in 1 .. Len(queue')
    BY <1>1, <1>2, <1>6
<1>11. /\ \A j \in Insts : Reloads(j) \subseteq Reloads(j)'
       /\ \A j \in Insts : j # i => Reloads(j)' = Reloads(j)
       /\ ~reload => Reloads(i)' = Reloads(i)
    BY <1>8, <1>9
<1>12. reload => Reloads(i)' = Reloads(i) \cup {Len(queue) + 1}
    BY <1>8, <1>9, <1>10
<1> QED BY <1>1, <1>2, <1>3, <1>4, <1>11, <1>12

LEMMA TailReloads ==
    ASSUME queue \in Seq(Waiting), queue # <<>>, queue' = Tail(queue)
    PROVE  /\ queue' \in Seq(Waiting) /\ Len(queue) \in Nat \ {0} /\ Head(queue) \in Waiting
           /\ DOMAIN queue = 1 .. Len(queue) /\ DOMAIN queue' = 1 .. (Len(queue) - 1)
           /\ Head(queue) = queue[1] /\ 1 \in DOMAIN queue
           /\ \A n \in DOMAIN queue' : n + 1 \in DOMAIN queue /\ queue'[n] = queue[n + 1]
           /\ \A n \in DOMAIN queue : n # 1 => n - 1 \in DOMAIN queue' /\ queue'[n - 1] = queue[n]
           /\ \A j \in Insts : \A n \in Reloads(j)' : n + 1 \in Reloads(j)
           /\ \A j \in Insts : \A n \in Reloads(j) : n # 1 => n - 1 \in Reloads(j)'
           /\ \A j \in Insts : 1 \in Reloads(j) <=> Head(queue) = Task(j, "reload")
           /\ \A j \in Insts : Reloads(j) \subseteq Nat /\ Reloads(j)' \subseteq Nat
<1>1. /\ queue' \in Seq(Waiting) /\ Len(queue) \in Nat \ {0} /\ Head(queue) \in Waiting
      /\ DOMAIN queue = 1 .. Len(queue) /\ Len(queue') = Len(queue) - 1
      /\ DOMAIN queue' = 1 .. (Len(queue) - 1)
      /\ Head(queue) = queue[1]
      /\ \A n \in 1 .. (Len(queue) - 1) : queue'[n] = queue[n + 1]
    OBVIOUS
<1>2. \A n \in 1 .. (Len(queue) - 1) : n + 1 \in 1 .. Len(queue)
    BY <1>1
<1>3. \A n \in 1 .. Len(queue) : n # 1 => /\ n - 1 \in 1 .. (Len(queue) - 1)
                                          /\ queue'[n - 1] = queue[n]
    BY <1>1
<1>4. \A j \in Insts : Reloads(j) \subseteq 1 .. Len(queue)
                       /\ Reloads(j)' \subseteq 1 .. (Len(queue) - 1)
    BY <1>1 DEF Reloads
<1>5. \A j \in Insts : \A n \in Reloads(j)' : n + 1 \in Reloads(j)
    BY <1>1, <1>2 DEF Reloads, Task
<1>6. \A j \in Insts : \A n \in Reloads(j) : n # 1 => n - 1 \in Reloads(j)'
    BY <1>1, <1>3 DEF Reloads, Task
<1>7. \A j \in Insts : 1 \in Reloads(j) <=> Head(queue) = Task(j, "reload")
    BY <1>1 DEF Reloads
<1> QED BY <1>1, <1>2, <1>3, <1>4, <1>5, <1>6, <1>7

-----------------------------------------------------------------------------
(* What a call adds.                                                       *)

Tasks(i, ops) == (IF StartsReload(i) THEN <<Task(i, "reload")>> ELSE <<>>)
                     \o [n \in 1 .. Len(ops) |-> Task(i, ops[n])]

\* Every task that a call adds is of its object.
LEMMA CallAdds ==
    ASSUME NEW i \in Insts, NEW ops, NEW op \in Ops \ {"reload"}, ops \in {<<>>, <<op>>},
           insts \in [Insts -> InstType]
    PROVE  /\ StartsReload(i) \in BOOLEAN
           /\ Adds(Tasks(i, ops), i, StartsReload(i))
           /\ \A n \in DOMAIN Tasks(i, ops) :
                 /\ Tasks(i, ops)[n].inst = i
                 /\ Tasks(i, ops)[n].op # "reload" => ops = <<op>> /\ Tasks(i, ops)[n].op = op
<1> DEFINE l == IF StartsReload(i) THEN <<Task(i, "reload")>> ELSE <<>>
           r == [n \in 1 .. Len(ops) |-> Task(i, ops[n])]
<1>1. Task(i, "reload") \in Waiting /\ Task(i, op) \in Waiting
    BY DEF Task, Waiting, Ops
<1>2. /\ l \in Seq(Waiting) /\ Len(l) = (IF StartsReload(i) THEN 1 ELSE 0)
      /\ StartsReload(i) => l[1] = Task(i, "reload")
  <2>1. CASE StartsReload(i)
      BY <2>1, <1>1
  <2>2. CASE ~StartsReload(i)
      BY <2>2
  <2> QED BY <2>1, <2>2
<1>3. /\ r \in Seq(Waiting) /\ Len(r) \in {0, 1}
      /\ ops = <<>> => Len(r) = 0
      /\ \A n \in 1 .. Len(r) : r[n] = Task(i, op) /\ ops = <<op>>
  <2>1. CASE ops = <<>>
    <3>1. Len(ops) = 0 /\ r = <<>>
        BY <2>1
    <3> QED BY <3>1, <2>1
  <2>2. CASE ops = <<op>>
    <3>1. Len(ops) = 1 /\ ops[1] = op /\ ops # <<>>
        BY <2>2
    <3>2. r = [n \in 1 .. 1 |-> Task(i, ops[n])]
        BY <3>1
    <3>3. \A n \in 1 .. 1 : Task(i, ops[n]) = Task(i, op)
        BY <3>1
    <3>4. r = [n \in 1 .. 1 |-> Task(i, op)]
        BY <3>2, <3>3
    <3> HIDE DEF r
    <3>5. r \in Seq(Waiting) /\ Len(r) = 1 /\ r[1] = Task(i, op)
        BY <3>4, <1>1
    <3> QED BY <3>5, <3>1, <2>2
  <2> QED BY <2>1, <2>2
<1>4. Tasks(i, ops) = l \o r
    BY DEF Tasks
<1>5. StartsReload(i) \in BOOLEAN
    BY DEF StartsReload, IsReloadRequired, InstType
<1> HIDE DEF l, r
<1> DEFINE t == l \o r
<1>6. /\ t \in Seq(Waiting) /\ Len(l) \in Nat /\ Len(r) \in Nat
      /\ DOMAIN t = 1 .. (Len(l) + Len(r))
      /\ \A k \in 1 .. (Len(l) + Len(r)) : t[k] = IF k <= Len(l) THEN l[k] ELSE r[k - Len(l)]
    BY <1>2, <1>3, ConcatFacts
<1> HIDE DEF t
<1>7. ASSUME NEW n \in DOMAIN t
      PROVE  \/ n = 1 /\ StartsReload(i) /\ t[n] = Task(i, "reload")
             \/ ~(n = 1 /\ StartsReload(i)) /\ t[n] = Task(i, op) /\ ops = <<op>>
  <2>1. CASE StartsReload(i)
    <3>1. CASE n = 1
        BY <3>1, <2>1, <1>2, <1>6
    <3>2. CASE n # 1
      <4>1. n - Len(l) \in 1 .. Len(r) /\ ~(n <= Len(l))
          BY <3>2, <2>1, <1>2, <1>6
      <4> QED BY <4>1, <3>2, <1>3, <1>6
    <3> QED BY <3>1, <3>2
  <2>2. CASE ~StartsReload(i)
    <3>1. n - Len(l) \in 1 .. Len(r) /\ ~(n <= Len(l))
        BY <2>2, <1>2, <1>6
    <3> QED BY <3>1, <2>2, <1>3, <1>6
  <2> QED BY <2>1, <2>2
<1>8. Task(i, "reload").op = "reload" /\ Task(i, "reload").inst = i
      /\ Task(i, op).op = op /\ Task(i, op).inst = i /\ op # "reload"
    BY DEF Task
<1>9. StartsReload(i) => 1 \in DOMAIN t /\ t[1] = Task(i, "reload")
  <2>1. StartsReload(i) => 1 \in DOMAIN t
      BY <1>2, <1>6
  <2> QED BY <2>1, <1>7
<1>10. Adds(t, i, StartsReload(i))
    BY <1>5, <1>6, <1>7, <1>8, <1>9 DEF Adds
<1> QED BY <1>4, <1>5, <1>7, <1>8, <1>10 DEF t

\* A single task.
LEMMA OneAdds ==
    ASSUME NEW i \in Insts, NEW op \in Ops
    PROVE  /\ Adds(<<Task(i, op)>>, i, op = "reload")
           /\ \A n \in DOMAIN <<Task(i, op)>> :
                 <<Task(i, op)>>[n].inst = i /\ <<Task(i, op)>>[n].op = op
<1>1. Task(i, op) \in Waiting /\ Task(i, op).op = op /\ Task(i, op).inst = i
    BY DEF Task, Waiting
<1> DEFINE t == <<Task(i, op)>>
<1>2. t \in Seq(Waiting) /\ DOMAIN t = 1 .. 1 /\ t[1] = Task(i, op)
    BY <1>1
<1>3. \A n \in DOMAIN t : n = 1 /\ t[n] = Task(i, op)
    BY <1>2
<1>4. 1 \in DOMAIN t
    BY <1>2
<1> HIDE DEF t
<1>5. Adds(t, i, op = "reload")
    BY <1>1, <1>2, <1>3, <1>4 DEF Adds
<1> QED BY <1>1, <1>3, <1>5 DEF t

\* Two tasks, the second one no reload.
LEMMA TwoAdd ==
    ASSUME NEW i \in Insts, NEW op \in Ops, NEW j \in Insts, NEW op2 \in Ops \ {"reload"}
    PROVE  LET t == <<Task(i, op), Task(j, op2)>>
           IN  /\ Adds(t, i, op = "reload")
               /\ \A n \in DOMAIN t : \/ t[n].inst = i /\ t[n].op = op
                                      \/ t[n].inst = j /\ t[n].op = op2
<1>1. /\ Task(i, op) \in Waiting /\ Task(i, op).op = op /\ Task(i, op).inst = i
      /\ Task(j, op2) \in Waiting /\ Task(j, op2).op = op2 /\ Task(j, op2).inst = j
    BY DEF Task, Waiting
<1> DEFINE t == <<Task(i, op), Task(j, op2)>>
<1>2. t \in Seq(Waiting) /\ DOMAIN t = 1 .. 2 /\ t[1] = Task(i, op) /\ t[2] = Task(j, op2)
    BY <1>1
<1>3. \A n \in DOMAIN t : \/ n = 1 /\ t[n] = Task(i, op)
                          \/ n = 2 /\ t[n] = Task(j, op2)
    BY <1>2
<1>4. 1 \in DOMAIN t
    BY <1>2
<1> HIDE DEF t
<1>5. Adds(t, i, op = "reload")
    BY <1>1, <1>2, <1>3, <1>4 DEF Adds
<1>6. \A n \in DOMAIN t : \/ t[n].inst = i /\ t[n].op = op
                          \/ t[n].inst = j /\ t[n].op = op2
    BY <1>1, <1>3
<1> QED BY <1>5, <1>6 DEF t

\* The tasks that Close appends.
Closing(i, ops) == [n \in 1 .. Len(ops) |-> Task(i, ops[n])]

ClosesOnly(t, i, ops) ==
    \A n \in DOMAIN t : /\ t[n].inst = i /\ t[n].op \in {"flush", "close"}
                        /\ ops = <<"close">> => t[n].op = "close"

LEMMA CloseAdds ==
    ASSUME NEW i \in Insts, NEW ops, ops \in {<<"flush", "close">>, <<"close">>}
    PROVE  /\ Adds(Closing(i, ops), i, FALSE)
           /\ ClosesOnly(Closing(i, ops), i, ops)
<1>1. /\ Task(i, "flush") \in Waiting /\ Task(i, "flush").op = "flush"
      /\ Task(i, "flush").inst = i
      /\ Task(i, "close") \in Waiting /\ Task(i, "close").op = "close"
      /\ Task(i, "close").inst = i
    BY DEF Task, Waiting, Ops
<1> DEFINE t == [n \in 1 .. Len(ops) |-> Task(i, ops[n])]
<1>2. /\ t \in Seq(Waiting) /\ DOMAIN t = 1 .. Len(ops) /\ Len(ops) \in Nat
      /\ \A n \in DOMAIN t : /\ t[n] \in {Task(i, "flush"), Task(i, "close")}
                             /\ ops = <<"close">> => t[n] = Task(i, "close")
  <2>1. CASE ops = <<"flush", "close">>
    <3>1. Len(ops) = 2 /\ ops[1] = "flush" /\ ops[2] = "close" /\ ops # <<"close">>
        BY <2>1
    <3>2. DOMAIN t = 1 .. 2 /\ t = [n \in 1 .. 2 |-> Task(i, ops[n])]
        BY <3>1
    <3>3. \A n \in 1 .. 2 : Task(i, ops[n]) \in {Task(i, "flush"), Task(i, "close")}
        BY <3>1
    <3> HIDE DEF t
    <3>4. \A n \in 1 .. 2 : t[n] \in {Task(i, "flush"), Task(i, "close")}
        BY <3>2, <3>3
    <3>5. t \in Seq(Waiting)
        BY <3>2, <3>3, <1>1
    <3> QED BY <3>1, <3>2, <3>4, <3>5
  <2>2. CASE ops = <<"close">>
    <3>1. Len(ops) = 1 /\ ops[1] = "close"
        BY <2>2
    <3>2. DOMAIN t = 1 .. 1 /\ t = [n \in 1 .. 1 |-> Task(i, ops[n])]
        BY <3>1
    <3>3. \A n \in 1 .. 1 : Task(i, ops[n]) = Task(i, "close")
        BY <3>1
    <3> HIDE DEF t
    <3>4. \A n \in 1 .. 1 : t[n] = Task(i, "close")
        BY <3>2, <3>3
    <3>5. t \in Seq(Waiting)
        BY <3>2, <3>3, <1>1
    <3> QED BY <3>1, <3>2, <3>4, <3>5
  <2> QED BY <2>1, <2>2
<1> HIDE DEF t
<1>3. Adds(t, i, FALSE)
    BY <1>1, <1>2 DEF Adds
<1>4. ClosesOnly(t, i, ops)
    BY <1>1, <1>2 DEF ClosesOnly
<1>5. Closing(i, ops) = t
    BY DEF t, Closing
<1> QED BY <1>3, <1>4, <1>5

-----------------------------------------------------------------------------
(* Types, and what the tasks have.                                         *)

\* What every step of a task but its last does: only its object changes.
Works ==
    /\ UNCHANGED <<kind, provider, alive, current, recreated, queue, kills, updates>>
    /\ task \in Running /\ task' \in Running /\ alive
    /\ task'.op = task.op /\ task'.inst = task.inst
    /\ insts' \in [Insts -> InstType]
    /\ \A i \in Insts : /\ insts'[i].used = insts[i].used
                        /\ insts'[i].reloading = insts[i].reloading
                        /\ insts'[i].recreate => insts[i].recreate
                        /\ task.at # "loaded" => insts'[i].recreate = insts[i].recreate
                        /\ i # task.inst => insts'[i] = insts[i]
    /\ dir' \in DirType \cup {None} /\ tmp' \in DirType \cup {None}
    /\ saved' \in Nat /\ lost' \in BOOLEAN /\ missed' \in BOOLEAN /\ faults' \in Nat
    /\ lost => lost'

LEMMA Consts ==
    /\ None \notin Insts /\ None \notin Nat /\ None \notin DirType /\ None \notin BdType
    /\ Torn \notin Nat /\ Torn # None
    /\ FileType = Nat \cup {None, Torn}
BY DictionaryAssumption DEF FileType

LEMMA BusyFacts ==
    ASSUME Core, NEW at \in Steps, Busy(at)
    PROVE  /\ task \in Running /\ task.at = at /\ task.inst \in Insts /\ task.op \in Ops
           /\ alive /\ insts \in [Insts -> InstType] /\ insts[task.inst] \in InstType
           /\ Bd \in BdType \cup {None}
           /\ \A b \in Steps : Goto(b) => /\ task' \in Running /\ task'.at = b
                                          /\ task'.op = task.op /\ task'.inst = task.inst
<1>1. task.at = at /\ alive /\ task # NoTask
    BY DEF Busy, NoTask, Steps
<1>2. task \in Running
    BY <1>1 DEF Core, PersonalTypeOK, TaskType, Running
<1>3. insts \in [Insts -> InstType] /\ insts[task.inst] \in InstType
    BY <1>2 DEF Core, PersonalTypeOK, InstType, Running
<1>4. Bd \in BdType \cup {None}
    BY <1>3 DEF Bd, InstType
<1>5. ASSUME NEW b \in Steps, Goto(b)
      PROVE  /\ task' \in Running /\ task'.at = b
             /\ task'.op = task.op /\ task'.inst = task.inst
    BY <1>2, <1>5 DEF Goto, Running
<1> QED BY <1>1, <1>2, <1>3, <1>4, <1>5 DEF Running

LEMMA SetBdFacts ==
    ASSUME insts \in [Insts -> InstType], task.inst \in Insts,
           NEW bd \in BdType \cup {None}, SetBd(bd)
    PROVE  /\ insts' \in [Insts -> InstType] /\ insts'[task.inst].bd = bd
           /\ \A i \in Insts : /\ insts'[i].used = insts[i].used
                               /\ insts'[i].reloading = insts[i].reloading
                               /\ insts'[i].recreate = insts[i].recreate
                               /\ i # task.inst => insts'[i] = insts[i]
BY DEF SetBd, InstType

LEMMA SameInsts ==
    ASSUME insts \in [Insts -> InstType], UNCHANGED insts
    PROVE  /\ insts' \in [Insts -> InstType]
           /\ \A i \in Insts : insts'[i] = insts[i]
OBVIOUS

LEMMA DictionaryType ==
    ASSUME NEW valid \in BOOLEAN, NEW content \in Nat, NEW updated \in BOOLEAN
    PROVE  LET bd == Dictionary(valid, content, updated)
           IN  /\ bd \in BdType /\ bd # None
               /\ bd.valid = valid /\ bd.content = content /\ ~bd.corrupted
<1> DEFINE bd == Dictionary(valid, content, updated)
<1>1. bd = [valid |-> valid, content |-> content, updated |-> updated, corrupted |-> FALSE]
    BY DEF Dictionary
<1> HIDE DEF bd
<1>2. bd \in BdType /\ bd.valid = valid /\ bd.content = content /\ ~bd.corrupted
    BY <1>1 DEF BdType
<1>3. bd # None
    BY <1>2, Consts
<1> QED BY <1>2, <1>3 DEF bd

\* What is opened.
LEMMA OpenedFacts ==
    ASSUME NEW d \in DirType \cup {None}, NEW valid \in BOOLEAN, MayOpen(d, valid)
    PROVE  /\ Opened(d, valid) \in BdType /\ Opened(d, valid) # None
           /\ Opened(d, valid).valid = valid /\ ~Opened(d, valid).corrupted
           /\ valid => d # None /\ d.body \in Nat /\ Opened(d, valid).content = d.body
           /\ Whole(d) => valid
<1>1. valid => d # None /\ d.body \in Nat
    BY DEF MayOpen, Whole
<1>2. CASE valid = TRUE
  <2>1. Opened(d, valid) = Dictionary(TRUE, d.body, FALSE) /\ d.body \in Nat
      BY <1>1, <1>2 DEF Opened
  <2>2. LET bd == Dictionary(TRUE, d.body, FALSE)
        IN  bd \in BdType /\ bd # None /\ bd.valid = TRUE /\ bd.content = d.body /\ ~bd.corrupted
      BY <2>1, DictionaryType
  <2> QED BY <2>1, <2>2, <1>1, <1>2
<1>3. CASE valid = FALSE
  <2>1. Opened(d, valid) = Dictionary(FALSE, 0, FALSE) /\ ~Whole(d)
      BY <1>3 DEF Opened, MayOpen
  <2>2. LET bd == Dictionary(FALSE, 0, FALSE)
        IN  bd \in BdType /\ bd # None /\ bd.valid = FALSE /\ ~bd.corrupted
      BY DictionaryType
  <2> QED BY <2>1, <2>2, <1>3
<1> QED BY <1>2, <1>3

\* A file that is written or removed.
SetFile(d, f, c) == [d EXCEPT ![f] = c]

LEMMA FileSet ==
    ASSUME NEW d \in DirType, NEW f \in {"header", "body"}, NEW c \in FileType
    PROVE  /\ SetFile(d, f, c) \in DirType /\ SetFile(d, f, c) # None
           /\ f = "header" => SetFile(d, f, c).header = c /\ SetFile(d, f, c).body = d.body
           /\ f = "body" => SetFile(d, f, c).body = c /\ SetFile(d, f, c).header = d.header
<1>1. CASE f = "header"
    BY <1>1, Consts DEF DirType, SetFile
<1>2. CASE f = "body"
    BY <1>2, Consts DEF DirType, SetFile
<1> QED BY <1>1, <1>2

ReloadStarted ==
    /\ Works /\ TaskHasFiles'
    /\ UNCHANGED <<disk, saved, lost, missed, faults>>
    /\ task.op = "reload" /\ task.at = "start"
    /\ \/ /\ task'.at = "delete" /\ Bd' = None
          /\ NeedsNew(task.inst)
       \/ /\ task'.at = "delete" /\ ~NeedsNew(task.inst)
          /\ Bd = None /\ Bd' \in BdType /\ ~Bd'.valid /\ ~Bd'.corrupted
          /\ ~Whole(dir)
       \/ /\ task'.at = "loaded" /\ ~NeedsNew(task.inst)
          /\ Bd = None /\ Bd' \in BdType /\ Bd'.valid /\ ~Bd'.corrupted
          /\ dir.body = Bd'.content
       \/ /\ task'.at = "loaded" /\ ~NeedsNew(task.inst)
          /\ Bd # None /\ UNCHANGED insts

LEMMA StartReloadWorks ==
    ASSUME Core, StartReload
    PROVE  ReloadStarted
<1>1. /\ task \in Running /\ task.at = "start" /\ task.op = "reload" /\ task.inst \in Insts
      /\ alive /\ insts \in [Insts -> InstType]
      /\ \A b \in Steps : Goto(b) => /\ task' \in Running /\ task'.at = b
                                     /\ task'.op = task.op /\ task'.inst = task.inst
    BY BusyFacts DEF StartReload, Steps
<1>2. /\ UNCHANGED <<kind, provider, alive, current, recreated, queue, kills, updates>>
      /\ UNCHANGED <<dir, tmp, saved, lost, missed, faults>>
    BY DEF StartReload, outside, disk, hist
<1>3. /\ dir \in DirType \cup {None} /\ tmp \in DirType \cup {None}
      /\ saved \in Nat /\ lost \in BOOLEAN /\ missed \in BOOLEAN /\ faults \in Nat
    BY DEF Core, PersonalTypeOK
<1>4. "delete" \in Steps /\ "loaded" \in Steps
    BY DEF Steps
<1>5. \/ SetBd(None) /\ Goto("delete") /\ NeedsNew(task.inst)
      \/ \E valid \in BOOLEAN :
            /\ MayOpen(dir, valid) /\ ~NeedsNew(task.inst) /\ Bd = None
            /\ SetBd(Opened(dir, valid)) /\ Goto(IF valid THEN "loaded" ELSE "delete")
      \/ Goto("loaded") /\ UNCHANGED insts /\ Bd # None /\ ~NeedsNew(task.inst)
    BY DEF StartReload, AfterOpen
<1>6. CASE SetBd(None) /\ Goto("delete") /\ NeedsNew(task.inst)
  <2>1. /\ insts' \in [Insts -> InstType] /\ insts'[task.inst].bd = None
        /\ \A i \in Insts : /\ insts'[i].used = insts[i].used
                            /\ insts'[i].reloading = insts[i].reloading
                            /\ insts'[i].recreate = insts[i].recreate
                            /\ i # task.inst => insts'[i] = insts[i]
      BY <1>6, <1>1, SetBdFacts
  <2>2. task' \in Running /\ task'.at = "delete" /\ task'.op = "reload"
        /\ task'.inst = task.inst
      BY <1>6, <1>1, <1>4
  <2> QED BY <2>1, <2>2, <1>1, <1>2, <1>3, <1>6
          DEF ReloadStarted, Works, TaskHasFiles, FlushSteps, Bd, disk
<1>7. ASSUME NEW valid \in BOOLEAN, MayOpen(dir, valid), ~NeedsNew(task.inst), Bd = None,
             SetBd(Opened(dir, valid)), Goto(IF valid THEN "loaded" ELSE "delete")
      PROVE  ReloadStarted
  <2>1. /\ Opened(dir, valid) \in BdType /\ Opened(dir, valid) # None
        /\ Opened(dir, valid).valid = valid /\ ~Opened(dir, valid).corrupted
        /\ valid => Opened(dir, valid).content = dir.body
        /\ Whole(dir) => valid
      BY <1>3, <1>7, OpenedFacts
  <2>2. /\ insts' \in [Insts -> InstType] /\ insts'[task.inst].bd = Opened(dir, valid)
        /\ \A i \in Insts : /\ insts'[i].used = insts[i].used
                            /\ insts'[i].reloading = insts[i].reloading
                            /\ insts'[i].recreate = insts[i].recreate
                            /\ i # task.inst => insts'[i] = insts[i]
      BY <1>1, <1>7, <2>1, SetBdFacts
  <2>3. /\ task' \in Running /\ task'.at = (IF valid THEN "loaded" ELSE "delete")
        /\ task'.op = "reload" /\ task'.inst = task.inst
      BY <1>7, <1>1, <1>4
  <2> QED BY <2>1, <2>2, <2>3, <1>1, <1>2, <1>3, <1>7
          DEF ReloadStarted, Works, TaskHasFiles, FlushSteps, Bd, disk
<1>8. CASE Goto("loaded") /\ UNCHANGED insts /\ Bd # None /\ ~NeedsNew(task.inst)
  <2>1. task' \in Running /\ task'.at = "loaded" /\ task'.op = "reload"
        /\ task'.inst = task.inst
      BY <1>8, <1>1, <1>4
  <2> QED BY <2>1, <1>1, <1>2, <1>3, <1>8
          DEF ReloadStarted, Works, TaskHasFiles, FlushSteps, Bd, disk
<1> QED BY <1>5, <1>6, <1>7, <1>8

\* What every step of a task knows.
LEMMA AtStep ==
    ASSUME Core, NEW at \in Steps, Busy(at),
           UNCHANGED <<kind, provider, alive, current, recreated, queue, kills, updates>>
    PROVE  /\ task \in Running /\ task.at = at /\ task.inst \in Insts /\ alive
           /\ insts \in [Insts -> InstType] /\ Bd \in BdType \cup {None}
           /\ dir \in DirType \cup {None} /\ tmp \in DirType \cup {None}
           /\ saved \in Nat /\ lost \in BOOLEAN /\ missed \in BOOLEAN /\ faults \in Nat
           /\ provider \in Nat
           /\ \A b \in Steps : Goto(b) => /\ task' \in Running /\ task'.at = b
                                          /\ task'.op = task.op /\ task'.inst = task.inst
<1>1. /\ task \in Running /\ task.at = at /\ task.inst \in Insts /\ alive
      /\ insts \in [Insts -> InstType] /\ Bd \in BdType \cup {None}
      /\ \A b \in Steps : Goto(b) => /\ task' \in Running /\ task'.at = b
                                     /\ task'.op = task.op /\ task'.inst = task.inst
    BY BusyFacts
<1>2. /\ dir \in DirType \cup {None} /\ tmp \in DirType \cup {None}
      /\ saved \in Nat /\ lost \in BOOLEAN /\ missed \in BOOLEAN /\ faults \in Nat
      /\ provider \in Nat
    BY DictionaryAssumption DEF Core, PersonalTypeOK
<1> QED BY <1>1, <1>2

LEMMA StepWorks ==
    ASSUME Core, NEW at \in Steps, Busy(at),
           UNCHANGED <<kind, provider, alive, current, recreated, queue, kills, updates>>,
           task' \in Running, task'.op = task.op, task'.inst = task.inst,
           insts' \in [Insts -> InstType],
           \A i \in Insts : /\ insts'[i].used = insts[i].used
                            /\ insts'[i].reloading = insts[i].reloading
                            /\ insts'[i].recreate = insts[i].recreate
                            /\ i # task.inst => insts'[i] = insts[i],
           dir' \in DirType \cup {None}, tmp' \in DirType \cup {None},
           saved' \in Nat, lost' \in BOOLEAN, missed' \in BOOLEAN,
           faults' \in Nat, lost => lost'
    PROVE  Works
<1>1. task \in Running /\ alive
    BY BusyFacts
<1> QED BY <1>1 DEF Works

\* The removal of a file, or what fails.
LEMMA FaultFacts ==
    ASSUME faults \in Nat, lost \in BOOLEAN
    PROVE  /\ Fault => lost' = TRUE /\ faults' \in Nat
           /\ NoFault => lost' = lost /\ faults' = faults
BY DEF Fault, NoFault

Deleted ==
    /\ Works /\ TaskHasFiles' /\ task.at = "delete"
    /\ UNCHANGED <<tmp, insts, saved, missed>>
    /\ \/ /\ dir = None \/ lost'
          /\ UNCHANGED dir
          /\ task'.at = (IF task.op = "reload" THEN "load"
                         ELSE IF task.op = "clear" THEN "create" ELSE "end")
       \/ UNCHANGED <<task, lost>>

LEMMA DeleteWorks ==
    ASSUME Core, Delete
    PROVE  Deleted
<1> DEFINE done == IF task.op = "reload" THEN "load"
                   ELSE IF task.op = "clear" THEN "create" ELSE "end"
<1>1. /\ "delete" \in Steps /\ Busy("delete") /\ done \in Steps
      /\ UNCHANGED <<kind, provider, alive, current, recreated, queue, kills, updates>>
      /\ UNCHANGED <<tmp, insts, saved, missed>>
    BY DEF Delete, Steps, outside
<1>2. /\ task \in Running /\ task.at = "delete" /\ insts \in [Insts -> InstType]
      /\ dir \in DirType \cup {None} /\ tmp \in DirType \cup {None}
      /\ saved \in Nat /\ lost \in BOOLEAN /\ missed \in BOOLEAN /\ faults \in Nat
      /\ Goto(done) => /\ task' \in Running /\ task'.at = done
                       /\ task'.op = task.op /\ task'.inst = task.inst
    BY <1>1, AtStep
<1>3. /\ Fault => lost' = TRUE /\ faults' \in Nat
      /\ NoFault => lost' = lost /\ faults' = faults
    BY <1>2, FaultFacts
<1>4. task.op \in {"reload", "clear", "remove"}
    BY <1>2 DEF Core, TaskHasFiles
<1>5. /\ task' \in Running /\ task'.op = task.op /\ task'.inst = task.inst
      /\ lost' \in BOOLEAN /\ faults' \in Nat /\ (lost => lost')
      /\ \/ (dir = None \/ lost') /\ UNCHANGED dir /\ task'.at = done
         \/ UNCHANGED <<task, lost>>
  <2>1. \/ dir = None /\ Goto(done) /\ UNCHANGED dir /\ NoFault
        \/ Goto(done) /\ UNCHANGED dir /\ Fault
        \/ UNCHANGED task /\ NoFault
      BY DEF Delete
  <2> HIDE DEF done
  <2>2. CASE dir = None /\ Goto(done) /\ UNCHANGED dir /\ NoFault
      BY <2>2, <1>2, <1>3
  <2>3. CASE Goto(done) /\ UNCHANGED dir /\ Fault
      BY <2>3, <1>2, <1>3
  <2>4. CASE UNCHANGED task /\ NoFault
      BY <2>4, <1>2, <1>3
  <2> QED BY <2>1, <2>2, <2>3, <2>4
<1>6. dir' \in DirType \cup {None}
  <2>1. CASE UNCHANGED dir
      BY <2>1, <1>2
  <2>2. CASE dir' = None
      BY <2>2
  <2>3. CASE \E f \in Files(dir) : dir # None /\ dir' = [dir EXCEPT ![f] = None]
    <3>1. PICK f \in {"header", "body"} : dir # None /\ dir' = [dir EXCEPT ![f] = None]
        BY <2>3 DEF Files
    <3>2. dir \in DirType /\ None \in FileType
        BY <3>1, <1>2, Consts
    <3>3. dir' = SetFile(dir, f, None)
        BY <3>1 DEF SetFile
    <3>4. SetFile(dir, f, None) \in DirType
        BY <3>2, FileSet
    <3> QED BY <3>3, <3>4
  <2> QED BY <2>1, <2>2, <2>3 DEF Delete
<1>7. Works
  <2>1. \A i \in Insts : insts'[i] = insts[i]
      BY <1>1
  <2> QED BY <2>1, <1>1, <1>2, <1>5, <1>6, StepWorks
<1>8. TaskHasFiles'
    BY <1>1, <1>2, <1>4, <1>5 DEF TaskHasFiles, FlushSteps
<1> QED BY <1>1, <1>2, <1>5, <1>7, <1>8 DEF Deleted

ReadProvider ==
    /\ Works /\ TaskHasFiles' /\ task.at = "load"
    /\ UNCHANGED <<dir, tmp, saved, lost>>
    /\ missed' = FALSE
    /\ Bd' \in BdType /\ Bd' # None /\ Bd'.valid /\ Bd'.content = provider /\ ~Bd'.corrupted
    /\ \/ provider # 0 /\ task'.at = "cleanTmp"
       \/ provider = 0 /\ task'.at = "loaded"

LEMMA LoadWorks ==
    ASSUME Core, Load
    PROVE  ReadProvider
<1>1. /\ "load" \in Steps /\ Busy("load") /\ FlushFirst \in Steps /\ "loaded" \in Steps
      /\ UNCHANGED <<kind, provider, alive, current, recreated, queue, kills, updates>>
      /\ UNCHANGED <<dir, tmp, saved, lost, faults>> /\ missed' = FALSE
    BY DEF Load, Steps, outside, FlushFirst, disk
<1>2. /\ task \in Running /\ task.at = "load" /\ insts \in [Insts -> InstType]
      /\ task.inst \in Insts
      /\ dir \in DirType \cup {None} /\ tmp \in DirType \cup {None}
      /\ saved \in Nat /\ lost \in BOOLEAN /\ faults \in Nat /\ provider \in Nat
      /\ \A b \in Steps : Goto(b) => /\ task' \in Running /\ task'.at = b
                                     /\ task'.op = task.op /\ task'.inst = task.inst
    BY <1>1, AtStep
<1>3. task.op = "reload"
    BY <1>2 DEF Core, TaskHasFiles
<1> DEFINE bd == Dictionary(TRUE, provider, provider # 0)
<1>4. bd \in BdType /\ bd # None /\ bd.valid /\ bd.content = provider /\ ~bd.corrupted
  <2>1. bd.valid = TRUE /\ bd \in BdType /\ bd # None /\ bd.content = provider /\ ~bd.corrupted
      BY <1>2, DictionaryType
  <2> QED BY <2>1
<1>5. SetBd(bd)
    BY DEF Load
<1> HIDE DEF bd
<1>6. /\ insts' \in [Insts -> InstType] /\ insts'[task.inst].bd = bd
      /\ \A i \in Insts : /\ insts'[i].used = insts[i].used
                          /\ insts'[i].reloading = insts[i].reloading
                          /\ insts'[i].recreate = insts[i].recreate
                          /\ i # task.inst => insts'[i] = insts[i]
    BY <1>2, <1>4, <1>5, SetBdFacts
<1>7. /\ task' \in Running /\ task'.op = task.op /\ task'.inst = task.inst
      /\ \/ provider # 0 /\ task'.at = "cleanTmp"
         \/ provider = 0 /\ task'.at = "loaded"
    BY <1>1, <1>2 DEF Load, FlushFirst
<1>8. Works
    BY <1>1, <1>2, <1>6, <1>7, StepWorks
<1>9. Bd' = bd
    BY <1>6, <1>7 DEF Bd
<1>10. TaskHasFiles'
    BY <1>3, <1>4, <1>7, <1>9 DEF TaskHasFiles, FlushSteps
<1> QED BY <1>1, <1>2, <1>4, <1>7, <1>8, <1>9, <1>10 DEF ReadProvider

Unmarked ==
    /\ Works /\ TaskHasFiles' /\ task.at = "loaded" /\ task.op = "reload"
    /\ UNCHANGED <<dir, tmp, saved, lost, missed>>
    /\ \A i \in Insts : insts'[i].bd = insts[i].bd
    /\ ~insts'[task.inst].recreate /\ task'.at = "end"

LEMMA LoadedWorks ==
    ASSUME Core, Loaded
    PROVE  Unmarked
<1>1. /\ "loaded" \in Steps /\ Busy("loaded") /\ "end" \in Steps
      /\ UNCHANGED <<kind, provider, alive, current, recreated, queue, kills, updates>>
      /\ UNCHANGED <<dir, tmp, saved, lost, missed, faults>>
      /\ insts' = [insts EXCEPT ![task.inst].recreate = FALSE] /\ Goto("end")
    BY DEF Loaded, Steps, outside, disk, hist
<1>2. /\ task \in Running /\ task.at = "loaded" /\ insts \in [Insts -> InstType]
      /\ task.inst \in Insts /\ alive
      /\ dir \in DirType \cup {None} /\ tmp \in DirType \cup {None}
      /\ saved \in Nat /\ lost \in BOOLEAN /\ faults \in Nat /\ missed \in BOOLEAN
      /\ task' \in Running /\ task'.at = "end" /\ task'.op = task.op /\ task'.inst = task.inst
    BY <1>1, AtStep
<1>3. task.op = "reload"
    BY <1>2 DEF Core, TaskHasFiles
<1>4. /\ insts' \in [Insts -> InstType] /\ ~insts'[task.inst].recreate
      /\ \A i \in Insts : /\ insts'[i].used = insts[i].used
                          /\ insts'[i].reloading = insts[i].reloading
                          /\ insts'[i].bd = insts[i].bd
                          /\ insts'[i].recreate => insts[i].recreate
                          /\ i # task.inst => insts'[i] = insts[i]
    BY <1>1, <1>2 DEF InstType
<1>5. Works
    BY <1>1, <1>2, <1>4 DEF Works
<1>6. TaskHasFiles'
    BY <1>2 DEF TaskHasFiles, FlushSteps
<1> QED BY <1>1, <1>2, <1>3, <1>4, <1>5, <1>6 DEF Unmarked

WriteStarted ==
    /\ Works /\ TaskHasFiles' /\ task.at = "start" /\ task.op \in {"update", "flush"}
    /\ UNCHANGED <<dir, tmp, saved, lost, missed, insts>>
    /\ task'.at \in {"end", "cleanTmp", "update"}

LEMMA StartWriteWorks ==
    ASSUME Core, StartWrite
    PROVE  WriteStarted
<1>1. /\ "start" \in Steps /\ Busy("start") /\ "end" \in Steps /\ "cleanTmp" \in Steps
      /\ "update" \in Steps
      /\ UNCHANGED <<kind, provider, alive, current, recreated, queue, kills, updates>>
      /\ UNCHANGED <<dir, tmp, saved, lost, missed, faults, insts>>
      /\ task.op \in {"update", "flush"}
      /\ \/ Goto("end")
         \/ BdIsValid /\ Goto("cleanTmp")
         \/ BdIsValid /\ task.op = "update" /\ Goto("update")
    BY DEF StartWrite, Steps, outside, disk, hist, FlushFirst
<1>2. /\ task \in Running /\ task.at = "start" /\ insts \in [Insts -> InstType]
      /\ dir \in DirType \cup {None} /\ tmp \in DirType \cup {None}
      /\ saved \in Nat /\ lost \in BOOLEAN /\ faults \in Nat /\ missed \in BOOLEAN
      /\ \A b \in Steps : Goto(b) => /\ task' \in Running /\ task'.at = b
                                     /\ task'.op = task.op /\ task'.inst = task.inst
    BY <1>1, AtStep
<1>3. /\ task' \in Running /\ task'.op = task.op /\ task'.inst = task.inst
      /\ \/ task'.at = "end"
         \/ Bd # None /\ task'.at = "cleanTmp"
         \/ Bd # None /\ task.op = "update" /\ task'.at = "update"
    BY <1>1, <1>2 DEF BdIsValid
<1>4. Works
  <2>1. \A i \in Insts : insts'[i] = insts[i]
      BY <1>1
  <2> QED BY <2>1, <1>1, <1>2, <1>3, StepWorks
<1>5. Bd' = Bd
    BY <1>1, <1>3 DEF Bd
<1>6. TaskHasFiles'
    BY <1>1, <1>3, <1>5 DEF TaskHasFiles, FlushSteps
<1> QED BY <1>1, <1>2, <1>3, <1>4, <1>6 DEF WriteStarted

Updated ==
    /\ Works /\ TaskHasFiles' /\ task.at = "update" /\ task.op = "update"
    /\ UNCHANGED <<dir, tmp, saved, lost, missed>>
    /\ Bd # None /\ Bd' # None /\ Bd'.content \in Nat /\ Bd'.content >= Bd.content
    /\ Bd'.corrupted = Bd.corrupted /\ task'.at = "end"

LEMMA DoUpdateWorks ==
    ASSUME Core, DoUpdate
    PROVE  Updated
<1>1. /\ "update" \in Steps /\ Busy("update") /\ "end" \in Steps
      /\ UNCHANGED <<kind, provider, alive, current, recreated, queue, kills, updates>>
      /\ UNCHANGED <<dir, tmp, saved, lost, missed, faults>>
      /\ Goto("end")
    BY DEF DoUpdate, Steps, outside, disk, hist
<1>2. /\ task \in Running /\ task.at = "update" /\ insts \in [Insts -> InstType]
      /\ task.inst \in Insts /\ Bd \in BdType \cup {None}
      /\ dir \in DirType \cup {None} /\ tmp \in DirType \cup {None}
      /\ saved \in Nat /\ lost \in BOOLEAN /\ faults \in Nat /\ missed \in BOOLEAN
      /\ task' \in Running /\ task'.at = "end" /\ task'.op = task.op /\ task'.inst = task.inst
    BY <1>1, AtStep
<1>3. task.op = "update" /\ Bd # None /\ Bd \in BdType
    BY <1>2 DEF Core, TaskHasFiles
<1>4. CASE Bd.valid
  <2> DEFINE bd == [Bd EXCEPT !.content = @ + 1, !.updated = TRUE]
  <2>1. /\ bd \in BdType /\ bd.content = Bd.content + 1 /\ bd.corrupted = Bd.corrupted
        /\ Bd.content \in Nat
    <3>1. Bd.content \in Nat
        BY <1>3 DEF BdType
    <3>2. ASSUME NEW b \in BdType, NEW c \in Nat
          PROVE  LET e == [b EXCEPT !.content = c, !.updated = TRUE]
                 IN  e \in BdType /\ e.content = c /\ e.corrupted = b.corrupted
        BY DEF BdType
    <3>3. Bd.content + 1 \in Nat
        BY <3>1
    <3> HIDE DEF Bd
    <3> QED BY <3>1, <3>2, <3>3, <1>3
  <2>2. bd # None
      BY <2>1, Consts
  <2>3. SetBd(bd)
      BY <1>4 DEF DoUpdate
  <2> HIDE DEF bd
  <2>4. /\ insts' \in [Insts -> InstType] /\ insts'[task.inst].bd = bd
        /\ \A i \in Insts : /\ insts'[i].used = insts[i].used
                            /\ insts'[i].reloading = insts[i].reloading
                            /\ insts'[i].recreate = insts[i].recreate
                            /\ i # task.inst => insts'[i] = insts[i]
      BY <1>2, <2>1, <2>3, SetBdFacts
  <2>5. Works
      BY <1>1, <1>2, <2>4, StepWorks
  <2>6. Bd' = bd
      BY <2>4, <1>2 DEF Bd
  <2>7. bd.content \in Nat /\ bd.content >= Bd.content
      BY <2>1
  <2>8. TaskHasFiles'
      BY <1>2 DEF TaskHasFiles, FlushSteps
  <2> QED BY <1>1, <1>2, <1>3, <2>1, <2>2, <2>5, <2>6, <2>7, <2>8 DEF Updated
<1>5. CASE ~Bd.valid
  <2>1. UNCHANGED insts
      BY <1>5 DEF DoUpdate
  <2>2. Works
    <3>1. \A i \in Insts : insts'[i] = insts[i]
        BY <2>1
    <3> QED BY <3>1, <2>1, <1>1, <1>2, StepWorks
  <2>3. Bd' = Bd
      BY <2>1, <1>2 DEF Bd
  <2>4. Bd.content \in Nat /\ Bd.content >= Bd.content
      BY <1>3 DEF BdType
  <2>5. TaskHasFiles'
      BY <1>2 DEF TaskHasFiles, FlushSteps
  <2> QED BY <1>1, <1>2, <1>3, <2>2, <2>3, <2>4, <2>5 DEF Updated
<1> QED BY <1>4, <1>5

Dropped ==
    /\ Works /\ TaskHasFiles' /\ task.at = "start" /\ task.op \in {"close", "remove", "clear"}
    /\ UNCHANGED <<dir, tmp, lost, missed>>
    /\ Bd' = None
    /\ task'.at = (IF task.op = "close" THEN "end" ELSE "delete")
    /\ saved' = (IF task.op = "clear" THEN 0 ELSE saved)

LEMMA StartDropWorks ==
    ASSUME Core, StartDrop
    PROVE  Dropped
<1>1. /\ "start" \in Steps /\ Busy("start") /\ "end" \in Steps /\ "delete" \in Steps
      /\ UNCHANGED <<kind, provider, alive, current, recreated, queue, kills, updates>>
      /\ UNCHANGED <<dir, tmp, lost, missed, faults>> /\ SetBd(None)
      /\ task.op \in {"close", "remove", "clear"}
      /\ Goto(IF task.op = "close" THEN "end" ELSE "delete")
      /\ saved' = (IF task.op = "clear" THEN 0 ELSE saved)
    BY DEF StartDrop, Steps, outside, disk
<1>2. /\ task \in Running /\ task.at = "start" /\ insts \in [Insts -> InstType]
      /\ task.inst \in Insts
      /\ dir \in DirType \cup {None} /\ tmp \in DirType \cup {None}
      /\ saved \in Nat /\ lost \in BOOLEAN /\ faults \in Nat /\ missed \in BOOLEAN
      /\ task' \in Running /\ task'.op = task.op /\ task'.inst = task.inst
      /\ task'.at = (IF task.op = "close" THEN "end" ELSE "delete")
    BY <1>1, AtStep
<1>3. saved' \in Nat
    BY <1>1, <1>2
<1>4. /\ insts' \in [Insts -> InstType] /\ insts'[task.inst].bd = None
      /\ \A i \in Insts : /\ insts'[i].used = insts[i].used
                          /\ insts'[i].reloading = insts[i].reloading
                          /\ insts'[i].recreate = insts[i].recreate
                          /\ i # task.inst => insts'[i] = insts[i]
    BY <1>1, <1>2, SetBdFacts
<1>5. Works
    BY <1>1, <1>2, <1>3, <1>4, StepWorks
<1>6. Bd' = None
    BY <1>2, <1>4 DEF Bd
<1>7. TaskHasFiles'
    BY <1>1, <1>2 DEF TaskHasFiles, FlushSteps
<1> QED BY <1>1, <1>2, <1>5, <1>6, <1>7 DEF Dropped

Cleared ==
    /\ Works /\ TaskHasFiles' /\ task.at = "create" /\ task.op = "clear"
    /\ UNCHANGED <<dir, tmp, saved, lost, missed>>
    /\ Bd' # None /\ Bd'.content = 0 /\ ~Bd'.corrupted /\ task'.at = "end"

LEMMA CreateClearedWorks ==
    ASSUME Core, CreateCleared
    PROVE  Cleared
<1>1. /\ "create" \in Steps /\ Busy("create") /\ "end" \in Steps
      /\ UNCHANGED <<kind, provider, alive, current, recreated, queue, kills, updates>>
      /\ UNCHANGED <<dir, tmp, saved, lost, missed, faults>> /\ Goto("end")
    BY DEF CreateCleared, Steps, outside, disk, hist
<1>2. /\ task \in Running /\ task.at = "create" /\ insts \in [Insts -> InstType]
      /\ task.inst \in Insts
      /\ dir \in DirType \cup {None} /\ tmp \in DirType \cup {None}
      /\ saved \in Nat /\ lost \in BOOLEAN /\ faults \in Nat /\ missed \in BOOLEAN
      /\ task' \in Running /\ task'.op = task.op /\ task'.inst = task.inst /\ task'.at = "end"
    BY <1>1, AtStep
<1> DEFINE bd == Dictionary(TRUE, 0, FALSE)
<1>3. bd \in BdType /\ bd # None /\ bd.content = 0 /\ ~bd.corrupted
    BY DictionaryType
<1>4. SetBd(bd)
    BY DEF CreateCleared
<1> HIDE DEF bd
<1>5. /\ insts' \in [Insts -> InstType] /\ insts'[task.inst].bd = bd
      /\ \A i \in Insts : /\ insts'[i].used = insts[i].used
                          /\ insts'[i].reloading = insts[i].reloading
                          /\ insts'[i].recreate = insts[i].recreate
                          /\ i # task.inst => insts'[i] = insts[i]
    BY <1>2, <1>3, <1>4, SetBdFacts
<1>6. Works
    BY <1>1, <1>2, <1>5, StepWorks
<1>7. Bd' = bd
    BY <1>2, <1>5 DEF Bd
<1>8. task.op = "clear"
    BY <1>2 DEF Core, TaskHasFiles
<1>9. TaskHasFiles'
    BY <1>2 DEF TaskHasFiles, FlushSteps
<1> QED BY <1>1, <1>2, <1>3, <1>6, <1>7, <1>8, <1>9 DEF Cleared

\* Where a flush goes on.
FlushedAt == CASE task.op = "reload" -> "loaded"
               [] task.op = "update" -> "update"
               [] OTHER -> "end"

\* A step of a flush that fails, and one that goes on.
LEMMA FlushStep ==
    ASSUME Core, NEW at \in FlushSteps, Busy(at),
           UNCHANGED <<kind, provider, alive, current, recreated, queue, kills, updates>>
    PROVE  /\ task \in Running /\ task.at = at /\ task.inst \in Insts
           /\ task.op \in {"reload", "update", "flush"}
           /\ insts \in [Insts -> InstType] /\ Bd \in BdType /\ Bd # None /\ Bd.content \in Nat
           /\ dir \in DirType \cup {None} /\ tmp \in DirType \cup {None}
           /\ at \in {"header", "body", "removeOld", "rename"} => tmp \in DirType
           /\ saved \in Nat /\ lost \in BOOLEAN /\ missed \in BOOLEAN /\ faults \in Nat
           /\ FlushedAt \in {"loaded", "update", "end"}
           /\ FlushedAt = "loaded" => task.op = "reload"
           /\ FlushedAt = "update" => task.op = "update"
           /\ Flushed => /\ task' \in Running /\ task'.at = FlushedAt
                         /\ task'.op = task.op /\ task'.inst = task.inst
           /\ \A b \in Steps : Goto(b) => /\ task' \in Running /\ task'.at = b
                                          /\ task'.op = task.op /\ task'.inst = task.inst
<1>1. at \in Steps
    BY DEF FlushSteps, Steps
<1>2. /\ task \in Running /\ task.at = at /\ task.inst \in Insts
      /\ insts \in [Insts -> InstType] /\ Bd \in BdType \cup {None}
      /\ dir \in DirType \cup {None} /\ tmp \in DirType \cup {None}
      /\ saved \in Nat /\ lost \in BOOLEAN /\ missed \in BOOLEAN /\ faults \in Nat
      /\ \A b \in Steps : Goto(b) => /\ task' \in Running /\ task'.at = b
                                     /\ task'.op = task.op /\ task'.inst = task.inst
    BY <1>1, AtStep
<1>3. /\ task.op \in {"reload", "update", "flush"} /\ Bd # None
      /\ at \in {"header", "body", "removeOld", "rename"} => tmp # None
    BY <1>2 DEF Core, TaskHasFiles
<1>4. Bd \in BdType /\ Bd.content \in Nat
    BY <1>2, <1>3 DEF BdType
<1>5. /\ FlushedAt \in {"loaded", "update", "end"}
      /\ FlushedAt = "loaded" => task.op = "reload"
      /\ FlushedAt = "update" => task.op = "update"
    BY <1>3 DEF FlushedAt
<1>6. Flushed => Goto(FlushedAt)
    BY DEF Flushed, FlushedAt
<1>7. FlushedAt \in Steps
    BY <1>5 DEF Steps
<1> QED BY <1>2, <1>3, <1>4, <1>5, <1>6, <1>7

LEMMA FailFacts ==
    ASSUME insts \in [Insts -> InstType], task.inst \in Insts, Bd \in BdType,
           faults \in Nat, lost \in BOOLEAN, Fail
    PROVE  /\ lost' = TRUE /\ faults' \in Nat /\ Flushed
           /\ insts' \in [Insts -> InstType] /\ insts'[task.inst].bd # None
           /\ \A i \in Insts : /\ insts'[i].used = insts[i].used
                               /\ insts'[i].reloading = insts[i].reloading
                               /\ insts'[i].recreate = insts[i].recreate
                               /\ i # task.inst => insts'[i] = insts[i]
<1> DEFINE bd == [Bd EXCEPT !.corrupted = TRUE]
<1>1. bd \in BdType
    BY DEF BdType
<1>2. bd # None
    BY <1>1, Consts
<1>3. SetBd(bd)
    BY DEF Fail
<1> HIDE DEF bd
<1>4. /\ insts' \in [Insts -> InstType] /\ insts'[task.inst].bd = bd
      /\ \A i \in Insts : /\ insts'[i].used = insts[i].used
                          /\ insts'[i].reloading = insts[i].reloading
                          /\ insts'[i].recreate = insts[i].recreate
                          /\ i # task.inst => insts'[i] = insts[i]
    BY <1>1, <1>3, SetBdFacts
<1> QED BY <1>2, <1>4, FaultFacts DEF Fail

\* A step of a flush that fails ends it.
LEMMA FailKeeps ==
    ASSUME Core, NEW at \in FlushSteps, Busy(at), Fail,
           UNCHANGED <<kind, provider, alive, current, recreated, queue, kills, updates>>,
           UNCHANGED missed, saved' \in Nat,
           dir' \in DirType \cup {None}, tmp' \in DirType \cup {None}
    PROVE  Works /\ TaskHasFiles' /\ lost'
<1>1. /\ task \in Running /\ task.inst \in Insts /\ task.op \in {"reload", "update", "flush"}
      /\ insts \in [Insts -> InstType] /\ Bd \in BdType
      /\ lost \in BOOLEAN /\ missed \in BOOLEAN /\ faults \in Nat
      /\ FlushedAt \in {"loaded", "update", "end"}
      /\ FlushedAt = "loaded" => task.op = "reload"
      /\ FlushedAt = "update" => task.op = "update"
      /\ Flushed => /\ task' \in Running /\ task'.at = FlushedAt
                    /\ task'.op = task.op /\ task'.inst = task.inst
    BY FlushStep
<1>2. /\ lost' = TRUE /\ faults' \in Nat /\ Flushed
      /\ insts' \in [Insts -> InstType] /\ insts'[task.inst].bd # None
      /\ \A i \in Insts : /\ insts'[i].used = insts[i].used
                          /\ insts'[i].reloading = insts[i].reloading
                          /\ insts'[i].recreate = insts[i].recreate
                          /\ i # task.inst => insts'[i] = insts[i]
    BY <1>1, FailFacts
<1>3. /\ task' \in Running /\ task'.at \in {"loaded", "update", "end"}
      /\ task'.op = task.op /\ task'.inst = task.inst
      /\ task'.at = "update" => task'.op = "update"
      /\ task'.at = "loaded" => task'.op = "reload"
    BY <1>1, <1>2
<1>4. at \in Steps
    BY DEF FlushSteps, Steps
<1>5. Works
    BY <1>1, <1>2, <1>3, <1>4, StepWorks
<1>6. Bd' # None
    BY <1>2, <1>3 DEF Bd
<1>7. TaskHasFiles'
    BY <1>3, <1>6 DEF TaskHasFiles, FlushSteps
<1> QED BY <1>2, <1>5, <1>7

\* One that goes on leaves the objects alone.
LEMMA GoonKeeps ==
    ASSUME Core, NEW at \in FlushSteps, Busy(at),
           UNCHANGED <<kind, provider, alive, current, recreated, queue, kills, updates>>,
           UNCHANGED <<missed, insts>>, saved' \in Nat, Fault \/ NoFault,
           dir' \in DirType \cup {None}, tmp' \in DirType \cup {None},
           NEW b \in FlushSteps, Goto(b),
           b \in {"header", "body", "removeOld", "rename"} => tmp' # None
    PROVE  Works /\ TaskHasFiles' /\ task'.at = b
<1>1. at \in Steps /\ b \in Steps
    BY DEF FlushSteps, Steps
<1>2. /\ task \in Running /\ task.inst \in Insts /\ task.op \in {"reload", "update", "flush"}
      /\ insts \in [Insts -> InstType] /\ Bd # None
      /\ lost \in BOOLEAN /\ missed \in BOOLEAN /\ faults \in Nat
      /\ task' \in Running /\ task'.at = b /\ task'.op = task.op /\ task'.inst = task.inst
    BY <1>1, FlushStep
<1>3. lost' \in BOOLEAN /\ faults' \in Nat /\ (lost => lost')
    BY <1>2, FaultFacts
<1>4. Works
  <2>1. \A i \in Insts : insts'[i] = insts[i]
      OBVIOUS
  <2> QED BY <2>1, <1>1, <1>2, <1>3, StepWorks
<1>5. Bd' # None
    BY <1>2 DEF Bd
<1>6. TaskHasFiles'
    BY <1>2, <1>5 DEF TaskHasFiles, FlushSteps
<1> QED BY <1>2, <1>4, <1>6

CleanedTmp ==
    /\ Works /\ TaskHasFiles' /\ task.at = "cleanTmp"
    /\ UNCHANGED <<dir, saved, missed>>
    /\ ~lost' => UNCHANGED insts /\ task'.at \in {"cleanTmp", "header"}

LEMMA CleanTmpWorks ==
    ASSUME Core, CleanTmp
    PROVE  CleanedTmp
<1>1. /\ "cleanTmp" \in FlushSteps /\ "header" \in FlushSteps /\ Busy("cleanTmp")
      /\ UNCHANGED <<kind, provider, alive, current, recreated, queue, kills, updates>>
      /\ UNCHANGED <<dir, saved, missed>>
    BY DEF CleanTmp, FlushSteps, flushing, outside
<1>2. /\ task.at = "cleanTmp" /\ saved \in Nat
      /\ dir \in DirType \cup {None} /\ tmp \in DirType \cup {None}
    BY <1>1, FlushStep
<1>3. CASE tmp' = EmptyDir /\ Goon("header")
  <2>1. tmp' \in DirType /\ tmp' # None
      BY <1>3, Consts DEF EmptyDir, DirType
  <2>2. Works /\ TaskHasFiles' /\ task'.at = "header"
      BY <1>1, <1>2, <1>3, <2>1, GoonKeeps DEF Goon
  <2> QED BY <1>1, <1>2, <1>3, <2>2 DEF CleanedTmp, Goon
<1>4. CASE /\ tmp # None /\ Goon("cleanTmp")
           /\ tmp' = None \/ \E f \in Files(tmp) : tmp' = [tmp EXCEPT ![f] = None]
  <2>1. tmp' \in DirType \cup {None}
    <3>1. ASSUME NEW f \in Files(tmp), tmp' = [tmp EXCEPT ![f] = None]
          PROVE  tmp' \in DirType
      <4>1. f \in {"header", "body"} /\ tmp \in DirType /\ None \in FileType
          BY <1>2, <1>4, Consts DEF Files
      <4>2. tmp' = SetFile(tmp, f, None)
          BY <3>1 DEF SetFile
      <4> QED BY <4>1, <4>2, FileSet
    <3> QED BY <3>1, <1>4
  <2>2. Works /\ TaskHasFiles' /\ task'.at = "cleanTmp"
      BY <1>1, <1>2, <1>4, <2>1, GoonKeeps DEF Goon
  <2> QED BY <1>1, <1>2, <1>4, <2>2 DEF CleanedTmp, Goon
<1>5. CASE Fail /\ UNCHANGED tmp
  <2>1. Works /\ TaskHasFiles' /\ lost'
      BY <1>1, <1>2, <1>5, FailKeeps
  <2> QED BY <1>1, <1>2, <2>1 DEF CleanedTmp
<1> QED BY <1>3, <1>4, <1>5 DEF CleanTmp

Written(f, next) ==
    /\ Works /\ TaskHasFiles' /\ task.at = f /\ tmp # None
    /\ UNCHANGED <<dir, saved, missed>>
    /\ ~lost' => /\ UNCHANGED insts /\ task'.at = next
                 /\ f = "header" => tmp'.header = Bd.content
                 /\ f = "body" => tmp'.body = Bd.content /\ tmp'.header = tmp.header

LEMMA WriteFileWorks ==
    ASSUME Core, NEW f \in {"header", "body"}, NEW next \in {"body", "removeOld"},
           NEW failed \in FileType, WriteFile(f, next, failed)
    PROVE  Written(f, next)
<1>1. /\ f \in FlushSteps /\ next \in FlushSteps /\ Busy(f)
      /\ UNCHANGED <<kind, provider, alive, current, recreated, queue, kills, updates>>
      /\ UNCHANGED <<dir, saved, missed>>
    BY DEF WriteFile, FlushSteps, flushing, outside
<1>2. /\ task.at = f /\ saved \in Nat /\ Bd.content \in FileType
      /\ dir \in DirType \cup {None} /\ tmp \in DirType /\ tmp # None
  <2>1. /\ task.at = f /\ saved \in Nat /\ Bd.content \in Nat
        /\ dir \in DirType \cup {None} /\ tmp \in DirType
      BY <1>1, FlushStep
  <2> QED BY <2>1, Consts
<1>3. CASE tmp' = [tmp EXCEPT ![f] = Bd.content] /\ Goon(next)
  <2>1. /\ tmp' \in DirType /\ tmp' # None
        /\ f = "header" => tmp'.header = Bd.content
        /\ f = "body" => tmp'.body = Bd.content /\ tmp'.header = tmp.header
    <3>1. tmp' = SetFile(tmp, f, Bd.content)
        BY <1>3 DEF SetFile
    <3>2. PICK c \in FileType : c = Bd.content
        BY <1>2
    <3>3. /\ SetFile(tmp, f, c) \in DirType /\ SetFile(tmp, f, c) # None
          /\ f = "header" => SetFile(tmp, f, c).header = c
          /\ f = "body" => SetFile(tmp, f, c).body = c /\ SetFile(tmp, f, c).header = tmp.header
      <4>1. SetFile(tmp, f, c) \in DirType
          BY <1>2, FileSet
      <4>2. SetFile(tmp, f, c) # None
          BY <4>1, Consts
      <4>3. f = "header" => SetFile(tmp, f, c).header = c
          BY <1>2, FileSet
      <4>4. f = "body" => SetFile(tmp, f, c).body = c
          BY <1>2, FileSet
      <4>5. f = "body" => SetFile(tmp, f, c).header = tmp.header
          BY <1>2, FileSet
      <4> QED BY <4>1, <4>2, <4>3, <4>4, <4>5
    <3> QED BY <3>1, <3>2, <3>3
  <2>2. Works /\ TaskHasFiles' /\ task'.at = next
      BY <1>1, <1>2, <1>3, <2>1, GoonKeeps DEF Goon
  <2> QED BY <1>1, <1>2, <1>3, <2>1, <2>2 DEF Written, Goon
<1>4. CASE tmp' = [tmp EXCEPT ![f] = Torn] /\ Fault /\ Goto(next) /\ UNCHANGED insts
  <2>1. tmp' \in DirType /\ tmp' # None
    <3>1. tmp' = SetFile(tmp, f, Torn) /\ Torn \in FileType
        BY <1>4, Consts DEF SetFile
    <3> QED BY <3>1, <1>2, FileSet
  <2>2. Works /\ TaskHasFiles'
      BY <1>1, <1>2, <1>4, <2>1, GoonKeeps
  <2>3. lost'
      BY <1>4 DEF Fault
  <2> QED BY <1>1, <1>2, <2>2, <2>3 DEF Written
<1>5. CASE tmp' = [tmp EXCEPT ![f] = failed] /\ Fail
  <2>1. tmp' \in DirType
    <3>1. tmp' = SetFile(tmp, f, failed)
        BY <1>5 DEF SetFile
    <3> QED BY <3>1, <1>2, FileSet
  <2>2. Works /\ TaskHasFiles' /\ lost'
      BY <1>1, <1>2, <1>5, <2>1, FailKeeps
  <2> QED BY <1>1, <1>2, <2>2 DEF Written
<1> QED BY <1>3, <1>4, <1>5 DEF WriteFile

OldRemoved ==
    /\ Works /\ TaskHasFiles' /\ task.at = "removeOld"
    /\ UNCHANGED <<tmp, saved, missed>>
    /\ ~lost' => /\ UNCHANGED insts /\ task'.at \in {"removeOld", "rename"}
                 /\ Whole(dir') => UNCHANGED dir
                 /\ dir = None => dir' = None

LEMMA RemoveOldWorks ==
    ASSUME Core, RemoveOld
    PROVE  OldRemoved
<1>1. /\ "removeOld" \in FlushSteps /\ "rename" \in FlushSteps /\ Busy("removeOld")
      /\ UNCHANGED <<kind, provider, alive, current, recreated, queue, kills, updates>>
      /\ UNCHANGED <<tmp, saved, missed>>
    BY DEF RemoveOld, FlushSteps, flushing, outside
<1>2. /\ task.at = "removeOld" /\ saved \in Nat
      /\ dir \in DirType \cup {None} /\ tmp \in DirType /\ tmp # None
  <2>1. /\ task.at = "removeOld" /\ saved \in Nat
        /\ dir \in DirType \cup {None} /\ tmp \in DirType
      BY <1>1, FlushStep
  <2> QED BY <2>1, Consts
<1>3. CASE (UNCHANGED dir \/ dir' = None) /\ Goon("rename")
  <2>1. Works /\ TaskHasFiles' /\ task'.at = "rename"
      BY <1>1, <1>2, <1>3, GoonKeeps DEF Goon
  <2>2. (Whole(dir') => UNCHANGED dir) /\ (dir = None => dir' = None)
      BY <1>3 DEF Whole
  <2> QED BY <1>1, <1>2, <1>3, <2>1, <2>2 DEF OldRemoved, Goon
<1>4. CASE /\ dir # None /\ Goon("removeOld")
           /\ \E f \in Files(dir) : dir' = [dir EXCEPT ![f] = None]
  <2>1. PICK f \in Files(dir) : dir' = [dir EXCEPT ![f] = None]
      BY <1>4
  <2>2. f \in {"header", "body"} /\ dir \in DirType /\ None \in FileType
      BY <2>1, <1>2, <1>4, Consts DEF Files
  <2>3. /\ dir' \in DirType
        /\ f = "header" => dir'.header = None
        /\ f = "body" => dir'.body = None
    <3>1. dir' = SetFile(dir, f, None)
        BY <2>1 DEF SetFile
    <3> QED BY <3>1, <2>2, FileSet
  <2>4. ~Whole(dir')
      BY <2>2, <2>3, Consts DEF Whole
  <2>5. Works /\ TaskHasFiles' /\ task'.at = "removeOld"
      BY <1>1, <1>2, <1>4, <2>3, GoonKeeps DEF Goon
  <2> QED BY <1>1, <1>2, <1>4, <2>4, <2>5 DEF OldRemoved, Goon
<1>5. CASE UNCHANGED dir /\ Fail
  <2>1. Works /\ TaskHasFiles' /\ lost'
      BY <1>1, <1>2, <1>5, FailKeeps
  <2> QED BY <1>1, <1>2, <2>1 DEF OldRemoved
<1>6. CASE UNCHANGED <<dir, insts>> /\ Fault /\ Goto("rename")
  <2>1. Works /\ TaskHasFiles'
      BY <1>1, <1>2, <1>6, GoonKeeps
  <2>2. lost'
      BY <1>6 DEF Fault
  <2> QED BY <1>1, <1>2, <2>1, <2>2 DEF OldRemoved
<1> QED BY <1>3, <1>4, <1>5, <1>6 DEF RemoveOld

Renamed ==
    /\ Works /\ TaskHasFiles' /\ task.at = "rename"
    /\ UNCHANGED missed
    /\ ~lost' => /\ UNCHANGED insts /\ task'.at = "reopen"
                 /\ dir' = tmp /\ tmp' = None /\ saved' = Bd.content

LEMMA RenameWorks ==
    ASSUME Core, Rename
    PROVE  Renamed
<1>1. /\ "rename" \in FlushSteps /\ "reopen" \in FlushSteps /\ Busy("rename")
      /\ UNCHANGED <<kind, provider, alive, current, recreated, queue, kills, updates>>
      /\ UNCHANGED missed
    BY DEF Rename, FlushSteps, flushing, outside
<1>2. /\ task.at = "rename" /\ saved \in Nat /\ Bd.content \in Nat
      /\ dir \in DirType \cup {None} /\ tmp \in DirType
    BY <1>1, FlushStep
<1>3. CASE dir' = tmp /\ tmp' = None /\ saved' = Bd.content /\ Goon("reopen")
  <2>1. Works /\ TaskHasFiles' /\ task'.at = "reopen"
      BY <1>1, <1>2, <1>3, GoonKeeps DEF Goon
  <2> QED BY <1>1, <1>2, <1>3, <2>1 DEF Renamed, Goon
<1>4. CASE Fail /\ UNCHANGED <<dir, tmp, saved>>
  <2>1. Works /\ TaskHasFiles' /\ lost'
      BY <1>1, <1>2, <1>4, FailKeeps
  <2> QED BY <1>1, <1>2, <2>1 DEF Renamed
<1> QED BY <1>3, <1>4 DEF Rename, disk

Reopened ==
    /\ Works /\ TaskHasFiles' /\ task.at = "reopen"
    /\ UNCHANGED <<dir, tmp, saved, lost, missed>>
    /\ task'.at = FlushedAt /\ FlushedAt \in {"loaded", "update", "end"}
    /\ FlushedAt = "loaded" => task.op = "reload"
    /\ Bd' # None /\ ~Bd'.corrupted
    /\ Whole(dir) => Bd'.valid /\ Bd'.content = dir.body

LEMMA ReopenWorks ==
    ASSUME Core, Reopen
    PROVE  Reopened
<1>1. /\ "reopen" \in FlushSteps /\ "reopen" \in Steps /\ Busy("reopen")
      /\ UNCHANGED <<kind, provider, alive, current, recreated, queue, kills, updates>>
      /\ UNCHANGED <<dir, tmp, saved, lost, missed, faults>> /\ Flushed
    BY DEF Reopen, FlushSteps, Steps, outside, disk, hist
<1>2. /\ task \in Running /\ task.at = "reopen" /\ task.inst \in Insts
      /\ task.op \in {"reload", "update", "flush"} /\ insts \in [Insts -> InstType]
      /\ dir \in DirType \cup {None} /\ tmp \in DirType \cup {None}
      /\ saved \in Nat /\ lost \in BOOLEAN /\ missed \in BOOLEAN /\ faults \in Nat
      /\ FlushedAt \in {"loaded", "update", "end"}
      /\ FlushedAt = "loaded" => task.op = "reload"
      /\ FlushedAt = "update" => task.op = "update"
      /\ task' \in Running /\ task'.at = FlushedAt
      /\ task'.op = task.op /\ task'.inst = task.inst
    BY <1>1, FlushStep
<1>3. PICK valid \in BOOLEAN : MayOpen(dir, valid) /\ SetBd(Opened(dir, valid))
    BY DEF Reopen
<1>4. /\ Opened(dir, valid) \in BdType /\ Opened(dir, valid) # None
      /\ Opened(dir, valid).valid = valid /\ ~Opened(dir, valid).corrupted
      /\ valid => Opened(dir, valid).content = dir.body
      /\ Whole(dir) => valid
    BY <1>2, <1>3, OpenedFacts
<1>5. /\ insts' \in [Insts -> InstType] /\ insts'[task.inst].bd = Opened(dir, valid)
      /\ \A i \in Insts : /\ insts'[i].used = insts[i].used
                          /\ insts'[i].reloading = insts[i].reloading
                          /\ insts'[i].recreate = insts[i].recreate
                          /\ i # task.inst => insts'[i] = insts[i]
    BY <1>2, <1>3, <1>4, SetBdFacts
<1>6. Works
    BY <1>1, <1>2, <1>5, StepWorks
<1>7. Bd' = Opened(dir, valid)
    BY <1>2, <1>5 DEF Bd
<1>8. TaskHasFiles'
  <2>1. Bd' # None
      BY <1>4, <1>7
  <2>2. /\ task'.at = "update" => task'.op = "update"
        /\ task'.at = "loaded" => task'.op = "reload"
        /\ task'.at \in {"loaded", "update", "end"}
      BY <1>2
  <2> QED BY <2>1, <2>2 DEF TaskHasFiles, FlushSteps
<1>9. Bd' # None /\ ~Bd'.corrupted /\ (Whole(dir) => Bd'.valid /\ Bd'.content = dir.body)
    BY <1>4, <1>7
<1> QED BY <1>1, <1>2, <1>6, <1>8, <1>9 DEF Reopened

-----------------------------------------------------------------------------
(* Calls.                                                                  *)

\* What a call does to the object i: it stays, or it is created, and then it is
\* reloaded.
Called(i, reload, t) ==
    /\ i \in Insts /\ reload \in BOOLEAN /\ Adds(t, i, reload) /\ queue' = queue \o t
    /\ UNCHANGED <<kind, provider, dir, tmp, alive, task, saved, lost, faults, kills>>
    /\ alive /\ updates' \in Nat
    /\ insts' \in [Insts -> InstType]
    /\ \A j \in Insts : j # i => insts'[j] = insts[j]
    /\ insts'[i].used /\ (reload => ~insts[i].reloading)
    /\ insts'[i].reloading = (insts[i].reloading \/ reload)
    /\ \/ /\ insts[i].used /\ insts'[i].bd = insts[i].bd
          /\ insts'[i].recreate = insts[i].recreate
          /\ reload => insts[i].bd = None \/ insts[i].recreate
       \/ /\ reload /\ ~insts[i].used /\ insts'[i].bd = None
          /\ insts'[i].recreate = (kind = "user" /\ ~recreated)
    /\ \A n \in DOMAIN t : t[n].inst = i \/ insts[t[n].inst].used
    /\ \/ UNCHANGED current \/ current' = None \/ current' = i
    /\ recreated' \in BOOLEAN /\ (current' # None => recreated')
    /\ missed' \in BOOLEAN

LEMMA CoreFacts ==
    ASSUME Core
    PROVE  /\ kind \in {"user", "history"} /\ provider \in Nat /\ provider <= MaxChanges
           /\ dir \in DirType \cup {None} /\ tmp \in DirType \cup {None}
           /\ alive \in BOOLEAN /\ current \in Insts \cup {None}
           /\ insts \in [Insts -> InstType] /\ \A i \in Insts : insts[i] \in InstType
           /\ queue \in Seq(Waiting) /\ \A n \in DOMAIN queue : insts[queue[n].inst].used
           /\ \A n \in DOMAIN queue : queue[n] \in Waiting
           /\ task \in Running \cup {NoTask}
           /\ task # NoTask => task \in Running /\ insts[task.inst].used
           /\ task = NoTask <=> task.at = "idle"
           /\ current # None => insts[current].used /\ alive /\ recreated
           /\ recreated \in BOOLEAN /\ saved \in Nat /\ lost \in BOOLEAN /\ missed \in BOOLEAN
           /\ faults \in Nat /\ kills \in Nat /\ updates \in Nat
<1>1. provider \in Nat /\ provider <= MaxChanges
    BY DictionaryAssumption DEF Core, PersonalTypeOK
<1>2. insts \in [Insts -> InstType] /\ \A i \in Insts : insts[i] \in InstType
    BY DEF Core, PersonalTypeOK, InstType
<1>3. queue \in Seq(Waiting)
    BY DEF Core, TasksOfUsed, Waiting
<1>4. /\ task \in Running \cup {NoTask}
      /\ task # NoTask => task \in Running
      /\ task = NoTask <=> task.at = "idle"
    BY DEF Core, PersonalTypeOK, TaskType, Running, NoTask, Steps
<1>5. \A n \in DOMAIN queue : queue[n] \in Waiting
    BY <1>3
<1> QED BY <1>1, <1>2, <1>3, <1>4, <1>5 DEF Core, PersonalTypeOK, TasksOfUsed

LEMMA WaitingTasks ==
    ASSUME NEW q \in Seq(Waiting)
    PROVE  q \in Seq(TaskType)
<1>1. Waiting \subseteq TaskType
    BY DEF Waiting, TaskType, Steps
<1> QED BY <1>1

LEMMA CalledKeeps ==
    ASSUME Core, NEW i, NEW reload, NEW t, Called(i, reload, t)
    PROVE  Core'
<1>1. /\ i \in Insts /\ reload \in BOOLEAN /\ Adds(t, i, reload) /\ queue' = queue \o t
      /\ UNCHANGED <<kind, provider, dir, tmp, alive, task, saved, lost, faults, kills>>
      /\ alive /\ updates' \in Nat
      /\ insts' \in [Insts -> InstType]
      /\ \A j \in Insts : j # i => insts'[j] = insts[j]
      /\ insts'[i].used
      /\ insts[i].used => insts'[i].bd = insts[i].bd
      /\ \A n \in DOMAIN t : t[n].inst = i \/ insts[t[n].inst].used
      /\ \/ UNCHANGED current \/ current' = None \/ current' = i
      /\ recreated' \in BOOLEAN /\ (current' # None => recreated')
      /\ missed' \in BOOLEAN
    BY DEF Called
<1>2. /\ queue' \in Seq(Waiting)
      /\ \A n \in DOMAIN queue : n \in DOMAIN queue' /\ queue'[n] = queue[n]
      /\ \A n \in DOMAIN queue' : n \notin DOMAIN queue =>
            n - Len(queue) \in DOMAIN t /\ queue'[n] = t[n - Len(queue)]
  <2>1. t \in Seq(Waiting) /\ queue \in Seq(Waiting) /\ queue' = queue \o t
      BY <1>1, CoreFacts DEF Adds
  <2> QED BY <2>1, AddsQueue
<1>3. \A n \in DOMAIN t : t[n] \in Waiting
    BY <1>1 DEF Adds
<1>4. \A j \in Insts : insts[j].used => insts'[j].used
    BY <1>1
<1>5. \A n \in DOMAIN queue' : insts'[queue'[n].inst].used
  <2> SUFFICES ASSUME NEW n \in DOMAIN queue' PROVE insts'[queue'[n].inst].used
      OBVIOUS
  <2>1. CASE n \in DOMAIN queue
      BY <2>1, <1>2, <1>4, CoreFacts DEF Waiting
  <2>2. CASE n \notin DOMAIN queue
    <3>1. n - Len(queue) \in DOMAIN t /\ queue'[n] = t[n - Len(queue)]
        BY <2>2, <1>2
    <3>2. queue'[n].inst \in Insts
        BY <3>1, <1>3 DEF Waiting
    <3>3. queue'[n].inst = i \/ insts[queue'[n].inst].used
        BY <3>1, <1>1
    <3> QED BY <3>2, <3>3, <1>1, <1>4
  <2> QED BY <2>1, <2>2
<1>6. task' # NoTask => task'.op \in Ops /\ task'.inst \in Insts /\ insts'[task'.inst].used
    BY <1>1, <1>4, CoreFacts DEF Running
<1>7. current' \in Insts \cup {None}
      /\ (current' # None => insts'[current'].used /\ alive' /\ recreated')
    BY <1>1, <1>4, CoreFacts
<1>8. \A j \in Insts : ~insts'[j].used => insts'[j] = [used |-> FALSE, bd |-> None,
                                         reloading |-> FALSE, recreate |-> FALSE]
    BY <1>1 DEF Core, TasksOfUsed
<1>9. TasksOfUsed'
    BY <1>2, <1>5, <1>6, <1>7, <1>8 DEF TasksOfUsed, Waiting
<1>10. queue' \in Seq(TaskType)
    BY <1>2, WaitingTasks
<1>11. PersonalTypeOK'
    BY <1>1, <1>7, <1>10 DEF Core, PersonalTypeOK, InstType
<1>12. Bd # None /\ task.at # "idle" => Bd' # None
  <2> SUFFICES ASSUME Bd # None, task.at # "idle" PROVE Bd' # None
      OBVIOUS
  <2>1. task.inst \in Insts /\ insts[task.inst].used /\ task' = task
      BY <1>1, CoreFacts DEF Running
  <2>2. insts'[task.inst].bd = insts[task.inst].bd
      BY <2>1, <1>1
  <2> QED BY <2>1, <2>2 DEF Bd
<1>13. TaskHasFiles'
    BY <1>1, <1>12 DEF Core, TaskHasFiles, FlushSteps
<1> QED BY <1>9, <1>11, <1>13 DEF Core

LEMMA WorksKeeps ==
    ASSUME Core, Works, TaskHasFiles'
    PROVE  Core'
<1>1. TasksOfUsed'
  <2>1. /\ queue' = queue /\ current' = current /\ alive' = alive /\ recreated' = recreated
        /\ task' \in Running /\ task \in Running /\ task'.inst = task.inst
        /\ \A i \in Insts : /\ insts'[i].used = insts[i].used
                            /\ i # task.inst => insts'[i] = insts[i]
      BY DEF Works
  <2>2. insts[task.inst].used
      BY <2>1, CoreFacts DEF Running, NoTask, Steps
  <2>3. \A n \in DOMAIN queue' : insts'[queue'[n].inst].used
      BY <2>1, CoreFacts DEF Waiting
  <2>4. task'.op \in Ops /\ task'.inst \in Insts /\ insts'[task'.inst].used
      BY <2>1, <2>2 DEF Running
  <2>5. current' # None => insts'[current'].used /\ alive' /\ recreated'
      BY <2>1, CoreFacts
  <2>6. \A j \in Insts : ~insts'[j].used => insts'[j] = [used |-> FALSE, bd |-> None,
                                           reloading |-> FALSE, recreate |-> FALSE]
      BY <2>1, <2>2 DEF Core, TasksOfUsed
  <2>7. queue' \in Seq([op : Ops, inst : Insts, at : {"start"}])
      BY <2>1 DEF Core, TasksOfUsed
  <2> QED BY <2>3, <2>4, <2>5, <2>6, <2>7 DEF TasksOfUsed
<1>2. PersonalTypeOK'
    BY DEF Core, PersonalTypeOK, Works, InstType, TaskType, Running
<1> QED BY <1>1, <1>2 DEF Core

\* The calls, for the copy of the user dictionary.
Looks(i, t) ==
    /\ i = current /\ insts[i].used
    /\ UNCHANGED <<current, recreated, missed>>
    /\ \A n \in DOMAIN t : t[n].inst = i /\ t[n].op \in {"reload", "remove"}

Opens(i, reload, t) ==
    /\ current = None /\ current' = i /\ reload /\ ~insts[i].used
    /\ recreated' /\ UNCHANGED missed
    /\ \A n \in DOMAIN t : t[n].inst = i /\ t[n].op = "reload"

Closes(i, reload, t) ==
    /\ current = i /\ current' = None /\ ~reload /\ UNCHANGED <<insts, recreated>>
    /\ missed' = (missed \/ Forgotten(i))
    /\ \A n \in DOMAIN t : t[n].inst = i /\ t[n].op = "close"

Forces(i, reload, t) ==
    /\ current # None /\ i # current /\ current' = i /\ reload /\ ~insts[i].used
    /\ UNCHANGED recreated /\ missed' = (missed \/ Forgotten(current))
    /\ \A n \in DOMAIN t : \/ t[n].inst = i /\ t[n].op = "reload"
                           \/ t[n].inst = current /\ t[n].op = "close"

CallStep(i, reload, t) ==
    /\ Called(i, reload, t) /\ UNCHANGED provider
    /\ \A n \in DOMAIN t : t[n].op = "remove" => lost
    /\ kind = "history" /\ ~insts[i].used => \A j \in Insts : ~insts[j].used
    /\ kind = "user" => \/ Looks(i, t) \/ Opens(i, reload, t)
                        \/ Closes(i, reload, t) \/ Forces(i, reload, t)

LEMMA CallEffect ==
    ASSUME Core, NEW i \in Insts, NEW ops, NEW op \in Ops \ {"reload"}, ops \in {<<>>, <<op>>},
           NEW max, Call(i, ops, max), insts[i].used
    PROVE  LET t == Tasks(i, ops)
           IN  /\ StartsReload(i) \in BOOLEAN /\ Adds(t, i, StartsReload(i)) /\ queue' = queue \o t
               /\ \A n \in DOMAIN t :
                     t[n].inst = i /\ (t[n].op # "reload" => ops = <<op>> /\ t[n].op = op)
               /\ insts' \in [Insts -> InstType]
               /\ \A j \in Insts : j # i => insts'[j] = insts[j]
               /\ insts'[i].used /\ (StartsReload(i) => ~insts[i].reloading)
               /\ insts'[i].reloading = (insts[i].reloading \/ StartsReload(i))
               /\ insts'[i].bd = insts[i].bd /\ insts'[i].recreate = insts[i].recreate
               /\ StartsReload(i) => insts[i].bd = None \/ insts[i].recreate
<1>1. insts \in [Insts -> InstType]
    BY CoreFacts
<1>2. /\ StartsReload(i) \in BOOLEAN /\ Adds(Tasks(i, ops), i, StartsReload(i))
      /\ \A n \in DOMAIN Tasks(i, ops) :
            /\ Tasks(i, ops)[n].inst = i
            /\ Tasks(i, ops)[n].op # "reload" => ops = <<op>> /\ Tasks(i, ops)[n].op = op
    BY <1>1, CallAdds
<1>3. /\ queue' = queue \o Tasks(i, ops)
      /\ insts' = [insts EXCEPT ![i].reloading = insts[i].reloading \/ StartsReload(i)]
    BY DEF Call, Tasks
<1>4. /\ StartsReload(i) => ~insts[i].reloading
      /\ StartsReload(i) => insts[i].bd = None \/ insts[i].recreate
    BY DEF StartsReload, IsReloadRequired
<1>5. /\ insts' \in [Insts -> InstType]
      /\ \A j \in Insts : j # i => insts'[j] = insts[j]
      /\ insts'[i].used
      /\ insts'[i].reloading = (insts[i].reloading \/ StartsReload(i))
      /\ insts'[i].bd = insts[i].bd /\ insts'[i].recreate = insts[i].recreate
  <2> DEFINE b == insts[i].reloading \/ StartsReload(i)
  <2>1. b \in BOOLEAN
      BY <1>1, <1>2 DEF InstType
  <2>2. insts' = [insts EXCEPT ![i].reloading = b]
      BY <1>3
  <2> HIDE DEF b
  <2>3. /\ insts' \in [Insts -> InstType]
        /\ \A j \in Insts : j # i => insts'[j] = insts[j]
        /\ insts'[i].used /\ insts'[i].reloading = b
        /\ insts'[i].bd = insts[i].bd /\ insts'[i].recreate = insts[i].recreate
      BY <1>1, <2>1, <2>2 DEF InstType
  <2> QED BY <2>3 DEF b
<1> QED BY <1>2, <1>3, <1>4, <1>5

LEMMA CreatedEffect ==
    ASSUME Core, NEW i \in Insts, ~insts[i].used, insts' = Created(i)
    PROVE  /\ insts' \in [Insts -> InstType]
           /\ \A j \in Insts : j # i => insts'[j] = insts[j]
           /\ insts'[i].used /\ ~insts[i].reloading /\ insts'[i].reloading = TRUE
           /\ insts'[i].bd = None /\ insts'[i].recreate = (kind = "user" /\ ~recreated)
<1>1. insts \in [Insts -> InstType] /\ recreated \in BOOLEAN
    BY CoreFacts
<1>2. ~insts[i].reloading
    BY DEF Core, TasksOfUsed
<1> DEFINE r == kind = "user" /\ ~recreated
<1>3. r \in BOOLEAN
    OBVIOUS
<1>4. insts' = [insts EXCEPT ![i] = [used |-> TRUE, bd |-> None, reloading |-> TRUE, recreate |-> r]]
    BY DEF Created
<1> HIDE DEF r
<1>5. /\ insts' \in [Insts -> InstType]
      /\ \A j \in Insts : j # i => insts'[j] = insts[j]
      /\ insts'[i].used /\ insts'[i].reloading = TRUE
      /\ insts'[i].bd = None /\ insts'[i].recreate = r
    BY <1>1, <1>3, <1>4 DEF InstType
<1> QED BY <1>2, <1>5 DEF r

Somewhere == \E i \in Insts : \E reload, t : CallStep(i, reload, t)

\* A call on the object in use that leaves the rest alone.
LEMMA UseCalls ==
    ASSUME Core, NEW i \in Insts, NEW ops, NEW op \in Ops \ {"reload"}, ops \in {<<>>, <<op>>},
           NEW max, Call(i, ops, max), insts[i].used, alive, updates' \in Nat,
           UNCHANGED <<kind, provider, dir, tmp, alive, task, saved, lost, missed, faults, kills>>,
           current' = i, UNCHANGED recreated \/ recreated', recreated' \in BOOLEAN,
           current = i \/ recreated',
           ops = <<op>> /\ op = "remove" => lost,
           kind = "user" => i = current /\ UNCHANGED recreated /\ (ops = <<op>> => op = "remove")
    PROVE  Somewhere
<1> DEFINE t == Tasks(i, ops)
<1>1. /\ StartsReload(i) \in BOOLEAN /\ Adds(t, i, StartsReload(i)) /\ queue' = queue \o t
      /\ \A n \in DOMAIN t :
            t[n].inst = i /\ (t[n].op # "reload" => ops = <<op>> /\ t[n].op = op)
      /\ insts' \in [Insts -> InstType]
      /\ \A j \in Insts : j # i => insts'[j] = insts[j]
      /\ insts'[i].used /\ (StartsReload(i) => ~insts[i].reloading)
      /\ insts'[i].reloading = (insts[i].reloading \/ StartsReload(i))
      /\ insts'[i].bd = insts[i].bd /\ insts'[i].recreate = insts[i].recreate
      /\ StartsReload(i) => insts[i].bd = None \/ insts[i].recreate
    BY CallEffect
<1> HIDE DEF t
<1>2. current' # None => recreated'
    BY CoreFacts
<1>3. missed' \in BOOLEAN
    BY CoreFacts
<1>4. Called(i, StartsReload(i), t)
    BY <1>1, <1>2, <1>3 DEF Called
<1>5. \A n \in DOMAIN t : t[n].op = "remove" => lost
    BY <1>1
<1>6. kind = "user" => Looks(i, t)
    BY <1>1 DEF Looks
<1>7. CallStep(i, StartsReload(i), t)
    BY <1>4, <1>5, <1>6 DEF CallStep
<1> QED BY <1>7 DEF Somewhere

LEMMA LookupCalls ==
    ASSUME Core, Undisturbed, NEW i \in Insts, Lookup(i)
    PROVE  Somewhere
<1> DEFINE corrupted == insts[i].bd # None /\ insts[i].bd.valid /\ insts[i].bd.corrupted
           ops == IF corrupted THEN <<"remove">> ELSE <<>>
<1>1. /\ alive /\ i = current /\ Call(i, ops, MaxQueue + 1)
      /\ UNCHANGED <<kind, provider, dir, tmp, alive, current, task, recreated>>
      /\ UNCHANGED <<saved, lost, missed, faults, kills, updates>>
    BY DEF Lookup, disk, hist, bound
<1>2. current # None /\ insts[i].used /\ updates \in Nat /\ recreated \in BOOLEAN
    BY <1>1, CoreFacts, Consts
<1>3. corrupted => lost
    BY DEF Undisturbed, NotCorrupted
<1>4. "remove" \in Ops \ {"reload"}
    BY DEF Ops
<1>5. ops \in {<<>>, <<"remove">>} /\ (ops = <<"remove">> => lost)
  <2>1. CASE corrupted
      BY <2>1, <1>3
  <2>2. CASE ~corrupted
    <3>1. ops = <<>> /\ <<>> # <<"remove">>
        BY <2>2
    <3> QED BY <3>1
  <2> QED BY <2>1, <2>2
<1> HIDE DEF ops
<1> QED BY <1>1, <1>2, <1>4, <1>5, UseCalls

LEMMA UpdateCalls ==
    ASSUME Core, NEW i \in Insts, Update(i)
    PROVE  Somewhere
<1>1. /\ alive /\ i = current /\ kind = "history" /\ Call(i, <<"update">>, MaxQueue)
      /\ updates' = updates + 1
      /\ UNCHANGED <<kind, provider, dir, tmp, alive, current, task, recreated>>
      /\ UNCHANGED <<saved, lost, missed, faults, kills>>
    BY DEF Update, disk, hist
<1>2. current # None /\ insts[i].used /\ updates' \in Nat /\ recreated \in BOOLEAN
    BY <1>1, CoreFacts, Consts
<1>3. "update" \in Ops \ {"reload"} /\ kind # "user" /\ "update" # "remove"
    BY <1>1 DEF Ops
<1> QED BY <1>1, <1>2, <1>3, UseCalls

\* A call that appends tasks and leaves the object alone.
LEMMA AppendCalls ==
    ASSUME Core, NEW i \in Insts, i = current, NEW t, Adds(t, i, FALSE), queue' = queue \o t,
           UNCHANGED <<kind, provider, dir, tmp, alive, insts, task, recreated, saved, lost,
                       faults, kills, updates>>,
           \A n \in DOMAIN t : t[n].inst = i /\ t[n].op # "remove",
           UNCHANGED current \/ current' = None, missed' \in BOOLEAN,
           kind = "user" => Closes(i, FALSE, t)
    PROVE  Somewhere
<1>1. /\ alive /\ insts[i].used /\ updates \in Nat /\ recreated \in BOOLEAN /\ recreated
      /\ insts \in [Insts -> InstType] /\ insts[i] \in InstType
    BY CoreFacts, Consts
<1>2. /\ insts' \in [Insts -> InstType] /\ insts'[i].used
      /\ \A j \in Insts : j # i => insts'[j] = insts[j]
      /\ insts'[i].bd = insts[i].bd /\ insts'[i].recreate = insts[i].recreate
      /\ insts'[i].reloading = insts[i].reloading /\ insts[i].reloading \in BOOLEAN
    BY <1>1 DEF InstType
<1>3. Called(i, FALSE, t)
    BY <1>1, <1>2 DEF Called
<1>4. CallStep(i, FALSE, t)
    BY <1>1, <1>3 DEF CallStep
<1> QED BY <1>4 DEF Somewhere

LEMMA RequestCalls ==
    ASSUME Core, NEW i \in Insts, NEW op \in {"flush", "clear"}, Request(i, op)
    PROVE  Somewhere
<1>1. /\ i = current /\ kind = "history" /\ queue' = Append(queue, Task(i, op))
      /\ UNCHANGED <<kind, provider, dir, tmp, alive, current, insts, task, recreated>>
      /\ UNCHANGED <<saved, lost, missed, faults, kills, updates>>
    BY DEF Request, disk, hist, bound
<1>2. op \in Ops /\ op # "reload" /\ op # "remove"
    BY DEF Ops
<1> DEFINE t == <<Task(i, op)>>
<1>3. queue' = queue \o t
  <2>1. queue \in Seq(Waiting) /\ Task(i, op) \in Waiting
      BY <1>2, CoreFacts DEF Task, Waiting
  <2> HIDE DEF t
  <2>2. Append(queue, Task(i, op)) = queue \o <<Task(i, op)>>
      BY <2>1
  <2> QED BY <1>1, <2>2 DEF t
<1>4. Adds(t, i, FALSE) /\ \A n \in DOMAIN t : t[n].inst = i /\ t[n].op # "remove"
  <2>1. Adds(t, i, op = "reload") /\ \A n \in DOMAIN t : t[n].inst = i /\ t[n].op = op
      BY <1>2, OneAdds
  <2>2. (op = "reload") = FALSE
      BY <1>2
  <2> HIDE DEF t
  <2> QED BY <2>1, <2>2, <1>2
<1> HIDE DEF t
<1>5. missed' \in BOOLEAN /\ kind # "user"
    BY <1>1, CoreFacts
<1> QED BY <1>1, <1>3, <1>4, <1>5, AppendCalls

LEMMA CloseCalls ==
    ASSUME Core, Close
    PROVE  Somewhere
<1> DEFINE i == current
           ops == IF kind = "history" THEN <<"flush", "close">> ELSE <<"close">>
           t == Closing(i, ops)
<1>1. /\ i # None /\ current' = None /\ queue' = queue \o t
      /\ UNCHANGED <<kind, provider, dir, tmp, alive, insts, task, recreated>>
      /\ UNCHANGED <<saved, lost, faults, kills, updates>>
      /\ missed' = (missed \/ Forgotten(i))
    BY DEF Close, Closing, disk, bound
<1>2. i \in Insts
    BY <1>1, CoreFacts
<1>3. ops \in {<<"flush", "close">>, <<"close">>} /\ (kind = "user" => ops = <<"close">>)
    BY DEF Close
<1>4. /\ Adds(t, i, FALSE)
      /\ \A n \in DOMAIN t : /\ t[n].inst = i /\ t[n].op \in {"flush", "close"}
                             /\ ops = <<"close">> => t[n].op = "close"
  <2> HIDE DEF ops
  <2>1. PICK j \in Insts : j = current
      BY <1>2
  <2>2. ops \in {<<"flush", "close">>, <<"close">>}
      BY <1>3
  <2>3. Adds(Closing(j, ops), j, FALSE)
      BY <2>2, CloseAdds
  <2>4. ClosesOnly(Closing(j, ops), j, ops)
      BY <2>2, CloseAdds
  <2> QED BY <2>1, <2>3, <2>4 DEF ClosesOnly
<1>5. missed' \in BOOLEAN
    BY <1>1, CoreFacts DEF Forgotten, InstType
<1> HIDE DEF ops, t
<1>6. kind = "user" => Closes(i, FALSE, t)
    BY <1>1, <1>3, <1>4 DEF Closes
<1> HIDE DEF i
<1>7. current = i
    BY DEF i
<1> QED BY <1>1, <1>2, <1>4, <1>5, <1>6, <1>7, AppendCalls

LEMMA OpenCalls ==
    ASSUME Core, NEW i \in Insts, Open(i)
    PROVE  Somewhere
<1>1. /\ alive /\ current = None /\ current' = i /\ recreated' = TRUE
      /\ UNCHANGED <<kind, provider, dir, tmp, alive, task>>
      /\ UNCHANGED <<saved, lost, missed, faults, kills, updates>>
    BY DEF Open, disk, hist, bound
<1>2. updates \in Nat /\ missed \in BOOLEAN /\ kind \in {"user", "history"}
    BY CoreFacts
<1>3. CASE kind = "history" /\ insts[i].used /\ Call(i, <<>>, MaxQueue)
  <2>1. "close" \in Ops \ {"reload"} /\ <<>> # <<"close">>
      BY DEF Ops
  <2> QED BY <1>1, <1>2, <1>3, <2>1, UseCalls
<1>4. CASE /\ \A j \in Insts : kind = "history" => ~insts[j].used
           /\ ~insts[i].used
           /\ queue' = Append(queue, Task(i, "reload")) /\ insts' = Created(i)
  <2> DEFINE t == <<Task(i, "reload")>>
  <2>0. "reload" \in Ops
      BY DEF Ops
  <2>1. Adds(t, i, TRUE) /\ \A n \in DOMAIN t : t[n].inst = i /\ t[n].op = "reload"
    <3>1. /\ Adds(t, i, "reload" = "reload")
          /\ \A n \in DOMAIN t : t[n].inst = i /\ t[n].op = "reload"
        BY <2>0, OneAdds
    <3>2. ("reload" = "reload") = TRUE
        OBVIOUS
    <3> HIDE DEF t
    <3> QED BY <3>1, <3>2
  <2>2. queue' = queue \o t
    <3>1. queue \in Seq(Waiting) /\ Task(i, "reload") \in Waiting
        BY <2>0, CoreFacts DEF Task, Waiting
    <3> HIDE DEF t
    <3>2. Append(queue, Task(i, "reload")) = queue \o <<Task(i, "reload")>>
        BY <3>1
    <3> QED BY <1>4, <3>2 DEF t
  <2> HIDE DEF t
  <2>3. /\ insts' \in [Insts -> InstType]
        /\ \A j \in Insts : j # i => insts'[j] = insts[j]
        /\ insts'[i].used /\ ~insts[i].reloading /\ insts'[i].reloading = TRUE
        /\ insts'[i].bd = None /\ insts'[i].recreate = (kind = "user" /\ ~recreated)
      BY <1>4, CreatedEffect
  <2>4. Called(i, TRUE, t)
      BY <1>1, <1>2, <1>4, <2>1, <2>2, <2>3 DEF Called
  <2>5. Opens(i, TRUE, t)
      BY <1>1, <1>4, <2>1 DEF Opens
  <2>6. CallStep(i, TRUE, t)
      BY <1>1, <1>4, <2>1, <2>4, <2>5 DEF CallStep
  <2> QED BY <2>6 DEF Somewhere
<1> QED BY <1>3, <1>4 DEF Open

LEMMA ForceReloadCalls ==
    ASSUME Core, NEW i \in Insts, ForceReload(i)
    PROVE  Somewhere
<1>1. /\ alive /\ current # None /\ current' = i
      /\ UNCHANGED <<kind, provider, dir, tmp, alive, task, recreated>>
      /\ UNCHANGED <<saved, lost, faults, kills, updates>>
      /\ missed' = (missed \/ (i # current /\ Forgotten(current)))
    BY DEF ForceReload, disk, bound
<1>2. /\ updates \in Nat /\ missed \in BOOLEAN /\ kind \in {"user", "history"}
      /\ current \in Insts /\ insts[current].used /\ recreated /\ recreated \in BOOLEAN
    BY <1>1, CoreFacts
<1>3. CASE kind = "history" /\ i = current /\ Call(i, <<"close">>, MaxQueue)
  <2>1. "close" \in Ops \ {"reload"} /\ "close" # "remove" /\ kind # "user"
      BY <1>3 DEF Ops
  <2>2. missed' = missed
      BY <1>1, <1>2, <1>3
  <2> QED BY <1>1, <1>2, <1>3, <2>1, <2>2, UseCalls
<1>4. CASE /\ kind # "history" /\ ~insts[i].used /\ insts' = Created(i)
           /\ queue' = queue \o <<Task(i, "reload"), Task(current, "close")>>
  <2> DEFINE t == <<Task(i, "reload"), Task(current, "close")>>
  <2>1. /\ Adds(t, i, TRUE)
        /\ \A n \in DOMAIN t : \/ t[n].inst = i /\ t[n].op = "reload"
                               \/ t[n].inst = current /\ t[n].op = "close"
    <3>1. "reload" \in Ops /\ "close" \in Ops \ {"reload"}
        BY DEF Ops
    <3>2. /\ Adds(t, i, "reload" = "reload")
          /\ \A n \in DOMAIN t : \/ t[n].inst = i /\ t[n].op = "reload"
                                 \/ t[n].inst = current /\ t[n].op = "close"
        BY <3>1, <1>2, TwoAdd
    <3>3. ("reload" = "reload") = TRUE
        OBVIOUS
    <3> HIDE DEF t
    <3> QED BY <3>2, <3>3
  <2>2. queue' = queue \o t
      BY <1>4
  <2> HIDE DEF t
  <2>3. /\ insts' \in [Insts -> InstType]
        /\ \A j \in Insts : j # i => insts'[j] = insts[j]
        /\ insts'[i].used /\ ~insts[i].reloading /\ insts'[i].reloading = TRUE
        /\ insts'[i].bd = None /\ insts'[i].recreate = (kind = "user" /\ ~recreated)
      BY <1>4, CreatedEffect
  <2>4. missed' \in BOOLEAN /\ i # current
      BY <1>1, <1>2, <1>4, CoreFacts DEF Forgotten, InstType
  <2>5. Called(i, TRUE, t)
      BY <1>1, <1>2, <1>4, <2>1, <2>2, <2>3, <2>4 DEF Called
  <2>6. Forces(i, TRUE, t)
      BY <1>1, <1>4, <2>1, <2>4 DEF Forces
  <2>7. CallStep(i, TRUE, t)
      BY <1>1, <1>4, <2>1, <2>5, <2>6 DEF CallStep
  <2> QED BY <2>7 DEF Somewhere
<1> QED BY <1>3, <1>4 DEF ForceReload

-----------------------------------------------------------------------------
(* The first and the last step of a task, changes, and processes.          *)

Rest == <<kind, provider, dir, tmp, alive, current, recreated, saved, lost, missed>>

Took ==
    /\ UNCHANGED <<Rest, insts>> /\ alive
    /\ task = NoTask /\ queue # <<>> /\ task' = Head(queue) /\ queue' = Tail(queue)
    /\ task' \in Waiting

LEMMA TakeKeeps ==
    ASSUME Core, Take
    PROVE  Core' /\ Took
<1>1. /\ task.at = "idle" /\ alive /\ queue # <<>>
      /\ task' = Head(queue) /\ queue' = Tail(queue)
      /\ UNCHANGED <<kind, provider, dir, tmp, alive, current, recreated, saved, lost, missed>>
      /\ UNCHANGED <<insts, faults, kills, updates>>
    BY DEF Take, Busy, outside, disk, hist
<1>2. task = NoTask /\ queue \in Seq(Waiting)
    BY <1>1, CoreFacts
<1>3. /\ queue' \in Seq(Waiting) /\ task' \in Waiting /\ task' = queue[1] /\ 1 \in DOMAIN queue
      /\ \A n \in DOMAIN queue' : n + 1 \in DOMAIN queue /\ queue'[n] = queue[n + 1]
    BY <1>1, <1>2, TailReloads
<1>4. Took
    BY <1>1, <1>2, <1>3 DEF Took, Rest
<1>5. TasksOfUsed'
  <2>1. \A n \in DOMAIN queue' : insts'[queue'[n].inst].used
      BY <1>1, <1>3, CoreFacts
  <2>2. task'.op \in Ops /\ task'.inst \in Insts /\ insts'[task'.inst].used
      BY <1>1, <1>3, CoreFacts DEF Waiting
  <2>3. queue' \in Seq([op : Ops, inst : Insts, at : {"start"}])
      BY <1>3 DEF Waiting
  <2>4. /\ current' # None => insts'[current'].used /\ alive' /\ recreated'
        /\ \A i \in Insts : ~insts'[i].used => insts'[i] = [used |-> FALSE, bd |-> None,
                                        reloading |-> FALSE, recreate |-> FALSE]
      BY <1>1 DEF Core, TasksOfUsed
  <2> QED BY <2>1, <2>2, <2>3, <2>4 DEF TasksOfUsed
<1>6. queue' \in Seq(TaskType)
    BY <1>3, WaitingTasks
<1>7. task' \in TaskType
    BY <1>3 DEF Waiting, TaskType, Steps
<1>8. PersonalTypeOK'
    BY <1>1, <1>6, <1>7 DEF Core, PersonalTypeOK
<1>9. TaskHasFiles'
    BY <1>3 DEF TaskHasFiles, FlushSteps, Waiting
<1> QED BY <1>4, <1>5, <1>8, <1>9 DEF Core

Ended ==
    /\ UNCHANGED <<Rest, queue>>
    /\ task \in Running /\ task.at = "end" /\ task' = NoTask
    /\ insts' \in [Insts -> InstType]
    /\ \A i \in Insts :
          /\ insts'[i].used = insts[i].used /\ insts'[i].bd = insts[i].bd
          /\ insts'[i].recreate = insts[i].recreate
          /\ i # task.inst \/ task.op # "reload" => insts'[i] = insts[i]
    /\ task.op = "reload" => ~insts'[task.inst].reloading

LEMMA EndKeeps ==
    ASSUME Core, End
    PROVE  Core' /\ Ended
<1>1. /\ task.at = "end" /\ alive /\ task' = NoTask
      /\ UNCHANGED <<kind, provider, dir, tmp, alive, current, recreated, saved, lost, missed>>
      /\ UNCHANGED <<queue, faults, kills, updates>>
      /\ insts' = IF task.op = "reload"
                  THEN [insts EXCEPT ![task.inst].reloading = FALSE] ELSE insts
    BY DEF End, Busy, outside, disk, hist
<1>2. /\ task \in Running /\ task.inst \in Insts /\ insts[task.inst].used
      /\ insts \in [Insts -> InstType]
    BY <1>1, CoreFacts DEF Running
<1>3. /\ insts' \in [Insts -> InstType]
      /\ \A i \in Insts :
          /\ insts'[i].used = insts[i].used /\ insts'[i].bd = insts[i].bd
          /\ insts'[i].recreate = insts[i].recreate
          /\ i # task.inst \/ task.op # "reload" => insts'[i] = insts[i]
      /\ task.op = "reload" => ~insts'[task.inst].reloading
  <2>1. CASE task.op = "reload"
    <3>1. insts' = [insts EXCEPT ![task.inst].reloading = FALSE]
        BY <1>1, <2>1
    <3> QED BY <3>1, <1>2, <2>1 DEF InstType
  <2>2. CASE task.op # "reload"
      BY <1>1, <1>2, <2>2
  <2> QED BY <2>1, <2>2
<1>4. Ended
    BY <1>1, <1>2, <1>3 DEF Ended, Rest
<1>5. TasksOfUsed'
  <2>1. \A n \in DOMAIN queue' : insts'[queue'[n].inst].used
      BY <1>1, <1>3, CoreFacts DEF Waiting
  <2>2. queue' \in Seq([op : Ops, inst : Insts, at : {"start"}])
      BY <1>1, CoreFacts DEF Waiting
  <2>3. current' # None => insts'[current'].used /\ alive' /\ recreated'
      BY <1>1, <1>3, CoreFacts
  <2>4. \A i \in Insts : ~insts'[i].used => insts'[i] = [used |-> FALSE, bd |-> None,
                                        reloading |-> FALSE, recreate |-> FALSE]
      BY <1>2, <1>3 DEF Core, TasksOfUsed
  <2> QED BY <1>1, <2>1, <2>2, <2>3, <2>4 DEF TasksOfUsed
<1>6. task' \in TaskType
    BY <1>1 DEF TaskType
<1>7. PersonalTypeOK'
    BY <1>1, <1>3, <1>6 DEF Core, PersonalTypeOK, InstType
<1>8. TaskHasFiles'
    BY <1>1 DEF TaskHasFiles, FlushSteps, NoTask
<1> QED BY <1>4, <1>5, <1>7, <1>8 DEF Core

Changed ==
    /\ UNCHANGED <<kind, dir, tmp, alive, current, queue, task, recreated, saved, lost>>
    /\ kind = "user" /\ insts' \in [Insts -> InstType]
    /\ \A i \in Insts :
          /\ insts'[i].used = insts[i].used /\ insts'[i].bd = insts[i].bd
          /\ insts'[i].reloading = insts[i].reloading
          /\ i # current => insts'[i] = insts[i]
    /\ current # None => insts'[current].recreate
    /\ missed => missed'
    /\ alive /\ current = None => missed'
    /\ Runs(current, "reload") /\ task.at \notin {"start", "delete", "load", "end"} => missed'

LEMMA ChangeKeeps ==
    ASSUME Core, Change
    PROVE  Core' /\ Changed
<1>1. /\ kind = "user" /\ provider < MaxChanges /\ provider' = provider + 1
      /\ insts' = IF current # None
                  THEN [insts EXCEPT ![current].recreate = TRUE] ELSE insts
      /\ missed' = (missed \/ (alive /\ current = None)
                  \/ (task.op = "reload" /\ task.inst = current
                      /\ task.at \notin {"start", "delete", "load", "end"}))
      /\ UNCHANGED <<kind, dir, tmp, alive, current, queue, task, recreated, saved, lost>>
      /\ UNCHANGED <<faults, kills, updates>>
    BY DEF Change, disk, bound
<1>2. /\ insts \in [Insts -> InstType] /\ current \in Insts \cup {None}
      /\ alive \in BOOLEAN /\ missed \in BOOLEAN
    BY CoreFacts
<1>3. /\ insts' \in [Insts -> InstType]
      /\ \A i \in Insts :
          /\ insts'[i].used = insts[i].used /\ insts'[i].bd = insts[i].bd
          /\ insts'[i].reloading = insts[i].reloading
          /\ i # current => insts'[i] = insts[i]
      /\ current # None => insts'[current].recreate
  <2>1. CASE current = None
    <3>1. insts' = insts
        BY <1>1, <2>1
    <3> QED BY <3>1, <1>2, <2>1
  <2>2. CASE current # None
    <3>1. insts' = [insts EXCEPT ![current].recreate = TRUE] /\ current \in Insts
        BY <1>1, <1>2, <2>2
    <3> QED BY <3>1, <1>2 DEF InstType
  <2> QED BY <2>1, <2>2
<1>4. missed' \in BOOLEAN
    BY <1>1
<1>5. Changed
    BY <1>1, <1>3 DEF Changed, Runs
<1>6. TasksOfUsed'
  <2>1. \A n \in DOMAIN queue' : insts'[queue'[n].inst].used
      BY <1>1, <1>3, CoreFacts DEF Waiting
  <2>2. queue' \in Seq([op : Ops, inst : Insts, at : {"start"}])
      BY <1>1, CoreFacts DEF Waiting
  <2>3. current' # None => insts'[current'].used /\ alive' /\ recreated'
      BY <1>1, <1>2, <1>3, CoreFacts
  <2>4. \A i \in Insts : ~insts'[i].used => insts'[i] = [used |-> FALSE, bd |-> None,
                                        reloading |-> FALSE, recreate |-> FALSE]
    <3> SUFFICES ASSUME NEW i \in Insts, ~insts'[i].used
                 PROVE  insts'[i] = [used |-> FALSE, bd |-> None,
                                     reloading |-> FALSE, recreate |-> FALSE]
        OBVIOUS
    <3>1. ~insts[i].used
        BY <1>3
    <3>2. i # current
        BY <3>1, CoreFacts, Consts
    <3>3. insts[i] = [used |-> FALSE, bd |-> None, reloading |-> FALSE, recreate |-> FALSE]
        BY <3>1 DEF Core, TasksOfUsed
    <3> QED BY <3>2, <3>3, <1>3
  <2>5. task' # NoTask => task'.op \in Ops /\ task'.inst \in Insts /\ insts'[task'.inst].used
      BY <1>1, <1>3, CoreFacts DEF Running
  <2> QED BY <2>1, <2>2, <2>3, <2>4, <2>5 DEF TasksOfUsed
<1>7. provider' \in 0 .. MaxChanges
    BY <1>1, CoreFacts, DictionaryAssumption
<1>8. PersonalTypeOK'
    BY <1>1, <1>3, <1>4, <1>7 DEF Core, PersonalTypeOK, InstType
<1>9. Bd # None /\ task.at # "idle" => Bd' # None
  <2> SUFFICES ASSUME Bd # None, task.at # "idle" PROVE Bd' # None
      OBVIOUS
  <2>1. task.inst \in Insts /\ task' = task
      BY <1>1, CoreFacts DEF Running
  <2> QED BY <2>1, <1>3 DEF Bd
<1>10. TaskHasFiles'
    BY <1>1, <1>9 DEF Core, TaskHasFiles, FlushSteps
<1> QED BY <1>5, <1>6, <1>8, <1>10 DEF Core

Started ==
    /\ UNCHANGED <<kind, provider, dir, tmp, current, insts, queue, task, saved, lost>>
    /\ current = None /\ recreated' = FALSE

LEMMA StartKeeps ==
    ASSUME Core, Start
    PROVE  Core' /\ Started
<1>1. /\ UNCHANGED <<kind, provider, dir, tmp, current, insts, queue, task, saved, lost>>
      /\ UNCHANGED <<faults, kills, updates>> /\ current = None
      /\ alive' = TRUE /\ recreated' = FALSE /\ missed' = FALSE
    BY DEF Start, disk, bound
<1>2. TasksOfUsed'
    BY <1>1 DEF Core, TasksOfUsed
<1>3. PersonalTypeOK'
    BY <1>1 DEF Core, PersonalTypeOK
<1>4. TaskHasFiles'
    BY <1>1 DEF Core, TaskHasFiles, Bd
<1> QED BY <1>1, <1>2, <1>3, <1>4 DEF Core, Started

Killed ==
    /\ UNCHANGED <<kind, provider, dir, saved>>
    /\ alive' = FALSE /\ current' = None /\ queue' = <<>> /\ task' = NoTask
    /\ \A i \in Insts : insts'[i] = [used |-> FALSE, bd |-> None,
                                     reloading |-> FALSE, recreate |-> FALSE]
    /\ lost => lost'
    /\ task.at \in {"removeOld", "rename"} /\ ~Whole(dir) => lost'

LEMMA KillKeeps ==
    ASSUME Core, Kill
    PROVE  Core' /\ Killed
<1> DEFINE fresh == [used |-> FALSE, bd |-> None, reloading |-> FALSE, recreate |-> FALSE]
<1>1. /\ kills' = kills + 1 /\ alive' = FALSE /\ current' = None
      /\ insts' = [i \in Insts |-> fresh] /\ queue' = <<>> /\ task' = NoTask
      /\ lost' = (lost \/ (task.at \in {"removeOld", "rename"} /\ ~Whole(dir)))
      /\ UNCHANGED <<kind, provider, dir, recreated, saved, missed, faults, updates>>
      /\ \/ UNCHANGED tmp
         \/ task.at \in {"header", "body"} /\ tmp' = [tmp EXCEPT ![task.at] = Torn]
    BY DEF Kill
<1>2. kills' \in Nat /\ lost' \in BOOLEAN
    BY <1>1, CoreFacts
<1>3. /\ insts' \in [Insts -> InstType] /\ \A i \in Insts : insts'[i] = fresh
    BY <1>1 DEF InstType
<1>4. tmp' \in DirType \cup {None}
  <2>1. CASE UNCHANGED tmp
      BY <2>1, CoreFacts
  <2>2. CASE task.at \in {"header", "body"} /\ tmp' = [tmp EXCEPT ![task.at] = Torn]
    <3>1. PICK f \in {"header", "body"} : f = task.at
        BY <2>2
    <3>2. tmp' = SetFile(tmp, f, Torn) /\ Torn \in FileType
        BY <2>2, <3>1, Consts DEF SetFile
    <3>3. tmp # None
        BY <3>1 DEF Core, TaskHasFiles
    <3>4. tmp \in DirType
        BY <3>3, CoreFacts
    <3>5. SetFile(tmp, f, Torn) \in DirType
        BY <3>2, <3>4, FileSet
    <3> QED BY <3>2, <3>5
  <2> QED BY <1>1, <2>1, <2>2
<1>5. Killed
    BY <1>1, <1>3 DEF Killed
<1>6. queue' \in Seq(Waiting) /\ DOMAIN queue' = {} /\ queue' \in Seq(TaskType)
    BY <1>1
<1>7. TasksOfUsed'
    BY <1>1, <1>3, <1>6 DEF TasksOfUsed, Waiting
<1>8. task' \in TaskType
    BY <1>1 DEF TaskType
<1>9. PersonalTypeOK'
    BY <1>1, <1>2, <1>3, <1>4, <1>6, <1>8 DEF Core, PersonalTypeOK, InstType
<1>10. TaskHasFiles'
    BY <1>1 DEF TaskHasFiles, FlushSteps, NoTask
<1> QED BY <1>5, <1>7, <1>9, <1>10 DEF Core

-----------------------------------------------------------------------------
(* isReloading.                                                            *)

LEMMA CalledReloads ==
    ASSUME Core, ReloadingHasTask, NEW i, NEW reload, NEW t, Called(i, reload, t)
    PROVE  ReloadingHasTask'
<1>1. /\ i \in Insts /\ reload \in BOOLEAN /\ Adds(t, i, reload) /\ queue' = queue \o t
      /\ task' = task /\ insts' \in [Insts -> InstType]
      /\ \A j \in Insts : j # i => insts'[j] = insts[j]
      /\ insts'[i].reloading = (insts[i].reloading \/ reload)
      /\ reload => ~insts[i].reloading
      /\ queue \in Seq(Waiting)
    BY CoreFacts DEF Called
<1>2. /\ \A j \in Insts : j # i => Reloads(j)' = Reloads(j)
      /\ ~reload => Reloads(i)' = Reloads(i)
      /\ reload => Reloads(i)' = Reloads(i) \cup {Len(queue) + 1}
  <2>1. PICK k \in Insts : k = i
      BY <1>1
  <2>2. PICK r \in BOOLEAN : r = reload
      BY <1>1
  <2>3. Adds(t, k, r)
      BY <1>1, <2>1, <2>2
  <2>4. /\ \A j \in Insts : j # k => Reloads(j)' = Reloads(j)
        /\ ~r => Reloads(k)' = Reloads(k)
        /\ r => Reloads(k)' = Reloads(k) \cup {Len(queue) + 1}
      BY <2>3, <1>1, AddsReloads
  <2> QED BY <2>1, <2>2, <2>4
<1>3. ASSUME NEW j \in Insts
      PROVE  /\ insts'[j].reloading <=> Runs(j, "reload") \/ Reloads(j)' # {}
             /\ \A m, n \in Reloads(j)' : m = n /\ ~Runs(j, "reload")
  <2>1. /\ insts[j].reloading <=> Runs(j, "reload") \/ Reloads(j) # {}
        /\ \A m, n \in Reloads(j) : m = n /\ ~Runs(j, "reload")
      BY DEF ReloadingHasTask, Runs
  <2>2. CASE j # i
      BY <2>1, <2>2, <1>1, <1>2
  <2>3. CASE j = i /\ ~reload
      BY <2>1, <2>3, <1>1, <1>2
  <2>4. CASE j = i /\ reload
    <3>1. Reloads(j) = {} /\ ~Runs(j, "reload")
        BY <2>1, <2>4, <1>1
    <3>2. Reloads(j)' = {Len(queue) + 1}
        BY <3>1, <2>4, <1>2
    <3>3. insts'[j].reloading
        BY <2>4, <1>1
    <3> QED BY <3>1, <3>2, <3>3
  <2> QED BY <2>2, <2>3, <2>4
<1>4. \A j \in Insts : Runs(j, "reload")' = Runs(j, "reload")
    BY <1>1 DEF Runs
<1> QED BY <1>3, <1>4 DEF ReloadingHasTask, Runs

LEMMA WorksReloads ==
    ASSUME ReloadingHasTask, Works
    PROVE  ReloadingHasTask'
<1>1. /\ queue' = queue /\ task'.op = task.op /\ task'.inst = task.inst
      /\ \A j \in Insts : insts'[j].reloading = insts[j].reloading
    BY DEF Works
<1>2. \A j \in Insts : Reloads(j)' = Reloads(j)
    BY <1>1 DEF Reloads, Task
<1> QED BY <1>1, <1>2 DEF ReloadingHasTask

LEMMA SameReloads ==
    ASSUME ReloadingHasTask, UNCHANGED <<queue, task>>,
           \A j \in Insts : insts'[j].reloading = insts[j].reloading
    PROVE  ReloadingHasTask'
<1>1. \A j \in Insts : Reloads(j)' = Reloads(j)
    BY DEF Reloads, Task
<1> QED BY <1>1 DEF ReloadingHasTask

LEMMA TookReloads ==
    ASSUME Core, ReloadingHasTask, Took
    PROVE  ReloadingHasTask'
<1>1. /\ insts' = insts /\ task = NoTask /\ queue # <<>> /\ task' = Head(queue)
      /\ queue' = Tail(queue) /\ task' \in Waiting /\ queue \in Seq(Waiting)
    BY CoreFacts DEF Took
<1>2. /\ \A j \in Insts : \A n \in Reloads(j)' : n + 1 \in Reloads(j)
      /\ \A j \in Insts : \A n \in Reloads(j) : n # 1 => n - 1 \in Reloads(j)'
      /\ \A j \in Insts : 1 \in Reloads(j) <=> Head(queue) = Task(j, "reload")
      /\ \A j \in Insts : Reloads(j) \subseteq Nat /\ Reloads(j)' \subseteq Nat
    BY <1>1, TailReloads
<1>3. ASSUME NEW j \in Insts
      PROVE  /\ insts'[j].reloading <=> Runs(j, "reload")' \/ Reloads(j)' # {}
             /\ \A m, n \in Reloads(j)' : m = n /\ ~Runs(j, "reload")'
  <2>1. /\ insts[j].reloading <=> Reloads(j) # {}
        /\ \A m, n \in Reloads(j) : m = n
    <3>1. task.op # "reload"
        BY <1>1 DEF NoTask
    <3> QED BY <3>1 DEF ReloadingHasTask
  <2>2. Runs(j, "reload")' <=> 1 \in Reloads(j)
    <3>1. Runs(j, "reload")' <=> task' = Task(j, "reload")
        BY <1>1 DEF Runs, Task, Waiting
    <3> QED BY <3>1, <1>1, <1>2
  <2>3. CASE 1 \in Reloads(j)
    <3>1. Reloads(j)' = {}
      <4> SUFFICES ASSUME NEW n \in Reloads(j)' PROVE FALSE
          OBVIOUS
      <4>1. n + 1 \in Reloads(j) /\ n \in Nat
          BY <1>2
      <4>2. n + 1 = 1 /\ n = 0
          BY <4>1, <2>1, <2>3
      <4>3. n \in 1 .. Len(queue')
          BY DEF Reloads
      <4> QED BY <4>2, <4>3
    <3>2. insts'[j].reloading /\ Runs(j, "reload")'
        BY <2>1, <2>2, <2>3, <1>1
    <3> QED BY <3>1, <3>2
  <2>4. CASE 1 \notin Reloads(j)
    <3>1. Reloads(j) # {} => Reloads(j)' # {}
        BY <2>4, <1>2
    <3>2. Reloads(j)' # {} => Reloads(j) # {}
        BY <1>2
    <3>3. \A m, n \in Reloads(j)' : m = n
      <4> TAKE m, n \in Reloads(j)'
      <4>1. m + 1 = n + 1 /\ m \in Nat /\ n \in Nat
          BY <1>2, <2>1
      <4> QED BY <4>1
    <3> QED BY <3>1, <3>2, <3>3, <2>1, <2>2, <2>4, <1>1
  <2> QED BY <2>3, <2>4
<1> QED BY <1>3 DEF ReloadingHasTask, Runs

LEMMA EndedReloads ==
    ASSUME Core, ReloadingHasTask, Ended
    PROVE  ReloadingHasTask'
<1>1. /\ queue' = queue /\ task \in Running /\ task' = NoTask
      /\ \A j \in Insts : j # task.inst \/ task.op # "reload" => insts'[j] = insts[j]
      /\ task.op = "reload" => ~insts'[task.inst].reloading
    BY DEF Ended
<1>2. \A j \in Insts : Reloads(j)' = Reloads(j)
    BY <1>1 DEF Reloads, Task
<1>3. ASSUME NEW j \in Insts
      PROVE  /\ insts'[j].reloading <=> Reloads(j) # {}
             /\ \A m, n \in Reloads(j) : m = n
  <2>1. /\ insts[j].reloading <=> Runs(j, "reload") \/ Reloads(j) # {}
        /\ \A m, n \in Reloads(j) : m = n /\ ~Runs(j, "reload")
      BY DEF ReloadingHasTask, Runs
  <2>2. CASE Runs(j, "reload")
    <3>1. Reloads(j) = {} /\ ~insts'[j].reloading
        BY <2>1, <2>2, <1>1 DEF Runs
    <3> QED BY <3>1
  <2>3. CASE ~Runs(j, "reload")
    <3>1. insts'[j] = insts[j]
        BY <2>3, <1>1 DEF Runs
    <3> QED BY <3>1, <2>1, <2>3
  <2> QED BY <2>2, <2>3
<1>4. task'.op # "reload"
    BY <1>1 DEF NoTask
<1> QED BY <1>2, <1>3, <1>4 DEF ReloadingHasTask

LEMMA NewProcessReloads ==
    ASSUME Killed
    PROVE  ReloadingHasTask'
<1>1. /\ queue' = <<>> /\ task' = NoTask
      /\ \A j \in Insts : ~insts'[j].reloading
    BY DEF Killed
<1>2. \A j \in Insts : Reloads(j)' = {}
    BY <1>1 DEF Reloads
<1>3. task'.op # "reload"
    BY <1>1 DEF NoTask
<1> QED BY <1>1, <1>2, <1>3 DEF ReloadingHasTask

-----------------------------------------------------------------------------
(* What the steps do.                                                      *)

\* A step of a task, but the first and the last one.
WorkStep ==
    \/ ReloadStarted \/ Deleted \/ ReadProvider \/ Unmarked
    \/ WriteStarted \/ Updated \/ Dropped \/ Cleared
    \/ CleanedTmp \/ Written("header", "body") \/ Written("body", "removeOld")
    \/ OldRemoved \/ Renamed \/ Reopened

Effect == Somewhere \/ Took \/ Ended \/ Changed \/ Started \/ Killed \/ WorkStep

LEMMA SomewhereKeeps ==
    ASSUME Core, Somewhere
    PROVE  Core'
<1>1. PICK i \in Insts : \E reload, t : CallStep(i, reload, t)
    BY DEF Somewhere
<1>2. PICK reload, t : CallStep(i, reload, t)
    BY <1>1
<1>3. Called(i, reload, t)
    BY <1>2 DEF CallStep
<1> QED BY <1>3, CalledKeeps

LEMMA StepEffect ==
    ASSUME Core, Undisturbed, Next
    PROVE  Core' /\ Effect
<1>1. CASE Lookups
    BY <1>1, LookupCalls, SomewhereKeeps DEF Lookups, Effect, WorkStep
<1>2. CASE Executor
  <2>1. CASE Take
      BY <2>1, TakeKeeps DEF Effect, WorkStep
  <2>2. CASE StartReload
    <3>1. ReloadStarted
        BY <2>2, StartReloadWorks
    <3>2. Works /\ TaskHasFiles'
        BY <3>1 DEF ReloadStarted
    <3> QED BY <3>1, <3>2, WorksKeeps DEF Effect, WorkStep
  <2>3. CASE Delete
    <3>1. Deleted
        BY <2>3, DeleteWorks
    <3>2. Works /\ TaskHasFiles'
        BY <3>1 DEF Deleted
    <3> QED BY <3>1, <3>2, WorksKeeps DEF Effect, WorkStep
  <2>4. CASE Load
    <3>1. ReadProvider
        BY <2>4, LoadWorks
    <3>2. Works /\ TaskHasFiles'
        BY <3>1 DEF ReadProvider
    <3> QED BY <3>1, <3>2, WorksKeeps DEF Effect, WorkStep
  <2>5. CASE Loaded
    <3>1. Unmarked
        BY <2>5, LoadedWorks
    <3>2. Works /\ TaskHasFiles'
        BY <3>1 DEF Unmarked
    <3> QED BY <3>1, <3>2, WorksKeeps DEF Effect, WorkStep
  <2>6. CASE End
      BY <2>6, EndKeeps DEF Effect, WorkStep
  <2>7. CASE StartWrite
    <3>1. WriteStarted
        BY <2>7, StartWriteWorks
    <3>2. Works /\ TaskHasFiles'
        BY <3>1 DEF WriteStarted
    <3> QED BY <3>1, <3>2, WorksKeeps DEF Effect, WorkStep
  <2>8. CASE DoUpdate
    <3>1. Updated
        BY <2>8, DoUpdateWorks
    <3>2. Works /\ TaskHasFiles'
        BY <3>1 DEF Updated
    <3> QED BY <3>1, <3>2, WorksKeeps DEF Effect, WorkStep
  <2>9. CASE StartDrop
    <3>1. Dropped
        BY <2>9, StartDropWorks
    <3>2. Works /\ TaskHasFiles'
        BY <3>1 DEF Dropped
    <3> QED BY <3>1, <3>2, WorksKeeps DEF Effect, WorkStep
  <2>10. CASE CreateCleared
    <3>1. Cleared
        BY <2>10, CreateClearedWorks
    <3>2. Works /\ TaskHasFiles'
        BY <3>1 DEF Cleared
    <3> QED BY <3>1, <3>2, WorksKeeps DEF Effect, WorkStep
  <2>11. CASE CleanTmp
    <3>1. CleanedTmp
        BY <2>11, CleanTmpWorks
    <3>2. Works /\ TaskHasFiles'
        BY <3>1 DEF CleanedTmp
    <3> QED BY <3>1, <3>2, WorksKeeps DEF Effect, WorkStep
  <2>12. CASE WriteHeader
    <3>1. Written("header", "body")
        BY <2>12, Consts, WriteFileWorks DEF WriteHeader
    <3>2. Works /\ TaskHasFiles'
        BY <3>1 DEF Written
    <3> QED BY <3>1, <3>2, WorksKeeps DEF Effect, WorkStep
  <2>13. CASE WriteBody
    <3>1. Written("body", "removeOld")
        BY <2>13, Consts, WriteFileWorks DEF WriteBody
    <3>2. Works /\ TaskHasFiles'
        BY <3>1 DEF Written
    <3> QED BY <3>1, <3>2, WorksKeeps DEF Effect, WorkStep
  <2>14. CASE RemoveOld
    <3>1. OldRemoved
        BY <2>14, RemoveOldWorks
    <3>2. Works /\ TaskHasFiles'
        BY <3>1 DEF OldRemoved
    <3> QED BY <3>1, <3>2, WorksKeeps DEF Effect, WorkStep
  <2>15. CASE Rename
    <3>1. Renamed
        BY <2>15, RenameWorks
    <3>2. Works /\ TaskHasFiles'
        BY <3>1 DEF Renamed
    <3> QED BY <3>1, <3>2, WorksKeeps DEF Effect, WorkStep
  <2>16. CASE Reopen
    <3>1. Reopened
        BY <2>16, ReopenWorks
    <3>2. Works /\ TaskHasFiles'
        BY <3>1 DEF Reopened
    <3> QED BY <3>1, <3>2, WorksKeeps DEF Effect, WorkStep
  <2> QED BY <1>2, <2>1, <2>2, <2>3, <2>4, <2>5, <2>6, <2>7, <2>8, <2>9, <2>10,
            <2>11, <2>12, <2>13, <2>14, <2>15, <2>16 DEF Executor
<1>3. CASE Calls
  <2>1. CASE Change
      BY <2>1, ChangeKeeps DEF Effect, WorkStep
  <2>2. CASE ~Change
    <3>1. Somewhere
        BY <1>3, <2>2, UpdateCalls, RequestCalls, OpenCalls, ForceReloadCalls, CloseCalls
        DEF Calls
    <3> QED BY <3>1, SomewhereKeeps DEF Effect, WorkStep
  <2> QED BY <2>1, <2>2
<1>4. CASE Start
    BY <1>4, StartKeeps DEF Effect, WorkStep
<1>5. CASE Kill
    BY <1>5, KillKeeps DEF Effect, WorkStep
<1> QED BY <1>1, <1>2, <1>3, <1>4, <1>5 DEF Next

LEMMA WorkEffect ==
    /\ WorkStep => Works
    /\ Effect => Somewhere \/ Took \/ Ended \/ Changed \/ Started \/ Killed \/ Works
BY DEF Effect, WorkStep, ReloadStarted, Deleted, ReadProvider, Unmarked, WriteStarted, Updated, Dropped,
       Cleared, CleanedTmp, Written, OldRemoved, Renamed, Reopened

LEMMA ReloadingKept ==
    ASSUME Core, ReloadingHasTask, Effect
    PROVE  ReloadingHasTask'
<1>1. CASE Somewhere
  <2>1. PICK i \in Insts : \E reload, t : CallStep(i, reload, t)
      BY <1>1 DEF Somewhere
  <2>2. PICK reload, t : CallStep(i, reload, t)
      BY <2>1
  <2>3. Called(i, reload, t)
      BY <2>2 DEF CallStep
  <2> QED BY <2>3, CalledReloads
<1>2. CASE Changed \/ Started
  <2>1. UNCHANGED <<queue, task>> /\ \A j \in Insts : insts'[j].reloading = insts[j].reloading
      BY <1>2 DEF Changed, Started
  <2> QED BY <2>1, SameReloads
<1> QED BY <1>1, <1>2, WorkEffect, WorksReloads, TookReloads, EndedReloads, NewProcessReloads

-----------------------------------------------------------------------------
(* Flushes that nothing disturbs.                                          *)

\* The dictionary of a task that runs is not touched by others.
LEMMA BdKept ==
    ASSUME Core, task \in Running, UNCHANGED task,
           \A j \in Insts : insts[j].used => insts'[j].bd = insts[j].bd
    PROVE  Bd' = Bd
<1>1. task.inst \in Insts /\ insts[task.inst].used
    BY CoreFacts DEF Running, NoTask, Steps
<1> QED BY <1>1 DEF Bd

LEMMA CallBds ==
    ASSUME Core, NEW i, NEW reload, NEW t, Called(i, reload, t)
    PROVE  /\ \A j \in Insts : insts[j].used => insts'[j].bd = insts[j].bd
           /\ \A j \in Insts : insts'[j].bd \in {insts[j].bd, None}
           /\ UNCHANGED <<kind, dir, tmp, task, saved, lost>>
BY DEF Called

FlushesFrom == {"load"} \cup FlushSteps

LEMMA FlushSame ==
    ASSUME Core, FlushWrites, UNCHANGED <<task, dir, tmp>>,
           \A j \in Insts : insts[j].used => insts'[j].bd = insts[j].bd
    PROVE  FlushWrites'
<1>1. CASE task \in Running
  <2>1. Bd' = Bd
      BY <1>1, BdKept
  <2> QED BY <2>1 DEF FlushWrites, Whole
<1>2. CASE task \notin Running
  <2>1. task.at = "idle"
      BY <1>2, CoreFacts DEF NoTask
  <2> QED BY <2>1 DEF FlushWrites, FlushSteps
<1> QED BY <1>1, <1>2

LEMMA NotCorruptedWorks ==
    ASSUME Core, NotCorrupted, Works, Bd' # None => ~Bd'.corrupted
    PROVE  NotCorrupted'
<1>1. /\ queue' = queue /\ task'.op = task.op /\ task'.inst = task.inst
      /\ \A i \in Insts : i # task.inst => insts'[i] = insts[i]
    BY DEF Works
<1> QED BY <1>1 DEF NotCorrupted, Bd

\* A step of a task that leaves its dictionary, or makes a sound one.
LEMMA SameOrSound ==
    ASSUME Core, Undisturbed, ~lost, Works,
           Bd' = None \/ ~Bd'.corrupted \/ UNCHANGED insts
    PROVE  NotCorrupted'
<1>1. NotCorrupted /\ task.inst \in Insts
    BY DEF Undisturbed, Works, Running
<1>2. CASE UNCHANGED insts
  <2>1. Bd' = Bd
      BY <1>2 DEF Works, Bd
  <2>2. Bd # None => ~Bd.corrupted
      BY <1>1 DEF NotCorrupted, Bd
  <2> QED BY <1>1, <2>1, <2>2, NotCorruptedWorks
<1>3. CASE Bd' = None \/ ~Bd'.corrupted
    BY <1>1, <1>3, NotCorruptedWorks
<1> QED BY <1>2, <1>3

LEMMA UndisturbedKept ==
    ASSUME Core, Undisturbed, Effect, ~lost'
    PROVE  FlushWrites' /\ NotCorrupted'
<1>1. CASE Somewhere
  <2>1. PICK i \in Insts : \E reload, t : CallStep(i, reload, t)
      BY <1>1 DEF Somewhere
  <2>2. PICK reload, t : CallStep(i, reload, t)
      BY <2>1
  <2>3. Called(i, reload, t) /\ \A n \in DOMAIN t : t[n].op = "remove" => lost
      BY <2>2 DEF CallStep
  <2>4. /\ \A j \in Insts : insts[j].used => insts'[j].bd = insts[j].bd
        /\ \A j \in Insts : insts'[j].bd \in {insts[j].bd, None}
        /\ UNCHANGED <<dir, tmp, task, lost>>
      BY <2>3, CallBds
  <2>5. FlushWrites /\ NotCorrupted
      BY <2>4 DEF Undisturbed
  <2>6. FlushWrites'
      BY <2>4, <2>5, FlushSame
  <2>7. \A n \in DOMAIN queue' : queue'[n].op # "remove"
    <3>1. t \in Seq(Waiting) /\ queue \in Seq(Waiting) /\ queue' = queue \o t
        BY <2>3, CoreFacts DEF Called, Adds
    <3>2. /\ \A n \in DOMAIN queue : queue'[n] = queue[n]
          /\ \A n \in DOMAIN queue' : n \notin DOMAIN queue =>
               n - Len(queue) \in DOMAIN t /\ queue'[n] = t[n - Len(queue)]
        BY <3>1, AddsQueue
    <3> QED BY <3>2, <2>3, <2>4, <2>5 DEF NotCorrupted
  <2>8. NotCorrupted'
      BY <2>4, <2>5, <2>7 DEF NotCorrupted
  <2> QED BY <2>6, <2>8
<1>2. CASE Took
  <2>1. /\ UNCHANGED <<insts, dir, tmp, lost>> /\ queue # <<>> /\ task' = Head(queue)
        /\ queue' = Tail(queue) /\ task' \in Waiting /\ queue \in Seq(Waiting)
      BY <1>2, CoreFacts DEF Took, Rest
  <2>2. NotCorrupted
      BY <2>1 DEF Undisturbed
  <2>3. FlushWrites'
      BY <2>1 DEF FlushWrites, FlushSteps, Waiting
  <2>4. NotCorrupted'
    <3>1. /\ \A n \in DOMAIN queue' : n + 1 \in DOMAIN queue /\ queue'[n] = queue[n + 1]
          /\ task' = queue[1] /\ 1 \in DOMAIN queue
        BY <2>1, TailReloads
    <3> QED BY <3>1, <2>1, <2>2 DEF NotCorrupted
  <2> QED BY <2>3, <2>4
<1>3. CASE Ended
  <2>1. /\ UNCHANGED <<lost, queue>> /\ task' = NoTask
        /\ \A i \in Insts : insts'[i].bd = insts[i].bd
      BY <1>3 DEF Ended, Rest
  <2> QED BY <2>1 DEF Undisturbed, FlushWrites, FlushSteps, NotCorrupted, NoTask
<1>4. CASE Changed \/ Started
  <2>1. /\ UNCHANGED <<lost, dir, tmp, queue, task>>
        /\ \A i \in Insts : insts'[i].bd = insts[i].bd
      BY <1>4 DEF Changed, Started
  <2>2. FlushWrites /\ NotCorrupted
      BY <2>1 DEF Undisturbed
  <2>3. FlushWrites'
      BY <2>1, <2>2, FlushSame
  <2> QED BY <2>1, <2>2, <2>3 DEF NotCorrupted
<1>5. CASE Killed
    BY <1>5 DEF Killed, FlushWrites, FlushSteps, NotCorrupted, NoTask
<1>6. CASE ReloadStarted
  <2>1. Works /\ ~lost /\ task'.at \in {"delete", "loaded"}
        /\ (Bd' = None \/ ~Bd'.corrupted \/ UNCHANGED insts)
      BY <1>6 DEF ReloadStarted
  <2> QED BY <2>1, SameOrSound DEF FlushWrites, FlushSteps
<1>7. CASE Deleted
  <2>1. Works /\ ~lost /\ UNCHANGED insts
      BY <1>7 DEF Deleted, Works
  <2>2. NotCorrupted'
      BY <2>1, SameOrSound
  <2>3. task'.at \in FlushesFrom => task'.at = "load" /\ dir' = None
      BY <1>7 DEF Deleted, FlushesFrom, FlushSteps
  <2> QED BY <2>2, <2>3 DEF FlushWrites, FlushesFrom, FlushSteps
<1>8. CASE ReadProvider \/ Unmarked \/ WriteStarted \/ Updated \/ Dropped \/ Cleared
  <2>1. Works /\ ~lost /\ (task'.at = "cleanTmp" \/ task'.at \notin FlushesFrom)
      BY <1>8 DEF ReadProvider, Unmarked, WriteStarted, Updated, Dropped, Cleared,
                  FlushesFrom, FlushSteps
  <2>2. FlushWrites'
    <3>1. task'.op = "reload" /\ task'.at = "cleanTmp" => dir' = None
      <4>1. CASE ReadProvider
        <5>1. task.at = "load" /\ dir' = dir /\ task'.op = task.op /\ FlushWrites
            BY <4>1, <2>1 DEF ReadProvider, Works, Undisturbed
        <5> QED BY <5>1 DEF FlushWrites, FlushSteps
      <4>2. CASE ~ReadProvider
        <5>1. task'.at = "cleanTmp" => task'.op # "reload"
            BY <4>2, <1>8, <2>1 DEF Unmarked, WriteStarted, Updated, Dropped, Cleared, Works
        <5> QED BY <5>1
      <4> QED BY <4>1, <4>2
    <3> QED BY <3>1, <2>1 DEF FlushWrites, FlushesFrom, FlushSteps
  <2>3. NotCorrupted'
    <3>1. CASE ReadProvider \/ WriteStarted \/ Dropped \/ Cleared
        BY <3>1, <2>1, SameOrSound DEF ReadProvider, WriteStarted, Dropped, Cleared
    <3>2. CASE Unmarked
      <4>1. \A i \in Insts : insts'[i].bd = insts[i].bd
          BY <3>2 DEF Unmarked
      <4> QED BY <4>1, <2>1 DEF Works, Undisturbed, NotCorrupted
    <3>3. CASE Updated
      <4>1. Bd # None /\ Bd'.corrupted = Bd.corrupted /\ task.inst \in Insts
          BY <3>3 DEF Updated, Works, Running
      <4>2. ~Bd.corrupted
          BY <4>1, <2>1 DEF Undisturbed, NotCorrupted, Bd
      <4> QED BY <4>1, <4>2, <2>1, SameOrSound
    <3> QED BY <1>8, <3>1, <3>2, <3>3
  <2> QED BY <2>2, <2>3
<1>9. CASE CleanedTmp \/ Written("header", "body") \/ Written("body", "removeOld")
           \/ OldRemoved \/ Renamed
  <2>1. Works /\ UNCHANGED insts
      BY <1>9 DEF CleanedTmp, Written, OldRemoved, Renamed
  <2>2. ~lost /\ FlushWrites
      BY <2>1 DEF Works, Undisturbed
  <2>3. NotCorrupted'
      BY <2>1, <2>2, SameOrSound
  <2>4. Bd' = Bd
      BY <2>1 DEF Works, Bd
  <2>5. FlushWrites'
    <3>0. /\ task'.op = task.op
          /\ task.op = "reload" /\ task.at \in FlushSteps \ {"reopen"} => dir = None
        BY <2>1, <2>2 DEF Works, FlushWrites
    <3>1. CASE CleanedTmp
        BY <3>1, <3>0 DEF CleanedTmp, FlushWrites, FlushSteps
    <3>2. CASE Written("header", "body")
        BY <3>2, <3>0, <2>4 DEF Written, FlushWrites, FlushSteps
    <3>3. CASE Written("body", "removeOld")
        BY <3>3, <3>0, <2>2, <2>4 DEF Written, FlushWrites, FlushSteps
    <3>4. CASE OldRemoved
        BY <3>4, <3>0, <2>2, <2>4 DEF OldRemoved, FlushWrites, FlushSteps
    <3>5. CASE Renamed
      <4>1. /\ task.at = "rename" /\ task'.at = "reopen" /\ dir' = tmp
          BY <3>5 DEF Renamed
      <4>2. /\ tmp # None /\ tmp.header = Bd.content /\ tmp.body = Bd.content
            /\ Bd # None
          BY <4>1, <2>2 DEF FlushWrites, Core, TaskHasFiles, FlushSteps
      <4>3. Bd.content \in Nat
        <5>1. task.inst \in Insts
            BY <2>1 DEF Works, Running
        <5> QED BY <5>1, <4>2, CoreFacts DEF Bd, InstType, BdType
      <4> QED BY <4>1, <4>2, <4>3, <2>4 DEF FlushWrites, Whole, FlushSteps
    <3> QED BY <1>9, <3>1, <3>2, <3>3, <3>4, <3>5
  <2> QED BY <2>3, <2>5
<1>10. CASE Reopened
  <2>1. Works /\ ~lost /\ task'.at \in {"loaded", "update", "end"} /\ ~Bd'.corrupted
      BY <1>10 DEF Reopened
  <2> QED BY <2>1, SameOrSound DEF FlushWrites, FlushSteps
<1> QED BY <1>1, <1>2, <1>3, <1>4, <1>5, <1>6, <1>7, <1>8, <1>9, <1>10 DEF Effect, WorkStep

-----------------------------------------------------------------------------
(* The words learned.                                                      *)

LEMMA OneHistoryKept ==
    ASSUME Core, OneHistory, Effect
    PROVE  OneHistory'
<1> SUFFICES ASSUME kind' = "history"
             PROVE  /\ \A i, j \in Insts : insts'[i].used /\ insts'[j].used => i = j
                    /\ \A i \in Insts : ~insts'[i].recreate
                    /\ provider' = 0
    BY DEF OneHistory
<1>1. CASE Somewhere
  <2>1. PICK i \in Insts : \E reload, t : CallStep(i, reload, t)
      BY <1>1 DEF Somewhere
  <2>2. PICK reload, t : CallStep(i, reload, t)
      BY <2>1
  <2>3. /\ kind = "history" /\ provider' = provider
        /\ ~insts[i].used => \A j \in Insts : ~insts[j].used
        /\ \A j \in Insts : j # i => insts'[j] = insts[j]
        /\ \/ insts[i].used /\ insts'[i].recreate = insts[i].recreate
           \/ ~insts[i].used /\ insts'[i].recreate = (kind = "user" /\ ~recreated)
      BY <2>2 DEF CallStep, Called
  <2>4. ~insts'[i].recreate
      BY <2>3 DEF OneHistory
  <2>5. \A j \in Insts : j # i => ~insts'[j].used
      BY <2>3 DEF OneHistory
  <2> QED BY <2>3, <2>4, <2>5 DEF OneHistory
<1>2. CASE Took
    BY <1>2 DEF Took, Rest, OneHistory
<1>3. CASE Ended
  <2>1. /\ kind = "history" /\ provider' = provider
        /\ \A i \in Insts : insts'[i].used = insts[i].used /\ insts'[i].recreate = insts[i].recreate
      BY <1>3 DEF Ended, Rest
  <2> QED BY <2>1 DEF OneHistory
<1>4. CASE Changed
    BY <1>4 DEF Changed
<1>5. CASE Started
    BY <1>5 DEF Started, OneHistory
<1>6. CASE Killed
  <2>1. /\ kind = "history" /\ provider' = provider
        /\ \A i \in Insts : ~insts'[i].used /\ ~insts'[i].recreate
      BY <1>6 DEF Killed
  <2> QED BY <2>1 DEF OneHistory
<1>7. CASE Works
  <2>1. /\ kind = "history" /\ provider' = provider
        /\ \A i \in Insts : insts'[i].used = insts[i].used
        /\ \A i \in Insts : insts'[i].recreate => insts[i].recreate
      BY <1>7 DEF Works
  <2> QED BY <2>1 DEF OneHistory
<1> QED BY <1>1, <1>2, <1>3, <1>4, <1>5, <1>6, <1>7, WorkEffect

\* No dictionary is behind what was saved.
BdsSaved == \A i \in Insts : insts[i].bd # None => insts[i].bd.content >= saved

\* There is one dictionary, that of the task that runs.
LEMMA OneBd ==
    ASSUME Core, OneHistory, kind = "history", Works,
           Bd' # None => Bd'.content >= saved'
    PROVE  BdsSaved'
<1>1. /\ task.inst \in Insts /\ insts[task.inst].used /\ task'.inst = task.inst
      /\ \A i \in Insts : i # task.inst => insts'[i] = insts[i]
    BY CoreFacts DEF Works, Running, NoTask, Steps
<1>2. ASSUME NEW i \in Insts, insts'[i].bd # None
      PROVE  insts'[i].bd.content >= saved'
  <2>1. CASE i = task.inst
      BY <2>1, <1>1, <1>2 DEF Bd
  <2>2. CASE i # task.inst
    <3>1. ~insts[i].used
        BY <2>2, <1>1 DEF OneHistory
    <3>2. insts'[i].bd = None
        BY <3>1, <2>2, <1>1 DEF Core, TasksOfUsed
    <3> QED BY <3>2, <1>2
  <2> QED BY <2>1, <2>2
<1> QED BY <1>2 DEF BdsSaved

FileSaved ==
    /\ Whole(dir) => dir.body >= saved
    /\ saved > 0 => Whole(dir) \/ task.at \in {"removeOld", "rename"}
    /\ task.at \in {"delete", "load", "create"} => saved = 0

LEMMA BehindParts ==
    NothingBehind = (kind = "history" /\ ~lost => BdsSaved /\ FileSaved)
BY DEF NothingBehind, BdsSaved, FileSaved

LEMMA BdNat ==
    ASSUME Core, task \in Running, Bd # None
    PROVE  Bd \in BdType /\ Bd.content \in Nat
<1>1. task.inst \in Insts /\ insts[task.inst] \in InstType
    BY CoreFacts DEF Running
<1>2. Bd \in BdType
    BY <1>1 DEF Bd, InstType
<1> QED BY <1>2 DEF BdType

LEMMA NothingBehindKept ==
    ASSUME Core, Undisturbed, OneHistory, NothingBehind, Effect, Core', Undisturbed',
           kind' = "history", ~lost'
    PROVE  BdsSaved' /\ FileSaved'
<1>0. kind = "history" /\ saved \in Nat /\ saved' \in Nat
  <2>1. saved \in Nat /\ saved' \in Nat
      BY DEF Core, PersonalTypeOK
  <2>2. kind' = kind
    <3>1. CASE Somewhere
        BY <3>1 DEF Somewhere, CallStep, Called
    <3> QED BY <3>1, WorkEffect DEF Took, Rest, Ended, Changed, Started, Killed, Works
  <2> QED BY <2>1, <2>2
<1>1. CASE Somewhere
  <2>1. PICK i \in Insts : \E reload, t : CallStep(i, reload, t)
      BY <1>1 DEF Somewhere
  <2>2. PICK reload, t : CallStep(i, reload, t)
      BY <2>1
  <2>3. Called(i, reload, t)
      BY <2>2 DEF CallStep
  <2>4. /\ \A j \in Insts : insts'[j].bd \in {insts[j].bd, None}
        /\ UNCHANGED <<dir, tmp, task, saved, lost>>
      BY <2>3, CallBds
  <2>5. BdsSaved /\ FileSaved
      BY <2>4, <1>0, BehindParts
  <2> QED BY <2>4, <2>5 DEF BdsSaved, FileSaved, Whole
<1>2. CASE Took
  <2>1. UNCHANGED <<insts, dir, saved, lost>> /\ task' \in Waiting /\ task = NoTask
      BY <1>2 DEF Took, Rest
  <2>2. BdsSaved /\ FileSaved
      BY <2>1, <1>0, BehindParts
  <2> QED BY <2>1, <2>2 DEF BdsSaved, FileSaved, Whole, Waiting, NoTask
<1>3. CASE Ended
  <2>1. /\ UNCHANGED <<dir, saved, lost>> /\ task.at = "end" /\ task' = NoTask
        /\ \A j \in Insts : insts'[j].bd = insts[j].bd
      BY <1>3 DEF Ended, Rest
  <2>2. BdsSaved /\ FileSaved
      BY <2>1, <1>0, BehindParts
  <2> QED BY <2>1, <2>2 DEF BdsSaved, FileSaved, Whole, NoTask
<1>4. CASE Changed
    BY <1>4, <1>0 DEF Changed
<1>5. CASE Started
  <2>1. UNCHANGED <<insts, dir, saved, lost, task>>
      BY <1>5 DEF Started
  <2>2. BdsSaved /\ FileSaved
      BY <2>1, <1>0, BehindParts
  <2> QED BY <2>1, <2>2 DEF BdsSaved, FileSaved, Whole
<1>6. CASE Killed
  <2>1. /\ UNCHANGED <<dir, saved>> /\ ~lost /\ task' = NoTask
        /\ \A j \in Insts : insts'[j].bd = None
        /\ task.at \in {"removeOld", "rename"} => Whole(dir)
      BY <1>6 DEF Killed
  <2>2. BdsSaved /\ FileSaved
      BY <2>1, <1>0, BehindParts
  <2> QED BY <2>1, <2>2 DEF BdsSaved, FileSaved, Whole, NoTask
<1>w. ASSUME Works
      PROVE  ~lost /\ BdsSaved /\ FileSaved /\ FlushWrites /\ NotCorrupted
             /\ task \in Running /\ task.inst \in Insts
             /\ (Bd # None => Bd.content >= saved /\ Bd.content \in Nat)
  <2>1. ~lost /\ task \in Running /\ task.inst \in Insts
      BY <1>w DEF Works, Running
  <2>2. BdsSaved /\ FileSaved /\ FlushWrites /\ NotCorrupted
      BY <2>1, <1>0, BehindParts DEF Undisturbed
  <2>3. Bd # None => Bd.content >= saved /\ Bd.content \in Nat
      BY <2>1, <2>2, BdNat DEF BdsSaved, Bd
  <2> QED BY <2>1, <2>2, <2>3
<1>7. CASE ReloadStarted
  <2>1. /\ Works /\ UNCHANGED <<dir, saved>> /\ task.at = "start"
        /\ task'.at \in {"delete", "loaded"}
      BY <1>7 DEF ReloadStarted, disk
  <2>2. saved > 0 => Whole(dir) /\ dir.body >= saved /\ dir # None
      BY <2>1, <1>w DEF FileSaved, Whole
  <2>3. ~insts[task.inst].recreate /\ (NeedsNew(task.inst) => dir = None)
      BY <2>1, <1>0, <1>w DEF OneHistory, NeedsNew
  <2>4. task'.at = "delete" => saved = 0
      BY <1>7, <1>0, <2>2, <2>3 DEF ReloadStarted
  <2>5. Bd' # None => Bd'.content >= saved'
    <3>1. CASE UNCHANGED insts
      <4>1. Bd' = Bd
          BY <3>1, <2>1 DEF Works, Bd
      <4> QED BY <4>1, <2>1, <1>w
    <3>2. CASE Bd' = None
        BY <3>2
    <3>3. CASE task'.at = "delete" /\ Bd' \in BdType
      <4>1. Bd'.content \in Nat /\ saved' = 0
          BY <3>3, <2>1, <2>4 DEF BdType
      <4> QED BY <4>1
    <3>4. CASE Bd' \in BdType /\ dir.body = Bd'.content
      <4>1. Bd'.content \in Nat
          BY <3>4 DEF BdType
      <4> QED BY <4>1, <3>4, <2>1, <2>2, <1>0
    <3> QED BY <1>7, <3>1, <3>2, <3>3, <3>4 DEF ReloadStarted
  <2>6. BdsSaved'
      BY <2>1, <2>5, <1>0, OneBd
  <2>7. FileSaved'
      BY <2>1, <2>2, <2>4, <1>0, <1>w DEF FileSaved, Whole
  <2> QED BY <2>6, <2>7
<1>8. CASE Deleted
  <2>1. Works /\ UNCHANGED <<insts, saved>> /\ task.at = "delete"
      BY <1>8 DEF Deleted
  <2>2. saved = 0
      BY <2>1, <1>w DEF FileSaved
  <2>3. BdsSaved'
      BY <2>1, <1>w DEF BdsSaved
  <2>4. FileSaved'
      BY <2>1, <2>2 DEF FileSaved, Whole
  <2> QED BY <2>3, <2>4
<1>9. CASE ReadProvider
  <2>1. /\ Works /\ UNCHANGED <<dir, saved>> /\ task.at = "load"
        /\ Bd'.content = provider /\ task'.at \in {"cleanTmp", "loaded"}
      BY <1>9 DEF ReadProvider
  <2>2. saved = 0 /\ provider = 0
      BY <2>1, <1>0, <1>w DEF FileSaved, OneHistory
  <2>3. BdsSaved'
      BY <2>1, <2>2, <1>0, OneBd
  <2>4. FileSaved'
      BY <2>1, <2>2 DEF FileSaved, Whole
  <2> QED BY <2>3, <2>4
<1>10. CASE Unmarked
  <2>1. /\ Works /\ UNCHANGED <<dir, saved>> /\ task.at = "loaded" /\ task'.at = "end"
        /\ \A j \in Insts : insts'[j].bd = insts[j].bd
      BY <1>10 DEF Unmarked
  <2> QED BY <2>1, <1>w DEF BdsSaved, FileSaved, Whole
<1>11. CASE WriteStarted \/ CleanedTmp \/ Written("header", "body")
            \/ Written("body", "removeOld")
  <2>1. /\ Works /\ UNCHANGED <<dir, saved, insts>>
        /\ task.at \notin {"removeOld", "rename"}
        /\ task'.at \notin {"delete", "load", "create"}
      BY <1>11 DEF WriteStarted, CleanedTmp, Written
  <2> QED BY <2>1, <1>w DEF BdsSaved, FileSaved, Whole
<1>12. CASE Updated
  <2>1. /\ Works /\ UNCHANGED <<dir, saved>> /\ task.at = "update" /\ task'.at = "end"
        /\ Bd # None /\ Bd'.content \in Nat /\ Bd'.content >= Bd.content
      BY <1>12 DEF Updated
  <2>2. Bd'.content >= saved'
      BY <2>1, <1>0, <1>w
  <2>3. BdsSaved'
      BY <2>1, <2>2, <1>0, OneBd
  <2>4. FileSaved'
      BY <2>1, <1>w DEF FileSaved, Whole
  <2> QED BY <2>3, <2>4
<1>13. CASE Dropped
  <2>1. /\ Works /\ UNCHANGED dir /\ task.at = "start" /\ Bd' = None
        /\ task.op \in {"close", "remove", "clear"} /\ task.op # "remove"
        /\ task'.at = (IF task.op = "close" THEN "end" ELSE "delete")
        /\ saved' = (IF task.op = "clear" THEN 0 ELSE saved)
      BY <1>13, <1>w DEF Dropped, NotCorrupted
  <2>2. BdsSaved'
      BY <2>1, <1>0, OneBd
  <2>3. FileSaved'
    <3>1. CASE task.op = "clear"
      <4>1. saved' = 0
          BY <2>1, <3>1
      <4> QED BY <4>1 DEF FileSaved, Whole
    <3>2. CASE task.op = "close"
        BY <2>1, <3>2, <1>w DEF FileSaved, Whole
    <3> QED BY <2>1, <3>1, <3>2
  <2> QED BY <2>2, <2>3
<1>14. CASE Cleared
  <2>1. /\ Works /\ UNCHANGED <<dir, saved>> /\ task.at = "create" /\ task'.at = "end"
        /\ Bd'.content = 0
      BY <1>14 DEF Cleared
  <2>2. saved = 0
      BY <2>1, <1>w DEF FileSaved
  <2>3. BdsSaved'
      BY <2>1, <2>2, <1>0, OneBd
  <2>4. FileSaved'
      BY <2>1, <2>2 DEF FileSaved, Whole
  <2> QED BY <2>3, <2>4
<1>15. CASE OldRemoved
  <2>1. /\ Works /\ UNCHANGED <<saved, insts>>
        /\ task'.at \in {"removeOld", "rename"} /\ (Whole(dir') => UNCHANGED dir)
      BY <1>15 DEF OldRemoved
  <2> QED BY <2>1, <1>w DEF BdsSaved, FileSaved, Whole
<1>16. CASE Renamed
  <2>1. Works /\ task'.at = "reopen" /\ saved' = Bd.content /\ UNCHANGED insts
      BY <1>16 DEF Renamed
  <2>2. Bd' = Bd
      BY <2>1 DEF Works, Bd
  <2>3. Whole(dir') /\ dir'.body = Bd'.content
    <3>1. FlushWrites'
        BY DEF Undisturbed
    <3> QED BY <3>1, <2>1 DEF FlushWrites
  <2>4. Bd' # None => Bd'.content >= saved'
      BY <2>1, <2>2, <1>0
  <2>5. BdsSaved'
      BY <2>1, <2>4, <1>0, OneBd
  <2>6. dir'.body >= saved'
      BY <2>1, <2>2, <2>3, <1>0
  <2>7. FileSaved'
    <3>1. Whole(dir)'
        BY <2>3 DEF Whole
    <3> QED BY <3>1, <2>1, <2>6 DEF FileSaved
  <2> QED BY <2>5, <2>7
<1>17. CASE Reopened
  <2>1. /\ Works /\ UNCHANGED <<dir, saved>> /\ task.at = "reopen"
        /\ task'.at \in {"loaded", "update", "end"}
        /\ Whole(dir) => Bd'.content = dir.body
      BY <1>17 DEF Reopened
  <2>2. Whole(dir) /\ dir.body = Bd.content /\ Bd # None
      BY <2>1, <1>w DEF FlushWrites, Core, TaskHasFiles, FlushSteps
  <2>3. Bd'.content >= saved'
      BY <2>1, <2>2, <1>w
  <2>4. BdsSaved'
      BY <2>1, <2>3, <1>0, OneBd
  <2>5. FileSaved'
      BY <2>1, <2>2, <1>w DEF FileSaved, Whole
  <2> QED BY <2>4, <2>5
<1> QED BY <1>1, <1>2, <1>3, <1>4, <1>5, <1>6, <1>7, <1>8, <1>9, <1>10, <1>11, <1>12, <1>13,
          <1>14, <1>15, <1>16, <1>17 DEF Effect, WorkStep

LEMMA SavedFromInv ==
    ASSUME Core, Undisturbed, NothingBehind
    PROVE  SavedOnDisk
<1> SUFFICES ASSUME kind = "history", ~lost, saved > 0
             PROVE  \/ Whole(dir) /\ dir.body >= saved
                    \/ /\ Whole(tmp) /\ tmp.body >= saved
                       /\ task.at \in {"removeOld", "rename"}
    BY DEF SavedOnDisk
<1>1. BdsSaved /\ FileSaved /\ FlushWrites
    BY BehindParts DEF Undisturbed
<1>2. CASE Whole(dir)
    BY <1>1, <1>2 DEF FileSaved
<1>3. CASE ~Whole(dir)
  <2>1. task.at \in {"removeOld", "rename"}
      BY <1>1, <1>3 DEF FileSaved
  <2>2. tmp # None /\ Bd # None /\ tmp.header = Bd.content /\ tmp.body = Bd.content
      BY <2>1, <1>1 DEF FlushWrites, Core, TaskHasFiles, FlushSteps
  <2>3. task \in Running
      BY <2>1, CoreFacts DEF NoTask
  <2>4. Bd.content \in Nat /\ Bd.content >= saved
      BY <2>2, <2>3, <1>1, BdNat DEF BdsSaved, Bd, Running
  <2> QED BY <2>1, <2>2, <2>4 DEF Whole
<1> QED BY <1>2, <1>3

-----------------------------------------------------------------------------
(* The copy of the system's user dictionary.                               *)

LEMMA KindKept ==
    ASSUME Effect
    PROVE  kind' = kind
<1>1. CASE Somewhere
    BY <1>1 DEF Somewhere, CallStep, Called
<1> QED BY <1>1, WorkEffect DEF Took, Rest, Ended, Changed, Started, Killed, Works

\* What a call leaves in the queue and adds to it.
LEMMA CallQueue ==
    ASSUME Core, NEW i, NEW reload, NEW t, CallStep(i, reload, t)
    PROVE  /\ i \in Insts /\ UNCHANGED <<kind, provider, dir, tmp, alive, task, saved, lost>>
           /\ \A j \in Insts : insts[j].used => /\ insts'[j].bd = insts[j].bd
                                                /\ insts'[j].recreate = insts[j].recreate
           /\ ~insts[i].used => /\ insts'[i].bd = None
                                /\ insts'[i].recreate = (kind = "user" /\ ~recreated)
           /\ \A n \in DOMAIN queue : n \in DOMAIN queue' /\ queue'[n] = queue[n]
           /\ \A n \in DOMAIN queue' : n \notin DOMAIN queue =>
                 n - Len(queue) \in DOMAIN t /\ queue'[n] = t[n - Len(queue)]
           /\ \A n \in DOMAIN queue : n \in Nat /\ n < Len(queue) + 1
           /\ \A j \in Insts : Reloads(j) \subseteq Reloads(j)'
           /\ reload => Len(queue) + 1 \in Reloads(i)'
           /\ Len(queue) \in Nat /\ \A n \in DOMAIN queue' : n \in Nat
           /\ kind = "user" => \/ Looks(i, t) \/ Opens(i, reload, t)
                               \/ Closes(i, reload, t) \/ Forces(i, reload, t)
<1>1. /\ i \in Insts /\ reload \in BOOLEAN /\ Adds(t, i, reload) /\ queue' = queue \o t
      /\ UNCHANGED <<kind, provider, dir, tmp, alive, task, saved, lost>>
      /\ \A j \in Insts : j # i => insts'[j] = insts[j]
      /\ \/ /\ insts[i].used /\ insts'[i].bd = insts[i].bd
            /\ insts'[i].recreate = insts[i].recreate
         \/ /\ ~insts[i].used /\ insts'[i].bd = None
            /\ insts'[i].recreate = (kind = "user" /\ ~recreated)
      /\ queue \in Seq(Waiting)
    BY CoreFacts DEF CallStep, Called
<1>2. PICK k \in Insts : k = i
    BY <1>1
<1>3. PICK r \in BOOLEAN : r = reload
    BY <1>1
<1>4. Adds(t, k, r)
    BY <1>1, <1>2, <1>3
<1>5. /\ \A j \in Insts : Reloads(j) \subseteq Reloads(j)'
      /\ r => Reloads(k)' = Reloads(k) \cup {Len(queue) + 1}
    BY <1>1, <1>4, AddsReloads
<1>6. t \in Seq(Waiting)
    BY <1>1 DEF Adds
<1>7. /\ Len(queue) \in Nat /\ Len(t) \in Nat
      /\ DOMAIN queue = 1 .. Len(queue) /\ DOMAIN queue' = 1 .. (Len(queue) + Len(t))
      /\ \A n \in DOMAIN queue : n \in DOMAIN queue' /\ queue'[n] = queue[n]
      /\ \A n \in DOMAIN queue' : n \notin DOMAIN queue =>
            n - Len(queue) \in DOMAIN t /\ queue'[n] = t[n - Len(queue)]
    BY <1>1, <1>6, AddsQueue
<1>8. /\ \A n \in DOMAIN queue : n \in Nat /\ n < Len(queue) + 1
      /\ \A n \in DOMAIN queue' : n \in Nat
    BY <1>7
<1>9. \A j \in Insts : insts[j].used => /\ insts'[j].bd = insts[j].bd
                                        /\ insts'[j].recreate = insts[j].recreate
    BY <1>1
<1>10. reload => Len(queue) + 1 \in Reloads(i)'
    BY <1>2, <1>3, <1>5
<1> QED BY <1>1, <1>5, <1>7, <1>8, <1>9, <1>10 DEF CallStep

LEMMA QueueInsts ==
    ASSUME Core
    PROVE  /\ \A n \in DOMAIN queue : queue[n].inst \in Insts /\ insts[queue[n].inst].used
           /\ task # NoTask => task.inst \in Insts /\ insts[task.inst].used
           /\ current # None => current \in Insts /\ insts[current].used
BY CoreFacts DEF Waiting, Running

LEMMA UserTasksKept ==
    ASSUME Core, UserTasks, Effect, kind = "user", Core'
    PROVE  UserTasks'
<1>1. /\ \A n \in DOMAIN queue : /\ queue[n].op \in {"reload", "close", "remove"}
                                 /\ queue[n].op = "close" => queue[n].inst # current
      /\ task # NoTask => /\ task.op \in {"reload", "close", "remove"}
                          /\ task.op = "close" => task.inst # current
    BY DEF UserTasks
<1>2. CASE Somewhere
  <2>1. PICK i \in Insts : \E reload, t : CallStep(i, reload, t)
      BY <1>2 DEF Somewhere
  <2>2. PICK reload, t : CallStep(i, reload, t)
      BY <2>1
  <2>3. /\ task' = task
        /\ \A n \in DOMAIN queue' : \/ n \in DOMAIN queue /\ queue'[n] = queue[n]
                                    \/ \E k \in DOMAIN t : queue'[n] = t[k]
        /\ Looks(i, t) \/ Opens(i, reload, t) \/ Closes(i, reload, t) \/ Forces(i, reload, t)
      BY <2>2, CallQueue
  \* the object in use is the same, or none, or a new one
  <2>4. \/ current' = current \/ current' = None
        \/ current' = i /\ ~insts[i].used
      BY <2>3 DEF Looks, Opens, Closes, Forces
  <2>5. \A n \in DOMAIN queue : queue[n].op = "close" => queue[n].inst # current'
      BY <2>4, <1>1, QueueInsts, Consts
  <2>6. task # NoTask /\ task.op = "close" => task.inst # current'
      BY <2>4, <1>1, QueueInsts, Consts
  <2>7. \A k \in DOMAIN t : /\ t[k].op \in {"reload", "close", "remove"}
                            /\ t[k].op = "close" => t[k].inst # current'
      BY <2>3, QueueInsts, Consts DEF Looks, Opens, Closes, Forces
  <2>8. \A n \in DOMAIN queue' : /\ queue'[n].op \in {"reload", "close", "remove"}
                                 /\ queue'[n].op = "close" => queue'[n].inst # current'
      BY <2>3, <2>5, <2>7, <1>1
  <2> QED BY <2>3, <2>6, <2>8, <1>1 DEF UserTasks
<1>3. CASE Took
  <2>1. /\ UNCHANGED current /\ queue # <<>> /\ task' = Head(queue)
        /\ queue' = Tail(queue) /\ queue \in Seq(Waiting)
      BY <1>3, CoreFacts DEF Took, Rest
  <2>2. /\ \A n \in DOMAIN queue' : n + 1 \in DOMAIN queue /\ queue'[n] = queue[n + 1]
        /\ task' = queue[1] /\ 1 \in DOMAIN queue
      BY <2>1, TailReloads
  <2> QED BY <2>1, <2>2, <1>1 DEF UserTasks
<1>4. CASE Ended
    BY <1>4, <1>1 DEF Ended, Rest, UserTasks
<1>5. CASE Changed \/ Started
    BY <1>5, <1>1 DEF Changed, Started, UserTasks
<1>6. CASE Killed
    BY <1>6 DEF Killed, UserTasks
<1>7. CASE Works
  <2>1. /\ queue' = queue /\ current' = current /\ task # NoTask
        /\ task'.op = task.op /\ task'.inst = task.inst
      BY <1>7, CoreFacts DEF Works, Running, NoTask, Steps
  <2> QED BY <2>1, <1>1 DEF UserTasks
<1> QED BY <1>2, <1>3, <1>4, <1>5, <1>6, <1>7, WorkEffect

\* A task on an object other than the one in use, or one that is no reload,
\* leaves the object in use as it is, or drops its dictionary.
LEMMA OthersWork ==
    ASSUME Core, UserTasks, kind = "user", current # None, ~Runs(current, "reload"),
           WorkStep
    PROVE  /\ current \in Insts
           /\ insts'[current].bd \in {insts[current].bd, None}
           /\ insts'[current].recreate = insts[current].recreate
           /\ task.inst = current => task.op = "remove"
<1>1. /\ Works /\ current \in Insts /\ task \in Running /\ task # NoTask
      /\ task'.inst = task.inst
      /\ \A i \in Insts : /\ i # task.inst => insts'[i] = insts[i]
                          /\ task.at # "loaded" => insts'[i].recreate = insts[i].recreate
    BY WorkEffect, CoreFacts DEF Works, Running, NoTask, Steps
<1>2. CASE task.inst # current
    BY <1>1, <1>2
<1>3. CASE task.inst = current
  <2>1. task.op = "remove"
      BY <1>1, <1>3 DEF UserTasks, Runs
  <2>2. task.at \notin FlushSteps /\ task.at \notin {"update", "load", "loaded", "create"}
      BY <2>1 DEF Core, TaskHasFiles
  <2>3. Deleted \/ Dropped
      BY <2>1, <2>2 DEF WorkStep, ReloadStarted, ReadProvider, Unmarked, WriteStarted, Updated,
         Cleared, CleanedTmp, Written, OldRemoved, Renamed, Reopened, FlushSteps
  <2>4. Bd' = None \/ UNCHANGED insts
      BY <2>3 DEF Deleted, Dropped
  <2>5. insts'[current].bd \in {insts[current].bd, None}
      BY <2>4, <1>1, <1>3 DEF Bd
  <2> QED BY <2>1, <2>2, <2>5, <1>1
<1> QED BY <1>2, <1>3

LEMMA OldReloadsFirstKept ==
    ASSUME Core, ReloadingHasTask, UserTasks, OldReloadsFirst, Effect, kind = "user",
           current' # None
    PROVE  OldRunsFirst' /\ OldWaitsFirst'
<1>1. CASE Somewhere
  <2>1. PICK i \in Insts : \E reload, t : CallStep(i, reload, t)
      BY <1>1 DEF Somewhere
  <2>2. PICK reload, t : CallStep(i, reload, t)
      BY <2>1
  <2>3. /\ task' = task
        /\ \A j \in Insts : insts[j].used => insts'[j].bd = insts[j].bd
        /\ ~insts[i].used => insts'[i].bd = None
        /\ \A n \in DOMAIN queue : n \in DOMAIN queue' /\ queue'[n] = queue[n]
        /\ \A n \in DOMAIN queue' : n \notin DOMAIN queue =>
              n - Len(queue) \in DOMAIN t /\ queue'[n] = t[n - Len(queue)]
        /\ \A n \in DOMAIN queue : n \in Nat /\ n < Len(queue) + 1
        /\ \A j \in Insts : Reloads(j) \subseteq Reloads(j)'
        /\ reload => Len(queue) + 1 \in Reloads(i)'
        /\ Looks(i, t) \/ Opens(i, reload, t) \/ Closes(i, reload, t) \/ Forces(i, reload, t)
      BY <2>2, CallQueue
  <2>4. CASE Looks(i, t)
    <3>1. current' = i /\ current = i /\ insts'[i].bd = insts[i].bd /\ i # None
        BY <2>3, <2>4, Consts DEF Looks
    <3>2. \A m \in DOMAIN queue' : queue'[m].inst # i =>
              m \in DOMAIN queue /\ queue'[m] = queue[m]
        BY <2>3, <2>4 DEF Looks
    <3>3. \A m \in DOMAIN queue' : queue'[m].op = "reload" /\ queue'[m].inst # i =>
              insts[i].bd = None /\ \E n \in Reloads(i) : n > m
        BY <3>1, <3>2 DEF OldReloadsFirst, OldWaitsFirst
    <3>4. task.op = "reload" /\ task.inst # i => insts[i].bd = None /\ Reloads(i) # {}
        BY <3>1 DEF OldReloadsFirst, OldRunsFirst
    <3>5. Reloads(current)' = Reloads(i)' /\ Reloads(i) \subseteq Reloads(i)'
        BY <3>1, <2>3 DEF Reloads, Task
    <3>6. OldRunsFirst'
        BY <3>1, <3>4, <3>5, <2>3 DEF OldRunsFirst
    <3>7. OldWaitsFirst'
        BY <3>1, <3>2, <3>3, <3>5 DEF OldWaitsFirst
    <3> QED BY <3>6, <3>7
  <2>5. CASE Opens(i, reload, t) \/ Forces(i, reload, t)
    <3>1. /\ current' = i /\ reload /\ insts'[i].bd = None /\ Len(queue) + 1 \in Reloads(i)'
        BY <2>3, <2>5 DEF Opens, Forces
    <3>2. \A m \in DOMAIN queue' : queue'[m].op = "reload" /\ queue'[m].inst # i =>
              m \in DOMAIN queue
      <4>1. \A k \in DOMAIN t : t[k].op = "reload" => t[k].inst = i
          BY <2>5 DEF Opens, Forces
      <4> QED BY <4>1, <2>3
    <3>3. \A m \in DOMAIN queue : Len(queue) + 1 > m
        BY <2>3
    <3>4. Reloads(current)' = Reloads(i)'
        BY <3>1 DEF Reloads, Task
    <3>5. OldRunsFirst'
        BY <3>1, <3>4 DEF OldRunsFirst
    <3>6. OldWaitsFirst'
        BY <3>1, <3>2, <3>3, <3>4 DEF OldWaitsFirst
    <3> QED BY <3>5, <3>6
  <2>6. CASE Closes(i, reload, t)
      BY <2>6 DEF Closes
  <2> QED BY <2>3, <2>4, <2>5, <2>6
<1>2. CASE Took
  <2>1. /\ UNCHANGED <<current, insts>> /\ queue # <<>> /\ task' = Head(queue)
        /\ queue' = Tail(queue) /\ queue \in Seq(Waiting) /\ current \in Insts
      BY <1>2, CoreFacts DEF Took, Rest
  <2>2. /\ \A n \in DOMAIN queue' : n + 1 \in DOMAIN queue /\ queue'[n] = queue[n + 1] /\ n \in Nat
        /\ task' = queue[1] /\ 1 \in DOMAIN queue
        /\ \A n \in Reloads(current) : n # 1 => n - 1 \in Reloads(current)'
        /\ Reloads(current) \subseteq Nat
    <3>1. /\ \A n \in DOMAIN queue' : n + 1 \in DOMAIN queue /\ queue'[n] = queue[n + 1]
          /\ task' = queue[1] /\ 1 \in DOMAIN queue
          /\ \A n \in Reloads(current) : n # 1 => n - 1 \in Reloads(current)'
          /\ Reloads(current) \subseteq Nat
          /\ DOMAIN queue' = 1 .. (Len(queue) - 1) /\ Len(queue) \in Nat
        BY <2>1, TailReloads
    <3> QED BY <3>1
  <2>3. ASSUME NEW m \in DOMAIN queue, queue[m].op = "reload", queue[m].inst # current
        PROVE  insts[current].bd = None /\ \E n \in Reloads(current) : n > m
      BY <2>3, <2>1, Consts DEF OldReloadsFirst, OldWaitsFirst
  <2>4. task'.op = "reload" /\ task'.inst # current =>
            insts[current].bd = None /\ Reloads(current)' # {}
    <3> SUFFICES ASSUME task'.op = "reload", task'.inst # current
                 PROVE  insts[current].bd = None /\ Reloads(current)' # {}
        OBVIOUS
    <3>1. insts[current].bd = None
        BY <2>2, <2>3
    <3>2. PICK n \in Reloads(current) : n > 1
        BY <2>2, <2>3
    <3> QED BY <3>1, <3>2, <2>2
  <2>5. ASSUME NEW m \in DOMAIN queue', queue'[m].op = "reload", queue'[m].inst # current
        PROVE  insts[current].bd = None /\ \E n \in Reloads(current)' : n > m
    <3>1. /\ m + 1 \in DOMAIN queue /\ queue[m + 1].op = "reload" /\ m \in Nat
          /\ queue[m + 1].inst # current
        BY <2>5, <2>2
    <3>2. insts[current].bd = None
        BY <3>1, <2>3
    <3>3. PICK n \in Reloads(current) : n > m + 1
        BY <3>1, <2>3
    <3>4. n - 1 \in Reloads(current)' /\ n - 1 > m
        BY <3>1, <3>3, <2>2
    <3> QED BY <3>2, <3>4
  <2>6. current' = current /\ insts' = insts
      BY <2>1
  <2>7. Reloads(current)' = {n \in 1 .. Len(queue') : queue'[n] = Task(current, "reload")}
      BY <2>6 DEF Reloads, Task
  <2> QED BY <2>4, <2>5, <2>6, <2>7 DEF OldRunsFirst, OldWaitsFirst
<1>3. CASE Ended \/ Changed
  <2>1. /\ UNCHANGED <<current, queue>> /\ (task' = task \/ task' = NoTask)
        /\ \A j \in Insts : insts'[j].bd = insts[j].bd
      BY <1>3 DEF Ended, Rest, Changed
  <2>2. current \in Insts /\ insts'[current].bd = insts[current].bd
      BY <2>1, CoreFacts
  <2>3. Reloads(current)' = Reloads(current)
      BY <2>1 DEF Reloads, Task
  <2>4. task'.op = "reload" => task' = task
      BY <2>1 DEF NoTask
  <2>5. OldRunsFirst'
      BY <2>1, <2>2, <2>3, <2>4 DEF OldReloadsFirst, OldRunsFirst
  <2>6. OldWaitsFirst'
      BY <2>1, <2>2, <2>3 DEF OldReloadsFirst, OldWaitsFirst
  <2> QED BY <2>5, <2>6
<1>4. CASE Started \/ Killed
    BY <1>4 DEF Started, Killed
<1>5. CASE WorkStep
  <2>1. /\ UNCHANGED <<current, queue>> /\ task'.op = task.op /\ task'.inst = task.inst
        /\ \A j \in Insts : j # task.inst => insts'[j] = insts[j]
      BY <1>5, WorkEffect DEF Works
  <2>2. Reloads(current)' = Reloads(current) /\ current \in Insts
      BY <2>1, CoreFacts DEF Reloads, Task
  <2>3. task.op = "reload" /\ task.inst # current =>
            insts'[current].bd = None /\ Reloads(current) # {}
    <3>1. task.inst # current => insts'[current] = insts[current]
        BY <2>1, <2>2
    <3> QED BY <3>1, <2>1 DEF OldReloadsFirst, OldRunsFirst
  <2>4. ASSUME NEW m \in DOMAIN queue, queue[m].op = "reload", queue[m].inst # current
        PROVE  insts'[current].bd = None /\ \E n \in Reloads(current) : n > m
    <3>1. insts[current].bd = None /\ \E n \in Reloads(current) : n > m
        BY <2>4, <2>1 DEF OldReloadsFirst, OldWaitsFirst
    <3>2. ~Runs(current, "reload")
        BY <3>1, <2>2 DEF ReloadingHasTask, Runs
    <3>3. insts'[current].bd \in {insts[current].bd, None}
        BY <3>2, <1>5, <2>1, OthersWork
    <3> QED BY <3>1, <3>3
  <2>5. OldRunsFirst'
      BY <2>1, <2>2, <2>3 DEF OldRunsFirst
  <2>6. OldWaitsFirst'
      BY <2>1, <2>2, <2>4 DEF OldWaitsFirst
  <2> QED BY <2>5, <2>6
<1> QED BY <1>1, <1>2, <1>3, <1>4, <1>5 DEF Effect

-----------------------------------------------------------------------------
(* FileFollows.                                                            *)

\* A task of the user dictionary that is at one of these steps is a reload.
LEMMA UserReloads ==
    ASSUME Core, UserTasks, kind = "user", task # NoTask
    PROVE  /\ task.op \in {"reload", "close", "remove"}
           /\ task.at \in FlushSteps \cup {"load", "loaded"} => task.op = "reload"
           /\ task.at \notin {"update", "create"}
           /\ task.at = "delete" => task.op \in {"reload", "remove"}
BY DEF Core, TaskHasFiles, UserTasks

\* What waits for an object is one of its Reloads.
LEMMA WaitingReload ==
    ASSUME Core, NEW n \in DOMAIN queue, queue[n].op = "reload"
    PROVE  n \in Reloads(queue[n].inst) /\ queue[n].inst \in Insts
<1>1. /\ queue \in Seq(Waiting) /\ queue[n] \in Waiting
      /\ n \in 1 .. Len(queue)
    BY CoreFacts
<1>2. PICK i \in Insts : queue[n] = [op |-> "reload", inst |-> i, at |-> "start"]
    BY <1>1 DEF Waiting
<1> QED BY <1>1, <1>2 DEF Reloads, Task

\* A reload of the object in use that is on its way, and past the mark, brings
\* the file what it needs.
LEMMA ReloadBrings ==
    ASSUME Core, ReloadingHasTask, ObjectFresh, kind = "user", ~lost, ~missed,
           current # None, insts[current].recreate, ~Forgotten(current)
    PROVE  FileOnItsWay
<1>1. /\ current \in Insts /\ insts[current].reloading
      /\ ~(task.op = "reload" /\ task.inst = current /\ task.at = "end")
    BY CoreFacts DEF Forgotten
<1>2. CASE Reloads(current) # {}
  <2>1. PICK n \in Reloads(current) : TRUE
      BY <1>2
  <2>2. n \in DOMAIN queue /\ queue[n] = Task(current, "reload")
      BY <2>1, CoreFacts DEF Reloads
  <2>3. queue[n].op = "reload" /\ queue[n].inst = current
      BY <2>2 DEF Task
  <2> QED BY <2>2, <2>3 DEF FileOnItsWay, MarkedWaits
<1>3. CASE task.op = "reload" /\ task.inst = current
  <2>1. /\ task \in Running /\ task.at \in Steps /\ task.at # "end"
        /\ task.at \notin {"create", "update"} /\ Runs(current, "reload")
        /\ task.at \in FlushSteps => Bd # None
      BY <1>1, <1>3, CoreFacts DEF Core, TaskHasFiles, Runs, NoTask, Running
  <2>2. ReloadFresh
      BY DEF ObjectFresh
  <2>3. CASE task.at = "start"
      BY <2>3, <1>3 DEF FileOnItsWay, MarkedStarts
  <2>4. CASE task.at \in {"delete", "load"}
      BY <2>4, <1>3 DEF FileOnItsWay, Rereads
  <2>5. CASE task.at \in FlushSteps
      BY <2>5, <2>1, <2>2, <1>3 DEF FileOnItsWay, Rewrites, ReloadFresh
  <2>6. CASE task.at = "loaded"
      BY <2>6, <2>1, <2>2 DEF FileOnItsWay, AtRest, ReloadFresh, FlushSteps
  <2> QED BY <2>1, <2>3, <2>4, <2>5, <2>6 DEF Steps, FlushSteps
<1> QED BY <1>1, <1>2, <1>3 DEF ReloadingHasTask

LEMMA FileKeptByCall ==
    ASSUME Core, ReloadingHasTask, FileFollows, ObjectFresh, kind = "user", Somewhere,
           ~lost', ~missed', alive', recreated'
    PROVE  FileOnItsWay' \/ MarkedInUse'
<1>1. PICK i \in Insts : \E reload, t : CallStep(i, reload, t)
    BY DEF Somewhere
<1>2. PICK reload, t : CallStep(i, reload, t)
    BY <1>1
<1>3. /\ UNCHANGED <<provider, dir, alive, task, lost>>
      /\ \A j \in Insts : insts[j].used => /\ insts'[j].bd = insts[j].bd
                                           /\ insts'[j].recreate = insts[j].recreate
      /\ ~insts[i].used => insts'[i].recreate = ~recreated
      /\ \A n \in DOMAIN queue : n \in DOMAIN queue' /\ queue'[n] = queue[n]
      /\ Looks(i, t) \/ Opens(i, reload, t) \/ Closes(i, reload, t) \/ Forces(i, reload, t)
    BY <1>2, CallQueue
\* what is on its way stays on its way
<1>4. ASSUME FileOnItsWay PROVE FileOnItsWay'
  <2>1. AtRest => AtRest'
      BY <1>3 DEF AtRest, FileFresh
  <2>2. MarkedWaits => MarkedWaits'
      BY <1>3, QueueInsts DEF MarkedWaits
  <2>3. task.op = "reload" => task # NoTask
      BY DEF NoTask
  <2>4. MarkedStarts => MarkedStarts'
      BY <1>3, <2>3, QueueInsts DEF MarkedStarts
  <2>5. Rereads => Rereads'
      BY <1>3 DEF Rereads
  <2>6. Rewrites => Rewrites'
      BY <1>3, <2>3, QueueInsts DEF Rewrites, Bd
  <2> QED BY <1>4, <2>1, <2>2, <2>4, <2>5, <2>6 DEF FileOnItsWay
<1>5. CASE Looks(i, t)
  <2>1. current' = current /\ current = i /\ recreated /\ ~missed /\ insts[i].used
      BY <1>5 DEF Looks
  <2>2. MarkedInUse => MarkedInUse'
      BY <2>1, <1>3 DEF MarkedInUse
  <2> QED BY <2>1, <2>2, <1>3, <1>4 DEF FileFollows
<1>6. CASE Opens(i, reload, t)
  <2>1. current = None /\ current' = i /\ ~insts[i].used /\ ~missed
      BY <1>6 DEF Opens
  <2>2. CASE recreated
      BY <2>1, <2>2, <1>3, <1>4 DEF FileFollows, MarkedInUse
  <2>3. CASE ~recreated
      BY <2>1, <2>3, <1>3, Consts DEF MarkedInUse
  <2> QED BY <2>2, <2>3
<1>7. CASE Closes(i, reload, t) \/ Forces(i, reload, t)
  <2>1. current # None /\ ~Forgotten(current) /\ ~missed /\ recreated
      BY <1>7, Consts DEF Closes, Forces
  <2>2. FileOnItsWay
      BY <2>1, <1>3, ReloadBrings DEF FileFollows, MarkedInUse
  <2> QED BY <2>2, <1>4
<1> QED BY <1>3, <1>5, <1>6, <1>7

LEMMA FileKeptByTake ==
    ASSUME Core, Took, FileOnItsWay \/ MarkedInUse
    PROVE  FileOnItsWay' \/ MarkedInUse'
<1>1. /\ UNCHANGED <<dir, provider, current, insts>> /\ task = NoTask /\ task' \in Waiting
      /\ queue # <<>> /\ queue' = Tail(queue) /\ queue \in Seq(Waiting)
    BY CoreFacts DEF Took, Rest
<1>2. /\ \A n \in DOMAIN queue' : n + 1 \in DOMAIN queue /\ queue'[n] = queue[n + 1]
      /\ task' = queue[1] /\ DOMAIN queue' = 1 .. (Len(queue) - 1) /\ Len(queue) \in Nat
      /\ DOMAIN queue = 1 .. Len(queue)
    BY <1>1, TailReloads DEF Took
<1>3. AtRest => AtRest'
    BY <1>1 DEF AtRest, FileFresh, Waiting, FlushSteps
<1>4. MarkedInUse => MarkedInUse'
    BY <1>1 DEF MarkedInUse
<1>5. ASSUME MarkedWaits PROVE MarkedWaits' \/ MarkedStarts'
  <2>1. PICK n \in DOMAIN queue : queue[n].op = "reload" /\ insts[queue[n].inst].recreate
      BY <1>5 DEF MarkedWaits
  <2>2. CASE n = 1
      BY <2>1, <2>2, <1>1, <1>2 DEF MarkedStarts, Waiting
  <2>3. CASE n # 1
    <3>1. n - 1 \in DOMAIN queue' /\ (n - 1) + 1 = n
        BY <2>3, <1>2
    <3>2. queue'[n - 1] = queue[n]
        BY <3>1, <1>2
    <3> QED BY <3>1, <3>2, <2>1, <1>1 DEF MarkedWaits
  <2> QED BY <2>2, <2>3
<1>6. ~MarkedStarts /\ ~Rereads /\ ~Rewrites
    BY <1>1 DEF MarkedStarts, Rereads, Rewrites, NoTask
<1> QED BY <1>3, <1>4, <1>5, <1>6 DEF FileOnItsWay

LEMMA FileKeptByEnd ==
    ASSUME Core, Ended, FileOnItsWay \/ MarkedInUse
    PROVE  FileOnItsWay' \/ MarkedInUse'
<1>1. /\ UNCHANGED <<dir, provider, current, queue>> /\ task.at = "end" /\ task' = NoTask
      /\ \A i \in Insts : insts'[i].recreate = insts[i].recreate
    BY DEF Ended, Rest
<1>2. AtRest => AtRest'
    BY <1>1 DEF AtRest, FileFresh, NoTask
<1>3. MarkedInUse => MarkedInUse'
    BY <1>1, QueueInsts DEF MarkedInUse
<1>4. MarkedWaits => MarkedWaits'
    BY <1>1, QueueInsts DEF MarkedWaits
<1>5. ~MarkedStarts /\ ~Rereads /\ ~Rewrites
    BY <1>1 DEF MarkedStarts, Rereads, Rewrites, FlushSteps
<1> QED BY <1>2, <1>3, <1>4, <1>5 DEF FileOnItsWay
LEMMA FileKeptByWork ==
    ASSUME Core, Undisturbed, ReloadingHasTask, UserTasks, FileFollows, ObjectFresh,
           kind = "user", WorkStep, ~lost', ~missed', recreated'
    PROVE  FileOnItsWay' \/ MarkedInUse'
<1>1. /\ UNCHANGED <<kind, provider, alive, current, recreated, queue>> /\ alive
      /\ task \in Running /\ task.op = task'.op /\ task.inst = task'.inst /\ ~lost
      /\ \A i \in Insts : /\ i # task.inst => insts'[i] = insts[i]
                          /\ task.at # "loaded" => insts'[i].recreate = insts[i].recreate
      /\ task.inst \in Insts /\ task # NoTask
    BY WorkEffect, CoreFacts DEF Works, Running, NoTask, Steps
<1>2. /\ task.op \in {"reload", "close", "remove"}
      /\ task.at \in FlushSteps \cup {"load", "loaded"} => task.op = "reload"
      /\ task.at = "delete" => task.op \in {"reload", "remove"}
    BY <1>1, UserReloads
<1>3. FlushWrites /\ NotCorrupted
    BY <1>1 DEF Undisturbed
<1>4. ~missed => FileOnItsWay \/ MarkedInUse
    BY <1>1 DEF FileFollows
<1>5. task.at # "loaded" /\ MarkedInUse => MarkedInUse'
    BY <1>1, QueueInsts DEF MarkedInUse
<1>6. task.at # "loaded" /\ MarkedWaits => MarkedWaits'
    BY <1>1, QueueInsts DEF MarkedWaits
<1>7. CASE ReloadStarted
  <2>1. /\ UNCHANGED <<dir, lost, missed>> /\ task.op = "reload" /\ task.at = "start"
        /\ task'.at = "delete" \/ (task'.at = "loaded" /\ ~insts[task.inst].recreate)
    <3>1. /\ UNCHANGED <<dir, lost, missed>> /\ task.op = "reload" /\ task.at = "start"
        BY <1>7 DEF ReloadStarted, disk
    <3>2. task'.at = "delete" \/ (task'.at = "loaded" /\ ~NeedsNew(task.inst))
        BY <1>7 DEF ReloadStarted
    <3>3. ~NeedsNew(task.inst) => ~insts[task.inst].recreate
        BY DEF NeedsNew
    <3> QED BY <3>1, <3>2, <3>3
  <2>2. CASE task'.at = "delete"
      BY <2>1, <2>2, <1>1 DEF FileOnItsWay, Rereads
  <2>3. CASE task'.at = "loaded" /\ ~insts[task.inst].recreate
    <3>1. AtRest => AtRest'
        BY <2>1, <2>3, <1>1 DEF AtRest, FileFresh, FlushSteps
    <3>2. ~MarkedStarts /\ ~Rereads /\ ~Rewrites
        BY <2>1, <2>3 DEF MarkedStarts, Rereads, Rewrites, FlushSteps
    <3> QED BY <3>1, <3>2, <2>1, <1>4, <1>5, <1>6 DEF FileOnItsWay
  <2> QED BY <2>1, <2>2, <2>3
<1>8. CASE Deleted
  <2>1. /\ task.at = "delete" /\ task.op = "reload"
        /\ task'.at \in {"load", "delete"}
      BY <1>8, <1>2, <1>3 DEF Deleted, NotCorrupted
  <2> QED BY <2>1, <1>1 DEF FileOnItsWay, Rereads
<1>9. CASE ReadProvider
  <2>1. /\ UNCHANGED <<dir>> /\ task.at = "load" /\ task.op = "reload"
        /\ Bd' # None /\ Bd'.content = provider
        /\ task'.at = "cleanTmp" \/ task'.at = "loaded"
      BY <1>9, <1>2 DEF ReadProvider
  <2>2. CASE task'.at = "cleanTmp"
      BY <2>1, <2>2, <1>1 DEF FileOnItsWay, Rewrites, FlushSteps
  <2>3. CASE task'.at = "loaded"
    <3>1. dir' = None
        BY <2>1, <1>3 DEF FlushWrites
    <3> QED BY <3>1, <2>3, <1>1 DEF FileOnItsWay, AtRest, FileFresh, FlushSteps
  <2> QED BY <2>1, <2>2, <2>3
<1>10. CASE Unmarked
  <2>1. /\ UNCHANGED <<dir, missed>> /\ task.at = "loaded" /\ task.op = "reload"
        /\ task'.at = "end"
      BY <1>10 DEF Unmarked
  <2>2. FileFresh => AtRest'
      BY <2>1, <1>1 DEF AtRest, FileFresh, FlushSteps
  <2>3. MarkedInUse => MarkedInUse' \/ FileFresh
    <3>1. CASE current = task.inst
        BY <3>1, <2>1, <1>1 DEF ObjectFresh, ReloadFresh, Runs, MarkedInUse
    <3>2. CASE current # task.inst
        BY <3>2, <1>1, QueueInsts DEF MarkedInUse
    <3> QED BY <3>1, <3>2
  <2>4. MarkedWaits => MarkedWaits'
    <3> SUFFICES ASSUME NEW n \in DOMAIN queue, queue[n].op = "reload",
                        insts[queue[n].inst].recreate
                 PROVE  MarkedWaits'
        BY DEF MarkedWaits
    <3>1. n \in Reloads(queue[n].inst) /\ queue[n].inst \in Insts
        BY WaitingReload
    <3>2. queue[n].inst # task.inst
        BY <3>1, <2>1 DEF ReloadingHasTask
    <3> QED BY <3>1, <3>2, <1>1 DEF MarkedWaits
  <2>5. ~MarkedStarts /\ ~Rereads /\ ~Rewrites
      BY <2>1 DEF MarkedStarts, Rereads, Rewrites, FlushSteps
  <2> QED BY <2>1, <2>2, <2>3, <2>4, <2>5, <1>4 DEF FileOnItsWay, AtRest
<1>11. CASE Dropped
  <2>1. UNCHANGED <<dir, missed>> /\ task.at = "start" /\ task.op # "reload"
      BY <1>11 DEF Dropped
  <2>2. AtRest => AtRest'
      BY <2>1, <1>1 DEF AtRest, FileFresh
  <2>3. ~MarkedStarts /\ ~Rereads /\ ~Rewrites
      BY <2>1 DEF MarkedStarts, Rereads, Rewrites
  <2> QED BY <2>1, <2>2, <2>3, <1>4, <1>5, <1>6 DEF FileOnItsWay
<1>12. ASSUME CleanedTmp \/ Written("header", "body") \/ Written("body", "removeOld")
              \/ OldRemoved \/ Renamed
       PROVE  FileOnItsWay' \/ MarkedInUse'
  <2>1. /\ UNCHANGED <<missed, insts>> /\ task.at \in FlushSteps /\ task'.at \in FlushSteps
      BY <1>12 DEF CleanedTmp, Written, OldRemoved, Renamed, FlushSteps
  <2>2. Rewrites => Rewrites'
      BY <2>1, <1>1 DEF Rewrites, Bd
  <2>3. ~MarkedStarts /\ ~Rereads /\ ~AtRest
      BY <2>1, <1>2 DEF MarkedStarts, Rereads, AtRest, FlushSteps
  <2>4. task.at # "loaded"
      BY <2>1 DEF FlushSteps
  <2> QED BY <2>1, <2>2, <2>3, <2>4, <1>4, <1>5, <1>6 DEF FileOnItsWay
<1>13. CASE Reopened
  <2>1. /\ UNCHANGED <<dir, missed>> /\ task.at = "reopen" /\ task'.at = FlushedAt
        /\ task.op = "reload"
      BY <1>13, <1>2 DEF Reopened, FlushSteps
  <2>2. task'.at = "loaded" /\ Whole(dir) /\ dir.body = Bd.content
      BY <2>1, <1>3 DEF FlushedAt, FlushWrites
  <2>3. Rewrites => AtRest'
      BY <2>1, <2>2, <1>1 DEF Rewrites, AtRest, FileFresh, Whole, FlushSteps
  <2>4. ~MarkedStarts /\ ~Rereads /\ ~AtRest
      BY <2>1 DEF MarkedStarts, Rereads, AtRest, FlushSteps
  <2> QED BY <2>1, <2>3, <2>4, <1>4, <1>5, <1>6 DEF FileOnItsWay
<1>14. ~WriteStarted /\ ~Updated /\ ~Cleared
    BY <1>2 DEF WriteStarted, Updated, Cleared
<1> QED BY <1>7, <1>8, <1>9, <1>10, <1>11, <1>12, <1>13, <1>14 DEF WorkStep

LEMMA FileFollowsKept ==
    ASSUME Core, Undisturbed, ReloadingHasTask, UserTasks, FileFollows, ObjectFresh, Effect
    PROVE  FileFollows'
<1> SUFFICES ASSUME kind' = "user", ~lost', ~missed', alive', recreated'
             PROVE  FileOnItsWay' \/ MarkedInUse'
    BY DEF FileFollows
<1>1. kind = "user"
    BY KindKept
<1>2. CASE Somewhere
    BY <1>1, <1>2, FileKeptByCall
<1>3. CASE Took
  <2>1. ~lost /\ ~missed /\ alive /\ recreated
      BY <1>3 DEF Took, Rest
  <2> QED BY <2>1, <1>1, <1>3, FileKeptByTake DEF FileFollows
<1>4. CASE Ended
  <2>1. ~lost /\ ~missed /\ alive /\ recreated
      BY <1>4 DEF Ended, Rest
  <2> QED BY <2>1, <1>1, <1>4, FileKeptByEnd DEF FileFollows
<1>5. CASE Changed
  <2>1. current' = current /\ alive /\ current # None /\ insts'[current].recreate
      BY <1>5 DEF Changed
  <2> QED BY <2>1 DEF MarkedInUse
<1>6. CASE Started \/ Killed
    BY <1>6 DEF Started, Killed
<1>7. CASE WorkStep
    BY <1>1, <1>7, FileKeptByWork
<1> QED BY <1>2, <1>3, <1>4, <1>5, <1>6, <1>7 DEF Effect

-----------------------------------------------------------------------------
(* ObjectFresh.                                                            *)

\* When a reload of the object in use starts that keeps the file, the file is fresh.
LEMMA KeptFileIsFresh ==
    ASSUME Core, ReloadingHasTask, OldReloadsFirst, FileFollows, kind = "user",
           ~lost, ~missed, alive, current # None, Runs(current, "reload"),
           task.at = "start", ~insts[current].recreate
    PROVE  FileFresh
<1>1. recreated /\ task.op = "reload" /\ task.inst = current /\ current \in Insts
    BY QueueInsts DEF Core, TasksOfUsed, Runs
<1>2. Reloads(current) = {}
    BY <1>1 DEF ReloadingHasTask
<1>3. ~MarkedWaits
  <2> SUFFICES ASSUME NEW n \in DOMAIN queue, queue[n].op = "reload",
                      insts[queue[n].inst].recreate
               PROVE  FALSE
      BY DEF MarkedWaits
  <2>1. n \in Reloads(queue[n].inst)
      BY WaitingReload
  <2>2. queue[n].inst # current
      BY <2>1, <1>2
  <2>3. \E m \in Reloads(current) : m > n
      BY <2>2 DEF OldReloadsFirst, OldWaitsFirst
  <2> QED BY <2>3, <1>2
<1>4. ~MarkedStarts /\ ~Rereads /\ ~Rewrites /\ ~MarkedInUse
    BY <1>1 DEF MarkedStarts, Rereads, Rewrites, MarkedInUse, FlushSteps
<1> QED BY <1>1, <1>3, <1>4 DEF FileFollows, FileOnItsWay, AtRest

\* A reload of the object in use leaves it fresh.
LEMMA ReloadWorksFresh ==
    ASSUME Core, Undisturbed, ReloadingHasTask, UserTasks, OldReloadsFirst, FileFollows,
           ObjectFresh, kind = "user", WorkStep, Runs(current, "reload"), current # None,
           ~lost', ~missed'
    PROVE  InUseFresh' /\ ReloadFresh'
<1>1. /\ UNCHANGED <<kind, provider, current>> /\ alive /\ ~lost
      /\ task.op = "reload" /\ task.op = task'.op /\ task.inst = task'.inst
      /\ task.inst = current /\ current \in Insts
      /\ task.at # "loaded" => insts'[current].recreate = insts[current].recreate
    BY WorkEffect, QueueInsts DEF Works, Runs
<1>2. Bd = insts[current].bd /\ Bd' = insts'[current].bd
    BY <1>1 DEF Bd
<1>3. FlushWrites
    BY <1>1 DEF Undisturbed
<1>4. /\ ~missed => InUseFresh /\ ReloadFresh
      /\ InUseFresh = (Bd # None /\ Bd.valid /\ ~insts[current].recreate => Bd.content = provider)
    BY <1>1, <1>2 DEF ObjectFresh, InUseFresh
<1>5. InUseFresh' = (Bd' # None /\ Bd'.valid /\ ~insts'[current].recreate => Bd'.content = provider)
    BY <1>1, <1>2 DEF InUseFresh
<1>6. /\ ReloadFresh = (/\ task.at \in FlushSteps \cup {"loaded"} /\ Bd # None /\ Bd.valid =>
                              Bd.content = provider
                        /\ task.at \in FlushSteps => Bd.valid
                        /\ task.at = "loaded" => FileFresh)
    BY <1>1 DEF ReloadFresh, Runs
<1>7. /\ ReloadFresh' = (/\ task'.at \in FlushSteps \cup {"loaded"} /\ Bd' # None /\ Bd'.valid =>
                              Bd'.content = provider
                         /\ task'.at \in FlushSteps => Bd'.valid
                         /\ task'.at = "loaded" => FileFresh')
    BY <1>1 DEF ReloadFresh, Runs
<1>8. CASE ReloadStarted
  <2>1. UNCHANGED <<dir, missed>> /\ task.at = "start" /\ ~missed
      BY <1>8 DEF ReloadStarted, disk
  <2>2. CASE task'.at = "delete"
    <3>1. Bd' = None \/ ~Bd'.valid
        BY <2>2, <1>8 DEF ReloadStarted
    <3> QED BY <3>1, <2>2, <1>5, <1>7 DEF FlushSteps
  <2>3. CASE task'.at = "loaded"
    <3>1. /\ ~NeedsNew(task.inst)
          /\ Bd'.content = dir.body \/ (Bd # None /\ UNCHANGED insts)
        BY <2>3, <1>8 DEF ReloadStarted
    <3>2. dir # None /\ ~insts[current].recreate
        BY <3>1, <1>1 DEF NeedsNew
    <3>3. FileFresh
        BY <3>2, <2>1, <1>1, KeptFileIsFresh
    <3>4. Bd' # None /\ Bd'.valid => Bd'.content = provider
        BY <3>1, <3>2, <3>3, <2>1, <1>2, <1>4 DEF FileFresh
    <3>5. FileFresh'
        BY <3>3, <2>1, <1>1 DEF FileFresh
    <3> QED BY <3>4, <3>5, <2>3, <1>5, <1>7 DEF FlushSteps
  <2> QED BY <2>2, <2>3, <1>8 DEF ReloadStarted
<1>9. CASE Deleted
  <2>1. /\ UNCHANGED <<insts, missed>> /\ task.at = "delete"
        /\ task'.at \in {"delete", "load"}
      BY <1>9, <1>1 DEF Deleted
  <2> QED BY <2>1, <1>1, <1>2, <1>4, <1>5, <1>7 DEF FlushSteps
<1>10. CASE ReadProvider
  <2>1. /\ Bd' # None /\ Bd'.valid /\ Bd'.content = provider /\ UNCHANGED dir
        /\ task.at = "load" /\ (task'.at = "cleanTmp" \/ task'.at = "loaded")
      BY <1>10 DEF ReadProvider
  <2>2. dir' = None
      BY <2>1, <1>1, <1>3 DEF FlushWrites
  <2> QED BY <2>1, <2>2, <1>5, <1>7 DEF FileFresh
<1>11. CASE Unmarked
  <2>1. /\ UNCHANGED missed /\ task.at = "loaded" /\ task'.at = "end"
        /\ insts'[current].bd = insts[current].bd
      BY <1>11, <1>1 DEF Unmarked
  <2>2. Bd # None /\ Bd.valid => Bd.content = provider
      BY <2>1, <1>4, <1>6
  <2> QED BY <2>1, <2>2, <1>2, <1>5, <1>7 DEF FlushSteps
<1>12. ASSUME CleanedTmp \/ Written("header", "body") \/ Written("body", "removeOld")
              \/ OldRemoved \/ Renamed
       PROVE  InUseFresh' /\ ReloadFresh'
  <2>1. /\ UNCHANGED <<missed, insts>> /\ task.at \in FlushSteps /\ task'.at \in FlushSteps
      BY <1>12 DEF CleanedTmp, Written, OldRemoved, Renamed, FlushSteps
  <2>2. Bd' = Bd /\ insts'[current].recreate = insts[current].recreate /\ task'.at # "loaded"
      BY <2>1, <1>2 DEF FlushSteps
  <2> QED BY <2>1, <2>2, <1>4, <1>5, <1>6, <1>7
<1>13. CASE Reopened
  <2>1. /\ UNCHANGED <<dir, missed>> /\ task.at = "reopen" /\ task'.at = FlushedAt
        /\ Whole(dir) => Bd'.valid /\ Bd'.content = dir.body
      BY <1>13 DEF Reopened
  <2>2. task'.at = "loaded" /\ Whole(dir) /\ dir.body = Bd.content /\ Bd # None
      BY <2>1, <1>1, <1>3 DEF FlushedAt, FlushWrites, Core, TaskHasFiles, FlushSteps
  <2>3. Bd.content = provider
      BY <2>1, <2>2, <1>4, <1>6 DEF FlushSteps
  <2>4. FileFresh'
      BY <2>1, <2>2, <2>3, <1>1 DEF FileFresh, Whole
  <2> QED BY <2>1, <2>2, <2>3, <2>4, <1>5, <1>7 DEF FlushSteps
<1>14. ~WriteStarted /\ ~Updated /\ ~Cleared /\ ~Dropped
    BY <1>1 DEF WriteStarted, Updated, Cleared, Dropped
<1> QED BY <1>8, <1>9, <1>10, <1>11, <1>12, <1>13, <1>14 DEF WorkStep

LEMMA ObjectFreshKept ==
    ASSUME Core, Undisturbed, ReloadingHasTask, UserTasks, OldReloadsFirst, FileFollows,
           ObjectFresh, Effect
    PROVE  ObjectFresh'
<1> SUFFICES ASSUME kind' = "user", ~lost', ~missed', current' # None
             PROVE  InUseFresh' /\ ReloadFresh'
    BY DEF ObjectFresh
<1>1. kind = "user"
    BY KindKept
<1>2. CASE Somewhere
  <2>1. PICK i \in Insts : \E reload, t : CallStep(i, reload, t)
      BY <1>2 DEF Somewhere
  <2>2. PICK reload, t : CallStep(i, reload, t)
      BY <2>1
  <2>3. /\ UNCHANGED <<provider, dir, task, lost>>
        /\ \A j \in Insts : insts[j].used => /\ insts'[j].bd = insts[j].bd
                                             /\ insts'[j].recreate = insts[j].recreate
        /\ ~insts[i].used => insts'[i].bd = None
        /\ Looks(i, t) \/ Opens(i, reload, t) \/ Closes(i, reload, t) \/ Forces(i, reload, t)
      BY <1>1, <2>2, CallQueue
  <2>4. CASE Looks(i, t)
    <3>1. current' = current /\ current = i /\ ~missed /\ insts[i].used /\ ~lost /\ current # None
        BY <2>4, <2>3 DEF Looks
    <3>2. InUseFresh /\ ReloadFresh
        BY <3>1, <1>1 DEF ObjectFresh
    <3>3. InUseFresh'
        BY <3>1, <3>2, <2>3 DEF InUseFresh
    <3>4. Runs(current, "reload") => Bd' = Bd
        BY <3>1, <2>3 DEF Runs, Bd
    <3> QED BY <3>1, <3>2, <3>3, <3>4, <2>3 DEF ReloadFresh, Runs, FileFresh
  <2>5. CASE Opens(i, reload, t) \/ Forces(i, reload, t)
    <3>1. current' = i /\ ~insts[i].used
        BY <2>5 DEF Opens, Forces
    <3>2. InUseFresh'
        BY <3>1, <2>3 DEF InUseFresh
    <3>3. ~Runs(current, "reload")'
        BY <3>1, <2>3, QueueInsts DEF Runs, NoTask
    <3> QED BY <3>2, <3>3 DEF ReloadFresh
  <2> QED BY <2>3, <2>4, <2>5 DEF Closes
<1>3. CASE Took
  <2>1. UNCHANGED <<provider, current, insts, lost, missed>> /\ task' \in Waiting
      BY <1>3 DEF Took, Rest
  <2>2. InUseFresh
      BY <2>1, <1>1 DEF ObjectFresh
  <2>3. InUseFresh'
      BY <2>1, <2>2 DEF InUseFresh
  <2> QED BY <2>1, <2>3 DEF ReloadFresh, Waiting, FlushSteps
<1>4. CASE Ended
  <2>1. /\ UNCHANGED <<provider, current, lost, missed>> /\ task' = NoTask
        /\ \A i \in Insts : insts'[i].bd = insts[i].bd /\ insts'[i].recreate = insts[i].recreate
      BY <1>4 DEF Ended, Rest
  <2>2. InUseFresh /\ current \in Insts
      BY <2>1, <1>1, QueueInsts DEF ObjectFresh
  <2>3. InUseFresh'
      BY <2>1, <2>2 DEF InUseFresh
  <2> QED BY <2>1, <2>3 DEF ReloadFresh, Runs, NoTask
<1>5. CASE Changed
  <2>1. /\ UNCHANGED <<current, task>> /\ insts'[current].recreate
        /\ ~(Runs(current, "reload") /\ task.at \notin {"start", "delete", "load", "end"})
      BY <1>5 DEF Changed
  <2>2. InUseFresh'
      BY <2>1 DEF InUseFresh
  <2> QED BY <2>1, <2>2 DEF ReloadFresh, Runs, FlushSteps
<1>6. CASE Started \/ Killed
    BY <1>6 DEF Started, Killed
<1>7. CASE WorkStep
  <2>1. /\ UNCHANGED <<provider, current>> /\ current # None /\ ~lost
        /\ task.op = task'.op /\ task.inst = task'.inst
      BY <1>7, WorkEffect DEF Works
  <2>2. CASE Runs(current, "reload")
      BY <2>1, <2>2, <1>1, <1>7, ReloadWorksFresh
  <2>3. CASE ~Runs(current, "reload")
    <3>1. /\ current \in Insts /\ insts'[current].bd \in {insts[current].bd, None}
          /\ insts'[current].recreate = insts[current].recreate
        BY <2>1, <2>3, <1>1, <1>7, OthersWork
    <3>2. missed => insts[current].bd = None
      <4> SUFFICES ASSUME missed PROVE insts[current].bd = None
          OBVIOUS
      <4>1. ReadProvider
          BY <1>7 DEF WorkStep, ReloadStarted, Deleted, ReadProvider, Unmarked, WriteStarted,
             Updated, Dropped, Cleared, CleanedTmp, Written, OldRemoved, Renamed, Reopened
      <4>2. task.op = "reload"
          BY <4>1 DEF ReadProvider, Core, TaskHasFiles
      <4> QED BY <4>2, <2>1, <2>3, <1>1 DEF OldReloadsFirst, OldRunsFirst, Runs
    <3>3. InUseFresh'
        BY <3>1, <3>2, <2>1, <1>1 DEF InUseFresh, ObjectFresh
    <3> QED BY <3>3, <2>1, <2>3 DEF ReloadFresh, Runs
  <2> QED BY <2>2, <2>3
<1> QED BY <1>2, <1>3, <1>4, <1>5, <1>6, <1>7 DEF Effect

-----------------------------------------------------------------------------
(* The invariant, and what follows from it.                                *)

PersonalInv ==
    /\ Core /\ ReloadingHasTask /\ Undisturbed
    /\ OneHistory /\ NothingBehind
    /\ UserTasks /\ OldReloadsFirst /\ FileFollows /\ ObjectFresh

LEMMA InitInv ==
    ASSUME Init
    PROVE  PersonalInv
<1>1. /\ kind \in {"user", "history"} /\ provider = 0 /\ dir = None /\ tmp = None
      /\ alive = FALSE /\ current = None /\ queue = <<>> /\ task = NoTask
      /\ recreated = FALSE /\ saved = 0 /\ lost = FALSE /\ missed = FALSE
      /\ faults = 0 /\ kills = 0 /\ updates = 0
      /\ insts = [i \in Insts |-> [used |-> FALSE, bd |-> None,
                                   reloading |-> FALSE, recreate |-> FALSE]]
    BY DEF Init
<1>2. DOMAIN queue = {} /\ \A S : queue \in Seq(S)
    BY <1>1
<1>3. \A i \in Insts : insts[i] = [used |-> FALSE, bd |-> None,
                                   reloading |-> FALSE, recreate |-> FALSE]
    BY <1>1
<1>4. insts \in [Insts -> [used : BOOLEAN, bd : BdType \cup {None},
                           reloading : BOOLEAN, recreate : BOOLEAN]]
    BY <1>1
<1>5. PersonalTypeOK
  <2>1. provider \in 0 .. MaxChanges
      BY <1>1, DictionaryAssumption
  <2>2. queue \in Seq(TaskType) /\ task \in TaskType
      BY <1>1, <1>2 DEF TaskType
  <2>3. /\ kind \in {"user", "history"} /\ dir \in DirType \cup {None} /\ tmp \in DirType \cup {None}
        /\ alive \in BOOLEAN /\ current \in Insts \cup {None} /\ recreated \in BOOLEAN
        /\ lost \in BOOLEAN /\ missed \in BOOLEAN
        /\ saved \in Nat /\ faults \in Nat /\ kills \in Nat /\ updates \in Nat
      BY <1>1
  <2> QED BY <2>1, <2>2, <2>3, <1>4 DEF PersonalTypeOK
<1>6. Core
    BY <1>1, <1>2, <1>3, <1>5 DEF Core, TasksOfUsed, TaskHasFiles, NoTask, FlushSteps
<1>7. ReloadingHasTask
  <2>1. Len(queue) = 0
      BY <1>1
  <2>2. \A i \in Insts : Reloads(i) = {}
      BY <2>1 DEF Reloads
  <2> QED BY <2>2, <1>1, <1>3 DEF ReloadingHasTask, NoTask
<1>8. Undisturbed
    BY <1>1, <1>2, <1>3 DEF Undisturbed, FlushWrites, NotCorrupted, NoTask, FlushSteps
<1>9. OneHistory
    BY <1>1, <1>3 DEF OneHistory
<1>10. NothingBehind
    BY <1>1, <1>3 DEF NothingBehind, NoTask, Whole
<1>11. UserTasks
    BY <1>1, <1>2 DEF UserTasks
<1>12. OldReloadsFirst /\ FileFollows /\ ObjectFresh
    BY <1>1 DEF OldReloadsFirst, FileFollows, ObjectFresh
<1> QED BY <1>6, <1>7, <1>8, <1>9, <1>10, <1>11, <1>12 DEF PersonalInv

LEMMA StepInv ==
    ASSUME PersonalInv, Next
    PROVE  PersonalInv'
<1>1. Core' /\ Effect
    BY StepEffect DEF PersonalInv
<1>2. ReloadingHasTask'
    BY <1>1, ReloadingKept DEF PersonalInv
<1>3. Undisturbed'
    BY <1>1, UndisturbedKept DEF PersonalInv, Undisturbed
<1>4. OneHistory'
    BY <1>1, OneHistoryKept DEF PersonalInv
<1>5. NothingBehind'
  <2>1. kind' = "history" /\ ~lost' => BdsSaved' /\ FileSaved'
      BY <1>1, <1>3, NothingBehindKept DEF PersonalInv
  <2> QED BY <2>1 DEF NothingBehind, BdsSaved, FileSaved
<1>6. kind' = kind
    BY <1>1, KindKept
<1>7. UserTasks'
  <2>1. CASE kind = "user"
      BY <2>1, <1>1, UserTasksKept DEF PersonalInv
  <2>2. CASE kind # "user"
      BY <2>2, <1>6 DEF UserTasks
  <2> QED BY <2>1, <2>2
<1>8. OldReloadsFirst'
  <2>1. kind' = "user" /\ current' # None => OldRunsFirst' /\ OldWaitsFirst'
      BY <1>1, <1>6, OldReloadsFirstKept DEF PersonalInv
  <2> QED BY <2>1 DEF OldReloadsFirst
<1>9. FileFollows' /\ ObjectFresh'
    BY <1>1, FileFollowsKept, ObjectFreshKept DEF PersonalInv
<1> QED BY <1>1, <1>2, <1>3, <1>4, <1>5, <1>7, <1>8, <1>9 DEF PersonalInv

LEMMA StutterInv ==
    ASSUME PersonalInv, UNCHANGED vars
    PROVE  PersonalInv'
<1>1. UNCHANGED <<kind, provider, dir, tmp, alive, current, insts, queue, task,
                  recreated, saved, lost, missed, faults, kills, updates>>
    BY DEF vars, disk, hist, bound
<1>2. Core'
    BY <1>1 DEF PersonalInv, Core, PersonalTypeOK, TasksOfUsed, TaskHasFiles, Bd
<1>3. ReloadingHasTask' /\ Undisturbed'
    BY <1>1 DEF PersonalInv, ReloadingHasTask, Reloads, Undisturbed, FlushWrites,
                NotCorrupted, Bd, Whole
<1>4. OneHistory' /\ NothingBehind' /\ UserTasks'
    BY <1>1 DEF PersonalInv, OneHistory, NothingBehind, UserTasks, Whole
<1>5. OldReloadsFirst'
    BY <1>1 DEF PersonalInv, OldReloadsFirst, OldRunsFirst, OldWaitsFirst, Reloads, Task
<1>6. FileFollows'
    BY <1>1 DEF PersonalInv, FileFollows, FileOnItsWay, AtRest, MarkedInUse, MarkedWaits,
                MarkedStarts, Rereads, Rewrites, FileFresh, Whole, Bd
<1>7. ObjectFresh'
    BY <1>1 DEF PersonalInv, ObjectFresh, InUseFresh, ReloadFresh, Runs, FileFresh, Whole, Bd
<1> QED BY <1>2, <1>3, <1>4, <1>5, <1>6, <1>7 DEF PersonalInv

LEMMA PersonalAlways == Spec => []PersonalInv
<1>1. Init => PersonalInv
    BY InitInv
<1>2. PersonalInv /\ [Next]_vars => PersonalInv'
    BY StepInv, StutterInv
<1> QED BY <1>1, <1>2, PTL DEF Spec

\* Every variable of a dictionary keeps its type: the files hold what was written
\* or are cut off, a task is one that was queued, of an object that was created.
THEOREM PersonalTypes == Spec => []PersonalTypeOK
<1>1. PersonalInv => PersonalTypeOK
    BY DEF PersonalInv, Core
<1> QED BY <1>1, PersonalAlways, PTL

\* isReloading of asyncReloadDictionary is set exactly while a reload of the object
\* waits or runs, and there are never two: in every order of lookups, of reloads
\* that start and end, and of a process that is killed between them.
THEOREM OneReloadAtATime == Spec => []ReloadingHasTask
<1>1. PersonalInv => ReloadingHasTask
    BY DEF PersonalInv
<1> QED BY <1>1, PersonalAlways, PTL

\* The words that a flush of the user history has saved stay on the disk, whatever
\* reload, clear, update, close or kill comes after it and between its steps, until
\* an operation on a file fails or the process is killed while
\* flushHeaderAndDictBuffers replaces the old file.
THEOREM SavedWordsStay == Spec => []SavedOnDisk
<1>1. PersonalInv => SavedOnDisk
    BY SavedFromInv DEF PersonalInv
<1> QED BY <1>1, PersonalAlways, PTL

\* The copy of the system's user dictionary that is in use, open and neither marked
\* nor being reloaded holds what that dictionary holds, unless a change of it came
\* when nobody would act on it, or a file operation failed.
THEOREM CopyIsFresh == Spec => []FreshUnlessMissed
<1>1. PersonalInv => FreshUnlessMissed
    BY DEF PersonalInv, ObjectFresh, InUseFresh, FreshUnlessMissed
<1> QED BY <1>1, PersonalAlways, PTL

=============================================================================
