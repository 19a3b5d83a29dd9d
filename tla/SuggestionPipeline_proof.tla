------------------------ MODULE SuggestionPipeline_proof ------------------------
(***************************************************************************)
(* Proofs about SuggestionPipeline: its types, and that a separator        *)
(* commits what was typed or a correction of exactly that word.            *)
(***************************************************************************)
EXTENDS SuggestionPipeline, TLAPS

(* Where the main thread can be in a handler.                              *)
MainTypeOK ==
    main \in {Idle} \cup [at : {"request"}, style : Styles]
             \cup [at : {"ensure", "commit"}, cut : BOOLEAN, batch : BOOLEAN]
             \cup [at : {"wait", "commit", "giveUp"}, cut : BOOLEAN,
                   batch : BOOLEAN, job : Jobs]
             \cup [at : {"refresh"}, words : Shown]

(* Inside ensureSuggestionsCompleted, or between it and the commit.        *)
Committing == main.at \in {"ensure", "wait", "commit", "giveUp"}

(* The request a handler that has begun still makes.                       *)
Owed == IF main.at = "request" \/ (Committing /\ ~main.batch) THEN 1 ELSE 0

NumbersFit == sequenceId + Len(inbox) + Owed <= MaxSeq

JobRecords == [st : {"none", "posted", "delayed", "queued", "over"}, style : Styles]

(* The types of what the threads share about the jobs.                     *)
LaneTypeOK ==
    /\ sequenceId \in 0 .. MaxSeq /\ completed \in 0 .. sequenceId
    /\ jobs \in [Jobs -> JobRecords]
    /\ current \in Jobs \cup {None}
    /\ lane \in Seq(Jobs) /\ IsInjective(lane)
    /\ ToSet(lane) = {id \in Jobs : jobs[id].st = "queued"}
    /\ running \in [at : {"idle", "read", "test", "show", "apply", "done"},
                    res : Shown]
    /\ running.at # "idle" => lane # <<>>

(* No job has a number not given out yet, and the last one has the last;   *)
(* a job not yet handed to dictionaryScope is the last one.                *)
JobsNumbered ==
    /\ \A id \in Jobs : jobs[id].st # "none" => Seq_(id) <= sequenceId
    /\ current # None => Seq_(current) = sequenceId
    /\ \A id \in Jobs : jobs[id].st \in {"posted", "delayed"} => id = current

Ordered(s) == \A a, b \in DOMAIN s : a < b => Seq_(s[a]) <= Seq_(s[b])

(* Jobs are run in the order of their numbers, none below the completed.   *)
LaneOrdered == Ordered(lane) /\ \A id \in ToSet(lane) : completed <= Seq_(id)

Runs(id) == running.at # "idle" /\ Head(lane) = id

(* Of the jobs that ensureSuggestionsCompleted made for the last number    *)
(* only the current one can be queued and not run yet.                     *)
OneEnsure ==
    \A k \in {"ensure", "again"}, i \in Seqs :
        (i = sequenceId /\ jobs[<<i, k>>].st = "queued")
            => current = <<i, k>> \/ Runs(<<i, k>>)

LaneInv == LaneTypeOK /\ JobsNumbered /\ LaneOrdered /\ OneEnsure

ComposerRecords == [word : 0 .. MaxWord, mid : BOOLEAN, batch : BOOLEAN,
                    input : 0 .. MaxWord, auto : Shown]

(* The types of the rest.                                                  *)
HandlerTypeOK ==
    /\ composer \in ComposerRecords
    /\ fresh \in 0 .. MaxWord
    /\ strip \in Shown
    /\ inbox \in Seq({"update", "tail"})
    /\ gesture \in Words \cup {None}
    /\ committed \in [typed : 0 .. MaxWord, auto : Shown,
                      batch : BOOLEAN, raced : BOOLEAN]
    /\ raced \in BOOLEAN
    /\ MainTypeOK

PipelineInv == LaneInv /\ HandlerTypeOK /\ NumbersFit


Own(w) == w \in {None, composer.word}

(* A word that was typed, that no handler has changed since the last       *)
(* request and no result overtook.                                         *)
Plain == /\ composer.word # 0 /\ ~composer.batch /\ ~raced
         /\ main.at # "request"
         /\ Committing => ~main.cut

(* A job with the last number has read the plain word, and what it shows   *)
(* is that word's.                                                         *)
LastReadsIt ==
    Plain =>
        /\ completed = sequenceId => (Own(composer.auto) /\ Own(strip))
        /\ (running.at # "idle" /\ Seq_(Head(lane)) = sequenceId) =>
              /\ running.at \in {"test", "show"} => running.res = composer.word
              /\ running.at \in {"apply", "done"} => (Own(composer.auto) /\ Own(strip))

WaitOK ==
    /\ Committing => composer.word # 0
    /\ main.at = "wait" =>
          /\ Kind(main.job) # "update"
          /\ jobs[main.job].st \in {"queued", "over"}
          /\ Seq_(main.job) = sequenceId => current = main.job

(* A gesture's request came while the main thread waits: the awaited job   *)
(* is running.                                                             *)
Overtaken ==
    (main.at = "wait" /\ jobs[main.job].st = "queued" /\ Seq_(main.job) # sequenceId) =>
        /\ Runs(main.job)
        /\ running.at \in {"read", "test"} => raced
        /\ (~main.cut /\ ~composer.batch /\ ~raced) =>
              /\ running.at = "show" => running.res = composer.word
              /\ running.at \in {"apply", "done"} => Own(composer.auto)

(* The wait is over.                                                       *)
WaitOver ==
    \/ main.at = "commit"
    \/ main.at = "wait" /\ jobs[main.job].st = "over"

Settled ==
    (WaitOver /\ ~main.cut /\ ~composer.batch /\ ~raced) =>
            /\ Own(composer.auto)
            /\ running.at \in {"test", "show"} => running.res = composer.word

(* The word was cut at the cursor.                                         *)
CutWord == Recorrecting => (Own(composer.auto) \/ composer.batch \/ raced)

WordInv == CommitsOwnWord /\ LastReadsIt /\ WaitOK /\ Overtaken /\ Settled /\ CutWord
-----------------------------------------------------------------------------
(* The lane as a sequence.                                                 *)

LEMMA JobFacts ==
    ASSUME NEW id \in Jobs
    PROVE  /\ Seq_(id) \in 1 .. MaxSeq /\ Kind(id) \in Kinds
           /\ id = <<Seq_(id), Kind(id)>>
BY DEF Jobs, Seqs, Seq_, Kind

LEMMA AppendLane ==
    ASSUME NEW s \in Seq(Jobs), IsInjective(s), Ordered(s),
           NEW id \in Jobs, id \notin ToSet(s),
           \A x \in ToSet(s) : Seq_(x) <= Seq_(id)
    PROVE  /\ Append(s, id) \in Seq(Jobs) /\ IsInjective(Append(s, id))
           /\ Ordered(Append(s, id))
           /\ ToSet(Append(s, id)) = ToSet(s) \cup {id}
           /\ Append(s, id) # <<>>
           /\ s # <<>> => Head(Append(s, id)) = Head(s)
<1> DEFINE t == Append(s, id)
<1>1. /\ t \in Seq(Jobs) /\ t # <<>> /\ Len(t) = Len(s) + 1
      /\ DOMAIN t = 1 .. (Len(s) + 1) /\ DOMAIN s = 1 .. Len(s)
      /\ Len(s) \in Nat
      /\ \A k \in 1 .. Len(s) : t[k] = s[k]
      /\ t[Len(s) + 1] = id
    OBVIOUS
<1>2. s # <<>> => Head(t) = Head(s)
    OBVIOUS
<1> HIDE DEF t
<1>3. \A k \in 1 .. Len(s) : s[k] \in ToSet(s)
    BY <1>1 DEF ToSet
<1>4. IsInjective(t)
  <2> SUFFICES ASSUME NEW a \in DOMAIN t, NEW b \in DOMAIN t, t[a] = t[b]
               PROVE  a = b
      BY DEF IsInjective
  <2>1. CASE a \in 1 .. Len(s) /\ b \in 1 .. Len(s)
      BY <2>1, <1>1 DEF IsInjective
  <2>2. CASE a = Len(s) + 1 \/ b = Len(s) + 1
      BY <2>2, <1>1, <1>3
  <2> QED BY <2>1, <2>2, <1>1
<1>5. Ordered(t)
  <2> SUFFICES ASSUME NEW a \in DOMAIN t, NEW b \in DOMAIN t, a < b
               PROVE  Seq_(t[a]) <= Seq_(t[b])
      BY DEF Ordered
  <2>1. CASE b \in 1 .. Len(s)
      BY <2>1, <1>1 DEF Ordered
  <2>2. CASE b = Len(s) + 1
      BY <2>2, <1>1, <1>3
  <2> QED BY <2>1, <2>2, <1>1
<1>6. ToSet(t) = ToSet(s) \cup {id}
    BY <1>1 DEF ToSet
<1> QED BY <1>1, <1>2, <1>4, <1>5, <1>6 DEF t

LEMMA TailLane ==
    ASSUME NEW s \in Seq(Jobs), IsInjective(s), Ordered(s), s # <<>>
    PROVE  /\ Tail(s) \in Seq(Jobs) /\ IsInjective(Tail(s)) /\ Ordered(Tail(s))
           /\ Head(s) \in Jobs /\ Head(s) \in ToSet(s)
           /\ ToSet(Tail(s)) = ToSet(s) \ {Head(s)}
           /\ \A x \in ToSet(s) : Seq_(Head(s)) <= Seq_(x)
<1> DEFINE t == Tail(s)
<1>1. /\ t \in Seq(Jobs) /\ Len(t) = Len(s) - 1 /\ Len(s) \in Nat \ {0}
      /\ DOMAIN t = 1 .. (Len(s) - 1) /\ DOMAIN s = 1 .. Len(s)
      /\ \A k \in 1 .. (Len(s) - 1) : t[k] = s[k + 1]
      /\ Head(s) = s[1] /\ \A k \in DOMAIN s : s[k] \in Jobs
    OBVIOUS
<1> HIDE DEF t
<1>0. \A k \in DOMAIN t : k \in Nat /\ k + 1 \in DOMAIN s /\ t[k] = s[k + 1]
    BY <1>1
<1>2. IsInjective(t)
  <2> SUFFICES ASSUME NEW a \in DOMAIN t, NEW b \in DOMAIN t, t[a] = t[b]
               PROVE  a = b
      BY DEF IsInjective
  <2>1. a + 1 = b + 1
      BY <1>0 DEF IsInjective
  <2> QED BY <2>1, <1>0
<1>3. Ordered(t)
  <2> SUFFICES ASSUME NEW a \in DOMAIN t, NEW b \in DOMAIN t, a < b
               PROVE  Seq_(t[a]) <= Seq_(t[b])
      BY DEF Ordered
  <2>1. a + 1 < b + 1
      BY <1>0
  <2> QED BY <2>1, <1>0 DEF Ordered
<1>4. ToSet(t) = ToSet(s) \ {Head(s)}
  <2>1. ASSUME NEW x \in ToSet(t) PROVE x \in ToSet(s) \ {Head(s)}
    <3>1. PICK k \in 1 .. (Len(s) - 1) : x = s[k + 1]
        BY <2>1, <1>1 DEF ToSet
    <3>2. k + 1 \in DOMAIN s /\ 1 \in DOMAIN s /\ k + 1 # 1
        BY <1>1
    <3> QED BY <3>1, <3>2, <1>1 DEF ToSet, IsInjective
  <2>2. ASSUME NEW x \in ToSet(s), x # Head(s) PROVE x \in ToSet(t)
    <3>1. PICK k \in 1 .. Len(s) : x = s[k]
        BY <2>2, <1>1 DEF ToSet
    <3>2. k - 1 \in 1 .. (Len(s) - 1) /\ t[k - 1] = s[(k - 1) + 1]
        BY <3>1, <2>2, <1>1
    <3>3. (k - 1) + 1 = k
        OBVIOUS
    <3> QED BY <3>1, <3>2, <3>3, <1>1 DEF ToSet
  <2> QED BY <2>1, <2>2
<1>5. Head(s) \in Jobs /\ Head(s) \in ToSet(s)
    BY <1>1 DEF ToSet
<1>6. ASSUME NEW x \in ToSet(s) PROVE Seq_(Head(s)) <= Seq_(x)
  <2>1. PICK k \in 1 .. Len(s) : x = s[k]
      BY <1>6, <1>1 DEF ToSet
  <2>2. CASE k = 1
      BY <2>1, <2>2, <1>1, <1>5, JobFacts
  <2>3. CASE k # 1
      BY <2>1, <2>3, <1>1 DEF Ordered
  <2> QED BY <2>2, <2>3
<1> QED BY <1>1, <1>2, <1>3, <1>4, <1>5, <1>6 DEF t

LEMMA ConcatFacts ==
    ASSUME NEW S, NEW l \in Seq(S), NEW r \in Seq(S)
    PROVE  /\ l \o r \in Seq(S) /\ Len(l \o r) = Len(l) + Len(r)
           /\ DOMAIN (l \o r) = 1 .. (Len(l) + Len(r))
           /\ \A k \in 1 .. (Len(l) + Len(r)) :
                 (l \o r)[k] = IF k <= Len(l) THEN l[k] ELSE r[k - Len(l)]
OBVIOUS

LEMMA RemoveLane ==
    ASSUME NEW s \in Seq(Jobs), IsInjective(s), Ordered(s), NEW i \in DOMAIN s
    PROVE  /\ RemoveAt(s, i) \in Seq(Jobs) /\ IsInjective(RemoveAt(s, i))
           /\ Ordered(RemoveAt(s, i))
           /\ ToSet(RemoveAt(s, i)) = ToSet(s) \ {s[i]}
           /\ s[1] # s[i] => /\ RemoveAt(s, i) # <<>>
                             /\ Head(RemoveAt(s, i)) = Head(s)
<1> DEFINE t == RemoveAt(s, i)
           l == SubSeq(s, 1, i - 1)
           r == SubSeq(s, i + 1, Len(s))
<1>1. /\ Len(s) \in Nat /\ DOMAIN s = 1 .. Len(s) /\ i \in 1 .. Len(s)
      /\ \A k \in 1 .. Len(s) : s[k] \in Jobs
    OBVIOUS
<1>2. /\ l \in Seq(Jobs) /\ Len(l) = i - 1
      /\ \A k \in 1 .. (i - 1) : l[k] = s[k]
    BY <1>1
<1>3. /\ r \in Seq(Jobs) /\ Len(r) = Len(s) - i
      /\ \A k \in 1 .. (Len(s) - i) : r[k] = s[k + i]
    BY <1>1
<1> HIDE DEF l, r
<1>4. t = l \o r
    BY DEF RemoveAt, l, r
<1> HIDE DEF t
<1>5. /\ t \in Seq(Jobs) /\ Len(t) = Len(s) - 1
      /\ DOMAIN t = 1 .. (Len(s) - 1)
      /\ \A k \in 1 .. (i - 1) : t[k] = s[k]
      /\ \A k \in i .. (Len(s) - 1) : t[k] = s[k + 1]
  <2>0. (i - 1) + (Len(s) - i) = Len(s) - 1
      BY <1>1
  <2>1. /\ t \in Seq(Jobs) /\ Len(t) = Len(s) - 1
        /\ DOMAIN t = 1 .. (Len(s) - 1)
      BY <2>0, <1>2, <1>3, <1>4, ConcatFacts
  <2>2. ASSUME NEW k \in 1 .. (i - 1) PROVE t[k] = s[k]
    <3>1. k \in 1 .. (Len(l) + Len(r)) /\ k <= Len(l)
        BY <1>1, <1>2, <1>3
    <3> QED BY <3>1, <1>2, <1>3, <1>4, ConcatFacts
  <2>3. ASSUME NEW k \in i .. (Len(s) - 1) PROVE t[k] = s[k + 1]
    <3>1. /\ k - Len(l) \in 1 .. (Len(s) - i) /\ (k - Len(l)) + i = k + 1
          /\ k \in 1 .. (Len(l) + Len(r)) /\ ~(k <= Len(l))
        BY <1>1, <1>2, <1>3
    <3>2. t[k] = r[k - Len(l)]
        BY <3>1, <1>2, <1>3, <1>4, ConcatFacts
    <3> QED BY <3>1, <3>2, <1>3
  <2> QED BY <2>1, <2>2, <2>3
<1> DEFINE up(k) == IF k < i THEN k ELSE k + 1
<1>u. \A k \in DOMAIN t : /\ k \in Nat /\ up(k) \in DOMAIN s
                          /\ t[k] = s[up(k)]
    BY <1>1, <1>5
<1>v. \A a, b \in DOMAIN t : /\ a < b => up(a) < up(b)
                             /\ up(a) = up(b) => a = b
    BY <1>1, <1>5
<1> HIDE DEF up
<1>6. IsInjective(t)
    BY <1>u, <1>v DEF IsInjective
<1>7. Ordered(t)
    BY <1>u, <1>v DEF Ordered
<1>8. ToSet(t) = ToSet(s) \ {s[i]}
  <2>1. ASSUME NEW x \in ToSet(t) PROVE x \in ToSet(s) \ {s[i]}
    <3>1. PICK k \in 1 .. (Len(s) - 1) : x = t[k]
        BY <2>1, <1>5 DEF ToSet
    <3>2. CASE k < i
      <4>1. x = s[k] /\ k \in DOMAIN s /\ k # i
          BY <3>1, <3>2, <1>1, <1>5
      <4> QED BY <4>1, <1>1 DEF ToSet, IsInjective
    <3>3. CASE k >= i
      <4>1. x = s[k + 1] /\ k + 1 \in DOMAIN s /\ k + 1 # i
          BY <3>1, <3>3, <1>1, <1>5
      <4> QED BY <4>1, <1>1 DEF ToSet, IsInjective
    <3> QED BY <3>2, <3>3, <1>1
  <2>2. ASSUME NEW x \in ToSet(s), x # s[i] PROVE x \in ToSet(t)
    <3>1. PICK k \in 1 .. Len(s) : x = s[k]
        BY <2>2, <1>1 DEF ToSet
    <3>2. CASE k < i
        BY <3>1, <3>2, <1>1, <1>5 DEF ToSet
    <3>3. CASE k > i
      <4>1. k - 1 \in i .. (Len(s) - 1) /\ (k - 1) + 1 = k
          BY <3>3, <1>1
      <4>2. t[k - 1] = x /\ k - 1 \in DOMAIN t
          BY <4>1, <3>1, <1>1, <1>5
      <4> QED BY <4>2 DEF ToSet
    <3> QED BY <3>1, <3>2, <3>3, <2>2, <1>1
  <2> QED BY <2>1, <2>2
<1>9. ASSUME s[1] # s[i] PROVE t # <<>> /\ Head(t) = Head(s)
  <2>1. i > 1 /\ Len(s) > 1
      BY <1>9, <1>1
  <2>2. t[1] = s[1]
      BY <2>1, <1>1, <1>5
  <2> QED BY <2>1, <2>2, <1>1, <1>5
<1> QED BY <1>5, <1>6, <1>7, <1>8, <1>9 DEF t

-----------------------------------------------------------------------------
(* What cancelling the current job leaves.                                 *)

LEMMA CancelFacts ==
    ASSUME LaneInv
    PROVE  /\ AfterCancel \in [Jobs -> JobRecords]
           /\ LaneAfterCancel \in Seq(Jobs) /\ IsInjective(LaneAfterCancel)
           /\ Ordered(LaneAfterCancel)
           /\ ToSet(LaneAfterCancel) = {id \in Jobs : AfterCancel[id].st = "queued"}
           /\ ToSet(LaneAfterCancel) \subseteq ToSet(lane)
           /\ \A id \in Jobs : \/ AfterCancel[id] = jobs[id]
                               \/ id = current /\ Stoppable(id) /\ AfterCancel[id] = Ended
           /\ \A id \in Jobs : AfterCancel[id].st \notin {"posted", "delayed"}
           /\ running.at # "idle" => /\ LaneAfterCancel # <<>>
                                     /\ Head(LaneAfterCancel) = Head(lane)
                                     /\ AfterCancel[Head(lane)] = jobs[Head(lane)]
           /\ current # None /\ Stoppable(current) => AfterCancel[current] = Ended
<1> USE DEF LaneInv, LaneTypeOK
<1>e. Ended \in JobRecords /\ Ended.st = "over"
    BY DEF Ended, JobRecords, Styles
<1>n. None \notin Jobs
    BY PipelineAssumption
<1>1. CASE ~(current # None /\ Stoppable(current))
  <2>1. AfterCancel = jobs
      BY <1>1 DEF AfterCancel
  <2>2. LaneAfterCancel = lane
    <3>1. current = None => current \notin ToSet(lane)
        BY <1>n
    <3> QED BY <3>1, <1>1 DEF LaneAfterCancel
  <2>3. \A id \in Jobs : jobs[id].st \notin {"posted", "delayed"}
      BY <1>1, <1>n DEF JobsNumbered, Stoppable
  <2> QED BY <2>1, <2>2, <2>3, <1>1 DEF LaneOrdered
<1>2. CASE /\ current # None /\ Stoppable(current)
           /\ jobs[current].st \in {"posted", "delayed"}
  <2>1. AfterCancel = [jobs EXCEPT ![current] = Ended]
      BY <1>2 DEF AfterCancel
  <2>2. current \notin ToSet(lane) /\ LaneAfterCancel = lane
      BY <1>2 DEF LaneAfterCancel
  <2>3. running.at # "idle" => Head(lane) \in ToSet(lane)
      BY TailLane DEF LaneOrdered
  <2>4. \A id \in Jobs : AfterCancel[id].st \notin {"posted", "delayed"}
      BY <2>1, <1>e DEF JobsNumbered
  <2> QED BY <2>1, <2>2, <2>3, <2>4, <1>2, <1>e DEF LaneOrdered
<1>3. CASE /\ current # None /\ Stoppable(current)
           /\ jobs[current].st \notin {"posted", "delayed"}
  <2>1. AfterCancel = [jobs EXCEPT ![current] = Ended]
      BY <1>3 DEF AfterCancel
  <2>2. /\ current \in ToSet(lane)
        /\ lane[1] = current => running.at = "idle"
      BY <1>3 DEF Stoppable
  <2> DEFINE i == CHOOSE j \in DOMAIN lane : lane[j] = current
  <2>3. i \in DOMAIN lane /\ lane[i] = current
      BY <2>2 DEF ToSet
  <2>4. LaneAfterCancel = RemoveAt(lane, i)
      BY <1>3, <2>2 DEF LaneAfterCancel
  <2> HIDE DEF i
  <2>5. /\ LaneAfterCancel \in Seq(Jobs) /\ IsInjective(LaneAfterCancel)
        /\ Ordered(LaneAfterCancel)
        /\ ToSet(LaneAfterCancel) = ToSet(lane) \ {current}
        /\ lane[1] # current => /\ LaneAfterCancel # <<>>
                                /\ Head(LaneAfterCancel) = Head(lane)
      BY <2>3, <2>4, RemoveLane DEF LaneOrdered
  <2>6. \A id \in Jobs : AfterCancel[id].st \notin {"posted", "delayed"}
      BY <2>1, <1>e DEF JobsNumbered
  <2>7. running.at # "idle" => lane[1] # current /\ Head(lane) # current
      BY <2>2
  <2>8. ToSet(LaneAfterCancel) = {id \in Jobs : AfterCancel[id].st = "queued"}
      BY <2>1, <2>5, <1>e
  <2>9. running.at # "idle" => AfterCancel[Head(lane)] = jobs[Head(lane)]
      BY <2>7, <2>1, TailLane DEF LaneOrdered
  <2> QED BY <2>1, <2>5, <2>6, <2>7, <2>8, <2>9, <1>3, <1>e
<1> QED BY <1>1, <1>2, <1>3

(* A request that only cancels.                                            *)
LEMMA CancelKeeps ==
    ASSUME LaneInv, jobs' = AfterCancel, lane' = LaneAfterCancel,
           UNCHANGED <<sequenceId, completed, current, running>>
    PROVE  LaneInv'
<1>1. LaneTypeOK'
    BY CancelFacts DEF LaneInv, LaneTypeOK
<1>2. JobsNumbered'
  <2>1. ASSUME NEW id \in Jobs, AfterCancel[id].st # "none"
        PROVE  Seq_(id) <= sequenceId
    <3>1. CASE AfterCancel[id] = jobs[id]
        BY <2>1, <3>1 DEF LaneInv, JobsNumbered
    <3>2. CASE id = current
        BY <3>2, PipelineAssumption, JobFacts DEF LaneInv, LaneTypeOK, JobsNumbered
    <3> QED BY <3>1, <3>2, CancelFacts
  <2>2. current # None => Seq_(current) = sequenceId
      BY DEF LaneInv, JobsNumbered
  <2> QED BY <2>1, <2>2, CancelFacts DEF JobsNumbered
<1>3. LaneOrdered'
    BY CancelFacts DEF LaneInv, LaneOrdered
<1>4. OneEnsure'
  <2> SUFFICES ASSUME NEW k \in {"ensure", "again"}, NEW i \in Seqs,
                      i = sequenceId', jobs'[<<i, k>>].st = "queued"
               PROVE  \/ current' = <<i, k>>
                      \/ running'.at # "idle" /\ Head(lane') = <<i, k>>
      BY Zenon DEF OneEnsure, Runs
  <2>1. <<i, k>> \in Jobs /\ Ended.st # "queued"
      BY DEF Jobs, Kinds, Ended
  <2>2. jobs[<<i, k>>].st = "queued"
      BY <2>1, CancelFacts
  <2>3. current = <<i, k>> \/ Runs(<<i, k>>)
      BY <2>2 DEF LaneInv, OneEnsure
  <2> QED BY <2>3, CancelFacts DEF Runs
<1> QED BY <1>1, <1>2, <1>3, <1>4 DEF LaneInv

LEMMA LaunchKeeps ==
    ASSUME LaneInv, sequenceId < MaxSeq,
           NEW style \in Styles, NEW posted \in BOOLEAN, Launch(style, posted),
           UNCHANGED <<completed, running>>
    PROVE  /\ LaneInv' /\ sequenceId' = sequenceId + 1
           /\ running.at # "idle" => Head(lane') = Head(lane)
           /\ \A id \in Jobs : jobs[id].st # "none" =>
                 \/ jobs'[id] = jobs[id]
                 \/ id = current /\ Stoppable(id) /\ jobs'[id] = Ended
<1> DEFINE new == <<sequenceId + 1, "update">>
           st == IF posted THEN "posted"
                 ELSE IF style = "typing" THEN "delayed" ELSE "queued"
<1>1. /\ sequenceId \in Nat /\ sequenceId + 1 \in Seqs /\ completed \in 0 .. sequenceId
      /\ new \in Jobs /\ Seq_(new) = sequenceId + 1 /\ Kind(new) = "update"
    BY PipelineAssumption DEF LaneInv, LaneTypeOK, Seqs, Jobs, Kinds, Seq_, Kind
<1>2. /\ sequenceId' = sequenceId + 1 /\ current' = new
      /\ jobs' = [AfterCancel EXCEPT ![new] = [st |-> st, style |-> style]]
      /\ lane' = IF st = "queued" THEN Append(LaneAfterCancel, new) ELSE LaneAfterCancel
    BY DEF Launch
<1> DEFINE rec == [st |-> st, style |-> style]
<1>3. /\ rec \in JobRecords /\ rec.st = st
      /\ st \in {"posted", "delayed", "queued"}
    BY DEF JobRecords
<1> HIDE DEF new, st, rec
<1>4. jobs[new].st = "none" /\ AfterCancel[new].st = "none" /\ new # current
  <2>1. ~(Seq_(new) <= sequenceId)
      BY <1>1
  <2>2. new # current
      BY <2>1, <1>1, PipelineAssumption DEF LaneInv, JobsNumbered
  <2>3. jobs[new].st = "none"
      BY <2>1, <1>1 DEF LaneInv, JobsNumbered
  <2> QED BY <2>2, <2>3, <1>1, CancelFacts
<1>5. \A id \in Jobs : id # new => jobs'[id] = AfterCancel[id]
    BY <1>2, CancelFacts
<1>6. jobs'[new] = rec
    BY <1>1, <1>2, CancelFacts DEF rec
<1>7. \A x \in ToSet(lane) : x \in Jobs /\ Seq_(x) <= sequenceId
    BY DEF LaneInv, LaneTypeOK, JobsNumbered
<1>8. new \notin ToSet(LaneAfterCancel)
    BY <1>4, CancelFacts
<1>9. /\ lane' \in Seq(Jobs) /\ IsInjective(lane') /\ Ordered(lane')
      /\ ToSet(lane') = {id \in Jobs : jobs'[id].st = "queued"}
      /\ running.at # "idle" => lane' # <<>> /\ Head(lane') = Head(lane)
  <2>1. CASE st = "queued"
    <3>1. \A x \in ToSet(LaneAfterCancel) : Seq_(x) <= Seq_(new)
        BY <1>1, <1>7, CancelFacts, JobFacts DEF Seqs
    <3>2. /\ lane' \in Seq(Jobs) /\ IsInjective(lane') /\ Ordered(lane')
          /\ ToSet(lane') = ToSet(LaneAfterCancel) \cup {new} /\ lane' # <<>>
          /\ LaneAfterCancel # <<>> => Head(lane') = Head(LaneAfterCancel)
        BY <2>1, <3>1, <1>1, <1>2, <1>8, CancelFacts, AppendLane
    <3> QED BY <3>2, <2>1, <1>1, <1>3, <1>4, <1>5, <1>6, CancelFacts
  <2>2. CASE st # "queued"
      BY <2>2, <1>1, <1>2, <1>3, <1>4, <1>5, <1>6, CancelFacts
  <2> QED BY <2>1, <2>2
<1>10. LaneTypeOK'
  <2>1. jobs' \in [Jobs -> JobRecords]
      BY <1>2, <1>3, CancelFacts DEF rec
  <2>2. sequenceId' \in 0 .. MaxSeq /\ completed' \in 0 .. sequenceId'
      BY <1>1, <1>2 DEF Seqs
  <2> QED BY <2>1, <2>2, <1>1, <1>2, <1>9 DEF LaneInv, LaneTypeOK
<1>11. JobsNumbered'
  <2>1. ASSUME NEW id \in Jobs, jobs'[id].st # "none" PROVE Seq_(id) <= sequenceId'
    <3>1. CASE id = new
        BY <3>1, <1>1, <1>2
    <3>2. CASE id # new /\ jobs[id].st # "none"
        BY <3>2, <1>1, <1>2, JobFacts DEF LaneInv, JobsNumbered, Seqs
    <3>3. CASE id = current
        BY <3>3, <1>1, <1>2, PipelineAssumption DEF LaneInv, JobsNumbered
    <3> QED BY <3>1, <3>2, <3>3, <2>1, <1>5, CancelFacts
  <2>2. Seq_(current') = sequenceId'
      BY <1>1, <1>2
  <2>3. \A id \in Jobs : jobs'[id].st \in {"posted", "delayed"} => id = current'
      BY <1>2, <1>5, CancelFacts
  <2> QED BY <2>1, <2>2, <2>3 DEF JobsNumbered
<1>12. LaneOrdered'
  <2>1. \A x \in ToSet(lane') : x \in ToSet(lane) \/ x = new
      BY <1>9, <1>5, CancelFacts
  <2>2. completed <= Seq_(new)
      BY <1>1
  <2> QED BY <2>1, <2>2, <1>9 DEF LaneInv, LaneOrdered
<1>13. OneEnsure'
  <2> SUFFICES ASSUME NEW k \in {"ensure", "again"},
                      jobs'[<<sequenceId + 1, k>>].st = "queued"
               PROVE  FALSE
      BY <1>2 DEF OneEnsure
  <2>1. /\ <<sequenceId + 1, k>> \in Jobs /\ <<sequenceId + 1, k>> # new
        /\ Seq_(<<sequenceId + 1, k>>) = sequenceId + 1
      BY <1>1 DEF Jobs, Kinds, Seq_, new
  <2>2. <<sequenceId + 1, k>> \in ToSet(lane)
      BY <2>1, <1>5, <1>9, CancelFacts
  <2> QED BY <2>1, <2>2, <1>1, <1>7
<1>14. ASSUME NEW id \in Jobs, jobs[id].st # "none"
       PROVE  \/ jobs'[id] = jobs[id]
              \/ id = current /\ Stoppable(id) /\ jobs'[id] = Ended
    BY <1>14, <1>4, <1>5, CancelFacts
<1> QED BY <1>2, <1>9, <1>10, <1>11, <1>12, <1>13, <1>14 DEF LaneInv

(* Handing over a job that was posted or delayed.                          *)
LEMMA DispatchKeeps ==
    ASSUME LaneInv, NEW id \in Jobs, Dispatch(id)
    PROVE  LaneInv' /\ (running.at # "idle" => Head(lane') = Head(lane))
<1>1. /\ id = current /\ Seq_(id) = sequenceId /\ id \notin ToSet(lane)
      /\ lane' = Append(lane, id) /\ jobs' = [jobs EXCEPT ![id].st = "queued"]
      /\ UNCHANGED <<sequenceId, completed, current, running>>
      /\ sequenceId \in Nat /\ completed <= sequenceId
    BY PipelineAssumption DEF Dispatch, LaneInv, LaneTypeOK, JobsNumbered
<1>2. \A x \in ToSet(lane) : Seq_(x) <= Seq_(id)
    BY <1>1 DEF LaneInv, LaneTypeOK, JobsNumbered
<1>3. /\ lane' \in Seq(Jobs) /\ IsInjective(lane') /\ Ordered(lane')
      /\ ToSet(lane') = ToSet(lane) \cup {id} /\ lane' # <<>>
      /\ lane # <<>> => Head(lane') = Head(lane)
    BY <1>1, <1>2, AppendLane DEF LaneInv, LaneTypeOK, LaneOrdered
<1>4. /\ jobs' \in [Jobs -> JobRecords] /\ jobs'[id].st = "queued"
      /\ \A x \in Jobs : x # id => jobs'[x] = jobs[x]
    BY <1>1 DEF LaneInv, LaneTypeOK, JobRecords
<1>5. LaneTypeOK'
    BY <1>1, <1>3, <1>4 DEF LaneInv, LaneTypeOK
<1>6. JobsNumbered'
  <2>1. ASSUME NEW x \in Jobs, jobs'[x].st # "none" PROVE Seq_(x) <= sequenceId
      BY <2>1, <1>1, <1>4 DEF LaneInv, JobsNumbered
  <2> QED BY <2>1, <1>1, <1>4 DEF LaneInv, JobsNumbered
<1>7. LaneOrdered'
    BY <1>1, <1>3 DEF LaneInv, LaneOrdered
<1>8. OneEnsure'
  <2> SUFFICES ASSUME NEW k \in {"ensure", "again"}, NEW i \in Seqs, i = sequenceId,
                      jobs'[<<i, k>>].st = "queued", <<i, k>> # id
               PROVE  running.at # "idle" /\ Head(lane') = <<i, k>>
      BY <1>1 DEF OneEnsure, Runs
  <2>1. <<i, k>> \in Jobs
      BY DEF Jobs, Kinds
  <2>2. running.at # "idle" /\ Head(lane) = <<i, k>>
      BY <2>1, <1>1, <1>4 DEF LaneInv, OneEnsure, Runs
  <2> QED BY <2>2, <1>3 DEF LaneInv, LaneTypeOK
<1> QED BY <1>3, <1>5, <1>6, <1>7, <1>8 DEF LaneInv, LaneTypeOK

(* The first job leaves dictionaryScope.                                   *)
LEMMA LeaveKeeps ==
    ASSUME LaneInv, lane # <<>>, Leave(Head(lane)), UNCHANGED <<sequenceId, current>>,
           completed' \in {completed, Seq_(Head(lane))}
    PROVE  LaneInv'
<1> DEFINE h == Head(lane)
<1>1. /\ lane \in Seq(Jobs) /\ IsInjective(lane) /\ Ordered(lane)
      /\ jobs' = [jobs EXCEPT ![h] = Ended] /\ lane' = Tail(lane) /\ running' = NoRun
      /\ Ended \in JobRecords /\ Ended.st = "over"
      /\ NoRun.at = "idle" /\ NoRun.res = 0
    BY DEF Leave, LaneInv, LaneTypeOK, LaneOrdered, Ended, JobRecords, Styles, NoRun
<1>2. /\ lane' \in Seq(Jobs) /\ IsInjective(lane') /\ Ordered(lane')
      /\ h \in Jobs /\ h \in ToSet(lane)
      /\ ToSet(lane') = ToSet(lane) \ {h}
      /\ \A x \in ToSet(lane) : Seq_(h) <= Seq_(x)
    BY <1>1, TailLane
<1>3. running' \in [at : {"idle", "read", "test", "show", "apply", "done"}, res : Shown]
    BY PipelineAssumption, <1>1 DEF Shown, NoRun
<1> HIDE DEF h
<1>4. /\ jobs' \in [Jobs -> JobRecords]
      /\ \A x \in Jobs : x # h => jobs'[x] = jobs[x]
      /\ jobs'[h].st = "over" /\ jobs[h].st = "queued"
    BY <1>1, <1>2 DEF LaneInv, LaneTypeOK
<1>5. Seq_(h) \in 0 .. sequenceId
    BY <1>2, <1>4, JobFacts DEF LaneInv, LaneTypeOK, JobsNumbered
<1>6. LaneTypeOK'
  <2>1. ToSet(lane') = {id \in Jobs : jobs'[id].st = "queued"}
      BY <1>2, <1>4 DEF LaneInv, LaneTypeOK
  <2> QED BY <2>1, <1>1, <1>2, <1>3, <1>4, <1>5 DEF LaneInv, LaneTypeOK, h
<1>7. JobsNumbered'
    BY <1>2, <1>4 DEF LaneInv, JobsNumbered
<1>8. LaneOrdered'
    BY <1>2 DEF LaneInv, LaneOrdered, h
<1>9. OneEnsure'
  <2> SUFFICES ASSUME NEW k \in {"ensure", "again"}, NEW i \in Seqs, i = sequenceId,
                      jobs'[<<i, k>>].st = "queued"
               PROVE  current = <<i, k>>
      BY DEF OneEnsure
  <2>1. <<i, k>> \in Jobs
      BY DEF Jobs, Kinds
  <2> QED BY <2>1, <1>4 DEF LaneInv, OneEnsure, Runs, h
<1> QED BY <1>6, <1>7, <1>8, <1>9 DEF LaneInv

(* The first job goes on.                                                  *)
LEMMA RunKeeps ==
    ASSUME LaneInv, lane # <<>>,
           running' \in [at : {"read", "test", "show", "apply", "done"}, res : Shown],
           UNCHANGED <<sequenceId, completed, jobs, current, lane>>
    PROVE  LaneInv'
<1>1. LaneTypeOK'
    BY DEF LaneInv, LaneTypeOK
<1>2. JobsNumbered' /\ LaneOrdered'
    BY DEF LaneInv, JobsNumbered, LaneOrdered
<1>3. OneEnsure'
    BY DEF LaneInv, OneEnsure, Runs
<1> QED BY <1>1, <1>2, <1>3 DEF LaneInv

LEMMA StillKeeps ==
    ASSUME LaneInv,
           UNCHANGED <<sequenceId, completed, jobs, current, lane, running>>
    PROVE  LaneInv'
BY DEF LaneInv, LaneTypeOK, JobsNumbered, LaneOrdered, OneEnsure, Runs

(* ensureSuggestionsCompleted starts a job under a name that is free.      *)
LEMMA EnsureKeeps ==
    ASSUME LaneInv, MainTypeOK, Ensure, completed < sequenceId
    PROVE  /\ LaneInv'
           /\ running.at # "idle" => Head(lane') = Head(lane)
           /\ main'.job \in Jobs /\ current' = main'.job
           /\ Seq_(main'.job) = sequenceId /\ Kind(main'.job) # "update"
           /\ jobs'[main'.job] = [st |-> "queued", style |-> "typing"]
           /\ main' = [at |-> "wait", cut |-> main.cut, batch |-> main.batch,
                       job |-> main'.job]
<1> DEFINE e == <<sequenceId, "ensure">>
           a == <<sequenceId, "again">>
           new == <<sequenceId, IF AfterCancel[e].st = "queued" THEN "again" ELSE "ensure">>
           rec == [st |-> "queued", style |-> "typing"]
<1>1. /\ jobs' = [AfterCancel EXCEPT ![new] = rec]
      /\ lane' = Append(LaneAfterCancel, new) /\ current' = new
      /\ main' = [at |-> "wait", cut |-> main.cut, batch |-> main.batch, job |-> new]
      /\ UNCHANGED <<sequenceId, completed, running>>
  <2>1. ~(completed >= sequenceId)
      BY PipelineAssumption DEF LaneInv, LaneTypeOK
  <2> QED BY <2>1, Zenon DEF Ensure
<1>2. /\ sequenceId \in Seqs /\ sequenceId \in Nat /\ completed \in 0 .. sequenceId
      /\ e \in Jobs /\ a \in Jobs /\ e # a /\ Seq_(e) = sequenceId /\ Seq_(a) = sequenceId
      /\ Kind(e) = "ensure" /\ Kind(a) = "again"
      /\ rec \in JobRecords /\ rec.st = "queued"
      /\ new = IF AfterCancel[e].st = "queued" THEN a ELSE e
    BY PipelineAssumption
       DEF LaneInv, LaneTypeOK, Seqs, Jobs, Kinds, Seq_, Kind, JobRecords, Styles
<1>3. \A k \in {"ensure", "again"} :
         AfterCancel[<<sequenceId, k>>].st = "queued" => Runs(<<sequenceId, k>>)
  <2> SUFFICES ASSUME NEW k \in {"ensure", "again"},
                      AfterCancel[<<sequenceId, k>>].st = "queued"
               PROVE  Runs(<<sequenceId, k>>)
      OBVIOUS
  <2> DEFINE x == <<sequenceId, k>>
  <2>1. x \in Jobs /\ Kind(x) # "update"
      BY <1>2 DEF Jobs, Kinds, Kind
  <2>2. Ended.st # "queued"
      BY DEF Ended
  <2>3. jobs[x].st = "queued" /\ ~(current # None /\ Stoppable(current) /\ x = current)
      BY <2>1, <2>2, CancelFacts
  <2>4. current = x \/ Runs(x)
      BY <2>3, <1>2 DEF LaneInv, OneEnsure
  <2>5. CASE current = x
    <3>1. lane[1] = x /\ running.at # "idle"
        BY <2>1, <2>3, <2>5, PipelineAssumption DEF Stoppable
    <3> QED BY <3>1 DEF Runs
  <2> QED BY <2>4, <2>5
<1>4. /\ new \in Jobs /\ Seq_(new) = sequenceId /\ Kind(new) # "update"
      /\ AfterCancel[new].st # "queued"
    BY <1>2, <1>3 DEF Runs
<1>5. new \notin ToSet(LaneAfterCancel)
    BY <1>4, CancelFacts
<1>6. \A x \in ToSet(lane) : x \in Jobs /\ Seq_(x) <= sequenceId
    BY DEF LaneInv, LaneTypeOK, JobsNumbered
<1> HIDE DEF new, rec
<1>7. /\ lane' \in Seq(Jobs) /\ IsInjective(lane') /\ Ordered(lane')
      /\ ToSet(lane') = ToSet(LaneAfterCancel) \cup {new} /\ lane' # <<>>
      /\ LaneAfterCancel # <<>> => Head(lane') = Head(LaneAfterCancel)
    BY <1>1, <1>4, <1>5, <1>6, CancelFacts, AppendLane
<1>8. /\ jobs' \in [Jobs -> JobRecords] /\ jobs'[new] = rec
      /\ \A x \in Jobs : x # new => jobs'[x] = AfterCancel[x]
    BY <1>1, <1>2, <1>4, CancelFacts
<1>9. running.at # "idle" => lane' # <<>> /\ Head(lane') = Head(lane)
    BY <1>7, CancelFacts
<1>10. LaneTypeOK'
  <2>1. ToSet(lane') = {id \in Jobs : jobs'[id].st = "queued"}
      BY <1>2, <1>4, <1>7, <1>8, CancelFacts
  <2> QED BY <2>1, <1>1, <1>4, <1>7, <1>8 DEF LaneInv, LaneTypeOK
<1>11. JobsNumbered'
  <2>1. ASSUME NEW id \in Jobs, jobs'[id].st # "none" PROVE Seq_(id) <= sequenceId
    <3>1. CASE id = new
        BY <3>1, <1>2, <1>4
    <3>2. CASE jobs[id].st # "none"
        BY <3>2 DEF LaneInv, JobsNumbered
    <3>3. CASE id = current
        BY <3>3, <1>2, PipelineAssumption DEF LaneInv, JobsNumbered
    <3> QED BY <3>1, <3>2, <3>3, <2>1, <1>8, CancelFacts
  <2>2. \A id \in Jobs : jobs'[id].st \in {"posted", "delayed"} => id = current'
      BY <1>1, <1>8, CancelFacts
  <2> QED BY <2>1, <2>2, <1>1, <1>4 DEF JobsNumbered
<1>12. LaneOrdered'
  <2>1. ASSUME NEW x \in ToSet(lane') PROVE completed <= Seq_(x)
    <3>1. CASE x = new
        BY <3>1, <1>2, <1>4
    <3>2. CASE x \in ToSet(lane)
        BY <3>2 DEF LaneInv, LaneOrdered
    <3> QED BY <2>1, <3>1, <3>2, <1>7, CancelFacts
  <2> QED BY <2>1, <1>1, <1>7 DEF LaneOrdered
<1>13. OneEnsure'
  <2> SUFFICES ASSUME NEW k \in {"ensure", "again"}, NEW i \in Seqs, i = sequenceId,
                      jobs'[<<i, k>>].st = "queued", <<i, k>> # new
               PROVE  running.at # "idle" /\ Head(lane') = <<i, k>>
      BY <1>1 DEF OneEnsure, Runs
  <2>1. <<i, k>> \in Jobs
      BY DEF Jobs, Kinds
  <2>2. Runs(<<i, k>>)
      BY <2>1, <1>3, <1>8
  <2> QED BY <2>2, <1>9 DEF Runs
<1> QED BY <1>1, <1>4, <1>8, <1>9, <1>10, <1>11, <1>12, <1>13 DEF LaneInv, rec

-----------------------------------------------------------------------------
(* The handlers.                                                           *)

LEMMA ComposerFacts ==
    ASSUME composer \in ComposerRecords
    PROVE  /\ Cleared \in ComposerRecords
           /\ Cleared.word = 0 /\ Cleared.batch = FALSE /\ Cleared.auto = None
           /\ \A w \in 0 .. MaxWord, m \in BOOLEAN :
                 /\ Composing(w, m) \in ComposerRecords
                 /\ Composing(w, m).word = w /\ Composing(w, m).batch = FALSE
                 /\ Composing(w, m).auto = None
<1>1. /\ 0 \in 0 .. MaxWord /\ None \in Shown
    BY PipelineAssumption DEF Shown
<1>2. /\ Cleared \in ComposerRecords
      /\ Cleared.word = 0 /\ Cleared.batch = FALSE /\ Cleared.auto = None
    BY <1>1 DEF Cleared, ComposerRecords
<1>3. ASSUME NEW w \in 0 .. MaxWord, NEW m \in BOOLEAN
      PROVE  /\ Composing(w, m) \in ComposerRecords
             /\ Composing(w, m).word = w /\ Composing(w, m).batch = FALSE
             /\ Composing(w, m).auto = None
  <2>1. (m /\ w # 0) \in BOOLEAN
      OBVIOUS
  <2> QED BY <2>1, <1>2 DEF Composing, ComposerRecords
<1> QED BY <1>2, <1>3

LEMMA MainFacts ==
    ASSUME MainTypeOK
    PROVE  /\ main.at \in {"idle", "request", "ensure", "wait", "commit", "giveUp",
                           "refresh"}
           /\ main.at = "request" => main.style \in Styles
           /\ Committing => main.cut \in BOOLEAN /\ main.batch \in BOOLEAN
           /\ main.at \in {"wait", "giveUp"} => main.job \in Jobs
           /\ main.at = "refresh" => main.words \in Shown
BY DEF MainTypeOK, Idle, Committing

LEMMA IdleMain ==
    /\ Idle.at = "idle"
    /\ main' = Idle => MainTypeOK' /\ Owed' = 0
    /\ \A s \in Styles : main' = [at |-> "request", style |-> s] =>
          MainTypeOK' /\ Owed' = 1
    /\ \A c, b \in BOOLEAN : main' = [at |-> "ensure", cut |-> c, batch |-> b] =>
          MainTypeOK' /\ Owed' = IF b THEN 0 ELSE 1
BY DEF Idle, MainTypeOK, Owed, Committing

LEMMA OwedRange == Owed \in {0, 1}
BY DEF Owed

(* A handler that touches neither the jobs nor the messages.               *)
LEMMA QuietFits ==
    ASSUME LaneInv, HandlerTypeOK, NumbersFit, UNCHANGED <<sequenceId, inbox>>,
           Owed' <= Owed \/ (sequenceId + Len(inbox) < MaxSeq /\ Owed' <= 1)
    PROVE  NumbersFit'
<1>1. sequenceId \in Nat /\ Len(inbox) \in Nat /\ Owed \in {0, 1} /\ Owed' \in {0, 1}
    BY OwedRange DEF LaneInv, LaneTypeOK, HandlerTypeOK, Owed
<1> QED BY <1>1, PipelineAssumption DEF NumbersFit

LEMMA EditKeeps ==
    ASSUME PipelineInv, Edit PROVE PipelineInv'
<1> USE DEF PipelineInv
<1>1. LaneInv'
    BY StillKeeps DEF Edit
<1>2. PICK w \in Contents : Compose(w, FALSE)
    BY DEF Edit
<1>3. /\ w \in 0 .. MaxWord /\ fresh' \in 0 .. MaxWord
    BY <1>2, PipelineAssumption DEF Edit, Room, Contents, Compose, HandlerTypeOK
<1>4. composer' \in ComposerRecords /\ raced' \in BOOLEAN
    BY <1>2, <1>3, ComposerFacts DEF Compose, HandlerTypeOK
<1>5. MainTypeOK' /\ Owed' = 1
    BY IdleMain DEF Edit, Styles
<1>6. strip' \in Shown
    BY DEF Edit, Shown, HandlerTypeOK
<1>7. HandlerTypeOK'
    BY <1>3, <1>4, <1>5, <1>6 DEF Edit, HandlerTypeOK
<1>8. NumbersFit'
    BY <1>5, QuietFits DEF Edit, Room, MoreSeq
<1> QED BY <1>1, <1>7, <1>8

LEMMA RestartKeeps ==
    ASSUME PipelineInv, Restart
    PROVE  /\ composer' \in ComposerRecords /\ raced' = FALSE
           /\ fresh' \in 0 .. MaxWord /\ strip' \in Shown /\ MainTypeOK'
           /\ composer'.word = 0 \/ main'.at = "request"
           /\ composer'.batch = FALSE
           /\ main'.at \in {"idle", "request"}
           /\ Owed' \in {0, 1} /\ Owed' <= 1
<1> USE DEF PipelineInv
<1>1. strip' \in Shown
    BY DEF Restart, Shown
<1>2. CASE gesture = None
  <2>1. PICK w \in Contents, m \in BOOLEAN : Compose(w, m)
      BY <1>2 DEF Restart
  <2>2. w \in 0 .. MaxWord /\ fresh' \in 0 .. MaxWord
      BY <2>1, PipelineAssumption DEF Restart, Room, Contents, Compose, HandlerTypeOK
  <2>3. main' = [at |-> "request", style |-> "typing"]
      BY <1>2 DEF Restart
  <2>4. MainTypeOK' /\ Owed' = 1 /\ main'.at = "request"
      BY <2>3, IdleMain DEF Styles
  <2>5. Owed' \in {0, 1} /\ Owed' <= 1
      BY <2>4
  <2>6. composer' = Composing(w, m) /\ raced' = FALSE
      BY <2>1 DEF Compose
  <2>7. composer' \in ComposerRecords /\ composer'.batch = FALSE
      BY <2>2, <2>6, ComposerFacts DEF HandlerTypeOK
  <2> QED BY <1>1, <2>2, <2>4, <2>5, <2>6, <2>7
<1>3. CASE gesture # None
  <2>1. Compose(0, FALSE) /\ main' = main
      BY <1>3 DEF Restart
  <2>2. 0 \in 0 .. MaxWord
      BY PipelineAssumption
  <2>3. MainTypeOK' /\ main'.at = "idle" /\ Owed' = 0
      BY <2>1 DEF Restart, HandlerTypeOK, MainTypeOK, Owed, Committing
  <2>4. Owed' \in {0, 1} /\ Owed' <= 1
      BY <2>3
  <2>5. composer' = Composing(0, FALSE) /\ raced' = FALSE /\ fresh' = fresh
      BY <2>1 DEF Compose
  <2>6. composer' \in ComposerRecords /\ composer'.batch = FALSE /\ composer'.word = 0
      BY <2>2, <2>5, ComposerFacts DEF HandlerTypeOK
  <2> QED BY <1>1, <2>3, <2>4, <2>5, <2>6 DEF HandlerTypeOK
<1> QED BY <1>2, <1>3

LEMMA MoveKeeps ==
    ASSUME PipelineInv, Move PROVE PipelineInv'
<1> USE DEF PipelineInv, Move
<1>1. LaneInv'
    BY StillKeeps DEF Restart
<1>r. /\ composer' \in ComposerRecords /\ raced' = FALSE
      /\ fresh' \in 0 .. MaxWord /\ strip' \in Shown /\ MainTypeOK'
      /\ Owed' <= 1
    BY RestartKeeps
<1>2. HandlerTypeOK'
    BY <1>r DEF Restart, HandlerTypeOK
<1>3. NumbersFit'
    BY <1>r, QuietFits DEF Restart, Room, MoreSeq
<1> QED BY <1>1, <1>2, <1>3

LEMMA NewFieldKeeps ==
    ASSUME PipelineInv, NewField PROVE PipelineInv'
<1> USE DEF PipelineInv, NewField
<1>1. LaneInv'
    BY CancelKeeps DEF Restart
<1>r. /\ composer' \in ComposerRecords /\ raced' = FALSE
      /\ fresh' \in 0 .. MaxWord /\ strip' \in Shown /\ MainTypeOK'
      /\ Owed' <= 1 /\ Owed' \in {0, 1}
    BY RestartKeeps
<1>2. HandlerTypeOK'
  <2>1. inbox' \in Seq({"update", "tail"})
      OBVIOUS
  <2> QED BY <2>1, <1>r DEF Restart, HandlerTypeOK
<1>3. NumbersFit'
  <2>1. /\ sequenceId' = sequenceId /\ sequenceId \in Nat /\ Len(inbox) \in Nat
        /\ Len(inbox') = 0 /\ sequenceId + Len(inbox) < MaxSeq
      BY DEF Restart, Room, MoreSeq, LaneInv, LaneTypeOK, HandlerTypeOK
  <2>2. sequenceId < MaxSeq /\ MaxSeq \in Nat
      BY <2>1, PipelineAssumption
  <2>3. Owed' = 0 \/ Owed' = 1
      BY <1>r
  <2>4. sequenceId' \in Nat /\ sequenceId' < MaxSeq
      BY <2>1, <2>2
  <2>5. sequenceId' + Len(inbox') + Owed' <= MaxSeq
    <3>1. CASE Owed' = 0
        BY <3>1, <2>1, <2>2, <2>4
    <3>2. CASE Owed' = 1
        BY <3>2, <2>1, <2>2, <2>4
    <3> QED BY <3>1, <3>2, <2>3
  <2> QED BY <2>5 DEF NumbersFit
<1> QED BY <1>1, <1>2, <1>3

LEMMA PickKeeps ==
    ASSUME PipelineInv, Pick PROVE PipelineInv'
<1> USE DEF PipelineInv
<1>1. LaneInv'
    BY StillKeeps DEF Pick
<1>2. MainTypeOK' /\ Owed' = 1
    BY IdleMain DEF Pick, Styles
<1>3. HandlerTypeOK'
    BY <1>2, ComposerFacts DEF Pick, HandlerTypeOK
<1>4. NumbersFit'
    BY <1>2, QuietFits DEF Pick, MoreSeq
<1> QED BY <1>1, <1>3, <1>4

LEMMA SeparatorKeeps ==
    ASSUME PipelineInv, Separator PROVE PipelineInv'
<1> USE DEF PipelineInv
<1>1. LaneInv'
    BY StillKeeps DEF Separator
<1>2. MainTypeOK' /\ Owed' = 1
    BY IdleMain DEF Separator, Styles
<1>3. HandlerTypeOK'
  <2>1. CASE composer.mid
    <3>1. PICK w \in Contents : Compose(w, FALSE) /\ strip' = None /\ fresh < MaxWord
        BY <2>1 DEF Separator
    <3>2. w \in 0 .. MaxWord /\ fresh' \in 0 .. MaxWord
        BY <3>1, PipelineAssumption DEF Contents, Compose, HandlerTypeOK
    <3>3. composer' \in ComposerRecords /\ raced' \in BOOLEAN /\ strip' \in Shown
        BY <3>1, <3>2, ComposerFacts DEF Compose, HandlerTypeOK, Shown
    <3> QED BY <3>2, <3>3, <1>2 DEF Separator, HandlerTypeOK
  <2>2. CASE ~composer.mid
      BY <2>2, <1>2 DEF Separator, HandlerTypeOK
  <2> QED BY <2>1, <2>2
<1>4. NumbersFit'
    BY <1>2, QuietFits DEF Separator, MoreSeq
<1> QED BY <1>1, <1>3, <1>4

LEMMA StartBatchKeeps ==
    ASSUME PipelineInv, StartBatch PROVE PipelineInv'
<1> USE DEF PipelineInv
<1>1. LaneInv'
    BY StillKeeps DEF StartBatch
<1>2. MainTypeOK' /\ Owed' = 0
  <2>1. CASE composer.word # 0 /\ ~composer.mid
      BY <2>1, IdleMain DEF StartBatch
  <2>2. CASE ~(composer.word # 0 /\ ~composer.mid)
      BY <2>2 DEF StartBatch, MainTypeOK, HandlerTypeOK, Owed, Committing
  <2> QED BY <2>1, <2>2
<1>3. HandlerTypeOK'
  <2>1. /\ fresh' \in 0 .. MaxWord /\ gesture' \in Words
      BY PipelineAssumption DEF StartBatch, Room, Words, HandlerTypeOK
  <2>2. composer' \in ComposerRecords /\ raced' \in BOOLEAN
      BY ComposerFacts DEF StartBatch, HandlerTypeOK
  <2>3. strip' \in Shown
      BY DEF StartBatch, Shown
  <2> QED BY <2>1, <2>2, <2>3, <1>2 DEF StartBatch, HandlerTypeOK
<1>4. NumbersFit'
    BY <1>2, QuietFits, OwedRange DEF StartBatch
<1> QED BY <1>1, <1>3, <1>4

LEMMA BatchKeeps ==
    ASSUME PipelineInv, NEW style \in {"update", "tail"}, Batch(style) PROVE PipelineInv'
<1> USE DEF PipelineInv
<1>1. LaneInv'
    BY StillKeeps DEF Batch
<1>2. MainTypeOK' /\ Owed' = 0
    BY DEF Batch, HandlerTypeOK, MainTypeOK, Owed, Committing
<1>3. HandlerTypeOK'
  <2>1. gesture \in 0 .. MaxWord
      BY DEF Batch, HandlerTypeOK, Words
  <2>2. composer' \in ComposerRecords
      BY <2>1 DEF Batch, HandlerTypeOK, ComposerRecords
  <2>3. gesture' \in Words \cup {None}
      BY DEF Batch, HandlerTypeOK
  <2> QED BY <2>2, <2>3, <1>2 DEF Batch, HandlerTypeOK
<1>4. NumbersFit'
  <2>1. /\ sequenceId' = sequenceId /\ sequenceId \in Nat /\ Len(inbox) \in Nat
        /\ Len(inbox') = Len(inbox) + 1 /\ sequenceId + Len(inbox) < MaxSeq
      BY DEF Batch, MoreSeq, LaneInv, LaneTypeOK, HandlerTypeOK
  <2> QED BY <2>1, <1>2, PipelineAssumption DEF NumbersFit
<1> QED BY <1>1, <1>3, <1>4

LEMMA CancelBatchKeeps ==
    ASSUME PipelineInv, CancelBatch PROVE PipelineInv'
<1> USE DEF PipelineInv
<1>1. LaneInv'
    BY StillKeeps DEF CancelBatch
<1>2. HandlerTypeOK'
    BY DEF CancelBatch, HandlerTypeOK, MainTypeOK, Shown
<1>3. NumbersFit'
    BY DEF CancelBatch, NumbersFit, Owed, Committing
<1> QED BY <1>1, <1>2, <1>3

LEMMA RefreshKeeps ==
    ASSUME PipelineInv, RefreshRead \/ RefreshShow PROVE PipelineInv'
<1> USE DEF PipelineInv
<1>1. LaneInv'
    BY StillKeeps DEF RefreshRead, RefreshShow
<1>2. CASE RefreshRead
  <2>1. main' = [at |-> "refresh", words |-> strip]
      BY <1>2 DEF RefreshRead
  <2>2. MainTypeOK' /\ Owed' = 0
      BY <2>1 DEF HandlerTypeOK, MainTypeOK, Owed, Committing
  <2>3. HandlerTypeOK'
      BY <1>2, <2>2 DEF RefreshRead, HandlerTypeOK
  <2>4. NumbersFit'
      BY <1>2, <2>2, QuietFits, OwedRange DEF RefreshRead
  <2> QED BY <1>1, <2>3, <2>4
<1>3. CASE RefreshShow
  <2>1. MainTypeOK' /\ Owed' = 0
      BY <1>3, IdleMain DEF RefreshShow
  <2>2. main.words \in Shown
      BY <1>3, MainFacts DEF RefreshShow, HandlerTypeOK
  <2>3. composer' \in ComposerRecords /\ strip' \in Shown /\ raced' \in BOOLEAN
      BY <1>3, <2>2 DEF RefreshShow, HandlerTypeOK, ComposerRecords
  <2>4. HandlerTypeOK'
      BY <1>3, <2>1, <2>3 DEF RefreshShow, HandlerTypeOK
  <2>5. NumbersFit'
      BY <1>3, <2>1, QuietFits, OwedRange DEF RefreshShow
  <2> QED BY <1>1, <2>4, <2>5
<1> QED BY <1>2, <1>3

LEMMA RequestKeeps ==
    ASSUME PipelineInv, Request PROVE PipelineInv'
<1> USE DEF PipelineInv
<1>1. Owed = 1 /\ MainTypeOK' /\ Owed' = 0 /\ main.style \in Styles
    BY IdleMain, MainFacts DEF Request, Owed, HandlerTypeOK
<1>2. /\ sequenceId \in Nat /\ Len(inbox) \in Nat
      /\ sequenceId + Len(inbox) + 1 <= MaxSeq /\ sequenceId < MaxSeq
    BY <1>1, PipelineAssumption DEF LaneInv, LaneTypeOK, HandlerTypeOK, NumbersFit
<1>3. HandlerTypeOK'
    BY <1>1 DEF Request, HandlerTypeOK, Shown
<1>4. CASE composer.word = 0 /\ ~Bigram
  <2>1. LaneInv'
      BY <1>4, CancelKeeps DEF Request
  <2>2. NumbersFit'
      BY <1>4, <1>1, QuietFits DEF Request
  <2> QED BY <2>1, <2>2, <1>3
<1>5. CASE ~(composer.word = 0 /\ ~Bigram)
  <2>1. Launch(main.style, FALSE) /\ UNCHANGED <<completed, running, inbox>>
      BY <1>5 DEF Request
  <2>2. LaneInv' /\ sequenceId' = sequenceId + 1
      BY <2>1, <1>1, <1>2, LaunchKeeps
  <2>3. NumbersFit'
      BY <2>1, <2>2, <1>1, <1>2, PipelineAssumption DEF NumbersFit
  <2> QED BY <2>2, <2>3, <1>3
<1> QED BY <1>4, <1>5

LEMMA MessageFacts ==
    ASSUME PipelineInv, HandleMessage
    PROVE  /\ LaneInv' /\ sequenceId' = sequenceId + 1
           /\ running.at # "idle" => Head(lane') = Head(lane)
           /\ \A id \in Jobs : jobs[id].st # "none" =>
                 \/ jobs'[id] = jobs[id]
                 \/ id = current /\ Stoppable(id) /\ jobs'[id] = Ended
           /\ Len(inbox') = Len(inbox) - 1 /\ inbox' \in Seq({"update", "tail"})
<1> USE DEF PipelineInv
<1>1. /\ inbox \in Seq({"update", "tail"}) /\ inbox # <<>> /\ inbox' = Tail(inbox)
    BY DEF HandleMessage, HandlerTypeOK
<1>2. /\ Head(inbox) \in Styles /\ Len(inbox) \in Nat \ {0}
      /\ Len(inbox') = Len(inbox) - 1 /\ inbox' \in Seq({"update", "tail"})
    BY <1>1 DEF Styles
<1>3. sequenceId < MaxSeq
    BY <1>2, OwedRange, PipelineAssumption DEF LaneInv, LaneTypeOK, NumbersFit
<1>4. Launch(Head(inbox), TRUE) /\ UNCHANGED <<completed, running>>
    BY DEF HandleMessage
<1> QED BY <1>2, <1>3, <1>4, LaunchKeeps

LEMMA HandleMessageKeeps ==
    ASSUME PipelineInv, HandleMessage PROVE PipelineInv'
<1> USE DEF PipelineInv
<1>1. LaneInv'
    BY MessageFacts
<1>2. HandlerTypeOK'
  <2>1. raced' \in BOOLEAN
      BY DEF HandleMessage
  <2> QED BY <2>1, MessageFacts DEF HandleMessage, HandlerTypeOK, MainTypeOK
<1>3. NumbersFit'
  <2>1. Owed' = Owed
      BY DEF HandleMessage, Owed, Committing
  <2>2. sequenceId \in Nat /\ Len(inbox) \in Nat
      BY DEF LaneInv, LaneTypeOK, HandlerTypeOK
  <2> QED BY <2>1, <2>2, MessageFacts, OwedRange, PipelineAssumption DEF NumbersFit
<1> QED BY <1>1, <1>2, <1>3

LEMMA DispatchAllKeeps ==
    ASSUME PipelineInv, NEW id \in Jobs, Dispatch(id) PROVE PipelineInv'
<1> USE DEF PipelineInv
<1>1. LaneInv'
    BY DispatchKeeps
<1>2. HandlerTypeOK' /\ NumbersFit'
    BY DEF Dispatch, HandlerTypeOK, MainTypeOK, NumbersFit, Owed, Committing
<1> QED BY <1>1, <1>2

LEMMA EnsureAllKeeps ==
    ASSUME PipelineInv, Ensure PROVE PipelineInv'
<1> USE DEF PipelineInv
<1>0. main.at = "ensure" /\ main.cut \in BOOLEAN /\ main.batch \in BOOLEAN
    BY MainFacts DEF Ensure, HandlerTypeOK, Committing
<1>1. CASE completed >= sequenceId
  <2>1. /\ main' = [main EXCEPT !.at = "commit"]
        /\ UNCHANGED <<sequenceId, completed, jobs, current, lane, running, inbox>>
      BY <1>1 DEF Ensure
  <2>2. main' = [at |-> "commit", cut |-> main.cut, batch |-> main.batch]
      BY <2>1, <1>0 DEF HandlerTypeOK, MainTypeOK, Idle
  <2>3. MainTypeOK' /\ Owed' = Owed
      BY <2>2, <1>0 DEF MainTypeOK, Owed, Committing
  <2> QED BY <2>1, <2>3, <1>0, StillKeeps DEF Ensure, HandlerTypeOK, NumbersFit
<1>2. CASE completed < sequenceId
  <2>1. MainTypeOK' /\ Owed' = Owed
      BY <1>0, <1>2, EnsureKeeps DEF HandlerTypeOK, MainTypeOK, Owed, Committing
  <2>2. LaneInv'
      BY <1>2, EnsureKeeps DEF HandlerTypeOK
  <2> QED BY <2>1, <2>2 DEF Ensure, HandlerTypeOK, NumbersFit
<1> QED BY <1>1, <1>2, PipelineAssumption DEF LaneInv, LaneTypeOK

LEMMA WaitedKeeps ==
    ASSUME PipelineInv, Waited PROVE PipelineInv'
<1> USE DEF PipelineInv
<1>1. LaneInv'
    BY StillKeeps DEF Waited
<1>2. /\ main \in [at : {"wait"}, cut : BOOLEAN, batch : BOOLEAN, job : Jobs]
      /\ \E x \in {"commit", "giveUp"} : main' = [main EXCEPT !.at = x]
    BY DEF Waited, HandlerTypeOK, MainTypeOK, Idle
<1>3. MainTypeOK' /\ Owed' = Owed
    BY <1>2 DEF MainTypeOK, Owed, Committing
<1> QED BY <1>1, <1>3 DEF Waited, HandlerTypeOK, NumbersFit

LEMMA CommitKeeps ==
    ASSUME PipelineInv, Commit PROVE PipelineInv'
<1> USE DEF PipelineInv
<1>1. LaneInv'
    BY StillKeeps DEF Commit
<1>2. /\ main.batch \in BOOLEAN /\ Owed = IF main.batch THEN 0 ELSE 1
      /\ main' = IF main.batch THEN Idle ELSE [at |-> "request", style |-> "typing"]
    BY MainFacts DEF Commit, AfterCommit, HandlerTypeOK, Committing, Owed
<1>3. MainTypeOK' /\ Owed' = Owed
    BY <1>2, IdleMain DEF Styles
<1>4. committed' \in [typed : 0 .. MaxWord, auto : Shown, batch : BOOLEAN, raced : BOOLEAN]
    BY DEF Commit, HandlerTypeOK, ComposerRecords, Shown
<1>5. composer' \in ComposerRecords /\ raced' \in BOOLEAN
    BY ComposerFacts DEF Commit, HandlerTypeOK
<1> QED BY <1>1, <1>3, <1>4, <1>5 DEF Commit, HandlerTypeOK, NumbersFit

LEMMA ComputeKeeps ==
    ASSUME PipelineInv, Compute PROVE PipelineInv'
<1> USE DEF PipelineInv
<1>h. MainTypeOK' /\ Owed' = Owed /\ UNCHANGED <<sequenceId, current, inbox, main>>
    BY DEF Compute, Begin, Read, Test, Show, Apply, Complete, HandlerTypeOK,
           MainTypeOK, Owed, Committing
<1>n. NumbersFit'
    BY <1>h DEF NumbersFit
<1>r. /\ running \in [at : {"idle", "read", "test", "show", "apply", "done"}, res : Shown]
      /\ running.at # "idle" => lane # <<>>
    BY DEF LaneInv, LaneTypeOK
<1>1. CASE Begin
  <2>1. HandlerTypeOK'
      BY <1>1, <1>h DEF Begin, HandlerTypeOK
  <2>2. CASE Superfluous(Head(lane))
      BY <1>1, <1>n, <2>1, <2>2, LeaveKeeps DEF Begin
  <2>3. CASE ~Superfluous(Head(lane))
    <3>1. running' = [at |-> "read", res |-> 0] /\ UNCHANGED <<jobs, lane>>
        BY <1>1, <2>3 DEF Begin, NoRun
    <3>2. running' \in [at : {"read", "test", "show", "apply", "done"}, res : Shown]
        BY <3>1, PipelineAssumption DEF Shown
    <3> QED BY <1>1, <1>n, <2>1, <3>1, <3>2, RunKeeps DEF Begin
  <2> QED BY <2>2, <2>3
<1>2. CASE Read
  <2>1. PICK r \in IF composer.batch THEN {composer.input, None}
                  ELSE IF composer.word = 0 THEN {0, None} ELSE {composer.word} :
             running' = [at |-> "test", res |-> r]
      BY <1>2 DEF Read
  <2>2. r \in Shown
      BY <2>1, PipelineAssumption DEF HandlerTypeOK, ComposerRecords, Shown
  <2>3. running' \in [at : {"read", "test", "show", "apply", "done"}, res : Shown]
      BY <2>1, <2>2
  <2>4. LaneInv'
      BY <1>2, <1>r, <2>3, RunKeeps DEF Read
  <2> QED BY <1>2, <1>h, <1>n, <2>4 DEF Read, HandlerTypeOK
<1>3. CASE Test
  <2>1. running' \in [at : {"read", "test", "show", "apply", "done"}, res : Shown]
      BY <1>3, <1>r DEF Test
  <2>2. LaneInv'
      BY <1>3, <1>r, <2>1, RunKeeps DEF Test
  <2> QED BY <1>3, <1>h, <1>n, <2>2 DEF Test, HandlerTypeOK
<1>4. CASE Show
  <2> DEFINE style == jobs[Head(lane)].style
             w == IF running.res = None /\ style \in {"update", "tail"}
                  THEN strip ELSE running.res
  <2>1. /\ running' = [at |-> IF style = "tail" THEN "apply" ELSE "done", res |-> w]
        /\ strip' = w
        /\ IF w = None THEN UNCHANGED <<composer, raced>>
           ELSE /\ composer' = [composer EXCEPT !.auto = w]
                /\ raced' = (w # composer.word /\ (raced \/ Recorrecting))
      BY <1>4 DEF Show
  <2>2. w \in Shown
      BY <1>r DEF HandlerTypeOK
  <2> HIDE DEF w, style
  <2>3. running' \in [at : {"read", "test", "show", "apply", "done"}, res : Shown]
      BY <2>1, <2>2
  <2>4. composer' \in ComposerRecords /\ raced' \in BOOLEAN
      BY <2>1, <2>2 DEF HandlerTypeOK, ComposerRecords
  <2>5. LaneInv'
      BY <1>4, <1>r, <2>3, RunKeeps DEF Show
  <2> QED BY <1>4, <1>h, <1>n, <2>1, <2>2, <2>4, <2>5 DEF Show, HandlerTypeOK
<1>5. CASE Apply
  <2>1. running' \in [at : {"read", "test", "show", "apply", "done"}, res : Shown]
      BY <1>5, <1>r DEF Apply
  <2>2. LaneInv'
      BY <1>5, <1>r, <2>1, RunKeeps DEF Apply
  <2>3. composer' \in ComposerRecords /\ raced' \in BOOLEAN
    <3>1. CASE running.res \in {0, None}
        BY <1>5, <3>1 DEF Apply, HandlerTypeOK
    <3>2. CASE running.res \notin {0, None}
      <4>1. running.res \in 0 .. MaxWord
          BY <3>2, <1>r DEF Shown
      <4>2. Composing(running.res, FALSE) \in ComposerRecords
          BY <4>1, ComposerFacts DEF HandlerTypeOK
      <4> QED BY <1>5, <3>2, <4>2 DEF Apply, ComposerRecords
    <3> QED BY <3>1, <3>2
  <2> QED BY <1>5, <1>h, <1>n, <2>2, <2>3 DEF Apply, HandlerTypeOK
<1>6. CASE Complete
  <2>1. LaneInv'
      BY <1>6, <1>r, LeaveKeeps DEF Complete
  <2> QED BY <1>6, <1>h, <1>n, <2>1 DEF Complete, HandlerTypeOK
<1> QED BY <1>1, <1>2, <1>3, <1>4, <1>5, <1>6 DEF Compute

LEMMA PipelineStep ==
    ASSUME PipelineInv, [Next]_vars PROVE PipelineInv'
<1>1. CASE Handlers
    BY <1>1, EditKeeps, MoveKeeps, NewFieldKeeps, PickKeeps, SeparatorKeeps,
       StartBatchKeeps, BatchKeeps, CancelBatchKeeps, RefreshKeeps
       DEF Handlers, UpdateBatch, EndBatch
<1>2. CASE Continue
    BY <1>2, RequestKeeps, EnsureAllKeeps, WaitedKeeps, CommitKeeps, RefreshKeeps
       DEF Continue
<1>3. CASE HandleMessage
    BY <1>3, HandleMessageKeeps
<1>4. CASE Compute
    BY <1>4, ComputeKeeps
<1>5. CASE \E id \in Jobs : Dispatch(id)
    BY <1>5, DispatchAllKeeps
<1>6. CASE UNCHANGED vars
    BY <1>6, StillKeeps
       DEF vars, PipelineInv, HandlerTypeOK, MainTypeOK, NumbersFit, Owed, Committing
<1> QED BY <1>1, <1>2, <1>3, <1>4, <1>5, <1>6 DEF Next

LEMMA PipelineInit ==
    Init => PipelineInv
<1> SUFFICES ASSUME Init PROVE PipelineInv
    OBVIOUS
<1> USE PipelineAssumption
<1>1. NoJob \in JobRecords /\ NoJob.st = "none"
    BY DEF NoJob, JobRecords, Styles
<1>2. lane = <<>> /\ lane \in Seq(Jobs) /\ DOMAIN lane = {} /\ ToSet(lane) = {}
    BY DEF Init, ToSet
<1>3. jobs \in [Jobs -> JobRecords] /\ \A id \in Jobs : jobs[id].st = "none"
    BY <1>1 DEF Init
<1>4. LaneTypeOK
    BY <1>2, <1>3 DEF Init, LaneTypeOK, IsInjective, NoRun, Shown
<1>5. JobsNumbered /\ LaneOrdered
    BY <1>2, <1>3 DEF Init, JobsNumbered, LaneOrdered, Ordered
<1>6. OneEnsure
    BY <1>3 DEF OneEnsure, Jobs, Kinds
<1>7. HandlerTypeOK
  <2>1. inbox \in Seq({"update", "tail"})
      BY DEF Init
  <2>2. /\ composer \in ComposerRecords /\ strip \in Shown /\ MainTypeOK
        /\ committed \in [typed : 0 .. MaxWord, auto : Shown, batch : BOOLEAN,
                         raced : BOOLEAN]
      BY DEF Init, ComposerRecords, Shown, MainTypeOK
  <2> QED BY <2>1, <2>2 DEF Init, HandlerTypeOK
<1>8. NumbersFit
    BY DEF Init, NumbersFit, Owed, Committing, Idle
<1> QED BY <1>4, <1>5, <1>6, <1>7, <1>8 DEF PipelineInv, LaneInv

(* SuggestTypeOK holds in every state: job numbers stay within the bound,  *)
(* the lane of dictionaryScope holds every queued job exactly once, and    *)
(* never another, whatever is cancelled.                                   *)
THEOREM SuggestTypes == Spec => []SuggestTypeOK
<1>1. PipelineInv => SuggestTypeOK
    BY DEF PipelineInv, LaneInv, LaneTypeOK, HandlerTypeOK, SuggestTypeOK, JobRecords,
           ComposerRecords
<1> QED BY <1>1, PipelineInit, PipelineStep, PTL DEF Spec

-----------------------------------------------------------------------------
(* Which word a result is of.                                              *)

LEMMA HeadFacts ==
    ASSUME LaneInv, lane # <<>>
    PROVE  /\ Head(lane) \in Jobs /\ jobs[Head(lane)].st = "queued"
           /\ Seq_(Head(lane)) \in Nat /\ sequenceId \in Nat /\ completed \in Nat
           /\ completed <= Seq_(Head(lane)) /\ Seq_(Head(lane)) <= sequenceId
<1>1. Head(lane) \in Jobs /\ Head(lane) \in ToSet(lane)
    BY TailLane DEF LaneInv, LaneTypeOK, LaneOrdered
<1>2. jobs[Head(lane)].st = "queued"
    BY <1>1 DEF LaneInv, LaneTypeOK
<1>3. completed <= Seq_(Head(lane)) /\ Seq_(Head(lane)) <= sequenceId
    BY <1>1, <1>2 DEF LaneInv, JobsNumbered, LaneOrdered
<1> QED BY <1>1, <1>2, <1>3, JobFacts DEF LaneInv, LaneTypeOK

LEMMA RunningHead ==
    ASSUME LaneInv, running.at # "idle"
    PROVE  lane # <<>>
BY DEF LaneInv, LaneTypeOK

(* Outside a commit only LastReadsIt says something.                       *)
LEMMA NotCommitting ==
    ASSUME main'.at \in {"idle", "request", "refresh"}
    PROVE  (WaitOK /\ Overtaken /\ Settled /\ CutWord)'
BY DEF WaitOK, Overtaken, Settled, WaitOver, CutWord, Recorrecting, Committing

(* A new number: nothing was computed for it yet.                          *)
LEMMA NewNumber ==
    ASSUME LaneInv, sequenceId' = sequenceId + 1, UNCHANGED <<completed, running>>,
           running.at # "idle" => Head(lane') = Head(lane)
    PROVE  LastReadsIt'
<1>1. completed' # sequenceId'
    BY PipelineAssumption DEF LaneInv, LaneTypeOK
<1>2. running'.at # "idle" => Seq_(Head(lane')) # sequenceId'
    BY HeadFacts, RunningHead
<1> QED BY <1>1, <1>2 DEF LastReadsIt

LEMMA NotPlain ==
    ASSUME \/ composer'.word = 0
           \/ composer'.batch
           \/ main'.at = "request"
    PROVE  LastReadsIt'
BY DEF LastReadsIt, Plain

(* A handler that leaves the word and the number as they are.              *)
LEMMA StillPlain ==
    ASSUME LastReadsIt, Plain' => Plain,
           UNCHANGED <<sequenceId, completed, running>>, composer'.word = composer.word,
           composer'.auto = composer.auto, strip' \in {strip, None},
           running.at # "idle" => Head(lane') = Head(lane)
    PROVE  LastReadsIt'
BY DEF LastReadsIt, Own

LEMMA WordEdit ==
    ASSUME PipelineInv, WordInv, Edit PROVE WordInv'
<1>1. main'.at = "request"
    BY DEF Edit
<1>2. CommitsOwnWord'
    BY DEF Edit, WordInv, CommitsOwnWord, SameWord
<1> QED BY <1>1, <1>2, NotPlain, NotCommitting DEF WordInv

LEMMA WordRestart ==
    ASSUME PipelineInv, WordInv, Move \/ NewField PROVE WordInv'
<1>1. Restart
    BY DEF Move, NewField
<1>2. /\ composer'.word = 0 \/ main'.at = "request"
      /\ main'.at \in {"idle", "request"}
    BY <1>1, RestartKeeps
<1>3. CommitsOwnWord'
    BY <1>1 DEF Restart, WordInv, CommitsOwnWord, SameWord
<1> QED BY <1>2, <1>3, NotPlain, NotCommitting DEF WordInv

LEMMA WordPick ==
    ASSUME PipelineInv, WordInv, Pick PROVE WordInv'
<1>1. main'.at = "request"
    BY DEF Pick
<1>2. CommitsOwnWord'
    BY DEF Pick, WordInv, CommitsOwnWord, SameWord
<1> QED BY <1>1, <1>2, NotPlain, NotCommitting DEF WordInv

LEMMA WordBatch ==
    ASSUME PipelineInv, WordInv, NEW style \in {"update", "tail"}, Batch(style)
    PROVE  WordInv'
<1>1. main'.at = "idle" /\ composer'.batch
    BY DEF Batch, PipelineInv, HandlerTypeOK, ComposerRecords
<1>2. CommitsOwnWord'
    BY DEF Batch, WordInv, CommitsOwnWord, SameWord
<1> QED BY <1>1, <1>2, NotPlain, NotCommitting DEF WordInv

LEMMA WordCancelBatch ==
    ASSUME PipelineInv, WordInv, CancelBatch \/ RefreshRead PROVE WordInv'
<1>1. /\ main'.at \in {"idle", "refresh"} /\ main.at = "idle" /\ strip' \in {strip, None}
      /\ UNCHANGED <<composer, sequenceId, completed, lane, running, raced>>
    BY DEF CancelBatch, RefreshRead
<1>2. Plain' => Plain
    BY <1>1 DEF Plain, Committing
<1>3. CommitsOwnWord'
    BY DEF CancelBatch, RefreshRead, WordInv, CommitsOwnWord, SameWord
<1>4. LastReadsIt'
    BY <1>1, <1>2, StillPlain DEF WordInv
<1> QED BY <1>1, <1>3, <1>4, NotCommitting DEF WordInv

LEMMA WordRefreshShow ==
    ASSUME PipelineInv, WordInv, RefreshShow PROVE WordInv'
<1>1. /\ main'.at = "idle" /\ main.at = "refresh"
      /\ UNCHANGED <<sequenceId, completed, lane, running>>
    BY DEF RefreshShow, Idle
<1>2. CommitsOwnWord'
    BY DEF RefreshShow, WordInv, CommitsOwnWord, SameWord
<1>3. LastReadsIt'
  <2>1. CASE completed < sequenceId \/ main.words = None
    <3>1. UNCHANGED <<composer, strip, raced>>
        BY <2>1 DEF RefreshShow
    <3>2. Plain' => Plain
        BY <1>1, <3>1 DEF Plain, Committing
    <3> QED BY <1>1, <3>1, <3>2, StillPlain DEF WordInv
  <2>2. CASE ~(completed < sequenceId \/ main.words = None)
    <3>1. /\ composer' = [composer EXCEPT !.auto = main.words] /\ strip' = main.words
          /\ raced' = (raced \/ main.words # strip)
        BY <2>2 DEF RefreshShow
    <3>2. /\ composer'.word = composer.word /\ composer'.batch = composer.batch
          /\ composer'.auto = main.words
        BY <3>1 DEF PipelineInv, HandlerTypeOK, ComposerRecords
    <3>3. Plain' => Plain /\ main.words = strip
        BY <1>1, <3>1, <3>2 DEF Plain, Committing
    <3>4. completed = sequenceId
        BY <2>2, PipelineAssumption DEF PipelineInv, LaneInv, LaneTypeOK
    <3>5. Plain' => Own(strip)
        BY <3>3, <3>4 DEF WordInv, LastReadsIt
    <3>6. Plain' => (Own(composer.auto) /\ Own(strip))'
        BY <3>1, <3>2, <3>3, <3>5 DEF Own
    <3>7. Plain' => (running'.at \in {"test", "show"} /\ Seq_(Head(lane')) = sequenceId'
                       => running'.res = composer'.word)
        BY <1>1, <3>2, <3>3 DEF WordInv, LastReadsIt
    <3> QED BY <3>6, <3>7 DEF LastReadsIt
  <2> QED BY <2>1, <2>2
<1> QED BY <1>1, <1>2, <1>3, NotCommitting DEF WordInv

LEMMA WordRequest ==
    ASSUME PipelineInv, WordInv, Request PROVE WordInv'
<1>1. main'.at = "idle" /\ UNCHANGED composer
    BY DEF Request, Idle
<1>2. CommitsOwnWord'
    BY DEF Request, WordInv, CommitsOwnWord, SameWord
<1>3. LastReadsIt'
  <2>1. CASE composer.word = 0
      BY <2>1, <1>1, NotPlain
  <2>2. CASE composer.word # 0
    <3>1. Launch(main.style, FALSE) /\ UNCHANGED <<completed, running>>
        BY <2>2 DEF Request
    <3>2. main.style \in Styles
        BY MainFacts DEF Request, PipelineInv, HandlerTypeOK
    <3>3. sequenceId < MaxSeq
      <4>1. Owed = 1
          BY DEF Request, Owed
      <4> QED BY <4>1, PipelineAssumption
              DEF PipelineInv, NumbersFit, LaneInv, LaneTypeOK, HandlerTypeOK
    <3>4. /\ sequenceId' = sequenceId + 1
          /\ running.at # "idle" => Head(lane') = Head(lane)
        BY <3>1, <3>2, <3>3, LaunchKeeps DEF PipelineInv
    <3> QED BY <3>1, <3>4, NewNumber DEF PipelineInv
  <2> QED BY <2>1, <2>2
<1> QED BY <1>1, <1>2, <1>3, NotCommitting DEF WordInv

LEMMA WordDispatch ==
    ASSUME PipelineInv, WordInv, NEW id \in Jobs, Dispatch(id) PROVE WordInv'
<1>1. /\ main'.at = "idle" /\ main.at = "idle"
      /\ UNCHANGED <<composer, sequenceId, completed, running, raced, strip>>
    BY DEF Dispatch
<1>2. CommitsOwnWord'
    BY DEF Dispatch, WordInv, CommitsOwnWord, SameWord
<1>3. running.at # "idle" => Head(lane') = Head(lane)
    BY DispatchKeeps DEF PipelineInv
<1>4. Plain' => Plain
    BY <1>1 DEF Plain, Committing
<1>5. LastReadsIt'
    BY <1>1, <1>3, <1>4, StillPlain DEF WordInv
<1> QED BY <1>1, <1>2, <1>5, NotCommitting DEF WordInv

(* The word that is committed.                                             *)
LEMMA WordCommit ==
    ASSUME PipelineInv, WordInv, Commit PROVE WordInv'
<1>1. main'.at \in {"idle", "request"} /\ composer'.word = 0
    BY ComposerFacts DEF Commit, AfterCommit, Idle, PipelineInv, HandlerTypeOK
<1>2. CommitsOwnWord'
  <2>1. CASE main.at = "giveUp"
      BY <2>1 DEF Commit, CommitsOwnWord, SameWord
  <2>2. CASE main.at = "commit"
    <3>1. Own(composer.auto) \/ composer.batch \/ raced
      <4>1. main.cut \in BOOLEAN
          BY <2>2, MainFacts DEF PipelineInv, HandlerTypeOK, Committing
      <4>2. CASE main.cut
          BY <2>2, <4>2 DEF WordInv, CutWord, Recorrecting
      <4>3. CASE ~main.cut
          BY <2>2, <4>3 DEF WordInv, Settled, WaitOver
      <4> QED BY <4>1, <4>2, <4>3
    <3> QED BY <2>2, <3>1 DEF Commit, CommitsOwnWord, SameWord, Own
  <2> QED BY <2>1, <2>2 DEF Commit
<1> QED BY <1>1, <1>2, NotPlain, NotCommitting DEF WordInv

LEMMA WordSeparator ==
    ASSUME PipelineInv, WordInv, Separator PROVE WordInv'
<1>1. /\ main.at = "idle" /\ UNCHANGED <<sequenceId, completed, lane, running, committed>>
    BY DEF Separator
<1>2. CommitsOwnWord'
    BY <1>1 DEF WordInv, CommitsOwnWord, SameWord
<1>3. CASE main'.at = "request"
    BY <1>2, <1>3, NotPlain, NotCommitting DEF WordInv
<1>4. CASE composer.mid /\ main'.at # "request"
  <2>0. PICK w \in Contents :
           /\ fresh < MaxWord /\ Compose(w, FALSE)
           /\ main' = IF w = 0 THEN [at |-> "request", style |-> "typing"]
                      ELSE [at |-> "ensure", cut |-> TRUE, batch |-> FALSE]
      BY <1>4 DEF Separator
  <2>1. /\ Compose(w, FALSE) /\ fresh < MaxWord /\ w # 0
        /\ main' = [at |-> "ensure", cut |-> TRUE, batch |-> FALSE]
      BY <2>0, <1>4
  <2>2. w \in 0 .. MaxWord
      BY <2>1, PipelineAssumption DEF Contents, PipelineInv, HandlerTypeOK
  <2>3. composer'.word # 0 /\ composer'.auto = None
      BY <2>1, <2>2, ComposerFacts DEF Compose, PipelineInv, HandlerTypeOK
  <2>4. LastReadsIt'
      BY <2>1 DEF LastReadsIt, Plain, Committing
  <2>5. WaitOK' /\ Overtaken' /\ Settled' /\ CutWord'
      BY <2>1, <2>3 DEF WaitOK, Overtaken, Settled, WaitOver, CutWord, Own
  <2> QED BY <1>2, <2>4, <2>5 DEF WordInv
<1>5. CASE ~composer.mid /\ main'.at # "request"
  <2>1. /\ composer.word # 0 /\ UNCHANGED <<composer, strip, raced>>
        /\ main' = [at |-> "ensure", cut |-> FALSE, batch |-> FALSE]
      BY <1>5 DEF Separator
  <2>2. Plain' => Plain
      BY <1>1, <2>1 DEF Plain, Committing
  <2>3. LastReadsIt'
      BY <1>1, <2>1, <2>2, StillPlain DEF WordInv
  <2>4. WaitOK' /\ Overtaken' /\ Settled' /\ CutWord'
      BY <2>1 DEF WaitOK, Overtaken, Settled, WaitOver, CutWord, Recorrecting
  <2> QED BY <1>2, <2>3, <2>4 DEF WordInv
<1> QED BY <1>3, <1>4, <1>5

LEMMA WordStartBatch ==
    ASSUME PipelineInv, WordInv, StartBatch PROVE WordInv'
<1>1. /\ main.at = "idle" /\ strip' = None
      /\ UNCHANGED <<sequenceId, completed, lane, running, committed>>
    BY DEF StartBatch
<1>2. CommitsOwnWord'
    BY <1>1 DEF WordInv, CommitsOwnWord, SameWord
<1>3. CASE composer.word # 0 /\ ~composer.mid
  <2>1. /\ UNCHANGED <<composer, raced>>
        /\ main' = [at |-> "ensure", cut |-> FALSE, batch |-> TRUE]
      BY <1>3 DEF StartBatch
  <2>2. Plain' => Plain
      BY <1>1, <2>1 DEF Plain, Committing
  <2>3. LastReadsIt'
      BY <1>1, <2>1, <2>2, StillPlain DEF WordInv
  <2>4. WaitOK' /\ Overtaken' /\ Settled' /\ CutWord'
      BY <1>3, <2>1 DEF WaitOK, Overtaken, Settled, WaitOver, CutWord, Recorrecting
  <2> QED BY <1>2, <2>3, <2>4 DEF WordInv
<1>4. CASE ~(composer.word # 0 /\ ~composer.mid)
  <2>1. composer' = (IF composer.mid THEN Cleared ELSE composer) /\ main' = main
      BY <1>4 DEF StartBatch
  <2>2. composer'.word = 0
      BY <1>4, <2>1, ComposerFacts DEF PipelineInv, HandlerTypeOK
  <2> QED BY <1>1, <1>2, <2>1, <2>2, NotPlain, NotCommitting DEF WordInv
<1> QED BY <1>3, <1>4

(* The wait begins, or is not needed: the last number is completed, and a  *)
(* job that still runs has it too.                                         *)
LEMMA WordEnsure ==
    ASSUME PipelineInv, WordInv, Ensure PROVE WordInv'
<1>1. /\ main.at = "ensure" /\ composer.word # 0 /\ main.cut \in BOOLEAN
      /\ UNCHANGED <<composer, strip, sequenceId, completed, running, committed, raced>>
    BY MainFacts DEF Ensure, WordInv, WaitOK, Committing, PipelineInv, HandlerTypeOK
<1>2. CommitsOwnWord'
    BY <1>1 DEF WordInv, CommitsOwnWord, SameWord
<1>3. CASE completed >= sequenceId
  <2>1. main' = [main EXCEPT !.at = "commit"] /\ UNCHANGED <<jobs, current, lane>>
      BY <1>3 DEF Ensure
  <2>2. main'.at = "commit" /\ main'.cut = main.cut
      BY <1>1, <2>1 DEF PipelineInv, HandlerTypeOK, MainTypeOK, Idle
  <2>3. Plain' => Plain
      BY <1>1, <2>2 DEF Plain, Committing
  <2>4. LastReadsIt'
      BY <1>1, <2>1, <2>3, StillPlain DEF WordInv
  <2>5. completed = sequenceId
      BY <1>3, PipelineAssumption DEF PipelineInv, LaneInv, LaneTypeOK
  <2>6. running.at # "idle" => Seq_(Head(lane)) = sequenceId
      BY <2>5, HeadFacts, RunningHead DEF PipelineInv
  <2>7. ~main.cut /\ ~composer.batch /\ ~raced => Plain
      BY <1>1 DEF Plain
  <2>8. Settled'
      BY <1>1, <2>2, <2>5, <2>6, <2>7 DEF Settled, Own, WordInv, LastReadsIt
  <2>9. WaitOK' /\ Overtaken'
      BY <1>1, <2>2 DEF WaitOK, Overtaken
  <2>10. CutWord'
      BY <1>1, <2>2 DEF WordInv, CutWord, Recorrecting, Own
  <2> QED BY <1>2, <2>4, <2>8, <2>9, <2>10 DEF WordInv
<1>4. CASE completed < sequenceId
  <2>1. /\ running.at # "idle" => Head(lane') = Head(lane)
        /\ main'.job \in Jobs /\ current' = main'.job
        /\ Seq_(main'.job) = sequenceId /\ Kind(main'.job) # "update"
        /\ jobs'[main'.job] = [st |-> "queued", style |-> "typing"]
        /\ main' = [at |-> "wait", cut |-> main.cut, batch |-> main.batch,
                    job |-> main'.job]
      BY <1>4, EnsureKeeps DEF PipelineInv, HandlerTypeOK
  <2>2. main'.at = "wait" /\ main'.cut = main.cut
      BY <2>1
  <2>3. Plain' => Plain
      BY <1>1, <2>2 DEF Plain, Committing
  <2>4. LastReadsIt'
      BY <1>1, <2>1, <2>3, StillPlain DEF WordInv
  <2>5. jobs'[main'.job].st = "queued"
      BY <2>1
  <2>6. WaitOK'
      BY <1>1, <2>1, <2>2, <2>5 DEF WaitOK
  <2>7. Overtaken' /\ Settled'
      BY <1>1, <2>1, <2>2, <2>5 DEF Overtaken, Settled, WaitOver
  <2>8. CutWord'
      BY <1>1, <2>2 DEF WordInv, CutWord, Recorrecting, Own
  <2> QED BY <1>2, <2>4, <2>6, <2>7, <2>8 DEF WordInv
<1> QED BY <1>3, <1>4, PipelineAssumption DEF PipelineInv, LaneInv, LaneTypeOK

LEMMA WordWaited ==
    ASSUME PipelineInv, WordInv, Waited PROVE WordInv'
<1>1. /\ main.at = "wait"
      /\ UNCHANGED <<composer, strip, sequenceId, completed, running, lane, committed, raced>>
      /\ \/ jobs[main.job].st = "over" /\ main' = [main EXCEPT !.at = "commit"]
         \/ jobs[main.job].st # "over" /\ main' = [main EXCEPT !.at = "giveUp"]
    BY DEF Waited
<1>2. /\ main'.at \in {"commit", "giveUp"} /\ main'.cut = main.cut
      /\ main'.at = "commit" => jobs[main.job].st = "over"
    BY <1>1 DEF PipelineInv, HandlerTypeOK, MainTypeOK, Idle
<1>3. CommitsOwnWord'
    BY <1>1 DEF WordInv, CommitsOwnWord, SameWord
<1>4. Plain' => Plain
    BY <1>1, <1>2 DEF Plain, Committing
<1>5. LastReadsIt'
    BY <1>1, <1>4, StillPlain DEF WordInv
<1>6. WaitOK' /\ Overtaken'
    BY <1>1, <1>2 DEF WordInv, WaitOK, Overtaken, Committing
<1>7. Settled'
    BY <1>1, <1>2 DEF WordInv, Settled, WaitOver, Own
<1>8. CutWord'
    BY <1>1, <1>2 DEF WordInv, CutWord, Recorrecting, Own
<1> QED BY <1>3, <1>5, <1>6, <1>7, <1>8 DEF WordInv

(* A gesture's request.  The job the main thread waits for is cancelled,   *)
(* or found late, and then a result has overtaken it; or it has passed the *)
(* test, with what it read of the word that waits.                         *)
LEMMA WordMessage ==
    ASSUME PipelineInv, WordInv, HandleMessage PROVE WordInv'
<1>1. /\ UNCHANGED <<composer, strip, completed, running, main, committed>>
      /\ raced' = \/ raced
                  \/ main.at = "wait" /\ current = main.job /\ Outrun(current)
    BY DEF HandleMessage
<1>2. /\ sequenceId' = sequenceId + 1
      /\ running.at # "idle" => Head(lane') = Head(lane)
      /\ \A id \in Jobs : jobs[id].st # "none" =>
            \/ jobs'[id] = jobs[id]
            \/ id = current /\ Stoppable(id) /\ jobs'[id] = Ended
    BY MessageFacts
<1>3. CommitsOwnWord'
    BY <1>1 DEF WordInv, CommitsOwnWord, SameWord
<1>4. LastReadsIt'
    BY <1>1, <1>2, NewNumber DEF PipelineInv
<1>5. CutWord'
    BY <1>1 DEF WordInv, CutWord, Recorrecting, Own
<1>6. CASE main.at # "wait"
  <2>1. WaitOK' /\ Overtaken'
      BY <1>1, <1>6 DEF WordInv, WaitOK, Overtaken, Committing
  <2>2. Settled'
      BY <1>1, <1>6 DEF WordInv, Settled, WaitOver, Own
  <2> QED BY <1>3, <1>4, <1>5, <2>1, <2>2 DEF WordInv
<1>7. CASE main.at = "wait"
  <2> DEFINE j == main.job
  <2>1. /\ j \in Jobs /\ Kind(j) # "update" /\ jobs[j].st \in {"queued", "over"}
        /\ Seq_(j) = sequenceId => current = j
        /\ composer.word # 0
      BY <1>7, MainFacts DEF WordInv, WaitOK, Committing, PipelineInv, HandlerTypeOK
  <2>2. /\ Seq_(j) \in Nat /\ Seq_(j) <= sequenceId /\ sequenceId \in Nat
        /\ current = j => Seq_(j) = sequenceId
      BY <2>1, JobFacts, PipelineAssumption
         DEF PipelineInv, LaneInv, LaneTypeOK, JobsNumbered
  <2>3. Seq_(j) # sequenceId'
      BY <1>2, <2>2
  <2>4. jobs'[j].st \in {"queued", "over"}
      BY <1>2, <2>1 DEF Ended
  <2>5. WaitOK'
      BY <1>1, <1>7, <2>1, <2>3, <2>4 DEF WordInv, WaitOK, Committing
  <2>6. CASE jobs[j].st = "over"
    <3>1. jobs'[j].st = "over"
        BY <1>2, <2>1, <2>6 DEF Ended
    <3>2. Overtaken'
        BY <1>1, <3>1 DEF Overtaken
    <3>3. Settled'
        BY <1>1, <1>7, <2>6 DEF WordInv, Settled, WaitOver, Own
    <3> QED BY <1>3, <1>4, <1>5, <2>5, <3>2, <3>3 DEF WordInv
  <2>7. CASE jobs[j].st = "queued" /\ Seq_(j) # sequenceId
    <3>1. current # j
        BY <2>2, <2>7
    <3>2. jobs'[j] = jobs[j]
        BY <1>2, <2>1, <3>1, <2>7
    <3>3. raced' = raced
        BY <1>1, <3>1, <1>7 DEF PipelineInv, HandlerTypeOK
    <3>4. Runs(j) /\ Runs(j)'
        BY <1>1, <1>2, <1>7, <2>7 DEF WordInv, Overtaken, Runs
    <3>5. Overtaken'
        BY <1>1, <1>7, <2>7, <3>3, <3>4 DEF WordInv, Overtaken, Own
    <3>6. Settled'
        BY <1>1, <1>7, <2>7, <3>2 DEF Settled, WaitOver
    <3> QED BY <1>3, <1>4, <1>5, <2>5, <3>5, <3>6 DEF WordInv
  <2>8. CASE jobs[j].st = "queued" /\ Seq_(j) = sequenceId /\ Stoppable(j)
    <3>1. raced'
        BY <1>1, <1>7, <2>1, <2>8 DEF Outrun
    <3>2. jobs'[j] = jobs[j] \/ jobs'[j] = Ended
        BY <1>2, <2>1
    <3>3. Settled'
        BY <3>1 DEF Settled
    <3>4. jobs'[j] = Ended
      <4>1. current = j /\ current # None
          BY <2>1, <2>8, PipelineAssumption
      <4>2. jobs' [j] = AfterCancel[j]
          BY <4>1, <2>1, <2>2, <1>2 DEF HandleMessage, Launch, Kind, Seq_
      <4> QED BY <4>1, <4>2, <2>8, CancelFacts DEF PipelineInv
    <3>5. Overtaken'
        BY <1>1, <3>4 DEF Overtaken, Ended
    <3> QED BY <1>3, <1>4, <1>5, <2>5, <3>3, <3>5 DEF WordInv
  <2>9. CASE jobs[j].st = "queued" /\ Seq_(j) = sequenceId /\ ~Stoppable(j)
    <3>1. lane[1] = j /\ running.at # "idle" /\ lane # <<>>
        BY <2>1, <2>9, RunningHead DEF Stoppable, PipelineInv
    <3>2. Runs(j) /\ Runs(j)' /\ Head(lane) = j
        BY <1>1, <1>2, <3>1 DEF Runs
    <3>3. jobs'[j] = jobs[j]
        BY <1>2, <2>1, <2>9
    <3>4. running.at \in {"read", "test"} => raced'
        BY <1>1, <1>7, <2>1, <2>9, <3>1, <3>2 DEF Outrun
    <3>5. ~main.cut /\ ~composer.batch /\ ~raced' =>
             /\ Plain
             /\ running.at = "show" => running.res = composer.word
             /\ running.at \in {"apply", "done"} => Own(composer.auto)
        BY <1>1, <1>7, <2>1, <2>9, <3>2, <3>1 DEF Plain, WordInv, LastReadsIt
    <3>7. Overtaken'
        BY <1>1, <3>2, <3>4, <3>5 DEF Overtaken, Own
    <3>8. Settled'
        BY <1>1, <1>7, <2>9, <3>3 DEF Settled, WaitOver
    <3> QED BY <1>3, <1>4, <1>5, <2>5, <3>7, <3>8 DEF WordInv
  <2> QED BY <2>1, <2>6, <2>7, <2>8, <2>9
<1> QED BY <1>6, <1>7

(* A job that leaves.  The one the main thread waits for has completed its *)
(* number, or finds it completed.                                          *)
LEMMA WordLeave ==
    ASSUME PipelineInv, WordInv, Leave(Head(lane)), lane # <<>>,
           UNCHANGED <<composer, strip, sequenceId, main, committed, raced, current>>,
           \/ completed' = Seq_(Head(lane)) /\ running.at = "done"
           \/ /\ completed' = completed /\ running.at = "idle"
              /\ Superfluous(Head(lane))
    PROVE  WordInv'
<1> DEFINE h == Head(lane)
<1>1. /\ running' = NoRun /\ NoRun.at = "idle" /\ jobs' = [jobs EXCEPT ![h] = Ended]
    BY DEF Leave, NoRun
<1>2. /\ h \in Jobs /\ Seq_(h) \in Nat /\ sequenceId \in Nat /\ completed \in Nat
      /\ completed <= Seq_(h) /\ Seq_(h) <= sequenceId
    BY HeadFacts DEF PipelineInv
<1>3. /\ jobs'[h] = Ended /\ Ended.st = "over"
      /\ \A id \in Jobs : id # h => jobs'[id] = jobs[id]
    BY <1>1, <1>2 DEF PipelineInv, LaneInv, LaneTypeOK, Ended
<1> HIDE DEF h
<1>4. CommitsOwnWord'
    BY DEF WordInv, CommitsOwnWord, SameWord
<1>5. LastReadsIt'
    BY <1>1, <1>2 DEF WordInv, LastReadsIt, Plain, Own, Committing, h
<1>6. CutWord'
    BY DEF WordInv, CutWord, Recorrecting, Own
<1>7. WaitOK'
  <2>1. main.at = "wait" => main.job \in Jobs
      BY MainFacts DEF PipelineInv, HandlerTypeOK
  <2> QED BY <2>1, <1>3 DEF WordInv, WaitOK, Committing
<1>8. CASE ~(main.at = "wait" /\ main.job = h)
  <2>1. main.at = "wait" => main.job \in Jobs /\ jobs'[main.job] = jobs[main.job]
      BY <1>3, <1>8, MainFacts DEF PipelineInv, HandlerTypeOK
  <2>2. Overtaken'
    <3> SUFFICES ASSUME main.at = "wait", jobs[main.job].st = "queued",
                        Seq_(main.job) # sequenceId
                 PROVE  FALSE
        BY <2>1 DEF Overtaken
    <3> QED BY <1>8 DEF WordInv, Overtaken, Runs, h
  <2>3. Settled'
      BY <1>1, <2>1 DEF WordInv, Settled, WaitOver, Own
  <2> QED BY <1>4, <1>5, <1>6, <1>7, <2>2, <2>3 DEF WordInv
<1>9. CASE main.at = "wait" /\ main.job = h
  <2>1. Overtaken'
      BY <1>3, <1>9 DEF Overtaken
  <2>2. jobs[h].st = "queued" /\ composer.word # 0 /\ Kind(h) # "update"
      BY <1>9, HeadFacts DEF WordInv, WaitOK, Committing, PipelineInv, h
  <2>3. ASSUME ~main.cut, ~composer.batch, ~raced PROVE Own(composer.auto)
    <3>1. Plain
        BY <1>9, <2>2, <2>3 DEF Plain
    <3>2. CASE Seq_(h) = sequenceId /\ running.at = "done"
        BY <3>1, <3>2 DEF WordInv, LastReadsIt, h
    <3>3. CASE Seq_(h) = sequenceId /\ running.at = "idle" /\ Superfluous(h)
      <4>1. completed = sequenceId
          BY <3>3, <2>2, <1>2 DEF Superfluous
      <4> QED BY <3>1, <4>1 DEF WordInv, LastReadsIt
    <3>4. CASE Seq_(h) # sequenceId
        BY <3>4, <1>9, <2>2, <2>3 DEF WordInv, Overtaken, Runs
    <3> QED BY <3>2, <3>3, <3>4 DEF h
  <2>4. Settled'
      BY <1>1, <2>3 DEF Settled, Own
  <2> QED BY <1>4, <1>5, <1>6, <1>7, <2>1, <2>4 DEF WordInv
<1> QED BY <1>8, <1>9

LEMMA WordBegin ==
    ASSUME PipelineInv, WordInv, Begin PROVE WordInv'
<1>1. CASE Superfluous(Head(lane))
    BY <1>1, WordLeave DEF Begin
<1>2. CASE ~Superfluous(Head(lane))
  <2>1. /\ running.at = "idle" /\ running'.at = "read"
        /\ UNCHANGED <<composer, strip, sequenceId, completed, jobs, current, lane, main,
                       committed, raced>>
      BY <1>2 DEF Begin, NoRun
  <2>2. CommitsOwnWord' /\ WaitOK' /\ CutWord'
      BY <2>1 DEF WordInv, CommitsOwnWord, SameWord, WaitOK, Committing, CutWord,
                  Recorrecting, Own
  <2>3. LastReadsIt'
      BY <2>1 DEF WordInv, LastReadsIt, Plain, Committing, Own
  <2>4. Overtaken' /\ Settled'
      BY <2>1 DEF WordInv, Overtaken, Runs, Settled, WaitOver, Own
  <2> QED BY <2>2, <2>3, <2>4 DEF WordInv
<1> QED BY <1>1, <1>2

LEMMA WordRead ==
    ASSUME PipelineInv, WordInv, Read PROVE WordInv'
<1>1. /\ running.at = "read"
      /\ UNCHANGED <<composer, strip, sequenceId, completed, jobs, current, lane, main,
                     committed, raced>>
    BY DEF Read
<1>2. PICK r \in IF composer.batch THEN {composer.input, None}
                ELSE IF composer.word = 0 THEN {0, None} ELSE {composer.word} :
           running' = [at |-> "test", res |-> r]
    BY DEF Read
<1>3. /\ running'.at = "test"
      /\ ~composer.batch /\ composer.word # 0 => running'.res = composer.word
    BY <1>2
<1>4. CommitsOwnWord' /\ WaitOK' /\ CutWord'
    BY <1>1 DEF WordInv, CommitsOwnWord, SameWord, WaitOK, Committing, CutWord,
                Recorrecting, Own
<1>5. LastReadsIt'
    BY <1>1, <1>3 DEF WordInv, LastReadsIt, Plain, Committing, Own
<1>6. Overtaken'
    BY <1>1, <1>3 DEF WordInv, Overtaken, Runs
<1>7. Settled'
    BY <1>1, <1>3 DEF WordInv, Settled, WaitOver, WaitOK, Committing, Own
<1> QED BY <1>4, <1>5, <1>6, <1>7 DEF WordInv

(* A job with the last number passes the test.                             *)
LEMMA WordTest ==
    ASSUME PipelineInv, WordInv, Test PROVE WordInv'
<1>1. /\ running.at = "test"
      /\ running' = [running EXCEPT !.at = IF Late(Head(lane)) THEN "done" ELSE "show"]
      /\ UNCHANGED <<composer, strip, sequenceId, completed, jobs, current, lane, main,
                     committed, raced>>
    BY DEF Test
<1>2. /\ running'.at \in {"done", "show"} /\ running'.res = running.res
      /\ Seq_(Head(lane)) = sequenceId => running'.at = "show"
  <2>1. lane # <<>>
      BY <1>1, RunningHead DEF PipelineInv
  <2>2. Seq_(Head(lane)) = sequenceId => ~Late(Head(lane))
      BY <2>1, HeadFacts DEF PipelineInv, Late
  <2> QED BY <1>1, <2>2 DEF PipelineInv, LaneInv, LaneTypeOK
<1>3. CommitsOwnWord' /\ WaitOK' /\ CutWord'
    BY <1>1 DEF WordInv, CommitsOwnWord, SameWord, WaitOK, Committing, CutWord,
                Recorrecting, Own
<1>4. LastReadsIt'
    BY <1>1, <1>2 DEF WordInv, LastReadsIt, Plain, Committing, Own
<1>5. Overtaken'
    BY <1>1, <1>2 DEF WordInv, Overtaken, Runs
<1>6. Settled'
    BY <1>1, <1>2 DEF WordInv, Settled, WaitOver, Own
<1> QED BY <1>3, <1>4, <1>5, <1>6 DEF WordInv

(* What a job shows is the composed word, or it is an older job's, which   *)
(* the number completed does not hide, or it overtakes a handler.          *)
LEMMA WordShow ==
    ASSUME PipelineInv, WordInv, Show PROVE WordInv'
<1> DEFINE style == jobs[Head(lane)].style
           w == IF running.res = None /\ style \in {"update", "tail"}
                THEN strip ELSE running.res
<1>1. /\ running.at = "show"
      /\ running' = [at |-> IF style = "tail" THEN "apply" ELSE "done", res |-> w]
      /\ strip' = w
      /\ IF w = None THEN UNCHANGED <<composer, raced>>
         ELSE /\ composer' = [composer EXCEPT !.auto = w]
              /\ raced' = (w # composer.word /\ (raced \/ Recorrecting))
      /\ UNCHANGED <<sequenceId, completed, jobs, current, lane, main, committed>>
    BY DEF Show
<1>2. running.res # None => w = running.res
    OBVIOUS
<1> HIDE DEF w, style
<1>3. running'.at \in {"apply", "done"}
    BY <1>1
<1>4. /\ composer.word \in 0 .. MaxWord /\ composer.word # None
      /\ composer'.word = composer.word /\ composer'.batch = composer.batch
      /\ w # None => composer'.auto = w
      /\ w = None => composer'.auto = composer.auto
    BY <1>1, PipelineAssumption DEF PipelineInv, HandlerTypeOK, ComposerRecords
<1>5. CommitsOwnWord'
    BY <1>1 DEF WordInv, CommitsOwnWord, SameWord
<1>6. WaitOK'
    BY <1>1, <1>4 DEF WordInv, WaitOK, Committing
<1>7. w # None => /\ w = composer.word => Own(composer.auto)' /\ Own(strip)' /\ ~raced'
                  /\ w # composer.word => (raced' = (raced \/ Recorrecting))
    BY <1>1, <1>4 DEF Own
<1>8. CutWord'
  <2>1. Recorrecting' = Recorrecting
      BY <1>1 DEF Recorrecting
  <2>2. CASE w = None
      BY <1>1, <1>4, <2>1, <2>2 DEF WordInv, CutWord, Own
  <2>3. CASE w # None
      BY <1>7, <2>1, <2>3 DEF CutWord
  <2> QED BY <2>2, <2>3
<1>9. LastReadsIt'
  <2>0. /\ lane # <<>> /\ completed <= Seq_(Head(lane)) /\ Seq_(Head(lane)) <= sequenceId
        /\ Seq_(Head(lane)) \in Nat /\ sequenceId \in Nat /\ completed \in Nat
      BY <1>1, RunningHead, HeadFacts DEF PipelineInv
  <2>1. CASE Seq_(Head(lane)) # sequenceId
    <3>1. completed # sequenceId
        BY <2>0, <2>1
    <3> QED BY <1>1, <2>1, <3>1 DEF LastReadsIt
  <2>2. CASE Seq_(Head(lane)) = sequenceId
    <3>1. ASSUME Plain' PROVE (Own(composer.auto) /\ Own(strip))'
      <4>1. CASE w = composer.word
          BY <4>1, <1>4, <1>7
      <4>2. CASE w # composer.word
        <5>1. Plain
            BY <1>1, <1>4, <1>7, <3>1, <4>2 DEF Plain, Committing
        <5>2. running.res = composer.word
            BY <1>1, <2>2, <5>1 DEF WordInv, LastReadsIt
        <5> QED BY <5>2, <4>2, <1>2, <1>4
      <4> QED BY <4>1, <4>2
    <3> QED BY <1>3, <3>1 DEF LastReadsIt
  <2> QED BY <2>1, <2>2
<1>10. ASSUME main.at \in {"wait", "commit"}, ~main.cut, ~composer'.batch, ~raced',
              ~raced => running.res = composer.word
       PROVE  Own(composer.auto)'
  <2>1. CASE w = composer.word
      BY <2>1, <1>4, <1>7
  <2>2. CASE w = None /\ ~raced
      BY <2>2, <1>10, <1>2, <1>4
  <2>3. CASE w # composer.word /\ ~raced
      BY <2>3, <1>10, <1>2, <1>4
  <2>4. CASE w # composer.word /\ raced
      BY <2>4, <1>1, <1>7, <1>10
  <2> QED BY <2>1, <2>2, <2>3, <2>4 DEF PipelineInv, HandlerTypeOK
<1>11. Overtaken'
    BY <1>1, <1>3, <1>4, <1>10 DEF WordInv, Overtaken, Runs
<1>12. Settled'
    BY <1>1, <1>3, <1>4, <1>10 DEF WordInv, Settled, WaitOver
<1> QED BY <1>5, <1>6, <1>8, <1>9, <1>11, <1>12 DEF WordInv

LEMMA WordApply ==
    ASSUME PipelineInv, WordInv, Apply PROVE WordInv'
<1>1. /\ running.at = "apply" /\ running' = [running EXCEPT !.at = "done"]
      /\ UNCHANGED <<strip, sequenceId, completed, jobs, current, lane, main, committed>>
    BY DEF Apply
<1>2. running'.at = "done"
    BY <1>1 DEF PipelineInv, LaneInv, LaneTypeOK
<1>3. CommitsOwnWord'
    BY <1>1 DEF WordInv, CommitsOwnWord, SameWord
<1>4. CASE running.res \in {0, None}
  <2>1. UNCHANGED <<composer, raced>>
      BY <1>4 DEF Apply
  <2>2. WaitOK' /\ CutWord'
      BY <1>1, <2>1 DEF WordInv, WaitOK, Committing, CutWord, Recorrecting, Own
  <2>3. LastReadsIt'
      BY <1>1, <1>2, <2>1 DEF WordInv, LastReadsIt, Plain, Committing, Own
  <2>4. Overtaken'
      BY <1>1, <1>2, <2>1 DEF WordInv, Overtaken, Runs, Own
  <2>5. Settled'
      BY <1>1, <1>2, <2>1 DEF WordInv, Settled, WaitOver, Own
  <2> QED BY <1>3, <2>2, <2>3, <2>4, <2>5 DEF WordInv
<1>5. CASE running.res \notin {0, None}
  <2>1. running.res \in 0 .. MaxWord
      BY <1>5 DEF PipelineInv, LaneInv, LaneTypeOK, Shown
  <2>2. composer' = [Composing(running.res, FALSE) EXCEPT !.batch = TRUE]
      BY <1>5 DEF Apply
  <2>3. composer'.batch /\ composer'.word # 0
      BY <1>5, <2>1, <2>2, ComposerFacts
         DEF PipelineInv, HandlerTypeOK, ComposerRecords
  <2>4. WaitOK' /\ CutWord'
      BY <1>1, <2>3 DEF WordInv, WaitOK, Committing, CutWord
  <2>5. Overtaken' /\ Settled'
      BY <1>1, <1>2, <2>3 DEF WordInv, Overtaken, Settled, Runs
  <2> QED BY <1>3, <2>3, <2>4, <2>5, NotPlain DEF WordInv
<1> QED BY <1>4, <1>5

LEMMA WordCompute ==
    ASSUME PipelineInv, WordInv, Compute PROVE WordInv'
<1>1. CASE Complete
    BY <1>1, WordLeave, RunningHead DEF Complete, PipelineInv
<1> QED BY <1>1, WordBegin, WordRead, WordTest, WordShow, WordApply DEF Compute

LEMMA WordStep ==
    ASSUME PipelineInv, WordInv, [Next]_vars PROVE WordInv'
<1>1. CASE Handlers
    BY <1>1, WordEdit, WordRestart, WordPick, WordSeparator, WordStartBatch, WordBatch,
       WordCancelBatch
       DEF Handlers, UpdateBatch, EndBatch
<1>2. CASE Continue
    BY <1>2, WordRequest, WordEnsure, WordWaited, WordCommit, WordRefreshShow
       DEF Continue
<1>3. CASE HandleMessage
    BY <1>3, WordMessage
<1>4. CASE Compute
    BY <1>4, WordCompute
<1>5. CASE \E id \in Jobs : Dispatch(id)
    BY <1>5, WordDispatch
<1>6. CASE UNCHANGED vars
    BY <1>6 DEF vars, WordInv, CommitsOwnWord, SameWord, LastReadsIt, Plain, WaitOK,
                Overtaken, Settled, WaitOver, CutWord, Recorrecting, Committing, Own, Runs
<1> QED BY <1>1, <1>2, <1>3, <1>4, <1>5, <1>6 DEF Next

(* CommitsOwnWord holds in every state: a separator commits what was typed *)
(* or a correction computed from exactly that word, whatever the           *)
(* computation, the timeout, gestures and new requests do in between; but  *)
(* for a gesture's word, and for a result that overtook the handler.       *)
THEOREM OwnWordCommitted == Spec => []CommitsOwnWord
<1>1. Init => WordInv
    BY DEF Init, Idle, NoRun, WordInv, CommitsOwnWord, SameWord, LastReadsIt, Plain, WaitOK,
           Overtaken, Settled, WaitOver, CutWord, Recorrecting, Committing
<1>2. WordInv => CommitsOwnWord
    BY DEF WordInv
<1> QED BY <1>1, <1>2, PipelineInit, PipelineStep, WordStep, PTL DEF Spec

=============================================================================
