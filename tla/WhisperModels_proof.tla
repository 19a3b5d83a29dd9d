------------------------ MODULE WhisperModels_proof -------------------------
(***************************************************************************)
(* Type correctness of WhisperModels, that inference never runs on a freed *)
(* native state, and that no engine fault happens unless two loads or a    *)
(* load and a clean-up overlap, for every number of models, jobs, native   *)
(* states and clean-ups.  The invariant adds to the types what each step   *)
(* relies on: which states of a job have a model and an engine, that an    *)
(* iterator not told of a modification holds keys of the map only, and     *)
(* that an engine is in the state "freed" only inside the close task that  *)
(* frees it.  For the faults it adds who is apart from whom as long as     *)
(* nothing has overlapped: a clean-up is alone with the map, and what a    *)
(* job or the map holds is open.                                           *)
(***************************************************************************)
EXTENDS WhisperModels, SequenceTheorems, TLAPS

\* The main thread: it has something to iterate over only inside cancelAll.
MainOK ==
    /\ main \in [at : {"idle", "cancelAll", "destroy", "destroyed"} \cup CleanUps,
                 todo : SUBSET Keys, modified : BOOLEAN, engine : OrNone(Engines)]
    /\ main.at \notin {"cancelAll", "destroy"} => main.todo = {}

\* The voice window and its two jobs.
WindowOK ==
    /\ open \in BOOLEAN
    /\ loadModelJob \in OrNone(Jobs) /\ modelJob \in OrNone(Jobs)

\* Preloads and runs.
JobsOK ==
    jobs \in [Jobs -> [st : {"none", "called", "waiting", "obtain", "load", "put", "read",
                            "enter", "queued", "done"},
                      key : OrNone(Keys), engine : OrNone(Engines),
                      runs : BOOLEAN, cancelled : BOOLEAN, after : OrNone(Jobs)]]

\* A job that wants a model has its key; one that loaded or read it has it.
JobOwns ==
    \A j \in Jobs :
        /\ jobs[j].st \in {"called", "waiting", "obtain", "load", "put", "read"}
               => jobs[j].key \in Keys
        /\ jobs[j].st \in {"put", "enter"} => jobs[j].engine \in Engines

\* An open window has the job that preloads its model (FinishRecording).
OpenHasJob == open => loadModelJob \in Jobs /\ jobs[loadModelJob].key \in Keys

\* loadedModels.
MapOK == loadedModels \in [Keys -> OrNone(Engines)]

\* The native states.
EnginesOK == engines \in [Engines -> [st : {"none", "open", "freed", "closed"}, flag : BOOLEAN]]

\* The queue of the inference thread.
TasksOK == tasks \in Seq(Inferences \cup Closes) /\ native \in BOOLEAN

\* The clean-ups: one between cancel and close has the engine it closes.
CleanUpsOK ==
    /\ cleanUps \in [CleanUps -> [st : {"none", "next", "cancel", "closing", "done"},
                                  todo : SUBSET Keys, modified : BOOLEAN,
                                  engine : OrNone(Engines)]]
    /\ \A c \in CleanUps : cleanUps[c].st = "cancel" => cleanUps[c].engine \in Engines

\* The exception nobody caught.
CrashOK == crash \in {None, "modified", "freed", "missing", "closed"} /\ overlap \in BOOLEAN

\* cancelAll finds a model under every key left, unless the map was modified.
MainIterates == ~main.modified => \A k \in main.todo : loadedModels[k] # None

\* So does a clean-up.
CleanUpsIterate ==
    \A c \in CleanUps :
        ~cleanUps[c].modified => \A k \in cleanUps[c].todo : loadedModels[k] # None

\* The native call is the one of the first task; an inference has its state open.
NativeTask ==
    native => tasks # <<>> /\ (Head(tasks).kind = "infer" => engines[Head(tasks).engine].st = "open")

\* A state that is freed and still has a handle is the one being closed.
FreedInClose ==
    \A e \in Engines :
        engines[e].st = "freed" =>
            /\ native /\ tasks # <<>>
            /\ Head(tasks).kind = "close" /\ Head(tasks).engine = e

\* The inductive invariant.
IInv ==
    /\ MainOK /\ WindowOK /\ JobsOK /\ JobOwns /\ OpenHasJob /\ MapOK /\ EnginesOK
    /\ TasksOK /\ CleanUpsOK /\ CrashOK /\ MainIterates /\ CleanUpsIterate
    /\ NativeTask /\ FreedInClose

\* The records of cleanUps.
CleanUpType == [st : {"none", "next", "cancel", "closing", "done"}, todo : SUBSET Keys,
                modified : BOOLEAN, engine : OrNone(Engines)]

\* The records of jobs.
JobType == [st : {"none", "called", "waiting", "obtain", "load", "put", "read",
                  "enter", "queued", "done"},
            key : OrNone(Keys), engine : OrNone(Engines),
            runs : BOOLEAN, cancelled : BOOLEAN, after : OrNone(Jobs)]

\* The first task names an engine and a job or clean-up; the others are tasks.
LEMMA TaskFacts ==
    ASSUME TasksOK, tasks # <<>>
    PROVE  /\ Tail(tasks) \in Seq(Inferences \cup Closes)
           /\ Head(tasks).engine \in Engines
           /\ Head(tasks).kind = "infer" => Head(tasks).by \in Jobs
           /\ Head(tasks).kind = "close" => Head(tasks).by \in CleanUps
<1>1. Head(tasks) \in Inferences \cup Closes /\ Tail(tasks) \in Seq(Inferences \cup Closes)
  BY DEF TasksOK
<1> QED BY <1>1 DEF Inferences, Closes

\* Cancelling the window's jobs leaves their progress alone.
LEMMA CancelledFacts ==
    ASSUME JobsOK
    PROVE  /\ Cancelled(jobs) \in [Jobs -> JobType]
           /\ \A j \in Jobs : /\ Cancelled(jobs)[j].st = jobs[j].st
                              /\ Cancelled(jobs)[j].key = jobs[j].key
                              /\ Cancelled(jobs)[j].engine = jobs[j].engine
<1>1. ASSUME NEW j \in Jobs
      PROVE  LET J == [jobs[j] EXCEPT !.cancelled = @ \/ j \in {loadModelJob, modelJob}]
             IN  J \in JobType /\ J.st = jobs[j].st /\ J.key = jobs[j].key /\ J.engine = jobs[j].engine
  <2>1. jobs[j] \in JobType
    BY DEF JobsOK, JobType
  <2>2. (jobs[j].cancelled \/ j \in {loadModelJob, modelJob}) \in BOOLEAN
    OBVIOUS
  <2> QED BY <2>1, <2>2 DEF JobType
<1> QED BY <1>1 DEF Cancelled

\* The engine loadGGML takes is one nobody had.
LEMMA NewEngineFacts ==
    ASSUME CanLoad PROVE NewEngine \in Engines /\ engines[NewEngine].st = "none"
  BY DEF CanLoad, NewEngine

\* A task asked for last does not change the first one.
LEMMA AppendFacts ==
    ASSUME TasksOK, NEW t \in Inferences \cup Closes
    PROVE  /\ Append(tasks, t) \in Seq(Inferences \cup Closes)
           /\ Append(tasks, t) # <<>>
           /\ tasks # <<>> => Head(Append(tasks, t)) = Head(tasks)
  BY AppendProperties DEF TasksOK

\* The end of a job keeps what the others own.
LEMMA DoneFacts ==
    ASSUME JobsOK, JobOwns, NEW j \in Jobs, JobDone(j)
    PROVE  JobOwns'
<1>1. ASSUME NEW i \in Jobs
      PROVE  /\ jobs'[i].st \in {"called", "waiting", "obtain", "load", "put", "read"}
                    => jobs'[i].key \in Keys
             /\ jobs'[i].st \in {"put", "enter"} => jobs'[i].engine \in Engines
  <2>1. CASE i = j
    BY <2>1 DEF JobOwns, JobDone
  <2>2. CASE i # j
    BY <2>2 DEF JobOwns, JobDone
  <2> QED BY <2>1, <2>2
<1> QED BY <1>1 DEF JobOwns

\* startRecording: a new preload, and cancelAll over the map.
LEMMA StartRecordingStep ==
    ASSUME IInv, NEW k \in Keys, StartRecording(k)
    PROVE  IInv'
<1>1. /\ MapOK' /\ EnginesOK' /\ TasksOK' /\ CleanUpsOK' /\ CleanUpsIterate'
      /\ NativeTask' /\ FreedInClose'
  BY DEF IInv, StartRecording, window, thread, MapOK, EnginesOK, TasksOK,
     CleanUpsOK, CleanUpsIterate, NativeTask, FreedInClose
<1>2. MainOK'
  BY DEF StartRecording, MainOK, MainFree, NewJob, CanLaunch, CancelAll, InMap,
     OrNone
<1>3. WindowOK'
  BY DEF StartRecording, WindowOK, MainFree, NewJob, CanLaunch, OrNone
<1>4. JobsOK'
  BY CancelledFacts DEF IInv, StartRecording, JobsOK, JobType, Launched, OrNone
<1>5. JobOwns'
  BY DEF IInv, StartRecording, JobOwns, JobsOK, MainOK, MainFree, NewJob,
     CanLaunch, Launched, Cancelled
<1>6. OpenHasJob'
  BY DEF StartRecording, OpenHasJob, MainFree, NewJob, CanLaunch, Launched,
     Cancelled
<1>7. CrashOK'
  BY DEF StartRecording, CrashOK, MainFree, NewJob, CanLaunch
<1>8. MainIterates'
  BY DEF StartRecording, MainIterates, MainFree, NewJob, CanLaunch, CancelAll,
     InMap
<1> QED BY <1>1, <1>2, <1>3, <1>4, <1>5, <1>6, <1>7, <1>8 DEF IInv

\* finishRecording: a run behind the preload.
LEMMA FinishRecordingStep ==
    ASSUME IInv, FinishRecording
    PROVE  IInv'
<1>1. /\ MainOK' /\ MapOK' /\ EnginesOK' /\ TasksOK' /\ CleanUpsOK' /\ CrashOK'
      /\ MainIterates' /\ CleanUpsIterate' /\ NativeTask' /\ FreedInClose'
  BY DEF IInv, FinishRecording, window, thread, MainOK, MapOK, EnginesOK,
     TasksOK, CleanUpsOK, CrashOK, MainIterates, CleanUpsIterate, NativeTask,
     FreedInClose
<1>2. WindowOK'
  BY DEF IInv, FinishRecording, WindowOK, OpenHasJob, JobOwns, NewJob, OrNone
<1>3. JobsOK'
  BY DEF IInv, FinishRecording, JobsOK, WindowOK, MapOK, OpenHasJob, JobOwns,
     Launched, OrNone
<1>4. JobOwns'
  BY DEF IInv, FinishRecording, JobOwns, JobsOK, OpenHasJob, WindowOK, Launched
<1>5. OpenHasJob'
  BY DEF IInv, FinishRecording, OpenHasJob, WindowOK, JobsOK, JobOwns, Launched
<1> QED BY <1>1, <1>2, <1>3, <1>4, <1>5 DEF IInv

\* close of the window.
LEMMA CloseWindowStep ==
    ASSUME IInv, CloseWindow
    PROVE  IInv'
<1>1. /\ MapOK' /\ EnginesOK' /\ TasksOK' /\ CleanUpsOK' /\ CleanUpsIterate'
      /\ NativeTask' /\ FreedInClose'
  BY DEF IInv, CloseWindow, window, thread, MapOK, EnginesOK, TasksOK,
     CleanUpsOK, CleanUpsIterate, NativeTask, FreedInClose
<1>2. MainOK'
  BY DEF CloseWindow, MainOK, MainFree, CancelAll, InMap, OrNone
<1>3. WindowOK'
  BY DEF CloseWindow, WindowOK, MainFree, Closed, OrNone
<1>4. JobsOK'
  BY CancelledFacts DEF IInv, CloseWindow, JobsOK, JobType, Closed
<1>5. JobOwns'
  BY CancelledFacts DEF IInv, CloseWindow, Closed, JobOwns
<1>6. OpenHasJob'
  BY DEF CloseWindow, OpenHasJob, MainFree, Closed
<1>7. CrashOK'
  BY DEF CloseWindow, CrashOK, MainFree, Closed
<1>8. MainIterates'
  BY DEF CloseWindow, MainIterates, MainFree, CancelAll, InMap
<1> QED BY <1>1, <1>2, <1>3, <1>4, <1>5, <1>6, <1>7, <1>8 DEF IInv

\* cancelAll goes to the next model: the key it removes was in the map.
LEMMA CancelNextStep ==
    ASSUME IInv, NEW k \in Keys, CancelNext(k)
    PROVE  IInv'
<1>1. /\ WindowOK' /\ JobsOK' /\ JobOwns' /\ OpenHasJob' /\ MapOK' /\ EnginesOK'
      /\ TasksOK' /\ CleanUpsOK' /\ CleanUpsIterate' /\ NativeTask'
      /\ FreedInClose'
  BY DEF IInv, CancelNext, window, thread, WindowOK, JobsOK, JobOwns,
     OpenHasJob, MapOK, EnginesOK, TasksOK, CleanUpsOK, CleanUpsIterate,
     NativeTask, FreedInClose
<1>2. MainOK'
  <2>1. (IF HasHandle(loadedModels[k]) THEN loadedModels[k] ELSE None) \in OrNone(Engines)
    BY DEF IInv, MapOK, OrNone
  <2>2. CASE main.modified
    BY <2>2 DEF IInv, CancelNext, MainOK
  <2>3. CASE ~main.modified
    <3> DEFINE e == IF HasHandle(loadedModels[k]) THEN loadedModels[k] ELSE None
    <3>1. main' = [main EXCEPT !.todo = @ \ {k}, !.engine = e]
      BY <2>3 DEF CancelNext
    <3>2. main.at \in {"cancelAll", "destroy"} /\ e \in OrNone(Engines)
      BY <2>1 DEF CancelNext
    <3> HIDE DEF e
    <3> QED BY <3>1, <3>2 DEF IInv, MainOK
  <2> QED BY <2>2, <2>3
<1>3. CrashOK'
  BY DEF IInv, CancelNext, CrashOK
<1>4. MainIterates'
  <2>1. CASE main.modified
    BY <2>1 DEF CancelNext, MainIterates
  <2>2. CASE ~main.modified
    <3>1. main'.modified = main.modified /\ main'.todo = main.todo \ {k}
      BY <2>2 DEF IInv, CancelNext, MainOK
    <3> QED BY <3>1, <2>2 DEF IInv, CancelNext, MainIterates
  <2> QED BY <2>1, <2>2
<1> QED BY <1>1, <1>2, <1>3, <1>4 DEF IInv

\* cancel() sets a flag and changes the state of no engine.
LEMMA CancelNativeStep ==
    ASSUME IInv, CancelNative
    PROVE  IInv'
<1>1. /\ WindowOK' /\ JobsOK' /\ JobOwns' /\ OpenHasJob' /\ MapOK' /\ TasksOK'
      /\ CleanUpsOK' /\ CleanUpsIterate'
  BY DEF IInv, CancelNative, window, thread, WindowOK, JobsOK, JobOwns,
     OpenHasJob, MapOK, TasksOK, CleanUpsOK, CleanUpsIterate
<1>2. MainOK'
  BY DEF IInv, CancelNative, MainOK, OrNone
<1>3. EnginesOK'
  <2>1. main.engine \in Engines
    BY DEF IInv, CancelNative, MainOK, OrNone
  <2>2. [engines EXCEPT ![main.engine].flag = TRUE]
            \in [Engines -> [st : {"none", "open", "freed", "closed"}, flag : BOOLEAN]]
    BY <2>1 DEF IInv, EnginesOK
  <2> QED BY <2>2 DEF IInv, CancelNative, EnginesOK
<1>4. CrashOK'
  BY DEF IInv, CancelNative, CrashOK
<1>5. MainIterates'
  BY DEF IInv, CancelNative, MainIterates
<1>6. NativeTask'
  <2>1. ASSUME NEW e \in Engines PROVE engines'[e].st = engines[e].st
    BY DEF IInv, CancelNative, EnginesOK
  <2>2. tasks # <<>> => Head(tasks).engine \in Engines
    BY TaskFacts DEF IInv
  <2> QED BY <2>1, <2>2 DEF IInv, CancelNative, NativeTask, thread
<1>7. FreedInClose'
  <2>1. ASSUME NEW e \in Engines PROVE engines'[e].st = engines[e].st
    BY DEF IInv, CancelNative, EnginesOK
  <2> QED BY <2>1 DEF IInv, CancelNative, FreedInClose, thread
<1> QED BY <1>1, <1>2, <1>3, <1>4, <1>5, <1>6, <1>7 DEF IInv

\* The end of cancelAll.
LEMMA CancelAllDoneStep ==
    ASSUME IInv, CancelAllDone
    PROVE  IInv'
<1>1. /\ WindowOK' /\ MapOK' /\ EnginesOK' /\ TasksOK' /\ CleanUpsOK' /\ CrashOK'
      /\ CleanUpsIterate' /\ NativeTask' /\ FreedInClose'
  BY DEF IInv, CancelAllDone, window, thread, WindowOK, MapOK, EnginesOK,
     TasksOK, CleanUpsOK, CrashOK, CleanUpsIterate, NativeTask, FreedInClose
<1>2. MainOK'
  BY DEF CancelAllDone, MainOK, Idle, OrNone
<1>3. JobsOK'
  BY DEF IInv, CancelAllDone, JobsOK, WindowOK
<1>4. JobOwns'
  BY DEF IInv, CancelAllDone, JobOwns
<1>5. OpenHasJob'
  BY DEF IInv, CancelAllDone, OpenHasJob, WindowOK, window
<1>6. MainIterates'
  BY DEF CancelAllDone, MainIterates, Idle
<1> QED BY <1>1, <1>2, <1>3, <1>4, <1>5, <1>6 DEF IInv

\* onTrimMemory starts a clean-up.
LEMMA TrimMemoryStep ==
    ASSUME IInv, NEW c \in CleanUps, TrimMemory(c)
    PROVE  IInv'
<1>1. /\ MainOK' /\ WindowOK' /\ JobsOK' /\ JobOwns' /\ OpenHasJob' /\ MapOK'
      /\ EnginesOK' /\ TasksOK' /\ MainIterates' /\ NativeTask' /\ FreedInClose'
  BY DEF IInv, TrimMemory, window, thread, MainOK, WindowOK, JobsOK, JobOwns,
     OpenHasJob, MapOK, EnginesOK, TasksOK, MainIterates, NativeTask,
     FreedInClose
<1>2. CleanUpsOK'
  BY DEF IInv, TrimMemory, CleanUpsOK, Started, InMap, OrNone
<1>3. CrashOK'
  BY DEF TrimMemory, CrashOK, MainFree
<1>4. CleanUpsIterate'
  BY DEF IInv, TrimMemory, CleanUpsIterate, CleanUpsOK, Started, InMap
<1> QED BY <1>1, <1>2, <1>3, <1>4 DEF IInv

\* onDestroy.
LEMMA DestroyStep ==
    ASSUME IInv, Destroy
    PROVE  IInv'
<1>1. /\ MapOK' /\ EnginesOK' /\ TasksOK' /\ CleanUpsOK' /\ CleanUpsIterate'
      /\ NativeTask' /\ FreedInClose'
  BY DEF IInv, Destroy, window, thread, MapOK, EnginesOK, TasksOK, CleanUpsOK,
     CleanUpsIterate, NativeTask, FreedInClose
<1>2. MainOK'
  BY DEF Destroy, MainOK, MainFree, CancelAll, InMap, OrNone
<1>3. WindowOK'
  BY DEF Destroy, WindowOK, MainFree, Closed, OrNone
<1>4. JobsOK'
  BY CancelledFacts DEF IInv, Destroy, JobsOK, JobType, Closed
<1>5. JobOwns'
  BY CancelledFacts DEF IInv, Destroy, Closed, JobOwns
<1>6. OpenHasJob'
  BY DEF Destroy, OpenHasJob, MainFree, Closed
<1>7. CrashOK'
  BY DEF Destroy, CrashOK, MainFree, Closed
<1>8. MainIterates'
  BY DEF Destroy, MainIterates, MainFree, CancelAll, InMap
<1> QED BY <1>1, <1>2, <1>3, <1>4, <1>5, <1>6, <1>7, <1>8 DEF IInv

\* close() blocks the main thread on its clean-up.
LEMMA RunBlockingStep ==
    ASSUME IInv, NEW c \in CleanUps, RunBlocking(c)
    PROVE  IInv'
<1>1. /\ WindowOK' /\ JobsOK' /\ JobOwns' /\ OpenHasJob' /\ MapOK' /\ EnginesOK'
      /\ TasksOK' /\ NativeTask' /\ FreedInClose'
  BY DEF IInv, RunBlocking, window, thread, WindowOK, JobsOK, JobOwns,
     OpenHasJob, MapOK, EnginesOK, TasksOK, NativeTask, FreedInClose
<1>2. MainOK'
  BY DEF RunBlocking, MainOK, Idle, OrNone
<1>3. CleanUpsOK'
  BY DEF IInv, RunBlocking, CleanUpsOK, MapOK, MainOK, MainFree, Started, InMap
<1>4. CrashOK'
  BY DEF RunBlocking, CrashOK, MainFree
<1>5. MainIterates'
  BY DEF RunBlocking, MainIterates, Idle
<1>6. CleanUpsIterate'
  BY DEF IInv, RunBlocking, CleanUpsIterate, CleanUpsOK, MapOK, MainOK, Started,
     InMap
<1> QED BY <1>1, <1>2, <1>3, <1>4, <1>5, <1>6 DEF IInv

\* A clean-up goes to the next model.
LEMMA CleanUpNextStep ==
    ASSUME IInv, NEW c \in CleanUps, NEW k \in Keys, CleanUpNext(c, k)
    PROVE  IInv'
<1>1. /\ WindowOK' /\ JobsOK' /\ JobOwns' /\ OpenHasJob' /\ MapOK' /\ EnginesOK'
      /\ TasksOK' /\ NativeTask' /\ FreedInClose'
  BY DEF IInv, CleanUpNext, window, thread, WindowOK, JobsOK, JobOwns,
     OpenHasJob, MapOK, EnginesOK, TasksOK, NativeTask, FreedInClose
<1>2. MainOK'
  BY DEF IInv, CleanUpNext, MainOK, MapOK, CleanUpsOK
<1>3. CleanUpsOK'
  BY DEF IInv, CleanUpNext, CleanUpsOK, MapOK, MainOK
<1>4. CrashOK'
  BY DEF IInv, CleanUpNext, CrashOK, MainOK, CleanUpsOK, CleanUpsIterate
<1>5. MainIterates'
  BY DEF IInv, CleanUpNext, MainIterates, MainOK, MapOK, CleanUpsOK
<1>6. CleanUpsIterate'
  BY DEF IInv, CleanUpNext, CleanUpsIterate, CleanUpsOK, MapOK
<1> QED BY <1>1, <1>2, <1>3, <1>4, <1>5, <1>6 DEF IInv

\* It asks the inference thread to close it.
LEMMA CleanUpCloseStep ==
    ASSUME IInv, NEW c \in CleanUps, CleanUpClose(c)
    PROVE  IInv'
<1>1. /\ MainOK' /\ WindowOK' /\ JobsOK' /\ JobOwns' /\ OpenHasJob' /\ MapOK'
      /\ EnginesOK' /\ CrashOK' /\ MainIterates'
  BY DEF IInv, CleanUpClose, window, thread, MainOK, WindowOK, JobsOK, JobOwns,
     OpenHasJob, MapOK, EnginesOK, CrashOK, MainIterates
<1>2. TasksOK'
  BY DEF IInv, CleanUpClose, TasksOK, CleanUpsOK, Closes
<1>3. CleanUpsOK'
  BY DEF IInv, CleanUpClose, CleanUpsOK
<1>4. CleanUpsIterate'
  BY DEF IInv, CleanUpClose, CleanUpsIterate
<1>5. NativeTask'
  <2>1. [kind |-> "close", engine |-> cleanUps[c].engine, by |-> c] \in Closes
    BY DEF IInv, CleanUpClose, CleanUpsOK, Closes
  <2> QED BY <2>1, AppendFacts DEF IInv, CleanUpClose, NativeTask
<1>6. FreedInClose'
  <2>1. [kind |-> "close", engine |-> cleanUps[c].engine, by |-> c] \in Closes
    BY DEF IInv, CleanUpClose, CleanUpsOK, Closes
  <2> QED BY <2>1, AppendFacts DEF IInv, CleanUpClose, FreedInClose
<1> QED BY <1>1, <1>2, <1>3, <1>4, <1>5, <1>6 DEF IInv

\* It clears the map and tells every other iterator.
LEMMA CleanUpClearStep ==
    ASSUME IInv, NEW c \in CleanUps, CleanUpClear(c)
    PROVE  IInv'
<1>1. /\ WindowOK' /\ JobsOK' /\ JobOwns' /\ OpenHasJob' /\ EnginesOK' /\ TasksOK'
      /\ CrashOK' /\ NativeTask' /\ FreedInClose'
  BY DEF IInv, CleanUpClear, window, thread, WindowOK, JobsOK, JobOwns,
     OpenHasJob, EnginesOK, TasksOK, CrashOK, NativeTask, FreedInClose
<1>2. MainOK'
  BY DEF IInv, CleanUpClear, MainOK, MapOK, Idle, Resumes, MainFree
<1>3. MapOK'
  BY DEF CleanUpClear, MapOK, OrNone
<1>4. CleanUpsOK'
  <2>1. ASSUME NEW d \in CleanUps
        PROVE  /\ cleanUps'[d] \in CleanUpType
               /\ cleanUps'[d].st = "cancel" => cleanUps'[d].engine \in Engines
    <3>1. cleanUps[d] \in CleanUpType
      BY DEF IInv, CleanUpsOK, CleanUpType
    <3>2. CASE d = c
      BY <3>1, <3>2 DEF CleanUpClear, CleanUpType
    <3>3. CASE d # c
      BY <3>1, <3>3 DEF IInv, CleanUpClear, CleanUpsOK, CleanUpType
    <3> QED BY <3>2, <3>3
  <2>2. cleanUps' \in [CleanUps -> CleanUpType]
    BY <2>1 DEF CleanUpClear
  <2> QED BY <2>1, <2>2 DEF CleanUpsOK, CleanUpType
<1>5. MainIterates'
  BY DEF IInv, CleanUpClear, MainIterates, MainOK, MapOK, Idle, Resumes,
     MainFree
<1>6. CleanUpsIterate'
  BY DEF CleanUpClear, CleanUpsIterate
<1> QED BY <1>1, <1>2, <1>3, <1>4, <1>5, <1>6 DEF IInv

\* A worker starts.
LEMMA BeginStep ==
    ASSUME IInv, NEW j \in Jobs, Begin(j)
    PROVE  IInv'
<1>1. /\ MainOK' /\ WindowOK' /\ MapOK' /\ EnginesOK' /\ TasksOK' /\ CleanUpsOK'
      /\ CrashOK' /\ MainIterates' /\ CleanUpsIterate' /\ NativeTask'
      /\ FreedInClose'
  BY DEF IInv, Begin, window, thread, MainOK, WindowOK, MapOK, EnginesOK,
     TasksOK, CleanUpsOK, CrashOK, MainIterates, CleanUpsIterate, NativeTask,
     FreedInClose
<1>2. JobsOK'
  BY DEF IInv, Begin, JobsOK
<1>3. JobOwns'
  BY DEF IInv, Begin, JobOwns
<1>4. OpenHasJob'
  BY DEF IInv, Begin, OpenHasJob, window
<1> QED BY <1>1, <1>2, <1>3, <1>4 DEF IInv

\* It looks for its model.
LEMMA ContainsStep ==
    ASSUME IInv, NEW j \in Jobs, Contains(j)
    PROVE  IInv'
<1>1. /\ MainOK' /\ WindowOK' /\ MapOK' /\ EnginesOK' /\ TasksOK' /\ CleanUpsOK'
      /\ MainIterates' /\ CleanUpsIterate' /\ NativeTask' /\ FreedInClose'
  BY DEF IInv, Contains, window, thread, MainOK, WindowOK, MapOK, EnginesOK,
     TasksOK, CleanUpsOK, MainIterates, CleanUpsIterate, NativeTask,
     FreedInClose
<1>2. JobsOK'
  BY DEF IInv, Contains, JobsOK
<1>3. JobOwns'
  BY DEF IInv, Contains, JobOwns
<1>4. OpenHasJob'
  BY DEF IInv, Contains, OpenHasJob, window
<1>5. CrashOK'
  BY DEF Contains, CrashOK
<1> QED BY <1>1, <1>2, <1>3, <1>4, <1>5 DEF IInv

\* It loads a native state nobody has yet.
LEMMA LoadStep ==
    ASSUME IInv, NEW j \in Jobs, Load(j)
    PROVE  IInv'
<1>1. /\ MainOK' /\ WindowOK' /\ MapOK' /\ TasksOK' /\ CleanUpsOK' /\ CrashOK'
      /\ MainIterates' /\ CleanUpsIterate'
  BY DEF IInv, Load, window, thread, MainOK, WindowOK, MapOK, TasksOK,
     CleanUpsOK, CrashOK, MainIterates, CleanUpsIterate
<1>2. JobsOK'
  <2> DEFINE e == NewEngine
  <2>1. e \in OrNone(Engines)
    BY NewEngineFacts DEF Load, OrNone
  <2>2. jobs' = [jobs EXCEPT ![j].st = "put", ![j].engine = e]
    BY DEF Load
  <2> HIDE DEF e
  <2> DEFINE JobRecord == [st : {"none", "called", "waiting", "obtain", "load", "put", "read",
                                 "enter", "queued", "done"},
                           key : OrNone(Keys), engine : OrNone(Engines),
                           runs : BOOLEAN, cancelled : BOOLEAN, after : OrNone(Jobs)]
             w == jobs[j]
             x == [w EXCEPT !.st = "put", !.engine = e]
  <2>3. jobs \in [Jobs -> JobRecord]
    BY DEF IInv, JobsOK
  <2>4. w \in JobRecord
    BY <2>3
  <2> HIDE DEF w
  <2>5. x \in JobRecord
    BY <2>1, <2>4
  <2>6. jobs' = [jobs EXCEPT ![j] = x]
    BY <2>2, <2>3 DEF w
  <2> HIDE DEF JobRecord, x
  <2>7. jobs' \in [Jobs -> JobRecord]
    BY <2>3, <2>5, <2>6
  <2> QED BY <2>7 DEF JobsOK, JobRecord
<1>3. JobOwns'
  BY DEF IInv, Load, JobOwns, JobsOK, CanLoad, NewEngine
<1>4. OpenHasJob'
  BY DEF IInv, Load, OpenHasJob, WindowOK, JobsOK, window
<1>5. EnginesOK'
  BY DEF IInv, Load, EnginesOK
<1>6. NativeTask'
  BY DEF IInv, Load, NativeTask, TasksOK, EnginesOK, thread
<1>7. FreedInClose'
  BY DEF IInv, Load, FreedInClose, TasksOK, EnginesOK, thread
<1> QED BY <1>1, <1>2, <1>3, <1>4, <1>5, <1>6, <1>7 DEF IInv

\* It puts the model in the map; every iterator is told of a new key.
LEMMA PutModelStep ==
    ASSUME IInv, NEW j \in Jobs, PutModel(j)
    PROVE  IInv'
<1>1. /\ WindowOK' /\ EnginesOK' /\ TasksOK' /\ CrashOK' /\ NativeTask'
      /\ FreedInClose'
  BY DEF IInv, PutModel, window, thread, WindowOK, EnginesOK, TasksOK, CrashOK,
     NativeTask, FreedInClose
<1>2. MainOK'
  BY DEF IInv, PutModel, MainOK
<1>3. JobsOK'
  BY DEF IInv, PutModel, JobsOK
<1>4. JobOwns'
  BY DEF IInv, PutModel, JobOwns
<1>5. OpenHasJob'
  BY DEF IInv, PutModel, OpenHasJob, window
<1>6. MapOK'
  BY DEF IInv, PutModel, MapOK, JobsOK
<1>7. CleanUpsOK'
  <2> DEFINE added == loadedModels[jobs[j].key] = None
  <2>1. ASSUME NEW c \in CleanUps
        PROVE  /\ cleanUps'[c] \in CleanUpType
               /\ cleanUps'[c].st = "cancel" => cleanUps'[c].engine \in Engines
    <3>1. cleanUps[c] \in CleanUpType
      BY DEF IInv, CleanUpsOK, CleanUpType
    <3>2. cleanUps'[c] = [cleanUps[c] EXCEPT !.modified = @ \/ added]
      BY DEF PutModel
    <3>3. (cleanUps[c].modified \/ added) \in BOOLEAN
      OBVIOUS
    <3> HIDE DEF added
    <3> QED BY <3>1, <3>2, <3>3 DEF IInv, CleanUpsOK, CleanUpType
  <2>2. cleanUps' \in [CleanUps -> CleanUpType]
    BY <2>1 DEF PutModel
  <2> QED BY <2>1, <2>2 DEF CleanUpsOK, CleanUpType
<1>8. MainIterates'
  BY WhisperAssumption DEF IInv, PutModel, MainIterates, MainOK, JobOwns
<1>9. CleanUpsIterate'
  BY WhisperAssumption DEF IInv, PutModel, CleanUpsIterate, CleanUpsOK, JobOwns
<1> QED BY <1>1, <1>2, <1>3, <1>4, <1>5, <1>6, <1>7, <1>8, <1>9 DEF IInv

\* It reads the map.
LEMMA ReadModelStep ==
    ASSUME IInv, NEW j \in Jobs, ReadModel(j)
    PROVE  IInv'
<1>1. /\ MainOK' /\ WindowOK' /\ MapOK' /\ EnginesOK' /\ TasksOK' /\ CleanUpsOK'
      /\ MainIterates' /\ CleanUpsIterate' /\ NativeTask' /\ FreedInClose'
  BY DEF IInv, ReadModel, window, thread, MainOK, WindowOK, MapOK, EnginesOK,
     TasksOK, CleanUpsOK, MainIterates, CleanUpsIterate, NativeTask,
     FreedInClose
<1>2. JobsOK'
  BY DEF IInv, ReadModel, JobsOK
<1>3. JobOwns'
  BY DEF IInv, ReadModel, JobOwns, JobsOK
<1>4. OpenHasJob'
  BY DEF IInv, ReadModel, OpenHasJob, JobsOK, window
<1>5. CrashOK'
  BY DEF IInv, ReadModel, CrashOK
<1> QED BY <1>1, <1>2, <1>3, <1>4, <1>5 DEF IInv

\* It asks for an inference.
LEMMA EnterStep ==
    ASSUME IInv, NEW j \in Jobs, Enter(j)
    PROVE  IInv'
<1>1. /\ MainOK' /\ WindowOK' /\ MapOK' /\ EnginesOK' /\ CleanUpsOK' /\ CrashOK'
      /\ MainIterates' /\ CleanUpsIterate'
  BY DEF IInv, Enter, window, thread, MainOK, WindowOK, MapOK, EnginesOK,
     CleanUpsOK, CrashOK, MainIterates, CleanUpsIterate
<1>2. JobsOK'
  BY DEF IInv, Enter, JobsOK, WindowOK, MapOK, JobOwns
<1>3. JobOwns'
  <2>1. ASSUME NEW i \in Jobs
        PROVE  /\ jobs'[i].st \in {"called", "waiting", "obtain", "load", "put", "read"}
                     => jobs'[i].key \in Keys
               /\ jobs'[i].st \in {"put", "enter"} => jobs'[i].engine \in Engines
    <3>1. CASE i = j
      BY <3>1 DEF IInv, Enter, JobsOK
    <3>2. CASE i # j
      BY <3>2 DEF IInv, Enter, JobsOK, JobOwns
    <3> QED BY <3>1, <3>2
  <2> QED BY <2>1 DEF JobOwns
<1>4. OpenHasJob'
  BY DEF IInv, Enter, OpenHasJob, WindowOK, JobsOK, window
<1>5. TasksOK'
  BY DEF IInv, Enter, TasksOK, JobOwns, Inferences
<1>6. NativeTask'
  <2>1. [kind |-> "infer", engine |-> jobs[j].engine, by |-> j] \in Inferences
    BY DEF IInv, Enter, JobOwns, Inferences
  <2> QED BY <2>1, AppendFacts DEF IInv, Enter, NativeTask
<1>7. FreedInClose'
  <2>1. [kind |-> "infer", engine |-> jobs[j].engine, by |-> j] \in Inferences
    BY DEF IInv, Enter, JobOwns, Inferences
  <2> QED BY <2>1, AppendFacts DEF IInv, Enter, FreedInClose
<1> QED BY <1>1, <1>2, <1>3, <1>4, <1>5, <1>6, <1>7 DEF IInv

\* The inference thread drops a cancelled inference.
LEMMA DropInferStep ==
    ASSUME IInv, DropInfer
    PROVE  IInv'
<1>1. /\ MainOK' /\ WindowOK' /\ MapOK' /\ EnginesOK' /\ CleanUpsOK' /\ CrashOK'
      /\ MainIterates' /\ CleanUpsIterate'
  BY DEF IInv, DropInfer, window, thread, MainOK, WindowOK, MapOK, EnginesOK,
     CleanUpsOK, CrashOK, MainIterates, CleanUpsIterate
<1>2. JobsOK'
  <2>1. Head(tasks).by \in Jobs
    BY TaskFacts DEF IInv, DropInfer, Task
  <2> QED BY <2>1 DEF IInv, DropInfer, JobDone, JobsOK
<1>3. JobOwns'
  BY TaskFacts, DoneFacts DEF IInv, DropInfer, Task
<1>4. OpenHasJob'
  BY DEF IInv, DropInfer, OpenHasJob, WindowOK, JobsOK, TasksOK, NativeTask,
     JobDone, window
<1>5. TasksOK'
  BY DEF IInv, DropInfer, TasksOK, Task
<1>6. NativeTask'
  BY DEF DropInfer, NativeTask
<1>7. FreedInClose'
  BY DEF IInv, DropInfer, FreedInClose
<1> QED BY <1>1, <1>2, <1>3, <1>4, <1>5, <1>6, <1>7 DEF IInv

\* It begins one: a handle outside a close means an open state.
LEMMA StartInferStep ==
    ASSUME IInv, StartInfer
    PROVE  IInv'
<1>1. /\ MainOK' /\ WindowOK' /\ JobsOK' /\ JobOwns' /\ OpenHasJob' /\ MapOK'
      /\ CleanUpsOK' /\ MainIterates' /\ CleanUpsIterate'
  BY DEF IInv, StartInfer, window, thread, MainOK, WindowOK, JobsOK, JobOwns,
     OpenHasJob, MapOK, CleanUpsOK, MainIterates, CleanUpsIterate
<1>2. EnginesOK'
  BY DEF IInv, StartInfer, EnginesOK
<1>3. TasksOK'
  BY DEF IInv, StartInfer, TasksOK
<1>4. CrashOK'
  BY DEF IInv, StartInfer, CrashOK, TasksOK
<1>5. NativeTask'
  <2>1. CASE HasHandle(Head(tasks).engine)
    <3> DEFINE e == Head(tasks).engine
    <3>1. e \in Engines
      BY TaskFacts DEF IInv, StartInfer, Task
    <3>2. engines[e].st = "open"
      BY <2>1, <3>1 DEF IInv, StartInfer, HasHandle, FreedInClose
    <3> QED BY <2>1, <3>1, <3>2 DEF IInv, StartInfer, Task, EnginesOK, NativeTask
  <2>2. CASE ~HasHandle(Head(tasks).engine)
    BY <2>2 DEF StartInfer, NativeTask
  <2> QED BY <2>1, <2>2
<1>6. FreedInClose'
  BY DEF IInv, StartInfer, EnginesOK, FreedInClose
<1> QED BY <1>1, <1>2, <1>3, <1>4, <1>5, <1>6 DEF IInv

\* It ends one.
LEMMA EndInferStep ==
    ASSUME IInv, EndInfer
    PROVE  IInv'
<1>1. /\ MainOK' /\ WindowOK' /\ MapOK' /\ EnginesOK' /\ CleanUpsOK' /\ CrashOK'
      /\ MainIterates' /\ CleanUpsIterate'
  BY DEF IInv, EndInfer, window, thread, MainOK, WindowOK, MapOK, EnginesOK,
     CleanUpsOK, CrashOK, MainIterates, CleanUpsIterate
<1>2. JobsOK'
  <2>1. Head(tasks).by \in Jobs
    BY TaskFacts DEF IInv, EndInfer, Task
  <2> QED BY <2>1 DEF IInv, EndInfer, JobDone, JobsOK
<1>3. JobOwns'
  BY TaskFacts, DoneFacts DEF IInv, EndInfer, Task
<1>4. OpenHasJob'
  BY DEF IInv, EndInfer, OpenHasJob, WindowOK, JobsOK, TasksOK, JobDone, window
<1>5. TasksOK'
  BY TaskFacts DEF IInv, EndInfer, Task, TasksOK
<1>6. NativeTask'
  BY DEF EndInfer, NativeTask
<1>7. FreedInClose'
  BY DEF IInv, EndInfer, Task, FreedInClose
<1> QED BY <1>1, <1>2, <1>3, <1>4, <1>5, <1>6, <1>7 DEF IInv

\* It frees a state: no inference can be inside it.
LEMMA StartCloseStep ==
    ASSUME IInv, StartClose
    PROVE  IInv'
<1>1. /\ MainOK' /\ WindowOK' /\ JobsOK' /\ JobOwns' /\ OpenHasJob' /\ MapOK'
      /\ CleanUpsOK' /\ CrashOK' /\ MainIterates' /\ CleanUpsIterate'
  BY DEF IInv, StartClose, window, thread, MainOK, WindowOK, JobsOK, JobOwns,
     OpenHasJob, MapOK, CleanUpsOK, CrashOK, MainIterates, CleanUpsIterate
<1>2. EnginesOK'
  BY DEF IInv, StartClose, EnginesOK
<1>3. TasksOK'
  BY DEF IInv, StartClose, TasksOK
<1>4. NativeTask'
  BY DEF StartClose, NativeTask, Task
<1>5. FreedInClose'
  BY DEF IInv, StartClose, Task, FreedInClose
<1> QED BY <1>1, <1>2, <1>3, <1>4, <1>5 DEF IInv

\* It clears the handle: no state is "freed" any more.
LEMMA EndCloseStep ==
    ASSUME IInv, EndClose
    PROVE  IInv'
<1>1. /\ MainOK' /\ WindowOK' /\ JobsOK' /\ JobOwns' /\ OpenHasJob' /\ MapOK'
      /\ CrashOK' /\ MainIterates'
  BY DEF IInv, EndClose, window, thread, MainOK, WindowOK, JobsOK, JobOwns,
     OpenHasJob, MapOK, CrashOK, MainIterates
<1>2. EnginesOK'
  BY DEF IInv, EndClose, EnginesOK, TasksOK, CleanUpsOK
<1>3. TasksOK'
  BY TaskFacts DEF IInv, EndClose, Task, TasksOK
<1>4. CleanUpsOK'
  <2> DEFINE d == Head(tasks).by
  <2>1. cleanUps' = [cleanUps EXCEPT ![d].st = "next"]
    BY DEF EndClose
  <2>2. CleanUpsOK
    BY DEF IInv
  <2> HIDE DEF d
  <2> QED BY <2>1, <2>2 DEF CleanUpsOK
<1>5. CleanUpsIterate'
  <2> DEFINE d == Head(tasks).by
  <2>1. d \in CleanUps
    BY TaskFacts DEF IInv, EndClose, Task
  <2>2. ASSUME NEW c \in CleanUps
        PROVE  /\ cleanUps'[c].todo = cleanUps[c].todo
               /\ cleanUps'[c].modified = cleanUps[c].modified
               /\ cleanUps'[c].st = IF c = d THEN "next" ELSE cleanUps[c].st
    BY <2>1 DEF IInv, EndClose, CleanUpsOK
  <2> QED BY <2>2 DEF IInv, EndClose, CleanUpsIterate
<1>6. NativeTask'
  BY DEF EndClose, NativeTask
<1>7. FreedInClose'
  BY DEF IInv, EndClose, EnginesOK, FreedInClose
<1> QED BY <1>1, <1>2, <1>3, <1>4, <1>5, <1>6, <1>7 DEF IInv

\* The invariant holds when the process starts ..
LEMMA InitIInv ==
    Init => IInv
<1> SUFFICES ASSUME Init PROVE IInv
  OBVIOUS
<1>1. MainOK /\ WindowOK /\ MapOK /\ EnginesOK /\ CrashOK
  BY DEF Init, Idle, MainOK, WindowOK, MapOK, EnginesOK, CrashOK, OrNone
<1>2. JobsOK /\ JobOwns /\ OpenHasJob /\ CleanUpsOK
  BY DEF Init, JobsOK, JobOwns, OpenHasJob, CleanUpsOK, OrNone
<1>3. TasksOK /\ NativeTask
  <2>1. <<>> \in Seq(Inferences \cup Closes)
    OBVIOUS
  <2> QED BY <2>1 DEF Init, TasksOK, NativeTask
<1>4. MainIterates /\ CleanUpsIterate /\ FreedInClose
  BY DEF Init, Idle, MainIterates, CleanUpsIterate, FreedInClose
<1> QED BY <1>1, <1>2, <1>3, <1>4 DEF IInv

\* .. and every step of every thread keeps it.
LEMMA NextIInv ==
    IInv /\ [Next]_vars => IInv'
<1> SUFFICES ASSUME IInv, [Next]_vars PROVE IInv'
  OBVIOUS
<1>1. CASE User
  BY <1>1, StartRecordingStep, FinishRecordingStep, CloseWindowStep, TrimMemoryStep,
     DestroyStep DEF User
<1>2. CASE MainThread
  BY <1>2, CancelNextStep, CancelNativeStep, CancelAllDoneStep, RunBlockingStep,
     CleanUpNextStep, CleanUpCloseStep, CleanUpClearStep DEF MainThread
<1>3. ASSUME NEW j \in Jobs, Worker(j) PROVE IInv'
  BY <1>3, BeginStep, ContainsStep, LoadStep, PutModelStep, ReadModelStep, EnterStep
     DEF Worker
<1>4. CASE InferenceThread
  BY <1>4, DropInferStep, StartInferStep, EndInferStep, StartCloseStep, EndCloseStep
     DEF InferenceThread
<1>5. CASE UNCHANGED vars
  BY <1>5 DEF vars, window, thread, IInv, MainOK, WindowOK, JobsOK, JobOwns,
     OpenHasJob,
     MapOK, EnginesOK, TasksOK, CleanUpsOK, CrashOK, MainIterates, CleanUpsIterate,
     NativeTask, FreedInClose
<1> QED BY <1>1, <1>2, <1>3, <1>4, <1>5 DEF Next

\* The invariant holds in every behaviour of the models.
THEOREM IInvHolds ==
    Spec => []IInv
<1> QED BY InitIInv, NextIInv, PTL DEF Spec

\* Every variable keeps its type, for any number of models, jobs and clean-ups:
\* what the inference thread is asked to do names an engine and a caller that
\* exist.
THEOREM WhisperTypes ==
    Spec => []WhisperTypeOK
<1>1. IInv => WhisperTypeOK
  BY DEF IInv, WhisperTypeOK, MainOK, WindowOK, JobsOK, MapOK, EnginesOK,
     TasksOK,
     CleanUpsOK, CrashOK
<1> QED BY <1>1, IInvHolds, PTL

\* The inference thread never infers on a freed native state: only that thread
\* frees, and between two of its tasks no state is freed that still has a handle.
THEOREM WhisperInfersOnOpenEngine ==
    Spec => []InfersOnOpenEngine
<1>1. IInv => InfersOnOpenEngine
  BY DEF IInv, NativeTask, InfersOnOpenEngine
<1> QED BY <1>1, IInvHolds, PTL

-----------------------------------------------------------------------------
(* As long as no clean-up met another user of the models and no two jobs   *)
(* loaded the same one.                                                    *)

\* An inference in the queue is of the job that waits for it, a close of the
\* clean-up that does, and neither is there twice.
QueueOK ==
    /\ \A n \in DOMAIN tasks :
          tasks[n].kind = "infer" => /\ jobs[tasks[n].by].st = "queued"
                                     /\ jobs[tasks[n].by].engine = tasks[n].engine
    /\ \A n \in DOMAIN tasks :
          tasks[n].kind = "close" => /\ cleanUps[tasks[n].by].st = "closing"
                                     /\ cleanUps[tasks[n].by].engine = tasks[n].engine
    /\ \A m, n \in DOMAIN tasks :
          tasks[m].kind = tasks[n].kind /\ tasks[m].by = tasks[n].by => m = n

Cleans(c) == cleanUps[c].st \in {"next", "cancel", "closing"}

\* A clean-up is alone: no other one, no job that works with a model, no cancelAll.
CleansAlone ==
    \A c \in CleanUps : Cleans(c) =>
        /\ \A j \in Jobs : ~Working(j)
        /\ \A d \in CleanUps : Cleans(d) => d = c
        /\ main.at \notin {"cancelAll", "destroy"}
        /\ main.engine # None => cleanUps[c].st = "cancel"

\* A model that is loaded is not in the map, and loaded by one job.
LoadsApart ==
    \A j \in Jobs : Loading(j) =>
        /\ loadedModels[jobs[j].key] = None
        /\ \A i \in Jobs : Loading(i) /\ jobs[i].key = jobs[j].key => i = j

\* A native state that will be put in the map is open, and nobody else's.
PutsApart ==
    \A j \in Jobs : jobs[j].st = "put" =>
        /\ engines[jobs[j].engine].st = "open"
        /\ \A k \in Keys : loadedModels[k] # jobs[j].engine
        /\ \A i \in Jobs : jobs[i].st = "put" /\ jobs[i].engine = jobs[j].engine => i = j

\* A job finds its model, and infers on an open state.
JobsFind ==
    \A j \in Jobs :
        /\ jobs[j].st = "read" => loadedModels[jobs[j].key] # None
        /\ jobs[j].st \in {"enter", "queued"} =>
              jobs[j].engine # None /\ engines[jobs[j].engine].st = "open"

\* No state is in the map twice, and those in it are open but for the ones that a
\* clean-up has gone over.
MapApart == \A k, l \in InMap : loadedModels[k] = loadedModels[l] => k = l

MapOpen ==
    (\A c \in CleanUps : ~Cleans(c)) => \A k \in InMap : engines[loadedModels[k]].st = "open"

Closing(c) == cleanUps[c].st \in {"cancel", "closing"}

CleansInOrder ==
    \A c \in CleanUps : Cleans(c) =>
        /\ \A k \in cleanUps[c].todo :
              /\ loadedModels[k] # None /\ engines[loadedModels[k]].st = "open"
              /\ Closing(c) => loadedModels[k] # cleanUps[c].engine
        /\ \A k \in InMap \ cleanUps[c].todo :
              \/ Closing(c) /\ loadedModels[k] = cleanUps[c].engine
              \/ engines[loadedModels[k]].st \in {"freed", "closed"}

\* A state that is open is in the map, or will be, or will be closed.
NoneLost ==
    \A e \in Engines : engines[e].st = "open" =>
        \/ \E k \in Keys : loadedModels[k] = e
        \/ \E j \in Jobs : jobs[j].st = "put" /\ jobs[j].engine = e
        \/ \E c \in CleanUps : Closing(c) /\ cleanUps[c].engine = e

\* The state that is cancelled is open.
MainCancelsOpen == main.engine # None => engines[main.engine].st = "open"

NoFault == crash \notin {"freed", "missing", "closed"}

Apart ==
    /\ CleansAlone /\ LoadsApart /\ PutsApart /\ JobsFind /\ MapApart /\ MapOpen
    /\ CleansInOrder /\ NoneLost /\ MainCancelsOpen /\ NoFault

\* A task that names a job or a clean-up.
LEMMA TaskOf ==
    ASSUME TasksOK, NEW n \in DOMAIN tasks
    PROVE  /\ tasks[n].kind \in {"infer", "close"} /\ tasks[n].engine \in Engines
           /\ tasks[n].kind = "infer" => tasks[n].by \in Jobs
           /\ tasks[n].kind = "close" => tasks[n].by \in CleanUps
<1>1. tasks[n] \in Inferences \cup Closes
  BY DEF TasksOK
<1> QED BY <1>1 DEF Inferences, Closes

LEMMA TailTasks ==
    ASSUME TasksOK, tasks # <<>>, tasks' = Tail(tasks)
    PROVE  /\ 1 \in DOMAIN tasks /\ Head(tasks) = tasks[1]
           /\ \A n \in DOMAIN tasks' : /\ n \in Nat /\ n + 1 \in DOMAIN tasks
                                       /\ tasks'[n] = tasks[n + 1] /\ n + 1 # 1
  BY DEF TasksOK

LEMMA AppendTasks ==
    ASSUME TasksOK, NEW t \in Inferences \cup Closes, tasks' = Append(tasks, t)
    PROVE  \A n \in DOMAIN tasks' : \/ n \in DOMAIN tasks /\ tasks'[n] = tasks[n]
                                    \/ n = Len(tasks) + 1 /\ tasks'[n] = t
  BY DEF TasksOK

\* Steps that leave the queue, and who waits for it, as they are.
LEMMA QueueSame ==
    ASSUME TasksOK, QueueOK, UNCHANGED tasks,
           \A j \in Jobs : jobs[j].st = "queued" =>
                jobs'[j].st = "queued" /\ jobs'[j].engine = jobs[j].engine,
           \A c \in CleanUps : cleanUps[c].st = "closing" =>
                cleanUps'[c].st = "closing" /\ cleanUps'[c].engine = cleanUps[c].engine
    PROVE  QueueOK'
<1>1. ASSUME NEW n \in DOMAIN tasks, tasks[n].kind = "infer"
      PROVE  jobs'[tasks[n].by].st = "queued" /\ jobs'[tasks[n].by].engine = tasks[n].engine
  BY <1>1, TaskOf DEF QueueOK
<1>2. ASSUME NEW n \in DOMAIN tasks, tasks[n].kind = "close"
      PROVE  cleanUps'[tasks[n].by].st = "closing" /\ cleanUps'[tasks[n].by].engine = tasks[n].engine
  BY <1>2, TaskOf DEF QueueOK
<1> QED BY <1>1, <1>2 DEF QueueOK

\* The first task is done.
LEMMA QueueTail ==
    ASSUME TasksOK, QueueOK, tasks # <<>>, tasks' = Tail(tasks),
           \A j \in Jobs :
               jobs[j].st = "queued" /\ ~(Head(tasks).kind = "infer" /\ Head(tasks).by = j) =>
                   jobs'[j].st = "queued" /\ jobs'[j].engine = jobs[j].engine,
           \A c \in CleanUps :
               cleanUps[c].st = "closing" /\ ~(Head(tasks).kind = "close" /\ Head(tasks).by = c) =>
                   cleanUps'[c].st = "closing" /\ cleanUps'[c].engine = cleanUps[c].engine
    PROVE  QueueOK'
<1>1. ASSUME NEW n \in DOMAIN tasks'
      PROVE  /\ n + 1 \in DOMAIN tasks /\ tasks'[n] = tasks[n + 1] /\ n \in Nat
             /\ ~(tasks[n + 1].kind = Head(tasks).kind /\ tasks[n + 1].by = Head(tasks).by)
  BY TailTasks DEF QueueOK
<1>2. ASSUME NEW n \in DOMAIN tasks', tasks'[n].kind = "infer"
      PROVE  jobs'[tasks'[n].by].st = "queued" /\ jobs'[tasks'[n].by].engine = tasks'[n].engine
  <2>1. tasks'[n].by \in Jobs /\ jobs[tasks'[n].by].st = "queued"
        /\ jobs[tasks'[n].by].engine = tasks'[n].engine
    BY <1>1, <1>2, TaskOf DEF QueueOK
  <2> QED BY <1>1, <1>2, <2>1
<1>3. ASSUME NEW n \in DOMAIN tasks', tasks'[n].kind = "close"
      PROVE  /\ cleanUps'[tasks'[n].by].st = "closing"
             /\ cleanUps'[tasks'[n].by].engine = tasks'[n].engine
  <2>1. tasks'[n].by \in CleanUps /\ cleanUps[tasks'[n].by].st = "closing"
        /\ cleanUps[tasks'[n].by].engine = tasks'[n].engine
    BY <1>1, <1>3, TaskOf DEF QueueOK
  <2> QED BY <1>1, <1>3, <2>1
<1>4. ASSUME NEW m \in DOMAIN tasks', NEW n \in DOMAIN tasks',
             tasks'[m].kind = tasks'[n].kind, tasks'[m].by = tasks'[n].by
      PROVE  m = n
  <2>1. m + 1 = n + 1
    BY <1>1, <1>4 DEF QueueOK
  <2> QED BY <2>1, <1>1
<1> QED BY <1>2, <1>3, <1>4 DEF QueueOK

\* A task is asked for by a job or a clean-up that waits for none yet.
LEMMA QueueAppend ==
    ASSUME TasksOK, QueueOK, NEW t \in Inferences \cup Closes, tasks' = Append(tasks, t),
           \A j \in Jobs : jobs[j].st = "queued" =>
                jobs'[j].st = "queued" /\ jobs'[j].engine = jobs[j].engine,
           \A c \in CleanUps : cleanUps[c].st = "closing" =>
                cleanUps'[c].st = "closing" /\ cleanUps'[c].engine = cleanUps[c].engine,
           t.kind = "infer" => /\ jobs[t.by].st # "queued"
                               /\ jobs'[t.by].st = "queued" /\ jobs'[t.by].engine = t.engine,
           t.kind = "close" => /\ cleanUps[t.by].st # "closing"
                               /\ cleanUps'[t.by].st = "closing" /\ cleanUps'[t.by].engine = t.engine
    PROVE  QueueOK'
<1>1. t.kind \in {"infer", "close"}
  BY DEF Inferences, Closes
<1>2. \A n \in DOMAIN tasks : ~(tasks[n].kind = t.kind /\ tasks[n].by = t.by)
  BY <1>1 DEF QueueOK
<1>3. ASSUME NEW n \in DOMAIN tasks', tasks'[n].kind = "infer"
      PROVE  jobs'[tasks'[n].by].st = "queued" /\ jobs'[tasks'[n].by].engine = tasks'[n].engine
  <2>1. CASE n \in DOMAIN tasks /\ tasks'[n] = tasks[n]
    BY <2>1, <1>3, TaskOf DEF QueueOK
  <2> QED BY <2>1, <1>3, AppendTasks
<1>4. ASSUME NEW n \in DOMAIN tasks', tasks'[n].kind = "close"
      PROVE  /\ cleanUps'[tasks'[n].by].st = "closing"
             /\ cleanUps'[tasks'[n].by].engine = tasks'[n].engine
  <2>1. CASE n \in DOMAIN tasks /\ tasks'[n] = tasks[n]
    BY <2>1, <1>4, TaskOf DEF QueueOK
  <2> QED BY <2>1, <1>4, AppendTasks
<1>5. ASSUME NEW m \in DOMAIN tasks', NEW n \in DOMAIN tasks',
             tasks'[m].kind = tasks'[n].kind, tasks'[m].by = tasks'[n].by
      PROVE  m = n
  BY <1>2, <1>5, AppendTasks DEF QueueOK
<1> QED BY <1>3, <1>4, <1>5 DEF QueueOK

\* Every step keeps the queue in order.
LEMMA QueueKept ==
    ASSUME IInv, QueueOK, Next
    PROVE  QueueOK'
<1>1. TasksOK /\ JobsOK /\ CleanUpsOK /\ JobOwns
  BY DEF IInv
<1>2. CASE User
  <2>1. UNCHANGED tasks
    BY <1>2 DEF User, StartRecording, FinishRecording, CloseWindow, TrimMemory, Destroy, thread
  <2>2. \A j \in Jobs : jobs[j].st = "queued" =>
            jobs'[j].st = "queued" /\ jobs'[j].engine = jobs[j].engine
    <3>1. CASE \E k \in Keys : StartRecording(k)
      BY <3>1, <1>1, CancelledFacts DEF StartRecording, Launched, CanLaunch, NewJob
    <3>2. CASE FinishRecording
      BY <3>2, <1>1 DEF FinishRecording, Launched, CanLaunch, NewJob, JobsOK
    <3>3. CASE CloseWindow \/ Destroy
      BY <3>3, <1>1, CancelledFacts DEF CloseWindow, Destroy, Closed
    <3> QED BY <3>1, <3>2, <3>3, <1>2 DEF User, TrimMemory
  <2>3. \A c \in CleanUps : cleanUps[c].st = "closing" =>
            cleanUps'[c].st = "closing" /\ cleanUps'[c].engine = cleanUps[c].engine
    BY <1>1, <1>2 DEF User, StartRecording, FinishRecording, CloseWindow, TrimMemory, Destroy,
       Started, CleanUpsOK
  <2> QED BY <1>1, <2>1, <2>2, <2>3, QueueSame
<1>3. CASE MainThread
  <2>1. CASE \E c \in CleanUps : CleanUpClose(c)
    <3>1. PICK c \in CleanUps : CleanUpClose(c)
      BY <2>1
    <3> DEFINE t == [kind |-> "close", engine |-> cleanUps[c].engine, by |-> c]
    <3>2. t \in Inferences \cup Closes /\ t.kind = "close" /\ t.by = c /\ t.engine = cleanUps[c].engine
      BY <3>1, <1>1 DEF CleanUpClose, CleanUpsOK, Closes
    <3>3. /\ tasks' = Append(tasks, t) /\ UNCHANGED jobs
          /\ cleanUps[c].st = "cancel" /\ cleanUps'[c].st = "closing"
          /\ cleanUps'[c].engine = cleanUps[c].engine
          /\ \A d \in CleanUps : d # c => cleanUps'[d] = cleanUps[d]
      BY <3>1, <1>1 DEF CleanUpClose, CleanUpsOK
    <3> HIDE DEF t
    <3> QED BY <1>1, <3>2, <3>3, QueueAppend
  <2>2. CASE ~\E c \in CleanUps : CleanUpClose(c)
    <3>1. UNCHANGED tasks
      BY <1>3, <2>2 DEF MainThread, CancelNext, CancelNative, CancelAllDone, RunBlocking,
         CleanUpNext, CleanUpClear, thread
    <3>2. \A j \in Jobs : jobs[j].st = "queued" =>
              jobs'[j].st = "queued" /\ jobs'[j].engine = jobs[j].engine
      BY <1>3, <2>2 DEF MainThread, CancelNext, CancelNative, CancelAllDone, RunBlocking,
         CleanUpNext, CleanUpClear
    <3>3. \A c \in CleanUps : cleanUps[c].st = "closing" =>
              cleanUps'[c].st = "closing" /\ cleanUps'[c].engine = cleanUps[c].engine
      <4>1. CASE \E c \in CleanUps : RunBlocking(c) \/ CleanUpClear(c)
        BY <4>1, <1>1 DEF RunBlocking, CleanUpClear, Started, Resumes, CleanUpsOK
      <4>2. CASE \E c \in CleanUps : \E k \in Keys : CleanUpNext(c, k)
        BY <4>2, <1>1 DEF CleanUpNext, Resumes, CleanUpsOK
      <4> QED BY <4>1, <4>2, <1>3, <2>2 DEF MainThread, CancelNext, CancelNative, CancelAllDone
    <3> QED BY <1>1, <3>1, <3>2, <3>3, QueueSame
  <2> QED BY <2>1, <2>2
<1>4. ASSUME NEW j \in Jobs, Worker(j)
      PROVE  QueueOK'
  <2>1. CASE Enter(j) /\ ~jobs[j].cancelled
    <3> DEFINE t == [kind |-> "infer", engine |-> jobs[j].engine, by |-> j]
    <3>2. t \in Inferences \cup Closes /\ t.kind = "infer" /\ t.by = j /\ t.engine = jobs[j].engine
      BY <2>1, <1>1 DEF Enter, JobOwns, Inferences
    <3>3. /\ tasks' = Append(tasks, t) /\ UNCHANGED cleanUps
          /\ jobs[j].st = "enter" /\ jobs'[j].st = "queued"
          /\ jobs'[j].engine = jobs[j].engine
          /\ \A i \in Jobs : i # j => jobs'[i] = jobs[i]
      BY <2>1, <1>1 DEF Enter, JobsOK
    <3> HIDE DEF t
    <3> QED BY <1>1, <3>2, <3>3, QueueAppend
  <2>2. CASE ~(Enter(j) /\ ~jobs[j].cancelled)
    <3>1. UNCHANGED tasks
      BY <1>4, <2>2 DEF Worker, Begin, Contains, Load, PutModel, ReadModel, Enter, thread
    <3>2. jobs[j].st # "queued"
      BY <1>4 DEF Worker, Begin, Contains, Load, PutModel, ReadModel, Enter
    <3>3. \A i \in Jobs : i # j => jobs'[i] = jobs[i]
      BY <1>4, <1>1 DEF Worker, Begin, Contains, Load, PutModel, ReadModel, Enter, JobsOK
    <3>4. \A c \in CleanUps : /\ cleanUps'[c].st = cleanUps[c].st
                              /\ cleanUps'[c].engine = cleanUps[c].engine
      BY <1>4, <1>1 DEF Worker, Begin, Contains, Load, PutModel, ReadModel, Enter, CleanUpsOK
    <3> QED BY <1>1, <3>1, <3>2, <3>3, <3>4, QueueSame
  <2> QED BY <2>1, <2>2
<1>5. CASE InferenceThread
  <2>1. CASE StartInfer \/ StartClose
    <3>1. UNCHANGED <<tasks, jobs, cleanUps>>
      BY <2>1 DEF StartInfer, StartClose
    <3> QED BY <1>1, <3>1, QueueSame
  <2>2. CASE DropInfer \/ EndInfer
    <3>1. /\ tasks # <<>> /\ tasks' = Tail(tasks) /\ UNCHANGED cleanUps
          /\ Head(tasks).kind = "infer" /\ JobDone(Head(tasks).by)
      BY <2>2 DEF DropInfer, EndInfer, Task
    <3>2. \A j \in Jobs : j # Head(tasks).by => jobs'[j] = jobs[j]
      BY <3>1, <1>1 DEF JobDone, JobsOK
    <3> QED BY <1>1, <3>1, <3>2, QueueTail
  <2>3. CASE EndClose
    <3>1. /\ tasks # <<>> /\ tasks' = Tail(tasks) /\ UNCHANGED jobs
          /\ Head(tasks).kind = "close"
          /\ cleanUps' = [cleanUps EXCEPT ![Head(tasks).by].st = "next"]
      BY <2>3 DEF EndClose, Task
    <3>2. \A c \in CleanUps : c # Head(tasks).by => cleanUps'[c] = cleanUps[c]
      BY <3>1, <1>1 DEF CleanUpsOK
    <3> QED BY <1>1, <3>1, <3>2, QueueTail
  <2> QED BY <1>5, <2>1, <2>2, <2>3 DEF InferenceThread
<1> QED BY <1>2, <1>3, <1>4, <1>5 DEF Next

\* Jobs that are started, cancelled or done, inferences and cancels change neither
\* the map nor what is open.
JobKept(j) ==
    \/ /\ jobs'[j].st = jobs[j].st /\ jobs'[j].key = jobs[j].key
       /\ jobs'[j].engine = jobs[j].engine
    \/ /\ jobs[j].st # "put"
       /\ jobs'[j].st \notin {"load", "put", "read", "enter", "queued"}
    \/ /\ jobs[j].st \in {"read", "enter"} /\ jobs'[j].st \in {"enter", "queued"}
       /\ jobs'[j].engine # None /\ engines[jobs'[j].engine].st = "open"

LEMMA EngineOf ==
    ASSUME IInv
    PROVE  /\ \A k \in Keys : loadedModels[k] \in Engines \cup {None}
           /\ \A k \in InMap : k \in Keys /\ loadedModels[k] \in Engines
           /\ \A j \in Jobs : /\ jobs[j].st \in {"put", "enter"} => jobs[j].engine \in Engines
                              /\ jobs[j].engine \in Engines \cup {None}
           /\ \A c \in CleanUps : cleanUps[c].todo \in SUBSET Keys
           /\ None \notin Engines
  BY WhisperAssumption DEF IInv, MapOK, OrNone, InMap, JobOwns, JobsOK, CleanUpsOK

LEMMA ApartSame ==
    ASSUME IInv, IInv', Apart, UNCHANGED <<loadedModels, cleanUps>>,
           \A e \in Engines : engines'[e].st = engines[e].st,
           \A j \in Jobs : JobKept(j),
           MainCancelsOpen', NoFault',
           \A c \in CleanUps : Cleans(c) =>
               /\ main'.at \notin {"cancelAll", "destroy"}
               /\ main'.engine # None => cleanUps[c].st = "cancel"
    PROVE  Apart'
<1>1. InMap' = InMap
  BY DEF InMap
<1>2. \A c \in CleanUps : Cleans(c)' = Cleans(c) /\ Closing(c)' = Closing(c)
  BY DEF Cleans, Closing
<1>3. \A j \in Jobs : /\ Working(j)' => Working(j)
                      /\ Loading(j)' => Loading(j) /\ jobs'[j].key = jobs[j].key
                      /\ jobs[j].st = "put" => jobs'[j].st = "put"
                      /\ jobs'[j].st = "put" => jobs[j].st = "put" /\ jobs'[j].engine = jobs[j].engine
  BY DEF JobKept, Working, Loading
<1>4. CleansAlone'
  BY <1>2, <1>3 DEF Apart, CleansAlone, Cleans
<1>5. LoadsApart'
  BY <1>3 DEF Apart, LoadsApart
<1>6. PutsApart'
  BY <1>3, EngineOf DEF Apart, PutsApart
<1>7. JobsFind'
  <2>1. ASSUME NEW j \in Jobs, jobs'[j].st = "read"
        PROVE  loadedModels[jobs'[j].key] # None
    BY <2>1 DEF JobKept, Apart, JobsFind
  <2>2. ASSUME NEW j \in Jobs, jobs'[j].st \in {"enter", "queued"}
        PROVE  jobs'[j].engine # None /\ engines[jobs'[j].engine].st = "open"
    BY <2>2 DEF JobKept, Apart, JobsFind
  <2>3. \A j \in Jobs : jobs'[j].engine \in Engines \cup {None}
    BY DEF IInv, JobsOK, OrNone
  <2>4. ASSUME NEW j \in Jobs, jobs'[j].st \in {"enter", "queued"}
        PROVE  jobs'[j].engine # None /\ engines'[jobs'[j].engine].st = "open"
    BY <2>2, <2>3, <2>4
  <2> QED BY <2>1, <2>4 DEF JobsFind
<1>8. MapApart' /\ MapOpen'
  BY <1>1, <1>2, EngineOf DEF Apart, MapApart, MapOpen
<1>9. CleansInOrder'
  BY <1>1, <1>2, EngineOf DEF Apart, CleansInOrder
<1>10. NoneLost'
  BY <1>2, <1>3 DEF Apart, NoneLost
<1> QED BY <1>4, <1>5, <1>6, <1>7, <1>8, <1>9, <1>10 DEF Apart

\* The steps that change only the progress of jobs and flags.
LEMMA ApartUser ==
    ASSUME IInv, IInv', Apart, ~overlap',
           (\E k \in Keys : StartRecording(k)) \/ FinishRecording \/ CloseWindow \/ Destroy
    PROVE  Apart'
<1>1. JobsOK /\ UNCHANGED <<loadedModels, cleanUps, engines, crash>>
  BY DEF IInv, StartRecording, FinishRecording, CloseWindow, Destroy, thread
<1>2. \A j \in Jobs : JobKept(j)
  <2>1. CASE \E k \in Keys : StartRecording(k)
    BY <2>1, <1>1, CancelledFacts DEF StartRecording, Launched, CanLaunch, NewJob, JobKept
  <2>2. CASE FinishRecording
    BY <2>2, <1>1 DEF FinishRecording, Launched, CanLaunch, NewJob, JobsOK, JobKept
  <2>3. CASE CloseWindow \/ Destroy
    BY <2>3, <1>1, CancelledFacts DEF CloseWindow, Destroy, Closed, JobKept
  <2> QED BY <2>1, <2>2, <2>3
<1>3. main'.engine = None
  <2>1. CASE \E k \in Keys : StartRecording(k)
    BY <2>1 DEF StartRecording, CancelAll
  <2>2. CASE FinishRecording
    BY <2>2 DEF FinishRecording, MainFree
  <2>3. CASE CloseWindow \/ Destroy
    BY <2>3 DEF CloseWindow, Destroy, CancelAll
  <2> QED BY <2>1, <2>2, <2>3
<1>4. \A c \in CleanUps : Cleans(c) => main' = main
  <2>1. CleaningUp => FinishRecording
    BY DEF StartRecording, CloseWindow, Destroy, Closed
  <2> QED BY <2>1 DEF CleaningUp, Cleans, FinishRecording
<1>5. \A c \in CleanUps : Cleans(c) => main.at \notin {"cancelAll", "destroy"}
  BY DEF Apart, CleansAlone
<1>6. MainCancelsOpen' /\ NoFault'
  BY <1>1, <1>3 DEF MainCancelsOpen, Apart, NoFault
<1>7. \A c \in CleanUps : Cleans(c) =>
          /\ main'.at \notin {"cancelAll", "destroy"}
          /\ main'.engine # None => cleanUps[c].st = "cancel"
  BY <1>3, <1>4, <1>5
<1> QED BY <1>1, <1>2, <1>6, <1>7, ApartSame

LEMMA ApartCancel ==
    ASSUME IInv, IInv', Apart,
           (\E k \in Keys : CancelNext(k)) \/ CancelNative \/ CancelAllDone
    PROVE  Apart'
<1>1. UNCHANGED <<loadedModels, cleanUps>>
  BY DEF CancelNext, CancelNative, CancelAllDone
<1>2. \A e \in Engines : engines'[e].st = engines[e].st
  <2>1. CASE CancelNative
    <3>1. UNCHANGED engines \/ engines' = [engines EXCEPT ![main.engine].flag = TRUE]
      BY <2>1 DEF CancelNative
    <3> QED BY <3>1 DEF IInv, EnginesOK
  <2>2. CASE ~CancelNative
    BY <2>2 DEF CancelNext, CancelAllDone
  <2> QED BY <2>1, <2>2
<1>3. \A j \in Jobs : JobKept(j)
  <2>1. CASE CancelAllDone
    BY <2>1 DEF IInv, JobsOK, CancelAllDone, JobKept
  <2>2. CASE ~CancelAllDone
    BY <2>2 DEF CancelNext, CancelNative, JobKept
  <2> QED BY <2>1, <2>2
<1>4. CASE \E k \in Keys : CancelNext(k)
  <2>1. PICK k \in Keys : CancelNext(k)
    BY <1>4
  <2>2. /\ UNCHANGED engines /\ k \in main.todo /\ main.engine = None
        /\ main.at \in {"cancelAll", "destroy"}
        /\ \/ main.modified /\ crash' = "modified" /\ UNCHANGED main
           \/ /\ ~main.modified /\ UNCHANGED crash
              /\ main'.engine = IF HasHandle(loadedModels[k]) THEN loadedModels[k] ELSE None
    BY <2>1 DEF CancelNext, IInv, MainOK
  <2>3. \A c \in CleanUps : ~Cleans(c)
    BY <2>2 DEF Apart, CleansAlone
  <2>4. NoFault'
    BY <2>2 DEF Apart, NoFault
  <2>5. ~main.modified => k \in InMap /\ engines[loadedModels[k]].st = "open"
    BY <2>2, <2>3 DEF IInv, MainIterates, Apart, MapOpen, InMap
  <2>6. MainCancelsOpen'
    BY <2>2, <2>5 DEF MainCancelsOpen
  <2> QED BY <1>1, <1>2, <1>3, <2>3, <2>4, <2>6, ApartSame
<1>5. CASE CancelNative
  <2>1. main'.engine = None /\ main'.at = main.at /\ main.engine # None
    BY <1>5 DEF CancelNative, IInv, MainOK
  <2>2. MainCancelsOpen'
    BY <2>1 DEF MainCancelsOpen
  <2>3. NoFault'
    BY <1>5 DEF CancelNative, Apart, NoFault, MainCancelsOpen
  <2> QED BY <1>1, <1>2, <1>3, <2>1, <2>2, <2>3, ApartSame DEF Apart, CleansAlone
<1>6. CASE CancelAllDone
  <2>1. main'.engine = None /\ main'.at = "idle" /\ UNCHANGED crash
    BY <1>6 DEF CancelAllDone, Idle
  <2>2. MainCancelsOpen' /\ NoFault'
    BY <2>1 DEF MainCancelsOpen, Apart, NoFault
  <2> QED BY <1>1, <1>2, <1>3, <2>1, <2>2, ApartSame
<1> QED BY <1>4, <1>5, <1>6

\* What a job that waits for its inference has in the queue is open.
LEMMA InferOpen ==
    ASSUME IInv, QueueOK, Apart, Task("infer")
    PROVE  /\ Head(tasks).by \in Jobs /\ jobs[Head(tasks).by].st = "queued"
           /\ Head(tasks).engine \in Engines /\ engines[Head(tasks).engine].st = "open"
<1>1. TasksOK /\ tasks # <<>> /\ Head(tasks).kind = "infer"
  BY DEF IInv, Task
<1>2. Head(tasks) = tasks[1] /\ 1 \in DOMAIN tasks
  BY <1>1 DEF TasksOK
<1>3. /\ Head(tasks).by \in Jobs /\ jobs[Head(tasks).by].st = "queued"
      /\ jobs[Head(tasks).by].engine = Head(tasks).engine
  BY <1>1, <1>2, TaskFacts DEF QueueOK
<1> QED BY <1>1, <1>3, TaskFacts DEF Apart, JobsFind

LEMMA ApartJobs ==
    ASSUME IInv, IInv', QueueOK, Apart,
           \/ \E j \in Jobs : Begin(j) \/ ReadModel(j) \/ Enter(j)
           \/ DropInfer \/ StartInfer \/ EndInfer
    PROVE  Apart'
<1>1. UNCHANGED <<loadedModels, cleanUps, main>>
  BY DEF Begin, ReadModel, Enter, DropInfer, StartInfer, EndInfer, thread
<1>2. \A e \in Engines : engines'[e].st = engines[e].st
  <2>1. CASE StartInfer
    <3>1. UNCHANGED engines \/ engines' = [engines EXCEPT ![Head(tasks).engine].flag = FALSE]
      BY <2>1 DEF StartInfer
    <3> QED BY <3>1 DEF IInv, EnginesOK
  <2>2. CASE ~StartInfer
    <3>1. UNCHANGED engines
      BY <2>2 DEF Begin, ReadModel, Enter, DropInfer, EndInfer
    <3> QED BY <3>1
  <2> QED BY <2>1, <2>2
<1>3. JobsOK /\ JobOwns /\ JobsFind
  BY DEF IInv, Apart
<1>4. CASE \E j \in Jobs : Begin(j)
  <2>1. \A j \in Jobs : JobKept(j)
    BY <1>3, <1>4 DEF Begin, JobsOK, JobKept
  <2>2. NoFault' /\ MainCancelsOpen'
    BY <1>1, <1>4 DEF Begin, Apart, NoFault, MainCancelsOpen
  <2> QED BY <1>1, <1>2, <2>1, <2>2, ApartSame DEF Apart, CleansAlone
<1>5. CASE \E j \in Jobs : ReadModel(j)
  <2>1. PICK j \in Jobs : ReadModel(j)
    BY <1>5
  <2> DEFINE e == loadedModels[jobs[j].key]
  <2>2. jobs[j].st = "read" /\ jobs[j].key \in Keys /\ e # None /\ e \in Engines
    BY <2>1, <1>3, EngineOf DEF ReadModel, JobsFind, JobOwns
  <2>3. /\ jobs' = [jobs EXCEPT ![j].engine = e, ![j].st = IF jobs[j].runs THEN "enter" ELSE "done"]
        /\ UNCHANGED <<crash, engines>>
    BY <2>1, <2>2 DEF ReadModel
  <2>4. \A c \in CleanUps : ~Cleans(c)
    BY <2>2 DEF Apart, CleansAlone, Working
  <2>5. engines[e].st = "open"
    BY <2>2, <2>4 DEF Apart, MapOpen, InMap
  <2> HIDE DEF e
  <2>6. \A i \in Jobs : JobKept(i)
    <3>1. jobs'[j].engine = e /\ (jobs'[j].st = "enter" \/ jobs'[j].st = "done")
      BY <2>3, <1>3 DEF JobsOK
    <3>2. \A i \in Jobs : i # j => jobs'[i] = jobs[i]
      BY <2>3, <1>3 DEF JobsOK
    <3> QED BY <3>1, <3>2, <2>2, <2>5 DEF JobKept
  <2>7. NoFault' /\ MainCancelsOpen'
    BY <1>1, <2>3 DEF Apart, NoFault, MainCancelsOpen
  <2> QED BY <1>1, <1>2, <2>4, <2>6, <2>7, ApartSame
<1>6. CASE \E j \in Jobs : Enter(j)
  <2>1. \A j \in Jobs : JobKept(j)
    BY <1>3, <1>6 DEF Enter, JobsOK, JobKept, JobsFind
  <2>2. NoFault' /\ MainCancelsOpen'
    BY <1>1, <1>6 DEF Enter, Apart, NoFault, MainCancelsOpen
  <2> QED BY <1>1, <1>2, <2>1, <2>2, ApartSame DEF Apart, CleansAlone
<1>7. CASE DropInfer \/ EndInfer
  <2>1. Head(tasks).by \in Jobs /\ jobs[Head(tasks).by].st = "queued"
    BY <1>7, InferOpen DEF DropInfer, EndInfer
  <2>2. UNCHANGED <<engines, crash>> /\ jobs' = [jobs EXCEPT ![Head(tasks).by].st = "done"]
    BY <1>7 DEF DropInfer, EndInfer, JobDone
  <2>3. \A j \in Jobs : JobKept(j)
    BY <1>3, <2>1, <2>2 DEF JobsOK, JobKept
  <2>4. NoFault' /\ MainCancelsOpen'
    BY <1>1, <2>2 DEF Apart, NoFault, MainCancelsOpen
  <2> QED BY <1>1, <1>2, <2>3, <2>4, ApartSame DEF Apart, CleansAlone
<1>8. CASE StartInfer
  <2>1. engines[Head(tasks).engine].st = "open"
    BY <1>8, InferOpen DEF StartInfer
  <2>2. UNCHANGED <<crash, jobs>>
    BY <1>8, <2>1 DEF StartInfer, HasHandle
  <2>3. \A j \in Jobs : JobKept(j)
    BY <2>2 DEF JobKept
  <2>4. NoFault'
    BY <2>2 DEF Apart, NoFault
  <2>5. main.engine # None => main.engine \in Engines
    BY DEF IInv, MainOK, OrNone
  <2>6. MainCancelsOpen'
    BY <1>1, <1>2, <2>5 DEF Apart, MainCancelsOpen
  <2> QED BY <1>1, <1>2, <2>3, <2>4, <2>6, ApartSame DEF Apart, CleansAlone
<1> QED BY <1>4, <1>5, <1>6, <1>7, <1>8

\* A clean-up begins when nobody else uses the models.
LEMMA ApartStarted ==
    ASSUME IInv, IInv', Apart, NEW c \in CleanUps, Started(c), ~CleaningUp,
           \A j \in Jobs : ~Working(j),
           UNCHANGED <<jobs, loadedModels, engines, crash>>,
           main'.engine = None, main'.at \notin {"cancelAll", "destroy"}
    PROVE  Apart'
<1>1. /\ cleanUps'[c].st = "next" /\ cleanUps'[c].todo = InMap
      /\ \A d \in CleanUps : d # c => cleanUps'[d] = cleanUps[d]
  BY DEF Started, IInv, CleanUpsOK
<1>2. \A d \in CleanUps : ~Cleans(d)
  BY DEF CleaningUp, Cleans
<1>3. /\ \A d \in CleanUps : Cleans(d)' => d = c
      /\ \A d \in CleanUps : ~Closing(d)' /\ ~Closing(d)
  BY <1>1, <1>2 DEF Cleans, Closing
<1>4. InMap' = InMap
  BY DEF InMap
<1>5. CleansAlone'
  BY <1>3 DEF CleansAlone, Working
<1>6. LoadsApart' /\ PutsApart' /\ JobsFind' /\ MapApart'
  BY <1>4 DEF Apart, LoadsApart, PutsApart, JobsFind, MapApart, Loading
<1>7. MapOpen'
  BY <1>1 DEF MapOpen, Cleans
<1>8. CleansInOrder'
  BY <1>1, <1>2, <1>3, <1>4 DEF Apart, MapOpen, CleansInOrder, InMap
<1>9. NoneLost'
  BY <1>3 DEF Apart, NoneLost
<1>10. MainCancelsOpen' /\ NoFault'
  BY DEF MainCancelsOpen, Apart, NoFault
<1> QED BY <1>5, <1>6, <1>7, <1>8, <1>9, <1>10 DEF Apart

\* It cancels the next model, and will close it.
LEMMA ApartNext ==
    ASSUME IInv, IInv', Apart, NEW c \in CleanUps, NEW k \in Keys, CleanUpNext(c, k)
    PROVE  Apart'
<1>1. /\ UNCHANGED <<jobs, loadedModels, engines>> /\ main.engine = None
      /\ cleanUps[c].st = "next" /\ k \in cleanUps[c].todo /\ crash = None
  BY DEF CleanUpNext, Resumes, MainFree
<1>2. CASE cleanUps[c].modified
  <2>1. crash' = "modified" /\ UNCHANGED <<main, cleanUps>>
    BY <1>2 DEF CleanUpNext
  <2>2. MainCancelsOpen' /\ NoFault'
    BY <1>1, <2>1 DEF MainCancelsOpen, NoFault
  <2>3. \A j \in Jobs : JobKept(j)
    BY <1>1 DEF JobKept
  <2> QED BY <1>1, <2>1, <2>2, <2>3, ApartSame DEF Apart, CleansAlone
<1>3. CASE ~cleanUps[c].modified
  <2> DEFINE e == loadedModels[k]
  <2>1. /\ cleanUps' = [cleanUps EXCEPT ![c].st = "cancel", ![c].engine = e,
                                        ![c].todo = @ \ {k}]
        /\ main' = [main EXCEPT !.engine = IF HasHandle(e) THEN e ELSE None]
        /\ UNCHANGED crash
    BY <1>3 DEF CleanUpNext
  <2>2. Cleans(c)
    BY <1>1 DEF Cleans
  <2>3. e # None /\ e \in Engines /\ engines[e].st = "open" /\ k \in InMap
    BY <1>1, <2>2, EngineOf DEF Apart, CleansInOrder, InMap
  <2>4. main'.at = main.at
    <3> DEFINE x == IF HasHandle(e) THEN e ELSE None
    <3>1. main' = [main EXCEPT !.engine = x]
      BY <2>1
    <3> HIDE DEF x
    <3> QED BY <3>1 DEF IInv, MainOK
  <2>5. main'.engine = e
    <3>1. (IF HasHandle(e) THEN e ELSE None) = e
      BY <2>3 DEF HasHandle
    <3>2. main' = [main EXCEPT !.engine = e]
      BY <2>1, <3>1
    <3> QED BY <3>2 DEF IInv, MainOK
  <2> HIDE DEF e
  <2>6. /\ cleanUps'[c].st = "cancel" /\ cleanUps'[c].engine = e
        /\ cleanUps'[c].todo = cleanUps[c].todo \ {k}
        /\ \A d \in CleanUps : d # c => cleanUps'[d] = cleanUps[d]
    BY <2>1 DEF IInv, CleanUpsOK
  <2>7. InMap' = InMap
    BY <1>1 DEF InMap
  <2>8. /\ \A d \in CleanUps : Cleans(d) => d = c
        /\ \A j \in Jobs : ~Working(j)
        /\ main.at \notin {"cancelAll", "destroy"}
    BY <2>2 DEF Apart, CleansAlone
  <2>9. \A d \in CleanUps : Cleans(d)' => d = c
    BY <2>6, <2>8 DEF Cleans
  <2>10. CleansAlone'
    BY <1>1, <2>4, <2>6, <2>8, <2>9 DEF CleansAlone, Working
  <2>11. LoadsApart' /\ PutsApart' /\ JobsFind' /\ MapApart'
    BY <1>1, <2>7 DEF Apart, LoadsApart, PutsApart, JobsFind, MapApart, Loading
  <2>12. MapOpen'
    BY <2>6 DEF MapOpen, Cleans
  <2>13. CleansInOrder'
    <3>1. ASSUME NEW l \in cleanUps'[c].todo
          PROVE  loadedModels[l] # None /\ engines[loadedModels[l]].st = "open" /\ loadedModels[l] # e
      <4>1. l \in cleanUps[c].todo /\ l # k
        BY <2>6
      <4>2. loadedModels[l] # None /\ engines[loadedModels[l]].st = "open" /\ l \in InMap
        BY <4>1, <2>2, EngineOf DEF Apart, CleansInOrder, InMap
      <4> QED BY <4>1, <4>2, <2>3 DEF Apart, MapApart, e
    <3>2. ASSUME NEW l \in InMap, l \notin cleanUps'[c].todo
          PROVE  loadedModels[l] = e \/ engines[loadedModels[l]].st \in {"freed", "closed"}
      <4>1. CASE l = k
        BY <4>1 DEF e
      <4>2. CASE l # k
        <5>1. l \in InMap \ cleanUps[c].todo
          BY <4>2, <3>2, <2>6
        <5> QED BY <5>1, <1>1, <2>2 DEF Apart, CleansInOrder, Closing
      <4> QED BY <4>1, <4>2
    <3> QED BY <3>1, <3>2, <2>6, <2>7, <2>9, <1>1 DEF CleansInOrder, Closing
  <2>14. NoneLost'
    BY <1>1, <2>6 DEF Apart, NoneLost, Closing
  <2>15. MainCancelsOpen' /\ NoFault'
    BY <1>1, <2>1, <2>3, <2>5 DEF MainCancelsOpen, Apart, NoFault
  <2> QED BY <2>10, <2>11, <2>12, <2>13, <2>14, <2>15 DEF Apart
<1> QED BY <1>2, <1>3

\* It asks for the close.
LEMMA ApartClose ==
    ASSUME IInv, IInv', Apart, NEW c \in CleanUps, CleanUpClose(c)
    PROVE  Apart'
<1>1. /\ UNCHANGED <<main, jobs, loadedModels, engines, crash>> /\ main.engine = None
      /\ cleanUps[c].st = "cancel"
      /\ cleanUps'[c].st = "closing" /\ cleanUps'[c].engine = cleanUps[c].engine
      /\ cleanUps'[c].todo = cleanUps[c].todo
      /\ \A d \in CleanUps : d # c => cleanUps'[d] = cleanUps[d]
  BY DEF CleanUpClose, IInv, CleanUpsOK
<1>2. /\ \A d \in CleanUps : Cleans(d)' = Cleans(d) /\ Closing(d)' = Closing(d)
      /\ \A d \in CleanUps : /\ cleanUps'[d].todo = cleanUps[d].todo
                             /\ cleanUps'[d].engine = cleanUps[d].engine
      /\ InMap' = InMap
  BY <1>1 DEF Cleans, Closing, InMap
<1>3. CleansAlone'
  BY <1>1, <1>2 DEF Apart, CleansAlone, Working
<1>4. LoadsApart' /\ PutsApart' /\ JobsFind' /\ MapApart' /\ MapOpen'
  BY <1>1, <1>2 DEF Apart, LoadsApart, PutsApart, JobsFind, MapApart, Loading, MapOpen
<1>5. CleansInOrder'
  BY <1>1, <1>2 DEF Apart, CleansInOrder
<1>6. NoneLost' /\ MainCancelsOpen' /\ NoFault'
  BY <1>1, <1>2 DEF Apart, NoneLost, MainCancelsOpen, NoFault
<1> QED BY <1>3, <1>4, <1>5, <1>6 DEF Apart

\* It ends, and empties the map: every state in it is closed.
LEMMA ApartCleared ==
    ASSUME IInv, IInv', Apart, NEW c \in CleanUps, CleanUpClear(c)
    PROVE  Apart'
<1>1. /\ UNCHANGED <<jobs, engines, crash>> /\ main.engine = None
      /\ cleanUps[c].st = "next" /\ cleanUps[c].todo = {}
      /\ cleanUps'[c].st = "done"
      /\ \A d \in CleanUps : d # c => cleanUps'[d].st = cleanUps[d].st
      /\ \A k \in Keys : loadedModels'[k] = None
  BY DEF CleanUpClear, Resumes, MainFree, IInv, CleanUpsOK
<1>2. main'.engine = None
  BY <1>1 DEF CleanUpClear, Idle
<1>3. Cleans(c) /\ ~Closing(c)
  BY <1>1 DEF Cleans, Closing
<1>4. /\ \A j \in Jobs : ~Working(j)
      /\ \A d \in CleanUps : Cleans(d) => d = c
  BY <1>3 DEF Apart, CleansAlone
<1>5. /\ \A d \in CleanUps : ~Cleans(d)'
      /\ InMap' = {}
      /\ \A d \in CleanUps : ~Closing(d)
  BY <1>1, <1>3, <1>4 DEF Cleans, Closing, InMap
<1>6. CleansAlone' /\ CleansInOrder'
  BY <1>5 DEF CleansAlone, CleansInOrder
<1>7. LoadsApart' /\ PutsApart' /\ JobsFind'
  BY <1>1, <1>4 DEF LoadsApart, PutsApart, JobsFind, Loading, Working
<1>8. MapApart' /\ MapOpen'
  BY <1>5 DEF MapApart, MapOpen
<1>9. \A e \in Engines : engines[e].st # "open"
  <2> SUFFICES ASSUME NEW e \in Engines, engines[e].st = "open"
               PROVE  FALSE
    OBVIOUS
  <2>1. \A j \in Jobs : jobs[j].st # "put"
    BY <1>4 DEF Working
  <2>2. PICK k \in Keys : loadedModels[k] = e
    BY <1>5, <2>1 DEF Apart, NoneLost
  <2>3. k \in InMap \ cleanUps[c].todo
    BY <1>1, <2>2, EngineOf DEF InMap
  <2> QED BY <1>3, <2>2, <2>3 DEF Apart, CleansInOrder
<1>10. NoneLost' /\ MainCancelsOpen' /\ NoFault'
  BY <1>1, <1>2, <1>9 DEF NoneLost, MainCancelsOpen, Apart, NoFault
<1> QED BY <1>6, <1>7, <1>8, <1>10 DEF Apart

\* A job looks for its model: it loads it, or it will read it.
LEMMA ApartContains ==
    ASSUME IInv, IInv', Apart, ~overlap', NEW j \in Jobs, Contains(j)
    PROVE  Apart'
<1>1. /\ UNCHANGED <<main, loadedModels, engines, cleanUps, crash>>
      /\ jobs[j].st = "obtain" /\ jobs[j].key \in Keys
      /\ jobs'[j].st = IF loadedModels[jobs[j].key] = None THEN "load" ELSE "read"
      /\ jobs'[j].key = jobs[j].key
      /\ \A i \in Jobs : i # j => jobs'[i] = jobs[i]
  BY DEF Contains, IInv, JobsOK, JobOwns
<1>2. ~CleaningUp /\ \A i \in Jobs : ~(Loading(i) /\ jobs[i].key = jobs[j].key)
  BY DEF Contains
<1>3. \A c \in CleanUps : ~Cleans(c) /\ ~Cleans(c)' /\ ~Closing(c) /\ ~Closing(c)'
  BY <1>1, <1>2 DEF CleaningUp, Cleans, Closing
<1>4. InMap' = InMap
  BY <1>1 DEF InMap
<1>5. CleansAlone' /\ CleansInOrder'
  BY <1>3 DEF CleansAlone, CleansInOrder
<1>6. LoadsApart'
  <2>1. \A i \in Jobs : i # j => Loading(i)' = Loading(i)
    BY <1>1 DEF Loading
  <2>2. Loading(j)' => loadedModels[jobs[j].key] = None
    BY <1>1 DEF Loading
  <2> QED BY <1>1, <1>2, <2>1, <2>2 DEF Apart, LoadsApart
<1>7. PutsApart' /\ JobsFind'
  BY <1>1 DEF Apart, PutsApart, JobsFind
<1>8. MapApart' /\ MapOpen'
  BY <1>1, <1>3, <1>4 DEF Apart, MapApart, MapOpen
<1>9. NoneLost' /\ MainCancelsOpen' /\ NoFault'
  BY <1>1, <1>3 DEF Apart, NoneLost, MainCancelsOpen, NoFault
<1> QED BY <1>5, <1>6, <1>7, <1>8, <1>9 DEF Apart

\* While a job works with a model, no clean-up is on its way.
LEMMA NoCleanUp ==
    ASSUME Apart, NEW j \in Jobs, Working(j)
    PROVE  /\ \A c \in CleanUps : ~Cleans(c) /\ ~Closing(c)
           /\ \A k \in InMap : engines[loadedModels[k]].st = "open"
  BY DEF Apart, CleansAlone, MapOpen, Cleans, Closing

LEMMA ApartLoad ==
    ASSUME IInv, IInv', Apart, NEW j \in Jobs, Load(j)
    PROVE  Apart'
<1> DEFINE e == NewEngine
<1>1. e \in Engines /\ engines[e].st = "none"
  BY NewEngineFacts DEF Load
<1>2. /\ engines' = [engines EXCEPT ![e].st = "open"]
      /\ jobs' = [jobs EXCEPT ![j].st = "put", ![j].engine = e]
      /\ UNCHANGED <<main, loadedModels, cleanUps, crash>> /\ jobs[j].st = "load"
  BY DEF Load
<1> HIDE DEF e
<1>3. /\ engines'[e].st = "open"
      /\ \A x \in Engines : x # e => engines'[x] = engines[x]
      /\ jobs'[j].st = "put" /\ jobs'[j].engine = e /\ jobs'[j].key = jobs[j].key
      /\ \A i \in Jobs : i # j => jobs'[i] = jobs[i]
  BY <1>1, <1>2 DEF IInv, EnginesOK, JobsOK
<1>4. /\ \A c \in CleanUps : ~Cleans(c) /\ ~Closing(c) /\ ~Cleans(c)' /\ ~Closing(c)'
      /\ \A k \in InMap : engines[loadedModels[k]].st = "open"
      /\ InMap' = InMap
  BY <1>2, NoCleanUp DEF Working, Cleans, Closing, InMap
<1>5. \A x \in Engines : engines[x].st = "open" => x # e /\ engines'[x].st = "open"
  BY <1>1, <1>3
<1>6. CleansAlone' /\ CleansInOrder'
  BY <1>4 DEF CleansAlone, CleansInOrder
<1>7. LoadsApart'
  <2>1. \A i \in Jobs : (Loading(i)' <=> Loading(i)) /\ jobs'[i].key = jobs[i].key
    <3>1. Loading(j)' /\ Loading(j)
      BY <1>2, <1>3 DEF Loading
    <3>2. \A i \in Jobs : i # j => (Loading(i)' <=> Loading(i)) /\ jobs'[i].key = jobs[i].key
      BY <1>3 DEF Loading
    <3> QED BY <3>1, <3>2, <1>3
  <2> QED BY <1>2, <2>1 DEF Apart, LoadsApart
<1>8. \A k \in Keys : loadedModels[k] # e
  BY <1>1, <1>4, <1>5, EngineOf DEF InMap
<1>9. PutsApart'
  <2>1. ASSUME NEW i \in Jobs, i # j, jobs'[i].st = "put"
        PROVE  /\ jobs'[i] = jobs[i] /\ jobs[i].st = "put" /\ jobs[i].engine \in Engines
               /\ engines[jobs[i].engine].st = "open" /\ jobs[i].engine # e
               /\ \A k \in Keys : loadedModels[k] # jobs[i].engine
    BY <2>1, <1>1, <1>3, EngineOf DEF Apart, PutsApart
  <2>2. ASSUME NEW i \in Jobs, jobs'[i].st = "put"
        PROVE  /\ engines'[jobs'[i].engine].st = "open"
               /\ \A k \in Keys : loadedModels'[k] # jobs'[i].engine
    <3>1. CASE i = j
      BY <3>1, <1>2, <1>3, <1>8
    <3>2. CASE i # j
      <4>1. /\ jobs'[i] = jobs[i] /\ jobs[i].engine \in Engines
            /\ engines[jobs[i].engine].st = "open"
            /\ \A k \in Keys : loadedModels[k] # jobs[i].engine
        BY <3>2, <2>1, <2>2
      <4>2. engines'[jobs[i].engine].st = "open"
        BY <4>1, <1>5
      <4> QED BY <4>1, <4>2, <1>2
    <3> QED BY <3>1, <3>2
  <2>3. ASSUME NEW h \in Jobs, NEW i \in Jobs, jobs'[h].st = "put", jobs'[i].st = "put",
               jobs'[i].engine = jobs'[h].engine
        PROVE  i = h
    BY <2>1, <2>3, <1>3 DEF Apart, PutsApart
  <2> QED BY <2>2, <2>3 DEF PutsApart
<1>10. JobsFind'
  <2>1. \A i \in Jobs : jobs'[i].st \in {"read", "enter", "queued"} => i # j /\ jobs'[i] = jobs[i]
    BY <1>3
  <2>2. ASSUME NEW i \in Jobs, jobs'[i].st = "read" PROVE loadedModels'[jobs'[i].key] # None
    BY <1>2, <2>1, <2>2 DEF Apart, JobsFind
  <2>3. ASSUME NEW i \in Jobs, jobs'[i].st \in {"enter", "queued"}
        PROVE  jobs'[i].engine # None /\ engines'[jobs'[i].engine].st = "open"
    <3>1. /\ jobs'[i] = jobs[i] /\ jobs[i].engine # None
          /\ engines[jobs[i].engine].st = "open"
      BY <2>1, <2>3 DEF Apart, JobsFind
    <3>2. jobs[i].engine \in Engines
      BY <3>1, EngineOf
    <3> QED BY <1>5, <3>1, <3>2
  <2> QED BY <2>2, <2>3 DEF JobsFind
<1>11. MapApart' /\ MapOpen'
  BY <1>2, <1>4, <1>5, EngineOf DEF Apart, MapApart, MapOpen
<1>12. NoneLost'
  <2> SUFFICES ASSUME NEW x \in Engines, engines'[x].st = "open"
               PROVE  \/ \E k \in Keys : loadedModels'[k] = x
                      \/ \E i \in Jobs : jobs'[i].st = "put" /\ jobs'[i].engine = x
    BY DEF NoneLost
  <2>1. CASE x = e
    BY <2>1, <1>3
  <2>2. CASE x # e
    <3>1. engines[x].st = "open"
      BY <2>2, <1>3
    <3>2. \/ \E k \in Keys : loadedModels[k] = x
          \/ \E i \in Jobs : jobs[i].st = "put" /\ jobs[i].engine = x
      BY <3>1, <1>4 DEF Apart, NoneLost
    <3>3. \A i \in Jobs : jobs[i].st = "put" => jobs'[i] = jobs[i]
      BY <1>2, <1>3
    <3> QED BY <3>2, <3>3, <1>2
  <2> QED BY <2>1, <2>2
<1>13. MainCancelsOpen' /\ NoFault'
  <2>1. main.engine # None => main.engine \in Engines
    BY DEF IInv, MainOK, OrNone
  <2> QED BY <1>2, <1>5, <2>1 DEF Apart, MainCancelsOpen, NoFault
<1> QED BY <1>6, <1>7, <1>9, <1>10, <1>11, <1>12, <1>13 DEF Apart

LEMMA ApartPut ==
    ASSUME IInv, IInv', Apart, NEW j \in Jobs, PutModel(j)
    PROVE  Apart'
<1> DEFINE key == jobs[j].key
           e   == jobs[j].engine
<1>1. /\ loadedModels' = [loadedModels EXCEPT ![key] = e]
      /\ jobs' = [jobs EXCEPT ![j].st = "read"] /\ jobs[j].st = "put"
      /\ UNCHANGED <<engines, crash>>
      /\ key \in Keys /\ e \in Engines
  BY DEF PutModel, IInv, JobOwns
<1>2. main'.at = main.at /\ main'.engine = main.engine
  <2> DEFINE x == main.modified \/ loadedModels[key] = None
  <2>1. main' = [main EXCEPT !.modified = x]
    BY DEF PutModel
  <2> HIDE DEF x
  <2> QED BY <2>1 DEF IInv, MainOK
<1>3. \A c \in CleanUps : ~Cleans(c) /\ ~Cleans(c)' /\ ~Closing(c) /\ ~Closing(c)'
  <2>1. \A c \in CleanUps : cleanUps'[c].st = cleanUps[c].st
    <3> SUFFICES ASSUME NEW c \in CleanUps PROVE cleanUps'[c].st = cleanUps[c].st
      OBVIOUS
    <3> DEFINE x == cleanUps[c].modified \/ loadedModels[key] = None
    <3>1. cleanUps'[c] = [cleanUps[c] EXCEPT !.modified = x]
      BY DEF PutModel
    <3> HIDE DEF x
    <3> QED BY <3>1 DEF IInv, CleanUpsOK
  <2>2. \A c \in CleanUps : ~Cleans(c) /\ ~Closing(c)
    BY <1>1, NoCleanUp DEF Working
  <2> QED BY <2>1, <2>2 DEF Cleans, Closing
<1>4. \A k \in InMap : engines[loadedModels[k]].st = "open"
  BY <1>1, NoCleanUp DEF Working
<1>5. /\ loadedModels[key] = None /\ engines[e].st = "open"
      /\ \A i \in Jobs : Loading(i) /\ jobs[i].key = key => i = j
      /\ \A k \in Keys : loadedModels[k] # e
      /\ \A i \in Jobs : jobs[i].st = "put" /\ jobs[i].engine = e => i = j
  BY <1>1 DEF Apart, LoadsApart, PutsApart, Loading
<1> HIDE DEF key, e
<1>6. /\ jobs'[j].st = "read" /\ jobs'[j].key = key /\ jobs'[j].engine = e
      /\ \A i \in Jobs : i # j => jobs'[i] = jobs[i]
  BY <1>1 DEF IInv, JobsOK, key, e
<1>7. /\ loadedModels'[key] = e
      /\ \A k \in Keys : k # key => loadedModels'[k] = loadedModels[k]
      /\ e # None
  BY <1>1, EngineOf DEF IInv, MapOK
<1>8. \A k \in InMap' : k = key \/ (k # key /\ k \in InMap)
  BY <1>7 DEF InMap
<1>9. CleansAlone' /\ CleansInOrder'
  BY <1>3 DEF CleansAlone, CleansInOrder
<1>10. LoadsApart'
  <2>1. \A i \in Jobs : Loading(i)' => i # j /\ Loading(i) /\ jobs'[i].key = jobs[i].key
                                       /\ jobs[i].key # key
    BY <1>5, <1>6 DEF Loading
  <2>2. \A i \in Jobs : Loading(i)' => jobs[i].key \in Keys
    BY <2>1 DEF IInv, JobOwns, Loading
  <2> QED BY <1>7, <2>1, <2>2 DEF Apart, LoadsApart
<1>11. PutsApart'
  <2>1. \A i \in Jobs : jobs'[i].st = "put" => i # j /\ jobs'[i] = jobs[i] /\ jobs[i].engine # e
    BY <1>5, <1>6
  <2> QED BY <1>1, <1>7, <2>1 DEF Apart, PutsApart
<1>12. JobsFind'
  <2>1. \A i \in Jobs : i # j /\ jobs[i].st = "read" => jobs[i].key \in Keys
    BY DEF IInv, JobOwns
  <2> QED BY <1>1, <1>6, <1>7, <2>1 DEF Apart, JobsFind
<1>13. MapApart'
  BY <1>5, <1>7, <1>8, EngineOf DEF Apart, MapApart
<1>14. MapOpen'
  BY <1>1, <1>4, <1>5, <1>7, <1>8, EngineOf DEF MapOpen
<1>15. NoneLost'
  <2> SUFFICES ASSUME NEW x \in Engines, engines'[x].st = "open"
               PROVE  \/ \E k \in Keys : loadedModels'[k] = x
                      \/ \E i \in Jobs : jobs'[i].st = "put" /\ jobs'[i].engine = x
    BY DEF NoneLost
  <2>1. CASE x = e
    BY <2>1, <1>1, <1>7
  <2>2. CASE x # e
    <3>1. \/ \E k \in Keys : loadedModels[k] = x
          \/ \E i \in Jobs : jobs[i].st = "put" /\ jobs[i].engine = x
      BY <1>1, <1>3 DEF Apart, NoneLost
    <3>2. CASE \E k \in Keys : loadedModels[k] = x
      <4>1. PICK k \in Keys : loadedModels[k] = x
        BY <3>2
      <4>2. k # key
        BY <4>1, <1>5, EngineOf
      <4> QED BY <4>1, <4>2, <1>7
    <3>3. CASE \E i \in Jobs : jobs[i].st = "put" /\ jobs[i].engine = x
      BY <3>3, <2>2, <1>6 DEF e
    <3> QED BY <3>1, <3>2, <3>3
  <2> QED BY <2>1, <2>2
<1>16. MainCancelsOpen' /\ NoFault'
  BY <1>1, <1>2 DEF Apart, MainCancelsOpen, NoFault
<1> QED BY <1>9, <1>10, <1>11, <1>12, <1>13, <1>14, <1>15, <1>16 DEF Apart

\* The state that is closed is the one of the clean-up that waits for it.
LEMMA CloseOf ==
    ASSUME IInv, QueueOK, Apart, Task("close")
    PROVE  /\ Head(tasks).by \in CleanUps /\ Head(tasks).engine \in Engines
           /\ cleanUps[Head(tasks).by].st = "closing"
           /\ cleanUps[Head(tasks).by].engine = Head(tasks).engine
           /\ \A j \in Jobs : ~Working(j)
           /\ \A d \in CleanUps : Cleans(d) => d = Head(tasks).by
           /\ main.at \notin {"cancelAll", "destroy"} /\ main.engine = None
<1>1. TasksOK /\ tasks # <<>> /\ Head(tasks).kind = "close"
  BY DEF IInv, Task
<1>2. Head(tasks) = tasks[1] /\ 1 \in DOMAIN tasks
  BY <1>1 DEF TasksOK
<1>3. /\ Head(tasks).by \in CleanUps /\ Head(tasks).engine \in Engines
      /\ cleanUps[Head(tasks).by].st = "closing"
      /\ cleanUps[Head(tasks).by].engine = Head(tasks).engine
  BY <1>1, <1>2, TaskFacts DEF QueueOK
<1>4. Cleans(Head(tasks).by)
  BY <1>3 DEF Cleans
<1> QED BY <1>3, <1>4 DEF Apart, CleansAlone

LEMMA ApartClosed ==
    ASSUME IInv, IInv', QueueOK, Apart, StartClose \/ EndClose
    PROVE  Apart'
<1> DEFINE c == Head(tasks).by
           e == Head(tasks).engine
<1>1. /\ c \in CleanUps /\ e \in Engines
      /\ cleanUps[c].st = "closing" /\ cleanUps[c].engine = e
      /\ \A j \in Jobs : ~Working(j)
      /\ \A d \in CleanUps : Cleans(d) => d = c
      /\ main.at \notin {"cancelAll", "destroy"} /\ main.engine = None
  BY CloseOf DEF StartClose, EndClose
<1>2. /\ UNCHANGED <<main, jobs, loadedModels, crash>>
      /\ \E st \in {"freed", "closed"} : engines' = [engines EXCEPT ![e].st = st]
      /\ \/ UNCHANGED cleanUps /\ engines' = [engines EXCEPT ![e].st = "freed"]
         \/ /\ cleanUps' = [cleanUps EXCEPT ![c].st = "next"]
            /\ engines' = [engines EXCEPT ![e].st = "closed"]
  BY DEF StartClose, EndClose
<1> HIDE DEF c, e
<1>3. /\ engines'[e].st \in {"freed", "closed"}
      /\ \A x \in Engines : x # e => engines'[x] = engines[x]
  BY <1>1, <1>2 DEF IInv, EnginesOK
<1>4. /\ cleanUps'[c].st \in {"closing", "next"} /\ cleanUps'[c].todo = cleanUps[c].todo
      /\ cleanUps'[c].engine = e
      /\ \A d \in CleanUps : d # c => cleanUps'[d] = cleanUps[d]
  BY <1>1, <1>2 DEF IInv, CleanUpsOK
<1>5. \A d \in CleanUps : Cleans(d)' => d = c
  BY <1>1, <1>4 DEF Cleans
<1>6. InMap' = InMap /\ Cleans(c) /\ Closing(c) /\ cleanUps'[c].st \in {"next", "closing"}
  <2>1. InMap' = InMap
    BY <1>2 DEF InMap
  <2> QED BY <2>1, <1>1, <1>4 DEF Cleans, Closing
<1>7. CleansAlone'
  BY <1>1, <1>2, <1>5 DEF CleansAlone, Working
<1>8. LoadsApart' /\ PutsApart' /\ JobsFind'
  BY <1>1, <1>2 DEF LoadsApart, PutsApart, JobsFind, Loading, Working
<1>9. MapApart' /\ MapOpen'
  <2>1. MapApart'
    BY <1>2, <1>6 DEF Apart, MapApart
  <2>2. MapOpen'
    BY <1>1, <1>6 DEF MapOpen, Cleans
  <2> QED BY <2>1, <2>2
<1>10. CleansInOrder'
  <2>1. \A k \in cleanUps[c].todo : /\ loadedModels[k] # None /\ loadedModels[k] # e
                                    /\ engines[loadedModels[k]].st = "open"
                                    /\ loadedModels[k] \in Engines
    BY <1>1, <1>6, EngineOf DEF Apart, CleansInOrder
  <2>2. ASSUME NEW k \in InMap, k \notin cleanUps[c].todo
        PROVE  engines'[loadedModels[k]].st \in {"freed", "closed"}
    <3>1. loadedModels[k] = e \/ engines[loadedModels[k]].st \in {"freed", "closed"}
      BY <2>2, <1>1, <1>6 DEF Apart, CleansInOrder
    <3> QED BY <3>1, <1>3, EngineOf
  <2> QED BY <2>1, <2>2, <1>2, <1>3, <1>4, <1>5, <1>6 DEF CleansInOrder
<1>11. NoneLost'
  <2> SUFFICES ASSUME NEW x \in Engines, engines'[x].st = "open"
               PROVE  \E k \in Keys : loadedModels'[k] = x
    BY DEF NoneLost
  <2>1. x # e /\ engines[x].st = "open"
    BY <1>3
  <2>2. \A d \in CleanUps : Closing(d) => d = c
    BY <1>1 DEF Closing, Cleans
  <2>3. \A j \in Jobs : jobs[j].st # "put"
    BY <1>1 DEF Working
  <2> QED BY <1>1, <1>2, <2>1, <2>2, <2>3 DEF Apart, NoneLost
<1>12. MainCancelsOpen' /\ NoFault'
  BY <1>1, <1>2 DEF MainCancelsOpen, Apart, NoFault
<1> QED BY <1>7, <1>8, <1>9, <1>10, <1>11, <1>12 DEF Apart

\* overlap is never taken back, and until it is set every step keeps the models apart.
LEMMA OverlapStays ==
    ASSUME IInv, Next, overlap
    PROVE  overlap'
<1>1. CASE User
  BY <1>1 DEF User, StartRecording, FinishRecording, CloseWindow, TrimMemory, Destroy, Closed
<1>2. CASE MainThread
  BY <1>2 DEF MainThread, CancelNext, CancelNative, CancelAllDone, RunBlocking, CleanUpNext,
     CleanUpClose, CleanUpClear
<1>3. CASE \E j \in Jobs : Worker(j)
  BY <1>3 DEF Worker, Begin, Contains, Load, PutModel, ReadModel, Enter
<1>4. CASE InferenceThread
  BY <1>4 DEF InferenceThread, DropInfer, StartInfer, EndInfer, StartClose, EndClose
<1> QED BY <1>1, <1>2, <1>3, <1>4 DEF Next

LEMMA ApartKept ==
    ASSUME IInv, IInv', QueueOK, Apart, Next, ~overlap'
    PROVE  Apart'
<1>1. ASSUME NEW c \in CleanUps, TrimMemory(c)
      PROVE  Apart'
  <2>1. /\ Started(c) /\ ~CleaningUp /\ \A j \in Jobs : ~Working(j)
        /\ UNCHANGED <<main, jobs, loadedModels, engines, crash>>
        /\ main.engine = None /\ main.at = "idle"
    BY <1>1 DEF TrimMemory, MainFree
  <2> QED BY <2>1, ApartStarted
<1>2. ASSUME NEW c \in CleanUps, RunBlocking(c)
      PROVE  Apart'
  <2>1. /\ Started(c) /\ ~CleaningUp /\ \A j \in Jobs : ~Working(j)
        /\ UNCHANGED <<jobs, loadedModels, engines, crash>>
        /\ main'.engine = None /\ main'.at = c
    BY <1>2 DEF RunBlocking, Idle
  <2>2. c \notin {"cancelAll", "destroy"}
    BY WhisperAssumption
  <2> QED BY <2>1, <2>2, ApartStarted
<1>3. CASE User
  BY <1>1, <1>3, ApartUser DEF User
<1>4. CASE MainThread
  BY <1>2, <1>4, ApartCancel, ApartNext, ApartClose, ApartCleared DEF MainThread
<1>5. CASE \E j \in Jobs : Worker(j)
  BY <1>5, ApartJobs, ApartContains, ApartLoad, ApartPut DEF Worker
<1>6. CASE InferenceThread
  BY <1>6, ApartJobs, ApartClosed DEF InferenceThread
<1> QED BY <1>3, <1>4, <1>5, <1>6 DEF Next

\* The invariant with the queue, and with what holds until users of the models meet.
FaultInv == IInv /\ QueueOK /\ (~overlap => Apart)

LEMMA InitFaultInv ==
    Init => FaultInv
<1> SUFFICES ASSUME Init PROVE FaultInv
  OBVIOUS
<1>1. /\ main.at = "idle" /\ main.engine = None /\ crash = None
      /\ \A j \in Jobs : jobs[j].st = "none"
      /\ \A k \in Keys : loadedModels[k] = None
      /\ \A e \in Engines : engines[e].st = "none"
      /\ \A c \in CleanUps : cleanUps[c].st = "none"
      /\ tasks = <<>>
  BY DEF Init, Idle
<1>2. QueueOK
  BY <1>1 DEF QueueOK
<1>3. InMap = {}
  BY <1>1 DEF InMap
<1>4. \A c \in CleanUps : ~Cleans(c)
  BY <1>1 DEF Cleans
<1>5. CleansAlone /\ LoadsApart /\ PutsApart /\ JobsFind
  BY <1>1, <1>4 DEF CleansAlone, LoadsApart, PutsApart, JobsFind, Loading
<1>6. MapApart /\ MapOpen /\ CleansInOrder /\ NoneLost /\ MainCancelsOpen
  BY <1>1, <1>3, <1>4 DEF MapApart, MapOpen, CleansInOrder, NoneLost, MainCancelsOpen
<1>7. NoFault
  BY <1>1, WhisperAssumption DEF NoFault
<1> QED BY <1>2, <1>5, <1>6, <1>7, InitIInv DEF FaultInv, Apart

LEMMA NextFaultInv ==
    FaultInv /\ [Next]_vars => FaultInv'
<1> SUFFICES ASSUME FaultInv, [Next]_vars PROVE FaultInv'
  OBVIOUS
<1>1. IInv'
  BY NextIInv DEF FaultInv
<1>2. CASE Next
  <2>1. QueueOK'
    BY <1>2, QueueKept DEF FaultInv
  <2>2. ~overlap' => Apart'
    BY <1>1, <1>2, OverlapStays, ApartKept DEF FaultInv
  <2> QED BY <1>1, <2>1, <2>2 DEF FaultInv
<1>3. CASE UNCHANGED vars
  <2>1. UNCHANGED <<main, open, loadModelJob, modelJob, jobs, loadedModels, engines, tasks,
                    native, cleanUps, crash, overlap>>
    BY <1>3 DEF vars, window, thread
  <2>2. QueueOK'
    BY <2>1 DEF FaultInv, QueueOK
  <2>3. InMap' = InMap
    BY <2>1 DEF InMap
  <2>4. Apart => CleansAlone' /\ LoadsApart' /\ PutsApart' /\ JobsFind'
    BY <2>1 DEF Apart, CleansAlone, LoadsApart, PutsApart, JobsFind, Cleans, Working, Loading
  <2>5. Apart => MapApart' /\ MapOpen' /\ CleansInOrder' /\ NoneLost'
    BY <2>1, <2>3 DEF Apart, MapApart, MapOpen, CleansInOrder, NoneLost, Cleans, Closing
  <2>6. Apart => MainCancelsOpen' /\ NoFault'
    BY <2>1 DEF Apart, MainCancelsOpen, NoFault
  <2> QED BY <1>1, <2>1, <2>2, <2>4, <2>5, <2>6 DEF FaultInv, Apart
<1> QED BY <1>2, <1>3

\* Whatever windows are opened, restarted and closed while models load and infer: a
\* native state is lost, cancelled when it is freed, or missing or closed when it is
\* wanted, only after a clean-up met another user of ModelManager's map or two jobs
\* loaded the same model.
THEOREM WhisperFaultsNeedOverlap ==
    Spec => []FaultsNeedOverlap
<1>1. FaultInv => FaultsNeedOverlap
  <2> SUFFICES ASSUME FaultInv, ~overlap
               PROVE  crash \notin {"freed", "missing", "closed"} /\ Lost = {}
    BY DEF FaultsNeedOverlap
  <2>1. Apart
    BY DEF FaultInv
  <2>2. Lost = {}
    BY <2>1 DEF Apart, NoneLost, Lost, Closing
  <2> QED BY <2>1, <2>2 DEF Apart, NoFault
<1>2. Spec => []FaultInv
  BY InitFaultInv, NextFaultInv, PTL DEF Spec
<1> QED BY <1>1, <1>2, PTL

=============================================================================
