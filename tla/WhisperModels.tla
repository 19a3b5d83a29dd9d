---------------------------- MODULE WhisperModels ----------------------------
(***************************************************************************)
(* The Whisper models of the voice input: ModelManager.kt keeps them in an *)
(* unsynchronised map, WhisperGGML.kt holds the handle of one native state *)
(* (org_futo_voiceinput_WhisperGGML.cpp).  Three kinds of threads meet:    *)
(*   the main thread   opens and closes the voice window (VoiceInputAction,*)
(*                     AudioRecognizer), cancels, and cleans up when the   *)
(*                     device is low on memory (UixManager, LatinIME)      *)
(*   workers           preload and run coroutines on Dispatchers.Default:  *)
(*                     they obtain a model and hand it to the inference    *)
(*   inferenceContext  a single thread that infers and closes, in the      *)
(*                     order it was asked to                               *)
(***************************************************************************)
EXTENDS Naturals, Sequences, FiniteSets

CONSTANTS
    Keys,           \* models the user can select: ModelLoader.key and gpu
    Engines,        \* bound of the model: native states that can be created
    Jobs,           \* bound of the model: preload and run coroutines
    CleanUps,       \* bound of the model: cleanUp coroutines
    None

\* None is no element of the other sets and no exception, and main.at tells a
\* clean-up from the other handlers.
ASSUME WhisperAssumption ==
    /\ None \notin Keys \cup Engines \cup Jobs \cup CleanUps
    /\ None \notin {"modified", "freed", "missing", "closed"}
    /\ CleanUps \cap {"idle", "cancelAll", "destroy", "destroyed"} = {}

VARIABLES
    main,           \* [at, todo, modified, engine]: the main thread
    open,           \* whether the voice window is open
    loadModelJob, modelJob,   \* the jobs of the open window, or None
    jobs,           \* [st, key, engine, runs, cancelled, after]
    loadedModels,   \* key -> engine or None
    engines,        \* [st, flag]: WhisperModelState and its cancel_flag
    tasks,          \* what inferenceContext has to do: [kind, engine, by]
    native,         \* whether it is inside the native call of the first task
    cleanUps,       \* [st, todo, modified, engine]
    crash,          \* the exception nobody caught, or None
    overlap         \* history: a cleanUp met another user of the models, or
                    \* two jobs loaded the same model

window == <<open, loadModelJob, modelJob>>
thread == <<tasks, native>>
vars == <<main, window, jobs, loadedModels, engines, thread, cleanUps, crash, overlap>>

\* handle: cleared when closeNative has returned.
HasHandle(e) == engines[e].st \in {"open", "freed"}

InMap        == {k \in Keys : loadedModels[k] # None}
Loading(j)   == jobs[j].st \in {"load", "put"}
Working(j)   == jobs[j].st \in {"load", "put", "read", "enter", "queued"}
CleaningUp   == \E c \in CleanUps : cleanUps[c].st \in {"next", "cancel", "closing"}

Idle == [at |-> "idle", todo |-> {}, modified |-> FALSE, engine |-> None]

Init ==
    /\ main = Idle
    /\ open = FALSE /\ loadModelJob = None /\ modelJob = None
    /\ jobs = [j \in Jobs |-> [st |-> "none", key |-> None, engine |-> None,
                               runs |-> FALSE, cancelled |-> FALSE, after |-> None]]
    /\ loadedModels = [k \in Keys |-> None]
    /\ engines = [e \in Engines |-> [st |-> "none", flag |-> FALSE]]
    /\ tasks = <<>> /\ native = FALSE
    /\ cleanUps = [c \in CleanUps |-> [st |-> "none", todo |-> {},
                                       modified |-> FALSE, engine |-> None]]
    /\ crash = None
    /\ overlap = FALSE

-----------------------------------------------------------------------------
(***************************************************************************)
(* The main thread                                                         *)
(***************************************************************************)
\* It is not inside a handler, nor between the cancel and the close of a model.
MainFree(at) ==
    /\ crash = None
    /\ main.at = at /\ main.engine = None
    /\ \A c \in CleanUps : cleanUps[c].st # "cancel"

\* Jobs and engines are taken in the order CHOOSE finds them: which ones does not
\* matter.
CanLaunch == \E j \in Jobs : jobs[j].st = "none"
NewJob    == CHOOSE j \in Jobs : jobs[j].st = "none"
CanLoad   == \E e \in Engines : engines[e].st = "none"
NewEngine == CHOOSE e \in Engines : engines[e].st = "none"

Launched(js, st, key, runs, after) ==
    [js EXCEPT ![NewJob] = [st |-> st, key |-> key, engine |-> None,
                       runs |-> runs, cancelled |-> FALSE, after |-> after]]

\* The jobs of the window are cancelled; a coroutine notices when it suspends.
Cancelled(js) ==
    [j \in Jobs |-> [js[j] EXCEPT !.cancelled = @ \/ j \in {loadModelJob, modelJob}]]

CancelAll(then) ==
    main' = [at |-> then, todo |-> InMap, modified |-> FALSE, engine |-> None]

\* startRecording, when the window opens or the user restarts in it: cancel
\* what runs, then (CancelAllDone) preload the selected model.
StartRecording(key) ==
    /\ MainFree("idle")
    /\ CanLaunch
    /\ jobs' = Launched(Cancelled(jobs), "called", key, FALSE, None)
    /\ open' = TRUE /\ loadModelJob' = NewJob /\ modelJob' = None
    /\ CancelAll("cancelAll")
    /\ overlap' = (overlap \/ CleaningUp)
    /\ UNCHANGED <<loadedModels, engines, thread, cleanUps, crash>>

\* The recording ends: the run waits for the preload (runModel's join).
FinishRecording ==
    /\ MainFree("idle")
    /\ open /\ modelJob = None
    /\ CanLaunch
    /\ jobs' = Launched(jobs, "waiting", jobs[loadModelJob].key, TRUE, loadModelJob)
    /\ modelJob' = NewJob
    /\ UNCHANGED <<main, open, loadModelJob, loadedModels, engines, thread, cleanUps,
                   crash, overlap>>

Closed ==
    /\ jobs' = Cancelled(jobs)
    /\ open' = FALSE /\ loadModelJob' = None /\ modelJob' = None
    /\ overlap' = (overlap \/ CleaningUp)

\* close() of the window: the recogniser is reset, everything is cancelled.
CloseWindow ==
    /\ MainFree("idle")
    /\ open
    /\ Closed
    /\ CancelAll("cancelAll")
    /\ UNCHANGED <<loadedModels, engines, thread, cleanUps, crash>>

\* cancelAll, one model after the other: the iterator may find the map
\* modified by a worker; otherwise cancel() reads the handle ..
CancelNext(k) ==
    /\ crash = None
    /\ main.at \in {"cancelAll", "destroy"} /\ main.engine = None
    /\ k \in main.todo
    /\ IF main.modified
       THEN crash' = "modified" /\ UNCHANGED main
       ELSE /\ main' = [main EXCEPT
                  !.todo = @ \ {k},
                  !.engine = IF HasHandle(loadedModels[k])
                             THEN loadedModels[k] ELSE None]
            /\ UNCHANGED crash
    /\ UNCHANGED <<window, jobs, loadedModels, engines, thread, cleanUps, overlap>>

\* .. and sets the flag of the state it points to, whatever became of it.
CancelNative ==
    /\ crash = None
    /\ main.engine # None
    /\ main' = [main EXCEPT !.engine = None]
    /\ IF engines[main.engine].st = "open"
       THEN engines' = [engines EXCEPT ![main.engine].flag = TRUE] /\ UNCHANGED crash
       ELSE crash' = "freed" /\ UNCHANGED engines
    /\ UNCHANGED <<window, jobs, loadedModels, thread, cleanUps, overlap>>

CancelAllDone ==
    /\ MainFree("cancelAll")
    /\ main.todo = {}
    /\ main' = Idle
    /\ jobs' = [j \in Jobs |-> IF jobs[j].st = "called"
                               THEN [jobs[j] EXCEPT !.st = "waiting"] ELSE jobs[j]]
    /\ UNCHANGED <<window, loadedModels, engines, thread, cleanUps, crash, overlap>>

\* A new cleanUp iterates over what is in the map.
Started(c) ==
    cleanUps' = [cleanUps EXCEPT ![c] = [st |-> "next", todo |-> InMap,
                                         modified |-> FALSE, engine |-> None]]

\* onTrimMemory, onLowMemory: cleanUpPersistentStates compares the MutableState
\* currWindowAction with an action, which differ also when that action's window
\* is open.
TrimMemory(c) ==
    /\ MainFree("idle")
    /\ cleanUps[c].st = "none"
    /\ Started(c)
    /\ overlap' = (overlap \/ CleaningUp \/ \E j \in Jobs : Working(j))
    /\ UNCHANGED <<main, window, jobs, loadedModels, engines, thread, crash>>

\* onDestroy: the window is closed ..
Destroy ==
    /\ MainFree("idle")
    /\ \E c \in CleanUps : cleanUps[c].st = "none"
    /\ Closed
    /\ CancelAll("destroy")
    /\ UNCHANGED <<loadedModels, engines, thread, cleanUps, crash>>

\* .. then close() blocks the main thread until its cleanUp is done.
RunBlocking(c) ==
    /\ MainFree("destroy")
    /\ main.todo = {}
    /\ cleanUps[c].st = "none"
    /\ Started(c)
    /\ main' = [Idle EXCEPT !.at = c]
    /\ overlap' = (overlap \/ CleaningUp \/ \E j \in Jobs : Working(j))
    /\ UNCHANGED <<window, jobs, loadedModels, engines, thread, crash>>

-----------------------------------------------------------------------------
(***************************************************************************)
(* cleanUp, on the main thread: of a suspended coroutine when it is idle,  *)
(* of the one that blocks it otherwise (runBlocking has its own loop)      *)
(***************************************************************************)
\* Faulty variant: the coroutine that blocks the main thread resumes there.
ResumesOnMain(c, st) == MainFree("idle") /\ cleanUps[c].st = st

Resumes(c, st) == MainFree(IF main.at = c THEN c ELSE "idle") /\ cleanUps[c].st = st

CleanUpNext(c, k) ==
    /\ Resumes(c, "next")
    /\ k \in cleanUps[c].todo
    /\ IF cleanUps[c].modified
       THEN crash' = "modified" /\ UNCHANGED <<main, cleanUps>>
       ELSE LET e == loadedModels[k]
            IN /\ cleanUps' = [cleanUps EXCEPT ![c].st = "cancel", ![c].engine = e,
                                               ![c].todo = @ \ {k}]
               /\ main' = [main EXCEPT !.engine = IF HasHandle(e) THEN e ELSE None]
               /\ UNCHANGED crash
    /\ UNCHANGED <<window, jobs, loadedModels, engines, thread, overlap>>

\* After the cancel (CancelNative): close() goes to the inference thread.
CleanUpClose(c) ==
    /\ crash = None
    /\ cleanUps[c].st = "cancel" /\ main.engine = None
    /\ cleanUps' = [cleanUps EXCEPT ![c].st = "closing"]
    /\ tasks' = Append(tasks, [kind |-> "close", engine |-> cleanUps[c].engine, by |-> c])
    /\ UNCHANGED <<main, window, jobs, loadedModels, engines, native, crash, overlap>>

\* Faulty variant: the closed models stay in the map.
CleanUpKeep(c) ==
    /\ Resumes(c, "next")
    /\ cleanUps[c].todo = {}
    /\ cleanUps' = [cleanUps EXCEPT ![c].st = "done"]
    /\ main' = IF main.at = c THEN [Idle EXCEPT !.at = "destroyed"] ELSE main
    /\ UNCHANGED <<window, jobs, loadedModels, engines, thread, crash, overlap>>

\* The end of the iteration: loadedModels.clear().
CleanUpClear(c) ==
    /\ Resumes(c, "next")
    /\ cleanUps[c].todo = {}
    /\ loadedModels' = [k \in Keys |-> None]
    /\ cleanUps' = [d \in CleanUps |->
                      IF d = c THEN [cleanUps[d] EXCEPT !.st = "done"]
                      ELSE [cleanUps[d] EXCEPT !.modified = TRUE]]
    /\ main' = IF main.at = c THEN [Idle EXCEPT !.at = "destroyed"] ELSE main
    /\ UNCHANGED <<window, jobs, engines, thread, crash, overlap>>

-----------------------------------------------------------------------------
(***************************************************************************)
(* Workers                                                                 *)
(***************************************************************************)
\* The coroutine starts: a run when the preload it joins has ended.
Begin(j) ==
    /\ crash = None
    /\ jobs[j].st = "waiting"
    /\ jobs[j].cancelled
       \/ \A i \in {jobs[j].after} \ {None} : jobs[i].st = "done"
    /\ jobs' = [jobs EXCEPT ![j].st = IF jobs[j].cancelled THEN "done" ELSE "obtain"]
    /\ UNCHANGED <<main, window, loadedModels, engines, thread, cleanUps, crash, overlap>>

\* obtainModel: is the model there?
Contains(j) ==
    /\ crash = None
    /\ jobs[j].st = "obtain"
    /\ LET key == jobs[j].key
       IN /\ jobs' = [jobs EXCEPT ![j].st =
                        IF loadedModels[key] = None THEN "load" ELSE "read"]
          /\ overlap' = (overlap \/ CleaningUp
                         \/ \E i \in Jobs : Loading(i) /\ jobs[i].key = key)
    /\ UNCHANGED <<main, window, loadedModels, engines, thread, cleanUps, crash>>

\* loadGGML: a new native state
Load(j) ==
    /\ crash = None
    /\ jobs[j].st = "load"
    /\ CanLoad
    /\ engines' = [engines EXCEPT ![NewEngine].st = "open"]
    /\ jobs' = [jobs EXCEPT ![j].st = "put", ![j].engine = NewEngine]
    /\ UNCHANGED <<main, window, loadedModels, thread, cleanUps, crash, overlap>>

\* loadedModels[key] = ..: an iterator sees only that a key was added.
PutModel(j) ==
    /\ crash = None
    /\ jobs[j].st = "put"
    /\ LET key   == jobs[j].key
           added == loadedModels[key] = None
       IN /\ loadedModels' = [loadedModels EXCEPT ![key] = jobs[j].engine]
          /\ cleanUps' = [c \in CleanUps |->
                            [cleanUps[c] EXCEPT !.modified = @ \/ added]]
          /\ main' = [main EXCEPT !.modified = @ \/ added]
    /\ jobs' = [jobs EXCEPT ![j].st = "read"]
    /\ UNCHANGED <<window, engines, thread, crash, overlap>>

\* Faulty variant: whatever the map holds is returned.
ReadModelUnchecked(j) ==
    /\ crash = None
    /\ jobs[j].st = "read"
    /\ jobs' = [jobs EXCEPT ![j].engine = loadedModels[jobs[j].key],
                            ![j].st = IF jobs[j].runs THEN "enter" ELSE "done"]
    /\ UNCHANGED <<main, window, loadedModels, engines, thread, cleanUps, crash, overlap>>

\* return loadedModels[key]!!
ReadModel(j) ==
    /\ crash = None
    /\ jobs[j].st = "read"
    /\ LET e == loadedModels[jobs[j].key]
       IN IF e = None
          THEN crash' = "missing" /\ UNCHANGED jobs
          ELSE /\ jobs' = [jobs EXCEPT ![j].engine = e,
                                       ![j].st = IF jobs[j].runs THEN "enter" ELSE "done"]
               /\ UNCHANGED crash
    /\ UNCHANGED <<main, window, loadedModels, engines, thread, cleanUps, overlap>>

\* infer: withContext(inferenceContext), which a cancelled job does not enter
Enter(j) ==
    /\ crash = None
    /\ jobs[j].st = "enter"
    /\ IF jobs[j].cancelled
       THEN jobs' = [jobs EXCEPT ![j].st = "done"] /\ UNCHANGED tasks
       ELSE /\ jobs' = [jobs EXCEPT ![j].st = "queued"]
            /\ tasks' = Append(tasks, [kind |-> "infer", engine |-> jobs[j].engine,
                                       by |-> j])
    /\ UNCHANGED <<main, window, loadedModels, engines, native, cleanUps, crash, overlap>>

-----------------------------------------------------------------------------
(***************************************************************************)
(* The inference thread                                                    *)
(***************************************************************************)
Task(kind) == crash = None /\ tasks # <<>> /\ Head(tasks).kind = kind

JobDone(j) == jobs' = [jobs EXCEPT ![j].st = "done"]

\* A task whose job was cancelled before it began is dropped.
DropInfer ==
    /\ Task("infer") /\ ~native
    /\ jobs[Head(tasks).by].cancelled
    /\ JobDone(Head(tasks).by)
    /\ tasks' = Tail(tasks)
    /\ UNCHANGED <<main, window, loadedModels, engines, native, cleanUps, crash, overlap>>

\* Faulty variant: the handle is not looked at before the native call.
StartInferUnchecked ==
    /\ Task("infer") /\ ~native
    /\ ~jobs[Head(tasks).by].cancelled
    /\ native' = TRUE
    /\ engines' = [engines EXCEPT ![Head(tasks).engine].flag = FALSE]
    /\ UNCHANGED <<main, window, jobs, loadedModels, tasks, cleanUps, crash, overlap>>

\* inferNative begins by clearing the cancel flag.
StartInfer ==
    /\ Task("infer") /\ ~native
    /\ ~jobs[Head(tasks).by].cancelled
    /\ IF HasHandle(Head(tasks).engine)
       THEN /\ native' = TRUE
            /\ engines' = [engines EXCEPT ![Head(tasks).engine].flag = FALSE]
            /\ UNCHANGED crash
       ELSE crash' = "closed" /\ UNCHANGED <<native, engines>>
    /\ UNCHANGED <<main, window, jobs, loadedModels, tasks, cleanUps, overlap>>

\* It returns with a text, or because the flag was set.
EndInfer ==
    /\ Task("infer") /\ native
    /\ native' = FALSE
    /\ JobDone(Head(tasks).by)
    /\ tasks' = Tail(tasks)
    /\ UNCHANGED <<main, window, loadedModels, engines, cleanUps, crash, overlap>>

\* close: closeNative, when there is a handle ..
StartClose ==
    /\ Task("close") /\ ~native
    /\ HasHandle(Head(tasks).engine)
    /\ native' = TRUE
    /\ engines' = [engines EXCEPT ![Head(tasks).engine].st = "freed"]
    /\ UNCHANGED <<main, window, jobs, loadedModels, tasks, cleanUps, crash, overlap>>

\* .. and handle = 0L; the cleanUp goes on on the main thread.
EndClose ==
    /\ Task("close")
    /\ native \/ ~HasHandle(Head(tasks).engine)
    /\ native' = FALSE
    /\ engines' = [engines EXCEPT ![Head(tasks).engine].st = "closed"]
    /\ cleanUps' = [cleanUps EXCEPT ![Head(tasks).by].st = "next"]
    /\ tasks' = Tail(tasks)
    /\ UNCHANGED <<main, window, jobs, loadedModels, crash, overlap>>

-----------------------------------------------------------------------------
User ==
    \/ \E k \in Keys : StartRecording(k)
    \/ FinishRecording
    \/ CloseWindow
    \/ \E c \in CleanUps : TrimMemory(c)
    \/ Destroy

MainThread ==
    \/ \E k \in Keys : CancelNext(k)
    \/ CancelNative
    \/ CancelAllDone
    \/ \E c \in CleanUps :
        \/ RunBlocking(c)
        \/ \E k \in Keys : CleanUpNext(c, k)
        \/ CleanUpClose(c)
        \/ CleanUpClear(c)

Worker(j) ==
    \/ Begin(j)
    \/ Contains(j)
    \/ Load(j)
    \/ PutModel(j)
    \/ ReadModel(j)
    \/ Enter(j)

InferenceThread == DropInfer \/ StartInfer \/ EndInfer \/ StartClose \/ EndClose

Next ==
    \/ User
    \/ MainThread
    \/ \E j \in Jobs : Worker(j)
    \/ InferenceThread

\* Threads go on; the user and the system need not do anything.
Fairness ==
    /\ WF_vars(MainThread)
    /\ \A j \in Jobs : WF_vars(Worker(j))
    /\ WF_vars(InferenceThread)

Spec == Init /\ [][Next]_vars /\ Fairness

-----------------------------------------------------------------------------
(***************************************************************************)
(* Properties                                                              *)
(***************************************************************************)
OrNone(S) == S \cup {None}

Inferences == [kind : {"infer"}, engine : Engines, by : Jobs]
Closes     == [kind : {"close"}, engine : Engines, by : CleanUps]

\* Every variable has a value of its type: no task has a model or a caller that
\* does not exist, though the map may hold nothing where a worker reads it.
WhisperTypeOK ==
    /\ main \in [at : {"idle", "cancelAll", "destroy", "destroyed"} \cup CleanUps,
                 todo : SUBSET Keys, modified : BOOLEAN, engine : OrNone(Engines)]
    /\ open \in BOOLEAN
    /\ loadModelJob \in OrNone(Jobs) /\ modelJob \in OrNone(Jobs)
    /\ jobs \in [Jobs -> [st : {"none", "called", "waiting", "obtain", "load", "put", "read",
                                "enter", "queued", "done"},
                          key : OrNone(Keys), engine : OrNone(Engines),
                          runs : BOOLEAN, cancelled : BOOLEAN, after : OrNone(Jobs)]]
    /\ loadedModels \in [Keys -> OrNone(Engines)]
    /\ engines \in [Engines -> [st : {"none", "open", "freed", "closed"}, flag : BOOLEAN]]
    /\ tasks \in Seq(Inferences \cup Closes)
    /\ native \in BOOLEAN
    /\ cleanUps \in [CleanUps -> [st : {"none", "next", "cancel", "closing", "done"},
                                  todo : SUBSET Keys, modified : BOOLEAN,
                                  engine : OrNone(Engines)]]
    /\ crash \in {None, "modified", "freed", "missing", "closed"}
    /\ overlap \in BOOLEAN

\* The inference thread never infers on a native state that was freed, however
\* runs, clean-ups and reloads of a model are mixed in its queue.
InfersOnOpenEngine ==
    native /\ Head(tasks).kind = "infer" => engines[Head(tasks).engine].st = "open"

\* Native states that are open and that nobody can close any more.
Lost ==
    {e \in Engines :
        /\ engines[e].st = "open"
        /\ \A k \in Keys : loadedModels[k] # e
        /\ \A j \in Jobs : ~(jobs[j].st = "put" /\ jobs[j].engine = e)
        /\ \A c \in CleanUps : ~(cleanUps[c].st \in {"cancel", "closing"}
                                 /\ cleanUps[c].engine = e)}

\* The map has no lock and the handle no guard.  Windows opened, restarted and
\* closed at any moment do no harm all the same, but for a cancelAll that meets
\* the put of a new model ("modified"): a native state is lost, or freed when
\* it is cancelled, or missing or closed when it is wanted, only when a clean-up
\* met another user of the models or two jobs loaded the same one.
FaultsNeedOverlap ==
    crash \in {"freed", "missing", "closed"} \/ Lost # {} => overlap

\* onDestroy does not block the main thread for ever behind the inferences, and
\* every preload and every run ends.
WorkEnds ==
    /\ main.at = "destroy" ~> main.at = "destroyed" \/ crash # None
    /\ \A j \in Jobs : jobs[j].st = "waiting" ~> jobs[j].st = "done" \/ crash # None

\* Action.kt on cleanUp: "This will never be called when the action window is
\* currently open."
CleanUpOnlyWhenClosed ==
    [][\A c \in CleanUps : TrimMemory(c) => ~open]_vars

=============================================================================
