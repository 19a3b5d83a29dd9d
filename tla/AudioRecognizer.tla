-------------------------- MODULE AudioRecognizer --------------------------
(***************************************************************************)
(* The voice recogniser, AudioRecognizer.kt, with the part of WhisperGGML  *)
(* it relies on (one inference thread, one cancel flag).                   *)
(*                                                                         *)
(* Threads.  The main thread runs the handlers (start, finish, cancel,     *)
(* reset, ...) and the blocks other coroutines post to it, one at a time;  *)
(* `main` says where in a handler it is.  A handler is cut where a worker  *)
(* can see the difference: between sessionId.incrementAndGet() and the     *)
(* cancellations that follow it.  Workers on Dispatchers.Default run the   *)
(* recording loops and the model runs; a cancelled coroutine notices only  *)
(* at its suspension points.  lifecycleScope runs on Main.immediate: a     *)
(* launch from the main thread starts at once, and a job started with      *)
(* withContext(Default) completes on the main thread.                      *)
(*                                                                         *)
(* An AudioRecord and the recording loop that reads it share one number of *)
(* Mic; a call of onFinishRecording is one number of Run.                  *)
(***************************************************************************)
EXTENDS Naturals, FiniteSets

CONSTANTS
    MaxSession,   \* bound on sessionId
    MaxMic,       \* bound on the AudioRecords ever created
    MaxRun,       \* bound on the calls of onFinishRecording
    MaxRestart,   \* bound on restart coroutines waiting for one loop
    Passes,       \* calls of modelRunner.run in one run (2: localTwoPass)
    Groq          \* "off", "single" or "two": groqApiKey and groqTwoPass

ASSUME BoundAssumption ==
    /\ MaxSession \in Nat \ {0} /\ MaxMic \in Nat \ {0} /\ MaxRun \in Nat \ {0}
    /\ MaxRestart \in Nat \ {0} /\ Passes \in Nat \ {0}
ASSUME GroqAssumption == Groq \in {"off", "single", "two"}

Mic == 1 .. MaxMic
Run == 1 .. MaxRun
None == 0
Session == 0 .. MaxSession

VARIABLES
    main,           \* what the main thread is in the middle of
    sessionId,
    isRecording,
    isPrebuffering,
    recorder,       \* the AudioRecord of the field, or None
    recorderJob,    \* the loop of the field, or None
    modelJob,       \* the run of the field, or None
    loadModelJob,   \* [st, sid]
    micState,       \* of every AudioRecord
    loops,          \* of every recording loop
    restarts,       \* restart coroutines waiting in cancelAndJoin, per loop
    buffer,         \* sessions whose audio is in floatSamplesPrimary
    runs,           \* the model runs
    posted,         \* listener.finished blocks on their way to the main thread
    answers,        \* how often listener.finished was called for a run
    engine,         \* the run on the inference thread, or None
    cancelFlag      \* WhisperModelState.cancel_flag

fields  == <<recorder, recorderJob, isRecording, isPrebuffering>>
audio   == <<micState, loops, restarts, buffer>>
model   == <<runs, modelJob, loadModelJob, engine, cancelFlag>>
results == <<posted, answers>>
vars == <<main, sessionId, fields, audio, model, results>>

LoopPc == {"none", "head", "read", "data", "append", "toMain", "ended", "done"}
RunPc == {"none", "dispatched", "started", "loading", "checked", "remote",
          "answered", "queued", "entered", "inferring", "partial",
          "transcribed", "posting", "done"}
MainPc == {"idle", "starting", "resetting", "cancelling", "failing"}
MicStates == {"unused", "started", "stopped", "released"}
LoopRecord == [pc : LoopPc, cancelled : BOOLEAN, sid : Session]
RunRecord == [pc : RunPc, cancelled : BOOLEAN, sid : Session,
              born : Session, audio : SUBSET Session, left : 0 .. Passes]
Block == [run : Run, early : BOOLEAN, checked : BOOLEAN]

NoLoop == [pc |-> "none", cancelled |-> FALSE, sid |-> 0]
NoRun == [pc |-> "none", cancelled |-> FALSE, sid |-> 0, born |-> 0,
          audio |-> {}, left |-> 0]
NoLoad == [st |-> "none", sid |-> 0]

Init ==
    /\ main = "idle" /\ sessionId = 0
    /\ isRecording = FALSE /\ isPrebuffering = FALSE
    /\ recorder = None /\ recorderJob = None
    /\ modelJob = None /\ loadModelJob = NoLoad
    /\ micState = [m \in Mic |-> "unused"] /\ loops = [m \in Mic |-> NoLoop]
    /\ restarts = [m \in Mic |-> 0] /\ buffer = {}
    /\ runs = [r \in Run |-> NoRun]
    /\ posted = {} /\ answers = [r \in Run |-> 0]
    /\ engine = None /\ cancelFlag = FALSE

-----------------------------------------------------------------------------
(* Helpers.  An index None changes nothing: the `?.` of the code.          *)

SetMic(ms, m, s) == [x \in Mic |-> IF x = m THEN s ELSE ms[x]]
CancelLoop(m) == [x \in Mic |-> [loops[x] EXCEPT !.cancelled = @ \/ x = m]]
CancelRun(r) == [x \in Run |-> [runs[x] EXCEPT !.cancelled = @ \/ x = r]]

FreshMic(m) ==
    micState[m] = "unused" /\ \A x \in Mic : x < m => micState[x] # "unused"
FreshRun(r) ==
    runs[r].pc = "none" /\ \A x \in Run : x < r => runs[x].pc # "none"

(* The bounds of the handlers that open an AudioRecord: one is left, and   *)
(* one more restart may wait.                                              *)
MayOpen ==
    /\ \E m \in Mic : micState[m] = "unused"
    /\ recorderJob # None => restarts[recorderJob] < MaxRestart

(* Faulty variants of Task: the old AudioRecord is not released, the sample*)
(* buffers are not emptied.                                                *)
TaskLeaks(ms, rec, ls) ==
    \E m \in Mic :
        /\ FreshMic(m)
        /\ micState' = SetMic(ms, m, "started")
        /\ loops' = [ls EXCEPT ![m] = [pc |-> "head", cancelled |-> FALSE,
                                       sid |-> sessionId]]
        /\ recorder' = m /\ recorderJob' = m
        /\ isRecording' = TRUE
        /\ buffer' = {}
TaskKeepsSamples(ms, rec, ls) ==
    \E m \in Mic :
        /\ FreshMic(m)
        /\ micState' = SetMic(SetMic(ms, rec, "released"), m, "started")
        /\ loops' = [ls EXCEPT ![m] = [pc |-> "head", cancelled |-> FALSE,
                                       sid |-> sessionId]]
        /\ recorder' = m /\ recorderJob' = m
        /\ isRecording' = TRUE
        /\ UNCHANGED buffer

(* `task` of createRecorderAndJob: release the old AudioRecord, open and   *)
(* start a new one with empty sample buffers, launch its recording loop.   *)
Task(ms, rec, ls) ==
    \E m \in Mic :
        /\ FreshMic(m)
        /\ micState' = SetMic(SetMic(ms, rec, "released"), m, "started")
        /\ loops' = [ls EXCEPT ![m] = [pc |-> "head", cancelled |-> FALSE,
                                       sid |-> sessionId]]
        /\ recorder' = m /\ recorderJob' = m
        /\ isRecording' = TRUE
        /\ buffer' = {}

(* Faulty variant: does not wait for the old loop.                         *)
CreateRecorderAndJobAtOnce(ms, rec) ==
    /\ Task(SetMic(ms, rec, "stopped"), rec, CancelLoop(recorderJob))
    /\ UNCHANGED restarts

(* createRecorderAndJob, called when the field recorder is rec and the     *)
(* AudioRecords are as in ms.  An old loop that has not completed is       *)
(* cancelled and joined by a coroutine of its own, which runs the task     *)
(* later and which no field refers to.                                     *)
CreateRecorderAndJob(ms, rec) ==
    LET stopped == SetMic(ms, rec, "stopped")
        cancelled == CancelLoop(recorderJob)
    IN IF recorderJob # None /\ loops[recorderJob].pc # "done"
       THEN /\ micState' = stopped /\ recorder' = rec
            /\ isRecording' = FALSE
            /\ loops' = cancelled
            /\ restarts' = [restarts EXCEPT ![recorderJob] = @ + 1]
            /\ UNCHANGED <<recorderJob, buffer>>
       ELSE /\ Task(stopped, rec, cancelled)
            /\ UNCHANGED restarts

(* onFinishRecording, which finish() calls when isRecording is set.        *)
OnFinishRecording(ls) ==
    /\ loops' = ls
    /\ isRecording' = FALSE
    /\ micState' = SetMic(micState, recorder, "stopped")
    /\ \E r \in Run :
          /\ FreshRun(r)
          /\ modelJob' = r
          /\ runs' = [runs EXCEPT ![r] =
                [pc |-> "dispatched", cancelled |-> FALSE, sid |-> 0,
                 born |-> sessionId, audio |-> {}, left |-> Passes]]
    /\ UNCHANGED <<main, sessionId, recorder, recorderJob, isPrebuffering,
                   restarts, buffer, loadModelJob, engine, cancelFlag, results>>

-----------------------------------------------------------------------------
(* The handlers of the main thread.                                        *)

(* start() with the permission granted; without it nothing here changes.   *)
(* This is the first line of startRecording.                               *)
Start ==
    /\ main = "idle" /\ sessionId < MaxSession /\ MayOpen
    /\ sessionId' = sessionId + 1
    /\ main' = "starting"
    /\ UNCHANGED <<fields, audio, model, results>>

(* Faulty variant: forgets the old model run without cancelling it.        *)
StartRecordingDropsRun ==
    /\ main = "starting"
    /\ main' = "idle"
    /\ IF isPrebuffering
       THEN CreateRecorderAndJob(SetMic(micState, recorder, "released"), None)
       ELSE CreateRecorderAndJob(micState, recorder)
    /\ isPrebuffering' = FALSE
    /\ modelJob' = None
    /\ loadModelJob' = [st |-> "loading", sid |-> sessionId]
    /\ cancelFlag' = TRUE
    /\ UNCHANGED <<sessionId, engine, runs, results>>

(* The rest of startRecording.  stopPrebufferingAndSnapshot releases the   *)
(* AudioRecord of the field when isPrebuffering is set.                    *)
StartRecording ==
    /\ main = "starting"
    /\ main' = "idle"
    /\ IF isPrebuffering
       THEN CreateRecorderAndJob(SetMic(micState, recorder, "released"), None)
       ELSE CreateRecorderAndJob(micState, recorder)
    /\ isPrebuffering' = FALSE
    /\ runs' = CancelRun(modelJob) /\ modelJob' = None
    /\ loadModelJob' = [st |-> "loading", sid |-> sessionId]
    /\ cancelFlag' = TRUE
    /\ UNCHANGED <<sessionId, engine, results>>

(* MicrophoneDeviceState.setBluetooth, offered while recording is shown.   *)
SetBluetooth ==
    /\ main = "idle" /\ MayOpen
    /\ isRecording \/ \E m \in Mic : restarts[m] > 0
    /\ CreateRecorderAndJob(micState, recorder)
    /\ UNCHANGED <<main, sessionId, isPrebuffering, model, results>>

(* The coroutine CreateRecorderAndJob left behind, when its join returns.  *)
Restart(m) ==
    /\ main = "idle"
    /\ restarts[m] > 0 /\ loops[m].pc = "done"
    /\ restarts' = [restarts EXCEPT ![m] = @ - 1]
    /\ Task(micState, recorder, loops)
    /\ UNCHANGED <<main, sessionId, isPrebuffering, model, results>>

Finish ==
    /\ main = "idle" /\ isRecording
    /\ OnFinishRecording(CancelLoop(recorderJob))

(* reset() and cancel(): the session ends ...                              *)
Reset ==
    /\ main = "idle" /\ sessionId < MaxSession
    /\ sessionId' = sessionId + 1
    /\ main' \in {"resetting", "cancelling"}
    /\ UNCHANGED <<fields, audio, model, results>>

(* Faulty variant: the released AudioRecord stays in the field.            *)
ResetRestKeepsRecorder ==
    /\ main \in {"resetting", "cancelling", "failing"}
    /\ main' = "idle"
    /\ micState' = SetMic(micState, recorder, "released")
    /\ loops' = CancelLoop(recorderJob)
    /\ isRecording' = FALSE /\ isPrebuffering' = FALSE
    /\ runs' = CancelRun(modelJob)
    /\ loadModelJob' = NoLoad
    /\ buffer' = {}
    /\ cancelFlag' = TRUE
    /\ UNCHANGED <<sessionId, recorder, recorderJob, restarts, modelJob, engine,
                   results>>

(* ... and its jobs are cancelled, its AudioRecord released.  After a      *)
(* cancel() the listener's cancelled() follows.                            *)
ResetRest ==
    /\ main \in {"resetting", "cancelling", "failing"}
    /\ main' = "idle"
    /\ micState' = SetMic(micState, recorder, "released")
    /\ recorder' = None
    /\ loops' = CancelLoop(recorderJob)
    /\ isRecording' = FALSE /\ isPrebuffering' = FALSE
    /\ runs' = CancelRun(modelJob)
    /\ loadModelJob' = NoLoad
    /\ buffer' = {}
    /\ cancelFlag' = TRUE
    /\ UNCHANGED <<sessionId, recorderJob, restarts, modelJob, engine, results>>

(* Faulty variant: does not look at isRecording.                           *)
StartPrebufferingAnyway ==
    /\ main = "idle"
    /\ ~isPrebuffering
    /\ \E m \in Mic :
          /\ FreshMic(m)
          /\ micState' = [micState EXCEPT ![m] = "started"]
          /\ recorder' = m
    /\ isPrebuffering' = TRUE
    /\ buffer' = {}
    /\ UNCHANGED <<main, sessionId, isRecording, recorderJob, loops, restarts,
                   model, results>>

(* startPrebuffering with a prebuffer duration above zero.                 *)
StartPrebuffering ==
    /\ main = "idle"
    /\ ~isPrebuffering /\ ~isRecording
    /\ \E m \in Mic :
          /\ FreshMic(m)
          /\ micState' = [micState EXCEPT ![m] = "started"]
          /\ recorder' = m
    /\ isPrebuffering' = TRUE
    /\ buffer' = {}
    /\ UNCHANGED <<main, sessionId, isRecording, recorderJob, loops, restarts,
                   model, results>>

-----------------------------------------------------------------------------
(* The recording loop, recordingJob.                                       *)

(* An action of a loop's worker, or of a block it posted.                  *)
LoopStep(m, from, to) ==
    /\ loops[m].pc = from
    /\ loops' = [loops EXCEPT ![m].pc = to]

LoopOnly == UNCHANGED <<main, sessionId, fields, micState, restarts, model, results>>

(* `while (isRecording) { yield()`: yield throws when cancelled.           *)
LoopHead(m) ==
    /\ LoopStep(m, "head", IF isRecording /\ ~loops[m].cancelled
                           THEN "read" ELSE "ended")
    /\ LoopOnly /\ UNCHANGED buffer

(* recorder.read: samples, or none when the AudioRecord was stopped (a     *)
(* read in progress may still return what it has).                         *)
LoopRead(m) ==
    /\ \/ LoopStep(m, "read", "data")
       \/ micState[m] # "started" /\ LoopStep(m, "read", "ended")
    /\ LoopOnly /\ UNCHANGED buffer

(* yield(), then append or, out of space or after a silence, finish.       *)
LoopData(m) ==
    /\ \/ ~loops[m].cancelled /\ LoopStep(m, "data", "append")
       \/ ~loops[m].cancelled /\ LoopStep(m, "data", "toMain")
       \/ loops[m].cancelled /\ LoopStep(m, "data", "ended")
    /\ LoopOnly /\ UNCHANGED buffer

(* appendFloatSamples; then the 60 s limit, the skip-ahead loop or the     *)
(* next turn.                                                              *)
LoopAppend(m) ==
    /\ \E to \in {"head", "data", "toMain"} : LoopStep(m, "append", to)
    /\ buffer' = buffer \cup {loops[m].sid}
    /\ LoopOnly

(* withContext(Dispatchers.Main) { finish() }, dropped when cancelled.     *)
LoopFinish(m) ==
    /\ main = "idle" /\ loops[m].pc = "toMain"
    /\ LET ended == [CancelLoop(recorderJob) EXCEPT ![m].pc = "ended"]
       IN IF isRecording /\ ~loops[m].cancelled
          THEN OnFinishRecording(ended)
          ELSE /\ loops' = [loops EXCEPT ![m].pc = "ended"]
               /\ LoopOnly /\ UNCHANGED buffer

(* The coroutine of recorderJob completes, on the main thread.             *)
LoopCompletes(m) ==
    /\ main = "idle"
    /\ LoopStep(m, "ended", "done")
    /\ LoopOnly /\ UNCHANGED buffer

-----------------------------------------------------------------------------
(* Loading the models: the coroutine of loadModelJob.                      *)

LoadOnly == UNCHANGED <<main, fields, audio, runs, modelJob, engine, cancelFlag, results>>

LoadModel ==
    /\ loadModelJob.st = "loading"
    /\ \/ loadModelJob' = [loadModelJob EXCEPT !.st = "loaded"]
       \/ sessionId < MaxSession /\ loadModelJob' = [loadModelJob EXCEPT !.st = "failed"]
    /\ LoadOnly /\ UNCHANGED sessionId

(* The block InvalidModelException posts: reset(), modelLoadingFailed().   *)
LoadFailed ==
    /\ main = "idle" /\ loadModelJob.st = "failed" /\ sessionId < MaxSession
    /\ loadModelJob.sid = sessionId
    /\ sessionId' = sessionId + 1
    /\ main' = "failing"
    /\ UNCHANGED <<fields, audio, model, results>>

-----------------------------------------------------------------------------
(* A model run, runModel.                                                  *)

RunStep(r, from, to) ==
    /\ runs[r].pc = from
    /\ runs' = [runs EXCEPT ![r].pc = to]

RunOnly == UNCHANGED <<main, sessionId, fields, audio, modelJob, loadModelJob, results>>
NoEngine == UNCHANGED <<engine, cancelFlag>>
Stale(r) == runs[r].sid # sessionId

(* withContext(Dispatchers.Default) starts no block of a cancelled job.    *)
RunStarts(r) ==
    /\ RunStep(r, "dispatched", IF runs[r].cancelled THEN "done" ELSE "started")
    /\ RunOnly /\ NoEngine

(* val currentSessionId = sessionId.get(), on the worker.                  *)
RunCapture(r) ==
    /\ runs[r].pc = "started"
    /\ runs' = [runs EXCEPT ![r].pc = "loading", ![r].sid = sessionId]
    /\ RunOnly /\ NoEngine

(* Joins the loading of the models, then looks at the session.             *)
RunLoaded(r) ==
    /\ \/ /\ loadModelJob.st \in {"none", "loaded"}
          /\ RunStep(r, "loading", IF Stale(r) THEN "done" ELSE "checked")
       \/ /\ loadModelJob.st \in {"loading", "failed"} /\ runs[r].cancelled
          /\ RunStep(r, "loading", "done")
    /\ RunOnly /\ NoEngine

(* Takes the recorded samples.                                             *)
RunSlice(r) ==
    /\ runs[r].pc = "checked"
    /\ runs' = [runs EXCEPT ![r].audio = buffer,
                            ![r].pc = IF Groq = "off" THEN "queued" ELSE "remote"]
    /\ RunOnly /\ NoEngine

(* Faulty variant: every answer counts as a single-pass answer.            *)
RunRemoteAlwaysSingle(r) ==
    /\ \/ RunStep(r, "remote", "queued")
       \/ /\ ~runs[r].cancelled
          /\ RunStep(r, "remote", IF Stale(r) THEN "transcribed" ELSE "answered")
    /\ RunOnly /\ NoEngine

(* The request to Groq.  A failure, or the cancellation, which the same    *)
(* catch swallows, falls through to the local model.                       *)
RunRemote(r) ==
    /\ \/ RunStep(r, "remote", "queued")
       \/ /\ ~runs[r].cancelled
          /\ RunStep(r, "remote", IF Groq = "single" /\ ~Stale(r)
                                  THEN "answered" ELSE "transcribed")
    /\ RunOnly /\ NoEngine

(* A single-pass answer is posted to the listener, and then also returned. *)
RunAnswered(r) ==
    /\ IF runs[r].cancelled
       THEN RunStep(r, "answered", "queued") /\ UNCHANGED posted
       ELSE /\ RunStep(r, "answered", "transcribed")
            /\ posted' = posted \cup {[run |-> r, early |-> TRUE, checked |-> FALSE]}
    /\ UNCHANGED <<main, sessionId, fields, audio, modelJob, loadModelJob, answers>>
    /\ NoEngine

(* WhisperGGML.infer: withContext(inferenceContext), one run at a time.    *)
RunEnters(r) ==
    /\ \/ runs[r].cancelled /\ RunStep(r, "queued", "done") /\ UNCHANGED engine
       \/ /\ ~runs[r].cancelled /\ engine = None
          /\ RunStep(r, "queued", "entered") /\ engine' = r
    /\ RunOnly /\ UNCHANGED cancelFlag

(* Faulty variant: the flag of an earlier cancel survives.                 *)
InferStartKeepsFlag(r) ==
    /\ RunStep(r, "entered", "inferring")
    /\ RunOnly /\ NoEngine

(* WhisperGGML_infer clears the flag before it starts.                     *)
InferStart(r) ==
    /\ RunStep(r, "entered", "inferring")
    /\ cancelFlag' = FALSE
    /\ RunOnly /\ UNCHANGED engine

(* The partial-result callback: look at the session ...                    *)
InferPartial(r) ==
    /\ ~Stale(r)
    /\ RunStep(r, "inferring", "partial")
    /\ RunOnly /\ NoEngine

(* ... and call the listener.                                              *)
DeliverPartial(r) ==
    /\ RunStep(r, "partial", "inferring")
    /\ RunOnly /\ NoEngine

(* Faulty variant: one pass too many.                                      *)
InferEndOnceMore(r) ==
    /\ runs[r].pc = "inferring"
    /\ engine' = None
    /\ LET next == IF cancelFlag \/ runs[r].cancelled THEN "done"
                   ELSE IF runs[r].left > 0 THEN "queued" ELSE "transcribed"
       IN runs' = [runs EXCEPT ![r].pc = next, ![r].left = @ - 1]
    /\ RunOnly /\ UNCHANGED cancelFlag

(* The inference ends: aborted when it sees the flag, dropped when the run *)
(* was cancelled meanwhile, else one pass nearer to the text.              *)
InferEnd(r) ==
    /\ runs[r].pc = "inferring"
    /\ engine' = None
    /\ LET next == IF cancelFlag \/ runs[r].cancelled THEN "done"
                   ELSE IF runs[r].left > 1 THEN "queued" ELSE "transcribed"
       IN runs' = [runs EXCEPT ![r].pc = next, ![r].left = @ - 1]
    /\ RunOnly /\ UNCHANGED cancelFlag

RunTranscribed(r) ==
    /\ RunStep(r, "transcribed", IF Stale(r) THEN "done" ELSE "posting")
    /\ RunOnly /\ NoEngine

(* yield(), then launch the block that calls listener.finished.            *)
RunPosts(r) ==
    /\ RunStep(r, "posting", "done")
    /\ posted' = IF runs[r].cancelled THEN posted
                 ELSE posted \cup {[run |-> r, early |-> FALSE, checked |-> FALSE]}
    /\ UNCHANGED <<main, sessionId, fields, audio, modelJob, loadModelJob, answers>>
    /\ NoEngine

(* That block on the main thread: a stale one returns; the early one calls *)
(* the listener, the other one yields before it does.                      *)
CheckFinished(b) ==
    /\ main = "idle" /\ b \in posted /\ ~b.checked
    /\ IF Stale(b.run)
       THEN posted' = posted \ {b} /\ UNCHANGED answers
       ELSE IF b.early
            THEN posted' = posted \ {b} /\ answers' = [answers EXCEPT ![b.run] = @ + 1]
            ELSE posted' = (posted \ {b}) \cup {[b EXCEPT !.checked = TRUE]}
                 /\ UNCHANGED answers
    /\ UNCHANGED <<main, sessionId, fields, audio, model>>

DeliverFinished(b) ==
    /\ main = "idle" /\ b \in posted /\ b.checked
    /\ posted' = posted \ {b}
    /\ answers' = [answers EXCEPT ![b.run] = @ + 1]
    /\ UNCHANGED <<main, sessionId, fields, audio, model>>

-----------------------------------------------------------------------------
UserNext == Start \/ Finish \/ Reset \/ StartPrebuffering \/ SetBluetooth

MainNext ==
    \/ StartRecording \/ ResetRest \/ LoadFailed
    \/ \E m \in Mic : Restart(m) \/ LoopFinish(m) \/ LoopCompletes(m)
    \/ \E b \in posted : CheckFinished(b) \/ DeliverFinished(b)

LoopNext(m) == LoopHead(m) \/ LoopRead(m) \/ LoopData(m) \/ LoopAppend(m)

RunNext(r) ==
    \/ RunStarts(r) \/ RunCapture(r) \/ RunLoaded(r) \/ RunSlice(r)
    \/ RunRemote(r) \/ RunAnswered(r) \/ RunEnters(r) \/ InferStart(r)
    \/ InferPartial(r) \/ DeliverPartial(r) \/ InferEnd(r)
    \/ RunTranscribed(r) \/ RunPosts(r)

Next ==
    \/ UserNext \/ MainNext \/ LoadModel
    \/ \E m \in Mic : LoopNext(m)
    \/ \E r \in Run : RunNext(r)

Spec == Init /\ [][Next]_vars

(* The scheduler serves the main looper, the workers and the model loader; *)
(* nobody has to press a button.  An inference ends (whisper_full bounds   *)
(* its tokens) however many partial results it reports.                    *)
Fairness ==
    /\ WF_vars(StartRecording) /\ WF_vars(ResetRest) /\ WF_vars(LoadFailed)
    /\ WF_vars(LoadModel)
    /\ \A m \in Mic : /\ WF_vars(LoopNext(m)) /\ WF_vars(LoopCompletes(m))
                      /\ WF_vars(LoopFinish(m)) /\ WF_vars(Restart(m))
    /\ \A r \in Run : /\ WF_vars(RunNext(r))
                      /\ SF_vars(InferEnd(r))
    /\ \A b \in Block : WF_vars(CheckFinished(b)) /\ WF_vars(DeliverFinished(b))

FairSpec == Spec /\ Fairness

-----------------------------------------------------------------------------
(* Properties.                                                             *)

TypeOK ==
    /\ main \in MainPc /\ sessionId \in Session
    /\ isRecording \in BOOLEAN /\ isPrebuffering \in BOOLEAN
    /\ recorder \in Mic \cup {None} /\ recorderJob \in Mic \cup {None}
    /\ modelJob \in Run \cup {None}
    /\ loadModelJob \in [st : {"none", "loading", "loaded", "failed"}, sid : Session]
    /\ micState \in [Mic -> MicStates] /\ loops \in [Mic -> LoopRecord]
    /\ restarts \in [Mic -> Nat]
    /\ buffer \subseteq Session
    /\ runs \in [Run -> RunRecord]
    /\ posted \subseteq Block /\ answers \in [Run -> Nat]
    /\ engine \in Run \cup {None} /\ cancelFlag \in BOOLEAN

(* At most one AudioRecord is open, and it is the one of the field, so     *)
(* that the next reset() silences the microphone.  The task releases the   *)
(* old one for this, reset() and stopPrebufferingAndSnapshot() the field's.*)
MicExclusive == \A m \in Mic : micState[m] = "started" => recorder = m

(* The field never holds a released AudioRecord, whose stop() throws.      *)
RecorderUsable == recorder # None => micState[recorder] \in {"started", "stopped"}

(* While isRecording is set the loop of recorderJob reads the open         *)
(* AudioRecord of the field and has not been cancelled: the samples that   *)
(* finish() will transcribe keep coming.                                   *)
RecordingIsLive ==
    isRecording => /\ recorder = recorderJob
                   /\ micState[recorder] = "started"
                   /\ ~loops[recorderJob].cancelled

Live(r) == runs[r].pc \notin {"none", "done"} /\ ~runs[r].cancelled

(* A model run that nobody cancelled is the one of modelJob, and it        *)
(* belongs to the current session, so the next reset() or start() stops    *)
(* it (between their first line and their cancellations it may be stale).  *)
LiveRunIsCurrent ==
    \A r \in Run : Live(r) =>
        /\ r = modelJob
        /\ runs[r].born = sessionId \/ main # "idle"

(* A cancel flag set for an earlier session never aborts the inference of  *)
(* a live run: WhisperGGML_infer clears the flag, cancelAll follows the    *)
(* cancellation of the job.                                                *)
NoSpuriousAbort ==
    \A r \in Run : runs[r].pc \in {"inferring", "partial"} /\ cancelFlag
                   => runs[r].cancelled

(* One recording is answered once: finished() is called at most once for   *)
(* each onFinishRecording.                                                 *)
AnswerOnce == \A r \in Run : answers[r] <= 1

(* An answer is the transcription of the audio of its own session only.    *)
AnswersOwnAudio ==
    \A r \in Run : answers[r] > 0 => runs[r].audio \subseteq {runs[r].born}

(* Every finished recording is answered, or its session is over.           *)
EveryFinishAnswered ==
    \A r \in Run : runs[r].pc = "dispatched"
                   ~> (answers[r] > 0 \/ runs[r].born # sessionId)

(* "verify the id still matches" before listener.finished: at the call the *)
(* id the run captured is the current one.                                 *)
AnswerIdMatches ==
    [][\A r \in Run : answers'[r] > answers[r] => runs[r].sid = sessionId]_vars
=============================================================================
