----------------------- MODULE AudioRecognizer_proof -----------------------
(***************************************************************************)
(* Theorems about AudioRecognizer for every value of its constants: its    *)
(* invariants, its action property, and that it implements                 *)
(* RecognizerService.                                                      *)
(***************************************************************************)
EXTENDS AudioRecognizerRefinement, TLAPS, FiniteSetTheorems

(* What TypeOK needs to be inductive: a run that has not been transcribed  *)
(* has a pass left, so that InferEnd counts down to zero and not below.    *)
Untranscribed == {"dispatched", "started", "loading", "checked", "remote",
                  "answered", "queued", "entered", "inferring", "partial"}
PassLeft == \A r \in Run : runs[r].pc \in Untranscribed => runs[r].left # 0

TypeInv == TypeOK /\ PassLeft

LEMMA MicNone == None \notin Mic /\ None \notin Run
BY DEF None, Mic, Run

LEMMA SessionNat == Session \subseteq Nat /\ 0 \in Session
BY BoundAssumption DEF Session

LEMMA NextSession ==
    ASSUME TypeOK, sessionId < MaxSession PROVE sessionId + 1 \in Session
BY BoundAssumption DEF TypeOK, Session

(* Opening an AudioRecord, directly or by a deferred restart, keeps the    *)
(* types of the fields it writes.                                          *)
LEMMA TaskType ==
    ASSUME TypeOK,
           NEW STATE ms, ms \in [Mic -> MicStates], NEW STATE rec, rec \in Mic \cup {None},
           NEW STATE ls, ls \in [Mic -> LoopRecord],
           Task(ms, rec, ls)
    PROVE  /\ micState' \in [Mic -> MicStates] /\ loops' \in [Mic -> LoopRecord]
           /\ recorder' \in Mic \cup {None} /\ recorderJob' \in Mic \cup {None}
           /\ isRecording' \in BOOLEAN /\ buffer' \subseteq Session
<1>1. PICK m \in Mic :
        /\ micState' = SetMic(SetMic(ms, rec, "released"), m, "started")
        /\ loops' = [ls EXCEPT ![m] = [pc |-> "head", cancelled |-> FALSE,
                                       sid |-> sessionId]]
        /\ recorder' = m /\ recorderJob' = m
        /\ isRecording' = TRUE
        /\ buffer' = {}
  BY DEF Task
<1>2. [pc |-> "head", cancelled |-> FALSE, sid |-> sessionId] \in LoopRecord
  BY DEF LoopRecord, LoopPc, TypeOK
<1>3. loops' \in [Mic -> LoopRecord]
  BY <1>1, <1>2
<1>4. micState' \in [Mic -> MicStates]
  BY <1>1 DEF SetMic, MicStates
<1> QED BY <1>1, <1>3, <1>4

LEMMA CancelLoopType ==
    ASSUME TypeOK, NEW STATE m PROVE CancelLoop(m) \in [Mic -> LoopRecord]
BY DEF TypeOK, CancelLoop, LoopRecord

LEMMA CancelRunType ==
    ASSUME TypeOK, NEW STATE r PROVE CancelRun(r) \in [Run -> RunRecord]
<1>1. ASSUME NEW x \in Run
      PROVE  [runs[x] EXCEPT !.cancelled = @ \/ x = r] \in RunRecord
  <2> DEFINE u == runs[x]
             b == u.cancelled \/ x = r
  <2>1. u \in RunRecord
    BY DEF TypeOK
  <2>2. b \in BOOLEAN
    OBVIOUS
  <2> HIDE DEF u, b
  <2>3. [u EXCEPT !.cancelled = b] \in RunRecord
    BY <2>1, <2>2 DEF RunRecord
  <2> QED BY <2>3 DEF u, b
<1> QED BY <1>1 DEF CancelRun

LEMMA SetMicType ==
    ASSUME NEW STATE ms, ms \in [Mic -> MicStates], NEW STATE m, NEW STATE s, s \in MicStates
    PROVE  SetMic(ms, m, s) \in [Mic -> MicStates]
BY DEF SetMic

LEMMA CreateType ==
    ASSUME TypeOK,
           NEW STATE ms, ms \in [Mic -> MicStates], NEW STATE rec, rec \in Mic \cup {None},
           CreateRecorderAndJob(ms, rec)
    PROVE  /\ micState' \in [Mic -> MicStates] /\ loops' \in [Mic -> LoopRecord]
           /\ recorder' \in Mic \cup {None} /\ recorderJob' \in Mic \cup {None}
           /\ isRecording' \in BOOLEAN /\ buffer' \subseteq Session
           /\ restarts' \in [Mic -> Nat]
<1> DEFINE stopped == SetMic(ms, rec, "stopped")
<1>1. stopped \in [Mic -> MicStates]
  BY SetMicType DEF MicStates
<1>2. CancelLoop(recorderJob) \in [Mic -> LoopRecord]
  BY CancelLoopType
<1>3. CASE recorderJob # None /\ loops[recorderJob].pc # "done"
  <2>1. /\ micState' = stopped /\ recorder' = rec /\ isRecording' = FALSE
        /\ loops' = CancelLoop(recorderJob)
        /\ restarts' = [restarts EXCEPT ![recorderJob] = @ + 1]
        /\ UNCHANGED <<recorderJob, buffer>>
    BY <1>3 DEF CreateRecorderAndJob
  <2>2. restarts' \in [Mic -> Nat]
    BY <1>3, <2>1 DEF TypeOK
  <2> HIDE DEF stopped
  <2> QED BY <1>1, <1>2, <2>1, <2>2 DEF TypeOK
<1>4. CASE ~(recorderJob # None /\ loops[recorderJob].pc # "done")
  <2>1. Task(stopped, rec, CancelLoop(recorderJob)) /\ UNCHANGED restarts
    BY <1>4 DEF CreateRecorderAndJob
  <2> HIDE DEF stopped
  <2> QED BY <1>1, <1>2, <2>1, TaskType DEF TypeOK
<1> QED BY <1>3, <1>4

(* A step of a model run that only moves its program counter.              *)
LEMMA RunStepType ==
    ASSUME TypeInv, NEW r \in Run, NEW from, NEW STATE to, to \in RunPc,
           RunStep(r, from, to), to \in Untranscribed => from \in Untranscribed
    PROVE  runs' \in [Run -> RunRecord] /\ PassLeft'
<1>1. runs[r].pc = from /\ runs' = [runs EXCEPT ![r].pc = to]
  BY DEF RunStep
<1>2. runs \in [Run -> RunRecord]
  BY DEF TypeInv, TypeOK
<1>3. runs' \in [Run -> RunRecord]
  BY <1>1, <1>2 DEF RunRecord
<1>4. ASSUME NEW x \in Run, runs'[x].pc \in Untranscribed PROVE runs'[x].left # 0
  <2>1. runs'[x].left = runs[x].left
    BY <1>1, <1>2 DEF RunRecord
  <2>2. x = r \/ runs'[x].pc = runs[x].pc
    BY <1>1, <1>2
  <2>3. runs[x].pc \in Untranscribed
    BY <1>1, <1>2, <1>4, <2>2 DEF RunRecord
  <2> QED BY <2>1, <2>3 DEF TypeInv, PassLeft
<1> QED BY <1>3, <1>4 DEF PassLeft

(* A step of a recording loop that only moves its program counter.         *)
LEMMA LoopStepType ==
    ASSUME TypeOK, NEW m \in Mic, NEW from, NEW STATE to, to \in LoopPc,
           LoopStep(m, from, to)
    PROVE  loops' \in [Mic -> LoopRecord]
BY DEF TypeOK, LoopStep, LoopRecord

(* Cancelling a run touches neither its program counter nor its passes.    *)
LEMMA CancelRunPassLeft ==
    ASSUME TypeInv, NEW STATE r, runs' = CancelRun(r)
    PROVE  PassLeft'
<1> SUFFICES ASSUME NEW x \in Run, runs'[x].pc \in Untranscribed
             PROVE  runs'[x].left # 0
  BY DEF PassLeft
<1>1. runs'[x].pc = runs[x].pc /\ runs'[x].left = runs[x].left
  BY DEF CancelRun, TypeInv, TypeOK, RunRecord
<1> QED BY <1>1 DEF TypeInv, PassLeft

LEMMA FinishType ==
    ASSUME TypeInv, NEW STATE ls, ls \in [Mic -> LoopRecord], OnFinishRecording(ls)
    PROVE  TypeInv'
<1>1. PICK r \in Run :
        /\ modelJob' = r
        /\ runs' = [runs EXCEPT ![r] =
              [pc |-> "dispatched", cancelled |-> FALSE, sid |-> 0,
               born |-> sessionId, audio |-> {}, left |-> Passes]]
  BY DEF OnFinishRecording
<1> DEFINE new == [pc |-> "dispatched", cancelled |-> FALSE, sid |-> 0,
                   born |-> sessionId, audio |-> {}, left |-> Passes]
<1>2. new \in RunRecord /\ new.left # 0
  <2>1. sessionId \in Session /\ "dispatched" \in RunPc
    BY DEF TypeInv, TypeOK, RunPc
  <2> QED BY <2>1, BoundAssumption, SessionNat DEF RunRecord
<1>3. runs' \in [Run -> RunRecord]
  BY <1>1, <1>2 DEF TypeInv, TypeOK
<1>4. PassLeft'
  <2> SUFFICES ASSUME NEW x \in Run, runs'[x].pc \in Untranscribed
               PROVE  runs'[x].left # 0
    BY DEF PassLeft
  <2>1. CASE x = r
    BY <1>1, <1>2, <2>1 DEF TypeInv, TypeOK
  <2>2. CASE x # r
    BY <1>1, <2>2 DEF TypeInv, TypeOK, PassLeft
  <2> QED BY <2>1, <2>2
<1>5. micState' \in [Mic -> MicStates]
  BY SetMicType DEF OnFinishRecording, TypeInv, TypeOK, MicStates
<1> QED
  BY <1>1, <1>3, <1>4, <1>5 DEF OnFinishRecording, TypeInv, TypeOK, results, fields

LEMMA TypeInit == Init => TypeInv
<1> SUFFICES ASSUME Init PROVE TypeInv
  OBVIOUS
<1>1. NoLoop \in LoopRecord /\ NoRun \in RunRecord
  BY BoundAssumption, SessionNat
     DEF NoLoop, NoRun, LoopRecord, LoopPc, RunRecord, RunPc
<1>2. TypeOK
  BY <1>1, SessionNat DEF Init, TypeOK, NoLoad, MainPc, MicStates
<1>3. PassLeft
  BY DEF Init, PassLeft, Untranscribed, NoRun
<1> QED BY <1>2, <1>3 DEF TypeInv

USE DEF results, fields, audio, model
LEMMA TypeUser == ASSUME TypeInv, UserNext PROVE TypeInv'
<1>1. CASE Start
  BY <1>1, NextSession DEF Start, TypeInv, TypeOK, PassLeft, MainPc
<1>2. CASE Finish
  BY <1>2, FinishType, CancelLoopType DEF Finish, TypeInv
<1>3. CASE Reset
  BY <1>3, NextSession DEF Reset, TypeInv, TypeOK, PassLeft, MainPc
<1>4. CASE StartPrebuffering
  BY <1>4 DEF StartPrebuffering, TypeInv, TypeOK, PassLeft, MicStates
<1>5. CASE SetBluetooth
  BY <1>5, CreateType DEF SetBluetooth, TypeInv, TypeOK, PassLeft
<1> QED BY <1>1, <1>2, <1>3, <1>4, <1>5 DEF UserNext

LEMMA TypeMain == ASSUME TypeInv, MainNext PROVE TypeInv'
<1>1. CASE StartRecording
  <2>1. SetMic(micState, recorder, "released") \in [Mic -> MicStates]
    BY SetMicType DEF TypeInv, TypeOK, MicStates
  <2>2. /\ micState' \in [Mic -> MicStates] /\ loops' \in [Mic -> LoopRecord]
        /\ recorder' \in Mic \cup {None} /\ recorderJob' \in Mic \cup {None}
        /\ isRecording' \in BOOLEAN /\ buffer' \subseteq Session
        /\ restarts' \in [Mic -> Nat]
    BY <1>1, <2>1, CreateType DEF StartRecording, TypeInv, TypeOK
  <2>3. runs' \in [Run -> RunRecord] /\ PassLeft'
    BY <1>1, CancelRunType, CancelRunPassLeft DEF StartRecording, TypeInv
  <2> QED BY <1>1, <2>2, <2>3 DEF StartRecording, TypeInv, TypeOK, MainPc
<1>2. CASE ResetRest
  <2>1. micState' \in [Mic -> MicStates] /\ loops' \in [Mic -> LoopRecord]
    BY <1>2, SetMicType, CancelLoopType
       DEF ResetRest, TypeInv, TypeOK, MicStates
  <2>2. runs' \in [Run -> RunRecord] /\ PassLeft'
    BY <1>2, CancelRunType, CancelRunPassLeft DEF ResetRest, TypeInv
  <2> QED
    BY <1>2, <2>1, <2>2, SessionNat DEF ResetRest, TypeInv, TypeOK, MainPc, NoLoad
<1>3. CASE LoadFailed
  BY <1>3, NextSession DEF LoadFailed, TypeInv, TypeOK, PassLeft, MainPc
<1>4. ASSUME NEW m \in Mic, Restart(m) PROVE TypeInv'
  <2>1. Task(micState, recorder, loops)
    BY <1>4 DEF Restart
  <2>2. restarts' \in [Mic -> Nat]
    BY <1>4 DEF Restart, TypeInv, TypeOK
  <2> QED
    BY <1>4, <2>1, <2>2, TaskType DEF Restart, TypeInv, TypeOK, PassLeft
<1>5. ASSUME NEW m \in Mic, LoopFinish(m) PROVE TypeInv'
  <2>1. CASE isRecording /\ ~loops[m].cancelled
    <3>1. [CancelLoop(recorderJob) EXCEPT ![m].pc = "ended"] \in [Mic -> LoopRecord]
      BY CancelLoopType DEF TypeInv, LoopRecord, LoopPc
    <3> QED BY <1>5, <2>1, <3>1, FinishType DEF LoopFinish
  <2>2. CASE ~(isRecording /\ ~loops[m].cancelled)
    <3>1. loops' = [loops EXCEPT ![m].pc = "ended"] /\ LoopOnly /\ UNCHANGED buffer
      BY <1>5, <2>2 DEF LoopFinish
    <3>2. loops' \in [Mic -> LoopRecord]
      BY <3>1 DEF TypeInv, TypeOK, LoopRecord, LoopPc
    <3> QED BY <3>1, <3>2 DEF LoopOnly, TypeInv, TypeOK, PassLeft
  <2> QED BY <2>1, <2>2
<1>6. ASSUME NEW m \in Mic, LoopCompletes(m) PROVE TypeInv'
  <2>1. loops' \in [Mic -> LoopRecord]
    BY <1>6, LoopStepType DEF LoopCompletes, TypeInv, LoopPc
  <2> QED BY <1>6, <2>1 DEF LoopCompletes, LoopOnly, TypeInv, TypeOK, PassLeft
<1>7. ASSUME NEW b \in posted, CheckFinished(b) PROVE TypeInv'
  <2>1. b \in Block /\ [b EXCEPT !.checked = TRUE] \in Block
    BY DEF TypeInv, TypeOK, Block
  <2>2. posted' \subseteq Block
    BY <1>7, <2>1 DEF CheckFinished, TypeInv, TypeOK
  <2>3. answers' \in [Run -> Nat]
    BY <1>7, <2>1 DEF CheckFinished, TypeInv, TypeOK, Block
  <2> QED BY <1>7, <2>2, <2>3 DEF CheckFinished, TypeInv, TypeOK, PassLeft
<1>8. ASSUME NEW b \in posted, DeliverFinished(b) PROVE TypeInv'
  <2>1. b \in Block
    BY DEF TypeInv, TypeOK
  <2> QED BY <1>8, <2>1 DEF DeliverFinished, TypeInv, TypeOK, PassLeft, Block
<1> QED BY <1>1, <1>2, <1>3, <1>4, <1>5, <1>6, <1>7, <1>8 DEF MainNext

LEMMA TypeLoop ==
    ASSUME TypeInv, NEW m \in Mic, LoopNext(m) PROVE TypeInv'
<1>1. ASSUME LoopOnly, loops' \in [Mic -> LoopRecord], buffer' \subseteq Session
      PROVE  TypeInv'
  BY <1>1 DEF LoopOnly, TypeInv, TypeOK, PassLeft
<1>2. CASE LoopHead(m)
  BY <1>1, <1>2, LoopStepType DEF LoopHead, LoopPc, TypeInv, TypeOK
<1>3. CASE LoopRead(m)
  BY <1>1, <1>3, LoopStepType DEF LoopRead, LoopPc, TypeInv, TypeOK
<1>4. CASE LoopData(m)
  BY <1>1, <1>4, LoopStepType DEF LoopData, LoopPc, TypeInv, TypeOK
<1>5. CASE LoopAppend(m)
  <2>1. buffer' \subseteq Session
    BY <1>5 DEF LoopAppend, TypeInv, TypeOK, LoopRecord
  <2> QED BY <1>1, <1>5, <2>1, LoopStepType DEF LoopAppend, LoopPc, TypeInv
<1> QED BY <1>2, <1>3, <1>4, <1>5 DEF LoopNext

LEMMA TypeRun ==
    ASSUME TypeInv, NEW r \in Run, RunNext(r) PROVE TypeInv'
<1> USE DEF RunPc, Untranscribed
<1>1. ASSUME UNCHANGED <<main, sessionId, fields, audio, modelJob,
                         loadModelJob, answers>>,
             runs' \in [Run -> RunRecord], PassLeft',
             posted' \subseteq Block,
             engine' \in Run \cup {None}, cancelFlag' \in BOOLEAN
      PROVE  TypeInv'
  BY <1>1 DEF TypeInv, TypeOK
<1>2. CASE RunStarts(r)
  BY <1>1, <1>2, RunStepType DEF RunStarts, RunOnly, NoEngine, TypeInv, TypeOK
<1>3. CASE RunCapture(r)
  <2> DEFINE new == [runs[r] EXCEPT !.pc = "loading", !.sid = sessionId]
  <2>0. new \in RunRecord /\ runs' = [runs EXCEPT ![r] = new]
    BY <1>3 DEF RunCapture, TypeInv, TypeOK, RunRecord
  <2>1. runs' \in [Run -> RunRecord]
    BY <2>0 DEF TypeInv, TypeOK
  <2>2. PassLeft'
    BY <1>3 DEF RunCapture, TypeInv, TypeOK, RunRecord, PassLeft
  <2> QED BY <1>1, <1>3, <2>1, <2>2 DEF RunCapture, RunOnly, NoEngine, TypeInv, TypeOK
<1>4. CASE RunLoaded(r)
  BY <1>1, <1>4, RunStepType DEF RunLoaded, RunOnly, NoEngine, TypeInv, TypeOK
<1>5. CASE RunSlice(r)
  <2>1. runs' \in [Run -> RunRecord]
    BY <1>5 DEF RunSlice, TypeInv, TypeOK, RunRecord
  <2>2. PassLeft'
    BY <1>5 DEF RunSlice, TypeInv, TypeOK, RunRecord, PassLeft
  <2> QED BY <1>1, <1>5, <2>1, <2>2 DEF RunSlice, RunOnly, NoEngine, TypeInv, TypeOK
<1>6. CASE RunRemote(r)
  BY <1>1, <1>6, RunStepType DEF RunRemote, RunOnly, NoEngine, TypeInv, TypeOK
<1>7. CASE RunAnswered(r)
  <2>1. runs' \in [Run -> RunRecord] /\ PassLeft'
    BY <1>7, RunStepType DEF RunAnswered
  <2>2. posted' \subseteq Block
    <3>1. [run |-> r, early |-> TRUE, checked |-> FALSE] \in Block
      BY DEF Block
    <3> QED BY <1>7, <3>1 DEF RunAnswered, TypeInv, TypeOK
  <2> QED BY <1>1, <1>7, <2>1, <2>2 DEF RunAnswered, NoEngine, TypeInv, TypeOK
<1>8. CASE RunEnters(r)
  BY <1>1, <1>8, RunStepType DEF RunEnters, RunOnly, TypeInv, TypeOK
<1>9. CASE InferStart(r)
  BY <1>1, <1>9, RunStepType DEF InferStart, RunOnly, TypeInv, TypeOK
<1>10. CASE InferPartial(r)
  BY <1>1, <1>10, RunStepType DEF InferPartial, RunOnly, NoEngine, TypeInv, TypeOK
<1>11. CASE DeliverPartial(r)
  BY <1>1, <1>11, RunStepType DEF DeliverPartial, RunOnly, NoEngine, TypeInv, TypeOK
<1>12. CASE InferEnd(r)
  <2>1. runs[r].left \in 1 .. Passes
    BY <1>12, BoundAssumption DEF InferEnd, TypeInv, TypeOK, RunRecord, PassLeft
  <2>2. PICK next \in {"done", "queued", "transcribed"} :
          /\ runs' = [runs EXCEPT ![r].pc = next, ![r].left = @ - 1]
          /\ next = "queued" => runs[r].left > 1
    BY <1>12 DEF InferEnd
  <2>3. runs[r].left - 1 \in 0 .. Passes
    BY <2>1, BoundAssumption
  <2>4. runs' \in [Run -> RunRecord]
    BY <2>2, <2>3 DEF TypeInv, TypeOK, RunRecord
  <2>5. ASSUME NEW x \in Run, runs'[x].pc \in Untranscribed PROVE runs'[x].left # 0
    <3>1. CASE x = r
      BY <2>1, <2>2, <2>5, <3>1 DEF TypeInv, TypeOK, RunRecord
    <3>2. CASE x # r
      BY <2>2, <2>5, <3>2 DEF TypeInv, TypeOK, PassLeft
    <3> QED BY <3>1, <3>2
  <2> QED
    BY <1>1, <1>12, <2>4, <2>5 DEF InferEnd, RunOnly, PassLeft, TypeInv, TypeOK
<1>13. CASE RunTranscribed(r)
  BY <1>1, <1>13, RunStepType DEF RunTranscribed, RunOnly, NoEngine, TypeInv, TypeOK
<1>14. CASE RunPosts(r)
  <2>1. runs' \in [Run -> RunRecord] /\ PassLeft'
    BY <1>14, RunStepType DEF RunPosts
  <2>2. posted' \subseteq Block
    <3>1. [run |-> r, early |-> FALSE, checked |-> FALSE] \in Block
      BY DEF Block
    <3> QED BY <1>14, <3>1 DEF RunPosts, TypeInv, TypeOK
  <2> QED BY <1>1, <1>14, <2>1, <2>2 DEF RunPosts, NoEngine, TypeInv, TypeOK
<1> QED
  BY <1>2, <1>3, <1>4, <1>5, <1>6, <1>7, <1>8, <1>9, <1>10, <1>11, <1>12,
     <1>13, <1>14 DEF RunNext

LEMMA TypeStep == TypeInv /\ [Next]_vars => TypeInv'
<1> SUFFICES ASSUME TypeInv, [Next]_vars PROVE TypeInv'
  OBVIOUS
<1>1. CASE LoadModel
  BY <1>1 DEF LoadModel, LoadOnly, TypeInv, TypeOK, PassLeft
<1>2. CASE UNCHANGED vars
  BY <1>2 DEF vars, TypeInv, TypeOK, PassLeft
<1> QED BY <1>1, <1>2, TypeUser, TypeMain, TypeLoop, TypeRun DEF Next

(* The variables only ever hold values of their types, and no run is sent  *)
(* through the inference more often than it has passes.                    *)
THEOREM TypeCorrect == Spec => []TypeOK
<1>1. TypeInv => TypeOK
  BY DEF TypeInv
<1> QED BY <1>1, TypeInit, TypeStep, PTL DEF Spec

-----------------------------------------------------------------------------
(* The microphone.  MicExclusive is not inductive: startPrebuffering       *)
(* overwrites the field recorder without releasing it, which is harmless   *)
(* only because an open AudioRecord has isRecording or isPrebuffering set. *)

OpenIsOwned ==
    \A m \in Mic : micState[m] = "started" => isRecording \/ isPrebuffering

MicInv == TypeInv /\ MicExclusive /\ RecorderUsable /\ OpenIsOwned

(* Task leaves one AudioRecord open, when no other than rec was.           *)
LEMMA TaskMic ==
    ASSUME NEW STATE ms, ms \in [Mic -> MicStates], NEW STATE rec, NEW STATE ls,
           \A x \in Mic : ms[x] = "started" => rec = x,
           Task(ms, rec, ls)
    PROVE  MicExclusive' /\ RecorderUsable' /\ OpenIsOwned'
<1>1. PICK m \in Mic :
        /\ micState' = SetMic(SetMic(ms, rec, "released"), m, "started")
        /\ recorder' = m /\ isRecording' = TRUE
  BY DEF Task
<1>2. ASSUME NEW x \in Mic, x # m PROVE micState'[x] # "started"
  BY <1>1, <1>2 DEF SetMic
<1>3. micState'[m] = "started"
  BY <1>1 DEF SetMic
<1> QED BY <1>1, <1>2, <1>3 DEF MicExclusive, RecorderUsable, OpenIsOwned

LEMMA CreateMic ==
    ASSUME NEW STATE ms, ms \in [Mic -> MicStates], NEW STATE rec, rec \in Mic \cup {None},
           \A x \in Mic : ms[x] = "started" => rec = x,
           CreateRecorderAndJob(ms, rec)
    PROVE  MicExclusive' /\ RecorderUsable' /\ OpenIsOwned'
<1>1. \A x \in Mic : SetMic(ms, rec, "stopped")[x] # "started"
  BY DEF SetMic
<1>2. SetMic(ms, rec, "stopped") \in [Mic -> MicStates]
  BY SetMicType DEF MicStates
<1>3. CASE recorderJob # None /\ loops[recorderJob].pc # "done"
  <2>1. micState' = SetMic(ms, rec, "stopped") /\ recorder' = rec
    BY <1>3 DEF CreateRecorderAndJob
  <2>2. rec # None => micState'[rec] = "stopped"
    BY <2>1 DEF SetMic
  <2> QED BY <1>1, <2>1, <2>2 DEF MicExclusive, RecorderUsable, OpenIsOwned
<1>4. CASE ~(recorderJob # None /\ loops[recorderJob].pc # "done")
  <2>1. Task(SetMic(ms, rec, "stopped"), rec, CancelLoop(recorderJob))
    BY <1>4 DEF CreateRecorderAndJob
  <2> QED BY <1>1, <1>2, <2>1, TaskMic
<1> QED BY <1>3, <1>4

LEMMA FinishMic ==
    ASSUME MicInv, NEW STATE ls, OnFinishRecording(ls)
    PROVE  MicExclusive' /\ RecorderUsable' /\ OpenIsOwned'
<1>1. micState' = SetMic(micState, recorder, "stopped") /\ recorder' = recorder
  BY DEF OnFinishRecording
<1>2. \A x \in Mic : micState'[x] # "started"
  BY <1>1 DEF MicInv, MicExclusive, SetMic
<1>3. recorder # None => micState'[recorder] = "stopped"
  BY <1>1 DEF SetMic, MicInv, TypeInv, TypeOK
<1> QED BY <1>1, <1>2, <1>3 DEF MicExclusive, RecorderUsable, OpenIsOwned

(* At most one AudioRecord is open, it is the one the next reset()         *)
(* releases, and the field never holds one that was released.              *)
THEOREM MicrophoneSafe == Spec => [](MicExclusive /\ RecorderUsable)
<1>1. Init => MicInv
  BY TypeInit DEF Init, MicInv, MicExclusive, RecorderUsable, OpenIsOwned
<1>2. MicInv /\ [Next]_vars => MicInv'
  <2> SUFFICES ASSUME MicInv, [Next]_vars
               PROVE  MicExclusive' /\ RecorderUsable' /\ OpenIsOwned'
    BY TypeStep DEF MicInv
  <2> USE DEF MicInv
  <2>1. ASSUME UNCHANGED <<micState, recorder, isRecording, isPrebuffering>>
        PROVE  MicExclusive' /\ RecorderUsable' /\ OpenIsOwned'
    BY <2>1 DEF MicExclusive, RecorderUsable, OpenIsOwned
  <2>2. CASE StartRecording
    <3>1. CASE isPrebuffering
      <4>1. CreateRecorderAndJob(SetMic(micState, recorder, "released"), None)
        BY <2>2, <3>1 DEF StartRecording
      <4>2. \A x \in Mic : SetMic(micState, recorder, "released")[x] # "started"
        BY DEF SetMic, MicExclusive
      <4>3. SetMic(micState, recorder, "released") \in [Mic -> MicStates]
        BY SetMicType DEF TypeInv, TypeOK, MicStates
      <4> QED BY <4>1, <4>2, <4>3, CreateMic
    <3>2. CASE ~isPrebuffering
      <4>1. CreateRecorderAndJob(micState, recorder)
        BY <2>2, <3>2 DEF StartRecording
      <4> QED BY <4>1, CreateMic DEF MicExclusive, TypeInv, TypeOK
    <3> QED BY <3>1, <3>2
  <2>3. CASE SetBluetooth
    <3>1. CreateRecorderAndJob(micState, recorder)
      BY <2>3 DEF SetBluetooth
    <3> QED BY <3>1, CreateMic DEF MicExclusive, TypeInv, TypeOK
  <2>4. ASSUME NEW m \in Mic, Restart(m)
        PROVE  MicExclusive' /\ RecorderUsable' /\ OpenIsOwned'
    <3>1. Task(micState, recorder, loops)
      BY <2>4 DEF Restart
    <3> QED BY <3>1, TaskMic DEF MicExclusive, TypeInv, TypeOK
  <2>5. CASE Finish
    BY <2>5, FinishMic DEF Finish
  <2>6. ASSUME NEW m \in Mic, LoopFinish(m)
        PROVE  MicExclusive' /\ RecorderUsable' /\ OpenIsOwned'
    BY <2>1, <2>6, FinishMic DEF LoopFinish, LoopOnly
  <2>7. CASE ResetRest
    <3>1. \A x \in Mic : micState'[x] # "started"
      BY <2>7 DEF ResetRest, SetMic, MicExclusive
    <3> QED BY <2>7, <3>1 DEF ResetRest, MicExclusive, RecorderUsable, OpenIsOwned
  <2>8. CASE StartPrebuffering
    <3>1. PICK m \in Mic :
            micState' = [micState EXCEPT ![m] = "started"] /\ recorder' = m
      BY <2>8 DEF StartPrebuffering
    <3>2. \A x \in Mic : micState[x] # "started"
      BY <2>8 DEF StartPrebuffering, OpenIsOwned
    <3> QED
      BY <2>8, <3>1, <3>2
         DEF StartPrebuffering, MicExclusive, RecorderUsable, OpenIsOwned,
             TypeInv, TypeOK
  <2>9. CASE Start \/ Reset \/ LoadModel \/ LoadFailed
    BY <2>1, <2>9 DEF Start, Reset, LoadModel, LoadOnly, LoadFailed
  <2>10. ASSUME NEW m \in Mic, LoopNext(m) \/ LoopCompletes(m)
         PROVE  MicExclusive' /\ RecorderUsable' /\ OpenIsOwned'
    BY <2>1, <2>10
       DEF LoopNext, LoopHead, LoopRead, LoopData, LoopAppend, LoopCompletes, LoopOnly
  <2>11. ASSUME NEW b, CheckFinished(b) \/ DeliverFinished(b)
         PROVE  MicExclusive' /\ RecorderUsable' /\ OpenIsOwned'
    BY <2>1, <2>11 DEF CheckFinished, DeliverFinished
  <2>12. ASSUME NEW r \in Run, RunNext(r)
         PROVE  MicExclusive' /\ RecorderUsable' /\ OpenIsOwned'
    BY <2>1, <2>12
       DEF RunNext, RunStarts, RunCapture, RunLoaded, RunSlice, RunRemote,
           RunAnswered, RunEnters, InferStart, InferPartial, DeliverPartial,
           InferEnd, RunTranscribed, RunPosts, RunOnly
  <2>13. CASE UNCHANGED vars
    BY <2>1, <2>13 DEF vars
  <2> QED
    BY <2>2, <2>3, <2>4, <2>5, <2>6, <2>7, <2>8, <2>9, <2>10, <2>11, <2>12, <2>13
       DEF Next, UserNext, MainNext
<1>3. MicInv => MicExclusive /\ RecorderUsable
  BY DEF MicInv
<1> QED BY <1>1, <1>2, <1>3, PTL DEF Spec

(* The field never holds a released AudioRecord, whose stop() throws.      *)
THEOREM RecorderStaysUsable == Spec => []RecorderUsable
BY MicrophoneSafe, PTL

-----------------------------------------------------------------------------
(* Answers.  Without the single-pass shortcut a run posts one block, as    *)
(* its last step, and the block is gone when the listener has been called. *)

BlocksAreLast ==
    \A b \in posted : /\ runs[b.run].pc = "done" /\ answers[b.run] = 0
                      /\ ~b.early
OneBlock == \A b, c \in posted : b.run = c.run => b = c
AnswersAreLast ==
    \A r \in Run : runs[r].pc # "done" => answers[r] = 0 /\ runs[r].pc # "answered"

AnswerInv == TypeInv /\ BlocksAreLast /\ OneBlock /\ AnswersAreLast /\ AnswerOnce

(* A step that moves runs without finishing an answer.                     *)
LEMMA AnswerQuiet ==
    ASSUME AnswerInv, TypeInv', UNCHANGED <<posted, answers>>,
           \A r \in Run : /\ runs[r].pc = "done" => runs'[r].pc = "done"
                          /\ runs'[r].pc # "answered"
    PROVE  AnswerInv'
<1>1. \A b \in posted : b.run \in Run
  BY DEF AnswerInv, TypeInv, TypeOK, Block
<1> QED
  BY <1>1 DEF AnswerInv, BlocksAreLast, OneBlock, AnswersAreLast, AnswerOnce

LEMMA AnswerStep ==
    ASSUME Groq # "single", AnswerInv, [Next]_vars PROVE AnswerInv'
<1>0. TypeInv'
  BY TypeStep DEF AnswerInv
<1> USE DEF AnswerInv
<1>1. ASSUME UNCHANGED <<posted, answers, runs>> PROVE AnswerInv'
  BY <1>0, <1>1 DEF BlocksAreLast, OneBlock, AnswersAreLast, AnswerOnce
<1>2. ASSUME NEW STATE r, runs' = CancelRun(r), UNCHANGED <<posted, answers>>
      PROVE  AnswerInv'
  <2>1. \A x \in Run : runs'[x].pc = runs[x].pc
    BY <1>2 DEF CancelRun, TypeInv, TypeOK, RunRecord
  <2>2. \A x \in Run : runs[x].pc # "answered"
    BY DEF AnswersAreLast
  <2> QED BY <1>0, <1>2, <2>1, <2>2, AnswerQuiet
<1>3. ASSUME NEW STATE ls, OnFinishRecording(ls) PROVE AnswerInv'
  <2>1. PICK r \in Run : /\ runs[r].pc = "none"
                         /\ \A x \in Run : x # r => runs'[x] = runs[x]
                         /\ runs'[r].pc = "dispatched"
    BY <1>3 DEF OnFinishRecording, FreshRun, TypeInv, TypeOK
  <2>2. \A x \in Run : runs[x].pc # "answered"
    BY DEF AnswersAreLast
  <2>3. UNCHANGED <<posted, answers>>
    BY <1>3 DEF OnFinishRecording
  <2> QED BY <1>0, <2>1, <2>2, <2>3, AnswerQuiet
<1>4. ASSUME NEW r \in Run, NEW from, NEW STATE to, RunStep(r, from, to),
             from # "done", to # "answered", UNCHANGED <<posted, answers>>
      PROVE  AnswerInv'
  <2>1. \A x \in Run : x # r => runs'[x] = runs[x]
    BY <1>4 DEF RunStep, TypeInv, TypeOK
  <2>2. runs'[r].pc = to /\ runs[r].pc = from
    BY <1>4 DEF RunStep, TypeInv, TypeOK, RunRecord
  <2>3. \A x \in Run : runs[x].pc # "answered"
    BY DEF AnswersAreLast
  <2> QED BY <1>0, <1>4, <2>1, <2>2, <2>3, AnswerQuiet
<1>5. CASE UserNext
  <2>1. CASE Finish
    BY <1>3, <2>1 DEF Finish
  <2> QED
    BY <1>1, <1>5, <2>1
       DEF UserNext, Start, Reset, StartPrebuffering, SetBluetooth
<1>6. CASE MainNext
  <2>1. CASE StartRecording \/ ResetRest
    BY <1>2, <2>1 DEF StartRecording, ResetRest
  <2>2. ASSUME NEW m \in Mic, LoopFinish(m) PROVE AnswerInv'
    BY <1>1, <1>3, <2>2 DEF LoopFinish, LoopOnly
  <2>3. CASE LoadFailed \/ \E m \in Mic : Restart(m) \/ LoopCompletes(m)
    BY <1>1, <2>3 DEF LoadFailed, Restart, LoopCompletes, LoopOnly
  <2>4. ASSUME NEW b \in posted, CheckFinished(b) PROVE AnswerInv'
    <3>1. b \in Block /\ ~b.early
      BY DEF TypeInv, TypeOK, BlocksAreLast
    <3>2. UNCHANGED <<runs, answers>>
      BY <2>4, <3>1 DEF CheckFinished
    <3> DEFINE c == [b EXCEPT !.checked = TRUE]
    <3>3. c.run = b.run /\ ~c.early
      BY <3>1 DEF Block
    <3>4. posted' = posted \ {b} \/ posted' = (posted \ {b}) \cup {c}
      BY <2>4, <3>1 DEF CheckFinished
    <3> HIDE DEF c
    <3>5. BlocksAreLast' /\ OneBlock'
      BY <3>2, <3>3, <3>4 DEF BlocksAreLast, OneBlock
    <3> QED BY <1>0, <3>2, <3>5 DEF AnswersAreLast, AnswerOnce
  <2>5. ASSUME NEW b \in posted, DeliverFinished(b) PROVE AnswerInv'
    <3>1. /\ b.run \in Run /\ runs[b.run].pc = "done" /\ answers[b.run] = 0
          /\ \A c \in posted : c # b => c.run # b.run
      BY DEF TypeInv, TypeOK, Block, BlocksAreLast, OneBlock
    <3>2. /\ posted' = posted \ {b} /\ UNCHANGED runs
          /\ answers' = [answers EXCEPT ![b.run] = 1]
      BY <2>5, <3>1 DEF DeliverFinished
    <3>3. BlocksAreLast'
      BY <3>1, <3>2 DEF BlocksAreLast, TypeInv, TypeOK, Block
    <3>4. AnswersAreLast' /\ AnswerOnce'
      BY <3>1, <3>2 DEF AnswersAreLast, AnswerOnce, TypeInv, TypeOK
    <3> QED BY <1>0, <3>2, <3>3, <3>4 DEF OneBlock
  <2> QED BY <1>6, <2>1, <2>2, <2>3, <2>4, <2>5 DEF MainNext
<1>7. CASE LoadModel \/ (\E m \in Mic : LoopNext(m)) \/ UNCHANGED vars
  BY <1>1, <1>7
     DEF LoadModel, LoadOnly, LoopNext, LoopHead, LoopRead, LoopData,
         LoopAppend, LoopOnly, vars
<1>8. ASSUME NEW r \in Run, RunNext(r) PROVE AnswerInv'
  <2>1. CASE RunStarts(r) \/ RunLoaded(r) \/ RunRemote(r) \/ RunEnters(r)
             \/ InferStart(r) \/ InferPartial(r) \/ DeliverPartial(r)
             \/ RunTranscribed(r)
    BY <1>4, <2>1
       DEF RunStarts, RunLoaded, RunRemote, RunEnters, InferStart,
           InferPartial, DeliverPartial, RunTranscribed, RunOnly
  <2>2. CASE RunCapture(r) \/ RunSlice(r) \/ InferEnd(r)
    <3>1. /\ runs[r].pc # "done" /\ runs'[r].pc # "answered"
          /\ \A x \in Run : x # r => runs'[x] = runs[x]
      BY <2>2 DEF RunCapture, RunSlice, InferEnd, TypeInv, TypeOK, RunRecord
    <3>2. \A x \in Run : runs[x].pc # "answered"
      BY DEF AnswersAreLast
    <3>3. UNCHANGED <<posted, answers>>
      BY <2>2 DEF RunCapture, RunSlice, InferEnd, RunOnly
    <3> QED BY <1>0, <3>1, <3>2, <3>3, AnswerQuiet
  <2>3. CASE RunAnswered(r)
    <3>1. runs[r].pc = "answered"
      BY <2>3 DEF RunAnswered, RunStep
    <3> QED BY <3>1 DEF AnswersAreLast
  <2>4. CASE RunPosts(r)
    <3> DEFINE b == [run |-> r, early |-> FALSE, checked |-> FALSE]
    <3>1. /\ runs[r].pc = "posting" /\ answers[r] = 0
          /\ runs'[r].pc = "done" /\ UNCHANGED answers
          /\ \A x \in Run : x # r => runs'[x] = runs[x]
          /\ posted' \subseteq posted \cup {b}
      BY <2>4 DEF RunPosts, RunStep, AnswersAreLast, TypeInv, TypeOK, RunRecord
    <3>2. \A c \in posted : c.run \in Run /\ c.run # r
      BY <3>1 DEF BlocksAreLast, TypeInv, TypeOK, Block
    <3>3. b.run = r /\ ~b.early
      OBVIOUS
    <3> HIDE DEF b
    <3>4. BlocksAreLast' /\ OneBlock'
      BY <3>1, <3>2, <3>3 DEF BlocksAreLast, OneBlock
    <3> QED BY <1>0, <3>1, <3>4 DEF AnswersAreLast, AnswerOnce
  <2> QED BY <1>8, <2>1, <2>2, <2>3, <2>4 DEF RunNext
<1> QED BY <1>5, <1>6, <1>7, <1>8 DEF Next

(* Every recording is answered at most once: finished() is called no more  *)
(* than once for an onFinishRecording, unless Groq runs in a single pass.  *)
THEOREM AnsweredOnce == Groq # "single" => (Spec => []AnswerOnce)
<1> SUFFICES ASSUME Groq # "single" PROVE Spec => []AnswerOnce
  OBVIOUS
<1>1. Init => AnswerInv
  BY TypeInit
     DEF Init, AnswerInv, BlocksAreLast, OneBlock, AnswersAreLast, AnswerOnce, NoRun
<1>2. AnswerInv /\ [Next]_vars => AnswerInv'
  BY AnswerStep
<1>3. AnswerInv => AnswerOnce
  BY DEF AnswerInv
<1> QED BY <1>1, <1>2, <1>3, PTL DEF Spec

-----------------------------------------------------------------------------
(* Recordings.                                                             *)

RecordingInv ==
    isRecording => /\ recorderJob \in Mic /\ recorder = recorderJob
                   /\ micState[recorder] = "started"
                   /\ ~loops[recorderJob].cancelled

(* What a step of a run cannot do: revive a run, change whose it is, or    *)
(* enter the inference with the cancel flag up.                            *)
Infers(r) == runs[r].pc \in {"inferring", "partial"}

LEMMA RunFrame ==
    ASSUME TypeOK, NEW r \in Run, RunNext(r)
    PROVE  /\ UNCHANGED <<main, sessionId, fields, audio, modelJob, loadModelJob>>
           /\ \A x \in Run : /\ runs'[x].born = runs[x].born
                             /\ runs'[x].cancelled = runs[x].cancelled
                             /\ Live(x)' => Live(x)
                             /\ Infers(x)' /\ cancelFlag' => Infers(x) /\ cancelFlag
<1>1. ASSUME NEW from, NEW STATE to, RunStep(r, from, to), from \notin {"none", "done"},
             to \in {"inferring", "partial"} =>
                 cancelFlag' = FALSE
                 \/ (from \in {"inferring", "partial"} /\ UNCHANGED cancelFlag),
             UNCHANGED cancelFlag \/ cancelFlag' = FALSE
      PROVE  \A x \in Run : /\ runs'[x].born = runs[x].born
                            /\ runs'[x].cancelled = runs[x].cancelled
                            /\ Live(x)' => Live(x)
                            /\ Infers(x)' /\ cancelFlag' => Infers(x) /\ cancelFlag
  <2>1. ASSUME NEW x \in Run, x # r PROVE runs'[x] = runs[x]
    BY <1>1, <2>1 DEF RunStep, TypeOK
  <2>2. /\ runs[r].pc = from /\ runs'[r].pc = to
        /\ runs'[r].born = runs[r].born /\ runs'[r].cancelled = runs[r].cancelled
    BY <1>1 DEF RunStep, TypeOK, RunRecord
  <2> QED BY <1>1, <2>1, <2>2 DEF Live, Infers
<1>2. CASE RunStarts(r)
  BY <1>1, <1>2 DEF RunStarts, RunOnly, NoEngine
<1>3. CASE RunCapture(r)
  BY <1>3 DEF RunCapture, RunOnly, NoEngine, TypeOK, RunRecord, Live, Infers
<1>4. CASE RunLoaded(r)
  BY <1>1, <1>4 DEF RunLoaded, RunOnly, NoEngine
<1>5. CASE RunSlice(r)
  BY <1>5 DEF RunSlice, RunOnly, NoEngine, TypeOK, RunRecord, Live, Infers
<1>6. CASE RunRemote(r)
  BY <1>1, <1>6 DEF RunRemote, RunOnly, NoEngine
<1>7. CASE RunAnswered(r)
  BY <1>1, <1>7 DEF RunAnswered, NoEngine
<1>8. CASE RunEnters(r)
  BY <1>1, <1>8 DEF RunEnters, RunOnly
<1>9. CASE InferStart(r)
  BY <1>1, <1>9 DEF InferStart, RunOnly
<1>10. CASE InferPartial(r) \/ DeliverPartial(r)
  BY <1>1, <1>10 DEF InferPartial, DeliverPartial, RunOnly, NoEngine
<1>11. CASE InferEnd(r)
  <2>1. PICK next \in {"done", "queued", "transcribed"} :
          runs' = [runs EXCEPT ![r].pc = next, ![r].left = @ - 1]
    BY <1>11 DEF InferEnd
  <2> QED BY <1>11, <2>1 DEF InferEnd, RunOnly, TypeOK, RunRecord, Live, Infers
<1>12. CASE RunTranscribed(r)
  BY <1>1, <1>12 DEF RunTranscribed, RunOnly, NoEngine
<1>13. CASE RunPosts(r)
  BY <1>1, <1>13 DEF RunPosts, NoEngine
<1> QED
  BY <1>2, <1>3, <1>4, <1>5, <1>6, <1>7, <1>8, <1>9, <1>10, <1>11, <1>12, <1>13
     DEF RunNext

(* What the steps of a recording loop, and the cancellation of one, leave. *)
LoopKept(x) == /\ loops'[x].cancelled = loops[x].cancelled
               /\ loops'[x].sid = loops[x].sid
               /\ loops[x].pc \in {"none", "done"} => loops'[x].pc = loops[x].pc

LEMMA LoopStepKeeps ==
    ASSUME TypeOK, NEW m \in Mic, NEW from, NEW STATE to,
           from \notin {"none", "done"}, LoopStep(m, from, to)
    PROVE  \A x \in Mic : LoopKept(x)
BY DEF LoopStep, LoopKept, TypeOK, LoopRecord

LEMMA LoopFrame ==
    ASSUME TypeOK, NEW m \in Mic, LoopNext(m) \/ LoopCompletes(m)
    PROVE  LoopOnly /\ (\A x \in Mic : LoopKept(x))
           /\ (UNCHANGED buffer \/ LoopAppend(m))
BY LoopStepKeeps
   DEF LoopNext, LoopHead, LoopRead, LoopData, LoopAppend, LoopCompletes

(* What is true once the task of createRecorderAndJob has run.             *)
TaskRan(m, ls) ==
    /\ isRecording' = TRUE /\ recorder' = m /\ recorderJob' = m
    /\ micState'[m] = "started" /\ buffer' = {}
    /\ loops'[m] = [pc |-> "head", cancelled |-> FALSE, sid |-> sessionId]
    /\ \A x \in Mic : x # m => loops'[x] = ls[x]

LEMMA TaskRecords ==
    ASSUME NEW STATE ms, NEW STATE rec, NEW STATE ls, ls \in [Mic -> LoopRecord],
           Task(ms, rec, ls)
    PROVE  \E m \in Mic : TaskRan(m, ls)
BY DEF Task, SetMic, TaskRan

LEMMA CancelLoopKeeps ==
    ASSUME TypeOK, NEW STATE j, NEW m \in Mic
    PROVE  /\ CancelLoop(j)[m].pc = loops[m].pc
           /\ CancelLoop(j)[m].sid = loops[m].sid
BY DEF CancelLoop, TypeOK, LoopRecord

LEMMA CreateCases ==
    ASSUME NEW STATE ms, NEW STATE rec, CreateRecorderAndJob(ms, rec)
    PROVE  \/ /\ recorderJob # None /\ loops[recorderJob].pc # "done"
              /\ isRecording' = FALSE /\ recorder' = rec
              /\ loops' = CancelLoop(recorderJob)
              /\ restarts' = [restarts EXCEPT ![recorderJob] = @ + 1]
              /\ UNCHANGED <<recorderJob, buffer>>
           \/ /\ recorderJob = None \/ loops[recorderJob].pc = "done"
              /\ Task(SetMic(ms, rec, "stopped"), rec, CancelLoop(recorderJob))
              /\ UNCHANGED restarts
BY DEF CreateRecorderAndJob

LEMMA CreateRecords ==
    ASSUME TypeOK, NEW STATE ms, NEW STATE rec, CreateRecorderAndJob(ms, rec)
    PROVE  RecordingInv'
<1>1. CancelLoop(recorderJob) \in [Mic -> LoopRecord]
  BY CancelLoopType
<1> QED BY <1>1, CreateCases, TaskRecords DEF RecordingInv, TaskRan

LEMMA RecordingStep == TypeInv /\ RecordingInv /\ [Next]_vars => RecordingInv'
<1> SUFFICES ASSUME TypeInv, RecordingInv, [Next]_vars PROVE RecordingInv'
  OBVIOUS
<1>1. CASE StartRecording \/ SetBluetooth
  BY <1>1, CreateRecords DEF StartRecording, SetBluetooth, TypeInv
<1>2. ASSUME NEW m \in Mic, Restart(m) PROVE RecordingInv'
  BY <1>2, TaskRecords DEF Restart, RecordingInv, TaskRan, TypeInv, TypeOK
<1>3. CASE Finish \/ ResetRest
  BY <1>3 DEF Finish, OnFinishRecording, ResetRest, RecordingInv
<1>4. ASSUME NEW m \in Mic, LoopFinish(m) PROVE RecordingInv'
  <2>1. CASE isRecording /\ ~loops[m].cancelled
    BY <1>4, <2>1 DEF LoopFinish, OnFinishRecording, RecordingInv
  <2>2. CASE ~(isRecording /\ ~loops[m].cancelled)
    BY <1>4, <2>2
       DEF LoopFinish, LoopOnly, RecordingInv, TypeInv, TypeOK, LoopRecord
  <2> QED BY <2>1, <2>2
<1>5. ASSUME NEW m \in Mic, LoopNext(m) \/ LoopCompletes(m) PROVE RecordingInv'
  BY <1>5, LoopFrame DEF LoopOnly, LoopKept, RecordingInv, TypeInv
<1>6. ASSUME NEW r \in Run, RunNext(r) PROVE RecordingInv'
  BY <1>6, RunFrame DEF RecordingInv, TypeInv
<1>7. CASE StartPrebuffering
  BY <1>7 DEF StartPrebuffering, RecordingInv
<1>8. ASSUME UNCHANGED <<fields, audio>> PROVE RecordingInv'
  BY <1>8 DEF RecordingInv
<1>9. CASE Start \/ Reset \/ LoadModel \/ LoadFailed \/ UNCHANGED vars
           \/ \E b \in posted : CheckFinished(b) \/ DeliverFinished(b)
  BY <1>8, <1>9
     DEF Start, Reset, LoadModel, LoadOnly, LoadFailed, CheckFinished,
         DeliverFinished, vars
<1> QED
  BY <1>1, <1>2, <1>3, <1>4, <1>5, <1>6, <1>7, <1>9 DEF Next, UserNext, MainNext

(* While isRecording is set, the loop of recorderJob reads the open        *)
(* AudioRecord of the field and was not cancelled.  The invariant only     *)
(* adds that there is such a loop.                                         *)
THEOREM RecordingStaysLive == Spec => []RecordingIsLive
<1>1. Init => RecordingInv
  BY DEF Init, RecordingInv
<1>2. RecordingInv => RecordingIsLive
  BY DEF RecordingInv, RecordingIsLive
<1> QED BY <1>1, <1>2, TypeInit, TypeStep, RecordingStep, PTL DEF Spec

-----------------------------------------------------------------------------
(* Live runs.  finish() forgets the run of modelJob without cancelling it; *)
(* LiveRunIsCurrent holds because no run is live while a recording is in   *)
(* progress or about to restart (RecordsAlone).  For this no restart may   *)
(* come after the finish() of the recording that another restart began:    *)
(* hence the hypothesis that at most one coroutine waits for a loop.       *)

OneRestart ==
    \A m \in Mic : restarts[m] > 0 => /\ m = recorderJob /\ restarts[m] = 1
                                      /\ ~isRecording /\ main # "starting"
OldLoopsDone ==
    \A m \in Mic : m # recorderJob => loops[m].pc \in {"none", "done"}
NoLiveRun == \A r \in Run : ~Live(r)
Waits == \E m \in Mic : restarts[m] > 0
RecordsAlone == isRecording \/ Waits => NoLiveRun

LiveInv == /\ TypeInv /\ RecordingInv /\ OneRestart /\ OldLoopsDone
           /\ RecordsAlone /\ LiveRunIsCurrent /\ NoSpuriousAbort

(* createRecorderAndJob when no restart waits yet.                         *)
LEMMA CreateAlone ==
    ASSUME LiveInv, NEW STATE ms, NEW STATE rec, CreateRecorderAndJob(ms, rec),
           ~Waits, main' = "idle"
    PROVE  OneRestart' /\ OldLoopsDone'
<1> USE DEF LiveInv
<1>0. /\ TypeOK /\ \A m \in Mic : restarts[m] = 0
      /\ CancelLoop(recorderJob) \in [Mic -> LoopRecord]
  BY CancelLoopType DEF TypeInv, TypeOK, Waits
<1>1. \A m \in Mic : CancelLoop(recorderJob)[m].pc = loops[m].pc
  BY <1>0, CancelLoopKeeps
<1>2. CASE /\ recorderJob # None /\ loops[recorderJob].pc # "done"
           /\ isRecording' = FALSE /\ recorder' = rec
           /\ loops' = CancelLoop(recorderJob)
           /\ restarts' = [restarts EXCEPT ![recorderJob] = @ + 1]
           /\ UNCHANGED <<recorderJob, buffer>>
  <2>1. recorderJob \in Mic /\ restarts \in [Mic -> Nat]
    BY <1>0, <1>2 DEF TypeOK
  <2>2. OneRestart'
    BY <1>0, <1>2, <2>1 DEF OneRestart
  <2>3. OldLoopsDone'
    BY <1>1, <1>2 DEF OldLoopsDone
  <2> QED BY <2>2, <2>3
<1>3. CASE /\ recorderJob = None \/ loops[recorderJob].pc = "done"
           /\ Task(SetMic(ms, rec, "stopped"), rec, CancelLoop(recorderJob))
           /\ UNCHANGED restarts
  <2>1. OneRestart'
    BY <1>0, <1>3 DEF OneRestart
  <2>2. PICK m \in Mic : TaskRan(m, CancelLoop(recorderJob))
    BY <1>0, <1>3, TaskRecords
  <2>3. OldLoopsDone'
    BY <1>1, <1>3, <2>2, MicNone DEF OldLoopsDone, TaskRan
  <2> QED BY <2>1, <2>3
<1> QED BY <1>2, <1>3, CreateCases

(* CancelRun of the run of the field leaves no run live, when only that    *)
(* one was.                                                                *)
LEMMA CancelLeavesNone ==
    ASSUME LiveInv, runs' = CancelRun(modelJob)
    PROVE  NoLiveRun' /\ NoSpuriousAbort'
<1>1. \A x \in Run : /\ runs'[x].pc = runs[x].pc
                    /\ runs'[x].cancelled = (runs[x].cancelled \/ x = modelJob)
  BY DEF CancelRun, LiveInv, TypeInv, TypeOK, RunRecord
<1>2. NoLiveRun'
  <2> SUFFICES ASSUME NEW x \in Run, Live(x)' PROVE FALSE
    BY DEF NoLiveRun
  <2>1. Live(x) /\ x # modelJob
    BY <1>1 DEF Live
  <2> QED BY <2>1 DEF LiveInv, LiveRunIsCurrent
<1>3. NoSpuriousAbort'
  BY <1>2 DEF NoLiveRun, Live, NoSpuriousAbort
<1> QED BY <1>2, <1>3

LEMMA LiveFinish ==
    ASSUME LiveInv, isRecording, main = "idle",
           NEW STATE ls, OnFinishRecording(ls),
           \A m \in Mic : loops[m].pc \in {"none", "done"} =>
                          ls[m].pc \in {"none", "done"}
    PROVE  OneRestart' /\ OldLoopsDone' /\ RecordsAlone' /\ LiveRunIsCurrent'
           /\ NoSpuriousAbort'
<1> USE DEF LiveInv
<1>1. /\ NoLiveRun /\ ~Waits /\ loops' = ls /\ isRecording' = FALSE
      /\ UNCHANGED <<main, sessionId, recorderJob, restarts, cancelFlag>>
  <2>1. ~Waits
    BY DEF OneRestart, Waits
  <2> QED BY <2>1 DEF OnFinishRecording, RecordsAlone
<1>2. PICK r \in Run : /\ modelJob' = r
                      /\ runs'[r].pc = "dispatched" /\ runs'[r].born = sessionId
                      /\ \A x \in Run : x # r => runs'[x] = runs[x]
  BY DEF OnFinishRecording, TypeInv, TypeOK
<1>3. OneRestart' /\ OldLoopsDone' /\ RecordsAlone'
  BY <1>1 DEF OneRestart, OldLoopsDone, RecordsAlone, Waits
<1>4. LiveRunIsCurrent'
  BY <1>1, <1>2 DEF LiveRunIsCurrent, NoLiveRun, Live
<1>5. NoSpuriousAbort'
  BY <1>1, <1>2 DEF NoSpuriousAbort
<1> QED BY <1>3, <1>4, <1>5

LEMMA LiveStep ==
    ASSUME MaxRestart = 1, LiveInv, [Next]_vars PROVE LiveInv'
<1> USE DEF LiveInv
<1>0. TypeInv' /\ RecordingInv'
  BY TypeStep, RecordingStep
<1> SUFFICES /\ OneRestart' /\ OldLoopsDone' /\ RecordsAlone'
             /\ LiveRunIsCurrent' /\ NoSpuriousAbort'
  BY <1>0
<1>1. CASE StartRecording
  <2>1. ~Waits /\ main' = "idle" /\ runs' = CancelRun(modelJob)
    BY <1>1 DEF StartRecording, OneRestart, Waits
  <2>2. OneRestart' /\ OldLoopsDone'
    BY <1>1, <2>1, CreateAlone DEF StartRecording
  <2>3. NoLiveRun' /\ NoSpuriousAbort'
    BY <2>1, CancelLeavesNone
  <2> QED BY <2>2, <2>3 DEF RecordsAlone, LiveRunIsCurrent, NoLiveRun
<1>2. CASE SetBluetooth
  <2>1. ~Waits
    BY <1>2 DEF SetBluetooth, MayOpen, OneRestart, Waits, None, Mic, TypeInv, TypeOK
  <2>2. OneRestart' /\ OldLoopsDone'
    BY <1>2, <2>1, CreateAlone DEF SetBluetooth
  <2>3. NoLiveRun
    BY <1>2 DEF SetBluetooth, RecordsAlone, Waits
  <2>4. NoLiveRun' /\ NoSpuriousAbort'
    BY <1>2, <2>3 DEF SetBluetooth, NoLiveRun, Live, NoSpuriousAbort
  <2> QED BY <2>2, <2>4 DEF RecordsAlone, LiveRunIsCurrent, NoLiveRun
<1>3. ASSUME NEW m \in Mic, Restart(m)
      PROVE  /\ OneRestart' /\ OldLoopsDone' /\ RecordsAlone'
             /\ LiveRunIsCurrent' /\ NoSpuriousAbort'
  <2>1. /\ m = recorderJob /\ restarts[m] = 1 /\ loops[m].pc = "done"
        /\ restarts' = [restarts EXCEPT ![m] = restarts[m] - 1]
    BY <1>3 DEF Restart, OneRestart
  <2>2. \A x \in Mic : restarts'[x] = 0
    BY <2>1 DEF OneRestart, TypeInv, TypeOK
  <2>3. PICK n \in Mic : TaskRan(n, loops)
    BY <1>3, TaskRecords DEF Restart, TypeInv, TypeOK
  <2>6. OldLoopsDone'
    BY <2>1, <2>3 DEF OldLoopsDone, TaskRan
  <2>4. NoLiveRun
    BY <1>3 DEF Restart, RecordsAlone, Waits
  <2>5. NoLiveRun' /\ NoSpuriousAbort'
    BY <1>3, <2>4 DEF Restart, NoLiveRun, Live, NoSpuriousAbort
  <2> QED BY <2>2, <2>5, <2>6 DEF OneRestart, RecordsAlone, LiveRunIsCurrent, NoLiveRun
<1>4. CASE Finish
  <2>1. \A m \in Mic : CancelLoop(recorderJob)[m].pc = loops[m].pc
    BY CancelLoopKeeps DEF TypeInv
  <2> QED BY <1>4, <2>1, LiveFinish DEF Finish
<1>5. ASSUME NEW m \in Mic, LoopFinish(m)
      PROVE  /\ OneRestart' /\ OldLoopsDone' /\ RecordsAlone'
             /\ LiveRunIsCurrent' /\ NoSpuriousAbort'
  <2>1. CASE isRecording /\ ~loops[m].cancelled
    <3> DEFINE ls == [CancelLoop(recorderJob) EXCEPT ![m].pc = "ended"]
    <3>1. \A x \in Mic : loops[x].pc \in {"none", "done"} => ls[x].pc \in {"none", "done"}
      BY <1>5, CancelLoopType, CancelLoopKeeps DEF LoopFinish, TypeInv, LoopRecord
    <3>2. OnFinishRecording(ls)
      BY <1>5, <2>1 DEF LoopFinish
    <3> HIDE DEF ls
    <3> QED BY <1>5, <2>1, <3>1, <3>2, LiveFinish DEF LoopFinish
  <2>2. CASE ~(isRecording /\ ~loops[m].cancelled)
    <3>1. LoopOnly /\ \A x \in Mic : LoopKept(x)
      BY <1>5, <2>2 DEF LoopFinish, LoopKept, TypeInv, TypeOK, LoopRecord
    <3> QED
      BY <3>1
         DEF LoopOnly, LoopKept, OneRestart, OldLoopsDone, RecordsAlone, Waits,
             NoLiveRun, Live, LiveRunIsCurrent, NoSpuriousAbort
  <2> QED BY <2>1, <2>2
<1>6. ASSUME NEW m \in Mic, LoopNext(m) \/ LoopCompletes(m)
      PROVE  /\ OneRestart' /\ OldLoopsDone' /\ RecordsAlone'
             /\ LiveRunIsCurrent' /\ NoSpuriousAbort'
  <2>1. LoopOnly /\ OneRestart' /\ RecordsAlone' /\ LiveRunIsCurrent' /\ NoSpuriousAbort'
    BY <1>6, LoopFrame
       DEF LoopOnly, OneRestart, RecordsAlone, Waits, NoLiveRun, Live,
           LiveRunIsCurrent, NoSpuriousAbort, TypeInv
  <2>2. ASSUME NEW x \in Mic, x # recorderJob PROVE loops'[x].pc \in {"none", "done"}
    BY <1>6, <2>2, LoopFrame DEF LoopKept, OldLoopsDone, TypeInv
  <2> QED BY <2>1, <2>2 DEF LoopOnly, OldLoopsDone
<1>7. CASE ResetRest
  <2>1. NoLiveRun' /\ NoSpuriousAbort'
    BY <1>7, CancelLeavesNone DEF ResetRest
  <2>2. OneRestart'
    BY <1>7 DEF ResetRest, OneRestart
  <2>3. OldLoopsDone'
    BY <1>7, CancelLoopKeeps DEF ResetRest, OldLoopsDone, TypeInv
  <2> QED BY <2>1, <2>2, <2>3 DEF RecordsAlone, LiveRunIsCurrent, NoLiveRun
<1>8. CASE Start \/ Reset \/ LoadFailed
  <2>1. /\ UNCHANGED <<fields, audio, runs, modelJob, cancelFlag>>
        /\ main = "idle" /\ main' # "idle"
        /\ main' = "starting" => ~Waits
    BY <1>8
       DEF Start, Reset, LoadFailed, MayOpen, OneRestart, Waits, None, Mic,
           TypeInv, TypeOK
  <2> QED
    BY <2>1
       DEF OneRestart, OldLoopsDone, RecordsAlone, Waits, NoLiveRun, Live,
           LiveRunIsCurrent, NoSpuriousAbort
<1>9. ASSUME UNCHANGED <<main, sessionId, isRecording, recorderJob, loops, restarts,
                         runs, modelJob, cancelFlag>>
      PROVE  /\ OneRestart' /\ OldLoopsDone' /\ RecordsAlone'
             /\ LiveRunIsCurrent' /\ NoSpuriousAbort'
  BY <1>9
     DEF OneRestart, OldLoopsDone, RecordsAlone, Waits, NoLiveRun, Live,
         LiveRunIsCurrent, NoSpuriousAbort
<1>10. CASE StartPrebuffering \/ LoadModel \/ UNCHANGED vars
            \/ \E b \in posted : CheckFinished(b) \/ DeliverFinished(b)
  BY <1>9, <1>10
     DEF StartPrebuffering, LoadModel, LoadOnly, CheckFinished, DeliverFinished, vars
<1>11. ASSUME NEW r \in Run, RunNext(r)
       PROVE  /\ OneRestart' /\ OldLoopsDone' /\ RecordsAlone'
              /\ LiveRunIsCurrent' /\ NoSpuriousAbort'
  <2>1. /\ UNCHANGED <<main, sessionId, fields, audio, modelJob, loadModelJob>>
        /\ \A x \in Run : /\ runs'[x].born = runs[x].born
                          /\ runs'[x].cancelled = runs[x].cancelled
                          /\ Live(x)' => Live(x)
                          /\ Infers(x)' /\ cancelFlag' => Infers(x) /\ cancelFlag
    BY <1>11, RunFrame DEF TypeInv
  <2>2. OneRestart' /\ OldLoopsDone'
    BY <2>1 DEF OneRestart, OldLoopsDone
  <2>3. RecordsAlone' /\ LiveRunIsCurrent'
    BY <2>1 DEF RecordsAlone, Waits, NoLiveRun, LiveRunIsCurrent
  <2>4. NoSpuriousAbort'
    BY <2>1 DEF NoSpuriousAbort, Infers
  <2> QED BY <2>2, <2>3, <2>4
<1> QED
  BY <1>1, <1>2, <1>3, <1>4, <1>5, <1>6, <1>7, <1>8, <1>10, <1>11
     DEF Next, UserNext, MainNext

LEMMA LiveInit == Init => LiveInv
BY TypeInit
   DEF Init, LiveInv, RecordingInv, OneRestart, OldLoopsDone, RecordsAlone, Waits,
       NoLiveRun, Live, LiveRunIsCurrent, NoSpuriousAbort, NoLoop, NoRun

(* A run that nobody cancelled is the run of modelJob and of the current   *)
(* session, so that the next reset() or start() stops it, as long as no    *)
(* two restarts wait for the same loop.                                    *)
THEOREM LiveRunsAreCurrent == MaxRestart = 1 => (Spec => []LiveRunIsCurrent)
<1> SUFFICES ASSUME MaxRestart = 1 PROVE Spec => []LiveRunIsCurrent
  OBVIOUS
<1>1. LiveInv /\ [Next]_vars => LiveInv'
  BY LiveStep
<1>2. LiveInv => LiveRunIsCurrent
  BY DEF LiveInv
<1> QED BY <1>1, <1>2, LiveInit, PTL DEF Spec

(* Under the same hypothesis no inference of a live run is aborted by the  *)
(* flag of an earlier cancelAll.                                           *)
THEOREM NoRunAbortedByMistake == MaxRestart = 1 => (Spec => []NoSpuriousAbort)
<1> SUFFICES ASSUME MaxRestart = 1 PROVE Spec => []NoSpuriousAbort
  OBVIOUS
<1>1. LiveInv /\ [Next]_vars => LiveInv'
  BY LiveStep
<1>2. LiveInv => NoSpuriousAbort
  BY DEF LiveInv
<1> QED BY <1>1, <1>2, LiveInit, PTL DEF Spec

-----------------------------------------------------------------------------
(* Audio.  The sample buffer belongs to the loop of recorderJob, and a     *)
(* live run to the recording of that loop until it has taken its samples.  *)

Unsliced == {"none", "dispatched", "started", "loading", "checked"}
SidIsCurrent ==
    isRecording /\ main = "idle" => loops[recorderJob].sid = sessionId
BufferOfLoop ==
    \A s \in buffer : recorderJob \in Mic /\ s = loops[recorderJob].sid
TakesFrom(r) == recorderJob \in Mic /\ loops[recorderJob].sid = runs[r].born
OwnAudio(r) == runs[r].audio \subseteq {runs[r].born}
LiveAudio ==
    \A r \in Run : Live(r) => IF runs[r].pc \in Unsliced
                              THEN TakesFrom(r) ELSE OwnAudio(r)
Sliced(r) == runs[r].pc \notin Unsliced /\ OwnAudio(r)
AnsweredAudio ==
    /\ \A b \in posted : Sliced(b.run)
    /\ \A r \in Run : answers[r] > 0 => Sliced(r)

AudioFacts == SidIsCurrent /\ BufferOfLoop /\ LiveAudio /\ AnsweredAudio

(* What a step of a run does to its samples, and whose block it posts.     *)
RunKept(x) == runs'[x].born = runs[x].born /\ runs'[x].audio = runs[x].audio
RunTook(x) == /\ runs'[x].born = runs[x].born /\ runs'[x].audio = buffer
              /\ runs[x].pc = "checked" /\ runs'[x].pc \notin Unsliced

LEMMA RunAudio ==
    ASSUME TypeOK, NEW r \in Run, RunNext(r)
    PROVE  /\ UNCHANGED answers
           /\ \A x \in Run :
                 \/ RunTook(x)
                 \/ /\ RunKept(x)
                    /\ runs'[x].pc \in Unsliced => runs[x].pc \in Unsliced
                    /\ Live(x)' /\ runs[x].pc \in Unsliced => runs'[x].pc \in Unsliced
           /\ \A b \in posted' \ posted :
                 b.run \in Run /\ Live(b.run) /\ runs[b.run].pc \notin Unsliced
<1> DEFINE Goal == \A x \in Run :
                 \/ RunTook(x)
                 \/ /\ RunKept(x)
                    /\ runs'[x].pc \in Unsliced => runs[x].pc \in Unsliced
                    /\ Live(x)' /\ runs[x].pc \in Unsliced => runs'[x].pc \in Unsliced
<1>1. ASSUME NEW from, NEW STATE to, RunStep(r, from, to),
             (from \in Unsliced) = (to \in Unsliced) \/ to = "done"
      PROVE  Goal
  <2>1. ASSUME NEW x \in Run, x # r PROVE runs'[x] = runs[x]
    BY <1>1, <2>1 DEF RunStep, TypeOK
  <2>2. /\ runs[r].pc = from /\ runs'[r].pc = to
        /\ runs'[r].born = runs[r].born /\ runs'[r].audio = runs[r].audio
    BY <1>1 DEF RunStep, TypeOK, RunRecord
  <2> QED BY <1>1, <2>1, <2>2 DEF Live, RunKept, Unsliced
<1> USE DEF Unsliced
<1>2. CASE RunStarts(r) \/ RunLoaded(r) \/ RunRemote(r) \/ RunEnters(r)
           \/ InferStart(r) \/ InferPartial(r) \/ DeliverPartial(r)
           \/ RunTranscribed(r)
  <2>1. UNCHANGED <<posted, answers>>
    BY <1>2 DEF RunStarts, RunLoaded, RunRemote, RunEnters, InferStart,
                InferPartial, DeliverPartial, RunTranscribed, RunOnly
  <2>2. Goal
    <3> HIDE DEF Goal
    <3> QED
      BY <1>1, <1>2
         DEF RunStarts, RunLoaded, RunRemote, RunEnters, InferStart,
             InferPartial, DeliverPartial, RunTranscribed
  <2> QED BY <2>1, <2>2
<1>3. CASE RunCapture(r)
  BY <1>3 DEF RunCapture, RunOnly, TypeOK, RunRecord, RunKept, Live
<1>4. CASE RunSlice(r)
  <2>1. \A x \in Run : x # r => runs'[x] = runs[x]
    BY <1>4 DEF RunSlice, TypeOK
  <2>2. RunTook(r)
    BY <1>4 DEF RunSlice, TypeOK, RunRecord, RunTook
  <2> QED BY <1>4, <2>1, <2>2 DEF RunSlice, RunOnly, RunKept, Live
<1>5. CASE InferEnd(r)
  <2>1. PICK next \in {"done", "queued", "transcribed"} :
          runs' = [runs EXCEPT ![r].pc = next, ![r].left = @ - 1]
    BY <1>5 DEF InferEnd
  <2> QED BY <1>5, <2>1 DEF InferEnd, RunOnly, TypeOK, RunRecord, RunKept, Live
<1>6. CASE RunAnswered(r) \/ RunPosts(r)
  <2>1. Goal /\ runs[r].pc \in {"answered", "posting"}
    <3> HIDE DEF Goal
    <3> QED BY <1>1, <1>6 DEF RunAnswered, RunPosts, RunStep
  <2>2. /\ UNCHANGED answers
        /\ runs[r].cancelled => UNCHANGED posted
        /\ \A b \in posted' \ posted : b.run = r
    BY <1>6 DEF RunAnswered, RunPosts
  <2> QED BY <2>1, <2>2 DEF Live
<1> QED BY <1>2, <1>3, <1>4, <1>5, <1>6 DEF RunNext

AudioInv == LiveInv /\ AudioFacts

(* A new recording leaves no run live and has empty buffers; a deferred    *)
(* one keeps the buffers of the loop it waits for.                         *)
LEMMA CreateAudio ==
    ASSUME AudioInv, LiveInv', NEW STATE ms, NEW STATE rec,
           CreateRecorderAndJob(ms, rec), UNCHANGED sessionId
    PROVE  SidIsCurrent' /\ BufferOfLoop' /\ LiveAudio'
<1> USE DEF AudioInv, LiveInv
<1>1. CASE /\ recorderJob # None /\ loops[recorderJob].pc # "done"
           /\ isRecording' = FALSE /\ recorder' = rec
           /\ loops' = CancelLoop(recorderJob)
           /\ restarts' = [restarts EXCEPT ![recorderJob] = @ + 1]
           /\ UNCHANGED <<recorderJob, buffer>>
  <2>1. recorderJob \in Mic /\ restarts[recorderJob] \in Nat
    BY <1>1 DEF TypeInv, TypeOK
  <2>2. loops'[recorderJob].sid = loops[recorderJob].sid
    BY <1>1, <2>1, CancelLoopKeeps DEF TypeInv
  <2>3. Waits'
    BY <1>1, <2>1 DEF Waits, TypeInv, TypeOK
  <2>4. NoLiveRun'
    BY <2>3 DEF RecordsAlone
  <2>5. BufferOfLoop'
    BY <1>1, <2>1, <2>2 DEF BufferOfLoop, AudioFacts
  <2> QED BY <1>1, <2>4, <2>5 DEF SidIsCurrent, LiveAudio, NoLiveRun
<1>2. ASSUME NEW m \in Mic, TaskRan(m, CancelLoop(recorderJob))
      PROVE  SidIsCurrent' /\ BufferOfLoop' /\ LiveAudio'
  <2>1. NoLiveRun'
    BY <1>2 DEF TaskRan, RecordsAlone
  <2> QED
    BY <1>2, <2>1 DEF TaskRan, SidIsCurrent, BufferOfLoop, LiveAudio, NoLiveRun
<1> QED BY <1>1, <1>2, CreateCases, TaskRecords, CancelLoopType DEF TypeInv

LEMMA FinishAudio ==
    ASSUME AudioInv, isRecording, main = "idle",
           NEW STATE ls, OnFinishRecording(ls),
           \A m \in Mic : ls[m].sid = loops[m].sid
    PROVE  AudioFacts'
<1> USE DEF AudioInv, LiveInv, AudioFacts
<1>1. PICK r \in Run : /\ runs[r].pc = "none"
                      /\ runs'[r].pc = "dispatched" /\ runs'[r].born = sessionId
                      /\ \A x \in Run : x # r => runs'[x] = runs[x]
  BY DEF OnFinishRecording, FreshRun, TypeInv, TypeOK
<1>2. /\ NoLiveRun /\ recorderJob \in Mic /\ loops[recorderJob].sid = sessionId
      /\ UNCHANGED <<recorderJob, buffer, posted, answers>>
      /\ loops' = ls /\ isRecording' = FALSE
  BY DEF RecordsAlone, RecordingInv, SidIsCurrent, OnFinishRecording
<1>3. LiveAudio'
  BY <1>1, <1>2 DEF LiveAudio, NoLiveRun, Live, TakesFrom, Unsliced
<1>4. AnsweredAudio'
  <2>1. \A b \in posted : b.run \in Run
    BY DEF TypeInv, TypeOK, Block
  <2> QED BY <1>1, <1>2, <2>1 DEF AnsweredAudio, Sliced, OwnAudio, Unsliced
<1>5. SidIsCurrent' /\ BufferOfLoop'
  BY <1>2 DEF SidIsCurrent, BufferOfLoop
<1> QED BY <1>3, <1>4, <1>5

(* Blocks and answers of runs that keep their samples.                     *)
LEMMA AnsweredKept ==
    ASSUME AnsweredAudio, TypeOK, TypeOK', UNCHANGED <<posted, answers>>,
           \A r \in Run : Sliced(r) => Sliced(r)'
    PROVE  AnsweredAudio'
<1>1. \A b \in posted : b.run \in Run
  BY DEF TypeOK, Block
<1> QED BY <1>1 DEF AnsweredAudio

LEMMA AudioStep ==
    ASSUME MaxRestart = 1, AudioInv, [Next]_vars PROVE AudioInv'
<1> USE DEF AudioInv
<1>0. LiveInv' /\ TypeOK /\ TypeOK'
  BY LiveStep DEF LiveInv, TypeInv
<1> SUFFICES AudioFacts'
  BY <1>0
<1>1. ASSUME UNCHANGED <<posted, answers, runs>> PROVE AnsweredAudio'
  BY <1>0, <1>1, AnsweredKept DEF Sliced, OwnAudio, AudioFacts
<1>2. ASSUME NEW STATE r, runs' = CancelRun(r)
      PROVE  /\ \A x \in Run : /\ RunKept(x) /\ runs'[x].pc = runs[x].pc
                               /\ Live(x)' => Live(x)
             /\ UNCHANGED <<posted, answers>> => AnsweredAudio'
  <2>1. \A x \in Run : RunKept(x) /\ runs'[x].pc = runs[x].pc
    BY <1>0, <1>2 DEF CancelRun, TypeOK, RunRecord, RunKept
  <2>2. \A x \in Run : Live(x)' => Live(x)
    BY <1>0, <1>2 DEF CancelRun, TypeOK, RunRecord, Live
  <2>3. \A x \in Run : Sliced(x) => Sliced(x)'
    BY <2>1 DEF Sliced, OwnAudio, RunKept
  <2> QED BY <1>0, <2>1, <2>2, <2>3, AnsweredKept DEF AudioFacts
<1>3. CASE StartRecording
  <2>1. SidIsCurrent' /\ BufferOfLoop' /\ LiveAudio'
    BY <1>0, <1>3, CreateAudio DEF StartRecording
  <2> QED BY <1>2, <1>3, <2>1 DEF StartRecording, AudioFacts
<1>4. CASE SetBluetooth
  <2>1. SidIsCurrent' /\ BufferOfLoop' /\ LiveAudio'
    BY <1>0, <1>4, CreateAudio DEF SetBluetooth
  <2> QED BY <1>1, <1>4, <2>1 DEF SetBluetooth, AudioFacts
<1>5. ASSUME NEW m \in Mic, Restart(m) PROVE AudioFacts'
  <2>1. PICK n \in Mic : TaskRan(n, loops)
    BY <1>0, <1>5, TaskRecords DEF Restart, TypeOK
  <2>2. NoLiveRun'
    BY <1>0, <2>1 DEF TaskRan, LiveInv, RecordsAlone
  <2>3. SidIsCurrent' /\ BufferOfLoop' /\ LiveAudio'
    BY <1>5, <2>1, <2>2
       DEF Restart, TaskRan, SidIsCurrent, BufferOfLoop, LiveAudio, NoLiveRun
  <2> QED BY <1>1, <1>5, <2>3 DEF Restart, AudioFacts
<1>6. CASE Finish
  BY <1>0, <1>6, FinishAudio, CancelLoopKeeps DEF Finish
<1>7. ASSUME UNCHANGED <<isRecording, recorderJob, runs, posted, answers, buffer>>,
             \A x \in Mic : loops'[x].sid = loops[x].sid,
             UNCHANGED <<main, sessionId>> \/ main' # "idle"
      PROVE  AudioFacts'
  <2>1. SidIsCurrent' /\ BufferOfLoop'
    BY <1>0, <1>7 DEF SidIsCurrent, BufferOfLoop, AudioFacts, LiveInv, RecordingInv
  <2>2. LiveAudio'
    BY <1>7 DEF LiveAudio, Live, TakesFrom, OwnAudio, AudioFacts
  <2> QED BY <1>1, <1>7, <2>1, <2>2 DEF AudioFacts
<1>8. ASSUME NEW m \in Mic, LoopFinish(m) PROVE AudioFacts'
  <2>1. CASE isRecording /\ ~loops[m].cancelled
    <3> DEFINE ls == [CancelLoop(recorderJob) EXCEPT ![m].pc = "ended"]
    <3>1. \A x \in Mic : ls[x].sid = loops[x].sid
      BY <1>0, CancelLoopType, CancelLoopKeeps DEF LoopRecord
    <3>2. OnFinishRecording(ls) /\ main = "idle"
      BY <1>8, <2>1 DEF LoopFinish
    <3> HIDE DEF ls
    <3> QED BY <2>1, <3>1, <3>2, FinishAudio
  <2>2. CASE ~(isRecording /\ ~loops[m].cancelled)
    <3>1. LoopOnly /\ UNCHANGED buffer /\ \A x \in Mic : loops'[x].sid = loops[x].sid
      BY <1>0, <1>8, <2>2 DEF LoopFinish, TypeOK, LoopRecord
    <3> QED BY <1>7, <3>1 DEF LoopOnly
  <2> QED BY <2>1, <2>2
<1>9. ASSUME NEW m \in Mic, LoopNext(m) \/ LoopCompletes(m) PROVE AudioFacts'
  <2>1. LoopOnly /\ \A x \in Mic : loops'[x].sid = loops[x].sid
    BY <1>0, <1>9, LoopFrame DEF LoopKept
  <2>2. CASE UNCHANGED buffer
    BY <1>7, <2>1, <2>2 DEF LoopOnly
  <2>3. CASE LoopAppend(m)
    <3>1. m = recorderJob /\ buffer' = buffer \cup {loops[m].sid}
      BY <2>3 DEF LoopAppend, LoopStep, LiveInv, OldLoopsDone
    <3>2. SidIsCurrent' /\ BufferOfLoop'
      BY <1>0, <2>1, <3>1
         DEF LoopOnly, SidIsCurrent, BufferOfLoop, AudioFacts, LiveInv, RecordingInv
    <3>3. LiveAudio'
      BY <2>1 DEF LoopOnly, LiveAudio, Live, TakesFrom, OwnAudio, AudioFacts
    <3> QED BY <1>1, <2>1, <3>2, <3>3 DEF LoopOnly, AudioFacts
  <2> QED BY <1>0, <1>9, <2>2, <2>3, LoopFrame
<1>10. CASE ResetRest
  <2>1. \A x \in Mic : loops'[x].sid = loops[x].sid
    BY <1>0, <1>10, CancelLoopKeeps DEF ResetRest
  <2>2. SidIsCurrent' /\ BufferOfLoop'
    BY <1>10 DEF ResetRest, SidIsCurrent, BufferOfLoop
  <2>3. /\ UNCHANGED recorderJob
        /\ \A x \in Run : /\ RunKept(x) /\ runs'[x].pc = runs[x].pc
                          /\ Live(x)' => Live(x)
    BY <1>2, <1>10 DEF ResetRest
  <2>4. LiveAudio'
    BY <2>1, <2>3 DEF LiveAudio, RunKept, TakesFrom, OwnAudio, AudioFacts
  <2> QED BY <1>2, <1>10, <2>2, <2>4 DEF ResetRest, AudioFacts
<1>11. CASE StartPrebuffering
  <2>1. SidIsCurrent' /\ BufferOfLoop'
    BY <1>11 DEF StartPrebuffering, SidIsCurrent, BufferOfLoop, AudioFacts
  <2>2. LiveAudio'
    BY <1>11 DEF StartPrebuffering, LiveAudio, Live, TakesFrom, OwnAudio, AudioFacts
  <2> QED BY <1>1, <1>11, <2>1, <2>2 DEF StartPrebuffering, AudioFacts
<1>12. CASE Start \/ Reset \/ LoadFailed \/ LoadModel \/ UNCHANGED vars
  BY <1>7, <1>12 DEF Start, Reset, LoadFailed, LoadModel, LoadOnly, vars
<1>13. ASSUME NEW b \in posted, CheckFinished(b) \/ DeliverFinished(b)
       PROVE  AudioFacts'
  <2>1. b \in Block
    BY <1>0 DEF TypeOK
  <2>2. /\ \A c \in posted' : c \in posted \/ c.run = b.run
        /\ \A r \in Run : answers'[r] = answers[r] \/ r = b.run
        /\ UNCHANGED <<main, sessionId, fields, audio, model>>
    BY <1>0, <1>13, <2>1 DEF CheckFinished, DeliverFinished, Block, TypeOK
  <2>3. AnsweredAudio'
    BY <2>2 DEF AnsweredAudio, Sliced, OwnAudio, AudioFacts
  <2>4. SidIsCurrent' /\ BufferOfLoop' /\ LiveAudio'
    BY <2>2 DEF SidIsCurrent, BufferOfLoop, LiveAudio, Live, TakesFrom, OwnAudio, AudioFacts
  <2> QED BY <2>3, <2>4 DEF AudioFacts
<1>14. ASSUME NEW r \in Run, RunNext(r) PROVE AudioFacts'
  <2>1. UNCHANGED <<main, sessionId, fields, audio, answers>>
    BY <1>0, <1>14, RunFrame, RunAudio
  <2>2. \A x \in Run :
          /\ Live(x)' => Live(x)
          /\ \/ RunTook(x)
             \/ /\ RunKept(x)
                /\ runs'[x].pc \in Unsliced => runs[x].pc \in Unsliced
                /\ Live(x)' /\ runs[x].pc \in Unsliced => runs'[x].pc \in Unsliced
    BY <1>0, <1>14, RunFrame, RunAudio
  <2>3. SidIsCurrent' /\ BufferOfLoop'
    BY <2>1 DEF SidIsCurrent, BufferOfLoop, AudioFacts
  <2>4. LiveAudio'
    <3> SUFFICES ASSUME NEW x \in Run, Live(x)'
                 PROVE  IF runs'[x].pc \in Unsliced THEN TakesFrom(x)' ELSE OwnAudio(x)'
      BY DEF LiveAudio
    <3>1. CASE RunTook(x)
      <4>1. TakesFrom(x)
        BY <2>2, <3>1 DEF RunTook, Unsliced, LiveAudio, AudioFacts
      <4> QED BY <3>1, <4>1 DEF RunTook, TakesFrom, OwnAudio, BufferOfLoop, AudioFacts
    <3>2. CASE ~RunTook(x)
      BY <2>1, <2>2, <3>2 DEF RunKept, TakesFrom, OwnAudio, LiveAudio, AudioFacts
    <3> QED BY <3>1, <3>2
  <2>5. \A x \in Run : Sliced(x) => Sliced(x)'
    BY <2>2 DEF RunTook, RunKept, Sliced, OwnAudio, Unsliced
  <2>6. AnsweredAudio'
    <3>1. \A b \in posted : b.run \in Run
      BY <1>0 DEF TypeOK, Block
    <3>2. ASSUME NEW b \in posted' PROVE Sliced(b.run)'
      <4>1. CASE b \in posted
        BY <2>5, <3>1, <4>1 DEF AnsweredAudio, AudioFacts
      <4>2. CASE b \notin posted
        <5>1. b.run \in Run /\ Live(b.run) /\ runs[b.run].pc \notin Unsliced
          BY <1>0, <1>14, <4>2, RunAudio
        <5> QED BY <2>5, <5>1 DEF LiveAudio, Sliced, AudioFacts
      <4> QED BY <4>1, <4>2
    <3> QED BY <2>1, <2>5, <3>2 DEF AnsweredAudio, AudioFacts
  <2> QED BY <2>3, <2>4, <2>6 DEF AudioFacts
<1> QED
  BY <1>3, <1>4, <1>5, <1>6, <1>8, <1>9, <1>10, <1>11, <1>12, <1>13, <1>14
     DEF Next, UserNext, MainNext

(* An answer transcribes the audio of its own session only, as long as no  *)
(* two restarts wait for the same loop.                                    *)
THEOREM AnswersTranscribeOwnAudio ==
    MaxRestart = 1 => (Spec => []AnswersOwnAudio)
<1> SUFFICES ASSUME MaxRestart = 1 PROVE Spec => []AnswersOwnAudio
  OBVIOUS
<1>1. Init => AudioInv
  BY LiveInit
     DEF Init, AudioInv, AudioFacts, SidIsCurrent, BufferOfLoop, LiveAudio, Live,
         NoRun, AnsweredAudio
<1>2. AudioInv /\ [Next]_vars => AudioInv'
  BY AudioStep
<1>3. AudioInv => AnswersOwnAudio
  BY DEF AudioInv, AudioFacts, AnsweredAudio, Sliced, OwnAudio, AnswersOwnAudio
<1> QED BY <1>1, <1>2, <1>3, PTL DEF Spec
-----------------------------------------------------------------------------
(***************************************************************************)
(* AudioRecognizer implements RecognizerService, step by step, for every   *)
(* number of sessions, AudioRecords, runs and passes, unless Groq answers  *)
(* in a single pass and as long as at most one restart waits for a loop.   *)
(* The invariant adds to those above whose session a run belongs to and    *)
(* under which id it posts its answer.                                     *)
(***************************************************************************)

\* A run that no start() or reset() has cancelled, whether it answers or not.
Uncancelled(r) == runs[r].pc # "none" /\ ~runs[r].cancelled
NoneUncancelled == \A r \in Run : ~Uncancelled(r)

SessionEnds == main # "idle" => sessionId > 0

\* It is the run of modelJob and of the session, which counts as the old one
\* until its handler is through; none is left while a recording is made.
RunOfSession ==
    \A r \in Run : Uncancelled(r) => r = modelJob /\ runs[r].born = AbstractSession
RecordsFirst == isRecording \/ Waits => NoneUncancelled

\* The id a run has read is that of its own session, or the new one that the
\* handler has taken which is about to cancel the run.
Uncaptured == {"none", "dispatched", "started"}
CapturesSession ==
    \A r \in Run : /\ runs[r].sid <= sessionId
                   /\ Uncancelled(r) /\ runs[r].pc \notin Uncaptured
                         => runs[r].sid \in {AbstractSession, sessionId}

\* A block under the new id was posted after the handler began.
HiddenBlocks ==
    main # "idle" => \A b \in posted : runs[b.run].sid = sessionId
                                       => ~runs[b.run].cancelled /\ ~b.checked

LoopReads ==
    isRecording => loops[recorderJob].pc \in {"head", "read", "data", "append", "toMain"}

SessionFacts ==
    /\ SessionEnds /\ RunOfSession /\ RecordsFirst /\ CapturesSession
    /\ HiddenBlocks /\ LoopReads
RefInv == LiveInv /\ AnswerInv /\ SessionFacts

-----------------------------------------------------------------------------
(* The invariant.                                                          *)

\* What a step of a run does to its session id.
SidKept(x) ==
    /\ runs'[x].sid = runs[x].sid
    /\ Uncancelled(x) /\ runs[x].pc \in Uncaptured => runs'[x].pc \in Uncaptured
RunKeepsSession ==
    \A x \in Run :
        /\ (runs'[x].pc = "none") = (runs[x].pc = "none")
        /\ \/ SidKept(x)
           \/ runs[x].pc = "started" /\ runs'[x].sid = sessionId

LEMMA RunSession ==
    ASSUME TypeOK, NEW r \in Run, RunNext(r) PROVE RunKeepsSession
<1>1. ASSUME NEW from, NEW STATE to, RunStep(r, from, to), from # "none", to # "none",
             from \in Uncaptured /\ ~runs[r].cancelled => to \in Uncaptured
      PROVE  RunKeepsSession
  <2>1. ASSUME NEW x \in Run, x # r PROVE runs'[x] = runs[x]
    BY <1>1, <2>1 DEF RunStep, TypeOK
  <2>2. /\ runs[r].pc = from /\ runs'[r].pc = to
        /\ runs'[r].sid = runs[r].sid
    BY <1>1 DEF RunStep, TypeOK, RunRecord
  <2> QED BY <1>1, <2>1, <2>2 DEF RunKeepsSession, SidKept, Uncancelled
<1>2. CASE RunStarts(r)
  BY <1>1, <1>2 DEF RunStarts, Uncaptured
<1>3. CASE RunCapture(r)
  BY <1>3 DEF RunCapture, TypeOK, RunRecord, RunKeepsSession, SidKept
<1>4. CASE RunLoaded(r) \/ RunRemote(r) \/ RunAnswered(r) \/ RunEnters(r)
           \/ InferStart(r) \/ InferPartial(r) \/ DeliverPartial(r)
           \/ RunTranscribed(r) \/ RunPosts(r)
  BY <1>1, <1>4 DEF RunLoaded, RunRemote, RunAnswered, RunEnters, InferStart,
         InferPartial, DeliverPartial, RunTranscribed, RunPosts, Uncaptured
<1>5. CASE RunSlice(r)
  BY <1>5 DEF RunSlice, TypeOK, RunRecord, RunKeepsSession, SidKept, Uncaptured
<1>6. CASE InferEnd(r)
  <2>1. PICK next \in {"done", "queued", "transcribed"} :
          runs' = [runs EXCEPT ![r].pc = next, ![r].left = @ - 1]
    BY <1>6 DEF InferEnd
  <2> QED BY <1>6, <2>1
     DEF InferEnd, TypeOK, RunRecord, RunKeepsSession, SidKept, Uncaptured
<1> QED BY <1>2, <1>3, <1>4, <1>5, <1>6 DEF RunNext

\* Without the single-pass shortcut a run posts only as its last step.
LEMMA RunBlocks ==
    ASSUME AnswerInv, NEW r \in Run, RunNext(r)
    PROVE  \/ UNCHANGED posted
           \/ /\ RunPosts(r) /\ ~runs[r].cancelled
              /\ posted' = posted \cup {[run |-> r, early |-> FALSE, checked |-> FALSE]}
<1>1. runs[r].pc # "answered"
  BY DEF AnswerInv, AnswersAreLast
<1>2. ~RunAnswered(r)
  BY <1>1 DEF RunAnswered, RunStep
<1>3. CASE RunPosts(r)
  BY <1>3 DEF RunPosts
<1> QED BY <1>2, <1>3
  DEF RunNext, RunStarts, RunCapture, RunLoaded, RunSlice, RunRemote, RunEnters,
      InferStart, InferPartial, DeliverPartial, InferEnd, RunTranscribed, RunOnly, results

\* createRecorderAndJob and its task leave a loop that records, or no recording.
LEMMA TaskReads ==
    ASSUME NEW STATE ms, NEW STATE rec, NEW STATE ls, ls \in [Mic -> LoopRecord],
           Task(ms, rec, ls)
    PROVE  LoopReads'
BY TaskRecords DEF TaskRan, LoopReads

LEMMA CreateReads ==
    ASSUME TypeOK, NEW STATE ms, NEW STATE rec, CreateRecorderAndJob(ms, rec)
    PROVE  LoopReads'
<1>1. CancelLoop(recorderJob) \in [Mic -> LoopRecord]
  BY CancelLoopType
<1> QED BY <1>1, CreateCases, TaskReads DEF LoopReads

\* The handlers that cancel the run of the field leave none uncancelled.
LEMMA CancelEndsRuns ==
    ASSUME RefInv, runs' = CancelRun(modelJob)
    PROVE  /\ NoneUncancelled'
           /\ \A x \in Run : /\ runs'[x].pc = runs[x].pc /\ runs'[x].sid = runs[x].sid
                             /\ runs'[x].born = runs[x].born
                             /\ runs'[x].cancelled = (runs[x].cancelled \/ x = modelJob)
<1>1. \A x \in Run : /\ runs'[x].pc = runs[x].pc /\ runs'[x].sid = runs[x].sid
                     /\ runs'[x].born = runs[x].born
                     /\ runs'[x].cancelled = (runs[x].cancelled \/ x = modelJob)
  BY DEF CancelRun, RefInv, LiveInv, TypeInv, TypeOK, RunRecord
<1> QED BY <1>1 DEF RefInv, SessionFacts, RunOfSession, Uncancelled, NoneUncancelled

\* A handler between its first line and its rest, over no run uncancelled.
LEMMA HandlerEnds ==
    ASSUME RefInv, main' = "idle", UNCHANGED sessionId, runs' = CancelRun(modelJob),
           LoopReads'
    PROVE  SessionFacts'
BY CancelEndsRuns
   DEF RefInv, SessionFacts, SessionEnds, RunOfSession, RecordsFirst, CapturesSession,
       HiddenBlocks, Uncancelled, NoneUncancelled

\* A recording that begins while no run is left.
LEMMA RecordsAgain ==
    ASSUME RefInv, isRecording \/ Waits, main = "idle",
           UNCHANGED <<main, sessionId, runs, posted>>, LoopReads'
    PROVE  SessionFacts'
BY DEF RefInv, SessionFacts, SessionEnds, RunOfSession, RecordsFirst, CapturesSession,
       HiddenBlocks, Uncancelled, NoneUncancelled

\* A step that leaves the runs, the session and the recording.
LEMMA SessionKept ==
    ASSUME RefInv, UNCHANGED <<main, sessionId, isRecording, recorderJob, restarts,
                               runs, modelJob, posted>>, LoopReads'
    PROVE  SessionFacts'
BY DEF RefInv, SessionFacts, SessionEnds, RunOfSession, RecordsFirst, CapturesSession,
       HiddenBlocks, Uncancelled, NoneUncancelled, AbstractSession, Waits

LEMMA FinishSession ==
    ASSUME RefInv, isRecording, main = "idle", NEW STATE ls, OnFinishRecording(ls)
    PROVE  SessionFacts'
<1> USE DEF RefInv, SessionFacts
<1>1. /\ NoneUncancelled /\ ~Waits /\ isRecording' = FALSE
      /\ UNCHANGED <<main, sessionId, restarts, posted>>
  BY DEF RecordsFirst, OnFinishRecording, LiveInv, OneRestart, Waits, results
<1>2. PICK r \in Run : /\ modelJob' = r /\ runs'[r].pc = "dispatched"
                       /\ runs'[r].born = sessionId /\ runs'[r].sid = 0
                       /\ \A x \in Run : x # r => runs'[x] = runs[x]
  BY DEF OnFinishRecording, LiveInv, TypeInv, TypeOK
<1>3. SessionEnds' /\ RecordsFirst' /\ HiddenBlocks' /\ LoopReads'
  BY <1>1 DEF SessionEnds, RecordsFirst, HiddenBlocks, LoopReads, Waits
<1>4. RunOfSession'
  BY <1>1, <1>2 DEF NoneUncancelled, Uncancelled, RunOfSession, AbstractSession
<1>5. CapturesSession'
  <2>1. sessionId \in Nat
    BY SessionNat DEF LiveInv, TypeInv, TypeOK
  <2> QED BY <1>1, <1>2, <2>1
     DEF NoneUncancelled, Uncancelled, CapturesSession, Uncaptured
<1> QED BY <1>3, <1>4, <1>5

LEMMA SessionStep ==
    ASSUME MaxRestart = 1, Groq # "single", RefInv, [Next]_vars PROVE SessionFacts'
<1> USE DEF RefInv
<1>0. TypeOK /\ sessionId \in Nat
  BY SessionNat DEF LiveInv, TypeInv, TypeOK
<1>1. CASE StartRecording
  <2>1. LoopReads'
    BY <1>0, <1>1, CreateReads DEF StartRecording
  <2> QED BY <1>1, <2>1, HandlerEnds DEF StartRecording
<1>2. CASE ResetRest
  BY <1>2, HandlerEnds DEF ResetRest, LoopReads
<1>3. CASE SetBluetooth
  <2>1. LoopReads'
    BY <1>0, <1>3, CreateReads DEF SetBluetooth
  <2> QED BY <1>3, <2>1, RecordsAgain DEF SetBluetooth, Waits, model, results
<1>4. ASSUME NEW m \in Mic, Restart(m) PROVE SessionFacts'
  <2>1. LoopReads'
    BY <1>0, <1>4, TaskReads DEF Restart, TypeOK
  <2> QED BY <1>4, <2>1, RecordsAgain DEF Restart, Waits, model, results
<1>5. CASE Finish
  BY <1>5, FinishSession DEF Finish
<1>6. ASSUME NEW m \in Mic, LoopFinish(m) PROVE SessionFacts'
  <2>1. CASE isRecording /\ ~loops[m].cancelled
    BY <1>6, <2>1, FinishSession DEF LoopFinish
  <2>2. CASE ~(isRecording /\ ~loops[m].cancelled)
    <3>1. LoopOnly /\ loops' = [loops EXCEPT ![m].pc = "ended"]
      BY <1>6, <2>2 DEF LoopFinish
    <3>2. isRecording => recorderJob \in Mic /\ recorderJob # m
      BY <2>2 DEF LiveInv, RecordingInv
    <3>3. LoopReads'
      BY <1>0, <3>1, <3>2 DEF LoopOnly, fields, LoopReads, SessionFacts, TypeOK
    <3> QED BY <3>1, <3>3, SessionKept DEF LoopOnly, fields, model, results
  <2> QED BY <2>1, <2>2
<1>7. ASSUME NEW m \in Mic, LoopNext(m) \/ LoopCompletes(m) PROVE SessionFacts'
  <2>1. LoopOnly
    BY <1>0, <1>7, LoopFrame
  <2>2. isRecording => /\ recorderJob \in Mic /\ recorder = recorderJob
                       /\ micState[recorderJob] = "started" /\ ~loops[recorderJob].cancelled
                       /\ loops[recorderJob].pc \in {"head", "read", "data", "append", "toMain"}
    BY DEF LiveInv, RecordingInv, SessionFacts, LoopReads
  <2>3. LoopReads'
    <3> SUFFICES ASSUME isRecording
                 PROVE  loops'[recorderJob].pc \in {"head", "read", "data", "append", "toMain"}
      BY <2>1 DEF LoopReads, LoopOnly, fields
    <3>1. CASE m # recorderJob
      BY <1>0, <1>7, <2>2, <3>1
         DEF LoopNext, LoopHead, LoopRead, LoopData, LoopAppend, LoopCompletes, LoopStep,
             TypeOK
    <3>2. CASE m = recorderJob
      BY <1>0, <1>7, <2>2, <3>2
         DEF LoopNext, LoopHead, LoopRead, LoopData, LoopAppend, LoopCompletes, LoopStep,
             TypeOK, LoopRecord
    <3> QED BY <3>1, <3>2
  <2> QED BY <2>1, <2>3, SessionKept DEF LoopOnly, fields, model, results
<1>8. CASE Start \/ Reset \/ LoadFailed
  <2>1. /\ main = "idle" /\ main' # "idle" /\ sessionId' = sessionId + 1
        /\ UNCHANGED <<fields, audio, runs, modelJob, posted>>
    BY <1>8 DEF Start, Reset, LoadFailed, model, results
  <2>2. AbstractSession' = sessionId /\ AbstractSession = sessionId
    BY <1>0, <2>1 DEF AbstractSession
  <2>3. \A r \in Run : runs[r].sid \in Nat /\ runs[r].sid <= sessionId
    BY <1>0, SessionNat DEF SessionFacts, CapturesSession, TypeOK, RunRecord
  <2>4. \A b \in posted : b.run \in Run
    BY <1>0 DEF TypeOK, Block
  <2>5. SessionEnds' /\ RunOfSession' /\ RecordsFirst' /\ LoopReads'
    BY <1>0, <2>1, <2>2
       DEF SessionFacts, SessionEnds, RunOfSession, RecordsFirst, LoopReads, Waits,
           NoneUncancelled, Uncancelled, fields, audio
  <2>6. CapturesSession'
    BY <1>0, <2>1, <2>2, <2>3 DEF SessionFacts, CapturesSession, Uncancelled
  <2>7. HiddenBlocks'
    BY <1>0, <2>1, <2>3, <2>4 DEF HiddenBlocks
  <2> QED BY <2>5, <2>6, <2>7 DEF SessionFacts
<1>9. CASE StartPrebuffering \/ LoadModel \/ UNCHANGED vars
  <2>1. /\ UNCHANGED <<main, sessionId, isRecording, recorderJob, restarts,
                       runs, modelJob, posted>>
        /\ UNCHANGED loops
    BY <1>9 DEF StartPrebuffering, LoadModel, LoadOnly, vars, fields, audio, model, results
  <2> QED BY <2>1, SessionKept DEF SessionFacts, LoopReads
<1>10. ASSUME NEW b \in posted, CheckFinished(b) \/ DeliverFinished(b) PROVE SessionFacts'
  <2>1. main = "idle" /\ UNCHANGED <<main, sessionId, fields, audio, model>>
    BY <1>10 DEF CheckFinished, DeliverFinished
  <2> QED BY <2>1
     DEF SessionFacts, SessionEnds, RunOfSession, RecordsFirst, LoopReads, Waits,
         NoneUncancelled, Uncancelled, CapturesSession, HiddenBlocks, AbstractSession,
         fields, audio, model
<1>11. ASSUME NEW r \in Run, RunNext(r) PROVE SessionFacts'
  <2>1. /\ UNCHANGED <<main, sessionId, fields, audio, modelJob>>
        /\ \A x \in Run : /\ runs'[x].born = runs[x].born
                          /\ runs'[x].cancelled = runs[x].cancelled
    BY <1>0, <1>11, RunFrame
  <2>2. RunKeepsSession
    BY <1>0, <1>11, RunSession
  <2>3. \A x \in Run : Uncancelled(x)' = Uncancelled(x)
    BY <2>1, <2>2 DEF RunKeepsSession, Uncancelled
  <2>4. SessionEnds' /\ RunOfSession' /\ RecordsFirst' /\ LoopReads'
    BY <2>1, <2>3
       DEF SessionFacts, SessionEnds, RunOfSession, RecordsFirst, LoopReads, Waits,
           NoneUncancelled, AbstractSession, fields, audio
  <2>5. CapturesSession'
    <3> SUFFICES ASSUME NEW x \in Run
                 PROVE  /\ runs'[x].sid <= sessionId
                        /\ Uncancelled(x) /\ runs'[x].pc \notin Uncaptured
                              => runs'[x].sid \in {AbstractSession, sessionId}
      BY <2>1, <2>3 DEF CapturesSession, AbstractSession
    <3>1. CASE runs'[x].sid = sessionId
      BY <1>0, <3>1
    <3>2. CASE SidKept(x)
      BY <3>2 DEF SidKept, SessionFacts, CapturesSession
    <3> QED BY <2>2, <3>1, <3>2 DEF RunKeepsSession
  <2>6. HiddenBlocks'
    <3> SUFFICES ASSUME main # "idle", NEW b \in posted', runs'[b.run].sid = sessionId
                 PROVE  ~runs'[b.run].cancelled /\ ~b.checked
      BY <2>1 DEF HiddenBlocks
    <3>1. CASE b \in posted
      <4>1. b.run \in Run /\ runs[b.run].pc = "done"
        BY <1>0, <3>1 DEF AnswerInv, BlocksAreLast, TypeOK, Block
      <4>2. runs'[b.run].sid = runs[b.run].sid
        BY <2>2, <4>1 DEF RunKeepsSession, SidKept
      <4> QED BY <2>1, <3>1, <4>1, <4>2 DEF SessionFacts, HiddenBlocks
    <3>2. CASE b \notin posted
      BY <1>11, <2>1, <3>2, RunBlocks
    <3> QED BY <3>1, <3>2
  <2> QED BY <2>4, <2>5, <2>6 DEF SessionFacts
<1> QED
  BY <1>1, <1>2, <1>3, <1>4, <1>5, <1>6, <1>7, <1>8, <1>9, <1>10, <1>11
     DEF Next, UserNext, MainNext

LEMMA RefStep ==
    ASSUME MaxRestart = 1, Groq # "single", RefInv, [Next]_vars PROVE RefInv'
BY LiveStep, AnswerStep, SessionStep DEF RefInv

LEMMA RefInit == Init => RefInv
<1> SUFFICES ASSUME Init PROVE RefInv
  OBVIOUS
<1>1. LiveInv /\ TypeInv
  BY LiveInit, TypeInit
<1>2. AnswerInv
  BY <1>1 DEF Init, AnswerInv, BlocksAreLast, OneBlock, AnswersAreLast, AnswerOnce, NoRun
<1>3. SessionFacts
  BY DEF Init, SessionFacts, SessionEnds, RunOfSession, RecordsFirst, CapturesSession,
         HiddenBlocks, LoopReads, NoneUncancelled, Uncancelled, NoRun, Uncaptured
<1> QED BY <1>1, <1>2, <1>3 DEF RefInv

-----------------------------------------------------------------------------
(* The parts of the mapped state.                                          *)

LEMMA WaitingBound ==
    /\ IsFiniteSet(Waiting) /\ Cardinality(Waiting) \in Nat
    /\ IsFiniteSet(Mic \X (1 .. MaxRestart))
    /\ Cardinality(Mic \X (1 .. MaxRestart)) = MaxMic * MaxRestart
<1>1. /\ IsFiniteSet(Mic) /\ Cardinality(Mic) = MaxMic
      /\ IsFiniteSet(1 .. MaxRestart) /\ Cardinality(1 .. MaxRestart) = MaxRestart
  BY FS_Interval, BoundAssumption DEF Mic
<1>2. /\ IsFiniteSet(Mic \X (1 .. MaxRestart))
      /\ Cardinality(Mic \X (1 .. MaxRestart)) = MaxMic * MaxRestart
  BY <1>1, FS_Product
<1>3. Waiting \in SUBSET (Mic \X (1 .. MaxRestart))
  BY DEF Waiting
<1>4. IsFiniteSet(Waiting)
  BY <1>2, <1>3, FS_Subset
<1> QED BY <1>2, <1>4, FS_CardinalityType

\* One more restart, or one less, and the count is one more or one less.
LEMMA WaitingMore ==
    ASSUME TypeOK, NEW m \in Mic, restarts[m] < MaxRestart,
           restarts' = [restarts EXCEPT ![m] = @ + 1]
    PROVE  /\ Cardinality(Waiting') = Cardinality(Waiting) + 1
           /\ Cardinality(Waiting) < MaxMic * MaxRestart
<1> DEFINE w == <<m, restarts[m] + 1>>
<1>1. restarts \in [Mic -> Nat] /\ MaxRestart \in Nat
  BY BoundAssumption DEF TypeOK
<1>2. w \in Mic \X (1 .. MaxRestart) /\ w \notin Waiting
  BY <1>1 DEF Waiting
<1>3. Waiting' = Waiting \cup {w}
  <2>1. ASSUME NEW x \in Mic \X (1 .. MaxRestart)
        PROVE  x[2] <= restarts'[x[1]] <=> x[2] <= restarts[x[1]] \/ x = w
    BY <1>1
  <2> QED BY <1>2, <2>1 DEF Waiting
<1> HIDE DEF w
<1>4. Cardinality(Waiting') = Cardinality(Waiting) + 1
  BY <1>2, <1>3, WaitingBound, FS_AddElement
<1>5. Waiting \cup {w} \in SUBSET (Mic \X (1 .. MaxRestart))
  BY <1>2 DEF Waiting
<1>6. Cardinality(Waiting \cup {w}) <= MaxMic * MaxRestart
  BY <1>5, WaitingBound, FS_Subset
<1>7. MaxMic * MaxRestart \in Nat
  BY BoundAssumption
<1> QED BY <1>3, <1>4, <1>6, <1>7, WaitingBound

LEMMA WaitingLess ==
    ASSUME TypeOK, NEW m \in Mic, restarts[m] \in 1 .. MaxRestart,
           restarts' = [restarts EXCEPT ![m] = @ - 1]
    PROVE  /\ Cardinality(Waiting') = Cardinality(Waiting) - 1
           /\ Cardinality(Waiting) > 0
<1> DEFINE w == <<m, restarts[m]>>
<1>1. restarts \in [Mic -> Nat] /\ MaxRestart \in Nat
  BY BoundAssumption DEF TypeOK
<1>2. w \in Mic \X (1 .. MaxRestart) /\ w \in Waiting
  BY <1>1 DEF Waiting
<1>3. Waiting' = Waiting \ {w}
  <2>1. ASSUME NEW x \in Mic \X (1 .. MaxRestart)
        PROVE  x[2] <= restarts'[x[1]] <=> x[2] <= restarts[x[1]] /\ x # w
    BY <1>1
  <2> QED BY <1>2, <2>1 DEF Waiting
<1> HIDE DEF w
<1>4. /\ Cardinality(Waiting \ {w}) = Cardinality(Waiting) - 1
      /\ IsFiniteSet(Waiting \ {w})
  BY <1>2, WaitingBound, FS_RemoveElement
<1>5. Cardinality(Waiting \ {w}) \in Nat
  BY <1>4, FS_CardinalityType
<1> QED BY <1>3, <1>4, <1>5, WaitingBound

\* The status of a run, and that an unstarted one has no block and no answer.
LEMMA StatusOf ==
    ASSUME TypeOK, NEW r \in Run
    PROVE  /\ answers[r] > 0 => AbstractStatus(r) = "answered"
           /\ answers[r] = 0 /\ BlockOf(r) # {} =>
                AbstractStatus(r) = IF \E b \in BlockOf(r) : b.checked
                                    THEN "checked" ELSE "posted"
           /\ answers[r] = 0 /\ BlockOf(r) = {} =>
                AbstractStatus(r) = IF runs[r].pc = "none" THEN "none"
                                    ELSE IF runs[r].cancelled THEN "over" ELSE "running"
           /\ answers[r] > 0 \/ answers[r] = 0
<1>1. answers[r] \in Nat
  BY DEF TypeOK
<1> QED BY <1>1 DEF AbstractStatus

LEMMA NoneIsNew ==
    ASSUME AnswerInv, NEW r \in Run
    PROVE  /\ AbstractStatus(r) = "none" <=> runs[r].pc = "none"
           /\ runs[r].pc # "done" => answers[r] = 0 /\ BlockOf(r) = {}
<1>1. runs[r].pc # "done" => answers[r] = 0 /\ BlockOf(r) = {}
  BY DEF AnswerInv, BlocksAreLast, AnswersAreLast, BlockOf
<1> QED BY <1>1, StatusOf DEF AnswerInv, TypeInv

\* A run that keeps its blocks and answers keeps its image.
LEMMA ImageKept ==
    ASSUME NEW r \in Run, answers'[r] = answers[r], BlockOf(r)' = BlockOf(r),
           runs'[r].born = runs[r].born,
           AbstractStatus(r) \in {"none", "over", "running"} =>
              /\ (runs'[r].pc = "none") = (runs[r].pc = "none")
              /\ runs'[r].cancelled = runs[r].cancelled,
           AbstractStatus(r) \in {"posted", "checked", "answered"} =>
              runs'[r].sid = runs[r].sid,
           TypeOK, TypeOK'
    PROVE  AbstractRun(r)' = AbstractRun(r)
<1>1. AbstractStatus(r)' = AbstractStatus(r)
  <2>1. CASE answers[r] > 0
    BY <2>1, StatusOf DEF AbstractStatus
  <2>2. CASE answers[r] = 0 /\ BlockOf(r) # {}
    BY <2>2 DEF AbstractStatus
  <2>3. CASE answers[r] = 0 /\ BlockOf(r) = {}
    <3>1. AbstractStatus(r) \in {"none", "over", "running"}
      BY <2>3, StatusOf
    <3> QED BY <2>3, <3>1 DEF AbstractStatus
  <2> QED BY <2>1, <2>2, <2>3, StatusOf
<1> QED BY <1>1 DEF AbstractRun

LEMMA RunsSame ==
    ASSUME \A r \in Run : AbstractRun(r)' = AbstractRun(r)
    PROVE  AbstractRuns' = AbstractRuns
BY DEF AbstractRuns

\* A step of the main thread that does not concern the runs keeps their images.
LEMMA ImagesKept ==
    ASSUME TypeOK, TypeOK', UNCHANGED <<main, sessionId, runs, posted, answers>>
    PROVE  AbstractRuns' = AbstractRuns
BY DEF AbstractRuns, AbstractRun, AbstractStatus, BlockOf

LEMMA StateKept ==
    ASSUME AbstractSession' = AbstractSession, isRecording' = isRecording,
           isPrebuffering' = isPrebuffering, AbstractOpen' = AbstractOpen,
           AbstractLooping' = AbstractLooping, Waiting' = Waiting,
           AbstractLoading' = AbstractLoading, AbstractRuns' = AbstractRuns
    PROVE  AbstractState' = AbstractState
BY DEF AbstractState

\* The image of a run, by status.
Image(st, r, sid) == [st |-> st, born |-> runs[r].born, sid |-> sid]

LEMMA ImageOf ==
    ASSUME NEW r
    PROVE  AbstractRun(r) = Image(AbstractStatus(r), r,
                IF AbstractStatus(r) \in {"posted", "checked", "answered"}
                THEN runs[r].sid ELSE 0)
BY DEF AbstractRun, Image

-----------------------------------------------------------------------------
(* The images of the runs, by kind of step.                                *)

\* The first line of a handler: no block has the new id yet.
LEMMA HandlerBeginsRuns ==
    ASSUME RefInv, TypeOK', main = "idle", main' # "idle", sessionId' = sessionId + 1,
           UNCHANGED <<runs, posted, answers>>
    PROVE  AbstractRuns' = AbstractRuns
<1>1. \A r \in Run : runs[r].sid \in Nat /\ runs[r].sid <= sessionId /\ sessionId \in Nat
  BY SessionNat
     DEF RefInv, LiveInv, TypeInv, TypeOK, RunRecord, SessionFacts, CapturesSession
<1>2. \A r \in Run : BlockOf(r)' = BlockOf(r)
  BY <1>1 DEF BlockOf
<1> QED BY <1>2, ImageKept, RunsSame DEF RefInv, LiveInv, TypeInv

\* The image of a run that a handler cancels: over when it was running.
OverIfRunning(r) ==
    IF AbstractStatus(r) = "running"
    THEN Image("over", r, 0) ELSE AbstractRun(r)

\* The rest of a handler ends the runs that are running, but for one that has
\* posted its answer under the new id, which shows itself now.
LEMMA HandlerEndsRuns ==
    ASSUME RefInv, TypeOK', main # "idle", main' = "idle",
           UNCHANGED <<sessionId, posted, answers>>, runs' = CancelRun(modelJob)
    PROVE  \/ \A r \in Run : AbstractRun(r)' = OverIfRunning(r)
           \/ \E l \in Run : /\ AbstractStatus(l) = "running"
                             /\ AbstractRun(l)' = Image("posted", l, sessionId)
                             /\ \A r \in Run : r # l => AbstractRun(r)' = OverIfRunning(r)
<1> USE DEF RefInv
<1>0. TypeOK /\ AnswerInv
  BY DEF LiveInv, TypeInv
<1>1. \A x \in Run : /\ runs'[x].pc = runs[x].pc /\ runs'[x].sid = runs[x].sid
                     /\ runs'[x].born = runs[x].born
                     /\ runs'[x].cancelled = (runs[x].cancelled \/ x = modelJob)
                     /\ Uncancelled(x) => x = modelJob
  BY CancelEndsRuns DEF SessionFacts, RunOfSession
<1> DEFINE Hidden(r) == \E b \in posted : b.run = r /\ runs[r].sid = sessionId
<1>2. ASSUME NEW r \in Run, ~Hidden(r) PROVE AbstractRun(r)' = OverIfRunning(r)
  <2>1. BlockOf(r)' = BlockOf(r)
    BY <1>1, <1>2 DEF BlockOf
  <2>2. AbstractStatus(r) \notin {"none", "over", "running"} => AbstractRun(r)' = AbstractRun(r)
    BY <1>0, <1>1, <2>1, ImageKept
  <2>3. CASE AbstractStatus(r) \in {"none", "over", "running"}
    <3>1. answers[r] = 0 /\ BlockOf(r) = {} /\ answers'[r] = 0 /\ BlockOf(r)' = {}
      BY <1>0, <2>1, <2>3, StatusOf
    <3>2. AbstractStatus(r) = IF runs[r].pc = "none" THEN "none"
                              ELSE IF runs[r].cancelled THEN "over" ELSE "running"
      BY <1>0, <3>1, StatusOf
    <3>3. AbstractStatus(r)' = IF runs[r].pc = "none" THEN "none" ELSE "over"
      <4>1. runs'[r].pc = runs[r].pc /\ (runs[r].pc # "none" => runs'[r].cancelled)
        BY <1>1 DEF Uncancelled
      <4> QED BY <3>1, <4>1 DEF AbstractStatus
    <3> QED BY <1>1, <3>2, <3>3 DEF AbstractRun, Image, OverIfRunning
  <2> QED BY <2>2, <2>3 DEF OverIfRunning
<1>3. ASSUME NEW l \in Run, Hidden(l)
      PROVE  /\ l = modelJob
             /\ AbstractStatus(l) = "running"
             /\ AbstractRun(l)' = Image("posted", l, sessionId)
  <2>1. PICK b \in posted : b.run = l /\ runs[l].sid = sessionId
    BY <1>3
  <2>2. /\ runs[l].pc = "done" /\ answers[l] = 0
        /\ ~runs[l].cancelled /\ ~b.checked
        /\ \A c \in posted : c.run = l => c = b
    BY <2>1 DEF AnswerInv, BlocksAreLast, OneBlock, SessionFacts, HiddenBlocks
  <2>3. l = modelJob
    BY <1>1, <2>2 DEF Uncancelled
  <2>4. BlockOf(l) = {} /\ BlockOf(l)' = {b}
    BY <1>1, <2>1, <2>2 DEF BlockOf
  <2>5. AbstractStatus(l) = "running"
    BY <1>0, <2>2, <2>4, StatusOf
  <2>6. AbstractStatus(l)' = "posted"
    BY <2>2, <2>4 DEF AbstractStatus
  <2> QED BY <1>1, <2>1, <2>3, <2>5, <2>6 DEF AbstractRun, Image
<1> HIDE DEF Hidden
<1>4. CASE \E l \in Run : Hidden(l)
  BY <1>2, <1>3, <1>4
<1> QED BY <1>2, <1>4

\* finish() begins a run in the image too, the next one there as here.
Begun == [st |-> "running", born |-> sessionId, sid |-> 0]
LEMMA FinishRuns ==
    ASSUME RefInv, TypeOK', main = "idle", NEW STATE ls, OnFinishRecording(ls)
    PROVE  \E r \in Run : /\ FreshRun(r) /\ AbstractRun(r)' = Begun
                          /\ \A x \in Run : x # r => AbstractRun(x)' = AbstractRun(x)
<1> USE DEF RefInv
<1>0. TypeOK /\ AnswerInv
  BY DEF LiveInv, TypeInv
<1>1. PICK r \in Run : /\ FreshRun(r)
                       /\ runs'[r].pc = "dispatched" /\ ~runs'[r].cancelled
                       /\ runs'[r].born = sessionId
                       /\ \A x \in Run : x # r => runs'[x] = runs[x]
  BY <1>0 DEF OnFinishRecording, TypeOK
<1>2. UNCHANGED <<main, sessionId, posted, answers>>
  BY DEF OnFinishRecording, results
<1>3. AbstractRun(r)' = Begun
  <2>1. answers[r] = 0 /\ BlockOf(r) = {}
    BY <1>0, <1>1, NoneIsNew DEF FreshRun
  <2>2. answers'[r] = 0 /\ BlockOf(r)' = {}
    BY <1>2, <2>1 DEF BlockOf, OnFinishRecording
  <2>3. AbstractStatus(r)' = "running"
    BY <1>1, <2>2 DEF AbstractStatus
  <2> QED BY <1>1, <2>3 DEF AbstractRun, Begun
<1>4. ASSUME NEW x \in Run, x # r PROVE AbstractRun(x)' = AbstractRun(x)
  BY <1>0, <1>1, <1>2, <1>4 DEF AbstractRun, AbstractStatus, BlockOf
<1> QED BY <1>1, <1>3, <1>4

\* A step of a run changes its image only when it posts, and not even then if a
\* handler has taken a new id and the run has read that one.
LEMMA RunStepRuns ==
    ASSUME RefInv, TypeOK', NEW r \in Run, RunNext(r)
    PROVE  \/ AbstractRuns' = AbstractRuns
           \/ /\ AbstractStatus(r) = "running" /\ AbstractRun(r)' = Image("posted", r, runs[r].born)
              /\ \A x \in Run : x # r => AbstractRun(x)' = AbstractRun(x)
<1> USE DEF RefInv
<1>0. TypeOK /\ AnswerInv
  BY DEF LiveInv, TypeInv
<1>1. /\ UNCHANGED <<main, sessionId>> /\ answers' = answers
      /\ \A x \in Run : /\ runs'[x].born = runs[x].born
                        /\ runs'[x].cancelled = runs[x].cancelled
  BY <1>0, RunFrame, RunAudio
<1>2. \A x \in Run : /\ (runs'[x].pc = "none") = (runs[x].pc = "none")
                     /\ runs'[x].sid = runs[x].sid \/ runs[x].pc = "started"
  BY <1>0, RunSession DEF RunKeepsSession, SidKept
<1>3. ASSUME NEW x \in Run, BlockOf(x)' = BlockOf(x) PROVE AbstractRun(x)' = AbstractRun(x)
  <2>1. AbstractStatus(x) \in {"posted", "checked", "answered"} => runs'[x].sid = runs[x].sid
    <3>1. runs[x].pc = "started" => answers[x] = 0 /\ BlockOf(x) = {}
      BY <1>0, NoneIsNew
    <3> QED BY <1>0, <1>2, <3>1, StatusOf
  <2> QED BY <1>0, <1>1, <1>2, <1>3, <2>1, ImageKept
<1>4. \A x \in Run, b \in posted : b.run = x => runs'[x].sid = runs[x].sid
  BY <1>0, <1>2 DEF AnswerInv, BlocksAreLast
<1>5. CASE UNCHANGED posted
  <2>1. \A x \in Run : BlockOf(x)' = BlockOf(x)
    BY <1>1, <1>4, <1>5 DEF BlockOf
  <2> QED BY <1>3, <2>1, RunsSame
<1>6. CASE /\ RunPosts(r) /\ ~runs[r].cancelled
           /\ posted' = posted \cup {[run |-> r, early |-> FALSE, checked |-> FALSE]}
  <2> DEFINE b == [run |-> r, early |-> FALSE, checked |-> FALSE]
  <2>1. b.run = r /\ ~b.checked /\ posted' = posted \cup {b}
    BY <1>6
  <2> HIDE DEF b
  <2>2. runs[r].pc = "posting"
    BY <1>6 DEF RunPosts, RunStep
  <2>3. /\ answers[r] = 0 /\ BlockOf(r) = {} /\ AbstractStatus(r) = "running"
        /\ runs'[r].sid = runs[r].sid
    BY <1>0, <1>2, <1>6, <2>2, NoneIsNew, StatusOf
  <2>4. \A c \in posted : c.run # r
    BY <1>0, <2>2 DEF AnswerInv, BlocksAreLast
  <2>5. \A x \in Run : x # r => BlockOf(x)' = BlockOf(x)
    BY <1>1, <1>4, <2>1 DEF BlockOf
  <2>6. CASE main # "idle" /\ runs[r].sid = sessionId
    <3>1. BlockOf(r)' = BlockOf(r)
      BY <1>1, <2>1, <2>3, <2>6 DEF BlockOf
    <3> QED BY <1>3, <2>5, <3>1, RunsSame
  <2>7. CASE main = "idle" \/ runs[r].sid # sessionId
    <3>1. runs[r].sid = runs[r].born
      BY <1>6, <2>2, <2>7
         DEF SessionFacts, CapturesSession, RunOfSession, Uncancelled, Uncaptured,
             AbstractSession
    <3>2. BlockOf(r)' = {b}
      BY <1>1, <2>1, <2>3, <2>4, <2>7 DEF BlockOf
    <3>3. AbstractStatus(r)' = "posted"
      BY <1>1, <2>1, <2>3, <3>2 DEF AbstractStatus
    <3>4. AbstractRun(r)' = Image("posted", r, runs[r].born)
      BY <1>1, <2>3, <3>1, <3>3 DEF AbstractRun, Image
    <3> QED BY <1>3, <2>3, <2>5, <3>4
  <2> QED BY <2>6, <2>7
<1> QED BY <1>0, <1>5, <1>6, RunBlocks

\* The block of a finished run: dropped when it is stale, for its run was
\* cancelled; checked; delivered.
LEMMA CheckRuns ==
    ASSUME RefInv, TypeOK', NEW b \in posted, CheckFinished(b)
    PROVE  /\ b.run \in Run /\ AbstractStatus(b.run) = "posted"
           /\ AbstractRun(b.run)' = IF runs[b.run].sid = sessionId
                                    THEN Image("checked", b.run, runs[b.run].sid)
                                    ELSE Image("over", b.run, 0)
           /\ \A x \in Run : x # b.run => AbstractRun(x)' = AbstractRun(x)
<1> USE DEF RefInv
<1> DEFINE r == b.run
<1>0. TypeOK /\ AnswerInv /\ r \in Run
  BY DEF LiveInv, TypeInv, TypeOK, Block
<1>1. /\ main = "idle" /\ ~b.checked /\ ~b.early /\ runs[r].pc = "done"
      /\ answers[r] = 0 /\ \A c \in posted : c.run = r => c = b
      /\ UNCHANGED <<main, sessionId, runs>>
  BY <1>0 DEF CheckFinished, AnswerInv, BlocksAreLast, OneBlock, model
<1>2. BlockOf(r) = {b}
  BY <1>1 DEF BlockOf
<1>3. AbstractStatus(r) = "posted"
  BY <1>0, <1>1, <1>2, StatusOf
<1>4. CASE Stale(r)
  <2>1. posted' = posted \ {b} /\ UNCHANGED answers
    BY <1>4 DEF CheckFinished
  <2>2. runs[r].cancelled
    BY <1>0, <1>1, <1>4
       DEF SessionFacts, CapturesSession, Uncancelled, Uncaptured, AbstractSession, Stale
  <2>3. BlockOf(r)' = {} /\ \A x \in Run : x # r => BlockOf(x)' = BlockOf(x)
    BY <1>1, <2>1 DEF BlockOf
  <2>4. AbstractStatus(r)' = "over"
    BY <1>1, <2>1, <2>2, <2>3 DEF AbstractStatus
  <2>5. AbstractRun(r)' = Image("over", r, 0)
    BY <1>1, <2>4 DEF AbstractRun, Image
  <2>6. \A x \in Run : x # r => AbstractRun(x)' = AbstractRun(x)
    BY <1>0, <1>1, <2>1, <2>3, ImageKept
  <2> QED BY <1>0, <1>3, <1>4, <2>5, <2>6 DEF Stale
<1>5. CASE ~Stale(r)
  <2> DEFINE c == [b EXCEPT !.checked = TRUE]
  <2>1. c.run = r /\ c.checked
    BY DEF LiveInv, TypeInv, TypeOK, Block
  <2>2. posted' = (posted \ {b}) \cup {c} /\ UNCHANGED answers
    BY <1>1, <1>5 DEF CheckFinished
  <2> HIDE DEF c
  <2>3. BlockOf(r)' = {c} /\ \A x \in Run : x # r => BlockOf(x)' = BlockOf(x)
    BY <1>1, <2>1, <2>2 DEF BlockOf
  <2>4. AbstractStatus(r)' = "checked"
    BY <1>1, <2>1, <2>2, <2>3 DEF AbstractStatus
  <2>5. AbstractRun(r)' = Image("checked", r, runs[r].sid)
    BY <1>1, <1>3, <2>4 DEF AbstractRun, Image
  <2>6. \A x \in Run : x # r => AbstractRun(x)' = AbstractRun(x)
    BY <1>0, <1>1, <2>2, <2>3, ImageKept
  <2> QED BY <1>0, <1>3, <1>5, <2>5, <2>6 DEF Stale
<1> QED BY <1>4, <1>5

LEMMA DeliverRuns ==
    ASSUME RefInv, TypeOK', NEW b \in posted, DeliverFinished(b)
    PROVE  /\ b.run \in Run /\ AbstractStatus(b.run) = "checked"
           /\ AbstractRun(b.run)' = Image("answered", b.run, runs[b.run].sid)
           /\ \A x \in Run : x # b.run => AbstractRun(x)' = AbstractRun(x)
<1> USE DEF RefInv
<1> DEFINE r == b.run
<1>0. TypeOK /\ AnswerInv /\ r \in Run
  BY DEF LiveInv, TypeInv, TypeOK, Block
<1>1. /\ main = "idle" /\ b.checked /\ answers[r] = 0
      /\ \A c \in posted : c.run = r => c = b
      /\ UNCHANGED <<main, sessionId, runs>> /\ posted' = posted \ {b}
      /\ answers' = [answers EXCEPT ![r] = @ + 1]
  BY <1>0 DEF DeliverFinished, AnswerInv, BlocksAreLast, OneBlock, model
<1>2. BlockOf(r) = {b}
  BY <1>1 DEF BlockOf
<1>3. AbstractStatus(r) = "checked"
  BY <1>0, <1>1, <1>2, StatusOf
<1>4. answers'[r] = 1 /\ \A x \in Run : x # r => answers'[x] = answers[x]
  BY <1>0, <1>1 DEF TypeOK
<1>5. AbstractStatus(r)' = "answered"
  BY <1>4 DEF AbstractStatus
<1>6. AbstractRun(r)' = Image("answered", r, runs[r].sid)
  BY <1>1, <1>3, <1>5 DEF AbstractRun, Image
<1>7. \A x \in Run : x # r => BlockOf(x)' = BlockOf(x)
  BY <1>1 DEF BlockOf
<1>8. \A x \in Run : x # r => AbstractRun(x)' = AbstractRun(x)
  BY <1>0, <1>1, <1>4, <1>7, ImageKept
<1> QED BY <1>0, <1>3, <1>6, <1>8

-----------------------------------------------------------------------------
(* Each step is a step of the service, or none.                            *)

\* The parts of the mapped state other than its runs.
PartsKept == UNCHANGED <<AbstractSession, isRecording, isPrebuffering, AbstractOpen,
                         AbstractLooping, Waiting, AbstractLoading>>

LEMMA StateParts ==
    /\ AbstractState.session = AbstractSession /\ AbstractState.recording = isRecording
    /\ AbstractState.prebuffering = isPrebuffering /\ AbstractState.open = AbstractOpen
    /\ AbstractState.looping = AbstractLooping
    /\ AbstractState.restarts = Cardinality(Waiting)
    /\ AbstractState.loading = AbstractLoading /\ AbstractState.runs = AbstractRuns
BY DEF AbstractState

LEMMA RunParts ==
    ASSUME NEW r \in Run
    PROVE  /\ AbstractRuns[r] = AbstractRun(r) /\ AbstractRun(r).st = AbstractStatus(r)
           /\ AbstractRun(r).born = runs[r].born
           /\ AbstractStatus(r) \in {"posted", "checked", "answered"} =>
                 AbstractRun(r).sid = runs[r].sid
           /\ r \in Service!Run
BY DEF AbstractRuns, AbstractRun, Service!Run, Run

\* A run that moves in the image, and nothing else.
LEMMA OneMoves ==
    ASSUME NEW r \in Run, NEW st, NEW STATE sid, AbstractRun(r)' = Image(st, r, sid),
           \A x \in Run : x # r => AbstractRun(x)' = AbstractRun(x), PartsKept
    PROVE  AbstractState' = Service!Moved(AbstractState, r, st, sid)
<1>1. AbstractState.runs = AbstractRuns /\ AbstractState.runs[r].born = runs[r].born
  BY StateParts, RunParts
<1>2. AbstractRuns' = [AbstractRuns EXCEPT ![r] = [st |-> st, born |-> runs[r].born,
                                                   sid |-> sid]]
  BY DEF AbstractRuns, Image
<1>3. AbstractState' = [AbstractState EXCEPT !.runs = AbstractRuns']
  BY DEF AbstractState, PartsKept
<1> QED BY <1>1, <1>2, <1>3 DEF Service!Moved

LEMMA SimRun ==
    ASSUME RefInv, TypeOK', NEW r \in Run, RunNext(r)
    PROVE  [Service!Next]_AbstractState
<1>1. PartsKept
  <2>1. TypeOK
    BY DEF RefInv, LiveInv, TypeInv
  <2>2. UNCHANGED <<main, sessionId, fields, audio, modelJob, loadModelJob>>
    BY <2>1, RunFrame
  <2> QED BY <2>2
     DEF PartsKept, AbstractSession, AbstractOpen, AbstractLooping, Waiting,
         AbstractLoading, fields, audio
<1>2. CASE AbstractRuns' = AbstractRuns
  BY <1>1, <1>2, StateKept DEF PartsKept
<1>3. CASE /\ AbstractStatus(r) = "running" /\ AbstractRun(r)' = Image("posted", r, runs[r].born)
           /\ \A x \in Run : x # r => AbstractRun(x)' = AbstractRun(x)
  <2>1. AbstractState' = Service!Moved(AbstractState, r, "posted", runs[r].born)
    BY <1>1, <1>3, OneMoves
  <2>2. /\ AbstractState.runs[r].st = "running"
        /\ AbstractState.runs[r].born = runs[r].born /\ r \in Service!Run
    BY <1>3, StateParts, RunParts
  <2> QED BY <2>1, <2>2 DEF Service!Next, Service!Post
<1> QED BY <1>2, <1>3, RunStepRuns

LEMMA SimBlock ==
    ASSUME RefInv, TypeOK', NEW b \in posted, CheckFinished(b) \/ DeliverFinished(b)
    PROVE  [Service!Next]_AbstractState
<1> DEFINE r == b.run
<1>1. PartsKept /\ AbstractSession = sessionId
  BY DEF CheckFinished, DeliverFinished, PartsKept, AbstractSession, AbstractOpen,
         AbstractLooping, Waiting, AbstractLoading, fields, audio, model
<1>2. CASE CheckFinished(b)
  <2>1. /\ r \in Run /\ AbstractStatus(r) = "posted"
        /\ AbstractRun(r)' = IF runs[r].sid = sessionId
                             THEN Image("checked", r, runs[r].sid) ELSE Image("over", r, 0)
        /\ \A x \in Run : x # r => AbstractRun(x)' = AbstractRun(x)
    BY <1>2, CheckRuns
  <2>2. AbstractState.runs[r].st = "posted" /\ AbstractState.runs[r].sid = runs[r].sid
        /\ AbstractState.session = sessionId /\ r \in Service!Run
    BY <1>1, <2>1, StateParts, RunParts
  <2> HIDE DEF r
  <2>3. CASE runs[r].sid = sessionId
    <3>1. AbstractState' = Service!Moved(AbstractState, r, "checked", sessionId)
      BY <1>1, <2>1, <2>3, OneMoves
    <3> QED BY <2>2, <2>3, <3>1 DEF Service!Next, Service!Check
  <2>4. CASE runs[r].sid # sessionId
    <3>1. AbstractState' = Service!Moved(AbstractState, r, "over", 0)
      BY <1>1, <2>1, <2>4, OneMoves
    <3> QED BY <2>2, <2>4, <3>1 DEF Service!Next, Service!Check
  <2> QED BY <2>3, <2>4
<1>3. CASE DeliverFinished(b)
  <2>1. /\ r \in Run /\ AbstractStatus(r) = "checked"
        /\ AbstractRun(r)' = Image("answered", r, runs[r].sid)
        /\ \A x \in Run : x # r => AbstractRun(x)' = AbstractRun(x)
    BY <1>3, DeliverRuns
  <2>2. AbstractState.runs[r].st = "checked" /\ AbstractState.runs[r].sid = runs[r].sid
        /\ r \in Service!Run
    BY <2>1, StateParts, RunParts
  <2> HIDE DEF r
  <2>3. AbstractState' = Service!Moved(AbstractState, r, "answered", runs[r].sid)
    BY <1>1, <2>1, OneMoves
  <2> QED BY <2>2, <2>3 DEF Service!Next, Service!Deliver
<1> QED BY <1>2, <1>3

\* A step of a recording loop shows only when the loop of the field completes,
\* which it does not while a recording is made.
LEMMA SimLoop ==
    ASSUME RefInv, TypeOK', NEW m \in Mic, LoopOnly,
           loops' = [loops EXCEPT ![m].pc = loops'[m].pc],
           \/ (loops'[m].pc = "done") = (loops[m].pc = "done")
           \/ loops[m].pc = "ended" /\ loops'[m].pc = "done"
    PROVE  [Service!Next]_AbstractState
<1>0. TypeOK
  BY DEF RefInv, LiveInv, TypeInv
<1>1. AbstractRuns' = AbstractRuns
  BY <1>0, ImagesKept DEF LoopOnly, model, results
<1>2. UNCHANGED <<AbstractSession, isRecording, isPrebuffering, AbstractOpen, Waiting,
                  AbstractLoading>>
  BY DEF LoopOnly, AbstractSession, AbstractOpen, Waiting, AbstractLoading, fields, model
<1>3. recorderJob' = recorderJob /\ \A x \in Mic : x # m => loops'[x] = loops[x]
  BY <1>0 DEF LoopOnly, fields, TypeOK
<1>4. CASE AbstractLooping' = AbstractLooping
  BY <1>1, <1>2, <1>4, StateKept
<1>5. CASE AbstractLooping' # AbstractLooping
  <2>1. /\ recorderJob = m /\ loops[m].pc = "ended" /\ loops'[m].pc = "done"
        /\ AbstractLooping /\ AbstractLooping' = FALSE
    BY <1>0, <1>3, <1>5 DEF AbstractLooping, TypeOK
  <2>2. ~isRecording
    BY <2>1 DEF RefInv, SessionFacts, LoopReads
  <2>3. AbstractState' = [AbstractState EXCEPT !.looping = AbstractLooping']
    BY <1>1, <1>2 DEF AbstractState
  <2> QED BY <2>1, <2>2, <2>3, StateParts DEF Service!Next, Service!LoopEnds
<1> QED BY <1>4, <1>5

LEMMA SimLoops ==
    ASSUME RefInv, TypeOK', NEW m \in Mic, LoopNext(m) \/ LoopCompletes(m)
    PROVE  [Service!Next]_AbstractState
<1>0. TypeOK
  BY DEF RefInv, LiveInv, TypeInv
<1>1. LoopOnly
  BY <1>0, LoopFrame
<1>2. ASSUME NEW from, NEW STATE to, LoopStep(m, from, to),
             from # "done", to # "done" \/ from = "ended"
      PROVE  /\ loops' = [loops EXCEPT ![m].pc = loops'[m].pc]
             /\ \/ (loops'[m].pc = "done") = (loops[m].pc = "done")
                \/ loops[m].pc = "ended" /\ loops'[m].pc = "done"
  <2>1. loops[m].pc = from /\ loops' = [loops EXCEPT ![m].pc = to]
    BY <1>2 DEF LoopStep
  <2>2. loops'[m].pc = to
    BY <1>0, <2>1 DEF TypeOK, LoopRecord
  <2> QED BY <1>2, <2>1, <2>2
<1>3. /\ loops' = [loops EXCEPT ![m].pc = loops'[m].pc]
      /\ \/ (loops'[m].pc = "done") = (loops[m].pc = "done")
         \/ loops[m].pc = "ended" /\ loops'[m].pc = "done"
  BY <1>2 DEF LoopNext, LoopHead, LoopRead, LoopData, LoopAppend, LoopCompletes
<1> QED BY <1>1, <1>3, SimLoop

LEMMA SimLoad ==
    ASSUME RefInv, TypeOK', LoadModel PROVE [Service!Next]_AbstractState
<1>0. TypeOK
  BY DEF RefInv, LiveInv, TypeInv
<1>1. AbstractRuns' = AbstractRuns
  BY <1>0, ImagesKept DEF LoadModel, LoadOnly, results
<1>2. UNCHANGED <<AbstractSession, isRecording, isPrebuffering, AbstractOpen, Waiting,
                  AbstractLooping>>
  BY DEF LoadModel, LoadOnly, AbstractSession, AbstractOpen, Waiting, AbstractLooping,
         fields, audio
<1>3. AbstractLoading /\ (AbstractLoading' = AbstractLoading \/ AbstractLoading' = FALSE)
  BY <1>0 DEF LoadModel, AbstractLoading, TypeOK
<1>4. CASE AbstractLoading' = AbstractLoading
  BY <1>1, <1>2, <1>4, StateKept
<1>5. CASE AbstractLoading' = FALSE
  <2>1. AbstractState' = [AbstractState EXCEPT !.loading = AbstractLoading']
    BY <1>1, <1>2 DEF AbstractState
  <2> QED BY <1>3, <1>5, <2>1, StateParts DEF Service!Next, Service!Loaded
<1> QED BY <1>3, <1>4, <1>5

\* The first line of a handler does not show.
LEMMA SimBegin ==
    ASSUME RefInv, TypeOK', Start \/ Reset \/ LoadFailed
    PROVE  [Service!Next]_AbstractState
<1>0. sessionId \in Nat
  BY SessionNat DEF RefInv, LiveInv, TypeInv, TypeOK
<1>1. /\ main = "idle" /\ main' # "idle" /\ sessionId' = sessionId + 1
      /\ UNCHANGED <<fields, audio, model, results>>
  BY DEF Start, Reset, LoadFailed
<1>2. AbstractRuns' = AbstractRuns
  BY <1>1, HandlerBeginsRuns DEF model, results
<1>3. UNCHANGED <<AbstractSession, isRecording, isPrebuffering, AbstractOpen, Waiting,
                  AbstractLooping, AbstractLoading>>
  BY <1>0, <1>1
     DEF AbstractSession, AbstractOpen, Waiting, AbstractLooping, AbstractLoading, fields,
         audio, model
<1> QED BY <1>2, <1>3, StateKept

\* The next run of the service is the fresh run of the recogniser.
LEMMA NextRunIs ==
    ASSUME RefInv, NEW r \in Run, FreshRun(r)
    PROVE  /\ Service!NextRun(AbstractState) = r
           /\ AbstractState.runs[r].st = "none" /\ r \in Service!Run
<1>1. AnswerInv
  BY DEF RefInv
<1>2. \A x \in Run : AbstractState.runs[x].st = "none" <=> runs[x].pc = "none"
  BY <1>1, NoneIsNew, StateParts, RunParts
<1>3. Service!Run = Run /\ Run \subseteq Nat
  BY DEF Service!Run, Run
<1> DEFINE First(q) == /\ AbstractState.runs[q].st = "none"
                       /\ \A x \in Run : x < q => AbstractState.runs[x].st # "none"
<1>4. First(r)
  BY <1>2 DEF FreshRun
<1>5. \A q \in Run : First(q) => q = r
  BY <1>3, <1>4
<1>6. Service!NextRun(AbstractState) = CHOOSE q \in Run : First(q)
  BY <1>3 DEF Service!NextRun
<1> HIDE DEF First
<1>7. (CHOOSE q \in Run : First(q)) = r
  BY <1>4, <1>5
<1> QED BY <1>2, <1>3, <1>6, <1>7 DEF FreshRun

LEMMA FinishSim ==
    ASSUME RefInv, TypeOK', main = "idle", isRecording, NEW STATE ls, OnFinishRecording(ls),
           \A m \in Mic : (ls[m].pc = "done") = (loops[m].pc = "done")
    PROVE  Service!AutoFinish
<1>0. TypeOK /\ recorder \in Mic /\ recorderJob \in Mic
  BY DEF RefInv, LiveInv, TypeInv, RecordingInv
<1>1. PICK r \in Run : /\ FreshRun(r) /\ AbstractRun(r)' = Begun
                       /\ \A x \in Run : x # r => AbstractRun(x)' = AbstractRun(x)
  BY FinishRuns
<1>2. AbstractRuns' = [AbstractRuns EXCEPT ![r] = Begun]
  BY <1>1 DEF AbstractRuns
<1>3. /\ Service!NextRun(AbstractState) = r
      /\ AbstractState.runs[r].st = "none" /\ r \in Service!Run
  BY <1>1, NextRunIs
<1>4. isRecording' = FALSE /\ AbstractOpen' = FALSE /\ AbstractLooping' = AbstractLooping
  BY <1>0 DEF OnFinishRecording, AbstractOpen, SetMic, AbstractLooping
<1>5. UNCHANGED <<AbstractSession, isPrebuffering, Waiting, AbstractLoading>>
  BY DEF OnFinishRecording, AbstractSession, Waiting, AbstractLoading
<1>6. AbstractState' = [AbstractState EXCEPT !.recording = FALSE, !.open = FALSE,
                                             !.runs = [AbstractRuns EXCEPT ![r] = Begun]]
  <2> DEFINE A == [AbstractState EXCEPT !.recording = isRecording']
             B == [A EXCEPT !.open = AbstractOpen']
  <2>1. A = [session |-> AbstractSession, recording |-> isRecording',
             prebuffering |-> isPrebuffering, open |-> AbstractOpen,
             looping |-> AbstractLooping, restarts |-> Cardinality(Waiting),
             loading |-> AbstractLoading, runs |-> AbstractRuns]
    BY DEF AbstractState
  <2> HIDE DEF A
  <2>2. B = [session |-> AbstractSession, recording |-> isRecording',
             prebuffering |-> isPrebuffering, open |-> AbstractOpen',
             looping |-> AbstractLooping, restarts |-> Cardinality(Waiting),
             loading |-> AbstractLoading, runs |-> AbstractRuns]
    BY <2>1
  <2> HIDE DEF B
  <2>3. AbstractState' = [B EXCEPT !.runs = AbstractRuns']
    BY <1>4, <1>5, <2>2 DEF AbstractState
  <2>4. A = [AbstractState EXCEPT !.recording = FALSE]
    BY <1>4 DEF A
  <2>5. B = [A EXCEPT !.open = FALSE]
    BY <1>4 DEF B
  <2> QED BY <1>2, <2>3, <2>4, <2>5
<1>7. AbstractSession = sessionId
  BY DEF AbstractSession
<1>8. AbstractState' = Service!Finished(AbstractState)
  BY <1>3, <1>6, <1>7, StateParts DEF Service!Finished, Begun
<1> QED BY <1>3, <1>8, StateParts DEF Service!AutoFinish, Service!CanFinish

LEMMA SimFinish ==
    ASSUME RefInv, TypeOK', Finish PROVE [Service!Next]_AbstractState
<1>1. \A m \in Mic : CancelLoop(recorderJob)[m].pc = loops[m].pc
  BY CancelLoopKeeps DEF RefInv, LiveInv, TypeInv
<1> QED BY <1>1, FinishSim DEF Finish, Service!Next

LEMMA SimLoopFinish ==
    ASSUME RefInv, TypeOK', NEW m \in Mic, LoopFinish(m)
    PROVE  [Service!Next]_AbstractState
<1>0. TypeOK /\ main = "idle" /\ loops[m].pc = "toMain"
  BY DEF RefInv, LiveInv, TypeInv, LoopFinish
<1>1. CASE isRecording /\ ~loops[m].cancelled
  <2> DEFINE ls == [CancelLoop(recorderJob) EXCEPT ![m].pc = "ended"]
  <2>1. CancelLoop(recorderJob) \in [Mic -> LoopRecord]
    BY <1>0, CancelLoopType
  <2>2. \A x \in Mic : (ls[x].pc = "done") = (loops[x].pc = "done")
    BY <1>0, <2>1, CancelLoopKeeps DEF LoopRecord
  <2>3. OnFinishRecording(ls)
    BY <1>1 DEF LoopFinish
  <2> HIDE DEF ls
  <2> QED BY <1>0, <1>1, <2>2, <2>3, FinishSim DEF Service!Next
<1>2. CASE ~(isRecording /\ ~loops[m].cancelled)
  <2>1. LoopOnly /\ loops' = [loops EXCEPT ![m].pc = "ended"]
    BY <1>2 DEF LoopFinish
  <2>2. loops'[m].pc = "ended" /\ loops' = [loops EXCEPT ![m].pc = loops'[m].pc]
    BY <1>0, <2>1 DEF TypeOK, LoopRecord
  <2> QED BY <1>0, <2>1, <2>2, SimLoop
<1> QED BY <1>1, <1>2

LEMMA SimPrebuffering ==
    ASSUME RefInv, TypeOK', StartPrebuffering PROVE [Service!Next]_AbstractState
<1>0. TypeOK
  BY DEF RefInv, LiveInv, TypeInv
<1>1. AbstractRuns' = AbstractRuns
  BY <1>0, ImagesKept DEF StartPrebuffering, model, results
<1>2. UNCHANGED <<AbstractSession, isRecording, Waiting, AbstractLooping, AbstractLoading>>
  BY DEF StartPrebuffering, AbstractSession, Waiting, AbstractLooping, AbstractLoading, model
<1>3. AbstractOpen' = TRUE /\ isPrebuffering' = TRUE
  BY <1>0, MicNone DEF StartPrebuffering, AbstractOpen, TypeOK
<1>4. AbstractState' = [AbstractState EXCEPT !.prebuffering = TRUE, !.open = TRUE]
  <2> DEFINE A == [AbstractState EXCEPT !.prebuffering = isPrebuffering']
  <2>1. A = [session |-> AbstractSession, recording |-> isRecording,
             prebuffering |-> isPrebuffering', open |-> AbstractOpen,
             looping |-> AbstractLooping, restarts |-> Cardinality(Waiting),
             loading |-> AbstractLoading, runs |-> AbstractRuns]
    BY DEF AbstractState
  <2> HIDE DEF A
  <2>2. AbstractState' = [A EXCEPT !.open = AbstractOpen']
    BY <1>1, <1>2, <2>1 DEF AbstractState
  <2>3. A = [AbstractState EXCEPT !.prebuffering = TRUE]
    BY <1>3 DEF A
  <2> QED BY <1>3, <2>2, <2>3
<1>5. ~isPrebuffering /\ ~isRecording
  BY DEF StartPrebuffering
<1> QED BY <1>4, <1>5, StateParts DEF Service!Next, Service!Calls, Service!Prebuffered

\* createRecorderAndJob records at once or counts one more restart.
Creates ==
    /\ AbstractLooping' = TRUE
    /\ isRecording' = ~AbstractLooping /\ AbstractOpen' = ~AbstractLooping
    /\ IF AbstractLooping
       THEN /\ Cardinality(Waiting') = Cardinality(Waiting) + 1
            /\ Cardinality(Waiting) < MaxMic * MaxRestart
       ELSE Waiting' = Waiting

LEMMA CreateCreates ==
    ASSUME RefInv, recorderJob # None => restarts[recorderJob] < MaxRestart,
           NEW STATE ms, NEW STATE rec, rec \in {recorder, None},
           CreateRecorderAndJob(ms, rec)
    PROVE  Creates
<1>0. TypeOK /\ None \notin Mic
  BY MicNone DEF RefInv, LiveInv, TypeInv
<1>1. CASE /\ recorderJob # None /\ loops[recorderJob].pc # "done"
           /\ isRecording' = FALSE /\ recorder' = rec
           /\ loops' = CancelLoop(recorderJob)
           /\ restarts' = [restarts EXCEPT ![recorderJob] = @ + 1]
           /\ UNCHANGED <<recorderJob, buffer>>
  <2>1. recorderJob \in Mic /\ restarts[recorderJob] < MaxRestart /\ AbstractLooping = TRUE
    BY <1>0, <1>1 DEF TypeOK, AbstractLooping
  <2>2. AbstractLooping' = TRUE
    BY <1>0, <1>1, <2>1, CancelLoopKeeps DEF AbstractLooping
  <2>3. micState' = SetMic(ms, rec, "stopped") /\ recorder' = rec
    BY <1>1, MicNone DEF CreateRecorderAndJob
  <2>4. AbstractOpen' = FALSE
    BY <1>0, <2>3 DEF AbstractOpen, SetMic, TypeOK
  <2> QED BY <1>0, <1>1, <2>1, <2>2, <2>4, WaitingMore DEF Creates
<1>2. CASE /\ recorderJob = None \/ loops[recorderJob].pc = "done"
           /\ Task(SetMic(ms, rec, "stopped"), rec, CancelLoop(recorderJob))
           /\ UNCHANGED restarts
  <2>1. PICK m \in Mic : TaskRan(m, CancelLoop(recorderJob))
    BY <1>0, <1>2, TaskRecords, CancelLoopType
  <2>2. AbstractLooping = FALSE /\ Waiting' = Waiting
    BY <1>2 DEF AbstractLooping, Waiting
  <2>3. AbstractLooping' = TRUE /\ AbstractOpen' = TRUE /\ isRecording' = TRUE
    BY <1>0, <2>1 DEF AbstractLooping, AbstractOpen, TaskRan
  <2> QED BY <2>2, <2>3 DEF Creates
<1> QED BY <1>1, <1>2, CreateCases

\* Two states of the service with the same fields are the same.
Field == {"session", "recording", "prebuffering", "open", "looping", "restarts",
          "loading", "runs"}
IsState(s) == s = [f \in Field |-> s[f]]

SameRest(s, t) ==
    /\ s.session = t.session /\ s.recording = t.recording
    /\ s.prebuffering = t.prebuffering /\ s.open = t.open /\ s.looping = t.looping
    /\ s.restarts = t.restarts /\ s.loading = t.loading

LEMMA SameState ==
    ASSUME NEW s, NEW t, IsState(s), IsState(t), SameRest(s, t), s.runs = t.runs
    PROVE  s = t
BY DEF IsState, Field, SameRest

LEMMA MappedIsState == IsState(AbstractState) /\ IsState(AbstractState')
BY DEF AbstractState, IsState, Field

LEMMA PrimedParts ==
    /\ AbstractState'.session = AbstractSession' /\ AbstractState'.recording = isRecording'
    /\ AbstractState'.prebuffering = isPrebuffering' /\ AbstractState'.open = AbstractOpen'
    /\ AbstractState'.looping = AbstractLooping'
    /\ AbstractState'.restarts = Cardinality(Waiting')
    /\ AbstractState'.loading = AbstractLoading' /\ AbstractState'.runs = AbstractRuns'
BY DEF AbstractState

\* What the calls of the service make of each field.
LEMMA RecordingFields ==
    ASSUME NEW s, IsState(s)
    PROVE  LET t == Service!Recording(s)
           IN /\ IsState(t) /\ t.session = s.session /\ t.prebuffering = s.prebuffering
              /\ t.loading = s.loading /\ t.runs = s.runs
              /\ s.looping => /\ t.recording = FALSE /\ t.open = FALSE
                              /\ t.looping = s.looping /\ t.restarts = s.restarts + 1
              /\ ~s.looping => /\ t.recording = TRUE /\ t.open = TRUE
                               /\ t.looping = TRUE /\ t.restarts = s.restarts
BY DEF Service!Recording, IsState, Field

LEMMA StartedFields ==
    ASSUME NEW s, IsState(s)
    PROVE  LET t == Service!Started(s)
           IN /\ IsState(t) /\ t.session = s.session + 1 /\ t.prebuffering = FALSE
              /\ t.loading = TRUE /\ t.runs = Service!CancelledRuns(s)
              /\ s.looping => /\ t.recording = FALSE /\ t.open = FALSE
                              /\ t.looping = s.looping /\ t.restarts = s.restarts + 1
              /\ ~s.looping => /\ t.recording = TRUE /\ t.open = TRUE
                               /\ t.looping = TRUE /\ t.restarts = s.restarts
<1> DEFINE u == [s EXCEPT !.session = @ + 1, !.prebuffering = FALSE,
                          !.loading = TRUE, !.runs = Service!CancelledRuns(s)]
<1>1. Service!Started(s) = Service!Recording(u)
  BY DEF Service!Started
<1>2. /\ IsState(u) /\ u.session = s.session + 1 /\ u.prebuffering = FALSE
      /\ u.loading = TRUE /\ u.runs = Service!CancelledRuns(s)
      /\ u.looping = s.looping /\ u.restarts = s.restarts
  BY DEF IsState, Field
<1> HIDE DEF u
<1> QED BY <1>1, <1>2, RecordingFields

LEMMA ResetFields ==
    ASSUME NEW s, IsState(s)
    PROVE  LET t == Service!WasReset(s)
           IN /\ IsState(t) /\ t.session = s.session + 1 /\ t.recording = FALSE
              /\ t.prebuffering = FALSE /\ t.open = FALSE /\ t.looping = s.looping
              /\ t.restarts = s.restarts /\ t.loading = FALSE
              /\ t.runs = Service!CancelledRuns(s)
BY DEF Service!WasReset, IsState, Field

LEMMA MovedFields ==
    ASSUME NEW s, IsState(s), NEW r, NEW st, NEW sid
    PROVE  LET t == Service!Moved(s, r, st, sid)
           IN /\ IsState(t) /\ SameRest(t, s)
              /\ t.runs = [s.runs EXCEPT ![r] = [st |-> st, born |-> s.runs[r].born,
                                                 sid |-> sid]]
BY DEF Service!Moved, IsState, Field, SameRest

\* setBluetooth, and the coroutine that records once the old loop is done.
LEMMA SimBluetooth ==
    ASSUME RefInv, TypeOK', SetBluetooth PROVE [Service!Next]_AbstractState
<1>0. TypeOK
  BY DEF RefInv, LiveInv, TypeInv
<1>1. Creates
  BY CreateCreates DEF SetBluetooth, MayOpen
<1>2. AbstractRuns' = AbstractRuns
  BY <1>0, ImagesKept DEF SetBluetooth, model, results
<1>3. UNCHANGED <<AbstractSession, isPrebuffering, AbstractLoading>>
  BY DEF SetBluetooth, AbstractSession, AbstractLoading, model
<1>4. AbstractState' = Service!Recording(AbstractState)
  <2> DEFINE t == Service!Recording(AbstractState)
  <2>1. /\ IsState(t) /\ t.session = AbstractSession /\ t.prebuffering = isPrebuffering
        /\ t.loading = AbstractLoading /\ t.runs = AbstractRuns
        /\ AbstractLooping => /\ t.recording = FALSE /\ t.open = FALSE
                              /\ t.looping = AbstractLooping
                              /\ t.restarts = Cardinality(Waiting) + 1
        /\ ~AbstractLooping => /\ t.recording = TRUE /\ t.open = TRUE
                               /\ t.looping = TRUE /\ t.restarts = Cardinality(Waiting)
    BY MappedIsState, StateParts, RecordingFields
  <2> HIDE DEF t
  <2>2. SameRest(AbstractState', t)
    <3>1. CASE AbstractLooping
      BY <1>1, <1>3, <2>1, <3>1, PrimedParts DEF SameRest, Creates
    <3>2. CASE ~AbstractLooping
      BY <1>1, <1>3, <2>1, <3>2, PrimedParts DEF SameRest, Creates
    <3> QED BY <3>1, <3>2
  <2>3. AbstractState' = t
    BY <1>2, <2>1, <2>2, MappedIsState, PrimedParts, SameState
  <2> QED BY <2>3 DEF t
<1>5. AbstractState.recording \/ AbstractState.restarts > 0
  <2>1. CASE isRecording
    BY <2>1, StateParts
  <2>2. ASSUME NEW m \in Mic, restarts[m] > 0 PROVE Cardinality(Waiting) > 0
    <3>1. <<m, 1>> \in Waiting
      BY <1>0, <2>2, BoundAssumption DEF Waiting, TypeOK
    <3> QED BY <3>1, WaitingBound, FS_EmptySet
  <2> QED BY <2>1, <2>2, StateParts DEF SetBluetooth
<1>6. Service!CanRestart(AbstractState)
  BY <1>1, StateParts DEF Service!CanRestart, Creates
<1> QED BY <1>4, <1>5, <1>6 DEF Service!Next, Service!Calls

LEMMA SimRestart ==
    ASSUME MaxRestart = 1, RefInv, TypeOK', NEW m \in Mic, Restart(m)
    PROVE  [Service!Next]_AbstractState
<1>0. TypeOK
  BY DEF RefInv, LiveInv, TypeInv
<1>1. restarts[m] = 1 /\ restarts' = [restarts EXCEPT ![m] = @ - 1]
  BY DEF RefInv, LiveInv, OneRestart, Restart
<1>2. /\ Cardinality(Waiting') = Cardinality(Waiting) - 1
      /\ Cardinality(Waiting) > 0
  <2>1. restarts[m] \in 1 .. MaxRestart
    BY <1>1
  <2> QED BY <1>0, <1>1, <2>1, WaitingLess
<1>3. AbstractLooping' = TRUE /\ AbstractOpen' = TRUE /\ isRecording' = TRUE
  <2>1. PICK x \in Mic : TaskRan(x, loops)
    BY <1>0, TaskRecords DEF Restart, TypeOK
  <2> QED BY <1>0, <2>1, MicNone DEF AbstractLooping, AbstractOpen, TaskRan
<1>4. UNCHANGED <<AbstractSession, isPrebuffering, AbstractLoading>>
  BY DEF Restart, AbstractSession, AbstractLoading, model
<1>5. AbstractRuns' = AbstractRuns
  BY <1>0, ImagesKept DEF Restart, model, results
<1> DEFINE t == [AbstractState EXCEPT !.restarts = @ - 1, !.recording = TRUE,
                                      !.open = TRUE, !.looping = TRUE]
<1>6. /\ IsState(t) /\ t.session = AbstractState.session
      /\ t.prebuffering = AbstractState.prebuffering
      /\ t.loading = AbstractState.loading /\ t.runs = AbstractState.runs
      /\ t.recording = TRUE /\ t.open = TRUE /\ t.looping = TRUE
      /\ t.restarts = AbstractState.restarts - 1
  BY MappedIsState DEF IsState, Field
<1>7. Service!Restart => [Service!Next]_AbstractState
  BY DEF Service!Next
<1>8. t = AbstractState' => Service!Restart
  BY <1>2, StateParts DEF Service!Restart
<1> HIDE DEF t
<1>9. SameRest(AbstractState', t)
  BY <1>2, <1>3, <1>4, <1>6, StateParts, PrimedParts DEF SameRest
<1> QED BY <1>5, <1>6, <1>7, <1>8, <1>9, MappedIsState, StateParts, PrimedParts, SameState

\* The runs after the rest of a handler, as the service has them.
PostsLate(l) ==
    [Service!CancelledRuns(AbstractState) EXCEPT ![l] =
        [st |-> "posted", born |-> Service!CancelledRuns(AbstractState)[l].born,
         sid |-> sessionId]]

LEMMA LateRuns ==
    ASSUME RefInv, TypeOK', main # "idle", main' = "idle",
           UNCHANGED <<sessionId, posted, answers>>, runs' = CancelRun(modelJob)
    PROVE  \/ AbstractRuns' = Service!CancelledRuns(AbstractState)
           \/ \E l \in Service!Run : /\ AbstractState.runs[l].st = "running"
                                     /\ AbstractRuns' = PostsLate(l)
<1>1. Service!Run = Run
  BY DEF Service!Run, Run
<1>2. Service!CancelledRuns(AbstractState) = [r \in Run |-> OverIfRunning(r)]
  <2>1. ASSUME NEW r \in Run
        PROVE  (IF AbstractState.runs[r].st = "running"
                THEN [AbstractState.runs[r] EXCEPT !.st = "over"] ELSE AbstractState.runs[r])
               = OverIfRunning(r)
    <3>1. AbstractState.runs[r] = AbstractRun(r) /\ AbstractRun(r).st = AbstractStatus(r)
      BY StateParts, RunParts
    <3>2. AbstractStatus(r) = "running" => AbstractRun(r) = Image("running", r, 0)
      BY ImageOf
    <3> QED BY <3>1, <3>2 DEF OverIfRunning, Image
  <2> QED BY <1>1, <2>1 DEF Service!CancelledRuns
<1>3. AbstractRuns' = [r \in Run |-> AbstractRun(r)']
  BY DEF AbstractRuns
<1>4. CASE \A r \in Run : AbstractRun(r)' = OverIfRunning(r)
  BY <1>2, <1>3, <1>4
<1>5. ASSUME NEW l \in Run, AbstractStatus(l) = "running",
             AbstractRun(l)' = Image("posted", l, sessionId),
             \A r \in Run : r # l => AbstractRun(r)' = OverIfRunning(r)
      PROVE  /\ AbstractState.runs[l].st = "running"
             /\ AbstractRuns' = PostsLate(l)
  <2>1. AbstractState.runs[l].st = "running"
    BY <1>5, StateParts, RunParts
  <2>2. Service!CancelledRuns(AbstractState)[l].born = runs[l].born
    BY <1>2, <1>5 DEF OverIfRunning, Image
  <2>3. PostsLate(l) = [[r \in Run |-> OverIfRunning(r)] EXCEPT
                            ![l] = Image("posted", l, sessionId)]
    BY <1>2, <2>2 DEF PostsLate, Image
  <2> QED BY <1>3, <1>5, <2>1, <2>3
<1> QED BY <1>1, <1>4, <1>5, HandlerEndsRuns

LEMMA LateStep ==
    ASSUME NEW t, IsState(t), t.runs = Service!CancelledRuns(AbstractState),
           t.session = sessionId, SameRest(AbstractState', t),
           \/ AbstractRuns' = Service!CancelledRuns(AbstractState)
           \/ \E l \in Service!Run : /\ AbstractState.runs[l].st = "running"
                                     /\ AbstractRuns' = PostsLate(l)
    PROVE  AbstractState' \in Service!Late(AbstractState, t)
<1>1. CASE AbstractRuns' = Service!CancelledRuns(AbstractState)
  <2>1. AbstractState' = t
    BY <1>1, MappedIsState, PrimedParts, SameState
  <2> QED BY <2>1 DEF Service!Late
<1>2. ASSUME NEW l \in Service!Run, AbstractState.runs[l].st = "running",
             AbstractRuns' = PostsLate(l)
      PROVE  AbstractState' \in Service!Late(AbstractState, t)
  <2> DEFINE u == Service!Moved(t, l, "posted", t.session)
  <2>1. /\ IsState(u) /\ SameRest(u, t)
        /\ u.runs = [t.runs EXCEPT ![l] = [st |-> "posted", born |-> t.runs[l].born,
                                           sid |-> t.session]]
    BY MovedFields
  <2>2. u \in Service!Late(AbstractState, t)
    BY <1>2 DEF Service!Late
  <2> HIDE DEF u
  <2>3. u.runs = PostsLate(l)
    BY <2>1 DEF PostsLate
  <2>4. SameRest(AbstractState', u)
    BY <2>1 DEF SameRest
  <2>5. AbstractState' = u
    BY <1>2, <2>1, <2>3, <2>4, MappedIsState, PrimedParts, SameState
  <2> QED BY <2>2, <2>5
<1> QED BY <1>1, <1>2

\* The session that a handler ended, as the service counts it.
LEMMA SessionOfHandler ==
    ASSUME RefInv, main # "idle"
    PROVE  /\ AbstractState.session = sessionId - 1
           /\ AbstractState.session + 1 = sessionId
           /\ Service!CanEndSession(AbstractState)
<1>1. sessionId \in 0 .. MaxSession /\ MaxSession \in Nat
  BY BoundAssumption DEF RefInv, LiveInv, TypeInv, TypeOK, Session
<1>2. AbstractState.session = sessionId - 1
  BY StateParts DEF AbstractSession
<1> QED BY <1>1, <1>2 DEF Service!CanEndSession

LEMMA SimStart ==
    ASSUME MaxRestart = 1, RefInv, TypeOK', StartRecording
    PROVE  [Service!Next]_AbstractState
<1>0. TypeOK /\ main = "starting" /\ main' = "idle"
  BY DEF RefInv, LiveInv, TypeInv, StartRecording
<1>1. Creates
  <2>1. recorderJob # None => restarts[recorderJob] < MaxRestart
    BY <1>0 DEF RefInv, LiveInv, OneRestart, TypeOK
  <2>2. CASE isPrebuffering
    BY <2>1, <2>2, CreateCreates DEF StartRecording
  <2>3. CASE ~isPrebuffering
    BY <2>1, <2>3, CreateCreates DEF StartRecording
  <2> QED BY <2>2, <2>3
<1>2. \/ AbstractRuns' = Service!CancelledRuns(AbstractState)
      \/ \E l \in Service!Run : /\ AbstractState.runs[l].st = "running"
                                /\ AbstractRuns' = PostsLate(l)
  BY <1>0, LateRuns DEF StartRecording, results
<1>3. AbstractSession' = sessionId /\ isPrebuffering' = FALSE /\ AbstractLoading' = TRUE
  BY <1>0 DEF StartRecording, AbstractSession, AbstractLoading
<1> DEFINE t == Service!Started(AbstractState)
<1>4. /\ IsState(t) /\ t.session = sessionId /\ t.prebuffering = FALSE
      /\ t.loading = TRUE /\ t.runs = Service!CancelledRuns(AbstractState)
      /\ AbstractLooping => /\ t.recording = FALSE /\ t.open = FALSE
                            /\ t.looping = AbstractLooping
                            /\ t.restarts = Cardinality(Waiting) + 1
      /\ ~AbstractLooping => /\ t.recording = TRUE /\ t.open = TRUE
                             /\ t.looping = TRUE /\ t.restarts = Cardinality(Waiting)
  BY <1>0, SessionOfHandler, MappedIsState, StateParts, StartedFields
<1>5. Service!CanEndSession(AbstractState) /\ Service!CanRestart(AbstractState)
  BY <1>0, <1>1, SessionOfHandler, StateParts DEF Service!CanRestart, Creates
<1>6. AbstractState' \in Service!Late(AbstractState, t) => [Service!Next]_AbstractState
  BY <1>5 DEF Service!Next, Service!Calls
<1> HIDE DEF t
<1>7. SameRest(AbstractState', t)
  <2>1. CASE AbstractLooping
    BY <1>1, <1>3, <1>4, <2>1, PrimedParts DEF SameRest, Creates
  <2>2. CASE ~AbstractLooping
    BY <1>1, <1>3, <1>4, <2>2, PrimedParts DEF SameRest, Creates
  <2> QED BY <2>1, <2>2
<1> QED BY <1>2, <1>4, <1>6, <1>7, LateStep

LEMMA SimReset ==
    ASSUME RefInv, TypeOK', ResetRest PROVE [Service!Next]_AbstractState
<1>0. TypeOK /\ main # "idle" /\ main' = "idle"
  BY DEF RefInv, LiveInv, TypeInv, ResetRest
<1>1. \/ AbstractRuns' = Service!CancelledRuns(AbstractState)
      \/ \E l \in Service!Run : /\ AbstractState.runs[l].st = "running"
                                /\ AbstractRuns' = PostsLate(l)
  BY <1>0, LateRuns DEF ResetRest, results
<1>2. /\ AbstractSession' = sessionId /\ isRecording' = FALSE /\ isPrebuffering' = FALSE
      /\ AbstractOpen' = FALSE /\ AbstractLoading' = FALSE /\ Waiting' = Waiting
  BY <1>0 DEF ResetRest, AbstractSession, AbstractOpen, AbstractLoading, NoLoad, Waiting
<1>3. AbstractLooping' = AbstractLooping
  <2>1. recorderJob # None => CancelLoop(recorderJob)[recorderJob].pc = loops[recorderJob].pc
    BY <1>0, CancelLoopKeeps DEF TypeOK
  <2> QED BY <2>1 DEF ResetRest, AbstractLooping
<1> DEFINE t == Service!WasReset(AbstractState)
<1>4. /\ IsState(t) /\ t.session = sessionId /\ t.recording = FALSE
      /\ t.prebuffering = FALSE /\ t.open = FALSE /\ t.looping = AbstractLooping
      /\ t.restarts = Cardinality(Waiting) /\ t.loading = FALSE
      /\ t.runs = Service!CancelledRuns(AbstractState)
  BY <1>0, SessionOfHandler, MappedIsState, StateParts, ResetFields
<1>5. AbstractState' \in Service!Late(AbstractState, t) => [Service!Next]_AbstractState
  BY <1>0, SessionOfHandler DEF Service!Next, Service!Calls
<1> HIDE DEF t
<1>6. SameRest(AbstractState', t)
  BY <1>2, <1>3, <1>4, PrimedParts DEF SameRest
<1> QED BY <1>1, <1>4, <1>5, <1>6, LateStep

LEMMA SimStep ==
    ASSUME MaxRestart = 1, RefInv, [Next]_vars PROVE [Service!Next]_AbstractState
<1>0. TypeOK /\ TypeOK'
  BY TypeStep DEF RefInv, LiveInv, TypeInv
<1>1. CASE UNCHANGED vars
  <2>1. PartsKept
    BY <1>1 DEF PartsKept, AbstractSession, AbstractOpen, AbstractLooping, Waiting,
         AbstractLoading, vars, fields, audio, model
  <2>2. AbstractRuns' = AbstractRuns
    BY <1>0, <1>1, ImagesKept DEF vars, fields, audio, model, results
  <2> QED BY <2>1, <2>2, StateKept DEF PartsKept
<1>2. CASE UserNext
  BY <1>0, <1>2, SimBegin, SimFinish, SimPrebuffering, SimBluetooth DEF UserNext
<1>3. CASE MainNext
  BY <1>0, <1>3, SimStart, SimReset, SimBegin, SimRestart, SimLoopFinish, SimLoops, SimBlock
     DEF MainNext
<1>4. CASE LoadModel
  BY <1>0, <1>4, SimLoad
<1>5. ASSUME NEW m \in Mic, LoopNext(m) PROVE [Service!Next]_AbstractState
  BY <1>0, <1>5, SimLoops
<1>6. ASSUME NEW r \in Run, RunNext(r) PROVE [Service!Next]_AbstractState
  BY <1>0, <1>6, SimRun
<1> QED BY <1>1, <1>2, <1>3, <1>4, <1>5, <1>6 DEF Next

LEMMA SimInit == Init => AbstractState = Service!Idle
<1> SUFFICES ASSUME Init PROVE AbstractState = Service!Idle
  OBVIOUS
<1>1. Waiting = {}
  BY DEF Init, Waiting
<1>2. Cardinality(Waiting) = 0
  BY <1>1, FS_EmptySet
<1>3. /\ AbstractSession = 0 /\ AbstractOpen = FALSE /\ AbstractLooping = FALSE
      /\ AbstractLoading = FALSE /\ isRecording = FALSE /\ isPrebuffering = FALSE
  BY DEF Init, AbstractSession, AbstractOpen, AbstractLooping, AbstractLoading, NoLoad
<1>4. AbstractRuns = [r \in Service!Run |-> Service!NoRun]
  <2>1. ASSUME NEW r \in Run PROVE AbstractRun(r) = Service!NoRun
    <3>1. answers[r] = 0 /\ BlockOf(r) = {} /\ runs[r].pc = "none" /\ runs[r].born = 0
      BY <2>1 DEF Init, BlockOf, NoRun
    <3>2. AbstractStatus(r) = "none"
      BY <3>1 DEF AbstractStatus
    <3> QED BY <3>1, <3>2 DEF AbstractRun, Service!NoRun
  <2> QED BY <2>1 DEF AbstractRuns, Service!Run, Run
<1> QED BY <1>2, <1>3, <1>4 DEF AbstractState, Service!Idle

\* Every step of the recogniser is one of the service that the voice windows
\* use, or shows nothing there.
THEOREM RecognizerImplementsService ==
    Groq # "single" /\ MaxRestart = 1 => (Spec => ImplementsService)
<1> SUFFICES ASSUME Groq # "single", MaxRestart = 1 PROVE Spec => ImplementsService
  OBVIOUS
<1>1. RefInv /\ [Next]_vars => RefInv'
  BY RefStep
<1>2. RefInv /\ [Next]_vars => [Service!Next]_AbstractState
  BY SimStep
<1> QED BY <1>1, <1>2, RefInit, SimInit, PTL DEF Spec, ImplementsService, Service!Spec
=============================================================================
