------------------------- MODULE SuggestionPipeline -------------------------
(***************************************************************************)
(* The way from a key to the suggestions and to the correction a separator *)
(* commits: GeneralIME.updateSuggestions and ensureSuggestionsCompleted,   *)
(* and what InputLogic, WordComposer and InputLogicHandler do around them. *)
(*                                                                         *)
(* Three threads.  The main thread handles keys, cursor moves and picks;   *)
(* a handler is cut where the composing word has changed and the next      *)
(* request is not made yet, and where it waits.  `dictionaryScope', which  *)
(* runs one job at a time, computes; it shows the strip, and sets the      *)
(* correction and the word of a gesture, from its own thread.  The         *)
(* handler thread makes the requests of gestures.                          *)
(*                                                                         *)
(* What the composer holds is a number: every new content gets the next    *)
(* one, and suggestions are known by the content they were computed from.  *)
(* 0 is no composing word; its suggestions are predictions.                *)
(***************************************************************************)
EXTENDS Integers, Sequences, SequencesExt

CONSTANTS MaxWord,      \* bound on the contents of the composer
          MaxSeq,       \* bound on the requests
          Bigram,       \* mBigramPredictionEnabled
          None

VARIABLES
    composer,    \* mWordComposer: its content, cursor, batch mode, correction
    fresh,       \* the last content given out
    strip,       \* mSuggestedWords, and what the strip shows
    sequenceId,
    completed,   \* sequenceIdCompleted
    jobs,        \* the state of every job of updateSuggestions and ensure...
    current,     \* updateSuggestionJob
    lane,        \* jobs dispatched to dictionaryScope, the first one running
    running,     \* where the first one is, and what it read
    inbox,       \* messages of InputLogicHandler's thread
    gesture,     \* the content of the gesture in progress, or None
    main,        \* where the main thread is in a handler
    committed,   \* history: the last word a separator committed
    raced        \* history: a result overtook the handler it came in on

vars == <<composer, fresh, strip, sequenceId, completed, jobs, current, lane,
          running, inbox, gesture, main, committed, raced>>

Words  == 1 .. MaxWord
Seqs   == 1 .. MaxSeq
Shown  == 0 .. MaxWord \cup {None}
Styles == {"none", "typing", "update", "tail"}
Kinds  == {"update", "ensure", "again"}
Jobs   == Seqs \X Kinds

ASSUME PipelineAssumption ==
    /\ MaxWord \in Nat \ {0} /\ MaxSeq \in Nat \ {0}
    /\ Bigram \in BOOLEAN
    /\ None \notin (0 .. MaxWord) \cup Jobs

Seq_(id)  == id[1]
Kind(id)  == id[2]

NoRun == [at |-> "idle", res |-> 0]
Idle  == [at |-> "idle"]

SuggestTypeOK ==
    /\ composer \in [word : 0 .. MaxWord, mid : BOOLEAN, batch : BOOLEAN,
                     input : 0 .. MaxWord, auto : Shown]
    /\ fresh \in 0 .. MaxWord
    /\ strip \in Shown
    /\ sequenceId \in 0 .. MaxSeq /\ completed \in 0 .. sequenceId
    /\ jobs \in [Jobs -> [st : {"none", "posted", "delayed", "queued", "over"},
                          style : Styles]]
    /\ current \in Jobs \cup {None}
    /\ lane \in Seq(Jobs) /\ IsInjective(lane)
    /\ ToSet(lane) = {id \in Jobs : jobs[id].st = "queued"}
    /\ running \in [at : {"idle", "read", "test", "show", "apply", "done"},
                    res : Shown]
    /\ running.at # "idle" => lane # <<>>
    /\ inbox \in Seq({"update", "tail"})
    /\ gesture \in Words \cup {None}
    /\ committed \in [typed : 0 .. MaxWord, auto : Shown,
                      batch : BOOLEAN, raced : BOOLEAN]
    /\ raced \in BOOLEAN

NoJob == [st |-> "none", style |-> "none"]
Ended == [st |-> "over", style |-> "none"]

Init ==
    /\ composer = [word |-> 0, mid |-> FALSE, batch |-> FALSE, input |-> 0,
                   auto |-> None]
    /\ fresh = 0 /\ strip = None
    /\ sequenceId = 0 /\ completed = 0
    /\ jobs = [id \in Jobs |-> NoJob] /\ current = None
    /\ lane = <<>> /\ running = NoRun
    /\ inbox = <<>> /\ gesture = None
    /\ main = Idle
    /\ committed = [typed |-> 0, auto |-> None, batch |-> FALSE, raced |-> FALSE]
    /\ raced = FALSE

-----------------------------------------------------------------------------
(* The composer.                                                           *)

(* reset, commitWord: nothing is composed.                                 *)
Cleared == [composer EXCEPT !.word = 0, !.mid = FALSE, !.batch = FALSE,
                            !.auto = None]

(* applyProcessedEvent, setComposingWord: a new content w, or none (0).    *)
Composing(w, m) == [Cleared EXCEPT !.word = w, !.mid = m /\ w # 0]

(* The contents a key can leave: a new one, or none.                       *)
Contents == {0, fresh + 1}

Compose(w, m) ==
    /\ composer' = Composing(w, m)
    /\ fresh' = IF w = 0 THEN fresh ELSE w
    /\ raced' = FALSE

(* Bounds: there is room for a content and a request more.                 *)
MoreSeq == sequenceId + Len(inbox) < MaxSeq
Room    == fresh < MaxWord /\ MoreSeq

-----------------------------------------------------------------------------
(* Requests.                                                               *)

(* Job.cancel(): a job that is not yet on dictionaryScope never gets there *)
(* (withContext(NonCancellable)), and one of ensureSuggestionsCompleted    *)
(* that has not begun is dropped by the dispatcher.                        *)
Stoppable(id) ==
    \/ jobs[id].st \in {"posted", "delayed"}
    \/ /\ Kind(id) # "update" /\ jobs[id].st = "queued"
       /\ ~(lane[1] = id /\ running.at # "idle")

AfterCancel ==
    IF current # None /\ Stoppable(current)
    THEN [jobs EXCEPT ![current] = Ended] ELSE jobs

(* Faulty variant: a job cancelled in the queue is still run.              *)
LaneKeepsCancelled == lane

LaneAfterCancel ==
    IF current \in ToSet(lane) /\ Stoppable(current)
    THEN RemoveAt(lane, CHOOSE i \in DOMAIN lane : lane[i] = current) ELSE lane

(* updateSuggestions beyond its early returns: a job with the next number. *)
(* On the main thread its body runs at once, up to the delay of a typed    *)
(* key; from the handler thread it is posted to the main looper.           *)
Launch(style, posted) ==
    LET id == <<sequenceId + 1, "update">>
        st == IF posted THEN "posted"
              ELSE IF style = "typing" THEN "delayed" ELSE "queued"
    IN  /\ sequenceId' = sequenceId + 1
        /\ jobs' = [AfterCancel EXCEPT ![id] = [st |-> st, style |-> style]]
        /\ lane' = IF st = "queued" THEN Append(LaneAfterCancel, id)
                   ELSE LaneAfterCancel
        /\ current' = id

(* updateSuggestions on the main thread, the last part of a handler.       *)
Request ==
    /\ main.at = "request"
    /\ main' = Idle
    /\ IF composer.word = 0 /\ ~Bigram
       THEN /\ strip' = None
            /\ jobs' = AfterCancel /\ lane' = LaneAfterCancel
            /\ UNCHANGED <<sequenceId, current>>
       ELSE /\ Launch(main.style, FALSE)
            /\ UNCHANGED strip
    /\ UNCHANGED <<composer, fresh, completed, running, inbox, gesture,
                   committed, raced>>

(* The job the main thread waits for will not show its result any more     *)
(* when another request is made now: it is cancelled, or, running, found   *)
(* late by the test.                                                       *)
Outrun(id) ==
    \/ Stoppable(id)
    \/ lane # <<>> /\ Head(lane) = id /\ running.at \in {"read", "test"}

(* InputLogicHandler.handleMessage, on its own thread.                     *)
HandleMessage ==
    /\ inbox # <<>>
    /\ inbox' = Tail(inbox)
    /\ Launch(Head(inbox), TRUE)
    /\ raced' = \/ raced
                \/ main.at = "wait" /\ current = main.job /\ Outrun(current)
    /\ UNCHANGED <<composer, fresh, strip, completed, running, gesture, main,
                   committed>>

(* A posted body, and one whose delay is over, continue on the main        *)
(* looper, which hands them to dictionaryScope.                            *)
Dispatch(id) ==
    /\ main.at = "idle"
    /\ jobs[id].st \in {"posted", "delayed"}
    /\ jobs' = [jobs EXCEPT ![id].st = "queued"]
    /\ lane' = Append(lane, id)
    /\ UNCHANGED <<composer, fresh, strip, sequenceId, completed, current,
                   running, inbox, gesture, main, committed, raced>>

-----------------------------------------------------------------------------
(* dictionaryScope.  computationMutex is never contended: one job at a     *)
(* time runs, and none suspends while it holds the mutex.                  *)

(* Faulty variant: the request's own number counts as a later one.         *)
SuperfluousOffByOne(id) ==
    IF Kind(id) = "update" THEN sequenceId >= Seq_(id) ELSE completed >= Seq_(id)

(* The job takes itself off: sequenceId has moved on, or the number was    *)
(* completed by another.                                                   *)
Superfluous(id) ==
    IF Kind(id) = "update" THEN sequenceId > Seq_(id) ELSE completed >= Seq_(id)

Leave(id) ==
    /\ jobs' = [jobs EXCEPT ![id] = Ended]
    /\ lane' = Tail(lane)
    /\ running' = NoRun

Begin ==
    /\ running.at = "idle" /\ lane # <<>>
    /\ IF Superfluous(Head(lane))
       THEN Leave(Head(lane))
       ELSE running' = [NoRun EXCEPT !.at = "read"] /\ UNCHANGED <<jobs, lane>>
    /\ UNCHANGED <<composer, fresh, strip, sequenceId, completed, current,
                   inbox, gesture, main, committed, raced>>

(* getComposedDataSnapshot, and what is found: in batch mode the gesture   *)
(* is looked up.  A typed word is always among its own suggestions.        *)
Read ==
    /\ running.at = "read"
    /\ \E r \in IF composer.batch THEN {composer.input, None}
             ELSE IF composer.word = 0 THEN {0, None} ELSE {composer.word} :
          running' = [at |-> "test", res |-> r]
    /\ UNCHANGED <<composer, fresh, strip, sequenceId, completed, jobs, current,
                   lane, inbox, gesture, main, committed, raced>>

(* The test of onGetSuggestedWords, which lets old gestures pass.          *)
Late(id) == Seq_(id) < sequenceId /\ jobs[id].style # "tail"

Test ==
    /\ running.at = "test"
    /\ running' = [running EXCEPT !.at = IF Late(Head(lane)) THEN "done" ELSE "show"]
    /\ UNCHANGED <<composer, fresh, strip, sequenceId, completed, jobs, current,
                   lane, inbox, gesture, main, committed, raced>>

(* The main thread has cut the word at the cursor and is about to commit.  *)
Recorrecting == main.at \in {"ensure", "wait", "commit"} /\ main.cut

(* showSuggestionStrip and setSuggestedWords.  A gesture that is no word   *)
(* shows again what the strip holds.  Predictions bring an empty typed     *)
(* word as the correction; nothing at all leaves the correction.           *)
Show ==
    /\ running.at = "show"
    /\ LET style == jobs[Head(lane)].style
           w == IF running.res = None /\ style \in {"update", "tail"}
                THEN strip ELSE running.res
       IN  /\ running' = [at |-> IF style = "tail" THEN "apply" ELSE "done", res |-> w]
           /\ strip' = w
           /\ IF w = None
              THEN UNCHANGED <<composer, raced>>
              ELSE /\ composer' = [composer EXCEPT !.auto = w]
                   /\ raced' = (w # composer.word /\ (raced \/ Recorrecting))
    /\ UNCHANGED <<fresh, sequenceId, completed, jobs, current, lane, inbox,
                   gesture, main, committed>>

(* onUpdateTailBatchInputCompleted: the gesture's word is composed, in the *)
(* place of what is composed by now.  (The first of old predictions, which *)
(* a gesture that is no word would compose, is left out.)                  *)
Apply ==
    /\ running.at = "apply"
    /\ running' = [running EXCEPT !.at = "done"]
    /\ IF running.res \in {0, None}
       THEN UNCHANGED <<composer, raced>>
       ELSE /\ composer' = [Composing(running.res, FALSE) EXCEPT !.batch = TRUE]
            /\ raced' = FALSE
    /\ UNCHANGED <<fresh, strip, sequenceId, completed, jobs, current, lane,
                   inbox, gesture, main, committed>>

(* Faulty variant: the last number is marked, not the job's.               *)
CompleteLatest ==
    /\ running.at = "done"
    /\ completed' = sequenceId
    /\ Leave(Head(lane))
    /\ UNCHANGED <<composer, fresh, strip, sequenceId, current, inbox, gesture,
                   main, committed, raced>>

Complete ==
    /\ running.at = "done"
    /\ completed' = Seq_(Head(lane))
    /\ Leave(Head(lane))
    /\ UNCHANGED <<composer, fresh, strip, sequenceId, current, inbox, gesture,
                   main, committed, raced>>

Compute == Begin \/ Read \/ Test \/ Show \/ Apply \/ Complete

-----------------------------------------------------------------------------
(* The main thread.                                                        *)

(* A letter or a backspace.  In the middle of a word, or in batch mode,    *)
(* the composer is reset first, and with it the strip.                     *)
Edit ==
    /\ main.at = "idle" /\ gesture = None /\ Room
    /\ \E w \in Contents : Compose(w, FALSE)
    /\ strip' = IF composer.mid \/ composer.batch THEN None ELSE strip
    /\ main' = [at |-> "request", style |-> "typing"]
    /\ UNCHANGED <<sequenceId, completed, jobs, current, lane, running, inbox,
                   gesture, committed>>

(* resetEntireInputState and restartSuggestionsOnWordTouchedByCursor: the  *)
(* cursor is in no word, in one, or behind one, which is composed again;   *)
(* during a gesture none is.                                               *)
Restart ==
    /\ main.at = "idle" /\ Room
    /\ strip' = None
    /\ IF gesture = None
       THEN /\ \E w \in Contents, m \in BOOLEAN : Compose(w, m)
            /\ main' = [at |-> "request", style |-> "typing"]
       ELSE /\ Compose(0, FALSE)
            /\ UNCHANGED main
    /\ UNCHANGED <<sequenceId, completed, running, gesture, committed>>

(* onUpdateSelection.                                                      *)
Move == Restart /\ UNCHANGED <<jobs, current, lane, inbox>>

(* onFinishInput and onStartInput: another text field.                     *)
NewField ==
    /\ Restart
    /\ inbox' = <<>>
    /\ jobs' = AfterCancel /\ lane' = LaneAfterCancel
    /\ UNCHANGED current

(* onPickSuggestionManually: the suggestion is committed.                  *)
Pick ==
    /\ main.at = "idle" /\ strip # None /\ gesture = None /\ MoreSeq
    /\ composer' = Cleared /\ raced' = FALSE
    /\ main' = [at |-> "request", style |-> "none"]
    /\ UNCHANGED <<fresh, strip, sequenceId, completed, jobs, current, lane,
                   running, inbox, gesture, committed>>

(* A separator.  A word with the cursor in it is cut there first.          *)
Separator ==
    /\ main.at = "idle" /\ gesture = None /\ MoreSeq
    /\ IF composer.mid
       THEN fresh < MaxWord /\ \E w \in Contents :
              /\ Compose(w, FALSE)
              /\ strip' = None
              /\ main' = IF w = 0 THEN [at |-> "request", style |-> "typing"]
                         ELSE [at |-> "ensure", cut |-> TRUE, batch |-> FALSE]
       ELSE /\ main' = IF composer.word = 0 THEN [at |-> "request", style |-> "typing"]
                       ELSE [at |-> "ensure", cut |-> FALSE, batch |-> FALSE]
            /\ UNCHANGED <<composer, fresh, strip, raced>>
    /\ UNCHANGED <<sequenceId, completed, jobs, current, lane, running, inbox,
                   gesture, committed>>

(* ensureSuggestionsCompleted.  A second job for the same number may be    *)
(* made while the first one, given up by a separator, is still running.    *)
Ensure ==
    /\ main.at = "ensure"
    /\ IF completed >= sequenceId
       THEN /\ main' = [main EXCEPT !.at = "commit"]
            /\ UNCHANGED <<jobs, current, lane>>
       ELSE LET id == <<sequenceId, IF AfterCancel[<<sequenceId, "ensure">>].st = "queued"
                                    THEN "again" ELSE "ensure">>
            IN  /\ jobs' = [AfterCancel EXCEPT ![id] = [st |-> "queued", style |-> "typing"]]
                /\ lane' = Append(LaneAfterCancel, id)
                /\ current' = id
                /\ main' = [at |-> "wait", cut |-> main.cut, batch |-> main.batch, job |-> id]
    /\ UNCHANGED <<composer, fresh, strip, sequenceId, completed, running, inbox,
                   gesture, committed, raced>>

(* withTimeoutOrNull: the job has ended, or been cancelled; or it is late. *)
Waited ==
    /\ main.at = "wait"
    /\ \/ jobs[main.job].st = "over" /\ main' = [main EXCEPT !.at = "commit"]
       \/ jobs[main.job].st # "over" /\ main' = [main EXCEPT !.at = "giveUp"]
    /\ UNCHANGED <<composer, fresh, strip, sequenceId, completed, jobs, current,
                   lane, running, inbox, gesture, committed, raced>>

(* After the commit a separator asks for predictions, a gesture does not.  *)
AfterCommit == IF main.batch THEN Idle ELSE [at |-> "request", style |-> "typing"]

(* commitCurrentAutoCorrection: what the editor gets, and as typed if the  *)
(* suggestions were late.                                                  *)
Commit ==
    /\ main.at \in {"commit", "giveUp"}
    /\ committed' = [typed |-> composer.word,
                     auto  |-> IF main.at = "commit" THEN composer.auto ELSE None,
                     batch |-> composer.batch, raced |-> raced]
    /\ composer' = Cleared /\ raced' = FALSE
    /\ main' = AfterCommit
    /\ UNCHANGED <<fresh, strip, sequenceId, completed, jobs, current, lane,
                   running, inbox, gesture>>

-----------------------------------------------------------------------------
(* Gestures.                                                               *)

StartBatch ==
    /\ main.at = "idle" /\ gesture = None /\ Room
    /\ gesture' = fresh + 1 /\ fresh' = fresh + 1
    /\ strip' = None
    /\ IF composer.word # 0 /\ ~composer.mid
       THEN /\ main' = [at |-> "ensure", cut |-> FALSE, batch |-> TRUE]
            /\ UNCHANGED <<composer, raced>>
       ELSE /\ composer' = IF composer.mid THEN Cleared ELSE composer
            /\ raced' = FALSE
            /\ UNCHANGED main
    /\ UNCHANGED <<sequenceId, completed, jobs, current, lane, running, inbox,
                   committed>>

(* updateBatchInput: the pointers go to the composer, the request to the   *)
(* handler thread; the tail ends the gesture.                              *)
Batch(style) ==
    /\ main.at = "idle" /\ gesture # None
    /\ MoreSeq
    /\ composer' = [composer EXCEPT !.batch = TRUE, !.input = gesture]
    /\ inbox' = Append(inbox, style)
    /\ gesture' = IF style = "tail" THEN None ELSE gesture
    /\ UNCHANGED <<fresh, strip, sequenceId, completed, jobs, current, lane,
                   running, main, committed, raced>>

UpdateBatch == Batch("update")
EndBatch    == Batch("tail")

CancelBatch ==
    /\ main.at = "idle" /\ gesture # None
    /\ gesture' = None /\ strip' = None
    /\ UNCHANGED <<composer, fresh, sequenceId, completed, jobs, current, lane,
                   running, inbox, main, committed, raced>>

-----------------------------------------------------------------------------
(* requestSuggestionRefresh: the strip is read, then the numbers are.      *)

RefreshRead ==
    /\ main.at = "idle"
    /\ main' = [at |-> "refresh", words |-> strip]
    /\ UNCHANGED <<composer, fresh, strip, sequenceId, completed, jobs, current,
                   lane, running, inbox, gesture, committed, raced>>

RefreshShow ==
    /\ main.at = "refresh"
    /\ main' = Idle
    /\ IF completed < sequenceId \/ main.words = None
       THEN UNCHANGED <<composer, strip, raced>>
       ELSE /\ composer' = [composer EXCEPT !.auto = main.words]
            /\ strip' = main.words
            /\ raced' = (raced \/ main.words # strip)
    /\ UNCHANGED <<fresh, sequenceId, completed, jobs, current, lane, running,
                   inbox, gesture, committed>>

-----------------------------------------------------------------------------
Handlers ==
    \/ Edit \/ Move \/ NewField \/ Pick \/ Separator
    \/ StartBatch \/ UpdateBatch \/ EndBatch \/ CancelBatch
    \/ RefreshRead

(* What the main thread has begun it goes on with.                         *)
Continue == Request \/ Ensure \/ Waited \/ Commit \/ RefreshShow

Next ==
    \/ Handlers \/ Continue \/ HandleMessage \/ Compute
    \/ \E id \in Jobs : Dispatch(id)

Spec == Init /\ [][Next]_vars

(* The looper, the handler thread and dictionaryScope go on; the user need *)
(* not.                                                                    *)
FairSpec ==
    /\ Spec
    /\ WF_vars(Continue) /\ WF_vars(HandleMessage) /\ WF_vars(Compute)
    /\ SF_vars(\E id \in Jobs : Dispatch(id))

-----------------------------------------------------------------------------
(* A separator commits what was typed as it is, or with a correction       *)
(* computed from exactly that word, however the computation, the timeout   *)
(* and new requests fall; but for a result that overtakes a handler: one   *)
(* that comes in while a word is cut at the cursor, a refresh that shows   *)
(* what it read before, and a wait that a gesture's request outruns.        *)
SameWord == committed.auto \in {None, committed.typed}

CommitsOwnWord == SameWord \/ committed.batch \/ committed.raced

(* "It would be very strange if pressing space would commit a different    *)
(* word depending on how fast you press."                                  *)
SameHoweverFast == SameWord \/ committed.batch

(* A word that is typed, or taken up again, gets its suggestions, unless   *)
(* it is changed or committed before.                                      *)
StripCatchesUp ==
    \A w \in Words :
        composer.word = w /\ ~composer.batch
            ~> \/ strip = w \/ composer.word # w
               \/ composer.batch \/ raced
=============================================================================
