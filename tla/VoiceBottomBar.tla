--------------------------- MODULE VoiceBottomBar ---------------------------
(***************************************************************************)
(* The floating voice bar, VoiceInputBottomBarWindow, from the moment the  *)
(* user opens it until long after it is gone: its recogniser (svc, used    *)
(* through RecognizerService), its input transaction in IMEManager, and    *)
(* the coroutines it posts to the main thread.                             *)
(*                                                                         *)
(* Everything here runs on the main thread, one action at a time.  What    *)
(* makes it hard is that a handler reenters the window (close() calls      *)
(* cancel(), which calls cancelled()), that finished() commits in a later  *)
(* turn of the main looper, and that text fields and windows come and go   *)
(* in between.  Opening the bar again makes a new window with a new        *)
(* recogniser; this is the life of one of them.                            *)
(***************************************************************************)
EXTENDS RecognizerService, Sequences

CONSTANTS
    MaxField,     \* bound on the text fields that get the focus
    Prebuffer     \* whether "Pre-recording buffer duration" is above zero

ASSUME BarBounds == MaxField \in Nat \ {0} /\ Prebuffer \in BOOLEAN

VARIABLES
    ui,        \* the window object, with IMEManager's current transaction
    win,       \* UixManager's window: "voice" (this one), "other", "none"
    ready,     \* initJob: "running", "done"; "hung": see Close
    posted,    \* runs whose commit coroutine is on its way
    field,     \* the text field that last had the focus
    inInput,
    typed      \* history: [run, tx] of every text sent to an editor

bar == <<ui, win, ready, posted, field, inInput, typed>>
vars == <<svc, bar>>

NoTx == [id |-> 0, field |-> 0, born |-> 0]

(* listening, closing, requested, finished: isListening, closeAfterFinish, *)
(* finishRequested, wasFinished.  tx: inputTransaction, with the field and *)
(* the session it was made for.  current: the id of IMEManager's           *)
(* currentActionInputTransactionIME, 0 if none; a transaction that is no   *)
(* longer current is finished and ignores its caller.  made: ids used.     *)
(* hides: closeActionWindow blocks that cancelled() has launched.          *)
Init ==
    /\ svc = Idle
    /\ ui = [listening |-> FALSE, closing |-> FALSE, requested |-> FALSE,
             finished |-> FALSE, tx |-> NoTx, current |-> 0, made |-> 0,
             hides |-> 0]
    /\ win = "voice" /\ ready = "running" /\ posted = <<>>
    /\ field = 1 /\ inInput = TRUE
    /\ typed = {}

-----------------------------------------------------------------------------
(* The main thread's calls, as functions of ui and svc.                    *)

(* createInputTransaction; it ends the transaction that is current.        *)
WithTransaction(u, born) ==
    [u EXCEPT !.made = @ + 1, !.current = u.made + 1,
              !.tx = [id |-> u.made + 1, field |-> field, born |-> born]]

(* commit() or cancel() of u.tx, whose last act is endInputTransaction;    *)
(* the window then forgets it.                                             *)
Ended(u) == [u EXCEPT !.current = IF @ = u.tx.id THEN 0 ELSE @, !.tx = NoTx]

Prebuffering(s) == IF Prebuffer THEN Prebuffered(s) ELSE s

(* Faulty variant: a second recording keeps the first one's wasFinished.   *)
RecordingStartedKeepsFinished(u, session) ==
    IF u.listening THEN u
    ELSE [WithTransaction(u, session) EXCEPT !.listening = TRUE]

RecordingStarted(u, session) ==
    IF u.listening THEN u
    ELSE [WithTransaction(u, session) EXCEPT !.listening = TRUE,
                                             !.finished = FALSE]

(* Faulty variant: the window forgets the transaction without ending it.   *)
CancelledForgetsTransaction(u) ==
    [u EXCEPT !.tx = IF u.finished THEN @ ELSE NoTx,
              !.hides = IF u.closing THEN @ + 1 ELSE @,
              !.listening = FALSE, !.requested = FALSE, !.closing = FALSE]

(* cancelled(), which leaves a finished recording's transaction to its     *)
(* commit; it also calls startPrebuffering.                                *)
Cancelled(u) ==
    [IF u.finished THEN u ELSE Ended(u)
        EXCEPT !.hides = IF u.closing THEN @ + 1 ELSE @,
               !.listening = FALSE, !.requested = FALSE, !.closing = FALSE]

(* close(): while listening it asks for the text first, and cancels the    *)
(* second time; otherwise the transaction and the recogniser end.          *)
AsksForText(u) == u.listening /\ ~u.requested

(* Faulty variant: a window that waits for its text is left as it is.      *)
ClosedUiLeavesIdle(u) ==
    IF AsksForText(u) THEN [u EXCEPT !.requested = TRUE, !.closing = TRUE]
    ELSE IF u.listening THEN Cancelled([u EXCEPT !.closing = FALSE])
    ELSE u

ClosedUi(u) ==
    IF AsksForText(u) THEN [u EXCEPT !.requested = TRUE, !.closing = TRUE]
    ELSE IF u.listening THEN Cancelled([u EXCEPT !.closing = FALSE])
    ELSE IF ready = "done" THEN Cancelled(Ended(u))
    ELSE Ended(u)

ClosedSvc(u, s) ==
    IF AsksForText(u) THEN Finished(s)
    ELSE IF ready = "done" THEN Prebuffering(WasReset(s))
    ELSE s

(* closeActionWindow: the window's close() runs, and whatever it returns   *)
(* the window is gone.  u is the window object at the call.  While initJob *)
(* still runs, close() waits for it with runBlocking, and initJob needs    *)
(* the main thread to complete: the main thread hangs.                     *)
Close(u) ==
    /\ win' = "none"
    /\ IF win = "voice"
       THEN /\ CanEndSession(svc) /\ CanFinish(svc)
            /\ ui' = ClosedUi(u) /\ svc' \in Late(svc, ClosedSvc(u, svc))
            /\ ready' = IF ready = "running" /\ ~u.listening THEN "hung" ELSE ready
       ELSE ui' = u /\ UNCHANGED <<svc, ready>>

Runs == ready # "hung"

-----------------------------------------------------------------------------
(* The user.                                                               *)

(* initJob: the recogniser is made, reset and starts to prebuffer.         *)
InitJob ==
    /\ ready = "running" /\ CanEndSession(svc)
    /\ ready' = "done"
    /\ svc' = Prebuffering(WasReset(svc))
    /\ UNCHANGED <<ui, win, posted, field, inInput, typed>>

MicStop ==
    /\ win = "voice" /\ ready = "done" /\ ui.listening /\ CanFinish(svc)
    /\ ui' = [ui EXCEPT !.listening = FALSE]
    /\ svc' = Finished(svc)
    /\ UNCHANGED <<win, ready, posted, field, inInput, typed>>

(* start() calls recordingStarted before it returns.                       *)
MicStart ==
    /\ win = "voice" /\ ready = "done" /\ ~ui.listening
    /\ CanEndSession(svc) /\ CanRestart(svc)
    /\ svc' \in Late(svc, Started(svc))
    /\ ui' = RecordingStarted(ui, svc.session + 1)
    /\ UNCHANGED <<win, ready, posted, field, inInput, typed>>

(* The back and keyboard buttons, or another action.                       *)
UserCloses ==
    /\ Runs /\ win # "none"
    /\ Close(ui)
    /\ UNCHANGED <<posted, field, inInput, typed>>

OpenOther ==
    /\ Runs /\ win = "none" /\ inInput
    /\ win' = "other"
    /\ UNCHANGED <<svc, ui, ready, posted, field, inInput, typed>>

(* onFinishInputView: the window is closed, then IMEManager ends what      *)
(* transaction is still current.                                           *)
FinishInput ==
    /\ Runs /\ inInput
    /\ inInput' = FALSE
    /\ win' = "none"
    /\ IF win = "voice"
       THEN /\ CanEndSession(svc) /\ CanFinish(svc)
            /\ ui' = [ClosedUi(ui) EXCEPT !.current = 0]
            /\ svc' \in Late(svc, ClosedSvc(ui, svc))
            /\ ready' = IF ready = "running" THEN "hung" ELSE ready
       ELSE ui' = [ui EXCEPT !.current = 0] /\ UNCHANGED <<svc, ready>>
    /\ UNCHANGED <<posted, field, typed>>

StartInput ==
    /\ Runs /\ ~inInput /\ field < MaxField
    /\ inInput' = TRUE /\ field' = field + 1
    /\ UNCHANGED <<svc, ui, win, ready, posted, typed>>

-----------------------------------------------------------------------------
(* The recogniser's callbacks, and the blocks on the main looper.          *)

Recogniser(Step) == Runs /\ Step /\ UNCHANGED bar

(* modelLoadingFailed() calls cancelled().                                 *)
LoadingFails ==
    /\ Runs /\ svc.loading /\ CanEndSession(svc)
    /\ svc' \in Late(svc, Prebuffering(WasReset(svc)))
    /\ ui' = Cancelled(ui)
    /\ UNCHANGED <<win, ready, posted, field, inInput, typed>>

(* finished(): the commit is launched on the main looper.                  *)
DeliverFinished(r) ==
    /\ Runs /\ svc.runs[r].st = "checked"
    /\ svc' = Prebuffering([svc EXCEPT !.runs[r].st = "answered"])
    /\ ui' = [ui EXCEPT !.finished = TRUE]
    /\ posted' = Append(posted, r)
    /\ UNCHANGED <<win, ready, field, inInput, typed>>

(* The launched block: commit to the transaction, made now if the window   *)
(* has none, and close what window there is if close() asked for the text. *)
CommitText ==
    /\ Runs /\ posted # <<>>
    /\ LET r == Head(posted)
           u == IF ui.tx = NoTx THEN WithTransaction(ui, svc.runs[r].born) ELSE ui
           v == [Ended(u) EXCEPT !.listening = FALSE, !.requested = FALSE,
                                 !.closing = FALSE]
       IN /\ typed' = IF u.current = u.tx.id
                      THEN typed \cup {[run |-> r, tx |-> u.tx]} ELSE typed
          /\ IF ui.closing THEN Close(v)
             ELSE ui' = v /\ UNCHANGED <<svc, win, ready>>
    /\ posted' = Tail(posted)
    /\ UNCHANGED <<field, inInput>>

(* Faulty variant: the block runs without having been launched.            *)
HideWindowUnasked ==
    /\ Runs
    /\ Close([ui EXCEPT !.hides = @ - 1])
    /\ UNCHANGED <<posted, field, inInput, typed>>

(* The block that cancelled() launched.                                    *)
HideWindow ==
    /\ Runs /\ ui.hides > 0
    /\ Close([ui EXCEPT !.hides = @ - 1])
    /\ UNCHANGED <<posted, field, inInput, typed>>

-----------------------------------------------------------------------------
UserNext ==
    MicStop \/ MicStart \/ UserCloses \/ OpenOther \/ FinishInput \/ StartInput

MainNext ==
    \/ InitJob \/ LoadingFails \/ CommitText \/ HideWindow
    \/ \E r \in Run : DeliverFinished(r)

ServiceNext ==
    \/ Recogniser(Restart) \/ Recogniser(LoopEnds)
    \/ Recogniser(AutoFinish) \/ Recogniser(Loaded)
    \/ \E r \in Run : Recogniser(Post(r)) \/ Recogniser(Check(r))

BarNext == UserNext \/ MainNext \/ ServiceNext

BarSpec == Init /\ [][BarNext]_vars

(* The main looper runs what is posted to it; a recording ends at the      *)
(* latest when 60 s are recorded and a run posts its text (the liveness    *)
(* of AudioRecognizer).  Nobody has to press a button.                     *)
Fairness ==
    /\ WF_vars(InitJob) /\ WF_vars(CommitText) /\ WF_vars(HideWindow)
    /\ WF_vars(Recogniser(Restart)) /\ WF_vars(Recogniser(LoopEnds))
    /\ WF_vars(Recogniser(AutoFinish))
    /\ \A r \in Run : /\ WF_vars(Recogniser(Post(r)))
                      /\ WF_vars(Recogniser(Check(r)))
                      /\ WF_vars(DeliverFinished(r))

FairBarSpec == BarSpec /\ Fairness

-----------------------------------------------------------------------------
(* Properties.                                                             *)

TxRecord == [id : Nat, field : 0 .. MaxField, born : 0 .. MaxSession]

BarTypeOK ==
    /\ svc \in ServiceState
    /\ ui \in [listening : BOOLEAN, closing : BOOLEAN, requested : BOOLEAN,
               finished : BOOLEAN, tx : TxRecord, current : Nat, made : Nat,
               hides : Nat]
    /\ win \in {"voice", "other", "none"}
    /\ ready \in {"running", "done", "hung"}
    /\ posted \in Seq(Run)
    /\ field \in 1 .. MaxField /\ inInput \in BOOLEAN
    /\ typed \subseteq [run : Run, tx : TxRecord]

(* While a transaction is current the keyboard's events go nowhere         *)
(* (getActiveIME returns it): it is always the one this window holds and   *)
(* will end.  And a window that shows "Listening" holds one for the text.  *)
TransactionOwned ==
    /\ ui.current # 0 => ui.current = ui.tx.id
    /\ ui.listening => ui.tx # NoTx

(* wasFinished makes cancelled() leave the transaction alone: whenever it  *)
(* is set while a transaction is current, the commit that will end the     *)
(* transaction is on its way.                                              *)
FinishedWillCommit == ui.finished /\ ui.current # 0 => posted # <<>>

(* Whatever happens to the recording, once the window is gone the keyboard *)
(* gets its events back.                                                   *)
KeyboardComesBack == win # "voice" ~> ui.current = 0

(* Without an input field the recogniser does not listen, except while the *)
(* recording whose text close() asked for comes to its end.                *)
MicOffOutsideInput == ~inInput => ~svc.open

(* "Treat mic as stop button when already listening": when the bar does    *)
(* not show that it listens, nothing is being recorded.                    *)
StopStops == svc.recording => ui.listening

(* The text of a recording goes only into the transaction begun for it,    *)
(* never into that of a later recording ("2nd run commits old text").      *)
OwnTransaction == \A t \in typed : t.tx.born = svc.runs[t.run].born
=============================================================================
