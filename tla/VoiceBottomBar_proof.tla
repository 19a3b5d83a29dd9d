------------------------ MODULE VoiceBottomBar_proof ------------------------
(***************************************************************************)
(* Theorems about VoiceBottomBar for every value of its constants.         *)
(***************************************************************************)
EXTENDS VoiceBottomBar, TLAPS

UiRecord == [listening : BOOLEAN, closing : BOOLEAN, requested : BOOLEAN,
             finished : BOOLEAN, tx : TxRecord, current : Nat, made : Nat,
             hides : Nat]
RunRecord == [st : RunStates, born : 0 .. MaxSession, sid : 0 .. MaxSession]

-----------------------------------------------------------------------------
(* The calls of the recogniser yield states of the recogniser.             *)

LEMMA CancelledRunsType ==
    ASSUME NEW STATE s, s \in ServiceState
    PROVE  CancelledRuns(s) \in [Run -> RunRecord]
BY DEF CancelledRuns, ServiceState, RunRecord, RunStates

LEMMA NextSession ==
    ASSUME NEW STATE s, s \in ServiceState, CanEndSession(s)
    PROVE  s.session + 1 \in 0 .. MaxSession
BY ServiceBounds DEF CanEndSession, ServiceState

LEMMA WasResetType ==
    ASSUME NEW STATE s, s \in ServiceState, CanEndSession(s)
    PROVE  WasReset(s) \in ServiceState
BY CancelledRunsType, NextSession DEF WasReset, ServiceState, RunRecord

LEMMA PrebufferedType ==
    ASSUME NEW STATE s, s \in ServiceState
    PROVE  Prebuffered(s) \in ServiceState /\ Prebuffering(s) \in ServiceState
BY DEF Prebuffered, Prebuffering, ServiceState

LEMMA RecordingType ==
    ASSUME NEW STATE s, s \in ServiceState, CanRestart(s)
    PROVE  Recording(s) \in ServiceState
<1>1. s.looping => s.restarts + 1 \in 0 .. MaxRestart
  BY ServiceBounds DEF CanRestart, ServiceState
<1> QED BY <1>1 DEF Recording, ServiceState

LEMMA StartedType ==
    ASSUME NEW STATE s, s \in ServiceState, CanEndSession(s), CanRestart(s)
    PROVE  Started(s) \in ServiceState
<1> DEFINE t == [s EXCEPT !.session = @ + 1, !.prebuffering = FALSE,
                          !.loading = TRUE, !.runs = CancelledRuns(s)]
<1>1. t \in ServiceState /\ CanRestart(t)
  BY CancelledRunsType, NextSession DEF CanRestart, ServiceState, RunRecord
<1>2. Started(s) = Recording(t)
  BY DEF Started
<1> HIDE DEF t
<1> QED BY <1>1, <1>2, RecordingType

LEMMA FinishedType ==
    ASSUME NEW STATE s, s \in ServiceState
    PROVE  Finished(s) \in ServiceState
<1> DEFINE new == [st |-> "running", born |-> s.session, sid |-> 0]
<1>1. new \in RunRecord
  BY ServiceBounds DEF RunRecord, RunStates, ServiceState
<1>2. [s.runs EXCEPT ![NextRun(s)] = new] \in [Run -> RunRecord]
  BY <1>1 DEF ServiceState, RunRecord
<1> QED BY <1>2 DEF Finished, ServiceState, RunRecord

(* A step of one run of the recogniser.                                    *)
LEMMA RunMovesType ==
    ASSUME NEW STATE s, s \in ServiceState, NEW r \in Run,
           NEW st \in RunStates, NEW STATE sid, sid \in 0 .. MaxSession
    PROVE  /\ [s EXCEPT !.runs[r].st = st] \in ServiceState
           /\ Moved(s, r, st, sid) \in ServiceState
BY DEF ServiceState, Moved

LEMMA LateType ==
    ASSUME NEW STATE before, NEW STATE after, after \in ServiceState,
           NEW STATE s, s \in Late(before, after)
    PROVE  s \in ServiceState
<1>1. after.session \in 0 .. MaxSession /\ "posted" \in RunStates
  BY DEF ServiceState, RunStates
<1>2. CASE s = after
  BY <1>2
<1>3. ASSUME NEW r \in Run,
             s = Moved(after, r, "posted", after.session)
      PROVE  s \in ServiceState
  BY <1>1, <1>3, RunMovesType
<1> QED BY <1>2, <1>3 DEF Late

LEMMA IdleType == Idle \in ServiceState
BY ServiceBounds DEF Idle, NoRun, ServiceState, RunStates

-----------------------------------------------------------------------------
(* The window object.  BarInv is the invariant; Owned and WillCommit are   *)
(* its two properties as formulas about the record a handler is building.  *)

Owned(u) == /\ u.current # 0 => u.current = u.tx.id
            /\ u.listening => u.tx # NoTx
UiOK(u) == u \in UiRecord /\ Owned(u)

(* A call that starts no recording: the transaction that is current stays  *)
(* so or ends, and wasFinished does not change.                            *)
Quiet(u, v) == v.current \in {0, u.current} /\ v.finished = u.finished

BarInv == BarTypeOK /\ TransactionOwned /\ FinishedWillCommit

LEMMA NoTxType == NoTx \in TxRecord
BY BarBounds, ServiceBounds DEF NoTx, TxRecord

LEMMA EndedKeeps ==
    ASSUME NEW STATE u, UiOK(u)
    PROVE  /\ Ended(u) \in UiRecord /\ Ended(u).current = 0
           /\ Ended(u).listening = u.listening /\ Ended(u).finished = u.finished
BY NoTxType DEF Ended, UiOK, Owned, UiRecord

LEMMA CancelledKeeps ==
    ASSUME NEW STATE u, u \in UiRecord, u.current # 0 => u.current = u.tx.id
    PROVE  UiOK(Cancelled(u)) /\ Quiet(u, Cancelled(u))
<1> DEFINE v == IF u.finished THEN u ELSE Ended(u)
<1>1. v \in UiRecord /\ Quiet(u, v) /\ (v.current # 0 => v.current = v.tx.id)
  BY NoTxType DEF Ended, UiRecord, Quiet
<1>2. Cancelled(u) = [v EXCEPT !.hides = IF u.closing THEN @ + 1 ELSE @,
                               !.listening = FALSE, !.requested = FALSE,
                               !.closing = FALSE]
  BY DEF Cancelled
<1> HIDE DEF v
<1>3. (IF u.closing THEN v.hides + 1 ELSE v.hides) \in Nat
  BY <1>1 DEF UiRecord
<1>4. Cancelled(u) \in UiRecord
  BY <1>1, <1>2, <1>3 DEF UiRecord
<1>5. Owned(Cancelled(u)) /\ Quiet(u, Cancelled(u))
  BY <1>1, <1>2 DEF Owned, Quiet, UiRecord
<1> QED BY <1>4, <1>5 DEF UiOK

LEMMA WithTransactionKeeps ==
    ASSUME NEW STATE u, u \in UiRecord, NEW STATE born, born \in 0 .. MaxSession,
           field \in 1 .. MaxField
    PROVE  UiOK(WithTransaction(u, born)) /\ WithTransaction(u, born).finished = u.finished
<1> DEFINE tx == [id |-> u.made + 1, field |-> field, born |-> born]
<1>1. u.made + 1 \in Nat /\ u.made + 1 # 0 /\ field \in 0 .. MaxField
  BY BarBounds DEF UiRecord
<1>2. tx \in TxRecord /\ tx # NoTx /\ tx.id = u.made + 1
  BY <1>1 DEF TxRecord, NoTx
<1>3. WithTransaction(u, born) =
        [u EXCEPT !.made = u.made + 1, !.current = u.made + 1, !.tx = tx]
  BY DEF WithTransaction, UiRecord
<1> HIDE DEF tx
<1> QED BY <1>1, <1>2, <1>3 DEF UiOK, Owned, UiRecord

LEMMA RecordingStartedKeeps ==
    ASSUME NEW STATE u, UiOK(u), NEW STATE born, born \in 0 .. MaxSession,
           field \in 1 .. MaxField
    PROVE  /\ UiOK(RecordingStarted(u, born))
           /\ u.listening \/ ~RecordingStarted(u, born).finished
           /\ u.listening => RecordingStarted(u, born) = u
<1> DEFINE v == WithTransaction(u, born)
<1>1. UiOK(v) /\ v.tx # NoTx
  <2>1. u.made + 1 # 0
    BY DEF UiOK, UiRecord
  <2>2. v.tx.id = u.made + 1
    BY DEF WithTransaction, UiOK, UiRecord
  <2> QED BY <2>1, <2>2, WithTransactionKeeps DEF UiOK, NoTx
<1>2. ~u.listening => RecordingStarted(u, born) =
                        [v EXCEPT !.listening = TRUE, !.finished = FALSE]
  BY DEF RecordingStarted
<1>3. u.listening => RecordingStarted(u, born) = u
  BY DEF RecordingStarted
<1> HIDE DEF v
<1> QED BY <1>1, <1>2, <1>3 DEF UiOK, Owned, UiRecord

LEMMA ClosedUiKeeps ==
    ASSUME NEW STATE u, UiOK(u)
    PROVE  UiOK(ClosedUi(u)) /\ Quiet(u, ClosedUi(u))
<1>1. CASE AsksForText(u)
  BY <1>1 DEF ClosedUi, UiOK, UiRecord, Owned, Quiet
<1>2. CASE ~AsksForText(u) /\ u.listening
  <2> DEFINE v == [u EXCEPT !.closing = FALSE]
  <2>1. v \in UiRecord /\ Owned(v) /\ Quiet(u, v)
    BY DEF UiOK, UiRecord, Owned, Quiet
  <2>2. ClosedUi(u) = Cancelled(v)
    BY <1>2 DEF ClosedUi
  <2> HIDE DEF v
  <2> QED BY <2>1, <2>2, CancelledKeeps DEF Owned, Quiet
<1>3. CASE ~AsksForText(u) /\ ~u.listening /\ ready = "done"
  <2>1. Ended(u) \in UiRecord /\ Ended(u).current = 0 /\ Ended(u).finished = u.finished
    BY EndedKeeps
  <2>2. ClosedUi(u) = Cancelled(Ended(u))
    BY <1>3 DEF ClosedUi
  <2> QED BY <2>1, <2>2, CancelledKeeps DEF Quiet
<1>4. CASE ~AsksForText(u) /\ ~u.listening /\ ready # "done"
  BY <1>4, EndedKeeps DEF ClosedUi, UiOK, Owned, Quiet
<1> QED BY <1>1, <1>2, <1>3, <1>4

LEMMA ClosedSvcType ==
    ASSUME NEW STATE u, svc \in ServiceState, CanEndSession(svc)
    PROVE  ClosedSvc(u, svc) \in ServiceState
BY FinishedType, WasResetType, PrebufferedType DEF ClosedSvc

(* closeActionWindow.                                                      *)
LEMMA CloseKeeps ==
    ASSUME BarInv, NEW STATE u, UiOK(u), Close(u)
    PROVE  /\ svc' \in ServiceState /\ UiOK(ui') /\ Quiet(u, ui')
           /\ win' = "none" /\ ready' \in {"running", "done", "hung"}
<1>1. CASE win = "voice"
  <2>1. svc' \in ServiceState
    BY <1>1, ClosedSvcType, LateType DEF Close, BarInv, BarTypeOK
  <2>2. UiOK(ui') /\ Quiet(u, ui')
    BY <1>1, ClosedUiKeeps DEF Close
  <2> QED BY <1>1, <2>1, <2>2 DEF Close, BarInv, BarTypeOK
<1>2. CASE win # "voice"
  BY <1>2 DEF Close, BarInv, BarTypeOK, Quiet, UiOK, UiRecord
<1> QED BY <1>1, <1>2

LEMMA BarInit == Init => BarInv
<1> SUFFICES ASSUME Init PROVE BarInv
  OBVIOUS
<1>1. svc \in ServiceState
  BY IdleType DEF Init
<1>2. ui \in UiRecord
  BY NoTxType DEF Init, UiRecord
<1>3. field \in 1 .. MaxField
  BY BarBounds DEF Init
<1>4. posted \in Seq(Run)
  BY DEF Init
<1> QED
  BY <1>1, <1>2, <1>3, <1>4
     DEF Init, BarInv, BarTypeOK, UiRecord, TransactionOwned, FinishedWillCommit

LEMMA InvUi == BarInv => UiOK(ui)
BY DEF BarInv, BarTypeOK, UiOK, UiRecord, Owned, TransactionOwned

(* A step that leaves the texts and posts nothing, with an Owned window    *)
(* object that keeps the transaction or ends it.                           *)
LEMMA QuietStep ==
    ASSUME BarInv, svc' \in ServiceState, UiOK(ui'),
           Quiet(ui, ui') \/ ~ui'.finished,
           win' \in {"voice", "other", "none"}, ready' \in {"running", "done", "hung"},
           field' \in 1 .. MaxField, inInput' \in BOOLEAN, UNCHANGED <<posted, typed>>
    PROVE  BarInv'
BY DEF BarInv, BarTypeOK, UiOK, UiRecord, Owned, TransactionOwned, FinishedWillCommit, Quiet

LEMMA ServiceStep ==
    ASSUME BarInv, ServiceNext PROVE svc' \in ServiceState /\ UNCHANGED bar
<1> USE DEF Recogniser
<1>0. svc \in ServiceState
  BY DEF BarInv, BarTypeOK
<1>1. CASE Recogniser(Restart)
  <2>1. svc.restarts - 1 \in 0 .. MaxRestart
    BY <1>0, <1>1, ServiceBounds DEF Restart, ServiceState
  <2> QED BY <1>0, <1>1, <2>1 DEF Restart, ServiceState
<1>2. CASE Recogniser(LoopEnds) \/ Recogniser(Loaded)
  BY <1>0, <1>2 DEF LoopEnds, Loaded, ServiceState
<1>3. CASE Recogniser(AutoFinish)
  BY <1>0, <1>3, FinishedType DEF AutoFinish
<1>4. ASSUME NEW r \in Run, Recogniser(Post(r))
      PROVE  svc' \in ServiceState /\ UNCHANGED bar
  <2>1. svc.runs[r].born \in 0 .. MaxSession /\ "posted" \in RunStates
    BY <1>0 DEF ServiceState, RunStates
  <2> QED BY <1>0, <1>4, <2>1, RunMovesType DEF Post
<1>5. ASSUME NEW r \in Run, Recogniser(Check(r))
      PROVE  svc' \in ServiceState /\ UNCHANGED bar
  <2>1. /\ "checked" \in RunStates /\ "over" \in RunStates
        /\ 0 \in 0 .. MaxSession /\ svc.session \in 0 .. MaxSession
    BY <1>0, ServiceBounds DEF RunStates, ServiceState
  <2> QED BY <1>0, <1>5, <2>1, RunMovesType DEF Check
<1> QED BY <1>1, <1>2, <1>3, <1>4, <1>5 DEF ServiceNext

LEMMA BarStep == BarInv /\ [BarNext]_vars => BarInv'
<1> SUFFICES ASSUME BarInv, [BarNext]_vars PROVE BarInv'
  OBVIOUS
<1>0. /\ svc \in ServiceState /\ UiOK(ui) /\ field \in 1 .. MaxField
      /\ win \in {"voice", "other", "none"} /\ ready \in {"running", "done", "hung"}
      /\ inInput \in BOOLEAN /\ posted \in Seq(Run) /\ Quiet(ui, ui)
  BY InvUi DEF BarInv, BarTypeOK, Quiet
<1>1. CASE InitJob
  BY <1>0, <1>1, QuietStep, WasResetType, PrebufferedType DEF InitJob
<1>2. CASE MicStop
  <2>1. UiOK(ui') /\ Quiet(ui, ui')
    BY <1>0, <1>2 DEF MicStop, UiOK, UiRecord, Owned, Quiet
  <2> QED BY <1>0, <1>2, <2>1, QuietStep, FinishedType DEF MicStop
<1>3. CASE MicStart
  <2>1. svc' \in ServiceState /\ svc.session + 1 \in 0 .. MaxSession
    BY <1>0, <1>3, StartedType, LateType, NextSession DEF MicStart
  <2>2. UiOK(ui') /\ ~ui'.finished
    BY <1>0, <1>3, <2>1, RecordingStartedKeeps DEF MicStart
  <2> QED BY <1>0, <1>3, <2>1, <2>2, QuietStep DEF MicStart
<1>4. CASE UserCloses
  BY <1>0, <1>4, CloseKeeps, QuietStep DEF UserCloses
<1>5. CASE OpenOther
  BY <1>0, <1>5, QuietStep DEF OpenOther
<1>6. CASE FinishInput
  <2>1. svc' \in ServiceState
    BY <1>0, <1>6, ClosedSvcType, LateType DEF FinishInput
  <2>2. UiOK(ui') /\ Quiet(ui, ui')
    <3> DEFINE u == ClosedUi(ui)
    <3>1. UiOK(u) /\ Quiet(ui, u)
      BY <1>0, ClosedUiKeeps
    <3> HIDE DEF u
    <3>2. CASE win = "voice"
      <4>1. ui' = [u EXCEPT !.current = 0]
        BY <1>6, <3>2 DEF FinishInput, u
      <4> QED BY <3>1, <4>1 DEF UiOK, UiRecord, Owned, Quiet
    <3>3. CASE win # "voice"
      <4>1. ui' = [ui EXCEPT !.current = 0]
        BY <1>6, <3>3 DEF FinishInput
      <4> QED BY <1>0, <4>1 DEF UiOK, UiRecord, Owned, Quiet
    <3> QED BY <3>2, <3>3
  <2> QED BY <1>0, <1>6, <2>1, <2>2, QuietStep DEF FinishInput
<1>7. CASE StartInput
  <2>1. field' \in 1 .. MaxField
    BY <1>0, <1>7, BarBounds DEF StartInput
  <2> QED BY <1>0, <1>7, <2>1, QuietStep DEF StartInput
<1>8. CASE LoadingFails
  <2>1. svc' \in ServiceState
    BY <1>0, <1>8, WasResetType, PrebufferedType, LateType DEF LoadingFails
  <2>2. UiOK(ui') /\ Quiet(ui, ui')
    BY <1>0, <1>8, CancelledKeeps DEF LoadingFails, UiOK, Owned
  <2> QED BY <1>0, <1>8, <2>1, <2>2, QuietStep DEF LoadingFails
<1>9. CASE HideWindow
  <2> DEFINE u == [ui EXCEPT !.hides = @ - 1]
  <2>1. UiOK(u) /\ Quiet(ui, u)
    BY <1>0, <1>9 DEF HideWindow, UiOK, UiRecord, Owned, Quiet
  <2>2. Close(u)
    BY <1>9 DEF HideWindow
  <2> HIDE DEF u
  <2>3. Quiet(ui, ui')
    BY <2>1, <2>2, CloseKeeps DEF Quiet
  <2> QED BY <1>0, <1>9, <2>1, <2>2, <2>3, CloseKeeps, QuietStep DEF HideWindow
<1>10. ASSUME NEW r \in Run, DeliverFinished(r) PROVE BarInv'
  <2> DEFINE s == [svc EXCEPT !.runs[r].st = "answered"]
  <2>1. s \in ServiceState
    <3> DEFINE f == [svc.runs EXCEPT ![r].st = "answered"]
    <3>1. svc.runs \in [Run -> RunRecord]
      BY <1>0 DEF ServiceState, RunRecord
    <3>2. f \in [Run -> RunRecord]
      BY <3>1 DEF RunStates, RunRecord
    <3>3. s = [svc EXCEPT !.runs = f]
      BY <1>0 DEF ServiceState
    <3> HIDE DEF f
    <3> QED BY <1>0, <3>2, <3>3 DEF ServiceState, RunRecord
  <2>2. svc' \in ServiceState
    <3>1. svc' = Prebuffering(s)
      BY <1>10 DEF DeliverFinished
    <3> HIDE DEF s
    <3> QED BY <2>1, <3>1, PrebufferedType
  <2>3. UiOK(ui') /\ ui'.current = ui.current
    BY <1>0, <1>10 DEF DeliverFinished, UiOK, UiRecord, Owned
  <2>4. posted' \in Seq(Run) /\ posted' # <<>>
    BY <1>0, <1>10 DEF DeliverFinished
  <2> QED
    BY <1>0, <1>10, <2>2, <2>3, <2>4
       DEF DeliverFinished, BarInv, BarTypeOK, UiOK, UiRecord, Owned,
           TransactionOwned, FinishedWillCommit
<1>11. CASE CommitText
  <2> DEFINE r == Head(posted)
             u == IF ui.tx = NoTx THEN WithTransaction(ui, svc.runs[r].born) ELSE ui
             v == [Ended(u) EXCEPT !.listening = FALSE, !.requested = FALSE,
                                   !.closing = FALSE]
  <2>1. r \in Run /\ Tail(posted) \in Seq(Run)
    BY <1>0, <1>11 DEF CommitText
  <2>2. UiOK(u)
    <3>1. svc.runs[r].born \in 0 .. MaxSession
      BY <1>0, <2>1 DEF ServiceState
    <3> QED BY <1>0, <3>1, WithTransactionKeeps DEF UiOK
  <2>3. UiOK(v) /\ v.current = 0
    <3> HIDE DEF u
    <3> QED BY <2>2, EndedKeeps DEF UiOK, UiRecord, Owned
  <2>4. /\ typed' = IF u.current = u.tx.id
                    THEN typed \cup {[run |-> r, tx |-> u.tx]} ELSE typed
        /\ IF ui.closing THEN Close(v) ELSE ui' = v /\ UNCHANGED <<svc, win, ready>>
        /\ posted' = Tail(posted) /\ UNCHANGED <<field, inInput>>
    BY <1>11 DEF CommitText
  <2> HIDE DEF r, u, v
  <2>5. typed' \subseteq [run : Run, tx : TxRecord]
    BY <2>1, <2>2, <2>4 DEF UiOK, UiRecord, BarInv, BarTypeOK
  <2>6. /\ svc' \in ServiceState /\ UiOK(ui') /\ ui'.current = 0
        /\ win' \in {"voice", "other", "none"} /\ ready' \in {"running", "done", "hung"}
    BY <1>0, <2>3, <2>4, CloseKeeps DEF Quiet
  <2> QED
    BY <1>0, <2>1, <2>4, <2>5, <2>6
       DEF BarInv, BarTypeOK, UiOK, UiRecord, Owned, TransactionOwned, FinishedWillCommit
<1>12. CASE ServiceNext
  BY <1>0, <1>12, ServiceStep, QuietStep DEF bar
<1>13. CASE UNCHANGED vars
  BY <1>0, <1>13, QuietStep DEF vars, bar
<1> QED
  BY <1>1, <1>2, <1>3, <1>4, <1>5, <1>6, <1>7, <1>8, <1>9, <1>10, <1>11, <1>12, <1>13
     DEF BarNext, UserNext, MainNext

LEMMA BarInvHolds == BarSpec => []BarInv
BY BarInit, BarStep, PTL DEF BarSpec

(* The variables of the bar and of its recogniser hold values of their     *)
(* types, whatever the order of callbacks, commits and closings.           *)
THEOREM BarTypes == BarSpec => []BarTypeOK
<1>1. BarInv => BarTypeOK
  BY DEF BarInv
<1> QED BY <1>1, BarInvHolds, PTL

(* The transaction that withholds the keyboard's events is always the one  *)
(* the window holds and will end, and a listening window holds one.        *)
THEOREM BarOwnsTransaction == BarSpec => []TransactionOwned
<1>1. BarInv => TransactionOwned
  BY DEF BarInv
<1> QED BY <1>1, BarInvHolds, PTL

(* wasFinished, which makes cancelled() spare the transaction, is never    *)
(* set for a current transaction without the commit that will end it.      *)
THEOREM SparedTransactionCommits == BarSpec => []FinishedWillCommit
<1>1. BarInv => FinishedWillCommit
  BY DEF BarInv
<1> QED BY <1>1, BarInvHolds, PTL
=============================================================================
