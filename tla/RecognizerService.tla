-------------------------- MODULE RecognizerService --------------------------
(***************************************************************************)
(* What the voice windows may rely on when they use an AudioRecognizer:    *)
(* the abstract specification that AudioRecognizer.tla implements (see     *)
(* AudioRecognizerRefinement) and on which VoiceBottomBar is built.        *)
(*                                                                         *)
(* The recogniser is one record, svc.  Its calls are functions from a      *)
(* state to the next one, so that a window's handler, which makes several  *)
(* calls, composes them: Prebuffered(WasReset(svc)).                       *)
(***************************************************************************)
EXTENDS Naturals

CONSTANTS
    MaxSession,   \* bound on sessionId
    MaxRun,       \* bound on the calls of onFinishRecording
    MaxRestart    \* bound on the pending restarts

ASSUME ServiceBounds ==
    MaxSession \in Nat \ {0} /\ MaxRun \in Nat \ {0} /\ MaxRestart \in Nat

VARIABLE svc

Run == 1 .. MaxRun

(* A run: "running" until it is cancelled ("over") or posts its answer     *)
(* under the session id it read; the posted block is dropped ("over") or,  *)
(* once "checked", calls the listener.                                     *)
RunStates == {"none", "running", "posted", "checked", "answered", "over"}
NoRun == [st |-> "none", born |-> 0, sid |-> 0]

ServiceState ==
    [session : 0 .. MaxSession, recording : BOOLEAN, prebuffering : BOOLEAN,
     open : BOOLEAN, looping : BOOLEAN, restarts : 0 .. MaxRestart,
     loading : BOOLEAN,
     runs : [Run -> [st : RunStates, born : 0 .. MaxSession,
                     sid : 0 .. MaxSession]]]

(* `open`: the AudioRecord of the field reads the microphone.  `looping`:  *)
(* recorderJob has not completed.  `restarts`: detached coroutines that    *)
(* will record once the old loop has ended.                                *)
Idle ==
    [session |-> 0, recording |-> FALSE, prebuffering |-> FALSE,
     open |-> FALSE, looping |-> FALSE, restarts |-> 0, loading |-> FALSE,
     runs |-> [r \in Run |-> NoRun]]

-----------------------------------------------------------------------------
(* The calls.                                                              *)

CancelledRuns(s) ==
    [r \in Run |-> IF s.runs[r].st = "running"
                   THEN [s.runs[r] EXCEPT !.st = "over"] ELSE s.runs[r]]

(* Records at once, or as soon as the old loop has ended.                  *)
Recording(s) ==
    IF s.looping
    THEN [s EXCEPT !.recording = FALSE, !.open = FALSE, !.restarts = @ + 1]
    ELSE [s EXCEPT !.recording = TRUE, !.open = TRUE, !.looping = TRUE]

Started(s) ==
    Recording([s EXCEPT !.session = @ + 1, !.prebuffering = FALSE,
                        !.loading = TRUE, !.runs = CancelledRuns(s)])

(* finish() does nothing unless isRecording is set.                        *)
NextRun(s) ==
    CHOOSE r \in Run : /\ s.runs[r].st = "none"
                       /\ \A x \in Run : x < r => s.runs[x].st # "none"
Finished(s) ==
    IF ~s.recording THEN s
    ELSE [s EXCEPT !.recording = FALSE, !.open = FALSE,
                   !.runs[NextRun(s)] = [st |-> "running", born |-> s.session,
                                         sid |-> 0]]

WasReset(s) ==
    [s EXCEPT !.session = @ + 1, !.recording = FALSE, !.prebuffering = FALSE,
              !.open = FALSE, !.loading = FALSE, !.runs = CancelledRuns(s)]

Prebuffered(s) ==
    IF s.prebuffering \/ s.recording THEN s
    ELSE [s EXCEPT !.prebuffering = TRUE, !.open = TRUE]

(* Run r of state s gets a status and the session id it posts under.       *)
Moved(s, r, st, sid) ==
    [s EXCEPT !.runs[r] = [st |-> st, born |-> s.runs[r].born, sid |-> sid]]

(* A call that ends the session first takes the new id and then cancels    *)
(* the run.  In between the run may take the new id for its own and post.  *)
Late(before, after) ==
    {after} \cup
    {Moved(after, r, "posted", after.session) :
        r \in {x \in Run : before.runs[x].st = "running"}}

(* Bounds.                                                                 *)
CanEndSession(s) == s.session < MaxSession
CanRestart(s) == s.looping => s.restarts < MaxRestart
CanFinish(s) == s.recording => \E r \in Run : s.runs[r].st = "none"

-----------------------------------------------------------------------------
(* What it does on its own.                                                *)

Restart ==
    /\ svc.restarts > 0
    /\ svc' = [svc EXCEPT !.restarts = @ - 1, !.recording = TRUE,
                          !.open = TRUE, !.looping = TRUE]

LoopEnds == svc.looping /\ ~svc.recording /\ svc' = [svc EXCEPT !.looping = FALSE]

(* The 60 s limit or a silence.                                            *)
AutoFinish == svc.recording /\ CanFinish(svc) /\ svc' = Finished(svc)

Loaded == svc.loading /\ svc' = [svc EXCEPT !.loading = FALSE]

(* The models cannot be loaded: reset(), then modelLoadingFailed().        *)
LoadFails ==
    svc.loading /\ CanEndSession(svc) /\ svc' \in Late(svc, WasReset(svc))

Post(r) ==
    /\ svc.runs[r].st = "running"
    /\ svc' = Moved(svc, r, "posted", svc.runs[r].born)

Check(r) ==
    /\ svc.runs[r].st = "posted"
    /\ svc' = IF svc.runs[r].sid = svc.session
              THEN Moved(svc, r, "checked", svc.session)
              ELSE Moved(svc, r, "over", 0)

Deliver(r) ==
    /\ svc.runs[r].st = "checked"
    /\ svc' = Moved(svc, r, "answered", svc.runs[r].sid)

-----------------------------------------------------------------------------
Calls ==
    \/ CanEndSession(svc) /\ CanRestart(svc) /\ svc' \in Late(svc, Started(svc))
    \/ CanEndSession(svc) /\ svc' \in Late(svc, WasReset(svc))
    \/ svc.recording /\ CanFinish(svc) /\ svc' = Finished(svc)
    \/ svc' = Prebuffered(svc)
    \/ /\ svc.recording \/ svc.restarts > 0
       /\ CanRestart(svc) /\ svc' = Recording(svc)

Next ==
    \/ Calls
    \/ Restart \/ LoopEnds \/ AutoFinish \/ Loaded \/ LoadFails
    \/ \E r \in Run : Post(r) \/ Check(r) \/ Deliver(r)

Spec == svc = Idle /\ [][Next]_svc
=============================================================================
