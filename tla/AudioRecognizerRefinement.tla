---------------------- MODULE AudioRecognizerRefinement ----------------------
(***************************************************************************)
(* AudioRecognizer implements RecognizerService when each run answers at   *)
(* most once (Groq # "single"): between the first line of a handler and    *)
(* its rest the session still counts as the old one, and a run that read   *)
(* the new id in between counts as running until the handler is through.   *)
(***************************************************************************)
EXTENDS AudioRecognizer

AbstractSession == IF main = "idle" THEN sessionId ELSE sessionId - 1
AbstractOpen == recorder # None /\ micState[recorder] = "started"
AbstractLooping == recorderJob # None /\ loops[recorderJob].pc # "done"
AbstractLoading == loadModelJob.st \in {"loading", "failed"}

\* The restarts that wait for some loop, counted.
Waiting == {w \in Mic \X (1 .. MaxRestart) : w[2] <= restarts[w[1]]}

BlockOf(r) ==
    {b \in posted : b.run = r /\ (main = "idle" \/ runs[r].sid # sessionId)}

AbstractStatus(r) ==
    CASE answers[r] > 0 -> "answered"
      [] answers[r] = 0 /\ BlockOf(r) # {} ->
           IF \E b \in BlockOf(r) : b.checked THEN "checked" ELSE "posted"
      [] answers[r] = 0 /\ BlockOf(r) = {} ->
           IF runs[r].pc = "none" THEN "none"
           ELSE IF runs[r].cancelled THEN "over" ELSE "running"

AbstractRun(r) ==
    [st |-> AbstractStatus(r), born |-> runs[r].born,
     sid |-> IF AbstractStatus(r) \in {"posted", "checked", "answered"}
             THEN runs[r].sid ELSE 0]

AbstractRuns == [r \in Run |-> AbstractRun(r)]

AbstractState ==
    [session |-> AbstractSession,
     recording |-> isRecording, prebuffering |-> isPrebuffering,
     open |-> AbstractOpen, looping |-> AbstractLooping,
     restarts |-> Cardinality(Waiting), loading |-> AbstractLoading,
     runs |-> AbstractRuns]

Service == INSTANCE RecognizerService
             WITH svc <- AbstractState, MaxRestart <- MaxMic * MaxRestart

(* Every step of the recogniser is a step of the service or leaves it as   *)
(* it is: the guarantee on which the voice windows are checked.            *)
ImplementsService == Service!Spec
=============================================================================
