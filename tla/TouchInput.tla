----------------------------- MODULE TouchInput -----------------------------
(***************************************************************************)
(* PointerTracker.java and PointerTrackerQueue.java: several fingers on    *)
(* the main keyboard, and the presses, codes and releases they report to   *)
(* KeyboardState.  All of it runs on the main thread; what interleaves are *)
(* fingers, timers, the engine's shift updates and the framework's calls.  *)
(*                                                                         *)
(* A handler is a chain of calls, so each is a function from a state s =   *)
(* [kb, tr, queue, gest, hist] to the next; `Now` is the current one and   *)
(* `Become` takes a step to another.  c[p] is TRUE when the editor asks    *)
(* for capitals during the calls pointer p's tracker makes.                *)
(*                                                                         *)
(* Left out: more-keys panels, flick keys, key repeat, the delete slide,   *)
(* the noise filter, and touches that begin beside every key.              *)
(***************************************************************************)
EXTENDS KeyboardState, Naturals, SequencesExt

CONSTANTS
    Pointer,         \* pointer ids
    TouchKeys,       \* the keys this instance's layouts have
    Gestures,        \* sGestureEnabler.shouldHandleGesture()
    Caps             \* what the editor may answer about capitals

ASSUME TouchAssumption ==
    /\ TouchKeys \subseteq Codes \ {"capslock"}
    /\ Gestures \in BOOLEAN
    /\ Caps \subseteq BOOLEAN /\ Caps # {}

VARIABLES
    kb,          \* KeyboardState
    tracker,     \* [Pointer -> Tracker]
    queue,       \* sPointerTrackerQueue, oldest first
    inGesture,   \* sInGesture
    shown,       \* the window is shown, and gets new touches
    hist         \* history the properties read, see below

vars == <<kb, tracker, queue, inGesture, shown, hist>>

(* down: the finger touches; key: mCurrentKey; drag: mIsInDraggingFinger;  *)
(* sliding: mIsInSlidingKeyInput; disabled: mIsTrackingForActionDisabled;  *)
(* moved: mCursorMoved; detecting: mIsDetectingGesture.                    *)
Tracker == [down : BOOLEAN, key : TouchKeys \cup {"none"}, drag : BOOLEAN,
            sliding : BOOLEAN, disabled : BOOLEAN, moved : BOOLEAN,
            detecting : BOOLEAN]

Idle == [down |-> FALSE, key |-> "none", drag |-> FALSE, sliding |-> FALSE,
         disabled |-> FALSE, moved |-> FALSE, detecting |-> FALSE]

(* sent: the pointers whose letters the last step sent, in order; home:    *)
(* the layout the symbol key was pressed on, as long as no finger has been *)
(* dragged to or from a modifier key, and after the symbol key's release   *)
(* no other key has switched layouts; lost: a tracker was stopped while a  *)
(* modifier key was in use, and it still is.                               *)
NoHistory == [sent |-> <<>>, home |-> "none", lost |-> FALSE]

Now == [kb |-> kb, tr |-> tracker, queue |-> queue, gest |-> inGesture,
        hist |-> [hist EXCEPT !.sent = <<>>]]

InUse(k) == k.shift # "RELEASING" \/ k.symbol # "RELEASING"

Step(s, stops) ==
    /\ kb' = s.kb
    /\ tracker' = s.tr
    /\ queue' = s.queue
    /\ inGesture' = s.gest
    /\ hist' = [s.hist EXCEPT !.lost = (@ \/ stops) /\ InUse(s.kb)]

Become(s, stops) == Step(s, stops) /\ UNCHANGED shown

-----------------------------------------------------------------------------
(* The layouts' keys; a key keeps its place on every layout that has it.   *)
KeysOf(kind) == TouchKeys \cap
    CASE kind = "alphabet" -> {"shift", "symbol", "letter", "space", "alt"}
      [] kind = "symbols" -> {"shift", "symbol", "letter", "space", "number"}
      [] kind = "number" -> {"symbol", "letter", "number"}
      [] OTHER -> {"letter"}

KeysAt(kind, key) == IF key \in KeysOf(kind) THEN {key} ELSE KeysOf(kind) \ Modifier

IsLetter(key) == key \in {"letter", "space"}   \* Constants.isLetterCode

Upd(s, p, t) == [s EXCEPT !.tr[p] = t]
Kb(s, k) == [s EXCEPT !.kb = k]
(* The members of q that are in ps, in order.                              *)
Keep(q, ps) ==
    LET kept[n \in 0 .. Len(q)] ==
          IF n = 0 THEN <<>>
          ELSE IF q[n] \in ps THEN Append(kept[n - 1], q[n]) ELSE kept[n - 1]
    IN kept[Len(q)]
Without(s, p) == [s EXCEPT !.queue = Keep(@, Pointer \ {p})]
Disable(s, ps) ==
    [s EXCEPT !.tr = [p \in Pointer |->
        IF p \in ps THEN [s.tr[p] EXCEPT !.disabled = TRUE] ELSE s.tr[p]]]
DisableAll(s) == Disable(s, ToSet(s.queue))

(* setReleasedKeyGraphics and cancelKeyTimersOf.                           *)
Undraw(s, p, key) ==
    [s EXCEPT !.kb.drawn = @ /\ key # "shift", !.kb.timer = @ \ {p}]

-----------------------------------------------------------------------------
(* The calls a tracker makes to its listener.                              *)

Mute(s, p) == s.gest \/ s.tr[p].detecting \/ s.tr[p].disabled
Ignored(s, p, key) == Mute(s, p) \/ (s.tr[p].drag /\ key \in Modifier)

Press(s, p, key, c) ==
    IF Ignored(s, p, key) THEN s
    ELSE [s EXCEPT !.kb = OnPressKey(@, key, c[p]),
                   !.hist.home = IF key = "symbol" THEN s.kb.kind ELSE @]

Release(s, p, key, sliding, c) ==
    IF Ignored(s, p, key) THEN s ELSE Kb(s, OnReleaseKey(s.kb, key, sliding, c[p]))

(* onCodeInput: the engine handles the code, and asks for a shift update,  *)
(* before the keyboard state sees it.                                      *)
CodeInput(s, p, key, c) ==
    LET k == IF IsLetter(key) \/ key = "shift"
             THEN UpdateAlphabetShiftState(s.kb, c[p]) ELSE s.kb
    IN [s EXCEPT !.kb = OnEvent(k, key, c[p]),
                 !.hist.sent = IF IsLetter(key) THEN Append(@, p) ELSE @]

-----------------------------------------------------------------------------
(* Up events, real ones and phantom ones.                                  *)

(* A key sent with no symbol key in use has switched layouts: s is before. *)
LeaveHome(s, r) ==
    [r EXCEPT !.hist.home =
        IF s.kb.symbol = "RELEASING" /\ s.kb.kind # r.kb.kind THEN "none" ELSE @]

UpInternal(s, p, c) ==
    LET t == s.tr[p]
        r == Upd(Undraw(s, p, t.key), p,
                 [t EXCEPT !.drag = FALSE, !.sliding = FALSE,
                           !.detecting = FALSE, !.key = "none"])
        sent == IF t.key = "none" THEN r
                ELSE LeaveHome(s, Release(CodeInput(r, p, t.key, c), p, t.key, FALSE, c))
    IN CASE s.gest -> [r EXCEPT !.gest = Len(s.queue) # 1]
         [] ~s.gest /\ t.moved -> [r EXCEPT !.tr[p].moved = FALSE]
         [] ~s.gest /\ ~t.moved /\ t.disabled -> r
         [] OTHER -> IF t.sliding THEN Kb(sent, OnFinishSlidingInput(sent.kb, c[p]))
                     ELSE sent

PhantomUp(s, p, c) == Disable(UpInternal(s, p, c), {p})

(* The queued trackers in ps, oldest first, get a phantom up.  The queue   *)
(* keeps its size until the loop over it is done.                          *)
PhantomUps(s, ps, c) ==
    LET done[n \in 0 .. Len(s.queue)] ==
          IF n = 0 THEN s
          ELSE IF s.queue[n] \in ps THEN PhantomUp(done[n - 1], s.queue[n], c)
          ELSE done[n - 1]
    IN done[Len(s.queue)]

ReleaseAll(s, c) == [PhantomUps(s, Pointer, c) EXCEPT !.queue = <<>>]

ReleaseAllExcept(s, p, c) ==
    [PhantomUps(s, Pointer \ {p}, c) EXCEPT !.queue = Keep(@, {p})]

(* Trackers on a modifier key stay.  When p itself is no longer queued,    *)
(* every tracker counts as older.                                          *)
Older(q, p) == {q[i] : i \in {i \in DOMAIN q : \A j \in 1 .. i : q[j] # p}}

(* Faulty variant: older trackers are not released.                        *)
ReleaseOlderThanNone(s, p, c) == s

ReleaseOlderThan(s, p, c) ==
    LET goes == {q \in Older(s.queue, p) : s.tr[q].key \notin Modifier}
    IN [PhantomUps(s, goes, c) EXCEPT !.queue = Keep(@, Pointer \ goes)]

(* Faulty variant: the tracker stays in the queue.                         *)
OnUpEventStaysQueued(s, p, c) ==
    LET older == IF s.gest THEN s
                 ELSE IF s.tr[p].key \in Modifier THEN ReleaseAllExcept(s, p, c)
                 ELSE ReleaseOlderThan(s, p, c)
    IN UpInternal(older, p, c)

OnUpEvent(s, p, c) ==
    LET older == IF s.gest THEN s
                 ELSE IF s.tr[p].key \in Modifier THEN ReleaseAllExcept(s, p, c)
                 ELSE ReleaseOlderThan(s, p, c)
    IN Without(UpInternal(older, p, c), p)

-----------------------------------------------------------------------------
(* Down and move events.                                                   *)

(* Faulty variant: a modifier key releases nobody.                         *)
ShouldReleaseForLetters(k, key) == IsLetter(key) /\ ~PageLocked(k)

ShouldReleaseAllPointers(k, key) ==
    key \in Modifier \/ (IsLetter(key) /\ ~PageLocked(k) /\ ~k.drawn)

(* startLongPressTimer and setPressedKeyGraphics.                          *)
StartTimer(s, p, key) ==
    [s EXCEPT !.kb.timer = IF key = "shift" /\ IsAlphabet(s.kb) /\ ~s.gest
                           THEN {p} ELSE {},
              !.kb.drawn = @ \/ key = "shift"]

Released(s, key, c) ==
    IF ShouldReleaseAllPointers(s.kb, key) THEN ReleaseAll(s, c) ELSE s

OnDownEvent(s, p, key, c) ==
    LET added == [s EXCEPT !.queue = Append(@, p)]
        t == [s.tr[p] EXCEPT !.down = TRUE, !.key = key, !.drag = FALSE,
                             !.sliding = FALSE, !.disabled = FALSE]
        pressed == StartTimer(Press(Upd(added, p, t), p, key, c), p, key)
    IN [pressed EXCEPT !.tr[p].detecting =
            IF Gestures THEN IsAlphabet(pressed.kb) /\ key \notin Modifier ELSE @]

DragOut(s, p, c) ==
    LET t == s.tr[p]
        r == Release(Undraw(s, p, t.key), p, t.key, TRUE, c)
    IN Upd(r, p, [t EXCEPT !.drag = TRUE,
                           !.sliding = IF t.drag THEN @ ELSE t.key \in Modifier])

DragInto(s, p, key, c) ==
    LET r == [Press(s, p, key, c) EXCEPT !.tr[p].key = key]
    IN IF r.tr[p].disabled THEN r ELSE StartTimer(r, p, key)

Drag(s, p, key, c) ==
    LET old == s.tr[p].key
        out == IF old = "none" THEN s ELSE DragOut(s, p, c)
        new == IF key = "none" THEN [out EXCEPT !.tr[p].key = "none"]
               ELSE DragInto(out, p, key, c)
    IN [new EXCEPT !.hist.home = IF {old, key} \cap Modifier = {} THEN @ ELSE "none"]

CancelBatchInput(s, p) == [DisableAll(s) EXCEPT !.tr[p].detecting = FALSE, !.gest = FALSE]

-----------------------------------------------------------------------------
CapsOf == [Pointer -> Caps]
Always(c) == [p \in Pointer |-> c]   \* one tracker calls, or a disabled one, which does not

Init ==
    /\ kb = FreshState
    /\ tracker = [p \in Pointer |-> Idle]
    /\ queue = <<>>
    /\ inGesture = FALSE
    /\ shown = FALSE
    /\ hist = NoHistory

(* A cursor slide that ended while a gesture went on leaves mCursorMoved   *)
(* set: the pointer's next touch, whatever its key, is swallowed.          *)
OnSpaceBar(p) == tracker[p].key = "space" /\ ~tracker[p].drag
Swallows == \E p \in Pointer : tracker[p].moved /\ ~OnSpaceBar(p)

Down(p) ==
    /\ shown /\ ~tracker[p].down
    /\ \E c \in CapsOf, key \in KeysOf(kb.kind) :
         LET s == Released(Now, key, c)
         IN \E at \in KeysAt(s.kb.kind, key) : Become(OnDownEvent(s, p, at, c), Swallows)

Up(p) ==
    /\ tracker[p].down
    /\ \E c \in CapsOf :
         Become([OnUpEvent(Now, p, c) EXCEPT !.tr[p].down = FALSE], Swallows)

Moves(p) == shown /\ tracker[p].down /\ ~tracker[p].disabled

MoveCursor(p) ==
    /\ Moves(p) /\ OnSpaceBar(p)
    /\ Become([Now EXCEPT !.tr[p].moved = TRUE], FALSE)

MoveToKey(p) ==
    /\ Moves(p) /\ ~OnSpaceBar(p) /\ ~inGesture
    /\ \E c \in Caps, key \in (KeysOf(kb.kind) \cup {"none"}) \ {tracker[p].key} :
         Become(Drag(Now, p, key, Always(c)), FALSE)

(* The stroke becomes a gesture, or goes on as one.                        *)
MoveInGesture(p) ==
    /\ Moves(p) /\ ~OnSpaceBar(p)
    /\ inGesture \/ (tracker[p].detecting /\ "letter" \in KeysOf(kb.kind))
    /\ LET s == [Now EXCEPT !.gest = TRUE, !.tr[p].key = "none"]
           r == [s EXCEPT !.kb.drawn = @ /\ tracker[p].key # "shift",
                          !.kb.timer = IF inGesture THEN @ ELSE @ \ {p}]
       IN Become(r, TRUE)

(* The stroke leaves the valid area.                                       *)
MoveOutside(p) ==
    /\ Moves(p) /\ ~OnSpaceBar(p) /\ tracker[p].detecting
    /\ Become(Drag(CancelBatchInput(Now, p), p, "none", Always(FALSE)), TRUE)

(* ACTION_CANCEL: the window takes every finger away.                      *)
CancelEvent(p) ==
    /\ tracker[p].down
    /\ LET r == ReleaseAll(CancelBatchInput(Now, p), Always(FALSE))
           s == Undraw(r, p, r.tr[p].key)
       IN Become([s EXCEPT !.tr = [q \in Pointer |->
                     [s.tr[q] EXCEPT !.down = FALSE, !.drag = @ /\ q # p,
                                     !.sliding = @ /\ q # p]]], TRUE)

(* A long press on shift types the caps lock code instead.                 *)
LongPress(p) ==
    /\ p \in kb.timer
    /\ LET s == [Now EXCEPT !.kb.timer = {}]
           t == [tracker[p] EXCEPT !.drag = FALSE, !.sliding = FALSE, !.disabled = TRUE]
           stopped == Without(Undraw(Upd(s, p, t), p, t.key), p)
       IN IF tracker[p].moved \/ tracker[p].key # "shift" THEN Become(s, FALSE)
          ELSE \E c \in Caps :
                 LET pressed == OnPressKey(stopped.kb, "capslock", c)
                     k == OnReleaseKey(OnEvent(pressed, "capslock", c), "capslock", FALSE, c)
                 IN Become(Kb(stopped, k), TRUE)

DoubleTapTimeout ==
    /\ kb.armed
    /\ Become([Now EXCEPT !.kb.armed = FALSE], FALSE)

-----------------------------------------------------------------------------
(* Calls from outside the keyboard view.                                   *)

(* cancelAllOngoingEvents: timers, key graphics and trackers.              *)
Closing(s) == DisableAll([s EXCEPT !.kb.timer = {}, !.kb.drawn = FALSE])
Load(s, numeric, c) ==
    [s EXCEPT !.kb = OnLoadKeyboard(@, numeric, c), !.hist.home = "none"]

HideWindow ==
    /\ shown /\ shown' = FALSE
    /\ Step(Closing(Now), TRUE)

StartInput ==
    /\ shown' = TRUE
    /\ \E numeric \in BOOLEAN, c \in Caps : Step(Load(Closing(Now), numeric, c), TRUE)

RestartInput ==
    /\ shown
    /\ \E numeric \in BOOLEAN, c \in Caps :
         LET k == UpdateAlphabetShiftState(OnResetToAlphabet(kb, numeric, c), c)
         IN Become([Kb(Now, k) EXCEPT !.hist.home = "none"], FALSE)

(* A rotation saves the state before the framework takes the window down,  *)
(* to build another one and, most of the time, start input again.          *)
ConfigurationChanged ==
    /\ shown /\ shown' = FALSE
    /\ Step(Kb(Closing(Now), OnSaveKeyboardState(Closing(Now).kb)), TRUE)

(* recreateKeyboard: the same field with a new theme or size.              *)
RecreateKeyboard == \E c \in Caps : Become(Load(Now, kb.kind = "basic", c), FALSE)

(* requestUpdatingShiftState, whenever the text or the selection changed.  *)
EngineUpdatesShift ==
    \E c \in Caps : Become(Kb(Now, UpdateAlphabetShiftState(kb, c)), FALSE)

Next ==
    \/ \E p \in Pointer :
         \/ Down(p) \/ Up(p) \/ LongPress(p) \/ CancelEvent(p)
         \/ MoveCursor(p) \/ MoveToKey(p) \/ MoveInGesture(p) \/ MoveOutside(p)
    \/ DoubleTapTimeout
    \/ HideWindow \/ StartInput \/ RestartInput
    \/ ConfigurationChanged \/ RecreateKeyboard \/ EngineUpdatesShift

Spec == Init /\ [][Next]_vars

-----------------------------------------------------------------------------
(* The types of the tracker table, the queue and the keyboard state; a     *)
(* pointer is queued at most once, and only while its finger is down.      *)
TouchTypeOK ==
    /\ tracker \in [Pointer -> Tracker]
    /\ IsInjective(queue)
    /\ ToSet(queue) \subseteq {p \in Pointer : tracker[p].down}
    /\ {inGesture, shown} \subseteq BOOLEAN
    /\ kb.kind \in Kinds /\ kb.page \in Pages /\ kb.alpha \in ShiftStates
    /\ kb.shift \in KeyStates /\ kb.symbol \in KeyStates
    /\ kb.timer \subseteq ToSet(queue) /\ Cardinality(kb.timer) <= 1

HoldsModifier(p) == tracker[p].key \in Modifier /\ ~tracker[p].drag

(* At most one queued finger holds shift or symbols: pressing one gives    *)
(* every finger before it a phantom up, and whatever is pressed while it   *)
(* is held cannot turn a second one into a modifier.                       *)
OneModifier ==
    \A p, q \in ToSet(queue) : HoldsModifier(p) /\ HoldsModifier(q) => p = q

(* Shift and symbols are in use only while an active tracker holds the key *)
(* or slides from it, unless a tracker was stopped meanwhile (a gesture, a *)
(* cancel, a long press on shift, a closed window, a swallowed touch),     *)
(* which nobody reports to KeyboardState.                                  *)
ModifiersRest ==
    InUse(kb) /\ ~hist.lost =>
        \E p \in ToSet(queue) : ~tracker[p].disabled
                                /\ (HoldsModifier(p) \/ tracker[p].sliding)

(* The keyboard comes back as it looks.  A shift lock kept while letters   *)
(* are shown is visible: the alphabet never looks unlocked while the next  *)
(* visit to it would be locked.  And the symbol key returns to the number  *)
(* layout exactly when that was the last one of the two.                   *)
ComesBackAsShown ==
    /\ IsAlphabet(kb) /\ IsLocked(kb.alpha) => kb.page \in {"ShiftLocked", "Alt"}
    /\ kb.kind = "number" => kb.prefersNumber
    /\ kb.kind = "symbols" => ~kb.prefersNumber

Pending(p) == ~tracker[p].disabled /\ ~tracker[p].moved /\ IsLetter(tracker[p].key)

(* Letters are sent in the order their fingers went down: before a         *)
(* pointer's letter goes out, every older pointer with a letter to send    *)
(* has sent it, in the same step.                                          *)
SentInPressOrder ==
    [][\A i \in DOMAIN hist'.sent :
         LET p == hist'.sent[i] IN
         \A q \in Older(queue, p) :
            Contains(queue, p) /\ Pending(q) => \E j \in 1..(i - 1) : hist'.sent[j] = q]_vars

(* Symbols are momentary when typed in a chord: the symbol key's release   *)
(* brings back the layout it was pressed on.  Not when a finger was dragged *)
(* off or onto a modifier key: leaving the symbol key, lifting on a        *)
(* modifier key and ending a slide each switch the layout once more.       *)
SymbolsMomentary ==
    [][/\ kb.symbol = "CHORDING" /\ kb'.symbol = "RELEASING"
       /\ ~hist.lost /\ hist'.home # "none"
       => kb'.kind = hist.home]_vars

(* KeyboardStateSingleTouchTests.java:866: wherever shift lock is shown,   *)
(* it is maintained: to tap the symbol key twice would show it again.      *)
TapSymbol(k) ==
    OnReleaseKey(OnEvent(OnPressKey(k, "symbol", FALSE), "symbol", FALSE),
                 "symbol", FALSE, FALSE)
LockMaintained ==
    IsAlphabet(kb) /\ kb.page = "ShiftLocked" /\ ~InUse(kb) =>
        TapSymbol(TapSymbol(kb)).page = "ShiftLocked"
=============================================================================
