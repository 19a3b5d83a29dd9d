---------------------------- MODULE KeyboardState ----------------------------
(***************************************************************************)
(* KeyboardState.kt: which layout and page the keyboard shows, and what    *)
(* the shift and symbol keys are doing.  Every event is a function from a  *)
(* state k to the next one, because one touch makes several calls; see     *)
(* TouchInput, which makes them.                                           *)
(*                                                                         *)
(* The four alphabet layouts count as one kind and the four alternative    *)
(* pages as "Alt".  `c` is TRUE when the editor asks for capitals          *)
(* (autoCapsFlags # CAP_MODE_OFF).                                         *)
(***************************************************************************)
Kinds == {"alphabet", "symbols", "number", "basic"}
Pages == {"Base", "Shifted", "ManuallyShifted", "ShiftLocked", "Alt"}
Codes == {"shift", "symbol", "letter", "space", "number", "alt", "capslock"}
Modifier == {"shift", "symbol"}
ShiftStates == {"UNSHIFTED", "MANUAL_SHIFTED", "SHIFT_LOCKED", "SHIFT_LOCK_SHIFTED"}
KeyStates == {"RELEASING", "PRESSING", "CHORDING"}

NotSaved == [valid |-> FALSE, kind |-> "alphabet", page |-> "Base", number |-> FALSE]

(* `armed`: shiftTime holds a tap younger than the double-tap timeout.     *)
(* `drawn`: the shift keys of the keyboard shown are drawn pressed;        *)
(* `timer`: the pointer whose long press will lock shift, if any.  Each    *)
(* layout change shows a keyboard with new keys and cancels the timer.     *)
FreshState ==
    [kind |-> "alphabet", page |-> "Base", alpha |-> "UNSHIFTED",
     shift |-> "RELEASING", symbol |-> "RELEASING", armed |-> FALSE,
     prefersNumber |-> FALSE, saved |-> NotSaved, drawn |-> FALSE, timer |-> {}]

-----------------------------------------------------------------------------
(* AlphabetShiftState, ModifierKeyState.                                   *)

IsLocked(a) == a \in {"SHIFT_LOCKED", "SHIFT_LOCK_SHIFTED"}
SetShifted(a, on) ==
    CASE on /\ a = "UNSHIFTED" -> "MANUAL_SHIFTED"
      [] on /\ a = "SHIFT_LOCKED" -> "SHIFT_LOCK_SHIFTED"
      [] ~on /\ a = "MANUAL_SHIFTED" -> "UNSHIFTED"
      [] ~on /\ a = "SHIFT_LOCK_SHIFTED" -> "SHIFT_LOCKED"
      [] OTHER -> a
SetLocked(a, on) ==
    IF ~on THEN "UNSHIFTED"
    ELSE IF a = "SHIFT_LOCK_SHIFTED" THEN a ELSE "SHIFT_LOCKED"
Chorded(m) == IF m = "PRESSING" THEN "CHORDING" ELSE m

-----------------------------------------------------------------------------
IsAlphabet(k) == k.kind = "alphabet"
Shifted(k) == k.page \in {"Shifted", "ManuallyShifted", "ShiftLocked"}
PageLocked(k) == k.page \in {"Base", "ShiftLocked"}

SetLayout(k, kind, page) ==
    [k EXCEPT !.kind = kind, !.page = page, !.drawn = FALSE, !.timer = {}]

(* Faulty variant: alphabetShiftState is forgotten.                        *)
ToggleShiftKeepsLock(k, on, manually) ==
    SetLayout(k, k.kind, IF ~on THEN "Base" ELSE "ManuallyShifted")

ToggleShift(k, on, manually) ==
    LET j == SetLayout(k, k.kind, IF ~on THEN "Base"
                                  ELSE IF manually THEN "ManuallyShifted" ELSE "Shifted")
    IN IF IsAlphabet(k)
       THEN [j EXCEPT !.alpha = SetLocked(SetShifted(@, on), j.page = "ShiftLocked")]
       ELSE j

LockShift(k) ==
    LET j == [k EXCEPT !.alpha = SetLocked(@, ~IsLocked(@))]
    IN IF ~IsAlphabet(k) THEN k
       ELSE IF IsLocked(j.alpha) THEN SetLayout(j, k.kind, "ShiftLocked") ELSE j

(* The engine's request and the end of every typed letter: shift for a     *)
(* capital, or take an unlocked shift or alternative page back.            *)
UpdateAlphabetShiftState(k, c) ==
    IF ~IsAlphabet(k) \/ k.shift # "RELEASING" THEN k
    ELSE IF c
    THEN IF k.page = "Base" THEN ToggleShift(k, TRUE, FALSE) ELSE k
    ELSE IF PageLocked(k) THEN k ELSE ToggleShift(k, FALSE, FALSE)

SetAlphabetLayout(k, c) ==
    UpdateAlphabetShiftState(
        SetLayout(k, "alphabet",
                  CASE IsLocked(k.alpha) -> "ShiftLocked"
                    [] k.alpha = "MANUAL_SHIFTED" -> "ManuallyShifted"
                    [] OTHER -> "Base"), c)

SetSymbolLayout(k) ==
    IF k.kind = "number" \/ ~k.prefersNumber
    THEN SetLayout([k EXCEPT !.prefersNumber = FALSE], "symbols", "Base")
    ELSE SetLayout(k, "number", "Base")

ShiftTap(k) ==
    IF ~IsAlphabet(k) THEN [k EXCEPT !.armed = FALSE]
    ELSE IF ~k.armed THEN [k EXCEPT !.armed = TRUE]
    ELSE [LockShift(k) EXCEPT !.armed = FALSE]

OnPressKey(k, code, c) ==
    LET j == IF code = "shift" THEN k ELSE [k EXCEPT !.armed = FALSE] IN
    CASE code = "shift" ->
           ShiftTap(ToggleShift([j EXCEPT !.shift = "PRESSING"], ~Shifted(j), TRUE))
      [] code = "capslock" -> j
      [] code = "symbol" ->
           LET i == [j EXCEPT !.symbol = "PRESSING"]
           IN IF i.kind \in {"symbols", "number"}
              THEN SetAlphabetLayout(i, c) ELSE SetSymbolLayout(i)
      [] OTHER -> [j EXCEPT !.shift = Chorded(@), !.symbol = Chorded(@)]

(* Faulty variant: every chord ends on letters.                            *)
FinalizeChordToAlphabet(k, c) ==
    IF k.symbol = "CHORDING" THEN SetAlphabetLayout(k, c) ELSE k

FinalizeChord(k, c) ==
    CASE k.shift = "CHORDING" /\ Shifted(k) -> ToggleShift(k, FALSE, FALSE)
      [] ~(k.shift = "CHORDING" /\ Shifted(k)) /\ k.symbol = "CHORDING" ->
           IF IsAlphabet(k) THEN SetSymbolLayout(k) ELSE SetAlphabetLayout(k, c)
      [] OTHER -> k

OnReleaseKey(k, code, sliding, c) ==
    CASE code = "shift" ->
           LET j == FinalizeChord(k, c)
           IN IF sliding THEN j ELSE [j EXCEPT !.shift = "RELEASING"]
      [] code = "symbol" ->
           LET j == FinalizeChord(k, c)
           IN IF sliding THEN j ELSE [j EXCEPT !.symbol = "RELEASING"]
      [] code = "capslock" -> LockShift(k)
      [] code = "space" /\ k.symbol = "RELEASING" /\ k.page = "Base"
                        /\ k.kind = "symbols" -> SetAlphabetLayout(k, c)
      [] OTHER -> k

(* Faulty variant: a slide ends for the shift key only.                    *)
OnFinishSlidingShift(k, c) == [FinalizeChord(k, c) EXCEPT !.shift = "RELEASING"]

OnFinishSlidingInput(k, c) ==
    [FinalizeChord(k, c) EXCEPT !.shift = "RELEASING", !.symbol = "RELEASING"]

SwitchToAltLayout(k, c) ==
    IF k.page = "Alt" THEN UpdateAlphabetShiftState(ToggleShift(k, FALSE, FALSE), c)
    ELSE SetLayout([k EXCEPT !.alpha = SetShifted(@, FALSE)], k.kind, "Alt")

OnEvent(k, code, c) ==
    CASE code = "number" ->
           IF k.kind = "number"
           THEN SetSymbolLayout([k EXCEPT !.prefersNumber = FALSE])
           ELSE SetLayout([k EXCEPT !.prefersNumber = TRUE], "number", "Base")
      [] code = "alt" -> SwitchToAltLayout(k, c)
      [] code \in {"letter", "space"} -> UpdateAlphabetShiftState(k, c)
      [] OTHER -> k

OnSaveKeyboardState(k) ==
    [k EXCEPT !.saved = [valid |-> TRUE, kind |-> k.kind, page |-> k.page,
                         number |-> k.prefersNumber]]

(* `numeric`: the field takes numbers, dates or a phone number.            *)
OnLoadKeyboard(k, numeric, c) ==
    LET j == [k EXCEPT !.alpha = SetLocked(@, FALSE), !.shift = "RELEASING",
                       !.symbol = "RELEASING"]
        i == CASE numeric -> SetLayout(j, "basic", "Base")
               [] ~numeric /\ k.saved.valid ->
                    UpdateAlphabetShiftState(
                        [SetLayout(j, k.saved.kind, k.saved.page)
                            EXCEPT !.prefersNumber = k.saved.number], c)
               [] OTHER -> SetAlphabetLayout(j, c)
    IN [i EXCEPT !.saved = NotSaved]

OnResetToAlphabet(k, numeric, c) ==
    IF numeric THEN OnLoadKeyboard(k, numeric, c) ELSE SetAlphabetLayout(k, c)
=============================================================================
