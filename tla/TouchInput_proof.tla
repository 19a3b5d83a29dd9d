--------------------------- MODULE TouchInput_proof ---------------------------
(***************************************************************************)
(* Theorems about the touch input and the keyboard state, for any number   *)
(* of fingers and any keys of the layouts: the types, that the keyboard    *)
(* comes back as it looks, that one finger at a time holds a modifier key, *)
(* that a modifier key in use has somebody to release it, that letters go  *)
(* out in the order their fingers went down, and that symbols are          *)
(* momentary in a chord.                                                   *)
(*                                                                         *)
(* From the calls up: each keyboard event, each call of a tracker, the     *)
(* loop over the queue, each handler, each action.  What a call does is    *)
(* said once, by a relation of the state before and the one after.         *)
(***************************************************************************)
EXTENDS TouchInput, TLAPS, WellFoundedInduction, FiniteSetTheorems

-----------------------------------------------------------------------------
(* The keyboard state: what each of its events keeps.                      *)

Snapshots == [valid : BOOLEAN, kind : Kinds, page : Pages, number : BOOLEAN]
KeyboardTypes ==
    [kind : Kinds, page : Pages, alpha : ShiftStates, shift : KeyStates,
     symbol : KeyStates, armed : BOOLEAN, prefersNumber : BOOLEAN,
     saved : Snapshots, drawn : BOOLEAN, timer : SUBSET Pointer]

\* The three parts of ComesBackAsShown, and the last two for a saved state.
LockShows(k) == k.kind = "alphabet" /\ IsLocked(k.alpha) => k.page \in {"ShiftLocked", "Alt"}
PrefersShown(kind, number) ==
    (kind = "number" => number = TRUE) /\ (kind = "symbols" => number = FALSE)
KeyboardOK(k) ==
    /\ k \in KeyboardTypes
    /\ LockShows(k) /\ PrefersShown(k.kind, k.prefersNumber)
    /\ PrefersShown(k.saved.kind, k.saved.number)

\* What an event leaves of the graphics and the timers: all or nothing.
Cleared(k, j) == j.timer \in {k.timer, {}} /\ j.drawn \in {k.drawn, FALSE}

\* What SetLayout does.
LaidOut(k, kind, page, j) ==
    /\ j \in KeyboardTypes /\ j.kind = kind /\ j.page = page
    /\ j.alpha = k.alpha /\ j.prefersNumber = k.prefersNumber /\ j.saved = k.saved
    /\ j.shift = k.shift /\ j.symbol = k.symbol /\ j.timer = {} /\ j.drawn = FALSE

LEMMA SetLayoutKeeps ==
    ASSUME NEW k \in KeyboardTypes, NEW kind \in Kinds, NEW page \in Pages
    PROVE  LaidOut(k, kind, page, SetLayout(k, kind, page))
BY DEF SetLayout, KeyboardTypes, LaidOut

LEMMA ShiftStateTypes ==
    ASSUME NEW a \in ShiftStates, NEW on
    PROVE  SetShifted(a, on) \in ShiftStates /\ SetLocked(a, on) \in ShiftStates
BY DEF SetShifted, SetLocked, ShiftStates

\* What most events leave alone.
Frame(k, j) == j.shift = k.shift /\ j.symbol = k.symbol /\ Cleared(k, j)
SameLayout(k, j) == j.kind = k.kind /\ j.prefersNumber = k.prefersNumber

LEMMA ToggleShiftKeeps ==
    ASSUME NEW k, KeyboardOK(k), NEW on, NEW manually
    PROVE  LET j == ToggleShift(k, on, manually)
           IN KeyboardOK(j) /\ Frame(k, j) /\ SameLayout(k, j)
<1> DEFINE page == IF ~on THEN "Base"
                   ELSE IF manually THEN "ManuallyShifted" ELSE "Shifted"
           i == SetLayout(k, k.kind, page)
           a == SetLocked(SetShifted(i.alpha, on), i.page = "ShiftLocked")
<1>1. k \in KeyboardTypes /\ k.kind \in Kinds /\ page \in Pages /\ page # "ShiftLocked"
  BY DEF KeyboardOK, KeyboardTypes, Pages
<1> HIDE DEF page
<1>2. LaidOut(k, k.kind, page, i)
  BY <1>1, SetLayoutKeeps
<1>3. a \in ShiftStates /\ ~IsLocked(a)
  <2>1. i.alpha \in ShiftStates
    BY <1>2 DEF KeyboardTypes, LaidOut
  <2> QED BY <2>1, <1>1, <1>2, ShiftStateTypes DEF SetLocked, IsLocked, LaidOut
<1>4. ToggleShift(k, on, manually) = IF IsAlphabet(k) THEN [i EXCEPT !.alpha = a] ELSE i
  BY DEF ToggleShift, page
<1> HIDE DEF i, a
<1>5. CASE IsAlphabet(k)
  <2> DEFINE j == [i EXCEPT !.alpha = a]
  <2>1. /\ j \in KeyboardTypes /\ j.alpha = a /\ j.kind = i.kind
        /\ j.prefersNumber = i.prefersNumber /\ j.saved = i.saved /\ j.shift = i.shift
        /\ j.symbol = i.symbol /\ j.timer = i.timer /\ j.drawn = i.drawn
    BY <1>2, <1>3 DEF KeyboardTypes, LaidOut
  <2> HIDE DEF j
  <2>2. LockShows(j)
    BY <1>3, <2>1 DEF LockShows
  <2>3. ToggleShift(k, on, manually) = j
    BY <1>4, <1>5 DEF j
  <2> QED BY <1>2, <2>1, <2>2, <2>3 DEF KeyboardOK, Frame, SameLayout, Cleared, LaidOut
<1>6. CASE ~IsAlphabet(k)
  <2>1. LockShows(i)
    BY <1>2, <1>6 DEF LockShows, IsAlphabet, LaidOut
  <2> QED BY <1>2, <1>4, <1>6, <2>1 DEF KeyboardOK, Frame, SameLayout, Cleared, LaidOut
<1> QED BY <1>5, <1>6

LEMMA LockShiftKeeps ==
    ASSUME NEW k, KeyboardOK(k)
    PROVE  LET j == LockShift(k)
           IN KeyboardOK(j) /\ Frame(k, j) /\ SameLayout(k, j)
<1> DEFINE a == SetLocked(k.alpha, ~IsLocked(k.alpha))
           i == [k EXCEPT !.alpha = a]
           l == SetLayout(i, k.kind, "ShiftLocked")
<1>1. k \in KeyboardTypes /\ k.kind \in Kinds /\ "ShiftLocked" \in Pages
  BY DEF KeyboardOK, KeyboardTypes, Pages
<1>2. a \in ShiftStates
  BY <1>1, ShiftStateTypes DEF KeyboardTypes
<1>3. LockShift(k) = IF ~IsAlphabet(k) THEN k ELSE IF IsLocked(i.alpha) THEN l ELSE i
  BY DEF LockShift
<1> HIDE DEF a
<1>4. /\ i \in KeyboardTypes /\ i.alpha = a /\ i.kind = k.kind
      /\ i.prefersNumber = k.prefersNumber /\ i.saved = k.saved /\ i.shift = k.shift
      /\ i.symbol = k.symbol /\ i.timer = k.timer /\ i.drawn = k.drawn
  BY <1>1, <1>2 DEF KeyboardTypes
<1> HIDE DEF i
<1>5. LaidOut(i, k.kind, "ShiftLocked", l)
  BY <1>1, <1>4, SetLayoutKeeps
<1> HIDE DEF l
<1>6. LockShows(l) /\ (~IsLocked(a) => LockShows(i))
  BY <1>4, <1>5 DEF LockShows, LaidOut
<1> QED
  BY <1>3, <1>4, <1>5, <1>6 DEF KeyboardOK, Frame, SameLayout, Cleared, LaidOut

LEMMA UpdateShiftKeeps ==
    ASSUME NEW k, KeyboardOK(k), NEW c
    PROVE  LET j == UpdateAlphabetShiftState(k, c)
           IN KeyboardOK(j) /\ Frame(k, j) /\ SameLayout(k, j)
<1>1. KeyboardOK(k) /\ Frame(k, k) /\ SameLayout(k, k)
  BY DEF Frame, Cleared, SameLayout
<1> QED BY <1>1, ToggleShiftKeeps DEF UpdateAlphabetShiftState

LEMMA SetAlphabetKeeps ==
    ASSUME NEW k, KeyboardOK(k), NEW c
    PROVE  LET j == SetAlphabetLayout(k, c)
           IN /\ KeyboardOK(j) /\ Frame(k, j)
              /\ j.kind = "alphabet" /\ j.prefersNumber = k.prefersNumber
<1> DEFINE page == CASE IsLocked(k.alpha) -> "ShiftLocked"
                     [] k.alpha = "MANUAL_SHIFTED" -> "ManuallyShifted"
                     [] OTHER -> "Base"
           i == SetLayout(k, "alphabet", page)
<1>1. k \in KeyboardTypes /\ page \in Pages /\ "alphabet" \in Kinds
  BY DEF KeyboardOK, Pages, Kinds, IsLocked
<1>2. IsLocked(k.alpha) => page = "ShiftLocked"
  BY DEF IsLocked
<1>3. SetAlphabetLayout(k, c) = UpdateAlphabetShiftState(i, c)
  BY DEF SetAlphabetLayout
<1> HIDE DEF page
<1>4. LaidOut(k, "alphabet", page, i)
  BY <1>1, SetLayoutKeeps
<1> HIDE DEF i
<1>5. KeyboardOK(i)
  BY <1>2, <1>4 DEF KeyboardOK, LockShows, PrefersShown, LaidOut
<1>6. LET j == UpdateAlphabetShiftState(i, c)
      IN KeyboardOK(j) /\ Frame(i, j) /\ SameLayout(i, j)
  BY <1>5, UpdateShiftKeeps
<1> QED BY <1>3, <1>4, <1>6 DEF Frame, Cleared, SameLayout, LaidOut

LEMMA SetSymbolKeeps ==
    ASSUME NEW k, KeyboardOK(k)
    PROVE  LET j == SetSymbolLayout(k)
           IN /\ KeyboardOK(j) /\ Frame(k, j)
              /\ j.kind = IF k.kind = "number" \/ ~k.prefersNumber THEN "symbols" ELSE "number"
<1> DEFINE i == [k EXCEPT !.prefersNumber = FALSE]
           l == SetLayout(i, "symbols", "Base")
           n == SetLayout(k, "number", "Base")
<1>1. /\ k \in KeyboardTypes /\ "Base" \in Pages /\ "symbols" \in Kinds /\ "number" \in Kinds
      /\ k.prefersNumber \in BOOLEAN
  BY DEF KeyboardOK, Pages, Kinds, KeyboardTypes
<1>2. SetSymbolLayout(k) = IF k.kind = "number" \/ ~k.prefersNumber THEN l ELSE n
  BY DEF SetSymbolLayout
<1>3. /\ i \in KeyboardTypes /\ i.prefersNumber = FALSE
      /\ i.saved = k.saved /\ i.shift = k.shift
      /\ i.symbol = k.symbol /\ i.timer = k.timer /\ i.drawn = k.drawn
  BY <1>1 DEF KeyboardTypes
<1> HIDE DEF i
<1>4. LaidOut(i, "symbols", "Base", l)
  BY <1>1, <1>3, SetLayoutKeeps
<1>5. LaidOut(k, "number", "Base", n)
  BY <1>1, SetLayoutKeeps
<1> HIDE DEF l, n
<1>6. /\ KeyboardOK(l)
      /\ k.prefersNumber => KeyboardOK(n)
  BY <1>1, <1>3, <1>4, <1>5 DEF KeyboardOK, LockShows, PrefersShown, LaidOut
<1> QED BY <1>1, <1>2, <1>3, <1>4, <1>5, <1>6 DEF Frame, Cleared, LaidOut

-----------------------------------------------------------------------------
(* The events.  Each leaves a keyboard that is OK, and what it does to the *)
(* modifier keys and the layout is said once, as a relation of the state   *)
(* before and the one after.                                               *)

\* The end of a chord would bring the layout `home` back.
Returns(k, home) ==
    \/ home = "alphabet" /\ k.kind # "alphabet"
    \/ home = "symbols" /\ k.kind = "alphabet" /\ k.prefersNumber = FALSE
    \/ home = "number" /\ k.kind = "alphabet" /\ k.prefersNumber = TRUE

Pressed(k, code, j) ==
    /\ KeyboardOK(j) /\ Cleared(k, j)
    /\ code = "shift" => /\ j.shift = "PRESSING" /\ j.symbol = k.symbol
                         /\ SameLayout(k, j)
    /\ code = "symbol" => /\ j.symbol = "PRESSING" /\ j.shift = k.shift
                          /\ k.kind # "basic" => Returns(j, k.kind)
    /\ code = "capslock" => Frame(k, j) /\ SameLayout(k, j)
    /\ code \notin {"shift", "symbol", "capslock"} =>
          /\ j.shift = Chorded(k.shift) /\ j.symbol = Chorded(k.symbol)
          /\ SameLayout(k, j)

Finalized(k, j) ==
    /\ KeyboardOK(j) /\ Frame(k, j)
    /\ k.symbol # "CHORDING" => SameLayout(k, j)
    /\ (k.shift = "RELEASING" /\ k.symbol = "CHORDING") =>
          \A home \in Kinds : Returns(k, home) => j.kind = home

Lifted(k, code, sliding, j) ==
    /\ KeyboardOK(j) /\ Cleared(k, j)
    /\ j.shift = IF code = "shift" /\ ~sliding THEN "RELEASING" ELSE k.shift
    /\ j.symbol = IF code = "symbol" /\ ~sliding THEN "RELEASING" ELSE k.symbol
    /\ code \notin {"shift", "symbol", "space"} => SameLayout(k, j)
    /\ k.symbol = "PRESSING" => SameLayout(k, j)
    /\ (code \in {"shift", "symbol"} /\ k.symbol # "CHORDING") => SameLayout(k, j)
    /\ (code = "space" /\ k.symbol # "RELEASING") => SameLayout(k, j)
    /\ (code \in {"shift", "symbol"} /\ k.shift = "RELEASING" /\ k.symbol = "CHORDING") =>
          \A home \in Kinds : Returns(k, home) => j.kind = home

LEMMA ShiftTapKeeps ==
    ASSUME NEW k, KeyboardOK(k)
    PROVE  LET j == ShiftTap(k)
           IN KeyboardOK(j) /\ Frame(k, j) /\ SameLayout(k, j)
<1> DEFINE Armed(m, on) == [m EXCEPT !.armed = on]
<1>1. ASSUME NEW m, KeyboardOK(m), NEW on \in BOOLEAN
      PROVE  KeyboardOK(Armed(m, on)) /\ Frame(m, Armed(m, on)) /\ SameLayout(m, Armed(m, on))
  <2> DEFINE Same(j) == /\ j \in KeyboardTypes /\ j.kind = m.kind /\ j.page = m.page
                        /\ j.alpha = m.alpha /\ j.prefersNumber = m.prefersNumber
                        /\ j.saved = m.saved /\ j.shift = m.shift /\ j.symbol = m.symbol
                        /\ j.timer = m.timer /\ j.drawn = m.drawn
  <2>1. ASSUME NEW j, Same(j) PROVE KeyboardOK(j) /\ Frame(m, j) /\ SameLayout(m, j)
    BY <1>1, <2>1 DEF KeyboardOK, LockShows, Frame, SameLayout, Cleared
  <2>2. Same(Armed(m, on))
    BY <1>1 DEF KeyboardOK, KeyboardTypes
  <2> HIDE DEF Same
  <2> QED BY <2>1, <2>2
<1>2. KeyboardOK(LockShift(k)) /\ Frame(k, LockShift(k)) /\ SameLayout(k, LockShift(k))
  BY LockShiftKeeps
<1>3. TRUE \in BOOLEAN /\ FALSE \in BOOLEAN
  OBVIOUS
<1>4. ShiftTap(k) \in {Armed(k, FALSE), Armed(k, TRUE), Armed(LockShift(k), FALSE)}
  BY DEF ShiftTap
<1> HIDE DEF Armed
<1>5. LET j == Armed(LockShift(k), FALSE)
      IN KeyboardOK(j) /\ Frame(k, j) /\ SameLayout(k, j)
  <2>1. LET j == Armed(LockShift(k), FALSE)
        IN KeyboardOK(j) /\ Frame(LockShift(k), j) /\ SameLayout(LockShift(k), j)
    BY <1>1, <1>2, <1>3
  <2> QED BY <1>2, <2>1 DEF Frame, SameLayout, Cleared
<1> QED BY <1>1, <1>3, <1>4, <1>5

\* Setting the modifier keys: no part of KeyboardOK reads them but its types.
SameButModifiers(k, j) ==
    /\ j \in KeyboardTypes /\ j.kind = k.kind /\ j.page = k.page
    /\ j.alpha = k.alpha /\ j.prefersNumber = k.prefersNumber
    /\ j.saved = k.saved /\ j.timer = k.timer /\ j.drawn = k.drawn

LEMMA SameModifiers ==
    ASSUME NEW k, KeyboardOK(k), NEW j, SameButModifiers(k, j)
    PROVE  KeyboardOK(j) /\ Cleared(k, j) /\ SameLayout(k, j)
BY DEF KeyboardOK, LockShows, SameLayout, Cleared, SameButModifiers

LEMMA ModifiersKeep ==
    ASSUME NEW k, KeyboardOK(k), NEW m \in KeyStates, NEW n \in KeyStates
    PROVE  LET j == [k EXCEPT !.shift = m, !.symbol = n]
           IN /\ KeyboardOK(j) /\ j.shift = m /\ j.symbol = n
              /\ Cleared(k, j) /\ SameLayout(k, j)
<1>1. LET j == [k EXCEPT !.shift = m, !.symbol = n]
      IN SameButModifiers(k, j) /\ j.shift = m /\ j.symbol = n
  BY DEF KeyboardOK, KeyboardTypes, SameButModifiers
<1> QED BY <1>1, SameModifiers

LEMMA ModifierKeeps ==
    ASSUME NEW k, KeyboardOK(k), NEW m \in KeyStates
    PROVE  LET i == [k EXCEPT !.shift = m]
               l == [k EXCEPT !.symbol = m]
           IN /\ KeyboardOK(i) /\ i.shift = m /\ i.symbol = k.symbol
              /\ Cleared(k, i) /\ SameLayout(k, i)
              /\ KeyboardOK(l) /\ l.shift = k.shift /\ l.symbol = m
              /\ Cleared(k, l) /\ SameLayout(k, l)
<1>1. LET j == [k EXCEPT !.shift = m]
      IN SameButModifiers(k, j) /\ j.shift = m /\ j.symbol = k.symbol
  BY DEF KeyboardOK, KeyboardTypes, SameButModifiers
<1>2. LET j == [k EXCEPT !.symbol = m]
      IN SameButModifiers(k, j) /\ j.shift = k.shift /\ j.symbol = m
  BY DEF KeyboardOK, KeyboardTypes, SameButModifiers
<1> QED BY <1>1, <1>2, SameModifiers

\* The frames compose.
LEMMA FrameChain ==
    ASSUME NEW k, NEW i, NEW j, Frame(k, i), Frame(i, j)
    PROVE  Frame(k, j)
BY DEF Frame, Cleared

\* What is OK after changes of the arming or the modifier keys stays so.
LEMMA DisarmKeeps ==
    ASSUME NEW k, KeyboardOK(k)
    PROVE  LET j == [k EXCEPT !.armed = FALSE]
           IN KeyboardOK(j) /\ Frame(k, j) /\ SameLayout(k, j)
<1> DEFINE Same(j) == /\ j \in KeyboardTypes /\ j.kind = k.kind /\ j.page = k.page
                      /\ j.alpha = k.alpha /\ j.prefersNumber = k.prefersNumber
                      /\ j.saved = k.saved /\ j.shift = k.shift /\ j.symbol = k.symbol
                      /\ j.timer = k.timer /\ j.drawn = k.drawn
<1>1. ASSUME NEW j, Same(j) PROVE KeyboardOK(j) /\ Frame(k, j) /\ SameLayout(k, j)
  BY <1>1 DEF KeyboardOK, LockShows, Frame, SameLayout, Cleared
<1>2. Same([k EXCEPT !.armed = FALSE])
  BY DEF KeyboardOK, KeyboardTypes
<1> HIDE DEF Same
<1> QED BY <1>1, <1>2

LEMMA PressKeeps ==
    ASSUME NEW k, KeyboardOK(k), NEW code \in Codes, NEW c
    PROVE  Pressed(k, code, OnPressKey(k, code, c))
<1> DEFINE j == IF code = "shift" THEN k ELSE [k EXCEPT !.armed = FALSE]
<1>1. KeyboardOK(j) /\ Frame(k, j) /\ SameLayout(k, j)
  BY DisarmKeeps DEF Frame, Cleared, SameLayout
<1> HIDE DEF j
<1>2. /\ "PRESSING" \in KeyStates
      /\ Chorded(j.shift) \in KeyStates /\ Chorded(j.symbol) \in KeyStates
  BY <1>1 DEF KeyboardOK, KeyboardTypes, KeyStates, Chorded
<1>3. CASE code = "shift"
  <2> DEFINE i == [j EXCEPT !.shift = "PRESSING"]
             t == ToggleShift(i, ~Shifted(j), TRUE)
  <2>1. /\ KeyboardOK(i) /\ i.shift = "PRESSING" /\ i.symbol = j.symbol
        /\ Cleared(j, i) /\ SameLayout(j, i)
    BY <1>1, <1>2, ModifierKeeps
  <2>2. KeyboardOK(t) /\ Frame(i, t) /\ SameLayout(i, t)
    BY <2>1, ToggleShiftKeeps
  <2>3. KeyboardOK(ShiftTap(t)) /\ Frame(t, ShiftTap(t)) /\ SameLayout(t, ShiftTap(t))
    BY <2>2, ShiftTapKeeps
  <2>4. OnPressKey(k, code, c) = ShiftTap(t)
    BY <1>3 DEF OnPressKey, j
  <2> HIDE DEF i, t
  <2>5. /\ ShiftTap(t).shift = "PRESSING" /\ ShiftTap(t).symbol = k.symbol
        /\ SameLayout(k, ShiftTap(t)) /\ Cleared(k, ShiftTap(t))
    BY <1>1, <2>1, <2>2, <2>3 DEF Frame, Cleared, SameLayout
  <2> QED BY <1>3, <2>3, <2>4, <2>5 DEF Pressed
<1>4. CASE code = "capslock"
  <2>1. OnPressKey(k, code, c) = j
    BY <1>4 DEF OnPressKey, j
  <2> QED BY <1>1, <1>4, <2>1 DEF Pressed, Frame
<1>5. CASE code = "symbol"
  <2> DEFINE i == [j EXCEPT !.symbol = "PRESSING"]
             l == IF i.kind \in {"symbols", "number"}
                  THEN SetAlphabetLayout(i, c) ELSE SetSymbolLayout(i)
  <2>1. /\ KeyboardOK(i) /\ i.shift = j.shift /\ i.symbol = "PRESSING"
        /\ Cleared(j, i) /\ SameLayout(j, i)
    BY <1>1, <1>2, ModifierKeeps
  <2>2. OnPressKey(k, code, c) = l
    BY <1>5 DEF OnPressKey, j
  <2> HIDE DEF i
  <2>3. /\ KeyboardOK(l) /\ Frame(i, l)
        /\ i.kind \in {"symbols", "number"} =>
              l.kind = "alphabet" /\ l.prefersNumber = i.prefersNumber
        /\ i.kind \notin {"symbols", "number"} => l.kind \in {"symbols", "number"}
    BY <2>1, SetAlphabetKeeps, SetSymbolKeeps
  <2> HIDE DEF l
  <2>4. k.kind # "basic" => Returns(l, k.kind)
    <3>1. k.kind \in Kinds /\ PrefersShown(k.kind, k.prefersNumber)
      BY DEF KeyboardOK, KeyboardTypes
    <3>2. i.kind = k.kind /\ i.prefersNumber = k.prefersNumber
      BY <1>1, <2>1 DEF SameLayout
    <3> QED BY <2>3, <3>1, <3>2 DEF Returns, PrefersShown, Kinds
  <2>5. l.symbol = "PRESSING" /\ l.shift = k.shift /\ Cleared(k, l)
    BY <1>1, <2>1, <2>3 DEF Frame, Cleared
  <2> QED BY <1>5, <2>2, <2>3, <2>4, <2>5 DEF Pressed
<1>6. CASE code \notin {"shift", "symbol", "capslock"}
  <2> DEFINE m == Chorded(j.shift)
             n == Chorded(j.symbol)
             i == [j EXCEPT !.shift = m, !.symbol = n]
  <2>2. OnPressKey(k, code, c) = i
    BY <1>6 DEF OnPressKey, j
  <2>4. m \in KeyStates /\ n \in KeyStates /\ m = Chorded(j.shift) /\ n = Chorded(j.symbol)
    BY <1>2
  <2> HIDE DEF m, n
  <2>5. KeyboardOK(j) /\ m \in KeyStates /\ n \in KeyStates
    BY <1>1, <2>4
  <2>6. SameButModifiers(j, i) /\ i.shift = m /\ i.symbol = n
    BY <2>5 DEF KeyboardOK, KeyboardTypes, SameButModifiers
  <2> HIDE DEF i
  <2>1. KeyboardOK(i) /\ i.shift = m /\ i.symbol = n /\ Cleared(j, i) /\ SameLayout(j, i)
    BY <2>5, <2>6, SameModifiers
  <2>3. i.shift = Chorded(k.shift) /\ i.symbol = Chorded(k.symbol) /\ Cleared(k, i)
        /\ SameLayout(k, i)
    BY <1>1, <2>1, <2>4 DEF Frame, Cleared, SameLayout
  <2> QED BY <1>6, <2>1, <2>2, <2>3 DEF Pressed
<1> QED BY <1>3, <1>4, <1>5, <1>6

LEMMA FinalizeKeeps ==
    ASSUME NEW k, KeyboardOK(k), NEW c
    PROVE  Finalized(k, FinalizeChord(k, c))
<1> DEFINE i == IF IsAlphabet(k) THEN SetSymbolLayout(k) ELSE SetAlphabetLayout(k, c)
<1>1. Finalized(k, k) \/ k.symbol = "CHORDING"
  BY DEF Finalized, Frame, Cleared, SameLayout
<1>2. CASE k.shift = "CHORDING" /\ Shifted(k)
  <2>1. FinalizeChord(k, c) = ToggleShift(k, FALSE, FALSE)
    BY <1>2 DEF FinalizeChord
  <2> QED BY <1>2, <2>1, ToggleShiftKeeps DEF Finalized
<1>3. CASE ~(k.shift = "CHORDING" /\ Shifted(k)) /\ k.symbol = "CHORDING"
  <2>1. FinalizeChord(k, c) = i
    BY <1>3 DEF FinalizeChord
  <2>2. /\ KeyboardOK(i) /\ Frame(k, i)
        /\ k.kind # "alphabet" => i.kind = "alphabet"
        /\ k.kind = "alphabet" =>
              i.kind = IF ~k.prefersNumber THEN "symbols" ELSE "number"
    BY SetAlphabetKeeps, SetSymbolKeeps DEF IsAlphabet
  <2> HIDE DEF i
  <2>3. \A home \in Kinds : Returns(k, home) => i.kind = home
    BY <2>2 DEF Returns
  <2> QED BY <1>3, <2>1, <2>2, <2>3 DEF Finalized
<1>4. CASE ~(k.shift = "CHORDING" /\ Shifted(k)) /\ k.symbol # "CHORDING"
  <2>1. FinalizeChord(k, c) = k
    BY <1>4 DEF FinalizeChord
  <2> QED BY <1>1, <1>4, <2>1
<1> QED BY <1>2, <1>3, <1>4

LEMMA ReleaseKeeps ==
    ASSUME NEW k, KeyboardOK(k), NEW code \in Codes, NEW sliding \in BOOLEAN, NEW c
    PROVE  Lifted(k, code, sliding, OnReleaseKey(k, code, sliding, c))
<1> DEFINE f == FinalizeChord(k, c)
<1>1. Finalized(k, f)
  BY FinalizeKeeps
<1> HIDE DEF f
<1>2. "RELEASING" \in KeyStates /\ KeyboardOK(f) /\ Frame(k, f) /\ KeyboardOK(k)
      /\ Frame(k, k) /\ SameLayout(k, k)
  BY <1>1 DEF KeyStates, Finalized, Frame, Cleared, SameLayout
<1>3. ASSUME NEW j, code \in {"shift", "symbol"}, KeyboardOK(j), SameLayout(f, j),
             Cleared(f, j),
             j.shift = IF code = "shift" /\ ~sliding THEN "RELEASING" ELSE f.shift,
             j.symbol = IF code = "symbol" /\ ~sliding THEN "RELEASING" ELSE f.symbol
      PROVE  Lifted(k, code, sliding, j)
  <2>1. /\ j.shift = IF code = "shift" /\ ~sliding THEN "RELEASING" ELSE k.shift
        /\ j.symbol = IF code = "symbol" /\ ~sliding THEN "RELEASING" ELSE k.symbol
        /\ Cleared(k, j)
    BY <1>2, <1>3 DEF Frame, Cleared
  <2>2. k.symbol # "CHORDING" => SameLayout(k, j)
    BY <1>1, <1>3 DEF Finalized, SameLayout
  <2>3. (k.shift = "RELEASING" /\ k.symbol = "CHORDING") =>
            \A home \in Kinds : Returns(k, home) => j.kind = home
    BY <1>1, <1>3 DEF Finalized, SameLayout
  <2> QED BY <1>3, <2>1, <2>2, <2>3 DEF Lifted
<1>4. CASE code = "shift"
  <2> DEFINE j == [f EXCEPT !.shift = "RELEASING"]
  <2>1. KeyboardOK(j) /\ SameLayout(f, j) /\ Cleared(f, j) /\ j.shift = "RELEASING"
        /\ j.symbol = f.symbol
    BY <1>2, ModifierKeeps
  <2>2. OnReleaseKey(k, code, sliding, c) = IF sliding THEN f ELSE j
    BY <1>4 DEF OnReleaseKey, f
  <2> HIDE DEF j
  <2>3. SameLayout(f, f) /\ Cleared(f, f)
    BY DEF SameLayout, Cleared
  <2>4. CASE sliding
    <3>1. f.shift = IF code = "shift" /\ ~sliding THEN "RELEASING" ELSE f.shift
      BY <2>4
    <3>2. f.symbol = IF code = "symbol" /\ ~sliding THEN "RELEASING" ELSE f.symbol
      BY <2>4
    <3>3. Lifted(k, code, sliding, f)
      BY <1>2, <1>3, <1>4, <2>3, <3>1, <3>2
    <3> QED BY <2>2, <2>4, <3>3
  <2>5. CASE ~sliding
    BY <1>3, <1>4, <2>1, <2>2, <2>5
  <2> QED BY <2>4, <2>5
<1>5. CASE code = "symbol"
  <2> DEFINE j == [f EXCEPT !.symbol = "RELEASING"]
  <2>1. KeyboardOK(j) /\ SameLayout(f, j) /\ Cleared(f, j) /\ j.symbol = "RELEASING"
        /\ j.shift = f.shift
    BY <1>2, ModifierKeeps
  <2>2. OnReleaseKey(k, code, sliding, c) = IF sliding THEN f ELSE j
    BY <1>5 DEF OnReleaseKey, f
  <2> HIDE DEF j
  <2>3. SameLayout(f, f) /\ Cleared(f, f)
    BY DEF SameLayout, Cleared
  <2>4. CASE sliding
    <3>1. f.shift = IF code = "shift" /\ ~sliding THEN "RELEASING" ELSE f.shift
      BY <2>4
    <3>2. f.symbol = IF code = "symbol" /\ ~sliding THEN "RELEASING" ELSE f.symbol
      BY <2>4
    <3>3. Lifted(k, code, sliding, f)
      BY <1>2, <1>3, <1>5, <2>3, <3>1, <3>2
    <3> QED BY <2>2, <2>4, <3>3
  <2>5. CASE ~sliding
    BY <1>3, <1>5, <2>1, <2>2, <2>5
  <2> QED BY <2>4, <2>5
<1>6. CASE code = "capslock"
  <2>1. OnReleaseKey(k, code, sliding, c) = LockShift(k)
    BY <1>6 DEF OnReleaseKey
  <2> QED BY <1>6, <2>1, LockShiftKeeps DEF Lifted, Frame
<1>7. CASE code \notin {"shift", "symbol", "capslock"}
  <2> DEFINE goes == code = "space" /\ k.symbol = "RELEASING" /\ k.page = "Base"
                     /\ k.kind = "symbols"
  <2>1. CASE goes
    <3>1. OnReleaseKey(k, code, sliding, c) = SetAlphabetLayout(k, c)
      BY <1>7, <2>1 DEF OnReleaseKey
    <3> QED BY <1>7, <2>1, <3>1, SetAlphabetKeeps DEF Lifted, Frame
  <2>2. CASE ~goes
    <3>1. OnReleaseKey(k, code, sliding, c) = k
      BY <1>7, <2>2 DEF OnReleaseKey
    <3> QED BY <1>2, <1>7, <3>1 DEF Lifted, Frame
  <2> QED BY <2>1, <2>2
<1> QED BY <1>4, <1>5, <1>6, <1>7

LEMMA FinishSlidingKeeps ==
    ASSUME NEW k, KeyboardOK(k), NEW c
    PROVE  LET j == OnFinishSlidingInput(k, c)
           IN /\ KeyboardOK(j) /\ Cleared(k, j)
              /\ j.shift = "RELEASING" /\ j.symbol = "RELEASING"
              /\ k.symbol # "CHORDING" => SameLayout(k, j)
<1> DEFINE f == FinalizeChord(k, c)
           j == [f EXCEPT !.shift = "RELEASING", !.symbol = "RELEASING"]
<1>1. Finalized(k, f)
  BY FinalizeKeeps
<1>2. OnFinishSlidingInput(k, c) = j
  BY DEF OnFinishSlidingInput
<1> HIDE DEF f
<1>3. "RELEASING" \in KeyStates /\ KeyboardOK(f)
  BY <1>1 DEF KeyStates, Finalized
<1>4. /\ KeyboardOK(j) /\ j.shift = "RELEASING" /\ j.symbol = "RELEASING"
      /\ Cleared(f, j) /\ SameLayout(f, j)
  BY <1>3, ModifiersKeep
<1> HIDE DEF j
<1>5. Cleared(k, j) /\ (k.symbol # "CHORDING" => SameLayout(k, j))
  BY <1>1, <1>4 DEF Finalized, Frame, Cleared, SameLayout
<1> QED BY <1>2, <1>4, <1>5

LEMMA SwitchToAltKeeps ==
    ASSUME NEW k, KeyboardOK(k), NEW c
    PROVE  LET j == SwitchToAltLayout(k, c)
           IN KeyboardOK(j) /\ Frame(k, j) /\ SameLayout(k, j)
<1>1. CASE k.page = "Alt"
  <2> DEFINE t == ToggleShift(k, FALSE, FALSE)
             u == UpdateAlphabetShiftState(t, c)
  <2>1. KeyboardOK(t) /\ Frame(k, t) /\ SameLayout(k, t)
    BY ToggleShiftKeeps
  <2>2. KeyboardOK(u) /\ Frame(t, u) /\ SameLayout(t, u)
    BY <2>1, UpdateShiftKeeps
  <2>3. SwitchToAltLayout(k, c) = u
    BY <1>1 DEF SwitchToAltLayout
  <2> HIDE DEF t, u
  <2> QED BY <2>1, <2>2, <2>3, FrameChain DEF SameLayout
<1>2. CASE k.page # "Alt"
  <2> DEFINE a == SetShifted(k.alpha, FALSE)
             i == [k EXCEPT !.alpha = a]
             l == SetLayout(i, k.kind, "Alt")
  <2>1. k \in KeyboardTypes /\ k.kind \in Kinds /\ "Alt" \in Pages /\ a \in ShiftStates
    BY ShiftStateTypes DEF KeyboardOK, KeyboardTypes, Pages
  <2>2. SwitchToAltLayout(k, c) = l
    BY <1>2 DEF SwitchToAltLayout
  <2> HIDE DEF a
  <2>3. /\ i \in KeyboardTypes /\ i.kind = k.kind
        /\ i.prefersNumber = k.prefersNumber /\ i.saved = k.saved /\ i.shift = k.shift
        /\ i.symbol = k.symbol /\ i.timer = k.timer /\ i.drawn = k.drawn
    BY <2>1 DEF KeyboardTypes
  <2> HIDE DEF i
  <2>4. LaidOut(i, k.kind, "Alt", l)
    BY <2>1, <2>3, SetLayoutKeeps
  <2> HIDE DEF l
  <2> QED
    BY <2>2, <2>3, <2>4 DEF KeyboardOK, LockShows, Frame, SameLayout, Cleared, LaidOut
<1> QED BY <1>1, <1>2

\* The number key goes between symbols and numbers, from wherever it is.
LEMMA EventKeeps ==
    ASSUME NEW k, KeyboardOK(k), NEW code \in Codes, NEW c
    PROVE  LET j == OnEvent(k, code, c)
           IN /\ KeyboardOK(j) /\ Frame(k, j)
              /\ code # "number" => SameLayout(k, j)
              /\ code = "number" => j.kind \in {"symbols", "number"}
<1>1. CASE code = "number"
  <2> DEFINE i == [k EXCEPT !.prefersNumber = FALSE]
             n == [k EXCEPT !.prefersNumber = TRUE]
             l == SetLayout(n, "number", "Base")
             m == SetLayout([i EXCEPT !.prefersNumber = FALSE], "symbols", "Base")
  <2>1. /\ k \in KeyboardTypes /\ "Base" \in Pages /\ "symbols" \in Kinds
        /\ "number" \in Kinds
    BY DEF KeyboardOK, Pages, Kinds
  <2>2. /\ i \in KeyboardTypes /\ i.kind = k.kind
        /\ i.prefersNumber = FALSE /\ i.saved = k.saved /\ i.shift = k.shift
        /\ i.symbol = k.symbol /\ i.timer = k.timer /\ i.drawn = k.drawn
        /\ [i EXCEPT !.prefersNumber = FALSE] = i
    BY <2>1 DEF KeyboardTypes
  <2>3. /\ n \in KeyboardTypes
        /\ n.prefersNumber = TRUE /\ n.saved = k.saved /\ n.shift = k.shift
        /\ n.symbol = k.symbol /\ n.timer = k.timer /\ n.drawn = k.drawn
    BY <2>1 DEF KeyboardTypes
  <2>4. OnEvent(k, code, c) = IF k.kind = "number" THEN m ELSE l
    BY <1>1, <2>2 DEF OnEvent, SetSymbolLayout
  <2>5. LaidOut(i, "symbols", "Base", m)
    BY <2>1, <2>2, SetLayoutKeeps
  <2>6. LaidOut(n, "number", "Base", l)
    BY <2>1, <2>3, SetLayoutKeeps
  <2> HIDE DEF i, n, l, m
  <2> DEFINE saved == k.saved
  <2> HIDE DEF saved
  <2>9. PrefersShown(saved.kind, saved.number) /\ saved = k.saved
    BY DEF KeyboardOK, saved
  <2>10. /\ m \in KeyboardTypes /\ m.kind = "symbols" /\ m.prefersNumber = FALSE
         /\ m.saved = saved /\ Frame(k, m)
    BY <2>2, <2>5, <2>9 DEF Frame, Cleared, LaidOut
  <2>11. /\ l \in KeyboardTypes /\ l.kind = "number" /\ l.prefersNumber = TRUE
         /\ l.saved = saved /\ Frame(k, l)
    BY <2>3, <2>6, <2>9 DEF Frame, Cleared, LaidOut
  <2>12. LockShows(m) /\ LockShows(l)
    BY <2>10, <2>11 DEF LockShows
  <2>13. PrefersShown(m.kind, m.prefersNumber) /\ PrefersShown(l.kind, l.prefersNumber)
    BY <2>10, <2>11 DEF PrefersShown
  <2>7. KeyboardOK(m) /\ Frame(k, m) /\ m.kind = "symbols"
    BY <2>9, <2>10, <2>12, <2>13 DEF KeyboardOK
  <2>8. KeyboardOK(l) /\ Frame(k, l) /\ l.kind = "number"
    BY <2>9, <2>11, <2>12, <2>13 DEF KeyboardOK
  <2> QED BY <1>1, <2>4, <2>7, <2>8
<1>2. CASE code # "number"
  <2>1. KeyboardOK(k) /\ Frame(k, k) /\ SameLayout(k, k)
    BY DEF Frame, Cleared, SameLayout
  <2> QED BY <1>2, <2>1, SwitchToAltKeeps, UpdateShiftKeeps DEF OnEvent
<1> QED BY <1>1, <1>2

\* A snapshot, and what is left of a state that a field is loaded into.
SameButSaved(k, j) ==
    /\ j \in KeyboardTypes /\ j.kind = k.kind /\ j.page = k.page /\ j.alpha = k.alpha
    /\ j.prefersNumber = k.prefersNumber /\ j.shift = k.shift /\ j.symbol = k.symbol
    /\ j.timer = k.timer /\ j.drawn = k.drawn
    /\ PrefersShown(j.saved.kind, j.saved.number)

LEMMA SavedKeeps ==
    ASSUME NEW k, KeyboardOK(k), NEW j, SameButSaved(k, j)
    PROVE  KeyboardOK(j) /\ Frame(k, j) /\ SameLayout(k, j)
BY DEF KeyboardOK, LockShows, Frame, SameLayout, Cleared, SameButSaved

LEMMA SaveKeeps ==
    ASSUME NEW k, KeyboardOK(k)
    PROVE  LET j == OnSaveKeyboardState(k)
           IN KeyboardOK(j) /\ Frame(k, j) /\ SameLayout(k, j)
<1> DEFINE w == [valid |-> TRUE, kind |-> k.kind, page |-> k.page, number |-> k.prefersNumber]
<1>1. w \in Snapshots /\ w.kind = k.kind /\ w.number = k.prefersNumber
  BY DEF KeyboardOK, KeyboardTypes, Snapshots
<1>2. OnSaveKeyboardState(k) = [k EXCEPT !.saved = w]
  BY DEF OnSaveKeyboardState
<1> HIDE DEF w
<1>3. SameButSaved(k, [k EXCEPT !.saved = w])
  BY <1>1 DEF KeyboardOK, KeyboardTypes, SameButSaved
<1> QED BY <1>2, <1>3, SavedKeeps

LEMMA LoadKeeps ==
    ASSUME NEW k, KeyboardOK(k), NEW numeric \in BOOLEAN, NEW c
    PROVE  LET j == OnLoadKeyboard(k, numeric, c)
           IN /\ KeyboardOK(j) /\ Cleared(k, j)
              /\ j.shift = "RELEASING" /\ j.symbol = "RELEASING"
<1> DEFINE a == SetLocked(k.alpha, FALSE)
           j == [k EXCEPT !.alpha = a, !.shift = "RELEASING", !.symbol = "RELEASING"]
           Rested(i) == /\ KeyboardOK(i) /\ Cleared(k, i)
                        /\ i.shift = "RELEASING" /\ i.symbol = "RELEASING"
<1>1. /\ k \in KeyboardTypes /\ k.saved.kind \in Kinds /\ k.saved.page \in Pages
      /\ k.saved.number \in BOOLEAN /\ "Base" \in Pages /\ "basic" \in Kinds
      /\ PrefersShown(k.saved.kind, k.saved.number) /\ "RELEASING" \in KeyStates
  BY DEF KeyboardOK, KeyboardTypes, Snapshots, Pages, Kinds, KeyStates
<1>2. a = "UNSHIFTED" /\ a \in ShiftStates
  BY DEF SetLocked, ShiftStates
<1> HIDE DEF a
<1>3. /\ j \in KeyboardTypes /\ j.alpha = "UNSHIFTED" /\ j.shift = "RELEASING"
      /\ j.symbol = "RELEASING" /\ j.kind = k.kind /\ j.page = k.page
      /\ j.prefersNumber = k.prefersNumber /\ j.saved = k.saved
      /\ j.timer = k.timer /\ j.drawn = k.drawn
  BY <1>1, <1>2 DEF KeyboardTypes
<1>4. Rested(j)
  BY <1>1, <1>3 DEF KeyboardOK, LockShows, IsLocked, Cleared
<1>5. ASSUME NEW kind \in Kinds, NEW page \in Pages, NEW number \in BOOLEAN,
             PrefersShown(kind, number)
      PROVE  Rested([SetLayout(j, kind, page) EXCEPT !.prefersNumber = number])
  <2> DEFINE l == SetLayout(j, kind, page)
             m == [l EXCEPT !.prefersNumber = number]
  <2>1. LaidOut(j, kind, page, l)
    BY <1>3, <1>5, SetLayoutKeeps
  <2> HIDE DEF j, l
  <2>2. /\ m \in KeyboardTypes /\ m.kind = kind /\ m.page = page /\ m.alpha = "UNSHIFTED"
        /\ m.prefersNumber = number /\ m.saved = k.saved /\ m.shift = "RELEASING"
        /\ m.symbol = "RELEASING" /\ m.timer = {} /\ m.drawn = FALSE
    BY <1>3, <1>5, <2>1 DEF KeyboardTypes, LaidOut
  <2> HIDE DEF m
  <2>3. Rested(m)
    BY <1>1, <1>5, <2>2 DEF KeyboardOK, LockShows, IsLocked, Cleared
  <2> QED BY <2>3 DEF m, l
<1> DEFINE basic == SetLayout(j, "basic", "Base")
           restored == UpdateAlphabetShiftState(
                          [SetLayout(j, k.saved.kind, k.saved.page)
                               EXCEPT !.prefersNumber = k.saved.number], c)
           i == IF numeric THEN basic
                ELSE IF k.saved.valid THEN restored ELSE SetAlphabetLayout(j, c)
<1>6. OnLoadKeyboard(k, numeric, c) = [i EXCEPT !.saved = NotSaved]
  BY DEF OnLoadKeyboard, a
<1> HIDE DEF j
<1>7. Rested(basic)
  <2>1. LaidOut(j, "basic", "Base", basic)
    BY <1>1, <1>3, SetLayoutKeeps
  <2> HIDE DEF basic
  <2> QED
    BY <1>1, <1>3, <2>1 DEF KeyboardOK, LockShows, PrefersShown, IsLocked, Cleared, LaidOut
<1>8. Rested(restored)
  <2> DEFINE m == [SetLayout(j, k.saved.kind, k.saved.page) EXCEPT !.prefersNumber = k.saved.number]
  <2>1. Rested(m)
    BY <1>1, <1>5 DEF j
  <2> HIDE DEF m
  <2>2. KeyboardOK(restored) /\ Frame(m, restored)
    BY <2>1, UpdateShiftKeeps DEF m
  <2> HIDE DEF restored
  <2> QED BY <2>1, <2>2 DEF Frame, Cleared
<1>9. Rested(SetAlphabetLayout(j, c))
  <2>1. KeyboardOK(SetAlphabetLayout(j, c)) /\ Frame(j, SetAlphabetLayout(j, c))
    BY <1>4, SetAlphabetKeeps
  <2> QED BY <1>4, <2>1 DEF Frame, Cleared
<1>10. Rested(i)
  BY <1>7, <1>8, <1>9
<1> HIDE DEF i
<1>11. SameButSaved(i, [i EXCEPT !.saved = NotSaved])
  <2>1. NotSaved \in Snapshots /\ PrefersShown(NotSaved.kind, NotSaved.number)
    BY DEF NotSaved, Snapshots, Kinds, Pages, PrefersShown
  <2>2. i \in KeyboardTypes
    BY <1>10 DEF KeyboardOK
  <2> QED BY <2>1, <2>2 DEF KeyboardTypes, SameButSaved
<1>12. LET l == [i EXCEPT !.saved = NotSaved]
       IN KeyboardOK(l) /\ Frame(i, l)
  BY <1>10, <1>11, SavedKeeps
<1> QED BY <1>6, <1>10, <1>12 DEF Frame, Cleared

LEMMA ResetKeeps ==
    ASSUME NEW k, KeyboardOK(k), NEW numeric \in BOOLEAN, NEW c
    PROVE  LET j == OnResetToAlphabet(k, numeric, c)
           IN /\ KeyboardOK(j) /\ Cleared(k, j)
              /\ j.shift \in {k.shift, "RELEASING"} /\ j.symbol \in {k.symbol, "RELEASING"}
<1>1. CASE numeric
  BY <1>1, LoadKeeps DEF OnResetToAlphabet
<1>2. CASE ~numeric
  BY <1>2, SetAlphabetKeeps DEF OnResetToAlphabet, Frame
<1> QED BY <1>1, <1>2

LEMMA FreshKeyboard == KeyboardOK(FreshState)
<1>1. NotSaved \in Snapshots /\ PrefersShown(NotSaved.kind, NotSaved.number)
  BY DEF NotSaved, Snapshots, Kinds, Pages, PrefersShown
<1>2. /\ FreshState \in KeyboardTypes /\ FreshState.kind = "alphabet"
      /\ FreshState.alpha = "UNSHIFTED" /\ FreshState.saved = NotSaved
  BY <1>1 DEF FreshState, KeyboardTypes, Kinds, Pages, ShiftStates, KeyStates
<1> QED BY <1>1, <1>2 DEF KeyboardOK, LockShows, IsLocked, PrefersShown

-----------------------------------------------------------------------------
(* The state a handler works on.                                           *)

Histories == [sent : Seq(Pointer), home : Kinds \cup {"none"}, lost : BOOLEAN]
States == [kb : KeyboardTypes, tr : [Pointer -> Tracker], queue : Seq(Pointer),
           gest : BOOLEAN, hist : Histories]
StateOK(s) == s \in States /\ KeyboardOK(s.kb)

\* What a call that reaches the keyboard state only, or the history too, leaves alone.
KbOnly(s, r) == /\ StateOK(r) /\ r.tr = s.tr /\ r.queue = s.queue /\ r.gest = s.gest
                /\ r.hist = s.hist
Outside(s, r) == /\ StateOK(r) /\ r.tr = s.tr /\ r.queue = s.queue /\ r.gest = s.gest
                 /\ r.hist.lost = s.hist.lost

LEMMA KbKeeps ==
    ASSUME NEW s, StateOK(s), NEW k, KeyboardOK(k)
    PROVE  KbOnly(s, Kb(s, k)) /\ Kb(s, k).kb = k
BY DEF StateOK, States, Kb, KbOnly, KeyboardOK

LEMMA UpdKeeps ==
    ASSUME NEW s, StateOK(s), NEW p \in Pointer, NEW t \in Tracker
    PROVE  LET r == Upd(s, p, t)
           IN /\ StateOK(r) /\ r.kb = s.kb /\ r.queue = s.queue /\ r.gest = s.gest
              /\ r.hist = s.hist /\ r.tr[p] = t
              /\ \A q \in Pointer : q # p => r.tr[q] = s.tr[q]
<1> DEFINE r == Upd(s, p, t)
           f == [s.tr EXCEPT ![p] = t]
<1>1. f \in [Pointer -> Tracker] /\ f[p] = t /\ \A q \in Pointer : q # p => f[q] = s.tr[q]
  BY DEF StateOK, States
<1>2. r = [s EXCEPT !.tr = f]
  BY DEF Upd, StateOK, States
<1> HIDE DEF f
<1>3. /\ StateOK(r) /\ r.kb = s.kb /\ r.queue = s.queue /\ r.gest = s.gest
      /\ r.hist = s.hist /\ r.tr = f
  BY <1>1, <1>2 DEF StateOK, States
<1> QED BY <1>1, <1>3

\* setReleasedKeyGraphics and cancelKeyTimersOf reach no other part of the keyboard.
SameButGraphics(k, j) ==
    /\ j \in KeyboardTypes /\ j.kind = k.kind /\ j.page = k.page /\ j.alpha = k.alpha
    /\ j.prefersNumber = k.prefersNumber /\ j.saved = k.saved /\ j.shift = k.shift
    /\ j.symbol = k.symbol /\ j.armed = k.armed

LEMMA GraphicsKeep ==
    ASSUME NEW k, KeyboardOK(k), NEW j, SameButGraphics(k, j)
    PROVE  KeyboardOK(j) /\ SameLayout(k, j)
BY DEF KeyboardOK, LockShows, SameLayout, SameButGraphics

LEMMA UndrawKeeps ==
    ASSUME NEW s, StateOK(s), NEW p \in Pointer, NEW key
    PROVE  LET r == Undraw(s, p, key)
           IN /\ KbOnly(s, r) /\ SameButGraphics(s.kb, r.kb)
              /\ r.kb.timer = s.kb.timer \ {p}
<1> DEFINE d == s.kb.drawn /\ key # "shift"
           t == s.kb.timer \ {p}
           j == [s.kb EXCEPT !.drawn = d, !.timer = t]
<1>1. d \in BOOLEAN /\ t \in SUBSET Pointer
  BY DEF StateOK, States, KeyboardTypes
<1>2. s.kb \in KeyboardTypes
  BY DEF StateOK, KeyboardOK
<1>3. Undraw(s, p, key) = Kb(s, j)
  BY <1>2 DEF Undraw, StateOK, States, KeyboardTypes, Kb
<1>4. t = s.kb.timer \ {p}
  OBVIOUS
<1> HIDE DEF d, t
<1>5. SameButGraphics(s.kb, j) /\ j.timer = t
  BY <1>1, <1>2 DEF KeyboardTypes, SameButGraphics
<1> HIDE DEF j
<1>6. KeyboardOK(j)
  BY <1>5, GraphicsKeep DEF StateOK
<1> QED BY <1>3, <1>4, <1>5, <1>6, KbKeeps

LEMMA HomeSet ==
    ASSUME NEW g \in Histories, NEW w \in Kinds \cup {"none"}
    PROVE  LET h == [g EXCEPT !.home = w]
           IN h \in Histories /\ h.sent = g.sent /\ h.home = w /\ h.lost = g.lost
BY DEF Histories

LEMMA HistFields ==
    ASSUME NEW s, StateOK(s)
    PROVE  /\ \A w \in Seq(Pointer) : LET h == [s.hist EXCEPT !.sent = w]
                                      IN /\ h \in Histories /\ h.sent = w
                                         /\ h.home = s.hist.home /\ h.lost = s.hist.lost
           /\ \A w \in Kinds \cup {"none"} : LET h == [s.hist EXCEPT !.home = w]
                                             IN /\ h \in Histories /\ h.sent = s.hist.sent
                                                /\ h.home = w /\ h.lost = s.hist.lost
           /\ s.hist.sent \in Seq(Pointer) /\ s.hist.home \in Kinds \cup {"none"}
           /\ s.kb.kind \in Kinds /\ s.hist \in Histories
<1>1. s.hist \in Histories /\ s.kb \in KeyboardTypes
  BY DEF StateOK, States
<1> QED BY <1>1 DEF Histories, KeyboardTypes

LEMMA ReleaseCall ==
    ASSUME NEW s, StateOK(s), NEW p \in Pointer, NEW key \in Codes,
           NEW sliding \in BOOLEAN, NEW c
    PROVE  LET r == Release(s, p, key, sliding, c)
           IN IF Ignored(s, p, key) THEN r = s
              ELSE KbOnly(s, r) /\ Lifted(s.kb, key, sliding, r.kb)
<1> DEFINE k == OnReleaseKey(s.kb, key, sliding, c[p])
<1>1. Lifted(s.kb, key, sliding, k)
  BY ReleaseKeeps DEF StateOK
<1>2. Release(s, p, key, sliding, c) = IF Ignored(s, p, key) THEN s ELSE Kb(s, k)
  BY DEF Release
<1> HIDE DEF k
<1>3. KbOnly(s, Kb(s, k)) /\ Kb(s, k).kb = k
  BY <1>1, KbKeeps DEF Lifted
<1> QED BY <1>1, <1>2, <1>3

LEMMA PressCall ==
    ASSUME NEW s, StateOK(s), NEW p \in Pointer, NEW key \in Codes, NEW c
    PROVE  LET r == Press(s, p, key, c)
           IN IF Ignored(s, p, key) THEN r = s
              ELSE /\ Outside(s, r) /\ Pressed(s.kb, key, r.kb)
                   /\ r.hist.sent = s.hist.sent
                   /\ r.hist.home = IF key = "symbol" THEN s.kb.kind ELSE s.hist.home
<1> DEFINE k == OnPressKey(s.kb, key, c[p])
           w == IF key = "symbol" THEN s.kb.kind ELSE s.hist.home
           h == [s.hist EXCEPT !.home = w]
<1>1. Pressed(s.kb, key, k)
  BY PressKeeps DEF StateOK
<1>2. Press(s, p, key, c) = IF Ignored(s, p, key) THEN s ELSE [s EXCEPT !.kb = k, !.hist = h]
  BY DEF Press, StateOK, States, Histories
<1>3. w \in Kinds \cup {"none"}
  BY HistFields
<1>4. w = IF key = "symbol" THEN s.kb.kind ELSE s.hist.home
  OBVIOUS
<1> HIDE DEF k, w
<1>5. h \in Histories /\ h.sent = s.hist.sent /\ h.home = w /\ h.lost = s.hist.lost
  BY <1>3, HistFields
<1> HIDE DEF h
<1>6. LET r == [s EXCEPT !.kb = k, !.hist = h]
      IN Outside(s, r) /\ r.kb = k /\ r.hist = h
  BY <1>1, <1>5 DEF Pressed, StateOK, States, Outside, KeyboardOK
<1> QED BY <1>1, <1>2, <1>4, <1>5, <1>6

LEMMA CodeCall ==
    ASSUME NEW s, StateOK(s), NEW p \in Pointer, NEW key \in Codes, NEW c
    PROVE  LET r == CodeInput(s, p, key, c)
           IN /\ Outside(s, r) /\ Frame(s.kb, r.kb) /\ r.hist.home = s.hist.home
              /\ r.hist.sent = IF IsLetter(key) THEN Append(s.hist.sent, p) ELSE s.hist.sent
              /\ key # "number" => SameLayout(s.kb, r.kb)
              /\ key = "number" => r.kb.kind \in {"symbols", "number"}
<1> DEFINE k == IF IsLetter(key) \/ key = "shift"
                THEN UpdateAlphabetShiftState(s.kb, c[p]) ELSE s.kb
           j == OnEvent(k, key, c[p])
           w == IF IsLetter(key) THEN Append(s.hist.sent, p) ELSE s.hist.sent
           h == [s.hist EXCEPT !.sent = w]
<1>1. KeyboardOK(k) /\ Frame(s.kb, k) /\ SameLayout(s.kb, k)
  BY UpdateShiftKeeps DEF StateOK, Frame, Cleared, SameLayout
<1>2. /\ KeyboardOK(j) /\ Frame(k, j)
      /\ key # "number" => SameLayout(k, j)
      /\ key = "number" => j.kind \in {"symbols", "number"}
  BY <1>1, EventKeeps
<1>3. CodeInput(s, p, key, c) = [s EXCEPT !.kb = j, !.hist = h]
  BY DEF CodeInput, StateOK, States, Histories
<1>4. w \in Seq(Pointer)
  BY HistFields
<1>5. w = IF IsLetter(key) THEN Append(s.hist.sent, p) ELSE s.hist.sent
  OBVIOUS
<1> HIDE DEF k, j, w
<1>6. h \in Histories /\ h.sent = w /\ h.home = s.hist.home /\ h.lost = s.hist.lost
  BY <1>4, HistFields
<1> HIDE DEF h
<1>7. LET r == [s EXCEPT !.kb = j, !.hist = h]
      IN Outside(s, r) /\ r.kb = j /\ r.hist = h
  BY <1>2, <1>6 DEF StateOK, States, Outside, KeyboardOK
<1>8. Frame(s.kb, j) /\ (key # "number" => SameLayout(s.kb, j))
  BY <1>1, <1>2, FrameChain DEF SameLayout
<1> QED BY <1>2, <1>3, <1>5, <1>6, <1>7, <1>8

LEMMA LeaveHomeKeeps ==
    ASSUME NEW s, NEW r, StateOK(r)
    PROVE  LET v == LeaveHome(s, r)
           IN /\ Outside(r, v) /\ v.kb = r.kb /\ v.hist.sent = r.hist.sent
              /\ v.hist.home = IF s.kb.symbol = "RELEASING" /\ s.kb.kind # r.kb.kind
                               THEN "none" ELSE r.hist.home
<1> DEFINE w == IF s.kb.symbol = "RELEASING" /\ s.kb.kind # r.kb.kind
                THEN "none" ELSE r.hist.home
           h == [r.hist EXCEPT !.home = w]
           k == r.kb
<1>1. LeaveHome(s, r) = [r EXCEPT !.kb = k, !.hist = h]
  BY DEF LeaveHome, StateOK, States, Histories
<1>2. w \in Kinds \cup {"none"} /\ KeyboardOK(k) /\ k = r.kb
  BY HistFields DEF StateOK
<1>3. w = IF s.kb.symbol = "RELEASING" /\ s.kb.kind # r.kb.kind THEN "none" ELSE r.hist.home
  OBVIOUS
<1> HIDE DEF w, k
<1>4. h \in Histories /\ h.sent = r.hist.sent /\ h.home = w /\ h.lost = r.hist.lost
  BY <1>2, HistFields
<1> HIDE DEF h
<1>5. LET v == [r EXCEPT !.kb = k, !.hist = h]
      IN Outside(r, v) /\ v.kb = k /\ v.hist = h
  BY <1>2, <1>4 DEF StateOK, States, Outside, KeyboardOK
<1> QED BY <1>1, <1>2, <1>3, <1>4, <1>5

-----------------------------------------------------------------------------
(* Up events.  The relations say what one does to the trackers, to the     *)
(* modifier keys, to what is sent and to the layout of a chord.            *)

\* The code of a finger that lifts is sent, if it is on a key.
Acts(s, p) == ~s.gest /\ ~s.tr[p].moved /\ ~s.tr[p].disabled
ToSend(t) == ~t.disabled /\ ~t.moved /\ IsLetter(t.key)

UpFrame(s, p, r) ==
    /\ StateOK(r) /\ r.queue = s.queue /\ r.hist.lost = s.hist.lost
    /\ s.gest => r.gest = (Len(s.queue) # 1)
    /\ ~s.gest => r.gest = FALSE
    /\ \A q \in Pointer : q # p => r.tr[q] = s.tr[q]
    /\ r.tr[p].down = s.tr[p].down /\ r.tr[p].disabled = s.tr[p].disabled
    /\ r.tr[p].key = "none" /\ r.tr[p].drag = FALSE /\ r.tr[p].sliding = FALSE

UpModifiers(s, p, r) ==
    /\ r.kb.timer \subseteq s.kb.timer \ {p}
    /\ r.kb.shift \in {s.kb.shift, "RELEASING"}
    /\ r.kb.symbol \in {s.kb.symbol, "RELEASING"}
    /\ Acts(s, p) /\ s.tr[p].sliding => r.kb.shift = "RELEASING" /\ r.kb.symbol = "RELEASING"
    /\ Acts(s, p) /\ s.tr[p].key = "shift" => r.kb.shift = "RELEASING"
    /\ Acts(s, p) /\ s.tr[p].key = "symbol" => r.kb.symbol = "RELEASING"

UpSends(s, p, r) ==
    r.hist.sent = IF ~s.gest /\ ToSend(s.tr[p]) THEN Append(s.hist.sent, p)
                  ELSE s.hist.sent

\* While the symbol key is in use it brings the layout back that it was pressed on
\* when p does not interfere.
Chords(k, home) == k.symbol # "RELEASING" /\ k.shift = "RELEASING" /\ Returns(k, home)
KeepsChord(s, p, home) ==
    Acts(s, p) => /\ s.tr[p].key # "shift" /\ ~s.tr[p].sliding
                  /\ home # "alphabet" => s.tr[p].key # "number"
UpHome(s, p, r) ==
    /\ r.hist.home \in {s.hist.home, "none"}
    /\ s.kb.symbol = "RELEASING" =>
          r.hist.home = "none" \/ (r.hist.home = s.hist.home /\ r.kb.kind = s.kb.kind)
    /\ (Chords(s.kb, s.hist.home) /\ KeepsChord(s, p, s.hist.home)) =>
          /\ r.hist.home = s.hist.home
          /\ \/ r.kb.symbol = s.kb.symbol /\ Chords(r.kb, s.hist.home)
             \/ /\ r.kb.symbol = "RELEASING"
                /\ s.kb.symbol = "CHORDING" => r.kb.kind = s.hist.home

Upped(s, p, r) == UpFrame(s, p, r) /\ UpModifiers(s, p, r) /\ UpSends(s, p, r) /\ UpHome(s, p, r)

LEMMA ReturnsKept ==
    ASSUME NEW k, NEW j, SameLayout(k, j), NEW home
    PROVE  Returns(k, home) => Returns(j, home)
BY DEF SameLayout, Returns

LEMMA TrackerFields ==
    ASSUME NEW s, StateOK(s), NEW p \in Pointer
    PROVE  /\ s.tr[p] \in Tracker /\ s.tr[p].key \in TouchKeys \cup {"none"}
           /\ s.tr[p].down \in BOOLEAN /\ s.tr[p].disabled \in BOOLEAN
           /\ s.tr[p].moved \in BOOLEAN /\ s.tr[p].sliding \in BOOLEAN
           /\ s.tr[p].drag \in BOOLEAN /\ s.tr[p].detecting \in BOOLEAN
           /\ s.gest \in BOOLEAN /\ TouchKeys \subseteq Codes /\ "none" \notin Codes
           /\ s.tr[p].key # "none" => s.tr[p].key \in Codes
<1>1. s.tr[p] \in Tracker /\ s.gest \in BOOLEAN
  BY DEF StateOK, States
<1>2. TouchKeys \subseteq Codes /\ "none" \notin Codes
  BY TouchAssumption DEF Codes
<1>3. s.tr[p].key \in TouchKeys \cup {"none"}
  BY <1>1 DEF Tracker
<1> QED BY <1>1, <1>2, <1>3 DEF Tracker

\* The beginning of onUpEventInternal.
Lifts(s, p) ==
    Upd(Undraw(s, p, s.tr[p].key), p,
        [s.tr[p] EXCEPT !.drag = FALSE, !.sliding = FALSE, !.detecting = FALSE, !.key = "none"])

Lifting(s, p, r) ==
    /\ StateOK(r) /\ r.queue = s.queue /\ r.hist = s.hist /\ r.gest = s.gest
    /\ \A q \in Pointer : q # p => r.tr[q] = s.tr[q]
    /\ r.tr[p].down = s.tr[p].down /\ r.tr[p].disabled = s.tr[p].disabled
    /\ r.tr[p].key = "none" /\ r.tr[p].drag = FALSE /\ r.tr[p].sliding = FALSE
    /\ r.tr[p].detecting = FALSE
    /\ SameButGraphics(s.kb, r.kb) /\ r.kb.timer = s.kb.timer \ {p}

LEMMA LiftsKeeps ==
    ASSUME NEW s, StateOK(s), NEW p \in Pointer
    PROVE  Lifting(s, p, Lifts(s, p))
<1> DEFINE u == Undraw(s, p, s.tr[p].key)
           t == [s.tr[p] EXCEPT !.drag = FALSE, !.sliding = FALSE, !.detecting = FALSE,
                                !.key = "none"]
           r == Upd(u, p, t)
<1>1. KbOnly(s, u) /\ SameButGraphics(s.kb, u.kb) /\ u.kb.timer = s.kb.timer \ {p}
  BY UndrawKeeps
<1> HIDE DEF u
<1>2. /\ t \in Tracker /\ t.down = s.tr[p].down /\ t.disabled = s.tr[p].disabled
      /\ t.key = "none" /\ t.drag = FALSE /\ t.sliding = FALSE /\ t.detecting = FALSE
  BY TrackerFields DEF Tracker
<1> HIDE DEF t
<1>3. /\ StateOK(r) /\ r.kb = u.kb /\ r.queue = u.queue /\ r.gest = u.gest
      /\ r.hist = u.hist /\ r.tr[p] = t
      /\ \A q \in Pointer : q # p => r.tr[q] = u.tr[q]
  BY <1>1, <1>2, UpdKeeps DEF KbOnly
<1>4. Lifts(s, p) = r
  BY DEF Lifts, u, t
<1> HIDE DEF r
<1> QED BY <1>1, <1>2, <1>3, <1>4 DEF KbOnly, Lifting

\* A finger that lifts from a key, until the end of a slide.
LEMMA SentKeeps ==
    ASSUME NEW s, StateOK(s), NEW p \in Pointer, NEW c, Acts(s, p), s.tr[p].key # "none"
    PROVE  LET key == s.tr[p].key
               r == Lifts(s, p)
               v == LeaveHome(s, Release(CodeInput(r, p, key, c), p, key, FALSE, c))
           IN /\ Outside(r, v) /\ v.kb.timer \subseteq s.kb.timer \ {p}
              /\ v.kb.shift = IF key = "shift" THEN "RELEASING" ELSE s.kb.shift
              /\ v.kb.symbol = IF key = "symbol" THEN "RELEASING" ELSE s.kb.symbol
              /\ UpSends(s, p, v) /\ UpHome(s, p, v)
<1> DEFINE key == s.tr[p].key
           r == Lifts(s, p)
           m == CodeInput(r, p, key, c)
           l == Release(m, p, key, FALSE, c)
           v == LeaveHome(s, l)
<1>0. Lifting(s, p, r)
  BY LiftsKeeps
<1>1. /\ StateOK(r) /\ r.queue = s.queue /\ r.hist = s.hist /\ r.gest = s.gest
      /\ r.tr[p].disabled = s.tr[p].disabled /\ r.tr[p].drag = FALSE
      /\ r.tr[p].detecting = FALSE
      /\ SameButGraphics(s.kb, r.kb) /\ r.kb.timer = s.kb.timer \ {p}
  BY <1>0 DEF Lifting
<1>2. key \in Codes /\ FALSE \in BOOLEAN
  BY TrackerFields
<1> HIDE DEF r
<1>3. /\ Outside(r, m) /\ Frame(r.kb, m.kb) /\ m.hist.home = r.hist.home
      /\ m.hist.sent = IF IsLetter(key) THEN Append(r.hist.sent, p) ELSE r.hist.sent
      /\ key # "number" => SameLayout(r.kb, m.kb)
      /\ key = "number" => m.kb.kind \in {"symbols", "number"}
  BY <1>1, <1>2, CodeCall
<1> HIDE DEF m
<1>4. StateOK(m) /\ ~Ignored(m, p, key)
  <2>1. m.gest = s.gest /\ m.tr = r.tr
    BY <1>1, <1>3 DEF Outside
  <2> QED BY <1>1, <1>3, <2>1 DEF Ignored, Mute, Acts, Outside
<1>5. KbOnly(m, l) /\ Lifted(m.kb, key, FALSE, l.kb)
  BY <1>2, <1>4, ReleaseCall
<1> HIDE DEF l
<1>6. /\ Outside(l, v) /\ v.kb = l.kb /\ v.hist.sent = l.hist.sent
      /\ v.hist.home = IF s.kb.symbol = "RELEASING" /\ s.kb.kind # l.kb.kind
                       THEN "none" ELSE l.hist.home
  BY <1>5, LeaveHomeKeeps DEF KbOnly
<1> HIDE DEF v
<1>7. Outside(r, v) /\ v.hist.sent = m.hist.sent /\ l.hist.home = s.hist.home
  BY <1>1, <1>3, <1>5, <1>6 DEF Outside, KbOnly
<1>8. m.kb.shift = s.kb.shift /\ m.kb.symbol = s.kb.symbol /\ m.kb.timer \subseteq r.kb.timer
  BY <1>1, <1>3 DEF Frame, Cleared, SameButGraphics
<1>9. v.kb.timer \subseteq s.kb.timer \ {p}
  BY <1>1, <1>5, <1>6, <1>8 DEF Lifted, Cleared
<1>10. /\ v.kb.shift = IF key = "shift" THEN "RELEASING" ELSE s.kb.shift
       /\ v.kb.symbol = IF key = "symbol" THEN "RELEASING" ELSE s.kb.symbol
  BY <1>5, <1>6, <1>8 DEF Lifted
<1>11. UpSends(s, p, v)
  BY <1>1, <1>3, <1>7 DEF UpSends, ToSend, Acts
<1>12. s.kb.symbol = "RELEASING" =>
          v.hist.home = "none" \/ (v.hist.home = s.hist.home /\ v.kb.kind = s.kb.kind)
  BY <1>6, <1>7
<1>13. ASSUME Chords(s.kb, s.hist.home), KeepsChord(s, p, s.hist.home)
       PROVE  /\ v.hist.home = s.hist.home
              /\ \/ v.kb.symbol = s.kb.symbol /\ Chords(v.kb, s.hist.home)
                 \/ /\ v.kb.symbol = "RELEASING"
                    /\ s.kb.symbol = "CHORDING" => v.kb.kind = s.hist.home
  <2> DEFINE home == s.hist.home
  <2>1. /\ s.kb.symbol # "RELEASING" /\ s.kb.shift = "RELEASING" /\ Returns(s.kb, home)
        /\ key # "shift" /\ (home # "alphabet" => key # "number")
    BY <1>13 DEF Chords, KeepsChord
  <2>2. v.hist.home = home
    BY <1>6, <1>7, <2>1
  <2>3. Returns(m.kb, home)
    <3>1. CASE key = "number"
      <4>1. home = "alphabet" /\ m.kb.kind # "alphabet"
        BY <1>3, <2>1, <3>1
      <4> QED BY <4>1 DEF Returns
    <3>2. CASE key # "number"
      <4>1. SameLayout(r.kb, m.kb) /\ SameLayout(s.kb, r.kb)
        BY <1>1, <1>3, <3>2 DEF SameButGraphics, SameLayout
      <4> QED BY <2>1, <4>1, ReturnsKept
    <3> QED BY <3>1, <3>2
  <2>4. CASE key = "symbol"
    <3>1. home \in Kinds
      BY <2>1 DEF Returns, Kinds
    <3>2. s.kb.symbol = "CHORDING" => v.kb.kind = home
      BY <1>5, <1>6, <1>8, <2>1, <2>3, <2>4, <3>1 DEF Lifted
    <3> QED BY <1>10, <2>2, <2>4, <3>2
  <2>5. CASE key # "symbol"
    <3>1. SameLayout(m.kb, v.kb)
      BY <1>5, <1>6, <1>8, <2>1, <2>5 DEF Lifted
    <3>2. Returns(v.kb, home)
      BY <2>3, <3>1, ReturnsKept
    <3> QED BY <1>10, <2>1, <2>2, <2>5, <3>2 DEF Chords
  <2> QED BY <2>4, <2>5
<1>14. UpHome(s, p, v)
  <2>1. v.hist.home \in {s.hist.home, "none"}
    BY <1>6, <1>7
  <2> QED BY <1>12, <1>13, <2>1 DEF UpHome
<1> QED BY <1>7, <1>9, <1>10, <1>11, <1>14 DEF key, v, l, m, r

LEMMA UpKeeps ==
    ASSUME NEW s, StateOK(s), NEW p \in Pointer, NEW c
    PROVE  Upped(s, p, UpInternal(s, p, c))
<1> DEFINE t == s.tr[p]
           r == Lifts(s, p)
           sent == IF t.key = "none" THEN r
                   ELSE LeaveHome(s, Release(CodeInput(r, p, t.key, c), p, t.key, FALSE, c))
           u == UpInternal(s, p, c)
<1>0. Lifting(s, p, r)
  BY LiftsKeeps
<1>1. /\ StateOK(r) /\ r.queue = s.queue /\ r.hist = s.hist /\ r.gest = s.gest
      /\ \A q \in Pointer : q # p => r.tr[q] = s.tr[q]
      /\ r.tr[p].down = s.tr[p].down /\ r.tr[p].disabled = s.tr[p].disabled
      /\ r.tr[p].key = "none" /\ r.tr[p].drag = FALSE /\ r.tr[p].sliding = FALSE
      /\ r.tr[p].detecting = FALSE
      /\ SameButGraphics(s.kb, r.kb) /\ r.kb.timer = s.kb.timer \ {p}
  BY <1>0 DEF Lifting
<1>2. /\ t \in Tracker /\ s.gest \in BOOLEAN /\ t.moved \in BOOLEAN
      /\ t.disabled \in BOOLEAN /\ t.sliding \in BOOLEAN
  BY TrackerFields
<1>3. /\ s.gest => u = [r EXCEPT !.gest = Len(s.queue) # 1]
      /\ ~s.gest /\ t.moved => u = [r EXCEPT !.tr[p].moved = FALSE]
      /\ ~s.gest /\ ~t.moved /\ t.disabled => u = r
      /\ ~s.gest /\ ~t.moved /\ ~t.disabled =>
            u = IF t.sliding THEN Kb(sent, OnFinishSlidingInput(sent.kb, c[p])) ELSE sent
  BY <1>2 DEF UpInternal, Lifts
<1> SUFFICES Upped(s, p, u)
  OBVIOUS
<1> HIDE DEF u
<1> DEFINE Silent(v) ==
               /\ StateOK(v) /\ v.kb = r.kb /\ v.hist = r.hist /\ v.queue = r.queue
               /\ s.gest => v.gest = (Len(s.queue) # 1)
               /\ ~s.gest => v.gest = FALSE
               /\ \A q \in Pointer : q # p => v.tr[q] = r.tr[q]
               /\ v.tr[p].down = r.tr[p].down /\ v.tr[p].disabled = r.tr[p].disabled
               /\ v.tr[p].key = r.tr[p].key /\ v.tr[p].drag = r.tr[p].drag
               /\ v.tr[p].sliding = r.tr[p].sliding
<1>4. ASSUME ~Acts(s, p), Silent(u) PROVE Upped(s, p, u)
  <2>1. UpFrame(s, p, u)
    BY <1>1, <1>4 DEF UpFrame
  <2>2. UpModifiers(s, p, u)
    BY <1>1, <1>4 DEF UpModifiers, SameButGraphics
  <2>3. UpSends(s, p, u)
    BY <1>1, <1>4 DEF UpSends, ToSend, Acts
  <2>4. u.kb.symbol = s.kb.symbol /\ u.kb.shift = s.kb.shift /\ SameLayout(s.kb, u.kb)
        /\ u.hist.home = s.hist.home
    BY <1>1, <1>4 DEF SameButGraphics, SameLayout
  <2>5. UpHome(s, p, u)
    BY <2>4, ReturnsKept DEF UpHome, Chords, SameLayout
  <2> QED BY <2>1, <2>2, <2>3, <2>5 DEF Upped
<1> HIDE DEF Silent
<1>5. CASE s.gest
  <2>1. /\ StateOK(u) /\ u.kb = r.kb /\ u.hist = r.hist /\ u.queue = r.queue
        /\ u.tr = r.tr /\ u.gest = (Len(s.queue) # 1)
    BY <1>1, <1>3, <1>5 DEF StateOK, States
  <2>2. ~Acts(s, p)
    BY <1>5 DEF Acts
  <2>3. Silent(u)
    BY <1>5, <2>1 DEF Silent
  <2> QED BY <1>4, <2>2, <2>3
<1>6. CASE ~s.gest /\ t.moved
  <2> DEFINE w == r.tr[p]
             v == [w EXCEPT !.moved = FALSE]
             f == [r.tr EXCEPT ![p] = v]
  <2>2. u = [r EXCEPT !.tr = f]
    BY <1>1, <1>3, <1>6 DEF StateOK, States
  <2>8. w \in Tracker /\ w = r.tr[p]
    BY <1>1, TrackerFields
  <2> HIDE DEF w
  <2>1. /\ v \in Tracker /\ v.down = w.down /\ v.disabled = w.disabled
        /\ v.key = w.key /\ v.drag = w.drag /\ v.sliding = w.sliding
    BY <2>8 DEF Tracker
  <2> HIDE DEF v
  <2>3. f \in [Pointer -> Tracker] /\ f[p] = v /\ \A q \in Pointer : q # p => f[q] = r.tr[q]
    BY <1>1, <2>1 DEF StateOK, States
  <2> HIDE DEF f
  <2>4. /\ StateOK(u) /\ u.kb = r.kb /\ u.hist = r.hist /\ u.queue = r.queue
        /\ u.tr = f /\ u.gest = r.gest
    BY <1>1, <2>2, <2>3 DEF StateOK, States
  <2>5. ~Acts(s, p)
    BY <1>6 DEF Acts
  <2>6. s.gest = FALSE
    BY <1>2, <1>6
  <2>7. Silent(u)
    BY <1>1, <2>1, <2>3, <2>4, <2>6, <2>8 DEF Silent
  <2> QED BY <1>4, <2>5, <2>7
<1>7. CASE ~s.gest /\ ~t.moved /\ t.disabled
  <2>1. u = r
    BY <1>3, <1>7
  <2>2. ~Acts(s, p)
    BY <1>7 DEF Acts
  <2>3. s.gest = FALSE
    BY <1>2, <1>7
  <2>4. Silent(u)
    BY <1>1, <2>1, <2>3 DEF Silent
  <2> QED BY <1>4, <2>2, <2>4
<1>8. CASE Acts(s, p)
  <2>1. /\ Outside(r, sent) /\ sent.kb.timer \subseteq s.kb.timer \ {p}
        /\ sent.kb.shift = IF t.key = "shift" THEN "RELEASING" ELSE s.kb.shift
        /\ sent.kb.symbol = IF t.key = "symbol" THEN "RELEASING" ELSE s.kb.symbol
        /\ UpSends(s, p, sent) /\ UpHome(s, p, sent)
    <3>1. CASE t.key # "none"
      BY <1>8, <3>1, SentKeeps
    <3>2. CASE t.key = "none"
      <4>1. sent = r
        BY <3>2
      <4>2. r.kb.symbol = s.kb.symbol /\ r.kb.shift = s.kb.shift /\ SameLayout(s.kb, r.kb)
            /\ r.hist = s.hist
        BY <1>1 DEF SameButGraphics, SameLayout
      <4>3. UpHome(s, p, r)
        BY <4>2, ReturnsKept DEF UpHome, Chords, SameLayout
      <4>4. UpSends(s, p, r)
        BY <3>2, <4>2 DEF UpSends, ToSend, IsLetter
      <4> QED BY <1>1, <3>2, <4>1, <4>2, <4>3, <4>4 DEF Outside
    <3> QED BY <3>1, <3>2
  <2> HIDE DEF sent
  <2>2. u = IF t.sliding THEN Kb(sent, OnFinishSlidingInput(sent.kb, c[p])) ELSE sent
    BY <1>3, <1>8 DEF Acts
  <2>3. s.gest = FALSE /\ sent.tr = r.tr /\ sent.gest = FALSE
    BY <1>1, <1>2, <1>8, <2>1 DEF Acts, Outside
  <2>4. CASE ~t.sliding
    <3>1. u = sent
      BY <2>2, <2>4
    <3>2. UpFrame(s, p, u)
      BY <1>1, <2>1, <2>3, <3>1 DEF UpFrame, Outside
    <3>3. UpModifiers(s, p, u)
      BY <2>1, <2>4, <3>1 DEF UpModifiers
    <3> QED BY <2>1, <3>1, <3>2, <3>3 DEF Upped
  <2>5. CASE t.sliding
    <3> DEFINE k == OnFinishSlidingInput(sent.kb, c[p])
    <3>1. /\ KeyboardOK(k) /\ Cleared(sent.kb, k)
          /\ k.shift = "RELEASING" /\ k.symbol = "RELEASING"
          /\ sent.kb.symbol # "CHORDING" => SameLayout(sent.kb, k)
      BY <2>1, FinishSlidingKeeps DEF Outside, StateOK
    <3> HIDE DEF k
    <3>2. KbOnly(sent, u) /\ u.kb = k
      BY <2>1, <2>2, <2>5, <3>1, KbKeeps DEF Outside, k
    <3>3. UpFrame(s, p, u)
      BY <1>1, <2>1, <2>3, <3>2 DEF UpFrame, Outside, KbOnly
    <3>4. UpModifiers(s, p, u)
      BY <2>1, <3>1, <3>2 DEF UpModifiers, Cleared
    <3>5. UpSends(s, p, u)
      BY <2>1, <3>2 DEF UpSends, KbOnly
    <3>6. UpHome(s, p, u)
      <4>1. ~KeepsChord(s, p, s.hist.home)
        BY <1>8, <2>5 DEF KeepsChord
      <4>2. s.kb.symbol = "RELEASING" => u.kb.kind = sent.kb.kind
        BY <2>1, <3>1, <3>2 DEF SameLayout
      <4>3. u.hist = sent.hist
        BY <3>2 DEF KbOnly
      <4> QED BY <2>1, <4>1, <4>2, <4>3 DEF UpHome
    <3> QED BY <3>3, <3>4, <3>5, <3>6 DEF Upped
  <2> QED BY <2>4, <2>5
<1> QED
  <2>1. s.gest \/ (~s.gest /\ t.moved) \/ (~s.gest /\ ~t.moved /\ t.disabled) \/ Acts(s, p)
    BY DEF Acts
  <2> QED BY <1>5, <1>6, <1>7, <1>8, <2>1

Disabling(s, ps, r) ==
    /\ StateOK(r) /\ r.kb = s.kb /\ r.queue = s.queue /\ r.gest = s.gest
    /\ r.hist = s.hist
    /\ \A q \in Pointer : q \notin ps => r.tr[q] = s.tr[q]
    /\ \A q \in Pointer :
          /\ q \in ps => r.tr[q].disabled = TRUE
          /\ s.tr[q].disabled => r.tr[q].disabled = TRUE
          /\ r.tr[q].down = s.tr[q].down /\ r.tr[q].key = s.tr[q].key
          /\ r.tr[q].drag = s.tr[q].drag /\ r.tr[q].sliding = s.tr[q].sliding
          /\ r.tr[q].moved = s.tr[q].moved

LEMMA DisableKeeps ==
    ASSUME NEW s, StateOK(s), NEW ps
    PROVE  Disabling(s, ps, Disable(s, ps))
<1> DEFINE off(q) == [s.tr[q] EXCEPT !.disabled = TRUE]
           f == [q \in Pointer |-> IF q \in ps THEN off(q) ELSE s.tr[q]]
           r == [s EXCEPT !.tr = f]
<1>1. ASSUME NEW q \in Pointer
      PROVE  /\ off(q) \in Tracker /\ off(q).down = s.tr[q].down /\ off(q).key = s.tr[q].key
             /\ off(q).drag = s.tr[q].drag /\ off(q).sliding = s.tr[q].sliding
             /\ off(q).moved = s.tr[q].moved /\ off(q).disabled = TRUE
  <2> DEFINE w == s.tr[q]
  <2>1. w \in Tracker
    BY TrackerFields
  <2> HIDE DEF w
  <2>2. LET v == [w EXCEPT !.disabled = TRUE]
        IN /\ v \in Tracker /\ v.down = w.down /\ v.key = w.key /\ v.drag = w.drag
           /\ v.sliding = w.sliding /\ v.moved = w.moved /\ v.disabled = TRUE
    BY <2>1 DEF Tracker
  <2> QED BY <2>2 DEF w
<1>2. Disable(s, ps) = r
  BY DEF Disable
<1> HIDE DEF off
<1>3. \A q \in Pointer : s.tr[q] \in Tracker /\ s.tr[q].disabled \in BOOLEAN
  BY TrackerFields
<1>4. f \in [Pointer -> Tracker]
  BY <1>1, <1>3
<1>5. \A q \in Pointer : f[q] = IF q \in ps THEN off(q) ELSE s.tr[q]
  OBVIOUS
<1> HIDE DEF f
<1>6. /\ StateOK(r) /\ r.kb = s.kb /\ r.queue = s.queue /\ r.gest = s.gest
      /\ r.hist = s.hist /\ r.tr = f
  BY <1>4 DEF StateOK, States
<1> HIDE DEF r
<1>7. \A q \in Pointer : q \notin ps => r.tr[q] = s.tr[q]
  BY <1>5, <1>6
<1>8. \A q \in Pointer : q \in ps => r.tr[q] = off(q)
  BY <1>5, <1>6
<1>9. ASSUME NEW q \in Pointer
      PROVE  /\ q \in ps => r.tr[q].disabled = TRUE
             /\ s.tr[q].disabled => r.tr[q].disabled = TRUE
             /\ r.tr[q].down = s.tr[q].down /\ r.tr[q].key = s.tr[q].key
             /\ r.tr[q].drag = s.tr[q].drag /\ r.tr[q].sliding = s.tr[q].sliding
             /\ r.tr[q].moved = s.tr[q].moved
  <2>1. CASE q \in ps
    BY <1>1, <1>8, <2>1
  <2>2. CASE q \notin ps
    BY <1>3, <1>7, <2>2
  <2> QED BY <2>1, <2>2
<1>10. Disabling(s, ps, r)
  BY <1>6, <1>7, <1>9 DEF Disabling
<1> QED BY <1>2, <1>10

\* A phantom up does what an up does, and disables the tracker.
PhantomFrame(s, p, r) ==
    /\ StateOK(r) /\ r.queue = s.queue /\ r.hist.lost = s.hist.lost
    /\ s.gest => r.gest = (Len(s.queue) # 1)
    /\ ~s.gest => r.gest = FALSE
    /\ \A q \in Pointer : q # p => r.tr[q] = s.tr[q]
    /\ r.tr[p].down = s.tr[p].down /\ r.tr[p].disabled = TRUE
    /\ r.tr[p].key = "none" /\ r.tr[p].drag = FALSE /\ r.tr[p].sliding = FALSE

Phantomed(s, p, r) ==
    PhantomFrame(s, p, r) /\ UpModifiers(s, p, r) /\ UpSends(s, p, r) /\ UpHome(s, p, r)

LEMMA PhantomKeeps ==
    ASSUME NEW s, StateOK(s), NEW p \in Pointer, NEW c
    PROVE  Phantomed(s, p, PhantomUp(s, p, c))
<1> DEFINE u == UpInternal(s, p, c)
           r == Disable(u, {p})
<1>1. UpFrame(s, p, u) /\ UpModifiers(s, p, u) /\ UpSends(s, p, u) /\ UpHome(s, p, u)
  BY UpKeeps DEF Upped
<1>2. PhantomUp(s, p, c) = r
  BY DEF PhantomUp
<1> HIDE DEF u
<1>3. Disabling(u, {p}, r)
  BY <1>1, DisableKeeps DEF UpFrame
<1> HIDE DEF r
<1>4. PhantomFrame(s, p, r)
  BY <1>1, <1>3 DEF UpFrame, PhantomFrame, Disabling
<1>5. UpModifiers(s, p, r) /\ UpSends(s, p, r) /\ UpHome(s, p, r)
  BY <1>1, <1>3 DEF UpModifiers, UpSends, UpHome, Disabling
<1> QED BY <1>2, <1>4, <1>5 DEF Phantomed

-----------------------------------------------------------------------------
(* Induction over the natural numbers, for the loops over the queue.       *)

Less == {d \in Nat \X Nat : d[1] < d[2]}

LEMMA LeastNatural ==
    ASSUME NEW T, T \subseteq Nat, T # {}
    PROVE  \E n \in T : \A m \in T : ~(m < n)
<1>1. OpToRel(<, Nat) = Less
  BY DEF OpToRel, Less
<1>2. IsWellFoundedOn(Less, Nat)
  BY <1>1, NatLessThanWellFounded
<1>3. PICK n \in T : \A m \in T : ~(<<m, n>> \in Less)
  BY <1>2, WFMin
<1> QED BY <1>3 DEF Less

LEMMA Inductive ==
    ASSUME NEW T, T \subseteq Nat, 0 \in T, \A n \in T : n + 1 \in T
    PROVE  Nat \subseteq T
<1> SUFFICES ASSUME Nat \ T # {} PROVE FALSE
  OBVIOUS
<1>1. PICK n \in Nat \ T : \A m \in Nat \ T : ~(m < n)
  BY LeastNatural
<1>2. n # 0 /\ n - 1 \in Nat
  BY <1>1
<1>3. n - 1 \in T
  BY <1>1, <1>2
<1> QED BY <1>1, <1>3

\* The function Keep is defined with, and that it is well defined.
Kept(q, ps) ==
    LET kept[n \in 0 .. Len(q)] ==
          IF n = 0 THEN <<>>
          ELSE IF q[n] \in ps THEN Append(kept[n - 1], q[n]) ELSE kept[n - 1]
    IN kept
IsKept(f, q, ps, len) ==
    f = [n \in 0 .. len |->
            IF n = 0 THEN <<>>
            ELSE IF q[n] \in ps THEN Append(f[n - 1], q[n]) ELSE f[n - 1]]

LEMMA KeptAt ==
    ASSUME NEW q, NEW ps, NEW len \in Nat, NEW f, IsKept(f, q, ps, len)
    PROVE  /\ f[0] = <<>>
           /\ \A n \in 1 .. len :
                 f[n] = IF q[n] \in ps THEN Append(f[n - 1], q[n]) ELSE f[n - 1]
<1> DEFINE Value(n) == IF n = 0 THEN <<>>
                      ELSE IF q[n] \in ps THEN Append(f[n - 1], q[n]) ELSE f[n - 1]
<1>1. f = [n \in 0 .. len |-> Value(n)]
  BY DEF IsKept
<1> HIDE DEF Value
<1>2. \A n \in 0 .. len : f[n] = Value(n)
  BY <1>1
<1>3. 0 \in 0 .. len /\ \A n \in 1 .. len : n \in 0 .. len /\ n # 0
  OBVIOUS
<1> QED BY <1>2, <1>3 DEF Value

LEMMA KeptDefined ==
    ASSUME NEW q, Len(q) \in Nat, NEW ps
    PROVE  IsKept(Kept(q, ps), q, ps, Len(q)) /\ Keep(q, ps) = Kept(q, ps)[Len(q)]
<1> DEFINE T == {len \in Nat : \E f : IsKept(f, q, ps, len)}
<1>1. 0 \in T
  <2>1. IsKept([n \in 0 .. 0 |-> <<>>], q, ps, 0)
    BY DEF IsKept
  <2> QED BY <2>1
<1>2. ASSUME NEW len \in T PROVE len + 1 \in T
  <2>1. PICK f : IsKept(f, q, ps, len)
    OBVIOUS
  <2> DEFINE g == [n \in 0 .. len + 1 |->
                     IF n = len + 1
                     THEN IF q[n] \in ps THEN Append(f[len], q[n]) ELSE f[len]
                     ELSE f[n]]
  <2>2. /\ len \in Nat /\ f[0] = <<>>
        /\ \A n \in 1 .. len :
              f[n] = IF q[n] \in ps THEN Append(f[n - 1], q[n]) ELSE f[n - 1]
    BY <2>1, KeptAt
  <2>3. \A n \in 0 .. len : g[n] = f[n]
    BY <2>2
  <2>4. ASSUME NEW n \in 0 .. len + 1
        PROVE  g[n] = IF n = 0 THEN <<>>
                      ELSE IF q[n] \in ps THEN Append(g[n - 1], q[n]) ELSE g[n - 1]
    <3>1. CASE n = len + 1
      <4>1. g[n - 1] = f[len] /\ n # 0
        BY <2>2, <2>3, <3>1
      <4>2. g[n] = IF q[n] \in ps THEN Append(f[len], q[n]) ELSE f[len]
        BY <3>1
      <4> QED BY <4>1, <4>2
    <3>2. CASE n \in 1 .. len
      <4>1. g[n] = f[n] /\ g[n - 1] = f[n - 1] /\ n # 0
        BY <2>2, <2>3, <3>2
      <4> QED BY <2>2, <3>2, <4>1
    <3>3. CASE n = 0
      BY <2>2, <2>3, <3>3
    <3> QED BY <2>2, <3>1, <3>2, <3>3
  <2>5. g = [n \in 0 .. len + 1 |-> g[n]]
    OBVIOUS
  <2> HIDE DEF g
  <2>6. IsKept(g, q, ps, len + 1)
    BY <2>4, <2>5 DEF IsKept
  <2> QED BY <2>2, <2>6
<1>3. Len(q) \in T
  BY <1>1, <1>2, Inductive
<1>4. \E f : IsKept(f, q, ps, Len(q))
  BY <1>3
<1> QED BY <1>4 DEF IsKept, Kept, Keep

\* The members of q that are in ps, each once if it is once in q.
Keeps(q, ps, r) ==
    /\ r \in Seq(Pointer) /\ ToSet(r) = ToSet(q) \cap ps
    /\ IsInjective(q) => IsInjective(r)

LEMMA AppendedSet ==
    ASSUME NEW S, NEW z \in Seq(S), NEW x \in S
    PROVE  ToSet(Append(z, x)) = ToSet(z) \cup {x}
<1> DEFINE y == Append(z, x)
           n == Len(z)
<1>1. n \in Nat /\ y \in Seq(S) /\ Len(y) = n + 1
  OBVIOUS
<1>2. \A i \in 1 .. n : y[i] = z[i]
  OBVIOUS
<1>3. y[n + 1] = x
  OBVIOUS
<1>4. DOMAIN z = 1 .. n /\ DOMAIN y = 1 .. n + 1
  BY <1>1
<1> HIDE DEF y, n
<1>5. 1 .. n + 1 = (1 .. n) \cup {n + 1}
  BY <1>1
<1>6. {y[i] : i \in 1 .. n + 1} = {y[i] : i \in 1 .. n} \cup {x}
  BY <1>3, <1>5
<1>7. {y[i] : i \in 1 .. n} = {z[i] : i \in 1 .. n}
  BY <1>2
<1> QED BY <1>4, <1>6, <1>7 DEF ToSet, y

LEMMA KeepKeeps ==
    ASSUME NEW q \in Seq(Pointer), NEW ps
    PROVE  Keeps(q, ps, Keep(q, ps))
<1> DEFINE k == Kept(q, ps)
           P(n) == {q[m] : m \in 1 .. n} \cap ps
           Good(n) == /\ k[n] \in Seq(Pointer) /\ ToSet(k[n]) = P(n)
                      /\ IsInjective(q) => IsInjective(k[n])
           T == {n \in Nat : n <= Len(q) => Good(n)}
<1>1. Len(q) \in Nat /\ \A n \in 1 .. Len(q) : q[n] \in Pointer
  OBVIOUS
<1>0. IsKept(k, q, ps, Len(q)) /\ Keep(q, ps) = k[Len(q)]
  BY <1>1, KeptDefined
<1> HIDE DEF k
<1>2. /\ k[0] = <<>>
      /\ \A n \in 1 .. Len(q) :
            k[n] = IF q[n] \in ps THEN Append(k[n - 1], q[n]) ELSE k[n - 1]
      /\ Keep(q, ps) = k[Len(q)]
  BY <1>0, <1>1, KeptAt
<1>3. 0 \in T
  <2>1. ToSet(k[0]) = {} /\ IsInjective(k[0])
    BY <1>2 DEF ToSet, IsInjective
  <2>2. P(0) = {} /\ <<>> \in Seq(Pointer)
    OBVIOUS
  <2>3. Good(0)
    BY <1>2, <2>1, <2>2
  <2> QED BY <2>3
<1>4. ASSUME NEW n \in T PROVE n + 1 \in T
  <2> SUFFICES ASSUME n + 1 <= Len(q) PROVE Good(n + 1)
    OBVIOUS
  <2>1. Good(n) /\ n + 1 \in 1 .. Len(q) /\ (n + 1) - 1 = n
    BY <1>1
  <2> DEFINE x == q[n + 1]
  <2>2. P(n + 1) = (P(n) \cup {x}) \cap ps
    BY <1>1, <2>1
  <2>3. CASE x \in ps
    <3>1. k[n + 1] = Append(k[n], x) /\ x \in Pointer
      BY <1>1, <1>2, <2>1, <2>3
    <3>2. ToSet(k[n + 1]) = ToSet(k[n]) \cup {x}
      BY <2>1, <3>1, AppendedSet
    <3>3. ASSUME IsInjective(q) PROVE IsInjective(k[n + 1])
      <4>1. x \notin P(n)
        BY <1>1, <2>1, <3>3 DEF IsInjective
      <4>2. \A m \in DOMAIN k[n] : k[n][m] # x
        BY <2>1, <4>1 DEF ToSet
      <4> QED BY <2>1, <3>1, <3>3, <4>2 DEF IsInjective
    <3> QED BY <2>1, <2>2, <2>3, <3>1, <3>2, <3>3
  <2>4. CASE x \notin ps
    BY <1>2, <2>1, <2>2, <2>4
  <2> QED BY <2>3, <2>4
<1>5. Good(Len(q))
  <2> HIDE DEF Good
  <2>1. T \subseteq Nat /\ 0 \in T /\ \A n \in T : n + 1 \in T
    BY <1>3, <1>4
  <2>2. Len(q) \in T
    BY <1>1, <2>1, Inductive
  <2> QED BY <1>1, <2>2
<1>6. P(Len(q)) = ToSet(q) \cap ps
  BY <1>1 DEF ToSet
<1> QED BY <1>2, <1>5, <1>6 DEF Keeps

-----------------------------------------------------------------------------
(* The loop over the queue that gives phantom ups.                         *)

Done(s, ps, c) ==
    LET done[n \in 0 .. Len(s.queue)] ==
          IF n = 0 THEN s
          ELSE IF s.queue[n] \in ps THEN PhantomUp(done[n - 1], s.queue[n], c)
          ELSE done[n - 1]
    IN done
IsDone(f, s, q, ps, c, len) ==
    f = [n \in 0 .. len |->
            IF n = 0 THEN s
            ELSE IF q[n] \in ps THEN PhantomUp(f[n - 1], q[n], c) ELSE f[n - 1]]

LEMMA DoneAt ==
    ASSUME NEW s, NEW q, NEW ps, NEW c, NEW len \in Nat, NEW f, IsDone(f, s, q, ps, c, len)
    PROVE  /\ f[0] = s
           /\ \A n \in 1 .. len :
                 f[n] = IF q[n] \in ps THEN PhantomUp(f[n - 1], q[n], c) ELSE f[n - 1]
<1> DEFINE Value(n) == IF n = 0 THEN s
                       ELSE IF q[n] \in ps THEN PhantomUp(f[n - 1], q[n], c) ELSE f[n - 1]
<1>1. f = [n \in 0 .. len |-> Value(n)]
  BY DEF IsDone
<1> HIDE DEF Value
<1>2. \A n \in 0 .. len : f[n] = Value(n)
  BY <1>1
<1>3. 0 \in 0 .. len /\ \A n \in 1 .. len : n \in 0 .. len /\ n # 0
  OBVIOUS
<1> QED BY <1>2, <1>3 DEF Value

LEMMA DoneDefined ==
    ASSUME NEW s, Len(s.queue) \in Nat, NEW ps, NEW c
    PROVE  /\ IsDone(Done(s, ps, c), s, s.queue, ps, c, Len(s.queue))
           /\ PhantomUps(s, ps, c) = Done(s, ps, c)[Len(s.queue)]
<1> DEFINE q == s.queue
           T == {len \in Nat : \E f : IsDone(f, s, q, ps, c, len)}
<1>1. 0 \in T
  <2>1. IsDone([n \in 0 .. 0 |-> s], s, q, ps, c, 0)
    BY DEF IsDone
  <2> QED BY <2>1
<1>2. ASSUME NEW len \in T PROVE len + 1 \in T
  <2>1. PICK f : IsDone(f, s, q, ps, c, len)
    OBVIOUS
  <2> DEFINE g == [n \in 0 .. len + 1 |->
                     IF n = len + 1
                     THEN IF q[n] \in ps THEN PhantomUp(f[len], q[n], c) ELSE f[len]
                     ELSE f[n]]
  <2>2. /\ len \in Nat /\ f[0] = s
        /\ \A n \in 1 .. len :
              f[n] = IF q[n] \in ps THEN PhantomUp(f[n - 1], q[n], c) ELSE f[n - 1]
    <3>1. len \in Nat
      OBVIOUS
    <3> HIDE DEF q, T
    <3> QED BY <2>1, <3>1, DoneAt
  <2>3. \A n \in 0 .. len : g[n] = f[n]
    BY <2>2
  <2>4. ASSUME NEW n \in 0 .. len + 1
        PROVE  g[n] = IF n = 0 THEN s
                      ELSE IF q[n] \in ps THEN PhantomUp(g[n - 1], q[n], c) ELSE g[n - 1]
    <3>1. CASE n = len + 1
      <4>1. g[n - 1] = f[len] /\ n # 0
        BY <2>2, <2>3, <3>1
      <4>2. g[n] = IF q[n] \in ps THEN PhantomUp(f[len], q[n], c) ELSE f[len]
        BY <3>1
      <4> QED BY <4>1, <4>2
    <3>2. CASE n \in 1 .. len
      <4>1. g[n] = f[n] /\ g[n - 1] = f[n - 1] /\ n # 0
        BY <2>2, <2>3, <3>2
      <4> QED BY <2>2, <3>2, <4>1
    <3>3. CASE n = 0
      BY <2>2, <2>3, <3>3
    <3> QED BY <2>2, <3>1, <3>2, <3>3
  <2>5. g = [n \in 0 .. len + 1 |-> g[n]]
    OBVIOUS
  <2> HIDE DEF g
  <2>6. IsDone(g, s, q, ps, c, len + 1)
    BY <2>4, <2>5 DEF IsDone
  <2> QED BY <2>2, <2>6
<1>3. Len(q) \in T
  BY <1>1, <1>2, Inductive
<1>4. \E f : IsDone(f, s, q, ps, c, Len(q))
  BY <1>3
<1> QED BY <1>4 DEF IsDone, Done, PhantomUps

\* What the loop has done for the pointers P, a part of the queue.
LoopFrame(s, P, r) ==
    /\ StateOK(r) /\ r.queue = s.queue /\ r.hist.lost = s.hist.lost
    /\ s.gest = FALSE => r.gest = FALSE
    /\ s.gest = TRUE => r.gest = (P = {} \/ Len(s.queue) # 1)
    /\ \A q \in Pointer : q \notin P => r.tr[q] = s.tr[q]
    /\ \A q \in P : /\ r.tr[q].down = s.tr[q].down /\ r.tr[q].disabled = TRUE
                    /\ r.tr[q].key = "none" /\ r.tr[q].drag = FALSE
                    /\ r.tr[q].sliding = FALSE

LoopModifiers(s, P, r) ==
    /\ r.kb.timer \subseteq s.kb.timer \ P
    /\ r.kb.shift \in {s.kb.shift, "RELEASING"}
    /\ r.kb.symbol \in {s.kb.symbol, "RELEASING"}
    /\ \A q \in P : Acts(s, q) =>
          /\ s.tr[q].sliding => r.kb.shift = "RELEASING" /\ r.kb.symbol = "RELEASING"
          /\ s.tr[q].key = "shift" => r.kb.shift = "RELEASING"
          /\ s.tr[q].key = "symbol" => r.kb.symbol = "RELEASING"

LoopHome(s, P, r) ==
    /\ r.hist.home \in {s.hist.home, "none"}
    /\ s.kb.symbol = "RELEASING" =>
          r.hist.home = "none" \/ (r.hist.home = s.hist.home /\ r.kb.kind = s.kb.kind)
    /\ (Chords(s.kb, s.hist.home) /\ \A q \in P : KeepsChord(s, q, s.hist.home)) =>
          \/ r.hist.home = "none"
          \/ /\ r.hist.home = s.hist.home
             /\ \/ r.kb.symbol = s.kb.symbol /\ Chords(r.kb, s.hist.home)
                \/ /\ r.kb.symbol = "RELEASING"
                   /\ s.kb.symbol = "CHORDING" => r.kb.kind = s.hist.home

\* The letters of the first n pointers, those in ps, are sent in the queue's order.
Sending(s, ps, l) == s.queue[l] \in ps /\ ~s.gest /\ ToSend(s.tr[s.queue[l]])
Sends(s, ps, n, sent) ==
    /\ \A l \in 1 .. n : Sending(s, ps, l) => \E j \in DOMAIN sent : sent[j] = s.queue[l]
    /\ \A i \in DOMAIN sent : \E m \in 1 .. n :
          /\ sent[i] = s.queue[m] /\ Sending(s, ps, m)
          /\ \A l \in 1 .. (m - 1) :
                Sending(s, ps, l) => \E j \in 1 .. (i - 1) : sent[j] = s.queue[l]
LoopSends(s, ps, n, r) == s.hist.sent = <<>> => Sends(s, ps, n, r.hist.sent)

Looped(s, ps, n, r) ==
    LET P == {s.queue[m] : m \in 1 .. n} \cap ps
    IN LoopFrame(s, P, r) /\ LoopModifiers(s, P, r) /\ LoopHome(s, P, r) /\ LoopSends(s, ps, n, r)

\* One more pointer: nothing the loop did before has changed how it lifts.
LEMMA Unchanged ==
    ASSUME NEW s, StateOK(s), NEW P, P \subseteq ToSet(s.queue), NEW r, LoopFrame(s, P, r),
           NEW x \in ToSet(s.queue), x \notin P
    PROVE  /\ r.gest = s.gest /\ r.tr[x] = s.tr[x] /\ x \in Pointer
           /\ Acts(r, x) <=> Acts(s, x)
<1>1. s.queue \in Seq(Pointer) /\ s.gest \in BOOLEAN
  BY DEF StateOK, States
<1>2. x \in Pointer /\ P \subseteq Pointer
  BY <1>1 DEF ToSet
<1>3. P = {} \/ Len(s.queue) # 1
  BY <1>1 DEF ToSet
<1>4. r.tr[x] = s.tr[x]
  BY <1>2 DEF LoopFrame
<1>5. r.gest = s.gest
  BY <1>1, <1>3 DEF LoopFrame
<1> QED BY <1>2, <1>4, <1>5 DEF Acts

LEMMA FrameStep ==
    ASSUME NEW s, StateOK(s), NEW P, P \subseteq ToSet(s.queue), NEW r, LoopFrame(s, P, r),
           NEW x \in ToSet(s.queue), x \notin P, NEW v, PhantomFrame(r, x, v)
    PROVE  LoopFrame(s, P \cup {x}, v)
<1>1. r.gest = s.gest /\ r.tr[x] = s.tr[x] /\ x \in Pointer
  BY Unchanged
<1>2. s.queue \in Seq(Pointer) /\ s.gest \in BOOLEAN
  BY DEF StateOK, States
<1>3. P \subseteq Pointer /\ P \cup {x} # {}
  BY <1>2 DEF ToSet
<1>4. StateOK(v) /\ v.queue = s.queue /\ v.hist.lost = s.hist.lost
  BY DEF LoopFrame, PhantomFrame
<1>5. (s.gest = FALSE => v.gest = FALSE) /\ (s.gest = TRUE => v.gest = (Len(s.queue) # 1))
  BY <1>1 DEF LoopFrame, PhantomFrame
<1>6. \A q \in Pointer : q \notin P \cup {x} => v.tr[q] = s.tr[q]
  BY DEF LoopFrame, PhantomFrame
<1>7. \A q \in P \cup {x} : /\ v.tr[q].down = s.tr[q].down /\ v.tr[q].disabled = TRUE
                            /\ v.tr[q].key = "none" /\ v.tr[q].drag = FALSE
                            /\ v.tr[q].sliding = FALSE
  <2>1. \A q \in P : v.tr[q] = r.tr[q]
    BY <1>3 DEF PhantomFrame
  <2>2. \A q \in P : /\ r.tr[q].down = s.tr[q].down /\ r.tr[q].disabled = TRUE
                     /\ r.tr[q].key = "none" /\ r.tr[q].drag = FALSE
                     /\ r.tr[q].sliding = FALSE
    BY DEF LoopFrame
  <2>3. /\ v.tr[x].down = s.tr[x].down /\ v.tr[x].disabled = TRUE
        /\ v.tr[x].key = "none" /\ v.tr[x].drag = FALSE /\ v.tr[x].sliding = FALSE
    BY <1>1 DEF PhantomFrame
  <2>4. ASSUME NEW q \in P
        PROVE  /\ v.tr[q].down = s.tr[q].down /\ v.tr[q].disabled = TRUE
               /\ v.tr[q].key = "none" /\ v.tr[q].drag = FALSE /\ v.tr[q].sliding = FALSE
    BY <2>1, <2>2
  <2> QED BY <2>3, <2>4
<1> QED BY <1>3, <1>4, <1>5, <1>6, <1>7 DEF LoopFrame

LEMMA ModifiersStep ==
    ASSUME NEW s, StateOK(s), NEW P, P \subseteq ToSet(s.queue), NEW r, LoopFrame(s, P, r),
           LoopModifiers(s, P, r),
           NEW x \in ToSet(s.queue), x \notin P, NEW v, UpModifiers(r, x, v)
    PROVE  LoopModifiers(s, P \cup {x}, v)
<1>1. r.tr[x] = s.tr[x] /\ (Acts(r, x) <=> Acts(s, x))
  BY Unchanged
<1>2. v.kb.timer \subseteq s.kb.timer \ (P \cup {x})
  BY DEF LoopModifiers, UpModifiers
<1>3. /\ v.kb.shift \in {r.kb.shift, "RELEASING"} /\ v.kb.symbol \in {r.kb.symbol, "RELEASING"}
      /\ r.kb.shift \in {s.kb.shift, "RELEASING"} /\ r.kb.symbol \in {s.kb.symbol, "RELEASING"}
  BY DEF LoopModifiers, UpModifiers
<1>4. ASSUME NEW q \in P \cup {x}, Acts(s, q)
      PROVE  /\ s.tr[q].sliding => v.kb.shift = "RELEASING" /\ v.kb.symbol = "RELEASING"
             /\ s.tr[q].key = "shift" => v.kb.shift = "RELEASING"
             /\ s.tr[q].key = "symbol" => v.kb.symbol = "RELEASING"
  <2>1. CASE q = x
    BY <1>1, <1>4, <2>1 DEF UpModifiers
  <2>2. CASE q \in P
    BY <1>3, <1>4, <2>2 DEF LoopModifiers
  <2> QED BY <2>1, <2>2
<1> QED BY <1>2, <1>3, <1>4 DEF LoopModifiers

LEMMA HomeStep ==
    ASSUME NEW s, StateOK(s), NEW P, P \subseteq ToSet(s.queue), NEW r, LoopFrame(s, P, r),
           LoopModifiers(s, P, r), LoopHome(s, P, r),
           NEW x \in ToSet(s.queue), x \notin P, NEW v, UpModifiers(r, x, v), UpHome(r, x, v)
    PROVE  LoopHome(s, P \cup {x}, v)
<1>1. r.tr[x] = s.tr[x] /\ (Acts(r, x) <=> Acts(s, x))
  BY Unchanged
<1>2. ASSUME r.kb.symbol = "RELEASING"
      PROVE  v.kb.symbol = "RELEASING" /\
             (v.hist.home = "none" \/ (v.hist.home = r.hist.home /\ v.kb.kind = r.kb.kind))
  BY <1>2 DEF UpModifiers, UpHome
<1>3. ASSUME s.kb.symbol = "RELEASING"
      PROVE  v.hist.home = "none" \/ (v.hist.home = s.hist.home /\ v.kb.kind = s.kb.kind)
  <2>1. r.kb.symbol = "RELEASING"
    BY <1>3 DEF LoopModifiers
  <2>2. r.hist.home = "none" \/ (r.hist.home = s.hist.home /\ r.kb.kind = s.kb.kind)
    BY <1>3 DEF LoopHome
  <2> QED BY <1>2, <2>1, <2>2
<1>4. ASSUME Chords(s.kb, s.hist.home), \A q \in P \cup {x} : KeepsChord(s, q, s.hist.home)
      PROVE  \/ v.hist.home = "none"
             \/ /\ v.hist.home = s.hist.home
                /\ \/ v.kb.symbol = s.kb.symbol /\ Chords(v.kb, s.hist.home)
                   \/ /\ v.kb.symbol = "RELEASING"
                      /\ s.kb.symbol = "CHORDING" => v.kb.kind = s.hist.home
  <2>1. \/ r.hist.home = "none"
        \/ /\ r.hist.home = s.hist.home
           /\ \/ r.kb.symbol = s.kb.symbol /\ Chords(r.kb, s.hist.home)
              \/ /\ r.kb.symbol = "RELEASING"
                 /\ s.kb.symbol = "CHORDING" => r.kb.kind = s.hist.home
    BY <1>4 DEF LoopHome
  <2>2. CASE r.hist.home = s.hist.home /\ r.kb.symbol = s.kb.symbol /\ Chords(r.kb, s.hist.home)
    <3>1. KeepsChord(r, x, r.hist.home) /\ Chords(r.kb, r.hist.home)
      BY <1>1, <1>4, <2>2 DEF KeepsChord
    <3>2. /\ v.hist.home = r.hist.home
          /\ \/ v.kb.symbol = r.kb.symbol /\ Chords(v.kb, r.hist.home)
             \/ /\ v.kb.symbol = "RELEASING"
                /\ r.kb.symbol = "CHORDING" => v.kb.kind = r.hist.home
      BY <3>1 DEF UpHome
    <3> QED BY <2>2, <3>2
  <2>3. CASE /\ r.hist.home = s.hist.home /\ r.kb.symbol = "RELEASING"
             /\ s.kb.symbol = "CHORDING" => r.kb.kind = s.hist.home
    BY <1>2, <2>3
  <2>4. CASE r.hist.home = "none"
    <3>1. v.hist.home = "none"
      BY <2>4 DEF UpHome
    <3> QED BY <3>1
  <2> QED BY <2>1, <2>2, <2>3, <2>4
<1>5. v.hist.home \in {s.hist.home, "none"}
  BY DEF LoopHome, UpHome
<1> QED BY <1>3, <1>4, <1>5 DEF LoopHome

LEMMA SendsSkip ==
    ASSUME NEW s, NEW ps, NEW n \in Nat, NEW sent, Sends(s, ps, n, sent),
           ~Sending(s, ps, n + 1)
    PROVE  Sends(s, ps, n + 1, sent)
<1>1. \A l \in 1 .. n + 1 : l \in 1 .. n \/ l = n + 1
  OBVIOUS
<1>2. \A m \in 1 .. n : m \in 1 .. n + 1
  OBVIOUS
<1> QED BY <1>1, <1>2 DEF Sends

LEMMA SendsOne ==
    ASSUME NEW s, NEW ps, NEW n \in Nat, NEW sent \in Seq(Pointer), Sends(s, ps, n, sent),
           s.queue[n + 1] \in Pointer, Sending(s, ps, n + 1)
    PROVE  Sends(s, ps, n + 1, Append(sent, s.queue[n + 1]))
<1> DEFINE w == Append(sent, s.queue[n + 1])
           k == Len(sent)
<1>1. /\ k \in Nat /\ DOMAIN sent = 1 .. k /\ DOMAIN w = 1 .. k + 1
      /\ w[k + 1] = s.queue[n + 1] /\ \A i \in 1 .. k : w[i] = sent[i]
  OBVIOUS
<1> HIDE DEF w, k
<1>2. ASSUME NEW l \in 1 .. n + 1, Sending(s, ps, l)
      PROVE  \E j \in DOMAIN w : w[j] = s.queue[l]
  <2>1. CASE l = n + 1
    BY <1>1, <2>1
  <2>2. CASE l \in 1 .. n
    <3>1. PICK j \in 1 .. k : sent[j] = s.queue[l]
      BY <1>1, <1>2, <2>2 DEF Sends
    <3> QED BY <1>1, <3>1
  <2> QED BY <2>1, <2>2
<1>3. ASSUME NEW i \in DOMAIN w
      PROVE  \E m \in 1 .. n + 1 :
                /\ w[i] = s.queue[m] /\ Sending(s, ps, m)
                /\ \A l \in 1 .. (m - 1) :
                      Sending(s, ps, l) => \E j \in 1 .. (i - 1) : w[j] = s.queue[l]
  <2>1. CASE i = k + 1
    <3>1. \A l \in 1 .. n : Sending(s, ps, l) => \E j \in 1 .. k : sent[j] = s.queue[l]
      BY <1>1 DEF Sends
    <3>2. n + 1 \in 1 .. n + 1 /\ (n + 1) - 1 = n /\ i - 1 = k
      BY <1>1, <2>1
    <3>3. \A l \in 1 .. n : Sending(s, ps, l) => \E j \in 1 .. k : w[j] = s.queue[l]
      BY <1>1, <3>1
    <3> QED BY <1>1, <2>1, <3>2, <3>3
  <2>2. CASE i \in 1 .. k
    <3>1. PICK m \in 1 .. n :
             /\ sent[i] = s.queue[m] /\ Sending(s, ps, m)
             /\ \A l \in 1 .. (m - 1) :
                   Sending(s, ps, l) => \E j \in 1 .. (i - 1) : sent[j] = s.queue[l]
      BY <1>1, <2>2 DEF Sends
    <3>2. \A j \in 1 .. (i - 1) : w[j] = sent[j]
      BY <1>1, <2>2
    <3>3. m \in 1 .. n + 1 /\ w[i] = s.queue[m] /\ Sending(s, ps, m)
      BY <1>1, <2>2, <3>1
    <3>4. \A l \in 1 .. (m - 1) :
             Sending(s, ps, l) => \E j \in 1 .. (i - 1) : w[j] = s.queue[l]
      BY <3>1, <3>2
    <3> QED BY <3>3, <3>4
  <2> QED BY <1>1, <2>1, <2>2
<1> QED BY <1>2, <1>3 DEF Sends, w

LEMMA SendsStep ==
    ASSUME NEW s, StateOK(s), NEW ps, NEW n \in Nat, n + 1 <= Len(s.queue),
           NEW P, P \subseteq ToSet(s.queue), s.queue[n + 1] \in ps,
           s.queue[n + 1] \notin P, NEW r, LoopFrame(s, P, r),
           LoopSends(s, ps, n, r), NEW v, UpSends(r, s.queue[n + 1], v)
    PROVE  LoopSends(s, ps, n + 1, v)
<1> SUFFICES ASSUME s.hist.sent = <<>>
             PROVE  Sends(s, ps, n + 1, v.hist.sent)
  BY DEF LoopSends
<1> DEFINE x == s.queue[n + 1]
<1>1. x \in ToSet(s.queue)
  BY DEF ToSet, StateOK, States
<1>2. r.gest = s.gest /\ r.tr[x] = s.tr[x] /\ x \in Pointer
  <2>1. x \notin P
    OBVIOUS
  <2> HIDE DEF x
  <2> QED BY <1>1, <2>1, Unchanged
<1>3. Sends(s, ps, n, r.hist.sent)
  BY DEF LoopSends
<1>4. r.hist.sent \in Seq(Pointer)
  BY HistFields DEF LoopFrame
<1>5. v.hist.sent = IF ~s.gest /\ ToSend(s.tr[x]) THEN Append(r.hist.sent, x) ELSE r.hist.sent
  BY <1>2 DEF UpSends
<1>6. CASE Sending(s, ps, n + 1)
  <2>1. v.hist.sent = Append(r.hist.sent, x)
    BY <1>5, <1>6 DEF Sending
  <2>2. Sends(s, ps, n + 1, Append(r.hist.sent, s.queue[n + 1]))
    BY <1>2, <1>3, <1>4, <1>6, SendsOne
  <2> QED BY <2>1, <2>2
<1>7. CASE ~Sending(s, ps, n + 1)
  <2>1. v.hist.sent = r.hist.sent
    BY <1>5, <1>7 DEF Sending
  <2>2. Sends(s, ps, n + 1, r.hist.sent)
    BY <1>3, <1>7, SendsSkip
  <2> QED BY <2>1, <2>2
<1> QED BY <1>6, <1>7

LEMMA LoopStarts ==
    ASSUME NEW s, StateOK(s), NEW ps
    PROVE  Looped(s, ps, 0, s)
<1> DEFINE P == {s.queue[m] : m \in 1 .. 0} \cap ps
<1>1. P = {} /\ s.gest \in BOOLEAN
  BY DEF StateOK, States
<1> SUFFICES LoopFrame(s, P, s) /\ LoopModifiers(s, P, s) /\ LoopHome(s, P, s)
             /\ LoopSends(s, ps, 0, s)
  BY DEF Looped
<1> HIDE DEF P
<1>2. LoopFrame(s, P, s)
  BY <1>1 DEF LoopFrame
<1>3. LoopModifiers(s, P, s)
  BY <1>1 DEF LoopModifiers
<1>4. LoopHome(s, P, s)
  BY DEF LoopHome
<1>5. LoopSends(s, ps, 0, s)
  BY DEF LoopSends, Sends
<1> QED BY <1>2, <1>3, <1>4, <1>5

LEMMA LoopStep ==
    ASSUME NEW s, StateOK(s), IsInjective(s.queue), NEW ps, NEW c, NEW n \in Nat,
           n + 1 <= Len(s.queue), NEW r, Looped(s, ps, n, r)
    PROVE  LET x == s.queue[n + 1]
           IN Looped(s, ps, n + 1, IF x \in ps THEN PhantomUp(r, x, c) ELSE r)
<1> DEFINE x == s.queue[n + 1]
           P == {s.queue[m] : m \in 1 .. n} \cap ps
           Q == {s.queue[m] : m \in 1 .. n + 1} \cap ps
           v == IF x \in ps THEN PhantomUp(r, x, c) ELSE r
<1>1. /\ LoopFrame(s, P, r) /\ LoopModifiers(s, P, r) /\ LoopHome(s, P, r)
      /\ LoopSends(s, ps, n, r)
  BY DEF Looped
<1>2. s.queue \in Seq(Pointer)
  BY DEF StateOK, States
<1>3. /\ P \subseteq ToSet(s.queue) /\ x \in ToSet(s.queue) /\ x \in Pointer /\ x \notin P
  BY <1>2 DEF ToSet, IsInjective
<1>4. Q = IF x \in ps THEN P \cup {x} ELSE P
  <2>1. 1 .. n + 1 = (1 .. n) \cup {n + 1}
    OBVIOUS
  <2> QED BY <2>1
<1> SUFFICES LoopFrame(s, Q, v) /\ LoopModifiers(s, Q, v) /\ LoopHome(s, Q, v)
             /\ LoopSends(s, ps, n + 1, v)
  BY DEF Looped
<1>5. CASE x \in ps
  <2>1. v = PhantomUp(r, x, c)
    BY <1>5
  <2>2. Phantomed(r, x, PhantomUp(r, x, c))
    BY <1>1, <1>3, PhantomKeeps DEF LoopFrame
  <2>3. PhantomFrame(r, x, v) /\ UpModifiers(r, x, v) /\ UpSends(r, x, v) /\ UpHome(r, x, v)
    BY <2>1, <2>2 DEF Phantomed
  <2>4. Q = P \cup {x}
    BY <1>4, <1>5
  <2> HIDE DEF v, P, Q
  <2>5. LoopFrame(s, P \cup {x}, v)
    BY <1>1, <1>3, <2>3, FrameStep
  <2>6. LoopModifiers(s, P \cup {x}, v)
    BY <1>1, <1>3, <2>3, ModifiersStep
  <2>7. LoopHome(s, P \cup {x}, v)
    BY <1>1, <1>3, <2>3, HomeStep
  <2>8. LoopSends(s, ps, n + 1, v)
    BY <1>1, <1>3, <1>5, <2>3, SendsStep
  <2> QED BY <2>4, <2>5, <2>6, <2>7, <2>8
<1>6. CASE x \notin ps
  <2>1. v = r /\ Q = P
    BY <1>4, <1>6
  <2>2. LoopSends(s, ps, n + 1, r)
    BY <1>1, <1>6, SendsSkip DEF LoopSends, Sending
  <2> QED BY <1>1, <2>1, <2>2
<1> QED BY <1>5, <1>6

\* What giving phantom ups to the queued pointers of ps does.
LEMMA PhantomUpsKeep ==
    ASSUME NEW s, StateOK(s), IsInjective(s.queue), NEW ps, NEW c
    PROVE  Looped(s, ps, Len(s.queue), PhantomUps(s, ps, c))
<1> DEFINE d == Done(s, ps, c)
           len == Len(s.queue)
           T == {n \in Nat : n <= len => Looped(s, ps, n, d[n])}
<1>1. len \in Nat
  BY DEF StateOK, States
<1>2. IsDone(d, s, s.queue, ps, c, len) /\ PhantomUps(s, ps, c) = d[len]
  BY <1>1, DoneDefined
<1> DEFINE q == s.queue
<1>3. /\ d[0] = s
      /\ \A n \in 1 .. len : d[n] = IF q[n] \in ps THEN PhantomUp(d[n - 1], q[n], c) ELSE d[n - 1]
  <2> HIDE DEF d, q, len
  <2>1. IsDone(d, s, q, ps, c, len)
    BY <1>2 DEF q
  <2> QED BY <1>1, <2>1, DoneAt
<1> HIDE DEF d
<1>4. 0 \in T
  BY <1>3, LoopStarts
<1>5. ASSUME NEW n \in T PROVE n + 1 \in T
  <2> SUFFICES ASSUME n + 1 <= len PROVE Looped(s, ps, n + 1, d[n + 1])
    OBVIOUS
  <2>1. n \in Nat /\ Looped(s, ps, n, d[n]) /\ n + 1 \in 1 .. len /\ (n + 1) - 1 = n
    BY <1>1
  <2>2. d[n + 1] = IF q[n + 1] \in ps THEN PhantomUp(d[n], q[n + 1], c) ELSE d[n]
    BY <1>3, <2>1
  <2>3. Looped(s, ps, n + 1, IF q[n + 1] \in ps THEN PhantomUp(d[n], q[n + 1], c) ELSE d[n])
    BY <2>1, LoopStep
  <2> QED BY <2>2, <2>3
<1>6. len \in T
  <2> HIDE DEF T
  <2>1. T \subseteq Nat
    BY DEF T
  <2> QED BY <1>1, <1>4, <1>5, <2>1, Inductive
<1> QED BY <1>1, <1>2, <1>6

-----------------------------------------------------------------------------
(* What releasing a part ps of the queue does.                             *)

Swept(s, ps, r) ==
    /\ StateOK(r) /\ r.hist.lost = s.hist.lost
    /\ IsInjective(r.queue) /\ ToSet(r.queue) = ToSet(s.queue) \ ps
    /\ s.gest = FALSE => r.gest = FALSE
    /\ s.gest = TRUE => r.gest = (ToSet(s.queue) \cap ps = {} \/ Len(s.queue) # 1)
    /\ \A q \in Pointer : q \notin ToSet(s.queue) \cap ps => r.tr[q] = s.tr[q]
    /\ \A q \in ToSet(s.queue) \cap ps :
          /\ r.tr[q].down = s.tr[q].down /\ r.tr[q].disabled = TRUE
          /\ r.tr[q].key = "none" /\ r.tr[q].drag = FALSE
          /\ r.tr[q].sliding = FALSE
    /\ LoopModifiers(s, ToSet(s.queue) \cap ps, r)
    /\ LoopHome(s, ToSet(s.queue) \cap ps, r)
    /\ LoopSends(s, ps, Len(s.queue), r)

LEMMA SweepKeeps ==
    ASSUME NEW s, StateOK(s), IsInjective(s.queue), NEW ps, NEW c, NEW w \in Seq(Pointer),
           IsInjective(w), ToSet(w) = ToSet(s.queue) \ ps
    PROVE  Swept(s, ps, [PhantomUps(s, ps, c) EXCEPT !.queue = w])
<1> DEFINE u == PhantomUps(s, ps, c)
           r == [u EXCEPT !.queue = w]
           P == ToSet(s.queue) \cap ps
<1>1. Looped(s, ps, Len(s.queue), u)
  BY PhantomUpsKeep
<1>2. P = {s.queue[m] : m \in 1 .. Len(s.queue)} \cap ps
  BY DEF ToSet, StateOK, States
<1>3. /\ LoopFrame(s, P, u) /\ LoopModifiers(s, P, u) /\ LoopHome(s, P, u)
      /\ LoopSends(s, ps, Len(s.queue), u)
  BY <1>1, <1>2 DEF Looped
<1> HIDE DEF u, P
<1>4. /\ StateOK(r) /\ r.kb = u.kb /\ r.tr = u.tr /\ r.gest = u.gest /\ r.hist = u.hist
      /\ r.queue = w
  BY <1>3 DEF LoopFrame, StateOK, States
<1> HIDE DEF r
<1>5. LoopModifiers(s, P, r) /\ LoopHome(s, P, r) /\ LoopSends(s, ps, Len(s.queue), r)
  BY <1>3, <1>4 DEF LoopModifiers, LoopHome, LoopSends
<1>6. /\ r.hist.lost = s.hist.lost
      /\ s.gest = FALSE => r.gest = FALSE
      /\ s.gest = TRUE => r.gest = (P = {} \/ Len(s.queue) # 1)
      /\ \A q \in Pointer : q \notin P => r.tr[q] = s.tr[q]
      /\ \A q \in P : /\ r.tr[q].down = s.tr[q].down /\ r.tr[q].disabled = TRUE
                      /\ r.tr[q].key = "none" /\ r.tr[q].drag = FALSE
                      /\ r.tr[q].sliding = FALSE
  BY <1>3, <1>4 DEF LoopFrame
<1>7. Swept(s, ps, r)
  BY <1>4, <1>5, <1>6 DEF Swept, P
<1> QED BY <1>7 DEF r, u

LEMMA QueueKept ==
    ASSUME NEW s, StateOK(s), IsInjective(s.queue), NEW ps, NEW c
    PROVE  PhantomUps(s, ps, c).queue = s.queue
<1>1. Looped(s, ps, Len(s.queue), PhantomUps(s, ps, c))
  BY PhantomUpsKeep
<1> QED BY <1>1 DEF Looped, LoopFrame

LEMMA ReleaseAllKeeps ==
    ASSUME NEW s, StateOK(s), IsInjective(s.queue), NEW c
    PROVE  Swept(s, Pointer, ReleaseAll(s, c)) /\ ToSet(ReleaseAll(s, c).queue) = {}
<1> DEFINE w == <<>>
           r == [PhantomUps(s, Pointer, c) EXCEPT !.queue = w]
<1>1. w \in Seq(Pointer) /\ IsInjective(w) /\ ToSet(w) = {}
  BY DEF IsInjective, ToSet
<1>2. ToSet(s.queue) \ Pointer = {}
  BY DEF ToSet, StateOK, States
<1>3. ReleaseAll(s, c) = r
  BY DEF ReleaseAll
<1> HIDE DEF w
<1>4. Swept(s, Pointer, r)
  BY <1>1, <1>2, SweepKeeps
<1> HIDE DEF r
<1> QED BY <1>2, <1>3, <1>4 DEF Swept

LEMMA ReleaseOthersKeeps ==
    ASSUME NEW s, StateOK(s), IsInjective(s.queue), NEW p \in Pointer, NEW c
    PROVE  Swept(s, Pointer \ {p}, ReleaseAllExcept(s, p, c))
<1> DEFINE u == PhantomUps(s, Pointer \ {p}, c)
           w == Keep(u.queue, {p})
           r == [u EXCEPT !.queue = w]
<1>1. u.queue = s.queue
  BY QueueKept
<1>2. s.queue \in Seq(Pointer)
  BY DEF StateOK, States
<1>3. Keeps(s.queue, {p}, Keep(s.queue, {p}))
  BY <1>2, KeepKeeps
<1>4. w \in Seq(Pointer) /\ ToSet(w) = ToSet(s.queue) \cap {p} /\ IsInjective(w)
  BY <1>1, <1>3 DEF Keeps
<1>5. ToSet(s.queue) \cap {p} = ToSet(s.queue) \ (Pointer \ {p})
  BY <1>2 DEF ToSet
<1>6. ReleaseAllExcept(s, p, c) = r
  BY DEF ReleaseAllExcept
<1> HIDE DEF w
<1>7. Swept(s, Pointer \ {p}, r)
  BY <1>4, <1>5, SweepKeeps
<1> QED BY <1>6, <1>7

OlderThan(s, p) == {q \in Older(s.queue, p) : s.tr[q].key \notin Modifier}

LEMMA ReleaseOlderKeeps ==
    ASSUME NEW s, StateOK(s), IsInjective(s.queue), NEW p \in Pointer, NEW c
    PROVE  Swept(s, OlderThan(s, p), ReleaseOlderThan(s, p, c))
<1> DEFINE ps == OlderThan(s, p)
           u == PhantomUps(s, ps, c)
           w == Keep(u.queue, Pointer \ ps)
           r == [u EXCEPT !.queue = w]
<1>1. u.queue = s.queue
  BY QueueKept
<1>2. s.queue \in Seq(Pointer)
  BY DEF StateOK, States
<1>3. Keeps(s.queue, Pointer \ ps, Keep(s.queue, Pointer \ ps))
  BY <1>2, KeepKeeps
<1>4. w \in Seq(Pointer) /\ ToSet(w) = ToSet(s.queue) \cap (Pointer \ ps) /\ IsInjective(w)
  BY <1>1, <1>3 DEF Keeps
<1>5. ToSet(s.queue) \cap (Pointer \ ps) = ToSet(s.queue) \ ps
  BY <1>2 DEF ToSet
<1>6. ReleaseOlderThan(s, p, c) = r
  BY DEF ReleaseOlderThan, OlderThan
<1> HIDE DEF w, ps
<1>7. Swept(s, ps, r)
  BY <1>4, <1>5, SweepKeeps
<1> QED BY <1>6, <1>7 DEF ps

\* Nobody is released.
LEMMA NobodySwept ==
    ASSUME NEW s, StateOK(s), IsInjective(s.queue)
    PROVE  Swept(s, {}, s)
<1>1. ToSet(s.queue) \cap {} = {} /\ ToSet(s.queue) \ {} = ToSet(s.queue) /\ s.gest \in BOOLEAN
  BY DEF StateOK, States
<1>2. LoopModifiers(s, {}, s) /\ LoopHome(s, {}, s)
  BY DEF LoopModifiers, LoopHome
<1>3. LoopSends(s, {}, Len(s.queue), s)
  BY DEF LoopSends, Sends, Sending
<1> QED BY <1>1, <1>2, <1>3 DEF Swept

LEMMA WithoutKeeps ==
    ASSUME NEW s, StateOK(s), IsInjective(s.queue), NEW p \in Pointer
    PROVE  LET r == Without(s, p)
           IN /\ StateOK(r) /\ r.kb = s.kb /\ r.tr = s.tr /\ r.gest = s.gest
              /\ r.hist = s.hist /\ IsInjective(r.queue)
              /\ ToSet(r.queue) = ToSet(s.queue) \ {p}
<1> DEFINE w == Keep(s.queue, Pointer \ {p})
           r == [s EXCEPT !.queue = w]
<1>1. s.queue \in Seq(Pointer)
  BY DEF StateOK, States
<1>2. Keeps(s.queue, Pointer \ {p}, Keep(s.queue, Pointer \ {p}))
  BY <1>1, KeepKeeps
<1>3. w \in Seq(Pointer) /\ ToSet(w) = ToSet(s.queue) \cap (Pointer \ {p}) /\ IsInjective(w)
  BY <1>2 DEF Keeps
<1>4. ToSet(s.queue) \cap (Pointer \ {p}) = ToSet(s.queue) \ {p}
  BY <1>1 DEF ToSet
<1>5. Without(s, p) = r
  BY DEF Without
<1> HIDE DEF w
<1>6. /\ StateOK(r) /\ r.kb = s.kb /\ r.tr = s.tr /\ r.gest = s.gest /\ r.hist = s.hist
      /\ r.queue = w
  BY <1>3 DEF StateOK, States
<1> QED BY <1>3, <1>4, <1>5, <1>6

-----------------------------------------------------------------------------
(* The inductive invariant, of a state s like the ones the handlers work   *)
(* on.                                                                     *)

Typed(s) ==
    /\ StateOK(s) /\ IsInjective(s.queue)
    /\ \A q \in ToSet(s.queue) : s.tr[q].down
    /\ s.kb.timer \subseteq ToSet(s.queue)
    /\ \A p, q \in s.kb.timer : p = q

\* Only a dragged finger slides, and a finger that left the queue is disabled.
Settled(s) ==
    \A q \in Pointer : /\ s.tr[q].sliding => s.tr[q].drag
                       /\ s.tr[q].down /\ q \notin ToSet(s.queue) => s.tr[q].disabled

\* A finger on no key that was not dragged there may still go down on a modifier key:
\* onMoveEvent presses the key it finds itself on.
Holds(s, q) == s.tr[q].key \in Modifier /\ ~s.tr[q].drag
Candidate(s, q) == Holds(s, q) \/ (s.tr[q].key = "none" /\ ~s.tr[q].drag /\ ~s.tr[q].disabled)
OneHolds(s) ==
    /\ \A p, q \in ToSet(s.queue) : Holds(s, p) /\ Holds(s, q) => p = q
    /\ ~s.gest => \A p, q \in ToSet(s.queue) : Candidate(s, p) /\ Candidate(s, q) => p = q

\* Who will report the release of a modifier key.
Owns(s, q, key) ==
    /\ q \in ToSet(s.queue) /\ ~s.tr[q].disabled
    /\ (s.tr[q].key = key /\ ~s.tr[q].drag) \/ s.tr[q].sliding
Owned(s) ==
    /\ s.gest => ~InUse(s.kb)
    /\ s.kb.shift # "RELEASING" => \E q \in ToSet(s.queue) : Owns(s, q, "shift")
    /\ s.kb.symbol # "RELEASING" => \E q \in ToSet(s.queue) : Owns(s, q, "symbol")

\* While the symbol key is in use, its release returns to home: no finger does anything
\* before that would make it return elsewhere.
Away(s) ==
    s.hist.home # "none" /\ s.kb.symbol # "RELEASING" =>
        /\ Chords(s.kb, s.hist.home)
        /\ \A q \in ToSet(s.queue) : ~s.tr[q].disabled =>
              /\ s.tr[q].key # "shift" /\ ~s.tr[q].sliding
              /\ s.hist.home # "alphabet" => s.tr[q].key # "number"

Inv(s) == /\ Typed(s) /\ Settled(s) /\ OneHolds(s)
          /\ ~s.hist.lost => Owned(s) /\ Away(s)

Momentary(s, r) ==
    s.kb.symbol = "CHORDING" /\ r.kb.symbol = "RELEASING" /\ ~s.hist.lost /\ r.hist.home # "none"
        => r.kb.kind = s.hist.home

\* No finger's next touch is swallowed.
Unmoved(s) ==
    \A q \in ToSet(s.queue) : s.tr[q].moved => s.tr[q].key = "space" /\ ~s.tr[q].drag

LEMMA QueueTypes ==
    ASSUME NEW s, StateOK(s)
    PROVE  s.queue \in Seq(Pointer) /\ ToSet(s.queue) \subseteq Pointer /\ s.gest \in BOOLEAN
<1>1. s.queue \in Seq(Pointer) /\ s.gest \in BOOLEAN
  BY DEF StateOK, States
<1> QED BY <1>1 DEF ToSet

\* The trackers that stay, and the end of a gesture with its last finger.
LEMMA SweptTrackers ==
    ASSUME NEW s, StateOK(s), NEW ps, NEW r, Swept(s, ps, r)
    PROVE  /\ \A q \in ToSet(r.queue) :
                 q \in ToSet(s.queue) /\ q \in Pointer /\ r.tr[q] = s.tr[q]
           /\ r.gest => s.gest
           /\ s.gest /\ ~r.gest => ToSet(r.queue) = {}
<1>1. ToSet(s.queue) \subseteq Pointer /\ s.gest \in BOOLEAN /\ s.queue \in Seq(Pointer)
  BY QueueTypes
<1>2. \A q \in ToSet(r.queue) : q \in ToSet(s.queue) /\ q \in Pointer /\ r.tr[q] = s.tr[q]
  BY <1>1 DEF Swept
<1>3. r.gest => s.gest
  BY <1>1 DEF Swept
<1>4. ASSUME s.gest, ~r.gest PROVE ToSet(r.queue) = {}
  <2>1. ToSet(s.queue) \cap ps # {} /\ Len(s.queue) = 1
    BY <1>1, <1>4 DEF Swept
  <2>2. \A p, q \in ToSet(s.queue) : p = q
    BY <1>1, <2>1 DEF ToSet
  <2> QED BY <2>1, <2>2 DEF Swept
<1> QED BY <1>2, <1>3, <1>4

LEMMA SweptKeeps ==
    ASSUME NEW s, Typed(s), Settled(s), OneHolds(s), NEW ps, NEW r, Swept(s, ps, r)
    PROVE  Typed(r) /\ Settled(r) /\ OneHolds(r)
<1>1. StateOK(s) /\ StateOK(r)
  BY DEF Typed, Swept
<1>2. /\ \A q \in ToSet(r.queue) :
            q \in ToSet(s.queue) /\ q \in Pointer /\ r.tr[q] = s.tr[q]
      /\ r.gest => s.gest
      /\ s.gest /\ ~r.gest => ToSet(r.queue) = {}
  BY <1>1, SweptTrackers
<1>3. Typed(r)
  <2>1. r.kb.timer \subseteq s.kb.timer /\ r.kb.timer \subseteq ToSet(r.queue)
    BY DEF Swept, LoopModifiers, Typed
  <2> QED BY <1>1, <1>2, <2>1 DEF Typed, Swept
<1>4. Settled(r)
  <2> SUFFICES ASSUME NEW q \in Pointer
               PROVE  /\ r.tr[q].sliding => r.tr[q].drag
                      /\ r.tr[q].down /\ q \notin ToSet(r.queue) => r.tr[q].disabled
    BY DEF Settled
  <2>1. CASE q \in ToSet(s.queue) \cap ps
    BY <2>1 DEF Swept
  <2>2. CASE q \notin ToSet(s.queue) \cap ps
    <3>1. r.tr[q] = s.tr[q] /\ (q \notin ToSet(r.queue) => q \notin ToSet(s.queue))
      BY <2>2 DEF Swept
    <3> QED BY <3>1 DEF Settled
  <2> QED BY <2>1, <2>2
<1>5. OneHolds(r)
  <2>1. \A q \in ToSet(r.queue) : /\ Holds(r, q) => Holds(s, q)
                                  /\ Candidate(r, q) => Candidate(s, q)
    BY <1>2 DEF Holds, Candidate
  <2> QED BY <1>2, <2>1 DEF OneHolds
<1> QED BY <1>3, <1>4, <1>5

\* A modifier key in use is released by a sweep, or its owner stays.
LEMMA SweptOwned ==
    ASSUME NEW s, Typed(s), Settled(s), Owned(s), Unmoved(s), NEW ps, NEW r,
           Swept(s, ps, r)
    PROVE  Owned(r) /\ Unmoved(r)
<1>1. StateOK(s)
  BY DEF Typed
<1>2. /\ \A q \in ToSet(r.queue) :
            q \in ToSet(s.queue) /\ q \in Pointer /\ r.tr[q] = s.tr[q]
      /\ r.gest => s.gest
  BY <1>1, SweptTrackers
<1>3. /\ r.kb.shift \in {s.kb.shift, "RELEASING"} /\ r.kb.symbol \in {s.kb.symbol, "RELEASING"}
  BY DEF Swept, LoopModifiers
<1>4. ToSet(s.queue) \subseteq Pointer
  BY <1>1, QueueTypes
<1>5. ASSUME NEW key \in {"shift", "symbol"}, NEW q \in ToSet(s.queue), Owns(s, q, key),
             InUse(s.kb)
      PROVE  \/ Owns(r, q, key) /\ q \in ToSet(r.queue)
             \/ key = "shift" /\ r.kb.shift = "RELEASING"
             \/ key = "symbol" /\ r.kb.symbol = "RELEASING"
  <2>1. Acts(s, q)
    <3>1. ~s.gest /\ ~s.tr[q].disabled
      BY <1>5 DEF Owned, Owns
    <3>2. ~(s.tr[q].key = "space" /\ ~s.tr[q].drag)
      BY <1>4, <1>5 DEF Owns, Settled
    <3>3. ~s.tr[q].moved
      BY <1>5, <3>2 DEF Unmoved
    <3> QED BY <3>1, <3>3 DEF Acts
  <2>2. CASE q \in ps
    BY <1>5, <2>1, <2>2 DEF Swept, LoopModifiers, Owns
  <2>3. CASE q \notin ps
    <3>1. q \in ToSet(r.queue)
      BY <2>3 DEF Swept
    <3> QED BY <1>2, <1>5, <3>1 DEF Owns
  <2> QED BY <2>2, <2>3
<1>6. r.gest => ~InUse(r.kb)
  BY <1>2, <1>3 DEF Owned, InUse
<1>7. ASSUME r.kb.shift # "RELEASING" PROVE \E q \in ToSet(r.queue) : Owns(r, q, "shift")
  <2>1. s.kb.shift # "RELEASING" /\ InUse(s.kb)
    BY <1>3, <1>7 DEF InUse
  <2>2. PICK q \in ToSet(s.queue) : Owns(s, q, "shift")
    BY <2>1 DEF Owned
  <2> QED BY <1>5, <1>7, <2>1, <2>2
<1>8. ASSUME r.kb.symbol # "RELEASING" PROVE \E q \in ToSet(r.queue) : Owns(r, q, "symbol")
  <2>1. s.kb.symbol # "RELEASING" /\ InUse(s.kb)
    BY <1>3, <1>8 DEF InUse
  <2>2. PICK q \in ToSet(s.queue) : Owns(s, q, "symbol")
    BY <2>1 DEF Owned
  <2> QED BY <1>5, <1>8, <2>1, <2>2
<1>9. Unmoved(r)
  BY <1>2 DEF Unmoved
<1> QED BY <1>6, <1>7, <1>8, <1>9 DEF Owned

\* A sweep keeps the way home, or takes it.
SweptHome(s, r) ==
    \/ r.hist.home = "none"
    \/ /\ r.hist.home = s.hist.home
       /\ \/ r.kb.symbol = s.kb.symbol /\ Chords(r.kb, s.hist.home)
          \/ /\ r.kb.symbol = "RELEASING"
             /\ s.kb.symbol = "CHORDING" => r.kb.kind = s.hist.home

LEMMA SweptAway ==
    ASSUME NEW s, Typed(s), Away(s), NEW ps, NEW r, Swept(s, ps, r)
    PROVE  /\ Away(r) /\ r.hist.home \in {s.hist.home, "none"}
           /\ s.kb.symbol # "RELEASING" => SweptHome(s, r)
<1>1. StateOK(s)
  BY DEF Typed
<1>2. /\ \A q \in ToSet(r.queue) :
            q \in ToSet(s.queue) /\ q \in Pointer /\ r.tr[q] = s.tr[q]
      /\ r.hist.home \in {s.hist.home, "none"} /\ r.kb.symbol \in {s.kb.symbol, "RELEASING"}
  <2> DEFINE P == ToSet(s.queue) \cap ps
  <2> HIDE DEF P
  <2>1. \A q \in ToSet(r.queue) :
            q \in ToSet(s.queue) /\ q \in Pointer /\ r.tr[q] = s.tr[q]
    BY <1>1, SweptTrackers
  <2>2. LoopModifiers(s, P, r) /\ LoopHome(s, P, r)
    BY DEF Swept, P
  <2>3. r.hist.home \in {s.hist.home, "none"}
    BY <2>2 DEF LoopHome
  <2>4. r.kb.symbol \in {s.kb.symbol, "RELEASING"}
    BY <2>2 DEF LoopModifiers
  <2> QED BY <2>1, <2>3, <2>4
<1>3. ASSUME s.kb.symbol # "RELEASING" PROVE SweptHome(s, r)
  <2>1. CASE s.hist.home = "none"
    BY <1>2, <2>1 DEF SweptHome
  <2>2. CASE s.hist.home # "none"
    <3>1. Chords(s.kb, s.hist.home)
      BY <1>3, <2>2 DEF Away
    <3>2. \A q \in ToSet(s.queue) \cap ps : KeepsChord(s, q, s.hist.home)
      BY <1>3, <2>2 DEF Away, KeepsChord, Acts
    <3>3. LoopHome(s, ToSet(s.queue) \cap ps, r)
      BY DEF Swept
    <3> QED BY <3>1, <3>2, <3>3 DEF LoopHome, SweptHome
  <2> QED BY <2>1, <2>2
<1>4. Away(r)
  <2> SUFFICES ASSUME r.hist.home # "none", r.kb.symbol # "RELEASING"
               PROVE  /\ Chords(r.kb, r.hist.home)
                      /\ \A q \in ToSet(r.queue) : ~r.tr[q].disabled =>
                            /\ r.tr[q].key # "shift" /\ ~r.tr[q].sliding
                            /\ r.hist.home # "alphabet" => r.tr[q].key # "number"
    BY DEF Away
  <2>1. s.hist.home # "none" /\ s.kb.symbol # "RELEASING" /\ r.hist.home = s.hist.home
    BY <1>2
  <2>2. Chords(r.kb, r.hist.home)
    BY <1>3, <2>1 DEF SweptHome
  <2>3. \A q \in ToSet(s.queue) : ~s.tr[q].disabled =>
           /\ s.tr[q].key # "shift" /\ ~s.tr[q].sliding
           /\ s.hist.home # "alphabet" => s.tr[q].key # "number"
    BY <2>1 DEF Away
  <2> QED BY <1>2, <2>1, <2>2, <2>3
<1> QED BY <1>2, <1>3, <1>4

-----------------------------------------------------------------------------
(* A finger lifts.                                                         *)

\* Letters are sent in the order of the queue.
Ordered(s, sent) ==
    \A i \in DOMAIN sent : \A q \in Older(s.queue, sent[i]) :
        ToSend(s.tr[q]) => \E j \in 1 .. (i - 1) : sent[j] = q

\* Whoever has a letter to send before one of ps is in ps, too.
Covers(s, ps) ==
    \A m \in 1 .. Len(s.queue) : \A l \in 1 .. (m - 1) :
        Sending(s, ps, m) /\ ToSend(s.tr[s.queue[l]]) => s.queue[l] \in ps

LEMMA SendsOrdered ==
    ASSUME NEW s, StateOK(s), NEW ps, Covers(s, ps), NEW sent, Sends(s, ps, Len(s.queue), sent)
    PROVE  Ordered(s, sent)
<1> SUFFICES ASSUME NEW i \in DOMAIN sent, NEW q \in Older(s.queue, sent[i]), ToSend(s.tr[q])
             PROVE  \E j \in 1 .. (i - 1) : sent[j] = q
  BY DEF Ordered
<1>1. s.queue \in Seq(Pointer) /\ Len(s.queue) \in Nat /\ DOMAIN s.queue = 1 .. Len(s.queue)
  BY QueueTypes
<1>2. PICK m \in 1 .. Len(s.queue) :
         /\ sent[i] = s.queue[m] /\ Sending(s, ps, m)
         /\ \A l \in 1 .. (m - 1) :
               Sending(s, ps, l) => \E j \in 1 .. (i - 1) : sent[j] = s.queue[l]
  BY DEF Sends
<1>3. PICK l \in 1 .. Len(s.queue) : q = s.queue[l] /\ \A j \in 1 .. l : s.queue[j] # sent[i]
  BY <1>1 DEF Older
<1>4. l \in 1 .. (m - 1)
  BY <1>1, <1>2, <1>3
<1>5. Sending(s, ps, l)
  BY <1>2, <1>3, <1>4 DEF Covers, Sending
<1> QED BY <1>2, <1>3, <1>4, <1>5

LEMMA CoversAll ==
    ASSUME NEW s, StateOK(s)
    PROVE  Covers(s, Pointer)
BY QueueTypes DEF Covers

LEMMA CoversOthers ==
    ASSUME NEW s, StateOK(s), NEW p \in Pointer, s.tr[p].key \in Modifier
    PROVE  Covers(s, Pointer \ {p})
<1>1. ~ToSend(s.tr[p])
  BY DEF ToSend, IsLetter, Modifier
<1> QED BY <1>1, QueueTypes DEF Covers

LEMMA CoversOlder ==
    ASSUME NEW s, StateOK(s), IsInjective(s.queue), NEW p \in Pointer
    PROVE  Covers(s, OlderThan(s, p))
<1> SUFFICES ASSUME NEW m \in 1 .. Len(s.queue), NEW l \in 1 .. (m - 1),
                    s.queue[m] \in OlderThan(s, p), ToSend(s.tr[s.queue[l]])
             PROVE  s.queue[l] \in OlderThan(s, p)
  BY DEF Covers, Sending
<1>1. s.queue \in Seq(Pointer) /\ Len(s.queue) \in Nat /\ DOMAIN s.queue = 1 .. Len(s.queue)
  BY QueueTypes
<1>2. PICK k \in 1 .. Len(s.queue) :
         s.queue[m] = s.queue[k] /\ \A j \in 1 .. k : s.queue[j] # p
  BY <1>1 DEF OlderThan, Older
<1>3. k = m
  BY <1>1, <1>2 DEF IsInjective
<1>4. l \in DOMAIN s.queue /\ \A j \in 1 .. l : s.queue[j] # p
  BY <1>1, <1>2, <1>3
<1>5. s.tr[s.queue[l]].key \notin Modifier
  BY DEF ToSend, IsLetter, Modifier
<1> QED BY <1>4, <1>5 DEF OlderThan, Older

\* The tracker leaves the queue and its finger the screen.
Gone(u, p, r) ==
    /\ StateOK(r) /\ r.kb = u.kb /\ r.gest = u.gest /\ r.hist = u.hist
    /\ IsInjective(r.queue) /\ ToSet(r.queue) = ToSet(u.queue) \ {p}
    /\ \A q \in Pointer : q # p => r.tr[q] = u.tr[q]
    /\ ~r.tr[p].down /\ r.tr[p].sliding = u.tr[p].sliding

LEMMA GoneKeeps ==
    ASSUME NEW u, StateOK(u), IsInjective(u.queue), NEW p \in Pointer
    PROVE  Gone(u, p, [Without(u, p) EXCEPT !.tr[p].down = FALSE])
<1> DEFINE w == Without(u, p)
           t == w.tr[p]
           v == [t EXCEPT !.down = FALSE]
           r == [w EXCEPT !.tr[p].down = FALSE]
<1>1. /\ StateOK(w) /\ w.kb = u.kb /\ w.tr = u.tr /\ w.gest = u.gest
      /\ w.hist = u.hist /\ IsInjective(w.queue)
      /\ ToSet(w.queue) = ToSet(u.queue) \ {p}
  BY WithoutKeeps
<1> HIDE DEF w
<1>2. t \in Tracker
  BY <1>1, TrackerFields
<1>3. r = Upd(w, p, v)
  BY <1>1 DEF Upd, StateOK, States
<1> HIDE DEF t
<1>4. v \in Tracker /\ ~v.down /\ v.sliding = t.sliding
  BY <1>2 DEF Tracker
<1> HIDE DEF v
<1>5. LET x == Upd(w, p, v)
      IN /\ StateOK(x) /\ x.kb = w.kb /\ x.queue = w.queue /\ x.gest = w.gest
         /\ x.hist = w.hist /\ x.tr[p] = v
         /\ \A q \in Pointer : q # p => x.tr[q] = w.tr[q]
  BY <1>1, <1>4, UpdKeeps
<1> HIDE DEF r
<1>6. Gone(u, p, r)
  BY <1>1, <1>3, <1>4, <1>5 DEF Gone, t
<1> QED BY <1>6 DEF r, w

LEMMA UpTyped ==
    ASSUME NEW o, Typed(o), Settled(o), OneHolds(o), NEW p \in Pointer,
           NEW u, Upped(o, p, u), NEW r, Gone(u, p, r)
    PROVE  Typed(r) /\ Settled(r) /\ OneHolds(r)
<1>1. UpFrame(o, p, u) /\ UpModifiers(o, p, u) /\ StateOK(o)
  BY DEF Upped, Typed
<1>2. o.queue \in Seq(Pointer) /\ ToSet(o.queue) \subseteq Pointer /\ o.gest \in BOOLEAN
  BY <1>1, QueueTypes
<1>3. /\ ToSet(r.queue) = ToSet(o.queue) \ {p}
      /\ \A q \in Pointer : q # p => r.tr[q] = o.tr[q]
  BY <1>1 DEF UpFrame, Gone
<1>4. Typed(r)
  <2>1. r.kb.timer \subseteq o.kb.timer \ {p}
    BY <1>1 DEF UpModifiers, Gone
  <2> QED BY <1>2, <1>3, <2>1 DEF Typed, Gone
<1>5. Settled(r)
  <2> SUFFICES ASSUME NEW q \in Pointer
               PROVE  /\ r.tr[q].sliding => r.tr[q].drag
                      /\ r.tr[q].down /\ q \notin ToSet(r.queue) => r.tr[q].disabled
    BY DEF Settled
  <2>1. CASE q = p
    BY <1>1, <2>1 DEF Gone, UpFrame
  <2>2. CASE q # p
    BY <1>3, <2>2 DEF Settled
  <2> QED BY <2>1, <2>2
<1>6. OneHolds(r)
  <2>1. \A q \in ToSet(r.queue) : q \in ToSet(o.queue) /\ r.tr[q] = o.tr[q]
    BY <1>2, <1>3
  <2>2. \A q \in ToSet(r.queue) : /\ Holds(r, q) => Holds(o, q)
                                  /\ Candidate(r, q) => Candidate(o, q)
    BY <2>1 DEF Holds, Candidate
  <2>3. r.gest = u.gest
    BY DEF Gone
  <2>4. CASE o.gest /\ ~r.gest
    <3>1. Len(o.queue) = 1
      BY <1>1, <2>3, <2>4 DEF UpFrame
    <3>2. \A a, b \in ToSet(o.queue) : a = b
      BY <1>2, <3>1 DEF ToSet
    <3> QED BY <2>1, <3>2 DEF OneHolds
  <2>5. CASE r.gest \/ ~o.gest
    BY <2>1, <2>2, <2>5 DEF OneHolds
  <2> QED BY <2>4, <2>5
<1> QED BY <1>4, <1>5, <1>6

LEMMA UpOwned ==
    ASSUME NEW o, Typed(o), Settled(o), Owned(o), Unmoved(o), NEW p \in Pointer,
           NEW u, Upped(o, p, u), NEW r, Gone(u, p, r)
    PROVE  Owned(r)
<1>1. UpFrame(o, p, u) /\ UpModifiers(o, p, u) /\ StateOK(o)
  BY DEF Upped, Typed
<1>2. o.queue \in Seq(Pointer) /\ ToSet(o.queue) \subseteq Pointer /\ o.gest \in BOOLEAN
  BY <1>1, QueueTypes
<1>3. /\ ToSet(r.queue) = ToSet(o.queue) \ {p}
      /\ \A q \in Pointer : q # p => r.tr[q] = o.tr[q]
      /\ r.kb.shift \in {o.kb.shift, "RELEASING"} /\ r.kb.symbol \in {o.kb.symbol, "RELEASING"}
      /\ r.gest => o.gest
  BY <1>1, <1>2 DEF UpFrame, UpModifiers, Gone
<1>4. ASSUME NEW key \in {"shift", "symbol"}, NEW q \in ToSet(o.queue), Owns(o, q, key),
             InUse(o.kb)
      PROVE  \/ Owns(r, q, key) /\ q \in ToSet(r.queue)
             \/ key = "shift" /\ r.kb.shift = "RELEASING"
             \/ key = "symbol" /\ r.kb.symbol = "RELEASING"
  <2>1. CASE q = p
    <3>1. ~(o.tr[q].key = "space" /\ ~o.tr[q].drag)
      BY <1>2, <1>4 DEF Owns, Settled
    <3>2. Acts(o, p)
      BY <1>4, <2>1, <3>1 DEF Acts, Unmoved, Owned, Owns
    <3> QED BY <1>1, <1>4, <2>1, <3>2 DEF UpModifiers, Owns, Gone
  <2>2. CASE q # p
    BY <1>2, <1>3, <1>4, <2>2 DEF Owns
  <2> QED BY <2>1, <2>2
<1>5. r.gest => ~InUse(r.kb)
  BY <1>3 DEF Owned, InUse
<1>6. ASSUME r.kb.shift # "RELEASING" PROVE \E q \in ToSet(r.queue) : Owns(r, q, "shift")
  <2>1. o.kb.shift # "RELEASING" /\ InUse(o.kb)
    BY <1>3, <1>6 DEF InUse
  <2>2. PICK q \in ToSet(o.queue) : Owns(o, q, "shift")
    BY <2>1 DEF Owned
  <2> QED BY <1>4, <1>6, <2>1, <2>2
<1>7. ASSUME r.kb.symbol # "RELEASING" PROVE \E q \in ToSet(r.queue) : Owns(r, q, "symbol")
  <2>1. o.kb.symbol # "RELEASING" /\ InUse(o.kb)
    BY <1>3, <1>7 DEF InUse
  <2>2. PICK q \in ToSet(o.queue) : Owns(o, q, "symbol")
    BY <2>1 DEF Owned
  <2> QED BY <1>4, <1>7, <2>1, <2>2
<1> QED BY <1>5, <1>6, <1>7 DEF Owned

LEMMA UpAway ==
    ASSUME NEW o, Typed(o), Settled(o), Away(o), NEW p \in Pointer, o.tr[p].down,
           NEW u, Upped(o, p, u), NEW r, Gone(u, p, r)
    PROVE  /\ Away(r)
           /\ r.hist.home \in {o.hist.home, "none"}
           /\ o.kb.symbol = "RELEASING" =>
                 r.hist.home = "none" \/ (r.hist.home = o.hist.home /\ r.kb.kind = o.kb.kind)
           /\ (o.kb.symbol = "CHORDING" /\ r.kb.symbol = "RELEASING" /\ r.hist.home # "none") =>
                 r.kb.kind = o.hist.home
<1>1. UpFrame(o, p, u) /\ UpModifiers(o, p, u) /\ UpHome(o, p, u) /\ StateOK(o)
  BY DEF Upped, Typed
<1>2. ToSet(o.queue) \subseteq Pointer
  BY <1>1, QueueTypes
<1>3. /\ r.kb = u.kb /\ r.hist = u.hist /\ ToSet(r.queue) = ToSet(o.queue) \ {p}
      /\ \A q \in Pointer : q # p => r.tr[q] = o.tr[q]
      /\ r.kb.symbol \in {o.kb.symbol, "RELEASING"}
      /\ r.hist.home \in {o.hist.home, "none"}
  BY <1>1 DEF UpFrame, UpModifiers, UpHome, Gone
<1>4. o.kb.symbol = "RELEASING" =>
         r.hist.home = "none" \/ (r.hist.home = o.hist.home /\ r.kb.kind = o.kb.kind)
  BY <1>1, <1>3 DEF UpHome
<1>5. ASSUME o.kb.symbol # "RELEASING", r.hist.home # "none"
      PROVE  /\ r.hist.home = o.hist.home /\ o.hist.home # "none"
             /\ \/ r.kb.symbol = o.kb.symbol /\ Chords(r.kb, o.hist.home)
                \/ /\ r.kb.symbol = "RELEASING"
                   /\ o.kb.symbol = "CHORDING" => r.kb.kind = o.hist.home
  <2>1. o.hist.home # "none" /\ r.hist.home = o.hist.home
    BY <1>3, <1>5
  <2>2. Chords(o.kb, o.hist.home)
    BY <1>5, <2>1 DEF Away
  <2>3. KeepsChord(o, p, o.hist.home)
    BY <1>5, <2>1 DEF Away, KeepsChord, Acts, Settled
  <2> QED BY <1>1, <1>3, <2>1, <2>2, <2>3 DEF UpHome
<1>6. Away(r)
  <2> SUFFICES ASSUME r.hist.home # "none", r.kb.symbol # "RELEASING"
               PROVE  /\ Chords(r.kb, r.hist.home)
                      /\ \A q \in ToSet(r.queue) : ~r.tr[q].disabled =>
                            /\ r.tr[q].key # "shift" /\ ~r.tr[q].sliding
                            /\ r.hist.home # "alphabet" => r.tr[q].key # "number"
    BY DEF Away
  <2>1. o.kb.symbol # "RELEASING"
    BY <1>3
  <2>2. r.hist.home = o.hist.home /\ o.hist.home # "none" /\ Chords(r.kb, r.hist.home)
    BY <1>5, <2>1
  <2>3. \A q \in ToSet(o.queue) : ~o.tr[q].disabled =>
           /\ o.tr[q].key # "shift" /\ ~o.tr[q].sliding
           /\ o.hist.home # "alphabet" => o.tr[q].key # "number"
    BY <2>1, <2>2 DEF Away
  <2>4. \A q \in ToSet(r.queue) : q \in ToSet(o.queue) /\ r.tr[q] = o.tr[q]
    BY <1>2, <1>3
  <2> QED BY <2>2, <2>3, <2>4
<1>7. ASSUME o.kb.symbol = "CHORDING", r.kb.symbol = "RELEASING", r.hist.home # "none"
      PROVE  r.kb.kind = o.hist.home
  BY <1>5, <1>7
<1> QED BY <1>3, <1>4, <1>6, <1>7

\* What a handler that starts in s may do: r is its result, stops tells that it may
\* have stopped a tracker while a modifier key was in use.
Handled(s, r, stops) ==
    /\ Typed(r) /\ Settled(r) /\ OneHolds(r) /\ r.hist.lost = s.hist.lost
    /\ ~s.hist.lost /\ ~stops => Owned(r) /\ Away(r)
    /\ Momentary(s, r) /\ Ordered(s, r.hist.sent)

LEMMA UpHandled ==
    ASSUME NEW s, Inv(s), s.hist.sent = <<>>, NEW p \in Pointer, s.tr[p].down, NEW c,
           NEW stops, ~stops => Unmoved(s)
    PROVE  Handled(s, [OnUpEvent(s, p, c) EXCEPT !.tr[p].down = FALSE], stops)
<1> DEFINE o == IF s.gest THEN s
                ELSE IF s.tr[p].key \in Modifier THEN ReleaseAllExcept(s, p, c)
                ELSE ReleaseOlderThan(s, p, c)
           ps == IF s.gest THEN {}
                 ELSE IF s.tr[p].key \in Modifier THEN Pointer \ {p}
                 ELSE OlderThan(s, p)
           u == UpInternal(o, p, c)
           r == [Without(u, p) EXCEPT !.tr[p].down = FALSE]
<1>1. OnUpEvent(s, p, c) = Without(u, p)
  BY DEF OnUpEvent
<1>2. Typed(s) /\ Settled(s) /\ OneHolds(s) /\ StateOK(s) /\ IsInjective(s.queue)
      /\ ToSet(s.queue) \subseteq Pointer
  BY QueueTypes DEF Inv, Typed
<1>3. Swept(s, ps, o) /\ p \notin ps
  <2>1. /\ Swept(s, {}, s) /\ Swept(s, Pointer \ {p}, ReleaseAllExcept(s, p, c))
        /\ Swept(s, OlderThan(s, p), ReleaseOlderThan(s, p, c))
    BY <1>2, NobodySwept, ReleaseOthersKeeps, ReleaseOlderKeeps
  <2>2. p \notin OlderThan(s, p)
    <3>1. s.queue \in Seq(Pointer)
      BY <1>2, QueueTypes
    <3> QED BY <3>1 DEF OlderThan, Older
  <2> QED BY <2>1, <2>2
<1>4. ~s.gest => Covers(s, ps)
  BY <1>2, CoversOthers, CoversOlder
<1>5. s.gest => o = s
  OBVIOUS
<1>6. ~s.gest /\ ToSend(s.tr[p]) => ps = OlderThan(s, p)
  BY DEF ToSend, IsLetter, Modifier
<1> HIDE DEF o, ps
<1>7. Typed(o) /\ Settled(o) /\ OneHolds(o) /\ StateOK(o) /\ o.tr[p] = s.tr[p]
      /\ o.hist.lost = s.hist.lost
  <2>1. Typed(o) /\ Settled(o) /\ OneHolds(o)
    BY <1>2, <1>3, SweptKeeps
  <2> QED BY <1>3, <2>1 DEF Swept
<1>8. Upped(o, p, u)
  BY <1>7, UpKeeps
<1>9. StateOK(u) /\ IsInjective(u.queue) /\ u.hist.lost = o.hist.lost
  BY <1>7, <1>8 DEF Upped, UpFrame, Typed
<1> HIDE DEF u
<1>10. Gone(u, p, r)
  BY <1>9, GoneKeeps
<1> HIDE DEF r
<1>11. Typed(r) /\ Settled(r) /\ OneHolds(r)
  BY <1>7, <1>8, <1>10, UpTyped
<1>12. r.hist = u.hist /\ r.hist.lost = s.hist.lost
  BY <1>7, <1>9, <1>10 DEF Gone
<1>13. ASSUME ~s.hist.lost, ~stops PROVE Owned(r)
  <2>1. Owned(o) /\ Unmoved(o)
    BY <1>2, <1>3, <1>13, SweptOwned DEF Inv
  <2> QED BY <1>7, <1>8, <1>10, <2>1, UpOwned
<1>14. ASSUME ~s.hist.lost PROVE Away(r) /\ Momentary(s, r)
  <2>1. Away(s)
    BY <1>14 DEF Inv
  <2>2. /\ Away(o) /\ o.hist.home \in {s.hist.home, "none"}
        /\ s.kb.symbol # "RELEASING" => SweptHome(s, o)
    BY <1>2, <1>3, <2>1, SweptAway
  <2>3. /\ Away(r) /\ r.hist.home \in {o.hist.home, "none"}
        /\ o.kb.symbol = "RELEASING" =>
              r.hist.home = "none" \/ (r.hist.home = o.hist.home /\ r.kb.kind = o.kb.kind)
        /\ (o.kb.symbol = "CHORDING" /\ r.kb.symbol = "RELEASING" /\ r.hist.home # "none") =>
              r.kb.kind = o.hist.home
    BY <1>7, <1>8, <1>10, <2>2, UpAway
  <2>4. Momentary(s, r)
    <3> SUFFICES ASSUME s.kb.symbol = "CHORDING", r.kb.symbol = "RELEASING",
                        r.hist.home # "none"
                 PROVE  r.kb.kind = s.hist.home
      BY DEF Momentary
    <3>1. o.hist.home = s.hist.home /\ o.hist.home # "none" /\ r.hist.home = o.hist.home
      BY <2>2, <2>3
    <3>2. CASE o.kb.symbol = "CHORDING"
      BY <2>3, <3>1, <3>2
    <3>3. CASE o.kb.symbol # "CHORDING"
      BY <2>2, <2>3, <3>1, <3>3 DEF SweptHome
    <3> QED BY <3>2, <3>3
  <2> QED BY <2>3, <2>4
<1>15. Ordered(s, r.hist.sent)
  <2>1. u.hist.sent = IF ~o.gest /\ ToSend(s.tr[p]) THEN Append(o.hist.sent, p)
                      ELSE o.hist.sent
    BY <1>7, <1>8 DEF Upped, UpSends
  <2>2. CASE s.gest
    <3>1. r.hist.sent = <<>>
      BY <1>5, <1>12, <2>1, <2>2
    <3> QED BY <3>1 DEF Ordered
  <2>3. CASE ~s.gest
    <3>1. Sends(s, ps, Len(s.queue), o.hist.sent)
      BY <1>3 DEF Swept, LoopSends
    <3>2. Ordered(s, o.hist.sent)
      BY <1>2, <1>4, <2>3, <3>1, SendsOrdered
    <3>3. o.hist.sent \in Seq(Pointer)
      BY <1>7, HistFields
    <3>4. CASE u.hist.sent = o.hist.sent
      BY <1>12, <3>2, <3>4
    <3>5. CASE ToSend(s.tr[p]) /\ u.hist.sent = Append(o.hist.sent, p)
      <4> DEFINE w == Append(o.hist.sent, p)
                 k == Len(o.hist.sent)
      <4>1. /\ k \in Nat /\ DOMAIN o.hist.sent = 1 .. k /\ DOMAIN w = 1 .. k + 1
            /\ w[k + 1] = p /\ \A i \in 1 .. k : w[i] = o.hist.sent[i]
        BY <3>3
      <4>2. r.hist.sent = w
        BY <1>12, <3>5
      <4> HIDE DEF w, k
      <4> SUFFICES ASSUME NEW i \in DOMAIN w, NEW q \in Older(s.queue, w[i]),
                          ToSend(s.tr[q])
                   PROVE  \E j \in 1 .. (i - 1) : w[j] = q
        BY <4>2 DEF Ordered
      <4>3. CASE i = k + 1
        <5>1. q \in OlderThan(s, p)
          BY <4>1, <4>3 DEF OlderThan, ToSend, IsLetter, Modifier
        <5>2. PICK l \in 1 .. Len(s.queue) : s.queue[l] = q
          <6>1. s.queue \in Seq(Pointer)
            BY <1>2, QueueTypes
          <6> QED BY <6>1 DEF Older
        <5>3. Sending(s, ps, l)
          BY <1>6, <2>3, <3>5, <5>1, <5>2 DEF Sending
        <5>4. PICK j \in DOMAIN o.hist.sent : o.hist.sent[j] = q
          BY <3>1, <5>2, <5>3 DEF Sends
        <5> QED BY <4>1, <4>3, <5>4
      <4>4. CASE i \in 1 .. k
        <5>1. w[i] = o.hist.sent[i]
          BY <4>1, <4>4
        <5>2. PICK j \in 1 .. (i - 1) : o.hist.sent[j] = q
          BY <3>2, <4>1, <4>4, <5>1 DEF Ordered
        <5> QED BY <4>1, <4>4, <5>2
      <4> QED BY <4>1, <4>3, <4>4
    <3> QED BY <2>1, <3>4, <3>5
  <2> QED BY <2>2, <2>3
<1>16. Momentary(s, r)
  BY <1>14 DEF Momentary
<1> QED
  <2>1. Handled(s, r, stops)
    BY <1>11, <1>12, <1>13, <1>14, <1>15, <1>16 DEF Handled
  <2> QED BY <1>1, <2>1 DEF r

-----------------------------------------------------------------------------
(* A finger goes down.                                                     *)

\* A call to the keyboard that changes the graphics and the timer only.
LEMMA StartTimerKeeps ==
    ASSUME NEW s, StateOK(s), NEW p \in Pointer, NEW key
    PROVE  LET r == StartTimer(s, p, key)
           IN KbOnly(s, r) /\ SameButGraphics(s.kb, r.kb) /\ r.kb.timer \subseteq {p}
<1> DEFINE d == s.kb.drawn \/ key = "shift"
           t == IF key = "shift" /\ IsAlphabet(s.kb) /\ ~s.gest THEN {p} ELSE {}
           j == [s.kb EXCEPT !.drawn = d, !.timer = t]
<1>1. d \in BOOLEAN /\ t \in SUBSET Pointer /\ t \subseteq {p}
  BY DEF StateOK, States, KeyboardTypes
<1>2. s.kb \in KeyboardTypes
  BY DEF StateOK, KeyboardOK
<1>3. StartTimer(s, p, key) = Kb(s, j)
  BY <1>2 DEF StartTimer, StateOK, States, KeyboardTypes, Kb
<1> HIDE DEF d, t
<1>4. SameButGraphics(s.kb, j) /\ j.timer = t
  BY <1>1, <1>2 DEF KeyboardTypes, SameButGraphics
<1> HIDE DEF j
<1>5. KeyboardOK(j)
  BY <1>4, GraphicsKeep DEF StateOK
<1> QED BY <1>1, <1>3, <1>4, <1>5, KbKeeps

\* The part of Pressed that the modifier keys and the layout are about.
Taps(k, code, j) ==
    /\ code = "shift" => /\ j.shift = "PRESSING" /\ j.symbol = k.symbol
                         /\ SameLayout(k, j)
    /\ code = "symbol" => /\ j.symbol = "PRESSING" /\ j.shift = k.shift
                          /\ k.kind # "basic" => Returns(j, k.kind)
    /\ code \notin {"shift", "symbol"} =>
          /\ j.shift = Chorded(k.shift) /\ j.symbol = Chorded(k.symbol)
          /\ SameLayout(k, j)

LEMMA TapsKept ==
    ASSUME NEW k, NEW code \in Codes \ {"capslock"}, NEW i, Pressed(k, code, i), NEW j,
           SameButGraphics(i, j)
    PROVE  Taps(k, code, j)
BY DEF Pressed, Taps, SameButGraphics, SameLayout, Returns

\* What the tracker's own calls did: nothing, or a press of the key.
Reported(s, key, r) ==
    \/ /\ r.kb.shift = s.kb.shift /\ r.kb.symbol = s.kb.symbol /\ SameLayout(s.kb, r.kb)
       /\ r.hist.home = s.hist.home
    \/ /\ ~s.gest /\ Taps(s.kb, key, r.kb)
       /\ r.hist.home = IF key = "symbol" THEN s.kb.kind ELSE s.hist.home

\* A press and the timer it starts.
PressTimed(s, p, key, r) ==
    /\ Outside(s, r) /\ r.hist.sent = s.hist.sent /\ r.kb.timer \subseteq {p}
    /\ Reported(s, key, r)
    /\ (s.tr[p].drag /\ key \in Modifier) \/ s.tr[p].disabled =>
          r.kb.shift = s.kb.shift /\ r.kb.symbol = s.kb.symbol /\ SameLayout(s.kb, r.kb)

LEMMA PressTimedKeeps ==
    ASSUME NEW s, StateOK(s), NEW p \in Pointer, NEW key \in TouchKeys, NEW c
    PROVE  PressTimed(s, p, key, StartTimer(Press(s, p, key, c), p, key))
<1> DEFINE u == Press(s, p, key, c)
           r == StartTimer(u, p, key)
<1>1. key \in Codes \ {"capslock"} /\ key \in Codes
  BY TouchAssumption
<1>2. IF Ignored(s, p, key) THEN u = s
      ELSE /\ Outside(s, u) /\ Pressed(s.kb, key, u.kb)
           /\ u.hist.sent = s.hist.sent
           /\ u.hist.home = IF key = "symbol" THEN s.kb.kind ELSE s.hist.home
  BY <1>1, PressCall
<1> HIDE DEF u
<1>3. Outside(s, u) /\ u.hist.sent = s.hist.sent
  BY <1>2 DEF Outside
<1>4. KbOnly(u, r) /\ SameButGraphics(u.kb, r.kb) /\ r.kb.timer \subseteq {p}
  BY <1>3, StartTimerKeeps DEF Outside
<1> HIDE DEF r
<1>5. Outside(s, r) /\ r.hist = u.hist
  BY <1>3, <1>4 DEF Outside, KbOnly
<1>6. CASE Ignored(s, p, key)
  <2>1. /\ r.kb.shift = s.kb.shift /\ r.kb.symbol = s.kb.symbol /\ SameLayout(s.kb, r.kb)
        /\ r.hist.home = s.hist.home
    BY <1>2, <1>4, <1>5, <1>6 DEF SameButGraphics, SameLayout
  <2>2. PressTimed(s, p, key, r)
    BY <1>3, <1>4, <1>5, <2>1 DEF PressTimed, Reported
  <2> QED BY <2>2 DEF r, u
<1>7. CASE ~Ignored(s, p, key)
  <2>1. Taps(s.kb, key, r.kb)
    BY <1>1, <1>2, <1>4, <1>7, TapsKept
  <2>2. ~s.gest /\ ~(s.tr[p].drag /\ key \in Modifier) /\ ~s.tr[p].disabled
    BY <1>7 DEF Ignored, Mute
  <2>3. PressTimed(s, p, key, r)
    BY <1>2, <1>3, <1>4, <1>5, <1>7, <2>1, <2>2 DEF PressTimed, Reported
  <2> QED BY <2>3 DEF r, u
<1> QED BY <1>6, <1>7

Begun(s, p, key, r) ==
    /\ StateOK(r) /\ r.gest = s.gest /\ r.hist.lost = s.hist.lost /\ r.hist.sent = s.hist.sent
    /\ r.queue = Append(s.queue, p) /\ r.kb.timer \subseteq {p}
    /\ \A q \in Pointer : q # p => r.tr[q] = s.tr[q]
    /\ r.tr[p].down /\ r.tr[p].key = key /\ ~r.tr[p].drag /\ ~r.tr[p].sliding
    /\ ~r.tr[p].disabled
    /\ Reported(s, key, r)

LEMMA DownKeeps ==
    ASSUME NEW s, StateOK(s), NEW p \in Pointer, NEW key \in TouchKeys, NEW c
    PROVE  Begun(s, p, key, OnDownEvent(s, p, key, c))
<1> DEFINE w == Append(s.queue, p)
           a == [s EXCEPT !.queue = w]
           t == [s.tr[p] EXCEPT !.down = TRUE, !.key = key, !.drag = FALSE,
                                !.sliding = FALSE, !.disabled = FALSE]
           b == Upd(a, p, t)
           d == StartTimer(Press(b, p, key, c), p, key)
           x == IF Gestures THEN IsAlphabet(d.kb) /\ key \notin Modifier ELSE d.tr[p].detecting
           v == [d.tr[p] EXCEPT !.detecting = x]
           r == OnDownEvent(s, p, key, c)
<1>1. w \in Seq(Pointer)
  BY QueueTypes
<1>2. t \in Tracker /\ t.down /\ t.key = key /\ ~t.drag /\ ~t.sliding /\ ~t.disabled
  BY TrackerFields DEF Tracker
<1>3. r = [d EXCEPT !.tr[p].detecting = x]
  BY DEF OnDownEvent
<1> SUFFICES Begun(s, p, key, r)
  OBVIOUS
<1> HIDE DEF w, t, r
<1>4. /\ StateOK(a) /\ a.kb = s.kb /\ a.tr = s.tr /\ a.gest = s.gest /\ a.hist = s.hist
      /\ a.queue = w
  BY <1>1 DEF StateOK, States
<1> HIDE DEF a
<1>5. /\ StateOK(b) /\ b.kb = a.kb /\ b.queue = a.queue /\ b.gest = a.gest
      /\ b.hist = a.hist /\ b.tr[p] = t
      /\ \A q \in Pointer : q # p => b.tr[q] = a.tr[q]
  BY <1>2, <1>4, UpdKeeps
<1> HIDE DEF b
<1>6. PressTimed(b, p, key, d)
  BY <1>5, PressTimedKeeps
<1> HIDE DEF d
<1>7. /\ StateOK(d) /\ d.tr = b.tr /\ d.queue = b.queue /\ d.gest = b.gest
      /\ d.hist.lost = b.hist.lost /\ d.hist.sent = b.hist.sent /\ d.kb.timer \subseteq {p}
      /\ Reported(b, key, d)
  BY <1>6 DEF PressTimed, Outside
<1>8. x \in BOOLEAN /\ d.tr[p] \in Tracker
  BY <1>7, TrackerFields, TouchAssumption
<1> HIDE DEF x
<1> DEFINE y == d.tr[p]
<1>9. /\ v \in Tracker /\ v.down = y.down /\ v.key = y.key /\ v.drag = y.drag
      /\ v.sliding = y.sliding /\ v.disabled = y.disabled
  <2> HIDE DEF y
  <2>1. LET m == [y EXCEPT !.detecting = x]
        IN /\ m \in Tracker /\ m.down = y.down /\ m.key = y.key /\ m.drag = y.drag
           /\ m.sliding = y.sliding /\ m.disabled = y.disabled
    BY <1>8 DEF Tracker, y
  <2> QED BY <2>1 DEF y
<1>10. r = Upd(d, p, v)
  BY <1>3, <1>7 DEF Upd, StateOK, States
<1> HIDE DEF v
<1>11. LET m == Upd(d, p, v)
       IN /\ StateOK(m) /\ m.kb = d.kb /\ m.queue = d.queue /\ m.gest = d.gest
          /\ m.hist = d.hist /\ m.tr[p] = v
          /\ \A q \in Pointer : q # p => m.tr[q] = d.tr[q]
  BY <1>7, <1>9, UpdKeeps
<1>12. Reported(s, key, r)
  BY <1>4, <1>5, <1>7, <1>10, <1>11 DEF Reported
<1>13. /\ StateOK(r) /\ r.gest = s.gest /\ r.hist.lost = s.hist.lost
       /\ r.hist.sent = s.hist.sent /\ r.queue = Append(s.queue, p) /\ r.kb.timer \subseteq {p}
  BY <1>4, <1>5, <1>7, <1>10, <1>11 DEF w
<1>14. \A q \in Pointer : q # p => r.tr[q] = s.tr[q]
  BY <1>4, <1>5, <1>7, <1>10, <1>11
<1>15. /\ r.tr[p].down /\ r.tr[p].key = key /\ ~r.tr[p].drag /\ ~r.tr[p].sliding
       /\ ~r.tr[p].disabled
  BY <1>2, <1>5, <1>7, <1>9, <1>10, <1>11
<1> QED BY <1>12, <1>13, <1>14, <1>15 DEF Begun

LEMMA Layouts ==
    ASSUME NEW kind, NEW key, NEW at \in KeysAt(kind, key)
    PROVE  /\ at \in KeysOf(kind) /\ at \in TouchKeys
           /\ at \in Modifier => at = key
           /\ at = "symbol" => kind # "basic"
           /\ kind = "alphabet" => at # "number"
<1>1. at \in KeysOf(kind) /\ (at \in Modifier => at = key)
  BY DEF KeysAt
<1> QED BY <1>1 DEF KeysOf

LEMMA ChordedResting == ASSUME NEW m PROVE Chorded(m) = "RELEASING" <=> m = "RELEASING"
BY DEF Chorded

\* With a new finger p at the end of the queue, alone if it is on a modifier key.
LEMMA BegunTyped ==
    ASSUME NEW s, Typed(s), Settled(s), OneHolds(s), NEW p \in Pointer, p \notin ToSet(s.queue),
           NEW at \in TouchKeys, at \in Modifier => ToSet(s.queue) = {},
           NEW r, Begun(s, p, at, r)
    PROVE  Typed(r) /\ Settled(r) /\ OneHolds(r)
<1>1. s.queue \in Seq(Pointer) /\ ToSet(s.queue) \subseteq Pointer /\ IsInjective(s.queue)
  BY QueueTypes DEF Typed
<1>2. ToSet(r.queue) = ToSet(s.queue) \cup {p}
  BY <1>1 DEF ToSet, Begun
<1>3. IsInjective(r.queue)
  <2>1. \A m \in DOMAIN s.queue : s.queue[m] # p
    BY DEF ToSet
  <2> QED BY <1>1, <2>1 DEF IsInjective, Begun
<1>4. \A q \in ToSet(s.queue) : q # p /\ r.tr[q] = s.tr[q]
  BY <1>1 DEF Begun
<1>5. r.tr[p].down /\ r.tr[p].key = at /\ ~r.tr[p].sliding /\ ~r.tr[p].disabled
  BY DEF Begun
<1>6. Typed(r)
  BY <1>2, <1>3, <1>4, <1>5 DEF Typed, Begun
<1>7. Settled(r)
  BY <1>2, <1>5 DEF Settled, Begun
<1>8. OneHolds(r)
  <2>1. at # "none"
    BY TouchAssumption DEF Codes
  <2>2. Candidate(r, p) => at \in Modifier
    BY <1>5, <2>1 DEF Candidate, Holds
  <2>3. \A q \in ToSet(s.queue) : /\ Holds(r, q) => Holds(s, q)
                                  /\ Candidate(r, q) => Candidate(s, q)
    BY <1>4 DEF Holds, Candidate
  <2>4. r.gest = s.gest
    BY DEF Begun
  <2> QED BY <1>2, <2>2, <2>3, <2>4 DEF OneHolds, Candidate
<1> QED BY <1>6, <1>7, <1>8

LEMMA BegunOwned ==
    ASSUME NEW s, Typed(s), Owned(s), NEW p \in Pointer, p \notin ToSet(s.queue),
           NEW at \in TouchKeys, at \in Modifier => ToSet(s.queue) = {},
           NEW r, Begun(s, p, at, r)
    PROVE  Owned(r)
<1>1. ToSet(s.queue) \subseteq Pointer /\ s.queue \in Seq(Pointer)
  BY QueueTypes DEF Typed
<1>2. ToSet(r.queue) = ToSet(s.queue) \cup {p}
  BY <1>1 DEF ToSet, Begun
<1>3. /\ Reported(s, at, r) /\ r.gest = s.gest
      /\ \A q \in ToSet(s.queue) : r.tr[q] = s.tr[q]
      /\ r.tr[p].key = at /\ ~r.tr[p].drag /\ ~r.tr[p].disabled
  BY <1>1 DEF Begun
<1>4. ASSUME NEW key \in {"shift", "symbol"}, NEW q \in ToSet(s.queue), Owns(s, q, key)
      PROVE  q \in ToSet(r.queue) /\ Owns(r, q, key)
  BY <1>2, <1>3, <1>4 DEF Owns
<1>5. ASSUME NEW key \in {"shift", "symbol"}, at = key
      PROVE  p \in ToSet(r.queue) /\ Owns(r, p, key)
  BY <1>2, <1>3, <1>5 DEF Owns
<1>6. at \in Modifier => s.kb.shift = "RELEASING" /\ s.kb.symbol = "RELEASING"
  BY DEF Owned
<1>7. r.gest => ~InUse(r.kb)
  BY <1>3 DEF Reported, Owned, InUse
<1>8. ASSUME r.kb.shift # "RELEASING" PROVE \E q \in ToSet(r.queue) : Owns(r, q, "shift")
  <2>1. CASE s.kb.shift # "RELEASING"
    BY <1>4, <2>1 DEF Owned
  <2>2. CASE s.kb.shift = "RELEASING"
    <3>1. at = "shift"
      BY <1>3, <1>8, <2>2, ChordedResting DEF Reported, Taps
    <3> QED BY <1>5, <3>1
  <2> QED BY <2>1, <2>2
<1>9. ASSUME r.kb.symbol # "RELEASING" PROVE \E q \in ToSet(r.queue) : Owns(r, q, "symbol")
  <2>1. CASE s.kb.symbol # "RELEASING"
    BY <1>4, <2>1 DEF Owned
  <2>2. CASE s.kb.symbol = "RELEASING"
    <3>1. at = "symbol"
      BY <1>3, <1>9, <2>2, ChordedResting DEF Reported, Taps
    <3> QED BY <1>5, <3>1
  <2> QED BY <2>1, <2>2
<1> QED BY <1>7, <1>8, <1>9 DEF Owned

LEMMA BegunAway ==
    ASSUME NEW s, Typed(s), Owned(s), Away(s), NEW p \in Pointer, p \notin ToSet(s.queue),
           NEW key, NEW at \in KeysAt(s.kb.kind, key), at \in Modifier => ToSet(s.queue) = {},
           NEW r, Begun(s, p, at, r)
    PROVE  Away(r)
<1>1. ToSet(s.queue) \subseteq Pointer /\ s.queue \in Seq(Pointer)
  BY QueueTypes DEF Typed
<1>2. ToSet(r.queue) = ToSet(s.queue) \cup {p}
  BY <1>1 DEF ToSet, Begun
<1>3. /\ Reported(s, at, r)
      /\ \A q \in ToSet(s.queue) : r.tr[q] = s.tr[q]
      /\ r.tr[p].key = at /\ ~r.tr[p].sliding
  BY <1>1 DEF Begun
<1>4. at \in Modifier => s.kb.shift = "RELEASING" /\ s.kb.symbol = "RELEASING"
  BY DEF Owned
<1>5. /\ at = "symbol" => s.kb.kind # "basic"
      /\ s.kb.kind = "alphabet" => at # "number"
  BY Layouts
<1> SUFFICES ASSUME r.hist.home # "none", r.kb.symbol # "RELEASING"
             PROVE  /\ Chords(r.kb, r.hist.home)
                    /\ \A q \in ToSet(r.queue) : ~r.tr[q].disabled =>
                          /\ r.tr[q].key # "shift" /\ ~r.tr[q].sliding
                          /\ r.hist.home # "alphabet" => r.tr[q].key # "number"
  BY DEF Away
<1>6. CASE at = "symbol"
  <2>1. /\ r.hist.home = s.kb.kind /\ r.kb.shift = "RELEASING" /\ Returns(r.kb, s.kb.kind)
    BY <1>3, <1>4, <1>5, <1>6 DEF Reported, Taps, Modifier
  <2>2. ToSet(r.queue) = {p}
    BY <1>2, <1>6 DEF Modifier
  <2> QED BY <1>3, <1>6, <2>1, <2>2 DEF Chords
<1>7. CASE at = "shift"
  <2>1. r.kb.symbol = "RELEASING"
    BY <1>3, <1>4, <1>7 DEF Reported, Taps, Modifier
  <2> QED BY <2>1
<1>8. CASE at \notin {"symbol", "shift"}
  <2>1. /\ r.hist.home = s.hist.home /\ s.kb.symbol # "RELEASING"
        /\ r.kb.shift \in {s.kb.shift, Chorded(s.kb.shift)} /\ SameLayout(s.kb, r.kb)
    BY <1>3, <1>8, ChordedResting DEF Reported, Taps
  <2>2. /\ Chords(s.kb, s.hist.home)
        /\ \A q \in ToSet(s.queue) : ~s.tr[q].disabled =>
              /\ s.tr[q].key # "shift" /\ ~s.tr[q].sliding
              /\ s.hist.home # "alphabet" => s.tr[q].key # "number"
    BY <2>1 DEF Away
  <2>3. Chords(r.kb, r.hist.home)
    BY <2>1, <2>2, ChordedResting, ReturnsKept DEF Chords
  <2>4. s.hist.home # "alphabet" => at # "number"
    BY <1>5, <2>2 DEF Chords, Returns
  <2> QED BY <1>2, <1>3, <1>8, <2>1, <2>2, <2>3, <2>4
<1> QED BY <1>6, <1>7, <1>8

LEMMA DownHandled ==
    ASSUME NEW s, Inv(s), s.hist.sent = <<>>, NEW p \in Pointer, ~s.tr[p].down, NEW c, NEW key,
           NEW at \in KeysAt(Released(s, key, c).kb.kind, key),
           NEW stops, ~stops => Unmoved(s)
    PROVE  Handled(s, OnDownEvent(Released(s, key, c), p, at, c), stops)
<1> DEFINE o == Released(s, key, c)
           ps == IF ShouldReleaseAllPointers(s.kb, key) THEN Pointer ELSE {}
           r == OnDownEvent(o, p, at, c)
<1>1. Typed(s) /\ Settled(s) /\ OneHolds(s) /\ StateOK(s) /\ IsInjective(s.queue)
      /\ ToSet(s.queue) \subseteq Pointer
  BY QueueTypes DEF Inv, Typed
<1>2. Swept(s, ps, o) /\ (key \in Modifier => ToSet(o.queue) = {})
  <2>1. Swept(s, {}, s) /\ Swept(s, Pointer, ReleaseAll(s, c)) /\ ToSet(ReleaseAll(s, c).queue) = {}
    BY <1>1, NobodySwept, ReleaseAllKeeps
  <2> QED BY <2>1 DEF Released, ShouldReleaseAllPointers
<1>3. Covers(s, ps)
  <2>1. Covers(s, {})
    BY DEF Covers, Sending
  <2> QED BY <1>1, <2>1, CoversAll
<1>4. at \in KeysAt(o.kb.kind, key)
  OBVIOUS
<1> HIDE DEF o, ps
<1>5. Typed(o) /\ Settled(o) /\ OneHolds(o) /\ StateOK(o)
  BY <1>1, <1>2, SweptKeeps DEF Typed
<1>6. /\ at \in TouchKeys /\ (at \in Modifier => at = key)
      /\ p \notin ToSet(o.queue)
  BY <1>1, <1>2, <1>4, Layouts DEF Typed, Swept
<1>7. at \in Modifier => ToSet(o.queue) = {}
  BY <1>2, <1>6
<1>8. Begun(o, p, at, r)
  BY <1>5, <1>6, DownKeeps
<1> HIDE DEF r
<1>9. Typed(r) /\ Settled(r) /\ OneHolds(r)
  BY <1>5, <1>6, <1>7, <1>8, BegunTyped
<1>10. r.hist.lost = s.hist.lost /\ r.hist.sent = o.hist.sent /\ Reported(o, at, r)
  BY <1>2, <1>8 DEF Begun, Swept
<1>11. ASSUME ~s.hist.lost, ~stops PROVE Owned(r) /\ Away(r)
  <2>1. Owned(o) /\ Away(o)
    BY <1>1, <1>2, <1>11, SweptOwned, SweptAway DEF Inv
  <2> QED BY <1>4, <1>5, <1>6, <1>7, <1>8, <2>1, BegunOwned, BegunAway
<1>12. Momentary(s, r)
  <2> SUFFICES ASSUME s.kb.symbol = "CHORDING", r.kb.symbol = "RELEASING", ~s.hist.lost,
                      r.hist.home # "none"
               PROVE  r.kb.kind = s.hist.home
    BY DEF Momentary
  <2>1. SweptHome(s, o)
    BY <1>1, <1>2, SweptAway DEF Inv
  <2>2. o.kb.symbol = "RELEASING" /\ r.hist.home = o.hist.home /\ r.kb.kind = o.kb.kind
    BY <1>10, ChordedResting DEF Reported, Taps, SameLayout
  <2> QED BY <2>1, <2>2 DEF SweptHome
<1>13. Ordered(s, r.hist.sent)
  <2>1. Sends(s, ps, Len(s.queue), o.hist.sent)
    BY <1>2 DEF Swept, LoopSends
  <2> QED BY <1>1, <1>3, <1>10, <2>1, SendsOrdered
<1> QED
  <2>1. Handled(s, r, stops)
    BY <1>9, <1>10, <1>11, <1>12, <1>13 DEF Handled
  <2> QED BY <2>1 DEF r, o

-----------------------------------------------------------------------------
(* A finger moves to another key, or off all of them.                      *)

DraggedOut(s, p, r) ==
    /\ StateOK(r) /\ r.queue = s.queue /\ r.gest = s.gest /\ r.hist = s.hist
    /\ \A q \in Pointer : q # p => r.tr[q] = s.tr[q]
    /\ r.tr[p].down = s.tr[p].down /\ r.tr[p].disabled = s.tr[p].disabled /\ r.tr[p].drag
    /\ r.tr[p].sliding = IF s.tr[p].drag THEN s.tr[p].sliding ELSE s.tr[p].key \in Modifier
    /\ r.kb.shift = s.kb.shift /\ r.kb.symbol = s.kb.symbol /\ r.kb.timer \subseteq s.kb.timer
    /\ s.tr[p].key \notin Modifier /\ s.kb.symbol # "RELEASING" => SameLayout(s.kb, r.kb)

LEMMA DragOutKeeps ==
    ASSUME NEW s, StateOK(s), NEW p \in Pointer, s.tr[p].key # "none", NEW c
    PROVE  DraggedOut(s, p, DragOut(s, p, c))
<1> DEFINE key == s.tr[p].key
           u == Undraw(s, p, key)
           l == Release(u, p, key, TRUE, c)
           z == IF s.tr[p].drag THEN s.tr[p].sliding ELSE key \in Modifier
           t == [s.tr[p] EXCEPT !.drag = TRUE, !.sliding = z]
           r == Upd(l, p, t)
<1>1. KbOnly(s, u) /\ SameButGraphics(s.kb, u.kb) /\ u.kb.timer = s.kb.timer \ {p}
  BY UndrawKeeps
<1>2. key \in Codes /\ TRUE \in BOOLEAN /\ s.tr[p] \in Tracker /\ z \in BOOLEAN
  <2>1. key \in Codes /\ s.tr[p] \in Tracker /\ s.tr[p].sliding \in BOOLEAN
    BY TrackerFields
  <2>2. (key \in Modifier) \in BOOLEAN
    OBVIOUS
  <2>3. CASE s.tr[p].drag
    BY <2>1, <2>3
  <2>4. CASE ~s.tr[p].drag
    <3>1. z = (key \in Modifier)
      BY <2>4
    <3> QED BY <2>1, <2>2, <3>1
  <2> QED BY <2>3, <2>4
<1>3. DragOut(s, p, c) = r
  BY <1>2 DEF DragOut, Tracker
<1>4. z = IF s.tr[p].drag THEN s.tr[p].sliding ELSE key \in Modifier
  OBVIOUS
<1> HIDE DEF u, z
<1>5. t \in Tracker /\ t.drag /\ t.sliding = z /\ t.down = s.tr[p].down
      /\ t.disabled = s.tr[p].disabled
  <2> DEFINE x == s.tr[p]
  <2>1. x \in Tracker
    BY <1>2
  <2> HIDE DEF x
  <2>2. LET v == [x EXCEPT !.drag = TRUE, !.sliding = z]
        IN /\ v \in Tracker /\ v.drag /\ v.sliding = z /\ v.down = x.down
           /\ v.disabled = x.disabled
    BY <1>2, <2>1 DEF Tracker
  <2> QED BY <2>2 DEF x
<1> HIDE DEF t
<1>6. IF Ignored(u, p, key) THEN l = u ELSE KbOnly(u, l) /\ Lifted(u.kb, key, TRUE, l.kb)
  BY <1>1, <1>2, ReleaseCall DEF KbOnly
<1> HIDE DEF l
<1>7. KbOnly(s, l)
  BY <1>1, <1>6 DEF KbOnly
<1>8. /\ l.kb.shift = s.kb.shift /\ l.kb.symbol = s.kb.symbol
      /\ l.kb.timer \subseteq s.kb.timer
      /\ key \notin Modifier /\ s.kb.symbol # "RELEASING" => SameLayout(s.kb, l.kb)
  <2>1. CASE Ignored(u, p, key)
    BY <1>1, <1>6, <2>1 DEF SameButGraphics, SameLayout
  <2>2. CASE ~Ignored(u, p, key)
    <3>1. Lifted(u.kb, key, TRUE, l.kb)
      BY <1>6, <2>2
    <3>2. l.kb.shift = u.kb.shift /\ l.kb.symbol = u.kb.symbol /\ Cleared(u.kb, l.kb)
      BY <3>1 DEF Lifted
    <3>3. key \notin Modifier /\ u.kb.symbol # "RELEASING" => SameLayout(u.kb, l.kb)
      BY <3>1 DEF Lifted, Modifier
    <3> QED BY <1>1, <3>2, <3>3 DEF SameButGraphics, SameLayout, Cleared
  <2> QED BY <2>1, <2>2
<1>9. /\ StateOK(r) /\ r.kb = l.kb /\ r.queue = l.queue /\ r.gest = l.gest
      /\ r.hist = l.hist /\ r.tr[p] = t
      /\ \A q \in Pointer : q # p => r.tr[q] = l.tr[q]
  BY <1>5, <1>7, UpdKeeps DEF KbOnly
<1> HIDE DEF r
<1>10. DraggedOut(s, p, r)
  BY <1>4, <1>5, <1>7, <1>8, <1>9 DEF DraggedOut, KbOnly
<1> QED BY <1>3, <1>10

\* The tracker's key, and nothing else.
Moved(s, p, key, r) ==
    /\ StateOK(r) /\ r.kb = s.kb /\ r.queue = s.queue /\ r.gest = s.gest /\ r.hist = s.hist
    /\ \A q \in Pointer : q # p => r.tr[q] = s.tr[q]
    /\ r.tr[p].down = s.tr[p].down /\ r.tr[p].disabled = s.tr[p].disabled
    /\ r.tr[p].drag = s.tr[p].drag /\ r.tr[p].sliding = s.tr[p].sliding
    /\ r.tr[p].moved = s.tr[p].moved /\ r.tr[p].key = key

LEMMA MovedKeeps ==
    ASSUME NEW s, StateOK(s), NEW p \in Pointer, NEW key \in TouchKeys \cup {"none"}
    PROVE  Moved(s, p, key, [s EXCEPT !.tr[p].key = key])
<1> DEFINE x == s.tr[p]
           v == [x EXCEPT !.key = key]
           r == [s EXCEPT !.tr[p].key = key]
<1>1. x \in Tracker
  BY TrackerFields
<1>2. r = Upd(s, p, v)
  BY DEF Upd, StateOK, States
<1>3. x = s.tr[p]
  OBVIOUS
<1> HIDE DEF x
<1>4. /\ v \in Tracker /\ v.down = x.down /\ v.disabled = x.disabled /\ v.drag = x.drag
      /\ v.sliding = x.sliding /\ v.moved = x.moved /\ v.key = key
  BY <1>1 DEF Tracker
<1> HIDE DEF v
<1>5. LET m == Upd(s, p, v)
      IN /\ StateOK(m) /\ m.kb = s.kb /\ m.queue = s.queue /\ m.gest = s.gest
         /\ m.hist = s.hist /\ m.tr[p] = v
         /\ \A q \in Pointer : q # p => m.tr[q] = s.tr[q]
  BY <1>4, UpdKeeps
<1> HIDE DEF r
<1>6. Moved(s, p, key, r)
  BY <1>2, <1>3, <1>4, <1>5 DEF Moved
<1> QED BY <1>6 DEF r

DraggedInto(s, p, key, r) ==
    /\ StateOK(r) /\ r.queue = s.queue /\ r.gest = s.gest
    /\ r.hist.lost = s.hist.lost /\ r.hist.sent = s.hist.sent
    /\ \A q \in Pointer : q # p => r.tr[q] = s.tr[q]
    /\ r.tr[p].down = s.tr[p].down /\ r.tr[p].disabled = s.tr[p].disabled
    /\ r.tr[p].drag = s.tr[p].drag /\ r.tr[p].sliding = s.tr[p].sliding /\ r.tr[p].key = key
    /\ r.kb.timer \subseteq s.kb.timer \/ (~s.tr[p].disabled /\ r.kb.timer \subseteq {p})
    /\ Reported(s, key, r)
    /\ (s.tr[p].drag /\ key \in Modifier) \/ s.tr[p].disabled =>
          r.kb.shift = s.kb.shift /\ r.kb.symbol = s.kb.symbol

LEMMA DragIntoKeeps ==
    ASSUME NEW s, StateOK(s), NEW p \in Pointer, NEW key \in TouchKeys, NEW c
    PROVE  DraggedInto(s, p, key, DragInto(s, p, key, c))
<1> DEFINE u == Press(s, p, key, c)
           m == [u EXCEPT !.tr[p].key = key]
           f == StartTimer(m, p, key)
           r == DragInto(s, p, key, c)
<1>1. key \in Codes \ {"capslock"} /\ key \in Codes /\ key \in TouchKeys \cup {"none"}
  BY TouchAssumption
<1>2. IF Ignored(s, p, key) THEN u = s
      ELSE /\ Outside(s, u) /\ Pressed(s.kb, key, u.kb)
           /\ u.hist.sent = s.hist.sent
           /\ u.hist.home = IF key = "symbol" THEN s.kb.kind ELSE s.hist.home
  BY <1>1, PressCall
<1>3. r = IF m.tr[p].disabled THEN m ELSE f
  BY DEF DragInto
<1> SUFFICES DraggedInto(s, p, key, r)
  OBVIOUS
<1> HIDE DEF u, r
<1>4. Outside(s, u) /\ u.hist.sent = s.hist.sent
  BY <1>2 DEF Outside
<1>5. Moved(u, p, key, m)
  BY <1>1, <1>4, MovedKeeps DEF Outside
<1> HIDE DEF m
<1>6. StateOK(m) /\ m.tr[p].disabled = s.tr[p].disabled
  BY <1>4, <1>5 DEF Moved, Outside
<1>7. KbOnly(m, f) /\ SameButGraphics(m.kb, f.kb) /\ f.kb.timer \subseteq {p}
  BY <1>6, StartTimerKeeps
<1> HIDE DEF f
<1>8. /\ StateOK(r) /\ r.queue = s.queue /\ r.gest = s.gest /\ r.tr = m.tr /\ r.hist = u.hist
      /\ SameButGraphics(u.kb, r.kb)
  <2>1. SameButGraphics(m.kb, m.kb)
    BY <1>6 DEF SameButGraphics, StateOK, States
  <2> QED BY <1>3, <1>4, <1>5, <1>6, <1>7, <2>1 DEF Moved, Outside, KbOnly
<1>9. /\ r.hist.lost = s.hist.lost /\ r.hist.sent = s.hist.sent
      /\ \A q \in Pointer : q # p => r.tr[q] = s.tr[q]
      /\ r.tr[p].down = s.tr[p].down /\ r.tr[p].disabled = s.tr[p].disabled
      /\ r.tr[p].drag = s.tr[p].drag /\ r.tr[p].sliding = s.tr[p].sliding /\ r.tr[p].key = key
  BY <1>4, <1>5, <1>8 DEF Moved, Outside
<1>10. s.tr[p].disabled => r.kb = s.kb
  BY <1>2, <1>3, <1>5, <1>6 DEF Moved, Ignored, Mute
<1>11. r.kb.timer \subseteq s.kb.timer \/ (~s.tr[p].disabled /\ r.kb.timer \subseteq {p})
  BY <1>3, <1>6, <1>7, <1>10
<1>12. CASE Ignored(s, p, key)
  <2>1. /\ r.kb.shift = s.kb.shift /\ r.kb.symbol = s.kb.symbol /\ SameLayout(s.kb, r.kb)
        /\ r.hist.home = s.hist.home
    BY <1>2, <1>8, <1>12 DEF SameButGraphics, SameLayout
  <2> QED BY <1>8, <1>9, <1>11, <2>1 DEF DraggedInto, Reported
<1>13. CASE ~Ignored(s, p, key)
  <2>1. Taps(s.kb, key, r.kb)
    BY <1>1, <1>2, <1>8, <1>13, TapsKept
  <2>2. ~s.gest /\ ~(s.tr[p].drag /\ key \in Modifier) /\ ~s.tr[p].disabled
    BY <1>13 DEF Ignored, Mute
  <2>3. Reported(s, key, r)
    BY <1>2, <1>8, <1>13, <2>1, <2>2 DEF Reported
  <2> QED BY <1>8, <1>9, <1>11, <2>2, <2>3 DEF DraggedInto
<1> QED BY <1>12, <1>13

Dragged(s, p, key, r) ==
    /\ StateOK(r) /\ r.queue = s.queue /\ r.gest = s.gest
    /\ r.hist.lost = s.hist.lost /\ r.hist.sent = s.hist.sent
    /\ \A q \in Pointer : q # p => r.tr[q] = s.tr[q]
    /\ r.tr[p].down = s.tr[p].down /\ r.tr[p].disabled = s.tr[p].disabled /\ r.tr[p].key = key
    /\ s.tr[p].key = "none" =>
          r.tr[p].drag = s.tr[p].drag /\ r.tr[p].sliding = s.tr[p].sliding
    /\ s.tr[p].key # "none" =>
          /\ r.tr[p].drag
          /\ r.tr[p].sliding = IF s.tr[p].drag THEN s.tr[p].sliding ELSE s.tr[p].key \in Modifier
    /\ r.kb.timer \subseteq s.kb.timer \/ (~s.tr[p].disabled /\ r.kb.timer \subseteq {p})
    /\ r.kb.shift # "RELEASING" =>
          s.kb.shift # "RELEASING" \/ (key = "shift" /\ ~r.tr[p].drag)
    /\ r.kb.symbol # "RELEASING" =>
          s.kb.symbol # "RELEASING" \/ (key = "symbol" /\ ~r.tr[p].drag)
    /\ s.kb.symbol # "RELEASING" => r.kb.symbol # "RELEASING"
    /\ {s.tr[p].key, key} \cap Modifier # {} => r.hist.home = "none"
    /\ {s.tr[p].key, key} \cap Modifier = {} =>
          /\ r.hist.home = s.hist.home
          /\ s.kb.symbol # "RELEASING" => SameLayout(s.kb, r.kb)
          /\ r.kb.shift = "RELEASING" <=> s.kb.shift = "RELEASING"

LEMMA DragKeeps ==
    ASSUME NEW s, StateOK(s), NEW p \in Pointer, NEW key \in TouchKeys \cup {"none"}, NEW c
    PROVE  Dragged(s, p, key, Drag(s, p, key, c))
<1> DEFINE old == s.tr[p].key
           o == IF old = "none" THEN s ELSE DragOut(s, p, c)
           m == [o EXCEPT !.tr[p].key = "none"]
           i == DragInto(o, p, key, c)
           n == IF key = "none" THEN m ELSE i
           w == IF {old, key} \cap Modifier = {} THEN n.hist.home ELSE "none"
           h == [n.hist EXCEPT !.home = w]
           r == Drag(s, p, key, c)
<1>1. r = [n EXCEPT !.hist.home = IF {old, key} \cap Modifier = {} THEN @ ELSE "none"]
  BY DEF Drag
<1> SUFFICES Dragged(s, p, key, r)
  OBVIOUS
<1> HIDE DEF r
<1>2. /\ StateOK(o) /\ o.queue = s.queue /\ o.gest = s.gest /\ o.hist = s.hist
      /\ \A q \in Pointer : q # p => o.tr[q] = s.tr[q]
      /\ o.tr[p].down = s.tr[p].down /\ o.tr[p].disabled = s.tr[p].disabled
      /\ old = "none" => o.tr[p].drag = s.tr[p].drag /\ o.tr[p].sliding = s.tr[p].sliding
      /\ old # "none" =>
            /\ o.tr[p].drag
            /\ o.tr[p].sliding = IF s.tr[p].drag THEN s.tr[p].sliding ELSE old \in Modifier
      /\ o.kb.shift = s.kb.shift /\ o.kb.symbol = s.kb.symbol
      /\ o.kb.timer \subseteq s.kb.timer
      /\ old \notin Modifier /\ s.kb.symbol # "RELEASING" => SameLayout(s.kb, o.kb)
  <2>1. CASE old = "none"
    BY <2>1 DEF SameLayout
  <2>2. CASE old # "none"
    <3>1. DraggedOut(s, p, DragOut(s, p, c))
      BY <2>2, DragOutKeeps
    <3> QED BY <2>2, <3>1 DEF DraggedOut
  <2> QED BY <2>1, <2>2
<1> HIDE DEF o
<1>3. /\ StateOK(n) /\ n.queue = o.queue /\ n.gest = o.gest
      /\ n.hist.lost = o.hist.lost /\ n.hist.sent = o.hist.sent
      /\ \A q \in Pointer : q # p => n.tr[q] = o.tr[q]
      /\ n.tr[p].down = o.tr[p].down /\ n.tr[p].disabled = o.tr[p].disabled
      /\ n.tr[p].drag = o.tr[p].drag /\ n.tr[p].sliding = o.tr[p].sliding /\ n.tr[p].key = key
      /\ n.kb.timer \subseteq o.kb.timer \/ (~o.tr[p].disabled /\ n.kb.timer \subseteq {p})
      /\ n.kb.shift # "RELEASING" =>
            o.kb.shift # "RELEASING" \/ (key = "shift" /\ ~o.tr[p].drag)
      /\ n.kb.symbol # "RELEASING" =>
            o.kb.symbol # "RELEASING" \/ (key = "symbol" /\ ~o.tr[p].drag)
      /\ o.kb.symbol # "RELEASING" => n.kb.symbol # "RELEASING"
      /\ key \notin Modifier => n.hist.home = o.hist.home /\ SameLayout(o.kb, n.kb)
      /\ o.kb.shift # "RELEASING" => n.kb.shift # "RELEASING"
      /\ key \notin Modifier => (n.kb.shift = "RELEASING" <=> o.kb.shift = "RELEASING")
  <2>1. CASE key = "none"
    <3>1. Moved(o, p, "none", m) /\ n = m
      BY <1>2, <2>1, MovedKeeps
    <3> HIDE DEF n, m
    <3> QED BY <2>1, <3>1 DEF Moved, SameLayout, Modifier
  <2>2. CASE key # "none"
    <3>1. DraggedInto(o, p, key, i) /\ n = i
      BY <1>2, <2>2, DragIntoKeeps
    <3> HIDE DEF n, i
    <3>2. Reported(o, key, n)
      BY <3>1 DEF DraggedInto
    <3>3. /\ n.kb.shift # "RELEASING" => o.kb.shift # "RELEASING" \/ key = "shift"
          /\ n.kb.symbol # "RELEASING" => o.kb.symbol # "RELEASING" \/ key = "symbol"
          /\ o.kb.symbol # "RELEASING" => n.kb.symbol # "RELEASING"
          /\ key \notin Modifier => n.hist.home = o.hist.home /\ SameLayout(o.kb, n.kb)
          /\ o.kb.shift # "RELEASING" => n.kb.shift # "RELEASING"
          /\ key \notin Modifier => (n.kb.shift = "RELEASING" <=> o.kb.shift = "RELEASING")
      BY <3>2, ChordedResting DEF Reported, Taps, Modifier
    <3> QED BY <3>1, <3>3 DEF DraggedInto, Modifier
  <2> QED BY <2>1, <2>2
<1> HIDE DEF n
<1>4. w \in Kinds \cup {"none"}
  BY <1>3, HistFields
<1>5. r = [n EXCEPT !.hist = h]
  BY <1>1, <1>3 DEF StateOK, States, Histories
<1>6. w = IF {old, key} \cap Modifier = {} THEN n.hist.home ELSE "none"
  OBVIOUS
<1> HIDE DEF w
<1>7. h \in Histories /\ h.sent = n.hist.sent /\ h.home = w /\ h.lost = n.hist.lost
  <2>1. n.hist \in Histories
    BY <1>3 DEF StateOK, States
  <2> QED BY <1>4, <2>1, HomeSet
<1> HIDE DEF h
<1>8. /\ StateOK(r) /\ r.kb = n.kb /\ r.tr = n.tr /\ r.queue = n.queue /\ r.gest = n.gest
      /\ r.hist = h
  BY <1>3, <1>5, <1>7 DEF StateOK, States
<1>9. /\ r.queue = s.queue /\ r.gest = s.gest
      /\ r.hist.lost = s.hist.lost /\ r.hist.sent = s.hist.sent
      /\ \A q \in Pointer : q # p => r.tr[q] = s.tr[q]
      /\ r.tr[p].down = s.tr[p].down /\ r.tr[p].disabled = s.tr[p].disabled
      /\ r.tr[p].key = key /\ r.tr[p].drag = o.tr[p].drag /\ r.tr[p].sliding = o.tr[p].sliding
      /\ r.kb.timer \subseteq s.kb.timer \/ (~s.tr[p].disabled /\ r.kb.timer \subseteq {p})
  BY <1>2, <1>3, <1>7, <1>8
<1>10. /\ r.kb.shift # "RELEASING" =>
             s.kb.shift # "RELEASING" \/ (key = "shift" /\ ~r.tr[p].drag)
       /\ r.kb.symbol # "RELEASING" =>
             s.kb.symbol # "RELEASING" \/ (key = "symbol" /\ ~r.tr[p].drag)
       /\ s.kb.symbol # "RELEASING" => r.kb.symbol # "RELEASING"
       /\ s.kb.shift # "RELEASING" => r.kb.shift # "RELEASING"
  BY <1>2, <1>3, <1>8, <1>9
<1>11. {old, key} \cap Modifier # {} => r.hist.home = "none"
  BY <1>6, <1>7, <1>8
<1>12. ASSUME {old, key} \cap Modifier = {}
       PROVE  /\ r.hist.home = s.hist.home
              /\ s.kb.symbol # "RELEASING" => SameLayout(s.kb, r.kb)
              /\ r.kb.shift = "RELEASING" <=> s.kb.shift = "RELEASING"
  <2>1. old \notin Modifier /\ key \notin Modifier
    BY <1>12
  <2> QED BY <1>2, <1>3, <1>6, <1>7, <1>8, <1>12, <2>1 DEF SameLayout
<1> QED
  BY <1>2, <1>8, <1>9, <1>10, <1>11, <1>12 DEF Dragged

LEMMA NothingSent == ASSUME NEW s PROVE Ordered(s, <<>>)
BY DEF Ordered

LEMMA DragTyped ==
    ASSUME NEW s, Typed(s), Settled(s), OneHolds(s), ~s.gest, NEW p \in Pointer, s.tr[p].down,
           NEW key, ~s.tr[p].disabled \/ key = "none", NEW r, Dragged(s, p, key, r)
    PROVE  Typed(r) /\ Settled(r) /\ OneHolds(r)
<1>1. /\ StateOK(r) /\ r.queue = s.queue /\ r.gest = s.gest
      /\ \A q \in Pointer : q # p => r.tr[q] = s.tr[q]
      /\ r.tr[p].down = s.tr[p].down /\ r.tr[p].disabled = s.tr[p].disabled
      /\ r.tr[p].key = key
      /\ s.tr[p].key = "none" =>
            r.tr[p].drag = s.tr[p].drag /\ r.tr[p].sliding = s.tr[p].sliding
      /\ s.tr[p].key # "none" => r.tr[p].drag
      /\ r.kb.timer \subseteq s.kb.timer \/ (~s.tr[p].disabled /\ r.kb.timer \subseteq {p})
  BY DEF Dragged
<1>2. ToSet(s.queue) \subseteq Pointer
  BY QueueTypes DEF Typed
<1>3. ~s.tr[p].disabled => p \in ToSet(s.queue)
  BY DEF Settled
<1>4. Typed(r)
  <2>1. \A q \in ToSet(r.queue) : r.tr[q].down
    BY <1>1, <1>2 DEF Typed
  <2>2. r.kb.timer \subseteq ToSet(r.queue) /\ \A x, y \in r.kb.timer : x = y
    BY <1>1, <1>3 DEF Typed
  <2> QED BY <1>1, <2>1, <2>2 DEF Typed
<1>5. Settled(r)
  BY <1>1 DEF Settled
<1>6. \A q \in ToSet(r.queue) : Candidate(r, q) => Candidate(s, q)
  BY <1>1, <1>2 DEF Candidate, Holds, Modifier
<1>7. OneHolds(r)
  BY <1>1, <1>6 DEF OneHolds, Candidate
<1> QED BY <1>4, <1>5, <1>7

LEMMA DragOwned ==
    ASSUME NEW s, Typed(s), Settled(s), Owned(s), ~s.gest, NEW p \in ToSet(s.queue),
           ~s.tr[p].disabled, NEW key, NEW r, Dragged(s, p, key, r)
    PROVE  Owned(r)
<1>1. /\ r.queue = s.queue /\ r.gest = s.gest
      /\ \A q \in Pointer : q # p => r.tr[q] = s.tr[q]
      /\ ~r.tr[p].disabled /\ r.tr[p].key = key
      /\ s.tr[p].key = "none" =>
            r.tr[p].drag = s.tr[p].drag /\ r.tr[p].sliding = s.tr[p].sliding
      /\ s.tr[p].key # "none" =>
            r.tr[p].sliding = IF s.tr[p].drag THEN s.tr[p].sliding ELSE s.tr[p].key \in Modifier
      /\ r.kb.shift # "RELEASING" =>
            s.kb.shift # "RELEASING" \/ (key = "shift" /\ ~r.tr[p].drag)
      /\ r.kb.symbol # "RELEASING" =>
            s.kb.symbol # "RELEASING" \/ (key = "symbol" /\ ~r.tr[p].drag)
  BY DEF Dragged
<1>2. ToSet(s.queue) \subseteq Pointer
  BY QueueTypes DEF Typed
<1>3. s.tr[p].sliding => s.tr[p].drag
  BY <1>2 DEF Settled
<1>4. ASSUME NEW k \in Modifier, NEW q \in ToSet(s.queue), Owns(s, q, k)
      PROVE  Owns(r, q, k)
  BY <1>1, <1>2, <1>3, <1>4 DEF Owns, Modifier
<1>5. ASSUME NEW k \in Modifier, key = k, ~r.tr[p].drag
      PROVE  Owns(r, p, k)
  BY <1>1, <1>5 DEF Owns
<1> QED BY <1>1, <1>4, <1>5 DEF Owned, Modifier

LEMMA DragAway ==
    ASSUME NEW s, Typed(s), Away(s), NEW p \in Pointer,
           NEW key \in KeysOf(s.kb.kind) \cup {"none"}, NEW r, Dragged(s, p, key, r)
    PROVE  Away(r)
<1> SUFFICES ASSUME r.hist.home # "none", r.kb.symbol # "RELEASING"
             PROVE  /\ Chords(r.kb, r.hist.home)
                    /\ \A q \in ToSet(r.queue) : ~r.tr[q].disabled =>
                          /\ r.tr[q].key # "shift" /\ ~r.tr[q].sliding
                          /\ r.hist.home # "alphabet" => r.tr[q].key # "number"
  BY DEF Away
<1>1. /\ r.queue = s.queue /\ r.tr[p].key = key /\ r.tr[p].disabled = s.tr[p].disabled
      /\ \A q \in Pointer : q # p => r.tr[q] = s.tr[q]
      /\ s.tr[p].key = "none" => r.tr[p].sliding = s.tr[p].sliding
      /\ s.tr[p].key # "none" =>
            r.tr[p].sliding = IF s.tr[p].drag THEN s.tr[p].sliding ELSE s.tr[p].key \in Modifier
      /\ r.kb.symbol # "RELEASING" => s.kb.symbol # "RELEASING" \/ key = "symbol"
      /\ {s.tr[p].key, key} \cap Modifier # {} => r.hist.home = "none"
      /\ {s.tr[p].key, key} \cap Modifier = {} =>
            /\ r.hist.home = s.hist.home
            /\ s.kb.symbol # "RELEASING" => SameLayout(s.kb, r.kb)
            /\ r.kb.shift = "RELEASING" <=> s.kb.shift = "RELEASING"
  BY DEF Dragged
<1>2. s.tr[p].key \notin Modifier /\ key \notin Modifier
  BY <1>1
<1>3. /\ s.kb.symbol # "RELEASING" /\ r.hist.home = s.hist.home /\ SameLayout(s.kb, r.kb)
      /\ r.kb.shift = "RELEASING" <=> s.kb.shift = "RELEASING"
  BY <1>1, <1>2 DEF Modifier
<1>4. /\ Chords(s.kb, s.hist.home)
      /\ \A q \in ToSet(s.queue) : ~s.tr[q].disabled =>
            /\ s.tr[q].key # "shift" /\ ~s.tr[q].sliding
            /\ s.hist.home # "alphabet" => s.tr[q].key # "number"
  BY <1>3 DEF Away
<1>5. Chords(r.kb, r.hist.home)
  BY <1>3, <1>4, ReturnsKept DEF Chords
<1>6. s.hist.home # "alphabet" => key # "number"
  <2>1. s.hist.home # "alphabet" => s.kb.kind = "alphabet"
    BY <1>4 DEF Chords, Returns
  <2> QED BY <2>1 DEF KeysOf
<1>7. ToSet(s.queue) \subseteq Pointer
  BY QueueTypes DEF Typed
<1> QED BY <1>1, <1>2, <1>3, <1>4, <1>5, <1>6, <1>7 DEF Modifier

LEMMA MoveHandled ==
    ASSUME NEW s, Inv(s), s.hist.sent = <<>>, NEW p \in Pointer, s.tr[p].down,
           ~s.tr[p].disabled, ~s.gest, NEW key \in KeysOf(s.kb.kind) \cup {"none"}, NEW c
    PROVE  Handled(s, Drag(s, p, key, c), FALSE)
<1> DEFINE r == Drag(s, p, key, c)
<1>1. Typed(s) /\ Settled(s) /\ OneHolds(s) /\ StateOK(s) /\ key \in TouchKeys \cup {"none"}
      /\ p \in ToSet(s.queue)
  BY DEF Inv, Typed, Settled, KeysOf
<1>2. Dragged(s, p, key, r)
  BY <1>1, DragKeeps
<1> HIDE DEF r
<1>3. Typed(r) /\ Settled(r) /\ OneHolds(r)
  BY <1>1, <1>2, DragTyped
<1>4. ~s.hist.lost => Owned(r) /\ Away(r)
  BY <1>1, <1>2, DragOwned, DragAway DEF Inv
<1>5. Momentary(s, r) /\ r.hist.lost = s.hist.lost /\ r.hist.sent = <<>>
  BY <1>2 DEF Dragged, Momentary
<1>6. Handled(s, r, FALSE)
  BY <1>3, <1>4, <1>5, NothingSent DEF Handled
<1> QED BY <1>6 DEF r

-----------------------------------------------------------------------------
(* Calls that leave the fingers where they are, and at most stop the       *)
(* trackers in the queue.                                                  *)

Calm(s, r) ==
    /\ StateOK(r) /\ r.queue = s.queue
    /\ r.hist.lost = s.hist.lost /\ r.hist.sent = s.hist.sent
    /\ r.kb.timer \subseteq s.kb.timer
    /\ r.kb.shift \in {s.kb.shift, "RELEASING"} /\ r.kb.symbol \in {s.kb.symbol, "RELEASING"}
    /\ \/ r.hist.home = "none"
       \/ /\ r.hist.home = s.hist.home /\ SameLayout(s.kb, r.kb)
          /\ r.kb.shift = s.kb.shift /\ r.kb.symbol = s.kb.symbol
    /\ \A q \in Pointer : /\ r.tr[q].down = s.tr[q].down /\ r.tr[q].key = s.tr[q].key
                          /\ r.tr[q].drag = s.tr[q].drag /\ r.tr[q].sliding = s.tr[q].sliding

Quiet(s, r) ==
    /\ Calm(s, r) /\ r.gest = s.gest
    /\ \A q \in Pointer : r.tr[q].disabled = s.tr[q].disabled
Stopped(s, r) ==
    /\ Calm(s, r)
    /\ \A q \in Pointer : s.tr[q].disabled => r.tr[q].disabled
    /\ \A q \in ToSet(s.queue) : r.tr[q].disabled

LEMMA CalmTyped ==
    ASSUME NEW s, Typed(s), Settled(s), NEW r, Calm(s, r),
           \A q \in Pointer : s.tr[q].disabled => r.tr[q].disabled
    PROVE  Typed(r) /\ Settled(r)
<1>1. ToSet(s.queue) \subseteq Pointer
  BY QueueTypes DEF Typed
<1>2. Typed(r)
  BY <1>1 DEF Typed, Calm
<1>3. Settled(r)
  BY DEF Settled, Calm
<1> QED BY <1>2, <1>3

LEMMA CalmMomentary ==
    ASSUME NEW s, s.hist.sent = <<>>, NEW r, Calm(s, r)
    PROVE  Momentary(s, r) /\ Ordered(s, r.hist.sent) /\ r.hist.lost = s.hist.lost
BY NothingSent DEF Calm, Momentary

LEMMA QuietHandled ==
    ASSUME NEW s, Inv(s), s.hist.sent = <<>>, NEW r, Quiet(s, r)
    PROVE  Handled(s, r, FALSE)
<1>1. Typed(s) /\ Settled(s) /\ OneHolds(s) /\ Calm(s, r) /\ ToSet(s.queue) \subseteq Pointer
  BY QueueTypes DEF Inv, Typed, Quiet
<1>2. /\ r.queue = s.queue /\ r.gest = s.gest
      /\ \A q \in Pointer : /\ r.tr[q].key = s.tr[q].key /\ r.tr[q].drag = s.tr[q].drag
                            /\ r.tr[q].sliding = s.tr[q].sliding
                            /\ r.tr[q].disabled = s.tr[q].disabled
      /\ r.kb.shift \in {s.kb.shift, "RELEASING"} /\ r.kb.symbol \in {s.kb.symbol, "RELEASING"}
      /\ \/ r.hist.home = "none"
         \/ /\ r.hist.home = s.hist.home /\ SameLayout(s.kb, r.kb)
            /\ r.kb.shift = s.kb.shift /\ r.kb.symbol = s.kb.symbol
  BY DEF Quiet, Calm
<1>3. Typed(r) /\ Settled(r)
  BY <1>1, CalmTyped DEF Quiet
<1>4. OneHolds(r)
  <2>1. \A q \in ToSet(r.queue) : /\ Holds(r, q) => Holds(s, q)
                                  /\ Candidate(r, q) => Candidate(s, q)
    BY <1>1, <1>2 DEF Holds, Candidate
  <2> QED BY <1>1, <1>2, <2>1 DEF OneHolds
<1>5. ASSUME Owned(s) PROVE Owned(r)
  <2>1. ASSUME NEW q \in ToSet(s.queue), NEW key, Owns(s, q, key) PROVE Owns(r, q, key)
    BY <1>1, <1>2, <2>1 DEF Owns
  <2> QED BY <1>2, <1>5, <2>1 DEF Owned, InUse
<1>6. ASSUME Away(s) PROVE Away(r)
  <2> SUFFICES ASSUME r.hist.home # "none", r.kb.symbol # "RELEASING" PROVE Away(r)
    BY DEF Away
  <2>1. /\ s.kb.symbol # "RELEASING" /\ r.hist.home = s.hist.home /\ SameLayout(s.kb, r.kb)
        /\ r.kb.shift = s.kb.shift /\ r.kb.symbol = s.kb.symbol
    BY <1>2
  <2>2. Chords(s.kb, s.hist.home)
    BY <1>6, <2>1 DEF Away
  <2>3. Chords(r.kb, r.hist.home)
    BY <2>1, <2>2, ReturnsKept DEF Chords
  <2> QED BY <1>1, <1>2, <1>6, <2>1, <2>3 DEF Away
<1> QED BY <1>1, <1>3, <1>4, <1>5, <1>6, CalmMomentary DEF Handled, Inv

\* A stopped finger is no candidate, and does nothing to a chord.
LEMMA StoppedKeeps ==
    ASSUME NEW s, Typed(s), Settled(s), OneHolds(s), NEW r, Stopped(s, r)
    PROVE  Typed(r) /\ Settled(r) /\ OneHolds(r) /\ (Away(s) => Away(r))
<1>1. /\ Calm(s, r) /\ r.queue = s.queue /\ ToSet(s.queue) \subseteq Pointer
      /\ \A q \in Pointer : r.tr[q].key = s.tr[q].key /\ r.tr[q].drag = s.tr[q].drag
      /\ \A q \in ToSet(r.queue) : r.tr[q].disabled
  BY QueueTypes DEF Typed, Stopped, Calm
<1>2. Typed(r) /\ Settled(r)
  BY <1>1, CalmTyped DEF Stopped
<1>3. OneHolds(r)
  <2>1. \A q \in ToSet(r.queue) : /\ Holds(r, q) => Holds(s, q)
                                  /\ Candidate(r, q) => Holds(r, q)
    BY <1>1 DEF Holds, Candidate
  <2> QED BY <1>1, <2>1 DEF OneHolds
<1>4. ASSUME Away(s) PROVE Away(r)
  <2> SUFFICES ASSUME r.hist.home # "none", r.kb.symbol # "RELEASING"
               PROVE  Chords(r.kb, r.hist.home)
    BY <1>1 DEF Away
  <2>1. /\ s.kb.symbol # "RELEASING" /\ r.hist.home = s.hist.home /\ SameLayout(s.kb, r.kb)
        /\ r.kb.shift = s.kb.shift /\ r.kb.symbol = s.kb.symbol
    BY <1>1 DEF Calm
  <2>2. Chords(s.kb, s.hist.home)
    BY <1>4, <2>1 DEF Away
  <2> QED BY <2>1, <2>2, ReturnsKept DEF Chords
<1> QED BY <1>2, <1>3, <1>4

LEMMA StoppedHandled ==
    ASSUME NEW s, Inv(s), s.hist.sent = <<>>, NEW r, Stopped(s, r)
    PROVE  Handled(s, r, TRUE)
<1>1. Typed(r) /\ Settled(r) /\ OneHolds(r)
  BY StoppedKeeps DEF Inv
<1> QED BY <1>1, CalmMomentary DEF Handled, Stopped

\* Stopped, and then a call to the keyboard.
LEMMA StoppedQuiet ==
    ASSUME NEW s, NEW o, Stopped(s, o), NEW r, Quiet(o, r)
    PROVE  Stopped(s, r)
<1>1. Calm(s, o) /\ Calm(o, r)
  BY DEF Stopped, Quiet
<1>2. Calm(s, r)
  BY <1>1 DEF Calm, SameLayout
<1>3. /\ \A q \in Pointer : /\ s.tr[q].disabled => o.tr[q].disabled
                            /\ r.tr[q].disabled = o.tr[q].disabled
      /\ \A q \in ToSet(s.queue) : o.tr[q].disabled
  BY DEF Stopped, Quiet
<1>4. ToSet(s.queue) \subseteq Pointer
  <2>1. StateOK(o) /\ o.queue = s.queue
    BY <1>1 DEF Calm
  <2> QED BY <2>1, QueueTypes
<1> QED BY <1>2, <1>3, <1>4 DEF Stopped

\* A call to the keyboard, and one that loads or resets it.
LEMMA CallQuiet ==
    ASSUME NEW s, StateOK(s), NEW k, KeyboardOK(k), k.timer \subseteq s.kb.timer,
           SameLayout(s.kb, k), k.shift = s.kb.shift, k.symbol = s.kb.symbol
    PROVE  Quiet(s, Kb(s, k))
<1> DEFINE r == Kb(s, k)
<1>1. KbOnly(s, r) /\ r.kb = k
  BY KbKeeps
<1> HIDE DEF r
<1>2. Calm(s, r)
  BY <1>1 DEF KbOnly, Calm
<1>3. Quiet(s, r)
  BY <1>1, <1>2 DEF KbOnly, Quiet
<1> QED BY <1>3 DEF r

Homeless(s, k) == [s EXCEPT !.kb = k, !.hist.home = "none"]

LEMMA LoadQuiet ==
    ASSUME NEW s, StateOK(s), NEW k, KeyboardOK(k), k.timer \subseteq s.kb.timer,
           k.shift \in {s.kb.shift, "RELEASING"}, k.symbol \in {s.kb.symbol, "RELEASING"}
    PROVE  Quiet(s, Homeless(s, k))
<1> DEFINE h == [s.hist EXCEPT !.home = "none"]
           r == Homeless(s, k)
<1>1. h \in Histories /\ h.sent = s.hist.sent /\ h.home = "none" /\ h.lost = s.hist.lost
  <2>1. s.hist \in Histories
    BY DEF StateOK, States
  <2> QED BY <2>1, HomeSet
<1>2. r = [s EXCEPT !.kb = k, !.hist = h]
  BY DEF StateOK, States, Homeless
<1> HIDE DEF h, r
<1>3. /\ StateOK(r) /\ r.kb = k /\ r.tr = s.tr /\ r.queue = s.queue /\ r.gest = s.gest
      /\ r.hist = h
  BY <1>1, <1>2 DEF StateOK, States, KeyboardOK
<1>4. Calm(s, r)
  BY <1>1, <1>3 DEF Calm
<1>5. Quiet(s, r)
  BY <1>3, <1>4 DEF Quiet
<1> QED BY <1>5 DEF r

LEMMA LoadedQuiet ==
    ASSUME NEW s, StateOK(s), NEW numeric \in BOOLEAN, NEW c
    PROVE  Quiet(s, Load(s, numeric, c))
<1> DEFINE k == OnLoadKeyboard(s.kb, numeric, c)
<1>1. KeyboardOK(k) /\ Cleared(s.kb, k) /\ k.shift = "RELEASING" /\ k.symbol = "RELEASING"
  BY LoadKeeps DEF StateOK
<1>2. Load(s, numeric, c) = Homeless(s, k)
  BY DEF Load, Homeless
<1> HIDE DEF k
<1>3. k.timer \subseteq s.kb.timer
  BY <1>1 DEF Cleared
<1> QED BY <1>1, <1>2, <1>3, LoadQuiet

LEMMA ResetQuiet ==
    ASSUME NEW s, StateOK(s), NEW numeric \in BOOLEAN, NEW c
    PROVE  Quiet(s, [Kb(s, UpdateAlphabetShiftState(OnResetToAlphabet(s.kb, numeric, c), c))
                        EXCEPT !.hist.home = "none"])
<1> DEFINE i == OnResetToAlphabet(s.kb, numeric, c)
           k == UpdateAlphabetShiftState(i, c)
<1>1. /\ KeyboardOK(i) /\ Cleared(s.kb, i)
      /\ i.shift \in {s.kb.shift, "RELEASING"} /\ i.symbol \in {s.kb.symbol, "RELEASING"}
  BY ResetKeeps DEF StateOK
<1> HIDE DEF i
<1>2. KeyboardOK(k) /\ Frame(i, k)
  BY <1>1, UpdateShiftKeeps
<1>3. [Kb(s, k) EXCEPT !.hist.home = "none"] = Homeless(s, k)
  BY DEF Kb, StateOK, States, Homeless
<1> HIDE DEF k
<1>4. /\ k.timer \subseteq s.kb.timer
      /\ k.shift \in {s.kb.shift, "RELEASING"} /\ k.symbol \in {s.kb.symbol, "RELEASING"}
  BY <1>1, <1>2 DEF Frame, Cleared
<1>5. Quiet(s, Homeless(s, k))
  BY <1>2, <1>4, LoadQuiet
<1> QED BY <1>3, <1>5 DEF k, i

LEMMA UpdateQuiet ==
    ASSUME NEW s, StateOK(s), NEW c
    PROVE  Quiet(s, Kb(s, UpdateAlphabetShiftState(s.kb, c)))
<1> DEFINE k == UpdateAlphabetShiftState(s.kb, c)
<1>1. KeyboardOK(k) /\ Frame(s.kb, k) /\ SameLayout(s.kb, k)
  BY UpdateShiftKeeps DEF StateOK
<1> HIDE DEF k
<1>2. Quiet(s, Kb(s, k))
  BY <1>1, CallQuiet DEF Frame, Cleared
<1> QED BY <1>2 DEF k

LEMMA SavedQuiet ==
    ASSUME NEW s, StateOK(s)
    PROVE  Quiet(s, Kb(s, OnSaveKeyboardState(s.kb)))
<1> DEFINE k == OnSaveKeyboardState(s.kb)
<1>1. KeyboardOK(k) /\ Frame(s.kb, k) /\ SameLayout(s.kb, k)
  BY SaveKeeps DEF StateOK
<1> HIDE DEF k
<1>2. Quiet(s, Kb(s, k))
  BY <1>1, CallQuiet DEF Frame, Cleared
<1> QED BY <1>2 DEF k

\* The timers: the one of a long press, and the one of a double tap.
LEMMA TimerQuiet ==
    ASSUME NEW s, StateOK(s)
    PROVE  Quiet(s, [s EXCEPT !.kb.timer = {}])
<1> DEFINE k == [s.kb EXCEPT !.timer = {}]
<1>1. SameButGraphics(s.kb, k) /\ k.timer = {}
  BY DEF StateOK, KeyboardOK, KeyboardTypes, SameButGraphics
<1>2. [s EXCEPT !.kb.timer = {}] = Kb(s, k)
  BY DEF Kb, StateOK, States
<1> HIDE DEF k
<1>3. KeyboardOK(k) /\ SameLayout(s.kb, k)
  BY <1>1, GraphicsKeep DEF StateOK
<1>4. Quiet(s, Kb(s, k))
  BY <1>1, <1>3, CallQuiet DEF SameButGraphics
<1> QED BY <1>2, <1>4

LEMMA DisarmQuiet ==
    ASSUME NEW s, StateOK(s)
    PROVE  Quiet(s, [s EXCEPT !.kb.armed = FALSE])
<1> DEFINE k == [s.kb EXCEPT !.armed = FALSE]
<1>1. KeyboardOK(k) /\ Frame(s.kb, k) /\ SameLayout(s.kb, k)
  BY DisarmKeeps DEF StateOK
<1>2. [s EXCEPT !.kb.armed = FALSE] = Kb(s, k)
  BY DEF Kb, StateOK, States
<1> HIDE DEF k
<1>3. Quiet(s, Kb(s, k))
  BY <1>1, CallQuiet DEF Frame, Cleared
<1> QED BY <1>2, <1>3

\* The cursor moves: no other part of the tracker is set.
LEMMA CursorQuiet ==
    ASSUME NEW s, StateOK(s), NEW p \in Pointer
    PROVE  Quiet(s, [s EXCEPT !.tr[p].moved = TRUE])
<1> DEFINE x == s.tr[p]
           v == [x EXCEPT !.moved = TRUE]
           r == [s EXCEPT !.tr[p].moved = TRUE]
<1>1. x \in Tracker /\ x = s.tr[p]
  BY TrackerFields
<1>2. r = Upd(s, p, v)
  BY DEF Upd, StateOK, States
<1> HIDE DEF x
<1>3. /\ v \in Tracker /\ v.down = x.down /\ v.disabled = x.disabled /\ v.drag = x.drag
      /\ v.sliding = x.sliding /\ v.key = x.key
  BY <1>1 DEF Tracker
<1> HIDE DEF v
<1>4. LET m == Upd(s, p, v)
      IN /\ StateOK(m) /\ m.kb = s.kb /\ m.queue = s.queue /\ m.gest = s.gest
         /\ m.hist = s.hist /\ m.tr[p] = v
         /\ \A q \in Pointer : q # p => m.tr[q] = s.tr[q]
  BY <1>3, UpdKeeps
<1> HIDE DEF r
<1>5. \A q \in Pointer : /\ r.tr[q].down = s.tr[q].down /\ r.tr[q].key = s.tr[q].key
                         /\ r.tr[q].drag = s.tr[q].drag /\ r.tr[q].sliding = s.tr[q].sliding
                         /\ r.tr[q].disabled = s.tr[q].disabled
  BY <1>1, <1>2, <1>3, <1>4
<1>6. Calm(s, r)
  BY <1>2, <1>4, <1>5 DEF Calm, SameLayout
<1>7. Quiet(s, r)
  BY <1>2, <1>4, <1>5, <1>6 DEF Quiet
<1> QED BY <1>7 DEF r

\* cancelAllPointerTrackers, and the calls that begin with it.
LEMMA DisableStops ==
    ASSUME NEW s, StateOK(s), NEW o, Quiet(s, o), NEW r, Disabling(o, ToSet(o.queue), r)
    PROVE  Stopped(s, r) /\ r.gest = s.gest
<1>1. ToSet(o.queue) \subseteq Pointer /\ o.queue = s.queue /\ Calm(s, o)
  BY QueueTypes DEF Quiet, Calm
<1>2. Calm(s, r)
  BY <1>1 DEF Calm, Disabling
<1>3. \A q \in ToSet(s.queue) : r.tr[q].disabled
  BY <1>1 DEF Disabling
<1>4. \A q \in Pointer : s.tr[q].disabled => r.tr[q].disabled
  BY DEF Disabling, Quiet
<1>5. r.gest = s.gest
  BY DEF Disabling, Quiet
<1> QED BY <1>2, <1>3, <1>4, <1>5 DEF Stopped

LEMMA ClosingStops ==
    ASSUME NEW s, StateOK(s)
    PROVE  Stopped(s, Closing(s)) /\ StateOK(Closing(s))
<1> DEFINE k == [s.kb EXCEPT !.timer = {}, !.drawn = FALSE]
           o == Kb(s, k)
           r == DisableAll(o)
<1>1. SameButGraphics(s.kb, k) /\ k.timer = {}
  BY DEF StateOK, KeyboardOK, KeyboardTypes, SameButGraphics
<1>2. Closing(s) = r
  BY DEF Closing, Kb, StateOK, States
<1> HIDE DEF k
<1>3. KeyboardOK(k) /\ SameLayout(s.kb, k)
  BY <1>1, GraphicsKeep DEF StateOK
<1>4. Quiet(s, o)
  BY <1>1, <1>3, CallQuiet DEF SameButGraphics
<1> HIDE DEF o
<1>5. Disabling(o, ToSet(o.queue), r)
  BY <1>4, DisableKeeps DEF DisableAll, Quiet, Calm
<1> HIDE DEF r
<1>6. Stopped(s, r)
  BY <1>4, <1>5, DisableStops
<1>7. StateOK(r)
  BY <1>5 DEF Disabling
<1> QED BY <1>2, <1>6, <1>7

LEMMA CancelBatchStops ==
    ASSUME NEW s, StateOK(s), NEW p \in Pointer
    PROVE  LET r == CancelBatchInput(s, p)
           IN /\ Stopped(s, r) /\ r.gest = FALSE /\ r.kb = s.kb /\ r.hist = s.hist
<1> DEFINE d == DisableAll(s)
           x == d.tr[p]
           v == [x EXCEPT !.detecting = FALSE]
           u == Upd(d, p, v)
           r == CancelBatchInput(s, p)
<1>1. r = [d EXCEPT !.tr[p].detecting = FALSE, !.gest = FALSE]
  BY DEF CancelBatchInput
<1>2. Quiet(s, s)
  BY DEF Quiet, Calm, SameLayout
<1>3. Disabling(s, ToSet(s.queue), d)
  BY DisableKeeps DEF DisableAll
<1> HIDE DEF d, r
<1>4. StateOK(d) /\ Stopped(s, d) /\ d.kb = s.kb /\ d.hist = s.hist
  <2>1. Stopped(s, d)
    BY <1>2, <1>3, DisableStops
  <2> QED BY <1>3, <2>1 DEF Disabling
<1>5. x \in Tracker
  BY <1>4, TrackerFields
<1>6. r = [u EXCEPT !.gest = FALSE]
  BY <1>1, <1>4 DEF Upd, StateOK, States
<1>7. x = d.tr[p]
  OBVIOUS
<1> HIDE DEF x
<1>8. /\ v \in Tracker /\ v.down = x.down /\ v.disabled = x.disabled /\ v.drag = x.drag
      /\ v.sliding = x.sliding /\ v.key = x.key
  BY <1>5 DEF Tracker
<1> HIDE DEF v
<1>9. /\ StateOK(u) /\ u.kb = d.kb /\ u.queue = d.queue /\ u.hist = d.hist /\ u.tr[p] = v
      /\ \A q \in Pointer : q # p => u.tr[q] = d.tr[q]
  BY <1>4, <1>8, UpdKeeps
<1> HIDE DEF u
<1>10. /\ StateOK(r) /\ r.kb = u.kb /\ r.queue = u.queue /\ r.hist = u.hist /\ r.tr = u.tr
       /\ r.gest = FALSE
  BY <1>6, <1>9 DEF StateOK, States
<1>11. \A q \in Pointer : /\ r.tr[q].down = d.tr[q].down /\ r.tr[q].key = d.tr[q].key
                          /\ r.tr[q].drag = d.tr[q].drag /\ r.tr[q].sliding = d.tr[q].sliding
                          /\ r.tr[q].disabled = d.tr[q].disabled
  BY <1>7, <1>8, <1>9, <1>10
<1>12. Calm(d, r) /\ r.gest = FALSE /\ r.kb = s.kb /\ r.hist = s.hist
  BY <1>4, <1>9, <1>10, <1>11 DEF Calm, SameLayout
<1>13. Calm(s, r)
  BY <1>4, <1>12 DEF Stopped, Calm
<1>14. ToSet(s.queue) \subseteq Pointer
  BY QueueTypes
<1>15. Stopped(s, r)
  BY <1>4, <1>11, <1>13, <1>14 DEF Stopped
<1> QED BY <1>12, <1>15 DEF r

\* A stroke that leaves the valid area.
LEMMA OutsideHandled ==
    ASSUME NEW s, Inv(s), s.hist.sent = <<>>, NEW p \in Pointer, s.tr[p].down, NEW c
    PROVE  Handled(s, Drag(CancelBatchInput(s, p), p, "none", c), TRUE)
<1> DEFINE o == CancelBatchInput(s, p)
           r == Drag(o, p, "none", c)
<1>1. Typed(s) /\ Settled(s) /\ OneHolds(s) /\ StateOK(s)
  BY DEF Inv, Typed
<1>2. Stopped(s, o) /\ ~o.gest /\ o.kb = s.kb /\ o.hist = s.hist
  BY <1>1, CancelBatchStops
<1> HIDE DEF o
<1>3. Typed(o) /\ Settled(o) /\ OneHolds(o) /\ StateOK(o) /\ o.tr[p].down
  BY <1>1, <1>2, StoppedKeeps DEF Typed, Stopped, Calm
<1>4. Dragged(o, p, "none", r)
  BY <1>3, DragKeeps
<1> HIDE DEF r
<1>5. Typed(r) /\ Settled(r) /\ OneHolds(r)
  BY <1>2, <1>3, <1>4, DragTyped
<1>6. Momentary(s, r) /\ r.hist.lost = s.hist.lost /\ r.hist.sent = <<>>
  BY <1>2, <1>4 DEF Dragged, Momentary
<1>7. Handled(s, r, TRUE)
  BY <1>5, <1>6, NothingSent DEF Handled
<1> QED BY <1>7 DEF r, o

\* A stroke that becomes a gesture, or goes on as one.
GestureOf(s, p, on) ==
    LET g == [s EXCEPT !.gest = TRUE, !.tr[p].key = "none"]
    IN [g EXCEPT !.kb.drawn = @ /\ s.tr[p].key # "shift",
                 !.kb.timer = IF on THEN @ ELSE @ \ {p}]

LEMMA GestureHandled ==
    ASSUME NEW s, Inv(s), s.hist.sent = <<>>, NEW p \in Pointer, NEW on
    PROVE  Handled(s, GestureOf(s, p, on), TRUE)
<1> DEFINE m == [s EXCEPT !.tr[p].key = "none"]
           g == [m EXCEPT !.gest = TRUE]
           d == s.kb.drawn /\ s.tr[p].key # "shift"
           t == IF on THEN s.kb.timer ELSE s.kb.timer \ {p}
           k == [s.kb EXCEPT !.drawn = d, !.timer = t]
           r == GestureOf(s, p, on)
<1>1. Typed(s) /\ Settled(s) /\ OneHolds(s) /\ StateOK(s) /\ ToSet(s.queue) \subseteq Pointer
  BY QueueTypes DEF Inv, Typed
<1>2. d \in BOOLEAN /\ t \subseteq s.kb.timer /\ t \subseteq Pointer
  BY <1>1 DEF StateOK, States, KeyboardTypes
<1>3. r = Kb(g, k)
  BY <1>1 DEF GestureOf, Kb, StateOK, States, KeyboardTypes
<1> HIDE DEF d, t
<1>4. SameButGraphics(s.kb, k) /\ k.timer = t
  BY <1>1, <1>2 DEF StateOK, KeyboardOK, KeyboardTypes, SameButGraphics
<1> HIDE DEF k
<1>5. KeyboardOK(k)
  BY <1>1, <1>4, GraphicsKeep DEF StateOK
<1>6. Moved(s, p, "none", m)
  BY <1>1, MovedKeeps
<1> HIDE DEF m
<1>7. /\ StateOK(g) /\ g.kb = m.kb /\ g.tr = m.tr /\ g.queue = m.queue /\ g.hist = m.hist
      /\ g.gest = TRUE
  BY <1>6 DEF Moved, StateOK, States
<1> HIDE DEF g
<1>8. KbOnly(g, Kb(g, k)) /\ Kb(g, k).kb = k
  BY <1>5, <1>7, KbKeeps
<1>9. /\ StateOK(r) /\ r.kb = k /\ r.tr = m.tr /\ r.queue = s.queue /\ r.hist = s.hist
      /\ r.gest = TRUE
  BY <1>3, <1>6, <1>7, <1>8 DEF KbOnly, Moved
<1> HIDE DEF r
<1>10. /\ \A q \in Pointer : q # p => r.tr[q] = s.tr[q]
       /\ r.tr[p].down = s.tr[p].down /\ r.tr[p].disabled = s.tr[p].disabled
       /\ r.tr[p].drag = s.tr[p].drag /\ r.tr[p].sliding = s.tr[p].sliding
       /\ r.tr[p].key = "none"
  BY <1>6, <1>9 DEF Moved
<1>11. Typed(r)
  BY <1>1, <1>2, <1>4, <1>9, <1>10 DEF Typed
<1>12. Settled(r)
  BY <1>1, <1>9, <1>10 DEF Settled
<1>13. OneHolds(r)
  <2>1. \A q \in ToSet(r.queue) : Holds(r, q) => Holds(s, q)
    BY <1>1, <1>9, <1>10 DEF Holds, Modifier
  <2> QED BY <1>1, <1>9, <2>1 DEF OneHolds
<1>14. Momentary(s, r)
  BY <1>4, <1>9 DEF Momentary, SameButGraphics
<1>15. Handled(s, r, TRUE)
  BY <1>9, <1>11, <1>12, <1>13, <1>14, NothingSent DEF Handled
<1> QED BY <1>15 DEF r

\* The window takes every finger away.
CancelOf(s, p) ==
    LET r == ReleaseAll(CancelBatchInput(s, p), Always(FALSE))
        t == Undraw(r, p, r.tr[p].key)
    IN [t EXCEPT !.tr = [q \in Pointer |->
           [t.tr[q] EXCEPT !.down = FALSE, !.drag = @ /\ q # p, !.sliding = @ /\ q # p]]]

\* Who is disabled has nothing to send.
LEMMA StoppedSilent ==
    ASSUME NEW s, NEW o, StateOK(o), \A q \in ToSet(o.queue) : o.tr[q].disabled,
           o.hist.sent = <<>>, NEW ps, NEW r, Swept(o, ps, r)
    PROVE  Ordered(s, r.hist.sent)
<1>1. o.queue \in Seq(Pointer)
  BY QueueTypes
<1>2. \A m \in 1 .. Len(o.queue) : ~Sending(o, ps, m)
  BY <1>1 DEF Sending, ToSend, ToSet
<1>3. Sends(o, ps, Len(o.queue), r.hist.sent)
  BY DEF Swept, LoopSends
<1> QED BY <1>2, <1>3 DEF Sends, Ordered

LEMMA CancelHandled ==
    ASSUME NEW s, Inv(s), s.hist.sent = <<>>, NEW p \in Pointer
    PROVE  Handled(s, CancelOf(s, p), TRUE)
<1> DEFINE o == CancelBatchInput(s, p)
           r == ReleaseAll(o, Always(FALSE))
           t == Undraw(r, p, r.tr[p].key)
           T(q) == [t.tr[q] EXCEPT !.down = FALSE, !.drag = t.tr[q].drag /\ q # p,
                                   !.sliding = t.tr[q].sliding /\ q # p]
           w == CancelOf(s, p)
<1>1. Typed(s) /\ Settled(s) /\ OneHolds(s) /\ StateOK(s)
  BY DEF Inv, Typed
<1>2. Stopped(s, o) /\ ~o.gest /\ o.kb = s.kb /\ o.hist = s.hist
  BY <1>1, CancelBatchStops
<1>3. w = [t EXCEPT !.tr = [q \in Pointer |-> 
             [t.tr[q] EXCEPT !.down = FALSE, !.drag = @ /\ q # p, !.sliding = @ /\ q # p]]]
  BY DEF CancelOf
<1> HIDE DEF o, w
<1>4. Typed(o) /\ Settled(o) /\ OneHolds(o) /\ StateOK(o) /\ (Away(s) => Away(o))
      /\ IsInjective(o.queue) /\ \A q \in ToSet(o.queue) : o.tr[q].disabled
  BY <1>1, <1>2, StoppedKeeps DEF Typed, Stopped, Calm
<1>5. Swept(o, Pointer, r) /\ ToSet(r.queue) = {}
  BY <1>4, ReleaseAllKeeps
<1> HIDE DEF r
<1>6. Typed(r) /\ Settled(r) /\ StateOK(r)
  BY <1>4, <1>5, SweptKeeps DEF Typed
<1>7. KbOnly(r, t) /\ SameButGraphics(r.kb, t.kb) /\ t.kb.timer = r.kb.timer \ {p}
  BY <1>6, UndrawKeeps
<1> HIDE DEF t
<1>8. StateOK(t) /\ t.tr = r.tr /\ t.queue = r.queue /\ t.hist = r.hist
  BY <1>7 DEF KbOnly
<1>9. ASSUME NEW q \in Pointer
      PROVE  /\ T(q) \in Tracker /\ T(q).down = FALSE /\ (T(q).sliding => T(q).drag)
             /\ T(q) = [t.tr[q] EXCEPT !.down = FALSE, !.drag = @ /\ q # p,
                                       !.sliding = @ /\ q # p]
  <2> DEFINE x == t.tr[q]
             y == x.drag /\ q # p
             z == x.sliding /\ q # p
  <2>1. x \in Tracker /\ y \in BOOLEAN /\ z \in BOOLEAN /\ (z => y)
    <3>1. x.sliding => x.drag
      BY <1>6, <1>8 DEF Settled
    <3> QED BY <1>8, <3>1, TrackerFields
  <2>2. T(q) = [t.tr[q] EXCEPT !.down = FALSE, !.drag = @ /\ q # p, !.sliding = @ /\ q # p]
    BY <2>1 DEF Tracker
  <2>3. T(q) = [x EXCEPT !.down = FALSE, !.drag = y, !.sliding = z]
    OBVIOUS
  <2> HIDE DEF x, y, z, T
  <2>4. LET v == [x EXCEPT !.down = FALSE, !.drag = y, !.sliding = z]
        IN v \in Tracker /\ v.down = FALSE /\ v.drag = y /\ v.sliding = z
    BY <2>1 DEF Tracker
  <2> QED BY <2>1, <2>2, <2>3, <2>4
<1>10. w = [t EXCEPT !.tr = [q \in Pointer |-> T(q)]]
  BY <1>3, <1>9
<1>11. \A q \in Pointer : T(q) \in Tracker /\ ~T(q).down /\ (T(q).sliding => T(q).drag)
  BY <1>9
<1> HIDE DEF T
<1>12. /\ StateOK(w) /\ w.kb = t.kb /\ w.queue = r.queue /\ w.hist = r.hist
       /\ w.tr = [q \in Pointer |-> T(q)]
  BY <1>8, <1>10, <1>11 DEF StateOK, States
<1>13. Typed(w) /\ Settled(w) /\ OneHolds(w)
  <2>1. w.kb.timer = {} /\ ToSet(w.queue) = {} /\ IsInjective(w.queue)
    BY <1>5, <1>6, <1>7, <1>12 DEF Typed
  <2> QED BY <1>11, <1>12, <2>1 DEF Typed, Settled, OneHolds
<1>14. Momentary(s, w)
  <2> SUFFICES ASSUME s.kb.symbol = "CHORDING", w.kb.symbol = "RELEASING", ~s.hist.lost,
                      w.hist.home # "none"
               PROVE  w.kb.kind = s.hist.home
    BY DEF Momentary
  <2>1. SweptHome(o, r)
    BY <1>2, <1>4, <1>5, SweptAway DEF Inv
  <2> QED BY <1>2, <1>7, <1>12, <2>1 DEF SweptHome, SameButGraphics
<1>15. w.hist.lost = s.hist.lost /\ Ordered(s, w.hist.sent)
  <2>1. r.hist.lost = o.hist.lost
    BY <1>5 DEF Swept
  <2>2. Ordered(s, r.hist.sent)
    BY <1>2, <1>4, <1>5, StoppedSilent
  <2> QED BY <1>2, <1>8, <1>12, <2>1, <2>2
<1>16. Handled(s, w, TRUE)
  BY <1>13, <1>14, <1>15 DEF Handled
<1> QED BY <1>16 DEF w

\* A long press on shift: the tracker is stopped, and the caps lock code goes through.
CapsLock(k, c) ==
    OnReleaseKey(OnEvent(OnPressKey(k, "capslock", c), "capslock", c), "capslock", FALSE, c)
LongPressOf(s, p) ==
    LET o == [s EXCEPT !.kb.timer = {}]
        t == [s.tr[p] EXCEPT !.drag = FALSE, !.sliding = FALSE, !.disabled = TRUE]
    IN Without(Undraw(Upd(o, p, t), p, t.key), p)

LEMMA CapsLockKeeps ==
    ASSUME NEW k, KeyboardOK(k), NEW c
    PROVE  LET j == CapsLock(k, c)
           IN KeyboardOK(j) /\ j.timer \subseteq k.timer /\ j.symbol = k.symbol
<1> DEFINE i == OnPressKey(k, "capslock", c)
           h == OnEvent(i, "capslock", c)
           j == OnReleaseKey(h, "capslock", FALSE, c)
<1>1. "capslock" \in Codes /\ FALSE \in BOOLEAN
  BY DEF Codes
<1>2. Pressed(k, "capslock", i)
  BY <1>1, PressKeeps
<1>3. KeyboardOK(i) /\ i.timer \subseteq k.timer /\ i.symbol = k.symbol
  BY <1>2 DEF Pressed, Cleared, Frame
<1> HIDE DEF i
<1>4. KeyboardOK(h) /\ Frame(i, h)
  BY <1>1, <1>3, EventKeeps
<1> HIDE DEF h
<1>5. Lifted(h, "capslock", FALSE, j)
  BY <1>1, <1>4, ReleaseKeeps
<1> HIDE DEF j
<1>6. KeyboardOK(j) /\ j.timer \subseteq k.timer /\ j.symbol = k.symbol
  BY <1>3, <1>4, <1>5 DEF Lifted, Frame, Cleared
<1> QED BY <1>6 DEF j, h, i, CapsLock

LEMMA LongPressHandled ==
    ASSUME NEW s, Inv(s), s.hist.sent = <<>>, NEW p \in Pointer, NEW c
    PROVE  Handled(s, Kb(LongPressOf(s, p), CapsLock(LongPressOf(s, p).kb, c)), TRUE)
<1> DEFINE o == [s EXCEPT !.kb.timer = {}]
           x == s.tr[p]
           t == [x EXCEPT !.drag = FALSE, !.sliding = FALSE, !.disabled = TRUE]
           u == Upd(o, p, t)
           d == Undraw(u, p, t.key)
           w == Without(d, p)
           l == LongPressOf(s, p)
           k == CapsLock(l.kb, c)
           r == Kb(l, k)
<1>1. Typed(s) /\ Settled(s) /\ OneHolds(s) /\ StateOK(s) /\ ToSet(s.queue) \subseteq Pointer
      /\ IsInjective(s.queue)
  BY QueueTypes DEF Inv, Typed
<1>2. l = w
  BY DEF LongPressOf
<1> HIDE DEF l
<1>3. Quiet(s, o)
  BY <1>1, TimerQuiet
<1>4. o.tr = s.tr /\ o.hist = s.hist
  BY <1>1 DEF StateOK, States
<1> HIDE DEF o
<1>5. StateOK(o) /\ o.queue = s.queue /\ o.gest = s.gest /\ o.kb.timer \subseteq s.kb.timer
      /\ \A q \in Pointer : q # p => o.tr[q] = s.tr[q]
  BY <1>3, <1>4 DEF Quiet, Calm
<1>6. x \in Tracker /\ x = s.tr[p]
  BY <1>1, TrackerFields
<1> HIDE DEF x
<1>7. /\ t \in Tracker /\ t.down = x.down /\ t.disabled /\ ~t.sliding
  BY <1>6 DEF Tracker
<1> HIDE DEF t
<1>8. /\ StateOK(u) /\ u.kb = o.kb /\ u.queue = o.queue /\ u.gest = o.gest
      /\ u.hist = o.hist /\ u.tr[p] = t
      /\ \A q \in Pointer : q # p => u.tr[q] = o.tr[q]
  BY <1>5, <1>7, UpdKeeps
<1> HIDE DEF u
<1>9. KbOnly(u, d) /\ SameButGraphics(u.kb, d.kb) /\ d.kb.timer = u.kb.timer \ {p}
  BY <1>8, UndrawKeeps
<1> HIDE DEF d
<1>10. /\ StateOK(d) /\ d.queue = s.queue /\ d.gest = s.gest /\ d.hist = s.hist
       /\ d.tr[p] = t /\ \A q \in Pointer : q # p => d.tr[q] = s.tr[q]
  BY <1>4, <1>5, <1>8, <1>9 DEF KbOnly
<1>11. /\ StateOK(w) /\ w.kb = d.kb /\ w.tr = d.tr /\ w.gest = d.gest
       /\ w.hist = d.hist /\ IsInjective(w.queue)
       /\ ToSet(w.queue) = ToSet(d.queue) \ {p}
  BY <1>1, <1>10, WithoutKeeps
<1> HIDE DEF w
<1>12. KeyboardOK(k) /\ k.timer \subseteq l.kb.timer /\ k.symbol = l.kb.symbol
  BY <1>2, <1>11, CapsLockKeeps DEF StateOK
<1> HIDE DEF k
<1>13. KbOnly(l, r) /\ r.kb = k
  BY <1>2, <1>11, <1>12, KbKeeps
<1> HIDE DEF r
<1>14. /\ StateOK(r) /\ r.gest = s.gest /\ r.hist = s.hist /\ IsInjective(r.queue)
       /\ ToSet(r.queue) = ToSet(s.queue) \ {p} /\ r.kb.timer \subseteq s.kb.timer \ {p}
       /\ \A q \in Pointer : q # p => r.tr[q] = s.tr[q]
       /\ r.tr[p].down = s.tr[p].down /\ r.tr[p].disabled /\ ~r.tr[p].sliding
  <2>1. r.kb.timer \subseteq s.kb.timer \ {p}
    BY <1>2, <1>5, <1>8, <1>9, <1>11, <1>12, <1>13
  <2> QED BY <1>2, <1>6, <1>7, <1>10, <1>11, <1>13, <2>1 DEF KbOnly
<1>15. Typed(r)
  BY <1>1, <1>14 DEF Typed
<1>16. Settled(r)
  BY <1>1, <1>14 DEF Settled
<1>17. OneHolds(r)
  <2>1. \A q \in ToSet(r.queue) : /\ q \in ToSet(s.queue) /\ Holds(r, q) => Holds(s, q)
                                  /\ Candidate(r, q) => Candidate(s, q)
    BY <1>1, <1>14 DEF Holds, Candidate
  <2> QED BY <1>1, <1>14, <2>1 DEF OneHolds
<1>18. Momentary(s, r)
  <2>1. o.kb.symbol = s.kb.symbol \/ o.hist.home = "none"
    BY <1>3 DEF Quiet, Calm
  <2>2. r.kb.symbol = o.kb.symbol
    BY <1>2, <1>8, <1>9, <1>11, <1>12, <1>13 DEF SameButGraphics
  <2> QED BY <1>4, <1>14, <2>1, <2>2 DEF Momentary
<1>19. Handled(s, r, TRUE)
  BY <1>14, <1>15, <1>16, <1>17, <1>18, NothingSent DEF Handled
<1> QED BY <1>19 DEF r, k, l

-----------------------------------------------------------------------------
(* The inductive invariant, of the variables.                              *)

Cur == [kb |-> kb, tr |-> tracker, queue |-> queue, gest |-> inGesture, hist |-> hist]
IInv == Inv(Cur) /\ shown \in BOOLEAN

\* The parts of Inv read neither what was sent nor what was lost.
SameParts(s, r) ==
    /\ StateOK(r) /\ r.kb = s.kb /\ r.tr = s.tr /\ r.queue = s.queue /\ r.gest = s.gest
    /\ r.hist.home = s.hist.home

LEMMA PartsKept ==
    ASSUME NEW s, NEW r, SameParts(s, r)
    PROVE  /\ Typed(s) => Typed(r)
           /\ Settled(s) => Settled(r)
           /\ OneHolds(s) => OneHolds(r)
           /\ Owned(s) => Owned(r)
           /\ Away(s) => Away(r)
<1>1. Typed(s) => Typed(r)
  BY DEF SameParts, Typed
<1>2. Settled(s) => Settled(r)
  BY DEF SameParts, Settled
<1>3. OneHolds(s) => OneHolds(r)
  BY DEF SameParts, OneHolds, Candidate, Holds
<1>4. Owned(s) => Owned(r)
  BY DEF SameParts, Owned, Owns
<1>5. Away(s) => Away(r)
  BY DEF SameParts, Away
<1> QED BY <1>1, <1>2, <1>3, <1>4, <1>5

\* A handler starts with nothing sent.
LEMMA NowInv ==
    ASSUME Inv(Cur)
    PROVE  /\ Inv(Now) /\ Now.hist.sent = <<>> /\ Now.hist.lost = hist.lost
           /\ Now.hist.home = hist.home /\ StateOK(Now) /\ hist \in Histories
           /\ Now.kb = kb /\ Now.tr = tracker /\ Now.queue = queue /\ Now.gest = inGesture
<1> DEFINE h == [hist EXCEPT !.sent = <<>>]
<1>1. StateOK(Cur) /\ Cur.hist = hist /\ Cur.kb = kb /\ Cur.tr = tracker
      /\ Cur.queue = queue /\ Cur.gest = inGesture
  BY DEF Inv, Typed, Cur
<1>2. h \in Histories /\ h.sent = <<>> /\ h.home = hist.home /\ h.lost = hist.lost
      /\ hist \in Histories
  <2>1. hist \in Histories /\ <<>> \in Seq(Pointer)
    BY <1>1 DEF StateOK, States
  <2> QED BY <2>1 DEF Histories
<1>3. Now = [kb |-> kb, tr |-> tracker, queue |-> queue, gest |-> inGesture, hist |-> h]
  BY DEF Now
<1> HIDE DEF h
<1>4. /\ StateOK(Now) /\ Now.kb = kb /\ Now.tr = tracker /\ Now.queue = queue
      /\ Now.gest = inGesture /\ Now.hist = h
  BY <1>1, <1>2, <1>3 DEF StateOK, States
<1>5. SameParts(Cur, Now)
  BY <1>1, <1>2, <1>4 DEF SameParts
<1>6. Inv(Now)
  BY <1>1, <1>2, <1>4, <1>5, PartsKept DEF Inv
<1> QED BY <1>2, <1>4, <1>6

\* What every handler does.
LEMMA StepKeeps ==
    ASSUME Inv(Cur), NEW s, NEW stops, Handled(Now, s, stops), Step(s, stops)
    PROVE  Inv(Cur)'
<1> DEFINE l == (s.hist.lost \/ stops) /\ InUse(s.kb)
           h == [s.hist EXCEPT !.lost = l]
           r == [kb |-> s.kb, tr |-> s.tr, queue |-> s.queue, gest |-> s.gest, hist |-> h]
<1>1. Typed(s) /\ Settled(s) /\ OneHolds(s) /\ StateOK(s)
      /\ (~s.hist.lost /\ ~stops => Owned(s) /\ Away(s))
  BY NowInv DEF Handled, Typed
<1>2. s.hist \in Histories /\ l \in BOOLEAN
  BY <1>1 DEF StateOK, States
<1>3. ~l => Owned(s) /\ Away(s)
  <2>1. CASE InUse(s.kb)
    BY <1>1, <2>1
  <2>2. CASE ~InUse(s.kb)
    BY <2>2 DEF InUse, Owned, Away
  <2> QED BY <2>1, <2>2
<1>4. [s.hist EXCEPT !.lost = (@ \/ stops) /\ InUse(s.kb)] = h
  BY <1>2 DEF Histories
<1> HIDE DEF l
<1>5. h \in Histories /\ h.home = s.hist.home /\ h.lost = l
  BY <1>2 DEF Histories
<1>6. Cur' = r
  BY <1>4 DEF Cur, Step
<1> HIDE DEF h
<1>7. /\ StateOK(r) /\ r.kb = s.kb /\ r.tr = s.tr /\ r.queue = s.queue /\ r.gest = s.gest
      /\ r.hist = h
  BY <1>1, <1>5 DEF StateOK, States
<1> HIDE DEF r
<1>8. SameParts(s, r)
  BY <1>5, <1>7 DEF SameParts
<1>9. Inv(r)
  BY <1>1, <1>3, <1>5, <1>7, <1>8, PartsKept DEF Inv
<1> QED BY <1>6, <1>9

LEMMA StepMomentary ==
    ASSUME Inv(Cur), NEW s, NEW stops, Handled(Now, s, stops), Step(s, stops),
           kb.symbol = "CHORDING", kb'.symbol = "RELEASING", ~hist.lost, hist'.home # "none"
    PROVE  kb'.kind = hist.home
<1>1. s.hist \in Histories /\ Momentary(Now, s)
  BY DEF Handled, Typed, StateOK, States
<1>2. kb' = s.kb /\ hist'.home = s.hist.home
  BY <1>1 DEF Step, Histories
<1> QED BY <1>1, <1>2, NowInv DEF Momentary

LEMMA StepOrdered ==
    ASSUME Inv(Cur), NEW s, NEW stops, Handled(Now, s, stops), Step(s, stops)
    PROVE  Ordered(Now, hist'.sent)
<1>1. s.hist \in Histories /\ Ordered(Now, s.hist.sent)
  BY DEF Handled, Typed, StateOK, States
<1>2. hist'.sent = s.hist.sent
  BY <1>1 DEF Step, Histories
<1> QED BY <1>1, <1>2

-----------------------------------------------------------------------------
(* Every action is a handler that starts with Now.                         *)

Goes(s, stops) == Handled(Now, s, stops) /\ Step(s, stops)

LEMMA DownGoes ==
    ASSUME Inv(Cur), NEW p \in Pointer, Down(p)
    PROVE  \E s, stops : Goes(s, stops)
<1>1. Inv(Now) /\ Now.hist.sent = <<>> /\ ~Now.tr[p].down
  BY NowInv DEF Down
<1>2. PICK c \in CapsOf, key \in KeysOf(kb.kind) :
         LET s == Released(Now, key, c)
         IN \E at \in KeysAt(s.kb.kind, key) : Become(OnDownEvent(s, p, at, c), Swallows)
  BY DEF Down
<1>3. PICK at \in KeysAt(Released(Now, key, c).kb.kind, key) :
         Become(OnDownEvent(Released(Now, key, c), p, at, c), Swallows)
  BY <1>2
<1>4. ~Swallows => Unmoved(Now)
  <2>1. StateOK(Now) /\ Now.tr = tracker
    BY NowInv
  <2>2. ToSet(Now.queue) \subseteq Pointer
    BY <2>1, QueueTypes
  <2> QED BY <2>1, <2>2 DEF Swallows, Unmoved, OnSpaceBar
<1>5. Handled(Now, OnDownEvent(Released(Now, key, c), p, at, c), Swallows)
  BY <1>1, <1>4, DownHandled
<1>6. Step(OnDownEvent(Released(Now, key, c), p, at, c), Swallows)
  BY <1>3 DEF Become
<1> QED BY <1>5, <1>6 DEF Goes

LEMMA UpGoes ==
    ASSUME Inv(Cur), NEW p \in Pointer, Up(p)
    PROVE  \E s, stops : Goes(s, stops)
<1>1. Inv(Now) /\ Now.hist.sent = <<>> /\ Now.tr[p].down
  BY NowInv DEF Up
<1>2. PICK c \in CapsOf : Become([OnUpEvent(Now, p, c) EXCEPT !.tr[p].down = FALSE], Swallows)
  BY DEF Up
<1>3. ~Swallows => Unmoved(Now)
  <2>1. StateOK(Now) /\ Now.tr = tracker
    BY NowInv
  <2>2. ToSet(Now.queue) \subseteq Pointer
    BY <2>1, QueueTypes
  <2> QED BY <2>1, <2>2 DEF Swallows, Unmoved, OnSpaceBar
<1> DEFINE r == [OnUpEvent(Now, p, c) EXCEPT !.tr[p].down = FALSE]
<1>4. Handled(Now, r, Swallows)
  BY <1>1, <1>3, UpHandled
<1>5. Step(r, Swallows)
  BY <1>2 DEF Become
<1> HIDE DEF r
<1> QED BY <1>4, <1>5 DEF Goes

LEMMA LongPressGoes ==
    ASSUME Inv(Cur), NEW p \in Pointer, LongPress(p)
    PROVE  \E s, stops : Goes(s, stops)
<1>1. Inv(Now) /\ Now.hist.sent = <<>> /\ StateOK(Now) /\ Now.tr = tracker
  BY NowInv
<1> DEFINE o == [Now EXCEPT !.kb.timer = {}]
<1>2. CASE tracker[p].moved \/ tracker[p].key # "shift"
  <2>1. Handled(Now, o, FALSE)
    BY <1>1, TimerQuiet, QuietHandled
  <2>2. Step(o, FALSE)
    BY <1>2 DEF LongPress, Become
  <2> HIDE DEF o
  <2> QED BY <2>1, <2>2 DEF Goes
<1>3. CASE ~(tracker[p].moved \/ tracker[p].key # "shift")
  <2> DEFINE l == LongPressOf(Now, p)
             R(c) == Kb(l, CapsLock(l.kb, c))
  <2>1. PICK c \in Caps : Step(R(c), TRUE)
    BY <1>1, <1>3 DEF LongPress, Become, LongPressOf, CapsLock
  <2>2. Handled(Now, R(c), TRUE)
    BY <1>1, LongPressHandled
  <2> HIDE DEF R
  <2> QED BY <2>1, <2>2 DEF Goes
<1> QED BY <1>2, <1>3

LEMMA CancelGoes ==
    ASSUME Inv(Cur), NEW p \in Pointer, CancelEvent(p)
    PROVE  \E s, stops : Goes(s, stops)
<1>1. Inv(Now) /\ Now.hist.sent = <<>>
  BY NowInv
<1>2. Step(CancelOf(Now, p), TRUE)
  BY DEF CancelEvent, CancelOf, Become
<1>3. Handled(Now, CancelOf(Now, p), TRUE)
  BY <1>1, CancelHandled
<1> QED BY <1>2, <1>3 DEF Goes

LEMMA MoveGoes ==
    ASSUME Inv(Cur), NEW p \in Pointer, MoveCursor(p) \/ MoveToKey(p)
    PROVE  \E s, stops : Goes(s, stops)
<1>1. Inv(Now) /\ Now.hist.sent = <<>> /\ StateOK(Now) /\ Now.tr = tracker /\ Now.kb = kb
      /\ Now.gest = inGesture
  BY NowInv
<1>2. CASE MoveCursor(p)
  <2> DEFINE r == [Now EXCEPT !.tr[p].moved = TRUE]
  <2>1. Handled(Now, r, FALSE)
    BY <1>1, CursorQuiet, QuietHandled
  <2>2. Step(r, FALSE)
    BY <1>2 DEF MoveCursor, Become
  <2> HIDE DEF r
  <2> QED BY <2>1, <2>2 DEF Goes
<1>3. CASE MoveToKey(p)
  <2>1. PICK c \in Caps, key \in (KeysOf(kb.kind) \cup {"none"}) \ {tracker[p].key} :
           Become(Drag(Now, p, key, Always(c)), FALSE)
    BY <1>3 DEF MoveToKey
  <2>2. key \in KeysOf(Now.kb.kind) \cup {"none"}
    BY <1>1, <2>1
  <2>3. Now.tr[p].down /\ ~Now.tr[p].disabled /\ ~Now.gest
    BY <1>1, <1>3 DEF MoveToKey, Moves
  <2>4. Handled(Now, Drag(Now, p, key, Always(c)), FALSE)
    BY <1>1, <2>2, <2>3, MoveHandled
  <2>5. Step(Drag(Now, p, key, Always(c)), FALSE)
    BY <2>1 DEF Become
  <2> QED BY <2>4, <2>5 DEF Goes
<1> QED BY <1>2, <1>3

LEMMA StrokeGoes ==
    ASSUME Inv(Cur), NEW p \in Pointer, MoveInGesture(p) \/ MoveOutside(p)
    PROVE  \E s, stops : Goes(s, stops)
<1>1. Inv(Now) /\ Now.hist.sent = <<>> /\ Now.tr = tracker
  BY NowInv
<1>2. CASE MoveInGesture(p)
  <2>1. Step(GestureOf(Now, p, inGesture), TRUE)
    BY <1>1, <1>2 DEF MoveInGesture, Become, GestureOf
  <2>2. Handled(Now, GestureOf(Now, p, inGesture), TRUE)
    BY <1>1, GestureHandled
  <2> QED BY <2>1, <2>2 DEF Goes
<1>3. CASE MoveOutside(p)
  <2> DEFINE r == Drag(CancelBatchInput(Now, p), p, "none", Always(FALSE))
  <2>1. Step(r, TRUE)
    BY <1>3 DEF MoveOutside, Become
  <2>2. Now.tr[p].down
    BY <1>1, <1>3 DEF MoveOutside, Moves
  <2>3. Handled(Now, r, TRUE)
    BY <1>1, <2>2, OutsideHandled
  <2> HIDE DEF r
  <2> QED BY <2>1, <2>3 DEF Goes
<1> QED BY <1>2, <1>3

\* What comes from outside the keyboard view.
Outer == \/ DoubleTapTimeout \/ HideWindow \/ StartInput \/ RestartInput
         \/ ConfigurationChanged \/ RecreateKeyboard \/ EngineUpdatesShift

LEMMA OuterGoes ==
    ASSUME Inv(Cur), Outer
    PROVE  \E s, stops : Goes(s, stops)
<1>1. Inv(Now) /\ Now.hist.sent = <<>> /\ StateOK(Now) /\ Now.kb = kb
  BY NowInv
<1>2. ASSUME NEW s, Quiet(Now, s), Step(s, FALSE) PROVE \E t, stops : Goes(t, stops)
  BY <1>1, <1>2, QuietHandled DEF Goes
<1>3. ASSUME NEW s, Stopped(Now, s), Step(s, TRUE) PROVE \E t, stops : Goes(t, stops)
  BY <1>1, <1>3, StoppedHandled DEF Goes
<1>4. Stopped(Now, Closing(Now)) /\ StateOK(Closing(Now))
  BY <1>1, ClosingStops
<1>5. CASE DoubleTapTimeout
  BY <1>1, <1>2, <1>5, DisarmQuiet DEF DoubleTapTimeout, Become
<1>6. CASE HideWindow
  BY <1>3, <1>4, <1>6 DEF HideWindow
<1>7. CASE StartInput
  <2>1. PICK numeric \in BOOLEAN, c \in Caps : Step(Load(Closing(Now), numeric, c), TRUE)
    BY <1>7 DEF StartInput
  <2>2. Quiet(Closing(Now), Load(Closing(Now), numeric, c))
    BY <1>4, LoadedQuiet
  <2> QED BY <1>3, <1>4, <2>1, <2>2, StoppedQuiet
<1>8. CASE RestartInput
  <2> DEFINE R(n, c) == [Kb(Now, UpdateAlphabetShiftState(OnResetToAlphabet(Now.kb, n, c), c))
                            EXCEPT !.hist.home = "none"]
  <2>1. PICK numeric \in BOOLEAN, c \in Caps : Step(R(numeric, c), FALSE)
    BY <1>1, <1>8 DEF RestartInput, Become
  <2>2. Quiet(Now, R(numeric, c))
    BY <1>1, ResetQuiet
  <2> HIDE DEF R
  <2> QED BY <1>2, <2>1, <2>2
<1>9. CASE ConfigurationChanged
  <2> DEFINE r == Kb(Closing(Now), OnSaveKeyboardState(Closing(Now).kb))
  <2>1. Step(r, TRUE)
    BY <1>9 DEF ConfigurationChanged
  <2>2. Quiet(Closing(Now), r)
    BY <1>4, SavedQuiet
  <2> HIDE DEF r
  <2> QED BY <1>3, <1>4, <2>1, <2>2, StoppedQuiet
<1>10. CASE RecreateKeyboard
  <2>1. PICK c \in Caps : Step(Load(Now, kb.kind = "basic", c), FALSE)
    BY <1>10 DEF RecreateKeyboard, Become
  <2>2. (kb.kind = "basic") \in BOOLEAN
    OBVIOUS
  <2>3. Quiet(Now, Load(Now, kb.kind = "basic", c))
    BY <1>1, <2>2, LoadedQuiet
  <2> QED BY <1>2, <2>1, <2>3
<1>11. CASE EngineUpdatesShift
  <2>1. PICK c \in Caps : Step(Kb(Now, UpdateAlphabetShiftState(Now.kb, c)), FALSE)
    BY <1>1, <1>11 DEF EngineUpdatesShift, Become
  <2>2. Quiet(Now, Kb(Now, UpdateAlphabetShiftState(Now.kb, c)))
    BY <1>1, UpdateQuiet
  <2> QED BY <1>2, <2>1, <2>2
<1> QED BY <1>5, <1>6, <1>7, <1>8, <1>9, <1>10, <1>11 DEF Outer

LEMMA NextGoes ==
    ASSUME IInv, Next
    PROVE  \E s, stops : Goes(s, stops)
<1>1. Inv(Cur)
  BY DEF IInv
<1>2. CASE \E p \in Pointer : \/ Down(p) \/ Up(p) \/ LongPress(p) \/ CancelEvent(p)
                              \/ MoveCursor(p) \/ MoveToKey(p)
                              \/ MoveInGesture(p) \/ MoveOutside(p)
  BY <1>1, <1>2, DownGoes, UpGoes, LongPressGoes, CancelGoes, MoveGoes, StrokeGoes
<1>3. CASE Outer
  BY <1>1, <1>3, OuterGoes
<1> QED BY <1>2, <1>3 DEF Next, Outer

-----------------------------------------------------------------------------
(* The invariant holds at the start, and every step keeps it.              *)

LEMMA InitInv == Init => IInv
<1> SUFFICES ASSUME Init PROVE IInv
  OBVIOUS
<1>1. Idle \in Tracker
  BY DEF Idle, Tracker
<1>2. NoHistory \in Histories /\ NoHistory.lost = FALSE /\ NoHistory.home = "none"
  BY DEF NoHistory, Histories
<1>3. KeyboardOK(FreshState) /\ FreshState.timer = {} /\ FreshState.shift = "RELEASING"
      /\ FreshState.symbol = "RELEASING"
  BY FreshKeyboard DEF FreshState
<1>4. /\ StateOK(Cur) /\ Cur.kb = FreshState /\ Cur.queue = <<>> /\ Cur.gest = FALSE
      /\ Cur.hist = NoHistory /\ Cur.tr = [p \in Pointer |-> Idle]
  <2>1. /\ Cur.kb = FreshState /\ Cur.queue = <<>> /\ Cur.gest = FALSE
        /\ Cur.hist = NoHistory /\ Cur.tr = [p \in Pointer |-> Idle]
    BY DEF Init, Cur
  <2>2. FreshState \in KeyboardTypes /\ Cur.queue \in Seq(Pointer)
        /\ Cur.tr \in [Pointer -> Tracker]
    BY <1>1, <1>3, <2>1 DEF KeyboardOK
  <2>3. Cur \in States
    BY <1>2, <2>1, <2>2 DEF Cur, States, Init
  <2> QED BY <1>3, <2>1, <2>3 DEF StateOK
<1>5. ToSet(Cur.queue) = {} /\ IsInjective(Cur.queue)
  BY <1>4 DEF ToSet, IsInjective
<1>6. Typed(Cur)
  BY <1>3, <1>4, <1>5 DEF Typed
<1>7. Settled(Cur)
  BY <1>4 DEF Settled, Idle
<1>8. OneHolds(Cur) /\ Owned(Cur) /\ Away(Cur)
  BY <1>3, <1>4, <1>5 DEF OneHolds, Owned, Away, InUse
<1> QED BY <1>6, <1>7, <1>8 DEF IInv, Inv, Init

LEMMA NextInv == IInv /\ [Next]_vars => IInv'
<1> SUFFICES ASSUME IInv, [Next]_vars PROVE IInv'
  OBVIOUS
<1>1. CASE UNCHANGED vars
  <2>1. Cur' = Cur /\ shown' = shown
    BY <1>1 DEF vars, Cur
  <2> QED BY <2>1 DEF IInv
<1>2. CASE Next
  <2>1. PICK s, stops : Goes(s, stops)
    BY <1>2, NextGoes
  <2>2. Inv(Cur)'
    BY <2>1, StepKeeps DEF Goes, IInv
  <2>3. shown' \in BOOLEAN
    BY <1>2 DEF Next, IInv, Become, Down, Up, LongPress, CancelEvent, MoveCursor, MoveToKey,
                MoveInGesture, MoveOutside, DoubleTapTimeout, HideWindow, StartInput,
                RestartInput, ConfigurationChanged, RecreateKeyboard, EngineUpdatesShift
  <2> QED BY <2>2, <2>3 DEF IInv
<1> QED BY <1>1, <1>2

LEMMA Invariance == Spec => []IInv
<1> QED BY InitInv, NextInv, PTL DEF Spec

-----------------------------------------------------------------------------
(* TouchTypeOK: the trackers, the queue and the keyboard state keep their  *)
(* types, a pointer is queued at most once and while its finger is down,   *)
(* and one long press at most is timed, of a queued pointer.               *)
THEOREM TouchTypes == Spec => []TouchTypeOK
<1>1. IInv => TouchTypeOK
  <2> SUFFICES ASSUME IInv PROVE TouchTypeOK
    OBVIOUS
  <2>1. /\ Cur \in States /\ KeyboardOK(Cur.kb) /\ IsInjective(Cur.queue)
        /\ \A q \in ToSet(Cur.queue) : Cur.tr[q].down
        /\ Cur.kb.timer \subseteq ToSet(Cur.queue)
        /\ \A p, q \in Cur.kb.timer : p = q
        /\ ToSet(Cur.queue) \subseteq Pointer /\ shown \in BOOLEAN
    BY QueueTypes DEF IInv, Inv, Typed, StateOK
  <2>2. /\ Cur.kb = kb /\ Cur.tr = tracker /\ Cur.queue = queue /\ Cur.gest = inGesture
        /\ kb \in KeyboardTypes /\ tracker \in [Pointer -> Tracker] /\ inGesture \in BOOLEAN
    BY <2>1 DEF Cur, States
  <2>3. Cardinality(kb.timer) <= 1
    <3>1. CASE kb.timer = {}
      BY <3>1, FS_EmptySet
    <3>2. CASE kb.timer # {}
      <4>1. PICK p \in kb.timer : TRUE
        BY <3>2
      <4>2. kb.timer = {p}
        BY <2>1, <2>2, <4>1
      <4>3. Cardinality({p}) = 1
        BY FS_Singleton
      <4> QED BY <4>2, <4>3
    <3> QED BY <3>1, <3>2
  <2> QED BY <2>1, <2>2, <2>3 DEF TouchTypeOK, KeyboardTypes
<1> QED BY <1>1, Invariance, PTL

(* ComesBackAsShown: no sequence of keys, fields, rotations and shift      *)
(* updates hides a shift lock that the next visit to the alphabet shows,   *)
(* or leaves the symbol key with another of its two layouts to return to   *)
(* than the last one shown.                                                *)
THEOREM KeyboardComesBackAsShown == Spec => []ComesBackAsShown
<1>1. IInv => ComesBackAsShown
  <2> SUFFICES ASSUME IInv PROVE ComesBackAsShown
    OBVIOUS
  <2>1. KeyboardOK(Cur.kb) /\ Cur.kb = kb
    BY DEF IInv, Inv, Typed, StateOK, Cur
  <2> QED
    BY <2>1 DEF KeyboardOK, KeyboardTypes, LockShows, PrefersShown, ComesBackAsShown, IsAlphabet
<1> QED BY <1>1, Invariance, PTL

(* OneModifier: at most one queued finger holds shift or symbols.          *)
THEOREM OneModifierAtATime == Spec => []OneModifier
<1>1. IInv => OneModifier
  BY DEF IInv, Inv, OneHolds, Holds, Cur, OneModifier, HoldsModifier
<1> QED BY <1>1, Invariance, PTL

(* ModifiersRest: a modifier key in use has a finger that will report its  *)
(* release, unless a tracker was stopped while it was in use.              *)
THEOREM ModifiersComeToRest == Spec => []ModifiersRest
<1>1. IInv => ModifiersRest
  <2> SUFFICES ASSUME IInv, InUse(kb), ~hist.lost
               PROVE  \E p \in ToSet(queue) : ~tracker[p].disabled
                                              /\ (HoldsModifier(p) \/ tracker[p].sliding)
    BY DEF ModifiersRest
  <2>1. Owned(Cur) /\ Cur.kb = kb /\ Cur.tr = tracker /\ Cur.queue = queue
    BY DEF IInv, Inv, Cur
  <2>2. PICK key \in Modifier, q \in ToSet(queue) : Owns(Cur, q, key)
    BY <2>1 DEF Owned, InUse, Modifier
  <2> QED BY <2>1, <2>2 DEF Owns, HoldsModifier
<1> QED BY <1>1, Invariance, PTL

(* SentInPressOrder: before a finger's letter goes out, every older one in *)
(* the queue with a letter to send has sent it, in the same step.          *)
THEOREM LettersInPressOrder == Spec => SentInPressOrder
<1> DEFINE A == \A i \in DOMAIN hist'.sent :
                   LET p == hist'.sent[i] IN
                   \A q \in Older(queue, p) :
                      Contains(queue, p) /\ Pending(q) =>
                         \E j \in 1 .. (i - 1) : hist'.sent[j] = q
<1>1. IInv /\ [Next]_vars => [A]_vars
  <2> SUFFICES ASSUME IInv, Next PROVE A
    OBVIOUS
  <2>1. PICK s, stops : Goes(s, stops)
    BY NextGoes
  <2>2. Ordered(Now, hist'.sent)
    BY <2>1, StepOrdered DEF Goes, IInv
  <2>3. Now.queue = queue /\ Now.tr = tracker
    BY DEF Now
  <2>4. \A q : ToSend(tracker[q]) <=> Pending(q)
    BY DEF ToSend, Pending
  <2> QED BY <2>2, <2>3, <2>4 DEF Ordered
<1>2. SentInPressOrder <=> [][A]_vars
  BY DEF SentInPressOrder
<1> HIDE DEF A
<1> QED BY <1>1, <1>2, Invariance, PTL DEF Spec

(* SymbolsMomentary: the symbol key's release after a chord brings back    *)
(* the layout it was pressed on.                                           *)
THEOREM SymbolsAreMomentary == Spec => SymbolsMomentary
<1> DEFINE A == /\ kb.symbol = "CHORDING" /\ kb'.symbol = "RELEASING"
                /\ ~hist.lost /\ hist'.home # "none"
                => kb'.kind = hist.home
<1>1. IInv /\ [Next]_vars => [A]_vars
  <2> SUFFICES ASSUME IInv, Next PROVE A
    OBVIOUS
  <2>1. PICK s, stops : Goes(s, stops)
    BY NextGoes
  <2> QED BY <2>1, StepMomentary DEF Goes, IInv
<1>2. SymbolsMomentary <=> [][A]_vars
  BY DEF SymbolsMomentary
<1> HIDE DEF A
<1> QED BY <1>1, <1>2, Invariance, PTL DEF Spec
=============================================================================
