CONSTANTS
    Pointer = {p1, p2}
    TouchKeys = {"shift", "symbol", "letter", "space"}
    Gestures = TRUE
    Caps = {TRUE, FALSE}
SYMMETRY Symmetry
SPECIFICATION Spec
INVARIANTS TouchTypeOK OneModifier ModifiersRest
PROPERTIES SentInPressOrder
