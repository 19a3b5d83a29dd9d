CONSTANTS
    Pointer = {p1, p2}
    TouchKeys = {"shift", "symbol", "letter", "space", "number", "alt"}
    Gestures = FALSE
    Caps = {TRUE, FALSE}
SYMMETRY Symmetry
SPECIFICATION Spec
INVARIANT ComesBackAsShown
PROPERTIES SymbolsMomentary
