SPECIFICATION Spec
CONSTANTS
    Slots = {c1, c2, c3}
    Limit = 2
    Window = 2
    Chunks = {1, 2}
    MaxTokens = 2
    MaxClock = 3
SYMMETRY Symm
INVARIANTS
    WindowIsExact
    OvershootIsLate
PROPERTIES
    ImplementsWindow
