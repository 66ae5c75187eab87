SPECIFICATION Spec
CONSTANTS
    g1 = g1
    g2 = g2
    g3 = g3
    Goroutines <- MCGoroutines
    Short = 1
    Long = 7
    Window = 43
SYMMETRY MCSymmetry
INVARIANTS
    LimiterTypeOK
    StraysBounded
    WaitBounded
PROPERTIES
    TightSpacing
