SPECIFICATION Spec
CONSTANTS
    d1 = d1
    d2 = d2
    d3 = d3
    Open = Open
    Ids <- MCIds
    Descriptors <- MCDescriptors
    Targets <- MCTargets
    MaxRange = 3
SYMMETRY MCSymmetry
INVARIANTS
    ParserTypeOK
    DominantS1Chosen
    MostEpisodesChosen
    NothingLost
