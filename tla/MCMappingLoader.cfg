SPECIFICATION FairSpec
CONSTANTS
    u1 = u1
    u2 = u2
    Garbage = Garbage
    None = None
    Urls <- OneUrl
    MaxVersion = 4
    Unparsable = {2}
    MaxRestarts = 2
INVARIANTS
    MappingTypeOK
PROPERTIES
    UpToDateIsCurrent
    MappingNeverGoesBack
    MappingConverges
