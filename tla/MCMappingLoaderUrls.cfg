SPECIFICATION Spec
CONSTANTS
    u1 = u1
    u2 = u2
    Garbage = Garbage
    None = None
    Urls <- TwoUrls
    MaxVersion = 1
    Unparsable = {}
    MaxRestarts = 2
PROPERTIES
    UpToDateIsCurrent
