SPECIFICATION Spec
CONSTANTS
    None = None
    YearLists <- MCYearLists
    PriorLists <- MCPriorLists
    Mappings <- MCMappings
    IncludeTypes <- MCIncludeTypes
    ExcludeTags <- MCExcludeTags
    FilterFutureEnabled = TRUE
    AheadMonths = 3
    FirstDays <- MCFirstDays
    LastDays <- MCLastDays
    Months <- MCMonths
INVARIANTS
    PipelineTypeOK
    AnsweredAsMapped
    OverflowAddsOnce
    PopularityKept
    SeasonsDivideAll
PROPERTY
    OnceListedStays
