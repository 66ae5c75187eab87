SPECIFICATION FairServiceSpec
CONSTANTS
    r1 = r1
    r2 = r2
    main0 = main0
    stale0 = stale0
    None = None
    Years = {2023, 2024}
    AskYears = {2024}
    Overflows = {TRUE}
    PrewarmYears = {}
    Requests <- OneRequest
    Workers <- MCWorkers
    Main = main0
    StaleWorker = stale0
    MaxVersion = 1
    Crashes = FALSE
PROPERTIES
    RequestsAnswered
    SignalEnds
CHECK_DEADLOCK FALSE
