SPECIFICATION FairSpec
CONSTANTS
    t1 = t1
    t2 = t2
    Tasks <- MCTasks
    Schemas <- MCSchemas
    AuthConfigured = TRUE
    SurfaceHost = "minimax.io"
    MistralUsages <- MCMistralUsages
    MistralLimits <- MCMistralLimits
    CerebrasOrganizations <- MCCerebrasOrganizations
    CerebrasLimits <- MCCerebrasLimits
    CerebrasUsages <- MCCerebrasUsages
    CodeAssistAccounts <- MCCodeAssistAccounts
    OnboardOperations <- MCOnboardOperations
    GeminiBuckets <- MCGeminiBuckets
    AntigravityModels <- MCAntigravityModels
    StudioProjectIDs <- MCStudioProjectIDs
    StudioProjects <- MCStudioProjects
    StudioLimits <- MCStudioLimits
    StudioModels <- MCStudioModels
    StudioSeries <- MCStudioSeries
    CodexUsages <- MCCodexUsages
    CodexLimits <- MCCodexLimits
    InternlmStatistics <- MCInternlmStatistics
    MeituanUsages <- MCMeituanUsages
    OpenRouterActivity <- MCOpenRouterActivity
    MinimaxRemains <- MCMinimaxRemains
INVARIANTS
    ExecutedReadEverything
    AuthBlockedIffDenied
    GaugesShowLastProbe
    ReadingsAddUp
    RowsDoNotCompete
    ScarcestBucketShown
PROPERTY
    EveryProbeEnds
