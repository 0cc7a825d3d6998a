SPECIFICATION Spec
CONSTANTS
    t1 = t1
    t2 = t2
    Tasks <- MCTasks
    Schemas <- DeclaredSchemas
    AuthConfigured = FALSE
    SurfaceHost = ""
    MistralUsages <- MCMistralUsages
    MistralLimits <- MCMistralLimits
    CerebrasOrganizations <- MCCerebrasOrganizations
    CerebrasLimits <- MCCerebrasLimits
    CerebrasUsages <- MCCerebrasUsages
    CodeAssistAccounts <- MCCodeAssistAccounts
    OnboardOperations <- MCOnboardOperations
    GeminiBuckets <- MCGeminiBuckets
    AntigravityModels <- MCAntigravityModels
    StudioProjectIDs <- MCStudioProjectIDs
    StudioProjects <- MCStudioProjects
    StudioLimits <- MCStudioLimits
    StudioModels <- MCStudioModels
    StudioSeries <- MCStudioSeries
    CodexUsages <- MCCodexUsages
    CodexLimits <- MCCodexLimits
    InternlmStatistics <- MCInternlmStatistics
    MeituanUsages <- MCMeituanUsages
    OpenRouterActivity <- MCOpenRouterActivity
    MinimaxRemains <- MCMinimaxRemains
INVARIANT
    DeclaredQuotaIsAsked
