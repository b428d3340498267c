SPECIFICATION FairSpec
CONSTANTS
    LLMResults <- MCLLMResults
    Fields <- MCFields
    Categories <- MCCategories
    Filters <- MCFilters
    EmptyFilter = "{}"
    FilterFields <- MCFilterFields
    SchemaResults <- MCSchemaResults
    Proposals <- MCProposals
    Configs <- MCConfigs
    Budget = 4
    Echoes = {FALSE}
    None = None
INVARIANTS
    TypeOK
    CommittedMeetRules
    EffectsWithinBudget
    CriticalIsBroad
    DismissedAreExplained
    ConcludedHaveFindings
    NoRepeatedFilter
    SampledFirst
    FailedRunUsedItsBudget
    CritiqueIsCurrent
    TrailMatchesTrace
PROPERTIES
    FindingsKeepTheirIds
    ImplementsContract
    RunEnds
