SPECIFICATION Spec
CONSTANTS
    LLMResults <- MCLLMResults
    Fields <- MCFields
    Categories <- MCCategories
    Filters <- MCFilters
    EmptyFilter = "{}"
    FilterFields <- MCFilterFields
    SchemaResults <- MCSchemaResults
    Proposals <- FewProposals
    Configs <- DroppingConfigs
    Budget = 4
    Echoes = {FALSE}
    None = None
INVARIANT FailReachesPlanner
