SPECIFICATION Spec
CONSTANTS
    LLMResults <- MCLLMResults
    Fields <- MCFields
    Categories <- MCCategories
    Filters <- MCFilters
    EmptyFilter = "{}"
    FilterFields <- MCFilterFields
    SchemaResults <- MCSchemaResults
    Proposals <- FewProposals
    Configs <- DefaultConfigs
    Budget = 4
    Echoes = {FALSE}
    None = None
INVARIANT ResultFedBack
