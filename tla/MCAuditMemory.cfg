SPECIFICATION Spec
CONSTANTS
    s1 = s1
    s2 = s2
    s3 = s3
    Patterns <- MCPatterns
    FieldOf <- MCFieldOf
    Labels = {"tp", "fp"}
    None = None
    Sessions = {s1, s2, s3}
    Contents <- MCContents
    Window = 1
    MaxFindings = 1
    MaxLabels = 2
SYMMETRY SessionSymmetry
INVARIANTS
    TypeOK
    NovelFindingsAreNew
    ComparedWithHistory
    DiffAgreesWithReport
PROPERTY VerdictsReachPlanner
CHECK_DEADLOCK FALSE
