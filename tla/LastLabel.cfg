SPECIFICATION Spec
CONSTANTS
    s1 = s1
    s2 = s2
    s3 = s3
    Patterns <- MCPatterns
    FieldOf <- MCFieldOf
    Labels = {"tp", "fp"}
    None = None
    Sessions = {s1, s2}
    Contents <- MCContents
    Window = 1
    MaxFindings = 3
    MaxLabels = 2
PROPERTY LastLabelIsLatest
CHECK_DEADLOCK FALSE
