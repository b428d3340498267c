SPECIFICATION Spec
CONSTANTS
    c1 = c1
    c2 = c2
    r1 = r1
    f1 = f1
    f2 = f2
    Clients = {c1, c2}
    Reports = {r1}
    Findings = {f1, f2}
    ReportOf <- OneReportOf
    Labels = {"fp"}
    None = None
INVARIANT MirrorAgrees
