SPECIFICATION Spec
CONSTANTS
    c1 = c1
    c2 = c2
    c3 = c3
    Contents = {c1, c2, c3}
    Edits = {e1, e2}
    Absent = Absent
    Partial = Partial
    Releases <- MCReleases
    NoPackage = NoPackage
INVARIANT EditSurvives
PROPERTY SuccessInstalls
