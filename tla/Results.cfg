SPECIFICATION Spec
CONSTANTS
    c1 = c1
    c2 = c2
    d1 = d1
    d2 = d2
    Conc <- MCConc
    Order <- MCOrder
    Reader <- MCReader
    Tag = {"baseline"}
    Layouts <- MCLayouts
    MaxEdits = 2
    MaxCrashes = 1
SYMMETRY Dashboards
INVARIANTS
    NoInventedRows
    CompleteMeansComplete
    ViewMissesOnlyRaced
    TagsKept
