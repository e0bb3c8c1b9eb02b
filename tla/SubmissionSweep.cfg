SPECIFICATION Spec
CONSTANTS
    c1 = c1
    c2 = c2
    c3 = c3
    j1 = j1
    j2 = j2
    j3 = j3
    None = None
    Edited = Edited
    Config = {c1, c2, c3}
    Job = {j1, j2, j3}
    Commands <- MCCommands
INVARIANTS
    SweepSubmitsAll
