SPECIFICATION RSpec
CONSTANTS
    p1 = p1
    p2 = p2
    p3 = p3
    a = a
    b = b
    NoProc = NoProc
    Thread <- MCThread
    Proc <- MCProc
    Name <- MCName
    NameOf <- MCNameOf
    Critical <- MCCritical
PROPERTIES
    CleanupStopsAll
