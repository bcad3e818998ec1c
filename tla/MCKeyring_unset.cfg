CONSTANTS
    c1 = c1  c2 = c2  headless = headless  bare = bare
    a = a  n1 = n1  v = v  w = w  blank = blank
    None = None  Absent = Absent  Malformed = Malformed
    Client = {c1, c2}
    Headless = {}
    Bare = {}
    Name = {a}
    Namespace = {n1}
    Value = {v, w, blank}
    Stripped <- MCStripped
    Unencodable = {}
    Ops <- UnsetOps
    InitFile <- RaceFile
    MaxCalls = 2
    MaxFaults = 1
SPECIFICATION MCSpec
INVARIANTS AckedUnsetIsGone
