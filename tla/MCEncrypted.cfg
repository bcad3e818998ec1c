CONSTANTS
    o1 = o1 o2 = o2 lane = lane stranger = stranger bare = bare
    a = a n1 = n1 v = v w = w bad = bad pass = pass other = other app2 = app2
    Name = {a}
    Namespace = {n1}
    Value = {v, w, bad}
    Stripped <- MCStripped
    Unencodable = {bad}
    None = None Absent = Absent Malformed = Malformed NotInt = NotInt
    Client <- MCClient
    PassOf <- MCPassOf
    BuildOf <- MCBuildOf
    App = app
    Ops <- MCOps
    InitEnvelope <- MCInitEnvelope
    Elsewhere <- MCElsewhere
    DirSync = TRUE
    MaxCalls = 2
    MaxFaults = 2
SYMMETRY Owners
SPECIFICATION Spec
INVARIANT DerivationBounded
PROPERTY OnlyAuthenticContent
PROPERTY OwnerIsNotMisled
PROPERTY KeyKept
PROPERTY KeepsPromise
CHECK_DEADLOCK FALSE
