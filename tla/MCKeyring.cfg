CONSTANTS
    c1 = c1  c2 = c2  headless = headless  bare = bare
    a = a  n1 = n1  v = v  w = w  blank = blank
    None = None  Absent = Absent  Malformed = Malformed
    Client = {c1, c2, headless, bare}
    Headless = {headless}
    Bare = {bare}
    Name = {a}
    Namespace = {n1}
    Value = {v, w, blank}
    Stripped <- MCStripped
    Unencodable = {}
    Ops <- AllOps
    InitFile <- AnyFile
    MaxCalls = 3
    MaxFaults = 2
SPECIFICATION MCSpec
SYMMETRY SameSession
INVARIANTS NoShadowedCopy AckedWriteTakesHold AnswerIsCurrent
