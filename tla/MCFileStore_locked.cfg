CONSTANTS
    t1 = t1  t2 = t2  t3 = t3  p1 = p1  p2 = p2
    a = a  b = b  n1 = n1  v = v  w = w  blank = blank  bad = bad
    None = None  Absent = Absent  Malformed = Malformed
    Thread = {t1, t2, t3}
    Process = {p1, p2}
    ProcOf <- MCProcOf
    LockId = {1, 2}
    Name = {a, b}
    Namespace = {n1}
    Value = {v, w, blank, bad}
    Stripped <- MCStripped
    Unencodable = {bad}
    Ops <- LockedOps
    InitContent <- SomeContent
    DirSync = TRUE
    LockFaults = {}
    MaxCalls = 3
    MaxFaults = 1
SPECIFICATION MCSpec
SYMMETRY SameProcess
INVARIANTS TypeOK OneWriter NoStaleSave AckedWriteSurvives
PROPERTIES NeverTorn LayoutKept NoEmptiedNamespace ImplementsSecretStore
