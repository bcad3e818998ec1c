CONSTANTS
    app1 = app1  app2 = app2  a = a  b = b  n1 = n1  n2 = n2
    v = v  w = w  blank = blank
    None = None  Absent = Absent  Malformed = Malformed
    App = {app1, app2}
    Name = {a, b}
    Namespace = {n1, n2}
    Value = {v, w, blank}
    Stripped <- MCStripped
    Unencodable = {}
    BlankNames = {b}
    Migrations <- Conversion
    SiblingOps <- Siblings
    InitFiles <- PlainFiles
    MaxAttempts = 1
    MaxSibling = 0
    MaxFaults = 0
SPECIFICATION MCSpec
INVARIANTS LegalMigrationCompletes
