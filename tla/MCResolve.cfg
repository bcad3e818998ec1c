CONSTANTS
    t1 = t1 t2 = t2 prog = prog lib = lib sh = sh
    host = host c1 = c1 c2 = c2 auth = auth port = port bad = bad
    k = k u = u un = un v1 = v1 v2 = v2 s = s nl = nl blank = blank
    Name = {k, u, un}
    Namespace = {c1, c2}
    Value = {v1, v2, s, nl, blank}
    Stripped <- MCStripped
    Unencodable = {}
    None = None Absent = Absent Malformed = Malformed
    App = {host, c1, c2, auth}
    BadSegment = bad NotStr = notstr BlankName = blankname
    PrefixOf <- MCPrefixOf
    Thread = {t1, t2, prog}
    ProcOf <- MCProcOf
    Requests <- MCRequests
    Bindings <- MCBindings
    Environments <- MCEnvironments
    InitEnv <- MCInitEnv
    InitStores <- MCInitStores
    Edits <- MCEdits
    Git = {prog} Cli = {prog}
    GitRequests <- MCGitRequests
    CliRequests <- MCCliRequests
    Encoded <- MCEncoded
    Unwritable = {nl, un}
    Author <- MCAuthor
    MaxCalls = 2
    MaxChanges = 1
SPECIFICATION HSpec
INVARIANT FirstTierDecides
INVARIANT ComponentsApart
INVARIANT ProbedOnce
INVARIANT OrphanAnnounced
INVARIANT StoreOnlyGets
CHECK_DEADLOCK FALSE
