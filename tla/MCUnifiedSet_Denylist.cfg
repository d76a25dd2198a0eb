SPECIFICATION Spec
CONSTANTS
    Procs = {p1, p2}
    Nodes <- MCNodes
    Majors = {5}
    Minors = {0, 1}
    Perms = {"r", "w"}
    Accesses <- AllAccesses
    MaxProgs = 2
    Envs <- MCEnvs
    Files <- MCFiles
    Requests <- MCRequests
    MaxCalls = 2
    maxIter = 2
INVARIANT FilterSameAsV1
