SPECIFICATION Spec
CONSTANTS
    r1 = r1
    r2 = r2
    u = u
    Procs = {r1, r2, u}
    Hosts <- MCHosts
    MaxUnlinks = 1
    MaxDiversions = 1
INVARIANT OneHolder
INVARIANT SameDirectoryExclusion
