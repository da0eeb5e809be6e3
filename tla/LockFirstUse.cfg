SPECIFICATION Spec
CONSTANTS
    r1 = r1
    r2 = r2
    u = u
    Procs = {r1, r2}
    Hosts <- FirstUseHosts
    MaxUnlinks = 0
    MaxDiversions = 0
INVARIANT MutualExclusion
