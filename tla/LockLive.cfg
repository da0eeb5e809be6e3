SPECIFICATION FairSpec
CONSTANTS
    r1 = r1
    r2 = r2
    u = u
    Procs = {r1, u}
    Hosts <- FreshHosts
    MaxUnlinks = 1
    MaxDiversions = 1
PROPERTY AcquireEnds
