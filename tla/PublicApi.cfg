SPECIFICATION FairSpec
CONSTANTS
    Packages = {"sqlite", "tls", "libsolv", "zlib"}
    Lazy = {"libsolv"}
    Required = {"sqlite"}
    Scripts = {"public", "product"}
    Worlds <- MCWorlds
    Files = {"rpmz.zig", "plan.zig", "resolver.zig", "x.h", "config.json"}
    Modules = {"std", "client_root", "private"}
    PublicSources = {"rpmz.zig", "plan.zig"}
    RequiredFiles = {"rpmz.zig", "resolver.zig"}
    Generated = {"config.json"}
    Forbidden = {"x.h"}
    Exports = {"replay", "resolver"}
    PathOf <- MCPathOf
INVARIANT WalkIsExact
INVARIANT PassIsHermetic
INVARIANT ExportIsWhole
PROPERTY AuditEnds
CHECK_DEADLOCK FALSE
