---------------------------- MODULE MCPublicApi ----------------------------
(***************************************************************************)
(* Every acyclic pinning of four packages (a pin is a hash of the pinned   *)
(* content, so none is cyclic) with any of them extracted, without         *)
(* disturbance; and a few checkouts, most of them with one flaw, with      *)
(* kills, a second exporting run and builds that change what they find.    *)
(***************************************************************************)
EXTENDS PublicApi

later ==
    [p \in Packages |->
        CASE p = "sqlite" -> {"tls", "libsolv", "zlib"}
          [] p = "tls" -> {"libsolv", "zlib"}
          [] p = "libsolv" -> {"zlib"}
          [] OTHER -> {}]

MCPathOf ==
    [f \in Files |-> IF f \in {"rpmz.zig", "x.h"} THEN "." ELSE "client"]

Good ==
    [paths |-> {".", "client"},
     files |-> {"rpmz.zig", "plan.zig", "resolver.zig"},
     imports |-> [f \in Files |->
                     CASE f = "rpmz.zig" -> {"plan.zig", "std", "client_root"}
                       [] f = "plan.zig" -> {"std"}
                       [] f = "resolver.zig" -> {"plan.zig", "private"}
                       [] OTHER -> {}],
     modules |-> {"std", "client_root"},
     root |-> [m \in Modules |-> IF m = "client_root" THEN {"resolver.zig"} ELSE {}],
     sealed |-> {},
     exports |-> {"replay", "resolver"}]

Trees ==
    {Good,
     [Good EXCEPT !.paths = @ \cup {"include"}],
     [Good EXCEPT !.files = @ \cup {"x.h"}],
     [Good EXCEPT !.files = @ \ {"plan.zig"}],
     [Good EXCEPT !.files = {"rpmz.zig"}],
     [Good EXCEPT !.files = @ \cup {"config.json"}],
     [Good EXCEPT !.imports["plan.zig"] = @ \cup {"resolver.zig"}],
     [Good EXCEPT !.imports["plan.zig"] = @ \cup {"private"}],
     [Good EXCEPT !.exports = {"resolver"}],
     [Good EXCEPT !.root["client_root"] = {"plan.zig"}],
     [Good EXCEPT !.sealed = {"zlib"}]}

worldOf(s, n, r, p, t, b) ==
    [script |-> s, pins |-> n, roots |-> r, present |-> p, tree |-> t,
     budget |-> b]

Shared ==
    [p \in Packages |-> IF p \in {"sqlite", "tls"} THEN {"zlib"} ELSE {}]

MCWorlds ==
    {worldOf(s, n, r, p, Good, 0) :
        s \in Scripts,
        n \in {m \in [Packages -> SUBSET Packages] :
                   \A p \in Packages : m[p] \subseteq later[p]},
        r \in {{"sqlite"}, {"sqlite", "tls"}, {"sqlite", "libsolv"}, {"tls"}},
        p \in SUBSET Packages}
    \cup {worldOf(s, Shared, {"sqlite", "tls"}, Packages, t, 2) :
            s \in Scripts, t \in Trees}
=============================================================================
