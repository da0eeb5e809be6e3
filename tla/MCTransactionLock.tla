------------------------- MODULE MCTransactionLock -------------------------
(***************************************************************************)
(* Small instances of TransactionLock: root processes and the owner of the *)
(* target, over the states in which the lock directories can be found.     *)
(***************************************************************************)
EXTENDS TransactionLock

CONSTANTS r1, r2, u

\* Nothing was ever locked on this host.
NothingThere == [d \in DirNames |-> "absent"]

\* The owner has locked this root before: its home directories are complete.
HomeThere ==
    [d \in DirNames |-> IF d = "global" THEN "absent" ELSE "ready"]

\* Only the root-owned parent exists.
ParentThere ==
    [d \in DirNames |-> IF d = "parent" THEN "ready" ELSE "absent"]

hostOf(privileged, waiting, rootOwned, homeUsable, dirs) ==
    [privileged |-> privileged, waiting |-> waiting, rootOwned |-> rootOwned,
     homeUsable |-> homeUsable, dirs |-> dirs]

\* Everything is in place; one root process makes it for the owner's two; the
\* owner's home is of no use; the target belongs to root.
MCHosts ==
    {hostOf({r1, r2}, {r1, u}, FALSE, TRUE, HomeThere),
     hostOf({r1}, {r1, u}, FALSE, TRUE, NothingThere),
     hostOf({r1, r2}, {r1, r2, u}, FALSE, FALSE, NothingThere),
     hostOf({r1, r2}, {r2, u}, TRUE, TRUE, NothingThere)}

\* Two root processes lock for an owner who never did.
FirstUseHosts == {hostOf({r1, r2}, {r1, r2}, FALSE, TRUE, ParentThere)}

\* One root process and the owner, with nothing in place.
FreshHosts == {hostOf({r1}, {r1, u}, FALSE, TRUE, NothingThere)}

\* The owner has used the lock before; root comes by.
UsedHosts == {hostOf({r1}, {r1, u}, FALSE, TRUE, HomeThere)}

\* Of the runs in which two processes hold the lock, one has the hosts that the
\* theorem on exclusion excepts, the other needs a call that fails.
ASSUME HostsSplit ==
    /\ \A h \in MCHosts \cup FreshHosts \cup UsedHosts : ~FirstUse(h)
    /\ \A h \in FirstUseHosts : FirstUse(h)
=============================================================================
