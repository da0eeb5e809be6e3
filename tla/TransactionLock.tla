-------------------------- MODULE TransactionLock --------------------------
(***************************************************************************)
(* The install-root-wide transaction lock of client/transaction_lock.zig.  *)
(*                                                                         *)
(* Every process that changes one install root resolves a lock directory,  *)
(* opens the lock file of that root in it, takes flock(2) on the file and  *)
(* checks that the file it locked is still the one the name denotes.  The  *)
(* file is never unlinked by rpmz; the environment (a cleaner, an admin)   *)
(* may unlink it whenever nobody holds the lock.  One step is one system   *)
(* call that another process can observe; a process may crash between two. *)
(*                                                                         *)
(* One target root is modelled.  A directory or a lock file is "raw"       *)
(* between its creation by a privileged process and the fchown/fchmod that *)
(* gives it the owner and mode every other process insists on.             *)
(***************************************************************************)
EXTENDS Naturals

CONSTANTS
    Procs,      \* processes that acquire the lock of this root
    Hosts,      \* the hosts and targets to consider, see HostType
    MaxUnlinks, \* bound: how often the environment unlinks the lock file
    MaxDiversions  \* bound: how often a failing call changes the way of an acquire

\* The directories the resolution walks through, and the three places a lock
\* file can end up in ("locks" is ~/.tdnf/locks, "parent" the root's own).
DirNames == {"parent", "global", "tdnf", "locks"}
LockDirs == {"parent", "global", "locks"}
DirStates == {"absent", "raw", "ready"}

\* Which processes run as root (privilegedRoot()) and which pass wait = true,
\* whether the target belongs to the system root uid, whether the owner's home
\* is one that passes the ownership checks, and the directories found on disk.
HostType ==
    [privileged : SUBSET Procs, waiting : SUBSET Procs, rootOwned : BOOLEAN,
     homeUsable : BOOLEAN, dirs : [DirNames -> DirStates]]

\* A directory that is there has the one around it: "global" is made in "parent",
\* "locks" in "tdnf".
Nested(dirs) ==
    /\ dirs["parent"] = "absent" => dirs["global"] = "absent"
    /\ dirs["tdnf"] = "absent" => dirs["locks"] = "absent"

ASSUME ConstantsAssumption ==
    /\ Hosts \subseteq HostType
    /\ \A h \in Hosts : Nested(h.dirs)
    /\ MaxUnlinks \in Nat /\ MaxDiversions \in Nat

VARIABLES
    host,     \* where this happens
    pc,       \* where each process is in acquire
    parentFd, \* the processes with parent_fd >= 0 in openDefaultTargetDirectory
    dir,      \* the lock directory a process resolved
    fd,       \* the inode its lock descriptor is open on, 0 = no descriptor
    locked,   \* the processes whose descriptor holds the exclusive flock
    node,     \* state of every directory on the way
    name,     \* the inode bound to the lock file's name in a directory, 0 = none
    owned,    \* inodes that already have the owner and mode of a lock file
    inodes,   \* inodes allocated so far (an open inode is never reused)
    unlinks,
    diversions  \* how often a failing call has sent an acquire elsewhere

procVars == <<pc, parentFd, dir, fd, locked>>
diskVars == <<host, node, name, owned, inodes, unlinks, diversions>>
vars == <<procVars, diskVars>>

Privileged == host.privileged
Waiting == host.waiting
RootOwned == host.rootOwned
HomeUsable == host.homeUsable

PCs == {"idle", "parent", "chmodParent", "global", "home", "mkGlobal",
        "chownGlobal", "tdnf", "chownTdnf", "locks", "chownLocks",
        "parentAgain", "chmodParentAgain",
        "create", "openExisting", "chownLock", "stat", "flock", "recheck",
        "pin", "held", "failed", "wouldBlock"}

TypeOK ==
    /\ host \in Hosts
    /\ pc \in [Procs -> PCs]
    /\ parentFd \subseteq Procs
    /\ dir \in [Procs -> LockDirs]
    /\ fd \in [Procs -> Nat]
    /\ locked \subseteq Procs
    /\ node \in [DirNames -> DirStates]
    /\ name \in [LockDirs -> Nat]
    /\ owned \subseteq Nat
    /\ inodes \in Nat
    /\ unlinks \in Nat
    /\ diversions \in Nat

Init ==
    /\ host \in Hosts
    /\ pc = [p \in Procs |-> "idle"]
    /\ parentFd = {}
    /\ dir = [p \in Procs |-> "parent"]
    /\ fd = [p \in Procs |-> 0]
    /\ locked = {}
    /\ node = host.dirs
    /\ name = [d \in LockDirs |-> 0]
    /\ owned = {}
    /\ inodes = 0
    /\ unlinks = 0
    /\ diversions = 0

-----------------------------------------------------------------------------
Goto(p, next) == pc' = [pc EXCEPT ![p] = next]

\* A process that is not privileged must own the target (acquireInDirectoryMode
\* returns InvalidTarget otherwise), so it never meets a root-owned target.
Start(p) ==
    /\ pc[p] = "idle"
    /\ Goto(p, IF RootOwned /\ p \notin Privileged THEN "failed" ELSE "parent")
    /\ parentFd' = parentFd \ {p}
    /\ UNCHANGED <<dir, fd, locked, diskVars>>

-----------------------------------------------------------------------------
(* Resolving the lock directory: openDefaultTargetDirectory.               *)

\* Opening an existing directory and checking owner and mode: a directory is
\* never removed, so the open and the fstat collapse into one observation.
\* mkdirat that finds the directory (EEXIST) is the same observation.
OpenReady(d) == node[d] = "ready"
MkDir(d, state) == node[d] = "absent" /\ node' = [node EXCEPT ![d] = state]

\* openRootLockParent.  Missing: only a privileged process creates it, with a
\* mode that the process's umask may have narrowed until the fchmod.
OpenParent(p, chmod, opened, lost) ==
    \/ /\ node["parent"] = "absent" /\ p \in Privileged
       /\ \E st \in {"raw", "ready"} : MkDir("parent", st)
       /\ Goto(p, chmod)
       /\ UNCHANGED <<host, parentFd, name, owned, inodes, unlinks, diversions>>
    \/ /\ node["parent"] = "absent" /\ p \notin Privileged
       /\ Goto(p, lost)
       /\ UNCHANGED <<parentFd, diskVars>>
    \/ /\ node["parent"] # "absent"
       /\ Goto(p, IF OpenReady("parent") THEN opened ELSE lost)
       /\ parentFd' = IF OpenReady("parent") THEN parentFd \cup {p} ELSE parentFd
       /\ UNCHANGED diskVars

\* The creator's fchmod, after which its own check of the mode succeeds.
ChmodParent(p, opened) ==
    /\ node' = [node EXCEPT !["parent"] = "ready"]
    /\ parentFd' = parentFd \cup {p}
    /\ Goto(p, opened)
    /\ UNCHANGED <<host, name, owned, inodes, unlinks, diversions>>

\* A root-owned target locks in the parent itself; for any other owner an
\* unusable parent is ignored here and the owner's home is tried.
AfterParent == IF RootOwned THEN "create" ELSE "global"
WithoutParent == IF RootOwned THEN "failed" ELSE "home"

ResolveParent(p) ==
    /\ \/ pc[p] = "parent" /\ OpenParent(p, "chmodParent", AfterParent, WithoutParent)
       \/ pc[p] = "chmodParent" /\ ChmodParent(p, AfterParent)
    /\ dir' = [dir EXCEPT ![p] = "parent"]
    /\ UNCHANGED <<fd, locked>>

\* openGlobalOwnerDirectoryIfExists: existing but not ready fails the acquire.
OpenGlobalIfExists(p) ==
    /\ pc[p] = "global"
    /\ Goto(p, CASE node["global"] = "absent" -> "home"
                 [] node["global"] = "raw"    -> "failed"
                 [] node["global"] = "ready"  -> "create")
    /\ dir' = [dir EXCEPT ![p] = "global"]
    /\ UNCHANGED <<parentFd, fd, locked, diskVars>>

\* A failed home resolution ends the acquire unless the process is privileged,
\* which then falls back to the global per-owner directory.
HomeFailed(p) ==
    IF p \notin Privileged THEN "failed"
    ELSE IF p \in parentFd THEN "mkGlobal" ELSE "parentAgain"

OpenHome(p) ==
    /\ pc[p] = "home"
    /\ Goto(p, IF HomeUsable THEN "tdnf" ELSE HomeFailed(p))
    /\ UNCHANGED <<parentFd, dir, fd, locked, diskVars>>

\* One of the two children of the home: opened if there, else made.  A
\* privileged process makes it root-owned and hands it over by fchown.
OpenHomeChild(p, d, chown, next) ==
    \/ /\ node[d] # "absent"
       /\ Goto(p, IF OpenReady(d) THEN next ELSE HomeFailed(p))
       /\ UNCHANGED diskVars
    \/ /\ MkDir(d, IF p \in Privileged THEN "raw" ELSE "ready")
       /\ Goto(p, IF p \in Privileged THEN chown ELSE next)
       /\ UNCHANGED <<host, name, owned, inodes, unlinks, diversions>>

Chown(p, d, next) ==
    /\ node' = [node EXCEPT ![d] = "ready"]
    /\ Goto(p, next)
    /\ UNCHANGED <<host, name, owned, inodes, unlinks, diversions>>

OpenOwnerHomeLockDirectory(p) ==
    /\ \/ pc[p] = "tdnf" /\ OpenHomeChild(p, "tdnf", "chownTdnf", "locks")
       \/ pc[p] = "chownTdnf" /\ Chown(p, "tdnf", "locks")
       \/ pc[p] = "locks" /\ OpenHomeChild(p, "locks", "chownLocks", "create")
       \/ pc[p] = "chownLocks" /\ Chown(p, "locks", "create")
    /\ dir' = [dir EXCEPT ![p] = "locks"]
    /\ UNCHANGED <<parentFd, fd, locked>>

\* The second openRootLockParent, for a process that had no parent before.
ResolveParentAgain(p) ==
    /\ \/ pc[p] = "parentAgain"
          /\ OpenParent(p, "chmodParentAgain", "mkGlobal", "failed")
       \/ pc[p] = "chmodParentAgain" /\ ChmodParent(p, "mkGlobal")
    /\ UNCHANGED <<dir, fd, locked>>

CreateGlobalOwnerDirectory(p) ==
    /\ \/ /\ pc[p] = "mkGlobal"
          /\ \/ /\ node["global"] # "absent"
                /\ Goto(p, IF OpenReady("global") THEN "create" ELSE "failed")
                /\ UNCHANGED diskVars
             \/ /\ MkDir("global", "raw")
                /\ Goto(p, "chownGlobal")
                /\ UNCHANGED <<host, name, owned, inodes, unlinks, diversions>>
       \/ pc[p] = "chownGlobal" /\ Chown(p, "global", "create")
    /\ dir' = [dir EXCEPT ![p] = "global"]
    /\ UNCHANGED <<parentFd, fd, locked>>

\* A system call fails for this process alone (no descriptor left, an I/O
\* error, a home that root may not read, an fchown that is refused): without the
\* parent, or without the home, the resolution goes on to the next directory.
\* What the process has made so far stays.  A call that fails at another place
\* ends the acquire, which is not told from a crash.
Divert(p, next) ==
    /\ Goto(p, next)
    /\ IF next = "failed" THEN UNCHANGED diversions
       ELSE diversions < MaxDiversions /\ diversions' = diversions + 1

ResolutionFails(p) ==
    /\ \/ pc[p] \in {"parent", "chmodParent"} /\ Divert(p, WithoutParent)
       \/ /\ pc[p] \in {"home", "tdnf", "chownTdnf", "locks", "chownLocks"}
          /\ Divert(p, HomeFailed(p))
    /\ UNCHANGED <<parentFd, dir, fd, locked, host, node, name, owned, inodes, unlinks>>

-----------------------------------------------------------------------------
(* The loop of openProtectedLockAt.                                        *)

\* The lock file needs an fchown when root makes it for another owner.
NeedsChown(p) == p \in Privileged /\ ~RootOwned

\* openat(O_CREAT | O_EXCL)
CreateLock(p) ==
    /\ pc[p] = "create"
    /\ IF name[dir[p]] = 0
       THEN /\ inodes' = inodes + 1
            /\ name' = [name EXCEPT ![dir[p]] = inodes + 1]
            /\ fd' = [fd EXCEPT ![p] = inodes + 1]
            /\ owned' = IF NeedsChown(p) THEN owned ELSE owned \cup {inodes + 1}
            /\ Goto(p, IF NeedsChown(p) THEN "chownLock" ELSE "stat")
       ELSE /\ Goto(p, "openExisting")
            /\ UNCHANGED <<inodes, name, fd, owned>>
    /\ UNCHANGED <<host, parentFd, dir, locked, node, unlinks, diversions>>

\* openExistingLock: the file may be gone again, which fails the acquire.
OpenExistingLock(p) ==
    /\ pc[p] = "openExisting"
    /\ Goto(p, IF name[dir[p]] = 0 THEN "failed" ELSE "stat")
    /\ fd' = [fd EXCEPT ![p] = name[dir[p]]]
    /\ UNCHANGED <<parentFd, dir, locked, diskVars>>

ChownLock(p) ==
    /\ pc[p] = "chownLock"
    /\ owned' = owned \cup {fd[p]}
    /\ Goto(p, "stat")
    /\ UNCHANGED <<host, parentFd, dir, fd, locked, node, name, inodes, unlinks, diversions>>

\* lockFileStatFd, then lockFileStatAt.  An inode that lost its name never gets
\* it back and an owned inode stays owned, so the two reads are one.
StatLock(p) ==
    /\ pc[p] = "stat"
    /\ Goto(p, IF name[dir[p]] # fd[p] THEN "create"
               ELSE IF fd[p] \notin owned THEN "failed" ELSE "flock")
    /\ fd' = [fd EXCEPT ![p] =
                IF name[dir[p]] = fd[p] /\ fd[p] \in owned THEN fd[p] ELSE 0]
    /\ UNCHANGED <<parentFd, dir, locked, diskVars>>

\* Nobody has the exclusive flock on an inode.
Unlocked(i) == \A q \in locked : fd[q] # i

\* flockForMode: a waiting process is blocked until the inode is unlocked.
FlockTake(p) ==
    /\ pc[p] = "flock"
    /\ Unlocked(fd[p])
    /\ locked' = locked \cup {p}
    /\ Goto(p, "recheck")
    /\ UNCHANGED <<parentFd, dir, fd, diskVars>>

FlockWouldBlock(p) ==
    /\ pc[p] = "flock"
    /\ p \notin Waiting
    /\ ~Unlocked(fd[p])
    /\ fd' = [fd EXCEPT ![p] = 0]
    /\ Goto(p, "wouldBlock")
    /\ UNCHANGED <<parentFd, dir, locked, diskVars>>

\* flock(LOCK_UN) and close.
Unlock(p) ==
    /\ locked' = locked \ {p}
    /\ fd' = [fd EXCEPT ![p] = 0]

\* The second lockFileStatAt: the name must still be there, denote the file
\* that was locked, and that file must be a valid lock file.
StillNamed(p) ==
    /\ name[dir[p]] # 0
    /\ name[dir[p]] = fd[p]
    /\ fd[p] \in owned

\* Mutant: the flock alone is taken for the lock, without looking again.
Recheck_Trusting(p) ==
    /\ pc[p] = "recheck"
    /\ Goto(p, "pin")
    /\ UNCHANGED <<parentFd, dir, fd, locked, diskVars>>

Recheck(p) ==
    /\ pc[p] = "recheck"
    /\ IF StillNamed(p)
       THEN Goto(p, "pin") /\ UNCHANGED <<locked, fd>>
       ELSE Goto(p, "create") /\ Unlock(p)
    /\ UNCHANGED <<parentFd, dir, diskVars>>

\* cloneWithPinnedInstallRoot[DeferredRpmDb]: may fail, and then gives the
\* lock back on the error path.
Pin(p) ==
    /\ pc[p] = "pin"
    /\ \/ Goto(p, "held") /\ UNCHANGED <<locked, fd>>
       \/ Goto(p, "failed") /\ Unlock(p)
    /\ UNCHANGED <<parentFd, dir, diskVars>>

\* Mutant: the guard is dropped without unlocking or closing.
Release_Leaks(p) ==
    /\ pc[p] = "held"
    /\ Goto(p, "idle")
    /\ UNCHANGED <<parentFd, dir, fd, locked, diskVars>>

\* Guard.deinit
Release(p) ==
    /\ pc[p] = "held"
    /\ Unlock(p)
    /\ Goto(p, "idle")
    /\ UNCHANGED <<parentFd, dir, diskVars>>

\* The caller reports the error; a later command starts over.
Return(p) ==
    /\ pc[p] \in {"failed", "wouldBlock"}
    /\ Goto(p, "idle")
    /\ fd' = [fd EXCEPT ![p] = 0]
    /\ UNCHANGED <<parentFd, dir, locked, diskVars>>

-----------------------------------------------------------------------------
\* A killed process: the kernel closes its descriptors, what it put on disk
\* stays as it is.
Crash(p) ==
    /\ pc[p] # "idle"
    /\ Unlock(p)
    /\ Goto(p, "idle")
    /\ UNCHANGED <<parentFd, dir, diskVars>>

Holding(p) == pc[p] \in {"pin", "held"}

\* The environment unlinks a lock file nobody holds, openers notwithstanding.
UnlinkLock(d) ==
    /\ unlinks < MaxUnlinks
    /\ name[d] # 0
    /\ \A p \in Procs : Holding(p) => dir[p] # d
    /\ name' = [name EXCEPT ![d] = 0]
    /\ unlinks' = unlinks + 1
    /\ UNCHANGED <<procVars, host, node, owned, inodes, diversions>>

Step(p) ==
    \/ ResolveParent(p) \/ OpenGlobalIfExists(p) \/ OpenHome(p)
    \/ OpenOwnerHomeLockDirectory(p) \/ ResolveParentAgain(p)
    \/ CreateGlobalOwnerDirectory(p)
    \/ CreateLock(p) \/ OpenExistingLock(p) \/ ChownLock(p) \/ StatLock(p)
    \/ FlockWouldBlock(p) \/ Recheck(p) \/ Pin(p) \/ Release(p) \/ Return(p)

Next ==
    \/ \E p \in Procs : Start(p) \/ Step(p) \/ FlockTake(p)
                           \/ ResolutionFails(p) \/ Crash(p)
    \/ \E d \in LockDirs : UnlinkLock(d)

\* Every process keeps running its own code; the kernel serves a waiter that
\* finds the flock free again and again.
Fairness ==
    \A p \in Procs : WF_vars(Step(p)) /\ SF_vars(FlockTake(p))

Spec == Init /\ [][Next]_vars
FairSpec == Spec /\ Fairness

-----------------------------------------------------------------------------
\* At most one process holds the lock of the install root: "Aliases and
\* different _dbpath values under one root contend" (doc/replay-api.md).
\* Acquiring is one loop of several system calls around flock, so this needs
\* the lock directory and the lock file to be the same one for everybody.
MutualExclusion ==
    \A p, q \in Procs : Holding(p) /\ Holding(q) => p = q

\* The target is another user's and its home may hold lock directories: then the
\* home and the global directory are both places that an acquire can end in.
TwoPlaces(h) == ~h.rootOwned /\ h.homeUsable

\* The hosts on which, with no call failing, resolution may still take two root
\* processes to two directories: those under ~/.tdnf are still to be made, and so
\* is the fallback, in a parent that is usable or to be made.
FirstUse(h) ==
    /\ TwoPlaces(h)
    /\ \E p, q \in h.privileged : p # q
    /\ h.dirs["parent"] # "raw" /\ h.dirs["global"] = "absent"
    /\ \/ h.dirs["tdnf"] = "absent"
       \/ h.dirs["tdnf"] = "ready" /\ h.dirs["locks"] = "absent"

\* Where an acquire can end in one place only, at most one process holds the lock
\* whatever call fails; where there are two, it takes the first use of the home
\* by two root processes, or a failing call on the way, to have two holders.
OneHolder ==
    \/ TwoPlaces(host) /\ (diversions > 0 \/ FirstUse(host))
    \/ MutualExclusion

\* Within one lock directory two processes never hold the lock together,
\* whatever the environment unlinks and wherever a process dies: this is the
\* part of the exclusion that openProtectedLockAt is responsible for.
SameDirectoryExclusion ==
    \A p, q \in Procs :
        Holding(p) /\ Holding(q) /\ dir[p] = dir[q] => p = q

\* A holder's descriptor is on the file that the lock's name denotes, with the
\* flock on it: a newcomer that opens the name meets this flock.
HolderIsNamed ==
    \A p \in Procs : Holding(p) => p \in locked /\ StillNamed(p)

\* Every acquire comes to an end: it gets the lock, fails or would block, given
\* that holders release and the environment stops unlinking the file.
AcquireEnds ==
    \A p \in Procs :
        pc[p] = "parent" ~> pc[p] \in {"held", "failed", "wouldBlock", "idle"}
=============================================================================
