----------------------- MODULE TransactionLock_proofs -----------------------
(***************************************************************************)
(* For any number of processes, any mix of privileges and any state of the *)
(* lock directories: type correctness and the exclusion that the lock file *)
(* gives within one lock directory.                                        *)
(***************************************************************************)
EXTENDS TransactionLock, TLAPS

\* Moving a process to one of the program points keeps pc a function into them:
\* every step of acquireInDirectoryMode ends at one of its own statements.
LEMMA GotoType ==
    ASSUME NEW p \in Procs, NEW next \in PCs, TypeOK, Goto(p, next)
    PROVE  pc' \in [Procs -> PCs]
BY DEF TypeOK, Goto

\* Where openOwnerHomeLockDirectory and openRootLockParent lead is a program
\* point.
LEMMA BranchTargets ==
    /\ \A p \in Procs : HomeFailed(p) \in PCs
    /\ AfterParent \in PCs
    /\ WithoutParent \in PCs
BY DEF HomeFailed, AfterParent, WithoutParent, PCs

\* The type invariant is inductive by itself: every step of the directory
\* resolution and of the lock-file loop keeps descriptors and names within the
\* inodes allocated so far.
THEOREM TypeCorrect == Spec => []TypeOK
<1>1. Init => TypeOK
  BY ConstantsAssumption
  DEF Init, TypeOK, PCs, LockDirs, HostType
<1>2. TypeOK /\ [Next]_vars => TypeOK'
  <2> SUFFICES ASSUME TypeOK, [Next]_vars PROVE TypeOK'
    OBVIOUS
  <2>0. CASE UNCHANGED vars
    BY <2>0 DEF TypeOK, vars, procVars, diskVars
  <2>1. ASSUME NEW p \in Procs, Start(p) PROVE TypeOK'
    <3>1. PICK next \in PCs : Goto(p, next)
      BY <2>1, BranchTargets DEF Start, PCs
    <3>2. pc' \in [Procs -> PCs]
      BY <3>1, GotoType
    <3> QED
      BY <2>1, <3>2
      DEF TypeOK, DirNames, DirStates, LockDirs, Start, diskVars
  <2>2. ASSUME NEW p \in Procs, ResolveParent(p) PROVE TypeOK'
    <3>1. PICK next \in PCs : Goto(p, next)
      BY <2>2, BranchTargets DEF ResolveParent, OpenParent, ChmodParent, PCs
    <3>2. pc' \in [Procs -> PCs]
      BY <3>1, GotoType
    <3>3. node' \in [DirNames -> DirStates]
      BY <2>2
      DEF TypeOK, DirNames, DirStates, ResolveParent, OpenParent, ChmodParent, MkDir, diskVars
    <3> QED
      BY <2>2, <3>2, <3>3
      DEF TypeOK, DirNames, DirStates, LockDirs, ResolveParent, OpenParent, ChmodParent, MkDir, diskVars
  <2>3. ASSUME NEW p \in Procs, OpenGlobalIfExists(p) PROVE TypeOK'
    <3>1. PICK next \in PCs : Goto(p, next)
      BY <2>3, BranchTargets DEF OpenGlobalIfExists, TypeOK, DirNames, DirStates, PCs
    <3>2. pc' \in [Procs -> PCs]
      BY <3>1, GotoType
    <3> QED
      BY <2>3, <3>2
      DEF TypeOK, DirNames, DirStates, LockDirs, OpenGlobalIfExists, diskVars
  <2>4. ASSUME NEW p \in Procs, OpenHome(p) PROVE TypeOK'
    <3>1. PICK next \in PCs : Goto(p, next)
      BY <2>4, BranchTargets DEF OpenHome, PCs
    <3>2. pc' \in [Procs -> PCs]
      BY <3>1, GotoType
    <3> QED
      BY <2>4, <3>2
      DEF TypeOK, DirNames, DirStates, LockDirs, OpenHome, diskVars
  <2>5. ASSUME NEW p \in Procs, OpenOwnerHomeLockDirectory(p) PROVE TypeOK'
    <3>1. PICK next \in PCs : Goto(p, next)
      BY <2>5, BranchTargets DEF OpenOwnerHomeLockDirectory, OpenHomeChild, Chown, PCs
    <3>2. pc' \in [Procs -> PCs]
      BY <3>1, GotoType
    <3> QED
      BY <2>5, <3>2
      DEF TypeOK, DirNames, DirStates, LockDirs, OpenOwnerHomeLockDirectory, OpenHomeChild, Chown, MkDir, diskVars
  <2>6. ASSUME NEW p \in Procs, ResolveParentAgain(p) PROVE TypeOK'
    <3>1. PICK next \in PCs : Goto(p, next)
      BY <2>6, BranchTargets DEF ResolveParentAgain, OpenParent, ChmodParent, PCs
    <3>2. pc' \in [Procs -> PCs]
      BY <3>1, GotoType
    <3>3. node' \in [DirNames -> DirStates]
      BY <2>6
      DEF TypeOK, DirNames, DirStates, ResolveParentAgain, OpenParent, ChmodParent, MkDir, diskVars
    <3> QED
      BY <2>6, <3>2, <3>3
      DEF TypeOK, DirNames, DirStates, LockDirs, ResolveParentAgain, OpenParent, ChmodParent, MkDir, diskVars
  <2>7. ASSUME NEW p \in Procs, CreateGlobalOwnerDirectory(p) PROVE TypeOK'
    <3>1. PICK next \in PCs : Goto(p, next)
      BY <2>7, BranchTargets DEF CreateGlobalOwnerDirectory, Chown, PCs
    <3>2. pc' \in [Procs -> PCs]
      BY <3>1, GotoType
    <3> QED
      BY <2>7, <3>2
      DEF TypeOK, DirNames, DirStates, LockDirs, CreateGlobalOwnerDirectory, Chown, MkDir, diskVars
  <2>8. ASSUME NEW p \in Procs, CreateLock(p) PROVE TypeOK'
    <3>1. PICK next \in PCs : Goto(p, next)
      BY <2>8, BranchTargets DEF CreateLock, PCs
    <3>2. pc' \in [Procs -> PCs]
      BY <3>1, GotoType
    <3>3. fd' \in [Procs -> Nat] /\ name' \in [LockDirs -> Nat]
      BY <2>8
      DEF TypeOK, CreateLock, NeedsChown
    <3>4. inodes' \in Nat
      BY <2>8 DEF TypeOK, CreateLock
    <3>5. owned' = owned \/ owned' = owned \cup {inodes + 1}
      BY <2>8 DEF CreateLock
    <3>6. owned' \subseteq Nat
      <4>1. owned \subseteq Nat /\ inodes + 1 \in Nat
        BY DEF TypeOK
      <4> QED
        BY <3>5, <4>1
    <3> QED
      BY <2>8, <3>2, <3>3, <3>4, <3>6
      DEF TypeOK, DirNames, DirStates, LockDirs, CreateLock
  <2>9. ASSUME NEW p \in Procs, OpenExistingLock(p) PROVE TypeOK'
    <3>1. PICK next \in PCs : Goto(p, next)
      BY <2>9, BranchTargets DEF OpenExistingLock, PCs
    <3>2. pc' \in [Procs -> PCs]
      BY <3>1, GotoType
    <3> QED
      BY <2>9, <3>2
      DEF TypeOK, DirNames, DirStates, LockDirs, OpenExistingLock, diskVars
  <2>10. ASSUME NEW p \in Procs, ChownLock(p) PROVE TypeOK'
    <3>1. PICK next \in PCs : Goto(p, next)
      BY <2>10, BranchTargets DEF ChownLock, PCs
    <3>2. pc' \in [Procs -> PCs]
      BY <3>1, GotoType
    <3> QED
      BY <2>10, <3>2
      DEF TypeOK, DirNames, DirStates, LockDirs, ChownLock
  <2>11. ASSUME NEW p \in Procs, StatLock(p) PROVE TypeOK'
    <3>1. PICK next \in PCs : Goto(p, next)
      BY <2>11, BranchTargets DEF StatLock, PCs
    <3>2. pc' \in [Procs -> PCs]
      BY <3>1, GotoType
    <3> QED
      BY <2>11, <3>2
      DEF TypeOK, DirNames, DirStates, LockDirs, StatLock, diskVars
  <2>12. ASSUME NEW p \in Procs, FlockTake(p) PROVE TypeOK'
    <3>1. PICK next \in PCs : Goto(p, next)
      BY <2>12, BranchTargets DEF FlockTake, PCs
    <3>2. pc' \in [Procs -> PCs]
      BY <3>1, GotoType
    <3> QED
      BY <2>12, <3>2
      DEF TypeOK, DirNames, DirStates, LockDirs, FlockTake, diskVars
  <2>13. ASSUME NEW p \in Procs, FlockWouldBlock(p) PROVE TypeOK'
    <3>1. PICK next \in PCs : Goto(p, next)
      BY <2>13, BranchTargets DEF FlockWouldBlock, PCs
    <3>2. pc' \in [Procs -> PCs]
      BY <3>1, GotoType
    <3> QED
      BY <2>13, <3>2
      DEF TypeOK, DirNames, DirStates, LockDirs, FlockWouldBlock, diskVars
  <2>14. ASSUME NEW p \in Procs, Recheck(p) PROVE TypeOK'
    <3>1. PICK next \in PCs : Goto(p, next)
      BY <2>14, BranchTargets DEF Recheck, PCs
    <3>2. pc' \in [Procs -> PCs]
      BY <3>1, GotoType
    <3> QED
      BY <2>14, <3>2
      DEF TypeOK, DirNames, DirStates, LockDirs, Recheck, Unlock, diskVars
  <2>15. ASSUME NEW p \in Procs, Pin(p) PROVE TypeOK'
    <3>1. PICK next \in PCs : Goto(p, next)
      BY <2>15, BranchTargets DEF Pin, PCs
    <3>2. pc' \in [Procs -> PCs]
      BY <3>1, GotoType
    <3> QED
      BY <2>15, <3>2
      DEF TypeOK, DirNames, DirStates, LockDirs, Pin, Unlock, diskVars
  <2>16. ASSUME NEW p \in Procs, Release(p) PROVE TypeOK'
    <3>1. PICK next \in PCs : Goto(p, next)
      BY <2>16, BranchTargets DEF Release, PCs
    <3>2. pc' \in [Procs -> PCs]
      BY <3>1, GotoType
    <3> QED
      BY <2>16, <3>2
      DEF TypeOK, DirNames, DirStates, LockDirs, Release, Unlock, diskVars
  <2>17. ASSUME NEW p \in Procs, Return(p) PROVE TypeOK'
    <3>1. PICK next \in PCs : Goto(p, next)
      BY <2>17, BranchTargets DEF Return, PCs
    <3>2. pc' \in [Procs -> PCs]
      BY <3>1, GotoType
    <3> QED
      BY <2>17, <3>2
      DEF TypeOK, DirNames, DirStates, LockDirs, Return, diskVars
  <2>18. ASSUME NEW p \in Procs, Crash(p) PROVE TypeOK'
    <3>1. PICK next \in PCs : Goto(p, next)
      BY <2>18, BranchTargets DEF Crash, PCs
    <3>2. pc' \in [Procs -> PCs]
      BY <3>1, GotoType
    <3> QED
      BY <2>18, <3>2
      DEF TypeOK, DirNames, DirStates, LockDirs, Crash, Unlock, diskVars
  <2>19. ASSUME NEW d \in LockDirs, UnlinkLock(d) PROVE TypeOK'
    BY <2>19 DEF TypeOK, UnlinkLock, procVars
  <2>20. ASSUME NEW p \in Procs, ResolutionFails(p) PROVE TypeOK'
    <3>1. PICK next \in PCs : Divert(p, next)
      BY <2>20, BranchTargets DEF ResolutionFails
    <3>2. pc' \in [Procs -> PCs] /\ diversions' \in Nat
      BY <3>1, GotoType DEF Divert, TypeOK
    <3> QED
      BY <2>20, <3>2 DEF TypeOK, ResolutionFails
  <2> QED
    BY <2>0, <2>1, <2>2, <2>3, <2>4, <2>5, <2>6, <2>7, <2>8, <2>9, <2>10, <2>11, <2>12, <2>13, <2>14, <2>15, <2>16, <2>17, <2>18, <2>19, <2>20
    DEF Next, Step
<1> QED
  BY <1>1, <1>2, PTL DEF Spec

\* A process has the flock exactly when it is past the flock call, and no two
\* processes have it on the same file: flockForMode grants it on an unlocked inode only.
FlockDiscipline ==
    /\ \A p \in Procs : p \in locked <=> pc[p] \in {"recheck", "pin", "held"}
    /\ \A p, q \in locked : fd[p] = fd[q] => p = q

\* Exclusion is not inductive as it stands: what carries it is that a holder's
\* flock is on the named file, and that a flock excludes.
LockInv == TypeOK /\ FlockDiscipline /\ HolderIsNamed

LEMMA LockInvExcludes == LockInv => SameDirectoryExclusion
BY DEF LockInv, FlockDiscipline, HolderIsNamed, SameDirectoryExclusion,
       StillNamed, Holding, TypeOK

\* A step of the directory resolution by a process that is not past flock
\* leaves the lock file, its descriptors and the flocks alone.
LEMMA ResolutionKeeps ==
    ASSUME LockInv, NEW p \in Procs, NEW next \in PCs, Goto(p, next),
           pc[p] \notin {"recheck", "pin", "held"},
           next \notin {"recheck", "pin", "held"},
           \A q \in Procs \ {p} : dir'[q] = dir[q],
           UNCHANGED <<fd, locked, name, owned>>
    PROVE  (FlockDiscipline /\ HolderIsNamed)'
<1>1. \A q \in Procs \ {p} : pc'[q] = pc[q]
  BY DEF Goto, LockInv, TypeOK
<1>2. pc'[p] = next
  BY DEF Goto, LockInv, TypeOK
<1>3. FlockDiscipline'
  BY <1>1, <1>2 DEF LockInv, FlockDiscipline, TypeOK
<1>4. HolderIsNamed'
  BY <1>1, <1>2 DEF LockInv, HolderIsNamed, Holding, StillNamed, TypeOK
<1> QED
  BY <1>3, <1>4

\* At most one process at a time holds the lock through one lock directory,
\* for every number of processes and however often the file is unlinked.
THEOREM ExclusionWithinDirectory == Spec => []SameDirectoryExclusion
<1>1. Init => LockInv
  <2> SUFFICES ASSUME Init PROVE FlockDiscipline /\ HolderIsNamed /\ TypeOK
    BY DEF LockInv
  <2>1. TypeOK
    BY ConstantsAssumption DEF Init, TypeOK, PCs, LockDirs, HostType
  <2> QED
    BY <2>1 DEF Init, FlockDiscipline, HolderIsNamed, Holding
<1>2. LockInv /\ TypeOK' /\ [Next]_vars => LockInv'
  <2> SUFFICES ASSUME LockInv, TypeOK', [Next]_vars
               PROVE  (FlockDiscipline /\ HolderIsNamed)'
    BY DEF LockInv
  <2> USE DEF LockInv
  <2>0. CASE UNCHANGED vars
    BY <2>0 DEF FlockDiscipline, HolderIsNamed, Holding, StillNamed, vars,
                procVars, diskVars
  <2>1. ASSUME NEW p \in Procs,
               Start(p) \/ ResolveParent(p) \/ OpenGlobalIfExists(p)
                 \/ OpenHome(p) \/ OpenOwnerHomeLockDirectory(p)
                 \/ ResolveParentAgain(p) \/ CreateGlobalOwnerDirectory(p)
                 \/ ResolutionFails(p)
        PROVE  (FlockDiscipline /\ HolderIsNamed)'
    <3> DEFINE Elsewhere == PCs \ {"recheck", "pin", "held"}
    <3>1. /\ HomeFailed(p) \in Elsewhere
          /\ AfterParent \in Elsewhere
          /\ WithoutParent \in Elsewhere
      BY DEF HomeFailed, AfterParent, WithoutParent, PCs
    <3>2. CASE Start(p)
      <4>1. PICK next \in Elsewhere : Goto(p, next)
        BY <3>2 DEF Start, PCs
      <4> QED
        BY <3>2, <4>1, ResolutionKeeps DEF Start, diskVars
    <3>3. CASE ResolveParent(p)
      <4>1. PICK next \in Elsewhere : Goto(p, next)
        BY <3>1, <3>3 DEF ResolveParent, OpenParent, ChmodParent, PCs
      <4> QED
        BY <3>3, <4>1, ResolutionKeeps
        DEF ResolveParent, OpenParent, ChmodParent, MkDir, diskVars, TypeOK
    <3>4. CASE OpenGlobalIfExists(p)
      <4>1. PICK next \in Elsewhere : Goto(p, next)
        BY <3>4 DEF OpenGlobalIfExists, PCs, TypeOK, DirNames, DirStates
      <4> QED
        BY <3>4, <4>1, ResolutionKeeps DEF OpenGlobalIfExists, diskVars, TypeOK
    <3>5. CASE OpenHome(p)
      <4>1. PICK next \in Elsewhere : Goto(p, next)
        BY <3>1, <3>5 DEF OpenHome, PCs
      <4> QED
        BY <3>5, <4>1, ResolutionKeeps DEF OpenHome, diskVars
    <3>6. CASE OpenOwnerHomeLockDirectory(p)
      <4>1. PICK next \in Elsewhere : Goto(p, next)
        BY <3>1, <3>6 DEF OpenOwnerHomeLockDirectory, OpenHomeChild, Chown, PCs
      <4> QED
        BY <3>6, <4>1, ResolutionKeeps
        DEF OpenOwnerHomeLockDirectory, OpenHomeChild, Chown, MkDir, diskVars,
            TypeOK
    <3>7. CASE ResolveParentAgain(p)
      <4>1. PICK next \in Elsewhere : Goto(p, next)
        BY <3>7 DEF ResolveParentAgain, OpenParent, ChmodParent, PCs
      <4> QED
        BY <3>7, <4>1, ResolutionKeeps
        DEF ResolveParentAgain, OpenParent, ChmodParent, MkDir, diskVars
    <3>8. CASE CreateGlobalOwnerDirectory(p)
      <4>1. PICK next \in Elsewhere : Goto(p, next)
        BY <3>8 DEF CreateGlobalOwnerDirectory, Chown, PCs
      <4> QED
        BY <3>8, <4>1, ResolutionKeeps
        DEF CreateGlobalOwnerDirectory, Chown, MkDir, diskVars, TypeOK
    <3>9. CASE ResolutionFails(p)
      <4>1. PICK next \in Elsewhere : Goto(p, next)
        BY <3>1, <3>9 DEF ResolutionFails, Divert
      <4> QED
        BY <3>9, <4>1, ResolutionKeeps DEF ResolutionFails
    <3> QED
      BY <2>1, <3>2, <3>3, <3>4, <3>5, <3>6, <3>7, <3>8, <3>9
  <2>2. ASSUME NEW p \in Procs, CreateLock(p)
        PROVE  (FlockDiscipline /\ HolderIsNamed)'
    <3>1. FlockDiscipline'
      BY <2>2 DEF CreateLock, Goto, FlockDiscipline, TypeOK
    <3>2. HolderIsNamed'
      BY <2>2 DEF CreateLock, Goto, HolderIsNamed, Holding, StillNamed,
                   FlockDiscipline, TypeOK
    <3> QED
      BY <3>1, <3>2
  <2>3. ASSUME NEW p \in Procs, OpenExistingLock(p)
        PROVE  (FlockDiscipline /\ HolderIsNamed)'
    <3>1. FlockDiscipline'
      BY <2>3 DEF OpenExistingLock, diskVars, Goto, FlockDiscipline, TypeOK
    <3>2. HolderIsNamed'
      BY <2>3 DEF OpenExistingLock, diskVars, Goto, HolderIsNamed, Holding, StillNamed,
                   FlockDiscipline, TypeOK
    <3> QED
      BY <3>1, <3>2
  <2>4. ASSUME NEW p \in Procs, ChownLock(p)
        PROVE  (FlockDiscipline /\ HolderIsNamed)'
    <3>1. FlockDiscipline'
      BY <2>4 DEF ChownLock, Goto, FlockDiscipline, TypeOK
    <3>2. HolderIsNamed'
      BY <2>4 DEF ChownLock, Goto, HolderIsNamed, Holding, StillNamed,
                   FlockDiscipline, TypeOK
    <3> QED
      BY <3>1, <3>2
  <2>5. ASSUME NEW p \in Procs, StatLock(p)
        PROVE  (FlockDiscipline /\ HolderIsNamed)'
    <3>1. FlockDiscipline'
      BY <2>5 DEF StatLock, diskVars, Goto, FlockDiscipline, TypeOK
    <3>2. HolderIsNamed'
      BY <2>5 DEF StatLock, diskVars, Goto, HolderIsNamed, Holding, StillNamed,
                   FlockDiscipline, TypeOK
    <3> QED
      BY <3>1, <3>2
  <2>6. ASSUME NEW p \in Procs, FlockTake(p)
        PROVE  (FlockDiscipline /\ HolderIsNamed)'
    <3>1. FlockDiscipline'
      BY <2>6 DEF FlockTake, Unlocked, diskVars, Goto, FlockDiscipline, TypeOK
    <3>2. HolderIsNamed'
      BY <2>6 DEF FlockTake, Unlocked, diskVars, Goto, HolderIsNamed, Holding, StillNamed,
                   FlockDiscipline, TypeOK
    <3> QED
      BY <3>1, <3>2
  <2>7. ASSUME NEW p \in Procs, FlockWouldBlock(p)
        PROVE  (FlockDiscipline /\ HolderIsNamed)'
    <3>1. FlockDiscipline'
      BY <2>7 DEF FlockWouldBlock, diskVars, Goto, FlockDiscipline, TypeOK
    <3>2. HolderIsNamed'
      BY <2>7 DEF FlockWouldBlock, diskVars, Goto, HolderIsNamed, Holding, StillNamed,
                   FlockDiscipline, TypeOK
    <3> QED
      BY <3>1, <3>2
  <2>8. ASSUME NEW p \in Procs, Recheck(p)
        PROVE  (FlockDiscipline /\ HolderIsNamed)'
    <3>1. FlockDiscipline'
      BY <2>8 DEF Recheck, Unlock, diskVars, Goto, FlockDiscipline, TypeOK
    <3>2. HolderIsNamed'
      BY <2>8 DEF Recheck, Unlock, diskVars, Goto, HolderIsNamed, Holding, StillNamed,
                   FlockDiscipline, TypeOK
    <3> QED
      BY <3>1, <3>2
  <2>9. ASSUME NEW p \in Procs, Pin(p)
        PROVE  (FlockDiscipline /\ HolderIsNamed)'
    <3>1. FlockDiscipline'
      BY <2>9 DEF Pin, Unlock, diskVars, Goto, FlockDiscipline, TypeOK
    <3>2. HolderIsNamed'
      BY <2>9 DEF Pin, Unlock, diskVars, Goto, HolderIsNamed, Holding, StillNamed,
                   FlockDiscipline, TypeOK
    <3> QED
      BY <3>1, <3>2
  <2>10. ASSUME NEW p \in Procs, Release(p)
        PROVE  (FlockDiscipline /\ HolderIsNamed)'
    <3>1. FlockDiscipline'
      BY <2>10 DEF Release, Unlock, diskVars, Goto, FlockDiscipline, TypeOK
    <3>2. HolderIsNamed'
      BY <2>10 DEF Release, Unlock, diskVars, Goto, HolderIsNamed, Holding, StillNamed,
                   FlockDiscipline, TypeOK
    <3> QED
      BY <3>1, <3>2
  <2>11. ASSUME NEW p \in Procs, Return(p)
        PROVE  (FlockDiscipline /\ HolderIsNamed)'
    <3>1. FlockDiscipline'
      BY <2>11 DEF Return, diskVars, Goto, FlockDiscipline, TypeOK
    <3>2. HolderIsNamed'
      BY <2>11 DEF Return, diskVars, Goto, HolderIsNamed, Holding, StillNamed,
                   FlockDiscipline, TypeOK
    <3> QED
      BY <3>1, <3>2
  <2>12. ASSUME NEW p \in Procs, Crash(p)
        PROVE  (FlockDiscipline /\ HolderIsNamed)'
    <3>1. FlockDiscipline'
      BY <2>12 DEF Crash, Unlock, diskVars, Goto, FlockDiscipline, TypeOK
    <3>2. HolderIsNamed'
      BY <2>12 DEF Crash, Unlock, diskVars, Goto, HolderIsNamed, Holding, StillNamed,
                   FlockDiscipline, TypeOK
    <3> QED
      BY <3>1, <3>2
  <2>13. ASSUME NEW d \in LockDirs, UnlinkLock(d)
         PROVE  (FlockDiscipline /\ HolderIsNamed)'
    BY <2>13 DEF UnlinkLock, FlockDiscipline, HolderIsNamed, Holding, StillNamed,
                  TypeOK, procVars
  <2> QED
    BY <2>0, <2>1, <2>2, <2>3, <2>4, <2>5, <2>6, <2>7, <2>8, <2>9, <2>10, <2>11, <2>12, <2>13
    DEF Next, Step
<1> QED
  BY <1>1, <1>2, TypeCorrect, LockInvExcludes, PTL DEF Spec

-----------------------------------------------------------------------------
(* Exclusion over the whole install root: all processes resolve the same   *)
(* lock directory.  First for acquires that no failing call has diverted   *)
(* and hosts that are not in the first use of an owner's home.             *)

\* The program points past openDefaultTargetDirectory, those of the owner's
\* home and those of the privileged fallback.
Resolved == {"create", "openExisting", "chownLock", "stat", "flock", "recheck",
             "pin", "held"}
InHome == {"home", "tdnf", "chownTdnf", "locks", "chownLocks"}
InGlobal == {"parentAgain", "chmodParentAgain", "mkGlobal", "chownGlobal"}

\* What is on the disk at a point of the resolution that one process reached.
Route(p) ==
    /\ RootOwned => pc[p] \notin {"global"} \cup InHome \cup InGlobal
    /\ pc[p] \in Resolved =>
          /\ RootOwned => dir[p] = "parent"
          /\ ~RootOwned => dir[p] \in {"global", "locks"}
          /\ dir[p] = "locks" =>
                HomeUsable /\ OpenReady("tdnf") /\ OpenReady("locks")
          /\ dir[p] = "global" => node["global"] # "absent"
    /\ pc[p] \in InHome \ {"home"} => HomeUsable
    /\ pc[p] \in {"locks", "chownLocks"} => OpenReady("tdnf")
    /\ pc[p] \in InGlobal => p \in Privileged
    /\ pc[p] = "chownGlobal" => node["global"] # "absent"

\* A process that is about to fchmod or fchown a directory made it: the host did
\* not have it.
Creating(p) ==
    /\ pc[p] \in {"chmodParent", "chmodParentAgain"} =>
          host.dirs["parent"] = "absent" /\ node["parent"] # "absent"
    /\ pc[p] = "chownGlobal" => host.dirs["global"] = "absent"
    /\ pc[p] = "chownTdnf" =>
          host.dirs["tdnf"] = "absent" /\ node["tdnf"] # "absent" /\ p \in Privileged
    /\ pc[p] = "chownLocks" =>
          host.dirs["locks"] = "absent" /\ node["locks"] # "absent" /\ p \in Privileged

\* What the host had is never touched: openOrCreate only makes what is missing.
HostDirsKept ==
    \A d \in DirNames : host.dirs[d] # "absent" => node[d] = host.dirs[d]

\* With a parent nobody accepts, only the owner's home is left.
ParentUseless(p) ==
    host.dirs["parent"] = "raw" =>
        /\ p \notin parentFd
        /\ pc[p] \notin {"global", "mkGlobal", "chownGlobal"}
        /\ pc[p] \in Resolved /\ ~RootOwned => dir[p] = "locks"

\* A global directory that the host has is where everybody ends.
GlobalGiven(p) ==
    ~RootOwned /\ host.dirs["parent"] = "ready" /\ host.dirs["global"] # "absent" =>
        /\ pc[p] \notin InHome \cup InGlobal
        /\ pc[p] \in Resolved => dir[p] = "global"

\* The home can no longer become a lock directory: a child of it was left
\* without its owner and nobody is about to hand it over.
HomeStuck ==
    \/ ~HomeUsable
    \/ node["tdnf"] = "raw" /\ \A p \in Procs : pc[p] # "chownTdnf"
    \/ node["locks"] = "raw" /\ \A p \in Procs : pc[p] # "chownLocks"

\* The fallback to the global directory is taken only once the home is lost.
FallbackIsLast ==
    \/ RootOwned \/ host.dirs["parent"] = "raw" \/ host.dirs["global"] # "absent"
    \/ node["global"] = "absent" /\ \A p \in Procs : pc[p] \notin InGlobal
    \/ HomeStuck

RouteInv ==
    /\ \A p \in Procs :
          Route(p) /\ Creating(p) /\ ParentUseless(p) /\ GlobalGiven(p)
    /\ HostDirsKept
    /\ FallbackIsLast

OneDirectory ==
    \A p, q \in Procs :
        pc[p] \in Resolved /\ pc[q] \in Resolved => dir[p] = dir[q]

LEMMA HostFacts ==
    ASSUME TypeOK
    PROVE  /\ host.dirs \in [DirNames -> DirStates] /\ Nested(host.dirs)
           /\ host.rootOwned \in BOOLEAN /\ host.homeUsable \in BOOLEAN
<1>1. host \in HostType /\ Nested(host.dirs)
  BY ConstantsAssumption DEF TypeOK
<1> QED
  BY <1>1 DEF HostType

\* A directory is only ever made, or handed over by the one who made it.
Grown ==
    \A d \in DirNames :
        /\ node[d] = "ready" => node'[d] = "ready"
        /\ node[d] # "absent" => node'[d] # "absent"

\* What holds of a process goes on to hold while another one resolves.
LEMMA OthersKeep ==
    ASSUME TypeOK, RouteInv, NEW q \in Procs, Grown,
           pc'[q] = pc[q], dir'[q] = dir[q], host' = host,
           q \in parentFd' => q \in parentFd
    PROVE  (Route(q) /\ Creating(q) /\ ParentUseless(q) /\ GlobalGiven(q))'
<1>1. Route(q) /\ Creating(q) /\ ParentUseless(q) /\ GlobalGiven(q)
  BY DEF RouteInv
<1> USE DEF Grown, DirNames, RootOwned, HomeUsable, Privileged
<1>2. Route(q)'
  BY <1>1 DEF Route, OpenReady
<1>3. Creating(q)'
  BY <1>1 DEF Creating
<1>4. ParentUseless(q)' /\ GlobalGiven(q)'
  BY <1>1 DEF ParentUseless, GlobalGiven
<1> QED
  BY <1>2, <1>3, <1>4

\* The lock-file loop leaves the directories alone and never goes back to their
\* resolution.
LEMMA LoopKeeps ==
    ASSUME TypeOK, RouteInv, NEW p \in Procs, NEW next \in PCs, Goto(p, next),
           next \notin Resolved => next \in {"idle", "failed", "wouldBlock"},
           next \in Resolved => pc[p] \in Resolved,
           UNCHANGED <<host, dir, node, parentFd>>
    PROVE  RouteInv'
<1>0. pc'[p] = next /\ \A q \in Procs \ {p} : pc'[q] = pc[q]
  BY DEF Goto, TypeOK
<1>1. ASSUME NEW q \in Procs
      PROVE  (Route(q) /\ Creating(q) /\ ParentUseless(q) /\ GlobalGiven(q))'
  <2>1. CASE q # p
    BY <1>0, <2>1, OthersKeep DEF Grown
  <2>2. CASE q = p
    <3>1. Route(p) /\ ParentUseless(p) /\ GlobalGiven(p)
      BY DEF RouteInv
    <3>2. next \notin {"global", "chmodParent"} \cup InHome \cup InGlobal
      BY DEF Resolved, InHome, InGlobal
    <3> USE DEF RootOwned, HomeUsable, Privileged
    <3>3. Route(p)'
      BY <1>0, <3>1, <3>2 DEF Route, OpenReady, InHome, InGlobal
    <3>4. Creating(p)'
      BY <1>0, <3>2 DEF Creating, InHome, InGlobal
    <3>5. ParentUseless(p)' /\ GlobalGiven(p)'
      BY <1>0, <3>1, <3>2 DEF ParentUseless, GlobalGiven, InGlobal
    <3> QED
      BY <2>2, <3>3, <3>4, <3>5
  <2> QED
    BY <2>1, <2>2
<1>2. HostDirsKept'
  BY DEF RouteInv, HostDirsKept
<1>3. FallbackIsLast'
  <2>1. next \notin InHome \cup InGlobal
    BY DEF Resolved, InHome, InGlobal
  <2>2. FallbackIsLast
    BY DEF RouteInv
  <2>3. HomeStuck => HomeStuck'
    BY <1>0, <2>1 DEF HomeStuck, HomeUsable, InHome
  <2> QED
    BY <1>0, <2>1, <2>2, <2>3 DEF FallbackIsLast, RootOwned
<1> QED
  BY <1>1, <1>2, <1>3 DEF RouteInv

\* What the host had decides for everybody; where it had nothing, either the home
\* is lost to all or nobody took the fallback.
LEMMA OneDirectoryFromRoutes ==
    ASSUME TypeOK, RouteInv PROVE OneDirectory
<1> SUFFICES ASSUME NEW p \in Procs, NEW q \in Procs,
                    pc[p] \in Resolved, pc[q] \in Resolved
             PROVE  dir[p] = dir[q]
  BY DEF OneDirectory
<1>0. /\ Route(p) /\ ParentUseless(p) /\ GlobalGiven(p)
      /\ Route(q) /\ ParentUseless(q) /\ GlobalGiven(q)
      /\ FallbackIsLast
  BY DEF RouteInv
<1>1. host.dirs \in [DirNames -> DirStates] /\ Nested(host.dirs)
  BY HostFacts
<1>2. CASE RootOwned
  BY <1>0, <1>2 DEF Route
<1>3. CASE ~RootOwned /\ host.dirs["parent"] = "raw"
  BY <1>0, <1>3 DEF ParentUseless
<1>4. CASE ~RootOwned /\ host.dirs["parent"] # "raw" /\ host.dirs["global"] # "absent"
  <2>1. host.dirs["parent"] = "ready"
    BY <1>1, <1>4 DEF Nested, DirNames, DirStates
  <2> QED
    BY <1>0, <1>4, <2>1 DEF GlobalGiven
<1>5. CASE ~RootOwned /\ host.dirs["parent"] # "raw" /\ host.dirs["global"] = "absent"
  <2>1. CASE HomeStuck
    <3>1. ~(HomeUsable /\ OpenReady("tdnf") /\ OpenReady("locks"))
      BY <2>1 DEF HomeStuck, OpenReady
    <3> QED
      BY <1>0, <1>5, <3>1 DEF Route
  <2>2. CASE node["global"] = "absent"
    BY <1>0, <1>5, <2>2 DEF Route
  <2> QED
    BY <1>0, <1>5, <2>1, <2>2 DEF FallbackIsLast
<1> QED
  BY <1>2, <1>3, <1>4, <1>5

\* A home that is lost stays lost: nobody hands over a directory it did not make.
LEMMA StuckStays ==
    ASSUME TypeOK, NEW p \in Procs, NEW next \in PCs, Goto(p, next), host' = host,
           next = "chownTdnf" => node["tdnf"] = "absent",
           next = "chownLocks" => node["locks"] = "absent",
           node["tdnf"] = "raw" /\ pc[p] # "chownTdnf" => node'["tdnf"] = "raw",
           node["locks"] = "raw" /\ pc[p] # "chownLocks" => node'["locks"] = "raw",
           HomeStuck
    PROVE  HomeStuck'
<1>0. pc'[p] = next /\ \A q \in Procs \ {p} : pc'[q] = pc[q]
  BY DEF Goto, TypeOK
<1> QED
  BY <1>0 DEF HomeStuck, HomeUsable

\* The fallback stays the last resort when the step that enters it, or makes the
\* global directory, is taken with the home lost.
LEMMA FallbackKept ==
    ASSUME TypeOK, RouteInv, NEW p \in Procs, NEW next \in PCs, Goto(p, next),
           host' = host, HomeStuck => HomeStuck',
           node'["global"] = node["global"] \/ pc[p] \in InGlobal,
           next \in InGlobal =>
               pc[p] \in InGlobal \/ HomeStuck \/ RootOwned
               \/ host.dirs["parent"] = "raw" \/ host.dirs["global"] # "absent"
    PROVE  FallbackIsLast'
<1>0. pc'[p] = next /\ \A q \in Procs \ {p} : pc'[q] = pc[q]
  BY DEF Goto, TypeOK
<1>1. FallbackIsLast
  BY DEF RouteInv
<1> QED
  BY <1>0, <1>1 DEF FallbackIsLast, RootOwned

\* A process that finds a home directory without its owner, on a host that is not
\* in its first use, finds it so for good: its maker, the only other process that
\* could be root, is gone.
LEMMA RawMeansStuck ==
    ASSUME TypeOK, RouteInv, ~FirstUse(host), NEW p \in Procs, p \in Privileged,
           NEW d \in {"tdnf", "locks"}, pc[p] = d, node[d] = "raw"
    PROVE  \/ HomeStuck \/ RootOwned
           \/ host.dirs["parent"] = "raw" \/ host.dirs["global"] # "absent"
<1> SUFFICES ASSUME ~HomeStuck, ~RootOwned, host.dirs["parent"] # "raw",
                    host.dirs["global"] = "absent"
             PROVE  FALSE
  OBVIOUS
<1>0. host.dirs \in [DirNames -> DirStates] /\ Nested(host.dirs)
  BY HostFacts
<1>1. HomeUsable
  BY DEF HomeStuck
<1>2. CASE d = "tdnf"
  <2>1. PICK q \in Procs : pc[q] = "chownTdnf"
    BY <1>2 DEF HomeStuck
  <2>2. q \in Privileged /\ host.dirs["tdnf"] = "absent" /\ q # p
    BY <1>2, <2>1 DEF RouteInv, Creating
  <2> QED
    BY <1>1, <2>2 DEF FirstUse, TwoPlaces, RootOwned, HomeUsable, Privileged
<1>3. CASE d = "locks"
  <2>1. PICK q \in Procs : pc[q] = "chownLocks"
    BY <1>3 DEF HomeStuck
  <2>2. q \in Privileged /\ host.dirs["locks"] = "absent" /\ q # p
    BY <1>3, <2>1 DEF RouteInv, Creating
  <2>3. node["tdnf"] = "ready"
    BY <1>3 DEF RouteInv, Route, OpenReady
  <2>4. host.dirs["tdnf"] \in {"absent", "ready"}
    BY <1>0, <2>3 DEF RouteInv, HostDirsKept, DirNames, DirStates
  <2> QED
    BY <1>1, <2>2, <2>4 DEF FirstUse, TwoPlaces, RootOwned, HomeUsable, Privileged
<1> QED
  BY <1>2, <1>3

\* A step of the resolution, put together from what it does to the disk and to
\* the process that takes it.
LEMMA ResolutionStep ==
    ASSUME TypeOK, RouteInv, NEW p \in Procs, NEW next \in PCs, Goto(p, next),
           host' = host, Grown, parentFd' \subseteq parentFd \cup {p},
           \A q \in Procs \ {p} : dir'[q] = dir[q],
           (Route(p) /\ Creating(p) /\ ParentUseless(p) /\ GlobalGiven(p))',
           HostDirsKept', FallbackIsLast'
    PROVE  RouteInv'
<1>1. \A q \in Procs \ {p} : pc'[q] = pc[q]
  BY DEF Goto, TypeOK
<1>2. ASSUME NEW q \in Procs \ {p}
      PROVE  (Route(q) /\ Creating(q) /\ ParentUseless(q) /\ GlobalGiven(q))'
  BY <1>1, <1>2, OthersKeep
<1> QED
  BY <1>2 DEF RouteInv

\* Starting over says nothing about the directories yet.
LEMMA StartKeeps ==
    ASSUME TypeOK, RouteInv, NEW p \in Procs, Start(p) PROVE RouteInv'
<1>1. PICK next \in {"failed", "parent"} : Goto(p, next)
  BY DEF Start
<1>2. next \in PCs
  BY DEF PCs
<1>3. /\ pc'[p] = next /\ UNCHANGED <<host, node, dir>>
      /\ parentFd' = parentFd \ {p}
  BY <1>1 DEF Start, Goto, TypeOK, diskVars
<1>4. Grown
  BY <1>3 DEF Grown
<1>5. HostDirsKept'
  BY <1>3 DEF RouteInv, HostDirsKept
<1>6. (Route(p) /\ Creating(p) /\ ParentUseless(p) /\ GlobalGiven(p))'
  BY <1>3 DEF Route, Creating, ParentUseless, GlobalGiven, InHome, InGlobal,
              Resolved, RootOwned, HomeUsable, Privileged
<1>7. FallbackIsLast'
  BY <1>1, <1>2, <1>3, FallbackKept, StuckStays DEF InGlobal
<1> QED
  BY <1>1, <1>2, <1>3, <1>4, <1>5, <1>6, <1>7, ResolutionStep

\* Opening or making the root lock parent, the first time.
LEMMA ResolveParentKeeps ==
    ASSUME TypeOK, RouteInv, NEW p \in Procs, ResolveParent(p) PROVE RouteInv'
<1>0. host.dirs \in [DirNames -> DirStates] /\ Nested(host.dirs)
  BY HostFacts
<1>1. PICK next \in {"chmodParent", AfterParent, WithoutParent} : Goto(p, next)
  BY DEF ResolveParent, OpenParent, ChmodParent
<1>2. next \in PCs
  BY DEF PCs, AfterParent, WithoutParent
<1>3. /\ pc'[p] = next /\ host' = host /\ dir' = [dir EXCEPT ![p] = "parent"]
      /\ \A d \in DirNames \ {"parent"} : node'[d] = node[d]
      /\ pc[p] \in {"parent", "chmodParent"}
  BY <1>1 DEF ResolveParent, OpenParent, ChmodParent, MkDir, Goto, TypeOK, diskVars
<1>4. /\ node["parent"] # "absent" => node'["parent"] # "absent"
      /\ node["parent"] = "ready" => node'["parent"] = "ready"
      /\ node'["parent"] # node["parent"] =>
            node["parent"] = "absent" \/ pc[p] = "chmodParent"
  BY DEF ResolveParent, OpenParent, ChmodParent, MkDir, TypeOK, DirNames, diskVars
<1>5. Grown
  BY <1>3, <1>4 DEF Grown
<1>6. HostDirsKept'
  BY <1>3, <1>4 DEF RouteInv, HostDirsKept, Creating
<1>7. /\ parentFd' \subseteq parentFd \cup {p}
      /\ next = "chmodParent" => node["parent"] = "absent" /\ node'["parent"] # "absent"
      /\ next = AfterParent /\ next # "chmodParent" => node'["parent"] = "ready"
      /\ p \in parentFd' => p \in parentFd \/ node'["parent"] = "ready"
      /\ next \notin {"chmodParent", AfterParent} => node["parent"] # "ready"
  <2>1. CASE pc[p] = "parent"
    BY <1>1, <1>3, <2>1
    DEF ResolveParent, OpenParent, OpenReady, MkDir, AfterParent, WithoutParent,
        TypeOK, DirNames, DirStates, diskVars, Goto
  <2>2. CASE pc[p] = "chmodParent"
    BY <1>1, <1>3, <2>2
    DEF ResolveParent, ChmodParent, AfterParent, WithoutParent, Goto,
        TypeOK, DirNames, DirStates
  <2> QED
    BY <1>3, <2>1, <2>2
<1>8. /\ host.dirs["parent"] = "raw" => node'["parent"] = "raw"
      /\ host.dirs["parent"] = "ready" => node["parent"] = "ready"
  BY <1>6, <1>3 DEF RouteInv, HostDirsKept, DirNames
<1>9. /\ next \in {"chmodParent", "create", "global", "failed", "home"}
      /\ next = "create" <=> RootOwned /\ next = AfterParent
      /\ next \in {"global", "home"} => ~RootOwned
      /\ next = "home" => next \notin {"chmodParent", AfterParent}
  BY <1>1 DEF AfterParent, WithoutParent
<1>10. Route(p)'
  BY <1>3, <1>9 DEF Route, InHome, InGlobal, Resolved, RootOwned, HomeUsable,
                    Privileged, TypeOK
<1>11. Creating(p)'
  <2>1. node["parent"] = "absent" => host.dirs["parent"] = "absent"
    BY <1>0 DEF RouteInv, HostDirsKept, DirNames
  <2> QED
    BY <1>3, <1>7, <1>9, <2>1 DEF Creating
<1>12. ParentUseless(p)'
  <2>1. ParentUseless(p)
    BY DEF RouteInv
  <2> QED
    BY <1>3, <1>7, <1>8, <1>9, <2>1
    DEF ParentUseless, AfterParent, RootOwned, Resolved
<1>13. GlobalGiven(p)'
  BY <1>3, <1>7, <1>8, <1>9 DEF GlobalGiven, InHome, InGlobal, Resolved, RootOwned
<1>14. FallbackIsLast'
  <2>1. HomeStuck => HomeStuck'
    BY <1>1, <1>2, <1>3, <1>9, StuckStays DEF DirNames
  <2> QED
    BY <1>1, <1>2, <1>3, <1>9, <2>1, FallbackKept DEF InGlobal, DirNames
<1>15. \A q \in Procs \ {p} : dir'[q] = dir[q]
  BY <1>3 DEF TypeOK
<1> QED
  BY <1>1, <1>2, <1>3, <1>5, <1>6, <1>7, <1>10, <1>11, <1>12, <1>13, <1>14,
     <1>15, ResolutionStep

\* Looking for the global directory of the owner.
LEMMA OpenGlobalKeeps ==
    ASSUME TypeOK, RouteInv, NEW p \in Procs, OpenGlobalIfExists(p) PROVE RouteInv'
<1>0. host.dirs \in [DirNames -> DirStates] /\ Nested(host.dirs)
  BY HostFacts
<1>1. PICK next \in {"home", "failed", "create"} :
         /\ Goto(p, next)
         /\ next = "home" => node["global"] = "absent"
         /\ next = "create" => node["global"] = "ready"
  BY DEF OpenGlobalIfExists, TypeOK, DirNames, DirStates
<1>2. next \in PCs
  BY DEF PCs
<1>3. /\ pc'[p] = next /\ UNCHANGED <<host, node, parentFd>>
      /\ dir' = [dir EXCEPT ![p] = "global"] /\ pc[p] = "global"
  BY <1>1 DEF OpenGlobalIfExists, Goto, TypeOK, diskVars
<1>4. Grown /\ HostDirsKept'
  BY <1>3 DEF Grown, RouteInv, HostDirsKept
<1>5. Route(p) /\ ParentUseless(p) /\ HostDirsKept
  BY DEF RouteInv
<1>6. Route(p)' /\ Creating(p)'
  BY <1>1, <1>3, <1>5 DEF Route, Creating, InHome, InGlobal, Resolved, RootOwned,
                         HomeUsable, Privileged, TypeOK
<1>7. ParentUseless(p)' /\ GlobalGiven(p)'
  BY <1>1, <1>3, <1>5 DEF ParentUseless, GlobalGiven, InHome, InGlobal, Resolved,
                         RootOwned, TypeOK, HostDirsKept, DirNames
<1>8. FallbackIsLast'
  BY <1>1, <1>2, <1>3, FallbackKept, StuckStays DEF InGlobal
<1>9. \A q \in Procs \ {p} : dir'[q] = dir[q]
  BY <1>3 DEF TypeOK
<1> QED
  BY <1>1, <1>2, <1>3, <1>4, <1>6, <1>7, <1>8, <1>9, ResolutionStep

\* Where a failed home leads a process is the fallback for root and the end of the
\* acquire for everybody else.
LEMMA HomeFailedTargets ==
    ASSUME NEW p \in Procs
    PROVE  /\ HomeFailed(p) \in {"failed", "mkGlobal", "parentAgain"}
           /\ HomeFailed(p) \in InGlobal => p \in Privileged
           /\ HomeFailed(p) = "mkGlobal" => p \in parentFd
BY DEF HomeFailed, InGlobal

\* Looking for the home of the owner.
LEMMA OpenHomeKeeps ==
    ASSUME TypeOK, RouteInv, NEW p \in Procs, OpenHome(p) PROVE RouteInv'
<1>1. PICK next \in {"tdnf", HomeFailed(p)} :
         /\ Goto(p, next)
         /\ next = "tdnf" => HomeUsable
         /\ next # "tdnf" => ~HomeUsable /\ next = HomeFailed(p)
  BY HomeFailedTargets DEF OpenHome
<1>2. next \in PCs
  BY <1>1, HomeFailedTargets DEF PCs
<1>3. /\ pc'[p] = next /\ UNCHANGED <<host, node, parentFd, dir>> /\ pc[p] = "home"
  BY <1>1 DEF OpenHome, Goto, TypeOK, diskVars
<1>4. Grown /\ HostDirsKept'
  BY <1>3 DEF Grown, RouteInv, HostDirsKept
<1>5. Route(p) /\ ParentUseless(p) /\ GlobalGiven(p)
  BY DEF RouteInv
<1>6. /\ next \in {"tdnf", "failed", "mkGlobal", "parentAgain"}
      /\ next \in InGlobal => p \in Privileged
      /\ next = "mkGlobal" => p \in parentFd
  BY <1>1, HomeFailedTargets DEF InGlobal
<1>7. Route(p)' /\ Creating(p)'
  BY <1>1, <1>3, <1>5, <1>6
  DEF Route, Creating, InHome, InGlobal, Resolved, RootOwned, HomeUsable, Privileged
<1>8. ParentUseless(p)' /\ GlobalGiven(p)'
  BY <1>1, <1>3, <1>5, <1>6
  DEF ParentUseless, GlobalGiven, InHome, InGlobal, Resolved, RootOwned
<1>9. FallbackIsLast'
  <2>1. HomeStuck => HomeStuck'
    BY <1>1, <1>2, <1>3, <1>6, StuckStays
  <2>2. next \in InGlobal => HomeStuck
    BY <1>1, <1>6 DEF InGlobal, HomeStuck
  <2> QED
    BY <1>1, <1>2, <1>3, <2>1, <2>2, FallbackKept
<1> QED
  BY <1>1, <1>2, <1>3, <1>4, <1>7, <1>8, <1>9, ResolutionStep

\* Opening, making or handing over ~/.tdnf and ~/.tdnf/locks.
LEMMA HomeChildKeeps ==
    ASSUME TypeOK, RouteInv, ~FirstUse(host), NEW p \in Procs,
           OpenOwnerHomeLockDirectory(p)
    PROVE  RouteInv'
<1> DEFINE d == IF pc[p] \in {"tdnf", "chownTdnf"} THEN "tdnf" ELSE "locks"
           chown == IF d = "tdnf" THEN "chownTdnf" ELSE "chownLocks"
           after == IF d = "tdnf" THEN "locks" ELSE "create"
<1>0. /\ d \in {"tdnf", "locks"} /\ d \in DirNames /\ pc[p] \in {d, chown}
      /\ \/ pc[p] = d /\ OpenHomeChild(p, d, chown, after)
         \/ pc[p] = chown /\ Chown(p, d, after)
      /\ dir' = [dir EXCEPT ![p] = "locks"] /\ UNCHANGED parentFd
  BY DEF OpenOwnerHomeLockDirectory, DirNames
<1>1. PICK next \in {chown, after, HomeFailed(p)} :
         /\ Goto(p, next)
         /\ next = chown => node[d] = "absent" /\ node'[d] = "raw" /\ p \in Privileged
         /\ next = after => node'[d] = "ready"
         /\ next \notin {chown, after} => node[d] = "raw" /\ node' = node /\ pc[p] = d
         /\ node[d] = "ready" => node'[d] = "ready"
         /\ node[d] = "raw" /\ pc[p] = d => node'[d] = "raw"
         /\ node[d] # "absent" => node'[d] # "absent"
         /\ \A e \in DirNames \ {d} : node'[e] = node[e]
         /\ host' = host
  <2>1. /\ chown # after /\ HomeFailed(p) \notin {chown, after} /\ d # chown
        /\ node \in [DirNames -> DirStates]
    BY HomeFailedTargets DEF TypeOK
  <2> HIDE DEF d, chown, after
  <2>2. CASE pc[p] = d /\ OpenHomeChild(p, d, chown, after) /\ node[d] # "absent"
    BY <1>0, <2>1, <2>2
    DEF OpenHomeChild, MkDir, OpenReady, diskVars, DirStates
  <2>3. CASE pc[p] = d /\ OpenHomeChild(p, d, chown, after) /\ node[d] = "absent"
    <3>1. /\ node' = [node EXCEPT ![d] = IF p \in Privileged THEN "raw" ELSE "ready"]
          /\ Goto(p, IF p \in Privileged THEN chown ELSE after)
          /\ host' = host
      BY <2>3 DEF OpenHomeChild, MkDir
    <3> QED
      BY <1>0, <2>1, <2>3, <3>1
  <2>4. CASE pc[p] = chown /\ Chown(p, d, after)
    BY <1>0, <2>1, <2>4 DEF Chown
  <2> QED
    BY <1>0, <2>2, <2>3, <2>4
<1>2. next \in {"chownTdnf", "chownLocks", "locks", "create", "failed", "mkGlobal",
                "parentAgain"}
  BY <1>1, HomeFailedTargets
<1>3. next \in PCs
  BY <1>2 DEF PCs
<1>4. pc'[p] = next /\ dir'[p] = "locks" /\ \A q \in Procs \ {p} : dir'[q] = dir[q]
  BY <1>0, <1>1 DEF Goto, TypeOK
<1>5. Grown
  BY <1>0, <1>1 DEF Grown
<1>6. /\ Route(p) /\ Creating(p) /\ ParentUseless(p) /\ GlobalGiven(p)
      /\ HostDirsKept
  BY DEF RouteInv
<1>7. /\ pc[p] = "chownTdnf" => host.dirs["tdnf"] = "absent"
      /\ pc[p] = "chownLocks" => host.dirs["locks"] = "absent"
      /\ ~RootOwned /\ HomeUsable
      /\ pc[p] \in {"locks", "chownLocks"} => node["tdnf"] = "ready"
  BY <1>0, <1>6 DEF Route, Creating, InHome, OpenReady
<1>8. node[d] = "absent" => host.dirs[d] = "absent"
  BY <1>0, <1>6 DEF HostDirsKept
<1>9. HostDirsKept'
  <2>1. host.dirs[d] # "absent" => node'[d] = node[d]
    <3>1. CASE pc[p] = chown
      BY <1>0, <1>7, <3>1
    <3>2. CASE pc[p] = d
      BY <1>0, <1>1, <1>8, <3>2 DEF TypeOK, DirStates
    <3> QED
      BY <1>0, <3>1, <3>2
  <2> QED
    BY <1>0, <1>1, <1>6, <2>1 DEF HostDirsKept
<1>10. /\ next = "chownTdnf" => d = "tdnf"
       /\ next = "chownLocks" => d = "locks"
       /\ next = "locks" => d = "tdnf"
       /\ next = "create" => d = "locks"
       /\ next \in InGlobal => p \in Privileged /\ next = HomeFailed(p)
       /\ d = "locks" => node["tdnf"] = "ready"
  BY <1>0, <1>1, <1>2, <1>7, HomeFailedTargets DEF InGlobal
<1>11. /\ next = "create" => node'["tdnf"] = "ready" /\ node'["locks"] = "ready"
       /\ next \in {"locks", "chownLocks"} => node'["tdnf"] = "ready"
       /\ next = "chownTdnf" => host.dirs["tdnf"] = "absent" /\ node'["tdnf"] = "raw"
       /\ next = "chownLocks" => host.dirs["locks"] = "absent" /\ node'["locks"] = "raw"
       /\ next \in {"chownTdnf", "chownLocks"} => p \in Privileged
  BY <1>1, <1>8, <1>10 DEF DirNames
<1>12. Route(p)'
  BY <1>1, <1>2, <1>4, <1>7, <1>10, <1>11
  DEF Route, InHome, InGlobal, Resolved, OpenReady, RootOwned, HomeUsable, Privileged
<1>13. Creating(p)'
  BY <1>1, <1>2, <1>4, <1>11 DEF Creating, Privileged
<1>14. ParentUseless(p)'
  BY <1>0, <1>1, <1>2, <1>4, <1>6, <1>10, HomeFailedTargets
  DEF ParentUseless, InGlobal
<1>15. GlobalGiven(p)'
  <2>1. pc[p] \in InHome
    BY <1>0 DEF InHome
  <2> QED
    BY <1>1, <1>6, <2>1 DEF GlobalGiven, RootOwned
<1>16. FallbackIsLast'
  <2>1. HomeStuck => HomeStuck'
    BY <1>0, <1>1, <1>2, <1>3, <1>10, StuckStays DEF DirNames
  <2>2. next \in InGlobal =>
            \/ HomeStuck \/ RootOwned
            \/ host.dirs["parent"] = "raw" \/ host.dirs["global"] # "absent"
    <3>1. next \in InGlobal => pc[p] = d /\ node[d] = "raw" /\ p \in Privileged
      BY <1>1, <1>10 DEF InGlobal
    <3> HIDE DEF d
    <3> QED
      BY <1>0, <3>1, RawMeansStuck
  <2>3. node'["global"] = node["global"]
    BY <1>0, <1>1 DEF DirNames
  <2> QED
    BY <1>1, <1>3, <2>1, <2>2, <2>3, FallbackKept
<1>17. parentFd' \subseteq parentFd \cup {p}
  BY <1>0
<1> QED
  BY <1>1, <1>3, <1>4, <1>5, <1>9, <1>12, <1>13, <1>14, <1>15, <1>16, <1>17,
     ResolutionStep

\* The second attempt at the parent, on the way to the fallback.
LEMMA ParentAgainKeeps ==
    ASSUME TypeOK, RouteInv, NEW p \in Procs, ResolveParentAgain(p) PROVE RouteInv'
<1>0. host.dirs \in [DirNames -> DirStates] /\ Nested(host.dirs)
  BY HostFacts
<1>1. PICK next \in {"chmodParentAgain", "mkGlobal", "failed"} :
         /\ Goto(p, next)
         /\ next = "chmodParentAgain" =>
               node["parent"] = "absent" /\ node'["parent"] # "absent"
         /\ next = "mkGlobal" => node'["parent"] = "ready"
         /\ p \in parentFd' => p \in parentFd \/ node'["parent"] = "ready"
  <2>1. CASE pc[p] = "parentAgain"
    BY <2>1 DEF ResolveParentAgain, OpenParent, OpenReady, MkDir, TypeOK, DirNames,
                diskVars
  <2>2. CASE pc[p] = "chmodParentAgain"
    BY <2>2 DEF ResolveParentAgain, ChmodParent, TypeOK, DirNames
  <2> QED
    BY <2>1, <2>2 DEF ResolveParentAgain
<1>2. next \in PCs
  BY DEF PCs
<1>3. /\ pc'[p] = next /\ host' = host /\ dir' = dir
      /\ parentFd' \subseteq parentFd \cup {p}
      /\ \A d \in DirNames \ {"parent"} : node'[d] = node[d]
      /\ pc[p] \in {"parentAgain", "chmodParentAgain"}
  BY <1>1 DEF ResolveParentAgain, OpenParent, ChmodParent, MkDir, Goto, TypeOK,
              diskVars
<1>4. /\ node["parent"] # "absent" => node'["parent"] # "absent"
      /\ node["parent"] = "ready" => node'["parent"] = "ready"
      /\ node'["parent"] # node["parent"] =>
            node["parent"] = "absent" \/ pc[p] = "chmodParentAgain"
  BY DEF ResolveParentAgain, OpenParent, ChmodParent, MkDir, TypeOK, DirNames,
         diskVars
<1>5. Grown
  BY <1>3, <1>4 DEF Grown
<1>6. HostDirsKept'
  BY <1>3, <1>4 DEF RouteInv, HostDirsKept, Creating
<1>7. /\ Route(p) /\ Creating(p) /\ ParentUseless(p) /\ GlobalGiven(p)
      /\ HostDirsKept
  BY DEF RouteInv
<1>8. ~RootOwned /\ p \in Privileged
  BY <1>3, <1>7 DEF Route, InGlobal
<1>9. Route(p)'
  BY <1>1, <1>3, <1>8 DEF Route, InHome, InGlobal, Resolved, RootOwned, HomeUsable,
                         Privileged
<1>10. Creating(p)'
  <2>1. node["parent"] = "absent" => host.dirs["parent"] = "absent"
    BY <1>7 DEF HostDirsKept, DirNames
  <2> QED
    BY <1>1, <1>3, <2>1 DEF Creating
<1>11. ParentUseless(p)'
  <2>1. host.dirs["parent"] = "raw" => node'["parent"] = "raw"
    BY <1>3, <1>6 DEF HostDirsKept, DirNames
  <2> QED
    BY <1>1, <1>3, <1>7, <2>1 DEF ParentUseless, Resolved
<1>12. GlobalGiven(p)'
  BY <1>1, <1>3, <1>7 DEF GlobalGiven, InGlobal, RootOwned
<1>13. FallbackIsLast'
  <2>1. HomeStuck => HomeStuck'
    BY <1>1, <1>2, <1>3, StuckStays DEF DirNames
  <2> QED
    BY <1>1, <1>2, <1>3, <2>1, FallbackKept DEF InGlobal
<1> QED
  BY <1>1, <1>2, <1>3, <1>5, <1>6, <1>9, <1>10, <1>11, <1>12, <1>13,
     ResolutionStep

\* Opening, making or handing over the global directory of the owner.
LEMMA CreateGlobalKeeps ==
    ASSUME TypeOK, RouteInv, NEW p \in Procs, CreateGlobalOwnerDirectory(p)
    PROVE  RouteInv'
<1>1. PICK next \in {"chownGlobal", "create", "failed"} :
         /\ Goto(p, next)
         /\ next = "chownGlobal" => node["global"] = "absent"
         /\ next \in {"chownGlobal", "create"} => node'["global"] # "absent"
  <2>1. CASE pc[p] = "mkGlobal"
    BY <2>1 DEF CreateGlobalOwnerDirectory, OpenReady, MkDir, TypeOK, DirNames,
                diskVars
  <2>2. CASE pc[p] = "chownGlobal"
    BY <2>2 DEF CreateGlobalOwnerDirectory, Chown, TypeOK, DirNames
  <2> QED
    BY <2>1, <2>2 DEF CreateGlobalOwnerDirectory
<1>2. next \in PCs
  BY DEF PCs
<1>3. /\ pc'[p] = next /\ host' = host /\ dir' = [dir EXCEPT ![p] = "global"]
      /\ parentFd' = parentFd
      /\ \A d \in DirNames \ {"global"} : node'[d] = node[d]
      /\ pc[p] \in {"mkGlobal", "chownGlobal"}
  BY <1>1 DEF CreateGlobalOwnerDirectory, Chown, MkDir, Goto, TypeOK, diskVars
<1>4. /\ node["global"] # "absent" => node'["global"] # "absent"
      /\ node["global"] = "ready" => node'["global"] = "ready"
      /\ node'["global"] # node["global"] =>
            node["global"] = "absent" \/ pc[p] = "chownGlobal"
  BY DEF CreateGlobalOwnerDirectory, Chown, MkDir, TypeOK, DirNames, diskVars
<1>5. Grown
  BY <1>3, <1>4 DEF Grown
<1>6. HostDirsKept'
  BY <1>3, <1>4 DEF RouteInv, HostDirsKept, Creating
<1>7. /\ Route(p) /\ ParentUseless(p) /\ GlobalGiven(p) /\ HostDirsKept
  BY DEF RouteInv
<1>8. ~RootOwned /\ p \in Privileged
  BY <1>3, <1>7 DEF Route, InGlobal
<1>9. dir'[p] = "global" /\ \A q \in Procs \ {p} : dir'[q] = dir[q]
  BY <1>3 DEF TypeOK
<1>10. Route(p)'
  BY <1>1, <1>3, <1>8, <1>9 DEF Route, InHome, InGlobal, Resolved, RootOwned,
                               HomeUsable, Privileged
<1>11. Creating(p)'
  <2>1. node["global"] = "absent" => host.dirs["global"] = "absent"
    BY <1>7 DEF HostDirsKept, DirNames
  <2> QED
    BY <1>1, <1>3, <2>1 DEF Creating
<1>12. ParentUseless(p)'
  BY <1>3, <1>7 DEF ParentUseless
<1>13. GlobalGiven(p)'
  BY <1>3, <1>7 DEF GlobalGiven, InGlobal, RootOwned
<1>14. FallbackIsLast'
  <2>1. HomeStuck => HomeStuck'
    BY <1>1, <1>2, <1>3, StuckStays DEF DirNames
  <2> QED
    BY <1>1, <1>2, <1>3, <2>1, FallbackKept DEF InGlobal
<1> QED
  BY <1>1, <1>2, <1>3, <1>5, <1>6, <1>9, <1>10, <1>11, <1>12, <1>13, <1>14,
     ResolutionStep

\* The routes are kept by every step of the program on a host that is not in its
\* first use, unless a failing call changes them.
LEMMA RoutesKept ==
    ASSUME TypeOK, RouteInv, ~FirstUse(host), [Next]_vars, diversions' = 0
    PROVE  RouteInv'
<1>0. CASE UNCHANGED vars
  BY <1>0 DEF RouteInv, Route, Creating, ParentUseless, GlobalGiven, HostDirsKept,
              FallbackIsLast, HomeStuck, OpenReady, RootOwned, HomeUsable, Privileged,
              vars, procVars, diskVars
<1>1. ASSUME NEW p \in Procs,
             Start(p) \/ ResolveParent(p) \/ OpenGlobalIfExists(p) \/ OpenHome(p)
               \/ OpenOwnerHomeLockDirectory(p) \/ ResolveParentAgain(p)
               \/ CreateGlobalOwnerDirectory(p)
      PROVE  RouteInv'
  BY <1>1, StartKeeps, ResolveParentKeeps, OpenGlobalKeeps, OpenHomeKeeps,
     HomeChildKeeps, ParentAgainKeeps, CreateGlobalKeeps
<1>2. ASSUME NEW p \in Procs,
             CreateLock(p) \/ OpenExistingLock(p) \/ ChownLock(p) \/ StatLock(p)
               \/ FlockTake(p) \/ FlockWouldBlock(p) \/ Recheck(p) \/ Pin(p)
               \/ Release(p) \/ Return(p) \/ Crash(p) \/ ResolutionFails(p)
      PROVE  RouteInv'
  <2>0. ResolutionFails(p) => Goto(p, "failed")
    BY DEF ResolutionFails, Divert, TypeOK
  <2>1. PICK next \in Resolved \cup {"idle", "failed", "wouldBlock"} :
           Goto(p, next) /\ (next \in Resolved => pc[p] \in Resolved)
    BY <1>2, <2>0
    DEF CreateLock, OpenExistingLock, ChownLock, StatLock, FlockTake,
        FlockWouldBlock, Recheck, Pin, Release, Return, Crash, Resolved
  <2>2. UNCHANGED <<host, dir, node, parentFd>>
    BY <1>2
    DEF CreateLock, OpenExistingLock, ChownLock, StatLock, FlockTake,
        FlockWouldBlock, Recheck, Pin, Release, Return, Crash, ResolutionFails, diskVars
  <2>3. next \in PCs
    BY DEF PCs, Resolved
  <2> QED
    BY <2>1, <2>2, <2>3, LoopKeeps
<1>3. ASSUME NEW d \in LockDirs, UnlinkLock(d) PROVE RouteInv'
  <2>1. UNCHANGED <<pc, parentFd, dir, host, node>>
    BY <1>3 DEF UnlinkLock, procVars
  <2> QED
    BY <2>1 DEF RouteInv, Route, Creating, ParentUseless, GlobalGiven, HostDirsKept,
                FallbackIsLast, HomeStuck, OpenReady, RootOwned, HomeUsable, Privileged
<1> QED
  BY <1>0, <1>1, <1>2, <1>3 DEF Next, Step

\* The host stays what it is, and no diversion is forgotten.
LEMMA HostStays ==
    ASSUME TypeOK, [Next]_vars
    PROVE  host' = host /\ (diversions' = 0 => diversions = 0)
<1>1. ASSUME NEW p \in Procs, ResolutionFails(p)
      PROVE  host' = host /\ (diversions' = 0 => diversions = 0)
  BY <1>1 DEF ResolutionFails, Divert, TypeOK
<1>2. ASSUME NEW p \in Procs, ResolveParent(p) \/ ResolveParentAgain(p)
      PROVE  UNCHANGED <<host, diversions>>
  BY <1>2 DEF ResolveParent, ResolveParentAgain, OpenParent, ChmodParent, diskVars
<1>3. ASSUME NEW p \in Procs,
             OpenOwnerHomeLockDirectory(p) \/ CreateGlobalOwnerDirectory(p)
      PROVE  UNCHANGED <<host, diversions>>
  BY <1>3 DEF OpenOwnerHomeLockDirectory, OpenHomeChild, Chown,
              CreateGlobalOwnerDirectory, diskVars
<1>4. ASSUME NEW p \in Procs,
             Start(p) \/ OpenGlobalIfExists(p) \/ OpenHome(p) \/ CreateLock(p)
               \/ OpenExistingLock(p) \/ ChownLock(p) \/ StatLock(p) \/ FlockTake(p)
               \/ FlockWouldBlock(p) \/ Recheck(p) \/ Pin(p) \/ Release(p)
               \/ Return(p) \/ Crash(p)
      PROVE  UNCHANGED <<host, diversions>>
  BY <1>4 DEF Start, OpenGlobalIfExists, OpenHome, CreateLock, OpenExistingLock,
              ChownLock, StatLock, FlockTake, FlockWouldBlock, Recheck, Pin, Release,
              Return, Crash, diskVars
<1>5. (\E d \in LockDirs : UnlinkLock(d)) => UNCHANGED <<host, diversions>>
  BY DEF UnlinkLock
<1>6. UNCHANGED vars => UNCHANGED <<host, diversions>>
  BY DEF vars, diskVars
<1> QED
  BY <1>1, <1>2, <1>3, <1>4, <1>5, <1>6 DEF Next, Step

-----------------------------------------------------------------------------
\* Then for hosts with one place to lock in, where a failing call leads nowhere
\* else: a root-owned target locks in the parent or not at all, and without a
\* usable home only the global directory is left.
OnePlace(p) ==
    /\ RootOwned => pc[p] \notin {"global"} \cup InHome \cup InGlobal
    /\ ~RootOwned => pc[p] \notin InHome \ {"home"}
    /\ pc[p] \in Resolved => dir[p] = IF RootOwned THEN "parent" ELSE "global"

PlaceInv == ~TwoPlaces(host) => \A p \in Procs : OnePlace(p)

\* A step of one process leaves the place of the others alone.
LEMMA PlaceStep ==
    ASSUME TypeOK, PlaceInv, host' = host, NEW p \in Procs, NEW next, Goto(p, next),
           \A q \in Procs \ {p} : dir'[q] = dir[q],
           ~TwoPlaces(host) => OnePlace(p)'
    PROVE  PlaceInv'
<1>1. \A q \in Procs \ {p} : pc'[q] = pc[q]
  BY DEF Goto, TypeOK
<1> QED
  BY <1>1 DEF PlaceInv, OnePlace, TwoPlaces, RootOwned

LEMMA PlaceKept ==
    ASSUME TypeOK, TypeOK', PlaceInv, [Next]_vars
    PROVE  PlaceInv'
<1>h. host' = host
  BY HostStays
<1> USE DEF RootOwned, HomeUsable
<1>0. CASE UNCHANGED vars
  BY <1>0 DEF PlaceInv, OnePlace, TwoPlaces, vars, procVars, diskVars
<1>1. ASSUME NEW p \in Procs, Start(p) PROVE PlaceInv'
  <2>1. PICK next \in {"failed", "parent"} : Goto(p, next)
    BY <1>1 DEF Start
  <2>2. pc'[p] = next /\ dir' = dir
    BY <1>1, <2>1 DEF Goto, TypeOK, Start
  <2>3. OnePlace(p)'
    BY <2>2 DEF OnePlace, InHome, InGlobal, Resolved
  <2> QED
    BY <1>h, <2>1, <2>2, <2>3, PlaceStep
<1>2. ASSUME NEW p \in Procs, ResolveParent(p) PROVE PlaceInv'
  <2>1. PICK next \in {"chmodParent", AfterParent, WithoutParent} : Goto(p, next)
    BY <1>2 DEF ResolveParent, OpenParent, ChmodParent
  <2>2. pc'[p] = next /\ dir' = [dir EXCEPT ![p] = "parent"]
    BY <1>2, <2>1 DEF Goto, TypeOK, ResolveParent
  <2>3. OnePlace(p)'
    BY <1>h, <2>2
    DEF OnePlace, AfterParent, WithoutParent, InHome, InGlobal, Resolved, TypeOK
  <2> QED
    BY <1>h, <2>1, <2>2, <2>3, PlaceStep DEF TypeOK
<1>3. ASSUME NEW p \in Procs, OpenGlobalIfExists(p) PROVE PlaceInv'
  <2>1. PICK next \in {"home", "failed", "create"} : Goto(p, next)
    BY <1>3 DEF OpenGlobalIfExists, TypeOK, DirNames, DirStates
  <2>2. pc'[p] = next /\ dir' = [dir EXCEPT ![p] = "global"] /\ pc[p] = "global"
    BY <1>3, <2>1 DEF Goto, TypeOK, OpenGlobalIfExists
  <2>3. ~TwoPlaces(host) => OnePlace(p)'
    BY <1>h, <2>2 DEF PlaceInv, OnePlace, InHome, InGlobal, Resolved, TypeOK
  <2> QED
    BY <1>h, <2>1, <2>2, <2>3, PlaceStep DEF TypeOK
<1>4. ASSUME NEW p \in Procs, OpenHome(p) PROVE PlaceInv'
  <2>1. PICK next : Goto(p, next) /\ next = IF HomeUsable THEN "tdnf" ELSE HomeFailed(p)
    BY <1>4 DEF OpenHome
  <2>2. pc'[p] = next /\ dir' = dir /\ pc[p] = "home"
    BY <1>4, <2>1 DEF Goto, TypeOK, OpenHome
  <2>3. ~TwoPlaces(host) => OnePlace(p)'
    BY <1>h, <2>1, <2>2
    DEF PlaceInv, OnePlace, TwoPlaces, HomeFailed, InHome, InGlobal, Resolved
  <2> QED
    BY <1>h, <2>1, <2>2, <2>3, PlaceStep
<1>5. ASSUME NEW p \in Procs, OpenOwnerHomeLockDirectory(p) PROVE PlaceInv'
  <2>1. PICK next : Goto(p, next)
    BY <1>5 DEF OpenOwnerHomeLockDirectory, OpenHomeChild, Chown
  <2>2. pc[p] \in InHome \ {"home"} /\ dir' = [dir EXCEPT ![p] = "locks"]
    BY <1>5 DEF OpenOwnerHomeLockDirectory, InHome
  <2>3. TwoPlaces(host)
    BY <2>2 DEF PlaceInv, OnePlace, InHome
  <2> QED
    BY <1>h, <2>3 DEF PlaceInv, TwoPlaces
<1>6. ASSUME NEW p \in Procs, ResolveParentAgain(p) PROVE PlaceInv'
  <2>1. PICK next \in {"chmodParentAgain", "mkGlobal", "failed"} : Goto(p, next)
    BY <1>6 DEF ResolveParentAgain, OpenParent, ChmodParent
  <2>2. pc'[p] = next /\ dir' = dir /\ pc[p] \in InGlobal
    BY <1>6, <2>1 DEF Goto, TypeOK, ResolveParentAgain, InGlobal
  <2>3. ~TwoPlaces(host) => OnePlace(p)'
    BY <1>h, <2>2 DEF PlaceInv, OnePlace, InHome, InGlobal, Resolved
  <2> QED
    BY <1>h, <2>1, <2>2, <2>3, PlaceStep
<1>7. ASSUME NEW p \in Procs, CreateGlobalOwnerDirectory(p) PROVE PlaceInv'
  <2>1. PICK next \in {"create", "failed", "chownGlobal"} : Goto(p, next)
    BY <1>7 DEF CreateGlobalOwnerDirectory, Chown
  <2>2. pc'[p] = next /\ dir' = [dir EXCEPT ![p] = "global"] /\ pc[p] \in InGlobal
    BY <1>7, <2>1 DEF Goto, TypeOK, CreateGlobalOwnerDirectory, InGlobal
  <2>3. ~TwoPlaces(host) => OnePlace(p)'
    BY <1>h, <2>2 DEF PlaceInv, OnePlace, InHome, InGlobal, Resolved, TypeOK
  <2> QED
    BY <1>h, <2>1, <2>2, <2>3, PlaceStep DEF TypeOK
<1>8. ASSUME NEW p \in Procs, ResolutionFails(p) PROVE PlaceInv'
  <2>1. PICK next : /\ Goto(p, next)
                    /\ \/ pc[p] \in {"parent", "chmodParent"} /\ next = WithoutParent
                       \/ pc[p] \in InHome /\ next = HomeFailed(p)
    BY <1>8 DEF ResolutionFails, Divert, InHome
  <2>2. pc'[p] = next /\ dir' = dir
    BY <1>8, <2>1 DEF Goto, TypeOK, ResolutionFails
  <2>3. ~TwoPlaces(host) => OnePlace(p)'
    BY <1>h, <2>1, <2>2
    DEF PlaceInv, OnePlace, WithoutParent, HomeFailed, InHome, InGlobal, Resolved
  <2> QED
    BY <1>h, <2>1, <2>2, <2>3, PlaceStep
<1>9. ASSUME NEW p \in Procs,
             CreateLock(p) \/ OpenExistingLock(p) \/ ChownLock(p) \/ StatLock(p)
               \/ FlockTake(p) \/ FlockWouldBlock(p) \/ Recheck(p) \/ Pin(p)
               \/ Release(p) \/ Return(p) \/ Crash(p)
      PROVE  PlaceInv'
  <2>1. PICK next \in Resolved \cup {"idle", "failed", "wouldBlock"} :
           Goto(p, next) /\ (next \in Resolved => pc[p] \in Resolved)
    BY <1>9
    DEF CreateLock, OpenExistingLock, ChownLock, StatLock, FlockTake,
        FlockWouldBlock, Recheck, Pin, Release, Return, Crash, Resolved
  <2>2. pc'[p] = next /\ dir' = dir
    BY <1>9, <2>1
    DEF Goto, TypeOK, CreateLock, OpenExistingLock, ChownLock, StatLock, FlockTake,
        FlockWouldBlock, Recheck, Pin, Release, Return, Crash
  <2>3. ~TwoPlaces(host) => OnePlace(p)'
    BY <1>h, <2>1, <2>2 DEF PlaceInv, OnePlace, InHome, InGlobal, Resolved
  <2> QED
    BY <1>h, <2>1, <2>2, <2>3, PlaceStep
<1>10. ASSUME NEW d \in LockDirs, UnlinkLock(d) PROVE PlaceInv'
  BY <1>h, <1>10 DEF UnlinkLock, procVars, PlaceInv, OnePlace, TwoPlaces
<1> QED
  BY <1>0, <1>1, <1>2, <1>3, <1>4, <1>5, <1>6, <1>7, <1>8, <1>9, <1>10 DEF Next, Step

-----------------------------------------------------------------------------
\* At most one process holds the lock of the install root, whatever the mix of
\* root and owner processes, wherever a process dies and whatever the environment
\* unlinks.  Where openDefaultTargetDirectory can end in two directories there are
\* two ways to two holders, and no third: a failing call that diverts an acquire,
\* and two root processes in the first use of the owner's home.
THEOREM AtMostOneHolder == Spec => []OneHolder
<1> DEFINE Straight == diversions = 0 /\ ~FirstUse(host) => RouteInv
<1>1. Init => TypeOK /\ Straight /\ PlaceInv
  <2> SUFFICES ASSUME Init PROVE TypeOK /\ RouteInv /\ PlaceInv
    OBVIOUS
  <2>1. TypeOK
    BY ConstantsAssumption DEF Init, TypeOK, PCs, LockDirs, HostType
  <2>2. ASSUME NEW p \in Procs
        PROVE  Route(p) /\ Creating(p) /\ ParentUseless(p) /\ GlobalGiven(p)
    BY DEF Init, Route, Creating, ParentUseless, GlobalGiven, InHome, InGlobal,
           Resolved
  <2>3. HostDirsKept
    BY DEF Init, HostDirsKept
  <2>4. FallbackIsLast
    BY DEF Init, FallbackIsLast, InGlobal
  <2>5. PlaceInv
    BY DEF Init, PlaceInv, OnePlace, InHome, InGlobal, Resolved
  <2> QED
    BY <2>1, <2>2, <2>3, <2>4, <2>5 DEF RouteInv
<1>2. TypeOK /\ [Next]_vars /\ Straight => Straight'
  <2> SUFFICES ASSUME TypeOK, [Next]_vars, Straight, diversions' = 0, ~FirstUse(host')
               PROVE  RouteInv'
    BY DEF FirstUse, TwoPlaces
  <2> QED
    BY HostStays, RoutesKept
<1>3. TypeOK /\ TypeOK' /\ [Next]_vars /\ PlaceInv => PlaceInv'
  BY PlaceKept
<1>4. TypeOK /\ SameDirectoryExclusion /\ Straight /\ PlaceInv => OneHolder
  <2> SUFFICES ASSUME TypeOK, SameDirectoryExclusion, Straight, PlaceInv, ~OneHolder
               PROVE  FALSE
    OBVIOUS
  <2>1. OneDirectory
    <3>1. CASE TwoPlaces(host)
      <4>1. RouteInv
        BY <3>1 DEF OneHolder, TypeOK
      <4> QED
        BY <4>1, OneDirectoryFromRoutes
    <3>2. CASE ~TwoPlaces(host)
      BY <3>2 DEF PlaceInv, OnePlace, OneDirectory
    <3> QED
      BY <3>1, <3>2
  <2> QED
    BY <2>1 DEF OneHolder, OneDirectory, MutualExclusion, SameDirectoryExclusion,
                Holding, Resolved
<1> QED
  BY <1>1, <1>2, <1>3, <1>4, TypeCorrect, ExclusionWithinDirectory, PTL DEF Spec
=============================================================================
