---------------------------- MODULE InstalledSet ----------------------------
(***************************************************************************)
(* What a transaction promises to everybody who reads the rpmdb while it   *)
(* runs: one commit adds at most one row and takes at most one away, and   *)
(* every commit brings the database closer to the goal.  A row that stays  *)
(* is never missing, a row that was removed never comes back, and the      *)
(* transaction may stop anywhere on the way.                               *)
(***************************************************************************)
CONSTANTS Rows   \* everything that may be a row of the database

VARIABLES installed, goal

\* Any database, and any set of rows to be reached from it.
Init == installed \subseteq Rows /\ goal \subseteq Rows

\* A new row is committed, alone or in the place of one that has to go.
Add(h) ==
    /\ \/ installed' = installed \cup {h}
       \/ \E old \in installed \ goal : installed' = (installed \ {old}) \cup {h}
    /\ UNCHANGED goal

Remove(h) ==
    /\ installed' = installed \ {h}
    /\ UNCHANGED goal

Next ==
    \/ \E h \in goal \ installed : Add(h)
    \/ \E h \in installed \ goal : Remove(h)

Spec == Init /\ [][Next]_<<installed, goal>>
=============================================================================
