-------------------------- MODULE ConfigFile_proofs --------------------------
(***************************************************************************)
(* Proof that the last edit of a configuration file survives, for any set  *)
(* of releases and edits.  EditSurvives alone is not inductive: a step     *)
(* that unlinks or overwrites one of the two files needs to know that the  *)
(* edit is in the other one.  EditPlaces says where it is at each step.    *)
(***************************************************************************)
EXTENDS ConfigFile, TLAPS

\* What lies at the path is explained by the edit or by one of the two releases.
Recognised ==
    \/ target \in {Absent, edit}
    \/ Ships(old) /\ target = old.content
    \/ Ships(new) /\ target = new.content

EditPlaces ==
    edit # Absent =>
        /\ pc \in {"unsave", "rename"} => target = edit
        /\ pc \in {"unlink", "create", "write"} /\ dst = "target" => save = edit
        /\ pc = "remove" => save = edit
        /\ pc \in {"decide", "erase"} \/ (pc = "commit" /\ ~Ships(new)) => Recognised
        /\ pc = "decide" => save = edit \/ (kind # "obsolete" /\ Ships(old))

\* Which releases a step works on.
StepReleases ==
    /\ pc = "decide" => Ships(new) /\ (kind = "install" => ~Ships(old))
    /\ pc \in {"erase", "remove"} => Ships(old) /\ ~Ships(new)
    /\ pc \in {"create", "write"} => Ships(new)
    /\ pc = "unlink" => Ships(new)

IInv == TypeOK /\ EditSurvives /\ EditPlaces /\ StepReleases

\* A release ships something an edit cannot be mistaken for.
LEMMA ShippedContent ==
    ASSUME NEW r \in Rows, Ships(r)
    PROVE  r.content \in Contents /\ r.content \notin Edits /\ r.content \notin {Absent, Partial}
  BY ConfigAssumption DEF Rows, Ships

LEMMA NoPackageShipsNothing == ~Ships(NoPackage)
  BY DEF Ships

LEMMA InitEstablishes == Init => IInv
  BY ConfigAssumption DEF Init, IInv, TypeOK, EditSurvives, EditPlaces, StepReleases,
     Rows, Files, Kinds, Steps

\* The type invariant is kept by every step.
LEMMA TypeStep == TypeOK /\ StepReleases /\ [Next]_vars => TypeOK'
<1> SUFFICES ASSUME TypeOK, StepReleases, [Next]_vars PROVE TypeOK'
  OBVIOUS
<1> USE DEF TypeOK, Steps, Kinds
<1>1. ASSUME NEW e \in Edits, Edit(e) PROVE TypeOK'
  BY <1>1 DEF Edit, op, Files
<1>2. CASE Delete
  BY <1>2 DEF Delete, op, Files
<1>3. ASSUME NEW k \in Kinds, NEW r \in Rows, NEW f \in SUBSET {"NOCONFIGS"}, Begin(k, r, f)
      PROVE  TypeOK'
  BY <1>3 DEF Begin, files
<1>4. CASE Decide
  BY <1>4 DEF Decide, Goto, files, op, history
<1>5. CASE Unsave
  BY <1>5 DEF Unsave, Goto, op, history, Files
<1>6. CASE Rename
  BY <1>6 DEF Rename, AfterErase, Finish, Goto, op, history, Files
<1>7. CASE Unlink
  BY <1>7 DEF Unlink, Store, Goto, op, history, Files
<1>8. CASE Create
  BY <1>8 DEF Create, Store, Goto, op, history, Files
<1>9. CASE Write
  <2>1. new.content \in Files
    BY <1>9, ShippedContent DEF Write, StepReleases, Files
  <2> QED BY <1>9, <2>1 DEF Write, Store, Goto, op, history
<1>10. CASE Commit
  BY <1>10 DEF Commit, Finish, Goto, op, history, files
<1>11. CASE Erase
  BY <1>11 DEF Erase, AfterErase, Finish, Goto, op, history, files
<1>12. CASE Remove
  BY <1>12 DEF Remove, AfterErase, Finish, Goto, op, history, Files
<1>13. CASE Interrupt
  BY <1>13 DEF Interrupt, Finish, op, history, files
<1>14. CASE UNCHANGED vars
  BY <1>14 DEF vars, op, files, history
<1> QED
  BY <1>1, <1>2, <1>3, <1>4, <1>5, <1>6, <1>7, <1>8, <1>9, <1>10, <1>11, <1>12, <1>13, <1>14
  DEF Next, Transaction

\* Each step finds the edit where EditPlaces says and leaves it where the next
\* step expects it.
LEMMA EditStep == IInv /\ [Next]_vars => (EditSurvives /\ EditPlaces /\ StepReleases)'
<1> SUFFICES ASSUME IInv, [Next]_vars PROVE (EditSurvives /\ EditPlaces /\ StepReleases)'
  OBVIOUS
<1> DEFINE Goal == (EditSurvives /\ EditPlaces /\ StepReleases)'
<1>t. TypeOK /\ EditSurvives /\ EditPlaces /\ StepReleases
  BY DEF IInv
<1>1. ASSUME NEW e \in Edits, Edit(e) PROVE Goal
  BY <1>1 DEF Edit, op, EditSurvives, EditPlaces, StepReleases
<1>2. CASE Delete
  BY <1>2 DEF Delete, op, EditSurvives, EditPlaces, StepReleases
<1>3. ASSUME NEW k \in Kinds, NEW r \in Rows, NEW f \in SUBSET {"NOCONFIGS"}, Begin(k, r, f)
      PROVE  Goal
  <2>1. EditSurvives'
    BY <1>3, <1>t DEF Begin, files, EditSurvives
  <2>2. StepReleases'
    BY <1>3, NoPackageShipsNothing DEF Begin, StepReleases, Ships, Kinds
  <2>3. EditPlaces'
    <3> SUFFICES ASSUME edit' # Absent PROVE EditPlaces'
      BY DEF EditPlaces
    <3>1. ~GivenUp(k, r) /\ edit' = edit
      BY <1>3 DEF Begin
    <3>2. Recognised'
      BY <1>3, <3>1 DEF Begin, files, GivenUp, Stray, Recognised, Ships
    <3>3. save' = edit' \/ (kind' # "obsolete" /\ Ships(old)')
      BY <1>3, <3>1 DEF Begin, files, GivenUp, Ships
    <3>4. pc' \in {"decide", "erase", "commit"}
      BY <1>3 DEF Begin
    <3> QED BY <3>2, <3>3, <3>4 DEF EditPlaces
  <2> QED BY <2>1, <2>2, <2>3
<1>4. CASE Decide
  <2> USE <1>4 DEF Decide, Goto, op, files, history
  <2>1. EditSurvives'
    BY <1>t DEF EditSurvives
  <2>2. StepReleases'
    BY <1>t DEF StepReleases, Ships
  <2>3. EditPlaces'
    <3> SUFFICES ASSUME edit' # Absent PROVE EditPlaces'
      BY DEF EditPlaces
    <3>1. /\ Recognised /\ edit \in Edits /\ edit \in {target, save}
          /\ save = edit \/ (kind # "obsolete" /\ Ships(old))
          /\ Ships(new) /\ (kind = "install" => ~Ships(old))
      BY <1>t DEF EditPlaces, StepReleases, EditSurvives, TypeOK
    <3>2. Ships(old) => old.content \notin Edits
      BY <1>t, ShippedContent DEF TypeOK
    <3>3. CASE Action = "rpmsave"
      <4>1. target = edit
        BY <3>1, <3>3 DEF Action, ConfigAction, Recognised
      <4> QED BY <3>3, <4>1 DEF EditPlaces
    <3>4. CASE Action = "rpmnew"
      BY <3>4 DEF EditPlaces
    <3>5. CASE Action = "skip"
      BY <3>1, <3>5 DEF EditPlaces, Ships
    <3>6. CASE Action = "install"
      <4>1. save = edit
        BY <3>1, <3>2, <3>6, ConfigAssumption DEF Action, ConfigAction
      <4> QED BY <3>6, <4>1 DEF EditPlaces
    <3>7. Action \in {"skip", "install", "rpmnew", "rpmsave"}
      BY DEF Action, ConfigAction
    <3> QED BY <3>3, <3>4, <3>5, <3>6, <3>7
  <2> QED BY <2>1, <2>2, <2>3
<1>5. CASE Unsave
  BY <1>5, <1>t DEF Unsave, Goto, op, history, EditSurvives, EditPlaces, StepReleases
<1>6. CASE Rename
  <2> USE <1>6 DEF Rename, AfterErase, Finish, Goto, op, history
  <2>1. EditSurvives' /\ (edit' # Absent => save' = edit' /\ target' = Absent)
    BY <1>t DEF EditSurvives, EditPlaces
  <2>2. pc' \in {"unlink", "commit", "idle"} /\ (pc' = "unlink" => Ships(new)')
    BY DEF Ships
  <2> QED BY <2>1, <2>2 DEF EditPlaces, StepReleases, Recognised
<1>7. CASE Unlink \/ Create \/ Write
  <2> USE <1>7 DEF Unlink, Create, Write, Store, Goto, op, history
  <2>1. EditSurvives'
    BY <1>t DEF EditSurvives, EditPlaces, TypeOK
  <2>2. StepReleases' /\ Ships(new) /\ new' = new
    BY <1>t DEF StepReleases, Ships
  <2>3. EditPlaces'
    BY <1>t, <2>2 DEF EditPlaces, Ships
  <2> QED BY <2>1, <2>2, <2>3
<1>8. CASE Commit
  <2> USE <1>8 DEF Commit, Finish, Goto, op, history, files
  <2>1. EditSurvives' /\ StepReleases'
    BY <1>t DEF EditSurvives, StepReleases, Ships
  <2>2. EditPlaces'
    <3>1. CASE pc' = "erase"
      BY <1>t, <3>1 DEF EditPlaces, Recognised, Ships
    <3>2. CASE pc' = "idle"
      BY <3>2 DEF EditPlaces
    <3> QED BY <3>1, <3>2
  <2> QED BY <2>1, <2>2
<1>9. CASE Erase
  <2> USE <1>9 DEF Erase, AfterErase, Finish, Goto, op, history, files
  <2>1. EditSurvives' /\ StepReleases'
    BY <1>t DEF EditSurvives, StepReleases, Ships
  <2>2. EditPlaces'
    <3> SUFFICES ASSUME edit' # Absent PROVE EditPlaces'
      BY DEF EditPlaces
    <3>1. /\ Recognised /\ edit \in Edits /\ edit \in {target, save}
          /\ Ships(old) /\ ~Ships(new) /\ old.content \notin Edits
      BY <1>t, ShippedContent DEF EditPlaces, StepReleases, EditSurvives, TypeOK
    <3>2. CASE target = Absent
      BY <3>1, <3>2 DEF EditPlaces, Recognised
    <3>3. CASE target # Absent /\ target = old.content
      BY <3>1, <3>3 DEF EditPlaces
    <3>4. CASE target # Absent /\ target # old.content
      BY <3>1, <3>4 DEF EditPlaces, Recognised
    <3> QED BY <3>2, <3>3, <3>4
  <2> QED BY <2>1, <2>2
<1>10. CASE Remove
  BY <1>10, <1>t DEF Remove, AfterErase, Finish, Goto, op, history, EditSurvives, EditPlaces,
     StepReleases, Recognised
<1>11. CASE Interrupt
  BY <1>11, <1>t DEF Interrupt, Finish, op, history, files, EditSurvives, EditPlaces, StepReleases
<1>12. CASE UNCHANGED vars
  BY <1>12, <1>t DEF vars, op, files, history, EditSurvives, EditPlaces, StepReleases,
     Recognised, Ships
<1> QED
  BY <1>1, <1>2, <1>3, <1>4, <1>5, <1>6, <1>7, <1>8, <1>9, <1>10, <1>11, <1>12
  DEF Next, Transaction

\* The administrator's last edit of a shipped configuration file is never lost by
\* decideAction, the writer, or the eraser, wherever a transaction stops.
THEOREM LastEditSurvives == Spec => []EditSurvives
<1>1. Init => IInv
  BY InitEstablishes
<1>2. IInv /\ [Next]_vars => IInv'
  BY TypeStep, EditStep DEF IInv
<1>3. IInv => EditSurvives
  BY DEF IInv
<1> QED BY <1>1, <1>2, <1>3, PTL DEF Spec

\* Every variable keeps its type.
THEOREM TypeCorrect == Spec => []TypeOK
<1>1. Init => IInv
  BY InitEstablishes
<1>2. IInv /\ [Next]_vars => IInv'
  BY TypeStep, EditStep DEF IInv
<1>3. IInv => TypeOK
  BY DEF IInv
<1> QED BY <1>1, <1>2, <1>3, PTL DEF Spec

-----------------------------------------------------------------------------
(* What success means                                                      *)

\* The new release's file may lie beside one that was changed.
Beside == new.noreplace /\ target \notin {Absent, Partial, old.content}

\* What each step of a transaction that writes configuration files can rely on.
\* Only decideAction puts the new file beside the old one, and only the eraser
\* deals with a path that is shipped no longer.
Settling ==
    /\ pc # "idle" => rc = "none"
    /\ flags = {} /\ start # Partial =>
          /\ pc = "decide" => target = start
          /\ pc \in {"unlink", "create", "write"} /\ dst = "rpmnew" => Beside
          /\ pc \in {"unsave", "rename"} /\ Ships(new) => dst = "target"
          /\ pc = "commit" /\ Ships(new) =>
                target = new.content \/ (Beside /\ rpmnew = new.content)
          /\ pc = "commit" /\ kind = "erase" /\ Ships(old) => target = Absent
    /\ pc # "idle" => (kind = "erase" => ~Ships(new))
    /\ pc \in {"erase", "remove"} \/ (pc \in {"unsave", "rename"} /\ ~Ships(new)) =>
          kind = "erase" \/ row = new

\* Each step leaves the path as the next one needs it.
LEMMA SettlingStep == IInv /\ Settling /\ [Next]_vars => Settling'
<1> SUFFICES ASSUME IInv, Settling, [Next]_vars PROVE Settling'
  OBVIOUS
<1>t. TypeOK /\ StepReleases
  BY DEF IInv
<1>1. ASSUME NEW e \in Edits, Edit(e) PROVE Settling'
  BY <1>1 DEF Edit, op, Settling
<1>2. CASE Delete
  BY <1>2 DEF Delete, op, Settling
<1>3. ASSUME NEW k \in Kinds, NEW r \in Rows, NEW f \in SUBSET {"NOCONFIGS"}, Begin(k, r, f)
      PROVE  Settling'
  BY <1>3, NoPackageShipsNothing DEF Begin, files, Settling, Ships
<1>4. CASE Decide
  <2> USE <1>4 DEF Decide, Goto, op, files, history
  <2>1. Ships(new) /\ kind # "erase" /\ (kind = "install" => ~Ships(old))
    BY <1>t DEF StepReleases, Settling
  <2>2. Action = "rpmnew" => /\ new.noreplace /\ target # Absent /\ target # old.content
    BY DEF Action, ConfigAction
  <2>3. Action = "skip" => target = new.content
    BY DEF Action, ConfigAction
  <2>4. Action = "rpmsave" => dst' = "target"
    OBVIOUS
  <2> QED BY <2>1, <2>2, <2>3, <2>4 DEF Settling, Beside, Ships
<1>5. CASE Unsave
  BY <1>5 DEF Unsave, Goto, op, history, Settling, Beside, Ships
<1>6. CASE Rename
  BY <1>6 DEF Rename, AfterErase, Finish, Goto, op, history, Settling, Beside, Ships
<1>7. CASE Unlink \/ Create \/ Write
  <2> USE <1>7 DEF Unlink, Create, Write, Store, Goto, op, history
  <2>1. Ships(new) /\ kind # "erase"
    BY <1>t DEF StepReleases, Settling
  <2> QED BY <1>t, <2>1 DEF Settling, Beside, Ships, TypeOK
<1>8. CASE Commit
  BY <1>8 DEF Commit, Finish, Goto, op, history, files, Settling, Ships
<1>9. CASE Erase
  <2> USE <1>9 DEF Erase, AfterErase, Finish, Goto, op, history, files
  <2>1. ~Ships(new)
    BY <1>t DEF StepReleases
  <2> QED BY <2>1 DEF Settling, Ships
<1>10. CASE Remove
  <2>1. ~Ships(new)
    BY <1>t, <1>10 DEF StepReleases, Remove
  <2> QED BY <1>10, <2>1 DEF Remove, AfterErase, Finish, Goto, op, history, Settling, Ships
<1>11. CASE Interrupt
  BY <1>11 DEF Interrupt, Finish, op, history, files, Settling
<1>12. CASE UNCHANGED vars
  BY <1>12 DEF vars, op, files, history, Settling, Beside, Ships
<1> QED
  BY <1>1, <1>2, <1>3, <1>4, <1>5, <1>6, <1>7, <1>8, <1>9, <1>10, <1>11, <1>12
  DEF Next, Transaction

\* The last step of a transaction finds the path settled.
LEMMA SuccessStep ==
    ASSUME IInv, Settling, [Next]_vars, pc # "idle", rc' = "ok", flags = {}, start # Partial
    PROVE  InPlace'
<1>t. TypeOK /\ StepReleases /\ rc = "none"
  BY DEF IInv, Settling
<1>1. CASE Commit
  <2> USE <1>1 DEF Commit, Finish, Goto, op, history, files
  <2>1. row' = new /\ old' = old /\ target' = target /\ rpmnew' = rpmnew
    OBVIOUS
  <2>2. kind = "erase" \/ ~Ships(old) \/ Ships(new)
    BY <1>t
  <2>3. CASE Ships(new)
    BY <2>1, <2>3 DEF Settling, Beside, InPlace, Ships
  <2>4. CASE ~Ships(new)
    BY <2>1, <2>2, <2>4 DEF Settling, InPlace, Ships
  <2> QED BY <2>3, <2>4
<1>2. CASE Rename \/ Erase \/ Remove
  <2>1. target' = Absent /\ row' = row /\ old' = old /\ ~Ships(new) /\ kind # "erase"
    BY <1>t, <1>2 DEF Rename, Erase, Remove, AfterErase, Finish, Goto, op, history, files, StepReleases
  <2>2. row = new
    BY <1>2, <2>1 DEF Settling, Rename, Erase, Remove
  <2> QED BY <2>1, <2>2 DEF InPlace, Ships
<1>3. CASE Decide \/ Unsave \/ Unlink \/ Create \/ Write \/ Interrupt
  BY <1>t, <1>3 DEF Decide, Unsave, Unlink, Create, Write, Interrupt, Store, Finish, Goto
<1>4. CASE UNCHANGED vars
  BY <1>t, <1>4 DEF vars
<1> QED
  BY <1>t, <1>1, <1>2, <1>3, <1>4 DEF Next, Transaction, Edit, Delete, Begin

\* A transaction that writes configuration files, did not find a half-written one
\* and succeeds has put the release's file in place, for any releases and edits
\* and whatever earlier interrupted transactions left at the path.
THEOREM SuccessPutsInPlace == Spec => SuccessInstalls
<1> DEFINE Inv == IInv /\ Settling
<1>1. Init => Inv
  <2>1. Init => Settling
    BY DEF Init, Settling
  <2> QED BY <2>1, InitEstablishes
<1>2. Inv /\ [Next]_vars => Inv'
  BY TypeStep, EditStep, SettlingStep DEF IInv
<1>3. Inv /\ [Next]_vars =>
         [pc # "idle" /\ rc' = "ok" /\ flags = {} /\ start # Partial => InPlace']_vars
  BY SuccessStep
<1> QED BY <1>1, <1>2, <1>3, PTL DEF Spec, SuccessInstalls
=============================================================================
