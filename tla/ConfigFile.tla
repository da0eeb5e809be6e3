------------------------------ MODULE ConfigFile ------------------------------
(***************************************************************************)
(* One %config path through the life of the package that ships it:         *)
(* decideAction and the file writer of rpmzig/install.zig and              *)
(* eraseNonDirectory of rpmzig/erase.zig, in the order in which            *)
(* processInstallItem and processEraseItem of client/transaction.zig call  *)
(* them.  Between transactions the administrator edits or removes the      *)
(* file.  One step is one system call; a transaction can be interrupted    *)
(* before any of them (an error, a crash), leaves the files as they are    *)
(* and may be tried again.                                                 *)
(*                                                                         *)
(* A release is a record [content, noreplace] with content = Absent if it  *)
(* does not ship the path.  A file's content stands for its digest; all    *)
(* files are regular and carry one, and no other package owns the path.    *)
(***************************************************************************)
CONSTANTS
    Contents,  \* what releases ship
    Edits,     \* what the administrator writes
    Absent,    \* no file
    Partial,   \* a file created and not completely written
    Releases,  \* the releases of the package
    NoPackage  \* the package is not installed

ASSUME ConfigAssumption ==
    /\ Contents \cap Edits = {}
    /\ Absent # Partial
    /\ {Absent, Partial} \cap (Contents \cup Edits) = {}
    /\ Releases \subseteq [content : Contents \cup {Absent}, noreplace : BOOLEAN]
    /\ NoPackage \notin Releases

VARIABLES
    pc,      \* the step of the transaction, "idle" between two
    kind,    \* the item type
    old,     \* the release installed when the transaction began
    new,     \* the release it leads to
    flags,   \* the transaction flags
    row,     \* the release in the rpmdb
    target,  \* content of the path ...
    save,    \* ... of the path with .rpmsave
    rpmnew,  \* ... and of the path with .rpmnew
    dst,     \* the one of them that is being written
    rc,      \* outcome of the last transaction
    edit,    \* history: the last edit of a shipped file, which has to survive
    start    \* history: what the transaction found at the path

files == <<target, save, rpmnew>>
op == <<kind, old, new, flags>>
history == <<edit, start>>
vars == <<pc, op, row, files, dst, rc, history>>

Kinds == {"install", "upgrade", "reinstall", "obsolete", "erase"}
Steps == {"decide", "unsave", "rename", "unlink", "create", "write", "commit",
          "erase", "remove"}

Rows == Releases \cup {NoPackage}
Ships(release) == release # NoPackage /\ release.content # Absent

Init ==
    /\ pc = "idle" /\ kind = "install"
    /\ old = NoPackage /\ new = NoPackage /\ row = NoPackage
    /\ target \in {Absent} \cup Edits
    /\ save = Absent /\ rpmnew = Absent /\ dst = "target"
    /\ flags = {} /\ rc = "none" /\ edit = Absent /\ start = Absent

-----------------------------------------------------------------------------
(* The administrator                                                       *)

\* An edit of a file the package does not ship is nobody's configuration: the
\* installer may take the path.
Edit(e) ==
    /\ pc = "idle"
    /\ target' = e
    /\ edit' = IF Ships(row) THEN e ELSE Absent
    /\ UNCHANGED <<pc, op, row, save, rpmnew, dst, rc, start>>

\* The administrator removes the file and no longer wants the edit.
Delete ==
    /\ pc = "idle" /\ target # Absent
    /\ target' = Absent
    /\ edit' = Absent
    /\ UNCHANGED <<pc, op, row, save, rpmnew, dst, rc, start>>

-----------------------------------------------------------------------------
(* The transaction                                                         *)

Goto(step) == pc' = step /\ UNCHANGED <<op, rc, history>>

Finish(outcome) == pc' = "idle" /\ rc' = outcome /\ UNCHANGED <<op, history>>

\* A file that neither the rpmdb nor the new release knows, though nobody edited
\* it: a transaction that was interrupted or left out configuration files wrote
\* it, or did not replace it.
Stray(release) ==
    /\ target \notin {Absent, edit}
    /\ \A known \in {row, release} : Ships(known) => target # known.content

\* When the code gives an edit up: a stray file will take its place as .rpmsave,
\* or it lies where the installer sees no configuration file to keep, because
\* an obsoleting package counts as a new one or because nobody ships the path.
GivenUp(k, release) ==
    \/ Stray(release)
    \/ save # edit /\ (k = "obsolete" \/ ~Ships(row))

\* A transaction begins.  With NOCONFIGS the installer leaves the path alone
\* (shouldSkipFile).
Begin(k, release, f) ==
    /\ pc = "idle"
    /\ (k = "install") <=> (row = NoPackage)
    /\ (k = "erase") <=> (release = NoPackage)
    /\ k = "reinstall" => release = row
    /\ kind' = k /\ old' = row /\ new' = release /\ flags' = f
    /\ pc' = IF k = "erase" THEN (IF Ships(row) THEN "erase" ELSE "commit")
             ELSE IF Ships(release) /\ "NOCONFIGS" \notin f THEN "decide" ELSE "commit"
    /\ rc' = "none"
    /\ edit' = IF GivenUp(k, release) THEN Absent ELSE edit
    /\ start' = target
    /\ UNCHANGED <<row, files, dst>>

\* Mutant: a file that has changed is only kept if the new release asks for it.
ConfigAction_DropsEdits(matchesOld, matchesNew, noreplace) ==
    IF matchesNew THEN "skip" ELSE IF noreplace THEN "rpmnew" ELSE "install"

\* Mutant: the old digest is looked at first.
ConfigAction_OldFirst(matchesOld, matchesNew, noreplace) ==
    IF matchesOld THEN "skip"
    ELSE IF matchesNew THEN "install"
    ELSE IF noreplace THEN "rpmnew" ELSE "rpmsave"

\* chooseConfigAction: what becomes of a file that is there already.
ConfigAction(matchesOld, matchesNew, noreplace) ==
    IF matchesNew THEN "skip"
    ELSE IF matchesOld THEN "install"
    ELSE IF noreplace THEN "rpmnew" ELSE "rpmsave"

\* decideAction: the path is free, nobody's, or the package's own.
Action ==
    IF target = Absent \/ ~Ships(old) \/ kind \in {"install", "obsolete"}
    THEN "install"
    ELSE ConfigAction(target = old.content, target = new.content, new.noreplace)

\* The file is skipped, moved out of the way first, or written at once.
Decide ==
    /\ pc = "decide"
    /\ dst' = IF Action = "rpmnew" THEN "rpmnew" ELSE "target"
    /\ Goto(IF Action = "skip" THEN "commit"
            ELSE IF Action = "rpmsave" THEN "unsave" ELSE "unlink")
    /\ UNCHANGED <<row, files>>

\* RootDir.rename unlinks its destination, then renames.
Unsave ==
    /\ pc = "unsave"
    /\ save' = Absent
    /\ Goto("rename")
    /\ UNCHANGED <<row, target, rpmnew, dst>>

\* After the erase of a package comes the row, after that of a prior nothing.
AfterErase ==
    IF kind = "erase" THEN Goto("commit") ELSE Finish("ok")

Rename ==
    /\ pc = "rename"
    /\ save' = target /\ target' = Absent
    /\ IF Ships(new) THEN Goto("unlink") ELSE AfterErase
    /\ UNCHANGED <<row, rpmnew, dst>>

Store(content) ==
    /\ target' = IF dst = "target" THEN content ELSE target
    /\ rpmnew' = IF dst = "rpmnew" THEN content ELSE rpmnew
    /\ UNCHANGED <<row, save, dst>>

\* writeRegularFile: unlink, create exclusively, write, set the metadata.
Unlink == pc = "unlink" /\ Store(Absent) /\ Goto("create")
Create == pc = "create" /\ Store(Partial) /\ Goto("write")
Write == pc = "write" /\ Store(new.content) /\ Goto("commit")

\* The row is inserted, replaced or deleted.  A path that the old release ships
\* and the new one does not is then erased with the rest of the old one
\* (eraseOldAfterReplace); one that both ship is kept.
Commit ==
    /\ pc = "commit"
    /\ row' = new
    /\ IF kind # "erase" /\ Ships(old) /\ ~Ships(new)
       THEN Goto("erase")
       ELSE Finish("ok")
    /\ UNCHANGED <<files, dst>>

\* eraseNonDirectory: a modified file is renamed, another one removed.
Erase ==
    /\ pc = "erase"
    /\ IF target = Absent THEN AfterErase
       ELSE Goto(IF target = old.content THEN "remove" ELSE "unsave")
    /\ UNCHANGED <<row, files, dst>>

Remove ==
    /\ pc = "remove"
    /\ target' = Absent
    /\ AfterErase
    /\ UNCHANGED <<row, save, rpmnew, dst>>

\* A system call, a scriptlet or the rpmdb fails, or the machine stops.
Interrupt ==
    /\ pc # "idle"
    /\ Finish("interrupted")
    /\ UNCHANGED <<row, files, dst>>

Transaction ==
    \/ Decide \/ Unsave \/ Rename \/ Unlink \/ Create \/ Write
    \/ Commit \/ Erase \/ Remove \/ Interrupt

Next ==
    \/ \E e \in Edits : Edit(e)
    \/ Delete
    \/ \E k \in Kinds, release \in Rows, f \in SUBSET {"NOCONFIGS"} : Begin(k, release, f)
    \/ Transaction

Spec == Init /\ [][Next]_vars

-----------------------------------------------------------------------------
Files == Contents \cup Edits \cup {Absent, Partial}

TypeOK ==
    /\ pc \in Steps \cup {"idle"} /\ kind \in Kinds
    /\ old \in Rows /\ new \in Rows /\ row \in Rows
    /\ target \in Files /\ save \in Files /\ rpmnew \in Files
    /\ dst \in {"target", "rpmnew"}
    /\ flags \subseteq {"NOCONFIGS"}
    /\ rc \in {"none", "ok", "interrupted"}
    /\ edit \in Edits \cup {Absent} /\ start \in Files

\* The last edit of a configuration file exists at every moment, at its path or
\* as .rpmsave, through any number of upgrades, downgrades, reinstallations and
\* erasures, wherever they are interrupted, until it is given up (GivenUp).
EditSurvives == edit # Absent => edit \in {target, save}

\* The path holds what the release ships.  Only %config(noreplace) leaves a file
\* that is neither the old nor the new one, and puts the release's beside it.  A
\* path that is no longer shipped is free.
InPlace ==
    IF Ships(row)
    THEN \/ target = row.content
         \/ /\ row.noreplace /\ rpmnew = row.content
            /\ target \notin {Absent, Partial, old.content}
    ELSE Ships(old) => target = Absent

\* A transaction that writes configuration files, did not find a half-written
\* one and succeeds has put the release's file in place, whatever earlier
\* transactions that were interrupted left behind.
SuccessInstalls ==
    [][pc # "idle" /\ rc' = "ok" /\ flags = {} /\ start # Partial => InPlace']_vars
=============================================================================
