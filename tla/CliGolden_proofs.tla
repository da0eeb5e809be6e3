--------------------------- MODULE CliGolden_proofs ---------------------------
(***************************************************************************)
(* What the golden fixtures are worth, for every list of cases, every      *)
(* number of refreshes, tests, kills and rebuilds, and every set of builds *)
(* that mention where their configuration is.                              *)
(***************************************************************************)
EXTENDS CliGolden, SequenceTheorems, TLAPS

Users == {"root", "user"}
PCs == {"idle", "next", "prepare", "run", "captured", "finally"}
Words == STRING \cup {"tdnf", "-c", Conf("refresh"), Conf("test")}

\* The cases a user can run, what a complete set of fixtures is, what a test makes
\* of one fixture, and the entry by which a test run lists it.
Captured(user) == {c \in build_cases : ~should_skip(c, user)}

Exact(files, user, by) ==
    /\ DOMAIN files = {c.name : c \in Captured(user)}
    /\ \A c \in Captured(user) : files[c.name] = fixtureOf(c, Alone(c, "refresh", user, by))

Good(file, user, by) == file # Partial /\ file.out = Alone(file, "test", user, by)

AllGood(files, user, by) == \A n \in DOMAIN files : Good(files[n], user, by)

\* No other user has left a tree that keeps the test from resetting its own.
Free(user) == removable(runtime["test"], user)

Entry(files, n) == [name |-> n, argv |-> files[n].argv]

TypeOK ==
    /\ DOMAIN proc = {"who", "user", "pc", "todo", "names", "at", "out", "bad"}
    /\ proc.pc \in PCs
    /\ proc.pc # "idle" => proc.who \in {"refresh", "test"} /\ proc.user \in Users
    /\ proc.bad \in BOOLEAN
    /\ DOMAIN runtime = {"refresh", "test"}
    /\ \A n \in DOMAIN fixtures : fixtures[n].argv \in Seq(Words)
    /\ \A c \in proc.todo : c.argv \in Seq(Words)

\* The case at hand is one still to do, and one that can be run.
AtHand ==
    proc.pc \in {"prepare", "run", "captured"} =>
        /\ proc.at \in proc.todo
        /\ proc.who = "refresh" => ~should_skip(proc.at, proc.user)
        /\ proc.who = "test" => fixtures[proc.at.name] # Partial

\* What the tree holds between reset and run_command is the case's alone.
TreeIsFresh ==
    /\ proc.pc = "prepare" => runtime[proc.who] = Fresh(proc.user)
    /\ proc.pc = "run" =>
          runtime[proc.who] = prepare_case(Fresh(proc.user), proc.at.argv)
    /\ proc.pc = "captured" => removable(runtime[proc.who], proc.user)

\* What a refresh has left to do is exactly what it has not yet written, over
\* whatever was there.
Written(files, user, todo, by) ==
    \A c \in Captured(user) \ todo :
        c.name \in DOMAIN files /\ files[c.name] = fixtureOf(c, Alone(c, "refresh", user, by))

Refreshing ==
    proc.pc # "idle" /\ proc.who = "refresh" =>
        /\ proc.todo \subseteq build_cases
        /\ refreshed.user \notin Users
        /\ proc.pc # "finally" =>
              /\ ~proc.bad
              /\ proc.names = {c.name : c \in Captured(proc.user) \ proc.todo}
              /\ Written(fixtures, proc.user, proc.todo, build)
        /\ proc.pc = "finally" /\ ~proc.bad => Exact(fixtures, proc.user, build)

\* A test run has found what it has looked at good, or something bad.
Looked(files, user, todo, by) ==
    \A n \in DOMAIN files : Entry(files, n) \in todo \/ Good(files[n], user, by)

Listed(files, todo) == \A c \in todo : \E n \in DOMAIN files : c = Entry(files, n)

Testing ==
    proc.pc # "idle" /\ proc.who = "test" =>
        /\ Listed(fixtures, proc.todo)
        /\ ~proc.bad => Looked(fixtures, proc.user, proc.todo, build)
        /\ proc.bad => ~(AllGood(fixtures, proc.user, build) /\ Free(proc.user))
        /\ proc.pc = "finally" => proc.todo = {}

\* A verdict stands until the next run or build, and says what the fixtures are.
Settled ==
    /\ verdict.who # "none" => proc.pc = "idle"
    /\ verdict.who = "refresh" /\ verdict.result = "ok" =>
          Exact(fixtures, verdict.user, build)
    /\ verdict.who = "test" =>
          /\ verdict.user \in Users
          /\ verdict.result = "ok" <=>
                AllGood(fixtures, verdict.user, build) /\ Free(verdict.user)

\* Only a refresh changes the fixtures of a refresh.
StillCurrent ==
    refreshed.user \in Users => Exact(fixtures, refreshed.user, refreshed.by)

GoldenInv ==
    /\ TypeOK /\ AtHand /\ TreeIsFresh /\ CaptureIsIsolated
    /\ Refreshing /\ Testing /\ Settled /\ StillCurrent

-----------------------------------------------------------------------------
(* The harness: decorate_rpmz_cmd_for_test.                                *)

\* One word inserted behind the program's name.
LEMMA InsertedWord ==
    ASSUME NEW W, NEW s \in Seq(W), s # <<>>, NEW x \in W,
           NEW d, d = insertAt(s, 1, <<x>>)
    PROVE  /\ d \in Seq(W)
           /\ Len(d) = Len(s) + 1
           /\ d[1] = s[1]
           /\ d[2] = x
           /\ \A i \in 2..Len(s) : d[1 + i] = s[i]
BY DEF insertAt

\* Two words inserted: the word behind the program's name is the first of them
\* or stays what it was.
LEMMA InsertedWords ==
    ASSUME NEW W, NEW s \in Seq(W), NEW k \in {1, 2}, k <= Len(s),
           NEW x \in W, NEW y \in W, NEW d, d = insertAt(s, k, <<x, y>>)
    PROVE  /\ Len(d) = Len(s) + 2
           /\ d[2] = IF k = 1 THEN x ELSE s[2]
<1>1. CASE k = 1
  BY <1>1 DEF insertAt
<1>2. CASE k = 2
  BY <1>2 DEF insertAt
<1> QED
  BY <1>1, <1>2

\* What rpmz does with a case does not depend on where its configuration is.
LEMMA ActionAnywhere ==
    ASSUME NEW argv \in Seq(Words), argv # <<>>, NEW c \in Words, NEW e \in Words
    PROVE  classify(decorate_rpmz_cmd_for_test(argv, c, FALSE, FALSE))
               = classify(decorate_rpmz_cmd_for_test(argv, e, FALSE, FALSE))
<1> DEFINE at == IF Len(argv) > 1 /\ argv[2] \in {"repo-config", "tdnf"}
                 THEN 2 ELSE 1
           own == In("-c", argv) \/ In("--config", argv)
           d(f) == insertAt(argv, at, <<"-c", f>>)
<1>1. \A f : decorate_rpmz_cmd_for_test(argv, f, FALSE, FALSE)
                = IF argv[1] # "rpmz" \/ own THEN argv ELSE d(f)
  BY DEF decorate_rpmz_cmd_for_test, WithCommand, WithConfig
<1>2. at \in {1, 2} /\ at <= Len(argv) /\ Len(argv) \in Nat /\ Len(argv) >= 1
  OBVIOUS
<1>3. "-c" \in Words
  BY DEF Words
<1> HIDE DEF at, own
<1>4. /\ Len(d(c)) = Len(argv) + 2 /\ Len(d(e)) = Len(argv) + 2
      /\ d(c)[2] = d(e)[2]
  <2>1. PICK u : u = d(c)
    OBVIOUS
  <2>2. PICK v : v = d(e)
    OBVIOUS
  <2>3. Len(u) = Len(argv) + 2 /\ u[2] = IF at = 1 THEN "-c" ELSE argv[2]
    BY <1>2, <1>3, <2>1, InsertedWords
  <2>4. Len(v) = Len(argv) + 2 /\ v[2] = IF at = 1 THEN "-c" ELSE argv[2]
    BY <1>2, <1>3, <2>2, InsertedWords
  <2> QED
    BY <2>1, <2>2, <2>3, <2>4
<1> HIDE DEF d
<1>5. classify(d(c)) = classify(d(e))
  BY <1>2, <1>4 DEF classify
<1>6. CASE argv[1] # "rpmz" \/ own
  <2>1. /\ decorate_rpmz_cmd_for_test(argv, c, FALSE, FALSE) = argv
        /\ decorate_rpmz_cmd_for_test(argv, e, FALSE, FALSE) = argv
    BY <1>1, <1>6
  <2> QED
    BY <2>1
<1>7. CASE ~(argv[1] # "rpmz" \/ own)
  <2>1. /\ decorate_rpmz_cmd_for_test(argv, c, FALSE, FALSE) = d(c)
        /\ decorate_rpmz_cmd_for_test(argv, e, FALSE, FALSE) = d(e)
    BY <1>1, <1>7
  <2> QED
    BY <1>5, <2>1
<1> QED
  BY <1>6, <1>7

\* A case that names a command the harness knows is still of that command with
\* what the harness adds; another is so or becomes the unknown command "-c".
LEMMA ActionKept ==
    ASSUME NEW argv \in Seq(Words), argv # <<>>, NEW c \in Words
    PROVE  LET done == classify(decorate_rpmz_cmd_for_test(argv, c, FALSE, FALSE))
           IN  /\ classify(argv) \in {"compatibility", "repo_config"} =>
                      done = classify(argv)
               /\ done \in {classify(argv), "unknown"}
<1> DEFINE named == Len(argv) > 1 /\ argv[2] \in {"repo-config", "tdnf"}
           d == insertAt(argv, IF named THEN 2 ELSE 1, <<"-c", c>>)
<1>1. decorate_rpmz_cmd_for_test(argv, c, FALSE, FALSE) \in {argv, d}
  BY DEF decorate_rpmz_cmd_for_test, WithCommand, WithConfig
<1>2. Len(argv) \in Nat /\ Len(argv) >= 1 /\ "-c" \in Words
  BY DEF Words
<1>3. CASE named
  <2>1. PICK e : e = insertAt(argv, 2, <<"-c", c>>)
    OBVIOUS
  <2>2. Len(e) = Len(argv) + 2 /\ e[2] = argv[2]
    BY <1>2, <1>3, <2>1, InsertedWords
  <2>3. classify(e) = classify(argv)
    BY <1>2, <1>3, <2>2 DEF classify
  <2> QED
    BY <1>1, <1>3, <2>1, <2>3
<1>4. CASE ~named
  <2>1. PICK e : e = insertAt(argv, 1, <<"-c", c>>)
    OBVIOUS
  <2>2. Len(e) = Len(argv) + 2 /\ e[2] = "-c"
    BY <1>2, <2>1, InsertedWords
  <2>3. classify(e) = "unknown"
    BY <1>2, <2>2 DEF classify
  <2>4. classify(argv) \notin {"compatibility", "repo_config"}
    <3>1. CASE Len(argv) = 1
      BY <3>1 DEF classify
    <3>2. CASE Len(argv) # 1
      <4>1. argv[2] # "tdnf" /\ argv[2] # "repo-config"
        BY <1>2, <1>4, <3>2
      <4> HIDE DEF named, d
      <4>2. classify(argv) \in {"auto", "help", "version", "unknown"}
        BY <3>2, <4>1 DEF classify
      <4> QED
        BY <4>2
    <3> QED
      BY <3>1, <3>2
  <2> QED
    BY <1>1, <1>4, <2>1, <2>3, <2>4
<1> QED
  BY <1>3, <1>4

\* A build that mentions no path prints the same in both trees.
LEMMA SameAnywhere ==
    ASSUME NEW c, c.argv \in Seq(Words), c.argv # <<>>, NEW user, NEW by,
           by \notin Mentioning
    PROVE  Alone(c, "refresh", user, by) = Alone(c, "test", user, by)
<1>1. Conf("refresh") \in Words /\ Conf("test") \in Words
  BY DEF Words
<1>2. classify(decorate_rpmz_cmd_for_test(c.argv, Conf("refresh"), FALSE, FALSE))
        = classify(decorate_rpmz_cmd_for_test(c.argv, Conf("test"), FALSE, FALSE))
  BY <1>1, ActionAnywhere
<1> QED
  BY <1>2 DEF Alone, Output

-----------------------------------------------------------------------------
(* The cases.                                                              *)

\* Every case is a command and its name is its own.
LEMMA CaseFacts ==
    /\ \A c \in build_cases : c.argv \in Seq(Words) /\ c.argv # <<>>
    /\ \A c, e \in build_cases : c.name = e.name => c = e
<1>1. ASSUME NEW b \in BaseCases
      PROVE  caseOf(b).argv \in Seq(Words) /\ caseOf(b).argv # <<>>
  <2>1. b.argv \in Seq(Words) /\ b.argv # <<>>
    BY CasesAssumption DEF Words
  <2>2. CASE ~b.top /\ b.argv[2] # "repo-config"
    <3>1. PICK d : d = insertAt(b.argv, 1, <<"tdnf">>)
      OBVIOUS
    <3>2. "tdnf" \in Words
      BY DEF Words
    <3>3. d \in Seq(Words) /\ Len(d) = Len(b.argv) + 1
      BY <2>1, <3>1, <3>2, InsertedWord
    <3>4. caseOf(b).argv = d
      BY <2>2, <3>1 DEF caseOf
    <3>5. d # <<>>
      BY <2>1, <3>3
    <3> QED
      BY <3>3, <3>4, <3>5
  <2>3. CASE ~(~b.top /\ b.argv[2] # "repo-config")
    BY <2>1, <2>3 DEF caseOf
  <2> QED
    BY <2>2, <2>3
<1>2. ASSUME NEW c \in build_cases, NEW e \in build_cases, c.name = e.name
      PROVE  c = e
  <2>1. PICK b \in BaseCases : c = caseOf(b)
    BY DEF build_cases
  <2>2. PICK a \in BaseCases : e = caseOf(a)
    BY DEF build_cases
  <2>3. b.name = a.name
    BY <1>2, <2>1, <2>2 DEF caseOf
  <2> QED
    BY <2>1, <2>2, <2>3, CasesAssumption
<1> QED
  BY <1>1, <1>2 DEF build_cases

\* A complete set of fixtures passes every test of its user and build, if the
\* build mentions no path.
LEMMA ExactIsGood ==
    ASSUME NEW files, NEW user, NEW by, Exact(files, user, by), by \notin Mentioning
    PROVE  AllGood(files, user, by)
<1> SUFFICES ASSUME NEW n \in DOMAIN files PROVE Good(files[n], user, by)
  BY DEF AllGood
<1>1. PICK c \in Captured(user) : n = c.name
  BY DEF Exact
<1>4. c.argv # <<>> /\ c.argv \in Seq(Words)
  BY CaseFacts DEF Captured
<1>2. files[n] = fixtureOf(c, Alone(c, "test", user, by))
  BY <1>1, <1>4, SameAnywhere DEF Exact
<1>3. files[n].argv = c.argv /\ files[n].out = Alone(c, "test", user, by)
  BY <1>2 DEF fixtureOf
<1>5. files[n] # Partial
  BY <1>3, <1>4 DEF Partial
<1>6. Alone(files[n], "test", user, by) = Alone(c, "test", user, by)
  BY <1>3 DEF Alone
<1> QED
  BY <1>3, <1>5, <1>6 DEF Good

-----------------------------------------------------------------------------
(* Refreshes and tests.                                                    *)

LEMMA IdleFacts ==
    /\ DOMAIN Idle = {"who", "user", "pc", "todo", "names", "at", "out", "bad"}
    /\ Idle.pc = "idle" /\ Idle.todo = {} /\ Idle.names = {} /\ Idle.bad = FALSE
BY DEF Idle

LEMMA InitGolden == Init => GoldenInv
<1> SUFFICES ASSUME Init PROVE GoldenInv
  OBVIOUS
<1>1. TypeOK
  <2>1. <<>> \in Seq(Words)
    OBVIOUS
  <2> QED
    BY <2>1, IdleFacts DEF Init, TypeOK, PCs, Partial
<1>2. AtHand /\ TreeIsFresh /\ CaptureIsIsolated /\ Refreshing /\ Testing
  BY IdleFacts DEF Init, AtHand, TreeIsFresh, CaptureIsIsolated, Refreshing, Testing, Free
<1>3. Settled /\ StillCurrent
  BY DEF Init, Settled, StillCurrent, Users, Free
<1> QED
  BY <1>1, <1>2, <1>3 DEF GoldenInv

\* What is true of the fixtures does not change with what else is going on.
LEMMA FixturesKeep ==
    ASSUME GoldenInv, UNCHANGED <<fixtures, refreshed>>
    PROVE  StillCurrent'
BY DEF GoldenInv, StillCurrent

\* A refresh begins with all its cases, a test run with all fixtures it finds.
LEMMA StartKeeps ==
    ASSUME GoldenInv, NEW user \in Users, StartRefresh(user) \/ StartTest(user)
    PROVE  GoldenInv'
<1>1. PICK who, todo : who \in {"refresh", "test"} /\ Start(who, user, todo)
  BY DEF StartRefresh, StartTest
<1>2. /\ proc'.who = who /\ proc'.user = user /\ proc'.pc = "next"
      /\ proc'.todo = todo /\ proc'.names = {} /\ proc'.bad = FALSE
      /\ DOMAIN proc' = {"who", "user", "pc", "todo", "names", "at", "out", "bad"}
  BY <1>1, IdleFacts DEF Start
<1>3. verdict'.who = "none" /\ UNCHANGED <<fixtures, runtime, build>>
  BY <1>1 DEF Start
<1>4. CASE StartRefresh(user)
  <2>1. who = "refresh" /\ todo = build_cases /\ refreshed'.user = "none"
    <3>1. proc'.who = "refresh" /\ proc'.todo = build_cases
      BY <1>4, IdleFacts DEF StartRefresh, Start
    <3> QED
      BY <1>2, <1>4, <3>1 DEF StartRefresh
  <2>2. TypeOK'
    BY <1>2, <1>3, <2>1, CaseFacts DEF GoldenInv, TypeOK, PCs
  <2>3. AtHand' /\ TreeIsFresh' /\ CaptureIsIsolated'
    BY <1>2 DEF AtHand, TreeIsFresh, CaptureIsIsolated
  <2>4. Refreshing'
    <3>1. Captured(user) \ build_cases = {}
      BY DEF Captured
    <3> QED
      BY <1>2, <2>1, <3>1 DEF Refreshing, Users, Written
  <2>5. Testing' /\ Settled' /\ StillCurrent'
    BY <1>2, <1>3, <2>1 DEF Testing, Settled, StillCurrent, Users, Free
  <2> QED
    BY <2>2, <2>3, <2>4, <2>5 DEF GoldenInv
<1>5. CASE StartTest(user)
  <2>1. /\ who = "test" /\ todo = {Entry(fixtures, n) : n \in DOMAIN fixtures}
        /\ refreshed' = refreshed
    <3>1. /\ proc'.who = "test"
          /\ proc'.todo = {[name |-> n, argv |-> fixtures[n].argv] : n \in DOMAIN fixtures}
      BY <1>5, IdleFacts DEF StartTest, Start
    <3> QED
      BY <1>2, <1>5, <3>1 DEF StartTest, Entry
  <2>2. TypeOK'
    <3>1. \A c \in todo : c.argv \in Seq(Words)
      BY <2>1 DEF GoldenInv, TypeOK, Entry
    <3> QED
      BY <1>2, <1>3, <2>1, <3>1 DEF GoldenInv, TypeOK, PCs
  <2>3. AtHand' /\ TreeIsFresh' /\ CaptureIsIsolated'
    BY <1>2 DEF AtHand, TreeIsFresh, CaptureIsIsolated
  <2>4. Refreshing' /\ Settled'
    BY <1>2, <1>3, <2>1 DEF Refreshing, Settled, Free
  <2>5. Testing'
    BY <1>2, <1>3, <2>1 DEF Testing, Listed, Looked, Free
  <2>6. StillCurrent'
    BY <1>3, <2>1, FixturesKeep
  <2> QED
    BY <2>2, <2>3, <2>4, <2>5, <2>6 DEF GoldenInv
<1> QED
  BY <1>4, <1>5

\* Leaving a case out that the user cannot run leaves nothing to be written.
LEMMA SkipKeeps == ASSUME GoldenInv, SkipCase PROVE GoldenInv'
<1>1. PICK c \in proc.todo : should_skip(c, proc.user)
                             /\ proc' = [proc EXCEPT !.todo = @ \ {c}]
  BY DEF SkipCase
<1>2. /\ proc.pc = "next" /\ proc.who = "refresh"
      /\ UNCHANGED <<fixtures, runtime, verdict, refreshed, build>>
  BY DEF SkipCase
<1>3. /\ proc'.todo = proc.todo \ {c} /\ DOMAIN proc' = DOMAIN proc
      /\ proc'.pc = proc.pc /\ proc'.who = proc.who /\ proc'.user = proc.user
      /\ proc'.names = proc.names /\ proc'.bad = proc.bad
  BY <1>1 DEF GoldenInv, TypeOK
<1>4. TypeOK'
  BY <1>2, <1>3 DEF GoldenInv, TypeOK
<1>5. AtHand' /\ TreeIsFresh' /\ CaptureIsIsolated'
  BY <1>2, <1>3 DEF AtHand, TreeIsFresh, CaptureIsIsolated
<1>6. Refreshing'
  <2>1. Captured(proc.user) \ (proc.todo \ {c}) = Captured(proc.user) \ proc.todo
    BY <1>1 DEF Captured
  <2> QED
    BY <1>2, <1>3, <2>1 DEF GoldenInv, Refreshing, Written
<1>7. Testing' /\ Settled' /\ StillCurrent'
  BY <1>2, <1>3 DEF GoldenInv, Testing, Settled, StillCurrent, Free
<1> QED
  BY <1>4, <1>5, <1>6, <1>7 DEF GoldenInv

\* A fixture that was cut short is one that is not good.
LEMMA BadFixtureKeeps == ASSUME GoldenInv, BadFixture PROVE GoldenInv'
<1>1. PICK c \in proc.todo : fixtures[c.name] = Partial
                             /\ proc' = [proc EXCEPT !.todo = @ \ {c}, !.bad = TRUE]
  BY DEF BadFixture
<1>2. /\ proc.pc = "next" /\ proc.who = "test"
      /\ UNCHANGED <<fixtures, runtime, verdict, refreshed, build>>
  BY DEF BadFixture
<1>3. /\ proc'.todo = proc.todo \ {c} /\ DOMAIN proc' = DOMAIN proc
      /\ proc'.pc = proc.pc /\ proc'.who = proc.who /\ proc'.user = proc.user
      /\ proc'.bad = TRUE
  BY <1>1 DEF GoldenInv, TypeOK
<1>4. TypeOK'
  BY <1>2, <1>3 DEF GoldenInv, TypeOK
<1>5. AtHand' /\ TreeIsFresh' /\ CaptureIsIsolated'
  BY <1>2, <1>3 DEF AtHand, TreeIsFresh, CaptureIsIsolated
<1>6. Testing'
  <2>1. Listed(fixtures, proc.todo)
    BY <1>2 DEF GoldenInv, Testing, Free
  <2>2. PICK n \in DOMAIN fixtures : c = Entry(fixtures, n)
    BY <2>1 DEF Listed
  <2>3. c.name = n
    BY <2>2 DEF Entry
  <2>4. ~AllGood(fixtures, proc.user, build)
    BY <1>1, <2>3 DEF AllGood, Good
  <2>5. Listed(fixtures, proc.todo \ {c})
    BY <2>1 DEF Listed
  <2> QED
    BY <1>2, <1>3, <2>4, <2>5 DEF Testing, Free
<1>7. Refreshing' /\ Settled' /\ StillCurrent'
  BY <1>2, <1>3 DEF GoldenInv, Refreshing, Settled, StillCurrent, Free
<1> QED
  BY <1>4, <1>5, <1>6, <1>7 DEF GoldenInv

\* reset leaves nothing of what ran in the tree before, whatever that was.
LEMMA ResetKeeps == ASSUME GoldenInv, Reset PROVE GoldenInv'
<1>1. PICK c \in proc.todo :
         /\ proc.who = "refresh" => ~should_skip(c, proc.user)
         /\ proc.who = "test" => fixtures[c.name] # Partial
         /\ proc' = [proc EXCEPT !.pc = "prepare", !.at = c]
  BY DEF Reset, AtReset
<1>2. /\ proc.pc = "next" /\ removable(runtime[proc.who], proc.user)
      /\ runtime' = [runtime EXCEPT ![proc.who] = Fresh(proc.user)]
      /\ UNCHANGED <<fixtures, verdict, refreshed, build>>
  BY DEF Reset
<1>3. /\ proc'.pc = "prepare" /\ proc'.at = c /\ DOMAIN proc' = DOMAIN proc
      /\ proc'.who = proc.who /\ proc'.user = proc.user /\ proc'.todo = proc.todo
      /\ proc'.names = proc.names /\ proc'.bad = proc.bad
  BY <1>1 DEF GoldenInv, TypeOK
<1>4. proc.who \in {"refresh", "test"} /\ DOMAIN runtime = {"refresh", "test"}
  BY <1>2 DEF GoldenInv, TypeOK
<1>5. TypeOK'
  BY <1>2, <1>3, <1>4 DEF GoldenInv, TypeOK, PCs
<1>6. AtHand'
  BY <1>1, <1>2, <1>3 DEF AtHand
<1>7. TreeIsFresh' /\ CaptureIsIsolated'
  BY <1>2, <1>3, <1>4 DEF TreeIsFresh, CaptureIsIsolated
<1>8. Refreshing' /\ Testing'
  BY <1>2, <1>3 DEF GoldenInv, Refreshing, Testing, Free
<1>9. Settled' /\ StillCurrent'
  BY <1>2, <1>3 DEF GoldenInv, Settled, StillCurrent, Free
<1> QED
  BY <1>5, <1>6, <1>7, <1>8, <1>9 DEF GoldenInv

\* Where another user's tree is in the way nothing is captured.
LEMMA ResetRaisesKeeps == ASSUME GoldenInv, ResetRaises PROVE GoldenInv'
<1>1. PICK c \in proc.todo :
         proc' = IF proc.who = "refresh"
                 THEN [proc EXCEPT !.pc = "finally", !.bad = TRUE]
                 ELSE [proc EXCEPT !.todo = @ \ {c}, !.bad = TRUE]
  BY DEF ResetRaises
<1>2. /\ proc.pc = "next" /\ ~removable(runtime[proc.who], proc.user)
      /\ UNCHANGED <<fixtures, runtime, verdict, refreshed, build>>
  BY DEF ResetRaises
<1>3. /\ DOMAIN proc' = DOMAIN proc /\ proc'.bad = TRUE
      /\ proc'.who = proc.who /\ proc'.user = proc.user
      /\ proc'.pc = (IF proc.who = "refresh" THEN "finally" ELSE "next")
      /\ proc'.todo = IF proc.who = "refresh" THEN proc.todo ELSE proc.todo \ {c}
  BY <1>1, <1>2 DEF GoldenInv, TypeOK
<1>4. TypeOK'
  BY <1>2, <1>3 DEF GoldenInv, TypeOK, PCs
<1>5. AtHand' /\ TreeIsFresh' /\ CaptureIsIsolated'
  BY <1>3 DEF AtHand, TreeIsFresh, CaptureIsIsolated
<1>6. Refreshing'
  BY <1>2, <1>3 DEF GoldenInv, Refreshing
<1>7. Testing'
  <2> SUFFICES ASSUME proc.who = "test" PROVE Testing'
    BY <1>3 DEF Testing, Free
  <2>1. Listed(fixtures, proc.todo \ {c})
    BY <1>2 DEF GoldenInv, Testing, Listed, Free
  <2>2. ~Free(proc.user)'
    BY <1>2, <1>3 DEF Free
  <2> QED
    BY <1>2, <1>3, <2>1, <2>2 DEF Testing
<1>8. Settled' /\ StillCurrent'
  BY <1>2, <1>3 DEF GoldenInv, Settled, StillCurrent, Free
<1> QED
  BY <1>4, <1>5, <1>6, <1>7, <1>8 DEF GoldenInv

\* prepare_case adds the repository file of the case.
LEMMA PrepareKeeps == ASSUME GoldenInv, Prepare PROVE GoldenInv'
<1>1. /\ proc.pc = "prepare" /\ proc' = [proc EXCEPT !.pc = "run"]
      /\ runtime' = [runtime EXCEPT ![proc.who] =
                        prepare_case(runtime[proc.who], proc.at.argv)]
      /\ UNCHANGED <<fixtures, verdict, refreshed, build>>
  BY DEF Prepare
<1>3. /\ proc'.pc = "run" /\ proc'.at = proc.at /\ DOMAIN proc' = DOMAIN proc
      /\ proc'.who = proc.who /\ proc'.user = proc.user /\ proc'.todo = proc.todo
      /\ proc'.names = proc.names /\ proc'.bad = proc.bad
  BY <1>1 DEF GoldenInv, TypeOK
<1>4. /\ proc.who \in {"refresh", "test"} /\ DOMAIN runtime = {"refresh", "test"}
      /\ runtime[proc.who] = Fresh(proc.user)
  BY <1>1 DEF GoldenInv, TypeOK, TreeIsFresh
<1>5. TypeOK'
  BY <1>1, <1>3, <1>4 DEF GoldenInv, TypeOK, PCs
<1>6. AtHand'
  BY <1>1, <1>3 DEF GoldenInv, AtHand
<1>7. TreeIsFresh' /\ CaptureIsIsolated'
  BY <1>1, <1>3, <1>4 DEF TreeIsFresh, CaptureIsIsolated
<1>8. Refreshing' /\ Testing'
  <2>1. runtime'[proc.who].owner = proc.user /\ removable(runtime'[proc.who], proc.user)
    BY <1>1, <1>4 DEF prepare_case, Fresh, removable
  <2>2. removable(runtime[proc.who], proc.user)
    BY <1>4 DEF Fresh, removable
  <2> QED
    BY <1>1, <1>3, <2>1, <2>2 DEF GoldenInv, Refreshing, Testing, Free
<1>9. Settled' /\ StillCurrent'
  BY <1>1, <1>3 DEF GoldenInv, Settled, StillCurrent, Free
<1> QED
  BY <1>5, <1>6, <1>7, <1>8, <1>9 DEF GoldenInv

\* What rpmz prints in the prepared tree is what it prints in one of its own.
LEMMA RunKeeps == ASSUME GoldenInv, run_command PROVE GoldenInv'
<1> DEFINE out == Output(proc.at.argv, proc.who, runtime[proc.who], proc.user, build)
           tree == TreeAfter(proc.at.argv, runtime[proc.who])
<1>1. /\ proc.pc = "run" /\ proc' = [proc EXCEPT !.pc = "captured", !.out = out]
      /\ runtime' = [runtime EXCEPT ![proc.who] = tree]
      /\ UNCHANGED <<fixtures, verdict, refreshed, build>>
  BY DEF run_command
<1>2. out = Alone(proc.at, proc.who, proc.user, build)
  BY <1>1 DEF GoldenInv, TreeIsFresh, Alone
<1>r. removable(runtime[proc.who], proc.user) /\ removable(tree, proc.user)
  BY <1>1 DEF GoldenInv, TreeIsFresh, prepare_case, Fresh, removable, TreeAfter
<1> HIDE DEF out, tree
<1>3. /\ proc'.pc = "captured" /\ proc'.at = proc.at /\ DOMAIN proc' = DOMAIN proc
      /\ proc'.who = proc.who /\ proc'.user = proc.user /\ proc'.todo = proc.todo
      /\ proc'.names = proc.names /\ proc'.bad = proc.bad /\ proc'.out = out
  BY <1>1 DEF GoldenInv, TypeOK
<1>4. proc.at.argv \in Seq(Words)
  BY <1>1 DEF GoldenInv, AtHand, TypeOK
<1>5. TypeOK'
  BY <1>1, <1>3, <1>4 DEF GoldenInv, TypeOK, PCs
<1>6. AtHand'
  BY <1>1, <1>3 DEF GoldenInv, AtHand
<1>t. proc.who \in DOMAIN runtime
  BY <1>1 DEF GoldenInv, TypeOK
<1>7. TreeIsFresh' /\ CaptureIsIsolated'
  BY <1>1, <1>2, <1>3, <1>r, <1>t DEF TreeIsFresh, CaptureIsIsolated
<1>8. Refreshing' /\ Testing'
  BY <1>1, <1>3, <1>r, <1>t DEF GoldenInv, Refreshing, Testing, Free
<1>9. Settled' /\ StillCurrent'
  BY <1>1, <1>3 DEF GoldenInv, Settled, StillCurrent, Free
<1> QED
  BY <1>5, <1>6, <1>7, <1>8, <1>9 DEF GoldenInv

\* The fixture that is written is the case's, and it is no other case's.
LEMMA WriteKeeps == ASSUME GoldenInv, write_fixture PROVE GoldenInv'
<1> DEFINE c == proc.at
<1>1. /\ proc.pc = "captured" /\ proc.who = "refresh"
      /\ fixtures' = [n \in DOMAIN fixtures \cup {c.name} |->
                         IF n = c.name THEN fixtureOf(c, proc.out) ELSE fixtures[n]]
      /\ proc' = [proc EXCEPT !.pc = "next", !.todo = @ \ {c},
                              !.names = @ \cup {c.name}, !.at = "none", !.out = "none"]
      /\ UNCHANGED <<runtime, verdict, refreshed, build>>
  BY DEF write_fixture
<1>2. /\ c \in proc.todo /\ ~should_skip(c, proc.user)
      /\ proc.out = Alone(c, "refresh", proc.user, build)
      /\ c.argv \in Seq(Words)
  BY <1>1 DEF GoldenInv, AtHand, CaptureIsIsolated, TypeOK
<1> HIDE DEF c
<1>3. /\ proc'.pc = "next" /\ DOMAIN proc' = DOMAIN proc
      /\ proc'.who = proc.who /\ proc'.user = proc.user
      /\ proc'.todo = proc.todo \ {c} /\ proc'.names = proc.names \cup {c.name}
      /\ proc'.bad = proc.bad
  BY <1>1 DEF GoldenInv, TypeOK
<1>4. /\ proc.todo \subseteq build_cases /\ refreshed.user \notin Users /\ ~proc.bad
      /\ proc.names = {e.name : e \in Captured(proc.user) \ proc.todo}
      /\ Written(fixtures, proc.user, proc.todo, build)
  BY <1>1 DEF GoldenInv, Refreshing
<1>5. fixtureOf(c, proc.out).argv = c.argv
  BY DEF fixtureOf
<1>6. TypeOK'
  BY <1>1, <1>2, <1>3, <1>5 DEF GoldenInv, TypeOK, PCs
<1>7. AtHand' /\ TreeIsFresh' /\ CaptureIsIsolated'
  BY <1>3 DEF AtHand, TreeIsFresh, CaptureIsIsolated
<1>8. Captured(proc.user) \ (proc.todo \ {c}) = (Captured(proc.user) \ proc.todo) \cup {c}
  BY <1>2, <1>4 DEF Captured
<1>9. Written(fixtures', proc.user, proc.todo \ {c}, build)
  <2> SUFFICES ASSUME NEW e \in (Captured(proc.user) \ proc.todo) \cup {c}
               PROVE  /\ e.name \in DOMAIN fixtures'
                      /\ fixtures'[e.name] = fixtureOf(e, Alone(e, "refresh", proc.user, build))
    BY <1>8 DEF Written
  <2>1. CASE e = c
    BY <1>1, <1>2, <2>1
  <2>2. CASE e # c
    <3>1. e.name # c.name
      BY <1>2, <1>4, <2>2, CaseFacts DEF Captured
    <3> QED
      BY <1>1, <1>4, <2>2, <3>1 DEF Written
  <2> QED
    BY <2>1, <2>2
<1>10. Refreshing'
  BY <1>1, <1>3, <1>4, <1>8, <1>9 DEF Refreshing
<1>11. Testing' /\ StillCurrent'
  BY <1>1, <1>3, <1>4 DEF Testing, StillCurrent, Free
<1>12. Settled'
  BY <1>1, <1>3 DEF GoldenInv, Settled, Free
<1> QED
  BY <1>6, <1>7, <1>10, <1>11, <1>12 DEF GoldenInv

\* The comparison finds a fixture good or bad for what it is.
LEMMA CompareKeeps == ASSUME GoldenInv, CompareCapture PROVE GoldenInv'
<1> DEFINE c == proc.at
           bad == proc.bad \/ proc.out # fixtures[c.name].out
<1>1. /\ proc.pc = "captured" /\ proc.who = "test"
      /\ proc' = [proc EXCEPT !.pc = "next", !.todo = @ \ {c}, !.bad = bad,
                              !.at = "none", !.out = "none"]
      /\ UNCHANGED <<fixtures, runtime, verdict, refreshed, build>>
  BY DEF CompareCapture
<1>2. /\ c \in proc.todo /\ fixtures[c.name] # Partial
      /\ proc.out = Alone(c, "test", proc.user, build)
  BY <1>1 DEF GoldenInv, AtHand, CaptureIsIsolated
<1>3. /\ proc'.pc = "next" /\ DOMAIN proc' = DOMAIN proc
      /\ proc'.who = proc.who /\ proc'.user = proc.user
      /\ proc'.todo = proc.todo \ {c}
      /\ proc'.bad = bad
  <2> HIDE DEF c, bad
  <2> QED
    BY <1>1 DEF GoldenInv, TypeOK
<1>4. bad \in BOOLEAN
  BY DEF GoldenInv, TypeOK
<1>5. /\ Listed(fixtures, proc.todo)
      /\ ~proc.bad => Looked(fixtures, proc.user, proc.todo, build)
      /\ proc.bad => ~AllGood(fixtures, proc.user, build)
  BY <1>1 DEF GoldenInv, Testing, TreeIsFresh, Free
<1> HIDE DEF c
<1>6. PICK n \in DOMAIN fixtures : c = Entry(fixtures, n)
  BY <1>2, <1>5 DEF Listed
<1>7. c.name = n /\ c.argv = fixtures[n].argv
  BY <1>6 DEF Entry
<1>8. Alone(fixtures[n], "test", proc.user, build) = Alone(c, "test", proc.user, build)
  BY <1>7 DEF Alone
<1>9. Good(fixtures[n], proc.user, build) <=> proc.out = fixtures[c.name].out
  BY <1>2, <1>7, <1>8 DEF Good
<1>10. ~bad => Looked(fixtures, proc.user, proc.todo \ {c}, build)
  <2>1. \A m \in DOMAIN fixtures : Entry(fixtures, m) = c => m = n
    BY <1>7 DEF Entry
  <2> QED
    BY <1>5, <1>9, <2>1 DEF Looked
<1>11. bad => ~AllGood(fixtures, proc.user, build)
  BY <1>5, <1>9 DEF AllGood
<1>12. Listed(fixtures, proc.todo \ {c})
  BY <1>5 DEF Listed
<1> HIDE DEF bad
<1>13. TypeOK'
  BY <1>1, <1>3, <1>4 DEF GoldenInv, TypeOK, PCs
<1>14. AtHand' /\ TreeIsFresh' /\ CaptureIsIsolated'
  BY <1>3 DEF AtHand, TreeIsFresh, CaptureIsIsolated
<1>15. Testing' /\ Refreshing'
  BY <1>1, <1>3, <1>10, <1>11, <1>12 DEF Testing, Refreshing, Free
<1>16. Settled' /\ StillCurrent'
  BY <1>1, <1>3 DEF GoldenInv, Settled, StillCurrent, Free
<1> QED
  BY <1>13, <1>14, <1>15, <1>16 DEF GoldenInv

\* What is left after the stale fixtures are gone is what was captured.
LEMMA StaleKeeps == ASSUME GoldenInv, remove_stale_fixtures PROVE GoldenInv'
<1>1. /\ proc.pc = "next" /\ proc.who = "refresh" /\ proc.todo = {}
      /\ fixtures' = [n \in DOMAIN fixtures \cap proc.names |-> fixtures[n]]
      /\ proc' = [proc EXCEPT !.pc = "finally"]
      /\ UNCHANGED <<runtime, verdict, refreshed, build>>
  BY DEF remove_stale_fixtures
<1>2. /\ proc'.pc = "finally" /\ DOMAIN proc' = DOMAIN proc
      /\ proc'.who = proc.who /\ proc'.user = proc.user /\ proc'.todo = proc.todo
      /\ proc'.bad = proc.bad
  BY <1>1 DEF GoldenInv, TypeOK
<1>3. /\ refreshed.user \notin Users
      /\ proc.names = {e.name : e \in Captured(proc.user)}
      /\ \A e \in Captured(proc.user) :
            /\ e.name \in DOMAIN fixtures
            /\ fixtures[e.name] = fixtureOf(e, Alone(e, "refresh", proc.user, build))
  BY <1>1 DEF GoldenInv, Refreshing, Written
<1>4. Exact(fixtures', proc.user, build)
  <2>1. DOMAIN fixtures' = {e.name : e \in Captured(proc.user)}
    BY <1>1, <1>3
  <2>2. ASSUME NEW e \in Captured(proc.user)
        PROVE  fixtures'[e.name] = fixtureOf(e, Alone(e, "refresh", proc.user, build))
    BY <1>1, <1>3
  <2> QED
    BY <2>1, <2>2 DEF Exact
<1>5. TypeOK'
  BY <1>1, <1>2 DEF GoldenInv, TypeOK, PCs
<1>6. AtHand' /\ TreeIsFresh' /\ CaptureIsIsolated'
  BY <1>2 DEF AtHand, TreeIsFresh, CaptureIsIsolated
<1>7. Refreshing' /\ Testing' /\ StillCurrent'
  BY <1>1, <1>2, <1>3, <1>4 DEF Refreshing, Testing, StillCurrent, Free
<1>8. Settled'
  BY <1>1, <1>2 DEF GoldenInv, Settled, Free
<1> QED
  BY <1>5, <1>6, <1>7, <1>8 DEF GoldenInv

\* The last test is done.
LEMMA TestsDoneKeeps == ASSUME GoldenInv, TestsDone PROVE GoldenInv'
<1>1. /\ proc.pc = "next" /\ proc.who = "test" /\ proc.todo = {}
      /\ proc' = [proc EXCEPT !.pc = "finally"]
      /\ UNCHANGED <<fixtures, runtime, verdict, refreshed, build>>
  BY DEF TestsDone
<1>2. /\ proc'.pc = "finally" /\ DOMAIN proc' = DOMAIN proc
      /\ proc'.who = proc.who /\ proc'.user = proc.user /\ proc'.todo = proc.todo
      /\ proc'.bad = proc.bad
  BY <1>1 DEF GoldenInv, TypeOK
<1>3. TypeOK'
  BY <1>1, <1>2 DEF GoldenInv, TypeOK, PCs
<1>4. AtHand' /\ TreeIsFresh' /\ CaptureIsIsolated'
  BY <1>2 DEF AtHand, TreeIsFresh, CaptureIsIsolated
<1>5. Refreshing' /\ Testing' /\ Settled' /\ StillCurrent'
  BY <1>1, <1>2 DEF GoldenInv, Refreshing, Testing, Settled, StillCurrent, Free
<1> QED
  BY <1>3, <1>4, <1>5 DEF GoldenInv

\* The verdict that a run ends with.
LEMMA FinallyKeeps == ASSUME GoldenInv, Finally PROVE GoldenInv'
<1> DEFINE clean == removable(runtime[proc.who], proc.user)
           good == ~proc.bad /\ clean
<1>1. /\ proc.pc = "finally" /\ proc' = Idle
      /\ runtime' = [runtime EXCEPT ![proc.who] = IF clean THEN NoTree ELSE @]
      /\ verdict' = [who |-> proc.who, user |-> proc.user,
                     result |-> IF good THEN "ok" ELSE "failed"]
      /\ refreshed' = IF proc.who = "refresh" /\ good
                      THEN [user |-> proc.user, by |-> build] ELSE refreshed
      /\ UNCHANGED <<fixtures, build>>
  BY DEF Finally
<1>2. /\ verdict'.who = proc.who /\ verdict'.user = proc.user
      /\ verdict'.result = "ok" <=> good
  BY <1>1
<1>3. /\ proc.who \in {"refresh", "test"} /\ proc.user \in Users
      /\ proc.bad \in BOOLEAN /\ DOMAIN runtime = {"refresh", "test"}
  BY <1>1 DEF GoldenInv, TypeOK
<1>4. TypeOK'
  BY <1>1, <1>3, IdleFacts DEF GoldenInv, TypeOK, PCs
<1>5. AtHand' /\ TreeIsFresh' /\ CaptureIsIsolated' /\ Refreshing' /\ Testing'
  BY <1>1, IdleFacts DEF AtHand, TreeIsFresh, CaptureIsIsolated, Refreshing, Testing
<1>6. CASE proc.who = "refresh"
  <2>1. ~proc.bad => Exact(fixtures, proc.user, build)
    BY <1>1, <1>6 DEF GoldenInv, Refreshing
  <2>2. Settled'
    BY <1>1, <1>2, <1>6, <2>1, IdleFacts DEF Settled
  <2>3. StillCurrent'
    BY <1>1, <1>6, <2>1 DEF GoldenInv, StillCurrent
  <2> QED
    BY <1>4, <1>5, <2>2, <2>3 DEF GoldenInv
<1>7. CASE proc.who = "test"
  <2>1. good <=> AllGood(fixtures, proc.user, build) /\ Free(proc.user)
    <3>1. /\ proc.todo = {}
          /\ ~proc.bad => Looked(fixtures, proc.user, proc.todo, build)
          /\ proc.bad => ~(AllGood(fixtures, proc.user, build) /\ Free(proc.user))
      BY <1>1, <1>7 DEF GoldenInv, Testing
    <3>2. ~proc.bad => AllGood(fixtures, proc.user, build)
      BY <3>1 DEF Looked, AllGood
    <3> QED
      BY <1>7, <3>1, <3>2 DEF Free
  <2>2. removable(runtime'["test"], proc.user) <=> clean
    <3>1. CASE clean
      BY <1>1, <1>3, <1>7, <3>1 DEF removable, NoTree
    <3>2. CASE ~clean
      <4>1. runtime'["test"] = runtime["test"]
        BY <1>1, <1>3, <1>7, <3>2
      <4> QED
        BY <1>7, <3>2, <4>1
    <3> QED
      BY <3>1, <3>2
  <2>4. good <=> AllGood(fixtures, proc.user, build) /\ removable(runtime'["test"], proc.user)
    BY <1>7, <2>1, <2>2 DEF Free
  <2> HIDE DEF good, clean
  <2>2a. Settled'
    BY <1>1, <1>2, <1>3, <1>7, <2>4, IdleFacts DEF Settled, Free
  <2>3. StillCurrent'
    BY <1>1, <1>7 DEF GoldenInv, StillCurrent
  <2> QED
    BY <1>4, <1>5, <2>2a, <2>3 DEF GoldenInv
<1> QED
  BY <1>3, <1>6, <1>7

\* A refresh that is cut short has made no promise about its fixtures.
LEMMA CutShortFacts ==
    ASSUME GoldenInv, CutShort
    PROVE  /\ UNCHANGED <<runtime, verdict, refreshed, build>>
           /\ fixtures' = fixtures \/ (proc.pc = "captured" /\ proc.who = "refresh")
           /\ \A n \in DOMAIN fixtures' : fixtures'[n].argv \in Seq(Words)
<1>1. CASE fixtures' = fixtures
  BY <1>1 DEF CutShort, GoldenInv, TypeOK
<1>2. CASE /\ proc.pc = "captured" /\ proc.who = "refresh"
           /\ fixtures' = [n \in DOMAIN fixtures \cup {proc.at.name} |->
                             IF n = proc.at.name THEN Partial ELSE fixtures[n]]
  <2>1. Partial.argv \in Seq(Words)
    BY DEF Partial
  <2> QED
    BY <1>2, <2>1 DEF CutShort, GoldenInv, TypeOK
<1> QED
  BY <1>1, <1>2 DEF CutShort

\* An exception of the refresh goes to its finally clause.
LEMMA RaiseKeeps == ASSUME GoldenInv, RefreshRaises PROVE GoldenInv'
<1>1. /\ proc.who = "refresh" /\ proc.pc \notin {"idle", "finally"}
      /\ proc' = [proc EXCEPT !.pc = "finally", !.bad = TRUE]
      /\ UNCHANGED <<runtime, verdict, refreshed, build>>
      /\ \A n \in DOMAIN fixtures' : fixtures'[n].argv \in Seq(Words)
  BY CutShortFacts DEF RefreshRaises
<1>2. /\ proc'.pc = "finally" /\ DOMAIN proc' = DOMAIN proc
      /\ proc'.who = proc.who /\ proc'.user = proc.user /\ proc'.todo = proc.todo
      /\ proc'.bad = TRUE
  BY <1>1 DEF GoldenInv, TypeOK
<1>3. proc.todo \subseteq build_cases /\ refreshed.user \notin Users
  BY <1>1 DEF GoldenInv, Refreshing
<1>4. TypeOK'
  BY <1>1, <1>2 DEF GoldenInv, TypeOK, PCs
<1>5. AtHand' /\ TreeIsFresh' /\ CaptureIsIsolated'
  BY <1>2 DEF AtHand, TreeIsFresh, CaptureIsIsolated
<1>6. Refreshing' /\ Testing' /\ StillCurrent'
  BY <1>1, <1>2, <1>3 DEF Refreshing, Testing, StillCurrent, Free
<1>7. Settled'
  BY <1>1, <1>2 DEF GoldenInv, Settled, Free
<1> QED
  BY <1>4, <1>5, <1>6, <1>7 DEF GoldenInv

\* A killed run leaves its tree behind, and no verdict.
LEMMA KillKeeps == ASSUME GoldenInv, Kill PROVE GoldenInv'
<1>1. /\ proc.pc # "idle" /\ proc' = Idle
      /\ UNCHANGED <<runtime, verdict, refreshed, build>>
      /\ fixtures' = fixtures \/ (proc.pc = "captured" /\ proc.who = "refresh")
      /\ \A n \in DOMAIN fixtures' : fixtures'[n].argv \in Seq(Words)
  BY CutShortFacts DEF Kill
<1>2. TypeOK'
  BY <1>1, IdleFacts DEF GoldenInv, TypeOK, PCs
<1>3. AtHand' /\ TreeIsFresh' /\ CaptureIsIsolated' /\ Refreshing' /\ Testing'
  BY <1>1, IdleFacts DEF AtHand, TreeIsFresh, CaptureIsIsolated, Refreshing, Testing, Free
<1>4. Settled'
  BY <1>1, IdleFacts DEF GoldenInv, Settled, Free
<1>5. StillCurrent'
  <2>1. proc.who = "refresh" => refreshed.user \notin Users
    BY <1>1 DEF GoldenInv, Refreshing
  <2> QED
    BY <1>1, <2>1 DEF GoldenInv, StillCurrent
<1> QED
  BY <1>2, <1>3, <1>4, <1>5 DEF GoldenInv

\* A new build between two runs.
LEMMA RebuildKeeps == ASSUME GoldenInv, Rebuild PROVE GoldenInv'
<1>1. /\ proc.pc = "idle" /\ verdict'.who = "none"
      /\ UNCHANGED <<fixtures, runtime, proc, refreshed>>
  BY DEF Rebuild
<1>2. TypeOK'
  BY <1>1 DEF GoldenInv, TypeOK
<1>3. AtHand' /\ TreeIsFresh' /\ CaptureIsIsolated' /\ Refreshing' /\ Testing'
  BY <1>1 DEF AtHand, TreeIsFresh, CaptureIsIsolated, Refreshing, Testing
<1>4. Settled' /\ StillCurrent'
  BY <1>1 DEF GoldenInv, Settled, StillCurrent
<1> QED
  BY <1>2, <1>3, <1>4 DEF GoldenInv

\* The invariant is kept by every step of the refresh, the test and what happens
\* around them.
LEMMA NextGolden == GoldenInv /\ [Next]_vars => GoldenInv'
<1> SUFFICES ASSUME GoldenInv, [Next]_vars PROVE GoldenInv'
  OBVIOUS
<1>1. CASE UNCHANGED vars
  <2>1. UNCHANGED <<fixtures, runtime, proc, verdict, refreshed, build>>
    BY <1>1 DEF vars
  <2>2. TypeOK' /\ AtHand' /\ TreeIsFresh' /\ CaptureIsIsolated'
    BY <2>1 DEF GoldenInv, TypeOK, AtHand, TreeIsFresh, CaptureIsIsolated
  <2>3. Refreshing' /\ Testing' /\ Settled' /\ StillCurrent'
    BY <2>1 DEF GoldenInv, Refreshing, Testing, Settled, StillCurrent, Free
  <2> QED
    BY <2>2, <2>3 DEF GoldenInv
<1>2. CASE Next
  BY <1>2, StartKeeps, SkipKeeps, BadFixtureKeeps, ResetKeeps, ResetRaisesKeeps,
     PrepareKeeps, RunKeeps, WriteKeeps, CompareKeeps, StaleKeeps, TestsDoneKeeps, FinallyKeeps, RaiseKeeps,
     KillKeeps, RebuildKeeps
  DEF Next, Users
<1> QED
  BY <1>1, <1>2

\* The invariant holds throughout.
LEMMA GoldenAlways == Spec => []GoldenInv
  BY InitGolden, NextGolden, PTL DEF Spec

\* Every capture, of a refresh and of a test, is what rpmz prints in a tree that
\* nobody has used: for every list of cases, in whatever order they run and however
\* often a run before was killed.
THEOREM CapturesAreIsolated == Spec => []CaptureIsIsolated
<1>1. GoldenInv => CaptureIsIsolated
  BY DEF GoldenInv
<1> QED
  BY <1>1, GoldenAlways, PTL

\* A refresh that ends well leaves exactly the fixtures of the cases its user can
\* run, whatever fixtures it found.
THEOREM RefreshesAreExact == Spec => []RefreshIsExact
<1>1. GoldenInv => RefreshIsExact
  BY DEF GoldenInv, Settled, RefreshIsExact, Exact, Captured, Free
<1> QED
  BY <1>1, GoldenAlways, PTL

\* A test run passes exactly when every fixture is what the build prints in the
\* test's tree and no other user's tree is in the way; so it passes after a refresh
\* by the same user of the same build if the build mentions no path.
THEOREM TestRunsAreExact == Spec => []TestsAreExact
<1>1. GoldenInv => TestsAreExact
  <2> SUFFICES ASSUME GoldenInv, verdict.who = "test"
               PROVE  TestsAreExact
    BY DEF TestsAreExact
  <2>1. /\ verdict.user \in Users
        /\ verdict.result = "ok" <=>
              AllGood(fixtures, verdict.user, build) /\ Free(verdict.user)
    BY DEF GoldenInv, Settled
  <2>2. ASSUME refreshed = [user |-> verdict.user, by |-> build], build \notin Mentioning
        PROVE  AllGood(fixtures, verdict.user, build)
    <3>1. Exact(fixtures, verdict.user, build)
      BY <2>1, <2>2 DEF GoldenInv, StillCurrent
    <3> QED
      BY <2>2, <3>1, ExactIsGood
  <2>3. AllGood(fixtures, verdict.user, build) <=>
            \A n \in DOMAIN fixtures :
                /\ fixtures[n] # Partial
                /\ fixtures[n].out = Alone(fixtures[n], "test", verdict.user, build)
    BY DEF AllGood, Good
  <2> QED
    BY <2>1, <2>2, <2>3 DEF TestsAreExact, Free
<1> QED
  BY <1>1, GoldenAlways, PTL

\* A fixture that is whole names a command line.
Named == \A n \in DOMAIN fixtures : fixtures[n] = Partial \/ fixtures[n].argv # <<>>

LEMMA NamedAlways == Spec => []Named
<1>1. Init => Named
  BY DEF Init, Named
<1>2. ASSUME GoldenInv, Named, [Next]_vars PROVE Named'
  <2>1. CASE UNCHANGED fixtures
    BY <1>2, <2>1 DEF Named
  <2>2. CASE write_fixture
    <3>1. proc.at.argv # <<>>
      BY <1>2, <2>2, CaseFacts DEF GoldenInv, AtHand, Refreshing, write_fixture
    <3>2. fixtureOf(proc.at, proc.out).argv # <<>>
      BY <3>1 DEF fixtureOf
    <3> QED
      BY <1>2, <2>2, <3>2 DEF write_fixture, Named
  <2>3. CASE remove_stale_fixtures
    BY <1>2, <2>3 DEF remove_stale_fixtures, Named
  <2>4. CASE CutShort
    BY <1>2, <2>4 DEF CutShort, Named
  <2> QED
    BY <1>2, <2>1, <2>2, <2>3, <2>4
    DEF Next, vars, StartRefresh, StartTest, Start, SkipCase, BadFixture, Reset,
        ResetRaises, Prepare, run_command, CompareCapture, TestsDone, Finally,
        RefreshRaises, Kill, Rebuild
<1> QED
  BY <1>1, <1>2, GoldenAlways, PTL DEF Spec

\* What a fixture shows is of the command its case names, where the harness knows
\* that command; otherwise at worst of the unknown command "-c": for every case,
\* and every command line that was ever recorded.
THEOREM CommandsAreReached == Spec => []CasesReachTheirCommand
<1>1. GoldenInv /\ Named => CasesReachTheirCommand
  <2> SUFFICES ASSUME GoldenInv, Named, proc.pc = "captured"
               PROVE  LET named == classify(proc.at.argv)
                      IN  /\ named \in {"compatibility", "repo_config"} =>
                                 proc.out.action = named
                          /\ proc.out.action \in {named, "unknown"}
    BY DEF CasesReachTheirCommand
  <2>1. proc.who \in {"refresh", "test"} /\ proc.at \in proc.todo
    BY DEF GoldenInv, TypeOK, AtHand
  <2>2. proc.at.argv \in Seq(Words)
    BY <2>1 DEF GoldenInv, TypeOK
  <2>3. proc.at.argv # <<>>
    <3>1. CASE proc.who = "refresh"
      BY <2>1, <3>1, CaseFacts DEF GoldenInv, Refreshing
    <3>2. CASE proc.who = "test"
      <4>1. PICK n \in DOMAIN fixtures : proc.at = Entry(fixtures, n)
        BY <2>1, <3>2 DEF GoldenInv, Testing, Listed
      <4>2. proc.at.name = n /\ proc.at.argv = fixtures[n].argv
        BY <4>1 DEF Entry
      <4>3. fixtures[n] # Partial
        BY <3>2, <4>2 DEF GoldenInv, AtHand
      <4> QED
        BY <4>2, <4>3 DEF Named
    <3> QED
      BY <2>1, <3>1, <3>2
  <2>4. proc.out = Alone(proc.at, proc.who, proc.user, build)
    BY DEF GoldenInv, CaptureIsIsolated
  <2>5. proc.out.action = classify(decorate_rpmz_cmd_for_test(proc.at.argv,
                                        Conf(proc.who), FALSE, FALSE))
    BY <2>4 DEF Alone, Output
  <2>6. Conf(proc.who) \in Words
    BY <2>1 DEF Words
  <2> QED
    BY <2>2, <2>3, <2>5, <2>6, ActionKept
<1> QED
  BY <1>1, GoldenAlways, NamedAlways, PTL
=============================================================================
