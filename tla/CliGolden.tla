----------------------------- MODULE CliGolden -----------------------------
(***************************************************************************)
(* The golden outputs of the command line: pytests/cli_testlib.py (how the *)
(* tests run rpmz), pytests/scripts/refresh_cli_golden.py (capture every   *)
(* case into a fixture) and pytests/tests/test_cli_golden.py (run every    *)
(* fixture again and compare).  The refresh and the test run rpmz in a     *)
(* runtime tree of their own, which they reset before every command and    *)
(* which a user cannot remove when another user left it there.             *)
(*                                                                         *)
(* What rpmz prints may depend on its arguments, on everything it finds in *)
(* the runtime tree, on the user where the case says so, on the build, and *)
(* on where the tree is if the build mentions the path of its              *)
(* configuration.                                                          *)
(***************************************************************************)
EXTENDS Naturals, Sequences, FiniteSets

CONSTANTS
    BaseCases,      \* [name, argv, top, rootOnly] as build_cases lists them
    Stale,          \* names of fixtures that are no longer cases
    Mentioning,     \* the builds whose output mentions the configuration's path
    MaxRuns,        \* bound on the refreshes and test runs of a behaviour
    MaxFaults       \* bound on failures, kills and rebuilds

\* Every case is a command, and no two have a name in common.
ASSUME CasesAssumption ==
    /\ \A b \in BaseCases : b.argv \in Seq(STRING) /\ b.argv # <<>>
    /\ \A b, c \in BaseCases : b.name = c.name => b = c

VARIABLES
    fixtures,   \* the fixture files
    runtime,    \* the runtime trees of the refresh and of the test
    proc,       \* the running refresh or test
    verdict,    \* of the last refresh or test that ended
    refreshed,  \* the user and build of a refresh that is still current
    build, runs, faults

vars == <<fixtures, runtime, proc, verdict, refreshed, build, runs, faults>>

-----------------------------------------------------------------------------
(* cli_testlib.py.                                                         *)

\* The configuration is in the runtime tree, whose name differs.
Conf(where) == IF where = "refresh" THEN "cli-golden-runtime/repo/rpmz.conf"
                                    ELSE "cli-golden-test-runtime/repo/rpmz.conf"
TopLevelCommands == {"auto", "replay", "repo-config", "tdnf"}

In(x, s) == \E i \in 1..Len(s) : s[i] = x
insertAt(s, k, t) == SubSeq(s, 1, k) \o t \o SubSeq(s, k + 1, Len(s))

WithCommand(argv, compatibility) ==
    IF compatibility /\ Len(argv) > 1 /\ argv[2] \notin TopLevelCommands
    THEN insertAt(argv, 1, <<"tdnf">>)
    ELSE argv

WithConfig_AtOne(argv, conf, noconfig) ==
    IF noconfig \/ In("-c", argv) \/ In("--config", argv) THEN argv
    ELSE insertAt(argv, 1, <<"-c", conf>>)

WithConfig(argv, conf, noconfig) ==
    IF noconfig \/ In("-c", argv) \/ In("--config", argv) THEN argv
    ELSE insertAt(argv,
                  IF Len(argv) > 1 /\ argv[2] \in {"repo-config", "tdnf"}
                  THEN 2 ELSE 1,
                  <<"-c", conf>>)

decorate_rpmz_cmd_for_test(cmd, conf, noconfig, compatibility) ==
    IF cmd[1] # "rpmz" THEN cmd
    ELSE WithConfig(WithCommand(cmd, compatibility), conf, noconfig)

\* The first token that is neither an option nor the argument of one.
_get_repo_config_action(argv) ==
    LET WithArg == {"-c", "--config", "-f", "--file"}
        Option == WithArg \cup {"-j", "--bad-option"}
        arg[i \in 1..Len(argv)] ==
            i > 1 /\ argv[i - 1] \in WithArg /\ ~arg[i - 1]
        at == {i \in 1..Len(argv) : ~arg[i] /\ argv[i] \notin Option}
    IN  IF at = {} THEN "none"
        ELSE argv[CHOOSE i \in at : \A j \in at : i <= j]

NoTree == [there |-> FALSE]

\* What cleanup can remove: rmtree raises on what another user owns.
removable(tree, user) == tree.there => user \in {"root", tree.owner}

\* What reset makes: an empty tree with the configuration.
Fresh(user) == [there |-> TRUE, owner |-> user, repo |-> "none", cache |-> "empty"]

\* The repository file that a repo-config case starts from.
seed(argv) ==
    IF Len(argv) < 2 \/ SubSeq(argv, 1, 2) # <<"rpmz", "repo-config">>
    THEN "none"
    ELSE LET action == _get_repo_config_action(SubSeq(argv, 3, Len(argv)))
         IN  CASE action \in {"edit", "get", "dump"} -> "disabled"
               [] action = "remove" -> "gpgcheck"
               [] action = "removerepo" -> "enabled"
               [] OTHER -> "none"

prepare_case(tree, argv) == [tree EXCEPT !.repo = seed(argv)]

-----------------------------------------------------------------------------
(* The cases of refresh_cli_golden.py.                                     *)

\* build_cases puts "tdnf" into every case that is not a top-level one.
caseOf(b) ==
    [name |-> b.name, rootOnly |-> b.rootOnly,
     argv |-> IF ~b.top /\ b.argv[2] # "repo-config"
              THEN insertAt(b.argv, 1, <<"tdnf">>) ELSE b.argv]

build_cases == {caseOf(b) : b \in BaseCases}

should_skip(c, user) == c.rootOnly /\ user # "root"

-----------------------------------------------------------------------------
(* rpmz.                                                                   *)

\* What main makes of the word behind the program's name.  No case has the word
\* "replay", which it looks for among the others.
classify(argv) ==
    IF Len(argv) = 1 THEN "missing"
    ELSE CASE argv[2] = "tdnf" -> "compatibility"
           [] argv[2] = "auto" -> "auto"
           [] argv[2] = "repo-config" -> "repo_config"
           [] argv[2] \in {"--help", "-h"} -> "help"
           [] argv[2] = "--version" -> "version"
           [] OTHER -> "unknown"

NeedsRoot(argv) == \E c \in build_cases : c.rootOnly /\ c.argv = argv

\* capture passes compatibility=False.
Output(argv, where, tree, user, by) ==
    LET d == decorate_rpmz_cmd_for_test(argv, Conf(where), FALSE, FALSE)
    IN  [argv |-> argv, action |-> classify(d),
         conf |-> IF by \in Mentioning /\ In(Conf(where), d) THEN Conf(where)
                                                          ELSE "any",
         repo |-> tree.repo, cache |-> tree.cache,
         user |-> IF NeedsRoot(argv) THEN user ELSE "any", by |-> by]

\* It may write its cache, and repo-config writes the repository file.
TreeAfter(argv, tree) ==
    [tree EXCEPT !.cache = "used",
                 !.repo = IF In("create", argv) THEN "created"
                          ELSE IF In("edit", argv) THEN "edited"
                          ELSE IF In("removerepo", argv) THEN "none" ELSE @]

-----------------------------------------------------------------------------
(* refresh_cli_golden.py.                                                  *)

Partial == [argv |-> <<>>, out |-> "partial"]

Idle == [who |-> "none", user |-> "none", pc |-> "idle", todo |-> {},
         names |-> {}, at |-> "none", out |-> "none", bad |-> FALSE]

Init ==
    /\ fixtures = [n \in Stale |-> Partial]
    /\ runtime = [d \in {"refresh", "test"} |-> NoTree]
    /\ proc = Idle
    /\ verdict = [who |-> "none", user |-> "none", result |-> "none"]
    /\ refreshed = [user |-> "none", by |-> 0]
    /\ build = 1
    /\ runs = 0
    /\ faults = 0

Start(who, user, todo) ==
    /\ proc.pc = "idle"
    /\ runs < MaxRuns
    /\ runs' = runs + 1
    /\ proc' = [Idle EXCEPT !.who = who, !.user = user, !.pc = "next",
                            !.todo = todo]
    /\ verdict' = [who |-> "none", user |-> "none", result |-> "none"]
    /\ UNCHANGED <<fixtures, runtime, build, faults>>

StartRefresh(user) ==
    /\ Start("refresh", user, build_cases)
    /\ refreshed' = [user |-> "none", by |-> 0]

\* The fixtures are listed when the test module is loaded.
StartTest(user) ==
    /\ DOMAIN fixtures # {}
    /\ Start("test", user, {[name |-> n, argv |-> fixtures[n].argv]
                              : n \in DOMAIN fixtures})
    /\ UNCHANGED refreshed

SkipCase ==
    /\ proc.pc = "next" /\ proc.who = "refresh"
    /\ \E c \in proc.todo :
           /\ should_skip(c, proc.user)
           /\ proc' = [proc EXCEPT !.todo = @ \ {c}]
    /\ UNCHANGED <<fixtures, runtime, verdict, refreshed, build, runs, faults>>

\* json.load of a fixture that was cut short fails that test.
BadFixture ==
    /\ proc.pc = "next" /\ proc.who = "test"
    /\ \E c \in proc.todo :
           /\ fixtures[c.name] = Partial
           /\ proc' = [proc EXCEPT !.todo = @ \ {c}, !.bad = TRUE]
    /\ UNCHANGED <<fixtures, runtime, verdict, refreshed, build, runs, faults>>

\* The next case to be captured, and its tree.
AtReset(c) ==
    /\ proc.pc = "next"
    /\ proc.who = "refresh" => ~should_skip(c, proc.user)
    /\ proc.who = "test" => fixtures[c.name] # Partial

Reset_KeepsCache ==
    /\ proc.pc = "next" /\ removable(runtime[proc.who], proc.user)
    /\ \E c \in proc.todo :
           /\ AtReset(c)
           /\ proc' = [proc EXCEPT !.pc = "prepare", !.at = c]
    /\ runtime' = [runtime EXCEPT ![proc.who] =
                      IF @.there THEN [@ EXCEPT !.repo = "none"]
                                 ELSE Fresh(proc.user)]
    /\ UNCHANGED <<fixtures, verdict, refreshed, build, runs, faults>>

\* capture: reset, prepare_case, run_command.
Reset ==
    /\ proc.pc = "next" /\ removable(runtime[proc.who], proc.user)
    /\ \E c \in proc.todo :
           /\ AtReset(c)
           /\ proc' = [proc EXCEPT !.pc = "prepare", !.at = c]
    /\ runtime' = [runtime EXCEPT ![proc.who] = Fresh(proc.user)]
    /\ UNCHANGED <<fixtures, verdict, refreshed, build, runs, faults>>

\* reset raises: the end of a refresh, and of one test.
ResetRaises ==
    /\ proc.pc = "next" /\ ~removable(runtime[proc.who], proc.user)
    /\ \E c \in proc.todo :
           /\ AtReset(c)
           /\ proc' = IF proc.who = "refresh"
                      THEN [proc EXCEPT !.pc = "finally", !.bad = TRUE]
                      ELSE [proc EXCEPT !.todo = @ \ {c}, !.bad = TRUE]
    /\ UNCHANGED <<fixtures, runtime, verdict, refreshed, build, runs, faults>>

Prepare ==
    /\ proc.pc = "prepare"
    /\ runtime' = [runtime EXCEPT ![proc.who] = prepare_case(@, proc.at.argv)]
    /\ proc' = [proc EXCEPT !.pc = "run"]
    /\ UNCHANGED <<fixtures, verdict, refreshed, build, runs, faults>>

run_command ==
    /\ proc.pc = "run"
    /\ LET c == proc.at
           tree == runtime[proc.who]
       IN  /\ proc' = [proc EXCEPT !.pc = "captured",
                          !.out = Output(c.argv, proc.who, tree, proc.user, build)]
           /\ runtime' = [runtime EXCEPT ![proc.who] = TreeAfter(c.argv, tree)]
    /\ UNCHANGED <<fixtures, verdict, refreshed, build, runs, faults>>

fixtureOf(c, out) == [argv |-> c.argv, out |-> out]

write_fixture ==
    /\ proc.pc = "captured" /\ proc.who = "refresh"
    /\ fixtures' = [n \in DOMAIN fixtures \cup {proc.at.name} |->
                       IF n = proc.at.name THEN fixtureOf(proc.at, proc.out)
                                           ELSE fixtures[n]]
    /\ proc' = [proc EXCEPT !.pc = "next", !.todo = @ \ {proc.at},
                            !.names = @ \cup {proc.at.name}, !.at = "none",
                            !.out = "none"]
    /\ UNCHANGED <<runtime, verdict, refreshed, build, runs, faults>>

CompareCapture_LastWins ==
    /\ proc.pc = "captured" /\ proc.who = "test"
    /\ proc' = [proc EXCEPT !.pc = "next", !.todo = @ \ {proc.at},
                   !.bad = proc.out # fixtures[proc.at.name].out,
                   !.at = "none", !.out = "none"]
    /\ UNCHANGED <<fixtures, runtime, verdict, refreshed, build, runs,
                   faults>>

\* test_cli_golden: stdout, stderr and the return value.
CompareCapture ==
    /\ proc.pc = "captured" /\ proc.who = "test"
    /\ proc' = [proc EXCEPT !.pc = "next", !.todo = @ \ {proc.at},
                   !.bad = @ \/ proc.out # fixtures[proc.at.name].out,
                   !.at = "none", !.out = "none"]
    /\ UNCHANGED <<fixtures, runtime, verdict, refreshed, build, runs,
                   faults>>

remove_stale_fixtures_Partial ==
    /\ proc.pc = "next" /\ proc.who = "refresh" /\ proc.todo = {}
    /\ fixtures' = [n \in {m \in DOMAIN fixtures :
                             m \in proc.names \/ fixtures[m] # Partial}
                        |-> fixtures[n]]
    /\ proc' = [proc EXCEPT !.pc = "finally"]
    /\ UNCHANGED <<runtime, verdict, refreshed, build, runs, faults>>

remove_stale_fixtures ==
    /\ proc.pc = "next" /\ proc.who = "refresh" /\ proc.todo = {}
    /\ fixtures' = [n \in DOMAIN fixtures \cap proc.names |-> fixtures[n]]
    /\ proc' = [proc EXCEPT !.pc = "finally"]
    /\ UNCHANGED <<runtime, verdict, refreshed, build, runs, faults>>

TestsDone ==
    /\ proc.pc = "next" /\ proc.who = "test" /\ proc.todo = {}
    /\ proc' = [proc EXCEPT !.pc = "finally"]
    /\ UNCHANGED <<fixtures, runtime, verdict, refreshed, build, runs,
                   faults>>

\* runtime.cleanup() in the finally clause and in the pytest fixture; it raises
\* as well.
Finally ==
    /\ proc.pc = "finally"
    /\ LET clean == removable(runtime[proc.who], proc.user)
           good == ~proc.bad /\ clean
       IN  /\ runtime' = [runtime EXCEPT ![proc.who] = IF clean THEN NoTree ELSE @]
           /\ verdict' = [who |-> proc.who, user |-> proc.user,
                          result |-> IF good THEN "ok" ELSE "failed"]
           /\ refreshed' = IF proc.who = "refresh" /\ good
                           THEN [user |-> proc.user, by |-> build] ELSE refreshed
    /\ proc' = Idle
    /\ UNCHANGED <<fixtures, build, runs, faults>>

-----------------------------------------------------------------------------
(* What happens around it.                                                 *)

\* A refresh stops with an exception, or either is killed; the fixture being
\* written may be cut short.
CutShort ==
    /\ faults < MaxFaults
    /\ faults' = faults + 1
    /\ \/ UNCHANGED fixtures
       \/ /\ proc.pc = "captured" /\ proc.who = "refresh"
          /\ fixtures' = [n \in DOMAIN fixtures \cup {proc.at.name} |->
                             IF n = proc.at.name THEN Partial
                                                 ELSE fixtures[n]]
    /\ UNCHANGED <<runtime, verdict, refreshed, build, runs>>

RefreshRaises ==
    /\ proc.who = "refresh" /\ proc.pc \notin {"idle", "finally"}
    /\ CutShort
    /\ proc' = [proc EXCEPT !.pc = "finally", !.bad = TRUE]

Kill ==
    /\ proc.pc # "idle"
    /\ CutShort
    /\ proc' = Idle

Rebuild ==
    /\ proc.pc = "idle"
    /\ faults < MaxFaults
    /\ faults' = faults + 1
    /\ build' = build + 1
    /\ verdict' = [who |-> "none", user |-> "none", result |-> "none"]
    /\ UNCHANGED <<fixtures, runtime, proc, refreshed, runs>>

Next ==
    \/ \E user \in {"root", "user"} : StartRefresh(user) \/ StartTest(user)
    \/ SkipCase
    \/ BadFixture
    \/ Reset
    \/ ResetRaises
    \/ Prepare
    \/ run_command
    \/ write_fixture
    \/ CompareCapture
    \/ remove_stale_fixtures
    \/ TestsDone
    \/ Finally
    \/ RefreshRaises
    \/ Kill
    \/ Rebuild

Spec == Init /\ [][Next]_vars

-----------------------------------------------------------------------------
\* What the case prints in a tree that nobody has used.
Alone(c, where, user, by) ==
    Output(c.argv, where, prepare_case(Fresh(user), c.argv), user, by)

\* Every capture is that of a fresh tree: neither the cases that ran before
\* it, in whatever order, nor what a killed run left behind shows in it.
CaptureIsIsolated ==
    proc.pc = "captured" =>
        proc.out = Alone(proc.at, proc.who, proc.user, build)

\* A refresh that ends well leaves exactly the fixtures of the cases its user
\* can run, all complete and of the current build, whatever was there before.
RefreshIsExact ==
    verdict.who = "refresh" /\ verdict.result = "ok" =>
        LET captured == {c \in build_cases : ~should_skip(c, verdict.user)}
        IN  /\ DOMAIN fixtures = {c.name : c \in captured}
            /\ \A c \in captured :
                   fixtures[c.name] = fixtureOf(c, Alone(c, "refresh", verdict.user,
                                                         build))

\* A test run passes exactly when every fixture is what the build prints in the
\* test's tree and another user has left no tree there; so it passes after a
\* refresh by the same user of the same build, if the build mentions no path
\* and the tree is free.
TestsAreExact ==
    verdict.who = "test" =>
        LET free == removable(runtime["test"], verdict.user)
        IN  /\ verdict.result = "ok" <=>
                   /\ free
                   /\ \A n \in DOMAIN fixtures :
                          /\ fixtures[n] # Partial
                          /\ fixtures[n].out =
                                 Alone(fixtures[n], "test", verdict.user, build)
            /\ /\ refreshed = [user |-> verdict.user, by |-> build]
               /\ build \notin Mentioning
               /\ free
               => verdict.result = "ok"

\* What a fixture shows is of the command its case names, if that is one the
\* harness puts its "-c" behind.  For any other case it may be of the unknown
\* command "-c" instead, as it is for "rpmz --version", but never of a third.
CasesReachTheirCommand ==
    proc.pc = "captured" =>
        LET named == classify(proc.at.argv)
        IN  /\ named \in {"compatibility", "repo_config"} => proc.out.action = named
            /\ proc.out.action \in {named, "unknown"}
=============================================================================
