---------------------------- MODULE MCCliGolden ----------------------------
(***************************************************************************)
(* Five of the cases of build_cases, one of every kind the code treats in   *)
(* a way of its own; the second build mentions where its configuration is. *)
(***************************************************************************)
EXTENDS CliGolden

Case(name, argv, top, rootOnly) ==
    [name |-> name, argv |-> argv, top |-> top, rootOnly |-> rootOnly]

MCBaseCases ==
    {Case("no-args", <<"rpmz">>, TRUE, FALSE),
     Case("missing-config-arg", <<"rpmz", "--config">>, FALSE, FALSE),
     Case("install-no-arg", <<"rpmz", "install">>, FALSE, TRUE),
     Case("repo-config-create", <<"rpmz", "repo-config", "create">>, FALSE, FALSE),
     Case("repo-config-dump", <<"rpmz", "repo-config", "-j", "dump">>, FALSE,
          FALSE)}
=============================================================================
