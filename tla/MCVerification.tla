--------------------------- MODULE MCVerification ---------------------------
(* Repositories with a broken, a failing, an empty, a committed and no       *)
(* config, over directories of every family, and one that is skipped.        *)
EXTENDS Verification

Vetted == [id |-> <<".", "unit">>, required |-> TRUE, allowWarn |-> TRUE]
Pushing == Command(<<".", "push">>, TRUE)

Committed == [Bare EXCEPT !.commands = {Vetted, Command(<<".", "docs">>, FALSE)},
                          !.checks = {CheckId}, !.protected = {"secret"}]

Dirs(root, sub) == [d \in {".", "app", "vendor"} |->
                      IF d = "." THEN root ELSE IF d = "app" THEN sub
                      ELSE {"Makefile"}]

Layouts == {Dirs({}, {}), Dirs({"script test", "script build", "Makefile"}, {}),
            Dirs({"composer.json", "go.mod"}, {"composer.json", "phpstan.neon"}),
            Dirs({"Makefile"}, {"Cargo.toml"})}

MCRepos ==
    [config : {"absent"}, authored : {Bare}, dirs : Layouts]
    \cup [config : BrokenConfigs, authored : {Bare}, dirs : {Dirs({"Makefile"}, {})}]
    \cup [config : {"valid"}, authored : {Bare, Committed}, dirs : {Dirs({}, {})}]

MCOverrides ==
    {[x \in {} |-> {}], [commands |-> Unset], [checks |-> {}],
     [commands |-> {Pushing}], [maxLines |-> 2]}

MCDiffs == {[files |-> f, lines |-> n, removed |-> r, added |-> 0] :
              f \in {{}, {"code"}, {"code", "docs"}, {"secret"}, {"migration"},
                     {"lockfile"}},
              n \in {1, 2}, r \in {0, 1}}
MCDenied == {<<".", "push">>}
=============================================================================
