----------------------------- MODULE MCWorkspace -----------------------------
(***************************************************************************)
(* Two files in the root directory p, one in q and one in either; each may *)
(* import the other directory, a missing package or nothing, on disk or    *)
(* only in the editor.                                                     *)
(***************************************************************************)
EXTENDS Workspace

MCFiles == 1..4
MCDirs == {"p", "q"}
MCPaths == MCDirs \cup {"gone"}
MCPackages == {"p", "q"}
MCNames == {"p", "q", "gone", "a", "b", "c", "f"}
MCPackageName == [path_ \in MCPaths |-> path_]
MCGoNames == [path_ \in MCPaths |-> {}]

Bind(path_, n, aliased) == [path |-> path_, name |-> n, aliased |-> aliased]
Decl(kind, n, uses) == [kind |-> kind, name |-> n, uses |-> uses]
Plain(paths) == [i \in DOMAIN paths |-> Bind(paths[i], paths[i], FALSE)]
File(imports, decls) == [imports |-> imports, decls |-> decls, parses |-> TRUE, ungenerable |-> FALSE]

PathLists == {<<>>, <<"p">>, <<"q">>, <<"gone">>}

\* Directories of the four files, and whether the second is a test.
Project(last, tests, imports) ==
    [disk |-> MCFiles, sources |-> MCFiles, broken |-> {}, test |-> tests,
     dir |-> <<"p", "p", "q", last>>, package |-> <<"p", "p", "q", last>>, imports |-> imports]

Using(i) == IF i = <<"p">> THEN {<<"p", "a">>} ELSE IF i = <<"q">> THEN {<<"q", "f">>} ELSE {}

\* The files' contents when their imports are i, e those of file 4: each uses
\* what it imports, and file 2 what u names besides.
Contents(i, e, k, u) ==
    << File(Plain(i[1]), <<Decl("func", "a", Using(i[1])), Decl(k, "c", {})>>),
       File(Plain(i[2]), <<Decl("func", "b", Using(i[2]) \cup u)>>),
       File(Plain(i[3]), <<Decl("func", "f", Using(i[3]))>>),
       File(e, <<Decl("value", "b", IF e = <<>> THEN {} ELSE Using(<<e[1].name>>))>>) >>

ImportChoices ==
    {<<i, j, k, l>> : i \in {<<>>, <<"q">>}, j \in {<<>>, <<"q">>, <<"gone">>},
                      k \in PathLists \ {<<"q">>}, l \in {<<>>, <<"p">>}}

\* The editor may hold another import list for file 4.
Edited ==
    {<<Project(last, t, i), Contents(i, e, k, u)>> :
        last \in MCDirs, t \in {{}, {2}}, i \in ImportChoices, e \in {Plain(<<>>), Plain(<<"q">>), <<Bind("q", "_", TRUE)>>},
        k \in {"value", "type", "variant", "enum method"}, u \in {{<<"", "a">>}, {<<"", "c">>}}}

\* It may also hold a file 3 that does not parse.
MCWorkspaces == Edited \cup {<<w[1], [w[2] EXCEPT ![3].parses = FALSE]>> : w \in {v \in Edited : v[1].imports[1] = <<>>}}

MCProjects == {w[1] : w \in MCWorkspaces}
=============================================================================
