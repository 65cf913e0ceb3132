----------------------------- MODULE MCDepGraph -----------------------------
(***************************************************************************)
(* Four files in two directories and every assignment of short import      *)
(* lists (none, one directory, both, one of them twice) to them.  File 1   *)
(* may be a test, of file 2's package or of an external test package; file *)
(* 4 may be left out of the sources by sop.mod; file 3 may fail to parse.  *)
(***************************************************************************)
EXTENDS DepGraph

MCFiles == 1..4
MCDirs == {"a", "b"}
MCPaths == MCDirs \cup {"fmt"}
MCPackages == {"p", "p_test"}

ImportLists == {<<>>, <<"a">>, <<"b">>, <<"b", "b">>, <<"fmt", "a">>}
Layout == [f \in MCFiles |-> IF f <= 2 THEN "a" ELSE "b"]

ProjectWith(sources, broken, test, package, imports) ==
    [disk |-> MCFiles, sources |-> sources, broken |-> broken, test |-> test,
     dir |-> Layout, package |-> [f \in MCFiles |-> IF f = 1 THEN package ELSE "p"],
     imports |-> imports]

Imports == {i \in [MCFiles -> ImportLists] : i[2] \in {<<>>, <<"b">>} /\ i[4] \in {<<>>, <<"a">>}}

MCProjects ==
    {ProjectWith(s, {}, t, k, i) :
        s \in {MCFiles, {1, 2, 3}}, t \in {{}, {1}}, k \in MCPackages, i \in Imports}
    \cup {ProjectWith(MCFiles, {3}, {}, "p", i) : i \in {g \in Imports : g[1] = <<>>}}
=============================================================================
