------------------------------ MODULE MCCompile ------------------------------
(***************************************************************************)
(* Files 1 and 2 in directory p, 3 in directory q, which p may import under *)
(* its own name, an alias or blank.  File 1 may be a test of its package or *)
(* an external one, file 3 may be a test.  File 2 may declare a function, a *)
(* method, a variant or a value and may use q's function, method or value,  *)
(* a name of file 1, a value of its own, a package's bare name or nothing.  *)
(***************************************************************************)
EXTENDS Compile

MCFiles == 1..3
MCDirs == {"p", "q"}
MCPaths == MCDirs \cup {"fmt", "gone"}
MCPackages == {"p", "q", "p_test"}
MCNames == {"p", "q", "fmt", "gone", "a", "b", "c", "f"}
MCPackageName == [path_ \in MCPaths |-> path_]
MCGoNames == [path_ \in MCPaths |-> IF path_ = "fmt" THEN {"f"} ELSE {}]
MCUnresolvable == {"gone"}

Bind(path_, n, aliased) == [path |-> path_, name |-> n, aliased |-> aliased]
Decl(kind, n, uses) == [kind |-> kind, name |-> n, uses |-> uses]
File(imports, decls) == [imports |-> imports, decls |-> decls, parses |-> TRUE, ungenerable |-> FALSE]

ImportLists ==
    {<<>>} \cup {<<b>> : b \in {Bind(p, p, FALSE) : p \in {"q", "fmt", "gone"}}
                              \cup {Bind("q", "_", TRUE), Bind("gone", "q", TRUE)}}

Project(package, test, i1, i2) ==
    [disk |-> MCFiles, sources |-> MCFiles, broken |-> {}, test |-> test,
     dir |-> <<"p", "p", "q">>, package |-> <<package, "p", "q">>, imports |-> <<i1, i2, <<>>>>]

MCProjects == {Project(k[1], k[2], i, j) :
                 k \in {<<"p", {}>>, <<"p", {1}>>, <<"p", {3}>>, <<"p_test", {1}>>}, i \in {<<>>, <<"q">>},
                 j \in {<<>>, <<"q">>, <<"fmt">>, <<"gone">>}}

File1 == {File(b, <<Decl("func", "a", u)>>) :
            b \in {<<>>, <<Bind("q", "q", FALSE)>>}, u \in {{}, {<<"", "b">>}, {<<"b", "f">>}, {<<"q", "f">>}}}
File2 == {File(b, <<Decl(k, "b", u), Decl("value", "c", {})>>) :
            b \in ImportLists, k \in {"func", "method", "enum method", "variant", "value"},
            u \in {{}, {<<"q", "f">>}, {<<"q", "c">>}, {<<"", "a">>}, {<<"", "c">>}, {<<"", "q">>}, {<<"fmt", "f">>}}}
File3 == {[imports |-> <<>>, decls |-> <<Decl(k[1], "f", {}), Decl("value", "c", {})>>, parses |-> TRUE,
           ungenerable |-> k[2]] : k \in {<<"func", FALSE>>, <<"func", TRUE>>, <<"method", FALSE>>}}

MCCodes == {<<x, y, z>> : x \in File1, y \in File2, z \in File3}
=============================================================================
