------------------------------ MODULE DepGraph ------------------------------
(***************************************************************************)
(* The dependency graph over the .sop files of a project (src/deps.rs):    *)
(* DepGraph::build resolves every import to the files it stands for,       *)
(* topological_sort runs Kahn's algorithm over them and, when that gets    *)
(* stuck, find_cycle walks the files left over to name a cycle.            *)
(*                                                                         *)
(* Files are numbered in the order PathBuf sorts them.  HashMap and        *)
(* read_dir iterate in an order the program does not choose: wherever it   *)
(* reaches the result it is a nondeterministic choice here.                *)
(***************************************************************************)
EXTENDS Naturals, Sequences, FiniteSets, Functions

CONSTANTS
    Files,      \* every .sop file there may be on disk
    Dirs,       \* directories of the module, each a package directory
    Paths,      \* import paths; the ones in Dirs start with the module path
    Packages,   \* names in package clauses
    Projects    \* the projects DepGraph::build may be called on

(***************************************************************************)
(* A project as the file system shows it: the .sop files on disk, the      *)
(* subset find_sources returned (sop.mod may exclude files), the sources   *)
(* that do not parse, and each file's directory, package clause, list of   *)
(* imports and whether its name ends in _test.sop.                         *)
(***************************************************************************)
ProjectType ==
    [disk : SUBSET Files, sources : SUBSET Files, broken : SUBSET Files,
     test : SUBSET Files, dir : [Files -> Dirs], package : [Files -> Packages],
     imports : [Files -> Seq(Paths)]]

ASSUME FilesAssumption == IsFiniteSet(Files) /\ Files \subseteq Nat
ASSUME DirsAssumption == Dirs \subseteq Paths
ASSUME ProjectsAssumption ==
    /\ Projects \subseteq ProjectType
    /\ \A p \in Projects : p.sources \subseteq p.disk /\ p.broken \subseteq p.sources

VARIABLES
    project,    \* the project being built
    phase,      \* where topological_sort's caller is
    edges,      \* file -> {<<i, dep>>}: dep reached through its i-th import, 0 if implicit
    in_degree,  \* source -> dependencies not yet handed out
    queue,      \* sources whose dependencies are all handed out
    result,     \* sources handed out
    path,       \* find_cycle: the files on the walk
    visited,    \* find_cycle: every file the walk has entered
    untried,    \* find_cycle: for each file on the path, dependencies not yet followed
    cycle       \* find_cycle: <<file, import>> pairs, import 0 for "unknown"

sortVars == <<in_degree, queue, result>>
walkVars == <<path, visited, untried, cycle>>
vars == <<project, phase, edges, sortVars, walkVars>>

-----------------------------------------------------------------------------
(* Imports to files.                                                       *)

\* Variant: the tests of a package are not part of it.
ResolveLocalPackage_NoTests(p, d) == {f \in p.disk \ p.test : p.dir[f] = d}

\* resolve_local_package: the files of a directory, the tests among them and
\* the ones find_sources left out; empty stands for None.
ResolveLocalPackage(p, d) == {f \in p.disk : p.dir[f] = d}

\* A path that does not start with the module path is a Go package, and so is
\* a directory without .sop files: neither adds an edge.
ImportTargets(p, path_) ==
    IF path_ \in Dirs THEN ResolveLocalPackage(p, path_) ELSE {}

\* Variant: no second pass.
ImplicitDeps_None(p, f) == {}

\* The second pass of build: a test file also depends on the other files of
\* its directory and package.
ImplicitDeps(p, f) ==
    IF f \in p.test
    THEN {g \in p.sources \ (p.test \cup {f}) :
            p.dir[g] = p.dir[f] /\ p.package[g] = p.package[f]}
    ELSE {}

\* The edges of one file, one per occurrence: a file that imports a package
\* twice counts each of its files twice.
EdgesOf(p, f) ==
    {<<0, g>> : g \in ImplicitDeps(p, f)}
        \cup {e \in (DOMAIN p.imports[f]) \X Files : e[2] \in ImportTargets(p, p.imports[f][e[1]])}

\* Occurrences of a dependency on a file of S.
EdgesInto(f, S) == {e \in edges[f] : e[2] \in S}

\* The orders in which an unordered collection may be iterated.
Orderings(S) == Injection(1..Cardinality(S), S)

Least(S) == CHOOSE x \in S : \A y \in S : x <= y

Sources == project.sources
Remaining == Sources \ Range(result)

-----------------------------------------------------------------------------
Init ==
    /\ project \in Projects
    /\ phase = "build"
    /\ edges = [f \in Files |-> {}]
    /\ in_degree = [f \in Files |-> 0]
    /\ queue = <<>>
    /\ result = <<>>
    /\ path = <<>> /\ visited = {} /\ untried = <<>> /\ cycle = <<>>

\* DepGraph::build returns on the first source it cannot read or parse.
BuildFails ==
    /\ phase = "build"
    /\ project.broken # {}
    /\ phase' = "failed"
    /\ UNCHANGED <<project, edges, sortVars, walkVars>>

Build ==
    /\ phase = "build"
    /\ project.broken = {}
    /\ edges' = [f \in Files |-> IF f \in Sources THEN EdgesOf(project, f) ELSE {}]
    /\ phase' = "count"
    /\ UNCHANGED <<project, sortVars, walkVars>>

\* Variant: a dependency counts once however often it is listed.
CountDegrees_Distinct ==
    /\ phase = "count"
    /\ in_degree' = [f \in Files |-> Cardinality({e[2] : e \in EdgesInto(f, Sources)})]
    /\ queue' \in Orderings({f \in Sources : EdgesInto(f, Sources) = {}})
    /\ phase' = "sort"
    /\ UNCHANGED <<project, edges, result, walkVars>>

\* Variant: files that are no sources count too.
CountDegrees_All ==
    /\ phase = "count"
    /\ in_degree' = [f \in Files |-> Cardinality(edges[f])]
    /\ queue' \in Orderings({f \in Sources : edges[f] = {}})
    /\ phase' = "sort"
    /\ UNCHANGED <<project, edges, result, walkVars>>

\* Count every occurrence of a dependency that is a source, and queue the
\* files without any in HashMap order.
CountDegrees ==
    /\ phase = "count"
    /\ in_degree' = [f \in Files |-> Cardinality(EdgesInto(f, Sources))]
    /\ queue' \in Orderings({f \in Sources : EdgesInto(f, Sources) = {}})
    /\ phase' = "sort"
    /\ UNCHANGED <<project, edges, result, walkVars>>

\* The in-degrees once file f's occurrences are taken off its dependents.
DegreesAfter(f) ==
    [g \in Files |-> in_degree[g] - Cardinality(EdgesInto(g, {f}))]

\* Variant: a dependent is queued at each decrement.
PopFile_NoZeroTest ==
    /\ phase = "sort"
    /\ queue # <<>>
    /\ LET f == Head(queue)
           ready == {g \in Sources : DegreesAfter(f)[g] # in_degree[g]}
       IN  /\ result' = Append(result, f)
           /\ in_degree' = DegreesAfter(f)
           /\ \E more \in Orderings(ready) : queue' = Tail(queue) \o more
    /\ UNCHANGED <<project, phase, edges, walkVars>>

\* One turn of the while loop: hand out the head of the queue and queue the
\* dependents whose last dependency it was.
PopFile ==
    /\ phase = "sort"
    /\ queue # <<>>
    /\ LET f == Head(queue)
           ready == {g \in Sources : in_degree[g] # 0 /\ DegreesAfter(f)[g] = 0}
       IN  /\ result' = Append(result, f)
           /\ in_degree' = DegreesAfter(f)
           /\ \E more \in Orderings(ready) : queue' = Tail(queue) \o more
    /\ UNCHANGED <<project, phase, edges, walkVars>>

\* Variant: an empty queue means everything is handed out.
SortDone_NoCount ==
    /\ phase = "sort"
    /\ queue = <<>>
    /\ phase' = "sorted"
    /\ UNCHANGED <<project, edges, sortVars, walkVars>>

SortDone ==
    /\ phase = "sort"
    /\ queue = <<>>
    /\ Len(result) = Cardinality(Sources)
    /\ phase' = "sorted"
    /\ UNCHANGED <<project, edges, sortVars, walkVars>>

\* dfs_find_cycle follows only dependencies that are left over.
DepsToTry(f) == {e[2] : e \in EdgesInto(f, Remaining)}

\* find_cycle starts at the least file left over.
SortStuck ==
    /\ phase = "sort"
    /\ queue = <<>>
    /\ Len(result) # Cardinality(Sources)
    /\ LET start == Least(Remaining)
       IN  /\ path' = <<start>>
           /\ visited' = {start}
           /\ untried' = <<DepsToTry(start)>>
    /\ phase' = "search"
    /\ UNCHANGED <<project, edges, sortVars, cycle>>

-----------------------------------------------------------------------------
(* The walk.                                                               *)

\* The first import of f whose targets contain g, 0 ("unknown") without one.
ImportPath(f, g) ==
    LET through == {i \in DOMAIN project.imports[f] :
                      g \in ImportTargets(project, project.imports[f][i])}
    IN  IF through = {} THEN 0 ELSE Least(through)

\* The part of the path from its i-th file on, each file with the import that
\* leads to the next one, the last one back to the first.
CyclePairs(i) ==
    [k \in 1..(Len(path) - i + 1) |->
        LET next == IF k = Len(path) - i + 1 THEN path[i] ELSE path[i + k]
        IN  <<path[i + k - 1], ImportPath(path[i + k - 1], next)>>]

Enter(f) ==
    /\ path' = Append(path, f)
    /\ visited' = visited \cup {f}
    /\ untried' = Append([untried EXCEPT ![Len(path)] = @ \ {f}], DepsToTry(f))
    /\ UNCHANGED <<phase, cycle>>

\* Variant: the whole path is reported, its lead-in too.
Found_WholePath(f) ==
    /\ cycle' = CyclePairs(1)
    /\ phase' = "cycle"
    /\ UNCHANGED <<path, visited, untried>>

\* Variant: a file already on the path is tried again.
Found_Again(f) == UNCHANGED <<phase, path, visited, untried, cycle>>

Found(f) ==
    /\ cycle' = CyclePairs(CHOOSE i \in DOMAIN path : path[i] = f)
    /\ phase' = "cycle"
    /\ UNCHANGED <<path, visited, untried>>

Skip(f) ==
    /\ untried' = [untried EXCEPT ![Len(path)] = @ \ {f}]
    /\ UNCHANGED <<phase, path, visited, cycle>>

\* Every dependency of the last file is tried: return None to its caller.  The
\* first caller is find_cycle, which then lists the files left over.
Backtrack ==
    /\ path' = SubSeq(path, 1, Len(path) - 1)
    /\ untried' = SubSeq(untried, 1, Len(path) - 1)
    /\ IF Len(path) = 1
       THEN /\ \E s \in Orderings(Remaining) : cycle' = [i \in DOMAIN s |-> <<s[i], 0>>]
            /\ phase' = "cycle"
       ELSE UNCHANGED <<phase, cycle>>
    /\ UNCHANGED visited

\* dfs_find_cycle takes the next dependency of the last file on the path.
DfsStep ==
    /\ phase = "search"
    /\ LET last == untried[Len(path)]
           dep == Least(last)
       IN  IF last = {} THEN Backtrack
           ELSE IF dep \in Range(path) THEN Found(dep)
           ELSE IF dep \in visited THEN Skip(dep)
           ELSE Enter(dep)
    /\ UNCHANGED <<project, edges, sortVars>>

Done == phase \in {"failed", "sorted", "cycle"}

\* Nothing is left to do: the caller has its answer.
Finished == Done /\ UNCHANGED vars

Step ==
    \/ BuildFails
    \/ Build
    \/ CountDegrees
    \/ PopFile
    \/ SortDone
    \/ SortStuck
    \/ DfsStep

Next == Step \/ Finished

Spec == Init /\ [][Next]_vars

\* The sort is a plain function call: while it can take a step it takes it.
FairSpec == Spec /\ WF_vars(Step)
-----------------------------------------------------------------------------
(* Properties.                                                             *)

Edges == Nat \X Files

\* Every variable stays in its type; the walk's parallel lists keep one length.
TypeOK ==
    /\ project \in Projects
    /\ phase \in {"build", "count", "sort", "search", "failed", "sorted", "cycle"}
    /\ edges \in [Files -> SUBSET Edges]
    /\ in_degree \in [Files -> Nat]
    /\ queue \in Seq(Sources)
    /\ result \in Seq(Sources)
    /\ path \in Seq(Files)
    /\ visited \subseteq Files
    /\ untried \in Seq(SUBSET Files)
    /\ Len(untried) = Len(path)
    /\ cycle \in Seq(Files \X Nat)

\* The counters the loop keeps by subtraction always equal what a fresh count
\* would give: the occurrences of dependencies not yet handed out.  A file
\* listed twice in a dependency list must be counted, and taken off, twice.
DegreesAreExact ==
    phase \in {"sort", "search", "sorted", "cycle"} =>
        \A f \in Sources : in_degree[f] = Cardinality(EdgesInto(f, Remaining))

\* No file is handed out, or waits in the queue, more than once; the queue is
\* exactly the left-over files that wait for nothing.
QueueIsReady ==
    phase \in {"sort", "search", "sorted", "cycle"} =>
        /\ IsInjective(result \o queue)
        /\ Range(queue) = {f \in Remaining : in_degree[f] = 0}

\* f must come after g: it imports g's directory, or it is a test of g's package.
MustFollow(f, g) ==
    \/ \E i \in DOMAIN project.imports[f] : project.imports[f][i] = project.dir[g]
    \/ f \in project.test /\ g \notin project.test
         /\ project.dir[f] = project.dir[g] /\ project.package[f] = project.package[g]

\* "Topologically sort the files so dependencies come before dependents" and
\* "Test files ... processed after the package's symbols are available"
\* (deps.rs:37, 137): stated on the project, not on the edges, for every
\* prefix of the result and not only for the finished one.
OrderRespectsImports ==
    \A j \in DOMAIN result : \A g \in Sources :
        MustFollow(result[j], g) => \E i \in 1..(j - 1) : result[i] = g

\* Directories in D each hold a source that imports a directory of D.
ClosedOnImports(D) ==
    \A d \in D : \E f \in Sources :
        project.dir[f] = d /\ Range(project.imports[f]) \cap D # {}

ImportCycle == \E D \in SUBSET Dirs : D # {} /\ ClosedOnImports(D)

\* The file-level sort decides the package-level question: it rejects exactly
\* the projects whose packages import each other in a circle, whatever order
\* the hash maps iterate in, and otherwise hands out every source.
VerdictIsExact ==
    /\ phase \in {"search", "cycle"} => ImportCycle
    /\ phase = "sorted" => ~ImportCycle /\ Range(result) = Sources

\* A reported cycle is a cycle of the project: each file names an import of
\* its own that leads to the next, and a file whose edge is the implicit one
\* of a test is the only one shown as "unknown".
CycleIsReal ==
    phase = "cycle" =>
        /\ cycle # <<>>
        /\ \A k \in DOMAIN cycle :
            LET f == cycle[k][1]
                next == cycle[(k % Len(cycle)) + 1][1]
                i == cycle[k][2]
            IN  IF i = 0
                THEN f \in project.test /\ next \notin project.test /\ MustFollow(f, next)
                ELSE project.imports[f][i] = project.dir[next]

\* Whatever the project and whatever the iteration order, the sort returns.
SortReturns == <>Done

-----------------------------------------------------------------------------
(* The sort implements DependencyOrder.                                    *)

DepsOf(f) == {g \in Files : \E e \in EdgesOf(project, f) : e[2] = g}

Promise == INSTANCE DependencyOrder WITH
    graph <- [nodes |-> Sources, deps |-> [f \in Files |-> DepsOf(f)]],
    order <- result,
    verdict <- IF phase = "sorted" THEN "ordered"
               ELSE IF phase = "cycle" THEN "cyclic"
               ELSE IF phase = "failed" THEN "failed" ELSE "pending"

\* Seen through its result and its verdict, the sort only ever does what
\* DependencyOrder allows.
SortKeepsPromise == Promise!Spec
=============================================================================
