------------------------------- MODULE Compile -------------------------------
(***************************************************************************)
(* sop build (src/build.rs: build_project, compile_package and             *)
(* build_project_to_disk).  After the sort of DepGraph the packages are    *)
(* compiled one by one, each whole at the place of its first file, and the *)
(* GlobalCtxt of one is handed to the next.  Nothing is written before     *)
(* every package has been compiled.                                        *)
(***************************************************************************)
EXTENDS NameTable

CONSTANT Codes  \* the contents the files may have

ASSUME CodesAssumption == Codes \subseteq [Files -> CodeType]

VARIABLES
    stage,      \* where build_project is
    next,       \* the position in the sorted sources
    processed,  \* the package keys whose compilation has begun
    unit,       \* the files of the package being compiled
    at,         \* the file of the unit being worked on
    outputs,    \* the files code was generated for, in order
    written     \* how many of them are on disk

compileVars == <<stage, next, processed, unit, at, outputs, written>>
buildVars == <<vars, nameVars, compileVars>>

PackageKey(f) == <<project.dir[f], project.package[f]>>

Checker == Both(ctxt, infer)

\* The work on a state of the checker is put back where it came from.
Becomes(s) == ctxt' = s.ctxt /\ infer' = s.infer

-----------------------------------------------------------------------------
BuildInit ==
    /\ Init
    /\ code \in Codes
    /\ NamesFit
    /\ \A f \in Files : Unedited(f)
    /\ ctxt = NewCtxt
    /\ infer = NewInfer
    /\ stage = "packages"
    /\ next = 1
    /\ processed = {}
    /\ unit = <<>>
    /\ at = 1
    /\ outputs = <<>>
    /\ written = 0

\* DepGraph::build and topological_sort; their errors end the build.
Sort == Step /\ UNCHANGED <<nameVars, compileVars>>

\* A file of a package that has been compiled already.
SkipFile ==
    /\ phase = "sorted" /\ stage = "packages" /\ next <= Len(result)
    /\ PackageKey(result[next]) \in processed
    /\ next' = next + 1
    /\ UNCHANGED <<vars, nameVars, stage, processed, unit, at, outputs, written>>

\* The files of f's package, in the order of the sort.
WithFile(key, files, g) == IF PackageKey(g) = key THEN Append(files, g) ELSE files

PackageFiles(f) ==
    LET Turn(files, g) == WithFile(PackageKey(f), files, g) IN Each(Turn, <<>>, result)

\* The first file of a package: all its files are compiled now.
StartPackage ==
    /\ phase = "sorted" /\ stage = "packages" /\ next <= Len(result)
    /\ PackageKey(result[next]) \notin processed
    /\ processed' = processed \cup {PackageKey(result[next])}
    /\ unit' = PackageFiles(result[next])
    /\ ctxt' = InModule(ctxt, project.dir[result[next]])
    /\ infer' = NewInfer
    /\ stage' = "imports" /\ at' = 1
    /\ next' = next + 1
    /\ UNCHANGED <<vars, code, outputs, written>>

\* The next file of the unit, or the next pass over it.
Advance(pass) ==
    IF at < Len(unit) THEN stage' = stage /\ at' = at + 1
                      ELSE stage' = pass /\ at' = 1

\* process_imports of one file; a package it cannot find ends the build.
ImportFile ==
    /\ stage = "imports"
    /\ LET s == ProcessImports(Checker, unit[at])
       IN  /\ Becomes(s)
           /\ IF s.infer.failed THEN stage' = "rejected" /\ at' = at ELSE Advance("declare")
    /\ UNCHANGED <<vars, code, next, processed, unit, outputs, written>>

DeclareFile ==
    /\ stage = "declare"
    /\ Becomes(RegisterDeclarations(Checker, unit[at]))
    /\ Advance("bodies")
    /\ UNCHANGED <<vars, code, next, processed, unit, outputs, written>>

\* Bodies are inferred and code is generated, errors or not; only an attribute
\* argument the generator cannot express ends the build here.
InferFile ==
    /\ stage = "bodies"
    /\ Becomes(InferBodies(Checker, unit[at]))
    /\ IF code[unit[at]].ungenerable THEN stage' = "rejected" /\ at' = at ELSE Advance("check")
    /\ UNCHANGED <<vars, code, next, processed, unit, outputs, written>>

\* Unused imports are errors of the package; with any error the build is over.
FinishPackage ==
    /\ stage = "check"
    /\ infer' \in CheckUnusedImports(infer)
    /\ IF infer'.errors = {}
       THEN stage' = "packages" /\ outputs' = outputs \o unit
       ELSE stage' = "rejected" /\ UNCHANGED outputs
    /\ UNCHANGED <<vars, code, ctxt, next, processed, unit, at, written>>

Compiled ==
    /\ phase = "sorted" /\ stage = "packages" /\ next > Len(result)
    /\ stage' = "writing"
    /\ UNCHANGED <<vars, nameVars, next, processed, unit, at, outputs, written>>

\* build_project_to_disk writes the outputs one by one and stops at the first
\* that fails; what it wrote stays.
WriteFile ==
    /\ stage = "writing" /\ written < Len(outputs)
    /\ \/ written' = written + 1 /\ UNCHANGED stage
       \/ stage' = "unwritten" /\ UNCHANGED written
    /\ UNCHANGED <<vars, nameVars, next, processed, unit, at, outputs>>

Written ==
    /\ stage = "writing" /\ written = Len(outputs)
    /\ stage' = "built"
    /\ UNCHANGED <<vars, nameVars, next, processed, unit, at, outputs, written>>

BuildOver == phase \in {"failed", "cycle"} \/ stage \in {"rejected", "unwritten", "built"}

BuildStep ==
    \/ Sort
    \/ SkipFile
    \/ StartPackage
    \/ ImportFile
    \/ DeclareFile
    \/ InferFile
    \/ FinishPackage
    \/ Compiled
    \/ WriteFile
    \/ Written

BuildNext == BuildStep \/ (BuildOver /\ UNCHANGED buildVars)

BuildSpec == BuildInit /\ [][BuildNext]_buildVars

-----------------------------------------------------------------------------
(* Properties.                                                             *)

\* Files whose declarations the checker has been shown.
Registered ==
    {f \in Sources :
        /\ PackageKey(f) \in processed
        /\ f \in Range(unit) =>
            CASE stage = "imports" -> FALSE
              [] stage = "declare" -> f \in Range(SubSeq(unit, 1, at - 1))
              [] OTHER -> TRUE}

\* Handed from package to package, the registry holds for every directory what
\* its registered files declare: no module gets another's names, none is lost.
RegistryIsExact ==
    stage # "rejected" =>
        \A d \in Dirs :
            ctxt.modules[d].functions =
                UNION {Declared(f, {"func", "method"}) : f \in {g \in Registered : project.dir[g] = d}}

\* What Go declares in a package; a method belongs to its type, and a variant
\* has another name there.
GoKinds == {"func", "type", "value"}

PackageOf(f) == {g \in Sources : PackageKey(g) = PackageKey(f)}

\* All a package's imports are in one Infer.
PackageImports(f, n) == UNION {ImportedAs(g, n) : g \in PackageOf(f)}

\* What a package of that path has to offer.
Members(path_, kinds) ==
    IF ImportTargets(project, path_) = {} THEN GoNames[path_] ELSE DeclaredIn(path_, kinds)

\* What Go lets f name without a qualifier: the declarations of its package, those
\* of the package's tests only in a test.
OwnNames(f) ==
    UNION {Declared(g, GoKinds) : g \in {h \in PackageOf(f) : h \in project.test => f \in project.test}}

\* What Go lets an importer of the path name; nobody imports a test.
Exports(path_) ==
    IF ImportTargets(project, path_) = {} THEN GoNames[path_]
    ELSE UNION {Declared(g, GoKinds) : g \in {h \in Sources \ project.test : project.dir[h] = path_}}

\* The use is of a declaration of the package, or of every package that the name
\* stands for in the file itself.
InGo(f, u) ==
    CASE u[1] = "" -> u[2] \in OwnNames(f)
      [] u[1] # "" /\ ImportedAs(f, u[1]) = {} -> u[1] \in OwnNames(f)
      [] u[1] # "" /\ ImportedAs(f, u[1]) # {} -> \A d \in ImportedAs(f, u[1]) : u[2] \in Exports(d)

\* The checker finds in f's module what Go does not: a method, a variant without
\* its enum, a declaration of another package of the directory or of a test.
StrayName(f, n) ==
    \/ n \in DeclaredIn(project.dir[f], {"method"})
    \/ \E g \in PackageOf(f) : n \in Declared(g, {"variant"})
    \/ \E g \in Sources \ PackageOf(f) :
        project.dir[g] = project.dir[f] /\ n \in Declared(g, {"func", "type"})
    \/ f \notin project.test /\ \E g \in PackageOf(f) \cap project.test : n \in Declared(g, GoKinds)

\* So it does in an imported directory.
StrayMember(path_, n) ==
    /\ ImportTargets(project, path_) # {}
    /\ \/ n \in DeclaredIn(path_, {"method"})
       \/ \E g \in Sources \cap project.test : project.dir[g] = path_ /\ n \in Declared(g, {"func", "type"})

\* A package's name standing alone is found like any other.
PackageAlone(f, u) == u[1] = "" /\ PackageImports(f, u[2]) # {}

\* An import of any file serves the whole package.
SiblingsImport(f, u) ==
    ImportedAs(f, u[1]) = {} /\ \E d \in PackageImports(f, u[1]) : u[2] \in Exports(d)

\* The package has the name for two paths, and the last one bound is asked.
BoundTwice(f, u) ==
    \E d, e \in PackageImports(f, u[1]) : d # e /\ u[2] \in Exports(d)

KnownGap(f, u) ==
    \/ u[1] = "" /\ StrayName(f, u[2])
    \/ u[1] # "" /\ PackageImports(f, u[1]) = {} /\ StrayName(f, u[1])
    \/ \E d \in PackageImports(f, u[1]) : StrayMember(d, u[2])
    \/ PackageAlone(f, u)
    \/ SiblingsImport(f, u)
    \/ BoundTwice(f, u)

\* Go code is written only for a project compiled whole: every source once, and
\* every name used in it declared where Go looks for it, but for the gaps above.
BuildIsSound ==
    stage \in {"writing", "unwritten", "built"} \/ written > 0 =>
        /\ Range(outputs) = Sources /\ IsInjective(outputs)
        /\ \A f \in Sources : \A d \in Range(code[f].decls) : \A u \in d.uses :
            InGo(f, u) \/ KnownGap(f, u)

\* The b-th declaration of the unit's a-th file can see the value n.
ValueBefore(a, b, n) ==
    \E k \in 1..a : \E j \in DOMAIN code[unit[k]].decls :
        /\ k < a \/ j < b
        /\ code[unit[k]].decls[j].kind = "value" /\ code[unit[k]].decls[j].name = n

\* What q.n and n mean is declared, and declared early enough.
UseIsClear(a, b, u) ==
    LET f == unit[a]
    IN  IF u[1] = ""
        THEN \/ \E g \in Range(unit) : u[2] \in Declared(g, {"func", "method", "type"})
             \/ PackageImports(f, u[2]) # {}
             \/ ValueBefore(a, b, u[2])
        ELSE /\ PackageImports(f, u[1]) # {}
             /\ \A d \in PackageImports(f, u[1]) : u[2] \in Members(d, {"func", "type"})

\* Nothing in the unit that a reader of its files could object to.
CleanUnit ==
    \A a \in DOMAIN unit :
        LET f == unit[a]
        IN  /\ ~ code[f].ungenerable /\ Declared(f, {"enum method"}) = {}
            /\ \A b \in Range(code[f].imports) :
                b.name # "_" =>
                    /\ b.path \notin Unresolvable
                    /\ \E g \in Range(unit) : \E d \in Range(code[g].decls) : b.name \in {u[1] : u \in d.uses}
            /\ \A b \in DOMAIN code[f].decls : \A u \in code[f].decls[b].uses : UseIsClear(a, b, u)

\* The packages of a directory that some file of the unit imports.
OutOfOrder ==
    \E f \in Range(unit) : \E g \in Sources :
        project.dir[g] \in Range(project.imports[f]) /\ PackageKey(g) \notin processed

\* A package without an error of its own is rejected only for being compiled
\* before a package it imports.
OnlyOrderRejectsCleanCode == stage = "rejected" => ~ CleanUnit \/ OutOfOrder

=============================================================================
