------------------------------ MODULE NameTable ------------------------------
(***************************************************************************)
(* The names the type checker knows (src/types/ctx.rs, the import and      *)
(* declaration passes of src/types/infer).  GlobalCtxt is handed from one  *)
(* package to the next and holds, per module, the functions and types      *)
(* registered so far; an Infer lives for one package (sop build) or one    *)
(* file (the language server) and holds the outermost scope, the imports   *)
(* and the errors found.                                                   *)
(*                                                                         *)
(* Types are left out: a name is found or it is not.  Local variables,     *)
(* which never outlive a body, are left out too.                           *)
(***************************************************************************)
EXTENDS DepGraph, TLC, Lists

CONSTANTS
    Names,          \* identifiers, of declarations and of imports
    PackageName,    \* import path -> the name it binds without an alias
    Root,           \* the directory of go.mod
    Unresolvable,   \* import paths reported when no alias names them: no package is there
    GoNames         \* path -> what the Go package there exports, nothing if there is none

(***************************************************************************)
(* What the files hold when they are checked.  An import has its path, the *)
(* name it binds ("_" binds none) and whether an alias spells that out.    *)
(* A use is <<qualifier, name>>, the qualifier "" for a bare name.  The     *)
(* variants of an enum are declarations after it; an "enum method" is one  *)
(* whose receiver is an enum registered before it.                         *)
(***************************************************************************)
Bindings == [path : Paths, name : Names \cup {"_"}, aliased : BOOLEAN]
Uses == (Names \cup {""}) \X Names
DeclKinds == {"func", "method", "enum method", "type", "variant", "value"}
Decls == [kind : DeclKinds, name : Names, uses : SUBSET Uses]
CodeType == [imports : Seq(Bindings), decls : Seq(Decls), parses : BOOLEAN, ungenerable : BOOLEAN]

ASSUME NamesAssumption == {"", "_"} \cap Names = {}
ASSUME RootAssumption == Root \in Dirs
ASSUME UnresolvableAssumption == Unresolvable \subseteq Paths
ASSUME PackageNameAssumption == PackageName \in [Paths -> Names]
ASSUME GoNamesAssumption == GoNames \in [Paths -> SUBSET Names] /\ \A p \in Unresolvable : GoNames[p] = {}

VARIABLES
    code,       \* what each file declares and uses
    ctxt,       \* GlobalCtxt
    infer       \* the Infer at work

nameVars == <<code, ctxt, infer>>

\* The language server calls the root package "main", sop build calls it ".".
ModuleIds == Dirs \cup {"main"}

-----------------------------------------------------------------------------
(* State.                                                                  *)

\* Without an alias an import binds the package's own name.
NamesFit ==
    \A f \in Files : \A b \in Range(code[f].imports) :
        ~ b.aliased => b.name = PackageName[b.path]

\* The checker sees the file the sort has seen.
Unedited(f) ==
    /\ code[f].parses = (f \notin project.broken)
    /\ project.imports[f] = [i \in DOMAIN code[f].imports |-> code[f].imports[i].path]

NoImport == [to |-> "none", module |-> "main"]

NewCtxt ==
    [modules |-> [m \in ModuleIds |-> [functions |-> {}, types |-> {}, constants |-> {}]],
     current |-> "main",
     soppo_imports |-> [n \in {} |-> "main"]]

NewInfer ==
    [scope |-> {}, imports |-> [n \in Names |-> NoImport], used |-> {}, errors |-> {}, failed |-> FALSE]

Both(c, i) == [ctxt |-> c, infer |-> i]

\* Variant: the module is left as it was.
InModule_Kept(c, m) == c

InModule(c, m) == [c EXCEPT !.current = m]

-----------------------------------------------------------------------------
(* process_imports.                                                        *)

Failing(i, e) == [i EXCEPT !.errors = @ \cup {e}, !.failed = TRUE]

Binding(i, b, to, m) ==
    [i EXCEPT !.imports[b.name] = [to |-> to, module |-> m],
              !.used = @ \ {b.name},
              !.scope = @ \cup {b.name}]

\* One import.  A local directory with .sop files is a Soppo package, anything
\* else a Go package; only without an alias is the Go package looked for.
Import(s, b) ==
    IF b.name = "_" THEN s
    ELSE IF ImportTargets(project, b.path) # {}
    THEN Both([s.ctxt EXCEPT !.soppo_imports = (b.name :> b.path) @@ @],
              Binding(s.infer, b, "soppo", b.path))
    ELSE IF b.path \in Unresolvable /\ ~ b.aliased
    THEN Both(s.ctxt, Failing(s.infer, <<"import", b.path>>))
    ELSE Both(s.ctxt, Binding(s.infer, b, "go", b.path))

ProcessImports(s, f) == Each(Import, [s EXCEPT !.infer.failed = FALSE], code[f].imports)

-----------------------------------------------------------------------------
(* register_file_declarations and infer_file_bodies.                       *)

Declared(f, kinds) == {d.name : d \in {e \in Range(code[f].decls) : e.kind \in kinds}}

\* The errors of register_func_signature.
Refused(f) == {"method"} \X Declared(f, {"enum method"})

\* What enters the scope in pass 2.
Late == {"value", "variant"}

\* Variant: functions are known to their own checker only.
RegisterDeclarations_ScopeOnly(s, f) ==
    Both([s.ctxt EXCEPT !.modules[s.ctxt.current].types = @ \cup Declared(f, {"type"})],
         [s.infer EXCEPT !.scope = @ \cup Declared(f, {"func", "method"})])

\* Pass 1: types and functions, methods among the functions; a method of an enum
\* is refused.  Constants, variables and variants wait for pass 2.
RegisterDeclarations(s, f) ==
    Both([s.ctxt EXCEPT
            !.modules[s.ctxt.current].types = @ \cup Declared(f, {"type"}),
            !.modules[s.ctxt.current].functions = @ \cup Declared(f, {"func", "method"})],
         [s.infer EXCEPT !.scope = @ \cup Declared(f, {"func", "method"}),
                         !.errors = @ \cup Refused(f)])

\* A bare name: the scopes, then the functions, constants and types of the module.
FoundBare(s, n) ==
    LET m == s.ctxt.modules[s.ctxt.current]
    IN  n \in s.infer.scope \cup m.functions \cup m.constants \cup m.types

\* Variant: any member of an imported package is taken to exist.
FoundMember_Any(s, q, n) == FoundBare(s, q)

\* pkg.Name: what the Go package exports, or a function, type or constant the
\* Soppo package's module has registered.
FoundMember(s, q, n) ==
    LET i == s.infer.imports[q]
        m == s.ctxt.modules
    IN  /\ FoundBare(s, q)
        /\ i.to = "go" => n \in GoNames[i.module]
        /\ i.to = "soppo" => n \in m[i.module].functions \cup m[i.module].types \cup m[i.module].constants

Found1(s, u) == IF u[1] = "" THEN FoundBare(s, u[2]) ELSE FoundMember(s, u[1], u[2])

\* What the k-th declaration of f sees: also the constants, variables and
\* variants above it.
SeenBy(s, f, k) ==
    [s EXCEPT !.infer.scope = @ \cup {code[f].decls[j].name :
        j \in {i \in 1..(k - 1) : code[f].decls[i].kind \in Late}}]

\* Pass 2: every name used is looked up, found or reported; an import it goes
\* through is used, found or not; constants, variables and variants enter the scope.
InferBodies(s, f) ==
    LET decls == code[f].decls
        through == UNION {{u[1] : u \in d.uses} : d \in Range(decls)}
    IN  Both(s.ctxt,
             [s.infer EXCEPT
                !.used = @ \cup {q \in through \ {""} : s.infer.imports[q].to # "none"},
                !.errors = @ \cup UNION {{<<"name", u>> : u \in {v \in decls[k].uses : ~ Found1(SeenBy(s, f, k), v)}} :
                                            k \in DOMAIN decls},
                !.scope = @ \cup Declared(f, Late)])

UnusedImports(i) == {n \in Names \ i.used : i.imports[n].to # "none"}

\* check_unused_imports reports one of them, whichever the map yields first.
CheckUnusedImports(i) ==
    IF UnusedImports(i) = {} THEN {i}
    ELSE {[i EXCEPT !.errors = @ \cup {<<"unused", n>>}] : n \in UnusedImports(i)}

-----------------------------------------------------------------------------
(* What the project says, for the properties.                              *)

\* The paths a file's import name may stand for.
ImportedAs(f, n) == {b.path : b \in {c \in Range(code[f].imports) : c.name = n}}

DeclaredIn(d, kinds) == UNION {Declared(f, kinds) : f \in {g \in Sources : project.dir[g] = d}}

=============================================================================
