------------------------------ MODULE Workspace ------------------------------
(***************************************************************************)
(* The language server's view of a project (src/build.rs:                  *)
(* typecheck_workspace).  It sorts the files as sop build does, from what  *)
(* is on disk, but checks them one by one, each with an Infer of its own   *)
(* and with the editor's content where there is some; errors are collected *)
(* per file and stop nothing.                                              *)
(***************************************************************************)
EXTENDS NameTable

CONSTANT Workspaces \* pairs of a project and the contents its files are checked with

ASSUME WorkspacesAssumption ==
    \A w \in Workspaces : w[1] \in Projects /\ w[2] \in [Files -> CodeType]

VARIABLES
    aborted,        \* typecheck_workspace has returned an error of its own
    position,       \* the position in the sorted sources
    diagnostics,    \* file -> its errors, as far as it has an entry
    symbols         \* the files with a symbol table

wsVars == <<aborted, position, diagnostics, symbols>>
workspaceVars == <<vars, nameVars, wsVars>>

ModuleOf(d) == IF d = Root THEN "main" ELSE d

-----------------------------------------------------------------------------
WorkspaceInit ==
    /\ \E w \in Workspaces : project = w[1] /\ code = w[2]
    /\ Init
    /\ NamesFit
    /\ ctxt = NewCtxt
    /\ infer = NewInfer
    /\ aborted = FALSE
    /\ position = 1
    /\ diagnostics = [f \in {} |-> {}]
    /\ symbols = {}

WorkspaceSort == Step /\ UNCHANGED <<nameVars, wsVars>>

\* A file is entered among the diagnostics only with errors to show.
Entry(f, errors) ==
    [g \in (DOMAIN diagnostics) \cup (IF errors = {} THEN {} ELSE {f}) |->
        IF g = f THEN errors ELSE diagnostics[g]]

\* Variant: the first file with an import that fails ends the loop.
SkipOnImports_Stop(f, s) ==
    /\ s.infer.failed
    /\ diagnostics' = Entry(f, s.infer.errors)
    /\ position' = Len(result) + 1
    /\ ctxt' = s.ctxt /\ infer' = s.infer
    /\ UNCHANGED symbols

\* Variant: the loop continues with the same file.
\* An import that fails leaves the file unchecked and its names unregistered.
SkipOnImports(f, s) ==
    /\ s.infer.failed
    /\ diagnostics' = Entry(f, s.infer.errors)
    /\ position' = position + 1
    /\ ctxt' = s.ctxt /\ infer' = s.infer
    /\ UNCHANGED symbols

\* infer_file and check_unused_imports, on a file whose imports are known.
CheckWhole(f, s) ==
    /\ ~ s.infer.failed
    /\ \E t \in {InferBodies(RegisterDeclarations(s, f), f)} :
        /\ infer' \in CheckUnusedImports(t.infer)
        /\ ctxt' = t.ctxt
    /\ diagnostics' = Entry(f, infer'.errors)
    /\ symbols' = symbols \cup {f}
    /\ position' = position + 1

\* An editor's content that does not parse is an error of the whole workspace.
AbortOnParse ==
    /\ phase = "sorted" /\ ~ aborted /\ position <= Len(result)
    /\ ~ code[result[position]].parses
    /\ aborted' = TRUE
    /\ UNCHANGED <<vars, nameVars, position, diagnostics, symbols>>

CheckFile ==
    /\ phase = "sorted" /\ ~ aborted /\ position <= Len(result)
    /\ code[result[position]].parses
    /\ LET f == result[position]
       IN  \E s \in {ProcessImports(Both(InModule(ctxt, ModuleOf(project.dir[f])), NewInfer), f)} :
               SkipOnImports(f, s) \/ CheckWhole(f, s)
    /\ UNCHANGED <<vars, code, aborted>>

WorkspaceOver ==
    \/ phase \in {"failed", "cycle"}
    \/ phase = "sorted" /\ (aborted \/ position > Len(result))

WorkspaceStep == WorkspaceSort \/ AbortOnParse \/ CheckFile

WorkspaceNext == WorkspaceStep \/ (WorkspaceOver /\ UNCHANGED workspaceVars)

WorkspaceSpec == WorkspaceInit /\ [][WorkspaceNext]_workspaceVars

-----------------------------------------------------------------------------
(* Properties.                                                             *)

Checked == {result[i] : i \in 1..(position - 1)}

\* A file that cannot be checked costs the others nothing: every file the loop
\* has passed has a symbol table or an error to show, and one that imports
\* nothing bad has its symbol table.
EveryFileAnalysed ==
    phase = "sorted" =>
        /\ Checked = symbols \cup (DOMAIN diagnostics)
        /\ \A f \in Checked \ symbols :
            \E b \in Range(code[f].imports) : b.path \in Unresolvable /\ <<"import", b.path>> \in diagnostics[f]
        /\ WorkspaceOver /\ ~ aborted => Checked = Sources

\* Files declaring n in f's directory.
Declaring(f, n) == {g \in Sources : project.dir[g] = project.dir[f] /\ n \in Declared(g, DeclKinds)}

\* A name reported as undefined is undefined, or it is one of the cases the
\* per-file check is known to miss: a sibling file not checked yet or one that
\* could not be, a constant, variable or variant of another file or declared
\* further down, a method that was refused, a member of the root package, and an import the sort has not seen.
ReportsAreExplained ==
    \A f \in DOMAIN diagnostics : \A e \in diagnostics[f] : e[1] = "name" =>
        LET q == e[2][1]
            n == e[2][2]
        IN  IF q = "" \/ ImportedAs(f, q) = {}
            THEN LET m == IF q = "" THEN n ELSE q
                 IN  \A g \in Declaring(f, m) :
                        \/ m \in Declared(g, Late \cup {"enum method"})
                        \/ g \notin symbols
                        \/ \E i, j \in DOMAIN result : i < j /\ result[i] = f /\ result[j] = g
            ELSE \A d \in ImportedAs(f, q) \ {Root} : \A g \in Sources :
                    project.dir[g] = d /\ n \in Declared(g, {"func", "type"}) =>
                        \/ g \notin symbols
                        \/ ~ Unedited(f)
                        \/ \E b, c \in Range(code[f].imports) : b.name = q /\ c.name = q /\ b.path # c.path

=============================================================================
