------------------------------- MODULE Scopes -------------------------------
(***************************************************************************)
(* Names inside function bodies, as three programs see them: the checker   *)
(* (src/types/infer), which rejects what is redeclared, unused, undefined  *)
(* or a constant; the shadow lint (src/sniff/rules/shadow.rs), which walks *)
(* the same body with scopes of its own; and the Go compiler, which reads  *)
(* what src/codegen makes of the body and has the last word.               *)
(*                                                                         *)
(* A behaviour reads a file, statement by statement.  The statements are   *)
(* no variable, only what the three readers keep of them.  An expression   *)
(* is the names it uses, each a Use before the statement it belongs to.    *)
(***************************************************************************)
EXTENDS Bindings

CONSTANTS
    Lists,          \* the lists of names, "_" among them, that are declared
    ErrNames,       \* names that hold values of type error
    ImportedNames,  \* for each file, the names its imports bind
    MaxBlocks,      \* bound on open blocks, the function's included
    MaxEntries      \* bound on the declarations of open blocks that are read further

VARIABLES
    infer,          \* the checker
    lint,           \* the lint's scopes
    warned,         \* names it warns of in the last statement
    go,             \* the Go compiler
    misread,        \* names that checker and Go take for different declarations
    blocks,         \* the open blocks
    left            \* functions left early

vars == <<infer, lint, warned, go, misread, blocks, left>>

Idents == UNION {InList(list) : list \in Lists}
Names == Idents \ {"_"}

ASSUME ListsAssumption == Lists \subseteq Seq(Idents)

\* Lists where a "_" is not allowed, as in a pattern, which binds identifiers
\* alone (pat.rs 197 and 250), and where there may be no name.
Named == {list \in Lists : "_" \notin InList(list)}
Maybe == {<<>>} \cup Named

-----------------------------------------------------------------------------
(* Blocks.                                                                 *)

\* A file that is rejected, refused or misread has no further interest.
Reading ==
    /\ infer.errors = <<>> /\ go.refused = {} /\ misread = {}
    /\ Cardinality(UNION {{i} \X DOMAIN infer.scopes[i] : i \in DOMAIN infer.scopes}) <= MaxEntries

InFunction == Reading /\ blocks # <<>>
Inside(kinds) == InFunction /\ Last(blocks).kind \in kinds

\* For each open block, how many scopes the checker and Go had before it,
\* and the names in its scopes that the lint does not put in its own.
Opened(kind, unlisted) ==
    [kind |-> kind, unlisted |-> unlisted,
     inferred |-> Len(infer.scopes), generated |-> Len(go.scopes)]

BlockInferred(i) == Cardinality({b \in DOMAIN blocks : blocks[b].inferred < i})
BlockGenerated(i) == Cardinality({b \in DOMAIN blocks : blocks[b].generated < i})

\* The names that mean different declarations to checker and Go, with these scopes.
Misread(list, checkers, gos) ==
    {n \in InList(list) :
        LET typed == Home(checkers, n)
            meant == Home(gos, n)
        IN typed # 0 /\ meant # 0 /\ BlockInferred(typed) # BlockGenerated(meant)}

\* A block opens, after the declarations of its header.
Enter(kind, unlisted, inf, scopes, errs, header, g) ==
    /\ Len(blocks) < MaxBlocks
    /\ blocks' = Append(blocks, Opened(kind, unlisted))
    /\ infer' = PushScope(inf)
    /\ lint' = scopes \o <<Listed(header), {}>>
    /\ warned' = CheckShadow(Append(scopes, {}), header, errs)
    /\ go' = g
    /\ UNCHANGED <<misread, left>>

Leave(kinds, inf, depth, g) ==
    /\ Inside(kinds)
    /\ infer' = inf
    /\ lint' = But(lint, depth)
    /\ warned' = {}
    /\ go' = g
    /\ blocks' = But(blocks, 1)
    /\ UNCHANGED left

-----------------------------------------------------------------------------
(* Functions.                                                              *)

\* A named result is used by every return.
InsertResults(inf, list) ==
    LET One(i, n) == MarkVarUsed(InsertVar(i, n), n) IN Each(One, inf, list)

\* infer_func_decl, up to the body.
Header(receiver, params) == InsertUntilError(PushScope(infer), receiver \o params)

\* The start of infer_func_body.  In Go the receiver, the parameters, the
\* results and the body share a scope.
BeginFunc ==
    /\ Reading /\ blocks = <<>>
    /\ \E receiver, params, results \in Maybe :
           LET header == Header(receiver, params) IN
           /\ Len(receiver) <= 1
           /\ Len(receiver) + Len(params) + Len(results) <= 2
           /\ header.errors = infer.errors
           /\ infer' = InsertResults(PushScope(header), results)
           /\ lint' = <<Listed(params), {}>>
           /\ warned' = {}
           /\ go' = GoDeclareAll(GoOpen(go), receiver \o params \o results, Parameter)
           /\ blocks' = <<Opened("func", InList(receiver \o results))>>
           /\ UNCHANGED <<misread, left>>

\* A receiver or parameter is refused: infer_func_decl returns there, and the
\* scope it has pushed stays.
LeaveEarly ==
    /\ Reading /\ blocks = <<>>
    /\ \E receiver, params \in Maybe :
           LET header == Header(receiver, params) IN
           /\ Len(receiver) <= 1 /\ Len(receiver) + Len(params) <= 2
           /\ header.errors # infer.errors
           /\ infer' = header
           /\ go' = GoClose(GoDeclareAll(GoOpen(go), receiver \o params, Parameter))
           /\ left' = left + 1
           /\ warned' = {}
           /\ UNCHANGED <<lint, misread, blocks>>

EndFunc ==
    /\ Leave({"func"}, PopScope(PopScope(CheckUnusedVars(infer))), 2, GoClose(go))
    /\ UNCHANGED misread

-----------------------------------------------------------------------------
(* Statements.                                                             *)

\* A statement of the innermost block that declares and uses names.
Stmt(declared, errs, used, inf, g) ==
    /\ infer' = inf
    /\ warned' = CheckShadow(lint, declared, errs)
    /\ lint' = InsertLint(lint, declared)
    /\ go' = g
    /\ misread' = Misread(used, infer.scopes, go.scopes)
    /\ UNCHANGED <<blocks, left>>

\* What a file's imports bind is a package, not a variable.
Targets == {list \in Lists : InList(list) \cap infer.imported = {}}
Target == Names \ infer.imported

Use ==
    /\ InFunction
    /\ \E n \in Target : Stmt(<<>>, {}, <<n>>, InferIdent(infer, n), GoUse(go, n))

\* n := v; var n I = v in Go where v is a variant of the enum I.
Decl ==
    /\ InFunction
    /\ \E n \in Idents, variant \in BOOLEAN :
           /\ <<n>> \in Lists
           /\ Stmt(<<n>>, ErrNames, <<>>, InsertVar(infer, n),
                   IF variant THEN GoDeclare(go, n, Var) ELSE GoShort(go, <<n>>, Var))

VarDecl ==
    /\ InFunction
    /\ \E list \in Named :
           Stmt(list, ErrNames, <<>>, Each(InsertVar, infer, list), GoDeclareAll(go, list, Var))

MultiDecl ==
    /\ InFunction
    /\ \E list \in Lists :
           /\ Len(list) = 2
           /\ Stmt(list, ErrNames, <<>>, InsertShortDeclVars(infer, list), GoShort(go, list, Var))

\* const n, m = ..., of literals or of values of run time.
ConstDecl ==
    /\ InFunction
    /\ \E list \in Named, literal \in BOOLEAN :
           Stmt(list, ErrNames, <<>>, Each(InsertConst, infer, list),
                IF literal THEN GoDeclareAll(go, list, GoEntry("const"))
                ELSE GoShort(go, list, [Var EXCEPT !.fixed = TRUE]))

\* The target is inferred as an expression: it counts as used.
Assign ==
    /\ InFunction
    /\ \E n \in Target :
           Stmt(<<>>, {}, <<n>>, CheckVarMutable(InferIdent(infer, n), n), GoAssign(go, n))

\* n, m = ..., and n = f() ?, without the look at what is a constant.
Reassign ==
    /\ InFunction
    /\ \E list \in Targets :
           Stmt(<<>>, {}, list, Each(InferIdent, infer, list), Each(GoAssign, go, list))

\* n++ and n += v.
Step(inf, n) == InferIdent(CheckVarMutable(inf, n), n)
GoStep(g, n) == GoAssign(GoUse(g, n), n)
IncDec ==
    /\ InFunction
    /\ \E n \in Target : Stmt(<<>>, {}, <<n>>, Step(infer, n), GoStep(go, n))

\* n := f() ? and n, m := f() ?  Go gets n, _err := f() with _err new.
TryDecl ==
    /\ InFunction
    /\ \E list \in Lists :
           Stmt(list, ErrNames, <<>>, Each(InsertVar, infer, list), GoMix(go, list, Var))

-----------------------------------------------------------------------------
(* Statements with blocks.                                                 *)

\* { ... }, a loop or an if without declarations, a match arm or select case
\* without bindings.
BeginBlock ==
    /\ InFunction /\ Len(blocks) < MaxBlocks
    /\ infer' = PushScope(infer)
    /\ lint' = Append(lint, {})
    /\ warned' = {}
    /\ go' = GoOpen(go)
    /\ blocks' = Append(blocks, Opened("block", {}))
    /\ UNCHANGED <<misread, left>>

EndBlock ==
    /\ Leave({"block"}, PopScope(infer), 1, GoClose(go))
    /\ UNCHANGED misread

\* if n := v; ... { and for n := v; ... {, and the same with n, m := ...
BeginIf ==
    /\ InFunction
    /\ \E kind \in {"if", "for"}, list \in Lists :
           LET scope == PushScope(infer) IN
           /\ Enter(kind, {},
                    IF Len(list) = 1 THEN InsertVar(scope, list[1])
                                     ELSE InsertShortDeclVars(scope, list),
                    lint, ErrNames, list, GoOpen(GoShort(GoOpen(go), list, Var)))

\* } else {, once.
Else_keeps ==
    /\ Inside({"if"})
    /\ infer' = PushScope(infer)
    /\ lint' = Append(But(lint, 1), {})
    /\ warned' = {}
    /\ go' = GoOpen(GoClose(go))
    /\ blocks' = [blocks EXCEPT ![Len(blocks)].kind = "else"]
    /\ UNCHANGED <<misread, left>>

Else ==
    /\ Inside({"if"})
    /\ infer' = PushScope(PopScope(infer))
    /\ lint' = Append(But(lint, 1), {})
    /\ warned' = {}
    /\ go' = GoOpen(GoClose(go))
    /\ blocks' = [blocks EXCEPT ![Len(blocks)].kind = "else"]
    /\ UNCHANGED <<misread, left>>

EndIf ==
    /\ Leave({"if", "else", "range"}, PopScope(PopScope(infer)), 2, GoClose(GoClose(go)))
    /\ UNCHANGED misread

\* The post statement is read after the body, in the scope of the header.
EndFor ==
    /\ InFunction
    /\ \E post \in {<<>>} \cup {<<n>> : n \in Target} :
        /\ Leave({"for"}, PopScope(Each(Step, PopScope(infer), post)), 2,
                 GoClose(Each(GoStep, GoClose(go), post)))
        /\ misread' = Misread(post, PopScope(infer).scopes, GoClose(go).scopes)

BeginRange ==
    /\ InFunction
    /\ \E list \in Lists :
           /\ Enter("range", {}, Each(InsertVar, PushScope(infer), list), lint, ErrNames, list,
                    GoOpen(GoShort(GoOpen(go), list, Var)))

\* The bindings of a match arm.  With one pattern Go gets n := __v.F and _ = n
\* for each, with several patterns only when a struct is matched.
GoBindings(g, list) ==
    LET One(h, n) == GoUse(GoShort(h, <<n>>, Var), n) IN Each(One, g, list)

\* The bindings of several patterns are a map: each name once.
BeginArm ==
    /\ InFunction
    /\ \E list \in Named, several, struct \in BOOLEAN :
           /\ several => list[1] # Last(list) \/ Len(list) = 1
           /\ Enter("arm", {},
                    IF several THEN Each(InsertVar, PushScope(infer), list)
                               ELSE InsertUntilError(PushScope(infer), list),
                    lint, ErrNames, list,
                    IF several /\ ~ struct THEN GoOpen(go) ELSE GoBindings(GoOpen(go), list))

\* case n := <-c and case n, ok := <-c; ok is no error.
BeginCase ==
    /\ InFunction
    /\ \E list \in Lists :
           /\ Len(list) = 2 => list[2] \in Names
           /\ Enter("case", {}, Each(InsertVar, PushScope(infer), list), lint,
                    IF Len(list) = 1 THEN ErrNames ELSE ErrNames \ {list[2]}, list,
                    GoShort(GoOpen(go), list, Var))

\* The handler of a ? whose statement has been read; ? e { begins e := _err.
BeginHandler ==
    /\ InFunction
    /\ \E list \in {<<>>} \cup {<<n>> : n \in Names} :
           /\ Enter("handler", {}, Each(InsertVar, PushScope(infer), list), lint, Names, list,
                    GoDeclareAll(GoOpen(go), list, Var))

EndHandler_keeps ==
    /\ Leave({"handler"}, CheckUnusedVars(PopScope(infer)), 2, GoClose(go))
    /\ UNCHANGED misread

EndHandler ==
    /\ Leave({"handler"}, PopScope(CheckUnusedVars(PopScope(infer))), 2, GoClose(go))
    /\ UNCHANGED misread

\* A function literal: the checker declares its parameters, not its results.
BeginClosure ==
    /\ InFunction
    /\ \E params, results \in Maybe :
           /\ Len(params) + Len(results) <= 2
           /\ Enter("closure", InList(results), Each(InsertVar, PushScope(infer), params), lint, ErrNames, params,
                    GoDeclareAll(GoOpen(go), params \o results, Parameter))

EndArm ==
    /\ Leave({"arm", "case", "closure"}, PopScope(PopScope(infer)), 2, GoClose(go))
    /\ UNCHANGED misread

-----------------------------------------------------------------------------

ScopesInit ==
    /\ infer \in [imported : ImportedNames, scopes : {<<<<>>>>}, errors : {<<>>}]
    /\ lint = <<>>
    /\ warned = {}
    /\ go = [scopes |-> <<>>, refused |-> {}]
    /\ misread = {}
    /\ blocks = <<>>
    /\ left = 0

ScopesNext ==
    \/ BeginFunc \/ LeaveEarly \/ EndFunc
    \/ Use \/ Decl \/ VarDecl \/ MultiDecl \/ ConstDecl
    \/ Assign \/ Reassign \/ IncDec \/ TryDecl
    \/ BeginBlock \/ EndBlock \/ BeginIf \/ Else \/ EndIf \/ EndFor \/ BeginRange
    \/ BeginArm \/ BeginCase \/ BeginHandler \/ EndHandler \/ BeginClosure \/ EndArm

ScopesSpec == ScopesInit /\ [][ScopesNext]_vars

-----------------------------------------------------------------------------
(* Properties.                                                             *)

\* Between functions the checker keeps the package's scope and no other, but
\* for the one of a function it left early; Go and the lint keep none.
ScopesUnwind ==
    blocks = <<>> => /\ Len(infer.scopes) = 1 + left
                     /\ go.scopes = <<>>
                     /\ lint = <<>>

\* The block that a step reads in or ends, and the one it opens.
Reads(kinds) == blocks # <<>> /\ Last(blocks).kind \in kinds
Opens(kinds) == Len(blocks') > Len(blocks) /\ Last(blocks').kind \in kinds

Kinds == {"func", "block", "if", "for", "range", "arm", "case", "handler", "closure"}
OneScope == {"func", "arm", "case", "handler", "closure"}

\* The scopes that a step looks names up in: when a loop ends, its body's is closed.
Seen(scopes) == IF Len(blocks') < Len(blocks) THEN But(scopes, 1) ELSE scopes

\* Go's innermost scope has a refused name that the checker's, which has a scope
\* of its own for the body, has not.
SharesTheScope ==
    /\ Reads(OneScope)
    /\ \E refusal \in go'.refused :
        refusal.name \in DOMAIN Last(go.scopes) \ DOMAIN Last(infer.scopes)

\* What the generated code is refused for though the checker accepts the source.
KnownGap(refusal) ==
    LET n == refusal.name IN
    CASE refusal.kind = "redeclared" ->
            \/ n = "_"                              \* _ := v
            \/ SharesTheScope                       \* a parameter, declared again
            \/ Opens({"func", "closure", "if", "for"})  \* twice in a header
            \/ ~ Opens(Kinds) /\ n \notin DOMAIN Last(go.scopes)   \* n, n := ...
      [] refusal.kind = "unused" ->
            \/ ~ Reads({"func"})                    \* only a function's body is checked
            \/ Last(go.scopes)[n].assigned          \* an assignment counts as a use
      [] refusal.kind = "undefined" ->              \* the binding of several patterns
            blocks[BlockInferred(Home(Seen(infer.scopes), n))].kind = "arm"
      [] refusal.kind = "constant" -> TRUE

\* When the checker accepts a statement, so does the Go compiler the code made
\* of it, but for the known gaps.
AcceptedBodiesCompile ==
    [][infer'.errors = <<>> =>
        \A refusal \in go'.refused : KnownGap(refusal)]_vars

\* A use is checked against the declaration it means in the generated code.  Not
\* so the named results of a closure, which the checker does not declare, and
\* the bindings of several patterns, which the code does not declare.
UsesMeanTheSame ==
    [][\A n \in misread' :
        LET read == {BlockInferred(Home(Seen(infer.scopes), n)), BlockGenerated(Home(Seen(go.scopes), n))}
        IN \E b \in read : blocks[b].kind \in {"closure", "arm"}]_vars

\* A constant of the source is written to: Go refuses it, or lets a variable change.
Overwritten ==
    \/ \E refusal \in go'.refused : refusal.kind = "constant"
    \/ \E i \in DOMAIN go.scopes \cap DOMAIN go'.scopes : \E n \in DOMAIN go.scopes[i] \cap DOMAIN go'.scopes[i] :
        go.scopes[i][n].fixed /\ ~ go.scopes[i][n].assigned /\ go'.scopes[i][n].assigned

\* A statement that is accepted and writes to a constant is none of n = v, n++,
\* n += v, n := v and n := f() ?; it is n, m = ..., n = f() ? or n, m := ...
ConstantsAreKept ==
    [][infer'.errors = <<>> /\ misread' = {} /\ Overwritten =>
        ~ (Assign \/ IncDec \/ EndFor \/ Decl \/ TryDecl)]_vars

\* What the checker rejects though Go would not.
KnownStrictness(error) ==
    CASE error.kind = "ShadowsImport" -> TRUE       \* by design
      [] error.kind = "Redeclared" ->               \* n := f() ? where Go assigns n
            error.names \subseteq DOMAIN Last(infer.scopes) \cap DOMAIN Last(go.scopes)
      [] error.kind = "UnusedVariable" ->           \* a constant, or declared again since its use
            \E n \in error.names :
                Last(go.scopes)[n].kind # "var" \/ Last(go.scopes)[n].assigned
      [] error.kind = "UndefinedVariable" ->        \* the named result of a closure
            \A n \in error.names : blocks[BlockGenerated(Home(Seen(go.scopes), n))].kind = "closure"
      [] error.kind = "AssignToConst" ->            \* a variable in Go
            \A n \in error.names : n \in misread' \/
                LET entry == go.scopes[Home(Seen(go.scopes), n)][n]
                IN entry.fixed \/ entry.assigned \/ entry.kind = "parameter"

\* When the checker rejects a statement, so does Go, but where Soppo is stricter.
RejectionsAreGos ==
    [][infer'.errors # infer.errors /\ go'.refused = {} =>
        \A i \in DOMAIN infer'.errors : KnownStrictness(infer'.errors[i])]_vars

\* The scope of Go that a step declares names in, those around it that have n, and
\* the new names.
Declares == IF Len(blocks') > Len(blocks) THEN Len(go.scopes) + 1 ELSE Len(go.scopes)

Hides(n) == {i \in 1..(Declares - 1) : n \in DOMAIN go'.scopes[i]}

Declared ==
    DOMAIN go'.scopes[Declares] \
        (IF Declares \in DOMAIN go.scopes THEN DOMAIN go.scopes[Declares] ELSE {})

\* The lint warns of a declaration if and only if it hides another one in Go.  It
\* does not when either is a receiver or a result, nor of the error a handler names;
\* it does when a short declaration assigns a parameter or a binding, and when Go
\* does not get the binding.
LintWarnsOfHiding ==
    [][blocks # <<>> /\ Len(blocks') >= Len(blocks) /\ infer'.errors = <<>> /\ go'.refused = {} =>
        /\ \A n \in Declared \ ErrNames :
            \/ n \in warned'
            \/ \A i \in Hides(n) : n \in blocks[BlockGenerated(i)].unlisted
            \/ Opens({"handler"})
            \/ Opens({"closure"}) /\ n \in Last(blocks').unlisted
        /\ \A n \in warned' :
            \/ Hides(n) # {}
            \/ \E i \in DOMAIN infer.scopes :
                n \in DOMAIN infer.scopes[i] /\ blocks[BlockInferred(i)].kind \in OneScope]_vars
=============================================================================
