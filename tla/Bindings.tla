------------------------------ MODULE Bindings ------------------------------
(***************************************************************************)
(* What declaring, using and assigning a name does, to each of the three   *)
(* programs that read a function body: the checker (src/types/infer), the  *)
(* shadow lint (src/sniff/rules/shadow.rs) and the Go compiler, on the     *)
(* code that src/codegen makes.  Each keeps a sequence of scopes,          *)
(* innermost last.                                                         *)
(***************************************************************************)
EXTENDS Integers, Sequences, FiniteSets, Lists

InList(list) == {list[i] : i \in 1..Len(list)}
Last(s) == s[Len(s)]
But(s, k) == SubSeq(s, 1, Len(s) - k)

\* The innermost scope that has n, 0 if none has.
Home(s, n) ==
    LET at == {i \in 1..Len(s) : n \in DOMAIN s[i]} IN
    IF at = {} THEN 0 ELSE CHOOSE i \in at : \A j \in at : j <= i

\* A scope with an entry for n.
With(scope, n, entry) == [m \in DOMAIN scope \cup {n} |-> IF m = n THEN entry ELSE scope[m]]

-----------------------------------------------------------------------------
(* The checker: a record of the names the file's imports bind, the scopes  *)
(* and the errors.                                                         *)

Entry(mutable) == [used |-> FALSE, mutable |-> mutable]

EmitError(inf, kind, names) ==
    [inf EXCEPT !.errors = Append(@, [kind |-> kind, names |-> names])]

PushScope(inf) == [inf EXCEPT !.scopes = Append(@, <<>>)]
PopScope(inf) == [inf EXCEPT !.scopes = But(@, 1)]

Bind(inf, n, entry) ==
    [inf EXCEPT !.scopes[Len(inf.scopes)] = With(@, n, entry)]

InCurrentScope_any(inf, n) == Home(inf.scopes, n) # 0

InCurrentScope(inf, n) == n \in DOMAIN Last(inf.scopes)

Insert(inf, n, entry) ==
    IF n = "_" THEN inf
    ELSE IF n \in inf.imported THEN EmitError(inf, "ShadowsImport", {n})
    ELSE IF InCurrentScope(inf, n) THEN EmitError(inf, "Redeclared", {n})
    ELSE Bind(inf, n, entry)

InsertVar(inf, n) == Insert(inf, n, Entry(TRUE))
InsertConst(inf, n) == Insert(inf, n, Entry(FALSE))

\* The first declaration that fails ends the list.
InsertUntilError(inf, list) ==
    LET One(i, n) == IF i.errors # inf.errors THEN i ELSE InsertVar(i, n)
    IN Each(One, inf, list)

\* Without a look at the imports or at what the name was.
UpdateVar(inf, n) == IF n = "_" THEN inf ELSE Bind(inf, n, Entry(TRUE))

InsertShortDeclVars(inf, list) ==
    LET real == InList(list) \ {"_"} IN
    IF real # {} /\ \A n \in real : InCurrentScope(inf, n)
    THEN EmitError(inf, "Redeclared", real)
    ELSE Each(UpdateVar, inf, list)

MarkVarUsed_all(inf, n) ==
    [inf EXCEPT !.scopes = [i \in DOMAIN @ |->
        IF n \in DOMAIN @[i] THEN [@[i] EXCEPT ![n].used = TRUE] ELSE @[i]]]

MarkVarUsed(inf, n) ==
    LET at == Home(inf.scopes, n) IN
    IF at = 0 THEN inf ELSE [inf EXCEPT !.scopes[at][n].used = TRUE]

InferIdent(inf, n) ==
    IF n = "_" THEN inf
    ELSE IF Home(inf.scopes, n) = 0 THEN EmitError(inf, "UndefinedVariable", {n})
    ELSE MarkVarUsed(inf, n)

CheckVarMutable_inner(inf, n) ==
    IF InCurrentScope(inf, n) /\ ~ Last(inf.scopes)[n].mutable
    THEN EmitError(inf, "AssignToConst", {n})
    ELSE inf

CheckVarMutable(inf, n) ==
    LET at == Home(inf.scopes, n) IN
    IF at # 0 /\ ~ inf.scopes[at][n].mutable
    THEN EmitError(inf, "AssignToConst", {n})
    ELSE inf

CheckUnusedVars(inf) ==
    LET unused == {n \in DOMAIN Last(inf.scopes) : ~ Last(inf.scopes)[n].used} IN
    IF unused = {} THEN inf ELSE EmitError(inf, "UnusedVariable", unused)

-----------------------------------------------------------------------------
(* The shadow lint: each scope is a set of names.                          *)

Hidden_parent(scopes, n) == Len(scopes) > 1 /\ n \in scopes[Len(scopes) - 1]

Hidden(scopes, n) == \E i \in 1..(Len(scopes) - 1) : n \in scopes[i]

\* The names of one declaration that are warned of; errs have type error.
CheckShadow(scopes, list, errs) ==
    {n \in InList(list) \ errs : n # "_" /\ Hidden(scopes, n)}

\* "_" is in the lint's scopes too, but never looked for.
Listed(list) == InList(list) \ {"_"}
InsertLint(scopes, list) == [scopes EXCEPT ![Len(scopes)] = @ \cup Listed(list)]

-----------------------------------------------------------------------------
(* The Go compiler: a record of the scopes and of what it refuses.         *)

\* kind: a variable, which must be used; a constant; or a parameter or
\* result, of which nothing more is asked.  A Soppo constant with a value of run time is a
\* variable in Go, which is fixed here.
GoEntry(kind) == [kind |-> kind, used |-> FALSE, assigned |-> FALSE, fixed |-> FALSE]

Var == GoEntry("var")
Parameter == GoEntry("parameter")

Refuse(g, what, names) ==
    [g EXCEPT !.refused = @ \cup {[kind |-> what, name |-> n] : n \in names}]
GoOpen(g) == [g EXCEPT !.scopes = Append(@, <<>>)]
GoBind(g, n, entry) == [g EXCEPT !.scopes[Len(g.scopes)] = With(@, n, entry)]

GoDeclare(g, n, entry) ==
    IF n = "_" THEN g
    ELSE IF n \in DOMAIN Last(g.scopes) THEN Refuse(g, "redeclared", {n})
    ELSE GoBind(g, n, entry)

GoUse(g, n) ==
    LET at == Home(g.scopes, n) IN
    IF n = "_" THEN g
    ELSE IF at = 0 THEN Refuse(g, "undefined", {n})
    ELSE IF g.scopes[at][n].kind # "var" THEN g
    ELSE [g EXCEPT !.scopes[at][n].used = TRUE]

GoAssign(g, n) ==
    LET at == Home(g.scopes, n) IN
    IF n = "_" THEN g
    ELSE IF at = 0 THEN Refuse(g, "undefined", {n})
    ELSE IF g.scopes[at][n].kind = "const" THEN Refuse(g, "constant", {n})
    ELSE IF g.scopes[at][n].kind = "parameter" THEN g
    ELSE [g EXCEPT !.scopes[at][n].assigned = TRUE]

GoDeclareAll(g, list, entry) ==
    LET One(h, n) == GoDeclare(h, n, entry) IN Each(One, g, list)

\* The names of a list that it has twice.
Repeated(list) ==
    {list[i] : i \in {i \in DOMAIN list : \E j \in 1..(i - 1) : list[j] = list[i]}} \ {"_"}

\* n, m, ... := ... with something new: the names the scope has are assigned.
GoMix(g, list, entry) ==
    LET old == DOMAIN Last(g.scopes)
        One(h, n) == IF n \in old THEN GoAssign(h, n) ELSE GoDeclare(h, n, entry)
    IN Refuse(Each(One, g, list), "redeclared", Repeated(list))

\* n, m := ...: one must be new.
GoShort(g, list, entry) ==
    IF InList(list) \subseteq DOMAIN Last(g.scopes) \cup {"_"}
    THEN Refuse(g, "redeclared", InList(list))
    ELSE GoMix(g, list, entry)

\* A scope ends: its variables must have been used.
GoClose(g) ==
    LET scope == Last(g.scopes)
        unused == {n \in DOMAIN scope : scope[n].kind = "var" /\ ~ scope[n].used}
    IN [Refuse(g, "unused", unused) EXCEPT !.scopes = But(@, 1)]
=============================================================================
