---------------------------- MODULE ScopesProofs ----------------------------
(***************************************************************************)
(* Proofs about Scopes, for all lists of names and without a bound on the  *)
(* blocks.  The checker, the lint and the Go compiler close the scopes     *)
(* that they open, wherever errors come up; and a name that is used means  *)
(* the same declaration to the checker as in the generated code, but for   *)
(* the two kinds of block in which one of them declares what the other     *)
(* does not.                                                               *)
(***************************************************************************)
EXTENDS Scopes, SequenceTheorems, FiniteSetTheorems, WellFoundedInduction, NaturalsInduction, TLAPS

-----------------------------------------------------------------------------
(* The states of the checker and the Go compiler that have k scopes.       *)

Entries == [used : BOOLEAN, mutable : BOOLEAN]
GoEntries ==
    [kind : {"var", "const", "parameter"}, used : BOOLEAN, assigned : BOOLEAN, fixed : BOOLEAN]

\* A scope maps the names it declares to what is known of them.
ScopesOf(E) == UNION {[D -> E] : D \in SUBSET Idents}

ErrorKinds == {"ShadowsImport", "Redeclared", "UndefinedVariable", "AssignToConst", "UnusedVariable"}
Errors == [kind : ErrorKinds, names : SUBSET Idents]
Refusals == [kind : {"redeclared", "undefined", "constant", "unused"}, name : Idents]

Checkers(k) ==
    {inf \in [imported : ImportedNames, scopes : Seq(ScopesOf(Entries)), errors : Seq(Errors)] :
        Len(inf.scopes) = k}

Compilers(k) ==
    {g \in [scopes : Seq(ScopesOf(GoEntries)), refused : SUBSET Refusals] : Len(g.scopes) = k}

-----------------------------------------------------------------------------
(* The inductive invariant.                                                *)

\* The scopes that a block has in the checker and in Go.
Inferred(kind) == IF kind = "block" THEN 1 ELSE 2
Generated(kind) == IF kind \in {"if", "else", "for", "range"} THEN 2 ELSE 1

BlockTypes ==
    [kind : Kinds \cup {"else"}, unlisted : SUBSET Idents, inferred : Nat, generated : Nat]

\* A function is the outermost block, and no other; before it the checker has the
\* package's scope and those that were left.  Each block begins where the scopes of
\* the one around it end.
BlocksNest ==
    /\ blocks \in Seq(BlockTypes)
    /\ \A b \in 1..Len(blocks) :
        IF b = 1
        THEN blocks[1].kind = "func" /\ blocks[1].inferred = 1 + left /\ blocks[1].generated = 0
        ELSE /\ blocks[b].kind # "func" /\ blocks[b].inferred > left
             /\ blocks[b].inferred = blocks[b - 1].inferred + Inferred(blocks[b - 1].kind)
             /\ blocks[b].generated = blocks[b - 1].generated + Generated(blocks[b - 1].kind)

\* The scopes there should be, after the innermost block's.
InferDepth ==
    IF blocks = <<>> THEN 1 + left ELSE Last(blocks).inferred + Inferred(Last(blocks).kind)
GoDepth ==
    IF blocks = <<>> THEN 0 ELSE Last(blocks).generated + Generated(Last(blocks).kind)

\* The lint has a scope for each of the checker's but the package's and the left ones.
ScopesInv ==
    /\ left \in Nat
    /\ BlocksNest
    /\ infer \in Checkers(InferDepth)
    /\ go \in Compilers(GoDepth)
    /\ lint \in Seq(SUBSET Idents) /\ Len(lint) = InferDepth - 1 - left

-----------------------------------------------------------------------------
(* A scope that changes.                                                   *)

\* A name that is declared joins the scope.
LEMMA BoundScope ==
    ASSUME NEW E, NEW f \in ScopesOf(E), NEW n \in Idents, NEW e \in E
    PROVE  With(f, n, e) \in ScopesOf(E)
<1>1. PICK D \in SUBSET Idents : f \in [D -> E]
  BY DEF ScopesOf
<1>2. With(f, n, e) \in [D \cup {n} -> E]
  BY <1>1 DEF With
<1> QED BY <1>2 DEF ScopesOf

\* A name that is used, or assigned, stays in the scope as what it is.
LEMMA MarkedScope ==
    ASSUME NEW n
    PROVE  /\ \A f \in ScopesOf(Entries) : [f EXCEPT ![n].used = TRUE] \in ScopesOf(Entries)
           /\ \A f \in ScopesOf(GoEntries) : [f EXCEPT ![n].used = TRUE] \in ScopesOf(GoEntries)
           /\ \A f \in ScopesOf(GoEntries) : [f EXCEPT ![n].assigned = TRUE] \in ScopesOf(GoEntries)
<1>1. ASSUME NEW f \in ScopesOf(Entries)
      PROVE  [f EXCEPT ![n].used = TRUE] \in ScopesOf(Entries)
  <2>1. PICK D \in SUBSET Idents : f \in [D -> Entries]
    BY DEF ScopesOf
  <2>2. [f EXCEPT ![n].used = TRUE] \in [D -> Entries]
    BY <2>1 DEF Entries
  <2> QED BY <2>2 DEF ScopesOf
<1>2. ASSUME NEW f \in ScopesOf(GoEntries)
      PROVE  /\ [f EXCEPT ![n].used = TRUE] \in ScopesOf(GoEntries)
             /\ [f EXCEPT ![n].assigned = TRUE] \in ScopesOf(GoEntries)
  <2>1. PICK D \in SUBSET Idents : f \in [D -> GoEntries]
    BY DEF ScopesOf
  <2>2. [f EXCEPT ![n].used = TRUE] \in [D -> GoEntries]
    BY <2>1 DEF GoEntries
  <2>3. [f EXCEPT ![n].assigned = TRUE] \in [D -> GoEntries]
    BY <2>1 DEF GoEntries
  <2> QED BY <2>2, <2>3 DEF ScopesOf
<1> QED BY <1>1, <1>2

\* A new scope is empty.
LEMMA NewScope ==
    ASSUME NEW E
    PROVE  <<>> \in ScopesOf(E)
<1>1. <<>> \in [{} -> E]
  OBVIOUS
<1> QED BY <1>1 DEF ScopesOf

\* Of scopes, one changes.
LEMMA OneChanges ==
    ASSUME NEW S, NEW s \in Seq(S), NEW i, NEW x \in S
    PROVE  [s EXCEPT ![i] = x] \in Seq(S) /\ Len([s EXCEPT ![i] = x]) = Len(s)
<1>1. CASE i \in 1..Len(s)
  BY <1>1, ExceptSeq
<1>2. CASE i \notin 1..Len(s)
  <2>1. [s EXCEPT ![i] = x] = s
    BY <1>2
  <2> QED BY <2>1
<1> QED BY <1>1, <1>2

\* One name of one scope is marked as used.
LEMMA OneMarked ==
    ASSUME NEW s \in Seq(ScopesOf(Entries)), NEW i, NEW n
    PROVE  /\ [s EXCEPT ![i][n].used = TRUE] \in Seq(ScopesOf(Entries))
           /\ Len([s EXCEPT ![i][n].used = TRUE]) = Len(s)
<1>1. CASE i \in 1..Len(s)
  <2> DEFINE u == [s[i] EXCEPT ![n].used = TRUE]
  <2>1. s[i] \in ScopesOf(Entries)
    BY <1>1
  <2>2. u \in ScopesOf(Entries)
    BY <2>1, MarkedScope
  <2>3. [s EXCEPT ![i][n].used = TRUE] = [s EXCEPT ![i] = u]
    OBVIOUS
  <2> HIDE DEF u
  <2>4. [s EXCEPT ![i] = u] \in Seq(ScopesOf(Entries)) /\ Len([s EXCEPT ![i] = u]) = Len(s)
    BY <2>2, OneChanges
  <2> QED BY <2>3, <2>4
<1>2. CASE i \notin 1..Len(s)
  <2>1. [s EXCEPT ![i][n].used = TRUE] = s
    BY <1>2
  <2> QED BY <2>1
<1> QED BY <1>1, <1>2

\* Some are dropped at the end.
LEMMA SomeDropped ==
    ASSUME NEW S, NEW s \in Seq(S), NEW d \in 0..Len(s)
    PROVE  But(s, d) \in Seq(S) /\ Len(But(s, d)) = Len(s) - d
<1>1. Len(s) \in Nat /\ \A i \in 1..(Len(s) - d) : s[i] \in S
  OBVIOUS
<1> QED BY <1>1, SubSeqProperties DEF But

-----------------------------------------------------------------------------
(* What one name does.                                                     *)

\* The checker's stack stays as high as it is, whatever is declared or used.
LEMMA CheckerKeeps ==
    ASSUME NEW k \in Nat, NEW inf \in Checkers(k)
    PROVE  /\ \A kind \in ErrorKinds, ns \in SUBSET Idents : EmitError(inf, kind, ns) \in Checkers(k)
           /\ \A n : MarkVarUsed(inf, n) \in Checkers(k)
           /\ k > 0 => \A n \in Idents, e \in Entries : Bind(inf, n, e) \in Checkers(k)
<1>1. /\ inf \in [imported : ImportedNames, scopes : Seq(ScopesOf(Entries)), errors : Seq(Errors)]
      /\ Len(inf.scopes) = k /\ inf.scopes \in Seq(ScopesOf(Entries)) /\ inf.errors \in Seq(Errors)
  BY DEF Checkers
<1>2. ASSUME NEW s \in Seq(ScopesOf(Entries)), Len(s) = k
      PROVE  [inf EXCEPT !.scopes = s] \in Checkers(k)
  BY <1>1, <1>2 DEF Checkers
<1>3. ASSUME NEW kind \in ErrorKinds, NEW ns \in SUBSET Idents
      PROVE  EmitError(inf, kind, ns) \in Checkers(k)
  <2>1. [kind |-> kind, names |-> ns] \in Errors
    BY DEF Errors
  <2>2. Append(inf.errors, [kind |-> kind, names |-> ns]) \in Seq(Errors)
    BY <1>1, <2>1
  <2> QED BY <1>1, <2>2 DEF EmitError, Checkers
<1>4. ASSUME NEW n PROVE MarkVarUsed(inf, n) \in Checkers(k)
  <2> DEFINE at == Home(inf.scopes, n)
             s == [inf.scopes EXCEPT ![at][n].used = TRUE]
  <2>1. MarkVarUsed(inf, n) = IF at = 0 THEN inf ELSE [inf EXCEPT !.scopes = s]
    BY DEF MarkVarUsed
  <2>2. s \in Seq(ScopesOf(Entries)) /\ Len(s) = k
    <3> HIDE DEF at
    <3> QED BY <1>1, OneMarked
  <2> HIDE DEF at, s
  <2> QED BY <1>2, <2>1, <2>2
<1>5. ASSUME k > 0, NEW n \in Idents, NEW e \in Entries
      PROVE  Bind(inf, n, e) \in Checkers(k)
  <2> DEFINE f == With(inf.scopes[k], n, e)
             s == [inf.scopes EXCEPT ![k] = f]
  <2>1. f \in ScopesOf(Entries)
    BY <1>1, <1>5, BoundScope
  <2>2. Bind(inf, n, e) = [inf EXCEPT !.scopes = s]
    BY <1>1 DEF Bind
  <2> HIDE DEF f
  <2>3. s \in Seq(ScopesOf(Entries)) /\ Len(s) = k
    BY <1>1, <2>1, OneChanges
  <2> HIDE DEF s
  <2> QED BY <1>2, <2>2, <2>3
<1> QED BY <1>3, <1>4, <1>5

\* What is declared, used or assigned, one name at a time.
LEMMA NamesKeep ==
    ASSUME NEW k \in Nat \ {0}, NEW inf \in Checkers(k), NEW n \in Idents
    PROVE  /\ InsertVar(inf, n) \in Checkers(k) /\ InsertConst(inf, n) \in Checkers(k)
           /\ UpdateVar(inf, n) \in Checkers(k) /\ InferIdent(inf, n) \in Checkers(k)
           /\ CheckVarMutable(inf, n) \in Checkers(k)
<1>1. k \in Nat /\ k > 0 /\ {n} \in SUBSET Idents
  OBVIOUS
<1>2. Entry(TRUE) \in Entries /\ Entry(FALSE) \in Entries
  BY DEF Entry, Entries
<1>3. \A kind \in ErrorKinds : EmitError(inf, kind, {n}) \in Checkers(k)
  BY <1>1, CheckerKeeps
<1>4. \A e \in Entries : Bind(inf, n, e) \in Checkers(k)
  BY <1>1, CheckerKeeps
<1>5. MarkVarUsed(inf, n) \in Checkers(k)
  BY <1>1, CheckerKeeps
<1>6. ASSUME NEW e \in Entries PROVE Insert(inf, n, e) \in Checkers(k)
  BY <1>3, <1>4 DEF Insert, ErrorKinds
<1>7. InsertVar(inf, n) \in Checkers(k) /\ InsertConst(inf, n) \in Checkers(k)
  BY <1>2, <1>6 DEF InsertVar, InsertConst
<1>8. UpdateVar(inf, n) \in Checkers(k)
  BY <1>2, <1>4 DEF UpdateVar
<1>9. InferIdent(inf, n) \in Checkers(k)
  BY <1>3, <1>5 DEF InferIdent, ErrorKinds
<1>10. CheckVarMutable(inf, n) \in Checkers(k)
  BY <1>3 DEF CheckVarMutable, ErrorKinds
<1> QED BY <1>7, <1>8, <1>9, <1>10

\* A scope is pushed or popped, or looked at for what is unused.
LEMMA CheckerMoves ==
    ASSUME NEW k \in Nat, NEW inf \in Checkers(k)
    PROVE  /\ PushScope(inf) \in Checkers(k + 1)
           /\ k > 0 => PopScope(inf) \in Checkers(k - 1) /\ CheckUnusedVars(inf) \in Checkers(k)
<1>1. /\ inf \in [imported : ImportedNames, scopes : Seq(ScopesOf(Entries)), errors : Seq(Errors)]
      /\ Len(inf.scopes) = k /\ inf.scopes \in Seq(ScopesOf(Entries))
  BY DEF Checkers
<1>2. ASSUME NEW s \in Seq(ScopesOf(Entries))
      PROVE  [inf EXCEPT !.scopes = s] \in Checkers(Len(s))
  BY <1>1 DEF Checkers
<1>3. PushScope(inf) \in Checkers(k + 1)
  <2> DEFINE s == Append(inf.scopes, <<>>)
  <2>1. s \in Seq(ScopesOf(Entries)) /\ Len(s) = k + 1
    BY <1>1, NewScope
  <2>2. PushScope(inf) = [inf EXCEPT !.scopes = s]
    BY DEF PushScope
  <2> HIDE DEF s
  <2> QED BY <1>2, <2>1, <2>2
<1>4. ASSUME k > 0 PROVE PopScope(inf) \in Checkers(k - 1)
  <2> DEFINE s == But(inf.scopes, 1)
  <2>1. s \in Seq(ScopesOf(Entries)) /\ Len(s) = k - 1
    <3>1. 1 \in 0..Len(inf.scopes)
      BY <1>1, <1>4
    <3> QED BY <1>1, <3>1, SomeDropped
  <2>2. PopScope(inf) = [inf EXCEPT !.scopes = s]
    BY DEF PopScope
  <2> HIDE DEF s
  <2> QED BY <1>2, <2>1, <2>2
<1>5. ASSUME k > 0 PROVE CheckUnusedVars(inf) \in Checkers(k)
  <2> DEFINE scope == Last(inf.scopes)
             unused == {n \in DOMAIN scope : ~ scope[n].used}
  <2>1. scope \in ScopesOf(Entries)
    BY <1>1, <1>5 DEF Last
  <2>2. unused \in SUBSET Idents
    BY <2>1 DEF ScopesOf
  <2>3. CheckUnusedVars(inf) = IF unused = {} THEN inf ELSE EmitError(inf, "UnusedVariable", unused)
    BY DEF CheckUnusedVars
  <2> HIDE DEF unused
  <2>4. EmitError(inf, "UnusedVariable", unused) \in Checkers(k)
    BY <2>2, CheckerKeeps DEF ErrorKinds
  <2> QED BY <2>3, <2>4
<1> QED BY <1>3, <1>4, <1>5
-----------------------------------------------------------------------------
(* The Go compiler.                                                        *)

\* What is refused leaves the scopes as they are.
LEMMA RefuseKeeps ==
    ASSUME NEW k \in Nat, NEW g \in Compilers(k), NEW ns \in SUBSET Idents,
           NEW what \in {"redeclared", "undefined", "constant", "unused"}
    PROVE  Refuse(g, what, ns) \in Compilers(k) /\ Refuse(g, what, ns).scopes = g.scopes
<1>1. g \in [scopes : Seq(ScopesOf(GoEntries)), refused : SUBSET Refusals] /\ Len(g.scopes) = k
  BY DEF Compilers
<1>2. \A n \in ns : [kind |-> what, name |-> n] \in Refusals
  BY DEF Refusals
<1> DEFINE more == {[kind |-> what, name |-> n] : n \in ns}
<1>3. more \subseteq Refusals
  BY <1>2
<1>4. Refuse(g, what, ns) = [g EXCEPT !.refused = @ \cup more]
  BY DEF Refuse
<1> HIDE DEF more
<1> QED BY <1>1, <1>3, <1>4 DEF Compilers

\* Other scopes, of any number.
LEMMA NewScopes ==
    ASSUME NEW k \in Nat, NEW g \in Compilers(k), NEW s \in Seq(ScopesOf(GoEntries))
    PROVE  [g EXCEPT !.scopes = s] \in Compilers(Len(s))
  BY DEF Compilers

\* A name is declared, used or assigned: the stack stays as high as it is.
LEMMA GoKeeps ==
    ASSUME NEW k \in Nat \ {0}, NEW g \in Compilers(k), NEW n \in Idents
    PROVE  /\ \A e \in GoEntries : GoDeclare(g, n, e) \in Compilers(k)
           /\ GoUse(g, n) \in Compilers(k) /\ GoAssign(g, n) \in Compilers(k)
<1>1. /\ g.scopes \in Seq(ScopesOf(GoEntries)) /\ Len(g.scopes) = k /\ k \in Nat
      /\ {n} \in SUBSET Idents
  BY DEF Compilers
<1>2. ASSUME NEW s \in Seq(ScopesOf(GoEntries)), Len(s) = k
      PROVE  [g EXCEPT !.scopes = s] \in Compilers(k)
  BY <1>1, <1>2, NewScopes
<1>3. \A what \in {"redeclared", "undefined", "constant", "unused"} :
        Refuse(g, what, {n}) \in Compilers(k)
  BY <1>1, RefuseKeeps
<1>4. ASSUME NEW e \in GoEntries PROVE GoDeclare(g, n, e) \in Compilers(k)
  <2> DEFINE f == With(g.scopes[k], n, e)
             s == [g.scopes EXCEPT ![k] = f]
  <2>1. f \in ScopesOf(GoEntries)
    BY <1>1, BoundScope
  <2>2. GoBind(g, n, e) = [g EXCEPT !.scopes = s]
    BY <1>1 DEF GoBind
  <2> HIDE DEF f
  <2>3. s \in Seq(ScopesOf(GoEntries)) /\ Len(s) = k
    BY <1>1, <2>1, OneChanges
  <2> HIDE DEF s
  <2>4. GoBind(g, n, e) \in Compilers(k)
    BY <1>2, <2>2, <2>3
  <2> QED BY <1>3, <2>4 DEF GoDeclare
<1> DEFINE at == Home(g.scopes, n)
           used == [g.scopes EXCEPT ![at][n].used = TRUE]
           assigned == [g.scopes EXCEPT ![at][n].assigned = TRUE]
<1>5. /\ GoUse(g, n) \in {g, Refuse(g, "undefined", {n}), [g EXCEPT !.scopes = used]}
      /\ GoAssign(g, n) \in {g, Refuse(g, "undefined", {n}), Refuse(g, "constant", {n}),
                             [g EXCEPT !.scopes = assigned]}
  BY DEF GoUse, GoAssign
<1> HIDE DEF at
<1>6. CASE at \in 1..k
  <2> DEFINE old == g.scopes[at]
             u == [old EXCEPT ![n].used = TRUE]
             a == [old EXCEPT ![n].assigned = TRUE]
  <2>1. old \in ScopesOf(GoEntries)
    BY <1>1, <1>6
  <2>2. u \in ScopesOf(GoEntries) /\ a \in ScopesOf(GoEntries)
    <3> HIDE DEF old
    <3> QED BY <2>1, MarkedScope
  <2>3. used = [g.scopes EXCEPT ![at] = u] /\ assigned = [g.scopes EXCEPT ![at] = a]
    OBVIOUS
  <2> HIDE DEF u, a
  <2>4. /\ [g.scopes EXCEPT ![at] = u] \in Seq(ScopesOf(GoEntries))
        /\ Len([g.scopes EXCEPT ![at] = u]) = k
    BY <1>1, <2>2, OneChanges
  <2>5. /\ [g.scopes EXCEPT ![at] = a] \in Seq(ScopesOf(GoEntries))
        /\ Len([g.scopes EXCEPT ![at] = a]) = k
    BY <1>1, <2>2, OneChanges
  <2> HIDE DEF used, assigned
  <2>6. [g EXCEPT !.scopes = used] \in Compilers(k) /\ [g EXCEPT !.scopes = assigned] \in Compilers(k)
    BY <1>2, <2>3, <2>4, <2>5
  <2> QED BY <1>3, <1>4, <1>5, <2>6
<1>7. CASE at \notin 1..k
  <2>1. used = g.scopes /\ assigned = g.scopes
    BY <1>1, <1>7
  <2> HIDE DEF used, assigned
  <2>2. [g EXCEPT !.scopes = used] \in Compilers(k) /\ [g EXCEPT !.scopes = assigned] \in Compilers(k)
    BY <1>1, <1>2, <2>1
  <2> QED BY <1>3, <1>4, <1>5, <2>2
<1> QED BY <1>6, <1>7

\* A scope is opened or closed.
LEMMA GoMoves ==
    ASSUME NEW k \in Nat, NEW g \in Compilers(k)
    PROVE  /\ GoOpen(g) \in Compilers(k + 1)
           /\ k > 0 => GoClose(g) \in Compilers(k - 1)
<1>1. g.scopes \in Seq(ScopesOf(GoEntries)) /\ Len(g.scopes) = k
  BY DEF Compilers
<1>2. GoOpen(g) \in Compilers(k + 1)
  <2> DEFINE s == Append(g.scopes, <<>>)
  <2>1. s \in Seq(ScopesOf(GoEntries)) /\ Len(s) = k + 1
    BY <1>1, NewScope
  <2>2. GoOpen(g) = [g EXCEPT !.scopes = s]
    BY DEF GoOpen
  <2> HIDE DEF s
  <2> QED BY <2>1, <2>2, NewScopes
<1>3. ASSUME k > 0 PROVE GoClose(g) \in Compilers(k - 1)
  <2> DEFINE scope == Last(g.scopes)
             unused == {n \in DOMAIN scope : scope[n].kind = "var" /\ ~ scope[n].used}
             h == Refuse(g, "unused", unused)
             s == But(h.scopes, 1)
  <2>1. scope \in ScopesOf(GoEntries)
    BY <1>1, <1>3 DEF Last
  <2>2. unused \in SUBSET Idents
    BY <2>1 DEF ScopesOf
  <2>3. GoClose(g) = [h EXCEPT !.scopes = s]
    BY DEF GoClose
  <2> HIDE DEF unused
  <2>4. h \in Compilers(k) /\ h.scopes = g.scopes
    BY <2>2, RefuseKeeps
  <2> HIDE DEF h
  <2>5. s \in Seq(ScopesOf(GoEntries)) /\ Len(s) = k - 1
    <3>1. 1 \in 0..Len(g.scopes)
      BY <1>1, <1>3
    <3> QED BY <1>1, <2>4, <3>1, SomeDropped
  <2> HIDE DEF s
  <2> QED BY <2>3, <2>4, <2>5, NewScopes
<1> QED BY <1>2, <1>3
-----------------------------------------------------------------------------
(* Lists of names.                                                         *)

VarTurn(c, inf, n) == InsertVar(inf, n)
ConstTurn(c, inf, n) == InsertConst(inf, n)
UntilTurn(c, inf, n) == IF inf.errors # c THEN inf ELSE InsertVar(inf, n)
UpdateTurn(c, inf, n) == UpdateVar(inf, n)
ResultTurn(c, inf, n) == MarkVarUsed(InsertVar(inf, n), n)
IdentTurn(c, inf, n) == InferIdent(inf, n)
StepTurn(c, inf, n) == Step(inf, n)

VarLoop == INSTANCE Iteration WITH Turn <- VarTurn
ConstLoop == INSTANCE Iteration WITH Turn <- ConstTurn
UntilLoop == INSTANCE Iteration WITH Turn <- UntilTurn
UpdateLoop == INSTANCE Iteration WITH Turn <- UpdateTurn
ResultLoop == INSTANCE Iteration WITH Turn <- ResultTurn
IdentLoop == INSTANCE Iteration WITH Turn <- IdentTurn
StepLoop == INSTANCE Iteration WITH Turn <- StepTurn

\* What is in a list, once or twice, are names.
LEMMA ListNames ==
    ASSUME NEW list \in Seq(Idents)
    PROVE  InList(list) \in SUBSET Idents /\ Repeated(list) \in SUBSET Idents
<1>1. DOMAIN list = 1..Len(list) /\ \A i \in 1..Len(list) : list[i] \in Idents
  OBVIOUS
<1>2. \A x \in InList(list) : x \in Idents
  BY <1>1 DEF InList
<1>3. \A x \in Repeated(list) : x \in Idents
  BY <1>1 DEF Repeated
<1> QED BY <1>2, <1>3

\* Whatever the checker does with a list, its stack stays as high as it is.
LEMMA ListsKeep ==
    ASSUME NEW k \in Nat \ {0}, NEW inf \in Checkers(k), NEW list \in Seq(Idents)
    PROVE  /\ Each(InsertVar, inf, list) \in Checkers(k)
           /\ Each(InsertConst, inf, list) \in Checkers(k)
           /\ InsertUntilError(inf, list) \in Checkers(k)
           /\ InsertShortDeclVars(inf, list) \in Checkers(k)
           /\ InsertResults(inf, list) \in Checkers(k)
           /\ Each(InferIdent, inf, list) \in Checkers(k)
           /\ Each(Step, inf, list) \in Checkers(k)
<1>1. Each(InsertVar, inf, list) \in Checkers(k)
  <2>1. \A i \in Checkers(k) : \A n \in Idents : VarTurn(0, i, n) \in Checkers(k)
    BY NamesKeep DEF VarTurn
  <2>2. Each(InsertVar, inf, list) = VarLoop!Loop(0, inf, list)
    BY DEF VarLoop!Loop, Each, VarLoop!Each, VarTurn
  <2>3. VarLoop!Loop(0, inf, list) \in Checkers(k)
    BY <2>1, VarLoop!LoopStays
  <2> QED BY <2>2, <2>3
<1>2. Each(InsertConst, inf, list) \in Checkers(k)
  <2>1. \A i \in Checkers(k) : \A n \in Idents : ConstTurn(0, i, n) \in Checkers(k)
    BY NamesKeep DEF ConstTurn
  <2>2. Each(InsertConst, inf, list) = ConstLoop!Loop(0, inf, list)
    BY DEF ConstLoop!Loop, Each, ConstLoop!Each, ConstTurn
  <2>3. ConstLoop!Loop(0, inf, list) \in Checkers(k)
    BY <2>1, ConstLoop!LoopStays
  <2> QED BY <2>2, <2>3
<1>3. InsertUntilError(inf, list) \in Checkers(k)
  <2>1. \A i \in Checkers(k) : \A n \in Idents : UntilTurn(inf.errors, i, n) \in Checkers(k)
    BY NamesKeep DEF UntilTurn
  <2>2. InsertUntilError(inf, list) = UntilLoop!Loop(inf.errors, inf, list)
    BY DEF InsertUntilError, UntilLoop!Loop, Each, UntilLoop!Each, UntilTurn
  <2>3. UntilLoop!Loop(inf.errors, inf, list) \in Checkers(k)
    BY <2>1, UntilLoop!LoopStays
  <2> QED BY <2>2, <2>3
<1>4. InsertShortDeclVars(inf, list) \in Checkers(k)
  <2>1. \A i \in Checkers(k) : \A n \in Idents : UpdateTurn(0, i, n) \in Checkers(k)
    BY NamesKeep DEF UpdateTurn
  <2>2. Each(UpdateVar, inf, list) = UpdateLoop!Loop(0, inf, list)
    BY DEF UpdateLoop!Loop, Each, UpdateLoop!Each, UpdateTurn
  <2>3. UpdateLoop!Loop(0, inf, list) \in Checkers(k)
    BY <2>1, UpdateLoop!LoopStays
  <2> DEFINE real == InList(list) \ {"_"}
  <2>4. real \in SUBSET Idents /\ k \in Nat
    BY ListNames
  <2>5. InsertShortDeclVars(inf, list) \in {EmitError(inf, "Redeclared", real), Each(UpdateVar, inf, list)}
    BY DEF InsertShortDeclVars
  <2> HIDE DEF real
  <2>6. EmitError(inf, "Redeclared", real) \in Checkers(k)
    BY <2>4, CheckerKeeps DEF ErrorKinds
  <2> QED BY <2>2, <2>3, <2>5, <2>6
<1>5. InsertResults(inf, list) \in Checkers(k)
  <2>1. \A i \in Checkers(k) : \A n \in Idents : ResultTurn(0, i, n) \in Checkers(k)
    BY NamesKeep, CheckerKeeps DEF ResultTurn
  <2>2. InsertResults(inf, list) = ResultLoop!Loop(0, inf, list)
    BY DEF InsertResults, ResultLoop!Loop, Each, ResultLoop!Each, ResultTurn
  <2>3. ResultLoop!Loop(0, inf, list) \in Checkers(k)
    BY <2>1, ResultLoop!LoopStays
  <2> QED BY <2>2, <2>3
<1>6. Each(InferIdent, inf, list) \in Checkers(k)
  <2>1. \A i \in Checkers(k) : \A n \in Idents : IdentTurn(0, i, n) \in Checkers(k)
    BY NamesKeep DEF IdentTurn
  <2>2. Each(InferIdent, inf, list) = IdentLoop!Loop(0, inf, list)
    BY DEF IdentLoop!Loop, Each, IdentLoop!Each, IdentTurn
  <2>3. IdentLoop!Loop(0, inf, list) \in Checkers(k)
    BY <2>1, IdentLoop!LoopStays
  <2> QED BY <2>2, <2>3
<1>7. Each(Step, inf, list) \in Checkers(k)
  <2>1. \A i \in Checkers(k) : \A n \in Idents : StepTurn(0, i, n) \in Checkers(k)
    BY NamesKeep DEF StepTurn, Step
  <2>2. Each(Step, inf, list) = StepLoop!Loop(0, inf, list)
    BY DEF StepLoop!Loop, Each, StepLoop!Each, StepTurn
  <2>3. StepLoop!Loop(0, inf, list) \in Checkers(k)
    BY <2>1, StepLoop!LoopStays
  <2> QED BY <2>2, <2>3
<1> QED BY <1>1, <1>2, <1>3, <1>4, <1>5, <1>6, <1>7

AssignTurn(c, g, n) == GoAssign(g, n)
GoStepTurn(c, g, n) == GoStep(g, n)
DeclareTurn(c, g, n) == GoDeclare(g, n, c)
MixTurn(c, g, n) == IF n \in c[1] THEN GoAssign(g, n) ELSE GoDeclare(g, n, c[2])
BindingTurn(c, g, n) == GoUse(GoShort(g, <<n>>, Var), n)

AssignLoop == INSTANCE Iteration WITH Turn <- AssignTurn
GoStepLoop == INSTANCE Iteration WITH Turn <- GoStepTurn
DeclareLoop == INSTANCE Iteration WITH Turn <- DeclareTurn
MixLoop == INSTANCE Iteration WITH Turn <- MixTurn
BindingLoop == INSTANCE Iteration WITH Turn <- BindingTurn

\* A short declaration, of however many names, some of them new.
LEMMA GoMixKeeps ==
    ASSUME NEW k \in Nat \ {0}, NEW g \in Compilers(k), NEW list \in Seq(Idents), NEW e \in GoEntries
    PROVE  GoMix(g, list, e) \in Compilers(k) /\ GoShort(g, list, e) \in Compilers(k)
<1> DEFINE c == <<DOMAIN Last(g.scopes), e>>
           h == MixLoop!Loop(c, g, list)
<1>1. \A i \in Compilers(k) : \A n \in Idents : MixTurn(c, i, n) \in Compilers(k)
  BY GoKeeps DEF MixTurn
<1>2. GoMix(g, list, e) = Refuse(h, "redeclared", Repeated(list))
  BY DEF GoMix, MixLoop!Loop, Each, MixLoop!Each, MixTurn
<1>3. Repeated(list) \in SUBSET Idents /\ InList(list) \in SUBSET Idents /\ k \in Nat
  BY ListNames
<1> HIDE DEF c
<1>4. h \in Compilers(k)
  BY <1>1, MixLoop!LoopStays
<1> HIDE DEF h
<1>5. GoMix(g, list, e) \in Compilers(k)
  BY <1>2, <1>3, <1>4, RefuseKeeps
<1>6. Refuse(g, "redeclared", InList(list)) \in Compilers(k)
  BY <1>3, RefuseKeeps
<1> QED BY <1>5, <1>6 DEF GoShort

\* Whatever Go makes of a list, its stack stays as high as it is.
LEMMA GoListsKeep ==
    ASSUME NEW k \in Nat \ {0}, NEW g \in Compilers(k), NEW list \in Seq(Idents)
    PROVE  /\ Each(GoAssign, g, list) \in Compilers(k)
           /\ Each(GoStep, g, list) \in Compilers(k)
           /\ \A e \in GoEntries : GoDeclareAll(g, list, e) \in Compilers(k)
           /\ GoBindings(g, list) \in Compilers(k)
<1>1. Each(GoAssign, g, list) \in Compilers(k)
  <2>1. \A i \in Compilers(k) : \A n \in Idents : AssignTurn(0, i, n) \in Compilers(k)
    BY GoKeeps DEF AssignTurn
  <2>2. Each(GoAssign, g, list) = AssignLoop!Loop(0, g, list)
    BY DEF AssignLoop!Loop, Each, AssignLoop!Each, AssignTurn
  <2>3. AssignLoop!Loop(0, g, list) \in Compilers(k)
    BY <2>1, AssignLoop!LoopStays
  <2> QED BY <2>2, <2>3
<1>2. Each(GoStep, g, list) \in Compilers(k)
  <2>1. \A i \in Compilers(k) : \A n \in Idents : GoStepTurn(0, i, n) \in Compilers(k)
    BY GoKeeps DEF GoStepTurn, GoStep
  <2>2. Each(GoStep, g, list) = GoStepLoop!Loop(0, g, list)
    BY DEF GoStepLoop!Loop, Each, GoStepLoop!Each, GoStepTurn
  <2>3. GoStepLoop!Loop(0, g, list) \in Compilers(k)
    BY <2>1, GoStepLoop!LoopStays
  <2> QED BY <2>2, <2>3
<1>3. ASSUME NEW e \in GoEntries PROVE GoDeclareAll(g, list, e) \in Compilers(k)
  <2>1. \A i \in Compilers(k) : \A n \in Idents : DeclareTurn(e, i, n) \in Compilers(k)
    BY GoKeeps DEF DeclareTurn
  <2>2. GoDeclareAll(g, list, e) = DeclareLoop!Loop(e, g, list)
    BY DEF GoDeclareAll, DeclareLoop!Loop, Each, DeclareLoop!Each, DeclareTurn
  <2>3. DeclareLoop!Loop(e, g, list) \in Compilers(k)
    BY <2>1, DeclareLoop!LoopStays
  <2> QED BY <2>2, <2>3
<1>4. GoBindings(g, list) \in Compilers(k)
  <2>1. Var \in GoEntries
    BY DEF Var, GoEntry, GoEntries
  <2>2. ASSUME NEW i \in Compilers(k), NEW n \in Idents PROVE BindingTurn(0, i, n) \in Compilers(k)
    <3>1. <<n>> \in Seq(Idents)
      OBVIOUS
    <3>2. GoShort(i, <<n>>, Var) \in Compilers(k)
      BY <2>1, <3>1, GoMixKeeps
    <3> QED BY <3>2, GoKeeps DEF BindingTurn
  <2>3. GoBindings(g, list) = BindingLoop!Loop(0, g, list)
    BY DEF GoBindings, BindingLoop!Loop, Each, BindingLoop!Each, BindingTurn
  <2>4. BindingLoop!Loop(0, g, list) \in Compilers(k)
    BY <2>2, BindingLoop!LoopStays
  <2> QED BY <2>3, <2>4
<1> QED BY <1>1, <1>2, <1>3, <1>4
-----------------------------------------------------------------------------
(* What the actions are made of keeps the invariant.                       *)

\* The lists that are declared are lists of names.
LEMMA ListTypes ==
    /\ Lists \subseteq Seq(Idents) /\ Named \subseteq Lists
    /\ Maybe \subseteq Seq(Idents) /\ Targets \subseteq Lists
<1>1. <<>> \in Seq(Idents)
  OBVIOUS
<1> QED BY <1>1, ListsAssumption DEF Named, Maybe, Targets

\* Inside a function there is a scope to declare in.
LEMMA Depths ==
    ASSUME ScopesInv
    PROVE  /\ InferDepth \in Nat \ {0} /\ GoDepth \in Nat
           /\ Len(blocks) \in Nat /\ left \in Nat
           /\ blocks # <<>> =>
                LET top == blocks[Len(blocks)]
                IN  /\ Len(blocks) > 0 /\ top \in BlockTypes /\ Last(blocks) = top
                    /\ InferDepth = top.inferred + Inferred(top.kind)
                    /\ GoDepth = top.generated + Generated(top.kind)
                    /\ top.inferred \in Nat /\ top.inferred > left /\ top.generated \in Nat
                    /\ GoDepth > 0
<1>1. Len(blocks) \in Nat /\ left \in Nat /\ blocks \in Seq(BlockTypes)
  BY DEF ScopesInv, BlocksNest
<1>2. CASE blocks = <<>>
  BY <1>1, <1>2 DEF InferDepth, GoDepth
<1>3. CASE blocks # <<>>
  <2> DEFINE top == blocks[Len(blocks)]
  <2>1. Len(blocks) > 0 /\ top \in BlockTypes /\ Last(blocks) = top
    BY <1>1, <1>3 DEF Last
  <2>2. top.inferred \in Nat /\ top.generated \in Nat
    BY <2>1 DEF BlockTypes
  <2>3. top.inferred > left
    BY <1>1, <2>1 DEF ScopesInv, BlocksNest
  <2>4. /\ InferDepth = top.inferred + Inferred(top.kind)
        /\ GoDepth = top.generated + Generated(top.kind)
    BY <1>3, <2>1 DEF InferDepth, GoDepth
  <2>5. Inferred(top.kind) \in {1, 2} /\ Generated(top.kind) \in {1, 2}
    BY DEF Inferred, Generated
  <2> HIDE DEF top
  <2>6. InferDepth \in Nat \ {0} /\ GoDepth \in Nat /\ GoDepth > 0
    BY <2>2, <2>4, <2>5
  <2> QED BY <1>1, <1>3, <2>1, <2>2, <2>3, <2>4, <2>6 DEF top
<1> QED BY <1>2, <1>3

\* The lint's innermost scope takes a list in.
LEMMA LintKeeps ==
    ASSUME NEW s \in Seq(SUBSET Idents), NEW list \in Seq(Idents)
    PROVE  InsertLint(s, list) \in Seq(SUBSET Idents) /\ Len(InsertLint(s, list)) = Len(s)
<1>1. Listed(list) \in SUBSET Idents
  BY ListNames DEF Listed
<1>2. CASE Len(s) = 0
  <2>1. InsertLint(s, list) = s
    BY <1>2 DEF InsertLint
  <2> QED BY <2>1
<1>3. CASE Len(s) # 0
  <2> DEFINE x == s[Len(s)] \cup Listed(list)
  <2>1. x \in SUBSET Idents
    BY <1>1, <1>3
  <2>2. InsertLint(s, list) = [s EXCEPT ![Len(s)] = x]
    BY DEF InsertLint
  <2> HIDE DEF x
  <2> QED BY <2>1, <2>2, OneChanges
<1> QED BY <1>2, <1>3

\* A statement keeps the depths.
LEMMA StmtKeeps ==
    ASSUME ScopesInv, NEW declared \in Seq(Idents), NEW errs, NEW used,
           NEW inf \in Checkers(InferDepth), NEW g \in Compilers(GoDepth),
           Stmt(declared, errs, used, inf, g)
    PROVE  ScopesInv'
<1>1. blocks' = blocks /\ left' = left /\ infer' = inf /\ go' = g /\ lint' = InsertLint(lint, declared)
  BY DEF Stmt
<1>2. InferDepth' = InferDepth /\ GoDepth' = GoDepth /\ BlocksNest'
  BY <1>1 DEF ScopesInv, BlocksNest, InferDepth, GoDepth
<1>3. lint' \in Seq(SUBSET Idents) /\ Len(lint') = Len(lint)
  <2>1. lint \in Seq(SUBSET Idents)
    BY DEF ScopesInv
  <2> QED BY <1>1, <2>1, LintKeeps
<1> QED BY <1>1, <1>2, <1>3 DEF ScopesInv

\* A block more.
LEMMA PushBlock ==
    ASSUME ScopesInv, blocks # <<>>, NEW kind \in Kinds \ {"func"}, NEW unlisted \in SUBSET Idents,
           blocks' = Append(blocks, Opened(kind, unlisted)), left' = left
    PROVE  /\ BlocksNest' /\ left' \in Nat
           /\ InferDepth' = InferDepth + Inferred(kind) /\ GoDepth' = GoDepth + Generated(kind)
<1> DEFINE b == Opened(kind, unlisted)
<1>1. /\ b.kind = kind /\ b.inferred = InferDepth /\ b.generated = GoDepth
      /\ b \in BlockTypes
  <2>1. Len(infer.scopes) = InferDepth /\ Len(go.scopes) = GoDepth
    BY DEF ScopesInv, Checkers, Compilers
  <2> QED BY <2>1, Depths DEF Opened, BlockTypes
<1>2. blocks' = Append(blocks, b)
  OBVIOUS
<1> HIDE DEF b
<1>3. blocks \in Seq(BlockTypes) /\ Len(blocks) \in Nat /\ Len(blocks) > 0
  BY Depths DEF ScopesInv, BlocksNest
<1>4. /\ blocks' \in Seq(BlockTypes) /\ Len(blocks') = Len(blocks) + 1
      /\ blocks'[Len(blocks) + 1] = b /\ \A i \in 1..Len(blocks) : blocks'[i] = blocks[i]
  BY <1>1, <1>2, <1>3
<1>5. /\ InferDepth = blocks[Len(blocks)].inferred + Inferred(blocks[Len(blocks)].kind)
      /\ GoDepth = blocks[Len(blocks)].generated + Generated(blocks[Len(blocks)].kind)
      /\ InferDepth > left
  <2>1. Inferred(blocks[Len(blocks)].kind) \in {1, 2}
    BY DEF Inferred
  <2> QED BY <2>1, Depths
<1>6. ASSUME NEW i \in 1..Len(blocks')
      PROVE  IF i = 1
             THEN blocks'[1].kind = "func" /\ blocks'[1].inferred = 1 + left /\ blocks'[1].generated = 0
             ELSE /\ blocks'[i].kind # "func" /\ blocks'[i].inferred > left
                  /\ blocks'[i].inferred = blocks'[i - 1].inferred + Inferred(blocks'[i - 1].kind)
                  /\ blocks'[i].generated = blocks'[i - 1].generated + Generated(blocks'[i - 1].kind)
  <2>1. CASE i = Len(blocks) + 1
    <3>1. i # 1 /\ i - 1 = Len(blocks) /\ Len(blocks) \in 1..Len(blocks)
      BY <1>3, <2>1
    <3>2. blocks'[i] = b /\ blocks'[i - 1] = blocks[Len(blocks)]
      BY <1>4, <2>1, <3>1
    <3> QED BY <1>1, <1>5, <3>1, <3>2
  <2>2. CASE i \in 1..Len(blocks)
    <3>1. blocks'[i] = blocks[i] /\ blocks'[1] = blocks[1] /\ (i # 1 => blocks'[i - 1] = blocks[i - 1])
      BY <1>3, <1>4, <2>2
    <3> QED BY <2>2, <3>1 DEF ScopesInv, BlocksNest
  <2> QED BY <1>3, <1>4, <2>1, <2>2
<1>7. BlocksNest'
  BY <1>4, <1>6 DEF BlocksNest
<1>8. Last(blocks') = b /\ blocks' # <<>>
  BY <1>3, <1>4 DEF Last
<1>9. /\ InferDepth' = b.inferred + Inferred(b.kind) /\ GoDepth' = b.generated + Generated(b.kind)
  BY <1>8 DEF InferDepth, GoDepth
<1> QED BY <1>1, <1>7, <1>9 DEF ScopesInv

\* A block begins, behind a header of names.
LEMMA EnterKeeps ==
    ASSUME ScopesInv, blocks # <<>>,
           NEW kind \in Kinds \ {"func", "block"}, NEW unlisted \in SUBSET Idents,
           NEW inf \in Checkers(InferDepth + 1), NEW header \in Seq(Idents), NEW errs,
           NEW g \in Compilers(GoDepth + Generated(kind)),
           Enter(kind, unlisted, inf, lint, errs, header, g)
    PROVE  ScopesInv'
<1>1. blocks' = Append(blocks, Opened(kind, unlisted)) /\ left' = left /\ infer' = PushScope(inf) /\ go' = g
  BY DEF Enter
<1>2. /\ BlocksNest' /\ left' \in Nat /\ InferDepth' = InferDepth + Inferred(kind)
      /\ GoDepth' = GoDepth + Generated(kind)
  BY <1>1, PushBlock
<1>3. Inferred(kind) = 2 /\ InferDepth \in Nat /\ GoDepth \in Nat /\ left \in Nat
  BY Depths DEF Inferred
<1>4. infer' \in Checkers(InferDepth')
  <2>1. PushScope(inf) \in Checkers(InferDepth + 1 + 1)
    BY <1>3, CheckerMoves
  <2>2. InferDepth + 1 + 1 = InferDepth'
    BY <1>2, <1>3
  <2> QED BY <1>1, <2>1, <2>2
<1>5. lint' \in Seq(SUBSET Idents) /\ Len(lint') = Len(lint) + 2
  <2>1. <<Listed(header), {}>> \in Seq(SUBSET Idents) /\ Len(<<Listed(header), {}>>) = 2
    <3>1. Listed(header) \in SUBSET Idents
      BY ListNames DEF Listed
    <3> QED BY <3>1
  <2>2. lint' = lint \o <<Listed(header), {}>>
    BY DEF Enter
  <2> DEFINE more == <<Listed(header), {}>>
  <2> HIDE DEF more
  <2>3. lint \in Seq(SUBSET Idents)
    BY DEF ScopesInv
  <2> QED BY <2>1, <2>2, <2>3 DEF more
<1>6. Len(lint') = InferDepth' - 1 - left'
  <2>1. Len(lint) = InferDepth - 1 - left
    BY DEF ScopesInv
  <2> QED BY <1>1, <1>2, <1>3, <1>5, <2>1
<1> QED BY <1>1, <1>2, <1>4, <1>5, <1>6 DEF ScopesInv

\* A block less.
LEMMA PopBlock ==
    ASSUME ScopesInv, blocks # <<>>, blocks' = But(blocks, 1), left' = left
    PROVE  /\ BlocksNest' /\ left' \in Nat
           /\ InferDepth' = Last(blocks).inferred /\ GoDepth' = Last(blocks).generated
<1>1. /\ blocks \in Seq(BlockTypes) /\ Len(blocks) \in Nat /\ Len(blocks) > 0
      /\ Last(blocks) = blocks[Len(blocks)]
  BY Depths DEF ScopesInv, BlocksNest
<1>2. /\ blocks' \in Seq(BlockTypes) /\ Len(blocks') = Len(blocks) - 1
      /\ \A i \in 1..(Len(blocks) - 1) : blocks'[i] = blocks[i]
  <2>1. 1 \in 0..Len(blocks)
    BY <1>1
  <2>2. But(blocks, 1) \in Seq(BlockTypes) /\ Len(But(blocks, 1)) = Len(blocks) - 1
    BY <1>1, <2>1, SomeDropped
  <2>3. \A i \in 1..(Len(blocks) - 1) : But(blocks, 1)[i] = blocks[i]
    BY <1>1 DEF But
  <2> QED BY <2>2, <2>3
<1>3. \A b \in 1..Len(blocks) :
        IF b = 1
        THEN blocks[1].kind = "func" /\ blocks[1].inferred = 1 + left /\ blocks[1].generated = 0
        ELSE /\ blocks[b].kind # "func" /\ blocks[b].inferred > left
             /\ blocks[b].inferred = blocks[b - 1].inferred + Inferred(blocks[b - 1].kind)
             /\ blocks[b].generated = blocks[b - 1].generated + Generated(blocks[b - 1].kind)
  BY DEF ScopesInv, BlocksNest
<1>4. BlocksNest'
  <2> SUFFICES ASSUME NEW i \in 1..Len(blocks')
               PROVE  IF i = 1
                      THEN /\ blocks'[1].kind = "func" /\ blocks'[1].inferred = 1 + left
                           /\ blocks'[1].generated = 0
                      ELSE /\ blocks'[i].kind # "func" /\ blocks'[i].inferred > left
                           /\ blocks'[i].inferred = blocks'[i - 1].inferred + Inferred(blocks'[i - 1].kind)
                           /\ blocks'[i].generated = blocks'[i - 1].generated + Generated(blocks'[i - 1].kind)
    BY <1>2 DEF BlocksNest
  <2>1. blocks'[i] = blocks[i] /\ blocks'[1] = blocks[1] /\ (i # 1 => blocks'[i - 1] = blocks[i - 1])
    BY <1>1, <1>2
  <2>2. i \in 1..Len(blocks)
    BY <1>1, <1>2
  <2> QED BY <1>3, <2>1, <2>2
<1>5. CASE Len(blocks) = 1
  <2>1. blocks' = <<>>
    BY <1>2, <1>5
  <2>2. Last(blocks).inferred = 1 + left /\ Last(blocks).generated = 0
    BY <1>1, <1>3, <1>5
  <2> QED BY <1>4, <2>1, <2>2 DEF InferDepth, GoDepth, ScopesInv
<1>6. CASE Len(blocks) # 1
  <2>1. /\ blocks' # <<>> /\ Len(blocks') \in 1..(Len(blocks) - 1)
        /\ Len(blocks) \in 1..Len(blocks) /\ Len(blocks) # 1
    BY <1>1, <1>2, <1>6
  <2>2. Last(blocks') = blocks[Len(blocks) - 1]
    BY <1>1, <1>2, <1>6 DEF Last
  <2>3. /\ Last(blocks).inferred = blocks[Len(blocks) - 1].inferred + Inferred(blocks[Len(blocks) - 1].kind)
        /\ Last(blocks).generated = blocks[Len(blocks) - 1].generated + Generated(blocks[Len(blocks) - 1].kind)
    BY <1>1, <1>3, <2>1
  <2> QED BY <1>4, <2>1, <2>2, <2>3 DEF InferDepth, GoDepth, ScopesInv
<1> QED BY <1>5, <1>6

\* A block ends: everything is as high as before it.
LEMMA LeaveKeeps ==
    ASSUME ScopesInv, NEW kinds, NEW inf \in Checkers(Last(blocks).inferred),
           NEW g \in Compilers(Last(blocks).generated),
           Leave(kinds, inf, Inferred(Last(blocks).kind), g)
    PROVE  ScopesInv'
<1> DEFINE d == Inferred(Last(blocks).kind)
           n == Last(blocks).inferred
<1>1. /\ blocks # <<>> /\ blocks' = But(blocks, 1) /\ left' = left
      /\ infer' = inf /\ go' = g /\ lint' = But(lint, d)
  BY DEF Leave, Inside, InFunction
<1>2. /\ BlocksNest' /\ left' \in Nat
      /\ InferDepth' = n /\ GoDepth' = Last(blocks).generated
  BY <1>1, PopBlock
<1>3. d \in {1, 2}
  BY DEF Inferred
<1>4. InferDepth = n + d /\ n \in Nat /\ n > left /\ left \in Nat
  BY <1>1, Depths
<1>5. lint \in Seq(SUBSET Idents) /\ Len(lint) = InferDepth - 1 - left
  BY DEF ScopesInv
<1>6. lint' \in Seq(SUBSET Idents) /\ Len(lint') = n - 1 - left
  <2> HIDE DEF d, n
  <2>1. Len(lint) = n + d - 1 - left /\ Len(lint) - d = n - 1 - left
    BY <1>3, <1>4, <1>5
  <2>2. d \in 0..Len(lint)
    BY <1>3, <1>4, <2>1
  <2>3. But(lint, d) \in Seq(SUBSET Idents) /\ Len(But(lint, d)) = Len(lint) - d
    BY <1>5, <2>2, SomeDropped
  <2>4. lint' = But(lint, d)
    BY <1>1
  <2> QED BY <2>1, <2>3, <2>4
<1> QED BY <1>1, <1>2, <1>6 DEF ScopesInv
-----------------------------------------------------------------------------
(* The actions.                                                            *)

\* The checker, and Go, are there to be read with.
LEMMA Readers ==
    ASSUME ScopesInv
    PROVE  /\ infer \in Checkers(InferDepth) /\ go \in Compilers(GoDepth)
           /\ Var \in GoEntries /\ Parameter \in GoEntries /\ GoEntry("const") \in GoEntries
           /\ [Var EXCEPT !.fixed = TRUE] \in GoEntries
<1>1. infer \in Checkers(InferDepth) /\ go \in Compilers(GoDepth)
  BY DEF ScopesInv
<1>2. /\ Var \in GoEntries /\ Parameter \in GoEntries /\ GoEntry("const") \in GoEntries
      /\ [Var EXCEPT !.fixed = TRUE] \in GoEntries
  BY DEF Var, Parameter, GoEntry, GoEntries
<1> QED BY <1>1, <1>2

\* The file starts in the package's scope.
LEMMA ScopesBegin ==
    ASSUME ScopesInit
    PROVE  ScopesInv
<1>1. left = 0 /\ blocks = <<>> /\ lint = <<>>
  BY DEF ScopesInit
<1>2. BlocksNest
  BY <1>1 DEF BlocksNest
<1>3. InferDepth = 1 /\ GoDepth = 0
  BY <1>1 DEF InferDepth, GoDepth
<1>4. infer \in Checkers(1)
  <2>1. PICK files \in ImportedNames : infer = [imported |-> files, scopes |-> <<<<>>>>, errors |-> <<>>]
    BY DEF ScopesInit
  <2>2. <<<<>>>> \in Seq(ScopesOf(Entries)) /\ Len(<<<<>>>>) = 1
    BY NewScope
  <2>3. <<>> \in Seq(Errors)
    OBVIOUS
  <2> QED BY <2>1, <2>2, <2>3 DEF Checkers
<1>5. go \in Compilers(0)
  <2>1. go = [scopes |-> <<>>, refused |-> {}]
    BY DEF ScopesInit
  <2>2. <<>> \in Seq(ScopesOf(GoEntries)) /\ Len(<<>>) = 0
    OBVIOUS
  <2> QED BY <2>1, <2>2 DEF Compilers
<1>6. lint \in Seq(SUBSET Idents) /\ Len(lint) = 0
  BY <1>1
<1> QED BY <1>1, <1>2, <1>3, <1>4, <1>5, <1>6 DEF ScopesInv

\* A function's header: the scope it pushes is there, whether an error ends it or not.
LEMMA HeaderKeeps ==
    ASSUME ScopesInv, blocks = <<>>, NEW receiver \in Maybe, NEW params \in Maybe
    PROVE  /\ Header(receiver, params) \in Checkers(2 + left) /\ InferDepth = 1 + left
           /\ go \in Compilers(0) /\ left \in Nat
           /\ receiver \in Seq(Idents) /\ params \in Seq(Idents) /\ receiver \o params \in Seq(Idents)
           /\ GoDeclareAll(GoOpen(go), receiver \o params, Parameter) \in Compilers(1)
<1>1. InferDepth = 1 + left /\ GoDepth = 0 /\ left \in Nat
  BY DEF InferDepth, GoDepth, ScopesInv
<1>2. receiver \in Seq(Idents) /\ params \in Seq(Idents)
  BY ListTypes
<1>3. receiver \o params \in Seq(Idents)
  BY <1>2
<1>4. infer \in Checkers(1 + left) /\ go \in Compilers(0) /\ Parameter \in GoEntries
  BY <1>1, Readers
<1>5. PushScope(infer) \in Checkers(2 + left)
  <2>1. PushScope(infer) \in Checkers(1 + left + 1) /\ 1 + left + 1 = 2 + left
    BY <1>1, <1>4, CheckerMoves
  <2> QED BY <2>1
<1>6. Header(receiver, params) \in Checkers(2 + left)
  <2>1. 2 + left \in Nat \ {0}
    BY <1>1
  <2> QED BY <1>3, <1>5, <2>1, ListsKeep DEF Header
<1>7. GoOpen(go) \in Compilers(1)
  BY <1>4, GoMoves
<1>8. GoDeclareAll(GoOpen(go), receiver \o params, Parameter) \in Compilers(1)
  <2>1. 1 \in Nat \ {0}
    OBVIOUS
  <2>2. \A e \in GoEntries : GoDeclareAll(GoOpen(go), receiver \o params, e) \in Compilers(1)
    BY <1>3, <1>7, <2>1, GoListsKeep
  <2> QED BY <1>4, <2>2
<1> QED BY <1>1, <1>2, <1>3, <1>4, <1>6, <1>8

\* A function begins, in two scopes of the checker and one of Go.
LEMMA BeginFuncKeeps ==
    ASSUME ScopesInv, BeginFunc
    PROVE  ScopesInv'
<1>1. PICK receiver \in Maybe : \E params, results \in Maybe :
          /\ infer' = InsertResults(PushScope(Header(receiver, params)), results)
          /\ lint' = <<Listed(params), {}>>
          /\ go' = GoDeclareAll(GoOpen(go), receiver \o params \o results, Parameter)
          /\ blocks' = <<Opened("func", InList(receiver \o results))>>
  BY DEF BeginFunc
<1>2. PICK params \in Maybe, results \in Maybe :
          /\ infer' = InsertResults(PushScope(Header(receiver, params)), results)
          /\ lint' = <<Listed(params), {}>>
          /\ go' = GoDeclareAll(GoOpen(go), receiver \o params \o results, Parameter)
          /\ blocks' = <<Opened("func", InList(receiver \o results))>>
  BY <1>1
<1>3. blocks = <<>> /\ left' = left
  BY DEF BeginFunc
<1>4. /\ Header(receiver, params) \in Checkers(2 + left) /\ InferDepth = 1 + left
      /\ go \in Compilers(0) /\ left \in Nat
      /\ receiver \in Seq(Idents) /\ params \in Seq(Idents) /\ receiver \o params \in Seq(Idents)
  BY <1>3, HeaderKeeps
<1>5. /\ results \in Seq(Idents) /\ receiver \o results \in Seq(Idents)
      /\ receiver \o params \o results \in Seq(Idents)
  BY <1>4, ListTypes
<1>6. infer' \in Checkers(3 + left)
  <2>1. PushScope(Header(receiver, params)) \in Checkers(2 + left + 1) /\ 2 + left + 1 = 3 + left
    BY <1>4, CheckerMoves
  <2>2. 3 + left \in Nat \ {0}
    BY <1>4
  <2>3. PushScope(Header(receiver, params)) \in Checkers(3 + left)
    BY <2>1
  <2> QED BY <1>2, <1>5, <2>2, <2>3, ListsKeep
<1>7. go' \in Compilers(1)
  <2>1. GoOpen(go) \in Compilers(1) /\ Parameter \in GoEntries
    <3>1. GoOpen(go) \in Compilers(0 + 1) /\ 0 + 1 = 1
      BY <1>4, GoMoves
    <3>2. Parameter \in GoEntries
      BY Readers
    <3> QED BY <3>1, <3>2
  <2>2. 1 \in Nat \ {0}
    OBVIOUS
  <2>3. \A e \in GoEntries :
          GoDeclareAll(GoOpen(go), receiver \o params \o results, e) \in Compilers(1)
    BY <1>5, <2>1, <2>2, GoListsKeep
  <2> QED BY <1>2, <2>1, <2>3
<1> DEFINE b == Opened("func", InList(receiver \o results))
<1>8. b \in BlockTypes /\ b.kind = "func" /\ b.inferred = 1 + left /\ b.generated = 0
  <2>1. Len(infer.scopes) = 1 + left /\ Len(go.scopes) = 0
    BY <1>4 DEF ScopesInv, Checkers, Compilers
  <2>2. InList(receiver \o results) \in SUBSET Idents
    BY <1>5, ListNames
  <2> QED BY <1>4, <2>1, <2>2 DEF Opened, BlockTypes, Kinds
<1> HIDE DEF b
<1>9. blocks' = <<b>>
  BY <1>2 DEF b
<1>10. BlocksNest' /\ InferDepth' = 3 + left /\ GoDepth' = 1
  <2>1. blocks' \in Seq(BlockTypes) /\ Len(blocks') = 1 /\ blocks'[1] = b /\ blocks' # <<>>
    BY <1>8, <1>9
  <2>2. BlocksNest'
    BY <1>3, <1>8, <2>1 DEF BlocksNest
  <2>3. InferDepth' = 1 + left + 2 /\ GoDepth' = 0 + 1
    BY <1>8, <2>1 DEF InferDepth, GoDepth, Last, Inferred, Generated
  <2> QED BY <1>4, <2>2, <2>3
<1>11. lint' \in Seq(SUBSET Idents) /\ Len(lint') = 2
  <2>1. Listed(params) \in SUBSET Idents
    BY <1>4, ListNames DEF Listed
  <2> QED BY <1>2, <2>1
<1>12. Len(lint') = InferDepth' - 1 - left'
  BY <1>3, <1>4, <1>10, <1>11
<1> QED BY <1>3, <1>4, <1>6, <1>7, <1>10, <1>11, <1>12 DEF ScopesInv

\* A function is left early: the checker has one scope more.
LEMMA LeaveEarlyKeeps ==
    ASSUME ScopesInv, LeaveEarly
    PROVE  ScopesInv'
<1>1. PICK receiver \in Maybe, params \in Maybe :
          /\ infer' = Header(receiver, params)
          /\ go' = GoClose(GoDeclareAll(GoOpen(go), receiver \o params, Parameter))
  BY DEF LeaveEarly
<1>2. blocks = <<>> /\ blocks' = blocks /\ left' = left + 1 /\ lint' = lint
  BY DEF LeaveEarly
<1>3. /\ infer' \in Checkers(2 + left) /\ InferDepth = 1 + left /\ left \in Nat
      /\ GoDeclareAll(GoOpen(go), receiver \o params, Parameter) \in Compilers(1)
  BY <1>1, <1>2, HeaderKeeps
<1>4. go' \in Compilers(0)
  BY <1>1, <1>3, GoMoves
<1>5. BlocksNest' /\ InferDepth' = 2 + left /\ GoDepth' = 0
  BY <1>2, <1>3 DEF BlocksNest, InferDepth, GoDepth
<1>6. lint' \in Seq(SUBSET Idents) /\ Len(lint') = InferDepth' - 1 - left'
  BY <1>2, <1>3, <1>5 DEF ScopesInv
<1> QED BY <1>2, <1>3, <1>4, <1>5, <1>6 DEF ScopesInv
\* A statement declares, uses or assigns names.
LEMMA StatementsKeep ==
    ASSUME ScopesInv,
           Use \/ Decl \/ VarDecl \/ MultiDecl \/ ConstDecl \/ Assign \/ Reassign \/ IncDec \/ TryDecl
    PROVE  ScopesInv'
<1> DEFINE k == InferDepth
           m == GoDepth
<1>1. blocks # <<>>
  BY DEF Use, Decl, VarDecl, MultiDecl, ConstDecl, Assign, Reassign, IncDec, TryDecl, InFunction
<1>2. k \in Nat \ {0} /\ m \in Nat \ {0} /\ infer \in Checkers(k) /\ go \in Compilers(m)
  BY <1>1, Depths, Readers
<1>3. /\ Var \in GoEntries /\ GoEntry("const") \in GoEntries /\ [Var EXCEPT !.fixed = TRUE] \in GoEntries
      /\ <<>> \in Seq(Idents) /\ Target \subseteq Idents
  <2>1. Target \subseteq Idents
    BY DEF Target, Names
  <2> QED BY <2>1, Readers
<1>4. ASSUME NEW declared \in Seq(Idents), NEW errs, NEW used, NEW inf \in Checkers(k),
             NEW g \in Compilers(m), Stmt(declared, errs, used, inf, g)
      PROVE  ScopesInv'
  BY <1>4, StmtKeeps
<1> HIDE DEF k, m
<1>5. CASE Use
  <2>1. PICK n \in Target : Stmt(<<>>, {}, <<n>>, InferIdent(infer, n), GoUse(go, n))
    BY <1>5 DEF Use
  <2>2. InferIdent(infer, n) \in Checkers(k) /\ GoUse(go, n) \in Compilers(m)
    BY <1>2, <1>3, NamesKeep, GoKeeps
  <2> QED BY <1>3, <1>4, <2>1, <2>2
<1>6. CASE Decl
  <2>1. PICK n \in Idents, variant \in BOOLEAN :
            Stmt(<<n>>, ErrNames, <<>>, InsertVar(infer, n),
                 IF variant THEN GoDeclare(go, n, Var) ELSE GoShort(go, <<n>>, Var))
    BY <1>6 DEF Decl
  <2>2. <<n>> \in Seq(Idents)
    OBVIOUS
  <2>3. InsertVar(infer, n) \in Checkers(k)
    BY <1>2, NamesKeep
  <2>4. GoDeclare(go, n, Var) \in Compilers(m) /\ GoShort(go, <<n>>, Var) \in Compilers(m)
    BY <1>2, <1>3, <2>2, GoKeeps, GoMixKeeps
  <2>5. (IF variant THEN GoDeclare(go, n, Var) ELSE GoShort(go, <<n>>, Var)) \in Compilers(m)
    BY <2>4
  <2> QED BY <1>4, <2>1, <2>2, <2>3, <2>5
<1>7. CASE VarDecl
  <2>1. PICK list \in Named :
            Stmt(list, ErrNames, <<>>, Each(InsertVar, infer, list), GoDeclareAll(go, list, Var))
    BY <1>7 DEF VarDecl
  <2>2. list \in Seq(Idents)
    BY ListTypes
  <2>3. Each(InsertVar, infer, list) \in Checkers(k)
    BY <1>2, <2>2, ListsKeep
  <2>4. GoDeclareAll(go, list, Var) \in Compilers(m)
    BY <1>2, <1>3, <2>2, GoListsKeep
  <2> QED BY <1>4, <2>1, <2>2, <2>3, <2>4
<1>8. CASE MultiDecl
  <2>1. PICK list \in Lists :
            Stmt(list, ErrNames, <<>>, InsertShortDeclVars(infer, list), GoShort(go, list, Var))
    BY <1>8 DEF MultiDecl
  <2>2. list \in Seq(Idents)
    BY ListTypes
  <2>3. InsertShortDeclVars(infer, list) \in Checkers(k)
    BY <1>2, <2>2, ListsKeep
  <2>4. GoShort(go, list, Var) \in Compilers(m)
    BY <1>2, <1>3, <2>2, GoMixKeeps
  <2> QED BY <1>4, <2>1, <2>2, <2>3, <2>4
<1>9. CASE ConstDecl
  <2>1. PICK list \in Named, literal \in BOOLEAN :
            Stmt(list, ErrNames, <<>>, Each(InsertConst, infer, list),
                 IF literal THEN GoDeclareAll(go, list, GoEntry("const"))
                 ELSE GoShort(go, list, [Var EXCEPT !.fixed = TRUE]))
    BY <1>9 DEF ConstDecl
  <2>2. list \in Seq(Idents)
    BY ListTypes
  <2>3. Each(InsertConst, infer, list) \in Checkers(k)
    BY <1>2, <2>2, ListsKeep
  <2>4. /\ GoDeclareAll(go, list, GoEntry("const")) \in Compilers(m)
        /\ GoShort(go, list, [Var EXCEPT !.fixed = TRUE]) \in Compilers(m)
    BY <1>2, <1>3, <2>2, GoListsKeep, GoMixKeeps
  <2>5. (IF literal THEN GoDeclareAll(go, list, GoEntry("const"))
         ELSE GoShort(go, list, [Var EXCEPT !.fixed = TRUE])) \in Compilers(m)
    BY <2>4
  <2> QED BY <1>4, <2>1, <2>2, <2>3, <2>5
<1>10. CASE Assign
  <2>1. PICK n \in Target :
            Stmt(<<>>, {}, <<n>>, CheckVarMutable(InferIdent(infer, n), n), GoAssign(go, n))
    BY <1>10 DEF Assign
  <2>2. InferIdent(infer, n) \in Checkers(k) /\ GoAssign(go, n) \in Compilers(m)
    BY <1>2, <1>3, NamesKeep, GoKeeps
  <2>3. CheckVarMutable(InferIdent(infer, n), n) \in Checkers(k)
    BY <1>2, <1>3, <2>2, NamesKeep
  <2> QED BY <1>3, <1>4, <2>1, <2>2, <2>3
<1>11. CASE Reassign
  <2>1. PICK list \in Targets :
            Stmt(<<>>, {}, list, Each(InferIdent, infer, list), Each(GoAssign, go, list))
    BY <1>11 DEF Reassign
  <2>2. list \in Seq(Idents)
    BY ListTypes
  <2>3. Each(InferIdent, infer, list) \in Checkers(k)
    BY <1>2, <2>2, ListsKeep
  <2>4. Each(GoAssign, go, list) \in Compilers(m)
    BY <1>2, <2>2, GoListsKeep
  <2> QED BY <1>3, <1>4, <2>1, <2>3, <2>4
<1>12. CASE IncDec
  <2>1. PICK n \in Target : Stmt(<<>>, {}, <<n>>, Step(infer, n), GoStep(go, n))
    BY <1>12 DEF IncDec
  <2>2. CheckVarMutable(infer, n) \in Checkers(k) /\ GoUse(go, n) \in Compilers(m)
    BY <1>2, <1>3, NamesKeep, GoKeeps
  <2>3. Step(infer, n) \in Checkers(k) /\ GoStep(go, n) \in Compilers(m)
    BY <1>2, <1>3, <2>2, NamesKeep, GoKeeps DEF Step, GoStep
  <2> QED BY <1>3, <1>4, <2>1, <2>3
<1>13. CASE TryDecl
  <2>1. PICK list \in Lists :
            Stmt(list, ErrNames, <<>>, Each(InsertVar, infer, list), GoMix(go, list, Var))
    BY <1>13 DEF TryDecl
  <2>2. list \in Seq(Idents)
    BY ListTypes
  <2>3. Each(InsertVar, infer, list) \in Checkers(k)
    BY <1>2, <2>2, ListsKeep
  <2>4. GoMix(go, list, Var) \in Compilers(m)
    BY <1>2, <1>3, <2>2, GoMixKeeps
  <2> QED BY <1>4, <2>1, <2>2, <2>3, <2>4
<1> QED BY <1>5, <1>6, <1>7, <1>8, <1>9, <1>10, <1>11, <1>12, <1>13

\* A block without a header, and the second one of an if.
LEMMA BlocksKeep ==
    ASSUME ScopesInv, BeginBlock \/ Else
    PROVE  ScopesInv'
<1>1. CASE BeginBlock
  <2>1. /\ blocks # <<>> /\ blocks' = Append(blocks, Opened("block", {})) /\ left' = left
        /\ infer' = PushScope(infer) /\ go' = GoOpen(go) /\ lint' = Append(lint, {})
    BY <1>1 DEF BeginBlock, InFunction
  <2>2. "block" \in Kinds \ {"func"} /\ {} \in SUBSET Idents
    BY DEF Kinds
  <2>3. /\ BlocksNest' /\ left' \in Nat
        /\ InferDepth' = InferDepth + Inferred("block") /\ GoDepth' = GoDepth + Generated("block")
    BY <2>1, <2>2, PushBlock
  <2>4. /\ InferDepth' = InferDepth + 1 /\ GoDepth' = GoDepth + 1
        /\ InferDepth \in Nat /\ GoDepth \in Nat /\ left \in Nat
    BY <2>3, Depths DEF Inferred, Generated
  <2>5. infer' \in Checkers(InferDepth') /\ go' \in Compilers(GoDepth')
    BY <2>1, <2>4, CheckerMoves, GoMoves, Readers
  <2>6. lint \in Seq(SUBSET Idents) /\ Len(lint) = InferDepth - 1 - left
    BY DEF ScopesInv
  <2>7. lint' \in Seq(SUBSET Idents) /\ Len(lint') = Len(lint) + 1
    BY <2>1, <2>6
  <2>8. Len(lint') = InferDepth' - 1 - left'
    BY <2>1, <2>4, <2>6, <2>7
  <2> QED BY <2>3, <2>5, <2>7, <2>8 DEF ScopesInv
<1>2. CASE Else
  <2> DEFINE last == Len(blocks)
  <2>1. /\ blocks # <<>> /\ Last(blocks).kind = "if" /\ left' = left
        /\ infer' = PushScope(PopScope(infer)) /\ go' = GoOpen(GoClose(go))
        /\ lint' = Append(But(lint, 1), {})
        /\ blocks' = [blocks EXCEPT ![last].kind = "else"]
    BY <1>2 DEF Else, Inside, InFunction
  <2>2. /\ last \in Nat /\ last > 0 /\ blocks[last] \in BlockTypes /\ blocks[last].kind = "if"
        /\ InferDepth = blocks[last].inferred + 2 /\ GoDepth = blocks[last].generated + 2
        /\ InferDepth \in Nat \ {0} /\ GoDepth \in Nat \ {0}
        /\ blocks[last].inferred \in Nat /\ blocks[last].inferred > left /\ left \in Nat
        /\ Last(blocks) = blocks[last]
    BY <2>1, Depths DEF Inferred, Generated
  <2>3. blocks \in Seq(BlockTypes)
    BY DEF ScopesInv, BlocksNest
  <2> DEFINE new == [blocks[last] EXCEPT !.kind = "else"]
  <2>4. /\ new \in BlockTypes /\ new.kind = "else" /\ new.inferred = blocks[last].inferred
        /\ new.generated = blocks[last].generated
    BY <2>2 DEF BlockTypes
  <2>5. blocks' = [blocks EXCEPT ![last] = new]
    BY <2>1
  <2> HIDE DEF new
  <2>6. /\ blocks' \in Seq(BlockTypes) /\ Len(blocks') = last /\ blocks'[last] = new
        /\ \A i \in 1..last : i # last => blocks'[i] = blocks[i]
    BY <2>2, <2>3, <2>4, <2>5
  <2>7. \A i \in 1..last : /\ blocks'[i].inferred = blocks[i].inferred
                           /\ blocks'[i].generated = blocks[i].generated
                           /\ Inferred(blocks'[i].kind) = Inferred(blocks[i].kind)
                           /\ Generated(blocks'[i].kind) = Generated(blocks[i].kind)
                           /\ (blocks'[i].kind = "func" <=> blocks[i].kind = "func")
    BY <2>2, <2>4, <2>6 DEF Inferred, Generated
  <2>8. BlocksNest'
    <3> SUFFICES ASSUME NEW b \in 1..last
                 PROVE  IF b = 1
                        THEN /\ blocks'[1].kind = "func" /\ blocks'[1].inferred = 1 + left
                             /\ blocks'[1].generated = 0
                        ELSE /\ blocks'[b].kind # "func" /\ blocks'[b].inferred > left
                             /\ blocks'[b].inferred = blocks'[b - 1].inferred + Inferred(blocks'[b - 1].kind)
                             /\ blocks'[b].generated = blocks'[b - 1].generated + Generated(blocks'[b - 1].kind)
      BY <2>1, <2>6 DEF BlocksNest
    <3>1. IF b = 1
          THEN blocks[1].kind = "func" /\ blocks[1].inferred = 1 + left /\ blocks[1].generated = 0
          ELSE /\ blocks[b].kind # "func" /\ blocks[b].inferred > left
               /\ blocks[b].inferred = blocks[b - 1].inferred + Inferred(blocks[b - 1].kind)
               /\ blocks[b].generated = blocks[b - 1].generated + Generated(blocks[b - 1].kind)
      BY DEF ScopesInv, BlocksNest
    <3>2. b # 1 => b - 1 \in 1..last
      BY <2>2
    <3> QED BY <2>7, <3>1, <3>2
  <2>9. InferDepth' = InferDepth /\ GoDepth' = GoDepth
    <3>1. blocks' # <<>> /\ Last(blocks') = new
      BY <2>2, <2>6 DEF Last
    <3> QED BY <2>2, <2>4, <3>1 DEF InferDepth, GoDepth, Inferred, Generated
  <2>10. infer' \in Checkers(InferDepth)
    <3>1. PopScope(infer) \in Checkers(InferDepth - 1) /\ InferDepth - 1 \in Nat
      BY <2>2, CheckerMoves, Readers
    <3>2. PushScope(PopScope(infer)) \in Checkers(InferDepth - 1 + 1) /\ InferDepth - 1 + 1 = InferDepth
      BY <2>2, <3>1, CheckerMoves
    <3> QED BY <2>1, <3>2
  <2>11. go' \in Compilers(GoDepth)
    <3>1. GoClose(go) \in Compilers(GoDepth - 1) /\ GoDepth - 1 \in Nat
      BY <2>2, GoMoves, Readers
    <3>2. GoOpen(GoClose(go)) \in Compilers(GoDepth - 1 + 1) /\ GoDepth - 1 + 1 = GoDepth
      BY <2>2, <3>1, GoMoves
    <3> QED BY <2>1, <3>2
  <2>12. lint' \in Seq(SUBSET Idents) /\ Len(lint') = InferDepth - 1 - left
    <3>1. lint \in Seq(SUBSET Idents) /\ Len(lint) = InferDepth - 1 - left
      BY DEF ScopesInv
    <3>2. 1 \in 0..Len(lint) /\ Len(lint) \in Nat
      BY <2>2, <3>1
    <3>3. But(lint, 1) \in Seq(SUBSET Idents) /\ Len(But(lint, 1)) = Len(lint) - 1
      BY <3>1, <3>2, SomeDropped
    <3>4. lint' \in Seq(SUBSET Idents) /\ Len(lint') = Len(But(lint, 1)) + 1
      BY <2>1, <3>3
    <3> QED BY <3>1, <3>2, <3>3, <3>4
  <2> QED BY <2>1, <2>2, <2>8, <2>9, <2>10, <2>11, <2>12 DEF ScopesInv
<1> QED BY <1>1, <1>2
\* A block with a header.
LEMMA BeginsKeep ==
    ASSUME ScopesInv,
           BeginIf \/ BeginRange \/ BeginArm \/ BeginCase \/ BeginHandler \/ BeginClosure
    PROVE  ScopesInv'
<1> DEFINE k == InferDepth + 1
           m == GoDepth + 1
<1>1. blocks # <<>>
  BY DEF BeginIf, BeginRange, BeginArm, BeginCase, BeginHandler, BeginClosure, InFunction
<1>2. InferDepth \in Nat /\ GoDepth \in Nat /\ k \in Nat \ {0} /\ m \in Nat \ {0} /\ m + 1 = GoDepth + 2
  BY Depths
<1>3. PushScope(infer) \in Checkers(k) /\ GoOpen(go) \in Compilers(m) /\ Var \in GoEntries /\ Parameter \in GoEntries
  BY <1>2, CheckerMoves, GoMoves, Readers
<1>4. ASSUME NEW list \in Seq(Idents)
      PROVE  /\ Each(InsertVar, PushScope(infer), list) \in Checkers(k)
             /\ InsertShortDeclVars(PushScope(infer), list) \in Checkers(k)
             /\ InsertUntilError(PushScope(infer), list) \in Checkers(k)
  BY <1>2, <1>3, ListsKeep
<1>5. ASSUME NEW list \in Seq(Idents)
      PROVE  /\ GoShort(GoOpen(go), list, Var) \in Compilers(m)
             /\ GoOpen(GoShort(GoOpen(go), list, Var)) \in Compilers(GoDepth + 2)
             /\ GoOpen(go) \in Compilers(m)
             /\ GoBindings(GoOpen(go), list) \in Compilers(m)
             /\ GoDeclareAll(GoOpen(go), list, Var) \in Compilers(m)
             /\ GoDeclareAll(GoOpen(go), list, Parameter) \in Compilers(m)
  <2>1. GoShort(GoOpen(go), list, Var) \in Compilers(m)
    BY <1>2, <1>3, GoMixKeeps
  <2>2. GoOpen(GoShort(GoOpen(go), list, Var)) \in Compilers(m + 1)
    BY <1>2, <2>1, GoMoves
  <2>3. /\ GoBindings(GoOpen(go), list) \in Compilers(m)
        /\ \A e \in GoEntries : GoDeclareAll(GoOpen(go), list, e) \in Compilers(m)
    BY <1>2, <1>3, GoListsKeep
  <2> QED BY <1>2, <1>3, <2>1, <2>2, <2>3
<1>6. ASSUME NEW kind \in {"arm", "case", "handler", "closure"}, NEW unlisted \in SUBSET Idents,
             NEW inf \in Checkers(k), NEW header \in Seq(Idents), NEW errs, NEW g \in Compilers(m),
             Enter(kind, unlisted, inf, lint, errs, header, g)
      PROVE  ScopesInv'
  <2>1. kind \in Kinds \ {"func", "block"} /\ Generated(kind) = 1
    BY DEF Kinds, Generated
  <2> QED BY <1>1, <1>6, <2>1, EnterKeeps
<1>7. ASSUME NEW kind \in {"if", "for", "range"}, NEW inf \in Checkers(k), NEW header \in Seq(Idents),
             NEW errs, NEW g \in Compilers(GoDepth + 2), Enter(kind, {}, inf, lint, errs, header, g)
      PROVE  ScopesInv'
  <2>1. kind \in Kinds \ {"func", "block"} /\ Generated(kind) = 2 /\ {} \in SUBSET Idents
    BY DEF Kinds, Generated
  <2> QED BY <1>1, <1>7, <2>1, EnterKeeps
<1> HIDE DEF k, m
<1>8. CASE BeginIf
  <2>1. PICK kind \in {"if", "for"}, list \in Lists :
            Enter(kind, {},
                  IF Len(list) = 1 THEN InsertVar(PushScope(infer), list[1])
                                   ELSE InsertShortDeclVars(PushScope(infer), list),
                  lint, ErrNames, list, GoOpen(GoShort(GoOpen(go), list, Var)))
    BY <1>8 DEF BeginIf
  <2>2. list \in Seq(Idents) /\ kind \in {"if", "for", "range"}
    BY ListTypes
  <2>3. (IF Len(list) = 1 THEN InsertVar(PushScope(infer), list[1])
                          ELSE InsertShortDeclVars(PushScope(infer), list)) \in Checkers(k)
    <3>1. Len(list) = 1 => InsertVar(PushScope(infer), list[1]) \in Checkers(k)
      <4>1. ASSUME Len(list) = 1 PROVE list[1] \in Idents
        BY <2>2, <4>1, ElementOfSeq
      <4> QED BY <1>2, <1>3, <4>1, NamesKeep
    <3> QED BY <1>4, <2>2, <3>1
  <2>4. GoOpen(GoShort(GoOpen(go), list, Var)) \in Compilers(GoDepth + 2)
    BY <1>5, <2>2
  <2> QED BY <1>7, <2>1, <2>2, <2>3, <2>4
<1>9. CASE BeginRange
  <2>1. PICK list \in Lists :
            Enter("range", {}, Each(InsertVar, PushScope(infer), list), lint, ErrNames, list,
                  GoOpen(GoShort(GoOpen(go), list, Var)))
    BY <1>9 DEF BeginRange
  <2>2. list \in Seq(Idents)
    BY ListTypes
  <2> QED BY <1>4, <1>5, <1>7, <2>1, <2>2
<1>10. CASE BeginArm
  <2>1. PICK list \in Named, several \in BOOLEAN, struct \in BOOLEAN :
            Enter("arm", {},
                  IF several THEN Each(InsertVar, PushScope(infer), list)
                             ELSE InsertUntilError(PushScope(infer), list),
                  lint, ErrNames, list,
                  IF several /\ ~ struct THEN GoOpen(go) ELSE GoBindings(GoOpen(go), list))
    BY <1>10 DEF BeginArm
  <2>2. list \in Seq(Idents) /\ {} \in SUBSET Idents
    BY ListTypes
  <2>3. (IF several THEN Each(InsertVar, PushScope(infer), list)
                    ELSE InsertUntilError(PushScope(infer), list)) \in Checkers(k)
    BY <1>4, <2>2
  <2>4. (IF several /\ ~ struct THEN GoOpen(go) ELSE GoBindings(GoOpen(go), list)) \in Compilers(m)
    BY <1>5, <2>2
  <2> QED BY <1>6, <2>1, <2>2, <2>3, <2>4
<1>11. CASE BeginCase
  <2>1. PICK list \in Lists :
            Enter("case", {}, Each(InsertVar, PushScope(infer), list), lint,
                  IF Len(list) = 1 THEN ErrNames ELSE ErrNames \ {list[2]}, list,
                  GoShort(GoOpen(go), list, Var))
    BY <1>11 DEF BeginCase
  <2>2. list \in Seq(Idents) /\ {} \in SUBSET Idents
    BY ListTypes
  <2> DEFINE errs == IF Len(list) = 1 THEN ErrNames ELSE ErrNames \ {list[2]}
  <2>3. Enter("case", {}, Each(InsertVar, PushScope(infer), list), lint, errs, list,
              GoShort(GoOpen(go), list, Var))
    BY <2>1
  <2> HIDE DEF errs
  <2> QED BY <1>4, <1>5, <1>6, <2>2, <2>3
<1>12. CASE BeginHandler
  <2>1. PICK list \in {<<>>} \cup {<<n>> : n \in Names} :
            Enter("handler", {}, Each(InsertVar, PushScope(infer), list), lint, Names, list,
                  GoDeclareAll(GoOpen(go), list, Var))
    BY <1>12 DEF BeginHandler
  <2>2. list \in Seq(Idents) /\ {} \in SUBSET Idents
    <3>1. list = <<>> \/ \E n \in Names : list = <<n>>
      OBVIOUS
    <3>2. \A n \in Names : <<n>> \in Seq(Idents)
      <4>1. Names \subseteq Idents
        BY DEF Names
      <4> QED BY <4>1
    <3>3. <<>> \in Seq(Idents)
      OBVIOUS
    <3> QED BY <3>1, <3>2, <3>3
  <2> QED BY <1>4, <1>5, <1>6, <2>1, <2>2
<1>13. CASE BeginClosure
  <2>1. PICK params \in Maybe, results \in Maybe :
            Enter("closure", InList(results), Each(InsertVar, PushScope(infer), params), lint, ErrNames,
                  params, GoDeclareAll(GoOpen(go), params \o results, Parameter))
    BY <1>13 DEF BeginClosure
  <2>2. params \in Seq(Idents) /\ results \in Seq(Idents)
    BY ListTypes
  <2>3. params \o results \in Seq(Idents) /\ InList(results) \in SUBSET Idents
    BY <2>2, ListNames
  <2> QED BY <1>4, <1>5, <1>6, <2>1, <2>2, <2>3
<1> QED BY <1>8, <1>9, <1>10, <1>11, <1>12, <1>13

\* A scope less, by its number.
LEMMA OneLess ==
    ASSUME NEW j \in Nat, NEW k \in Nat, j = k + 1
    PROVE  /\ \A inf \in Checkers(j) : PopScope(inf) \in Checkers(k) /\ CheckUnusedVars(inf) \in Checkers(j)
           /\ \A g \in Compilers(j) : GoClose(g) \in Compilers(k)
<1>1. j > 0 /\ j - 1 = k
  OBVIOUS
<1>2. ASSUME NEW inf \in Checkers(j)
      PROVE  PopScope(inf) \in Checkers(k) /\ CheckUnusedVars(inf) \in Checkers(j)
  <2>1. PopScope(inf) \in Checkers(j - 1) /\ CheckUnusedVars(inf) \in Checkers(j)
    BY <1>1, CheckerMoves
  <2> QED BY <1>1, <2>1
<1>3. ASSUME NEW g \in Compilers(j) PROVE GoClose(g) \in Compilers(k)
  <2>1. GoClose(g) \in Compilers(j - 1)
    BY <1>1, GoMoves
  <2> QED BY <1>1, <2>1
<1> QED BY <1>2, <1>3

\* A block ends.
LEMMA EndsKeep ==
    ASSUME ScopesInv, EndFunc \/ EndBlock \/ EndIf \/ EndFor \/ EndHandler \/ EndArm
    PROVE  ScopesInv'
<1> DEFINE n == Last(blocks).inferred
           m == Last(blocks).generated
           kind == Last(blocks).kind
<1>1. blocks # <<>>
  BY DEF EndFunc, EndBlock, EndIf, EndFor, EndHandler, EndArm, Leave, Inside, InFunction
<1>2. n \in Nat /\ m \in Nat /\ infer \in Checkers(n + Inferred(kind)) /\ go \in Compilers(m + Generated(kind))
  BY <1>1, Depths, Readers
<1>3. ASSUME NEW kinds, NEW inf \in Checkers(n), NEW g \in Compilers(m),
             Leave(kinds, inf, Inferred(kind), g)
      PROVE  ScopesInv'
  BY <1>3, LeaveKeeps
<1> HIDE DEF n, m
<1>4. ASSUME NEW inf \in Checkers(n + 1)
      PROVE  PopScope(inf) \in Checkers(n) /\ CheckUnusedVars(inf) \in Checkers(n + 1)
  <2> DEFINE j == n + 1
  <2>1. j \in Nat /\ j = n + 1 /\ n \in Nat
    BY <1>2
  <2>2. inf \in Checkers(j)
    OBVIOUS
  <2> HIDE DEF j
  <2>3. PopScope(inf) \in Checkers(n) /\ CheckUnusedVars(inf) \in Checkers(j)
    BY <2>1, <2>2, OneLess
  <2> QED BY <2>3 DEF j
<1>5. ASSUME NEW inf \in Checkers(n + 2)
      PROVE  PopScope(inf) \in Checkers(n + 1) /\ CheckUnusedVars(inf) \in Checkers(n + 2)
  <2> DEFINE j == n + 2
             l == n + 1
  <2>1. j \in Nat /\ l \in Nat /\ j = l + 1
    BY <1>2
  <2>2. inf \in Checkers(j)
    OBVIOUS
  <2> HIDE DEF j, l
  <2>3. PopScope(inf) \in Checkers(l) /\ CheckUnusedVars(inf) \in Checkers(j)
    BY <2>1, <2>2, OneLess
  <2> QED BY <2>3 DEF j, l
<1>6. ASSUME NEW g \in Compilers(m + 1) PROVE GoClose(g) \in Compilers(m)
  <2> DEFINE j == m + 1
  <2>1. j \in Nat /\ j = m + 1 /\ m \in Nat
    BY <1>2
  <2>2. g \in Compilers(j)
    OBVIOUS
  <2> HIDE DEF j
  <2> QED BY <2>1, <2>2, OneLess
<1>7. ASSUME NEW g \in Compilers(m + 2) PROVE GoClose(g) \in Compilers(m + 1)
  <2> DEFINE j == m + 2
             l == m + 1
  <2>1. j \in Nat /\ l \in Nat /\ j = l + 1
    BY <1>2
  <2>2. g \in Compilers(j)
    OBVIOUS
  <2> HIDE DEF j, l
  <2>3. GoClose(g) \in Compilers(l)
    BY <2>1, <2>2, OneLess
  <2> QED BY <2>3 DEF l
<1>8. CASE EndFunc
  <2>1. kind = "func" /\ Leave({"func"}, PopScope(PopScope(CheckUnusedVars(infer))), 2, GoClose(go))
    BY <1>8 DEF EndFunc, Leave, Inside
  <2>2. Inferred(kind) = 2 /\ infer \in Checkers(n + 2) /\ go \in Compilers(m + 1)
    BY <1>2, <2>1 DEF Inferred, Generated
  <2> HIDE DEF kind
  <2>3. PopScope(PopScope(CheckUnusedVars(infer))) \in Checkers(n) /\ GoClose(go) \in Compilers(m)
    BY <1>4, <1>5, <1>6, <2>2
  <2> QED BY <1>3, <2>1, <2>2, <2>3
<1>9. CASE EndBlock
  <2>1. kind = "block" /\ Leave({"block"}, PopScope(infer), 1, GoClose(go))
    BY <1>9 DEF EndBlock, Leave, Inside
  <2>2. Inferred(kind) = 1 /\ infer \in Checkers(n + 1) /\ go \in Compilers(m + 1)
    BY <1>2, <2>1 DEF Inferred, Generated
  <2> HIDE DEF kind
  <2>3. PopScope(infer) \in Checkers(n) /\ GoClose(go) \in Compilers(m)
    BY <1>4, <1>6, <2>2
  <2> QED BY <1>3, <2>1, <2>2, <2>3
<1>10. CASE EndIf
  <2>1. /\ kind \in {"if", "else", "range"}
        /\ Leave({"if", "else", "range"}, PopScope(PopScope(infer)), 2, GoClose(GoClose(go)))
    BY <1>10 DEF EndIf, Leave, Inside
  <2>2. Inferred(kind) = 2 /\ infer \in Checkers(n + 2) /\ go \in Compilers(m + 2)
    BY <1>2, <2>1 DEF Inferred, Generated
  <2> HIDE DEF kind
  <2>3. PopScope(PopScope(infer)) \in Checkers(n) /\ GoClose(GoClose(go)) \in Compilers(m)
    BY <1>4, <1>5, <1>6, <1>7, <2>2
  <2> QED BY <1>3, <2>1, <2>2, <2>3
<1>11. CASE EndFor
  <2>1. PICK post \in {<<>>} \cup {<<x>> : x \in Target} :
            Leave({"for"}, PopScope(Each(Step, PopScope(infer), post)), 2,
                  GoClose(Each(GoStep, GoClose(go), post)))
    BY <1>11 DEF EndFor
  <2>2. post \in Seq(Idents)
    <3>1. post = <<>> \/ \E x \in Target : post = <<x>>
      OBVIOUS
    <3>2. \A x \in Target : <<x>> \in Seq(Idents)
      <4>1. Target \subseteq Idents
        BY DEF Target, Names
      <4> QED BY <4>1
    <3>3. <<>> \in Seq(Idents)
      OBVIOUS
    <3> QED BY <3>1, <3>2, <3>3
  <2>3. kind = "for"
    BY <2>1 DEF Leave, Inside
  <2>4. Inferred(kind) = 2 /\ infer \in Checkers(n + 2) /\ go \in Compilers(m + 2)
    BY <1>2, <2>3 DEF Inferred, Generated
  <2> HIDE DEF kind
  <2>5. PopScope(infer) \in Checkers(n + 1) /\ GoClose(go) \in Compilers(m + 1)
    BY <1>5, <1>7, <2>4
  <2>6. n + 1 \in Nat \ {0} /\ m + 1 \in Nat \ {0}
    BY <1>2
  <2>7. Each(Step, PopScope(infer), post) \in Checkers(n + 1)
    BY <2>2, <2>5, <2>6, ListsKeep
  <2>8. Each(GoStep, GoClose(go), post) \in Compilers(m + 1)
    BY <2>2, <2>5, <2>6, GoListsKeep
  <2>9. /\ PopScope(Each(Step, PopScope(infer), post)) \in Checkers(n)
        /\ GoClose(Each(GoStep, GoClose(go), post)) \in Compilers(m)
    BY <1>4, <1>6, <2>7, <2>8
  <2> QED BY <1>3, <2>1, <2>4, <2>9
<1>12. CASE EndHandler
  <2>1. /\ kind = "handler"
        /\ Leave({"handler"}, PopScope(CheckUnusedVars(PopScope(infer))), 2, GoClose(go))
    BY <1>12 DEF EndHandler, Leave, Inside
  <2>2. Inferred(kind) = 2 /\ infer \in Checkers(n + 2) /\ go \in Compilers(m + 1)
    BY <1>2, <2>1 DEF Inferred, Generated
  <2> HIDE DEF kind
  <2>3. PopScope(CheckUnusedVars(PopScope(infer))) \in Checkers(n) /\ GoClose(go) \in Compilers(m)
    BY <1>4, <1>5, <1>6, <2>2
  <2> QED BY <1>3, <2>1, <2>2, <2>3
<1>13. CASE EndArm
  <2>1. /\ kind \in {"arm", "case", "closure"}
        /\ Leave({"arm", "case", "closure"}, PopScope(PopScope(infer)), 2, GoClose(go))
    BY <1>13 DEF EndArm, Leave, Inside
  <2>2. Inferred(kind) = 2 /\ infer \in Checkers(n + 2) /\ go \in Compilers(m + 1)
    BY <1>2, <2>1 DEF Inferred, Generated
  <2> HIDE DEF kind
  <2>3. PopScope(PopScope(infer)) \in Checkers(n) /\ GoClose(go) \in Compilers(m)
    BY <1>4, <1>5, <1>6, <2>2
  <2> QED BY <1>3, <2>1, <2>2, <2>3
<1> QED BY <1>8, <1>9, <1>10, <1>11, <1>12, <1>13

-----------------------------------------------------------------------------
(* The theorems.                                                           *)

\* The invariant holds throughout every file: of each reader of a function body
\* the scopes are those of the blocks that are open.
THEOREM ScopesKept == ScopesSpec => []ScopesInv
<1>1. ScopesInit => ScopesInv
  BY ScopesBegin
<1>2. ScopesInv /\ [ScopesNext]_vars => ScopesInv'
  <2> SUFFICES ASSUME ScopesInv, [ScopesNext]_vars PROVE ScopesInv'
    OBVIOUS
  <2>1. CASE UNCHANGED vars
    <3>1. blocks' = blocks /\ left' = left /\ infer' = infer /\ go' = go /\ lint' = lint
      BY <2>1 DEF vars
    <3> QED BY <3>1 DEF ScopesInv, BlocksNest, InferDepth, GoDepth
  <2>2. CASE ScopesNext
    BY <2>2, BeginFuncKeeps, LeaveEarlyKeeps, StatementsKeep, BlocksKeep, BeginsKeep, EndsKeep
       DEF ScopesNext
  <2> QED BY <2>1, <2>2
<1> QED BY <1>1, <1>2, PTL DEF ScopesSpec

\* Between functions nothing is left over but the scopes of functions that the
\* checker left early: no declaration of a body reaches the next function.
THEOREM ScopesAreClosed == ScopesSpec => []ScopesUnwind
<1>1. ScopesInv => ScopesUnwind
  <2> SUFFICES ASSUME ScopesInv, blocks = <<>>
               PROVE  Len(infer.scopes) = 1 + left /\ go.scopes = <<>> /\ lint = <<>>
    BY DEF ScopesUnwind
  <2>1. InferDepth = 1 + left /\ GoDepth = 0 /\ left \in Nat
    BY DEF InferDepth, GoDepth, ScopesInv
  <2>2. Len(infer.scopes) = 1 + left
    BY <2>1 DEF ScopesInv, Checkers
  <2>3. go.scopes \in Seq(ScopesOf(GoEntries)) /\ Len(go.scopes) = 0
    BY <2>1 DEF ScopesInv, Compilers
  <2>4. lint \in Seq(SUBSET Idents) /\ Len(lint) = 0
    BY <2>1 DEF ScopesInv
  <2> QED BY <2>2, <2>3, <2>4
<1> QED BY <1>1, ScopesKept, PTL

-----------------------------------------------------------------------------
(* What is declared in the innermost scope.                                *)

\* The names declared by the first i of a list.
Upto(list, i) == {list[j] : j \in 1..i} \ {"_"}

\* The innermost scope gets names, all with the same entry.
Declare(s, N, e) ==
    [i \in 1..Len(s) |->
        IF i = Len(s) THEN [m \in DOMAIN s[i] \cup N |-> IF m \in N THEN e ELSE s[i][m]] ELSE s[i]]

\* Nothing is declared.
LEMMA DeclareNone ==
    ASSUME NEW E, NEW k \in Nat \ {0}, NEW s \in Seq(ScopesOf(E)), Len(s) = k, NEW e
    PROVE  Declare(s, {}, e) = s
<1>1. k \in 1..k /\ DOMAIN s = 1..k /\ s = [i \in 1..k |-> s[i]] /\ s[k] \in ScopesOf(E)
  OBVIOUS
<1>2. s[k] = [m \in DOMAIN s[k] |-> s[k][m]]
  BY <1>1 DEF ScopesOf
<1>3. [m \in DOMAIN s[k] \cup {} |-> IF m \in {} THEN e ELSE s[k][m]] = s[k]
  BY <1>2
<1>4. Declare(s, {}, e) = [i \in 1..k |-> s[i]]
  BY <1>3 DEF Declare
<1> QED BY <1>1, <1>4

\* The innermost of s gets one more, and nothing else changes.
OneMore(s, t, n, e) ==
    /\ Len(t) = Len(s) /\ t[Len(s)] = With(s[Len(s)], n, e)
    /\ \A i \in 1..(Len(s) - 1) : t[i] = s[i]

\* One name is.
LEMMA DeclareOne ==
    ASSUME NEW E, NEW k \in Nat \ {0}, NEW s \in Seq(ScopesOf(E)), Len(s) = k, NEW e, NEW n,
           NEW t \in Seq(ScopesOf(E)), OneMore(s, t, n, e)
    PROVE  t = Declare(s, {n}, e)
<1>1. With(s[k], n, e) = [m \in DOMAIN s[k] \cup {n} |-> IF m \in {n} THEN e ELSE s[k][m]]
  BY DEF With
<1>2. t = [i \in 1..k |-> t[i]]
  BY DEF OneMore
<1> DEFINE u == Declare(s, {n}, e)
<1>3. u = [i \in 1..k |-> u[i]]
  BY DEF Declare
<1>4. \A i \in 1..k : t[i] = u[i]
  <2>1. \A i \in 1..k : i = k \/ i \in 1..(k - 1)
    OBVIOUS
  <2>2. u[k] = With(s[k], n, e)
    BY <1>1 DEF Declare
  <2>3. \A i \in 1..(k - 1) : u[i] = s[i]
    BY DEF Declare
  <2> HIDE DEF u
  <2> QED BY <2>1, <2>2, <2>3 DEF OneMore
<1> HIDE DEF u
<1> QED BY <1>2, <1>3, <1>4 DEF u

\* Names are declared, and then others.
LEMMA DeclareMore ==
    ASSUME NEW E, NEW k \in Nat \ {0}, NEW s \in Seq(ScopesOf(E)), Len(s) = k, NEW e \in E,
           NEW N \in SUBSET Idents
    PROVE  /\ Declare(s, N, e) \in Seq(ScopesOf(E)) /\ Len(Declare(s, N, e)) = k
           /\ DOMAIN Declare(s, N, e)[k] = DOMAIN s[k] \cup N
           /\ \A i \in 1..(k - 1) : Declare(s, N, e)[i] = s[i]
           /\ \A M : Declare(Declare(s, N, e), M, e) = Declare(s, N \cup M, e)
<1> DEFINE f == [m \in DOMAIN s[k] \cup N |-> IF m \in N THEN e ELSE s[k][m]]
           t == Declare(s, N, e)
<1>1. k \in 1..k /\ s[k] \in ScopesOf(E) /\ \A i \in 1..k : s[i] \in ScopesOf(E)
  OBVIOUS
<1>2. f \in ScopesOf(E)
  <2>1. PICK D \in SUBSET Idents : s[k] \in [D -> E]
    BY <1>1 DEF ScopesOf
  <2>2. f \in [D \cup N -> E]
    BY <2>1
  <2> QED BY <2>2 DEF ScopesOf
<1>3. t = [i \in 1..k |-> IF i = k THEN f ELSE s[i]]
  BY DEF Declare
<1>4. DOMAIN f = DOMAIN s[k] \cup N /\ \A m \in DOMAIN f : f[m] = IF m \in N THEN e ELSE s[k][m]
  OBVIOUS
<1> HIDE DEF f, t
<1>5. t \in Seq(ScopesOf(E)) /\ Len(t) = k /\ t[k] = f /\ \A i \in 1..(k - 1) : t[i] = s[i]
  BY <1>1, <1>2, <1>3
<1>6. ASSUME NEW M PROVE Declare(t, M, e) = Declare(s, N \cup M, e)
  <2>1. [m \in DOMAIN t[k] \cup M |-> IF m \in M THEN e ELSE t[k][m]]
          = [m \in DOMAIN s[k] \cup (N \cup M) |-> IF m \in N \cup M THEN e ELSE s[k][m]]
    BY <1>4, <1>5
  <2>2. \A i \in 1..k : i # k => t[i] = s[i]
    BY <1>5
  <2> QED BY <1>5, <2>1, <2>2 DEF Declare
<1> QED BY <1>4, <1>5, <1>6 DEF t

\* A list up to a place.
LEMMA UptoNext ==
    ASSUME NEW list \in Seq(Idents)
    PROVE  /\ Upto(list, 0) = {} /\ Upto(list, Len(list)) = Listed(list)
           /\ \A i \in 1..Len(list) : Upto(list, i) = Upto(list, i - 1) \cup ({list[i]} \ {"_"})
           /\ \A i \in 0..Len(list) : Upto(list, i) \in SUBSET (Idents \ {"_"})
<1>1. Len(list) \in Nat /\ \A i \in 1..Len(list) : list[i] \in Idents
  OBVIOUS
<1>2. ASSUME NEW i \in 1..Len(list)
      PROVE  Upto(list, i) = Upto(list, i - 1) \cup ({list[i]} \ {"_"})
  <2>1. 1..i = 1..(i - 1) \cup {i}
    BY <1>1
  <2> QED BY <2>1 DEF Upto
<1>3. ASSUME NEW i \in 0..Len(list) PROVE Upto(list, i) \in SUBSET (Idents \ {"_"})
  <2>1. \A j \in 1..i : j \in 1..Len(list)
    BY <1>1
  <2> QED BY <1>1, <2>1 DEF Upto
<1>4. Upto(list, 0) = {}
  <2>1. 1..0 = {}
    OBVIOUS
  <2> QED BY <2>1 DEF Upto
<1>5. Upto(list, Len(list)) = Listed(list)
  BY DEF Upto, Listed, InList
<1> QED BY <1>2, <1>3, <1>4, <1>5
-----------------------------------------------------------------------------
(* What the checker accepts.                                               *)

\* A name is declared, used or looked at, and no error has come up.
LEMMA AcceptedName ==
    ASSUME NEW k \in Nat \ {0}, NEW inf \in Checkers(k), NEW n \in Idents
    PROVE  /\ \A e \in Entries : Insert(inf, n, e).errors = <<>> =>
                /\ inf.errors = <<>> /\ ({n} \ {"_"}) \cap DOMAIN inf.scopes[k] = {}
                /\ Insert(inf, n, e).scopes = Declare(inf.scopes, {n} \ {"_"}, e)
           /\ UpdateVar(inf, n).errors = inf.errors
           /\ UpdateVar(inf, n).scopes = Declare(inf.scopes, {n} \ {"_"}, Entry(TRUE))
<1>1. /\ inf \in [imported : ImportedNames, scopes : Seq(ScopesOf(Entries)), errors : Seq(Errors)]
      /\ Len(inf.scopes) = k /\ inf.scopes \in Seq(ScopesOf(Entries)) /\ inf.errors \in Seq(Errors)
      /\ Last(inf.scopes) = inf.scopes[k]
  BY DEF Checkers, Last
<1>2. \A kind, ns : EmitError(inf, kind, ns).errors # <<>>
  BY <1>1 DEF EmitError
<1>3. ASSUME NEW e \in Entries
      PROVE  /\ Bind(inf, n, e).scopes = Declare(inf.scopes, {n}, e) /\ Bind(inf, n, e).errors = inf.errors
             /\ Declare(inf.scopes, {}, e) = inf.scopes
  <2> DEFINE s == [inf.scopes EXCEPT ![Len(inf.scopes)] = With(@, n, e)]
  <2>1. Bind(inf, n, e) = [inf EXCEPT !.scopes = s]
    BY DEF Bind
  <2>2. PICK old \in Seq(ScopesOf(Entries)) : old = inf.scopes /\ Len(old) = k
    BY <1>1
  <2>3. /\ Len(s) = k /\ s[k] = With(old[k], n, e) /\ \A i \in 1..(k - 1) : s[i] = old[i]
    BY <2>2
  <2>4. s \in Seq(ScopesOf(Entries))
    <3>1. old[k] \in ScopesOf(Entries)
      BY <2>2
    <3>2. With(old[k], n, e) \in ScopesOf(Entries)
      BY <1>3, <3>1, BoundScope
    <3> QED BY <2>2, <3>2
  <2> HIDE DEF s
  <2>5. s = Declare(old, {n}, e) /\ Declare(old, {}, e) = old
    <3>1. s = Declare(old, {n}, e)
      <4>1. OneMore(old, s, n, e)
        BY <2>2, <2>3 DEF OneMore
      <4> QED BY <2>2, <2>4, <4>1, DeclareOne
    <3>2. Declare(old, {}, e) = old
      BY <2>2, DeclareNone
    <3> QED BY <3>1, <3>2
  <2> QED BY <1>1, <2>1, <2>2, <2>5
<1>4. ASSUME NEW e \in Entries, Insert(inf, n, e).errors = <<>>
      PROVE  /\ inf.errors = <<>> /\ ({n} \ {"_"}) \cap DOMAIN inf.scopes[k] = {}
             /\ Insert(inf, n, e).scopes = Declare(inf.scopes, {n} \ {"_"}, e)
  <2>1. CASE n = "_"
    <3>1. Insert(inf, n, e) = inf /\ {n} \ {"_"} = {}
      BY <2>1 DEF Insert
    <3> QED BY <1>3, <1>4, <3>1
  <2>2. CASE n # "_"
    <3>1. Insert(inf, n, e) = Bind(inf, n, e) /\ n \notin DOMAIN inf.scopes[k]
      <4>1. Insert(inf, n, e) # EmitError(inf, "ShadowsImport", {n})
        BY <1>2, <1>4
      <4>2. Insert(inf, n, e) # EmitError(inf, "Redeclared", {n})
        BY <1>2, <1>4
      <4> QED BY <1>1, <2>2, <4>1, <4>2 DEF Insert, InCurrentScope
    <3>2. {n} \ {"_"} = {n}
      BY <2>2
    <3> QED BY <1>3, <1>4, <3>1, <3>2
  <2> QED BY <2>1, <2>2
<1>5. Entry(TRUE) \in Entries
  BY DEF Entry, Entries
<1>6. CASE n = "_"
  <2>1. UpdateVar(inf, n) = inf /\ {n} \ {"_"} = {}
    BY <1>6 DEF UpdateVar
  <2> QED BY <1>3, <1>4, <1>5, <2>1
<1>7. CASE n # "_"
  <2>1. UpdateVar(inf, n) = Bind(inf, n, Entry(TRUE)) /\ {n} \ {"_"} = {n}
    BY <1>7 DEF UpdateVar
  <2> QED BY <1>3, <1>4, <1>5, <2>1
<1> QED BY <1>4, <1>6, <1>7

InsertTurn(c, inf, n) == IF c[1] /\ inf.errors # <<>> THEN inf ELSE Insert(inf, n, c[2])
InsertLoop == INSTANCE Iteration WITH Turn <- InsertTurn

\* None of the first i names of a list was there before it.
Fresh(scope, list, i) ==
    \A j \in 1..i : list[j] = "_" \/ list[j] \notin DOMAIN scope \cup Upto(list, j - 1)

\* The checkers that, if they have no error, have declared the first i.
Inserted(k, s, list, i, e) ==
    {st \in Checkers(k) : st.errors = <<>> =>
        st.scopes = Declare(s, Upto(list, i), e) /\ Fresh(s[k], list, i)}

\* One turn more.
LEMMA InsertedNext ==
    ASSUME NEW k \in Nat \ {0}, NEW s \in Seq(ScopesOf(Entries)), Len(s) = k, NEW list \in Seq(Idents),
           NEW e \in Entries, NEW stops \in BOOLEAN, NEW i \in 1..Len(list),
           NEW st \in Inserted(k, s, list, i - 1, e)
    PROVE  InsertTurn(<<stops, e>>, st, list[i]) \in Inserted(k, s, list, i, e)
<1> DEFINE n == list[i]
           A == Upto(list, i - 1)
           B == {n} \ {"_"}
           next == InsertTurn(<<stops, e>>, st, n)
<1>1. /\ n \in Idents /\ i - 1 \in 0..Len(list) /\ i \in Nat /\ k \in Nat /\ {n} \in SUBSET Idents
      /\ (st.errors = <<>> => st.scopes = Declare(s, A, e) /\ Fresh(s[k], list, i - 1))
      /\ st \in Checkers(k)
  BY DEF Inserted
<1>2. Upto(list, i) = A \cup B /\ A \in SUBSET Idents
  BY <1>1, UptoNext
<1>3. \/ next = st /\ st.errors # <<>>
      \/ next = Insert(st, n, e)
  BY DEF InsertTurn
<1> HIDE DEF n, next
<1>4. next \in Checkers(k)
  <2>1. \A kind \in ErrorKinds : EmitError(st, kind, {n}) \in Checkers(k)
    BY <1>1, CheckerKeeps
  <2>2. Bind(st, n, e) \in Checkers(k)
    BY <1>1, CheckerKeeps
  <2>3. Insert(st, n, e) \in Checkers(k)
    BY <1>1, <2>1, <2>2 DEF Insert, ErrorKinds
  <2> QED BY <1>1, <1>3, <2>3
<1>5. ASSUME next.errors = <<>>
      PROVE  next.scopes = Declare(s, A \cup B, e) /\ Fresh(s[k], list, i)
  <2>1. next = Insert(st, n, e)
    BY <1>3, <1>5
  <2>2. st.errors = <<>> /\ B \cap DOMAIN st.scopes[k] = {} /\ next.scopes = Declare(st.scopes, B, e)
    <3>1. Insert(st, n, e).errors = <<>>
      BY <1>5, <2>1
    <3>2. \A x \in Entries : Insert(st, n, x).errors = <<>> =>
            /\ st.errors = <<>> /\ ({n} \ {"_"}) \cap DOMAIN st.scopes[k] = {}
            /\ Insert(st, n, x).scopes = Declare(st.scopes, {n} \ {"_"}, x)
      BY <1>1, AcceptedName
    <3>3. /\ st.errors = <<>> /\ ({n} \ {"_"}) \cap DOMAIN st.scopes[k] = {}
          /\ Insert(st, n, e).scopes = Declare(st.scopes, {n} \ {"_"}, e)
      BY <3>1, <3>2
    <3> QED BY <2>1, <3>3
  <2> HIDE DEF A, B
  <2>3. /\ Declare(Declare(s, A, e), B, e) = Declare(s, A \cup B, e)
        /\ DOMAIN Declare(s, A, e)[k] = DOMAIN s[k] \cup A
    BY <1>2, DeclareMore
  <2>4. n = "_" \/ n \notin DOMAIN s[k] \cup A
    BY <1>1, <2>2, <2>3 DEF B
  <2>5. \A j \in 1..i : j = i \/ j \in 1..(i - 1)
    BY <1>1
  <2>6. Fresh(s[k], list, i)
    BY <1>1, <2>2, <2>4, <2>5 DEF Fresh, n, A
  <2> QED BY <1>1, <2>2, <2>3, <2>6
<1> HIDE DEF A, B
<1> QED BY <1>2, <1>4, <1>5 DEF Inserted, next, n

\* A list is declared and no error has come up: no name of it was there, or twice in it.
LEMMA AcceptedList ==
    ASSUME NEW k \in Nat \ {0}, NEW inf \in Checkers(k), inf.errors = <<>>, NEW list \in Seq(Idents),
           NEW e \in Entries, NEW stops \in BOOLEAN,
           InsertLoop!Loop(<<stops, e>>, inf, list).errors = <<>>
    PROVE  /\ InsertLoop!Loop(<<stops, e>>, inf, list).scopes = Declare(inf.scopes, Listed(list), e)
           /\ Listed(list) \cap DOMAIN inf.scopes[k] = {} /\ Repeated(list) = {}
<1>1. PICK s \in Seq(ScopesOf(Entries)) : s = inf.scopes /\ Len(s) = k
  BY DEF Checkers
<1> DEFINE S == [i \in 0..Len(list) |-> Inserted(k, s, list, i, e)]
           c == <<stops, e>>
<1>2. Len(list) \in Nat
  OBVIOUS
<1>3. inf \in S[0]
  <2>1. Upto(list, 0) = {} /\ Declare(s, {}, e) = s
    <3>1. Upto(list, 0) = {}
      BY UptoNext
    <3>2. Declare(s, {}, e) = s
      BY <1>1, DeclareNone
    <3> QED BY <3>1, <3>2
  <2>2. Fresh(s[k], list, 0)
    <3>1. 1..0 = {}
      OBVIOUS
    <3> QED BY <3>1 DEF Fresh
  <2>3. inf \in Inserted(k, s, list, 0, e)
    BY <1>1, <2>1, <2>2 DEF Inserted
  <2>4. 0 \in 0..Len(list)
    BY <1>2
  <2> QED BY <2>3, <2>4
<1>4. ASSUME NEW i \in 1..Len(list), NEW st \in S[i - 1] PROVE InsertTurn(c, st, list[i]) \in S[i]
  <2>1. i \in 0..Len(list) /\ i - 1 \in 0..Len(list)
    BY <1>2
  <2>2. st \in Inserted(k, s, list, i - 1, e)
    BY <1>4, <2>1
  <2>3. InsertTurn(c, st, list[i]) \in Inserted(k, s, list, i, e)
    BY <1>1, <2>2, InsertedNext
  <2> QED BY <2>1, <2>3
<1>5. InsertLoop!Loop(c, inf, list) \in S[Len(list)]
  <2> HIDE DEF S, c
  <2> QED BY <1>3, <1>4, InsertLoop!LoopMoves
<1>6. /\ InsertLoop!Loop(c, inf, list).scopes = Declare(s, Upto(list, Len(list)), e)
      /\ Fresh(s[k], list, Len(list))
  <2>1. Len(list) \in 0..Len(list)
    BY <1>2
  <2> QED BY <1>5, <2>1 DEF Inserted
<1>7. Upto(list, Len(list)) = Listed(list)
  BY UptoNext
<1>8. Listed(list) \cap DOMAIN s[k] = {}
  BY <1>6 DEF Listed, InList, Fresh
<1>9. Repeated(list) = {}
  <2> SUFFICES ASSUME NEW n \in Repeated(list) PROVE FALSE
    OBVIOUS
  <2>1. PICK j \in DOMAIN list : (\E l \in 1..(j - 1) : list[l] = list[j]) /\ list[j] = n /\ n # "_"
    BY DEF Repeated
  <2>2. j \in 1..Len(list)
    OBVIOUS
  <2>3. n \in Upto(list, j - 1)
    BY <2>1 DEF Upto
  <2> QED BY <1>6, <2>1, <2>2, <2>3 DEF Fresh
<1> QED BY <1>1, <1>6, <1>7, <1>8, <1>9
-----------------------------------------------------------------------------
(* Where a name is.                                                        *)

\* A set of numbers from 1 on, with no gap.
LEMMA NoGap ==
    ASSUME NEW last \in Nat, NEW S \in SUBSET (1..last), \A b \in S : b > 1 => b - 1 \in S
    PROVE  Cardinality(S) \in 0..last /\ S = 1..Cardinality(S)
<1> DEFINE Out == {b \in 1..(last + 1) : b \notin S}
<1>1. Out \subseteq Nat /\ last + 1 \in Out
  OBVIOUS
<1>2. PICK m \in Out : \A b \in Out : ~ (<<b, m>> \in OpToRel(<, Nat))
  <2> HIDE DEF Out
  <2> QED BY <1>1, NatLessThanWellFounded, WFMin
<1>3. m \in 1..(last + 1) /\ m \notin S /\ \A b \in Out : ~ (b < m)
  <2>1. m \in 1..(last + 1) /\ m \notin S
    OBVIOUS
  <2> HIDE DEF Out
  <2> QED BY <1>1, <1>2, <2>1 DEF OpToRel
<1>4. \A b \in 1..(m - 1) : b \in S
  BY <1>3
<1> DEFINE Above == {b \in S : b > m}
<1>5. Above = {}
  <2> SUFFICES ASSUME Above # {} PROVE FALSE
    OBVIOUS
  <2>1. Above \subseteq Nat
    <3>1. \A b \in S : b \in Nat
      OBVIOUS
    <3> QED BY <3>1
  <2>2. PICK b \in Above : \A a \in Above : ~ (<<a, b>> \in OpToRel(<, Nat))
    <3> HIDE DEF Above
    <3> QED BY <2>1, NatLessThanWellFounded, WFMin
  <2>3. b \in S /\ b > m /\ b - 1 \in S /\ b - 1 \in Nat /\ b \in Nat /\ b - 1 # m
    BY <1>3
  <2>4. b - 1 \in Above
    BY <1>3, <2>3
  <2>5. <<b - 1, b>> \in OpToRel(<, Nat)
    BY <2>3 DEF OpToRel
  <2> HIDE DEF Above
  <2> QED BY <2>2, <2>4, <2>5
<1>6. S = 1..(m - 1)
  <2>1. \A b \in S : b \in 1..last /\ b # m /\ ~ (b > m)
    BY <1>3, <1>5
  <2>2. \A b \in S : b \in 1..(m - 1)
    BY <1>3, <2>1
  <2> QED BY <1>4, <2>2
<1>7. Cardinality(1..(m - 1)) = m - 1
  <2>1. m - 1 \in Nat
    BY <1>3
  <2>2. Cardinality(1..(m - 1)) = IF 1 > m - 1 THEN 0 ELSE m - 1 - 1 + 1
    BY <2>1, FS_Interval
  <2> QED BY <2>1, <2>2
<1> QED BY <1>3, <1>6, <1>7

\* The innermost scope that has a name.
LEMMA HomeIs ==
    ASSUME NEW s, Len(s) \in Nat, NEW n
    PROVE  /\ Home(s, n) \in 0..Len(s)
           /\ Home(s, n) = 0 => \A i \in 1..Len(s) : n \notin DOMAIN s[i]
           /\ Home(s, n) # 0 => /\ n \in DOMAIN s[Home(s, n)]
                                /\ \A i \in 1..Len(s) : n \in DOMAIN s[i] => i <= Home(s, n)
<1> DEFINE at == {i \in 1..Len(s) : n \in DOMAIN s[i]}
<1>1. CASE at = {}
  <2>1. Home(s, n) = 0
    BY <1>1 DEF Home
  <2> QED BY <1>1, <2>1
<1>2. CASE at # {}
  <2> DEFINE Below == {Len(s) - i : i \in at}
  <2>1. Below \subseteq Nat /\ Below # {}
    BY <1>2
  <2>2. PICK d \in Below : \A b \in Below : ~ (<<b, d>> \in OpToRel(<, Nat))
    <3> HIDE DEF Below
    <3> QED BY <2>1, NatLessThanWellFounded, WFMin
  <2>3. \A b \in Below : ~ (b < d)
    <3> HIDE DEF Below
    <3> QED BY <2>1, <2>2 DEF OpToRel
  <2>4. PICK h \in at : d = Len(s) - h
    OBVIOUS
  <2>5. \A j \in at : j <= h
    <3>1. \A j \in at : Len(s) - j \in Below /\ j \in Int
      OBVIOUS
    <3>2. h \in Int
      OBVIOUS
    <3> HIDE DEF at, Below
    <3> QED BY <2>3, <2>4, <3>1, <3>2
  <2>6. Home(s, n) = CHOOSE i \in at : \A j \in at : j <= i
    BY <1>2 DEF Home
  <2>7. Home(s, n) \in at /\ \A j \in at : j <= Home(s, n)
    <3> HIDE DEF at
    <3> QED BY <2>4, <2>5, <2>6
  <2> QED BY <2>7
<1> QED BY <1>1, <1>2

\* The scopes of t have the names of those of s.
SameNames(s, t) == Len(t) = Len(s) /\ \A i \in 1..Len(s) : DOMAIN t[i] = DOMAIN s[i]

\* A name stays where it is when the scopes keep their names.
LEMMA HomeStays ==
    ASSUME NEW s, NEW t, Len(s) \in Nat, SameNames(s, t)
    PROVE  \A n : Home(t, n) = Home(s, n)
<1>1. SUFFICES ASSUME NEW n PROVE Home(t, n) = Home(s, n)
  OBVIOUS
<1>2. Len(t) = Len(s) /\ \A i \in 1..Len(s) : DOMAIN t[i] = DOMAIN s[i]
  BY DEF SameNames
<1>3. /\ Home(s, n) \in 0..Len(s)
      /\ Home(s, n) = 0 => \A i \in 1..Len(s) : n \notin DOMAIN s[i]
      /\ Home(s, n) # 0 => /\ n \in DOMAIN s[Home(s, n)]
                           /\ \A i \in 1..Len(s) : n \in DOMAIN s[i] => i <= Home(s, n)
  BY HomeIs
<1>4. /\ Home(t, n) \in 0..Len(t)
      /\ Home(t, n) = 0 => \A i \in 1..Len(t) : n \notin DOMAIN t[i]
      /\ Home(t, n) # 0 => /\ n \in DOMAIN t[Home(t, n)]
                           /\ \A i \in 1..Len(t) : n \in DOMAIN t[i] => i <= Home(t, n)
  BY <1>2, HomeIs
<1> QED BY <1>2, <1>3, <1>4

-----------------------------------------------------------------------------
(* The blocks, one after the other.                                        *)

\* A block's scopes are one or two of each, after those that were there.
LEMMA BlockStarts ==
    ASSUME ScopesInv, NEW b \in 1..Len(blocks)
    PROVE  /\ blocks[b].inferred \in Nat /\ blocks[b].generated \in Nat
           /\ Inferred(blocks[b].kind) \in 1..2 /\ Generated(blocks[b].kind) \in 1..2
           /\ blocks[b].inferred + Inferred(blocks[b].kind) \in Nat
           /\ blocks[b].generated + Generated(blocks[b].kind) \in Nat
           /\ blocks[b].kind \in Kinds \cup {"else"}
<1>1. blocks \in Seq(BlockTypes)
  BY DEF ScopesInv, BlocksNest
<1>2. blocks[b] \in BlockTypes
  BY <1>1
<1>3. /\ blocks[b].inferred \in Nat /\ blocks[b].generated \in Nat
      /\ blocks[b].kind \in Kinds \cup {"else"}
  BY <1>2 DEF BlockTypes
<1>4. Inferred(blocks[b].kind) \in 1..2 /\ Generated(blocks[b].kind) \in 1..2
  BY DEF Inferred, Generated
<1> QED BY <1>3, <1>4

\* The outermost block is the function's.
LEMMA FirstBlock ==
    ASSUME ScopesInv, blocks # <<>>
    PROVE  /\ 1 \in 1..Len(blocks) /\ Len(blocks) \in 1..Len(blocks)
           /\ blocks[1].inferred = 1 + left /\ blocks[1].generated = 0 /\ blocks[1].kind = "func"
<1>1. Len(blocks) \in Nat /\ Len(blocks) > 0
  BY Depths
<1> QED BY <1>1 DEF ScopesInv, BlocksNest

\* The innermost block's scopes are the last ones.
LEMMA TopBlock ==
    ASSUME ScopesInv, blocks # <<>>
    PROVE  /\ InferDepth = blocks[Len(blocks)].inferred + Inferred(blocks[Len(blocks)].kind)
           /\ GoDepth = blocks[Len(blocks)].generated + Generated(blocks[Len(blocks)].kind)
           /\ Len(blocks) \in 1..Len(blocks) /\ Last(blocks) = blocks[Len(blocks)]
<1>1. Len(blocks) \in Nat /\ Len(blocks) > 0
  BY Depths
<1> QED BY <1>1 DEF InferDepth, GoDepth, Last

\* A block's scopes are followed by those of the block in it.
LEMMA NextBlock ==
    ASSUME ScopesInv, NEW a \in 1..Len(blocks), NEW b \in 1..Len(blocks), b = a + 1
    PROVE  /\ blocks[b].inferred = blocks[a].inferred + Inferred(blocks[a].kind)
           /\ blocks[b].generated = blocks[a].generated + Generated(blocks[a].kind)
           /\ blocks[b].kind # "func"
<1>1. b # 1 /\ b - 1 = a
  OBVIOUS
<1>2. /\ blocks[b].inferred = blocks[b - 1].inferred + Inferred(blocks[b - 1].kind)
      /\ blocks[b].generated = blocks[b - 1].generated + Generated(blocks[b - 1].kind)
      /\ blocks[b].kind # "func"
  BY <1>1 DEF ScopesInv, BlocksNest
<1> QED BY <1>1, <1>2

\* Of two blocks the outer one's scopes are before those of the inner one.
LEMMA BlockOrder ==
    ASSUME ScopesInv, NEW a \in 1..Len(blocks), NEW b \in 1..Len(blocks), a < b
    PROVE  /\ blocks[a].inferred + Inferred(blocks[a].kind) <= blocks[b].inferred
           /\ blocks[a].generated + Generated(blocks[a].kind) <= blocks[b].generated
<1> DEFINE d == b - a
           Bad == {c \in 1..Len(blocks) : /\ a < c
                     /\ ~ (/\ blocks[a].inferred + Inferred(blocks[a].kind) <= blocks[c].inferred
                           /\ blocks[a].generated + Generated(blocks[a].kind) <= blocks[c].generated)}
<1>1. SUFFICES ASSUME b \in Bad PROVE FALSE
  OBVIOUS
<1>2. Bad \subseteq Nat /\ Bad # {}
  BY <1>1
<1>3. PICK c \in Bad : \A x \in Bad : ~ (<<x, c>> \in OpToRel(<, Nat))
  <2> HIDE DEF Bad
  <2> QED BY <1>2, NatLessThanWellFounded, WFMin
<1> DEFINE x == c - 1
<1>4. x \in 1..Len(blocks) /\ c \in 1..Len(blocks) /\ c = x + 1 /\ a <= x /\ x < c /\ x \in Nat /\ c \in Nat
  <2>1. c \in 1..Len(blocks) /\ a < c
    OBVIOUS
  <2> HIDE DEF Bad
  <2> QED BY <2>1, Depths
<1>5. x \notin Bad
  <2> HIDE DEF Bad, x
  <2> QED BY <1>3, <1>4 DEF OpToRel
<1> HIDE DEF x
<1>6. /\ blocks[c].inferred = blocks[x].inferred + Inferred(blocks[x].kind)
      /\ blocks[c].generated = blocks[x].generated + Generated(blocks[x].kind)
  BY <1>4, NextBlock
<1>7. /\ blocks[x].inferred \in Nat /\ blocks[x].generated \in Nat
      /\ Inferred(blocks[x].kind) \in 1..2 /\ Generated(blocks[x].kind) \in 1..2
      /\ blocks[a].inferred \in Nat /\ blocks[a].generated \in Nat
      /\ Inferred(blocks[a].kind) \in 1..2 /\ Generated(blocks[a].kind) \in 1..2
  <2>1. /\ blocks[x].inferred \in Nat /\ blocks[x].generated \in Nat
        /\ Inferred(blocks[x].kind) \in 1..2 /\ Generated(blocks[x].kind) \in 1..2
    BY <1>4, BlockStarts
  <2>2. /\ blocks[a].inferred \in Nat /\ blocks[a].generated \in Nat
        /\ Inferred(blocks[a].kind) \in 1..2 /\ Generated(blocks[a].kind) \in 1..2
    BY BlockStarts
  <2> QED BY <2>1, <2>2
<1>8. CASE a = x
  <2>1. /\ blocks[a].inferred + Inferred(blocks[a].kind) <= blocks[c].inferred
        /\ blocks[a].generated + Generated(blocks[a].kind) <= blocks[c].generated
    <3> HIDE DEF Bad
    <3> QED BY <1>6, <1>7, <1>8
  <2> QED BY <1>3, <2>1
<1>9. CASE a < x
  <2>1. /\ blocks[a].inferred + Inferred(blocks[a].kind) <= blocks[x].inferred
        /\ blocks[a].generated + Generated(blocks[a].kind) <= blocks[x].generated
    BY <1>4, <1>5, <1>9
  <2>2. /\ blocks[a].inferred + Inferred(blocks[a].kind) <= blocks[c].inferred
        /\ blocks[a].generated + Generated(blocks[a].kind) <= blocks[c].generated
    <3>1. \A p, q, r \in Nat, s \in 1..2 : p <= q /\ r = q + s => p <= r
      OBVIOUS
    <3>2. blocks[c].inferred \in Nat /\ blocks[c].generated \in Nat
      BY <1>4, BlockStarts
    <3> DEFINE p == blocks[a].inferred + Inferred(blocks[a].kind)
               o == blocks[a].generated + Generated(blocks[a].kind)
    <3>3. p \in Nat /\ o \in Nat
      BY <1>7
    <3> HIDE DEF Bad, p, o
    <3>4. p <= blocks[x].inferred /\ o <= blocks[x].generated
      BY <2>1 DEF p, o
    <3>5. p <= blocks[c].inferred
      BY <1>6, <1>7, <3>1, <3>2, <3>3, <3>4
    <3>6. o <= blocks[c].generated
      BY <1>6, <1>7, <3>1, <3>2, <3>3, <3>4
    <3> QED BY <3>5, <3>6 DEF p, o
  <2> QED BY <1>3, <2>2
<1> QED BY <1>4, <1>8, <1>9

\* The blocks that begin before a scope are the first ones.
LEMMA BlocksBefore ==
    ASSUME ScopesInv, NEW i \in Nat
    PROVE  /\ BlockInferred(i) \in 0..Len(blocks)
           /\ \A b \in 1..Len(blocks) : b <= BlockInferred(i) <=> blocks[b].inferred < i
           /\ BlockGenerated(i) \in 0..Len(blocks)
           /\ \A b \in 1..Len(blocks) : b <= BlockGenerated(i) <=> blocks[b].generated < i
<1> DEFINE last == Len(blocks)
           S == {b \in 1..last : blocks[b].inferred < i}
           T == {b \in 1..last : blocks[b].generated < i}
<1>1. last \in Nat /\ DOMAIN blocks = 1..last
  <2>1. blocks \in Seq(BlockTypes)
    BY DEF ScopesInv, BlocksNest
  <2> QED BY <2>1
<1>2. ASSUME NEW b \in 1..last, b > 1
      PROVE  /\ b - 1 \in 1..last
             /\ blocks[b].inferred < i => blocks[b - 1].inferred < i
             /\ blocks[b].generated < i => blocks[b - 1].generated < i
  <2> DEFINE a == b - 1
  <2>1. a \in 1..last /\ a < b
    BY <1>1, <1>2
  <2> HIDE DEF a
  <2>2. /\ blocks[a].inferred + Inferred(blocks[a].kind) <= blocks[b].inferred
        /\ blocks[a].generated + Generated(blocks[a].kind) <= blocks[b].generated
    BY <2>1, BlockOrder
  <2>3. /\ blocks[a].inferred \in Nat /\ blocks[a].generated \in Nat
        /\ Inferred(blocks[a].kind) \in 1..2 /\ Generated(blocks[a].kind) \in 1..2
    BY <2>1, BlockStarts
  <2>4. blocks[b].inferred \in Nat /\ blocks[b].generated \in Nat
    BY BlockStarts
  <2>5. /\ blocks[b].inferred < i => blocks[a].inferred < i
        /\ blocks[b].generated < i => blocks[a].generated < i
    <3> HIDE DEF S, T, last
    <3> QED BY <2>2, <2>3, <2>4
  <2> QED BY <2>1, <2>5 DEF a
<1>3. /\ \A b \in S : b > 1 => b - 1 \in S
      /\ \A b \in T : b > 1 => b - 1 \in T
  BY <1>2
<1>4. S \in SUBSET (1..last) /\ T \in SUBSET (1..last)
  OBVIOUS
<1>5. BlockInferred(i) = Cardinality(S) /\ BlockGenerated(i) = Cardinality(T)
  BY <1>1 DEF BlockInferred, BlockGenerated
<1>6. /\ Cardinality(S) \in 0..last /\ S = 1..Cardinality(S)
      /\ Cardinality(T) \in 0..last /\ T = 1..Cardinality(T)
  <2> HIDE DEF S, T
  <2> QED BY <1>1, <1>3, <1>4, NoGap
<1>7. \A b \in 1..last, c \in 0..last : b \in 1..c <=> b <= c
  BY <1>1
<1>8. /\ \A b \in 1..last : b \in S <=> blocks[b].inferred < i
      /\ \A b \in 1..last : b \in T <=> blocks[b].generated < i
  OBVIOUS
<1> HIDE DEF S, T, last
<1> QED BY <1>5, <1>6, <1>7, <1>8 DEF last

\* The block of a scope.
LEMMA CheckersBlock ==
    ASSUME ScopesInv, NEW i \in 1..InferDepth, NEW b, b = BlockInferred(i)
    PROVE  /\ b \in 0..Len(blocks) /\ (b = 0 => i <= 1 + left)
           /\ b # 0 => /\ b \in 1..Len(blocks) /\ blocks[b].inferred < i
                       /\ i <= blocks[b].inferred + Inferred(blocks[b].kind)
<1>1. Len(blocks) \in Nat /\ InferDepth \in Nat /\ left \in Nat /\ i \in Nat
  BY Depths
<1>2. b \in 0..Len(blocks) /\ \A c \in 1..Len(blocks) : c <= b <=> blocks[c].inferred < i
  BY <1>1, BlocksBefore
<1>3. CASE b = 0
  <2>1. CASE blocks = <<>>
    BY <1>1, <1>2, <1>3, <2>1 DEF InferDepth
  <2>2. CASE blocks # <<>>
    <3>1. 1 \in 1..Len(blocks) /\ ~ (1 <= b) /\ blocks[1].inferred = 1 + left
      BY <1>3, <2>2, FirstBlock
    <3> QED BY <1>1, <1>2, <1>3, <3>1
  <2> QED BY <2>1, <2>2
<1>4. CASE b # 0
  <2>1. b \in 1..Len(blocks) /\ b <= b /\ blocks # <<>>
    BY <1>1, <1>2, <1>4
  <2>2. blocks[b].inferred < i /\ blocks[b].inferred \in Nat /\ Inferred(blocks[b].kind) \in 1..2
    BY <1>2, <2>1, BlockStarts
  <2>3. CASE b = Len(blocks)
    BY <1>1, <2>1, <2>2, <2>3, TopBlock
  <2>4. CASE b # Len(blocks)
    <3> DEFINE c == b + 1
    <3>1. c \in 1..Len(blocks) /\ ~ (c <= b) /\ c = b + 1
      BY <1>1, <2>1, <2>4
    <3> HIDE DEF c
    <3>2. ~ (blocks[c].inferred < i)
      BY <1>2, <3>1
    <3>3. blocks[c].inferred = blocks[b].inferred + Inferred(blocks[b].kind)
      BY <2>1, <3>1, NextBlock
    <3> QED BY <1>1, <2>1, <2>2, <3>2, <3>3
  <2> QED BY <2>3, <2>4
<1> QED BY <1>2, <1>3, <1>4

\* The block that a scope of Go belongs to.
LEMMA GosBlock ==
    ASSUME ScopesInv, NEW i \in 1..GoDepth, NEW b, b = BlockGenerated(i)
    PROVE  /\ b \in 1..Len(blocks) /\ blocks[b].generated < i
           /\ i <= blocks[b].generated + Generated(blocks[b].kind)
<1>1. Len(blocks) \in Nat /\ GoDepth \in Nat /\ i \in Nat /\ i > 0
  BY Depths
<1>2. b \in 0..Len(blocks) /\ \A c \in 1..Len(blocks) : c <= b <=> blocks[c].generated < i
  BY <1>1, BlocksBefore
<1>3. blocks # <<>>
  BY <1>1 DEF GoDepth
<1>4. b # 0
  <2>1. 1 \in 1..Len(blocks) /\ blocks[1].generated = 0
    BY <1>3, FirstBlock
  <2> QED BY <1>1, <1>2, <2>1
<1>5. b \in 1..Len(blocks) /\ b <= b
  BY <1>1, <1>2, <1>4
<1>6. blocks[b].generated < i /\ blocks[b].generated \in Nat /\ Generated(blocks[b].kind) \in 1..2
  BY <1>2, <1>5, BlockStarts
<1>7. CASE b = Len(blocks)
  BY <1>1, <1>3, <1>5, <1>6, <1>7, TopBlock
<1>8. CASE b # Len(blocks)
  <2> DEFINE c == b + 1
  <2>1. c \in 1..Len(blocks) /\ ~ (c <= b) /\ c = b + 1
    BY <1>1, <1>5, <1>8
  <2> HIDE DEF c
  <2>2. ~ (blocks[c].generated < i)
    BY <1>2, <2>1
  <2>3. blocks[c].generated = blocks[b].generated + Generated(blocks[b].kind)
    BY <1>5, <2>1, NextBlock
  <2> QED BY <1>1, <1>5, <1>6, <2>2, <2>3
<1> QED BY <1>7, <1>8

-----------------------------------------------------------------------------
(* What checker and Go have in the scopes of a block.                      *)

\* The names of n scopes, after the first lo.
Span(s, lo, n) == UNION {DOMAIN s[i] : i \in (lo + 1)..(lo + n)}

\* The block has the same names in the checker's scopes s and in Go's, t.  Of the bindings of
\* several patterns nothing is generated, and the checker does not declare a closure's
\* results.  Where both have a scope for the header, the header's names are the same too.
Agrees(block, s, t) ==
    LET checkers == Span(s, block.inferred, Inferred(block.kind))
        gos == Span(t, block.generated, Generated(block.kind))
    IN /\ block.kind # "closure" => gos \subseteq checkers
       /\ block.kind # "arm" => checkers \subseteq gos
       /\ Generated(block.kind) = 2 =>
            /\ DOMAIN s[block.inferred + 1] = DOMAIN t[block.generated + 1]
            /\ DOMAIN s[block.inferred + 2] = DOMAIN t[block.generated + 2]

NamesAgree == \A b \in 1..Len(blocks) : Agrees(blocks[b], infer.scopes, go.scopes)

\* The file is read without objection.
Clean == infer.errors = <<>> /\ go.refused = {} /\ misread = {}

Agree ==
    Clean => left = 0 /\ DOMAIN infer.scopes[1] = {} /\ NamesAgree

\* A name that the scopes of block b, or of one within it, have.
CheckerHas(s, b, n) == \E i \in 1..Len(s) : n \in DOMAIN s[i] /\ blocks[b].inferred < i
GoHas(t, b, n) == \E i \in 1..Len(t) : n \in DOMAIN t[i] /\ blocks[b].generated < i

\* What a block declares for one of the two, the other one has there or within.
Faces(b, s, t) ==
    /\ blocks[b].kind # "arm" =>
        \A n : \A i \in 1..Len(s) :
            n \in DOMAIN s[i] /\ blocks[b].inferred < i
              /\ i <= blocks[b].inferred + Inferred(blocks[b].kind) => GoHas(t, b, n)
    /\ blocks[b].kind # "closure" =>
        \A n : \A i \in 1..Len(t) :
            n \in DOMAIN t[i] /\ blocks[b].generated < i
              /\ i <= blocks[b].generated + Generated(blocks[b].kind) => CheckerHas(s, b, n)

\* A name that both know, each in a block of its own, is declared by one of them only, in the
\* inner block.
LEMMA Explained ==
    ASSUME ScopesInv, left = 0, NEW s, NEW t, NEW n, DOMAIN s[1] = {},
           Len(s) \in 0..InferDepth, Len(t) \in 0..GoDepth, \A b \in 1..Len(blocks) : Faces(b, s, t),
           Home(s, n) # 0, Home(t, n) # 0, BlockInferred(Home(s, n)) # BlockGenerated(Home(t, n))
    PROVE  \E b \in {BlockInferred(Home(s, n)), BlockGenerated(Home(t, n))} :
                b \in 1..Len(blocks) /\ blocks[b].kind \in {"closure", "arm"}
<1> DEFINE i == Home(s, n)
           j == Home(t, n)
           a == BlockInferred(i)
           b == BlockGenerated(j)
<1>1. InferDepth \in Nat /\ GoDepth \in Nat /\ Len(blocks) \in Nat
  BY Depths
<1>2. /\ i \in 1..Len(s) /\ n \in DOMAIN s[i] /\ i # 1
      /\ \A k \in 1..Len(s) : n \in DOMAIN s[k] => k <= i
  <2>1. /\ Home(s, n) \in 0..Len(s)
        /\ Home(s, n) # 0 => /\ n \in DOMAIN s[Home(s, n)]
                             /\ \A k \in 1..Len(s) : n \in DOMAIN s[k] => k <= Home(s, n)
    BY <1>1, HomeIs
  <2> QED BY <1>1, <2>1
<1>3. /\ j \in 1..Len(t) /\ n \in DOMAIN t[j]
      /\ \A k \in 1..Len(t) : n \in DOMAIN t[k] => k <= j
  <2>1. /\ Home(t, n) \in 0..Len(t)
        /\ Home(t, n) # 0 => /\ n \in DOMAIN t[Home(t, n)]
                             /\ \A k \in 1..Len(t) : n \in DOMAIN t[k] => k <= Home(t, n)
    BY <1>1, HomeIs
  <2> QED BY <1>1, <2>1
<1> HIDE DEF i, j
<1>4. i \in 1..InferDepth /\ i \in Nat /\ j \in 1..GoDepth /\ j \in Nat
  BY <1>1, <1>2, <1>3
<1>5. a \in 1..Len(blocks) /\ blocks[a].inferred < i /\ i <= blocks[a].inferred + Inferred(blocks[a].kind)
  <2>1. /\ a \in 0..Len(blocks) /\ (a = 0 => i <= 1 + left)
        /\ a # 0 => /\ a \in 1..Len(blocks) /\ blocks[a].inferred < i
                    /\ i <= blocks[a].inferred + Inferred(blocks[a].kind)
    BY <1>4, CheckersBlock
  <2>2. a # 0
    BY <1>2, <1>4, <2>1
  <2> QED BY <2>1, <2>2
<1>6. b \in 1..Len(blocks) /\ blocks[b].generated < j /\ j <= blocks[b].generated + Generated(blocks[b].kind)
  BY <1>4, GosBlock
<1>7. \A c \in 1..Len(blocks) : c <= a <=> blocks[c].inferred < i
  BY <1>4, BlocksBefore
<1>8. \A c \in 1..Len(blocks) : c <= b <=> blocks[c].generated < j
  BY <1>4, BlocksBefore
<1>9. a # b
  BY DEF i, j
<1> HIDE DEF a, b
<1>10. CASE b < a
  <2>1. SUFFICES blocks[a].kind = "arm"
    BY <1>5 DEF a, i
  <2>2. SUFFICES ASSUME blocks[a].kind # "arm" PROVE FALSE
    OBVIOUS
  <2>3. GoHas(t, a, n)
    BY <1>2, <1>5, <2>2 DEF Faces
  <2>4. PICK k \in 1..Len(t) : n \in DOMAIN t[k] /\ blocks[a].generated < k
    BY <2>3 DEF GoHas
  <2>5. k <= j /\ k \in Nat
    BY <1>3, <2>4
  <2>6. blocks[a].generated < j
    <3>1. blocks[a].generated \in Nat
      BY <1>5, BlockStarts
    <3> QED BY <1>4, <2>4, <2>5, <3>1
  <2>7. a <= b
    BY <1>5, <1>8, <2>6
  <2> QED BY <1>5, <1>6, <1>10, <2>7
<1>11. CASE a < b
  <2>1. SUFFICES blocks[b].kind = "closure"
    BY <1>6 DEF b, j
  <2>2. SUFFICES ASSUME blocks[b].kind # "closure" PROVE FALSE
    OBVIOUS
  <2>3. CheckerHas(s, b, n)
    BY <1>3, <1>6, <2>2 DEF Faces
  <2>4. PICK k \in 1..Len(s) : n \in DOMAIN s[k] /\ blocks[b].inferred < k
    BY <2>3 DEF CheckerHas
  <2>5. k <= i /\ k \in Nat
    BY <1>2, <2>4
  <2>6. blocks[b].inferred < i
    <3>1. blocks[b].inferred \in Nat
      BY <1>6, BlockStarts
    <3> QED BY <1>4, <2>4, <2>5, <3>1
  <2>7. b <= a
    BY <1>6, <1>7, <2>6
  <2> QED BY <1>5, <1>6, <1>11, <2>7
<1> QED BY <1>5, <1>6, <1>9, <1>10, <1>11

\* The stacks have the scopes that ScopesInv says.
LEMMA Stacks ==
    ASSUME ScopesInv
    PROVE  /\ infer.scopes \in Seq(ScopesOf(Entries)) /\ Len(infer.scopes) = InferDepth
           /\ go.scopes \in Seq(ScopesOf(GoEntries)) /\ Len(go.scopes) = GoDepth
           /\ InferDepth \in Nat \ {0} /\ GoDepth \in Nat
<1>1. InferDepth \in Nat \ {0} /\ GoDepth \in Nat
  BY Depths
<1> QED BY <1>1 DEF ScopesInv, Checkers, Compilers

\* The scopes of a block are there.
LEMMA BlockWithin ==
    ASSUME ScopesInv, NEW b \in 1..Len(blocks)
    PROVE  /\ blocks[b].inferred + Inferred(blocks[b].kind) <= InferDepth
           /\ blocks[b].generated + Generated(blocks[b].kind) <= GoDepth
           /\ b # Len(blocks) =>
                /\ blocks[b].inferred + Inferred(blocks[b].kind) <= Last(blocks).inferred
                /\ blocks[b].generated + Generated(blocks[b].kind) <= Last(blocks).generated
<1> DEFINE top == Len(blocks)
           p == blocks[b].inferred + Inferred(blocks[b].kind)
           o == blocks[b].generated + Generated(blocks[b].kind)
<1>1. blocks # <<>> /\ top \in 1..Len(blocks) /\ Last(blocks) = blocks[top]
  BY Depths DEF Last
<1>2. /\ InferDepth = blocks[top].inferred + Inferred(blocks[top].kind)
      /\ GoDepth = blocks[top].generated + Generated(blocks[top].kind)
  BY <1>1, TopBlock
<1>3. /\ blocks[top].inferred \in Nat /\ blocks[top].generated \in Nat
      /\ Inferred(blocks[top].kind) \in 1..2 /\ Generated(blocks[top].kind) \in 1..2
  BY <1>1, BlockStarts
<1>4. p \in Nat /\ o \in Nat
  BY BlockStarts
<1>5. CASE b = top
  BY <1>1, <1>2, <1>4, <1>5
<1>6. CASE b # top
  <2>1. b < top
    BY <1>1, <1>6
  <2>2. p <= blocks[top].inferred /\ o <= blocks[top].generated
    BY <1>1, <2>1, BlockOrder
  <2> HIDE DEF p, o, top
  <2>3. p <= InferDepth /\ o <= GoDepth
    BY <1>2, <1>3, <1>4, <2>2
  <2> QED BY <1>1, <2>2, <2>3 DEF p, o, top
<1> QED BY <1>5, <1>6

\* Each block faces what the other reader has.
LEMMA FacesNow ==
    ASSUME ScopesInv, NamesAgree, NEW b \in 1..Len(blocks)
    PROVE  Faces(b, infer.scopes, go.scopes)
<1> DEFINE p == blocks[b].inferred
           q == blocks[b].generated
           v == Inferred(blocks[b].kind)
           w == Generated(blocks[b].kind)
<1>1. /\ blocks[b].kind # "closure" => Span(go.scopes, q, w) \subseteq Span(infer.scopes, p, v)
      /\ blocks[b].kind # "arm" => Span(infer.scopes, p, v) \subseteq Span(go.scopes, q, w)
  BY DEF NamesAgree, Agrees
<1>2. p \in Nat /\ q \in Nat /\ v \in Nat /\ w \in Nat
  <2>1. p \in Nat /\ q \in Nat
    BY BlockStarts
  <2>2. v \in Nat /\ w \in Nat
    BY DEF Inferred, Generated
  <2> QED BY <2>1, <2>2
<1>3. p + v <= InferDepth /\ q + w <= GoDepth
  BY BlockWithin
<1>4. Len(infer.scopes) = InferDepth /\ Len(go.scopes) = GoDepth /\ InferDepth \in Nat /\ GoDepth \in Nat
  BY Stacks
<1>5. ASSUME blocks[b].kind # "arm", NEW n, NEW i \in 1..Len(infer.scopes),
             n \in DOMAIN infer.scopes[i], p < i, i <= p + v
      PROVE  GoHas(go.scopes, b, n)
  <2>1. n \in Span(infer.scopes, p, v)
    <3> HIDE DEF p, v
    <3> QED BY <1>2, <1>4, <1>5 DEF Span
  <2>2. n \in Span(go.scopes, q, w)
    BY <1>1, <1>5, <2>1
  <2> HIDE DEF p, q, v, w
  <2>3. PICK j \in (q + 1)..(q + w) : n \in DOMAIN go.scopes[j]
    BY <2>2 DEF Span
  <2>4. j \in 1..Len(go.scopes) /\ q < j
    BY <1>2, <1>3, <1>4
  <2> QED BY <2>3, <2>4 DEF GoHas, q
<1>6. ASSUME blocks[b].kind # "closure", NEW n, NEW i \in 1..Len(go.scopes),
             n \in DOMAIN go.scopes[i], q < i, i <= q + w
      PROVE  CheckerHas(infer.scopes, b, n)
  <2>1. n \in Span(go.scopes, q, w)
    <3> HIDE DEF q, w
    <3> QED BY <1>2, <1>4, <1>6 DEF Span
  <2>2. n \in Span(infer.scopes, p, v)
    BY <1>1, <1>6, <2>1
  <2> HIDE DEF p, q, v, w
  <2>3. PICK j \in (p + 1)..(p + v) : n \in DOMAIN infer.scopes[j]
    BY <2>2 DEF Span
  <2>4. j \in 1..Len(infer.scopes) /\ p < j
    BY <1>2, <1>3, <1>4
  <2> QED BY <2>3, <2>4 DEF CheckerHas, p
<1> QED BY <1>5, <1>6 DEF Faces

\* The same when the body of a loop is closed.
LEMMA FacesHeader ==
    ASSUME ScopesInv, NamesAgree, blocks # <<>>, Last(blocks).kind = "for",
           NEW s, NEW t, Len(s) = InferDepth - 1, Len(t) = GoDepth - 1,
           \A i \in 1..Len(s) : s[i] = infer.scopes[i], \A i \in 1..Len(t) : t[i] = go.scopes[i],
           NEW b \in 1..Len(blocks)
    PROVE  Faces(b, s, t)
<1> DEFINE p == blocks[b].inferred
           q == blocks[b].generated
           v == Inferred(blocks[b].kind)
           w == Generated(blocks[b].kind)
<1>1. /\ blocks[b].kind # "closure" => Span(go.scopes, q, w) \subseteq Span(infer.scopes, p, v)
      /\ blocks[b].kind # "arm" => Span(infer.scopes, p, v) \subseteq Span(go.scopes, q, w)
      /\ w = 2 => DOMAIN infer.scopes[p + 1] = DOMAIN go.scopes[q + 1]
  BY DEF NamesAgree, Agrees
<1>2. p \in Nat /\ q \in Nat /\ v \in Nat /\ w \in Nat
  <2>1. p \in Nat /\ q \in Nat
    BY BlockStarts
  <2>2. v \in Nat /\ w \in Nat
    BY DEF Inferred, Generated
  <2> QED BY <2>1, <2>2
<1>3. Len(infer.scopes) = InferDepth /\ Len(go.scopes) = GoDepth /\ InferDepth \in Nat \ {0} /\ GoDepth \in Nat
  BY Stacks
<1>4. CASE b # Len(blocks)
  <2>1. p + v <= Last(blocks).inferred /\ q + w <= Last(blocks).generated
    BY <1>4, BlockWithin
  <2>2. /\ InferDepth = Last(blocks).inferred + 2 /\ GoDepth = Last(blocks).generated + 2
        /\ Last(blocks).inferred \in Nat /\ Last(blocks).generated \in Nat
    <3>1. /\ InferDepth = Last(blocks).inferred + Inferred(Last(blocks).kind)
          /\ GoDepth = Last(blocks).generated + Generated(Last(blocks).kind)
          /\ Last(blocks) = blocks[Len(blocks)] /\ Len(blocks) \in 1..Len(blocks)
      BY TopBlock
    <3>2. Last(blocks).inferred \in Nat /\ Last(blocks).generated \in Nat
      BY <3>1, BlockStarts
    <3>3. Inferred(Last(blocks).kind) = 2 /\ Generated(Last(blocks).kind) = 2
      BY DEF Inferred, Generated
    <3> QED BY <3>1, <3>2, <3>3
  <2> HIDE DEF p, q, v, w
  <2>3. p + v <= Len(s) /\ q + w <= Len(t)
    <3>1. Len(s) = Last(blocks).inferred + 1 /\ Len(t) = Last(blocks).generated + 1
      BY <2>2
    <3>2. p + v <= Len(s)
      BY <1>2, <2>1, <2>2, <3>1
    <3>3. q + w <= Len(t)
      BY <1>2, <2>1, <2>2, <3>1
    <3> QED BY <3>2, <3>3
  <2>4. Len(s) \in Nat /\ Len(t) \in Nat
    BY <1>3, <2>2
  <2>5. ASSUME blocks[b].kind # "arm", NEW n, NEW i \in 1..Len(s), n \in DOMAIN s[i], p < i, i <= p + v
        PROVE  GoHas(t, b, n)
    <3>1. n \in DOMAIN infer.scopes[i] /\ i \in (p + 1)..(p + v)
      BY <1>2, <2>4, <2>5
    <3>2. n \in Span(go.scopes, q, w)
      BY <1>1, <2>5, <3>1 DEF Span
    <3>3. PICK j \in (q + 1)..(q + w) : n \in DOMAIN go.scopes[j]
      BY <3>2 DEF Span
    <3>4. j \in 1..Len(t) /\ q < j
      BY <1>2, <2>3, <2>4
    <3> QED BY <3>3, <3>4 DEF GoHas, q
  <2>6. ASSUME blocks[b].kind # "closure", NEW n, NEW i \in 1..Len(t), n \in DOMAIN t[i], q < i, i <= q + w
        PROVE  CheckerHas(s, b, n)
    <3>1. n \in DOMAIN go.scopes[i] /\ i \in (q + 1)..(q + w)
      BY <1>2, <2>4, <2>6
    <3>2. n \in Span(infer.scopes, p, v)
      BY <1>1, <2>6, <3>1 DEF Span
    <3>3. PICK j \in (p + 1)..(p + v) : n \in DOMAIN infer.scopes[j]
      BY <3>2 DEF Span
    <3>4. j \in 1..Len(s) /\ p < j
      BY <1>2, <2>3, <2>4
    <3> QED BY <3>3, <3>4 DEF CheckerHas, p
  <2> QED BY <2>5, <2>6 DEF Faces, p, q, v, w
<1>5. CASE b = Len(blocks)
  <2>1. v = 2 /\ w = 2 /\ Last(blocks) = blocks[b] /\ InferDepth = p + 2 /\ GoDepth = q + 2
    <3>1. /\ InferDepth = p + v /\ GoDepth = q + w /\ Last(blocks) = blocks[b]
      BY <1>5, TopBlock
    <3> QED BY <3>1 DEF Inferred, Generated
  <2>2. DOMAIN infer.scopes[p + 1] = DOMAIN go.scopes[q + 1]
    BY <1>1, <2>1
  <2> HIDE DEF p, q, v, w
  <2>3. Len(s) = p + 1 /\ Len(t) = q + 1 /\ p + 1 \in 1..Len(s) /\ q + 1 \in 1..Len(t)
    BY <1>2, <2>1
  <2>4. s[p + 1] = infer.scopes[p + 1] /\ t[q + 1] = go.scopes[q + 1]
    BY <2>3
  <2>5. ASSUME NEW n, NEW i \in 1..Len(s), n \in DOMAIN s[i], p < i PROVE GoHas(t, b, n)
    <3>1. i = p + 1
      BY <1>2, <2>3, <2>5
    <3>2. n \in DOMAIN t[q + 1] /\ q < q + 1
      BY <1>2, <2>2, <2>4, <2>5, <3>1
    <3> QED BY <2>3, <3>2 DEF GoHas, q
  <2>6. ASSUME NEW n, NEW i \in 1..Len(t), n \in DOMAIN t[i], q < i PROVE CheckerHas(s, b, n)
    <3>1. i = q + 1
      BY <1>2, <2>3, <2>6
    <3>2. n \in DOMAIN s[p + 1] /\ p < p + 1
      BY <1>2, <2>2, <2>4, <2>6, <3>1
    <3> QED BY <2>3, <3>2 DEF CheckerHas, p
  <2> QED BY <2>5, <2>6 DEF Faces, p, q
<1> QED BY <1>4, <1>5

\* The innermost of the scopes of s gets the names N, in t.
Adds(s, t, N) ==
    /\ Len(t) = Len(s) /\ DOMAIN t[Len(s)] = DOMAIN s[Len(s)] \cup N
    /\ \A i \in 1..(Len(s) - 1) : DOMAIN t[i] = DOMAIN s[i]

\* A block with the same names agrees still.
LEMMA AgreesStill ==
    ASSUME NEW block, block.inferred \in Nat, block.generated \in Nat,
           NEW s, NEW t, NEW c, NEW g, Agrees(block, s, t),
           \A i \in 1..(block.inferred + Inferred(block.kind)) : DOMAIN c[i] = DOMAIN s[i],
           \A i \in 1..(block.generated + Generated(block.kind)) : DOMAIN g[i] = DOMAIN t[i]
    PROVE  Agrees(block, c, g)
<1> DEFINE p == block.inferred
           q == block.generated
           v == Inferred(block.kind)
           w == Generated(block.kind)
<1>1. v \in 1..2 /\ w \in 1..2
  BY DEF Inferred, Generated
<1>2. p \in Nat /\ q \in Nat
  OBVIOUS
<1>3. /\ \A i \in 1..(p + v) : DOMAIN c[i] = DOMAIN s[i]
      /\ \A i \in 1..(q + w) : DOMAIN g[i] = DOMAIN t[i]
  OBVIOUS
<1>4. /\ block.kind # "closure" => Span(t, q, w) \subseteq Span(s, p, v)
      /\ block.kind # "arm" => Span(s, p, v) \subseteq Span(t, q, w)
      /\ w = 2 => DOMAIN s[p + 1] = DOMAIN t[q + 1] /\ DOMAIN s[p + 2] = DOMAIN t[q + 2]
  BY DEF Agrees
<1>5. v = 2 \/ w = 1
  BY DEF Inferred, Generated
<1> SUFFICES
      /\ block.kind # "closure" => Span(g, q, w) \subseteq Span(c, p, v)
      /\ block.kind # "arm" => Span(c, p, v) \subseteq Span(g, q, w)
      /\ w = 2 => DOMAIN c[p + 1] = DOMAIN g[q + 1] /\ DOMAIN c[p + 2] = DOMAIN g[q + 2]
  BY DEF Agrees
<1> HIDE DEF p, q, v, w
<1>6. Span(c, p, v) = Span(s, p, v)
  <2>1. \A i \in (p + 1)..(p + v) : DOMAIN c[i] = DOMAIN s[i]
    BY <1>1, <1>2, <1>3
  <2> QED BY <2>1 DEF Span
<1>7. Span(g, q, w) = Span(t, q, w)
  <2>1. \A i \in (q + 1)..(q + w) : DOMAIN g[i] = DOMAIN t[i]
    BY <1>1, <1>2, <1>3
  <2> QED BY <2>1 DEF Span
<1>8. w = 2 => /\ DOMAIN c[p + 1] = DOMAIN s[p + 1] /\ DOMAIN c[p + 2] = DOMAIN s[p + 2]
               /\ DOMAIN g[q + 1] = DOMAIN t[q + 1] /\ DOMAIN g[q + 2] = DOMAIN t[q + 2]
  <2> SUFFICES ASSUME w = 2
               PROVE  /\ p + 1 \in 1..(p + v) /\ p + 2 \in 1..(p + v)
                      /\ q + 1 \in 1..(q + w) /\ q + 2 \in 1..(q + w)
    BY <1>3
  <2> QED BY <1>1, <1>2, <1>5
<1> QED BY <1>4, <1>6, <1>7, <1>8

\* The names of the last scopes, with one more.
LEMMA SpanAdds ==
    ASSUME NEW s, NEW t, NEW N, NEW p \in Nat, NEW v \in Nat, v > 0, NEW k \in Nat, k = p + v,
           Len(s) = k, Adds(s, t, N)
    PROVE  Span(t, p, v) = Span(s, p, v) \cup N
<1>1. DOMAIN t[p + v] = DOMAIN s[p + v] \cup N /\ \A i \in 1..(p + v - 1) : DOMAIN t[i] = DOMAIN s[i]
  BY DEF Adds
<1>2. p + v \in (p + 1)..(p + v) /\ \A i \in (p + 1)..(p + v) : i = p + v \/ i \in 1..(p + v - 1)
  OBVIOUS
<1>3. \A i \in (p + 1)..(p + v) : DOMAIN t[i] \subseteq DOMAIN s[i] \cup N /\ DOMAIN s[i] \subseteq DOMAIN t[i]
  BY <1>1, <1>2
<1>4. Span(t, p, v) \subseteq Span(s, p, v) \cup N
  BY <1>3 DEF Span
<1>5. Span(s, p, v) \subseteq Span(t, p, v)
  BY <1>3 DEF Span
<1>6. N \subseteq Span(t, p, v)
  BY <1>1, <1>2 DEF Span
<1> QED BY <1>4, <1>5, <1>6

\* Both declare the same names in the innermost block.
LEMMA AgreesMore ==
    ASSUME NEW block, block.inferred \in Nat, block.generated \in Nat,
           NEW s, NEW t, NEW c, NEW g, NEW N, Agrees(block, s, t), Adds(s, c, N), Adds(t, g, N),
           Len(s) = block.inferred + Inferred(block.kind), Len(t) = block.generated + Generated(block.kind)
    PROVE  Agrees(block, c, g)
<1> DEFINE p == block.inferred
           q == block.generated
           v == Inferred(block.kind)
           w == Generated(block.kind)
<1>1. v \in 1..2 /\ w \in 1..2 /\ (v = 2 \/ w = 1)
  BY DEF Inferred, Generated
<1>2. p \in Nat /\ q \in Nat /\ Len(s) = p + v /\ Len(t) = q + w
  OBVIOUS
<1>3. /\ block.kind # "closure" => Span(t, q, w) \subseteq Span(s, p, v)
      /\ block.kind # "arm" => Span(s, p, v) \subseteq Span(t, q, w)
      /\ w = 2 => DOMAIN s[p + 1] = DOMAIN t[q + 1] /\ DOMAIN s[p + 2] = DOMAIN t[q + 2]
  BY DEF Agrees
<1> SUFFICES
      /\ block.kind # "closure" => Span(g, q, w) \subseteq Span(c, p, v)
      /\ block.kind # "arm" => Span(c, p, v) \subseteq Span(g, q, w)
      /\ w = 2 => DOMAIN c[p + 1] = DOMAIN g[q + 1] /\ DOMAIN c[p + 2] = DOMAIN g[q + 2]
  BY DEF Agrees
<1> HIDE DEF p, q, v, w
<1>4. Span(c, p, v) = Span(s, p, v) \cup N /\ Span(g, q, w) = Span(t, q, w) \cup N
  <2> DEFINE k == p + v
             l == q + w
  <2>1. /\ k \in Nat /\ k = p + v /\ Len(s) = k /\ v \in Nat /\ v > 0
        /\ l \in Nat /\ l = q + w /\ Len(t) = l /\ w \in Nat /\ w > 0
    BY <1>1, <1>2
  <2> HIDE DEF k, l
  <2>2. Span(c, p, v) = Span(s, p, v) \cup N
    BY <1>1, <1>2, <2>1, SpanAdds
  <2>3. Span(g, q, w) = Span(t, q, w) \cup N
    BY <1>1, <1>2, <2>1, SpanAdds
  <2> QED BY <2>2, <2>3
<1>5. ASSUME w = 2
      PROVE  DOMAIN c[p + 1] = DOMAIN g[q + 1] /\ DOMAIN c[p + 2] = DOMAIN g[q + 2]
  <2>1. Len(s) = p + 2 /\ Len(t) = q + 2 /\ p + 1 \in 1..(Len(s) - 1) /\ q + 1 \in 1..(Len(t) - 1)
    BY <1>1, <1>2, <1>5
  <2>2. DOMAIN c[p + 1] = DOMAIN s[p + 1] /\ DOMAIN g[q + 1] = DOMAIN t[q + 1]
    BY <2>1 DEF Adds
  <2>3. DOMAIN c[p + 2] = DOMAIN s[p + 2] \cup N /\ DOMAIN g[q + 2] = DOMAIN t[q + 2] \cup N
    BY <2>1 DEF Adds
  <2> QED BY <1>3, <1>5, <2>2, <2>3
<1> QED BY <1>3, <1>4, <1>5

\* A statement that declares the same names for both, or none.
LEMMA DeclaresAgree ==
    ASSUME ScopesInv, Clean, Agree, blocks # <<>>, blocks' = blocks, left' = left,
           NEW N, Adds(infer.scopes, infer'.scopes, N), Adds(go.scopes, go'.scopes, N)
    PROVE  Agree'
<1>1. left = 0 /\ DOMAIN infer.scopes[1] = {} /\ NamesAgree
  BY DEF Agree
<1>2. Len(infer.scopes) = InferDepth /\ Len(go.scopes) = GoDepth /\ InferDepth \in Nat /\ GoDepth \in Nat
  BY Stacks
<1> DEFINE top == Len(blocks)
<1>3. /\ top \in 1..Len(blocks) /\ blocks[top].inferred \in Nat /\ blocks[top].generated \in Nat
      /\ Inferred(blocks[top].kind) \in 1..2 /\ Generated(blocks[top].kind) \in 1..2
      /\ InferDepth = blocks[top].inferred + Inferred(blocks[top].kind)
      /\ GoDepth = blocks[top].generated + Generated(blocks[top].kind)
      /\ Last(blocks) = blocks[top]
  <2>1. top \in 1..Len(blocks)
    BY TopBlock
  <2> QED BY <2>1, BlockStarts, TopBlock
<1>4. blocks[top].inferred > left
  BY Depths, <1>3
<1> HIDE DEF top
<1>5. DOMAIN infer'.scopes[1] = {}
  <2>1. 1 \in 1..(Len(infer.scopes) - 1)
    BY <1>1, <1>2, <1>3, <1>4
  <2> QED BY <1>1, <2>1 DEF Adds
<1>6. ASSUME NEW b \in 1..Len(blocks) PROVE Agrees(blocks[b], infer'.scopes, go'.scopes)
  <2>1. Agrees(blocks[b], infer.scopes, go.scopes)
    BY <1>1 DEF NamesAgree
  <2>2. CASE b = top
    <3>1. Agrees(blocks[top], infer'.scopes, go'.scopes)
      BY <1>2, <1>3, <2>1, <2>2, AgreesMore
    <3> QED BY <2>2, <3>1
  <2>3. CASE b # top
    <3> DEFINE p == blocks[b].inferred + Inferred(blocks[b].kind)
               q == blocks[b].generated + Generated(blocks[b].kind)
    <3>1. blocks[b].inferred \in Nat /\ blocks[b].generated \in Nat /\ p \in Nat /\ q \in Nat
      BY BlockStarts
    <3>2. p <= blocks[top].inferred /\ q <= blocks[top].generated
      BY <1>3, <2>3, BlockWithin DEF top
    <3>3. /\ \A i \in 1..p : DOMAIN infer'.scopes[i] = DOMAIN infer.scopes[i]
          /\ \A i \in 1..q : DOMAIN go'.scopes[i] = DOMAIN go.scopes[i]
      <4> HIDE DEF p, q
      <4>1. /\ \A i \in 1..p : i \in 1..(Len(infer.scopes) - 1)
            /\ \A i \in 1..q : i \in 1..(Len(go.scopes) - 1)
        <5>1. \A i \in 1..p : i \in 1..(Len(infer.scopes) - 1)
          BY <1>2, <1>3, <3>1, <3>2
        <5>2. \A i \in 1..q : i \in 1..(Len(go.scopes) - 1)
          BY <1>2, <1>3, <3>1, <3>2
        <5> QED BY <5>1, <5>2
      <4> QED BY <4>1 DEF Adds
    <3> QED BY <2>1, <3>1, <3>3, AgreesStill
  <2> QED BY <2>2, <2>3
<1>7. NamesAgree'
  BY <1>6 DEF NamesAgree
<1> QED BY <1>1, <1>5, <1>7 DEF Agree

\* A block opens within the others.
LEMMA EnterAgrees ==
    ASSUME ScopesInv, Clean, Agree, NEW block, blocks' = Append(blocks, block), left' = left,
           \A i \in 1..InferDepth : DOMAIN infer'.scopes[i] = DOMAIN infer.scopes[i],
           \A i \in 1..GoDepth : DOMAIN go'.scopes[i] = DOMAIN go.scopes[i],
           Agrees(block, infer'.scopes, go'.scopes)
    PROVE  Agree'
<1>1. left = 0 /\ DOMAIN infer.scopes[1] = {} /\ NamesAgree
  BY DEF Agree
<1>2. InferDepth \in Nat \ {0} /\ GoDepth \in Nat
  BY Stacks
<1>3. DOMAIN infer'.scopes[1] = {}
  BY <1>1, <1>2
<1>4. /\ blocks'[Len(blocks) + 1] = block /\ Len(blocks') = Len(blocks) + 1 /\ Len(blocks) \in Nat
      /\ \A b \in 1..Len(blocks) : blocks'[b] = blocks[b]
  <2>1. blocks \in Seq(BlockTypes)
    BY DEF ScopesInv, BlocksNest
  <2> QED BY <2>1, AppendProperties
<1>5. ASSUME NEW b \in 1..Len(blocks) PROVE Agrees(blocks[b], infer'.scopes, go'.scopes)
  <2> DEFINE p == blocks[b].inferred + Inferred(blocks[b].kind)
             q == blocks[b].generated + Generated(blocks[b].kind)
  <2>1. Agrees(blocks[b], infer.scopes, go.scopes)
    BY <1>1 DEF NamesAgree
  <2>2. blocks[b].inferred \in Nat /\ blocks[b].generated \in Nat /\ p \in Nat /\ q \in Nat
    BY BlockStarts
  <2>3. p <= InferDepth /\ q <= GoDepth
    BY BlockWithin
  <2>4. /\ \A i \in 1..p : DOMAIN infer'.scopes[i] = DOMAIN infer.scopes[i]
        /\ \A i \in 1..q : DOMAIN go'.scopes[i] = DOMAIN go.scopes[i]
    <3> HIDE DEF p, q
    <3> QED BY <1>2, <2>2, <2>3
  <2> QED BY <2>1, <2>2, <2>4, AgreesStill
<1>6. NamesAgree'
  <2>1. \A b \in 1..Len(blocks') : b = Len(blocks) + 1 \/ b \in 1..Len(blocks)
    BY <1>4
  <2> QED BY <1>4, <1>5, <2>1 DEF NamesAgree
<1> QED BY <1>1, <1>3, <1>6 DEF Agree

\* The innermost block ends.
LEMMA LeaveAgrees ==
    ASSUME ScopesInv, Clean, Agree, blocks # <<>>, blocks' = But(blocks, 1), left' = left,
           \A i \in 1..Last(blocks).inferred : DOMAIN infer'.scopes[i] = DOMAIN infer.scopes[i],
           \A i \in 1..Last(blocks).generated : DOMAIN go'.scopes[i] = DOMAIN go.scopes[i]
    PROVE  Agree'
<1>1. left = 0 /\ DOMAIN infer.scopes[1] = {} /\ NamesAgree
  BY DEF Agree
<1>2. Last(blocks).inferred \in Nat /\ Last(blocks).inferred > left /\ Last(blocks).generated \in Nat
  BY Depths
<1>3. DOMAIN infer'.scopes[1] = {}
  BY <1>1, <1>2
<1>4. Len(blocks') = Len(blocks) - 1 /\ Len(blocks) \in Nat /\ \A b \in 1..(Len(blocks) - 1) : blocks'[b] = blocks[b]
  <2>1. blocks \in Seq(BlockTypes) /\ Len(blocks) \in Nat /\ Len(blocks) > 0
    BY Depths DEF ScopesInv, BlocksNest
  <2>2. 1 \in 0..Len(blocks)
    BY <2>1
  <2>3. Len(But(blocks, 1)) = Len(blocks) - 1
    BY <2>1, <2>2, SomeDropped
  <2>4. \A b \in 1..(Len(blocks) - 1) : But(blocks, 1)[b] = blocks[b]
    BY <2>1 DEF But
  <2> QED BY <2>1, <2>3, <2>4
<1>5. ASSUME NEW b \in 1..(Len(blocks) - 1) PROVE Agrees(blocks[b], infer'.scopes, go'.scopes)
  <2> DEFINE p == blocks[b].inferred + Inferred(blocks[b].kind)
             q == blocks[b].generated + Generated(blocks[b].kind)
  <2>1. b \in 1..Len(blocks) /\ b # Len(blocks)
    BY <1>4
  <2>2. Agrees(blocks[b], infer.scopes, go.scopes)
    BY <1>1, <2>1 DEF NamesAgree
  <2>3. blocks[b].inferred \in Nat /\ blocks[b].generated \in Nat /\ p \in Nat /\ q \in Nat
    BY <2>1, BlockStarts
  <2>4. p <= Last(blocks).inferred /\ q <= Last(blocks).generated
    BY <2>1, BlockWithin
  <2>5. /\ \A i \in 1..p : DOMAIN infer'.scopes[i] = DOMAIN infer.scopes[i]
        /\ \A i \in 1..q : DOMAIN go'.scopes[i] = DOMAIN go.scopes[i]
    <3> HIDE DEF p, q
    <3> QED BY <1>2, <2>3, <2>4
  <2> QED BY <2>2, <2>3, <2>5, AgreesStill
<1>6. NamesAgree'
  BY <1>4, <1>5 DEF NamesAgree
<1> QED BY <1>1, <1>3, <1>6 DEF Agree

-----------------------------------------------------------------------------
(* What a statement adds to the names of the innermost scope.              *)

\* Names are added, and then others; none is added; some that are there already.
LEMMA AddsMore ==
    ASSUME NEW s, NEW t, NEW u, NEW N, NEW M, Adds(s, t, N), Adds(t, u, M)
    PROVE  Adds(s, u, N \cup M)
<1>1. Len(t) = Len(s) /\ Len(u) = Len(s)
  BY DEF Adds
<1>2. DOMAIN u[Len(s)] = DOMAIN s[Len(s)] \cup (N \cup M)
  BY <1>1 DEF Adds
<1> QED BY <1>1, <1>2 DEF Adds

\* Names that the innermost scope has already.
LEMMA AddsNone ==
    ASSUME NEW s, NEW t, Len(s) \in Nat \ {0}, SameNames(s, t), NEW N, N \subseteq DOMAIN s[Len(s)]
    PROVE  Adds(s, t, N)
<1>1. Len(t) = Len(s) /\ \A i \in 1..Len(s) : DOMAIN t[i] = DOMAIN s[i]
  BY DEF SameNames
<1>2. Len(s) \in 1..Len(s) /\ \A i \in 1..(Len(s) - 1) : i \in 1..Len(s)
  OBVIOUS
<1>3. DOMAIN s[Len(s)] \cup N = DOMAIN s[Len(s)]
  OBVIOUS
<1> QED BY <1>1, <1>2, <1>3 DEF Adds

\* A declaration does.
LEMMA DeclareAdds ==
    ASSUME NEW E, NEW k \in Nat \ {0}, NEW s \in Seq(ScopesOf(E)), Len(s) = k, NEW e \in E,
           NEW N \in SUBSET Idents
    PROVE  Adds(s, Declare(s, N, e), N)
<1>1. /\ Len(Declare(s, N, e)) = k
      /\ DOMAIN Declare(s, N, e)[k] = DOMAIN s[k] \cup N
      /\ \A i \in 1..(k - 1) : Declare(s, N, e)[i] = s[i]
  BY DeclareMore
<1> QED BY <1>1 DEF Adds

\* An entry is replaced: the names are the same.
LEMMA OneTouched ==
    ASSUME NEW E, NEW s \in Seq(ScopesOf(E)), NEW i, NEW n, NEW e
    PROVE  SameNames(s, [s EXCEPT ![i] = [s[i] EXCEPT ![n] = e]])
<1> DEFINE f == [s[i] EXCEPT ![n] = e]
           t == [s EXCEPT ![i] = f]
<1>1. Len(t) = Len(s) /\ \A j \in 1..Len(s) : t[j] = IF j = i THEN f ELSE s[j]
  <2> HIDE DEF f
  <2> QED OBVIOUS
<1>2. i \in 1..Len(s) => DOMAIN f = DOMAIN s[i]
  <2> SUFFICES ASSUME i \in 1..Len(s) PROVE DOMAIN f = DOMAIN s[i]
    OBVIOUS
  <2>1. s[i] \in ScopesOf(E)
    OBVIOUS
  <2>2. PICK D \in SUBSET Idents : s[i] \in [D -> E]
    BY <2>1 DEF ScopesOf
  <2> QED BY <2>2
<1> HIDE DEF f, t
<1>3. SameNames(s, t)
  BY <1>1, <1>2 DEF SameNames
<1> QED BY <1>3 DEF t, f

\* Nothing changes.
LEMMA SameNamesSelf ==
    ASSUME NEW s
    PROVE  SameNames(s, s)
  BY DEF SameNames

\* The checker uses a name or looks at it.
LEMMA CheckerUses ==
    ASSUME NEW k \in Nat \ {0}, NEW inf \in Checkers(k), NEW n \in Idents
    PROVE  /\ SameNames(inf.scopes, MarkVarUsed(inf, n).scopes) /\ MarkVarUsed(inf, n).errors = inf.errors
           /\ SameNames(inf.scopes, InferIdent(inf, n).scopes)
           /\ InferIdent(inf, n).errors = <<>> => inf.errors = <<>>
           /\ SameNames(inf.scopes, CheckVarMutable(inf, n).scopes)
           /\ CheckVarMutable(inf, n).errors = <<>> => inf.errors = <<>>
<1>1. /\ inf \in [imported : ImportedNames, scopes : Seq(ScopesOf(Entries)), errors : Seq(Errors)]
      /\ inf.scopes \in Seq(ScopesOf(Entries)) /\ inf.errors \in Seq(Errors)
  BY DEF Checkers
<1>2. \A kind, ns : EmitError(inf, kind, ns).errors # <<>> /\ EmitError(inf, kind, ns).scopes = inf.scopes
  BY <1>1 DEF EmitError
<1>3. SameNames(inf.scopes, inf.scopes)
  BY SameNamesSelf
<1>4. SameNames(inf.scopes, MarkVarUsed(inf, n).scopes) /\ MarkVarUsed(inf, n).errors = inf.errors
  <2> DEFINE at == Home(inf.scopes, n)
             e == [inf.scopes[at][n] EXCEPT !.used = TRUE]
             t == [inf.scopes EXCEPT ![at] = [inf.scopes[at] EXCEPT ![n] = e]]
  <2>1. MarkVarUsed(inf, n) = IF at = 0 THEN inf ELSE [inf EXCEPT !.scopes = t]
    BY DEF MarkVarUsed
  <2>2. SameNames(inf.scopes, t)
    <3> HIDE DEF at, e
    <3> QED BY <1>1, OneTouched
  <2> HIDE DEF t, at
  <2> QED BY <1>1, <1>3, <2>1, <2>2
<1>5. SameNames(inf.scopes, InferIdent(inf, n).scopes) /\ (InferIdent(inf, n).errors = <<>> => inf.errors = <<>>)
  BY <1>2, <1>3, <1>4 DEF InferIdent
<1>6. /\ SameNames(inf.scopes, CheckVarMutable(inf, n).scopes)
      /\ CheckVarMutable(inf, n).errors = <<>> => inf.errors = <<>>
  BY <1>2, <1>3 DEF CheckVarMutable
<1> QED BY <1>4, <1>5, <1>6

\* Go uses a name, assigns it or declares it.
LEMMA GoNameAdds ==
    ASSUME NEW k \in Nat \ {0}, NEW g \in Compilers(k), NEW n \in Idents
    PROVE  /\ SameNames(g.scopes, GoUse(g, n).scopes) /\ (GoUse(g, n).refused = {} => g.refused = {})
           /\ SameNames(g.scopes, GoAssign(g, n).scopes) /\ (GoAssign(g, n).refused = {} => g.refused = {})
           /\ \A e \in GoEntries : GoDeclare(g, n, e).refused = {} =>
                g.refused = {} /\ Adds(g.scopes, GoDeclare(g, n, e).scopes, {n} \ {"_"})
<1>1. /\ g \in [scopes : Seq(ScopesOf(GoEntries)), refused : SUBSET Refusals] /\ Len(g.scopes) = k
      /\ g.scopes \in Seq(ScopesOf(GoEntries)) /\ k \in Nat /\ k > 0
  BY DEF Compilers
<1>2. \A what : Refuse(g, what, {n}).refused # {} /\ Refuse(g, what, {n}).scopes = g.scopes
  BY <1>1 DEF Refuse
<1>3. SameNames(g.scopes, g.scopes)
  BY SameNamesSelf
<1> DEFINE at == Home(g.scopes, n)
<1>4. ASSUME NEW e
      PROVE  SameNames(g.scopes, [g.scopes EXCEPT ![at] = [g.scopes[at] EXCEPT ![n] = e]])
  <2> HIDE DEF at
  <2> QED BY <1>1, OneTouched
<1>5. SameNames(g.scopes, GoUse(g, n).scopes) /\ (GoUse(g, n).refused = {} => g.refused = {})
  <2> DEFINE t == [g.scopes EXCEPT ![at] = [g.scopes[at] EXCEPT ![n] = [g.scopes[at][n] EXCEPT !.used = TRUE]]]
  <2>1. \/ GoUse(g, n) = g \/ GoUse(g, n) = Refuse(g, "undefined", {n})
        \/ GoUse(g, n) = [g EXCEPT !.scopes = t]
    BY DEF GoUse
  <2>2. SameNames(g.scopes, t)
    BY <1>4
  <2> HIDE DEF t
  <2>3. [g EXCEPT !.scopes = t].scopes = t /\ [g EXCEPT !.scopes = t].refused = g.refused
    BY <1>1
  <2> QED BY <1>2, <1>3, <2>1, <2>2, <2>3
<1>6. SameNames(g.scopes, GoAssign(g, n).scopes) /\ (GoAssign(g, n).refused = {} => g.refused = {})
  <2> DEFINE t == [g.scopes EXCEPT ![at] = [g.scopes[at] EXCEPT ![n] = [g.scopes[at][n] EXCEPT !.assigned = TRUE]]]
  <2>1. \/ GoAssign(g, n) = g \/ GoAssign(g, n) = Refuse(g, "undefined", {n})
        \/ GoAssign(g, n) = Refuse(g, "constant", {n})
        \/ GoAssign(g, n) = [g EXCEPT !.scopes = t]
    BY DEF GoAssign
  <2>2. SameNames(g.scopes, t)
    BY <1>4
  <2> HIDE DEF t
  <2>3. [g EXCEPT !.scopes = t].scopes = t /\ [g EXCEPT !.scopes = t].refused = g.refused
    BY <1>1
  <2> QED BY <1>2, <1>3, <2>1, <2>2, <2>3
<1>7. ASSUME NEW e \in GoEntries, GoDeclare(g, n, e).refused = {}
      PROVE  g.refused = {} /\ Adds(g.scopes, GoDeclare(g, n, e).scopes, {n} \ {"_"})
  <2>1. CASE n = "_"
    <3>1. GoDeclare(g, n, e) = g /\ {n} \ {"_"} = {}
      BY <2>1 DEF GoDeclare
    <3>2. Adds(g.scopes, g.scopes, {})
      BY <1>1, <1>3, AddsNone
    <3> QED BY <1>7, <3>1, <3>2
  <2>2. CASE n # "_"
    <3> DEFINE t == [g.scopes EXCEPT ![Len(g.scopes)] = With(@, n, e)]
    <3>1. GoDeclare(g, n, e) = [g EXCEPT !.scopes = t]
      BY <1>2, <1>7, <2>2 DEF GoDeclare, GoBind
    <3>2. t[k] = With(g.scopes[k], n, e) /\ Len(t) = k /\ \A i \in 1..(k - 1) : t[i] = g.scopes[i]
      BY <1>1
    <3>3. DOMAIN With(g.scopes[k], n, e) = DOMAIN g.scopes[k] \cup {n}
      BY DEF With
    <3> HIDE DEF t
    <3>4. Adds(g.scopes, t, {n} \ {"_"})
      BY <1>1, <2>2, <3>2, <3>3 DEF Adds
    <3>5. [g EXCEPT !.scopes = t].scopes = t /\ [g EXCEPT !.scopes = t].refused = g.refused
      BY <1>1
    <3> QED BY <1>7, <3>1, <3>4, <3>5
  <2> QED BY <2>1, <2>2
<1> QED BY <1>5, <1>6, <1>7

\* The compilers that, if they have refused nothing, have the names N more than g.
Added(k, g, N) ==
    {h \in Compilers(k) : h.refused = {} => g.refused = {} /\ Adds(g.scopes, h.scopes, N)}

\* A turn of a list of declarations, of which the names in old are assigned.
LEMMA MixAdds ==
    ASSUME NEW k \in Nat \ {0}, NEW g \in Compilers(k), NEW old, old \subseteq DOMAIN g.scopes[k], NEW e \in GoEntries,
           NEW n \in Idents, NEW N, NEW h \in Added(k, g, N)
    PROVE  MixTurn(<<old, e>>, h, n) \in Added(k, g, N \cup ({n} \ {"_"}))
<1> DEFINE next == MixTurn(<<old, e>>, h, n)
           M == {n} \ {"_"}
<1> DEFINE s == g.scopes
<1>1. /\ h \in Compilers(k) /\ (h.refused = {} => g.refused = {} /\ Adds(s, h.scopes, N))
      /\ Len(s) = k
  BY DEF Added, Compilers
<1>2. next \in Compilers(k)
  BY <1>1, GoKeeps DEF MixTurn
<1>3. ASSUME next.refused = {} PROVE g.refused = {} /\ Adds(s, next.scopes, N \cup M)
  <2>1. CASE n \in old
    <3>1. next = GoAssign(h, n)
      BY <2>1 DEF MixTurn
    <3>2. SameNames(h.scopes, next.scopes) /\ h.refused = {}
      BY <1>1, <1>3, <3>1, GoNameAdds
    <3>3. g.refused = {} /\ Adds(s, h.scopes, N)
      BY <1>1, <3>2
    <3>4. M \subseteq DOMAIN h.scopes[k] /\ Len(h.scopes) = k
      BY <1>1, <2>1, <3>3 DEF Adds
    <3> HIDE DEF next, M, s
    <3>5. Adds(h.scopes, next.scopes, M)
      BY <3>2, <3>4, AddsNone
    <3> QED BY <3>3, <3>5, AddsMore
  <2>2. CASE n \notin old
    <3>1. next = GoDeclare(h, n, e)
      BY <2>2 DEF MixTurn
    <3>2. Adds(h.scopes, next.scopes, M) /\ h.refused = {}
      <4>1. \A d \in GoEntries : GoDeclare(h, n, d).refused = {} =>
                h.refused = {} /\ Adds(h.scopes, GoDeclare(h, n, d).scopes, {n} \ {"_"})
        BY <1>1, GoNameAdds
      <4> QED BY <1>3, <3>1, <4>1
    <3>3. g.refused = {} /\ Adds(s, h.scopes, N)
      BY <1>1, <3>2
    <3> HIDE DEF next, M, s
    <3> QED BY <3>2, <3>3, AddsMore
  <2> QED BY <2>1, <2>2
<1> QED BY <1>2, <1>3 DEF Added

\* The whole list.
LEMMA MixLoopAdds ==
    ASSUME NEW k \in Nat \ {0}, NEW g \in Compilers(k), NEW list \in Seq(Idents), NEW e \in GoEntries,
           NEW old, old \subseteq DOMAIN g.scopes[k]
    PROVE  MixLoop!Loop(<<old, e>>, g, list) \in Added(k, g, Listed(list))
<1>1. PICK s : s = g.scopes
  OBVIOUS
<1> DEFINE S == [i \in 0..Len(list) |-> Added(k, g, Upto(list, i))]
           c == <<old, e>>
<1>2. Len(list) \in Nat /\ Len(s) = k /\ old \subseteq DOMAIN s[k]
  BY <1>1 DEF Compilers
<1>3. g \in S[0]
  <2>1. Upto(list, 0) = {}
    BY UptoNext
  <2>2. Adds(s, s, {})
    BY <1>2, AddsNone, SameNamesSelf
  <2>3. g \in Added(k, g, Upto(list, 0))
    BY <1>1, <2>1, <2>2 DEF Added
  <2>4. 0 \in 0..Len(list)
    BY <1>2
  <2> QED BY <2>3, <2>4
<1>4. ASSUME NEW i \in 1..Len(list), NEW h \in S[i - 1] PROVE MixTurn(c, h, list[i]) \in S[i]
  <2>1. i \in 0..Len(list) /\ i - 1 \in 0..Len(list) /\ list[i] \in Idents
    BY <1>2
  <2>2. h \in Added(k, g, Upto(list, i - 1))
    BY <1>4, <2>1
  <2>3. MixTurn(c, h, list[i]) \in Added(k, g, Upto(list, i - 1) \cup ({list[i]} \ {"_"}))
    BY <1>2, <2>1, <2>2, MixAdds
  <2>4. Upto(list, i) = Upto(list, i - 1) \cup ({list[i]} \ {"_"})
    BY UptoNext
  <2> QED BY <2>1, <2>3, <2>4
<1>5. MixLoop!Loop(c, g, list) \in S[Len(list)]
  <2> HIDE DEF S, c
  <2> QED BY <1>3, <1>4, MixLoop!LoopMoves
<1>6. Upto(list, Len(list)) = Listed(list) /\ Len(list) \in 0..Len(list)
  <2>1. Upto(list, Len(list)) = Listed(list)
    BY UptoNext
  <2> QED BY <1>2, <2>1
<1> QED BY <1>1, <1>5, <1>6

\* What Go accepts of a list of declarations, all new ones or some of them.
LEMMA GoListAdds ==
    ASSUME NEW k \in Nat \ {0}, NEW g \in Compilers(k), NEW list \in Seq(Idents), NEW e \in GoEntries
    PROVE  /\ GoDeclareAll(g, list, e) \in Added(k, g, Listed(list))
           /\ GoMix(g, list, e) \in Added(k, g, Listed(list))
           /\ GoShort(g, list, e) \in Added(k, g, Listed(list))
<1>1. g.scopes \in Seq(ScopesOf(GoEntries)) /\ Len(g.scopes) = k /\ Last(g.scopes) = g.scopes[k]
      /\ g \in [scopes : Seq(ScopesOf(GoEntries)), refused : SUBSET Refusals]
  BY DEF Compilers, Last
<1>2. GoDeclareAll(g, list, e) \in Added(k, g, Listed(list))
  <2>1. GoDeclareAll(g, list, e) = MixLoop!Loop(<<{}, e>>, g, list)
    BY DEF GoDeclareAll, MixLoop!Loop, Each, MixLoop!Each, MixTurn
  <2>2. MixLoop!Loop(<<{}, e>>, g, list) \in Added(k, g, Listed(list))
    BY MixLoopAdds
  <2> QED BY <2>1, <2>2
<1>3. GoMix(g, list, e) \in Added(k, g, Listed(list))
  <2> DEFINE c == <<DOMAIN Last(g.scopes), e>>
             h == MixLoop!Loop(c, g, list)
             twice == Repeated(list)
  <2>1. GoMix(g, list, e) = Refuse(h, "redeclared", twice)
    BY DEF GoMix, MixLoop!Loop, Each, MixLoop!Each, MixTurn
  <2>2. h \in Added(k, g, Listed(list))
    <3>1. DOMAIN Last(g.scopes) \subseteq DOMAIN g.scopes[k]
      BY <1>1
    <3> QED BY <3>1, MixLoopAdds
  <2>3. twice \in SUBSET Idents /\ k \in Nat
    BY ListNames
  <2> HIDE DEF h, twice
  <2>4. h \in Compilers(k)
    BY <2>2 DEF Added
  <2>5. Refuse(h, "redeclared", twice) \in Compilers(k) /\ Refuse(h, "redeclared", twice).scopes = h.scopes
    BY <2>3, <2>4, RefuseKeeps
  <2>6. Refuse(h, "redeclared", twice).refused = {} => h.refused = {}
    BY <2>4 DEF Refuse, Compilers
  <2> QED BY <2>1, <2>2, <2>5, <2>6 DEF Added
<1>4. GoShort(g, list, e) \in Added(k, g, Listed(list))
  <2>1. CASE InList(list) \subseteq DOMAIN Last(g.scopes) \cup {"_"}
    <3> DEFINE h == Refuse(g, "redeclared", InList(list))
    <3>1. GoShort(g, list, e) = h
      BY <2>1 DEF GoShort
    <3>2. InList(list) \in SUBSET Idents /\ k \in Nat
      BY ListNames
    <3>3. h \in Compilers(k) /\ h.scopes = g.scopes
      BY <3>2, RefuseKeeps
    <3>4. SameNames(g.scopes, g.scopes) /\ Listed(list) \subseteq DOMAIN g.scopes[k]
      BY <1>1, <2>1, SameNamesSelf DEF Listed
    <3>5. h.refused = {} => g.refused = {}
      BY <1>1 DEF Refuse
    <3> HIDE DEF h
    <3>6. Adds(g.scopes, h.scopes, Listed(list))
      BY <1>1, <3>3, <3>4, AddsNone
    <3> QED BY <3>1, <3>3, <3>5, <3>6 DEF Added
  <2>2. CASE ~ (InList(list) \subseteq DOMAIN Last(g.scopes) \cup {"_"})
    BY <1>3, <2>2 DEF GoShort
  <2> QED BY <2>1, <2>2
<1> QED BY <1>2, <1>3, <1>4

\* The compilers, and the checkers, that have the names of g or inf, if they object to nothing.
Touched(k, g) ==
    {h \in Compilers(k) : h.refused = {} => g.refused = {} /\ SameNames(g.scopes, h.scopes)}
Looked(k, inf) ==
    {st \in Checkers(k) : st.errors = <<>> => inf.errors = <<>> /\ SameNames(inf.scopes, st.scopes)}

\* A list of one name.
LEMMA OneName ==
    ASSUME NEW n \in Idents
    PROVE  /\ <<n>> \in Seq(Idents) /\ Len(<<n>>) = 1
           /\ InList(<<n>>) = {n} /\ Listed(<<n>>) = {n} \ {"_"} /\ Repeated(<<n>>) = {}
<1>1. <<n>> \in Seq(Idents) /\ Len(<<n>>) = 1 /\ DOMAIN <<n>> = 1..1 /\ <<n>>[1] = n
  OBVIOUS
<1>2. InList(<<n>>) = {n}
  BY <1>1 DEF InList
<1>3. Repeated(<<n>>) = {}
  <2>1. \A i \in DOMAIN <<n>> : 1..(i - 1) = {}
    BY <1>1
  <2>2. {i \in DOMAIN <<n>> : \E j \in 1..(i - 1) : <<n>>[j] = <<n>>[i]} = {}
    BY <2>1
  <2> QED BY <2>2 DEF Repeated
<1> QED BY <1>1, <1>2, <1>3 DEF Listed

\* One after the other, two changes that keep the names.
LEMMA SameNamesTwice ==
    ASSUME NEW s, NEW t, NEW u, SameNames(s, t), SameNames(t, u)
    PROVE  SameNames(s, u)
  BY DEF SameNames

\* Names are declared, and then kept.
LEMMA AddsSame ==
    ASSUME NEW s, NEW t, NEW u, NEW N, Len(s) \in Nat \ {0}, Adds(s, t, N), SameNames(t, u)
    PROVE  Adds(s, u, N)
<1>1. Len(t) = Len(s) /\ Len(u) = Len(s) /\ \A i \in 1..Len(s) : DOMAIN u[i] = DOMAIN t[i]
  BY DEF Adds, SameNames
<1>2. Len(s) \in 1..Len(s) /\ \A i \in 1..(Len(s) - 1) : i \in 1..Len(s)
  OBVIOUS
<1> QED BY <1>1, <1>2 DEF Adds

\* The bindings of an arm, each declared and used.
LEMMA GoBindingsAdd ==
    ASSUME NEW k \in Nat \ {0}, NEW g \in Compilers(k), NEW list \in Seq(Idents)
    PROVE  GoBindings(g, list) \in Added(k, g, Listed(list))
<1>1. PICK s : s = g.scopes
  OBVIOUS
<1> DEFINE S == [i \in 0..Len(list) |-> Added(k, g, Upto(list, i))]
<1>2. Len(list) \in Nat /\ Len(s) = k /\ Var \in GoEntries
  BY <1>1 DEF Compilers, Var, GoEntry, GoEntries
<1>3. g \in S[0]
  <2>1. Upto(list, 0) = {}
    BY UptoNext
  <2>2. Adds(s, s, {})
    BY <1>2, AddsNone, SameNamesSelf
  <2>3. g \in Added(k, g, Upto(list, 0))
    BY <1>1, <2>1, <2>2 DEF Added
  <2>4. 0 \in 0..Len(list)
    BY <1>2
  <2> QED BY <2>3, <2>4
<1>4. ASSUME NEW i \in 1..Len(list), NEW h \in S[i - 1] PROVE BindingTurn(0, h, list[i]) \in S[i]
  <2> DEFINE n == list[i]
             M == {n} \ {"_"}
             N == Upto(list, i - 1)
             one == GoShort(h, <<n>>, Var)
             next == BindingTurn(0, h, n)
  <2>1. i \in 0..Len(list) /\ i - 1 \in 0..Len(list) /\ n \in Idents
    BY <1>2
  <2>2. h \in Compilers(k) /\ (h.refused = {} => g.refused = {} /\ Adds(s, h.scopes, N))
    BY <1>1, <1>4, <2>1 DEF Added
  <2>3. <<n>> \in Seq(Idents) /\ Listed(<<n>>) = M
    BY <2>1, OneName
  <2>4. next = GoUse(one, n)
    BY DEF BindingTurn
  <2>5. one \in Added(k, h, M)
    BY <1>2, <2>2, <2>3, GoListAdds
  <2> HIDE DEF one, next, M, N
  <2>6. one \in Compilers(k) /\ (one.refused = {} => h.refused = {} /\ Adds(h.scopes, one.scopes, M))
    BY <2>5 DEF Added
  <2>7. /\ next \in Compilers(k) /\ SameNames(one.scopes, next.scopes)
        /\ next.refused = {} => one.refused = {}
    BY <2>1, <2>4, <2>6, GoKeeps, GoNameAdds DEF n
  <2>8. ASSUME next.refused = {} PROVE g.refused = {} /\ Adds(s, next.scopes, N \cup M)
    <3>1. g.refused = {} /\ Adds(s, h.scopes, N) /\ Adds(h.scopes, one.scopes, M)
      BY <2>2, <2>6, <2>7, <2>8
    <3>2. Adds(s, one.scopes, N \cup M)
      BY <3>1, AddsMore
    <3> QED BY <1>2, <2>7, <3>1, <3>2, AddsSame
  <2>9. Upto(list, i) = N \cup M
    BY UptoNext DEF N, M, n
  <2>10. next \in Added(k, g, Upto(list, i))
    BY <1>1, <2>7, <2>8, <2>9 DEF Added
  <2> QED BY <2>1, <2>10 DEF next, n
<1>5. GoBindings(g, list) = BindingLoop!Loop(0, g, list)
  BY DEF GoBindings, BindingLoop!Loop, Each, BindingLoop!Each, BindingTurn
<1>6. BindingLoop!Loop(0, g, list) \in S[Len(list)]
  <2> HIDE DEF S
  <2> QED BY <1>3, <1>4, BindingLoop!LoopMoves
<1>7. Upto(list, Len(list)) = Listed(list) /\ Len(list) \in 0..Len(list)
  <2>1. Upto(list, Len(list)) = Listed(list)
    BY UptoNext
  <2> QED BY <1>2, <2>1
<1> QED BY <1>1, <1>5, <1>6, <1>7

\* Names are assigned, or used and assigned.
LEMMA GoUses ==
    ASSUME NEW k \in Nat \ {0}, NEW g \in Compilers(k), NEW list \in Seq(Idents)
    PROVE  /\ Each(GoAssign, g, list) \in Touched(k, g) /\ Each(GoStep, g, list) \in Touched(k, g)
           /\ \A n \in Idents : /\ GoUse(g, n) \in Touched(k, g) /\ GoAssign(g, n) \in Touched(k, g)
                               /\ GoStep(g, n) \in Touched(k, g)
<1>1. ASSUME NEW h \in Touched(k, g), NEW n \in Idents
      PROVE  /\ GoUse(h, n) \in Touched(k, g) /\ GoAssign(h, n) \in Touched(k, g)
  <2>1. h \in Compilers(k) /\ (h.refused = {} => g.refused = {} /\ SameNames(g.scopes, h.scopes))
    BY <1>1 DEF Touched
  <2>2. GoUse(h, n) \in Compilers(k) /\ GoAssign(h, n) \in Compilers(k)
    BY <2>1, GoKeeps
  <2>3. /\ SameNames(h.scopes, GoUse(h, n).scopes) /\ (GoUse(h, n).refused = {} => h.refused = {})
        /\ SameNames(h.scopes, GoAssign(h, n).scopes) /\ (GoAssign(h, n).refused = {} => h.refused = {})
    BY <2>1, GoNameAdds
  <2>4. GoUse(h, n).refused = {} => g.refused = {} /\ SameNames(g.scopes, GoUse(h, n).scopes)
    BY <2>1, <2>3, SameNamesTwice
  <2>5. GoAssign(h, n).refused = {} => g.refused = {} /\ SameNames(g.scopes, GoAssign(h, n).scopes)
    BY <2>1, <2>3, SameNamesTwice
  <2> QED BY <2>2, <2>4, <2>5 DEF Touched
<1>2. ASSUME NEW h \in Touched(k, g), NEW n \in Idents PROVE GoStep(h, n) \in Touched(k, g)
  BY <1>1, <1>2 DEF GoStep
<1>3. g \in Touched(k, g)
  BY SameNamesSelf DEF Touched
<1>4. Each(GoAssign, g, list) \in Touched(k, g)
  <2>1. \A h \in Touched(k, g) : \A n \in Idents : AssignTurn(0, h, n) \in Touched(k, g)
    BY <1>1 DEF AssignTurn
  <2>2. Each(GoAssign, g, list) = AssignLoop!Loop(0, g, list)
    BY DEF AssignLoop!Loop, Each, AssignLoop!Each, AssignTurn
  <2>3. AssignLoop!Loop(0, g, list) \in Touched(k, g)
    BY <1>3, <2>1, AssignLoop!LoopStays
  <2> QED BY <2>2, <2>3
<1>5. Each(GoStep, g, list) \in Touched(k, g)
  <2>1. \A h \in Touched(k, g) : \A n \in Idents : GoStepTurn(0, h, n) \in Touched(k, g)
    BY <1>2 DEF GoStepTurn
  <2>2. Each(GoStep, g, list) = GoStepLoop!Loop(0, g, list)
    BY DEF GoStepLoop!Loop, Each, GoStepLoop!Each, GoStepTurn
  <2>3. GoStepLoop!Loop(0, g, list) \in Touched(k, g)
    BY <1>3, <2>1, GoStepLoop!LoopStays
  <2> QED BY <2>2, <2>3
<1> QED BY <1>1, <1>2, <1>3, <1>4, <1>5

\* The same of the checker.
LEMMA CheckerLooks ==
    ASSUME NEW k \in Nat \ {0}, NEW inf \in Checkers(k), NEW list \in Seq(Idents)
    PROVE  /\ Each(InferIdent, inf, list) \in Looked(k, inf) /\ Each(Step, inf, list) \in Looked(k, inf)
           /\ \A n \in Idents : /\ InferIdent(inf, n) \in Looked(k, inf)
                               /\ CheckVarMutable(InferIdent(inf, n), n) \in Looked(k, inf)
                               /\ Step(inf, n) \in Looked(k, inf)
<1>1. ASSUME NEW st \in Looked(k, inf), NEW n \in Idents
      PROVE  /\ InferIdent(st, n) \in Looked(k, inf) /\ CheckVarMutable(st, n) \in Looked(k, inf)
  <2>1. st \in Checkers(k) /\ (st.errors = <<>> => inf.errors = <<>> /\ SameNames(inf.scopes, st.scopes))
    BY <1>1 DEF Looked
  <2>2. InferIdent(st, n) \in Checkers(k) /\ CheckVarMutable(st, n) \in Checkers(k)
    BY <2>1, NamesKeep
  <2>3. /\ SameNames(st.scopes, InferIdent(st, n).scopes) /\ (InferIdent(st, n).errors = <<>> => st.errors = <<>>)
        /\ SameNames(st.scopes, CheckVarMutable(st, n).scopes)
        /\ CheckVarMutable(st, n).errors = <<>> => st.errors = <<>>
    BY <2>1, CheckerUses
  <2>4. InferIdent(st, n).errors = <<>> => inf.errors = <<>> /\ SameNames(inf.scopes, InferIdent(st, n).scopes)
    BY <2>1, <2>3, SameNamesTwice
  <2>5. CheckVarMutable(st, n).errors = <<>> =>
            inf.errors = <<>> /\ SameNames(inf.scopes, CheckVarMutable(st, n).scopes)
    BY <2>1, <2>3, SameNamesTwice
  <2> QED BY <2>2, <2>4, <2>5 DEF Looked
<1>2. ASSUME NEW st \in Looked(k, inf), NEW n \in Idents
      PROVE  Step(st, n) \in Looked(k, inf) /\ CheckVarMutable(InferIdent(st, n), n) \in Looked(k, inf)
  BY <1>1, <1>2 DEF Step
<1>3. inf \in Looked(k, inf)
  BY SameNamesSelf DEF Looked
<1>4. Each(InferIdent, inf, list) \in Looked(k, inf)
  <2>1. \A st \in Looked(k, inf) : \A n \in Idents : IdentTurn(0, st, n) \in Looked(k, inf)
    BY <1>1 DEF IdentTurn
  <2>2. Each(InferIdent, inf, list) = IdentLoop!Loop(0, inf, list)
    BY DEF IdentLoop!Loop, Each, IdentLoop!Each, IdentTurn
  <2>3. IdentLoop!Loop(0, inf, list) \in Looked(k, inf)
    BY <1>3, <2>1, IdentLoop!LoopStays
  <2> QED BY <2>2, <2>3
<1>5. Each(Step, inf, list) \in Looked(k, inf)
  <2>1. \A st \in Looked(k, inf) : \A n \in Idents : StepTurn(0, st, n) \in Looked(k, inf)
    BY <1>2 DEF StepTurn
  <2>2. Each(Step, inf, list) = StepLoop!Loop(0, inf, list)
    BY DEF StepLoop!Loop, Each, StepLoop!Each, StepTurn
  <2>3. StepLoop!Loop(0, inf, list) \in Looked(k, inf)
    BY <1>3, <2>1, StepLoop!LoopStays
  <2> QED BY <2>2, <2>3
<1> QED BY <1>1, <1>2, <1>3, <1>4, <1>5

\* An error is one, and changes nothing else.
LEMMA ErrorShows ==
    ASSUME NEW k \in Nat, NEW inf \in Checkers(k)
    PROVE  \A kind, ns : EmitError(inf, kind, ns).errors # <<>> /\ EmitError(inf, kind, ns).scopes = inf.scopes
<1>1. /\ inf \in [imported : ImportedNames, scopes : Seq(ScopesOf(Entries)), errors : Seq(Errors)]
      /\ inf.scopes \in Seq(ScopesOf(Entries)) /\ inf.errors \in Seq(Errors)
  BY DEF Checkers
<1> QED BY <1>1 DEF EmitError

\* What has been accepted of a list is new, and in the innermost scope.
AsDeclared(k, inf, list, e, st) ==
    st.errors = <<>> =>
        /\ st.scopes = Declare(inf.scopes, Listed(list), e)
        /\ Listed(list) \cap DOMAIN inf.scopes[k] = {} /\ Repeated(list) = {}

\* The checker's three loops over a list.
LEMMA InsertsDeclare ==
    ASSUME NEW k \in Nat \ {0}, NEW inf \in Checkers(k), inf.errors = <<>>, NEW list \in Seq(Idents)
    PROVE  /\ AsDeclared(k, inf, list, Entry(TRUE), Each(InsertVar, inf, list))
           /\ AsDeclared(k, inf, list, Entry(FALSE), Each(InsertConst, inf, list))
           /\ AsDeclared(k, inf, list, Entry(TRUE), InsertUntilError(inf, list))
<1>1. Entry(TRUE) \in Entries /\ Entry(FALSE) \in Entries
  BY DEF Entry, Entries
<1>2. Each(InsertVar, inf, list) = InsertLoop!Loop(<<FALSE, Entry(TRUE)>>, inf, list)
  BY DEF Each, InsertLoop!Loop, InsertLoop!Each, InsertTurn, InsertVar
<1>3. Each(InsertConst, inf, list) = InsertLoop!Loop(<<FALSE, Entry(FALSE)>>, inf, list)
  BY DEF Each, InsertLoop!Loop, InsertLoop!Each, InsertTurn, InsertConst
<1>4. InsertUntilError(inf, list) = InsertLoop!Loop(<<TRUE, Entry(TRUE)>>, inf, list)
  BY DEF InsertUntilError, Each, InsertLoop!Loop, InsertLoop!Each, InsertTurn, InsertVar
<1>5. ASSUME NEW e \in Entries, NEW stops \in BOOLEAN
      PROVE  AsDeclared(k, inf, list, e, InsertLoop!Loop(<<stops, e>>, inf, list))
  <2> DEFINE st == InsertLoop!Loop(<<stops, e>>, inf, list)
  <2>1. st.errors = <<>> => /\ st.scopes = Declare(inf.scopes, Listed(list), e)
                            /\ Listed(list) \cap DOMAIN inf.scopes[k] = {} /\ Repeated(list) = {}
    BY AcceptedList
  <2> HIDE DEF st
  <2>2. AsDeclared(k, inf, list, e, st)
    BY <2>1 DEF AsDeclared
  <2> QED BY <2>2 DEF st
<1> QED BY <1>1, <1>2, <1>3, <1>4, <1>5

\* A single name.
LEMMA InsertDeclares ==
    ASSUME NEW k \in Nat \ {0}, NEW inf \in Checkers(k), NEW n \in Idents
    PROVE  AsDeclared(k, inf, <<n>>, Entry(TRUE), InsertVar(inf, n))
<1>1. Entry(TRUE) \in Entries
  BY DEF Entry, Entries
<1>2. \A e \in Entries : Insert(inf, n, e).errors = <<>> =>
        /\ inf.errors = <<>> /\ ({n} \ {"_"}) \cap DOMAIN inf.scopes[k] = {}
        /\ Insert(inf, n, e).scopes = Declare(inf.scopes, {n} \ {"_"}, e)
  BY AcceptedName
<1>3. InsertVar(inf, n) = Insert(inf, n, Entry(TRUE))
  BY DEF InsertVar
<1>4. Listed(<<n>>) = {n} \ {"_"} /\ Repeated(<<n>>) = {}
  BY OneName
<1> QED BY <1>1, <1>2, <1>3, <1>4 DEF AsDeclared

\* A short declaration that is accepted has a name that is new, or none at all.
LEMMA ShortDeclares ==
    ASSUME NEW k \in Nat \ {0}, NEW inf \in Checkers(k), NEW list \in Seq(Idents),
           InsertShortDeclVars(inf, list).errors = <<>>
    PROVE  /\ InsertShortDeclVars(inf, list).scopes = Declare(inf.scopes, Listed(list), Entry(TRUE))
           /\ Listed(list) = {} \/ ~ (Listed(list) \subseteq DOMAIN inf.scopes[k])
<1>1. PICK s \in Seq(ScopesOf(Entries)) : s = inf.scopes /\ Len(s) = k /\ Last(s) = s[k]
  BY DEF Checkers, Last
<1>2. Entry(TRUE) \in Entries /\ Len(list) \in Nat
  BY DEF Entry, Entries
<1>3. \A kind, ns : EmitError(inf, kind, ns).errors # <<>>
  BY ErrorShows
<1> DEFINE all == Each(UpdateVar, inf, list)
<1>4. InsertShortDeclVars(inf, list) = all /\ (Listed(list) = {} \/ ~ (Listed(list) \subseteq DOMAIN s[k]))
  <2> DEFINE none == Listed(list) # {} /\ \A n \in Listed(list) : n \in DOMAIN s[k]
  <2>1. InsertShortDeclVars(inf, list) = IF none THEN EmitError(inf, "Redeclared", Listed(list)) ELSE all
    BY <1>1 DEF InsertShortDeclVars, InCurrentScope, Listed
  <2> HIDE DEF all
  <2>2. ~ none /\ InsertShortDeclVars(inf, list) = all
    <3> HIDE DEF none
    <3> QED BY <1>3, <2>1
  <2> QED BY <2>2
<1> DEFINE Updated(i) == {st \in Checkers(k) : st.scopes = Declare(s, Upto(list, i), Entry(TRUE))}
           S == [i \in 0..Len(list) |-> Updated(i)]
<1>5. inf \in S[0]
  <2>1. Upto(list, 0) = {}
    BY UptoNext
  <2>2. Declare(s, {}, Entry(TRUE)) = s
    BY <1>1, DeclareNone
  <2>3. 0 \in 0..Len(list)
    BY <1>2
  <2> QED BY <1>1, <2>1, <2>2, <2>3
<1>6. ASSUME NEW i \in 1..Len(list), NEW st \in S[i - 1] PROVE UpdateTurn(0, st, list[i]) \in S[i]
  <2> DEFINE n == list[i]
             A == Upto(list, i - 1)
             B == {n} \ {"_"}
             next == UpdateVar(st, n)
  <2>1. i \in 0..Len(list) /\ i - 1 \in 0..Len(list) /\ n \in Idents
    BY <1>2
  <2>2. st \in Checkers(k) /\ st.scopes = Declare(s, A, Entry(TRUE))
    BY <2>1
  <2>3. Upto(list, i) = A \cup B /\ A \in SUBSET Idents
    <3>1. A \in SUBSET (Idents \ {"_"})
      BY <2>1, UptoNext
    <3>2. Upto(list, i) = A \cup B
      BY UptoNext
    <3> QED BY <3>1, <3>2
  <2> HIDE DEF A, n, next
  <2>4. next \in Checkers(k) /\ next.scopes = Declare(st.scopes, B, Entry(TRUE))
    BY <2>1, <2>2, NamesKeep, AcceptedName DEF next
  <2>5. Declare(Declare(s, A, Entry(TRUE)), B, Entry(TRUE)) = Declare(s, A \cup B, Entry(TRUE))
    <3>1. PICK e \in Entries : e = Entry(TRUE)
      BY <1>2
    <3> HIDE DEF B
    <3>2. Declare(Declare(s, A, e), B, e) = Declare(s, A \cup B, e)
      BY <1>1, <2>3, DeclareMore
    <3> QED BY <3>1, <3>2
  <2>6. next \in Updated(i)
    <3> HIDE DEF B
    <3> QED BY <2>2, <2>3, <2>4, <2>5
  <2>7. UpdateTurn(0, st, list[i]) = next
    BY DEF UpdateTurn, next, n
  <2> HIDE DEF Updated
  <2> QED BY <2>1, <2>6, <2>7
<1>7. all = UpdateLoop!Loop(0, inf, list)
  BY DEF UpdateLoop!Loop, Each, UpdateLoop!Each, UpdateTurn
<1>8. UpdateLoop!Loop(0, inf, list) \in S[Len(list)]
  <2> HIDE DEF S
  <2> QED BY <1>5, <1>6, UpdateLoop!LoopMoves
<1>9. Upto(list, Len(list)) = Listed(list) /\ Len(list) \in 0..Len(list)
  <2>1. Upto(list, Len(list)) = Listed(list)
    BY UptoNext
  <2> QED BY <1>2, <2>1
<1>10. all.scopes = Declare(s, Listed(list), Entry(TRUE))
  <2> HIDE DEF all
  <2> QED BY <1>7, <1>8, <1>9
<1> QED BY <1>1, <1>4, <1>10

\* The checkers that, if they have no error, have the names N more than inf.
Joined(k, inf, N) ==
    {st \in Checkers(k) : st.errors = <<>> => inf.errors = <<>> /\ Adds(inf.scopes, st.scopes, N)}

\* A declaration adds its names.
LEMMA DeclarationsJoin ==
    ASSUME NEW k \in Nat \ {0}, NEW inf \in Checkers(k), inf.errors = <<>>, NEW list \in Seq(Idents)
    PROVE  /\ Each(InsertVar, inf, list) \in Joined(k, inf, Listed(list))
           /\ Each(InsertConst, inf, list) \in Joined(k, inf, Listed(list))
           /\ InsertUntilError(inf, list) \in Joined(k, inf, Listed(list))
           /\ InsertShortDeclVars(inf, list) \in Joined(k, inf, Listed(list))
           /\ \A n \in Idents : InsertVar(inf, n) \in Joined(k, inf, Listed(<<n>>))
<1>1. PICK s \in Seq(ScopesOf(Entries)) : s = inf.scopes /\ Len(s) = k
  BY DEF Checkers
<1>2. Entry(TRUE) \in Entries /\ Entry(FALSE) \in Entries
  BY DEF Entry, Entries
<1>3. ASSUME NEW l \in Seq(Idents), NEW e \in Entries
      PROVE  Adds(inf.scopes, Declare(inf.scopes, Listed(l), e), Listed(l))
  <2>1. Listed(l) \in SUBSET Idents
    BY ListNames DEF Listed
  <2>2. Adds(s, Declare(s, Listed(l), e), Listed(l))
    BY <1>1, <2>1, DeclareAdds
  <2> QED BY <1>1, <2>2
<1>4. ASSUME NEW l \in Seq(Idents), NEW e \in Entries, NEW st \in Checkers(k), AsDeclared(k, inf, l, e, st)
      PROVE  st \in Joined(k, inf, Listed(l))
  BY <1>3, <1>4 DEF Joined, AsDeclared
<1>5. /\ Each(InsertVar, inf, list) \in Checkers(k) /\ Each(InsertConst, inf, list) \in Checkers(k)
      /\ InsertUntilError(inf, list) \in Checkers(k) /\ InsertShortDeclVars(inf, list) \in Checkers(k)
  BY ListsKeep
<1>6. /\ AsDeclared(k, inf, list, Entry(TRUE), Each(InsertVar, inf, list))
      /\ AsDeclared(k, inf, list, Entry(FALSE), Each(InsertConst, inf, list))
      /\ AsDeclared(k, inf, list, Entry(TRUE), InsertUntilError(inf, list))
  BY InsertsDeclare
<1>7. InsertShortDeclVars(inf, list) \in Joined(k, inf, Listed(list))
  <2>1. InsertShortDeclVars(inf, list).errors = <<>> =>
            InsertShortDeclVars(inf, list).scopes = Declare(inf.scopes, Listed(list), Entry(TRUE))
    BY ShortDeclares
  <2> QED BY <1>2, <1>3, <1>5, <2>1 DEF Joined
<1>8. ASSUME NEW n \in Idents PROVE InsertVar(inf, n) \in Joined(k, inf, Listed(<<n>>))
  <2>1. InsertVar(inf, n) \in Checkers(k) /\ AsDeclared(k, inf, <<n>>, Entry(TRUE), InsertVar(inf, n))
    BY NamesKeep, InsertDeclares
  <2>2. <<n>> \in Seq(Idents)
    BY OneName
  <2> QED BY <1>2, <1>4, <2>1, <2>2
<1> QED BY <1>2, <1>4, <1>5, <1>6, <1>7, <1>8

\* The results of a function.
LEMMA ResultsJoin ==
    ASSUME NEW k \in Nat \ {0}, NEW inf \in Checkers(k), NEW list \in Seq(Idents)
    PROVE  InsertResults(inf, list) \in Joined(k, inf, Listed(list))
<1> DEFINE S == [i \in 0..Len(list) |-> Joined(k, inf, Upto(list, i))]
<1>1. PICK s \in Seq(ScopesOf(Entries)) : s = inf.scopes /\ Len(s) = k
  BY DEF Checkers
<1>2. Len(list) \in Nat /\ Entry(TRUE) \in Entries
  BY DEF Entry, Entries
<1>3. inf \in S[0]
  <2>1. Upto(list, 0) = {}
    BY UptoNext
  <2>2. Adds(s, s, {})
    BY <1>1, AddsNone, SameNamesSelf
  <2>3. inf \in Joined(k, inf, Upto(list, 0))
    BY <1>1, <2>1, <2>2 DEF Joined
  <2>4. 0 \in 0..Len(list)
    BY <1>2
  <2> QED BY <2>3, <2>4
<1>4. ASSUME NEW i \in 1..Len(list), NEW st \in S[i - 1] PROVE ResultTurn(0, st, list[i]) \in S[i]
  <2> DEFINE n == list[i]
             M == {n} \ {"_"}
             N == Upto(list, i - 1)
             one == InsertVar(st, n)
             next == MarkVarUsed(one, n)
  <2>1. i \in 0..Len(list) /\ i - 1 \in 0..Len(list) /\ n \in Idents
    BY <1>2
  <2>2. st \in Checkers(k) /\ (st.errors = <<>> => inf.errors = <<>> /\ Adds(s, st.scopes, N))
    BY <1>1, <1>4, <2>1 DEF Joined
  <2>3. one \in Checkers(k) /\ (one.errors = <<>> => st.errors = <<>> /\ Adds(st.scopes, one.scopes, M))
    <3>1. one \in Checkers(k)
      BY <2>1, <2>2, NamesKeep
    <3>2. Insert(st, n, Entry(TRUE)).errors = <<>> =>
            st.errors = <<>> /\ Insert(st, n, Entry(TRUE)).scopes = Declare(st.scopes, M, Entry(TRUE))
      <4>1. \A e \in Entries : Insert(st, n, e).errors = <<>> =>
                /\ st.errors = <<>> /\ ({n} \ {"_"}) \cap DOMAIN st.scopes[k] = {}
                /\ Insert(st, n, e).scopes = Declare(st.scopes, {n} \ {"_"}, e)
        BY <2>1, <2>2, AcceptedName
      <4> QED BY <1>2, <4>1
    <3>3. Adds(st.scopes, Declare(st.scopes, M, Entry(TRUE)), M)
      <4>1. PICK t \in Seq(ScopesOf(Entries)) : t = st.scopes /\ Len(t) = k
        BY <2>2 DEF Checkers
      <4>2. M \in SUBSET Idents
        BY <2>1
      <4> HIDE DEF M
      <4>3. Adds(t, Declare(t, M, Entry(TRUE)), M)
        BY <1>2, <4>1, <4>2, DeclareAdds
      <4> QED BY <4>1, <4>3
    <3> QED BY <3>1, <3>2, <3>3 DEF InsertVar
  <2> HIDE DEF one, next, M, N
  <2>4. next \in Checkers(k) /\ SameNames(one.scopes, next.scopes) /\ next.errors = one.errors
    <3>1. next \in Checkers(k)
      <4>1. \A x : MarkVarUsed(one, x) \in Checkers(k)
        BY <2>3, CheckerKeeps
      <4> QED BY <4>1 DEF next
    <3>2. SameNames(one.scopes, MarkVarUsed(one, n).scopes) /\ MarkVarUsed(one, n).errors = one.errors
      BY <2>1, <2>3, CheckerUses
    <3> QED BY <3>1, <3>2 DEF next
  <2>5. ASSUME next.errors = <<>> PROVE inf.errors = <<>> /\ Adds(s, next.scopes, N \cup M)
    <3>1. inf.errors = <<>> /\ Adds(s, st.scopes, N) /\ Adds(st.scopes, one.scopes, M)
      BY <2>2, <2>3, <2>4, <2>5
    <3>2. Adds(s, one.scopes, N \cup M)
      BY <3>1, AddsMore
    <3> QED BY <1>1, <2>4, <3>1, <3>2, AddsSame
  <2>6. Upto(list, i) = N \cup M
    BY UptoNext DEF N, M, n
  <2>7. next \in Joined(k, inf, Upto(list, i))
    BY <1>1, <2>4, <2>5, <2>6 DEF Joined
  <2> QED BY <2>1, <2>7 DEF next, one, n, ResultTurn
<1>5. InsertResults(inf, list) = ResultLoop!Loop(0, inf, list)
  BY DEF InsertResults, ResultLoop!Loop, Each, ResultLoop!Each, ResultTurn
<1>6. ResultLoop!Loop(0, inf, list) \in S[Len(list)]
  <2> HIDE DEF S
  <2> QED BY <1>3, <1>4, ResultLoop!LoopMoves
<1>7. Upto(list, Len(list)) = Listed(list) /\ Len(list) \in 0..Len(list)
  <2>1. Upto(list, Len(list)) = Listed(list)
    BY UptoNext
  <2> QED BY <1>2, <2>1
<1> QED BY <1>5, <1>6, <1>7
-----------------------------------------------------------------------------
(* The actions keep the readers together.                                  *)

\* A statement that is accepted and declares N for both.
LEMMA StmtAgrees ==
    ASSUME ScopesInv, Clean, Agree, blocks # <<>>, NEW declared, NEW errs, NEW used,
           NEW inf, NEW g, Stmt(declared, errs, used, inf, g), NEW N,
           inf \in Joined(InferDepth, infer, N), g \in Added(GoDepth, go, N)
    PROVE  Agree'
<1>1. infer' = inf /\ go' = g /\ blocks' = blocks /\ left' = left
  BY DEF Stmt
<1>2. CASE ~ Clean'
  BY <1>2 DEF Agree
<1>3. CASE Clean'
  <2>1. infer'.errors = <<>> /\ go'.refused = {}
    BY <1>3 DEF Clean
  <2>2. Adds(infer.scopes, infer'.scopes, N) /\ Adds(go.scopes, go'.scopes, N)
    BY <1>1, <2>1 DEF Joined, Added
  <2> QED BY <1>1, <2>2, DeclaresAgree
<1> QED BY <1>2, <1>3

\* One that declares nothing.
LEMMA UseAgrees ==
    ASSUME ScopesInv, Clean, Agree, blocks # <<>>, NEW declared, NEW errs, NEW used,
           NEW inf, NEW g, Stmt(declared, errs, used, inf, g),
           inf \in Looked(InferDepth, infer), g \in Touched(GoDepth, go)
    PROVE  Agree'
<1>1. Len(infer.scopes) \in Nat \ {0} /\ Len(go.scopes) \in Nat \ {0}
  <2>1. GoDepth > 0
    BY Depths
  <2> QED BY <2>1, Stacks
<1>2. \A t : SameNames(infer.scopes, t) => Adds(infer.scopes, t, {})
  BY <1>1, AddsNone
<1>3. \A t : SameNames(go.scopes, t) => Adds(go.scopes, t, {})
  BY <1>1, AddsNone
<1>4. inf \in Joined(InferDepth, infer, {})
  BY <1>2 DEF Joined, Looked
<1>5. g \in Added(GoDepth, go, {})
  BY <1>3 DEF Added, Touched
<1> QED BY <1>4, <1>5, StmtAgrees

-----------------------------------------------------------------------------
(* The steps.                                                              *)

\* After a statement that declares or uses names the two agree, when it is accepted.
LEMMA StatementsAgree ==
    ASSUME ScopesInv, Agree,
           Use \/ Decl \/ VarDecl \/ MultiDecl \/ ConstDecl \/ Assign \/ Reassign \/ IncDec \/ TryDecl
    PROVE  Agree'
<1> DEFINE k == InferDepth
           m == GoDepth
<1>1. blocks # <<>> /\ Clean
  BY DEF Use, Decl, VarDecl, MultiDecl, ConstDecl, Assign, Reassign, IncDec, TryDecl, InFunction, Reading, Clean
<1>2. /\ k \in Nat \ {0} /\ m \in Nat \ {0} /\ infer \in Checkers(k) /\ go \in Compilers(m)
      /\ infer.errors = <<>>
  BY <1>1, Depths, Readers DEF Clean
<1>3. /\ Var \in GoEntries /\ GoEntry("const") \in GoEntries /\ [Var EXCEPT !.fixed = TRUE] \in GoEntries
      /\ Target \subseteq Idents
  <2>1. Target \subseteq Idents
    BY DEF Target, Names
  <2> QED BY <2>1, Readers
<1>4. ASSUME NEW declared, NEW errs, NEW used, NEW inf, NEW g, Stmt(declared, errs, used, inf, g),
             NEW N, inf \in Joined(k, infer, N), g \in Added(m, go, N)
      PROVE  Agree'
  BY <1>1, <1>4, StmtAgrees
<1>5. ASSUME NEW declared, NEW errs, NEW used, NEW inf, NEW g, Stmt(declared, errs, used, inf, g),
             inf \in Looked(k, infer), g \in Touched(m, go)
      PROVE  Agree'
  BY <1>1, <1>5, UseAgrees
<1> HIDE DEF k, m
<1>6. CASE Use
  <2>1. PICK n \in Target : Stmt(<<>>, {}, <<n>>, InferIdent(infer, n), GoUse(go, n))
    BY <1>6 DEF Use
  <2>2. n \in Idents /\ <<>> \in Seq(Idents)
    BY <1>3
  <2>3. InferIdent(infer, n) \in Looked(k, infer) /\ GoUse(go, n) \in Touched(m, go)
    BY <1>2, <2>2, CheckerLooks, GoUses
  <2> QED BY <1>5, <2>1, <2>3
<1>7. CASE Decl
  <2>1. PICK n \in Idents, variant \in BOOLEAN :
            Stmt(<<n>>, ErrNames, <<>>, InsertVar(infer, n),
                 IF variant THEN GoDeclare(go, n, Var) ELSE GoShort(go, <<n>>, Var))
    BY <1>7 DEF Decl
  <2>2. <<n>> \in Seq(Idents) /\ Listed(<<n>>) = {n} \ {"_"}
    BY OneName
  <2>3. InsertVar(infer, n) \in Joined(k, infer, Listed(<<n>>))
    BY <1>2, <2>2, DeclarationsJoin
  <2>4. GoShort(go, <<n>>, Var) \in Added(m, go, Listed(<<n>>))
    BY <1>2, <1>3, <2>2, GoListAdds
  <2>5. GoDeclare(go, n, Var) \in Added(m, go, Listed(<<n>>))
    <3>1. GoDeclare(go, n, Var) \in Compilers(m)
      BY <1>2, <1>3, GoKeeps
    <3>2. \A e \in GoEntries : GoDeclare(go, n, e).refused = {} =>
            go.refused = {} /\ Adds(go.scopes, GoDeclare(go, n, e).scopes, {n} \ {"_"})
      BY <1>2, GoNameAdds
    <3> QED BY <1>3, <2>2, <3>1, <3>2 DEF Added
  <2>6. (IF variant THEN GoDeclare(go, n, Var) ELSE GoShort(go, <<n>>, Var)) \in Added(m, go, Listed(<<n>>))
    BY <2>4, <2>5
  <2> QED BY <1>4, <2>1, <2>3, <2>6
<1>8. CASE VarDecl
  <2>1. PICK list \in Named :
            Stmt(list, ErrNames, <<>>, Each(InsertVar, infer, list), GoDeclareAll(go, list, Var))
    BY <1>8 DEF VarDecl
  <2>2. list \in Seq(Idents)
    BY ListTypes
  <2>3. Each(InsertVar, infer, list) \in Joined(k, infer, Listed(list))
    BY <1>2, <2>2, DeclarationsJoin
  <2>4. GoDeclareAll(go, list, Var) \in Added(m, go, Listed(list))
    BY <1>2, <1>3, <2>2, GoListAdds
  <2> QED BY <1>4, <2>1, <2>3, <2>4
<1>9. CASE MultiDecl
  <2>1. PICK list \in Lists :
            Stmt(list, ErrNames, <<>>, InsertShortDeclVars(infer, list), GoShort(go, list, Var))
    BY <1>9 DEF MultiDecl
  <2>2. list \in Seq(Idents)
    BY ListTypes
  <2>3. InsertShortDeclVars(infer, list) \in Joined(k, infer, Listed(list))
    BY <1>2, <2>2, DeclarationsJoin
  <2>4. GoShort(go, list, Var) \in Added(m, go, Listed(list))
    BY <1>2, <1>3, <2>2, GoListAdds
  <2> QED BY <1>4, <2>1, <2>3, <2>4
<1>10. CASE ConstDecl
  <2>1. PICK list \in Named, literal \in BOOLEAN :
            Stmt(list, ErrNames, <<>>, Each(InsertConst, infer, list),
                 IF literal THEN GoDeclareAll(go, list, GoEntry("const"))
                 ELSE GoShort(go, list, [Var EXCEPT !.fixed = TRUE]))
    BY <1>10 DEF ConstDecl
  <2>2. list \in Seq(Idents)
    BY ListTypes
  <2>3. Each(InsertConst, infer, list) \in Joined(k, infer, Listed(list))
    BY <1>2, <2>2, DeclarationsJoin
  <2>4. GoDeclareAll(go, list, GoEntry("const")) \in Added(m, go, Listed(list))
    BY <1>2, <1>3, <2>2, GoListAdds
  <2>5. GoShort(go, list, [Var EXCEPT !.fixed = TRUE]) \in Added(m, go, Listed(list))
    BY <1>2, <1>3, <2>2, GoListAdds
  <2>6. (IF literal THEN GoDeclareAll(go, list, GoEntry("const"))
         ELSE GoShort(go, list, [Var EXCEPT !.fixed = TRUE])) \in Added(m, go, Listed(list))
    BY <2>4, <2>5
  <2> QED BY <1>4, <2>1, <2>3, <2>6
<1>11. CASE Assign
  <2>1. PICK n \in Target :
            Stmt(<<>>, {}, <<n>>, CheckVarMutable(InferIdent(infer, n), n), GoAssign(go, n))
    BY <1>11 DEF Assign
  <2>2. n \in Idents /\ <<>> \in Seq(Idents)
    BY <1>3
  <2>3. CheckVarMutable(InferIdent(infer, n), n) \in Looked(k, infer) /\ GoAssign(go, n) \in Touched(m, go)
    BY <1>2, <2>2, CheckerLooks, GoUses
  <2> QED BY <1>5, <2>1, <2>3
<1>12. CASE Reassign
  <2>1. PICK list \in Targets :
            Stmt(<<>>, {}, list, Each(InferIdent, infer, list), Each(GoAssign, go, list))
    BY <1>12 DEF Reassign
  <2>2. list \in Seq(Idents)
    BY ListTypes
  <2>3. Each(InferIdent, infer, list) \in Looked(k, infer) /\ Each(GoAssign, go, list) \in Touched(m, go)
    BY <1>2, <2>2, CheckerLooks, GoUses
  <2> QED BY <1>5, <2>1, <2>3
<1>13. CASE IncDec
  <2>1. PICK n \in Target : Stmt(<<>>, {}, <<n>>, Step(infer, n), GoStep(go, n))
    BY <1>13 DEF IncDec
  <2>2. n \in Idents /\ <<>> \in Seq(Idents)
    BY <1>3
  <2>3. Step(infer, n) \in Looked(k, infer) /\ GoStep(go, n) \in Touched(m, go)
    BY <1>2, <2>2, CheckerLooks, GoUses
  <2> QED BY <1>5, <2>1, <2>3
<1>14. CASE TryDecl
  <2>1. PICK list \in Lists :
            Stmt(list, ErrNames, <<>>, Each(InsertVar, infer, list), GoMix(go, list, Var))
    BY <1>14 DEF TryDecl
  <2>2. list \in Seq(Idents)
    BY ListTypes
  <2>3. Each(InsertVar, infer, list) \in Joined(k, infer, Listed(list))
    BY <1>2, <2>2, DeclarationsJoin
  <2>4. GoMix(go, list, Var) \in Added(m, go, Listed(list))
    BY <1>2, <1>3, <2>2, GoListAdds
  <2> QED BY <1>4, <2>1, <2>3, <2>4
<1> QED BY <1>6, <1>7, <1>8, <1>9, <1>10, <1>11, <1>12, <1>13, <1>14

-----------------------------------------------------------------------------
(* A block opens.                                                          *)

\* A scope that is opened has no names.
LEMMA ScopeOpens ==
    ASSUME NEW E, NEW k \in Nat, NEW s \in Seq(ScopesOf(E)), Len(s) = k, NEW j \in Nat, j = k + 1
    PROVE  /\ Len(Append(s, <<>>)) = j /\ DOMAIN Append(s, <<>>)[j] = {}
           /\ \A i \in 1..k : Append(s, <<>>)[i] = s[i]
<1>1. /\ Len(Append(s, <<>>)) = Len(s) + 1 /\ Append(s, <<>>)[Len(s) + 1] = <<>>
      /\ \A i \in 1..Len(s) : Append(s, <<>>)[i] = s[i]
  <2>1. <<>> \in ScopesOf(E)
    BY NewScope
  <2>2. s \in Seq(ScopesOf(E))
    OBVIOUS
  <2> QED BY <2>1, <2>2, AppendProperties
<1>2. DOMAIN <<>> = {}
  OBVIOUS
<1> QED BY <1>1, <1>2

\* A header's names are those of the scope opened for it.
LEMMA HeaderNames ==
    ASSUME NEW E, NEW k \in Nat, NEW s \in Seq(ScopesOf(E)), Len(s) = k, NEW j \in Nat, j = k + 1,
           NEW N, NEW t, Adds(Append(s, <<>>), t, N)
    PROVE  DOMAIN t[j] = N /\ \A i \in 1..k : DOMAIN t[i] = DOMAIN s[i]
<1> DEFINE new == Append(s, <<>>)
<1>1. Len(new) = j /\ DOMAIN new[j] = {} /\ \A i \in 1..k : new[i] = s[i]
  BY ScopeOpens
<1> HIDE DEF new
<1>2. DOMAIN t[j] = DOMAIN new[j] \cup N /\ \A i \in 1..(j - 1) : DOMAIN t[i] = DOMAIN new[i]
  BY <1>1 DEF Adds, new
<1>3. j - 1 = k
  OBVIOUS
<1> QED BY <1>1, <1>2, <1>3

\* The scopes of a block that has just one, or two of which the inner is empty.
LEMMA SpanOf ==
    ASSUME NEW s, NEW k \in Nat, NEW N
    PROVE  /\ DOMAIN s[k + 1] = N => Span(s, k, 1) = N
           /\ DOMAIN s[k + 1] = N /\ DOMAIN s[k + 2] = {} => Span(s, k, 2) = N
<1>1. (k + 1)..(k + 1) = {k + 1} /\ (k + 1)..(k + 2) = {k + 1, k + 2}
  OBVIOUS
<1>2. Span(s, k, 1) = DOMAIN s[k + 1]
  BY <1>1 DEF Span
<1>3. Span(s, k, 2) = DOMAIN s[k + 1] \cup DOMAIN s[k + 2]
  BY <1>1 DEF Span
<1> QED BY <1>2, <1>3

\* A block with a header agrees when the names that the two get are the same, the
\* checker may have more in an arm, and Go in a closure.
LEMMA HeaderAgrees ==
    ASSUME ScopesInv, Clean, Agree, blocks # <<>>,
           NEW kind \in {"arm", "case", "handler", "closure"}, NEW unlisted,
           NEW errs, NEW header, NEW N, NEW M,
           NEW inf \in Joined(InferDepth + 1, PushScope(infer), N), NEW g \in Added(GoDepth + 1, GoOpen(go), M),
           Enter(kind, unlisted, inf, lint, errs, header, g),
           kind # "closure" => M \subseteq N, kind # "arm" => N \subseteq M
    PROVE  Agree'
<1>1. CASE ~ Clean'
  BY <1>1 DEF Agree
<1>2. CASE Clean'
  <2> DEFINE p == InferDepth
             q == GoDepth
             j == p + 1
             l == q + 1
             block == Opened(kind, unlisted)
  <2>1. /\ infer' = PushScope(inf) /\ go' = g /\ blocks' = Append(blocks, block) /\ left' = left
    BY DEF Enter
  <2>2. /\ p \in Nat /\ q \in Nat /\ j \in Nat /\ l \in Nat /\ Len(infer.scopes) = p /\ Len(go.scopes) = q
    BY Stacks
  <2>3. infer.scopes \in Seq(ScopesOf(Entries)) /\ go.scopes \in Seq(ScopesOf(GoEntries))
    BY DEF ScopesInv, Checkers, Compilers
  <2>4. inf.errors = <<>> /\ g.refused = {}
    BY <1>2, <2>1 DEF Clean, PushScope
  <2>5. Adds(Append(infer.scopes, <<>>), inf.scopes, N) /\ inf.scopes \in Seq(ScopesOf(Entries)) /\ Len(inf.scopes) = j
    BY <2>4 DEF Joined, Checkers, PushScope
  <2>6. Adds(Append(go.scopes, <<>>), g.scopes, M)
    BY <2>4 DEF Added, GoOpen
  <2>7. infer'.scopes = Append(inf.scopes, <<>>)
    <3>1. inf \in [imported : ImportedNames, scopes : Seq(ScopesOf(Entries)), errors : Seq(Errors)]
      BY DEF Joined, Checkers
    <3> QED BY <2>1, <3>1 DEF PushScope
  <2>8. block.inferred = p /\ block.generated = q /\ block.kind = kind
    BY <2>2 DEF Opened
  <2> HIDE DEF block, p, q
  <2>9. DOMAIN inf.scopes[j] = N /\ \A i \in 1..p : DOMAIN inf.scopes[i] = DOMAIN infer.scopes[i]
    BY <2>2, <2>3, <2>5, HeaderNames
  <2>10. DOMAIN go'.scopes[l] = M /\ \A i \in 1..q : DOMAIN go'.scopes[i] = DOMAIN go.scopes[i]
    BY <2>1, <2>2, <2>3, <2>6, HeaderNames
  <2> DEFINE d == p + 2
  <2>11. d \in Nat /\ d = j + 1
    BY <2>2
  <2> HIDE DEF d, j, l
  <2>12. DOMAIN infer'.scopes[d] = {} /\ \A i \in 1..j : infer'.scopes[i] = inf.scopes[i]
    BY <2>2, <2>5, <2>7, <2>11, ScopeOpens
  <2>13. DOMAIN infer'.scopes[j] = N /\ \A i \in 1..p : DOMAIN infer'.scopes[i] = DOMAIN infer.scopes[i]
    <3>1. j \in 1..j /\ \A i \in 1..p : i \in 1..j
      BY <2>2 DEF j
    <3> QED BY <2>9, <2>12, <3>1
  <2>14. Span(infer'.scopes, p, 2) = N
    BY <2>2, <2>12, <2>13, SpanOf DEF j, d
  <2>15. Span(go'.scopes, q, 1) = M
    BY <2>2, <2>10, SpanOf DEF l
  <2>16. Inferred(kind) = 2 /\ Generated(kind) = 1
    BY DEF Inferred, Generated
  <2>17. Agrees(block, infer'.scopes, go'.scopes)
    BY <2>8, <2>14, <2>15, <2>16 DEF Agrees
  <2> QED BY <2>1, <2>10, <2>13, <2>17, EnterAgrees DEF p, q
<1> QED BY <1>1, <1>2

\* A block that has a header in Go too.
LEMMA TwoScopesAgree ==
    ASSUME ScopesInv, Clean, Agree, blocks # <<>>, NEW kind \in {"if", "for", "range"}, NEW unlisted,
           NEW errs, NEW header, NEW N,
           NEW inf \in Joined(InferDepth + 1, PushScope(infer), N), NEW g \in Added(GoDepth + 1, GoOpen(go), N),
           Enter(kind, unlisted, inf, lint, errs, header, GoOpen(g))
    PROVE  Agree'
<1>1. CASE ~ Clean'
  BY <1>1 DEF Agree
<1>2. CASE Clean'
  <2> DEFINE p == InferDepth
             q == GoDepth
             j == p + 1
             l == q + 1
             block == Opened(kind, unlisted)
  <2>1. /\ infer' = PushScope(inf) /\ go' = GoOpen(g) /\ blocks' = Append(blocks, block) /\ left' = left
    BY DEF Enter
  <2>2. /\ p \in Nat /\ q \in Nat /\ j \in Nat /\ l \in Nat /\ Len(infer.scopes) = p /\ Len(go.scopes) = q
    BY Stacks
  <2>3. infer.scopes \in Seq(ScopesOf(Entries)) /\ go.scopes \in Seq(ScopesOf(GoEntries))
    BY DEF ScopesInv, Checkers, Compilers
  <2>4. inf.errors = <<>> /\ g.refused = {}
    BY <1>2, <2>1 DEF Clean, PushScope, GoOpen
  <2>5. Adds(Append(infer.scopes, <<>>), inf.scopes, N) /\ inf.scopes \in Seq(ScopesOf(Entries)) /\ Len(inf.scopes) = j
    BY <2>4 DEF Joined, Checkers, PushScope
  <2>6. Adds(Append(go.scopes, <<>>), g.scopes, N) /\ g.scopes \in Seq(ScopesOf(GoEntries)) /\ Len(g.scopes) = l
    BY <2>4 DEF Added, Compilers, GoOpen
  <2>7. infer'.scopes = Append(inf.scopes, <<>>) /\ go'.scopes = Append(g.scopes, <<>>)
    <3>1. inf \in [imported : ImportedNames, scopes : Seq(ScopesOf(Entries)), errors : Seq(Errors)]
      BY DEF Joined, Checkers
    <3>2. g \in [scopes : Seq(ScopesOf(GoEntries)), refused : SUBSET Refusals]
      BY DEF Added, Compilers
    <3> QED BY <2>1, <3>1, <3>2 DEF PushScope, GoOpen
  <2>8. block.inferred = p /\ block.generated = q /\ block.kind = kind
    BY <2>2 DEF Opened
  <2> HIDE DEF block, p, q
  <2>9. DOMAIN inf.scopes[j] = N /\ \A i \in 1..p : DOMAIN inf.scopes[i] = DOMAIN infer.scopes[i]
    BY <2>2, <2>3, <2>5, HeaderNames
  <2>10. DOMAIN g.scopes[l] = N /\ \A i \in 1..q : DOMAIN g.scopes[i] = DOMAIN go.scopes[i]
    BY <2>2, <2>3, <2>6, HeaderNames
  <2> DEFINE d == p + 2
             e == q + 2
  <2>11. d \in Nat /\ d = j + 1 /\ e \in Nat /\ e = l + 1
    BY <2>2
  <2> HIDE DEF d, j, e, l
  <2>12. DOMAIN infer'.scopes[d] = {} /\ \A i \in 1..j : infer'.scopes[i] = inf.scopes[i]
    BY <2>2, <2>5, <2>7, <2>11, ScopeOpens
  <2>13. DOMAIN go'.scopes[e] = {} /\ \A i \in 1..l : go'.scopes[i] = g.scopes[i]
    BY <2>2, <2>6, <2>7, <2>11, ScopeOpens
  <2>14. DOMAIN infer'.scopes[j] = N /\ \A i \in 1..p : DOMAIN infer'.scopes[i] = DOMAIN infer.scopes[i]
    <3>1. j \in 1..j /\ \A i \in 1..p : i \in 1..j
      BY <2>2 DEF j
    <3> QED BY <2>9, <2>12, <3>1
  <2>15. DOMAIN go'.scopes[l] = N /\ \A i \in 1..q : DOMAIN go'.scopes[i] = DOMAIN go.scopes[i]
    <3>1. l \in 1..l /\ \A i \in 1..q : i \in 1..l
      BY <2>2 DEF l
    <3> QED BY <2>10, <2>13, <3>1
  <2>16. Span(infer'.scopes, p, 2) = N
    BY <2>2, <2>12, <2>14, SpanOf DEF j, d
  <2>17. Span(go'.scopes, q, 2) = N
    BY <2>2, <2>13, <2>15, SpanOf DEF l, e
  <2>18. Inferred(kind) = 2 /\ Generated(kind) = 2
    BY DEF Inferred, Generated
  <2>19. Agrees(block, infer'.scopes, go'.scopes)
    BY <2>8, <2>12, <2>13, <2>14, <2>15, <2>16, <2>17, <2>18 DEF Agrees, j, d, l, e
  <2> QED BY <2>1, <2>14, <2>15, <2>19, EnterAgrees DEF p, q
<1> QED BY <1>1, <1>2

\* The names of two lists, one after the other.
LEMMA BothListed ==
    ASSUME NEW a \in Seq(Idents), NEW b \in Seq(Idents)
    PROVE  a \o b \in Seq(Idents) /\ Listed(a \o b) = Listed(a) \cup Listed(b)
<1>1. InList(a \o b) = InList(a) \cup InList(b)
  <2>1. /\ Len(a \o b) = Len(a) + Len(b) /\ Len(a) \in Nat /\ Len(b) \in Nat
        /\ \A i \in 1..Len(a) : (a \o b)[i] = a[i]
        /\ \A i \in 1..Len(b) : (a \o b)[Len(a) + i] = b[i]
    BY ConcatProperties
  <2>2. InList(a \o b) \subseteq InList(a) \cup InList(b)
    <3> SUFFICES ASSUME NEW i \in 1..Len(a \o b)
                 PROVE  (a \o b)[i] \in InList(a) \cup InList(b)
      BY DEF InList
    <3>1. CASE i <= Len(a)
      BY <2>1, <3>1 DEF InList
    <3>2. CASE ~ i <= Len(a)
      <4>1. PICK j \in 1..Len(b) : i = Len(a) + j
        <5>1. i - Len(a) \in 1..Len(b) /\ i = Len(a) + (i - Len(a))
          BY <2>1, <3>2
        <5> QED BY <5>1
      <4> QED BY <2>1, <4>1 DEF InList
    <3> QED BY <3>1, <3>2
  <2>3. InList(a) \subseteq InList(a \o b)
    <3>1. \A i \in 1..Len(a) : i \in 1..Len(a \o b)
      BY <2>1
    <3> QED BY <2>1, <3>1 DEF InList
  <2>4. InList(b) \subseteq InList(a \o b)
    <3>1. \A i \in 1..Len(b) : Len(a) + i \in 1..Len(a \o b)
      BY <2>1
    <3> QED BY <2>1, <3>1 DEF InList
  <2> QED BY <2>2, <2>3, <2>4
<1>2. a \o b \in Seq(Idents)
  OBVIOUS
<1>3. Listed(a \o b) = Listed(a) \cup Listed(b)
  BY <1>1 DEF Listed
<1> QED BY <1>2, <1>3

\* A block with a header opens, when it is accepted, with the same names for both.
LEMMA BeginsAgree ==
    ASSUME ScopesInv, Agree,
           BeginIf \/ BeginRange \/ BeginArm \/ BeginCase \/ BeginHandler \/ BeginClosure
    PROVE  Agree'
<1> DEFINE k == InferDepth + 1
           m == GoDepth + 1
           scope == PushScope(infer)
<1>1. blocks # <<>> /\ Clean
  BY DEF BeginIf, BeginRange, BeginArm, BeginCase, BeginHandler, BeginClosure, InFunction, Reading, Clean
<1>2. InferDepth \in Nat /\ GoDepth \in Nat /\ k \in Nat \ {0} /\ m \in Nat \ {0}
  BY Depths
<1>3. /\ scope \in Checkers(k) /\ scope.errors = <<>> /\ GoOpen(go) \in Compilers(m)
      /\ Var \in GoEntries /\ Parameter \in GoEntries
  <2>1. infer.errors = <<>> /\ infer \in Checkers(InferDepth)
    BY <1>1, Readers DEF Clean
  <2>2. scope.errors = <<>>
    BY <2>1 DEF PushScope, Checkers
  <2>3. scope \in Checkers(k) /\ GoOpen(go) \in Compilers(m) /\ Var \in GoEntries /\ Parameter \in GoEntries
    BY <1>2, CheckerMoves, GoMoves, Readers
  <2> QED BY <2>2, <2>3
<1>4. ASSUME NEW kind \in {"arm", "case", "handler", "closure"}, NEW unlisted,
             NEW errs, NEW header, NEW N, NEW M,
             NEW inf \in Joined(k, PushScope(infer), N), NEW g \in Added(m, GoOpen(go), M),
             Enter(kind, unlisted, inf, lint, errs, header, g),
             kind # "closure" => M \subseteq N, kind # "arm" => N \subseteq M
      PROVE  Agree'
  BY <1>1, <1>4, HeaderAgrees
<1>5. ASSUME NEW kind \in {"if", "for", "range"}, NEW unlisted,
             NEW errs, NEW header, NEW N,
             NEW inf \in Joined(k, PushScope(infer), N), NEW g \in Added(m, GoOpen(go), N),
             Enter(kind, unlisted, inf, lint, errs, header, GoOpen(g))
      PROVE  Agree'
  BY <1>1, <1>5, TwoScopesAgree
<1> HIDE DEF k, m
<1>6. ASSUME NEW list \in Seq(Idents)
      PROVE  /\ Each(InsertVar, scope, list) \in Joined(k, scope, Listed(list))
             /\ InsertUntilError(scope, list) \in Joined(k, scope, Listed(list))
             /\ InsertShortDeclVars(scope, list) \in Joined(k, scope, Listed(list))
             /\ \A n \in Idents : InsertVar(scope, n) \in Joined(k, scope, Listed(<<n>>))
  <2> HIDE DEF scope
  <2> QED BY <1>2, <1>3, DeclarationsJoin
<1>7. ASSUME NEW list \in Seq(Idents)
      PROVE  /\ GoShort(GoOpen(go), list, Var) \in Added(m, GoOpen(go), Listed(list))
             /\ GoDeclareAll(GoOpen(go), list, Var) \in Added(m, GoOpen(go), Listed(list))
             /\ GoDeclareAll(GoOpen(go), list, Parameter) \in Added(m, GoOpen(go), Listed(list))
             /\ GoBindings(GoOpen(go), list) \in Added(m, GoOpen(go), Listed(list))
  <2>1. ASSUME NEW e \in GoEntries
        PROVE  /\ GoShort(GoOpen(go), list, e) \in Added(m, GoOpen(go), Listed(list))
               /\ GoDeclareAll(GoOpen(go), list, e) \in Added(m, GoOpen(go), Listed(list))
    BY <1>2, <1>3, GoListAdds
  <2>2. GoBindings(GoOpen(go), list) \in Added(m, GoOpen(go), Listed(list))
    BY <1>2, <1>3, GoBindingsAdd
  <2> QED BY <1>3, <2>1, <2>2
<1>8. CASE BeginIf
  <2>1. PICK kind \in {"if", "for"}, list \in Lists :
            Enter(kind, {},
                  IF Len(list) = 1 THEN InsertVar(scope, list[1]) ELSE InsertShortDeclVars(scope, list),
                  lint, ErrNames, list, GoOpen(GoShort(GoOpen(go), list, Var)))
    BY <1>8 DEF BeginIf
  <2>2. list \in Seq(Idents) /\ kind \in {"if", "for", "range"}
    BY ListTypes
  <2>3. (IF Len(list) = 1 THEN InsertVar(scope, list[1]) ELSE InsertShortDeclVars(scope, list))
            \in Joined(k, scope, Listed(list))
    <3>1. ASSUME Len(list) = 1 PROVE InsertVar(scope, list[1]) \in Joined(k, scope, Listed(list))
      <4>1. list[1] \in Idents
        BY <2>2, <3>1, ElementOfSeq
      <4>2. list = <<list[1]>>
        BY <2>2, <3>1
      <4>3. InsertVar(scope, list[1]) \in Joined(k, scope, Listed(<<list[1]>>))
        BY <1>6, <2>2, <4>1
      <4> QED BY <4>2, <4>3
    <3>2. InsertShortDeclVars(scope, list) \in Joined(k, scope, Listed(list))
      BY <1>6, <2>2
    <3> QED BY <3>1, <3>2
  <2>4. GoShort(GoOpen(go), list, Var) \in Added(m, GoOpen(go), Listed(list))
    BY <1>7, <2>2
  <2> QED BY <1>5, <2>1, <2>2, <2>3, <2>4
<1>9. CASE BeginRange
  <2>1. PICK list \in Lists :
            Enter("range", {}, Each(InsertVar, scope, list), lint, ErrNames, list,
                  GoOpen(GoShort(GoOpen(go), list, Var)))
    BY <1>9 DEF BeginRange
  <2>2. list \in Seq(Idents)
    BY ListTypes
  <2>3. Each(InsertVar, scope, list) \in Joined(k, scope, Listed(list))
    BY <1>6, <2>2
  <2>4. GoShort(GoOpen(go), list, Var) \in Added(m, GoOpen(go), Listed(list))
    BY <1>7, <2>2
  <2> QED BY <1>5, <2>1, <2>3, <2>4
<1>10. CASE BeginArm
  <2>1. PICK list \in Named, several \in BOOLEAN, struct \in BOOLEAN :
            Enter("arm", {},
                  IF several THEN Each(InsertVar, scope, list) ELSE InsertUntilError(scope, list),
                  lint, ErrNames, list,
                  IF several /\ ~ struct THEN GoOpen(go) ELSE GoBindings(GoOpen(go), list))
    BY <1>10 DEF BeginArm
  <2>2. list \in Seq(Idents)
    BY ListTypes
  <2>3. Each(InsertVar, scope, list) \in Joined(k, scope, Listed(list))
    BY <1>6, <2>2
  <2>4. InsertUntilError(scope, list) \in Joined(k, scope, Listed(list))
    BY <1>6, <2>2
  <2>5. (IF several THEN Each(InsertVar, scope, list) ELSE InsertUntilError(scope, list))
            \in Joined(k, scope, Listed(list))
    BY <2>3, <2>4
  <2>6. CASE several /\ ~ struct
    <3>1. GoOpen(go) \in Added(m, GoOpen(go), {})
      <4>1. Len(GoOpen(go).scopes) \in Nat \ {0}
        BY <1>2, <1>3 DEF Compilers
      <4>2. Adds(GoOpen(go).scopes, GoOpen(go).scopes, {})
        BY <4>1, AddsNone, SameNamesSelf
      <4> QED BY <1>3, <4>2 DEF Added
    <3>2. Enter("arm", {},
                IF several THEN Each(InsertVar, scope, list) ELSE InsertUntilError(scope, list),
                lint, ErrNames, list, GoOpen(go))
      BY <2>1, <2>6
    <3> HIDE DEF scope
    <3> DEFINE inf == IF several THEN Each(InsertVar, scope, list) ELSE InsertUntilError(scope, list)
    <3> HIDE DEF inf
    <3>3. Enter("arm", {}, inf, lint, ErrNames, list, GoOpen(go)) /\ inf \in Joined(k, scope, Listed(list))
      BY <2>5, <3>2 DEF inf
    <3> QED BY <1>4, <3>1, <3>3 DEF scope
  <2>7. CASE ~ (several /\ ~ struct)
    <3>1. GoBindings(GoOpen(go), list) \in Added(m, GoOpen(go), Listed(list))
      BY <1>7, <2>2
    <3>2. Enter("arm", {},
                IF several THEN Each(InsertVar, scope, list) ELSE InsertUntilError(scope, list),
                lint, ErrNames, list, GoBindings(GoOpen(go), list))
      BY <2>1, <2>7
    <3> HIDE DEF scope
    <3> DEFINE inf == IF several THEN Each(InsertVar, scope, list) ELSE InsertUntilError(scope, list)
    <3> HIDE DEF inf
    <3>3. /\ Enter("arm", {}, inf, lint, ErrNames, list, GoBindings(GoOpen(go), list))
          /\ inf \in Joined(k, scope, Listed(list))
      BY <2>5, <3>2 DEF inf
    <3> QED BY <1>4, <3>1, <3>3 DEF scope
  <2> QED BY <2>6, <2>7
<1>11. CASE BeginCase
  <2>1. PICK list \in Lists :
            Enter("case", {}, Each(InsertVar, scope, list), lint,
                  IF Len(list) = 1 THEN ErrNames ELSE ErrNames \ {list[2]}, list,
                  GoShort(GoOpen(go), list, Var))
    BY <1>11 DEF BeginCase
  <2>2. list \in Seq(Idents)
    BY ListTypes
  <2> DEFINE errs == IF Len(list) = 1 THEN ErrNames ELSE ErrNames \ {list[2]}
  <2>3. Enter("case", {}, Each(InsertVar, scope, list), lint, errs, list, GoShort(GoOpen(go), list, Var))
    BY <2>1
  <2> HIDE DEF errs
  <2>4. Each(InsertVar, scope, list) \in Joined(k, scope, Listed(list))
    BY <1>6, <2>2
  <2>5. GoShort(GoOpen(go), list, Var) \in Added(m, GoOpen(go), Listed(list))
    BY <1>7, <2>2
  <2> QED BY <1>4, <2>3, <2>4, <2>5
<1>12. CASE BeginHandler
  <2>1. PICK list \in {<<>>} \cup {<<n>> : n \in Names} :
            Enter("handler", {}, Each(InsertVar, scope, list), lint, Names, list,
                  GoDeclareAll(GoOpen(go), list, Var))
    BY <1>12 DEF BeginHandler
  <2>2. list \in Seq(Idents)
    <3>1. list = <<>> \/ \E n \in Names : list = <<n>>
      OBVIOUS
    <3>2. \A n \in Names : <<n>> \in Seq(Idents)
      <4>1. Names \subseteq Idents
        BY DEF Names
      <4> QED BY <4>1
    <3>3. <<>> \in Seq(Idents)
      OBVIOUS
    <3> QED BY <3>1, <3>2, <3>3
  <2>3. Each(InsertVar, scope, list) \in Joined(k, scope, Listed(list))
    BY <1>6, <2>2
  <2>4. GoDeclareAll(GoOpen(go), list, Var) \in Added(m, GoOpen(go), Listed(list))
    BY <1>7, <2>2
  <2> QED BY <1>4, <2>1, <2>3, <2>4
<1>13. CASE BeginClosure
  <2>1. PICK params \in Maybe, results \in Maybe :
            Enter("closure", InList(results), Each(InsertVar, scope, params), lint, ErrNames,
                  params, GoDeclareAll(GoOpen(go), params \o results, Parameter))
    BY <1>13 DEF BeginClosure
  <2>2. params \in Seq(Idents) /\ results \in Seq(Idents)
    BY ListTypes
  <2>3. params \o results \in Seq(Idents) /\ Listed(params) \subseteq Listed(params \o results)
    BY <2>2, BothListed
  <2>4. Each(InsertVar, scope, params) \in Joined(k, scope, Listed(params))
    BY <1>6, <2>2
  <2>5. GoDeclareAll(GoOpen(go), params \o results, Parameter) \in Added(m, GoOpen(go), Listed(params \o results))
    BY <1>7, <2>3
  <2> QED BY <1>4, <2>1, <2>3, <2>4, <2>5
<1> QED BY <1>8, <1>9, <1>10, <1>11, <1>12, <1>13

\* A block without a header has no names, nor has the second one of an if.
LEMMA BlocksAgree ==
    ASSUME ScopesInv, Agree, BeginBlock
    PROVE  Agree'
<1> DEFINE p == InferDepth
           q == GoDepth
           j == p + 1
           l == q + 1
           block == Opened("block", {})
<1>1. /\ Clean /\ infer' = PushScope(infer) /\ go' = GoOpen(go) /\ blocks' = Append(blocks, block) /\ left' = left
  BY DEF BeginBlock, InFunction, Reading, Clean
<1>2. p \in Nat /\ q \in Nat /\ j \in Nat /\ l \in Nat /\ Len(infer.scopes) = p /\ Len(go.scopes) = q
  BY Stacks
<1>3. infer.scopes \in Seq(ScopesOf(Entries)) /\ go.scopes \in Seq(ScopesOf(GoEntries))
  BY DEF ScopesInv, Checkers, Compilers
<1>4. infer'.scopes = Append(infer.scopes, <<>>) /\ go'.scopes = Append(go.scopes, <<>>)
  BY <1>1 DEF PushScope, GoOpen, ScopesInv, Checkers, Compilers
<1>5. block.inferred = p /\ block.generated = q /\ block.kind = "block"
  BY <1>2 DEF Opened
<1> HIDE DEF block, p, q
<1>6. DOMAIN infer'.scopes[j] = {} /\ \A i \in 1..p : infer'.scopes[i] = infer.scopes[i]
  BY <1>2, <1>3, <1>4, ScopeOpens
<1>7. DOMAIN go'.scopes[l] = {} /\ \A i \in 1..q : go'.scopes[i] = go.scopes[i]
  BY <1>2, <1>3, <1>4, ScopeOpens
<1>8. Span(infer'.scopes, p, 1) = {} /\ Span(go'.scopes, q, 1) = {}
  BY <1>2, <1>6, <1>7, SpanOf
<1>9. Inferred("block") = 1 /\ Generated("block") = 1
  BY DEF Inferred, Generated
<1>10. Agrees(block, infer'.scopes, go'.scopes)
  BY <1>5, <1>8, <1>9 DEF Agrees
<1> QED BY <1>1, <1>6, <1>7, <1>10, EnterAgrees DEF p, q

\* The innermost scope is closed and another one opened.
LEMMA ScopeRenewed ==
    ASSUME NEW E, NEW s \in Seq(ScopesOf(E)), NEW k \in Nat, NEW j \in Nat, j = k + 1, Len(s) = j
    PROVE  /\ DOMAIN Append(But(s, 1), <<>>)[j] = {}
           /\ \A i \in 1..k : Append(But(s, 1), <<>>)[i] = s[i]
<1> DEFINE t == But(s, 1)
<1>1. t \in Seq(ScopesOf(E)) /\ Len(t) = k /\ \A i \in 1..k : t[i] = s[i]
  <2>1. s \in Seq(ScopesOf(E)) /\ Len(s) \in Nat /\ Len(s) > 0 /\ Len(s) - 1 = k
    OBVIOUS
  <2>2. 1 \in 0..Len(s)
    BY <2>1
  <2>3. But(s, 1) \in Seq(ScopesOf(E)) /\ Len(But(s, 1)) = k
    BY <2>1, <2>2, SomeDropped
  <2>4. \A i \in 1..k : But(s, 1)[i] = s[i]
    BY <2>1 DEF But
  <2> QED BY <2>3, <2>4
<1> HIDE DEF t
<1>2. DOMAIN Append(t, <<>>)[j] = {} /\ \A i \in 1..k : Append(t, <<>>)[i] = t[i]
  BY <1>1, ScopeOpens
<1> QED BY <1>1, <1>2 DEF t

\* An else has the names of the header that its if had.
LEMMA ElseAgrees ==
    ASSUME ScopesInv, Agree, Else
    PROVE  Agree'
<1> DEFINE last == Len(blocks)
           p == blocks[last].inferred
           q == blocks[last].generated
           new == [blocks[last] EXCEPT !.kind = "else"]
<1>1. /\ blocks # <<>> /\ Last(blocks).kind = "if" /\ left' = left /\ Clean
      /\ infer' = PushScope(PopScope(infer)) /\ go' = GoOpen(GoClose(go))
      /\ blocks' = [blocks EXCEPT ![last] = new]
  BY DEF Else, Inside, InFunction, Reading, Clean
<1>2. left = 0 /\ DOMAIN infer.scopes[1] = {} /\ NamesAgree
  BY <1>1 DEF Agree
<1>3. blocks \in Seq(BlockTypes) /\ last \in Nat /\ last \in 1..last
  BY <1>1, TopBlock DEF ScopesInv, BlocksNest
<1>4. /\ p \in Nat /\ q \in Nat /\ p > 0 /\ Last(blocks) = blocks[last]
      /\ Len(infer.scopes) = p + 2 /\ Len(go.scopes) = q + 2
  <2>1. /\ Len(infer.scopes) = InferDepth /\ Len(go.scopes) = GoDepth
    BY Stacks
  <2>2. /\ InferDepth = p + Inferred(blocks[last].kind) /\ GoDepth = q + Generated(blocks[last].kind)
        /\ Last(blocks) = blocks[last]
    BY <1>1, TopBlock
  <2>3. Inferred("if") = 2 /\ Generated("if") = 2
    BY DEF Inferred, Generated
  <2>4. p \in Nat /\ q \in Nat
    BY <1>3, BlockStarts
  <2>5. p > 0
    BY <1>1, <1>2, <2>2, <2>4, Depths
  <2> QED BY <1>1, <2>1, <2>2, <2>3, <2>4, <2>5
<1>5. new.kind = "else" /\ new.inferred = p /\ new.generated = q
  BY <1>3 DEF BlockTypes
<1>6. Len(blocks') = last /\ blocks'[last] = new /\ \A b \in 1..last : b # last => blocks'[b] = blocks[b]
  BY <1>1, <1>3
<1>7. infer.scopes \in Seq(ScopesOf(Entries)) /\ go.scopes \in Seq(ScopesOf(GoEntries))
  BY DEF ScopesInv, Checkers, Compilers
<1>8. infer'.scopes = Append(But(infer.scopes, 1), <<>>) /\ go'.scopes = Append(But(go.scopes, 1), <<>>)
  BY <1>1 DEF PushScope, PopScope, GoOpen, GoClose, Refuse, ScopesInv, Checkers, Compilers
<1> DEFINE d == p + 2
           j == p + 1
           e == q + 2
           l == q + 1
<1>9. /\ d \in Nat /\ j \in Nat /\ e \in Nat /\ l \in Nat /\ d = j + 1 /\ e = l + 1
      /\ Len(infer.scopes) = d /\ Len(go.scopes) = e
  BY <1>4
<1>16. blocks[last].inferred = p /\ blocks[last].generated = q /\ blocks[last].kind = "if"
  BY <1>1, <1>4
<1> HIDE DEF d, j, e, l, new, p, q
<1>10. DOMAIN infer'.scopes[d] = {} /\ \A i \in 1..j : infer'.scopes[i] = infer.scopes[i]
  <2> DEFINE s == infer.scopes
  <2>1. s \in Seq(ScopesOf(Entries)) /\ Len(s) = d
    BY <1>7, <1>9
  <2> HIDE DEF s
  <2>2. DOMAIN Append(But(s, 1), <<>>)[d] = {} /\ \A i \in 1..j : Append(But(s, 1), <<>>)[i] = s[i]
    BY <1>9, <2>1, ScopeRenewed
  <2> QED BY <1>8, <2>2 DEF s
<1>11. DOMAIN go'.scopes[e] = {} /\ \A i \in 1..l : go'.scopes[i] = go.scopes[i]
  <2> DEFINE t == go.scopes
  <2>1. t \in Seq(ScopesOf(GoEntries)) /\ Len(t) = e
    BY <1>7, <1>9
  <2> HIDE DEF t
  <2>2. DOMAIN Append(But(t, 1), <<>>)[e] = {} /\ \A i \in 1..l : Append(But(t, 1), <<>>)[i] = t[i]
    BY <1>9, <2>1, ScopeRenewed
  <2> QED BY <1>8, <2>2 DEF t
<1>12. DOMAIN infer'.scopes[j] = DOMAIN go'.scopes[l]
  <2>1. Agrees(blocks[last], infer.scopes, go.scopes)
    BY <1>2, <1>3 DEF NamesAgree
  <2>2. Generated(blocks[last].kind) = 2
    BY <1>16 DEF Generated
  <2>3. DOMAIN infer.scopes[j] = DOMAIN go.scopes[l]
    BY <1>16, <2>1, <2>2 DEF Agrees, j, l
  <2>4. j \in 1..j /\ l \in 1..l
    BY <1>4, <1>9 DEF j, l
  <2> QED BY <1>10, <1>11, <2>3, <2>4
<1>13. Agrees(new, infer'.scopes, go'.scopes)
  <2> DEFINE N == DOMAIN infer'.scopes[j]
  <2>1. Span(infer'.scopes, p, 2) = N
    BY <1>4, <1>10, SpanOf DEF d, j
  <2>2. Span(go'.scopes, q, 2) = N
    BY <1>4, <1>11, <1>12, SpanOf DEF e, l
  <2>3. Inferred("else") = 2 /\ Generated("else") = 2
    BY DEF Inferred, Generated
  <2>4. DOMAIN infer'.scopes[p + 1] = DOMAIN go'.scopes[q + 1]
    BY <1>12 DEF j, l
  <2>5. DOMAIN infer'.scopes[p + 2] = DOMAIN go'.scopes[q + 2]
    BY <1>10, <1>11 DEF d, e
  <2> HIDE DEF N
  <2> QED BY <1>5, <2>1, <2>2, <2>3, <2>4, <2>5 DEF Agrees
<1>14. ASSUME NEW b \in 1..last, b # last PROVE Agrees(blocks[b], infer'.scopes, go'.scopes)
  <2> DEFINE u == blocks[b].inferred + Inferred(blocks[b].kind)
             w == blocks[b].generated + Generated(blocks[b].kind)
  <2>1. Agrees(blocks[b], infer.scopes, go.scopes)
    BY <1>2 DEF NamesAgree
  <2>2. blocks[b].inferred \in Nat /\ blocks[b].generated \in Nat /\ u \in Nat /\ w \in Nat
    BY BlockStarts
  <2>3. u <= p /\ w <= q
    <3>1. b < last
      BY <1>3, <1>14
    <3> QED BY <1>3, <1>16, <3>1, BlockOrder DEF u, w
  <2> HIDE DEF u, w
  <2>4. /\ \A i \in 1..u : DOMAIN infer'.scopes[i] = DOMAIN infer.scopes[i]
        /\ \A i \in 1..w : DOMAIN go'.scopes[i] = DOMAIN go.scopes[i]
    <3>1. \A i \in 1..u : i \in 1..j
      BY <1>4, <2>2, <2>3 DEF j
    <3>2. \A i \in 1..w : i \in 1..l
      BY <1>4, <2>2, <2>3 DEF l
    <3> QED BY <1>10, <1>11, <3>1, <3>2
  <2> QED BY <2>1, <2>2, <2>4, AgreesStill DEF u, w
<1>15. NamesAgree'
  BY <1>6, <1>13, <1>14 DEF NamesAgree
<1>17. DOMAIN infer'.scopes[1] = {}
  <2>1. 1 \in 1..j
    BY <1>4 DEF j
  <2> QED BY <1>2, <1>10, <2>1
<1> QED BY <1>1, <1>2, <1>15, <1>17 DEF Agree

\* A function's receiver, parameters and results are names of both, when they are accepted.
LEMMA FuncAgrees ==
    ASSUME ScopesInv, Agree, BeginFunc
    PROVE  Agree'
<1>1. PICK receiver \in Maybe : \E params, results \in Maybe :
          /\ infer' = InsertResults(PushScope(Header(receiver, params)), results)
          /\ go' = GoDeclareAll(GoOpen(go), receiver \o params \o results, Parameter)
          /\ blocks' = <<Opened("func", InList(receiver \o results))>>
  BY DEF BeginFunc
<1>2. PICK params \in Maybe, results \in Maybe :
          /\ infer' = InsertResults(PushScope(Header(receiver, params)), results)
          /\ go' = GoDeclareAll(GoOpen(go), receiver \o params \o results, Parameter)
          /\ blocks' = <<Opened("func", InList(receiver \o results))>>
  BY <1>1
<1> DEFINE names == receiver \o params
           header == Header(receiver, params)
           body == PushScope(header)
           block == Opened("func", InList(receiver \o results))
<1>3. blocks = <<>> /\ left' = left /\ Clean
  BY DEF BeginFunc, Reading, Clean
<1>4. left = 0 /\ DOMAIN infer.scopes[1] = {}
  BY <1>3 DEF Agree
<1>5. /\ header \in Checkers(2 + left) /\ InferDepth = 1 + left
      /\ go \in Compilers(0) /\ receiver \in Seq(Idents) /\ params \in Seq(Idents) /\ names \in Seq(Idents)
  BY <1>3, HeaderKeeps
<1>6. /\ results \in Seq(Idents) /\ names \o results \in Seq(Idents)
      /\ Listed(names \o results) = Listed(names) \cup Listed(results)
  <2>1. results \in Seq(Idents)
    BY ListTypes
  <2> HIDE DEF names
  <2> QED BY <1>5, <2>1, BothListed
<1>7. CASE ~ Clean'
  BY <1>7 DEF Agree
<1>8. CASE Clean'
  <2>1. infer'.errors = <<>> /\ go'.refused = {}
    BY <1>8 DEF Clean
  <2>2. infer \in Checkers(1) /\ PushScope(infer) \in Checkers(2) /\ PushScope(infer).errors = <<>>
    <3>1. infer \in Checkers(1) /\ infer.errors = <<>>
      BY <1>3, <1>4, <1>5, Readers DEF Clean
    <3>2. PushScope(infer) \in Checkers(1 + 1)
      BY <3>1, CheckerMoves
    <3>3. PushScope(infer).errors = <<>>
      BY <3>1 DEF PushScope, Checkers
    <3> QED BY <3>1, <3>2, <3>3
  <2>3. header \in Checkers(2) /\ body \in Checkers(3)
    <3>1. header \in Checkers(2)
      BY <1>4, <1>5
    <3> HIDE DEF header
    <3>2. PushScope(header) \in Checkers(2 + 1)
      BY <3>1, CheckerMoves
    <3> QED BY <3>1, <3>2
  <2>4. header \in Joined(2, PushScope(infer), Listed(names))
    <3> DEFINE scope == PushScope(infer)
    <3>1. header = InsertUntilError(scope, names)
      BY DEF Header
    <3>2. scope \in Checkers(2) /\ scope.errors = <<>> /\ names \in Seq(Idents) /\ 2 \in Nat \ {0}
      BY <1>5, <2>2
    <3> HIDE DEF scope, names, header
    <3>3. InsertUntilError(scope, names) \in Joined(2, scope, Listed(names))
      BY <3>2, DeclarationsJoin
    <3> QED BY <3>1, <3>3 DEF scope
  <2>5. infer' \in Joined(3, body, Listed(results))
    <3> HIDE DEF body
    <3>1. 3 \in Nat \ {0} /\ infer' = InsertResults(body, results)
      BY <1>2 DEF body
    <3> QED BY <1>6, <2>3, <3>1, ResultsJoin
  <2>6. body.errors = <<>> /\ Adds(body.scopes, infer'.scopes, Listed(results))
    BY <2>1, <2>5 DEF Joined
  <2>7. header.errors = <<>> /\ Adds(PushScope(infer).scopes, header.scopes, Listed(names))
    <3>1. header.errors = body.errors
      BY <2>3 DEF PushScope, Checkers
    <3> QED BY <2>4, <2>6, <3>1 DEF Joined
  <2>8. go' \in Added(1, GoOpen(go), Listed(names \o results))
    <3> DEFINE list == names \o results
               g == GoOpen(go)
    <3>1. g \in Compilers(1) /\ Parameter \in GoEntries /\ list \in Seq(Idents) /\ 1 \in Nat \ {0}
      <4>1. GoOpen(go) \in Compilers(0 + 1)
        BY <1>5, GoMoves
      <4> QED BY <1>6, <4>1, Readers
    <3> HIDE DEF list, g
    <3>2. GoDeclareAll(g, list, Parameter) \in Added(1, g, Listed(list))
      BY <3>1, GoListAdds
    <3> QED BY <1>2, <3>2 DEF list, g
  <2>9. Adds(GoOpen(go).scopes, go'.scopes, Listed(names \o results))
    BY <2>1, <2>8 DEF Added
  <2>10. /\ DOMAIN header.scopes[2] = Listed(names) /\ DOMAIN header.scopes[1] = {}
    <3> DEFINE s == infer.scopes
               t == header.scopes
    <3>1. s \in Seq(ScopesOf(Entries)) /\ Len(s) = 1 /\ DOMAIN s[1] = {}
      BY <1>4, <2>2 DEF Checkers
    <3>2. Adds(Append(s, <<>>), t, Listed(names))
      BY <2>2, <2>7 DEF PushScope, Checkers
    <3> HIDE DEF s, t
    <3>3. 1 \in Nat /\ 2 \in Nat /\ 2 = 1 + 1
      OBVIOUS
    <3>4. DOMAIN t[2] = Listed(names) /\ \A i \in 1..1 : DOMAIN t[i] = DOMAIN s[i]
      BY <3>1, <3>2, <3>3, HeaderNames
    <3> QED BY <3>1, <3>4 DEF t
  <2>11. /\ DOMAIN infer'.scopes[3] = Listed(results)
         /\ DOMAIN infer'.scopes[2] = Listed(names) /\ DOMAIN infer'.scopes[1] = {}
    <3> DEFINE s == header.scopes
               t == infer'.scopes
    <3>1. s \in Seq(ScopesOf(Entries)) /\ Len(s) = 2
      BY <2>3 DEF Checkers
    <3>2. Adds(Append(s, <<>>), t, Listed(results))
      BY <2>3, <2>6 DEF PushScope, Checkers
    <3> HIDE DEF s, t, header
    <3>3. 3 \in Nat /\ 2 \in Nat /\ 3 = 2 + 1
      OBVIOUS
    <3>4. DOMAIN t[3] = Listed(results) /\ \A i \in 1..2 : DOMAIN t[i] = DOMAIN s[i]
      BY <3>1, <3>2, <3>3, HeaderNames
    <3> QED BY <2>10, <3>4 DEF s, t
  <2>12. DOMAIN go'.scopes[1] = Listed(names \o results)
    <3> DEFINE s == go.scopes
               t == go'.scopes
               N == Listed(names \o results)
    <3>1. s \in Seq(ScopesOf(GoEntries)) /\ Len(s) = 0
      BY <1>5 DEF Compilers
    <3>2. Adds(Append(s, <<>>), t, N)
      BY <1>5, <2>9 DEF GoOpen, Compilers
    <3>3. DOMAIN Append(s, <<>>)[1] = {} /\ Len(Append(s, <<>>)) = 1
      <4>1. s = <<>>
        BY <3>1
      <4> QED BY <4>1
    <3>4. DOMAIN t[1] = DOMAIN Append(s, <<>>)[1] \cup N
      <4> HIDE DEF s, t, N
      <4> QED BY <3>2, <3>3 DEF Adds
    <3> QED BY <3>4, <3>3 DEF t, N
  <2>13. block.kind = "func" /\ block.inferred = 1 /\ block.generated = 0 /\ blocks' = <<block>>
    <3>1. Len(infer.scopes) = 1 /\ Len(go.scopes) = 0
      BY <1>5, <2>2 DEF Checkers, Compilers
    <3> QED BY <1>2, <3>1 DEF Opened
  <2> HIDE DEF block, names
  <2>14. Span(infer'.scopes, 1, 2) = Listed(names) \cup Listed(results)
    <3>1. (1 + 1)..(1 + 2) = {2, 3}
      OBVIOUS
    <3>2. Span(infer'.scopes, 1, 2) = DOMAIN infer'.scopes[2] \cup DOMAIN infer'.scopes[3]
      BY <3>1 DEF Span
    <3> QED BY <2>11, <3>2
  <2>15. Span(go'.scopes, 0, 1) = Listed(names \o results)
    <3>1. (0 + 1)..(0 + 1) = {1}
      OBVIOUS
    <3>2. Span(go'.scopes, 0, 1) = DOMAIN go'.scopes[1]
      BY <3>1 DEF Span
    <3> QED BY <2>12, <3>2
  <2>16. Inferred("func") = 2 /\ Generated("func") = 1
    BY DEF Inferred, Generated
  <2>17. Agrees(block, infer'.scopes, go'.scopes)
    BY <1>6, <2>13, <2>14, <2>15, <2>16 DEF Agrees
  <2>18. NamesAgree'
    <3>1. Len(blocks') = 1 /\ blocks'[1] = block
      BY <2>13
    <3> QED BY <2>17, <3>1 DEF NamesAgree
  <2> QED BY <1>3, <1>4, <2>11, <2>18 DEF Agree
<1> QED BY <1>7, <1>8

\* A function that is left early is not accepted.
LEMMA EarlyAgrees ==
    ASSUME LeaveEarly
    PROVE  Agree'
<1>1. infer.errors = <<>> /\ infer'.errors # infer.errors
  BY DEF LeaveEarly, Reading
<1> QED BY <1>1 DEF Agree, Clean

-----------------------------------------------------------------------------
(* A block ends.                                                           *)

\* The scopes that are left are what they were.
LEMMA ScopesStay ==
    ASSUME NEW j \in Nat, NEW k \in Nat, j = k + 1
    PROVE  /\ \A inf \in Checkers(j) :
                /\ PopScope(inf) \in Checkers(k) /\ PopScope(inf).errors = inf.errors
                /\ \A i \in 1..k : PopScope(inf).scopes[i] = inf.scopes[i]
           /\ \A inf \in Checkers(j) :
                /\ CheckUnusedVars(inf) \in Checkers(j) /\ CheckUnusedVars(inf).scopes = inf.scopes
           /\ \A g \in Compilers(j) :
                /\ GoClose(g) \in Compilers(k) /\ (GoClose(g).refused = {} => g.refused = {})
                /\ \A i \in 1..k : GoClose(g).scopes[i] = g.scopes[i]
<1>1. ASSUME NEW inf \in Checkers(j)
      PROVE  /\ PopScope(inf) \in Checkers(k) /\ PopScope(inf).errors = inf.errors
             /\ \A i \in 1..k : PopScope(inf).scopes[i] = inf.scopes[i]
  <2>1. PopScope(inf) \in Checkers(k)
    BY OneLess
  <2>2. PopScope(inf).scopes = But(inf.scopes, 1) /\ PopScope(inf).errors = inf.errors /\ Len(inf.scopes) = j
    BY DEF PopScope, Checkers
  <2>3. \A i \in 1..k : But(inf.scopes, 1)[i] = inf.scopes[i]
    <3>1. Len(inf.scopes) - 1 = k
      BY <2>2
    <3> QED BY <3>1 DEF But
  <2> QED BY <2>1, <2>2, <2>3
<1>2. ASSUME NEW inf \in Checkers(j)
      PROVE  CheckUnusedVars(inf) \in Checkers(j) /\ CheckUnusedVars(inf).scopes = inf.scopes
  <2>1. CheckUnusedVars(inf) \in Checkers(j)
    BY OneLess
  <2>2. CheckUnusedVars(inf).scopes = inf.scopes
    <3> DEFINE unused == {n \in DOMAIN Last(inf.scopes) : ~ Last(inf.scopes)[n].used}
    <3>1. EmitError(inf, "UnusedVariable", unused).scopes = inf.scopes
      BY ErrorShows
    <3>2. CheckUnusedVars(inf) = IF unused = {} THEN inf ELSE EmitError(inf, "UnusedVariable", unused)
      BY DEF CheckUnusedVars
    <3> HIDE DEF unused
    <3> QED BY <3>1, <3>2
  <2> QED BY <2>1, <2>2
<1>3. ASSUME NEW g \in Compilers(j)
      PROVE  /\ GoClose(g) \in Compilers(k) /\ (GoClose(g).refused = {} => g.refused = {})
             /\ \A i \in 1..k : GoClose(g).scopes[i] = g.scopes[i]
  <2>1. GoClose(g) \in Compilers(k)
    BY OneLess
  <2>2. \E extra : GoClose(g).refused = g.refused \cup extra
    BY DEF GoClose, Refuse, Compilers
  <2>3. GoClose(g).scopes = But(g.scopes, 1) /\ Len(g.scopes) = j
    BY DEF GoClose, Refuse, Compilers
  <2>4. \A i \in 1..k : But(g.scopes, 1)[i] = g.scopes[i]
    <3>1. Len(g.scopes) - 1 = k
      BY <2>3
    <3> QED BY <3>1 DEF But
  <2> QED BY <2>1, <2>2, <2>3, <2>4
<1> QED BY <1>1, <1>2, <1>3

\* After a block what is left agrees as before it.
LEMMA EndsAgree ==
    ASSUME ScopesInv, Agree, EndFunc \/ EndBlock \/ EndIf \/ EndFor \/ EndHandler \/ EndArm
    PROVE  Agree'
<1> DEFINE n == Last(blocks).inferred
           m == Last(blocks).generated
           kind == Last(blocks).kind
           n1 == n + 1
           n2 == n + 2
           m1 == m + 1
           m2 == m + 2
<1>1. blocks # <<>> /\ blocks' = But(blocks, 1) /\ left' = left /\ Clean
  BY DEF EndFunc, EndBlock, EndIf, EndFor, EndHandler, EndArm, Leave, Inside, InFunction, Reading, Clean
<1>2. n \in Nat /\ m \in Nat /\ infer \in Checkers(n + Inferred(kind)) /\ go \in Compilers(m + Generated(kind))
  BY <1>1, Depths, Readers
<1>3. ASSUME \A i \in 1..n : DOMAIN infer'.scopes[i] = DOMAIN infer.scopes[i],
             \A i \in 1..m : DOMAIN go'.scopes[i] = DOMAIN go.scopes[i]
      PROVE  Agree'
  BY <1>1, <1>3, LeaveAgrees
<1>4. n1 \in Nat /\ n2 \in Nat /\ m1 \in Nat /\ m2 \in Nat /\ n1 = n + 1 /\ n2 = n1 + 1 /\ m1 = m + 1 /\ m2 = m1 + 1
  BY <1>2
<1>5. Inferred(kind) = 2 => infer \in Checkers(n2)
  BY <1>2
<1>6. /\ Inferred(kind) = 1 => infer \in Checkers(n1)
      /\ Generated(kind) = 1 => go \in Compilers(m1)
      /\ Generated(kind) = 2 => go \in Compilers(m2)
  BY <1>2
<1>7. \A i \in 1..n : i \in 1..n1
  BY <1>2
<1>8. \A i \in 1..m : i \in 1..m1
  BY <1>2
<1> HIDE DEF n, m, n1, n2, m1, m2
<1>9. ASSUME NEW inf \in Checkers(n1)
      PROVE  PopScope(inf) \in Checkers(n) /\ (\A i \in 1..n : PopScope(inf).scopes[i] = inf.scopes[i])
             /\ PopScope(inf).errors = inf.errors
  BY <1>2, <1>4, ScopesStay
<1>10. ASSUME NEW inf \in Checkers(n2)
       PROVE  PopScope(inf) \in Checkers(n1) /\ (\A i \in 1..n1 : PopScope(inf).scopes[i] = inf.scopes[i])
              /\ PopScope(inf).errors = inf.errors
  BY <1>4, ScopesStay
<1>11. ASSUME NEW g \in Compilers(m1)
       PROVE  GoClose(g) \in Compilers(m) /\ (\A i \in 1..m : GoClose(g).scopes[i] = g.scopes[i])
              /\ (GoClose(g).refused = {} => g.refused = {})
  BY <1>2, <1>4, ScopesStay
<1>12. ASSUME NEW g \in Compilers(m2)
       PROVE  GoClose(g) \in Compilers(m1) /\ (\A i \in 1..m1 : GoClose(g).scopes[i] = g.scopes[i])
              /\ (GoClose(g).refused = {} => g.refused = {})
  BY <1>4, ScopesStay
<1>13. CASE EndFunc
  <2>1. kind = "func" /\ infer' = PopScope(PopScope(CheckUnusedVars(infer))) /\ go' = GoClose(go)
    BY <1>13 DEF EndFunc, Leave, Inside
  <2>2. Inferred("func") = 2 /\ Generated("func") = 1
    BY DEF Inferred, Generated
  <2>3. infer \in Checkers(n2) /\ go \in Compilers(m1)
    BY <1>5, <1>6, <2>1, <2>2
  <2>4. CheckUnusedVars(infer) \in Checkers(n2) /\ CheckUnusedVars(infer).scopes = infer.scopes
    BY <1>4, <2>3, ScopesStay
  <2>5. \A i \in 1..n : infer'.scopes[i] = infer.scopes[i]
    BY <1>7, <1>9, <1>10, <2>1, <2>4
  <2>6. \A i \in 1..m : go'.scopes[i] = go.scopes[i]
    BY <1>11, <2>1, <2>3
  <2> QED BY <1>3, <2>5, <2>6
<1>14. CASE EndBlock
  <2>1. kind = "block" /\ infer' = PopScope(infer) /\ go' = GoClose(go)
    BY <1>14 DEF EndBlock, Leave, Inside
  <2>2. Inferred("block") = 1 /\ Generated("block") = 1
    BY DEF Inferred, Generated
  <2>3. infer \in Checkers(n1) /\ go \in Compilers(m1)
    BY <1>6, <2>1, <2>2
  <2>4. \A i \in 1..n : infer'.scopes[i] = infer.scopes[i]
    BY <1>9, <2>1, <2>3
  <2>5. \A i \in 1..m : go'.scopes[i] = go.scopes[i]
    BY <1>11, <2>1, <2>3
  <2> QED BY <1>3, <2>4, <2>5
<1>15. CASE EndIf
  <2>1. /\ kind \in {"if", "else", "range"}
        /\ infer' = PopScope(PopScope(infer)) /\ go' = GoClose(GoClose(go))
    BY <1>15 DEF EndIf, Leave, Inside
  <2>2. Inferred(kind) = 2 /\ Generated(kind) = 2
    BY <2>1 DEF Inferred, Generated
  <2>3. infer \in Checkers(n2) /\ go \in Compilers(m2)
    BY <1>5, <1>6, <2>2
  <2>4. \A i \in 1..n : infer'.scopes[i] = infer.scopes[i]
    BY <1>7, <1>9, <1>10, <2>1, <2>3
  <2>5. \A i \in 1..m : go'.scopes[i] = go.scopes[i]
    BY <1>8, <1>11, <1>12, <2>1, <2>3
  <2> QED BY <1>3, <2>4, <2>5
<1>16. CASE EndFor
  <2>1. PICK post \in {<<>>} \cup {<<x>> : x \in Target} :
            Leave({"for"}, PopScope(Each(Step, PopScope(infer), post)), 2,
                  GoClose(Each(GoStep, GoClose(go), post)))
    BY <1>16 DEF EndFor
  <2>2. post \in Seq(Idents)
    <3>1. post = <<>> \/ \E x \in Target : post = <<x>>
      OBVIOUS
    <3>2. \A x \in Target : <<x>> \in Seq(Idents)
      <4>1. Target \subseteq Idents
        BY DEF Target, Names
      <4> QED BY <4>1
    <3>3. <<>> \in Seq(Idents)
      OBVIOUS
    <3> QED BY <3>1, <3>2, <3>3
  <2> DEFINE inf == Each(Step, PopScope(infer), post)
             g == Each(GoStep, GoClose(go), post)
  <2>3. kind = "for" /\ infer' = PopScope(inf) /\ go' = GoClose(g)
    BY <2>1 DEF Leave, Inside
  <2>4. Inferred("for") = 2 /\ Generated("for") = 2
    BY DEF Inferred, Generated
  <2>5. infer \in Checkers(n2) /\ go \in Compilers(m2)
    BY <1>5, <1>6, <2>3, <2>4
  <2>6. n1 \in Nat \ {0} /\ m1 \in Nat \ {0}
    BY <1>2, <1>4
  <2>7. PopScope(infer) \in Checkers(n1) /\ GoClose(go) \in Compilers(m1)
    BY <1>10, <1>12, <2>5
  <2>8. inf \in Looked(n1, PopScope(infer))
    BY <2>2, <2>6, <2>7, CheckerLooks
  <2>9. g \in Touched(m1, GoClose(go))
    BY <2>2, <2>6, <2>7, GoUses
  <2> HIDE DEF inf, g
  <2>10. inf \in Checkers(n1) /\ g \in Compilers(m1)
    BY <2>8, <2>9 DEF Looked, Touched
  <2>11. CASE ~ Clean'
    BY <2>11 DEF Agree
  <2>12. CASE Clean'
    <3>1. inf.errors = <<>> /\ g.refused = {}
      BY <1>9, <1>11, <2>3, <2>10, <2>12 DEF Clean
    <3>2. SameNames(PopScope(infer).scopes, inf.scopes) /\ SameNames(GoClose(go).scopes, g.scopes)
      BY <2>8, <2>9, <3>1 DEF Looked, Touched
    <3>3. Len(PopScope(infer).scopes) = n1 /\ Len(GoClose(go).scopes) = m1
      BY <2>7 DEF Checkers, Compilers
    <3>4. \A i \in 1..n : DOMAIN infer'.scopes[i] = DOMAIN infer.scopes[i]
      <4>1. \A i \in 1..n1 : DOMAIN inf.scopes[i] = DOMAIN PopScope(infer).scopes[i]
        BY <3>2, <3>3 DEF SameNames
      <4>2. \A i \in 1..n1 : PopScope(infer).scopes[i] = infer.scopes[i]
        BY <1>10, <2>5
      <4>3. \A i \in 1..n : infer'.scopes[i] = inf.scopes[i]
        BY <1>9, <2>3, <2>10
      <4> QED BY <1>7, <4>1, <4>2, <4>3
    <3>5. \A i \in 1..m : DOMAIN go'.scopes[i] = DOMAIN go.scopes[i]
      <4>1. \A i \in 1..m1 : DOMAIN g.scopes[i] = DOMAIN GoClose(go).scopes[i]
        BY <3>2, <3>3 DEF SameNames
      <4>2. \A i \in 1..m1 : GoClose(go).scopes[i] = go.scopes[i]
        BY <1>12, <2>5
      <4>3. \A i \in 1..m : go'.scopes[i] = g.scopes[i]
        BY <1>11, <2>3, <2>10
      <4> QED BY <1>8, <4>1, <4>2, <4>3
    <3> QED BY <1>3, <3>4, <3>5
  <2> QED BY <2>11, <2>12
<1>17. CASE EndHandler
  <2>1. kind = "handler" /\ infer' = PopScope(CheckUnusedVars(PopScope(infer))) /\ go' = GoClose(go)
    BY <1>17 DEF EndHandler, Leave, Inside
  <2>2. Inferred("handler") = 2 /\ Generated("handler") = 1
    BY DEF Inferred, Generated
  <2>3. infer \in Checkers(n2) /\ go \in Compilers(m1)
    BY <1>5, <1>6, <2>1, <2>2
  <2> DEFINE inf == PopScope(infer)
  <2>4. inf \in Checkers(n1) /\ \A i \in 1..n1 : inf.scopes[i] = infer.scopes[i]
    BY <1>10, <2>3
  <2> HIDE DEF inf
  <2>5. CheckUnusedVars(inf) \in Checkers(n1) /\ CheckUnusedVars(inf).scopes = inf.scopes
    BY <1>4, <1>2, <2>4, ScopesStay
  <2>6. \A i \in 1..n : infer'.scopes[i] = infer.scopes[i]
    BY <1>7, <1>9, <2>1, <2>4, <2>5 DEF inf
  <2>7. \A i \in 1..m : go'.scopes[i] = go.scopes[i]
    BY <1>11, <2>1, <2>3
  <2> QED BY <1>3, <2>6, <2>7
<1>18. CASE EndArm
  <2>1. /\ kind \in {"arm", "case", "closure"}
        /\ infer' = PopScope(PopScope(infer)) /\ go' = GoClose(go)
    BY <1>18 DEF EndArm, Leave, Inside
  <2>2. Inferred(kind) = 2 /\ Generated(kind) = 1
    BY <2>1 DEF Inferred, Generated
  <2>3. infer \in Checkers(n2) /\ go \in Compilers(m1)
    BY <1>5, <1>6, <2>2
  <2>4. \A i \in 1..n : infer'.scopes[i] = infer.scopes[i]
    BY <1>7, <1>9, <1>10, <2>1, <2>3
  <2>5. \A i \in 1..m : go'.scopes[i] = go.scopes[i]
    BY <1>11, <2>1, <2>3
  <2> QED BY <1>3, <2>4, <2>5
<1> QED BY <1>13, <1>14, <1>15, <1>16, <1>17, <1>18

\* In a file that is accepted so far, what a block declares is declared for checker
\* and Go alike, but for the results of a closure and the bindings of several patterns.
THEOREM NamesKept == ScopesSpec => []Agree
<1>1. ScopesInit => Agree
  <2> SUFFICES ASSUME ScopesInit PROVE Agree
    OBVIOUS
  <2>1. left = 0 /\ blocks = <<>> /\ infer.scopes = <<<<>>>>
    BY DEF ScopesInit
  <2>2. DOMAIN infer.scopes[1] = {}
    BY <2>1
  <2>3. NamesAgree
    BY <2>1 DEF NamesAgree
  <2> QED BY <2>1, <2>2, <2>3 DEF Agree
<1>2. ScopesInv /\ Agree /\ [ScopesNext]_vars => Agree'
  <2> SUFFICES ASSUME ScopesInv, Agree, [ScopesNext]_vars PROVE Agree'
    OBVIOUS
  <2>1. CASE UNCHANGED vars
    <3>1. blocks' = blocks /\ left' = left /\ infer' = infer /\ go' = go /\ misread' = misread
      BY <2>1 DEF vars
    <3> QED BY <3>1 DEF Agree, Clean, NamesAgree, Agrees, Span
  <2>2. CASE ScopesNext
    BY <2>2, FuncAgrees, EarlyAgrees, StatementsAgree, BlocksAgree, ElseAgrees, BeginsAgree, EndsAgree
       DEF ScopesNext
  <2> QED BY <2>1, <2>2
<1> QED BY <1>1, <1>2, ScopesKept, PTL DEF ScopesSpec

\* A name that is misread in some scopes of both is declared by one of them only.
LEMMA MisreadExplained ==
    ASSUME ScopesInv, left = 0, NEW s, NEW t, DOMAIN s[1] = {}, Len(s) \in 0..InferDepth, Len(t) \in 0..GoDepth,
           \A b \in 1..Len(blocks) : Faces(b, s, t), NEW list, NEW n \in Misread(list, s, t)
    PROVE  \E b \in {BlockInferred(Home(s, n)), BlockGenerated(Home(t, n))} : blocks[b].kind \in {"closure", "arm"}
<1>1. Home(s, n) # 0 /\ Home(t, n) # 0 /\ BlockInferred(Home(s, n)) # BlockGenerated(Home(t, n))
  BY DEF Misread
<1>2. \E b \in {BlockInferred(Home(s, n)), BlockGenerated(Home(t, n))} :
         b \in 1..Len(blocks) /\ blocks[b].kind \in {"closure", "arm"}
  BY <1>1, Explained
<1> QED BY <1>2

\* What a step reads.
ReadAlike(n) ==
    LET read == {BlockInferred(Home(Seen(infer.scopes), n)), BlockGenerated(Home(Seen(go.scopes), n))}
    IN \E b \in read : blocks[b].kind \in {"closure", "arm"}

\* A statement's names.
LEMMA StmtReads ==
    ASSUME ScopesInv, Agree, Clean, blocks # <<>>, NEW declared, NEW errs, NEW used, NEW inf, NEW g,
           Stmt(declared, errs, used, inf, g)
    PROVE  \A n \in misread' : ReadAlike(n)
<1>1. left = 0 /\ DOMAIN infer.scopes[1] = {} /\ NamesAgree
  BY DEF Agree
<1>2. misread' = Misread(used, infer.scopes, go.scopes) /\ blocks' = blocks
  BY DEF Stmt
<1>3. Len(infer.scopes) \in 0..InferDepth /\ Len(go.scopes) \in 0..GoDepth
  BY Stacks
<1>4. Seen(infer.scopes) = infer.scopes /\ Seen(go.scopes) = go.scopes
  <2>1. Len(blocks) \in Nat /\ Len(blocks') = Len(blocks)
    BY <1>2, TopBlock
  <2>2. ~ (Len(blocks') < Len(blocks))
    BY <2>1
  <2> QED BY <2>2 DEF Seen
<1>5. \A b \in 1..Len(blocks) : Faces(b, infer.scopes, go.scopes)
  BY <1>1, FacesNow
<1>6. ASSUME NEW n \in misread' PROVE ReadAlike(n)
  <2>1. n \in Misread(used, infer.scopes, go.scopes)
    BY <1>2
  <2>2. \E b \in {BlockInferred(Home(infer.scopes, n)), BlockGenerated(Home(go.scopes, n))} :
            blocks[b].kind \in {"closure", "arm"}
    BY <1>1, <1>3, <1>5, <2>1, MisreadExplained
  <2> QED BY <1>4, <2>2 DEF ReadAlike
<1> QED BY <1>6

\* The scopes the post statement of a loop is read in.
LEMMA HeaderSeen ==
    ASSUME ScopesInv, Agree, EndFor
    PROVE  LET s == But(infer.scopes, 1)
               t == But(go.scopes, 1)
           IN /\ PopScope(infer).scopes = s /\ GoClose(go).scopes = t
              /\ Seen(infer.scopes) = s /\ Seen(go.scopes) = t
              /\ left = 0 /\ DOMAIN s[1] = {} /\ Len(s) \in 0..InferDepth /\ Len(t) \in 0..GoDepth
              /\ \A b \in 1..Len(blocks) : Faces(b, s, t)
<1>1. blocks # <<>> /\ Last(blocks).kind = "for" /\ blocks' = But(blocks, 1) /\ Clean
  BY DEF EndFor, Leave, Inside, InFunction, Reading, Clean
<1>2. left = 0 /\ DOMAIN infer.scopes[1] = {} /\ NamesAgree
  BY <1>1 DEF Agree
<1> DEFINE s == But(infer.scopes, 1)
           t == But(go.scopes, 1)
<1>3. PopScope(infer).scopes = s /\ GoClose(go).scopes = t
  BY DEF PopScope, GoClose, Refuse, ScopesInv, Checkers, Compilers
<1>4. Seen(infer.scopes) = s /\ Seen(go.scopes) = t
  <2>1. blocks \in Seq(BlockTypes) /\ Len(blocks) \in Nat /\ Len(blocks) > 0
    BY <1>1, Depths DEF ScopesInv, BlocksNest
  <2>2. 1 \in 0..Len(blocks)
    BY <2>1
  <2>3. Len(blocks') = Len(blocks) - 1
    BY <1>1, <2>1, <2>2, SomeDropped
  <2>4. Len(blocks') < Len(blocks)
    BY <2>1, <2>3
  <2> QED BY <2>4 DEF Seen
<1>5. /\ Len(infer.scopes) = InferDepth /\ Len(go.scopes) = GoDepth /\ InferDepth \in Nat /\ GoDepth \in Nat
      /\ InferDepth > 1 /\ GoDepth > 0
  <2>1. /\ InferDepth = Last(blocks).inferred + Inferred("for") /\ GoDepth = Last(blocks).generated + Generated("for")
    BY <1>1, TopBlock
  <2>2. Last(blocks).inferred \in Nat /\ Last(blocks).inferred > left /\ Last(blocks).generated \in Nat
    BY <1>1, Depths
  <2>3. Inferred("for") = 2 /\ Generated("for") = 2
    BY DEF Inferred, Generated
  <2>4. Len(infer.scopes) = InferDepth /\ Len(go.scopes) = GoDepth /\ InferDepth \in Nat /\ GoDepth \in Nat
    BY Stacks
  <2> QED BY <1>2, <2>1, <2>2, <2>3, <2>4
<1>6. Len(s) = InferDepth - 1 /\ \A i \in 1..(InferDepth - 1) : s[i] = infer.scopes[i]
  <2>1. infer.scopes \in Seq(ScopesOf(Entries)) /\ 1 \in 0..Len(infer.scopes)
    BY <1>5 DEF ScopesInv, Checkers
  <2>2. Len(But(infer.scopes, 1)) = Len(infer.scopes) - 1
    BY <2>1, SomeDropped
  <2> QED BY <1>5, <2>2 DEF But
<1>7. Len(t) = GoDepth - 1 /\ \A i \in 1..(GoDepth - 1) : t[i] = go.scopes[i]
  <2>1. go.scopes \in Seq(ScopesOf(GoEntries)) /\ 1 \in 0..Len(go.scopes)
    BY <1>5 DEF ScopesInv, Compilers
  <2>2. Len(But(go.scopes, 1)) = Len(go.scopes) - 1
    BY <2>1, SomeDropped
  <2> QED BY <1>5, <2>2 DEF But
<1> HIDE DEF s, t
<1>8. \A b \in 1..Len(blocks) : Faces(b, s, t)
  BY <1>1, <1>2, <1>6, <1>7, FacesHeader
<1>9. DOMAIN s[1] = {} /\ Len(s) \in 0..InferDepth /\ Len(t) \in 0..GoDepth
  BY <1>2, <1>5, <1>6, <1>7
<1> QED BY <1>2, <1>3, <1>4, <1>8, <1>9 DEF s, t

\* The names of a loop's post statement.
LEMMA PostReads ==
    ASSUME ScopesInv, Agree, EndFor
    PROVE  \A n \in misread' : ReadAlike(n)
<1>1. PICK post : misread' = Misread(post, PopScope(infer).scopes, GoClose(go).scopes)
  BY DEF EndFor
<1> DEFINE s == But(infer.scopes, 1)
           t == But(go.scopes, 1)
<1>2. /\ misread' = Misread(post, s, t) /\ Seen(infer.scopes) = s /\ Seen(go.scopes) = t
      /\ left = 0 /\ DOMAIN s[1] = {} /\ Len(s) \in 0..InferDepth /\ Len(t) \in 0..GoDepth
      /\ \A b \in 1..Len(blocks) : Faces(b, s, t)
  BY <1>1, HeaderSeen
<1> HIDE DEF s, t
<1>3. ASSUME NEW n \in misread' PROVE ReadAlike(n)
  <2>1. n \in Misread(post, s, t)
    BY <1>2
  <2>2. \E b \in {BlockInferred(Home(s, n)), BlockGenerated(Home(t, n))} : blocks[b].kind \in {"closure", "arm"}
    BY <1>2, <2>1, MisreadExplained
  <2> QED BY <1>2, <2>2 DEF ReadAlike
<1> QED BY <1>3

\* A use that checker and Go take for different declarations is of a name that one of
\* them gets from a closure's results or from several patterns.
THEOREM UsesAgree == ScopesSpec => UsesMeanTheSame
<1>1. ScopesInv /\ Agree /\ [ScopesNext]_vars =>
        [\A n \in misread' :
            LET read == {BlockInferred(Home(Seen(infer.scopes), n)), BlockGenerated(Home(Seen(go.scopes), n))}
            IN \E b \in read : blocks[b].kind \in {"closure", "arm"}]_vars
  <2> SUFFICES ASSUME ScopesInv, Agree, ScopesNext
               PROVE  \A n \in misread' : ReadAlike(n)
    BY DEF ReadAlike
  <2>1. CASE Use \/ Decl \/ VarDecl \/ MultiDecl \/ ConstDecl \/ Assign \/ Reassign \/ IncDec \/ TryDecl
    <3>1. blocks # <<>> /\ Clean
      BY <2>1 DEF Use, Decl, VarDecl, MultiDecl, ConstDecl, Assign, Reassign, IncDec, TryDecl,
                  InFunction, Reading, Clean
    <3>2. \E declared, errs, used, inf, g : Stmt(declared, errs, used, inf, g)
      <4>1. CASE Use \/ Decl \/ VarDecl
        BY <4>1 DEF Use, Decl, VarDecl
      <4>2. CASE MultiDecl \/ ConstDecl \/ TryDecl
        BY <4>2 DEF MultiDecl, ConstDecl, TryDecl
      <4>3. CASE Assign \/ Reassign \/ IncDec
        BY <4>3 DEF Assign, Reassign, IncDec
      <4> QED BY <2>1, <4>1, <4>2, <4>3
    <3> QED BY <3>1, <3>2, StmtReads
  <2>2. CASE EndFor
    BY <2>2, PostReads
  <2>3. CASE BeginFunc \/ LeaveEarly \/ BeginBlock \/ Else
    <3>1. misread' = {}
      BY <2>3 DEF BeginFunc, LeaveEarly, BeginBlock, Else, Inside, InFunction, Reading
    <3> QED BY <3>1
  <2>4. CASE BeginIf \/ BeginRange \/ BeginArm \/ BeginCase \/ BeginHandler \/ BeginClosure
    <3>1. misread = {}
      BY <2>4 DEF BeginIf, BeginRange, BeginArm, BeginCase, BeginHandler, BeginClosure, InFunction, Reading
    <3>2. misread' = misread
      BY <2>4 DEF BeginIf, BeginRange, BeginArm, BeginCase, BeginHandler, BeginClosure, Enter
    <3> QED BY <3>1, <3>2
  <2>5. CASE EndFunc \/ EndBlock \/ EndIf \/ EndHandler \/ EndArm
    <3>1. misread = {} /\ misread' = misread
      BY <2>5 DEF EndFunc, EndBlock, EndIf, EndHandler, EndArm, Leave, Inside, InFunction, Reading
    <3> QED BY <3>1
  <2> QED BY <2>1, <2>2, <2>3, <2>4, <2>5 DEF ScopesNext
<1> QED BY <1>1, ScopesKept, NamesKept, PTL DEF ScopesSpec, UsesMeanTheSame
=============================================================================
