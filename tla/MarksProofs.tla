----------------------------- MODULE MarksProofs -----------------------------
(***************************************************************************)
(* More proofs about Scopes, of what the checker and the Go compiler note  *)
(* of each name: used, assigned, constant.  What is a constant is kept but *)
(* for the statements that do not look, and what is accepted compiles but  *)
(* for the gaps that are listed.                                           *)
(***************************************************************************)
EXTENDS ScopesProofs

-----------------------------------------------------------------------------
(* What is known of the names.                                             *)

\* An entry of Go that is a constant of the source, and one that Go would call unused;
\* and one that became another by uses and assignments.
Constant(e) == e.kind = "const" \/ (e.kind = "var" /\ e.fixed /\ ~ e.assigned)
Pending(e) == e.kind = "var" /\ ~ e.used /\ ~ e.assigned
Later(d, e) ==
    /\ e.kind = d.kind /\ e.fixed = d.fixed
    /\ (d.used => e.used) /\ (d.assigned => e.assigned)

\* The first scopes of Go have the same names, with later entries.
Ages(t, g, last) ==
    \A i \in 1..last : DOMAIN g[i] = DOMAIN t[i] /\ \A n \in DOMAIN t[i] : Later(t[i][n], g[i][n])

\* Of a block: what is a constant in Go is in the innermost scope of both, immutable for
\* the checker; what Go would call unused in a function's own scope the checker would too.
Marked(block, s, t) ==
    LET inner == block.inferred + Inferred(block.kind)
        top == block.generated + Generated(block.kind)
    IN /\ \A i \in (block.generated + 1)..top : \A n \in DOMAIN t[i] :
            Constant(t[i][n]) => i = top /\ n \in DOMAIN s[inner] /\ ~ s[inner][n].mutable
       /\ block.kind = "func" =>
            \A n \in DOMAIN t[top] : Pending(t[top][n]) => n \in DOMAIN s[inner] /\ ~ s[inner][n].used

NamesMarked == \A b \in 1..Len(blocks) : Marked(blocks[b], infer.scopes, go.scopes)

Marks == Clean => NamesMarked

\* The scopes of an open block have numbers.
LEMMA BlockTops ==
    ASSUME ScopesInv, NEW b \in 1..Len(blocks)
    PROVE  /\ blocks[b].inferred + Inferred(blocks[b].kind) \in 1..InferDepth
           /\ blocks[b].generated + Generated(blocks[b].kind) \in 1..GoDepth
           /\ blocks[b].inferred \in Nat /\ blocks[b].generated \in Nat
           /\ blocks[b].inferred < blocks[b].inferred + Inferred(blocks[b].kind)
           /\ blocks[b].generated < blocks[b].generated + Generated(blocks[b].kind)
<1>1. /\ blocks[b].inferred \in Nat /\ blocks[b].generated \in Nat
      /\ Inferred(blocks[b].kind) \in 1..2 /\ Generated(blocks[b].kind) \in 1..2
  BY BlockStarts
<1>2. /\ blocks[b].inferred + Inferred(blocks[b].kind) <= InferDepth
      /\ blocks[b].generated + Generated(blocks[b].kind) <= GoDepth
  BY BlockWithin
<1>3. InferDepth \in Nat /\ GoDepth \in Nat
  BY Depths
<1> QED BY <1>1, <1>2, <1>3

\* Scopes that stay the same age.
LEMMA SameAges ==
    ASSUME NEW t, NEW g, NEW last, \A i \in 1..last : g[i] = t[i]
    PROVE  Ages(t, g, last)
BY DEF Ages, Later

\* Entries that get later twice are later.
LEMMA AgesTwice ==
    ASSUME NEW t, NEW g, NEW h, NEW last, Ages(t, g, last), Ages(g, h, last)
    PROVE  Ages(t, h, last)
<1> SUFFICES ASSUME NEW i \in 1..last
             PROVE  DOMAIN h[i] = DOMAIN t[i] /\ \A n \in DOMAIN t[i] : Later(t[i][n], h[i][n])
  BY DEF Ages
<1>1. DOMAIN g[i] = DOMAIN t[i] /\ \A n \in DOMAIN t[i] : Later(t[i][n], g[i][n])
  BY DEF Ages
<1>2. DOMAIN h[i] = DOMAIN g[i] /\ \A n \in DOMAIN g[i] : Later(g[i][n], h[i][n])
  BY DEF Ages
<1> QED BY <1>1, <1>2 DEF Later

\* A block stays marked when the checker's scopes up to its last stay and Go's age.
LEMMA BlockStill ==
    ASSUME ScopesInv, NEW b \in 1..Len(blocks), NEW s, NEW t, Marked(blocks[b], infer.scopes, go.scopes),
           \A i \in 1..(blocks[b].inferred + Inferred(blocks[b].kind)) : s[i] = infer.scopes[i],
           Ages(go.scopes, t, blocks[b].generated + Generated(blocks[b].kind))
    PROVE  Marked(blocks[b], s, t)
<1> DEFINE p == blocks[b].inferred + Inferred(blocks[b].kind)
           l == blocks[b].generated
           q == l + Generated(blocks[b].kind)
           f == blocks[b].kind = "func"
<1>1. p \in Nat /\ l \in Nat /\ q \in Nat /\ p > 0 /\ l < q
  <2>1. p \in 1..InferDepth /\ q \in 1..GoDepth /\ l \in Nat /\ l < q
    BY BlockTops
  <2>2. InferDepth \in Nat /\ GoDepth \in Nat
    BY Depths
  <2> QED BY <2>1, <2>2
<1>2. (\A i \in 1..p : s[i] = infer.scopes[i]) /\ Ages(go.scopes, t, q)
  OBVIOUS
<1>3. /\ \A i \in (l + 1)..q : \A n \in DOMAIN go.scopes[i] : Constant(go.scopes[i][n]) =>
            i = q /\ n \in DOMAIN infer.scopes[p] /\ ~ infer.scopes[p][n].mutable
      /\ f => \A n \in DOMAIN go.scopes[q] : Pending(go.scopes[q][n]) =>
            n \in DOMAIN infer.scopes[p] /\ ~ infer.scopes[p][n].used
  BY DEF Marked
<1> HIDE DEF p, l, q, f
<1>4. s[p] = infer.scopes[p]
  BY <1>1, <1>2
<1>5. ASSUME NEW i \in (l + 1)..q
      PROVE  DOMAIN t[i] = DOMAIN go.scopes[i] /\ \A n \in DOMAIN t[i] : Later(go.scopes[i][n], t[i][n])
  BY <1>1, <1>2 DEF Ages
<1>6. \A i \in (l + 1)..q : \A n \in DOMAIN t[i] : Constant(t[i][n]) => i = q /\ n \in DOMAIN s[p] /\ ~ s[p][n].mutable
  BY <1>3, <1>4, <1>5 DEF Later, Constant
<1>7. q \in (l + 1)..q
  BY <1>1
<1>8. f => \A n \in DOMAIN t[q] : Pending(t[q][n]) => n \in DOMAIN s[p] /\ ~ s[p][n].used
  BY <1>3, <1>4, <1>5, <1>7 DEF Later, Pending
<1> QED BY <1>6, <1>8 DEF Marked, p, l, q, f

\* A block opens.
LEMMA EnterMarks ==
    ASSUME ScopesInv, Clean, Marks, NEW block, blocks' = Append(blocks, block),
           \A i \in 1..InferDepth : infer'.scopes[i] = infer.scopes[i],
           Ages(go.scopes, go'.scopes, GoDepth),
           Marked(block, infer'.scopes, go'.scopes)
    PROVE  Marks'
<1>1. NamesMarked
  BY DEF Marks
<1>2. /\ blocks'[Len(blocks) + 1] = block /\ Len(blocks') = Len(blocks) + 1 /\ Len(blocks) \in Nat
      /\ \A b \in 1..Len(blocks) : blocks'[b] = blocks[b]
  <2>1. blocks \in Seq(BlockTypes)
    BY DEF ScopesInv, BlocksNest
  <2> QED BY <2>1, AppendProperties
<1>3. ASSUME NEW b \in 1..Len(blocks) PROVE Marked(blocks[b], infer'.scopes, go'.scopes)
  <2>1. Marked(blocks[b], infer.scopes, go.scopes)
    BY <1>1 DEF NamesMarked
  <2>2. /\ \A i \in 1..(blocks[b].inferred + Inferred(blocks[b].kind)) : i \in 1..InferDepth
        /\ \A i \in 1..(blocks[b].generated + Generated(blocks[b].kind)) : i \in 1..GoDepth
    <3> DEFINE p == blocks[b].inferred + Inferred(blocks[b].kind)
               q == blocks[b].generated + Generated(blocks[b].kind)
    <3>1. p \in 1..InferDepth /\ q \in 1..GoDepth /\ InferDepth \in Nat /\ GoDepth \in Nat
      BY BlockTops, Depths
    <3> HIDE DEF p, q
    <3>2. (\A i \in 1..p : i \in 1..InferDepth) /\ (\A i \in 1..q : i \in 1..GoDepth)
      BY <3>1
    <3> QED BY <3>2 DEF p, q
  <2>3. Ages(go.scopes, go'.scopes, blocks[b].generated + Generated(blocks[b].kind))
    BY <2>2 DEF Ages
  <2>4. \A i \in 1..(blocks[b].inferred + Inferred(blocks[b].kind)) : infer'.scopes[i] = infer.scopes[i]
    BY <2>2
  <2> QED BY <2>1, <2>3, <2>4, BlockStill
<1>4. NamesMarked'
  BY <1>2, <1>3 DEF NamesMarked
<1> QED BY <1>4 DEF Marks

\* A block ends.
LEMMA LeaveMarks ==
    ASSUME ScopesInv, blocks # <<>>, blocks' = But(blocks, 1),
           \A b \in 1..(Len(blocks) - 1) : Marked(blocks[b], infer'.scopes, go'.scopes)
    PROVE  Marks'
<1>1. Len(blocks') = Len(blocks) - 1 /\ \A b \in 1..(Len(blocks) - 1) : blocks'[b] = blocks[b]
  <2>1. blocks \in Seq(BlockTypes) /\ Len(blocks) \in Nat /\ Len(blocks) > 0
    BY Depths DEF ScopesInv, BlocksNest
  <2>2. 1 \in 0..Len(blocks)
    BY <2>1
  <2>3. Len(But(blocks, 1)) = Len(blocks) - 1
    BY <2>1, <2>2, SomeDropped
  <2>4. \A b \in 1..(Len(blocks) - 1) : But(blocks, 1)[b] = blocks[b]
    BY <2>1 DEF But
  <2> QED BY <2>3, <2>4
<1>2. NamesMarked'
  BY <1>1 DEF NamesMarked
<1> QED BY <1>2 DEF Marks

\* The blocks around the innermost one stay what they are.
LEMMA OuterStill ==
    ASSUME ScopesInv, blocks # <<>>, NamesMarked, NEW b \in 1..(Len(blocks) - 1), NEW s, NEW t,
           \A i \in 1..Last(blocks).inferred : s[i] = infer.scopes[i],
           Ages(go.scopes, t, Last(blocks).generated)
    PROVE  Marked(blocks[b], s, t)
<1> DEFINE p == blocks[b].inferred + Inferred(blocks[b].kind)
           q == blocks[b].generated + Generated(blocks[b].kind)
           n == Last(blocks).inferred
           m == Last(blocks).generated
<1>1. b \in 1..Len(blocks) /\ b # Len(blocks) /\ Len(blocks) \in Nat
  BY TopBlock
<1>2. p <= n /\ q <= m
  BY <1>1, BlockWithin
<1>3. p \in Nat /\ q \in Nat /\ n \in Nat /\ m \in Nat
  BY <1>1, BlockStarts, TopBlock
<1>4. Marked(blocks[b], infer.scopes, go.scopes)
  BY <1>1 DEF NamesMarked
<1>5. (\A i \in 1..n : s[i] = infer.scopes[i]) /\ Ages(go.scopes, t, m)
  OBVIOUS
<1> HIDE DEF p, q, n, m
<1>6. (\A i \in 1..p : s[i] = infer.scopes[i]) /\ Ages(go.scopes, t, q)
  BY <1>2, <1>3, <1>5 DEF Ages
<1> QED BY <1>1, <1>4, <1>6, BlockStill DEF p, q

\* The innermost block declares names.
LEMMA DeclareMarks ==
    ASSUME ScopesInv, Clean, Marks, blocks # <<>>, blocks' = blocks,
           \A i \in 1..(InferDepth - 1) : infer'.scopes[i] = infer.scopes[i],
           Ages(go.scopes, go'.scopes, GoDepth - 1),
           Marked(Last(blocks), infer'.scopes, go'.scopes)
    PROVE  Marks'
<1>1. NamesMarked
  BY DEF Marks
<1>2. Len(blocks) \in 1..Len(blocks) /\ Last(blocks) = blocks[Len(blocks)] /\ Len(blocks) \in Nat
  BY TopBlock
<1>3. ASSUME NEW b \in 1..Len(blocks), b # Len(blocks) PROVE Marked(blocks[b], infer'.scopes, go'.scopes)
  <2> DEFINE n == Last(blocks).inferred
             m == Last(blocks).generated
  <2>1. n \in Nat /\ m \in Nat /\ n < InferDepth /\ m < GoDepth /\ InferDepth \in Nat /\ GoDepth \in Nat
    <3>1. /\ InferDepth = n + Inferred(Last(blocks).kind) /\ GoDepth = m + Generated(Last(blocks).kind)
          /\ n \in Nat /\ m \in Nat
      BY <1>2, TopBlock, BlockStarts
    <3>2. Inferred(Last(blocks).kind) \in 1..2 /\ Generated(Last(blocks).kind) \in 1..2
      BY DEF Inferred, Generated
    <3> QED BY <3>1, <3>2
  <2> HIDE DEF n, m
  <2>2. (\A i \in 1..n : i \in 1..(InferDepth - 1)) /\ (\A i \in 1..m : i \in 1..(GoDepth - 1))
    BY <2>1
  <2>3. (\A i \in 1..n : infer'.scopes[i] = infer.scopes[i]) /\ Ages(go.scopes, go'.scopes, m)
    BY <2>2 DEF Ages
  <2>4. b \in 1..(Len(blocks) - 1)
    BY <1>2, <1>3
  <2> QED BY <1>1, <2>3, <2>4, OuterStill DEF n, m
<1>4. NamesMarked'
  BY <1>2, <1>3 DEF NamesMarked
<1> QED BY <1>4 DEF Marks

-----------------------------------------------------------------------------
(* What a use or an assignment does to the entries.                        *)

\* The checker marks names of N as used; Go uses or assigns the names of N.
Looks(s, c, N) ==
    /\ SameNames(s, c)
    /\ \A i \in 1..Len(s) : \A n \in DOMAIN s[i] :
        /\ c[i][n].mutable = s[i][n].mutable
        /\ c[i][n].used => s[i][n].used \/ (n \in N /\ i = Home(s, n))

Touches(t, g, N) ==
    /\ Len(g) = Len(t) /\ Ages(t, g, Len(t))
    /\ \A n \in N : Home(t, n) # 0 => ~ Pending(g[Home(t, n)][n])
    /\ \A i \in 1..Len(t) : \A n \in DOMAIN t[i] :
        g[i][n].assigned /\ ~ t[i][n].assigned => n \in N /\ i = Home(t, n) /\ t[i][n].kind = "var"

\* One entry of the scope that has the name is replaced.
LEMMA OneEntry ==
    ASSUME NEW E, NEW s \in Seq(ScopesOf(E)), NEW at, at # 0, NEW n, at = Home(s, n), NEW e
    PROVE  /\ at \in 1..Len(s) /\ n \in DOMAIN s[at]
           /\ Len([s EXCEPT ![at] = [s[at] EXCEPT ![n] = e]]) = Len(s)
           /\ SameNames(s, [s EXCEPT ![at] = [s[at] EXCEPT ![n] = e]])
           /\ \A i \in 1..Len(s) : \A m \in DOMAIN s[i] :
                [s EXCEPT ![at] = [s[at] EXCEPT ![n] = e]][i][m] = IF i = at /\ m = n THEN e ELSE s[i][m]
<1>1. Len(s) \in Nat /\ DOMAIN s = 1..Len(s)
  OBVIOUS
<1>2. at \in 1..Len(s) /\ n \in DOMAIN s[at]
  <2>1. Home(s, n) \in 0..Len(s) /\ (Home(s, n) # 0 => n \in DOMAIN s[Home(s, n)])
    BY <1>1, HomeIs
  <2> QED BY <1>1, <2>1
<1>3. SameNames(s, [s EXCEPT ![at] = [s[at] EXCEPT ![n] = e]])
  BY OneTouched
<1>4. ASSUME NEW i \in 1..Len(s), NEW m \in DOMAIN s[i]
      PROVE  [s EXCEPT ![at] = [s[at] EXCEPT ![n] = e]][i][m] = IF i = at /\ m = n THEN e ELSE s[i][m]
  <2>1. s[i] \in ScopesOf(E)
    OBVIOUS
  <2>2. s[i] = [x \in DOMAIN s[i] |-> s[i][x]]
    BY <2>1 DEF ScopesOf
  <2>3. CASE i = at
    BY <1>1, <2>2, <2>3
  <2>4. CASE i # at
    BY <1>1, <2>4
  <2> QED BY <2>3, <2>4
<1>5. Len([s EXCEPT ![at] = [s[at] EXCEPT ![n] = e]]) = Len(s)
  BY <1>3 DEF SameNames
<1> QED BY <1>2, <1>3, <1>4, <1>5

\* Nothing is used.
LEMMA LooksSelf ==
    ASSUME NEW s
    PROVE  \A N : Looks(s, s, N)
BY SameNamesSelf DEF Looks

\* One use after the other.
LEMMA LooksTwice ==
    ASSUME NEW s, Len(s) \in Nat, NEW c, NEW d, NEW N, NEW M, Looks(s, c, N), Looks(c, d, M)
    PROVE  Looks(s, d, N \cup M)
<1>1. SameNames(s, c) /\ SameNames(c, d) /\ SameNames(s, d) /\ Len(c) = Len(s)
  <2>1. SameNames(s, c) /\ SameNames(c, d)
    BY DEF Looks
  <2> QED BY <2>1, SameNamesTwice DEF SameNames
<1>2. \A n : Home(c, n) = Home(s, n)
  BY <1>1, HomeStays
<1>3. ASSUME NEW i \in 1..Len(s), NEW n \in DOMAIN s[i]
      PROVE  /\ d[i][n].mutable = s[i][n].mutable
             /\ d[i][n].used => s[i][n].used \/ (n \in N \cup M /\ i = Home(s, n))
  <2>1. n \in DOMAIN c[i]
    BY <1>1 DEF SameNames
  <2>2. c[i][n].mutable = s[i][n].mutable /\ (c[i][n].used => s[i][n].used \/ (n \in N /\ i = Home(s, n)))
    BY DEF Looks
  <2>3. d[i][n].mutable = c[i][n].mutable /\ (d[i][n].used => c[i][n].used \/ (n \in M /\ i = Home(c, n)))
    BY <1>1, <2>1 DEF Looks
  <2> QED BY <1>2, <2>2, <2>3
<1> QED BY <1>1, <1>3 DEF Looks

\* Nothing is used or assigned.
LEMMA TouchesSelf ==
    ASSUME NEW t
    PROVE  Touches(t, t, {})
BY SameAges DEF Touches

\* One use or assignment after the other.
LEMMA TouchesTwice ==
    ASSUME NEW t, Len(t) \in Nat, NEW g, NEW h, NEW N, NEW M, Touches(t, g, N), Touches(g, h, M)
    PROVE  Touches(t, h, N \cup M)
<1>1. Len(g) = Len(t) /\ Len(h) = Len(t) /\ Ages(t, g, Len(t)) /\ Ages(g, h, Len(t)) /\ Ages(t, h, Len(t))
  BY AgesTwice DEF Touches
<1>2. \A n : Home(g, n) = Home(t, n)
  <2>1. SameNames(t, g)
    BY <1>1 DEF SameNames, Ages
  <2> QED BY <2>1, HomeStays
<1>3. ASSUME NEW n \in N \cup M, Home(t, n) # 0 PROVE ~ Pending(h[Home(t, n)][n])
  <2> DEFINE at == Home(t, n)
  <2>1. at \in 1..Len(t) /\ n \in DOMAIN t[at]
    BY <1>3, HomeIs
  <2>2. Later(g[at][n], h[at][n])
    BY <1>1, <2>1 DEF Ages
  <2>3. n \in N => ~ Pending(g[at][n])
    BY <1>3 DEF Touches
  <2>4. n \in M => ~ Pending(h[at][n])
    BY <1>2, <1>3 DEF Touches
  <2> HIDE DEF at
  <2>5. ~ Pending(h[at][n])
    BY <1>3, <2>2, <2>3, <2>4 DEF Later, Pending
  <2> QED BY <2>5 DEF at
<1>4. ASSUME NEW i \in 1..Len(t), NEW n \in DOMAIN t[i], h[i][n].assigned, ~ t[i][n].assigned
      PROVE  n \in N \cup M /\ i = Home(t, n) /\ t[i][n].kind = "var"
  <2>1. n \in DOMAIN g[i] /\ Later(t[i][n], g[i][n])
    BY <1>1 DEF Ages
  <2>2. g[i][n].assigned => n \in N /\ i = Home(t, n) /\ t[i][n].kind = "var"
    BY <1>4 DEF Touches
  <2>3. ~ g[i][n].assigned => n \in M /\ i = Home(g, n) /\ g[i][n].kind = "var"
    BY <1>1, <1>4, <2>1 DEF Touches
  <2> QED BY <1>2, <2>1, <2>2, <2>3 DEF Later
<1> QED BY <1>1, <1>3, <1>4 DEF Touches

\* The names of N are looked up, those of W written to.
LookedAt(k, inf, N, W) ==
    {st \in Checkers(k) :
        /\ Looks(inf.scopes, st.scopes, N)
        /\ st.errors = <<>> =>
            /\ inf.errors = <<>>
            /\ \A n \in N : Home(inf.scopes, n) # 0
            /\ \A n \in W : Home(inf.scopes, n) # 0 => inf.scopes[Home(inf.scopes, n)][n].mutable}

\* Of what Go refuses when it uses or assigns the names of N.
Unassignable(t, N, refusal) ==
    /\ refusal.name \in N
    /\ \/ refusal.kind = "undefined" /\ Home(t, refusal.name) = 0
       \/ /\ refusal.kind = "constant" /\ Home(t, refusal.name) # 0
          /\ t[Home(t, refusal.name)][refusal.name].kind = "const"

TouchedAt(k, g, N) ==
    {h \in Compilers(k) :
        /\ Touches(g.scopes, h.scopes, N)
        /\ \A refusal \in h.refused : refusal \in g.refused \/ Unassignable(g.scopes, N, refusal)}

\* What the checker does to a name that is used, and to one that is assigned.
LEMMA CheckerMarks ==
    ASSUME NEW k \in Nat \ {0}, NEW inf \in Checkers(k), NEW n \in Idents
    PROVE  /\ InferIdent(inf, n) \in LookedAt(k, inf, {n} \ {"_"}, {})
           /\ CheckVarMutable(inf, n) \in LookedAt(k, inf, {}, {n})
<1>1. /\ inf \in [imported : ImportedNames, scopes : Seq(ScopesOf(Entries)), errors : Seq(Errors)]
      /\ inf.scopes \in Seq(ScopesOf(Entries)) /\ inf.errors \in Seq(Errors)
  BY DEF Checkers
<1>2. \A kind, ns : EmitError(inf, kind, ns).errors # <<>> /\ EmitError(inf, kind, ns).scopes = inf.scopes
  BY <1>1 DEF EmitError
<1>3. \A N : Looks(inf.scopes, inf.scopes, N)
  BY LooksSelf
<1>4. InferIdent(inf, n) \in Checkers(k) /\ CheckVarMutable(inf, n) \in Checkers(k)
  BY NamesKeep
<1>5. Looks(inf.scopes, InferIdent(inf, n).scopes, {n} \ {"_"})
  <2> DEFINE at == Home(inf.scopes, n)
             e == [inf.scopes[at][n] EXCEPT !.used = TRUE]
             t == [inf.scopes EXCEPT ![at] = [inf.scopes[at] EXCEPT ![n] = e]]
  <2>1. MarkVarUsed(inf, n) = IF at = 0 THEN inf ELSE [inf EXCEPT !.scopes = t]
    BY DEF MarkVarUsed
  <2>2. ASSUME at # 0, n # "_" PROVE Looks(inf.scopes, t, {n})
    <3>1. e.mutable = inf.scopes[at][n].mutable
      <4>1. at \in 1..Len(inf.scopes) /\ n \in DOMAIN inf.scopes[at]
        <5>1. at = Home(inf.scopes, n) /\ at # 0 /\ inf.scopes \in Seq(ScopesOf(Entries))
          BY <1>1, <2>2
        <5> HIDE DEF at
        <5> QED BY <5>1, OneEntry
      <4>2. inf.scopes[at] \in ScopesOf(Entries)
        BY <1>1, <4>1
      <4>3. inf.scopes[at][n] \in Entries
        BY <4>1, <4>2 DEF ScopesOf
      <4> HIDE DEF at
      <4> QED BY <4>3 DEF Entries
    <3>4. at = Home(inf.scopes, n) /\ at # 0 /\ inf.scopes \in Seq(ScopesOf(Entries))
      BY <1>1, <2>2
    <3> HIDE DEF e, at
    <3>2. SameNames(inf.scopes, t)
      BY <3>4, OneEntry
    <3>3. \A i \in 1..Len(inf.scopes) : \A m \in DOMAIN inf.scopes[i] :
            t[i][m] = IF i = at /\ m = n THEN e ELSE inf.scopes[i][m]
      BY <3>4, OneEntry
    <3> HIDE DEF t
    <3> QED BY <3>1, <3>2, <3>3, <3>4 DEF Looks
  <2>3. InferIdent(inf, n).scopes = IF n = "_" \/ at = 0 THEN inf.scopes ELSE t
    <3> HIDE DEF t, at
    <3>1. at = Home(inf.scopes, n)
      BY DEF at
    <3> QED BY <1>1, <1>2, <2>1, <3>1 DEF InferIdent
  <2> HIDE DEF t, at
  <2>4. CASE n = "_" \/ at = 0
    BY <1>3, <2>3, <2>4
  <2>5. CASE n # "_" /\ at # 0
    BY <2>2, <2>3, <2>5
  <2> QED BY <2>4, <2>5
<1>6. CheckVarMutable(inf, n).scopes = inf.scopes
  BY <1>2 DEF CheckVarMutable
<1>7. InferIdent(inf, n).errors = <<>> => inf.errors = <<>> /\ (n = "_" \/ Home(inf.scopes, n) # 0)
  <2>1. MarkVarUsed(inf, n).errors = inf.errors
    BY CheckerUses
  <2> QED BY <1>2, <2>1 DEF InferIdent
<1>8. CheckVarMutable(inf, n).errors = <<>> =>
        inf.errors = <<>> /\ (Home(inf.scopes, n) # 0 => inf.scopes[Home(inf.scopes, n)][n].mutable)
  BY <1>2 DEF CheckVarMutable
<1>9. InferIdent(inf, n) \in LookedAt(k, inf, {n} \ {"_"}, {})
  BY <1>4, <1>5, <1>7 DEF LookedAt
<1>10. CheckVarMutable(inf, n) \in LookedAt(k, inf, {}, {n})
  BY <1>3, <1>4, <1>6, <1>8 DEF LookedAt
<1> QED BY <1>9, <1>10

\* The same of the errors: one use after the other.
LEMMA LookedTwice ==
    ASSUME NEW k \in Nat \ {0}, NEW inf \in Checkers(k), NEW N, NEW W, NEW M, NEW V,
           NEW st \in LookedAt(k, inf, N, W), NEW next \in LookedAt(k, st, M, V)
    PROVE  next \in LookedAt(k, inf, N \cup M, W \cup V)
<1>1. /\ Len(inf.scopes) \in Nat /\ Looks(inf.scopes, st.scopes, N) /\ Looks(st.scopes, next.scopes, M)
      /\ next \in Checkers(k)
  BY DEF LookedAt, Checkers
<1>2. Looks(inf.scopes, next.scopes, N \cup M)
  BY <1>1, LooksTwice
<1>3. \A n : Home(st.scopes, n) = Home(inf.scopes, n)
  BY <1>1, HomeStays DEF Looks
<1>4. ASSUME NEW n, Home(inf.scopes, n) # 0
      PROVE  st.scopes[Home(inf.scopes, n)][n].mutable = inf.scopes[Home(inf.scopes, n)][n].mutable
  <2>1. Home(inf.scopes, n) \in 1..Len(inf.scopes) /\ n \in DOMAIN inf.scopes[Home(inf.scopes, n)]
    BY <1>1, <1>4, HomeIs
  <2> QED BY <1>1, <2>1 DEF Looks
<1>5. ASSUME next.errors = <<>>
      PROVE  /\ inf.errors = <<>>
             /\ \A n \in N \cup M : Home(inf.scopes, n) # 0
             /\ \A n \in W \cup V : Home(inf.scopes, n) # 0 => inf.scopes[Home(inf.scopes, n)][n].mutable
  <2>1. /\ st.errors = <<>> /\ \A n \in M : Home(st.scopes, n) # 0
        /\ \A n \in V : Home(st.scopes, n) # 0 => st.scopes[Home(st.scopes, n)][n].mutable
    BY <1>5 DEF LookedAt
  <2>2. /\ inf.errors = <<>> /\ \A n \in N : Home(inf.scopes, n) # 0
        /\ \A n \in W : Home(inf.scopes, n) # 0 => inf.scopes[Home(inf.scopes, n)][n].mutable
    BY <2>1 DEF LookedAt
  <2> QED BY <1>3, <1>4, <2>1, <2>2
<1> QED BY <1>1, <1>2, <1>5 DEF LookedAt

\* A use, n = v, and a step.
LEMMA CheckerWrites ==
    ASSUME NEW k \in Nat \ {0}, NEW inf \in Checkers(k), NEW n \in Idents
    PROVE  /\ InferIdent(inf, n) \in LookedAt(k, inf, {n} \ {"_"}, {})
           /\ CheckVarMutable(InferIdent(inf, n), n) \in LookedAt(k, inf, {n} \ {"_"}, {n})
           /\ Step(inf, n) \in LookedAt(k, inf, {n} \ {"_"}, {n})
<1>1. InferIdent(inf, n) \in LookedAt(k, inf, {n} \ {"_"}, {})
  BY CheckerMarks
<1>2. CheckVarMutable(InferIdent(inf, n), n) \in LookedAt(k, inf, ({n} \ {"_"}) \cup {}, {} \cup {n})
  <2>1. InferIdent(inf, n) \in Checkers(k)
    BY NamesKeep
  <2>2. CheckVarMutable(InferIdent(inf, n), n) \in LookedAt(k, InferIdent(inf, n), {}, {n})
    BY <2>1, CheckerMarks
  <2> QED BY <1>1, <2>2, LookedTwice
<1>3. Step(inf, n) \in LookedAt(k, inf, {} \cup ({n} \ {"_"}), {n} \cup {})
  <2>1. CheckVarMutable(inf, n) \in Checkers(k) /\ CheckVarMutable(inf, n) \in LookedAt(k, inf, {}, {n})
    BY NamesKeep, CheckerMarks
  <2>2. InferIdent(CheckVarMutable(inf, n), n) \in LookedAt(k, CheckVarMutable(inf, n), {n} \ {"_"}, {})
    BY <2>1, CheckerMarks
  <2>3. InferIdent(CheckVarMutable(inf, n), n) \in LookedAt(k, inf, {} \cup ({n} \ {"_"}), {n} \cup {})
    BY <2>1, <2>2, LookedTwice
  <2> QED BY <2>3 DEF Step
<1>4. ({n} \ {"_"}) \cup {} = {n} \ {"_"} /\ {} \cup ({n} \ {"_"}) = {n} \ {"_"} /\ {} \cup {n} = {n} /\ {n} \cup {} = {n}
  OBVIOUS
<1> QED BY <1>1, <1>2, <1>3, <1>4

\* A use and an assignment, by Go.
LEMMA GoMarks ==
    ASSUME NEW k \in Nat \ {0}, NEW g \in Compilers(k), NEW n \in Idents
    PROVE  /\ GoUse(g, n) \in TouchedAt(k, g, {n} \ {"_"})
           /\ GoAssign(g, n) \in TouchedAt(k, g, {n} \ {"_"})
<1>1. /\ g \in [scopes : Seq(ScopesOf(GoEntries)), refused : SUBSET Refusals] /\ Len(g.scopes) = k
      /\ g.scopes \in Seq(ScopesOf(GoEntries)) /\ k \in Nat /\ k > 0
  BY DEF Compilers
<1>2. GoUse(g, n) \in Compilers(k) /\ GoAssign(g, n) \in Compilers(k)
  BY GoKeeps
<1>3. n = "_" => GoUse(g, n) = g /\ GoAssign(g, n) = g
  BY DEF GoUse, GoAssign
<1>4. CASE n = "_"
  <2>1. Touches(g.scopes, g.scopes, {})
    BY TouchesSelf
  <2>2. {n} \ {"_"} = {}
    BY <1>4
  <2> QED BY <1>2, <1>3, <1>4, <2>1, <2>2 DEF TouchedAt
<1>5. CASE n # "_" /\ Home(g.scopes, n) = 0
  <2>1. GoUse(g, n) = Refuse(g, "undefined", {n}) /\ GoAssign(g, n) = Refuse(g, "undefined", {n})
    BY <1>5 DEF GoUse, GoAssign
  <2>2. /\ Refuse(g, "undefined", {n}).scopes = g.scopes
        /\ Refuse(g, "undefined", {n}).refused = g.refused \cup {[kind |-> "undefined", name |-> n]}
    BY <1>1 DEF Refuse
  <2>3. Touches(g.scopes, g.scopes, {n})
    BY <1>5, TouchesSelf DEF Touches
  <2>4. {n} \ {"_"} = {n}
    BY <1>5
  <2>5. Unassignable(g.scopes, {n}, [kind |-> "undefined", name |-> n])
    BY <1>5 DEF Unassignable
  <2>6. Refuse(g, "undefined", {n}) \in TouchedAt(k, g, {n})
    BY <1>2, <2>1, <2>2, <2>3, <2>5 DEF TouchedAt
  <2> QED BY <2>1, <2>4, <2>6
<1>6. CASE n # "_" /\ Home(g.scopes, n) # 0
  <2> DEFINE at == Home(g.scopes, n)
             d == g.scopes[at][n]
  <2>1. at \in 1..Len(g.scopes) /\ n \in DOMAIN g.scopes[at] /\ d \in GoEntries
    <3>1. at = Home(g.scopes, n) /\ at # 0
      BY <1>6
    <3> HIDE DEF at
    <3>2. at \in 1..Len(g.scopes) /\ n \in DOMAIN g.scopes[at]
      BY <1>1, <3>1, OneEntry
    <3>3. g.scopes[at] \in ScopesOf(GoEntries)
      BY <1>1, <3>2
    <3> QED BY <3>2, <3>3 DEF ScopesOf
  <2>2. ASSUME NEW e \in GoEntries, Later(d, e), ~ Pending(e), e.assigned => d.assigned \/ d.kind = "var"
        PROVE  Touches(g.scopes, [g.scopes EXCEPT ![at] = [g.scopes[at] EXCEPT ![n] = e]], {n})
    <3> DEFINE t == [g.scopes EXCEPT ![at] = [g.scopes[at] EXCEPT ![n] = e]]
    <3>1. at = Home(g.scopes, n) /\ at # 0 /\ g.scopes \in Seq(ScopesOf(GoEntries))
      BY <1>1, <1>6
    <3>2. d = g.scopes[at][n]
      OBVIOUS
    <3> HIDE DEF at, d
    <3>3. SameNames(g.scopes, t)
      BY <3>1, OneEntry
    <3>4. \A i \in 1..Len(g.scopes) : \A m \in DOMAIN g.scopes[i] :
            t[i][m] = IF i = at /\ m = n THEN e ELSE g.scopes[i][m]
      BY <3>1, OneEntry
    <3> HIDE DEF t
    <3>5. Ages(g.scopes, t, Len(g.scopes))
      BY <2>2, <3>2, <3>3, <3>4 DEF Ages, SameNames, Later
    <3>6. t[at][n] = e
      BY <2>1, <3>4
    <3>7. ASSUME NEW i \in 1..Len(g.scopes), NEW m \in DOMAIN g.scopes[i], t[i][m].assigned, ~ g.scopes[i][m].assigned
          PROVE  m = n /\ i = at /\ g.scopes[i][m].kind = "var"
      BY <2>2, <3>2, <3>4, <3>7
    <3>8. Touches(g.scopes, t, {n})
      BY <2>2, <3>1, <3>3, <3>5, <3>6, <3>7 DEF Touches, SameNames
    <3> QED BY <3>8 DEF t
  <2>3. Touches(g.scopes, g.scopes, {n}) <=> ~ Pending(d)
    <3>1. Touches(g.scopes, g.scopes, {})
      BY TouchesSelf
    <3>2. at = Home(g.scopes, n) /\ at # 0 /\ d = g.scopes[at][n]
      BY <1>6
    <3> HIDE DEF at, d
    <3> QED BY <3>1, <3>2 DEF Touches
  <2>4. {n} \ {"_"} = {n}
    BY <1>6
  <2>5. GoUse(g, n) \in TouchedAt(k, g, {n})
    <3> DEFINE e == [d EXCEPT !.used = TRUE]
               t == [g.scopes EXCEPT ![at] = [g.scopes[at] EXCEPT ![n] = e]]
    <3>1. d.kind # "var" => GoUse(g, n) = g
      BY <1>6 DEF GoUse
    <3>2. d.kind = "var" => GoUse(g, n) = [g EXCEPT !.scopes = t]
      BY <1>6 DEF GoUse
    <3>3. e \in GoEntries /\ Later(d, e) /\ ~ Pending(e) /\ (e.assigned => d.assigned \/ d.kind = "var")
      <4> HIDE DEF d
      <4> QED BY <2>1 DEF GoEntries, Later, Pending
    <3>4. Touches(g.scopes, t, {n})
      <4> HIDE DEF e
      <4> QED BY <2>2, <3>3
    <3> HIDE DEF t, e
    <3>5. GoUse(g, n).refused = g.refused /\ Touches(g.scopes, GoUse(g, n).scopes, {n})
      <4>1. CASE d.kind # "var"
        <5>1. Touches(g.scopes, g.scopes, {n})
          BY <2>3, <4>1 DEF Pending
        <5> QED BY <3>1, <4>1, <5>1
      <4>2. CASE d.kind = "var"
        BY <1>1, <3>2, <3>4, <4>2
      <4> QED BY <4>1, <4>2
    <3> QED BY <1>2, <3>5 DEF TouchedAt
  <2>6. GoAssign(g, n) \in TouchedAt(k, g, {n})
    <3> DEFINE e == [d EXCEPT !.assigned = TRUE]
               t == [g.scopes EXCEPT ![at] = [g.scopes[at] EXCEPT ![n] = e]]
    <3>1. /\ d.kind = "const" => GoAssign(g, n) = Refuse(g, "constant", {n})
          /\ d.kind = "parameter" => GoAssign(g, n) = g
      BY <1>6 DEF GoAssign
    <3>2. d.kind = "var" => GoAssign(g, n) = [g EXCEPT !.scopes = t]
      BY <1>6 DEF GoAssign
    <3>3. e \in GoEntries /\ Later(d, e) /\ ~ Pending(e)
      <4> HIDE DEF d
      <4> QED BY <2>1 DEF GoEntries, Later, Pending
    <3>4. d.kind = "var" => Touches(g.scopes, t, {n})
      <4> HIDE DEF e
      <4> QED BY <2>2, <3>3
    <3>5. d.kind \in {"var", "const", "parameter"}
      <4> HIDE DEF d
      <4> QED BY <2>1 DEF GoEntries
    <3>6. /\ Refuse(g, "constant", {n}).scopes = g.scopes
          /\ Refuse(g, "constant", {n}).refused = g.refused \cup {[kind |-> "constant", name |-> n]}
      BY <1>1 DEF Refuse
    <3>7. d.kind = "const" => Unassignable(g.scopes, {n}, [kind |-> "constant", name |-> n])
      BY <1>6 DEF Unassignable
    <3>8. d.kind # "var" => Touches(g.scopes, g.scopes, {n})
      BY <2>3 DEF Pending
    <3>9. Touches(g.scopes, GoAssign(g, n).scopes, {n})
      <4> HIDE DEF t, e, d, at
      <4>1. CASE d.kind = "var"
        BY <1>1, <3>2, <3>4, <4>1
      <4>2. CASE d.kind = "const"
        BY <3>1, <3>6, <3>8, <4>2
      <4>3. CASE d.kind = "parameter"
        BY <3>1, <3>8, <4>3
      <4> QED BY <3>5, <4>1, <4>2, <4>3
    <3>10. \A refusal \in GoAssign(g, n).refused : refusal \in g.refused \/ Unassignable(g.scopes, {n}, refusal)
      <4> HIDE DEF t, e, d, at
      <4>1. CASE d.kind = "var"
        BY <1>1, <3>2, <4>1
      <4>2. CASE d.kind = "const"
        BY <3>1, <3>6, <3>7, <4>2
      <4>3. CASE d.kind = "parameter"
        BY <3>1, <4>3
      <4> QED BY <3>5, <4>1, <4>2, <4>3
    <3> QED BY <1>2, <3>9, <3>10 DEF TouchedAt
  <2> QED BY <2>4, <2>5, <2>6
<1> QED BY <1>4, <1>5, <1>6

\* The same of what is refused: one use or assignment after the other.
LEMMA TouchedTwice ==
    ASSUME NEW k \in Nat \ {0}, NEW g \in Compilers(k), NEW N, NEW M,
           NEW h \in TouchedAt(k, g, N), NEW next \in TouchedAt(k, h, M)
    PROVE  next \in TouchedAt(k, g, N \cup M)
<1>1. /\ Len(g.scopes) \in Nat /\ Touches(g.scopes, h.scopes, N) /\ Touches(h.scopes, next.scopes, M)
      /\ next \in Compilers(k)
  BY DEF TouchedAt, Compilers
<1>2. Touches(g.scopes, next.scopes, N \cup M)
  BY <1>1, TouchesTwice
<1>3. Ages(g.scopes, h.scopes, Len(g.scopes)) /\ SameNames(g.scopes, h.scopes)
  BY <1>1 DEF Touches, SameNames, Ages
<1>4. \A n : Home(h.scopes, n) = Home(g.scopes, n)
  BY <1>1, <1>3, HomeStays
<1>5. ASSUME NEW n, Home(g.scopes, n) # 0
      PROVE  h.scopes[Home(g.scopes, n)][n].kind = g.scopes[Home(g.scopes, n)][n].kind
  <2>1. Home(g.scopes, n) \in 1..Len(g.scopes) /\ n \in DOMAIN g.scopes[Home(g.scopes, n)]
    BY <1>1, <1>5, HomeIs
  <2> QED BY <1>3, <2>1 DEF Ages, Later
<1>6. ASSUME NEW refusal \in next.refused
      PROVE  refusal \in g.refused \/ Unassignable(g.scopes, N \cup M, refusal)
  <2>1. refusal \in h.refused => refusal \in g.refused \/ Unassignable(g.scopes, N, refusal)
    BY DEF TouchedAt
  <2>2. refusal \in h.refused \/ Unassignable(h.scopes, M, refusal)
    BY DEF TouchedAt
  <2>3. Unassignable(h.scopes, M, refusal) => Unassignable(g.scopes, M, refusal)
    BY <1>4, <1>5 DEF Unassignable
  <2> QED BY <2>1, <2>2, <2>3 DEF Unassignable
<1> QED BY <1>1, <1>2, <1>6 DEF TouchedAt

\* A use and an assignment of the same name, as by n++.
LEMMA GoWrites ==
    ASSUME NEW k \in Nat \ {0}, NEW g \in Compilers(k), NEW n \in Idents
    PROVE  GoStep(g, n) \in TouchedAt(k, g, {n} \ {"_"})
<1>1. GoUse(g, n) \in Compilers(k) /\ GoUse(g, n) \in TouchedAt(k, g, {n} \ {"_"})
  BY GoKeeps, GoMarks
<1>2. GoAssign(GoUse(g, n), n) \in TouchedAt(k, GoUse(g, n), {n} \ {"_"})
  BY <1>1, GoMarks
<1>3. GoAssign(GoUse(g, n), n) \in TouchedAt(k, g, ({n} \ {"_"}) \cup ({n} \ {"_"}))
  BY <1>1, <1>2, TouchedTwice
<1>4. ({n} \ {"_"}) \cup ({n} \ {"_"}) = {n} \ {"_"}
  OBVIOUS
<1> QED BY <1>3, <1>4 DEF GoStep

\* A list of names that are used, and one of names that are used and assigned.
LEMMA CheckerWritesAll ==
    ASSUME NEW k \in Nat \ {0}, NEW inf \in Checkers(k), NEW list \in Seq(Idents)
    PROVE  /\ Each(InferIdent, inf, list) \in LookedAt(k, inf, Listed(list), {})
           /\ Each(Step, inf, list) \in LookedAt(k, inf, Listed(list), InList(list))
<1>1. /\ Upto(list, 0) = {} /\ Upto(list, Len(list)) = Listed(list)
      /\ \A i \in 1..Len(list) : Upto(list, i) = Upto(list, i - 1) \cup ({list[i]} \ {"_"})
  BY UptoNext
<1>2. /\ Len(list) \in Nat /\ 0 \in 0..Len(list) /\ Len(list) \in 0..Len(list)
      /\ \A i \in 1..Len(list) : list[i] \in Idents /\ i - 1 \in 0..Len(list) /\ i \in 0..Len(list)
  OBVIOUS
<1>3. inf \in LookedAt(k, inf, {}, {})
  BY LooksSelf DEF LookedAt
<1>4. Each(InferIdent, inf, list) \in LookedAt(k, inf, Listed(list), {})
  <2> DEFINE S == [i \in 0..Len(list) |-> LookedAt(k, inf, Upto(list, i), {})]
  <2>1. inf \in S[0]
    BY <1>1, <1>2, <1>3
  <2>2. ASSUME NEW i \in 1..Len(list), NEW st \in S[i - 1] PROVE IdentTurn(0, st, list[i]) \in S[i]
    <3>1. st \in LookedAt(k, inf, Upto(list, i - 1), {}) /\ st \in Checkers(k)
      BY <1>2, <2>2 DEF LookedAt
    <3>2. InferIdent(st, list[i]) \in LookedAt(k, st, {list[i]} \ {"_"}, {})
      BY <1>2, <3>1, CheckerWrites
    <3>3. InferIdent(st, list[i]) \in LookedAt(k, inf, Upto(list, i - 1) \cup ({list[i]} \ {"_"}), {} \cup {})
      BY <3>1, <3>2, LookedTwice
    <3>4. InferIdent(st, list[i]) \in LookedAt(k, inf, Upto(list, i), {})
      BY <1>1, <3>3
    <3> QED BY <1>2, <3>4 DEF IdentTurn
  <2> HIDE DEF S
  <2>3. Each(InferIdent, inf, list) = IdentLoop!Loop(0, inf, list)
    BY DEF IdentLoop!Loop, Each, IdentLoop!Each, IdentTurn
  <2>4. IdentLoop!Loop(0, inf, list) \in S[Len(list)]
    BY <2>1, <2>2, IdentLoop!LoopMoves
  <2>5. S[Len(list)] = LookedAt(k, inf, Listed(list), {})
    BY <1>1, <1>2 DEF S
  <2> QED BY <2>3, <2>4, <2>5
<1>5. Each(Step, inf, list) \in LookedAt(k, inf, Listed(list), InList(list))
  <2> DEFINE W(i) == {list[j] : j \in 1..i}
             S == [i \in 0..Len(list) |-> LookedAt(k, inf, Upto(list, i), W(i))]
  <2>1. inf \in S[0]
    <3>1. W(0) = {}
      OBVIOUS
    <3> HIDE DEF W
    <3> QED BY <1>1, <1>2, <1>3, <3>1
  <2>2. ASSUME NEW i \in 1..Len(list), NEW st \in S[i - 1] PROVE StepTurn(0, st, list[i]) \in S[i]
    <3>0. W(i) = W(i - 1) \cup {list[i]}
      <4>1. 1..i = (1..(i - 1)) \cup {i}
        BY <1>2
      <4> QED BY <4>1
    <3> HIDE DEF W
    <3>1. st \in LookedAt(k, inf, Upto(list, i - 1), W(i - 1)) /\ st \in Checkers(k)
      BY <1>2, <2>2 DEF LookedAt
    <3>2. Step(st, list[i]) \in LookedAt(k, st, {list[i]} \ {"_"}, {list[i]})
      BY <1>2, <3>1, CheckerWrites
    <3>3. Step(st, list[i]) \in LookedAt(k, inf, Upto(list, i - 1) \cup ({list[i]} \ {"_"}), W(i - 1) \cup {list[i]})
      BY <3>1, <3>2, LookedTwice
    <3>4. Step(st, list[i]) \in LookedAt(k, inf, Upto(list, i), W(i))
      BY <1>1, <3>0, <3>3
    <3> QED BY <1>2, <3>4 DEF StepTurn
  <2> HIDE DEF S
  <2>3. Each(Step, inf, list) = StepLoop!Loop(0, inf, list)
    BY DEF StepLoop!Loop, Each, StepLoop!Each, StepTurn
  <2>4. StepLoop!Loop(0, inf, list) \in S[Len(list)]
    BY <2>1, <2>2, StepLoop!LoopMoves
  <2>5. S[Len(list)] = LookedAt(k, inf, Listed(list), InList(list))
    <3>1. W(Len(list)) = InList(list)
      BY DEF InList
    <3> HIDE DEF W
    <3> QED BY <1>1, <1>2, <3>1 DEF S
  <2> QED BY <2>3, <2>4, <2>5
<1> QED BY <1>4, <1>5

\* The same in Go.
LEMMA GoWritesAll ==
    ASSUME NEW k \in Nat \ {0}, NEW g \in Compilers(k), NEW list \in Seq(Idents)
    PROVE  /\ Each(GoAssign, g, list) \in TouchedAt(k, g, Listed(list))
           /\ Each(GoStep, g, list) \in TouchedAt(k, g, Listed(list))
<1>1. /\ Upto(list, 0) = {} /\ Upto(list, Len(list)) = Listed(list)
      /\ \A i \in 1..Len(list) : Upto(list, i) = Upto(list, i - 1) \cup ({list[i]} \ {"_"})
  BY UptoNext
<1>2. /\ Len(list) \in Nat /\ 0 \in 0..Len(list) /\ Len(list) \in 0..Len(list)
      /\ \A i \in 1..Len(list) : list[i] \in Idents /\ i - 1 \in 0..Len(list) /\ i \in 0..Len(list)
  OBVIOUS
<1>3. g \in TouchedAt(k, g, {})
  BY TouchesSelf DEF TouchedAt
<1> DEFINE S == [i \in 0..Len(list) |-> TouchedAt(k, g, Upto(list, i))]
<1>4. g \in S[0]
  BY <1>1, <1>2, <1>3
<1>5. ASSUME NEW i \in 1..Len(list), NEW h \in S[i - 1]
      PROVE  GoAssign(h, list[i]) \in S[i] /\ GoStep(h, list[i]) \in S[i]
  <2>1. h \in TouchedAt(k, g, Upto(list, i - 1)) /\ h \in Compilers(k)
    BY <1>2, <1>5 DEF TouchedAt
  <2>2. /\ GoAssign(h, list[i]) \in TouchedAt(k, h, {list[i]} \ {"_"})
        /\ GoStep(h, list[i]) \in TouchedAt(k, h, {list[i]} \ {"_"})
    BY <1>2, <2>1, GoMarks, GoWrites
  <2>3. GoAssign(h, list[i]) \in TouchedAt(k, g, Upto(list, i - 1) \cup ({list[i]} \ {"_"}))
    BY <2>1, <2>2, TouchedTwice
  <2>4. GoStep(h, list[i]) \in TouchedAt(k, g, Upto(list, i - 1) \cup ({list[i]} \ {"_"}))
    BY <2>1, <2>2, TouchedTwice
  <2> QED BY <1>1, <1>2, <2>3, <2>4
<1>6. S[Len(list)] = TouchedAt(k, g, Listed(list))
  BY <1>1, <1>2
<1> HIDE DEF S
<1>7. AssignLoop!Loop(0, g, list) \in S[Len(list)]
  BY <1>4, <1>5, AssignLoop!LoopMoves DEF AssignTurn
<1>8. GoStepLoop!Loop(0, g, list) \in S[Len(list)]
  BY <1>4, <1>5, GoStepLoop!LoopMoves DEF GoStepTurn
<1>9. Each(GoAssign, g, list) = AssignLoop!Loop(0, g, list)
  BY DEF AssignLoop!Loop, Each, AssignLoop!Each, AssignTurn
<1>10. Each(GoStep, g, list) = GoStepLoop!Loop(0, g, list)
  BY DEF GoStepLoop!Loop, Each, GoStepLoop!Each, GoStepTurn
<1> QED BY <1>6, <1>7, <1>8, <1>9, <1>10

\* The block that a scope of Go belongs to has it; so have the checker's block and its last scope.
LEMMA TopsBlock ==
    ASSUME ScopesInv, NEW b \in 1..Len(blocks), NEW p, p = blocks[b].inferred + Inferred(blocks[b].kind)
    PROVE  BlockInferred(p) = b
<1>1. p \in 1..InferDepth /\ blocks[b].inferred < p /\ p \in Nat /\ Len(blocks) \in Nat
  <2>1. p \in 1..InferDepth /\ blocks[b].inferred < p
    BY BlockTops
  <2> QED BY <2>1, Depths
<1> DEFINE B == BlockInferred(p)
<1>2. B \in 0..Len(blocks) /\ b <= B
  BY <1>1, BlocksBefore
<1>3. B \in 1..Len(blocks) /\ blocks[B].inferred < p
  <2>1. B # 0 => B \in 1..Len(blocks) /\ blocks[B].inferred < p
    BY <1>1, CheckersBlock
  <2> HIDE DEF B
  <2> QED BY <1>1, <1>2, <2>1
<1>4. ASSUME b < B PROVE FALSE
  <2>1. blocks[b].inferred + Inferred(blocks[b].kind) <= blocks[B].inferred /\ blocks[B].inferred \in Nat
    <3> HIDE DEF B
    <3>1. b < B
      BY <1>4
    <3> QED BY <1>3, <3>1, BlockOrder, BlockStarts
  <2> HIDE DEF B
  <2> QED BY <1>1, <1>3, <2>1
<1> HIDE DEF B
<1>5. b = B
  BY <1>2, <1>3, <1>4
<1> QED BY <1>5 DEF B

\* Uses and assignments keep a block marked, if the names mean the same.
LEMMA MarkedUse ==
    ASSUME ScopesInv, NEW b \in 1..Len(blocks), NEW s, NEW t, NEW c, NEW g, NEW N,
           Marked(blocks[b], s, t), Looks(s, c, N), Touches(t, g, N),
           Len(s) \in 0..InferDepth, Len(t) \in 0..GoDepth,
           blocks[b].inferred + Inferred(blocks[b].kind) <= Len(s),
           blocks[b].generated + Generated(blocks[b].kind) <= Len(t),
           \A n \in N : Home(s, n) # 0 /\ Home(t, n) # 0 => BlockInferred(Home(s, n)) = BlockGenerated(Home(t, n))
    PROVE  Marked(blocks[b], c, g)
<1> DEFINE p == blocks[b].inferred + Inferred(blocks[b].kind)
           l == blocks[b].generated
           q == l + Generated(blocks[b].kind)
           f == blocks[b].kind = "func"
<1>1. p \in 1..Len(s) /\ q \in 1..Len(t) /\ l \in Nat /\ l < q /\ Len(s) \in Nat /\ Len(t) \in Nat /\ GoDepth \in Nat
  <2>1. p \in 1..InferDepth /\ q \in 1..GoDepth /\ l \in Nat /\ l < q
    BY BlockTops
  <2>2. InferDepth \in Nat /\ GoDepth \in Nat
    BY Depths
  <2>3. p <= Len(s) /\ q <= Len(t)
    OBVIOUS
  <2> HIDE DEF p, q, l
  <2> QED BY <2>1, <2>2, <2>3
<1>2. /\ \A i \in (l + 1)..q : \A n \in DOMAIN t[i] : Constant(t[i][n]) => i = q /\ n \in DOMAIN s[p] /\ ~ s[p][n].mutable
      /\ f => \A n \in DOMAIN t[q] : Pending(t[q][n]) => n \in DOMAIN s[p] /\ ~ s[p][n].used
  BY DEF Marked
<1>3. BlockInferred(p) = b
  BY TopsBlock
<1>4. ASSUME NEW i \in 1..GoDepth, BlockGenerated(i) = b PROVE i <= q
  BY <1>4, GosBlock
<1> HIDE DEF p, l, q, f
<1>5. DOMAIN c[p] = DOMAIN s[p]
  BY <1>1 DEF Looks, SameNames
<1>6. ASSUME NEW i \in (l + 1)..q
      PROVE  DOMAIN g[i] = DOMAIN t[i] /\ \A n \in DOMAIN t[i] : Later(t[i][n], g[i][n])
  <2>1. i \in 1..Len(t)
    BY <1>1
  <2> QED BY <2>1 DEF Touches, Ages
<1>7. \A n \in DOMAIN s[p] : c[p][n].mutable = s[p][n].mutable
  BY <1>1 DEF Looks
<1>8. \A i \in (l + 1)..q : \A n \in DOMAIN g[i] : Constant(g[i][n]) => i = q /\ n \in DOMAIN c[p] /\ ~ c[p][n].mutable
  BY <1>2, <1>5, <1>6, <1>7 DEF Later, Constant
<1>9. q \in (l + 1)..q
  BY <1>1
<1>10. ASSUME f, NEW n \in DOMAIN g[q], Pending(g[q][n])
       PROVE  n \in DOMAIN c[p] /\ ~ c[p][n].used
  <2>1. n \in DOMAIN t[q] /\ Pending(t[q][n])
    BY <1>6, <1>9, <1>10 DEF Later, Pending
  <2>2. n \in DOMAIN s[p] /\ ~ s[p][n].used
    BY <1>2, <1>10, <2>1
  <2>3. SUFFICES ASSUME c[p][n].used PROVE FALSE
    BY <1>5, <2>2
  <2>4. n \in N /\ p = Home(s, n)
    BY <1>1, <2>2, <2>3 DEF Looks
  <2>5. Home(t, n) \in 0..Len(t) /\ Home(t, n) # 0 /\ q <= Home(t, n)
    BY <1>1, <2>1, HomeIs
  <2>6. Home(t, n) # q
    BY <1>10, <2>4, <2>5 DEF Touches
  <2>7. BlockGenerated(Home(t, n)) = b
    <3>1. Home(s, n) # 0
      BY <1>1, <2>4
    <3> QED BY <1>3, <2>4, <2>5, <3>1
  <2>8. Home(t, n) \in 1..GoDepth
    BY <1>1, <2>5
  <2>9. Home(t, n) <= q
    BY <1>4, <2>7, <2>8
  <2> HIDE DEF Home
  <2> QED BY <1>1, <2>5, <2>6, <2>8, <2>9
<1> QED BY <1>8, <1>10 DEF Marked, p, l, q, f

\* A statement that only uses and assigns names keeps the marks.
LEMMA UseMarks ==
    ASSUME ScopesInv, Clean, Marks, NEW list \in Seq(Idents), NEW inf, NEW g, NEW W,
           Stmt(<<>>, {}, list, inf, g),
           inf \in LookedAt(InferDepth, infer, Listed(list), W), g \in TouchedAt(GoDepth, go, Listed(list))
    PROVE  Marks'
<1> SUFFICES ASSUME Clean' PROVE NamesMarked'
  BY DEF Marks
<1>1. /\ infer' = inf /\ go' = g /\ blocks' = blocks
      /\ misread' = Misread(list, infer.scopes, go.scopes)
  BY DEF Stmt
<1>2. /\ Len(infer.scopes) = InferDepth /\ Len(go.scopes) = GoDepth /\ InferDepth \in Nat /\ GoDepth \in Nat
  BY Stacks
<1>3. Looks(infer.scopes, inf.scopes, Listed(list)) /\ Touches(go.scopes, g.scopes, Listed(list))
  BY DEF LookedAt, TouchedAt
<1>4. \A n \in Listed(list) : Home(infer.scopes, n) # 0 /\ Home(go.scopes, n) # 0 =>
        BlockInferred(Home(infer.scopes, n)) = BlockGenerated(Home(go.scopes, n))
  <2>1. Misread(list, infer.scopes, go.scopes) = {}
    BY <1>1 DEF Clean
  <2> QED BY <2>1 DEF Misread, Listed
<1>5. ASSUME NEW b \in 1..Len(blocks) PROVE Marked(blocks[b], inf.scopes, g.scopes)
  <2>1. Marked(blocks[b], infer.scopes, go.scopes)
    BY DEF Marks, NamesMarked
  <2>2. /\ blocks[b].inferred + Inferred(blocks[b].kind) <= Len(infer.scopes)
        /\ blocks[b].generated + Generated(blocks[b].kind) <= Len(go.scopes)
    BY <1>2, BlockWithin
  <2>3. Len(infer.scopes) \in 0..InferDepth /\ Len(go.scopes) \in 0..GoDepth
    BY <1>2
  <2> QED BY <1>3, <1>4, <2>1, <2>2, <2>3, MarkedUse
<1> QED BY <1>1, <1>5 DEF NamesMarked

-----------------------------------------------------------------------------
(* What a declaration does to Go's entries, and what Go refuses.           *)

\* The names of N are declared in the innermost scope, or assigned: no constant that e is not.
Mixes(k, t, g, N, e) ==
    /\ Ages(t, g, k - 1) /\ DOMAIN g[k] = DOMAIN t[k] \cup N
    /\ \A n \in DOMAIN t[k] : Later(t[k][n], g[k][n])
    /\ \A n \in N : (Constant(g[k][n]) => Constant(e)) /\ (Pending(g[k][n]) => Pending(e))
    /\ \A i \in 1..k : \A n \in DOMAIN t[i] :
        g[i][n].assigned /\ ~ t[i][n].assigned => i = k /\ n \in N /\ t[i][n].kind = "var"

\* Of the names that are refused as declared before, all are in D.
MixedAt(k, g, N, D, e) ==
    {h \in Compilers(k) :
        /\ DOMAIN h.scopes[k] = DOMAIN g.scopes[k] \cup N
        /\ \A refusal \in h.refused :
            refusal \in g.refused \/ refusal.kind = "constant" \/ (refusal.kind = "redeclared" /\ refusal.name \in D)
        /\ h.refused = {} => g.refused = {} /\ Mixes(k, g.scopes, h.scopes, N, e)}

\* Nothing is declared.
LEMMA MixesSelf ==
    ASSUME NEW k, NEW t, NEW e
    PROVE  Mixes(k, t, t, {}, e)
BY SameAges DEF Mixes, Later

\* One declaration after the other.
LEMMA MixesTwice ==
    ASSUME NEW k \in Nat \ {0}, NEW t, NEW g, NEW h, NEW N, NEW M, NEW e, Mixes(k, t, g, N, e), Mixes(k, g, h, M, e)
    PROVE  Mixes(k, t, h, N \cup M, e)
<1>1. /\ Ages(t, g, k - 1) /\ Ages(g, h, k - 1) /\ Ages(t, h, k - 1)
      /\ DOMAIN g[k] = DOMAIN t[k] \cup N /\ DOMAIN h[k] = DOMAIN g[k] \cup M
  BY AgesTwice DEF Mixes
<1>2. /\ \A n \in DOMAIN t[k] : Later(t[k][n], g[k][n])
      /\ \A n \in DOMAIN g[k] : Later(g[k][n], h[k][n])
  BY DEF Mixes
<1>3. \A n \in DOMAIN t[k] : Later(t[k][n], h[k][n])
  BY <1>1, <1>2 DEF Later
<1>4. ASSUME NEW n \in N \cup M
      PROVE  (Constant(h[k][n]) => Constant(e)) /\ (Pending(h[k][n]) => Pending(e))
  <2>1. n \in M => (Constant(h[k][n]) => Constant(e)) /\ (Pending(h[k][n]) => Pending(e))
    BY DEF Mixes
  <2>2. n \in N => Later(g[k][n], h[k][n])
    BY <1>1, <1>2
  <2>3. n \in N => (Constant(h[k][n]) => Constant(g[k][n])) /\ (Pending(h[k][n]) => Pending(g[k][n]))
    BY <2>2 DEF Later, Constant, Pending
  <2>4. n \in N => (Constant(g[k][n]) => Constant(e)) /\ (Pending(g[k][n]) => Pending(e))
    BY DEF Mixes
  <2> QED BY <2>1, <2>3, <2>4
<1>5. ASSUME NEW i \in 1..k, NEW n \in DOMAIN t[i], h[i][n].assigned, ~ t[i][n].assigned
      PROVE  i = k /\ n \in N \cup M /\ t[i][n].kind = "var"
  <2>1. n \in DOMAIN g[i] /\ Later(t[i][n], g[i][n])
    <3>1. CASE i = k
      BY <1>1, <1>2, <3>1
    <3>2. CASE i # k
      <4>1. i \in 1..(k - 1)
        BY <3>2
      <4> QED BY <1>1, <4>1 DEF Ages
    <3> QED BY <3>1, <3>2
  <2>2. g[i][n].assigned => i = k /\ n \in N /\ t[i][n].kind = "var"
    BY <1>5 DEF Mixes
  <2>3. ~ g[i][n].assigned => i = k /\ n \in M /\ g[i][n].kind = "var"
    BY <1>5, <2>1 DEF Mixes
  <2> QED BY <2>1, <2>2, <2>3 DEF Later
<1>6. DOMAIN h[k] = DOMAIN t[k] \cup (N \cup M)
  BY <1>1
<1> QED BY <1>1, <1>3, <1>4, <1>5, <1>6 DEF Mixes

\* The same of what is refused: one declaration after the other.
LEMMA MixedTwice ==
    ASSUME NEW k \in Nat \ {0}, NEW g, NEW N, NEW M, NEW D, NEW e,
           NEW h \in MixedAt(k, g, N, D, e), NEW next \in MixedAt(k, h, M, D, e)
    PROVE  next \in MixedAt(k, g, N \cup M, D, e)
<1>1. /\ next \in Compilers(k)
      /\ DOMAIN h.scopes[k] = DOMAIN g.scopes[k] \cup N
      /\ DOMAIN next.scopes[k] = DOMAIN h.scopes[k] \cup M
  BY DEF MixedAt
<1>2. ASSUME NEW refusal \in next.refused
      PROVE  refusal \in g.refused \/ refusal.kind = "constant" \/ (refusal.kind = "redeclared" /\ refusal.name \in D)
  BY DEF MixedAt
<1>3. ASSUME next.refused = {} PROVE g.refused = {} /\ Mixes(k, g.scopes, next.scopes, N \cup M, e)
  <2>1. h.refused = {} /\ Mixes(k, h.scopes, next.scopes, M, e)
    BY <1>3 DEF MixedAt
  <2>2. g.refused = {} /\ Mixes(k, g.scopes, h.scopes, N, e)
    BY <2>1 DEF MixedAt
  <2> QED BY <2>1, <2>2, MixesTwice
<1>4. DOMAIN next.scopes[k] = DOMAIN g.scopes[k] \cup (N \cup M)
  BY <1>1
<1> QED BY <1>1, <1>2, <1>3, <1>4 DEF MixedAt

\* The innermost scope is one of the scopes.
LEMMA TopNumber ==
    ASSUME NEW k \in Nat \ {0}
    PROVE  k \in Nat /\ k > 0 /\ k \in 1..k /\ k - 1 \in Nat /\ \A i \in 1..(k - 1) : i \in 1..k
<1>1. k \in Nat /\ k # 0
  OBVIOUS
<1> QED BY <1>1

\* A name of the innermost scope is found there.
LEMMA TopHome ==
    ASSUME NEW k \in Nat \ {0}, NEW s, Len(s) = k, NEW n \in DOMAIN s[k]
    PROVE  Home(s, n) = k
<1>1. k \in Nat /\ k > 0 /\ k \in 1..k
  BY TopNumber
<1>2. /\ Home(s, n) \in 0..k
      /\ Home(s, n) # 0 => \A i \in 1..k : n \in DOMAIN s[i] => i <= Home(s, n)
  BY <1>1, HomeIs
<1>3. Home(s, n) = 0 => n \notin DOMAIN s[k]
  BY <1>1, HomeIs
<1> HIDE DEF Home
<1> QED BY <1>1, <1>2, <1>3

\* An entry of the innermost scope is replaced.
LEMMA TopEntry ==
    ASSUME NEW E, NEW k \in Nat \ {0}, NEW s \in Seq(ScopesOf(E)), Len(s) = k, NEW n \in DOMAIN s[k], NEW e
    PROVE  s[k][n] \in E /\ [s EXCEPT ![k] = [s[k] EXCEPT ![n] = e]][k][n] = e
<1>1. k \in 1..Len(s) /\ k # 0 /\ DOMAIN s = 1..Len(s)
  <2>1. k \in 1..k /\ k > 0
    BY TopNumber
  <2>2. DOMAIN s = 1..Len(s)
    OBVIOUS
  <2> QED BY <2>1, <2>2
<1>2. s[k] \in ScopesOf(E)
  BY <1>1
<1>3. s[k][n] \in E /\ s[k] = [m \in DOMAIN s[k] |-> s[k][m]]
  BY <1>2 DEF ScopesOf
<1>4. [s EXCEPT ![k] = [s[k] EXCEPT ![n] = e]][k] = [s[k] EXCEPT ![n] = e]
  BY <1>1
<1>5. [s[k] EXCEPT ![n] = e][n] = e
  BY <1>3
<1> QED BY <1>3, <1>4, <1>5

\* A name that is in the innermost scope is used or assigned.
LEMMA TopMixes ==
    ASSUME NEW k \in Nat \ {0}, NEW g \in Compilers(k), NEW n \in DOMAIN g.scopes[k], n # "_",
           NEW h \in TouchedAt(k, g, {n}), NEW e, h.refused = {} => g.refused = {},
           h.refused = {} => (Constant(h.scopes[k][n]) => Constant(e))
    PROVE  \A D : h \in MixedAt(k, g, {n}, D, e)
<1>1. Len(g.scopes) = k /\ k \in Nat /\ k > 0 /\ k \in 1..k /\ h \in Compilers(k)
  BY TopNumber DEF Compilers, TouchedAt
<1>2. Home(g.scopes, n) = k
  BY <1>1, TopHome
<1>3. Touches(g.scopes, h.scopes, {n})
  BY DEF TouchedAt
<1>4. Ages(g.scopes, h.scopes, k)
  BY <1>1, <1>3 DEF Touches
<1>5. /\ Ages(g.scopes, h.scopes, k - 1) /\ DOMAIN h.scopes[k] = DOMAIN g.scopes[k]
      /\ \A m \in DOMAIN g.scopes[k] : Later(g.scopes[k][m], h.scopes[k][m])
  BY <1>1, <1>4, TopNumber DEF Ages
<1>6. \A i \in 1..k : \A m \in DOMAIN g.scopes[i] : h.scopes[i][m].assigned /\ ~ g.scopes[i][m].assigned =>
        i = k /\ m \in {n} /\ g.scopes[i][m].kind = "var"
  BY <1>1, <1>2, <1>3 DEF Touches
<1>10. ~ Pending(h.scopes[k][n])
  BY <1>1, <1>2, <1>3 DEF Touches
<1>7. h.refused = {} => Mixes(k, g.scopes, h.scopes, {n}, e)
  BY <1>5, <1>6, <1>10 DEF Mixes
<1>8. ASSUME NEW refusal \in h.refused PROVE refusal \in g.refused \/ refusal.kind = "constant"
  <2>1. refusal \in g.refused \/ Unassignable(g.scopes, {n}, refusal)
    BY DEF TouchedAt
  <2>2. Unassignable(g.scopes, {n}, refusal) => refusal.kind = "constant"
    BY <1>1, <1>2 DEF Unassignable
  <2> QED BY <2>1, <2>2
<1>9. DOMAIN h.scopes[k] = DOMAIN g.scopes[k] \cup {n}
  BY <1>5
<1> QED BY <1>1, <1>7, <1>8, <1>9 DEF MixedAt

\* An entry of the innermost scope is assigned.
LEMMA AssignedTop ==
    ASSUME NEW k \in Nat \ {0}, NEW g \in Compilers(k), NEW n, n \in DOMAIN g.scopes[k]
    PROVE  [g.scopes EXCEPT ![k] = [g.scopes[k] EXCEPT ![n] = [g.scopes[k][n] EXCEPT !.assigned = TRUE]]][k][n] =
            [g.scopes[k][n] EXCEPT !.assigned = TRUE]
<1> DEFINE s == g.scopes
           e == [s[k][n] EXCEPT !.assigned = TRUE]
<1>1. s \in Seq(ScopesOf(GoEntries)) /\ Len(s) = k /\ n \in DOMAIN s[k]
  BY DEF Compilers
<1> HIDE DEF s, e
<1>2. s[k][n] \in GoEntries /\ [s EXCEPT ![k] = [s[k] EXCEPT ![n] = e]][k][n] = e
  BY <1>1, TopEntry
<1> QED BY <1>2 DEF s, e

\* n, m := ... assigns an n that the scope has.
LEMMA AssignMixes ==
    ASSUME NEW k \in Nat \ {0}, NEW g \in Compilers(k), NEW n \in Idents, n \in DOMAIN g.scopes[k], n # "_"
    PROVE  \A D, e : GoAssign(g, n) \in MixedAt(k, g, {n}, D, e)
<1>1. GoAssign(g, n) \in TouchedAt(k, g, {n}) /\ (GoAssign(g, n).refused = {} => g.refused = {})
  <2>1. {n} \ {"_"} = {n}
    OBVIOUS
  <2> QED BY <2>1, GoMarks, GoNameAdds
<1>2. GoAssign(g, n).refused = {} => ~ Constant(GoAssign(g, n).scopes[k][n])
  <2>1. /\ g \in [scopes : Seq(ScopesOf(GoEntries)), refused : SUBSET Refusals] /\ Len(g.scopes) = k
        /\ g.scopes \in Seq(ScopesOf(GoEntries)) /\ k \in Nat /\ k > 0 /\ k \in 1..k
    BY TopNumber DEF Compilers
  <2>2. Home(g.scopes, n) = k
    BY <2>1, TopHome
  <2>12. g.scopes[k][n] \in GoEntries
    BY <2>1, TopEntry
  <2>13. [g.scopes EXCEPT ![k] = [g.scopes[k] EXCEPT ![n] = [g.scopes[k][n] EXCEPT !.assigned = TRUE]]][k][n] =
              [g.scopes[k][n] EXCEPT !.assigned = TRUE]
    BY AssignedTop
  <2> DEFINE d == g.scopes[k][n]
             t == [g.scopes EXCEPT ![k] = [g.scopes[k] EXCEPT ![n] = [g.scopes[k][n] EXCEPT !.assigned = TRUE]]]
  <2>3. d \in GoEntries
    BY <2>12
  <2>4. GoAssign(g, n) = IF d.kind = "const" THEN Refuse(g, "constant", {n})
                         ELSE IF d.kind = "parameter" THEN g ELSE [g EXCEPT !.scopes = t]
    BY <2>1, <2>2 DEF GoAssign
  <2>5. Refuse(g, "constant", {n}).refused # {}
    BY <2>1 DEF Refuse
  <2>6. t[k][n] = [d EXCEPT !.assigned = TRUE]
    BY <2>13
  <2>7. [g EXCEPT !.scopes = t].scopes = t
    BY <2>1
  <2>8. ~ Constant([d EXCEPT !.assigned = TRUE]) \/ d.kind = "const"
    <3> HIDE DEF d
    <3> QED BY <2>3 DEF Constant, GoEntries
  <2>9. CASE d.kind = "const"
    BY <2>4, <2>5, <2>9
  <2>10. CASE d.kind = "parameter"
    <3>1. ~ Constant(d) /\ GoAssign(g, n) = g
      BY <2>4, <2>10 DEF Constant
    <3> QED BY <3>1
  <2>11. CASE d.kind \notin {"const", "parameter"}
    <3>1. GoAssign(g, n).scopes[k][n] = [d EXCEPT !.assigned = TRUE]
      <4> HIDE DEF t, d
      <4> QED BY <2>4, <2>6, <2>7, <2>11
    <3> HIDE DEF d
    <3> QED BY <2>8, <2>11, <3>1
  <2> QED BY <2>9, <2>10, <2>11
<1> QED BY <1>1, <1>2, TopMixes

\* _ = n after n := ..., in the innermost scope.
LEMMA UseMixes ==
    ASSUME NEW k \in Nat \ {0}, NEW g \in Compilers(k), NEW n \in Idents, n \in DOMAIN g.scopes[k], n # "_", NEW e,
           g.refused = {} => (Constant(g.scopes[k][n]) => Constant(e))
    PROVE  \A D : GoUse(g, n) \in MixedAt(k, g, {n}, D, e)
<1>1. GoUse(g, n) \in TouchedAt(k, g, {n}) /\ (GoUse(g, n).refused = {} => g.refused = {})
  <2>1. {n} \ {"_"} = {n}
    OBVIOUS
  <2> QED BY <2>1, GoMarks, GoNameAdds
<1>2. Constant(GoUse(g, n).scopes[k][n]) => Constant(g.scopes[k][n])
  <2>1. Len(g.scopes) = k /\ k \in 1..k
    BY TopNumber DEF Compilers
  <2>2. Later(g.scopes[k][n], GoUse(g, n).scopes[k][n])
    BY <1>1, <2>1 DEF TouchedAt, Touches, Ages
  <2> QED BY <2>2 DEF Later, Constant
<1> QED BY <1>1, <1>2, TopMixes

\* Nothing is declared and nothing refused.
LEMMA MixedSelf ==
    ASSUME NEW k \in Nat \ {0}, NEW g \in Compilers(k), NEW D, NEW e
    PROVE  g \in MixedAt(k, g, {}, D, e)
BY MixesSelf DEF MixedAt

\* A declaration.
LEMMA DeclareMixes ==
    ASSUME NEW k \in Nat \ {0}, NEW g \in Compilers(k), NEW n \in Idents, NEW e \in GoEntries, NEW D,
           n \in DOMAIN g.scopes[k] => n \in D
    PROVE  GoDeclare(g, n, e) \in MixedAt(k, g, {n} \ {"_"}, D, e)
<1>1. /\ g \in [scopes : Seq(ScopesOf(GoEntries)), refused : SUBSET Refusals] /\ Len(g.scopes) = k
      /\ g.scopes \in Seq(ScopesOf(GoEntries)) /\ k \in Nat /\ k > 0 /\ Last(g.scopes) = g.scopes[k]
  BY DEF Compilers, Last
<1>2. GoDeclare(g, n, e) \in Compilers(k)
  BY GoKeeps
<1>3. CASE n = "_"
  <2>1. GoDeclare(g, n, e) = g /\ {n} \ {"_"} = {}
    BY <1>3 DEF GoDeclare
  <2> QED BY <2>1, MixedSelf
<1>4. CASE n # "_" /\ n \in DOMAIN g.scopes[k]
  <2>1. GoDeclare(g, n, e) = Refuse(g, "redeclared", {n})
    BY <1>1, <1>4 DEF GoDeclare
  <2>2. /\ Refuse(g, "redeclared", {n}).scopes = g.scopes
        /\ Refuse(g, "redeclared", {n}).refused = g.refused \cup {[kind |-> "redeclared", name |-> n]}
    BY <1>1 DEF Refuse
  <2> DEFINE h == Refuse(g, "redeclared", {n})
  <2>3. h.refused # {} /\ h.scopes = g.scopes /\ h \in Compilers(k)
    BY <1>2, <2>1, <2>2
  <2>4. \A refusal \in h.refused : refusal \in g.refused \/ (refusal.kind = "redeclared" /\ refusal.name \in D)
    <3>1. [kind |-> "redeclared", name |-> n].kind = "redeclared" /\ [kind |-> "redeclared", name |-> n].name = n
      OBVIOUS
    <3>2. n \in D
      BY <1>4
    <3> DEFINE r == [kind |-> "redeclared", name |-> n]
    <3>3. h.refused = g.refused \cup {r} /\ r.kind = "redeclared" /\ r.name \in D
      BY <2>2, <3>1, <3>2
    <3> HIDE DEF h, r
    <3> QED BY <3>3
  <2> HIDE DEF h
  <2>6. DOMAIN g.scopes[k] = DOMAIN g.scopes[k] \cup ({n} \ {"_"})
    BY <1>4
  <2>5. h \in MixedAt(k, g, {n} \ {"_"}, D, e)
    BY <2>3, <2>4, <2>6 DEF MixedAt
  <2> QED BY <2>1, <2>5 DEF h
<1>5. CASE n # "_" /\ n \notin DOMAIN g.scopes[k]
  <2> DEFINE t == [g.scopes EXCEPT ![Len(g.scopes)] = With(@, n, e)]
             h == [g EXCEPT !.scopes = t]
  <2>1. GoDeclare(g, n, e) = h
    BY <1>1, <1>5 DEF GoDeclare, GoBind
  <2>2. t[k] = With(g.scopes[k], n, e) /\ \A i \in 1..(k - 1) : t[i] = g.scopes[i]
    BY <1>1
  <2>3. /\ DOMAIN With(g.scopes[k], n, e) = DOMAIN g.scopes[k] \cup {n}
        /\ With(g.scopes[k], n, e)[n] = e
        /\ \A m \in DOMAIN g.scopes[k] : m # n => With(g.scopes[k], n, e)[m] = g.scopes[k][m]
    BY DEF With
  <2>4. h.scopes = t /\ h.refused = g.refused
    <3> HIDE DEF t
    <3> QED BY <1>1
  <2> HIDE DEF t, h
  <2>5. Ages(g.scopes, t, k - 1)
    BY <2>2, SameAges
  <2>6. \A m \in DOMAIN g.scopes[k] : t[k][m] = g.scopes[k][m]
    BY <1>5, <2>2, <2>3
  <2>7. \A i \in 1..k : \A m \in DOMAIN g.scopes[i] : t[i][m] = g.scopes[i][m]
    <3>1. \A i \in 1..k : i = k \/ i \in 1..(k - 1)
      BY <1>1
    <3> QED BY <2>2, <2>6, <3>1
  <2>8. DOMAIN t[k] = DOMAIN g.scopes[k] \cup {n} /\ t[k][n] = e
    BY <2>2, <2>3
  <2>9. Mixes(k, g.scopes, t, {n}, e)
    BY <2>5, <2>6, <2>7, <2>8 DEF Mixes, Later
  <2>10. {n} \ {"_"} = {n}
    BY <1>5
  <2>11. h \in MixedAt(k, g, {n}, D, e)
    <3>1. h \in Compilers(k)
      BY <1>2, <2>1
    <3> QED BY <2>4, <2>8, <2>9, <3>1 DEF MixedAt
  <2> QED BY <2>1, <2>10, <2>11
<1> QED BY <1>3, <1>4, <1>5

\* A list of declarations, of which the names in old are assigned.
LEMMA MixLoopMixes ==
    ASSUME NEW k \in Nat \ {0}, NEW g \in Compilers(k), NEW list \in Seq(Idents), NEW e \in GoEntries,
           NEW old, old \subseteq DOMAIN g.scopes[k], NEW D, Repeated(list) \subseteq D,
           \A n \in DOMAIN g.scopes[k] \cap Listed(list) : n \in old \/ n \in D
    PROVE  MixLoop!Loop(<<old, e>>, g, list) \in MixedAt(k, g, Listed(list), D, e)
<1> DEFINE S == [i \in 0..Len(list) |-> MixedAt(k, g, Upto(list, i), D, e)]
           c == <<old, e>>
<1>1. /\ Upto(list, 0) = {} /\ Upto(list, Len(list)) = Listed(list)
      /\ \A i \in 1..Len(list) : Upto(list, i) = Upto(list, i - 1) \cup ({list[i]} \ {"_"})
  BY UptoNext
<1>2. /\ Len(list) \in Nat /\ 0 \in 0..Len(list) /\ Len(list) \in 0..Len(list)
      /\ \A i \in 1..Len(list) : list[i] \in Idents /\ i - 1 \in 0..Len(list) /\ i \in 0..Len(list)
  OBVIOUS
<1>3. g \in S[0]
  BY <1>1, <1>2, MixedSelf
<1>4. ASSUME NEW i \in 1..Len(list), NEW h \in S[i - 1] PROVE MixTurn(c, h, list[i]) \in S[i]
  <2> DEFINE n == list[i]
             next == MixTurn(c, h, n)
             N == Upto(list, i - 1)
             M == {n} \ {"_"}
  <2>1. n \in Idents /\ h \in MixedAt(k, g, N, D, e) /\ h \in Compilers(k)
    BY <1>2, <1>4 DEF MixedAt
  <2>2. DOMAIN g.scopes[k] \subseteq DOMAIN h.scopes[k] /\ DOMAIN h.scopes[k] \subseteq DOMAIN g.scopes[k] \cup N
    BY <2>1 DEF MixedAt
  <2>3. n \in N => n \in Repeated(list)
    <3>1. DOMAIN list = 1..Len(list)
      OBVIOUS
    <3> QED BY <3>1 DEF Upto, Repeated
  <2>4. n # "_" => n \in Listed(list)
    BY DEF Listed, InList
  <2>5. next = IF n \in old THEN GoAssign(h, n) ELSE GoDeclare(h, n, e)
    BY DEF MixTurn
  <2>6. S[i] = MixedAt(k, g, N \cup M, D, e)
    BY <1>1, <1>2
  <2> HIDE DEF next, N, n, S
  <2>7. next \in MixedAt(k, h, M, D, e)
    <3>1. CASE n = "_"
      <4>1. next = h /\ M = {}
        BY <2>5, <3>1 DEF GoAssign, GoDeclare
      <4> QED BY <2>1, <4>1, MixedSelf
    <3>2. CASE n # "_" /\ n \in old
      <4>1. M = {n} /\ n \in DOMAIN h.scopes[k] /\ next = GoAssign(h, n)
        BY <2>2, <2>5, <3>2
      <4>2. GoAssign(h, n) \in MixedAt(k, h, {n}, D, e)
        BY <2>1, <3>2, <4>1, AssignMixes
      <4> QED BY <4>1, <4>2
    <3>3. CASE n # "_" /\ n \notin old
      <4>1. n \in DOMAIN h.scopes[k] => n \in D
        BY <2>2, <2>3, <2>4, <3>3
      <4>2. GoDeclare(h, n, e) \in MixedAt(k, h, M, D, e)
        BY <2>1, <4>1, DeclareMixes
      <4> QED BY <2>5, <3>3, <4>2
    <3> QED BY <3>1, <3>2, <3>3
  <2> HIDE DEF M
  <2>8. next \in MixedAt(k, g, N \cup M, D, e)
    BY <2>1, <2>7, MixedTwice
  <2> QED BY <2>6, <2>8 DEF next, n
<1>5. MixLoop!Loop(c, g, list) \in S[Len(list)]
  <2> HIDE DEF S, c
  <2> QED BY <1>3, <1>4, MixLoop!LoopMoves
<1>6. S[Len(list)] = MixedAt(k, g, Listed(list), D, e)
  BY <1>1, <1>2
<1> QED BY <1>5, <1>6

\* The declarations of a list.
LEMMA ListMixes ==
    ASSUME NEW k \in Nat \ {0}, NEW g \in Compilers(k), NEW list \in Seq(Idents), NEW e \in GoEntries
    PROVE  /\ GoDeclareAll(g, list, e) \in
                MixedAt(k, g, Listed(list), Repeated(list) \cup (DOMAIN g.scopes[k] \cap Listed(list)), e)
           /\ GoMix(g, list, e) \in MixedAt(k, g, Listed(list), Repeated(list), e)
<1>1. Last(g.scopes) = g.scopes[k] /\ k \in Nat
  BY DEF Compilers, Last
<1>2. GoDeclareAll(g, list, e) = MixLoop!Loop(<<{}, e>>, g, list)
  BY DEF GoDeclareAll, MixLoop!Loop, Each, MixLoop!Each, MixTurn
<1>3. GoDeclareAll(g, list, e) \in
        MixedAt(k, g, Listed(list), Repeated(list) \cup (DOMAIN g.scopes[k] \cap Listed(list)), e)
  <2> DEFINE D == Repeated(list) \cup (DOMAIN g.scopes[k] \cap Listed(list))
  <2>1. Repeated(list) \subseteq D /\ \A n \in DOMAIN g.scopes[k] \cap Listed(list) : n \in {} \/ n \in D
    OBVIOUS
  <2> HIDE DEF D
  <2>2. MixLoop!Loop(<<{}, e>>, g, list) \in MixedAt(k, g, Listed(list), D, e)
    BY <2>1, MixLoopMixes
  <2> QED BY <1>2, <2>2 DEF D
<1>4. GoMix(g, list, e) \in MixedAt(k, g, Listed(list), Repeated(list), e)
  <2> DEFINE old == DOMAIN Last(g.scopes)
             h == MixLoop!Loop(<<old, e>>, g, list)
             twice == Repeated(list)
             m == Refuse(h, "redeclared", twice)
  <2>1. GoMix(g, list, e) = m
    BY DEF GoMix, MixLoop!Loop, Each, MixLoop!Each, MixTurn
  <2>2. h \in MixedAt(k, g, Listed(list), twice, e)
    <3>1. /\ old \subseteq DOMAIN g.scopes[k] /\ Repeated(list) \subseteq twice
          /\ \A n \in DOMAIN g.scopes[k] \cap Listed(list) : n \in old \/ n \in twice
      BY <1>1
    <3> HIDE DEF old, twice
    <3> QED BY <3>1, MixLoopMixes
  <2>3. twice \in SUBSET Idents
    BY ListNames
  <2> HIDE DEF h, twice
  <2>4. h \in Compilers(k) /\ h \in [scopes : Seq(ScopesOf(GoEntries)), refused : SUBSET Refusals]
    BY <2>2 DEF MixedAt, Compilers
  <2>5. m \in Compilers(k) /\ m.scopes = h.scopes
    BY <1>1, <2>3, <2>4, RefuseKeeps
  <2>6. m.refused = h.refused \cup {[kind |-> "redeclared", name |-> n] : n \in twice}
    BY <2>4 DEF Refuse
  <2>7. ASSUME NEW refusal \in m.refused
        PROVE  refusal \in h.refused \/ (refusal.kind = "redeclared" /\ refusal.name \in twice)
    BY <2>6
  <2>8. m.refused = {} => h.refused = {}
    BY <2>6
  <2> HIDE DEF m
  <2>9. m \in MixedAt(k, g, Listed(list), twice, e)
    BY <2>2, <2>5, <2>7, <2>8 DEF MixedAt
  <2> QED BY <2>1, <2>9 DEF twice
<1> QED BY <1>3, <1>4

\* n, m := ... refuses all of its names or none but those it has twice.
LEMMA ShortMixes ==
    ASSUME NEW k \in Nat \ {0}, NEW g \in Compilers(k), NEW list \in Seq(Idents), NEW e \in GoEntries, NEW D,
           IF InList(list) \subseteq DOMAIN g.scopes[k] \cup {"_"}
           THEN InList(list) \subseteq D ELSE Repeated(list) \subseteq D
    PROVE  GoShort(g, list, e) \in MixedAt(k, g, Listed(list), D, e)
<1>1. Last(g.scopes) = g.scopes[k] /\ k \in Nat /\ g \in [scopes : Seq(ScopesOf(GoEntries)), refused : SUBSET Refusals]
  BY DEF Compilers, Last
<1>2. CASE InList(list) \subseteq DOMAIN g.scopes[k] \cup {"_"}
  <2> DEFINE h == Refuse(g, "redeclared", InList(list))
  <2>1. GoShort(g, list, e) = h
    BY <1>1, <1>2 DEF GoShort
  <2>2. InList(list) \in SUBSET Idents
    BY ListNames
  <2>3. h \in Compilers(k) /\ h.scopes = g.scopes
    BY <1>1, <2>2, RefuseKeeps
  <2>4. h.refused = g.refused \cup {[kind |-> "redeclared", name |-> n] : n \in InList(list)}
    BY <1>1 DEF Refuse
  <2>5. InList(list) \subseteq D
    BY <1>2
  <2>6. ASSUME NEW refusal \in h.refused
        PROVE  refusal \in g.refused \/ (refusal.kind = "redeclared" /\ refusal.name \in D)
    <3> DEFINE names == InList(list)
    <3>1. names \subseteq D /\ refusal \in g.refused \cup {[kind |-> "redeclared", name |-> n] : n \in names}
      BY <2>4, <2>5
    <3> HIDE DEF names, h
    <3>2. CASE refusal \notin g.refused
      <4>1. PICK n \in names : refusal = [kind |-> "redeclared", name |-> n]
        BY <3>1, <3>2
      <4>2. n \in D
        BY <3>1
      <4>3. refusal.kind = "redeclared" /\ refusal.name = n
        BY <4>1
      <4> QED BY <4>2, <4>3
    <3> QED BY <3>2
  <2>7. h.refused = {} => g.refused = {} /\ InList(list) = {}
    BY <2>4
  <2>8. InList(list) = {} => Listed(list) = {}
    BY DEF Listed
  <2>9. Mixes(k, g.scopes, g.scopes, {}, e)
    BY MixesSelf
  <2> HIDE DEF h
  <2>10. h.refused = {} => g.refused = {} /\ Mixes(k, g.scopes, h.scopes, Listed(list), e)
    BY <2>3, <2>7, <2>8, <2>9
  <2>12. DOMAIN h.scopes[k] = DOMAIN g.scopes[k] \cup Listed(list)
    BY <1>2, <2>3 DEF Listed
  <2>11. h \in MixedAt(k, g, Listed(list), D, e)
    BY <2>3, <2>6, <2>10, <2>12 DEF MixedAt
  <2> QED BY <2>1, <2>11
<1>3. CASE ~ (InList(list) \subseteq DOMAIN g.scopes[k] \cup {"_"})
  <2>1. GoShort(g, list, e) = GoMix(g, list, e)
    BY <1>1, <1>3 DEF GoShort
  <2>2. GoMix(g, list, e) \in MixedAt(k, g, Listed(list), Repeated(list), e)
    BY ListMixes
  <2>3. Repeated(list) \subseteq D
    BY <1>3
  <2> HIDE DEF Repeated, Listed
  <2> QED BY <2>1, <2>2, <2>3 DEF MixedAt
<1> QED BY <1>2, <1>3

\* The places of a list.
LEMMA ListNumbers ==
    ASSUME NEW list \in Seq(Idents)
    PROVE  /\ Len(list) \in Nat /\ 0 \in 0..Len(list) /\ Len(list) \in 0..Len(list) /\ DOMAIN list = 1..Len(list)
           /\ \A i \in 1..Len(list) : list[i] \in Idents /\ i - 1 \in 0..Len(list) /\ i \in 0..Len(list)
OBVIOUS

\* The bindings of an arm, in a scope that is empty.
LEMMA BindingsMix ==
    ASSUME NEW k \in Nat \ {0}, NEW g \in Compilers(k), DOMAIN g.scopes[k] = {}, NEW list \in Seq(Idents),
           "_" \notin InList(list)
    PROVE  GoBindings(g, list) \in MixedAt(k, g, Listed(list), Repeated(list), Var)
<1> DEFINE D == Repeated(list)
           S == [i \in 0..Len(list) |-> MixedAt(k, g, Upto(list, i), D, Var)]
<1>1. /\ Upto(list, 0) = {} /\ Upto(list, Len(list)) = Listed(list)
      /\ \A i \in 1..Len(list) : Upto(list, i) = Upto(list, i - 1) \cup ({list[i]} \ {"_"})
  BY UptoNext
<1>2. /\ Len(list) \in Nat /\ 0 \in 0..Len(list) /\ Len(list) \in 0..Len(list) /\ DOMAIN list = 1..Len(list)
      /\ \A i \in 1..Len(list) : list[i] \in Idents /\ i - 1 \in 0..Len(list) /\ i \in 0..Len(list)
  BY ListNumbers
<1>8. Var \in GoEntries
  BY DEF Var, GoEntry, GoEntries
<1>3. g \in S[0]
  BY <1>1, <1>2, MixedSelf
<1>4. ASSUME NEW i \in 1..Len(list), NEW h \in S[i - 1] PROVE BindingTurn(0, h, list[i]) \in S[i]
  <2> DEFINE n == list[i]
             one == GoShort(h, <<n>>, Var)
             next == BindingTurn(0, h, n)
             N == Upto(list, i - 1)
  <2>1. n \in Idents /\ h \in MixedAt(k, g, N, D, Var) /\ h \in Compilers(k)
    BY <1>2, <1>4 DEF MixedAt
  <2>2. DOMAIN h.scopes[k] \subseteq N
    BY <2>1 DEF MixedAt
  <2>3. n \in N => n \in D
    <3>1. DOMAIN list = 1..Len(list)
      BY <1>2
    <3> QED BY <3>1 DEF Upto, Repeated
  <2>4. n # "_"
    BY DEF InList
  <2>5. next = GoUse(one, n)
    BY DEF BindingTurn
  <2>6. S[i] = MixedAt(k, g, (N \cup {n}) \cup {n}, D, Var)
    <3>1. Upto(list, i) = (N \cup {n}) \cup {n}
      BY <1>1, <2>4
    <3> HIDE DEF N, n, D
    <3> QED BY <1>2, <3>1
  <2> HIDE DEF next, N, n, S, D
  <2>7. <<n>> \in Seq(Idents) /\ InList(<<n>>) = {n} /\ Listed(<<n>>) = {n} /\ Repeated(<<n>>) = {}
    BY <2>1, <2>4, OneName
  <2>8. one \in MixedAt(k, h, {n}, D, Var)
    <3>1. IF InList(<<n>>) \subseteq DOMAIN h.scopes[k] \cup {"_"}
          THEN InList(<<n>>) \subseteq D ELSE Repeated(<<n>>) \subseteq D
      BY <2>2, <2>3, <2>4, <2>7
    <3>2. one \in MixedAt(k, h, Listed(<<n>>), D, Var)
      <4> HIDE DEF one
      <4> QED BY <1>8, <2>1, <2>7, <3>1, ShortMixes DEF one
    <3> QED BY <2>7, <3>2
  <2>9. one \in MixedAt(k, g, N \cup {n}, D, Var)
    <3> HIDE DEF one
    <3> QED BY <2>1, <2>8, MixedTwice
  <2>10. n \in DOMAIN one.scopes[k] /\ one \in Compilers(k)
    <3> HIDE DEF one
    <3> QED BY <2>8 DEF MixedAt
  <2>11. one.refused = {} => (Constant(one.scopes[k][n]) => Constant(Var))
    <3> HIDE DEF one
    <3> QED BY <2>8 DEF MixedAt, Mixes
  <2> HIDE DEF one
  <2>12. GoUse(one, n) \in MixedAt(k, one, {n}, D, Var)
    BY <2>1, <2>4, <2>10, <2>11, UseMixes
  <2>13. next \in MixedAt(k, g, (N \cup {n}) \cup {n}, D, Var)
    BY <2>5, <2>9, <2>12, MixedTwice
  <2> QED BY <2>6, <2>13 DEF next, n
<1>5. BindingLoop!Loop(0, g, list) \in S[Len(list)]
  <2> HIDE DEF S
  <2> QED BY <1>3, <1>4, BindingLoop!LoopMoves
<1>6. S[Len(list)] = MixedAt(k, g, Listed(list), D, Var)
  BY <1>1, <1>2
<1>7. GoBindings(g, list) = BindingLoop!Loop(0, g, list)
  BY DEF GoBindings, BindingLoop!Loop, Each, BindingLoop!Each, BindingTurn
<1> QED BY <1>5, <1>6, <1>7

\* The innermost block declares the names of N: to the checker they are ec, to Go e.
LEMMA DeclaresMark ==
    ASSUME ScopesInv, Clean, Marks, blocks # <<>>, blocks' = blocks, NEW N, NEW ec \in Entries, NEW e,
           ~ ec.used, Constant(e) => ~ ec.mutable,
           infer'.scopes = Declare(infer.scopes, N, ec), Mixes(GoDepth, go.scopes, go'.scopes, N, e)
    PROVE  Marks'
<1> DEFINE p == Last(blocks).inferred + Inferred(Last(blocks).kind)
           l == Last(blocks).generated
           q == l + Generated(Last(blocks).kind)
           f == Last(blocks).kind = "func"
           s == infer.scopes
           t == go.scopes
           c == infer'.scopes
           g == go'.scopes
<1>1. /\ p = InferDepth /\ q = GoDepth /\ l \in Nat /\ q \in Nat /\ l < q /\ p \in Nat /\ p > 0
      /\ Len(s) = p /\ Last(blocks) = blocks[Len(blocks)] /\ Len(blocks) \in 1..Len(blocks)
  <2>1. Last(blocks) = blocks[Len(blocks)] /\ Len(blocks) \in 1..Len(blocks)
    BY TopBlock
  <2>2. p = InferDepth /\ q = GoDepth
    BY TopBlock
  <2>3. l \in Nat /\ l < q
    BY <2>1, BlockTops
  <2>4. InferDepth \in Nat \ {0} /\ GoDepth \in Nat /\ Len(s) = InferDepth
    BY Stacks
  <2> QED BY <2>1, <2>2, <2>3, <2>4
<1>2. Marked(Last(blocks), s, t)
  BY <1>1 DEF Marks, NamesMarked
<1>3. /\ \A i \in (l + 1)..q : \A n \in DOMAIN t[i] : Constant(t[i][n]) => i = q /\ n \in DOMAIN s[p] /\ ~ s[p][n].mutable
      /\ f => \A n \in DOMAIN t[q] : Pending(t[q][n]) => n \in DOMAIN s[p] /\ ~ s[p][n].used
  BY <1>2 DEF Marked
<1>4. c = [i \in 1..Len(s) |->
            IF i = Len(s) THEN [m \in DOMAIN s[i] \cup N |-> IF m \in N THEN ec ELSE s[i][m]] ELSE s[i]]
  BY DEF Declare
<1>5. /\ Ages(t, g, q - 1) /\ DOMAIN g[q] = DOMAIN t[q] \cup N
      /\ \A n \in DOMAIN t[q] : Later(t[q][n], g[q][n])
      /\ \A n \in N : Constant(g[q][n]) => Constant(e)
  BY <1>1 DEF Mixes
<1> HIDE DEF p, l, q, f, s, t, c, g
<1>6. c[p] = [m \in DOMAIN s[p] \cup N |-> IF m \in N THEN ec ELSE s[p][m]] /\ \A i \in 1..(p - 1) : c[i] = s[i]
  BY <1>1, <1>4
<1>7. ASSUME NEW i \in (l + 1)..q, NEW n \in DOMAIN g[i], Constant(g[i][n])
      PROVE  i = q /\ n \in DOMAIN c[p] /\ ~ c[p][n].mutable
  <2>1. CASE i # q
    <3>1. i \in 1..(q - 1)
      BY <1>1, <2>1
    <3>2. DOMAIN g[i] = DOMAIN t[i] /\ \A m \in DOMAIN t[i] : Later(t[i][m], g[i][m])
      BY <1>5, <3>1 DEF Ages
    <3>3. n \in DOMAIN t[i] /\ Constant(t[i][n])
      BY <1>7, <3>2 DEF Later, Constant
    <3> QED BY <1>3, <2>1, <3>3
  <2>2. CASE i = q /\ n \in N
    BY <1>5, <1>6, <1>7, <2>2
  <2>3. CASE i = q /\ n \notin N
    <3>1. n \in DOMAIN t[q] /\ Constant(t[q][n])
      BY <1>5, <1>7, <2>3 DEF Later, Constant
    <3>2. n \in DOMAIN s[p] /\ ~ s[p][n].mutable
      BY <1>3, <2>3, <3>1
    <3> QED BY <1>6, <2>3, <3>2
  <2> QED BY <2>1, <2>2, <2>3
<1>8. ASSUME f, NEW n \in DOMAIN g[q], Pending(g[q][n]) PROVE n \in DOMAIN c[p] /\ ~ c[p][n].used
  <2>1. CASE n \in N
    BY <1>6, <2>1
  <2>2. CASE n \notin N
    <3>1. n \in DOMAIN t[q] /\ Pending(t[q][n])
      BY <1>5, <1>8, <2>2 DEF Later, Pending
    <3>2. n \in DOMAIN s[p] /\ ~ s[p][n].used
      BY <1>3, <1>8, <3>1
    <3> QED BY <1>6, <2>2, <3>2
  <2> QED BY <2>1, <2>2
<1>9. Marked(Last(blocks), c, g)
  BY <1>7, <1>8 DEF Marked, p, l, q, f
<1>10. \A i \in 1..(InferDepth - 1) : infer'.scopes[i] = infer.scopes[i]
  BY <1>1, <1>6 DEF c, s
<1>11. Ages(go.scopes, go'.scopes, GoDepth - 1)
  BY <1>1, <1>5 DEF t, g
<1> QED BY <1>9, <1>10, <1>11, DeclareMarks DEF c, g

\* A statement that declares names keeps the marks.
LEMMA StmtMarks ==
    ASSUME ScopesInv, Clean, Marks, blocks # <<>>, NEW declared, NEW errs, NEW used, NEW inf, NEW g,
           Stmt(declared, errs, used, inf, g), NEW N, NEW D, NEW ec \in Entries, NEW e,
           ~ ec.used, Constant(e) => ~ ec.mutable,
           inf.errors = <<>> => inf.scopes = Declare(infer.scopes, N, ec), g \in MixedAt(GoDepth, go, N, D, e)
    PROVE  Marks'
<1>1. infer' = inf /\ go' = g /\ blocks' = blocks
  BY DEF Stmt
<1>2. CASE ~ Clean'
  BY <1>2 DEF Marks
<1>3. CASE Clean'
  <2>1. infer'.errors = <<>> /\ go'.refused = {}
    BY <1>3 DEF Clean
  <2>2. infer'.scopes = Declare(infer.scopes, N, ec)
    BY <1>1, <2>1
  <2>3. Mixes(GoDepth, go.scopes, go'.scopes, N, e)
    BY <1>1, <2>1 DEF MixedAt
  <2> QED BY <1>1, <2>2, <2>3, DeclaresMark
<1> QED BY <1>2, <1>3

\* What is in a Var, a Parameter and a constant.
LEMMA MadeEntries ==
    /\ ~ Constant(Var) /\ ~ Constant(Parameter) /\ ~ Pending(Parameter)
    /\ Entry(TRUE) \in Entries /\ Entry(FALSE) \in Entries
    /\ ~ Entry(TRUE).used /\ ~ Entry(FALSE).used /\ ~ Entry(FALSE).mutable
    /\ Var \in GoEntries /\ Parameter \in GoEntries /\ GoEntry("const") \in GoEntries
    /\ [Var EXCEPT !.fixed = TRUE] \in GoEntries
BY DEF Constant, Pending, Var, Parameter, GoEntry, GoEntries, Entry, Entries

\* A statement that only uses names.
UsesAt(list, inf, g, W) ==
    /\ Stmt(<<>>, {}, list, inf, g)
    /\ inf \in LookedAt(InferDepth, infer, Listed(list), W)
    /\ g \in TouchedAt(GoDepth, go, Listed(list))

\* The four statements that declare nothing.
LEMMA UseForm ==
    ASSUME ScopesInv, Use \/ Assign \/ Reassign \/ IncDec
    PROVE  \E list \in Seq(Idents) : \E inf, g, W : UsesAt(list, inf, g, W)
<1>1. blocks # <<>>
  BY DEF Use, Assign, Reassign, IncDec, InFunction
<1>2. infer \in Checkers(InferDepth) /\ go \in Compilers(GoDepth)
  BY <1>1, Readers
<1>3. InferDepth \in Nat \ {0} /\ GoDepth \in Nat \ {0}
  BY <1>1, Depths
<1>4. Targets \subseteq Seq(Idents) /\ Target \subseteq Idents
  BY ListTypes DEF Target, Names
<1>5. ASSUME NEW n \in Target
      PROVE  <<n>> \in Seq(Idents) /\ n \in Idents /\ Listed(<<n>>) = {n} \ {"_"}
  BY <1>4, OneName
<1>6. CASE Use
  <2>1. PICK n \in Target : Stmt(<<>>, {}, <<n>>, InferIdent(infer, n), GoUse(go, n))
    BY <1>6 DEF Use
  <2>2. <<n>> \in Seq(Idents) /\ n \in Idents /\ Listed(<<n>>) = {n} \ {"_"}
    BY <1>5
  <2>3. InferIdent(infer, n) \in LookedAt(InferDepth, infer, {n} \ {"_"}, {})
    BY <1>2, <1>3, <2>2, CheckerWrites
  <2>4. GoUse(go, n) \in TouchedAt(GoDepth, go, {n} \ {"_"})
    BY <1>2, <1>3, <2>2, GoMarks
  <2> QED BY <2>1, <2>2, <2>3, <2>4 DEF UsesAt
<1>7. CASE Assign
  <2>1. PICK n \in Target : Stmt(<<>>, {}, <<n>>, CheckVarMutable(InferIdent(infer, n), n), GoAssign(go, n))
    BY <1>7 DEF Assign
  <2>2. <<n>> \in Seq(Idents) /\ n \in Idents /\ Listed(<<n>>) = {n} \ {"_"}
    BY <1>5
  <2>3. CheckVarMutable(InferIdent(infer, n), n) \in LookedAt(InferDepth, infer, {n} \ {"_"}, {n})
    BY <1>2, <1>3, <2>2, CheckerWrites
  <2>4. GoAssign(go, n) \in TouchedAt(GoDepth, go, {n} \ {"_"})
    BY <1>2, <1>3, <2>2, GoMarks
  <2> QED BY <2>1, <2>2, <2>3, <2>4 DEF UsesAt
<1>8. CASE IncDec
  <2>1. PICK n \in Target : Stmt(<<>>, {}, <<n>>, Step(infer, n), GoStep(go, n))
    BY <1>8 DEF IncDec
  <2>2. <<n>> \in Seq(Idents) /\ n \in Idents /\ Listed(<<n>>) = {n} \ {"_"}
    BY <1>5
  <2>3. Step(infer, n) \in LookedAt(InferDepth, infer, {n} \ {"_"}, {n})
    BY <1>2, <1>3, <2>2, CheckerWrites
  <2>4. GoStep(go, n) \in TouchedAt(GoDepth, go, {n} \ {"_"})
    BY <1>2, <1>3, <2>2, GoWrites
  <2> QED BY <2>1, <2>2, <2>3, <2>4 DEF UsesAt
<1>9. CASE Reassign
  <2>1. PICK list \in Targets : Stmt(<<>>, {}, list, Each(InferIdent, infer, list), Each(GoAssign, go, list))
    BY <1>9 DEF Reassign
  <2>2. list \in Seq(Idents)
    BY <1>4
  <2>3. Each(InferIdent, infer, list) \in LookedAt(InferDepth, infer, Listed(list), {})
    BY <1>2, <1>3, <2>2, CheckerWritesAll
  <2>4. Each(GoAssign, go, list) \in TouchedAt(GoDepth, go, Listed(list))
    BY <1>2, <1>3, <2>2, GoWritesAll
  <2> QED BY <2>1, <2>2, <2>3, <2>4 DEF UsesAt
<1> QED BY <1>6, <1>7, <1>8, <1>9

\* The statements keep the marks.
LEMMA StatementsMark ==
    ASSUME ScopesInv, Marks,
           Use \/ Decl \/ VarDecl \/ MultiDecl \/ ConstDecl \/ Assign \/ Reassign \/ IncDec \/ TryDecl
    PROVE  Marks'
<1>1. blocks # <<>> /\ Clean
  BY DEF Use, Decl, VarDecl, MultiDecl, ConstDecl, Assign, Reassign, IncDec, TryDecl, InFunction, Reading, Clean
<1>2. infer \in Checkers(InferDepth) /\ go \in Compilers(GoDepth) /\ infer.errors = <<>>
  BY <1>1, Readers DEF Clean
<1>3. InferDepth \in Nat \ {0} /\ GoDepth \in Nat \ {0}
  BY <1>1, Depths
<1>4. Lists \subseteq Seq(Idents) /\ Named \subseteq Seq(Idents)
  BY ListTypes
<1>5. CASE Use \/ Assign \/ Reassign \/ IncDec
  <2>1. PICK list \in Seq(Idents) : \E inf, g, W : UsesAt(list, inf, g, W)
    BY <1>5, UseForm
  <2>2. PICK inf, g, W : UsesAt(list, inf, g, W)
    BY <2>1
  <2> QED BY <1>1, <2>2, UseMarks DEF UsesAt
<1>6. CASE Decl
  <2>1. PICK n \in Idents, variant \in BOOLEAN :
            Stmt(<<n>>, ErrNames, <<>>, InsertVar(infer, n),
                 IF variant THEN GoDeclare(go, n, Var) ELSE GoShort(go, <<n>>, Var))
    BY <1>6 DEF Decl
  <2> DEFINE inf == InsertVar(infer, n)
             g == IF variant THEN GoDeclare(go, n, Var) ELSE GoShort(go, <<n>>, Var)
  <2>2. inf.errors = <<>> => inf.scopes = Declare(infer.scopes, Listed(<<n>>), Entry(TRUE))
    BY <1>2, <1>3, InsertDeclares DEF AsDeclared
  <2>3. g \in MixedAt(GoDepth, go, Listed(<<n>>), Idents, Var)
    <3>1. <<n>> \in Seq(Idents) /\ InList(<<n>>) = {n} /\ Listed(<<n>>) = {n} \ {"_"} /\ Repeated(<<n>>) = {}
      BY OneName
    <3>2. GoDeclare(go, n, Var) \in MixedAt(GoDepth, go, {n} \ {"_"}, Idents, Var)
      BY <1>2, <1>3, MadeEntries, DeclareMixes
    <3>3. GoShort(go, <<n>>, Var) \in MixedAt(GoDepth, go, Listed(<<n>>), Idents, Var)
      <4>1. IF InList(<<n>>) \subseteq DOMAIN go.scopes[GoDepth] \cup {"_"}
            THEN InList(<<n>>) \subseteq Idents ELSE Repeated(<<n>>) \subseteq Idents
        BY <3>1
      <4> QED BY <1>2, <1>3, <3>1, <4>1, MadeEntries, ShortMixes
    <3> QED BY <3>1, <3>2, <3>3
  <2> HIDE DEF inf, g
  <2>4. Stmt(<<n>>, ErrNames, <<>>, inf, g)
    BY <2>1 DEF inf, g
  <2> QED BY <1>1, <2>2, <2>3, <2>4, MadeEntries, StmtMarks
<1>7. CASE VarDecl
  <2>1. PICK list \in Named : Stmt(list, ErrNames, <<>>, Each(InsertVar, infer, list), GoDeclareAll(go, list, Var))
    BY <1>7 DEF VarDecl
  <2>2. list \in Seq(Idents)
    BY <1>4
  <2> DEFINE inf == Each(InsertVar, infer, list)
             g == GoDeclareAll(go, list, Var)
             D == Repeated(list) \cup (DOMAIN go.scopes[GoDepth] \cap Listed(list))
  <2>3. inf.errors = <<>> => inf.scopes = Declare(infer.scopes, Listed(list), Entry(TRUE))
    BY <1>2, <1>3, <2>2, InsertsDeclare DEF AsDeclared
  <2>4. g \in MixedAt(GoDepth, go, Listed(list), D, Var)
    BY <1>2, <1>3, <2>2, MadeEntries, ListMixes
  <2> HIDE DEF inf, g, D
  <2>5. Stmt(list, ErrNames, <<>>, inf, g)
    BY <2>1 DEF inf, g
  <2> QED BY <1>1, <2>3, <2>4, <2>5, MadeEntries, StmtMarks
<1>8. CASE MultiDecl
  <2>1. PICK list \in Lists : Stmt(list, ErrNames, <<>>, InsertShortDeclVars(infer, list), GoShort(go, list, Var))
    BY <1>8 DEF MultiDecl
  <2>2. list \in Seq(Idents) /\ InList(list) \subseteq Idents /\ Repeated(list) \subseteq Idents
    BY <1>4, ListNames
  <2> DEFINE inf == InsertShortDeclVars(infer, list)
             g == GoShort(go, list, Var)
  <2>3. inf.errors = <<>> => inf.scopes = Declare(infer.scopes, Listed(list), Entry(TRUE))
    BY <1>2, <1>3, <2>2, ShortDeclares
  <2>4. g \in MixedAt(GoDepth, go, Listed(list), Idents, Var)
    <3>1. IF InList(list) \subseteq DOMAIN go.scopes[GoDepth] \cup {"_"}
          THEN InList(list) \subseteq Idents ELSE Repeated(list) \subseteq Idents
      BY <2>2
    <3> QED BY <1>2, <1>3, <2>2, <3>1, MadeEntries, ShortMixes
  <2> HIDE DEF inf, g
  <2>5. Stmt(list, ErrNames, <<>>, inf, g)
    BY <2>1 DEF inf, g
  <2> QED BY <1>1, <2>3, <2>4, <2>5, MadeEntries, StmtMarks
<1>9. CASE ConstDecl
  <2>1. PICK list \in Named, literal \in BOOLEAN :
            Stmt(list, ErrNames, <<>>, Each(InsertConst, infer, list),
                 IF literal THEN GoDeclareAll(go, list, GoEntry("const"))
                 ELSE GoShort(go, list, [Var EXCEPT !.fixed = TRUE]))
    BY <1>9 DEF ConstDecl
  <2>2. list \in Seq(Idents) /\ InList(list) \subseteq Idents /\ Repeated(list) \subseteq Idents
    BY <1>4, ListNames
  <2> DEFINE inf == Each(InsertConst, infer, list)
             e == IF literal THEN GoEntry("const") ELSE [Var EXCEPT !.fixed = TRUE]
             g == IF literal THEN GoDeclareAll(go, list, GoEntry("const"))
                  ELSE GoShort(go, list, [Var EXCEPT !.fixed = TRUE])
             D == IF literal THEN Repeated(list) \cup (DOMAIN go.scopes[GoDepth] \cap Listed(list)) ELSE Idents
  <2>3. inf.errors = <<>> => inf.scopes = Declare(infer.scopes, Listed(list), Entry(FALSE))
    BY <1>2, <1>3, <2>2, InsertsDeclare DEF AsDeclared
  <2>4. g \in MixedAt(GoDepth, go, Listed(list), D, e)
    <3>1. CASE literal
      <4>1. GoDeclareAll(go, list, GoEntry("const")) \in
                MixedAt(GoDepth, go, Listed(list),
                        Repeated(list) \cup (DOMAIN go.scopes[GoDepth] \cap Listed(list)), GoEntry("const"))
        BY <1>2, <1>3, <2>2, MadeEntries, ListMixes
      <4> QED BY <3>1, <4>1
    <3>2. CASE ~ literal
      <4>1. IF InList(list) \subseteq DOMAIN go.scopes[GoDepth] \cup {"_"}
            THEN InList(list) \subseteq Idents ELSE Repeated(list) \subseteq Idents
        BY <2>2
      <4> DEFINE fixed == [Var EXCEPT !.fixed = TRUE]
      <4>2. fixed \in GoEntries
        BY MadeEntries
      <4> HIDE DEF fixed
      <4>3. GoShort(go, list, fixed) \in MixedAt(GoDepth, go, Listed(list), Idents, fixed)
        BY <1>2, <1>3, <2>2, <4>1, <4>2, ShortMixes
      <4> QED BY <3>2, <4>3 DEF fixed
    <3> QED BY <3>1, <3>2
  <2> HIDE DEF inf, g, D, e
  <2>5. Stmt(list, ErrNames, <<>>, inf, g)
    BY <2>1 DEF inf, g
  <2> QED BY <1>1, <2>3, <2>4, <2>5, MadeEntries, StmtMarks
<1>10. CASE TryDecl
  <2>1. PICK list \in Lists : Stmt(list, ErrNames, <<>>, Each(InsertVar, infer, list), GoMix(go, list, Var))
    BY <1>10 DEF TryDecl
  <2>2. list \in Seq(Idents)
    BY <1>4
  <2> DEFINE inf == Each(InsertVar, infer, list)
             g == GoMix(go, list, Var)
  <2>3. inf.errors = <<>> => inf.scopes = Declare(infer.scopes, Listed(list), Entry(TRUE))
    BY <1>2, <1>3, <2>2, InsertsDeclare DEF AsDeclared
  <2>4. g \in MixedAt(GoDepth, go, Listed(list), Repeated(list), Var)
    BY <1>2, <1>3, <2>2, MadeEntries, ListMixes
  <2> HIDE DEF inf, g
  <2>5. Stmt(list, ErrNames, <<>>, inf, g)
    BY <2>1 DEF inf, g
  <2> QED BY <1>1, <2>3, <2>4, <2>5, MadeEntries, StmtMarks
<1> QED BY <1>5, <1>6, <1>7, <1>8, <1>9, <1>10

\* A scope opens and names are declared in it, none of them a constant in Go.
LEMMA OpenedMixes ==
    ASSUME NEW k \in Nat, NEW j \in Nat, j = k + 1, NEW g \in Compilers(k), NEW N, NEW D, NEW e,
           NEW h \in MixedAt(j, GoOpen(g), N, D, e), h.refused = {}
    PROVE  /\ h \in Compilers(j) /\ Ages(g.scopes, h.scopes, k) /\ DOMAIN h.scopes[j] = N
           /\ \A n \in N : (Constant(h.scopes[j][n]) => Constant(e)) /\ (Pending(h.scopes[j][n]) => Pending(e))
<1>1. g.scopes \in Seq(ScopesOf(GoEntries)) /\ Len(g.scopes) = k /\ GoOpen(g).scopes = Append(g.scopes, <<>>)
  BY DEF Compilers, GoOpen
<1>2. DOMAIN GoOpen(g).scopes[j] = {} /\ \A i \in 1..k : GoOpen(g).scopes[i] = g.scopes[i]
  BY <1>1, ScopeOpens
<1>3. h \in Compilers(j) /\ Mixes(j, GoOpen(g).scopes, h.scopes, N, e) /\ j - 1 = k
  BY DEF MixedAt
<1>4. /\ Ages(GoOpen(g).scopes, h.scopes, k) /\ DOMAIN h.scopes[j] = DOMAIN GoOpen(g).scopes[j] \cup N
      /\ \A n \in N : (Constant(h.scopes[j][n]) => Constant(e)) /\ (Pending(h.scopes[j][n]) => Pending(e))
  BY <1>3 DEF Mixes
<1>5. Ages(g.scopes, h.scopes, k)
  BY <1>2, <1>4 DEF Ages
<1> QED BY <1>2, <1>3, <1>4, <1>5

\* A block that opens without a constant is marked, and those around it stay so.
LEMMA HeaderMarks ==
    ASSUME ScopesInv, Clean, Marks, blocks # <<>>, NEW kind \in Kinds \ {"func"}, NEW unlisted,
           blocks' = Append(blocks, Opened(kind, unlisted)),
           \A i \in 1..InferDepth : infer'.scopes[i] = infer.scopes[i],
           Ages(go.scopes, go'.scopes, GoDepth),
           \A i \in (GoDepth + 1)..(GoDepth + Generated(kind)) : \A n \in DOMAIN go'.scopes[i] :
                ~ Constant(go'.scopes[i][n])
    PROVE  Marks'
<1> DEFINE block == Opened(kind, unlisted)
<1>1. block.kind = kind /\ block.generated = GoDepth
  BY Stacks DEF Opened
<1> HIDE DEF block
<1>2. kind # "func"
  OBVIOUS
<1>3. Marked(block, infer'.scopes, go'.scopes)
  BY <1>1, <1>2 DEF Marked
<1> QED BY <1>3, EnterMarks DEF block

\* The same when the block is entered with a header.
LEMMA HeaderEntered ==
    ASSUME ScopesInv, Clean, Marks, blocks # <<>>, NEW kind \in Kinds \ {"func", "block"}, NEW unlisted,
           NEW inf, NEW errs, NEW header, NEW g,
           Enter(kind, unlisted, inf, lint, errs, header, g),
           NEW M \in SUBSET Idents, inf \in Checkers(InferDepth + 1),
           inf.errors = <<>> => inf.scopes = Declare(Append(infer.scopes, <<>>), M, Entry(TRUE)),
           NEW N, NEW D, NEW e, ~ Constant(e), NEW h \in MixedAt(GoDepth + 1, GoOpen(go), N, D, e),
           IF Generated(kind) = 1 THEN g = h ELSE g = GoOpen(h)
    PROVE  Marks'
<1>1. SUFFICES ASSUME Clean' PROVE Marks'
  BY DEF Marks
<1>2. infer' = PushScope(inf) /\ go' = g /\ blocks' = Append(blocks, Opened(kind, unlisted))
  BY DEF Enter
<1>3. infer'.errors = inf.errors /\ infer'.scopes = Append(inf.scopes, <<>>) /\ Len(inf.scopes) = InferDepth + 1
      /\ inf.scopes \in Seq(ScopesOf(Entries))
  BY <1>2 DEF PushScope, Checkers
<1>4. inf.errors = <<>> /\ go'.refused = {}
  BY <1>1, <1>3 DEF Clean
<1>5. infer.scopes \in Seq(ScopesOf(Entries)) /\ Len(infer.scopes) = InferDepth /\ InferDepth \in Nat /\ GoDepth \in Nat
  BY Stacks
<1> DEFINE k == InferDepth
           j == GoDepth
<1>6. \A i \in 1..k : infer'.scopes[i] = infer.scopes[i]
  <2> DEFINE s == Append(infer.scopes, <<>>)
             d == Declare(s, M, Entry(TRUE))
  <2>1. Len(s) = k + 1 /\ (\A i \in 1..k : s[i] = infer.scopes[i]) /\ s \in Seq(ScopesOf(Entries))
    <3>1. k + 1 \in Nat
      BY <1>5
    <3>2. Len(s) = k + 1 /\ (\A i \in 1..k : s[i] = infer.scopes[i])
      BY <1>5, <3>1, ScopeOpens
    <3>3. <<>> \in ScopesOf(Entries)
      BY NewScope
    <3> QED BY <1>5, <3>2, <3>3
  <2>2. inf.scopes = d
    BY <1>4
  <2> HIDE DEF s, k
  <2>3. \A i \in 1..k : d[i] = s[i]
    <3>1. k \in Nat
      BY <1>5 DEF k
    <3> QED BY <2>1, <3>1 DEF Declare
  <2> HIDE DEF d
  <2>4. \A i \in 1..k : infer'.scopes[i] = inf.scopes[i]
    <3>1. k \in Nat /\ Len(inf.scopes) = k + 1
      BY <1>3, <1>5 DEF k
    <3> QED BY <1>3, <3>1
  <2> QED BY <2>1, <2>2, <2>3, <2>4
<1>7. go \in Compilers(j) /\ j \in Nat /\ j + 1 \in Nat /\ Generated(kind) \in 1..2
  BY <1>5, Readers DEF Generated
<1>8. h.refused = {}
  <2>1. GoOpen(h).refused = h.refused
    <3>1. h \in Compilers(j + 1)
      BY DEF MixedAt
    <3> QED BY <3>1 DEF GoOpen, Compilers
  <2> QED BY <1>2, <1>4, <2>1
<1> HIDE DEF k, j
<1>9. /\ h \in Compilers(j + 1) /\ Ages(go.scopes, h.scopes, j) /\ DOMAIN h.scopes[j + 1] = N
      /\ \A n \in N : (Constant(h.scopes[j + 1][n]) => Constant(e)) /\ (Pending(h.scopes[j + 1][n]) => Pending(e))
  <2>1. h \in MixedAt(j + 1, GoOpen(go), N, D, e)
    BY DEF j
  <2> QED BY <1>7, <1>8, <2>1, OpenedMixes
<1>10. ASSUME NEW i \in (j + 1)..(j + 1), NEW n \in DOMAIN h.scopes[i] PROVE ~ Constant(h.scopes[i][n])
  <2>1. i = j + 1
    BY <1>7
  <2> QED BY <1>9, <2>1
<1>11. CASE Generated(kind) = 1
  <2>1. g = h
    BY <1>11
  <2>2. /\ Ages(go.scopes, go'.scopes, j)
        /\ \A i \in (j + 1)..(j + 1) : \A n \in DOMAIN go'.scopes[i] : ~ Constant(go'.scopes[i][n])
    BY <1>2, <1>9, <1>10, <2>1
  <2> QED BY <1>2, <1>6, <1>11, <2>2, HeaderMarks DEF k, j
<1>12. CASE Generated(kind) = 2
  <2>1. g = GoOpen(h)
    BY <1>12
  <2>2. g.scopes = Append(h.scopes, <<>>) /\ h.scopes \in Seq(ScopesOf(GoEntries)) /\ Len(h.scopes) = j + 1
    BY <1>9, <2>1 DEF GoOpen, Compilers
  <2>3. DOMAIN g.scopes[j + 2] = {} /\ \A i \in 1..(j + 1) : g.scopes[i] = h.scopes[i]
    <3>1. j + 1 \in Nat /\ j + 2 \in Nat /\ j + 2 = (j + 1) + 1
      BY <1>7
    <3> QED BY <2>2, <3>1, ScopeOpens
  <2>4. Ages(go.scopes, go'.scopes, j)
    <3>1. \A i \in 1..j : i \in 1..(j + 1)
      BY <1>7
    <3> QED BY <1>2, <1>9, <2>3, <3>1 DEF Ages
  <2>5. ASSUME NEW i \in (j + 1)..(j + 2), NEW n \in DOMAIN go'.scopes[i] PROVE ~ Constant(go'.scopes[i][n])
    <3>1. i = j + 1 \/ i = j + 2
      BY <1>7
    <3>2. CASE i = j + 2
      BY <1>2, <2>3, <2>5, <3>2
    <3>3. CASE i = j + 1
      <4>1. go'.scopes[i] = h.scopes[i] /\ i \in (j + 1)..(j + 1)
        BY <1>2, <1>7, <2>3, <3>3
      <4> QED BY <1>10, <2>5, <4>1
    <3> QED BY <3>1, <3>2, <3>3
  <2> QED BY <1>2, <1>6, <1>12, <2>4, <2>5, HeaderMarks DEF k, j
<1> QED BY <1>7, <1>11, <1>12

\* What the checker declares in a scope it has just opened.
Heads(k, inf, M) ==
    {st \in Checkers(k) : st.errors = <<>> => st.scopes = Declare(Append(inf.scopes, <<>>), M, Entry(TRUE))}

\* What a header declares, to the checker.
LEMMA PushedDeclares ==
    ASSUME ScopesInv, Clean, NEW list \in Seq(Idents), NEW k, k = InferDepth + 1
    PROVE  /\ Each(InsertVar, PushScope(infer), list) \in Heads(k, infer, Listed(list))
           /\ InsertUntilError(PushScope(infer), list) \in Heads(k, infer, Listed(list))
           /\ InsertShortDeclVars(PushScope(infer), list) \in Heads(k, infer, Listed(list))
           /\ Len(list) = 1 => InsertVar(PushScope(infer), list[1]) \in Heads(k, infer, Listed(list))
<1> DEFINE inf == PushScope(infer)
<1>1. infer \in Checkers(InferDepth) /\ infer.errors = <<>> /\ InferDepth \in Nat \ {0} /\ k \in Nat \ {0}
  <2>1. infer \in Checkers(InferDepth) /\ infer.errors = <<>>
    BY Readers DEF Clean
  <2>2. InferDepth \in Nat \ {0}
    BY Depths
  <2> QED BY <2>1, <2>2
<1>2. inf.scopes = Append(infer.scopes, <<>>) /\ inf.errors = <<>>
  BY <1>1 DEF PushScope, Checkers
<1>3. inf \in Checkers(k)
  <2>1. InferDepth \in Nat
    BY <1>1
  <2> QED BY <1>1, <2>1, CheckerMoves
<1> HIDE DEF inf
<1>4. /\ Each(InsertVar, inf, list) \in Checkers(k) /\ InsertUntilError(inf, list) \in Checkers(k)
      /\ InsertShortDeclVars(inf, list) \in Checkers(k)
  BY <1>1, <1>3, ListsKeep
<1>5. /\ AsDeclared(k, inf, list, Entry(TRUE), Each(InsertVar, inf, list))
      /\ AsDeclared(k, inf, list, Entry(FALSE), Each(InsertConst, inf, list))
      /\ AsDeclared(k, inf, list, Entry(TRUE), InsertUntilError(inf, list))
  BY <1>1, <1>2, <1>3, InsertsDeclare
<1>6. Each(InsertVar, inf, list) \in Heads(k, infer, Listed(list))
  BY <1>2, <1>4, <1>5 DEF AsDeclared, Heads
<1>7. InsertUntilError(inf, list) \in Heads(k, infer, Listed(list))
  BY <1>2, <1>4, <1>5 DEF AsDeclared, Heads
<1>8. InsertShortDeclVars(inf, list) \in Heads(k, infer, Listed(list))
  <2>1. InsertShortDeclVars(inf, list).errors = <<>> =>
            InsertShortDeclVars(inf, list).scopes = Declare(inf.scopes, Listed(list), Entry(TRUE))
    BY <1>1, <1>3, ShortDeclares
  <2> QED BY <1>2, <1>4, <2>1 DEF Heads
<1>9. ASSUME Len(list) = 1 PROVE InsertVar(inf, list[1]) \in Heads(k, infer, Listed(list))
  <2>1. list = <<list[1]>> /\ list[1] \in Idents
    BY <1>9
  <2>2. InsertVar(inf, list[1]) \in Checkers(k)
    BY <1>1, <1>3, <2>1, NamesKeep
  <2>3. AsDeclared(k, inf, <<list[1]>>, Entry(TRUE), InsertVar(inf, list[1]))
    BY <1>1, <1>3, <2>1, InsertDeclares
  <2>4. AsDeclared(k, inf, list, Entry(TRUE), InsertVar(inf, list[1]))
    BY <2>1, <2>3
  <2> QED BY <1>2, <2>2, <2>4 DEF AsDeclared, Heads
<1> QED BY <1>6, <1>7, <1>8, <1>9 DEF inf

\* The same of Go.
LEMMA OpenedDeclares ==
    ASSUME ScopesInv, NEW list \in Seq(Idents), NEW k, k = GoDepth + 1
    PROVE  /\ \A e \in GoEntries :
                GoDeclareAll(GoOpen(go), list, e) \in MixedAt(k, GoOpen(go), Listed(list), Repeated(list), e)
           /\ GoShort(GoOpen(go), list, Var) \in MixedAt(k, GoOpen(go), Listed(list), Repeated(list) \cup {"_"}, Var)
           /\ "_" \notin InList(list) =>
                GoBindings(GoOpen(go), list) \in MixedAt(k, GoOpen(go), Listed(list), Repeated(list), Var)
           /\ GoOpen(go) \in MixedAt(k, GoOpen(go), {}, {}, Var)
<1> DEFINE g == GoOpen(go)
<1>1. GoDepth \in Nat /\ k \in Nat \ {0} /\ go \in Compilers(GoDepth)
  <2>1. GoDepth \in Nat /\ go \in Compilers(GoDepth)
    BY Depths, Readers
  <2> QED BY <2>1
<1>2. g \in Compilers(k)
  BY <1>1, GoMoves
<1>3. DOMAIN g.scopes[k] = {}
  <2>1. go.scopes \in Seq(ScopesOf(GoEntries)) /\ Len(go.scopes) = GoDepth /\ g.scopes = Append(go.scopes, <<>>)
    BY <1>1 DEF Compilers, GoOpen
  <2>2. k \in Nat
    BY <1>1
  <2> HIDE DEF g
  <2>3. Len(Append(go.scopes, <<>>)) = k /\ DOMAIN Append(go.scopes, <<>>)[k] = {}
    BY <1>1, <2>1, <2>2, ScopeOpens
  <2> QED BY <2>1, <2>3
<1> HIDE DEF g
<1>4. ASSUME NEW e \in GoEntries PROVE GoDeclareAll(g, list, e) \in MixedAt(k, g, Listed(list), Repeated(list), e)
  <2>1. GoDeclareAll(g, list, e) \in
            MixedAt(k, g, Listed(list), Repeated(list) \cup (DOMAIN g.scopes[k] \cap Listed(list)), e)
    BY <1>1, <1>2, ListMixes
  <2>2. Repeated(list) \cup (DOMAIN g.scopes[k] \cap Listed(list)) = Repeated(list)
    BY <1>3
  <2> QED BY <2>1, <2>2
<1>5. GoShort(g, list, Var) \in MixedAt(k, g, Listed(list), Repeated(list) \cup {"_"}, Var)
  <2> DEFINE D == Repeated(list) \cup {"_"}
  <2>1. IF InList(list) \subseteq DOMAIN g.scopes[k] \cup {"_"} THEN InList(list) \subseteq D ELSE Repeated(list) \subseteq D
    BY <1>3
  <2> HIDE DEF D
  <2>2. GoShort(g, list, Var) \in MixedAt(k, g, Listed(list), D, Var)
    BY <1>1, <1>2, <2>1, MadeEntries, ShortMixes
  <2> QED BY <2>2 DEF D
<1>6. "_" \notin InList(list) => GoBindings(g, list) \in MixedAt(k, g, Listed(list), Repeated(list), Var)
  BY <1>1, <1>2, <1>3, BindingsMix
<1>7. g \in MixedAt(k, g, {}, {}, Var)
  BY <1>1, <1>2, MixedSelf
<1> QED BY <1>4, <1>5, <1>6, <1>7 DEF g

\* A block with a header keeps the marks.
LEMMA HeadMarks ==
    ASSUME ScopesInv, Clean, Marks, blocks # <<>>, NEW kind \in Kinds \ {"func", "block"}, NEW unlisted,
           NEW inf, NEW errs, NEW header, NEW g,
           Enter(kind, unlisted, inf, lint, errs, header, g),
           NEW M \in SUBSET Idents, inf \in Heads(InferDepth + 1, infer, M),
           NEW N, NEW D, NEW e, ~ Constant(e), NEW h \in MixedAt(GoDepth + 1, GoOpen(go), N, D, e),
           IF Generated(kind) = 1 THEN g = h ELSE g = GoOpen(h)
    PROVE  Marks'
<1>1. inf \in Checkers(InferDepth + 1)
  BY DEF Heads
<1>2. inf.errors = <<>> => inf.scopes = Declare(Append(infer.scopes, <<>>), M, Entry(TRUE))
  BY DEF Heads
<1> QED BY <1>1, <1>2, HeaderEntered

\* The names of a list but "_" are names.
LEMMA ListedNames ==
    ASSUME NEW list \in Seq(Idents)
    PROVE  Listed(list) \in SUBSET Idents
BY ListNames DEF Listed

\* The blocks with headers keep the marks.
LEMMA BeginsMark ==
    ASSUME ScopesInv, Marks, BeginIf \/ BeginRange \/ BeginArm \/ BeginCase \/ BeginHandler \/ BeginClosure
    PROVE  Marks'
<1>1. blocks # <<>> /\ Clean
  BY DEF BeginIf, BeginRange, BeginArm, BeginCase, BeginHandler, BeginClosure, InFunction, Reading, Clean
<1>2. Lists \subseteq Seq(Idents) /\ Named \subseteq Seq(Idents) /\ Maybe \subseteq Seq(Idents)
  BY ListTypes
<1> DEFINE i == InferDepth + 1
           k == GoDepth + 1
<1>3. i = InferDepth + 1 /\ k = GoDepth + 1
  OBVIOUS
<1> HIDE DEF i, k
<1>4. CASE BeginIf
  <2>1. PICK kind \in {"if", "for"}, list \in Lists :
            Enter(kind, {}, IF Len(list) = 1 THEN InsertVar(PushScope(infer), list[1])
                                             ELSE InsertShortDeclVars(PushScope(infer), list),
                  lint, ErrNames, list, GoOpen(GoShort(GoOpen(go), list, Var)))
    BY <1>4 DEF BeginIf
  <2>2. list \in Seq(Idents) /\ Listed(list) \in SUBSET Idents
    BY <1>2, ListedNames
  <2> DEFINE inf == IF Len(list) = 1 THEN InsertVar(PushScope(infer), list[1])
                                     ELSE InsertShortDeclVars(PushScope(infer), list)
             h == GoShort(GoOpen(go), list, Var)
             D == Repeated(list) \cup {"_"}
  <2>3. inf \in Heads(i, infer, Listed(list))
    <3>1. /\ InsertShortDeclVars(PushScope(infer), list) \in Heads(i, infer, Listed(list))
          /\ Len(list) = 1 => InsertVar(PushScope(infer), list[1]) \in Heads(i, infer, Listed(list))
      BY <1>1, <1>3, <2>2, PushedDeclares
    <3> QED BY <3>1
  <2>4. h \in MixedAt(k, GoOpen(go), Listed(list), D, Var)
    BY <1>3, <2>2, OpenedDeclares
  <2>5. Generated(kind) # 1 /\ kind \in Kinds \ {"func", "block"}
    BY DEF Generated, Kinds
  <2>6. Enter(kind, {}, inf, lint, ErrNames, list, GoOpen(h))
    BY <2>1
  <2> HIDE DEF inf, h, D
  <2> QED BY <1>1, <1>3, <2>2, <2>3, <2>4, <2>5, <2>6, MadeEntries, HeadMarks
<1>5. CASE BeginRange
  <2>1. PICK list \in Lists :
            Enter("range", {}, Each(InsertVar, PushScope(infer), list), lint, ErrNames, list,
                  GoOpen(GoShort(GoOpen(go), list, Var)))
    BY <1>5 DEF BeginRange
  <2>2. list \in Seq(Idents) /\ Listed(list) \in SUBSET Idents
    BY <1>2, ListedNames
  <2> DEFINE inf == Each(InsertVar, PushScope(infer), list)
             h == GoShort(GoOpen(go), list, Var)
             D == Repeated(list) \cup {"_"}
  <2>3. inf \in Heads(i, infer, Listed(list))
    BY <1>1, <1>3, <2>2, PushedDeclares
  <2>4. h \in MixedAt(k, GoOpen(go), Listed(list), D, Var)
    BY <1>3, <2>2, OpenedDeclares
  <2>5. Generated("range") # 1 /\ "range" \in Kinds \ {"func", "block"}
    BY DEF Generated, Kinds
  <2>6. Enter("range", {}, inf, lint, ErrNames, list, GoOpen(h))
    BY <2>1
  <2> HIDE DEF inf, h, D
  <2> QED BY <1>1, <1>3, <2>2, <2>3, <2>4, <2>5, <2>6, MadeEntries, HeadMarks
<1>6. CASE BeginArm
  <2>1. PICK list \in Named, several \in BOOLEAN, struct \in BOOLEAN :
            Enter("arm", {}, IF several THEN Each(InsertVar, PushScope(infer), list)
                                        ELSE InsertUntilError(PushScope(infer), list),
                  lint, ErrNames, list, IF several /\ ~ struct THEN GoOpen(go) ELSE GoBindings(GoOpen(go), list))
    BY <1>6 DEF BeginArm
  <2>2. list \in Seq(Idents) /\ Listed(list) \in SUBSET Idents /\ "_" \notin InList(list)
    BY <1>2, ListedNames DEF Named
  <2> DEFINE inf == IF several THEN Each(InsertVar, PushScope(infer), list)
                               ELSE InsertUntilError(PushScope(infer), list)
             h == IF several /\ ~ struct THEN GoOpen(go) ELSE GoBindings(GoOpen(go), list)
             N == IF several /\ ~ struct THEN {} ELSE Listed(list)
             D == IF several /\ ~ struct THEN {} ELSE Repeated(list)
  <2>3. inf \in Heads(i, infer, Listed(list))
    <3>1. /\ Each(InsertVar, PushScope(infer), list) \in Heads(i, infer, Listed(list))
          /\ InsertUntilError(PushScope(infer), list) \in Heads(i, infer, Listed(list))
      BY <1>1, <1>3, <2>2, PushedDeclares
    <3> QED BY <3>1
  <2>4. h \in MixedAt(k, GoOpen(go), N, D, Var)
    <3>1. /\ GoBindings(GoOpen(go), list) \in MixedAt(k, GoOpen(go), Listed(list), Repeated(list), Var)
          /\ GoOpen(go) \in MixedAt(k, GoOpen(go), {}, {}, Var)
      BY <1>3, <2>2, OpenedDeclares
    <3> QED BY <3>1
  <2>5. Generated("arm") = 1 /\ "arm" \in Kinds \ {"func", "block"}
    BY DEF Generated, Kinds
  <2>6. Enter("arm", {}, inf, lint, ErrNames, list, h)
    BY <2>1
  <2> HIDE DEF inf, h, N, D
  <2> QED BY <1>1, <1>3, <2>2, <2>3, <2>4, <2>5, <2>6, MadeEntries, HeadMarks
<1>7. CASE BeginCase
  <2>1. PICK list \in Lists :
            Enter("case", {}, Each(InsertVar, PushScope(infer), list), lint,
                  IF Len(list) = 1 THEN ErrNames ELSE ErrNames \ {list[2]}, list, GoShort(GoOpen(go), list, Var))
    BY <1>7 DEF BeginCase
  <2>2. list \in Seq(Idents) /\ Listed(list) \in SUBSET Idents
    BY <1>2, ListedNames
  <2> DEFINE inf == Each(InsertVar, PushScope(infer), list)
             h == GoShort(GoOpen(go), list, Var)
             D == Repeated(list) \cup {"_"}
             errs == IF Len(list) = 1 THEN ErrNames ELSE ErrNames \ {list[2]}
  <2>3. inf \in Heads(i, infer, Listed(list))
    BY <1>1, <1>3, <2>2, PushedDeclares
  <2>4. h \in MixedAt(k, GoOpen(go), Listed(list), D, Var)
    BY <1>3, <2>2, OpenedDeclares
  <2>5. Generated("case") = 1 /\ "case" \in Kinds \ {"func", "block"}
    BY DEF Generated, Kinds
  <2>6. Enter("case", {}, inf, lint, errs, list, h)
    BY <2>1
  <2> HIDE DEF inf, h, D, errs
  <2> QED BY <1>1, <1>3, <2>2, <2>3, <2>4, <2>5, <2>6, MadeEntries, HeadMarks
<1>8. CASE BeginHandler
  <2>1. PICK list \in {<<>>} \cup {<<n>> : n \in Names} :
            Enter("handler", {}, Each(InsertVar, PushScope(infer), list), lint, Names, list,
                  GoDeclareAll(GoOpen(go), list, Var))
    BY <1>8 DEF BeginHandler
  <2>2. list \in Seq(Idents) /\ Listed(list) \in SUBSET Idents
    <3>1. list \in Seq(Idents)
      <4>1. CASE list = <<>>
        BY <4>1
      <4>2. ASSUME NEW n \in Names, list = <<n>>
            PROVE  list \in Seq(Idents)
        BY <4>2, OneName DEF Names
      <4> QED BY <2>1, <4>1, <4>2
    <3> QED BY <3>1, ListedNames
  <2> DEFINE inf == Each(InsertVar, PushScope(infer), list)
             h == GoDeclareAll(GoOpen(go), list, Var)
             D == Repeated(list)
  <2>3. inf \in Heads(i, infer, Listed(list))
    BY <1>1, <1>3, <2>2, PushedDeclares
  <2>4. h \in MixedAt(k, GoOpen(go), Listed(list), D, Var)
    BY <1>3, <2>2, MadeEntries, OpenedDeclares
  <2>5. Generated("handler") = 1 /\ "handler" \in Kinds \ {"func", "block"}
    BY DEF Generated, Kinds
  <2>6. Enter("handler", {}, inf, lint, Names, list, h)
    BY <2>1
  <2> HIDE DEF inf, h, D
  <2> QED BY <1>1, <1>3, <2>2, <2>3, <2>4, <2>5, <2>6, MadeEntries, HeadMarks
<1>9. CASE BeginClosure
  <2>1. PICK params \in Maybe, results \in Maybe :
            Enter("closure", InList(results), Each(InsertVar, PushScope(infer), params), lint, ErrNames, params,
                  GoDeclareAll(GoOpen(go), params \o results, Parameter))
    BY <1>9 DEF BeginClosure
  <2>2. params \in Seq(Idents) /\ Listed(params) \in SUBSET Idents /\ params \o results \in Seq(Idents)
    <3>1. params \in Seq(Idents) /\ results \in Seq(Idents)
      BY <1>2
    <3> QED BY <3>1, ListedNames
  <2> DEFINE inf == Each(InsertVar, PushScope(infer), params)
             all == params \o results
             h == GoDeclareAll(GoOpen(go), all, Parameter)
             D == Repeated(all)
  <2>3. inf \in Heads(i, infer, Listed(params))
    BY <1>1, <1>3, <2>2, PushedDeclares
  <2>4. h \in MixedAt(k, GoOpen(go), Listed(all), D, Parameter)
    <3>1. all \in Seq(Idents)
      BY <2>2
    <3> HIDE DEF all
    <3> QED BY <1>3, <3>1, MadeEntries, OpenedDeclares
  <2>5. Generated("closure") = 1 /\ "closure" \in Kinds \ {"func", "block"}
    BY DEF Generated, Kinds
  <2>6. Enter("closure", InList(results), inf, lint, ErrNames, params, h)
    BY <2>1
  <2> HIDE DEF inf, h, D, all
  <2> QED BY <1>1, <1>3, <2>2, <2>3, <2>4, <2>5, <2>6, MadeEntries, HeadMarks
<1> QED BY <1>4, <1>5, <1>6, <1>7, <1>8, <1>9

\* A function's names are parameters for Go: none is a constant, none unused.
LEMMA FuncMarks ==
    ASSUME ScopesInv, BeginFunc
    PROVE  Marks'
<1>1. PICK receiver \in Maybe : \E params, results \in Maybe :
          /\ go' = GoDeclareAll(GoOpen(go), receiver \o params \o results, Parameter)
          /\ blocks' = <<Opened("func", InList(receiver \o results))>>
  BY DEF BeginFunc
<1>2. PICK params \in Maybe, results \in Maybe :
          /\ go' = GoDeclareAll(GoOpen(go), receiver \o params \o results, Parameter)
          /\ blocks' = <<Opened("func", InList(receiver \o results))>>
  BY <1>1
<1> DEFINE block == Opened("func", InList(receiver \o results))
           names == receiver \o params
           list == names \o results
           D == Repeated(list)
<1>3. blocks = <<>>
  BY DEF BeginFunc
<1>4. GoDepth = 0 /\ go \in Compilers(0) /\ names \in Seq(Idents) /\ results \in Seq(Idents)
  BY <1>3, HeaderKeeps, ListTypes DEF GoDepth
<1>5. list \in Seq(Idents)
  <2> HIDE DEF names
  <2> QED BY <1>4
<1>6. block.kind = "func" /\ block.generated = 0 /\ blocks' = <<block>>
  BY <1>2, <1>4 DEF Opened, Compilers
<1>7. SUFFICES ASSUME Clean' PROVE NamesMarked'
  BY DEF Marks
<1>8. go' = GoDeclareAll(GoOpen(go), list, Parameter) /\ go'.refused = {}
  BY <1>2, <1>7 DEF Clean
<1> HIDE DEF block, names, list, D
<1>9. go' \in MixedAt(1, GoOpen(go), Listed(list), D, Parameter)
  <2>1. 1 = GoDepth + 1
    BY <1>4
  <2> QED BY <1>5, <1>8, <2>1, MadeEntries, OpenedDeclares DEF D
<1>10. /\ DOMAIN go'.scopes[1] = Listed(list)
       /\ \A n \in Listed(list) : ~ Constant(go'.scopes[1][n]) /\ ~ Pending(go'.scopes[1][n])
  <2>1. /\ DOMAIN go'.scopes[1] = Listed(list)
        /\ \A n \in Listed(list) : (Constant(go'.scopes[1][n]) => Constant(Parameter))
                                   /\ (Pending(go'.scopes[1][n]) => Pending(Parameter))
    <3>1. 0 \in Nat /\ 1 \in Nat /\ 1 = 0 + 1
      OBVIOUS
    <3> QED BY <1>4, <1>8, <1>9, <3>1, OpenedMixes
  <2> QED BY <2>1, MadeEntries
<1>11. Marked(block, infer'.scopes, go'.scopes)
  <2>1. Generated("func") = 1 /\ 0 + 1 = 1
    BY DEF Generated
  <2>2. \A i \in (0 + 1)..1 : i = 1
    OBVIOUS
  <2> QED BY <1>6, <1>10, <2>1, <2>2 DEF Marked
<1> QED BY <1>6, <1>11 DEF NamesMarked

\* Where a function is left early no block is open.
LEMMA EarlyMarks ==
    ASSUME LeaveEarly
    PROVE  Marks'
<1>1. blocks' = <<>>
  BY DEF LeaveEarly
<1> QED BY <1>1 DEF Marks, NamesMarked

\* A block without a header opens.
LEMMA BlockMarks ==
    ASSUME ScopesInv, Marks, BeginBlock
    PROVE  Marks'
<1> DEFINE p == InferDepth
           q == GoDepth
           l == q + 1
           block == Opened("block", {})
<1>1. /\ Clean /\ infer' = PushScope(infer) /\ go' = GoOpen(go) /\ blocks' = Append(blocks, block) /\ blocks # <<>>
  BY DEF BeginBlock, InFunction, Reading, Clean
<1>2. p \in Nat /\ q \in Nat /\ l \in Nat /\ Len(infer.scopes) = p /\ Len(go.scopes) = q
  BY Stacks
<1>3. infer.scopes \in Seq(ScopesOf(Entries)) /\ go.scopes \in Seq(ScopesOf(GoEntries))
  BY DEF ScopesInv, Checkers, Compilers
<1>4. infer'.scopes = Append(infer.scopes, <<>>) /\ go'.scopes = Append(go.scopes, <<>>)
  BY <1>1 DEF PushScope, GoOpen, ScopesInv, Checkers, Compilers
<1>5. Generated("block") = 1 /\ "block" \in Kinds \ {"func"}
  BY DEF Generated, Kinds
<1> HIDE DEF p, q, block
<1>6. \A i \in 1..p : infer'.scopes[i] = infer.scopes[i]
  <2>1. p + 1 \in Nat
    BY <1>2
  <2> QED BY <1>2, <1>3, <1>4, <2>1, ScopeOpens
<1>7. DOMAIN go'.scopes[l] = {} /\ \A i \in 1..q : go'.scopes[i] = go.scopes[i]
  BY <1>2, <1>3, <1>4, ScopeOpens
<1>8. Ages(go.scopes, go'.scopes, q)
  BY <1>7, SameAges
<1>9. \A i \in (q + 1)..(q + 1) : i = l
  BY <1>2
<1>10. \A i \in (q + 1)..(q + Generated("block")) : \A n \in DOMAIN go'.scopes[i] : ~ Constant(go'.scopes[i][n])
  <2> HIDE DEF l
  <2> QED BY <1>5, <1>7, <1>9
<1> QED BY <1>1, <1>5, <1>6, <1>8, <1>10, HeaderMarks DEF p, q, block

\* An else is marked as its if was.
LEMMA ElseMarks ==
    ASSUME ScopesInv, Marks, Else
    PROVE  Marks'
<1> DEFINE last == Len(blocks)
           p == blocks[last].inferred
           q == blocks[last].generated
           new == [blocks[last] EXCEPT !.kind = "else"]
<1>1. /\ blocks # <<>> /\ Last(blocks).kind = "if" /\ Clean
      /\ infer' = PushScope(PopScope(infer)) /\ go' = GoOpen(GoClose(go))
      /\ blocks' = [blocks EXCEPT ![last] = new]
  BY DEF Else, Inside, InFunction, Reading, Clean
<1>2. NamesMarked
  BY <1>1 DEF Marks
<1>3. blocks \in Seq(BlockTypes) /\ last \in Nat /\ last \in 1..last /\ Last(blocks) = blocks[last]
  BY <1>1, TopBlock DEF ScopesInv, BlocksNest
<1>4. /\ p \in Nat /\ q \in Nat /\ Len(infer.scopes) = p + 2 /\ Len(go.scopes) = q + 2
  <2>1. /\ Len(infer.scopes) = InferDepth /\ Len(go.scopes) = GoDepth
    BY Stacks
  <2>2. /\ InferDepth = p + Inferred(blocks[last].kind) /\ GoDepth = q + Generated(blocks[last].kind)
    BY <1>1, TopBlock
  <2>3. Inferred("if") = 2 /\ Generated("if") = 2
    BY DEF Inferred, Generated
  <2>4. p \in Nat /\ q \in Nat
    BY <1>3, BlockStarts
  <2> QED BY <1>1, <1>3, <2>1, <2>2, <2>3, <2>4
<1>5. new.kind = "else" /\ new.inferred = p /\ new.generated = q
  BY <1>3 DEF BlockTypes
<1>6. Len(blocks') = last /\ blocks'[last] = new /\ \A b \in 1..last : b # last => blocks'[b] = blocks[b]
  BY <1>1, <1>3
<1>7. infer.scopes \in Seq(ScopesOf(Entries)) /\ go.scopes \in Seq(ScopesOf(GoEntries))
  BY DEF ScopesInv, Checkers, Compilers
<1>8. infer'.scopes = Append(But(infer.scopes, 1), <<>>) /\ go'.scopes = Append(But(go.scopes, 1), <<>>)
  BY <1>1 DEF PushScope, PopScope, GoOpen, GoClose, Refuse, ScopesInv, Checkers, Compilers
<1> DEFINE d == p + 2
           j == p + 1
           e == q + 2
           l == q + 1
<1>9. /\ d \in Nat /\ j \in Nat /\ e \in Nat /\ l \in Nat /\ d = j + 1 /\ e = l + 1
      /\ Len(infer.scopes) = d /\ Len(go.scopes) = e
      /\ (\A i \in 1..p : i \in 1..j) /\ (\A i \in 1..q : i \in 1..l)
      /\ (\A i \in (q + 1)..e : i = l \/ i = e) /\ l \in (q + 1)..e /\ l # e /\ l \in 1..l
  <2> HIDE DEF p, q
  <2>1. d \in Nat /\ j \in Nat /\ e \in Nat /\ l \in Nat /\ d = j + 1 /\ e = l + 1
    BY <1>4
  <2>2. Len(infer.scopes) = d /\ Len(go.scopes) = e
    BY <1>4
  <2>3. (\A i \in 1..p : i \in 1..j) /\ (\A i \in 1..q : i \in 1..l)
    BY <1>4
  <2>4. (\A i \in (q + 1)..e : i = l \/ i = e) /\ l \in (q + 1)..e /\ l # e /\ l \in 1..l
    BY <1>4
  <2> QED BY <2>1, <2>2, <2>3, <2>4
<1>10. blocks[last].inferred = p /\ blocks[last].generated = q /\ blocks[last].kind = "if"
       /\ e = q + 2 /\ d = p + 2
  BY <1>1, <1>3
<1> HIDE DEF d, j, e, l, new, p, q
<1>11. \A i \in 1..j : infer'.scopes[i] = infer.scopes[i]
  <2> DEFINE s == infer.scopes
  <2>1. s \in Seq(ScopesOf(Entries)) /\ Len(s) = d
    BY <1>7, <1>9
  <2> HIDE DEF s
  <2>2. \A i \in 1..j : Append(But(s, 1), <<>>)[i] = s[i]
    BY <1>9, <2>1, ScopeRenewed
  <2> QED BY <1>8, <2>2 DEF s
<1>12. DOMAIN go'.scopes[e] = {} /\ \A i \in 1..l : go'.scopes[i] = go.scopes[i]
  <2> DEFINE t == go.scopes
  <2>1. t \in Seq(ScopesOf(GoEntries)) /\ Len(t) = e
    BY <1>7, <1>9
  <2> HIDE DEF t
  <2>2. DOMAIN Append(But(t, 1), <<>>)[e] = {} /\ \A i \in 1..l : Append(But(t, 1), <<>>)[i] = t[i]
    BY <1>9, <2>1, ScopeRenewed
  <2> QED BY <1>8, <2>2 DEF t
<1>13. Marked(new, infer'.scopes, go'.scopes)
  <2>1. Marked(blocks[last], infer.scopes, go.scopes)
    BY <1>2, <1>3 DEF NamesMarked
  <2>2. Generated("if") = 2 /\ Generated("else") = 2
    BY DEF Generated
  <2>3. \A i \in (q + 1)..e : \A n \in DOMAIN go.scopes[i] : Constant(go.scopes[i][n]) => i = e
    BY <1>10, <2>1, <2>2 DEF Marked
  <2>4. ASSUME NEW i \in (q + 1)..e, NEW n \in DOMAIN go'.scopes[i] PROVE ~ Constant(go'.scopes[i][n])
    <3>1. i = l
      BY <1>9, <1>12, <2>4
    <3>2. go'.scopes[i] = go.scopes[i]
      BY <1>9, <1>12, <3>1
    <3> QED BY <1>9, <2>3, <2>4, <3>1, <3>2
  <2>5. new.kind # "func" /\ new.generated + Generated(new.kind) = e
    BY <1>5, <1>10, <2>2
  <2> QED BY <1>5, <2>4, <2>5 DEF Marked
<1>14. ASSUME NEW b \in 1..last, b # last PROVE Marked(blocks[b], infer'.scopes, go'.scopes)
  <2>1. b \in 1..(Len(blocks) - 1)
    BY <1>3, <1>14
  <2>2. \A i \in 1..Last(blocks).inferred : infer'.scopes[i] = infer.scopes[i]
    BY <1>3, <1>9, <1>10, <1>11
  <2>3. \A i \in 1..Last(blocks).generated : go'.scopes[i] = go.scopes[i]
    BY <1>3, <1>9, <1>10, <1>12
  <2>4. Ages(go.scopes, go'.scopes, Last(blocks).generated)
    BY <2>3, SameAges
  <2> QED BY <1>1, <1>2, <2>1, <2>2, <2>4, OuterStill
<1>15. NamesMarked'
  BY <1>6, <1>13, <1>14 DEF NamesMarked
<1> QED BY <1>15 DEF Marks

\* What is above a block's scopes does not matter to it.
LEMMA MarkedBelow ==
    ASSUME ScopesInv, NEW b \in 1..Len(blocks), NEW s, NEW t, NEW c, NEW g, Marked(blocks[b], s, t),
           \A i \in 1..(blocks[b].inferred + Inferred(blocks[b].kind)) : c[i] = s[i],
           \A i \in 1..(blocks[b].generated + Generated(blocks[b].kind)) : g[i] = t[i]
    PROVE  Marked(blocks[b], c, g)
<1> DEFINE p == blocks[b].inferred + Inferred(blocks[b].kind)
           l == blocks[b].generated
           q == l + Generated(blocks[b].kind)
           f == blocks[b].kind = "func"
<1>1. p \in Nat /\ l \in Nat /\ q \in Nat /\ p > 0 /\ l < q
  BY BlockTops
<1>2. (\A i \in 1..p : c[i] = s[i]) /\ (\A i \in 1..q : g[i] = t[i])
  OBVIOUS
<1>3. /\ \A i \in (l + 1)..q : \A n \in DOMAIN t[i] : Constant(t[i][n]) =>
            i = q /\ n \in DOMAIN s[p] /\ ~ s[p][n].mutable
      /\ f => \A n \in DOMAIN t[q] : Pending(t[q][n]) => n \in DOMAIN s[p] /\ ~ s[p][n].used
  BY DEF Marked
<1> HIDE DEF p, l, q, f
<1>4. c[p] = s[p]
  BY <1>1, <1>2
<1>5. \A i \in (l + 1)..q : g[i] = t[i]
  <2>1. \A i \in (l + 1)..q : i \in 1..q
    BY <1>1
  <2> QED BY <1>2, <2>1
<1>6. q \in (l + 1)..q
  BY <1>1
<1>7. \A i \in (l + 1)..q : \A n \in DOMAIN g[i] : Constant(g[i][n]) => i = q /\ n \in DOMAIN c[p] /\ ~ c[p][n].mutable
  BY <1>3, <1>4, <1>5
<1>8. f => \A n \in DOMAIN g[q] : Pending(g[q][n]) => n \in DOMAIN c[p] /\ ~ c[p][n].used
  BY <1>3, <1>4, <1>5, <1>6
<1> QED BY <1>7, <1>8 DEF Marked, p, l, q, f

\* The first k scopes are the same; the names of N that both know are of the same block.
SameBelow(s, c, k) == \A i \in 1..k : c[i] = s[i]
Meet(s, t, N) ==
    \A n \in N : Home(s, n) # 0 /\ Home(t, n) # 0 => BlockInferred(Home(s, n)) = BlockGenerated(Home(t, n))

\* The blocks around a loop whose post statement has been read.
LEMMA PostMarks ==
    ASSUME ScopesInv, blocks # <<>>, NamesMarked, NEW s, NEW t, NEW c, NEW g, NEW r, NEW w,
           NEW N, NEW b \in 1..(Len(blocks) - 1),
           NEW n1, NEW m1, n1 = Last(blocks).inferred + 1, m1 = Last(blocks).generated + 1,
           n1 <= InferDepth, m1 <= GoDepth,
           Len(s) = n1, Len(t) = m1,
           SameBelow(infer.scopes, s, n1), SameBelow(go.scopes, t, m1),
           Looks(s, c, N), Touches(t, g, N), Meet(s, t, N),
           SameBelow(c, r, Last(blocks).inferred), SameBelow(g, w, Last(blocks).generated)
    PROVE  Marked(blocks[b], r, w)
<1> DEFINE p == blocks[b].inferred + Inferred(blocks[b].kind)
           q == blocks[b].generated + Generated(blocks[b].kind)
           n == Last(blocks).inferred
           m == Last(blocks).generated
<1>1. b \in 1..Len(blocks) /\ Len(blocks) \in 1..Len(blocks) /\ b # Len(blocks) /\ b < Len(blocks)
      /\ Last(blocks) = blocks[Len(blocks)]
  <2>1. Len(blocks) \in Nat /\ Len(blocks) \in 1..Len(blocks) /\ Last(blocks) = blocks[Len(blocks)]
    BY TopBlock, Depths
  <2> QED BY <2>1
<1>2. p <= n /\ q <= m
  BY <1>1, BlockOrder
<1>3. p \in Nat /\ q \in Nat /\ n \in Nat /\ m \in Nat
  BY <1>1, BlockTops
<1>4. n1 = n + 1 /\ m1 = m + 1
  OBVIOUS
<1>5. (\A i \in 1..n : r[i] = c[i]) /\ (\A i \in 1..m : w[i] = g[i])
  BY DEF SameBelow
<1>6. InferDepth \in Nat /\ GoDepth \in Nat
  BY Depths
<1>7. Marked(blocks[b], s, t)
  <2>1. \A i \in 1..n : s[i] = infer.scopes[i]
    <3> HIDE DEF n
    <3> QED BY <1>3, <1>4 DEF SameBelow
  <2>2. \A i \in 1..m : t[i] = go.scopes[i]
    <3> HIDE DEF m
    <3> QED BY <1>3, <1>4 DEF SameBelow
  <2>3. Ages(go.scopes, t, m)
    BY <2>2, SameAges
  <2> QED BY <2>1, <2>3, OuterStill
<1>8. Marked(blocks[b], c, g)
  <2>1. p <= Len(s) /\ q <= Len(t) /\ Len(s) \in 0..InferDepth /\ Len(t) \in 0..GoDepth
    <3> HIDE DEF p, q, n, m
    <3> QED BY <1>2, <1>3, <1>4, <1>6
  <2> QED BY <1>1, <1>7, <2>1, MarkedUse DEF Meet
<1>9. (\A i \in 1..p : r[i] = c[i]) /\ (\A i \in 1..q : w[i] = g[i])
  <2> HIDE DEF p, q, n, m
  <2>1. (\A i \in 1..p : i \in 1..n) /\ (\A i \in 1..q : i \in 1..m)
    BY <1>2, <1>3
  <2> QED BY <1>5, <2>1
<1> QED BY <1>1, <1>8, <1>9, MarkedBelow

\* What the end of a loop makes of the scopes around its body: they are read by the post
\* statement, then the header's is closed.
EndsLoop(post, n1, m1, inf, g) ==
    /\ n1 = Last(blocks).inferred + 1 /\ m1 = Last(blocks).generated + 1
    /\ n1 <= InferDepth /\ m1 <= GoDepth
    /\ PopScope(infer) \in Checkers(n1) /\ GoClose(go) \in Compilers(m1)
    /\ SameBelow(infer.scopes, PopScope(infer).scopes, n1)
    /\ SameBelow(go.scopes, GoClose(go).scopes, m1)
    /\ inf \in LookedAt(n1, PopScope(infer), Listed(post), InList(post))
    /\ g \in TouchedAt(m1, GoClose(go), Listed(post))
    /\ infer' = PopScope(inf) /\ go' = GoClose(g)
    /\ infer'.errors = inf.errors
    /\ SameBelow(inf.scopes, infer'.scopes, Last(blocks).inferred)
    /\ SameBelow(g.scopes, go'.scopes, Last(blocks).generated)
    /\ misread' = Misread(post, PopScope(infer).scopes, GoClose(go).scopes)

\* A loop ends in the way that is described.
LEMMA PostForm ==
    ASSUME ScopesInv, EndFor
    PROVE  \E post \in Seq(Idents), n1 \in Nat \ {0}, m1 \in Nat \ {0} :
             \E inf, g : EndsLoop(post, n1, m1, inf, g)
<1>1. PICK post \in {<<>>} \cup {<<x>> : x \in Target} :
          /\ Leave({"for"}, PopScope(Each(Step, PopScope(infer), post)), 2,
                   GoClose(Each(GoStep, GoClose(go), post)))
          /\ misread' = Misread(post, PopScope(infer).scopes, GoClose(go).scopes)
  BY DEF EndFor
<1>2. post \in Seq(Idents)
  <2>1. post = <<>> \/ \E x \in Target : post = <<x>>
    OBVIOUS
  <2>2. \A x \in Target : <<x>> \in Seq(Idents)
    <3>1. Target \subseteq Idents
      BY DEF Target, Names
    <3> QED BY <3>1
  <2>3. <<>> \in Seq(Idents)
    OBVIOUS
  <2> QED BY <2>1, <2>2, <2>3
<1> DEFINE n == Last(blocks).inferred
           m == Last(blocks).generated
           n1 == n + 1
           n2 == n + 2
           m1 == m + 1
           m2 == m + 2
           inf == Each(Step, PopScope(infer), post)
           g == Each(GoStep, GoClose(go), post)
<1>3. blocks # <<>> /\ Last(blocks).kind = "for" /\ infer' = PopScope(inf) /\ go' = GoClose(g)
  BY <1>1 DEF Leave, Inside, InFunction
<1>4. Inferred("for") = 2 /\ Generated("for") = 2
  BY DEF Inferred, Generated
<1>5. n \in Nat /\ m \in Nat /\ infer \in Checkers(n2) /\ go \in Compilers(m2) /\ InferDepth = n2 /\ GoDepth = m2
  BY <1>3, <1>4, Depths, Readers
<1>6. n1 \in Nat /\ n2 \in Nat /\ m1 \in Nat /\ m2 \in Nat /\ n1 = n + 1 /\ n2 = n1 + 1 /\ m1 = m + 1 /\ m2 = m1 + 1
      /\ n1 <= n2 /\ m1 <= m2 /\ n1 \in Nat \ {0} /\ m1 \in Nat \ {0}
  BY <1>5
<1> HIDE DEF n, m, n1, n2, m1, m2
<1>7. PopScope(infer) \in Checkers(n1) /\ SameBelow(infer.scopes, PopScope(infer).scopes, n1)
  BY <1>5, <1>6, ScopesStay DEF SameBelow
<1>8. GoClose(go) \in Compilers(m1) /\ SameBelow(go.scopes, GoClose(go).scopes, m1)
  BY <1>5, <1>6, ScopesStay DEF SameBelow
<1>9. inf \in LookedAt(n1, PopScope(infer), Listed(post), InList(post))
  BY <1>2, <1>6, <1>7, CheckerWritesAll
<1>10. g \in TouchedAt(m1, GoClose(go), Listed(post))
  BY <1>2, <1>6, <1>8, GoWritesAll
<1>11. inf \in Checkers(n1) /\ g \in Compilers(m1)
  BY <1>9, <1>10 DEF LookedAt, TouchedAt
<1>12. infer'.errors = inf.errors /\ SameBelow(inf.scopes, infer'.scopes, n)
  <2> HIDE DEF inf
  <2> QED BY <1>3, <1>5, <1>6, <1>11, ScopesStay DEF SameBelow
<1>13. SameBelow(g.scopes, go'.scopes, m)
  <2> HIDE DEF g
  <2> QED BY <1>3, <1>5, <1>6, <1>11, ScopesStay DEF SameBelow
<1> HIDE DEF inf, g
<1>14. EndsLoop(post, n1, m1, inf, g)
  BY <1>1, <1>3, <1>5, <1>6, <1>7, <1>8, <1>9, <1>10, <1>12, <1>13 DEF EndsLoop, n, m
<1> QED BY <1>2, <1>6, <1>14

\* A loop ends.
LEMMA ForMarks ==
    ASSUME ScopesInv, Marks, EndFor
    PROVE  Marks'
<1>1. blocks # <<>> /\ blocks' = But(blocks, 1) /\ Clean
  BY DEF EndFor, Leave, Inside, InFunction, Reading, Clean
<1>2. NamesMarked
  BY <1>1 DEF Marks
<1>6. PICK post \in Seq(Idents), n1 \in Nat \ {0}, m1 \in Nat \ {0} :
          \E inf, g : EndsLoop(post, n1, m1, inf, g)
  BY PostForm
<1>3. PICK inf, g : EndsLoop(post, n1, m1, inf, g)
  BY <1>6
<1> DEFINE s == PopScope(infer).scopes
           t == GoClose(go).scopes
<1>4. CASE ~ Clean'
  BY <1>4 DEF Marks
<1>5. CASE Clean'
  <2>1. /\ n1 = Last(blocks).inferred + 1 /\ m1 = Last(blocks).generated + 1
        /\ n1 <= InferDepth /\ m1 <= GoDepth
        /\ Looks(s, inf.scopes, Listed(post)) /\ Touches(t, g.scopes, Listed(post))
    BY <1>3 DEF EndsLoop, LookedAt, TouchedAt
  <2>2. Len(s) = n1 /\ Len(t) = m1
    BY <1>3 DEF EndsLoop, Checkers, Compilers
  <2>3. /\ SameBelow(infer.scopes, s, n1) /\ SameBelow(go.scopes, t, m1)
        /\ SameBelow(inf.scopes, infer'.scopes, Last(blocks).inferred)
        /\ SameBelow(g.scopes, go'.scopes, Last(blocks).generated)
    BY <1>3 DEF EndsLoop
  <2>4. Misread(post, s, t) = {}
    BY <1>3, <1>5 DEF EndsLoop, Clean
  <2> HIDE DEF s, t
  <2>5. Meet(s, t, Listed(post))
    BY <2>4 DEF Misread, Listed, Meet
  <2>6. ASSUME NEW b \in 1..(Len(blocks) - 1) PROVE Marked(blocks[b], infer'.scopes, go'.scopes)
    BY <1>1, <1>2, <2>1, <2>2, <2>3, <2>5, PostMarks
  <2> QED BY <1>1, <2>6, LeaveMarks
<1> QED BY <1>4, <1>5

\* A block ends: those around it are marked as before.
LEMMA EndsMark ==
    ASSUME ScopesInv, Marks, EndFunc \/ EndBlock \/ EndIf \/ EndHandler \/ EndArm
    PROVE  Marks'
<1> DEFINE n == Last(blocks).inferred
           m == Last(blocks).generated
           kind == Last(blocks).kind
           n1 == n + 1
           n2 == n + 2
           m1 == m + 1
           m2 == m + 2
<1>1. blocks # <<>> /\ blocks' = But(blocks, 1) /\ Clean
  BY DEF EndFunc, EndBlock, EndIf, EndHandler, EndArm, Leave, Inside, InFunction, Reading, Clean
<1>2. n \in Nat /\ m \in Nat /\ infer \in Checkers(n + Inferred(kind)) /\ go \in Compilers(m + Generated(kind))
  BY <1>1, Depths, Readers
<1>3. ASSUME SameBelow(infer.scopes, infer'.scopes, n), SameBelow(go.scopes, go'.scopes, m)
      PROVE  Marks'
  <2>1. NamesMarked
    BY <1>1 DEF Marks
  <2>2. Ages(go.scopes, go'.scopes, m)
    BY <1>3, SameAges DEF SameBelow
  <2>3. \A i \in 1..n : infer'.scopes[i] = infer.scopes[i]
    BY <1>3 DEF SameBelow
  <2>4. ASSUME NEW b \in 1..(Len(blocks) - 1) PROVE Marked(blocks[b], infer'.scopes, go'.scopes)
    BY <1>1, <2>1, <2>2, <2>3, OuterStill
  <2> QED BY <1>1, <2>4, LeaveMarks
<1>4. n1 \in Nat /\ n2 \in Nat /\ m1 \in Nat /\ m2 \in Nat /\ n1 = n + 1 /\ n2 = n1 + 1 /\ m1 = m + 1 /\ m2 = m1 + 1
  BY <1>2
<1>5. /\ Inferred(kind) = 2 => infer \in Checkers(n2)
      /\ Inferred(kind) = 1 => infer \in Checkers(n1)
      /\ Generated(kind) = 1 => go \in Compilers(m1)
      /\ Generated(kind) = 2 => go \in Compilers(m2)
  BY <1>2
<1>6. (\A i \in 1..n : i \in 1..n1) /\ (\A i \in 1..m : i \in 1..m1)
  BY <1>2
<1> HIDE DEF n, m, n1, n2, m1, m2
<1>7. ASSUME NEW inf \in Checkers(n1)
      PROVE  PopScope(inf) \in Checkers(n) /\ \A i \in 1..n : PopScope(inf).scopes[i] = inf.scopes[i]
  BY <1>2, <1>4, ScopesStay
<1>8. ASSUME NEW inf \in Checkers(n2)
      PROVE  PopScope(inf) \in Checkers(n1) /\ \A i \in 1..n1 : PopScope(inf).scopes[i] = inf.scopes[i]
  BY <1>4, ScopesStay
<1>9. ASSUME NEW g \in Compilers(m1)
      PROVE  GoClose(g) \in Compilers(m) /\ \A i \in 1..m : GoClose(g).scopes[i] = g.scopes[i]
  BY <1>2, <1>4, ScopesStay
<1>10. ASSUME NEW g \in Compilers(m2)
       PROVE  GoClose(g) \in Compilers(m1) /\ \A i \in 1..m1 : GoClose(g).scopes[i] = g.scopes[i]
  BY <1>4, ScopesStay
<1>11. ASSUME NEW inf \in Checkers(n2), inf.scopes = infer.scopes, infer' = PopScope(PopScope(inf))
       PROVE  SameBelow(infer.scopes, infer'.scopes, n)
  BY <1>6, <1>7, <1>8, <1>11 DEF SameBelow
<1>12. ASSUME go \in Compilers(m1), go' = GoClose(go) PROVE SameBelow(go.scopes, go'.scopes, m)
  BY <1>9, <1>12 DEF SameBelow
<1>13. CASE EndFunc
  <2>1. kind = "func" /\ infer' = PopScope(PopScope(CheckUnusedVars(infer))) /\ go' = GoClose(go)
    BY <1>13 DEF EndFunc, Leave, Inside
  <2>2. Inferred("func") = 2 /\ Generated("func") = 1
    BY DEF Inferred, Generated
  <2>3. CheckUnusedVars(infer) \in Checkers(n2) /\ CheckUnusedVars(infer).scopes = infer.scopes
    BY <1>4, <1>5, <2>1, <2>2, ScopesStay
  <2> QED BY <1>3, <1>5, <1>11, <1>12, <2>1, <2>2, <2>3
<1>14. CASE EndBlock
  <2>1. kind = "block" /\ infer' = PopScope(infer) /\ go' = GoClose(go)
    BY <1>14 DEF EndBlock, Leave, Inside
  <2>2. Inferred("block") = 1 /\ Generated("block") = 1
    BY DEF Inferred, Generated
  <2>3. SameBelow(infer.scopes, infer'.scopes, n)
    BY <1>5, <1>7, <2>1, <2>2 DEF SameBelow
  <2> QED BY <1>3, <1>5, <1>12, <2>1, <2>2, <2>3
<1>15. CASE EndIf
  <2>1. /\ kind \in {"if", "else", "range"}
        /\ infer' = PopScope(PopScope(infer)) /\ go' = GoClose(GoClose(go))
    BY <1>15 DEF EndIf, Leave, Inside
  <2>2. Inferred(kind) = 2 /\ Generated(kind) = 2
    BY <2>1 DEF Inferred, Generated
  <2>3. SameBelow(go.scopes, go'.scopes, m)
    BY <1>5, <1>6, <1>9, <1>10, <2>1, <2>2 DEF SameBelow
  <2> QED BY <1>3, <1>5, <1>11, <2>1, <2>2, <2>3
<1>16. CASE EndHandler
  <2>1. kind = "handler" /\ infer' = PopScope(CheckUnusedVars(PopScope(infer))) /\ go' = GoClose(go)
    BY <1>16 DEF EndHandler, Leave, Inside
  <2>2. Inferred("handler") = 2 /\ Generated("handler") = 1
    BY DEF Inferred, Generated
  <2> DEFINE inf == PopScope(infer)
  <2>3. inf \in Checkers(n1) /\ \A i \in 1..n1 : inf.scopes[i] = infer.scopes[i]
    BY <1>5, <1>8, <2>1, <2>2
  <2> HIDE DEF inf
  <2>4. CheckUnusedVars(inf) \in Checkers(n1) /\ CheckUnusedVars(inf).scopes = inf.scopes
    BY <1>4, <1>2, <2>3, ScopesStay
  <2>5. SameBelow(infer.scopes, infer'.scopes, n)
    BY <1>6, <1>7, <2>1, <2>3, <2>4 DEF inf, SameBelow
  <2> QED BY <1>3, <1>5, <1>12, <2>1, <2>2, <2>5
<1>17. CASE EndArm
  <2>1. /\ kind \in {"arm", "case", "closure"}
        /\ infer' = PopScope(PopScope(infer)) /\ go' = GoClose(go)
    BY <1>17 DEF EndArm, Leave, Inside
  <2>2. Inferred(kind) = 2 /\ Generated(kind) = 1
    BY <2>1 DEF Inferred, Generated
  <2> QED BY <1>3, <1>5, <1>11, <1>12, <2>1, <2>2
<1> QED BY <1>13, <1>14, <1>15, <1>16, <1>17

\* In a file that is accepted so far, what the source calls a constant is immutable for
\* the checker, and what Go would call unused in a function's body the checker would too.
THEOREM MarksKept == ScopesSpec => []Marks
<1>1. ScopesInit => Marks
  <2> SUFFICES ASSUME ScopesInit PROVE Marks
    OBVIOUS
  <2>1. blocks = <<>>
    BY DEF ScopesInit
  <2> QED BY <2>1 DEF Marks, NamesMarked
<1>2. ScopesInv /\ Marks /\ [ScopesNext]_vars => Marks'
  <2> SUFFICES ASSUME ScopesInv, Marks, [ScopesNext]_vars PROVE Marks'
    OBVIOUS
  <2>1. CASE UNCHANGED vars
    <3>1. blocks' = blocks /\ infer' = infer /\ go' = go /\ misread' = misread
      BY <2>1 DEF vars
    <3> QED BY <3>1 DEF Marks, Clean, NamesMarked
  <2>2. CASE ScopesNext
    BY <2>2, FuncMarks, EarlyMarks, StatementsMark, BlockMarks, ElseMarks, BeginsMark, EndsMark, ForMarks
       DEF ScopesNext
  <2> QED BY <2>1, <2>2
<1> QED BY <1>1, <1>2, ScopesKept, PTL DEF ScopesSpec

-----------------------------------------------------------------------------
(* Constants are kept.                                                     *)

\* What the checker takes for a variable is no constant of Go, if both mean the same.
LEMMA MutableIsNone ==
    ASSUME ScopesInv, NamesMarked, NEW s, NEW t, NEW n,
           Len(s) \in 0..InferDepth, Len(t) \in 0..GoDepth,
           SameBelow(infer.scopes, s, Len(s)), SameBelow(go.scopes, t, Len(t)),
           \A b \in 1..Len(blocks) :
                blocks[b].generated + Generated(blocks[b].kind) <= Len(t) =>
                    blocks[b].inferred + Inferred(blocks[b].kind) <= Len(s),
           Home(s, n) # 0, s[Home(s, n)][n].mutable, Home(t, n) # 0,
           BlockInferred(Home(s, n)) = BlockGenerated(Home(t, n))
    PROVE  ~ Constant(t[Home(t, n)][n])
<1> DEFINE j == Home(t, n)
           h == Home(s, n)
           b == BlockGenerated(j)
           p == blocks[b].inferred + Inferred(blocks[b].kind)
           l == blocks[b].generated
           q == l + Generated(blocks[b].kind)
<1>1. Len(s) \in Nat /\ Len(t) \in Nat /\ InferDepth \in Nat /\ GoDepth \in Nat
  BY Depths
<1>2. /\ j \in 0..Len(t) /\ n \in DOMAIN t[j]
      /\ h \in 0..Len(s) /\ n \in DOMAIN s[h] /\ \A i \in 1..Len(s) : n \in DOMAIN s[i] => i <= h
  <2>1. Home(t, n) \in 0..Len(t) /\ n \in DOMAIN t[Home(t, n)]
    BY <1>1, HomeIs
  <2>2. Home(s, n) \in 0..Len(s) /\ n \in DOMAIN s[Home(s, n)]
        /\ \A i \in 1..Len(s) : n \in DOMAIN s[i] => i <= Home(s, n)
    BY <1>1, HomeIs
  <2> QED BY <2>1, <2>2
<1>3. j # 0 /\ h # 0 /\ s[h][n].mutable /\ BlockInferred(h) = b
  OBVIOUS
<1> HIDE DEF j, h
<1>4. j \in 1..GoDepth /\ h \in 1..InferDepth /\ j \in 1..Len(t) /\ h \in 1..Len(s)
  BY <1>1, <1>2, <1>3
<1>5. b \in 1..Len(blocks) /\ l < j /\ j <= q
  BY <1>4, GosBlock
<1>6. h <= p
  <2> DEFINE a == BlockInferred(h)
  <2>1. a = b
    BY <1>3
  <2>2. a # 0
    <3> HIDE DEF a, b
    <3> QED BY <1>5, <2>1
  <2>3. h <= blocks[a].inferred + Inferred(blocks[a].kind)
    <3>1. a # 0 => h <= blocks[a].inferred + Inferred(blocks[a].kind)
      BY <1>4, CheckersBlock
    <3> QED BY <2>2, <3>1
  <2> HIDE DEF a, b
  <2> QED BY <2>1, <2>3
<1>7. p \in Nat /\ l \in Nat /\ q \in Nat /\ p > 0
  <2> HIDE DEF b
  <2>1. p \in 1..InferDepth /\ q \in 1..GoDepth /\ l \in Nat
    BY <1>5, BlockTops
  <2> HIDE DEF p, q, l
  <2> QED BY <1>1, <2>1
<1>8. q <= Len(t) => p <= Len(s)
  <2> HIDE DEF b
  <2> QED BY <1>5
<1>9. \A i \in (l + 1)..q : \A m \in DOMAIN go.scopes[i] : Constant(go.scopes[i][m]) =>
        i = q /\ m \in DOMAIN infer.scopes[p] /\ ~ infer.scopes[p][m].mutable
  <2> HIDE DEF b
  <2>1. Marked(blocks[b], infer.scopes, go.scopes)
    BY <1>5 DEF NamesMarked
  <2> QED BY <2>1 DEF Marked
<1> HIDE DEF p, l, q, b
<1>10. SUFFICES ASSUME Constant(t[j][n]) PROVE FALSE
  BY DEF j
<1>11. t[j] = go.scopes[j]
  BY <1>4 DEF SameBelow
<1>12. j = q /\ n \in DOMAIN infer.scopes[p] /\ ~ infer.scopes[p][n].mutable
  <2>1. j \in (l + 1)..q
    BY <1>4, <1>5, <1>7
  <2>2. n \in DOMAIN go.scopes[j] /\ Constant(go.scopes[j][n])
    BY <1>2, <1>10, <1>11
  <2> QED BY <1>9, <2>1, <2>2
<1>13. p \in 1..Len(s)
  BY <1>1, <1>4, <1>7, <1>8, <1>12
<1>14. s[p] = infer.scopes[p]
  BY <1>13 DEF SameBelow
<1>15. p <= h
  BY <1>2, <1>12, <1>13, <1>14
<1>16. h = p
  BY <1>1, <1>4, <1>6, <1>7, <1>15
<1> QED BY <1>3, <1>12, <1>14, <1>16

\* A constant is written to, in Go.
Rewritten(g, h) ==
    \/ \E refusal \in h.refused : refusal.kind = "constant"
    \/ \E i \in DOMAIN g.scopes \cap DOMAIN h.scopes : \E n \in DOMAIN g.scopes[i] \cap DOMAIN h.scopes[i] :
        g.scopes[i][n].fixed /\ ~ g.scopes[i][n].assigned /\ h.scopes[i][n].assigned

\* It is not, where the names are variables of the checker.
LEMMA WritesKeep ==
    ASSUME NEW k \in Nat \ {0}, NEW g \in Compilers(k), NEW N, NEW h \in TouchedAt(k, g, N),
           \A refusal \in g.refused : refusal.kind # "constant",
           \A n \in N : Home(g.scopes, n) # 0 => ~ Constant(g.scopes[Home(g.scopes, n)][n])
    PROVE  ~ Rewritten(g, h)
<1>1. /\ Len(g.scopes) = k /\ Len(h.scopes) = k /\ DOMAIN g.scopes = 1..k /\ DOMAIN h.scopes = 1..k
  BY DEF TouchedAt, Compilers
<1>2. ASSUME NEW refusal \in h.refused PROVE refusal.kind # "constant"
  <2>1. CASE refusal \in g.refused
    BY <2>1
  <2>2. CASE Unassignable(g.scopes, N, refusal)
    BY <2>2 DEF Unassignable, Constant
  <2> QED BY <2>1, <2>2 DEF TouchedAt
<1>3. ASSUME NEW i \in 1..k, NEW n \in DOMAIN g.scopes[i], h.scopes[i][n].assigned, ~ g.scopes[i][n].assigned
      PROVE  ~ g.scopes[i][n].fixed
  <2>1. n \in N /\ i = Home(g.scopes, n) /\ g.scopes[i][n].kind = "var"
    BY <1>1, <1>3 DEF TouchedAt, Touches
  <2>2. i # 0
    OBVIOUS
  <2> QED BY <1>3, <2>1, <2>2 DEF Constant
<1> QED BY <1>1, <1>2, <1>3 DEF Rewritten

\* n = v, n++ and n += v.
LEMMA AssignKeeps ==
    ASSUME ScopesInv, Marks, Assign \/ IncDec, infer'.errors = <<>>, misread' = {}
    PROVE  ~ Overwritten
<1>1. blocks # <<>> /\ Clean
  BY DEF Assign, IncDec, InFunction, Reading, Clean
<1>2. infer \in Checkers(InferDepth) /\ go \in Compilers(GoDepth) /\ infer.errors = <<>> /\ NamesMarked
      /\ go.refused = {}
  BY <1>1, Readers DEF Clean, Marks
<1>3. InferDepth \in Nat \ {0} /\ GoDepth \in Nat \ {0}
  BY <1>1, Depths
<1>4. PICK n \in Target :
         \/ Stmt(<<>>, {}, <<n>>, CheckVarMutable(InferIdent(infer, n), n), GoAssign(go, n))
         \/ Stmt(<<>>, {}, <<n>>, Step(infer, n), GoStep(go, n))
  BY DEF Assign, IncDec
<1>5. n \in Idents /\ Listed(<<n>>) = {n} \ {"_"}
  BY <1>4, OneName DEF Target, Names
<1> DEFINE N == {n} \ {"_"}
<1>6. infer' \in LookedAt(InferDepth, infer, N, {n}) /\ go' \in TouchedAt(GoDepth, go, N)
      /\ misread' = Misread(<<n>>, infer.scopes, go.scopes)
  <2>1. /\ CheckVarMutable(InferIdent(infer, n), n) \in LookedAt(InferDepth, infer, N, {n})
        /\ Step(infer, n) \in LookedAt(InferDepth, infer, N, {n})
    BY <1>2, <1>3, <1>5, CheckerWrites
  <2>2. GoAssign(go, n) \in TouchedAt(GoDepth, go, N)
    BY <1>2, <1>3, <1>5, GoMarks
  <2>3. GoStep(go, n) \in TouchedAt(GoDepth, go, N)
    BY <1>2, <1>3, <1>5, GoWrites
  <2> HIDE DEF N
  <2> QED BY <1>4, <2>1, <2>2, <2>3 DEF Stmt
<1>7. ASSUME NEW m \in N, Home(go.scopes, m) # 0 PROVE ~ Constant(go.scopes[Home(go.scopes, m)][m])
  <2>1. m = n /\ m \in InList(<<n>>)
    BY <1>5, OneName
  <2>2. Home(infer.scopes, m) # 0 /\ infer.scopes[Home(infer.scopes, m)][m].mutable
    BY <1>6, <2>1 DEF LookedAt
  <2>3. BlockInferred(Home(infer.scopes, m)) = BlockGenerated(Home(go.scopes, m))
    BY <1>6, <1>7, <2>1, <2>2 DEF Misread
  <2>4. Len(infer.scopes) = InferDepth /\ Len(go.scopes) = GoDepth /\ InferDepth \in Nat /\ GoDepth \in Nat
    BY Stacks
  <2>5. Len(infer.scopes) \in 0..InferDepth /\ Len(go.scopes) \in 0..GoDepth
    <3> HIDE DEF N
    <3> QED BY <2>4
  <2>6. SameBelow(infer.scopes, infer.scopes, Len(infer.scopes)) /\ SameBelow(go.scopes, go.scopes, Len(go.scopes))
    BY DEF SameBelow
  <2>7. \A b \in 1..Len(blocks) : blocks[b].inferred + Inferred(blocks[b].kind) <= Len(infer.scopes)
    BY <2>4, BlockWithin
  <2> QED BY <1>2, <1>7, <2>2, <2>3, <2>5, <2>6, <2>7, MutableIsNone
<1> HIDE DEF N
<1>8. ~ Rewritten(go, go')
  BY <1>2, <1>3, <1>6, <1>7, WritesKeep
<1> QED BY <1>8 DEF Rewritten, Overwritten

\* When a scope of Go ends, only its unused variables are refused.
LEMMA CloseRefuses ==
    ASSUME NEW k \in Nat \ {0}, NEW g \in Compilers(k), NEW refusal \in GoClose(g).refused
    PROVE  \/ refusal \in g.refused
           \/ /\ refusal.kind = "unused" /\ refusal.name \in DOMAIN g.scopes[k]
              /\ g.scopes[k][refusal.name].kind = "var" /\ ~ g.scopes[k][refusal.name].used
<1> DEFINE unused == {n \in DOMAIN g.scopes[k] : g.scopes[k][n].kind = "var" /\ ~ g.scopes[k][n].used}
<1>1. Last(g.scopes) = g.scopes[k]
  BY DEF Compilers, Last
<1>2. GoClose(g).refused = g.refused \cup {[kind |-> "unused", name |-> n] : n \in unused}
  BY <1>1 DEF GoClose, Refuse, Compilers
<1>3. ASSUME refusal \notin g.refused
      PROVE  refusal.kind = "unused" /\ refusal.name \in unused
  <2> HIDE DEF unused
  <2>1. PICK n \in unused : refusal = [kind |-> "unused", name |-> n]
    BY <1>2, <1>3
  <2> QED BY <2>1
<1> QED BY <1>3

\* The post statement of a loop.
LEMMA PostKeeps ==
    ASSUME ScopesInv, Marks, EndFor, infer'.errors = <<>>, misread' = {}
    PROVE  ~ Overwritten
<1>1. blocks # <<>> /\ Clean /\ Last(blocks).kind = "for"
  BY DEF EndFor, Leave, Inside, InFunction, Reading, Clean
<1>2. NamesMarked /\ go.refused = {} /\ go \in Compilers(GoDepth) /\ GoDepth \in Nat \ {0}
  BY <1>1, Readers, Depths DEF Clean, Marks
<1>3. PICK post \in Seq(Idents), n1 \in Nat \ {0}, m1 \in Nat \ {0} :
          \E inf, g : EndsLoop(post, n1, m1, inf, g)
  BY PostForm
<1>4. PICK inf, g : EndsLoop(post, n1, m1, inf, g)
  BY <1>3
<1> DEFINE s == PopScope(infer).scopes
           t == GoClose(go).scopes
           N == Listed(post)
           n0 == Last(blocks).inferred
           m0 == Last(blocks).generated
<1>5. /\ n1 = n0 + 1 /\ m1 = m0 + 1
      /\ n1 <= InferDepth /\ m1 <= GoDepth
      /\ SameBelow(infer.scopes, s, n1) /\ SameBelow(go.scopes, t, m1)
      /\ inf.errors = <<>> /\ Misread(post, s, t) = {}
      /\ inf \in LookedAt(n1, PopScope(infer), N, InList(post)) /\ g \in TouchedAt(m1, GoClose(go), N)
      /\ SameBelow(g.scopes, go'.scopes, m0)
      /\ go' = GoClose(g) /\ GoClose(go) \in Compilers(m1) /\ PopScope(infer) \in Checkers(n1)
  BY <1>4 DEF EndsLoop
<1>6. Len(s) = n1 /\ Len(t) = m1
  BY <1>5 DEF Checkers, Compilers
<1>7. g \in Compilers(m1)
  BY <1>5 DEF TouchedAt
<1>8. InferDepth \in Nat /\ GoDepth \in Nat /\ m0 \in Nat /\ n0 \in Nat /\ GoDepth = m0 + 2
  <2>1. Generated("for") = 2
    BY DEF Generated
  <2> QED BY <1>1, <2>1, Depths
<1> HIDE DEF s, t, N, n0, m0
<1>9. \A n \in N : Home(s, n) # 0 /\ s[Home(s, n)][n].mutable
  <2>1. N \subseteq InList(post)
    BY DEF N, Listed
  <2> QED BY <1>5, <2>1 DEF LookedAt, s
<1>10. Meet(s, t, N)
  <2> HIDE DEF Home
  <2> QED BY <1>5 DEF Misread, N, Listed, Meet
<1>11. \A b \in 1..Len(blocks) : blocks[b].generated + Generated(blocks[b].kind) <= Len(t) =>
                    blocks[b].inferred + Inferred(blocks[b].kind) <= Len(s)
  <2> SUFFICES ASSUME NEW b \in 1..Len(blocks), blocks[b].generated + Generated(blocks[b].kind) <= Len(t)
               PROVE  blocks[b].inferred + Inferred(blocks[b].kind) <= Len(s)
    OBVIOUS
  <2> DEFINE p == blocks[b].inferred + Inferred(blocks[b].kind)
             q == blocks[b].generated + Generated(blocks[b].kind)
  <2>1. p \in Nat /\ q \in Nat
    <3>1. p \in 1..InferDepth /\ q \in 1..GoDepth
      BY BlockTops
    <3> HIDE DEF p, q
    <3> QED BY <1>8, <3>1
  <2>2. b = Len(blocks) => q = GoDepth
    BY <1>1, TopBlock
  <2>3. b # Len(blocks) => p <= n0
    BY BlockWithin DEF n0
  <2>4. q <= Len(t)
    OBVIOUS
  <2> HIDE DEF p, q
  <2>5. b # Len(blocks)
    BY <1>5, <1>6, <1>8, <2>1, <2>2, <2>4
  <2>6. p <= Len(s)
    BY <1>5, <1>6, <1>8, <2>1, <2>3, <2>5
  <2> QED BY <2>6 DEF p
<1>12. ASSUME NEW n \in N, Home(t, n) # 0 PROVE ~ Constant(t[Home(t, n)][n])
  <2>1. Len(s) \in 0..InferDepth /\ Len(t) \in 0..GoDepth
    BY <1>5, <1>6, <1>8
  <2>2. SameBelow(infer.scopes, s, Len(s)) /\ SameBelow(go.scopes, t, Len(t))
    BY <1>5, <1>6
  <2>3. Home(s, n) # 0 /\ s[Home(s, n)][n].mutable
    BY <1>9
  <2>4. BlockInferred(Home(s, n)) = BlockGenerated(Home(t, n))
    BY <1>10, <1>12, <2>3 DEF Meet
  <2> QED BY <1>2, <1>11, <1>12, <2>1, <2>2, <2>3, <2>4, MutableIsNone
<1>13. \A refusal \in GoClose(go).refused : refusal.kind # "constant"
  BY <1>2, CloseRefuses
<1>14. ~ Rewritten(GoClose(go), g)
  <2>1. \A n \in N : Home(GoClose(go).scopes, n) # 0 => ~ Constant(GoClose(go).scopes[Home(GoClose(go).scopes, n)][n])
    BY <1>12 DEF t
  <2> QED BY <1>5, <1>13, <2>1, WritesKeep
<1>15. \A refusal \in go'.refused : refusal.kind # "constant"
  <2>1. \A refusal \in g.refused : refusal.kind # "constant"
    BY <1>14 DEF Rewritten
  <2>2. \A refusal \in GoClose(g).refused : refusal.kind # "constant"
    BY <1>7, <2>1, CloseRefuses
  <2> QED BY <1>5, <2>2
<1>16. DOMAIN go'.scopes = 1..m0 /\ DOMAIN g.scopes = 1..m1 /\ DOMAIN t = 1..m1
  <2>1. GoClose(g) \in Compilers(m0)
    <3>1. m1 \in Nat /\ m0 \in Nat /\ m1 = m0 + 1
      BY <1>5, <1>8
    <3> QED BY <1>7, <3>1, ScopesStay
  <2>2. go' \in Compilers(m0)
    BY <1>5, <2>1
  <2>3. go'.scopes \in Seq(ScopesOf(GoEntries)) /\ Len(go'.scopes) = m0
    BY <2>2 DEF Compilers
  <2>4. g.scopes \in Seq(ScopesOf(GoEntries)) /\ Len(g.scopes) = m1
    BY <1>7 DEF Compilers
  <2>5. t \in Seq(ScopesOf(GoEntries)) /\ Len(t) = m1
    BY <1>5 DEF Compilers, t
  <2> QED BY <2>3, <2>4, <2>5
<1>17. ASSUME NEW i \in 1..m0, NEW n \in DOMAIN go.scopes[i] \cap DOMAIN go'.scopes[i],
              go.scopes[i][n].fixed, ~ go.scopes[i][n].assigned, go'.scopes[i][n].assigned
       PROVE  FALSE
  <2>1. i \in 1..m1
    BY <1>5, <1>8
  <2>2. t[i] = go.scopes[i] /\ go'.scopes[i] = g.scopes[i]
    BY <1>5, <2>1 DEF SameBelow
  <2>3. i \in DOMAIN t \cap DOMAIN g.scopes /\ n \in DOMAIN t[i] \cap DOMAIN g.scopes[i]
    BY <1>16, <2>1, <2>2
  <2> QED BY <1>14, <1>17, <2>2, <2>3 DEF Rewritten, t
<1> QED BY <1>15, <1>16, <1>17 DEF Overwritten

\* Of what Go's scopes have, only names of N in the innermost one are written to.
WritesAt(k, g, N) ==
    {h \in Compilers(k) :
        /\ \A i \in 1..k : \A n \in DOMAIN g.scopes[i] :
            /\ n \in DOMAIN h.scopes[i] /\ h.scopes[i][n].kind = g.scopes[i][n].kind
            /\ h.scopes[i][n].assigned => g.scopes[i][n].assigned \/ (i = k /\ n \in N /\ g.scopes[i][n].kind = "var")
        /\ \A refusal \in h.refused :
            \/ refusal \in g.refused \/ refusal.kind # "constant"
            \/ /\ refusal.name \in N \cap DOMAIN g.scopes[k]
               /\ g.scopes[k][refusal.name].kind = "const"}

\* One declaration after the other.
LEMMA WritesTwice ==
    ASSUME NEW k \in Nat \ {0}, NEW g \in Compilers(k), NEW N, NEW M,
           NEW h \in WritesAt(k, g, N), NEW next \in WritesAt(k, h, M),
           \A refusal \in next.refused :
                refusal \in h.refused \/ refusal.kind # "constant" \/ refusal.name \in DOMAIN g.scopes[k]
    PROVE  next \in WritesAt(k, g, N \cup M)
<1>1. k \in 1..k /\ next \in Compilers(k)
  BY TopNumber DEF WritesAt
<1>2. ASSUME NEW i \in 1..k, NEW n \in DOMAIN g.scopes[i]
      PROVE  /\ n \in DOMAIN next.scopes[i] /\ next.scopes[i][n].kind = g.scopes[i][n].kind
             /\ next.scopes[i][n].assigned =>
                    g.scopes[i][n].assigned \/ (i = k /\ n \in N \cup M /\ g.scopes[i][n].kind = "var")
  <2>1. /\ n \in DOMAIN h.scopes[i] /\ h.scopes[i][n].kind = g.scopes[i][n].kind
        /\ h.scopes[i][n].assigned => g.scopes[i][n].assigned \/ (i = k /\ n \in N /\ g.scopes[i][n].kind = "var")
    BY DEF WritesAt
  <2>2. /\ n \in DOMAIN next.scopes[i] /\ next.scopes[i][n].kind = h.scopes[i][n].kind
        /\ next.scopes[i][n].assigned => h.scopes[i][n].assigned \/ (i = k /\ n \in M /\ h.scopes[i][n].kind = "var")
    BY <2>1 DEF WritesAt
  <2> QED BY <2>1, <2>2
<1>3. ASSUME NEW refusal \in next.refused, refusal \notin g.refused, refusal.kind = "constant"
      PROVE  /\ refusal.name \in (N \cup M) \cap DOMAIN g.scopes[k]
             /\ g.scopes[k][refusal.name].kind = "const"
  <2>1. CASE refusal \in h.refused
    BY <1>3, <2>1 DEF WritesAt
  <2>2. CASE refusal \notin h.refused
    <3>1. refusal.name \in M \cap DOMAIN h.scopes[k] /\ h.scopes[k][refusal.name].kind = "const"
      BY <1>3, <2>2 DEF WritesAt
    <3>2. refusal.name \in DOMAIN g.scopes[k]
      BY <1>3, <2>2
    <3> QED BY <1>1, <3>1, <3>2 DEF WritesAt
  <2> QED BY <2>1, <2>2
<1> QED BY <1>1, <1>2, <1>3 DEF WritesAt

\* A declaration writes to nothing that is there.
LEMMA DeclareWrites ==
    ASSUME NEW k \in Nat \ {0}, NEW g \in Compilers(k), NEW n \in Idents, NEW e \in GoEntries
    PROVE  /\ GoDeclare(g, n, e) \in WritesAt(k, g, {})
           /\ \A refusal \in GoDeclare(g, n, e).refused : refusal \in g.refused \/ refusal.kind # "constant"
<1>1. /\ g \in [scopes : Seq(ScopesOf(GoEntries)), refused : SUBSET Refusals] /\ Len(g.scopes) = k
      /\ g.scopes \in Seq(ScopesOf(GoEntries)) /\ k \in Nat /\ k > 0 /\ Last(g.scopes) = g.scopes[k]
  BY DEF Compilers, Last
<1>2. GoDeclare(g, n, e) \in Compilers(k)
  BY GoKeeps
<1>3. CASE n = "_"
  <2>1. GoDeclare(g, n, e) = g
    BY <1>3 DEF GoDeclare
  <2> QED BY <2>1 DEF WritesAt
<1>4. CASE n # "_" /\ n \in DOMAIN g.scopes[k]
  <2> DEFINE r == [kind |-> "redeclared", name |-> n]
             h == Refuse(g, "redeclared", {n})
  <2>1. GoDeclare(g, n, e) = h
    BY <1>1, <1>4 DEF GoDeclare
  <2>2. h.scopes = g.scopes /\ h.refused = g.refused \cup {r} /\ r.kind # "constant"
    BY <1>1 DEF Refuse
  <2> HIDE DEF h, r
  <2>3. \A refusal \in h.refused : refusal \in g.refused \/ refusal.kind # "constant"
    BY <2>2
  <2> QED BY <1>2, <2>1, <2>2, <2>3 DEF WritesAt
<1>5. CASE n # "_" /\ n \notin DOMAIN g.scopes[k]
  <2> DEFINE t == [g.scopes EXCEPT ![Len(g.scopes)] = With(@, n, e)]
             h == [g EXCEPT !.scopes = t]
  <2>1. GoDeclare(g, n, e) = h
    BY <1>1, <1>5 DEF GoDeclare, GoBind
  <2>2. t[k] = With(g.scopes[k], n, e) /\ \A i \in 1..(k - 1) : t[i] = g.scopes[i]
    BY <1>1
  <2>3. /\ DOMAIN With(g.scopes[k], n, e) = DOMAIN g.scopes[k] \cup {n}
        /\ \A m \in DOMAIN g.scopes[k] : m # n => With(g.scopes[k], n, e)[m] = g.scopes[k][m]
    BY DEF With
  <2>4. h.scopes = t /\ h.refused = g.refused
    <3> HIDE DEF t
    <3> QED BY <1>1
  <2> HIDE DEF t, h
  <2>5. \A m \in DOMAIN g.scopes[k] : m \in DOMAIN t[k] /\ t[k][m] = g.scopes[k][m]
    BY <1>5, <2>2, <2>3
  <2>6. \A i \in 1..k : \A m \in DOMAIN g.scopes[i] : m \in DOMAIN t[i] /\ t[i][m] = g.scopes[i][m]
    <3>1. \A i \in 1..k : i = k \/ i \in 1..(k - 1)
      BY <1>1
    <3> QED BY <2>2, <2>5, <3>1
  <2> QED BY <1>2, <2>1, <2>4, <2>6 DEF WritesAt
<1> QED BY <1>3, <1>4, <1>5

\* An assignment to a name of the innermost scope.
LEMMA AssignWrites ==
    ASSUME NEW k \in Nat \ {0}, NEW g \in Compilers(k), NEW n \in Idents, n \in DOMAIN g.scopes[k], n # "_"
    PROVE  GoAssign(g, n) \in WritesAt(k, g, {n})
<1> DEFINE h == GoAssign(g, n)
           N == {n} \ {"_"}
<1>1. h \in TouchedAt(k, g, N)
  BY GoMarks
<1>2. Home(g.scopes, n) = k /\ N = {n} /\ Len(g.scopes) = k
  BY TopHome DEF Compilers
<1> HIDE DEF h, N
<1>3. h \in Compilers(k) /\ Touches(g.scopes, h.scopes, N)
      /\ \A refusal \in h.refused : refusal \in g.refused \/ Unassignable(g.scopes, N, refusal)
  BY <1>1 DEF TouchedAt
<1>4. ASSUME NEW i \in 1..k, NEW m \in DOMAIN g.scopes[i]
      PROVE  /\ m \in DOMAIN h.scopes[i] /\ h.scopes[i][m].kind = g.scopes[i][m].kind
             /\ h.scopes[i][m].assigned => g.scopes[i][m].assigned \/ (i = k /\ m \in N /\ g.scopes[i][m].kind = "var")
  <2>1. DOMAIN h.scopes[i] = DOMAIN g.scopes[i] /\ Later(g.scopes[i][m], h.scopes[i][m])
    BY <1>2, <1>3 DEF Touches, Ages
  <2>2. h.scopes[i][m].assigned => g.scopes[i][m].assigned
        \/ (m \in N /\ i = Home(g.scopes, m) /\ g.scopes[i][m].kind = "var")
    BY <1>2, <1>3 DEF Touches
  <2>3. m \in N => Home(g.scopes, m) = k
    BY <1>2
  <2> QED BY <2>1, <2>2, <2>3 DEF Later
<1>5. ASSUME NEW refusal \in h.refused, refusal \notin g.refused, refusal.kind = "constant"
      PROVE  refusal.name \in {n} /\ g.scopes[k][refusal.name].kind = "const"
  <2>1. Unassignable(g.scopes, N, refusal)
    BY <1>3, <1>5
  <2>2. refusal.name = n
    BY <1>2, <2>1 DEF Unassignable
  <2> QED BY <1>2, <1>5, <2>1, <2>2 DEF Unassignable
<1> QED BY <1>2, <1>3, <1>4, <1>5 DEF WritesAt, h

\* More names may be written to.
LEMMA WritesMore ==
    ASSUME NEW k \in Nat \ {0}, NEW g \in Compilers(k), NEW N, NEW M, N \subseteq M, NEW h \in WritesAt(k, g, N)
    PROVE  h \in WritesAt(k, g, M)
BY DEF WritesAt

\* A list of declarations, of which the names in old are assigned.
LEMMA MixWrites ==
    ASSUME NEW k \in Nat \ {0}, NEW g \in Compilers(k), NEW list \in Seq(Idents), NEW e \in GoEntries
    PROVE  GoMix(g, list, e) \in WritesAt(k, g, Listed(list))
<1> DEFINE old == DOMAIN g.scopes[k]
           c == <<old, e>>
           S == [i \in 0..Len(list) |-> WritesAt(k, g, Upto(list, i))]
<1>1. /\ Upto(list, 0) = {} /\ Upto(list, Len(list)) = Listed(list)
      /\ \A i \in 1..Len(list) : Upto(list, i) = Upto(list, i - 1) \cup ({list[i]} \ {"_"})
  BY UptoNext
<1>2. /\ Len(list) \in Nat /\ 0 \in 0..Len(list) /\ Len(list) \in 0..Len(list)
      /\ \A i \in 1..Len(list) : list[i] \in Idents /\ i - 1 \in 0..Len(list) /\ i \in 0..Len(list)
  BY ListNumbers
<1>3. g \in S[0]
  <2>1. g \in WritesAt(k, g, {})
    BY DEF WritesAt
  <2> QED BY <1>1, <1>2, <2>1
<1>4. ASSUME NEW i \in 1..Len(list), NEW h \in S[i - 1] PROVE MixTurn(c, h, list[i]) \in S[i]
  <2> DEFINE n == list[i]
             next == MixTurn(c, h, n)
             N == Upto(list, i - 1)
             M == {n} \ {"_"}
  <2>1. n \in Idents /\ h \in WritesAt(k, g, N)
    BY <1>2, <1>4
  <2>2. h \in Compilers(k) /\ old \subseteq DOMAIN h.scopes[k]
    <3> HIDE DEF N
    <3>1. k \in 1..k
      BY TopNumber
    <3> QED BY <2>1, <3>1 DEF WritesAt
  <2>3. next = IF n \in old THEN GoAssign(h, n) ELSE GoDeclare(h, n, e)
    BY DEF MixTurn
  <2>4. S[i] = WritesAt(k, g, N \cup M)
    BY <1>1, <1>2
  <2> HIDE DEF next, N, n, S, old
  <2>5. CASE n = "_"
    <3>1. next = h /\ N \subseteq N \cup M
      BY <2>3, <2>5 DEF GoAssign, GoDeclare
    <3> HIDE DEF M
    <3> QED BY <2>1, <2>4, <3>1, WritesMore DEF next, n
  <2>6. CASE n # "_" /\ n \in old
    <3>1. M = {n} /\ n \in DOMAIN h.scopes[k] /\ next = GoAssign(h, n)
      BY <2>2, <2>3, <2>6
    <3>2. next \in WritesAt(k, h, {n})
      BY <2>1, <2>2, <2>6, <3>1, AssignWrites
    <3>3. n \in old
      BY <2>6
    <3> HIDE DEF M
    <3>4. \A refusal \in next.refused :
            refusal \in h.refused \/ refusal.kind # "constant" \/ refusal.name \in DOMAIN g.scopes[k]
      BY <3>2, <3>3 DEF WritesAt, old
    <3>5. next \in WritesAt(k, g, N \cup {n})
      BY <2>1, <2>2, <3>2, <3>4, WritesTwice
    <3> QED BY <2>4, <3>1, <3>5 DEF next, n
  <2>7. CASE n # "_" /\ n \notin old
    <3>1. next = GoDeclare(h, n, e)
      BY <2>3, <2>7
    <3> HIDE DEF M
    <3>2. next \in WritesAt(k, h, {}) /\ \A refusal \in next.refused : refusal \in h.refused \/ refusal.kind # "constant"
      BY <2>1, <2>2, <3>1, DeclareWrites
    <3>3. next \in WritesAt(k, g, N \cup {})
      BY <2>1, <2>2, <3>2, WritesTwice
    <3>4. N \cup {} \subseteq N \cup M
      OBVIOUS
    <3>5. next \in WritesAt(k, g, N \cup M)
      BY <3>3, <3>4, WritesMore
    <3> QED BY <2>4, <3>5 DEF next, n
  <2> QED BY <2>5, <2>6, <2>7
<1>5. MixLoop!Loop(c, g, list) \in S[Len(list)]
  <2> HIDE DEF S, c
  <2> QED BY <1>3, <1>4, MixLoop!LoopMoves
<1>6. MixLoop!Loop(c, g, list) \in WritesAt(k, g, Listed(list))
  BY <1>1, <1>2, <1>5
<1> DEFINE h == MixLoop!Loop(c, g, list)
           twice == Repeated(list)
           m == Refuse(h, "redeclared", twice)
<1>7. GoMix(g, list, e) = m
  <2>1. Last(g.scopes) = g.scopes[k]
    BY DEF Compilers, Last
  <2> QED BY <2>1 DEF GoMix, MixLoop!Loop, Each, MixLoop!Each, MixTurn
<1>8. twice \in SUBSET Idents
  BY ListNames
<1> HIDE DEF h, twice
<1>9. h \in Compilers(k) /\ h \in [scopes : Seq(ScopesOf(GoEntries)), refused : SUBSET Refusals] /\ k \in Nat
  BY <1>6 DEF WritesAt, Compilers, h
<1>10. m \in Compilers(k) /\ m.scopes = h.scopes
  BY <1>8, <1>9, RefuseKeeps
<1>11. m.refused = h.refused \cup {[kind |-> "redeclared", name |-> n] : n \in twice}
  BY <1>9 DEF Refuse
<1>12. \A refusal \in m.refused : refusal \in h.refused \/ refusal.kind = "redeclared"
  BY <1>11
<1> HIDE DEF m
<1>13. m \in WritesAt(k, g, Listed(list))
  <2>1. h \in WritesAt(k, g, Listed(list))
    BY <1>6 DEF h
  <2> QED BY <1>10, <1>12, <2>1 DEF WritesAt
<1> QED BY <1>7, <1>13

\* n, m := ... writes to its own names.
LEMMA ShortWrites ==
    ASSUME NEW k \in Nat \ {0}, NEW g \in Compilers(k), NEW list \in Seq(Idents), NEW e \in GoEntries
    PROVE  GoShort(g, list, e) \in WritesAt(k, g, Listed(list))
<1> DEFINE h == Refuse(g, "redeclared", InList(list))
<1>1. GoShort(g, list, e) = h \/ GoShort(g, list, e) = GoMix(g, list, e)
  BY DEF GoShort
<1>2. InList(list) \in SUBSET Idents
  BY ListNames
<1>3. h \in Compilers(k) /\ h.scopes = g.scopes
  BY <1>2, RefuseKeeps
<1>4. h.refused = g.refused \cup {[kind |-> "redeclared", name |-> n] : n \in InList(list)}
  BY DEF Refuse, Compilers
<1>5. \A refusal \in h.refused : refusal \in g.refused \/ refusal.kind = "redeclared"
  BY <1>4
<1> HIDE DEF h
<1>6. h \in WritesAt(k, g, Listed(list))
  BY <1>3, <1>5 DEF WritesAt
<1> QED BY <1>1, <1>6, MixWrites

\* What the checker takes for new is no constant of Go's innermost scope.
LEMMA NewIsNone ==
    ASSUME ScopesInv, NamesMarked, blocks # <<>>, go.refused = {}, NEW N,
           N \cap DOMAIN infer.scopes[InferDepth] = {}, NEW h \in WritesAt(GoDepth, go, N)
    PROVE  ~ Rewritten(go, h)
<1> DEFINE l == Last(blocks).generated
           q == l + Generated(Last(blocks).kind)
           k == GoDepth
<1>1. q = k /\ Inferred(Last(blocks).kind) + Last(blocks).inferred = InferDepth /\ l \in Nat /\ k \in Nat /\ l < k
  <2>1. Last(blocks) = blocks[Len(blocks)] /\ Len(blocks) \in 1..Len(blocks)
        /\ InferDepth = Last(blocks).inferred + Inferred(Last(blocks).kind) /\ k = q
    BY TopBlock
  <2>2. l \in Nat /\ l < q
    BY <2>1, BlockTops
  <2>3. k \in Nat
    BY Depths
  <2>4. Last(blocks).inferred \in Nat /\ Inferred(Last(blocks).kind) \in Nat
    BY <2>1, BlockTops DEF Inferred
  <2> QED BY <2>1, <2>2, <2>3, <2>4
<1>2. Marked(Last(blocks), infer.scopes, go.scopes)
  BY TopBlock DEF NamesMarked
<1>3. \A n \in DOMAIN go.scopes[k] : Constant(go.scopes[k][n]) => n \in DOMAIN infer.scopes[InferDepth]
  <2>1. Last(blocks).inferred + Inferred(Last(blocks).kind) = InferDepth
    BY TopBlock
  <2>2. \A i \in (l + 1)..q : \A n \in DOMAIN go.scopes[i] :
            Constant(go.scopes[i][n]) => n \in DOMAIN infer.scopes[InferDepth]
    BY <1>2, <2>1 DEF Marked
  <2> HIDE DEF l, q, k
  <2>3. k \in (l + 1)..q
    BY <1>1
  <2> QED BY <2>2, <2>3
<1> HIDE DEF k, l, q
<1>4. ASSUME NEW n \in N, n \in DOMAIN go.scopes[k] PROVE ~ Constant(go.scopes[k][n])
  BY <1>3, <1>4
<1>5. h \in WritesAt(k, go, N)
  BY DEF k
<1>6. ASSUME NEW refusal \in h.refused PROVE refusal.kind # "constant"
  <2>1. SUFFICES ASSUME refusal.kind = "constant" PROVE FALSE
    OBVIOUS
  <2>2. refusal.name \in N \cap DOMAIN go.scopes[k] /\ go.scopes[k][refusal.name].kind = "const"
    BY <1>5, <2>1 DEF WritesAt
  <2> QED BY <1>4, <2>2 DEF Constant
<1>7. DOMAIN go.scopes = 1..k
  <2>1. go.scopes \in Seq(ScopesOf(GoEntries)) /\ Len(go.scopes) = k
    BY Stacks DEF k
  <2> QED BY <2>1
<1>8. ASSUME NEW i \in 1..k, NEW n \in DOMAIN go.scopes[i],
             go.scopes[i][n].fixed, ~ go.scopes[i][n].assigned, h.scopes[i][n].assigned
      PROVE  FALSE
  <2>1. i = k /\ n \in N /\ go.scopes[i][n].kind = "var"
    BY <1>5, <1>8 DEF WritesAt
  <2> QED BY <1>4, <1>8, <2>1 DEF Constant
<1> QED BY <1>6, <1>7, <1>8 DEF Rewritten

\* n := v and n := f() ?
LEMMA DeclKeeps ==
    ASSUME ScopesInv, Marks, Decl \/ TryDecl, infer'.errors = <<>>
    PROVE  ~ Overwritten
<1>1. blocks # <<>> /\ Clean
  BY DEF Decl, TryDecl, InFunction, Reading, Clean
<1>2. infer \in Checkers(InferDepth) /\ go \in Compilers(GoDepth) /\ infer.errors = <<>> /\ NamesMarked
      /\ go.refused = {}
  BY <1>1, Readers DEF Clean, Marks
<1>3. InferDepth \in Nat \ {0} /\ GoDepth \in Nat \ {0}
  BY <1>1, Depths
<1>4. ASSUME NEW N, N \cap DOMAIN infer.scopes[InferDepth] = {}, go' \in WritesAt(GoDepth, go, N)
      PROVE  ~ Overwritten
  <2>1. ~ Rewritten(go, go')
    BY <1>1, <1>2, <1>4, NewIsNone
  <2> QED BY <2>1 DEF Rewritten, Overwritten
<1>5. CASE Decl
  <2>1. PICK n \in Idents : \E variant \in BOOLEAN :
            Stmt(<<n>>, ErrNames, <<>>, InsertVar(infer, n),
                 IF variant THEN GoDeclare(go, n, Var) ELSE GoShort(go, <<n>>, Var))
    BY <1>5 DEF Decl
  <2>2. infer' = InsertVar(infer, n) /\ (go' = GoDeclare(go, n, Var) \/ go' = GoShort(go, <<n>>, Var))
    BY <2>1 DEF Stmt
  <2>3. <<n>> \in Seq(Idents)
    BY OneName
  <2> DEFINE N == Listed(<<n>>)
  <2>4. N \cap DOMAIN infer.scopes[InferDepth] = {}
    BY <1>2, <1>3, <2>2, InsertDeclares DEF AsDeclared
  <2>5. GoShort(go, <<n>>, Var) \in WritesAt(GoDepth, go, N)
    BY <1>2, <1>3, <2>3, MadeEntries, ShortWrites
  <2>6. GoDeclare(go, n, Var) \in WritesAt(GoDepth, go, N)
    <3>1. GoDeclare(go, n, Var) \in WritesAt(GoDepth, go, {})
      BY <1>2, <1>3, MadeEntries, DeclareWrites
    <3>2. {} \subseteq N
      OBVIOUS
    <3> HIDE DEF N
    <3> QED BY <1>2, <1>3, <3>1, <3>2, WritesMore
  <2> HIDE DEF N
  <2> QED BY <1>4, <2>2, <2>4, <2>5, <2>6
<1>6. CASE TryDecl
  <2>1. PICK list \in Lists : Stmt(list, ErrNames, <<>>, Each(InsertVar, infer, list), GoMix(go, list, Var))
    BY <1>6 DEF TryDecl
  <2>2. list \in Seq(Idents)
    BY ListTypes
  <2>3. infer' = Each(InsertVar, infer, list) /\ go' = GoMix(go, list, Var)
    BY <2>1 DEF Stmt
  <2>4. Listed(list) \cap DOMAIN infer.scopes[InferDepth] = {}
    BY <1>2, <1>3, <2>2, <2>3, InsertsDeclare DEF AsDeclared
  <2>5. GoMix(go, list, Var) \in WritesAt(GoDepth, go, Listed(list))
    BY <1>2, <1>3, <2>2, MadeEntries, MixWrites
  <2> QED BY <1>4, <2>3, <2>4, <2>5
<1> QED BY <1>5, <1>6

\* What the source declares a constant is written to, in a program that is accepted, by
\* no n = v, n++, n += v, n := v or n := f() ?.
THEOREM ConstantsKept == ScopesSpec => ConstantsAreKept
<1>1. ScopesInv /\ Marks /\ [ScopesNext]_vars =>
        [infer'.errors = <<>> /\ misread' = {} /\ Overwritten =>
            ~ (Assign \/ IncDec \/ EndFor \/ Decl \/ TryDecl)]_vars
  BY AssignKeeps, PostKeeps, DeclKeeps
<1> QED BY <1>1, ScopesKept, MarksKept, PTL DEF ScopesSpec, ConstantsAreKept

-----------------------------------------------------------------------------
(* What Go refuses of an accepted body.                                    *)

\* The gaps, one by one.
LEMMA GapKinds ==
    ASSUME NEW refusal
    PROVE  /\ refusal.kind = "constant" => KnownGap(refusal)
           /\ refusal.kind = "redeclared" /\ refusal.name = "_" => KnownGap(refusal)
           /\ refusal.kind = "redeclared" /\ SharesTheScope => KnownGap(refusal)
           /\ refusal.kind = "redeclared" /\ Opens({"func", "closure", "if", "for"}) => KnownGap(refusal)
           /\ refusal.kind = "redeclared" /\ ~ Opens(Kinds) /\ refusal.name \notin DOMAIN Last(go.scopes) =>
                KnownGap(refusal)
           /\ refusal.kind = "unused" /\ ~ Reads({"func"}) => KnownGap(refusal)
           /\ refusal.kind = "unused" /\ Last(go.scopes)[refusal.name].assigned => KnownGap(refusal)
           /\ refusal.kind = "undefined" /\
              blocks[BlockInferred(Home(Seen(infer.scopes), refusal.name))].kind = "arm" => KnownGap(refusal)
<1>1. refusal.kind = "constant" => KnownGap(refusal)
  BY DEF KnownGap
<1>2. refusal.kind = "redeclared" =>
        (KnownGap(refusal) <=>
            \/ refusal.name = "_"
            \/ SharesTheScope
            \/ Opens({"func", "closure", "if", "for"})
            \/ ~ Opens(Kinds) /\ refusal.name \notin DOMAIN Last(go.scopes))
  BY DEF KnownGap
<1>3. refusal.kind = "unused" => (KnownGap(refusal) <=> ~ Reads({"func"}) \/ Last(go.scopes)[refusal.name].assigned)
  BY DEF KnownGap
<1>4. refusal.kind = "undefined" =>
        (KnownGap(refusal) <=> blocks[BlockInferred(Home(Seen(infer.scopes), refusal.name))].kind = "arm")
  BY DEF KnownGap
<1> HIDE DEF KnownGap, SharesTheScope, Opens, Reads
<1> QED BY <1>1, <1>2, <1>3, <1>4

\* A name of the checker that Go has not is one of several patterns.
LEMMA UnknownIsArm ==
    ASSUME ScopesInv, left = 0, NEW s, NEW t, DOMAIN s[1] = {}, Len(s) \in 0..InferDepth, Len(t) \in 0..GoDepth,
           \A b \in 1..Len(blocks) : Faces(b, s, t), NEW n, Home(s, n) # 0, Home(t, n) = 0
    PROVE  blocks[BlockInferred(Home(s, n))].kind = "arm"
<1> DEFINE h == Home(s, n)
           b == BlockInferred(h)
<1>1. Len(s) \in Nat /\ Len(t) \in Nat /\ InferDepth \in Nat /\ GoDepth \in Nat
  BY Depths
<1>2. h \in 0..Len(s) /\ n \in DOMAIN s[h] /\ h # 0
  BY <1>1, HomeIs
<1>3. \A i \in 1..Len(t) : n \notin DOMAIN t[i]
  BY <1>1, HomeIs
<1> HIDE DEF h
<1>4. h \in 1..InferDepth /\ h # 1 /\ h \in 1..Len(s)
  <2>1. h # 1
    BY <1>2
  <2> QED BY <1>1, <1>2, <2>1
<1>5. b \in 1..Len(blocks) /\ blocks[b].inferred < h /\ h <= blocks[b].inferred + Inferred(blocks[b].kind)
  <2>1. b # 0
    <3>1. b = 0 => h <= 1 + left
      BY <1>4, CheckersBlock
    <3>2. ~ (h <= 1 + left)
      <4> HIDE DEF b
      <4> QED BY <1>1, <1>4
    <3> QED BY <3>1, <3>2
  <2> QED BY <1>4, <2>1, CheckersBlock
<1> HIDE DEF b
<1>6. SUFFICES ASSUME blocks[b].kind # "arm" PROVE FALSE
  BY DEF b, h
<1>7. GoHas(t, b, n)
  <2>1. Faces(b, s, t)
    BY <1>5
  <2> QED BY <1>2, <1>4, <1>5, <1>6, <2>1 DEF Faces
<1> QED BY <1>3, <1>7 DEF GoHas

\* A statement keeps the blocks and reads in the scopes there are.
LEMMA StillSeen ==
    ASSUME ScopesInv, blocks' = blocks
    PROVE  Seen(infer.scopes) = infer.scopes /\ Seen(go.scopes) = go.scopes /\ ~ Opens(Kinds)
<1>1. Len(blocks) \in Nat /\ Len(blocks') = Len(blocks)
  BY Depths
<1>2. ~ (Len(blocks') < Len(blocks)) /\ ~ (Len(blocks') > Len(blocks))
  BY <1>1
<1> QED BY <1>2 DEF Seen, Opens

\* What a statement uses.
LEMMA UseGaps ==
    ASSUME ScopesInv, Agree, Clean, blocks # <<>>, NEW list \in Seq(Idents), NEW inf, NEW g, NEW W,
           Stmt(<<>>, {}, list, inf, g), inf.errors = <<>>,
           inf \in LookedAt(InferDepth, infer, Listed(list), W), g \in TouchedAt(GoDepth, go, Listed(list)),
           NEW refusal \in go'.refused
    PROVE  KnownGap(refusal)
<1>1. left = 0 /\ DOMAIN infer.scopes[1] = {} /\ NamesAgree /\ go.refused = {}
  BY DEF Agree, Clean
<1>2. blocks' = blocks /\ go' = g
  BY DEF Stmt
<1>3. Unassignable(go.scopes, Listed(list), refusal)
  BY <1>1, <1>2 DEF TouchedAt
<1>4. Len(infer.scopes) \in 0..InferDepth /\ Len(go.scopes) \in 0..GoDepth
  BY Stacks
<1>5. CASE refusal.kind = "constant"
  BY <1>5, GapKinds
<1>6. CASE refusal.kind # "constant"
  <2>1. refusal.kind = "undefined" /\ refusal.name \in Listed(list) /\ Home(go.scopes, refusal.name) = 0
    BY <1>3, <1>6 DEF Unassignable
  <2>2. Home(infer.scopes, refusal.name) # 0
    BY <2>1 DEF LookedAt
  <2>3. \A b \in 1..Len(blocks) : Faces(b, infer.scopes, go.scopes)
    BY <1>1, FacesNow
  <2>4. blocks[BlockInferred(Home(infer.scopes, refusal.name))].kind = "arm"
    BY <1>1, <1>4, <2>1, <2>2, <2>3, UnknownIsArm
  <2> QED BY <1>2, <2>1, <2>4, StillSeen, GapKinds
<1> QED BY <1>5, <1>6

\* Where Go's innermost scope has a name that the checker's has not, the two are of a block
\* with one scope in Go and two in the checker.
LEMMA SharedScope ==
    ASSUME ScopesInv, NamesAgree, blocks # <<>>, NEW n \in DOMAIN go.scopes[GoDepth],
           n \notin DOMAIN infer.scopes[InferDepth]
    PROVE  Reads(OneScope)
<1> DEFINE top == blocks[Len(blocks)]
           p == top.inferred
           q == top.generated
<1>1. Last(blocks) = top /\ Len(blocks) \in 1..Len(blocks)
      /\ InferDepth = p + Inferred(top.kind) /\ GoDepth = q + Generated(top.kind)
  BY TopBlock
<1>2. p \in Nat /\ q \in Nat /\ top.kind \in Kinds \cup {"else"}
  BY <1>1, BlockStarts
<1>3. Agrees(top, infer.scopes, go.scopes)
  BY <1>1 DEF NamesAgree
<1> HIDE DEF top, p, q
<1>4. CASE top.kind = "block"
  <2>1. Inferred("block") = 1 /\ Generated("block") = 1
    BY DEF Inferred, Generated
  <2>2. Span(go.scopes, top.generated, 1) \subseteq Span(infer.scopes, top.inferred, 1)
    BY <1>3, <1>4, <2>1 DEF Agrees
  <2>3. DOMAIN go.scopes[q + 1] \subseteq DOMAIN infer.scopes[p + 1]
    <3>1. Span(go.scopes, q, 1) = DOMAIN go.scopes[q + 1] /\ Span(infer.scopes, p, 1) = DOMAIN infer.scopes[p + 1]
      BY <1>2, SpanOf
    <3> QED BY <2>2, <3>1 DEF p, q
  <2> QED BY <1>1, <1>4, <2>1, <2>3
<1>5. CASE Generated(top.kind) = 2
  <2>1. DOMAIN infer.scopes[top.inferred + 2] = DOMAIN go.scopes[top.generated + 2]
    BY <1>3, <1>5 DEF Agrees
  <2>2. top.kind # "block" /\ Inferred(top.kind) = 2
    BY <1>5 DEF Generated, Inferred
  <2> QED BY <1>1, <1>5, <2>1, <2>2 DEF p, q
<1>6. CASE top.kind # "block" /\ Generated(top.kind) # 2
  <2>1. top.kind \in OneScope
    BY <1>2, <1>6 DEF Kinds, Generated, OneScope
  <2> QED BY <1>1, <2>1 DEF Reads
<1> QED BY <1>4, <1>5, <1>6

\* What Go refuses of names it takes for new though its scope has them.
LEMMA DeclaredGap ==
    ASSUME ScopesInv, Agree, Clean, blocks # <<>>, blocks' = blocks, NEW refusal \in go'.refused,
           refusal.kind = "redeclared", refusal.name \notin DOMAIN infer.scopes[InferDepth]
    PROVE  KnownGap(refusal)
<1>1. NamesAgree
  BY DEF Agree
<1>2. Last(go.scopes) = go.scopes[GoDepth] /\ Last(infer.scopes) = infer.scopes[InferDepth]
  BY Stacks DEF Last
<1>3. CASE refusal.name \notin DOMAIN go.scopes[GoDepth]
  BY <1>2, <1>3, GapKinds, StillSeen
<1>4. CASE refusal.name \in DOMAIN go.scopes[GoDepth]
  <2>1. Reads(OneScope)
    BY <1>1, <1>4, SharedScope
  <2>2. SharesTheScope
    BY <1>2, <1>4, <2>1 DEF SharesTheScope
  <2> QED BY <2>2, GapKinds
<1> QED BY <1>3, <1>4

\* A declaration: the names of D are new to the checker.
LEMMA NewGaps ==
    ASSUME ScopesInv, Agree, Clean, blocks # <<>>, blocks' = blocks, NEW N, NEW D, NEW e,
           go' \in MixedAt(GoDepth, go, N, D, e), D \cap DOMAIN infer.scopes[InferDepth] \subseteq {"_"}
    PROVE  \A refusal \in go'.refused : KnownGap(refusal)
<1> SUFFICES ASSUME NEW refusal \in go'.refused PROVE KnownGap(refusal)
  OBVIOUS
<1>1. go.refused = {}
  BY DEF Clean
<1>2. refusal.kind = "constant" \/ (refusal.kind = "redeclared" /\ refusal.name \in D)
  BY <1>1 DEF MixedAt
<1>3. CASE refusal.kind = "constant"
  BY <1>3, GapKinds
<1>4. CASE refusal.kind = "redeclared" /\ refusal.name = "_"
  BY <1>4, GapKinds
<1>5. CASE refusal.kind = "redeclared" /\ refusal.name # "_" /\ refusal.name \in D
  BY <1>5, DeclaredGap
<1> QED BY <1>2, <1>3, <1>4, <1>5

\* A short declaration of two names, which the checker accepts.
LEMMA ShortGaps ==
    ASSUME ScopesInv, Agree, Clean, blocks # <<>>, blocks' = blocks, NEW list \in Seq(Idents), Len(list) = 2,
           InsertShortDeclVars(infer, list).errors = <<>>, go' = GoShort(go, list, Var)
    PROVE  \A refusal \in go'.refused : KnownGap(refusal)
<1>1. infer \in Checkers(InferDepth) /\ go \in Compilers(GoDepth) /\ go.refused = {} /\ NamesAgree
  BY Readers DEF Clean, Agree
<1>2. InferDepth \in Nat \ {0} /\ GoDepth \in Nat \ {0}
  BY Depths
<1>3. Last(go.scopes) = go.scopes[GoDepth] /\ Last(infer.scopes) = infer.scopes[InferDepth]
  BY Stacks DEF Last
<1>4. Listed(list) = {} \/ ~ (Listed(list) \subseteq DOMAIN infer.scopes[InferDepth])
  BY <1>1, <1>2, ShortDeclares
<1>5. CASE InList(list) \subseteq DOMAIN go.scopes[GoDepth] \cup {"_"}
  <2>1. go' = Refuse(go, "redeclared", InList(list))
    BY <1>3, <1>5 DEF GoShort
  <2>2. go'.refused = {[kind |-> "redeclared", name |-> n] : n \in InList(list)}
    BY <1>1, <2>1 DEF Refuse, Compilers
  <2>3. SUFFICES ASSUME NEW n \in InList(list) PROVE KnownGap([kind |-> "redeclared", name |-> n])
    BY <2>2
  <2> DEFINE refusal == [kind |-> "redeclared", name |-> n]
  <2>4. refusal \in go'.refused /\ refusal.kind = "redeclared" /\ refusal.name = n
    BY <2>2
  <2> HIDE DEF refusal
  <2>5. CASE Listed(list) = {}
    <3>1. n = "_"
      BY <2>5 DEF Listed
    <3> QED BY <2>4, <3>1, GapKinds DEF refusal
  <2>6. CASE ~ (Listed(list) \subseteq DOMAIN infer.scopes[InferDepth])
    <3>1. PICK m \in InList(list) : m # "_" /\ m \notin DOMAIN infer.scopes[InferDepth]
      BY <2>6 DEF Listed
    <3>2. m \in DOMAIN go.scopes[GoDepth]
      BY <1>5, <3>1
    <3>3. Reads(OneScope)
      BY <1>1, <3>1, <3>2, SharedScope
    <3>4. [kind |-> "redeclared", name |-> m] \in go'.refused
      BY <2>2
    <3>5. SharesTheScope
      BY <1>3, <3>1, <3>2, <3>3, <3>4 DEF SharesTheScope
    <3> QED BY <2>4, <3>5, GapKinds DEF refusal
  <2> QED BY <1>4, <2>5, <2>6
<1>6. CASE ~ (InList(list) \subseteq DOMAIN go.scopes[GoDepth] \cup {"_"})
  <2> DEFINE D == Repeated(list)
  <2>1. go' \in MixedAt(GoDepth, go, Listed(list), D, Var)
    BY <1>1, <1>2, <1>6, MadeEntries, ShortMixes
  <2>2. ASSUME NEW n \in D PROVE n \notin DOMAIN go.scopes[GoDepth]
    <3>1. n = list[1] /\ list[1] = list[2]
      <4>1. DOMAIN list = 1..2
        OBVIOUS
      <4>2. PICK i \in 1..2 : n = list[i] /\ \E j \in 1..(i - 1) : list[j] = list[i]
        BY <2>2, <4>1 DEF Repeated
      <4>3. PICK j \in 1..(i - 1) : list[j] = list[i]
        BY <4>2
      <4>4. i = 2 /\ j = 1
        OBVIOUS
      <4> QED BY <4>2, <4>3, <4>4
    <3>2. InList(list) = {n}
      <4>1. 1..Len(list) = {1, 2}
        OBVIOUS
      <4> QED BY <3>1, <4>1 DEF InList
    <3> QED BY <1>6, <3>2
  <2> HIDE DEF D
  <2> SUFFICES ASSUME NEW refusal \in go'.refused PROVE KnownGap(refusal)
    OBVIOUS
  <2>3. refusal.kind = "constant" \/ (refusal.kind = "redeclared" /\ refusal.name \in D)
    BY <1>1, <2>1 DEF MixedAt
  <2>4. CASE refusal.kind = "constant"
    BY <2>4, GapKinds
  <2>5. CASE refusal.kind = "redeclared" /\ refusal.name \in D
    BY <1>3, <2>2, <2>5, GapKinds, StillSeen
  <2> QED BY <2>3, <2>4, <2>5
<1> QED BY <1>5, <1>6

\* What Go refuses of a statement that the checker accepts.
LEMMA StatementGaps ==
    ASSUME ScopesInv, Agree, infer'.errors = <<>>,
           Use \/ Decl \/ VarDecl \/ MultiDecl \/ ConstDecl \/ Assign \/ Reassign \/ IncDec \/ TryDecl
    PROVE  \A refusal \in go'.refused : KnownGap(refusal)
<1>1. blocks # <<>> /\ Clean
  BY DEF Use, Decl, VarDecl, MultiDecl, ConstDecl, Assign, Reassign, IncDec, TryDecl, InFunction, Reading, Clean
<1>2. infer \in Checkers(InferDepth) /\ go \in Compilers(GoDepth) /\ infer.errors = <<>>
  BY <1>1, Readers DEF Clean
<1>3. InferDepth \in Nat \ {0} /\ GoDepth \in Nat \ {0}
  BY <1>1, Depths
<1>4. Lists \subseteq Seq(Idents) /\ Named \subseteq Seq(Idents)
  BY ListTypes
<1>5. ASSUME NEW list \in Seq(Idents), NEW D, NEW e, blocks' = blocks,
             Listed(list) \cap DOMAIN infer.scopes[InferDepth] = {}, D \subseteq InList(list),
             go' \in MixedAt(GoDepth, go, Listed(list), D, e)
      PROVE  \A refusal \in go'.refused : KnownGap(refusal)
  <2>1. D \cap DOMAIN infer.scopes[InferDepth] \subseteq {"_"}
    BY <1>5 DEF Listed
  <2> QED BY <1>1, <1>5, <2>1, NewGaps
<1>6. CASE Use \/ Assign \/ Reassign \/ IncDec
  <2>1. PICK list \in Seq(Idents) : \E inf, g, W : UsesAt(list, inf, g, W)
    BY <1>6, UseForm
  <2>2. PICK inf, g, W : UsesAt(list, inf, g, W)
    BY <2>1
  <2>3. inf.errors = <<>>
    BY <2>2 DEF UsesAt, Stmt
  <2> QED BY <1>1, <2>2, <2>3, UseGaps DEF UsesAt
<1>7. CASE Decl
  <2>1. PICK n \in Idents : \E variant \in BOOLEAN :
            Stmt(<<n>>, ErrNames, <<>>, InsertVar(infer, n),
                 IF variant THEN GoDeclare(go, n, Var) ELSE GoShort(go, <<n>>, Var))
    BY <1>7 DEF Decl
  <2>2. blocks' = blocks /\ infer' = InsertVar(infer, n)
        /\ (go' = GoDeclare(go, n, Var) \/ go' = GoShort(go, <<n>>, Var))
    BY <2>1 DEF Stmt
  <2>3. <<n>> \in Seq(Idents) /\ InList(<<n>>) = {n} /\ Listed(<<n>>) = {n} \ {"_"} /\ Repeated(<<n>>) = {}
    BY OneName
  <2>4. Listed(<<n>>) \cap DOMAIN infer.scopes[InferDepth] = {}
    BY <1>2, <1>3, <2>2, InsertDeclares DEF AsDeclared
  <2> DEFINE D == {n}
  <2>5. GoDeclare(go, n, Var) \in MixedAt(GoDepth, go, {n} \ {"_"}, D, Var)
    BY <1>2, <1>3, MadeEntries, DeclareMixes
  <2>6. GoShort(go, <<n>>, Var) \in MixedAt(GoDepth, go, Listed(<<n>>), D, Var)
    <3>1. IF InList(<<n>>) \subseteq DOMAIN go.scopes[GoDepth] \cup {"_"}
          THEN InList(<<n>>) \subseteq D ELSE Repeated(<<n>>) \subseteq D
      BY <2>3
    <3> HIDE DEF D
    <3> QED BY <1>2, <1>3, <2>3, <3>1, MadeEntries, ShortMixes
  <2>7. D \subseteq InList(<<n>>)
    BY <2>3
  <2>8. go' \in MixedAt(GoDepth, go, Listed(<<n>>), D, Var)
    BY <2>2, <2>3, <2>5, <2>6
  <2> HIDE DEF D
  <2> QED BY <1>5, <2>2, <2>3, <2>4, <2>7, <2>8
<1>8. CASE VarDecl
  <2>1. PICK list \in Named : Stmt(list, ErrNames, <<>>, Each(InsertVar, infer, list), GoDeclareAll(go, list, Var))
    BY <1>8 DEF VarDecl
  <2>2. list \in Seq(Idents)
    BY <1>4
  <2>3. blocks' = blocks /\ infer' = Each(InsertVar, infer, list) /\ go' = GoDeclareAll(go, list, Var)
    BY <2>1 DEF Stmt
  <2>4. Listed(list) \cap DOMAIN infer.scopes[InferDepth] = {} /\ Repeated(list) = {}
    BY <1>2, <1>3, <2>2, <2>3, InsertsDeclare DEF AsDeclared
  <2> DEFINE D == Repeated(list) \cup (DOMAIN go.scopes[GoDepth] \cap Listed(list))
  <2>5. go' \in MixedAt(GoDepth, go, Listed(list), D, Var)
    BY <1>2, <1>3, <2>2, <2>3, MadeEntries, ListMixes
  <2>6. D \subseteq InList(list)
    BY <2>4 DEF Listed
  <2> HIDE DEF D
  <2> QED BY <1>5, <2>2, <2>3, <2>4, <2>5, <2>6
<1>9. CASE MultiDecl
  <2>1. PICK list \in Lists :
            Len(list) = 2 /\ Stmt(list, ErrNames, <<>>, InsertShortDeclVars(infer, list), GoShort(go, list, Var))
    BY <1>9 DEF MultiDecl
  <2>2. list \in Seq(Idents)
    BY <1>4
  <2>3. blocks' = blocks /\ infer' = InsertShortDeclVars(infer, list) /\ go' = GoShort(go, list, Var)
    BY <2>1 DEF Stmt
  <2>4. InsertShortDeclVars(infer, list).errors = <<>>
    BY <2>3
  <2> QED BY <1>1, <2>1, <2>2, <2>3, <2>4, ShortGaps
<1>10. CASE ConstDecl
  <2>1. PICK list \in Named : \E literal \in BOOLEAN :
            Stmt(list, ErrNames, <<>>, Each(InsertConst, infer, list),
                 IF literal THEN GoDeclareAll(go, list, GoEntry("const"))
                 ELSE GoShort(go, list, [Var EXCEPT !.fixed = TRUE]))
    BY <1>10 DEF ConstDecl
  <2> DEFINE fixed == [Var EXCEPT !.fixed = TRUE]
             D == Repeated(list) \cup (DOMAIN go.scopes[GoDepth] \cap Listed(list))
  <2>2. list \in Seq(Idents)
    BY <1>4
  <2>3. blocks' = blocks /\ infer' = Each(InsertConst, infer, list)
        /\ (go' = GoDeclareAll(go, list, GoEntry("const")) \/ go' = GoShort(go, list, fixed))
    BY <2>1 DEF Stmt
  <2>4. Listed(list) \cap DOMAIN infer.scopes[InferDepth] = {} /\ Repeated(list) = {}
    BY <1>2, <1>3, <2>2, <2>3, InsertsDeclare DEF AsDeclared
  <2>5. fixed \in GoEntries
    BY MadeEntries
  <2> HIDE DEF fixed
  <2>6. GoDeclareAll(go, list, GoEntry("const")) \in MixedAt(GoDepth, go, Listed(list), D, GoEntry("const"))
    BY <1>2, <1>3, <2>2, MadeEntries, ListMixes
  <2>7. GoShort(go, list, fixed) \in MixedAt(GoDepth, go, Listed(list), InList(list), fixed)
    <3>1. IF InList(list) \subseteq DOMAIN go.scopes[GoDepth] \cup {"_"}
          THEN InList(list) \subseteq InList(list) ELSE Repeated(list) \subseteq InList(list)
      BY <2>4
    <3> QED BY <1>2, <1>3, <2>2, <2>5, <3>1, ShortMixes
  <2>8. D \subseteq InList(list) /\ InList(list) \subseteq InList(list)
    BY <2>4 DEF Listed
  <2> HIDE DEF D
  <2>9. CASE go' = GoDeclareAll(go, list, GoEntry("const"))
    BY <1>5, <2>2, <2>3, <2>4, <2>6, <2>8, <2>9
  <2>10. CASE go' = GoShort(go, list, fixed)
    BY <1>5, <2>2, <2>3, <2>4, <2>7, <2>8, <2>10
  <2> QED BY <2>3, <2>9, <2>10
<1>11. CASE TryDecl
  <2>1. PICK list \in Lists : Stmt(list, ErrNames, <<>>, Each(InsertVar, infer, list), GoMix(go, list, Var))
    BY <1>11 DEF TryDecl
  <2>2. list \in Seq(Idents)
    BY <1>4
  <2>3. blocks' = blocks /\ infer' = Each(InsertVar, infer, list) /\ go' = GoMix(go, list, Var)
    BY <2>1 DEF Stmt
  <2>4. Listed(list) \cap DOMAIN infer.scopes[InferDepth] = {} /\ Repeated(list) = {}
    BY <1>2, <1>3, <2>2, <2>3, InsertsDeclare DEF AsDeclared
  <2>5. go' \in MixedAt(GoDepth, go, Listed(list), Repeated(list), Var)
    BY <1>2, <1>3, <2>2, <2>3, MadeEntries, ListMixes
  <2>6. Repeated(list) \subseteq InList(list)
    BY <2>4
  <2> QED BY <1>5, <2>2, <2>3, <2>4, <2>5, <2>6
<1> QED BY <1>6, <1>7, <1>8, <1>9, <1>10, <1>11

\* A block that opens: its header declares no name twice, or is one in which that is known.
LEMMA HeaderGaps ==
    ASSUME ScopesInv, go.refused = {}, NEW kind, NEW unlisted,
           Len(blocks') > Len(blocks), Last(blocks') = Opened(kind, unlisted),
           NEW k, NEW N, NEW D, NEW e, NEW h \in MixedAt(k, GoOpen(go), N, D, e), go'.refused = h.refused,
           D \subseteq {"_"} \/ kind \in {"func", "closure", "if", "for"}
    PROVE  \A refusal \in go'.refused : KnownGap(refusal)
<1>1. GoOpen(go).refused = {}
  BY Readers DEF GoOpen, Compilers
<1> SUFFICES ASSUME NEW refusal \in go'.refused PROVE KnownGap(refusal)
  OBVIOUS
<1>2. refusal.kind = "constant" \/ (refusal.kind = "redeclared" /\ refusal.name \in D)
  BY <1>1 DEF MixedAt
<1>3. CASE refusal.kind = "constant"
  BY <1>3, GapKinds
<1>4. CASE refusal.kind = "redeclared" /\ refusal.name \in D
  <2>1. CASE D \subseteq {"_"}
    BY <1>4, <2>1, GapKinds
  <2>2. CASE kind \in {"func", "closure", "if", "for"}
    <3>1. Opened(kind, unlisted).kind = kind
      BY DEF Opened
    <3>2. Opens({"func", "closure", "if", "for"})
      BY <2>2, <3>1 DEF Opens
    <3> QED BY <1>4, <3>2, GapKinds
  <2> QED BY <2>1, <2>2
<1> QED BY <1>2, <1>3, <1>4

\* One more block.
LEMMA BlockOpens ==
    ASSUME ScopesInv, NEW block, blocks' = Append(blocks, block)
    PROVE  Len(blocks') > Len(blocks) /\ Last(blocks') = block
<1>1. blocks \in Seq(BlockTypes) /\ Len(blocks) \in Nat
  BY Depths DEF ScopesInv, BlocksNest
<1>2. Len(blocks') = Len(blocks) + 1 /\ blocks'[Len(blocks) + 1] = block
  BY <1>1
<1> QED BY <1>1, <1>2 DEF Last

\* The header of a block has been read.
LEMMA EnteredGaps ==
    ASSUME ScopesInv, Clean, NEW kind, NEW unlisted, NEW inf, NEW errs, NEW header, NEW g,
           Enter(kind, unlisted, inf, lint, errs, header, g),
           NEW k, NEW N, NEW D, NEW e, NEW h \in MixedAt(k, GoOpen(go), N, D, e), g.refused = h.refused,
           D \subseteq {"_"} \/ kind \in {"closure", "if", "for"}
    PROVE  \A refusal \in go'.refused : KnownGap(refusal)
<1>1. blocks' = Append(blocks, Opened(kind, unlisted)) /\ go' = g
  BY DEF Enter
<1>2. Len(blocks') > Len(blocks) /\ Last(blocks') = Opened(kind, unlisted)
  BY <1>1, BlockOpens
<1>3. go.refused = {}
  BY DEF Clean
<1> QED BY <1>1, <1>2, <1>3, HeaderGaps

\* An accepted header declares each name once.
LEMMA PushedOnce ==
    ASSUME ScopesInv, Clean, NEW list \in Seq(Idents)
    PROVE  /\ Each(InsertVar, PushScope(infer), list).errors = <<>> => Repeated(list) = {}
           /\ InsertUntilError(PushScope(infer), list).errors = <<>> => Repeated(list) = {}
<1> DEFINE k == InferDepth + 1
<1>1. infer \in Checkers(InferDepth) /\ infer.errors = <<>> /\ InferDepth \in Nat \ {0} /\ k \in Nat \ {0}
  <2>1. infer \in Checkers(InferDepth) /\ infer.errors = <<>>
    BY Readers DEF Clean
  <2>2. InferDepth \in Nat \ {0}
    BY Depths
  <2> QED BY <2>1, <2>2
<1> DEFINE inf == PushScope(infer)
<1>2. inf \in Checkers(k) /\ inf.errors = <<>>
  <2>1. InferDepth \in Nat
    BY <1>1
  <2>2. inf.errors = <<>>
    BY <1>1 DEF PushScope, Checkers
  <2> QED BY <1>1, <2>1, <2>2, CheckerMoves
<1> HIDE DEF inf, k
<1>3. /\ AsDeclared(k, inf, list, Entry(TRUE), Each(InsertVar, inf, list))
      /\ AsDeclared(k, inf, list, Entry(TRUE), InsertUntilError(inf, list))
  BY <1>1, <1>2, InsertsDeclare
<1> QED BY <1>3 DEF AsDeclared, inf

\* What Go refuses of a header that the checker accepts.
LEMMA BeginGaps ==
    ASSUME ScopesInv, infer'.errors = <<>>,
           BeginIf \/ BeginRange \/ BeginArm \/ BeginCase \/ BeginHandler \/ BeginClosure
    PROVE  \A refusal \in go'.refused : KnownGap(refusal)
<1>1. Clean
  BY DEF BeginIf, BeginRange, BeginArm, BeginCase, BeginHandler, BeginClosure, InFunction, Reading, Clean
<1>2. Lists \subseteq Seq(Idents) /\ Named \subseteq Seq(Idents) /\ Maybe \subseteq Seq(Idents)
  BY ListTypes
<1> DEFINE k == GoDepth + 1
<1>3. k = GoDepth + 1
  OBVIOUS
<1> HIDE DEF k
<1>4. ASSUME NEW inf, NEW kind, NEW unlisted, NEW errs, NEW header, NEW g,
             Enter(kind, unlisted, inf, lint, errs, header, g)
      PROVE  inf.errors = <<>>
  <2>1. infer' = PushScope(inf)
    BY <1>4 DEF Enter
  <2>2. PushScope(inf).errors = inf.errors
    BY DEF PushScope
  <2> QED BY <2>1, <2>2
<1>5. CASE BeginIf
  <2>1. PICK kind \in {"if", "for"}, list \in Lists :
            Enter(kind, {}, IF Len(list) = 1 THEN InsertVar(PushScope(infer), list[1])
                                             ELSE InsertShortDeclVars(PushScope(infer), list),
                  lint, ErrNames, list, GoOpen(GoShort(GoOpen(go), list, Var)))
    BY <1>5 DEF BeginIf
  <2>2. list \in Seq(Idents)
    BY <1>2
  <2> DEFINE inf == IF Len(list) = 1 THEN InsertVar(PushScope(infer), list[1])
                                     ELSE InsertShortDeclVars(PushScope(infer), list)
             h == GoShort(GoOpen(go), list, Var)
             g == GoOpen(h)
             D == Repeated(list) \cup {"_"}
  <2>3. h \in MixedAt(k, GoOpen(go), Listed(list), D, Var)
    BY <1>3, <2>2, OpenedDeclares
  <2>4. Enter(kind, {}, inf, lint, ErrNames, list, g) /\ kind \in {"closure", "if", "for"} /\ g.refused = h.refused
    BY <2>1, <2>3 DEF GoOpen, MixedAt, Compilers
  <2> HIDE DEF inf, h, g, D
  <2> QED BY <1>1, <2>3, <2>4, EnteredGaps
<1>6. CASE BeginRange
  <2>1. PICK list \in Lists :
            Enter("range", {}, Each(InsertVar, PushScope(infer), list), lint, ErrNames, list,
                  GoOpen(GoShort(GoOpen(go), list, Var)))
    BY <1>6 DEF BeginRange
  <2>2. list \in Seq(Idents)
    BY <1>2
  <2> DEFINE inf == Each(InsertVar, PushScope(infer), list)
             h == GoShort(GoOpen(go), list, Var)
             g == GoOpen(h)
             D == Repeated(list) \cup {"_"}
  <2>3. h \in MixedAt(k, GoOpen(go), Listed(list), D, Var)
    BY <1>3, <2>2, OpenedDeclares
  <2>4. Enter("range", {}, inf, lint, ErrNames, list, g) /\ g.refused = h.refused
    BY <2>1, <2>3 DEF GoOpen, MixedAt, Compilers
  <2>5. D \subseteq {"_"}
    <3>1. inf.errors = <<>>
      BY <1>4, <2>4
    <3> QED BY <1>1, <2>2, <3>1, PushedOnce
  <2> HIDE DEF inf, h, g, D
  <2> QED BY <1>1, <2>3, <2>4, <2>5, EnteredGaps
<1>7. CASE BeginArm
  <2>1. PICK list \in Named, several \in BOOLEAN, struct \in BOOLEAN :
            Enter("arm", {}, IF several THEN Each(InsertVar, PushScope(infer), list)
                                        ELSE InsertUntilError(PushScope(infer), list),
                  lint, ErrNames, list, IF several /\ ~ struct THEN GoOpen(go) ELSE GoBindings(GoOpen(go), list))
    BY <1>7 DEF BeginArm
  <2>2. list \in Seq(Idents) /\ "_" \notin InList(list)
    BY <1>2 DEF Named
  <2> DEFINE inf == IF several THEN Each(InsertVar, PushScope(infer), list)
                               ELSE InsertUntilError(PushScope(infer), list)
             h == IF several /\ ~ struct THEN GoOpen(go) ELSE GoBindings(GoOpen(go), list)
             N == IF several /\ ~ struct THEN {} ELSE Listed(list)
             D == IF several /\ ~ struct THEN {} ELSE Repeated(list)
  <2>3. h \in MixedAt(k, GoOpen(go), N, D, Var)
    <3>1. /\ GoBindings(GoOpen(go), list) \in MixedAt(k, GoOpen(go), Listed(list), Repeated(list), Var)
          /\ GoOpen(go) \in MixedAt(k, GoOpen(go), {}, {}, Var)
      BY <1>3, <2>2, OpenedDeclares
    <3> QED BY <3>1
  <2>4. Enter("arm", {}, inf, lint, ErrNames, list, h)
    BY <2>1
  <2>5. D \subseteq {"_"}
    <3>1. inf.errors = <<>>
      BY <1>4, <2>4
    <3> QED BY <1>1, <2>2, <3>1, PushedOnce
  <2> HIDE DEF inf, h, N, D
  <2> QED BY <1>1, <2>3, <2>4, <2>5, EnteredGaps
<1>8. CASE BeginCase
  <2>1. PICK list \in Lists :
            Enter("case", {}, Each(InsertVar, PushScope(infer), list), lint,
                  IF Len(list) = 1 THEN ErrNames ELSE ErrNames \ {list[2]}, list, GoShort(GoOpen(go), list, Var))
    BY <1>8 DEF BeginCase
  <2>2. list \in Seq(Idents)
    BY <1>2
  <2> DEFINE inf == Each(InsertVar, PushScope(infer), list)
             h == GoShort(GoOpen(go), list, Var)
             D == Repeated(list) \cup {"_"}
             errs == IF Len(list) = 1 THEN ErrNames ELSE ErrNames \ {list[2]}
  <2>3. h \in MixedAt(k, GoOpen(go), Listed(list), D, Var)
    BY <1>3, <2>2, OpenedDeclares
  <2>4. Enter("case", {}, inf, lint, errs, list, h)
    BY <2>1
  <2>5. D \subseteq {"_"}
    <3>1. inf.errors = <<>>
      BY <1>4, <2>4
    <3> QED BY <1>1, <2>2, <3>1, PushedOnce
  <2> HIDE DEF inf, h, D, errs
  <2> QED BY <1>1, <2>3, <2>4, <2>5, EnteredGaps
<1>9. CASE BeginHandler
  <2>1. PICK list \in {<<>>} \cup {<<n>> : n \in Names} :
            Enter("handler", {}, Each(InsertVar, PushScope(infer), list), lint, Names, list,
                  GoDeclareAll(GoOpen(go), list, Var))
    BY <1>9 DEF BeginHandler
  <2>2. list \in Seq(Idents)
    <3>1. CASE list = <<>>
      BY <3>1
    <3>2. ASSUME NEW n \in Names, list = <<n>>
          PROVE  list \in Seq(Idents)
      BY <3>2, OneName DEF Names
    <3> QED BY <2>1, <3>1, <3>2
  <2> DEFINE inf == Each(InsertVar, PushScope(infer), list)
             h == GoDeclareAll(GoOpen(go), list, Var)
             D == Repeated(list)
  <2>3. h \in MixedAt(k, GoOpen(go), Listed(list), D, Var)
    BY <1>3, <2>2, MadeEntries, OpenedDeclares
  <2>4. Enter("handler", {}, inf, lint, Names, list, h)
    BY <2>1
  <2>5. D \subseteq {"_"}
    <3>1. inf.errors = <<>>
      BY <1>4, <2>4
    <3> QED BY <1>1, <2>2, <3>1, PushedOnce
  <2> HIDE DEF inf, h, D
  <2> QED BY <1>1, <2>3, <2>4, <2>5, EnteredGaps
<1>10. CASE BeginClosure
  <2>1. PICK params \in Maybe, results \in Maybe :
            Enter("closure", InList(results), Each(InsertVar, PushScope(infer), params), lint, ErrNames, params,
                  GoDeclareAll(GoOpen(go), params \o results, Parameter))
    BY <1>10 DEF BeginClosure
  <2> DEFINE inf == Each(InsertVar, PushScope(infer), params)
             all == params \o results
             h == GoDeclareAll(GoOpen(go), all, Parameter)
             D == Repeated(all)
  <2>2. all \in Seq(Idents)
    <3>1. params \in Seq(Idents) /\ results \in Seq(Idents)
      BY <1>2
    <3> QED BY <3>1
  <2>3. h \in MixedAt(k, GoOpen(go), Listed(all), D, Parameter)
    <3> HIDE DEF all
    <3> QED BY <1>3, <2>2, MadeEntries, OpenedDeclares
  <2>4. Enter("closure", InList(results), inf, lint, ErrNames, params, h) /\ "closure" \in {"closure", "if", "for"}
    BY <2>1
  <2> HIDE DEF inf, h, D, all
  <2> QED BY <1>1, <2>3, <2>4, EnteredGaps
<1> QED BY <1>5, <1>6, <1>7, <1>8, <1>9, <1>10

\* The header of a function.
LEMMA FuncGaps ==
    ASSUME ScopesInv, BeginFunc
    PROVE  \A refusal \in go'.refused : KnownGap(refusal)
<1>1. blocks = <<>> /\ go.refused = {}
  BY DEF BeginFunc, Reading
<1>2. PICK receiver \in Maybe, params \in Maybe, results \in Maybe :
          /\ go' = GoDeclareAll(GoOpen(go), receiver \o params \o results, Parameter)
          /\ blocks' = <<Opened("func", InList(receiver \o results))>>
  BY DEF BeginFunc
<1> DEFINE all == receiver \o params \o results
           k == GoDepth + 1
<1>3. all \in Seq(Idents)
  <2>1. receiver \in Seq(Idents) /\ params \in Seq(Idents) /\ results \in Seq(Idents)
    BY ListTypes
  <2> QED BY <2>1
<1>4. go' = GoDeclareAll(GoOpen(go), all, Parameter)
  BY <1>2
<1>5. k = GoDepth + 1
  OBVIOUS
<1> HIDE DEF all, k
<1>6. go' \in MixedAt(k, GoOpen(go), Listed(all), Repeated(all), Parameter)
  BY <1>3, <1>4, <1>5, MadeEntries, OpenedDeclares
<1>7. Len(blocks') > Len(blocks) /\ Last(blocks') = Opened("func", InList(receiver \o results))
  BY <1>1, <1>2 DEF Last
<1> QED BY <1>1, <1>6, <1>7, HeaderGaps

\* A block within a function that ends.
LEMMA ClosedGaps ==
    ASSUME ScopesInv, blocks # <<>>, go.refused = {}, Last(blocks).kind # "func",
           \/ go' = GoClose(go)
           \/ Generated(Last(blocks).kind) = 2 /\ (go' = GoOpen(GoClose(go)) \/ go' = GoClose(GoClose(go))),
           NEW refusal \in go'.refused
    PROVE  KnownGap(refusal)
<1>1. ~ Reads({"func"})
  BY DEF Reads
<1>2. GoDepth \in Nat \ {0} /\ go \in Compilers(GoDepth)
  BY Depths, Readers
<1>3. GoClose(go) \in Compilers(GoDepth - 1)
  <2>1. GoDepth \in Nat /\ GoDepth > 0
    BY <1>2
  <2> QED BY <1>2, <2>1, GoMoves
<1>4. \A x \in GoClose(go).refused : x.kind = "unused"
  <2> SUFFICES ASSUME NEW x \in GoClose(go).refused PROVE x.kind = "unused"
    OBVIOUS
  <2> QED BY <1>2, CloseRefuses
<1>5. refusal.kind = "unused"
  <2>1. CASE go' = GoClose(go)
    BY <1>4, <2>1
  <2>2. CASE go' = GoOpen(GoClose(go))
    <3>1. GoOpen(GoClose(go)).refused = GoClose(go).refused
      BY <1>3 DEF GoOpen, Compilers
    <3> QED BY <1>4, <2>2, <3>1
  <2>3. CASE Generated(Last(blocks).kind) = 2 /\ go' = GoClose(GoClose(go))
    <3>1. GoDepth - 1 \in Nat \ {0}
      <4>1. GoDepth = Last(blocks).generated + 2 /\ Last(blocks).generated \in Nat
        BY <2>3, Depths
      <4> QED BY <4>1
    <3>2. refusal \in GoClose(GoClose(go)).refused
      BY <2>3
    <3> DEFINE h == GoClose(go)
               j == GoDepth - 1
    <3>3. h \in Compilers(j) /\ j \in Nat \ {0} /\ refusal \in GoClose(h).refused
          /\ \A x \in h.refused : x.kind = "unused"
      BY <1>3, <1>4, <3>1, <3>2
    <3> HIDE DEF h, j
    <3> QED BY <3>3, CloseRefuses
  <2> QED BY <2>1, <2>2, <2>3
<1> QED BY <1>1, <1>5, GapKinds

\* A block that opens with no header.
LEMMA OpenGaps ==
    ASSUME ScopesInv, go.refused = {}, go' = GoOpen(go)
    PROVE  go'.refused = {}
BY Readers DEF GoOpen, Compilers

\* What Go refuses where a block opens without a header or ends.
LEMMA EndGaps ==
    ASSUME ScopesInv, BeginBlock \/ EndBlock \/ Else \/ EndIf \/ EndHandler \/ EndArm
    PROVE  \A refusal \in go'.refused : KnownGap(refusal)
<1>1. blocks # <<>> /\ go.refused = {}
  BY DEF BeginBlock, EndBlock, Else, EndIf, EndHandler, EndArm, Leave, Inside, InFunction, Reading
<1>2. CASE BeginBlock
  <2>1. go' = GoOpen(go)
    BY <1>2 DEF BeginBlock
  <2> QED BY <1>1, <2>1, OpenGaps
<1>3. CASE EndBlock \/ EndHandler \/ EndArm
  <2>1. go' = GoClose(go) /\ Last(blocks).kind # "func"
    BY <1>3 DEF EndBlock, EndHandler, EndArm, Leave, Inside
  <2> QED BY <1>1, <2>1, ClosedGaps
<1>4. CASE Else \/ EndIf
  <2>1. /\ go' = GoOpen(GoClose(go)) \/ go' = GoClose(GoClose(go))
        /\ Last(blocks).kind \in {"if", "else", "range"}
    BY <1>4 DEF Else, EndIf, Leave, Inside
  <2>2. Generated(Last(blocks).kind) = 2 /\ Last(blocks).kind # "func"
    BY <2>1 DEF Generated
  <2> QED BY <1>1, <2>1, <2>2, ClosedGaps
<1> QED BY <1>2, <1>3, <1>4

\* A function that ends: the checker has seen to what is unused in its own scope.
LEMMA FuncEndGaps ==
    ASSUME ScopesInv, Marks, EndFunc, infer'.errors = <<>>, NEW refusal \in go'.refused
    PROVE  KnownGap(refusal)
<1>1. blocks # <<>> /\ Clean /\ Last(blocks).kind = "func" /\ go' = GoClose(go)
      /\ infer' = PopScope(PopScope(CheckUnusedVars(infer)))
  BY DEF EndFunc, Leave, Inside, InFunction, Reading, Clean
<1>2. GoDepth \in Nat \ {0} /\ go \in Compilers(GoDepth) /\ infer \in Checkers(InferDepth) /\ go.refused = {}
  BY <1>1, Depths, Readers DEF Clean
<1> DEFINE n == refusal.name
<1>3. refusal.kind = "unused" /\ n \in DOMAIN go.scopes[GoDepth]
      /\ go.scopes[GoDepth][n].kind = "var" /\ ~ go.scopes[GoDepth][n].used
  BY <1>1, <1>2, CloseRefuses
<1>4. Last(go.scopes) = go.scopes[GoDepth] /\ Last(infer.scopes) = infer.scopes[InferDepth]
  BY Stacks DEF Last
<1>5. CASE go.scopes[GoDepth][n].assigned
  BY <1>3, <1>4, <1>5, GapKinds
<1>6. CASE ~ go.scopes[GoDepth][n].assigned
  <2>1. Pending(go.scopes[GoDepth][n])
    BY <1>3, <1>6 DEF Pending
  <2>2. Marked(Last(blocks), infer.scopes, go.scopes)
    BY <1>1, TopBlock DEF Marks, NamesMarked
  <2>3. InferDepth = Last(blocks).inferred + Inferred(Last(blocks).kind)
        /\ GoDepth = Last(blocks).generated + Generated(Last(blocks).kind)
    BY <1>1, TopBlock
  <2> HIDE DEF n
  <2>4. n \in DOMAIN infer.scopes[InferDepth] /\ ~ infer.scopes[InferDepth][n].used
    BY <1>1, <1>3, <2>1, <2>2, <2>3 DEF Marked
  <2>5. CheckUnusedVars(infer).errors # <<>>
    <3> DEFINE unused == {m \in DOMAIN Last(infer.scopes) : ~ Last(infer.scopes)[m].used}
    <3>1. unused # {}
      BY <1>4, <2>4
    <3>2. CheckUnusedVars(infer) = EmitError(infer, "UnusedVariable", unused)
      BY <3>1 DEF CheckUnusedVars
    <3>3. EmitError(infer, "UnusedVariable", unused).errors # <<>>
      <4> HIDE DEF unused
      <4> QED BY <1>2 DEF EmitError, Checkers
    <3> QED BY <3>2, <3>3
  <2>6. infer'.errors = CheckUnusedVars(infer).errors
    BY <1>1 DEF PopScope
  <2> QED BY <2>5, <2>6
<1> QED BY <1>5, <1>6

\* A function that is left early is not accepted.
LEMMA EarlyRejects ==
    ASSUME LeaveEarly
    PROVE  infer'.errors # <<>>
<1>1. infer.errors = <<>>
  BY DEF LeaveEarly, Reading
<1>2. infer'.errors # infer.errors
  BY DEF LeaveEarly
<1> QED BY <1>1, <1>2

\* A loop that ends.
LEMMA PostGaps ==
    ASSUME ScopesInv, Agree, EndFor, infer'.errors = <<>>, NEW refusal \in go'.refused
    PROVE  KnownGap(refusal)
<1>1. blocks # <<>> /\ Clean /\ Last(blocks).kind = "for"
  BY DEF EndFor, Leave, Inside, InFunction, Reading, Clean
<1>2. ~ Reads({"func"})
  BY <1>1 DEF Reads
<1>3. go.refused = {} /\ go \in Compilers(GoDepth) /\ GoDepth \in Nat \ {0}
  BY <1>1, Readers, Depths DEF Clean
<1>4. PICK post \in Seq(Idents), n1 \in Nat \ {0}, m1 \in Nat \ {0} :
          \E inf, g : EndsLoop(post, n1, m1, inf, g)
  BY PostForm
<1>5. PICK inf, g : EndsLoop(post, n1, m1, inf, g)
  BY <1>4
<1> DEFINE s == But(infer.scopes, 1)
           t == But(go.scopes, 1)
<1>6. /\ PopScope(infer).scopes = s /\ GoClose(go).scopes = t /\ Seen(infer.scopes) = s
      /\ left = 0 /\ DOMAIN s[1] = {} /\ Len(s) \in 0..InferDepth /\ Len(t) \in 0..GoDepth
      /\ \A b \in 1..Len(blocks) : Faces(b, s, t)
  BY HeaderSeen
<1>7. /\ inf \in LookedAt(n1, PopScope(infer), Listed(post), InList(post))
      /\ g \in TouchedAt(m1, GoClose(go), Listed(post)) /\ go' = GoClose(g) /\ inf.errors = infer'.errors
  BY <1>5 DEF EndsLoop
<1> HIDE DEF s, t
<1>8. CASE refusal.kind = "unused"
  BY <1>2, <1>8, GapKinds
<1>9. CASE refusal.kind # "unused"
  <2>1. refusal \in g.refused
    <3>1. g \in Compilers(m1)
      BY <1>7 DEF TouchedAt
    <3> QED BY <1>7, <1>9, <3>1, CloseRefuses
  <2>2. refusal \notin GoClose(go).refused
    BY <1>3, <1>9, CloseRefuses
  <2>3. Unassignable(t, Listed(post), refusal)
    BY <1>6, <1>7, <2>1, <2>2 DEF TouchedAt
  <2>4. CASE refusal.kind = "constant"
    BY <2>4, GapKinds
  <2>5. CASE refusal.kind # "constant"
    <3>1. refusal.kind = "undefined" /\ refusal.name \in Listed(post) /\ Home(t, refusal.name) = 0
      BY <2>3, <2>5 DEF Unassignable
    <3>2. Home(s, refusal.name) # 0
      BY <1>6, <1>7, <3>1 DEF LookedAt
    <3>3. blocks[BlockInferred(Home(s, refusal.name))].kind = "arm"
      BY <1>6, <3>1, <3>2, UnknownIsArm
    <3> QED BY <1>6, <3>1, <3>3, GapKinds
  <2> QED BY <2>4, <2>5
<1> QED BY <1>8, <1>9

\* What the checker accepts compiles, or Go refuses it for one of the reasons listed.
THEOREM BodiesCompile == ScopesSpec => AcceptedBodiesCompile
<1>1. ScopesInv /\ Agree /\ Marks /\ [ScopesNext]_vars =>
        [infer'.errors = <<>> => \A refusal \in go'.refused : KnownGap(refusal)]_vars
  <2> SUFFICES ASSUME ScopesInv, Agree, Marks, ScopesNext, infer'.errors = <<>>
               PROVE  \A refusal \in go'.refused : KnownGap(refusal)
    OBVIOUS
  <2> QED BY FuncGaps, EarlyRejects, FuncEndGaps, StatementGaps, BeginGaps, EndGaps, PostGaps DEF ScopesNext
<1> QED BY <1>1, ScopesKept, NamesKept, MarksKept, PTL DEF ScopesSpec, AcceptedBodiesCompile
=============================================================================
