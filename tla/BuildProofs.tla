----------------------------- MODULE BuildProofs -----------------------------
(***************************************************************************)
(* Proofs about the sort of the dependency graph (DepGraph) and its two    *)
(* callers in src/build.rs, sop build (Compile) and the language server's  *)
(* check of a workspace (Workspace), for every project and whatever its    *)
(* files hold.                                                             *)
(*                                                                         *)
(* Of the sort: the types, the order handed out, the counters and the      *)
(* queue behind it, the implementation of DependencyOrder, which projects  *)
(* are rejected, and what find_cycle then reports.                         *)
(***************************************************************************)
EXTENDS Compile, Workspace, DepGraph, FiniteSetTheorems, TLAPS

-----------------------------------------------------------------------------
(* The sort.                                                               *)

\* The edges are the project's, once they are built.
EdgesAreBuilt ==
    IF phase \in {"build", "failed"}
    THEN edges = [f \in Files |-> {}]
    ELSE edges = [f \in Files |-> IF f \in Sources THEN EdgesOf(project, f) ELSE {}]

\* Every dependency of a file handed out was handed out before it.
OrderRespectsEdges ==
    \A j \in DOMAIN result : \A e \in edges[result[j]] :
        e[2] \in Sources => \E i \in 1..(j - 1) : result[i] = e[2]

\* Nothing is handed out before the sort starts, nothing waits after it, and
\* the length test told the two outcomes apart.
PhasesAgree ==
    /\ phase \in {"build", "failed", "count"} => result = <<>> /\ queue = <<>>
    /\ phase \in {"sorted", "search", "cycle"} => queue = <<>>
    /\ phase = "sorted" => Len(result) = Cardinality(Sources)
    /\ phase \in {"search", "cycle"} => Len(result) # Cardinality(Sources)
    /\ phase = "search" => path # <<>>

SortInv ==
    /\ TypeOK
    /\ EdgesAreBuilt
    /\ PhasesAgree
    /\ DegreesAreExact
    /\ QueueIsReady
    /\ OrderRespectsEdges

-----------------------------------------------------------------------------
(* Ranges and repetitions of sequences.                                    *)

\* A sequence's range is what its positions hold, and stays in its element set.
LEMMA RangeOfSeq ==
    ASSUME NEW S, NEW s \in Seq(S)
    PROVE  Range(s) = {s[i] : i \in 1..Len(s)} /\ Range(s) \subseteq S
  BY DEF Range

\* Appending adds exactly the appended element to the range.
LEMMA RangeAppend ==
    ASSUME NEW S, NEW s \in Seq(S), NEW x \in S
    PROVE  Range(Append(s, x)) = Range(s) \cup {x}
<1>1. Append(s, x) \in Seq(S) /\ Len(Append(s, x)) = Len(s) + 1
  OBVIOUS
<1>2. Range(Append(s, x)) \subseteq Range(s) \cup {x}
  BY <1>1 DEF Range
<1>3. ASSUME NEW y \in Range(s) PROVE y \in Range(Append(s, x))
  <2>1. PICK i \in 1..Len(s) : y = s[i]
    BY RangeOfSeq
  <2>2. Append(s, x)[i] = y /\ i \in DOMAIN Append(s, x)
    BY <2>1, <1>1
  <2> QED BY <2>2 DEF Range
<1>4. Append(s, x)[Len(s) + 1] = x /\ Len(s) + 1 \in DOMAIN Append(s, x)
  BY <1>1
<1>5. x \in Range(Append(s, x))
  BY <1>4 DEF Range
<1> QED BY <1>2, <1>3, <1>5

\* The range of a concatenation is the union of the ranges.
LEMMA RangeConcat ==
    ASSUME NEW S, NEW s \in Seq(S), NEW t \in Seq(S)
    PROVE  Range(s \o t) = Range(s) \cup Range(t)
<1>1. s \o t \in Seq(S) /\ Len(s \o t) = Len(s) + Len(t)
  OBVIOUS
<1>2. ASSUME NEW y \in Range(s \o t) PROVE y \in Range(s) \cup Range(t)
  <2>1. PICK i \in 1..Len(s \o t) : y = (s \o t)[i]
    BY <1>1, RangeOfSeq
  <2>2. CASE i <= Len(s)
    <3>1. (s \o t)[i] = s[i] /\ i \in 1..Len(s)
      BY <1>1, <2>1, <2>2
    <3> QED BY <2>1, <3>1, RangeOfSeq
  <2>3. CASE i > Len(s)
    <3>1. (s \o t)[i] = t[i - Len(s)] /\ i - Len(s) \in 1..Len(t)
      BY <1>1, <2>1, <2>3
    <3> QED BY <2>1, <3>1, RangeOfSeq
  <2> QED BY <2>2, <2>3, <1>1
<1>3. ASSUME NEW y \in Range(s) PROVE y \in Range(s \o t)
  <2>1. PICK i \in 1..Len(s) : y = s[i]
    BY RangeOfSeq
  <2>2. (s \o t)[i] = s[i] /\ i \in DOMAIN (s \o t)
    BY <1>1, <2>1
  <2> QED BY <2>1, <2>2 DEF Range
<1>4. ASSUME NEW y \in Range(t) PROVE y \in Range(s \o t)
  <2>1. PICK i \in 1..Len(t) : y = t[i]
    BY RangeOfSeq
  <2>2. (s \o t)[Len(s) + i] = t[i] /\ Len(s) + i \in DOMAIN (s \o t)
    BY <1>1, <2>1
  <2> QED BY <2>1, <2>2 DEF Range
<1> QED BY <1>2, <1>3, <1>4

\* A sequence without repetitions is as long as its range is large.
LEMMA InjectiveLength ==
    ASSUME NEW S, NEW s \in Seq(S), IsInjective(s)
    PROVE  IsFiniteSet(Range(s)) /\ Cardinality(Range(s)) = Len(s)
<1>1. s \in [1..Len(s) -> Range(s)]
  BY DEF Range
<1>2. s \in Bijection(1..Len(s), Range(s))
  BY <1>1 DEF Bijection, Injection, Surjection, Range, IsInjective
<1>3. ExistsBijection(1..Len(s), Range(s))
  BY <1>2 DEF ExistsBijection
<1>4. IsFiniteSet(Range(s))
  BY <1>3, FS_NatBijection
<1> QED BY <1>3, <1>4, FS_CountingElements

\* A concatenation repeats nothing exactly when neither part does and the two
\* share no element.
LEMMA InjectiveConcat ==
    ASSUME NEW S, NEW s \in Seq(S), NEW t \in Seq(S)
    PROVE  IsInjective(s \o t) <=>
             IsInjective(s) /\ IsInjective(t) /\ Range(s) \cap Range(t) = {}
<1> DEFINE u == s \o t
<1>1. /\ u \in Seq(S) /\ DOMAIN u = 1..(Len(s) + Len(t))
      /\ \A i \in 1..Len(s) : i \in DOMAIN u /\ u[i] = s[i]
      /\ \A i \in 1..Len(t) : Len(s) + i \in DOMAIN u /\ u[Len(s) + i] = t[i]
      /\ DOMAIN s = 1..Len(s) /\ DOMAIN t = 1..Len(t) /\ Len(s) \in Nat /\ Len(t) \in Nat
  OBVIOUS
<1> HIDE DEF u
<1>2. ASSUME IsInjective(u)
      PROVE  IsInjective(s) /\ IsInjective(t) /\ Range(s) \cap Range(t) = {}
  <2>1. IsInjective(s)
    BY <1>1, <1>2 DEF IsInjective
  <2>2. ASSUME NEW a \in DOMAIN t, NEW b \in DOMAIN t, t[a] = t[b] PROVE a = b
    <3>1. Len(s) + a = Len(s) + b
      BY <1>1, <1>2, <2>2 DEF IsInjective
    <3> QED BY <1>1, <3>1
  <2>3. ASSUME NEW y \in Range(s) \cap Range(t) PROVE FALSE
    <3>1. PICK a \in 1..Len(s) : s[a] = y
      BY <1>1 DEF Range
    <3>2. PICK b \in 1..Len(t) : t[b] = y
      BY <1>1 DEF Range
    <3>3. a \in DOMAIN u /\ Len(s) + b \in DOMAIN u /\ u[a] = u[Len(s) + b]
      BY <1>1, <3>1, <3>2
    <3>4. a = Len(s) + b
      BY <1>2, <3>3 DEF IsInjective
    <3> QED BY <1>1, <3>4
  <2> QED BY <2>1, <2>2, <2>3 DEF IsInjective
<1>3. ASSUME IsInjective(s), IsInjective(t), Range(s) \cap Range(t) = {},
             NEW a \in DOMAIN u, NEW b \in DOMAIN u, u[a] = u[b]
      PROVE  a = b
  <2>1. \A i \in DOMAIN u : \/ i \in 1..Len(s)
                            \/ i - Len(s) \in 1..Len(t) /\ i = Len(s) + (i - Len(s))
    BY <1>1
  <2>2. CASE a \in 1..Len(s) /\ b \in 1..Len(s)
    BY <1>1, <1>3, <2>2 DEF IsInjective
  <2>3. CASE a - Len(s) \in 1..Len(t) /\ b - Len(s) \in 1..Len(t)
    <3>1. t[a - Len(s)] = t[b - Len(s)]
      BY <1>1, <1>3, <2>1, <2>3
    <3>2. a - Len(s) = b - Len(s)
      BY <1>1, <1>3, <2>3, <3>1 DEF IsInjective
    <3> QED BY <1>1, <3>2
  <2>4. \A i \in 1..Len(s), j \in 1..Len(t) : s[i] # t[j]
    BY <1>1, <1>3 DEF Range
  <2>5. CASE a \in 1..Len(s) /\ b - Len(s) \in 1..Len(t)
    BY <1>1, <1>3, <2>1, <2>4, <2>5
  <2>6. CASE b \in 1..Len(s) /\ a - Len(s) \in 1..Len(t)
    BY <1>1, <1>3, <2>1, <2>4, <2>6
  <2> QED BY <2>1, <2>2, <2>3, <2>5, <2>6
<1> QED BY <1>2, <1>3 DEF IsInjective, u

\* Appending a new element repeats nothing.
LEMMA InjectiveAppend ==
    ASSUME NEW S, NEW s \in Seq(S), NEW x \in S, IsInjective(s), x \notin Range(s)
    PROVE  IsInjective(Append(s, x))
<1> DEFINE u == Append(s, x)
<1>1. /\ DOMAIN u = 1..(Len(s) + 1) /\ DOMAIN s = 1..Len(s) /\ Len(s) \in Nat
      /\ \A i \in DOMAIN s : u[i] = s[i]
      /\ u[Len(s) + 1] = x
  OBVIOUS
<1>2. \A i \in DOMAIN s : s[i] # x
  BY DEF Range
<1>3. \A i \in DOMAIN u : i \in DOMAIN s \/ i = Len(s) + 1
  BY <1>1
<1> HIDE DEF u
<1>4. IsInjective(u)
  BY <1>1, <1>2, <1>3 DEF IsInjective
<1> QED BY <1>4 DEF u

\* Taking the head off a sequence without repetitions takes it out of the range.
LEMMA HeadTail ==
    ASSUME NEW S, NEW s \in Seq(S), s # <<>>
    PROVE  /\ Head(s) \in S /\ Tail(s) \in Seq(S)
           /\ Range(s) = {Head(s)} \cup Range(Tail(s))
           /\ IsInjective(s) => IsInjective(Tail(s)) /\ Head(s) \notin Range(Tail(s))
<1>1. /\ Tail(s) \in Seq(S) /\ DOMAIN Tail(s) = 1..(Len(s) - 1) /\ DOMAIN s = 1..Len(s)
      /\ Len(s) \in Nat /\ Len(s) > 0
      /\ \A i \in DOMAIN Tail(s) : i + 1 \in DOMAIN s /\ Tail(s)[i] = s[i + 1]
      /\ Head(s) = s[1] /\ 1 \in DOMAIN s /\ Head(s) \in S
  OBVIOUS
<1>2. Range(s) = {Head(s)} \cup Range(Tail(s))
  <2>1. \A i \in DOMAIN s : i = 1 \/ (i - 1 \in DOMAIN Tail(s) /\ Tail(s)[i - 1] = s[i])
    BY <1>1
  <2> QED BY <1>1, <2>1 DEF Range
<1>3. ASSUME IsInjective(s)
      PROVE  IsInjective(Tail(s)) /\ Head(s) \notin Range(Tail(s))
  <2>1. ASSUME NEW a \in DOMAIN Tail(s), NEW b \in DOMAIN Tail(s), Tail(s)[a] = Tail(s)[b]
        PROVE  a = b
    <3>1. a + 1 = b + 1
      BY <1>1, <1>3, <2>1 DEF IsInjective
    <3> QED BY <1>1, <3>1
  <2>2. ASSUME NEW a \in DOMAIN Tail(s), Tail(s)[a] = Head(s) PROVE FALSE
    <3>1. a + 1 = 1
      BY <1>1, <1>3, <2>2 DEF IsInjective
    <3> QED BY <1>1, <3>1
  <2> QED BY <2>1, <2>2 DEF IsInjective, Range
<1> QED BY <1>1, <1>2, <1>3

-----------------------------------------------------------------------------
(* Sets of files and numbers.                                              *)

\* A non-empty set of naturals has a least element, and Least returns it.
LEMMA LeastExists ==
    ASSUME NEW S \in SUBSET Nat, S # {}
    PROVE  Least(S) \in S /\ \A y \in S : Least(S) <= y
<1>1. PICK x \in S : \A y \in S : ~ (<<y, x>> \in OpToRel(<, Nat))
  BY NatLessThanWellFounded, WFMin
<1>2. \A y \in S : x <= y
  <2> SUFFICES ASSUME NEW y \in S PROVE x <= y
    OBVIOUS
  <2>1. ~ (y < x)
    BY <1>1 DEF OpToRel
  <2> QED BY <2>1
<1> QED BY <1>2 DEF Least

\* The sources of a project are finitely many of its files.
LEMMA SourcesFinite ==
    ASSUME project \in Projects
    PROVE  Sources \subseteq Files /\ IsFiniteSet(Sources)
<1>1. Sources \subseteq Files
  BY ProjectsAssumption DEF ProjectType, Sources
<1> QED BY <1>1, FilesAssumption, FS_Subset

\* An iteration order of a finite set is a sequence of its elements, each once.
LEMMA OrderingFacts ==
    ASSUME NEW S, IsFiniteSet(S), NEW s \in Orderings(S)
    PROVE  s \in Seq(S) /\ Range(s) = S /\ IsInjective(s)
<1>1. Cardinality(S) \in Nat
  BY FS_CardinalityType
<1>2. s \in Injection(1..Cardinality(S), S) /\ s \in [1..Cardinality(S) -> S] /\ IsInjective(s)
  BY DEF Orderings, Injection
<1>3. IsFiniteSet(1..Cardinality(S)) /\ Cardinality(1..Cardinality(S)) = Cardinality(S)
  BY <1>1, FS_Interval
<1>4. s \in Surjection(1..Cardinality(S), S)
  BY <1>2, <1>3, FS_Injection
<1>5. Range(s) = S
  BY <1>2, <1>4 DEF Surjection, Range
<1>6. s \in Seq(S)
  BY <1>1, <1>2
<1> QED BY <1>2, <1>5, <1>6

\* The edges of a file are finitely many pairs.
LEMMA EdgesFinite ==
    ASSUME NEW p \in Projects, NEW f \in Files
    PROVE  EdgesOf(p, f) \subseteq Edges /\ IsFiniteSet(EdgesOf(p, f))
<1>1. p \in ProjectType
  BY ProjectsAssumption
<1>2. p.imports[f] \in Seq(Paths) /\ p.sources \subseteq Files /\ p.disk \subseteq Files
  BY <1>1 DEF ProjectType
<1>3. EdgesOf(p, f) \subseteq (0..Len(p.imports[f])) \X Files
  BY <1>2 DEF EdgesOf, ImplicitDeps, ImportTargets
<1>4. IsFiniteSet(0..Len(p.imports[f]))
  BY <1>2, FS_Interval
<1>5. IsFiniteSet((0..Len(p.imports[f])) \X Files)
  BY <1>4, FilesAssumption, FS_Product
<1>6. IsFiniteSet(EdgesOf(p, f))
  BY <1>3, <1>5, FS_Subset
<1> QED BY <1>2, <1>3, <1>6 DEF Edges

\* In every phase the occurrences counted are finite sets of edges.
LEMMA EdgesIntoFinite ==
    ASSUME SortInv, NEW f \in Files, NEW S
    PROVE  /\ IsFiniteSet(edges[f]) /\ edges[f] \subseteq Edges
           /\ IsFiniteSet(EdgesInto(f, S)) /\ Cardinality(EdgesInto(f, S)) \in Nat
<1>1. IsFiniteSet(edges[f]) /\ edges[f] \subseteq Edges
  <2>1. project \in Projects /\ (edges[f] = {} \/ edges[f] = EdgesOf(project, f))
    BY DEF SortInv, EdgesAreBuilt, TypeOK
  <2> QED BY <2>1, EdgesFinite, FS_EmptySet
<1>2. IsFiniteSet(EdgesInto(f, S))
  BY <1>1, FS_Subset DEF EdgesInto
<1> QED BY <1>1, <1>2, FS_CardinalityType

\* Taking one file out of a set takes exactly its occurrences off the count.
LEMMA CountWithout ==
    ASSUME SortInv, NEW g \in Files, NEW S, NEW f \in S
    PROVE  /\ Cardinality(EdgesInto(g, S \ {f}))
                = Cardinality(EdgesInto(g, S)) - Cardinality(EdgesInto(g, {f}))
           /\ Cardinality(EdgesInto(g, {f})) <= Cardinality(EdgesInto(g, S))
<1>1. /\ IsFiniteSet(EdgesInto(g, S)) /\ Cardinality(EdgesInto(g, S)) \in Nat
      /\ IsFiniteSet(EdgesInto(g, {f})) /\ Cardinality(EdgesInto(g, {f})) \in Nat
  BY EdgesIntoFinite
<1>2. EdgesInto(g, {f}) \subseteq EdgesInto(g, S)
  BY DEF EdgesInto
<1>3. /\ EdgesInto(g, S \ {f}) = EdgesInto(g, S) \ EdgesInto(g, {f})
      /\ EdgesInto(g, S) \cap EdgesInto(g, {f}) = EdgesInto(g, {f})
  BY DEF EdgesInto
<1>4. Cardinality(EdgesInto(g, S) \ EdgesInto(g, {f}))
        = Cardinality(EdgesInto(g, S)) - Cardinality(EdgesInto(g, {f}))
  <2> DEFINE all == EdgesInto(g, S)
             one == EdgesInto(g, {f})
  <2>1. IsFiniteSet(all) /\ IsFiniteSet(one) /\ all \cap one = one
    BY <1>1, <1>3
  <2> HIDE DEF all, one
  <2>2. Cardinality(all \ one) = Cardinality(all) - Cardinality(all \cap one)
    BY <2>1, FS_Difference
  <2>3. Cardinality(all \ one) = Cardinality(all) - Cardinality(one)
    BY <2>1, <2>2
  <2> QED BY <2>3 DEF all, one
<1> QED BY <1>1, <1>2, <1>3, <1>4, FS_Subset

\* A file that was handed out waits for nothing that is left over.
LEMMA HandedOutWaitForNothing ==
    ASSUME SortInv, NEW g \in Range(result)
    PROVE  EdgesInto(g, Remaining) = {}
<1>1. PICK j \in DOMAIN result : result[j] = g
  BY DEF Range
<1>2. result \in Seq(Sources)
  BY DEF SortInv, TypeOK
<1>3. \A e \in edges[g] : e[2] \in Sources => e[2] \in Range(result)
  <2> SUFFICES ASSUME NEW e \in edges[g], e[2] \in Sources PROVE e[2] \in Range(result)
    OBVIOUS
  <2>1. PICK i \in 1..(j - 1) : result[i] = e[2]
    BY <1>1 DEF SortInv, OrderRespectsEdges
  <2>2. i \in DOMAIN result
    BY <1>1, <1>2
  <2> QED BY <2>1, <2>2 DEF Range
<1> QED BY <1>3 DEF EdgesInto, Remaining

-----------------------------------------------------------------------------
(* The invariant is inductive.                                             *)

\* The initial states satisfy the invariant.
LEMMA InitSortInv == Init => SortInv
<1> SUFFICES ASSUME Init PROVE SortInv
  OBVIOUS
<1>1. TypeOK
  BY DEF Init, TypeOK, Edges
<1> QED BY <1>1 DEF Init, SortInv, EdgesAreBuilt, PhasesAgree, DegreesAreExact, QueueIsReady,
           OrderRespectsEdges

\* Steps of the walk and of the verdict leave the sort's own state alone.
LEMMA SortStateKept ==
    ASSUME SortInv, UNCHANGED <<project, edges, sortVars>>,
           phase \in {"sort", "search"}, phase' \in {"sorted", "search", "cycle"},
           TypeOK', PhasesAgree'
    PROVE  SortInv'
<1>1. EdgesAreBuilt'
  BY DEF SortInv, EdgesAreBuilt, sortVars, Sources
<1>2. DegreesAreExact' /\ QueueIsReady'
  BY DEF SortInv, DegreesAreExact, QueueIsReady, sortVars, Sources, Remaining, EdgesInto
<1>3. OrderRespectsEdges'
  BY DEF SortInv, OrderRespectsEdges, sortVars, Sources
<1> QED BY <1>1, <1>2, <1>3 DEF SortInv

\* A project that does not parse ends the build before the sort has any state.
LEMMA BuildFailsInv == SortInv /\ BuildFails => SortInv'
<1> SUFFICES ASSUME SortInv, BuildFails PROVE SortInv'
  OBVIOUS
<1>1. TypeOK'
  BY DEF SortInv, BuildFails, TypeOK, sortVars, walkVars, Sources
<1> QED BY <1>1 DEF SortInv, BuildFails, EdgesAreBuilt, PhasesAgree, DegreesAreExact,
           QueueIsReady, OrderRespectsEdges, sortVars, walkVars, Sources

\* Building the edges gives every source the edges its imports call for.
LEMMA BuildInv == SortInv /\ Build => SortInv'
<1> SUFFICES ASSUME SortInv, Build PROVE SortInv'
  OBVIOUS
<1>1. TypeOK'
  <2>1. project \in Projects
    BY DEF SortInv, TypeOK
  <2>2. edges' \in [Files -> SUBSET Edges]
    BY <2>1, EdgesFinite DEF Build
  <2> QED BY <2>2 DEF SortInv, Build, TypeOK, sortVars, walkVars, Sources
<1>2. result' = <<>> /\ queue' = <<>>
  BY DEF SortInv, Build, PhasesAgree, sortVars
<1> QED BY <1>1, <1>2 DEF SortInv, Build, EdgesAreBuilt, PhasesAgree, DegreesAreExact,
           QueueIsReady, OrderRespectsEdges, sortVars, walkVars, Sources

\* Counting starts the sort with exact counters and exactly the roots queued.
LEMMA CountDegreesInv == SortInv /\ CountDegrees => SortInv'
<1> SUFFICES ASSUME SortInv, CountDegrees PROVE SortInv'
  OBVIOUS
<1> DEFINE roots == {f \in Sources : EdgesInto(f, Sources) = {}}
<1>1. /\ project \in Projects /\ result = <<>> /\ phase = "count" /\ phase' = "sort"
      /\ UNCHANGED <<project, edges, result, path, visited, untried, cycle>>
  BY DEF SortInv, CountDegrees, TypeOK, PhasesAgree, walkVars
<1>2. IsFiniteSet(roots) /\ Sources \subseteq Files
  BY <1>1, SourcesFinite, FS_Subset
<1>3. queue' \in Seq(roots) /\ Range(queue') = roots /\ IsInjective(queue')
  BY <1>2, OrderingFacts DEF CountDegrees
<1>4. \A f \in Files : /\ Cardinality(EdgesInto(f, Sources)) \in Nat
                        /\ IsFiniteSet(EdgesInto(f, Sources))
                        /\ EdgesInto(f, Sources)' = EdgesInto(f, Sources)
  BY <1>1, EdgesIntoFinite DEF EdgesInto, Sources
<1>5. TypeOK'
  <2>1. in_degree' \in [Files -> Nat]
    BY <1>4 DEF CountDegrees
  <2>2. queue' \in Seq(Sources)
    BY <1>3
  <2> QED BY <1>1, <2>1, <2>2 DEF SortInv, TypeOK, Sources
<1>6. Remaining' = Sources /\ Sources' = Sources
  BY <1>1 DEF Remaining, Sources, Range
<1>7. DegreesAreExact'
  BY <1>1, <1>2, <1>6 DEF DegreesAreExact, CountDegrees, EdgesInto
<1>8. QueueIsReady'
  <2>1. result' \o queue' = queue'
    BY <1>1, <1>3
  <2>2. \A f \in Sources : in_degree'[f] = 0 <=> EdgesInto(f, Sources) = {}
    BY <1>2, <1>4, FS_EmptySet DEF CountDegrees
  <2> QED BY <1>3, <1>6, <2>1, <2>2 DEF QueueIsReady
<1>9. EdgesAreBuilt' /\ PhasesAgree' /\ OrderRespectsEdges'
  BY <1>1 DEF SortInv, EdgesAreBuilt, PhasesAgree, OrderRespectsEdges, Sources
<1> QED BY <1>5, <1>7, <1>8, <1>9 DEF SortInv

\* One turn of the loop keeps counters, queue and order right: the file taken off
\* the queue comes off every count once per occurrence, and exactly the files whose
\* count falls to zero join the queue.
LEMMA PopFileInv == SortInv /\ PopFile => SortInv'
<1> SUFFICES ASSUME SortInv, PopFile PROVE SortInv'
  OBVIOUS
<1> DEFINE f == Head(queue)
           ready == {g \in Sources : in_degree[g] # 0 /\ DegreesAfter(f)[g] = 0}
<1>1. /\ project \in Projects /\ phase = "sort" /\ phase' = "sort" /\ queue # <<>>
      /\ UNCHANGED <<project, edges, path, visited, untried, cycle>>
      /\ queue \in Seq(Sources) /\ result \in Seq(Sources) /\ in_degree \in [Files -> Nat]
      /\ result' = Append(result, f) /\ in_degree' = DegreesAfter(f)
  BY DEF SortInv, PopFile, TypeOK, walkVars
<1>2. PICK more \in Orderings(ready) : queue' = Tail(queue) \o more
  BY DEF PopFile
<1>3. Sources \subseteq Files /\ IsFiniteSet(Sources) /\ IsFiniteSet(ready)
      /\ Sources' = Sources
  BY <1>1, SourcesFinite, FS_Subset DEF Sources
<1>4. more \in Seq(ready) /\ Range(more) = ready /\ IsInjective(more)
  BY <1>2, <1>3, OrderingFacts
<1>5. /\ f \in Sources /\ Tail(queue) \in Seq(Sources)
      /\ Range(queue) = {f} \cup Range(Tail(queue))
  BY <1>1, HeadTail
<1>6. /\ IsInjective(result) /\ IsInjective(queue) /\ Range(result) \cap Range(queue) = {}
      /\ Range(queue) = {g \in Remaining : in_degree[g] = 0}
  BY <1>1, InjectiveConcat DEF SortInv, QueueIsReady
<1>7. IsInjective(Tail(queue)) /\ f \notin Range(Tail(queue))
  BY <1>1, <1>6, HeadTail
<1>8. f \in Remaining /\ in_degree[f] = 0
  BY <1>5, <1>6
<1>9. Range(result') = Range(result) \cup {f} /\ result' \in Seq(Sources)
  BY <1>1, <1>5, RangeAppend
<1>10. Remaining' = Remaining \ {f}
  BY <1>3, <1>9 DEF Remaining
<1>11. \A g \in Sources : in_degree[g] = Cardinality(EdgesInto(g, Remaining))
  BY <1>1 DEF SortInv, DegreesAreExact
<1>13. \A g \in Sources : in_degree'[g] = Cardinality(EdgesInto(g, Remaining \ {f}))
  <2> SUFFICES ASSUME NEW g \in Sources
               PROVE  in_degree'[g] = Cardinality(EdgesInto(g, Remaining \ {f}))
    OBVIOUS
  <2>1. g \in Files
    BY <1>3
  <2>2. in_degree'[g] = in_degree[g] - Cardinality(EdgesInto(g, {f}))
    BY <1>1, <2>1 DEF DegreesAfter
  <2>3. Cardinality(EdgesInto(g, Remaining \ {f}))
          = Cardinality(EdgesInto(g, Remaining)) - Cardinality(EdgesInto(g, {f}))
    BY <1>8, <2>1, CountWithout
  <2> QED BY <1>11, <2>2, <2>3
<1>14. DegreesAreExact'
  BY <1>1, <1>3, <1>10, <1>13 DEF DegreesAreExact, EdgesInto
<1>15. \A g \in Sources : in_degree[g] = 0 => in_degree'[g] = 0
  <2> SUFFICES ASSUME NEW g \in Sources, in_degree[g] = 0 PROVE in_degree'[g] = 0
    OBVIOUS
  <2>1. Cardinality(EdgesInto(g, {f})) <= Cardinality(EdgesInto(g, Remaining))
    BY <1>3, <1>8, CountWithout
  <2>2. Cardinality(EdgesInto(g, {f})) \in Nat
    BY <1>3, EdgesIntoFinite
  <2>3. Cardinality(EdgesInto(g, {f})) = 0
    BY <1>11, <2>1, <2>2
  <2> QED BY <1>1, <1>3, <2>3 DEF DegreesAfter
<1>16. \A g \in Range(result) : in_degree[g] = 0
  <2> SUFFICES ASSUME NEW g \in Range(result) PROVE in_degree[g] = 0
    OBVIOUS
  <2>1. g \in Sources
    BY <1>1, RangeOfSeq
  <2> QED BY <1>11, <2>1, HandedOutWaitForNothing, FS_EmptySet
<1>17. ready \subseteq Remaining' /\ ready \cap Range(queue) = {} /\ ready \cap Range(result') = {}
  BY <1>6, <1>8, <1>9, <1>10, <1>16 DEF Remaining
<1>18. Range(queue') = Range(Tail(queue)) \cup ready /\ queue' \in Seq(Sources)
  <2>1. more \in Seq(Sources)
    BY <1>4
  <2>2. Range(Tail(queue) \o more) = Range(Tail(queue)) \cup Range(more)
    <3>1. \A s, t \in Seq(Sources) : Range(s \o t) = Range(s) \cup Range(t)
      BY RangeConcat
    <3> QED BY <1>5, <2>1, <3>1
  <2>3. Tail(queue) \o more \in Seq(Sources)
    BY <1>5, <2>1
  <2> QED BY <1>2, <1>4, <2>2, <2>3
<1>19. QueueIsReady'
  <2>1. IsInjective(result')
    <3>1. f \notin Range(result)
      BY <1>8 DEF Remaining
    <3> QED BY <1>1, <1>5, <1>6, <3>1, InjectiveAppend
  <2>2. IsInjective(queue')
    <3>1. more \in Seq(Sources)
      BY <1>4
    <3>2. Range(Tail(queue)) \cap ready = {}
      BY <1>5, <1>17
    <3> QED BY <1>2, <1>4, <1>5, <1>7, <3>1, <3>2, InjectiveConcat
  <2>3. Range(result') \cap Range(queue') = {}
    BY <1>5, <1>6, <1>7, <1>9, <1>17, <1>18
  <2>4. IsInjective(result' \o queue')
    BY <1>9, <1>18, <2>1, <2>2, <2>3, InjectiveConcat
  <2>5. ASSUME NEW g \in Range(queue') PROVE g \in Remaining' /\ in_degree'[g] = 0
    <3>1. CASE g \in Range(Tail(queue))
      <4>1. g \in Remaining /\ in_degree[g] = 0 /\ g # f /\ g \in Sources
        BY <1>5, <1>6, <1>7, <3>1 DEF Remaining
      <4> QED BY <1>10, <1>15, <4>1
    <3>2. CASE g \in ready
      BY <1>1, <1>17, <3>2
    <3> QED BY <1>18, <2>5, <3>1, <3>2
  <2>6. ASSUME NEW g \in Remaining', in_degree'[g] = 0 PROVE g \in Range(queue')
    <3>1. g \in Remaining /\ g # f /\ g \in Sources
      BY <1>10, <2>6 DEF Remaining
    <3>2. CASE in_degree[g] = 0
      BY <1>5, <1>6, <1>18, <3>1, <3>2
    <3>3. CASE in_degree[g] # 0
      BY <1>1, <1>18, <2>6, <3>1, <3>3
    <3> QED BY <3>2, <3>3
  <2> QED BY <2>4, <2>5, <2>6 DEF QueueIsReady
<1>20. OrderRespectsEdges'
  <2> SUFFICES ASSUME NEW j \in DOMAIN result', NEW e \in edges[result'[j]], e[2] \in Sources
               PROVE  \E i \in 1..(j - 1) : result'[i] = e[2]
    BY <1>1, <1>3 DEF OrderRespectsEdges
  <2>1. /\ Len(result) \in Nat /\ DOMAIN result = 1..Len(result)
        /\ DOMAIN result' = 1..(Len(result) + 1)
        /\ \A i \in 1..Len(result) : result'[i] = result[i]
        /\ result'[Len(result) + 1] = f
    BY <1>1, <1>5
  <2>2. CASE j \in DOMAIN result
    <3>1. PICK i \in 1..(j - 1) : result[i] = e[2]
      BY <2>1, <2>2 DEF SortInv, OrderRespectsEdges
    <3>2. result'[i] = e[2]
      BY <2>1, <2>2, <3>1
    <3> QED BY <3>2
  <2>3. CASE j = Len(result) + 1
    <3>1. EdgesInto(f, Remaining) = {}
      BY <1>3, <1>5, <1>8, <1>11, EdgesIntoFinite, FS_EmptySet
    <3>2. e[2] \notin Remaining
      BY <2>1, <2>3, <3>1 DEF EdgesInto
    <3>3. e[2] \in Range(result)
      BY <3>2 DEF Remaining
    <3>4. PICK i \in 1..Len(result) : result[i] = e[2]
      BY <2>1, <3>3 DEF Range
    <3>5. result'[i] = e[2] /\ i \in 1..(j - 1)
      BY <2>1, <2>3, <3>4
    <3> QED BY <3>5
  <2> QED BY <2>1, <2>2, <2>3
<1>21. TypeOK'
  <2>1. in_degree' \in [Files -> Nat]
    <3> SUFFICES ASSUME NEW g \in Files
                 PROVE  in_degree[g] - Cardinality(EdgesInto(g, {f})) \in Nat
      BY <1>1 DEF DegreesAfter
    <3>1. Cardinality(EdgesInto(g, {f})) \in Nat
      BY EdgesIntoFinite
    <3>2. CASE g \in Sources
      <4>1. Cardinality(EdgesInto(g, {f})) <= in_degree[g]
        BY <1>8, <1>11, <3>2, CountWithout
      <4> QED BY <1>1, <3>1, <4>1
    <3>3. CASE g \notin Sources
      <4>1. EdgesInto(g, {f}) = {}
        BY <1>1, <3>3 DEF SortInv, EdgesAreBuilt, EdgesInto
      <4>2. Cardinality(EdgesInto(g, {f})) = 0
        BY <4>1, FS_EmptySet
      <4>3. in_degree[g] \in Nat
        BY <1>1
      <4> QED BY <4>2, <4>3
    <3> QED BY <3>2, <3>3
  <2> QED BY <1>1, <1>3, <1>9, <1>18, <2>1 DEF SortInv, TypeOK
<1>22. EdgesAreBuilt' /\ PhasesAgree'
  BY <1>1, <1>3 DEF SortInv, EdgesAreBuilt, PhasesAgree
<1> QED BY <1>14, <1>19, <1>20, <1>21, <1>22 DEF SortInv

\* Accepting the order changes nothing the invariant speaks of but the phase.
LEMMA SortDoneInv == SortInv /\ SortDone => SortInv'
<1> SUFFICES ASSUME SortInv, SortDone PROVE SortInv'
  OBVIOUS
<1>1. TypeOK'
  BY DEF SortInv, SortDone, TypeOK, sortVars, walkVars, Sources
<1>2. PhasesAgree'
  BY DEF SortDone, PhasesAgree, sortVars, walkVars, Sources
<1> QED BY <1>1, <1>2, SortStateKept DEF SortDone

\* When the sort is stuck, every file left over waits for one left over, and
\* there is one: it is not the whole of the sources that was handed out.
LEMMA StuckFiles ==
    ASSUME SortInv, phase \in {"sort", "search", "cycle"}, queue = <<>>,
           Len(result) # Cardinality(Sources)
    PROVE  /\ Remaining # {} /\ Remaining \subseteq Files
           /\ \A f \in Remaining : EdgesInto(f, Remaining) # {}
<1>1. result \in Seq(Sources) /\ Sources \subseteq Files /\ queue \in Seq(Sources)
  BY SourcesFinite DEF SortInv, TypeOK
<1>2. IsInjective(result) /\ Range(queue) = {f \in Remaining : in_degree[f] = 0}
  BY <1>1, InjectiveConcat DEF SortInv, QueueIsReady
<1>3. Range(queue) = {}
  BY DEF Range
<1>4. Range(result) # Sources
  BY <1>1, <1>2, InjectiveLength
<1>5. Remaining # {} /\ Remaining \subseteq Files
  BY <1>1, <1>4, RangeOfSeq DEF Remaining
<1>6. ASSUME NEW f \in Remaining PROVE EdgesInto(f, Remaining) # {}
  <2>1. f \in Sources /\ in_degree[f] # 0
    BY <1>2, <1>3 DEF Remaining
  <2>2. in_degree[f] = Cardinality(EdgesInto(f, Remaining))
    BY <2>1 DEF SortInv, DegreesAreExact
  <2> QED BY <2>1, <2>2, FS_EmptySet
<1> QED BY <1>5, <1>6

LEMMA DepsToTryType ==
    ASSUME SortInv, NEW f \in Files
    PROVE  DepsToTry(f) \subseteq Files
<1>1. edges[f] \subseteq Edges
  BY EdgesIntoFinite
<1> QED BY <1>1 DEF DepsToTry, EdgesInto, Edges

\* Starting the walk leaves the sort's state alone; there is a file to start at.
LEMMA SortStuckInv == SortInv /\ SortStuck => SortInv'
<1> SUFFICES ASSUME SortInv, SortStuck PROVE SortInv'
  OBVIOUS
<1>1. Least(Remaining) \in Files
  <2>1. Remaining # {} /\ Remaining \subseteq Files
    BY StuckFiles DEF SortStuck
  <2> QED BY <2>1, FilesAssumption, LeastExists
<1>2. TypeOK'
  <2>1. path' \in Seq(Files) /\ visited' \subseteq Files /\ Len(path') = 1
    BY <1>1 DEF SortStuck
  <2>2. untried' \in Seq(SUBSET Files) /\ Len(untried') = 1
    BY <1>1, DepsToTryType DEF SortStuck
  <2> QED BY <2>1, <2>2 DEF SortInv, SortStuck, TypeOK, sortVars, Sources
<1>3. PhasesAgree'
  BY DEF SortStuck, PhasesAgree, sortVars, Sources
<1> QED BY <1>2, <1>3, SortStateKept DEF SortStuck

\* The import that leads from one file to the next is a position or 0.
LEMMA ImportPathType ==
    ASSUME project \in Projects, NEW g \in Files, NEW h
    PROVE  ImportPath(g, h) \in Nat
<1> DEFINE through == {i \in DOMAIN project.imports[g] :
                         h \in ImportTargets(project, project.imports[g][i])}
<1>1. project.imports[g] \in Seq(Paths)
  BY ProjectsAssumption DEF ProjectType
<1>2. through \in SUBSET Nat
  BY <1>1
<1> HIDE DEF through
<1>3. through # {} => Least(through) \in Nat
  BY <1>2, LeastExists
<1> QED BY <1>3 DEF ImportPath, through

\* What find_cycle reports is a sequence of files with their imports.
LEMMA CyclePairsType ==
    ASSUME project \in Projects, path \in Seq(Files), NEW i \in DOMAIN path
    PROVE  CyclePairs(i) \in Seq(Files \X Nat)
<1>1. Len(path) - i + 1 \in Nat /\ DOMAIN path = 1..Len(path) /\ Len(path) \in Nat
  OBVIOUS
<1>2. ASSUME NEW k \in 1..(Len(path) - i + 1)
      PROVE  CyclePairs(i)[k] \in Files \X Nat
  <2>1. i + k - 1 \in 1..Len(path)
    BY <1>1
  <2>2. path[i + k - 1] \in Files
    BY <1>1, <2>1
  <2>3. \A h : ImportPath(path[i + k - 1], h) \in Nat
    BY <2>2, ImportPathType
  <2> QED BY <1>2, <2>2, <2>3 DEF CyclePairs
<1>3. DOMAIN CyclePairs(i) = 1..(Len(path) - i + 1)
      /\ CyclePairs(i) = [k \in 1..(Len(path) - i + 1) |-> CyclePairs(i)[k]]
  BY DEF CyclePairs
<1>4. CyclePairs(i) \in [1..(Len(path) - i + 1) -> Files \X Nat]
  BY <1>2, <1>3
<1>5. \A S : \A n \in Nat : \A h \in [1..n -> S] : h \in Seq(S)
  OBVIOUS
<1> QED BY <1>1, <1>4, <1>5

\* A step of the walk leaves the sort's state alone and stays among the files.
LEMMA DfsStepInv == SortInv /\ DfsStep => SortInv'
<1> SUFFICES ASSUME SortInv, DfsStep PROVE SortInv'
  OBVIOUS
<1> DEFINE last == untried[Len(path)]
           dep == Least(last)
<1>1. /\ project \in Projects /\ phase = "search" /\ path \in Seq(Files) /\ path # <<>>
      /\ visited \subseteq Files /\ untried \in Seq(SUBSET Files) /\ Len(untried) = Len(path)
      /\ cycle \in Seq(Files \X Nat)
      /\ UNCHANGED <<project, edges, in_degree, queue, result>>
  BY DEF SortInv, TypeOK, PhasesAgree, DfsStep, sortVars
<1>2. Len(path) \in 1..Len(path) /\ last \subseteq Files
  BY <1>1
<1>3. last # {} => dep \in last /\ dep \in Files
  BY <1>2, FilesAssumption, LeastExists
<1> HIDE DEF dep
<1>4. CASE last = {}
  <2>1. Backtrack
    BY <1>4 DEF DfsStep
  <2>2. path' = SubSeq(path, 1, Len(path) - 1) /\ untried' = SubSeq(untried, 1, Len(path) - 1)
        /\ visited' = visited
    BY <2>1 DEF Backtrack
  <2>3. /\ path' \in Seq(Files) /\ Len(path') = Len(path) - 1
        /\ untried' \in Seq(SUBSET Files) /\ Len(untried') = Len(path')
    BY <1>1, <2>2
  <2>4. CASE Len(path) = 1
    <3>1. PICK s \in Orderings(Remaining) : cycle' = [i \in DOMAIN s |-> <<s[i], 0>>]
      BY <2>1, <2>4 DEF Backtrack
    <3>2. phase' = "cycle"
      BY <2>1, <2>4 DEF Backtrack
    <3>3. Remaining \subseteq Files /\ IsFiniteSet(Remaining)
      BY <1>1, SourcesFinite, FS_Subset DEF Remaining
    <3>4. s \in Seq(Files)
      BY <3>3, OrderingFacts
    <3>5. cycle' \in Seq(Files \X Nat)
      BY <3>1, <3>4
    <3>6. TypeOK'
      BY <1>1, <2>2, <2>3, <3>2, <3>5 DEF SortInv, TypeOK, Sources
    <3>7. PhasesAgree'
      BY <1>1, <3>2 DEF SortInv, PhasesAgree, Sources
    <3> QED BY <1>1, <3>2, <3>6, <3>7, SortStateKept DEF sortVars
  <2>5. CASE Len(path) # 1
    <3>1. phase' = "search" /\ cycle' = cycle
      BY <1>1, <2>1, <2>5 DEF Backtrack
    <3>2. path' # <<>>
      BY <1>1, <2>3, <2>5
    <3>3. TypeOK'
      BY <1>1, <2>2, <2>3, <3>1 DEF SortInv, TypeOK, Sources
    <3>4. PhasesAgree'
      BY <1>1, <3>1, <3>2 DEF SortInv, PhasesAgree, Sources
    <3> QED BY <1>1, <3>1, <3>3, <3>4, SortStateKept DEF sortVars
  <2> QED BY <2>4, <2>5
<1>5. CASE last # {} /\ dep \in Range(path)
  <2>1. Found(dep)
    BY <1>5 DEF DfsStep, dep
  <2>2. (CHOOSE i \in DOMAIN path : path[i] = dep) \in DOMAIN path
    BY <1>5 DEF Range
  <2>3. cycle' \in Seq(Files \X Nat)
    BY <1>1, <2>1, <2>2, CyclePairsType DEF Found
  <2>4. TypeOK'
    BY <1>1, <2>1, <2>3 DEF SortInv, TypeOK, Sources, Found
  <2>5. PhasesAgree'
    BY <1>1, <2>1 DEF SortInv, PhasesAgree, Sources, Found
  <2> QED BY <1>1, <2>1, <2>4, <2>5, SortStateKept DEF sortVars, Found
<1>6. CASE last # {} /\ dep \notin Range(path) /\ dep \in visited
  <2>1. Skip(dep)
    BY <1>6 DEF DfsStep, dep
  <2>2. untried' \in Seq(SUBSET Files) /\ Len(untried') = Len(untried)
    BY <1>1, <1>2, <2>1 DEF Skip
  <2>3. TypeOK'
    BY <1>1, <2>1, <2>2 DEF SortInv, TypeOK, Sources, Skip
  <2>4. PhasesAgree'
    BY <1>1, <2>1 DEF SortInv, PhasesAgree, Sources, Skip
  <2> QED BY <1>1, <2>1, <2>3, <2>4, SortStateKept DEF sortVars, Skip
<1>7. CASE last # {} /\ dep \notin Range(path) /\ dep \notin visited
  <2>1. Enter(dep)
    BY <1>7 DEF DfsStep, dep
  <2>2. DepsToTry(dep) \in SUBSET Files
    BY <1>3, <1>7, DepsToTryType
  <2>3. [untried EXCEPT ![Len(path)] = @ \ {dep}] \in Seq(SUBSET Files)
        /\ Len([untried EXCEPT ![Len(path)] = @ \ {dep}]) = Len(untried)
    BY <1>1, <1>2
  <2>4. untried' \in Seq(SUBSET Files) /\ Len(untried') = Len(untried) + 1
    BY <2>1, <2>2, <2>3 DEF Enter
  <2>5. path' \in Seq(Files) /\ Len(path') = Len(path) + 1 /\ visited' \subseteq Files
    BY <1>1, <1>3, <1>7, <2>1 DEF Enter
  <2>6. TypeOK'
    BY <1>1, <2>1, <2>4, <2>5 DEF SortInv, TypeOK, Sources, Enter
  <2>7. PhasesAgree'
    <3>1. path' # <<>>
      BY <1>1, <2>1 DEF Enter
    <3>2. phase' = "search" /\ phase = "search" /\ PhasesAgree /\ UNCHANGED <<project, queue, result>>
      BY <1>1, <2>1 DEF SortInv, Enter, sortVars
    <3> QED BY <3>1, <3>2 DEF PhasesAgree, Sources
  <2> QED BY <1>1, <2>1, <2>6, <2>7, SortStateKept DEF sortVars, Enter
<1> QED BY <1>4, <1>5, <1>6, <1>7

\* A step that changes nothing keeps the invariant.
LEMMA StutterInv == SortInv /\ UNCHANGED vars => SortInv'
<1> SUFFICES ASSUME SortInv, UNCHANGED vars PROVE SortInv'
  OBVIOUS
<1>1. TypeOK'
  BY DEF SortInv, TypeOK, vars, sortVars, walkVars, Sources
<1>2. (EdgesAreBuilt /\ PhasesAgree)'
  BY DEF SortInv, EdgesAreBuilt, PhasesAgree, vars, sortVars, walkVars, Sources
<1>3. (DegreesAreExact /\ QueueIsReady /\ OrderRespectsEdges)'
  BY DEF SortInv, DegreesAreExact, QueueIsReady, OrderRespectsEdges, vars, sortVars,
         walkVars, Sources, Remaining, EdgesInto
<1> QED BY <1>1, <1>2, <1>3 DEF SortInv

-----------------------------------------------------------------------------
(* Theorems.                                                               *)

\* The inductive invariant holds in every behaviour of the sort: counters,
\* queue and order agree whatever the project and the iteration orders.
THEOREM SortInvariant == Spec => []SortInv
<1>1. SortInv /\ [Next]_vars => SortInv'
  BY BuildFailsInv, BuildInv, CountDegreesInv, PopFileInv, SortDoneInv, SortStuckInv,
     DfsStepInv, StutterInv DEF Next, Step, Finished
<1> QED BY <1>1, InitSortInv, PTL DEF Spec

\* Every variable keeps its type.
THEOREM TypeCorrect == Spec => []TypeOK
<1>1. SortInv => TypeOK
  BY DEF SortInv
<1> QED BY <1>1, SortInvariant, PTL

\* The counters kept by subtraction are always the fresh count.
THEOREM CountersExact == Spec => []DegreesAreExact
<1>1. SortInv => DegreesAreExact
  BY DEF SortInv
<1> QED BY <1>1, SortInvariant, PTL

\* No file is queued or handed out twice, and the queue misses no ready file.
THEOREM QueueExact == Spec => []QueueIsReady
<1>1. SortInv => QueueIsReady
  BY DEF SortInv
<1> QED BY <1>1, SortInvariant, PTL

\* What a file must follow is one of its edges.
LEMMA MustFollowIsAnEdge ==
    ASSUME project \in Projects, NEW f1 \in Sources, NEW g \in Sources, MustFollow(f1, g)
    PROVE  \E e \in EdgesOf(project, f1) : e[2] = g
<1>1. /\ project \in ProjectType /\ g \in Files /\ g \in project.disk
      /\ project.dir[g] \in Dirs
  BY ProjectsAssumption DEF ProjectType, Sources
<1>2. CASE \E i \in DOMAIN project.imports[f1] : project.imports[f1][i] = project.dir[g]
  <2>1. PICK i \in DOMAIN project.imports[f1] : project.imports[f1][i] = project.dir[g]
    BY <1>2
  <2>2. g \in ImportTargets(project, project.imports[f1][i])
    BY <1>1, <2>1 DEF ImportTargets, ResolveLocalPackage
  <2>3. <<i, g>> \in EdgesOf(project, f1)
    BY <1>1, <2>2 DEF EdgesOf
  <2> QED BY <2>3
<1>3. CASE /\ f1 \in project.test /\ g \notin project.test
           /\ project.dir[f1] = project.dir[g] /\ project.package[f1] = project.package[g]
  <2>1. g \in ImplicitDeps(project, f1)
    BY <1>3 DEF ImplicitDeps, Sources
  <2>2. <<0, g>> \in EdgesOf(project, f1)
    BY <2>1 DEF EdgesOf
  <2> QED BY <2>2
<1> QED BY <1>2, <1>3 DEF MustFollow

\* The edges being what the project asks for, the order is too.
LEMMA OrderFollows == SortInv => OrderRespectsImports
<1> SUFFICES ASSUME SortInv, NEW j \in DOMAIN result, NEW g \in Sources,
                    MustFollow(result[j], g)
             PROVE  \E i \in 1..(j - 1) : result[i] = g
  BY DEF OrderRespectsImports
<1>1. /\ project \in Projects /\ result \in Seq(Sources) /\ result[j] \in Sources
      /\ Sources \subseteq Files /\ result # <<>>
  BY SourcesFinite DEF SortInv, TypeOK
<1>2. edges[result[j]] = EdgesOf(project, result[j])
  BY <1>1 DEF SortInv, EdgesAreBuilt, PhasesAgree
<1>3. PICK e \in edges[result[j]] : e[2] = g
  BY <1>1, <1>2, MustFollowIsAnEdge
<1> QED BY <1>3 DEF SortInv, OrderRespectsEdges

\* The order handed out respects imports and test packages, at every prefix:
\* no source comes before a source of a package it imports, nor a test before
\* the other files of its package.
THEOREM OrderCorrect == Spec => []OrderRespectsImports
BY OrderFollows, SortInvariant, PTL

-----------------------------------------------------------------------------
(* The implementation of DependencyOrder.                                  *)

\* A file whose occurrences of left-over files are none has all its
\* dependencies handed out.
LEMMA WaitsForNothing ==
    ASSUME SortInv, phase = "sort", NEW g \in Sources, EdgesInto(g, Remaining) = {}
    PROVE  DepsOf(g) \cap Sources \subseteq Range(result)
<1>1. edges[g] = EdgesOf(project, g) /\ g \in Files
  BY SourcesFinite DEF SortInv, EdgesAreBuilt, TypeOK
<1> QED BY <1>1 DEF DepsOf, EdgesInto, Remaining

\* The dependency graph an implementation step maps to never changes.
LEMMA GraphKept ==
    ASSUME project' = project
    PROVE  [nodes |-> Sources, deps |-> [f \in Files |-> DepsOf(f)]]'
             = [nodes |-> Sources, deps |-> [f \in Files |-> DepsOf(f)]]
  BY DEF Sources, DepsOf

\* Handing out the head of the queue is an Emit.
LEMMA PopFileEmits ==
    ASSUME SortInv, PopFile
    PROVE  \E f \in Files : Promise!Emit(f)
<1>1. /\ phase = "sort" /\ phase' = "sort" /\ project' = project /\ queue # <<>>
      /\ result' = Append(result, Head(queue)) /\ project \in Projects
      /\ queue \in Seq(Sources) /\ result \in Seq(Sources) /\ in_degree \in [Files -> Nat]
  BY DEF SortInv, PopFile, TypeOK
<1>2. Head(queue) \in Sources /\ Head(queue) \in Range(queue)
  BY <1>1, HeadTail
<1>3. Head(queue) \in Remaining /\ in_degree[Head(queue)] = 0
  BY <1>1, <1>2 DEF SortInv, QueueIsReady
<1>4. Head(queue) \in Files
  BY <1>1, <1>2, SourcesFinite
<1>5. EdgesInto(Head(queue), Remaining) = {}
  BY <1>1, <1>2, <1>3, <1>4, EdgesIntoFinite, FS_EmptySet DEF SortInv, DegreesAreExact
<1>6. DepsOf(Head(queue)) \cap Sources \subseteq Range(result)
  BY <1>1, <1>2, <1>5, WaitsForNothing
<1>7. Promise!Emit(Head(queue))
  <2> DEFINE graph == [nodes |-> Sources, deps |-> [f \in Files |-> DepsOf(f)]]
  <2>1. graph.nodes = Sources /\ graph.deps[Head(queue)] = DepsOf(Head(queue)) /\ graph' = graph
    BY <1>1, <1>4, GraphKept
  <2>2. Head(queue) \in Sources \ Range(result)
    BY <1>3 DEF Remaining
  <2> HIDE DEF graph
  <2> QED BY <1>1, <1>6, <2>1, <2>2 DEF Promise!Emit, Promise!Range, Range, graph
<1> QED BY <1>4, <1>7

\* The length test accepts only when every source has been handed out.
LEMMA SortDoneAccepts ==
    ASSUME SortInv, SortDone
    PROVE  Promise!Accept
<1>1. /\ phase = "sort" /\ phase' = "sorted" /\ project' = project /\ result' = result
      /\ Len(result) = Cardinality(Sources) /\ project \in Projects
      /\ queue \in Seq(Sources) /\ result \in Seq(Sources)
  BY DEF SortInv, SortDone, TypeOK, sortVars
<1>2. IsInjective(result)
  BY <1>1, InjectiveConcat DEF SortInv, QueueIsReady
<1>3. Range(result) \subseteq Sources /\ IsFiniteSet(Sources)
  BY <1>1, SourcesFinite, RangeOfSeq
<1>4. Cardinality(Range(result)) = Cardinality(Sources)
  BY <1>1, <1>2, InjectiveLength
<1>5. Range(result) = Sources
  BY <1>3, <1>4, FS_Subset
<1>6. [nodes |-> Sources, deps |-> [f \in Files |-> DepsOf(f)]].nodes = Sources
  OBVIOUS
<1> QED BY <1>1, <1>5, <1>6, GraphKept DEF Promise!Accept, Promise!Range, Range

\* A cycle is reported only when the files left over wait for each other.
LEMMA CycleRejects ==
    ASSUME SortInv, DfsStep, phase' = "cycle"
    PROVE  Promise!Reject
<1>1. /\ phase = "search" /\ project' = project /\ result' = result
      /\ queue = <<>> /\ Len(result) # Cardinality(Sources)
  BY DEF SortInv, DfsStep, PhasesAgree, sortVars
<1>2. /\ Remaining # {} /\ Remaining \subseteq Files
      /\ \A f \in Remaining : EdgesInto(f, Remaining) # {}
  BY <1>1, StuckFiles
<1>3. ASSUME NEW f \in Remaining PROVE DepsOf(f) \cap Remaining # {}
  <2>1. edges[f] = EdgesOf(project, f)
    BY <1>1, <1>2 DEF SortInv, EdgesAreBuilt, Remaining
  <2>2. PICK e \in EdgesOf(project, f) : e[2] \in Remaining
    BY <1>2, <2>1 DEF EdgesInto
  <2>3. e[2] \in DepsOf(f)
    BY <1>2, <2>2 DEF DepsOf
  <2> QED BY <2>2, <2>3
<1>4. Promise!Stuck(Remaining)
  BY <1>2, <1>3 DEF Promise!Stuck
<1>5. Remaining \in SUBSET Sources
  BY DEF Remaining
<1> QED BY <1>1, <1>4, <1>5, GraphKept DEF Promise!Reject

\* A step that keeps project, result and verdict is a stutter of the promise.
LEMMA PromiseStutters ==
    ASSUME project' = project, result' = result,
           phase' = phase \/ {phase, phase'} \subseteq {"build", "count", "sort", "search"}
    PROVE  UNCHANGED Promise!vars
<1>1. (IF phase = "sorted" THEN "ordered"
       ELSE IF phase = "cycle" THEN "cyclic"
       ELSE IF phase = "failed" THEN "failed" ELSE "pending")'
    = (IF phase = "sorted" THEN "ordered"
       ELSE IF phase = "cycle" THEN "cyclic"
       ELSE IF phase = "failed" THEN "failed" ELSE "pending")
  OBVIOUS
<1> QED BY <1>1, GraphKept DEF Promise!vars

\* DepGraph implements DependencyOrder: whatever the files, the imports and the
\* iteration orders, the sort hands out a source only after all it depends on,
\* accepts only a complete order and rejects only a graph with a cycle.
THEOREM SortImplementsPromise == Spec => SortKeepsPromise
<1>1. Init => Promise!Init
  <2> SUFFICES ASSUME Init PROVE Promise!Init
    OBVIOUS
  <2>1. Sources \subseteq Files
    BY SourcesFinite DEF Init
  <2>2. [f \in Files |-> DepsOf(f)] \in [Files -> SUBSET Files]
    BY DEF DepsOf
  <2>3. [nodes |-> Sources, deps |-> [f \in Files |-> DepsOf(f)]] \in Promise!Graphs
    BY <2>1, <2>2 DEF Promise!Graphs
  <2> QED BY <2>3 DEF Init, Promise!Init
<1>2. SortInv /\ [Next]_vars => [Promise!Next]_(Promise!vars)
  <2> SUFFICES ASSUME SortInv, [Next]_vars PROVE [Promise!Next]_(Promise!vars)
    OBVIOUS
  <2>1. CASE BuildFails
    <3>1. /\ phase = "build" /\ phase' = "failed" /\ project' = project /\ result' = result
          /\ result = <<>>
      BY <2>1 DEF SortInv, BuildFails, PhasesAgree, sortVars
    <3>2. Promise!Fail
      BY <3>1, GraphKept DEF Promise!Fail
    <3> QED BY <3>2 DEF Promise!Next
  <2>2. CASE Build
    BY <2>2, PromiseStutters DEF Build, sortVars
  <2>3. CASE CountDegrees
    BY <2>3, PromiseStutters DEF CountDegrees
  <2>4. CASE PopFile
    BY <2>4, PopFileEmits DEF Promise!Next
  <2>5. CASE SortDone
    BY <2>5, SortDoneAccepts DEF Promise!Next
  <2>6. CASE SortStuck
    BY <2>6, PromiseStutters DEF SortStuck, sortVars
  <2>7. CASE DfsStep
    <3>1. phase' \in {"search", "cycle"} /\ phase = "search"
          /\ project' = project /\ result' = result
      BY <2>7 DEF DfsStep, Backtrack, Found, Skip, Enter, sortVars
    <3>2. CASE phase' = "cycle"
      BY <2>7, <3>2, CycleRejects DEF Promise!Next
    <3>3. CASE phase' = "search"
      BY <3>1, <3>3, PromiseStutters
    <3> QED BY <3>1, <3>2, <3>3
  <2>8. CASE UNCHANGED vars
    BY <2>8, PromiseStutters DEF vars, sortVars
  <2> QED BY <2>1, <2>2, <2>3, <2>4, <2>5, <2>6, <2>7, <2>8 DEF Next, Step, Finished
<1> QED BY <1>1, <1>2, SortInvariant, PTL DEF Spec, Promise!Spec, SortKeepsPromise

-----------------------------------------------------------------------------
(* The two verdicts.                                                       *)

\* The walk has never turned back: every file it has entered is on the path,
\* each reached from the one before, and the last one has yet to try all its
\* dependencies.
WalkGoesOn ==
    phase = "search" =>
        /\ path \in Seq(Remaining)
        /\ visited = Range(path)
        /\ \A k \in 1..(Len(path) - 1) : path[k + 1] \in DepsToTry(path[k])
        /\ untried[Len(path)] = DepsToTry(path[Len(path)])

WalkInv == WalkGoesOn /\ CycleIsReal

-----------------------------------------------------------------------------
(* Edges and imports.                                                      *)

\* Where a file waits for another one, the project says why: an import, found
\* by ImportPath, or a test's implicit dependency on its package.
LEMMA EdgeExplained ==
    ASSUME SortInv, phase \notin {"build", "failed"},
           NEW f \in Remaining, NEW g \in DepsToTry(f)
    PROVE  /\ g \in Remaining
           /\ IF ImportPath(f, g) = 0
              THEN f \in project.test /\ g \notin project.test /\ MustFollow(f, g)
              ELSE /\ ImportPath(f, g) \in DOMAIN project.imports[f]
                   /\ project.imports[f][ImportPath(f, g)] = project.dir[g]
<1> DEFINE through == {i \in DOMAIN project.imports[f] :
                         g \in ImportTargets(project, project.imports[f][i])}
<1>1. PICK e \in edges[f] : e[2] = g /\ g \in Remaining
  BY DEF DepsToTry, EdgesInto
<1>2. f \in Files /\ f \in Sources /\ project \in Projects /\ project \in ProjectType
  BY SourcesFinite, ProjectsAssumption DEF SortInv, TypeOK, Remaining
<1>3. edges[f] = EdgesOf(project, f)
  BY <1>2 DEF SortInv, EdgesAreBuilt
<1>4. project.imports[f] \in Seq(Paths)
  BY <1>2 DEF ProjectType
<1>5. through \in SUBSET (Nat \ {0})
  BY <1>4
<1>6. CASE through = {}
  <2>1. g \in ImplicitDeps(project, f)
    BY <1>1, <1>3, <1>6 DEF EdgesOf
  <2>2. f \in project.test /\ g \notin project.test /\ MustFollow(f, g)
    BY <2>1 DEF ImplicitDeps, MustFollow
  <2> QED BY <1>1, <1>6, <2>2 DEF ImportPath
<1>7. CASE through # {}
  <2>1. Least(through) \in through
    BY <1>5, <1>7, LeastExists
  <2>2. ImportPath(f, g) = Least(through) /\ Least(through) # 0
    BY <1>5, <1>7, <2>1 DEF ImportPath
  <2>3. g \in ImportTargets(project, project.imports[f][Least(through)])
    BY <2>1
  <2>4. project.imports[f][Least(through)] = project.dir[g]
    BY <2>3 DEF ImportTargets, ResolveLocalPackage
  <2> QED BY <1>1, <2>1, <2>2, <2>4
<1> QED BY <1>6, <1>7

\* Every file left over when the sort is stuck has a dependency to try.
LEMMA SomethingToTry ==
    ASSUME SortInv, phase \in {"sort", "search", "cycle"}, queue = <<>>,
           Len(result) # Cardinality(Sources)
    PROVE  Remaining # {} /\ \A f \in Remaining : DepsToTry(f) # {}
<1>1. Remaining # {} /\ \A f \in Remaining : EdgesInto(f, Remaining) # {}
  BY StuckFiles
<1> QED BY <1>1 DEF DepsToTry

-----------------------------------------------------------------------------
(* The cycle reported.                                                     *)

\* Starting at the least file left over, the walk has everything to try.
LEMMA WalkStarts == SortInv /\ SortStuck => WalkInv'
<1> SUFFICES ASSUME SortInv, SortStuck PROVE WalkInv'
  OBVIOUS
<1> DEFINE start == Least(Remaining)
<1>1. start \in Remaining
  <2>1. Remaining # {} /\ Remaining \subseteq Files
    BY StuckFiles DEF SortStuck
  <2> QED BY <2>1, FilesAssumption, LeastExists
<1>2. /\ path' = <<start>> /\ visited' = {start} /\ untried' = <<DepsToTry(start)>>
      /\ phase' = "search" /\ Remaining' = Remaining
      /\ UNCHANGED <<project, edges, result>>
  BY DEF SortStuck, sortVars, Remaining, Sources
<1>3. \A f : DepsToTry(f)' = DepsToTry(f)
  BY <1>2 DEF DepsToTry, EdgesInto
<1> HIDE DEF start
<1>4. path' \in Seq(Remaining') /\ Len(path') = 1 /\ path'[1] = start /\ untried'[1] = DepsToTry(start)
  BY <1>1, <1>2
<1>5. Range(path') = {start}
  BY <1>2, <1>4 DEF Range
<1>6. WalkGoesOn'
  BY <1>2, <1>3, <1>4, <1>5 DEF WalkGoesOn
<1> QED BY <1>2, <1>6 DEF WalkInv, CycleIsReal

\* A part of the path that ends where it is entered again is a cycle.
LEMMA PathClosed ==
    ASSUME SortInv, WalkGoesOn, phase = "search", NEW i \in DOMAIN path,
           path[i] \in DepsToTry(path[Len(path)]),
           phase' = "cycle", project' = project, cycle' = CyclePairs(i)
    PROVE  CycleIsReal'
<1> DEFINE n == Len(path) - i + 1
           to(k) == IF k = n THEN path[i] ELSE path[i + k]
<1>1. /\ path \in Seq(Remaining) /\ Len(path) \in Nat /\ i \in 1..Len(path)
      /\ \A k \in 1..(Len(path) - 1) : path[k + 1] \in DepsToTry(path[k])
  BY DEF WalkGoesOn
<1>2. n \in Nat /\ n >= 1 /\ n = Len(path) - i + 1
  BY <1>1
<1>3. cycle' = [k \in 1..n |-> <<path[i + k - 1], ImportPath(path[i + k - 1], to(k))>>]
  BY DEF CyclePairs
<1>4. ASSUME NEW k \in 1..n
      PROVE  path[i + k - 1] \in Remaining /\ to(k) \in DepsToTry(path[i + k - 1])
  <2>1. i + k - 1 \in 1..Len(path) /\ i + k - 1 \in Nat
    BY <1>1, <1>2
  <2>2. path[i + k - 1] \in Remaining
    BY <1>1, <2>1
  <2>3. CASE k = n
    <3>1. i + k - 1 = Len(path)
      BY <1>1, <1>2, <2>3
    <3> QED BY <2>2, <2>3, <3>1
  <2>4. CASE k # n
    <3>1. i + k - 1 \in 1..(Len(path) - 1) /\ (i + k - 1) + 1 = i + k
      <4>1. k \in 1..n - 1 /\ i \in 1..Len(path) /\ Len(path) \in Nat /\ n = Len(path) - i + 1
        BY <1>1, <1>2, <2>4
      <4> HIDE DEF n
      <4> QED BY <4>1
    <3>2. path[i + k] \in DepsToTry(path[i + k - 1])
      BY <1>1, <3>1
    <3> QED BY <2>2, <2>4, <3>2
  <2> QED BY <2>3, <2>4
<1>5. DOMAIN cycle' = 1..n /\ cycle' \in Seq(Files \X Nat)
  <2>1. path \in Seq(Files) /\ project \in Projects
    BY DEF SortInv, TypeOK
  <2> QED BY <1>3, <2>1, CyclePairsType
<1>6. Len(cycle') = n
  BY <1>2, <1>5
<1>7. ASSUME NEW k \in 1..n
      PROVE  /\ cycle'[k] = <<path[i + k - 1], ImportPath(path[i + k - 1], to(k))>>
             /\ cycle'[(k % n) + 1][1] = to(k)
  <2>1. CASE k = n
    <3>1. (k % n) + 1 = 1 /\ 1 \in 1..n
      BY <1>2, <2>1
    <3>2. cycle'[1][1] = path[i + 1 - 1] /\ i + 1 - 1 = i
      BY <1>1, <1>3, <3>1
    <3>3. cycle'[(k % n) + 1][1] = to(k)
      BY <2>1, <3>1, <3>2
    <3> QED BY <1>3, <3>3
  <2>2. CASE k # n
    <3>1. k % n = k /\ k + 1 \in 1..n
      BY <1>2, <2>2
    <3>2. cycle'[k + 1][1] = path[i + (k + 1) - 1] /\ i + (k + 1) - 1 = i + k
      BY <1>1, <1>3, <3>1
    <3> QED BY <1>3, <2>2, <3>1, <3>2
  <2> QED BY <2>1, <2>2
<1> HIDE DEF n, to
<1>8. cycle' # <<>>
  BY <1>2, <1>6
<1>9. ASSUME NEW k \in DOMAIN cycle'
      PROVE  LET f == cycle'[k][1]
                 after == cycle'[(k % Len(cycle')) + 1][1]
                 j == cycle'[k][2]
             IN  IF j = 0
                 THEN f \in project.test /\ after \notin project.test /\ MustFollow(f, after)
                 ELSE project.imports[f][j] = project.dir[after]
  <2>1. /\ cycle'[k][1] = path[i + k - 1] /\ cycle'[(k % Len(cycle')) + 1][1] = to(k)
        /\ cycle'[k][2] = ImportPath(path[i + k - 1], to(k))
    <3>1. k \in 1..n /\ Len(cycle') = n
      BY <1>5, <1>6
    <3>2. cycle'[k] = <<path[i + k - 1], ImportPath(path[i + k - 1], to(k))>> /\ cycle'[(k % n) + 1][1] = to(k)
      BY <1>7, <3>1
    <3> QED BY <3>1, <3>2
  <2>2. path[i + k - 1] \in Remaining /\ to(k) \in DepsToTry(path[i + k - 1])
    BY <1>4, <1>5
  <2> QED BY <2>1, <2>2, EdgeExplained
<1> QED BY <1>8, <1>9 DEF CycleIsReal, MustFollow

\* The walk goes on to a new file or closes a cycle; nothing is ever without a
\* dependency left to try, so it neither skips nor turns back.
LEMMA WalkStep == SortInv /\ WalkInv /\ DfsStep => WalkInv'
<1> SUFFICES ASSUME SortInv, WalkInv, DfsStep PROVE WalkInv'
  OBVIOUS
<1> DEFINE last == untried[Len(path)]
           dep == Least(last)
<1>1. /\ phase = "search" /\ path \in Seq(Remaining) /\ path # <<>> /\ visited = Range(path)
      /\ \A k \in 1..(Len(path) - 1) : path[k + 1] \in DepsToTry(path[k])
      /\ last = DepsToTry(path[Len(path)])
      /\ untried \in Seq(SUBSET Files) /\ Len(untried) = Len(path)
      /\ UNCHANGED <<project, edges, result>>
  BY DEF SortInv, TypeOK, PhasesAgree, DfsStep, sortVars, WalkInv, WalkGoesOn
<1>2. Len(path) \in 1..Len(path) /\ path[Len(path)] \in Remaining
  BY <1>1
<1>3. last # {} /\ last \subseteq Files
  BY <1>1, <1>2, SomethingToTry DEF SortInv, PhasesAgree
<1>4. dep \in last /\ dep \in Remaining
  <2>1. dep \in last
    BY <1>3, FilesAssumption, LeastExists
  <2>2. dep \in DepsToTry(path[Len(path)])
    BY <1>1, <2>1
  <2>3. dep \in Remaining
    BY <2>2 DEF DepsToTry, EdgesInto
  <2> QED BY <2>1, <2>3
<1>5. Remaining' = Remaining /\ \A f : DepsToTry(f)' = DepsToTry(f)
  BY <1>1 DEF Remaining, Sources, DepsToTry, EdgesInto
<1> HIDE DEF dep
<1>6. CASE dep \in Range(path)
  <2> DEFINE i == CHOOSE j \in DOMAIN path : path[j] = dep
  <2>1. phase' = "cycle" /\ cycle' = CyclePairs(i)
    BY <1>3, <1>6 DEF DfsStep, Found, dep
  <2>2. i \in DOMAIN path /\ path[i] = dep
    BY <1>6 DEF Range
  <2> HIDE DEF i
  <2>3. CycleIsReal'
    BY <1>1, <1>4, <2>1, <2>2, PathClosed DEF WalkInv
  <2> QED BY <2>1, <2>3 DEF WalkInv, WalkGoesOn
<1>7. CASE dep \notin Range(path)
  <2>1. Enter(dep)
    BY <1>1, <1>3, <1>7 DEF DfsStep, dep
  <2>2. /\ path' = Append(path, dep) /\ visited' = visited \cup {dep} /\ phase' = "search"
        /\ untried' = Append([untried EXCEPT ![Len(path)] = @ \ {dep}], DepsToTry(dep))
    BY <1>1, <2>1 DEF Enter
  <2>3. /\ path' \in Seq(Remaining') /\ Len(path') = Len(path) + 1
        /\ path'[Len(path')] = dep /\ \A k \in 1..Len(path) : path'[k] = path[k]
    BY <1>1, <1>4, <1>5, <2>2
  <2>4. Range(path') = Range(path) \cup {dep}
    BY <1>1, <1>4, <2>2, RangeAppend
  <2>5. untried'[Len(path')] = DepsToTry(dep)
    <3>1. [untried EXCEPT ![Len(path)] = @ \ {dep}] \in Seq(SUBSET Files)
          /\ Len([untried EXCEPT ![Len(path)] = @ \ {dep}]) = Len(path)
      BY <1>1, <1>2
    <3> QED BY <2>2, <2>3, <3>1
  <2>6. ASSUME NEW k \in 1..(Len(path') - 1)
        PROVE  path'[k + 1] \in DepsToTry(path'[k])
    <3>1. k \in 1..Len(path) /\ path'[k] = path[k]
      BY <1>1, <2>3
    <3>2. CASE k = Len(path)
      BY <1>1, <1>4, <2>3, <3>1, <3>2
    <3>3. CASE k # Len(path)
      BY <1>1, <2>3, <3>1, <3>3
    <3> QED BY <3>2, <3>3
  <2>7. WalkGoesOn'
    BY <1>1, <1>5, <2>2, <2>3, <2>4, <2>5, <2>6 DEF WalkGoesOn
  <2> QED BY <2>2, <2>7 DEF WalkInv, CycleIsReal
<1> QED BY <1>6, <1>7

\* A reported cycle is a cycle of the project, each file with the import that
\* leads to the next, whatever the project: find_cycle always finds one.
THEOREM CycleReal == Spec => []CycleIsReal
<1>1. Init => WalkInv
  BY DEF Init, WalkInv, WalkGoesOn, CycleIsReal
<1>2. SortInv /\ WalkInv /\ [Next]_vars => WalkInv'
  <2> SUFFICES ASSUME SortInv, WalkInv, [Next]_vars PROVE WalkInv'
    OBVIOUS
  <2>1. CASE BuildFails \/ Build \/ CountDegrees \/ PopFile \/ SortDone
    <3>1. phase' \notin {"search", "cycle"}
      BY <2>1 DEF BuildFails, Build, CountDegrees, PopFile, SortDone
    <3> QED BY <3>1 DEF WalkInv, WalkGoesOn, CycleIsReal
  <2>2. CASE SortStuck
    BY <2>2, WalkStarts
  <2>3. CASE DfsStep
    BY <2>3, WalkStep
  <2>4. CASE UNCHANGED vars
    BY <2>4 DEF WalkInv, WalkGoesOn, CycleIsReal, vars, sortVars, walkVars, Remaining,
                Sources, DepsToTry, EdgesInto, MustFollow
  <2> QED BY <2>1, <2>2, <2>3, <2>4 DEF Next, Step, Finished
<1>3. WalkInv => CycleIsReal
  BY DEF WalkInv
<1> QED BY <1>1, <1>2, <1>3, SortInvariant, PTL DEF Spec

-----------------------------------------------------------------------------
(* The verdict.                                                            *)

\* The directories of files that wait for each other import each other.
LEMMA StuckMeansCycle ==
    ASSUME SortInv, phase \in {"search", "cycle"}
    PROVE  ImportCycle
<1> DEFINE D == {project.dir[f] : f \in Remaining}
<1>1. Remaining # {} /\ \A f \in Remaining : DepsToTry(f) # {}
  BY SomethingToTry DEF SortInv, PhasesAgree
<1>2. project \in ProjectType /\ Remaining \subseteq Sources /\ Sources \subseteq Files
  BY SourcesFinite, ProjectsAssumption DEF SortInv, TypeOK, Remaining
<1>3. D \in SUBSET Dirs /\ D # {}
  BY <1>1, <1>2 DEF ProjectType
<1>4. ASSUME NEW f \in Remaining, NEW g \in DepsToTry(f), ImportPath(f, g) # 0
      PROVE  Range(project.imports[f]) \cap D # {}
  <2>1. g \in Remaining /\ ImportPath(f, g) \in DOMAIN project.imports[f]
        /\ project.imports[f][ImportPath(f, g)] = project.dir[g]
    BY <1>4, EdgeExplained
  <2> QED BY <2>1 DEF Range
<1>5. ASSUME NEW f \in Remaining
      PROVE  \E h \in Sources : project.dir[h] = project.dir[f]
                                  /\ Range(project.imports[h]) \cap D # {}
  <2>1. PICK g \in DepsToTry(f) : TRUE
    BY <1>1
  <2>2. CASE ImportPath(f, g) # 0
    BY <1>2, <1>4, <2>1, <2>2
  <2>3. CASE ImportPath(f, g) = 0
    <3>1. g \in Remaining /\ g \notin project.test /\ MustFollow(f, g)
      BY <2>3, EdgeExplained
    <3>2. CASE \E i \in DOMAIN project.imports[f] : project.imports[f][i] = project.dir[g]
      BY <1>2, <3>1, <3>2 DEF Range
    <3>3. CASE project.dir[f] = project.dir[g]
      <4>1. PICK h \in DepsToTry(g) : TRUE
        BY <1>1, <3>1
      <4>2. ImportPath(g, h) # 0
        BY <3>1, <4>1, EdgeExplained
      <4> QED BY <1>2, <1>4, <3>1, <3>3, <4>1, <4>2
    <3> QED BY <3>1, <3>2, <3>3 DEF MustFollow
  <2> QED BY <2>2, <2>3
<1>6. ClosedOnImports(D)
  BY <1>5 DEF ClosedOnImports
<1> QED BY <1>3, <1>6 DEF ImportCycle

\* Of directories that import each other, no file can be the first handed out.
LEMMA SortedMeansNoCycle ==
    ASSUME OrderRespectsImports, project \in Projects, result \in Seq(Sources), Range(result) = Sources
    PROVE  ~ ImportCycle
<1> SUFFICES ASSUME NEW D \in SUBSET Dirs, D # {}, ClosedOnImports(D) PROVE FALSE
  BY DEF ImportCycle
<1> DEFINE Waits(f) == project.dir[f] \in D /\ Range(project.imports[f]) \cap D # {}
           P == {j \in DOMAIN result : Waits(result[j])}
<1>1. \A d \in D : \E f \in Sources : project.dir[f] = d /\ Waits(f)
  BY DEF ClosedOnImports
<1>2. \A f \in Sources : Waits(f) => \E j \in P : result[j] = f
  BY DEF Range
<1>3. P # {} /\ P \in SUBSET Nat
  BY <1>1, <1>2
<1> DEFINE first == Least(P)
<1>4. first \in P /\ \A j \in P : first <= j
  BY <1>3, LeastExists
<1> HIDE DEF first
<1>5. PICK d \in Range(project.imports[result[first]]) : d \in D
  BY <1>4
<1>6. PICK g \in Sources : project.dir[g] = d /\ Waits(g)
  BY <1>1, <1>5
<1>7. MustFollow(result[first], g)
  BY <1>5, <1>6 DEF MustFollow, Range
<1>8. PICK i \in 1..(first - 1) : result[i] = g
  BY <1>4, <1>7 DEF OrderRespectsImports
<1>9. i \in P /\ i < first
  BY <1>3, <1>4, <1>6, <1>8
<1> QED BY <1>3, <1>4, <1>9

\* A finished sort has handed out every source, once.
LEMMA EverySourceOnce ==
    ASSUME SortInv, phase = "sorted"
    PROVE  IsInjective(result) /\ Range(result) = Sources
<1>1. /\ project \in Projects /\ result \in Seq(Sources) /\ queue \in Seq(Sources)
      /\ Len(result) = Cardinality(Sources) /\ IsInjective(result \o queue)
  BY DEF SortInv, TypeOK, PhasesAgree, QueueIsReady
<1>2. IsInjective(result) /\ Range(result) \subseteq Sources /\ IsFiniteSet(Sources)
  BY <1>1, InjectiveConcat, RangeOfSeq, SourcesFinite
<1>3. Cardinality(Range(result)) = Cardinality(Sources)
  BY <1>1, <1>2, InjectiveLength
<1> QED BY <1>2, <1>3, FS_Subset

\* The sort rejects exactly the projects whose packages import each other in a
\* circle and hands out every source of the others, whatever the project.
THEOREM VerdictCorrect == Spec => []VerdictIsExact
<1>1. SortInv => VerdictIsExact
  <2> SUFFICES ASSUME SortInv PROVE VerdictIsExact
    OBVIOUS
  <2>1. phase \in {"search", "cycle"} => ImportCycle
    BY StuckMeansCycle
  <2>2. ASSUME phase = "sorted" PROVE ~ImportCycle /\ Range(result) = Sources
    BY <2>2, OrderFollows, EverySourceOnce, SortedMeansNoCycle DEF SortInv, TypeOK
  <2> QED BY <2>1, <2>2 DEF VerdictIsExact
<1> QED BY <1>1, SortInvariant, PTL

-----------------------------------------------------------------------------
(* The state of the checker.                                               *)

Errors ==
    ({"import"} \X Paths) \cup ({"name"} \X Uses) \cup ({"method"} \X Names) \cup ({"unused"} \X Names)

ModuleType == [functions : SUBSET Names, types : SUBSET Names, constants : {{}}]

InferType ==
    [scope : SUBSET Names,
     imports : [Names -> [to : {"none", "soppo", "go"}, module : Paths \cup {"main"}]],
     used : SUBSET Names, errors : SUBSET Errors, failed : BOOLEAN]

IsCtxt(c) ==
    c \in [modules : [ModuleIds -> ModuleType], current : ModuleIds, soppo_imports : {c.soppo_imports}]

IsChecker(s) == s \in [ctxt : {s.ctxt}, infer : InferType] /\ IsCtxt(s.ctxt)

\* The checker starts typed.
LEMMA NewStates == IsCtxt(NewCtxt) /\ NewInfer \in InferType
<1>1. IsCtxt(NewCtxt)
  BY DEF IsCtxt, NewCtxt, ModuleType, ModuleIds
<1>2. NewInfer \in InferType
  BY DEF NewInfer, InferType, NoImport
<1> QED BY <1>1, <1>2

-----------------------------------------------------------------------------
(* Imports.                                                                *)

\* The import is reported, or it binds its name to what it stands for.
Fails(b) == ImportTargets(project, b.path) = {} /\ b.path \in Unresolvable /\ ~ b.aliased

Bound(b) ==
    [to |-> IF ImportTargets(project, b.path) # {} THEN "soppo" ELSE "go", module |-> b.path]

\* What one import does, case by case.
LEMMA ImportFacts ==
    ASSUME NEW s, IsChecker(s), NEW b \in Bindings
    PROVE  LET r == Import(s, b)
           IN  /\ IsChecker(r) /\ r.ctxt.modules = s.ctxt.modules /\ r.ctxt.current = s.ctxt.current
               /\ IF b.name = "_" THEN r.infer = s.infer
                  ELSE IF Fails(b)
                  THEN /\ r.infer.imports = s.infer.imports /\ r.infer.scope = s.infer.scope
                       /\ r.infer.used = s.infer.used
                       /\ r.infer.errors = s.infer.errors \cup {<<"import", b.path>>}
                       /\ r.infer.failed = TRUE
                  ELSE /\ r.infer.imports = [s.infer.imports EXCEPT ![b.name] = Bound(b)]
                       /\ r.infer.scope = s.infer.scope \cup {b.name}
                       /\ r.infer.used = s.infer.used \ {b.name}
                       /\ r.infer.errors = s.infer.errors
                       /\ r.infer.failed = s.infer.failed
<1> DEFINE r == Import(s, b)
           c == [s.ctxt EXCEPT !.soppo_imports = (b.name :> b.path) @@ @]
<1>1. /\ IsCtxt(s.ctxt) /\ s.infer \in InferType
      /\ b.path \in Paths /\ b.name \in Names \cup {"_"} /\ b.aliased \in BOOLEAN
  BY DEF IsChecker, Bindings
<1>2. CASE b.name = "_"
  BY <1>2 DEF Import
<1>3. CASE b.name # "_" /\ Fails(b)
  <2>1. r = Both(s.ctxt, Failing(s.infer, <<"import", b.path>>))
    BY <1>3 DEF Import, Fails
  <2> DEFINE i == Failing(s.infer, <<"import", b.path>>)
  <2>2. <<"import", b.path>> \in Errors
    BY <1>1 DEF Errors
  <2>3. /\ i.imports = s.infer.imports /\ i.scope = s.infer.scope /\ i.used = s.infer.used
        /\ i.errors = s.infer.errors \cup {<<"import", b.path>>} /\ i.failed = TRUE
        /\ i \in InferType
    BY <1>1, <2>2 DEF Failing, InferType
  <2> HIDE DEF i
  <2>4. r.infer = i /\ r.ctxt = s.ctxt /\ r \in [ctxt : {r.ctxt}, infer : {i}]
    BY <2>1 DEF Both, i
  <2> HIDE DEF r
  <2> QED BY <1>1, <1>3, <2>3, <2>4 DEF IsChecker, r
<1>4. CASE b.name # "_" /\ ~ Fails(b)
  <2> DEFINE to == IF ImportTargets(project, b.path) # {} THEN "soppo" ELSE "go"
             i == Binding(s.infer, b, to, b.path)
  <2>1. \/ r = Both(c, i)
        \/ r = Both(s.ctxt, i)
    BY <1>4 DEF Import, Fails
  <2>2. /\ i.imports = [s.infer.imports EXCEPT ![b.name] = Bound(b)]
        /\ i.scope = s.infer.scope \cup {b.name}
        /\ i.used = s.infer.used \ {b.name}
        /\ i.errors = s.infer.errors /\ i.failed = s.infer.failed
        /\ i \in InferType
    BY <1>1, <1>4 DEF Binding, InferType, Bound
  <2>3. IsCtxt(c) /\ c.modules = s.ctxt.modules /\ c.current = s.ctxt.current
    <3> DEFINE x == (b.name :> b.path) @@ s.ctxt.soppo_imports
    <3> HIDE DEF x
    <3>1. c = [s.ctxt EXCEPT !.soppo_imports = x]
      BY DEF x
    <3> HIDE DEF c
    <3> QED BY <1>1, <3>1 DEF IsCtxt
  <2> HIDE DEF i, c
  <2>4. /\ r.infer = i /\ (r.ctxt = c \/ r.ctxt = s.ctxt)
        /\ r \in [ctxt : {r.ctxt}, infer : {i}]
    BY <2>1 DEF Both
  <2> QED BY <1>1, <1>4, <2>2, <2>3, <2>4 DEF IsChecker
<1> QED BY <1>2, <1>3, <1>4

ImportTurn(c, s, b) == Import(s, b)

Imports == INSTANCE Iteration WITH Turn <- ImportTurn

\* What the checker has after imports: whatever names a blank leaves out.
NamesBound(s, r, bs) ==
    /\ s.scope \subseteq r.scope
    /\ \A n \in r.scope : n \in s.scope \/ \E b \in bs : b.name = n
    /\ r.used \subseteq s.used
    /\ \A n \in Names :
        \/ r.imports[n] = s.imports[n]
        \/ \E b \in bs : b.name = n /\ r.imports[n] = Bound(b)

AllFound(s, r, bs) ==
    /\ r.errors = s.errors
    /\ \A b \in bs :
        /\ ~ Fails(b) /\ b.name \in r.scope
        /\ \E d \in bs : d.name = b.name /\ r.imports[b.name] = Bound(d)

OneMissing(r, bs) == \E b \in bs : Fails(b) /\ <<"import", b.path>> \in r.errors

Processed(s, r, bs) ==
    /\ IsChecker(r) /\ r.ctxt.modules = s.ctxt.modules /\ r.ctxt.current = s.ctxt.current
    /\ NamesBound(s.infer, r.infer, bs)
    /\ s.infer.errors \subseteq r.infer.errors
    /\ r.infer.errors \subseteq s.infer.errors \cup ({"import"} \X Paths)
    /\ IF r.infer.failed THEN OneMissing(r.infer, bs) ELSE AllFound(s.infer, r.infer, bs)

Binders(bs) == {b \in bs : b.name # "_"}

\* One more import.
LEMMA ImportProcessed ==
    ASSUME NEW s, NEW r, NEW bs, Processed(s, r, bs), NEW b \in Bindings,
           bs \subseteq Bindings, \A d \in bs : d.name # "_"
    PROVE  Processed(s, Import(r, b), bs \cup Binders({b}))
<1> DEFINE q == Import(r, b)
           ds == bs \cup Binders({b})
<1>1. IsChecker(r) /\ r.ctxt.modules = s.ctxt.modules /\ r.ctxt.current = s.ctxt.current
  BY DEF Processed
<1>2. IsChecker(q) /\ q.ctxt.modules = s.ctxt.modules /\ q.ctxt.current = s.ctxt.current
  BY <1>1, ImportFacts
<1>3. r.infer \in InferType /\ b.path \in Paths
  BY <1>1 DEF IsChecker, Bindings
<1>4. CASE b.name = "_"
  <2>1. ds = bs /\ q.infer = r.infer
    BY <1>1, <1>4, ImportFacts DEF Binders
  <2> HIDE DEF q, ds
  <2>2. Processed(s, q, ds)
    BY <1>2, <2>1 DEF Processed
  <2> QED BY <2>2 DEF q, ds
<1>5. CASE b.name # "_" /\ Fails(b)
  <2>1. ds = bs \cup {b} /\ b \in ds /\ bs \subseteq ds
    BY <1>5 DEF Binders
  <2>2. /\ q.infer.imports = r.infer.imports /\ q.infer.scope = r.infer.scope
        /\ q.infer.used = r.infer.used /\ q.infer.errors = r.infer.errors \cup {<<"import", b.path>>}
        /\ q.infer.failed = TRUE
    BY <1>1, <1>5, ImportFacts
  <2> HIDE DEF q, ds
  <2>3. NamesBound(s.infer, q.infer, ds)
    <3>1. ASSUME NEW n \in Names
          PROVE  \/ q.infer.imports[n] = s.infer.imports[n]
                 \/ \E d \in ds : d.name = n /\ q.infer.imports[n] = Bound(d)
      <4>1. \/ r.infer.imports[n] = s.infer.imports[n]
            \/ \E d \in bs : d.name = n /\ r.infer.imports[n] = Bound(d)
        BY DEF Processed, NamesBound
      <4> QED BY <2>1, <2>2, <4>1
    <3>2. NamesBound(s.infer, r.infer, bs)
      BY DEF Processed
    <3>3. s.infer.scope \subseteq q.infer.scope /\ q.infer.used \subseteq s.infer.used
      BY <2>2, <3>2 DEF NamesBound
    <3>4. \A n \in q.infer.scope : n \in s.infer.scope \/ \E d \in ds : d.name = n
      BY <2>1, <2>2, <3>2 DEF NamesBound
    <3> QED BY <3>1, <3>3, <3>4 DEF NamesBound
  <2>4. OneMissing(q.infer, ds)
    BY <1>5, <2>1, <2>2 DEF OneMissing
  <2>5. <<"import", b.path>> \in {"import"} \X Paths
    BY <1>3
  <2>6. Processed(s, q, ds)
    BY <1>2, <2>2, <2>3, <2>4, <2>5 DEF Processed
  <2> QED BY <2>6 DEF q, ds
<1>6. CASE b.name # "_" /\ ~ Fails(b)
  <2>1. ds = bs \cup {b} /\ b.name \in Names
    BY <1>6 DEF Bindings, Binders
  <2>2. /\ q.infer.imports = [r.infer.imports EXCEPT ![b.name] = Bound(b)]
        /\ q.infer.scope = r.infer.scope \cup {b.name}
        /\ q.infer.used = r.infer.used \ {b.name}
        /\ q.infer.errors = r.infer.errors /\ q.infer.failed = r.infer.failed
    BY <1>1, <1>6, ImportFacts
  <2>3. \A n \in Names : q.infer.imports[n] = IF n = b.name THEN Bound(b) ELSE r.infer.imports[n]
    BY <1>3, <2>2 DEF InferType
  <2> HIDE DEF q, ds
  <2>4. NamesBound(s.infer, q.infer, ds)
    <3>1. ASSUME NEW n \in Names
          PROVE  \/ q.infer.imports[n] = s.infer.imports[n]
                 \/ \E d \in ds : d.name = n /\ q.infer.imports[n] = Bound(d)
      <4>1. CASE n = b.name
        BY <2>1, <2>3, <4>1
      <4>2. CASE n # b.name
        <5>1. q.infer.imports[n] = r.infer.imports[n]
          BY <2>3, <4>2
        <5> QED BY <2>1, <5>1 DEF Processed, NamesBound
      <4> QED BY <4>1, <4>2
    <3>2. \A n \in q.infer.scope : n \in s.infer.scope \/ \E d \in ds : d.name = n
      BY <2>1, <2>2 DEF Processed, NamesBound
    <3> QED BY <2>1, <2>2, <3>1, <3>2 DEF Processed, NamesBound
  <2>5. CASE r.infer.failed
    <3>1. OneMissing(q.infer, ds)
      BY <2>1, <2>2, <2>5 DEF Processed, OneMissing
    <3>2. Processed(s, q, ds)
      BY <1>2, <2>2, <2>4, <2>5, <3>1 DEF Processed
    <3> QED BY <3>2 DEF q, ds
  <2>6. CASE ~ r.infer.failed
    <3>1. AllFound(s.infer, r.infer, bs)
      BY <2>6 DEF Processed
    <3>2. ASSUME NEW d \in ds
          PROVE  /\ ~ Fails(d) /\ d.name \in q.infer.scope
                 /\ \E e \in ds : e.name = d.name /\ q.infer.imports[d.name] = Bound(e)
      <4>1. CASE d = b
        BY <1>6, <2>1, <2>2, <2>3, <4>1
      <4>2. CASE d # b
        <5>1. d \in bs /\ d.name \in Names
          BY <2>1, <4>2 DEF Bindings
        <5>2. PICK e \in bs : e.name = d.name /\ r.infer.imports[d.name] = Bound(e)
          BY <3>1, <5>1 DEF AllFound
        <5>3. \/ q.infer.imports[d.name] = Bound(b) /\ b.name = d.name
              \/ q.infer.imports[d.name] = Bound(e)
          BY <2>3, <5>1, <5>2
        <5> QED BY <2>1, <2>2, <3>1, <5>1, <5>2, <5>3 DEF AllFound
      <4> QED BY <4>1, <4>2
    <3>3. AllFound(s.infer, q.infer, ds)
      BY <2>2, <3>1, <3>2 DEF AllFound
    <3>4. Processed(s, q, ds)
      BY <1>2, <2>2, <2>4, <2>6, <3>3 DEF Processed
    <3> QED BY <3>4 DEF q, ds
  <2> QED BY <2>5, <2>6
<1> QED BY <1>4, <1>5, <1>6

\* The imports of a file that bind a name.
BindingsOf(f) == Binders(Range(code[f].imports))

\* All the imports of a file.
LEMMA ImportsProcessed ==
    ASSUME code \in [Files -> CodeType], NEW f \in Files, NEW s, IsChecker(s)
    PROVE  Processed([s EXCEPT !.infer.failed = FALSE], ProcessImports(s, f), BindingsOf(f))
<1> DEFINE start == [s EXCEPT !.infer.failed = FALSE]
           list == code[f].imports
           To(n) == {b \in Bindings : b.name # "_" /\ \E i \in 1..n : list[i] = b}
<1>1. list \in Seq(Bindings) /\ Len(list) \in Nat
  BY DEF CodeType
<1>2. IsChecker(start) /\ start.infer.failed = FALSE
  BY DEF IsChecker, InferType, IsCtxt
<1> HIDE DEF start
<1>3. ProcessImports(s, f) = Imports!Loop(0, start, list)
  BY DEF ProcessImports, Imports!Loop, Each, Imports!Each, ImportTurn, start
<1>4. PICK states : Imports!Runs(0, start, list, states) /\ ProcessImports(s, f) = states[Len(list)]
  BY <1>1, <1>3, Imports!LoopRuns
<1>5. /\ states[0] = start
      /\ \A i \in 1..Len(list) : states[i] = Import(states[i - 1], list[i])
  BY <1>4 DEF Imports!Runs, ImportTurn
<1> HIDE DEF list
<1>6. To(0) = {}
  OBVIOUS
<1>7. \A n \in 0..Len(list) : To(n) \subseteq Bindings /\ \A b \in To(n) : b.name # "_"
  OBVIOUS
<1>8. \A n \in 1..Len(list) : To(n) = To(n - 1) \cup Binders({list[n]})
  <2> SUFFICES ASSUME NEW n \in 1..Len(list) PROVE To(n) = To(n - 1) \cup Binders({list[n]})
    OBVIOUS
  <2>1. 1..n = (1..(n - 1)) \cup {n} /\ list[n] \in Bindings
    BY <1>1
  <2> QED BY <2>1 DEF Binders
<1> HIDE DEF To
<1> DEFINE Good == {n \in 0..Len(list) : Processed(start, states[n], To(n))}
<1>9. 0 \in Good
  <2>1. Processed(start, start, {})
    BY <1>2 DEF Processed, NamesBound, AllFound
  <2>2. 0 \in 0..Len(list)
    BY <1>1
  <2> QED BY <1>5, <1>6, <2>1, <2>2
<1>10. ASSUME NEW n \in 1..Len(list), n - 1 \in Good PROVE n \in Good
  <2>1. list[n] \in Bindings /\ n - 1 \in 0..Len(list) /\ n \in 0..Len(list)
    BY <1>1
  <2>2. Processed(start, states[n - 1], To(n - 1))
    BY <1>10
  <2>3. To(n - 1) \subseteq Bindings /\ \A b \in To(n - 1) : b.name # "_"
    BY <1>7, <2>1
  <2>4. Processed(start, Import(states[n - 1], list[n]), To(n - 1) \cup Binders({list[n]}))
    BY <2>1, <2>2, <2>3, ImportProcessed
  <2>5. Processed(start, states[n], To(n))
    BY <1>5, <1>8, <2>4
  <2> QED BY <2>1, <2>5
<1>11. Len(list) \in Good
  <2>1. Len(list) \in 0..Len(list)
    BY <1>1
  <2> HIDE DEF Good
  <2> QED BY <1>1, <1>9, <1>10, <2>1, Imports!CountUp
<1>12. To(Len(list)) = BindingsOf(f)
  <2>1. Range(list) = {b \in Bindings : \E i \in 1..Len(list) : list[i] = b}
    BY <1>1 DEF Range
  <2> QED BY <2>1 DEF BindingsOf, Binders, To, list
<1> QED BY <1>4, <1>11, <1>12 DEF start

-----------------------------------------------------------------------------
(* Declarations and bodies.                                                *)

\* Declared is monotone in the kinds, and a name has a declaration.
LEMMA DeclaredFacts ==
    ASSUME code \in [Files -> CodeType], NEW f \in Files, NEW kinds
    PROVE  /\ Declared(f, kinds) \subseteq Names
           /\ \A n \in Declared(f, kinds) : \E d \in Range(code[f].decls) : d.kind \in kinds /\ d.name = n
           /\ \A d \in Range(code[f].decls) : d.kind \in kinds => d.name \in Declared(f, kinds)
<1>1. code[f].decls \in Seq(Decls)
  BY DEF CodeType
<1>2. Range(code[f].decls) \subseteq Decls
  BY <1>1, RangeOfSeq
<1> QED BY <1>2 DEF Declared, Decls

\* What pass 1 adds, to the module at work and to the scope.
LEMMA RegisterFacts ==
    ASSUME code \in [Files -> CodeType], NEW f \in Files, NEW s, IsChecker(s)
    PROVE  LET r == RegisterDeclarations(s, f)
               m == s.ctxt.current
               old == s.ctxt.modules
               new == r.ctxt.modules
           IN  /\ IsChecker(r) /\ r.ctxt.current = m
               /\ \A k \in ModuleIds :
                    /\ new[k].functions = old[k].functions
                            \cup (IF k = m THEN Declared(f, {"func", "method"}) ELSE {})
                    /\ new[k].types = old[k].types \cup (IF k = m THEN Declared(f, {"type"}) ELSE {})
               /\ r.infer.scope = s.infer.scope \cup Declared(f, {"func", "method"})
               /\ r.infer.imports = s.infer.imports /\ r.infer.used = s.infer.used
               /\ r.infer.errors = s.infer.errors \cup Refused(f) /\ r.infer.failed = s.infer.failed
<1> DEFINE F == Declared(f, {"func", "method"})
           T == Declared(f, {"type"})
           m == s.ctxt.current
           old == s.ctxt.modules
           i == [s.infer EXCEPT !.scope = @ \cup F, !.errors = @ \cup Refused(f)]
           c == [s.ctxt EXCEPT !.modules[m].types = @ \cup T, !.modules[m].functions = @ \cup F]
           r == RegisterDeclarations(s, f)
<1>1. F \subseteq Names /\ T \subseteq Names /\ Refused(f) \subseteq Errors
  <2>1. Declared(f, {"enum method"}) \subseteq Names
    BY DeclaredFacts
  <2> QED BY <2>1, DeclaredFacts DEF Refused, Errors
<1>2. r = Both(c, i)
  BY DEF RegisterDeclarations
<1> HIDE DEF F, T
<1>3. IsCtxt(s.ctxt) /\ s.infer \in InferType
  BY DEF IsChecker
<1>4. m \in ModuleIds /\ old \in [ModuleIds -> ModuleType]
  BY <1>3 DEF IsCtxt
<1>5. /\ i \in InferType /\ i.scope = s.infer.scope \cup F /\ i.imports = s.infer.imports
      /\ i.used = s.infer.used /\ i.errors = s.infer.errors \cup Refused(f) /\ i.failed = s.infer.failed
  BY <1>1, <1>3 DEF InferType
<1> DEFINE one == [old[m] EXCEPT !.types = @ \cup T, !.functions = @ \cup F]
           new == [old EXCEPT ![m] = one]
<1>6. c = [s.ctxt EXCEPT !.modules = new]
  BY <1>3, <1>4 DEF IsCtxt
<1>7. /\ one \in ModuleType /\ one.functions = old[m].functions \cup F
      /\ one.types = old[m].types \cup T
  BY <1>1, <1>4 DEF ModuleType
<1> HIDE DEF one
<1>8. /\ new \in [ModuleIds -> ModuleType]
      /\ \A k \in ModuleIds :
            /\ new[k].functions = old[k].functions \cup (IF k = m THEN F ELSE {})
            /\ new[k].types = old[k].types \cup (IF k = m THEN T ELSE {})
  BY <1>4, <1>7
<1> HIDE DEF new, c, old, m, i
<1>9. IsCtxt(c) /\ c.modules = new /\ c.current = s.ctxt.current
  BY <1>3, <1>6, <1>8 DEF IsCtxt
<1>10. r.ctxt = c /\ r.infer = i /\ r \in [ctxt : {c}, infer : {i}]
  BY <1>2 DEF Both
<1> HIDE DEF r
<1>11. IsChecker(r)
  BY <1>5, <1>9, <1>10 DEF IsChecker
<1> QED BY <1>5, <1>8, <1>9, <1>10, <1>11 DEF r, m, old, F, T

\* Of that, what the registry has afterwards, by names.
Registers(s, r, f) ==
    \A k \in ModuleIds :
        /\ r.ctxt.modules[k].functions = s.ctxt.modules[k].functions
             \cup (IF k = s.ctxt.current THEN Declared(f, {"func", "method"}) ELSE {})
        /\ r.ctxt.modules[k].types = s.ctxt.modules[k].types
             \cup (IF k = s.ctxt.current THEN Declared(f, {"type"}) ELSE {})

LEMMA RegisteredNames ==
    ASSUME code \in [Files -> CodeType], NEW f \in Files, NEW s, IsChecker(s),
           NEW r, r = RegisterDeclarations(s, f)
    PROVE  IsChecker(r) /\ r.infer.errors = s.infer.errors \cup Refused(f) /\ Registers(s, r, f)
BY RegisterFacts, SMTT(60) DEF Registers

\* What pass 2 adds to the errors, the uses and the scope.
LEMMA BodiesFacts ==
    ASSUME code \in [Files -> CodeType], NEW f \in Files, NEW s, IsChecker(s)
    PROVE  LET r == InferBodies(s, f)
               decls == code[f].decls
           IN  /\ IsChecker(r) /\ r.ctxt = s.ctxt /\ r.infer.imports = s.infer.imports
               /\ r.infer.scope = s.infer.scope \cup Declared(f, Late)
               /\ s.infer.used \subseteq r.infer.used
               /\ \A k \in DOMAIN decls : \A u \in decls[k].uses :
                    u[1] \in Names /\ s.infer.imports[u[1]].to # "none" => u[1] \in r.infer.used
               /\ s.infer.errors \subseteq r.infer.errors
               /\ \A k \in DOMAIN decls : \A u \in decls[k].uses :
                    Found1(SeenBy(s, f, k), u) \/ <<"name", u>> \in r.infer.errors
               /\ \A e \in r.infer.errors : e \in s.infer.errors
                    \/ \E k \in DOMAIN decls : \E u \in decls[k].uses :
                            ~ Found1(SeenBy(s, f, k), u) /\ e = <<"name", u>>
<1> DEFINE decls == code[f].decls
           V == Declared(f, Late)
           through == UNION {{u[1] : u \in d.uses} : d \in Range(decls)}
           used == {q \in through \ {""} : s.infer.imports[q].to # "none"}
           named == UNION {{<<"name", u>> : u \in {v \in decls[k].uses : ~ Found1(SeenBy(s, f, k), v)}} :
                              k \in DOMAIN decls}
           i == [s.infer EXCEPT !.used = @ \cup used, !.errors = @ \cup named, !.scope = @ \cup V]
           r == InferBodies(s, f)
<1>1. decls \in Seq(Decls) /\ \A k \in DOMAIN decls : decls[k] \in Decls /\ decls[k] \in Range(decls)
  BY DEF CodeType, Range
<1>2. \A d \in Range(decls) : d \in Decls /\ d.uses \subseteq Uses
  BY <1>1, RangeOfSeq DEF Decls
<1>3. r = Both(s.ctxt, i)
  BY DEF InferBodies
<1>4. used \subseteq Names
  <2>1. ASSUME NEW q \in through PROVE q \in Names \cup {""}
    <3>1. PICK d \in Range(decls) : q \in {u[1] : u \in d.uses}
      OBVIOUS
    <3>2. PICK u \in d.uses : q = u[1]
      BY <3>1
    <3> QED BY <1>2, <3>2 DEF Uses
  <2> HIDE DEF through
  <2> QED BY <2>1
<1>5. ASSUME NEW k \in DOMAIN decls, NEW u \in decls[k].uses
      PROVE  /\ u[1] \in Names /\ s.infer.imports[u[1]].to # "none" => u[1] \in used
             /\ Found1(SeenBy(s, f, k), u) \/ <<"name", u>> \in named
  <2>1. u[1] \in through
    BY <1>1
  <2>2. Found1(SeenBy(s, f, k), u) \/ <<"name", u>> \in named
    OBVIOUS
  <2> HIDE DEF through, named
  <2> QED BY <2>1, <2>2, NamesAssumption
<1>6. \A e \in named :
        \E k \in DOMAIN decls : \E u \in decls[k].uses :
            ~ Found1(SeenBy(s, f, k), u) /\ e = <<"name", u>>
  OBVIOUS
<1>7. named \subseteq Errors
  <2> SUFFICES ASSUME NEW e \in named PROVE e \in Errors
    OBVIOUS
  <2>1. PICK k \in DOMAIN decls : \E u \in decls[k].uses : e = <<"name", u>>
    BY <1>6
  <2>3. PICK u \in decls[k].uses : e = <<"name", u>>
    BY <2>1
  <2>2. u \in Uses
    BY <1>1, <1>2
  <2> HIDE DEF named, decls
  <2> QED BY <2>3, <2>2 DEF Errors
<1>8. V \subseteq Names
  BY DeclaredFacts
<1> HIDE DEF V, used, named, through, decls
<1>9. /\ i \in InferType /\ i.scope = s.infer.scope \cup V /\ i.imports = s.infer.imports
      /\ i.used = s.infer.used \cup used /\ i.errors = s.infer.errors \cup named
  BY <1>4, <1>7, <1>8 DEF IsChecker, InferType
<1> HIDE DEF i
<1>10. r.ctxt = s.ctxt /\ r.infer = i /\ r \in [ctxt : {s.ctxt}, infer : {i}]
  BY <1>3 DEF Both
<1> HIDE DEF r
<1>11. IsChecker(r)
  BY <1>9, <1>10 DEF IsChecker
<1> QED BY <1>5, <1>6, <1>9, <1>10, <1>11 DEF r, V, decls

\* check_unused_imports only adds errors of its own kind, and is content only
\* when every import is used.
LEMMA UnusedFacts ==
    ASSUME NEW i \in InferType, NEW j \in CheckUnusedImports(i)
    PROVE  /\ j \in InferType /\ i.errors \subseteq j.errors
           /\ \A e \in j.errors : e \in i.errors \/ e[1] = "unused"
           /\ j.scope = i.scope /\ j.imports = i.imports /\ j.used = i.used
           /\ j.errors = i.errors => j = i \/ UnusedImports(i) # {}
           /\ UnusedImports(i) = {} => j = i
<1>1. CASE UnusedImports(i) = {}
  BY <1>1 DEF CheckUnusedImports
<1>2. CASE UnusedImports(i) # {}
  <2>1. PICK n \in UnusedImports(i) : j = [i EXCEPT !.errors = @ \cup {<<"unused", n>>}]
    BY <1>2 DEF CheckUnusedImports
  <2>2. <<"unused", n>> \in Errors
    BY DEF UnusedImports, Errors
  <2> QED BY <1>2, <2>1, <2>2 DEF InferType
<1> QED BY <1>1, <1>2

-----------------------------------------------------------------------------
(* The sort, as its callers need it.                                       *)

\* A step of the sort comes before its verdict and leaves the project alone.
LEMMA SortStep ==
    ASSUME SortInv, Step
    PROVE  SortInv' /\ phase \in {"build", "count", "sort", "search"} /\ project' = project
<1>1. SortInv'
  BY BuildFailsInv, BuildInv, CountDegreesInv, PopFileInv, SortDoneInv, SortStuckInv,
     DfsStepInv DEF Step
<1>2. phase \in {"build", "count", "sort", "search"} /\ project' = project
  BY DEF Step, BuildFails, Build, CountDegrees, PopFile, SortDone, SortStuck, DfsStep
<1> QED BY <1>1, <1>2

\* What a finished sort hands its caller.
LEMMA SortedFacts ==
    ASSUME SortInv, phase = "sorted"
    PROVE  /\ result \in Seq(Sources) /\ Range(result) = Sources
           /\ \A i, j \in DOMAIN result : result[i] = result[j] => i = j
           /\ \A j \in DOMAIN result : \A g \in Sources :
                MustFollow(result[j], g) => \E i \in 1..(j - 1) : result[i] = g
           /\ project \in ProjectType /\ Sources \subseteq Files /\ Sources \subseteq project.disk
           /\ \A f \in Files : project.dir[f] \in Dirs /\ project.imports[f] \in Seq(Paths)
<1>1. project \in ProjectType /\ Sources \subseteq Files /\ Sources \subseteq project.disk
  BY ProjectsAssumption DEF SortInv, TypeOK, ProjectType, Sources
<1> QED BY <1>1, EverySourceOnce, OrderFollows
        DEF SortInv, TypeOK, OrderRespectsImports, IsInjective, ProjectType


-----------------------------------------------------------------------------
(* Lookups.                                                                *)

\* Constants, variables and variants above a declaration are all it sees besides.
LEMMA SeenByFacts ==
    ASSUME NEW s, IsChecker(s), NEW f, NEW k
    PROVE  LET x == SeenBy(s, f, k)
           IN  /\ x.ctxt = s.ctxt /\ x.infer.imports = s.infer.imports
               /\ x.infer.scope = s.infer.scope \cup {code[f].decls[j].name :
                    j \in {i \in 1..(k - 1) : code[f].decls[i].kind \in Late}}
<1> DEFINE V == {code[f].decls[j].name : j \in {i \in 1..(k - 1) : code[f].decls[i].kind \in Late}}
<1>1. SeenBy(s, f, k) = [s EXCEPT !.infer.scope = @ \cup V]
  BY DEF SeenBy
<1> HIDE DEF V
<1>2. s \in [ctxt : {s.ctxt}, infer : InferType]
  BY DEF IsChecker
<1> QED BY <1>1, <1>2 DEF InferType, V

\* Where a name that is not found has been looked for.
LEMMA NotFound ==
    ASSUME NEW s, IsChecker(s), NEW f, NEW k, NEW u \in Uses, ~ Found1(SeenBy(s, f, k), u)
    PROVE  LET m == s.ctxt.modules
               known == s.infer.scope \cup m[s.ctxt.current].functions \cup m[s.ctxt.current].types
               to == s.infer.imports[u[1]]
           IN  IF u[1] = "" THEN u[2] \notin known
               ELSE \/ u[1] \notin known
                    \/ to.to = "go" /\ u[2] \notin GoNames[to.module]
                    \/ to.to = "soppo" /\ u[2] \notin m[to.module].functions \cup m[to.module].types
<1> DEFINE x == SeenBy(s, f, k)
<1>1. x.ctxt = s.ctxt /\ x.infer.imports = s.infer.imports /\ s.infer.scope \subseteq x.infer.scope
  BY SeenByFacts
<1>2. IsCtxt(s.ctxt) /\ s.infer \in InferType
  BY DEF IsChecker
<1> HIDE DEF x
<1>3. CASE u[1] = ""
  <2>1. ~ FoundBare(x, u[2])
    BY <1>3 DEF Found1, x
  <2> QED BY <1>1, <1>3, <2>1 DEF FoundBare
<1>4. CASE u[1] # ""
  <2>1. ~ FoundMember(x, u[1], u[2])
    BY <1>4 DEF Found1, x
  <2>2. ASSUME ~ FoundBare(x, u[1])
        PROVE  u[1] \notin s.infer.scope \cup s.ctxt.modules[s.ctxt.current].functions
                             \cup s.ctxt.modules[s.ctxt.current].types
    BY <1>1, <2>2 DEF FoundBare
  <2>3. ASSUME FoundBare(x, u[1])
        PROVE  LET to == s.infer.imports[u[1]]
                   m == s.ctxt.modules
               IN  \/ to.to = "go" /\ u[2] \notin GoNames[to.module]
                   \/ to.to = "soppo" /\ u[2] \notin m[to.module].functions \cup m[to.module].types
    BY <1>1, <2>1, <2>3 DEF FoundMember
  <2> QED BY <1>4, <2>2, <2>3
<1> QED BY <1>3, <1>4

-----------------------------------------------------------------------------
(* The language server's check of a workspace.                             *)

\* What the files with a symbol table declare is registered with their module.
SymbolsRegistered ==
    \A g \in symbols :
        LET m == ctxt.modules[ModuleOf(project.dir[g])]
        IN  Declared(g, {"func", "method"}) \subseteq m.functions /\ Declared(g, {"type"}) \subseteq m.types

\* One report of ReportsAreExplained: n, or q.n, is undefined in f, or one of
\* the known cases, when the files of S have been checked.
NameExplained(f, q, n, S) ==
    IF q = "" \/ ImportedAs(f, q) = {}
    THEN LET m == IF q = "" THEN n ELSE q
         IN  \A g \in Declaring(f, m) :
                \/ m \in Declared(g, Late \cup {"enum method"})
                \/ g \notin S
                \/ \E i, j \in DOMAIN result : i < j /\ result[i] = f /\ result[j] = g
    ELSE \A d \in ImportedAs(f, q) \ {Root} : \A g \in Sources :
            project.dir[g] = d /\ n \in Declared(g, {"func", "type"}) =>
                \/ g \notin S
                \/ ~ Unedited(f)
                \/ \E b, c \in Range(code[f].imports) : b.name = q /\ c.name = q /\ b.path # c.path

FilesAnalysed ==
    /\ Checked = symbols \cup (DOMAIN diagnostics)
    /\ \A f \in Checked \ symbols :
        \E b \in Range(code[f].imports) : b.path \in Unresolvable /\ <<"import", b.path>> \in diagnostics[f]

\* What the loop over the files keeps.
WorkspaceInv ==
    /\ SortInv
    /\ code \in [Files -> CodeType] /\ IsCtxt(ctxt)
    /\ position \in 1..(Len(result) + 1)
    /\ phase # "sorted" => position = 1
    /\ FilesAnalysed
    /\ SymbolsRegistered
    /\ ReportsAreExplained

\* A name that a file is told is undefined, while the files of S have been
\* registered and f itself has just been: the lookup explains it.
LEMMA MissingExplained ==
    ASSUME WorkspaceInv, phase = "sorted", NEW f \in Sources,
           NEW s, IsChecker(s), s.infer.scope = {}, s.infer.imports = [n \in Names |-> NoImport],
           s.ctxt.current = ModuleOf(project.dir[f]), s.ctxt.modules = ctxt.modules,
           NEW r, Processed(s, r, BindingsOf(f)), ~ r.infer.failed,
           NEW k, NEW u \in Uses, ~ Found1(SeenBy(RegisterDeclarations(r, f), f, k), u)
    PROVE  NameExplained(f, u[1], u[2], symbols \cup {f})
<1> DEFINE t == RegisterDeclarations(r, f)
           m == t.ctxt.modules
           S == symbols \cup {f}
           q == u[1]
           n == u[2]
<1>1. /\ code \in [Files -> CodeType] /\ f \in Files /\ IsChecker(r)
      /\ \A g \in Files : project.dir[g] \in Dirs
      /\ Sources \subseteq Files /\ Sources \subseteq project.disk
  BY SortedFacts DEF WorkspaceInv, Processed
<1>2. r.ctxt.current = ModuleOf(project.dir[f]) /\ r.ctxt.modules = ctxt.modules
  BY DEF Processed
<1>3. /\ IsChecker(t) /\ t.ctxt.current = ModuleOf(project.dir[f])
      /\ \A x \in ModuleIds :
            /\ m[x].functions = ctxt.modules[x].functions
                 \cup (IF x = ModuleOf(project.dir[f]) THEN Declared(f, {"func", "method"}) ELSE {})
            /\ m[x].types = ctxt.modules[x].types
                 \cup (IF x = ModuleOf(project.dir[f]) THEN Declared(f, {"type"}) ELSE {})
      /\ r.infer.scope \subseteq t.infer.scope /\ t.infer.imports = r.infer.imports
  BY <1>1, <1>2, RegisterFacts
<1>4. n \in Names /\ (q = "" \/ q \in Names)
  BY DEF Uses
<1>5. LET known == t.infer.scope \cup m[t.ctxt.current].functions \cup m[t.ctxt.current].types
          to == t.infer.imports[q]
      IN  IF q = "" THEN n \notin known
          ELSE \/ q \notin known
               \/ to.to = "go" /\ n \notin GoNames[to.module]
               \/ to.to = "soppo" /\ n \notin m[to.module].functions \cup m[to.module].types
  BY <1>3, NotFound
<1> HIDE DEF t, m
<1>6. ASSUME NEW g \in S, g \in Sources
      PROVE  /\ Declared(g, {"func", "method"}) \subseteq m[ModuleOf(project.dir[g])].functions
             /\ Declared(g, {"type"}) \subseteq m[ModuleOf(project.dir[g])].types
  <2>1. ModuleOf(project.dir[g]) \in ModuleIds
    BY <1>1, <1>6 DEF ModuleOf, ModuleIds
  <2>2. CASE g = f
    BY <1>3, <2>1, <2>2
  <2>3. CASE g \in symbols
    BY <1>3, <2>1, <2>3 DEF WorkspaceInv, SymbolsRegistered
  <2> QED BY <2>2, <2>3
<1>7. ASSUME NEW x, NEW g \in Declaring(f, x), g \in S, x \notin Declared(g, Late \cup {"enum method"})
      PROVE  x \in m[t.ctxt.current].functions \cup m[t.ctxt.current].types
  <2>1. g \in Sources /\ g \in Files /\ project.dir[g] = project.dir[f] /\ x \in Declared(g, DeclKinds)
    BY <1>1, <1>7 DEF Declaring
  <2>2. PICK d \in Range(code[g].decls) : d.kind \in DeclKinds /\ d.name = x
    BY <1>1, <2>1, DeclaredFacts
  <2>3. d.kind \notin Late \cup {"enum method"}
    BY <1>1, <1>7, <2>1, <2>2, DeclaredFacts
  <2>4. x \in Declared(g, {"func", "method"}) \/ x \in Declared(g, {"type"})
    BY <1>1, <2>1, <2>2, <2>3, DeclaredFacts DEF DeclKinds, Late
  <2> QED BY <1>3, <1>6, <1>7, <2>1, <2>4
<1>8. CASE q = ""
  BY <1>5, <1>7, <1>8 DEF NameExplained
<1>9. CASE q # "" /\ ImportedAs(f, q) = {}
  <2>1. ASSUME NEW b \in BindingsOf(f), b.name = q PROVE FALSE
    <3>1. b.path \in ImportedAs(f, q)
      BY <2>1 DEF ImportedAs, BindingsOf, Binders
    <3> QED BY <1>9, <3>1
  <2>2. r.infer.imports[q] = NoImport
    <3>1. q \in Names /\ NamesBound(s.infer, r.infer, BindingsOf(f))
      BY <1>4, <1>9 DEF Processed
    <3>2. s.infer.imports[q] = NoImport
      BY <3>1
    <3> QED BY <2>1, <3>1, <3>2 DEF NamesBound
  <2>4. t.infer.imports[q] = NoImport /\ NoImport.to = "none"
    BY <1>3, <2>2 DEF NoImport
  <2>3. q \notin m[t.ctxt.current].functions \cup m[t.ctxt.current].types
    BY <1>5, <1>9, <2>4
  <2> QED BY <1>7, <1>9, <2>3 DEF NameExplained
<1>10. CASE q # "" /\ ImportedAs(f, q) # {}
  <2> SUFFICES ASSUME NEW d \in ImportedAs(f, q) \ {Root}, NEW g \in Sources,
                      project.dir[g] = d, n \in Declared(g, {"func", "type"}), g \in S,
                      \A b, c \in Range(code[f].imports) : b.name = q /\ c.name = q => b.path = c.path
               PROVE  FALSE
    BY <1>10 DEF NameExplained
  <2>1. PICK b \in Range(code[f].imports) : b.name = q /\ b.path = d
    BY DEF ImportedAs
  <2>2. b \in BindingsOf(f)
    BY <1>4, <1>10, <2>1, NamesAssumption DEF BindingsOf, Binders
  <2>3. /\ b.name \in r.infer.scope
        /\ \E e \in BindingsOf(f) : e.name = b.name /\ r.infer.imports[b.name] = Bound(e)
    BY <2>2 DEF Processed, AllFound
  <2>4. PICK e \in BindingsOf(f) : e.name = q /\ r.infer.imports[q] = Bound(e)
    BY <2>1, <2>3
  <2>5. e.path = d
    BY <2>1, <2>4 DEF BindingsOf, Binders
  <2>6. d \in Dirs /\ ImportTargets(project, d) # {}
    BY <1>1 DEF ImportTargets, ResolveLocalPackage
  <2>7. t.infer.imports[q].to = "soppo" /\ t.infer.imports[q].module = d
    BY <1>3, <2>4, <2>5, <2>6 DEF Bound
  <2>8. n \notin m[d].functions \cup m[d].types
    BY <1>3, <1>5, <1>10, <2>1, <2>3, <2>7
  <2>9. ModuleOf(project.dir[g]) = d
    BY DEF ModuleOf
  <2>10. PICK x \in Range(code[g].decls) : x.kind \in {"func", "type"} /\ x.name = n
    BY <1>1, DeclaredFacts
  <2>11. n \in Declared(g, {"func", "method"}) \/ n \in Declared(g, {"type"})
    BY <1>1, <2>10, DeclaredFacts
  <2> QED BY <1>6, <2>8, <2>9, <2>11
<1> QED BY <1>8, <1>9, <1>10


\* ReportsAreExplained, report by report.
LEMMA ReportByReport ==
    ReportsAreExplained <=>
        \A f \in DOMAIN diagnostics : \A e \in diagnostics[f] : e[1] = "name" =>
            NameExplained(f, e[2][1], e[2][2], symbols)
BY DEF ReportsAreExplained, NameExplained

\* One more file checked takes no explanation away: it comes later.
LEMMA StillExplained ==
    ASSUME SortInv, phase = "sorted", code \in [Files -> CodeType],
           NEW i \in DOMAIN result, NEW j \in DOMAIN result, i < j,
           NEW q, NEW n, NEW S, NameExplained(result[i], q, n, S)
    PROVE  NameExplained(result[i], q, n, S \cup {result[j]})
<1> DEFINE f == result[i]
           g == result[j]
<1>1. f \in Sources /\ f \in Files /\ g \in Files
  BY SortedFacts
<1>2. CASE q = "" \/ ImportedAs(f, q) = {}
  <2> SUFFICES ASSUME NEW m, m = IF q = "" THEN n ELSE q, NEW h \in Declaring(f, m)
               PROVE  \/ m \in Declared(h, Late \cup {"enum method"})
                      \/ h \notin S \cup {g}
                      \/ \E k, l \in DOMAIN result : k < l /\ result[k] = f /\ result[l] = h
    BY <1>2 DEF NameExplained
  <2>1. CASE h = g
    BY <2>1
  <2>2. CASE h # g
    BY <1>2, <2>2 DEF NameExplained
  <2> QED BY <2>1, <2>2
<1>3. CASE ~ (q = "" \/ ImportedAs(f, q) = {})
  <2> SUFFICES ASSUME NEW d \in ImportedAs(f, q) \ {Root}, NEW h \in Sources,
                      project.dir[h] = d, n \in Declared(h, {"func", "type"})
               PROVE  \/ h \notin S \cup {g}
                      \/ ~ Unedited(f)
                      \/ \E b, c \in Range(code[f].imports) : b.name = q /\ c.name = q /\ b.path # c.path
    BY <1>3 DEF NameExplained
  <2>1. CASE h # g
    BY <1>3, <2>1 DEF NameExplained
  <2>2. CASE h = g
    <3> SUFFICES ASSUME Unedited(f) PROVE FALSE
      OBVIOUS
    <3>1. PICK b \in Range(code[f].imports) : b.path = d
      BY DEF ImportedAs
    <3>2. PICK k \in DOMAIN code[f].imports : code[f].imports[k].path = d
      BY <3>1 DEF Range
    <3>3. k \in DOMAIN project.imports[f] /\ project.imports[f][k] = project.dir[h]
      BY <3>2 DEF Unedited
    <3>4. MustFollow(f, h)
      BY <3>3 DEF MustFollow
    <3>5. PICK l \in 1..(i - 1) : result[l] = h
      BY <3>4, SortedFacts
    <3>6. l \in DOMAIN result /\ result \in Seq(Sources)
      BY <3>5, SortedFacts
    <3>7. l = j
      BY <2>2, <3>5, <3>6, SortedFacts
    <3> QED BY <3>5, <3>6, <3>7
  <2> QED BY <2>1, <2>2
<1> QED BY <1>2, <1>3

\* What is explained stays so while the files and their order do.
LEMMA ExplainedKept ==
    ASSUME UNCHANGED <<vars, code>>, NEW f, NEW q, NEW n, NEW S
    PROVE  NameExplained(f, q, n, S)' <=> NameExplained(f, q, n, S)
<1>1. UNCHANGED <<project, code, result>>
  BY DEF vars, sortVars
<1> QED BY <1>1 DEF NameExplained, ImportedAs, Declaring, Declared, Sources, Unedited

\* A step that checks no file leaves every report as explained as it was.
LEMMA ReportsKept ==
    ASSUME ReportsAreExplained, UNCHANGED <<vars, code, diagnostics, symbols>>
    PROVE  ReportsAreExplained'
<1>1. PICK S : S = symbols
  OBVIOUS
<1>2. ReportsAreExplained' <=>
          \A f \in DOMAIN diagnostics' : \A e \in diagnostics'[f] : e[1] = "name" =>
              NameExplained(f, e[2][1], e[2][2], symbols)'
  BY DEF ReportsAreExplained, NameExplained
<1>3. ASSUME NEW f, NEW q, NEW n
      PROVE  NameExplained(f, q, n, symbols)' <=> NameExplained(f, q, n, symbols)
  <2>1. NameExplained(f, q, n, symbols)' <=> NameExplained(f, q, n, S)'
    BY <1>1 DEF NameExplained
  <2> QED BY <1>1, <2>1, ExplainedKept
<1> QED BY <1>2, <1>3, ReportByReport

\* The loop goes on to the next file, with this one's errors among the diagnostics.
LEMMA PassFile ==
    ASSUME WorkspaceInv, phase = "sorted", position <= Len(result), UNCHANGED <<vars, code>>,
           NEW f, f = result[position], NEW errs, diagnostics' = Entry(f, errs),
           position' = position + 1, IsCtxt(ctxt'), SymbolsRegistered',
           NEW S, symbols' = S,
           S = symbols \cup {f} \/
               (/\ S = symbols
                /\ \E b \in Range(code[f].imports) :
                    b.path \in Unresolvable /\ <<"import", b.path>> \in errs),
           \A e \in errs : e[1] = "name" => NameExplained(f, e[2][1], e[2][2], symbols \cup {f})
    PROVE  WorkspaceInv'
<1>1. SortInv' /\ UNCHANGED <<project, phase, result>>
  BY StutterInv DEF WorkspaceInv, vars, sortVars
<1>2. /\ result \in Seq(Sources) /\ Len(result) \in Nat /\ position \in Nat \ {0}
      /\ position \in DOMAIN result /\ f \in Sources
      /\ \A i, j \in DOMAIN result : result[i] = result[j] => i = j
  BY SortedFacts DEF WorkspaceInv
<1>3. /\ DOMAIN diagnostics' = DOMAIN diagnostics \cup (IF errs = {} THEN {} ELSE {f})
      /\ \A g \in DOMAIN diagnostics' : diagnostics'[g] = IF g = f THEN errs ELSE diagnostics[g]
  BY DEF Entry
<1>4. Checked' = Checked \cup {f}
  <2>1. 1..(position' - 1) = (1..(position - 1)) \cup {position}
    BY <1>2
  <2> QED BY <1>1, <2>1 DEF Checked
<1>5. ASSUME NEW g \in Checked PROVE \E i \in DOMAIN result : i < position /\ result[i] = g /\ g # f
  <2>1. PICK i \in 1..(position - 1) : result[i] = g
    BY DEF Checked
  <2>2. i \in DOMAIN result /\ i < position /\ i # position
    BY <1>2, <2>1
  <2> QED BY <1>2, <2>1, <2>2
<1>6. S = symbols \cup {f} \/ (S = symbols /\ f \in DOMAIN diagnostics')
  BY <1>3
<1>7. FilesAnalysed'
  <2>1. Checked' = S \cup DOMAIN diagnostics'
    BY <1>3, <1>4, <1>6 DEF WorkspaceInv, FilesAnalysed
  <2>2. ASSUME NEW g \in Checked' \ S
        PROVE  \E b \in Range(code[g].imports) : b.path \in Unresolvable /\ <<"import", b.path>> \in diagnostics'[g]
    <3>1. CASE g = f
      BY <1>3, <1>6, <2>2, <3>1
    <3>2. CASE g # f
      <4>1. g \in Checked \ symbols
        BY <1>4, <2>2, <3>2
      <4>2. g \in DOMAIN diagnostics'
        BY <1>3, <4>1 DEF WorkspaceInv, FilesAnalysed
      <4> QED BY <1>3, <3>2, <4>1, <4>2 DEF WorkspaceInv, FilesAnalysed
    <3> QED BY <3>1, <3>2
  <2> QED BY <2>1, <2>2 DEF FilesAnalysed
<1>8. ReportsAreExplained'
  <2>1. ASSUME NEW g \in DOMAIN diagnostics', NEW e \in diagnostics'[g], e[1] = "name"
        PROVE  NameExplained(g, e[2][1], e[2][2], S)
    <3>1. CASE g = f /\ S = symbols \cup {f}
      BY <1>3, <2>1, <3>1
    <3>2. CASE g # f
      <4>1. g \in DOMAIN diagnostics /\ e \in diagnostics[g]
        BY <1>3, <2>1, <3>2
      <4>2. NameExplained(g, e[2][1], e[2][2], symbols)
        BY <2>1, <4>1, ReportByReport DEF WorkspaceInv
      <4>3. PICK i \in DOMAIN result : i < position /\ result[i] = g
        BY <1>5, <4>1 DEF WorkspaceInv, FilesAnalysed
      <4>4. NameExplained(g, e[2][1], e[2][2], symbols \cup {f})
        BY <1>2, <4>2, <4>3, StillExplained DEF WorkspaceInv
      <4> QED BY <4>2, <4>4
    <3>3. CASE g = f /\ S = symbols
      <4>1. NameExplained(f, e[2][1], e[2][2], symbols \cup {f})
        BY <1>3, <2>1, <3>3
      <4>2. ASSUME NEW q, NEW n, NameExplained(f, q, n, symbols \cup {f})
            PROVE  NameExplained(f, q, n, symbols)
        <5>1. CASE q = "" \/ ImportedAs(f, q) = {}
          BY <4>2, <5>1 DEF NameExplained
        <5>2. CASE ~ (q = "" \/ ImportedAs(f, q) = {})
          BY <4>2, <5>2 DEF NameExplained
        <5> QED BY <5>1, <5>2
      <4> QED BY <3>3, <4>1, <4>2
    <3> QED BY <3>1, <3>2, <3>3
  <2>2. ReportsAreExplained' <=>
            \A g \in DOMAIN diagnostics' : \A e \in diagnostics'[g] : e[1] = "name" =>
                NameExplained(g, e[2][1], e[2][2], symbols)'
    BY DEF ReportsAreExplained, NameExplained
  <2>3. ASSUME NEW g, NEW q, NEW n
        PROVE  NameExplained(g, q, n, symbols)' <=> NameExplained(g, q, n, S)
    <3>1. NameExplained(g, q, n, symbols)' <=> NameExplained(g, q, n, S)'
      BY DEF NameExplained
    <3> QED BY <3>1, ExplainedKept
  <2> QED BY <2>1, <2>2, <2>3
<1>9. position' \in 1..(Len(result) + 1) /\ code' \in [Files -> CodeType] /\ phase' = "sorted"
  BY <1>1, <1>2 DEF WorkspaceInv
<1> QED BY <1>1, <1>7, <1>8, <1>9 DEF WorkspaceInv


\* The checker as it meets a file: nothing known but the registry.
LEMMA FreshChecker ==
    ASSUME IsCtxt(ctxt), NEW m \in ModuleIds
    PROVE  LET s == Both(InModule(ctxt, m), NewInfer)
           IN  /\ IsChecker(s) /\ s.ctxt.current = m /\ s.ctxt.modules = ctxt.modules
               /\ s.infer = NewInfer /\ [s EXCEPT !.infer.failed = FALSE] = s
<1> DEFINE c == InModule(ctxt, m)
           s == Both(c, NewInfer)
<1>1. IsCtxt(c) /\ c.current = m /\ c.modules = ctxt.modules
  BY DEF IsCtxt, InModule
<1> HIDE DEF c
<1>2. s.ctxt = c /\ s.infer = NewInfer /\ s \in [ctxt : {c}, infer : {NewInfer}]
  BY DEF Both
<1> HIDE DEF s
<1>3. [s EXCEPT !.infer.failed = FALSE] = s
  <2>1. \A i \in InferType : i.failed = FALSE => [i EXCEPT !.failed = FALSE] = i
    BY DEF InferType
  <2>2. [NewInfer EXCEPT !.failed = FALSE] = NewInfer
    BY <2>1, NewStates DEF NewInfer
  <2> QED BY <1>2, <2>2
<1>4. IsChecker(s)
  BY <1>1, <1>2, NewStates DEF IsChecker
<1> QED BY <1>1, <1>2, <1>3, <1>4 DEF s, c

\* A step of the sort: the loop has not begun.
LEMMA WorkspaceSortInv == WorkspaceInv /\ WorkspaceSort => WorkspaceInv'
<1> SUFFICES ASSUME WorkspaceInv, WorkspaceSort PROVE WorkspaceInv'
  OBVIOUS
<1>1. /\ SortInv' /\ phase \in {"build", "count", "sort", "search"} /\ project' = project
      /\ UNCHANGED <<code, ctxt, infer, aborted, position, diagnostics, symbols>>
  BY SortStep DEF WorkspaceInv, WorkspaceSort, nameVars, wsVars
<1>2. position = 1 /\ Checked = {} /\ Checked' = {}
  BY <1>1 DEF WorkspaceInv, Checked
<1>3. symbols = {} /\ DOMAIN diagnostics = {}
  BY <1>2 DEF WorkspaceInv, FilesAnalysed
<1>4. Len(result') \in Nat
  BY <1>1 DEF SortInv, TypeOK
<1>5. FilesAnalysed' /\ SymbolsRegistered' /\ ReportsAreExplained'
  BY <1>1, <1>2, <1>3 DEF FilesAnalysed, SymbolsRegistered, ReportsAreExplained
<1> QED BY <1>1, <1>2, <1>4, <1>5 DEF WorkspaceInv

\* A file with an import that fails: an entry, and no names for the registry.
LEMMA SkipOnImportsInv ==
    ASSUME WorkspaceInv, phase = "sorted", position <= Len(result), UNCHANGED <<vars, code>>,
           NEW f, f = result[position],
           NEW s, s = ProcessImports(Both(InModule(ctxt, ModuleOf(project.dir[f])), NewInfer), f),
           SkipOnImports(f, s)
    PROVE  WorkspaceInv'
<1> DEFINE start == Both(InModule(ctxt, ModuleOf(project.dir[f])), NewInfer)
<1>1. f \in Files /\ project.dir[f] \in Dirs /\ ModuleOf(project.dir[f]) \in ModuleIds
  BY SortedFacts DEF WorkspaceInv, ModuleOf, ModuleIds
<1>2. /\ IsChecker(start) /\ start.ctxt.modules = ctxt.modules
      /\ start.infer = NewInfer /\ [start EXCEPT !.infer.failed = FALSE] = start
  BY <1>1, FreshChecker DEF WorkspaceInv
<1> HIDE DEF start
<1>3. s = ProcessImports(start, f)
  BY DEF start
<1>4. Processed(start, s, BindingsOf(f))
  BY <1>1, <1>2, <1>3, ImportsProcessed DEF WorkspaceInv
<1>5. IsCtxt(ctxt') /\ ctxt'.modules = ctxt.modules
  BY <1>2, <1>4 DEF SkipOnImports, Processed, IsChecker
<1>6. SymbolsRegistered'
  BY <1>5 DEF WorkspaceInv, SymbolsRegistered, SkipOnImports, vars, Declared
<1>7. \A e \in s.infer.errors : e[1] = "import"
  <2>1. start.infer.errors = {}
    BY <1>2 DEF NewInfer
  <2> QED BY <1>4, <2>1 DEF Processed
<1>8. \E b \in Range(code[f].imports) : b.path \in Unresolvable /\ <<"import", b.path>> \in s.infer.errors
  BY <1>4 DEF SkipOnImports, Processed, OneMissing, BindingsOf, Binders, Fails
<1> QED BY <1>5, <1>6, <1>7, <1>8, PassFile DEF SkipOnImports

\* A file checked whole: what it declares is registered, what it is told of a
\* missing name is explained.
LEMMA CheckWholeInv ==
    ASSUME WorkspaceInv, phase = "sorted", position <= Len(result), UNCHANGED <<vars, code>>,
           NEW f, f = result[position],
           NEW s, s = ProcessImports(Both(InModule(ctxt, ModuleOf(project.dir[f])), NewInfer), f),
           CheckWhole(f, s)
    PROVE  WorkspaceInv'
<1> DEFINE start == Both(InModule(ctxt, ModuleOf(project.dir[f])), NewInfer)
           r == RegisterDeclarations(s, f)
           t == InferBodies(r, f)
           m == ModuleOf(project.dir[f])
<1>1. /\ f \in Sources /\ f \in Files /\ project.dir[f] \in Dirs /\ m \in ModuleIds
      /\ Sources \subseteq Files /\ \A g \in Files : ModuleOf(project.dir[g]) \in ModuleIds
      /\ code \in [Files -> CodeType]
  BY SortedFacts DEF WorkspaceInv, ModuleOf, ModuleIds
<1>2. /\ IsChecker(start) /\ start.ctxt.modules = ctxt.modules /\ start.ctxt.current = m
      /\ start.infer = NewInfer /\ [start EXCEPT !.infer.failed = FALSE] = start
  BY <1>1, FreshChecker DEF WorkspaceInv
<1>3. s = ProcessImports(start, f)
  OBVIOUS
<1> HIDE DEF start
<1>4. Processed(start, s, BindingsOf(f))
  BY <1>1, <1>2, <1>3, ImportsProcessed
<1>5. /\ IsChecker(s) /\ s.ctxt.modules = ctxt.modules /\ s.ctxt.current = m
      /\ ~ s.infer.failed /\ s.infer.errors = {}
  <2>1. NewInfer.errors = {} /\ ~ s.infer.failed
    BY DEF NewInfer, CheckWhole
  <2>2. AllFound(start.infer, s.infer, BindingsOf(f))
    BY <1>4, <2>1 DEF Processed
  <2> QED BY <1>2, <1>4, <2>1, <2>2 DEF Processed, AllFound
<1>6. /\ IsChecker(r) /\ \A e \in r.infer.errors : e[1] = "method"
      /\ \A k \in ModuleIds :
            /\ r.ctxt.modules[k].functions = ctxt.modules[k].functions
                 \cup (IF k = m THEN Declared(f, {"func", "method"}) ELSE {})
            /\ r.ctxt.modules[k].types = ctxt.modules[k].types
                 \cup (IF k = m THEN Declared(f, {"type"}) ELSE {})
  <2>1. /\ IsChecker(r) /\ r.infer.errors = s.infer.errors \cup Refused(f)
        /\ \A k \in ModuleIds :
            /\ r.ctxt.modules[k].functions = s.ctxt.modules[k].functions
                    \cup (IF k = s.ctxt.current THEN Declared(f, {"func", "method"}) ELSE {})
            /\ r.ctxt.modules[k].types = s.ctxt.modules[k].types
                    \cup (IF k = s.ctxt.current THEN Declared(f, {"type"}) ELSE {})
    <3>1. IsChecker(s) /\ f \in Files /\ code \in [Files -> CodeType]
      BY <1>1, <1>5
    <3> HIDE DEF m, t, r
    <3>2. PICK q : q = RegisterDeclarations(s, f)
      OBVIOUS
    <3>3. IsChecker(q) /\ q.infer.errors = s.infer.errors \cup Refused(f) /\ Registers(s, q, f)
      BY <3>1, <3>2, RegisteredNames
    <3>4. \A k \in ModuleIds :
            /\ q.ctxt.modules[k].functions = s.ctxt.modules[k].functions
                 \cup (IF k = s.ctxt.current THEN Declared(f, {"func", "method"}) ELSE {})
            /\ q.ctxt.modules[k].types = s.ctxt.modules[k].types
                 \cup (IF k = s.ctxt.current THEN Declared(f, {"type"}) ELSE {})
      BY <3>3 DEF Registers
    <3>5. IsChecker(q) /\ q.infer.errors = s.infer.errors \cup Refused(f)
      BY <3>3
    <3>6. q = r
      BY <3>2 DEF r
    <3> QED BY <3>4, <3>5, <3>6
  <2> HIDE DEF r, m
  <2>2. s.ctxt.modules = ctxt.modules /\ s.ctxt.current = m /\ s.infer.errors = {}
    BY <1>5
  <2>3. IsChecker(r) /\ \A e \in r.infer.errors : e[1] = "method"
    BY <2>1, <2>2 DEF Refused
  <2> QED BY <2>1, <2>2, <2>3
<1> HIDE DEF r
<1>7. /\ IsChecker(t) /\ t.ctxt = r.ctxt
      /\ \A e \in t.infer.errors : e[1] # "method" =>
            \E k \in DOMAIN code[f].decls : \E u \in code[f].decls[k].uses :
                ~ Found1(SeenBy(r, f, k), u) /\ e = <<"name", u>>
  BY <1>1, <1>6, BodiesFacts
<1>8. infer' \in CheckUnusedImports(t.infer) /\ ctxt' = t.ctxt
  BY DEF CheckWhole, r
<1> HIDE DEF t
<1>9. IsCtxt(ctxt') /\ \A e \in infer'.errors : e \in t.infer.errors \/ e[1] = "unused"
  BY <1>7, <1>8, UnusedFacts DEF IsChecker
<1>10. SymbolsRegistered'
  <2>1. UNCHANGED <<project, code>> /\ symbols' = symbols \cup {f}
    BY DEF vars, CheckWhole
  <2>2. ASSUME NEW g \in symbols \cup {f}
        PROVE  LET x == ctxt'.modules[ModuleOf(project.dir[g])]
               IN  /\ Declared(g, {"func", "method"}) \subseteq x.functions
                   /\ Declared(g, {"type"}) \subseteq x.types
    <3>1. CASE g = f
      BY <1>1, <1>6, <1>7, <1>8, <3>1
    <3>2. CASE g \in symbols
      <4>1. g \in Checked
        BY <3>2 DEF WorkspaceInv, FilesAnalysed
      <4>2. g \in Sources
        <5>1. PICK i \in 1..(position - 1) : result[i] = g
          BY <4>1 DEF Checked
        <5>2. i \in DOMAIN result /\ result \in Seq(Sources)
          BY <5>1, SortedFacts DEF WorkspaceInv
        <5> QED BY <5>1, <5>2
      <4>3. ModuleOf(project.dir[g]) \in ModuleIds
        BY <1>1, <4>2
      <4> QED BY <1>6, <1>7, <1>8, <3>2, <4>3 DEF WorkspaceInv, SymbolsRegistered
    <3> QED BY <3>1, <3>2
  <2>3. \A g, k : Declared(g, k)' = Declared(g, k)
    BY <2>1 DEF Declared
  <2> QED BY <2>1, <2>2, <2>3 DEF SymbolsRegistered
<1>11. ASSUME NEW e \in infer'.errors, e[1] = "name"
       PROVE  NameExplained(f, e[2][1], e[2][2], symbols \cup {f})
  <2>1. e \in t.infer.errors
    BY <1>9, <1>11
  <2>2. PICK k \in DOMAIN code[f].decls :
            \E u \in code[f].decls[k].uses : ~ Found1(SeenBy(r, f, k), u) /\ e = <<"name", u>>
    BY <1>7, <1>11, <2>1
  <2>3. PICK u \in code[f].decls[k].uses : ~ Found1(SeenBy(r, f, k), u) /\ e = <<"name", u>>
    BY <2>2
  <2>4. u \in Uses
    <3>1. code[f].decls \in Seq(Decls)
      BY <1>1 DEF CodeType
    <3>2. code[f].decls[k] \in Decls
      BY <3>1
    <3> QED BY <3>2 DEF Decls
  <2>5. start.infer.scope = {} /\ start.infer.imports = [n \in Names |-> NoImport]
    BY <1>2 DEF NewInfer
  <2>6. ~ Found1(SeenBy(RegisterDeclarations(s, f), f, k), u)
    BY <2>3 DEF r
  <2>7. NameExplained(f, u[1], u[2], symbols \cup {f})
    BY <1>1, <1>2, <1>4, <1>5, <2>4, <2>5, <2>6, MissingExplained
  <2> QED BY <2>3, <2>7
<1> QED BY <1>9, <1>10, <1>11, PassFile DEF CheckWhole

\* What the loop keeps is kept by every step of the language server.
LEMMA WorkspaceStepInv == WorkspaceInv /\ [WorkspaceNext]_workspaceVars => WorkspaceInv'
<1> SUFFICES ASSUME WorkspaceInv, [WorkspaceNext]_workspaceVars PROVE WorkspaceInv'
  OBVIOUS
<1>1. CASE WorkspaceSort
  BY <1>1, WorkspaceSortInv
<1>2. ASSUME UNCHANGED <<vars, nameVars, position, diagnostics, symbols>> PROVE WorkspaceInv'
  <2>1. SortInv' /\ UNCHANGED <<project, phase, result, code, ctxt, position, diagnostics, symbols>>
    BY <1>2, StutterInv DEF WorkspaceInv, vars, sortVars, nameVars
  <2>2. Checked' = Checked /\ \A f, k : Declared(f, k)' = Declared(f, k)
    BY <2>1 DEF Checked, Declared
  <2>3. FilesAnalysed' /\ SymbolsRegistered'
    BY <2>1, <2>2 DEF WorkspaceInv, FilesAnalysed, SymbolsRegistered
  <2>4. ReportsAreExplained'
    BY <1>2, ReportsKept DEF WorkspaceInv, nameVars
  <2> QED BY <2>1, <2>3, <2>4 DEF WorkspaceInv
<1>3. CASE AbortOnParse
  BY <1>2, <1>3 DEF AbortOnParse
<1>4. CASE UNCHANGED workspaceVars
  BY <1>2, <1>4 DEF workspaceVars, wsVars
<1>5. CASE CheckFile
  <2> DEFINE f == result[position]
             s == ProcessImports(Both(InModule(ctxt, ModuleOf(project.dir[f])), NewInfer), f)
  <2>1. phase = "sorted" /\ position <= Len(result) /\ UNCHANGED <<vars, code>>
    BY <1>5 DEF CheckFile
  <2>2. SkipOnImports(f, s) \/ CheckWhole(f, s)
    BY <1>5 DEF CheckFile
  <2> QED BY <2>1, <2>2, SkipOnImportsInv, CheckWholeInv
<1> QED BY <1>1, <1>3, <1>4, <1>5 DEF WorkspaceNext, WorkspaceStep

\* Nothing has been checked when the sort begins.
LEMMA WorkspaceInitInv == WorkspaceInit => WorkspaceInv
<1> SUFFICES ASSUME WorkspaceInit PROVE WorkspaceInv
  OBVIOUS
<1>1. SortInv /\ phase = "build" /\ result = <<>> /\ ctxt = NewCtxt
  BY InitSortInv DEF WorkspaceInit, Init
<1>2. code \in [Files -> CodeType] /\ position = 1 /\ symbols = {} /\ DOMAIN diagnostics = {}
  BY WorkspacesAssumption DEF WorkspaceInit
<1>3. Checked = {} /\ FilesAnalysed /\ SymbolsRegistered /\ ReportsAreExplained
  BY <1>2 DEF Checked, FilesAnalysed, SymbolsRegistered, ReportsAreExplained
<1> QED BY <1>1, <1>2, <1>3, NewStates DEF WorkspaceInv

\* In every workspace the loop keeps its registry, its entries and their
\* explanations together.
THEOREM WorkspaceKept == WorkspaceSpec => []WorkspaceInv
BY WorkspaceInitInv, WorkspaceStepInv, PTL DEF WorkspaceSpec

\* Whatever a file imports, every file the loop has passed has a symbol table
\* or shows the import that failed, and a loop that is not aborted passes all.
THEOREM EveryFileIsAnalysed == WorkspaceSpec => []EveryFileAnalysed
<1>1. WorkspaceInv => EveryFileAnalysed
  <2> SUFFICES ASSUME WorkspaceInv, phase = "sorted" PROVE EveryFileAnalysed
    BY DEF EveryFileAnalysed
  <2>1. ASSUME WorkspaceOver, ~ aborted PROVE Checked = Sources
    <3>1. /\ position = Len(result) + 1 /\ result \in Seq(Sources)
          /\ Range(result) = Sources
      BY <2>1, SortedFacts DEF WorkspaceInv, WorkspaceOver
    <3>2. 1..(position - 1) = DOMAIN result
      BY <3>1
    <3> QED BY <3>1, <3>2 DEF Checked, Range
  <2> QED BY <2>1 DEF WorkspaceInv, FilesAnalysed, EveryFileAnalysed
<1> QED BY <1>1, WorkspaceKept, PTL

\* Of every project and whatever the editor holds: a name a file is told is
\* undefined is undefined, or one of the cases the check is known to miss.
THEOREM EveryReportIsExplained == WorkspaceSpec => []ReportsAreExplained
<1>1. WorkspaceInv => ReportsAreExplained
  BY DEF WorkspaceInv
<1> QED BY <1>1, WorkspaceKept, PTL

-----------------------------------------------------------------------------
(* sop build: what a unit's checker knows.                                 *)

Working == {"imports", "declare", "bodies", "check"}

\* Files of the unit that the pass at work is through with, and how far each
\* of the three passes has come.
Before == {unit[i] : i \in 1..(at - 1)}

ImportedFiles == IF stage = "imports" THEN Before ELSE Range(unit)

DeclaredFiles ==
    IF stage = "imports" THEN {} ELSE IF stage = "declare" THEN Before ELSE Range(unit)

InferredFiles ==
    IF stage \in {"imports", "declare"} THEN {} ELSE IF stage = "bodies" THEN Before ELSE Range(unit)

\* The files of the packages begun, and of those the ones finished.
Begun == {f \in Sources : PackageKey(f) \in processed}

FinishedFiles == Begun \ (IF stage \in Working \cup {"rejected"} THEN Range(unit) ELSE {})

Known == Begun \ (IF stage \in Working THEN Range(unit) \ DeclaredFiles ELSE {})

\* Where build_project is, and which packages it has begun.
ControlInv ==
    /\ SortInv /\ code \in [Files -> CodeType] /\ \A f \in Files : Unedited(f)
    /\ IsCtxt(ctxt) /\ infer \in InferType
    /\ stage \in Working \cup {"packages", "rejected", "writing", "unwritten", "built"}
    /\ phase # "sorted" => stage = "packages" /\ next = 1
    /\ next \in 1..(Len(result) + 1)
    /\ processed = {PackageKey(result[i]) : i \in 1..(next - 1)}
    /\ stage \in {"writing", "unwritten", "built"} => next = Len(result) + 1
    /\ written = 0 \/ stage \in {"writing", "unwritten", "built"}

\* A unit is a package, whole, and its directory is the module at work.
UnitInv ==
    /\ unit \in Seq(Sources) /\ IsInjective(unit)
    /\ \A f \in Range(unit) : Range(unit) = PackageOf(f) /\ PackageKey(f) \in processed
    /\ stage \in Working => at \in 1..Len(unit) /\ \A f \in Range(unit) : ctxt.current = project.dir[f]

\* The registry holds what the known files declare.
RegistryInv ==
    stage # "rejected" =>
        \A d \in Dirs : \A n :
            /\ n \in ctxt.modules[d].functions
                 <=> \E f \in Known : project.dir[f] = d /\ n \in Declared(f, {"func", "method"})
            /\ n \in ctxt.modules[d].types
                 <=> \E f \in Known : project.dir[f] = d /\ n \in Declared(f, {"type"})

\* Every name imported by a file stands for one of the unit's imports of that name.
ImportsInv ==
    /\ \A n \in Names :
        \/ infer.imports[n] = NoImport
        \/ \E f \in ImportedFiles : \E b \in BindingsOf(f) : b.name = n /\ infer.imports[n] = Bound(b)
    /\ \A f \in ImportedFiles : \A b \in BindingsOf(f) :
        b.name \in infer.scope /\ infer.imports[b.name] # NoImport

\* All that a file brings into the scope.
Scoped == Late \cup {"func", "method"}

\* The scope holds imports and declarations of the unit, and no less than what
\* the files inferred have brought in last.
ScopeInv ==
    /\ \A n \in infer.scope : \E f \in Range(unit) :
        (\E b \in BindingsOf(f) : b.name = n) \/ n \in Declared(f, Scoped)
    /\ \A f \in InferredFiles : Declared(f, Late) \subseteq infer.scope

\* What becomes of a use that is no error.
UseIsAccounted(f, u) == InGo(f, u) \/ KnownGap(f, u)

\* Of the files inferred, every use is an error or accounted for, every import
\* gone through is used, and an error says something about the unit.
UsesInv ==
    /\ \A f \in InferredFiles : \A d \in Range(code[f].decls) : \A u \in d.uses :
        /\ <<"name", u>> \in infer.errors \/ UseIsAccounted(f, u)
        /\ u[1] \in Names /\ infer.imports[u[1]].to # "none" => u[1] \in infer.used
    /\ infer.errors # {} => ~ CleanUnit \/ OutOfOrder

\* What has been generated is every file of the finished packages, once, and
\* what they use is accounted for.
OutputsInv ==
    /\ outputs \in Seq(Sources) /\ IsInjective(outputs) /\ Range(outputs) = FinishedFiles
    /\ \A f \in FinishedFiles : \A d \in Range(code[f].decls) : \A u \in d.uses : UseIsAccounted(f, u)

CompileInv ==
    /\ ControlInv
    /\ UnitInv
    /\ RegistryInv
    /\ stage \in Working => ImportsInv /\ ScopeInv /\ UsesInv
    /\ OutputsInv
    /\ OnlyOrderRejectsCleanCode

-----------------------------------------------------------------------------
(* The files of a package.                                                 *)

Units == INSTANCE Iteration WITH Turn <- WithFile

\* The loop over the sorted sources finds every file of the package, once.
LEMMA PackageFilesFacts ==
    ASSUME SortInv, phase = "sorted", NEW f \in Sources
    PROVE  /\ PackageFiles(f) \in Seq(Sources) /\ IsInjective(PackageFiles(f))
           /\ Range(PackageFiles(f)) = PackageOf(f) /\ Len(PackageFiles(f)) \in Nat \ {0}
<1> DEFINE key == PackageKey(f)
           To(n) == {g \in Sources : PackageKey(g) = key /\ \E i \in 1..n : result[i] = g}
<1>1. /\ result \in Seq(Sources) /\ Len(result) \in Nat /\ Range(result) = Sources
      /\ \A i, j \in DOMAIN result : result[i] = result[j] => i = j
  BY SortedFacts
<1>2. PackageFiles(f) = Units!Loop(key, <<>>, result)
  BY DEF PackageFiles, Units!Loop, Each, Units!Each
<1>3. PICK states : /\ Units!Runs(key, <<>>, result, states)
                    /\ PackageFiles(f) = states[Len(result)]
  BY <1>1, <1>2, Units!LoopRuns
<1>4. /\ states[0] = <<>>
      /\ \A i \in 1..Len(result) : states[i] = WithFile(key, states[i - 1], result[i])
  BY <1>3 DEF Units!Runs
<1> HIDE DEF key
<1> DEFINE Good == {n \in 0..Len(result) :
                      /\ states[n] \in Seq(Sources) /\ IsInjective(states[n])
                      /\ Range(states[n]) = To(n)}
<1>5. 0 \in Good
  <2>1. <<>> \in Seq(Sources) /\ IsInjective(<<>>) /\ Range(<<>>) = {} /\ To(0) = {}
    BY DEF IsInjective, Range
  <2> HIDE DEF To
  <2>2. 0 \in 0..Len(result)
    BY <1>1
  <2> QED BY <1>4, <2>1, <2>2
<1>6. ASSUME NEW n \in 1..Len(result), n - 1 \in Good PROVE n \in Good
  <2> DEFINE s == states[n - 1]
             g == result[n]
  <2>1. s \in Seq(Sources) /\ IsInjective(s) /\ Range(s) = To(n - 1)
    BY <1>6
  <2>2. n \in 0..Len(result) /\ g \in Sources /\ states[n] = WithFile(key, s, g)
    BY <1>1, <1>4
  <2>3. g \notin To(n - 1)
    BY <1>1
  <2>4. To(n) = IF PackageKey(g) = key THEN To(n - 1) \cup {g} ELSE To(n - 1)
    <3>1. 1..n = (1..(n - 1)) \cup {n}
      BY <1>1
    <3> QED BY <2>2, <3>1
  <2> HIDE DEF s, g, To
  <2>5. CASE PackageKey(g) = key
    <3>1. states[n] = Append(s, g)
      BY <2>2, <2>5 DEF WithFile
    <3>2. Append(s, g) \in Seq(Sources) /\ Range(Append(s, g)) = Range(s) \cup {g}
      BY <2>1, <2>2, RangeAppend
    <3>3. IsInjective(Append(s, g))
      BY <2>1, <2>2, <2>3, InjectiveAppend
    <3> QED BY <2>1, <2>2, <2>4, <2>5, <3>1, <3>2, <3>3
  <2>6. CASE PackageKey(g) # key
    BY <2>1, <2>2, <2>4, <2>6 DEF WithFile
  <2> QED BY <2>5, <2>6
<1>7. Len(result) \in Good
  <2>1. Len(result) \in 0..Len(result)
    BY <1>1
  <2> HIDE DEF Good
  <2> QED BY <1>1, <1>5, <1>6, <2>1, Units!CountUp
<1>8. To(Len(result)) = PackageOf(f)
  <2>1. \A g \in Sources : \E i \in 1..Len(result) : result[i] = g
    BY <1>1 DEF Range
  <2> QED BY <2>1 DEF PackageOf, key
<1>9. f \in PackageOf(f)
  BY DEF PackageOf
<1> DEFINE files == PackageFiles(f)
<1>10. files \in Seq(Sources) /\ IsInjective(files) /\ Range(files) = PackageOf(f)
  BY <1>3, <1>7, <1>8
<1> HIDE DEF files
<1>11. Len(files) \in Nat \ {0}
  <2>1. f \in Range(files)
    BY <1>9, <1>10
  <2> QED BY <1>10, <2>1 DEF Range
<1> QED BY <1>10, <1>11 DEF files

\* The names of a build's properties, where nothing has been sorted.
LEMMA SortBegins ==
    ASSUME ControlInv, phase # "sorted"
    PROVE  stage = "packages" /\ processed = {} /\ Begun = {} /\ FinishedFiles = {} /\ Known = {}
<1>1. stage = "packages" /\ next = 1
  BY DEF ControlInv
<1>2. processed = {}
  BY <1>1 DEF ControlInv
<1> QED BY <1>1, <1>2 DEF Begun, FinishedFiles, Known, Working

\* A step of the sort: no package has been begun.
LEMMA CompileSortInv == CompileInv /\ Sort => CompileInv'
<1> SUFFICES ASSUME CompileInv, Sort PROVE CompileInv'
  OBVIOUS
<1>1. /\ SortInv' /\ phase \in {"build", "count", "sort", "search"} /\ project' = project
      /\ UNCHANGED <<code, ctxt, infer, stage, next, processed, unit, at, outputs, written>>
  BY SortStep DEF CompileInv, ControlInv, Sort, nameVars, compileVars
<1>2. /\ stage = "packages" /\ next = 1 /\ processed = {} /\ FinishedFiles = {} /\ Known = {}
      /\ stage' = "packages"
  BY <1>1, SortBegins DEF CompileInv, ControlInv
<1>3. Begun' = {} /\ FinishedFiles' = {} /\ Known' = {}
  BY <1>1, <1>2 DEF Begun, FinishedFiles, Known
<1>4. ControlInv'
  <2>1. Len(result') \in Nat
    BY <1>1 DEF SortInv, TypeOK
  <2>2. \A f \in Files : Unedited(f)'
    BY <1>1 DEF CompileInv, ControlInv, Unedited
  <2>3. processed' = {PackageKey(result[i]) : i \in 1..(next - 1)}'
    BY <1>1, <1>2
  <2> QED BY <1>1, <1>2, <2>1, <2>2, <2>3 DEF CompileInv, ControlInv, Working
<1>5. UnitInv'
  BY <1>1, <1>2 DEF CompileInv, UnitInv, Working, Sources, PackageOf
<1>6. RegistryInv'
  BY <1>1, <1>2, <1>3 DEF CompileInv, RegistryInv
<1>7. OutputsInv'
  BY <1>1, <1>2, <1>3 DEF CompileInv, OutputsInv, Sources
<1> QED BY <1>2, <1>4, <1>5, <1>6, <1>7 DEF CompileInv, Working, OnlyOrderRejectsCleanCode

-----------------------------------------------------------------------------
(* What the steps after the sort leave alone.                              *)

\* What is said of the project and its files stays said.
LEMMA CodeKept ==
    ASSUME UNCHANGED <<project, code>>
    PROVE  /\ Sources' = Sources
           /\ \A f : PackageKey(f)' = PackageKey(f) /\ PackageOf(f)' = PackageOf(f)
           /\ \A f : BindingsOf(f)' = BindingsOf(f) /\ Unedited(f)' = Unedited(f)
           /\ \A f, k : Declared(f, k)' = Declared(f, k)
           /\ \A b : Bound(b)' = Bound(b) /\ Fails(b)' = Fails(b)
           /\ \A f, u : UseIsAccounted(f, u)' = UseIsAccounted(f, u)
<1>1. Sources' = Sources
  BY DEF Sources
<1>2. \A f : PackageKey(f)' = PackageKey(f)
  BY DEF PackageKey
<1>3. \A f : PackageOf(f)' = PackageOf(f)
  BY <1>1, <1>2 DEF PackageOf
<1>4. \A f : BindingsOf(f)' = BindingsOf(f) /\ Unedited(f)' = Unedited(f)
  BY DEF BindingsOf, Unedited
<1>5. \A f, k : Declared(f, k)' = Declared(f, k)
  BY DEF Declared
<1>6. \A b : Bound(b)' = Bound(b) /\ Fails(b)' = Fails(b)
  BY DEF Bound, Fails
<1>7. \A d, k : DeclaredIn(d, k)' = DeclaredIn(d, k)
  BY DEF DeclaredIn, Declared, Sources
<1>8. \A f, n : ImportedAs(f, n)' = ImportedAs(f, n) /\ PackageImports(f, n)' = PackageImports(f, n)
  BY DEF PackageImports, PackageOf, PackageKey, ImportedAs, Sources
<1>9. \A f, u : UseIsAccounted(f, u)' = UseIsAccounted(f, u)
  <2>1. \A f : OwnNames(f)' = OwnNames(f)
    BY <1>3, <1>5 DEF OwnNames
  <2>2. \A d : Exports(d)' = Exports(d) /\ ImportTargets(project, d)' = ImportTargets(project, d)
    BY <1>1, <1>5 DEF Exports
  <2>3. \A f, n : StrayName(f, n)' = StrayName(f, n)
    BY <1>1, <1>3, <1>5, <1>7 DEF StrayName
  <2>4. \A d, n : StrayMember(d, n)' = StrayMember(d, n)
    BY <1>1, <1>5, <1>7, <2>2 DEF StrayMember
  <2>5. \A f, u : InGo(f, u)' = InGo(f, u)
    BY <1>8, <2>1, <2>2 DEF InGo
  <2>6. \A f, u : /\ PackageAlone(f, u)' = PackageAlone(f, u) /\ BoundTwice(f, u)' = BoundTwice(f, u)
                  /\ SiblingsImport(f, u)' = SiblingsImport(f, u)
    BY <1>8, <2>2 DEF PackageAlone, BoundTwice, SiblingsImport
  <2>7. \A f, u : KnownGap(f, u)' = KnownGap(f, u)
    BY <1>8, <2>3, <2>4, <2>6 DEF KnownGap
  <2> QED BY <2>5, <2>7 DEF UseIsAccounted
<1> QED BY <1>1, <1>2, <1>3, <1>4, <1>5, <1>6, <1>9

\* So does what is said of the unit at work.
LEMMA UnitKept ==
    ASSUME UNCHANGED <<project, code, processed, unit>>
    PROVE  CleanUnit' = CleanUnit /\ OutOfOrder' = OutOfOrder /\ Begun' = Begun
<1>1. Begun' = Begun /\ OutOfOrder' = OutOfOrder
  BY DEF Begun, OutOfOrder, PackageKey, Sources
<1>2. \A f, n : PackageImports(f, n)' = PackageImports(f, n)
  BY DEF PackageImports, PackageOf, PackageKey, ImportedAs, Sources
<1>3. \A d, k : Members(d, k)' = Members(d, k)
  BY DEF DeclaredIn, Members, Declared, Sources
<1>4. \A a, b, u : UseIsClear(a, b, u)' <=> UseIsClear(a, b, u)
  <2>1. \A f, k : Declared(f, k)' = Declared(f, k)
    BY DEF Declared
  <2>2. \A a, b, n : ValueBefore(a, b, n)' = ValueBefore(a, b, n)
    BY DEF ValueBefore
  <2> SUFFICES ASSUME NEW a, NEW b, NEW u  PROVE UseIsClear(a, b, u)' <=> UseIsClear(a, b, u)
    OBVIOUS
  <2>3. unit' = unit
    OBVIOUS
  <2>4. CASE u[1] = ""
    <3>1. UseIsClear(a, b, u) <=>
            \/ \E g \in Range(unit) : u[2] \in Declared(g, {"func", "method", "type"})
            \/ PackageImports(unit[a], u[2]) # {}
            \/ ValueBefore(a, b, u[2])
      BY <2>4 DEF UseIsClear
    <3>2. UseIsClear(a, b, u)' <=>
            \/ \E g \in Range(unit') : u[2] \in Declared(g, {"func", "method", "type"})'
            \/ PackageImports(unit[a], u[2])' # {}
            \/ ValueBefore(a, b, u[2])'
      BY <2>4 DEF UseIsClear
    <3>3. PackageImports(unit[a], u[2])' = PackageImports(unit[a], u[2])
      BY <1>2, <2>3
    <3> QED BY <2>1, <2>2, <2>3, <3>1, <3>2, <3>3
  <2>5. CASE u[1] # ""
    <3>1. UseIsClear(a, b, u) <=>
            /\ PackageImports(unit[a], u[1]) # {}
            /\ \A d \in PackageImports(unit[a], u[1]) : u[2] \in Members(d, {"func", "type"})
      BY <2>5 DEF UseIsClear
    <3>2. UseIsClear(a, b, u)' <=>
            /\ PackageImports(unit[a], u[1])' # {}
            /\ \A d \in PackageImports(unit[a], u[1])' : u[2] \in Members(d, {"func", "type"})'
      BY <2>5 DEF UseIsClear
    <3>3. PackageImports(unit[a], u[1])' = PackageImports(unit[a], u[1])
      BY <1>2, <2>3
    <3> QED BY <1>3, <3>1, <3>2, <3>3
  <2> QED BY <2>4, <2>5
<1>5. CleanUnit' = CleanUnit
  <2>1. \A f, k : Declared(f, k)' = Declared(f, k)
    BY DEF Declared
  <2> QED BY <1>4, <2>1 DEF CleanUnit
<1> QED BY <1>1, <1>5

\* The steps of a unit stay in its package.
LEMMA ControlKept ==
    ASSUME ControlInv, UNCHANGED <<vars, code, next, processed, written>>, IsCtxt(ctxt'),
           infer' \in InferType, stage \in Working, stage' \in Working \cup {"packages", "rejected"}
    PROVE  ControlInv' /\ UNCHANGED <<project, phase, result>> /\ phase = "sorted"
<1>1. UNCHANGED <<project, phase, result>> /\ SortInv'
  BY StutterInv DEF ControlInv, vars, sortVars
<1>2. phase = "sorted" /\ stage \notin {"writing", "unwritten", "built"}
  BY DEF ControlInv, Working
<1>3. stage' \notin {"writing", "unwritten", "built"}
  BY DEF Working
<1>4. \A f \in Files : Unedited(f)'
  BY <1>1 DEF ControlInv, Unedited
<1>5. processed' = {PackageKey(result[i]) : i \in 1..(next - 1)}'
  BY <1>1 DEF ControlInv, PackageKey
<1> QED BY <1>1, <1>2, <1>3, <1>4, <1>5 DEF ControlInv

\* Code of the unit is not yet among the outputs.
LEMMA OutputsKept ==
    ASSUME OutputsInv, UNCHANGED <<project, code, processed, unit, outputs>>,
           stage \in Working, stage' \in Working \cup {"rejected"}
    PROVE  OutputsInv'
<1>1. FinishedFiles' = FinishedFiles
  BY UnitKept DEF FinishedFiles
<1> QED BY <1>1, CodeKept DEF OutputsInv

\* The checker at work, and as an import pass finds it.
LEMMA CheckerFacts ==
    ASSUME ControlInv
    PROVE  LET s == [Checker EXCEPT !.infer.failed = FALSE]
           IN  /\ IsChecker(Checker) /\ Checker.ctxt = ctxt /\ Checker.infer = infer
               /\ s.ctxt = ctxt /\ s.infer.imports = infer.imports /\ s.infer.scope = infer.scope
               /\ s.infer.errors = infer.errors /\ s.infer.used = infer.used
<1>1. Checker \in [ctxt : {ctxt}, infer : {infer}]
  BY DEF Checker, Both
<1>2. IsCtxt(ctxt) /\ infer \in InferType
  BY DEF ControlInv
<1>3. Checker.ctxt = ctxt /\ Checker.infer = infer
  BY <1>1
<1>4. IsChecker(Checker)
  BY <1>1, <1>2, <1>3 DEF IsChecker
<1> QED BY <1>1, <1>2, <1>3, <1>4 DEF InferType

\* A pass comes to the next file of the unit, or is through with all of them.
LEMMA PassAdvances ==
    ASSUME UnitInv, stage \in Working, NEW pass, pass # stage, Advance(pass), unit' = unit
    PROVE  /\ at' \in 1..Len(unit) /\ unit[at] \in Range(unit) /\ unit[at] \in Sources
           /\ \/ stage' = stage /\ Before' = Before \cup {unit[at]}
              \/ stage' = pass /\ Before' = {} /\ Range(unit) = Before \cup {unit[at]}
<1>1. at \in 1..Len(unit) /\ Len(unit) \in Nat /\ unit \in Seq(Sources)
  BY DEF UnitInv
<1>2. 1..at = (1..(at - 1)) \cup {at}
  BY <1>1
<1>3. CASE at < Len(unit)
  <2>1. at' - 1 = at /\ stage' = stage /\ at' \in 1..Len(unit)
    BY <1>1, <1>3 DEF Advance
  <2>2. Before' = Before \cup {unit[at]}
    BY <1>2, <2>1 DEF Before
  <2> QED BY <1>1, <2>1, <2>2 DEF Range
<1>4. CASE ~ at < Len(unit)
  <2>1. at = Len(unit) /\ at' = 1 /\ stage' = pass
    BY <1>1, <1>4 DEF Advance
  <2>2. Before' = {}
    BY <2>1 DEF Before
  <2> QED BY <1>1, <1>2, <2>1, <2>2 DEF Before, Range
<1> QED BY <1>3, <1>4

-----------------------------------------------------------------------------
(* The steps of a build.                                                   *)

Between == {"packages", "writing", "unwritten", "built"}

\* A step that touches neither the checker nor the outputs.
LEMMA IdleInv ==
    ASSUME CompileInv, ControlInv',
           UNCHANGED <<project, code, ctxt, infer, processed, unit, at, outputs>>,
           stage' = stage \/ {stage, stage'} \subseteq Between
    PROVE  CompileInv'
<1>1. /\ stage' \in Working <=> stage \in Working
      /\ stage' = "rejected" <=> stage = "rejected"
      /\ stage' \in Working => stage' = stage
  BY DEF Working, Between
<1>2. FinishedFiles' = FinishedFiles /\ Known' = Known
  <2>1. DeclaredFiles' = DeclaredFiles \/ stage \notin Working
    BY <1>1 DEF DeclaredFiles, Before
  <2> QED BY <1>1, <2>1, UnitKept DEF FinishedFiles, Known
<1>3. UnitInv' /\ RegistryInv' /\ OutputsInv'
  <2>1. UnitInv'
    BY <1>1, CodeKept DEF CompileInv, UnitInv
  <2>2. RegistryInv'
    BY <1>1, <1>2, CodeKept DEF CompileInv, RegistryInv
  <2>3. OutputsInv'
    BY <1>2, CodeKept DEF CompileInv, OutputsInv
  <2> QED BY <2>1, <2>2, <2>3
<1>4. ASSUME stage' \in Working PROVE ImportsInv' /\ ScopeInv' /\ UsesInv'
  <2>1. stage' = stage /\ Before' = Before
    BY <1>1, <1>4 DEF Before
  <2>2. ImportedFiles' = ImportedFiles /\ InferredFiles' = InferredFiles
    BY <2>1 DEF ImportedFiles, InferredFiles
  <2>3. ImportsInv'
    BY <1>1, <1>4, <2>2, CodeKept DEF CompileInv, ImportsInv
  <2>4. ScopeInv'
    BY <1>1, <1>4, <2>2, CodeKept DEF CompileInv, ScopeInv
  <2>5. UsesInv'
    BY <1>1, <1>4, <2>1, <2>2, CodeKept, UnitKept DEF CompileInv, UsesInv
  <2> QED BY <2>3, <2>4, <2>5
<1>5. OnlyOrderRejectsCleanCode'
  BY <1>1, UnitKept DEF CompileInv, OnlyOrderRejectsCleanCode
<1> QED BY <1>3, <1>4, <1>5 DEF CompileInv

\* The next of the sorted sources: its package has been begun, or is now.
LEMMA NextSource ==
    ASSUME ControlInv, UNCHANGED <<vars, code, written>>, phase = "sorted", stage = "packages",
           next <= Len(result), next' = next + 1,
           processed' = processed \cup {PackageKey(result[next])},
           IsCtxt(ctxt'), infer' \in InferType, stage' \in {"packages", "imports"}
    PROVE  ControlInv' /\ UNCHANGED <<project, phase, result>>
<1>1. UNCHANGED <<project, phase, result>> /\ SortInv'
  BY StutterInv DEF ControlInv, vars, sortVars
<1>2. result \in Seq(Sources) /\ Len(result) \in Nat /\ next \in Nat \ {0}
  BY SortedFacts DEF ControlInv
<1>3. next' \in 1..(Len(result') + 1)
  BY <1>1, <1>2
<1>4. processed' = {PackageKey(result[i]) : i \in 1..(next - 1)}'
  <2>1. 1..(next' - 1) = (1..(next - 1)) \cup {next}
    BY <1>2
  <2>2. processed = {PackageKey(result[i]) : i \in 1..(next - 1)}
    BY DEF ControlInv
  <2>3. processed' = {PackageKey(result[i]) : i \in 1..(next' - 1)}
    BY <2>1, <2>2
  <2> QED BY <1>1, <2>3 DEF PackageKey
<1>5. \A f \in Files : Unedited(f)'
  BY <1>1 DEF ControlInv, Unedited
<1> QED BY <1>1, <1>3, <1>4, <1>5 DEF ControlInv, Working

\* A file of a package begun before.
LEMMA SkipFileInv == CompileInv /\ SkipFile => CompileInv'
<1> SUFFICES ASSUME CompileInv, SkipFile PROVE CompileInv'
  OBVIOUS
<1>1. /\ ControlInv /\ UNCHANGED <<vars, code, written>> /\ phase = "sorted" /\ stage = "packages"
      /\ next <= Len(result) /\ next' = next + 1
      /\ processed' = processed \cup {PackageKey(result[next])}
      /\ UNCHANGED <<code, ctxt, infer, processed, unit, at, outputs, stage>>
  BY DEF CompileInv, SkipFile, nameVars
<1>2. IsCtxt(ctxt') /\ infer' \in InferType
  BY <1>1 DEF ControlInv
<1>3. ControlInv' /\ project' = project
  BY <1>1, <1>2, NextSource
<1> QED BY <1>1, <1>3, IdleInv

\* A package is begun: a new Infer, its directory the module at work.
LEMMA StartPackageInv == CompileInv /\ StartPackage => CompileInv'
<1> SUFFICES ASSUME CompileInv, StartPackage PROVE CompileInv'
  OBVIOUS
<1> DEFINE f == result[next]
<1>1. /\ phase = "sorted" /\ stage = "packages" /\ next <= Len(result) /\ next' = next + 1
      /\ PackageKey(f) \notin processed /\ processed' = processed \cup {PackageKey(f)}
      /\ unit' = PackageFiles(f) /\ ctxt' = InModule(ctxt, project.dir[f])
      /\ infer' = NewInfer /\ stage' = "imports" /\ at' = 1
      /\ UNCHANGED <<vars, code, outputs, written>>
  BY DEF StartPackage
<1>2. /\ ControlInv /\ SortInv /\ UnitInv /\ RegistryInv /\ OutputsInv /\ IsCtxt(ctxt)
      /\ next \in 1..(Len(result) + 1)
  BY DEF CompileInv, ControlInv
<1>3. f \in Sources /\ project.dir[f] \in Dirs
  <2>1. result \in Seq(Sources) /\ Len(result) \in Nat
    BY <1>1, <1>2, SortedFacts
  <2>2. f \in Sources
    BY <1>1, <1>2, <2>1
  <2> QED BY <1>1, <1>2, <2>2, SortedFacts
<1>4. IsCtxt(ctxt') /\ ctxt'.modules = ctxt.modules /\ ctxt'.current = project.dir[f]
  BY <1>1, <1>2, <1>3 DEF IsCtxt, InModule, ModuleIds
<1>5. ControlInv' /\ UNCHANGED <<project, phase, result>>
  BY <1>1, <1>2, <1>4, NewStates, NextSource
<1>6. /\ unit' \in Seq(Sources) /\ IsInjective(unit') /\ Range(unit') = PackageOf(f)
      /\ Len(unit') \in Nat \ {0}
  BY <1>1, <1>2, <1>3, PackageFilesFacts
<1> HIDE DEF f
<1>7. \A g \in PackageOf(f) : PackageKey(g) = PackageKey(f) /\ PackageOf(g) = PackageOf(f)
                                /\ project.dir[g] = project.dir[f] /\ g \in Sources
  BY DEF PackageOf, PackageKey
<1>8. UnitInv'
  <2>1. ASSUME NEW g \in Range(unit')
        PROVE  /\ Range(unit') = PackageOf(g)' /\ PackageKey(g)' \in processed'
               /\ ctxt'.current = project'.dir[g]
    BY <1>1, <1>4, <1>5, <1>6, <1>7, <2>1, CodeKept
  <2>2. at' \in 1..Len(unit') /\ unit' \in Seq(Sources')
    BY <1>1, <1>5, <1>6 DEF Sources
  <2> QED BY <1>6, <2>1, <2>2 DEF UnitInv
<1>9. Begun' = Begun \cup PackageOf(f) /\ Begun \cap PackageOf(f) = {}
  <2>1. Begun' = {g \in Sources : PackageKey(g) \in processed'}
    BY <1>1, <1>5, CodeKept DEF Begun
  <2> QED BY <1>1, <1>7, <2>1 DEF Begun, PackageOf
<1>10. Known' = Known /\ FinishedFiles' = FinishedFiles
  <2>1. Known = Begun /\ FinishedFiles = Begun
    BY <1>1 DEF Known, FinishedFiles, Working
  <2>2. DeclaredFiles' = {} /\ stage' \in Working
    BY <1>1 DEF DeclaredFiles, Working
  <2>3. Known' = Begun' \ Range(unit') /\ FinishedFiles' = Begun' \ Range(unit')
    BY <2>2 DEF Known, FinishedFiles
  <2> QED BY <1>6, <1>9, <2>1, <2>3
<1>11. RegistryInv'
  BY <1>1, <1>2, <1>4, <1>5, <1>10, CodeKept DEF RegistryInv
<1>12. OutputsInv'
  BY <1>1, <1>2, <1>5, <1>10, CodeKept DEF OutputsInv
<1>13. ImportsInv' /\ ScopeInv' /\ UsesInv'
  <2>1. ImportedFiles' = {} /\ InferredFiles' = {}
    BY <1>1 DEF ImportedFiles, InferredFiles, Before
  <2>2. \A n \in Names : infer'.imports[n] = NoImport
    BY <1>1 DEF NewInfer
  <2>3. infer'.scope = {} /\ infer'.errors = {}
    BY <1>1 DEF NewInfer
  <2>4. ImportsInv'
    BY <2>1, <2>2 DEF ImportsInv, NoImport
  <2>5. ScopeInv'
    BY <2>1, <2>3 DEF ScopeInv
  <2>6. UsesInv'
    BY <2>1, <2>3 DEF UsesInv
  <2> QED BY <2>4, <2>5, <2>6
<1>14. OnlyOrderRejectsCleanCode'
  BY <1>1 DEF OnlyOrderRejectsCleanCode
<1> QED BY <1>5, <1>8, <1>11, <1>12, <1>13, <1>14 DEF CompileInv

\* The passes before the bodies leave what they do not name as it was.
LEMMA UnitStepInv ==
    ASSUME CompileInv, UNCHANGED <<vars, code, next, processed, unit, outputs, written>>,
           stage \in Working, stage' \in Working, IsCtxt(ctxt'), infer' \in InferType,
           at' \in 1..Len(unit), ctxt'.current = ctxt.current,
           RegistryInv', ImportsInv', ScopeInv', UsesInv'
    PROVE  CompileInv'
<1>1. ControlInv' /\ UNCHANGED <<project, phase, result>>
  BY ControlKept DEF CompileInv
<1>2. UnitInv'
  BY <1>1, CodeKept DEF CompileInv, UnitInv
<1>3. OutputsInv'
  BY <1>1, OutputsKept DEF CompileInv
<1>4. OnlyOrderRejectsCleanCode'
  BY DEF OnlyOrderRejectsCleanCode, Working
<1> QED BY <1>1, <1>2, <1>3, <1>4 DEF CompileInv

\* A unit is given up for a reason that is its own or the order's.
LEMMA RejectInv ==
    ASSUME CompileInv, UNCHANGED <<vars, code, next, processed, unit, outputs, written>>,
           stage \in Working, stage' = "rejected", IsCtxt(ctxt'), infer' \in InferType,
           ~ CleanUnit \/ OutOfOrder
    PROVE  CompileInv'
<1>1. ControlInv' /\ UNCHANGED <<project, phase, result>>
  BY ControlKept DEF CompileInv
<1>2. UnitInv'
  BY <1>1, CodeKept DEF CompileInv, UnitInv, Working
<1>3. OutputsInv'
  BY <1>1, OutputsKept DEF CompileInv
<1>4. OnlyOrderRejectsCleanCode'
  BY <1>1, UnitKept DEF OnlyOrderRejectsCleanCode
<1>5. RegistryInv' /\ stage' \notin Working
  BY DEF RegistryInv, Working
<1> QED BY <1>1, <1>2, <1>3, <1>4, <1>5 DEF CompileInv

\* A unit's file is a file of the project.
LEMMA UnitFiles ==
    ASSUME CompileInv, stage \in Working
    PROVE  /\ \A f \in Range(unit) : f \in Sources /\ f \in Files
           /\ phase = "sorted" /\ project \in ProjectType
           /\ code \in [Files -> CodeType]
           /\ \A f \in Files : BindingsOf(f) \subseteq Bindings
           /\ unit[at] \in Range(unit) /\ at \in 1..Len(unit) /\ unit \in Seq(Sources)
           /\ ImportedFiles \subseteq Range(unit)
<1>1. phase = "sorted" /\ code \in [Files -> CodeType] /\ SortInv
  BY DEF CompileInv, ControlInv, Working
<1>2. unit \in Seq(Sources) /\ at \in 1..Len(unit) /\ Sources \subseteq Files /\ project \in ProjectType
  BY <1>1, SortedFacts DEF CompileInv, UnitInv
<1>3. ASSUME NEW f \in Files PROVE BindingsOf(f) \subseteq Bindings
  <2>1. code[f].imports \in Seq(Bindings)
    BY <1>1 DEF CodeType
  <2> QED BY <2>1, RangeOfSeq DEF BindingsOf, Binders
<1>4. Range(unit) \subseteq Sources
  BY <1>2, RangeOfSeq
<1>5. ImportedFiles \subseteq Range(unit) /\ unit[at] \in Range(unit)
  BY <1>2 DEF ImportedFiles, Before, Range
<1> QED BY <1>1, <1>2, <1>3, <1>4, <1>5

\* The imports of one more file.
LEMMA ImportFileInv == CompileInv /\ ImportFile => CompileInv'
<1> SUFFICES ASSUME CompileInv, ImportFile PROVE CompileInv'
  OBVIOUS
<1> DEFINE f == unit[at]
           start == [Checker EXCEPT !.infer.failed = FALSE]
           s == ProcessImports(Checker, f)
<1>1. /\ stage = "imports" /\ stage \in Working /\ ctxt' = s.ctxt /\ infer' = s.infer
      /\ IF s.infer.failed THEN stage' = "rejected" ELSE Advance("declare")
      /\ UNCHANGED <<vars, code, next, processed, unit, outputs, written>>
  BY DEF ImportFile, Becomes, Working
<1>2. /\ f \in Range(unit) /\ f \in Files /\ code \in [Files -> CodeType]
      /\ \A g \in Range(unit) : g \in Files /\ BindingsOf(g) \subseteq Bindings
      /\ ControlInv /\ UnitInv /\ ImportsInv /\ ScopeInv /\ UsesInv /\ RegistryInv
      /\ ImportedFiles \subseteq Range(unit)
  BY <1>1, UnitFiles DEF CompileInv
<1>3. /\ IsChecker(Checker) /\ start.ctxt = ctxt /\ start.infer.imports = infer.imports
      /\ start.infer.scope = infer.scope /\ start.infer.errors = infer.errors
  BY <1>2, CheckerFacts
<1>4. Processed(start, s, BindingsOf(f))
  BY <1>2, <1>3, ImportsProcessed
<1> HIDE DEF start, s
<1>5. /\ IsCtxt(ctxt') /\ infer' \in InferType
      /\ ctxt'.current = ctxt.current /\ ctxt'.modules = ctxt.modules
  BY <1>1, <1>3, <1>4 DEF Processed, IsChecker
<1>6. CASE s.infer.failed
  <2>1. PICK b \in BindingsOf(f) : Fails(b)
    BY <1>4, <1>6 DEF Processed, OneMissing
  <2>2. b \in Range(code[f].imports) /\ b.name # "_" /\ b.path \in Unresolvable
    BY <2>1 DEF BindingsOf, Binders, Fails
  <2>3. ~ CleanUnit
    <3>1. PICK a \in DOMAIN unit : unit[a] = f
      BY <1>2 DEF Range
    <3> QED BY <2>2, <3>1 DEF CleanUnit
  <2> QED BY <1>1, <1>5, <1>6, <2>3, RejectInv
<1>7. CASE ~ s.infer.failed
  <2>1. Advance("declare") /\ "declare" # stage /\ unit' = unit /\ UNCHANGED <<project, code, processed>>
    BY <1>1, <1>7 DEF vars
  <2>2. /\ at' \in 1..Len(unit)
        /\ \/ stage' = stage /\ Before' = Before \cup {f}
           \/ stage' = "declare" /\ Before' = {} /\ Range(unit) = Before \cup {f}
    BY <1>1, <1>2, <2>1, PassAdvances
  <2>3. /\ ImportedFiles' = ImportedFiles \cup {f} /\ DeclaredFiles' = {} /\ DeclaredFiles = {}
        /\ InferredFiles' = {} /\ stage' \in {"imports", "declare"}
    BY <1>1, <2>1, <2>2 DEF ImportedFiles, DeclaredFiles, InferredFiles
  <2>4. AllFound(start.infer, s.infer, BindingsOf(f)) /\ NamesBound(start.infer, s.infer, BindingsOf(f))
    BY <1>4, <1>7 DEF Processed
  <2>5. \A b : Bound(b) # NoImport
    BY DEF Bound, NoImport
  <2>6. ImportsInv'
    <3>1. ASSUME NEW n \in Names
          PROVE  \/ infer'.imports[n] = NoImport
                 \/ \E g \in ImportedFiles \cup {f} : \E b \in BindingsOf(g) :
                        b.name = n /\ infer'.imports[n] = Bound(b)
      <4>1. \/ infer'.imports[n] = infer.imports[n]
            \/ \E b \in BindingsOf(f) : b.name = n /\ infer'.imports[n] = Bound(b)
        BY <1>1, <1>3, <2>4 DEF NamesBound
      <4> QED BY <1>2, <4>1 DEF ImportsInv
    <3>2. ASSUME NEW g \in ImportedFiles \cup {f}, NEW b \in BindingsOf(g)
          PROVE  b.name \in infer'.scope /\ infer'.imports[b.name] # NoImport
      <4>1. CASE g = f
        BY <1>1, <2>4, <2>5, <4>1 DEF AllFound
      <4>2. CASE g \in ImportedFiles
        <5>1. b \in Bindings /\ b.name # "_"
          BY <1>2, <4>2 DEF BindingsOf, Binders
        <5>2. b.name \in Names
          BY <5>1 DEF Bindings
        <5>3. b.name \in infer.scope /\ infer.imports[b.name] # NoImport
          BY <1>2, <4>2 DEF ImportsInv
        <5>4. \/ infer'.imports[b.name] = infer.imports[b.name]
              \/ \E d \in BindingsOf(f) : infer'.imports[b.name] = Bound(d)
          BY <1>1, <1>3, <2>4, <5>2 DEF NamesBound
        <5> QED BY <1>1, <1>3, <2>4, <2>5, <5>3, <5>4 DEF NamesBound
      <4> QED BY <4>1, <4>2
    <3> QED BY <2>1, <2>3, <3>1, <3>2, CodeKept DEF ImportsInv
  <2>7. ScopeInv'
    <3>1. ASSUME NEW n \in infer'.scope
          PROVE  \E g \in Range(unit) : (\E b \in BindingsOf(g) : b.name = n) \/ n \in Declared(g, Scoped)
      <4>1. n \in infer.scope \/ \E b \in BindingsOf(f) : b.name = n
        BY <1>1, <1>3, <2>4 DEF NamesBound
      <4> QED BY <1>2, <4>1 DEF ScopeInv
    <3> QED BY <2>1, <2>3, <3>1, CodeKept DEF ScopeInv
  <2>8. UsesInv'
    <3>1. UNCHANGED <<project, code, processed, unit>> /\ infer'.errors = infer.errors
      BY <1>1, <1>3, <2>1, <2>4 DEF AllFound
    <3> QED BY <1>2, <2>3, <3>1, UnitKept DEF UsesInv
  <2>9. RegistryInv'
    <3>1. Known' = Known
      BY <1>1, <2>1, <2>3, UnitKept DEF Known, Working
    <3> QED BY <1>1, <1>2, <1>5, <2>1, <3>1, CodeKept DEF RegistryInv
  <2> QED BY <1>1, <1>5, <2>2, <2>3, <2>6, <2>7, <2>8, <2>9, UnitStepInv DEF Working
<1> QED BY <1>6, <1>7

\* The declarations of one more file.
LEMMA DeclareFileInv == CompileInv /\ DeclareFile => CompileInv'
<1> SUFFICES ASSUME CompileInv, DeclareFile PROVE CompileInv'
  OBVIOUS
<1> DEFINE f == unit[at]
           s == RegisterDeclarations(Checker, f)
           d == ctxt.current
<1>1. /\ stage = "declare" /\ stage \in Working /\ ctxt' = s.ctxt /\ infer' = s.infer
      /\ Advance("bodies") /\ "bodies" # stage
      /\ UNCHANGED <<vars, code, next, processed, unit, outputs, written>>
  BY DEF DeclareFile, Becomes, Working
<1>2. /\ f \in Range(unit) /\ f \in Files /\ f \in Sources /\ code \in [Files -> CodeType]
      /\ ControlInv /\ UnitInv /\ ImportsInv /\ ScopeInv /\ UsesInv /\ RegistryInv
  BY <1>1, UnitFiles DEF CompileInv
<1>3. IsChecker(Checker) /\ Checker.ctxt = ctxt /\ Checker.infer = infer
  BY <1>2, CheckerFacts
<1>4. IsChecker(s) /\ s.ctxt.current = d /\ s.infer.imports = infer.imports
      /\ s.infer.scope = infer.scope \cup Declared(f, {"func", "method"})
      /\ s.infer.errors = infer.errors \cup Refused(f)
  BY <1>2, <1>3, RegisterFacts
<1>5. \A k \in ModuleIds :
        /\ s.ctxt.modules[k].functions = ctxt.modules[k].functions
                \cup (IF k = d THEN Declared(f, {"func", "method"}) ELSE {})
        /\ s.ctxt.modules[k].types = ctxt.modules[k].types
                \cup (IF k = d THEN Declared(f, {"type"}) ELSE {})
  BY <1>2, <1>3, RegisterFacts
<1> HIDE DEF s
<1>6. /\ IsCtxt(ctxt') /\ infer' \in InferType /\ ctxt'.current = ctxt.current
  BY <1>1, <1>4 DEF IsChecker
<1>7. unit' = unit /\ UNCHANGED <<project, code, processed>>
  BY <1>1 DEF vars
<1>8. /\ at' \in 1..Len(unit)
      /\ \/ stage' = stage /\ Before' = Before \cup {f}
         \/ stage' = "bodies" /\ Before' = {} /\ Range(unit) = Before \cup {f}
  BY <1>1, <1>2, <1>7, PassAdvances
<1>9. /\ ImportedFiles' = ImportedFiles /\ DeclaredFiles' = DeclaredFiles \cup {f}
      /\ InferredFiles' = {} /\ stage' \in Working
  BY <1>1, <1>7, <1>8 DEF ImportedFiles, DeclaredFiles, InferredFiles, Working
<1>10. ImportsInv'
  BY <1>1, <1>2, <1>4, <1>7, <1>9, CodeKept DEF ImportsInv
<1>11. ScopeInv'
  <2>1. Declared(f, {"func", "method"}) \subseteq Declared(f, Scoped)
    BY DEF Declared, Scoped
  <2> QED BY <1>1, <1>2, <1>4, <1>7, <1>9, <2>1, CodeKept DEF ScopeInv
<1>12. UsesInv'
  <2>1. ASSUME infer'.errors # {} PROVE ~ CleanUnit \/ OutOfOrder
    <3>1. CASE infer.errors # {}
      BY <1>2, <3>1 DEF UsesInv
    <3>2. CASE infer.errors = {}
      <4>1. Declared(f, {"enum method"}) # {}
        BY <1>1, <1>4, <2>1, <3>2 DEF Refused
      <4>2. PICK a \in DOMAIN unit : unit[a] = f
        BY <1>2 DEF Range
      <4> QED BY <4>1, <4>2 DEF CleanUnit
    <3> QED BY <3>1, <3>2
  <2> QED BY <1>7, <1>9, <2>1, UnitKept DEF UsesInv
<1>13. RegistryInv'
  <2>1. Known' = Known \cup {f}
    <3>1. f \in Begun
      BY <1>2 DEF Begun, UnitInv
    <3> QED BY <1>1, <1>2, <1>7, <1>9, <3>1, UnitKept DEF Known
  <2>2. d = project.dir[f] /\ Dirs \subseteq ModuleIds
    BY <1>1, <1>2 DEF UnitInv, ModuleIds
  <2>3. ASSUME NEW x \in Dirs, NEW n
        PROVE  /\ n \in ctxt'.modules[x].functions
                    <=> \E g \in Known \cup {f} : project.dir[g] = x /\ n \in Declared(g, {"func", "method"})
               /\ n \in ctxt'.modules[x].types
                    <=> \E g \in Known \cup {f} : project.dir[g] = x /\ n \in Declared(g, {"type"})
    <3>1. /\ n \in ctxt.modules[x].functions
                <=> \E g \in Known : project.dir[g] = x /\ n \in Declared(g, {"func", "method"})
          /\ n \in ctxt.modules[x].types
                <=> \E g \in Known : project.dir[g] = x /\ n \in Declared(g, {"type"})
      BY <1>1, <1>2 DEF RegistryInv, Working
    <3>2. x \in ModuleIds
      BY <2>2
    <3>3. /\ n \in ctxt'.modules[x].functions
                <=> n \in ctxt.modules[x].functions \/ (x = d /\ n \in Declared(f, {"func", "method"}))
          /\ n \in ctxt'.modules[x].types
                <=> n \in ctxt.modules[x].types \/ (x = d /\ n \in Declared(f, {"type"}))
      BY <1>1, <1>5, <3>2
    <3> QED BY <2>2, <3>1, <3>3
  <2> QED BY <1>7, <2>1, <2>3, CodeKept DEF RegistryInv
<1> QED BY <1>1, <1>6, <1>8, <1>9, <1>10, <1>11, <1>12, <1>13, UnitStepInv

\* What is looked up while bodies are inferred: all the unit's imports and
\* declarations are there.
LEMMA BodiesSee ==
    ASSUME CompileInv, stage \in {"bodies", "check"}
    PROVE  /\ ImportedFiles = Range(unit) /\ Known = Begun
           /\ \A d \in Dirs : \A n :
                 /\ n \in ctxt.modules[d].functions
                      <=> \E f \in Begun : project.dir[f] = d /\ n \in Declared(f, {"func", "method"})
                 /\ n \in ctxt.modules[d].types
                      <=> \E f \in Begun : project.dir[f] = d /\ n \in Declared(f, {"type"})
           /\ \A d \in Dirs : ctxt.modules[d].constants = {}
<1>1. ImportedFiles = Range(unit) /\ Known = Begun
  BY DEF ImportedFiles, Known, DeclaredFiles
<1>2. \A d \in Dirs : ctxt.modules[d].constants = {}
  BY DEF CompileInv, ControlInv, IsCtxt, ModuleType, ModuleIds
<1> QED BY <1>1, <1>2 DEF CompileInv, RegistryInv

\* A name in scope, or in the module at work, comes from the package's files or
\* from another package of the directory.
LEMMA BareIsKnown ==
    ASSUME CompileInv, stage \in {"bodies", "check"}, NEW f \in Range(unit), NEW k, NEW n \in Names,
           FoundBare(SeenBy(Checker, f, k), n), k \in DOMAIN code[f].decls
    PROVE  \/ \E g \in PackageOf(f) : n \in Declared(g, Scoped)
           \/ \E g \in Sources : project.dir[g] = project.dir[f] /\ n \in Declared(g, {"func", "method", "type"})
           \/ PackageImports(f, n) # {}
<1> DEFINE x == SeenBy(Checker, f, k)
           d == project.dir[f]
<1>1. stage \in Working
  BY DEF Working
<1>2. /\ f \in Sources /\ f \in Files /\ code \in [Files -> CodeType] /\ project \in ProjectType
      /\ d \in Dirs /\ ctxt.current = d /\ Range(unit) = PackageOf(f)
  BY <1>1, UnitFiles DEF CompileInv, UnitInv, ProjectType
<1>3. /\ IsChecker(Checker) /\ Checker.ctxt = ctxt /\ Checker.infer = infer
  BY CheckerFacts DEF CompileInv
<1>4. /\ x.ctxt = ctxt
      /\ x.infer.scope = infer.scope \cup {code[f].decls[j].name :
            j \in {i \in 1..(k - 1) : code[f].decls[i].kind \in Late}}
  BY <1>3, SeenByFacts
<1> HIDE DEF x
<1>5. n \in x.infer.scope \cup ctxt.modules[d].functions \cup ctxt.modules[d].constants
              \cup ctxt.modules[d].types
  BY <1>2, <1>4 DEF FoundBare, x
<1>6. CASE n \in infer.scope
  <2>1. PICK g \in Range(unit) : (\E b \in BindingsOf(g) : b.name = n) \/ n \in Declared(g, Scoped)
    BY <1>1, <1>6 DEF CompileInv, ScopeInv
  <2>2. CASE \E b \in BindingsOf(g) : b.name = n
    <3>1. PICK b \in BindingsOf(g) : b.name = n
      BY <2>2
    <3>2. b.path \in ImportedAs(g, n)
      BY <3>1 DEF ImportedAs, BindingsOf, Binders
    <3> QED BY <1>2, <3>2 DEF PackageImports
  <2>3. CASE n \in Declared(g, Scoped)
    BY <1>2, <2>3
  <2> QED BY <2>1, <2>2, <2>3
<1>7. CASE n \in x.infer.scope \ infer.scope
  <2>1. PICK j \in 1..(k - 1) : code[f].decls[j].kind \in Late /\ code[f].decls[j].name = n
    BY <1>4, <1>7
  <2>2. code[f].decls \in Seq(Decls)
    BY <1>2 DEF CodeType
  <2>3. code[f].decls[j] \in Range(code[f].decls)
    BY <2>1, <2>2 DEF Range
  <2>4. n \in Declared(f, Scoped)
    BY <1>2, <2>1, <2>3, DeclaredFacts DEF Scoped
  <2> QED BY <1>2, <2>4
<1>8. CASE n \in ctxt.modules[d].functions \cup ctxt.modules[d].types
  <2>1. PICK g \in Begun : project.dir[g] = d /\
            (n \in Declared(g, {"func", "method"}) \/ n \in Declared(g, {"type"}))
    BY <1>2, <1>8, BodiesSee
  <2>2. g \in Sources /\ n \in Declared(g, {"func", "method", "type"})
    BY <2>1 DEF Begun, Declared
  <2> QED BY <2>1, <2>2
<1> QED BY <1>2, <1>5, <1>6, <1>7, <1>8, BodiesSee

\* Such a name is the package's own, or one that the checker should not find.
LEMMA OwnOrStray ==
    ASSUME code \in [Files -> CodeType], Sources \subseteq Files, NEW f \in Sources, NEW n,
           \/ \E g \in PackageOf(f) : n \in Declared(g, Scoped)
           \/ \E g \in Sources : project.dir[g] = project.dir[f] /\ n \in Declared(g, {"func", "method", "type"})
    PROVE  n \in OwnNames(f) \/ StrayName(f, n)
<1>1. PICK g \in Sources : /\ project.dir[g] = project.dir[f]
                          /\ \/ g \in PackageOf(f) /\ n \in Declared(g, Scoped)
                             \/ n \in Declared(g, {"func", "method", "type"})
  BY DEF PackageOf, PackageKey
<1>2. PICK kinds : /\ n \in Declared(g, kinds)
                   /\ kinds = {"func", "method", "type"} \/ (g \in PackageOf(f) /\ kinds = Scoped)
  BY <1>1
<1>3. PICK d \in Range(code[g].decls) : d.kind \in kinds /\ d.name = n
  BY <1>1, <1>2, DeclaredFacts
<1>4. \A k : d.kind \in k => n \in Declared(g, k)
  BY <1>1, <1>3, DeclaredFacts
<1>5. CASE d.kind = "method"
  BY <1>1, <1>4, <1>5 DEF StrayName, DeclaredIn
<1>6. CASE d.kind = "variant"
  <2>1. g \in PackageOf(f)
    BY <1>2, <1>3, <1>6
  <2> QED BY <1>4, <1>6, <2>1 DEF StrayName
<1>7. CASE d.kind \in GoKinds /\ g \in PackageOf(f)
  BY <1>4, <1>7 DEF OwnNames, StrayName
<1>8. CASE d.kind \in {"func", "type"} /\ g \notin PackageOf(f)
  BY <1>1, <1>4, <1>8 DEF StrayName
<1> QED BY <1>2, <1>3, <1>5, <1>6, <1>7, <1>8 DEF Scoped, Late, GoKinds

\* The import that a name stands for, when a file of the unit imports it.
LEMMA ImportStandsFor ==
    ASSUME CompileInv, stage \in {"bodies", "check"}, NEW f \in Range(unit), NEW q \in Names,
           PackageImports(f, q) # {}
    PROVE  /\ q \in infer.scope
           /\ \E g \in Range(unit) : \E b \in BindingsOf(g) :
                b.name = q /\ infer.imports[q] = Bound(b) /\ b.path \in PackageImports(f, q)
<1>1. stage \in Working
  BY DEF Working
<1>2. Range(unit) = PackageOf(f)
  BY DEF CompileInv, UnitInv
<1>3. PICK h \in Range(unit) : ImportedAs(h, q) # {}
  BY <1>2 DEF PackageImports
<1>4. PICK c \in Range(code[h].imports) : c.name = q
  BY <1>3 DEF ImportedAs
<1>5. c \in BindingsOf(h)
  BY <1>4, NamesAssumption DEF BindingsOf, Binders
<1>6. q \in infer.scope /\ infer.imports[q] # NoImport
  BY <1>1, <1>4, <1>5, BodiesSee DEF CompileInv, ImportsInv
<1>7. PICK g \in Range(unit) : \E b \in BindingsOf(g) : b.name = q /\ infer.imports[q] = Bound(b)
  BY <1>1, <1>6, BodiesSee DEF CompileInv, ImportsInv
<1>8. PICK b \in BindingsOf(g) : b.name = q /\ infer.imports[q] = Bound(b)
  BY <1>7
<1>9. b.path \in ImportedAs(g, q)
  BY <1>8 DEF ImportedAs, BindingsOf, Binders
<1>10. b.path \in PackageImports(f, q)
  BY <1>2, <1>9 DEF PackageImports
<1> QED BY <1>6, <1>8, <1>10

\* A member that is found is offered by the import asked, or is one that nobody
\* should find there.
LEMMA MemberFound ==
    ASSUME CompileInv, stage \in {"bodies", "check"}, NEW f \in Range(unit), NEW k, NEW q \in Names, NEW n,
           FoundMember(SeenBy(Checker, f, k), q, n), PackageImports(f, q) # {}
    PROVE  \E d \in PackageImports(f, q) : n \in Exports(d) \/ StrayMember(d, n)
<1> DEFINE x == SeenBy(Checker, f, k)
<1>1. stage \in Working
  BY DEF Working
<1>2. IsChecker(Checker) /\ Checker.ctxt = ctxt /\ Checker.infer = infer
  BY CheckerFacts DEF CompileInv
<1>3. x.ctxt = ctxt /\ x.infer.imports = infer.imports
  BY <1>2, SeenByFacts
<1>4. PICK g \in Range(unit) : \E b \in BindingsOf(g) :
            b.name = q /\ infer.imports[q] = Bound(b) /\ b.path \in PackageImports(f, q)
  BY ImportStandsFor
<1>5. PICK b \in BindingsOf(g) :
            b.name = q /\ infer.imports[q] = Bound(b) /\ b.path \in PackageImports(f, q)
  BY <1>4
<1> DEFINE d == b.path
<1> HIDE DEF x
<1>6. CASE ImportTargets(project, d) = {}
  <2>1. infer.imports[q].to = "go" /\ infer.imports[q].module = d
    BY <1>5, <1>6 DEF Bound
  <2>2. n \in GoNames[d]
    BY <1>3, <2>1 DEF FoundMember, x
  <2> QED BY <1>5, <1>6, <2>2 DEF Exports
<1>7. CASE ImportTargets(project, d) # {}
  <2>1. d \in Dirs
    BY <1>7 DEF ImportTargets
  <2>2. infer.imports[q].to = "soppo" /\ infer.imports[q].module = d
    BY <1>5, <1>7 DEF Bound
  <2>3. n \in ctxt.modules[d].functions \cup ctxt.modules[d].types \cup ctxt.modules[d].constants
    BY <1>3, <2>2 DEF FoundMember, x
  <2>4. PICK h \in Begun : project.dir[h] = d /\
            (n \in Declared(h, {"func", "method"}) \/ n \in Declared(h, {"type"}))
    BY <2>1, <2>3, BodiesSee
  <2>5. h \in Sources /\ h \in Files /\ code \in [Files -> CodeType]
    BY <1>1, SortedFacts, UnitFiles DEF Begun, CompileInv, ControlInv
  <2>6. PICK e \in Range(code[h].decls) : e.kind \in {"func", "method", "type"} /\ e.name = n
    BY <2>4, <2>5, DeclaredFacts
  <2>7. \A kinds : e.kind \in kinds => n \in Declared(h, kinds)
    BY <2>5, <2>6, DeclaredFacts
  <2>8. CASE e.kind = "method"
    BY <1>5, <1>7, <2>4, <2>5, <2>7, <2>8 DEF StrayMember, DeclaredIn
  <2>9. CASE e.kind # "method" /\ h \in project.test
    BY <1>5, <1>7, <2>4, <2>5, <2>6, <2>7, <2>9 DEF StrayMember
  <2>10. CASE e.kind # "method" /\ h \notin project.test
    BY <1>5, <1>7, <2>4, <2>5, <2>6, <2>7, <2>10 DEF Exports, GoKinds
  <2> QED BY <2>8, <2>9, <2>10
<1> QED BY <1>6, <1>7

\* A use that is found is accounted for.
LEMMA FoundIsAccounted ==
    ASSUME CompileInv, stage \in {"bodies", "check"}, NEW f \in Range(unit),
           NEW k \in DOMAIN code[f].decls, NEW u \in Uses, Found1(SeenBy(Checker, f, k), u)
    PROVE  UseIsAccounted(f, u)
<1> DEFINE x == SeenBy(Checker, f, k)
           q == u[1]
           n == u[2]
<1>1. n \in Names /\ (q = "" \/ q \in Names)
  BY DEF Uses
<1>2. f \in Sources /\ Sources \subseteq Files /\ code \in [Files -> CodeType]
  <2>1. stage \in Working
    BY DEF Working
  <2> QED BY <2>1, UnitFiles, SortedFacts DEF CompileInv, ControlInv
<1>3. ASSUME NEW m \in Names, FoundBare(x, m), PackageImports(f, m) = {}
      PROVE  m \in OwnNames(f) \/ StrayName(f, m)
  BY <1>2, <1>3, BareIsKnown, OwnOrStray
<1>4. CASE q = ""
  <2>1. FoundBare(x, n)
    BY <1>4 DEF Found1
  <2>2. n \in OwnNames(f) \/ StrayName(f, n) \/ PackageImports(f, n) # {}
    BY <1>1, <1>3, <2>1
  <2> QED BY <1>4, <2>2 DEF UseIsAccounted, InGo, KnownGap, PackageAlone
<1>5. CASE q # ""
  <2>1. FoundMember(x, q, n)
    BY <1>5 DEF Found1
  <2>2. q \in Names /\ FoundBare(x, q)
    BY <1>1, <1>5, <2>1 DEF FoundMember
  <2>3. CASE PackageImports(f, q) = {}
    <3>1. ImportedAs(f, q) = {}
      BY <1>2, <2>3 DEF PackageImports, PackageOf
    <3>2. q \in OwnNames(f) \/ StrayName(f, q)
      BY <1>3, <2>2, <2>3
    <3> QED BY <1>5, <2>3, <3>1, <3>2 DEF UseIsAccounted, InGo, KnownGap
  <2>4. CASE PackageImports(f, q) # {}
    <3>1. PICK d \in PackageImports(f, q) : n \in Exports(d) \/ StrayMember(d, n)
      BY <2>1, <2>2, <2>4, MemberFound
    <3>2. CASE StrayMember(d, n)
      BY <1>5, <3>2 DEF UseIsAccounted, KnownGap
    <3>3. CASE n \in Exports(d) /\ ImportedAs(f, q) = {}
      BY <1>5, <3>3 DEF UseIsAccounted, KnownGap, SiblingsImport
    <3>4. CASE n \in Exports(d) /\ \E e \in PackageImports(f, q) : d # e
      BY <1>5, <3>4 DEF UseIsAccounted, KnownGap, BoundTwice
    <3>5. CASE n \in Exports(d) /\ ImportedAs(f, q) # {} /\ \A e \in PackageImports(f, q) : d = e
      <4>1. ImportedAs(f, q) \subseteq PackageImports(f, q)
        BY <1>2 DEF PackageImports, PackageOf
      <4>2. \A e \in ImportedAs(f, q) : n \in Exports(e)
        BY <3>5, <4>1
      <4> QED BY <1>5, <3>5, <4>2 DEF UseIsAccounted, InGo
    <3> QED BY <3>1, <3>2, <3>3, <3>4, <3>5
  <2> QED BY <2>3, <2>4
<1> QED BY <1>4, <1>5

\* A clear use in a package whose imports have been compiled is found.
LEMMA ClearIsFound ==
    ASSUME CompileInv, stage = "bodies",
           NEW k \in DOMAIN code[unit[at]].decls, NEW u \in Uses, UseIsClear(at, k, u), ~ OutOfOrder
    PROVE  Found1(SeenBy(Checker, unit[at], k), u)
<1> DEFINE f == unit[at]
           x == SeenBy(Checker, f, k)
           q == u[1]
           n == u[2]
           d == project.dir[f]
<1>1. stage \in Working
  BY DEF Working
<1>2. /\ f \in Sources /\ f \in Files /\ code \in [Files -> CodeType] /\ project \in ProjectType
      /\ d \in Dirs /\ ctxt.current = d /\ Range(unit) = PackageOf(f) /\ f \in Range(unit)
      /\ Range(unit) \subseteq Begun /\ \A g \in Range(unit) : project.dir[g] = d /\ g \in Files
      /\ at \in 1..Len(unit) /\ unit \in Seq(Sources)
  <2>1. /\ f \in Range(unit) /\ \A g \in Range(unit) : g \in Sources /\ g \in Files
        /\ code \in [Files -> CodeType] /\ project \in ProjectType
        /\ at \in 1..Len(unit) /\ unit \in Seq(Sources)
    BY <1>1, UnitFiles
  <2> QED BY <1>1, <2>1 DEF CompileInv, UnitInv, ProjectType, Begun, PackageOf, PackageKey
<1>3. /\ IsChecker(Checker) /\ Checker.ctxt = ctxt /\ Checker.infer = infer
  BY CheckerFacts DEF CompileInv
<1>4. /\ x.ctxt = ctxt /\ x.infer.imports = infer.imports
      /\ x.infer.scope = infer.scope \cup {code[f].decls[j].name :
            j \in {i \in 1..(k - 1) : code[f].decls[i].kind \in Late}}
  BY <1>3, SeenByFacts
<1>5. n \in Names /\ (q = "" \/ q \in Names)
  BY DEF Uses
<1> HIDE DEF x
<1>6. CASE q = ""
  <2>1. \/ \E g \in Range(unit) : n \in Declared(g, {"func", "method", "type"})
        \/ PackageImports(f, n) # {}
        \/ ValueBefore(at, k, n)
    BY <1>6 DEF UseIsClear
  <2>2. CASE \E g \in Range(unit) : n \in Declared(g, {"func", "method", "type"})
    <3>1. PICK g \in Range(unit) : n \in Declared(g, {"func", "method", "type"})
      BY <2>2
    <3>2. n \in Declared(g, {"func", "method"}) \/ n \in Declared(g, {"type"})
      BY <3>1 DEF Declared
    <3>3. n \in ctxt.modules[d].functions \cup ctxt.modules[d].types
      BY <1>2, <3>2, BodiesSee
    <3> QED BY <1>2, <1>4, <1>6, <3>3 DEF Found1, FoundBare, x
  <2>3. CASE PackageImports(f, n) # {}
    <3>1. n \in infer.scope
      BY <1>2, <1>5, <2>3, ImportStandsFor
    <3> QED BY <1>4, <1>6, <3>1 DEF Found1, FoundBare, x
  <2>4. CASE ValueBefore(at, k, n)
    <3>1. PICK a \in 1..at : \E j \in DOMAIN code[unit[a]].decls :
            /\ a < at \/ j < k
            /\ code[unit[a]].decls[j].kind = "value" /\ code[unit[a]].decls[j].name = n
      BY <2>4 DEF ValueBefore
    <3>2. PICK j \in DOMAIN code[unit[a]].decls :
            /\ a < at \/ j < k
            /\ code[unit[a]].decls[j].kind = "value" /\ code[unit[a]].decls[j].name = n
      BY <3>1
    <3>3. n \in x.infer.scope
      <4>1. CASE a < at
        <5>1. a \in 1..(at - 1) /\ unit[a] \in Files
          BY <1>2, <3>1, <4>1, SortedFacts, UnitFiles DEF Range
        <5>2. unit[a] \in InferredFiles
          BY <5>1 DEF InferredFiles, Before
        <5>3. code[unit[a]].decls[j] \in Range(code[unit[a]].decls)
          BY DEF Range
        <5>4. n \in Declared(unit[a], Late)
          BY <1>2, <3>2, <5>1, <5>3, DeclaredFacts DEF Late
        <5> QED BY <1>1, <1>4, <5>2, <5>4 DEF CompileInv, ScopeInv
      <4>2. CASE ~ a < at
        <5>1. a = at /\ j < k
          BY <1>2, <3>1, <3>2, <4>2
        <5>2. code[f].decls \in Seq(Decls)
          BY <1>2 DEF CodeType
        <5>3. j \in 1..(k - 1) /\ code[f].decls[j].kind = "value" /\ code[f].decls[j].name = n
          BY <3>2, <5>1, <5>2
        <5> QED BY <1>4, <5>3 DEF Late
      <4> QED BY <4>1, <4>2
    <3> QED BY <1>6, <3>3 DEF Found1, FoundBare, x
  <2> QED BY <2>1, <2>2, <2>3, <2>4
<1>7. CASE q # ""
  <2>1. /\ PackageImports(f, q) # {}
        /\ \A p \in PackageImports(f, q) : n \in Members(p, {"func", "type"})
    BY <1>7 DEF UseIsClear
  <2>2. q \in infer.scope
    BY <1>2, <1>5, <1>7, <2>1, ImportStandsFor
  <2>3. PICK g \in Range(unit) : \E b \in BindingsOf(g) :
                b.name = q /\ infer.imports[q] = Bound(b) /\ b.path \in PackageImports(f, q)
    BY <1>2, <1>5, <1>7, <2>1, ImportStandsFor
  <2>4. PICK b \in BindingsOf(g) :
                b.name = q /\ infer.imports[q] = Bound(b) /\ b.path \in PackageImports(f, q)
    BY <2>3
  <2>5. n \in Members(b.path, {"func", "type"})
    BY <2>1, <2>4
  <2>6. FoundBare(x, q)
    BY <1>4, <2>2 DEF FoundBare
  <2>7. CASE ImportTargets(project, b.path) = {}
    <3>1. infer.imports[q].to = "go" /\ infer.imports[q].module = b.path /\ n \in GoNames[b.path]
      BY <2>4, <2>5, <2>7 DEF Bound, Members
    <3>2. FoundMember(x, q, n)
      BY <1>4, <2>6, <3>1 DEF FoundMember
    <3> QED BY <1>7, <3>2 DEF Found1, x
  <2>8. CASE ImportTargets(project, b.path) # {}
    <3>1. infer.imports[q].to = "soppo" /\ infer.imports[q].module = b.path /\ b.path \in Dirs
      BY <2>4, <2>8 DEF Bound, ImportTargets
    <3>2. PICK h \in Sources : project.dir[h] = b.path /\ n \in Declared(h, {"func", "type"})
      BY <2>5, <2>8 DEF Members, DeclaredIn
    <3>3. b.path \in Range(project.imports[g])
      <4>1. PICK i \in DOMAIN code[g].imports : code[g].imports[i] = b
        BY <2>4 DEF BindingsOf, Binders, Range
      <4>2. project.imports[g] = [l \in DOMAIN code[g].imports |-> code[g].imports[l].path]
        BY <1>2, <2>3 DEF CompileInv, ControlInv, Unedited
      <4>3. i \in DOMAIN project.imports[g] /\ project.imports[g][i] = b.path
        BY <4>1, <4>2
      <4> QED BY <4>3 DEF Range
    <3>4. h \in Begun
      BY <2>3, <3>2, <3>3 DEF OutOfOrder, Begun
    <3>5. n \in Declared(h, {"func", "method"}) \/ n \in Declared(h, {"type"})
      BY <3>2 DEF Declared
    <3>6. n \in ctxt.modules[b.path].functions \cup ctxt.modules[b.path].types
      BY <3>1, <3>2, <3>4, <3>5, BodiesSee
    <3>7. FoundMember(x, q, n)
      BY <1>4, <2>6, <3>1, <3>6 DEF FoundMember
    <3> QED BY <1>7, <3>7 DEF Found1, x
  <2> QED BY <2>7, <2>8
<1> QED BY <1>6, <1>7

\* The bodies of one more file.
LEMMA InferFileInv == CompileInv /\ InferFile => CompileInv'
<1> SUFFICES ASSUME CompileInv, InferFile PROVE CompileInv'
  OBVIOUS
<1> DEFINE f == unit[at]
           s == InferBodies(Checker, f)
           decls == code[f].decls
<1>1. /\ stage = "bodies" /\ stage \in Working /\ ctxt' = s.ctxt /\ infer' = s.infer
      /\ IF code[f].ungenerable THEN stage' = "rejected" ELSE Advance("check")
      /\ "check" # stage
      /\ UNCHANGED <<vars, code, next, processed, unit, outputs, written>>
  BY DEF InferFile, Becomes, Working
<1>2. /\ f \in Range(unit) /\ f \in Files /\ f \in Sources /\ code \in [Files -> CodeType]
      /\ at \in 1..Len(unit) /\ unit \in Seq(Sources)
      /\ ControlInv /\ UnitInv /\ ImportsInv /\ ScopeInv /\ UsesInv /\ RegistryInv
  BY <1>1, UnitFiles DEF CompileInv
<1>3. IsChecker(Checker) /\ Checker.ctxt = ctxt /\ Checker.infer = infer
  BY <1>2, CheckerFacts
<1>4. /\ IsChecker(s) /\ s.ctxt = ctxt /\ s.infer.imports = infer.imports
      /\ s.infer.scope = infer.scope \cup Declared(f, Late)
      /\ infer.used \subseteq s.infer.used /\ infer.errors \subseteq s.infer.errors
  BY <1>2, <1>3, BodiesFacts
<1>5. \A k \in DOMAIN decls : \A u \in decls[k].uses :
        u[1] \in Names /\ infer.imports[u[1]].to # "none" => u[1] \in s.infer.used
  BY <1>2, <1>3, BodiesFacts
<1>6. \A k \in DOMAIN decls : \A u \in decls[k].uses :
        Found1(SeenBy(Checker, f, k), u) \/ <<"name", u>> \in s.infer.errors
  BY <1>2, <1>3, BodiesFacts
<1>7. \A e \in s.infer.errors : e \in infer.errors
        \/ \E k \in DOMAIN decls : \E u \in decls[k].uses :
                ~ Found1(SeenBy(Checker, f, k), u) /\ e = <<"name", u>>
  BY <1>2, <1>3, BodiesFacts
<1> HIDE DEF s
<1>8. IsCtxt(ctxt') /\ infer' \in InferType /\ ctxt' = ctxt
  BY <1>1, <1>4 DEF IsChecker, CompileInv, ControlInv
<1>9. decls \in Seq(Decls) /\ \A k \in DOMAIN decls : decls[k].uses \subseteq Uses
  <2>1. decls \in Seq(Decls)
    BY <1>2 DEF CodeType
  <2>2. \A k \in DOMAIN decls : decls[k] \in Decls
    BY <2>1
  <2> QED BY <2>1, <2>2 DEF Decls
<1>10. CASE code[f].ungenerable
  <2>1. at \in DOMAIN unit
    BY <1>2
  <2>2. ~ CleanUnit
    BY <1>10, <2>1 DEF CleanUnit
  <2> QED BY <1>1, <1>8, <1>10, <2>2, RejectInv
<1>11. CASE ~ code[f].ungenerable
  <2>1. Advance("check") /\ unit' = unit /\ UNCHANGED <<project, code, processed>>
    BY <1>1, <1>11 DEF vars
  <2>2. /\ at' \in 1..Len(unit)
        /\ \/ stage' = stage /\ Before' = Before \cup {f}
           \/ stage' = "check" /\ Before' = {} /\ Range(unit) = Before \cup {f}
    BY <1>1, <1>2, <2>1, PassAdvances
  <2>3. /\ ImportedFiles' = ImportedFiles /\ DeclaredFiles' = DeclaredFiles
        /\ InferredFiles' = InferredFiles \cup {f} /\ stage' \in {"bodies", "check"}
        /\ stage' \in Working
    BY <1>1, <2>1, <2>2 DEF ImportedFiles, DeclaredFiles, InferredFiles, Working
  <2>4. ImportsInv'
    BY <1>1, <1>2, <1>4, <2>1, <2>3, CodeKept DEF ImportsInv
  <2>5. ScopeInv'
    <3>1. Declared(f, Late) \subseteq Declared(f, Scoped)
      BY DEF Declared, Scoped
    <3> QED BY <1>1, <1>2, <1>4, <2>1, <2>3, <3>1, CodeKept DEF ScopeInv
  <2>6. ASSUME NEW g \in InferredFiles \cup {f}, NEW d \in Range(code[g].decls), NEW u \in d.uses
        PROVE  /\ <<"name", u>> \in infer'.errors \/ UseIsAccounted(g, u)
               /\ u[1] \in Names /\ infer'.imports[u[1]].to # "none" => u[1] \in infer'.used
    <3>1. CASE g = f
      <4>1. PICK k \in DOMAIN decls : decls[k] = d
        BY <3>1 DEF Range
      <4>2. u \in Uses /\ u \in decls[k].uses
        BY <1>9, <4>1
      <4>3. Found1(SeenBy(Checker, f, k), u) => UseIsAccounted(f, u)
        BY <1>1, <1>2, <4>1, <4>2, FoundIsAccounted
      <4> QED BY <1>1, <1>4, <1>5, <1>6, <3>1, <4>1, <4>2, <4>3
    <3>2. CASE g \in InferredFiles
      BY <1>1, <1>2, <1>4, <3>2 DEF UsesInv
    <3> QED BY <3>1, <3>2
  <2>7. ASSUME infer'.errors # {} PROVE ~ CleanUnit \/ OutOfOrder
    <3>1. PICK e \in s.infer.errors : TRUE
      BY <1>1, <2>7
    <3>2. CASE e \in infer.errors
      BY <1>2, <3>2 DEF UsesInv
    <3>3. CASE e \notin infer.errors
      <4>1. PICK k \in DOMAIN decls : \E u \in decls[k].uses : ~ Found1(SeenBy(Checker, f, k), u)
        BY <1>7, <3>1, <3>3
      <4>2. PICK u \in decls[k].uses : ~ Found1(SeenBy(Checker, f, k), u)
        BY <4>1
      <4>3. UseIsClear(at, k, u) => OutOfOrder
        BY <1>1, <1>9, <4>1, <4>2, ClearIsFound
      <4>4. at \in DOMAIN unit
        BY <1>2
      <4> QED BY <4>1, <4>2, <4>3, <4>4 DEF CleanUnit
    <3> QED BY <3>2, <3>3
  <2>8. UsesInv'
    BY <2>1, <2>3, <2>6, <2>7, CodeKept, UnitKept DEF UsesInv
  <2>9. RegistryInv'
    <3>1. Known' = Known
      BY <1>1, <2>1, <2>3, UnitKept DEF Known
    <3> QED BY <1>1, <1>2, <1>8, <2>1, <3>1, CodeKept DEF RegistryInv
  <2> QED BY <1>1, <1>8, <2>2, <2>3, <2>4, <2>5, <2>8, <2>9, UnitStepInv
<1> QED BY <1>10, <1>11

\* An import that no file of the unit uses is one of its own faults.
LEMMA UnusedIsUnclean ==
    ASSUME CompileInv, stage = "check", UnusedImports(infer) # {}
    PROVE  ~ CleanUnit
<1>1. stage \in Working
  BY DEF Working
<1>2. PICK n \in Names \ infer.used : infer.imports[n].to # "none"
  BY DEF UnusedImports
<1>3. infer.imports[n] # NoImport /\ ImportedFiles = Range(unit) /\ InferredFiles = Range(unit)
  BY <1>2 DEF NoImport, ImportedFiles, InferredFiles
<1>4. PICK f \in Range(unit) : \E b \in BindingsOf(f) : b.name = n
  BY <1>1, <1>2, <1>3 DEF CompileInv, ImportsInv
<1>5. PICK b \in BindingsOf(f) : b.name = n
  BY <1>4
<1>6. PICK a \in DOMAIN unit : unit[a] = f
  BY DEF Range
<1>7. SUFFICES ASSUME CleanUnit PROVE FALSE
  OBVIOUS
<1>8. PICK g \in Range(unit) : \E d \in Range(code[g].decls) : b.name \in {u[1] : u \in d.uses}
  BY <1>5, <1>6, <1>7 DEF CleanUnit, BindingsOf, Binders
<1>9. PICK d \in Range(code[g].decls) : b.name \in {u[1] : u \in d.uses}
  BY <1>8
<1>10. PICK u \in d.uses : u[1] = n
  BY <1>5, <1>9
<1>11. n \in infer.used
  BY <1>1, <1>2, <1>3, <1>10 DEF CompileInv, UsesInv
<1> QED BY <1>2, <1>11

\* The unit's code joins the outputs, or its errors end the build.
LEMMA FinishPackageInv == CompileInv /\ FinishPackage => CompileInv'
<1> SUFFICES ASSUME CompileInv, FinishPackage PROVE CompileInv'
  OBVIOUS
<1>1. /\ stage = "check" /\ stage \in Working /\ infer' \in CheckUnusedImports(infer)
      /\ UNCHANGED <<vars, code, ctxt, next, processed, unit, at, written>>
      /\ UNCHANGED <<project, code, processed, unit>>
  BY DEF FinishPackage, Working, vars
<1>2. /\ ControlInv /\ UnitInv /\ UsesInv /\ RegistryInv /\ OutputsInv
      /\ IsCtxt(ctxt') /\ infer \in InferType
  BY <1>1 DEF CompileInv, ControlInv
<1>3. infer' \in InferType /\ infer.errors \subseteq infer'.errors
      /\ (UnusedImports(infer) = {} => infer' = infer)
  BY <1>1, <1>2, UnusedFacts
<1>4. CASE infer'.errors # {}
  <2>1. stage' = "rejected" /\ UNCHANGED outputs
    BY <1>4 DEF FinishPackage
  <2>2. ~ CleanUnit \/ OutOfOrder
    <3>1. CASE UnusedImports(infer) # {}
      BY <1>1, <3>1, UnusedIsUnclean
    <3>2. CASE UnusedImports(infer) = {}
      BY <1>2, <1>3, <1>4, <3>2 DEF UsesInv
    <3> QED BY <3>1, <3>2
  <2> QED BY <1>1, <1>2, <1>3, <2>1, <2>2, RejectInv
<1>5. CASE infer'.errors = {}
  <2>1. stage' = "packages" /\ outputs' = outputs \o unit
    BY <1>5 DEF FinishPackage
  <2>2. ControlInv' /\ UNCHANGED <<project, phase, result>>
    BY <1>1, <1>2, <1>3, <2>1, ControlKept
  <2>3. UnitInv'
    BY <1>1, <1>2, <2>1, CodeKept DEF UnitInv, Working
  <2>4. Known = Begun /\ Known' = Begun /\ FinishedFiles = Begun \ Range(unit) /\ FinishedFiles' = Begun
    BY <1>1, <2>1, UnitKept DEF Known, DeclaredFiles, FinishedFiles, Working
  <2>5. RegistryInv'
    BY <1>1, <1>2, <2>4, CodeKept DEF RegistryInv
  <2>6. Range(unit) \subseteq Begun
    <3>1. Range(unit) \subseteq Sources
      BY <1>2, RangeOfSeq DEF UnitInv
    <3> QED BY <1>2, <3>1 DEF UnitInv, Begun
  <2>7. outputs' \in Seq(Sources) /\ IsInjective(outputs') /\ Range(outputs') = Begun
    <3>1. outputs \in Seq(Sources) /\ unit \in Seq(Sources) /\ Range(outputs) \cap Range(unit) = {}
      BY <1>2, <2>4 DEF OutputsInv, UnitInv
    <3>2. Range(outputs \o unit) = Range(outputs) \cup Range(unit)
      BY <3>1, RangeConcat
    <3>3. IsInjective(outputs \o unit)
      BY <1>2, <3>1, InjectiveConcat DEF OutputsInv, UnitInv
    <3>4. outputs \o unit \in Seq(Sources)
      BY <3>1
    <3> QED BY <1>2, <2>1, <2>4, <2>6, <3>2, <3>3, <3>4 DEF OutputsInv
  <2>8. ASSUME NEW f \in Begun, NEW d \in Range(code[f].decls), NEW u \in d.uses
        PROVE  UseIsAccounted(f, u)
    <3>1. CASE f \in Range(unit)
      <4>1. InferredFiles = Range(unit) /\ infer.errors = {}
        BY <1>1, <1>3, <1>5 DEF InferredFiles
      <4> QED BY <1>2, <3>1, <4>1 DEF UsesInv
    <3>2. CASE f \notin Range(unit)
      BY <1>2, <2>4, <3>2 DEF OutputsInv
    <3> QED BY <3>1, <3>2
  <2>9. OutputsInv'
    BY <1>1, <2>4, <2>7, <2>8, CodeKept DEF OutputsInv
  <2>10. OnlyOrderRejectsCleanCode' /\ stage' \notin Working
    BY <2>1 DEF OnlyOrderRejectsCleanCode, Working
  <2> QED BY <2>2, <2>3, <2>5, <2>9, <2>10 DEF CompileInv
<1> QED BY <1>4, <1>5

\* Nothing after the last package changes what has been compiled.
LEMMA WritingInv == CompileInv /\ (Compiled \/ WriteFile \/ Written) => CompileInv'
<1> SUFFICES ASSUME CompileInv, Compiled \/ WriteFile \/ Written PROVE CompileInv'
  OBVIOUS
<1>1. /\ {stage, stage'} \subseteq Between /\ stage' \in {"writing", "unwritten", "built"}
      /\ UNCHANGED <<vars, code, ctxt, infer, next, processed, unit, at, outputs>>
      /\ phase = "sorted" /\ next \in 1..(Len(result) + 1) /\ SortInv
      /\ stage = "packages" => next > Len(result)
      /\ stage # "packages" => next = Len(result) + 1
  BY DEF Compiled, WriteFile, Written, Between, nameVars, CompileInv, ControlInv
<1>2. UNCHANGED <<project, phase, result>> /\ SortInv'
  BY <1>1, StutterInv DEF vars, sortVars
<1>3. next = Len(result) + 1
  <2>1. Len(result) \in Nat
    BY <1>1, SortedFacts
  <2> QED BY <1>1, <2>1
<1>4. ControlInv'
  <2>1. processed' = {PackageKey(result[i]) : i \in 1..(next - 1)}'
    BY <1>1, <1>2 DEF CompileInv, ControlInv, PackageKey
  <2>2. \A f \in Files : Unedited(f)'
    BY <1>1, <1>2 DEF CompileInv, ControlInv, Unedited
  <2> QED BY <1>1, <1>2, <1>3, <2>1, <2>2 DEF CompileInv, ControlInv
<1> QED BY <1>1, <1>2, <1>4, IdleInv

\* Every step of a build keeps the invariant.
LEMMA CompileStepInv == CompileInv /\ [BuildNext]_buildVars => CompileInv'
<1> SUFFICES ASSUME CompileInv, [BuildNext]_buildVars PROVE CompileInv'
  OBVIOUS
<1>1. CASE UNCHANGED buildVars
  <2>1. /\ UNCHANGED <<vars, code, ctxt, infer, stage, next, processed, unit, at, outputs, written>>
        /\ UNCHANGED <<project, phase, result>>
    BY <1>1 DEF buildVars, nameVars, compileVars, vars, sortVars
  <2>2. SortInv'
    BY <2>1, StutterInv DEF CompileInv, ControlInv
  <2>3. ControlInv'
    <3>1. processed' = {PackageKey(result[i]) : i \in 1..(next - 1)}'
      BY <2>1 DEF CompileInv, ControlInv, PackageKey
    <3>2. \A f \in Files : Unedited(f)'
      BY <2>1 DEF CompileInv, ControlInv, Unedited
    <3> QED BY <2>1, <2>2, <3>1, <3>2 DEF CompileInv, ControlInv
  <2> QED BY <2>1, <2>3, IdleInv
<1>2. CASE BuildStep
  BY <1>2, CompileSortInv, SkipFileInv, StartPackageInv, ImportFileInv, DeclareFileInv,
     InferFileInv, FinishPackageInv, WritingInv DEF BuildStep
<1> QED BY <1>1, <1>2 DEF BuildNext

\* Nothing has been compiled when the sort begins.
LEMMA CompileInitInv == BuildInit => CompileInv
<1> SUFFICES ASSUME BuildInit PROVE CompileInv
  OBVIOUS
<1>1. /\ SortInv /\ phase = "build" /\ result = <<>> /\ ctxt = NewCtxt /\ infer = NewInfer
      /\ stage = "packages" /\ next = 1 /\ processed = {} /\ unit = <<>> /\ outputs = <<>>
      /\ written = 0 /\ code \in [Files -> CodeType] /\ \A f \in Files : Unedited(f)
  BY InitSortInv, CodesAssumption DEF BuildInit, Init
<1>2. ControlInv
  BY <1>1, NewStates DEF ControlInv
<1>3. Begun = {} /\ Known = {} /\ FinishedFiles = {}
  BY <1>1 DEF Begun, Known, FinishedFiles
<1>4. UnitInv /\ OutputsInv
  <2>1. <<>> \in Seq(Sources) /\ IsInjective(<<>>) /\ Range(<<>>) = {}
    BY DEF IsInjective, Range
  <2> QED BY <1>1, <1>3, <2>1 DEF UnitInv, OutputsInv, Working
<1>5. RegistryInv
  BY <1>1, <1>3 DEF RegistryInv, NewCtxt, ModuleIds
<1> QED BY <1>1, <1>2, <1>4, <1>5 DEF CompileInv, Working, OnlyOrderRejectsCleanCode

\* In every build the registry, the unit's checker and the outputs agree with
\* the files compiled so far.
THEOREM BuildKept == BuildSpec => []CompileInv
BY CompileInitInv, CompileStepInv, PTL DEF BuildSpec

\* The registry holds, directory by directory, just what the files shown to
\* the checker declare, however many packages it has been handed through.
THEOREM RegistryExact == BuildSpec => []RegistryIsExact
<1>1. CompileInv => RegistryIsExact
  <2> SUFFICES ASSUME CompileInv, stage # "rejected", NEW d \in Dirs
               PROVE  ctxt.modules[d].functions =
                        UNION {Declared(f, {"func", "method"}) : f \in {g \in Registered : project.dir[g] = d}}
    BY DEF RegistryIsExact
  <2>1. Registered = Known
    <3>1. CASE stage \notin {"imports", "declare"}
      BY <3>1 DEF Registered, Known, Begun, DeclaredFiles
    <3>2. CASE stage = "imports"
      BY <3>2 DEF Registered, Known, Begun, DeclaredFiles, Working
    <3>3. CASE stage = "declare"
      <4>1. at \in 1..Len(unit) /\ unit \in Seq(Sources)
        BY <3>3 DEF CompileInv, UnitInv, Working
      <4>2. Range(SubSeq(unit, 1, at - 1)) = Before
        <5>1. SubSeq(unit, 1, at - 1) = [i \in 1..(at - 1) |-> unit[i]]
          BY <4>1
        <5> QED BY <5>1 DEF Range, Before
      <4> QED BY <3>3, <4>2 DEF Registered, Known, Begun, DeclaredFiles, Working
    <3> QED BY <3>1, <3>2, <3>3
  <2>2. \A n : n \in ctxt.modules[d].functions
            <=> \E f \in Known : project.dir[f] = d /\ n \in Declared(f, {"func", "method"})
    BY DEF CompileInv, RegistryInv
  <2> QED BY <2>1, <2>2
<1> QED BY <1>1, BuildKept, PTL

\* Code is written only for a project whose every source was compiled, once, and
\* whose every use is of something Go finds where it looks, but for the known gaps.
THEOREM BuildSound == BuildSpec => []BuildIsSound
<1>1. CompileInv => BuildIsSound
  <2> SUFFICES ASSUME CompileInv, stage \in {"writing", "unwritten", "built"} \/ written > 0
               PROVE  /\ Range(outputs) = Sources /\ IsInjective(outputs)
                      /\ \A f \in Sources : \A d \in Range(code[f].decls) : \A u \in d.uses :
                            UseIsAccounted(f, u)
    BY DEF BuildIsSound, UseIsAccounted
  <2>1. stage \in {"writing", "unwritten", "built"}
    BY DEF CompileInv, ControlInv
  <2>2. /\ phase = "sorted" /\ next = Len(result) + 1 /\ SortInv
        /\ processed = {PackageKey(result[i]) : i \in 1..(next - 1)}
    BY <2>1 DEF CompileInv, ControlInv
  <2>3. result \in Seq(Sources) /\ Range(result) = Sources
    BY <2>2, SortedFacts
  <2>4. Begun = Sources
    <3>1. ASSUME NEW f \in Sources PROVE PackageKey(f) \in processed
      <4>1. PICK i \in 1..Len(result) : result[i] = f
        BY <2>3 DEF Range
      <4> QED BY <2>2, <2>3, <4>1
    <3> QED BY <3>1 DEF Begun
  <2>5. FinishedFiles = Sources
    BY <2>1, <2>4 DEF FinishedFiles, Working
  <2> QED BY <2>5 DEF CompileInv, OutputsInv
<1> QED BY <1>1, BuildKept, PTL

\* A package with no fault of its own is rejected only for being compiled
\* before one it imports.
THEOREM OnlyOrderRejects == BuildSpec => []OnlyOrderRejectsCleanCode
<1>1. CompileInv => OnlyOrderRejectsCleanCode
  BY DEF CompileInv
<1> QED BY <1>1, BuildKept, PTL

=============================================================================
