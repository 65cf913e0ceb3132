---------------------------- MODULE NilFlowProofs ----------------------------
(***************************************************************************)
(* Proofs about NilFlow, for bodies of any length and any number of names: *)
(* a body free of the listed constructs that the checker accepts never     *)
(* dereferences nil.                                                       *)
(***************************************************************************)
EXTENDS NilFlow, FiniteSetTheorems, TLAPS

-----------------------------------------------------------------------------
(* The scopes up to one of them.                                           *)

\* x is bound by the k-th of the first p scopes.
BindsTo(ss, x, k, p) ==
    /\ k \in 1..p /\ ss[k].vars[x] # "none"
    /\ \A j \in k+1..p : ss[j].vars[x] = "none"

\* The innermost entry for x in the first p scopes says that it is not nil.
SureTo(ss, x, p) ==
    \E k \in 1..p : /\ ss[k].nil[x] = "nonnull"
                    /\ \A j \in k+1..p : ss[j].nil[x] = "none"

-----------------------------------------------------------------------------
(* The invariant.                                                          *)

States == {"none", "nonnull", "nullable"}
Values == {"none", "nil", "object"}
Stores == [All -> Values]
Tables == [vars : [All -> Types], nil : [All -> States]]
Blocks ==
    [kind : {"function", "then", "else", "for", "arm"}, checks : [All -> Checks],
     ends : BOOLEAN, joined : BOOLEAN, on : Names \cup {"none"}, narrows : BOOLEAN,
     arms : ArmLists \cup {<<>>}, at : 0..2, target : {"none", "nil", "default"}]

NilTypeOK ==
    /\ blocks \in Seq(Blocks) /\ Len(blocks) \in Nat \ {0}
    /\ scopes \in Seq(Tables) /\ Len(scopes) = 2 * Len(blocks)
    /\ \A k \in DOMAIN scopes : \A x \in Names : scopes[k].vars[x] # "error"
    /\ env \in Seq(Stores)
    /\ \E d \in 0..Len(blocks) : Len(env) = 2 * d
    /\ companions \in [Errors -> Names \cup {"none"}]
    /\ crashed \in BOOLEAN
    /\ tied \subseteq Errors \X Names \X (1..Len(scopes))

\* A fact about a name is true as long as the run is in the scopes that have it.
FactsTo(ss, values, n) ==
    \A p \in 1..n : \A x \in Names : \A k \in 1..p :
        BindsTo(ss, x, k, p) /\ SureTo(ss, x, p) => values[k][x] # "nil"

\* What a scope knows of a variable, all scopes within it know, where the run
\* is in them: a branch that takes the fact back is one the run is not in.
StayTo(ss, n) ==
    \A q \in 1..n : \A p \in 1..q : \A x \in Names : \A k \in 1..p :
        BindsTo(ss, x, k, q) /\ ss[k].vars[x] = "nullable" /\ SureTo(ss, x, p) => SureTo(ss, x, q)

FactsHold == FactsTo(scopes, env, Len(env))
FactsStay == StayTo(scopes, Len(env))

\* What is left to be true of the values that one call returned.
TiesHold ==
    \A t \in tied :
        /\ BindsTo(scopes, t[1], t[3], Top) /\ BindsTo(scopes, t[2], t[3], Top)
        /\ t[3] <= Len(env) /\ env[t[3]][t[1]] = "nil" => env[t[3]][t[2]] # "nil"

\* The errors that the j-th block checks are nil, if what they came with is
\* still known.
ErrorsNil(j) ==
    \A t \in tied : t[3] <= 2 * j - 2 /\ blocks[j].checks[t[1]] = "ne" => env[t[3]][t[1]] = "nil"

\* The run passes by the j-th block.
Passed(j) == Len(env) = 2 * j - 2

\* Both branches of an if start from what its condition says.
BranchFacts ==
    \A j \in 2..Level : blocks[j].kind \in {"then", "else"} =>
        scopes[2 * j - 1] = Facts(Narrowed(blocks[j].checks, blocks[j].kind))

\* The run has passed by the first branch: the condition was false.
SkippedThen ==
    \A j \in 2..Level : blocks[j].kind = "then" /\ Passed(j) =>
        /\ \A x \in Names : \A k \in 1..2 * j - 2 :
             BindsTo(scopes, x, k, 2 * j - 2) =>
                /\ blocks[j].checks[x] = "eq" => env[k][x] # "nil"
                /\ blocks[j].checks[x] = "ne" /\ scopes[k].vars[x] = "nullable"
                       => ~ SureTo(scopes, x, 2 * j - 2)
        /\ ErrorsNil(j)

\* The run has come out of the first branch.
TookThen ==
    \A j \in 2..Level : blocks[j].kind = "else" /\ Passed(j) =>
        /\ ~ blocks[j].joined
        /\ \A x \in Names : \A k \in 1..2 * j - 2 :
             BindsTo(scopes, x, k, 2 * j - 2) /\ blocks[j].checks[x] = "ne" => env[k][x] # "nil"

\* The run is in the second branch.
TookElse ==
    \A j \in 2..Level : blocks[j].kind = "else" /\ Len(env) >= 2 * j => ErrorsNil(j)

\* The run has yet to take an arm of the match, or has taken one and come out
\* of it, or there was none to take.
ArmsAgree ==
    \A j \in 2..Level : blocks[j].kind = "arm" =>
        /\ blocks[j].at \in 1..Len(blocks[j].arms)
        /\ blocks[j].target # "none" =>
             /\ j = Level /\ Passed(j)
             /\ \E i \in blocks[j].at + 1..Len(blocks[j].arms) : blocks[j].arms[i] = blocks[j].target
             /\ blocks[j].target = "default" /\ blocks[j].narrows =>
                  \A k \in 1..2 * j - 2 : BindsTo(scopes, blocks[j].on, k, 2 * j - 2) => env[k][blocks[j].on] # "nil"
        /\ blocks[j].target = "none" /\ Passed(j) =>
             ~ blocks[j].joined \/ ~ Lists(blocks[j].arms, "default")

\* Only the innermost block can have come to its end, and the run is not in it.
EndsAgree ==
    /\ \A j \in 1..Level - 1 : ~ blocks[j].ends
    /\ blocks[Level].ends => ~ Here
    /\ \A j \in 1..Level : blocks[j].kind = "function" <=> j = 1

NilInv ==
    /\ NilTypeOK
    /\ NilSafe /\ TypesAreHonest
    /\ FactsHold /\ FactsStay /\ TiesHold
    /\ BranchFacts /\ SkippedThen /\ TookThen /\ TookElse
    /\ ArmsAgree /\ EndsAgree

-----------------------------------------------------------------------------
(* Lemmas about scopes.                                                    *)

\* A set of positions that is not empty has a last one.
LEMMA LastPosition ==
    ASSUME NEW n \in Nat, NEW S \in SUBSET (1..n), S # {}
    PROVE  \E k \in S : \A j \in S : j <= k
<1> DEFINE T == {m \in 0..n : n - m \in S}
<1>1. T # {} /\ T \subseteq Nat
  <2>1. PICK k \in S : TRUE
    OBVIOUS
  <2>2. n - k \in 0..n /\ n - (n - k) = k
    OBVIOUS
  <2>3. n - k \in T
    BY <2>2
  <2>4. T \subseteq Nat
    OBVIOUS
  <2> HIDE DEF T
  <2> QED BY <2>3, <2>4
<1>2. PICK m \in T : \A i \in T : ~ (<<i, m>> \in OpToRel(<, Nat))
  BY <1>1, NatLessThanWellFounded, WFMin
<1>3. ASSUME NEW j \in S PROVE j <= n - m
  <2>1. n - j \in 0..n /\ n - (n - j) = j /\ n - j \in T
    OBVIOUS
  <2>2. ~ (n - j < m)
    BY <1>1, <1>2, <2>1 DEF OpToRel
  <2> QED BY <2>1, <2>2
<1> QED BY <1>2, <1>3

LEMMA UpTo == ASSUME NEW n \in Nat \ {0} PROVE 1..n = (1..n - 1) \cup {n} /\ n \notin 1..n - 1 /\ n \in 1..n
  OBVIOUS

\* A name is bound by one scope.
LEMMA OneBinding ==
    ASSUME NEW ss, NEW x, NEW p \in Nat, NEW k, NEW m, BindsTo(ss, x, k, p), BindsTo(ss, x, m, p)
    PROVE  k = m
  BY DEF BindsTo

\* Scopes that agree on a name up to p agree on what is bound and known of it.
LEMMA SameName ==
    ASSUME NEW ss, NEW tt, NEW p \in Nat, NEW x,
           \A j \in 1..p : tt[j].vars[x] = ss[j].vars[x] /\ tt[j].nil[x] = ss[j].nil[x]
    PROVE  \A q \in 1..p : /\ \A k : BindsTo(tt, x, k, q) <=> BindsTo(ss, x, k, q)
                           /\ SureTo(tt, x, q) <=> SureTo(ss, x, q)
<1> SUFFICES ASSUME NEW q \in 1..p
             PROVE  /\ \A k : BindsTo(tt, x, k, q) <=> BindsTo(ss, x, k, q)
                    /\ SureTo(tt, x, q) <=> SureTo(ss, x, q)
  OBVIOUS
<1>1. \A k \in 1..q : k \in 1..p /\ \A j \in k + 1..q : j \in 1..p
  OBVIOUS
<1>2. \A k : BindsTo(tt, x, k, q) <=> BindsTo(ss, x, k, q)
  BY <1>1 DEF BindsTo
<1>3. SureTo(tt, x, q) <=> SureTo(ss, x, q)
  BY <1>1 DEF SureTo
<1> QED BY <1>2, <1>3

LEMMA SameBinds ==
    ASSUME NEW ss, NEW tt, NEW p \in Nat, NEW x,
           \A j \in 1..p : tt[j].vars[x] = ss[j].vars[x]
    PROVE  \A q \in 1..p : \A k : BindsTo(tt, x, k, q) <=> BindsTo(ss, x, k, q)
<1> SUFFICES ASSUME NEW q \in 1..p, NEW k PROVE BindsTo(tt, x, k, q) <=> BindsTo(ss, x, k, q)
  OBVIOUS
<1>1. k \in 1..q => k \in 1..p /\ \A j \in k + 1..q : j \in 1..p
  OBVIOUS
<1> QED BY <1>1 DEF BindsTo

\* Scopes that agree up to p agree on what is bound and known there.
LEMMA SamePrefix ==
    ASSUME NEW ss, NEW tt, NEW p \in Nat, \A j \in 1..p : tt[j] = ss[j],
           NEW q \in 1..p, NEW x
    PROVE  /\ \A k : BindsTo(tt, x, k, q) <=> BindsTo(ss, x, k, q)
           /\ SureTo(tt, x, q) <=> SureTo(ss, x, q)
<1>1. \A j \in 1..q : tt[j] = ss[j]
  OBVIOUS
<1>2. \A k \in 1..q : \A j \in k + 1..q : j \in 1..q
  OBVIOUS
<1>3. \A k : BindsTo(tt, x, k, q) <=> BindsTo(ss, x, k, q)
  BY <1>1, <1>2 DEF BindsTo
<1>4. SureTo(tt, x, q) <=> SureTo(ss, x, q)
  BY <1>1, <1>2 DEF SureTo
<1> QED BY <1>3, <1>4

\* One scope more.
LEMMA OneMore ==
    ASSUME NEW ss, NEW p \in Nat, NEW x
    PROVE  /\ ss[p + 1].vars[x] = "none" => \A k : BindsTo(ss, x, k, p + 1) <=> BindsTo(ss, x, k, p)
           /\ ss[p + 1].vars[x] # "none" => \A k : BindsTo(ss, x, k, p + 1) <=> k = p + 1
           /\ ss[p + 1].nil[x] = "none" => (SureTo(ss, x, p + 1) <=> SureTo(ss, x, p))
           /\ ss[p + 1].nil[x] = "nonnull" => SureTo(ss, x, p + 1)
           /\ ss[p + 1].nil[x] \notin {"none", "nonnull"} => ~ SureTo(ss, x, p + 1)
<1>1. 1..p + 1 = (1..p) \cup {p + 1} /\ p + 1 \notin 1..p
  OBVIOUS
<1>2. \A k \in 1..p : k + 1..p + 1 = (k + 1..p) \cup {p + 1}
  OBVIOUS
<1>3. (p + 1) + 1..p + 1 = {}
  OBVIOUS
<1>4. ss[p + 1].vars[x] = "none" => \A k : BindsTo(ss, x, k, p + 1) <=> BindsTo(ss, x, k, p)
  BY <1>1, <1>2 DEF BindsTo
<1>5. ss[p + 1].vars[x] # "none" => \A k : BindsTo(ss, x, k, p + 1) <=> k = p + 1
  BY <1>1, <1>2, <1>3 DEF BindsTo
<1>6. ss[p + 1].nil[x] = "none" => (SureTo(ss, x, p + 1) <=> SureTo(ss, x, p))
  BY <1>1, <1>2 DEF SureTo
<1>7. ss[p + 1].nil[x] = "nonnull" => SureTo(ss, x, p + 1)
  BY <1>1, <1>3 DEF SureTo
<1>8. ss[p + 1].nil[x] \notin {"none", "nonnull"} => ~ SureTo(ss, x, p + 1)
  BY <1>1, <1>2 DEF SureTo
<1> QED BY <1>4, <1>5, <1>6, <1>7, <1>8

\* What the last of some scopes adds to those before it.
LEMMA LastScope ==
    ASSUME NEW ss, NEW p \in Nat \ {0}, NEW x
    PROVE  /\ ss[p].vars[x] = "none" => \A k : BindsTo(ss, x, k, p) <=> BindsTo(ss, x, k, p - 1)
           /\ ss[p].vars[x] # "none" => \A k : BindsTo(ss, x, k, p) <=> k = p
           /\ ss[p].nil[x] = "none" => (SureTo(ss, x, p) <=> SureTo(ss, x, p - 1))
           /\ ss[p].nil[x] = "nonnull" => SureTo(ss, x, p)
           /\ ss[p].nil[x] \notin {"none", "nonnull"} => ~ SureTo(ss, x, p)
<1> DEFINE n == p - 1
<1>1. n \in Nat /\ n + 1 = p
  OBVIOUS
<1> HIDE DEF n
<1>2. /\ ss[p].vars[x] = "none" => \A k : BindsTo(ss, x, k, p) <=> BindsTo(ss, x, k, n)
      /\ ss[p].vars[x] # "none" => \A k : BindsTo(ss, x, k, p) <=> k = p
      /\ ss[p].nil[x] = "none" => (SureTo(ss, x, p) <=> SureTo(ss, x, n))
      /\ ss[p].nil[x] = "nonnull" => SureTo(ss, x, p)
      /\ ss[p].nil[x] \notin {"none", "nonnull"} => ~ SureTo(ss, x, p)
  BY <1>1, OneMore
<1> QED BY <1>2 DEF n

\* What the checker looks up is what its scopes bind and know in the end.
LEMMA LookedUp ==
    ASSUME NEW ss, NEW x, Len(ss) \in Nat, DOMAIN ss = 1..Len(ss)
    PROVE  /\ \A k \in DOMAIN ss : Binds(ss, x, k) <=> BindsTo(ss, x, k, Len(ss))
           /\ NonNull(ss, x) <=> SureTo(ss, x, Len(ss))
  BY DEF Binds, BindsTo, NonNull, SureTo

\* A name that is bound has one home.
LEMMA HomeFacts ==
    ASSUME NilTypeOK, NEW x
    PROVE  /\ Bound(x) => BindsTo(scopes, x, Home(x), Top)
           /\ \A k : BindsTo(scopes, x, k, Top) => Bound(x) /\ k = Home(x)
<1>1. Top \in Nat /\ DOMAIN scopes = 1..Top
  BY DEF NilTypeOK, Top
<1>2. ASSUME NEW k, BindsTo(scopes, x, k, Top) PROVE Bound(x) /\ k = Home(x)
  <2>1. Bound(x) /\ k \in DOMAIN scopes /\ Binds(scopes, x, k)
    BY <1>1, <1>2, LookedUp DEF Bound, BindsTo, Top
  <2>2. Home(x) \in DOMAIN scopes /\ Binds(scopes, x, Home(x))
    BY <2>1 DEF Home
  <2>3. BindsTo(scopes, x, Home(x), Top)
    BY <1>1, <2>2, LookedUp DEF Top
  <2> QED BY <1>1, <1>2, <2>1, <2>3, OneBinding
<1>3. ASSUME Bound(x) PROVE BindsTo(scopes, x, Home(x), Top)
  <2> DEFINE S == {k \in 1..Top : scopes[k].vars[x] # "none"}
  <2>1. PICK k \in S : \A j \in S : j <= k
    BY <1>1, <1>3, LastPosition DEF Bound
  <2>2. BindsTo(scopes, x, k, Top)
    BY <1>1, <2>1 DEF BindsTo
  <2> QED BY <1>2, <2>2
<1> QED BY <1>2, <1>3

-----------------------------------------------------------------------------
(* Types and values, where the run is.                                     *)

\* The types as the invariant's other parts use them.
LEMMA Shapes ==
    ASSUME NilTypeOK
    PROVE  /\ Level \in Nat \ {0} /\ Top = 2 * Level /\ Top \in Nat \ {0}
           /\ DOMAIN blocks = 1..Level /\ \A j \in 1..Level : blocks[j] \in Blocks
           /\ DOMAIN scopes = 1..Top /\ \A k \in 1..Top : scopes[k] \in Tables
           /\ Len(env) \in Nat /\ Len(env) <= Top /\ DOMAIN env = 1..Len(env)
           /\ \A k \in 1..Len(env) : env[k] \in Stores
           /\ \E d \in 0..Level : Len(env) = 2 * d
<1>1. /\ blocks \in Seq(Blocks) /\ Len(blocks) \in Nat \ {0}
      /\ scopes \in Seq(Tables) /\ Len(scopes) = 2 * Len(blocks)
      /\ env \in Seq(Stores)
      /\ \E d \in 0..Len(blocks) : Len(env) = 2 * d
  BY DEF NilTypeOK
<1>2. DOMAIN blocks = 1..Level /\ \A j \in 1..Level : blocks[j] \in Blocks
  BY <1>1 DEF Level
<1>3. DOMAIN scopes = 1..Top /\ \A k \in 1..Top : scopes[k] \in Tables
  <2>1. Len(scopes) \in Nat
    BY <1>1
  <2> QED BY <1>1, <2>1 DEF Top
<1>4. env \in Seq(Stores)
  BY <1>1
<1>5. DOMAIN env = 1..Len(env) /\ \A k \in 1..Len(env) : env[k] \in Stores
  BY <1>4
<1> QED BY <1>1, <1>2, <1>3, <1>5 DEF Level, Top

\* A variable that is bound has a type and a value, and where the checker takes
\* it for non-nil, by type or by narrowing, it is not nil.
LEMMA VariableFacts ==
    ASSUME NilTypeOK, TypesAreHonest, FactsHold, Here, NEW x \in Names, Bound(x)
    PROVE  /\ Home(x) \in 1..Top /\ BindsTo(scopes, x, Home(x), Top)
           /\ scopes[Home(x)].vars[x] \in {"nullable", "pointer"}
           /\ TypeOf(x) \in {"nullable", "pointer"}
           /\ StateOf(x) \in {"nullable", "nonnull"}
           /\ env[Home(x)][x] \in Values
           /\ TypeOf(x) = "pointer" => env[Home(x)][x] # "nil"
           /\ StateOf(x) = "nonnull" => env[Home(x)][x] # "nil"
           /\ SureTo(scopes, x, Top) => TypeOf(x) = "pointer" /\ StateOf(x) = "nonnull"
           /\ TypeOf(x) # scopes[Home(x)].vars[x] <=>
                scopes[Home(x)].vars[x] = "nullable" /\ SureTo(scopes, x, Top)
<1>1. BindsTo(scopes, x, Home(x), Top) /\ Top \in Nat
  BY HomeFacts, Shapes
<1>2. Home(x) \in 1..Top /\ scopes[Home(x)] \in Tables /\ scopes[Home(x)].vars[x] # "none"
  BY <1>1, Shapes DEF BindsTo
<1>3. scopes[Home(x)].vars[x] \in {"nullable", "pointer"}
  BY <1>2, Shapes DEF Tables, Types, NilTypeOK, All
<1>4. NonNull(scopes, x) <=> SureTo(scopes, x, Top)
  BY LookedUp, Shapes DEF Top
<1>5. Len(env) = Top /\ Top \in 1..Top
  <2>1. Len(env) = Top
    BY DEF Here, Top
  <2> QED BY <2>1, Shapes
<1>6. SureTo(scopes, x, Top) => env[Home(x)][x] # "nil"
  BY <1>1, <1>2, <1>5 DEF FactsHold, FactsTo
<1>7. scopes[Home(x)].vars[x] = "pointer" => env[Home(x)][x] # "nil"
  BY <1>2, <1>5, Shapes DEF TypesAreHonest
<1>8. env[Home(x)] \in [All -> Values]
  BY <1>2, <1>5, Shapes DEF Stores
<1>9. env[Home(x)][x] \in Values
  BY <1>8 DEF All
<1> QED BY <1>1, <1>2, <1>3, <1>4, <1>6, <1>7, <1>9 DEF TypeOf, StateOf

\* What is assigned: its type and its state are true of each value that it may
\* have.
LEMMA ValueFacts ==
    ASSUME NilTypeOK, TypesAreHonest, FactsHold, Here,
           NEW v \in Exprs \cup {"zero"}, Known(v), NEW r \in Results(v)
    PROVE  /\ r \in Values
           /\ ValueState(v) \in {"nullable", "nonnull"}
           /\ ValueState(v) = "nonnull" => r # "nil"
           /\ v # "zero" =>
                /\ ValueType(v) \in {"nullable", "pointer", "any"}
                /\ ValueType(v) = "any" <=> v = "nil"
                /\ ValueType(v) = "pointer" => r # "nil"
<1>1. CASE v \in Names
  <2>1. Bound(v) /\ v \notin Constructors \cup {"zero"}
    BY <1>1, NamesAssumption DEF Known
  <2>2. Results(v) = {env[Home(v)][v]} /\ ValueType(v) = TypeOf(v) /\ ValueState(v) = StateOf(v)
    BY <1>1, <2>1 DEF Results, ValueType, ValueState, Constructors
  <2> QED BY <1>1, <2>1, <2>2, VariableFacts DEF Constructors
<1>2. CASE v \notin Names
  <2>1. v \in {"nil", "new", "make", "find", "zero"}
    BY <1>2 DEF Exprs, Constructors
  <2> QED BY <1>2, <2>1 DEF Results, ValueType, ValueState, Values
<1> QED BY <1>1, <1>2

-----------------------------------------------------------------------------
(* Steps of the body that open and close no block.                         *)

\* The innermost block's end is noted, and nothing else of any block.
LEMMA EndNoted ==
    ASSUME NEW b \in Blocks, NEW e \in BOOLEAN
    PROVE  LET c == [b EXCEPT !.ends = e]
           IN  /\ c \in Blocks /\ c.ends = e
               /\ c.kind = b.kind /\ c.checks = b.checks /\ c.joined = b.joined /\ c.on = b.on
               /\ c.narrows = b.narrows /\ c.arms = b.arms /\ c.at = b.at /\ c.target = b.target
  BY DEF Blocks

\* The blocks are the same but for their ends.
SameBut(b, c) ==
    /\ c.kind = b.kind /\ c.checks = b.checks /\ c.joined = b.joined /\ c.on = b.on
    /\ c.narrows = b.narrows /\ c.arms = b.arms /\ c.at = b.at /\ c.target = b.target

Ended(e) == [blocks EXCEPT ![Level].ends = e]

LEMMA BlocksEnded ==
    ASSUME NilTypeOK, NEW e \in BOOLEAN
    PROVE  /\ Ended(e) \in Seq(Blocks) /\ Len(Ended(e)) = Level
           /\ Ended(e)[Level].ends = e /\ \A j \in 1..Level : j # Level => Ended(e)[j].ends = blocks[j].ends
           /\ \A j \in 1..Level : SameBut(blocks[j], Ended(e)[j])
<1> DEFINE c == [blocks[Level] EXCEPT !.ends = e]
<1>1. Level \in 1..Level /\ blocks[Level] \in Blocks /\ DOMAIN blocks = 1..Level /\ Level \in Nat
  <2>1. Level \in Nat \ {0} /\ DOMAIN blocks = 1..Level /\ \A j \in 1..Level : blocks[j] \in Blocks
    BY Shapes
  <2>2. Level \in 1..Level
    BY <2>1
  <2> QED BY <2>1, <2>2
<1>2. c \in Blocks /\ c.ends = e /\ SameBut(blocks[Level], c)
  BY <1>1, EndNoted DEF SameBut
<1>3. Ended(e) = [blocks EXCEPT ![Level] = c]
  BY DEF Ended
<1>4. blocks \in Seq(Blocks) /\ Len(blocks) = Level
  BY DEF NilTypeOK, Level
<1> HIDE DEF c
<1>5. /\ Ended(e) \in Seq(Blocks) /\ Len(Ended(e)) = Level /\ Ended(e)[Level] = c
      /\ \A j \in 1..Level : j # Level => Ended(e)[j] = blocks[j]
  BY <1>1, <1>2, <1>3, <1>4
<1> QED BY <1>2, <1>5 DEF SameBut

LEMMA LastBlockEnds ==
    ASSUME NilTypeOK, NEW e \in BOOLEAN, blocks' = [blocks EXCEPT ![Level].ends = e]
    PROVE  /\ blocks' \in Seq(Blocks) /\ Len(blocks') = Level
           /\ blocks'[Level].ends = e /\ \A j \in 1..Level : j # Level => blocks'[j].ends = blocks[j].ends
           /\ \A j \in 1..Level : SameBut(blocks[j], blocks'[j])
<1>1. blocks' = Ended(e)
  BY DEF Ended
<1> QED BY <1>1, BlocksEnded

\* A statement where the run is, which changes the innermost scope and values.
LEMMA Statement ==
    ASSUME NilInv, Runs, Plain,
           companions' \in [Errors -> Names \cup {"none"}], crashed' = FALSE,
           scopes' \in Seq(Tables), Len(scopes') = Top,
           \A j \in 1..Top - 1 : scopes'[j] = scopes[j],
           \A x \in Names : scopes'[Top].vars[x] # "error",
           env' \in Seq(Stores), Len(env') = Top,
           tied' \subseteq Errors \X Names \X (1..Top),
           TypesAreHonest', FactsTo(scopes', env', Top), StayTo(scopes', Top), TiesHold',
           \A t \in tied' : t[3] < Top => t \in tied /\ env'[t[3]][t[1]] = env[t[3]][t[1]]
    PROVE  NilInv'
<1>1. /\ Level \in Nat \ {0} /\ Top = 2 * Level /\ Top \in Nat \ {0}
      /\ DOMAIN blocks = 1..Level /\ \A j \in 1..Level : blocks[j] \in Blocks
      /\ DOMAIN scopes = 1..Top /\ Len(env) = Top
      /\ NilTypeOK /\ Here
  <2>1. Len(env) = Top
    BY DEF Runs, Here, Top
  <2> QED BY <2>1, Shapes DEF NilInv, Runs
<1>2. /\ blocks' \in Seq(Blocks) /\ Len(blocks') = Level
      /\ ~ blocks'[Level].ends /\ \A j \in 1..Level : j # Level => blocks'[j].ends = blocks[j].ends
      /\ \A j \in 1..Level : SameBut(blocks[j], blocks'[j])
  BY <1>1, LastBlockEnds DEF Plain
<1>3. \A j \in 1..Level : /\ blocks'[j].kind = blocks[j].kind /\ blocks'[j].checks = blocks[j].checks
                          /\ blocks'[j].arms = blocks[j].arms /\ blocks'[j].at = blocks[j].at
                          /\ blocks'[j].target = blocks[j].target
  BY <1>2 DEF SameBut
<1>4. Level' = Level /\ Top' = Top
  BY <1>2 DEF Level, Top
<1>5. NilTypeOK'
  <2>1. \A k \in DOMAIN scopes' : \A x \in Names : scopes'[k].vars[x] # "error"
    <3>1. DOMAIN scopes' = (1..Top - 1) \cup {Top}
      <4>1. DOMAIN scopes' = 1..Top
        OBVIOUS
      <4>2. 1..Top = (1..Top - 1) \cup {Top}
        BY <1>1, UpTo
      <4> QED BY <4>1, <4>2
    <3>2. \A k \in 1..Top - 1 : k \in DOMAIN scopes
      BY <1>1
    <3> QED BY <1>1, <3>1, <3>2 DEF NilTypeOK
  <2>2. \E d \in 0..Len(blocks') : Len(env') = 2 * d
    BY <1>1, <1>2
  <2> QED BY <1>1, <1>2, <2>1, <2>2 DEF NilTypeOK
<1>6. \A j \in 2..Level : ~ (Len(env') = 2 * j - 2) /\ ~ (Len(env) = 2 * j - 2)
  BY <1>1
<1>7. BranchFacts'
  <2>1. \A j \in 2..Level : 2 * j - 1 \in 1..Top - 1
    BY <1>1
  <2> QED BY <1>3, <1>4, <2>1 DEF BranchFacts, NilInv
<1>8. SkippedThen' /\ TookThen'
  BY <1>4, <1>6 DEF SkippedThen, TookThen, Passed
<1>9. TookElse'
  <2> SUFFICES ASSUME NEW j \in 2..Level, blocks'[j].kind = "else", NEW t \in tied',
                      t[3] <= 2 * j - 2, blocks'[j].checks[t[1]] = "ne"
               PROVE  env'[t[3]][t[1]] = "nil"
    BY <1>4 DEF TookElse, ErrorsNil
  <2>1. t[3] < Top /\ t[3] \in Nat
    BY <1>1
  <2>2. t \in tied /\ env'[t[3]][t[1]] = env[t[3]][t[1]]
    BY <2>1
  <2>3. blocks[j].kind = "else" /\ blocks[j].checks[t[1]] = "ne" /\ Len(env) >= 2 * j
    <3>1. j \in 1..Level /\ Len(env) >= 2 * j
      BY <1>1
    <3> QED BY <1>3, <3>1
  <2> QED BY <2>2, <2>3 DEF NilInv, TookElse, ErrorsNil
<1>10. ArmsAgree'
  <2> SUFFICES ASSUME NEW j \in 2..Level, blocks'[j].kind = "arm"
               PROVE  blocks'[j].at \in 1..Len(blocks'[j].arms) /\ blocks'[j].target = "none"
    BY <1>4, <1>6 DEF ArmsAgree, Passed
  <2>1. j \in 1..Level /\ blocks[j].kind = "arm"
    BY <1>3
  <2> QED BY <1>3, <1>6, <2>1 DEF NilInv, ArmsAgree, Passed
<1>11. EndsAgree'
  <2>1. ~ blocks'[Level].ends
    BY <1>2
  <2>2. ASSUME NEW j \in 1..Level - 1 PROVE ~ blocks'[j].ends
    <3>1. j \in 1..Level /\ j # Level /\ ~ blocks[j].ends
      BY <1>1 DEF NilInv, EndsAgree
    <3> QED BY <1>2, <3>1
  <2> QED BY <1>3, <1>4, <2>1, <2>2 DEF NilInv, EndsAgree
<1> QED BY <1>4, <1>5, <1>7, <1>8, <1>9, <1>10, <1>11 DEF NilInv, NilSafe, FactsHold, FactsStay

\* A statement that concerns the names in X only.
LEMMA StatementOn ==
    ASSUME NilInv, Runs, Plain, NEW X \in SUBSET All,
           companions' \in [Errors -> Names \cup {"none"}], crashed' = FALSE,
           scopes' \in Seq(Tables), Len(scopes') = Top,
           \A j \in 1..Top - 1 : scopes'[j] = scopes[j],
           \A y \in All \ X : scopes'[Top].vars[y] = scopes[Top].vars[y] /\ scopes'[Top].nil[y] = scopes[Top].nil[y],
           \A x \in X \cap Names : scopes'[Top].vars[x] # "error",
           env' \in Seq(Stores), Len(env') = Top,
           \A k \in 1..Top : \A y \in All \ X : env'[k][y] = env[k][y],
           \A x \in X \cap Names : \A k \in 1..Top :
               /\ scopes'[k].vars[x] = "pointer" => env'[k][x] # "nil"
               /\ \A p \in k..Top : BindsTo(scopes', x, k, p) /\ SureTo(scopes', x, p) => env'[k][x] # "nil"
               /\ \A p \in k..Top - 1 :
                    BindsTo(scopes', x, k, Top) /\ scopes'[k].vars[x] = "nullable" /\ SureTo(scopes', x, p)
                        => SureTo(scopes', x, Top),
           \A t \in tied' :
               \/ t \in Untie(X)
               \/ t \in tied /\ env' = env /\ \A j \in 1..Top : \A y \in All : scopes'[j].vars[y] = scopes[j].vars[y]
               \/ /\ t \in Errors \X Names \X {Top}
                  /\ BindsTo(scopes', t[1], Top, Top) /\ BindsTo(scopes', t[2], Top, Top)
                  /\ env'[Top][t[1]] = "nil" => env'[Top][t[2]] # "nil"
    PROVE  NilInv'
<1>1. /\ Top \in Nat \ {0} /\ Len(env) = Top /\ NilTypeOK /\ DOMAIN scopes = 1..Top /\ DOMAIN env = 1..Top
      /\ TypesAreHonest /\ FactsTo(scopes, env, Top) /\ StayTo(scopes, Top) /\ TiesHold
  <2>1. Len(env) = Top
    BY DEF Runs, Here, Top
  <2> QED BY <2>1, Shapes DEF NilInv, FactsHold, FactsStay
<1>2. 1..Top = (1..Top - 1) \cup {Top} /\ Top \in 1..Top /\ Top \notin 1..Top - 1
  BY <1>1, UpTo
<1>3. Top' = Top
  BY DEF Top
<1>4. \A y \in All \ X : \A j \in 1..Top :
         scopes'[j].vars[y] = scopes[j].vars[y] /\ scopes'[j].nil[y] = scopes[j].nil[y]
  BY <1>2
<1>5. \A y \in All \ X : \A q \in 1..Top :
         /\ \A k : BindsTo(scopes', y, k, q) <=> BindsTo(scopes, y, k, q)
         /\ SureTo(scopes', y, q) <=> SureTo(scopes, y, q)
  BY <1>1, <1>4, SameName
<1>6. ASSUME NEW x \in Names PROVE scopes'[Top].vars[x] # "error"
  <2>1. scopes[Top].vars[x] # "error"
    BY <1>1, <1>2 DEF NilTypeOK
  <2> QED BY <1>2, <1>4, <2>1 DEF All
<1>7. TypesAreHonest'
  <2>1. DOMAIN env' = 1..Top
    OBVIOUS
  <2> SUFFICES ASSUME NEW k \in 1..Top, NEW x \in Names, scopes'[k].vars[x] = "pointer"
               PROVE  env'[k][x] # "nil"
    BY <2>1 DEF TypesAreHonest
  <2>2. CASE x \notin X
    BY <1>1, <1>4, <2>2 DEF TypesAreHonest, All
  <2> QED BY <2>2
<1>8. FactsTo(scopes', env', Top)
  <2> SUFFICES ASSUME NEW p \in 1..Top, NEW x \in Names, NEW k \in 1..p,
                      BindsTo(scopes', x, k, p), SureTo(scopes', x, p)
               PROVE  env'[k][x] # "nil"
    BY DEF FactsTo
  <2>1. k \in 1..Top /\ p \in k..Top
    BY <1>1
  <2>2. CASE x \notin X
    BY <1>1, <1>5, <2>1, <2>2 DEF FactsTo, All
  <2> QED BY <2>1, <2>2
<1>9. StayTo(scopes', Top)
  <2> SUFFICES ASSUME NEW q \in 1..Top, NEW p \in 1..q, NEW x \in Names, NEW k \in 1..p,
                      BindsTo(scopes', x, k, q), scopes'[k].vars[x] = "nullable", SureTo(scopes', x, p)
               PROVE  SureTo(scopes', x, q)
    BY DEF StayTo
  <2>1. k \in 1..Top /\ p \in 1..Top /\ p \in k..Top
    BY <1>1
  <2>2. CASE x \notin X
    <3>1. x \in All \ X /\ q \in 1..Top
      BY <2>2 DEF All
    <3>2. scopes[k].vars[x] = "nullable"
      BY <1>4, <2>1, <3>1
    <3>3. BindsTo(scopes, x, k, q) /\ SureTo(scopes, x, p)
      BY <1>5, <2>1, <3>1
    <3>4. StayTo(scopes, Top)
      BY <1>1
    <3>5. SureTo(scopes, x, q)
      BY <3>2, <3>3, <3>4 DEF StayTo
    <3> QED BY <1>5, <3>1, <3>5
  <2>3. CASE q # Top
    <3>1. q \in 1..Top - 1 /\ Top - 1 \in Nat /\ p \in 1..Top - 1 /\ k \in 1..Top - 1
      BY <1>1, <2>3
    <3>2. /\ BindsTo(scopes, x, k, q) /\ SureTo(scopes, x, p) /\ scopes[k].vars[x] = "nullable"
          /\ SureTo(scopes', x, q) <=> SureTo(scopes, x, q)
      BY <3>1, SamePrefix
    <3> QED BY <1>1, <3>2 DEF StayTo
  <2>4. CASE x \in X /\ q = Top /\ p # Top
    <3>1. p \in k..Top - 1
      BY <1>1, <2>1, <2>4
    <3> QED BY <2>1, <2>4, <3>1
  <2> QED BY <2>2, <2>3, <2>4
<1>10. tied' \subseteq Errors \X Names \X (1..Top)
  BY <1>1, <1>2 DEF Untie, NilTypeOK, Top
<1>11. ASSUME NEW t \in tied', t \in Untie(X)
       PROVE  /\ t \in tied /\ t[1] \in All \ X /\ t[2] \in All \ X /\ t[3] \in 1..Top
              /\ env'[t[3]][t[1]] = env[t[3]][t[1]] /\ env'[t[3]][t[2]] = env[t[3]][t[2]]
  <2>1. t \in tied /\ t[1] \notin X /\ t[2] \notin X /\ t \in Errors \X Names \X (1..Top)
    BY <1>1, <1>11 DEF Untie, NilTypeOK, Top
  <2> QED BY <2>1 DEF All
<1>12. TiesHold'
  <2> SUFFICES ASSUME NEW t \in tied'
               PROVE  /\ BindsTo(scopes', t[1], t[3], Top) /\ BindsTo(scopes', t[2], t[3], Top)
                      /\ t[3] <= Top /\ env'[t[3]][t[1]] = "nil" => env'[t[3]][t[2]] # "nil"
    BY <1>3 DEF TiesHold
  <2>1. CASE t \in Untie(X)
    BY <1>1, <1>2, <1>5, <1>11, <2>1 DEF TiesHold
  <2>2. CASE t \in tied /\ env' = env /\ \A j \in 1..Top : \A y \in All : scopes'[j].vars[y] = scopes[j].vars[y]
    <3>1. t[1] \in All /\ t[2] \in All
      BY <1>1, <2>2 DEF NilTypeOK, All
    <3>2. ASSUME NEW y \in All PROVE \A k : BindsTo(scopes', y, k, Top) <=> BindsTo(scopes, y, k, Top)
      <4>1. \A j \in 1..Top : scopes'[j].vars[y] = scopes[j].vars[y]
        BY <2>2
      <4> QED BY <1>1, <1>2, <4>1, SameBinds
    <3> QED BY <1>1, <2>2, <3>1, <3>2 DEF TiesHold
  <2>3. CASE ~ (t \in Untie(X)) /\ ~ (t \in tied /\ env' = env /\ \A j \in 1..Top : \A y \in All : scopes'[j].vars[y] = scopes[j].vars[y])
    <3>1. t[3] = Top
      BY <2>3
    <3> QED BY <2>3, <3>1
  <2> QED BY <2>1, <2>2, <2>3
<1>13. ASSUME NEW t \in tied', t[3] < Top PROVE t \in tied /\ env'[t[3]][t[1]] = env[t[3]][t[1]]
  <2>1. CASE t \in Untie(X)
    BY <1>11, <2>1
  <2>2. CASE t \notin Untie(X)
    BY <1>1, <1>13, <2>2
  <2> QED BY <2>1, <2>2
<1> QED BY <1>6, <1>7, <1>8, <1>9, <1>10, <1>12, <1>13, Statement

\* The innermost scope with another type and another entry for a name, and the
\* values with another for the name at one scope.
Noted(x, t, n) == [scopes EXCEPT ![Top].vars[x] = t, ![Top].nil[x] = n]
Stored(k, x, r) == [env EXCEPT ![k][x] = r]

LEMMA ScopeUpdate ==
    ASSUME NilTypeOK, NEW x \in All, NEW t \in Types, NEW n \in States,
           NEW ss, ss = Noted(x, t, n)
    PROVE  /\ ss \in Seq(Tables) /\ Len(ss) = Top
           /\ \A j \in 1..Top - 1 : ss[j] = scopes[j]
           /\ ss[Top].vars[x] = t /\ ss[Top].nil[x] = n
           /\ \A y \in All \ {x} : ss[Top].vars[y] = scopes[Top].vars[y] /\ ss[Top].nil[y] = scopes[Top].nil[y]
<1> DEFINE s == scopes[Top]
           c == [vars |-> [s.vars EXCEPT ![x] = t], nil |-> [s.nil EXCEPT ![x] = n]]
           tt == [scopes EXCEPT ![Top] = c]
<1>1. scopes \in Seq(Tables) /\ Len(scopes) = Top /\ Top \in 1..Top /\ Top \in Nat /\ DOMAIN scopes = 1..Top
      /\ scopes[Top] \in Tables
  <2>1. Top \in Nat \ {0}
    BY Shapes
  <2>2. Top \in 1..Top
    BY <2>1
  <2> QED BY <2>1, <2>2, Shapes DEF NilTypeOK, Top
<1>2. c \in Tables /\ s = [vars |-> s.vars, nil |-> s.nil] /\ s.vars \in [All -> Types] /\ s.nil \in [All -> States]
  BY <1>1 DEF Tables
<1>3. [scopes EXCEPT ![Top].vars[x] = t, ![Top].nil[x] = n] = tt
  <2> DEFINE b == [vars |-> [s.vars EXCEPT ![x] = t], nil |-> s.nil]
             m == [scopes EXCEPT ![Top] = b]
  <2>1. [s EXCEPT !.vars[x] = t] = b
    <3>1. [[vars |-> s.vars, nil |-> s.nil] EXCEPT !.vars[x] = t] = b
      OBVIOUS
    <3> HIDE DEF s
    <3> QED BY <1>2, <3>1
  <2>2. [scopes EXCEPT ![Top].vars[x] = t] = m
    BY <2>1
  <2>3. m[Top] = b /\ [b EXCEPT !.nil[x] = n] = c
    <3>1. m[Top] = b
      BY <1>1
    <3>2. [b EXCEPT !.nil[x] = n] = c
      OBVIOUS
    <3> QED BY <3>1, <3>2
  <2>4. [scopes EXCEPT ![Top].vars[x] = t, ![Top].nil[x] = n] = [m EXCEPT ![Top].nil[x] = n]
    BY <2>2
  <2>5. [m EXCEPT ![Top].nil[x] = n] = [m EXCEPT ![Top] = c]
    BY <2>3
  <2> HIDE DEF b, c
  <2>6. [m EXCEPT ![Top] = c] = tt
    BY <1>1
  <2> QED BY <2>4, <2>5, <2>6
<1>4. tt \in Seq(Tables) /\ Len(tt) = Top /\ tt[Top] = c /\ \A j \in 1..Top - 1 : tt[j] = scopes[j]
  <2> HIDE DEF c
  <2> QED BY <1>1, <1>2
<1>5. c.vars[x] = t /\ c.nil[x] = n /\ \A y \in All \ {x} : c.vars[y] = s.vars[y] /\ c.nil[y] = s.nil[y]
  BY <1>2
<1> HIDE DEF c, tt
<1> QED BY <1>3, <1>4, <1>5 DEF Noted

LEMMA ValueUpdate ==
    ASSUME NilTypeOK, Here, NEW k \in 1..Top, NEW x \in All, NEW r \in Values,
           NEW en, en = Stored(k, x, r)
    PROVE  /\ en \in Seq(Stores) /\ Len(en) = Top /\ en[k][x] = r
           /\ \A j \in 1..Top : \A y \in All : j # k \/ y # x => en[j][y] = env[j][y]
<1> DEFINE c == [env[k] EXCEPT ![x] = r]
<1>1. env \in Seq(Stores) /\ Len(env) = Top /\ env[k] \in Stores /\ DOMAIN env = 1..Top
  <2>1. Len(env) = Top
    BY DEF Here, Top
  <2> QED BY <2>1, Shapes DEF NilTypeOK
<1>2. c \in Stores /\ c[x] = r /\ \A y \in All \ {x} : c[y] = env[k][y]
  BY <1>1 DEF Stores
<1>3. [env EXCEPT ![k][x] = r] = [env EXCEPT ![k] = c]
  OBVIOUS
<1>4. [env EXCEPT ![k] = c] \in Seq(Stores) /\ Len([env EXCEPT ![k] = c]) = Top
      /\ [env EXCEPT ![k] = c][k] = c /\ \A j \in 1..Top : j # k => [env EXCEPT ![k] = c][j] = env[j]
  <2> HIDE DEF c
  <2> QED BY <1>1, <1>2
<1> QED BY <1>2, <1>3, <1>4 DEF Stored

\* A new variable's type and state are true of its value.
LEMMA DeclareStep ==
    ASSUME NilInv, Runs, NEW x \in Names, NEW type \in {"nullable", "pointer"}, NEW state \in {"nullable", "nonnull"},
           NEW v, Declare(x, type, state, v), scopes[Top].vars[x] = "none",
           \A r \in Results(v) : r \in Values /\ (type = "pointer" \/ state = "nonnull" => r # "nil")
    PROVE  NilInv'
<1>1. /\ scopes' = [scopes EXCEPT ![Top].vars[x] = type, ![Top].nil[x] = state]
      /\ tied' = Untie({x}) /\ PlainRest
  BY DEF Declare
<1>2. PICK r \in Results(v) : env' = [env EXCEPT ![Top][x] = r]
  BY DEF Declare
<1>3. NilTypeOK /\ Here /\ Top \in 1..Top /\ Top \in Nat /\ DOMAIN scopes = 1..Top /\ Len(env) = Top
  <2>1. Top \in Nat \ {0} /\ NilTypeOK /\ Here /\ Len(env) = Top
    BY Shapes DEF NilInv, Runs, Here, Top
  <2> QED BY <2>1, Shapes
<1>4. x \in All /\ type \in Types /\ state \in States /\ r \in Values
  BY DEF All, Types, States
<1>5. /\ scopes' \in Seq(Tables) /\ Len(scopes') = Top
      /\ \A j \in 1..Top - 1 : scopes'[j] = scopes[j]
      /\ scopes'[Top].vars[x] = type /\ scopes'[Top].nil[x] = state
      /\ \A y \in All \ {x} : scopes'[Top].vars[y] = scopes[Top].vars[y] /\ scopes'[Top].nil[y] = scopes[Top].nil[y]
  <2>1. scopes' = Noted(x, type, state)
    BY <1>1 DEF Noted
  <2> QED BY <1>3, <1>4, <2>1, ScopeUpdate
<1>6. /\ env' \in Seq(Stores) /\ Len(env') = Top /\ env'[Top][x] = r
      /\ \A j \in 1..Top : \A y \in All : j # Top \/ y # x => env'[j][y] = env[j][y]
  <2>1. env' = Stored(Top, x, r)
    BY <1>2 DEF Stored
  <2>2. NilTypeOK /\ Here /\ Top \in 1..Top /\ x \in All /\ r \in Values
    BY <1>3, <1>4
  <2> QED BY <2>1, <2>2, ValueUpdate
<1>7. \A k : BindsTo(scopes', x, k, Top) <=> k = Top
  BY <1>3, <1>5, LastScope
<1>8. SureTo(scopes', x, Top) => state = "nonnull"
  BY <1>3, <1>5, LastScope
<1>9. ASSUME NEW k \in 1..Top
      PROVE  /\ scopes'[k].vars[x] = "pointer" => env'[k][x] # "nil"
             /\ \A p \in k..Top : BindsTo(scopes', x, k, p) /\ SureTo(scopes', x, p) => env'[k][x] # "nil"
             /\ \A p \in k..Top - 1 :
                  BindsTo(scopes', x, k, Top) /\ scopes'[k].vars[x] = "nullable" /\ SureTo(scopes', x, p)
                      => SureTo(scopes', x, Top)
  <2>1. CASE k = Top
    BY <1>2, <1>3, <1>5, <1>6, <1>8, <2>1
  <2>2. CASE k # Top
    <3>1. k \in 1..Top - 1 /\ k \in DOMAIN env
      BY <1>3, <2>2, Shapes
    <3>2. scopes'[k] = scopes[k] /\ env'[k][x] = env[k][x]
      BY <1>4, <1>5, <1>6, <2>2, <3>1
    <3>3. ASSUME NEW p \in k..Top, BindsTo(scopes', x, k, p), SureTo(scopes', x, p) PROVE env'[k][x] # "nil"
      <4>1. p # Top /\ p \in 1..Top - 1 /\ k \in 1..p /\ Top - 1 \in Nat
        BY <1>3, <1>7, <2>2, <3>3
      <4>2. BindsTo(scopes, x, k, p) /\ SureTo(scopes, x, p)
        BY <1>5, <3>3, <4>1, SamePrefix
      <4> QED BY <1>3, <3>2, <4>1, <4>2 DEF NilInv, FactsHold, FactsTo
    <3> QED BY <1>7, <2>2, <3>1, <3>2, <3>3 DEF NilInv, TypesAreHonest
  <2> QED BY <2>1, <2>2
<1>10. Plain /\ companions' \in [Errors -> Names \cup {"none"}] /\ crashed' = FALSE
  BY <1>1 DEF PlainRest, NilInv, NilTypeOK, NilSafe
<1>11. \A k \in 1..Top : \A y \in All \ {x} : env'[k][y] = env[k][y]
  BY <1>6
<1>12. {x} \in SUBSET All /\ \A y \in {x} \cap Names : y = x
  BY <1>4
<1>13. \A y \in {x} \cap Names : scopes'[Top].vars[y] # "error"
  BY <1>5, <1>12
<1>14. \A t \in tied' : t \in Untie({x})
  BY <1>1
<1> DEFINE X == {x}
<1>15. \A y \in X \cap Names : y = x
  BY <1>12
<1>16. /\ \A y \in All \ X : scopes'[Top].vars[y] = scopes[Top].vars[y] /\ scopes'[Top].nil[y] = scopes[Top].nil[y]
       /\ \A y \in X \cap Names : \A k \in 1..Top :
               /\ scopes'[k].vars[y] = "pointer" => env'[k][y] # "nil"
               /\ \A p \in k..Top : BindsTo(scopes', y, k, p) /\ SureTo(scopes', y, p) => env'[k][y] # "nil"
               /\ \A p \in k..Top - 1 :
                    BindsTo(scopes', y, k, Top) /\ scopes'[k].vars[y] = "nullable" /\ SureTo(scopes', y, p)
                        => SureTo(scopes', y, Top)
       /\ X \in SUBSET All
       /\ \A k \in 1..Top : \A y \in All \ X : env'[k][y] = env[k][y]
       /\ \A y \in X \cap Names : scopes'[Top].vars[y] # "error"
       /\ \A t \in tied' : t \in Untie(X)
  <2>1. /\ X \in SUBSET All
        /\ \A y \in All \ X : scopes'[Top].vars[y] = scopes[Top].vars[y] /\ scopes'[Top].nil[y] = scopes[Top].nil[y]
        /\ \A k \in 1..Top : \A y \in All \ X : env'[k][y] = env[k][y]
        /\ \A y \in X \cap Names : scopes'[Top].vars[y] # "error"
        /\ \A t \in tied' : t \in Untie(X)
    BY <1>5, <1>11, <1>12, <1>13, <1>14
  <2> HIDE DEF X
  <2> QED BY <1>9, <1>15, <2>1
<1> HIDE DEF X
<1> QED BY <1>5, <1>6, <1>10, <1>16, StatementOn

\* What may be assigned to a variable that is taken for non-nil is not nil.
LEMMA AssignedValue ==
    ASSUME NilInv, Runs, NEW x \in Names, Bound(x), NEW v \in Exprs, Known(v), Fits(TypeOf(x), v),
           NEW r \in Results(v)
    PROVE  r \in Values /\ (TypeOf(x) = "pointer" => r # "nil" /\ v # "nil")
<1>1. NilTypeOK /\ TypesAreHonest /\ FactsHold /\ Here /\ v # "zero"
  BY NamesAssumption DEF NilInv, Runs, Exprs, Constructors
<1>2. /\ r \in Values /\ ValueType(v) \in {"nullable", "pointer", "any"}
      /\ ValueType(v) = "any" <=> v = "nil"
      /\ ValueType(v) = "pointer" => r # "nil"
  BY <1>1, ValueFacts
<1> QED BY <1>2 DEF Fits

\* A variable's facts after its value has changed, if it is not nil where they
\* say that it is not.
LEMMA Overwritten ==
    ASSUME NilInv, Runs, NEW x \in Names, Bound(x), NEW r, TypeOf(x) = "pointer" => r # "nil",
           env'[Home(x)][x] = r, \A k \in 1..Top : k # Home(x) => env'[k][x] = env[k][x]
    PROVE  \A k \in 1..Top :
               /\ scopes[k].vars[x] = "pointer" => env'[k][x] # "nil"
               /\ \A p \in k..Top : BindsTo(scopes, x, k, p) /\ SureTo(scopes, x, p) => env'[k][x] # "nil"
<1>1. NilTypeOK /\ TypesAreHonest /\ FactsHold /\ Here /\ StayTo(scopes, Top) /\ FactsTo(scopes, env, Top)
      /\ Top \in Nat \ {0} /\ DOMAIN env = 1..Top
  <2>1. Len(env) = Top
    BY DEF Runs, Here, Top
  <2> QED BY <2>1, Shapes DEF NilInv, Runs, FactsHold, FactsStay
<1>2. /\ Home(x) \in 1..Top /\ BindsTo(scopes, x, Home(x), Top)
      /\ scopes[Home(x)].vars[x] \in {"nullable", "pointer"} /\ TypeOf(x) \in {"nullable", "pointer"}
      /\ SureTo(scopes, x, Top) => TypeOf(x) = "pointer"
      /\ TypeOf(x) # scopes[Home(x)].vars[x] => scopes[Home(x)].vars[x] = "nullable"
  BY <1>1, VariableFacts
<1> SUFFICES ASSUME NEW k \in 1..Top
             PROVE  /\ scopes[k].vars[x] = "pointer" => env'[k][x] # "nil"
                    /\ \A p \in k..Top : BindsTo(scopes, x, k, p) /\ SureTo(scopes, x, p) => env'[k][x] # "nil"
  OBVIOUS
<1>3. ASSUME NEW p \in k..Top PROVE p \in 1..Top /\ k \in 1..p
  BY <1>1
<1>4. CASE k # Home(x)
  BY <1>1, <1>3, <1>4 DEF TypesAreHonest, FactsTo
<1>5. CASE k = Home(x)
  <2>1. ASSUME NEW p \in k..Top, SureTo(scopes, x, p), TypeOf(x) # "pointer" PROVE FALSE
    <3>1. scopes[k].vars[x] = "nullable" /\ Top \in 1..Top /\ p \in 1..Top /\ k \in 1..p
      BY <1>1, <1>2, <1>3, <1>5, <2>1
    <3> QED BY <1>1, <1>2, <1>5, <2>1, <3>1 DEF StayTo
  <2> QED BY <1>2, <1>5, <2>1
<1> QED BY <1>4, <1>5

\* The innermost scope with another entry for a name.
Marked(x, n) == [scopes EXCEPT ![Top].nil[x] = n]

LEMMA EntryUpdate ==
    ASSUME NilTypeOK, NEW x \in All, NEW n \in States, NEW ss, ss = Marked(x, n)
    PROVE  /\ ss \in Seq(Tables) /\ Len(ss) = Top
           /\ \A j \in 1..Top - 1 : ss[j] = scopes[j]
           /\ \A j \in 1..Top : ss[j].vars = scopes[j].vars
           /\ ss[Top].nil[x] = n /\ \A y \in All \ {x} : ss[Top].nil[y] = scopes[Top].nil[y]
<1> DEFINE s == scopes[Top]
           c == [vars |-> s.vars, nil |-> [s.nil EXCEPT ![x] = n]]
           tt == [scopes EXCEPT ![Top] = c]
<1>1. scopes \in Seq(Tables) /\ Len(scopes) = Top /\ Top \in 1..Top /\ Top \in Nat /\ DOMAIN scopes = 1..Top
      /\ scopes[Top] \in Tables
  <2>1. Top \in Nat \ {0}
    BY Shapes
  <2>2. Top \in 1..Top
    BY <2>1
  <2> QED BY <2>1, <2>2, Shapes DEF NilTypeOK, Top
<1>2. c \in Tables /\ s = [vars |-> s.vars, nil |-> s.nil] /\ s.vars \in [All -> Types] /\ s.nil \in [All -> States]
  BY <1>1 DEF Tables
<1>3. [scopes EXCEPT ![Top].nil[x] = n] = tt
  <2>1. [s EXCEPT !.nil[x] = n] = c
    <3>1. [[vars |-> s.vars, nil |-> s.nil] EXCEPT !.nil[x] = n] = c
      OBVIOUS
    <3> HIDE DEF s
    <3> QED BY <1>2, <3>1
  <2> QED BY <2>1
<1>4. tt \in Seq(Tables) /\ Len(tt) = Top /\ tt[Top] = c /\ \A j \in 1..Top - 1 : tt[j] = scopes[j]
  <2> HIDE DEF c
  <2> QED BY <1>1, <1>2
<1>5. c.vars = s.vars /\ c.nil[x] = n /\ \A y \in All \ {x} : c.nil[y] = s.nil[y]
  BY <1>2
<1>6. \A j \in 1..Top : tt[j].vars = scopes[j].vars
  <2> HIDE DEF c, tt
  <2>1. 1..Top = (1..Top - 1) \cup {Top}
    BY <1>1, UpTo
  <2> QED BY <1>4, <1>5, <2>1
<1> HIDE DEF c, tt
<1> QED BY <1>3, <1>4, <1>5, <1>6 DEF Marked

LEMMA DeclStep ==
    ASSUME NilInv, NEW x \in Names, NEW v \in Exprs, Decl(x, v)
    PROVE  NilInv'
<1>1. NilTypeOK /\ TypesAreHonest /\ FactsHold /\ Here /\ Runs /\ Known(v) /\ v # "nil" /\ v # "zero"
  BY NamesAssumption DEF NilInv, Runs, Decl, Exprs, Constructors
<1>2. ASSUME NEW r \in Results(v)
      PROVE  /\ ValueType(v) \in {"nullable", "pointer"} /\ ValueState(v) \in {"nullable", "nonnull"}
             /\ r \in Values /\ (ValueType(v) = "pointer" \/ ValueState(v) = "nonnull" => r # "nil")
  <2>1. v \in Exprs \cup {"zero"}
    OBVIOUS
  <2> QED BY <1>1, <2>1, ValueFacts
<1>3. Declare(x, ValueType(v), ValueState(v), v) /\ scopes[Top].vars[x] = "none"
  BY DEF Decl
<1>4. PICK r \in Results(v) : TRUE
  BY <1>3 DEF Declare
<1> QED BY <1>1, <1>2, <1>3, <1>4, DeclareStep

LEMMA VarDeclStep ==
    ASSUME NilInv, NEW x \in Names, NEW type \in {"nullable", "pointer"}, NEW v \in Exprs \cup {"zero"},
           VarDecl(x, type, v)
    PROVE  NilInv'
<1>1. NilTypeOK /\ TypesAreHonest /\ FactsHold /\ Here /\ Runs /\ Known(v)
  BY DEF NilInv, Runs, VarDecl
<1>2. /\ Declare(x, type, ValueState(v), v) /\ scopes[Top].vars[x] = "none"
      /\ IF v = "zero" THEN type # "pointer" ELSE Fits(type, v)
  BY DEF VarDecl
<1>3. ASSUME NEW r \in Results(v)
      PROVE  /\ ValueState(v) \in {"nullable", "nonnull"}
             /\ r \in Values /\ (type = "pointer" \/ ValueState(v) = "nonnull" => r # "nil")
  <2>1. /\ r \in Values /\ ValueState(v) \in {"nullable", "nonnull"}
        /\ ValueState(v) = "nonnull" => r # "nil"
        /\ v # "zero" => /\ ValueType(v) \in {"nullable", "pointer", "any"}
                         /\ ValueType(v) = "pointer" => r # "nil"
    BY <1>1, ValueFacts
  <2> QED BY <1>2, <2>1 DEF Fits
<1>4. PICK r \in Results(v) : TRUE
  BY <1>2 DEF Declare
<1> QED BY <1>1, <1>2, <1>3, <1>4, DeclareStep

\* A new value, which is nil only if the checker takes the variable for
\* nullable: the call trap keeps out those that it takes for non-nil too early.
LEMMA AssignStep ==
    ASSUME NilInv, Traps = {}, NEW x \in Names, NEW v \in Exprs, Assign(x, v)
    PROVE  NilInv'
<1>1. /\ Runs /\ Bound(x) /\ Known(v) /\ Fits(TypeOf(x), v) /\ PlainRest /\ tied' = Untie({x})
      /\ ~ (TypeOf(x) # scopes[Home(x)].vars[x] /\ ValueState(v) # "nonnull")
      /\ scopes' = IF v = "nil" THEN scopes ELSE [scopes EXCEPT ![Top].nil[x] = ValueState(v)]
  BY DEF Assign, Allowed
<1>2. PICK r \in Results(v) : env' = [env EXCEPT ![Home(x)][x] = r]
  BY DEF Assign
<1>3. /\ NilTypeOK /\ TypesAreHonest /\ FactsHold /\ Here /\ Top \in Nat \ {0} /\ Top \in 1..Top /\ Len(env) = Top
      /\ StayTo(scopes, Top) /\ x \in All
  <2>1. Len(env) = Top
    BY <1>1 DEF Runs, Here, Top
  <2> QED BY <1>1, <2>1, Shapes DEF NilInv, Runs, FactsStay, All
<1>4. r \in Values /\ (TypeOf(x) = "pointer" => r # "nil" /\ v # "nil")
  BY <1>1, AssignedValue
<1>5. ValueState(v) \in {"nullable", "nonnull"} /\ (ValueState(v) = "nonnull" => r # "nil")
  <2>1. v \in Exprs \cup {"zero"}
    OBVIOUS
  <2> QED BY <1>1, <1>3, <2>1, ValueFacts
<1>6. /\ Home(x) \in 1..Top /\ BindsTo(scopes, x, Home(x), Top)
      /\ SureTo(scopes, x, Top) => TypeOf(x) = "pointer"
      /\ TypeOf(x) # scopes[Home(x)].vars[x] <=>
           scopes[Home(x)].vars[x] = "nullable" /\ SureTo(scopes, x, Top)
  BY <1>1, <1>3, VariableFacts
<1>7. /\ env' \in Seq(Stores) /\ Len(env') = Top /\ env'[Home(x)][x] = r
      /\ \A j \in 1..Top : \A y \in All : j # Home(x) \/ y # x => env'[j][y] = env[j][y]
  <2>1. env' = Stored(Home(x), x, r)
    BY <1>2 DEF Stored
  <2> QED BY <1>3, <1>4, <1>6, <2>1, ValueUpdate
<1>8. /\ scopes' \in Seq(Tables) /\ Len(scopes') = Top
      /\ \A j \in 1..Top - 1 : scopes'[j] = scopes[j]
      /\ \A j \in 1..Top : scopes'[j].vars = scopes[j].vars
      /\ \A y \in All \ {x} : scopes'[Top].nil[y] = scopes[Top].nil[y]
      /\ IF v = "nil" THEN scopes' = scopes ELSE scopes'[Top].nil[x] = ValueState(v)
  <2>1. CASE v = "nil"
    BY <1>1, <1>3, <2>1 DEF NilTypeOK, Top
  <2>2. CASE v # "nil"
    <3>1. scopes' = Marked(x, ValueState(v)) /\ ValueState(v) \in States
      BY <1>1, <1>5, <2>2 DEF States, Marked
    <3> QED BY <1>3, <2>2, <3>1, EntryUpdate
  <2> QED BY <2>1, <2>2
<1>9. \A k \in 1..Top :
         /\ scopes[k].vars[x] = "pointer" => env'[k][x] # "nil"
         /\ \A p \in k..Top : BindsTo(scopes, x, k, p) /\ SureTo(scopes, x, p) => env'[k][x] # "nil"
  <2>1. \A k \in 1..Top : k # Home(x) => env'[k][x] = env[k][x]
    BY <1>3, <1>7
  <2> QED BY <1>1, <1>4, <1>7, <2>1, Overwritten
<1>10. \A q \in 1..Top : \A k : BindsTo(scopes', x, k, q) <=> BindsTo(scopes, x, k, q)
  <2>1. \A j \in 1..Top : scopes'[j].vars[x] = scopes[j].vars[x] /\ Top \in Nat
    BY <1>3, <1>8
  <2> QED BY <2>1, SameBinds
<1>11. \A q \in 1..Top - 1 : SureTo(scopes', x, q) <=> SureTo(scopes, x, q)
  <2>1. Top - 1 \in Nat
    BY <1>3
  <2> QED BY <1>8, <2>1, SamePrefix
<1>12. v # "nil" => (SureTo(scopes', x, Top) <=> ValueState(v) = "nonnull")
  BY <1>3, <1>5, <1>8, LastScope
<1>13. ASSUME NEW k \in 1..Top, BindsTo(scopes, x, k, Top) PROVE k = Home(x)
  BY <1>3, <1>13, HomeFacts
<1>14. ASSUME NEW k \in 1..Top
       PROVE  /\ scopes'[k].vars[x] = "pointer" => env'[k][x] # "nil"
              /\ \A p \in k..Top : BindsTo(scopes', x, k, p) /\ SureTo(scopes', x, p) => env'[k][x] # "nil"
              /\ \A p \in k..Top - 1 :
                   BindsTo(scopes', x, k, Top) /\ scopes'[k].vars[x] = "nullable" /\ SureTo(scopes', x, p)
                       => SureTo(scopes', x, Top)
  <2>1. scopes'[k].vars[x] = "pointer" => env'[k][x] # "nil"
    BY <1>8, <1>9
  <2>2. ASSUME NEW p \in k..Top, BindsTo(scopes', x, k, p), SureTo(scopes', x, p) PROVE env'[k][x] # "nil"
    <3>1. p \in 1..Top /\ BindsTo(scopes, x, k, p)
      <4>1. p \in 1..Top
        BY <1>3
      <4> QED BY <1>10, <2>2, <4>1
    <3>2. CASE p # Top
      <4>1. p \in 1..Top - 1
        BY <1>3, <3>1, <3>2
      <4> QED BY <1>9, <1>11, <2>2, <3>1, <4>1
    <3>3. CASE p = Top /\ v # "nil"
      BY <1>5, <1>7, <1>12, <1>13, <2>2, <3>1, <3>3
    <3>4. CASE p = Top /\ v = "nil"
      BY <1>4, <1>6, <1>8, <2>2, <3>4
    <3> QED BY <3>2, <3>3, <3>4
  <2>3. ASSUME NEW p \in k..Top - 1, BindsTo(scopes', x, k, Top), scopes'[k].vars[x] = "nullable", SureTo(scopes', x, p)
        PROVE  SureTo(scopes', x, Top)
    <3>1. p \in 1..Top /\ p \in 1..Top - 1 /\ k \in 1..p
      BY <1>3
    <3>2. BindsTo(scopes, x, k, Top) /\ scopes[k].vars[x] = "nullable" /\ SureTo(scopes, x, p) /\ k = Home(x)
      BY <1>3, <1>8, <1>10, <1>11, <1>13, <2>3, <3>1
    <3>3. SureTo(scopes, x, Top)
      BY <1>3, <3>1, <3>2 DEF StayTo
    <3> QED BY <1>1, <1>4, <1>6, <1>8, <1>12, <3>2, <3>3
  <2> QED BY <2>1, <2>2, <2>3
<1> DEFINE X == {x}
<1>15. X \in SUBSET All /\ \A y \in X : y = x
  BY <1>3
<1>16. /\ \A y \in All \ X : scopes'[Top].vars[y] = scopes[Top].vars[y] /\ scopes'[Top].nil[y] = scopes[Top].nil[y]
       /\ \A k \in 1..Top : \A y \in All \ X : env'[k][y] = env[k][y]
       /\ \A y \in X \cap Names : scopes'[Top].vars[y] # "error"
       /\ \A t \in tied' : t \in Untie(X)
       /\ Plain /\ companions' \in [Errors -> Names \cup {"none"}] /\ crashed' = FALSE
  <2>1. scopes'[Top].vars[x] # "error"
    BY <1>3, <1>8, Shapes DEF NilTypeOK
  <2> QED BY <1>1, <1>3, <1>7, <1>8, <1>15, <2>1 DEF PlainRest, NilInv, NilTypeOK, NilSafe
<1> HIDE DEF X
<1>17. \A y \in X \cap Names : \A k \in 1..Top :
           /\ scopes'[k].vars[y] = "pointer" => env'[k][y] # "nil"
           /\ \A p \in k..Top : BindsTo(scopes', y, k, p) /\ SureTo(scopes', y, p) => env'[k][y] # "nil"
           /\ \A p \in k..Top - 1 :
                BindsTo(scopes', y, k, Top) /\ scopes'[k].vars[y] = "nullable" /\ SureTo(scopes', y, p)
                    => SureTo(scopes', y, Top)
  BY <1>14, <1>15
<1> QED BY <1>1, <1>7, <1>8, <1>15, <1>16, <1>17, StatementOn

\* No scope, value or tie changes.
LEMMA StillStep ==
    ASSUME NilInv, Runs, Plain, UNCHANGED <<scopes, companions, env, tied>>, crashed' = FALSE
    PROVE  NilInv'
<1>1. /\ NilTypeOK /\ FactsTo(scopes, env, Top) /\ StayTo(scopes, Top) /\ Len(env) = Top /\ Top \in 1..Top
      /\ DOMAIN scopes = 1..Top
  <2>1. Len(env) = Top /\ Top \in Nat \ {0}
    BY Shapes DEF Runs, Here, Top, NilInv
  <2> QED BY <2>1, Shapes DEF NilInv, FactsHold, FactsStay
<1>2. TypesAreHonest' /\ TiesHold'
  BY DEF NilInv, TypesAreHonest, TiesHold, Top, BindsTo
<1>3. \A x \in Names : scopes'[Top].vars[x] # "error"
  BY <1>1 DEF NilTypeOK
<1>4. /\ companions' \in [Errors -> Names \cup {"none"}] /\ tied' \subseteq Errors \X Names \X (1..Top)
      /\ scopes' \in Seq(Tables) /\ Len(scopes') = Top /\ env' \in Seq(Stores)
  BY <1>1 DEF NilTypeOK, Top
<1> QED BY <1>1, <1>2, <1>3, <1>4, Statement

\* The checker lets through a dereference of what it takes for a pointer.
LEMMA UseStep ==
    ASSUME NilInv, NEW x \in Names, Use(x)
    PROVE  NilInv'
<1>1. Runs /\ Bound(x) /\ TypeOf(x) # "nullable" /\ NilTypeOK /\ TypesAreHonest /\ FactsHold /\ Here
  BY DEF Use, NilInv, Runs
<1>2. env[Home(x)][x] # "nil"
  BY <1>1, VariableFacts
<1> QED BY <1>1, <1>2, StillStep DEF Use

\* The run goes on where the assertion holds.
LEMMA NilAssertStep ==
    ASSUME NilInv, NEW x \in Names, NilAssert(x), env[Home(x)][x] # "nil"
    PROVE  NilInv'
<1>1. /\ Runs /\ Bound(x) /\ PlainRest /\ UNCHANGED <<env, tied>>
      /\ scopes' = Marked(x, "nonnull")
  BY DEF NilAssert, Marked
<1>2. /\ NilTypeOK /\ TypesAreHonest /\ FactsHold /\ Here /\ Top \in Nat \ {0} /\ Top \in 1..Top /\ Len(env) = Top
      /\ FactsTo(scopes, env, Top) /\ StayTo(scopes, Top) /\ x \in All /\ DOMAIN env = 1..Top /\ DOMAIN scopes = 1..Top
  <2>1. Len(env) = Top
    BY <1>1 DEF Runs, Here, Top
  <2> QED BY <1>1, <2>1, Shapes DEF NilInv, Runs, FactsHold, FactsStay, All
<1>3. /\ scopes' \in Seq(Tables) /\ Len(scopes') = Top
      /\ \A j \in 1..Top - 1 : scopes'[j] = scopes[j]
      /\ \A j \in 1..Top : scopes'[j].vars = scopes[j].vars
      /\ scopes'[Top].nil[x] = "nonnull" /\ \A y \in All \ {x} : scopes'[Top].nil[y] = scopes[Top].nil[y]
  <2>1. "nonnull" \in States
    BY DEF States
  <2> QED BY <1>1, <1>2, <2>1, EntryUpdate
<1>4. \A q \in 1..Top : \A k : BindsTo(scopes', x, k, q) <=> BindsTo(scopes, x, k, q)
  <2>1. \A j \in 1..Top : scopes'[j].vars[x] = scopes[j].vars[x] /\ Top \in Nat
    BY <1>2, <1>3
  <2> QED BY <2>1, SameBinds
<1>5. \A q \in 1..Top - 1 : SureTo(scopes', x, q) <=> SureTo(scopes, x, q)
  <2>1. Top - 1 \in Nat
    BY <1>2
  <2> QED BY <1>3, <2>1, SamePrefix
<1>6. SureTo(scopes', x, Top)
  BY <1>2, <1>3, LastScope
<1>7. ASSUME NEW k \in 1..Top
      PROVE  /\ scopes'[k].vars[x] = "pointer" => env'[k][x] # "nil"
             /\ \A p \in k..Top : BindsTo(scopes', x, k, p) /\ SureTo(scopes', x, p) => env'[k][x] # "nil"
  <2>1. scopes'[k].vars[x] = "pointer" => env'[k][x] # "nil"
    BY <1>1, <1>2, <1>3 DEF TypesAreHonest
  <2>2. ASSUME NEW p \in k..Top, BindsTo(scopes', x, k, p), SureTo(scopes', x, p) PROVE env'[k][x] # "nil"
    <3>1. p \in 1..Top /\ BindsTo(scopes, x, k, p) /\ k \in 1..p
      <4>1. p \in 1..Top /\ k \in 1..p
        BY <1>2
      <4> QED BY <1>4, <2>2, <4>1
    <3>2. CASE p # Top
      <4>1. p \in 1..Top - 1
        BY <1>2, <3>1, <3>2
      <4> QED BY <1>1, <1>2, <1>5, <2>2, <3>1, <4>1 DEF FactsTo
    <3>3. CASE p = Top
      <4>1. k = Home(x)
        BY <1>2, <3>1, <3>3, HomeFacts
      <4> QED BY <1>1, <4>1
    <3> QED BY <3>2, <3>3
  <2> QED BY <2>1, <2>2
<1> DEFINE X == {x}
<1>8. X \in SUBSET All /\ \A y \in X : y = x
  BY <1>2
<1>9. /\ \A y \in All \ X : scopes'[Top].vars[y] = scopes[Top].vars[y] /\ scopes'[Top].nil[y] = scopes[Top].nil[y]
      /\ \A k \in 1..Top : \A y \in All \ X : env'[k][y] = env[k][y]
      /\ \A y \in X \cap Names : scopes'[Top].vars[y] # "error"
      /\ Plain /\ companions' \in [Errors -> Names \cup {"none"}] /\ crashed' = FALSE
  BY <1>1, <1>2, <1>3, <1>8 DEF PlainRest, NilInv, NilTypeOK, NilSafe
<1>10. \A t \in tied' : t \in tied /\ env' = env /\ \A j \in 1..Top : \A y \in All : scopes'[j].vars[y] = scopes[j].vars[y]
  BY <1>1, <1>3
<1> HIDE DEF X
<1>11. \A y \in X \cap Names : \A k \in 1..Top :
           /\ scopes'[k].vars[y] = "pointer" => env'[k][y] # "nil"
           /\ \A p \in k..Top : BindsTo(scopes', y, k, p) /\ SureTo(scopes', y, p) => env'[k][y] # "nil"
           /\ \A p \in k..Top - 1 :
                BindsTo(scopes', y, k, Top) /\ scopes'[k].vars[y] = "nullable" /\ SureTo(scopes', y, p)
                    => SureTo(scopes', y, Top)
  BY <1>6, <1>7, <1>8
<1>12. env' \in Seq(Stores) /\ Len(env') = Top
  BY <1>1, <1>2 DEF NilTypeOK
<1> QED BY <1>1, <1>3, <1>8, <1>9, <1>10, <1>11, <1>12, StatementOn

\* A name and an error declared by one statement, and their values.
LEMMA Declared ==
    ASSUME NilTypeOK, NEW x \in All, NEW e \in All, x # e,
           scopes' = [scopes EXCEPT ![Top].vars[x] = "nullable", ![Top].vars[e] = "error"]
    PROVE  /\ scopes' \in Seq(Tables) /\ Len(scopes') = Top
           /\ \A j \in 1..Top - 1 : scopes'[j] = scopes[j]
           /\ \A j \in 1..Top : scopes'[j].nil = scopes[j].nil
           /\ scopes'[Top].vars[x] = "nullable" /\ scopes'[Top].vars[e] = "error"
           /\ \A y \in All \ {x, e} : scopes'[Top].vars[y] = scopes[Top].vars[y]
<1> DEFINE s == scopes[Top]
           f == [s.vars EXCEPT ![x] = "nullable"]
           g == [f EXCEPT ![e] = "error"]
           b == [vars |-> f, nil |-> s.nil]
           c == [vars |-> g, nil |-> s.nil]
           m == [scopes EXCEPT ![Top] = b]
           tt == [scopes EXCEPT ![Top] = c]
<1>1. scopes \in Seq(Tables) /\ Len(scopes) = Top /\ Top \in 1..Top /\ Top \in Nat /\ DOMAIN scopes = 1..Top
      /\ scopes[Top] \in Tables
  <2>1. Top \in Nat \ {0}
    BY Shapes
  <2>2. Top \in 1..Top
    BY <2>1
  <2> QED BY <2>1, <2>2, Shapes DEF NilTypeOK, Top
<1>2. s = [vars |-> s.vars, nil |-> s.nil] /\ s.vars \in [All -> Types] /\ s.nil \in [All -> States]
  BY <1>1 DEF Tables
<1>3. /\ g \in [All -> Types] /\ g[x] = "nullable" /\ g[e] = "error" /\ \A y \in All \ {x, e} : g[y] = s.vars[y]
  <2>1. f \in [All -> Types] /\ f[x] = "nullable" /\ \A y \in All \ {x} : f[y] = s.vars[y]
    BY <1>2 DEF Types
  <2> HIDE DEF f
  <2> QED BY <2>1 DEF Types
<1>4. c \in Tables /\ c.vars = g /\ c.nil = s.nil
  <2> HIDE DEF g
  <2> QED BY <1>2, <1>3 DEF Tables
<1>5. scopes' = tt
  <2>1. [s EXCEPT !.vars[x] = "nullable"] = b
    <3>1. [[vars |-> s.vars, nil |-> s.nil] EXCEPT !.vars[x] = "nullable"] = b
      OBVIOUS
    <3> HIDE DEF s
    <3> QED BY <1>2, <3>1
  <2>2. [scopes EXCEPT ![Top].vars[x] = "nullable"] = m
    BY <2>1
  <2>3. m[Top] = b /\ [b EXCEPT !.vars[e] = "error"] = c
    <3>1. m[Top] = b
      BY <1>1
    <3>2. [b EXCEPT !.vars[e] = "error"] = c
      <4> HIDE DEF f
      <4> QED OBVIOUS
    <3> QED BY <3>1, <3>2
  <2>4. scopes' = [m EXCEPT ![Top].vars[e] = "error"]
    BY <2>2
  <2>5. [m EXCEPT ![Top].vars[e] = "error"] = [m EXCEPT ![Top] = c]
    BY <2>3
  <2> HIDE DEF b, c
  <2>6. [m EXCEPT ![Top] = c] = tt
    BY <1>1
  <2> QED BY <2>4, <2>5, <2>6
<1>6. tt \in Seq(Tables) /\ Len(tt) = Top /\ tt[Top] = c /\ \A j \in 1..Top - 1 : tt[j] = scopes[j]
  <2> HIDE DEF c
  <2> QED BY <1>1, <1>4
<1>7. \A j \in 1..Top : tt[j].nil = scopes[j].nil
  <2> HIDE DEF c, tt
  <2>1. 1..Top = (1..Top - 1) \cup {Top}
    BY <1>1, UpTo
  <2> QED BY <1>4, <1>6, <2>1
<1> HIDE DEF c, tt, g
<1>8. scopes'[Top].vars = g
  BY <1>4, <1>5, <1>6
<1> HIDE DEF s
<1>9. g[x] = "nullable" /\ g[e] = "error" /\ \A y \in All \ {x, e} : g[y] = scopes[Top].vars[y]
  BY <1>3 DEF s
<1>10. /\ scopes' \in Seq(Tables) /\ Len(scopes') = Top
       /\ \A j \in 1..Top - 1 : scopes'[j] = scopes[j]
       /\ \A j \in 1..Top : scopes'[j].nil = scopes[j].nil
  BY <1>5, <1>6, <1>7
<1> QED BY <1>8, <1>9, <1>10

BothStored(x, r, e, s) == [env EXCEPT ![Top][x] = r, ![Top][e] = s]

LEMMA Returned ==
    ASSUME NilTypeOK, Here, NEW x \in All, NEW e \in All, x # e, NEW r \in {"nil", "object"}, NEW s \in {"nil", "object"},
           env' = BothStored(x, r, e, s)
    PROVE  /\ env' \in Seq(Stores) /\ Len(env') = Top /\ env'[Top][x] = r /\ env'[Top][e] = s
           /\ \A j \in 1..Top : \A y \in All : j # Top \/ y \notin {x, e} => env'[j][y] = env[j][y]
<1> DEFINE f == [env[Top] EXCEPT ![x] = r]
           g == [f EXCEPT ![e] = s]
           m == [env EXCEPT ![Top] = f]
           tt == [env EXCEPT ![Top] = g]
<1>1. env \in Seq(Stores) /\ Len(env) = Top /\ Top \in 1..Top /\ env[Top] \in [All -> Values] /\ DOMAIN env = 1..Top
  <2>1. Len(env) = Top /\ Top \in Nat \ {0}
    BY Shapes DEF Here, Top
  <2>2. Top \in 1..Top
    BY <2>1
  <2> QED BY <2>1, <2>2, Shapes DEF NilTypeOK, Stores
<1>2. g \in Stores /\ g[x] = r /\ g[e] = s /\ \A y \in All \ {x, e} : g[y] = env[Top][y]
  <2>1. f \in [All -> Values] /\ f[x] = r /\ \A y \in All \ {x} : f[y] = env[Top][y]
    BY <1>1 DEF Values
  <2> HIDE DEF f
  <2> QED BY <2>1 DEF Stores, Values
<1>3. env' = tt
  <2>1. m[Top] = f /\ env' = [m EXCEPT ![Top][e] = s]
    BY <1>1 DEF BothStored
  <2> HIDE DEF f
  <2>2. [m EXCEPT ![Top][e] = s] = [m EXCEPT ![Top] = g]
    BY <2>1
  <2> HIDE DEF g
  <2>3. [m EXCEPT ![Top] = g] = tt
    BY <1>1
  <2> QED BY <2>1, <2>2, <2>3
<1>4. /\ tt \in Seq(Stores) /\ Len(tt) = Top
      /\ tt[Top] = g /\ \A j \in 1..Top : j # Top => tt[j] = env[j]
  <2> HIDE DEF g
  <2> QED BY <1>1, <1>2
<1> HIDE DEF tt, g
<1> QED BY <1>2, <1>3, <1>4

\* A pair of values: neither is nil where the checker takes the target for
\* non-nil, since a literal nil is kept out by the pair trap.
LEMMA MultiAssignStep ==
    ASSUME NilInv, Traps = {}, NEW P \in SUBSET Names, NEW v \in [P -> Exprs], MultiAssign(v)
    PROVE  NilInv'
<1>1. /\ Runs /\ PlainRest /\ tied' = Untie(P) /\ UNCHANGED scopes
      /\ \A x \in P : Bound(x) /\ Known(v[x]) /\ Fits(TypeOf(x), v[x])
  BY DEF MultiAssign, Allowed
<1>2. PICK r \in [P -> {"nil", "object"}] :
         /\ \A x \in P : r[x] \in Results(v[x])
         /\ env' = [k \in DOMAIN env |-> [n \in All |->
                       IF n \in P /\ Home(n) = k THEN r[n] ELSE env[k][n]]]
  BY DEF MultiAssign
<1>3. /\ NilTypeOK /\ TypesAreHonest /\ FactsHold /\ Here /\ Top \in Nat \ {0} /\ Top \in 1..Top /\ Len(env) = Top
      /\ StayTo(scopes, Top) /\ DOMAIN env = 1..Top /\ DOMAIN scopes = 1..Top
      /\ \A k \in 1..Top : env[k] \in [All -> Values]
  <2>1. Len(env) = Top
    BY <1>1 DEF Runs, Here, Top
  <2> QED BY <1>1, <2>1, Shapes DEF NilInv, Runs, FactsStay, Stores
<1>4. /\ \A k \in 1..Top : \A y \in All \ P : env'[k][y] = env[k][y]
      /\ \A x \in P : Home(x) \in 1..Top => env'[Home(x)][x] = r[x]
      /\ \A x \in P : \A k \in 1..Top : k # Home(x) => env'[k][x] = env[k][x]
  BY <1>2, <1>3 DEF All
<1>5. env' \in Seq(Stores) /\ Len(env') = Top
  <2>1. ASSUME NEW k \in 1..Top PROVE [n \in All |-> IF n \in P /\ Home(n) = k THEN r[n] ELSE env[k][n]] \in Stores
    <3>1. \A n \in All : (IF n \in P /\ Home(n) = k THEN r[n] ELSE env[k][n]) \in Values
      BY <1>3 DEF Values
    <3> QED BY <3>1 DEF Stores
  <2> DEFINE Row(k) == [n \in All |-> IF n \in P /\ Home(n) = k THEN r[n] ELSE env[k][n]]
  <2>2. \A k \in 1..Top : Row(k) \in Stores
    BY <2>1
  <2>3. env' = [k \in 1..Top |-> Row(k)]
    BY <1>2, <1>3
  <2> HIDE DEF Row
  <2> QED BY <1>3, <2>2, <2>3
<1>6. ASSUME NEW y \in P, NEW k \in 1..Top
      PROVE  /\ scopes[k].vars[y] = "pointer" => env'[k][y] # "nil"
             /\ \A p \in k..Top : BindsTo(scopes, y, k, p) /\ SureTo(scopes, y, p) => env'[k][y] # "nil"
             /\ \A p \in k..Top - 1 :
                  BindsTo(scopes, y, k, Top) /\ scopes[k].vars[y] = "nullable" /\ SureTo(scopes, y, p)
                      => SureTo(scopes, y, Top)
  <2>1. y \in Names /\ v[y] \in Exprs /\ Bound(y) /\ r[y] \in Results(v[y])
    BY <1>1, <1>2
  <2>2. TypeOf(y) = "pointer" => r[y] # "nil"
    BY <1>1, <2>1, AssignedValue
  <2>3. Home(y) \in 1..Top
    BY <1>3, <2>1, VariableFacts
  <2>4. env'[Home(y)][y] = r[y] /\ \A j \in 1..Top : j # Home(y) => env'[j][y] = env[j][y]
    BY <1>4, <2>3
  <2>5. /\ scopes[k].vars[y] = "pointer" => env'[k][y] # "nil"
        /\ \A p \in k..Top : BindsTo(scopes, y, k, p) /\ SureTo(scopes, y, p) => env'[k][y] # "nil"
    BY <1>1, <2>1, <2>2, <2>4, Overwritten
  <2>6. \A p \in k..Top - 1 : p \in 1..Top /\ k \in 1..p
    BY <1>3
  <2> QED BY <1>3, <2>1, <2>5, <2>6 DEF StayTo
<1>7. /\ P \in SUBSET All
      /\ \A y \in All \ P : scopes'[Top].vars[y] = scopes[Top].vars[y] /\ scopes'[Top].nil[y] = scopes[Top].nil[y]
      /\ \A y \in P \cap Names : scopes'[Top].vars[y] # "error"
      /\ Plain /\ companions' \in [Errors -> Names \cup {"none"}] /\ crashed' = FALSE
      /\ scopes' \in Seq(Tables) /\ Len(scopes') = Top
      /\ \A j \in 1..Top - 1 : scopes'[j] = scopes[j]
  BY <1>1, <1>3 DEF PlainRest, NilInv, NilTypeOK, NilSafe, All, Top
<1>8. \A y \in P \cap Names : \A k \in 1..Top :
           /\ scopes'[k].vars[y] = "pointer" => env'[k][y] # "nil"
           /\ \A p \in k..Top : BindsTo(scopes', y, k, p) /\ SureTo(scopes', y, p) => env'[k][y] # "nil"
           /\ \A p \in k..Top - 1 :
                BindsTo(scopes', y, k, Top) /\ scopes'[k].vars[y] = "nullable" /\ SureTo(scopes', y, p)
                    => SureTo(scopes', y, Top)
  BY <1>1, <1>6
<1>9. \A t \in tied' : t \in Untie(P)
  BY <1>1
<1> QED BY <1>1, <1>4, <1>5, <1>7, <1>8, <1>9, StatementOn

\* A call returns an error and a pointer, which is there if the error is not.
LEMMA MultiDeclStep ==
    ASSUME NilInv, Traps = {}, NEW x \in Names, NEW e \in Errors, MultiDecl(x, e)
    PROVE  NilInv'
<1>1. /\ Runs /\ ~ NonNull(scopes, x)
      /\ scopes' = [scopes EXCEPT ![Top].vars[x] = "nullable", ![Top].vars[e] = "error"]
      /\ companions' = [companions EXCEPT ![e] = x]
      /\ tied' = Untie({x, e}) \cup {<<e, x, Top>>}
      /\ Plain /\ UNCHANGED crashed
  BY DEF MultiDecl, Allowed
<1>2. PICK r \in {"nil", "object"}, s \in {"nil", "object"} :
         /\ s = "nil" => r = "object"
         /\ env' = [env EXCEPT ![Top][x] = r, ![Top][e] = s]
  BY DEF MultiDecl, Results
<1>3. /\ NilTypeOK /\ TypesAreHonest /\ FactsHold /\ Here /\ Top \in Nat \ {0} /\ Top \in 1..Top /\ Len(env) = Top
      /\ FactsTo(scopes, env, Top) /\ DOMAIN env = 1..Top /\ DOMAIN scopes = 1..Top
      /\ x \in All /\ e \in All /\ x # e /\ e \notin Names
  <2>1. Len(env) = Top
    BY <1>1 DEF Runs, Here, Top
  <2> QED BY <1>1, <2>1, NamesAssumption, Shapes DEF NilInv, Runs, FactsHold, All
<1>4. /\ scopes' \in Seq(Tables) /\ Len(scopes') = Top
      /\ \A j \in 1..Top - 1 : scopes'[j] = scopes[j]
      /\ \A j \in 1..Top : scopes'[j].nil = scopes[j].nil
      /\ scopes'[Top].vars[x] = "nullable" /\ scopes'[Top].vars[e] = "error"
      /\ \A y \in All \ {x, e} : scopes'[Top].vars[y] = scopes[Top].vars[y]
  BY <1>1, <1>3, Declared
<1>5. /\ env' \in Seq(Stores) /\ Len(env') = Top /\ env'[Top][x] = r /\ env'[Top][e] = s
      /\ \A j \in 1..Top : \A y \in All : j # Top \/ y \notin {x, e} => env'[j][y] = env[j][y]
  <2>1. env' = BothStored(x, r, e, s)
    BY <1>2 DEF BothStored
  <2> QED BY <1>3, <2>1, Returned
<1>6. \A k : BindsTo(scopes', x, k, Top) <=> k = Top
  BY <1>3, <1>4, LastScope
<1>7. BindsTo(scopes', e, Top, Top)
  BY <1>3, <1>4, LastScope
<1>8. ~ SureTo(scopes', x, Top)
  <2>1. ~ SureTo(scopes, x, Top)
    BY <1>1, <1>3, LookedUp DEF Top
  <2> QED BY <1>3, <1>4, <2>1 DEF SureTo
<1>9. ASSUME NEW k \in 1..Top
      PROVE  /\ scopes'[k].vars[x] = "pointer" => env'[k][x] # "nil"
             /\ \A p \in k..Top : BindsTo(scopes', x, k, p) /\ SureTo(scopes', x, p) => env'[k][x] # "nil"
             /\ \A p \in k..Top - 1 :
                  BindsTo(scopes', x, k, Top) /\ scopes'[k].vars[x] = "nullable" /\ SureTo(scopes', x, p)
                      => SureTo(scopes', x, Top)
  <2>1. CASE k = Top
    <3>1. \A p \in k..Top - 1 : FALSE
      BY <1>3, <2>1
    <3>2. \A p \in k..Top : p = Top
      BY <1>3, <2>1
    <3> QED BY <1>4, <1>8, <2>1, <3>1, <3>2
  <2>2. CASE k # Top
    <3>1. k \in 1..Top - 1
      BY <1>3, <2>2
    <3>2. scopes'[k] = scopes[k] /\ env'[k][x] = env[k][x]
      BY <1>3, <1>4, <1>5, <2>2, <3>1
    <3>3. ASSUME NEW p \in k..Top, BindsTo(scopes', x, k, p), SureTo(scopes', x, p) PROVE env'[k][x] # "nil"
      <4>1. p # Top /\ p \in 1..Top - 1 /\ k \in 1..p /\ Top - 1 \in Nat
        BY <1>3, <1>8, <3>3
      <4>2. BindsTo(scopes, x, k, p) /\ SureTo(scopes, x, p)
        BY <1>4, <3>3, <4>1, SamePrefix
      <4> QED BY <1>3, <3>2, <4>1, <4>2 DEF FactsTo
    <3> QED BY <1>3, <1>6, <2>2, <3>1, <3>2, <3>3 DEF TypesAreHonest
  <2> QED BY <2>1, <2>2
<1> DEFINE X == {x, e}
<1>10. X \in SUBSET All /\ \A y \in X \cap Names : y = x
  BY <1>3
<1>11. /\ \A y \in All \ X : scopes'[Top].vars[y] = scopes[Top].vars[y] /\ scopes'[Top].nil[y] = scopes[Top].nil[y]
       /\ \A k \in 1..Top : \A y \in All \ X : env'[k][y] = env[k][y]
       /\ \A t \in tied' : t \in Untie(X) \/ t = <<e, x, Top>>
       /\ scopes'[Top].vars[x] # "error"
  <2>1. ASSUME NEW y \in All \ X, NEW k \in 1..Top PROVE env'[k][y] = env[k][y]
    BY <1>5
  <2>2. ASSUME NEW y \in All \ X PROVE scopes'[Top].vars[y] = scopes[Top].vars[y] /\ scopes'[Top].nil[y] = scopes[Top].nil[y]
    BY <1>3, <1>4
  <2>3. \A t \in tied' : t \in Untie(X) \/ t = <<e, x, Top>>
    BY <1>1
  <2>4. scopes'[Top].vars[x] # "error"
    BY <1>4
  <2> QED BY <2>1, <2>2, <2>3, <2>4
<1> HIDE DEF X
<1>12. \A y \in X \cap Names : \A k \in 1..Top :
           /\ scopes'[k].vars[y] = "pointer" => env'[k][y] # "nil"
           /\ \A p \in k..Top : BindsTo(scopes', y, k, p) /\ SureTo(scopes', y, p) => env'[k][y] # "nil"
           /\ \A p \in k..Top - 1 :
                BindsTo(scopes', y, k, Top) /\ scopes'[k].vars[y] = "nullable" /\ SureTo(scopes', y, p)
                    => SureTo(scopes', y, Top)
  BY <1>9, <1>10
<1>13. Plain /\ companions' \in [Errors -> Names \cup {"none"}] /\ crashed' = FALSE
  BY <1>1 DEF NilInv, NilTypeOK, NilSafe
<1>14. \A y \in X \cap Names : scopes'[Top].vars[y] # "error"
  BY <1>10, <1>11
<1>15. \A t \in tied' :
           \/ t \in Untie(X)
           \/ /\ t \in Errors \X Names \X {Top}
              /\ BindsTo(scopes', t[1], Top, Top) /\ BindsTo(scopes', t[2], Top, Top)
              /\ env'[Top][t[1]] = "nil" => env'[Top][t[2]] # "nil"
  <2>1. BindsTo(scopes', x, Top, Top)
    BY <1>6
  <2>2. env'[Top][e] = "nil" => env'[Top][x] # "nil"
    BY <1>2, <1>5
  <2>3. ASSUME NEW t, t = <<e, x, Top>>
        PROVE  t \in Errors \X Names \X {Top} /\ t[1] = e /\ t[2] = x
    BY <2>3
  <2> SUFFICES ASSUME NEW t \in tied', ~ (t \in Untie(X))
               PROVE  /\ t \in Errors \X Names \X {Top}
                      /\ BindsTo(scopes', t[1], Top, Top) /\ BindsTo(scopes', t[2], Top, Top)
                      /\ env'[Top][t[1]] = "nil" => env'[Top][t[2]] # "nil"
    OBVIOUS
  <2>4. t \in Errors \X Names \X {Top} /\ t[1] = e /\ t[2] = x
    BY <1>11, <2>3
  <2> QED BY <1>7, <2>1, <2>2, <2>4
<1>16. /\ scopes' \in Seq(Tables) /\ Len(scopes') = Top
       /\ \A j \in 1..Top - 1 : scopes'[j] = scopes[j]
       /\ env' \in Seq(Stores) /\ Len(env') = Top /\ NilInv /\ Runs
  BY <1>1, <1>4, <1>5
<1> QED BY <1>10, <1>11, <1>12, <1>13, <1>14, <1>15, <1>16, StatementOn

-----------------------------------------------------------------------------
(* The ways out of a block.                                                *)

\* The first n of a sequence.
LEMMA FirstOf ==
    ASSUME NEW S, NEW s \in Seq(S), NEW n \in 0..Len(s)
    PROVE  /\ SubSeq(s, 1, n) \in Seq(S) /\ Len(SubSeq(s, 1, n)) = n
           /\ \A j \in 1..n : SubSeq(s, 1, n)[j] = s[j]
  OBVIOUS

\* Two scopes a block.
LEMMA Halves ==
    ASSUME NEW l \in Nat \ {0}, NEW t, t = 2 * l, NEW d \in 0..l - 1, NEW n, n = 2 * d
    PROVE  /\ n \in Nat /\ n <= t - 2 /\ t - 1 \in Nat /\ t \in Nat \ {0} /\ d \in Nat /\ d \in 0..l
           /\ \A k \in 1..n : k \in 1..t - 1 /\ k \in 1..t
           /\ \A j \in 2..l : /\ j \in 1..l /\ 2 * j - 1 \in 1..t - 1 /\ t # 2 * j - 2 /\ t >= 2 * j
                              /\ n = 2 * j - 2 => j = d + 1 /\ d # 0
                              /\ n >= 2 * j => \A i \in 1..t : i <= 2 * j - 2 => i \in 1..n
  OBVIOUS

\* The run leaves the d-th block for a loop, or returns.
LeavesTo(d, e) ==
    /\ d \in 0..Level - 1 /\ (d = 0 \/ blocks[d + 1].kind = "for")
    /\ e \in BOOLEAN /\ blocks' = [blocks EXCEPT ![Level].ends = e]
    /\ env' = SubSeq(env, 1, 2 * d) /\ UNCHANGED <<companions, crashed, tied>>
    /\ scopes' \in Seq(Tables) /\ Len(scopes') = Top
    /\ \A j \in 1..Top - 1 : scopes'[j] = scopes[j]
    /\ \A j \in 1..Top : scopes'[j].vars = scopes[j].vars

\* Nothing that the invariant says of a branch or an arm is about a place that
\* the run then comes to.
LEMMA Leaving ==
    ASSUME NilInv, Runs, NEW d, NEW e, LeavesTo(d, e)
    PROVE  NilInv'
<1> DEFINE n == 2 * d
<1>1. /\ Level \in Nat \ {0} /\ Top = 2 * Level
      /\ DOMAIN blocks = 1..Level /\ \A j \in 1..Level : blocks[j] \in Blocks
      /\ DOMAIN scopes = 1..Top /\ DOMAIN env = 1..Top /\ Len(env) = Top
      /\ FactsTo(scopes, env, Top) /\ StayTo(scopes, Top)
      /\ NilTypeOK /\ Here /\ d \in 0..Level - 1
  <2>1. Len(env) = Top
    BY DEF Runs, Here, Top
  <2>2. d \in 0..Level - 1
    BY DEF LeavesTo
  <2> QED BY <2>1, <2>2, Shapes DEF NilInv, Runs, FactsHold, FactsStay
<1>2. /\ blocks' \in Seq(Blocks) /\ Len(blocks') = Level
      /\ \A j \in 1..Level : j # Level => blocks'[j].ends = blocks[j].ends
      /\ \A j \in 1..Level : SameBut(blocks[j], blocks'[j])
  BY <1>1, LastBlockEnds DEF LeavesTo
<1>3. \A j \in 1..Level : /\ blocks'[j].kind = blocks[j].kind /\ blocks'[j].checks = blocks[j].checks
                          /\ blocks'[j].arms = blocks[j].arms /\ blocks'[j].at = blocks[j].at
                          /\ blocks'[j].target = blocks[j].target
  BY <1>2 DEF SameBut
<1>4. /\ scopes' \in Seq(Tables) /\ Len(scopes') = Top /\ DOMAIN scopes' = 1..Top
      /\ \A j \in 1..Top - 1 : scopes'[j] = scopes[j]
      /\ \A j \in 1..Top : scopes'[j].vars = scopes[j].vars
      /\ Level' = Level /\ Top' = Top /\ UNCHANGED <<companions, crashed, tied>>
      /\ env' = SubSeq(env, 1, n)
  BY <1>2 DEF Level, Top, LeavesTo
<1>5. /\ n \in Nat /\ n <= Top - 2 /\ Top - 1 \in Nat /\ Top \in Nat \ {0} /\ d \in Nat /\ d \in 0..Level
      /\ \A k \in 1..n : k \in 1..Top - 1 /\ k \in 1..Top
      /\ \A j \in 2..Level : /\ j \in 1..Level /\ 2 * j - 1 \in 1..Top - 1 /\ Top # 2 * j - 2 /\ Top >= 2 * j
                             /\ n = 2 * j - 2 => j = d + 1 /\ d # 0
                             /\ n >= 2 * j => \A i \in 1..Top : i <= 2 * j - 2 => i \in 1..n
  BY <1>1, Halves
<1>6. n = 2 * d
  OBVIOUS
<1> HIDE DEF n
<1>7. /\ env' \in Seq(Stores) /\ Len(env') = n /\ DOMAIN env' = 1..n
      /\ \A k \in 1..n : env'[k] = env[k]
  <2>1. env \in Seq(Stores)
    BY <1>1 DEF NilTypeOK
  <2>2. n \in 0..Len(env)
    BY <1>1, <1>5
  <2>3. /\ env' \in Seq(Stores) /\ Len(env') = n
        /\ \A k \in 1..n : env'[k] = env[k]
    BY <1>4, <2>1, <2>2, FirstOf
  <2> QED BY <2>3
<1>8. ASSUME NEW x, NEW q \in 1..n
      PROVE  /\ \A k : BindsTo(scopes', x, k, q) <=> BindsTo(scopes, x, k, q)
             /\ SureTo(scopes', x, q) <=> SureTo(scopes, x, q)
  <2>1. q \in 1..Top - 1
    BY <1>5
  <2> QED BY <1>4, <1>5, <2>1, SamePrefix
<1>9. tied \subseteq Errors \X Names \X (1..Top)
  BY <1>1 DEF NilTypeOK, Top
<1>10. NilTypeOK'
  <2>1. \A k \in DOMAIN scopes' : \A x \in Names : scopes'[k].vars[x] # "error"
    BY <1>1, <1>4 DEF NilTypeOK
  <2>2. \E c \in 0..Len(blocks') : Len(env') = 2 * c
    BY <1>2, <1>5, <1>6, <1>7
  <2>3. Len(blocks') \in Nat \ {0} /\ Len(scopes') = 2 * Len(blocks')
    BY <1>1, <1>2, <1>4
  <2>4. companions' \in [Errors -> Names \cup {"none"}] /\ crashed' \in BOOLEAN
    BY <1>1, <1>4 DEF NilTypeOK
  <2> QED BY <1>2, <1>4, <1>7, <1>9, <2>1, <2>2, <2>3, <2>4 DEF NilTypeOK
<1>11. NilSafe' /\ TypesAreHonest'
  <2>1. \A k \in DOMAIN env' : k \in DOMAIN env /\ scopes'[k] = scopes[k] /\ env'[k] = env[k]
    BY <1>1, <1>4, <1>5, <1>7
  <2>2. NilSafe'
    BY <1>4 DEF NilInv, NilSafe
  <2>3. TypesAreHonest'
    BY <2>1 DEF NilInv, TypesAreHonest
  <2> QED BY <2>2, <2>3
<1>12. FactsHold'
  <2> SUFFICES ASSUME NEW p \in 1..n, NEW x \in Names, NEW k \in 1..p,
                      BindsTo(scopes', x, k, p), SureTo(scopes', x, p)
               PROVE  env'[k][x] # "nil"
    BY <1>7 DEF FactsHold, FactsTo
  <2>1. p \in 1..Top /\ k \in 1..n
    BY <1>5
  <2> QED BY <1>1, <1>7, <1>8, <2>1 DEF FactsTo
<1>13. FactsStay'
  <2> SUFFICES ASSUME NEW q \in 1..n, NEW p \in 1..q, NEW x \in Names, NEW k \in 1..p,
                      BindsTo(scopes', x, k, q), scopes'[k].vars[x] = "nullable", SureTo(scopes', x, p)
               PROVE  SureTo(scopes', x, q)
    BY <1>7 DEF FactsStay, StayTo
  <2>1. p \in 1..n /\ k \in 1..n
    BY <1>5
  <2>2. q \in 1..Top /\ k \in 1..Top /\ scopes[k].vars[x] = "nullable"
    BY <1>4, <1>5, <2>1
  <2> QED BY <1>1, <1>8, <2>1, <2>2 DEF StayTo
<1>14. TiesHold'
  <2> SUFFICES ASSUME NEW t \in tied
               PROVE  /\ BindsTo(scopes', t[1], t[3], Top) /\ BindsTo(scopes', t[2], t[3], Top)
                      /\ t[3] <= Len(env') /\ env'[t[3]][t[1]] = "nil" => env'[t[3]][t[2]] # "nil"
    BY <1>4 DEF TiesHold
  <2>1. t[1] \in All /\ t[2] \in All /\ t[3] \in 1..Top
    BY <1>9 DEF All
  <2>2. ASSUME NEW y \in All PROVE \A k : BindsTo(scopes', y, k, Top) <=> BindsTo(scopes, y, k, Top)
    <3>1. \A j \in 1..Top : scopes'[j].vars[y] = scopes[j].vars[y]
      BY <1>4
    <3>2. Top \in 1..Top /\ Top \in Nat
      BY <1>5
    <3> QED BY <3>1, <3>2, SameBinds
  <2>3. t[3] <= Len(env') => t[3] <= Len(env) /\ env'[t[3]] = env[t[3]]
    BY <1>1, <1>7, <2>1
  <2> QED BY <2>1, <2>2, <2>3 DEF NilInv, TiesHold
<1>15. BranchFacts'
  BY <1>3, <1>4, <1>5 DEF BranchFacts, NilInv
<1>16. ASSUME NEW j \in 2..Level, Passed(j)' PROVE blocks'[j].kind = "for"
  <2>1. Len(env') = 2 * j - 2
    BY <1>16 DEF Passed
  <2>2. j = d + 1 /\ d # 0 /\ j \in 1..Level
    BY <1>5, <1>7, <2>1
  <2> QED BY <1>3, <2>2 DEF LeavesTo
<1>17. SkippedThen' /\ TookThen'
  BY <1>4, <1>16 DEF SkippedThen, TookThen
<1>18. TookElse'
  <2> SUFFICES ASSUME NEW j \in 2..Level, blocks'[j].kind = "else", Len(env') >= 2 * j, NEW t \in tied,
                      t[3] <= 2 * j - 2, blocks'[j].checks[t[1]] = "ne"
               PROVE  env'[t[3]][t[1]] = "nil"
    BY <1>4 DEF TookElse, ErrorsNil
  <2>1. t[3] \in 1..Top
    BY <1>9
  <2>2. t[3] \in 1..n /\ Len(env) >= 2 * j
    BY <1>1, <1>5, <1>7, <2>1
  <2>3. blocks[j].kind = "else" /\ blocks[j].checks[t[1]] = "ne"
    BY <1>3, <1>5
  <2> QED BY <1>7, <2>2, <2>3 DEF NilInv, TookElse, ErrorsNil
<1>19. ArmsAgree'
  <2> SUFFICES ASSUME NEW j \in 2..Level, blocks'[j].kind = "arm"
               PROVE  blocks'[j].at \in 1..Len(blocks'[j].arms) /\ blocks'[j].target = "none"
    BY <1>4, <1>16 DEF ArmsAgree
  <2>1. j \in 1..Level /\ blocks[j].kind = "arm" /\ ~ (Len(env) = 2 * j - 2)
    BY <1>1, <1>3, <1>5
  <2> QED BY <1>3, <2>1 DEF NilInv, ArmsAgree, Passed
<1>20. EndsAgree'
  <2>1. ~ Here'
    BY <1>4, <1>5, <1>7 DEF Here
  <2>2. ASSUME NEW j \in 1..Level - 1 PROVE ~ blocks'[j].ends
    <3>1. j \in 1..Level /\ j # Level
      BY <1>1
    <3>2. ~ blocks[j].ends
      BY DEF NilInv, EndsAgree
    <3> QED BY <1>2, <3>1, <3>2
  <2> QED BY <1>3, <1>4, <2>1, <2>2 DEF NilInv, EndsAgree
<1> QED BY <1>10, <1>11, <1>12, <1>13, <1>14, <1>15, <1>17, <1>18, <1>19, <1>20 DEF NilInv

LEMMA ReturnStep ==
    ASSUME NilInv, Return
    PROVE  NilInv'
<1>1. /\ Runs /\ env' = SubSeq(env, 1, 2 * 0) /\ blocks' = [blocks EXCEPT ![Level].ends = TRUE]
      /\ UNCHANGED <<companions, crashed, tied, scopes>>
  BY DEF Return, Leave, Diverge
<1>2. 0 \in 0..Level - 1 /\ scopes \in Seq(Tables) /\ Len(scopes) = Top
  <2>1. Level \in Nat \ {0}
    BY Shapes DEF NilInv
  <2> QED BY <2>1 DEF NilInv, NilTypeOK, Top
<1>3. LeavesTo(0, TRUE)
  BY <1>1, <1>2 DEF LeavesTo
<1> QED BY <1>1, <1>3, Leaving

LEMMA BreakStep ==
    ASSUME NilInv, Traps = {}, Break
    PROVE  NilInv'
<1>1. /\ Runs /\ Breakable # {} /\ blocks[Innermost].kind # "arm"
      /\ env' = SubSeq(env, 1, 2 * (Innermost - 1)) /\ blocks' = [blocks EXCEPT ![Level].ends = TRUE]
      /\ UNCHANGED <<companions, crashed, tied, scopes>>
  BY DEF Break, Leave, Diverge, Allowed
<1>2. Innermost \in Breakable
  <2>1. Level \in Nat /\ Breakable \in SUBSET (1..Level)
    BY Shapes DEF NilInv, Breakable
  <2>2. \E d \in Breakable : \A c \in Breakable : c <= d
    BY <1>1, <2>1, LastPosition
  <2> QED BY <2>2 DEF Innermost
<1> DEFINE d == Innermost - 1
<1>3. d \in 0..Level - 1 /\ blocks[d + 1].kind = "for"
  <2>1. Innermost \in 1..Level /\ blocks[Innermost].kind = "for" /\ Level \in Nat
    BY <1>1, <1>2, Shapes DEF Breakable, NilInv
  <2> QED BY <2>1
<1>4. scopes \in Seq(Tables) /\ Len(scopes) = Top
  BY DEF NilInv, NilTypeOK, Top
<1>5. env' = SubSeq(env, 1, 2 * d)
  BY <1>1
<1> HIDE DEF d
<1>6. LeavesTo(d, TRUE)
  BY <1>1, <1>3, <1>4, <1>5 DEF LeavesTo
<1> QED BY <1>1, <1>6, Leaving

\* The run stops where the assertion does not hold.
LEMMA NilAssertStops ==
    ASSUME NilInv, NEW x \in Names, NilAssert(x), env[Home(x)][x] = "nil"
    PROVE  NilInv'
<1>1. /\ Runs /\ env' = SubSeq(env, 1, 2 * 0) /\ blocks' = [blocks EXCEPT ![Level].ends = FALSE]
      /\ UNCHANGED <<companions, crashed, tied>> /\ scopes' = Marked(x, "nonnull")
  BY DEF NilAssert, Leave, PlainRest, Plain, Marked
<1>2. 0 \in 0..Level - 1 /\ NilTypeOK /\ x \in All /\ "nonnull" \in States
  <2>1. Level \in Nat \ {0}
    BY Shapes DEF NilInv
  <2> QED BY <2>1 DEF NilInv, All, States
<1>3. /\ scopes' \in Seq(Tables) /\ Len(scopes') = Top
      /\ \A j \in 1..Top - 1 : scopes'[j] = scopes[j]
      /\ \A j \in 1..Top : scopes'[j].vars = scopes[j].vars
  BY <1>1, <1>2, EntryUpdate
<1>4. LeavesTo(0, FALSE)
  BY <1>1, <1>2, <1>3 DEF LeavesTo
<1> QED BY <1>1, <1>4, Leaving

\* The body goes on in a block that the run is not in.
LEMMA SkipStep ==
    ASSUME NilInv, NEW ends \in BOOLEAN, Skip(ends)
    PROVE  NilInv'
<1>1. /\ NilTypeOK /\ Level \in Nat \ {0} /\ ~ Here
      /\ UNCHANGED <<scopes, companions, env, crashed, tied>> /\ blocks' = [blocks EXCEPT ![Level].ends = ends]
  BY Shapes DEF Skip, runVars, NilInv
<1>2. /\ blocks' \in Seq(Blocks) /\ Len(blocks') = Level
      /\ \A j \in 1..Level : j # Level => blocks'[j].ends = blocks[j].ends
      /\ \A j \in 1..Level : SameBut(blocks[j], blocks'[j])
  BY <1>1, LastBlockEnds
<1>3. /\ Level' = Level /\ Top' = Top /\ Here' = Here
      /\ \A j : Passed(j)' = Passed(j)
  BY <1>1, <1>2 DEF Level, Top, Here, Passed
<1>4. \A j \in 1..Level : /\ blocks'[j].kind = blocks[j].kind /\ blocks'[j].checks = blocks[j].checks
                          /\ blocks'[j].joined = blocks[j].joined /\ blocks'[j].on = blocks[j].on
                          /\ blocks'[j].narrows = blocks[j].narrows /\ blocks'[j].arms = blocks[j].arms
                          /\ blocks'[j].at = blocks[j].at /\ blocks'[j].target = blocks[j].target
  BY <1>2 DEF SameBut
<1>5. \A j \in 2..Level : j \in 1..Level
  BY <1>1
<1>6. NilTypeOK'
  BY <1>1, <1>2 DEF NilTypeOK, Level
<1>7. NilSafe' /\ TypesAreHonest' /\ FactsHold' /\ FactsStay' /\ TiesHold'
  BY <1>1, <1>3 DEF NilInv, NilSafe, TypesAreHonest, FactsHold, FactsStay, TiesHold
<1>8. BranchFacts'
  BY <1>1, <1>3, <1>4, <1>5 DEF NilInv, BranchFacts
<1>9. \A j \in 2..Level : ErrorsNil(j) => ErrorsNil(j)'
  BY <1>1, <1>4, <1>5 DEF ErrorsNil
<1>10. SkippedThen' /\ TookElse'
  <2>1. SkippedThen'
    BY <1>1, <1>3, <1>4, <1>5, <1>9 DEF NilInv, SkippedThen
  <2>2. TookElse'
    BY <1>1, <1>3, <1>4, <1>5, <1>9 DEF NilInv, TookElse
  <2> QED BY <2>1, <2>2
<1>11. TookThen'
  BY <1>1, <1>3, <1>4, <1>5 DEF NilInv, TookThen
<1>12. ArmsAgree'
  BY <1>1, <1>3, <1>4, <1>5 DEF NilInv, ArmsAgree
<1>13. EndsAgree'
  <2>1. ASSUME NEW j \in 1..Level - 1 PROVE ~ blocks'[j].ends
    <3>1. j \in 1..Level /\ j # Level
      BY <1>1
    <3>2. ~ blocks[j].ends
      BY DEF NilInv, EndsAgree
    <3> QED BY <1>2, <3>1, <3>2
  <2> QED BY <1>1, <1>3, <1>4, <2>1 DEF NilInv, EndsAgree
<1> QED BY <1>6, <1>7, <1>8, <1>10, <1>11, <1>12, <1>13 DEF NilInv

LEMMA SkipCallStep ==
    ASSUME NilInv, NEW x \in Names, NEW e \in Errors, SkipCall(x, e)
    PROVE  NilInv'
<1>1. UNCHANGED <<scopes, blocks, env, crashed, tied>> /\ companions' = [companions EXCEPT ![e] = x]
  BY DEF SkipCall, runVars
<1>2. NilTypeOK'
  BY <1>1 DEF NilInv, NilTypeOK
<1>3. NilSafe' /\ TypesAreHonest' /\ FactsHold' /\ FactsStay' /\ TiesHold'
  BY <1>1 DEF NilInv, NilSafe, TypesAreHonest, FactsHold, FactsStay, TiesHold, Top
<1>4. BranchFacts' /\ SkippedThen' /\ TookThen' /\ TookElse'
  BY <1>1 DEF NilInv, BranchFacts, SkippedThen, TookThen, TookElse, ErrorsNil, Passed, Level
<1>5. ArmsAgree' /\ EndsAgree'
  BY <1>1 DEF NilInv, ArmsAgree, EndsAgree, Passed, Level, Here
<1> QED BY <1>2, <1>3, <1>4, <1>5 DEF NilInv

-----------------------------------------------------------------------------
(* The scopes of a block.                                                  *)

LEMMA NoFactsThere == NoFacts \in [All -> Types] /\ NoFacts \in [All -> States] /\ NoFacts \in [All -> Checks]
                      /\ Facts(NoFacts) \in Tables /\ \A x \in All : NoFacts[x] = "none"
  BY DEF NoFacts, Types, States, Checks, Facts, Tables

\* Two scopes on top of others, the second of them empty.
OnTop(base, head) == base \o <<head, Facts(NoFacts)>>

LEMMA OnTopShape ==
    ASSUME NEW base \in Seq(Tables), NEW head \in Tables
    PROVE  /\ OnTop(base, head) \in Seq(Tables) /\ Len(OnTop(base, head)) = Len(base) + 2
           /\ \A j \in 1..Len(base) : OnTop(base, head)[j] = base[j]
           /\ OnTop(base, head)[Len(base) + 1] = head /\ OnTop(base, head)[Len(base) + 2] = Facts(NoFacts)
<1> DEFINE g == Facts(NoFacts)
<1>1. g \in Tables
  BY NoFactsThere
<1>2. OnTop(base, head) = base \o <<head, g>>
  BY DEF OnTop
<1> HIDE DEF g
<1>3. /\ OnTop(base, head) \in Seq(Tables) /\ Len(OnTop(base, head)) = Len(base) + 2
      /\ \A j \in 1..Len(base) : OnTop(base, head)[j] = base[j]
      /\ OnTop(base, head)[Len(base) + 1] = head /\ OnTop(base, head)[Len(base) + 2] = g
  BY <1>1, <1>2
<1> QED BY <1>3 DEF g

LEMMA OnTopFacts ==
    ASSUME NEW base \in Seq(Tables), NEW head \in Tables, NEW n \in Nat, n = Len(base),
           NEW ss, ss = OnTop(base, head), NEW x \in All
    PROVE  /\ \A q \in 1..n : /\ \A k : BindsTo(ss, x, k, q) <=> BindsTo(base, x, k, q)
                              /\ SureTo(ss, x, q) <=> SureTo(base, x, q)
           /\ \A k : BindsTo(ss, x, k, n) <=> BindsTo(base, x, k, n)
           /\ SureTo(ss, x, n) <=> SureTo(base, x, n)
           /\ \A k : BindsTo(ss, x, k, n + 2) <=> BindsTo(ss, x, k, n + 1)
           /\ SureTo(ss, x, n + 2) <=> SureTo(ss, x, n + 1)
           /\ head.vars[x] = "none" => \A k : BindsTo(ss, x, k, n + 1) <=> BindsTo(base, x, k, n)
           /\ head.vars[x] # "none" => \A k : BindsTo(ss, x, k, n + 1) <=> k = n + 1
           /\ head.nil[x] = "none" => (SureTo(ss, x, n + 1) <=> SureTo(base, x, n))
           /\ head.nil[x] = "nonnull" => SureTo(ss, x, n + 1)
           /\ head.nil[x] = "nullable" => ~ SureTo(ss, x, n + 1)
<1>1. /\ \A j \in 1..n : ss[j] = base[j]
      /\ ss[n + 1] = head /\ ss[n + 2].vars[x] = "none" /\ ss[n + 2].nil[x] = "none"
  <2>1. /\ \A j \in 1..n : ss[j] = base[j]
        /\ ss[n + 1] = head /\ ss[n + 2] = Facts(NoFacts)
    BY OnTopShape
  <2>2. Facts(NoFacts).vars[x] = "none" /\ Facts(NoFacts).nil[x] = "none"
    BY NoFactsThere DEF Facts
  <2> QED BY <2>1, <2>2
<1>2. \A q \in 1..n : /\ \A k : BindsTo(ss, x, k, q) <=> BindsTo(base, x, k, q)
                      /\ SureTo(ss, x, q) <=> SureTo(base, x, q)
  BY <1>1, SamePrefix
<1>3. (\A k : BindsTo(ss, x, k, n) <=> BindsTo(base, x, k, n)) /\ (SureTo(ss, x, n) <=> SureTo(base, x, n))
  <2>1. CASE n = 0
    <3>1. 1..n = {}
      BY <2>1
    <3> QED BY <3>1 DEF BindsTo, SureTo
  <2>2. CASE n # 0
    <3>1. n \in 1..n
      BY <2>2
    <3> QED BY <1>2, <3>1
  <2> QED BY <2>1, <2>2
<1>4. /\ head.vars[x] = "none" => \A k : BindsTo(ss, x, k, n + 1) <=> BindsTo(ss, x, k, n)
      /\ head.vars[x] # "none" => \A k : BindsTo(ss, x, k, n + 1) <=> k = n + 1
      /\ head.nil[x] = "none" => (SureTo(ss, x, n + 1) <=> SureTo(ss, x, n))
      /\ head.nil[x] = "nonnull" => SureTo(ss, x, n + 1)
      /\ head.nil[x] \notin {"none", "nonnull"} => ~ SureTo(ss, x, n + 1)
  <2>1. ss[n + 1] = head
    BY <1>1
  <2> QED BY <2>1, OneMore
<1> DEFINE m == n + 1
<1>5. m \in Nat /\ m + 1 = n + 2
  OBVIOUS
<1>6. (\A k : BindsTo(ss, x, k, n + 2) <=> BindsTo(ss, x, k, m)) /\ (SureTo(ss, x, n + 2) <=> SureTo(ss, x, m))
  <2> HIDE DEF m
  <2>1. ss[m + 1].vars[x] = "none" /\ ss[m + 1].nil[x] = "none"
    BY <1>1, <1>5
  <2>2. (\A k : BindsTo(ss, x, k, m + 1) <=> BindsTo(ss, x, k, m)) /\ (SureTo(ss, x, m + 1) <=> SureTo(ss, x, m))
    BY <1>5, <2>1, OneMore
  <2> QED BY <1>5, <2>2
<1> QED BY <1>2, <1>3, <1>4, <1>6

\* What the head of a block says of x is true of the values en, and takes back
\* nothing that was known before it, which is base.
HeadIsTrue(base, head, en, n, x) ==
    \/ /\ head.vars[x] = "none"
       /\ head.nil[x] = "nonnull" => \A k \in 1..n : BindsTo(base, x, k, n) => en[k][x] # "nil"
       /\ head.nil[x] = "nullable" =>
            ~ \E k \in 1..n : BindsTo(base, x, k, n) /\ base[k].vars[x] = "nullable" /\ SureTo(base, x, n)
    \/ /\ head.vars[x] # "none" /\ head.nil[x] = "none"
       /\ SureTo(base, x, n) => en[n + 1][x] # "nil"

LEMMA BoundWithin ==
    ASSUME NEW ss, NEW x, NEW k, NEW n, BindsTo(ss, x, k, n)
    PROVE  k \in 1..n
  BY DEF BindsTo

LEMMA EnteredFacts ==
    ASSUME NEW base \in Seq(Tables), NEW head \in Tables, NEW n \in Nat \ {0}, n = Len(base),
           NEW ss, ss = OnTop(base, head), NEW en,
           FactsTo(base, en, n), StayTo(base, n),
           \A x \in Names : HeadIsTrue(base, head, en, n, x)
    PROVE  FactsTo(ss, en, n + 2) /\ StayTo(ss, n + 2)
<1>1. n \in 1..n /\ \A q \in 1..n + 2 : q \in 1..n \/ q = n + 1 \/ q = n + 2
  OBVIOUS
<1>2. ASSUME NEW x \in Names
      PROVE  /\ \A q \in 1..n : /\ \A k : BindsTo(ss, x, k, q) <=> BindsTo(base, x, k, q)
                                /\ SureTo(ss, x, q) <=> SureTo(base, x, q)
             /\ \A k : BindsTo(ss, x, k, n + 2) <=> BindsTo(ss, x, k, n + 1)
             /\ SureTo(ss, x, n + 2) <=> SureTo(ss, x, n + 1)
             /\ head.vars[x] = "none" => \A k : BindsTo(ss, x, k, n + 1) <=> BindsTo(base, x, k, n)
             /\ head.vars[x] # "none" => \A k : BindsTo(ss, x, k, n + 1) <=> k = n + 1
             /\ head.nil[x] = "none" => (SureTo(ss, x, n + 1) <=> SureTo(base, x, n))
             /\ head.nil[x] = "nonnull" => SureTo(ss, x, n + 1)
             /\ head.nil[x] = "nullable" => ~ SureTo(ss, x, n + 1)
             /\ head.nil[x] \in {"none", "nonnull", "nullable"}
  <2>1. x \in All /\ n \in Nat
    BY DEF All
  <2>2. head.nil[x] \in {"none", "nonnull", "nullable"}
    BY <2>1 DEF Tables, States
  <2> QED BY <2>1, <2>2, OnTopFacts
<1>3. \A j \in 1..n : ss[j] = base[j]
  BY OnTopShape
<1>4. FactsTo(ss, en, n + 2)
  <2> SUFFICES ASSUME NEW p \in 1..n + 2, NEW x \in Names, NEW k \in 1..p,
                      BindsTo(ss, x, k, p), SureTo(ss, x, p)
               PROVE  en[k][x] # "nil"
    BY DEF FactsTo
  <2>1. CASE p \in 1..n
    BY <1>2, <2>1 DEF FactsTo
  <2>2. CASE p \notin 1..n
    <3>1. BindsTo(ss, x, k, n + 1) /\ SureTo(ss, x, n + 1)
      BY <1>1, <1>2, <2>2
    <3>2. CASE head.vars[x] = "none"
      <4>1. BindsTo(base, x, k, n) /\ k \in 1..n
        BY <1>2, <3>1, <3>2, BoundWithin
      <4>2. CASE head.nil[x] = "none"
        BY <1>1, <1>2, <3>1, <4>1, <4>2 DEF FactsTo
      <4>3. CASE head.nil[x] = "nonnull"
        BY <3>2, <4>1, <4>3 DEF HeadIsTrue
      <4> QED BY <1>2, <3>1, <4>2, <4>3
    <3>3. CASE head.vars[x] # "none"
      BY <1>2, <3>1, <3>3 DEF HeadIsTrue
    <3> QED BY <3>2, <3>3
  <2> QED BY <2>1, <2>2
<1>5. StayTo(ss, n + 2)
  <2> SUFFICES ASSUME NEW q \in 1..n + 2, NEW p \in 1..q, NEW x \in Names, NEW k \in 1..p,
                      BindsTo(ss, x, k, q), ss[k].vars[x] = "nullable", SureTo(ss, x, p)
               PROVE  SureTo(ss, x, q)
    BY DEF StayTo
  <2>1. CASE q \in 1..n
    <3>1. p \in 1..n /\ k \in 1..n
      BY <2>1
    <3> QED BY <1>2, <1>3, <2>1, <3>1 DEF StayTo
  <2>2. CASE q \notin 1..n /\ p \notin 1..n
    <3>1. p \in 1..n + 2
      OBVIOUS
    <3>2. SureTo(ss, x, n + 1)
      BY <1>1, <1>2, <2>2, <3>1
    <3> QED BY <1>1, <1>2, <2>2, <3>2
  <2>3. CASE q \notin 1..n /\ p \in 1..n
    <3>1. BindsTo(ss, x, k, n + 1) /\ k \in 1..n /\ k # n + 1
      BY <1>1, <1>2, <2>3
    <3>2. head.vars[x] = "none" /\ BindsTo(base, x, k, n) /\ base[k].vars[x] = "nullable" /\ SureTo(base, x, p)
      BY <1>2, <1>3, <2>3, <3>1
    <3>3. SureTo(base, x, n)
      BY <1>1, <2>3, <3>2 DEF StayTo
    <3>4. head.nil[x] # "nullable"
      BY <3>1, <3>2, <3>3 DEF HeadIsTrue
    <3>5. SureTo(ss, x, n + 1)
      BY <1>2, <3>3, <3>4
    <3> QED BY <1>1, <1>2, <2>3, <3>5
  <2> QED BY <2>1, <2>2, <2>3
<1> QED BY <1>4, <1>5

-----------------------------------------------------------------------------
(* Blocks that open.                                                       *)

\* A block opens with these facts, and the run enters it or passes it by.
Opens(block, head) ==
    /\ block \in Blocks /\ head \in Tables /\ ~ block.ends
    /\ block.kind \in {"then", "for", "arm"}
    /\ block.kind = "then" => head = Facts(Narrowed(block.checks, "then"))
    /\ \A x \in Names : head.vars[x] # "error"
    /\ Open(block, head)
    /\ env' \in Seq(Stores) /\ Len(env') \in {Top, Top + 2}
    /\ UNCHANGED companions /\ crashed' = FALSE
    /\ \A t \in tied' : t \in tied /\ env'[t[3]] = env[t[3]] /\ head.vars = NoFacts

\* Why the run passes by the first branch of an if.
PassedThen(block) ==
    block.kind = "then" /\ Len(env') = Top =>
        /\ \A x \in Names : \A k \in 1..Top : BindsTo(scopes, x, k, Top) =>
             /\ block.checks[x] = "eq" => env'[k][x] # "nil"
             /\ block.checks[x] = "ne" /\ scopes[k].vars[x] = "nullable" => ~ SureTo(scopes, x, Top)
        /\ \A t \in tied' : block.checks[t[1]] = "ne" => env'[t[3]][t[1]] = "nil"

\* Which arm of a match the run will take.
TargetAgrees(block) ==
    block.kind = "arm" =>
        /\ block.at \in 1..Len(block.arms)
        /\ block.target # "none" =>
             /\ Len(env') = Top
             /\ \E i \in block.at + 1..Len(block.arms) : block.arms[i] = block.target
             /\ block.target = "default" /\ block.narrows =>
                  \A k \in 1..Top : BindsTo(scopes, block.on, k, Top) => env'[k][block.on] # "nil"
        /\ block.target = "none" /\ Len(env') = Top => ~ block.joined \/ ~ Lists(block.arms, "default")

NextHalves(l, t, n, m) ==
    /\ m \in Nat \ {0} /\ t + 2 = 2 * m /\ t \in Nat \ {0} /\ n \in Nat /\ n <= t + 2
    /\ 2 * m - 2 = t /\ 2 * m - 1 = t + 1
    /\ \E d \in 0..m : n = 2 * d
    /\ 1..m = (1..l) \cup {m} /\ 1..m - 1 = 1..l /\ l \in 1..l
    /\ \A j \in 2..m : j = m \/ j \in 2..l
    /\ \A j \in 1..l : j # m /\ j \in 1..m
    /\ \A j \in 2..l : /\ j \in 1..l /\ j # m /\ 2 * j - 1 \in 1..t /\ 2 * j - 2 \in 1..t
                       /\ t >= 2 * j /\ t # 2 * j - 2 /\ n # 2 * j - 2 /\ n >= 2 * j

LEMMA NextHalf ==
    ASSUME NEW l \in Nat \ {0}, NEW t, t = 2 * l, NEW n \in {t, t + 2}, NEW m, m = l + 1
    PROVE  NextHalves(l, t, n, m)
<1>1. \E d \in 0..m : n = 2 * d
  <2>1. CASE n = t
    <3>1. l \in 0..m
      OBVIOUS
    <3> QED BY <2>1, <3>1
  <2>2. CASE n = t + 2
    <3>1. m \in 0..m /\ n = 2 * m
      BY <2>2
    <3> QED BY <3>1
  <2> QED BY <2>1, <2>2
<1> QED BY <1>1 DEF NextHalves

\* The blocks with one more.
Going == [blocks EXCEPT ![Level].ends = FALSE]

LEMMA BlocksGoing ==
    ASSUME NilTypeOK
    PROVE  /\ Going \in Seq(Blocks) /\ Len(Going) = Level
           /\ ~ Going[Level].ends /\ \A j \in 1..Level : j # Level => Going[j].ends = blocks[j].ends
           /\ \A j \in 1..Level : SameBut(blocks[j], Going[j])
<1>1. Going = Ended(FALSE)
  BY DEF Going, Ended
<1> QED BY <1>1, BlocksEnded

LEMMA BlocksOpened ==
    ASSUME NilTypeOK, NEW block \in Blocks, blocks' = Append(Going, block)
    PROVE  /\ blocks' \in Seq(Blocks) /\ Len(blocks') = Level + 1 /\ blocks'[Level + 1] = block
           /\ ~ blocks'[Level].ends /\ \A j \in 1..Level : j # Level => blocks'[j].ends = blocks[j].ends
           /\ \A j \in 1..Level : SameBut(blocks[j], blocks'[j])
<1>1. Going \in Seq(Blocks) /\ Len(Going) = Level /\ Level \in Nat \ {0}
  BY BlocksGoing, Shapes
<1>2. /\ blocks' \in Seq(Blocks) /\ Len(blocks') = Level + 1 /\ blocks'[Level + 1] = block
      /\ \A j \in 1..Level : blocks'[j] = Going[j]
  BY <1>1
<1>3. Level \in 1..Level
  BY <1>1
<1> QED BY <1>2, <1>3, BlocksGoing

LEMMA Opening ==
    ASSUME NilInv, Runs, NEW block, NEW head, Opens(block, head), PassedThen(block), TargetAgrees(block),
           TypesAreHonest', FactsTo(scopes', env', Len(env')), StayTo(scopes', Len(env'))
    PROVE  NilInv'
<1> DEFINE L == Level + 1
           n == Len(env')
<1>1. /\ Level \in Nat \ {0} /\ Top = 2 * Level
      /\ DOMAIN blocks = 1..Level /\ \A j \in 1..Level : blocks[j] \in Blocks
      /\ DOMAIN scopes = 1..Top /\ DOMAIN env = 1..Top /\ Len(env) = Top
      /\ NilTypeOK /\ n \in {Top, Top + 2}
  <2>1. Len(env) = Top
    BY DEF Runs, Here, Top
  <2> QED BY <2>1, Shapes DEF NilInv, Opens
<1>2. /\ L \in Nat \ {0} /\ Top + 2 = 2 * L /\ Top \in Nat \ {0} /\ n \in Nat /\ n <= Top + 2
      /\ 2 * L - 2 = Top /\ 2 * L - 1 = Top + 1
      /\ \E d \in 0..L : n = 2 * d
      /\ 1..L = (1..Level) \cup {L} /\ 1..L - 1 = 1..Level /\ Level \in 1..Level
      /\ \A j \in 2..L : j = L \/ j \in 2..Level
      /\ \A j \in 1..Level : j # L /\ j \in 1..L
      /\ \A j \in 2..Level : /\ j \in 1..Level /\ j # L /\ 2 * j - 1 \in 1..Top /\ 2 * j - 2 \in 1..Top
                             /\ Top >= 2 * j /\ Top # 2 * j - 2 /\ n # 2 * j - 2 /\ n >= 2 * j
  <2>1. L = Level + 1
    OBVIOUS
  <2> HIDE DEF L, n
  <2>2. NextHalves(Level, Top, n, L)
    BY <1>1, <2>1, NextHalf
  <2> QED BY <2>2 DEF NextHalves
<1>3. block \in Blocks /\ head \in Tables /\ ~ block.ends /\ block.kind \in {"then", "for", "arm"}
  BY DEF Opens
<1>4. /\ blocks' \in Seq(Blocks) /\ Len(blocks') = L /\ blocks'[L] = block
      /\ ~ blocks'[Level].ends /\ \A j \in 1..Level : j # Level => blocks'[j].ends = blocks[j].ends
      /\ \A j \in 1..Level : SameBut(blocks[j], blocks'[j])
  <2>1. blocks' = Append(Going, block)
    BY DEF Opens, Open, Going
  <2> QED BY <1>1, <1>3, <2>1, BlocksOpened
<1>5. \A j \in 1..Level : /\ blocks'[j].kind = blocks[j].kind /\ blocks'[j].checks = blocks[j].checks
                          /\ blocks'[j].arms = blocks[j].arms /\ blocks'[j].at = blocks[j].at
                          /\ blocks'[j].target = blocks[j].target
  BY <1>4 DEF SameBut
<1>6. scopes \in Seq(Tables) /\ Top = Len(scopes) /\ scopes' = OnTop(scopes, head)
  BY <1>1 DEF NilTypeOK, Top, Opens, Open, OnTop
<1>7. /\ scopes' \in Seq(Tables) /\ Len(scopes') = Top + 2 /\ DOMAIN scopes' = 1..Top + 2
      /\ \A j \in 1..Top : scopes'[j] = scopes[j]
      /\ scopes'[Top + 1] = head /\ scopes'[Top + 2] = Facts(NoFacts)
  <2>1. /\ scopes' \in Seq(Tables) /\ Len(scopes') = Top + 2
        /\ \A j \in 1..Top : scopes'[j] = scopes[j]
        /\ scopes'[Top + 1] = head /\ scopes'[Top + 2] = Facts(NoFacts)
    BY <1>3, <1>6, OnTopShape
  <2> QED BY <2>1
<1>8. Level' = L /\ Top' = Top + 2
  BY <1>4, <1>7 DEF Level, Top
<1>9. ASSUME NEW x \in All
      PROVE  /\ \A q \in 1..Top : /\ \A k : BindsTo(scopes', x, k, q) <=> BindsTo(scopes, x, k, q)
                                  /\ SureTo(scopes', x, q) <=> SureTo(scopes, x, q)
             /\ head.vars[x] = "none" => \A k : BindsTo(scopes', x, k, Top + 2) <=> BindsTo(scopes, x, k, Top)
  <2>1. Top \in Nat /\ Top = Len(scopes) /\ scopes \in Seq(Tables) /\ head \in Tables /\ scopes' = OnTop(scopes, head)
    BY <1>2, <1>3, <1>6
  <2>2. /\ \A q \in 1..Top : /\ \A k : BindsTo(scopes', x, k, q) <=> BindsTo(scopes, x, k, q)
                             /\ SureTo(scopes', x, q) <=> SureTo(scopes, x, q)
        /\ \A k : BindsTo(scopes', x, k, Top + 2) <=> BindsTo(scopes', x, k, Top + 1)
        /\ head.vars[x] = "none" => \A k : BindsTo(scopes', x, k, Top + 1) <=> BindsTo(scopes, x, k, Top)
    BY <2>1, OnTopFacts, Zenon
  <2> QED BY <2>2
<1>10. Top \in 1..Top /\ \A k \in 1..Top + 2 : k \in 1..Top \/ k = Top + 1 \/ k = Top + 2
  BY <1>2
<1>11. \A t \in tied' : t \in tied /\ env'[t[3]] = env[t[3]] /\ head.vars = NoFacts
  BY DEF Opens
<1>12. tied' \subseteq Errors \X Names \X (1..Top)
  BY <1>1, <1>6, <1>11 DEF NilTypeOK
<1> HIDE DEF L, n
<1>13. NilTypeOK'
  <2>1. \A k \in DOMAIN scopes' : \A x \in Names : scopes'[k].vars[x] # "error"
    <3>1. \A x \in Names : Facts(NoFacts).vars[x] # "error"
      BY NoFactsThere DEF Facts, All
    <3>2. \A k \in 1..Top : \A x \in Names : scopes'[k].vars[x] # "error"
      BY <1>1, <1>7 DEF NilTypeOK
    <3>3. \A x \in Names : head.vars[x] # "error"
      BY DEF Opens
    <3> QED BY <1>7, <1>10, <3>1, <3>2, <3>3
  <2>2. \E c \in 0..Len(blocks') : Len(env') = 2 * c
    BY <1>2, <1>4 DEF n
  <2>3. Len(blocks') \in Nat \ {0} /\ Len(scopes') = 2 * Len(blocks')
    BY <1>2, <1>4, <1>7
  <2>4. companions' \in [Errors -> Names \cup {"none"}] /\ crashed' \in BOOLEAN /\ env' \in Seq(Stores)
    BY <1>1 DEF NilTypeOK, Opens
  <2>5. tied' \subseteq Errors \X Names \X (1..Len(scopes'))
    <3>1. \A k \in 1..Top : k \in 1..Top + 2
      BY <1>2
    <3> QED BY <1>7, <1>12, <3>1
  <2> QED BY <1>4, <1>7, <2>1, <2>2, <2>3, <2>4, <2>5 DEF NilTypeOK
<1>14. NilSafe' /\ FactsHold' /\ FactsStay'
  BY DEF Opens, NilSafe, FactsHold, FactsStay
<1>15. TiesHold'
  <2> SUFFICES ASSUME NEW t \in tied'
               PROVE  /\ BindsTo(scopes', t[1], t[3], Top + 2) /\ BindsTo(scopes', t[2], t[3], Top + 2)
                      /\ t[3] <= Len(env') /\ env'[t[3]][t[1]] = "nil" => env'[t[3]][t[2]] # "nil"
    BY <1>8 DEF TiesHold
  <2>1. t \in tied /\ t[1] \in All /\ t[2] \in All /\ t[3] \in 1..Top
    BY <1>11, <1>12 DEF All
  <2>2. head.vars[t[1]] = "none" /\ head.vars[t[2]] = "none"
    BY <1>11, <2>1, NoFactsThere
  <2>3. t[3] <= Len(env)
    BY <1>1, <1>2, <2>1
  <2> QED BY <1>9, <1>11, <2>1, <2>2, <2>3 DEF NilInv, TiesHold
<1>16. BranchFacts'
  <2> SUFFICES ASSUME NEW j \in 2..L, blocks'[j].kind \in {"then", "else"}
               PROVE  scopes'[2 * j - 1] = Facts(Narrowed(blocks'[j].checks, blocks'[j].kind))
    BY <1>8 DEF BranchFacts
  <2>1. CASE j = L
    BY <1>2, <1>3, <1>4, <1>7, <2>1 DEF Opens
  <2>2. CASE j \in 2..Level
    BY <1>2, <1>5, <1>7, <2>2 DEF NilInv, BranchFacts
  <2> QED BY <1>2, <2>1, <2>2
<1>17. ASSUME NEW j \in 2..L, Passed(j)' PROVE j = L /\ Len(env') = Top
  <2>1. n = 2 * j - 2
    BY <1>17 DEF Passed, n
  <2> QED BY <1>2, <2>1 DEF n
<1>18. SkippedThen'
  <2> SUFFICES ASSUME NEW j \in 2..L, blocks'[j].kind = "then", Passed(j)'
               PROVE  /\ \A x \in Names : \A k \in 1..2 * j - 2 :
                           BindsTo(scopes', x, k, 2 * j - 2) =>
                              /\ blocks'[j].checks[x] = "eq" => env'[k][x] # "nil"
                              /\ blocks'[j].checks[x] = "ne" /\ scopes'[k].vars[x] = "nullable"
                                     => ~ SureTo(scopes', x, 2 * j - 2)
                      /\ ErrorsNil(j)'
    BY <1>8 DEF SkippedThen
  <2>1. j = L /\ Len(env') = Top /\ 2 * j - 2 = Top /\ blocks'[j] = block /\ block.kind = "then"
    BY <1>2, <1>4, <1>17
  <2>2. ErrorsNil(j)'
    BY <1>8, <2>1 DEF ErrorsNil, PassedThen
  <2>3. ASSUME NEW x \in Names, NEW k \in 1..Top, BindsTo(scopes', x, k, Top)
        PROVE  /\ block.checks[x] = "eq" => env'[k][x] # "nil"
               /\ block.checks[x] = "ne" /\ scopes'[k].vars[x] = "nullable" => ~ SureTo(scopes', x, Top)
    <3>1. x \in All
      BY DEF All
    <3>2. BindsTo(scopes, x, k, Top) /\ scopes'[k] = scopes[k] /\ (SureTo(scopes', x, Top) <=> SureTo(scopes, x, Top))
      BY <1>7, <1>9, <1>10, <2>3, <3>1
    <3> QED BY <2>1, <3>2 DEF PassedThen
  <2> QED BY <2>1, <2>2, <2>3
<1>19. TookThen'
  BY <1>3, <1>4, <1>8, <1>17 DEF TookThen
<1>20. TookElse'
  <2> SUFFICES ASSUME NEW j \in 2..L, blocks'[j].kind = "else", NEW t \in tied',
                      t[3] <= 2 * j - 2, blocks'[j].checks[t[1]] = "ne"
               PROVE  env'[t[3]][t[1]] = "nil"
    BY <1>8 DEF TookElse, ErrorsNil
  <2>1. j \in 2..Level
    BY <1>2, <1>3, <1>4
  <2>2. blocks[j].kind = "else" /\ blocks[j].checks[t[1]] = "ne" /\ Len(env) >= 2 * j
    BY <1>1, <1>2, <1>5, <2>1
  <2> QED BY <1>11, <2>1, <2>2 DEF NilInv, TookElse, ErrorsNil
<1>21. ArmsAgree'
  <2> SUFFICES ASSUME NEW j \in 2..L, blocks'[j].kind = "arm"
               PROVE  /\ blocks'[j].at \in 1..Len(blocks'[j].arms)
                      /\ blocks'[j].target # "none" =>
                           /\ j = L /\ Len(env') = 2 * j - 2
                           /\ \E i \in blocks'[j].at + 1..Len(blocks'[j].arms) : blocks'[j].arms[i] = blocks'[j].target
                           /\ blocks'[j].target = "default" /\ blocks'[j].narrows =>
                                \A k \in 1..2 * j - 2 : BindsTo(scopes', blocks'[j].on, k, 2 * j - 2)
                                    => env'[k][blocks'[j].on] # "nil"
                      /\ blocks'[j].target = "none" /\ Len(env') = 2 * j - 2 =>
                           ~ blocks'[j].joined \/ ~ Lists(blocks'[j].arms, "default")
    BY <1>8 DEF ArmsAgree, Passed
  <2>1. CASE j = L
    <3>1. 2 * j - 2 = Top /\ blocks'[j] = block
      BY <1>2, <1>4, <2>1
    <3>2. ASSUME NEW k \in 1..Top, BindsTo(scopes', block.on, k, Top) PROVE BindsTo(scopes, block.on, k, Top)
      <4>1. ASSUME NEW y PROVE BindsTo(scopes', y, k, Top) <=> BindsTo(scopes, y, k, Top)
        BY <1>2, <1>7, <1>10, SamePrefix
      <4> QED BY <3>2, <4>1
    <3> QED BY <2>1, <3>1, <3>2 DEF TargetAgrees
  <2>2. CASE j \in 2..Level
    <3>1. blocks[j].kind = "arm" /\ ~ (Len(env) = 2 * j - 2) /\ ~ (Len(env') = 2 * j - 2)
      BY <1>1, <1>2, <1>5, <2>2 DEF n
    <3>2. blocks'[j].target = "none" /\ blocks'[j].at \in 1..Len(blocks'[j].arms)
      BY <1>2, <1>5, <2>2, <3>1 DEF NilInv, ArmsAgree, Passed
    <3> QED BY <3>1, <3>2
  <2> QED BY <1>2, <2>1, <2>2
<1>22. EndsAgree'
  <2>1. ASSUME NEW j \in 1..L - 1 PROVE ~ blocks'[j].ends
    <3>1. j \in 1..Level /\ (j # Level => j \in 1..Level - 1)
      BY <1>1, <1>2
    <3>2. j # Level => ~ blocks[j].ends
      BY <3>1 DEF NilInv, EndsAgree
    <3> QED BY <1>4, <3>1, <3>2
  <2>2. ~ blocks'[L].ends
    BY <1>3, <1>4
  <2>3. ASSUME NEW j \in 1..L PROVE blocks'[j].kind = "function" <=> j = 1
    <3>1. CASE j = L
      <4>1. j # 1
        BY <1>1, <3>1 DEF L
      <4> QED BY <1>3, <1>4, <3>1, <4>1
    <3>2. CASE j \in 1..Level
      BY <1>5, <3>2 DEF NilInv, EndsAgree
    <3> QED BY <1>2, <3>1, <3>2
  <2> QED BY <1>8, <2>1, <2>2, <2>3 DEF EndsAgree
<1> QED BY <1>13, <1>14, <1>15, <1>16, <1>18, <1>19, <1>20, <1>21, <1>22 DEF NilInv

\* A block opens, and where the run enters it, its facts are true.
LEMMA OpeningStep ==
    ASSUME NilInv, Runs, NEW block, NEW head, Opens(block, head), PassedThen(block), TargetAgrees(block),
           \A k \in 1..Top : \A x \in Names : scopes[k].vars[x] = "pointer" => env'[k][x] # "nil",
           FactsTo(scopes, env', Top),
           Len(env') = Top + 2 =>
               \A x \in Names : /\ HeadIsTrue(scopes, head, env', Top, x)
                                /\ head.vars[x] = "pointer" => env'[Top + 1][x] # "nil"
    PROVE  NilInv'
<1>1. /\ Top \in Nat \ {0} /\ Len(env) = Top /\ StayTo(scopes, Top)
      /\ scopes \in Seq(Tables) /\ Top = Len(scopes) /\ head \in Tables
      /\ scopes' = OnTop(scopes, head) /\ env' \in Seq(Stores) /\ Len(env') \in {Top, Top + 2}
  <2>1. Len(env) = Top /\ Top \in Nat \ {0}
    BY Shapes DEF Runs, Here, Top, NilInv
  <2> QED BY <2>1 DEF NilInv, FactsStay, NilTypeOK, Opens, Open, OnTop, Top
<1>2. /\ \A j \in 1..Top : scopes'[j] = scopes[j]
      /\ scopes'[Top + 1] = head /\ scopes'[Top + 2] = Facts(NoFacts)
  <2>1. /\ scopes \in Seq(Tables) /\ Len(scopes) = Top /\ head \in Tables
        /\ scopes' = OnTop(scopes, head)
    BY <1>1
  <2>2. /\ \A j \in 1..Len(scopes) : OnTop(scopes, head)[j] = scopes[j]
        /\ OnTop(scopes, head)[Len(scopes) + 1] = head /\ OnTop(scopes, head)[Len(scopes) + 2] = Facts(NoFacts)
    BY <2>1, OnTopShape
  <2> QED BY <2>1, <2>2
<1>3. ASSUME NEW x \in Names
      PROVE  \A q \in 1..Top : /\ \A k : BindsTo(scopes', x, k, q) <=> BindsTo(scopes, x, k, q)
                               /\ SureTo(scopes', x, q) <=> SureTo(scopes, x, q)
  <2>1. x \in All
    BY DEF All
  <2> QED BY <1>1, <2>1, OnTopFacts
<1>4. DOMAIN env' = 1..Len(env')
  BY <1>1
<1>5. CASE Len(env') = Top
  <2>1. TypesAreHonest'
    BY <1>2, <1>4, <1>5 DEF TypesAreHonest
  <2>2. FactsTo(scopes', env', Top)
    BY <1>3 DEF FactsTo
  <2>3. StayTo(scopes', Top)
    <3> SUFFICES ASSUME NEW q \in 1..Top, NEW p \in 1..q, NEW x \in Names, NEW k \in 1..p,
                        BindsTo(scopes', x, k, q), scopes'[k].vars[x] = "nullable", SureTo(scopes', x, p)
                 PROVE  SureTo(scopes', x, q)
      BY DEF StayTo
    <3>1. p \in 1..Top /\ k \in 1..Top
      BY <1>1
    <3> QED BY <1>1, <1>2, <1>3, <3>1 DEF StayTo
  <2> QED BY <1>5, <2>1, <2>2, <2>3, Opening
<1>6. CASE Len(env') = Top + 2
  <2>1. TypesAreHonest'
    <3> SUFFICES ASSUME NEW k \in 1..Top + 2, NEW x \in Names, scopes'[k].vars[x] = "pointer"
                 PROVE  env'[k][x] # "nil"
      BY <1>4, <1>6 DEF TypesAreHonest
    <3>1. CASE k \in 1..Top
      BY <1>2, <3>1
    <3>2. CASE k = Top + 1
      BY <1>2, <1>6, <3>2
    <3>3. CASE k = Top + 2
      <4>1. x \in All /\ Facts(NoFacts).vars = NoFacts
        BY DEF All, Facts
      <4> QED BY <1>2, <3>3, <4>1, NoFactsThere
    <3> QED BY <1>1, <3>1, <3>2, <3>3
  <2>2. FactsTo(scopes', env', Top + 2) /\ StayTo(scopes', Top + 2)
    BY <1>1, <1>6, EnteredFacts
  <2> QED BY <1>6, <2>1, <2>2, Opening
<1> QED BY <1>1, <1>5, <1>6

\* What the checker relies on of a variable's value, in the loop or after it.
LEMMA ReliedOn ==
    ASSUME NilTypeOK, NEW x \in Names, NEW p \in 1..Top, NEW k \in 1..p,
           BindsTo(scopes, x, k, p), SureTo(scopes, x, p)
    PROVE  Relied(scopes, x, k)
<1> DEFINE ss == SubSeq(scopes, 1, p)
<1>1. ss \in Seq(Tables) /\ Len(ss) = p /\ p \in Nat /\ \A j \in 1..p : ss[j] = scopes[j]
  <2>1. scopes \in Seq(Tables) /\ p \in 0..Len(scopes)
    BY DEF NilTypeOK, Top
  <2>2. p \in Nat
    OBVIOUS
  <2> QED BY <2>1, <2>2, FirstOf
<1>2. p \in 1..p /\ p \in k..Len(scopes)
  BY DEF Top
<1> HIDE DEF ss
<1>3. BindsTo(ss, x, k, p) /\ SureTo(ss, x, p)
  BY <1>1, <1>2, SamePrefix
<1>4. DOMAIN ss = 1..Len(ss)
  BY <1>1
<1>5. Binds(ss, x, k) /\ NonNull(ss, x)
  BY <1>1, <1>3, <1>4, LookedUp
<1> QED BY <1>2, <1>5 DEF Relied, ss

LEMMA TwoAppended ==
    ASSUME NEW S, NEW s \in Seq(S), NEW a \in S, NEW b \in S, NEW c, c = s \o <<a, b>>
    PROVE  /\ c \in Seq(S) /\ Len(c) = Len(s) + 2 /\ c[Len(s) + 1] = a /\ c[Len(s) + 2] = b
           /\ \A j \in 1..Len(s) : c[j] = s[j]
  OBVIOUS

\* An iteration starts with values that the checker's facts allow.
LEMMA IterateFacts ==
    ASSUME NilInv, Runs, NEW head \in Stores, Iterate(head)
    PROVE  /\ env' \in Seq(Stores) /\ Len(env') = Top + 2 /\ env'[Top + 1] = head
           /\ \A k \in 1..Top : \A x \in Names : scopes[k].vars[x] = "pointer" => env'[k][x] # "nil"
           /\ FactsTo(scopes, env', Top)
<1> DEFINE Row(N, k) == [n \in All |-> CASE env[k][n] = "none" -> "none"
                                         [] <<k, n>> \in N -> "nil"
                                         [] OTHER -> "object"]
<1>1. PICK N \in SUBSET MayBeNil(scopes) : env' = [k \in DOMAIN env |-> Row(N, k)] \o <<head, Empty>>
  BY DEF Iterate
<1>2. Top \in Nat /\ Len(env) = Top /\ DOMAIN env = 1..Top /\ NilTypeOK /\ DOMAIN scopes = 1..Top
  <2>1. Len(env) = Top
    BY DEF Runs, Here, Top
  <2> QED BY <2>1, Shapes DEF NilInv
<1>3. Empty \in Stores
  BY DEF Empty, Stores, Values
<1>4. \A k \in 1..Top : Row(N, k) \in Stores
  BY DEF Stores, Values
<1>5. ASSUME NEW k \in 1..Top, NEW x \in Names, <<k, x>> \notin N PROVE Row(N, k)[x] # "nil"
  BY <1>5 DEF All
<1> DEFINE rows == [k \in 1..Top |-> Row(N, k)]
<1>6. rows \in Seq(Stores) /\ Len(rows) = Top /\ \A k \in 1..Top : rows[k] = Row(N, k)
  <2> HIDE DEF Row
  <2> QED BY <1>2, <1>4
<1> DEFINE none == Empty
<1>7. env' = rows \o <<head, none>> /\ none \in Stores
  BY <1>1, <1>2, <1>3
<1> HIDE DEF Row, rows, none
<1>8. env' \in Seq(Stores) /\ Len(env') = Top + 2 /\ env'[Top + 1] = head /\ \A k \in 1..Top : env'[k] = rows[k]
  <2>1. rows \in Seq(Stores) /\ head \in Stores /\ none \in Stores /\ env' = rows \o <<head, none>>
    BY <1>6, <1>7
  <2>2. /\ env' \in Seq(Stores) /\ Len(env') = Len(rows) + 2 /\ env'[Len(rows) + 1] = head
        /\ \A j \in 1..Len(rows) : env'[j] = rows[j]
    BY <2>1, TwoAppended
  <2> QED BY <1>6, <2>2
<1>9. ASSUME NEW k \in 1..Top, NEW x \in Names, Relied(scopes, x, k) PROVE env'[k][x] # "nil"
  <2>1. <<k, x>> \notin MayBeNil(scopes)
    BY <1>9 DEF MayBeNil
  <2> QED BY <1>5, <1>6, <1>8, <2>1
<1>10. \A k \in 1..Top : \A x \in Names : scopes[k].vars[x] = "pointer" => env'[k][x] # "nil"
  BY <1>9 DEF Relied
<1>11. FactsTo(scopes, env', Top)
  <2> SUFFICES ASSUME NEW p \in 1..Top, NEW x \in Names, NEW k \in 1..p,
                      BindsTo(scopes, x, k, p), SureTo(scopes, x, p)
               PROVE  env'[k][x] # "nil"
    BY DEF FactsTo
  <2>1. k \in 1..Top
    BY <1>2
  <2> QED BY <1>2, <1>9, <2>1, ReliedOn
<1> QED BY <1>8, <1>10, <1>11

LEMMA NewBlockShape ==
    ASSUME NEW kind \in {"function", "then", "for", "arm"}
    PROVE  NewBlock(kind) \in Blocks /\ NewBlock(kind).kind = kind /\ ~ NewBlock(kind).ends
<1>1. NoFacts \in [All -> Checks]
  BY NoFactsThere
<1> QED BY <1>1 DEF NewBlock, Blocks

\* The run iterates with any values that the facts allow, or passes by.
LEMMA ForStep ==
    ASSUME NilInv, For
    PROVE  NilInv'
<1> DEFINE block == NewBlock("for")
           head == Facts(NoFacts)
<1>1. Runs /\ Open(block, head) /\ (Iterate(Empty) \/ UNCHANGED env) /\ tied' = {} /\ UNCHANGED <<companions, crashed>>
  BY DEF For, Deeper
<1>2. block \in Blocks /\ block.kind = "for" /\ ~ block.ends
  BY NewBlockShape
<1>3. head \in Tables /\ head.vars = NoFacts /\ head.nil = NoFacts /\ \A x \in Names : NoFacts[x] = "none"
  BY NoFactsThere DEF Facts, All
<1>4. Empty \in Stores
  BY DEF Empty, Stores, Values
<1>5. /\ env' \in Seq(Stores) /\ Len(env') \in {Top, Top + 2}
      /\ \A k \in 1..Top : \A x \in Names : scopes[k].vars[x] = "pointer" => env'[k][x] # "nil"
      /\ FactsTo(scopes, env', Top)
  <2>1. CASE Iterate(Empty)
    BY <1>1, <1>4, <2>1, IterateFacts
  <2>2. CASE UNCHANGED env
    <3>1. Len(env) = Top /\ env \in Seq(Stores) /\ DOMAIN env = 1..Top
      BY <1>1, Shapes DEF Runs, Here, Top, NilInv, NilTypeOK
    <3> QED BY <2>2, <3>1 DEF NilInv, TypesAreHonest, FactsHold
  <2> QED BY <1>1, <2>1, <2>2
<1> HIDE DEF block, head
<1>6. Opens(block, head)
  BY <1>1, <1>2, <1>3, <1>5 DEF Opens, NilInv, NilSafe
<1>7. PassedThen(block) /\ TargetAgrees(block)
  BY <1>2 DEF PassedThen, TargetAgrees
<1>8. \A x \in Names : HeadIsTrue(scopes, head, env', Top, x) /\ head.vars[x] # "pointer"
  BY <1>3 DEF HeadIsTrue
<1> QED BY <1>1, <1>5, <1>6, <1>7, <1>8, OpeningStep

\* The loop's variable has the elements' type, and no older fact about the name
\* is in force if they may be nil: the rebound trap keeps it out.
LEMMA ForRangeStep ==
    ASSUME NilInv, Traps = {}, NEW x \in Names, NEW type \in {"nullable", "pointer"}, ForRange(x, type)
    PROVE  NilInv'
<1> DEFINE block == NewBlock("for")
           head == [vars |-> [NoFacts EXCEPT ![x] = type], nil |-> NoFacts]
           Result == Results(IF type = "pointer" THEN "make" ELSE "find")
           First(r) == [Empty EXCEPT ![x] = r]
<1>1. /\ Runs /\ Open(block, head) /\ tied' = {} /\ UNCHANGED <<companions, crashed>>
      /\ \/ \E r \in Result : Iterate(First(r))
         \/ UNCHANGED env
      /\ type = "nullable" => ~ NonNull(scopes, x)
  BY DEF ForRange, Deeper, Allowed, Facts
<1>2. block \in Blocks /\ block.kind = "for" /\ ~ block.ends
  BY NewBlockShape
<1>3. /\ head \in Tables /\ head.nil = NoFacts /\ head.vars[x] = type /\ \A y \in Names : NoFacts[y] = "none"
      /\ \A y \in Names : y # x => head.vars[y] = "none"
  <2>1. x \in All /\ type \in Types /\ \A y \in Names : y \in All
    BY DEF All, Types
  <2>2. NoFacts \in [All -> Types] /\ NoFacts \in [All -> States] /\ \A y \in All : NoFacts[y] = "none"
    BY NoFactsThere
  <2> QED BY <2>1, <2>2 DEF Tables
<1>4. \A r \in Result : First(r) \in Stores /\ First(r)[x] = r /\ (type = "pointer" => r # "nil")
  BY DEF Empty, Stores, Values, Results, All
<1>5. Len(env) = Top /\ env \in Seq(Stores) /\ DOMAIN env = 1..Top
  BY <1>1, Shapes DEF Runs, Here, Top, NilInv, NilTypeOK
<1>6. SureTo(scopes, x, Top) => type = "pointer"
  <2>1. NonNull(scopes, x) <=> SureTo(scopes, x, Top)
    BY Shapes, LookedUp DEF NilInv, Top
  <2> QED BY <1>1, <2>1
<1> HIDE DEF block, head, Result, First
<1>7. /\ env' \in Seq(Stores) /\ Len(env') \in {Top, Top + 2}
      /\ \A k \in 1..Top : \A y \in Names : scopes[k].vars[y] = "pointer" => env'[k][y] # "nil"
      /\ FactsTo(scopes, env', Top)
      /\ Len(env') = Top + 2 => (type = "pointer" => env'[Top + 1][x] # "nil")
  <2>1. CASE UNCHANGED env
    <3>1. Top # Top + 2
      <4>1. Top \in Nat
        BY Shapes DEF NilInv
      <4> QED BY <4>1
    <3> QED BY <1>5, <2>1, <3>1 DEF NilInv, TypesAreHonest, FactsHold
  <2>2. CASE \E r \in Result : Iterate(First(r))
    <3>1. PICK r \in Result : Iterate(First(r))
      BY <2>2
    <3> QED BY <1>1, <1>4, <3>1, IterateFacts
  <2> QED BY <1>1, <2>1, <2>2
<1>8. Opens(block, head)
  <2>1. \A y \in Names : head.vars[y] # "error"
    BY <1>3
  <2> QED BY <1>1, <1>2, <1>3, <1>7, <2>1 DEF Opens, NilInv, NilSafe
<1>9. PassedThen(block) /\ TargetAgrees(block)
  BY <1>2 DEF PassedThen, TargetAgrees
<1>10. ASSUME Len(env') = Top + 2, NEW y \in Names
       PROVE  HeadIsTrue(scopes, head, env', Top, y) /\ (head.vars[y] = "pointer" => env'[Top + 1][y] # "nil")
  <2>1. CASE y = x
    BY <1>3, <1>6, <1>7, <1>10, <2>1 DEF HeadIsTrue
  <2>2. CASE y # x
    BY <1>3, <2>2 DEF HeadIsTrue
  <2> QED BY <2>1, <2>2
<1> QED BY <1>1, <1>7, <1>8, <1>9, <1>10, OpeningStep

\* The run enters a block.
LEMMA EnterFacts ==
    ASSUME NilInv, Runs, Enter
    PROVE  env' \in Seq(Stores) /\ Len(env') = Top + 2 /\ \A k \in 1..Top : env'[k] = env[k]
<1> DEFINE none == Empty
<1>1. Len(env) = Top /\ env \in Seq(Stores)
  BY DEF Runs, Here, Top, NilInv, NilTypeOK
<1>2. none \in Stores
  BY DEF Empty, Stores, Values
<1>3. env' = env \o <<none, none>>
  BY DEF Enter
<1> HIDE DEF none
<1> QED BY <1>1, <1>2, <1>3, TwoAppended

\* What the run's values are before a branch or an arm, entered or not.
LEMMA EnteredOrNot ==
    ASSUME NilInv, Runs, Enter \/ UNCHANGED env
    PROVE  /\ env' \in Seq(Stores) /\ Len(env') \in {Top, Top + 2} /\ Top # Top + 2
           /\ Enter => Len(env') = Top + 2
           /\ env' = env => Len(env') = Top
           /\ \A k \in 1..Top : env'[k] = env[k]
           /\ \A k \in 1..Top : \A x \in Names : scopes[k].vars[x] = "pointer" => env'[k][x] # "nil"
           /\ FactsTo(scopes, env', Top)
<1>1. Len(env) = Top /\ env \in Seq(Stores) /\ DOMAIN env = 1..Top /\ Top \in Nat
  BY Shapes DEF Runs, Here, Top, NilInv, NilTypeOK
<1>2. env' \in Seq(Stores) /\ Len(env') \in {Top, Top + 2} /\ \A k \in 1..Top : env'[k] = env[k]
  BY <1>1, EnterFacts
<1>3. Top # Top + 2
  BY <1>1
<1>4. (Enter => Len(env') = Top + 2) /\ (env' = env => Len(env') = Top)
  BY <1>1, EnterFacts
<1>5. FactsTo(scopes, env', Top)
  <2> SUFFICES ASSUME NEW p \in 1..Top, NEW x \in Names, NEW k \in 1..p,
                      BindsTo(scopes, x, k, p), SureTo(scopes, x, p)
               PROVE  env'[k][x] # "nil"
    BY DEF FactsTo
  <2>1. k \in 1..Top
    BY <1>1
  <2> QED BY <1>1, <1>2, <2>1 DEF NilInv, FactsHold, FactsTo
<1>6. \A k \in 1..Top : \A x \in Names : scopes[k].vars[x] = "pointer" => env'[k][x] # "nil"
  BY <1>1, <1>2 DEF NilInv, TypesAreHonest
<1> QED BY <1>2, <1>3, <1>4, <1>5, <1>6

LEMMA ArmListShapes ==
    ASSUME NEW arms \in ArmLists
    PROVE  /\ arms[1] \in {"nil", "default"} /\ 1 \in 1..Len(arms) /\ Len(arms) \in 1..2
           /\ DOMAIN arms = 1..Len(arms)
           /\ \A i \in 1..Len(arms) : arms[i] \in {"nil", "default"}
           /\ \A a : Lists(arms, a) <=> \E i \in 1..Len(arms) : arms[i] = a
           /\ \A a : Lists(arms, a) <=> arms[1] = a \/ \E i \in 2..Len(arms) : arms[i] = a
<1>1. CASE arms = <<"nil">>
  BY <1>1 DEF Lists
<1>2. CASE arms = <<"default">>
  BY <1>2 DEF Lists
<1>3. CASE arms = <<"nil", "default">>
  BY <1>3 DEF Lists
<1>4. CASE arms = <<"default", "nil">>
  BY <1>4 DEF Lists
<1> QED BY <1>1, <1>2, <1>3, <1>4 DEF ArmLists

ArmBlock(x, narrows, arms, target) ==
    [NewBlock("arm") EXCEPT !.on = x, !.narrows = narrows, !.arms = arms, !.at = 1, !.target = target]

LEMMA ArmBlockShape ==
    ASSUME NEW x \in Names, NEW narrows \in BOOLEAN, NEW arms \in ArmLists, NEW target \in {"none", "nil", "default"}
    PROVE  /\ ArmBlock(x, narrows, arms, target) \in Blocks
           /\ ArmBlock(x, narrows, arms, target).kind = "arm" /\ ~ ArmBlock(x, narrows, arms, target).ends
           /\ ArmBlock(x, narrows, arms, target).on = x /\ ArmBlock(x, narrows, arms, target).narrows = narrows
           /\ ArmBlock(x, narrows, arms, target).arms = arms /\ ArmBlock(x, narrows, arms, target).at = 1
           /\ ArmBlock(x, narrows, arms, target).target = target
<1> DEFINE b0 == NewBlock("arm")
           b1 == [b0 EXCEPT !.on = x]
           b2 == [b1 EXCEPT !.narrows = narrows]
           b3 == [b2 EXCEPT !.arms = arms]
           b4 == [b3 EXCEPT !.at = 1]
           b5 == [b4 EXCEPT !.target = target]
<1>1. b0 \in Blocks /\ b0.kind = "arm" /\ ~ b0.ends
  BY NewBlockShape
<1> HIDE DEF b0
<1>2. b1 \in Blocks /\ b1.kind = "arm" /\ ~ b1.ends /\ b1.on = x
  BY <1>1 DEF Blocks
<1>3. ArmBlock(x, narrows, arms, target) = b5
  BY DEF ArmBlock, b0
<1> HIDE DEF b1
<1>4. b2 \in Blocks /\ b2.kind = "arm" /\ ~ b2.ends /\ b2.on = x /\ b2.narrows = narrows
  BY <1>2 DEF Blocks
<1> HIDE DEF b2
<1>5. b3 \in Blocks /\ b3.kind = "arm" /\ ~ b3.ends /\ b3.on = x /\ b3.narrows = narrows /\ b3.arms = arms
  BY <1>4 DEF Blocks
<1> HIDE DEF b3
<1>6. /\ b4 \in Blocks /\ b4.kind = "arm" /\ ~ b4.ends /\ b4.on = x /\ b4.narrows = narrows /\ b4.arms = arms
      /\ b4.at = 1
  BY <1>5 DEF Blocks
<1> HIDE DEF b4
<1>7. /\ b5 \in Blocks /\ b5.kind = "arm" /\ ~ b5.ends /\ b5.on = x /\ b5.narrows = narrows /\ b5.arms = arms
      /\ b5.at = 1 /\ b5.target = target
  BY <1>6 DEF Blocks
<1> HIDE DEF b5
<1> QED BY <1>3, <1>7

\* The run takes the nil arm if the pointer is nil, and the default otherwise.
\* A match without a nil arm narrows without having looked, which the match
\* trap keeps out.
LEMMA MatchStep ==
    ASSUME NilInv, Traps = {}, NEW x \in Names, NEW arms \in ArmLists, Match(x, arms)
    PROVE  NilInv'
<1> DEFINE narrows == TypeOf(x) = "nullable"
           target == CASE env[Home(x)][x] = "nil" /\ Lists(arms, "nil") -> "nil"
                       [] OTHER -> IF Lists(arms, "default") THEN "default" ELSE "none"
           taken == target = arms[1]
           left == IF taken THEN "none" ELSE target
           block == [NewBlock("arm") EXCEPT
                        !.on = x, !.narrows = narrows, !.arms = arms, !.at = 1, !.target = left]
           head == Facts(ArmFacts(block, arms[1]))
<1>1. /\ Runs /\ Bound(x) /\ Open(block, head) /\ (IF taken THEN Enter ELSE UNCHANGED env)
      /\ UNCHANGED <<companions, crashed, tied>>
      /\ narrows => Lists(arms, "nil")
  BY DEF Match, Deeper, Allowed
<1>2. /\ narrows \in BOOLEAN /\ left \in {"none", "nil", "default"} /\ target \in {"none", "nil", "default"}
      /\ target = "nil" => Lists(arms, "nil")
      /\ target = "default" => Lists(arms, "default") /\ ~ (env[Home(x)][x] = "nil" /\ Lists(arms, "nil"))
      /\ target = "none" => ~ Lists(arms, "default")
      /\ taken <=> target = arms[1]
      /\ taken => left = "none"
      /\ ~ taken => left = target
  OBVIOUS
<1>3. block = ArmBlock(x, narrows, arms, left)
  BY DEF ArmBlock
<1> HIDE DEF narrows, left, target, taken
<1>4. block \in Blocks
  <2> HIDE DEF block
  <2> QED BY <1>2, <1>3, ArmBlockShape
<1>5. /\ block.kind = "arm" /\ ~ block.ends /\ block.on = x /\ (block.narrows <=> narrows) /\ block.arms = arms
      /\ block.at = 1 /\ block.target = left
  <2> HIDE DEF block
  <2> QED BY <1>2, <1>3, ArmBlockShape
<1>6. /\ head.vars = NoFacts /\ head.nil = ArmFacts(block, arms[1]) /\ head \in Tables
      /\ \A y \in Names : head.vars[y] = "none"
      /\ \A y \in Names : head.nil[y] \in {"none", "nonnull"}
      /\ \A y \in Names : head.nil[y] = "nonnull" => y = x /\ narrows /\ arms[1] # "nil"
  <2> DEFINE f == ArmFacts(block, arms[1])
  <2>1. /\ \A y \in All : f[y] \in {"none", "nonnull"}
        /\ \A y \in All : f[y] = "nonnull" => y = x /\ narrows /\ arms[1] # "nil"
        /\ f \in [All -> States]
    <3> HIDE DEF block
    <3> QED BY <1>5 DEF ArmFacts, States
  <2>2. NoFacts \in [All -> Types] /\ \A y \in All : NoFacts[y] = "none"
    BY NoFactsThere
  <2>3. head = [vars |-> NoFacts, nil |-> f]
    BY DEF Facts
  <2> HIDE DEF f, block, head
  <2> QED BY <2>1, <2>2, <2>3 DEF Tables, All, f, head
<1> HIDE DEF block, head
<1>7. /\ env' \in Seq(Stores) /\ Len(env') \in {Top, Top + 2} /\ Top # Top + 2
      /\ Len(env') = Top + 2 <=> taken
      /\ \A k \in 1..Top : env'[k] = env[k]
      /\ \A k \in 1..Top : \A y \in Names : scopes[k].vars[y] = "pointer" => env'[k][y] # "nil"
      /\ FactsTo(scopes, env', Top)
  BY <1>1, EnteredOrNot
<1>8. ASSUME target = "default", narrows, NEW k \in 1..Top, BindsTo(scopes, x, k, Top) PROVE env'[k][x] # "nil"
  <2>1. k = Home(x)
    BY <1>8, HomeFacts DEF NilInv
  <2> QED BY <1>1, <1>2, <1>7, <1>8, <2>1
<1>9. Opens(block, head)
  <2>1. \A t \in tied' : t \in tied /\ env'[t[3]] = env[t[3]]
    BY <1>1, <1>7 DEF NilInv, NilTypeOK, Top
  <2> QED BY <1>1, <1>4, <1>5, <1>6, <1>7, <2>1 DEF Opens, NilInv, NilSafe
<1>10. PassedThen(block)
  BY <1>5 DEF PassedThen
<1>11. TargetAgrees(block)
  <2>1. 1 \in 1..Len(arms)
    BY ArmListShapes
  <2>2. ASSUME left # "none"
        PROVE  Len(env') = Top /\ \E i \in 1 + 1..Len(arms) : arms[i] = left
    <3>1. ~ taken /\ left = target
      BY <1>2, <2>2
    <3>2. Lists(arms, left) /\ arms[1] # left
      BY <1>2, <2>2, <3>1
    <3> QED BY <1>7, <3>1, <3>2, ArmListShapes
  <2>3. ASSUME left = "none", Len(env') = Top PROVE ~ Lists(arms, "default")
    BY <1>2, <1>7, <2>3
  <2>4. ASSUME left = "default", narrows, NEW k \in 1..Top, BindsTo(scopes, x, k, Top) PROVE env'[k][x] # "nil"
    BY <1>2, <1>8, <2>4
  <2> QED BY <1>5, <2>1, <2>2, <2>3, <2>4 DEF TargetAgrees
<1>12. ASSUME Len(env') = Top + 2, NEW y \in Names
       PROVE  HeadIsTrue(scopes, head, env', Top, y) /\ head.vars[y] # "pointer"
  <2>1. taken /\ arms[1] \in {"nil", "default"}
    BY <1>7, <1>12, ArmListShapes
  <2>2. ASSUME head.nil[y] = "nonnull", NEW k \in 1..Top, BindsTo(scopes, y, k, Top) PROVE env'[k][y] # "nil"
    BY <1>2, <1>6, <1>8, <2>1, <2>2
  <2> QED BY <1>6, <2>2 DEF HeadIsTrue
<1> QED BY <1>1, <1>7, <1>9, <1>10, <1>11, <1>12, OpeningStep

-----------------------------------------------------------------------------
(* Conditions.                                                             *)

\* A condition with one operand is one comparison, or something else.
LEMMA OneOperand ==
    ASSUME NEW c \in Conditions, NEW x \in Checked(c)
    PROVE  Operands(c) = 2 \/ (Operands(c) = 1 /\ c.join = "and" /\ c.other = "none" /\ Checked(c) = {x})
<1> DEFINE S == Checked(c)
<1>1. IsFiniteSet(S)
  <2>1. S \subseteq Names \cup Errors
    BY DEF Checked, All
  <2>2. IsFiniteSet(Names \cup Errors)
    BY FiniteAssumption, FS_Union
  <2> QED BY <2>1, <2>2, FS_Subset
<1>2. Cardinality(S) \in Nat /\ Cardinality(S) # 0
  BY <1>1, FS_CardinalityType, FS_EmptySet
<1>3. Operands(c) = Cardinality(S) + (IF c.other = "none" THEN 0 ELSE 1) /\ Operands(c) \in 1..2
      /\ (Operands(c) = 1 => c.join = "and")
  BY DEF Operands, Conditions
<1> HIDE DEF S
<1>4. Operands(c) = 2 \/ (Operands(c) = 1 /\ Cardinality(S) = 1 /\ c.other = "none")
  BY <1>2, <1>3
<1>5. ASSUME Cardinality(S) = 1 PROVE S = {x}
  <2>1. IsFiniteSet(S \ {x}) /\ Cardinality(S \ {x}) = Cardinality(S) - 1
    BY <1>1, FS_RemoveElement DEF S
  <2>2. S \ {x} = {}
    BY <1>5, <2>1, FS_EmptySet
  <2> QED BY <2>2 DEF S
<1> QED BY <1>3, <1>4, <1>5 DEF S

\* A comparison that a condition makes.
LEMMA CheckedName ==
    ASSUME NEW c \in Conditions, NEW x \in Checked(c)
    PROVE  c.checks[x] \in {"ne", "eq"} /\ c.join \in {"and", "or"} /\ x \in All
<1>1. c.checks \in [All -> Checks] /\ c.join \in {"and", "or"}
  BY DEF Conditions
<1> QED BY <1>1 DEF Checked, Checks

IsNil(x) == env[Home(x)][x] = "nil"

\* What a condition that comes out true, or false, says of its comparisons.
LEMMA OutcomeTrue ==
    ASSUME NEW c \in Conditions, TRUE \in Outcomes(c)
    PROVE  /\ c.join = "and" => \A n \in Checked(c) : IsNil(n) <=> c.checks[n] = "eq"
           /\ c.join \in {"and", "or"}
<1>1. c.join \in {"and", "or"}
  BY DEF Conditions
<1>2. ASSUME c.join = "and", NEW n \in Checked(c) PROVE IsNil(n) <=> c.checks[n] = "eq"
  <2>1. ~ Decided(c)
    BY <1>2 DEF Outcomes
  <2>2. Passes(c, n) # (c.join = "or")
    BY <2>1 DEF Decided
  <2> QED BY <1>2, <2>2 DEF Passes, IsNil
<1> QED BY <1>1, <1>2

LEMMA OutcomeFalse ==
    ASSUME NEW c \in Conditions, FALSE \in Outcomes(c)
    PROVE  /\ c.join = "or" => \A n \in Checked(c) : ~ (IsNil(n) <=> c.checks[n] = "eq")
           /\ c.join = "and" /\ c.other = "none" => \E n \in Checked(c) : ~ (IsNil(n) <=> c.checks[n] = "eq")
           /\ c.join \in {"and", "or"}
<1>1. c.join \in {"and", "or"}
  BY DEF Conditions
<1>2. ASSUME c.join = "or", NEW n \in Checked(c) PROVE ~ (IsNil(n) <=> c.checks[n] = "eq")
  <2>1. ~ Decided(c)
    BY <1>2 DEF Outcomes
  <2>2. Passes(c, n) # (c.join = "or")
    BY <2>1 DEF Decided
  <2> QED BY <1>2, <2>2 DEF Passes, IsNil
<1>3. ASSUME c.join = "and", c.other = "none" PROVE \E n \in Checked(c) : ~ (IsNil(n) <=> c.checks[n] = "eq")
  <2>1. Decided(c)
    BY <1>3 DEF Outcomes
  <2>2. PICK n \in Checked(c) : Passes(c, n) = (c.join = "or")
    BY <2>1 DEF Decided
  <2> QED BY <1>3, <2>2 DEF Passes, IsNil
<1> QED BY <1>1, <1>2, <1>3

\* What an if may take from its condition, on either side: the join trap keeps
\* out the compound conditions that give less than the checker takes.
LEMMA ThenIsTrue ==
    ASSUME NEW c \in Conditions, ~ Lossy(c), TRUE \in Outcomes(c), NEW x \in Names, c.checks[x] # "none"
    PROVE  /\ c.checks[x] \in {"ne", "eq"}
           /\ c.checks[x] = "ne" => ~ IsNil(x)
           /\ c.checks[x] = "eq" => IsNil(x) \/ ~ NonNull(scopes, x)
<1>1. x \in Checked(c)
  BY DEF Checked, All
<1>2. c.checks[x] \in {"ne", "eq"}
  BY <1>1, CheckedName
<1>3. CASE Operands(c) = 2
  <2>1. /\ c.join = "or" => c.checks[x] # "ne"
        /\ ~ NonNull(scopes, x)
    BY <1>3 DEF Lossy
  <2> QED BY <1>1, <1>2, <2>1, OutcomeTrue
<1>4. CASE Operands(c) = 1 /\ c.join = "and"
  BY <1>1, <1>2, <1>4, OutcomeTrue
<1> QED BY <1>1, <1>2, <1>3, <1>4, OneOperand

LEMMA ElseIsTrue ==
    ASSUME NEW c \in Conditions, ~ Lossy(c), FALSE \in Outcomes(c), NEW x \in All, c.checks[x] # "none"
    PROVE  /\ x \in Names => /\ c.checks[x] = "eq" => ~ IsNil(x)
                             /\ c.checks[x] = "ne" => IsNil(x) \/ ~ NonNull(scopes, x)
           /\ x \in Errors /\ c.checks[x] = "ne" => IsNil(x)
<1>1. x \in Checked(c)
  BY DEF Checked, All
<1>2. c.checks[x] \in {"ne", "eq"} /\ c.join \in {"and", "or"}
  BY <1>1, CheckedName
<1>3. CASE Operands(c) = 2
  <2>1. /\ c.join = "and" /\ x \in Names => c.checks[x] # "eq"
        /\ c.join = "and" /\ x \in Errors => c.checks[x] # "ne"
        /\ x \in Names => ~ NonNull(scopes, x)
    BY <1>3 DEF Lossy
  <2>2. c.join = "or" => ~ (IsNil(x) <=> c.checks[x] = "eq")
    BY <1>1, OutcomeFalse
  <2> QED BY <1>2, <2>1, <2>2
<1>4. CASE Operands(c) = 1 /\ c.join = "and" /\ c.other = "none" /\ Checked(c) = {x}
  <2>1. ~ (IsNil(x) <=> c.checks[x] = "eq")
    BY <1>4, OutcomeFalse
  <2> QED BY <1>2, <2>1
<1> QED BY <1>1, <1>3, <1>4, OneOperand

\* The block of an if and its facts.
LEMMA ThenBlockShape ==
    ASSUME NEW f \in [All -> Checks], NEW block, block = [NewBlock("then") EXCEPT !.checks = f]
    PROVE  block \in Blocks /\ block.kind = "then" /\ ~ block.ends /\ block.checks = f
<1> DEFINE b == NewBlock("then")
<1>1. b \in Blocks /\ b.kind = "then" /\ ~ b.ends
  BY NewBlockShape
<1> HIDE DEF b
<1>2. block = [b EXCEPT !.checks = f]
  BY DEF b
<1> QED BY <1>1, <1>2 DEF Blocks

LEMMA NarrowedShape ==
    ASSUME NEW f \in [All -> Checks], NEW kind \in {"then", "else"}, NEW g, g = Narrowed(f, kind)
    PROVE  /\ Facts(g) \in Tables /\ Facts(g).vars = NoFacts /\ Facts(g).nil = g
           /\ \A x \in All : /\ g[x] = "none" <=> f[x] = "none"
                             /\ g[x] = "nonnull" <=> f[x] = (IF kind = "then" THEN "ne" ELSE "eq")
                             /\ g[x] = "nullable" <=> f[x] = (IF kind = "then" THEN "eq" ELSE "ne")
                             /\ Facts(g).vars[x] = "none"
<1>1. \A x \in All : f[x] \in {"none", "ne", "eq"}
  BY DEF Checks
<1>2. \A x \in All : g[x] = CASE f[x] = "none" -> "none"
                              [] f[x] = (IF kind = "then" THEN "ne" ELSE "eq") -> "nonnull"
                              [] OTHER -> "nullable"
  BY DEF Narrowed
<1>3. ASSUME NEW x \in All
      PROVE  /\ g[x] \in {"none", "nonnull", "nullable"}
             /\ g[x] = "none" <=> f[x] = "none"
             /\ g[x] = "nonnull" <=> f[x] = (IF kind = "then" THEN "ne" ELSE "eq")
             /\ g[x] = "nullable" <=> f[x] = (IF kind = "then" THEN "eq" ELSE "ne")
  <2>1. CASE f[x] = "none"
    BY <1>2, <2>1
  <2>2. CASE f[x] = "ne"
    BY <1>2, <2>2
  <2>3. CASE f[x] = "eq"
    BY <1>2, <2>3
  <2> QED BY <1>1, <2>1, <2>2, <2>3
<1>4. DOMAIN g = All /\ g = [x \in All |-> g[x]]
  BY DEF Narrowed
<1>5. g \in [All -> States]
  BY <1>3, <1>4 DEF States
<1>6. NoFacts \in [All -> Types] /\ \A x \in All : NoFacts[x] = "none"
  BY NoFactsThere
<1>7. Facts(g) = [vars |-> NoFacts, nil |-> g]
  BY DEF Facts
<1>8. Facts(g) \in Tables /\ Facts(g).vars = NoFacts /\ Facts(g).nil = g
  BY <1>5, <1>6, <1>7 DEF Tables
<1> QED BY <1>3, <1>6, <1>8

\* The other operand is evaluated where the comparisons before it leave it open,
\* and what they said makes its dereference safe.
LEMMA OtherOperand ==
    ASSUME NilInv, Here, NEW c \in Conditions, OtherIsSafe(c), c.other \in Names, Bound(c.other), ~ Decided(c)
    PROVE  ~ IsNil(c.other)
<1> DEFINE x == c.other
<1>1. CASE TypeOf(x) # "nullable"
  BY <1>1, VariableFacts DEF IsNil, NilInv
<1>2. CASE c.checks[x] = (IF c.join = "and" THEN "ne" ELSE "eq")
  <2>1. x \in Checked(c) /\ c.join \in {"and", "or"}
    BY <1>2 DEF Checked, All, Conditions
  <2>2. Passes(c, x) # (c.join = "or")
    BY <2>1 DEF Decided
  <2>3. CASE c.join = "and"
    BY <1>2, <2>2, <2>3 DEF Passes, IsNil
  <2>4. CASE c.join = "or"
    BY <1>2, <2>2, <2>4 DEF Passes, IsNil
  <2> QED BY <2>1, <2>3, <2>4
<1> QED BY <1>1, <1>2 DEF OtherIsSafe

\* An if opens its first branch with the facts of its condition, and the run
\* enters it if the condition is true.
LEMMA IfStep ==
    ASSUME NilInv, Traps = {}, NEW c \in Conditions, If(c)
    PROVE  NilInv'
<1> DEFINE block == [NewBlock("then") EXCEPT !.checks = c.checks]
           g == Narrowed(c.checks, "then")
           head == Facts(g)
<1>1. /\ Runs /\ OtherIsSafe(c) /\ ~ Lossy(c) /\ Open(block, head)
      /\ \A n \in Checked(c) \cup ({c.other} \cap Names) : Bound(n)
      /\ crashed' = (/\ ~Decided(c) /\ c.other \in Names
                     /\ env[Home(c.other)][c.other] = "nil")
      /\ \E b \in Outcomes(c) : IF b THEN Enter ELSE UNCHANGED env
      /\ UNCHANGED <<companions, tied>>
  BY DEF If, Deeper, Allowed
<1>2. c.checks \in [All -> Checks]
  BY DEF Conditions
<1> HIDE DEF block, g
<1>3. block \in Blocks /\ block.kind = "then" /\ ~ block.ends /\ block.checks = c.checks
  BY <1>2, ThenBlockShape DEF block
<1>4. /\ head \in Tables /\ head.vars = NoFacts /\ head.nil = g
      /\ \A x \in Names : /\ g[x] = "none" <=> c.checks[x] = "none"
                          /\ g[x] = "nonnull" <=> c.checks[x] = "ne"
                          /\ g[x] = "nullable" <=> c.checks[x] = "eq"
                          /\ head.vars[x] = "none"
  BY <1>2, NarrowedShape DEF g, All
<1>5. head = Facts(Narrowed(block.checks, "then"))
  BY <1>3 DEF g
<1> HIDE DEF head
<1>6. crashed' = FALSE
  BY <1>1, OtherOperand DEF IsNil, Runs
<1>7. (TRUE \in Outcomes(c) /\ Enter) \/ (FALSE \in Outcomes(c) /\ env' = env)
  <2>1. Outcomes(c) \subseteq BOOLEAN
    BY DEF Outcomes
  <2> QED BY <1>1, <2>1
<1>8. /\ env' \in Seq(Stores) /\ Len(env') \in {Top, Top + 2} /\ Top # Top + 2
      /\ Enter => Len(env') = Top + 2
      /\ env' = env => Len(env') = Top
      /\ \A k \in 1..Top : env'[k] = env[k]
      /\ \A k \in 1..Top : \A x \in Names : scopes[k].vars[x] = "pointer" => env'[k][x] # "nil"
      /\ FactsTo(scopes, env', Top)
  BY <1>1, <1>7, EnteredOrNot
<1>9. /\ Len(env') = Top + 2 => TRUE \in Outcomes(c)
      /\ Len(env') = Top => FALSE \in Outcomes(c)
  BY <1>7, <1>8
<1>10. ASSUME NEW x, NEW k \in 1..Top, BindsTo(scopes, x, k, Top)
       PROVE  env'[k][x] = "nil" <=> IsNil(x)
  BY <1>8, <1>10, HomeFacts DEF IsNil, NilInv
<1>11. \A x : NonNull(scopes, x) <=> SureTo(scopes, x, Top)
  BY LookedUp, Shapes DEF Top, NilInv
<1>12. tied \subseteq Errors \X Names \X (1..Top)
  BY DEF NilInv, NilTypeOK, Top
<1>13. Top \in 1..Top
  <2>1. Top \in Nat \ {0}
    BY Shapes DEF NilInv
  <2> QED BY <2>1
<1>14. Opens(block, head)
  <2>1. \A t \in tied' : t \in tied /\ env'[t[3]] = env[t[3]]
    BY <1>1, <1>8, <1>12
  <2> QED BY <1>1, <1>3, <1>4, <1>5, <1>6, <1>8, <2>1 DEF Opens
<1>15. PassedThen(block)
  <2> SUFFICES ASSUME Len(env') = Top
               PROVE  /\ \A x \in Names : \A k \in 1..Top : BindsTo(scopes, x, k, Top) =>
                           /\ c.checks[x] = "eq" => env'[k][x] # "nil"
                           /\ c.checks[x] = "ne" /\ scopes[k].vars[x] = "nullable" => ~ SureTo(scopes, x, Top)
                      /\ \A t \in tied' : c.checks[t[1]] = "ne" => env'[t[3]][t[1]] = "nil"
    BY <1>3 DEF PassedThen
  <2>1. FALSE \in Outcomes(c)
    BY <1>9
  <2>2. ASSUME NEW x \in Names, NEW k \in 1..Top, BindsTo(scopes, x, k, Top)
        PROVE  /\ c.checks[x] = "eq" => env'[k][x] # "nil"
               /\ c.checks[x] = "ne" => ~ SureTo(scopes, x, Top)
    <3>1. x \in All
      BY DEF All
    <3>2. c.checks[x] # "none" => /\ c.checks[x] = "eq" => ~ IsNil(x)
                                  /\ c.checks[x] = "ne" => IsNil(x) \/ ~ NonNull(scopes, x)
      BY <1>1, <2>1, <3>1, ElseIsTrue
    <3>3. SureTo(scopes, x, Top) => env'[k][x] # "nil"
      BY <1>8, <1>13, <2>2 DEF FactsTo
    <3> QED BY <1>10, <1>11, <2>2, <3>2, <3>3
  <2>3. ASSUME NEW t \in tied', c.checks[t[1]] = "ne" PROVE env'[t[3]][t[1]] = "nil"
    <3>1. t \in tied /\ t[1] \in Errors /\ t[1] \in All /\ t[3] \in 1..Top
      BY <1>1, <1>12 DEF All
    <3>2. BindsTo(scopes, t[1], t[3], Top)
      BY <3>1 DEF NilInv, TiesHold
    <3>3. IsNil(t[1])
      BY <1>1, <2>1, <2>3, <3>1, ElseIsTrue
    <3> QED BY <1>10, <3>1, <3>2, <3>3
  <2> QED BY <2>2, <2>3
<1>16. TargetAgrees(block)
  BY <1>3 DEF TargetAgrees
<1>17. ASSUME Len(env') = Top + 2, NEW x \in Names
       PROVE  HeadIsTrue(scopes, head, env', Top, x) /\ head.vars[x] # "pointer"
  <2>1. c.checks[x] # "none" => /\ c.checks[x] = "ne" => ~ IsNil(x)
                                /\ c.checks[x] = "eq" => IsNil(x) \/ ~ NonNull(scopes, x)
    BY <1>1, <1>9, <1>17, ThenIsTrue
  <2>2. ASSUME head.nil[x] = "nonnull", NEW k \in 1..Top, BindsTo(scopes, x, k, Top) PROVE env'[k][x] # "nil"
    BY <1>4, <1>10, <2>1, <2>2
  <2>3. ASSUME head.nil[x] = "nullable", NEW k \in 1..Top, BindsTo(scopes, x, k, Top), SureTo(scopes, x, Top)
        PROVE  FALSE
    <3>1. env'[k][x] # "nil"
      BY <1>8, <1>13, <2>3 DEF FactsTo
    <3> QED BY <1>4, <1>10, <1>11, <2>1, <2>3, <3>1
  <2> QED BY <1>4, <2>2, <2>3 DEF HeadIsTrue
<1> QED BY <1>1, <1>8, <1>14, <1>15, <1>16, <1>17, OpeningStep

-----------------------------------------------------------------------------
(* Blocks that end.                                                        *)

PreviousHalves(l, t, m, p) ==
    /\ m \in Nat \ {0} /\ p \in Nat \ {0} /\ p = 2 * m /\ t = p + 2 /\ l = m + 1
    /\ m \in 0..l /\ m \in 1..m /\ m \in 1..l /\ p \in 0..t /\ p \in 1..p
    /\ 1..p = (1..p - 1) \cup {p} /\ p \notin 1..p - 1 /\ p - 1 \in Nat
    /\ 1..m = (1..m - 1) \cup {m} /\ m \notin 1..m - 1
    /\ \A j \in 1..p - 1 : j \in 1..p /\ j < p
    /\ \A j \in 1..m - 1 : j \in 1..l - 1
    /\ \A j \in 1..m : j \in 1..l - 1 /\ j \in 1..l /\ j # l
    /\ \A k \in 1..p : k \in 1..t /\ k <= p
    /\ \A k \in 1..t : k <= p => k \in 1..p
    /\ \A j \in 2..m : /\ j \in 2..l /\ j \in 1..l /\ j \in 1..m /\ j # l
                       /\ 2 * j - 1 \in 1..p - 1 /\ 2 * j - 2 \in 1..p - 1

LEMMA PreviousHalf ==
    ASSUME NEW l \in Nat \ {0}, l # 1, NEW t, t = 2 * l
    PROVE  PreviousHalves(l, t, l - 1, t - 2)
<1> DEFINE m == l - 1
           p == t - 2
<1>1. m \in Nat \ {0} /\ p = 2 * m /\ t = p + 2 /\ l = m + 1
  OBVIOUS
<1> HIDE DEF m, p
<1>2. p \in Nat \ {0}
  BY <1>1
<1>3. PreviousHalves(l, t, m, p)
  BY <1>1, <1>2 DEF PreviousHalves
<1> QED BY <1>3 DEF m, p

\* What is left of the run's scopes.
LEMMA EnvClosed ==
    ASSUME NilTypeOK, Level # 1, NEW m, m = Level - 1, NEW p, p = Top - 2,
           IF Here THEN Leave(Top - 2) ELSE UNCHANGED env
    PROVE  /\ env' \in Seq(Stores) /\ DOMAIN env' = 1..Len(env') /\ Len(env') \in 0..p
           /\ \E d \in 0..m : Len(env') = 2 * d
           /\ \A k \in 1..Len(env') : k \in 1..Len(env) /\ env'[k] = env[k]
           /\ Len(env') # p => Len(env) = Len(env')
           /\ Len(env') = p => Len(env) \in {p, p + 2}
           /\ Len(env') <= Len(env)
<1>1. /\ Level \in Nat \ {0} /\ Top = 2 * Level /\ Len(env) \in Nat /\ Len(env) <= Top
      /\ env \in Seq(Stores) /\ \E d \in 0..Level : Len(env) = 2 * d
  BY Shapes DEF NilTypeOK
<1>2. p = 2 * m /\ m \in Nat \ {0} /\ Top = p + 2 /\ Level = m + 1
  BY <1>1
<1>3. CASE Len(env) = Top
  <2>1. env' = SubSeq(env, 1, p) /\ p \in 0..Len(env)
    BY <1>1, <1>2, <1>3 DEF Here, Leave, Top
  <2>2. env' \in Seq(Stores) /\ Len(env') = p /\ \A k \in 1..p : env'[k] = env[k]
    BY <1>1, <2>1, FirstOf
  <2>3. m \in 0..m
    BY <1>2
  <2> QED BY <1>1, <1>2, <1>3, <2>2, <2>3
<1>4. CASE Len(env) # Top
  <2>1. env' = env
    BY <1>4 DEF Here, Top
  <2>2. PICK d \in 0..Level : Len(env) = 2 * d
    BY <1>1
  <2>3. d \in 0..m
    BY <1>1, <1>2, <1>4, <2>2
  <2>4. Len(env) \in 0..p
    BY <1>2, <2>2, <2>3
  <2>5. DOMAIN env = 1..Len(env)
    BY <1>1
  <2> QED BY <1>1, <2>1, <2>2, <2>3, <2>4, <2>5
<1> QED BY <1>3, <1>4

\* The last of some blocks has ended, or goes on.
EndMarked(b, m, e) == [b EXCEPT ![m].ends = e]

LEMMA LastMarked ==
    ASSUME NEW b \in Seq(Blocks), NEW m \in Nat \ {0}, Len(b) = m, NEW e \in BOOLEAN,
           NEW r, r = EndMarked(b, m, e)
    PROVE  /\ r \in Seq(Blocks) /\ Len(r) = m
           /\ r[m].ends = e /\ \A j \in 1..m : j # m => r[j].ends = b[j].ends
           /\ \A j \in 1..m : SameBut(b[j], r[j])
<1> DEFINE c == [b[m] EXCEPT !.ends = e]
<1>1. m \in 1..m /\ b[m] \in Blocks /\ DOMAIN b = 1..m
  <2>1. m \in 1..m
    OBVIOUS
  <2> QED BY <2>1
<1>2. c \in Blocks /\ c.ends = e /\ SameBut(b[m], c)
  BY <1>1, EndNoted DEF SameBut
<1>3. r = [b EXCEPT ![m] = c]
  BY DEF EndMarked
<1> HIDE DEF c
<1>4. /\ r \in Seq(Blocks) /\ Len(r) = m /\ r[m] = c
      /\ \A j \in 1..m : j # m => r[j] = b[j]
  BY <1>1, <1>2, <1>3
<1> QED BY <1>2, <1>4 DEF SameBut

LEMMA BlocksClosed ==
    ASSUME NilTypeOK, NEW m \in Nat \ {0}, Level = m + 1, NEW e \in BOOLEAN,
           blocks' = EndMarked(SubSeq(blocks, 1, m), m, e)
    PROVE  /\ blocks' \in Seq(Blocks) /\ Len(blocks') = m
           /\ blocks'[m].ends = e /\ \A j \in 1..m : j # m => blocks'[j].ends = blocks[j].ends
           /\ \A j \in 1..m : SameBut(blocks[j], blocks'[j])
<1> DEFINE b == SubSeq(blocks, 1, m)
<1>1. m \in 0..Len(blocks) /\ blocks \in Seq(Blocks)
  <2>1. m \in 0..m + 1
    OBVIOUS
  <2> QED BY <2>1 DEF NilTypeOK, Level
<1>2. b \in Seq(Blocks) /\ Len(b) = m /\ \A j \in 1..m : b[j] = blocks[j]
  BY <1>1, FirstOf
<1>3. blocks' = EndMarked(b, m, e)
  OBVIOUS
<1> HIDE DEF b
<1>4. /\ blocks' \in Seq(Blocks) /\ Len(blocks') = m
      /\ blocks'[m].ends = e /\ \A j \in 1..m : j # m => blocks'[j].ends = b[j].ends
      /\ \A j \in 1..m : SameBut(b[j], blocks'[j])
  BY <1>2, <1>3, LastMarked
<1> QED BY <1>2, <1>4 DEF SameBut

LEMMA SetNilShape ==
    ASSUME NEW ss \in Seq(Tables), NEW n \in Nat \ {0}, n = Len(ss), NEW f \in [All -> {"none", "nonnull"}],
           NEW tt, tt = SetNil(ss, f)
    PROVE  /\ tt \in Seq(Tables) /\ Len(tt) = n
           /\ \A j \in 1..n - 1 : tt[j] = ss[j]
           /\ \A j \in 1..n : tt[j].vars = ss[j].vars
           /\ \A x \in All : tt[n].nil[x] = (IF f[x] = "nonnull" THEN "nonnull" ELSE ss[n].nil[x])
<1> DEFINE g == [x \in All |-> IF f[x] # "none" THEN f[x] ELSE ss[n].nil[x]]
           row == [ss[n] EXCEPT !.nil = g]
<1>1. n \in 1..n /\ n \notin 1..n - 1 /\ \A j \in 1..n : j = n \/ j \in 1..n - 1
  OBVIOUS
<1>2. ss[n] \in Tables
  BY <1>1
<1>3. tt = [ss EXCEPT ![n] = row]
  BY DEF SetNil
<1>4. g \in [All -> States] /\ \A x \in All : g[x] = (IF f[x] = "nonnull" THEN "nonnull" ELSE ss[n].nil[x])
  <2>1. ss[n].nil \in [All -> States]
    BY <1>2 DEF Tables
  <2> QED BY <2>1 DEF States
<1> HIDE DEF g
<1>5. row \in Tables /\ row.vars = ss[n].vars /\ row.nil = g
  BY <1>2, <1>4 DEF Tables
<1> HIDE DEF row
<1>6. tt \in Seq(Tables) /\ Len(tt) = n /\ tt[n] = row /\ \A j \in 1..n - 1 : tt[j] = ss[j]
  <2> HIDE DEF Tables
  <2> QED BY <1>1, <1>3, <1>5
<1> QED BY <1>1, <1>4, <1>5, <1>6

\* The innermost block ends, and its end gives these facts to the scope around it.
Closes(ends, f) ==
    /\ ends \in BOOLEAN /\ f \in [All -> {"none", "nonnull"}] /\ Level # 1
    /\ Close(ends, f) /\ UNCHANGED <<companions, crashed>>

LEMMA ScopesClosed ==
    ASSUME NilTypeOK, NEW p \in Nat \ {0}, Top = p + 2, NEW f \in [All -> {"none", "nonnull"}],
           scopes' = SetNil(SubSeq(scopes, 1, p), f)
    PROVE  /\ scopes' \in Seq(Tables) /\ Len(scopes') = p /\ DOMAIN scopes' = 1..p
           /\ \A j \in 1..p - 1 : scopes'[j] = scopes[j]
           /\ \A j \in 1..p : scopes'[j].vars = scopes[j].vars
           /\ \A x \in All : scopes'[p].nil[x] = (IF f[x] = "nonnull" THEN "nonnull" ELSE scopes[p].nil[x])
<1> DEFINE base == SubSeq(scopes, 1, p)
<1>1. scopes \in Seq(Tables) /\ p \in 0..Len(scopes)
  <2>1. p \in 0..p + 2
    OBVIOUS
  <2> QED BY <2>1 DEF NilTypeOK, Top
<1>2. base \in Seq(Tables) /\ Len(base) = p /\ \A j \in 1..p : base[j] = scopes[j]
  BY <1>1, FirstOf
<1>3. scopes' = SetNil(base, f)
  OBVIOUS
<1> HIDE DEF base
<1>4. /\ scopes' \in Seq(Tables) /\ Len(scopes') = p
      /\ \A j \in 1..p - 1 : scopes'[j] = base[j]
      /\ \A j \in 1..p : scopes'[j].vars = base[j].vars
      /\ \A x \in All : scopes'[p].nil[x] = (IF f[x] = "nonnull" THEN "nonnull" ELSE base[p].nil[x])
  BY <1>2, <1>3, SetNilShape
<1>5. p \in 1..p /\ \A j \in 1..p - 1 : j \in 1..p
  OBVIOUS
<1> QED BY <1>2, <1>4, <1>5

\* Where the run is past the block, the facts that the block's end gives are
\* true, and a block that diverges is one that the run does not get past.
LEMMA Closing ==
    ASSUME NilInv, NEW ends, NEW f, Closes(ends, f),
           ends => Len(env') # Top - 2,
           Len(env') = Top - 2 =>
               \A x \in Names : f[x] = "nonnull" =>
                   \A k \in 1..Top - 2 : BindsTo(scopes, x, k, Top - 2) => env[k][x] # "nil"
    PROVE  NilInv'
<1> DEFINE m == Level - 1
           p == Top - 2
           n == Len(env')
<1>1. /\ Level \in Nat \ {0} /\ Level # 1 /\ Top = 2 * Level /\ NilTypeOK
      /\ ends \in BOOLEAN /\ f \in [All -> {"none", "nonnull"}]
      /\ DOMAIN scopes = 1..Top
      /\ tied' = {t \in tied : t[3] <= p} /\ UNCHANGED <<companions, crashed>>
  BY Shapes DEF NilInv, Closes, Close
<1>2. PreviousHalves(Level, Top, m, p)
  BY <1>1, PreviousHalf
<1>3. /\ scopes' = SetNil(SubSeq(scopes, 1, p), f)
      /\ blocks' = EndMarked(SubSeq(blocks, 1, m), m, ends)
      /\ IF Here THEN Leave(Top - 2) ELSE UNCHANGED env
  BY DEF Closes, Close, EndMarked
<1>4. /\ env' \in Seq(Stores) /\ DOMAIN env' = 1..n /\ n \in 0..p
      /\ \E d \in 0..m : n = 2 * d
      /\ \A k \in 1..n : k \in 1..Len(env) /\ env'[k] = env[k]
      /\ n # p => Len(env) = n
      /\ n <= Len(env)
  BY <1>1, <1>3, EnvClosed
<1>5. /\ ends => n # p
      /\ n = p => \A x \in Names : f[x] = "nonnull" =>
                     \A k \in 1..p : BindsTo(scopes, x, k, p) => env[k][x] # "nil"
  OBVIOUS
<1> HIDE DEF m, p, n
<1>6. m \in Nat \ {0} /\ p \in Nat \ {0} /\ p = 2 * m /\ Top = p + 2 /\ Level = m + 1
  BY <1>2 DEF PreviousHalves
<1>7. /\ blocks' \in Seq(Blocks) /\ Len(blocks') = m
      /\ blocks'[m].ends = ends /\ \A j \in 1..m : j # m => blocks'[j].ends = blocks[j].ends
      /\ \A j \in 1..m : SameBut(blocks[j], blocks'[j])
  BY <1>1, <1>3, <1>6, BlocksClosed
<1>8. \A j \in 1..m : /\ blocks'[j].kind = blocks[j].kind /\ blocks'[j].checks = blocks[j].checks
                      /\ blocks'[j].joined = blocks[j].joined /\ blocks'[j].arms = blocks[j].arms
                      /\ blocks'[j].at = blocks[j].at /\ blocks'[j].target = blocks[j].target
  BY <1>7 DEF SameBut
<1>9. /\ scopes' \in Seq(Tables) /\ Len(scopes') = p /\ DOMAIN scopes' = 1..p
      /\ \A j \in 1..p - 1 : scopes'[j] = scopes[j]
      /\ \A j \in 1..p : scopes'[j].vars = scopes[j].vars
      /\ \A x \in All : scopes'[p].nil[x] = (IF f[x] = "nonnull" THEN "nonnull" ELSE scopes[p].nil[x])
  BY <1>1, <1>3, <1>6, ScopesClosed
<1>10. Level' = m /\ Top' = p
  BY <1>7, <1>9 DEF Level, Top
<1>11. ASSUME NEW x, NEW q \in 1..p - 1
       PROVE  /\ \A k : BindsTo(scopes', x, k, q) <=> BindsTo(scopes, x, k, q)
              /\ SureTo(scopes', x, q) <=> SureTo(scopes, x, q)
  <2>1. p - 1 \in Nat
    BY <1>2 DEF PreviousHalves
  <2> QED BY <1>9, <2>1, SamePrefix
<1>12. ASSUME NEW x
       PROVE  \A q \in 1..p : \A k : BindsTo(scopes', x, k, q) <=> BindsTo(scopes, x, k, q)
  BY <1>6, <1>9, SameBinds
<1>13. ASSUME NEW x \in Names
       PROVE  /\ f[x] = "nonnull" => SureTo(scopes', x, p)
              /\ f[x] # "nonnull" => \A q \in 1..p : SureTo(scopes', x, q) <=> SureTo(scopes, x, q)
  <2>1. x \in All
    BY DEF All
  <2>2. ASSUME f[x] = "nonnull" PROVE SureTo(scopes', x, p)
    <3>1. scopes'[p].nil[x] = "nonnull"
      BY <1>9, <2>1, <2>2
    <3> QED BY <1>6, <3>1, LastScope
  <2>3. ASSUME f[x] # "nonnull" PROVE \A q \in 1..p : SureTo(scopes', x, q) <=> SureTo(scopes, x, q)
    <3>1. \A j \in 1..p : j \in 1..p - 1 \/ j = p
      BY <1>2 DEF PreviousHalves
    <3>2. \A j \in 1..p : scopes'[j].vars[x] = scopes[j].vars[x] /\ scopes'[j].nil[x] = scopes[j].nil[x]
      BY <1>9, <2>1, <2>3, <3>1
    <3> QED BY <1>6, <3>2, SameName
  <2> QED BY <2>2, <2>3
<1>14. \A k \in 1..n : k \in 1..p /\ k <= p
  BY <1>4, <1>6
<1>15. tied' \subseteq Errors \X Names \X (1..p)
  <2>1. tied \subseteq Errors \X Names \X (1..Top)
    BY <1>1 DEF NilTypeOK, Top
  <2>2. \A k \in 1..Top : k <= p => k \in 1..p
    BY <1>2 DEF PreviousHalves
  <2> QED BY <1>1, <2>1, <2>2
<1>16. NilTypeOK'
  <2>1. \A k \in DOMAIN scopes' : \A x \in Names : scopes'[k].vars[x] # "error"
    <3>1. \A k \in 1..p : k \in 1..Top
      BY <1>2 DEF PreviousHalves
    <3>2. \A k \in DOMAIN scopes : \A x \in Names : scopes[k].vars[x] # "error"
      BY <1>1 DEF NilTypeOK
    <3>3. \A k \in 1..p : \A x \in Names : scopes'[k].vars[x] # "error"
      BY <1>1, <1>9, <3>1, <3>2
    <3> QED BY <1>9, <3>3
  <2>2. companions' \in [Errors -> Names \cup {"none"}] /\ crashed' \in BOOLEAN
    BY <1>1 DEF NilTypeOK
  <2> QED BY <1>4, <1>6, <1>7, <1>9, <1>15, <2>1, <2>2 DEF NilTypeOK, n
<1>17. NilSafe' /\ TypesAreHonest'
  <2>1. NilSafe'
    BY <1>1 DEF NilInv, NilSafe
  <2>2. \A k \in DOMAIN env' : k \in DOMAIN env /\ scopes'[k].vars = scopes[k].vars /\ env'[k] = env[k]
    <3>1. DOMAIN env = 1..Len(env)
      BY <1>1, Shapes
    <3> QED BY <1>4, <1>9, <1>14, <3>1
  <2>3. TypesAreHonest'
    BY <2>2 DEF NilInv, TypesAreHonest
  <2> QED BY <2>1, <2>3
<1>18. FactsHold'
  <2> SUFFICES ASSUME NEW q \in 1..n, NEW x \in Names, NEW k \in 1..q,
                      BindsTo(scopes', x, k, q), SureTo(scopes', x, q)
               PROVE  env'[k][x] # "nil"
    BY DEF FactsHold, FactsTo, n
  <2>1. q \in 1..p /\ q \in 1..Len(env) /\ k \in 1..n /\ env'[k] = env[k]
    <3>1. q \in Nat /\ n \in Nat /\ k \in 1..n
      BY <1>4, <1>6
    <3> QED BY <1>4, <1>14, <3>1
  <2>2. BindsTo(scopes, x, k, q)
    BY <1>12, <2>1
  <2>3. CASE SureTo(scopes, x, q)
    BY <2>1, <2>2, <2>3 DEF NilInv, FactsHold, FactsTo
  <2>4. CASE ~ SureTo(scopes, x, q)
    <3>1. f[x] = "nonnull"
      BY <1>13, <2>1, <2>4
    <3>2. q = p
      <4>1. q \in 1..p - 1 \/ q = p
        BY <1>2, <2>1 DEF PreviousHalves
      <4> QED BY <1>11, <2>4, <4>1
    <3>3. n = p /\ k \in 1..p
      BY <1>4, <1>6, <3>2
    <3> QED BY <1>5, <2>1, <2>2, <3>1, <3>2, <3>3
  <2> QED BY <2>3, <2>4
<1>19. FactsStay'
  <2> SUFFICES ASSUME NEW q \in 1..n, NEW r \in 1..q, NEW x \in Names, NEW k \in 1..r,
                      BindsTo(scopes', x, k, q), scopes'[k].vars[x] = "nullable", SureTo(scopes', x, r)
               PROVE  SureTo(scopes', x, q)
    BY DEF FactsStay, StayTo, n
  <2>1. /\ q \in 1..p /\ r \in 1..p /\ k \in 1..p /\ q \in 1..Len(env)
        /\ (q = p /\ (r = p \/ r \in 1..p - 1)) \/ (q \in 1..p - 1 /\ r \in 1..p - 1)
    BY <1>4, <1>6
  <2>2. BindsTo(scopes, x, k, q) /\ scopes[k].vars[x] = "nullable"
    BY <1>9, <1>12, <2>1
  <2>3. ASSUME SureTo(scopes, x, r) PROVE SureTo(scopes, x, q)
    BY <2>1, <2>2, <2>3 DEF NilInv, FactsStay, StayTo
  <2>4. CASE f[x] # "nonnull"
    BY <1>13, <2>1, <2>3, <2>4
  <2>5. CASE q \in 1..p - 1
    BY <1>11, <2>1, <2>3, <2>5
  <2>6. CASE f[x] = "nonnull" /\ q = p
    BY <1>13, <2>6
  <2> QED BY <2>1, <2>4, <2>5, <2>6
<1>20. TiesHold'
  <2> SUFFICES ASSUME NEW t \in tied'
               PROVE  /\ BindsTo(scopes', t[1], t[3], p) /\ BindsTo(scopes', t[2], t[3], p)
                      /\ t[3] <= Len(env') /\ env'[t[3]][t[1]] = "nil" => env'[t[3]][t[2]] # "nil"
    BY <1>10 DEF TiesHold
  <2>1. t \in tied /\ t[3] \in 1..p /\ t[3] \in Nat
    BY <1>1, <1>15
  <2>2. BindsTo(scopes, t[1], t[3], Top) /\ BindsTo(scopes, t[2], t[3], Top)
    BY <2>1 DEF NilInv, TiesHold
  <2>3. BindsTo(scopes, t[1], t[3], p) /\ BindsTo(scopes, t[2], t[3], p)
    <3>1. \A j \in t[3] + 1..p : j \in t[3] + 1..Top
      BY <1>6, <2>1
    <3> QED BY <2>1, <2>2, <3>1 DEF BindsTo
  <2>4. BindsTo(scopes', t[1], t[3], p) /\ BindsTo(scopes', t[2], t[3], p)
    <3>1. p \in 1..p
      BY <1>6
    <3> QED BY <1>12, <2>3, <3>1
  <2>5. ASSUME t[3] <= n PROVE t[3] <= Len(env) /\ env'[t[3]] = env[t[3]]
    <3>1. t[3] \in 1..n
      BY <1>4, <2>1, <2>5
    <3>2. t[3] \in 1..Len(env)
      BY <1>4, <3>1
    <3> QED BY <1>4, <3>1, <3>2
  <2> QED BY <2>1, <2>4, <2>5 DEF NilInv, TiesHold, n
<1>21. \A j \in 2..m : /\ j \in 2..Level /\ j \in 1..m /\ j # Level
                       /\ 2 * j - 1 \in 1..p - 1 /\ 2 * j - 2 \in 1..p - 1
  BY <1>2 DEF PreviousHalves
<1>22. ASSUME NEW j \in 2..m, Passed(j)' PROVE Passed(j) /\ Len(env) = n /\ n = 2 * j - 2
  <2>1. n = 2 * j - 2
    BY <1>22 DEF Passed, n
  <2>2. n # p
    BY <1>6, <1>21, <2>1
  <2> QED BY <1>4, <2>1, <2>2 DEF Passed
<1>23. ASSUME NEW j \in 2..m, ErrorsNil(j), Len(env') >= 2 * j - 2 PROVE ErrorsNil(j)'
  <2> SUFFICES ASSUME NEW t \in tied', t[3] <= 2 * j - 2, blocks'[j].checks[t[1]] = "ne"
               PROVE  env'[t[3]][t[1]] = "nil"
    BY DEF ErrorsNil
  <2>1. t \in tied /\ t[3] \in 1..p
    BY <1>1, <1>15
  <2>2. t[3] \in 1..n
    BY <1>4, <1>21, <1>23, <2>1 DEF n
  <2>3. blocks[j].checks[t[1]] = "ne"
    BY <1>8, <1>21
  <2> QED BY <1>4, <1>23, <2>1, <2>2, <2>3 DEF ErrorsNil
<1>24. BranchFacts'
  BY <1>8, <1>9, <1>10, <1>21 DEF NilInv, BranchFacts
<1>25. SkippedThen'
  <2> SUFFICES ASSUME NEW j \in 2..m, blocks'[j].kind = "then", Passed(j)'
               PROVE  /\ \A x \in Names : \A k \in 1..2 * j - 2 :
                           BindsTo(scopes', x, k, 2 * j - 2) =>
                              /\ blocks'[j].checks[x] = "eq" => env'[k][x] # "nil"
                              /\ blocks'[j].checks[x] = "ne" /\ scopes'[k].vars[x] = "nullable"
                                     => ~ SureTo(scopes', x, 2 * j - 2)
                      /\ ErrorsNil(j)'
    BY <1>10 DEF SkippedThen
  <2>1. blocks[j].kind = "then" /\ Passed(j) /\ n = 2 * j - 2
    BY <1>8, <1>21, <1>22
  <2>2. ErrorsNil(j)'
    <3>1. ErrorsNil(j)
      BY <1>21, <2>1 DEF NilInv, SkippedThen
    <3>2. n >= 2 * j - 2
      BY <2>1
    <3> QED BY <1>23, <3>1, <3>2 DEF n
  <2>3. ASSUME NEW x \in Names, NEW k \in 1..2 * j - 2, BindsTo(scopes', x, k, 2 * j - 2)
        PROVE  /\ blocks'[j].checks[x] = "eq" => env'[k][x] # "nil"
               /\ blocks'[j].checks[x] = "ne" /\ scopes'[k].vars[x] = "nullable"
                     => ~ SureTo(scopes', x, 2 * j - 2)
    <3>1. BindsTo(scopes, x, k, 2 * j - 2) /\ (SureTo(scopes', x, 2 * j - 2) <=> SureTo(scopes, x, 2 * j - 2))
      BY <1>11, <1>21, <2>3
    <3>2. k \in 1..n
      BY <2>1
    <3>3. env'[k] = env[k] /\ scopes'[k].vars = scopes[k].vars /\ blocks'[j].checks = blocks[j].checks
      BY <1>4, <1>8, <1>9, <1>14, <1>21, <3>2
    <3> QED BY <1>21, <2>1, <3>1, <3>3 DEF NilInv, SkippedThen
  <2> QED BY <2>2, <2>3
<1>26. TookThen'
  <2> SUFFICES ASSUME NEW j \in 2..m, blocks'[j].kind = "else", Passed(j)'
               PROVE  /\ ~ blocks'[j].joined
                      /\ \A x \in Names : \A k \in 1..2 * j - 2 :
                           BindsTo(scopes', x, k, 2 * j - 2) /\ blocks'[j].checks[x] = "ne" => env'[k][x] # "nil"
    BY <1>10 DEF TookThen
  <2>1. blocks[j].kind = "else" /\ Passed(j) /\ n = 2 * j - 2 /\ blocks'[j].joined = blocks[j].joined
    BY <1>8, <1>21, <1>22
  <2>2. ~ blocks[j].joined
    BY <1>21, <2>1 DEF NilInv, TookThen
  <2>3. ASSUME NEW x \in Names, NEW k \in 1..2 * j - 2, BindsTo(scopes', x, k, 2 * j - 2), blocks'[j].checks[x] = "ne"
        PROVE  env'[k][x] # "nil"
    <3>1. BindsTo(scopes, x, k, 2 * j - 2)
      BY <1>11, <1>21, <2>3
    <3>2. k \in 1..n
      BY <2>1
    <3>3. env'[k] = env[k] /\ blocks'[j].checks = blocks[j].checks
      BY <1>4, <1>8, <1>21, <3>2
    <3> QED BY <1>21, <2>1, <2>3, <3>1, <3>3 DEF NilInv, TookThen
  <2> QED BY <2>1, <2>2, <2>3
<1>27. TookElse'
  <2> SUFFICES ASSUME NEW j \in 2..m, blocks'[j].kind = "else", Len(env') >= 2 * j
               PROVE  ErrorsNil(j)'
    BY <1>10 DEF TookElse
  <2>1. blocks[j].kind = "else" /\ Len(env) >= 2 * j /\ Len(env') >= 2 * j - 2
    <3>1. n \in Nat /\ Len(env) \in Nat /\ n >= 2 * j /\ n <= Len(env)
      BY <1>1, <1>4, <1>6, Shapes DEF n
    <3> QED BY <1>8, <1>21, <3>1 DEF n
  <2>2. ErrorsNil(j)
    BY <1>21, <2>1 DEF NilInv, TookElse
  <2> QED BY <1>23, <2>1, <2>2
<1>28. ArmsAgree'
  <2> SUFFICES ASSUME NEW j \in 2..m, blocks'[j].kind = "arm"
               PROVE  /\ blocks'[j].at \in 1..Len(blocks'[j].arms)
                      /\ blocks'[j].target = "none"
                      /\ Passed(j)' => ~ blocks'[j].joined \/ ~ Lists(blocks'[j].arms, "default")
    BY <1>10 DEF ArmsAgree
  <2>1. j \in 2..Level /\ blocks[j].kind = "arm" /\ j # Level
    BY <1>8, <1>21
  <2>2. /\ blocks[j].at \in 1..Len(blocks[j].arms) /\ blocks[j].target = "none"
        /\ Passed(j) => ~ blocks[j].joined \/ ~ Lists(blocks[j].arms, "default")
    BY <2>1 DEF NilInv, ArmsAgree
  <2>3. /\ blocks'[j].at = blocks[j].at /\ blocks'[j].arms = blocks[j].arms
        /\ blocks'[j].target = blocks[j].target /\ blocks'[j].joined = blocks[j].joined
    BY <1>8, <1>21
  <2> QED BY <1>22, <2>2, <2>3
<1>29. EndsAgree'
  <2>1. blocks'[m].ends => ~ Here'
    <3>1. Here' <=> n = p
      BY <1>9 DEF Here, n
    <3> QED BY <1>5, <1>7, <3>1
  <2>2. ASSUME NEW j \in 1..m - 1 PROVE ~ blocks'[j].ends
    <3>1. j \in 1..m /\ j # m /\ j \in 1..Level - 1
      BY <1>6
    <3>2. ~ blocks[j].ends
      BY <3>1 DEF NilInv, EndsAgree
    <3> QED BY <1>7, <3>1, <3>2
  <2>3. ASSUME NEW j \in 1..m PROVE blocks'[j].kind = "function" <=> j = 1
    <3>1. j \in 1..Level
      BY <1>2 DEF PreviousHalves
    <3> QED BY <1>8, <3>1 DEF NilInv, EndsAgree
  <2> QED BY <1>10, <2>1, <2>2, <2>3 DEF EndsAgree
<1> QED BY <1>16, <1>17, <1>18, <1>19, <1>20, <1>24, <1>25, <1>26, <1>27, <1>28, <1>29 DEF NilInv

LEMMA NothingGiven == NoFacts \in [All -> {"none", "nonnull"}] /\ \A x \in Names : NoFacts[x] # "nonnull"
  BY DEF NoFacts, All

\* The first block of the body is the only one that no statement closes.
LEMMA NotTheFirst ==
    ASSUME NilInv, TopBlock.kind # "function"
    PROVE  Level # 1 /\ Level \in 2..Level /\ blocks[Level] \in Blocks
<1>1. Level \in Nat \ {0} /\ \A j \in 1..Level : blocks[j] \in Blocks
  BY Shapes DEF NilInv
<1>2. Level \in 1..Level
  BY <1>1
<1>3. Level # 1
  BY <1>2 DEF NilInv, EndsAgree, TopBlock
<1> QED BY <1>1, <1>2, <1>3

LEMMA EndForStep ==
    ASSUME NilInv, EndFor
    PROVE  NilInv'
<1> DEFINE no == NoFacts
<1>1. TopBlock.kind = "for" /\ Close(FALSE, no) /\ UNCHANGED <<companions, crashed>>
  BY DEF EndFor
<1>2. no \in [All -> {"none", "nonnull"}] /\ \A x \in Names : no[x] # "nonnull"
  BY NothingGiven
<1> HIDE DEF no
<1>3. Level # 1
  BY <1>1, NotTheFirst
<1>4. Closes(FALSE, no)
  BY <1>1, <1>2, <1>3 DEF Closes
<1> QED BY <1>2, <1>4, Closing

\* A match that the checker takes for diverging has a default arm, and the run
\* is in none of the arms at its end.
LEMMA EndMatchStep ==
    ASSUME NilInv, Traps = {}, EndMatch
    PROVE  NilInv'
<1> DEFINE no == NoFacts
           ends == TopBlock.joined /\ TopBlock.ends
<1>1. /\ TopBlock.kind = "arm" /\ TopBlock.at = Len(TopBlock.arms) /\ Close(ends, no)
      /\ UNCHANGED <<companions, crashed>> /\ (ends => Lists(TopBlock.arms, "default"))
  BY DEF EndMatch, Allowed
<1>2. no \in [All -> {"none", "nonnull"}] /\ \A x \in Names : no[x] # "nonnull"
  BY NothingGiven
<1> HIDE DEF no
<1>3. Level # 1 /\ Level \in 2..Level /\ blocks[Level] \in Blocks
  BY <1>1, NotTheFirst
<1>4. Closes(ends, no)
  BY <1>1, <1>2, <1>3 DEF Closes
<1>5. ASSUME ends PROVE Len(env') # Top - 2
  <2>1. ~ Here
    BY <1>5 DEF NilInv, EndsAgree, TopBlock
  <2>2. TopBlock.joined /\ Lists(TopBlock.arms, "default") /\ UNCHANGED env
    BY <1>1, <1>5, <2>1 DEF Close
  <2>3. TopBlock.target = "none"
    <3>1. TopBlock.at + 1..Len(TopBlock.arms) = {}
      <4>1. TopBlock.at \in Nat
        BY <1>3 DEF Blocks, TopBlock
      <4> QED BY <1>1, <4>1
    <3> QED BY <1>1, <1>3, <3>1 DEF NilInv, ArmsAgree, TopBlock
  <2>4. ~ Passed(Level)
    BY <1>1, <1>3, <2>2, <2>3 DEF NilInv, ArmsAgree, TopBlock
  <2>5. Len(env) # Top - 2
    BY <2>4, Shapes DEF Passed, NilInv
  <2> QED BY <2>2, <2>5
<1> HIDE DEF ends
<1> QED BY <1>2, <1>4, <1>5, Closing

\* What an error's companion is known to be, where the error is known to be nil.
LEMMA CompanionSafe ==
    ASSUME NilInv, NEW j \in Nat, ErrorsNil(j), NEW p \in Nat, p = 2 * j - 2, p <= Top, p <= Len(env),
           NEW e, NEW x, NEW i \in 1..p, <<e, x, i>> \in tied, blocks[j].checks[e] = "ne",
           NEW k, BindsTo(scopes, x, k, p)
    PROVE  env[k][x] # "nil"
<1> DEFINE t == <<e, x, i>>
<1>1. t[1] = e /\ t[2] = x /\ t[3] = i /\ t \in tied
  OBVIOUS
<1> HIDE DEF t
<1>2. i <= p /\ i <= Len(env) /\ Top \in Nat
  <2>1. Top \in Nat /\ Len(env) \in Nat
    BY Shapes DEF NilInv
  <2>2. i \in Int /\ i <= p /\ p <= Len(env)
    OBVIOUS
  <2> QED BY <2>1, <2>2
<1>3. env[i][e] = "nil"
  BY <1>1, <1>2 DEF ErrorsNil
<1>4. BindsTo(scopes, x, i, Top) /\ env[i][x] # "nil"
  BY <1>1, <1>2, <1>3 DEF NilInv, TiesHold
<1>5. BindsTo(scopes, x, i, p)
  <2>1. \A m \in i + 1..p : m \in i + 1..Top
    BY <1>2
  <2> QED BY <1>4, <2>1 DEF BindsTo
<1>6. i = k
  BY <1>5, OneBinding
<1> QED BY <1>4, <1>6

\* In a branch, what the condition says of a name that it compares with nil is
\* still true.
LEMMA BranchTrue ==
    ASSUME NilInv, Here, NEW kind \in {"then", "else"}, TopBlock.kind = kind,
           NEW x \in Names, TopBlock.checks[x] = (IF kind = "then" THEN "ne" ELSE "eq"),
           NEW k, BindsTo(scopes, x, k, Top - 2)
    PROVE  env[k][x] # "nil"
<1> DEFINE p == Top - 2
           f == TopBlock.checks
           g == Narrowed(f, kind)
<1>1. Level \in 2..Level /\ TopBlock \in Blocks /\ Top = 2 * Level /\ Level \in Nat \ {0} /\ Len(env) = Top
  BY NotTheFirst, Shapes DEF TopBlock, NilInv, Here, Top
<1>2. p \in Nat /\ p + 1 = 2 * Level - 1 /\ p + 1 \in 1..Len(env) /\ p + 2 = Top
  BY <1>1
<1>3. scopes[p + 1] = Facts(g)
  BY <1>1, <1>2 DEF NilInv, BranchFacts, TopBlock
<1>4. f \in [All -> Checks] /\ x \in All
  BY <1>1 DEF Blocks, All
<1> HIDE DEF f, p, g
<1>5. g = Narrowed(f, kind) /\ f[x] = (IF kind = "then" THEN "ne" ELSE "eq") /\ BindsTo(scopes, x, k, p)
  BY DEF f, g, p
<1>6. Facts(g).nil[x] = "nonnull" /\ Facts(g).vars[x] = "none"
  BY <1>4, <1>5, NarrowedShape
<1>7. BindsTo(scopes, x, k, p + 1) /\ SureTo(scopes, x, p + 1)
  <2>1. scopes[p + 1].nil[x] = "nonnull" /\ scopes[p + 1].vars[x] = "none"
    BY <1>3, <1>6
  <2> QED BY <1>2, <1>5, <2>1, OneMore
<1>8. k \in 1..p + 1
  BY <1>7, BoundWithin
<1> QED BY <1>2, <1>7, <1>8 DEF NilInv, FactsHold, FactsTo

\* After an if the checker knows what one branch diverging leaves of the
\* condition, and it is so wherever the run comes out of it.
LEMMA EndIfStep ==
    ASSUME NilInv, Traps = {}, EndIf
    PROVE  NilInv'
<1> DEFINE b == TopBlock
           ends == IfDiverges(b)
           f == AfterIf(b)
           p == Top - 2
<1>1. /\ b.kind \in {"then", "else"} /\ Close(ends, f) /\ UNCHANGED <<companions, crashed>>
      /\ \A e \in Cleared(b) : \E i \in 1..p : <<e, companions[e], i>> \in tied
  BY DEF EndIf, Allowed
<1>2. Level # 1 /\ Level \in 2..Level /\ b \in Blocks
  BY <1>1, NotTheFirst DEF TopBlock
<1>3. b.ends \in BOOLEAN /\ b.joined \in BOOLEAN
  BY <1>2 DEF Blocks
<1>4. /\ ends \in BOOLEAN
      /\ ends => b.kind = "else" /\ b.joined /\ b.ends
  <2>1. ThenDiverges(b) \in BOOLEAN /\ (b.kind = "else" => (ThenDiverges(b) <=> b.joined))
    BY <1>3 DEF ThenDiverges
  <2>2. ElseDiverges(b) \in BOOLEAN /\ (ElseDiverges(b) => b.kind = "else" /\ b.ends)
    BY <1>3 DEF ElseDiverges
  <2> QED BY <2>1, <2>2 DEF IfDiverges
<1>5. f \in [All -> {"none", "nonnull"}]
  BY DEF AfterIf
<1>6. ASSUME NEW x \in Names, f[x] = "nonnull"
      PROVE  \/ b.kind = "then" /\ b.ends /\ b.checks[x] = "eq"
             \/ b.kind = "else" /\ b.joined /\ b.checks[x] = "eq"
             \/ b.kind = "else" /\ b.ends /\ b.checks[x] = "ne"
             \/ /\ (b.kind = "then" /\ b.ends) \/ (b.kind = "else" /\ b.joined)
                /\ \E e \in Cleared(b) : companions[e] = x
  <2>1. x \in All
    BY DEF All
  <2>2. \/ ThenDiverges(b) /\ b.checks[x] = "eq"
        \/ ElseDiverges(b) /\ b.checks[x] = "ne"
        \/ \E e \in Cleared(b) : companions[e] = x
    BY <1>6, <2>1 DEF AfterIf
  <2>3. \A e \in Cleared(b) : ThenDiverges(b)
    BY DEF Cleared
  <2> QED BY <1>1, <2>2, <2>3 DEF ThenDiverges, ElseDiverges
<1>7. ASSUME NEW e \in Cleared(b) PROVE b.checks[e] = "ne"
  BY <1>7 DEF Cleared
<1>8. Closes(ends, f)
  BY <1>1, <1>2, <1>4, <1>5 DEF Closes
<1>9. b = blocks[Level]
  BY DEF TopBlock
<1> HIDE DEF b, ends, f
<1>10. /\ Level \in Nat \ {0} /\ Top = 2 * Level /\ p = 2 * Level - 2 /\ Len(env) \in Nat
       /\ Passed(Level) <=> Len(env) = p
       /\ b.ends => ~ Here
       /\ Here => Len(env) = Top
       /\ IF Here THEN Leave(p) ELSE UNCHANGED env
  BY <1>1, <1>9, Shapes DEF NilInv, Passed, Here, Top, EndsAgree, Close
<1>11. p \in Nat /\ p <= Top /\ p # Top
  BY <1>2, <1>10
<1>12. ASSUME Len(env') = p PROVE Passed(Level) \/ Here
  BY <1>10, <1>12
<1>13. ASSUME b.kind = "else", Passed(Level)
       PROVE  /\ ~ b.joined
              /\ \A x \in Names : \A k \in 1..p : BindsTo(scopes, x, k, p) /\ b.checks[x] = "ne" => env[k][x] # "nil"
  BY <1>2, <1>9, <1>10, <1>13 DEF NilInv, TookThen
<1>14. ASSUME b.kind = "then", Passed(Level)
       PROVE  /\ ErrorsNil(Level)
              /\ \A x \in Names : \A k \in 1..p : BindsTo(scopes, x, k, p) /\ b.checks[x] = "eq" => env[k][x] # "nil"
  BY <1>2, <1>9, <1>10, <1>14 DEF NilInv, SkippedThen
<1>15. ASSUME b.kind = "else", Here PROVE ErrorsNil(Level)
  <2>1. Len(env) >= 2 * Level
    BY <1>10, <1>15
  <2> QED BY <1>2, <1>9, <1>15, <2>1 DEF NilInv, TookElse
<1>16. ASSUME ends PROVE Len(env') # p
  <2>1. b.kind = "else" /\ b.joined /\ ~ Here
    BY <1>4, <1>10, <1>16
  <2> QED BY <1>12, <1>13, <2>1
<1>17. ASSUME Len(env') = p, NEW x \in Names, f[x] = "nonnull", NEW k \in 1..p, BindsTo(scopes, x, k, p)
       PROVE  env[k][x] # "nil"
  <2>1. CASE b.kind = "then" /\ b.ends /\ b.checks[x] = "eq"
    BY <1>10, <1>12, <1>14, <1>17, <2>1
  <2>2. CASE b.kind = "else" /\ b.joined /\ b.checks[x] = "eq"
    <3>1. Here
      BY <1>12, <1>13, <1>17, <2>2
    <3> QED BY <1>17, <2>2, <3>1, BranchTrue DEF b
  <2>3. CASE b.kind = "else" /\ b.ends /\ b.checks[x] = "ne"
    BY <1>10, <1>12, <1>13, <1>17, <2>3
  <2>4. CASE /\ (b.kind = "then" /\ b.ends) \/ (b.kind = "else" /\ b.joined)
             /\ \E e \in Cleared(b) : companions[e] = x
    <3>1. PICK e \in Cleared(b) : companions[e] = x
      BY <2>4
    <3>2. PICK i \in 1..p : <<e, x, i>> \in tied
      BY <1>1, <3>1
    <3>3. ErrorsNil(Level) /\ p <= Len(env)
      <4>1. CASE b.kind = "then" /\ b.ends
        BY <1>10, <1>11, <1>12, <1>14, <1>17, <4>1
      <4>2. CASE b.kind = "else" /\ b.joined
        BY <1>10, <1>11, <1>12, <1>13, <1>15, <1>17, <4>2
      <4> QED BY <2>4, <4>1, <4>2
    <3> HIDE DEF p
    <3> QED BY <1>7, <1>9, <1>10, <1>11, <1>17, <3>2, <3>3, CompanionSafe
  <2> QED BY <1>6, <1>17, <2>1, <2>2, <2>3, <2>4
<1> QED BY <1>8, <1>16, <1>17, Closing

-----------------------------------------------------------------------------
(* Blocks that follow another.                                             *)

\* The next block of the innermost statement starts with these facts.
Reopens(block, f) ==
    /\ block \in Blocks /\ ~ block.ends /\ block.kind \in {"else", "arm"}
    /\ block.kind = "else" => f = Narrowed(block.checks, "else")
    /\ f \in [All -> States] /\ Level # 1
    /\ Reopen(block, f) /\ UNCHANGED <<companions, crashed>>

\* The run comes out of the last block, or enters or passes by this one, or is
\* somewhere else.
Follows ==
    \/ Here /\ Leave(Top - 2)
    \/ Len(env) = Top - 2 /\ (Enter \/ UNCHANGED env)
    \/ ~ Here /\ Len(env) # Top - 2 /\ UNCHANGED env

\* The run has come out of the first branch, where the condition was true, or
\* enters the second, where it was false.
ElseAgrees(block) ==
    block.kind = "else" =>
        /\ Len(env') = Top - 2 =>
             /\ ~ block.joined
             /\ \A x \in Names : \A k \in 1..Top - 2 :
                  BindsTo(scopes, x, k, Top - 2) /\ block.checks[x] = "ne" => env[k][x] # "nil"
        /\ Len(env') = Top =>
             \A t \in tied : t[3] <= Top - 2 /\ block.checks[t[1]] = "ne" => env[t[3]][t[1]] = "nil"

\* What is left of the arms holds the one that the run will take.
ArmAgrees(block) ==
    block.kind = "arm" =>
        /\ block.at \in 1..Len(block.arms)
        /\ block.target # "none" =>
             /\ Len(env') = Top - 2
             /\ \E i \in block.at + 1..Len(block.arms) : block.arms[i] = block.target
             /\ block.target = "default" /\ block.narrows =>
                  \A k \in 1..Top - 2 : BindsTo(scopes, block.on, k, Top - 2) => env[k][block.on] # "nil"
        /\ block.target = "none" /\ Len(env') = Top - 2 => ~ block.joined \/ ~ Lists(block.arms, "default")

LEMMA EnvReopened ==
    ASSUME NilTypeOK, Level # 1, NEW m, m = Level - 1, NEW p, p = Top - 2, Follows
    PROVE  /\ env' \in Seq(Stores) /\ DOMAIN env' = 1..Len(env')
           /\ Len(env') \in 0..p \/ Len(env') = p + 2
           /\ \E d \in 0..m + 1 : Len(env') = 2 * d
           /\ \A k \in 1..Len(env') : k <= p => k \in 1..Len(env) /\ env'[k] = env[k]
           /\ Len(env') # p /\ Len(env') # p + 2 => Len(env) = Len(env')
           /\ Len(env') = p => Len(env) \in {p, p + 2}
           /\ Len(env') = p + 2 => Len(env) = p
<1>1. /\ Level \in Nat \ {0} /\ Top = 2 * Level /\ Len(env) \in Nat /\ Len(env) <= Top
      /\ env \in Seq(Stores) /\ \E d \in 0..Level : Len(env) = 2 * d
  BY Shapes DEF NilTypeOK
<1>2. p = 2 * m /\ m \in Nat \ {0} /\ p \in Nat /\ Top = p + 2 /\ Level = m + 1
  BY <1>1
<1>3. CASE Here /\ Leave(Top - 2)
  <2>1. env' = SubSeq(env, 1, p) /\ p \in 0..Len(env) /\ Len(env) = p + 2
    BY <1>1, <1>2, <1>3 DEF Here, Leave, Top
  <2>2. env' \in Seq(Stores) /\ Len(env') = p /\ \A k \in 1..p : env'[k] = env[k]
    BY <1>1, <2>1, FirstOf
  <2>3. m \in 0..m + 1 /\ p \in 0..p /\ \A k \in 1..p : k \in 1..p + 2
    BY <1>2
  <2>4. DOMAIN env' = 1..Len(env')
    BY <2>2
  <2>5. p # p + 2
    BY <1>2
  <2> QED BY <1>2, <2>1, <2>2, <2>3, <2>4, <2>5
<1>4. CASE Len(env) = Top - 2 /\ Enter
  <2> DEFINE none == Empty
  <2>1. env' = env \o <<none, none>>
    BY <1>4 DEF Enter
  <2>2. none \in Stores
    BY DEF Empty, Stores, Values
  <2> HIDE DEF none
  <2>3. env' \in Seq(Stores) /\ Len(env') = Len(env) + 2 /\ \A k \in 1..Len(env) : env'[k] = env[k]
    <3>1. env \in Seq(Stores)
      BY <1>1
    <3> HIDE <1>4
    <3> QED BY <2>1, <2>2, <3>1, TwoAppended
  <2>4. Len(env) = p /\ Len(env') = p + 2
    BY <1>2, <1>4, <2>3
  <2>5. m + 1 \in 0..m + 1 /\ 2 * (m + 1) = p + 2
    BY <1>2
  <2>6. DOMAIN env' = 1..Len(env')
    BY <2>3
  <2>7. \A k \in 1..p + 2 : k <= p => k \in 1..p
    BY <1>2
  <2> QED BY <1>2, <2>3, <2>4, <2>5, <2>6, <2>7
<1>5. CASE (Len(env) = Top - 2 \/ ~ Here) /\ env' = env
  <2>1. Len(env) # Top
    BY <1>1, <1>5 DEF Here, Top
  <2>2. PICK d \in 0..Level : Len(env) = 2 * d
    BY <1>1
  <2>3. d \in 0..m + 1 /\ Len(env) \in 0..p
    BY <1>1, <1>2, <2>1, <2>2
  <2>4. DOMAIN env = 1..Len(env)
    BY <1>1
  <2> QED BY <1>1, <1>2, <1>5, <2>2, <2>3, <2>4
<1> QED BY <1>3, <1>4, <1>5 DEF Follows

ScopesFollow(base, p, head) ==
    /\ base \in Seq(Tables) /\ Len(base) = p /\ \A j \in 1..p : base[j] = scopes[j]
    /\ scopes' \in Seq(Tables) /\ Len(scopes') = p + 2 /\ DOMAIN scopes' = 1..p + 2
    /\ \A j \in 1..p : scopes'[j] = scopes[j]
    /\ scopes'[p + 1] = head /\ scopes'[p + 2] = Facts(NoFacts)

LEMMA ScopesReopened ==
    ASSUME NilTypeOK, NEW p \in Nat \ {0}, Top = p + 2, NEW head \in Tables,
           NEW base, base = SubSeq(scopes, 1, p), scopes' = OnTop(base, head)
    PROVE  ScopesFollow(base, p, head)
<1>1. scopes \in Seq(Tables) /\ p \in 0..Len(scopes)
  <2>1. p \in 0..p + 2
    OBVIOUS
  <2> QED BY <2>1 DEF NilTypeOK, Top
<1>2. base \in Seq(Tables) /\ Len(base) = p /\ \A j \in 1..p : base[j] = scopes[j]
  BY <1>1, FirstOf
<1>3. /\ scopes' \in Seq(Tables) /\ Len(scopes') = p + 2
      /\ \A j \in 1..p : scopes'[j] = base[j]
      /\ scopes'[p + 1] = head /\ scopes'[p + 2] = Facts(NoFacts)
  <2> DEFINE on == OnTop(base, head)
  <2>1. base \in Seq(Tables) /\ head \in Tables /\ Len(base) = p
    BY <1>2
  <2>2. /\ on \in Seq(Tables) /\ Len(on) = Len(base) + 2
        /\ \A j \in 1..Len(base) : on[j] = base[j]
        /\ on[Len(base) + 1] = head /\ on[Len(base) + 2] = Facts(NoFacts)
    BY <2>1, OnTopShape
  <2>3. scopes' = on
    OBVIOUS
  <2> HIDE DEF on
  <2> QED BY <2>1, <2>2, <2>3
<1>4. DOMAIN scopes' = 1..p + 2
  BY <1>3
<1> QED BY <1>2, <1>3, <1>4 DEF ScopesFollow

LEMMA Reopening ==
    ASSUME NilInv, NEW block, NEW f, Reopens(block, f), Follows, ElseAgrees(block), ArmAgrees(block),
           Len(env') = Top => \A x \in Names : HeadIsTrue(scopes, Facts(f), env, Top - 2, x)
    PROVE  NilInv'
<1> DEFINE m == Level - 1
           p == Top - 2
           n == Len(env')
           head == Facts(f)
           base == SubSeq(scopes, 1, p)
<1>1. /\ Level \in Nat \ {0} /\ Level # 1 /\ Top = 2 * Level /\ NilTypeOK
      /\ block \in Blocks /\ ~ block.ends /\ block.kind \in {"else", "arm"}
      /\ block.kind = "else" => f = Narrowed(block.checks, "else")
      /\ DOMAIN scopes = 1..Top /\ Len(env) \in Nat
      /\ tied' = {t \in tied : t[3] <= p} /\ UNCHANGED <<companions, crashed>>
  BY Shapes DEF NilInv, Reopens, Reopen
<1>2. PreviousHalves(Level, Top, m, p)
  BY <1>1, PreviousHalf
<1>3. head \in Tables /\ head.vars = NoFacts /\ \A x \in Names : head.vars[x] = "none" /\ NoFacts[x] = "none"
  <2>1. f \in [All -> States] /\ NoFacts \in [All -> Types] /\ \A x \in Names : NoFacts[x] = "none"
    BY NoFactsThere DEF Reopens, All
  <2>2. head = [vars |-> NoFacts, nil |-> f]
    BY DEF Facts
  <2> HIDE DEF head
  <2> QED BY <2>1, <2>2 DEF Tables
<1>4. scopes' = OnTop(base, head) /\ blocks' = [blocks EXCEPT ![Level] = block]
  BY DEF Reopens, Reopen, OnTop
<1>5. /\ env' \in Seq(Stores) /\ DOMAIN env' = 1..n
      /\ n \in 0..p \/ n = p + 2
      /\ \E d \in 0..m + 1 : n = 2 * d
      /\ \A k \in 1..n : k <= p => k \in 1..Len(env) /\ env'[k] = env[k]
      /\ n # p /\ n # p + 2 => Len(env) = n
      /\ n = p => Len(env) \in {p, p + 2}
      /\ n = p + 2 => Len(env) = p
  BY <1>1, EnvReopened
<1>6. /\ n = Top => \A x \in Names : HeadIsTrue(scopes, head, env, p, x)
      /\ block.kind = "else" =>
        /\ n = p =>
             /\ ~ block.joined
             /\ \A x \in Names : \A k \in 1..p :
                  BindsTo(scopes, x, k, p) /\ block.checks[x] = "ne" => env[k][x] # "nil"
        /\ n = Top =>
             \A t \in tied : t[3] <= p /\ block.checks[t[1]] = "ne" => env[t[3]][t[1]] = "nil"
      /\ block.kind = "arm" =>
        /\ block.at \in 1..Len(block.arms)
        /\ block.target # "none" =>
             /\ n = p
             /\ \E i \in block.at + 1..Len(block.arms) : block.arms[i] = block.target
             /\ block.target = "default" /\ block.narrows =>
                  \A k \in 1..p : BindsTo(scopes, block.on, k, p) => env[k][block.on] # "nil"
        /\ block.target = "none" /\ n = p => ~ block.joined \/ ~ Lists(block.arms, "default")
  BY DEF ElseAgrees, ArmAgrees
<1>7. head = Facts(f)
  OBVIOUS
<1> HIDE DEF m, p, n, head
<1>8. /\ m \in Nat \ {0} /\ p \in Nat \ {0} /\ p = 2 * m /\ Top = p + 2 /\ Level = m + 1
      /\ Level \in 1..Level /\ m \in 1..Level /\ p # p + 2
      /\ \A k \in 1..n : k \in 1..p \/ k = p + 1 \/ k = p + 2
      /\ n \in Nat /\ n <= p + 2
  BY <1>2, <1>5 DEF PreviousHalves
<1>9. /\ base \in Seq(Tables) /\ Len(base) = p /\ \A j \in 1..p : base[j] = scopes[j]
      /\ scopes' \in Seq(Tables) /\ Len(scopes') = p + 2 /\ DOMAIN scopes' = 1..p + 2
      /\ \A j \in 1..p : scopes'[j] = scopes[j]
      /\ scopes'[p + 1] = head /\ scopes'[p + 2] = Facts(NoFacts)
  <2> HIDE DEF base
  <2>1. base = SubSeq(scopes, 1, p)
    BY DEF base
  <2>2. NilTypeOK /\ p \in Nat \ {0} /\ Top = p + 2 /\ head \in Tables /\ scopes' = OnTop(base, head)
    BY <1>1, <1>3, <1>4, <1>8
  <2>3. ScopesFollow(base, p, head)
    BY <2>1, <2>2, ScopesReopened
  <2> QED BY <2>3 DEF ScopesFollow
<1> HIDE DEF base
<1>10. /\ blocks' \in Seq(Blocks) /\ Len(blocks') = Level /\ blocks'[Level] = block
       /\ \A j \in 1..Level : j # Level => blocks'[j] = blocks[j]
  <2>1. blocks \in Seq(Blocks) /\ Len(blocks) = Level
    BY <1>1 DEF NilTypeOK, Level
  <2> QED BY <1>1, <1>4, <1>8, <2>1
<1>11. Level' = Level /\ Top' = Top /\ \A j : Passed(j)' <=> n = 2 * j - 2
  BY <1>8, <1>9, <1>10 DEF Level, Top, Passed, n
<1>12. \A j \in 2..Level : \/ j = Level /\ 2 * j - 2 = p /\ 2 * j - 1 = p + 1 /\ 2 * j = p + 2
                           \/ /\ j # Level /\ j \in 1..Level /\ j \in 1..Level - 1
                              /\ 2 * j - 1 \in 1..p /\ 2 * j - 2 \in 1..p /\ 2 * j <= p
                              /\ 2 * j - 2 # p /\ 2 * j - 2 # p + 2
  BY <1>8
<1>13. ASSUME NEW x, NEW q \in 1..p
       PROVE  /\ \A k : BindsTo(scopes', x, k, q) <=> BindsTo(scopes, x, k, q)
              /\ SureTo(scopes', x, q) <=> SureTo(scopes, x, q)
  BY <1>8, <1>9, SamePrefix
<1>14. ASSUME NEW x, NEW q \in 1..p
       PROVE  /\ \A k : BindsTo(base, x, k, q) <=> BindsTo(scopes, x, k, q)
              /\ SureTo(base, x, q) <=> SureTo(scopes, x, q)
  BY <1>8, <1>9, SamePrefix
<1>15. ASSUME NEW x \in All PROVE \A k : BindsTo(scopes', x, k, p + 2) <=> BindsTo(scopes, x, k, p)
  <2>1. head.vars[x] = "none"
    BY <1>3, NoFactsThere
  <2>2. /\ \A k : BindsTo(scopes', x, k, p + 2) <=> BindsTo(scopes', x, k, p + 1)
        /\ \A k : BindsTo(scopes', x, k, p + 1) <=> BindsTo(base, x, k, p)
    BY <1>3, <1>4, <1>8, <1>9, <2>1, OnTopFacts
  <2>3. p \in 1..p
    BY <1>8
  <2> QED BY <1>14, <2>2, <2>3
<1>16. tied \subseteq Errors \X Names \X (1..Top) /\ \A k \in 1..Top : k <= p => k \in 1..p
  BY <1>1, <1>2 DEF NilTypeOK, Top, PreviousHalves
<1>17. NilTypeOK'
  <2>1. \A k \in DOMAIN scopes' : \A x \in Names : scopes'[k].vars[x] # "error"
    <3>1. \A x \in Names : Facts(NoFacts).vars[x] # "error" /\ head.vars[x] # "error"
      BY <1>3 DEF Facts
    <3>2. \A k \in 1..p : k \in DOMAIN scopes
      BY <1>1, <1>8
    <3>3. \A k \in DOMAIN scopes : \A x \in Names : scopes[k].vars[x] # "error"
      BY <1>1 DEF NilTypeOK
    <3>4. \A k \in 1..p + 2 : k \in 1..p \/ k = p + 1 \/ k = p + 2
      BY <1>8
    <3> QED BY <1>9, <3>1, <3>2, <3>3, <3>4
  <2>2. companions' \in [Errors -> Names \cup {"none"}] /\ crashed' \in BOOLEAN
    BY <1>1 DEF NilTypeOK
  <2>3. tied' \subseteq Errors \X Names \X (1..Len(scopes'))
    BY <1>1, <1>8, <1>9, <1>16
  <2>4. Len(blocks') \in Nat \ {0} /\ Len(scopes') = 2 * Len(blocks')
    BY <1>1, <1>8, <1>9, <1>10
  <2>5. \E d \in 0..Len(blocks') : Len(env') = 2 * d
    BY <1>5, <1>8, <1>10 DEF n
  <2> QED BY <1>5, <1>9, <1>10, <2>1, <2>2, <2>3, <2>4, <2>5 DEF NilTypeOK
<1>18. NilSafe' /\ TypesAreHonest'
  <2>1. NilSafe'
    BY <1>1 DEF NilInv, NilSafe
  <2>2. ASSUME NEW k \in 1..n, NEW x \in Names, scopes'[k].vars[x] = "pointer" PROVE env'[k][x] # "nil"
    <3>1. Facts(NoFacts).vars[x] = "none" /\ head.vars[x] = "none"
      BY <1>3 DEF Facts
    <3>2. k \in 1..p
      BY <1>8, <1>9, <2>2, <3>1
    <3>3. k <= p
      BY <1>8, <3>2
    <3>4. k \in 1..Len(env) /\ env'[k] = env[k] /\ scopes[k].vars[x] = "pointer"
      BY <1>5, <1>9, <2>2, <3>2, <3>3
    <3> QED BY <1>1, <3>4, Shapes DEF NilInv, TypesAreHonest
  <2>3. TypesAreHonest'
    BY <1>5, <2>2 DEF TypesAreHonest
  <2> QED BY <2>1, <2>3
<1>19. FactsHold' /\ FactsStay'
  <2>1. CASE n # p + 2
    <3>1. n \in 0..p /\ \A k \in 1..n : k \in 1..p /\ k \in 1..Len(env) /\ env'[k] = env[k]
      BY <1>5, <1>8, <2>1
    <3>2. FactsTo(scopes', env', n)
      <4> SUFFICES ASSUME NEW q \in 1..n, NEW x \in Names, NEW k \in 1..q,
                          BindsTo(scopes', x, k, q), SureTo(scopes', x, q)
                   PROVE  env'[k][x] # "nil"
        BY DEF FactsTo
      <4>1. k \in 1..n
        BY <3>1
      <4> QED BY <1>13, <3>1, <4>1 DEF NilInv, FactsHold, FactsTo
    <3>3. StayTo(scopes', n)
      <4> SUFFICES ASSUME NEW q \in 1..n, NEW r \in 1..q, NEW x \in Names, NEW k \in 1..r,
                          BindsTo(scopes', x, k, q), scopes'[k].vars[x] = "nullable", SureTo(scopes', x, r)
                   PROVE  SureTo(scopes', x, q)
        BY DEF StayTo
      <4>1. q \in 1..p /\ r \in 1..n /\ r \in 1..p /\ k \in 1..p /\ q \in 1..Len(env)
        BY <3>1
      <4> QED BY <1>9, <1>13, <4>1 DEF NilInv, FactsStay, StayTo
    <3> QED BY <3>2, <3>3 DEF FactsHold, FactsStay, n
  <2>2. CASE n = p + 2
    <3>1. Len(env) = p /\ n = Top /\ \A k \in 1..p : k \in 1..n /\ k <= p /\ env'[k] = env[k]
      BY <1>5, <1>8, <2>2
    <3>2. FactsTo(base, env', p)
      <4> SUFFICES ASSUME NEW q \in 1..p, NEW x \in Names, NEW k \in 1..q,
                          BindsTo(base, x, k, q), SureTo(base, x, q)
                   PROVE  env'[k][x] # "nil"
        BY DEF FactsTo
      <4>1. k \in 1..p
        BY <1>8
      <4> QED BY <1>14, <3>1, <4>1 DEF NilInv, FactsHold, FactsTo
    <3>3. StayTo(base, p)
      <4> SUFFICES ASSUME NEW q \in 1..p, NEW r \in 1..q, NEW x \in Names, NEW k \in 1..r,
                          BindsTo(base, x, k, q), base[k].vars[x] = "nullable", SureTo(base, x, r)
                   PROVE  SureTo(base, x, q)
        BY DEF StayTo
      <4>1. r \in 1..p /\ k \in 1..p
        BY <1>8
      <4> QED BY <1>9, <1>14, <3>1, <4>1 DEF NilInv, FactsStay, StayTo
    <3>4. ASSUME NEW x \in Names PROVE HeadIsTrue(base, head, env', p, x)
      <4>1. HeadIsTrue(scopes, head, env, p, x) /\ head.vars[x] = "none" /\ p \in 1..p
        BY <1>3, <1>6, <1>8, <3>1
      <4> QED BY <1>9, <1>14, <3>1, <4>1 DEF HeadIsTrue
    <3>5. FactsTo(scopes', env', p + 2) /\ StayTo(scopes', p + 2)
      BY <1>3, <1>4, <1>8, <1>9, <3>2, <3>3, <3>4, EnteredFacts
    <3> QED BY <2>2, <3>5 DEF FactsHold, FactsStay, n
  <2> QED BY <2>1, <2>2
<1>20. ASSUME NEW t \in tied'
       PROVE  /\ t \in tied /\ t[3] \in 1..p /\ t[1] \in All /\ t[2] \in All /\ t[3] <= p
              /\ t[3] <= n => t[3] <= Len(env) /\ env'[t[3]] = env[t[3]]
  <2>1. t \in tied /\ t[3] \in 1..p /\ t[1] \in All /\ t[2] \in All /\ t[3] <= p
    BY <1>1, <1>16 DEF All
  <2>2. ASSUME t[3] <= n PROVE t[3] <= Len(env) /\ env'[t[3]] = env[t[3]]
    <3>1. t[3] \in 1..n
      BY <1>8, <2>1, <2>2
    <3>2. t[3] \in 1..Len(env) /\ env'[t[3]] = env[t[3]]
      BY <1>5, <2>1, <3>1
    <3> QED BY <3>2
  <2> QED BY <2>1, <2>2
<1>21. TiesHold'
  <2> SUFFICES ASSUME NEW t \in tied'
               PROVE  /\ BindsTo(scopes', t[1], t[3], p + 2) /\ BindsTo(scopes', t[2], t[3], p + 2)
                      /\ t[3] <= Len(env') /\ env'[t[3]][t[1]] = "nil" => env'[t[3]][t[2]] # "nil"
    BY <1>8, <1>11 DEF TiesHold
  <2>1. BindsTo(scopes, t[1], t[3], Top) /\ BindsTo(scopes, t[2], t[3], Top)
    BY <1>20 DEF NilInv, TiesHold
  <2>2. BindsTo(scopes, t[1], t[3], p) /\ BindsTo(scopes, t[2], t[3], p)
    <3>1. \A j \in t[3] + 1..p : j \in t[3] + 1..Top
      <4>1. t[3] \in 1..p
        BY <1>20
      <4> QED BY <1>8, <4>1
    <3> QED BY <1>20, <2>1, <3>1 DEF BindsTo
  <2> QED BY <1>15, <1>20, <2>2 DEF NilInv, TiesHold, n
<1>22. ASSUME NEW j \in 2..Level, j # Level, ErrorsNil(j), n >= 2 * j - 2 PROVE ErrorsNil(j)'
  <2> SUFFICES ASSUME NEW t \in tied', t[3] <= 2 * j - 2, blocks'[j].checks[t[1]] = "ne"
               PROVE  env'[t[3]][t[1]] = "nil"
    BY DEF ErrorsNil
  <2>1. t \in tied /\ t[3] \in 1..p
    BY <1>20
  <2>2. t[3] <= n
    BY <1>8, <1>22, <2>1
  <2>3. blocks[j].checks[t[1]] = "ne" /\ env'[t[3]] = env[t[3]]
    BY <1>10, <1>12, <1>20, <1>22, <2>2
  <2> QED BY <1>22, <2>1, <2>3 DEF ErrorsNil
<1>23. BranchFacts'
  <2> SUFFICES ASSUME NEW j \in 2..Level, blocks'[j].kind \in {"then", "else"}
               PROVE  scopes'[2 * j - 1] = Facts(Narrowed(blocks'[j].checks, blocks'[j].kind))
    BY <1>11 DEF BranchFacts
  <2>1. CASE j = Level
    BY <1>1, <1>7, <1>9, <1>10, <1>12, <2>1
  <2>2. CASE j # Level
    BY <1>9, <1>10, <1>12, <2>2 DEF NilInv, BranchFacts
  <2> QED BY <2>1, <2>2
<1>24. ASSUME NEW j \in 2..Level, j # Level, Passed(j)'
       PROVE  /\ Passed(j) /\ blocks'[j] = blocks[j] /\ n = 2 * j - 2 /\ j \in 1..Level
              /\ \A k \in 1..2 * j - 2 : env'[k] = env[k] /\ scopes'[k] = scopes[k]
              /\ \A x : /\ \A k : BindsTo(scopes', x, k, 2 * j - 2) <=> BindsTo(scopes, x, k, 2 * j - 2)
                        /\ SureTo(scopes', x, 2 * j - 2) <=> SureTo(scopes, x, 2 * j - 2)
  <2>1. n = 2 * j - 2 /\ n # p /\ n # p + 2 /\ n \in 1..p /\ blocks'[j] = blocks[j] /\ j \in 1..Level
    BY <1>10, <1>11, <1>12, <1>24
  <2>2. Passed(j)
    BY <1>5, <2>1 DEF Passed
  <2>3. \A k \in 1..n : k \in 1..p /\ k <= p
    BY <1>8, <2>1
  <2>4. \A k \in 1..n : env'[k] = env[k] /\ scopes'[k] = scopes[k]
    BY <1>5, <1>9, <2>3
  <2>5. \A x : /\ \A k : BindsTo(scopes', x, k, n) <=> BindsTo(scopes, x, k, n)
               /\ SureTo(scopes', x, n) <=> SureTo(scopes, x, n)
    BY <1>13, <2>1
  <2> QED BY <2>1, <2>2, <2>4, <2>5
<1>25. SkippedThen'
  <2> SUFFICES ASSUME NEW j \in 2..Level, blocks'[j].kind = "then", Passed(j)'
               PROVE  /\ \A x \in Names : \A k \in 1..2 * j - 2 :
                           BindsTo(scopes', x, k, 2 * j - 2) =>
                              /\ blocks'[j].checks[x] = "eq" => env'[k][x] # "nil"
                              /\ blocks'[j].checks[x] = "ne" /\ scopes'[k].vars[x] = "nullable"
                                     => ~ SureTo(scopes', x, 2 * j - 2)
                      /\ ErrorsNil(j)'
    BY <1>11 DEF SkippedThen
  <2>1. j # Level
    BY <1>1, <1>10
  <2>2. ErrorsNil(j)'
    <3>1. ErrorsNil(j)
      BY <1>24, <2>1 DEF NilInv, SkippedThen
    <3>2. n >= 2 * j - 2
      BY <1>8, <1>24, <2>1
    <3> QED BY <1>22, <2>1, <3>1, <3>2
  <2>3. ASSUME NEW x \in Names, NEW k \in 1..2 * j - 2, BindsTo(scopes', x, k, 2 * j - 2)
        PROVE  /\ blocks'[j].checks[x] = "eq" => env'[k][x] # "nil"
               /\ blocks'[j].checks[x] = "ne" /\ scopes'[k].vars[x] = "nullable"
                      => ~ SureTo(scopes', x, 2 * j - 2)
    <3>1. /\ blocks[j].kind = "then" /\ Passed(j) /\ blocks'[j] = blocks[j]
          /\ env'[k] = env[k] /\ scopes'[k] = scopes[k] /\ BindsTo(scopes, x, k, 2 * j - 2)
          /\ SureTo(scopes', x, 2 * j - 2) <=> SureTo(scopes, x, 2 * j - 2)
      BY <1>24, <2>1, <2>3
    <3>2. /\ blocks[j].checks[x] = "eq" => env[k][x] # "nil"
          /\ blocks[j].checks[x] = "ne" /\ scopes[k].vars[x] = "nullable" => ~ SureTo(scopes, x, 2 * j - 2)
      BY <3>1 DEF NilInv, SkippedThen
    <3> QED BY <3>1, <3>2
  <2> QED BY <2>2, <2>3
<1>26. TookThen'
  <2> SUFFICES ASSUME NEW j \in 2..Level, blocks'[j].kind = "else", Passed(j)'
               PROVE  /\ ~ blocks'[j].joined
                      /\ \A x \in Names : \A k \in 1..2 * j - 2 :
                           BindsTo(scopes', x, k, 2 * j - 2) /\ blocks'[j].checks[x] = "ne" => env'[k][x] # "nil"
    BY <1>11 DEF TookThen
  <2>1. CASE j = Level
    <3>1. n = p /\ blocks'[j] = block /\ block.kind = "else" /\ 2 * j - 2 = p /\ p \in 1..p
      BY <1>8, <1>10, <1>11, <1>12, <2>1
    <3>2. \A k \in 1..p : env'[k] = env[k]
      BY <1>5, <1>8, <3>1
    <3> QED BY <1>6, <1>13, <3>1, <3>2
  <2>2. CASE j # Level
    <3>1. /\ blocks[j].kind = "else" /\ Passed(j) /\ blocks'[j] = blocks[j]
          /\ \A k \in 1..2 * j - 2 : env'[k] = env[k]
          /\ \A x, k : BindsTo(scopes', x, k, 2 * j - 2) <=> BindsTo(scopes, x, k, 2 * j - 2)
      BY <1>24, <2>2
    <3>2. TookThen
      BY DEF NilInv
    <3>3. /\ ~ blocks[j].joined
          /\ \A x \in Names : \A k \in 1..2 * j - 2 :
               BindsTo(scopes, x, k, 2 * j - 2) /\ blocks[j].checks[x] = "ne" => env[k][x] # "nil"
      BY <3>1, <3>2 DEF TookThen
    <3> QED BY <3>1, <3>3
  <2> QED BY <2>1, <2>2
<1>27. TookElse'
  <2> SUFFICES ASSUME NEW j \in 2..Level, blocks'[j].kind = "else", Len(env') >= 2 * j
               PROVE  ErrorsNil(j)'
    BY <1>11 DEF TookElse
  <2>1. CASE j = Level
    <3>1. n = p + 2 /\ n = Top /\ blocks'[j] = block /\ block.kind = "else" /\ 2 * j - 2 = p
      BY <1>8, <1>10, <1>12, <2>1 DEF n
    <3> SUFFICES ASSUME NEW t \in tied', block.checks[t[1]] = "ne"
                 PROVE  env'[t[3]][t[1]] = "nil"
      BY <3>1 DEF ErrorsNil
    <3>2. t \in tied /\ t[3] <= p /\ t[3] \in 1..p
      BY <1>20
    <3>3. t[3] <= n
      BY <1>8, <3>1, <3>2
    <3>4. env'[t[3]] = env[t[3]]
      BY <1>20, <3>3
    <3> QED BY <1>6, <3>1, <3>2, <3>4
  <2>2. CASE j # Level
    <3>1. n >= 2 * j /\ n >= 2 * j - 2 /\ Len(env) >= 2 * j
      <4>1. n >= 2 * j
        BY DEF n
      <4> QED BY <1>5, <1>8, <1>12, <2>2, <4>1
    <3>2. blocks[j].kind = "else"
      BY <1>10, <1>12, <2>2
    <3>3. ErrorsNil(j)
      BY <3>1, <3>2 DEF NilInv, TookElse
    <3> QED BY <1>22, <2>2, <3>1, <3>3
  <2> QED BY <2>1, <2>2
<1>28. ArmsAgree'
  <2> SUFFICES ASSUME NEW j \in 2..Level, blocks'[j].kind = "arm"
               PROVE  /\ blocks'[j].at \in 1..Len(blocks'[j].arms)
                      /\ blocks'[j].target # "none" =>
                           /\ j = Level /\ Passed(j)'
                           /\ \E i \in blocks'[j].at + 1..Len(blocks'[j].arms) : blocks'[j].arms[i] = blocks'[j].target
                           /\ blocks'[j].target = "default" /\ blocks'[j].narrows =>
                                \A k \in 1..2 * j - 2 : BindsTo(scopes', blocks'[j].on, k, 2 * j - 2)
                                    => env'[k][blocks'[j].on] # "nil"
                      /\ blocks'[j].target = "none" /\ Passed(j)' =>
                           ~ blocks'[j].joined \/ ~ Lists(blocks'[j].arms, "default")
    BY <1>11 DEF ArmsAgree
  <2>1. CASE j = Level
    <3>1. blocks'[j] = block /\ block.kind = "arm" /\ 2 * j - 2 = p /\ p \in 1..p /\ (Passed(j)' <=> n = p)
      BY <1>8, <1>10, <1>11, <1>12, <2>1
    <3>2. n = p => \A k \in 1..p : env'[k] = env[k]
      BY <1>5, <1>8
    <3>3. \A y, k : BindsTo(scopes', y, k, p) <=> BindsTo(scopes, y, k, p)
      BY <1>13, <3>1
    <3> QED BY <1>6, <2>1, <3>1, <3>2, <3>3
  <2>2. CASE j # Level
    <3>1. blocks'[j] = blocks[j]
      BY <1>10, <1>12, <2>2
    <3>2. blocks[j].at \in 1..Len(blocks[j].arms) /\ blocks[j].target = "none"
      BY <2>2, <3>1 DEF NilInv, ArmsAgree
    <3>3. Passed(j)' => ~ blocks[j].joined \/ ~ Lists(blocks[j].arms, "default")
      BY <1>24, <2>2, <3>1, <3>2 DEF NilInv, ArmsAgree
    <3> QED BY <3>1, <3>2, <3>3
  <2> QED BY <2>1, <2>2
<1>29. EndsAgree'
  <2>1. \A j \in 1..Level - 1 : ~ blocks'[j].ends
    <3>1. \A j \in 1..Level - 1 : j \in 1..Level /\ j # Level
      BY <1>1
    <3> QED BY <1>10, <3>1 DEF NilInv, EndsAgree
  <2>2. \A j \in 1..Level : blocks'[j].kind = "function" <=> j = 1
    BY <1>1, <1>10 DEF NilInv, EndsAgree
  <2> QED BY <1>1, <1>10, <1>11, <2>1, <2>2 DEF EndsAgree
<1> QED BY <1>17, <1>18, <1>19, <1>21, <1>23, <1>25, <1>26, <1>27, <1>28, <1>29 DEF NilInv

\* The second branch of an if.
ElseBlock(b) == [b EXCEPT !.kind = "else", !.joined = b.ends, !.ends = FALSE]

LEMMA ElseBlockShape ==
    ASSUME NEW b \in Blocks, NEW block, block = ElseBlock(b)
    PROVE  /\ block \in Blocks /\ block.kind = "else" /\ ~ block.ends
           /\ block.joined = b.ends /\ block.checks = b.checks
  BY DEF Blocks, ElseBlock

\* The next arm of a match.
NextArm(b, target) ==
    [b EXCEPT !.joined = @ /\ b.ends, !.ends = FALSE, !.at = @ + 1, !.target = target]

LEMMA NextArmShape ==
    ASSUME NEW b \in Blocks, b.at + 1 \in 0..2, NEW target \in {"none", "nil", "default"},
           NEW block, block = NextArm(b, target)
    PROVE  /\ block \in Blocks /\ block.kind = b.kind /\ ~ block.ends
           /\ block.joined <=> b.joined /\ b.ends
           /\ block.on = b.on /\ block.narrows = b.narrows /\ block.arms = b.arms
           /\ block.at = b.at + 1 /\ block.target = target
  BY DEF Blocks, NextArm

\* The run enters the second branch if it has passed by the first.
LEMMA ElseStep ==
    ASSUME NilInv, Else
    PROVE  NilInv'
<1> DEFINE b == TopBlock
           block == [TopBlock EXCEPT !.kind = "else", !.joined = TopBlock.ends, !.ends = FALSE]
           f == Narrowed(b.checks, "else")
           p == Top - 2
<1>1. /\ b.kind = "then" /\ Reopen(block, f) /\ UNCHANGED <<companions, crashed>>
      /\ CASE Here -> Leave(p)
           [] Len(env) = p -> Enter
           [] OTHER -> UNCHANGED env
  BY DEF Else
<1>2. Level # 1 /\ Level \in 2..Level /\ b \in Blocks /\ b = blocks[Level]
  BY <1>1, NotTheFirst DEF TopBlock
<1>3. block = ElseBlock(b)
  BY DEF ElseBlock
<1> HIDE DEF block, b
<1>4. /\ block \in Blocks /\ block.kind = "else" /\ ~ block.ends
      /\ block.joined = b.ends /\ block.checks = b.checks
  BY <1>2, <1>3, ElseBlockShape
<1>5. b.checks \in [All -> Checks] /\ b.ends \in BOOLEAN
  BY <1>2 DEF Blocks
<1>6. f = Narrowed(block.checks, "else")
  BY <1>4
<1> HIDE DEF f
<1>7. /\ Facts(f) \in Tables /\ Facts(f).vars = NoFacts /\ Facts(f).nil = f
      /\ \A x \in Names : /\ f[x] = "nonnull" <=> b.checks[x] = "eq"
                          /\ f[x] = "nullable" <=> b.checks[x] = "ne"
                          /\ Facts(f).vars[x] = "none"
  BY <1>4, <1>5, <1>6, NarrowedShape DEF All
<1>8. f \in [All -> States]
  BY <1>7 DEF Tables
<1>9. /\ Level \in Nat \ {0} /\ Top = 2 * Level /\ p = 2 * Level - 2 /\ Len(env) \in Nat
      /\ Passed(Level) <=> Len(env) = p
      /\ b.ends => ~ Here
      /\ Here <=> Len(env) = Top
  BY <1>2, Shapes DEF NilInv, Passed, Here, Top, EndsAgree
<1>10. p # Top /\ p \in Nat
  BY <1>2, <1>9
<1>11. /\ Here => Leave(p)
       /\ Len(env) = p => Enter
       /\ ~ Here /\ Len(env) # p => UNCHANGED env
  BY <1>1, <1>9, <1>10
<1>12. Reopens(block, f)
  BY <1>1, <1>2, <1>4, <1>6, <1>8 DEF Reopens
<1>13. Follows
  BY <1>11 DEF Follows
<1>14. /\ Len(env') = p => Here
       /\ Len(env') = Top => Passed(Level)
  <2>1. CASE Here
    <3>1. Len(env') = p
      <4>1. env \in Seq(Stores) /\ p \in 0..Len(env) /\ env' = SubSeq(env, 1, p)
        <5>1. p \in 0..Len(env)
          BY <1>9, <1>10, <2>1
        <5> QED BY <1>11, <2>1, <5>1 DEF NilInv, NilTypeOK, Leave
      <4> QED BY <4>1, FirstOf
    <3> QED BY <1>10, <2>1, <3>1
  <2>2. CASE Len(env) = p
    <3> DEFINE none == Empty
    <3>1. env' = env \o <<none, none>> /\ env \in Seq(Stores)
      BY <1>11, <2>2 DEF Enter, NilInv, NilTypeOK
    <3>2. none \in Stores
      BY DEF Empty, Stores, Values
    <3> HIDE DEF none
    <3>3. Len(env') = Len(env) + 2
      BY <3>1, <3>2, TwoAppended
    <3> QED BY <1>9, <1>10, <2>2, <3>3
  <2>3. CASE ~ Here /\ Len(env) # p
    BY <1>9, <1>11, <2>3
  <2> QED BY <2>1, <2>2, <2>3
<1>15. ElseAgrees(block)
  <2>1. ASSUME Len(env') = p
        PROVE  /\ ~ block.joined
               /\ \A x \in Names : \A k \in 1..p :
                    BindsTo(scopes, x, k, p) /\ block.checks[x] = "ne" => env[k][x] # "nil"
    <3>1. Here /\ ~ b.ends
      BY <1>9, <1>14, <2>1
    <3>2. ASSUME NEW x \in Names, NEW k \in 1..p, BindsTo(scopes, x, k, p), b.checks[x] = "ne"
          PROVE  env[k][x] # "nil"
      BY <1>1, <3>1, <3>2, BranchTrue DEF b
    <3> QED BY <1>4, <1>5, <3>1, <3>2
  <2>2. ASSUME Len(env') = Top, NEW t \in tied, t[3] <= p, block.checks[t[1]] = "ne" PROVE env[t[3]][t[1]] = "nil"
    <3>1. ErrorsNil(Level)
      BY <1>1, <1>2, <1>14, <2>2 DEF NilInv, SkippedThen
    <3> QED BY <1>2, <1>4, <1>9, <2>2, <3>1 DEF ErrorsNil
  <2> QED BY <2>1, <2>2 DEF ElseAgrees
<1>16. ArmAgrees(block)
  BY <1>4 DEF ArmAgrees
<1>17. ASSUME Len(env') = Top, NEW x \in Names PROVE HeadIsTrue(scopes, Facts(f), env, p, x)
  <2>1. Passed(Level)
    BY <1>14, <1>17
  <2>2. \A k \in 1..p : BindsTo(scopes, x, k, p) =>
            /\ b.checks[x] = "eq" => env[k][x] # "nil"
            /\ b.checks[x] = "ne" /\ scopes[k].vars[x] = "nullable" => ~ SureTo(scopes, x, p)
    BY <1>1, <1>2, <1>9, <2>1 DEF NilInv, SkippedThen
  <2> QED BY <1>7, <2>2 DEF HeadIsTrue
<1> QED BY <1>12, <1>13, <1>15, <1>16, <1>17, Reopening

\* The run takes the next arm if it is the one it has yet to take.
LEMMA ArmStep ==
    ASSUME NilInv, Arm
    PROVE  NilInv'
<1> DEFINE b == TopBlock
           arm == b.arms[b.at + 1]
           taken == b.target = arm
           left == IF taken THEN "none" ELSE b.target
           block == [TopBlock EXCEPT !.joined = @ /\ TopBlock.ends, !.ends = FALSE,
                        !.at = @ + 1, !.target = IF taken THEN "none" ELSE @]
           f == ArmFacts(block, arm)
           p == Top - 2
<1>1. /\ b.kind = "arm" /\ b.at < Len(b.arms) /\ Reopen(block, f) /\ UNCHANGED <<companions, crashed>>
      /\ CASE Here -> Leave(p)
           [] taken -> Enter
           [] OTHER -> UNCHANGED env
  BY DEF Arm
<1>2. Level # 1 /\ Level \in 2..Level /\ b \in Blocks /\ b = blocks[Level]
  BY <1>1, NotTheFirst DEF TopBlock
<1>3. /\ b.ends \in BOOLEAN /\ b.joined \in BOOLEAN /\ b.narrows \in BOOLEAN
      /\ b.target \in {"none", "nil", "default"} /\ b.arms \in ArmLists \cup {<<>>} /\ b.at \in 0..2
  BY <1>2 DEF Blocks
<1>4. block = NextArm(b, left)
  BY DEF NextArm
<1>5. left \in {"none", "nil", "default"} /\ (taken => left = "none") /\ (~ taken => left = b.target)
  BY <1>3
<1>6. /\ b.arms \in ArmLists /\ Len(b.arms) \in 1..2 /\ b.at + 1 \in 1..Len(b.arms) /\ b.at + 1 \in 0..2
      /\ arm \in {"nil", "default"}
  <2>1. b.arms # <<>>
    BY <1>1, <1>3
  <2>2. b.arms \in ArmLists
    BY <1>3, <2>1
  <2>3. Len(b.arms) \in 1..2 /\ \A i \in 1..Len(b.arms) : b.arms[i] \in {"nil", "default"}
    BY <2>2, ArmListShapes
  <2>4. b.at + 1 \in 1..Len(b.arms) /\ b.at + 1 \in 0..2
    BY <1>1, <1>3, <2>3
  <2> QED BY <2>2, <2>3, <2>4
<1>7. taken <=> b.target = arm
  OBVIOUS
<1> HIDE DEF block, left, taken, b
<1>8. /\ block \in Blocks /\ block.kind = "arm" /\ ~ block.ends
      /\ block.joined <=> b.joined /\ b.ends
      /\ block.on = b.on /\ block.narrows = b.narrows /\ block.arms = b.arms
      /\ block.at = b.at + 1 /\ block.target = left
  BY <1>1, <1>2, <1>4, <1>5, <1>6, NextArmShape
<1>9. /\ f \in [All -> States]
      /\ \A x \in Names : f[x] \in {"none", "nonnull"} /\ (f[x] = "nonnull" => x = b.on /\ b.narrows /\ arm # "nil")
  BY <1>8 DEF ArmFacts, States, All
<1>10. Facts(f).vars = NoFacts /\ Facts(f).nil = f /\ \A x \in Names : NoFacts[x] = "none"
  <2> HIDE DEF f
  <2> QED BY NoFactsThere DEF Facts, All
<1> HIDE DEF f, arm
<1>11. /\ Level \in Nat \ {0} /\ Top = 2 * Level /\ p = 2 * Level - 2 /\ Len(env) \in Nat
       /\ Passed(Level) <=> Len(env) = p
       /\ b.ends => ~ Here
       /\ Here <=> Len(env) = Top
  BY <1>2, Shapes DEF NilInv, Passed, Here, Top, EndsAgree
<1>12. p # Top /\ p \in Nat
  BY <1>2, <1>11
<1>13. /\ b.target # "none" =>
            /\ Passed(Level)
            /\ \E i \in b.at + 1..Len(b.arms) : b.arms[i] = b.target
            /\ b.target = "default" /\ b.narrows =>
                 \A k \in 1..p : BindsTo(scopes, b.on, k, p) => env[k][b.on] # "nil"
       /\ b.target = "none" /\ Passed(Level) => ~ b.joined \/ ~ Lists(b.arms, "default")
  BY <1>1, <1>2, <1>11 DEF NilInv, ArmsAgree
<1>14. /\ taken => b.target # "none" /\ Len(env) = p /\ ~ Here
       /\ Here => Leave(p)
       /\ taken => Enter
       /\ ~ Here /\ ~ taken => UNCHANGED env
  BY <1>1, <1>6, <1>7, <1>11, <1>12, <1>13
<1>15. Reopens(block, f)
  BY <1>1, <1>2, <1>8, <1>9 DEF Reopens
<1>16. Follows
  BY <1>14 DEF Follows
<1>17. /\ Len(env') = p => Here \/ (Passed(Level) /\ ~ taken)
       /\ Len(env') = Top => taken
       /\ Passed(Level) /\ ~ taken => Len(env') = p
  <2>1. CASE Here
    <3>1. Len(env') = p
      <4>1. env \in Seq(Stores) /\ p \in 0..Len(env) /\ env' = SubSeq(env, 1, p)
        <5>1. p \in 0..Len(env)
          BY <1>11, <1>12, <2>1
        <5> QED BY <1>14, <2>1, <5>1 DEF NilInv, NilTypeOK, Leave
      <4> QED BY <4>1, FirstOf
    <3> QED BY <1>12, <2>1, <3>1
  <2>2. CASE taken
    <3> DEFINE none == Empty
    <3>1. env' = env \o <<none, none>> /\ env \in Seq(Stores)
      BY <1>14, <2>2 DEF Enter, NilInv, NilTypeOK
    <3>2. none \in Stores
      BY DEF Empty, Stores, Values
    <3> HIDE DEF none
    <3>3. Len(env') = Len(env) + 2
      BY <3>1, <3>2, TwoAppended
    <3> QED BY <1>11, <1>12, <1>14, <2>2, <3>3
  <2>3. CASE ~ Here /\ ~ taken
    BY <1>11, <1>14, <2>3
  <2> QED BY <2>1, <2>2, <2>3
<1>18. ElseAgrees(block)
  BY <1>8 DEF ElseAgrees
<1>19. ArmAgrees(block)
  <2>1. ASSUME left # "none"
        PROVE  /\ Len(env') = p
               /\ \E i \in b.at + 1 + 1..Len(b.arms) : b.arms[i] = left
               /\ left = "default" /\ b.narrows =>
                    \A k \in 1..p : BindsTo(scopes, b.on, k, p) => env[k][b.on] # "nil"
    <3>1. ~ taken /\ left = b.target /\ b.target # "none"
      BY <1>5, <2>1
    <3>2. PICK i \in b.at + 1..Len(b.arms) : b.arms[i] = b.target
      BY <1>13, <3>1
    <3>3. i # b.at + 1
      BY <1>7, <3>1, <3>2 DEF arm
    <3>4. i \in b.at + 1 + 1..Len(b.arms)
      BY <1>3, <1>6, <3>2, <3>3
    <3> QED BY <1>13, <1>17, <3>1, <3>2, <3>4
  <2>2. ASSUME left = "none", Len(env') = p PROVE ~ block.joined \/ ~ Lists(b.arms, "default")
    <3>1. CASE Here
      BY <1>8, <1>11, <3>1
    <3>2. CASE Passed(Level) /\ ~ taken
      BY <1>5, <1>8, <1>13, <2>2, <3>2
    <3> QED BY <1>17, <2>2, <3>1, <3>2
  <2> QED BY <1>6, <1>8, <2>1, <2>2 DEF ArmAgrees
<1>20. ASSUME Len(env') = Top, NEW x \in Names PROVE HeadIsTrue(scopes, Facts(f), env, p, x)
  <2>1. taken /\ b.target # "none" /\ b.target = arm
    BY <1>7, <1>14, <1>17, <1>20
  <2>2. f[x] = "nonnull" => \A k \in 1..p : BindsTo(scopes, x, k, p) => env[k][x] # "nil"
    BY <1>6, <1>9, <1>13, <2>1
  <2> QED BY <1>9, <1>10, <2>2 DEF HeadIsTrue
<1> QED BY <1>15, <1>16, <1>18, <1>19, <1>20, Reopening

-----------------------------------------------------------------------------
(* The body as a whole.                                                    *)

\* The parameters are what their types say, and nothing else is known.
LEMMA NilStart == NilInit => NilInv
<1> SUFFICES ASSUME NilInit PROVE NilInv
  OBVIOUS
<1>1. PICK t \in [Names -> {"none", "nullable", "pointer"}] :
        LET type == [n \in All |-> IF n \in Names THEN t[n] ELSE "none"]
            sure == [n \in All |-> IF type[n] = "pointer" THEN "nonnull" ELSE "none"]
        IN  /\ scopes = <<[vars |-> type, nil |-> sure], Facts(NoFacts)>>
            /\ \E N \in SUBSET {n \in Names : t[n] = "nullable"} :
                 env = <<[n \in All |-> CASE type[n] = "none" -> "none"
                                          [] n \in N -> "nil"
                                          [] OTHER -> "object"], Empty>>
  BY DEF NilInit
<1> DEFINE type == [n \in All |-> IF n \in Names THEN t[n] ELSE "none"]
           sure == [n \in All |-> IF type[n] = "pointer" THEN "nonnull" ELSE "none"]
           first == [vars |-> type, nil |-> sure]
           rest == Facts(NoFacts)
<1>2. PICK N \in SUBSET {n \in Names : t[n] = "nullable"} :
         env = <<[n \in All |-> CASE type[n] = "none" -> "none"
                                  [] n \in N -> "nil"
                                  [] OTHER -> "object"], Empty>>
  BY <1>1
<1> DEFINE values == [n \in All |-> CASE type[n] = "none" -> "none"
                                      [] n \in N -> "nil"
                                      [] OTHER -> "object"]
           none == Empty
<1>3. scopes = <<first, rest>> /\ env = <<values, none>>
  BY <1>1, <1>2
<1>4. ASSUME NEW x \in Names
      PROVE  /\ x \in All /\ type[x] \in {"none", "nullable", "pointer"}
             /\ sure[x] = "nonnull" => type[x] = "pointer"
             /\ type[x] = "pointer" => values[x] = "object"
  <2>1. x \in All /\ type[x] = t[x] /\ t[x] \in {"none", "nullable", "pointer"}
    BY DEF All
  <2>2. sure[x] = "nonnull" => type[x] = "pointer"
    BY <2>1
  <2>3. ASSUME type[x] = "pointer" PROVE values[x] = "object"
    <3>1. x \notin N
      BY <2>1, <2>3
    <3> QED BY <2>1, <2>3, <3>1
  <2> QED BY <2>1, <2>2, <2>3
<1>5. type \in [All -> Types] /\ sure \in [All -> States] /\ values \in Stores /\ none \in Stores
  <2>1. type \in [All -> Types]
    BY DEF Types
  <2>2. sure \in [All -> States]
    BY DEF States
  <2>3. values \in Stores
    <3>1. ASSUME NEW x \in All PROVE values[x] \in Values
      <4>1. CASE type[x] = "none"
        <5>1. x \notin N
          BY <4>1
        <5> QED BY <4>1, <5>1 DEF Values
      <4>2. CASE type[x] # "none" /\ x \in N
        BY <4>2 DEF Values
      <4>3. CASE type[x] # "none" /\ x \notin N
        BY <4>3 DEF Values
      <4> QED BY <4>1, <4>2, <4>3
    <3> QED BY <3>1 DEF Stores
  <2>4. none \in Stores
    BY DEF Empty, Stores, Values
  <2> QED BY <2>1, <2>2, <2>3, <2>4
<1> HIDE DEF type, sure, values, none
<1>6. first \in Tables /\ rest \in Tables
  BY <1>5, NoFactsThere DEF Tables
<1>7. /\ \A x \in Names : first.vars[x] = type[x] /\ first.nil[x] = sure[x]
      /\ \A x \in Names : rest.vars[x] = "none" /\ rest.nil[x] = "none"
  BY <1>4, NoFactsThere DEF Facts
<1> HIDE DEF first, rest
<1>8. /\ scopes \in Seq(Tables) /\ Len(scopes) = 2 /\ DOMAIN scopes = 1..2
      /\ scopes[1] = first /\ scopes[2] = rest
  BY <1>3, <1>6
<1>9. /\ env \in Seq(Stores) /\ Len(env) = 2 /\ DOMAIN env = 1..2
      /\ env[1] = values
  BY <1>3, <1>5
<1>10. /\ blocks \in Seq(Blocks) /\ Len(blocks) = 1
       /\ blocks[1].kind = "function" /\ ~ blocks[1].ends
  <2> DEFINE b == NewBlock("function")
  <2>1. blocks = <<b>>
    BY DEF NilInit
  <2>2. b \in Blocks /\ b.kind = "function" /\ ~ b.ends
    BY NewBlockShape
  <2> HIDE DEF b
  <2> QED BY <2>1, <2>2
<1>11. companions = [e \in Errors |-> "none"] /\ crashed = FALSE /\ tied = {}
  BY DEF NilInit
<1>12. Level = 1 /\ Top = 2 /\ 1..2 = {1, 2}
  BY <1>8, <1>10 DEF Level, Top
<1>13. ASSUME NEW x \in Names, NEW p \in 1..2
       PROVE  /\ \A k : BindsTo(scopes, x, k, p) => k = 1
              /\ SureTo(scopes, x, p) => sure[x] = "nonnull"
  <2>1. scopes[2].vars[x] = "none" /\ scopes[2].nil[x] = "none" /\ scopes[1].nil[x] = sure[x]
    BY <1>7, <1>8
  <2>2. \A k \in 1..p : k = 1 \/ k = 2
    BY <1>12
  <2>3. \A k : BindsTo(scopes, x, k, p) => k = 1
    BY <2>1, <2>2 DEF BindsTo
  <2>4. SureTo(scopes, x, p) => sure[x] = "nonnull"
    BY <2>1, <2>2 DEF SureTo
  <2> QED BY <2>3, <2>4
<1>14. NilTypeOK
  <2>1. \A k \in DOMAIN scopes : \A x \in Names : scopes[k].vars[x] # "error"
    BY <1>4, <1>7, <1>8, <1>12
  <2>2. \E d \in 0..Len(blocks) : Len(env) = 2 * d
    BY <1>9, <1>10
  <2>3. companions \in [Errors -> Names \cup {"none"}] /\ crashed \in BOOLEAN /\ tied \subseteq Errors \X Names \X (1..Len(scopes))
    BY <1>11
  <2> QED BY <1>8, <1>9, <1>10, <2>1, <2>2, <2>3 DEF NilTypeOK
<1>15. NilSafe /\ TypesAreHonest /\ TiesHold
  <2>1. TypesAreHonest
    <3> SUFFICES ASSUME NEW k \in 1..2, NEW x \in Names, scopes[k].vars[x] = "pointer" PROVE env[k][x] # "nil"
      BY <1>9 DEF TypesAreHonest
    <3>1. k = 1 /\ type[x] = "pointer"
      BY <1>7, <1>8, <1>12
    <3> QED BY <1>4, <1>9, <3>1
  <2> QED BY <1>11, <2>1 DEF NilSafe, TiesHold
<1>16. FactsHold /\ FactsStay
  <2>1. ASSUME NEW p \in 1..2, NEW x \in Names, NEW k, BindsTo(scopes, x, k, p), SureTo(scopes, x, p)
        PROVE  env[k][x] # "nil"
    <3>1. k = 1 /\ values[x] = "object"
      BY <1>4, <1>13, <2>1
    <3> QED BY <1>9, <3>1
  <2>2. ASSUME NEW q \in 1..2, NEW p \in 1..q, NEW x \in Names, NEW k,
               BindsTo(scopes, x, k, q), scopes[k].vars[x] = "nullable", SureTo(scopes, x, p)
        PROVE  FALSE
    <3>1. p \in 1..2
      BY <1>12
    <3>2. k = 1 /\ type[x] = "nullable" /\ type[x] = "pointer"
      BY <1>4, <1>7, <1>8, <1>13, <2>2, <3>1
    <3> QED BY <3>2
  <2>3. FactsHold
    BY <1>9, <2>1 DEF FactsHold, FactsTo
  <2>4. FactsStay
    BY <1>9, <2>2 DEF FactsStay, StayTo
  <2> QED BY <2>3, <2>4
<1>17. 2..Level = {} /\ 1..Level - 1 = {} /\ 1..Level = {1}
  BY <1>12
<1>18. BranchFacts /\ SkippedThen /\ TookThen /\ TookElse /\ ArmsAgree
  BY <1>17 DEF BranchFacts, SkippedThen, TookThen, TookElse, ArmsAgree
<1>19. EndsAgree
  BY <1>10, <1>12, <1>17 DEF EndsAgree
<1> QED BY <1>14, <1>15, <1>16, <1>18, <1>19 DEF NilInv

\* Nothing the body can go on with breaks it, if the body is free of the traps.
LEMMA NilStep == NilInv /\ Traps = {} /\ [NilNext]_vars => NilInv'
<1> SUFFICES ASSUME NilInv, Traps = {}, [NilNext]_vars PROVE NilInv'
  OBVIOUS
<1>1. ASSUME NEW x \in Names, NEW v \in Exprs, Decl(x, v) PROVE NilInv'
  BY <1>1, DeclStep
<1>2. ASSUME NEW x \in Names, NEW v \in Exprs, Assign(x, v) PROVE NilInv'
  BY <1>2, AssignStep
<1>3. ASSUME NEW P \in Pairs, NEW v \in [P -> Exprs], MultiAssign(v) PROVE NilInv'
  BY <1>3, MultiAssignStep DEF Pairs
<1>4. ASSUME NEW x \in Names, NEW type \in {"nullable", "pointer"}, NEW v \in Exprs \cup {"zero"},
             VarDecl(x, type, v)
      PROVE  NilInv'
  BY <1>4, VarDeclStep
<1>5. ASSUME NEW x \in Names, NEW type \in {"nullable", "pointer"}, ForRange(x, type) PROVE NilInv'
  BY <1>5, ForRangeStep
<1>6. ASSUME NEW x \in Names, Use(x) PROVE NilInv'
  BY <1>6, UseStep
<1>7. ASSUME NEW x \in Names, NilAssert(x) PROVE NilInv'
  BY <1>7, NilAssertStep, NilAssertStops
<1>8. ASSUME NEW x \in Names, NEW e \in Errors, MultiDecl(x, e) PROVE NilInv'
  BY <1>8, MultiDeclStep
<1>9. ASSUME NEW x \in Names, NEW arms \in ArmLists, Match(x, arms) PROVE NilInv'
  BY <1>9, MatchStep
<1>10. ASSUME NEW c \in Conditions, If(c) PROVE NilInv'
  BY <1>10, IfStep
<1>11. ASSUME NEW ends \in BOOLEAN, Skip(ends) PROVE NilInv'
  BY <1>11, SkipStep
<1>12. ASSUME NEW x \in Names, NEW e \in Errors, SkipCall(x, e) PROVE NilInv'
  BY <1>12, SkipCallStep
<1>13. CASE Else
  BY <1>13, ElseStep
<1>14. CASE EndIf
  BY <1>14, EndIfStep
<1>15. CASE For
  BY <1>15, ForStep
<1>16. CASE EndFor
  BY <1>16, EndForStep
<1>17. CASE Break
  BY <1>17, BreakStep
<1>18. CASE Return
  BY <1>18, ReturnStep
<1>19. CASE Arm
  BY <1>19, ArmStep
<1>20. CASE EndMatch
  BY <1>20, EndMatchStep
<1>21. CASE UNCHANGED vars
  <2>1. UNCHANGED <<scopes, blocks, companions, env, crashed, tied>>
    BY <1>21 DEF vars, checkVars, runVars
  <2>2. NilTypeOK' /\ NilSafe' /\ TypesAreHonest' /\ FactsHold' /\ FactsStay'
    BY <2>1 DEF NilInv, NilTypeOK, NilSafe, TypesAreHonest, FactsHold, FactsStay
  <2>3. TiesHold' /\ BranchFacts' /\ SkippedThen' /\ TookThen' /\ TookElse'
    BY <2>1 DEF NilInv, TiesHold, BranchFacts, SkippedThen, TookThen, TookElse, ErrorsNil, Passed, Level, Top
  <2>4. ArmsAgree' /\ EndsAgree'
    BY <2>1 DEF NilInv, ArmsAgree, EndsAgree, Passed, Level, Here
  <2> QED BY <2>2, <2>3, <2>4 DEF NilInv
<1> QED
  BY <1>1, <1>2, <1>3, <1>4, <1>5, <1>6, <1>7, <1>8, <1>9, <1>10, <1>11, <1>12, <1>13, <1>14,
     <1>15, <1>16, <1>17, <1>18, <1>19, <1>20, <1>21 DEF NilNext

-----------------------------------------------------------------------------
(* The theorems.                                                           *)

\* Wherever a body free of the traps has got to, what the checker knows is true
\* of the run, in every scope that the run will come back to: the invariant that
\* the other theorems follow from.
THEOREM FlowInvariant ==
    ASSUME Traps = {}
    PROVE  NilSpec => []NilInv
<1>1. NilInit => NilInv
  BY NilStart
<1>2. NilInv /\ [NilNext]_vars => NilInv'
  BY NilStep
<1> QED BY <1>1, <1>2, PTL DEF NilSpec

\* No dereference that the checker lets through is one of nil.
THEOREM NoNilDereference ==
    ASSUME Traps = {}
    PROVE  NilSpec => []NilSafe
<1>1. NilInv => NilSafe
  BY DEF NilInv
<1> QED BY <1>1, FlowInvariant, PTL

\* A variable of a type without ? holds no nil.
THEOREM HonestTypes ==
    ASSUME Traps = {}
    PROVE  NilSpec => []TypesAreHonest
<1>1. NilInv => TypesAreHonest
  BY DEF NilInv
<1> QED BY <1>1, FlowInvariant, PTL

\* A variable that the checker has narrowed is not nil, where the run is.
THEOREM NarrowingIsSound ==
    ASSUME Traps = {}
    PROVE  NilSpec => []NarrowedIsNonNil
<1>1. NilInv => NarrowedIsNonNil
  <2> SUFFICES ASSUME NilInv, Here, NEW x \in Names, NEW k \in DOMAIN scopes,
                      Binds(scopes, x, k), NonNull(scopes, x)
               PROVE  env[k][x] # "nil"
    BY DEF NarrowedIsNonNil
  <2>1. Len(env) = Top /\ Top \in Nat \ {0} /\ Top = Len(scopes) /\ DOMAIN scopes = 1..Top
    BY Shapes DEF NilInv, Here, Top
  <2>2. BindsTo(scopes, x, k, Top) /\ SureTo(scopes, x, Top)
    BY <2>1, LookedUp
  <2>3. Top \in 1..Top /\ k \in 1..Top
    BY <2>1
  <2> QED BY <2>1, <2>2, <2>3 DEF NilInv, FactsHold, FactsTo
<1> QED BY <1>1, FlowInvariant, PTL

\* The run does not get past a block that the checker takes for diverging.
THEOREM DivergenceIsReal ==
    ASSUME Traps = {}
    PROVE  NilSpec => []DivergingBlocksEnd
<1>1. NilInv => DivergingBlocksEnd
  BY DEF NilInv, EndsAgree, DivergingBlocksEnd, TopBlock
<1> QED BY <1>1, FlowInvariant, PTL
=============================================================================
