-------------------------------- MODULE Unify --------------------------------
(***************************************************************************)
(* Unification of types (src/types/infer/unify.rs).  The checker unifies   *)
(* one pair of types after another, all into one substitution; what it     *)
(* once found to fit has to fit when the variables are solved, and solving *)
(* them has to end.                                                        *)
(*                                                                         *)
(* A type is named, and Shape gives its outermost constructor with the     *)
(* names of its parts.  The code copies types and replaces their solved    *)
(* variables before it looks at them; here the replacement is made where a *)
(* part is looked at, which gives the same parts, since a solved variable  *)
(* keeps its solution.                                                     *)
(***************************************************************************)
EXTENDS Naturals, Sequences, FiniteSets, Lists

CONSTANTS
    Types,      \* the types of a body: its annotations, its values, the variables
    Vars,       \* those that are variables of the inference
    Shape,      \* type -> its outermost constructor, see Constructor
    VarsIn,     \* type -> the variables that are parts of it
    Satisfies,  \* <<type, interface>>: the interface's methods are all there
    Unbound,    \* the solution of a variable that has none
    Asked,      \* the pairs that unify is called with
    MaxCalls,   \* the calls
    MaxDepth    \* how deep UnifiedTypesMatch looks into types and solutions

(***************************************************************************)
(* kind    what the type is; an alias has its target as its only part      *)
(* head    the constructor's name, with the element's where the code has it*)
(*         in the name, as in *T                                           *)
(* class   what the code makes of the name by its prefix or by a table     *)
(* under   of a named type of a Go package, the class of what it stands for*)
(* foreign from a pure Go package, whose pointers are nilable for caution  *)
(* args    the parts; of a function its parameters, then what it returns   *)
(***************************************************************************)
Kinds == {"con", "func", "var", "alias", "never", "error"}
Literals == {"int", "float", "string", "bool"}
Elements == {"pointer", "slice", "chan"}
Classes == Literals \cup Elements \cup
           {"map", "variadic", "plain", "any", "error", "gointerface", "interface"}
Constructor == [kind : Kinds, head : STRING, class : Classes, nullable : BOOLEAN,
                under : Literals \cup {"none"}, foreign : BOOLEAN, args : Seq(Types)]

PartsOf(t) == {Shape[t].args[i] : i \in DOMAIN Shape[t].args}

Class(t) == IF Shape[t].kind = "con" THEN Shape[t].class ELSE "none"

ASSUME ShapeAssumption ==
    /\ Shape \in [Types -> Constructor]
    /\ Vars = {t \in Types : Shape[t].kind = "var"}
    /\ \A t \in Types : Shape[t].kind = "alias" => Len(Shape[t].args) = 1
    /\ \A t \in Types : Shape[t].kind = "var" => Shape[t].args = <<>>
    /\ \A t \in Types : Shape[t].kind = "func" => Len(Shape[t].args) > 0
    /\ \A t \in Types : Class(t) = "variadic" => Len(Shape[t].args) = 1
ASSUME VarsInAssumption ==
    /\ VarsIn \in [Types -> SUBSET Vars]
    /\ \A t \in Types : VarsIn[t] = IF t \in Vars THEN {t} ELSE UNION {VarsIn[p] : p \in PartsOf(t)}
ASSUME AskedAssumption ==
    /\ Asked \subseteq Types \X Types
    /\ \A c \in Asked : "error" \notin {Shape[c[1]].kind, Shape[c[2]].kind}
ASSUME UnboundAssumption == Unbound \notin Types
ASSUME SatisfiesAssumption == \A s \in Satisfies : Shape[s[1]].kind = "con"
ASSUME MaxCallsAssumption == MaxCalls \in Nat
ASSUME MaxDepthAssumption == MaxDepth \in Nat

VARIABLES
    subst,      \* substitutions: variable -> its solution
    work,       \* the pairs that unify_inner has still to visit, in order
    goal,       \* the pair that unify was called with last, if any
    verdict,    \* "idle", "running", "ok" or "failed"
    agreed,     \* history: the pairs unified so far
    waved,      \* history: the pairs passed without a look at all their parts
    calls       \* history: the number of calls

vars == <<subst, work, goal, verdict, agreed, waved, calls>>

Pairs == Types \X Types

UnifyTypeOK ==
    /\ subst \in [Vars -> Types \cup {Unbound}]
    /\ work \in Seq(Pairs) /\ (work # <<>> => verdict = "running")
    /\ goal \in Pairs \cup {<<>>} /\ (verdict = "running" => goal \in Pairs)
    /\ verdict \in {"idle", "running", "ok", "failed"}
    /\ agreed \subseteq Pairs /\ waved \subseteq Pairs
    /\ calls \in 0..MaxCalls

-----------------------------------------------------------------------------
(* The substitution.                                                       *)

Bound == {v \in Vars : subst[v] # Unbound}

\* The variables D and all that is in their solutions.
Closed(D) == \A v \in D \cap Bound : VarsIn[subst[v]] \subseteq D

\* Variant: only the type as it is written is searched.
Occurs_Written(v, t) == v \in VarsIn[t]

\* occurs, in the type with its solved variables replaced
Occurs(v, t) == \A D \in SUBSET Vars : VarsIn[t] \subseteq D /\ Closed(D) => v \in D

\* Variant: the solution of a variable is not looked up.
Root_Written(t) == Shape[t].kind # "alias"

\* A type whose root is not to be replaced.
Root(t) == t \notin Bound /\ Shape[t].kind # "alias"

\* substitute and resolve_alias, one replacement at the root of the type
Replace(t) == IF t \in Bound THEN subst[t]
              ELSE IF Shape[t].kind = "alias" THEN Shape[t].args[1] ELSE t

-----------------------------------------------------------------------------
(* How two types meet, once the root of neither is to be replaced: they    *)
(* agree, or one is a variable to be solved, or their parts have to agree, *)
(* or they do not fit.                                                     *)

Parts(t) == Shape[t].args

\* A nilable pointer that is not nilable for caution only may not become an
\* interface.
NilablePointer(t) == Class(t) = "pointer" /\ Shape[t].nullable /\ ~Shape[t].foreign

\* The class of a Go named type that a literal's type may be taken for.
Underlies(t, u) == Shape[t].under # "none" /\ Parts(t) = <<>> /\ Parts(u) = <<>>
                   /\ Class(u) \in Literals

HeadsFit(t, u) ==
    IF /\ Class(t) = Class(u) /\ Class(t) \in {"int", "float"}
       /\ Parts(t) = <<>> /\ Parts(u) = <<>>
    THEN TRUE
    ELSE IF Underlies(t, u) THEN Shape[t].under = Class(u)
    ELSE \/ Class(t) = Class(u) /\ Class(t) \in Elements
         \/ /\ Shape[t].head = Shape[u].head
            /\ Class(t) \in Elements \cup {"map"} \/ Len(Parts(t)) = Len(Parts(u))

Params(t) == SubSeq(Parts(t), 1, Len(Parts(t)) - 1)
Result(t) == Parts(t)[Len(Parts(t))]
Variadic(t) == Params(t) # <<>> /\ Class(Params(t)[Len(Params(t))]) = "variadic"
Fixed(t) == IF Variadic(t) THEN Len(Params(t)) - 1 ELSE Len(Params(t))

ParamsFit(t, u) == IF Variadic(t) THEN Len(Params(u)) >= Fixed(t)
                   ELSE Len(Params(u)) = Fixed(t)

\* Variant: a nilable value fits where one that is not nilable is expected.
Fits_Nilable(t, u) ==
    \/ Shape[t].kind = "con" /\ Shape[u].kind = "con" /\ HeadsFit(t, u)
    \/ Shape[t].kind = "func" /\ Shape[u].kind = "func" /\ ParamsFit(t, u)

\* The constructors fit, and what is not nilable does not receive a nilable.
Fits(t, u) ==
    /\ Shape[u].nullable => Shape[t].nullable
    /\ \/ Shape[t].kind = "con" /\ Shape[u].kind = "con" /\ HeadsFit(t, u)
       \/ Shape[t].kind = "func" /\ Shape[u].kind = "func" /\ ParamsFit(t, u)

Silent == {"never", "error"}

Meet(t, u) ==
    IF "any" \in {Class(t), Class(u)} THEN "agree"
    ELSE IF Class(t) \in {"error", "gointerface"} THEN
        IF NilablePointer(u) THEN "clash" ELSE "agree"
    ELSE IF Class(t) = "interface" /\ Class(u) # "interface" THEN
        IF <<u, t>> \in Satisfies /\ ~NilablePointer(u) THEN "agree" ELSE "clash"
    ELSE IF {Shape[t].kind, Shape[u].kind} \cap Silent # {} \/ (t = u /\ t \in Vars) THEN "agree"
    ELSE IF t \in Vars THEN IF Occurs(t, u) THEN "clash" ELSE "left"
    ELSE IF u \in Vars THEN IF Occurs(u, t) THEN "clash" ELSE "right"
    ELSE IF Fits(t, u) THEN "parts" ELSE "clash"

\* The pairs of parts, in the order in which they are unified.
Zip(s, r) == [i \in 1..(IF Len(s) < Len(r) THEN Len(s) ELSE Len(r)) |-> <<s[i], r[i]>>]
Expected(t, i) == IF i <= Fixed(t) THEN Params(t)[i] ELSE Parts(Params(t)[Len(Params(t))])[1]
PairsOf(t, u) ==
    IF Shape[t].kind = "con" THEN Zip(Parts(t), Parts(u))
    ELSE [i \in 1..Len(Params(u)) |-> <<Expected(t, i), Params(u)[i]>>] \o <<<<Result(t), Result(u)>>>>

-----------------------------------------------------------------------------
(* unify and unify_inner.                                                  *)

UnifyInit ==
    /\ subst = [v \in Vars |-> Unbound]
    /\ work = <<>> /\ verdict = "idle"
    /\ goal = <<>> /\ agreed = {} /\ waved = {} /\ calls = 0

\* unify, whose pairs are not in error: those it passes at once.
Call(c) ==
    /\ verdict # "running" /\ calls < MaxCalls
    /\ work' = <<c>> /\ goal' = c
    /\ verdict' = "running" /\ calls' = calls + 1
    /\ UNCHANGED <<subst, agreed, waved>>

\* The pair that unify_inner looks at.
Left == work[1][1]
Right == work[1][2]
Rooted == Root(Left) /\ Root(Right)
Looks(how) == work # <<>> /\ Rooted /\ Meet(Left, Right) = how
Rest == UNCHANGED <<goal, agreed, calls>>

Follow ==
    /\ work # <<>> /\ ~Rooted
    /\ work' = <<<<Replace(Left), Replace(Right)>>>> \o Tail(work)
    /\ UNCHANGED <<subst, verdict, waved>> /\ Rest

\* An interface takes a variable as it takes most types, and leaves it open.
Agree ==
    /\ Looks("agree")
    /\ work' = Tail(work)
    /\ waved' = IF Right \in Vars /\ Class(Left) \in {"error", "gointerface"}
                THEN waved \cup {<<Left, Right>>} ELSE waved
    /\ UNCHANGED <<subst, verdict>> /\ Rest

Solve ==
    /\ \/ Looks("left") /\ subst' = [subst EXCEPT ![Left] = Right]
       \/ Looks("right") /\ subst' = [subst EXCEPT ![Right] = Left]
    /\ work' = Tail(work)
    /\ UNCHANGED <<verdict, waved>> /\ Rest

\* Of *T, []T and chan T one may lack the part, which its name spells.
Descend ==
    /\ Looks("parts")
    /\ work' = PairsOf(Left, Right) \o Tail(work)
    /\ waved' = IF Class(Left) \in Elements \cup {"map"} /\ Len(Parts(Left)) # Len(Parts(Right))
                THEN waved \cup {<<Left, Right>>} ELSE waved
    /\ UNCHANGED <<subst, verdict>> /\ Rest

\* Variant: the error of a part does not end the visit.
Clash_GoesOn ==
    /\ Looks("clash")
    /\ work' = Tail(work) /\ verdict' = "failed"
    /\ UNCHANGED <<subst, waved>> /\ Rest

\* An error ends the visit; what was solved on the way stays.
Clash ==
    /\ Looks("clash")
    /\ work' = <<>> /\ verdict' = "failed"
    /\ UNCHANGED <<subst, waved>> /\ Rest

Return ==
    /\ verdict = "running" /\ work = <<>>
    /\ verdict' = "ok" /\ agreed' = agreed \cup {goal}
    /\ UNCHANGED <<subst, work, goal, waved, calls>>

Visit == Follow \/ Agree \/ Solve \/ Descend \/ Clash \/ Return

UnifyNext == (\E c \in Asked : Call(c)) \/ Visit
UnifySpec == UnifyInit /\ [][UnifyNext]_vars

\* unify is one call that waits for nothing.
FairUnifySpec == UnifySpec /\ WF_vars(verdict = "running" /\ Visit)

-----------------------------------------------------------------------------
(* What makes unification correct.                                         *)

\* Solving ends, in substitute and in bonk_type: among any solved variables
\* there is one in whose solution none of them occurs, so none leads back to
\* itself, directly or over others.
SubstitutionEnds ==
    \A D \in SUBSET Bound : D # {} => \E v \in D : VarsIn[subst[v]] \cap D = {}

\* A solution is final: what was copied with it stays equal to what is looked
\* up later, over failed calls as well.
SolutionsStay == [][\A v \in Bound : subst'[v] = subst[v]]_vars

\* x accepts y whatever their parts are.
Accepts(x, y) ==
    \/ x = y
    \/ "any" \in {Class(x), Class(y)}
    \/ {Shape[x].kind, Shape[y].kind} \cap Silent # {}
    \/ /\ Class(x) \in {"error", "gointerface"}
       /\ <<x, y>> \in waved \/ (Shape[y].kind \notin {"var", "alias"} /\ ~NilablePointer(y))
    \/ Class(x) = "interface" /\ <<y, x>> \in Satisfies /\ ~NilablePointer(y)

\* x and y are of one constructor, with equally many parts unless let through.
Alike(x, y) ==
    /\ Shape[y].nullable => Shape[x].nullable
    /\ \/ /\ Shape[x].kind = "con" /\ Shape[y].kind = "con" /\ HeadsFit(x, y)
          /\ Len(Parts(x)) = Len(Parts(y)) \/ <<x, y>> \in waved
       \/ Shape[x].kind = "func" /\ Shape[y].kind = "func" /\ ParamsFit(x, y)

\* A value of type y may be used where x is expected, if good says so of their
\* parts and of what stands for them.
Match(x, y, good) ==
    \/ Accepts(x, y)
    \/ Alike(x, y) /\ \A i \in DOMAIN PairsOf(x, y) : good[PairsOf(x, y)[i]]
    \/ \E t \in {x, Replace(x)}, u \in {y, Replace(y)} : <<t, u>> # <<x, y>> /\ good[<<t, u>>]

\* The pairs that match as far down as a number of levels.
Deeper(good, level) == [p \in Pairs |-> Match(p[1], p[2], good)]
MatchTo(levels) == Each(Deeper, [p \in Pairs |-> TRUE], [level \in 1..levels |-> level])

\* What unify has accepted still holds once more variables are solved, after
\* further calls and after calls that failed half-way, except where an interface
\* or a type that lacks its parts was let through.
UnifiedTypesMatch == \A c \in agreed : MatchTo(MaxDepth)[c]

\* Every call of unify comes back, if no alias leads back to itself.
UnifyReturns == verdict = "running" ~> verdict # "running"

=============================================================================
