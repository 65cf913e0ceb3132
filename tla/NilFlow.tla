------------------------------- MODULE NilFlow -------------------------------
(***************************************************************************)
(* The flow-sensitive nil check of a function body (src/types/infer):      *)
(* which pointers it takes for non-nil at each statement, and so which     *)
(* dereferences it lets through.                                           *)
(*                                                                         *)
(* The checker reads the body once, front to back, and keeps a stack of    *)
(* scopes.  Beside it one run of the compiled body takes the same          *)
(* statements: env is the run's stack of scopes, and it is shorter than    *)
(* the checker's while the run is somewhere else (it took the other        *)
(* branch, or left the loop), and empty once the run has returned.         *)
(* The body is not kept: it is what the statements taken so far spell.  Of *)
(* a block that the run is not in, only whether it diverges and the calls  *)
(* it makes are kept: its scopes are gone before the run goes on.          *)
(* A loop body is entered with any values the checker's facts allow, which *)
(* stands for each of its iterations.                                      *)
(***************************************************************************)
EXTENDS Integers, Sequences, FiniteSets

CONSTANTS
    Names,      \* the pointer variables of the body
    Errors,     \* its error variables
    MaxSize,    \* blocks open and variables alive at once, added up
    Traps       \* the constructs listed below that the body may contain

(***************************************************************************)
(* The constructs through which the checker is known to let a nil          *)
(* dereference, each named at the action that guards it:                   *)
(*   join     facts taken from a compound condition that does not give them*)
(*   rebound  a name bound anew while an older fact about it is in force   *)
(*   pair     a, b = v, nil                                                *)
(*   call     a narrowed variable assigned what a call returns             *)
(*   match    a match that lacks a nil arm, a default, or is left by break *)
(*   stale    an error checked after it, or what came with it, changed     *)
(***************************************************************************)
TrapKinds == {"join", "rebound", "pair", "call", "match", "stale"}

All == Names \cup Errors
Constructors == {"nil", "new", "make", "find"}

ASSUME SizeAssumption == MaxSize \in Nat \ {0}
ASSUME TrapsAssumption == Traps \subseteq TrapKinds
ASSUME NamesAssumption ==
    Names \cap (Errors \cup Constructors \cup {"none", "free", "zero"}) = {}
ASSUME FiniteAssumption == IsFiniteSet(Names) /\ IsFiniteSet(Errors)

VARIABLES
    scopes,     \* the checker's scopes: [vars: name -> type, nil: name -> state]
    blocks,     \* the open blocks, two scopes each, innermost last
    companions, \* error name -> the name it was declared with
    env,        \* the run's scopes: name -> value
    crashed,    \* the run dereferenced nil
    tied        \* history: <<error, name, scope>> as one call left them

checkVars == <<scopes, blocks, companions>>
runVars == <<env, crashed>>
vars == <<checkVars, runVars, tied>>

Types == {"none", "nullable", "pointer", "error"}
Checks == {"none", "ne", "eq"}

ArmLists == {<<"nil">>, <<"default">>, <<"nil", "default">>, <<"default", "nil">>}
NoFacts == [n \in All |-> "none"]
Facts(f) == [vars |-> NoFacts, nil |-> f]
-----------------------------------------------------------------------------
(* What the checker knows.                                                 *)

\* x is bound by the k-th of the scopes ss, and by none within it.
Binds(ss, x, k) ==
    /\ ss[k].vars[x] # "none"
    /\ \A j \in k+1..Len(ss) : ss[j].vars[x] = "none"

Bound(x) == \E k \in DOMAIN scopes : scopes[k].vars[x] # "none"
Home(x) == CHOOSE k \in DOMAIN scopes : Binds(scopes, x, k)

\* get_nil_state: the innermost entry for the name, whichever variable of
\* that name it was made for.
NonNull(ss, x) ==
    \E k \in DOMAIN ss : /\ ss[k].nil[x] = "nonnull"
                         /\ \A j \in k+1..Len(ss) : ss[j].nil[x] = "none"

StateOf(x) == IF NonNull(scopes, x) THEN "nonnull" ELSE "nullable"

\* The type infer_expr gives the variable: *T instead of ?*T once narrowed.
TypeOf(x) ==
    LET t == scopes[Home(x)].vars[x]
    IN  IF t = "nullable" /\ NonNull(scopes, x) THEN "pointer" ELSE t

(* The values on the right of = and :=.  new stands for &T{} and new(T),   *)
(* make for a call of a function returning *T, find for one returning ?*T. *)

ValueType(v) == CASE v \in {"new", "make"} -> "pointer"
                  [] v = "find" -> "nullable"
                  [] v = "nil" -> "any"
                  [] OTHER -> TypeOf(v)

\* Variant: what any call returns is taken for non-nil.
ValueState_Calls(v) == CASE v \in {"new", "make", "find"} -> "nonnull"
                         [] v \in Names -> StateOf(v)
                         [] OTHER -> "nullable"

\* get_expr_nullability
ValueState(v) == CASE v = "new" -> "nonnull"
                   [] v \in Names -> StateOf(v)
                   [] OTHER -> "nullable"

Known(v) == v \in Names => Bound(v)

\* Variant: a literal nil is unified like any other value.
Fits_Unify(t, v) == t = "pointer" => ValueType(v) # "nullable"

\* unify of the target's type with the value's, and the check of a literal nil.
Fits(t, v) == t = "pointer" => ValueType(v) \notin {"nullable", "any"}

Variables(ss) == {c \in (DOMAIN ss) \X All : ss[c[1]].vars[c[2]] # "none"}
Room(n) == Len(blocks) + Cardinality(Variables(scopes)) + n <= MaxSize

-----------------------------------------------------------------------------
(* The run.                                                                *)

Here == Len(env) = Len(scopes)
Results(v) == CASE v \in {"new", "make"} -> {"object"}
                [] v \in {"nil", "zero"} -> {"nil"}
                [] v = "find" -> {"nil", "object"}
                [] OTHER -> {env[Home(v)][v]}

Empty == [n \in All |-> "none"]
Enter == env' = env \o <<Empty, Empty>>
Leave(d) == env' = SubSeq(env, 1, d)

\* Facts of the checker that concern the k-th scope's x, at the run's place or
\* at one that it will come back to.
Relied(ss, x, k) ==
    \/ ss[k].vars[x] = "pointer"
    \/ \E p \in k..Len(ss) : /\ Binds(SubSeq(ss, 1, p), x, k)
                             /\ NonNull(SubSeq(ss, 1, p), x)

MayBeNil(ss) == {c \in Variables(ss) : ~Relied(ss, c[2], c[1])}

-----------------------------------------------------------------------------
(* Parts of the actions.                                                   *)

Level == Len(blocks)
Top == Len(scopes)
TopBlock == blocks[Level]

Allowed(trap, cond) == cond => trap \in Traps

\* A statement that does not diverge is the block's last so far.
Plain == blocks' = [blocks EXCEPT ![Level].ends = FALSE]
PlainRest == Plain /\ UNCHANGED <<companions, crashed>>

SetNil(ss, f) == [ss EXCEPT ![Len(ss)].nil =
                     [n \in All |-> IF f[n] # "none" THEN f[n] ELSE @[n]]]

Untie(S) == {t \in tied : t[1] \notin S /\ t[2] \notin S}

Open(block, head) ==
    /\ blocks' = Append([blocks EXCEPT ![Level].ends = FALSE], block)
    /\ scopes' = scopes \o <<head, Facts(NoFacts)>>

NewBlock(kind) ==
    [kind |-> kind, checks |-> NoFacts, ends |-> FALSE, joined |-> TRUE,
     on |-> "none", narrows |-> FALSE, arms |-> <<>>, at |-> 0, target |-> "none"]

\* The innermost block is over, and with it its scopes.
Close(ends, facts) ==
    /\ scopes' = SetNil(SubSeq(scopes, 1, Top - 2), facts)
    /\ blocks' = [SubSeq(blocks, 1, Level - 1) EXCEPT ![Level - 1].ends = ends]
    /\ tied' = {t \in tied : t[3] <= Top - 2}
    /\ IF Here THEN Leave(Top - 2) ELSE UNCHANGED env

\* The next block of the same statement: an else, or another arm.
Reopen(block, head) ==
    /\ scopes' = SubSeq(scopes, 1, Top - 2) \o <<Facts(head), Facts(NoFacts)>>
    /\ blocks' = [blocks EXCEPT ![Level] = block]
    /\ tied' = {t \in tied : t[3] <= Top - 2}

-----------------------------------------------------------------------------
(* Declarations and assignments.                                           *)

\* The body goes on, and the run is at this statement of it.
Live == ~crashed /\ env # <<>>
Runs == Live /\ Here
Deeper == Runs /\ Room(1)

\* The body starts: the parameters are in a scope of their own, and callers
\* keep to their types.
NilInit ==
    /\ \E t \in [Names -> {"none", "nullable", "pointer"}] :
         LET type == [n \in All |-> IF n \in Names THEN t[n] ELSE "none"]
             sure == [n \in All |-> IF type[n] = "pointer" THEN "nonnull" ELSE "none"]
         IN  /\ scopes = <<[vars |-> type, nil |-> sure], Facts(NoFacts)>>
             /\ \E N \in SUBSET {n \in Names : t[n] = "nullable"} :
                  env = <<[n \in All |-> CASE type[n] = "none" -> "none"
                                           [] n \in N -> "nil"
                                           [] OTHER -> "object"], Empty>>
    /\ blocks = <<NewBlock("function")>>
    /\ companions = [e \in Errors |-> "none"]
    /\ crashed = FALSE
    /\ tied = {}

Declare(x, type, state, v) ==
    /\ scopes' = [scopes EXCEPT ![Top].vars[x] = type, ![Top].nil[x] = state]
    /\ tied' = Untie({x})
    /\ \E r \in Results(v) : env' = [env EXCEPT ![Top][x] = r]
    /\ PlainRest

\* x := v
Decl(x, v) ==
    /\ Runs /\ v # "nil" /\ Known(v)
    /\ scopes[Top].vars[x] = "none" /\ Room(1)
    /\ Declare(x, ValueType(v), ValueState(v), v)

\* var x T = v, and var x T, which leaves x nil
VarDecl(x, type, v) ==
    /\ Runs /\ Known(v)
    /\ scopes[Top].vars[x] = "none" /\ Room(1)
    /\ IF v = "zero" THEN type # "pointer" ELSE Fits(type, v)
    /\ Declare(x, type, ValueState(v), v)

\* x = v.  A literal nil leaves the checker's entry as it is.
Assign(x, v) ==
    /\ Runs /\ Bound(x) /\ Known(v)
    /\ Fits(TypeOf(x), v)
    /\ Allowed("call", TypeOf(x) # scopes[Home(x)].vars[x] /\ ValueState(v) # "nonnull")
    /\ scopes' = IF v = "nil" THEN scopes
                 ELSE [scopes EXCEPT ![Top].nil[x] = ValueState(v)]
    /\ tied' = Untie({x})
    /\ \E r \in Results(v) : env' = [env EXCEPT ![Home(x)][x] = r]
    /\ PlainRest

Pairs == {P \in SUBSET Names : Cardinality(P) = 2}

\* x, y = v[x], v[y].  Types are unified, which a literal nil passes, and no
\* entry is changed.
MultiAssign(v) ==
    /\ Runs
    /\ \A x \in DOMAIN v :
         /\ Bound(x) /\ Known(v[x])
         /\ ValueType(v[x]) = "nullable" => TypeOf(x) = "nullable"
    /\ Allowed("pair", \E x \in DOMAIN v : ~Fits(TypeOf(x), v[x]))
    /\ tied' = Untie(DOMAIN v)
    /\ \E r \in [DOMAIN v -> {"nil", "object"}] :
         /\ \A x \in DOMAIN v : r[x] \in Results(v[x])
         /\ env' = [k \in DOMAIN env |-> [n \in All |->
                       IF n \in DOMAIN v /\ Home(n) = k THEN r[n] ELSE env[k][n]]]
    /\ PlainRest /\ UNCHANGED scopes

\* x, e := f(), where f returns (?*T, error), and a nil error comes with an
\* object.  The entries for x and e stay as they are.
MultiDecl(x, e) ==
    /\ Runs
    /\ LET new == {n \in {x, e} : scopes[Top].vars[n] = "none"}
       IN  new # {} /\ Room(Cardinality(new))
    /\ Allowed("rebound", NonNull(scopes, x))
    /\ scopes' = [scopes EXCEPT ![Top].vars[x] = "nullable", ![Top].vars[e] = "error"]
    /\ companions' = [companions EXCEPT ![e] = x]
    /\ tied' = Untie({x, e}) \cup {<<e, x, Top>>}
    /\ \E r \in Results("find"), s \in Results("find") :
         /\ s = "nil" => r = "object"
         /\ env' = [env EXCEPT ![Top][x] = r, ![Top][e] = s]
    /\ Plain /\ UNCHANGED crashed

-----------------------------------------------------------------------------
(* Uses, and conditions.                                                   *)

\* *x, or x.f
Use(x) ==
    /\ Runs /\ Bound(x)
    /\ TypeOf(x) # "nullable"
    /\ crashed' = (env[Home(x)][x] = "nil")
    /\ Plain /\ UNCHANGED <<scopes, companions, env, tied>>

\* x.(!nil) stops the run if x is nil.
NilAssert(x) ==
    /\ Runs /\ Bound(x)
    /\ scopes' = [scopes EXCEPT ![Top].nil[x] = "nonnull"]
    /\ IF env[Home(x)][x] = "nil" THEN Leave(0) ELSE UNCHANGED env
    /\ PlainRest /\ UNCHANGED tied

(* A condition has one or two operands: comparisons with nil, and at most  *)
(* one that is something else, last, which may dereference a variable.     *)

Checked(c) == {n \in All : c.checks[n] # "none"}
Operands(c) == Cardinality(Checked(c)) + (IF c.other = "none" THEN 0 ELSE 1)
Conditions ==
    {c \in [checks : [All -> Checks], other : Names \cup {"none", "free"},
            join : {"and", "or"}] :
        /\ Operands(c) \in 1..2
        /\ Operands(c) = 1 => c.join = "and"}

Passes(c, n) == (env[Home(n)][n] = "nil") = (c.checks[n] = "eq")
Decided(c) == \E n \in Checked(c) : Passes(c, n) = (c.join = "or")

Outcomes(c) == IF Decided(c) THEN {c.join = "or"}
               ELSE IF c.other = "none" THEN {c.join = "and"} ELSE BOOLEAN

\* The right operand of && is narrowed by what the left checks, that of || by
\* the opposite.
OtherIsSafe(c) ==
    c.other \in Names =>
        \/ TypeOf(c.other) # "nullable"
        \/ c.checks[c.other] = (IF c.join = "and" THEN "ne" ELSE "eq")

\* The facts that the checker takes from a condition but the condition does
\* not give: x == nil && c being false, x != nil || c being true, and that x
\* may be nil where another check already excluded it.
Lossy(c) ==
    /\ Operands(c) = 2
    /\ \/ c.join = "and" /\ \/ \E n \in Names : c.checks[n] = "eq"
                            \/ \E e \in Errors : c.checks[e] = "ne"
       \/ c.join = "or" /\ \E n \in Names : c.checks[n] = "ne"
       \/ \E n \in Names : c.checks[n] # "none" /\ NonNull(scopes, n)

Narrowed(checks, branch) ==
    [n \in All |-> CASE checks[n] = "none" -> "none"
                     [] checks[n] = (IF branch = "then" THEN "ne" ELSE "eq") -> "nonnull"
                     [] OTHER -> "nullable"]

\* if c {
If(c) ==
    /\ Deeper /\ \A n \in Checked(c) \cup ({c.other} \cap Names) : Bound(n)
    /\ OtherIsSafe(c)
    /\ Allowed("join", Lossy(c))
    /\ Open([NewBlock("then") EXCEPT !.checks = c.checks], Facts(Narrowed(c.checks, "then")))
    /\ crashed' = (/\ ~Decided(c) /\ c.other \in Names
                   /\ env[Home(c.other)][c.other] = "nil")
    /\ \E b \in Outcomes(c) : IF b THEN Enter ELSE UNCHANGED env
    /\ UNCHANGED <<companions, tied>>

\* } else {.  The run is at its start if it is not in any block of the if.
Else ==
    /\ Live /\ TopBlock.kind = "then"
    /\ Reopen([TopBlock EXCEPT !.kind = "else", !.joined = TopBlock.ends, !.ends = FALSE],
              Narrowed(TopBlock.checks, "else"))
    /\ CASE Here -> Leave(Top - 2)
         [] Len(env) = Top - 2 -> Enter
         [] OTHER -> UNCHANGED env
    /\ UNCHANGED <<companions, crashed>>

ThenDiverges(b) == IF b.kind = "else" THEN b.joined ELSE b.ends
ElseDiverges(b) == b.kind = "else" /\ b.ends

\* Variant: an if diverges if either branch does.
IfDiverges_Either(b) == ThenDiverges(b) \/ ElseDiverges(b)

\* TypedStmtKind::diverges of an if
IfDiverges(b) == ThenDiverges(b) /\ ElseDiverges(b)

\* The errors known to be nil after the if, whose companions then are not.
Cleared(b) == {e \in Errors : /\ ThenDiverges(b) /\ b.checks[e] = "ne"
                              /\ companions[e] # "none"}

\* Variant: a comparison with nil narrows whether its branch diverges or not.
AfterIf_Falls(b) ==
    [n \in All |-> IF \/ b.checks[n] = "eq"
                      \/ ElseDiverges(b) /\ b.checks[n] = "ne"
                      \/ \E e \in Cleared(b) : companions[e] = n
                   THEN "nonnull" ELSE "none"]

\* What is known after an if one of whose branches diverges.
AfterIf(b) ==
    [n \in All |-> IF \/ ThenDiverges(b) /\ b.checks[n] = "eq"
                      \/ ElseDiverges(b) /\ b.checks[n] = "ne"
                      \/ \E e \in Cleared(b) : companions[e] = n
                   THEN "nonnull" ELSE "none"]

\* } at the end of an if.
EndIf ==
    /\ Live /\ TopBlock.kind \in {"then", "else"}
    /\ Allowed("stale", \E e \in Cleared(TopBlock) :
           \A k \in 1..Top-2 : <<e, companions[e], k>> \notin tied)
    /\ Close(IfDiverges(TopBlock), AfterIf(TopBlock))
    /\ UNCHANGED <<companions, crashed>>

-----------------------------------------------------------------------------
(* Loops, match and the ways out.                                          *)

\* Any values that the checker's facts allow, at the start of an iteration.
Iterate(head) == \E N \in SUBSET MayBeNil(scopes) :
    env' = [k \in DOMAIN env |-> [n \in All |->
               CASE env[k][n] = "none" -> "none"
                 [] <<k, n>> \in N -> "nil"
                 [] OTHER -> "object"]] \o <<head, Empty>>

\* for c {.  The run iterates or passes the loop by.  What a call returned
\* before the loop is not followed into it.
For ==
    /\ Deeper
    /\ Open(NewBlock("for"), Facts(NoFacts))
    /\ Iterate(Empty) \/ UNCHANGED env
    /\ tied' = {}
    /\ UNCHANGED <<companions, crashed>>

\* for _, x := range xs {, with elements of the type.  No entry is made for x.
ForRange(x, type) ==
    /\ Deeper /\ Room(2)
    /\ Allowed("rebound", type = "nullable" /\ NonNull(scopes, x))
    /\ Open(NewBlock("for"), [Facts(NoFacts) EXCEPT !.vars[x] = type])
    /\ \/ \E r \in Results(IF type = "pointer" THEN "make" ELSE "find") :
            Iterate([Empty EXCEPT ![x] = r])
       \/ UNCHANGED env
    /\ tied' = {}
    /\ UNCHANGED <<companions, crashed>>

\* } at the end of a loop.
EndFor ==
    /\ Live /\ TopBlock.kind = "for"
    /\ Close(FALSE, NoFacts)
    /\ UNCHANGED <<companions, crashed>>

Breakable == {d \in 1..Level : blocks[d].kind \in {"for", "arm"}}
Innermost == CHOOSE d \in Breakable : \A c \in Breakable : c <= d

Diverge == /\ blocks' = [blocks EXCEPT ![Level].ends = TRUE]
           /\ UNCHANGED <<scopes, companions, crashed, tied>>

\* break, and continue, which meets the next iteration's Iterate.  A match is
\* compiled to a switch, which is what a break in it leaves.
Break ==
    /\ Runs /\ Breakable # {}
    /\ Allowed("match", blocks[Innermost].kind = "arm")
    /\ Leave(2 * (Innermost - 1))
    /\ Diverge

Return ==
    /\ Runs
    /\ Leave(0)
    /\ Diverge

\* The rest of a block that the run is not in, which diverges or not, and a
\* call in it.
Skip(ends) ==
    /\ Live /\ ~Here
    /\ blocks' = [blocks EXCEPT ![Level].ends = ends]
    /\ UNCHANGED <<scopes, companions, runVars, tied>>

SkipCall(x, e) ==
    /\ Live /\ ~Here
    /\ companions' = [companions EXCEPT ![e] = x]
    /\ UNCHANGED <<scopes, blocks, runVars, tied>>

ArmFacts(b, arm) == [n \in All |-> IF n = b.on /\ b.narrows /\ arm # "nil"
                                   THEN "nonnull" ELSE "none"]

Lists(arms, a) == \E i \in DOMAIN arms : arms[i] = a

\* match x {, with its arms in this order, and the first of them.  The run
\* will take the target.
Match(x, arms) ==
    /\ Deeper /\ Bound(x)
    /\ LET narrows == TypeOf(x) = "nullable"
           target == CASE env[Home(x)][x] = "nil" /\ Lists(arms, "nil") -> "nil"
                       [] OTHER -> IF Lists(arms, "default") THEN "default" ELSE "none"
           taken == target = arms[1]
           block == [NewBlock("arm") EXCEPT
                        !.on = x, !.narrows = narrows, !.arms = arms, !.at = 1,
                        !.target = IF taken THEN "none" ELSE target]
       IN  /\ Allowed("match", narrows /\ ~Lists(arms, "nil"))
           /\ Open(block, Facts(ArmFacts(block, arms[1])))
           /\ IF taken THEN Enter ELSE UNCHANGED env
    /\ UNCHANGED <<companions, crashed, tied>>

\* The next arm of the match.
Arm ==
    /\ Live /\ TopBlock.kind = "arm" /\ TopBlock.at < Len(TopBlock.arms)
    /\ LET arm == TopBlock.arms[TopBlock.at + 1]
           taken == TopBlock.target = arm
           block == [TopBlock EXCEPT !.joined = @ /\ TopBlock.ends, !.ends = FALSE,
                        !.at = @ + 1, !.target = IF taken THEN "none" ELSE @]
       IN  /\ Reopen(block, ArmFacts(block, arm))
           /\ CASE Here -> Leave(Top - 2)
                [] taken -> Enter
                [] OTHER -> UNCHANGED env
    /\ UNCHANGED <<companions, crashed>>

\* } at the end of a match, which diverges if all its arms do.
EndMatch ==
    /\ Live /\ TopBlock.kind = "arm" /\ TopBlock.at = Len(TopBlock.arms)
    /\ LET ends == TopBlock.joined /\ TopBlock.ends
       IN  /\ Allowed("match", ends /\ ~Lists(TopBlock.arms, "default"))
           /\ Close(ends, NoFacts)
    /\ UNCHANGED <<companions, crashed>>

-----------------------------------------------------------------------------
Exprs == Names \cup Constructors

NilNext ==
    \/ Runs /\ \E x \in Names, v \in Exprs : Decl(x, v) \/ Assign(x, v)
    \/ Runs /\ \E P \in Pairs :
         (\A x \in P : Bound(x)) /\ \E v \in [P -> Exprs] : MultiAssign(v)
    \/ Runs /\ \E x \in Names, type \in {"nullable", "pointer"} :
         \/ \E v \in Exprs \cup {"zero"} : VarDecl(x, type, v)
         \/ ForRange(x, type)
    \/ Runs /\ \E x \in Names :
         \/ Use(x)
         \/ NilAssert(x)
         \/ \E e \in Errors : MultiDecl(x, e)
         \/ \E arms \in ArmLists : Match(x, arms)
    \/ Deeper /\ \E c \in Conditions : If(c)
    \/ \E ends \in BOOLEAN : Skip(ends)
    \/ \E x \in Names, e \in Errors : SkipCall(x, e)
    \/ Else \/ EndIf \/ For \/ EndFor \/ Break \/ Return \/ Arm \/ EndMatch

NilSpec == NilInit /\ [][NilNext]_vars

-----------------------------------------------------------------------------
(* What makes the check correct.                                           *)

\* A body that the checker accepts does not dereference nil: the promise of
\* the nil-pointer error of infer_deref and of the field access.
NilSafe == ~crashed

\* A variable of a type without ? holds no nil, wherever the run is.
TypesAreHonest ==
    \A k \in DOMAIN env : \A x \in Names :
        scopes[k].vars[x] = "pointer" => env[k][x] # "nil"

\* Where the run is, a variable that the checker takes for non-nil is not nil,
\* whichever branches, loops and shadowing led there.
NarrowedIsNonNil ==
    Here => \A x \in Names : \A k \in DOMAIN scopes :
        Binds(scopes, x, k) /\ NonNull(scopes, x) => env[k][x] # "nil"

\* The run never gets past a block that the checker says diverges, on which
\* the narrowing after an if rests.
DivergingBlocksEnd == TopBlock.ends => ~Here

=============================================================================
