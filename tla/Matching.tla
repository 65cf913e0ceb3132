------------------------------ MODULE Matching ------------------------------
(***************************************************************************)
(* One `match` statement, from the checker to the running program: the     *)
(* arms are inferred one at a time (types/infer/stmt.rs, types/infer/      *)
(* pat.rs), then come the tests of exhaustiveness and of the missing       *)
(* return, then the Go code is written arm by arm (codegen/stmt.rs) as a   *)
(* type switch, a value switch or a chain of ifs, and Go runs it on a      *)
(* value.                                                                  *)
(*                                                                         *)
(* A name in a pattern is the sequence of its parts.  A pattern binds      *)
(* fields to variables (binds) and compares fields with literals (tests);  *)
(* the payload of a variant written `Some int` is its field "Value".  The  *)
(* scrutinee is a variable, whose type is given by a module ("" is the     *)
(* current one) and a name, or it is absent.  A body is known by how it    *)
(* ends, and reads the variables that its arm's first pattern binds.       *)
(***************************************************************************)
EXTENDS Naturals, Sequences, FiniteSets, SequencesExt, Functions

CONSTANTS
  Modules,    \* [module -> [type name -> definition]]
  Constants,  \* [name of a Go constant -> the literal it equals]
  Scrutinees, \* the scrutinee types
  Arms,       \* [scrutinee -> the arms that may be written]
  Places,     \* where the match stands: "middle", "loop", "tail"
  Data,       \* the values of fields and of plain scrutinees
  MaxArms     \* a bound: the arms of a match

Current == ""
NoScrutinee == [module |-> "none", name |-> "none"]
Named == {"Variant", "Destructor", "StructDestructor"}

(***************************************************************************)
(* The patterns the parser makes (syntax/parser/pat.rs): guards where there *)
(* is no scrutinee and nowhere else, a default anywhere, at least one       *)
(* pattern in each arm.                                                     *)
(***************************************************************************)
KindsFor(s) == {"Default"} \cup (IF s = NoScrutinee THEN {"Guard"} ELSE Named \cup {"Literal"})
Bodies == {"falls", "returns", "breaks", "branches", "panics"}

PatternOK(s, p) ==
  /\ p.kind \in KindsFor(s)
  /\ p.name \in Seq(STRING) /\ \A i \in DOMAIN p.name : p.name[i] # Current
  /\ p.kind # "Default" => p.name # << >>
  /\ p.kind \notin {"Destructor", "StructDestructor"} => p.binds = << >> /\ p.tests = << >>

ASSUME ArmsAssumption ==
  \A s \in Scrutinees : \A arm \in Arms[s] :
    /\ arm.patterns \in Seq(Range(arm.patterns)) /\ arm.patterns # << >>
    /\ \A p \in Range(arm.patterns) : PatternOK(s, p)
    /\ arm.body \in Bodies

\* What has no scrutinee is in no module, and a field has a value.
ASSUME ModulesAssumption == NoScrutinee.module \notin DOMAIN Modules
ASSUME DataAssumption == Data # {}

\* There is a field in every struct, and in every variant written as one.
ASSUME FieldsAssumption ==
  \A m \in DOMAIN Modules : \A t \in DOMAIN Modules[m] :
    LET def == Modules[m][t]
    IN  IF def.kind = "Struct" THEN DOMAIN def.fields # {}
        ELSE \A v \in DOMAIN def.variants :
               (def.variants[v].shape = "Unit") <=> (DOMAIN def.variants[v].fields = {})

VARIABLES
  phase,      \* "infer", "rejected", "generate", "emitted", "ran"
  scrutinee,
  place,
  arms,       \* the arms inferred so far
  errors,     \* the kinds of the errors emitted
  out,        \* the clauses written so far
  panics,     \* panic("unreachable") follows the switch
  value,      \* the value the program ran on
  outcome     \* what the program did

vars == <<phase, scrutinee, place, arms, errors, out, panics, value, outcome>>

PatternsOf(as) == UNION {Range(as[i].patterns) : i \in DOMAIN as}
IsType(m, t) == m \in DOMAIN Modules /\ t \in DOMAIN Modules[m]
IsEnum(m, t) == IsType(m, t) /\ Modules[m][t].kind = "Enum"

(***************************************************************************)
(* Inference.                                                              *)
(***************************************************************************)

\* The types of the fields of what p names, as the checker finds them: the
\* type of the scrutinee is looked up by its bare name in the current module,
\* and of the name of a variant only the last part counts.
FieldTypes(s, p) ==
  IF ~IsType(Current, s.name) THEN << >>
  ELSE LET def == Modules[Current][s.name]
           shape == IF p.kind = "Destructor" THEN "Single" ELSE "Struct"
       IN  IF def.kind = "Struct"
           THEN IF p.kind = "StructDestructor" THEN def.fields ELSE << >>
           ELSE IF /\ p.kind \in Named
                   /\ Last(p.name) \in DOMAIN def.variants
                   /\ def.variants[Last(p.name)].shape = shape
                THEN def.variants[Last(p.name)].fields ELSE << >>

\* A binding whose field is not found has a type of its own, "?".
CollectPatternBindings(s, p) ==
  LET types == FieldTypes(s, p)
  IN  [x \in Range(p.binds) |->
         LET f == CHOOSE g \in DOMAIN p.binds : p.binds[g] = x
         IN  IF f \in DOMAIN types THEN types[f] ELSE "?"]

\* A pattern that stands alone: of a type that is found, the fields that are
\* not found are left out.
AddedFields(s, p) ==
  IF p.kind = "StructDestructor" /\ FieldTypes(s, p) # << >>
  THEN DOMAIN p.binds \cap DOMAIN FieldTypes(s, p) ELSE DOMAIN p.binds

Redeclares(s, p) ==
  \E f, g \in AddedFields(s, p) : f # g /\ p.binds[f] = p.binds[g]

Unifies(t, u) == t = u \/ "?" \in {t, u}

Emit(error, condition) == IF condition THEN {error} ELSE {}

\* The errors of an arm with several patterns, whose bindings must agree.
SeveralErrors(s, ps) ==
  LET of(i) == CollectPatternBindings(s, ps[i])
      named == {i \in 2 .. Len(ps) : DOMAIN of(i) = DOMAIN of(1)}
  IN  Emit("Bindings", named # 2 .. Len(ps))
        \cup Emit("Type", \E i \in named : \E x \in DOMAIN of(1) : ~Unifies(of(1)[x], of(i)[x]))

InScope(s, ps) ==
  IF Len(ps) > 1 THEN DOMAIN CollectPatternBindings(s, ps[1])
  ELSE {ps[1].binds[f] : f \in AddedFields(s, ps[1])}

ArmErrors(s, arm) ==
  LET ps == arm.patterns
  IN  IF s = NoScrutinee
      THEN Emit("Type", \E i \in DOMAIN ps : ps[i].kind = "Guard" /\ ~ps[i].bool)
      ELSE (IF Len(ps) > 1 THEN SeveralErrors(s, ps) ELSE Emit("Redeclared", Redeclares(s, ps[1])))
             \cup Emit("Undefined", ~(Range(ps[1].binds) \subseteq InScope(s, ps)))

InferArm(arm) ==
  /\ phase = "infer" /\ Len(arms) < MaxArms
  /\ arms' = Append(arms, arm)
  /\ errors' = errors \cup ArmErrors(scrutinee, arm)
  /\ UNCHANGED <<phase, scrutinee, place, out, panics, value, outcome>>

HasDefault(as) == \E p \in PatternsOf(as) : p.kind = "Default"
\* Variant: the pattern of a variant with fields covers nothing.
Covered_NoStructs(as) ==
  {Last(p.name) : p \in {q \in PatternsOf(as) : q.kind \in {"Variant", "Destructor"}}}

Covered(as) == {Last(p.name) : p \in {q \in PatternsOf(as) : q.kind \in Named}}

Missing(s, as) ==
  IF s # NoScrutinee /\ IsEnum(Current, s.name) /\ ~HasDefault(as)
  THEN DOMAIN Modules[Current][s.name].variants \ Covered(as) ELSE {}

\* The statement after which a body does not go on, for the checker ...
Diverges(body) == body \in {"returns", "breaks", "branches"}
MatchDiverges(as) == as # << >> /\ \A i \in DOMAIN as : Diverges(as[i].body)

\* ... and for the generator, which looks into no statement.
CheckStmtDiverges(body) == body \in {"returns", "breaks", "panics"}

EndMatch ==
  /\ phase = "infer" /\ arms # << >>
  /\ LET all == errors \cup Emit("NonExhaustive", Missing(scrutinee, arms) # {})
                  \cup Emit("MissingReturn", place = "tail" /\ ~MatchDiverges(arms))
     IN  errors' = all /\ phase' = IF all = {} THEN "generate" ELSE "rejected"
  /\ UNCHANGED <<scrutinee, place, arms, out, panics, value, outcome>>

(***************************************************************************)
(* Code generation.                                                        *)
(***************************************************************************)

IsStructMatch(s, as) ==
  s # NoScrutinee /\ \E p \in PatternsOf(as) : p.kind = "StructDestructor" /\ Len(p.name) = 1

IsSoppoEnumType(s) == IsEnum(s.module, s.name)
NeedsBinding(as) == \E p \in PatternsOf(as) : p.kind \in {"Destructor", "StructDestructor"}

\* Variant: an enum without payloads gets a value switch.
IsTypeSwitch_OnlyToBind(s, as) == s # NoScrutinee /\ NeedsBinding(as)

IsTypeSwitch(s, as) ==
  /\ s # NoScrutinee
  /\ NeedsBinding(as) \/ (IsSoppoEnumType(s) /\ \E p \in PatternsOf(as) : p.kind = "Variant")

Mode(s, as) ==
  CASE IsStructMatch(s, as) -> "chain"
    [] IsTypeSwitch(s, as) /\ ~IsStructMatch(s, as) -> "type"
    [] OTHER -> "value"

\* Type.Variant is Go's Type_Variant, pkg.Type.Variant is pkg.Type_Variant, and
\* a name without a dot stays as it is.
ConvertEnumPatternName(name) == IF Len(name) = 2 THEN <<Current>> \o name ELSE name

Label(s, p) ==
  CASE p.kind = "Default" -> [kind |-> "nothing", name |-> << >>]
    [] p.kind = "Guard" -> [kind |-> "guard", name |-> p.name]
    [] p.kind = "Literal" -> [kind |-> "literal", name |-> p.name]
    [] p.kind = "Variant" /\ ~IsSoppoEnumType(s) -> [kind |-> "constant", name |-> p.name]
    [] OTHER -> [kind |-> "type", name |-> ConvertEnumPatternName(p.name)]

\* Only an arm with one pattern declares its bindings.
SwitchClause(s, arm) ==
  LET ps == arm.patterns
      default == Len(ps) = 1 /\ ps[1].kind = "Default"
  IN  [head |-> IF default THEN "default" ELSE "case",
       labels |-> IF default THEN << >> ELSE [i \in DOMAIN ps |-> Label(s, ps[i])],
       tests |-> << >>,
       binds |-> IF Len(ps) = 1 THEN ps[1].binds ELSE << >>,
       reads |-> Range(ps[1].binds), body |-> arm.body]

\* Of a struct match the first pattern of each arm counts, if it is one of a
\* struct; an arm that begins with another gets no condition, so that its body
\* follows the one before in the same block.
ChainClause(at, arm) ==
  LET p == arm.patterns[1]
      default == \E i \in DOMAIN arm.patterns : arm.patterns[i].kind = "Default"
      destructor == p.kind = "StructDestructor"
  IN  [head |-> IF default THEN (IF at = 1 THEN "block" ELSE "else")
                ELSE IF destructor THEN "if" ELSE "none",
       labels |-> << >>,
       tests |-> IF destructor /\ ~default THEN p.tests ELSE << >>,
       binds |-> IF destructor THEN p.binds ELSE << >>,
       reads |-> Range(p.binds), body |-> arm.body]

GenArm ==
  /\ phase = "generate" /\ Len(out) < Len(arms)
  /\ LET arm == arms[Len(out) + 1]
     IN  out' = Append(out, IF Mode(scrutinee, arms) = "chain"
                            THEN ChainClause(Len(out) + 1, arm) ELSE SwitchClause(scrutinee, arm))
  /\ UNCHANGED <<phase, scrutinee, place, arms, errors, panics, value, outcome>>

\* Variant: one arm that diverges is enough.
AllArmsDiverge_Some(as) == \E i \in DOMAIN as : CheckStmtDiverges(as[i].body)

AllArmsDiverge(as) == \A i \in DOMAIN as : CheckStmtDiverges(as[i].body)

EndSwitch ==
  /\ phase = "generate" /\ Len(out) = Len(arms)
  /\ panics' = /\ Mode(scrutinee, arms) = "type"
               /\ \A i \in DOMAIN out : out[i].head # "default"
               /\ AllArmsDiverge(arms)
  /\ phase' = "emitted"
  /\ UNCHANGED <<scrutinee, place, arms, errors, out, value, outcome>>
=============================================================================
