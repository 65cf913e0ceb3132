------------------------------ MODULE MatchRun ------------------------------
(***************************************************************************)
(* What Go makes of the code written for a match: whether it compiles, and *)
(* what it does when it runs on a value; and what the match means as it is *)
(* written, which is where the two are compared.                           *)
(*                                                                         *)
(* An enum is a Go interface that the structs of its variants implement,   *)
(* and its zero value is nil (codegen/decl.rs).  A value is a Go type,     *)
(* << >> for nil, with its fields; a plain value is its own field "", and  *)
(* without a scrutinee the fields are the guards.                          *)
(***************************************************************************)
EXTENDS Matching

Nil == << >>
GoType(s, variant) == <<s.module, s.name, variant>>
GoStruct(s) == <<s.module, s.name>>

IsStruct(s) == IsType(s.module, s.name) /\ Modules[s.module][s.name].kind = "Struct"
VariantsOf(s) == IF IsSoppoEnumType(s) THEN Modules[s.module][s.name].variants ELSE << >>

\* The fields that Go finds in a value of type t, for the scrutinee s.
GoFields(s, t) ==
  IF IsStruct(s) /\ t = GoStruct(s) THEN DOMAIN Modules[s.module][s.name].fields
  ELSE UNION {DOMAIN VariantsOf(s)[v].fields :
                v \in {w \in DOMAIN VariantsOf(s) : t = GoType(s, w)}}

GuardsOf(s) == {p.name : p \in {q \in UNION {PatternsOf(<<a>>) : a \in Arms[s]} : q.kind = "Guard"}}

ValuesOf(s) ==
  IF s = NoScrutinee THEN {[go |-> Nil, data |-> g] : g \in [GuardsOf(s) -> BOOLEAN]}
  ELSE IF IsStruct(s) THEN {[go |-> GoStruct(s), data |-> d] : d \in [GoFields(s, GoStruct(s)) -> Data]}
  ELSE IF ~IsSoppoEnumType(s) THEN {[go |-> GoStruct(s), data |-> [f \in {""} |-> d]] : d \in Data}
  ELSE {[go |-> Nil, data |-> << >>]} \cup
         UNION {{[go |-> GoType(s, v), data |-> d] : d \in [GoFields(s, GoType(s, v)) -> Data]} :
                  v \in DOMAIN VariantsOf(s)}

(***************************************************************************)
(* Whether Go compiles the code.                                           *)
(***************************************************************************)

\* The labels of all clauses, and where they stand.
LabelPlaces(clauses) == UNION {{i} \X DOMAIN clauses[i].labels : i \in DOMAIN clauses}
LabelAt(clauses, at) == clauses[at[1]].labels[at[2]]
LabelsOf(clauses) == {LabelAt(clauses, at) : at \in LabelPlaces(clauses)}

Heads(clauses, head) == {i \in DOMAIN clauses : clauses[i].head = head}

\* A case of a type switch is nil or a type that implements the interface.
TypeLabelOK(s, l) ==
  \/ l = [kind |-> "literal", name |-> <<"nil">>]
  \/ l.kind = "type" /\ \E v \in DOMAIN VariantsOf(s) : l.name = GoType(s, v)

\* __v is declared if some pattern destructures, and Go refuses a variable
\* that no clause uses; in a clause it has the type of the clause's one label.
TypeSwitchOK(s, clauses, declares) ==
  /\ IsSoppoEnumType(s)
  /\ \A l \in LabelsOf(clauses) : TypeLabelOK(s, l)
  /\ \A a, b \in LabelPlaces(clauses) : a # b => LabelAt(clauses, a) # LabelAt(clauses, b)
  /\ declares => \E i \in DOMAIN clauses : clauses[i].binds # << >>
  /\ \A i \in DOMAIN clauses :
       clauses[i].binds # << >> =>
         DOMAIN clauses[i].binds \subseteq GoFields(s, clauses[i].labels[1].name)

Comparable(s, l) ==
  CASE s = NoScrutinee -> l.kind = "guard"
    [] IsSoppoEnumType(s) -> l = [kind |-> "literal", name |-> <<"nil">>]
    [] IsStruct(s) -> FALSE
    [] OTHER -> \/ l.kind = "literal" /\ l.name # <<"nil">>
                \/ l.kind = "constant" /\ l.name \in DOMAIN Constants

Equals(l) == IF l.kind = "constant" THEN <<Constants[l.name]>> ELSE l.name

ValueSwitchOK(s, clauses) ==
  /\ \A l \in LabelsOf(clauses) : Comparable(s, l)
  /\ s # NoScrutinee => \A a, b \in LabelPlaces(clauses) :
                          a # b => Equals(LabelAt(clauses, a)) # Equals(LabelAt(clauses, b))

\* The clause whose block holds the body of clause i.
BlockOf(clauses, i) ==
  CHOOSE j \in 1 .. i : clauses[j].head # "none" /\ \A k \in j + 1 .. i : clauses[k].head = "none"

\* A bare block is followed by no else, and nothing follows an else.
ChainOK(s, clauses) ==
  /\ clauses[1].head # "none"
  /\ \A i \in Heads(clauses, "block") \cup Heads(clauses, "else") :
       \A j \in i + 1 .. Len(clauses) : clauses[j].head = "none"
  /\ \A i \in DOMAIN clauses :
       DOMAIN clauses[i].tests \cup DOMAIN clauses[i].binds \subseteq GoFields(s, GoStruct(s))
  /\ place = "loop" \/ \A i \in DOMAIN clauses : clauses[i].body # "breaks"

Readable(mode, clauses) ==
  \A i \in DOMAIN clauses :
    LET j == IF mode = "chain" THEN BlockOf(clauses, i) ELSE i
    IN  clauses[i].reads \subseteq Range(clauses[i].binds) \cup Range(clauses[j].binds)

EndsForGo(body) == body \in {"returns", "branches", "panics"}

\* Go's terminating statements: a switch that has a default, all of whose
\* clauses end the function and none of which is left by break, or a chain of
\* ifs that has an else, all of whose blocks end the function.
Terminates(mode, clauses) ==
  IF mode = "chain"
  THEN /\ Heads(clauses, "else") \cup Heads(clauses, "block") # {}
       /\ \A i \in DOMAIN clauses :
            (i = Len(clauses) \/ clauses[i + 1].head # "none") => EndsForGo(clauses[i].body)
  ELSE panics \/ (Heads(clauses, "default") # {} /\ \A i \in DOMAIN clauses : EndsForGo(clauses[i].body))

GoAccepts ==
  LET mode == Mode(scrutinee, arms)
  IN  /\ CASE mode = "chain" -> ChainOK(scrutinee, out)
           [] mode = "type" -> TypeSwitchOK(scrutinee, out, NeedsBinding(arms))
           [] mode = "value" -> ValueSwitchOK(scrutinee, out)
      /\ Cardinality(Heads(out, "default")) <= 1
      /\ Readable(mode, out)
      /\ place = "tail" => Terminates(mode, out)

(***************************************************************************)
(* What the code does.                                                     *)
(***************************************************************************)

LabelMatches(l, v) ==
  CASE l.kind = "type" -> l.name = v.go
    [] l.kind = "guard" -> v.data[l.name]
    [] OTHER -> IF l = [kind |-> "literal", name |-> <<"nil">>] THEN v.go = Nil
                ELSE Equals(l) = <<v.data[""]>>

TestsHold(tests, v) == \A f \in DOMAIN tests : v.data[f] = tests[f]

First(is) == CHOOSE i \in is : \A j \in is : i <= j

\* The one of two sets that counts, the first one's if it has any; 0 for none.
FirstOf(taken, others) ==
  IF taken # {} THEN First(taken) ELSE IF others # {} THEN First(others) ELSE 0

\* The clauses whose condition holds, those without one, and the one Go enters.
ClausesTaken(mode, clauses, v) ==
  IF mode = "chain"
  THEN {i \in Heads(clauses, "if") : TestsHold(clauses[i].tests, v)}
  ELSE {i \in Heads(clauses, "case") : \E l \in Range(clauses[i].labels) : LabelMatches(l, v)}

ClausesElse(clauses) == UNION {Heads(clauses, h) : h \in {"default", "else", "block"}}

Entered(mode, clauses, v) == FirstOf(ClausesTaken(mode, clauses, v), ClausesElse(clauses))

\* The bodies run: that of the clause, and those that follow it in its block
\* up to the first that does not go on.
BodiesRun(clauses, i) ==
  LET block == {j \in i .. Len(clauses) : \A k \in i + 1 .. j : clauses[k].head = "none"}
  IN  {j \in block : \A k \in i .. j - 1 : clauses[k].body = "falls"}

Bound(binds, v) == {<<binds[f], v.data[f]>> : f \in DOMAIN binds}

\* A break leaves the switch, and reaches what stands behind it; in a chain of
\* ifs it leaves the loop around.
EndOf(mode, body) ==
  CASE body \in {"returns", "branches"} -> "returns"
    [] body = "panics" -> "panics"
    [] body = "breaks" /\ mode = "chain" -> "leaves the loop"
    [] OTHER -> IF panics THEN "unreachable" ELSE "goes on"

Outcome(v) ==
  LET mode == Mode(scrutinee, arms)
      i == Entered(mode, out, v)
  IN  IF i = 0 THEN [ran |-> {}, bound |-> {}, ends |-> EndOf(mode, "falls")]
      ELSE [ran |-> BodiesRun(out, i), bound |-> Bound(out[i].binds, v),
            ends |-> EndOf(mode, out[Max(BodiesRun(out, i))].body)]

Run(v) ==
  /\ phase = "emitted" /\ GoAccepts
  /\ value' = v /\ outcome' = Outcome(v) /\ phase' = "ran"
  /\ UNCHANGED <<scrutinee, place, arms, errors, out, panics>>

NotRun == [ran |-> {}, bound |-> {}, ends |-> "not run"]

Init ==
  /\ phase = "infer" /\ scrutinee \in Scrutinees /\ place \in Places
  /\ arms = << >> /\ errors = {} /\ out = << >> /\ panics = FALSE
  /\ value = Nil /\ outcome = NotRun

Next ==
  \/ \E arm \in Arms[scrutinee] : InferArm(arm)
  \/ EndMatch
  \/ GenArm
  \/ EndSwitch
  \/ \E v \in ValuesOf(scrutinee) : Run(v)

Spec == Init /\ [][Next]_vars

(***************************************************************************)
(* What the match means as it is written: the first arm with a pattern     *)
(* that matches, else the default arm, wherever it stands; a break leaves  *)
(* the match, as it leaves Go's switch.  A name without its type means the *)
(* variant of the scrutinee's type that has this name.                     *)
(***************************************************************************)

Meant(s, p) ==
  IF Len(p.name) > 1 THEN ConvertEnumPatternName(p.name)
  ELSE IF IsStruct(s) THEN <<Current>> \o p.name ELSE GoType(s, p.name[1])

\* A Go constant can be what a plain value equals.
IsConstant(s, p) ==
  /\ p.kind = "Variant" /\ p.name \in DOMAIN Constants
  /\ s # NoScrutinee /\ ~IsStruct(s) /\ ~IsSoppoEnumType(s)

PatternMatches(s, p, v) ==
  \/ p.kind = "Guard" /\ v.data[p.name]
  \/ p.kind = "Literal" /\ p.name = <<"nil">> /\ v.go = Nil
  \/ p.kind = "Literal" /\ p.name # <<"nil">> /\ "" \in DOMAIN v.data /\ p.name = <<v.data[""]>>
  \/ IsConstant(s, p) /\ Constants[p.name] = v.data[""]
  \/ p.kind \in Named /\ ~IsConstant(s, p) /\ Meant(s, p) = v.go /\ TestsHold(p.tests, v)

PatternsMatching(i, v) ==
  {j \in DOMAIN arms[i].patterns : PatternMatches(scrutinee, arms[i].patterns[j], v)}

ArmsMatching(v) == {i \in DOMAIN arms : PatternsMatching(i, v) # {}}
DefaultArms == {i \in DOMAIN arms : HasDefault(<<arms[i]>>)}

BodyEnds(body) ==
  CASE body \in {"returns", "branches"} -> "returns"
    [] body = "panics" -> "panics"
    [] OTHER -> "goes on"

AsWritten(v) ==
  LET i == FirstOf(ArmsMatching(v), DefaultArms)
  IN  IF i = 0 THEN [ran |-> {}, bound |-> {}, ends |-> "goes on"]
      ELSE [ran |-> {i},
            bound |-> IF i \in ArmsMatching(v)
                      THEN Bound(arms[i].patterns[First(PatternsMatching(i, v))].binds, v) ELSE {},
            ends |-> BodyEnds(arms[i].body)]

\* p names, with all its parts, what a value of the scrutinee can be, in the
\* shape it was declared with.
WellNamed(s, p) ==
  LET t == ConvertEnumPatternName(p.name)
      shaped(shape) == \E v \in DOMAIN VariantsOf(s) :
        /\ Len(p.name) > 1 /\ t = GoType(s, v) /\ VariantsOf(s)[v].shape \in shape
        /\ DOMAIN p.binds \cup DOMAIN p.tests \subseteq DOMAIN VariantsOf(s)[v].fields
  IN  CASE p.kind = "Default" -> TRUE
        [] p.kind = "Guard" -> s = NoScrutinee
        [] p.kind = "Literal" -> ~IsStruct(s) /\ ((p.name = <<"nil">>) <=> IsSoppoEnumType(s))
        [] p.kind = "Variant" -> shaped({"Unit", "Single", "Struct"}) \/ IsConstant(s, p)
        [] p.kind = "Destructor" -> shaped({"Single"})
        [] p.kind = "StructDestructor" ->
             \/ shaped({"Struct"})
             \/ /\ IsStruct(s) /\ <<Current>> \o p.name = GoStruct(s)
                /\ DOMAIN p.binds \cup DOMAIN p.tests \subseteq GoFields(s, GoStruct(s))

AllWellNamed == \A p \in PatternsOf(arms) : WellNamed(scrutinee, p)

(***************************************************************************)
(* Properties.                                                             *)
(***************************************************************************)

\* What a pattern is compared with, if it is the value of a constant.
Plain(s, p) == IF IsConstant(s, p) THEN <<Constants[p.name]>> ELSE p.name

\* Two patterns that Go takes for the same case.
Same(s, p, q) ==
  \/ p.kind = "Default" /\ q.kind = "Default"
  \/ {p.kind, q.kind} \subseteq Named \cup {"Literal"} /\ Plain(s, p) = Plain(s, q)

Repeats ==
  \E i, j \in DOMAIN arms : \E k \in DOMAIN arms[i].patterns, l \in DOMAIN arms[j].patterns :
    /\ <<i, k>> # <<j, l>>
    /\ Same(scrutinee, arms[i].patterns[k], arms[j].patterns[l])

\* The forms of an accepted match that the generator has no Go for.
KnownRefusal(mode) ==
  \/ ~AllWellNamed
  \/ mode # "chain" /\ Repeats
  \/ \E i \in DOMAIN arms :
       /\ Len(arms[i].patterns) > 1
       /\ \E p \in Range(arms[i].patterns) : p.kind = "Default" \/ p.binds # << >>
  \/ mode = "type" /\ NeedsBinding(arms) /\ \A i \in DOMAIN out : out[i].binds = << >>
  \/ mode = "chain" /\ \E i \in DOMAIN arms :
       \/ HasDefault(<<arms[i]>>) /\ i < Len(arms)
       \/ arms[i].body = "breaks" /\ place # "loop"
  \/ place = "tail" /\ ~panics /\ ~(HasDefault(arms) /\ \A i \in DOMAIN arms : EndsForGo(arms[i].body))

(* A match that the checker accepts is written as Go that compiles, except  *)
(* for the forms that KnownRefusal names: the checker looks at the last     *)
(* part of a pattern's name only, looks for no case that is written twice,  *)
(* lets `_` and bindings stand among several patterns, declares __v for     *)
(* patterns that bind nothing, wants no default at the end of a chain of    *)
(* ifs, and takes more statements for the end of a function than Go.        *)
AcceptedMatchesCompile ==
  phase = "emitted" => GoAccepts \/ KnownRefusal(Mode(scrutinee, arms))

\* The accepted matches that Go compiles to something else.
KnownDetour(mode, v) ==
  \/ mode = "chain" /\ \/ ~AllWellNamed
                       \/ \E i \in DOMAIN arms : Len(arms[i].patterns) > 1
                       \/ outcome.ends = "leaves the loop"
  \/ mode = "type" /\ \/ \E p \in PatternsOf(arms) : p.tests # << >> /\ Meant(scrutinee, p) = v.go
                      \/ outcome.ends = "unreachable" /\ v.go = Nil
                      \/ outcome.ends = "unreachable" /\ scrutinee.module # Current
                      \/ \E i \in outcome.ran : panics /\ arms[i].body = "breaks"

(* The running program enters the arm that the match means, with the        *)
(* variables bound to the fields of the value, and goes on after it as the  *)
(* arm says, except where KnownDetour says: literals in the pattern of a    *)
(* variant are not compared, of an arm of a struct match only the first     *)
(* pattern counts, a break leaves the loop around a struct match and runs   *)
(* into the panic behind a type switch whose arms all diverge, and this     *)
(* panic also meets nil and the variants of an imported enum that have no   *)
(* arm.                                                                     *)
TheWrittenArmRuns ==
  phase = "ran" => outcome = AsWritten(value) \/ KnownDetour(Mode(scrutinee, arms), value)

(* A match on an enum of the current module, whose patterns name its        *)
(* variants and compare no fields, is refused as non-exhaustive exactly if  *)
(* some value other than nil has no arm ("All variants must be handled",    *)
(* docs/guide.md:109); a match on anything but an enum never is.            *)
ExhaustivenessIsReal ==
  phase \notin {"infer"} /\ scrutinee.module = Current /\ AllWellNamed
    /\ (\A p \in PatternsOf(arms) : p.tests = << >>) =>
      (("NonExhaustive" \in errors) <=>
         /\ IsSoppoEnumType(scrutinee)
         /\ \E v \in ValuesOf(scrutinee) : v.go # Nil /\ AsWritten(v).ran = {})
=============================================================================
