----------------------------- MODULE MatchProofs -----------------------------
(***************************************************************************)
(* Proofs about MatchRun, for any modules, any scrutinees and any number   *)
(* of arms: what the checker calls exhaustive is, an accepted match is     *)
(* written as Go that compiles, and that Go does what the match says, each *)
(* with the exceptions that the properties name.                           *)
(***************************************************************************)
EXTENDS MatchRun, FiniteSetTheorems, WellFoundedInduction, NaturalsInduction, SequenceTheorems,
        TLAPS

-----------------------------------------------------------------------------
(* The invariant.                                                          *)

\* What the arms were found guilty of.
FoundIn(as) == UNION {ArmErrors(scrutinee, as[i]) : i \in DOMAIN as}

\* What is written for the i-th arm.
Clause(i) ==
    IF Mode(scrutinee, arms) = "chain" THEN ChainClause(i, arms[i]) ELSE SwitchClause(scrutinee, arms[i])

Clauses == {Clause(i) : i \in Nat}

Phases == {"infer", "rejected", "generate", "emitted", "ran"}

ArmsAgree ==
    /\ scrutinee \in Scrutinees
    /\ arms \in Seq(Arms[scrutinee])
    /\ phase \in Phases

\* A match that is accepted has been found guilty of nothing.
ErrorsAgree ==
    /\ phase = "infer" => errors = FoundIn(arms)
    /\ phase # "infer" => ("NonExhaustive" \in errors <=> Missing(scrutinee, arms) # {})
    /\ phase \in {"generate", "emitted", "ran"} => errors = {} /\ FoundIn(arms) = {}

\* Each arm has its clause, in the order of the arms.
ClausesAgree ==
    /\ phase = "infer" => out = << >>
    /\ phase \in {"generate", "emitted", "ran"} =>
         /\ arms # << >> /\ out \in Seq(Clauses)
         /\ Len(out) \in 0..Len(arms) /\ DOMAIN out = 1..Len(out)
         /\ \A i \in 1..Len(out) : out[i] = Clause(i)
    /\ phase \in {"emitted", "ran"} =>
         /\ Len(out) = Len(arms)
         /\ panics = /\ Mode(scrutinee, arms) = "type"
                     /\ \A i \in DOMAIN out : out[i].head # "default"
                     /\ AllArmsDiverge(arms)

MatchInv ==
    /\ ArmsAgree /\ ErrorsAgree /\ ClausesAgree
    /\ phase = "ran" => GoAccepts /\ value \in ValuesOf(scrutinee) /\ outcome = Outcome(value)

\* The kinds of the errors an arm may have.
LEMMA ArmErrorKinds ==
    \A s, arm : "NonExhaustive" \notin ArmErrors(s, arm)
  BY DEF ArmErrors, SeveralErrors, Emit

LEMMA MatchStart == Init => MatchInv
<1> SUFFICES ASSUME Init PROVE MatchInv
  OBVIOUS
<1>1. DOMAIN arms = {}
  BY DEF Init
<1>2. FoundIn(arms) = {}
  BY <1>1 DEF FoundIn
<1> QED BY <1>2 DEF Init, MatchInv, ArmsAgree, ErrorsAgree, ClausesAgree, Phases

LEMMA InferArmStep ==
    ASSUME MatchInv, NEW arm \in Arms[scrutinee], InferArm(arm)
    PROVE  MatchInv'
<1>1. /\ phase = "infer" /\ phase' = "infer" /\ scrutinee' = scrutinee /\ out' = << >>
      /\ arms' = Append(arms, arm) /\ errors' = errors \cup ArmErrors(scrutinee, arm)
      /\ arms \in Seq(Arms[scrutinee]) /\ errors = FoundIn(arms) /\ scrutinee \in Scrutinees
  BY DEF MatchInv, ArmsAgree, ErrorsAgree, ClausesAgree, InferArm
<1>2. /\ arms' \in Seq(Arms[scrutinee]) /\ Len(arms) \in Nat
      /\ DOMAIN arms = 1..Len(arms) /\ DOMAIN arms' = 1..Len(arms) + 1
      /\ \A i \in 1..Len(arms) : arms'[i] = arms[i]
      /\ arms'[Len(arms) + 1] = arm
  BY <1>1
<1>3. DOMAIN arms' = DOMAIN arms \cup {Len(arms) + 1}
  BY <1>2
<1>4. FoundIn(arms)' = FoundIn(arms) \cup ArmErrors(scrutinee, arm)
  BY <1>1, <1>2, <1>3 DEF FoundIn
<1> QED BY <1>1, <1>2, <1>4 DEF MatchInv, ArmsAgree, ErrorsAgree, ClausesAgree, Phases

LEMMA EndMatchStep ==
    ASSUME MatchInv, EndMatch
    PROVE  MatchInv'
<1> DEFINE all == errors \cup Emit("NonExhaustive", Missing(scrutinee, arms) # {})
                         \cup Emit("MissingReturn", place = "tail" /\ ~MatchDiverges(arms))
<1>1. /\ phase = "infer" /\ arms # << >> /\ errors' = all /\ phase' = IF all = {} THEN "generate" ELSE "rejected"
      /\ scrutinee' = scrutinee /\ arms' = arms /\ out' = << >>
      /\ scrutinee \in Scrutinees /\ arms \in Seq(Arms[scrutinee]) /\ errors = FoundIn(arms)
  BY DEF MatchInv, ArmsAgree, ErrorsAgree, ClausesAgree, EndMatch
<1>2. "NonExhaustive" \notin errors
  BY <1>1, ArmErrorKinds DEF FoundIn
<1>3. "NonExhaustive" \in all <=> Missing(scrutinee, arms) # {}
  BY <1>2 DEF Emit
<1>4. Missing(scrutinee, arms)' = Missing(scrutinee, arms) /\ FoundIn(arms)' = FoundIn(arms)
  BY <1>1 DEF Missing, FoundIn
<1>5. all = {} => FoundIn(arms) = {}
  BY <1>1
<1>6. Len(arms) \in Nat
  BY <1>1
<1>7. Len(out') = 0 /\ DOMAIN out' = 1..Len(out') /\ 1..0 = {}
  BY <1>1
<1> HIDE DEF all
<1> QED BY <1>1, <1>3, <1>4, <1>5, <1>6, <1>7 DEF MatchInv, ArmsAgree, ErrorsAgree, ClausesAgree, Phases

LEMMA GenArmStep ==
    ASSUME MatchInv, GenArm
    PROVE  MatchInv'
<1>1. /\ phase = "generate" /\ Len(out) < Len(arms) /\ UNCHANGED <<phase, scrutinee, place, arms, errors, panics>>
      /\ arms # << >> /\ arms \in Seq(Arms[scrutinee]) /\ out \in Seq(Clauses)
      /\ Len(out) \in 0..Len(arms) /\ DOMAIN out = 1..Len(out) /\ \A i \in 1..Len(out) : out[i] = Clause(i)
      /\ out' = Append(out, Clause(Len(out) + 1))
  BY DEF MatchInv, ArmsAgree, ClausesAgree, GenArm, Clause
<1>2. \A i : Clause(i)' = Clause(i)
  BY <1>1 DEF Clause
<1>3. /\ Len(out) \in Nat /\ Len(arms) \in Nat
  BY <1>1
<1>4. Clause(Len(out) + 1) \in Clauses /\ Clauses' = Clauses
  BY <1>2, <1>3 DEF Clauses
<1>5. /\ Len(out') = Len(out) + 1 /\ DOMAIN out' = 1..Len(out) + 1 /\ out' \in Seq(Clauses')
      /\ \A i \in 1..Len(out) : out'[i] = out[i]
      /\ out'[Len(out) + 1] = Clause(Len(out) + 1)
  BY <1>1, <1>3, <1>4
<1>6. \A i \in 1..Len(out') : out'[i] = Clause(i)'
  BY <1>1, <1>2, <1>3, <1>5
<1>7. Len(out') \in 0..Len(arms')
  BY <1>1, <1>3, <1>5
<1>8. /\ Missing(scrutinee, arms)' = Missing(scrutinee, arms) /\ FoundIn(arms)' = FoundIn(arms)
  BY <1>1 DEF Missing, FoundIn
<1> QED BY <1>1, <1>5, <1>6, <1>7, <1>8 DEF MatchInv, ArmsAgree, ErrorsAgree, ClausesAgree, Phases

LEMMA EndSwitchStep ==
    ASSUME MatchInv, EndSwitch
    PROVE  MatchInv'
<1>1. /\ phase = "generate" /\ phase' = "emitted" /\ Len(out) = Len(arms)
      /\ UNCHANGED <<scrutinee, place, arms, errors, out, value, outcome>>
      /\ panics' = /\ Mode(scrutinee, arms) = "type"
                   /\ \A i \in DOMAIN out : out[i].head # "default"
                   /\ AllArmsDiverge(arms)
  BY DEF EndSwitch
<1>2. /\ Missing(scrutinee, arms)' = Missing(scrutinee, arms) /\ FoundIn(arms)' = FoundIn(arms)
      /\ Mode(scrutinee, arms)' = Mode(scrutinee, arms) /\ (\A i : Clause(i)' = Clause(i)) /\ Clauses' = Clauses
      /\ AllArmsDiverge(arms)' = AllArmsDiverge(arms)
  BY <1>1 DEF Missing, FoundIn, Mode, Clauses, Clause, AllArmsDiverge
<1>3. ArmsAgree' /\ ErrorsAgree'
  BY <1>1, <1>2 DEF MatchInv, ArmsAgree, ErrorsAgree, Phases
<1>4. ClausesAgree'
  BY <1>1, <1>2 DEF MatchInv, ClausesAgree
<1> QED BY <1>1, <1>3, <1>4 DEF MatchInv

LEMMA RunStep ==
    ASSUME MatchInv, NEW v \in ValuesOf(scrutinee), Run(v)
    PROVE  MatchInv'
<1>1. /\ phase = "emitted" /\ phase' = "ran" /\ GoAccepts /\ value' = v /\ outcome' = Outcome(v)
      /\ UNCHANGED <<scrutinee, place, arms, errors, out, panics>>
  BY DEF Run
<1>2. /\ Missing(scrutinee, arms)' = Missing(scrutinee, arms) /\ FoundIn(arms)' = FoundIn(arms)
      /\ Mode(scrutinee, arms)' = Mode(scrutinee, arms) /\ (\A i : Clause(i)' = Clause(i)) /\ Clauses' = Clauses
      /\ AllArmsDiverge(arms)' = AllArmsDiverge(arms)
  BY <1>1 DEF Missing, FoundIn, Mode, Clauses, Clause, AllArmsDiverge
<1>3. GoAccepts' <=> GoAccepts
  BY <1>1 DEF GoAccepts, Mode, ChainOK, TypeSwitchOK, ValueSwitchOK, Readable, Terminates
<1>4. Outcome(v)' = Outcome(v)
  BY <1>1 DEF Outcome, Mode, EndOf
<1>5. ArmsAgree' /\ ErrorsAgree'
  BY <1>1, <1>2 DEF MatchInv, ArmsAgree, ErrorsAgree, Phases
<1>6. ClausesAgree'
  BY <1>1, <1>2 DEF MatchInv, ClausesAgree
<1>7. ValuesOf(scrutinee)' = ValuesOf(scrutinee)
  BY <1>1
<1> QED BY <1>1, <1>3, <1>4, <1>5, <1>6, <1>7 DEF MatchInv

LEMMA MatchStep == MatchInv /\ [Next]_vars => MatchInv'
<1> SUFFICES ASSUME MatchInv, [Next]_vars PROVE MatchInv'
  OBVIOUS
<1>1. ASSUME NEW arm \in Arms[scrutinee], InferArm(arm) PROVE MatchInv'
  BY <1>1, InferArmStep
<1>2. CASE EndMatch
  BY <1>2, EndMatchStep
<1>3. CASE GenArm
  BY <1>3, GenArmStep
<1>4. CASE EndSwitch
  BY <1>4, EndSwitchStep
<1>5. ASSUME NEW v \in ValuesOf(scrutinee), Run(v) PROVE MatchInv'
  BY <1>5, RunStep
<1>6. CASE UNCHANGED vars
  <2>1. UNCHANGED <<phase, scrutinee, place, arms, errors, out, panics, value, outcome>>
    BY <1>6 DEF vars
  <2>2. /\ Missing(scrutinee, arms)' = Missing(scrutinee, arms) /\ FoundIn(arms)' = FoundIn(arms)
        /\ Mode(scrutinee, arms)' = Mode(scrutinee, arms) /\ (\A i : Clause(i)' = Clause(i)) /\ Clauses' = Clauses
        /\ AllArmsDiverge(arms)' = AllArmsDiverge(arms) /\ ValuesOf(scrutinee)' = ValuesOf(scrutinee)
    BY <2>1 DEF Missing, FoundIn, Mode, Clauses, Clause, AllArmsDiverge
  <2>3. GoAccepts' <=> GoAccepts
    BY <2>1 DEF GoAccepts, Mode, ChainOK, TypeSwitchOK, ValueSwitchOK, Readable, Terminates
  <2>4. Outcome(value)' = Outcome(value)
    BY <2>1 DEF Outcome, Mode, EndOf
  <2>5. ArmsAgree' /\ ErrorsAgree' /\ ClausesAgree'
    BY <2>1, <2>2 DEF MatchInv, ArmsAgree, ErrorsAgree, ClausesAgree, Phases
  <2> QED BY <2>1, <2>2, <2>3, <2>4, <2>5 DEF MatchInv
<1> QED BY <1>1, <1>2, <1>3, <1>4, <1>5, <1>6 DEF Next

THEOREM MatchInvariant == Spec => []MatchInv
  BY MatchStart, MatchStep, PTL DEF Spec

-----------------------------------------------------------------------------
(* Patterns, and the names they use.                                       *)

LEMMA FirstIsIn ==
    ASSUME NEW S \in SUBSET Nat, S # {}
    PROVE  First(S) \in S /\ \A j \in S : First(S) <= j
<1>1. PICK m \in S : \A j \in S : <<j, m>> \notin OpToRel(<, Nat)
  BY NatLessThanWellFounded, WFMin
<1>2. \A j \in S : m <= j
  <2> SUFFICES ASSUME NEW j \in S PROVE m <= j
    OBVIOUS
  <2>1. ~(j < m)
    BY <1>1 DEF OpToRel
  <2> QED BY <2>1
<1> QED BY <1>2 DEF First

LEMMA OneOrMore == \A n \in Nat \ {0} : (n = 1 \/ n > 1) /\ 1 \in 1..n /\ (n = 1 => 1..n = {1})
  OBVIOUS

LEMMA PatternsOfOne == \A a : PatternsOf(<<a>>) = Range(a.patterns)
<1> SUFFICES ASSUME NEW a PROVE PatternsOf(<<a>>) = Range(a.patterns)
  OBVIOUS
<1>1. DOMAIN <<a>> = {1} /\ <<a>>[1] = a
  OBVIOUS
<1> QED BY <1>1 DEF PatternsOf

\* What a name is turned into tells its last part, and which name it was.
LEMMA Prefixed ==
    ASSUME NEW T, NEW c \in T, NEW n \in Seq(T), Len(n) = 2
    PROVE  <<c>> \o n = <<c, n[1], n[2]>>
<1> DEFINE d == <<c>>
           m == d \o n
<1>1. d \in Seq(T) /\ Len(d) = 1 /\ d[1] = c
  OBVIOUS
<1> HIDE DEF d
<1>2. /\ m \in Seq(T) /\ Len(m) = Len(d) + Len(n)
      /\ \A i \in 1 .. Len(d) + Len(n) : m[i] = IF i <= Len(d) THEN d[i] ELSE n[i - Len(d)]
  BY <1>1, ConcatProperties, Zenon
<1> HIDE DEF m
<1>3. m \in Seq(T) /\ Len(m) = 3 /\ m[1] = c /\ m[2] = n[1] /\ m[3] = n[2]
  BY <1>1, <1>2
<1>4. m = <<c, n[1], n[2]>>
  BY <1>3
<1> QED BY <1>4 DEF m, d

LEMMA ConvertedName ==
    ASSUME NEW n \in Seq(STRING)
    PROVE  ConvertEnumPatternName(n) = IF Len(n) = 2 THEN <<Current, n[1], n[2]>> ELSE n
<1>1. n \in Seq(STRING \cup {Current}) /\ Current \in STRING \cup {Current}
  OBVIOUS
<1>2. CASE Len(n) = 2
  <2>1. <<Current>> \o n = <<Current, n[1], n[2]>>
    BY <1>1, <1>2, Prefixed
  <2> QED BY <1>2, <2>1 DEF ConvertEnumPatternName
<1> QED BY <1>2 DEF ConvertEnumPatternName

LEMMA ConvertedLast ==
    ASSUME NEW s, NEW v, NEW n \in Seq(STRING), Len(n) > 1, ConvertEnumPatternName(n) = GoType(s, v)
    PROVE  Last(n) = v /\ Len(n) \in {2, 3}
<1> DEFINE g == GoType(s, v)
<1>1. Len(g) = 3 /\ g[3] = v
  BY DEF GoType
<1>2. CASE Len(n) = 2
  <2>1. g = <<Current, n[1], n[2]>>
    BY <1>2, ConvertedName
  <2> QED BY <1>1, <1>2, <2>1 DEF Last
<1>3. CASE Len(n) # 2
  <2>1. g = n
    BY <1>3, ConvertedName
  <2> QED BY <1>1, <2>1 DEF Last
<1> QED BY <1>2, <1>3

LEMMA ConvertedSame ==
    ASSUME NEW n \in Seq(STRING), NEW m \in Seq(STRING), Len(n) \in {2, 3}, Len(m) \in {2, 3},
           \A i \in DOMAIN n : n[i] # Current, \A i \in DOMAIN m : m[i] # Current,
           ConvertEnumPatternName(n) = ConvertEnumPatternName(m)
    PROVE  n = m
<1>1. \A k \in Seq(STRING) : Len(k) = 2 => ConvertEnumPatternName(k) = <<Current, k[1], k[2]>>
  BY ConvertedName
<1>2. \A k \in Seq(STRING) : Len(k) = 3 => ConvertEnumPatternName(k) = k
  BY DEF ConvertEnumPatternName
<1>3. Len(n) = Len(m)
  BY <1>1, <1>2
<1>4. CASE Len(n) = 2
  <2>1. <<Current, n[1], n[2]>> = <<Current, m[1], m[2]>>
    <3>1. Len(m) = 2
      BY <1>3, <1>4
    <3> QED BY <1>1, <1>4, <3>1
  <2>2. n[1] = m[1] /\ n[2] = m[2]
    BY <2>1
  <2>3. n \in Seq(STRING) /\ m \in Seq(STRING) /\ Len(n) = 2 /\ Len(m) = 2
    BY <1>3, <1>4
  <2>4. \A i \in 1..2 : n[i] = m[i]
    BY <2>2
  <2> QED BY <2>3, <2>4
<1>5. CASE Len(n) = 3
  BY <1>2, <1>3, <1>5
<1> QED BY <1>4, <1>5

\* The shapes of a variant that a pattern may have been written for.
ShapesFor(kind) ==
    CASE kind = "Destructor" -> {"Single"}
      [] kind = "StructDestructor" -> {"Struct"}
      [] OTHER -> {"Unit", "Single", "Struct"}

\* The arms are those that the parser makes.
LEMMA ArmsParsed ==
    ASSUME ArmsAgree
    PROVE  /\ Len(arms) \in Nat /\ DOMAIN arms = 1..Len(arms)
           /\ \A i \in DOMAIN arms :
                /\ arms[i].patterns # << >> /\ Len(arms[i].patterns) \in Nat \ {0}
                /\ DOMAIN arms[i].patterns = 1..Len(arms[i].patterns)
                /\ arms[i].body \in Bodies
                /\ \A p \in Range(arms[i].patterns) : PatternOK(scrutinee, p)
           /\ PatternsOf(arms) = {q \in PatternsOf(arms) : PatternOK(scrutinee, q)}
<1>1. arms \in Seq(Arms[scrutinee]) /\ scrutinee \in Scrutinees
  BY DEF ArmsAgree
<1>2. /\ Len(arms) \in Nat /\ DOMAIN arms = 1..Len(arms)
      /\ \A i \in DOMAIN arms : arms[i] \in Arms[scrutinee]
  BY <1>1
<1>3. ASSUME NEW arm \in Arms[scrutinee]
      PROVE  /\ arm.patterns # << >> /\ Len(arm.patterns) \in Nat \ {0}
             /\ DOMAIN arm.patterns = 1..Len(arm.patterns)
             /\ arm.body \in Bodies
             /\ \A p \in Range(arm.patterns) : PatternOK(scrutinee, p)
  <2>1. /\ arm.patterns \in Seq(Range(arm.patterns)) /\ arm.patterns # << >>
        /\ \A p \in Range(arm.patterns) : PatternOK(scrutinee, p)
        /\ arm.body \in Bodies
    BY <1>1, <1>3, ArmsAssumption
  <2>2. /\ Len(arm.patterns) \in Nat \ {0} /\ DOMAIN arm.patterns = 1..Len(arm.patterns)
    BY <2>1
  <2> QED BY <2>1, <2>2
<1>4. \A q \in PatternsOf(arms) : PatternOK(scrutinee, q)
  BY <1>2, <1>3 DEF PatternsOf
<1> QED BY <1>2, <1>3, <1>4

-----------------------------------------------------------------------------
(* Exhaustiveness.                                                         *)

\* Which of the variants of a local enum the patterns name.
LEMMA NamedVariant ==
    ASSUME NEW s, NEW p, IsSoppoEnumType(s), WellNamed(s, p), PatternOK(s, p), p.kind \in Named
    PROVE  \E w \in DOMAIN VariantsOf(s) :
             Len(p.name) > 1 /\ ConvertEnumPatternName(p.name) = GoType(s, w) /\ Last(p.name) = w
             /\ VariantsOf(s)[w].shape \in ShapesFor(p.kind)
             /\ DOMAIN p.binds \cup DOMAIN p.tests \subseteq DOMAIN VariantsOf(s)[w].fields
<1>1. ~IsStruct(s) /\ ~IsConstant(s, p)
  BY DEF IsSoppoEnumType, IsEnum, IsStruct, IsConstant
<1>2. PICK w \in DOMAIN VariantsOf(s) :
             Len(p.name) > 1 /\ ConvertEnumPatternName(p.name) = GoType(s, w)
             /\ VariantsOf(s)[w].shape \in ShapesFor(p.kind)
             /\ DOMAIN p.binds \cup DOMAIN p.tests \subseteq DOMAIN VariantsOf(s)[w].fields
  BY <1>1 DEF WellNamed, Named, ShapesFor
<1>3. p.name \in Seq(STRING)
  BY DEF PatternOK
<1> QED BY <1>2, <1>3, ConvertedLast

LEMMA NoArmEntered ==
    ASSUME ArmsAgree, NEW v
    PROVE  AsWritten(v).ran = {} <=> ArmsMatching(v) = {} /\ ~HasDefault(arms)
<1>1. ArmsMatching(v) \subseteq Nat \ {0} /\ DefaultArms \subseteq Nat \ {0}
  BY ArmsParsed DEF ArmsMatching, DefaultArms
<1>2. DefaultArms = {} <=> ~HasDefault(arms)
  <2>1. \A i \in DOMAIN arms : HasDefault(<<arms[i]>>) <=> \E p \in Range(arms[i].patterns) : p.kind = "Default"
    BY PatternsOfOne DEF HasDefault
  <2> QED BY <2>1 DEF DefaultArms, HasDefault, PatternsOf
<1>3. \A S : S \subseteq Nat \ {0} /\ S # {} => First(S) \in Nat \ {0}
  BY FirstIsIn
<1>4. FirstOf(ArmsMatching(v), DefaultArms) = 0 <=> ArmsMatching(v) = {} /\ DefaultArms = {}
  BY <1>1, <1>3 DEF FirstOf
<1>5. AsWritten(v).ran = {} <=> FirstOf(ArmsMatching(v), DefaultArms) = 0
  BY DEF AsWritten
<1> QED BY <1>2, <1>4, <1>5

\* Of an enum, the patterns that match a value of variant v are those that name v.
LEMMA MatchesByName ==
    ASSUME NEW s, NEW p, IsSoppoEnumType(s), s # NoScrutinee, WellNamed(s, p), PatternOK(s, p),
           p.tests = << >>, NEW w, NEW v, v.go = GoType(s, w)
    PROVE  PatternMatches(s, p, v) <=> p.kind \in Named /\ Last(p.name) = w
<1>1. ~IsStruct(s) /\ ~IsConstant(s, p) /\ v.go # Nil
  BY DEF IsSoppoEnumType, IsEnum, IsStruct, IsConstant, GoType, Nil
<1>2. p.kind \in Named \cup {"Default", "Literal"}
  BY DEF PatternOK, KindsFor
<1>3. CASE p.kind = "Default"
  <2>1. p.kind \notin Named
    BY <1>3 DEF Named
  <2>2. ~PatternMatches(s, p, v)
    BY <1>1, <1>3, <2>1 DEF PatternMatches
  <2> QED BY <2>1, <2>2
<1>4. CASE p.kind = "Literal"
  BY <1>1, <1>4 DEF PatternMatches, WellNamed, Named
<1>5. CASE p.kind \in Named
  <2>1. PICK u \in DOMAIN VariantsOf(s) :
          Len(p.name) > 1 /\ ConvertEnumPatternName(p.name) = GoType(s, u) /\ Last(p.name) = u
    BY <1>5, NamedVariant
  <2>2. Meant(s, p) = GoType(s, u) /\ TestsHold(p.tests, v)
    BY <2>1 DEF Meant, TestsHold
  <2>3. PatternMatches(s, p, v) <=> Meant(s, p) = v.go /\ TestsHold(p.tests, v)
    BY <1>1, <1>5 DEF PatternMatches, Named
  <2> QED BY <1>5, <2>1, <2>2, <2>3 DEF GoType
<1> QED BY <1>2, <1>3, <1>4, <1>5

\* A match on an enum of the current module is refused as non-exhaustive
\* exactly if a value has no arm.
THEOREM ExhaustivenessHolds == Spec => []ExhaustivenessIsReal
<1>1. MatchInv => ExhaustivenessIsReal
  <2> SUFFICES ASSUME MatchInv, phase # "infer", scrutinee.module = Current, AllWellNamed,
                      \A p \in PatternsOf(arms) : p.tests = << >>
               PROVE  ("NonExhaustive" \in errors) <=>
                         /\ IsSoppoEnumType(scrutinee)
                         /\ \E v \in ValuesOf(scrutinee) : v.go # Nil /\ AsWritten(v).ran = {}
    BY DEF ExhaustivenessIsReal
  <2> DEFINE s == scrutinee
  <2>1. "NonExhaustive" \in errors <=> Missing(s, arms) # {}
    BY DEF MatchInv, ErrorsAgree
  <2>2. ArmsAgree
    BY DEF MatchInv
  <2>3. s # NoScrutinee
    <3>1. NoScrutinee.module # ""
      BY DEF NoScrutinee
    <3> QED BY <3>1 DEF Current
  <2>4. CASE ~IsSoppoEnumType(s)
    <3>1. Missing(s, arms) = {}
      BY <2>4 DEF Missing, IsSoppoEnumType
    <3> QED BY <2>1, <2>4, <3>1
  <2>5. CASE IsSoppoEnumType(s)
    <3>1. Missing(s, arms) = IF HasDefault(arms) THEN {} ELSE DOMAIN VariantsOf(s) \ Covered(arms)
      BY <2>3, <2>5 DEF Missing, IsSoppoEnumType, VariantsOf
    <3>2. ~IsStruct(s)
      BY <2>5 DEF IsSoppoEnumType, IsEnum, IsStruct
    <3>3. ASSUME NEW w, NEW v, v.go = GoType(s, w)
          PROVE  ArmsMatching(v) = {} <=> w \notin Covered(arms)
      <4>1. \A p \in PatternsOf(arms) :
              PatternMatches(s, p, v) <=> p.kind \in Named /\ Last(p.name) = w
        BY <2>2, <2>3, <2>5, <3>3, MatchesByName, ArmsParsed DEF AllWellNamed
      <4>2. ArmsMatching(v) = {} <=> \A p \in PatternsOf(arms) : ~PatternMatches(s, p, v)
        BY DEF ArmsMatching, PatternsMatching, PatternsOf, Range
      <4> QED BY <4>1, <4>2 DEF Covered
    <3>4. ASSUME NEW w \in DOMAIN VariantsOf(s)
          PROVE  \E v \in ValuesOf(s) : v.go = GoType(s, w)
      <4>1. PICK d : d \in Data
        BY DataAssumption
      <4> DEFINE D == [f \in GoFields(s, GoType(s, w)) |-> d]
      <4>2. D \in [GoFields(s, GoType(s, w)) -> Data]
        BY <4>1
      <4> HIDE DEF D
      <4>3. [go |-> GoType(s, w), data |-> D] \in ValuesOf(s)
        BY <2>3, <2>5, <3>2, <4>2 DEF ValuesOf
      <4> QED BY <4>3
    <3>5. ASSUME NEW v \in ValuesOf(s), v.go # Nil
          PROVE  \E w \in DOMAIN VariantsOf(s) : v.go = GoType(s, w)
      BY <2>3, <2>5, <3>2, <3>5 DEF ValuesOf
    <3>6. \A w : GoType(s, w) # Nil
      BY DEF GoType, Nil
    <3>7. \A v : AsWritten(v).ran = {} <=> ArmsMatching(v) = {} /\ ~HasDefault(arms)
      BY <2>2, NoArmEntered
    <3>8. ASSUME NEW w \in DOMAIN VariantsOf(s) \ Covered(arms), ~HasDefault(arms)
          PROVE  \E v \in ValuesOf(s) : v.go # Nil /\ AsWritten(v).ran = {}
      BY <3>3, <3>4, <3>6, <3>7, <3>8
    <3>9. ASSUME NEW v \in ValuesOf(s), v.go # Nil, AsWritten(v).ran = {}
          PROVE  ~HasDefault(arms) /\ \E w \in DOMAIN VariantsOf(s) : w \notin Covered(arms)
      BY <3>3, <3>5, <3>7, <3>9
    <3> QED BY <2>1, <2>5, <3>1, <3>8, <3>9
  <2> QED BY <2>4, <2>5
<1> QED BY <1>1, MatchInvariant, PTL

-----------------------------------------------------------------------------
(* The three forms of the Go code, and the clauses written in them.        *)

LEMMA ModeIs ==
    ASSUME NEW s, NEW as
    PROVE  /\ Mode(s, as) \in {"chain", "type", "value"}
           /\ Mode(s, as) = "chain" <=> IsStructMatch(s, as)
           /\ Mode(s, as) = "type" <=> IsTypeSwitch(s, as) /\ ~IsStructMatch(s, as)
<1>1. CASE IsStructMatch(s, as)
  BY <1>1 DEF Mode
<1>2. CASE ~IsStructMatch(s, as) /\ IsTypeSwitch(s, as)
  BY <1>2 DEF Mode
<1>3. CASE ~IsStructMatch(s, as) /\ ~IsTypeSwitch(s, as)
  BY <1>3 DEF Mode
<1> QED BY <1>1, <1>2, <1>3

LEMMA PatternAt ==
    ASSUME ArmsAgree, NEW i \in DOMAIN arms, NEW k \in DOMAIN arms[i].patterns
    PROVE  arms[i].patterns[k] \in PatternsOf(arms) /\ PatternOK(scrutinee, arms[i].patterns[k])
<1>1. arms[i].patterns[k] \in Range(arms[i].patterns)
  BY DEF Range
<1> QED BY <1>1, ArmsParsed DEF PatternsOf

\* A struct has no variants.
LEMMA StructIsNoEnum ==
    ASSUME NEW s, IsStruct(s)
    PROVE  ~IsSoppoEnumType(s) /\ VariantsOf(s) = << >> /\ DOMAIN VariantsOf(s) = {}
  BY DEF IsStruct, IsSoppoEnumType, IsEnum, VariantsOf

LEMMA NoVariants ==
    ASSUME NEW s, ~IsSoppoEnumType(s)
    PROVE  DOMAIN VariantsOf(s) = {}
  BY DEF VariantsOf

\* A name that means a struct of the current module has one part.
LEMMA StructName ==
    ASSUME NEW s, NEW n \in Seq(STRING), <<Current>> \o n = GoStruct(s)
    PROVE  Len(n) = 1
<1> DEFINE c == <<Current>>
           T == STRING \cup {Current}
<1>1. c \in Seq(T) /\ n \in Seq(T) /\ Len(c) = 1 /\ Len(n) \in Nat
  OBVIOUS
<1>2. Len(GoStruct(s)) = 2
  BY DEF GoStruct
<1> HIDE DEF c, T
<1>3. Len(c \o n) = Len(c) + Len(n)
  BY <1>1, ConcatProperties
<1>4. c \o n = GoStruct(s)
  BY DEF c
<1> QED BY <1>1, <1>2, <1>3, <1>4

\* What destructures a struct is no name of a variant.
LEMMA StructPattern ==
    ASSUME NEW s, NEW p, WellNamed(s, p), PatternOK(s, p), p.kind = "StructDestructor", ~IsSoppoEnumType(s)
    PROVE  /\ IsStruct(s) /\ Len(p.name) = 1 /\ Meant(s, p) = GoStruct(s)
           /\ DOMAIN p.binds \cup DOMAIN p.tests \subseteq GoFields(s, GoStruct(s))
<1>1. DOMAIN VariantsOf(s) = {}
  BY NoVariants
<1>2. /\ IsStruct(s) /\ <<Current>> \o p.name = GoStruct(s)
      /\ DOMAIN p.binds \cup DOMAIN p.tests \subseteq GoFields(s, GoStruct(s))
  BY <1>1 DEF WellNamed
<1>3. Len(p.name) = 1
  BY <1>2, StructName DEF PatternOK
<1> QED BY <1>2, <1>3 DEF Meant

\* In a chain of ifs, every pattern is one of the struct or the default.
LEMMA ChainPatterns ==
    ASSUME ArmsAgree, AllWellNamed, Mode(scrutinee, arms) = "chain"
    PROVE  /\ IsStruct(scrutinee) /\ scrutinee # NoScrutinee
           /\ \A p \in PatternsOf(arms) :
                p.kind = "Default" \/ (p.kind = "StructDestructor" /\ Meant(scrutinee, p) = GoStruct(scrutinee)
                                        /\ DOMAIN p.binds \cup DOMAIN p.tests
                                             \subseteq GoFields(scrutinee, GoStruct(scrutinee)))
<1> DEFINE s == scrutinee
<1>1. IsStructMatch(s, arms)
  BY ModeIs
<1>2. PICK q \in PatternsOf(arms) : q.kind = "StructDestructor" /\ Len(q.name) = 1
  BY <1>1 DEF IsStructMatch
<1>3. s # NoScrutinee
  BY <1>1 DEF IsStructMatch
<1>4. \A p \in PatternsOf(arms) : WellNamed(s, p) /\ PatternOK(s, p)
  BY ArmsParsed DEF AllWellNamed
<1>5. IsStruct(s)
  <2>1. WellNamed(s, q) /\ Len(q.name) = 1 /\ q.kind = "StructDestructor"
    BY <1>2, <1>4
  <2>2. IsStruct(s) \/ Len(q.name) > 1
    BY <2>1 DEF WellNamed
  <2> QED BY <2>1, <2>2
<1>6. ~IsSoppoEnumType(s) /\ DOMAIN VariantsOf(s) = {}
  BY <1>5, StructIsNoEnum
<1>7. ASSUME NEW p \in PatternsOf(arms)
      PROVE  p.kind \in {"Default", "StructDestructor"}
  <2>1. p.kind \in {"Default", "Literal", "Variant", "Destructor", "StructDestructor"}
    BY <1>3, <1>4 DEF PatternOK, KindsFor, Named
  <2>2. p.kind # "Literal"
    BY <1>4, <1>5 DEF WellNamed
  <2>3. p.kind # "Variant"
    BY <1>4, <1>5, <1>6 DEF WellNamed, IsConstant
  <2>4. p.kind # "Destructor"
    BY <1>4, <1>6 DEF WellNamed
  <2> QED BY <2>1, <2>2, <2>3, <2>4
<1>8. ASSUME NEW p \in PatternsOf(arms), p.kind = "StructDestructor"
      PROVE  Meant(s, p) = GoStruct(s) /\ DOMAIN p.binds \cup DOMAIN p.tests \subseteq GoFields(s, GoStruct(s))
  BY <1>4, <1>6, <1>8, StructPattern
<1> QED BY <1>3, <1>5, <1>7, <1>8

\* What is known of the clauses of a switch, and of those of a chain.
LEMMA SwitchClauses ==
    ASSUME MatchInv, phase \in {"emitted", "ran"}, Mode(scrutinee, arms) # "chain"
    PROVE  /\ DOMAIN out = DOMAIN arms
           /\ \A i \in DOMAIN arms : out[i] = SwitchClause(scrutinee, arms[i])
  BY ArmsParsed DEF MatchInv, ClausesAgree, Clause

LEMMA ChainClauses ==
    ASSUME MatchInv, phase \in {"emitted", "ran"}, Mode(scrutinee, arms) = "chain"
    PROVE  /\ DOMAIN out = DOMAIN arms
           /\ \A i \in DOMAIN arms : out[i] = ChainClause(i, arms[i])
  BY ArmsParsed DEF MatchInv, ClausesAgree, Clause

LEMMA DefaultAlone ==
    ASSUME ArmsAgree
    PROVE  \A i \in DOMAIN arms :
             HasDefault(<<arms[i]>>) <=> \E k \in DOMAIN arms[i].patterns : arms[i].patterns[k].kind = "Default"
<1> SUFFICES ASSUME NEW i \in DOMAIN arms
             PROVE  HasDefault(<<arms[i]>>) <=> \E k \in DOMAIN arms[i].patterns : arms[i].patterns[k].kind = "Default"
  OBVIOUS
<1>1. HasDefault(<<arms[i]>>) <=> \E p \in Range(arms[i].patterns) : p.kind = "Default"
  BY PatternsOfOne DEF HasDefault
<1> QED BY <1>1 DEF Range

-----------------------------------------------------------------------------
(* Accepted matches compile.                                               *)

\* Where a label stands tells the pattern it was written for.
LEMMA LabelPlace ==
    ASSUME MatchInv, phase \in {"emitted", "ran"}, Mode(scrutinee, arms) # "chain",
           NEW at \in LabelPlaces(out)
    PROVE  /\ at[1] \in DOMAIN arms /\ at[2] \in DOMAIN arms[at[1]].patterns
           /\ at = <<at[1], at[2]>>
           /\ LabelAt(out, at) = Label(scrutinee, arms[at[1]].patterns[at[2]])
           /\ Len(arms[at[1]].patterns) = 1 => arms[at[1]].patterns[at[2]].kind # "Default"
<1>1. PICK i \in DOMAIN out : at \in {i} \X DOMAIN out[i].labels
  BY DEF LabelPlaces
<1>2. at = <<i, at[2]>> /\ at[1] = i /\ at[2] \in DOMAIN out[i].labels
  BY <1>1
<1>3. i \in DOMAIN arms /\ out[i] = SwitchClause(scrutinee, arms[i])
  BY SwitchClauses
<1>4. DOMAIN arms[i].patterns = 1..Len(arms[i].patterns)
  BY <1>3, ArmsParsed DEF MatchInv
<1> DEFINE ps == arms[i].patterns
           default == Len(ps) = 1 /\ ps[1].kind = "Default"
<1>5. out[i].labels = IF default THEN << >> ELSE [k \in DOMAIN ps |-> Label(scrutinee, ps[k])]
  BY <1>3 DEF SwitchClause
<1>6. ~default /\ at[2] \in DOMAIN ps /\ out[i].labels[at[2]] = Label(scrutinee, ps[at[2]])
  BY <1>2, <1>5
<1>7. Len(ps) = 1 => at[2] = 1
  BY <1>4, <1>6
<1> QED BY <1>2, <1>3, <1>6, <1>7 DEF LabelAt

LEMMA NoScrutineeNoType == ~IsStruct(NoScrutinee) /\ ~IsSoppoEnumType(NoScrutinee)
  BY ModulesAssumption DEF IsStruct, IsSoppoEnumType, IsEnum, IsType

\* In a value switch, a well-named pattern is a value to compare with.
LEMMA ValueLabel ==
    ASSUME NEW s, NEW as, Mode(s, as) = "value", NEW p \in PatternsOf(as), WellNamed(s, p), PatternOK(s, p),
           p.kind # "Default"
    PROVE  /\ Comparable(s, Label(s, p))
           /\ s # NoScrutinee => Equals(Label(s, p)) = Plain(s, p) /\ p.kind \in Named \cup {"Literal"}
<1>1. ~IsTypeSwitch(s, as)
  BY ModeIs
<1>2. CASE s = NoScrutinee
  <2>1. p.kind = "Guard"
    BY <1>2 DEF PatternOK, KindsFor
  <2>2. Label(s, p).kind = "guard"
    BY <2>1 DEF Label
  <2>3. Comparable(s, Label(s, p))
    BY <1>2, <2>2, NoScrutineeNoType DEF Comparable
  <2> QED BY <1>2, <2>3
<1>3. CASE s # NoScrutinee
  <2>1. p.kind \in {"Variant", "Literal"}
    <3>1. p.kind \in {"Variant", "Destructor", "StructDestructor", "Literal"}
      BY <1>3 DEF PatternOK, KindsFor, Named
    <3> QED BY <1>1, <1>3, <3>1 DEF IsTypeSwitch, NeedsBinding
  <2>2. CASE p.kind = "Literal"
    <3>1. ~IsStruct(s) /\ ((p.name = <<"nil">>) <=> IsSoppoEnumType(s))
      BY <2>2 DEF WellNamed
    <3>2. Label(s, p) = [kind |-> "literal", name |-> p.name]
      BY <2>2 DEF Label
    <3>3. Comparable(s, Label(s, p))
      BY <1>3, <3>1, <3>2 DEF Comparable
    <3>4. Equals(Label(s, p)) = Plain(s, p)
      BY <2>2, <3>2 DEF Equals, Plain, IsConstant
    <3> QED BY <2>2, <3>3, <3>4
  <2>3. CASE p.kind = "Variant"
    <3>1. ~IsSoppoEnumType(s)
      BY <1>1, <1>3, <2>3 DEF IsTypeSwitch
    <3>2. DOMAIN VariantsOf(s) = {}
      BY <3>1, NoVariants
    <3>3. IsConstant(s, p)
      BY <2>3, <3>2 DEF WellNamed
    <3>4. ~IsStruct(s) /\ p.name \in DOMAIN Constants
      BY <3>3 DEF IsConstant
    <3>5. Label(s, p) = [kind |-> "constant", name |-> p.name]
      BY <2>3, <3>1 DEF Label
    <3>6. Comparable(s, Label(s, p))
      BY <1>3, <3>1, <3>4, <3>5 DEF Comparable
    <3>7. Equals(Label(s, p)) = Plain(s, p)
      BY <3>3, <3>5 DEF Equals, Plain
    <3> QED BY <2>3, <3>6, <3>7 DEF Named
  <2> QED BY <2>1, <2>2, <2>3
<1> QED BY <1>2, <1>3

\* A type switch is written for an enum.
LEMMA TypeSwitchIsEnum ==
    ASSUME ArmsAgree, AllWellNamed, Mode(scrutinee, arms) = "type"
    PROVE  IsSoppoEnumType(scrutinee) /\ scrutinee # NoScrutinee
<1> DEFINE s == scrutinee
<1>1. IsTypeSwitch(s, arms) /\ ~IsStructMatch(s, arms)
  BY ModeIs
<1>2. s # NoScrutinee
  BY <1>1 DEF IsTypeSwitch
<1>3. SUFFICES ASSUME ~IsSoppoEnumType(s) PROVE FALSE
  BY <1>2
<1>4. PICK p \in PatternsOf(arms) : p.kind \in {"Destructor", "StructDestructor"}
  BY <1>1, <1>3 DEF IsTypeSwitch, NeedsBinding
<1>5. WellNamed(s, p) /\ PatternOK(s, p)
  BY ArmsParsed DEF AllWellNamed
<1>6. p.kind # "Destructor"
  BY <1>3, <1>5, NoVariants DEF WellNamed
<1>7. p.kind = "StructDestructor" /\ Len(p.name) = 1
  BY <1>3, <1>4, <1>5, <1>6, StructPattern
<1> QED BY <1>1, <1>2, <1>7 DEF IsStructMatch

\* In a type switch, a well-named pattern is nil or the type of a variant.
LEMMA TypeLabel ==
    ASSUME NEW s, NEW p, s # NoScrutinee, IsSoppoEnumType(s), WellNamed(s, p), PatternOK(s, p),
           p.kind # "Default"
    PROVE  /\ TypeLabelOK(s, Label(s, p))
           /\ \/ p.kind = "Literal" /\ Label(s, p) = [kind |-> "literal", name |-> p.name]
              \/ /\ p.kind \in Named /\ Len(p.name) \in {2, 3}
                 /\ Label(s, p) = [kind |-> "type", name |-> ConvertEnumPatternName(p.name)]
<1>1. p.kind \in Named \cup {"Literal"}
  BY DEF PatternOK, KindsFor
<1>2. CASE p.kind = "Literal"
  <2>1. p.name = <<"nil">>
    BY <1>2 DEF WellNamed
  <2>2. Label(s, p) = [kind |-> "literal", name |-> p.name]
    BY <1>2 DEF Label
  <2> QED BY <1>2, <2>1, <2>2 DEF TypeLabelOK
<1>3. CASE p.kind \in Named
  <2>1. PICK w \in DOMAIN VariantsOf(s) : Len(p.name) > 1 /\ ConvertEnumPatternName(p.name) = GoType(s, w)
    BY <1>3, NamedVariant
  <2>2. Len(p.name) \in {2, 3}
    BY <2>1, ConvertedLast DEF PatternOK
  <2>3. Label(s, p) = [kind |-> "type", name |-> ConvertEnumPatternName(p.name)]
    BY <1>3 DEF Label, Named
  <2> QED BY <1>3, <2>1, <2>2, <2>3 DEF TypeLabelOK
<1> QED BY <1>1, <1>2, <1>3

\* Different names are written as different labels.
LEMMA DifferentLabels ==
    ASSUME NEW s, NEW p, NEW q, s # NoScrutinee, IsSoppoEnumType(s), WellNamed(s, p), PatternOK(s, p),
           WellNamed(s, q), PatternOK(s, q), p.kind # "Default", q.kind # "Default", ~Same(s, p, q)
    PROVE  Label(s, p) # Label(s, q)
<1>1. ~IsConstant(s, p) /\ ~IsConstant(s, q)
  BY DEF IsConstant
<1>2. p.kind \in Named \cup {"Literal"} /\ q.kind \in Named \cup {"Literal"}
  BY DEF PatternOK, KindsFor
<1>3. p.name # q.name
  BY <1>1, <1>2 DEF Same, Plain
<1>4. SUFFICES ASSUME Label(s, p) = Label(s, q) PROVE FALSE
  OBVIOUS
<1>5. \/ Label(s, p) = [kind |-> "literal", name |-> p.name]
      \/ /\ Len(p.name) \in {2, 3}
         /\ Label(s, p) = [kind |-> "type", name |-> ConvertEnumPatternName(p.name)]
  BY TypeLabel
<1>6. \/ Label(s, q) = [kind |-> "literal", name |-> q.name]
      \/ /\ Len(q.name) \in {2, 3}
         /\ Label(s, q) = [kind |-> "type", name |-> ConvertEnumPatternName(q.name)]
  BY TypeLabel
<1>7. /\ Len(p.name) \in {2, 3} /\ Len(q.name) \in {2, 3}
      /\ ConvertEnumPatternName(p.name) = ConvertEnumPatternName(q.name)
  BY <1>3, <1>4, <1>5, <1>6
<1>8. /\ p.name \in Seq(STRING) /\ q.name \in Seq(STRING)
      /\ \A i \in DOMAIN p.name : p.name[i] # Current
      /\ \A i \in DOMAIN q.name : q.name[i] # Current
  BY DEF PatternOK
<1> QED BY <1>3, <1>7, <1>8, ConvertedSame

\* What a match must be for the generator to have Go for it.
Regular(mode) ==
    /\ AllWellNamed
    /\ mode # "chain" => ~Repeats
    /\ \A i \in DOMAIN arms : Len(arms[i].patterns) > 1 =>
         \A k \in DOMAIN arms[i].patterns :
           arms[i].patterns[k].kind # "Default" /\ arms[i].patterns[k].binds = << >>
    /\ mode = "type" /\ NeedsBinding(arms) => \E i \in DOMAIN out : out[i].binds # << >>
    /\ mode = "chain" =>
         \A i \in DOMAIN arms : /\ HasDefault(<<arms[i]>>) => i >= Len(arms)
                                /\ arms[i].body = "breaks" => place = "loop"
    /\ place = "tail" => panics \/ (HasDefault(arms) /\ \A i \in DOMAIN arms : EndsForGo(arms[i].body))

LEMMA RegularMeans ==
    ASSUME ArmsAgree, NEW mode, ~KnownRefusal(mode)
    PROVE  Regular(mode)
<1>1. AllWellNamed /\ (mode # "chain" => ~Repeats)
  BY DEF KnownRefusal
<1>2. ASSUME NEW i \in DOMAIN arms, Len(arms[i].patterns) > 1, NEW k \in DOMAIN arms[i].patterns
      PROVE  arms[i].patterns[k].kind # "Default" /\ arms[i].patterns[k].binds = << >>
  <2>1. arms[i].patterns[k] \in Range(arms[i].patterns)
    BY DEF Range
  <2> QED BY <1>2, <2>1 DEF KnownRefusal
<1>3. mode = "type" /\ NeedsBinding(arms) => \E i \in DOMAIN out : out[i].binds # << >>
  BY DEF KnownRefusal
<1>4. ASSUME mode = "chain", NEW i \in DOMAIN arms
      PROVE  /\ HasDefault(<<arms[i]>>) => i >= Len(arms)
             /\ arms[i].body = "breaks" => place = "loop"
  <2>1. i \in Nat /\ Len(arms) \in Nat
    BY ArmsParsed
  <2> QED BY <1>4, <2>1 DEF KnownRefusal
<1>5. place = "tail" => panics \/ (HasDefault(arms) /\ \A i \in DOMAIN arms : EndsForGo(arms[i].body))
  BY DEF KnownRefusal
<1> QED BY <1>1, <1>2, <1>3, <1>4, <1>5 DEF Regular

\* The labels of a switch belong to patterns that are not the default, and
\* different labels to different patterns.
LEMMA SwitchLabels ==
    ASSUME MatchInv, phase = "emitted", Mode(scrutinee, arms) # "chain", Regular(Mode(scrutinee, arms))
    PROVE  \A at \in LabelPlaces(out) :
             \E p \in PatternsOf(arms) :
               /\ p = arms[at[1]].patterns[at[2]]
               /\ LabelAt(out, at) = Label(scrutinee, p)
               /\ WellNamed(scrutinee, p) /\ PatternOK(scrutinee, p) /\ p.kind # "Default"
               /\ \A b \in LabelPlaces(out) : at # b => ~Same(scrutinee, p, arms[b[1]].patterns[b[2]])
<1> SUFFICES ASSUME NEW at \in LabelPlaces(out)
             PROVE  \E p \in PatternsOf(arms) :
                       /\ p = arms[at[1]].patterns[at[2]]
                       /\ LabelAt(out, at) = Label(scrutinee, p)
                       /\ WellNamed(scrutinee, p) /\ PatternOK(scrutinee, p) /\ p.kind # "Default"
                       /\ \A b \in LabelPlaces(out) : at # b => ~Same(scrutinee, p, arms[b[1]].patterns[b[2]])
  OBVIOUS
<1> DEFINE p == arms[at[1]].patterns[at[2]]
<1>1. /\ at[1] \in DOMAIN arms /\ at[2] \in DOMAIN arms[at[1]].patterns /\ at = <<at[1], at[2]>>
      /\ LabelAt(out, at) = Label(scrutinee, p)
      /\ Len(arms[at[1]].patterns) = 1 => p.kind # "Default"
  BY LabelPlace
<1>2. p \in PatternsOf(arms) /\ PatternOK(scrutinee, p)
  BY <1>1, PatternAt DEF MatchInv
<1>3. p.kind # "Default"
  <2>1. Len(arms[at[1]].patterns) \in Nat \ {0}
    BY <1>1, ArmsParsed DEF MatchInv
  <2>2. \A i \in DOMAIN arms : Len(arms[i].patterns) > 1 =>
          \A k \in DOMAIN arms[i].patterns : arms[i].patterns[k].kind # "Default"
    BY DEF Regular
  <2>3. Len(arms[at[1]].patterns) > 1 => p.kind # "Default"
    BY <1>1, <2>2
  <2>4. Len(arms[at[1]].patterns) = 1 \/ Len(arms[at[1]].patterns) > 1
    BY <2>1, OneOrMore, Zenon
  <2> QED BY <1>1, <2>3, <2>4
<1>4. WellNamed(scrutinee, p)
  BY <1>2 DEF Regular, AllWellNamed
<1>5. ASSUME NEW b \in LabelPlaces(out), at # b
      PROVE  ~Same(scrutinee, p, arms[b[1]].patterns[b[2]])
  <2>1. b[1] \in DOMAIN arms /\ b[2] \in DOMAIN arms[b[1]].patterns /\ b = <<b[1], b[2]>>
    BY LabelPlace
  <2>2. <<at[1], at[2]>> # <<b[1], b[2]>>
    BY <1>1, <1>5, <2>1
  <2>3. ~Repeats
    BY DEF Regular
  <2> QED BY <1>1, <2>1, <2>2, <2>3 DEF Repeats
<1> QED BY <1>1, <1>2, <1>3, <1>4, <1>5

LEMMA ValueSwitchCompiles ==
    ASSUME MatchInv, phase = "emitted", Mode(scrutinee, arms) = "value", Regular("value")
    PROVE  ValueSwitchOK(scrutinee, out)
<1> DEFINE s == scrutinee
<1>1. \A at \in LabelPlaces(out) :
        \E p \in PatternsOf(arms) :
          /\ p = arms[at[1]].patterns[at[2]]
          /\ LabelAt(out, at) = Label(s, p)
          /\ WellNamed(s, p) /\ PatternOK(s, p) /\ p.kind # "Default"
          /\ \A b \in LabelPlaces(out) : at # b => ~Same(s, p, arms[b[1]].patterns[b[2]])
  BY SwitchLabels
<1>2. \A l \in LabelsOf(out) : Comparable(s, l)
  BY <1>1, ValueLabel DEF LabelsOf
<1>3. ASSUME s # NoScrutinee, NEW a \in LabelPlaces(out), NEW b \in LabelPlaces(out), a # b
      PROVE  Equals(LabelAt(out, a)) # Equals(LabelAt(out, b))
  <2>1. PICK p \in PatternsOf(arms) :
          /\ LabelAt(out, a) = Label(s, p)
          /\ WellNamed(s, p) /\ PatternOK(s, p) /\ p.kind # "Default"
          /\ ~Same(s, p, arms[b[1]].patterns[b[2]])
    BY <1>1, <1>3
  <2>2. PICK q \in PatternsOf(arms) :
          /\ q = arms[b[1]].patterns[b[2]]
          /\ LabelAt(out, b) = Label(s, q)
          /\ WellNamed(s, q) /\ PatternOK(s, q) /\ q.kind # "Default"
    BY <1>1
  <2>3. Equals(Label(s, p)) = Plain(s, p) /\ p.kind \in Named \cup {"Literal"}
    BY <1>3, <2>1, ValueLabel
  <2>4. Equals(Label(s, q)) = Plain(s, q) /\ q.kind \in Named \cup {"Literal"}
    BY <1>3, <2>2, ValueLabel
  <2>5. ~Same(s, p, q)
    BY <2>1, <2>2
  <2> QED BY <2>1, <2>2, <2>3, <2>4, <2>5 DEF Same
<1> QED BY <1>2, <1>3 DEF ValueSwitchOK

LEMMA TypeSwitchCompiles ==
    ASSUME MatchInv, phase = "emitted", Mode(scrutinee, arms) = "type", Regular("type")
    PROVE  TypeSwitchOK(scrutinee, out, NeedsBinding(arms))
<1> DEFINE s == scrutinee
<1>1. \A at \in LabelPlaces(out) :
        \E p \in PatternsOf(arms) :
          /\ p = arms[at[1]].patterns[at[2]]
          /\ LabelAt(out, at) = Label(s, p)
          /\ WellNamed(s, p) /\ PatternOK(s, p) /\ p.kind # "Default"
          /\ \A b \in LabelPlaces(out) : at # b => ~Same(s, p, arms[b[1]].patterns[b[2]])
  BY SwitchLabels
<1>2. IsSoppoEnumType(s) /\ s # NoScrutinee
  BY TypeSwitchIsEnum DEF MatchInv, Regular
<1>3. \A l \in LabelsOf(out) : TypeLabelOK(s, l)
  BY <1>1, <1>2, TypeLabel DEF LabelsOf
<1>4. ASSUME NEW a \in LabelPlaces(out), NEW b \in LabelPlaces(out), a # b
      PROVE  LabelAt(out, a) # LabelAt(out, b)
  <2>1. PICK p \in PatternsOf(arms) :
          /\ LabelAt(out, a) = Label(s, p)
          /\ WellNamed(s, p) /\ PatternOK(s, p) /\ p.kind # "Default"
          /\ ~Same(s, p, arms[b[1]].patterns[b[2]])
    BY <1>1, <1>4
  <2>2. PICK q \in PatternsOf(arms) :
          /\ q = arms[b[1]].patterns[b[2]]
          /\ LabelAt(out, b) = Label(s, q)
          /\ WellNamed(s, q) /\ PatternOK(s, q) /\ q.kind # "Default"
    BY <1>1
  <2>3. ~Same(s, p, q)
    BY <2>1, <2>2
  <2>4. Label(s, p) # Label(s, q)
    BY <1>2, <2>1, <2>2, <2>3, DifferentLabels
  <2> QED BY <2>1, <2>2, <2>4
<1>5. NeedsBinding(arms) => \E i \in DOMAIN out : out[i].binds # << >>
  BY DEF Regular
<1>6. ASSUME NEW i \in DOMAIN out, out[i].binds # << >>
      PROVE  DOMAIN out[i].binds \subseteq GoFields(s, out[i].labels[1].name)
  <2> DEFINE ps == arms[i].patterns
  <2>1. i \in DOMAIN arms /\ out[i] = SwitchClause(s, arms[i])
    BY SwitchClauses
  <2>2. out[i].binds = IF Len(ps) = 1 THEN ps[1].binds ELSE << >>
    BY <2>1 DEF SwitchClause
  <2>3. Len(ps) = 1 /\ out[i].binds = ps[1].binds /\ ps[1].binds # << >>
    BY <1>6, <2>2
  <2>4. DOMAIN ps = {1}
    BY <2>1, <2>3, ArmsParsed DEF MatchInv
  <2>5. ps[1] \in PatternsOf(arms) /\ PatternOK(s, ps[1])
    BY <2>1, <2>4, PatternAt DEF MatchInv
  <2>6. ps[1].kind \in {"Destructor", "StructDestructor"}
    BY <2>3, <2>5 DEF PatternOK
  <2>7. WellNamed(s, ps[1])
    BY <2>5 DEF Regular, AllWellNamed
  <2>8. PICK w \in DOMAIN VariantsOf(s) :
          /\ ConvertEnumPatternName(ps[1].name) = GoType(s, w)
          /\ DOMAIN ps[1].binds \cup DOMAIN ps[1].tests \subseteq DOMAIN VariantsOf(s)[w].fields
    BY <1>2, <2>5, <2>6, <2>7, NamedVariant DEF Named
  <2>9. out[i].labels = [k \in DOMAIN ps |-> Label(s, ps[k])]
    BY <2>1, <2>6 DEF SwitchClause
  <2>10. out[i].labels[1] = Label(s, ps[1])
    BY <2>4, <2>9
  <2>11. Label(s, ps[1]) = [kind |-> "type", name |-> ConvertEnumPatternName(ps[1].name)]
    BY <2>6 DEF Label
  <2>12. out[i].labels[1].name = GoType(s, w)
    BY <2>8, <2>10, <2>11
  <2>13. ~IsStruct(s)
    BY <1>2, StructIsNoEnum
  <2>14. DOMAIN VariantsOf(s)[w].fields \subseteq GoFields(s, GoType(s, w))
    BY <2>13 DEF GoFields
  <2> QED BY <2>3, <2>8, <2>12, <2>14
<1> QED BY <1>2, <1>3, <1>4, <1>5, <1>6 DEF TypeSwitchOK

LEMMA ChainCompiles ==
    ASSUME MatchInv, phase = "emitted", Mode(scrutinee, arms) = "chain", Regular("chain")
    PROVE  ChainOK(scrutinee, out)
<1> DEFINE s == scrutinee
<1>1. DOMAIN out = DOMAIN arms /\ \A i \in DOMAIN arms : out[i] = ChainClause(i, arms[i])
  BY ChainClauses
<1>2. Len(arms) \in Nat \ {0} /\ DOMAIN arms = 1..Len(arms) /\ Len(out) = Len(arms)
  BY ArmsParsed DEF MatchInv, ClausesAgree
<1>3. ASSUME NEW i \in DOMAIN arms
      PROVE  /\ out[i].head \in {"block", "else"} => HasDefault(<<arms[i]>>)
             /\ out[i].head # "none" /\ out[i].body = arms[i].body
             /\ DOMAIN out[i].tests \cup DOMAIN out[i].binds \subseteq GoFields(s, GoStruct(s))
  <2> DEFINE ps == arms[i].patterns
             p == ps[1]
             default == \E k \in DOMAIN ps : ps[k].kind = "Default"
             destructor == p.kind = "StructDestructor"
  <2>1. 1 \in DOMAIN ps
    BY <1>3, ArmsParsed DEF MatchInv
  <2>2. p \in PatternsOf(arms)
    BY <1>3, <2>1, PatternAt DEF MatchInv
  <2>3. p.kind = "Default" \/ (destructor /\ DOMAIN p.binds \cup DOMAIN p.tests \subseteq GoFields(s, GoStruct(s)))
    BY <2>2, ChainPatterns DEF MatchInv, Regular
  <2>4. out[i].head = IF default THEN (IF i = 1 THEN "block" ELSE "else")
                      ELSE IF destructor THEN "if" ELSE "none"
    BY <1>1, <1>3 DEF ChainClause
  <2>5. out[i].tests = IF destructor /\ ~default THEN p.tests ELSE << >>
    BY <1>1, <1>3 DEF ChainClause
  <2>6. out[i].binds = IF destructor THEN p.binds ELSE << >>
    BY <1>1, <1>3 DEF ChainClause
  <2>7. out[i].body = arms[i].body
    BY <1>1, <1>3 DEF ChainClause
  <2>8. default <=> HasDefault(<<arms[i]>>)
    BY <1>3, DefaultAlone DEF MatchInv
  <2>9. default \/ destructor
    BY <2>1, <2>3
  <2>10. DOMAIN out[i].tests \subseteq GoFields(s, GoStruct(s))
    BY <2>3, <2>5
  <2>11. DOMAIN out[i].binds \subseteq GoFields(s, GoStruct(s))
    BY <2>3, <2>6
  <2> HIDE DEF default, destructor
  <2> QED BY <2>4, <2>7, <2>8, <2>9, <2>10, <2>11
<1>4. \A i \in DOMAIN arms : /\ HasDefault(<<arms[i]>>) => i >= Len(arms)
                             /\ arms[i].body = "breaks" => place = "loop"
  BY DEF Regular
<1>5. out[1].head # "none"
  <2>1. 1 \in DOMAIN arms
    BY <1>2, OneOrMore, Zenon
  <2> QED BY <1>3, <2>1
<1>6. ASSUME NEW i \in Heads(out, "block") \cup Heads(out, "else"), NEW j \in i + 1 .. Len(out)
      PROVE  FALSE
  <2>1. i \in DOMAIN arms /\ out[i].head \in {"block", "else"}
    BY <1>1 DEF Heads
  <2>2. i >= Len(arms)
    BY <1>3, <1>4, <2>1
  <2> QED BY <1>2, <2>1, <2>2
<1>7. \A i \in DOMAIN out : DOMAIN out[i].tests \cup DOMAIN out[i].binds \subseteq GoFields(s, GoStruct(s))
  BY <1>1, <1>3
<1>8. place = "loop" \/ \A i \in DOMAIN out : out[i].body # "breaks"
  BY <1>1, <1>3, <1>4
<1> QED BY <1>5, <1>6, <1>7, <1>8 DEF ChainOK

\* A switch has one default, and its bodies read what their clause declares.
LEMMA SwitchReads ==
    ASSUME MatchInv, phase = "emitted", Mode(scrutinee, arms) # "chain", Regular(Mode(scrutinee, arms))
    PROVE  /\ \A i, j \in Heads(out, "default") : i = j
           /\ \A i \in DOMAIN out : out[i].reads \subseteq Range(out[i].binds)
           /\ HasDefault(arms) => Heads(out, "default") # {}
           /\ \A i \in DOMAIN arms : out[i].body = arms[i].body
<1>1. DOMAIN out = DOMAIN arms /\ \A i \in DOMAIN arms : out[i] = SwitchClause(scrutinee, arms[i])
  BY SwitchClauses
<1>2. ASSUME NEW i \in DOMAIN arms
      PROVE  /\ out[i].head \in {"default", "case"} /\ out[i].body = arms[i].body
             /\ out[i].head = "default" <=> Len(arms[i].patterns) = 1 /\ arms[i].patterns[1].kind = "Default"
             /\ out[i].binds = IF Len(arms[i].patterns) = 1 THEN arms[i].patterns[1].binds ELSE << >>
             /\ out[i].reads = Range(arms[i].patterns[1].binds)
             /\ Len(arms[i].patterns) = 1 \/ Len(arms[i].patterns) > 1
             /\ 1 \in DOMAIN arms[i].patterns
             /\ Len(arms[i].patterns) = 1 => DOMAIN arms[i].patterns = {1}
  <2>1. out[i] = SwitchClause(scrutinee, arms[i])
    BY <1>1, <1>2
  <2>2. Len(arms[i].patterns) \in Nat \ {0} /\ DOMAIN arms[i].patterns = 1..Len(arms[i].patterns)
    BY <1>2, ArmsParsed DEF MatchInv
  <2>3. /\ Len(arms[i].patterns) = 1 \/ Len(arms[i].patterns) > 1
        /\ 1 \in DOMAIN arms[i].patterns
        /\ Len(arms[i].patterns) = 1 => DOMAIN arms[i].patterns = {1}
    BY <2>2, OneOrMore, Zenon
  <2> QED BY <2>1, <2>3 DEF SwitchClause
<1>3. ASSUME NEW i \in DOMAIN arms, Len(arms[i].patterns) > 1, NEW k \in DOMAIN arms[i].patterns
      PROVE  arms[i].patterns[k].kind # "Default" /\ arms[i].patterns[k].binds = << >>
  BY <1>3 DEF Regular
<1>4. ASSUME NEW i \in Heads(out, "default"), NEW j \in Heads(out, "default"), i # j
      PROVE  FALSE
  <2>1. /\ i \in DOMAIN arms /\ j \in DOMAIN arms
        /\ out[i].head = "default" /\ out[j].head = "default"
    BY <1>1 DEF Heads
  <2>2. /\ arms[i].patterns[1].kind = "Default" /\ 1 \in DOMAIN arms[i].patterns
        /\ arms[j].patterns[1].kind = "Default" /\ 1 \in DOMAIN arms[j].patterns
    BY <1>2, <2>1
  <2>3. Same(scrutinee, arms[i].patterns[1], arms[j].patterns[1])
    BY <2>2 DEF Same
  <2>4. <<i, 1>> # <<j, 1>>
    BY <1>4
  <2>5. Repeats
    BY <2>1, <2>2, <2>3, <2>4 DEF Repeats
  <2> QED BY <2>5 DEF Regular
<1>5. ASSUME NEW i \in DOMAIN arms
      PROVE  out[i].reads \subseteq Range(out[i].binds)
  <2>1. CASE Len(arms[i].patterns) = 1
    BY <1>2, <1>5, <2>1
  <2>2. CASE Len(arms[i].patterns) # 1
    <3>1. Len(arms[i].patterns) > 1 /\ 1 \in DOMAIN arms[i].patterns
      BY <1>2, <1>5, <2>2
    <3>2. arms[i].patterns[1].binds = << >>
      BY <1>3, <1>5, <3>1
    <3>3. out[i].binds = << >> /\ out[i].reads = Range(<< >>)
      BY <1>2, <1>5, <2>2, <3>2
    <3> QED BY <3>3
  <2> QED BY <2>1, <2>2
<1>6. ASSUME HasDefault(arms)
      PROVE  Heads(out, "default") # {}
  <2>1. PICK i \in DOMAIN arms : \E k \in DOMAIN arms[i].patterns : arms[i].patterns[k].kind = "Default"
    BY <1>6 DEF HasDefault, PatternsOf, Range
  <2>2. PICK k \in DOMAIN arms[i].patterns : arms[i].patterns[k].kind = "Default"
    BY <2>1
  <2>3. Len(arms[i].patterns) = 1 /\ k = 1
    BY <1>2, <1>3, <2>1, <2>2
  <2>4. i \in Heads(out, "default")
    BY <1>1, <1>2, <2>2, <2>3 DEF Heads
  <2> QED BY <2>4
<1> QED BY <1>1, <1>2, <1>4, <1>5, <1>6

LEMMA ChainReads ==
    ASSUME MatchInv, phase = "emitted", Mode(scrutinee, arms) = "chain", Regular("chain")
    PROVE  /\ Heads(out, "default") = {}
           /\ \A i \in DOMAIN out : out[i].reads \subseteq Range(out[i].binds)
           /\ HasDefault(arms) => Heads(out, "else") \cup Heads(out, "block") # {}
           /\ \A i \in DOMAIN arms : out[i].body = arms[i].body
<1>1. DOMAIN out = DOMAIN arms /\ \A i \in DOMAIN arms : out[i] = ChainClause(i, arms[i])
  BY ChainClauses
<1>2. ASSUME NEW i \in DOMAIN arms
      PROVE  /\ out[i].head # "default" /\ out[i].body = arms[i].body
             /\ out[i].reads \subseteq Range(out[i].binds)
  <2> DEFINE p == arms[i].patterns[1]
  <2>1. out[i] = ChainClause(i, arms[i])
    BY <1>1, <1>2
  <2>2. p \in PatternsOf(arms) /\ PatternOK(scrutinee, p)
    BY <1>2, ArmsParsed, PatternAt DEF MatchInv
  <2>3. p.kind = "Default" \/ p.kind = "StructDestructor"
    BY <2>2, ChainPatterns DEF MatchInv, Regular
  <2>4. p.kind = "Default" => p.binds = << >>
    BY <2>2 DEF PatternOK
  <2>5. out[i].head # "default" /\ out[i].body = arms[i].body
    BY <2>1 DEF ChainClause
  <2>6. /\ out[i].reads = Range(p.binds)
        /\ out[i].binds = IF p.kind = "StructDestructor" THEN p.binds ELSE << >>
    BY <2>1 DEF ChainClause
  <2>7. out[i].binds = p.binds
    BY <2>3, <2>4, <2>6
  <2> QED BY <2>5, <2>6, <2>7
<1>3. ASSUME HasDefault(arms)
      PROVE  Heads(out, "else") \cup Heads(out, "block") # {}
  <2>1. PICK i \in DOMAIN arms : \E k \in DOMAIN arms[i].patterns : arms[i].patterns[k].kind = "Default"
    BY <1>3 DEF HasDefault, PatternsOf, Range
  <2>2. out[i].head \in {"else", "block"}
    BY <1>1, <2>1 DEF ChainClause
  <2>3. i \in Heads(out, "else") \cup Heads(out, "block")
    BY <1>1, <2>2 DEF Heads
  <2> QED BY <2>3
<1> QED BY <1>1, <1>2, <1>3 DEF Heads

\* A match that the checker accepts is written as Go that compiles, except for
\* the forms that the property names.
THEOREM AcceptedCompileHolds == Spec => []AcceptedMatchesCompile
<1>1. MatchInv => AcceptedMatchesCompile
  <2> DEFINE mode == Mode(scrutinee, arms)
  <2> SUFFICES ASSUME MatchInv, phase = "emitted", ~KnownRefusal(mode)
               PROVE  GoAccepts
    BY DEF AcceptedMatchesCompile
  <2>1. Regular(mode)
    BY RegularMeans DEF MatchInv
  <2>2. mode \in {"chain", "type", "value"}
    BY ModeIs
  <2>3. /\ mode = "chain" => ChainOK(scrutinee, out)
        /\ mode = "type" => TypeSwitchOK(scrutinee, out, NeedsBinding(arms))
        /\ mode = "value" => ValueSwitchOK(scrutinee, out)
    BY <2>1, ChainCompiles, TypeSwitchCompiles, ValueSwitchCompiles
  <2>4. \A i, j \in Heads(out, "default") : i = j
    BY <2>1, SwitchReads, ChainReads
  <2>5. Cardinality(Heads(out, "default")) <= 1
    <3>1. CASE Heads(out, "default") = {}
      BY <3>1, FS_EmptySet
    <3>2. ASSUME NEW i \in Heads(out, "default")
          PROVE  Cardinality(Heads(out, "default")) <= 1
      <4>1. Heads(out, "default") = {i}
        BY <2>4
      <4> QED BY <4>1, FS_Singleton
    <3> QED BY <3>1, <3>2
  <2>6. Readable(mode, out)
    <3>1. \A i \in DOMAIN out : out[i].reads \subseteq Range(out[i].binds)
      BY <2>1, SwitchReads, ChainReads
    <3> QED BY <3>1 DEF Readable
  <2>7. ASSUME place = "tail"
        PROVE  Terminates(mode, out)
    <3>1. panics \/ (HasDefault(arms) /\ \A i \in DOMAIN arms : EndsForGo(arms[i].body))
      BY <2>1, <2>7 DEF Regular
    <3>2. DOMAIN out = DOMAIN arms /\ \A i \in DOMAIN arms : out[i].body = arms[i].body
      BY <2>1, SwitchReads, ChainReads, SwitchClauses, ChainClauses
    <3>3. CASE mode = "chain"
      <4>1. ~panics
        BY <3>3 DEF MatchInv, ClausesAgree
      <4>2. Heads(out, "else") \cup Heads(out, "block") # {}
        BY <2>1, <3>1, <3>3, <4>1, ChainReads
      <4> QED BY <3>1, <3>2, <3>3, <4>1, <4>2 DEF Terminates
    <3>4. CASE mode # "chain"
      <4>1. HasDefault(arms) => Heads(out, "default") # {}
        BY <2>1, <3>4, SwitchReads
      <4> QED BY <3>1, <3>2, <3>4, <4>1 DEF Terminates
    <3> QED BY <3>3, <3>4
  <2> QED BY <2>2, <2>3, <2>5, <2>6, <2>7 DEF GoAccepts
<1> QED BY <1>1, MatchInvariant, PTL

-----------------------------------------------------------------------------
(* The arm that is written runs.                                           *)

\* A clause that begins a block of its own runs alone.
LEMMA RunsAlone ==
    ASSUME NEW clauses, NEW i \in Nat, Len(clauses) \in Nat, i <= Len(clauses),
           \A j \in 1..Len(clauses) : clauses[j].head # "none", i >= 1
    PROVE  BodiesRun(clauses, i) = {i} /\ Max({i}) = i
<1> DEFINE block == {j \in i .. Len(clauses) : \A k \in i + 1 .. j : clauses[k].head = "none"}
<1>1. ASSUME NEW j \in block PROVE j = i
  <2>1. j \in i..Len(clauses) /\ \A k \in i + 1 .. j : clauses[k].head = "none"
    OBVIOUS
  <2>2. j # i => j \in i + 1 .. j /\ j \in 1..Len(clauses)
    BY <2>1
  <2> QED BY <2>1, <2>2
<1>2. i \in i..Len(clauses) /\ i + 1 .. i = {} /\ i .. i - 1 = {}
  OBVIOUS
<1>3. i \in block
  BY <1>2
<1>4. block = {i}
  BY <1>1, <1>3
<1>5. BodiesRun(clauses, i) = {j \in block : \A k \in i .. j - 1 : clauses[k].body = "falls"}
  BY DEF BodiesRun
<1> HIDE DEF block
<1>6. BodiesRun(clauses, i) = {i}
  BY <1>2, <1>4, <1>5
<1>7. Max({i}) = i
  BY DEF Max
<1> QED BY <1>6, <1>7

\* The clauses do with v what the arms say.
ClausesAgreeOn(v) ==
    /\ \A i \in DOMAIN out : out[i].head # "none"
    /\ ClausesTaken(Mode(scrutinee, arms), out, v) = ArmsMatching(v)
    /\ ClausesElse(out) = DefaultArms
    /\ \A i \in ArmsMatching(v) :
         Bound(out[i].binds, v) = Bound(arms[i].patterns[First(PatternsMatching(i, v))].binds, v)
    /\ \A i \in DefaultArms : i \notin ArmsMatching(v) => Bound(out[i].binds, v) = {}
    /\ \A i \in DOMAIN arms : i \in Outcome(v).ran =>
         EndOf(Mode(scrutinee, arms), out[i].body) = BodyEnds(arms[i].body)
    /\ Outcome(v).ran = {} => EndOf(Mode(scrutinee, arms), "falls") = "goes on"

\* Then the outcome is the one that is written.
LEMMA SameOutcome ==
    ASSUME MatchInv, NEW v, phase = "ran", ClausesAgreeOn(v)
    PROVE  Outcome(v) = AsWritten(v)
<1> DEFINE mode == Mode(scrutinee, arms)
           i == FirstOf(ArmsMatching(v), DefaultArms)
<1>1. Entered(mode, out, v) = i
  BY DEF Entered, ClausesAgreeOn
<1>2. /\ Len(arms) \in Nat /\ DOMAIN arms = 1..Len(arms)
      /\ Len(out) = Len(arms) /\ DOMAIN out = 1..Len(out)
  BY ArmsParsed DEF MatchInv, ClausesAgree
<1>3. ArmsMatching(v) \subseteq Nat \ {0} /\ DefaultArms \subseteq Nat \ {0}
  <2>1. DOMAIN arms \subseteq Nat \ {0}
    BY <1>2
  <2>2. ArmsMatching(v) \subseteq DOMAIN arms /\ DefaultArms \subseteq DOMAIN arms
    BY DEF ArmsMatching, DefaultArms
  <2> QED BY <2>1, <2>2
<1>4. /\ i = 0 => ArmsMatching(v) = {} /\ DefaultArms = {}
      /\ i # 0 => i \in ArmsMatching(v) \cup DefaultArms
  <2>1. \A S : S \subseteq Nat \ {0} /\ S # {} => First(S) \in S /\ First(S) # 0
    BY FirstIsIn
  <2> QED BY <1>3, <2>1 DEF FirstOf
<1>5. CASE i = 0
  <2>1. Outcome(v) = [ran |-> {}, bound |-> {}, ends |-> EndOf(mode, "falls")]
    BY <1>1, <1>5 DEF Outcome
  <2>2. AsWritten(v) = [ran |-> {}, bound |-> {}, ends |-> "goes on"]
    BY <1>5 DEF AsWritten
  <2>3. Outcome(v).ran = {}
    BY <2>1
  <2> QED BY <2>1, <2>2, <2>3 DEF ClausesAgreeOn
<1>6. CASE i # 0
  <2>1. i \in DOMAIN arms /\ (i \in ArmsMatching(v) \/ i \in DefaultArms)
    BY <1>4, <1>6 DEF ArmsMatching, DefaultArms
  <2>2. BodiesRun(out, i) = {i} /\ Max({i}) = i
    <3> HIDE DEF i
    <3>1. i \in Nat /\ i >= 1 /\ i <= Len(out)
      BY <1>2, <2>1
    <3> QED BY <1>2, <3>1, RunsAlone DEF ClausesAgreeOn
  <2>3. Outcome(v) = [ran |-> {i}, bound |-> Bound(out[i].binds, v), ends |-> EndOf(mode, out[i].body)]
    BY <1>1, <1>6, <2>2 DEF Outcome
  <2>4. AsWritten(v) =
          [ran |-> {i},
           bound |-> IF i \in ArmsMatching(v)
                     THEN Bound(arms[i].patterns[First(PatternsMatching(i, v))].binds, v) ELSE {},
           ends |-> BodyEnds(arms[i].body)]
    BY <1>6 DEF AsWritten
  <2>5. i \in Outcome(v).ran
    BY <2>3
  <2>6. EndOf(mode, out[i].body) = BodyEnds(arms[i].body)
    BY <2>1, <2>5 DEF ClausesAgreeOn
  <2> HIDE DEF i
  <2>7. Bound(out[i].binds, v) =
          IF i \in ArmsMatching(v)
          THEN Bound(arms[i].patterns[First(PatternsMatching(i, v))].binds, v) ELSE {}
    BY <2>1 DEF ClausesAgreeOn
  <2> QED BY <2>3, <2>4, <2>6, <2>7
<1> QED BY <1>5, <1>6

LEMMA NothingBound ==
    ASSUME NEW binds, NEW v, DOMAIN binds = {}
    PROVE  Bound(binds, v) = {}
  BY DEF Bound

\* The pattern of an arm that has just one.
LEMMA FirstOfOne == First({1}) = 1
  BY DEF First

\* How the run ends is how the one body ends that ran, if any did.
LEMMA OutcomeIs ==
    ASSUME MatchInv, phase = "ran", NEW v, \A i \in DOMAIN out : out[i].head # "none"
    PROVE  \/ /\ ClausesTaken(Mode(scrutinee, arms), out, v) = {} /\ ClausesElse(out) = {}
              /\ Outcome(v).ran = {} /\ Outcome(v).ends = EndOf(Mode(scrutinee, arms), "falls")
           \/ \E i \in DOMAIN out :
                Outcome(v).ran = {i} /\ Outcome(v).ends = EndOf(Mode(scrutinee, arms), out[i].body)
<1> DEFINE mode == Mode(scrutinee, arms)
           taken == ClausesTaken(mode, out, v)
           i == Entered(mode, out, v)
<1>1. Len(out) \in Nat /\ DOMAIN out = 1..Len(out)
  BY ArmsParsed DEF MatchInv, ClausesAgree
<1>2. taken \subseteq DOMAIN out /\ ClausesElse(out) \subseteq DOMAIN out
  BY DEF ClausesTaken, ClausesElse, Heads
<1>3. DOMAIN out \subseteq Nat \ {0}
  BY <1>1
<1>4. /\ i = 0 => taken = {} /\ ClausesElse(out) = {}
      /\ i # 0 => i \in DOMAIN out
  <2>1. \A S : S \subseteq Nat \ {0} /\ S # {} => First(S) \in S /\ First(S) # 0
    BY FirstIsIn
  <2>2. i = FirstOf(taken, ClausesElse(out))
    BY DEF Entered
  <2> HIDE DEF i, taken
  <2>3. taken \subseteq Nat \ {0} /\ ClausesElse(out) \subseteq Nat \ {0}
    BY <1>2, <1>3
  <2> QED BY <1>2, <2>1, <2>2, <2>3 DEF FirstOf
<1>5. CASE i = 0
  <2>1. Outcome(v) = [ran |-> {}, bound |-> {}, ends |-> EndOf(mode, "falls")]
    BY <1>5 DEF Outcome
  <2> QED BY <1>4, <1>5, <2>1
<1>6. CASE i # 0
  <2>1. BodiesRun(out, i) = {i} /\ Max({i}) = i
    <3> HIDE DEF i
    <3>1. i \in Nat /\ i >= 1 /\ i <= Len(out)
      BY <1>1, <1>4, <1>6
    <3> QED BY <1>1, <3>1, RunsAlone
  <2>2. Outcome(v) = [ran |-> {i}, bound |-> Bound(out[i].binds, v), ends |-> EndOf(mode, out[i].body)]
    BY <1>6, <2>1 DEF Outcome
  <2> HIDE DEF i
  <2>3. Outcome(v).ran = {i} /\ Outcome(v).ends = EndOf(mode, out[i].body)
    BY <2>2
  <2> QED BY <1>4, <1>6, <2>3
<1> QED BY <1>5, <1>6

\* A label of an accepted switch is taken by the values its pattern matches.
LEMMA LabelMeansPattern ==
    ASSUME NEW s, NEW p, NEW v \in ValuesOf(s), PatternOK(s, p), p.kind # "Default",
           \/ Comparable(s, Label(s, p))
           \/ /\ TypeLabelOK(s, Label(s, p)) /\ IsSoppoEnumType(s) /\ s # NoScrutinee
              /\ p.tests = << >> \/ Meant(s, p) # v.go
    PROVE  LabelMatches(Label(s, p), v) <=> PatternMatches(s, p, v)
<1>1. p.kind \in {"Guard", "Literal"} \cup Named
  BY DEF PatternOK, KindsFor
<1>2. CASE p.kind = "Guard"
  <2>1. Label(s, p) = [kind |-> "guard", name |-> p.name]
    BY <1>2 DEF Label
  <2>2. LabelMatches(Label(s, p), v) <=> v.data[p.name]
    BY <2>1 DEF LabelMatches
  <2>3. PatternMatches(s, p, v) <=> v.data[p.name]
    BY <1>2 DEF PatternMatches, IsConstant, Named
  <2> QED BY <2>2, <2>3
<1>3. CASE p.kind = "Literal"
  <2>1. Label(s, p) = [kind |-> "literal", name |-> p.name]
    BY <1>3 DEF Label
  <2>2. CASE p.name = <<"nil">>
    <3>1. LabelMatches(Label(s, p), v) <=> v.go = Nil
      BY <2>1, <2>2 DEF LabelMatches
    <3>2. PatternMatches(s, p, v) <=> v.go = Nil
      BY <1>3, <2>2 DEF PatternMatches, IsConstant, Named
    <3> QED BY <3>1, <3>2
  <2>3. CASE p.name # <<"nil">>
    <3>1. Label(s, p) # [kind |-> "literal", name |-> <<"nil">>]
      BY <2>1, <2>3
    <3>2. s # NoScrutinee /\ ~IsSoppoEnumType(s) /\ ~IsStruct(s)
      BY <2>1, <3>1 DEF Comparable, TypeLabelOK
    <3>3. "" \in DOMAIN v.data
      <4>1. PICK d \in Data : v = [go |-> GoStruct(s), data |-> [f \in {""} |-> d]]
        BY <3>2 DEF ValuesOf
      <4>2. v.data = [f \in {""} |-> d]
        BY <4>1
      <4> QED BY <4>2
    <3>4. LabelMatches(Label(s, p), v) <=> p.name = <<v.data[""]>>
      BY <2>1, <3>1 DEF LabelMatches, Equals
    <3>5. PatternMatches(s, p, v) <=> p.name = <<v.data[""]>>
      BY <1>3, <2>3, <3>3 DEF PatternMatches, IsConstant, Named
    <3> QED BY <3>4, <3>5
  <2> QED BY <2>2, <2>3
<1>4. CASE p.kind \in Named
  <2>1. CASE p.kind = "Variant" /\ ~IsSoppoEnumType(s)
    <3>1. Label(s, p) = [kind |-> "constant", name |-> p.name]
      BY <2>1 DEF Label
    <3>2. Comparable(s, Label(s, p))
      BY <2>1
    <3>3. s # NoScrutinee /\ ~IsStruct(s) /\ p.name \in DOMAIN Constants
      BY <2>1, <3>1, <3>2 DEF Comparable
    <3>4. IsConstant(s, p)
      BY <2>1, <3>3 DEF IsConstant
    <3>5. LabelMatches(Label(s, p), v) <=> <<Constants[p.name]>> = <<v.data[""]>>
      <4>1. Label(s, p) # [kind |-> "literal", name |-> <<"nil">>]
        BY <3>1
      <4>2. Label(s, p).kind = "constant" /\ Label(s, p).name = p.name
        BY <3>1
      <4>3. Equals(Label(s, p)) = <<Constants[p.name]>>
        BY <4>2 DEF Equals
      <4> QED BY <4>1, <4>2, <4>3 DEF LabelMatches
    <3>6. PatternMatches(s, p, v) <=> Constants[p.name] = v.data[""]
      BY <2>1, <3>4 DEF PatternMatches
    <3> QED BY <3>5, <3>6
  <2>2. CASE ~(p.kind = "Variant" /\ ~IsSoppoEnumType(s))
    <3>1. Label(s, p) = [kind |-> "type", name |-> ConvertEnumPatternName(p.name)]
      BY <1>4, <2>2 DEF Label, Named
    <3>2. ~Comparable(s, Label(s, p))
      BY <3>1 DEF Comparable
    <3>3. /\ IsSoppoEnumType(s) /\ \E w \in DOMAIN VariantsOf(s) : ConvertEnumPatternName(p.name) = GoType(s, w)
          /\ p.tests = << >> \/ Meant(s, p) # v.go
      BY <3>1, <3>2 DEF TypeLabelOK
    <3>4. Len(p.name) > 1
      <4>1. p.name \in Seq(STRING) /\ p.name # << >>
        BY DEF PatternOK
      <4>2. ASSUME Len(p.name) = 1 PROVE FALSE
        <5>1. ConvertEnumPatternName(p.name) = p.name
          BY <4>1, <4>2, ConvertedName
        <5>2. PICK w : ConvertEnumPatternName(p.name) = GoType(s, w)
          BY <3>3
        <5>3. Len(GoType(s, w)) = 3
          BY DEF GoType
        <5> QED BY <4>2, <5>1, <5>2, <5>3
      <4> QED BY <4>1, <4>2
    <3>5. ~IsConstant(s, p)
      BY <3>3 DEF IsConstant
    <3>6. Meant(s, p) = ConvertEnumPatternName(p.name)
      BY <3>4 DEF Meant
    <3>7. LabelMatches(Label(s, p), v) <=> ConvertEnumPatternName(p.name) = v.go
      BY <3>1 DEF LabelMatches
    <3>8. PatternMatches(s, p, v) <=> Meant(s, p) = v.go /\ TestsHold(p.tests, v)
      BY <1>4, <3>5 DEF PatternMatches, Named
    <3>9. p.tests = << >> => TestsHold(p.tests, v)
      BY DEF TestsHold
    <3> QED BY <3>3, <3>6, <3>7, <3>8, <3>9
  <2> QED BY <2>1, <2>2
<1> QED BY <1>1, <1>2, <1>3, <1>4

\* Of an arm with several patterns whose first binds nothing, none does.
LEMMA SeveralBindNothing ==
    ASSUME ArmsAgree, FoundIn(arms) = {}, NEW i \in DOMAIN arms, Len(arms[i].patterns) > 1,
           Range(arms[i].patterns[1].binds) = {}, NEW k \in DOMAIN arms[i].patterns
    PROVE  DOMAIN arms[i].patterns[k].binds = {}
<1> DEFINE s == scrutinee
           ps == arms[i].patterns
<1>1. /\ PatternOK(s, ps[k]) /\ DOMAIN ps = 1..Len(ps) /\ Len(ps) \in Nat
  BY ArmsParsed, PatternAt
<1>2. CASE s = NoScrutinee
  <2>1. ps[k].kind \in {"Default", "Guard"}
    BY <1>1, <1>2 DEF PatternOK, KindsFor
  <2>2. ps[k].binds = << >>
    BY <1>1, <2>1 DEF PatternOK
  <2> QED BY <2>2
<1>3. CASE s # NoScrutinee
  <2> DEFINE of(j) == CollectPatternBindings(s, ps[j])
             named == {j \in 2 .. Len(ps) : DOMAIN of(j) = DOMAIN of(1)}
  <2>1. ArmErrors(s, arms[i]) = {}
    BY DEF FoundIn
  <2>2. SeveralErrors(s, ps) = {}
    BY <1>3, <2>1 DEF ArmErrors
  <2>3. Emit("Bindings", named # 2 .. Len(ps)) = {}
    BY <2>2 DEF SeveralErrors
  <2>4. \A j : DOMAIN of(j) = Range(ps[j].binds)
    BY DEF CollectPatternBindings
  <2> HIDE DEF of
  <2>5. named = 2 .. Len(ps)
    BY <2>3 DEF Emit
  <2>6. k = 1 \/ k \in 2 .. Len(ps)
    BY <1>1
  <2>7. Range(ps[k].binds) = {}
    BY <2>4, <2>5, <2>6
  <2> QED BY <2>7 DEF Range
<1> QED BY <1>2, <1>3

\* The parts of a clause of a switch.
LEMMA SwitchClauseParts ==
    ASSUME MatchInv, phase \in {"emitted", "ran"}, Mode(scrutinee, arms) # "chain", NEW i \in DOMAIN arms
    PROVE  /\ out[i].head \in {"default", "case"} /\ out[i].body = arms[i].body /\ arms[i].body \in Bodies
           /\ out[i].head = "default" <=> Len(arms[i].patterns) = 1 /\ arms[i].patterns[1].kind = "Default"
           /\ out[i].head = "default" => out[i].labels = << >>
           /\ out[i].head = "case" =>
                out[i].labels = [k \in DOMAIN arms[i].patterns |-> Label(scrutinee, arms[i].patterns[k])]
           /\ out[i].binds = IF Len(arms[i].patterns) = 1 THEN arms[i].patterns[1].binds ELSE << >>
           /\ out[i].reads = Range(arms[i].patterns[1].binds)
           /\ Len(arms[i].patterns) = 1 \/ Len(arms[i].patterns) > 1
           /\ 1 \in DOMAIN arms[i].patterns
           /\ Len(arms[i].patterns) = 1 => DOMAIN arms[i].patterns = {1}
<1>1. out[i] = SwitchClause(scrutinee, arms[i])
  BY SwitchClauses
<1>2. /\ Len(arms[i].patterns) \in Nat \ {0} /\ DOMAIN arms[i].patterns = 1..Len(arms[i].patterns)
      /\ arms[i].body \in Bodies
  BY ArmsParsed DEF MatchInv
<1>3. /\ Len(arms[i].patterns) = 1 \/ Len(arms[i].patterns) > 1
      /\ 1 \in DOMAIN arms[i].patterns
      /\ Len(arms[i].patterns) = 1 => DOMAIN arms[i].patterns = {1}
  BY <1>2, OneOrMore, Zenon
<1> QED BY <1>1, <1>2, <1>3 DEF SwitchClause

\* Of a switch that runs, every label is one that Go knows, and it is taken by
\* the values that its pattern matches.
LEMMA RunningLabel ==
    ASSUME MatchInv, phase = "ran", Mode(scrutinee, arms) # "chain",
           ~KnownDetour(Mode(scrutinee, arms), value),
           NEW i \in DOMAIN arms, out[i].head = "case", NEW k \in DOMAIN arms[i].patterns
    PROVE  /\ arms[i].patterns[k].kind # "Default"
           /\ Mode(scrutinee, arms) = "type" => TypeLabelOK(scrutinee, Label(scrutinee, arms[i].patterns[k]))
           /\ LabelMatches(Label(scrutinee, arms[i].patterns[k]), value)
                <=> PatternMatches(scrutinee, arms[i].patterns[k], value)
<1> DEFINE s == scrutinee
           mode == Mode(s, arms)
           p == arms[i].patterns[k]
           l == Label(s, p)
<1>1. l \in LabelsOf(out)
  <2>1. out[i].labels = [h \in DOMAIN arms[i].patterns |-> Label(s, arms[i].patterns[h])]
    BY SwitchClauseParts
  <2>2. i \in DOMAIN out
    BY SwitchClauses
  <2>3. k \in DOMAIN out[i].labels /\ out[i].labels[k] = l
    BY <2>1
  <2>4. <<i, k>> \in LabelPlaces(out)
    BY <2>2, <2>3 DEF LabelPlaces
  <2>5. LabelAt(out, <<i, k>>) = l
    BY <2>3 DEF LabelAt
  <2> QED BY <2>4, <2>5 DEF LabelsOf
<1>2. p \in PatternsOf(arms) /\ PatternOK(s, p)
  BY PatternAt DEF MatchInv
<1>3. mode \in {"type", "value"} /\ GoAccepts /\ value \in ValuesOf(s)
  BY ModeIs DEF MatchInv
<1>4. CASE mode = "value"
  <2>1. ValueSwitchOK(s, out)
    BY <1>3, <1>4 DEF GoAccepts
  <2>2. Comparable(s, l)
    BY <1>1, <2>1 DEF ValueSwitchOK
  <2>3. p.kind # "Default"
    <3>1. p.kind = "Default" => l.kind = "nothing"
      BY DEF Label
    <3> QED BY <2>2, <3>1 DEF Comparable
  <2> QED BY <1>2, <1>3, <1>4, <2>2, <2>3, LabelMeansPattern
<1>5. CASE mode = "type"
  <2>1. TypeSwitchOK(s, out, NeedsBinding(arms))
    BY <1>3, <1>5 DEF GoAccepts
  <2>2. TypeLabelOK(s, l) /\ IsSoppoEnumType(s)
    BY <1>1, <2>1 DEF TypeSwitchOK
  <2>3. p.kind # "Default"
    <3>1. p.kind = "Default" => l.kind = "nothing"
      BY DEF Label
    <3> QED BY <2>2, <3>1 DEF TypeLabelOK
  <2>4. s # NoScrutinee
    BY <1>5, ModeIs DEF IsTypeSwitch
  <2>5. p.tests = << >> \/ Meant(s, p) # value.go
    BY <1>2, <1>5 DEF KnownDetour
  <2> QED BY <1>2, <1>3, <1>5, <2>2, <2>3, <2>4, <2>5, LabelMeansPattern
<1> QED BY <1>3, <1>4, <1>5

LEMMA SwitchTaken ==
    ASSUME MatchInv, phase = "ran", Mode(scrutinee, arms) # "chain",
           ~KnownDetour(Mode(scrutinee, arms), value)
    PROVE  /\ ClausesTaken(Mode(scrutinee, arms), out, value) = ArmsMatching(value)
           /\ ClausesElse(out) = DefaultArms
<1> DEFINE s == scrutinee
<1>1. DOMAIN out = DOMAIN arms
  BY SwitchClauses
<1>2. ASSUME NEW i \in DOMAIN arms
      PROVE  /\ (out[i].head = "case" /\ \E l \in Range(out[i].labels) : LabelMatches(l, value))
                  <=> PatternsMatching(i, value) # {}
             /\ out[i].head = "default" <=> HasDefault(<<arms[i]>>)
             /\ out[i].head \in {"default", "case"}
  <2> DEFINE ps == arms[i].patterns
  <2>1. /\ out[i].head \in {"default", "case"} /\ 1 \in DOMAIN ps
        /\ out[i].head = "default" => DOMAIN ps = {1} /\ ps[1].kind = "Default"
    BY <1>2, SwitchClauseParts
  <2>2. HasDefault(<<arms[i]>>) <=> \E k \in DOMAIN ps : ps[k].kind = "Default"
    BY <1>2, DefaultAlone DEF MatchInv
  <2>3. CASE out[i].head = "default"
    <3>1. ~PatternMatches(s, ps[1], value)
      BY <2>1, <2>3 DEF PatternMatches, IsConstant, Named
    <3>2. PatternsMatching(i, value) = {}
      BY <2>1, <2>3, <3>1 DEF PatternsMatching
    <3> QED BY <2>1, <2>2, <2>3, <3>2
  <2>4. CASE out[i].head = "case"
    <3>1. \A k \in DOMAIN ps :
            /\ ps[k].kind # "Default"
            /\ LabelMatches(Label(s, ps[k]), value) <=> PatternMatches(s, ps[k], value)
      BY <1>2, <2>4, RunningLabel
    <3>2. out[i].labels = [k \in DOMAIN ps |-> Label(s, ps[k])]
      BY <1>2, <2>4, SwitchClauseParts
    <3>3. Range(out[i].labels) = {Label(s, ps[k]) : k \in DOMAIN ps}
      BY <3>2 DEF Range
    <3>4. PatternsMatching(i, value) # {} <=> \E k \in DOMAIN ps : PatternMatches(s, ps[k], value)
      BY DEF PatternsMatching
    <3>5. ~HasDefault(<<arms[i]>>)
      BY <2>2, <3>1
    <3> QED BY <2>4, <3>1, <3>3, <3>4, <3>5
  <2> QED BY <2>1, <2>3, <2>4
<1>3. ClausesTaken(Mode(s, arms), out, value)
        = {i \in DOMAIN arms : out[i].head = "case" /\ \E l \in Range(out[i].labels) : LabelMatches(l, value)}
  BY <1>1 DEF ClausesTaken, Heads
<1>4. ClausesElse(out) = {i \in DOMAIN arms : out[i].head \in {"default", "else", "block"}}
  BY <1>1 DEF ClausesElse, Heads
<1> QED BY <1>2, <1>3, <1>4 DEF ArmsMatching, DefaultArms

LEMMA SwitchBinds ==
    ASSUME MatchInv, phase = "ran", Mode(scrutinee, arms) # "chain", NEW i \in DOMAIN arms
    PROVE  /\ i \in ArmsMatching(value) =>
                Bound(out[i].binds, value)
                  = Bound(arms[i].patterns[First(PatternsMatching(i, value))].binds, value)
           /\ out[i].head = "default" => Bound(out[i].binds, value) = {}
<1> DEFINE ps == arms[i].patterns
           pm == PatternsMatching(i, value)
<1>1. /\ out[i].head = "default" <=> Len(ps) = 1 /\ ps[1].kind = "Default"
      /\ out[i].binds = IF Len(ps) = 1 THEN ps[1].binds ELSE << >>
      /\ out[i].reads = Range(ps[1].binds)
      /\ Len(ps) = 1 \/ Len(ps) > 1
      /\ 1 \in DOMAIN ps /\ Len(ps) = 1 => DOMAIN ps = {1}
  BY SwitchClauseParts
<1>2. ASSUME i \in ArmsMatching(value)
      PROVE  Bound(out[i].binds, value) = Bound(ps[First(pm)].binds, value)
  <2>1. pm # {} /\ pm \subseteq DOMAIN ps
    BY <1>2 DEF ArmsMatching, PatternsMatching
  <2>2. CASE Len(ps) = 1
    <3>1. pm = {1}
      BY <1>1, <2>1, <2>2
    <3> HIDE DEF pm
    <3> QED BY <1>1, <2>2, <3>1, FirstOfOne
  <2>3. CASE Len(ps) > 1
    <3>1. First(pm) \in DOMAIN ps
      <4>1. DOMAIN ps \subseteq Nat
        BY ArmsParsed DEF MatchInv
      <4> HIDE DEF pm
      <4>2. pm \in SUBSET Nat
        BY <2>1, <4>1
      <4> QED BY <2>1, <4>2, FirstIsIn
    <3>2. Len(ps) # 1
      <4>1. Len(ps) \in Nat
        BY ArmsParsed DEF MatchInv
      <4>2. \A n \in Nat : n > 1 => n # 1
        OBVIOUS
      <4> QED BY <2>3, <4>1, <4>2, Zenon
    <3>3. out[i].binds = << >>
      BY <1>1, <3>2
    <3>4. Readable(Mode(scrutinee, arms), out)
      BY DEF MatchInv, GoAccepts
    <3>5. out[i].reads \subseteq Range(out[i].binds)
      BY <3>4, SwitchClauses DEF Readable
    <3>6. Range(ps[1].binds) = {}
      <4>1. Range(<< >>) = {}
        BY DEF Range
      <4> QED BY <1>1, <3>3, <3>5, <4>1
    <3>7. FoundIn(arms) = {}
      BY DEF MatchInv, ErrorsAgree
    <3>8. DOMAIN ps[First(pm)].binds = {}
      BY <2>3, <3>1, <3>6, <3>7, SeveralBindNothing DEF MatchInv
    <3>9. Bound(ps[First(pm)].binds, value) = {}
      BY <3>8, NothingBound
    <3>10. Bound(out[i].binds, value) = {}
      BY <3>3, NothingBound
    <3> QED BY <3>9, <3>10
  <2> QED BY <1>1, <2>2, <2>3
<1>3. ASSUME out[i].head = "default"
      PROVE  Bound(out[i].binds, value) = {}
  <2>1. PatternOK(scrutinee, ps[1])
    BY <1>1, PatternAt DEF MatchInv
  <2>2. ps[1].binds = << >>
    BY <1>1, <1>3, <2>1 DEF PatternOK
  <2>3. DOMAIN out[i].binds = {}
    BY <1>1, <1>3, <2>2
  <2> QED BY <2>3, NothingBound
<1> QED BY <1>2, <1>3

\* A switch ends as the body that ran, where the panic behind it is not reached.
LEMMA SwitchEnds ==
    ASSUME MatchInv, phase = "ran", Mode(scrutinee, arms) # "chain",
           ~KnownDetour(Mode(scrutinee, arms), value), NEW i \in DOMAIN arms, i \in Outcome(value).ran
    PROVE  EndOf(Mode(scrutinee, arms), out[i].body) = BodyEnds(arms[i].body)
<1>1. out[i].body = arms[i].body /\ arms[i].body \in Bodies
  BY SwitchClauseParts
<1>2. panics => Mode(scrutinee, arms) = "type" /\ CheckStmtDiverges(arms[i].body)
  BY DEF MatchInv, ClausesAgree, AllArmsDiverge
<1>3. outcome = Outcome(value)
  BY DEF MatchInv
<1>4. ~(panics /\ arms[i].body = "breaks")
  BY <1>2, <1>3 DEF KnownDetour
<1>5. arms[i].body \in {"falls", "breaks"} => ~panics
  BY <1>2, <1>4 DEF CheckStmtDiverges
<1> HIDE DEF Bodies
<1> QED BY <1>1, <1>5 DEF EndOf, BodyEnds, Bodies

\* A value of a type switch that no arm has does not run into the panic.
LEMMA SwitchFallsThrough ==
    ASSUME MatchInv, phase = "ran", Mode(scrutinee, arms) # "chain",
           ~KnownDetour(Mode(scrutinee, arms), value), Outcome(value).ran = {}
    PROVE  EndOf(Mode(scrutinee, arms), "falls") = "goes on"
<1> DEFINE s == scrutinee
           mode == Mode(s, arms)
<1>1. SUFFICES ASSUME panics PROVE FALSE
  BY DEF EndOf
<1>2. mode = "type" /\ DOMAIN out = DOMAIN arms
  BY <1>1, SwitchClauses DEF MatchInv, ClausesAgree
<1>3. \A i \in DOMAIN out : out[i].head # "none"
  BY <1>2, SwitchClauseParts
<1>4. /\ ClausesTaken(mode, out, value) = {} /\ ClausesElse(out) = {}
      /\ Outcome(value).ends = EndOf(mode, "falls")
  BY <1>3, OutcomeIs
<1>5. Outcome(value).ends = "unreachable"
  BY <1>1, <1>2, <1>4 DEF EndOf
<1>6. s.module = Current /\ value.go # Nil
  <2>1. outcome.ends = "unreachable"
    BY <1>5 DEF MatchInv
  <2> QED BY <1>2, <2>1 DEF KnownDetour
<1>7. ArmsMatching(value) = {} /\ DefaultArms = {}
  BY <1>4, SwitchTaken
<1>8. IsSoppoEnumType(s) /\ s # NoScrutinee /\ ~IsStruct(s)
  <2>1. IsSoppoEnumType(s)
    BY <1>2 DEF MatchInv, GoAccepts, TypeSwitchOK
  <2>2. s # NoScrutinee
    BY <1>2, ModeIs DEF IsTypeSwitch
  <2> QED BY <2>1, <2>2, StructIsNoEnum
<1>9. PICK w \in DOMAIN VariantsOf(s) : value.go = GoType(s, w)
  <2>1. value \in ValuesOf(s)
    BY DEF MatchInv
  <2> QED BY <1>6, <1>8, <2>1 DEF ValuesOf
<1>10. Missing(s, arms) = {}
  BY DEF MatchInv, ErrorsAgree
<1>11. ~HasDefault(arms)
  <2>1. \A i \in DOMAIN arms : ~HasDefault(<<arms[i]>>)
    BY <1>7 DEF DefaultArms
  <2>2. \A i \in DOMAIN arms : \A p \in Range(arms[i].patterns) : p.kind # "Default"
    BY <2>1, PatternsOfOne DEF HasDefault
  <2> QED BY <2>2 DEF HasDefault, PatternsOf
<1>12. w \in Covered(arms)
  BY <1>6, <1>8, <1>9, <1>10, <1>11 DEF Missing, IsSoppoEnumType, VariantsOf
<1>13. PICK i \in DOMAIN arms : \E k \in DOMAIN arms[i].patterns :
         arms[i].patterns[k].kind \in Named /\ Last(arms[i].patterns[k].name) = w
  BY <1>12 DEF Covered, PatternsOf, Range
<1>14. PICK k \in DOMAIN arms[i].patterns :
         arms[i].patterns[k].kind \in Named /\ Last(arms[i].patterns[k].name) = w
  BY <1>13
<1> DEFINE p == arms[i].patterns[k]
<1>15. out[i].head = "case"
  <2>1. ~HasDefault(<<arms[i]>>)
    BY <1>7, <1>14 DEF DefaultArms
  <2>2. \A h \in DOMAIN arms[i].patterns : arms[i].patterns[h].kind # "Default"
    BY <1>14, <2>1, DefaultAlone DEF MatchInv
  <2> QED BY <1>14, <2>2, SwitchClauseParts
<1>16. TypeLabelOK(s, Label(s, p)) /\ (LabelMatches(Label(s, p), value) <=> PatternMatches(s, p, value))
  BY <1>2, <1>14, <1>15, RunningLabel
<1>17. Label(s, p) = [kind |-> "type", name |-> ConvertEnumPatternName(p.name)]
  BY <1>8, <1>14 DEF Label, Named
<1>18. PICK u \in DOMAIN VariantsOf(s) : ConvertEnumPatternName(p.name) = GoType(s, u)
  BY <1>16, <1>17 DEF TypeLabelOK
<1>19. p.name \in Seq(STRING) /\ p.name # << >>
  <2>1. PatternOK(s, p)
    BY <1>14, PatternAt DEF MatchInv
  <2>2. p.kind # "Default"
    BY <1>14 DEF Named
  <2> QED BY <2>1, <2>2 DEF PatternOK
<1>20. Last(p.name) = u
  <2>1. Len(p.name) # 1
    <3>1. Len(p.name) = 1 => ConvertEnumPatternName(p.name) = p.name
      BY <1>19, ConvertedName
    <3>2. Len(GoType(s, u)) = 3
      BY DEF GoType
    <3> QED BY <1>18, <3>1, <3>2
  <2>2. Len(p.name) > 1
    <3>1. Len(p.name) \in Nat \ {0}
      BY <1>19
    <3> QED BY <2>1, <3>1, OneOrMore, Zenon
  <2> QED BY <1>18, <1>19, <2>2, ConvertedLast
<1>21. LabelMatches(Label(s, p), value)
  BY <1>9, <1>14, <1>17, <1>18, <1>20 DEF LabelMatches
<1>22. i \in ArmsMatching(value)
  BY <1>14, <1>16, <1>21 DEF ArmsMatching, PatternsMatching
<1> QED BY <1>7, <1>22

LEMMA SwitchAgrees ==
    ASSUME MatchInv, phase = "ran", Mode(scrutinee, arms) # "chain",
           ~KnownDetour(Mode(scrutinee, arms), value)
    PROVE  ClausesAgreeOn(value)
<1>1. DOMAIN out = DOMAIN arms
  BY SwitchClauses
<1>2. \A i \in DOMAIN out : out[i].head # "none"
  BY <1>1, SwitchClauseParts
<1>3. /\ ClausesTaken(Mode(scrutinee, arms), out, value) = ArmsMatching(value)
      /\ ClausesElse(out) = DefaultArms
  BY SwitchTaken
<1>4. \A i \in ArmsMatching(value) :
        Bound(out[i].binds, value) = Bound(arms[i].patterns[First(PatternsMatching(i, value))].binds, value)
  BY SwitchBinds DEF ArmsMatching
<1>5. ASSUME NEW i \in DefaultArms
      PROVE  Bound(out[i].binds, value) = {}
  <2>1. i \in DOMAIN arms /\ out[i].head \in {"default", "else", "block"}
    BY <1>1, <1>3, <1>5 DEF ClausesElse, Heads
  <2>2. out[i].head = "default"
    BY <2>1, SwitchClauseParts
  <2> QED BY <2>1, <2>2, SwitchBinds
<1>6. \A i \in DOMAIN arms : i \in Outcome(value).ran =>
        EndOf(Mode(scrutinee, arms), out[i].body) = BodyEnds(arms[i].body)
  BY SwitchEnds
<1>7. Outcome(value).ran = {} => EndOf(Mode(scrutinee, arms), "falls") = "goes on"
  BY SwitchFallsThrough
<1> QED BY <1>2, <1>3, <1>4, <1>5, <1>6, <1>7 DEF ClausesAgreeOn

\* The arms of a chain that runs have one pattern each, of the struct or the
\* default.
LEMMA ChainArm ==
    ASSUME MatchInv, phase = "ran", Mode(scrutinee, arms) = "chain",
           ~KnownDetour("chain", value), NEW i \in DOMAIN arms
    PROVE  /\ DOMAIN arms[i].patterns = {1}
           /\ out[i].body = arms[i].body /\ arms[i].body \in Bodies
           /\ out[i].binds = arms[i].patterns[1].binds
           /\ \/ /\ HasDefault(<<arms[i]>>) /\ PatternsMatching(i, value) = {}
                 /\ out[i].head \in {"block", "else"} /\ DOMAIN out[i].binds = {}
              \/ /\ ~HasDefault(<<arms[i]>>) /\ out[i].head = "if"
                 /\ TestsHold(out[i].tests, value) <=> PatternsMatching(i, value) = {1}
                 /\ ~TestsHold(out[i].tests, value) <=> PatternsMatching(i, value) = {}
<1> DEFINE s == scrutinee
           ps == arms[i].patterns
           p == ps[1]
<1>1. AllWellNamed /\ ~(Len(ps) > 1)
  BY DEF KnownDetour
<1>2. Len(ps) \in Nat \ {0} /\ DOMAIN ps = 1..Len(ps) /\ arms[i].body \in Bodies
  BY ArmsParsed DEF MatchInv
<1>3. DOMAIN ps = {1}
  BY <1>1, <1>2, OneOrMore, Zenon
<1>4. out[i] = ChainClause(i, arms[i])
  BY ChainClauses
<1>5. p \in PatternsOf(arms) /\ PatternOK(s, p)
  BY <1>3, PatternAt DEF MatchInv
<1>6. IsStruct(s) /\ s # NoScrutinee
  BY <1>1, ChainPatterns DEF MatchInv
<1>7. HasDefault(<<arms[i]>>) <=> p.kind = "Default"
  BY <1>3, DefaultAlone DEF MatchInv
<1>8. value.go = GoStruct(s)
  <2>1. value \in ValuesOf(s)
    BY DEF MatchInv
  <2> QED BY <1>6, <2>1 DEF ValuesOf
<1>9. CASE p.kind = "Default"
  <2>1. p.binds = << >> /\ DOMAIN p.binds = {}
    BY <1>5, <1>9 DEF PatternOK
  <2>2. out[i].head \in {"block", "else"} /\ out[i].binds = << >> /\ out[i].body = arms[i].body
    BY <1>3, <1>4, <1>9 DEF ChainClause
  <2>3. ~PatternMatches(s, p, value)
    BY <1>9 DEF PatternMatches, IsConstant, Named
  <2>4. PatternsMatching(i, value) = {}
    BY <1>3, <2>3 DEF PatternsMatching
  <2> QED BY <1>2, <1>3, <1>7, <1>9, <2>1, <2>2, <2>4
<1>10. CASE p.kind # "Default"
  <2>1. p.kind = "StructDestructor" /\ Meant(s, p) = GoStruct(s)
    BY <1>1, <1>5, <1>10, ChainPatterns DEF MatchInv
  <2>2. /\ out[i].head = "if" /\ out[i].binds = p.binds /\ out[i].body = arms[i].body
        /\ out[i].tests = p.tests
    BY <1>3, <1>4, <1>10, <2>1 DEF ChainClause
  <2>3. PatternMatches(s, p, value) <=> TestsHold(p.tests, value)
    BY <1>8, <2>1 DEF PatternMatches, IsConstant, Named
  <2>4. PatternsMatching(i, value) = IF TestsHold(p.tests, value) THEN {1} ELSE {}
    BY <1>3, <2>3 DEF PatternsMatching
  <2> QED BY <1>2, <1>3, <1>7, <1>10, <2>2, <2>4
<1> QED BY <1>9, <1>10

LEMMA ChainAgrees ==
    ASSUME MatchInv, phase = "ran", Mode(scrutinee, arms) = "chain", ~KnownDetour("chain", value)
    PROVE  ClausesAgreeOn(value)
<1>1. DOMAIN out = DOMAIN arms
  BY ChainClauses
<1>2. \A i \in DOMAIN out : out[i].head # "none"
  BY <1>1, ChainArm
<1>3. ClausesTaken("chain", out, value) = ArmsMatching(value)
  <2>1. ClausesTaken("chain", out, value)
          = {i \in DOMAIN arms : out[i].head = "if" /\ TestsHold(out[i].tests, value)}
    BY <1>1 DEF ClausesTaken, Heads
  <2>2. ASSUME NEW i \in DOMAIN arms
        PROVE  (out[i].head = "if" /\ TestsHold(out[i].tests, value)) <=> PatternsMatching(i, value) # {}
    BY <2>2, ChainArm
  <2> QED BY <2>1, <2>2 DEF ArmsMatching
<1>4. ClausesElse(out) = DefaultArms
  <2>1. ClausesElse(out) = {i \in DOMAIN arms : out[i].head \in {"default", "else", "block"}}
    BY <1>1 DEF ClausesElse, Heads
  <2>2. ASSUME NEW i \in DOMAIN arms
        PROVE  out[i].head \in {"default", "else", "block"} <=> HasDefault(<<arms[i]>>)
    BY <2>2, ChainArm
  <2> QED BY <2>1, <2>2 DEF DefaultArms
<1>5. ASSUME NEW i \in ArmsMatching(value)
      PROVE  Bound(out[i].binds, value)
               = Bound(arms[i].patterns[First(PatternsMatching(i, value))].binds, value)
  <2>1. i \in DOMAIN arms /\ PatternsMatching(i, value) # {}
    BY <1>5 DEF ArmsMatching
  <2>2. PatternsMatching(i, value) = {1} /\ out[i].binds = arms[i].patterns[1].binds
    BY <2>1, ChainArm
  <2> QED BY <2>2, FirstOfOne
<1>6. ASSUME NEW i \in DefaultArms
      PROVE  Bound(out[i].binds, value) = {}
  <2>1. i \in DOMAIN arms /\ HasDefault(<<arms[i]>>)
    BY <1>6 DEF DefaultArms
  <2>2. DOMAIN out[i].binds = {}
    BY <2>1, ChainArm
  <2> QED BY <2>2, NothingBound
<1>7. ~panics
  BY DEF MatchInv, ClausesAgree
<1>8. ASSUME NEW i \in DOMAIN arms, i \in Outcome(value).ran
      PROVE  EndOf("chain", out[i].body) = BodyEnds(arms[i].body)
  <2>1. Outcome(value).ends = EndOf("chain", out[i].body)
    BY <1>2, <1>8, OutcomeIs
  <2>2. EndOf("chain", out[i].body) # "leaves the loop"
    <3>1. outcome = Outcome(value)
      BY DEF MatchInv
    <3> QED BY <2>1, <3>1 DEF KnownDetour
  <2>3. out[i].body = arms[i].body /\ arms[i].body \in Bodies
    BY <1>8, ChainArm
  <2> QED BY <1>7, <2>2, <2>3 DEF EndOf, BodyEnds, Bodies
<1>9. EndOf("chain", "falls") = "goes on"
  BY <1>7 DEF EndOf
<1> QED BY <1>2, <1>3, <1>4, <1>5, <1>6, <1>8, <1>9 DEF ClausesAgreeOn

\* The running program enters the arm that the match means, with its variables
\* bound, and goes on as the arm says, except where the property says.
THEOREM WrittenArmHolds == Spec => []TheWrittenArmRuns
<1>1. MatchInv => TheWrittenArmRuns
  <2> DEFINE mode == Mode(scrutinee, arms)
  <2> SUFFICES ASSUME MatchInv, phase = "ran", ~KnownDetour(mode, value)
               PROVE  outcome = AsWritten(value)
    BY DEF TheWrittenArmRuns
  <2>1. ClausesAgreeOn(value)
    <3>1. CASE mode = "chain"
      BY <3>1, ChainAgrees
    <3>2. CASE mode # "chain"
      BY <3>2, SwitchAgrees
    <3> QED BY <3>1, <3>2
  <2>2. Outcome(value) = AsWritten(value)
    BY <2>1, SameOutcome
  <2> QED BY <2>2 DEF MatchInv
<1> QED BY <1>1, MatchInvariant, PTL
=============================================================================
