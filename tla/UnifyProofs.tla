----------------------------- MODULE UnifyProofs -----------------------------
(***************************************************************************)
(* Solutions never lead back to their variables, whatever the types are    *)
(* and in whatever order they are unified.                                 *)
(*                                                                         *)
(* The occurs check says that the variables reached from a type, the       *)
(* smallest closed set that holds its own, leave out the variable to be    *)
(* solved with it.  So a set that the new solution would tie into a knot   *)
(* meets those reached, all of them older and tied before, or it consists  *)
(* of others, and then the new variable is free in it.                     *)
(***************************************************************************)
EXTENDS Unify, Integers, TLAPS

-----------------------------------------------------------------------------
(* Types.                                                                  *)

LEMMA ShapeType ==
    ASSUME NEW t \in Types
    PROVE  /\ Shape[t].kind \in Kinds
           /\ Shape[t].args \in Seq(Types) /\ Parts(t) \in Seq(Types)
           /\ VarsIn[t] \in SUBSET Vars
           /\ Shape[t].kind = "alias" => Shape[t].args[1] \in Types
BY ShapeAssumption, VarsInAssumption DEF Constructor, Parts

LEMMA VarType ==
    ASSUME NEW v \in Vars
    PROVE  v \in Types /\ Shape[v].kind = "var" /\ VarsIn[v] = {v}
BY ShapeAssumption, VarsInAssumption

LEMMA ReplaceType ==
    ASSUME UnifyTypeOK, NEW t \in Types
    PROVE  Replace(t) \in Types
BY ShapeType DEF UnifyTypeOK, Replace, Bound

LEMMA FrontPair ==
    ASSUME UnifyTypeOK, work # <<>>
    PROVE  Left \in Types /\ Right \in Types /\ Tail(work) \in Seq(Pairs)
BY DEF UnifyTypeOK, Left, Right, Pairs

\* The pairs of parts that Descend puts in front are pairs of types.
LEMMA ZipType ==
    ASSUME NEW s \in Seq(Types), NEW r \in Seq(Types)
    PROVE  Zip(s, r) \in Seq(Pairs)
<1>1. CASE Len(s) < Len(r)
  <2>1. Zip(s, r) = [i \in 1..Len(s) |-> <<s[i], r[i]>>]  BY <1>1 DEF Zip
  <2>2. \A i \in 1..Len(s) : <<s[i], r[i]>> \in Pairs  BY <1>1 DEF Pairs
  <2>3. Len(s) \in Nat  OBVIOUS
  <2> HIDE DEF Pairs
  <2> QED  BY <2>1, <2>2, <2>3
<1>2. CASE ~(Len(s) < Len(r))
  <2>1. Zip(s, r) = [i \in 1..Len(r) |-> <<s[i], r[i]>>]  BY <1>2 DEF Zip
  <2>2. \A i \in 1..Len(r) : <<s[i], r[i]>> \in Pairs  BY <1>2 DEF Pairs
  <2>3. Len(r) \in Nat  OBVIOUS
  <2> HIDE DEF Pairs
  <2> QED  BY <2>1, <2>2, <2>3
<1> QED  BY <1>1, <1>2

LEMMA ParamsType ==
    ASSUME NEW t \in Types, Shape[t].kind = "func"
    PROVE  /\ Params(t) \in Seq(Types) /\ Len(Params(t)) = Len(Parts(t)) - 1
           /\ Result(t) \in Types
<1>1. /\ Parts(t) \in Seq(Types) /\ Len(Parts(t)) > 0 /\ Len(Parts(t)) \in Nat
  BY ShapeType, ShapeAssumption DEF Parts
<1>2. Result(t) \in Types  BY <1>1 DEF Result
<1> DEFINE n == Len(Parts(t)) - 1
<1>3. n \in Nat /\ n <= Len(Parts(t))  BY <1>1
<1>4. Params(t) = [i \in 1..n |-> Parts(t)[i]]  BY <1>1, <1>3 DEF Params
<1>5. \A i \in 1..n : Parts(t)[i] \in Types  BY <1>1, <1>3
<1> HIDE DEF n
<1>6. Params(t) \in Seq(Types) /\ Len(Params(t)) = n  BY <1>3, <1>4, <1>5
<1> QED  BY <1>2, <1>6 DEF n

LEMMA PairsOfType ==
    ASSUME NEW t \in Types, NEW u \in Types, Fits(t, u)
    PROVE  PairsOf(t, u) \in Seq(Pairs)
<1>1. CASE Shape[t].kind = "con"
  BY <1>1, ShapeType, ZipType DEF PairsOf
<1>2. CASE Shape[t].kind # "con"
  <2>1. Shape[t].kind = "func" /\ Shape[u].kind = "func" /\ ParamsFit(t, u)
    BY <1>2 DEF Fits
  <2>2. /\ Params(t) \in Seq(Types) /\ Params(u) \in Seq(Types)
        /\ Result(t) \in Types /\ Result(u) \in Types
    BY <2>1, ParamsType
  <2>3. ASSUME NEW i \in 1..Len(Params(u))
        PROVE  <<Expected(t, i), Params(u)[i]>> \in Pairs
    <3>1. Params(u)[i] \in Types  BY <2>2
    <3>2. CASE i <= Fixed(t)
      <4>1. i \in 1..Len(Params(t))
        <5>1. Len(Params(t)) \in Nat /\ i \in Nat /\ i >= 1  BY <2>2
        <5>2. Fixed(t) <= Len(Params(t))  BY <5>1 DEF Fixed
        <5>3. Fixed(t) \in Int  BY <5>1 DEF Fixed
        <5> QED  BY <5>1, <5>2, <5>3, <3>2
      <4> QED  BY <4>1, <3>1, <3>2, <2>2 DEF Expected, Pairs
    <3>3. CASE ~(i <= Fixed(t))
      <4>1. Variadic(t)
        <5>1. ASSUME ~Variadic(t)  PROVE FALSE
          <6>1. Len(Params(u)) = Fixed(t)  BY <2>1, <5>1 DEF ParamsFit
          <6> QED  BY <6>1, <3>3
        <5> QED  BY <5>1
      <4> DEFINE last == Params(t)[Len(Params(t))]
      <4>2. last \in Types /\ Class(last) = "variadic"  BY <4>1, <2>2 DEF Variadic
      <4>3. Parts(last) \in Seq(Types) /\ Len(Parts(last)) = 1
        BY <4>2, ShapeType, ShapeAssumption DEF Parts
      <4>4. Parts(last)[1] \in Types  BY <4>3
      <4> QED  BY <4>4, <3>1, <3>3 DEF Expected, Pairs
    <3> QED  BY <3>2, <3>3
  <2> DEFINE front == [i \in 1..Len(Params(u)) |-> <<Expected(t, i), Params(u)[i]>>]
  <2>4. front \in Seq(Pairs)
    <3>1. Len(Params(u)) \in Nat  BY <2>2
    <3> HIDE DEF Pairs
    <3> QED  BY <2>3, <3>1
  <2>5. <<<<Result(t), Result(u)>>>> \in Seq(Pairs)  BY <2>2 DEF Pairs
  <2>6. PairsOf(t, u) = front \o <<<<Result(t), Result(u)>>>>  BY <1>2 DEF PairsOf
  <2> HIDE DEF front
  <2> QED  BY <2>4, <2>5, <2>6
<1> QED  BY <1>1, <1>2

-----------------------------------------------------------------------------
(* Each action keeps the types.                                            *)

\* A variable to be solved is none that is solved, and not reached from the
\* type that it is solved with.
LEMMA SolveFacts ==
    ASSUME UnifyTypeOK
    PROVE  /\ Looks("left") => Left \in Vars /\ ~Occurs(Left, Right)
           /\ Looks("right") => Right \in Vars /\ ~Occurs(Right, Left)
           /\ Looks("parts") => Fits(Left, Right)
BY DEF Looks, Meet

LEMMA TypesInit == UnifyInit => UnifyTypeOK
BY MaxCallsAssumption DEF UnifyInit, UnifyTypeOK

LEMMA TypesStep == UnifyTypeOK /\ [UnifyNext]_vars => UnifyTypeOK'
<1> SUFFICES ASSUME UnifyTypeOK, [UnifyNext]_vars  PROVE UnifyTypeOK'
  OBVIOUS
<1>1. ASSUME NEW c \in Asked, Call(c)  PROVE UnifyTypeOK'
  <2>1. c \in Pairs  BY AskedAssumption DEF Pairs
  <2>2. work' \in Seq(Pairs) /\ goal' \in Pairs  BY <1>1, <2>1 DEF Call
  <2>3. calls' \in 0..MaxCalls  BY <1>1, MaxCallsAssumption DEF Call, UnifyTypeOK
  <2> QED  BY <1>1, <2>2, <2>3 DEF Call, UnifyTypeOK
<1>2. CASE Follow
  <2>1. work # <<>>  BY <1>2 DEF Follow
  <2>2. <<Replace(Left), Replace(Right)>> \in Pairs
    BY <2>1, FrontPair, ReplaceType DEF Pairs
  <2>3. Tail(work) \in Seq(Pairs)  BY <2>1, FrontPair
  <2> DEFINE front == <<Replace(Left), Replace(Right)>>
  <2> HIDE DEF front
  <2>4. <<front>> \o Tail(work) \in Seq(Pairs)  BY <2>2, <2>3 DEF front
  <2>5. work' \in Seq(Pairs)  BY <1>2, <2>4 DEF Follow, front
  <2> QED  BY <1>2, <2>1, <2>5 DEF Follow, Rest, UnifyTypeOK
<1>3. CASE Agree
  <2>1. work # <<>>  BY <1>3 DEF Agree, Looks
  <2>2. /\ Tail(work) \in Seq(Pairs) /\ <<Left, Right>> \in Pairs
    BY <2>1, FrontPair DEF Pairs
  <2>3. waved' \subseteq Pairs  BY <1>3, <2>2 DEF Agree, UnifyTypeOK
  <2> QED  BY <1>3, <2>1, <2>2, <2>3 DEF Agree, Rest, UnifyTypeOK
<1>4. CASE Solve
  <2>1. work # <<>>  BY <1>4 DEF Solve, Looks
  <2>2. Tail(work) \in Seq(Pairs) /\ Left \in Types /\ Right \in Types
    BY <2>1, FrontPair
  <2>3. subst' \in [Vars -> Types \cup {Unbound}]
    BY <1>4, <2>2 DEF Solve, UnifyTypeOK
  <2> QED  BY <1>4, <2>1, <2>2, <2>3 DEF Solve, Rest, UnifyTypeOK
<1>5. CASE Descend
  <2>1. work # <<>> /\ Fits(Left, Right)  BY <1>5, SolveFacts DEF Descend, Looks
  <2>2. /\ Tail(work) \in Seq(Pairs) /\ <<Left, Right>> \in Pairs
        /\ PairsOf(Left, Right) \in Seq(Pairs)
    BY <2>1, FrontPair, PairsOfType DEF Pairs
  <2>3. work' \in Seq(Pairs)  BY <1>5, <2>2 DEF Descend
  <2>4. waved' \subseteq Pairs  BY <1>5, <2>2 DEF Descend, UnifyTypeOK
  <2> QED  BY <1>5, <2>1, <2>3, <2>4 DEF Descend, Rest, UnifyTypeOK
<1>6. CASE Clash
  BY <1>6 DEF Clash, Rest, UnifyTypeOK
<1>7. CASE Return
  BY <1>7 DEF Return, UnifyTypeOK
<1>8. CASE UNCHANGED vars
  BY <1>8 DEF vars, UnifyTypeOK
<1> QED  BY <1>1, <1>2, <1>3, <1>4, <1>5, <1>6, <1>7, <1>8 DEF UnifyNext, Visit

\* In every state the variables have the types that UnifyTypeOK says: only
\* pairs of types are ever visited, and nothing is left to visit once unify
\* is back.
THEOREM UnifyTypeCorrect == UnifySpec => []UnifyTypeOK
<1> QED  BY TypesInit, TypesStep, PTL DEF UnifySpec

-----------------------------------------------------------------------------
(* Solving.                                                                *)

\* One more solution, of a variable that the occurs check does not find.
LEMMA OneMoreSolution ==
    ASSUME UnifyTypeOK, SubstitutionEnds, NEW v \in Vars, NEW t \in Types,
           ~Occurs(v, t), v \notin Bound, subst' = [subst EXCEPT ![v] = t]
    PROVE  SubstitutionEnds'
<1>1. PICK D \in SUBSET Vars : VarsIn[t] \subseteq D /\ Closed(D) /\ v \notin D
  BY DEF Occurs
<1>2. \A w \in Vars : w # v => subst'[w] = subst[w]
  BY DEF UnifyTypeOK
<1>3. subst'[v] = t /\ Bound' \subseteq Bound \cup {v}
  BY <1>2 DEF UnifyTypeOK, Bound
<1> SUFFICES ASSUME NEW C \in SUBSET Bound', C # {}
             PROVE  \E w \in C : VarsIn[subst'[w]] \cap C = {}
  BY DEF SubstitutionEnds
<1>4. CASE v \notin C
  <2>1. C \in SUBSET Bound  BY <1>3, <1>4
  <2>2. PICK w \in C : VarsIn[subst[w]] \cap C = {}
    BY <2>1 DEF SubstitutionEnds
  <2>3. subst'[w] = subst[w]  BY <1>2, <1>4, <2>1 DEF Bound
  <2> QED  BY <2>2, <2>3
<1>5. CASE C \cap D # {}
  <2>1. C \cap D \in SUBSET Bound  BY <1>1, <1>3
  <2>2. PICK w \in C \cap D : VarsIn[subst[w]] \cap (C \cap D) = {}
    BY <2>1, <1>5 DEF SubstitutionEnds
  <2>3. VarsIn[subst[w]] \subseteq D  BY <1>1, <2>1 DEF Closed
  <2>4. subst'[w] = subst[w]  BY <1>1, <1>2
  <2> QED  BY <2>2, <2>3, <2>4
<1>6. CASE v \in C /\ C \cap D = {}
  <2>1. VarsIn[subst'[v]] \cap C = {}  BY <1>1, <1>3, <1>6
  <2> QED  BY <2>1, <1>6
<1> QED  BY <1>4, <1>5, <1>6

LEMMA EndsInit == UnifyInit => SubstitutionEnds
BY DEF UnifyInit, SubstitutionEnds, Bound

\* The solutions are what they were, but for the one that Solve adds.
LEMMA SolveStep ==
    ASSUME UnifyTypeOK, SubstitutionEnds, Solve
    PROVE  \E v \in Vars \ Bound, t \in Types :
              ~Occurs(v, t) /\ subst' = [subst EXCEPT ![v] = t]
<1>1. work # <<>> /\ Rooted  BY DEF Solve, Looks
<1>2. Left \in Types /\ Right \in Types  BY <1>1, FrontPair
<1>3. Left \notin Bound /\ Right \notin Bound  BY <1>1 DEF Rooted, Root
<1> QED  BY <1>2, <1>3, SolveFacts DEF Solve

LEMMA OtherSteps ==
    ASSUME [UnifyNext]_vars, ~Solve
    PROVE  subst' = subst
BY DEF UnifyNext, Visit, Call, Follow, Agree, Descend, Clash, Return, vars

LEMMA EndsStep ==
    UnifyTypeOK /\ SubstitutionEnds /\ [UnifyNext]_vars => SubstitutionEnds'
<1> SUFFICES ASSUME UnifyTypeOK, SubstitutionEnds, [UnifyNext]_vars
             PROVE  SubstitutionEnds'
  OBVIOUS
<1>1. CASE Solve
  <2>1. PICK v \in Vars \ Bound, t \in Types :
           ~Occurs(v, t) /\ subst' = [subst EXCEPT ![v] = t]
    BY <1>1, SolveStep
  <2> QED  BY <2>1, OneMoreSolution
<1>2. CASE ~Solve
  BY <1>2, OtherSteps DEF SubstitutionEnds, Bound
<1> QED  BY <1>1, <1>2

\* Whatever the types are and in whatever order they are unified, calls that
\* fail included, the solutions never lead in a circle: substitute and
\* bonk_type come to an end on every type.
THEOREM SolvingEnds == UnifySpec => []SubstitutionEnds
<1>1. UnifyInit => UnifyTypeOK /\ SubstitutionEnds
  BY TypesInit, EndsInit
<1>2. UnifyTypeOK /\ SubstitutionEnds /\ [UnifyNext]_vars
      => (UnifyTypeOK /\ SubstitutionEnds)'
  BY TypesStep, EndsStep
<1> QED  BY <1>1, <1>2, PTL DEF UnifySpec

\* No step gives a variable that is solved another solution: what the checker
\* has substituted once stays right.
THEOREM SolutionsAreFinal == UnifySpec => SolutionsStay
<1>1. UnifyTypeOK /\ SubstitutionEnds /\ [UnifyNext]_vars
      => [\A v \in Bound : subst'[v] = subst[v]]_vars
  <2> SUFFICES ASSUME UnifyTypeOK, SubstitutionEnds, [UnifyNext]_vars,
                      NEW v \in Bound
               PROVE  subst'[v] = subst[v]
    OBVIOUS
  <2>1. CASE Solve
    <3>1. PICK w \in Vars \ Bound, t \in Types : subst' = [subst EXCEPT ![w] = t]
      BY <2>1, SolveStep
    <3> QED  BY <3>1 DEF UnifyTypeOK, Bound
  <2>2. CASE ~Solve
    BY <2>2, OtherSteps
  <2> QED  BY <2>1, <2>2
<1> QED  BY <1>1, UnifyTypeCorrect, SolvingEnds, PTL DEF UnifySpec, SolutionsStay

-----------------------------------------------------------------------------
(* What was accepted still matches.  A set of pairs is explained by another*)
(* if each of its pairs matches as soon as the pairs of the other do.  What*)
(* a call has passed is explained by itself and by the pairs still to      *)
(* visit, so that nothing else is needed once there are none; and a        *)
(* variable that is solved later only adds to what stands for a pair.      *)

Holding(S) == [q \in Pairs |-> q \in S]
Explained(R, S) == \A p \in R : Match(p[1], p[2], Holding(S))

Visits == {work[i] : i \in DOMAIN work}

MatchInv ==
    /\ \E R \in SUBSET Pairs : agreed \subseteq R /\ Explained(R, R)
    /\ verdict = "running" =>
        \E R \in SUBSET Pairs : goal \in R \cup Visits /\ Explained(R, R \cup Visits)

\* All that is to be visited is a pair; the first is looked at, and the rest
\* stays to be visited.
LEMMA VisitFacts ==
    ASSUME UnifyTypeOK
    PROVE  /\ Visits \in SUBSET Pairs
           /\ work # <<>> => /\ Visits = {<<Left, Right>>} \cup {Tail(work)[i] : i \in DOMAIN Tail(work)}
                             /\ <<Left, Right>> \in Pairs
<1>1. work \in Seq(Pairs)
  BY DEF UnifyTypeOK
<1>2. Visits \in SUBSET Pairs
  BY <1>1 DEF Visits
<1>3. ASSUME work # <<>>
      PROVE  Visits = {work[1]} \cup {Tail(work)[i] : i \in DOMAIN Tail(work)}
  <2>1. Len(work) \in Nat \ {0} /\ Len(Tail(work)) = Len(work) - 1 /\ Tail(work) \in Seq(Pairs)
    BY <1>1, <1>3
  <2>2. \A i \in 1..Len(Tail(work)) : Tail(work)[i] = work[i + 1]
    BY <1>1, <1>3
  <2>3. DOMAIN work = 1..Len(work) /\ DOMAIN Tail(work) = 1..Len(Tail(work))
    BY <1>1, <2>1
  <2>4. \A i \in DOMAIN work : i = 1 \/ (i - 1 \in DOMAIN Tail(work) /\ Tail(work)[i - 1] = work[i])
    BY <2>1, <2>2, <2>3
  <2>5. 1 \in DOMAIN work /\ \A i \in DOMAIN Tail(work) : i + 1 \in DOMAIN work
    BY <2>1, <2>3
  <2> QED BY <2>2, <2>3, <2>4, <2>5 DEF Visits
<1>4. work # <<>> => work[1] = <<Left, Right>> /\ <<Left, Right>> \in Pairs
  BY <1>1, FrontPair DEF Pairs, Left, Right, UnifyTypeOK
<1> QED BY <1>2, <1>3, <1>4

\* What is put in front of a list is to be visited, and so is the list.
LEMMA FrontVisits ==
    ASSUME NEW s \in Seq(Pairs), NEW r \in Seq(Pairs)
    PROVE  {(s \o r)[i] : i \in DOMAIN (s \o r)}
              = {s[i] : i \in DOMAIN s} \cup {r[i] : i \in DOMAIN r}
<1>1. /\ s \o r \in Seq(Pairs) /\ Len(s) \in Nat /\ Len(r) \in Nat
      /\ Len(s \o r) = Len(s) + Len(r)
  OBVIOUS
<1>2. /\ DOMAIN s = 1..Len(s) /\ DOMAIN r = 1..Len(r)
      /\ DOMAIN (s \o r) = 1..(Len(s) + Len(r))
  BY <1>1
<1>3. \A i \in 1..(Len(s) + Len(r)) : (s \o r)[i] = IF i <= Len(s) THEN s[i] ELSE r[i - Len(s)]
  BY <1>1
<1>4. ASSUME NEW i \in DOMAIN (s \o r)
      PROVE  (s \o r)[i] \in {s[j] : j \in DOMAIN s} \cup {r[j] : j \in DOMAIN r}
  <2>1. CASE i <= Len(s)
    BY <1>1, <1>2, <1>3, <2>1
  <2>2. CASE ~(i <= Len(s))
    <3>1. i - Len(s) \in DOMAIN r /\ (s \o r)[i] = r[i - Len(s)]
      BY <1>1, <1>2, <1>3, <2>2
    <3> QED BY <3>1
  <2> QED BY <2>1, <2>2
<1>5. ASSUME NEW i \in DOMAIN s  PROVE i \in DOMAIN (s \o r) /\ (s \o r)[i] = s[i]
  BY <1>1, <1>2, <1>3
<1>6. ASSUME NEW i \in DOMAIN r
      PROVE  i + Len(s) \in DOMAIN (s \o r) /\ (s \o r)[i + Len(s)] = r[i]
  <2>1. i + Len(s) \in 1..(Len(s) + Len(r)) /\ ~(i + Len(s) <= Len(s))
    BY <1>1, <1>2
  <2>2. (i + Len(s)) - Len(s) = i
    BY <1>1, <1>2
  <2> QED BY <1>2, <1>3, <2>1, <2>2
<1> DEFINE whole == s \o r
<1>7. \A i \in DOMAIN whole : whole[i] \in {s[j] : j \in DOMAIN s} \cup {r[j] : j \in DOMAIN r}
  BY <1>4
<1>8. \A i \in DOMAIN s : s[i] \in {whole[j] : j \in DOMAIN whole}
  BY <1>5
<1>9. \A i \in DOMAIN r : r[i] \in {whole[j] : j \in DOMAIN whole}
  BY <1>6
<1> HIDE DEF whole
<1>10. {whole[i] : i \in DOMAIN whole} = {s[i] : i \in DOMAIN s} \cup {r[i] : i \in DOMAIN r}
  BY <1>7, <1>8, <1>9
<1> QED BY <1>10 DEF whole

\* A pair that matches does so when more is known and more is solved.
LEMMA StillMatches ==
    ASSUME UnifyTypeOK, NEW x \in Types, NEW y \in Types,
           NEW S \in SUBSET Pairs, NEW T \in SUBSET Pairs, S \subseteq T,
           waved \subseteq waved', \A v \in Bound : subst'[v] = subst[v],
           Match(x, y, Holding(S))
    PROVE  Match(x, y, Holding(T))'
<1>1. CASE Accepts(x, y)
  BY <1>1 DEF Accepts, Match
<1>2. CASE Alike(x, y) /\ \A i \in DOMAIN PairsOf(x, y) : Holding(S)[PairsOf(x, y)[i]]
  <2>1. Fits(x, y)
    BY <1>2 DEF Alike, Fits
  <2>2. \A i \in DOMAIN PairsOf(x, y) : PairsOf(x, y)[i] \in Pairs
    BY <2>1, PairsOfType
  <2>3. \A i \in DOMAIN PairsOf(x, y) : Holding(T)[PairsOf(x, y)[i]]
    BY <1>2, <2>2 DEF Holding
  <2>4. Alike(x, y)'
    BY <1>2 DEF Alike
  <2> QED BY <2>3, <2>4 DEF Match
<1>3. CASE \E t \in {x, Replace(x)}, u \in {y, Replace(y)} :
              <<t, u>> # <<x, y>> /\ Holding(S)[<<t, u>>]
  <2>1. PICK t \in {x, Replace(x)}, u \in {y, Replace(y)} :
              <<t, u>> # <<x, y>> /\ Holding(S)[<<t, u>>]
    BY <1>3
  <2>2. t \in Types /\ u \in Types
    BY <2>1, ReplaceType
  <2>3. ASSUME NEW z \in Types, Replace(z) # z  PROVE Replace(z)' = Replace(z)
    <3>1. Bound \subseteq Bound'
      BY DEF Bound, UnifyTypeOK
    <3>2. CASE z \in Bound
      BY <3>1, <3>2 DEF Replace
    <3>3. CASE z \notin Bound
      <4>1. Shape[z].kind = "alias" /\ z \notin Vars
        BY <2>3, <3>3, ShapeAssumption DEF Replace
      <4> QED BY <3>3, <4>1 DEF Replace, Bound
    <3> QED BY <3>2, <3>3
  <2>4. t \in {x, Replace(x)'} /\ u \in {y, Replace(y)'}
    BY <2>1, <2>3
  <2>5. Holding(T)[<<t, u>>]
    BY <2>1, <2>2 DEF Holding, Pairs
  <2> QED BY <2>1, <2>4, <2>5 DEF Match
<1> QED BY <1>1, <1>2, <1>3 DEF Match

\* The same after a step, for what is known alone.
LEMMA MatchesInMore ==
    ASSUME UnifyTypeOK', NEW x \in Types, NEW y \in Types,
           NEW S \in SUBSET Pairs, NEW T \in SUBSET Pairs, S \subseteq T,
           Match(x, y, Holding(S))'
    PROVE  Match(x, y, Holding(T))'
<1>1. CASE Accepts(x, y)'
  BY <1>1 DEF Match
<1>2. CASE Alike(x, y)' /\ \A i \in DOMAIN PairsOf(x, y) : Holding(S)[PairsOf(x, y)[i]]
  <2>1. Fits(x, y)
    BY <1>2 DEF Alike, Fits
  <2>2. \A i \in DOMAIN PairsOf(x, y) : PairsOf(x, y)[i] \in Pairs
    BY <2>1, PairsOfType
  <2>3. \A i \in DOMAIN PairsOf(x, y) : Holding(T)[PairsOf(x, y)[i]]
    BY <1>2, <2>2 DEF Holding
  <2> QED BY <1>2, <2>3 DEF Match
<1>3. CASE \E t \in {x, Replace(x)'}, u \in {y, Replace(y)'} :
              <<t, u>> # <<x, y>> /\ Holding(S)[<<t, u>>]
  <2>1. PICK t \in {x, Replace(x)'}, u \in {y, Replace(y)'} :
              <<t, u>> # <<x, y>> /\ Holding(S)[<<t, u>>]
    BY <1>3
  <2>2. \A z \in Types : Replace(z)' \in Types
    BY ShapeType DEF UnifyTypeOK, Replace, Bound
  <2>3. Holding(T)[<<t, u>>]
    BY <2>1, <2>2 DEF Holding, Pairs
  <2> QED BY <2>1, <2>3 DEF Match
<1> QED BY <1>1, <1>2, <1>3 DEF Match

\* So what explains a set goes on explaining it.
LEMMA StillExplained ==
    ASSUME UnifyTypeOK, NEW R \in SUBSET Pairs, NEW S \in SUBSET Pairs, NEW T \in SUBSET Pairs,
           S \subseteq T, waved \subseteq waved', \A v \in Bound : subst'[v] = subst[v],
           Explained(R, S)
    PROVE  Explained(R, T)'
<1> SUFFICES ASSUME NEW p \in R  PROVE Match(p[1], p[2], Holding(T))'
  BY DEF Explained
<1>1. p[1] \in Types /\ p[2] \in Types
  BY DEF Pairs
<1>2. Match(p[1], p[2], Holding(S))
  BY DEF Explained
<1> QED BY <1>1, <1>2, StillMatches

LEMMA NothingLost ==
    ASSUME UnifyTypeOK, SubstitutionEnds, [UnifyNext]_vars
    PROVE  waved \subseteq waved' /\ \A v \in Bound : subst'[v] = subst[v]
<1>1. waved \subseteq waved'
  BY DEF UnifyNext, Visit, Call, Follow, Agree, Solve, Descend, Clash, Return, vars
<1>2. CASE Solve
  <2>1. PICK w \in Vars \ Bound, t \in Types : subst' = [subst EXCEPT ![w] = t]
    BY <1>2, SolveStep
  <2> QED BY <1>1, <2>1 DEF UnifyTypeOK, Bound
<1>3. CASE ~Solve
  BY <1>1, <1>3, OtherSteps
<1> QED BY <1>2, <1>3

\* A pair has been passed if, with a few others, it is explained by what is
\* still to visit.
LEMMA PairPassed ==
    ASSUME UnifyTypeOK, UnifyTypeOK', SubstitutionEnds, MatchInv, [UnifyNext]_vars, work # <<>>,
           goal' = goal, Visits \subseteq {<<Left, Right>>} \cup Visits',
           NEW M \in SUBSET Pairs, <<Left, Right>> \in M \cup Visits', Explained(M, M \cup Visits)'
    PROVE  \E R \in SUBSET Pairs : goal' \in R \cup Visits' /\ Explained(R, R \cup Visits)'
<1>1. verdict = "running" /\ Visits \in SUBSET Pairs /\ Visits' \in SUBSET Pairs
  <2>1. Visits' \in SUBSET Pairs
    BY DEF Visits, UnifyTypeOK
  <2> QED BY <2>1, VisitFacts DEF UnifyTypeOK
<1>2. PICK R \in SUBSET Pairs : goal \in R \cup Visits /\ Explained(R, R \cup Visits)
  BY <1>1 DEF MatchInv
<1>3. PICK V \in SUBSET Pairs : V = Visits'
  BY <1>1
<1>4. PICK U \in SUBSET Pairs : U = Visits
  BY <1>1
<1> DEFINE Q == R \cup M
<1>5. /\ Q \in SUBSET Pairs /\ Q \cup V \in SUBSET Pairs /\ R \cup U \in SUBSET Pairs
      /\ R \cup U \subseteq Q \cup V
  BY <1>3, <1>4
<1>6. waved \subseteq waved' /\ \A v \in Bound : subst'[v] = subst[v]
  BY NothingLost
<1>7. Explained(R, Q \cup V)'
  <2>1. Explained(R, R \cup U)
    BY <1>2, <1>4
  <2> HIDE DEF Q
  <2> QED BY <1>5, <1>6, <2>1, StillExplained
<1>8. Explained(M, Q \cup V)'
  <2> SUFFICES ASSUME NEW p \in M  PROVE Match(p[1], p[2], Holding(Q \cup V))'
    BY DEF Explained
  <2>1. Match(p[1], p[2], Holding(M \cup V))'
    BY <1>3 DEF Explained
  <2>2. p[1] \in Types /\ p[2] \in Types /\ M \cup V \in SUBSET Pairs /\ M \cup V \subseteq Q \cup V
    BY <1>3 DEF Pairs
  <2> HIDE DEF Q
  <2> QED BY <1>5, <2>1, <2>2, MatchesInMore
<1>9. Explained(Q, Q \cup V)'
  BY <1>7, <1>8 DEF Explained
<1>10. goal' \in Q \cup V
  BY <1>2, <1>3, <1>4
<1> QED BY <1>3, <1>5, <1>9, <1>10

\* What a step that looks at a pair leaves to visit.
LEMMA RestVisits ==
    ASSUME UnifyTypeOK, work # <<>>
    PROVE  /\ work' = Tail(work) => Visits \subseteq {<<Left, Right>>} \cup Visits'
           /\ \A front \in Seq(Pairs) : work' = front \o Tail(work) =>
                /\ Visits \subseteq {<<Left, Right>>} \cup Visits'
                /\ \A i \in DOMAIN front : front[i] \in Visits'
<1>1. Tail(work) \in Seq(Pairs)
  BY FrontPair
<1>2. Visits = {<<Left, Right>>} \cup {Tail(work)[i] : i \in DOMAIN Tail(work)}
  BY VisitFacts
<1>3. work' = Tail(work) => Visits' = {Tail(work)[i] : i \in DOMAIN Tail(work)}
  BY DEF Visits
<1>4. ASSUME NEW front \in Seq(Pairs), work' = front \o Tail(work)
      PROVE  Visits' = {front[i] : i \in DOMAIN front}
                          \cup {Tail(work)[i] : i \in DOMAIN Tail(work)}
  <2>1. {work'[i] : i \in DOMAIN work'}
          = {front[i] : i \in DOMAIN front} \cup {Tail(work)[i] : i \in DOMAIN Tail(work)}
    <3> DEFINE rest == Tail(work)
    <3>1. rest \in Seq(Pairs) /\ work' = front \o rest
      BY <1>1, <1>4
    <3> HIDE DEF rest
    <3>2. {(front \o rest)[i] : i \in DOMAIN (front \o rest)}
            = {front[i] : i \in DOMAIN front} \cup {rest[i] : i \in DOMAIN rest}
      BY <3>1, FrontVisits
    <3> QED BY <3>1, <3>2 DEF rest
  <2> QED BY <2>1 DEF Visits
<1> QED BY <1>2, <1>3, <1>4

\* A pair that is agreed on is accepted for what it is.
LEMMA AgreeAccepts ==
    ASSUME UnifyTypeOK, Agree, NEW x, NEW y, x = Left, y = Right
    PROVE  Accepts(x, y)'
<1>1. work # <<>> /\ Rooted /\ Meet(x, y) = "agree"
  BY DEF Agree, Looks
<1>2. x \in Types /\ y \in Types /\ Shape[y].kind # "alias"
  BY <1>1, FrontPair DEF Rooted, Root
<1>3. CASE "any" \in {Class(x), Class(y)}
  BY <1>3 DEF Accepts
<1>4. CASE "any" \notin {Class(x), Class(y)} /\ Class(x) \in {"error", "gointerface"}
  <2>1. ~NilablePointer(y)
    BY <1>1, <1>4 DEF Meet
  <2>2. CASE y \in Vars
    <3>1. <<x, y>> \in waved'
      BY <1>4, <2>2 DEF Agree
    <3> QED BY <1>4, <3>1 DEF Accepts
  <2>3. CASE y \notin Vars /\ Shape[y].kind # "alias"
    <3>1. Shape[y].kind # "var"
      BY <1>2, <2>3, ShapeAssumption
    <3> QED BY <1>4, <2>1, <2>3, <3>1 DEF Accepts
  <2> QED BY <1>2, <2>2, <2>3
<1>5. CASE Class(x) = "interface" /\ <<y, x>> \in Satisfies /\ ~NilablePointer(y)
  BY <1>5 DEF Accepts
<1>6. CASE {Shape[x].kind, Shape[y].kind} \cap Silent # {} \/ x = y
  BY <1>6 DEF Accepts
<1>7. \/ "any" \in {Class(x), Class(y)} \/ Class(x) \in {"error", "gointerface"}
      \/ Class(x) = "interface" /\ <<y, x>> \in Satisfies /\ ~NilablePointer(y)
      \/ {Shape[x].kind, Shape[y].kind} \cap Silent # {} \/ x = y
  BY <1>1 DEF Meet
<1> QED BY <1>3, <1>4, <1>5, <1>6, <1>7

\* Each step at a pair passes it.
LEMMA FollowPasses ==
    ASSUME UnifyTypeOK, UnifyTypeOK', SubstitutionEnds, MatchInv, [UnifyNext]_vars, Follow,
           NEW x, NEW y, x = Left, y = Right
    PROVE  \E R \in SUBSET Pairs : goal' \in R \cup Visits' /\ Explained(R, R \cup Visits)'
<1>1. PICK next \in Pairs : next = <<Replace(x), Replace(y)>>
  BY FrontPair, ReplaceType DEF Follow, Pairs
<1>2. /\ work # <<>> /\ goal' = goal /\ subst' = subst /\ <<x, y>> \in Pairs
      /\ work' = <<next>> \o Tail(work) /\ <<next>> \in Seq(Pairs)
  BY <1>1, FrontPair DEF Follow, Rest, Pairs
<1>3. Visits \subseteq {<<x, y>>} \cup Visits' /\ next \in Visits' /\ Visits' \in SUBSET Pairs
  <2>1. 1 \in DOMAIN <<next>> /\ <<next>>[1] = next
    OBVIOUS
  <2>2. Visits' \in SUBSET Pairs
    BY DEF Visits, UnifyTypeOK
  <2> QED BY <1>2, <2>1, <2>2, RestVisits
<1>4. PICK M \in SUBSET Pairs : M = IF next = <<x, y>> THEN {} ELSE {<<x, y>>}
  BY <1>2
<1>5. Explained(M, M \cup Visits)'
  <2> SUFFICES ASSUME next # <<x, y>>  PROVE Match(x, y, Holding(M \cup Visits))'
    BY <1>4 DEF Explained
  <2>1. PICK V \in SUBSET Pairs : V = Visits'
    BY <1>3
  <2>2. Replace(x)' = Replace(x) /\ Replace(y)' = Replace(y)
    BY <1>2 DEF Replace, Bound
  <2>3. Holding(M \cup V)[next]
    BY <1>3, <2>1 DEF Holding
  <2>4. Match(x, y, Holding(M \cup V))'
    BY <1>1, <2>2, <2>3 DEF Match
  <2> QED BY <2>1, <2>4
<1> QED BY <1>2, <1>3, <1>4, <1>5, PairPassed

LEMMA AgreePasses ==
    ASSUME UnifyTypeOK, UnifyTypeOK', SubstitutionEnds, MatchInv, [UnifyNext]_vars, Agree,
           NEW x, NEW y, x = Left, y = Right
    PROVE  \E R \in SUBSET Pairs : goal' \in R \cup Visits' /\ Explained(R, R \cup Visits)'
<1>1. work # <<>> /\ goal' = goal /\ <<x, y>> \in Pairs /\ work' = Tail(work)
  BY FrontPair DEF Agree, Looks, Rest, Pairs
<1>2. Visits \subseteq {<<x, y>>} \cup Visits'
  BY <1>1, RestVisits
<1>3. PICK M \in SUBSET Pairs : M = {<<x, y>>}
  BY <1>1
<1>4. Explained(M, M \cup Visits)'
  BY <1>3, AgreeAccepts DEF Explained, Match
<1> QED BY <1>1, <1>2, <1>3, <1>4, PairPassed

LEMMA SolvePasses ==
    ASSUME UnifyTypeOK, UnifyTypeOK', SubstitutionEnds, MatchInv, [UnifyNext]_vars, Solve,
           NEW x, NEW y, x = Left, y = Right
    PROVE  \E R \in SUBSET Pairs : goal' \in R \cup Visits' /\ Explained(R, R \cup Visits)'
<1>1. /\ work # <<>> /\ goal' = goal /\ x \in Types /\ y \in Types /\ work' = Tail(work)
  BY FrontPair DEF Solve, Looks, Rest
<1>2. Visits \subseteq {<<x, y>>} \cup Visits'
  BY <1>1, RestVisits
<1>3. PICK z \in Types : \/ x \in Vars /\ subst'[x] = z /\ z = y
                         \/ y \in Vars /\ subst'[y] = z /\ z = x
  <2>1. \/ Looks("left") /\ subst' = [subst EXCEPT ![x] = y]
        \/ Looks("right") /\ subst' = [subst EXCEPT ![y] = x]
    BY DEF Solve
  <2> QED BY <1>1, <2>1, SolveFacts DEF UnifyTypeOK
<1>4. \/ Replace(x)' = z /\ z = y
      \/ Replace(y)' = z /\ z = x
  BY <1>3, UnboundAssumption DEF Replace, Bound
<1>5. PICK M \in SUBSET Pairs : M = {<<x, y>>, <<z, z>>}
  <2>1. {<<x, y>>, <<z, z>>} \in SUBSET Pairs
    BY <1>1 DEF Pairs
  <2> QED BY <2>1
<1>6. PICK V \in SUBSET Pairs : V = Visits'
  <2>1. Visits' \in SUBSET Pairs
    BY DEF Visits, UnifyTypeOK
  <2> QED BY <2>1
<1>7. Match(z, z, Holding(M \cup V))'
  BY DEF Match, Accepts
<1>8. Match(x, y, Holding(M \cup V))'
  <2>1. CASE x = y
    BY <2>1 DEF Match, Accepts
  <2>2. CASE x # y
    <3>1. <<z, z>> # <<x, y>> /\ Holding(M \cup V)[<<z, z>>]
      BY <1>5, <2>2 DEF Holding
    <3>2. z \in {x, Replace(x)'} /\ z \in {y, Replace(y)'}
      BY <1>4
    <3> QED BY <3>1, <3>2 DEF Match
  <2> QED BY <2>1, <2>2
<1>9. Explained(M, M \cup Visits)'
  BY <1>5, <1>6, <1>7, <1>8 DEF Explained
<1> QED BY <1>1, <1>2, <1>5, <1>9, PairPassed

LEMMA DescendPasses ==
    ASSUME UnifyTypeOK, UnifyTypeOK', SubstitutionEnds, MatchInv, [UnifyNext]_vars, Descend,
           NEW x, NEW y, x = Left, y = Right
    PROVE  \E R \in SUBSET Pairs : goal' \in R \cup Visits' /\ Explained(R, R \cup Visits)'
<1>1. /\ work # <<>> /\ goal' = goal /\ x \in Types /\ y \in Types /\ Fits(x, y)
      /\ work' = PairsOf(x, y) \o Tail(work) /\ PairsOf(x, y) \in Seq(Pairs)
  <2>1. work # <<>> /\ goal' = goal /\ Fits(x, y) /\ work' = PairsOf(x, y) \o Tail(work)
    BY SolveFacts DEF Descend, Looks, Rest
  <2> QED BY <2>1, FrontPair, PairsOfType
<1>2. /\ Visits \subseteq {<<x, y>>} \cup Visits'
      /\ \A i \in DOMAIN PairsOf(x, y) : PairsOf(x, y)[i] \in Visits'
  BY <1>1, RestVisits
<1>3. PICK M \in SUBSET Pairs : M = {<<x, y>>}
  <2>1. {<<x, y>>} \in SUBSET Pairs
    BY <1>1 DEF Pairs
  <2> QED BY <2>1
<1>4. PICK V \in SUBSET Pairs : V = Visits'
  <2>1. Visits' \in SUBSET Pairs
    BY DEF Visits, UnifyTypeOK
  <2> QED BY <2>1
<1>5. Alike(x, y)'
  <2>1. CASE Shape[x].kind = "con" /\ Shape[y].kind = "con" /\ HeadsFit(x, y)
    <3>1. Len(Parts(x)) # Len(Parts(y)) => Class(x) \in Elements \cup {"map"}
      BY <2>1 DEF HeadsFit, Underlies
    <3>2. Len(Parts(x)) # Len(Parts(y)) => <<x, y>> \in waved'
      BY <3>1 DEF Descend
    <3> QED BY <1>1, <2>1, <3>2 DEF Alike, Fits
  <2>2. CASE Shape[x].kind = "func" /\ Shape[y].kind = "func" /\ ParamsFit(x, y)
    BY <1>1, <2>2 DEF Alike, Fits
  <2> QED BY <1>1, <2>1, <2>2 DEF Fits
<1>6. \A i \in DOMAIN PairsOf(x, y) : Holding(M \cup V)[PairsOf(x, y)[i]]
  BY <1>1, <1>2, <1>4 DEF Holding
<1>7. Match(x, y, Holding(M \cup V))'
  BY <1>5, <1>6 DEF Match
<1>8. Explained(M, M \cup Visits)'
  BY <1>3, <1>4, <1>7 DEF Explained
<1> QED BY <1>1, <1>2, <1>3, <1>8, PairPassed

LEMMA MatchStarts == UnifyInit => MatchInv
<1> SUFFICES ASSUME UnifyInit  PROVE MatchInv
  OBVIOUS
<1>1. agreed = {} /\ verdict # "running"
  BY DEF UnifyInit
<1>2. {} \in SUBSET Pairs /\ Explained({}, {})
  BY DEF Explained
<1> QED BY <1>1, <1>2 DEF MatchInv

LEMMA MatchStep ==
    ASSUME UnifyTypeOK, UnifyTypeOK', SubstitutionEnds, MatchInv, [UnifyNext]_vars
    PROVE  MatchInv'
<1> DEFINE Passed == \E R \in SUBSET Pairs : goal \in R \cup Visits /\ Explained(R, R \cup Visits)
           Done == \E R \in SUBSET Pairs : agreed \subseteq R /\ Explained(R, R)
<1>1. PICK R \in SUBSET Pairs : agreed \subseteq R /\ Explained(R, R)
  BY DEF MatchInv
<1>2. Explained(R, R)'
  BY <1>1, NothingLost, StillExplained
<1>3. agreed' = agreed => Done'
  BY <1>1, <1>2
<1>4. ASSUME NEW c \in Asked, Call(c)  PROVE Passed' /\ agreed' = agreed
  <2>1. goal' = c /\ work' = <<c>> /\ agreed' = agreed
    BY <1>4 DEF Call
  <2>2. c \in Visits'
    <3>1. 1 \in DOMAIN <<c>> /\ <<c>>[1] = c
      OBVIOUS
    <3> QED BY <2>1, <3>1 DEF Visits
  <2>3. {} \in SUBSET Pairs /\ Explained({}, {} \cup Visits)'
    BY DEF Explained
  <2> QED BY <2>1, <2>2, <2>3
<1>5. ASSUME Follow  PROVE Passed' /\ agreed' = agreed
  BY <1>5, FollowPasses DEF Follow, Rest
<1>6. ASSUME Agree  PROVE Passed' /\ agreed' = agreed
  BY <1>6, AgreePasses DEF Agree, Rest
<1>7. ASSUME Solve  PROVE Passed' /\ agreed' = agreed
  BY <1>7, SolvePasses DEF Solve, Rest
<1>8. ASSUME Descend  PROVE Passed' /\ agreed' = agreed
  BY <1>8, DescendPasses DEF Descend, Rest
<1>9. CASE Clash
  <2>1. Done' /\ verdict' # "running"
    BY <1>3, <1>9 DEF Clash, Rest
  <2> QED BY <2>1 DEF MatchInv
<1>10. CASE Return
  <2>1. PICK Q \in SUBSET Pairs : goal \in Q \cup Visits /\ Explained(Q, Q \cup Visits)
    BY <1>10 DEF Return, MatchInv
  <2>2. Visits = {}
    BY <1>10 DEF Return, Visits
  <2>3. goal \in Q /\ Explained(Q, Q)
    <3>1. Q \cup Visits = Q
      BY <2>2
    <3> QED BY <2>1, <3>1
  <2> DEFINE W == R \cup Q
  <2>4. W \in SUBSET Pairs /\ R \subseteq W /\ Q \subseteq W
    OBVIOUS
  <2>5. waved \subseteq waved' /\ \A v \in Bound : subst'[v] = subst[v]
    BY NothingLost
  <2>6. Explained(R, W)' /\ Explained(Q, W)'
    <3> HIDE DEF W
    <3> QED BY <1>1, <2>3, <2>4, <2>5, StillExplained
  <2>7. Explained(W, W)'
    BY <2>6 DEF Explained
  <2>8. agreed' \subseteq W
    BY <1>1, <1>10, <2>3 DEF Return
  <2>9. Done' /\ verdict' # "running"
    BY <1>10, <2>4, <2>7, <2>8 DEF Return
  <2> QED BY <2>9 DEF MatchInv
<1>11. CASE UNCHANGED vars
  <2>1. Visits' = Visits /\ goal' = goal /\ verdict' = verdict /\ agreed' = agreed
    BY <1>11 DEF vars, Visits
  <2>2. ASSUME NEW Q \in SUBSET Pairs, NEW W \in SUBSET Pairs, Explained(Q, W)
        PROVE  Explained(Q, W)'
    BY <2>2, NothingLost, StillExplained
  <2>3. ASSUME Passed  PROVE Passed'
    <3>1. PICK Q \in SUBSET Pairs : goal \in Q \cup Visits /\ Explained(Q, Q \cup Visits)
      BY <2>3
    <3>2. PICK W \in SUBSET Pairs : W = Q \cup Visits
      BY VisitFacts
    <3>3. Explained(Q, W)'
      BY <2>2, <3>1, <3>2
    <3> QED BY <2>1, <3>1, <3>2, <3>3
  <2> QED BY <1>3, <2>1, <2>3 DEF MatchInv
<1> HIDE DEF Passed, Done
<1>12. Done' /\ (Passed' \/ verdict' # "running") => MatchInv'
  BY DEF MatchInv, Passed, Done
<1> QED
  BY <1>3, <1>4, <1>5, <1>6, <1>7, <1>8, <1>9, <1>10, <1>11, <1>12 DEF UnifyNext, Visit

\* A pair that matches by what is known of others does so by knowing more.
LEMMA MatchesByMore ==
    ASSUME UnifyTypeOK, NEW x \in Types, NEW y \in Types, NEW f, NEW g,
           \A q \in Pairs : f[q] => g[q], Match(x, y, f)
    PROVE  Match(x, y, g)
<1>1. CASE Accepts(x, y)
  BY <1>1 DEF Match
<1>2. CASE Alike(x, y) /\ \A i \in DOMAIN PairsOf(x, y) : f[PairsOf(x, y)[i]]
  <2>1. Fits(x, y)
    BY <1>2 DEF Alike, Fits
  <2>2. \A i \in DOMAIN PairsOf(x, y) : PairsOf(x, y)[i] \in Pairs
    BY <2>1, PairsOfType
  <2> QED BY <1>2, <2>2 DEF Match
<1>3. CASE \E t \in {x, Replace(x)}, u \in {y, Replace(y)} : <<t, u>> # <<x, y>> /\ f[<<t, u>>]
  <2>1. PICK t \in {x, Replace(x)}, u \in {y, Replace(y)} : <<t, u>> # <<x, y>> /\ f[<<t, u>>]
    BY <1>3
  <2>2. <<t, u>> \in Pairs
    BY <2>1, ReplaceType DEF Pairs
  <2>3. g[<<t, u>>]
    BY <2>1, <2>2
  <2> QED BY <2>1, <2>3 DEF Match
<1> QED BY <1>1, <1>2, <1>3 DEF Match

\* What explains itself matches at every depth.
DeeperTurn(c, good, level) == Deeper(good, level)
Levels == INSTANCE Iteration WITH Turn <- DeeperTurn

LEMMA MatchAtDepth ==
    ASSUME UnifyTypeOK, MatchInv
    PROVE  UnifiedTypesMatch
<1>1. PICK R \in SUBSET Pairs : agreed \subseteq R /\ Explained(R, R)
  BY DEF MatchInv
<1> DEFINE S == {good \in [Pairs -> BOOLEAN] : \A p \in R : good[p]}
           start == [p \in Pairs |-> TRUE]
           levels == [level \in 1..MaxDepth |-> level]
<1>2. start \in S /\ levels \in Seq(Nat)
  BY MaxDepthAssumption
<1>3. ASSUME NEW good \in S, NEW level \in Nat  PROVE DeeperTurn(0, good, level) \in S
  <2> DEFINE next == [p \in Pairs |-> Match(p[1], p[2], good)]
  <2>1. \A p \in Pairs : Match(p[1], p[2], good) \in BOOLEAN
    BY DEF Match
  <2>2. ASSUME NEW p \in R  PROVE Match(p[1], p[2], good)
    <3>1. p[1] \in Types /\ p[2] \in Types /\ Match(p[1], p[2], Holding(R))
      BY <1>1 DEF Explained, Pairs
    <3>2. \A q \in Pairs : Holding(R)[q] => good[q]
      BY DEF Holding
    <3> HIDE DEF S
    <3> QED BY <3>1, <3>2, MatchesByMore
  <2>3. next \in S
    BY <2>1, <2>2
  <2> QED BY <2>3 DEF DeeperTurn, Deeper
<1>4. Levels!Loop(0, start, levels) \in S
  <2> HIDE DEF S, start, levels
  <2> QED BY <1>2, <1>3, Levels!LoopStays
<1>5. MatchTo(MaxDepth) = Levels!Loop(0, start, levels)
  BY DEF MatchTo, Levels!Loop, DeeperTurn, Each, Levels!Each
<1> QED BY <1>1, <1>4, <1>5 DEF UnifiedTypesMatch

\* What unify has accepted matches, down to any depth, whatever is solved and
\* whatever fails afterwards.
THEOREM AcceptedTypesMatch == UnifySpec => []UnifiedTypesMatch
<1>1. UnifyInit => UnifyTypeOK /\ SubstitutionEnds /\ MatchInv
  BY TypesInit, EndsInit, MatchStarts
<1>2. UnifyTypeOK /\ SubstitutionEnds /\ MatchInv /\ [UnifyNext]_vars
      => (UnifyTypeOK /\ SubstitutionEnds /\ MatchInv)'
  BY TypesStep, EndsStep, MatchStep
<1>3. UnifyTypeOK /\ MatchInv => UnifiedTypesMatch
  BY MatchAtDepth
<1> QED  BY <1>1, <1>2, <1>3, PTL DEF UnifySpec

=============================================================================
