------------------------------ MODULE Iteration ------------------------------
(***************************************************************************)
(* Facts about Each, for any turn and any list.  A proof that is about one *)
(* loop instantiates this module with its turn, the first argument of      *)
(* which is whatever stays the same from turn to turn.                     *)
(***************************************************************************)
EXTENDS Lists, WellFoundedInduction, NaturalsInduction, TLAPS

CONSTANT Turn(_, _, _)

Loop(c, start, list) ==
    LET One(state, x) == Turn(c, state, x) IN Each(One, start, list)

\* The states the loop goes through, the i-th after i turns.
Runs(c, start, list, states) ==
    /\ states[0] = start
    /\ \A i \in 1..Len(list) : states[i] = Turn(c, states[i - 1], list[i])

\* What holds at 0 and, if at one number, then at the next, holds up to the last.
LEMMA CountUp ==
    ASSUME NEW last \in Nat, NEW S, 0 \in S, \A n \in 1..last : n - 1 \in S => n \in S
    PROVE  \A n \in 0..last : n \in S
<1> DEFINE Bad == {n \in 0..last : n \notin S}
<1>1. SUFFICES ASSUME Bad # {} PROVE FALSE
  OBVIOUS
<1>2. Bad \subseteq Nat
  OBVIOUS
<1>3. PICK n \in Bad : \A k \in Bad : ~ (<<k, n>> \in OpToRel(<, Nat))
  BY <1>1, <1>2, NatLessThanWellFounded, WFMin
<1>4. n \in 1..last /\ n \notin S
  <2>1. n \in 0..last /\ n \notin S
    OBVIOUS
  <2>2. n # 0
    BY <2>1
  <2> QED BY <2>1, <2>2
<1>5. n - 1 \in Nat /\ n \in Nat /\ n - 1 < n /\ n - 1 \in 0..last
  BY <1>4
<1>6. n - 1 \notin Bad
  <2> HIDE DEF Bad
  <2> QED BY <1>2, <1>3, <1>5 DEF OpToRel
<1> QED BY <1>4, <1>5, <1>6

\* The function Each defines exists, so that a loop is what its turns make of it.
LEMMA LoopRuns ==
    ASSUME NEW T, NEW c, NEW start, NEW list \in Seq(T)
    PROVE  \E states : Runs(c, start, list, states) /\ Loop(c, start, list) = states[Len(list)]
<1> DEFINE Is(run, m) == run = [i \in 0..m |-> IF i = 0 THEN start ELSE Turn(c, run[i - 1], list[i])]
           Good == {m \in Nat : \E run : Is(run, m)}
<1>1. Len(list) \in Nat
  OBVIOUS
<1>2. 0 \in Good
  <2>1. Is([i \in 0..0 |-> start], 0)
    OBVIOUS
  <2> QED BY <2>1
<1>3. ASSUME NEW n \in 1..Len(list), n - 1 \in Good PROVE n \in Good
  <2>1. PICK f : Is(f, n - 1)
    BY <1>3
  <2> DEFINE g == [i \in 0..n |-> IF i = 0 THEN start
                                  ELSE IF i < n THEN f[i] ELSE Turn(c, f[n - 1], list[n])]
  <2>2. \A i \in 1..(n - 1) : g[i - 1] = f[i - 1] /\ f[i] = Turn(c, f[i - 1], list[i])
    BY <1>1, <2>1
  <2>3. Is(g, n)
    BY <1>1, <2>1, <2>2
  <2>4. n \in Nat /\ \E run : Is(run, n)
    <3> HIDE DEF g
    <3> QED BY <1>1, <2>3
  <2> QED BY <2>4
<1>4. \E run : Is(run, Len(list))
  <2>1. Len(list) \in 0..Len(list)
    BY <1>1
  <2> HIDE DEF Good
  <2>2. Len(list) \in Good
    BY <1>1, <1>2, <1>3, <2>1, CountUp
  <2> QED BY <2>2 DEF Good
<1> DEFINE after == CHOOSE f : f = [i \in 0..Len(list) |->
                        IF i = 0 THEN start ELSE Turn(c, f[i - 1], list[i])]
<1>5. Is(after, Len(list))
  BY <1>4
<1>6. Loop(c, start, list) = after[Len(list)]
  BY DEF Loop, Each
<1> HIDE DEF after
<1>7. Runs(c, start, list, after)
  BY <1>1, <1>5 DEF Runs
<1> QED BY <1>6, <1>7

\* A set that no turn leaves is not left by the loop.
LEMMA LoopStays ==
    ASSUME NEW T, NEW c, NEW S, NEW start \in S, NEW list \in Seq(T),
           \A state \in S : \A x \in T : Turn(c, state, x) \in S
    PROVE  Loop(c, start, list) \in S
<1>1. PICK states : Runs(c, start, list, states) /\ Loop(c, start, list) = states[Len(list)]
  BY LoopRuns
<1> DEFINE Good == {n \in 0..Len(list) : states[n] \in S}
<1>2. Len(list) \in Nat /\ Len(list) \in 0..Len(list)
  OBVIOUS
<1>3. 0 \in Good
  BY <1>1, <1>2 DEF Runs
<1>4. ASSUME NEW n \in 1..Len(list), n - 1 \in Good PROVE n \in Good
  <2>1. states[n - 1] \in S /\ list[n] \in T /\ n \in 0..Len(list)
    BY <1>2, <1>4
  <2> QED BY <1>1, <2>1 DEF Runs
<1>5. Len(list) \in Good
  <2> HIDE DEF Good
  <2> QED BY <1>2, <1>3, <1>4, CountUp
<1> QED BY <1>1, <1>5

\* From each set a turn leads to the next one: the loop ends in the last.
LEMMA LoopMoves ==
    ASSUME NEW T, NEW c, NEW S, NEW list \in Seq(T), NEW start \in S[0],
           \A i \in 1..Len(list) : \A state \in S[i - 1] : Turn(c, state, list[i]) \in S[i]
    PROVE  Loop(c, start, list) \in S[Len(list)]
<1>1. PICK states : Runs(c, start, list, states) /\ Loop(c, start, list) = states[Len(list)]
  BY LoopRuns
<1> DEFINE Good == {n \in 0..Len(list) : states[n] \in S[n]}
<1>2. Len(list) \in Nat /\ Len(list) \in 0..Len(list)
  OBVIOUS
<1>3. 0 \in Good
  BY <1>1, <1>2 DEF Runs
<1>4. ASSUME NEW n \in 1..Len(list), n - 1 \in Good PROVE n \in Good
  <2>1. states[n - 1] \in S[n - 1] /\ n \in 0..Len(list)
    BY <1>2, <1>4
  <2> QED BY <1>1, <2>1 DEF Runs
<1>5. Len(list) \in Good
  <2> HIDE DEF Good
  <2> QED BY <1>2, <1>3, <1>4, CountUp
<1> QED BY <1>1, <1>5
=============================================================================
