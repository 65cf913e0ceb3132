------------------------------ MODULE LspProofs ------------------------------
(***************************************************************************)
(* Proofs about LspServer, for any files, any number of messages and any   *)
(* number of handlers at once: the workspace never goes back to older      *)
(* texts, and once nothing runs it, and the diagnostics the editor shows,  *)
(* are those of the texts the server has.  First come facts about RwLock:  *)
(* a lock has one writer or none, serves those who want to write in the    *)
(* order they asked, and loses none of them.                               *)
(***************************************************************************)
EXTENDS LspServer, FiniteSetTheorems, WellFoundedInduction, TLAPS

-----------------------------------------------------------------------------
(* The lock.                                                               *)

\* The states of a lock that the members of H use.
LockOf(H) == [readers : SUBSET H, writers : SUBSET H, queue : Seq(H \X Modes)]

\* One writer and no reader, or no writer.
Exclusive(l) == l.writers # {} => l.readers = {} /\ \E w \in l.writers : l.writers = {w}

\* The places of those who wait to write, and everyone who writes or waits to.
WriteTurns(l) == {i \in DOMAIN l.queue : l.queue[i][2] = "write"}
Writing(l) == l.writers \cup {l.queue[i][1] : i \in WriteTurns(l)}

\* Who asked first to write is R-before who asked later.
Ordered(l, R) ==
    /\ \A i, j \in WriteTurns(l) : i < j => <<l.queue[i][1], l.queue[j][1]>> \in R
    /\ \A w \in l.writers : \A j \in WriteTurns(l) : <<w, l.queue[j][1]>> \in R

-----------------------------------------------------------------------------
(* Admission.                                                              *)

\* A set of positions that has, with each, all before it, is an interval.
LEMMA Prefix ==
    ASSUME NEW L \in Nat, NEW S \in SUBSET (1..L),
           \A n \in S : \A m \in 1..n : m \in S
    PROVE  \E n \in 0..L : S = 1..n /\ Cardinality(S) = n
<1> DEFINE T == {k \in 0..L : k + 1 \notin S}
<1>1. L \in T /\ T \subseteq Nat
  OBVIOUS
<1>2. PICK n \in T : \A k \in T : ~ (<<k, n>> \in OpToRel(<, Nat))
  BY <1>1, NatLessThanWellFounded, WFMin
<1>3. \A k \in T : n <= k
  <2> SUFFICES ASSUME NEW k \in T PROVE n <= k
    OBVIOUS
  <2>1. ~ (k < n)
    BY <1>1, <1>2 DEF OpToRel
  <2> QED BY <1>1, <2>1
<1>4. n \in 0..L /\ n + 1 \notin S
  BY <1>2
<1>5. ASSUME NEW m \in 1..n PROVE m \in S
  <2>1. m - 1 \in 0..L /\ m - 1 < n
    BY <1>4
  <2>2. m - 1 \notin T
    BY <1>3, <1>4, <2>1
  <2>3. (m - 1) + 1 \in S
    BY <2>1, <2>2
  <2> QED BY <1>4, <2>3
<1>6. ASSUME NEW m \in S PROVE m \in 1..n
  <2>1. m > n => n + 1 \in 1..m
    BY <1>4
  <2> QED BY <1>4, <2>1
<1>7. S = 1..n
  BY <1>5, <1>6
<1>8. Cardinality(1..n) = n
  BY <1>4, FS_Interval
<1> QED BY <1>4, <1>7, <1>8

\* What is left of a queue without its first n.
LEMMA RestOfQueue ==
    ASSUME NEW S, NEW q \in Seq(S), NEW n \in 0..Len(q)
    PROVE  LET rest == SubSeq(q, n + 1, Len(q))
           IN  /\ rest \in Seq(S) /\ DOMAIN rest = 1..(Len(q) - n)
               /\ \A i \in DOMAIN rest : n + i \in 1..Len(q) /\ rest[i] = q[n + i]
<1>1. n + 1 \in Int /\ Len(q) \in Nat /\ (Len(q) + 1) - (n + 1) = Len(q) - n
  OBVIOUS
<1> QED BY <1>1

\* Admit lets in the first n of the queue: readers, or one writer.
LEMMA AdmitShape ==
    ASSUME NEW H, NEW l \in LockOf(H)
    PROVE  \E n \in 0..Len(l.queue) :
             /\ Admit(l).queue = SubSeq(l.queue, n + 1, Len(l.queue))
             /\ Admit(l).readers = l.readers \cup {l.queue[i][1] : i \in {j \in 1..n : l.queue[j][2] = "read"}}
             /\ Admit(l).writers = l.writers \cup {l.queue[i][1] : i \in {j \in 1..n : l.queue[j][2] = "write"}}
             /\ n # 0 => /\ l.writers = {}
                         /\ \/ \A i \in 1..n : l.queue[i][2] = "read"
                            \/ n = 1 /\ l.readers = {}
<1>1. Len(l.queue) \in Nat /\ DOMAIN l.queue = 1..Len(l.queue)
  BY DEF LockOf
<1>2. Admissible(l) \in SUBSET (1..Len(l.queue))
  BY <1>1 DEF Admissible
<1>3. ASSUME NEW n \in Admissible(l), NEW m \in 1..n PROVE m \in Admissible(l)
  <2>1. n \in 1..Len(l.queue) /\ m \in 1..Len(l.queue)
    BY <1>1, <1>2
  <2>2. \A i \in 1..m : i \in 1..n
    BY <2>1
  <2> QED BY <1>1, <2>1, <2>2 DEF Admissible
<1>4. PICK n \in 0..Len(l.queue) : Admissible(l) = 1..n /\ Cardinality(Admissible(l)) = n
  BY <1>1, <1>2, <1>3, Prefix
<1>5. n # 0 => n \in Admissible(l)
  BY <1>1, <1>4
<1>6. /\ Admit(l).queue = SubSeq(l.queue, n + 1, Len(l.queue))
      /\ Admit(l).readers = l.readers \cup {l.queue[i][1] : i \in {j \in 1..n : l.queue[j][2] = "read"}}
      /\ Admit(l).writers = l.writers \cup {l.queue[i][1] : i \in {j \in 1..n : l.queue[j][2] = "write"}}
  BY <1>4 DEF Admit
<1> QED BY <1>4, <1>5, <1>6 DEF Admissible

\* Nobody who wants to write is lost or let in out of turn, and nobody waits
\* who did not wait before.
LEMMA AdmitFacts ==
    ASSUME NEW H, NEW l \in LockOf(H), Exclusive(l)
    PROVE  /\ Admit(l) \in LockOf(H) /\ Exclusive(Admit(l))
           /\ Writing(Admit(l)) = Writing(l)
           /\ \A h : Waits(Admit(l), h) => Waits(l, h)
           /\ \A R : Ordered(l, R) => Ordered(Admit(l), R)
<1> DEFINE a == Admit(l)
           q == l.queue
<1>1. PICK n \in 0..Len(q) :
             /\ a.queue = SubSeq(q, n + 1, Len(q))
             /\ a.readers = l.readers \cup {q[i][1] : i \in {j \in 1..n : q[j][2] = "read"}}
             /\ a.writers = l.writers \cup {q[i][1] : i \in {j \in 1..n : q[j][2] = "write"}}
             /\ n # 0 => /\ l.writers = {}
                         /\ \/ \A i \in 1..n : q[i][2] = "read"
                            \/ n = 1 /\ l.readers = {}
  BY AdmitShape
<1>2. /\ q \in Seq(H \X Modes) /\ Len(q) \in Nat /\ DOMAIN q = 1..Len(q)
      /\ \A i \in 1..Len(q) : q[i][1] \in H /\ q[i][2] \in Modes
      /\ l.readers \subseteq H /\ l.writers \subseteq H
  BY DEF LockOf
<1>3. /\ a.queue \in Seq(H \X Modes) /\ DOMAIN a.queue = 1..(Len(q) - n)
      /\ \A i \in DOMAIN a.queue : n + i \in 1..Len(q) /\ a.queue[i] = q[n + i]
  <2> HIDE DEF a, q
  <2>1. LET rest == SubSeq(q, n + 1, Len(q))
        IN  /\ rest \in Seq(H \X Modes) /\ DOMAIN rest = 1..(Len(q) - n)
            /\ \A i \in DOMAIN rest : n + i \in 1..Len(q) /\ rest[i] = q[n + i]
    BY <1>2, RestOfQueue
  <2> QED BY <1>1, <2>1
<1>4. a.readers \subseteq H /\ a.writers \subseteq H
  BY <1>1, <1>2
<1>5. a \in LockOf(H)
  BY <1>3, <1>4 DEF Admit, LockOf
<1>6. \A i \in 1..Len(q) : i \in 1..n \/ (i - n \in DOMAIN a.queue /\ a.queue[i - n] = q[i])
  BY <1>1, <1>2, <1>3
<1>7. "read" # "write"
  OBVIOUS
<1> HIDE DEF a
<1>8. Exclusive(a)
  <2>1. CASE n = 0
    <3>1. a.readers = l.readers /\ a.writers = l.writers
      BY <1>1, <2>1
    <3> QED BY <3>1 DEF Exclusive
  <2>2. CASE n # 0 /\ \A i \in 1..n : q[i][2] = "read"
    <3>1. a.writers = {}
      BY <1>1, <1>7, <2>2
    <3> QED BY <3>1 DEF Exclusive
  <2>3. CASE n = 1 /\ l.readers = {} /\ q[1][2] # "read"
    <3>1. a.readers = {} /\ l.writers = {} /\ a.writers \subseteq {q[1][1]}
      BY <1>1, <2>3
    <3> QED BY <3>1 DEF Exclusive
  <2>4. CASE n = 1 /\ q[1][2] = "read"
    BY <2>2, <2>4
  <2> QED BY <1>1, <2>1, <2>2, <2>3, <2>4
<1>9. ASSUME NEW i \in WriteTurns(a) PROVE n + i \in WriteTurns(l) /\ a.queue[i] = q[n + i]
  BY <1>2, <1>3 DEF WriteTurns
<1>10. Writing(a) = Writing(l)
  <2>1. ASSUME NEW h \in Writing(a) PROVE h \in Writing(l)
    <3>1. CASE h \in a.writers
      BY <1>1, <1>2, <3>1 DEF Writing, WriteTurns
    <3>2. CASE h \notin a.writers
      <4>1. PICK i \in WriteTurns(a) : h = a.queue[i][1]
        BY <3>2 DEF Writing
      <4> QED BY <1>9, <4>1 DEF Writing
    <3> QED BY <3>1, <3>2
  <2>2. ASSUME NEW h \in Writing(l) PROVE h \in Writing(a)
    <3>1. CASE h \in l.writers
      BY <1>1, <3>1 DEF Writing
    <3>2. CASE h \notin l.writers
      <4>1. PICK i \in WriteTurns(l) : h = q[i][1]
        BY <3>2 DEF Writing
      <4>2. i \in 1..Len(q) /\ q[i][2] = "write"
        BY <1>2, <4>1 DEF WriteTurns
      <4>3. CASE i \in 1..n
        BY <1>1, <4>1, <4>2, <4>3 DEF Writing
      <4>4. CASE i - n \in DOMAIN a.queue /\ a.queue[i - n] = q[i]
        BY <4>1, <4>2, <4>4 DEF Writing, WriteTurns
      <4> QED BY <1>6, <4>2, <4>3, <4>4
    <3> QED BY <3>1, <3>2
  <2> QED BY <2>1, <2>2
<1>11. ASSUME NEW h, Waits(a, h) PROVE Waits(l, h)
  BY <1>2, <1>3, <1>11 DEF Waits
<1>12. ASSUME NEW R, Ordered(l, R) PROVE Ordered(a, R)
  <2>1. ASSUME NEW i \in WriteTurns(a), NEW j \in WriteTurns(a), i < j
        PROVE  <<a.queue[i][1], a.queue[j][1]>> \in R
    <3>1. n + i < n + j
      BY <1>1, <1>2, <1>3, <2>1 DEF WriteTurns
    <3> QED BY <1>9, <1>12, <3>1 DEF Ordered
  <2>2. ASSUME NEW w \in a.writers, NEW j \in WriteTurns(a)
        PROVE  <<w, a.queue[j][1]>> \in R
    <3>1. CASE w \in l.writers
      BY <1>9, <1>12, <3>1 DEF Ordered
    <3>2. CASE w \notin l.writers
      <4>1. PICK i \in 1..n : w = q[i][1] /\ q[i][2] = "write"
        BY <1>1, <3>2
      <4>2. i \in WriteTurns(l) /\ i < n + j
        BY <1>1, <1>2, <1>3, <4>1 DEF WriteTurns
      <4> QED BY <1>9, <1>12, <4>1, <4>2 DEF Ordered
    <3> QED BY <3>1, <3>2
  <2> QED BY <2>1, <2>2 DEF Ordered
<1> QED BY <1>5, <1>8, <1>10, <1>11, <1>12 DEF a

-----------------------------------------------------------------------------
(* Asking and giving back.                                                 *)

\* A lock nobody has asked for.
LEMMA FreeFacts ==
    ASSUME NEW H
    PROVE  /\ Free \in LockOf(H) /\ Exclusive(Free) /\ Writing(Free) = {}
           /\ \A h : ~ Waits(Free, h)
           /\ \A R : Ordered(Free, R)
  BY DEF Free, LockOf, Exclusive, Writing, WriteTurns, Waits, Ordered

\* Who asks joins those who write or wait to, behind all of them.
LEMMA RequestFacts ==
    ASSUME NEW H, NEW l \in LockOf(H), Exclusive(l), NEW h \in H, NEW mode \in Modes
    PROVE  /\ Request(l, h, mode) \in LockOf(H) /\ Exclusive(Request(l, h, mode))
           /\ Writing(Request(l, h, mode)) = Writing(l) \cup (IF mode = "write" THEN {h} ELSE {})
           /\ \A g : Waits(Request(l, h, mode), g) => Waits(l, g) \/ g = h
           /\ \A R : Ordered(l, R) /\ (mode = "write" => \A g \in Writing(l) : <<g, h>> \in R)
                       => Ordered(Request(l, h, mode), R)
<1> DEFINE q == Append(l.queue, <<h, mode>>)
           a == [l EXCEPT !.queue = Append(@, <<h, mode>>)]
<1>1. l.queue \in Seq(H \X Modes) /\ <<h, mode>> \in H \X Modes
  BY DEF LockOf
<1>2. /\ q \in Seq(H \X Modes) /\ DOMAIN q = 1..(Len(l.queue) + 1)
      /\ \A i \in 1..Len(l.queue) : q[i] = l.queue[i]
      /\ q[Len(l.queue) + 1] = <<h, mode>>
      /\ Len(l.queue) \in Nat /\ DOMAIN l.queue = 1..Len(l.queue)
  BY <1>1
<1>3. a.queue = q /\ a.readers = l.readers /\ a.writers = l.writers
       /\ a \in [readers : SUBSET H, writers : SUBSET H, queue : {q}]
  BY DEF LockOf
<1> HIDE DEF q
<1>4. /\ a \in LockOf(H) /\ a.writers = l.writers /\ a.readers = l.readers
      /\ l.queue \in Seq(H \X Modes) /\ Len(l.queue) \in Nat /\ DOMAIN l.queue = 1..Len(l.queue)
      /\ DOMAIN a.queue = 1..(Len(l.queue) + 1)
      /\ \A i \in 1..Len(l.queue) : a.queue[i] = l.queue[i]
      /\ a.queue[Len(l.queue) + 1] = <<h, mode>>
  BY <1>1, <1>2, <1>3 DEF LockOf
<1>5. Request(l, h, mode) = Admit(a)
  BY DEF Request
<1> HIDE DEF a
<1>6. Exclusive(a)
  BY <1>4 DEF Exclusive
<1>7. WriteTurns(a) = WriteTurns(l) \cup (IF mode = "write" THEN {Len(l.queue) + 1} ELSE {})
  BY <1>4 DEF WriteTurns
<1>8. Writing(a) = Writing(l) \cup (IF mode = "write" THEN {h} ELSE {})
  <2>1. \A i \in WriteTurns(l) : i \in 1..Len(l.queue)
    BY <1>4 DEF WriteTurns
  <2>2. {a.queue[i][1] : i \in WriteTurns(a)}
          = {l.queue[i][1] : i \in WriteTurns(l)} \cup (IF mode = "write" THEN {h} ELSE {})
    <3>1. \A i \in WriteTurns(l) : a.queue[i][1] = l.queue[i][1]
      BY <1>4, <2>1
    <3>2. a.queue[Len(l.queue) + 1][1] = h
      BY <1>4
    <3>3. CASE mode = "write"
      BY <1>7, <3>1, <3>2, <3>3
    <3>4. CASE mode # "write"
      BY <1>7, <3>1, <3>4
    <3> QED BY <3>3, <3>4
  <2> QED BY <1>4, <2>2 DEF Writing
<1>9. ASSUME NEW g, Waits(a, g) PROVE Waits(l, g) \/ g = h
  BY <1>4, <1>9 DEF Waits
<1>10. ASSUME NEW R, Ordered(l, R), mode = "write" => \A g \in Writing(l) : <<g, h>> \in R
      PROVE  Ordered(a, R)
  <2>1. ASSUME NEW i \in WriteTurns(a), NEW j \in WriteTurns(a), i < j
        PROVE  <<a.queue[i][1], a.queue[j][1]>> \in R
    <3>1. i \in WriteTurns(l) /\ i \in 1..Len(l.queue)
      BY <1>4, <1>7, <2>1 DEF WriteTurns
    <3>2. CASE j \in WriteTurns(l)
      BY <1>4, <1>10, <2>1, <3>1, <3>2 DEF Ordered, WriteTurns
    <3>3. CASE j \notin WriteTurns(l)
      BY <1>4, <1>7, <1>10, <3>1, <3>3 DEF Writing
    <3> QED BY <3>2, <3>3
  <2>2. ASSUME NEW w \in a.writers, NEW j \in WriteTurns(a)
        PROVE  <<w, a.queue[j][1]>> \in R
    <3>1. CASE j \in WriteTurns(l)
      BY <1>4, <1>10, <2>2, <3>1 DEF Ordered, WriteTurns
    <3>2. CASE j \notin WriteTurns(l)
      BY <1>4, <1>7, <1>10, <2>2, <3>2 DEF Writing
    <3> QED BY <3>1, <3>2
  <2> QED BY <2>1, <2>2 DEF Ordered
<1> QED BY <1>4, <1>5, <1>6, <1>8, <1>9, <1>10, AdmitFacts

\* Who gives a lock back, and does not wait for it, has nothing to do with it.
LEMMA ReleaseFacts ==
    ASSUME NEW H, NEW l \in LockOf(H), Exclusive(l), NEW h \in H, ~ Waits(l, h)
    PROVE  /\ Release(l, h) \in LockOf(H) /\ Exclusive(Release(l, h))
           /\ Writing(Release(l, h)) = Writing(l) \ {h}
           /\ \A g : Waits(Release(l, h), g) => Waits(l, g)
           /\ \A R : Ordered(l, R) => Ordered(Release(l, h), R)
<1> DEFINE a == [l EXCEPT !.readers = @ \ {h}, !.writers = @ \ {h}]
<1>1. /\ a \in LockOf(H) /\ a.queue = l.queue
      /\ a.writers = l.writers \ {h} /\ a.readers = l.readers \ {h}
  BY DEF LockOf
<1>2. Release(l, h) = Admit(a)
  BY DEF Release
<1> HIDE DEF a
<1>3. Exclusive(a)
  BY <1>1 DEF Exclusive
<1>4. \A i \in WriteTurns(l) : l.queue[i][1] # h
  BY DEF Waits, WriteTurns
<1>5. WriteTurns(a) = WriteTurns(l)
  BY <1>1 DEF WriteTurns
<1>6. Writing(a) = Writing(l) \ {h}
  BY <1>1, <1>4, <1>5 DEF Writing
<1>7. \A g : Waits(a, g) => Waits(l, g)
  BY <1>1 DEF Waits
<1>8. \A R : Ordered(l, R) => Ordered(a, R)
  BY <1>1, <1>5 DEF Ordered
<1> QED BY <1>1, <1>2, <1>3, <1>6, <1>7, <1>8, AdmitFacts

\* Who writes, or waits to, and does not wait is the one writer; everyone else
\* who wants to write waits behind.
LEMMA TheWriter ==
    ASSUME NEW H, NEW l \in LockOf(H), Exclusive(l), NEW h \in Writing(l), ~ Waits(l, h)
    PROVE  /\ l.writers = {h}
           /\ \A R : \A g \in Writing(l) : Ordered(l, R) /\ g # h => <<h, g>> \in R
<1>1. \A i \in WriteTurns(l) : l.queue[i][1] # h
  BY DEF Waits, WriteTurns
<1>2. l.writers = {h}
  BY <1>1 DEF Writing, Exclusive
<1> QED BY <1>2 DEF Writing, Ordered

\* An order that holds among those who write or wait to is all that counts.
LEMMA OrderedOnWriting ==
    ASSUME NEW l, NEW R, NEW S, Ordered(l, R),
           \A g, h \in Writing(l) : <<g, h>> \in R => <<g, h>> \in S
    PROVE  Ordered(l, S)
  BY DEF Ordered, Writing

-----------------------------------------------------------------------------
(* The invariant.                                                          *)

Updating == {"store", "find", "init", "adopt", "root", "clone", "replace",
             "publish", "show", "give up", "fall back"}
Asking == {"look", "answer", "look again", "collect"}
Places == Updating \cup Asking \cup {"unsent", "done"}

ServerTypeOK ==
    /\ editor \in Texts /\ open_documents \in Texts /\ documents \in Texts
    /\ bad \subseteq Handlers
    /\ job \in Seq([kind : Kinds, file : Files]) /\ Len(job) <= Messages
    /\ pc \in [Handlers -> Places]
    /\ turn \in Handlers \cup {0}
    /\ lock \in [docs : LockOf(Handlers), ws : LockOf(Handlers)]
    /\ workspace \in [known : BOOLEAN, texts : Texts]
    /\ snapshot \in [Handlers -> Texts]
    /\ todo \in [Handlers -> SUBSET Files]
    /\ shown \in [Files -> [by : {"nobody", "file", "workspace"}, texts : Texts]]

In(S) == {h \in Handlers : pc[h] \in S}
Storing == In({"store"})
Writers == In({"adopt", "replace"})

\* A handler starts when its message comes, runs what the message asks for, and
\* is polled only when nothing is in its way.
HandlersAgree ==
    /\ \A h \in Handlers : pc[h] = "unsent" <=> h \notin Sent
    /\ \A h \in In(Updating) : job[h].kind \in {"open", "change"}
    /\ \A h \in In({"unsent"}) : ~ Blocked(h)
    /\ turn # 0 => ~ Blocked(turn)

\* No text of the first is newer than the second's.
Below(s, t) == \A f \in Files : s[f] <= t[f]

Earlier == {p \in Handlers \X Handlers : p[1] < p[2]}
NotNewer == {p \in Handlers \X Handlers : Below(snapshot[p[1]], snapshot[p[2]])}

\* The locks are asked for by those who come to write, in the order of their
\* messages and of the texts they have checked.
LocksAgree ==
    /\ Exclusive(lock.docs) /\ Exclusive(lock.ws)
    /\ Writing(lock.docs) = Storing
    /\ Writing(lock.ws) = Writers
    /\ Ordered(lock.docs, Earlier)
    /\ Ordered(lock.ws, NotNewer)

\* The open documents are older than the texts yet to be stored, and no older
\* than those checked, which are no older than the workspace.
TextsAgree ==
    /\ \A f \in Files : open_documents[f] <= Len(job)
    /\ \A h \in Storing : \A f \in Files : open_documents[f] < h
    /\ \A h \in Writers : Below(workspace.texts, snapshot[h]) /\ Below(snapshot[h], open_documents)
    /\ Below(workspace.texts, open_documents)

\* A workspace comes of a text stored, is there when it is read, and a check
\* fails only where a text is bad.
CausesAgree ==
    /\ workspace.known => Stored # {}
    /\ In({"answer", "collect"}) # {} => workspace.known
    /\ In({"give up", "fall back"}) # {} => bad # {}

\* Handlers that will make the workspace one of the open documents.
Pending ==
    In({"find", "init", "root", "clone"}) \cup {h \in Writers : snapshot[h] = open_documents}

CurrentOrPending ==
    Stored # {} /\ Checks(open_documents) =>
        workspace = [known |-> TRUE, texts |-> open_documents] \/ Pending # {}

\* f's diagnostics are those of the open documents, or will be published.
Settled(f) ==
    \/ shown[f] = [by |-> "workspace", texts |-> open_documents]
    \/ In({"find", "init", "root", "clone", "adopt", "replace", "publish"}) # {}
    \/ \E h \in In({"show"}) : f \in todo[h]

ShownOrPending == Stored # {} /\ bad = {} => \A f \in Files : Settled(f)

ServerInv ==
    /\ ServerTypeOK
    /\ HandlersAgree
    /\ LocksAgree
    /\ TextsAgree
    /\ CausesAgree
    /\ CurrentOrPending
    /\ ShownOrPending

\* The messages sent are the first ones.
LEMMA SentFacts ==
    ASSUME ServerTypeOK
    PROVE  Sent = 1..Len(job) /\ Sent \subseteq Handlers /\ Len(job) \in Nat
  BY MessagesAssumption DEF ServerTypeOK, Sent, Handlers

LEMMA JobFacts ==
    ASSUME ServerTypeOK, NEW h \in Sent
    PROVE  h \in Handlers /\ h \in 0..Messages /\ FileOf(h) \in Files
<1> DEFINE J == [kind : Kinds, file : Files]
<1>1. job[h] \in J
  <2>1. job \in Seq(J) /\ h \in 1..Len(job)
    BY SentFacts DEF ServerTypeOK
  <2> HIDE DEF J
  <2> QED BY <2>1
<1>2. h \in Handlers
  BY SentFacts
<1> QED BY <1>1, <1>2, MessagesAssumption DEF FileOf, Handlers

\* The texts with another text of one file.
LEMMA TextFacts ==
    /\ OnDisk \in Texts
    /\ \A t \in Texts, f \in Files, n \in 0..Messages :
         [t EXCEPT ![f] = n] \in Texts /\ \A g \in Files : [t EXCEPT ![f] = n][g] = IF g = f THEN n ELSE t[g]
  BY MessagesAssumption DEF Texts, OnDisk

-----------------------------------------------------------------------------
(* Locks.                                                                  *)

Asks == Modes \cup {"nothing"}

\* h gives a lock back, or does not, and then asks for it, or does not.
Use(l, h, back, ask) ==
    LET m == IF back THEN Release(l, h) ELSE l
    IN  IF ask = "nothing" THEN m ELSE Request(m, h, ask)

\* What that does to the lock, when h does not wait for it.
LEMMA UseFacts ==
    ASSUME NEW H, NEW l \in LockOf(H), Exclusive(l), NEW h \in H, ~ Waits(l, h),
           NEW back \in BOOLEAN, NEW ask \in Asks
    PROVE  /\ Use(l, h, back, ask) \in LockOf(H) /\ Exclusive(Use(l, h, back, ask))
           /\ Writing(Use(l, h, back, ask)) =
                (Writing(l) \ (IF back THEN {h} ELSE {})) \cup (IF ask = "write" THEN {h} ELSE {})
           /\ \A g : Waits(Use(l, h, back, ask), g) => Waits(l, g) \/ g = h
           /\ \A R : Ordered(l, R) /\ (ask = "write" => \A g \in Writing(l) : <<g, h>> \in R)
                       => Ordered(Use(l, h, back, ask), R)
<1> DEFINE m == IF back THEN Release(l, h) ELSE l
<1>1. /\ m \in LockOf(H) /\ Exclusive(m)
      /\ Writing(m) = Writing(l) \ (IF back THEN {h} ELSE {})
      /\ \A g : Waits(m, g) => Waits(l, g)
      /\ \A R : Ordered(l, R) => Ordered(m, R)
  <2>1. CASE back
    BY <2>1, ReleaseFacts
  <2>2. CASE ~ back
    BY <2>2
  <2> QED BY <2>1, <2>2
<1> HIDE DEF m
<1>2. CASE ask = "nothing"
  <2>1. Use(l, h, back, ask) = m
    BY <1>2 DEF Use, m
  <2> QED BY <1>1, <1>2, <2>1
<1>3. CASE ask # "nothing"
  <2>1. ask \in Modes /\ Use(l, h, back, ask) = Request(m, h, ask)
    BY <1>3 DEF Use, m, Asks
  <2>2. /\ Request(m, h, ask) \in LockOf(H) /\ Exclusive(Request(m, h, ask))
        /\ Writing(Request(m, h, ask)) = Writing(m) \cup (IF ask = "write" THEN {h} ELSE {})
        /\ \A g : Waits(Request(m, h, ask), g) => Waits(m, g) \/ g = h
        /\ \A R : Ordered(m, R) /\ (ask = "write" => \A g \in Writing(m) : <<g, h>> \in R)
                    => Ordered(Request(m, h, ask), R)
    BY <1>1, <2>1, RequestFacts
  <2> QED BY <1>1, <2>1, <2>2
<1> QED BY <1>2, <1>3

\* h goes from one place to another and does to the locks what the places say:
\* asks to write where it comes to write, behind all others, and leaves.
HandlerMoves(h, p, docsBack, docsAsk, wsBack, wsAsk) ==
    /\ pc' = [pc EXCEPT ![h] = p]
    /\ lock' = [docs |-> Use(lock.docs, h, docsBack, docsAsk),
                ws |-> Use(lock.ws, h, wsBack, wsAsk)]
    /\ turn' \in {0, h} /\ (turn' = h => ~ Waits(lock'.docs, h) /\ ~ Waits(lock'.ws, h))
    /\ pc[h] = "store" => docsBack
    /\ p = "store" <=> docsAsk = "write"
    /\ p = "store" => \A g \in Storing : g < h
    /\ pc[h] \in {"adopt", "replace"} => wsBack
    /\ p \in {"adopt", "replace"} <=> wsAsk = "write"
    /\ p \in {"adopt", "replace"} => pc[h] \notin {"adopt", "replace"}
    /\ p \in {"adopt", "replace"} => \A g \in Writers : Below(snapshot[g], snapshot'[h])
    /\ \A g \in Writers \ {h} : snapshot'[g] = snapshot[g]

\* Such a move keeps the locks in step with the handlers.
LEMMA LocksMove ==
    ASSUME ServerTypeOK, HandlersAgree, LocksAgree, NEW h \in Handlers, ~ Blocked(h),
           NEW p \in Updating \cup Asking \cup {"done"},
           NEW db \in BOOLEAN, NEW da \in Asks, NEW wb \in BOOLEAN, NEW wa \in Asks,
           HandlerMoves(h, p, db, da, wb, wa)
    PROVE  /\ LocksAgree'
           /\ lock' \in [docs : LockOf(Handlers), ws : LockOf(Handlers)]
           /\ pc' \in [Handlers -> Places] /\ turn' \in Handlers \cup {0}
           /\ \A g \in In({"unsent"})' : g \in In({"unsent"}) /\ ~ Blocked(g)'
           /\ turn' # 0 => ~ Blocked(turn)'
<1>1. /\ lock.docs \in LockOf(Handlers) /\ lock.ws \in LockOf(Handlers)
      /\ Exclusive(lock.docs) /\ Exclusive(lock.ws) /\ ~ Waits(lock.docs, h) /\ ~ Waits(lock.ws, h)
      /\ Writing(lock.docs) = Storing /\ Writing(lock.ws) = Writers
      /\ Ordered(lock.docs, Earlier) /\ Ordered(lock.ws, NotNewer)
  BY DEF ServerTypeOK, LocksAgree, Blocked
<1>2. /\ pc' = [pc EXCEPT ![h] = p] /\ pc \in [Handlers -> Places] /\ p \in Places /\ p # "unsent"
      /\ lock'.docs = Use(lock.docs, h, db, da) /\ lock'.ws = Use(lock.ws, h, wb, wa)
      /\ lock' = [docs |-> lock'.docs, ws |-> lock'.ws]
  BY DEF HandlerMoves, ServerTypeOK, Places, Updating, Asking
<1>3. /\ lock'.docs \in LockOf(Handlers) /\ Exclusive(lock'.docs)
      /\ Writing(lock'.docs) = (Storing \ (IF db THEN {h} ELSE {})) \cup (IF da = "write" THEN {h} ELSE {})
      /\ \A g : Waits(lock'.docs, g) => Waits(lock.docs, g) \/ g = h
      /\ \A R : Ordered(lock.docs, R) /\ (da = "write" => \A g \in Storing : <<g, h>> \in R)
                  => Ordered(lock'.docs, R)
  BY <1>1, <1>2, UseFacts
<1>4. /\ lock'.ws \in LockOf(Handlers) /\ Exclusive(lock'.ws)
      /\ Writing(lock'.ws) = (Writers \ (IF wb THEN {h} ELSE {})) \cup (IF wa = "write" THEN {h} ELSE {})
      /\ \A g : Waits(lock'.ws, g) => Waits(lock.ws, g) \/ g = h
      /\ \A R : Ordered(lock.ws, R) /\ (wa = "write" => \A g \in Writers : <<g, h>> \in R)
                  => Ordered(lock'.ws, R)
  BY <1>1, <1>2, UseFacts
<1>5. \A g \in Handlers : pc'[g] = IF g = h THEN p ELSE pc[g]
  BY <1>2
<1>6. Writing(lock'.docs) = Storing'
  BY <1>3, <1>5 DEF HandlerMoves, In, Storing
<1>7. Writing(lock'.ws) = Writers'
  BY <1>4, <1>5 DEF HandlerMoves, In, Writers
<1>8. Ordered(lock'.docs, Earlier)
  BY <1>1, <1>3 DEF HandlerMoves, Earlier, Storing, In
<1>9. /\ h \in Writers => wb /\ wa # "write"
      /\ wa = "write" => \A g \in Writers : Below(snapshot[g], snapshot'[h])
      /\ \A g \in Writers \ {h} : snapshot'[g] = snapshot[g]
  BY DEF HandlerMoves, Writers, In
<1>10. Ordered(lock'.ws, NotNewer')
  <2>1. CASE wa = "write"
    <3> DEFINE R == {q \in NotNewer : h \notin {q[1], q[2]}} \cup {q \in Handlers \X Handlers : q[1] # h /\ q[2] = h}
    <3>1. h \notin Writers /\ Writers \subseteq Handlers /\ Writing(lock'.ws) \subseteq Writers \cup {h}
      BY <1>4, <1>9, <2>1 DEF Writers, In
    <3>2. \A g, k \in Writing(lock.ws) : <<g, k>> \in NotNewer => <<g, k>> \in R
      BY <1>1, <3>1
    <3>3. Ordered(lock.ws, R)
      BY <1>1, <3>2, OrderedOnWriting
    <3>4. \A g \in Writers : <<g, h>> \in R
      BY <3>1
    <3>5. Ordered(lock'.ws, R)
      BY <1>4, <3>3, <3>4
    <3>6. ASSUME NEW g \in Writing(lock'.ws), NEW k \in Writing(lock'.ws), <<g, k>> \in R
          PROVE  <<g, k>> \in NotNewer'
      <4>1. g \in Handlers /\ k \in Handlers /\ g # h /\ g \in Writers
        BY <3>1, <3>6
      <4>2. CASE k = h
        BY <1>9, <2>1, <4>1, <4>2 DEF NotNewer, Below
      <4>3. CASE k # h
        <5>1. k \in Writers /\ <<g, k>> \in NotNewer
          BY <3>1, <3>6, <4>3
        <5> QED BY <1>9, <4>1, <4>3, <5>1 DEF NotNewer, Below
      <4> QED BY <4>2, <4>3
    <3> QED BY <3>5, <3>6, OrderedOnWriting
  <2>2. CASE wa # "write"
    <3>1. Ordered(lock'.ws, NotNewer)
      BY <1>1, <1>4, <2>2
    <3>2. Writing(lock'.ws) \subseteq Writers \ {h}
      BY <1>4, <1>9, <2>2
    <3>3. \A g, k \in Writing(lock'.ws) : <<g, k>> \in NotNewer => <<g, k>> \in NotNewer'
      BY <1>9, <3>2 DEF NotNewer
    <3> QED BY <3>1, <3>3, OrderedOnWriting
  <2> QED BY <2>1, <2>2
<1>11. LocksAgree'
  BY <1>3, <1>4, <1>6, <1>7, <1>8, <1>10 DEF LocksAgree, Earlier
<1>12. ASSUME NEW g \in In({"unsent"})' PROVE g \in In({"unsent"}) /\ ~ Blocked(g)'
  BY <1>2, <1>3, <1>4, <1>5 DEF In, HandlersAgree, Blocked
<1>13. turn' # 0 => ~ Blocked(turn)'
  BY DEF HandlerMoves, Blocked
<1>14. turn' \in Handlers \cup {0} /\ pc' \in [Handlers -> Places]
  BY <1>2 DEF HandlerMoves
<1> QED BY <1>2, <1>3, <1>4, <1>11, <1>12, <1>13, <1>14

\* One lock of the two changes.
LEMMA OneLock ==
    ASSUME NEW d, NEW w, NEW x, NEW r, r = [docs |-> d, ws |-> w]
    PROVE  /\ [r EXCEPT !["docs"] = x] = [docs |-> x, ws |-> w]
           /\ [r EXCEPT !["ws"] = x] = [docs |-> d, ws |-> x]
<1> DEFINE D == {d, w, x}
           a == [r EXCEPT !["docs"] = x]
           b == [r EXCEPT !["ws"] = x]
<1>1. r \in [docs : D, ws : D] /\ r.docs = d /\ r.ws = w /\ d \in D /\ w \in D /\ x \in D
  OBVIOUS
<1> HIDE DEF D
<1>2. a \in [docs : D, ws : D] /\ a.docs = x /\ a.ws = w
  BY <1>1
<1>3. b \in [docs : D, ws : D] /\ b.docs = d /\ b.ws = x
  BY <1>1
<1> HIDE DEF a, b
<1>4. a = [docs |-> a.docs, ws |-> a.ws] /\ b = [docs |-> b.docs, ws |-> b.ws]
  BY <1>2, <1>3
<1> QED BY <1>2, <1>3, <1>4 DEF a, b

\* How the handlers' lock calls read as a use of each lock.
LEMMA Lockings ==
    ASSUME NEW d, NEW w, NEW h, NEW m, NEW r, r = [docs |-> d, ws |-> w]
    PROVE  /\ Locking(r, "docs", h, m) = [docs |-> Request(d, h, m), ws |-> w]
           /\ Locking(r, "ws", h, m) = [docs |-> d, ws |-> Request(w, h, m)]
<1>1. r["docs"] = d /\ r["ws"] = w
  OBVIOUS
<1>2. /\ Locking(r, "docs", h, m) = [r EXCEPT !["docs"] = Request(d, h, m)]
      /\ Locking(r, "ws", h, m) = [r EXCEPT !["ws"] = Request(w, h, m)]
  BY <1>1 DEF Locking
<1> QED BY <1>2, OneLock

LEMMA Unlockings ==
    ASSUME NEW d, NEW w, NEW h, lock = [docs |-> d, ws |-> w]
    PROVE  /\ Unlocked("docs", h) = [docs |-> Release(d, h), ws |-> w]
           /\ Unlocked("ws", h) = [docs |-> d, ws |-> Release(w, h)]
           /\ AllUnlocked(h) = [docs |-> Release(d, h), ws |-> Release(w, h)]
<1>1. lock["docs"] = d /\ lock["ws"] = w
  OBVIOUS
<1>2. /\ Unlocked("docs", h) = [lock EXCEPT !["docs"] = Release(d, h)]
      /\ Unlocked("ws", h) = [lock EXCEPT !["ws"] = Release(w, h)]
  BY <1>1 DEF Unlocked
<1>3. AllUnlocked(h) = [docs |-> Release(d, h), ws |-> Release(w, h)]
  BY <1>1 DEF AllUnlocked
<1> QED BY <1>2, <1>3, OneLock

LEMMA LockUses ==
    ASSUME lock \in [docs : LockOf(Handlers), ws : LockOf(Handlers)], NEW h, NEW m \in Modes
    PROVE  LET uses(db, da, wb, wa) == [docs |-> Use(lock.docs, h, db, da), ws |-> Use(lock.ws, h, wb, wa)]
           IN  /\ lock = uses(FALSE, "nothing", FALSE, "nothing")
               /\ Locking(lock, "docs", h, m) = uses(FALSE, m, FALSE, "nothing")
               /\ Locking(lock, "ws", h, m) = uses(FALSE, "nothing", FALSE, m)
               /\ Locking(Unlocked("docs", h), "ws", h, m) = uses(TRUE, "nothing", FALSE, m)
               /\ Locking(Unlocked("ws", h), "docs", h, m) = uses(FALSE, m, TRUE, "nothing")
               /\ Locking(Unlocked("ws", h), "ws", h, m) = uses(FALSE, "nothing", TRUE, m)
               /\ Locking(AllUnlocked(h), "ws", h, m) = uses(TRUE, "nothing", TRUE, m)
               /\ AllUnlocked(h) = uses(TRUE, "nothing", TRUE, "nothing")
               /\ Unlocked("docs", h) = uses(TRUE, "nothing", FALSE, "nothing")
<1> DEFINE d == lock.docs
           w == lock.ws
<1>1. /\ \A l : Use(l, h, FALSE, "nothing") = l /\ Use(l, h, TRUE, "nothing") = Release(l, h)
      /\ \A l : Use(l, h, FALSE, m) = Request(l, h, m) /\ Use(l, h, TRUE, m) = Request(Release(l, h), h, m)
  BY DEF Use, Modes
<1>2. lock = [docs |-> d, ws |-> w]
  OBVIOUS
<1> HIDE DEF d, w
<1>3. /\ Unlocked("docs", h) = [docs |-> Release(d, h), ws |-> w]
      /\ Unlocked("ws", h) = [docs |-> d, ws |-> Release(w, h)]
      /\ AllUnlocked(h) = [docs |-> Release(d, h), ws |-> Release(w, h)]
  BY <1>2, Unlockings
<1>4. /\ Locking(lock, "docs", h, m) = [docs |-> Request(d, h, m), ws |-> w]
      /\ Locking(lock, "ws", h, m) = [docs |-> d, ws |-> Request(w, h, m)]
  BY <1>2, Lockings
<1>5. Locking(Unlocked("docs", h), "ws", h, m) = [docs |-> Release(d, h), ws |-> Request(w, h, m)]
  BY <1>3, Lockings
<1>6. Locking(Unlocked("ws", h), "docs", h, m) = [docs |-> Request(d, h, m), ws |-> Release(w, h)]
  BY <1>3, Lockings
<1>7. Locking(Unlocked("ws", h), "ws", h, m) = [docs |-> d, ws |-> Request(Release(w, h), h, m)]
  BY <1>3, Lockings
<1>8. Locking(AllUnlocked(h), "ws", h, m) = [docs |-> Release(d, h), ws |-> Request(Release(w, h), h, m)]
  BY <1>3, Lockings
<1> QED BY <1>1, <1>2, <1>3, <1>4, <1>5, <1>6, <1>7, <1>8 DEF d, w

-----------------------------------------------------------------------------
(* The steps of a handler that leave the texts and the workspace alone.    *)

\* The places before an update's diagnostics are published.
Checking == {"find", "init", "root", "clone", "adopt", "replace", "publish"}

\* h goes on at p.
GoesOn(h, p) ==
    /\ p \in Updating \cup Asking \cup {"done"}
    /\ p \in Updating => pc[h] \in Updating
    /\ \E db, wb \in BOOLEAN : \E da, wa \in Asks : HandlerMoves(h, p, db, da, wb, wa)
    /\ UNCHANGED editorVars
    /\ \A g \in Handlers \ {h} : snapshot'[g] = snapshot[g] /\ todo'[g] = todo[g]

\* Whoever goes on is where its message took it.
LEMMA GoingOn ==
    ASSUME ServerInv, NEW h \in Handlers, h \in Sent, ~ Blocked(h), NEW p, GoesOn(h, p)
    PROVE  /\ LocksAgree' /\ HandlersAgree'
           /\ lock' \in [docs : LockOf(Handlers), ws : LockOf(Handlers)]
           /\ pc' \in [Handlers -> Places] /\ turn' \in Handlers \cup {0}
           /\ \A g \in Handlers : pc'[g] = IF g = h THEN p ELSE pc[g]
<1>1. /\ p \in Updating \cup Asking \cup {"done"} /\ p # "unsent"
      /\ p \in Updating => pc[h] \in Updating
      /\ job' = job /\ Sent' = Sent
  BY DEF GoesOn, editorVars, Updating, Asking, Sent
<1>2. PICK db \in BOOLEAN, wb \in BOOLEAN, da \in Asks, wa \in Asks : HandlerMoves(h, p, db, da, wb, wa)
  BY DEF GoesOn
<1>3. /\ LocksAgree'
      /\ lock' \in [docs : LockOf(Handlers), ws : LockOf(Handlers)]
      /\ pc' \in [Handlers -> Places] /\ turn' \in Handlers \cup {0}
      /\ \A g \in In({"unsent"})' : g \in In({"unsent"}) /\ ~ Blocked(g)'
      /\ turn' # 0 => ~ Blocked(turn)'
  BY <1>1, <1>2, LocksMove DEF ServerInv
<1>4. \A g \in Handlers : pc'[g] = IF g = h THEN p ELSE pc[g]
  BY <1>2 DEF HandlerMoves, ServerInv, ServerTypeOK
<1>5. \A g \in Handlers : pc'[g] = "unsent" <=> g \notin Sent'
  BY <1>1, <1>4 DEF ServerInv, HandlersAgree
<1>6. \A g \in In(Updating)' : job'[g].kind \in {"open", "change"}
  BY <1>1, <1>4 DEF ServerInv, HandlersAgree, In
<1> QED BY <1>3, <1>4, <1>5, <1>6 DEF HandlersAgree

\* Texts, workspace and diagnostics stay; where h was the one to bring them up
\* to date, it still is, or the texts cannot be checked.
Plain(h, p) ==
    /\ UNCHANGED <<open_documents, workspace>>
    /\ pc[h] # "store" /\ p # "store"
    /\ p \in {"adopt", "replace"} => snapshot'[h] = open_documents
    /\ p \in {"answer", "collect"} => workspace.known
    /\ p \in {"give up", "fall back"} => bad # {}
    /\ h \in Pending => h \in Pending' \/ ~ Checks(open_documents)

LEMMA PlainTexts ==
    ASSUME ServerInv, NEW h \in Handlers, h \in Sent, NEW p, GoesOn(h, p), Plain(h, p),
           \A g \in Handlers : pc'[g] = IF g = h THEN p ELSE pc[g]
    PROVE  TextsAgree' /\ CausesAgree' /\ CurrentOrPending'
<1>1. /\ job' = job /\ bad' = bad /\ open_documents' = open_documents /\ workspace' = workspace
      /\ Sent' = Sent
      /\ \A g \in Handlers \ {h} : pc'[g] = pc[g] /\ snapshot'[g] = snapshot[g]
      /\ pc'[h] = p
  BY DEF GoesOn, Plain, editorVars, Sent
<1>2. Sent \subseteq Handlers /\ open_documents \in Texts
  BY SentFacts DEF ServerInv, ServerTypeOK
<1>3. Stored' = Stored
  BY <1>1, <1>2 DEF Stored, Plain
<1>4. TextsAgree'
  <2>1. Storing' = Storing
    BY <1>1 DEF Storing, In, Plain
  <2>2. ASSUME NEW g \in Writers' PROVE Below(workspace.texts, snapshot'[g]) /\ Below(snapshot'[g], open_documents)
    <3>1. CASE g = h
      <4>1. snapshot'[g] = open_documents
        BY <1>1, <2>2, <3>1 DEF Writers, In, Plain
      <4>2. \A f \in Files : open_documents[f] <= open_documents[f]
        BY <1>2 DEF Texts
      <4> QED BY <4>1, <4>2 DEF ServerInv, TextsAgree, Below
    <3>2. CASE g # h
      BY <1>1, <2>2, <3>2 DEF Writers, In, ServerInv, TextsAgree
    <3> QED BY <3>1, <3>2
  <2> QED BY <1>1, <2>1, <2>2 DEF ServerInv, TextsAgree, Below
<1>5. CausesAgree'
  <2>1. ASSUME NEW g \in In({"answer", "collect"})' PROVE workspace.known
    BY <1>1, <2>1 DEF In, Plain, ServerInv, CausesAgree
  <2>2. ASSUME NEW g \in In({"give up", "fall back"})' PROVE bad # {}
    BY <1>1, <2>2 DEF In, Plain, ServerInv, CausesAgree
  <2> QED BY <1>1, <1>3, <2>1, <2>2 DEF ServerInv, CausesAgree
<1>6. CurrentOrPending'
  <2>1. Checks(open_documents)' = Checks(open_documents)
    BY <1>1 DEF Checks
  <2>2. ASSUME NEW g \in Pending, g # h PROVE g \in Pending'
    BY <1>1, <2>2 DEF Pending, In, Writers
  <2> QED BY <1>1, <1>3, <2>1, <2>2 DEF ServerInv, CurrentOrPending, Plain
<1> QED BY <1>4, <1>5, <1>6

\* So do the diagnostics: an update either goes on with its check, or publishes
\* for every file, or gives up over a bad text; one that leaves has published.
PlainlyShown(h, p) ==
    \/ bad # {}
    \/ /\ shown' = shown
       /\ pc[h] \in Checking => p \in Checking \/ (p = "show" /\ todo'[h] = Files)
       /\ pc[h] = "show" => todo[h] = {}

LEMMA PlainDiagnostics ==
    ASSUME ServerInv, NEW h \in Handlers, h \in Sent, NEW p, GoesOn(h, p), Plain(h, p), PlainlyShown(h, p),
           \A g \in Handlers : pc'[g] = IF g = h THEN p ELSE pc[g]
    PROVE  ShownOrPending'
<1>1. /\ job' = job /\ bad' = bad /\ open_documents' = open_documents
      /\ Sent' = Sent
      /\ \A g \in Handlers \ {h} : pc'[g] = pc[g] /\ todo'[g] = todo[g]
      /\ pc'[h] = p
  BY DEF GoesOn, Plain, editorVars, Sent
<1>2. Sent \subseteq Handlers
  BY SentFacts DEF ServerInv
<1>3. Stored' = Stored
  BY <1>1, <1>2 DEF Stored, Plain
<1>4. SUFFICES ASSUME Stored # {}, bad = {}, NEW f \in Files PROVE Settled(f)'
  BY <1>1, <1>3 DEF ShownOrPending
<1>5. Settled(f) /\ shown' = shown
  BY <1>4 DEF ServerInv, ShownOrPending, PlainlyShown
<1>6. CASE shown[f] = [by |-> "workspace", texts |-> open_documents]
  BY <1>1, <1>5, <1>6 DEF Settled
<1>7. ASSUME NEW g \in In(Checking) PROVE Settled(f)'
  <2>1. CASE pc'[g] \in Checking
    BY <2>1 DEF Settled, In, Checking
  <2>2. CASE g = h /\ p = "show" /\ todo'[h] = Files
    BY <1>1, <2>2 DEF Settled, In
  <2> QED BY <1>1, <1>4, <1>7, <2>1, <2>2 DEF PlainlyShown, In
<1>8. ASSUME NEW g \in In({"show"}), f \in todo[g] PROVE Settled(f)'
  <2>1. g # h
    BY <1>4, <1>8 DEF PlainlyShown, In
  <2> QED BY <1>1, <1>8, <2>1 DEF Settled, In
<1> QED BY <1>5, <1>6, <1>7, <1>8 DEF Settled, Checking

\* A plain step keeps the invariant.
LEMMA PlainStep ==
    ASSUME ServerInv, NEW h \in Handlers, h \in Sent, ~ Blocked(h),
           NEW p, GoesOn(h, p), Plain(h, p), PlainlyShown(h, p),
           documents' \in Texts, snapshot' \in [Handlers -> Texts],
           todo' \in [Handlers -> SUBSET Files],
           shown' \in [Files -> [by : {"nobody", "file", "workspace"}, texts : Texts]]
    PROVE  ServerInv'
<1>1. /\ LocksAgree' /\ HandlersAgree'
      /\ lock' \in [docs : LockOf(Handlers), ws : LockOf(Handlers)]
      /\ pc' \in [Handlers -> Places] /\ turn' \in Handlers \cup {0}
      /\ \A g \in Handlers : pc'[g] = IF g = h THEN p ELSE pc[g]
  BY GoingOn
<1>2. ServerTypeOK'
  BY <1>1 DEF ServerInv, ServerTypeOK, GoesOn, Plain, editorVars
<1>3. TextsAgree' /\ CausesAgree' /\ CurrentOrPending'
  BY <1>1, PlainTexts
<1>4. ShownOrPending'
  BY <1>1, PlainDiagnostics
<1> QED BY <1>1, <1>2, <1>3, <1>4 DEF ServerInv

\* The handler polled has its message and waits for no lock.
LEMMA Polled ==
    ASSUME ServerInv, NEW h \in Handlers, turn = h, pc[h] # "unsent"
    PROVE  h \in Sent /\ ~ Blocked(h)
  BY DEF ServerInv, HandlersAgree, Handlers

\* To wait for a lock is to move.
LEMMA Awaiting ==
    ASSUME ServerInv, NEW h \in Handlers, NEW p, NEW locks,
           NEW db \in BOOLEAN, NEW wb \in BOOLEAN, NEW da \in Asks, NEW wa \in Asks,
           locks = [docs |-> Use(lock.docs, h, db, da), ws |-> Use(lock.ws, h, wb, wa)],
           Await(h, p, locks) \/ (Return(h, locks) /\ p = "done"),
           pc[h] = "store" => db, p = "store" <=> da = "write", p = "store" => \A g \in Storing : g < h,
           pc[h] \in {"adopt", "replace"} => wb, p \in {"adopt", "replace"} <=> wa = "write",
           p \in {"adopt", "replace"} =>
               pc[h] \notin {"adopt", "replace"} /\ snapshot'[h] = open_documents,
           \A g \in Handlers \ {h} : snapshot'[g] = snapshot[g]
    PROVE  HandlerMoves(h, p, db, da, wb, wa)
<1>1. pc' = [pc EXCEPT ![h] = p] /\ lock' = locks
  BY DEF Await, Return
<1>2. turn' \in {0, h} /\ (turn' = h => ~ Waits(lock'.docs, h) /\ ~ Waits(lock'.ws, h))
  BY DEF Await, Return, Handlers
<1>3. ASSUME p \in {"adopt", "replace"}, NEW g \in Writers PROVE Below(snapshot[g], snapshot'[h])
  BY <1>3 DEF ServerInv, TextsAgree
<1> QED BY <1>1, <1>2, <1>3 DEF HandlerMoves, Writers, In

\* Whoever sends the editor a message moves too.
LEMMA Saying ==
    ASSUME ServerInv, NEW h \in Handlers, ~ Blocked(h), NEW p, NEW db \in BOOLEAN, NEW wb \in BOOLEAN,
           Say(h, p),
           lock' = [docs |-> Use(lock.docs, h, db, "nothing"), ws |-> Use(lock.ws, h, wb, "nothing")],
           p \notin {"store", "adopt", "replace"}, pc[h] = "store" => db,
           pc[h] \in {"adopt", "replace"} => wb,
           \A g \in Handlers \ {h} : snapshot'[g] = snapshot[g]
    PROVE  HandlerMoves(h, p, db, "nothing", wb, "nothing")
<1>1. ~ Waits(Use(lock.docs, h, db, "nothing"), h) /\ ~ Waits(Use(lock.ws, h, wb, "nothing"), h)
  <2>1. \A l, back : Use(l, h, back, "nothing") = IF back THEN Release(l, h) ELSE l
    BY DEF Use
  <2> QED BY <2>1, ReleaseFacts DEF Blocked, ServerInv, ServerTypeOK, LocksAgree
<1> QED BY <1>1 DEF Say, HandlerMoves, Writers, In

-----------------------------------------------------------------------------
(* One lemma for each of these steps.                                      *)

LEMMA FindStep ==
    ASSUME ServerInv, NEW h \in Handlers, Find(h)
    PROVE  ServerInv'
<1>1. turn = h /\ pc[h] = "find" /\ h \in Sent /\ ~ Blocked(h)
  BY Polled DEF Find, At
<1>2. UNCHANGED <<editorVars, dataVars>>
  BY DEF Find
<1>3. CASE workspace.known
  <2>1. Await(h, "root", Locking(Unlocked("ws", h), "ws", h, "read"))
    BY <1>3 DEF Find
  <2>2. HandlerMoves(h, "root", FALSE, "nothing", TRUE, "read")
    BY <1>1, <1>2, <2>1, LockUses, Awaiting DEF ServerInv, ServerTypeOK, Asks, Modes, dataVars
  <2>3. GoesOn(h, "root")
    BY <1>1, <1>2, <2>2 DEF GoesOn, Updating, Asks, Modes, dataVars
  <2>4. Plain(h, "root") /\ PlainlyShown(h, "root")
    BY <1>1, <1>2, <2>2 DEF Plain, PlainlyShown, Checking, dataVars, HandlerMoves, Pending, In, Writers, ServerInv, ServerTypeOK
  <2> QED BY <1>1, <1>2, <2>3, <2>4, PlainStep DEF ServerInv, ServerTypeOK, dataVars
<1>4. CASE ~ workspace.known
  <2>1. Await(h, "init", Locking(Unlocked("ws", h), "docs", h, "read"))
    BY <1>4 DEF Find
  <2>2. HandlerMoves(h, "init", FALSE, "read", TRUE, "nothing")
    BY <1>1, <1>2, <2>1, LockUses, Awaiting DEF ServerInv, ServerTypeOK, Asks, Modes, dataVars
  <2>3. GoesOn(h, "init")
    BY <1>1, <1>2, <2>2 DEF GoesOn, Updating, Asks, Modes, dataVars
  <2>4. Plain(h, "init") /\ PlainlyShown(h, "init")
    BY <1>1, <1>2, <2>2 DEF Plain, PlainlyShown, Checking, dataVars, HandlerMoves, Pending, In, Writers, ServerInv, ServerTypeOK
  <2> QED BY <1>1, <1>2, <2>3, <2>4, PlainStep DEF ServerInv, ServerTypeOK, dataVars
<1> QED BY <1>3, <1>4

LEMMA InitStep ==
    ASSUME ServerInv, NEW h \in Handlers, Init(h)
    PROVE  ServerInv'
<1>1. turn = h /\ pc[h] = "init" /\ h \in Sent /\ ~ Blocked(h)
  BY Polled DEF Init, At
<1>2. UNCHANGED <<editorVars, open_documents, documents, workspace, todo, shown>>
  BY DEF Init
<1>3. CASE Checks(open_documents)
  <2>1. /\ snapshot' = [snapshot EXCEPT ![h] = open_documents]
        /\ Await(h, "adopt", Locking(lock, "ws", h, "write"))
    BY <1>3 DEF Init
  <2>2. /\ snapshot' \in [Handlers -> Texts] /\ snapshot'[h] = open_documents
        /\ \A g \in Handlers \ {h} : snapshot'[g] = snapshot[g]
    BY <2>1 DEF ServerInv, ServerTypeOK
  <2>3. HandlerMoves(h, "adopt", FALSE, "nothing", FALSE, "write")
    BY <1>1, <1>2, <2>1, <2>2, LockUses, Awaiting DEF ServerInv, ServerTypeOK, Asks, Modes
  <2>4. GoesOn(h, "adopt")
    BY <1>1, <1>2, <2>2, <2>3 DEF GoesOn, Updating, Asks, Modes
  <2>5. Plain(h, "adopt") /\ PlainlyShown(h, "adopt")
    BY <1>1, <1>2, <2>2, <2>3 DEF Plain, PlainlyShown, Checking, HandlerMoves, Pending, In, Writers, ServerInv, ServerTypeOK
  <2> QED BY <1>1, <1>2, <2>2, <2>4, <2>5, PlainStep DEF ServerInv, ServerTypeOK
<1>4. CASE ~ Checks(open_documents)
  <2>1. Say(h, "give up") /\ UNCHANGED <<lock, snapshot>> /\ bad # {}
    BY <1>4 DEF Init, Checks
  <2>2. HandlerMoves(h, "give up", FALSE, "nothing", FALSE, "nothing")
    BY <1>1, <1>2, <2>1, LockUses, Saying DEF ServerInv, ServerTypeOK, Modes
  <2>3. GoesOn(h, "give up")
    BY <1>1, <1>2, <2>1, <2>2 DEF GoesOn, Updating, Asks, Modes
  <2>4. Plain(h, "give up") /\ PlainlyShown(h, "give up")
    BY <1>1, <1>2, <1>4, <2>1 DEF Plain, PlainlyShown
  <2> QED BY <1>1, <1>2, <2>1, <2>3, <2>4, PlainStep DEF ServerInv, ServerTypeOK
<1> QED BY <1>3, <1>4

LEMMA RootStep ==
    ASSUME ServerInv, NEW h \in Handlers, Root(h)
    PROVE  ServerInv'
<1>1. turn = h /\ pc[h] = "root" /\ h \in Sent /\ ~ Blocked(h)
  BY Polled DEF Root, At
<1>2. UNCHANGED <<editorVars, dataVars>> /\ Await(h, "clone", Locking(Unlocked("ws", h), "docs", h, "read"))
  BY DEF Root
<1>3. HandlerMoves(h, "clone", FALSE, "read", TRUE, "nothing")
  BY <1>1, <1>2, LockUses, Awaiting DEF ServerInv, ServerTypeOK, Asks, Modes, dataVars
<1>4. GoesOn(h, "clone")
  BY <1>1, <1>2, <1>3 DEF GoesOn, Updating, Asks, Modes, dataVars
<1>5. Plain(h, "clone") /\ PlainlyShown(h, "clone")
  BY <1>1, <1>2, <1>3 DEF Plain, PlainlyShown, Checking, dataVars, HandlerMoves, Pending, In, Writers, ServerInv, ServerTypeOK
<1> QED BY <1>1, <1>2, <1>4, <1>5, PlainStep DEF ServerInv, ServerTypeOK, dataVars

LEMMA CloneStep ==
    ASSUME ServerInv, NEW h \in Handlers, Clone(h)
    PROVE  ServerInv'
<1>1. turn = h /\ pc[h] = "clone" /\ h \in Sent /\ ~ Blocked(h)
  BY Polled DEF Clone, At
<1>2. UNCHANGED <<editorVars, open_documents, documents, workspace, todo, shown>>
  BY DEF Clone
<1>3. CASE Checks(open_documents)
  <2>1. /\ snapshot' = [snapshot EXCEPT ![h] = open_documents]
        /\ Await(h, "replace", Locking(Unlocked("docs", h), "ws", h, "write"))
    BY <1>3 DEF Clone
  <2>2. /\ snapshot' \in [Handlers -> Texts] /\ snapshot'[h] = open_documents
        /\ \A g \in Handlers \ {h} : snapshot'[g] = snapshot[g]
    BY <2>1 DEF ServerInv, ServerTypeOK
  <2>3. HandlerMoves(h, "replace", TRUE, "nothing", FALSE, "write")
    BY <1>1, <1>2, <2>1, <2>2, LockUses, Awaiting DEF ServerInv, ServerTypeOK, Asks, Modes
  <2>4. GoesOn(h, "replace")
    BY <1>1, <1>2, <2>2, <2>3 DEF GoesOn, Updating, Asks, Modes
  <2>5. Plain(h, "replace") /\ PlainlyShown(h, "replace")
    BY <1>1, <1>2, <2>2, <2>3 DEF Plain, PlainlyShown, Checking, HandlerMoves, Pending, In, Writers, ServerInv, ServerTypeOK
  <2> QED BY <1>1, <1>2, <2>2, <2>4, <2>5, PlainStep DEF ServerInv, ServerTypeOK
<1>4. CASE ~ Checks(open_documents)
  <2>1. Say(h, "fall back") /\ lock' = Unlocked("docs", h) /\ UNCHANGED snapshot /\ bad # {}
    BY <1>4 DEF Clone, Checks
  <2>2. HandlerMoves(h, "fall back", TRUE, "nothing", FALSE, "nothing")
    BY <1>1, <1>2, <2>1, LockUses, Saying DEF ServerInv, ServerTypeOK, Modes
  <2>3. GoesOn(h, "fall back")
    BY <1>1, <1>2, <2>1, <2>2 DEF GoesOn, Updating, Asks, Modes
  <2>4. Plain(h, "fall back") /\ PlainlyShown(h, "fall back")
    BY <1>1, <1>2, <1>4, <2>1 DEF Plain, PlainlyShown
  <2> QED BY <1>1, <1>2, <2>1, <2>3, <2>4, PlainStep DEF ServerInv, ServerTypeOK
<1> QED BY <1>3, <1>4

LEMMA PublishStep ==
    ASSUME ServerInv, NEW h \in Handlers, Publish(h)
    PROVE  ServerInv'
<1>1. turn = h /\ pc[h] = "publish" /\ h \in Sent /\ ~ Blocked(h)
  BY Polled DEF Publish, At
<1>2. /\ UNCHANGED <<editorVars, open_documents, documents, workspace, snapshot, shown>>
      /\ todo' = [todo EXCEPT ![h] = Files]
      /\ Await(h, "show", Locking(lock, "docs", h, "read"))
  BY DEF Publish
<1>3. /\ todo' \in [Handlers -> SUBSET Files] /\ todo'[h] = Files
      /\ \A g \in Handlers \ {h} : todo'[g] = todo[g]
  BY <1>2 DEF ServerInv, ServerTypeOK
<1>4. HandlerMoves(h, "show", FALSE, "read", FALSE, "nothing")
  BY <1>1, <1>2, LockUses, Awaiting DEF ServerInv, ServerTypeOK, Asks, Modes
<1>5. GoesOn(h, "show")
  BY <1>1, <1>2, <1>3, <1>4 DEF GoesOn, Updating, Asks, Modes
<1>6. Plain(h, "show") /\ PlainlyShown(h, "show")
  BY <1>1, <1>2, <1>3 DEF Plain, PlainlyShown, Pending, In, Writers
<1> QED BY <1>1, <1>2, <1>3, <1>5, <1>6, PlainStep DEF ServerInv, ServerTypeOK

LEMMA ShownStep ==
    ASSUME ServerInv, NEW h \in Handlers, Shown(h)
    PROVE  ServerInv'
<1>1. turn = h /\ pc[h] = "show" /\ todo[h] = {} /\ h \in Sent /\ ~ Blocked(h)
  BY Polled DEF Shown, At
<1>2. UNCHANGED <<editorVars, dataVars>> /\ Return(h, AllUnlocked(h))
  BY DEF Shown
<1>3. HandlerMoves(h, "done", TRUE, "nothing", TRUE, "nothing")
  BY <1>1, <1>2, LockUses, Awaiting DEF ServerInv, ServerTypeOK, Asks, Modes, dataVars
<1>4. GoesOn(h, "done")
  BY <1>1, <1>2, <1>3 DEF GoesOn, Updating, Asks, Modes, dataVars
<1>5. Plain(h, "done") /\ PlainlyShown(h, "done")
  BY <1>1, <1>2 DEF Plain, PlainlyShown, Checking, dataVars, Pending, In, Writers
<1> QED BY <1>1, <1>2, <1>4, <1>5, PlainStep DEF ServerInv, ServerTypeOK, dataVars

LEMMA FallBackStep ==
    ASSUME ServerInv, NEW h \in Handlers, FallBack(h)
    PROVE  ServerInv'
<1>1. turn = h /\ pc[h] \in {"give up", "fall back"} /\ h \in Sent /\ ~ Blocked(h)
  BY Polled DEF FallBack, At
<1>2. /\ UNCHANGED <<editorVars, open_documents, workspace, snapshot, todo>>
      /\ documents' = [documents EXCEPT ![FileOf(h)] = h]
      /\ shown' = [shown EXCEPT ![FileOf(h)] = [by |-> "file", texts |-> [OnDisk EXCEPT ![FileOf(h)] = h]]]
      /\ Return(h, AllUnlocked(h))
  BY DEF FallBack
<1>3. bad # {}
  BY <1>1 DEF ServerInv, CausesAgree, In
<1>4. h \in 0..Messages /\ FileOf(h) \in Files
  BY <1>1, JobFacts DEF ServerInv
<1>5. documents' \in Texts /\ [OnDisk EXCEPT ![FileOf(h)] = h] \in Texts
  BY <1>2, <1>4, TextFacts DEF ServerInv, ServerTypeOK
<1>6. shown' \in [Files -> [by : {"nobody", "file", "workspace"}, texts : Texts]]
  BY <1>2, <1>5 DEF ServerInv, ServerTypeOK
<1>7. HandlerMoves(h, "done", TRUE, "nothing", TRUE, "nothing")
  BY <1>1, <1>2, LockUses, Awaiting DEF ServerInv, ServerTypeOK, Asks, Modes
<1>8. GoesOn(h, "done")
  BY <1>1, <1>2, <1>7 DEF GoesOn, Updating, Asks, Modes
<1>9. Plain(h, "done") /\ PlainlyShown(h, "done")
  BY <1>1, <1>2, <1>3 DEF Plain, PlainlyShown, Pending, In, Writers
<1> QED BY <1>1, <1>2, <1>5, <1>6, <1>8, <1>9, PlainStep DEF ServerInv, ServerTypeOK

LEMMA LookStep ==
    ASSUME ServerInv, NEW h \in Handlers, Look(h)
    PROVE  ServerInv'
<1>1. turn = h /\ pc[h] = "look" /\ h \in Sent /\ ~ Blocked(h)
  BY Polled DEF Look, At
<1>2. UNCHANGED <<editorVars, dataVars>>
  BY DEF Look
<1>3. CASE Await(h, "answer", Locking(lock, "docs", h, "read")) /\ workspace.known
  <2>1. Await(h, "answer", Locking(lock, "docs", h, "read"))
    BY <1>3
  <2>2. HandlerMoves(h, "answer", FALSE, "read", FALSE, "nothing")
    BY <1>1, <1>2, <2>1, LockUses, Awaiting DEF ServerInv, ServerTypeOK, Asks, Modes, dataVars
  <2>3. GoesOn(h, "answer")
    BY <1>1, <1>2, <2>2 DEF GoesOn, Updating, Asking, Asks, Modes, dataVars
  <2>4. Plain(h, "answer") /\ PlainlyShown(h, "answer")
    BY <1>1, <1>2, <1>3 DEF Plain, PlainlyShown, Checking, dataVars, Pending, In, Writers
  <2> QED BY <1>1, <1>2, <2>3, <2>4, PlainStep DEF ServerInv, ServerTypeOK, dataVars
<1>4. CASE Return(h, AllUnlocked(h))
  <2>1. Return(h, AllUnlocked(h))
    BY <1>4
  <2>2. HandlerMoves(h, "done", TRUE, "nothing", TRUE, "nothing")
    BY <1>1, <1>2, <2>1, LockUses, Awaiting DEF ServerInv, ServerTypeOK, Asks, Modes, dataVars
  <2>3. GoesOn(h, "done")
    BY <1>1, <1>2, <2>2 DEF GoesOn, Updating, Asks, Modes, dataVars
  <2>4. Plain(h, "done") /\ PlainlyShown(h, "done")
    BY <1>1, <1>2 DEF Plain, PlainlyShown, Checking, dataVars, Pending, In, Writers
  <2> QED BY <1>1, <1>2, <2>3, <2>4, PlainStep DEF ServerInv, ServerTypeOK, dataVars
<1>5. CASE Await(h, "look again", Locking(AllUnlocked(h), "ws", h, "read"))
  <2>1. HandlerMoves(h, "look again", TRUE, "nothing", TRUE, "read")
    BY <1>1, <1>2, <1>5, LockUses, Awaiting DEF ServerInv, ServerTypeOK, Asks, Modes, dataVars
  <2>2. GoesOn(h, "look again")
    BY <1>1, <1>2, <2>1 DEF GoesOn, Updating, Asking, Asks, Modes, dataVars
  <2>3. Plain(h, "look again") /\ PlainlyShown(h, "look again")
    BY <1>1, <1>2 DEF Plain, PlainlyShown, Checking, dataVars, Pending, In, Writers
  <2> QED BY <1>1, <1>2, <2>2, <2>3, PlainStep DEF ServerInv, ServerTypeOK, dataVars
<1> QED BY <1>3, <1>4, <1>5 DEF Look

LEMMA AnswerStep ==
    ASSUME ServerInv, NEW h \in Handlers, Answer(h)
    PROVE  ServerInv'
<1>1. turn = h /\ pc[h] = "answer" /\ h \in Sent /\ ~ Blocked(h)
  BY Polled DEF Answer, At
<1>2. /\ UNCHANGED <<editorVars, open_documents, documents, workspace, todo, shown>>
      /\ snapshot' = [snapshot EXCEPT ![h] = workspace.texts]
  BY DEF Answer
<1>3. /\ snapshot' \in [Handlers -> Texts]
      /\ \A g \in Handlers \ {h} : snapshot'[g] = snapshot[g]
  BY <1>2 DEF ServerInv, ServerTypeOK
<1>4. workspace.known
  BY <1>1 DEF ServerInv, CausesAgree, In
<1>5. CASE Return(h, AllUnlocked(h))
  <2>1. Return(h, AllUnlocked(h))
    BY <1>5
  <2>2. HandlerMoves(h, "done", TRUE, "nothing", TRUE, "nothing")
    BY <1>1, <1>2, <1>3, <2>1, LockUses, Awaiting DEF ServerInv, ServerTypeOK, Asks, Modes
  <2>3. GoesOn(h, "done")
    BY <1>1, <1>2, <1>3, <2>2 DEF GoesOn, Updating, Asks, Modes
  <2>4. Plain(h, "done") /\ PlainlyShown(h, "done")
    BY <1>1, <1>2 DEF Plain, PlainlyShown, Checking, Pending, In, Writers
  <2> QED BY <1>1, <1>2, <1>3, <2>3, <2>4, PlainStep DEF ServerInv, ServerTypeOK
<1>6. CASE Await(h, "look again", Locking(AllUnlocked(h), "ws", h, "read"))
  <2>1. Await(h, "look again", Locking(AllUnlocked(h), "ws", h, "read"))
    BY <1>6
  <2>2. HandlerMoves(h, "look again", TRUE, "nothing", TRUE, "read")
    BY <1>1, <1>2, <1>3, <2>1, LockUses, Awaiting DEF ServerInv, ServerTypeOK, Asks, Modes
  <2>3. GoesOn(h, "look again")
    BY <1>1, <1>2, <1>3, <2>2 DEF GoesOn, Updating, Asking, Asks, Modes
  <2>4. Plain(h, "look again") /\ PlainlyShown(h, "look again")
    BY <1>1, <1>2, <1>4 DEF Plain, PlainlyShown, Checking, Pending, In, Writers
  <2> QED BY <1>1, <1>2, <1>3, <2>3, <2>4, PlainStep DEF ServerInv, ServerTypeOK
<1> QED BY <1>5, <1>6 DEF Answer

LEMMA LookAgainStep ==
    ASSUME ServerInv, NEW h \in Handlers, LookAgain(h)
    PROVE  ServerInv'
<1>1. turn = h /\ pc[h] = "look again" /\ h \in Sent /\ ~ Blocked(h)
  BY Polled DEF LookAgain, At
<1>2. UNCHANGED <<editorVars, dataVars>>
  BY DEF LookAgain
<1>3. CASE workspace.known
  <2>1. Await(h, "collect", Locking(lock, "docs", h, "read"))
    BY <1>3 DEF LookAgain
  <2>2. HandlerMoves(h, "collect", FALSE, "read", FALSE, "nothing")
    BY <1>1, <1>2, <2>1, LockUses, Awaiting DEF ServerInv, ServerTypeOK, Asks, Modes, dataVars
  <2>3. GoesOn(h, "collect")
    BY <1>1, <1>2, <2>2 DEF GoesOn, Updating, Asking, Asks, Modes, dataVars
  <2>4. Plain(h, "collect") /\ PlainlyShown(h, "collect")
    BY <1>1, <1>2, <1>3 DEF Plain, PlainlyShown, Checking, dataVars, Pending, In, Writers
  <2> QED BY <1>1, <1>2, <2>3, <2>4, PlainStep DEF ServerInv, ServerTypeOK, dataVars
<1>4. CASE ~ workspace.known
  <2>1. Return(h, AllUnlocked(h))
    BY <1>4 DEF LookAgain
  <2>2. HandlerMoves(h, "done", TRUE, "nothing", TRUE, "nothing")
    BY <1>1, <1>2, <2>1, LockUses, Awaiting DEF ServerInv, ServerTypeOK, Asks, Modes, dataVars
  <2>3. GoesOn(h, "done")
    BY <1>1, <1>2, <2>2 DEF GoesOn, Updating, Asks, Modes, dataVars
  <2>4. Plain(h, "done") /\ PlainlyShown(h, "done")
    BY <1>1, <1>2 DEF Plain, PlainlyShown, Checking, dataVars, Pending, In, Writers
  <2> QED BY <1>1, <1>2, <2>3, <2>4, PlainStep DEF ServerInv, ServerTypeOK, dataVars
<1> QED BY <1>3, <1>4

LEMMA CollectStep ==
    ASSUME ServerInv, NEW h \in Handlers, Collect(h)
    PROVE  ServerInv'
<1>1. turn = h /\ pc[h] = "collect" /\ h \in Sent /\ ~ Blocked(h)
  BY Polled DEF Collect, At
<1>2. UNCHANGED <<editorVars, dataVars>> /\ Return(h, AllUnlocked(h))
  BY DEF Collect
<1>3. HandlerMoves(h, "done", TRUE, "nothing", TRUE, "nothing")
  BY <1>1, <1>2, LockUses, Awaiting DEF ServerInv, ServerTypeOK, Asks, Modes, dataVars
<1>4. GoesOn(h, "done")
  BY <1>1, <1>2, <1>3 DEF GoesOn, Updating, Asks, Modes, dataVars
<1>5. Plain(h, "done") /\ PlainlyShown(h, "done")
  BY <1>1, <1>2 DEF Plain, PlainlyShown, Checking, dataVars, Pending, In, Writers
<1> QED BY <1>1, <1>2, <1>4, <1>5, PlainStep DEF ServerInv, ServerTypeOK, dataVars

-----------------------------------------------------------------------------
(* The steps that change the texts, the workspace or the diagnostics.      *)

\* A text is stored: the newest there is of its file, and older than those
\* still waiting.
LEMMA StoreStep ==
    ASSUME ServerInv, NEW h \in Handlers, Store(h)
    PROVE  ServerInv'
<1>1. turn = h /\ pc[h] = "store" /\ h \in Sent /\ ~ Blocked(h) /\ FileOf(h) \in Files /\ h \in 0..Messages
  BY Polled, JobFacts DEF Store, At, ServerInv
<1>2. /\ UNCHANGED <<editorVars, documents, workspace, snapshot, todo, shown>>
      /\ open_documents' = [open_documents EXCEPT ![FileOf(h)] = h]
      /\ Await(h, "find", Locking(Unlocked("docs", h), "ws", h, "read"))
  BY DEF Store
<1>3. /\ open_documents' \in Texts
      /\ \A g \in Files : open_documents'[g] = IF g = FileOf(h) THEN h ELSE open_documents[g]
  <2>1. open_documents \in Texts
    BY DEF ServerInv, ServerTypeOK
  <2> QED BY <1>1, <1>2, <2>1, MessagesAssumption DEF Texts
<1>4. HandlerMoves(h, "find", TRUE, "nothing", FALSE, "read")
  BY <1>1, <1>2, LockUses, Awaiting DEF ServerInv, ServerTypeOK, Asks, Modes
<1>5. GoesOn(h, "find")
  BY <1>1, <1>2, <1>4 DEF GoesOn, Updating, Asks, Modes
<1>6. /\ LocksAgree' /\ HandlersAgree'
      /\ lock' \in [docs : LockOf(Handlers), ws : LockOf(Handlers)]
      /\ pc' \in [Handlers -> Places] /\ turn' \in Handlers \cup {0}
      /\ \A g \in Handlers : pc'[g] = IF g = h THEN "find" ELSE pc[g]
  BY <1>1, <1>5, GoingOn
<1>7. ServerTypeOK'
  BY <1>2, <1>3, <1>6 DEF ServerInv, ServerTypeOK, editorVars
<1>8. Sent = 1..Len(job) /\ Sent' = Sent /\ Len(job) \in Nat /\ job' = job /\ Sent \subseteq Handlers
  BY <1>2, SentFacts DEF ServerInv, editorVars, Sent
<1>9. ASSUME NEW g \in Storing, g # h PROVE h < g
  <2>1. h \in Writing(lock.docs) /\ g \in Writing(lock.docs) /\ ~ Waits(lock.docs, h)
    BY <1>1, <1>9 DEF ServerInv, LocksAgree, Storing, In, Blocked
  <2>2. <<h, g>> \in Earlier
    BY <1>9, <2>1, TheWriter DEF ServerInv, LocksAgree, ServerTypeOK
  <2> QED BY <2>2 DEF Earlier
<1>10. \A f \in Files : open_documents[f] \in Nat /\ open_documents[f] < h /\ open_documents[f] <= Len(job)
  BY <1>1, MessagesAssumption DEF ServerInv, ServerTypeOK, TextsAgree, Storing, In, Texts
<1>11. TextsAgree'
  <2>1. \A f \in Files : open_documents'[f] <= Len(job)'
    BY <1>1, <1>3, <1>8, <1>10
  <2>2. ASSUME NEW g \in Storing', NEW f \in Files PROVE open_documents'[f] < g
    <3>1. g \in Storing /\ g # h
      BY <1>6, <2>2 DEF Storing, In
    <3> QED BY <1>3, <1>9, <3>1 DEF ServerInv, TextsAgree
  <2>3. ASSUME NEW s \in Texts, Below(s, open_documents) PROVE Below(s, open_documents')
    BY <1>3, <1>10, <2>3, MessagesAssumption DEF Below, Texts, Handlers
  <2>4. Writers' = Writers
    BY <1>1, <1>6 DEF Writers, In
  <2>5. \A g \in Writers : Below(workspace.texts, snapshot[g]) /\ Below(snapshot[g], open_documents) /\ snapshot[g] \in Texts
    BY DEF ServerInv, TextsAgree, ServerTypeOK, Writers, In
  <2>6. Below(workspace.texts, open_documents) /\ workspace.texts \in Texts
    BY DEF ServerInv, TextsAgree, ServerTypeOK
  <2>7. workspace' = workspace /\ snapshot' = snapshot
    BY <1>2
  <2>8. \A g \in Writers' : Below(workspace'.texts, snapshot'[g]) /\ Below(snapshot'[g], open_documents')
    BY <2>3, <2>4, <2>5, <2>7
  <2>9. Below(workspace'.texts, open_documents')
    BY <2>3, <2>6, <2>7
  <2> QED BY <2>1, <2>2, <2>8, <2>9 DEF TextsAgree, Below
<1>12. Stored \subseteq Stored'
  BY <1>6, <1>8 DEF Stored
<1>13. CausesAgree'
  BY <1>2, <1>6, <1>12 DEF CausesAgree, ServerInv, In, editorVars
<1>14. h \in Pending' /\ h \in In({"find"})'
  BY <1>6 DEF Pending, In
<1>15. CurrentOrPending' /\ ShownOrPending'
  BY <1>14 DEF CurrentOrPending, ShownOrPending, Settled, In
<1> QED BY <1>6, <1>7, <1>11, <1>13, <1>15 DEF ServerInv

\* A check's texts become the workspace's: no newer ones were there, and none
\* of those still waiting is older.
LEMMA WorkspaceSet ==
    ASSUME ServerInv, NEW h \in Handlers, h \in Writers, h \in Sent, ~ Blocked(h),
           NEW p \in Checking \ {"adopt", "replace"}, GoesOn(h, p),
           UNCHANGED <<editorVars, open_documents, documents, snapshot, todo, shown>>,
           workspace' = [known |-> TRUE, texts |-> snapshot[h]],
           p = "publish" => pc[h] = "replace"
    PROVE  ServerInv'
<1>1. /\ LocksAgree' /\ HandlersAgree'
      /\ lock' \in [docs : LockOf(Handlers), ws : LockOf(Handlers)]
      /\ pc' \in [Handlers -> Places] /\ turn' \in Handlers \cup {0}
      /\ \A g \in Handlers : pc'[g] = IF g = h THEN p ELSE pc[g]
  BY GoingOn
<1>2. ServerTypeOK'
  BY <1>1 DEF ServerInv, ServerTypeOK, editorVars
<1>3. Sent' = Sent /\ job' = job /\ bad' = bad
  BY DEF editorVars, Sent
<1>4. pc[h] \in {"adopt", "replace"} /\ p \in {"find", "init", "root", "clone", "publish"}
  BY DEF Writers, In, Checking
<1>5. ASSUME NEW g \in Writers, g # h PROVE Below(snapshot[h], snapshot[g])
  <2>1. h \in Writing(lock.ws) /\ g \in Writing(lock.ws) /\ ~ Waits(lock.ws, h)
    BY <1>5 DEF ServerInv, LocksAgree, Blocked
  <2>2. <<h, g>> \in NotNewer
    BY <1>5, <2>1, TheWriter DEF ServerInv, LocksAgree, ServerTypeOK
  <2> QED BY <2>2 DEF NotNewer
<1>6. Writers' = Writers \ {h} /\ Storing' = Storing
  BY <1>1, <1>4 DEF Writers, Storing, In
<1>7. TextsAgree'
  <2>1. \A g \in Writers' : Below(snapshot[h], snapshot'[g]) /\ Below(snapshot'[g], open_documents')
    BY <1>5, <1>6 DEF ServerInv, TextsAgree
  <2>2. Below(snapshot[h], open_documents)
    BY DEF ServerInv, TextsAgree
  <2> QED BY <1>3, <1>6, <2>1, <2>2 DEF ServerInv, TextsAgree, Below
<1>8. h \in Stored /\ Stored' = Stored
  BY <1>1, <1>3, <1>4, SentFacts DEF Stored, ServerInv, HandlersAgree, In, Updating
<1>9. CausesAgree'
  BY <1>1, <1>3, <1>4, <1>8 DEF CausesAgree, ServerInv, In
<1>10. CurrentOrPending'
  <2>1. CASE p # "publish"
    BY <1>1, <1>4, <2>1 DEF CurrentOrPending, Pending, In
  <2>2. CASE snapshot[h] = open_documents
    BY <2>2 DEF CurrentOrPending
  <2>3. CASE p = "publish" /\ snapshot[h] # open_documents
    <3>1. h \notin Pending
      BY <1>4, <2>3 DEF Pending, In
    <3>2. ASSUME NEW g \in Pending PROVE g \in Pending'
      BY <1>1, <3>1, <3>2 DEF Pending, In, Writers
    <3>3. workspace.texts # open_documents
      <4> SUFFICES ASSUME workspace.texts = open_documents PROVE FALSE
        OBVIOUS
      <4>1. Below(open_documents, snapshot[h]) /\ Below(snapshot[h], open_documents)
        BY DEF ServerInv, TextsAgree
      <4>2. open_documents \in Texts /\ snapshot[h] \in Texts
        BY DEF ServerInv, ServerTypeOK
      <4>3. \A f \in Files : open_documents[f] = snapshot[h][f]
        BY <4>1, <4>2, MessagesAssumption DEF Below, Texts
      <4> QED BY <2>3, <4>2, <4>3 DEF Texts
    <3>4. Checks(open_documents)' = Checks(open_documents)
      BY <1>3 DEF Checks
    <3> QED BY <1>8, <3>2, <3>3, <3>4 DEF ServerInv, CurrentOrPending
  <2> QED BY <2>1, <2>2, <2>3
<1>11. ShownOrPending'
  BY <1>1, <1>4 DEF ShownOrPending, Settled, In
<1> QED BY <1>1, <1>2, <1>7, <1>9, <1>10, <1>11 DEF ServerInv

LEMMA AdoptStep ==
    ASSUME ServerInv, NEW h \in Handlers, Adopt(h)
    PROVE  ServerInv' /\ h \in Writers /\ workspace'.texts = snapshot[h]
<1>1. turn = h /\ pc[h] = "adopt" /\ h \in Sent /\ ~ Blocked(h)
  BY Polled DEF Adopt, At
<1>2. /\ UNCHANGED <<editorVars, open_documents, documents, snapshot, todo, shown>>
      /\ workspace' = [known |-> TRUE, texts |-> snapshot[h]]
      /\ Await(h, "root", Locking(AllUnlocked(h), "ws", h, "read"))
  BY DEF Adopt
<1>3. HandlerMoves(h, "root", TRUE, "nothing", TRUE, "read")
  BY <1>1, <1>2, LockUses, Awaiting DEF ServerInv, ServerTypeOK, Asks, Modes
<1>4. GoesOn(h, "root") /\ h \in Writers
  BY <1>1, <1>2, <1>3 DEF GoesOn, Updating, Asks, Modes, Writers, In
<1> QED BY <1>1, <1>2, <1>4, WorkspaceSet DEF Checking

LEMMA ReplaceStep ==
    ASSUME ServerInv, NEW h \in Handlers, Replace(h)
    PROVE  ServerInv' /\ h \in Writers /\ workspace'.texts = snapshot[h]
<1>1. turn = h /\ pc[h] = "replace" /\ h \in Sent /\ ~ Blocked(h)
  BY Polled DEF Replace, At
<1>2. /\ UNCHANGED <<editorVars, open_documents, documents, snapshot, todo, shown>>
      /\ workspace' = [known |-> TRUE, texts |-> snapshot[h]]
      /\ Await(h, "publish", Locking(Unlocked("ws", h), "ws", h, "read"))
  BY DEF Replace
<1>3. HandlerMoves(h, "publish", FALSE, "nothing", TRUE, "read")
  BY <1>1, <1>2, LockUses, Awaiting DEF ServerInv, ServerTypeOK, Asks, Modes
<1>4. GoesOn(h, "publish") /\ h \in Writers
  BY <1>1, <1>2, <1>3 DEF GoesOn, Updating, Asks, Modes, Writers, In
<1> QED BY <1>1, <1>2, <1>4, WorkspaceSet DEF Checking

LEMMA ShowStep ==
    ASSUME ServerInv, NEW h \in Handlers, NEW f \in Files, Show(h, f)
    PROVE  ServerInv'
<1>1. turn = h /\ pc[h] = "show" /\ h \in Sent /\ ~ Blocked(h)
  BY Polled DEF Show, At
<1>2. /\ UNCHANGED <<editorVars, lock, open_documents, documents, workspace, snapshot>>
      /\ shown' = [shown EXCEPT ![f] = [by |-> "workspace", texts |-> workspace.texts]]
      /\ todo' = [todo EXCEPT ![h] = @ \ {f}]
      /\ Say(h, "show")
  BY DEF Show
<1>3. /\ todo' \in [Handlers -> SUBSET Files] /\ todo'[h] = todo[h] \ {f}
      /\ \A g \in Handlers \ {h} : todo'[g] = todo[g]
      /\ shown' \in [Files -> [by : {"nobody", "file", "workspace"}, texts : Texts]]
      /\ shown'[f] = [by |-> "workspace", texts |-> workspace.texts]
      /\ \A e \in Files \ {f} : shown'[e] = shown[e]
  BY <1>2 DEF ServerInv, ServerTypeOK
<1>4. HandlerMoves(h, "show", FALSE, "nothing", FALSE, "nothing")
  BY <1>1, <1>2, LockUses, Saying DEF ServerInv, ServerTypeOK, Modes
<1>5. GoesOn(h, "show")
  BY <1>1, <1>2, <1>3, <1>4 DEF GoesOn, Updating, Asks, Modes
<1>6. Plain(h, "show")
  BY <1>1, <1>2 DEF Plain, Pending, In, Writers
<1>7. /\ LocksAgree' /\ HandlersAgree'
      /\ lock' \in [docs : LockOf(Handlers), ws : LockOf(Handlers)]
      /\ pc' \in [Handlers -> Places] /\ turn' \in Handlers \cup {0}
      /\ \A g \in Handlers : pc'[g] = IF g = h THEN "show" ELSE pc[g]
  BY <1>1, <1>5, GoingOn
<1>8. ServerTypeOK'
  BY <1>2, <1>3, <1>7 DEF ServerInv, ServerTypeOK, editorVars
<1>9. TextsAgree' /\ CausesAgree' /\ CurrentOrPending'
  BY <1>1, <1>5, <1>6, <1>7, PlainTexts
<1>10. pc' = pc /\ Stored' = Stored /\ bad' = bad
  <2>1. pc' = pc
    BY <1>1, <1>7 DEF ServerInv, ServerTypeOK
  <2> QED BY <1>2, <2>1 DEF Stored, Sent, editorVars
<1>11. ShownOrPending'
  <2> SUFFICES ASSUME Stored # {}, bad = {}, NEW e \in Files PROVE Settled(e)'
    BY <1>10 DEF ShownOrPending
  <2>1. Settled(e) /\ (workspace.texts = open_documents \/ Pending # {})
    BY DEF ServerInv, ShownOrPending, CurrentOrPending, Checks
  <2>2. CASE In({"find", "init", "root", "clone", "adopt", "replace", "publish"}) # {}
    BY <1>10, <2>2 DEF Settled, In
  <2>3. CASE In({"find", "init", "root", "clone", "adopt", "replace", "publish"}) = {}
    <3>1. Pending = {}
      BY <2>3 DEF Pending, In, Writers
    <3>2. CASE e = f
      BY <1>2, <1>3, <2>1, <3>1, <3>2 DEF Settled
    <3>3. CASE e # f /\ shown[e] = [by |-> "workspace", texts |-> open_documents]
      BY <1>2, <1>3, <3>3 DEF Settled
    <3>4. ASSUME e # f, NEW g \in In({"show"}), e \in todo[g] PROVE Settled(e)'
      BY <1>3, <1>10, <3>4 DEF Settled, In
    <3> QED BY <2>1, <2>3, <3>2, <3>3, <3>4 DEF Settled
  <2> QED BY <2>2, <2>3
<1> QED BY <1>7, <1>8, <1>9, <1>11 DEF ServerInv

LEMMA PollStep ==
    ASSUME ServerInv, NEW h \in Handlers, Poll(h)
    PROVE  ServerInv'
<1>1. h \in Handlers /\ turn' = h /\ ~ Blocked(h) /\ UNCHANGED <<editorVars, pc, lock, dataVars>>
  BY DEF Poll
<1>2. ServerTypeOK'
  BY <1>1 DEF ServerInv, ServerTypeOK, editorVars, dataVars
<1>3. HandlersAgree'
  BY <1>1 DEF ServerInv, HandlersAgree, In, Blocked, Sent, editorVars
<1>4. LocksAgree' /\ TextsAgree'
  BY <1>1 DEF ServerInv, LocksAgree, TextsAgree, In, Storing, Writers, NotNewer, Below, editorVars, dataVars
<1>5. CausesAgree' /\ CurrentOrPending' /\ ShownOrPending'
  BY <1>1 DEF ServerInv, CausesAgree, CurrentOrPending, ShownOrPending, Settled, Pending, Writers, In,
              Stored, Sent, Checks, editorVars, dataVars
<1> QED BY <1>2, <1>3, <1>4, <1>5 DEF ServerInv

-----------------------------------------------------------------------------
(* Messages arrive.                                                        *)

\* A new handler: it has nothing to store, or all there is to store is older.
LEMMA Arriving ==
    ASSUME ServerInv, NEW h \in Handlers, NEW kind \in Kinds, NEW f \in Files, Arrival(h, kind, f),
           NEW p \in {"store", "look", "done"}, p = "store" <=> kind \in {"open", "change"},
           NEW da \in Asks, NEW wa \in Asks, HandlerMoves(h, p, FALSE, da, FALSE, wa),
           editor' \in Texts, documents' \in Texts, bad' \in {bad, bad \cup {h}},
           UNCHANGED <<open_documents, workspace, snapshot, todo, shown>>
    PROVE  ServerInv'
<1> DEFINE J == [kind : Kinds, file : Files]
<1>1. /\ h = Len(job) + 1 /\ h <= Messages /\ job' = Append(job, [kind |-> kind, file |-> f])
      /\ Sent = 1..Len(job) /\ Len(job) \in Nat /\ Sent \subseteq Handlers
  BY SentFacts DEF Arrival, ServerInv
<1>2. /\ job' \in Seq(J) /\ Len(job') = Len(job) + 1 /\ DOMAIN job' = 1..(Len(job) + 1)
      /\ job'[h] = [kind |-> kind, file |-> f]
      /\ \A g \in Sent : job'[g] = job[g]
  <2>1. job \in Seq(J) /\ [kind |-> kind, file |-> f] \in J
    BY DEF ServerInv, ServerTypeOK
  <2> HIDE DEF J
  <2> QED BY <1>1, <2>1
<1>3. Sent' = Sent \cup {h} /\ h \notin Sent /\ pc[h] = "unsent"
  BY <1>1, <1>2 DEF Sent, ServerInv, HandlersAgree
<1>4. /\ LocksAgree'
      /\ lock' \in [docs : LockOf(Handlers), ws : LockOf(Handlers)]
      /\ pc' \in [Handlers -> Places] /\ turn' \in Handlers \cup {0}
      /\ \A g \in In({"unsent"})' : g \in In({"unsent"}) /\ ~ Blocked(g)'
      /\ turn' # 0 => ~ Blocked(turn)'
  <2>1. ~ Blocked(h)
    BY <1>3 DEF ServerInv, HandlersAgree, In
  <2>2. p \in Updating \cup Asking \cup {"done"}
    BY DEF Updating, Asking
  <2> QED BY <2>1, <2>2, LocksMove DEF ServerInv
<1>5. \A g \in Handlers : pc'[g] = IF g = h THEN p ELSE pc[g]
  BY DEF HandlerMoves, ServerInv, ServerTypeOK
<1>6. ServerTypeOK'
  BY <1>1, <1>2, <1>4 DEF ServerInv, ServerTypeOK
<1>7. HandlersAgree'
  <2>1. \A g \in Handlers : pc'[g] = "unsent" <=> g \notin Sent'
    BY <1>3, <1>5 DEF ServerInv, HandlersAgree
  <2>2. ASSUME NEW g \in In(Updating)' PROVE job'[g].kind \in {"open", "change"}
    <3>1. CASE g = h
      <4>1. p \in Updating /\ job'[h].kind = kind
        BY <1>2, <1>5, <2>2, <3>1 DEF In
      <4> QED BY <3>1, <4>1 DEF Updating
    <3>2. CASE g # h
      <4>1. g \in In(Updating) /\ g \in Sent
        BY <1>5, <2>2, <3>2 DEF In, Updating, ServerInv, HandlersAgree
      <4> QED BY <1>2, <4>1 DEF ServerInv, HandlersAgree
    <3> QED BY <3>1, <3>2
  <2> QED BY <1>4, <2>1, <2>2 DEF HandlersAgree
<1>8. \A f1 \in Files : open_documents[f1] \in Nat /\ open_documents[f1] <= Len(job)
  BY MessagesAssumption DEF ServerInv, ServerTypeOK, TextsAgree, Texts
<1>9. TextsAgree'
  <2>1. ASSUME NEW g \in Storing', NEW f1 \in Files PROVE open_documents[f1] < g
    BY <1>1, <1>5, <1>8, <2>1 DEF ServerInv, TextsAgree, Storing, In
  <2>2. Writers' = Writers
    BY <1>3, <1>5 DEF Writers, In
  <2>3. \A f1 \in Files : open_documents[f1] <= Len(job')
    BY <1>1, <1>2, <1>8
  <2> QED BY <2>1, <2>2, <2>3 DEF ServerInv, TextsAgree, Below
<1>10. Stored' = Stored
  BY <1>1, <1>2, <1>3, <1>5 DEF Stored
<1>11. Checks(open_documents)' = Checks(open_documents)
  BY <1>1, <1>8 DEF Checks
<1>12. CausesAgree'
  BY <1>5, <1>10 DEF ServerInv, CausesAgree, In
<1>13. Pending' = Pending
  BY <1>3, <1>5 DEF Pending, Writers, In
<1>14. CurrentOrPending'
  BY <1>10, <1>11, <1>13 DEF ServerInv, CurrentOrPending
<1>15. ShownOrPending'
  <2>1. \A S : "unsent" \notin S /\ p \notin S => In(S)' = In(S)
    BY <1>3, <1>5 DEF In
  <2>2. \A e \in Files : Settled(e) => Settled(e)'
    BY <2>1 DEF Settled
  <2> QED BY <1>10, <2>2 DEF ServerInv, ShownOrPending
<1> QED BY <1>4, <1>6, <1>7, <1>9, <1>12, <1>14, <1>15 DEF ServerInv

LEMMA ArriveStep ==
    ASSUME ServerInv, NEW h \in Handlers, Arrive(h)
    PROVE  ServerInv' /\ UNCHANGED workspace
<1>1. ASSUME NEW f \in Files, NEW kind \in Kinds, Arrival(h, kind, f)
      PROVE  /\ pc[h] = "unsent" /\ h \in 0..Messages
             /\ \A g \in Storing : g < h
             /\ editor \in Texts /\ documents \in Texts
             /\ h \in 0..Messages /\ 0 \in 0..Messages
  <2>1. ServerTypeOK /\ \A g \in Handlers : pc[g] = "unsent" <=> g \notin Sent
    BY DEF ServerInv, HandlersAgree
  <2>2. Sent = 1..Len(job) /\ Len(job) \in Nat /\ Handlers = 1..Messages
    BY <2>1, SentFacts DEF Handlers
  <2>3. h = Len(job) + 1 /\ pc[h] = "unsent"
    BY <1>1, <2>1, <2>2 DEF Arrival
  <2>4. \A g \in Storing : g < h
    BY <2>1, <2>2, <2>3 DEF Storing, In
  <2>5. editor \in Texts /\ documents \in Texts
    BY <2>1 DEF ServerTypeOK
  <2> QED BY <2>2, <2>3, <2>4, <2>5, MessagesAssumption DEF Handlers
<1>2. ASSUME NEW f \in Files, NEW kind \in {"open", "change"}, Update(h, kind, f)
      PROVE  ServerInv' /\ UNCHANGED workspace
  <2>1. /\ Arrival(h, kind, f) /\ kind \in Kinds
        /\ editor' = [editor EXCEPT ![f] = h] /\ bad' \in {bad, bad \cup {h}}
        /\ Await(h, "store", Locking(lock, "docs", h, "write"))
        /\ UNCHANGED <<open_documents, workspace, snapshot, todo, shown, documents>>
    BY <1>2 DEF Update, dataVars, Kinds
  <2>2. editor' \in Texts
    BY <1>1, <2>1, TextFacts
  <2>3. HandlerMoves(h, "store", FALSE, "write", FALSE, "nothing")
    BY <1>1, <2>1, LockUses, Awaiting DEF ServerInv, ServerTypeOK, Asks, Modes
  <2> QED BY <1>1, <2>1, <2>2, <2>3, Arriving DEF Asks, Modes
<1>3. ASSUME NEW f \in Files, Close(h, f)
      PROVE  ServerInv' /\ UNCHANGED workspace
  <2>1. /\ Arrival(h, "close", f) /\ "close" \in Kinds
        /\ editor' = [editor EXCEPT ![f] = 0] /\ documents' = [documents EXCEPT ![f] = 0]
        /\ Return(h, lock)
        /\ UNCHANGED <<open_documents, workspace, snapshot, todo, shown, bad>>
    BY <1>3 DEF Close, Kinds
  <2>2. editor' \in Texts /\ documents' \in Texts
    BY <1>1, <2>1, TextFacts
  <2>3. HandlerMoves(h, "done", FALSE, "nothing", FALSE, "nothing")
    BY <1>1, <2>1, LockUses, Awaiting DEF ServerInv, ServerTypeOK, Asks, Modes
  <2> QED BY <1>1, <2>1, <2>2, <2>3, Arriving DEF Asks, Modes
<1>4. ASSUME NEW f \in Files, NEW kind \in {"hover", "rename"}, Ask(h, kind, f)
      PROVE  ServerInv' /\ UNCHANGED workspace
  <2>1. /\ Arrival(h, kind, f) /\ kind \in Kinds
        /\ Await(h, "look", Locking(lock, "ws", h, "read"))
        /\ UNCHANGED <<open_documents, workspace, snapshot, todo, shown, editor, documents, bad>>
    BY <1>4 DEF Ask, dataVars, Kinds
  <2>2. HandlerMoves(h, "look", FALSE, "nothing", FALSE, "read")
    BY <1>1, <2>1, LockUses, Awaiting DEF ServerInv, ServerTypeOK, Asks, Modes
  <2> QED BY <1>1, <2>1, <2>2, Arriving DEF Asks, Modes
<1> QED BY <1>2, <1>3, <1>4 DEF Arrive

-----------------------------------------------------------------------------
(* The theorems.                                                           *)

LEMMA InitialServer == ServerInit => ServerInv
<1> SUFFICES ASSUME ServerInit PROVE ServerInv
  OBVIOUS
<1>1. lock = [docs |-> Free, ws |-> Free] /\ Sent = {} /\ Len(job) = 0 /\ job = <<>>
  BY DEF ServerInit, Sent
<1>2. \A S : "unsent" \notin S => In(S) = {}
  BY DEF ServerInit, In
<1>3. ServerTypeOK
  BY <1>1, FreeFacts, TextFacts, MessagesAssumption DEF ServerInit, ServerTypeOK, Places, OnDisk
<1>4. HandlersAgree
  BY <1>1, <1>2, FreeFacts DEF ServerInit, HandlersAgree, Updating, Blocked, In
<1>5. LocksAgree
  BY <1>1, <1>2, FreeFacts DEF LocksAgree, Storing, Writers
<1>6. TextsAgree
  <2>1. Storing = {} /\ Writers = {}
    BY <1>2 DEF Storing, Writers
  <2>2. \A f \in Files : open_documents[f] = 0 /\ workspace.texts[f] = 0
    BY DEF ServerInit, OnDisk
  <2> QED BY <1>1, <2>1, <2>2 DEF TextsAgree, Below
<1>7. Stored = {}
  BY <1>1 DEF Stored
<1>8. CausesAgree /\ CurrentOrPending /\ ShownOrPending
  BY <1>2, <1>7 DEF ServerInit, CausesAgree, CurrentOrPending, ShownOrPending
<1> QED BY <1>3, <1>4, <1>5, <1>6, <1>8 DEF ServerInv

\* Each step keeps the invariant, and the workspace, if it changes, becomes the
\* one of a check that waited its turn.
LEMMA ServerStep ==
    ASSUME ServerInv, ServerNext
    PROVE  ServerInv' /\ (workspace' = workspace \/ \E h \in Writers : workspace'.texts = snapshot[h])
<1>1. PICK h \in Handlers : Arrive(h) \/ Run(h)
  BY DEF ServerNext
<1>2. CASE Arrive(h)
  BY <1>2, ArriveStep
<1>3. CASE Poll(h)
  BY <1>3, PollStep DEF Poll, dataVars
<1>4. CASE Store(h)
  BY <1>4, StoreStep DEF Store
<1>5. CASE Find(h)
  BY <1>5, FindStep DEF Find, dataVars
<1>6. CASE Init(h)
  BY <1>6, InitStep DEF Init
<1>7. CASE Adopt(h)
  BY <1>7, AdoptStep
<1>8. CASE Root(h)
  BY <1>8, RootStep DEF Root, dataVars
<1>9. CASE Clone(h)
  BY <1>9, CloneStep DEF Clone
<1>10. CASE Replace(h)
  BY <1>10, ReplaceStep
<1>11. CASE Publish(h)
  BY <1>11, PublishStep DEF Publish
<1>12. CASE \E f \in Files : Show(h, f)
  BY <1>12, ShowStep DEF Show
<1>13. CASE Shown(h)
  BY <1>13, ShownStep DEF Shown, dataVars
<1>14. CASE FallBack(h)
  BY <1>14, FallBackStep DEF FallBack
<1>15. CASE Look(h)
  BY <1>15, LookStep DEF Look, dataVars
<1>16. CASE Answer(h)
  BY <1>16, AnswerStep DEF Answer
<1>17. CASE LookAgain(h)
  BY <1>17, LookAgainStep DEF LookAgain, dataVars
<1>18. CASE Collect(h)
  BY <1>18, CollectStep DEF Collect, dataVars
<1> QED BY <1>1, <1>2, <1>3, <1>4, <1>5, <1>6, <1>7, <1>8, <1>9, <1>10, <1>11, <1>12, <1>13, <1>14,
           <1>15, <1>16, <1>17, <1>18 DEF Run

LEMMA ServerStutter == ServerInv /\ UNCHANGED serverVars => ServerInv'
<1> SUFFICES ASSUME ServerInv, UNCHANGED serverVars PROVE ServerInv'
  OBVIOUS
<1>1. UNCHANGED <<editor, bad, job, pc, turn, lock, open_documents, documents, workspace, snapshot, todo, shown>>
  BY DEF serverVars, editorVars, dataVars
<1>2. ServerTypeOK' /\ HandlersAgree'
  BY <1>1 DEF ServerInv, ServerTypeOK, HandlersAgree, In, Blocked, Sent
<1>3. LocksAgree' /\ TextsAgree'
  BY <1>1 DEF ServerInv, LocksAgree, TextsAgree, In, Storing, Writers, NotNewer, Below
<1>4. CausesAgree' /\ CurrentOrPending' /\ ShownOrPending'
  BY <1>1 DEF ServerInv, CausesAgree, CurrentOrPending, ShownOrPending, Settled, Pending, Writers, In,
              Stored, Sent, Checks
<1> QED BY <1>2, <1>3, <1>4 DEF ServerInv

\* The inductive invariant: handlers take the locks in the order of what they
\* write, and whatever is not up to date has someone on the way to mend it.
THEOREM ServerInvariant == ServerSpec => []ServerInv
<1>1. ServerInit => ServerInv
  BY InitialServer
<1>2. ServerInv /\ [ServerNext]_serverVars => ServerInv'
  BY ServerStep, ServerStutter
<1> QED BY <1>1, <1>2, PTL DEF ServerSpec

\* Two rebuilds overlap, the check of the first made before that of the second:
\* it gets the workspace's lock first as well, because tokio's lock is fair and
\* no await stands between the clone of the open documents and the request.
THEOREM NeverGoesBack == ServerSpec => WorkspaceNeverGoesBack
<1>1. ServerInv /\ [ServerNext]_serverVars
        => [workspace.known => \A f \in Files : workspace'.texts[f] >= workspace.texts[f]]_serverVars
  <2> SUFFICES ASSUME ServerInv, ServerNext, NEW f \in Files
               PROVE  workspace'.texts[f] >= workspace.texts[f]
    OBVIOUS
  <2>1. workspace.texts \in Texts /\ snapshot \in [Handlers -> Texts]
    BY DEF ServerInv, ServerTypeOK
  <2>2. workspace.texts[f] >= workspace.texts[f]
    BY <2>1, MessagesAssumption DEF Texts
  <2>3. ASSUME NEW h \in Writers PROVE snapshot[h][f] >= workspace.texts[f]
    <3>1. workspace.texts[f] <= snapshot[h][f] /\ h \in Handlers
      BY DEF ServerInv, TextsAgree, Below, Writers, In
    <3> QED BY <2>1, <3>1, MessagesAssumption DEF Texts
  <2> QED BY <2>2, <2>3, ServerStep
<1> QED BY <1>1, ServerInvariant, PTL DEF ServerSpec, WorkspaceNeverGoesBack

\* With no update on the way, the workspace is the one of the open documents,
\* where these can be checked and one was stored.
LEMMA NoUpdateIsCurrent ==
    ASSUME ServerInv, Stored # {}, Checks(open_documents),
           \A u \in InFlight : job[u].kind \notin {"open", "change"}
    PROVE  workspace = [known |-> TRUE, texts |-> open_documents] /\ In(Updating) = {}
<1>1. ASSUME NEW u \in In(Updating) PROVE FALSE
  <2>1. u \in Sent /\ pc[u] # "done" /\ job[u].kind \in {"open", "change"}
    BY <1>1 DEF ServerInv, HandlersAgree, In, Updating
  <2> QED BY <2>1 DEF InFlight
<1>2. Pending \subseteq In(Updating)
  BY DEF Pending, Writers, In, Updating
<1> QED BY <1>1, <1>2 DEF ServerInv, CurrentOrPending

\* rebuild_workspace is the last word: a quiet server has the workspace of the
\* texts it was sent, whichever checks failed before.
THEOREM QuietIsCurrent == ServerSpec => []QuietWorkspaceIsCurrent
<1>1. ServerInv => QuietWorkspaceIsCurrent
  BY NoUpdateIsCurrent DEF QuietWorkspaceIsCurrent, Rest
<1> QED BY <1>1, ServerInvariant, PTL

\* hover, rename and their like read the symbols and the text of one version,
\* though they take the two locks one after the other.
THEOREM OneVersion == ServerSpec => []QueriesReadOneVersion
<1>1. ServerInv => QueriesReadOneVersion
  <2> SUFFICES ASSUME ServerInv, NEW h \in InFlight, pc[h] \in {"answer", "collect"},
                      Checks(open_documents), \A u \in InFlight : job[u].kind \notin {"open", "change"}
               PROVE  workspace.texts[FileOf(h)] = open_documents[FileOf(h)]
    BY DEF QueriesReadOneVersion
  <2>1. h \in In({"answer", "collect"})
    BY SentFacts DEF ServerInv, In, InFlight
  <2>2. Stored # {}
    BY <2>1 DEF ServerInv, CausesAgree
  <2> QED BY <2>2, NoUpdateIsCurrent
<1> QED BY <1>1, ServerInvariant, PTL

\* publish_workspace_diagnostics covers every file, so the last of the updates
\* leaves each file of a sound project with the diagnostics of its last text.
THEOREM SessionSettles == ServerSpec => []CleanSessionSettles
<1>1. ServerInv => CleanSessionSettles
  <2> SUFFICES ASSUME ServerInv, Rest, Stored # {}, bad = {}, NEW f \in Files
               PROVE  shown[f] = [by |-> "workspace", texts |-> open_documents]
    BY DEF CleanSessionSettles
  <2>1. In(Updating) = {}
    BY NoUpdateIsCurrent DEF Rest, Checks
  <2>2. Settled(f)
    BY DEF ServerInv, ShownOrPending
  <2> QED BY <2>1, <2>2 DEF Settled, In, Updating
<1> QED BY <1>1, ServerInvariant, PTL
=============================================================================
