------------------------------- MODULE RwLock -------------------------------
(***************************************************************************)
(* tokio::sync::RwLock as src/lsp uses it: any number of readers or one    *)
(* writer, and a queue served strictly in order, so that a reader waits    *)
(* behind a writer that waits.  A lock that is handed over belongs to the  *)
(* waiter at once, before it has run again.                                *)
(***************************************************************************)
EXTENDS Naturals, Sequences, FiniteSets

Modes == {"read", "write"}

Free == [readers |-> {}, writers |-> {}, queue |-> <<>>]

Holds(l, h) == h \in l.readers \cup l.writers

Waits(l, h) == \E i \in DOMAIN l.queue : l.queue[i][1] = h

\* How many at the head of the queue the present holders let in.
Admissible(l) ==
    {n \in DOMAIN l.queue :
        /\ l.writers = {}
        /\ \/ \A i \in 1..n : l.queue[i][2] = "read"
           \/ n = 1 /\ l.readers = {}}

Admit(l) ==
    LET n == Cardinality(Admissible(l))
        who(mode) == {l.queue[i][1] : i \in {j \in 1..n : l.queue[j][2] = mode}}
    IN  [readers |-> l.readers \cup who("read"),
         writers |-> l.writers \cup who("write"),
         queue |-> SubSeq(l.queue, n + 1, Len(l.queue))]

Request(l, h, mode) == Admit([l EXCEPT !.queue = Append(@, <<h, mode>>)])

Release(l, h) == Admit([l EXCEPT !.readers = @ \ {h}, !.writers = @ \ {h}])
=============================================================================
