-------------------------------- MODULE Lists --------------------------------
(***************************************************************************)
(* A loop over a list: each turn makes the next state from the last one    *)
(* and an element.                                                         *)
(***************************************************************************)
EXTENDS Naturals, Sequences

Each(Turn(_, _), start, list) ==
    LET after[i \in 0..Len(list)] ==
            IF i = 0 THEN start ELSE Turn(after[i - 1], list[i])
    IN  after[Len(list)]
=============================================================================
