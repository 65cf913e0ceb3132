------------------------------- MODULE MCUnify -------------------------------
(***************************************************************************)
(* Unification over a few types: two variables, their lists and pointers,  *)
(* ground types to solve them with, an interface and a function.           *)
(***************************************************************************)
EXTENDS Unify, TLC

Con(head, class, nullable, args) ==
    [kind |-> "con", head |-> head, class |-> class, nullable |-> nullable,
     under |-> "none", foreign |-> FALSE, args |-> args]
Other(kind, args) == [Con("", "plain", FALSE, args) EXCEPT !.kind = kind]

MCShape ==
    [u  |-> Other("var", <<>>), v |-> Other("var", <<>>),
     i  |-> Con("int", "int", FALSE, <<>>),
     mode |-> [Con("FileMode", "plain", FALSE, <<>>) EXCEPT !.under = "int"],
     p  |-> Con("*T", "pointer", FALSE, <<>>),
     np |-> Con("*T", "pointer", TRUE, <<>>),
     pu |-> Con("*?0", "pointer", FALSE, <<"u">>), pv |-> Con("*?1", "pointer", FALSE, <<"v">>),
     lv |-> Con("List", "plain", FALSE, <<"v", "i">>),
     f  |-> Other("func", <<"u", "v", "u">>), h |-> Other("func", <<"pv", "pu", "v">>),
     g  |-> Other("func", <<"rest", "np">>), rest |-> Con("variadic", "variadic", FALSE, <<"p">>),
     e  |-> Con("error", "error", FALSE, <<>>),
     s  |-> Con("Stringer", "interface", FALSE, <<>>),
     a  |-> Other("alias", <<"np">>)]
MCTypes == DOMAIN MCShape
MCVars == {"u", "v"}
MCVarsIn == [t \in MCTypes |-> CASE t \in {"u", "pu"} -> {"u"}
                                 [] t \in {"v", "pv", "lv"} -> {"v"}
                                 [] t \in {"f", "h"} -> {"u", "v"}
                                 [] OTHER -> {}]
\* The method of the interface is there, with and without a value.
MCSatisfies == {"p", "np"} \X {"s"}

\* Of whole values, two different types.
MCWhole == MCTypes \ {"rest", "pu", "pv"}
MCAsked == {c \in MCWhole \X MCWhole : c[1] # c[2]}
=============================================================================
