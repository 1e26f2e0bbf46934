------------------------------ MODULE MCScreens ------------------------------
(***************************************************************************)
(* Two actors and two types, one of them accessories; two of the statuses, *)
(* the first and the last; up to two items at first, one of which may be   *)
(* followed by a third; pages of one and of two items.                     *)
(***************************************************************************)
EXTENDS Screens, TLC

CONSTANTS a1, a2, dress, brooch

MCActors == {a1, a2}
MCTypes == {dress, brooch}
MCAccessories == {brooch}
MCWorkflow == <<"Find", "Complete">>

Everything == [actor |-> Unset, type |-> Unset, status |-> Unset, blocked |-> FALSE,
               incomplete |-> FALSE, page |-> 1, limit |-> 1]

\* All items by one, by two and by more than a page may have; an actor's items;
\* those of a status that are blocked; those that are not complete.
MCForms ==
    {Everything, [Everything EXCEPT !.limit = 9],
     [Everything EXCEPT !.status = "Find", !.blocked = TRUE],
     [Everything EXCEPT !.incomplete = TRUE]}
    \cup {[Everything EXCEPT !.actor = a] : a \in MCActors}

Symmetry == Permutations(MCActors)
=============================================================================
