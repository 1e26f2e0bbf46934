------------------------------- MODULE CodeBook -------------------------------
(***************************************************************************)
(* What item codes promise: the pieces of a production are numbered        *)
(* consecutively, a number is never skipped and never given twice, and     *)
(* the pieces of one transaction appear together.                          *)
(***************************************************************************)
EXTENDS Integers

VARIABLES
    last,    \* the number given last
    codes    \* the numbers that items bear

Init == last \in Nat /\ codes = 1..last

\* The items of one transaction, or of none.
Append == last' \in Nat /\ last' >= last /\ codes' = 1..last'

Spec == Init /\ [][Append]_<<last, codes>>
===============================================================================
