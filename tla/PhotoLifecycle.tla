---------------------------- MODULE PhotoLifecycle ----------------------------
(***************************************************************************)
(* What the photo pipeline promises of a costume_item_photos row, however  *)
(* the work is scheduled: it is inserted pending, changes status once, to  *)
(* ready or failed, is never deleted, and does change once its upload was  *)
(* answered with success or the process was restarted over it.             *)
(***************************************************************************)
CONSTANT Photos
VARIABLES
    row,        \* status of the row of each photo, or "absent"
    promised    \* photos whose row somebody may rely on being settled

Init == row = [p \in Photos |-> "absent"] /\ promised = {}

\* The transaction of the photo repository's Create.
Accept(p) ==
    /\ row[p] = "absent"
    /\ row' = [row EXCEPT ![p] = "pending"]
    /\ UNCHANGED promised

\* Upload returns a row, or a restart finds rows that are left.  A row may
\* have been settled before it is promised.
Promise(S) ==
    /\ \A p \in S : row[p] # "absent"
    /\ promised' = promised \union S
    /\ UNCHANGED row

\* transition() of the photo repository.
Settle(p) ==
    /\ row[p] = "pending"
    /\ \E to \in {"ready", "failed"} : row' = [row EXCEPT ![p] = to]
    /\ UNCHANGED promised

Next == \/ \E p \in Photos : Accept(p) \/ Settle(p)
        \/ \E S \in SUBSET Photos : Promise(S)

vars == <<row, promised>>
Spec == Init /\ [][Next]_vars
FairSpec == Spec /\ \A p \in Photos : WF_vars(p \in promised /\ Settle(p))
=============================================================================
