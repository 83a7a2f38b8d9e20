---------------------------- MODULE MCDevinTrial ----------------------------
EXTENDS DevinTrial

CONSTANTS t1, ann

(* Accounts are interchangeable: none is ordered or chosen.  So the first    *)
(* turn may be taken to be ann's; the second is hers or another's.           *)
FirstIsAnns == Init /\ account[t1] = ann

TrialSpec == FirstIsAnns /\ [][Next]_vars /\ Fairness
=============================================================================
