------------------------------- MODULE MCApi -------------------------------
(* Api on small instances.  The clock may stop at MaxTime: that stop is the *)
(* model's and is no deadlock; any other one is reported.                   *)
EXTENDS Api, TLC

Symmetry == Permutations(Callers)

AtMaxTime == now = MaxTime /\ UNCHANGED vars

MCSpec == Init /\ [][Next \/ AtMaxTime]_vars

MCFairSpec == MCSpec /\ \A c \in Callers : WF_vars(Step(c))
=============================================================================
