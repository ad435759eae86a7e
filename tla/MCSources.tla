----------------------------- MODULE MCSources -----------------------------
(* Sources on small instances.  The clock may stop at MaxTime: that stop is *)
(* the model's and is no deadlock; any other one is reported.               *)
EXTENDS Sources, TLC

Symmetry == Permutations(Addresses) \cup Permutations(Callers)

AtMaxTime == now = MaxTime /\ UNCHANGED vars

MCSpec == Init /\ [][Next \/ AtMaxTime]_vars
=============================================================================
