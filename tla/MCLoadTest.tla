----------------------------- MODULE MCLoadTest -----------------------------
(* LoadTest on a small instance.  The model stutters when the program has   *)
(* ended, so that every other stop is a deadlock.                           *)
EXTENDS LoadTest

Over == main = "exit" /\ UNCHANGED vars

MCSpec == Init /\ [][Next \/ Over]_vars

MCFairSpec == MCSpec /\ Fairness
=============================================================================
