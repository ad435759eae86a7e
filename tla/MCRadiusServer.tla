--------------------------- MODULE MCRadiusServer ---------------------------
(* RadiusServer on small instances: two access requests with one key (the   *)
(* client reused the identifier), an accounting request and a packet of     *)
(* another code with another key, and one answer for each way an            *)
(* Access-Accept can come out.                                              *)
EXTENDS RadiusServer

MCRequests == {[id |-> 1, key |-> "k1", code |-> "access"],
               [id |-> 2, key |-> "k1", code |-> "access"],
               [id |-> 3, key |-> "k2", code |-> "acct"],
               [id |-> 4, key |-> "k2", code |-> "other"]}

MCAnswers == {[ip |-> "none",  pool |-> "none", lease |-> 0, status |-> ""],
              [ip |-> "ipv4",  pool |-> "none", lease |-> 5, status |-> ""],
              [ip |-> "none",  pool |-> "fits", lease |-> 0, status |-> ""],
              [ip |-> "other", pool |-> "fits", lease |-> -1, status |-> ""]}

(* The model stops when the clock has stopped and no packet is left.  *)
Over == handled = MaxHandled /\ Active = {} /\ UNCHANGED vars

MCSpec == Init /\ [][Next \/ Over]_vars

MCFairSpec == MCSpec /\ \A g \in Goroutines : WF_vars(Step(g))
=============================================================================
