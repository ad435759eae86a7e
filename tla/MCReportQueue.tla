--------------------------- MODULE MCReportQueue ---------------------------
(* ReportQueue on small instances.  The model stops when the clock is at    *)
(* MaxTime or nothing is left to send and to post.                          *)
EXTENDS ReportQueue

AtMaxTime == now = MaxTime /\ UNCHANGED vars

MCSpec == Init /\ [][Next \/ AtMaxTime]_vars

MCFairSpec == MCSpec /\ \A d \in Readers : WF_vars(Step(d))
=============================================================================
