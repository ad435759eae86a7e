------------------------------ MODULE Reporter ------------------------------
(***************************************************************************)
(* What a report queue promises the handlers: a report is taken, or refused *)
(* at once if so many are open already, and a taken one is delivered once.  *)
(* Readers, addresses, posts and the clock are not part of the promise.     *)
(***************************************************************************)
EXTENDS Integers, FiniteSets

CONSTANT Capacity

VARIABLES
    sent,        \* how many reports there were
    open,        \* the reports taken and not delivered
    delivered,
    refused

vars == <<sent, open, delivered, refused>>

Init ==
    /\ sent = 0
    /\ open = {}
    /\ delivered = {}
    /\ refused = {}

Take ==
    /\ sent' = sent + 1
    /\ open' = open \cup {sent'}
    /\ UNCHANGED <<delivered, refused>>

Refuse ==
    /\ Cardinality(open) >= Capacity
    /\ sent' = sent + 1
    /\ refused' = refused \cup {sent'}
    /\ UNCHANGED <<open, delivered>>

Deliver ==
    /\ \E r \in open : open' = open \ {r} /\ delivered' = delivered \cup {r}
    /\ UNCHANGED <<sent, refused>>

Next == Take \/ Refuse \/ Deliver

Spec == Init /\ [][Next]_vars
=============================================================================
