----------------------------- MODULE SourcePool -----------------------------
(***************************************************************************)
(* What the list of API sources promises to its users, without counters,   *)
(* clocks or the watcher: a pool of sources that are up, from which a user *)
(* takes a source for one use.                                             *)
(***************************************************************************)

CONSTANTS
    Addresses,  \* the sources
    NoAddress,  \* stands for "no source taken"
    Callers     \* the users

VARIABLES
    up,     \* the sources in the pool
    using   \* the source each user holds, or NoAddress

poolVars == <<up, using>>

Init ==
    /\ up = Addresses
    /\ using = [c \in Callers |-> NoAddress]

Take(c) ==
    /\ using[c] = NoAddress
    /\ \E a \in up : using' = [using EXCEPT ![c] = a]
    /\ UNCHANGED up

Finish(c) ==
    /\ using[c] # NoAddress
    /\ using' = [using EXCEPT ![c] = NoAddress]
    /\ UNCHANGED up

Fail(c) ==
    /\ using[c] # NoAddress
    /\ up' = up \ {using[c]}
    /\ using' = [using EXCEPT ![c] = NoAddress]

(* Only sources nobody holds come back. *)
Recover ==
    /\ \E R \in SUBSET (Addresses \ up) :
         /\ \A c \in Callers : using[c] \notin R
         /\ up' = up \cup R
    /\ UNCHANGED using

Next == \/ \E c \in Callers : Take(c) \/ Finish(c) \/ Fail(c)
        \/ Recover

Spec == Init /\ [][Next]_poolVars
=============================================================================
