------------------------------ MODULE MCStartup ------------------------------
(* Startup on small instances: a secret with one placeholder twice, and      *)
(* environments in which it is unset, set, and set to a value that names     *)
(* another variable, before and after it in the order of the environment.    *)
EXTENDS Startup

Text(s) == [var |-> FALSE, name |-> s]
Var(s)  == [var |-> TRUE, name |-> s]

MCDocument == <<Var("SECRET"), Text("-"), Var("SECRET")>>

Secret(v) == [name |-> "SECRET", value |-> v]
Host(v)   == [name |-> "HOST", value |-> v]

MCEnvironments ==
    {<<Host(<<Text("h")>>)>>,
     <<Secret(<<Text("s")>>)>>,
     <<Secret(<<Text("s"), Var("HOST")>>), Host(<<Var("SECRET")>>)>>,
     <<Host(<<Text("h")>>), Secret(<<Var("HOST"), Var("SECRET")>>)>>}

(* The model stops when the process has, or serves. *)
Over == (main = "serving" \/ ~Running) /\ UNCHANGED vars

MCFairSpec ==
    /\ Init /\ [][Next \/ Over]_vars
    /\ WF_vars(MainStep)
    /\ \A g \in Goroutines : WF_vars(Write(g))
    /\ \A s \in {"exporter", "profiler"} : WF_vars(Panic(s))
=============================================================================
