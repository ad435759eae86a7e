------------------------------ MODULE LoadTest ------------------------------
(***************************************************************************)
(* The load tester of load_testing/main.go, a program of its own: workers  *)
(* exchange packets with the server and put results into a channel, a      *)
(* collector counts them and raises the stop flag at the requested number, *)
(* a ticker computes the rate, and main waits for the flag and prints.     *)
(*                                                                         *)
(* Exchange has no deadline and sends again every second, so a worker whose *)
(* request the server never answers stays in it: the server answers no     *)
(* request it refuses.  The workers in Served are those that are answered. *)
(*                                                                         *)
(* The statistics are read by the ticker under a lock their writer does    *)
(* not take.  Both sums of the ticker are therefore read at moments of     *)
(* their own; that they may be the same moment covers a build that loads   *)
(* the counters once.                                                      *)
(***************************************************************************)
EXTENDS Integers, Sequences

CONSTANTS
    Workers,       \* the goroutines started, -concurency
    Served,        \* those whose requests are answered sooner or later
    Count,         \* the results to wait for, -c
    Buffer,        \* the buffer of statuses, 100000 in the code
    MaxTickers     \* bound of the model: so many passes of the ticker

ASSUME LoadTestAssumption ==
    /\ Served \subseteq Workers
    /\ Served # {}
    /\ Count \in Nat
    /\ Buffer \in Nat \ {0}
    /\ MaxTickers \in Nat

VARIABLES
    workers,       \* where each worker is, and what its exchange came to
    statuses,      \* the channel of results: is the result a success
    success, failed,                        \* stat.SuccessRequests, FailedRequests
    collector,     \* "running" or "stopped"
    stopFlag,      \* how many values wait in the channel stopFlag
    ticker,        \* where the ticker is, and the rate it has computed
    latestRequest, \* the ticker's local
    minRPS, maxRPS, summaryRPS, countRPSTickers,      \* fields of stat
    main           \* "wait", "report" or "exit"

rates == <<latestRequest, minRPS, maxRPS, summaryRPS, countRPSTickers>>
vars  == <<workers, statuses, success, failed, collector, stopFlag, ticker, rates, main>>

total == success + failed

Exchanging == [pc |-> "exchange", outcome |-> "none"]

TypeOK ==
    /\ workers \in [Workers -> [pc : {"exchange", "submit", "check", "done"},
                                outcome : {"none", "accept", "other", "error"}]]
    /\ statuses \in Seq(BOOLEAN) /\ Len(statuses) <= Buffer
    /\ success \in 0 .. Count /\ failed \in 0 .. Count
    /\ collector \in {"running", "stopped"}
    /\ stopFlag \in 0 .. 1
    /\ ticker \in [pc : {"idle", "read"}, rps : Int]
    /\ latestRequest \in Nat /\ minRPS \in Int /\ maxRPS \in Nat /\ summaryRPS \in Int
    /\ countRPSTickers \in 0 .. MaxTickers
    /\ main \in {"wait", "report", "exit"}

-----------------------------------------------------------------------------

Init ==
    /\ workers = [w \in Workers |-> Exchanging]
    /\ statuses = <<>>
    /\ success = 0 /\ failed = 0
    /\ collector = "running"
    /\ stopFlag = 0
    /\ ticker = [pc |-> "idle", rps |-> 0]
    /\ latestRequest = 0
    /\ minRPS = 0 /\ maxRPS = 0 /\ summaryRPS = 0 /\ countRPSTickers = 0
    /\ main = "wait"

Exchange(w, outcome) ==
    /\ workers[w].pc = "exchange"
    /\ workers' = [workers EXCEPT ![w] = [pc |-> "submit", outcome |-> outcome]]
    /\ UNCHANGED <<statuses, success, failed, collector, stopFlag, ticker, rates, main>>

SubmitUnbounded(w) ==                               \* mutant: a channel without end
    /\ workers[w].pc = "submit"
    /\ statuses' = Append(statuses, workers[w].outcome = "accept")
    /\ workers' = [workers EXCEPT ![w] = IF @.outcome = "error"
                                          THEN Exchanging
                                          ELSE [pc |-> "check", outcome |-> "none"]]
    /\ UNCHANGED <<success, failed, collector, stopFlag, ticker, rates, main>>
(* After an error the worker goes on without a look at the flag. *)
Submit(w) ==
    /\ workers[w].pc = "submit"
    /\ Len(statuses) < Buffer
    /\ statuses' = Append(statuses, workers[w].outcome = "accept")
    /\ workers' = [workers EXCEPT ![w] = IF @.outcome = "error"
                                          THEN Exchanging
                                          ELSE [pc |-> "check", outcome |-> "none"]]
    /\ UNCHANGED <<success, failed, collector, stopFlag, ticker, rates, main>>

CheckStopTakes(w) ==                                \* mutant: takes the flag out
    /\ workers[w].pc = "check"
    /\ stopFlag' = 0
    /\ workers' = [workers EXCEPT ![w] = IF stopFlag # 0
                                          THEN [pc |-> "done", outcome |-> "none"]
                                          ELSE Exchanging]
    /\ UNCHANGED <<statuses, success, failed, collector, ticker, rates, main>>
(* The flag is looked at with len and stays for the other workers and main. *)
CheckStop(w) ==
    /\ workers[w].pc = "check"
    /\ workers' = [workers EXCEPT ![w] = IF stopFlag # 0
                                          THEN [pc |-> "done", outcome |-> "none"]
                                          ELSE Exchanging]
    /\ UNCHANGED <<statuses, success, failed, collector, stopFlag, ticker, rates, main>>

Collect ==
    /\ collector = "running"
    /\ total < Count
    /\ statuses # <<>>
    /\ statuses' = Tail(statuses)
    /\ IF Head(statuses)
       THEN success' = success + 1 /\ UNCHANGED failed
       ELSE failed' = failed + 1 /\ UNCHANGED success
    /\ UNCHANGED <<workers, collector, stopFlag, ticker, rates, main>>

RaiseStopEarly ==                                   \* mutant: one result too few
    /\ collector = "running"
    /\ Count <= total + 1
    /\ stopFlag' = 1
    /\ collector' = "stopped"
    /\ UNCHANGED <<workers, statuses, success, failed, ticker, rates, main>>
RaiseStop ==
    /\ collector = "running"
    /\ Count <= total
    /\ stopFlag' = 1
    /\ collector' = "stopped"
    /\ UNCHANGED <<workers, statuses, success, failed, ticker, rates, main>>

(* A second has passed: the first sum. *)
TickerReads ==
    /\ ticker.pc = "idle"
    /\ countRPSTickers < MaxTickers
    /\ ticker' = [pc |-> "read", rps |-> total - latestRequest]
    /\ UNCHANGED <<workers, statuses, success, failed, collector, stopFlag, rates, main>>

TickerUpdatesOwn ==                                 \* mutant: forgets the earlier seconds
    /\ ticker.pc = "read"
    /\ latestRequest' = ticker.rps
    /\ maxRPS' = IF ticker.rps > maxRPS THEN ticker.rps ELSE maxRPS
    /\ minRPS' = IF ticker.rps < minRPS THEN ticker.rps ELSE minRPS
    /\ summaryRPS' = summaryRPS + ticker.rps
    /\ countRPSTickers' = countRPSTickers + 1
    /\ ticker' = [pc |-> "idle", rps |-> 0]
    /\ UNCHANGED <<workers, statuses, success, failed, collector, stopFlag, main>>
(* The second sum, and what is done with the rate. *)
TickerUpdates ==
    /\ ticker.pc = "read"
    /\ latestRequest' = total
    /\ maxRPS' = IF ticker.rps > maxRPS THEN ticker.rps ELSE maxRPS
    /\ minRPS' = IF ticker.rps < minRPS THEN ticker.rps ELSE minRPS
    /\ summaryRPS' = summaryRPS + ticker.rps
    /\ countRPSTickers' = countRPSTickers + 1
    /\ ticker' = [pc |-> "idle", rps |-> 0]
    /\ UNCHANGED <<workers, statuses, success, failed, collector, stopFlag, main>>

SeeStop ==
    /\ main = "wait"
    /\ stopFlag # 0
    /\ main' = "report"
    /\ UNCHANGED <<workers, statuses, success, failed, collector, stopFlag, ticker, rates>>

(* Prints and returns, which ends every goroutine. *)
Report ==
    /\ main = "report"
    /\ main' = "exit"
    /\ UNCHANGED <<workers, statuses, success, failed, collector, stopFlag, ticker, rates>>

Work(w) == (\E o \in {"accept", "other", "error"} : Exchange(w, o)) \/ Submit(w) \/ CheckStop(w)

Next ==
    /\ main # "exit"
    /\ \/ \E w \in Workers : Work(w)
       \/ Collect \/ RaiseStop
       \/ TickerReads \/ TickerUpdates
       \/ SeeStop \/ Report

Spec == Init /\ [][Next]_vars

(* Every goroutine runs until main returns; only those in Served get answers. *)
Fairness ==
    /\ \A w \in Served : WF_vars(main # "exit" /\ Work(w))
    /\ WF_vars(main # "exit" /\ (Collect \/ RaiseStop))
    /\ WF_vars(SeeStop \/ Report)

FairSpec == Spec /\ Fairness

-----------------------------------------------------------------------------
(* Properties *)

(* What is printed counts exactly the requested number of results, although  *)
(* the workers go on after the flag and results are left in the channel.     *)
EndsAtCount == main # "wait" => total = Count

(* The printed rate never claims more requests than there were, and no       *)
(* second comes out negative, although the ticker's two sums are read        *)
(* without excluding the collector: what comes between them is lost from the *)
(* rate and counted in no later second.                                      *)
RateNotOverstated == summaryRPS <= latestRequest /\ latestRequest <= total /\ minRPS = 0

(* The test ends as soon as one worker is answered, also if the requests of  *)
(* all the others are never answered and however small the channel is.       *)
TestEnds == <>(main = "exit")
=============================================================================
