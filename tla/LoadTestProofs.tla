--------------------------- MODULE LoadTestProofs ---------------------------
(***************************************************************************)
(* Proofs about the load tester, for any number of workers, any count of   *)
(* results and any buffer.                                                 *)
(***************************************************************************)
EXTENDS LoadTest, SequenceTheorems, TLAPS

(* The collector stops counting at Count, and only then raises the flag that *)
(* lets main report.                                                         *)
CountIsExact ==
    /\ total <= Count
    /\ collector = "stopped" => total = Count
    /\ stopFlag # 0 => collector = "stopped"
    /\ main # "wait" => collector = "stopped"

(* The rate the ticker has computed and not yet added fits between the last  *)
(* sum it kept and what has been counted by now.                             *)
RateFits ==
    /\ RateNotOverstated
    /\ ticker.pc = "read" => 0 <= ticker.rps /\ ticker.rps <= total - latestRequest

(* Between its two sums the ticker has not yet counted the pass.             *)
PassIsOpen == ticker.pc = "read" => countRPSTickers < MaxTickers

Inv == TypeOK /\ CountIsExact /\ RateFits /\ PassIsOpen

(* The counters and the rates are numbers.                                   *)
LEMMA NumberTypes ==
    ASSUME Inv
    PROVE  /\ Count \in Nat /\ success \in Nat /\ failed \in Nat /\ total \in Nat
           /\ latestRequest \in Nat /\ minRPS \in Int /\ maxRPS \in Nat /\ summaryRPS \in Int
           /\ ticker.rps \in Int /\ countRPSTickers \in 0 .. MaxTickers /\ MaxTickers \in Nat
           /\ success <= Count /\ failed <= Count
  BY LoadTestAssumption DEF Inv, TypeOK, total

(* Nothing is counted at the start.                                          *)
LEMMA InvInit ==
    ASSUME Init PROVE Inv
<1>1. success = 0 /\ failed = 0 /\ total = 0
  BY DEF Init, total
<1>2. TypeOK
  <2>1. workers \in [Workers -> [pc : {"exchange", "submit", "check", "done"},
                                 outcome : {"none", "accept", "other", "error"}]]
    BY DEF Init, Exchanging
  <2>2. statuses \in Seq(BOOLEAN) /\ Len(statuses) <= Buffer
    BY EmptySeq, LoadTestAssumption DEF Init
  <2>3. ticker \in [pc : {"idle", "read"}, rps : Int]
    BY DEF Init
  <2>4. QED
    BY <1>1, <2>1, <2>2, <2>3, LoadTestAssumption DEF Init, TypeOK
<1>3. CountIsExact
  BY <1>1, LoadTestAssumption DEF Init, CountIsExact
<1>4. RateFits
  BY <1>1 DEF Init, RateFits, RateNotOverstated
<1>5. PassIsOpen
  BY DEF Init, PassIsOpen
<1>6. QED
  BY <1>2, <1>3, <1>4, <1>5 DEF Inv

(* A worker's step changes no counter; what it adds fits into the channel.   *)
LEMMA InvWork ==
    ASSUME Inv, NEW w \in Workers, Work(w)
    PROVE  Inv'
<1> DEFINE Place == [pc : {"exchange", "submit", "check", "done"},
                     outcome : {"none", "accept", "other", "error"}]
<1>0. workers \in [Workers -> Place] /\ statuses \in Seq(BOOLEAN) /\ Len(statuses) <= Buffer
  BY DEF Inv, TypeOK
<1>1. UNCHANGED <<success, failed, total, collector, stopFlag, ticker, rates, main>>
  BY DEF Work, Exchange, Submit, CheckStop, total
<1>2. workers' \in [Workers -> Place]
  <2>1. ASSUME NEW x \in Place, workers' = [workers EXCEPT ![w] = x]
        PROVE  workers' \in [Workers -> Place]
    BY <1>0, <2>1
  <2>2. ASSUME NEW o \in {"accept", "other", "error"}, Exchange(w, o)
        PROVE  workers' \in [Workers -> Place]
    <3>1. [pc |-> "submit", outcome |-> o] \in Place
      OBVIOUS
    <3>2. workers' = [workers EXCEPT ![w] = [pc |-> "submit", outcome |-> o]]
      BY <2>2 DEF Exchange
    <3>3. QED
      BY <2>1, <3>1, <3>2
  <2>3. ASSUME NEW b \in BOOLEAN,
               workers' = [workers EXCEPT ![w] = IF b THEN Exchanging
                                                 ELSE [pc |-> "check", outcome |-> "none"]]
        PROVE  workers' \in [Workers -> Place]
    BY <2>1, <2>3 DEF Exchanging
  <2>4. CASE Submit(w)
    BY <2>3, <2>4 DEF Submit
  <2>5. CASE CheckStop(w)
    <3>1. Exchanging \in Place /\ [pc |-> "done", outcome |-> "none"] \in Place
      BY DEF Exchanging
    <3>2. workers' = [workers EXCEPT ![w] = IF stopFlag # 0
                        THEN [pc |-> "done", outcome |-> "none"] ELSE Exchanging]
      BY <2>5 DEF CheckStop
    <3>3. QED
      BY <2>1, <3>1, <3>2
  <2>6. QED
    BY <2>2, <2>4, <2>5 DEF Work
<1>3. statuses' \in Seq(BOOLEAN) /\ Len(statuses') <= Buffer
  <2>1. CASE Submit(w)
    <3>1. statuses' = Append(statuses, workers[w].outcome = "accept") /\ Len(statuses) < Buffer
      BY <2>1 DEF Submit
    <3>2. (workers[w].outcome = "accept") \in BOOLEAN
      OBVIOUS
    <3>3. statuses' \in Seq(BOOLEAN) /\ Len(statuses') = Len(statuses) + 1
      BY <1>0, <3>1, <3>2, AppendProperties
    <3>4. Len(statuses) \in Nat /\ Buffer \in Nat
      BY <1>0, LenProperties, LoadTestAssumption
    <3>5. QED
      BY <3>1, <3>3, <3>4
  <2>2. CASE ~Submit(w)
    BY <1>0, <2>2 DEF Work, Exchange, CheckStop
  <2>3. QED
    BY <2>1, <2>2
<1>4. TypeOK'
  BY <1>1, <1>2, <1>3 DEF Inv, TypeOK, rates
<1>5. CountIsExact' /\ RateFits' /\ PassIsOpen'
  BY <1>1 DEF Inv, CountIsExact, RateFits, RateNotOverstated, PassIsOpen, rates
<1>6. QED
  BY <1>4, <1>5 DEF Inv

(* The collector counts a result while there are fewer than Count, and       *)
(* raises the flag when there are so many.                                   *)
LEMMA InvCollector ==
    ASSUME Inv, Collect \/ RaiseStop
    PROVE  Inv'
<1>0. /\ Count \in Nat /\ success \in Nat /\ failed \in Nat /\ total \in Nat
      /\ total = success + failed /\ total' = success' + failed'
  BY NumberTypes DEF total
<1>1. UNCHANGED <<workers, ticker, rates, main>> /\ PassIsOpen'
  BY DEF Collect, RaiseStop, Inv, PassIsOpen, rates
<1>2. CASE Collect
  <2>1. /\ collector = "running" /\ total < Count
        /\ UNCHANGED <<collector, stopFlag>>
        /\ statuses # <<>> /\ statuses' = Tail(statuses)
        /\ \/ success' = success + 1 /\ failed' = failed
           \/ failed' = failed + 1 /\ success' = success
    BY <1>2 DEF Collect
  <2>2. total' = total + 1 /\ success' \in 0 .. Count /\ failed' \in 0 .. Count
    BY <1>0, <2>1
  <2>3. statuses' \in Seq(BOOLEAN) /\ Len(statuses') <= Buffer
    <3>1. statuses \in Seq(BOOLEAN) /\ Len(statuses) <= Buffer /\ Len(statuses) \in Nat
      BY LenProperties DEF Inv, TypeOK
    <3>2. statuses' \in Seq(BOOLEAN) /\ Len(statuses') = Len(statuses) - 1
      BY <2>1, <3>1, HeadTailProperties
    <3>3. QED
      BY <3>1, <3>2, LoadTestAssumption
  <2>4. TypeOK'
    <3>1. UNCHANGED <<workers, ticker, main, collector, stopFlag, latestRequest, minRPS,
                      maxRPS, summaryRPS, countRPSTickers>>
      BY <1>1, <2>1 DEF rates
    <3>2. QED
      BY <2>2, <2>3, <3>1 DEF Inv, TypeOK
  <2>5. CountIsExact'
    <3>1. total' <= Count
      <4>1. total < Count
        BY <2>1
      <4>2. total \in Nat /\ Count \in Nat /\ total' = total + 1
        BY <1>0, <2>2
      <4>3. QED
        BY <4>1, <4>2
    <3>2. UNCHANGED <<collector, stopFlag, main>> /\ collector = "running"
      BY <1>1, <2>1
    <3>3. QED
      BY <3>1, <3>2 DEF Inv, CountIsExact
  <2>6. RateFits'
    <3>1. UNCHANGED <<ticker, latestRequest, summaryRPS, minRPS>>
      BY <1>1 DEF rates
    <3>2. latestRequest \in Nat /\ ticker.rps \in Int /\ total' = total + 1 /\ total \in Nat
      BY <2>2, NumberTypes
    <3>3. RateNotOverstated'
      BY <3>1, <3>2 DEF Inv, RateFits, RateNotOverstated
    <3>4. (ticker.pc = "read" => 0 <= ticker.rps /\ ticker.rps <= total - latestRequest)'
      BY <3>1, <3>2 DEF Inv, RateFits
    <3>5. QED
      BY <3>3, <3>4 DEF RateFits
  <2>7. QED
    BY <1>1, <2>4, <2>5, <2>6 DEF Inv
<1>3. CASE RaiseStop
  <2>1. /\ Count <= total /\ stopFlag' = 1 /\ collector' = "stopped"
        /\ UNCHANGED <<statuses, success, failed>>
    BY <1>3 DEF RaiseStop
  <2>2. total' = total
    BY <1>0, <2>1
  <2>3. TypeOK' /\ RateFits'
    BY <1>1, <2>1, <2>2 DEF Inv, TypeOK, RateFits, RateNotOverstated, rates
  <2>4. total' = Count
    BY <1>0, <2>1, <2>2 DEF Inv, CountIsExact
  <2>5. CountIsExact'
    BY <1>0, <2>1, <2>4 DEF CountIsExact
  <2>6. QED
    BY <1>1, <2>3, <2>5 DEF Inv
<1>4. QED
  BY <1>2, <1>3

(* The ticker keeps the larger, later sum: what was counted in between is    *)
(* missing from the rates, never in them twice.                              *)
LEMMA InvTicker ==
    ASSUME Inv, TickerReads \/ TickerUpdates
    PROVE  Inv'
<1>0. /\ total \in Nat /\ latestRequest \in Nat /\ minRPS = 0 /\ summaryRPS \in Int
      /\ ticker.rps \in Int /\ maxRPS \in Nat
      /\ summaryRPS <= latestRequest /\ latestRequest <= total
  BY NumberTypes DEF Inv, RateFits, RateNotOverstated
<1>1. UNCHANGED <<workers, statuses, success, failed, total, collector, stopFlag, main>>
  BY DEF TickerReads, TickerUpdates, total
<1>2. CountIsExact'
  BY <1>1 DEF Inv, CountIsExact
<1>3. CASE TickerReads
  <2>1. UNCHANGED rates /\ ticker' = [pc |-> "read", rps |-> total - latestRequest]
    BY <1>3 DEF TickerReads
  <2>2. ticker'.rps = total - latestRequest /\ total - latestRequest \in Nat
        /\ ticker' \in [pc : {"idle", "read"}, rps : Int]
    BY <1>0, <2>1
  <2>3. TypeOK'
    BY <1>1, <2>1, <2>2 DEF Inv, TypeOK, rates
  <2>4. RateFits'
    BY <1>0, <1>1, <2>1, <2>2 DEF RateFits, RateNotOverstated, rates
  <2>5. PassIsOpen'
    BY <1>3, <2>1, NumberTypes DEF TickerReads, PassIsOpen, rates
  <2>6. QED
    BY <1>2, <2>3, <2>4, <2>5 DEF Inv
<1>4. CASE TickerUpdates
  <2>1. /\ ticker.pc = "read" /\ latestRequest' = total /\ summaryRPS' = summaryRPS + ticker.rps
        /\ maxRPS' = (IF ticker.rps > maxRPS THEN ticker.rps ELSE maxRPS)
        /\ minRPS' = (IF ticker.rps < minRPS THEN ticker.rps ELSE minRPS)
        /\ countRPSTickers' = countRPSTickers + 1
        /\ ticker' = [pc |-> "idle", rps |-> 0]
    BY <1>4 DEF TickerUpdates
  <2>2. 0 <= ticker.rps /\ ticker.rps <= total - latestRequest
    BY <2>1 DEF Inv, RateFits
  <2>3. minRPS' = 0 /\ maxRPS' \in Nat /\ summaryRPS' \in Int /\ summaryRPS' <= total
    BY <1>0, <2>1, <2>2
  <2>4. RateFits'
    BY <1>0, <1>1, <2>1, <2>3 DEF RateFits, RateNotOverstated
  <2>5. countRPSTickers' \in 0 .. MaxTickers
    BY <2>1, NumberTypes DEF Inv, PassIsOpen
  <2>6. TypeOK'
    BY <1>0, <1>1, <2>1, <2>3, <2>5 DEF Inv, TypeOK
  <2>7. PassIsOpen'
    BY <2>1 DEF PassIsOpen
  <2>8. QED
    BY <1>2, <2>4, <2>6, <2>7 DEF Inv
<1>5. QED
  BY <1>3, <1>4

(* Main changes none of the numbers and goes on only after the flag.         *)
LEMMA InvMain ==
    ASSUME Inv, SeeStop \/ Report
    PROVE  Inv'
<1>1. /\ UNCHANGED <<workers, statuses, success, failed, total, collector, stopFlag, ticker, rates>>
      /\ main' \in {"report", "exit"} /\ (stopFlag # 0 \/ main # "wait")
  BY DEF SeeStop, Report, total
<1>2. TypeOK' /\ RateFits' /\ PassIsOpen'
  BY <1>1 DEF Inv, TypeOK, RateFits, RateNotOverstated, PassIsOpen, rates
<1>3. CountIsExact'
  BY <1>1 DEF Inv, CountIsExact
<1>4. QED
  BY <1>2, <1>3 DEF Inv

(* The counters, the ticker and the flag agree in every reachable state.     *)
THEOREM LoadTestInv == Spec => []Inv
<1>1. Inv /\ [Next]_vars => Inv'
  <2> SUFFICES ASSUME Inv, [Next]_vars PROVE Inv'
    OBVIOUS
  <2>1. CASE UNCHANGED vars
    BY <2>1 DEF vars, rates, Inv, TypeOK, CountIsExact, RateFits, RateNotOverstated, PassIsOpen, total
  <2>2. QED
    BY <2>1, InvWork, InvCollector, InvTicker, InvMain DEF Next
<1>2. QED
  BY <1>1, InvInit, PTL DEF Spec

(* The counters stay numbers, and the channel within its buffer.             *)
THEOREM LoadTestTypeOK == Spec => []TypeOK
<1>1. Inv => TypeOK
  BY DEF Inv
<1>2. QED
  BY <1>1, LoadTestInv, PTL

(* What main prints is the requested number of results, although the workers *)
(* go on after the flag and results are left in the channel.                 *)
THEOREM LoadTestEndsAtCount == Spec => []EndsAtCount
<1>1. Inv => EndsAtCount
  BY DEF Inv, CountIsExact, EndsAtCount
<1>2. QED
  BY <1>1, LoadTestInv, PTL

(* The rate claims no more requests than were counted, although the ticker   *)
(* reads the counters without excluding the collector.                       *)
THEOREM LoadTestRateNotOverstated == Spec => []RateNotOverstated
<1>1. Inv => RateNotOverstated
  BY DEF Inv, RateFits
<1>2. QED
  BY <1>1, LoadTestInv, PTL
=============================================================================
