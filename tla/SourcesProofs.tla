--------------------------- MODULE SourcesProofs ---------------------------
(***************************************************************************)
(* Proofs about the source list, for any addresses, callers and timeouts.  *)
(***************************************************************************)
EXTENDS Sources, FiniteSetTheorems, TLAPS

(* Every variable keeps its type, whatever the interleaving of the handlers *)
(* and the watcher.                                                         *)
THEOREM SourcesTypeOK == Spec => []TypeOK
<1>1. Init => TypeOK
  BY SourcesAssumption DEF Init, TypeOK, Source, Call, Idle
<1>2. TypeOK /\ [Next]_vars => TypeOK'
  <2> SUFFICES ASSUME TypeOK, [Next]_vars PROVE TypeOK'
    OBVIOUS
  <2> USE SourcesAssumption DEF TypeOK, Source, Call
  <2>1. ASSUME NEW c \in Callers, GetSource(c) PROVE TypeOK'
    BY <2>1 DEF GetSource, LeastUsed, Alive
  <2>2. ASSUME NEW c \in Callers, IncRequests(c) PROVE TypeOK'
    <3>1. calls[c].addr \in Addresses
      BY <2>2 DEF IncRequests
    <3>2. sources' \in [Addresses -> Source]
      BY <2>2, <3>1 DEF IncRequests
    <3>3. calls' \in [Callers -> Call]
      BY <2>2 DEF IncRequests
    <3>4. \A d \in Callers : calls'[d].pc = "idle" <=> calls'[d].addr = NoAddress
      BY <2>2, <3>1 DEF IncRequests
    <3>5. QED
      BY <2>2, <3>2, <3>3, <3>4 DEF IncRequests
  <2>3. ASSUME NEW c \in Callers, PostSucceeds(c) PROVE TypeOK'
    BY <2>3 DEF PostSucceeds, Idle
  <2>4. ASSUME NEW c \in Callers, PostFails(c) PROVE TypeOK'
    <3>1. PICK w \in Failures : calls' = [calls EXCEPT ![c].pc = "failed", ![c].why = w]
      BY <2>4 DEF PostFails
    <3>2. calls'[c] = [pc |-> "failed", addr |-> calls[c].addr,
                       since |-> calls[c].since, why |-> w]
      BY <3>1
    <3>3. \A d \in Callers : d # c => calls'[d] = calls[d]
      BY <3>1
    <3>4. calls' \in [Callers -> Call]
      BY <3>1, <3>2, <3>3
    <3>5. \A d \in Callers : calls'[d].pc = "idle" <=> calls'[d].addr = NoAddress
      BY <2>4, <3>2, <3>3 DEF PostFails
    <3>6. QED
      BY <2>4, <3>4, <3>5 DEF PostFails
  <2>5. ASSUME NEW c \in Callers, Disable(c) PROVE TypeOK'
    BY <2>5 DEF Disable, Idle
  <2>6. CASE SourcesWatcher
    <3>1. \A a \in Addresses :
            sources'[a] = [IsAlive     |-> sources[a].IsAlive \/ Rested(a),
                           Requests    |-> sources[a].Requests,
                           DisableTime |-> sources[a].DisableTime]
      BY <2>6 DEF SourcesWatcher
    <3>2. \A a \in Addresses : (sources[a].IsAlive \/ Rested(a)) \in BOOLEAN
      BY DEF Rested
    <3>3. \A a \in Addresses : sources'[a] \in Source
      <4>1. \A p \in BOOLEAN, r \in Nat, t \in Nat :
              [IsAlive |-> p, Requests |-> r, DisableTime |-> t] \in Source
        OBVIOUS
      <4>2. \A a \in Addresses : sources[a].Requests \in Nat /\ sources[a].DisableTime \in Nat
        OBVIOUS
      <4> HIDE DEF TypeOK, Source
      <4>3. QED
        BY <3>1, <3>2, <4>1, <4>2
    <3>4. sources' \in [Addresses -> Source]
      BY <2>6, <3>3 DEF SourcesWatcher
    <3>5. QED
      BY <2>6, <3>4 DEF SourcesWatcher
  <2>7. CASE Tick
    BY <2>7 DEF Tick
  <2>8. CASE UNCHANGED vars
    BY <2>8 DEF vars
  <2>9. QED
    BY <2>1, <2>2, <2>3, <2>4, <2>5, <2>6, <2>7, <2>8 DEF Next
<1>3. QED
  BY <1>1, <1>2, PTL DEF Spec

-----------------------------------------------------------------------------
(* Even use.  The counters alone are not inductive: a caller between        *)
(* GetSource and IncRequests holds a request that is not counted yet.       *)

Picked(a) == {c \in Callers : calls[c].pc = "picked" /\ calls[c].addr = a}

Even ==
    \A b \in Addresses :
        downSince[b] = -1 =>
            /\ sources[b].IsAlive
            /\ \A a \in Addresses :
                 sources[a].Requests + Cardinality(Picked(a))
                    <= sources[b].Requests + Cardinality(Callers)

(* The number of callers holding an uncounted request for a source.         *)
LEMMA PickedBound ==
    ASSUME NEW a
    PROVE  /\ IsFiniteSet(Picked(a))
           /\ Cardinality(Picked(a)) \in Nat
           /\ Cardinality(Callers) \in Nat
           /\ Cardinality(Picked(a)) <= Cardinality(Callers)
<1>1. Picked(a) \subseteq Callers
  BY DEF Picked
<1>2. QED
  BY <1>1, SourcesAssumption, FS_Subset, FS_CardinalityType

(* A step that picks no new source leaves no source more picked.            *)
LEMMA PickedShrinks ==
    ASSUME NEW a, Picked(a)' \subseteq Picked(a)
    PROVE  /\ Cardinality(Picked(a)') \in Nat
           /\ Cardinality(Picked(a)') <= Cardinality(Picked(a))
BY PickedBound, FS_Subset, FS_CardinalityType

(* A source that was never taken out falls behind no other by more than the *)
(* number of callers: GetSource then IncRequests, interleaved any way.      *)
THEOREM SourcesEvenUse == Spec => []EvenUse
<1>1. Init => Even
  <2> SUFFICES ASSUME Init PROVE Even
    OBVIOUS
  <2>1. \A a \in Addresses : Cardinality(Picked(a)) <= Cardinality(Callers)
    BY PickedBound
  <2>2. \A a \in Addresses : Cardinality(Picked(a)) \in Nat /\ Cardinality(Callers) \in Nat
    BY PickedBound
  <2>3. QED
    BY <2>1, <2>2 DEF Init, Even
<1>2. TypeOK /\ TypeOK' /\ Even /\ [Next]_vars => Even'
  <2> SUFFICES ASSUME TypeOK, TypeOK', Even, [Next]_vars PROVE Even'
    OBVIOUS
  <2> USE DEF TypeOK, Source, Call
  <2>0. ASSUME \A a \in Addresses : /\ Picked(a)' \subseteq Picked(a)
                                    /\ sources'[a].Requests = sources[a].Requests
                                    /\ downSince'[a] = -1 => downSince[a] = -1
                                    /\ downSince'[a] = -1 => sources'[a].IsAlive
        PROVE  Even'
    <3> SUFFICES ASSUME NEW b \in Addresses, downSince'[b] = -1, NEW a \in Addresses
                 PROVE  sources'[a].Requests + Cardinality(Picked(a)')
                          <= sources'[b].Requests + Cardinality(Callers)
      BY <2>0 DEF Even
    <3>1. sources[a].Requests + Cardinality(Picked(a))
            <= sources[b].Requests + Cardinality(Callers)
      BY <2>0 DEF Even
    <3>2. /\ Cardinality(Picked(a)') \in Nat
          /\ Cardinality(Picked(a)') <= Cardinality(Picked(a))
      BY <2>0, PickedShrinks
    <3>3. /\ Cardinality(Picked(a)) \in Nat
          /\ Cardinality(Callers) \in Nat
      BY PickedBound
    <3>4. sources[a].Requests \in Nat /\ sources[b].Requests \in Nat
      OBVIOUS
    <3>5. sources'[a].Requests = sources[a].Requests /\ sources'[b].Requests = sources[b].Requests
      BY <2>0
    <3> HIDE DEF TypeOK
    <3>6. QED
      BY <3>1, <3>2, <3>3, <3>4, <3>5
  <2>1. ASSUME NEW c \in Callers, GetSource(c) PROVE Even'
    <3> SUFFICES ASSUME NEW b \in Addresses, downSince'[b] = -1, NEW a \in Addresses
                 PROVE  sources'[a].Requests + Cardinality(Picked(a)')
                          <= sources'[b].Requests + Cardinality(Callers)
      BY <2>1 DEF Even, GetSource
    <3>1. PICK x \in LeastUsed :
            calls' = [calls EXCEPT ![c] =
                        [pc |-> "picked", addr |-> x, since |-> now, why |-> "none"]]
      BY <2>1 DEF GetSource
    <3>2. UNCHANGED <<sources, downSince>>
      BY <2>1 DEF GetSource
    <3>3. b \in Alive
      BY <3>2 DEF Even, Alive
    <3>4. CASE a = x
      <4>1. sources[a].Requests <= sources[b].Requests
        BY <3>3, <3>4 DEF LeastUsed
      <4>2. Picked(a)' \subseteq Callers
        BY DEF Picked
      <4>3. /\ Cardinality(Picked(a)') \in Nat
            /\ Cardinality(Callers) \in Nat
            /\ Cardinality(Picked(a)') <= Cardinality(Callers)
        BY <4>2, SourcesAssumption, FS_Subset, FS_CardinalityType
      <4>4. sources[a].Requests \in Nat /\ sources[b].Requests \in Nat
        OBVIOUS
      <4>5. QED
        BY <3>2, <4>1, <4>3, <4>4
    <3>5. CASE a # x
      <4>1. Picked(a)' \subseteq Picked(a)
        BY <3>1, <3>5 DEF Picked
      <4>2. /\ Cardinality(Picked(a)') \in Nat
            /\ Cardinality(Picked(a)') <= Cardinality(Picked(a))
        BY <4>1, PickedShrinks
      <4>3. sources[a].Requests + Cardinality(Picked(a))
              <= sources[b].Requests + Cardinality(Callers)
        BY <3>2 DEF Even
      <4>4. sources[a].Requests \in Nat /\ sources[b].Requests \in Nat
        OBVIOUS
      <4>5. Cardinality(Picked(a)) \in Nat /\ Cardinality(Callers) \in Nat
        BY PickedBound
      <4>6. QED
        BY <3>2, <4>2, <4>3, <4>4, <4>5
    <3>6. QED
      BY <3>4, <3>5
  <2>2. ASSUME NEW c \in Callers, IncRequests(c) PROVE Even'
    <3>1. PICK x \in Addresses : x = calls[c].addr /\ c \in Picked(x)
      BY <2>2, SourcesAssumption DEF IncRequests, Picked
    <3>2. \A a \in Addresses :
            /\ sources'[a].IsAlive = sources[a].IsAlive
            /\ sources'[a].Requests = IF a = x THEN sources[a].Requests + 1
                                              ELSE sources[a].Requests
      <4>1. sources' = [sources EXCEPT ![x].Requests = @ + 1]
        BY <2>2, <3>1 DEF IncRequests
      <4>2. QED
        BY <4>1
    <3>3. \A a \in Addresses : Picked(a)' = IF a = x THEN Picked(a) \ {c} ELSE Picked(a)
      BY <2>2, <3>1 DEF IncRequests, Picked
    <3>4. Cardinality(Picked(x)') = Cardinality(Picked(x)) - 1
      <4>1. IsFiniteSet(Picked(x))
        BY PickedBound
      <4>2. Picked(x)' = Picked(x) \ {c}
        BY <3>3
      <4>3. Cardinality(Picked(x) \ {c}) = Cardinality(Picked(x)) - 1
        BY <3>1, <4>1, FS_RemoveElement
      <4>4. QED
        BY <4>2, <4>3
    <3>5. \A a \in Addresses : sources'[a].Requests + Cardinality(Picked(a)')
                                 = sources[a].Requests + Cardinality(Picked(a))
      <4> SUFFICES ASSUME NEW a \in Addresses
                   PROVE  sources'[a].Requests + Cardinality(Picked(a)')
                            = sources[a].Requests + Cardinality(Picked(a))
        OBVIOUS
      <4>1. sources[a].Requests \in Nat /\ Cardinality(Picked(a)) \in Nat
        BY PickedBound
      <4>2. CASE a = x
        <5>1. sources'[a].Requests = sources[a].Requests + 1
          BY <3>2, <4>2
        <5>2. Cardinality(Picked(a)') = Cardinality(Picked(a)) - 1
          <6>1. Cardinality(Picked(a)) = Cardinality(Picked(x))
            BY <4>2
          <6>2. Cardinality(Picked(a)') = Cardinality(Picked(x)')
            BY <4>2
          <6>3. QED
            BY <3>4, <6>1, <6>2
        <5> HIDE DEF TypeOK
        <5>3. QED
          BY <4>1, <5>1, <5>2
      <4>3. CASE a # x
        BY <3>2, <3>3, <4>3
      <4>4. QED
        BY <4>2, <4>3
    <3>6. \A b \in Addresses : /\ sources[b].Requests <= sources'[b].Requests
                               /\ sources'[b].IsAlive = sources[b].IsAlive
      BY <3>2
    <3>7. downSince' = downSince
      BY <2>2 DEF IncRequests
    <3> SUFFICES ASSUME NEW b \in Addresses, downSince[b] = -1, NEW a \in Addresses
                 PROVE  sources'[a].Requests + Cardinality(Picked(a)')
                          <= sources'[b].Requests + Cardinality(Callers)
      BY <3>6, <3>7 DEF Even
    <3>8. sources[a].Requests + Cardinality(Picked(a))
            <= sources[b].Requests + Cardinality(Callers)
      BY DEF Even
    <3>9. /\ sources[a].Requests \in Nat /\ sources[b].Requests \in Nat
          /\ sources'[b].Requests \in Nat
      OBVIOUS
    <3>10. Cardinality(Picked(a)) \in Nat /\ Cardinality(Callers) \in Nat
      BY PickedBound
    <3>11. sources[b].Requests <= sources'[b].Requests
      BY <3>6
    <3>12. sources'[a].Requests + Cardinality(Picked(a)')
             = sources[a].Requests + Cardinality(Picked(a))
      BY <3>5
    <3> HIDE DEF TypeOK
    <3>13. QED
      BY <3>8, <3>9, <3>10, <3>11, <3>12
  <2>3. ASSUME NEW c \in Callers, PostSucceeds(c) PROVE Even'
    BY <2>0, <2>3 DEF PostSucceeds, Picked, Even, Idle
  <2>4. ASSUME NEW c \in Callers, PostFails(c) PROVE Even'
    BY <2>0, <2>4 DEF PostFails, Picked, Even
  <2>5. ASSUME NEW c \in Callers, Disable(c) PROVE Even'
    <3>1. \A a \in Addresses : Picked(a)' \subseteq Picked(a)
      BY <2>5 DEF Disable, Picked, Idle
    <3>2. \A a \in Addresses : sources'[a].Requests = sources[a].Requests
      BY <2>5 DEF Disable
    <3>3. \A a \in Addresses : downSince'[a] = -1 => downSince[a] = -1
      BY <2>5 DEF Disable
    <3>4. \A a \in Addresses : downSince'[a] = -1 => sources'[a].IsAlive
      BY <2>5 DEF Disable, Even, Alive
    <3>5. QED
      BY <2>0, <3>1, <3>2, <3>3, <3>4
  <2>6. CASE SourcesWatcher
    <3>1. calls' = calls /\ downSince' = downSince
      BY <2>6 DEF SourcesWatcher
    <3>2. \A a \in Addresses :
            /\ sources'[a].Requests = sources[a].Requests
            /\ sources[a].IsAlive => sources'[a].IsAlive
      <4>1. TAKE a \in Addresses
      <4>2. sources'[a] = [sources[a] EXCEPT !.IsAlive = @ \/ Rested(a)]
        BY <2>6 DEF SourcesWatcher
      <4>3. sources[a] \in Source
        BY <2>0 DEF TypeOK
      <4>4. QED
        BY <4>2, <4>3 DEF Source
    <3>3. \A a \in Addresses : Picked(a)' = Picked(a)
      BY <3>1 DEF Picked
    <3>4. ASSUME NEW b \in Addresses, downSince'[b] = -1
          PROVE  /\ sources'[b].IsAlive
                 /\ \A a \in Addresses :
                      sources'[a].Requests + Cardinality(Picked(a)')
                        <= sources'[b].Requests + Cardinality(Callers)
      <4>1. /\ sources[b].IsAlive
            /\ \A a \in Addresses :
                 sources[a].Requests + Cardinality(Picked(a))
                   <= sources[b].Requests + Cardinality(Callers)
        BY <2>0, <3>1, <3>4 DEF Even
      <4>2. QED
        BY <3>2, <3>3, <4>1
    <3>5. QED
      BY <3>4 DEF Even
  <2>7. CASE Tick
    BY <2>0, <2>7 DEF Tick, Picked, Even
  <2>8. CASE UNCHANGED vars
    BY <2>0, <2>8 DEF vars, Picked, Even
  <2>9. QED
    BY <2>1, <2>2, <2>3, <2>4, <2>5, <2>6, <2>7, <2>8 DEF Next
<1>3. TypeOK /\ Even => EvenUse
  <2> SUFFICES ASSUME TypeOK, Even,
                      NEW a \in Addresses, NEW b \in Addresses, downSince[b] = -1
               PROVE  sources[a].Requests <= sources[b].Requests + Cardinality(Callers)
    BY DEF EvenUse
  <2>1. sources[a].Requests + Cardinality(Picked(a))
          <= sources[b].Requests + Cardinality(Callers)
    BY DEF Even
  <2>2. sources[a].Requests \in Nat /\ sources[b].Requests \in Nat
    BY DEF TypeOK, Source
  <2>3. Cardinality(Picked(a)) \in Nat /\ Cardinality(Callers) \in Nat
    BY PickedBound
  <2>4. QED
    BY <2>1, <2>2, <2>3
<1>4. QED
  BY <1>1, <1>2, <1>3, SourcesTypeOK, PTL DEF Spec

-----------------------------------------------------------------------------
(* Outages.  The bound on an outage needs the bounds it is made of: how long *)
(* a call lasts, that a call in flight to a dead source was sent before the  *)
(* source was taken out, and that a dead source is looked at by the watcher  *)
(* at most one sleep after its disable_timeout.                              *)

CallsAreShort ==
    \A c \in Callers :
        calls[c].pc # "idle" => /\ calls[c].since <= now
                               /\ now <= calls[c].since + Timeout

WatcherIsDue == now <= wake /\ wake <= now + WatchPeriod

DeadSince(a) ==
    /\ 0 <= downSince[a]
    /\ downSince[a] <= sources[a].DisableTime
    /\ sources[a].DisableTime <= now
    /\ sources[a].DisableTime <= downSince[a] + Timeout
    /\ wake <= sources[a].DisableTime + DisableTimeout + WatchPeriod

DeadAreDated == \A a \in Addresses : ~sources[a].IsAlive => DeadSince(a)

SentBefore ==
    \A c \in Callers, a \in Addresses :
        (InFlight(c, a) /\ ~sources[a].IsAlive) => calls[c].since <= downSince[a]

Timing == CallsAreShort /\ WatcherIsDue /\ DeadAreDated /\ SentBefore

(* The timing bounds hold together along every behaviour. *)
THEOREM SourcesTiming == Spec => []Timing
<1>1. Init => Timing
  BY SourcesAssumption
     DEF Init, Idle, Timing, CallsAreShort, WatcherIsDue, DeadAreDated, SentBefore, InFlight
<1>2. TypeOK /\ TypeOK' /\ Timing /\ [Next]_vars => Timing'
  <2> SUFFICES ASSUME TypeOK, TypeOK', Timing, [Next]_vars PROVE Timing'
    OBVIOUS
  <2> USE SourcesAssumption DEF TypeOK, Source, Call
  <2>1. ASSUME NEW c \in Callers, GetSource(c) PROVE Timing'
    <3>1. PICK x \in LeastUsed :
            calls' = [calls EXCEPT ![c] =
                        [pc |-> "picked", addr |-> x, since |-> now, why |-> "none"]]
      BY <2>1 DEF GetSource
    <3>2. UNCHANGED <<sources, wake, now, downSince>>
      BY <2>1 DEF GetSource
    <3>3. x \in Addresses /\ sources[x].IsAlive
      BY DEF LeastUsed, Alive
    <3>4. CallsAreShort'
      BY <3>1, <3>2 DEF Timing, CallsAreShort
    <3>5. SentBefore'
      BY <3>1, <3>2, <3>3 DEF Timing, SentBefore, InFlight
    <3>6. WatcherIsDue' /\ DeadAreDated'
      BY <3>2 DEF Timing, WatcherIsDue, DeadAreDated, DeadSince
    <3>7. QED
      BY <3>4, <3>5, <3>6 DEF Timing
  <2>2. ASSUME NEW c \in Callers, IncRequests(c) PROVE Timing'
    <3>1. \A a \in Addresses : /\ sources'[a].IsAlive = sources[a].IsAlive
                               /\ sources'[a].DisableTime = sources[a].DisableTime
      BY <2>2 DEF IncRequests
    <3>2. UNCHANGED <<wake, now, downSince>>
      BY <2>2 DEF IncRequests
    <3>3. \A d \in Callers : /\ calls'[d].pc = "idle" <=> calls[d].pc = "idle"
                             /\ calls'[d].addr = calls[d].addr
                             /\ calls'[d].since = calls[d].since
      BY <2>2 DEF IncRequests
    <3>4. CallsAreShort'
      BY <3>2, <3>3 DEF Timing, CallsAreShort
    <3>5. SentBefore'
      BY <3>1, <3>2, <3>3 DEF Timing, SentBefore, InFlight
    <3>6. WatcherIsDue' /\ DeadAreDated'
      BY <3>1, <3>2 DEF Timing, WatcherIsDue, DeadAreDated, DeadSince
    <3>7. QED
      BY <3>4, <3>5, <3>6 DEF Timing
  <2>3. ASSUME NEW c \in Callers, PostSucceeds(c) PROVE Timing'
    BY <2>3 DEF PostSucceeds, Idle, Timing, CallsAreShort, WatcherIsDue, DeadAreDated,
                DeadSince, SentBefore, InFlight
  <2>4. ASSUME NEW c \in Callers, PostFails(c) PROVE Timing'
    <3>1. UNCHANGED <<sources, wake, now, downSince>>
      BY <2>4 DEF PostFails
    <3>2. \A d \in Callers : /\ calls'[d].pc = "idle" <=> calls[d].pc = "idle"
                             /\ calls'[d].addr = calls[d].addr
                             /\ calls'[d].since = calls[d].since
      BY <2>4 DEF PostFails
    <3>3. CallsAreShort'
      BY <3>1, <3>2 DEF Timing, CallsAreShort
    <3>4. SentBefore'
      BY <3>1, <3>2 DEF Timing, SentBefore, InFlight
    <3>5. WatcherIsDue' /\ DeadAreDated'
      BY <3>1 DEF Timing, WatcherIsDue, DeadAreDated, DeadSince
    <3>6. QED
      BY <3>3, <3>4, <3>5 DEF Timing
  <2>5. ASSUME NEW c \in Callers, Disable(c) PROVE Timing'
    <3>1. PICK x \in Addresses : x = calls[c].addr
      BY <2>5 DEF Disable
    <3>2. /\ sources' = [sources EXCEPT ![x].IsAlive = FALSE, ![x].DisableTime = now]
          /\ downSince' = [downSince EXCEPT ![x] = IF x \in Alive THEN now ELSE @]
          /\ calls' = [calls EXCEPT ![c] = Idle]
          /\ UNCHANGED <<wake, now>>
      BY <2>5, <3>1 DEF Disable
    <3>3. calls[c].since <= now /\ now <= calls[c].since + Timeout
      BY <2>5 DEF Disable, Timing, CallsAreShort
    <3>4. ~sources[x].IsAlive => calls[c].since <= downSince[x]
      BY <2>5, <3>1 DEF Disable, Timing, SentBefore, InFlight
    <3>5. /\ sources'[x].DisableTime = now
          /\ downSince'[x] = IF sources[x].IsAlive THEN now ELSE downSince[x]
      BY <3>2 DEF Alive
    <3>6. \A a \in Addresses : a # x => /\ sources'[a] = sources[a]
                                        /\ downSince'[a] = downSince[a]
      BY <3>2
    <3>7. DeadSince(x)'
      <4>1. wake <= now + WatchPeriod
        BY DEF Timing, WatcherIsDue
      <4>2. ~sources[x].IsAlive => 0 <= downSince[x] /\ downSince[x] <= now
        BY DEF Timing, DeadAreDated, DeadSince
      <4>3. CASE sources[x].IsAlive
        BY <3>2, <3>5, <4>1, <4>3 DEF DeadSince
      <4>4. CASE ~sources[x].IsAlive
        BY <3>2, <3>3, <3>4, <3>5, <4>1, <4>2, <4>4 DEF DeadSince
      <4>5. QED
        BY <4>3, <4>4
    <3>8. DeadAreDated'
      BY <3>2, <3>6, <3>7 DEF Timing, DeadAreDated, DeadSince
    <3>9. CallsAreShort'
      BY <3>2 DEF Timing, CallsAreShort, Idle
    <3>10. SentBefore'
      <4> SUFFICES ASSUME NEW d \in Callers, NEW a \in Addresses,
                          InFlight(d, a)', ~sources'[a].IsAlive
                   PROVE  calls'[d].since <= downSince'[a]
        BY DEF SentBefore
      <4>1. d # c /\ calls'[d] = calls[d] /\ InFlight(d, a)
        BY <3>2 DEF InFlight, Idle
      <4>2. CASE a # x \/ ~sources[x].IsAlive
        BY <3>5, <3>6, <4>1, <4>2 DEF Timing, SentBefore
      <4>3. CASE a = x /\ sources[x].IsAlive
        BY <3>5, <4>1, <4>3 DEF Timing, CallsAreShort, InFlight
      <4>4. QED
        BY <4>2, <4>3
    <3>11. WatcherIsDue'
      BY <3>2 DEF Timing, WatcherIsDue
    <3>12. QED
      BY <3>8, <3>9, <3>10, <3>11 DEF Timing
  <2>6. CASE SourcesWatcher
    <3>1. \A a \in Addresses :
            /\ ~sources'[a].IsAlive => ~sources[a].IsAlive /\ ~Rested(a)
            /\ sources'[a].DisableTime = sources[a].DisableTime
      BY <2>6 DEF SourcesWatcher
    <3>2. wake' = now + WatchPeriod /\ UNCHANGED <<calls, now, downSince>>
      BY <2>6 DEF SourcesWatcher
    <3>3. DeadAreDated'
      <4> SUFFICES ASSUME NEW a \in Addresses, ~sources'[a].IsAlive PROVE DeadSince(a)'
        BY DEF DeadAreDated
      <4>1. ~sources[a].IsAlive /\ ~Rested(a)
        BY <3>1
      <4>2. DeadSince(a)
        BY <4>1 DEF Timing, DeadAreDated
      <4>3. now <= sources[a].DisableTime + DisableTimeout
        BY <4>1 DEF Rested
      <4>4. QED
        BY <3>1, <3>2, <4>2, <4>3 DEF DeadSince
    <3>4. CallsAreShort'
      BY <3>2 DEF Timing, CallsAreShort
    <3>5. SentBefore'
      BY <3>1, <3>2 DEF Timing, SentBefore, InFlight
    <3>6. WatcherIsDue'
      BY <3>2 DEF WatcherIsDue
    <3>7. QED
      BY <3>3, <3>4, <3>5, <3>6 DEF Timing
  <2>7. CASE Tick
    <3>1. now' = now + 1 /\ now < wake /\ UNCHANGED <<sources, wake, calls, downSince>>
      BY <2>7 DEF Tick
    <3>2. CallsAreShort'
      BY <2>7 DEF Tick, Timing, CallsAreShort
    <3>3. WatcherIsDue'
      BY <3>1 DEF Timing, WatcherIsDue
    <3>4. DeadAreDated'
      BY <3>1 DEF Timing, DeadAreDated, DeadSince
    <3>5. SentBefore'
      BY <3>1 DEF Timing, SentBefore, InFlight
    <3>6. QED
      BY <3>2, <3>3, <3>4, <3>5 DEF Timing
  <2>8. CASE UNCHANGED vars
    BY <2>8 DEF vars, Timing, CallsAreShort, WatcherIsDue, DeadAreDated, DeadSince,
                SentBefore, InFlight
  <2>9. QED
    BY <2>1, <2>2, <2>3, <2>4, <2>5, <2>6, <2>7, <2>8 DEF Next
<1>3. QED
  BY <1>1, <1>2, SourcesTypeOK, PTL DEF Spec

(* A source that was taken out is back after at most one call, one           *)
(* disable_timeout and one sleep of the watcher, however many failures of    *)
(* calls already in flight restart the disable_timeout meanwhile.            *)
THEOREM SourcesOutageBounded == Spec => []OutageBounded
<1>1. TypeOK /\ Timing => OutageBounded
  <2> SUFFICES ASSUME TypeOK, Timing, NEW a \in Addresses, ~sources[a].IsAlive
               PROVE  now <= downSince[a] + Timeout + DisableTimeout + WatchPeriod
    BY DEF OutageBounded
  <2>1. /\ sources[a].DisableTime <= downSince[a] + Timeout
        /\ wake <= sources[a].DisableTime + DisableTimeout + WatchPeriod
    BY DEF Timing, DeadAreDated, DeadSince
  <2>2. now <= wake
    BY DEF Timing, WatcherIsDue
  <2>3. /\ sources[a].DisableTime \in Nat /\ downSince[a] \in Int
        /\ now \in Nat /\ wake \in Nat
        /\ Timeout \in Nat /\ DisableTimeout \in Nat /\ WatchPeriod \in Nat
    BY SourcesAssumption DEF TypeOK, Source
  <2>4. QED
    BY <2>1, <2>2, <2>3
<1>2. QED
  BY <1>1, SourcesTypeOK, SourcesTiming, PTL

(* A call in flight to a dead source was sent before the source went down,   *)
(* so it ends before disable_timeout does when the call's timeout is the     *)
(* shorter of the two.                                                       *)
LEMMA NoneInFlightWhenRested ==
    ASSUME ShortCalls, TypeOK, Timing,
           NEW a \in Addresses, ~sources[a].IsAlive, Rested(a), NEW c \in Callers
    PROVE  ~InFlight(c, a)
<1> SUFFICES ASSUME InFlight(c, a) PROVE FALSE
  OBVIOUS
<1>1. calls[c].since <= downSince[a]
  BY DEF Timing, SentBefore
<1>2. downSince[a] <= sources[a].DisableTime
  BY DEF Timing, DeadAreDated, DeadSince
<1>3. now <= calls[c].since + Timeout
  BY DEF Timing, CallsAreShort, InFlight
<1>4. sources[a].DisableTime + DisableTimeout < now
  BY DEF Rested
<1>5. /\ calls[c].since \in Nat /\ sources[a].DisableTime \in Nat
      /\ downSince[a] \in Int /\ now \in Nat
      /\ Timeout \in Nat /\ DisableTimeout \in Nat
  BY SourcesAssumption DEF TypeOK, Source, Call
<1>6. QED
  BY <1>1, <1>2, <1>3, <1>4, <1>5 DEF ShortCalls

(* Only the watcher brings a source back, and only a rested one.             *)
LEMMA OnlyWatcherRevives ==
    ASSUME TypeOK, [Next]_vars, NEW a \in Addresses,
           ~sources[a].IsAlive, sources'[a].IsAlive
    PROVE  SourcesWatcher /\ Rested(a)
<1> USE SourcesAssumption DEF TypeOK, Source
<1>1. ASSUME NEW c \in Callers, IncRequests(c) PROVE FALSE
  BY <1>1 DEF IncRequests
<1>2. ASSUME NEW c \in Callers, Disable(c) PROVE FALSE
  BY <1>2 DEF Disable
<1>3. ASSUME NEW c \in Callers, GetSource(c) \/ PostSucceeds(c) \/ PostFails(c) PROVE FALSE
  BY <1>3 DEF GetSource, PostSucceeds, PostFails
<1>4. CASE SourcesWatcher
  BY <1>4 DEF SourcesWatcher
<1>5. CASE Tick \/ UNCHANGED vars
  BY <1>5 DEF Tick, vars
<1>6. QED
  BY <1>1, <1>2, <1>3, <1>4, <1>5 DEF Next

(* With the call's timeout not above disable_timeout, the watcher never      *)
(* brings a source back while a call sent before the outage is in flight.    *)
THEOREM SourcesNoReviveInFlight == ShortCalls => (Spec => NoReviveInFlight)
<1> SUFFICES ASSUME ShortCalls PROVE Spec => NoReviveInFlight
  OBVIOUS
<1> DEFINE Unused == \A a \in Addresses :
                       (~sources[a].IsAlive /\ sources'[a].IsAlive) =>
                          \A c \in Callers : ~InFlight(c, a)
<1>1. TypeOK /\ Timing /\ [Next]_vars => [Unused]_vars
  BY OnlyWatcherRevives, NoneInFlightWhenRested
<1>2. QED
  BY <1>1, SourcesTypeOK, SourcesTiming, PTL DEF Spec, NoReviveInFlight

(* The source list implements SourcePool: every step is a step of the pool   *)
(* or leaves it alone.                                                       *)
THEOREM SourcesImplementPool == ShortCalls => (Spec => PoolSpec)
<1> SUFFICES ASSUME ShortCalls PROVE Spec => PoolSpec
  OBVIOUS
<1>1. Init => Pool!Init
  BY DEF Init, Idle, Alive, Pool!Init
<1>2. TypeOK /\ TypeOK' /\ Timing /\ [Next]_vars => [Pool!Next]_Pool!poolVars
  <2> SUFFICES ASSUME TypeOK, TypeOK', Timing, [Next]_vars
               PROVE  Pool!Next \/ UNCHANGED Pool!poolVars
    OBVIOUS
  <2> DEFINE using == [c \in Callers |-> calls[c].addr]
  <2> USE SourcesAssumption DEF TypeOK, Source, Call
  <2>1. ASSUME NEW c \in Callers, GetSource(c) PROVE Pool!Take(c)
    <3>1. UNCHANGED Alive
      BY <2>1 DEF GetSource, Alive
    <3>2. using[c] = NoAddress
      BY <2>1 DEF GetSource
    <3>3. \E a \in Alive : using' = [using EXCEPT ![c] = a]
      <4>1. PICK x \in LeastUsed :
              calls' = [calls EXCEPT ![c] =
                          [pc |-> "picked", addr |-> x, since |-> now, why |-> "none"]]
        BY <2>1 DEF GetSource
      <4>2. using' = [using EXCEPT ![c] = x]
        BY <4>1
      <4>3. QED
        BY <4>2 DEF LeastUsed
    <3>4. QED
      BY <3>1, <3>2, <3>3 DEF Pool!Take
  <2>2. ASSUME NEW c \in Callers, IncRequests(c) PROVE UNCHANGED Pool!poolVars
    <3>1. Alive' = Alive
      BY <2>2 DEF IncRequests, Alive
    <3>2. using' = using
      BY <2>2 DEF IncRequests
    <3>3. QED
      BY <3>1, <3>2 DEF Pool!poolVars
  <2>3. ASSUME NEW c \in Callers, PostSucceeds(c) PROVE Pool!Finish(c)
    <3>1. Alive' = Alive
      BY <2>3 DEF PostSucceeds, Alive
    <3>2. using[c] # NoAddress /\ using' = [using EXCEPT ![c] = NoAddress]
      BY <2>3 DEF PostSucceeds, Idle
    <3>3. QED
      BY <3>1, <3>2 DEF Pool!Finish
  <2>4. ASSUME NEW c \in Callers, PostFails(c) PROVE UNCHANGED Pool!poolVars
    <3>1. Alive' = Alive
      BY <2>4 DEF PostFails, Alive
    <3>2. using' = using
      BY <2>4 DEF PostFails
    <3>3. QED
      BY <3>1, <3>2 DEF Pool!poolVars
  <2>5. ASSUME NEW c \in Callers, Disable(c) PROVE Pool!Fail(c)
    <3>1. Alive' = Alive \ {using[c]}
      BY <2>5 DEF Disable, Alive
    <3>2. using[c] # NoAddress /\ using' = [using EXCEPT ![c] = NoAddress]
      BY <2>5 DEF Disable, Idle
    <3>3. QED
      BY <3>1, <3>2 DEF Pool!Fail
  <2>6. CASE SourcesWatcher
    <3> DEFINE R == {a \in Addresses : ~sources[a].IsAlive /\ Rested(a)}
    <3>1. R \in SUBSET (Addresses \ Alive)
      BY DEF Alive
    <3>2. Alive' = Alive \cup R
      <4>1. \A a \in Addresses : sources'[a].IsAlive <=> sources[a].IsAlive \/ Rested(a)
        BY <2>6 DEF SourcesWatcher
      <4>2. QED
        BY <4>1 DEF Alive
    <3>3. \A c \in Callers : using[c] \notin R
      BY NoneInFlightWhenRested DEF InFlight
    <3>4. using' = using
      BY <2>6 DEF SourcesWatcher
    <3>5. QED
      BY <3>1, <3>2, <3>3, <3>4 DEF Pool!Next, Pool!Recover
  <2>7. CASE Tick \/ UNCHANGED vars
    BY <2>7 DEF Tick, vars, Alive, Pool!poolVars
  <2>8. QED
    BY <2>1, <2>2, <2>3, <2>4, <2>5, <2>6, <2>7 DEF Next, Pool!Next
<1>3. QED
  BY <1>1, <1>2, SourcesTypeOK, SourcesTiming, PTL DEF Spec, PoolSpec, Pool!Spec
=============================================================================
