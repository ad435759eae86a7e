----------------------------- MODULE ApiProofs -----------------------------
(***************************************************************************)
(* Proofs about Api.Get, for any sources, callers and keys and any          *)
(* durations of the configuration.                                          *)
(***************************************************************************)
EXTENDS Api, TLAPS

(* What is proved of the source list holds of the one inside Api.            *)
SrcP == INSTANCE SourcesProofs

-----------------------------------------------------------------------------
(* Api.Get uses the source list as module Sources describes it: each of its  *)
(* steps is one step of the list, or leaves it alone.                        *)
THEOREM ApiUsesSources == Spec => SourcesSpec
<1>1. Init => Src!Init
  BY DEF Init
<1>2. [Next]_vars => [Src!Next]_Src!vars
  <2> SUFFICES ASSUME [Next]_vars PROVE Src!Next \/ UNCHANGED Src!vars
    OBVIOUS
  <2>1. ASSUME NEW c \in Callers, NEW k \in Keys, ServeCurrent(c, k) \/ LookUp(c, k)
        PROVE  UNCHANGED Src!vars
    BY <2>1 DEF ServeCurrent, LookUp, srcVars, Src!vars
  <2>2. ASSUME NEW c \in Callers, Step(c)
        PROVE  Src!Next \/ UNCHANGED Src!vars
    <3>1. CASE NoSource(c) \/ ReturnStale(c) \/ ReturnError(c) \/ Store(c) \/ Leave(c)
      BY <3>1 DEF NoSource, ReturnStale, ReturnError, Store, Leave, srcVars, Src!vars
    <3>2. CASE GetSource(c) \/ IncRequests(c) \/ PostAnswered(c) \/ PostRefused(c)
               \/ PostFails(c) \/ Disable(c)
      BY <3>2 DEF GetSource, IncRequests, PostAnswered, PostRefused, PostFails, Disable, Src!Next
    <3>3. QED
      BY <2>2, <3>1, <3>2 DEF Step
  <2>3. CASE SourcesWatcher \/ Tick
    BY <2>3 DEF SourcesWatcher, Tick, Src!Next
  <2>4. CASE DeleteExpired \/ UNCHANGED vars
    BY <2>4 DEF DeleteExpired, srcVars, vars, Src!vars
  <2>5. QED
    BY <2>1, <2>2, <2>3, <2>4 DEF Next
<1>3. QED
  BY <1>1, <1>2, PTL DEF Spec, SourcesSpec, Src!Spec

(* The list inside Api is the list the proofs of SourcesProofs are about.    *)
LEMMA SameSources == Src!Spec => SrcP!Spec
<1>1. Src!Init => SrcP!Init
  BY DEF Src!Init, SrcP!Init, Src!Idle, SrcP!Idle
<1>2. [Src!Next]_Src!vars => [SrcP!Next]_SrcP!vars
  BY DEF Src!Next, SrcP!Next, Src!vars, SrcP!vars,
         Src!GetSource, SrcP!GetSource, Src!LeastUsed, SrcP!LeastUsed, Src!Alive, SrcP!Alive,
         Src!IncRequests, SrcP!IncRequests, Src!PostSucceeds, SrcP!PostSucceeds,
         Src!PostFails, SrcP!PostFails, Src!Failures, SrcP!Failures,
         Src!Disable, SrcP!Disable, Src!Idle, SrcP!Idle,
         Src!SourcesWatcher, SrcP!SourcesWatcher, Src!Rested, SrcP!Rested, Src!Tick, SrcP!Tick
<1>3. QED
  BY <1>1, <1>2, PTL DEF Src!Spec, SrcP!Spec

(* A call of _getFromApi lasts at most the timeout of the HTTP client.       *)
CallsAreShort ==
    \A c \in Callers :
        calls[c].pc # "idle" => calls[c].since <= now /\ now <= calls[c].since + Timeout

(* The types of the source list inside Api.Get, and its calls' lengths.      *)
LEMMA SourcesInside == Spec => [](Src!TypeOK /\ CallsAreShort)
<1>0. SrcP!IsFiniteSet(Callers)
  BY ApiAssumption DEF SrcP!IsFiniteSet, IsFiniteSet
<1>1. SrcP!Spec => []SrcP!TypeOK
  BY <1>0, ApiAssumption, SrcP!SourcesTypeOK
<1>2. SrcP!Spec => []SrcP!Timing
  BY <1>0, ApiAssumption, SrcP!SourcesTiming
<1>3. SrcP!TypeOK => Src!TypeOK
  BY DEF Src!TypeOK, SrcP!TypeOK, Src!Source, SrcP!Source, Src!Call, SrcP!Call,
         Src!Failures, SrcP!Failures
<1>4. SrcP!Timing => CallsAreShort
  BY DEF SrcP!Timing, SrcP!CallsAreShort, CallsAreShort
<1>5. QED
  BY <1>1, <1>2, <1>3, <1>4, SameSources, ApiUsesSources, PTL DEF SourcesSpec

-----------------------------------------------------------------------------
(* The inductive invariant, call by call and key by key: g is the state of a *)
(* call of Api.Get, call that of its call of _getFromApi, item what is cached *)
(* under a key, at when the API last answered for it, and t the clock.       *)

(* The fallback answer was not expired when the call began.  The clock can   *)
(* pass only while the call waits for the API, and so not by more than the   *)
(* timeout.                                                                  *)
KnownIsBounded(g, call, t) ==
    /\ g.response \in Answer
    /\ ExpireTimeout > 0 =>
         /\ g.pc = "ask"  => t <= g.response.born + Timeout + ExpireTimeout
         /\ g.pc = "post" => call.since <= g.response.born + Timeout + ExpireTimeout
         /\ g.pc \in {"apiErr", "done"} =>
              t <= g.response.born + 2 * Timeout + ExpireTimeout

(* The API's answer came within the call and is stored before the clock goes *)
(* on.                                                                       *)
AnswerIsFresh(g, t) ==
    /\ g.response \in Answer /\ g.response.Time = 0
    /\ g.response.born <= t /\ t <= g.response.born + Timeout

HitIsCurrent(g, t) ==
    /\ g.response \in Answer
    /\ t < g.response.born + Timeout + Least(ActualizeTimeout, g.response.lease)

CallOK(g, call, t) ==
    /\ g \in GetState
    /\ g.pc # "idle" => g.key \in Keys
    /\ g.pc = "post" <=> call.pc # "idle"
    /\ g.promised => g.exist
    /\ (g.exist /\ g.pc \in {"ask", "post", "apiErr"}) => KnownIsBounded(g, call, t)
    /\ g.pc = "store" => AnswerIsFresh(g, t)
    /\ (g.pc = "done" /\ g.kind = "stale") => KnownIsBounded(g, call, t)
    /\ (g.pc = "done" /\ g.kind = "hit") => HitIsCurrent(g, t)
    /\ (g.pc = "done" /\ g.kind = "error") => ~g.exist

(* A cached item is the API's last answer for the key, with the times it got *)
(* when the answer came ...                                                  *)
IsAnswerOf(item, at, t) ==
    /\ CachingEnabled
    /\ item \in Item
    /\ item.Object.born <= at /\ at <= item.Object.born + Timeout
    /\ item.Object.Time = at + Least(ActualizeTimeout, item.Object.lease)
    /\ item.Expiration = IF ExpireTimeout > 0 THEN at + ExpireTimeout ELSE 0

(* ... and it stays at least until they have passed.                         *)
StillPromised(at, t) ==
    /\ CachingEnabled
    /\ at # -1
    /\ ExpireTimeout > 0 => t <= at + ExpireTimeout

ItemOK(item, at, t) ==
    /\ at \in Nat \cup {-1} /\ at <= t
    /\ item = NoItem \/ IsAnswerOf(item, at, t)
    /\ StillPromised(at, t) => item # NoItem

Inv ==
    /\ gets \in [Callers -> GetState]
    /\ items \in [Keys -> Item \cup {NoItem}]
    /\ answeredAt \in [Keys -> Nat \cup {-1}]
    /\ \A c \in Callers : CallOK(gets[c], calls[c], now)
    /\ \A k \in Keys : ItemOK(items[k], answeredAt[k], now)

(* What a step does to a call is a new record for it.                        *)
State(p, k, e, r, d, m) ==
    [pc |-> p, key |-> k, exist |-> e, response |-> r, kind |-> d, promised |-> m]

(* The fields of a call's record.                                            *)
LEMMA StateFields ==
    ASSUME NEW p, NEW k, NEW e, NEW r, NEW d, NEW m
    PROVE  /\ State(p, k, e, r, d, m).pc = p
           /\ State(p, k, e, r, d, m).key = k
           /\ State(p, k, e, r, d, m).exist = e
           /\ State(p, k, e, r, d, m).response = r
           /\ State(p, k, e, r, d, m).kind = d
           /\ State(p, k, e, r, d, m).promised = m
  BY DEF State

(* A record of the right fields is the state of a call.                      *)
LEMMA StateType ==
    ASSUME NEW p \in {"idle", "ask", "post", "apiErr", "store", "done"},
           NEW k \in Keys \cup {NoItem}, NEW e \in BOOLEAN,
           NEW r \in Answer \cup {NoAnswer}, NEW d \in Kinds, NEW m \in BOOLEAN
    PROVE  State(p, k, e, r, d, m) \in GetState
  BY DEF State, GetState

(* The state of a call is the record of its fields.                          *)
LEMMA GetFields ==
    ASSUME NEW g \in GetState
    PROVE  /\ g = State(g.pc, g.key, g.exist, g.response, g.kind, g.promised)
           /\ g.pc \in {"idle", "ask", "post", "apiErr", "store", "done"}
           /\ g.key \in Keys \cup {NoItem} /\ g.exist \in BOOLEAN
           /\ g.response \in Answer \cup {NoAnswer} /\ g.kind \in Kinds /\ g.promised \in BOOLEAN
  BY DEF State, GetState

SetPc(g, x)       == [g EXCEPT !.pc = x]
SetResponse(g, x) == [g EXCEPT !.response = x]
SetKind(g, x)     == [g EXCEPT !.kind = x]

(* Changing one field of a call's record leaves the others.                  *)
LEMMA StateChanges ==
    ASSUME NEW p, NEW k, NEW e, NEW r, NEW d, NEW m, NEW x
    PROVE  /\ SetPc(State(p, k, e, r, d, m), x) = State(x, k, e, r, d, m)
           /\ SetResponse(State(p, k, e, r, d, m), x) = State(p, k, e, x, d, m)
           /\ SetKind(State(p, k, e, r, d, m), x) = State(p, k, e, r, x, m)
  BY DEF State, SetPc, SetResponse, SetKind

(* The changes of a call that the operations make.                           *)
LEMMA GetChanges ==
    ASSUME NEW g \in GetState, NEW p, NEW r, NEW d
    PROVE  /\ [g EXCEPT !.pc = p]
                = State(p, g.key, g.exist, g.response, g.kind, g.promised)
           /\ [[g EXCEPT !.pc = p] EXCEPT !.response = r]
                = State(p, g.key, g.exist, r, g.kind, g.promised)
           /\ [[g EXCEPT !.pc = p] EXCEPT !.kind = d]
                = State(p, g.key, g.exist, g.response, d, g.promised)
           /\ [[[g EXCEPT !.pc = p] EXCEPT !.kind = d] EXCEPT !.response = r]
                = State(p, g.key, g.exist, r, d, g.promised)
<1>1. g = State(g.pc, g.key, g.exist, g.response, g.kind, g.promised)
  BY GetFields
<1>2. SetPc(g, p) = State(p, g.key, g.exist, g.response, g.kind, g.promised)
  BY <1>1, StateChanges
<1>3. SetResponse(SetPc(g, p), r) = State(p, g.key, g.exist, r, g.kind, g.promised)
  BY <1>2, StateChanges
<1>4. SetKind(SetPc(g, p), d) = State(p, g.key, g.exist, g.response, d, g.promised)
  BY <1>2, StateChanges
<1>5. SetResponse(SetKind(SetPc(g, p), d), r) = State(p, g.key, g.exist, r, d, g.promised)
  BY <1>4, StateChanges
<1>6. QED
  BY <1>2, <1>3, <1>4, <1>5 DEF SetPc, SetResponse, SetKind

(* How each operation changes the record of its call.                        *)
LEMMA Moves ==
    ASSUME gets \in [Callers -> GetState], NEW c \in Callers
    PROVE  LET g == gets[c]
               New(p, e, r, d, m) == gets' = [gets EXCEPT ![c] = State(p, g.key, e, r, d, m)]
           IN  /\ GetSource(c) => New("post", g.exist, g.response, g.kind, g.promised)
               /\ NoSource(c) \/ PostRefused(c) \/ Disable(c) =>
                    New("apiErr", g.exist, g.response, g.kind, g.promised)
               /\ ReturnStale(c) => New("done", g.exist, g.response, "stale", g.promised)
               /\ ReturnError(c) => New("done", g.exist, g.response, "error", g.promised)
<1> DEFINE g == gets[c]
<1>1. g \in GetState
  OBVIOUS
<1>2. ASSUME NEW p PROVE [gets EXCEPT ![c].pc = p]
        = [gets EXCEPT ![c] = State(p, g.key, g.exist, g.response, g.kind, g.promised)]
  BY <1>1, GetChanges
<1>3. ASSUME NEW p, NEW d PROVE [gets EXCEPT ![c].pc = p, ![c].kind = d]
        = [gets EXCEPT ![c] = State(p, g.key, g.exist, g.response, d, g.promised)]
  <2>1. [[g EXCEPT !.pc = p] EXCEPT !.kind = d]
          = State(p, g.key, g.exist, g.response, d, g.promised)
    BY <1>1, GetChanges
  <2>2. [gets EXCEPT ![c].pc = p, ![c].kind = d]
          = [gets EXCEPT ![c] = [[g EXCEPT !.pc = p] EXCEPT !.kind = d]]
    OBVIOUS
  <2>3. QED
    BY <2>1, <2>2
<1>4. QED
  BY <1>2, <1>3 DEF GetSource, NoSource, PostRefused, Disable, ReturnStale, ReturnError

(* The fields of an answer.                                                  *)
LEMMA AnswerType ==
    ASSUME NEW r \in Answer
    PROVE  /\ r.born \in Nat /\ r.lease \in Leases /\ r.lease \in Int
           /\ r.grant \in Grants /\ r.Time \in Int
  BY ApiAssumption DEF Answer

(* A caller outside Api.Get.                                                 *)
LEMMA IdleState == Idle = State("idle", NoItem, FALSE, NoAnswer, "none", FALSE)
  BY DEF Idle, State

(* A step replaces the record of one call; the other calls stay as they were. *)
LEMMA OneCall ==
    ASSUME Inv, NEW c \in Callers, NEW g \in GetState,
           gets' = [gets EXCEPT ![c] = g], now' = now,
           \A d \in Callers : d # c => calls'[d] = calls[d],
           CallOK(g, calls'[c], now)
    PROVE  /\ gets' \in [Callers -> GetState]
           /\ \A d \in Callers : CallOK(gets'[d], calls'[d], now')
<1>1. /\ gets' \in [Callers -> GetState] /\ gets'[c] = g
      /\ \A d \in Callers : d # c => gets'[d] = gets[d]
  BY DEF Inv
<1>2. \A d \in Callers : CallOK(gets[d], calls[d], now)
  BY DEF Inv
<1>3. ASSUME NEW d \in Callers PROVE CallOK(gets'[d], calls'[d], now')
  <2>1. CASE d = c
    BY <1>1, <2>1
  <2>2. CASE d # c
    BY <1>1, <1>2, <2>2
  <2>3. QED
    BY <2>1, <2>2
<1>4. QED
  BY <1>1, <1>3

(* A step that leaves the cache and the clock alone keeps what is known of   *)
(* every cached item.                                                        *)
LEMMA ItemsStay ==
    ASSUME Inv, UNCHANGED <<items, answeredAt, now>>
    PROVE  /\ items' \in [Keys -> Item \cup {NoItem}]
           /\ answeredAt' \in [Keys -> Nat \cup {-1}]
           /\ \A k \in Keys : ItemOK(items'[k], answeredAt'[k], now')
  BY DEF Inv

(* What the source list does with the call of one caller.                    *)
LEMMA CallMoves ==
    ASSUME Src!TypeOK, NEW c \in Callers
    PROVE  /\ now \in Nat /\ calls[c].since \in Nat
           /\ Src!GetSource(c) => /\ calls'[c].pc = "picked" /\ calls'[c].since = now
                                  /\ calls[c].pc = "idle"
           /\ Src!IncRequests(c) => /\ calls[c].pc # "idle" /\ calls'[c].pc # "idle"
                                    /\ calls'[c].since = calls[c].since
           /\ Src!PostFails(c) => /\ calls[c].pc # "idle" /\ calls'[c].pc # "idle"
                                  /\ calls'[c].since = calls[c].since
           /\ Src!PostSucceeds(c) \/ Src!Disable(c) =>
                calls[c].pc # "idle" /\ calls'[c].pc = "idle"
           /\ Src!GetSource(c) \/ Src!IncRequests(c) \/ Src!PostFails(c)
                \/ Src!PostSucceeds(c) \/ Src!Disable(c) =>
                /\ now' = now
                /\ \A d \in Callers : d # c => calls'[d] = calls[d]
<1>0. calls \in [Callers -> Src!Call] /\ now \in Nat
  BY DEF Src!TypeOK
<1>1. now \in Nat /\ calls[c].since \in Nat
  BY <1>0 DEF Src!Call
<1>2. ASSUME Src!GetSource(c)
      PROVE  /\ calls'[c].pc = "picked" /\ calls'[c].since = now /\ calls[c].pc = "idle"
             /\ now' = now /\ \A d \in Callers : d # c => calls'[d] = calls[d]
  BY <1>0, <1>2 DEF Src!GetSource
<1>3. ASSUME Src!IncRequests(c)
      PROVE  /\ calls[c].pc # "idle" /\ calls'[c].pc # "idle" /\ calls'[c].since = calls[c].since
             /\ now' = now /\ \A d \in Callers : d # c => calls'[d] = calls[d]
  <2>1. calls' = [calls EXCEPT ![c] = [calls[c] EXCEPT !.pc = "posting"]] /\ now' = now
        /\ calls[c].pc = "picked"
    BY <1>0, <1>3 DEF Src!IncRequests
  <2>2. /\ [calls[c] EXCEPT !.pc = "posting"].pc = "posting"
        /\ [calls[c] EXCEPT !.pc = "posting"].since = calls[c].since
    BY <1>0 DEF Src!Call
  <2>3. QED
    BY <1>0, <2>1, <2>2
<1>4. ASSUME Src!PostFails(c)
      PROVE  /\ calls[c].pc # "idle" /\ calls'[c].pc # "idle" /\ calls'[c].since = calls[c].since
             /\ now' = now /\ \A d \in Callers : d # c => calls'[d] = calls[d]
  <2>1. PICK w \in Src!Failures : calls' = [calls EXCEPT ![c].pc = "failed", ![c].why = w]
    BY <1>4 DEF Src!PostFails
  <2>2. /\ calls'[c].pc = "failed" /\ calls'[c].since = calls[c].since
        /\ \A d \in Callers : d # c => calls'[d] = calls[d]
    BY <1>0, <2>1 DEF Src!Call
  <2>3. QED
    BY <1>4, <2>2 DEF Src!PostFails
<1>5. ASSUME Src!PostSucceeds(c) \/ Src!Disable(c)
      PROVE  /\ calls[c].pc # "idle" /\ calls'[c].pc = "idle"
             /\ now' = now /\ \A d \in Callers : d # c => calls'[d] = calls[d]
  BY <1>0, <1>5 DEF Src!PostSucceeds, Src!Disable, Src!Idle
<1>6. QED
  BY <1>1, <1>2, <1>3, <1>4, <1>5

(* What is found in the cache under a key.                                   *)
LEMMA ItemFacts ==
    ASSUME Inv, now \in Nat, NEW k \in Keys
    PROVE  /\ Promised(k) => Hit(k)
           /\ Promised(k) \in BOOLEAN /\ Hit(k) \in BOOLEAN
           /\ Hit(k) =>
                /\ IsAnswerOf(items[k], answeredAt[k], now)
                /\ Cache!Get(k) = items[k].Object
                /\ items[k].Object \in Answer
                /\ answeredAt[k] \in Nat
                /\ ExpireTimeout > 0 => now <= answeredAt[k] + ExpireTimeout
<1> DEFINE item == items[k]
           at == answeredAt[k]
<1>0. ItemOK(item, at, now) /\ ExpireTimeout \in Int /\ now \in Nat
  BY ApiAssumption DEF Inv
<1>1. Promised(k) = StillPromised(at, now)
  BY DEF Promised, StillPromised
<1>2. Hit(k) <=> CachingEnabled /\ item # NoItem /\ ~(item.Expiration > 0 /\ now > item.Expiration)
  BY DEF Hit, Cache!Found, Cache!Expired
<1>3. item # NoItem => IsAnswerOf(item, at, now) /\ at \in Nat
  <2>1. item # NoItem => IsAnswerOf(item, at, now) /\ at \in Nat \cup {-1}
    BY <1>0 DEF ItemOK
  <2>2. IsAnswerOf(item, at, now) => item.Object.born \in Nat /\ item.Object.born <= at
    BY AnswerType DEF IsAnswerOf, Item
  <2>3. QED
    BY <2>1, <2>2
<1>4. item # NoItem => item.Object \in Answer
  BY <1>3 DEF IsAnswerOf, Item
<1>5. item # NoItem => item.Expiration = IF ExpireTimeout > 0 THEN at + ExpireTimeout ELSE 0
  BY <1>3 DEF IsAnswerOf
<1>6. StillPromised(at, now) => item # NoItem /\ CachingEnabled
  BY <1>0 DEF ItemOK, StillPromised
<1>7. StillPromised(at, now) => (ExpireTimeout > 0 => now <= at + ExpireTimeout)
  BY DEF StillPromised
<1> HIDE DEF item, at
<1>8. StillPromised(at, now) => Hit(k)
  BY <1>0, <1>2, <1>3, <1>5, <1>6, <1>7
<1>9. Hit(k) /\ ExpireTimeout > 0 => now <= at + ExpireTimeout
  BY <1>0, <1>2, <1>3, <1>5
<1>10. Promised(k) \in BOOLEAN /\ Hit(k) \in BOOLEAN
  BY ApiAssumption DEF Promised, Hit, Cache!Found
<1>11. Cache!Get(k) = item.Object
  BY DEF Cache!Get, item
<1>12. QED
  BY <1>1, <1>2, <1>3, <1>4, <1>8, <1>9, <1>10, <1>11 DEF item, at

(* An answer from the cache is current, and it is known.                     *)
LEMMA ServeCurrentStep ==
    ASSUME Inv, Src!TypeOK, NEW c \in Callers, NEW k \in Keys, ServeCurrent(c, k)
    PROVE  /\ gets' = [gets EXCEPT ![c] =
                         State("done", k, TRUE, items[k].Object, "hit", Promised(k))]
           /\ Inv'
<1> DEFINE g == State("done", k, TRUE, items[k].Object, "hit", Promised(k))
           r == items[k].Object
<1>0. /\ gets[c].pc = "idle" /\ Hit(k) /\ Cache!Get(k).Time > now
      /\ UNCHANGED <<calls, now, items, answeredAt>>
  BY DEF ServeCurrent, Current, srcVars
<1>1. now \in Nat /\ calls[c].pc = "idle"
  BY <1>0, CallMoves DEF Inv, CallOK
<1>2. /\ r \in Answer /\ Cache!Get(k) = r /\ IsAnswerOf(items[k], answeredAt[k], now)
      /\ answeredAt[k] \in Nat /\ Promised(k) \in BOOLEAN
  BY <1>0, <1>1, ItemFacts
<1>3. gets' = [gets EXCEPT ![c] = g]
  BY <1>2 DEF ServeCurrent, State
<1>4. now < r.born + Timeout + Least(ActualizeTimeout, r.lease)
  <2>1. /\ r.Time > now /\ r.Time = answeredAt[k] + Least(ActualizeTimeout, r.lease)
        /\ answeredAt[k] <= r.born + Timeout
    BY <1>0, <1>2 DEF IsAnswerOf
  <2>2. r.lease \in Int /\ r.born \in Nat /\ Timeout \in Nat /\ ActualizeTimeout \in Int
    BY <1>2, AnswerType, ApiAssumption
  <2>3. Least(ActualizeTimeout, r.lease) \in Int
    BY <2>2 DEF Least
  <2> HIDE DEF r
  <2>4. QED
    BY <1>1, <1>2, <2>1, <2>2, <2>3
<1>5. g \in GetState
  BY <1>2, StateType DEF Kinds
<1>6. CallOK(g, calls'[c], now)
  <2>1. calls'[c].pc = "idle"
    BY <1>0, <1>1
  <2>2. g.pc = "done" /\ g.key = k /\ g.response = r /\ g.kind = "hit" /\ g.exist = TRUE
    <3>1. g.pc = "done"
      BY DEF State
    <3>2. g.exist = TRUE
      BY DEF State
    <3>3. g.key = k
      BY DEF State
    <3>4. g.response = r
      BY DEF State
    <3>5. g.kind = "hit"
      BY DEF State
    <3>9. QED
      BY <3>1, <3>2, <3>3, <3>4, <3>5
  <2> HIDE DEF g, r
  <2>3. QED
    BY <1>0, <1>2, <1>4, <1>5, <2>1, <2>2 DEF CallOK, HitIsCurrent
<1>7. Inv'
  BY <1>0, <1>3, <1>5, <1>6, OneCall, ItemsStay DEF Inv
<1>8. QED
  BY <1>3, <1>7

(* The call remembers what was in the cache when it began.                   *)
LEMMA LookUpStep ==
    ASSUME Inv, Src!TypeOK, NEW c \in Callers, NEW k \in Keys, LookUp(c, k)
    PROVE  /\ gets' = [gets EXCEPT ![c] =
                         State("ask", k, Hit(k), IF Hit(k) THEN items[k].Object ELSE NoAnswer,
                               "none", Promised(k))]
           /\ Inv'
<1> DEFINE r == IF Hit(k) THEN items[k].Object ELSE NoAnswer
           g == State("ask", k, Hit(k), r, "none", Promised(k))
<1>0. gets[c].pc = "idle" /\ UNCHANGED <<calls, now, items, answeredAt>>
  BY DEF LookUp, srcVars
<1>1. now \in Nat /\ calls[c].pc = "idle"
  BY <1>0, CallMoves DEF Inv, CallOK
<1>2. /\ Promised(k) => Hit(k)
      /\ Promised(k) \in BOOLEAN /\ Hit(k) \in BOOLEAN
      /\ Hit(k) => /\ items[k].Object \in Answer /\ Cache!Get(k) = items[k].Object
                   /\ answeredAt[k] \in Nat /\ answeredAt[k] <= items[k].Object.born + Timeout
                   /\ ExpireTimeout > 0 => now <= answeredAt[k] + ExpireTimeout
  BY <1>1, ItemFacts DEF IsAnswerOf
<1>3. gets' = [gets EXCEPT ![c] = g]
  BY <1>2 DEF LookUp, State
<1>4. g \in GetState
  BY <1>2, StateType DEF Kinds
<1>5. Hit(k) => KnownIsBounded(g, calls'[c], now)
  <2> SUFFICES ASSUME Hit(k) PROVE KnownIsBounded(g, calls'[c], now)
    OBVIOUS
  <2>1. r = items[k].Object
    OBVIOUS
  <2>1a. g.response = r /\ g.pc = "ask"
    <3> HIDE DEF r
    <3>1. QED
      BY DEF State
  <2>2. ExpireTimeout > 0 => now <= items[k].Object.born + Timeout + ExpireTimeout
    BY <1>1, <1>2, AnswerType, ApiAssumption
  <2> HIDE DEF g, r
  <2>3. QED
    BY <1>2, <2>1, <2>1a, <2>2 DEF KnownIsBounded
<1>6. CallOK(g, calls'[c], now)
  <2>1. g.pc = "ask" /\ g.key = k /\ g.exist = Hit(k) /\ g.promised = Promised(k)
    BY StateFields
  <2> HIDE DEF g
  <2>2. QED
    BY <1>0, <1>1, <1>2, <1>4, <1>5, <2>1 DEF CallOK
<1>7. Inv'
  BY <1>0, <1>3, <1>4, <1>6, OneCall, ItemsStay DEF Inv
<1>8. QED
  BY <1>3, <1>7

(* A call that is still asking takes a source, or learns that the API gives  *)
(* nothing.  The clock may have passed in between, at most by the timeout.   *)
LEMMA AskingStep ==
    ASSUME Inv, Src!TypeOK, CallsAreShort, NEW c \in Callers,
           GetSource(c) \/ NoSource(c) \/ PostRefused(c) \/ Disable(c)
    PROVE  Inv'
<1> DEFINE o == gets[c]
           p == IF GetSource(c) THEN "post" ELSE "apiErr"
           g == State(p, o.key, o.exist, o.response, o.kind, o.promised)
<1>0. /\ CallOK(o, calls[c], now) /\ o \in GetState
      /\ Timeout \in Nat /\ ExpireTimeout \in Int
  BY ApiAssumption DEF Inv
<1>1. /\ o.pc \in {"ask", "post"} /\ UNCHANGED <<items, answeredAt>>
      /\ now' = now /\ \A d \in Callers : d # c => calls'[d] = calls[d]
      /\ now \in Nat /\ calls[c].since \in Nat
      /\ GetSource(c) => calls'[c].pc # "idle" /\ calls'[c].since = now /\ o.pc = "ask"
      /\ ~GetSource(c) => calls'[c].pc = "idle"
  <2>1. CASE GetSource(c)
    BY <2>1, CallMoves DEF GetSource
  <2>2. CASE ~GetSource(c) /\ NoSource(c)
    <3>1. o.pc = "ask" /\ UNCHANGED <<items, answeredAt, calls, now>>
      BY <2>2 DEF NoSource, srcVars
    <3>2. calls[c].pc = "idle"
      BY <1>0, <3>1 DEF CallOK
    <3>3. QED
      BY <2>2, <3>1, <3>2, CallMoves
  <2>3. CASE ~GetSource(c) /\ (PostRefused(c) \/ Disable(c))
    <3>1. (Src!PostSucceeds(c) \/ Src!Disable(c)) /\ UNCHANGED <<items, answeredAt>>
      BY <2>3 DEF PostRefused, Disable
    <3>2. calls[c].pc # "idle"
      BY <3>1, CallMoves
    <3>3. o.pc = "post"
      BY <1>0, <3>2 DEF CallOK
    <3>4. QED
      BY <2>3, <3>1, <3>3, CallMoves
  <2>4. QED
    BY <2>1, <2>2, <2>3
<1>2. gets' = [gets EXCEPT ![c] = g]
  <2>1. CASE GetSource(c)
    BY <2>1, Moves DEF Inv
  <2>2. CASE ~GetSource(c)
    BY <2>2, Moves DEF Inv
  <2>3. QED
    BY <2>1, <2>2
<1>3. /\ g.pc = p /\ g.key = o.key /\ g.exist = o.exist /\ g.response = o.response
      /\ g.promised = o.promised
      /\ p \in {"post", "apiErr"} /\ (p = "post" <=> GetSource(c))
  <2>1. p \in {"post", "apiErr"} /\ (p = "post" <=> GetSource(c))
    OBVIOUS
  <2> HIDE DEF p
  <2>2. QED
    BY <2>1, StateFields
<1>4. g \in GetState
  <2>1. p \in {"post", "apiErr"}
    BY <1>3
  <2> HIDE DEF p
  <2>2. QED
    BY <1>0, <2>1, GetFields, StateType
<1> HIDE DEF g, p
<1>5. o.exist => KnownIsBounded(g, calls'[c], now)
  <2> SUFFICES ASSUME o.exist PROVE KnownIsBounded(g, calls'[c], now)
    OBVIOUS
  <2>1. KnownIsBounded(o, calls[c], now) /\ o.response \in Answer /\ o.response.born \in Nat
    BY <1>0, <1>1, AnswerType DEF CallOK, KnownIsBounded
  <2>2. calls[c].pc # "idle" => now <= calls[c].since + Timeout
    BY DEF CallsAreShort
  <2>3. o.pc = "post" => calls[c].pc # "idle"
    BY <1>0 DEF CallOK
  <2>4. CASE ExpireTimeout > 0
    <3> DEFINE b == o.response.born
    <3>1. /\ o.pc = "ask" => now <= b + Timeout + ExpireTimeout
          /\ o.pc = "post" => calls[c].since <= b + Timeout + ExpireTimeout
      BY <2>1, <2>4 DEF KnownIsBounded
    <3> HIDE DEF b
    <3>2. b \in Nat
      BY <2>1 DEF b
    <3>3. now <= b + 2 * Timeout + ExpireTimeout
      BY <1>0, <1>1, <2>2, <2>3, <3>1, <3>2
    <3>4. g.pc = "post" => calls'[c].since <= b + Timeout + ExpireTimeout
      BY <1>1, <1>3, <3>1
    <3>5. g.pc # "ask" /\ g.response.born = b
      BY <1>3 DEF b
    <3>6. QED
      BY <1>3, <2>1, <3>3, <3>4, <3>5 DEF KnownIsBounded
  <2>5. CASE ~(ExpireTimeout > 0)
    BY <1>3, <2>1, <2>5 DEF KnownIsBounded
  <2>6. QED
    BY <2>4, <2>5
<1>6. CallOK(g, calls'[c], now)
  <2>1. o.key \in Keys /\ (o.promised => o.exist)
    BY <1>0, <1>1 DEF CallOK
  <2>2. g.pc = "post" <=> calls'[c].pc # "idle"
    BY <1>1, <1>3
  <2>3. g.pc \in {"post", "apiErr"}
    BY <1>3
  <2>4. QED
    BY <1>3, <1>4, <1>5, <2>1, <2>2, <2>3 DEF CallOK
<1>7. QED
  BY <1>1, <1>2, <1>4, <1>6, OneCall, ItemsStay DEF Inv

(* The source is counted, or does not answer: only the list changes.         *)
LEMMA SourceStep ==
    ASSUME Inv, Src!TypeOK, NEW c \in Callers, IncRequests(c) \/ PostFails(c)
    PROVE  Inv'
<1> DEFINE g == gets[c]
<1>0. CallOK(g, calls[c], now) /\ g \in GetState
  BY DEF Inv
<1>1. /\ UNCHANGED <<items, gets, answeredAt>>
      /\ now' = now /\ \A d \in Callers : d # c => calls'[d] = calls[d]
      /\ calls[c].pc # "idle" /\ calls'[c].pc # "idle" /\ calls'[c].since = calls[c].since
  BY CallMoves DEF IncRequests, PostFails
<1>2. g.pc = "post"
  BY <1>0, <1>1 DEF CallOK
<1>3. CallOK(g, calls'[c], now)
  <2> HIDE DEF g
  <2>1. QED
    BY <1>0, <1>1, <1>2 DEF CallOK, KnownIsBounded
<1>4. gets' = [gets EXCEPT ![c] = g]
  BY <1>1 DEF Inv
<1>5. QED
  BY <1>0, <1>1, <1>3, <1>4, OneCall, ItemsStay DEF Inv

(* An answer of the API is no older than the call that asked for it.         *)
LEMMA PostAnsweredStep ==
    ASSUME Inv, Src!TypeOK, CallsAreShort, NEW c \in Callers, PostAnswered(c)
    PROVE  /\ gets[c].pc = "post" /\ now \in Nat /\ UNCHANGED <<items, answeredAt, now>>
           /\ \E b \in 0 .. now, l \in Leases, a \in Grants :
                gets' = [gets EXCEPT ![c] =
                           State("store", gets[c].key, gets[c].exist,
                                 [born |-> b, lease |-> l, grant |-> a, Time |-> 0],
                                 gets[c].kind, gets[c].promised)]
           /\ Inv'
<1> DEFINE o == gets[c]
<1>0. /\ CallOK(o, calls[c], now) /\ o \in GetState
      /\ Timeout \in Nat /\ Src!PostSucceeds(c) /\ UNCHANGED <<items, answeredAt>>
  BY ApiAssumption DEF Inv, PostAnswered
<1>1. /\ now' = now /\ \A d \in Callers : d # c => calls'[d] = calls[d]
      /\ now \in Nat /\ calls[c].since \in Nat
      /\ calls[c].pc # "idle" /\ calls'[c].pc = "idle"
  BY <1>0, CallMoves
<1>2. o.pc = "post" /\ o.key \in Keys /\ (o.promised => o.exist)
  BY <1>0, <1>1 DEF CallOK
<1>3. calls[c].since <= now /\ now <= calls[c].since + Timeout
  BY <1>1 DEF CallsAreShort
<1>4. PICK b \in calls[c].since .. now, l \in Leases, a \in Grants :
        gets' = [gets EXCEPT ![c].pc = "store",
                             ![c].response = [born |-> b, lease |-> l, grant |-> a, Time |-> 0]]
  BY DEF PostAnswered
<1> DEFINE r == [born |-> b, lease |-> l, grant |-> a, Time |-> 0]
           g == State("store", o.key, o.exist, r, o.kind, o.promised)
<1>5. b \in 0 .. now /\ now <= b + Timeout /\ b <= now /\ b \in Nat
  BY <1>0, <1>1, <1>3
<1>6. r \in Answer /\ r.Time = 0 /\ r.born = b
  BY <1>5 DEF Answer
<1>7. gets' = [gets EXCEPT ![c] = g]
  <2> HIDE DEF r
  <2>1. [[o EXCEPT !.pc = "store"] EXCEPT !.response = r] = g
    BY <1>0, GetChanges
  <2>2. gets' = [gets EXCEPT ![c].pc = "store", ![c].response = r]
    BY <1>4 DEF r
  <2>3. gets' = [gets EXCEPT ![c] = [[o EXCEPT !.pc = "store"] EXCEPT !.response = r]]
    BY <2>2 DEF Inv
  <2>4. QED
    BY <2>1, <2>3
<1>8. \E b1 \in 0 .. now, l1 \in Leases, a1 \in Grants :
        gets' = [gets EXCEPT ![c] =
                   State("store", o.key, o.exist,
                         [born |-> b1, lease |-> l1, grant |-> a1, Time |-> 0],
                         o.kind, o.promised)]
  BY <1>5, <1>7
<1> HIDE DEF r
<1>9. /\ g.pc = "store" /\ g.key = o.key /\ g.exist = o.exist /\ g.response = r
      /\ g.promised = o.promised
  BY StateFields
<1>10. g \in GetState
  BY <1>0, <1>6, GetFields, StateType
<1> HIDE DEF g
<1>11. CallOK(g, calls'[c], now)
  BY <1>1, <1>2, <1>5, <1>6, <1>9, <1>10 DEF CallOK, AnswerIsFresh
<1>12. Inv'
  BY <1>0, <1>1, <1>7, <1>10, <1>11, OneCall, ItemsStay DEF Inv
<1>13. QED
  BY <1>0, <1>1, <1>2, <1>8, <1>12

(* Without an answer of the API a call ends with what it found at its start. *)
LEMMA ReturnStep ==
    ASSUME Inv, Src!TypeOK, NEW c \in Callers, ReturnStale(c) \/ ReturnError(c)
    PROVE  Inv'
<1> DEFINE o == gets[c]
           d == IF ReturnStale(c) THEN "stale" ELSE "error"
           g == State("done", o.key, o.exist, o.response, d, o.promised)
<1>0. CallOK(o, calls[c], now) /\ o \in GetState
  BY DEF Inv
<1>1. /\ o.pc = "apiErr" /\ UNCHANGED <<items, answeredAt, calls, now>>
      /\ d \in Kinds /\ d \in {"stale", "error"}
      /\ d = "stale" => o.exist
      /\ d = "error" => ~o.exist
  BY DEF ReturnStale, ReturnError, srcVars, Kinds
<1>2. gets' = [gets EXCEPT ![c] = g]
  <2>1. CASE ReturnStale(c)
    BY <2>1, Moves DEF Inv
  <2>2. CASE ~ReturnStale(c)
    BY <2>2, Moves DEF Inv
  <2>3. QED
    BY <2>1, <2>2
<1> HIDE DEF d
<1>3. /\ g.pc = "done" /\ g.key = o.key /\ g.exist = o.exist /\ g.response = o.response
      /\ g.kind = d /\ g.promised = o.promised
  BY StateFields
<1>4. g \in GetState
  BY <1>0, <1>1, GetFields, StateType
<1> HIDE DEF g
<1>5. o.key \in Keys /\ (o.promised => o.exist) /\ calls[c].pc = "idle"
  BY <1>0, <1>1 DEF CallOK
<1>6. d = "stale" => KnownIsBounded(g, calls'[c], now)
  BY <1>0, <1>1, <1>3 DEF CallOK, KnownIsBounded
<1>7. CallOK(g, calls'[c], now)
  BY <1>1, <1>3, <1>4, <1>5, <1>6 DEF CallOK
<1>8. QED
  BY <1>1, <1>2, <1>4, <1>7, OneCall, ItemsStay DEF Inv

(* The handler takes the result, and the call is forgotten.                  *)
LEMMA LeaveStep ==
    ASSUME Inv, Src!TypeOK, NEW c \in Callers, Leave(c)
    PROVE  Inv'
<1>0. CallOK(gets[c], calls[c], now)
  BY DEF Inv
<1>1. /\ gets[c].pc = "done" /\ UNCHANGED <<items, answeredAt, calls, now>>
      /\ gets' = [gets EXCEPT ![c] = Idle]
  BY DEF Leave, srcVars
<1>2. calls[c].pc = "idle"
  BY <1>0, <1>1 DEF CallOK
<1>3. /\ Idle.pc = "idle" /\ Idle.exist = FALSE /\ Idle.promised = FALSE
  BY DEF Idle
<1>4. Idle \in GetState
  BY DEF Idle, GetState, Kinds
<1>5. CallOK(Idle, calls'[c], now)
  BY <1>1, <1>2, <1>3, <1>4 DEF CallOK
<1>6. QED
  BY <1>1, <1>4, <1>5, OneCall, ItemsStay DEF Inv

(* The answer as it is stored and returned: with the time until which it may *)
(* be served unasked, if anything is cached.                                 *)
Dated(r) ==
    IF CachingEnabled
    THEN [born |-> r.born, lease |-> r.lease, grant |-> r.grant, Time |-> ActualizeTime(r.lease)]
    ELSE r

(* Dating an answer changes its time and nothing else.                       *)
LEMMA DatedType ==
    ASSUME now \in Nat, NEW r \in Answer
    PROVE  /\ Dated(r) \in Answer
           /\ Dated(r).born = r.born /\ Dated(r).lease = r.lease
           /\ CachingEnabled =>
                /\ Dated(r) = [r EXCEPT !.Time = ActualizeTime(r.lease)]
                /\ Dated(r).Time = now + Least(ActualizeTimeout, r.lease)
           /\ ~CachingEnabled => Dated(r) = r
           /\ ActualizeTime(r.lease) = now + Least(ActualizeTimeout, r.lease)
           /\ Least(ActualizeTimeout, r.lease) \in Int
<1>0. /\ ActualizeTimeout \in Int /\ r.lease \in Int /\ r.born \in Nat /\ r.grant \in Grants
      /\ r.lease \in Leases
  BY ApiAssumption, AnswerType
<1>1. Least(ActualizeTimeout, r.lease) \in Int
  BY <1>0 DEF Least
<1>2. ActualizeTime(r.lease) = now + Least(ActualizeTimeout, r.lease)
  BY <1>0 DEF ActualizeTime, Least
<1> DEFINE t == ActualizeTime(r.lease)
<1>3. t \in Int
  BY <1>1, <1>2
<1>4. [r EXCEPT !.Time = t] = [born |-> r.born, lease |-> r.lease, grant |-> r.grant, Time |-> t]
  BY DEF Answer
<1>5. CachingEnabled => Dated(r) = [born |-> r.born, lease |-> r.lease, grant |-> r.grant, Time |-> t]
  BY DEF Dated
<1>6. ~CachingEnabled => Dated(r) = r
  BY DEF Dated
<1> HIDE DEF t
<1>7. CachingEnabled => Dated(r) \in Answer
  BY <1>0, <1>3, <1>5 DEF Answer
<1>8. CachingEnabled => /\ Dated(r).born = r.born /\ Dated(r).lease = r.lease
                        /\ Dated(r).Time = t
  BY <1>5
<1>9. QED
  BY <1>1, <1>2, <1>4, <1>5, <1>6, <1>7, <1>8 DEF t

(* The API's answer becomes what the cache holds under the key, and what the *)
(* call returns.                                                             *)
LEMMA StoreStep ==
    ASSUME Inv, Src!TypeOK, NEW c \in Callers, Store(c)
    PROVE  /\ gets[c].pc = "store" /\ gets[c].key \in Keys /\ now \in Nat /\ now' = now
           /\ gets[c].response \in Answer /\ gets[c].response.Time = 0
           /\ now <= gets[c].response.born + Timeout
           /\ gets' = [gets EXCEPT ![c] =
                         State("done", gets[c].key, gets[c].exist, Dated(gets[c].response),
                               "api", gets[c].promised)]
           /\ items' = IF CachingEnabled
                       THEN [items EXCEPT ![gets[c].key] =
                               [Object     |-> Dated(gets[c].response),
                                Expiration |-> IF ExpireTimeout > 0 THEN now + ExpireTimeout ELSE 0]]
                       ELSE items
           /\ Inv'
<1> DEFINE o == gets[c]
           k == gets[c].key
           r == Dated(gets[c].response)
           e == IF ExpireTimeout > 0 THEN now + ExpireTimeout ELSE 0
           g == State("done", k, o.exist, r, "api", o.promised)
<1>0. /\ CallOK(o, calls[c], now) /\ o \in GetState /\ now \in Nat
      /\ o.pc = "store" /\ UNCHANGED <<calls, now>>
      /\ answeredAt' = [answeredAt EXCEPT ![k] = now]
      /\ Timeout \in Nat /\ ExpireTimeout \in Int
  BY ApiAssumption DEF Inv, Store, srcVars, Src!TypeOK
<1>1. /\ k \in Keys /\ (o.promised => o.exist) /\ calls[c].pc = "idle"
      /\ o.response \in Answer /\ o.response.Time = 0
      /\ o.response.born <= now /\ now <= o.response.born + Timeout
  BY <1>0 DEF CallOK, AnswerIsFresh
<1>2. r \in Answer /\ r.born = o.response.born /\ r.lease = o.response.lease
  BY <1>0, <1>1, DatedType
<1>3. gets' = [gets EXCEPT ![c].pc = "done", ![c].kind = "api", ![c].response = r]
  <2>1. CachingEnabled => r = [o.response EXCEPT !.Time = ActualizeTime(o.response.lease)]
    BY <1>0, <1>1, DatedType
  <2>2. ~CachingEnabled => r = o.response
    BY <1>0, <1>1, DatedType
  <2> HIDE DEF r
  <2>3. CASE CachingEnabled
    BY <2>1, <2>3 DEF Store
  <2>4. CASE ~CachingEnabled
    BY <2>2, <2>4 DEF Store
  <2>5. QED
    BY <2>3, <2>4
<1>4. gets' = [gets EXCEPT ![c] = g]
  <2> HIDE DEF r
  <2>1. SetPc(o, "done") = State("done", k, o.exist, o.response, o.kind, o.promised)
    BY <1>0, GetChanges DEF SetPc
  <2>2. SetKind(SetPc(o, "done"), "api") = State("done", k, o.exist, o.response, "api", o.promised)
    BY <2>1, StateChanges
  <2>3. SetResponse(SetKind(SetPc(o, "done"), "api"), r) = g
    BY <2>2, StateChanges
  <2>4. [gets EXCEPT ![c].pc = "done", ![c].kind = "api", ![c].response = r]
          = [gets EXCEPT ![c] = SetResponse(SetKind(SetPc(o, "done"), "api"), r)]
    BY DEF Inv, SetPc, SetKind, SetResponse
  <2>5. QED
    BY <1>3, <2>3, <2>4
<1>5. items' = IF CachingEnabled THEN [items EXCEPT ![k] = [Object |-> r, Expiration |-> e]]
               ELSE items
  <2>1. CASE CachingEnabled
    <3>1. r = [o.response EXCEPT !.Time = ActualizeTime(o.response.lease)]
      BY <1>0, <1>1, <2>1, DatedType
    <3>2. e = IF Cache!defaultExpiration > 0 THEN now + Cache!defaultExpiration ELSE 0
      BY <1>0 DEF Cache!defaultExpiration
    <3> HIDE DEF r, e
    <3>3. Cache!SetDefault(k, r)
      BY <2>1, <3>1 DEF Store
    <3>4. QED
      BY <2>1, <3>2, <3>3 DEF Cache!SetDefault
  <2>2. CASE ~CachingEnabled
    BY <2>2 DEF Store
  <2>3. QED
    BY <2>1, <2>2
<1>6. /\ g.pc = "done" /\ g.key = k /\ g.exist = o.exist /\ g.response = r
      /\ g.kind = "api" /\ g.promised = o.promised
  <2> HIDE DEF r
  <2>1. QED
    BY StateFields
<1>7. g \in GetState
  <2> HIDE DEF r
  <2>1. QED
    BY <1>0, <1>2, GetFields, StateType DEF Kinds
<1>8. CallOK(g, calls'[c], now)
  <2> HIDE DEF g, r, k
  <2>1. QED
    BY <1>0, <1>1, <1>6, <1>7 DEF CallOK
<1>9. /\ gets' \in [Callers -> GetState]
      /\ \A d \in Callers : CallOK(gets'[d], calls'[d], now')
  <2> HIDE DEF g
  <2>1. QED
    BY <1>0, <1>4, <1>7, <1>8, OneCall
<1> DEFINE item == [Object |-> r, Expiration |-> e]
<1>10. item \in Item /\ item # NoItem /\ item.Object = r /\ item.Expiration = e
  <2>1. e \in Nat
    BY <1>0
  <2> HIDE DEF r, e
  <2>2. item \in Item
    BY <1>2, <2>1 DEF Item
  <2>3. item # NoItem
    BY <2>2, NoItemAssumption
  <2>4. item.Object = r /\ item.Expiration = e
    OBVIOUS
  <2>5. QED
    BY <2>2, <2>3, <2>4
<1>11. CachingEnabled => IsAnswerOf(item, now, now)
  <2> SUFFICES ASSUME CachingEnabled PROVE IsAnswerOf(item, now, now)
    OBVIOUS
  <2>1. r.Time = now + Least(ActualizeTimeout, r.lease)
    BY <1>0, <1>1, <1>2, DatedType
  <2>2. r.born <= now /\ now <= r.born + Timeout
    BY <1>1, <1>2
  <2>3. item.Expiration = IF ExpireTimeout > 0 THEN now + ExpireTimeout ELSE 0
    BY <1>10
  <2> HIDE DEF item, r, e
  <2>4. QED
    BY <1>10, <2>1, <2>2, <2>3 DEF IsAnswerOf
<1> HIDE DEF item, r, e
<1>12. \A l \in Keys : ItemOK(items[l], answeredAt[l], now)
  BY DEF Inv
<1>13. /\ answeredAt' \in [Keys -> Nat \cup {-1}] /\ answeredAt'[k] = now
       /\ \A l \in Keys : l # k => answeredAt'[l] = answeredAt[l]
  BY <1>0, <1>1 DEF Inv
<1>14. items' = IF CachingEnabled THEN [items EXCEPT ![k] = item] ELSE items
  BY <1>5 DEF item
<1>15. /\ items' \in [Keys -> Item \cup {NoItem}]
       /\ items'[k] = IF CachingEnabled THEN item ELSE items[k]
       /\ \A l \in Keys : l # k => items'[l] = items[l]
  <2>1. items \in [Keys -> Item \cup {NoItem}]
    BY DEF Inv
  <2>2. QED
    BY <1>1, <1>10, <1>14, <2>1
<1>16. ItemOK(items'[k], now, now)
  <2>1. CASE CachingEnabled
    BY <1>0, <1>10, <1>11, <1>15, <2>1 DEF ItemOK
  <2>2. CASE ~CachingEnabled
    <3>1. items[k] = NoItem
      BY <1>1, <1>12, <2>2 DEF ItemOK, IsAnswerOf
    <3>2. QED
      BY <1>0, <1>15, <2>2, <3>1 DEF ItemOK, StillPromised
  <2>3. QED
    BY <2>1, <2>2
<1>17. \A l \in Keys : ItemOK(items'[l], answeredAt'[l], now')
  <2> SUFFICES ASSUME NEW l \in Keys PROVE ItemOK(items'[l], answeredAt'[l], now')
    OBVIOUS
  <2>1. CASE l = k
    BY <1>0, <1>13, <1>16, <2>1
  <2>2. CASE l # k
    BY <1>0, <1>12, <1>13, <1>15, <2>2
  <2>3. QED
    BY <2>1, <2>2
<1>18. Inv'
  BY <1>9, <1>13, <1>15, <1>17 DEF Inv
<1>19. QED
  BY <1>0, <1>1, <1>4, <1>5, <1>18 DEF r, e

(* The janitor deletes only what has expired, and so nothing that is promised. *)
LEMMA DeleteExpiredStep ==
    ASSUME Inv, Src!TypeOK, DeleteExpired
    PROVE  /\ now \in Nat /\ UNCHANGED <<gets, answeredAt, calls, now>>
           /\ items' \in [Keys -> Item \cup {NoItem}]
           /\ \A k \in Keys : /\ items'[k] = items[k] \/ items'[k] = NoItem
                              /\ Cache!Found(k) => items'[k] = items[k]
           /\ items' = [k \in Keys |-> IF Cache!Found(k) THEN items[k] ELSE NoItem]
           /\ Inv'
<1>0. now \in Nat /\ UNCHANGED <<gets, answeredAt, calls, now>>
  BY DEF Src!TypeOK, DeleteExpired, srcVars
<1>1. items' = [k \in Keys |-> IF Cache!Found(k) THEN items[k] ELSE NoItem]
  BY DEF DeleteExpired, Cache!DeleteExpired
<1>2. /\ items' \in [Keys -> Item \cup {NoItem}]
      /\ \A k \in Keys : /\ items'[k] = items[k] \/ items'[k] = NoItem
                         /\ Cache!Found(k) => items'[k] = items[k]
  BY <1>1 DEF Inv
<1>3. \A k \in Keys : ItemOK(items'[k], answeredAt'[k], now')
  <2> SUFFICES ASSUME NEW k \in Keys PROVE ItemOK(items'[k], answeredAt[k], now)
    BY <1>0
  <2>1. ItemOK(items[k], answeredAt[k], now)
    BY DEF Inv
  <2>2. StillPromised(answeredAt[k], now) => Hit(k)
    BY <1>0, ItemFacts DEF Promised, StillPromised
  <2>3. Hit(k) => items'[k] = items[k]
    BY <1>2 DEF Hit
  <2>4. items'[k] = items[k] \/ items'[k] = NoItem
    BY <1>2
  <2>5. QED
    BY <2>1, <2>2, <2>3, <2>4 DEF ItemOK
<1>4. Inv'
  BY <1>0, <1>2, <1>3 DEF Inv
<1>5. QED
  BY <1>0, <1>1, <1>2, <1>4

(* The clock goes on only while every call waits for the API, and what was   *)
(* known then is bounded from when the call to the API began.                *)
LEMMA TickStep ==
    ASSUME Inv, Src!TypeOK, Tick
    PROVE  /\ now \in Nat /\ now' = now + 1 /\ UNCHANGED <<gets, items, answeredAt>>
           /\ Inv'
<1>0. /\ now \in Nat /\ now' = now + 1 /\ UNCHANGED <<gets, items, answeredAt, calls>>
      /\ \A c \in Callers : gets[c].pc \in {"idle", "post"}
      /\ ExpireTimeout \in Int
  BY ApiAssumption DEF Src!TypeOK, Tick, Src!Tick
<1>1. ASSUME NEW c \in Callers PROVE CallOK(gets[c], calls[c], now + 1)
  <2> DEFINE g == gets[c]
  <2>1. CallOK(g, calls[c], now) /\ g.pc \in {"idle", "post"}
    BY <1>0 DEF Inv
  <2> HIDE DEF g
  <2>2. CallOK(g, calls[c], now + 1)
    BY <2>1 DEF CallOK, KnownIsBounded
  <2>3. QED
    BY <2>2 DEF g
<1>2. ASSUME NEW k \in Keys PROVE ItemOK(items[k], answeredAt[k], now + 1)
  <2> DEFINE item == items[k]
             at == answeredAt[k]
  <2>1. ItemOK(item, at, now)
    BY DEF Inv
  <2> HIDE DEF item, at
  <2>2. at \in Nat \cup {-1} /\ at <= now + 1
    BY <1>0, <2>1 DEF ItemOK
  <2>3. IsAnswerOf(item, at, now) => IsAnswerOf(item, at, now + 1)
    BY DEF IsAnswerOf
  <2>4. StillPromised(at, now + 1) => StillPromised(at, now)
    BY <1>0, <2>2 DEF StillPromised
  <2>5. ItemOK(item, at, now + 1)
    BY <2>1, <2>2, <2>3, <2>4 DEF ItemOK
  <2>6. QED
    BY <2>5 DEF item, at
<1>3. Inv'
  BY <1>0, <1>1, <1>2 DEF Inv
<1>4. QED
  BY <1>0, <1>3

(* Nobody has called and nothing is cached at the start.                     *)
LEMMA InvInit == Init => Inv
<1> SUFFICES ASSUME Init PROVE Inv
  OBVIOUS
<1>1. /\ gets = [c \in Callers |-> Idle] /\ items = [k \in Keys |-> NoItem]
      /\ answeredAt = [k \in Keys |-> -1] /\ now = 0
      /\ \A c \in Callers : calls[c].pc = "idle"
  BY DEF Init, Src!Init, Src!Idle, Cache!Init
<1>2. /\ Idle \in GetState /\ Idle.pc = "idle" /\ Idle.promised = FALSE
  BY DEF Idle, GetState, Kinds
<1>3. ASSUME NEW c \in Callers PROVE CallOK(gets[c], calls[c], now)
  BY <1>1, <1>2 DEF CallOK
<1>4. ASSUME NEW k \in Keys PROVE ItemOK(items[k], answeredAt[k], now)
  BY <1>1 DEF ItemOK, StillPromised
<1>5. QED
  BY <1>1, <1>2, <1>3, <1>4 DEF Inv

(* Every step of Api.Get, of the source list and of the cache keeps it.      *)
LEMMA InvNext ==
    ASSUME Inv, Src!TypeOK, CallsAreShort, [Next]_vars
    PROVE  Inv'
<1>1. ASSUME NEW c \in Callers, NEW k \in Keys, ServeCurrent(c, k) \/ LookUp(c, k)
      PROVE  Inv'
  BY <1>1, ServeCurrentStep, LookUpStep
<1>2. ASSUME NEW c \in Callers, Step(c)
      PROVE  Inv'
  <2>1. CASE GetSource(c) \/ NoSource(c) \/ PostRefused(c) \/ Disable(c)
    BY <2>1, AskingStep
  <2>2. CASE IncRequests(c) \/ PostFails(c)
    BY <2>2, SourceStep
  <2>3. CASE PostAnswered(c)
    BY <2>3, PostAnsweredStep
  <2>4. CASE ReturnStale(c) \/ ReturnError(c)
    BY <2>4, ReturnStep
  <2>5. CASE Store(c)
    BY <2>5, StoreStep
  <2>6. CASE Leave(c)
    BY <2>6, LeaveStep
  <2>7. QED
    BY <1>2, <2>1, <2>2, <2>3, <2>4, <2>5, <2>6 DEF Step
<1>3. CASE SourcesWatcher
  BY <1>3 DEF SourcesWatcher, Src!SourcesWatcher, Inv
<1>4. CASE DeleteExpired
  BY <1>4, DeleteExpiredStep
<1>5. CASE Tick
  BY <1>5, TickStep
<1>6. CASE UNCHANGED vars
  BY <1>6 DEF vars, Inv
<1>7. QED
  BY <1>1, <1>2, <1>3, <1>4, <1>5, <1>6 DEF Next

(* What is known of every call and every cached answer in every reachable    *)
(* state, with the facts about the source list it rests on.                  *)
THEOREM ApiInv == Spec => [](Inv /\ Src!TypeOK /\ CallsAreShort)
<1>1. Init => Inv
  BY InvInit
<1>2. Inv /\ Src!TypeOK /\ CallsAreShort /\ [Next]_vars => Inv'
  BY InvNext
<1>3. QED
  BY <1>1, <1>2, SourcesInside, PTL DEF Spec

(* Type correctness of the whole, with the agreement of the two state        *)
(* machines: a call of _getFromApi is made only from inside Api.Get.         *)
THEOREM ApiTypeOK == Spec => []TypeOK
<1>1. Inv /\ Src!TypeOK => TypeOK
  BY DEF Inv, TypeOK, CallOK
<1>2. QED
  BY <1>1, ApiInv, PTL

(* An answer served without asking the API is younger than actualize_timeout *)
(* and than its lease, up to one call.                                       *)
THEOREM ApiHitsAreCurrent == Spec => []HitsAreCurrent
<1>1. Inv => HitsAreCurrent
  BY DEF Inv, HitsAreCurrent, Done, CallOK, HitIsCurrent
<1>2. QED
  BY <1>1, ApiInv, PTL

(* A fallback answer is at most expire_timeout and two calls old, whatever   *)
(* has become of the cache entry since it was read.                          *)
THEOREM ApiStaleIsBounded == Spec => []StaleIsBounded
<1>1. Inv => StaleIsBounded
  BY DEF Inv, StaleIsBounded, Done, CallOK, KnownIsBounded
<1>2. QED
  BY <1>1, ApiInv, PTL

(* A request the API answered within the last expire_timeout is never        *)
(* refused.                                                                  *)
THEOREM ApiFallbackHonoured == Spec => []FallbackHonoured
<1>1. Inv => FallbackHonoured
  BY DEF Inv, FallbackHonoured, Done, CallOK
<1>2. QED
  BY <1>1, ApiInv, PTL

(* What stays cached is as old as it was: only two steps change the items.   *)
LEMMA ItemsChange ==
    ASSUME Inv, [Next]_vars
    PROVE  items' = items \/ DeleteExpired \/ \E c \in Callers : Store(c)
<1>1. ASSUME NEW c \in Callers, NEW k \in Keys, ServeCurrent(c, k) \/ LookUp(c, k)
      PROVE  items' = items
  BY <1>1 DEF ServeCurrent, LookUp
<1>2. ASSUME NEW c \in Callers, Step(c)
      PROVE  items' = items \/ Store(c)
  BY <1>2 DEF Step, GetSource, NoSource, PostRefused, Disable, IncRequests, PostFails,
              PostAnswered, ReturnStale, ReturnError, Leave
<1>3. CASE SourcesWatcher \/ Tick \/ UNCHANGED vars
  BY <1>3 DEF SourcesWatcher, Tick, vars
<1>4. QED
  BY <1>1, <1>2, <1>3 DEF Next

(* Whatever the order in which concurrent calls store their answers, a       *)
(* cached answer is never replaced by one older by more than one call: the   *)
(* old one was made before it was stored, and the new one, stored now, was   *)
(* made at most one call ago.                                                *)
LEMMA RegressionStep ==
    ASSUME Inv, Src!TypeOK, [Next]_vars, NEW k \in Keys, items[k] # NoItem, items'[k] # NoItem
    PROVE  items[k].Object.born <= items'[k].Object.born + Timeout
<1> DEFINE b == items[k].Object.born
<1>0. now \in Nat /\ Timeout \in Nat
  BY ApiAssumption DEF Src!TypeOK
<1>1. ItemOK(items[k], answeredAt[k], now)
  BY DEF Inv
<1>2. IsAnswerOf(items[k], answeredAt[k], now) /\ answeredAt[k] <= now
      /\ answeredAt[k] \in Nat \cup {-1}
  BY <1>1 DEF ItemOK
<1>3. b \in Nat /\ b <= answeredAt[k]
  BY <1>2, AnswerType DEF IsAnswerOf, Item
<1>4. CASE items'[k] = items[k]
  BY <1>0, <1>3, <1>4
<1>5. CASE DeleteExpired
  BY <1>4, <1>5, DeleteExpiredStep
<1>6. ASSUME NEW c \in Callers, Store(c)
      PROVE  items[k].Object.born <= items'[k].Object.born + Timeout
  <2> DEFINE r == gets[c].response
             e == IF ExpireTimeout > 0 THEN now + ExpireTimeout ELSE 0
  <2>1. /\ r \in Answer /\ now <= r.born + Timeout /\ gets[c].key \in Keys
        /\ items' = IF CachingEnabled
                    THEN [items EXCEPT ![gets[c].key] = [Object |-> Dated(r), Expiration |-> e]]
                    ELSE items
    BY <1>6, StoreStep
  <2>2. Dated(r).born = r.born /\ r.born \in Nat
    BY <1>0, <2>1, DatedType, AnswerType
  <2> HIDE DEF r, e
  <2>3. items \in [Keys -> Item \cup {NoItem}]
    BY DEF Inv
  <2>4. CASE CachingEnabled /\ k = gets[c].key
    <3>1. items'[k] = [Object |-> Dated(r), Expiration |-> e]
      BY <2>1, <2>3, <2>4
    <3>2. items'[k].Object.born = r.born
      BY <2>2, <3>1
    <3> HIDE DEF b
    <3>3. b <= r.born + Timeout
      BY <1>0, <1>2, <1>3, <2>1, <2>2
    <3>4. QED
      BY <3>2, <3>3 DEF b
  <2>5. CASE ~(CachingEnabled /\ k = gets[c].key)
    <3>1. items'[k] = items[k]
      BY <2>1, <2>3, <2>5
    <3>2. QED
      BY <1>4, <3>1
  <2>6. QED
    BY <2>4, <2>5
<1>7. items' = items => items'[k] = items[k]
  OBVIOUS
<1>8. QED
  BY <1>4, <1>5, <1>6, <1>7, ItemsChange

(* A cached answer is never replaced by one that is older by more than one   *)
(* call of the API, whatever the order in which concurrent calls store       *)
(* their answers.                                                            *)
THEOREM ApiBoundedRegression == Spec => BoundedRegression
<1>1. Inv /\ Src!TypeOK /\ [Next]_vars
        => [\A k \in Keys :
              (items[k] # NoItem /\ items'[k] # NoItem) =>
                 items[k].Object.born <= items'[k].Object.born + Timeout]_vars
  BY RegressionStep
<1>2. QED
  BY <1>1, ApiInv, PTL DEF Spec, BoundedRegression

-----------------------------------------------------------------------------
(* Api.Get is the answer service: the call as its handler sees it.           *)
Ask(p, k, e, r, d) == [pc |-> p, key |-> k, known |-> e, response |-> r, kind |-> d]

View(g) == Ask(Phase(g.pc), g.key, g.exist, g.response, g.kind)

Asks == [c \in Callers |-> View(gets[c])]

(* The phases, one by one.                                                   *)
LEMMA Phases ==
    /\ Phase("idle") = "idle" /\ Phase("store") = "answered" /\ Phase("done") = "done"
    /\ Phase("ask") = "asking" /\ Phase("post") = "asking" /\ Phase("apiErr") = "asking"
  BY DEF Phase

(* The handler does not see whether an answer had been promised.             *)
LEMMA ViewOfState ==
    ASSUME NEW p, NEW k, NEW e, NEW r, NEW d, NEW m
    PROVE  View(State(p, k, e, r, d, m)) = Ask(Phase(p), k, e, r, d)
<1> DEFINE g == State(p, k, e, r, d, m)
<1>1. g.pc = p /\ g.key = k /\ g.exist = e /\ g.response = r /\ g.kind = d
  BY StateFields
<1> HIDE DEF g
<1>2. View(g) = Ask(Phase(p), k, e, r, d)
  BY <1>1 DEF View
<1>3. QED
  BY <1>2 DEF g

(* A call that is not there looks so to the handler.                         *)
LEMMA ViewOfIdle == View(Idle) = Ask("idle", NoItem, FALSE, NoAnswer, "none")
<1>1. View(State("idle", NoItem, FALSE, NoAnswer, "none", FALSE))
        = Ask(Phase("idle"), NoItem, FALSE, NoAnswer, "none")
  BY ViewOfState
<1>2. QED
  BY <1>1, IdleState, Phases

(* The fields of a call as its handler sees it.                              *)
LEMMA AskFields ==
    ASSUME NEW p, NEW k, NEW e, NEW r, NEW d
    PROVE  /\ Ask(p, k, e, r, d).pc = p
           /\ Ask(p, k, e, r, d).key = k
           /\ Ask(p, k, e, r, d).known = e
           /\ Ask(p, k, e, r, d).response = r
           /\ Ask(p, k, e, r, d).kind = d
  BY DEF Ask

(* Changing one field of it leaves the others.                               *)
LEMMA AskChanges ==
    ASSUME NEW p, NEW k, NEW e, NEW r, NEW d, NEW x
    PROVE  /\ SetPc(Ask(p, k, e, r, d), x) = Ask(x, k, e, r, d)
           /\ SetResponse(Ask(p, k, e, r, d), x) = Ask(p, k, e, x, d)
           /\ SetKind(Ask(p, k, e, r, d), x) = Ask(p, k, e, r, x)
  BY DEF Ask, SetPc, SetResponse, SetKind

(* One call changes; its handler sees the new record.                        *)
LEMMA AsksChange ==
    ASSUME gets \in [Callers -> GetState], NEW c \in Callers, NEW g,
           gets' = [gets EXCEPT ![c] = g]
    PROVE  /\ Asks' = [Asks EXCEPT ![c] = View(g)]
           /\ Asks[c] = View(gets[c])
  BY DEF Asks

(* What the abstract service remembers under a key is what the cache finds.  *)
LEMMA KnownIsFound ==
    ASSUME Inv, NEW k \in Keys
    PROVE  Service!Known(k) <=> Hit(k)
<1>1. Service!Known(k) <=> Cache!Found(k)
  BY DEF Service!Known, Service!Expired, Cache!Found, Cache!Expired
<1>2. ItemOK(items[k], answeredAt[k], now)
  BY DEF Inv
<1>3. items[k] # NoItem => CachingEnabled
  BY <1>2 DEF ItemOK, IsAnswerOf
<1>4. QED
  BY <1>1, <1>3 DEF Hit, Cache!Found

(* The steps of the service, in terms of what the handlers see.              *)
LEMMA ServiceSteps ==
    ASSUME NEW c \in Callers
    PROVE  /\ \A k \in Keys :
                /\ Asks[c].pc = "idle"
                /\ Service!Known(k)
                /\ items[k].Object.Time > now
                /\ Asks' = [Asks EXCEPT ![c] = Ask("done", k, TRUE, items[k].Object, "hit")]
                /\ UNCHANGED <<items, now>>
                => Service!ServeCurrent(c, k)
           /\ \A k \in Keys :
                /\ Asks[c].pc = "idle"
                /\ Asks' = [Asks EXCEPT ![c] =
                              Ask("asking", k, Service!Known(k),
                                  IF Service!Known(k) THEN items[k].Object ELSE NoAnswer, "none")]
                /\ UNCHANGED <<items, now>>
                => Service!Ask(c, k)
           /\ \A b \in 0 .. now, l \in Leases, a \in Grants :
                /\ Asks[c].pc = "asking"
                /\ Asks' = [Asks EXCEPT ![c] =
                     SetResponse(SetPc(Asks[c], "answered"),
                                 [born |-> b, lease |-> l, grant |-> a, Time |-> 0])]
                /\ UNCHANGED <<items, now>>
                => Service!Answered(c)
           /\ /\ Asks[c].pc = "asking" /\ Asks[c].known
              /\ Asks' = [Asks EXCEPT ![c] = SetKind(SetPc(Asks[c], "done"), "stale")]
              /\ UNCHANGED <<items, now>>
              => Service!Recall(c)
           /\ /\ Asks[c].pc = "asking" /\ ~Asks[c].known
              /\ Asks' = [Asks EXCEPT ![c] = SetKind(SetPc(Asks[c], "done"), "error")]
              /\ UNCHANGED <<items, now>>
              => Service!Refuse(c)
           /\ /\ Asks[c].pc = "done"
              /\ Asks' = [Asks EXCEPT ![c] = Ask("idle", NoItem, FALSE, NoAnswer, "none")]
              /\ UNCHANGED <<items, now>>
              => Service!Leave(c)
<1>1. ASSUME NEW k \in Keys,
             Asks[c].pc = "idle", Service!Known(k), items[k].Object.Time > now,
             Asks' = [Asks EXCEPT ![c] = Ask("done", k, TRUE, items[k].Object, "hit")],
             UNCHANGED <<items, now>>
      PROVE  Service!ServeCurrent(c, k)
  BY <1>1 DEF Asks, View, Ask, Service!ServeCurrent
<1>2. ASSUME NEW k \in Keys, Asks[c].pc = "idle",
             Asks' = [Asks EXCEPT ![c] =
                        Ask("asking", k, Service!Known(k),
                            IF Service!Known(k) THEN items[k].Object ELSE NoAnswer, "none")],
             UNCHANGED <<items, now>>
      PROVE  Service!Ask(c, k)
  BY <1>2 DEF Asks, View, Ask, Service!Ask, Service!NoAnswer, NoAnswer
<1>3. ASSUME NEW b \in 0 .. now, NEW l \in Leases, NEW a \in Grants, Asks[c].pc = "asking",
             Asks' = [Asks EXCEPT ![c] =
                        SetResponse(SetPc(Asks[c], "answered"),
                                    [born |-> b, lease |-> l, grant |-> a, Time |-> 0])],
             UNCHANGED <<items, now>>
      PROVE  Service!Answered(c)
  <2> DEFINE r == [born |-> b, lease |-> l, grant |-> a, Time |-> 0]
  <2>1. ASSUME NEW x, x = r
        PROVE  Asks' = [Asks EXCEPT ![c].pc = "answered", ![c].response = x]
    <3> HIDE DEF r
    <3>1. Asks' = [Asks EXCEPT ![c] =
                     [[Asks[c] EXCEPT !.pc = "answered"] EXCEPT !.response = x]]
      BY <1>3, <2>1 DEF SetResponse, SetPc, r
    <3>2. QED
      BY <3>1 DEF Asks
  <2>2. Asks' = [Asks EXCEPT ![c].pc = "answered", ![c].response = r]
    BY <2>1
  <2>3. \E b1 \in 0 .. now, l1 \in Leases, a1 \in Grants :
           Asks' = [Asks EXCEPT ![c].pc = "answered",
                                ![c].response = [born |-> b1, lease |-> l1,
                                                 grant |-> a1, Time |-> 0]]
    BY <2>2
  <2>4. QED
    BY <1>3, <2>3, Zenon DEF Asks, View, Ask, Service!Answered
<1>4. ASSUME Asks[c].pc = "asking", Asks[c].known,
             Asks' = [Asks EXCEPT ![c] = SetKind(SetPc(Asks[c], "done"), "stale")],
             UNCHANGED <<items, now>>
      PROVE  Service!Recall(c)
  BY <1>4 DEF Asks, View, Ask, SetKind, SetPc, Service!Recall
<1>5. ASSUME Asks[c].pc = "asking", ~Asks[c].known,
             Asks' = [Asks EXCEPT ![c] = SetKind(SetPc(Asks[c], "done"), "error")],
             UNCHANGED <<items, now>>
      PROVE  Service!Refuse(c)
  BY <1>5 DEF Asks, View, Ask, SetKind, SetPc, Service!Refuse
<1>6. ASSUME Asks[c].pc = "done",
             Asks' = [Asks EXCEPT ![c] = Ask("idle", NoItem, FALSE, NoAnswer, "none")],
             UNCHANGED <<items, now>>
      PROVE  Service!Leave(c)
  BY <1>6 DEF Asks, View, Ask, Service!Leave, Service!Idle, Service!NoAnswer, NoAnswer
<1>7. QED
  BY <1>1, <1>2, <1>3, <1>4, <1>5, <1>6

(* The API's answer is remembered with a time of the abstract service's      *)
(* choice, if it is not in the past.                                         *)
LEMMA RememberStep ==
    ASSUME NEW c \in Callers, NEW t, Asks[c].pc = "answered",
           t \in IF CachingEnabled
                 THEN {now + Asks[c].response.lease} \cup now .. now + Asks[c].response.lease
                 ELSE {0},
           Asks' = [Asks EXCEPT ![c].pc = "done", ![c].kind = "api",
                                ![c].response = [Asks[c].response EXCEPT !.Time = t]],
           items' = IF ~CachingEnabled THEN items
                    ELSE [items EXCEPT ![Asks[c].key] =
                            [Object     |-> [Asks[c].response EXCEPT !.Time = t],
                             Expiration |-> IF ExpireTimeout > 0 THEN now + ExpireTimeout ELSE 0]],
           now' = now
    PROVE  Service!Remember(c)
  BY Zenon DEF Asks, View, Ask, Service!Remember

(* Api.Get's Store is the service's Remember: the time it gives the answer   *)
(* lies between now and the end of the lease, or is the end of the lease.    *)
LEMMA StoreRemembers ==
    ASSUME Inv, Src!TypeOK, NEW c \in Callers, Store(c), ActualizeTimeout >= 0
    PROVE  Service!Remember(c)
<1> DEFINE o == gets[c]
           r == o.response
           t == IF CachingEnabled THEN ActualizeTime(r.lease) ELSE 0
           x == Dated(r)
           e == IF ExpireTimeout > 0 THEN now + ExpireTimeout ELSE 0
           g == State("done", o.key, o.exist, x, "api", o.promised)
<1>1. /\ o.pc = "store" /\ o \in GetState /\ now \in Nat /\ now' = now
      /\ r \in Answer /\ r.Time = 0
      /\ gets \in [Callers -> GetState] /\ gets' = [gets EXCEPT ![c] = g]
      /\ items' = IF CachingEnabled
                  THEN [items EXCEPT ![o.key] = [Object |-> x, Expiration |-> e]]
                  ELSE items
  BY StoreStep DEF Inv
<1>2. View(o) = Ask("answered", o.key, o.exist, r, o.kind)
  BY <1>1, Phases DEF View
<1>3. View(g) = Ask("done", o.key, o.exist, x, "api")
  <2> HIDE DEF x
  <2>1. QED
    BY ViewOfState, Phases
<1>4. /\ Asks' = [Asks EXCEPT ![c] = Ask("done", o.key, o.exist, x, "api")]
      /\ Asks[c] = Ask("answered", o.key, o.exist, r, o.kind)
  <2> HIDE DEF g, x
  <2>1. Asks' = [Asks EXCEPT ![c] = View(g)] /\ Asks[c] = View(o)
    BY <1>1, AsksChange
  <2>2. QED
    BY <1>2, <1>3, <2>1
<1>5. x = [r EXCEPT !.Time = t]
  <2>1. CASE CachingEnabled
    BY <1>1, <2>1, DatedType
  <2>2. CASE ~CachingEnabled
    <3>1. x = r
      BY <1>1, <2>2, DatedType
    <3>2. [r EXCEPT !.Time = 0] = r
      BY <1>1 DEF Answer
    <3>3. QED
      BY <2>2, <3>1, <3>2
  <2>3. QED
    BY <2>1, <2>2
<1>6. Asks[c].response = r /\ Asks[c].key = o.key /\ Asks[c].pc = "answered"
  <2> HIDE DEF o, r
  <2>1. QED
    BY <1>4, AskFields
<1>7. t \in IF CachingEnabled THEN {now + r.lease} \cup now .. now + r.lease ELSE {0}
  <2>1. r.lease \in Int /\ ActualizeTimeout \in Int
    BY <1>1, AnswerType, ApiAssumption
  <2>2. ActualizeTime(r.lease) = now + Least(ActualizeTimeout, r.lease)
    BY <1>1, DatedType
  <2> DEFINE l == r.lease
  <2> HIDE DEF l
  <2>3. now + Least(ActualizeTimeout, l) \in {now + l} \cup now .. now + l
    BY <1>1, <2>1 DEF Least, l
  <2>4. QED
    BY <2>2, <2>3 DEF l
<1>8. Asks' = [Asks EXCEPT ![c].pc = "done", ![c].kind = "api", ![c].response = x]
  <2> HIDE DEF o, r, x
  <2>1. SetResponse(SetKind(SetPc(Asks[c], "done"), "api"), x)
          = Ask("done", o.key, o.exist, x, "api")
    <3>1. SetPc(Asks[c], "done") = Ask("done", o.key, o.exist, r, o.kind)
      BY <1>4, AskChanges
    <3>2. SetKind(SetPc(Asks[c], "done"), "api") = Ask("done", o.key, o.exist, r, "api")
      BY <3>1, AskChanges
    <3>3. QED
      BY <3>2, AskChanges
  <2>2. [Asks EXCEPT ![c].pc = "done", ![c].kind = "api", ![c].response = x]
          = [Asks EXCEPT ![c] = SetResponse(SetKind(SetPc(Asks[c], "done"), "api"), x)]
    BY DEF Asks, SetResponse, SetKind, SetPc
  <2>3. QED
    BY <1>4, <2>1, <2>2
<1> HIDE DEF o, r, t, x
<1>9. Asks' = [Asks EXCEPT ![c].pc = "done", ![c].kind = "api",
                           ![c].response = [Asks[c].response EXCEPT !.Time = t]]
  BY <1>5, <1>6, <1>8
<1>10. items' = IF ~CachingEnabled THEN items
                ELSE [items EXCEPT ![Asks[c].key] =
                        [Object |-> [Asks[c].response EXCEPT !.Time = t], Expiration |-> e]]
  BY <1>1, <1>5, <1>6
<1>11. QED
  BY <1>1, <1>6, <1>7, <1>9, <1>10, RememberStep

(* What the janitor deletes is what the service may forget.                  *)
LEMMA DeleteForgets ==
    ASSUME Inv, Src!TypeOK, DeleteExpired
    PROVE  Service!Forget
<1> DEFINE K == {k \in Keys : items[k] # NoItem /\ Service!Expired(k)}
<1>1. /\ UNCHANGED <<gets, now>>
      /\ items' = [k \in Keys |-> IF Cache!Found(k) THEN items[k] ELSE NoItem]
  BY DeleteExpiredStep
<1>2. \A k \in Keys : k \in K <=> items[k] # NoItem /\ ~Cache!Found(k)
  BY DEF Cache!Found, Cache!Expired, Service!Expired
<1>3. K \in SUBSET {k \in Keys : items[k] # NoItem /\ Service!Expired(k)}
  OBVIOUS
<1> HIDE DEF K
<1>4. items' = [k \in Keys |-> IF k \in K THEN NoItem ELSE items[k]]
  BY <1>1, <1>2
<1>5. \E S \in SUBSET {k \in Keys : items[k] # NoItem /\ Service!Expired(k)} :
         items' = [k \in Keys |-> IF k \in S THEN NoItem ELSE items[k]]
  BY <1>3, <1>4, Zenon
<1>6. QED
  BY <1>1, <1>5 DEF Service!Forget

(* The beginning of a call, as its handler sees it.                          *)
LEMMA BeginIsService ==
    ASSUME Inv, Src!TypeOK, NEW c \in Callers, NEW k \in Keys, ServeCurrent(c, k) \/ LookUp(c, k)
    PROVE  Service!Ask(c, k) \/ Service!ServeCurrent(c, k)
<1> DEFINE o == gets[c]
<1>1. /\ o.pc = "idle" /\ UNCHANGED <<items, now>> /\ gets \in [Callers -> GetState]
      /\ now \in Nat
  BY DEF ServeCurrent, LookUp, srcVars, Inv, Src!TypeOK
<1>2. Asks[c].pc = "idle"
  <2>1. Asks[c] = View(o)
    BY DEF Asks
  <2> HIDE DEF o
  <2>2. QED
    BY <1>1, <2>1, Phases, AskFields DEF View
<1>3. CASE ServeCurrent(c, k)
  <2>1. gets' = [gets EXCEPT ![c] = State("done", k, TRUE, items[k].Object, "hit", Promised(k))]
    BY <1>3, ServeCurrentStep
  <2>2. Asks' = [Asks EXCEPT ![c] = Ask("done", k, TRUE, items[k].Object, "hit")]
    <3> DEFINE r == items[k].Object
               e == TRUE
               g == State("done", k, e, r, "hit", Promised(k))
    <3>1. gets' = [gets EXCEPT ![c] = g]
      BY <2>1
    <3> HIDE DEF r, e
    <3>2. View(g) = Ask("done", k, e, r, "hit")
      BY ViewOfState, Phases
    <3> HIDE DEF g
    <3>3. Asks' = [Asks EXCEPT ![c] = View(g)]
      BY <1>1, <3>1, AsksChange
    <3>4. QED
      BY <3>2, <3>3 DEF r, e
  <2>3. Service!Known(k) /\ items[k].Object.Time > now
    BY <1>3, KnownIsFound DEF ServeCurrent, Current, Cache!Get
  <2>4. QED
    BY <1>1, <1>2, <2>2, <2>3, ServiceSteps
<1>4. CASE LookUp(c, k)
  <2> DEFINE r == IF Hit(k) THEN items[k].Object ELSE NoAnswer
  <2>1. gets' = [gets EXCEPT ![c] = State("ask", k, Hit(k), r, "none", Promised(k))]
    BY <1>4, LookUpStep
  <2>2. Hit(k) \in BOOLEAN /\ Service!Known(k) \in BOOLEAN
    BY <1>1, ItemFacts DEF Service!Known
  <2>3. Hit(k) = Service!Known(k)
    BY <2>2, KnownIsFound
  <2>4. r = IF Service!Known(k) THEN items[k].Object ELSE NoAnswer
    BY <2>3
  <2> HIDE DEF r
  <2>5. Asks' = [Asks EXCEPT ![c] = Ask("asking", k, Hit(k), r, "none")]
    <3> DEFINE g == State("ask", k, Hit(k), r, "none", Promised(k))
    <3>1. View(g) = Ask("asking", k, Hit(k), r, "none")
      BY ViewOfState, Phases
    <3> HIDE DEF g
    <3>2. Asks' = [Asks EXCEPT ![c] = View(g)]
      BY <1>1, <2>1, AsksChange DEF g
    <3>3. QED
      BY <3>1, <3>2
  <2>6. Asks' = [Asks EXCEPT ![c] =
                   Ask("asking", k, Service!Known(k),
                       IF Service!Known(k) THEN items[k].Object ELSE NoAnswer, "none")]
    BY <2>3, <2>4, <2>5
  <2>7. QED
    BY <1>1, <1>2, <2>6, ServiceSteps
<1>5. QED
  BY <1>3, <1>4

(* The rest of a call: what happens between it and the source list the       *)
(* handler does not see.                                                     *)
LEMMA StepIsService ==
    ASSUME Inv, Src!TypeOK, CallsAreShort, NEW c \in Callers, Step(c), ActualizeTimeout >= 0
    PROVE  \/ Service!Answered(c) \/ Service!Remember(c) \/ Service!Recall(c)
           \/ Service!Refuse(c) \/ Service!Leave(c)
           \/ UNCHANGED <<items, Asks, now>>
<1> DEFINE o == gets[c]
           A(p, r, d) == Ask(p, o.key, o.exist, r, d)
<1>0. /\ gets \in [Callers -> GetState] /\ o \in GetState /\ CallOK(o, calls[c], now)
      /\ Asks[c] = View(o)
  BY DEF Inv, Asks
<1>1. ASSUME NEW p, gets' = [gets EXCEPT ![c] =
                               State(p, o.key, o.exist, o.response, o.kind, o.promised)],
             Phase(p) = Phase(o.pc)
      PROVE  Asks' = Asks
  <2>1. Asks' = [Asks EXCEPT ![c] = Ask(Phase(p), o.key, o.exist, o.response, o.kind)]
    <3> DEFINE g == State(p, o.key, o.exist, o.response, o.kind, o.promised)
    <3>1. View(g) = Ask(Phase(p), o.key, o.exist, o.response, o.kind)
      BY ViewOfState
    <3> HIDE DEF g
    <3>2. Asks' = [Asks EXCEPT ![c] = View(g)]
      BY <1>0, <1>1, AsksChange DEF g
    <3>3. QED
      BY <3>1, <3>2
  <2>2. Asks' = [Asks EXCEPT ![c] = Asks[c]]
    BY <1>0, <1>1, <2>1 DEF View
  <2>3. QED
    BY <2>2 DEF Asks
<1>2. CASE GetSource(c) \/ NoSource(c) \/ PostRefused(c) \/ Disable(c)
  <2>1. o.pc \in {"ask", "post"} /\ UNCHANGED <<items, now>>
    <3>1. CASE GetSource(c) \/ NoSource(c)
      BY <3>1, CallMoves DEF GetSource, NoSource, srcVars
    <3>2. CASE PostRefused(c) \/ Disable(c)
      <4>1. calls[c].pc # "idle" /\ now' = now
        BY <3>2, CallMoves DEF PostRefused, Disable
      <4>2. o.pc = "post"
        BY <1>0, <4>1 DEF CallOK
      <4>3. QED
        BY <3>2, <4>1, <4>2 DEF PostRefused, Disable
    <3>3. QED
      BY <1>2, <3>1, <3>2
  <2>2. \E p \in {"post", "apiErr"} :
          gets' = [gets EXCEPT ![c] = State(p, o.key, o.exist, o.response, o.kind, o.promised)]
    BY <1>0, <1>2, Moves
  <2>3. Asks' = Asks
    <3> HIDE DEF o
    <3>1. Phase(o.pc) = "asking"
      BY <2>1, Phases
    <3>2. QED
      BY <1>1, <2>2, <3>1, Phases
  <2>4. QED
    BY <2>1, <2>3
<1>3. CASE IncRequests(c) \/ PostFails(c)
  <2>1. UNCHANGED <<items, gets, now>>
    BY <1>3, CallMoves DEF IncRequests, PostFails
  <2>2. QED
    BY <2>1 DEF Asks
<1>4. CASE PostAnswered(c)
  <2>1. o.pc = "post" /\ UNCHANGED <<items, now>>
    BY <1>4, PostAnsweredStep
  <2>2. PICK b \in 0 .. now, l \in Leases, a \in Grants :
          gets' = [gets EXCEPT ![c] =
                     State("store", o.key, o.exist, [born |-> b, lease |-> l, grant |-> a, Time |-> 0],
                           o.kind, o.promised)]
    BY <1>4, PostAnsweredStep
  <2> DEFINE r == [born |-> b, lease |-> l, grant |-> a, Time |-> 0]
  <2>3. gets' = [gets EXCEPT ![c] = State("store", o.key, o.exist, r, o.kind, o.promised)]
    BY <2>2
  <2>4. Asks[c] = A("asking", o.response, o.kind)
    BY <1>0, <2>1, Phases DEF View
  <2>5. Asks' = [Asks EXCEPT ![c] = A("answered", r, o.kind)]
    <3> DEFINE g == State("store", o.key, o.exist, r, o.kind, o.promised)
    <3> HIDE DEF r
    <3>1. View(g) = A("answered", r, o.kind)
      BY ViewOfState, Phases
    <3> HIDE DEF g
    <3>2. Asks' = [Asks EXCEPT ![c] = View(g)]
      BY <1>0, <2>3, AsksChange DEF g
    <3>3. QED
      BY <3>1, <3>2
  <2>6. SetResponse(SetPc(Asks[c], "answered"), r) = A("answered", r, o.kind)
    <3> HIDE DEF r, o
    <3>1. SetPc(Asks[c], "answered") = A("answered", o.response, o.kind)
      BY <2>4, AskChanges
    <3>2. QED
      BY <3>1, AskChanges
  <2>7. Asks[c].pc = "asking"
    <3> HIDE DEF o
    <3>1. QED
      BY <2>4, AskFields
  <2>8. Asks' = [Asks EXCEPT ![c] = SetResponse(SetPc(Asks[c], "answered"), r)]
    BY <2>5, <2>6
  <2>9. Service!Answered(c)
    BY <2>1, <2>7, <2>8, ServiceSteps
  <2>10. QED
    BY <2>9
<1>5. CASE ReturnStale(c) \/ ReturnError(c)
  <2>1. /\ o.pc = "apiErr" /\ UNCHANGED <<items, now>>
        /\ ReturnStale(c) => o.exist /\ gets' = [gets EXCEPT ![c] =
             State("done", o.key, o.exist, o.response, "stale", o.promised)]
        /\ ReturnError(c) => ~o.exist /\ gets' = [gets EXCEPT ![c] =
             State("done", o.key, o.exist, o.response, "error", o.promised)]
    BY <1>0, <1>5, Moves DEF ReturnStale, ReturnError, srcVars
  <2>2. Asks[c] = A("asking", o.response, o.kind)
    BY <1>0, <2>1, Phases DEF View
  <2>3. /\ ReturnStale(c) => Asks' = [Asks EXCEPT ![c] = A("done", o.response, "stale")]
        /\ ReturnError(c) => Asks' = [Asks EXCEPT ![c] = A("done", o.response, "error")]
    BY <1>0, <2>1, AsksChange, ViewOfState, Phases
  <2> HIDE DEF o
  <2>4. ASSUME NEW d PROVE SetKind(SetPc(Asks[c], "done"), d) = A("done", o.response, d)
    <3>1. SetPc(Asks[c], "done") = A("done", o.response, o.kind)
      BY <2>2, AskChanges
    <3>2. QED
      BY <3>1, AskChanges
  <2>5. Asks[c].pc = "asking" /\ Asks[c].known = o.exist
    BY <2>2, AskFields
  <2>6. CASE ReturnStale(c)
    <3>1. Service!Recall(c)
      BY <2>1, <2>3, <2>4, <2>5, <2>6, ServiceSteps
    <3>2. QED
      BY <3>1
  <2>7. CASE ReturnError(c)
    <3>1. Service!Refuse(c)
      BY <2>1, <2>3, <2>4, <2>5, <2>7, ServiceSteps
    <3>2. QED
      BY <3>1
  <2>8. QED
    BY <1>5, <2>6, <2>7
<1>6. CASE Store(c)
  BY <1>6, StoreRemembers
<1>7. CASE Leave(c)
  <2>1. o.pc = "done" /\ UNCHANGED <<items, now>> /\ gets' = [gets EXCEPT ![c] = Idle]
    BY <1>7 DEF Leave, srcVars
  <2>2. Asks' = [Asks EXCEPT ![c] = Ask("idle", NoItem, FALSE, NoAnswer, "none")]
    <3>1. View(Idle) = Ask("idle", NoItem, FALSE, NoAnswer, "none")
      BY ViewOfIdle
    <3>2. Asks' = [Asks EXCEPT ![c] = View(Idle)]
      BY <1>0, <2>1, AsksChange
    <3>3. QED
      BY <3>1, <3>2
  <2>3. Asks[c].pc = "done"
    <3> HIDE DEF o
    <3>1. QED
      BY <1>0, <2>1, AskFields, Phases DEF View
  <2>4. Service!Leave(c)
    BY <2>1, <2>2, <2>3, ServiceSteps
  <2>5. QED
    BY <2>4
<1>8. QED
  BY <1>2, <1>3, <1>4, <1>5, <1>6, <1>7 DEF Step

(* Api.Get, over the source list and the cache, is the answer service.  An   *)
(* actualize_timeout below zero would give an answer a time already past;    *)
(* the service has no such answers.                                          *)
THEOREM ApiImplementsService ==
    ASSUME ActualizeTimeout >= 0
    PROVE  Spec => ServiceSpec
<1>1. Init => Service!Init
  <2> SUFFICES ASSUME Init PROVE Service!Init
    OBVIOUS
  <2>1. gets = [c \in Callers |-> Idle] /\ items = [k \in Keys |-> NoItem] /\ now = 0
    BY DEF Init, Src!Init, Cache!Init
  <2>2. View(Idle) = Ask("idle", NoItem, FALSE, NoAnswer, "none")
    BY ViewOfIdle
  <2>3. Asks = [c \in Callers |-> Ask("idle", NoItem, FALSE, NoAnswer, "none")]
    BY <2>1, <2>2 DEF Asks
  <2>4. QED
    BY <2>1, <2>3 DEF Asks, View, Ask, Service!Init, Service!Idle, Service!NoAnswer, NoAnswer
<1>2. Inv /\ Src!TypeOK /\ CallsAreShort /\ [Next]_vars => [Service!Next]_Service!vars
  <2> SUFFICES ASSUME Inv, Src!TypeOK, CallsAreShort, [Next]_vars
               PROVE  Service!Next \/ UNCHANGED Service!vars
    OBVIOUS
  <2>0. UNCHANGED <<items, Asks, now>> => UNCHANGED Service!vars
    BY DEF Asks, View, Ask, Service!vars
  <2>1. ASSUME NEW c \in Callers, NEW k \in Keys, ServeCurrent(c, k) \/ LookUp(c, k)
        PROVE  Service!Next
    BY <2>1, BeginIsService DEF Service!Next
  <2>2. ASSUME NEW c \in Callers, Step(c)
        PROVE  Service!Next \/ UNCHANGED Service!vars
    BY <2>0, <2>2, StepIsService DEF Service!Next
  <2>3. CASE SourcesWatcher
    <3>1. UNCHANGED <<items, Asks, now>>
      BY <2>3 DEF SourcesWatcher, Src!SourcesWatcher, Asks
    <3>2. QED
      BY <2>0, <3>1
  <2>4. CASE DeleteExpired
    BY <2>4, DeleteForgets DEF Service!Next
  <2>5. CASE Tick
    <3>1. now' = now + 1 /\ UNCHANGED <<items, Asks>>
      BY <2>5, TickStep DEF Asks
    <3>2. Service!Tick
      BY <3>1 DEF Service!Tick, Asks, View, Ask
    <3>3. QED
      BY <3>2 DEF Service!Next
  <2>6. CASE UNCHANGED vars
    <3>1. UNCHANGED <<items, Asks, now>>
      BY <2>6 DEF vars, Asks
    <3>2. QED
      BY <2>0, <3>1
  <2>7. QED
    BY <2>1, <2>2, <2>3, <2>4, <2>5, <2>6 DEF Next
<1>3. QED
  BY <1>1, <1>2, ApiInv, PTL DEF Spec, ServiceSpec, Service!Spec
=============================================================================
