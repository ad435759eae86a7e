-------------------------------- MODULE Api --------------------------------
(***************************************************************************)
(* Api.Get (api/api.go): answer a request from the cache while the cached   *)
(* answer is current, else ask an API source through _getFromApi, and fall  *)
(* back on the cached answer when the API gives none.  Composes the source  *)
(* list (module Sources) with the answer cache (module ResponseCache); the  *)
(* calls of concurrent handlers interleave step by step.                    *)
(***************************************************************************)
EXTENDS Integers, FiniteSets

CONSTANTS
    Addresses, NoAddress, Callers, DisableTimeout, Timeout, WatchPeriod,
    MaxTime, MaxRequests,           \* as in Sources
    Keys, NoItem, ExpireTimeout,    \* as in ResponseCache
    CachingEnabled,                 \* caching.enabled
    ActualizeTimeout,               \* caching.actualize_timeout
    Leases,                         \* the lease_time_sec values the API answers with
    Grants                          \* do its answers assign an address or a pool

ASSUME ApiAssumption ==
    /\ NoAddress \notin Addresses      \* these seven as in Sources
    /\ IsFiniteSet(Callers)
    /\ DisableTimeout \in Nat
    /\ Timeout \in Nat \ {0}
    /\ WatchPeriod \in Nat \ {0}
    /\ MaxTime \in Nat
    /\ MaxRequests \in Nat
    /\ CachingEnabled \in BOOLEAN
    /\ ExpireTimeout \in Int
    /\ ActualizeTimeout \in Int
    /\ Leases \subseteq Int
    /\ Grants \subseteq BOOLEAN

VARIABLES
    sources, wake, calls, now, downSince,   \* as in Sources
    items,                                  \* as in ResponseCache
    gets,        \* where each caller is inside Api.Get
    answeredAt   \* history: when the API last answered for the key, -1 for never

Src   == INSTANCE Sources
Cache == INSTANCE ResponseCache

srcVars == <<sources, wake, calls, now, downSince>>
vars    == <<sources, wake, calls, now, downSince, items, gets, answeredAt>>

(* An answer: when the API made it, the lease it grants, whether it assigns *)
(* an address or a pool, and until when the cache may serve it unasked      *)
(* (AuthResponse.Time).                                                     *)
Answer == [born : Nat, lease : Leases, grant : Grants, Time : Int]

Item == [Object : Answer, Expiration : Nat]

ASSUME NoItemAssumption == NoItem \notin Item

NoAnswer == [born |-> 0, lease |-> 0, grant |-> FALSE, Time |-> 0]

Kinds == {"none", "hit", "api", "stale", "error"}

(* exist and response are the locals of Api.Get; kind says which return     *)
(* statement was taken; promised is history: at the start of the call the   *)
(* API's last answer for the key was younger than expire_timeout.           *)
GetState == [pc : {"idle", "ask", "post", "apiErr", "store", "done"},
             key : Keys \cup {NoItem}, exist : BOOLEAN,
             response : Answer \cup {NoAnswer}, kind : Kinds, promised : BOOLEAN]

Idle == [pc |-> "idle", key |-> NoItem, exist |-> FALSE,
         response |-> NoAnswer, kind |-> "none", promised |-> FALSE]

TypeOK ==
    /\ Src!TypeOK
    /\ items \in [Keys -> Item \cup {NoItem}]
    /\ gets \in [Callers -> GetState]
    /\ answeredAt \in [Keys -> Nat \cup {-1}]
    /\ \A c \in Callers : calls[c].pc # "idle" => gets[c].pc = "post"

-----------------------------------------------------------------------------

Init ==
    /\ Src!Init
    /\ Cache!Init
    /\ gets = [c \in Callers |-> Idle]
    /\ answeredAt = [k \in Keys |-> -1]

(* Bound of the model: no new call to the API when the counters are full. *)
Room == \A a \in Addresses :
           sources[a].Requests
             + Cardinality({c \in Callers : gets[c].pc \in {"ask", "post"}})
               < MaxRequests

Promised(k) ==
    /\ CachingEnabled
    /\ answeredAt[k] # -1
    /\ ExpireTimeout > 0 => now <= answeredAt[k] + ExpireTimeout

Hit(k) == CachingEnabled /\ Cache!Found(k)

Current(k) == Hit(k) /\ Cache!Get(k).Time > now

ServeCurrent(c, k) ==
    /\ gets[c].pc = "idle"
    /\ Current(k)
    /\ gets' = [gets EXCEPT ![c] =
                  [pc |-> "done", key |-> k, exist |-> TRUE, kind |-> "hit",
                   response |-> Cache!Get(k), promised |-> Promised(k)]]
    /\ UNCHANGED <<srcVars, items, answeredAt>>

LookUp(c, k) ==
    /\ gets[c].pc = "idle"
    /\ ~Current(k)
    /\ Room
    /\ gets' = [gets EXCEPT ![c] =
                  [pc |-> "ask", key |-> k, exist |-> Hit(k), kind |-> "none",
                   response |-> IF Hit(k) THEN Cache!Get(k) ELSE NoAnswer,
                   promised |-> Promised(k)]]
    /\ UNCHANGED <<srcVars, items, answeredAt>>

GetSource(c) ==
    /\ gets[c].pc = "ask"
    /\ Src!GetSource(c)
    /\ gets' = [gets EXCEPT ![c].pc = "post"]
    /\ UNCHANGED <<items, answeredAt>>

NoSourceWaits(c) ==                                 \* mutant: retries for a source
    /\ gets[c].pc = "ask"
    /\ Src!Alive = {}
    /\ UNCHANGED vars
NoSource(c) ==
    /\ gets[c].pc = "ask"
    /\ Src!Alive = {}
    /\ gets' = [gets EXCEPT ![c].pc = "apiErr"]
    /\ UNCHANGED <<srcVars, items, answeredAt>>

IncRequests(c) ==
    /\ Src!IncRequests(c)
    /\ UNCHANGED <<items, gets, answeredAt>>

(* The API made its answer at some moment of the call. *)
PostAnswered(c) ==
    /\ Src!PostSucceeds(c)
    /\ \E t \in calls[c].since .. now, l \in Leases, g \in Grants :
         gets' = [gets EXCEPT ![c].pc = "store",
                              ![c].response = [born |-> t, lease |-> l, grant |-> g, Time |-> 0]]
    /\ UNCHANGED <<items, answeredAt>>

(* HTTP 200 with a statusCode other than 200 in the body: no answer, but the *)
(* source stays in the list.                                                 *)
PostRefused(c) ==
    /\ Src!PostSucceeds(c)
    /\ gets' = [gets EXCEPT ![c].pc = "apiErr"]
    /\ UNCHANGED <<items, answeredAt>>

PostFailsReturns(c) ==                              \* mutant: returns before Disable
    /\ Src!PostFails(c)
    /\ gets' = [gets EXCEPT ![c].pc = "apiErr"]
    /\ UNCHANGED <<items, answeredAt>>
PostFails(c) ==
    /\ Src!PostFails(c)
    /\ UNCHANGED <<items, gets, answeredAt>>

DisableSkipped(c) ==                                \* mutant: the source stays
    /\ calls[c].pc = "failed"
    /\ calls' = [calls EXCEPT ![c] = Src!Idle]
    /\ UNCHANGED <<sources, wake, now, downSince>>
    /\ gets' = [gets EXCEPT ![c].pc = "apiErr"]
    /\ UNCHANGED <<items, answeredAt>>
Disable(c) ==
    /\ Src!Disable(c)
    /\ gets' = [gets EXCEPT ![c].pc = "apiErr"]
    /\ UNCHANGED <<items, answeredAt>>

ReturnStaleStored(c) ==                             \* mutant: stores the old answer
    /\ gets[c].pc = "apiErr"
    /\ gets[c].exist
    /\ gets' = [gets EXCEPT ![c].pc = "done", ![c].kind = "stale"]
    /\ Cache!SetDefault(gets[c].key, gets[c].response)
    /\ UNCHANGED <<srcVars, answeredAt>>
ReturnStale(c) ==
    /\ gets[c].pc = "apiErr"
    /\ gets[c].exist
    /\ gets' = [gets EXCEPT ![c].pc = "done", ![c].kind = "stale"]
    /\ UNCHANGED <<srcVars, items, answeredAt>>

ReturnErrorRechecked(c) ==                          \* mutant: asks the cache again
    /\ gets[c].pc = "apiErr"
    /\ ~Hit(gets[c].key)
    /\ gets' = [gets EXCEPT ![c].pc = "done", ![c].kind = "error"]
    /\ UNCHANGED <<srcVars, items, answeredAt>>
ReturnError(c) ==
    /\ gets[c].pc = "apiErr"
    /\ ~gets[c].exist
    /\ gets' = [gets EXCEPT ![c].pc = "done", ![c].kind = "error"]
    /\ UNCHANGED <<srcVars, items, answeredAt>>

(* The answer is current for actualize_timeout, or for its lease if that is *)
(* shorter.                                                                 *)
ActualizeTimeUncapped(lease) == now + ActualizeTimeout   \* mutant: no lease limit
ActualizeTime(lease) ==
    IF now + ActualizeTimeout > now + lease THEN now + lease ELSE now + ActualizeTimeout

StoreGrants(c) ==                                   \* mutant: caches grants only
    /\ gets[c].pc = "store"
    /\ LET k == gets[c].key
           r == IF CachingEnabled
                THEN [gets[c].response EXCEPT !.Time = ActualizeTime(gets[c].response.lease)]
                ELSE gets[c].response
       IN  /\ IF CachingEnabled /\ r.grant THEN Cache!SetDefault(k, r) ELSE UNCHANGED items
           /\ gets' = [gets EXCEPT ![c].pc = "done", ![c].kind = "api", ![c].response = r]
           /\ answeredAt' = [answeredAt EXCEPT ![k] = now]
    /\ UNCHANGED srcVars
Store(c) ==
    /\ gets[c].pc = "store"
    /\ LET k == gets[c].key
           r == IF CachingEnabled
                THEN [gets[c].response EXCEPT !.Time = ActualizeTime(gets[c].response.lease)]
                ELSE gets[c].response
       IN  /\ IF CachingEnabled THEN Cache!SetDefault(k, r) ELSE UNCHANGED items
           /\ gets' = [gets EXCEPT ![c].pc = "done", ![c].kind = "api", ![c].response = r]
           /\ answeredAt' = [answeredAt EXCEPT ![k] = now]
    /\ UNCHANGED srcVars

(* The handler takes the result; nothing of the call is left. *)
Leave(c) ==
    /\ gets[c].pc = "done"
    /\ gets' = [gets EXCEPT ![c] = Idle]
    /\ UNCHANGED <<srcVars, items, answeredAt>>

SourcesWatcher == Src!SourcesWatcher /\ UNCHANGED <<items, gets, answeredAt>>

DeleteExpired == Cache!DeleteExpired /\ UNCHANGED <<srcVars, gets, answeredAt>>

Tick ==
    /\ \A c \in Callers : gets[c].pc \in {"idle", "post"}
    /\ Src!Tick
    /\ UNCHANGED <<items, gets, answeredAt>>

Step(c) ==
    \/ GetSource(c) \/ NoSource(c) \/ IncRequests(c)
    \/ PostAnswered(c) \/ PostRefused(c) \/ PostFails(c) \/ Disable(c)
    \/ ReturnStale(c) \/ ReturnError(c) \/ Store(c) \/ Leave(c)

Next ==
    \/ \E c \in Callers : \/ \E k \in Keys : ServeCurrent(c, k) \/ LookUp(c, k)
                          \/ Step(c)
    \/ SourcesWatcher
    \/ DeleteExpired
    \/ Tick

Spec == Init /\ [][Next]_vars

(* Go's scheduler runs every runnable goroutine, and the HTTP client returns *)
(* by its timeout, so a call that has begun goes on.  New requests need not  *)
(* arrive.                                                                   *)
FairSpec == Spec /\ \A c \in Callers : WF_vars(Step(c))

-----------------------------------------------------------------------------
(* Properties *)

Least(a, b) == IF a < b THEN a ELSE b

Done(c, kind) == gets[c].pc = "done" /\ gets[c].kind = kind

(* An answer served from the cache without asking the API is younger than   *)
(* actualize_timeout, and than the lease it grants, counted from when the   *)
(* API's reply came in, which is at most one call after the API made it.    *)
HitsAreCurrent ==
    \A c \in Callers :
        Done(c, "hit") =>
            LET r == gets[c].response
            IN  now < r.born + Timeout + Least(ActualizeTimeout, r.lease)

(* The fallback answer is taken from the cache before the API is asked and  *)
(* may have expired, been deleted or been replaced by the time it is used;  *)
(* even so it is at most expire_timeout and two calls old.                  *)
StaleIsBounded ==
    \A c \in Callers :
        Done(c, "stale") /\ ExpireTimeout > 0 =>
            now <= gets[c].response.born + 2 * Timeout + ExpireTimeout

(* A request whose key the API answered within the last expire_timeout is   *)
(* never refused, whatever happens to the sources and to the cache entry    *)
(* during the call.                                                         *)
FallbackHonoured ==
    \A c \in Callers : Done(c, "error") => ~gets[c].promised

(* Concurrent calls for one key store their answers in any order, and an    *)
(* older answer can replace a newer one; it is older by at most the timeout *)
(* of one call.                                                             *)
BoundedRegression ==
    [][\A k \in Keys :
         (items[k] # NoItem /\ items'[k] # NoItem) =>
            items[k].Object.born <= items'[k].Object.born + Timeout]_vars

(* Api.Get uses the source list as Sources says. *)
SourcesSpec == Src!Spec

(* How a call of Api.Get looks to a handler. *)
Phase(pc) == CASE pc = "idle"  -> "idle"
               [] pc = "store" -> "answered"
               [] pc = "done"  -> "done"
               [] pc \in {"ask", "post", "apiErr"} -> "asking"

Service == INSTANCE AnswerService WITH
    Remembers  <- CachingEnabled,
    Lifetime   <- ExpireTimeout,
    remembered <- items,
    asks       <- [c \in Callers |-> [pc       |-> Phase(gets[c].pc),
                                      key      |-> gets[c].key,
                                      known    |-> gets[c].exist,
                                      response |-> gets[c].response,
                                      kind     |-> gets[c].kind]]

(* Api.Get, over the source list and the cache, is the answer service that  *)
(* module AnswerService describes: what it remembers and forgets, what it   *)
(* answers with, and when it may refuse.                                    *)
ServiceSpec == Service!Spec

(* Every call of Api.Get returns: with a source or without, with the API    *)
(* answering, refusing or silent.                                           *)
GetReturns == Service!CallsEnd
=============================================================================
