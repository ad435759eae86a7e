------------------------------ MODULE Sources ------------------------------
(***************************************************************************)
(* The list of API sources (api/sources/sources.go) and the calls that use *)
(* it (_getFromApi in api/api.go).                                         *)
(*                                                                         *)
(* Every handler goroutine that needs the API takes the alive source with  *)
(* the fewest requests, counts the request, posts to the source and takes  *)
(* the source out of the list when the post fails.  A watcher goroutine    *)
(* puts a source back once disable_timeout has passed.  GetSource,         *)
(* IncRequests, Disable and one pass of the watcher each run under the     *)
(* mutex of Sources and are single steps; a caller can be overtaken        *)
(* between any two of them.                                                *)
(*                                                                         *)
(* Time is counted in ticks.  Steps that only compute or take the mutex    *)
(* are instantaneous: the clock does not advance while one is pending, nor *)
(* past the HTTP client's timeout, nor past the watcher's wake-up.         *)
(***************************************************************************)
EXTENDS Integers, FiniteSets

CONSTANTS
    Addresses,       \* conf.Auth.Addresses
    NoAddress,       \* stands for "no source taken"
    Callers,         \* the goroutines that may be inside _getFromApi
    DisableTimeout,  \* alive_checking.disable_timeout
    Timeout,         \* conf.Timeout, the limit of one HTTP call
    WatchPeriod,     \* the sleep between two passes of the watcher
    MaxTime,         \* bound of the model: the clock stops here
    MaxRequests      \* bound of the model: no source with so many requests is taken

ASSUME SourcesAssumption ==
    /\ NoAddress \notin Addresses
    /\ IsFiniteSet(Callers)
    /\ DisableTimeout \in Nat
    /\ Timeout \in Nat \ {0}       \* 0 would switch the client's limit off
    /\ WatchPeriod \in Nat \ {0}
    /\ MaxTime \in Nat
    /\ MaxRequests \in Nat

VARIABLES
    sources,    \* Sources.sources: address -> IsAlive, Requests, DisableTime
    wake,       \* when the watcher's sleep ends
    calls,      \* where each caller is inside _getFromApi
    now,        \* the clock
    downSince   \* history: when the source was last taken out, -1 for never

vars == <<sources, wake, calls, now, downSince>>

(* Why a post counts as failed in _getFromApi. *)
Failures == {"unreachable", "http_5xx", "http_other", "bad_json"}

Source == [IsAlive : BOOLEAN, Requests : Nat, DisableTime : Nat]

Call == [pc    : {"idle", "picked", "posting", "failed"},
         addr  : Addresses \cup {NoAddress},
         since : Nat,
         why   : Failures \cup {"none"}]

Idle == [pc |-> "idle", addr |-> NoAddress, since |-> 0, why |-> "none"]

TypeOK ==
    /\ sources \in [Addresses -> Source]
    /\ wake \in Nat
    /\ calls \in [Callers -> Call]
    /\ now \in Nat
    /\ downSince \in [Addresses -> Nat \cup {-1}]
    /\ \A c \in Callers : calls[c].pc = "idle" <=> calls[c].addr = NoAddress

-----------------------------------------------------------------------------

Init ==
    /\ sources = [a \in Addresses |->
                    [IsAlive |-> TRUE, Requests |-> 0, DisableTime |-> 0]]
    /\ wake = 0
    /\ calls = [c \in Callers |-> Idle]
    /\ now = 0
    /\ downSince = [a \in Addresses |-> -1]

Alive == {a \in Addresses : sources[a].IsAlive}

(* What the sort in GetSource can leave in front: the map is walked in any *)
(* order and the sort is not stable, so any alive source with the fewest   *)
(* requests.                                                               *)
LeastUsedUnsorted == Alive                          \* mutant: no sort
LeastUsedOfAll ==                                   \* mutant: no IsAlive test
    {a \in Addresses : \A b \in Addresses : sources[a].Requests <= sources[b].Requests}
LeastUsed ==
    {a \in Alive : \A b \in Alive : sources[a].Requests <= sources[b].Requests}

GetSource(c) ==
    /\ calls[c].pc = "idle"
    /\ \E a \in LeastUsed :
         /\ sources[a].Requests < MaxRequests
         /\ calls' = [calls EXCEPT ![c] =
                        [pc |-> "picked", addr |-> a, since |-> now, why |-> "none"]]
    /\ UNCHANGED <<sources, wake, now, downSince>>

IncRequestsBackwards(c) ==                          \* mutant: counts down
    /\ calls[c].pc = "picked"
    /\ sources' = [sources EXCEPT ![calls[c].addr].Requests = @ - 1]
    /\ calls' = [calls EXCEPT ![c].pc = "posting"]
    /\ UNCHANGED <<wake, now, downSince>>
IncRequests(c) ==
    /\ calls[c].pc = "picked"
    /\ sources' = [sources EXCEPT ![calls[c].addr].Requests = @ + 1]
    /\ calls' = [calls EXCEPT ![c].pc = "posting"]
    /\ UNCHANGED <<wake, now, downSince>>

(* An HTTP 200 with a body that decodes, whatever statusCode the body says. *)
PostSucceeds(c) ==
    /\ calls[c].pc = "posting"
    /\ calls' = [calls EXCEPT ![c] = Idle]
    /\ UNCHANGED <<sources, wake, now, downSince>>

PostFails(c) ==
    /\ calls[c].pc = "posting"
    /\ \E w \in Failures : calls' = [calls EXCEPT ![c].pc = "failed", ![c].why = w]
    /\ UNCHANGED <<sources, wake, now, downSince>>

DisableUndated(c) ==                                \* mutant: DisableTime forgotten
    /\ calls[c].pc = "failed"
    /\ LET a == calls[c].addr
       IN  /\ sources' = [sources EXCEPT ![a].IsAlive = FALSE]
           /\ downSince' = [downSince EXCEPT ![a] = IF a \in Alive THEN now ELSE @]
    /\ calls' = [calls EXCEPT ![c] = Idle]
    /\ UNCHANGED <<wake, now>>
Disable(c) ==
    /\ calls[c].pc = "failed"
    /\ LET a == calls[c].addr
       IN  /\ sources' = [sources EXCEPT ![a].IsAlive = FALSE, ![a].DisableTime = now]
           /\ downSince' = [downSince EXCEPT ![a] = IF a \in Alive THEN now ELSE @]
    /\ calls' = [calls EXCEPT ![c] = Idle]
    /\ UNCHANGED <<wake, now>>

RestedEarly(a) == sources[a].DisableTime + DisableTimeout <= now  \* mutant: not Before
Rested(a) == sources[a].DisableTime + DisableTimeout < now

SourcesWatcher ==
    /\ now >= wake
    /\ sources' = [a \in Addresses |->
                     [sources[a] EXCEPT !.IsAlive = @ \/ Rested(a)]]
    /\ wake' = now + WatchPeriod
    /\ UNCHANGED <<calls, now, downSince>>

Tick ==
    /\ now < MaxTime
    /\ now < wake
    /\ \A c \in Callers :
         \/ calls[c].pc = "idle"
         \/ calls[c].pc = "posting" /\ now < calls[c].since + Timeout
    /\ now' = now + 1
    /\ UNCHANGED <<sources, wake, calls, downSince>>

Next ==
    \/ \E c \in Callers : \/ GetSource(c)
                          \/ IncRequests(c)
                          \/ PostSucceeds(c)
                          \/ PostFails(c)
                          \/ Disable(c)
    \/ SourcesWatcher
    \/ Tick

Spec == Init /\ [][Next]_vars

-----------------------------------------------------------------------------
(* Properties *)

InFlight(c, a) == calls[c].pc # "idle" /\ calls[c].addr = a

(* Requests are spread over the sources: GetSource and IncRequests are two *)
(* critical sections, so callers can pick the same source from the same    *)
(* counters, but a source that was never taken out falls behind no other   *)
(* by more than the number of callers.                                     *)
EvenUse ==
    \A a, b \in Addresses :
        downSince[b] = -1 =>
            sources[a].Requests <= sources[b].Requests + Cardinality(Callers)

(* An outage ends: calls that were in flight when a source was taken out   *)
(* can fail later and restart its disable_timeout, but GetSource gives out *)
(* no dead source, so the time out of the list is bounded by one call, one *)
(* disable_timeout and one sleep of the watcher.                           *)
OutageBounded ==
    \A a \in Addresses :
        ~sources[a].IsAlive =>
            now <= downSince[a] + Timeout + DisableTimeout + WatchPeriod

(* The watcher never puts a source back under a call that was sent before  *)
(* the source was taken out, so the failure of such a call can not take    *)
(* the source out again.  Needs ShortCalls.                                *)
NoReviveInFlight ==
    [][\A a \in Addresses :
         (~sources[a].IsAlive /\ sources'[a].IsAlive) =>
            \A c \in Callers : ~InFlight(c, a)]_vars

(* The configured timeout is not above disable_timeout, as in the shipped  *)
(* configuration (3s and 60s).                                             *)
ShortCalls == Timeout <= DisableTimeout

(* The source list keeps the promise of SourcePool: a source is used only  *)
(* while it is in the pool, leaves it by the failure of a use, and comes   *)
(* back only when no use of it is left.  Needs ShortCalls.                 *)
Pool == INSTANCE SourcePool WITH
            up <- Alive,
            using <- [c \in Callers |-> calls[c].addr]

PoolSpec == Pool!Spec
=============================================================================
