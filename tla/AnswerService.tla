---------------------------- MODULE AnswerService ----------------------------
(***************************************************************************)
(* What Api.Get promises the RADIUS handlers, with no word of sources,      *)
(* counters and HTTP: per request hash the last answer is remembered until  *)
(* it expires; a call is answered from it while it is current, or by the    *)
(* API, or, when the API gives nothing, by what was remembered when the     *)
(* call began; it is refused only if that was nothing; and it ends.         *)
(* An answer that assigns neither address nor pool is an answer like any    *)
(* other and takes the place of the one before.                             *)
(***************************************************************************)
EXTENDS Integers

CONSTANTS
    Keys, Callers, NoItem,
    Leases,      \* the leases of the API's answers
    Grants,      \* does an answer assign an address or a pool
    Remembers,   \* is anything remembered at all
    Lifetime     \* so long is an answer remembered; 0 or less: for ever

VARIABLES
    remembered,  \* key -> the last answer and when it expires (0: never)
    asks,        \* the calls
    now

vars == <<remembered, asks, now>>

NoAnswer == [born |-> 0, lease |-> 0, grant |-> FALSE, Time |-> 0]

Idle == [pc |-> "idle", key |-> NoItem, known |-> FALSE, response |-> NoAnswer, kind |-> "none"]

Init ==
    /\ remembered = [k \in Keys |-> NoItem]
    /\ asks = [c \in Callers |-> Idle]
    /\ now = 0

Expired(k) == remembered[k].Expiration > 0 /\ now > remembered[k].Expiration

Known(k) == remembered[k] # NoItem /\ ~Expired(k)

Ask(c, k) ==
    /\ asks[c].pc = "idle"
    /\ asks' = [asks EXCEPT ![c] =
                  [pc |-> "asking", key |-> k, known |-> Known(k), kind |-> "none",
                   response |-> IF Known(k) THEN remembered[k].Object ELSE NoAnswer]]
    /\ UNCHANGED <<remembered, now>>

ServeCurrent(c, k) ==
    /\ asks[c].pc = "idle"
    /\ Known(k)
    /\ remembered[k].Object.Time > now
    /\ asks' = [asks EXCEPT ![c] = [pc |-> "done", key |-> k, known |-> TRUE, kind |-> "hit",
                                    response |-> remembered[k].Object]]
    /\ UNCHANGED <<remembered, now>>

(* The API has answered, now or some time ago. *)
Answered(c) ==
    /\ asks[c].pc = "asking"
    /\ \E b \in 0 .. now, l \in Leases, g \in Grants :
         asks' = [asks EXCEPT ![c].pc = "answered",
                              ![c].response = [born |-> b, lease |-> l, grant |-> g, Time |-> 0]]
    /\ UNCHANGED <<remembered, now>>

(* It may be served unasked for a while, not longer than its lease. *)
Remember(c) ==
    /\ asks[c].pc = "answered"
    /\ LET l == asks[c].response.lease
       IN  \E t \in IF Remembers THEN {now + l} \cup now .. now + l ELSE {0} :
             LET x == [asks[c].response EXCEPT !.Time = t]
             IN  /\ asks' = [asks EXCEPT ![c].pc = "done", ![c].kind = "api", ![c].response = x]
                 /\ remembered' =
                      IF ~Remembers THEN remembered
                      ELSE [remembered EXCEPT ![asks[c].key] =
                              [Object     |-> x,
                               Expiration |-> IF Lifetime > 0 THEN now + Lifetime ELSE 0]]
    /\ UNCHANGED now

Recall(c) ==
    /\ asks[c].pc = "asking"
    /\ asks[c].known
    /\ asks' = [asks EXCEPT ![c].pc = "done", ![c].kind = "stale"]
    /\ UNCHANGED <<remembered, now>>

Refuse(c) ==
    /\ asks[c].pc = "asking"
    /\ ~asks[c].known
    /\ asks' = [asks EXCEPT ![c].pc = "done", ![c].kind = "error"]
    /\ UNCHANGED <<remembered, now>>

Leave(c) ==
    /\ asks[c].pc = "done"
    /\ asks' = [asks EXCEPT ![c] = Idle]
    /\ UNCHANGED <<remembered, now>>

(* Only what has expired is forgotten. *)
Forget ==
    /\ \E K \in SUBSET {k \in Keys : remembered[k] # NoItem /\ Expired(k)} :
         remembered' = [k \in Keys |-> IF k \in K THEN NoItem ELSE remembered[k]]
    /\ UNCHANGED <<asks, now>>

Tick ==
    /\ now' = now + 1
    /\ UNCHANGED <<remembered, asks>>

Next ==
    \/ \E c \in Callers : \/ \E k \in Keys : Ask(c, k) \/ ServeCurrent(c, k)
                          \/ Answered(c) \/ Remember(c) \/ Recall(c) \/ Refuse(c) \/ Leave(c)
    \/ Forget
    \/ Tick

Spec == Init /\ [][Next]_vars

(* Every call ends. *)
CallsEnd == \A c \in Callers : asks[c].pc # "idle" ~> asks[c].pc = "idle"
=============================================================================
