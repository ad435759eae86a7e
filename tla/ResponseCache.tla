--------------------------- MODULE ResponseCache ---------------------------
(***************************************************************************)
(* The cache of API answers: CacheApi (api/cache/init.go) over the vendored *)
(* go-cache.  Each operation runs under the cache's lock and is one step.   *)
(***************************************************************************)
EXTENDS Integers

CONSTANTS
    Keys,           \* request hashes
    NoItem,         \* stands for "no entry under this key"
    ExpireTimeout   \* caching.expire_timeout

VARIABLES
    items,  \* key -> Object (the stored answer) and Expiration (0: never)
    now     \* the clock

Init == items = [k \in Keys |-> NoItem]

(* A zero expire_timeout becomes "never", like a negative one. *)
defaultExpiration == IF ExpireTimeout = 0 THEN -1 ELSE ExpireTimeout

NeverExpired(item) == FALSE                         \* mutant: age not looked at
Expired(item) == item.Expiration > 0 /\ now > item.Expiration

Found(k) == items[k] # NoItem /\ ~Expired(items[k])

Get(k) == items[k].Object

SetDefault(k, x) ==
    items' = [items EXCEPT ![k] =
                [Object     |-> x,
                 Expiration |-> IF defaultExpiration > 0
                                THEN now + defaultExpiration ELSE 0]]

(* The janitor's pass; its ten minutes are not modelled, it may run whenever *)
(* there is something to delete.                                             *)
DeleteExpired ==
    /\ \E k \in Keys : items[k] # NoItem /\ Expired(items[k])
    /\ items' = [k \in Keys |-> IF Found(k) THEN items[k] ELSE NoItem]
=============================================================================
