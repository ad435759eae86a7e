--------------------------- MODULE SourcesClaims ---------------------------
(* What the shipped configuration file server/radius.server.conf.yml says   *)
(* of the source list and Sources does not keep.                            *)
EXTENDS MCSources

(* conf.yml:36: the addresses "are used evenly, on the round-robin          *)
(* principle": with no call under way, sources that were always in the list *)
(* differ by at most one request.                                           *)
RoundRobin ==
    (\A c \in Callers : calls[c].pc = "idle") =>
        \A a, b \in Addresses :
            (downSince[a] = -1 /\ downSince[b] = -1) =>
                sources[a].Requests <= sources[b].Requests + 1

(* conf.yml:52: unavailability is "HTTP errors >= 500 and problems with the *)
(* connection": only such a failure takes a source out of the list.         *)
OnlyUnavailableTakenOut ==
    [][\A a \in Addresses :
         (sources[a].IsAlive /\ ~sources'[a].IsAlive) =>
            \E c \in Callers : /\ InFlight(c, a)
                               /\ calls[c].why \in {"unreachable", "http_5xx"}]_vars
=============================================================================
