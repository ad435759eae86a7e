------------------------ MODULE RadiusServerClaims ------------------------
(* What the documentation says of replies and RadiusServer does not keep.   *)
EXTENDS MCRadiusServer

(* README.md:24: the server "can give out a pool or a given IP address", and *)
(* handler.go:63-71 treats an answer with neither as an error: every         *)
(* Access-Accept carries one of the two.                                     *)
AcceptAssigns == \A a \in replies : a.ip \/ a.pool
=============================================================================
