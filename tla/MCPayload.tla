----------------------------- MODULE MCPayload ------------------------------
(***************************************************************************)
(* Payload with a route to two queues, and two queues beside it.           *)
(***************************************************************************)
EXTENDS Payload, TLC

CONSTANTS q1, q2

MCBound == <<q1, q2>>

Symmetry == Permutations(Objects) \cup Permutations(Clients)
=============================================================================
