------------------------------ MODULE MCBroker ------------------------------
(***************************************************************************)
(* Broker with named objects.  Addresses, keys and names are each          *)
(* interchangeable.                                                        *)
(***************************************************************************)
EXTENDS Broker, TLC

Symmetry ==
    Permutations(Clients) \cup Permutations(Queues) \cup Permutations(Routes)
        \cup Permutations(Keys) \cup Permutations(QueueNames)
        \cup Permutations(RouteNames)
=============================================================================
