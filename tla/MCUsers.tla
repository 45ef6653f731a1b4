------------------------------ MODULE MCUsers -------------------------------
(***************************************************************************)
(* Users with an administrator whose name in the configuration changes.    *)
(***************************************************************************)
EXTENDS Users, TLC

CONSTANTS eagle, a, b, secret, word

MCAdmins == {[name |-> eagle, password |-> secret],
             [name |-> a, password |-> secret]}

Symmetry == Permutations(Clients)
=============================================================================
