------------------------------ MODULE MCStorage ------------------------------
(***************************************************************************)
(* Storage with interchangeable processes and messages.                    *)
(***************************************************************************)
EXTENDS Storage, TLC

Symmetry == Permutations(Pids) \cup Permutations(Messages)
=============================================================================
