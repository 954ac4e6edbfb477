--------------------------- MODULE MCController ---------------------------
(***************************************************************************)
(* Controller for TLC: identities of a kind are interchangeable.           *)
(***************************************************************************)
EXTENDS Controller, TLC

Symmetry == Permutations(Node) \cup Permutations(Repo) \cup Permutations(Task)
            \cup Permutations(Thread)
===========================================================================
