----------------------------- MODULE MCSystem -----------------------------
(***************************************************************************)
(* System for TLC: identities of a kind are interchangeable.               *)
(***************************************************************************)
EXTENDS System, TLC

SystemSymmetry == Permutations(Node) \cup Permutations(Repo) \cup Permutations(Task)
                  \cup Permutations(Thread) \cup Permutations(Host)
===========================================================================
