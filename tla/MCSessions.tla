----------------------------- MODULE MCSessions -----------------------------
(***************************************************************************)
(* Sessions for TLC: the requests of a kind are interchangeable, and so    *)
(* are the launches.                                                       *)
(***************************************************************************)
EXTENDS Sessions, TLC

SessionsSymmetry == Permutations(NewPassword) \cup Permutations(Launch)
===========================================================================
