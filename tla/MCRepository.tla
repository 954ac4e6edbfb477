---------------------------- MODULE MCRepository ----------------------------
(***************************************************************************)
(* Repository for TLC: the two kinds of repository URL.                     *)
(***************************************************************************)
EXTENDS Repository

RootBase == <<>>        \* https://dav.example
PathBase == <<"dav">>   \* https://example/dav
=============================================================================
