---------------------------- MODULE AtomicStore ----------------------------
(***************************************************************************)
(* What internal/store promises its callers: a value that readers see only *)
(* whole, changed by one Update at a time.  An Update that returned nil    *)
(* survives every restart.  An Update that returned an error, or never     *)
(* returned, may have changed the value, and a restart may undo it.        *)
(***************************************************************************)
CONSTANT Change         \* what the Updates apply, each at most once

VARIABLES
    value,      \* changes a reader sees
    promised    \* changes whose Update returned nil

Init == value = {} /\ promised = {}

Succeed(c) ==
    /\ value' = value \cup {c}
    /\ promised' = promised \cup {c}

Fail(c) ==
    /\ value' = value \cup {c}
    /\ UNCHANGED promised

\* Every promise is kept; what else is undone depends on where writing failed,
\* and the change that was being made may have got through.
Reopen ==
    /\ \E kept \in SUBSET Change :
         /\ promised \subseteq kept /\ value' = kept
         /\ \A c, d \in kept \ value : c = d
    /\ UNCHANGED promised

Next == (\E c \in Change : Succeed(c) \/ Fail(c)) \/ Reopen

Spec == Init /\ [][Next]_<<value, promised>>
=============================================================================
