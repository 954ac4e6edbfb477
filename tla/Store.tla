------------------------------- MODULE Store -------------------------------
(***************************************************************************)
(* internal/store: the controller's state in memory, its copy in           *)
(* state.json, and the temporary file an Update writes before it renames   *)
(* it.  The value of the state is the set of changes applied to it; each   *)
(* change is made by one Update, run by a goroutine (a caller) that holds  *)
(* the lock from its first step to its last.  The process may die between  *)
(* any two steps; what is on disk survives.                                *)
(***************************************************************************)
CONSTANTS
    Change,     \* the changes of the program's Updates, each made at most once
    Nobody      \* no Update runs

ASSUME StoreAssumption == Nobody \notin Change

\* What is in a file while it is being written: no state.
Torn == {Nobody}

VARIABLES
    mem,        \* Store.state
    disk,       \* state.json; {} also when it does not exist yet
    tmp,        \* state.json.tmp
    holder,     \* the change whose Update holds the lock
    step,       \* where that Update is
    before,     \* the state it found, {} when no Update runs
    done,       \* changes whose Update returned nil
    failed      \* changes whose Update returned an error

vars == <<mem, disk, tmp, holder, step, before, done, failed>>

Init ==
    /\ mem = {} /\ disk = {} /\ tmp = {} /\ before = {}
    /\ holder = Nobody /\ step = "idle"
    /\ done = {} /\ failed = {}

-----------------------------------------------------------------------------
(* Update                                                                   *)

\* The lock is taken and fn changes the state in place.
Begin(c) ==
    /\ holder = Nobody /\ c \notin done \cup failed \cup mem
    /\ holder' = c /\ step' = "encode"
    /\ before' = mem
    /\ mem' = mem \cup {c}
    /\ UNCHANGED <<disk, tmp, done, failed>>

\* fn refuses before it has changed anything, as every caller's does.
Refuse(c) ==
    /\ holder = Nobody /\ c \notin done \cup failed \cup mem
    /\ failed' = failed \cup {c}
    /\ UNCHANGED <<mem, disk, tmp, holder, step, before, done>>

At(s) == holder # Nobody /\ step = s

\* The deferred unlock.
Return(outcome) ==
    /\ holder' = Nobody /\ step' = "idle"
    /\ IF outcome = "nil"
       THEN done' = done \cup {holder} /\ UNCHANGED failed
       ELSE failed' = failed \cup {holder} /\ UNCHANGED done
    /\ before' = {}

\* MarshalIndent fails: the state is put back.
EncodeFails ==
    /\ At("encode") /\ Return("error")
    /\ mem' = before
    /\ UNCHANGED <<disk, tmp>>

Encode ==
    /\ At("encode") /\ step' = "write"
    /\ UNCHANGED <<mem, disk, tmp, holder, before, done, failed>>

\* Mutant: state.json itself is rewritten.
WriteBeginsInPlace ==
    /\ At("write") /\ step' = "writing"
    /\ disk' = Torn
    /\ UNCHANGED <<mem, tmp, holder, before, done, failed>>

\* Writing state.json.tmp begins by truncating it.
WriteBegins ==
    /\ At("write") /\ step' = "writing"
    /\ tmp' = Torn
    /\ UNCHANGED <<mem, disk, holder, before, done, failed>>

\* Mutant: the error of WriteFile is dropped.
WriteFailsUnnoticed ==
    /\ At("write") \/ At("writing")
    /\ Return("nil")
    /\ UNCHANGED <<mem, disk, tmp>>

\* The directory or the file cannot be made, or the disk is full.
WriteFails ==
    /\ At("write") \/ At("writing")
    /\ Return("error")
    /\ UNCHANGED <<mem, disk, tmp>>

Write ==
    /\ At("writing") /\ step' = "rename"
    /\ tmp' = mem
    /\ UNCHANGED <<mem, disk, holder, before, done, failed>>

RenameFails ==
    /\ At("rename") /\ Return("error")
    /\ UNCHANGED <<mem, disk, tmp>>

\* Mutant: the Update returns without renaming.
RenameForgotten ==
    /\ At("rename") /\ step' = "return"
    /\ UNCHANGED <<mem, disk, tmp, holder, before, done, failed>>

Rename ==
    /\ At("rename") /\ step' = "return"
    /\ disk' = tmp /\ tmp' = {}
    /\ UNCHANGED <<mem, holder, before, done, failed>>

Succeed ==
    /\ At("return") /\ Return("nil")
    /\ UNCHANGED <<mem, disk, tmp>>

-----------------------------------------------------------------------------
\* The process dies and Open reads state.json.
Reopen ==
    /\ disk # Torn
    /\ mem' = disk
    /\ holder' = Nobody /\ step' = "idle" /\ before' = {}
    /\ UNCHANGED <<disk, tmp, done, failed>>

\* What Snapshot returns: it waits for the lock, so it never sees a state that
\* an Update is still working on.
Visible == IF holder = Nobody THEN mem ELSE before

Next ==
    \/ \E c \in Change : Begin(c) \/ Refuse(c)
    \/ Encode \/ EncodeFails
    \/ WriteBegins \/ Write \/ WriteFails
    \/ Rename \/ RenameFails
    \/ Succeed
    \/ Reopen

Spec == Init /\ [][Next]_vars

-----------------------------------------------------------------------------
(* Properties.                                                              *)

\* Every variable keeps its type; state.json is never half written.
TypeOK ==
    /\ mem \in SUBSET Change /\ disk \in SUBSET Change /\ before \in SUBSET Change
    /\ tmp \in (SUBSET Change) \cup {Torn}
    /\ holder \in Change \cup {Nobody}
    /\ step \in {"idle", "encode", "write", "writing", "rename", "return"}
    /\ done \subseteq Change /\ failed \subseteq Change

\* An Update that returned nil is in state.json, whatever failed or died since.
AcknowledgedIsDurable == done \subseteq disk

\* Memory may run ahead of state.json only by changes whose callers were told
\* that they failed, and by the one being made; it never falls behind.
DriftIsFailed ==
    /\ disk \subseteq mem
    /\ mem \ disk \subseteq failed \cup {holder}

\* The inductive invariant behind both: how far the Update that holds the lock
\* has come fits what is in memory, in the temporary file and on disk.
StoreInv ==
    /\ TypeOK /\ AcknowledgedIsDurable /\ DriftIsFailed
    /\ holder = Nobody <=> step = "idle"
    /\ holder # Nobody => /\ holder \notin done
                          /\ mem = before \cup {holder} /\ holder \notin before
    /\ step \in {"encode", "write", "writing", "rename"} => holder \notin disk
    /\ step = "rename" => tmp = mem
    /\ step = "return" => disk = mem

Atomic == INSTANCE AtomicStore WITH value <- Visible, promised <- done

\* The store keeps the promises of AtomicStore.
ImplementsAtomicStore == Atomic!Spec
=============================================================================
