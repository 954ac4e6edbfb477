------------------------- MODULE CommandLifecycle -------------------------
(***************************************************************************)
(* What the controller promises for each command it queues, without nodes, *)
(* plans, requests or clocks:                                              *)
(*                                                                         *)
(*   unborn -> queued -> running -> done                                   *)
(*                   \-> withdrawn                                         *)
(*                                                                         *)
(* A command that leaves the queue never comes back.  One that is withdrawn*)
(* before a node took it is never handed to an agent.  It leaves at most   *)
(* one backup in the index, and only by a successful answer.  The panel    *)
(* shows the stage a command is in, or, once it has ended, how it ended;   *)
(* old entries may be forgotten but never change.                          *)
(***************************************************************************)
EXTENDS Integers

CONSTANT CmdId

VARIABLES
    stage,      \* where each command is
    shown,      \* the status the operations page shows, or "none"
    handed,     \* commands an agent has received
    records     \* entries in the backup index

vars == <<stage, shown, handed, records>>

Stages   == {"unborn", "queued", "running", "done", "withdrawn"}
Outcomes == {"success", "warning", "failed", "cancelled"}

Init ==
    /\ stage = [c \in CmdId |-> "unborn"]
    /\ shown = [c \in CmdId |-> "none"]
    /\ handed = {}
    /\ records = [c \in CmdId |-> 0]

\* The page shows status s for the commands of S it has not forgotten.
Show(S, s) ==
    shown' = [c \in CmdId |-> IF c \in S /\ shown[c] # "none" THEN s ELSE shown[c]]

\* A new command is listed; the oldest entries of the page may drop out.
Submit(c) ==
    /\ stage[c] = "unborn"
    /\ stage' = [stage EXCEPT ![c] = "queued"]
    /\ \E kept \in SUBSET CmdId :
         shown' = [d \in CmdId |-> IF d = c THEN "queued"
                                   ELSE IF d \in kept THEN shown[d] ELSE "none"]
    /\ UNCHANGED <<handed, records>>

\* A node takes the command, for the first time or again.
Start(c) ==
    /\ stage[c] \in {"queued", "running"}
    /\ stage' = [stage EXCEPT ![c] = "running"]
    /\ Show({c}, "running")
    /\ UNCHANGED <<handed, records>>

HandOver(c) ==
    /\ stage[c] \in {"running", "done"}
    /\ handed' = handed \cup {c}
    /\ UNCHANGED <<stage, shown, records>>

Answer(c, outcome) ==
    /\ stage[c] = "running" /\ c \in handed
    /\ stage' = [stage EXCEPT ![c] = "done"]
    /\ Show({c}, outcome)
    /\ \/ UNCHANGED records
       \/ outcome = "success" /\ records' = [records EXCEPT ![c] = 1]
    /\ UNCHANGED handed

\* The user stops a queued command, or it waited too long.
Withdraw(S, outcome) ==
    /\ \A c \in S : stage[c] = "queued"
    /\ stage' = [c \in CmdId |-> IF c \in S THEN "withdrawn" ELSE stage[c]]
    /\ Show(S, outcome)
    /\ UNCHANGED <<handed, records>>

\* Another machine takes the node over.
Supersede(S) ==
    /\ \A c \in S : stage[c] \in {"queued", "running"}
    /\ stage' = [c \in CmdId |-> IF c \notin S THEN stage[c]
                                 ELSE IF stage[c] = "queued" THEN "withdrawn"
                                 ELSE "done"]
    /\ Show(S, "cancelled")
    /\ UNCHANGED <<handed, records>>

Erase(c) ==
    /\ records[c] = 1
    /\ records' = [records EXCEPT ![c] = 0]
    /\ UNCHANGED <<stage, shown, handed>>

Next ==
    \/ \E c \in CmdId : \/ Submit(c) \/ Start(c) \/ HandOver(c) \/ Erase(c)
                        \/ \E o \in Outcomes : Answer(c, o)
    \/ \E S \in SUBSET CmdId : \/ Supersede(S)
                               \/ \E o \in {"failed", "cancelled"} : Withdraw(S, o)

Spec == Init /\ [][Next]_vars
===========================================================================
