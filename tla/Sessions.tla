------------------------------ MODULE Sessions ------------------------------
(***************************************************************************)
(* The controller's password and sessions on top of internal/store: main   *)
(* opens the vault and settles the password in force, handleLogin,         *)
(* handleLogout, handleChangePassword and handleRevokeSessions run beside  *)
(* each other, each as the steps between which it holds no lock.  The      *)
(* process may die at any point; state.json and master.key survive.        *)
(*                                                                         *)
(* Of the controller's Updates these are the ones that touch the settings;  *)
(* any other one writes the whole state too, as a revocation does.         *)
(*                                                                         *)
(* A password is named by what brought it in: a request to change it, or   *)
(* a launch of the process, which finds one in its environment or makes    *)
(* one up.                                                                 *)
(***************************************************************************)
EXTENDS Store, Naturals, FiniteSets

CONSTANTS
    Launch,         \* launches of the process
    NewPassword,    \* requests to change the password
    Revocation,     \* requests to revoke the sessions
    Login           \* requests to log in; each makes its own token

Password   == NewPassword \cup Launch
EpochChange == NewPassword \cup Revocation

\* What master.key can be besides a key: not there, shorter than 32 bytes.
\* (Nobody stands for no token, no password, and the key of none.)
Missing == "missing"
Short   == "short"

ASSUME SessionsAssumption ==
    /\ Change = Password \cup Revocation
    /\ NewPassword \cap (Launch \cup Revocation) = {} /\ Launch \cap Revocation = {}
    /\ Login \cap Change = {}
    /\ {Missing, Short} \cap Launch = {}
    /\ IsFiniteSet(Change)

VARIABLES
    process,    \* how far main has come
    launch,     \* the launch that runs, or ran last
    launched,   \* launches so far
    key,        \* master.key: the launch that made it, or
    sealed,     \* the key each password was encrypted with
    password,   \* server.adminPassword
    epoch,      \* server.sessionEpoch
    session,    \* server.sessions: the epoch of each login's token
    pc,         \* where each request is
    ticket,     \* history: the order in which Updates changed the state
    begun,      \* history: how many did
    racing,     \* history: changes of the password that overlapped another
                \* in this launch
    since       \* history: the revocations and changes that had taken effect
                \* when a login's token was issued

mainVars    == <<process, launch, launched, key>>
serverVars  == <<password, epoch, session>>
historyVars == <<ticket, begun, racing, since>>
sessionsVars == <<vars, mainVars, sealed, serverVars, pc, historyVars>>

SessionsInit ==
    /\ Init
    /\ process = "down" /\ launch = Nobody /\ launched = {} /\ key = Missing
    /\ sealed = [p \in Password |-> Nobody]
    /\ password = Nobody /\ epoch = 0 /\ session = [l \in Login |-> Nobody]
    /\ pc = [r \in EpochChange \cup Login |-> "new"]
    /\ ticket = [c \in Change |-> 0] /\ begun = 0
    /\ racing = {} /\ since = [l \in Login |-> {}]

-----------------------------------------------------------------------------
\* Settings.AdminPasswordEncrypted and AdminSessionEpoch of a state: the last
\* change of the password counts, and every change of the epoch.
HasPassword(state, p) ==
    /\ p \in state \cap Password
    /\ \A q \in state \cap Password : ticket[q] <= ticket[p]

HasNoPassword(state) == state \cap Password = {}

EpochIn(state) == Cardinality(state \cap EpochChange)

\* What has taken effect in the server's memory in this launch.
Effective == {c \in NewPassword : pc[c] = "ok"}
        \cup {r \in Revocation : pc[r] \in {"update", "ok"}}

\* Requests that have checked the old password and not yet returned.
Changing == {c \in NewPassword : pc[c] = "update"}

-----------------------------------------------------------------------------
(* main.                                                                    *)

\* Mutant: every launch makes a new key.
OpenVaultAnew(l) ==
    /\ process = "down" /\ l \notin launched
    /\ launch' = l /\ launched' = launched \cup {l}
    /\ key' = Short /\ process' = "key"
    /\ UNCHANGED <<vars, sealed, serverVars, pc, historyVars>>

\* vault.Open reads master.key, or begins to write one.
OpenVault(l) ==
    /\ process = "down" /\ l \notin launched
    /\ launch' = l /\ launched' = launched \cup {l}
    /\ \/ key = Missing /\ key' = Short /\ process' = "key"
       \/ key \in Launch /\ process' = "open" /\ UNCHANGED key
    /\ UNCHANGED <<vars, sealed, serverVars, pc, historyVars>>

WriteKey ==
    /\ process = "key"
    /\ key' = launch /\ process' = "open"
    /\ UNCHANGED <<vars, launch, launched, sealed, serverVars, pc, historyVars>>

\* The stored password is taken, if there is one that the key decrypts; a
\* missing one is about to be stored.
ChoosePassword ==
    /\ process = "open"
    /\ \/ /\ HasNoPassword(mem)
          /\ password' = launch /\ process' = "save"
       \/ \E p \in Password :
            /\ HasPassword(mem, p)
            /\ password' = IF sealed[p] = key THEN p ELSE launch
            /\ process' = "ready"
    /\ UNCHANGED <<vars, launch, launched, key, sealed, epoch, session, pc, historyVars>>

\* The handlers are served, whether or not the password could be stored.
Serve ==
    /\ \/ process = "ready"
       \/ process = "save" /\ launch \in done \cup failed
    /\ process' = "serve"
    /\ epoch' = EpochIn(mem)
    /\ UNCHANGED <<vars, launch, launched, key, sealed, password, session, pc, historyVars>>

-----------------------------------------------------------------------------
(* Updates.                                                                 *)

MayUpdate(c) ==
    \/ c = launch /\ process = "save"
    \/ c \in EpochChange /\ pc[c] = "update"

UpdateBegins(c) ==
    /\ MayUpdate(c) /\ Begin(c)
    /\ ticket' = [ticket EXCEPT ![c] = begun + 1] /\ begun' = begun + 1
    /\ sealed' = IF c \in Password THEN [sealed EXCEPT ![c] = key] ELSE sealed
    /\ UNCHANGED <<mainVars, serverVars, pc, racing, since>>

UpdateRuns ==
    /\ \/ Encode \/ EncodeFails
       \/ WriteBegins \/ Write \/ WriteFails
       \/ Rename \/ RenameFails
       \/ Succeed
    /\ UNCHANGED <<mainVars, sealed, serverVars, pc, historyVars>>

-----------------------------------------------------------------------------
(* Handlers.  Each begins while the process serves.                         *)

Step(r, from, to) ==
    /\ process = "serve" /\ pc[r] = from
    /\ pc' = [pc EXCEPT ![r] = to]

NoSessions == [l \in Login |-> Nobody]

\* handleLogin: the password is right; the token is issued under another lock.
LoginChecks(l) ==
    /\ Step(l, "new", "checked")
    /\ UNCHANGED <<vars, mainVars, sealed, serverVars, historyVars>>

IssueSession(l) ==
    /\ Step(l, "checked", "ok")
    /\ session' = [session EXCEPT ![l] = epoch]
    /\ since' = [since EXCEPT ![l] = Effective]
    /\ UNCHANGED <<vars, mainVars, sealed, password, epoch, ticket, begun, racing>>

Logout(l) ==
    /\ process = "serve" /\ session[l] # Nobody
    /\ session' = [session EXCEPT ![l] = Nobody]
    /\ UNCHANGED <<vars, mainVars, sealed, password, epoch, pc, historyVars>>

\* validSession: what the other handlers ask of a request's cookie.
ValidSession(l) == session[l] # Nobody /\ session[l] = epoch

\* handleChangePassword: the current password is right.
ChangeChecks(c) ==
    /\ Step(c, "new", "update")
    /\ racing' = IF Changing = {} THEN racing ELSE racing \cup Changing \cup {c}
    /\ UNCHANGED <<vars, mainVars, sealed, serverVars, ticket, begun, since>>

\* Mutant: the new password is in force before it is stored.
ApplyPasswordEarly(c) ==
    /\ Step(c, "update", "ok")
    /\ password' = c /\ session' = NoSessions /\ epoch' = epoch + 1
    /\ UNCHANGED <<vars, mainVars, sealed, historyVars>>

\* Mutant: the sessions stay.
ApplyPasswordOnly(c) ==
    /\ c \in done /\ Step(c, "update", "ok")
    /\ password' = c
    /\ UNCHANGED <<vars, mainVars, sealed, session, epoch, historyVars>>

\* The Update returned nil.
ApplyPassword(c) ==
    /\ c \in done /\ Step(c, "update", "ok")
    /\ password' = c /\ session' = NoSessions /\ epoch' = epoch + 1
    /\ UNCHANGED <<vars, mainVars, sealed, historyVars>>

\* Encrypt or the Update failed: status 500.
ChangeFails(c) ==
    /\ c \in failed \/ ticket[c] = 0
    /\ Step(c, "update", "failed")
    /\ UNCHANGED <<vars, mainVars, sealed, serverVars, historyVars>>

\* handleRevokeSessions: memory first, then an Update whatever comes of it.
RevokeSessions(r) ==
    /\ Step(r, "new", "update")
    /\ session' = NoSessions /\ epoch' = epoch + 1
    /\ UNCHANGED <<vars, mainVars, sealed, password, historyVars>>

RevokeReturns(r) ==
    /\ r \in done \cup failed /\ Step(r, "update", "ok")
    /\ UNCHANGED <<vars, mainVars, sealed, serverVars, historyVars>>

-----------------------------------------------------------------------------
\* The process is killed; the next launch opens the same data directory.
\* Bound: the last launch is not killed.
Kill ==
    /\ process # "down" /\ launched # Launch /\ Reopen
    /\ process' = "down"
    /\ password' = Nobody /\ epoch' = 0 /\ session' = NoSessions
    /\ pc' = [r \in EpochChange \cup Login |->
                IF pc[r] \in {"checked", "update"} THEN "dead" ELSE pc[r]]
    /\ racing' = {}
    /\ UNCHANGED <<launch, launched, key, sealed, ticket, begun, since>>

SessionsNext ==
    \/ \E l \in Launch : OpenVault(l)
    \/ WriteKey \/ ChoosePassword \/ Serve
    \/ \E c \in Change : UpdateBegins(c)
    \/ UpdateRuns
    \/ \E l \in Login : LoginChecks(l) \/ IssueSession(l) \/ Logout(l)
    \/ \E c \in NewPassword : ChangeChecks(c) \/ ApplyPassword(c) \/ ChangeFails(c)
    \/ \E r \in Revocation : RevokeSessions(r) \/ RevokeReturns(r)
    \/ Kill

SessionsSpec == SessionsInit /\ [][SessionsNext]_sessionsVars

-----------------------------------------------------------------------------
(* Properties.                                                              *)

\* Every variable keeps its type.
SessionsTypeOK ==
    /\ process \in {"down", "key", "open", "save", "ready", "serve"}
    /\ launch \in Launch \cup {Nobody} /\ launched \subseteq Launch
    /\ key \in Launch \cup {Missing, Short}
    /\ sealed \in [Password -> Launch \cup {Nobody}]
    /\ password \in Password \cup {Nobody}
    /\ epoch \in Nat /\ session \in [Login -> Nat \cup {Nobody}]
    /\ pc \in [EpochChange \cup Login ->
               {"new", "checked", "update", "ok", "failed", "dead"}]
    /\ ticket \in [Change -> Nat] /\ begun \in Nat
    /\ racing \subseteq NewPassword
    /\ since \in [Login -> SUBSET EpochChange]

\* A session that is accepted was issued after every revocation and every
\* change of the password that has taken effect, although revocations write
\* memory first and changes write the file first.
AcceptedIsIssuedSince ==
    \A l \in Login : ValidSession(l) => Effective \subseteq since[l]

\* The password in force is the last one stored, across restarts too, unless
\* the request that stored a later one failed, is still running, or overlapped
\* another; and a changed password is in force only if it survives a restart.
PasswordInForce ==
    process = "serve" =>
        /\ \A p \in mem \cap Password :
             ticket[p] > ticket[password] => p \in failed \cup racing \cup Changing
        /\ password \in NewPassword => password \in disk

\* Whatever is stored can be decrypted with the master.key of this and every
\* later launch: the password of the environment never comes back.
StoredIsReadable ==
    \A p \in disk \cap Password : key \in Launch /\ sealed[p] = key

\* The inductive invariant, part by part.
\* Before the handlers are served nothing is in progress but main's own Update.
MainInv ==
    /\ process # "serve" =>
         /\ session = NoSessions
         /\ \A r \in EpochChange \cup Login : pc[r] \notin {"checked", "update"}
    /\ process \in {"down", "key", "open", "ready"} => holder = Nobody /\ mem = disk
    /\ process = "key" => key = Short
    /\ process # "down" => launch \in Launch
    /\ process \in {"open", "save", "ready", "serve"} => key \in Launch
    /\ process = "serve" => password \in Password
    /\ process = "save" => password = launch /\ mem \cap Password \subseteq {launch}
    /\ process = "ready" => HasPassword(mem, password)

\* Tickets tell the order of the Updates.
TicketInv ==
    /\ \A c \in Change : ticket[c] <= begun /\ (c \in mem => ticket[c] > 0)
    /\ \A c \in NewPassword : pc[c] = "new" => ticket[c] = 0

\* A password stored after that of a change in progress overlapped it.
RacingInv ==
    /\ \A c, d \in Changing : c # d => c \in racing
    /\ \A c \in Changing, d \in Password :
         0 < ticket[c] /\ ticket[c] < ticket[d] => d \in racing

\* Every token in the map is of the current epoch.
SessionInv ==
    \A l \in Login : session[l] # Nobody =>
        session[l] = epoch /\ Effective \subseteq since[l]

SealedInv == \A p \in mem \cap Password : key \in Launch /\ sealed[p] = key

SessionsInv ==
    /\ StoreInv /\ SessionsTypeOK
    /\ MainInv /\ TicketInv /\ RacingInv /\ SessionInv /\ SealedInv
    /\ PasswordInForce

=============================================================================
