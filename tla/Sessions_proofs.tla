-------------------------- MODULE Sessions_proofs --------------------------
(***************************************************************************)
(* Proofs about Store, for any set of changes, and about Sessions, whose    *)
(* server is built on it, for any number of launches and requests.         *)
(***************************************************************************)
EXTENDS Sessions, TLAPS, FiniteSetTheorems

-----------------------------------------------------------------------------
(* The store.                                                               *)

\* An empty store satisfies the invariant.
LEMMA InitInv == Init => StoreInv
BY StoreAssumption DEF Init, StoreInv, TypeOK, AcknowledgedIsDurable, DriftIsFailed

\* Every step of an Update, every failure and every crash keeps the invariant.
LEMMA StepInv == StoreInv /\ [Next]_vars => StoreInv'
<1> SUFFICES ASSUME StoreInv, [Next]_vars PROVE StoreInv'
  OBVIOUS
<1> USE StoreAssumption
    DEF StoreInv, TypeOK, AcknowledgedIsDurable, DriftIsFailed, At, Return
<1>1. ASSUME NEW c \in Change, Begin(c) PROVE StoreInv'
  BY <1>1 DEF Begin
<1>2. ASSUME NEW c \in Change, Refuse(c) PROVE StoreInv'
  BY <1>2 DEF Refuse
<1>3. CASE Encode
  BY <1>3 DEF Encode
<1>4. CASE EncodeFails
  BY <1>4 DEF EncodeFails
<1>5. CASE WriteBegins
  BY <1>5 DEF WriteBegins, Torn
<1>6. CASE Write
  BY <1>6 DEF Write
<1>7. CASE WriteFails
  BY <1>7 DEF WriteFails
<1>8. CASE Rename
  BY <1>8 DEF Rename
<1>9. CASE RenameFails
  BY <1>9 DEF RenameFails
<1>10. CASE Succeed
  BY <1>10 DEF Succeed
<1>11. CASE Reopen
  BY <1>11 DEF Reopen
<1>12. CASE UNCHANGED vars
  BY <1>12 DEF vars
<1> QED
  BY <1>1, <1>2, <1>3, <1>4, <1>5, <1>6, <1>7, <1>8, <1>9, <1>10, <1>11, <1>12
  DEF Next

\* The stage of the running Update always fits memory, temporary file and disk.
THEOREM StoreInvariant == Spec => []StoreInv
<1> QED
  BY InitInv, StepInv, PTL DEF Spec

\* An Update that returned nil survives every later failure and crash.
THEOREM AcknowledgedSurvives == Spec => []AcknowledgedIsDurable
<1>1. StoreInv => AcknowledgedIsDurable
  BY DEF StoreInv
<1> QED
  BY <1>1, StoreInvariant, PTL

\* Memory is ahead of disk only by changes reported as failed, or in progress.
THEOREM DriftWasReported == Spec => []DriftIsFailed
<1>1. StoreInv => DriftIsFailed
  BY DEF StoreInv
<1> QED
  BY <1>1, StoreInvariant, PTL

\* A step of the store is a step of AtomicStore, or changes nothing it shows.
LEMMA StepRefines ==
    StoreInv /\ [Next]_vars => [Atomic!Next]_<<Visible, done>>
<1> SUFFICES ASSUME StoreInv, Next
             PROVE  Atomic!Next \/ UNCHANGED <<Visible, done>>
  BY DEF vars, Visible
<1> USE StoreAssumption
    DEF StoreInv, TypeOK, AcknowledgedIsDurable, DriftIsFailed, At, Return, Visible
<1>1. ASSUME NEW c \in Change, Begin(c) PROVE UNCHANGED <<Visible, done>>
  BY <1>1 DEF Begin
<1>2. ASSUME NEW c \in Change, Refuse(c) PROVE UNCHANGED <<Visible, done>>
  BY <1>2 DEF Refuse
<1>3. CASE Encode \/ WriteBegins \/ Write \/ Rename
  BY <1>3 DEF Encode, WriteBegins, Write, Rename
<1>4. CASE EncodeFails
  BY <1>4 DEF EncodeFails
<1>5. CASE WriteFails \/ RenameFails
  <2>1. Atomic!Fail(holder)
    BY <1>5 DEF WriteFails, RenameFails, Atomic!Fail
  <2> QED
    BY <2>1, <1>5 DEF Atomic!Next, WriteFails, RenameFails
<1>6. CASE Succeed
  <2>1. Atomic!Succeed(holder)
    BY <1>6 DEF Succeed, Atomic!Succeed
  <2> QED
    BY <2>1, <1>6 DEF Atomic!Next, Succeed
<1>7. CASE Reopen
  <2>1. Atomic!Reopen
    <3>1. disk \subseteq Visible \cup (Change \cap {holder})
      BY <1>7
    <3>2. Change \cap {holder} \in SUBSET Change
      OBVIOUS
    <3>3. Visible' = disk /\ UNCHANGED done
      BY <1>7 DEF Reopen
    <3> QED
      BY <3>1, <3>2, <3>3 DEF Atomic!Reopen
  <2> QED
    BY <2>1 DEF Atomic!Next
<1> QED
  BY <1>1, <1>2, <1>3, <1>4, <1>5, <1>6, <1>7 DEF Next

\* The store implements AtomicStore: promises are kept through every failure.
THEOREM StoreImplementsAtomicStore == Spec => ImplementsAtomicStore
<1>1. Init => Atomic!Init
  BY DEF Init, Atomic!Init, Visible
<1> QED
  BY <1>1, StoreInvariant, StepRefines, PTL
  DEF Spec, ImplementsAtomicStore, Atomic!Spec

\* Readers see what was promised.
PromisedIsVisible == done \subseteq Visible

\* Whatever implements AtomicStore shows its readers every promised change,
\* also after a restart that undid others.
THEOREM PromisesAreVisible == Atomic!Spec => []PromisedIsVisible
<1>1. Atomic!Init => PromisedIsVisible
  BY DEF Atomic!Init, PromisedIsVisible
<1>2. PromisedIsVisible /\ [Atomic!Next]_<<Visible, done>> => PromisedIsVisible'
  <2> SUFFICES ASSUME PromisedIsVisible, [Atomic!Next]_<<Visible, done>>
               PROVE  done' \subseteq Visible'
    BY DEF PromisedIsVisible
  <2> USE DEF PromisedIsVisible
  <2>1. ASSUME NEW c \in Change, Atomic!Succeed(c) \/ Atomic!Fail(c)
        PROVE  done' \subseteq Visible'
    BY <2>1 DEF Atomic!Succeed, Atomic!Fail
  <2>2. CASE Atomic!Reopen
    BY <2>2 DEF Atomic!Reopen
  <2>3. CASE UNCHANGED <<Visible, done>>
    BY <2>3
  <2> QED
    BY <2>1, <2>2, <2>3 DEF Atomic!Next
<1> QED
  BY <1>1, <1>2, PTL DEF Atomic!Spec

-----------------------------------------------------------------------------
(* The server on it.                                                        *)

\* Every step of the server is a step of the store, or leaves it alone.
LEMMA SessionsStepIsStoreStep == [SessionsNext]_sessionsVars => [Next]_vars
<1> SUFFICES ASSUME SessionsNext PROVE [Next]_vars
  BY DEF sessionsVars
<1>1. ASSUME NEW l \in Launch, OpenVault(l) PROVE UNCHANGED vars
  BY <1>1 DEF OpenVault
<1>2. CASE WriteKey \/ ChoosePassword \/ Serve
  BY <1>2 DEF WriteKey, ChoosePassword, Serve
<1>3. ASSUME NEW c \in Change, UpdateBegins(c) PROVE Next
  BY <1>3 DEF UpdateBegins, Next
<1>4. CASE UpdateRuns
  BY <1>4 DEF UpdateRuns, Next
<1>5. ASSUME NEW l \in Login, LoginChecks(l) \/ IssueSession(l) \/ Logout(l)
      PROVE  UNCHANGED vars
  BY <1>5 DEF LoginChecks, IssueSession, Logout
<1>6. ASSUME NEW c \in NewPassword, ChangeChecks(c) \/ ApplyPassword(c) \/ ChangeFails(c)
      PROVE  UNCHANGED vars
  BY <1>6 DEF ChangeChecks, ApplyPassword, ChangeFails
<1>7. ASSUME NEW r \in Revocation, RevokeSessions(r) \/ RevokeReturns(r)
      PROVE  UNCHANGED vars
  BY <1>7 DEF RevokeSessions, RevokeReturns
<1>8. CASE Kill
  BY <1>8 DEF Kill, Next
<1> QED
  BY <1>1, <1>2, <1>3, <1>4, <1>5, <1>6, <1>7, <1>8 DEF SessionsNext

\* A controller that has never run satisfies the invariant.
LEMMA SessionsInitInv == SessionsInit => SessionsInv
<1> SUFFICES ASSUME SessionsInit PROVE SessionsInv
  OBVIOUS
<1>1. StoreInv
  BY InitInv DEF SessionsInit
<1>2. SessionsTypeOK
  BY DEF SessionsInit, SessionsTypeOK, EpochChange
<1>3. MainInv /\ TicketInv /\ RacingInv /\ SessionInv /\ SealedInv /\ PasswordInForce
  BY SessionsAssumption
  DEF SessionsInit, Init, MainInv, TicketInv, RacingInv, SessionInv, SealedInv,
      PasswordInForce, NoSessions, Changing, Password, EpochChange
<1> QED
  BY <1>1, <1>2, <1>3 DEF SessionsInv

-----------------------------------------------------------------------------
\* The parts of the invariant beside the store's and the types.
Rest == MainInv /\ TicketInv /\ RacingInv /\ SessionInv /\ SealedInv /\ PasswordInForce

\* Main's own steps keep the invariant.
LEMMA MainStep ==
    ASSUME SessionsInv, StoreInv',
           (\E l \in Launch : OpenVault(l)) \/ WriteKey \/ ChoosePassword \/ Serve
    PROVE  SessionsTypeOK' /\ Rest'
<1> USE SessionsAssumption
    DEF SessionsInv, Rest, SessionsTypeOK, MainInv, TicketInv, RacingInv, SessionInv,
        SealedInv, PasswordInForce, Changing, Effective, EpochChange, Password,
        HasPassword, HasNoPassword, vars, mainVars, serverVars, historyVars
<1>1. ASSUME NEW l \in Launch, OpenVault(l) PROVE SessionsTypeOK' /\ Rest'
  <2> USE <1>1 DEF OpenVault
  <2>1. SessionsTypeOK'
    OBVIOUS
  <2>2. MainInv'
    BY DEF NoSessions, Missing, Short
  <2>3. TicketInv' /\ RacingInv' /\ SessionInv' /\ PasswordInForce'
    OBVIOUS
  <2>4. SealedInv'
    BY DEF Missing
  <2> QED
    BY <2>1, <2>2, <2>3, <2>4
<1>2. CASE WriteKey
  <2> USE <1>2 DEF WriteKey
  <2>1. SessionsTypeOK'
    OBVIOUS
  <2>2. MainInv'
    BY DEF NoSessions, Short
  <2>3. TicketInv' /\ RacingInv' /\ SessionInv' /\ PasswordInForce'
    OBVIOUS
  <2>4. SealedInv'
    BY DEF Short
  <2> QED
    BY <2>1, <2>2, <2>3, <2>4
<1>3. CASE ChoosePassword
  BY <1>3 DEF ChoosePassword, NoSessions
<1>4. CASE Serve
  <2> USE <1>4 DEF Serve
  <2>1. EpochIn(mem) \in Nat
    BY FS_CardinalityType, FS_Subset DEF EpochIn
  <2>2. SessionsTypeOK' /\ MainInv'
    BY <2>1 DEF NoSessions
  <2>3. TicketInv' /\ RacingInv' /\ SealedInv'
    OBVIOUS
  <2>4. SessionInv'
    BY DEF NoSessions
  <2>5. PasswordInForce'
    BY DEF StoreInv, TypeOK
  <2> QED
    BY <2>2, <2>3, <2>4, <2>5
<1> QED
  BY <1>1, <1>2, <1>3, <1>4

\* A step of the running Update keeps the invariant.
LEMMA UpdateStep ==
    ASSUME SessionsInv, StoreInv', UpdateRuns
    PROVE  SessionsTypeOK' /\ Rest'
<1> USE SessionsAssumption DEF UpdateRuns
<1>1. /\ mem' \in {mem, before} /\ before \subseteq mem /\ holder # Nobody
      /\ holder' \in {holder, Nobody} /\ disk \subseteq disk' /\ failed \subseteq failed'
  BY DEF SessionsInv, StoreInv, TypeOK, At, Return, Encode, EncodeFails, WriteBegins,
         Write, WriteFails, Rename, RenameFails, Succeed, DriftIsFailed
<1>2. UNCHANGED <<process, launch, launched, key, sealed, password, epoch, session,
                  pc, ticket, begun, racing, since>>
  BY DEF mainVars, serverVars, historyVars
<1>3. SessionsTypeOK'
  BY <1>2 DEF SessionsInv, SessionsTypeOK
<1>4. MainInv'
  BY <1>1, <1>2 DEF SessionsInv, MainInv, HasPassword, NoSessions
<1>5. TicketInv' /\ RacingInv' /\ SessionInv' /\ SealedInv'
  BY <1>1, <1>2
  DEF SessionsInv, TicketInv, RacingInv, SessionInv, SealedInv, Changing, Effective
<1>6. PasswordInForce'
  BY <1>1, <1>2 DEF SessionsInv, PasswordInForce, Changing
<1> QED
  BY <1>3, <1>4, <1>5, <1>6 DEF Rest

\* A change that enters the state takes the next ticket.
LEMMA UpdateBeginsStep ==
    ASSUME SessionsInv, StoreInv', NEW c \in Change, UpdateBegins(c)
    PROVE  SessionsTypeOK' /\ Rest'
<1> USE SessionsAssumption DEF UpdateBegins, SessionsInv
<1>1. UNCHANGED <<process, launch, launched, key, password, epoch, session, pc, racing,
                  since, disk, failed>>
  BY DEF mainVars, serverVars, Begin
<1>2. holder = Nobody /\ mem' = mem \cup {c} /\ c \notin mem
  BY DEF Begin
<1>3. /\ ticket' = [ticket EXCEPT ![c] = begun + 1] /\ begun' = begun + 1
      /\ sealed' = IF c \in Password THEN [sealed EXCEPT ![c] = key] ELSE sealed
  OBVIOUS
<1>4. process \in {"save", "serve"} /\ key \in Launch
  BY DEF MayUpdate, MainInv, EpochChange
<1>5. SessionsTypeOK'
  BY <1>1, <1>3, <1>4 DEF SessionsTypeOK
<1>6. MainInv'
  <2>1. CASE process = "save"
    BY <2>1, <1>1, <1>2, <1>3 DEF MainInv, MayUpdate, EpochChange, NoSessions
  <2>2. CASE process = "serve"
    BY <2>2, <1>1, <1>4 DEF MainInv
  <2> QED
    BY <2>1, <2>2, <1>4
<1>7. ticket'[c] = begun + 1 /\ \A d \in Change : d # c => ticket'[d] = ticket[d]
  BY <1>3 DEF SessionsTypeOK
<1>8. TicketInv'
  BY <1>1, <1>2, <1>3, <1>7 DEF TicketInv, SessionsTypeOK, MayUpdate, EpochChange, MainInv, Password
<1>9. RacingInv'
  <2>1. Changing' = Changing
    BY <1>1 DEF Changing
  <2>2. ASSUME NEW a \in Changing, NEW d \in Password, 0 < ticket'[a], ticket'[a] < ticket'[d]
        PROVE  d \in racing
    <3>1. a \in Change /\ d \in Change
      BY DEF Changing, Password
    <3>2. CASE a # c /\ d # c
      BY <2>2, <3>1, <3>2, <1>7 DEF RacingInv
    <3>3. CASE a = c
      BY <2>2, <3>1, <3>3, <1>7 DEF TicketInv, SessionsTypeOK
    <3>4. CASE d = c /\ a # c
      <4>1. process = "serve"
        BY <1>1 DEF MainInv, Changing, EpochChange
      <4>2. d \in Changing
        BY <4>1, <3>4 DEF MayUpdate, Changing, EpochChange, Password
      <4> QED
        BY <4>2, <3>4 DEF RacingInv
    <3> QED
      BY <3>2, <3>3, <3>4
  <2> QED
    BY <2>1, <2>2, <1>1 DEF RacingInv
<1>10. SessionInv'
  BY <1>1 DEF SessionInv, Effective
<1>11. SealedInv'
  BY <1>1, <1>2, <1>3, <1>4 DEF SealedInv, SessionsTypeOK
<1>12. PasswordInForce'
  <2> SUFFICES ASSUME process = "serve" PROVE PasswordInForce'
    BY <1>1 DEF PasswordInForce
  <2>1. ASSUME NEW p \in mem' \cap Password, ticket'[p] > ticket'[password]
        PROVE  p \in failed \cup racing \cup Changing
    <3>1. password \in Change /\ p \in Change
      BY DEF MainInv, Password
    <3>2. CASE p = c
      BY <3>2 DEF MayUpdate, Changing, EpochChange, Password
    <3>3. CASE p # c /\ password = c
      BY <2>1, <3>1, <3>3, <1>7 DEF TicketInv, SessionsTypeOK
    <3>4. CASE p # c /\ password # c
      BY <2>1, <3>1, <3>4, <1>2, <1>7 DEF PasswordInForce
    <3> QED
      BY <3>2, <3>3, <3>4
  <2> QED
    BY <2>1, <1>1 DEF PasswordInForce, Changing
<1> QED
  BY <1>5, <1>6, <1>8, <1>9, <1>10, <1>11, <1>12 DEF Rest

-----------------------------------------------------------------------------
\* A step of a request keeps the type of what it moves.
LEMMA Moves ==
    ASSUME SessionsInv, NEW r \in EpochChange \cup Login, NEW from, NEW to,
           to \in {"checked", "update", "ok", "failed"}, Step(r, from, to)
    PROVE  /\ pc' \in [EpochChange \cup Login ->
                        {"new", "checked", "update", "ok", "failed", "dead"}]
           /\ pc'[r] = to /\ pc[r] = from /\ process = "serve"
           /\ \A s \in EpochChange \cup Login : s # r => pc'[s] = pc[s]
BY DEF SessionsInv, SessionsTypeOK, Step

\* Logging in and out keeps the invariant.
LEMMA LoginStep ==
    ASSUME SessionsInv, StoreInv', NEW l \in Login,
           LoginChecks(l) \/ IssueSession(l) \/ Logout(l)
    PROVE  SessionsTypeOK' /\ Rest'
<1> USE SessionsAssumption DEF SessionsInv, vars, mainVars, serverVars, historyVars
<1>1. /\ UNCHANGED <<mem, disk, holder, failed, process, launch, launched, key, sealed,
                     password, epoch, ticket, begun, racing>>
      /\ process = "serve"
  BY DEF LoginChecks, IssueSession, Logout, Step
<1>2. /\ pc' \in [EpochChange \cup Login ->
                  {"new", "checked", "update", "ok", "failed", "dead"}]
      /\ \A c \in EpochChange : pc'[c] = pc[c]
  BY Moves DEF LoginChecks, IssueSession, Logout, EpochChange, Password, SessionsTypeOK
<1>3. Changing' = Changing /\ Effective' = Effective /\ Effective \subseteq EpochChange
  BY <1>2 DEF Changing, Effective, EpochChange
<1>4. /\ session' \in [Login -> Nat \cup {Nobody}]
      /\ since' \in [Login -> SUBSET EpochChange]
      /\ SessionInv'
  BY <1>1, <1>3 DEF LoginChecks, IssueSession, Logout, SessionsTypeOK, SessionInv
<1>5. SessionsTypeOK'
  BY <1>1, <1>2, <1>4 DEF SessionsTypeOK
<1>6. MainInv'
  BY <1>1 DEF MainInv
<1>7. TicketInv' /\ RacingInv' /\ SealedInv' /\ PasswordInForce'
  BY <1>1, <1>2, <1>3
  DEF TicketInv, RacingInv, SealedInv, PasswordInForce, EpochChange
<1> QED
  BY <1>4, <1>5, <1>6, <1>7 DEF Rest

\* A change of the password keeps the invariant.
LEMMA ChangeStep ==
    ASSUME SessionsInv, StoreInv', NEW c \in NewPassword,
           ChangeChecks(c) \/ ApplyPassword(c) \/ ChangeFails(c)
    PROVE  SessionsTypeOK' /\ Rest'
<1> USE SessionsAssumption
    DEF SessionsInv, vars, mainVars, serverVars, historyVars, EpochChange, Password
<1>1. /\ UNCHANGED <<mem, disk, holder, failed, done, process, launch, launched, key,
                     sealed, ticket, begun, since>>
      /\ process = "serve"
  BY DEF ChangeChecks, ApplyPassword, ChangeFails, Step
<1>2. /\ pc' \in [EpochChange \cup Login ->
                  {"new", "checked", "update", "ok", "failed", "dead"}]
      /\ \A r \in EpochChange \cup Login : r # c => pc'[r] = pc[r]
  BY Moves DEF ChangeChecks, ApplyPassword, ChangeFails
<1>3. MainInv'
  BY <1>1 DEF MainInv, ChangeChecks, ApplyPassword, ChangeFails
<1>4. CASE ChangeChecks(c)
  <2>1. pc[c] = "new" /\ pc'[c] = "update"
    BY <1>4, Moves DEF ChangeChecks
  <2>2. Changing' = Changing \cup {c} /\ Effective' = Effective
    BY <2>1, <1>2 DEF Changing, Effective
  <2>3. UNCHANGED <<password, epoch, session>>
        /\ racing' = IF Changing = {} THEN racing ELSE racing \cup Changing \cup {c}
    BY <1>4 DEF ChangeChecks
  <2>4. Changing \subseteq NewPassword
    BY DEF Changing
  <2>5. SessionsTypeOK'
    BY <1>1, <1>2, <2>3, <2>4 DEF SessionsTypeOK
  <2>6. TicketInv'
    BY <1>1, <1>2, <2>1 DEF TicketInv
  <2>7. RacingInv'
    BY <1>1, <2>1, <2>2, <2>3 DEF RacingInv, TicketInv
  <2>8. SessionInv' /\ SealedInv'
    BY <1>1, <2>2, <2>3 DEF SessionInv, SealedInv
  <2>9. PasswordInForce'
    BY <1>1, <2>2, <2>3 DEF PasswordInForce
  <2> QED
    BY <1>3, <2>5, <2>6, <2>7, <2>8, <2>9 DEF Rest
<1>5. CASE ApplyPassword(c)
  <2>1. pc[c] = "update" /\ pc'[c] = "ok" /\ c \in done
    BY <1>5, Moves DEF ApplyPassword
  <2>2. Changing' = Changing \ {c}
    BY <2>1, <1>2 DEF Changing
  <2>3. password' = c /\ epoch' = epoch + 1 /\ session' = NoSessions /\ racing' = racing
    BY <1>5 DEF ApplyPassword
  <2>4. SessionsTypeOK'
    BY <1>1, <1>2, <2>3 DEF SessionsTypeOK, NoSessions
  <2>5. TicketInv' /\ RacingInv'
    BY <1>1, <1>2, <2>1, <2>2, <2>3 DEF TicketInv, RacingInv
  <2>6. SessionInv' /\ SealedInv'
    BY <1>1, <2>3 DEF SessionInv, SealedInv, NoSessions
  <2>7. c \in disk /\ ticket[c] > 0 /\ c \in Changing
    BY <2>1 DEF StoreInv, AcknowledgedIsDurable, DriftIsFailed, TicketInv, Changing
  <2>8. PasswordInForce'
    BY <1>1, <2>2, <2>3, <2>7 DEF PasswordInForce, RacingInv, SessionsTypeOK
  <2> QED
    BY <1>3, <2>4, <2>5, <2>6, <2>8 DEF Rest
<1>6. CASE ChangeFails(c)
  <2>1. pc[c] = "update" /\ pc'[c] = "failed" /\ (c \in failed \/ ticket[c] = 0)
    BY <1>6, Moves DEF ChangeFails
  <2>2. Changing' = Changing \ {c} /\ Effective' = Effective
    BY <2>1, <1>2 DEF Changing, Effective
  <2>3. UNCHANGED <<password, epoch, session, racing>>
    BY <1>6 DEF ChangeFails
  <2>4. SessionsTypeOK' /\ TicketInv' /\ RacingInv'
    BY <1>1, <1>2, <2>1, <2>2, <2>3 DEF SessionsTypeOK, TicketInv, RacingInv
  <2>5. SessionInv' /\ SealedInv'
    BY <1>1, <2>2, <2>3 DEF SessionInv, SealedInv
  <2>6. PasswordInForce'
    BY <1>1, <2>1, <2>2, <2>3 DEF PasswordInForce, TicketInv, SessionsTypeOK
  <2> QED
    BY <1>3, <2>4, <2>5, <2>6 DEF Rest
<1> QED
  BY <1>4, <1>5, <1>6

\* A revocation keeps the invariant.
LEMMA RevokeStep ==
    ASSUME SessionsInv, StoreInv', NEW r \in Revocation,
           RevokeSessions(r) \/ RevokeReturns(r)
    PROVE  SessionsTypeOK' /\ Rest'
<1> USE SessionsAssumption
    DEF SessionsInv, vars, mainVars, serverVars, historyVars, EpochChange, Password
<1>1. /\ UNCHANGED <<mem, disk, holder, failed, process, launch, launched, key,
                     sealed, password, ticket, begun, racing, since>>
      /\ process = "serve"
  BY DEF RevokeSessions, RevokeReturns, Step
<1>2. /\ pc' \in [EpochChange \cup Login ->
                  {"new", "checked", "update", "ok", "failed", "dead"}]
      /\ \A s \in EpochChange \cup Login : s # r => pc'[s] = pc[s]
  BY Moves DEF RevokeSessions, RevokeReturns
<1>3. Changing' = Changing
  BY <1>2 DEF Changing
<1>4. /\ epoch' \in Nat /\ session' \in [Login -> Nat \cup {Nobody}] /\ SessionInv'
  <2>1. CASE RevokeSessions(r)
    BY <2>1 DEF RevokeSessions, NoSessions, SessionInv, SessionsTypeOK
  <2>2. CASE RevokeReturns(r)
    <3>1. Effective' = Effective
      BY <2>2, <1>2, Moves DEF RevokeReturns, Effective
    <3> QED
      BY <3>1, <2>2 DEF RevokeReturns, SessionInv, SessionsTypeOK
  <2> QED
    BY <2>1, <2>2
<1>5. SessionsTypeOK' /\ MainInv'
  BY <1>1, <1>2, <1>4 DEF SessionsTypeOK, MainInv
<1>6. TicketInv' /\ RacingInv' /\ SealedInv' /\ PasswordInForce'
  BY <1>1, <1>2, <1>3 DEF TicketInv, RacingInv, SealedInv, PasswordInForce
<1> QED
  BY <1>4, <1>5, <1>6 DEF Rest

\* The death of the process keeps the invariant.
LEMMA KillStep ==
    ASSUME SessionsInv, StoreInv', Kill
    PROVE  SessionsTypeOK' /\ Rest'
<1> USE SessionsAssumption DEF SessionsInv, Kill, Reopen
<1>1. mem' = disk /\ UNCHANGED disk /\ disk \subseteq mem
  BY DEF StoreInv, DriftIsFailed
<1>2. \A r \in EpochChange \cup Login :
        pc'[r] \notin {"checked", "update"} /\ (pc'[r] = "new" => pc[r] = "new")
  BY DEF SessionsTypeOK
<1>3. SessionsTypeOK'
  BY DEF SessionsTypeOK, NoSessions
<1>4. MainInv' /\ SessionInv' /\ PasswordInForce'
  BY <1>2 DEF MainInv, SessionInv, PasswordInForce, NoSessions
<1>5. TicketInv' /\ SealedInv'
  BY <1>1, <1>2 DEF TicketInv, SealedInv, EpochChange
<1>6. RacingInv'
  BY <1>2 DEF RacingInv, Changing, EpochChange
<1> QED
  BY <1>3, <1>4, <1>5, <1>6 DEF Rest

\* Every step keeps the invariant.
LEMMA SessionsStepInv == SessionsInv /\ [SessionsNext]_sessionsVars => SessionsInv'
<1> SUFFICES ASSUME SessionsInv, [SessionsNext]_sessionsVars PROVE SessionsInv'
  OBVIOUS
<1>1. StoreInv'
  BY SessionsStepIsStoreStep, StepInv DEF SessionsInv
<1>2. CASE UNCHANGED sessionsVars
  BY <1>2, <1>1
  DEF SessionsInv, sessionsVars, vars, mainVars, serverVars, historyVars, SessionsTypeOK,
      MainInv, TicketInv, RacingInv, SessionInv, SealedInv, PasswordInForce, Changing,
      Effective, HasPassword
<1>3. CASE SessionsNext
  BY <1>1, <1>3, MainStep, UpdateStep, UpdateBeginsStep, LoginStep, ChangeStep,
     RevokeStep, KillStep
  DEF SessionsNext, SessionsInv, Rest
<1> QED
  BY <1>2, <1>3

-----------------------------------------------------------------------------
\* The password, the sessions and the file fit each other in every state.
THEOREM SessionsInvariant == SessionsSpec => []SessionsInv
BY SessionsInitInv, SessionsStepInv, PTL DEF SessionsSpec

\* An accepted session was issued after every revocation and change of the
\* password that has taken effect.
THEOREM AcceptedSessionsAreCurrent == SessionsSpec => []AcceptedIsIssuedSince
<1>1. SessionsInv => AcceptedIsIssuedSince
  BY DEF SessionsInv, SessionInv, AcceptedIsIssuedSince, ValidSession
<1> QED
  BY <1>1, SessionsInvariant, PTL

\* The password in force is the one last stored, but for failed, running and
\* overlapping changes, and survives a restart.
THEOREM PasswordIsTheStoredOne == SessionsSpec => []PasswordInForce
<1>1. SessionsInv => PasswordInForce
  BY DEF SessionsInv
<1> QED
  BY <1>1, SessionsInvariant, PTL

\* Every stored password can be decrypted with master.key.
THEOREM StoredPasswordsAreReadable == SessionsSpec => []StoredIsReadable
<1>1. SessionsInv => StoredIsReadable
  BY DEF SessionsInv, SealedInv, StoredIsReadable, StoreInv, DriftIsFailed
<1> QED
  BY <1>1, SessionsInvariant, PTL

\* The store under the sessions is a Store, and so keeps all its promises.
THEOREM SessionsImplementStore == SessionsSpec => Spec
<1>1. SessionsInit => Init
  BY DEF SessionsInit
<1> QED
  BY <1>1, SessionsStepIsStoreStep, PTL DEF SessionsSpec, Spec

\* The server's own logins, restarts and password changes keep what the store
\* promised: what it was told is stored is in state.json and is what it reads,
\* and memory is ahead only by changes it was told had failed.
THEOREM ServerKeepsStorePromises ==
    SessionsSpec => /\ [](AcknowledgedIsDurable /\ DriftIsFailed /\ PromisedIsVisible)
                    /\ ImplementsAtomicStore
BY SessionsImplementStore, AcknowledgedSurvives, DriftWasReported,
   StoreImplementsAtomicStore, PromisesAreVisible, PTL DEF ImplementsAtomicStore
=============================================================================
