----------------------- MODULE PasskeyCollectionProofs ------------------------
(***************************************************************************)
(* The passkeys of a subject, for every value of the constants: there are  *)
(* never more than MaxPasskeys active ones, a row of a subject changes     *)
(* only together with its revision, a signature counter never falls or     *)
(* serves two sessions, and whatever the handlers do is a step of          *)
(* CredentialSet.                                                          *)
(***************************************************************************)
EXTENDS PasskeyTypeProofs, FiniteSetTheorems

-----------------------------------------------------------------------------
\* The limit. Only begin_registration counts; what makes the limit inductive is
\* that a registration ceremony of the current revision still has room
\* (OpenRegistrationsFit), which the revision check of finish_registration
\* turns into room for the passkey it adds.

ActiveRowsFinite == \A s \in Subjects : IsFiniteSet(ActiveRows(s))

LimitInv ==
  TypeOK /\ ActiveRowsFinite /\ CredentialLimit /\ OpenRegistrationsFit

LEMMA InitLimit == Init => LimitInv
  <1> SUFFICES ASSUME Init PROVE LimitInv OBVIOUS
  <1>1. ASSUME NEW s \in Subjects PROVE ActiveRows(s) = {}
    BY DEF Init, StorageInit, ActiveRows, RowsOf
  <1>2. ActiveRowsFinite BY <1>1, FS_EmptySet DEF ActiveRowsFinite
  <1>3. CredentialLimit BY <1>1, FS_EmptySet, ConfigAssumption DEF CredentialLimit
  <1>4. OpenRegistrationsFit
    BY DEF Init, StorageInit, Quiet, OpenRegistrationsFit, ChallengeFound,
           HoldsRegistration, HoldsCeremony
  <1> QED BY <1>2, <1>3, <1>4, InitTypes DEF LimitInv

-----------------------------------------------------------------------------
\* What a step does to the collections, the stored ceremonies and the calls

\* A collection changes only with its revision.
CollectionStep ==
  \A s \in Subjects :
    \/ revision'[s] = revision[s] /\ ActiveRows(s)' = ActiveRows(s)
    \/ revision'[s] = revision[s] + 1

\* No registration ceremony is added or altered.
ChallengesKept ==
  \A x \in ChallengeIds :
    ChallengeFound(x, "registration")' =>
      /\ ChallengeFound(x, "registration")
      /\ challenges'[x].subject = challenges[x].subject
      /\ challenges'[x].revision = challenges[x].revision

LEMMA FitsKept ==
  ASSUME TypeOK, CollectionStep, NEW row,
         row.subject \in Subjects, row.revision \in Nat, Fits(row)
  PROVE  /\ row.revision <= revision'[row.subject]
         /\ row.revision = revision'[row.subject] => HasRoom(row.subject)'
  BY DEF TypeOK, TablesTypeOK, CollectionStep, Fits, HasRoom

LEMMA ChallengesStayFit ==
  ASSUME TypeOK, CollectionStep, OpenRegistrationsFit, NEW x \in ChallengeIds,
         ChallengeFound(x, "registration"),
         challenges'[x].subject = challenges[x].subject,
         challenges'[x].revision = challenges[x].revision
  PROVE  Fits(challenges[x])'
  <1>1. /\ challenges[x].subject \in Subjects /\ challenges[x].revision \in Nat
        /\ Fits(challenges[x])
    BY DEF TypeOK, TablesTypeOK, ChallengeFound, ChallengeRow, OpenRegistrationsFit
  <1>2. /\ challenges[x].revision <= revision'[challenges[x].subject]
        /\ challenges[x].revision = revision'[challenges[x].subject]
             => HasRoom(challenges[x].subject)'
    BY <1>1, FitsKept
  <1> QED BY <1>2 DEF Fits, HasRoom, ActiveRows, RowsOf

LEMMA CallsStayFit ==
  ASSUME TypeOK, CollectionStep, OpenRegistrationsFit, NEW c \in Calls,
         HoldsRegistration(c), ceremony'[c] = ceremony[c], request'[c] = request[c]
  PROVE  /\ Fits(ceremony[c])'
         /\ ceremony'[c].subject = request'[c].subject
         /\ ceremony'[c].revision = request'[c].expected
  <1>1. ceremony[c] \in ChallengeRow
    BY DEF TypeOK, LocalsOK, HoldsRegistration, HoldsCeremony
  <1>2. /\ ceremony[c].subject \in Subjects /\ ceremony[c].revision \in Nat
        /\ Fits(ceremony[c])
    BY <1>1 DEF ChallengeRow, OpenRegistrationsFit
  <1>3. /\ ceremony[c].revision <= revision'[ceremony[c].subject]
        /\ ceremony[c].revision = revision'[ceremony[c].subject]
             => HasRoom(ceremony[c].subject)'
    BY <1>2, FitsKept
  <1> QED BY <1>3 DEF Fits, HasRoom, ActiveRows, RowsOf, OpenRegistrationsFit

\* A step that takes no ceremony and begins none.
LEMMA StayFit ==
  ASSUME TypeOK, CollectionStep, OpenRegistrationsFit, ChallengesKept,
         NEW c \in Calls, OthersKept(c), TakesNone(c)
  PROVE  OpenRegistrationsFit'
  <1>1. ASSUME NEW x \in ChallengeIds, ChallengeFound(x, "registration")'
        PROVE  Fits(challenges[x])'
    BY <1>1, ChallengesStayFit DEF ChallengesKept
  <1>2. ASSUME NEW d \in Calls, HoldsRegistration(d)'
        PROVE  /\ Fits(ceremony[d])'
               /\ ceremony'[d].subject = request'[d].subject
               /\ ceremony'[d].revision = request'[d].expected
    <2>1. HoldsRegistration(d) /\ ceremony'[d] = ceremony[d] /\ request'[d] = request[d]
      BY <1>2 DEF OthersKept, TakesNone, HoldsRegistration, HoldsCeremony, Op
    <2> QED BY <2>1, CallsStayFit
  <1> QED BY <1>1, <1>2 DEF OpenRegistrationsFit

\* Only CommitBeginRegistration begins a registration ceremony.
LEMMA StepChallengesKept ==
  ASSUME TypeOK, NEW c \in Calls, Step(c), ~CommitBeginRegistration(c)
  PROVE  ChallengesKept
  <1> USE DEF TypeOK, TablesTypeOK, ChallengesKept, ChallengeFound, ConsumeChallenge, tables
  <1>1. CASE PruneOldChallenges(c)
    BY <1>1 DEF PruneOldChallenges, PruneChallenges
  <1>2. CASE PruneOldCommands(c)
    BY <1>2 DEF PruneOldCommands
  <1>3. CASE Claim(c)
    BY <1>3 DEF Claim
  <1>4. CASE LoadCommand(c)
    BY <1>4 DEF LoadCommand
  <1>5. CASE Advance(c)
    BY <1>5 DEF Advance
  <1>6. CASE MissChallenge(c)
    BY <1>6 DEF MissChallenge
  <1>7. CASE RefuseChallenge(c)
    BY <1>7 DEF RefuseChallenge
  <1>8. CASE AcceptChallenge(c)
    BY <1>8 DEF AcceptChallenge
  <1>9. CASE DirectoryInactive(c)
    BY <1>9 DEF DirectoryInactive
  <1>10. CASE DirectoryActive(c)
    BY <1>10 DEF DirectoryActive
  <1>11. CASE VerifyRegistration(c)
    BY <1>11 DEF VerifyRegistration
  <1>12. CASE RefuseTransaction(c)
    BY <1>12 DEF RefuseTransaction
  <1>14. CASE CommitBeginAuthentication(c)
    BY <1>14 DEF CommitBeginAuthentication, InsertChallenge
  <1>15. CASE CommitFinishRegistration(c)
    BY <1>15 DEF CommitFinishRegistration
  <1>16. CASE CommitFinishAuthentication(c)
    BY <1>16 DEF CommitFinishAuthentication
  <1>17. CASE CommitRevoke(c)
    BY <1>17 DEF CommitRevoke
  <1>18. CASE RecordError(c)
    BY <1>18 DEF RecordError
  <1>19. CASE IssueSession(c)
    BY <1>19 DEF IssueSession
  <1>20. CASE IssuerDisabled(c)
    BY <1>20 DEF IssuerDisabled
  <1>21. CASE CommitReceipt(c)
    BY <1>21 DEF CommitReceipt
  <1>22. CASE LoadSubject(c)
    BY <1>22 DEF LoadSubject
  <1>23. CASE LoadPasskeys(c)
    BY <1>23 DEF LoadPasskeys
  <1> QED
    BY <1>1, <1>2, <1>3, <1>4, <1>5, <1>6, <1>7, <1>8, <1>9, <1>10,
          <1>11, <1>12, <1>14, <1>15, <1>16, <1>17, <1>18, <1>19, <1>20,
          <1>21, <1>22, <1>23
    DEF Step

-----------------------------------------------------------------------------
\* What each commit does to the collections

LEMMA SameCollections ==
  ASSUME LimitInv, UNCHANGED <<revision, passkeys>>
  PROVE  CollectionStep /\ ActiveRowsFinite' /\ CredentialLimit'
  BY DEF LimitInv, CollectionStep, ActiveRowsFinite, CredentialLimit, ActiveRows, RowsOf

\* A commit that changes one collection, and adds at most one row where there is
\* room for it.
LEMMA OneCollection ==
  ASSUME LimitInv, NEW s \in Subjects, NEW added,
         revision' = [revision EXCEPT ![s] = @ + 1],
         \A t \in Subjects \ {s} : ActiveRows(t)' = ActiveRows(t),
         \/ ActiveRows(s)' \subseteq ActiveRows(s)
         \/ ActiveRows(s)' \subseteq ActiveRows(s) \cup {added} /\ HasRoom(s)
  PROVE  CollectionStep /\ ActiveRowsFinite' /\ CredentialLimit'
  <1> DEFINE rows == ActiveRows(s)
  <1>1. CollectionStep BY DEF CollectionStep, LimitInv, TypeOK, TablesTypeOK
  <1>2. /\ IsFiniteSet(rows) /\ Cardinality(rows) \in Nat
        /\ Cardinality(rows) <= MaxPasskeys
    BY FS_CardinalityType DEF LimitInv, ActiveRowsFinite, CredentialLimit
  <1>3. IsFiniteSet(rows') /\ Cardinality(rows') <= MaxPasskeys
    <2>1. CASE rows' \subseteq rows
      <3> HIDE DEF rows
      <3>1. IsFiniteSet(rows') /\ Cardinality(rows') <= Cardinality(rows)
        BY <1>2, <2>1, FS_Subset
      <3>2. Cardinality(rows') \in Nat BY <3>1, FS_CardinalityType
      <3> QED BY <1>2, <3>1, <3>2, ConfigAssumption
    <2>2. CASE rows' \subseteq rows \cup {added} /\ HasRoom(s)
      <3>1. Cardinality(rows) < MaxPasskeys BY <2>2 DEF HasRoom
      <3> HIDE DEF rows
      <3>2. /\ IsFiniteSet(rows \cup {added})
            /\ \/ Cardinality(rows \cup {added}) = Cardinality(rows)
               \/ Cardinality(rows \cup {added}) = Cardinality(rows) + 1
        BY <1>2, FS_AddElement
      <3>3. /\ IsFiniteSet(rows')
            /\ Cardinality(rows') <= Cardinality(rows \cup {added})
        BY <2>2, <3>2, FS_Subset
      <3>4. Cardinality(rows') \in Nat BY <3>3, FS_CardinalityType
      <3> QED BY <1>2, <3>1, <3>2, <3>3, <3>4, ConfigAssumption
    <2> QED BY <2>1, <2>2
  <1>4. ASSUME NEW t \in Subjects
        PROVE  IsFiniteSet(ActiveRows(t)') /\ Cardinality(ActiveRows(t)') <= MaxPasskeys
    BY <1>3 DEF LimitInv, ActiveRowsFinite, CredentialLimit
  <1> QED BY <1>1, <1>4 DEF ActiveRowsFinite, CredentialLimit

\* What the revision check of finish_registration is for.
LEMMA RegistrationHasRoom ==
  ASSUME LimitInv, NEW c \in Calls, CommitFinishRegistration(c)
  PROVE  HasRoom(request[c].subject)
  <1>1. pc[c] = "transaction" /\ Op(c) = "finish_registration" /\ TransactionError(c) = "none"
    BY DEF CommitFinishRegistration, Commits
  <1>2. HoldsRegistration(c)
    BY <1>1 DEF HoldsRegistration, HoldsCeremony, FinishOperations
  <1>3. revision[request[c].subject] = request[c].expected
    BY <1>1 DEF TransactionError, FinishRegistrationError
  <1> QED BY <1>2, <1>3 DEF LimitInv, OpenRegistrationsFit, Fits

LEMMA FinishRegistrationCollections ==
  ASSUME LimitInv, NEW c \in Calls, CommitFinishRegistration(c)
  PROVE  CollectionStep /\ ActiveRowsFinite' /\ CredentialLimit'
  <1>1. /\ TypeOK /\ pc[c] = "transaction" /\ Op(c) = "finish_registration"
        /\ TransactionError(c) = "none"
    BY DEF LimitInv, CommitFinishRegistration, Commits
  <1>2. PICK s \in Subjects : s = request[c].subject
    BY <1>1, CommitFields DEF CommitFinishRegistration
  <1>3. HasRoom(s) BY <1>2, RegistrationHasRoom
  <1>4. PICK p \in PasskeyIds :
          /\ passkeys[p] = NoRow
          /\ passkeys' = [passkeys EXCEPT ![p] =
               NewPasskey(s, verified[c].credential, verified[c].counter)]
    BY <1>2 DEF CommitFinishRegistration
  <1>5. revision' = [revision EXCEPT ![s] = @ + 1]
    BY <1>2 DEF CommitFinishRegistration, AdvanceCollection
  <1>6. passkeys'[p].subject = s /\ \A q \in PasskeyIds \ {p} : passkeys'[q] = passkeys[q]
    BY <1>1, <1>4 DEF TypeOK, TablesTypeOK, NewPasskey
  <1>7. ActiveRows(s)' \subseteq ActiveRows(s) \cup {p}
    BY <1>6 DEF ActiveRows, RowsOf
  <1>8. ASSUME NEW t \in Subjects \ {s} PROVE ActiveRows(t)' = ActiveRows(t)
    BY <1>4, <1>6 DEF ActiveRows, RowsOf
  <1> QED BY <1>2, <1>3, <1>5, <1>7, <1>8, OneCollection

LEMMA FinishAuthenticationCollections ==
  ASSUME LimitInv, NEW c \in Calls, CommitFinishAuthentication(c)
  PROVE  CollectionStep /\ ActiveRowsFinite' /\ CredentialLimit'
  <1>1. TypeOK BY DEF LimitInv
  <1>2. PICK s \in Subjects : s = SubjectOf(c)
    <2>1. Commits(c, "finish_authentication") BY DEF CommitFinishAuthentication
    <2> QED BY <1>1, <2>1, CommitFields DEF FinishOperations, SubjectOf, ChallengeRow
  <1>3. PICK p \in AuthenticatedRows(s, verified[c]) :
          passkeys' = [passkeys EXCEPT ![p] = UsedPasskey(@, verified[c].counter)]
    BY <1>2 DEF CommitFinishAuthentication
  <1>4. /\ p \in PasskeyIds /\ passkeys[p] \in PasskeyRow
        /\ passkeys[p].subject = s /\ p \in ActiveRows(s)
    BY <1>1 DEF AuthenticatedRows, ActiveRows, RowsOf, TypeOK, TablesTypeOK
  <1>5. UsedPasskey(passkeys[p], verified[c].counter).subject = s
    BY <1>4 DEF UsedPasskey, PasskeyRow
  <1>6. revision' = [revision EXCEPT ![s] = @ + 1]
    BY <1>2 DEF CommitFinishAuthentication, AdvanceCollection
  <1>7. passkeys'[p].subject = s /\ \A q \in PasskeyIds \ {p} : passkeys'[q] = passkeys[q]
    BY <1>1, <1>3, <1>4, <1>5 DEF TypeOK, TablesTypeOK
  <1>8. ActiveRows(s)' \subseteq ActiveRows(s)
    BY <1>4, <1>7 DEF ActiveRows, RowsOf
  <1>9. ASSUME NEW t \in Subjects \ {s} PROVE ActiveRows(t)' = ActiveRows(t)
    BY <1>4, <1>7 DEF ActiveRows, RowsOf
  <1> QED BY <1>2, <1>6, <1>8, <1>9, OneCollection

LEMMA RevokeCollections ==
  ASSUME LimitInv, NEW c \in Calls, CommitRevoke(c)
  PROVE  CollectionStep /\ ActiveRowsFinite' /\ CredentialLimit'
  <1>1. /\ TypeOK /\ Op(c) = "revoke_passkey" /\ TransactionError(c) = "none"
        /\ Commits(c, "revoke_passkey")
    BY DEF LimitInv, CommitRevoke, Commits
  <1>2. PICK s \in Subjects, p \in PasskeyIds :
          s = request[c].subject /\ p = request[c].passkey
    BY <1>1, CommitFields
  <1>3. passkeys[p] \in PasskeyRow /\ passkeys[p].subject = s
    <2>1. RevokeError(request[c]) = "none" BY <1>1 DEF TransactionError
    <2> QED BY <1>1, <1>2, <2>1 DEF RevokeError, RowsOf, TypeOK, TablesTypeOK
  <1>4. CASE UNCHANGED <<passkeys, revision>> BY <1>4, SameCollections
  <1>5. CASE /\ ~passkeys[p].revoked
             /\ passkeys' = [passkeys EXCEPT ![p] = RevokedPasskey(@)]
             /\ AdvanceCollection(s)
    <2>1. RevokedPasskey(passkeys[p]).subject = s /\ RevokedPasskey(passkeys[p]).revoked
      BY <1>3 DEF RevokedPasskey, PasskeyRow
    <2>2. /\ passkeys'[p].subject = s /\ passkeys'[p].revoked
          /\ \A q \in PasskeyIds \ {p} : passkeys'[q] = passkeys[q]
      BY <1>1, <1>5, <2>1 DEF TypeOK, TablesTypeOK
    <2>3. ActiveRows(s)' \subseteq ActiveRows(s)
      BY <2>2 DEF ActiveRows, RowsOf
    <2>4. ASSUME NEW t \in Subjects \ {s} PROVE ActiveRows(t)' = ActiveRows(t)
      BY <1>3, <2>2 DEF ActiveRows, RowsOf
    <2>5. revision' = [revision EXCEPT ![s] = @ + 1] BY <1>5 DEF AdvanceCollection
    <2> QED BY <2>3, <2>4, <2>5, OneCollection
  <1> QED BY <1>2, <1>4, <1>5 DEF CommitRevoke

\* Only the three commits write passkeys.
LEMMA CommitsOnly ==
  ASSUME NEW c \in Calls, Step(c), ~CommitFinishRegistration(c),
         ~CommitFinishAuthentication(c), ~CommitRevoke(c)
  PROVE  UNCHANGED <<revision, passkeys>>
  BY DEF Step, tables, PruneOldChallenges, PruneOldCommands, Claim, LoadCommand,
     Advance, MissChallenge, RefuseChallenge, AcceptChallenge, DirectoryInactive,
     DirectoryActive, VerifyRegistration, RefuseTransaction, CommitBeginRegistration,
     CommitBeginAuthentication, RecordError, IssueSession, IssuerDisabled,
     CommitReceipt, LoadSubject, LoadPasskeys

LEMMA StepCollections ==
  ASSUME LimitInv, NEW c \in Calls, Step(c)
  PROVE  CollectionStep /\ ActiveRowsFinite' /\ CredentialLimit'
  <1>1. CASE CommitFinishRegistration(c) BY <1>1, FinishRegistrationCollections
  <1>2. CASE CommitFinishAuthentication(c) BY <1>2, FinishAuthenticationCollections
  <1>3. CASE CommitRevoke(c) BY <1>3, RevokeCollections
  <1> QED BY <1>1, <1>2, <1>3, CommitsOnly, SameCollections

-----------------------------------------------------------------------------
\* The two steps that add a ceremony

LEMMA BeginRegistrationFits ==
  ASSUME LimitInv, NEW c \in Calls, CommitBeginRegistration(c)
  PROVE  OpenRegistrationsFit'
  <1>1. TypeOK /\ OpenRegistrationsFit /\ Step(c) BY DEF LimitInv, Step
  <1>2. /\ CollectionStep /\ OthersKept(c) /\ UNCHANGED <<revision, passkeys>>
    BY <1>1, StepCollections, StepOthersKept DEF CommitBeginRegistration
  <1>s. PICK s \in Subjects : s = request[c].subject
    BY <1>1, CommitFields DEF CommitBeginRegistration
  <1>3. revision[s] \in Nat /\ TransactionError(c) = "none"
        /\ Op(c) = "begin_registration"
    BY <1>1 DEF CommitBeginRegistration, Commits, TypeOK, TablesTypeOK
  <1>4. HasRoom(s)
    <2>1. Cardinality(ActiveRows(s)) \in Nat
      BY <1>3, FS_CardinalityType DEF LimitInv, ActiveRowsFinite
    <2>2. ~(Cardinality(ActiveRows(s)) >= MaxPasskeys)
      BY <1>3, <1>s DEF TransactionError, BeginRegistrationError
    <2> QED BY <2>1, <2>2, ConfigAssumption DEF HasRoom
  <1>5. PICK y \in ChallengeIds : InsertChallenge(y, "registration", request[c], {})
    BY DEF CommitBeginRegistration
  <1>6. ASSUME NEW x \in ChallengeIds, ChallengeFound(x, "registration")'
        PROVE  Fits(challenges[x])'
    <2>1. CASE x # y
      <3>1. challenges'[x] = challenges[x]
        BY <1>1, <1>5, <2>1 DEF InsertChallenge, TypeOK, TablesTypeOK
      <3> QED BY <1>1, <1>2, <1>6, <3>1, ChallengesStayFit DEF ChallengeFound
    <2>2. CASE x = y
      <3>1. challenges'[x].subject = s /\ challenges'[x].revision = revision[s]
        BY <1>1, <1>5, <1>s, <2>2 DEF InsertChallenge, TypeOK, TablesTypeOK
      <3>2. HasRoom(s)' BY <1>2, <1>4 DEF HasRoom, ActiveRows, RowsOf
      <3> QED BY <1>2, <1>3, <3>1, <3>2 DEF Fits, HasRoom, ActiveRows, RowsOf
    <2> QED BY <2>1, <2>2
  <1>7. TakesNone(c)
    BY <1>1, <1>3, StepTakesNone DEF AcceptChallenge, CommitBeginRegistration, Commits
  <1>8. ASSUME NEW d \in Calls, HoldsRegistration(d)'
        PROVE  /\ Fits(ceremony[d])'
               /\ ceremony'[d].subject = request'[d].subject
               /\ ceremony'[d].revision = request'[d].expected
    <2>1. HoldsRegistration(d) /\ ceremony'[d] = ceremony[d] /\ request'[d] = request[d]
      BY <1>2, <1>7, <1>8 DEF OthersKept, TakesNone, HoldsRegistration, HoldsCeremony, Op
    <2> QED BY <1>1, <1>2, <2>1, CallsStayFit
  <1> QED BY <1>6, <1>8 DEF OpenRegistrationsFit

LEMMA AcceptChallengeFits ==
  ASSUME LimitInv, NEW c \in Calls, AcceptChallenge(c)
  PROVE  OpenRegistrationsFit'
  <1> DEFINE r == request[c]
             row == challenges[r.challenge]
  <1>1. TypeOK /\ OpenRegistrationsFit /\ Step(c) BY DEF LimitInv, Step
  <1>2. /\ CollectionStep /\ OthersKept(c) /\ UNCHANGED <<revision, passkeys>>
    BY <1>1, StepCollections, StepOthersKept DEF AcceptChallenge
  <1>3. ChallengesKept
    BY <1>1, StepChallengesKept
       DEF AcceptChallenge, CommitBeginRegistration, Commits
  <1>4. /\ pc[c] = "consume" /\ r \in Requests /\ r.challenge \in ChallengeIds
        /\ row \in ChallengeRow /\ ceremony'[c] = row /\ request' = request
        /\ ChallengeError(r) = "none" /\ ChallengeFound(r.challenge, KindOf(Op(c)))
    BY <1>1, FoundChallenge DEF AcceptChallenge, TypeOK, CallsTypeOK
  <1>5. ASSUME NEW x \in ChallengeIds, ChallengeFound(x, "registration")'
        PROVE  Fits(challenges[x])'
    BY <1>1, <1>2, <1>3, <1>5, ChallengesStayFit DEF ChallengesKept
  <1>6. ASSUME NEW d \in Calls, HoldsRegistration(d)'
        PROVE  /\ Fits(ceremony[d])'
               /\ ceremony'[d].subject = request'[d].subject
               /\ ceremony'[d].revision = request'[d].expected
    <2>1. CASE d # c
      <3>1. HoldsRegistration(d) /\ ceremony'[d] = ceremony[d] /\ request'[d] = request[d]
        BY <1>2, <1>6, <2>1 DEF OthersKept, HoldsRegistration, HoldsCeremony, Op
      <3> QED BY <1>1, <1>2, <3>1, CallsStayFit
    <2>2. CASE d = c
      <3>1. r.op = "finish_registration" /\ Op(c) = "finish_registration"
        BY <1>4, <1>6, <2>2 DEF HoldsRegistration, Op
      <3>2. row.subject = r.subject /\ row.revision = r.expected
        BY <1>4, <3>1 DEF ChallengeError
      <3>3. Fits(row)
        BY <1>1, <1>4, <3>1 DEF OpenRegistrationsFit, KindOf
      <3>4. Fits(ceremony[c])'
        BY <1>2, <1>4, <3>3 DEF Fits, HasRoom, ActiveRows, RowsOf
      <3> QED BY <1>4, <2>2, <3>2, <3>4
    <2> QED BY <2>1, <2>2
  <1> QED BY <1>5, <1>6 DEF OpenRegistrationsFit

-----------------------------------------------------------------------------
\* Every step

LEMMA LimitStep ==
  ASSUME LimitInv, NEW c \in Calls, Step(c)
  PROVE  ActiveRowsFinite' /\ CredentialLimit' /\ OpenRegistrationsFit'
  <1>1. CollectionStep /\ ActiveRowsFinite' /\ CredentialLimit'
    BY StepCollections
  <1>2. CASE CommitBeginRegistration(c) BY <1>1, <1>2, BeginRegistrationFits
  <1>3. CASE AcceptChallenge(c) BY <1>1, <1>3, AcceptChallengeFits
  <1>4. ASSUME ~CommitBeginRegistration(c), ~AcceptChallenge(c)
        PROVE  OpenRegistrationsFit'
    <2>1. TypeOK /\ OpenRegistrationsFit BY DEF LimitInv
    <2>2. ChallengesKept BY <1>4, <2>1, StepChallengesKept
    <2>3. OthersKept(c) /\ TakesNone(c) BY <1>4, <2>1, StepOthersKept, StepTakesNone
    <2> QED BY <1>1, <2>1, <2>2, <2>3, StayFit
  <1> QED BY <1>1, <1>2, <1>3, <1>4

\* A call that arrives or ends holds no ceremony.
LEMMA LimitArrival ==
  ASSUME LimitInv, NEW c \in Calls, Receive(c) \/ Return(c) \/ Abandon(c)
  PROVE  ActiveRowsFinite' /\ CredentialLimit' /\ OpenRegistrationsFit'
  <1>1. TypeOK /\ OpenRegistrationsFit BY DEF LimitInv
  <1>2. UNCHANGED <<revision, passkeys, challenges>>
    BY DEF Receive, Return, Abandon, tables
  <1>3. CollectionStep /\ ActiveRowsFinite' /\ CredentialLimit'
    BY <1>2, SameCollections
  <1>4. ChallengesKept BY <1>2 DEF ChallengesKept, ChallengeFound
  <1>5. OthersKept(c) /\ TakesNone(c) BY <1>1, ArrivalTakesNone
  <1> QED BY <1>1, <1>3, <1>4, <1>5, StayFit

LEMMA NextLimit == LimitInv /\ [Next]_vars => LimitInv'
  <1> SUFFICES ASSUME LimitInv, [Next]_vars
               PROVE  ActiveRowsFinite' /\ CredentialLimit' /\ OpenRegistrationsFit'
    BY NextTypes DEF LimitInv
  <1>1. ASSUME NEW c \in Calls, Receive(c) \/ Return(c) \/ Abandon(c)
        PROVE  ActiveRowsFinite' /\ CredentialLimit' /\ OpenRegistrationsFit'
    BY <1>1, LimitArrival
  <1>2. ASSUME NEW c \in Calls, Step(c)
        PROVE  ActiveRowsFinite' /\ CredentialLimit' /\ OpenRegistrationsFit'
    BY <1>2, LimitStep
  <1>3. CASE ChangeDirectory \/ Tick \/ UNCHANGED vars
    <2>1. UNCHANGED <<revision, passkeys, challenges, calls>>
      BY <1>3 DEF ChangeDirectory, Tick, Expire, vars, tables
    <2>2. ActiveRowsFinite' /\ CredentialLimit' BY <2>1, SameCollections
    <2>3. OpenRegistrationsFit'
      BY <2>1 DEF LimitInv, OpenRegistrationsFit, ChallengeFound, HoldsRegistration,
                  HoldsCeremony, Op, Fits, HasRoom, ActiveRows, RowsOf, calls
    <2> QED BY <2>2, <2>3
  <1> QED BY <1>1, <1>2, <1>3 DEF Next

\* A registration ceremony of its subject's current revision, stored or taken by a
\* finish, always has room for the passkey it may add.
THEOREM OpenRegistrationsAlwaysFit == Spec => []OpenRegistrationsFit
  <1>1. LimitInv => OpenRegistrationsFit BY DEF LimitInv
  <1> QED BY <1>1, InitLimit, NextLimit, PTL DEF Spec

\* No subject ever has more active passkeys than max_passkeys_per_subject, however
\* many ceremonies and calls run side by side, are retried, or are lost.
THEOREM LimitHolds == Spec => []CredentialLimit
  <1>1. LimitInv => CredentialLimit BY DEF LimitInv
  <1> QED BY <1>1, InitLimit, NextLimit, PTL DEF Spec

-----------------------------------------------------------------------------
\* How the rows of a subject change: only together with its revision, and never
\* to a smaller counter. The first makes a list accurate as long as its
\* revision is current, the second keeps two sessions from resting on one
\* counter.

\* No row becomes, or was, one of the subject's with another content.
SameRows(s) ==
  \A p \in PasskeyIds :
    passkeys'[p] # passkeys[p] =>
      /\ passkeys'[p] # NoRow /\ passkeys'[p].subject # s
      /\ passkeys[p] # NoRow => passkeys[p].subject # s

RevisionCounts ==
  \A s \in Subjects :
    \/ revision'[s] = revision[s] /\ SameRows(s)
    \/ revision'[s] = revision[s] + 1

CountersGrow ==
  \A p \in PasskeyIds :
    passkeys[p] # NoRow =>
      passkeys'[p] # NoRow /\ passkeys'[p].signCount >= passkeys[p].signCount

OwnersStored == \A p \in PasskeyIds : passkeys[p] # NoRow => passkeys[p].subject \in subjects

RowsStep == RevisionCounts /\ CountersGrow /\ OwnersStored'

LEMMA SameTables ==
  ASSUME TypeOK, OwnersStored, UNCHANGED <<revision, passkeys>>, subjects \subseteq subjects'
  PROVE  RowsStep
  <1>1. passkeys \in [PasskeyIds -> PasskeyRow \cup {NoRow}] BY DEF TypeOK, TablesTypeOK
  <1>2. \A p \in PasskeyIds : passkeys[p] # NoRow => passkeys[p].signCount \in Nat
    BY <1>1 DEF PasskeyRow
  <1> QED BY <1>2 DEF RowsStep, RevisionCounts, SameRows, CountersGrow, OwnersStored

\* One row of one subject is written, and its revision counted.
LEMMA OneRow ==
  ASSUME TypeOK, OwnersStored, NEW s \in subjects, NEW p \in PasskeyIds, NEW row,
         passkeys' = [passkeys EXCEPT ![p] = row],
         revision' = [revision EXCEPT ![s] = @ + 1], subjects' = subjects,
         row # NoRow, row.subject = s,
         passkeys[p] # NoRow => /\ passkeys[p].subject = s
                                /\ row.signCount >= passkeys[p].signCount
  PROVE  RowsStep
  <1>1. /\ passkeys \in [PasskeyIds -> PasskeyRow \cup {NoRow}]
        /\ revision \in [Subjects -> Nat] /\ s \in Subjects
    BY DEF TypeOK, TablesTypeOK
  <1>2. \A q \in PasskeyIds : passkeys[q] # NoRow => passkeys[q].signCount \in Nat
    BY <1>1 DEF PasskeyRow
  <1>3. /\ passkeys'[p] = row /\ \A q \in PasskeyIds \ {p} : passkeys'[q] = passkeys[q]
        /\ revision'[s] = revision[s] + 1
        /\ \A t \in Subjects \ {s} : revision'[t] = revision[t]
    BY <1>1
  <1>4. RevisionCounts BY <1>3 DEF RevisionCounts, SameRows
  <1>5. CountersGrow BY <1>2, <1>3 DEF CountersGrow
  <1>6. OwnersStored' BY <1>3 DEF OwnersStored
  <1> QED BY <1>4, <1>5, <1>6 DEF RowsStep

LEMMA RegistrationRows ==
  ASSUME TypeOK, OwnersStored, NEW c \in Calls, CommitFinishRegistration(c)
  PROVE  RowsStep
  <1> DEFINE s == request[c].subject
             k == verified[c].credential
             n == verified[c].counter
  <1>1. /\ s \in subjects /\ revision' = [revision EXCEPT ![s] = @ + 1]
        /\ subjects' = subjects
    BY DEF CommitFinishRegistration, AdvanceCollection
  <1>2. PICK p \in PasskeyIds :
          passkeys[p] = NoRow /\ passkeys' = [passkeys EXCEPT ![p] = NewPasskey(s, k, n)]
    BY DEF CommitFinishRegistration
  <1>3. /\ s \in Subjects /\ k \in Credentials /\ n \in Nat
    <2>1. Commits(c, "finish_registration") BY DEF CommitFinishRegistration
    <2>2. s \in Subjects /\ verified[c] \in Results BY <2>1, CommitFields DEF FinishOperations
    <2> QED BY <2>2, ConfigAssumption DEF Results
  <1> HIDE DEF s, k, n
  <1>4. NewPasskey(s, k, n).subject = s BY DEF NewPasskey
  <1>5. NewPasskey(s, k, n) # NoRow
    <2>1. NewPasskey(s, k, n) \in PasskeyRow BY <1>3 DEF NewPasskey, PasskeyRow
    <2> QED BY <2>1, AbsentAssumption
  <1> QED BY <1>1, <1>2, <1>4, <1>5, OneRow

LEMMA AuthenticationRows ==
  ASSUME TypeOK, OwnersStored, NEW c \in Calls, CommitFinishAuthentication(c)
  PROVE  /\ RowsStep
         /\ \E p \in PasskeyIds :
              LET n == verified[c].counter IN
                /\ answer'[c].passkey = p /\ n \in Nat
                /\ passkeys[p] # NoRow /\ passkeys'[p] # NoRow
                /\ passkeys'[p].signCount \in Nat /\ n <= passkeys'[p].signCount
                /\ n > 0 => passkeys[p].signCount < n
  <1> DEFINE s == SubjectOf(c)
             n == verified[c].counter
  <1>1. Commits(c, "finish_authentication") /\ TransactionError(c) = "none"
        /\ Op(c) = "finish_authentication"
    BY DEF CommitFinishAuthentication, Commits
  <1>2. s \in Subjects /\ n \in Nat
    BY <1>1, CommitFields, ConfigAssumption
       DEF FinishOperations, SubjectOf, ChallengeRow, Results
  <1>3. /\ revision' = [revision EXCEPT ![s] = @ + 1] /\ subjects' = subjects
        /\ s \in subjects
    BY <1>1 DEF CommitFinishAuthentication, AdvanceCollection, TransactionError,
                FinishAuthenticationError
  <1>4. PICK p \in AuthenticatedRows(s, verified[c]) :
          /\ passkeys' = [passkeys EXCEPT ![p] = UsedPasskey(@, n)]
          /\ answer' = [answer EXCEPT ![c] =
               [subject |-> s, passkey |-> p, revision |-> revision[s] + 1, session |-> 0]]
    BY DEF CommitFinishAuthentication
  <1> DEFINE row == UsedPasskey(passkeys[p], n)
  <1>5. /\ p \in PasskeyIds /\ passkeys[p] # NoRow /\ passkeys[p] \in PasskeyRow
        /\ passkeys[p].subject = s /\ ~StaleCounter(passkeys[p].signCount, n)
        /\ passkeys \in [PasskeyIds -> PasskeyRow \cup {NoRow}]
    BY DEF AuthenticatedRows, ActiveRows, RowsOf, TypeOK, TablesTypeOK
  <1>6. answer'[c].passkey = p BY <1>4 DEF TypeOK, CallsTypeOK
  <1> HIDE DEF s, n
  <1>7. /\ row \in PasskeyRow /\ row.subject = passkeys[p].subject
        /\ row.signCount = IF n > passkeys[p].signCount THEN n ELSE passkeys[p].signCount
    <2>1. row \in PasskeyRow BY <1>2, <1>5, UsedPasskeyTypes
    <2> QED BY <1>2, <1>5, <2>1 DEF UsedPasskey, PasskeyRow
  <1>8. passkeys' = [passkeys EXCEPT ![p] = row] BY <1>4
  <1>9. passkeys[p].signCount \in Nat BY <1>5 DEF PasskeyRow
  <1> HIDE DEF row
  <1>10. row # NoRow BY <1>7, AbsentAssumption
  <1>11. row.subject = s /\ row.signCount \in Nat /\ row.signCount >= passkeys[p].signCount
         /\ row.signCount >= n
    BY <1>2, <1>5, <1>7, <1>9
  <1>12. RowsStep BY <1>3, <1>5, <1>8, <1>10, <1>11, OneRow
  <1>13. passkeys'[p] = row BY <1>5, <1>8
  <1>14. n > 0 => passkeys[p].signCount < n BY <1>2, <1>5, <1>9 DEF StaleCounter
  <1> QED BY <1>2, <1>5, <1>6, <1>10, <1>11, <1>12, <1>13, <1>14 DEF n

LEMMA RevocationRows ==
  ASSUME TypeOK, OwnersStored, NEW c \in Calls, CommitRevoke(c)
  PROVE  RowsStep
  <1>1. Commits(c, "revoke_passkey") /\ RevokeError(request[c]) = "none"
    BY DEF CommitRevoke, Commits, TransactionError
  <1>2. PICK s \in Subjects, p \in PasskeyIds : s = request[c].subject /\ p = request[c].passkey
    BY <1>1, CommitFields
  <1>3. CASE UNCHANGED <<passkeys, revision>>
    BY <1>3, SameTables DEF CommitRevoke
  <1>4. CASE /\ passkeys' = [passkeys EXCEPT ![p] = RevokedPasskey(@)]
             /\ AdvanceCollection(s)
    <2> DEFINE row == RevokedPasskey(passkeys[p])
    <2>1. /\ s \in subjects /\ passkeys[p] # NoRow /\ passkeys[p].subject = s
          /\ passkeys[p] \in PasskeyRow
      BY <1>1, <1>2 DEF RevokeError, RowsOf, TypeOK, TablesTypeOK
    <2>2. /\ row \in PasskeyRow /\ row.subject = s
          /\ row.signCount = passkeys[p].signCount /\ passkeys[p].signCount \in Nat
      <3>1. row \in PasskeyRow BY <2>1, RevokedPasskeyTypes
      <3> QED BY <2>1, <3>1 DEF RevokedPasskey, PasskeyRow
    <2>3. passkeys' = [passkeys EXCEPT ![p] = row] BY <1>4
    <2> HIDE DEF row
    <2>4. row # NoRow BY <2>2, AbsentAssumption
    <2>5. row.signCount >= passkeys[p].signCount BY <2>2
    <2>6. revision' = [revision EXCEPT ![s] = @ + 1] /\ subjects' = subjects
      BY <1>4 DEF AdvanceCollection, CommitRevoke
    <2> QED BY <2>1, <2>2, <2>3, <2>4, <2>5, <2>6, OneRow
  <1> QED BY <1>2, <1>3, <1>4 DEF CommitRevoke

LEMMA StepRows ==
  ASSUME TypeOK, OwnersStored, NEW c \in Calls, Step(c)
  PROVE  RowsStep
  <1>1. CASE CommitFinishRegistration(c) BY <1>1, RegistrationRows
  <1>2. CASE CommitFinishAuthentication(c) BY <1>2, AuthenticationRows
  <1>3. CASE CommitRevoke(c) BY <1>3, RevocationRows
  <1>4. ASSUME ~CommitFinishRegistration(c), ~CommitFinishAuthentication(c),
               ~CommitRevoke(c)
        PROVE  UNCHANGED <<revision, passkeys>> /\ subjects \subseteq subjects'
    BY <1>4 DEF Step, tables, PruneOldChallenges, PruneOldCommands, Claim, LoadCommand,
       Advance, MissChallenge, RefuseChallenge, AcceptChallenge, DirectoryInactive,
       DirectoryActive, VerifyRegistration, RefuseTransaction, CommitBeginRegistration,
       CommitBeginAuthentication, RecordError, IssueSession, IssuerDisabled,
       CommitReceipt, LoadSubject, LoadPasskeys
  <1> QED BY <1>1, <1>2, <1>3, <1>4, SameTables

-----------------------------------------------------------------------------
\* Listings

HasListed(c) ==
  pc[c] # "idle" /\ Op(c) = "list_passkeys" /\ "passkeys" \in DOMAIN answer[c]

\* A listing is not ahead of its subject, and complete while it is level with it.
ListingOK(c) ==
  LET s == request[c].subject IN
    /\ pc[c] \in {"load_passkeys", "done"} /\ HasListed(c) =>
         answer[c].revision \in Nat /\ answer[c].revision <= revision[s]
    /\ pc[c] = "done" /\ HasListed(c) /\ answer[c].revision = revision[s] =>
         answer[c].passkeys = Listing(s, request[c].all)

ListingInv == TypeOK /\ OwnersStored /\ \A c \in Calls : ListingOK(c)

LEMMA InitListing == Init => ListingInv
  <1> SUFFICES ASSUME Init PROVE ListingInv OBVIOUS
  <1>1. OwnersStored BY DEF Init, StorageInit, OwnersStored
  <1>2. ASSUME NEW c \in Calls PROVE ListingOK(c)
    BY DEF Init, Quiet, ListingOK, HasListed
  <1> QED BY <1>1, <1>2, InitTypes DEF ListingInv

\* The subject of a listing, and what its rows say.
LEMMA ListedSubject ==
  ASSUME TypeOK, NEW c \in Calls, pc[c] # "idle", Op(c) = "list_passkeys"
  PROVE  request[c].subject \in Subjects
  BY RunningCall, RequestFields DEF Op

LEMMA SameListing ==
  ASSUME TypeOK, NEW s, SameRows(s), NEW all
  PROVE  Listing(s, all)' = Listing(s, all)
  <1>1. \A p \in PasskeyIds :
          /\ p \in RowsOf(s)' <=> p \in RowsOf(s)
          /\ p \in ActiveRows(s)' <=> p \in ActiveRows(s)
          /\ p \in RowsOf(s) => passkeys'[p] = passkeys[p]
    BY DEF SameRows, RowsOf, ActiveRows
  <1>2. RowsOf(s)' = RowsOf(s) /\ ActiveRows(s)' = ActiveRows(s)
        /\ ActiveRows(s) \subseteq RowsOf(s) /\ RowsOf(s) \subseteq PasskeyIds
    BY <1>1 DEF RowsOf, ActiveRows
  <1> DEFINE listed == IF all THEN RowsOf(s) ELSE ActiveRows(s)
  <1>3. \A p \in listed : passkeys'[p] = passkeys[p] BY <1>1, <1>2
  <1>4. Listing(s, all) = {[passkey |-> p, row |-> passkeys[p]] : p \in listed}
    BY DEF Listing
  <1>5. Listing(s, all)' = {[passkey |-> p, row |-> passkeys'[p]] : p \in listed}
    BY <1>2 DEF Listing
  <1> HIDE DEF listed
  <1> QED BY <1>3, <1>4, <1>5

\* A listing its call leaves alone stays right whatever happens to the rows.
LEMMA ListingKept ==
  ASSUME TypeOK, RowsStep, NEW c \in Calls, ListingOK(c),
         pc'[c] = pc[c], request'[c] = request[c], answer'[c] = answer[c]
  PROVE  ListingOK(c)'
  <1> DEFINE s == request[c].subject
  <1>1. HasListed(c)' = HasListed(c) BY DEF HasListed, Op
  <1>2. CASE ~HasListed(c) BY <1>1, <1>2 DEF ListingOK
  <1>3. CASE HasListed(c)
    <2>1. s \in Subjects BY <1>3, ListedSubject DEF HasListed
    <2>2. /\ revision \in [Subjects -> Nat]
          /\ \/ revision'[s] = revision[s] /\ SameRows(s)
             \/ revision'[s] = revision[s] + 1
      BY <2>1 DEF RowsStep, RevisionCounts, TypeOK, TablesTypeOK
    <2>3. CASE revision'[s] = revision[s] /\ SameRows(s)
      <3>1. Listing(s, request[c].all)' = Listing(s, request[c].all)
        BY <2>3, SameListing
      <3> QED BY <1>1, <1>3, <2>3, <3>1 DEF ListingOK
    <2>4. CASE revision'[s] = revision[s] + 1
      BY <1>1, <1>3, <2>1, <2>2, <2>4 DEF ListingOK
    <2> QED BY <2>2, <2>3, <2>4
  <1> QED BY <1>2, <1>3

\* The two reads of a listing, and what comes before them.
LEMMA ListingReads ==
  ASSUME ListingInv, NEW c \in Calls, Step(c), Op(c) = "list_passkeys"
  PROVE  ListingOK(c)'
  <1> DEFINE s == request[c].subject
  <1>1. /\ TypeOK /\ OwnersStored /\ Op(c) \in StageOperations(pc[c])
        /\ pc[c] # "idle" /\ answer \in [Calls -> Answers \cup {NoRow}]
        /\ pc \in [Calls -> Stages]
    <2>1. pc[c] # "idle"
      BY DEF Step, PruneOldChallenges, PruneOldCommands, Claim, LoadCommand, Advance,
         MissChallenge, RefuseChallenge, AcceptChallenge, DirectoryInactive,
         DirectoryActive, VerifyRegistration, RefuseTransaction, CommitBeginRegistration,
         CommitBeginAuthentication, CommitFinishRegistration, CommitFinishAuthentication,
         CommitRevoke, Commits, RecordError, IssueSession, IssuerDisabled, CommitReceipt,
         LoadSubject, LoadPasskeys
    <2> QED BY <2>1, RunningCall DEF ListingInv, TypeOK, CallsTypeOK
  <1>2. s \in Subjects /\ revision[s] \in Nat
    BY <1>1, ListedSubject DEF TypeOK, TablesTypeOK
  <1>3. pc[c] \in {"directory", "load_subject", "load_passkeys", "done"}
    BY <1>1 DEF StageOperations, FinishOperations, Stages
  <1>4. DirectoryInactive(c) \/ DirectoryActive(c) \/ LoadSubject(c) \/ LoadPasskeys(c)
    BY <1>3 DEF Step, PruneOldChallenges, PruneOldCommands, Claim, LoadCommand, Advance,
       MissChallenge, RefuseChallenge, AcceptChallenge, VerifyRegistration,
       RefuseTransaction, CommitBeginRegistration, CommitBeginAuthentication,
       CommitFinishRegistration, CommitFinishAuthentication, CommitRevoke, Commits,
       RecordError, IssueSession, IssuerDisabled, CommitReceipt
  <1>5. request' = request /\ UNCHANGED <<subjects, revision, passkeys>>
    BY <1>4 DEF DirectoryInactive, DirectoryActive, LoadSubject, LoadPasskeys, tables
  <1>6. CASE DirectoryInactive(c)
    <2>1. answer'[c] = Error("disabled")
      BY <1>1, <1>6 DEF DirectoryInactive, Answer
    <2>2. "passkeys" \notin DOMAIN answer'[c] BY <2>1 DEF Error
    <2> QED BY <2>2 DEF ListingOK, HasListed
  <1>7. CASE DirectoryActive(c)
    <2>1. pc'[c] = "load_subject" BY <1>1, <1>7 DEF DirectoryActive, GoTo
    <2> QED BY <2>1 DEF ListingOK
  <1>8. CASE LoadSubject(c)
    <2>1. /\ answer'[c] = [revision |-> revision[s], passkeys |-> {}]
          /\ pc'[c] = "done" => s \notin subjects
      BY <1>1, <1>8 DEF LoadSubject, Answer, GoTo
    <2>2. answer'[c].revision = revision[s] /\ answer'[c].passkeys = {} BY <2>1
    <2>3. s \notin subjects => RowsOf(s) = {} BY <1>1 DEF OwnersStored, RowsOf
    <2>4. s \notin subjects => Listing(s, request[c].all)' = {}
      BY <1>5, <2>3 DEF Listing, RowsOf, ActiveRows
    <2> QED BY <1>2, <1>5, <2>1, <2>2, <2>4 DEF ListingOK
  <1>9. CASE LoadPasskeys(c)
    <2>1. pc[c] = "load_passkeys" /\ answer[c] \in Listed
      BY <1>1, <1>9, RunningCall DEF LoadPasskeys
    <2>2. HasListed(c) BY <1>1, <2>1 DEF HasListed, Listed
    <2>3. answer[c].revision \in Nat /\ answer[c].revision <= revision[s]
      BY <2>1, <2>2 DEF ListingInv, ListingOK
    <2>4. answer'[c] = [answer[c] EXCEPT !.passkeys = Listing(s, request[c].all)]
      BY <1>1, <1>9 DEF LoadPasskeys, Answer
    <2>5. /\ answer'[c].revision = answer[c].revision
          /\ answer'[c].passkeys = Listing(s, request[c].all)
      BY <2>1, <2>4 DEF Listed
    <2>6. Listing(s, request[c].all)' = Listing(s, request[c].all)
      BY <1>5 DEF Listing, RowsOf, ActiveRows
    <2> QED BY <1>5, <2>3, <2>5, <2>6 DEF ListingOK
  <1> QED BY <1>4, <1>6, <1>7, <1>8, <1>9

LEMMA StepListing ==
  ASSUME ListingInv, NEW c \in Calls, Step(c)
  PROVE  ListingOK(c)'
  <1>1. CASE Op(c) = "list_passkeys" BY <1>1, ListingReads
  <1>2. CASE Op(c) # "list_passkeys"
    <2>1. request' = request
      BY DEF Step, PruneOldChallenges, PruneOldCommands, Claim, LoadCommand, Advance,
         MissChallenge, RefuseChallenge, AcceptChallenge, DirectoryInactive,
         DirectoryActive, VerifyRegistration, RefuseTransaction, CommitBeginRegistration,
         CommitBeginAuthentication, CommitFinishRegistration, CommitFinishAuthentication,
         CommitRevoke, RecordError, IssueSession, IssuerDisabled, CommitReceipt,
         LoadSubject, LoadPasskeys
    <2> QED BY <1>2, <2>1 DEF ListingOK, HasListed, Op
  <1> QED BY <1>1, <1>2

\* A call that arrives has listed nothing.
LEMMA ArrivalListing ==
  ASSUME ListingInv, NEW c \in Calls, Receive(c) \/ Return(c) \/ Abandon(c)
  PROVE  ListingOK(c)'
  <1>1. /\ pc \in [Calls -> Stages] /\ answer \in [Calls -> Answers \cup {NoRow}]
    BY DEF ListingInv, TypeOK, CallsTypeOK
  <1>2. CASE Return(c) \/ Abandon(c)
    <2>1. pc'[c] = "idle" BY <1>1, <1>2 DEF Return, Abandon, Clear, GoTo
    <2> QED BY <2>1 DEF ListingOK
  <1>3. CASE Receive(c)
    <2>1. PICK r \in Requests :
            \/ Answer(c, Error("forbidden")) \/ Answer(c, Error("invalid_request"))
            \/ GoTo(c, FirstStage(r.op))
      BY <1>3 DEF Receive
    <2>2. CASE GoTo(c, FirstStage(r.op))
      <3>1. pc'[c] \in {"prune_challenges", "directory", "claim"}
        BY <1>1, <2>2 DEF GoTo, FirstStage
      <3> QED BY <3>1 DEF ListingOK
    <2>3. CASE Answer(c, Error("forbidden")) \/ Answer(c, Error("invalid_request"))
      <3>1. \E code : answer'[c] = Error(code) BY <1>1, <2>3 DEF Answer
      <3>2. "passkeys" \notin DOMAIN answer'[c] BY <3>1 DEF Error
      <3> QED BY <3>2 DEF ListingOK, HasListed
    <2> QED BY <2>1, <2>2, <2>3
  <1> QED BY <1>2, <1>3

LEMMA NextListing == ListingInv /\ [Next]_vars => ListingInv'
  <1> SUFFICES ASSUME ListingInv, [Next]_vars
               PROVE  OwnersStored' /\ \A d \in Calls : ListingOK(d)'
    BY NextTypes DEF ListingInv
  <1>1. TypeOK /\ OwnersStored /\ \A d \in Calls : ListingOK(d) BY DEF ListingInv
  <1>2. ASSUME NEW c \in Calls, Receive(c) \/ Return(c) \/ Abandon(c)
        PROVE  OwnersStored' /\ \A d \in Calls : ListingOK(d)'
    <2>1. OthersKept(c) BY <1>1, <1>2, ArrivalTakesNone
    <2>2. RowsStep
      BY <1>1, <1>2, SameTables DEF Receive, Return, Abandon, tables
    <2>3. ListingOK(c)' BY <1>2, ArrivalListing
    <2>4. \A d \in Calls \ {c} : ListingOK(d)'
      BY <1>1, <2>1, <2>2, ListingKept DEF OthersKept
    <2> QED BY <2>2, <2>3, <2>4 DEF RowsStep
  <1>3. ASSUME NEW c \in Calls, Step(c)
        PROVE  OwnersStored' /\ \A d \in Calls : ListingOK(d)'
    <2>1. OthersKept(c) BY <1>1, <1>3, StepOthersKept
    <2>2. RowsStep BY <1>1, <1>3, StepRows
    <2>3. ListingOK(c)' BY <1>3, StepListing
    <2>4. \A d \in Calls \ {c} : ListingOK(d)'
      BY <1>1, <2>1, <2>2, ListingKept DEF OthersKept
    <2> QED BY <2>2, <2>3, <2>4 DEF RowsStep
  <1>4. CASE ChangeDirectory \/ Tick \/ UNCHANGED vars
    <2>1. UNCHANGED <<subjects, revision, passkeys, calls>>
      BY <1>4 DEF ChangeDirectory, Tick, Expire, vars, tables
    <2>2. RowsStep BY <1>1, <2>1, SameTables
    <2>3. \A d \in Calls : ListingOK(d)' BY <1>1, <2>1, <2>2, ListingKept DEF calls
    <2> QED BY <2>2, <2>3 DEF RowsStep
  <1> QED BY <1>2, <1>3, <1>4 DEF Next

\* A list whose revision is still the subject's is the list of the subject's rows,
\* although list_passkeys reads the two in separate statements.
THEOREM ListedViewStaysCurrent == Spec => []ListedViewIsCurrent
  <1>1. ListingInv => ListedViewIsCurrent
    BY DEF ListingInv, ListingOK, HasListed, ListedViewIsCurrent
  <1> QED BY <1>1, InitListing, NextListing, PTL DEF Spec

-----------------------------------------------------------------------------
\* Counters

\* The row has seen the counter.
Counted(p, n) == passkeys[p] # NoRow /\ n <= passkeys[p].signCount

Clash(p, n, session) == n > 0 /\ session.passkey = p /\ session.counter = n

\* The session a call is about to ask for.
Owed(c) == [passkey |-> answer[c].passkey, counter |-> verified[c].counter]

SessionsCounted ==
  \A i \in 1..Len(sessions) : Counted(sessions[i].passkey, sessions[i].counter)

OwedCounted == \A c \in Calls : pc[c] = "issue" => Counted(Owed(c).passkey, Owed(c).counter)

\* A call about to ask for a session has a counter of its own.
OwedFresh ==
  \A c \in Calls :
    pc[c] = "issue" =>
      /\ \A i \in 1..Len(sessions) : ~Clash(Owed(c).passkey, Owed(c).counter, sessions[i])
      /\ \A d \in Calls \ {c} :
           pc[d] = "issue" => ~Clash(Owed(c).passkey, Owed(c).counter, Owed(d))

CounterInv ==
  TypeOK /\ OwnersStored /\ SessionsCounted /\ OwedCounted /\ OwedFresh /\ CounterNeverReused

LEMMA InitCounters == Init => CounterInv
  <1> SUFFICES ASSUME Init PROVE CounterInv OBVIOUS
  <1>1. OwnersStored BY DEF Init, StorageInit, OwnersStored
  <1>2. Len(sessions) = 0 /\ \A c \in Calls : pc[c] # "issue" BY DEF Init, Quiet
  <1> QED BY <1>1, <1>2, InitTypes
          DEF CounterInv, SessionsCounted, OwedCounted, OwedFresh, CounterNeverReused

LEMMA SessionFields ==
  ASSUME TypeOK, NEW i \in 1..Len(sessions)
  PROVE  sessions[i].passkey \in PasskeyIds /\ sessions[i].counter \in Nat
  <1>1. sessions[i] \in Session BY DEF TypeOK, WorldTypeOK
  <1> QED BY <1>1, ConfigAssumption DEF Session

LEMMA OwedFields ==
  ASSUME TypeOK, NEW c \in Calls, pc[c] = "issue"
  PROVE  /\ Owed(c).passkey = answer[c].passkey /\ Owed(c).counter = verified[c].counter
         /\ Owed(c).passkey \in PasskeyIds /\ Owed(c).counter \in Nat
  <1>1. answer[c] \in Authenticated /\ verified[c] \in Results
    BY RunningCall DEF HoldsResult, HoldsCeremony, StageOperations, FinishOperations
  <1> QED BY <1>1, ConfigAssumption DEF Owed, Authenticated, Results

LEMMA CountedKept ==
  ASSUME TypeOK, TypeOK', RowsStep, NEW p \in PasskeyIds, NEW n \in Nat, Counted(p, n)
  PROVE  Counted(p, n)'
  <1>1. /\ passkeys[p] # NoRow /\ passkeys'[p] # NoRow
        /\ passkeys'[p].signCount >= passkeys[p].signCount
    BY DEF Counted, RowsStep, CountersGrow
  <1>2. passkeys[p].signCount \in Nat /\ passkeys'[p].signCount \in Nat
    BY <1>1 DEF TypeOK, TablesTypeOK, PasskeyRow
  <1> QED BY <1>1, <1>2 DEF Counted

LEMMA SessionsStayCounted ==
  ASSUME TypeOK, TypeOK', RowsStep, SessionsCounted, sessions' = sessions
  PROVE  SessionsCounted'
  <1> SUFFICES ASSUME NEW i \in 1..Len(sessions)
               PROVE  Counted(sessions[i].passkey, sessions[i].counter)'
    BY DEF SessionsCounted
  <1>1. Counted(sessions[i].passkey, sessions[i].counter) BY DEF SessionsCounted
  <1>2. passkeys'[sessions[i].passkey] # NoRow
        /\ sessions[i].counter <= passkeys'[sessions[i].passkey].signCount
    BY <1>1, SessionFields, CountedKept DEF Counted
  <1> QED BY <1>2 DEF Counted

\* The call owes no session that it did not owe before.
OwesNoMore(c) ==
  pc'[c] = "issue" =>
    pc[c] = "issue" /\ answer'[c] = answer[c] /\ verified'[c] = verified[c]

LEMMA OwedStaysCounted ==
  ASSUME TypeOK, TypeOK', RowsStep, OwedCounted, NEW c \in Calls, OwesNoMore(c),
         pc'[c] = "issue"
  PROVE  Counted(Owed(c).passkey, Owed(c).counter)'
  <1>1. pc[c] = "issue" /\ Owed(c)' = Owed(c) BY DEF OwesNoMore, Owed
  <1>2. Counted(Owed(c).passkey, Owed(c).counter) BY <1>1 DEF OwedCounted
  <1> DEFINE p == Owed(c).passkey
             n == Owed(c).counter
  <1>3. passkeys'[p] # NoRow /\ n <= passkeys'[p].signCount
    BY <1>1, <1>2, OwedFields, CountedKept DEF Counted
  <1> QED BY <1>1, <1>3 DEF Counted

\* A step after which every call owes what it owed, or nothing.
LEMMA NothingOwed ==
  ASSUME CounterInv, TypeOK', RowsStep, \A c \in Calls : OwesNoMore(c), sessions' = sessions
  PROVE  /\ SessionsCounted' /\ OwedCounted' /\ OwedFresh' /\ CounterNeverReused'
  <1>1. SessionsCounted' BY SessionsStayCounted DEF CounterInv
  <1>2. OwedCounted' BY OwedStaysCounted DEF CounterInv, OwedCounted
  <1>3. \A c \in Calls : pc'[c] = "issue" => pc[c] = "issue" /\ Owed(c)' = Owed(c)
    BY DEF OwesNoMore, Owed
  <1>4. OwedFresh' BY <1>3 DEF CounterInv, OwedFresh, Clash
  <1>5. CounterNeverReused' BY DEF CounterInv, CounterNeverReused
  <1> QED BY <1>1, <1>2, <1>4, <1>5

LEMMA StepOwesNoMore ==
  ASSUME TypeOK, NEW c \in Calls, Step(c), ~CommitFinishAuthentication(c)
  PROVE  pc'[c] # "issue"
  <1> USE DEF TypeOK, CallsTypeOK, GoTo, Answer, Refuse
  <1>1. CASE Claim(c) BY <1>1 DEF Claim, ClaimedStage
  <1>2. CASE AcceptChallenge(c)
    BY <1>2 DEF AcceptChallenge, AcceptRegistrationChallenge, AcceptAuthenticationChallenge
  <1>3. CASE PruneOldChallenges(c) \/ PruneOldCommands(c) \/ LoadCommand(c) \/ Advance(c)
    BY <1>3 DEF PruneOldChallenges, PruneOldCommands, LoadCommand, Advance
  <1>4. CASE MissChallenge(c) \/ RefuseChallenge(c) \/ DirectoryInactive(c)
             \/ DirectoryActive(c) \/ VerifyRegistration(c) \/ RefuseTransaction(c)
    BY <1>4 DEF MissChallenge, RefuseChallenge, DirectoryInactive, DirectoryActive,
                VerifyRegistration, RefuseTransaction
  <1>5. CASE CommitBeginRegistration(c) \/ CommitBeginAuthentication(c)
             \/ CommitFinishRegistration(c) \/ CommitRevoke(c) \/ CommitReceipt(c)
    BY <1>5 DEF CommitBeginRegistration, CommitBeginAuthentication,
                CommitFinishRegistration, CommitRevoke, CommitReceipt, CommitAnswer
  <1>6. CASE RecordError(c) \/ IssueSession(c) \/ IssuerDisabled(c) \/ LoadSubject(c)
             \/ LoadPasskeys(c)
    BY <1>6 DEF RecordError, IssueSession, IssuerDisabled, LoadSubject, LoadPasskeys
  <1> QED BY <1>1, <1>2, <1>3, <1>4, <1>5, <1>6 DEF Step

\* The row refuses a counter that any session or other call already rests on.
LEMMA AuthenticationOwes ==
  ASSUME CounterInv, TypeOK', NEW c \in Calls, CommitFinishAuthentication(c)
  PROVE  /\ SessionsCounted' /\ OwedCounted' /\ OwedFresh' /\ CounterNeverReused'
  <1>1. TypeOK /\ OwnersStored /\ Step(c) BY DEF CounterInv, Step
  <1>2. /\ pc[c] # "issue" /\ sessions' = sessions /\ verified' = verified
    BY DEF CommitFinishAuthentication, Commits, world
  <1>3. OthersKept(c) BY <1>1, StepOthersKept
  <1>4. RowsStep BY <1>1, AuthenticationRows
  <1>5. PICK p \in PasskeyIds :
          LET n == verified[c].counter IN
            /\ answer'[c].passkey = p /\ n \in Nat
            /\ passkeys[p] # NoRow /\ passkeys'[p] # NoRow
            /\ passkeys'[p].signCount \in Nat /\ n <= passkeys'[p].signCount
            /\ n > 0 => passkeys[p].signCount < n
    BY <1>1, AuthenticationRows
  <1> DEFINE n == verified[c].counter
  <1>6. Owed(c)'.passkey = p /\ Owed(c)'.counter = n BY <1>2, <1>5 DEF Owed
  <1>7. passkeys[p].signCount \in Nat BY <1>1, <1>5 DEF TypeOK, TablesTypeOK, PasskeyRow
  <1>8. ASSUME NEW session, session.counter \in Nat,
               Counted(session.passkey, session.counter)
        PROVE  ~Clash(p, n, session)
    BY <1>5, <1>7, <1>8 DEF Counted, Clash
  <1>9. \A d \in Calls \ {c} :
          /\ OwesNoMore(d)
          /\ pc'[d] = "issue" => pc[d] = "issue" /\ Owed(d)' = Owed(d)
    BY <1>3 DEF OthersKept, OwesNoMore, Owed
  <1>10. SessionsCounted' BY <1>1, <1>2, <1>4, SessionsStayCounted DEF CounterInv
  <1>11. OwedCounted'
    <2>1. Counted(Owed(c).passkey, Owed(c).counter)' BY <1>5, <1>6 DEF Counted
    <2>2. \A d \in Calls \ {c} :
            pc'[d] = "issue" => Counted(Owed(d).passkey, Owed(d).counter)'
      BY <1>1, <1>4, <1>9, OwedStaysCounted DEF CounterInv
    <2> QED BY <2>1, <2>2 DEF OwedCounted
  <1>12. \A i \in 1..Len(sessions) : ~Clash(p, n, sessions[i])
    BY <1>1, <1>8, SessionFields DEF CounterInv, SessionsCounted
  <1>13. \A d \in Calls \ {c} : pc[d] = "issue" => ~Clash(p, n, Owed(d))
    BY <1>1, <1>8, OwedFields DEF CounterInv, OwedCounted
  <1> HIDE DEF n
  <1>14. OwedFresh'
    <2>1. ASSUME NEW d \in Calls, pc'[d] = "issue", NEW i \in 1..Len(sessions)
          PROVE  ~Clash(Owed(d)'.passkey, Owed(d)'.counter, sessions[i])
      BY <1>6, <1>9, <1>12, <2>1 DEF CounterInv, OwedFresh
    <2>2. ASSUME NEW d \in Calls, NEW e \in Calls \ {d}, pc'[d] = "issue", pc'[e] = "issue"
          PROVE  ~Clash(Owed(d)'.passkey, Owed(d)'.counter, Owed(e)')
      <3>1. CASE d = c BY <1>6, <1>9, <1>13, <2>2, <3>1
      <3>2. CASE e = c BY <1>6, <1>9, <1>13, <2>2, <3>2 DEF Clash
      <3>3. CASE d # c /\ e # c BY <1>9, <2>2, <3>3 DEF CounterInv, OwedFresh
      <3> QED BY <3>1, <3>2, <3>3
    <2> QED BY <1>2, <2>1, <2>2 DEF OwedFresh, Clash
  <1>15. CounterNeverReused' BY <1>2 DEF CounterInv, CounterNeverReused
  <1> QED BY <1>10, <1>11, <1>14, <1>15

LEMMA IssueCounts ==
  ASSUME CounterInv, TypeOK', NEW c \in Calls, IssueSession(c)
  PROVE  /\ SessionsCounted' /\ OwedCounted' /\ OwedFresh' /\ CounterNeverReused'
  <1>1. TypeOK /\ OwnersStored /\ Step(c) /\ pc[c] = "issue"
    BY DEF CounterInv, Step, IssueSession
  <1>2. OthersKept(c) /\ pc'[c] # "issue" /\ RowsStep
    <2>1. ~CommitFinishAuthentication(c) BY <1>1 DEF CommitFinishAuthentication, Commits
    <2> QED BY <1>1, <2>1, StepOthersKept, StepOwesNoMore, StepRows
  <1>3. PICK new : /\ sessions' = Append(sessions, new) /\ new = SessionFor(c)
    BY DEF IssueSession
  <1>4. new.passkey = Owed(c).passkey /\ new.counter = Owed(c).counter
    BY <1>3 DEF SessionFor, Owed
  <1> HIDE DEF Owed
  <1>5. sessions \in Seq(Session) BY <1>1 DEF TypeOK, WorldTypeOK
  <1>6. /\ Len(sessions) \in Nat /\ Len(sessions') = Len(sessions) + 1
        /\ \A i \in 1..Len(sessions) : sessions'[i] = sessions[i]
        /\ sessions'[Len(sessions) + 1] = new
        /\ \A i \in 1..Len(sessions') : i \in 1..Len(sessions) \/ i = Len(sessions) + 1
    BY <1>3, <1>5
  <1>7. UNCHANGED <<passkeys, verified>> BY DEF IssueSession, tables
  <1>8. \A d \in Calls :
          pc'[d] = "issue" => d # c /\ pc[d] = "issue" /\ Owed(d)' = Owed(d)
    BY <1>2 DEF OthersKept, Owed
  <1>9. SessionsCounted'
    <2>1. Counted(new.passkey, new.counter) BY <1>1, <1>4 DEF CounterInv, OwedCounted
    <2> QED BY <1>6, <1>7, <2>1 DEF CounterInv, SessionsCounted, Counted
  <1>10. OwedCounted' BY <1>7, <1>8 DEF CounterInv, OwedCounted, Counted
  <1>11. OwedFresh'
    <2>1. ASSUME NEW d \in Calls, pc'[d] = "issue", NEW i \in 1..Len(sessions')
          PROVE  ~Clash(Owed(d)'.passkey, Owed(d)'.counter, sessions'[i])
      <3>1. d # c /\ pc[d] = "issue" /\ Owed(d)' = Owed(d) BY <1>8, <2>1
      <3>2. CASE i \in 1..Len(sessions)
        BY <1>6, <3>1, <3>2 DEF CounterInv, OwedFresh
      <3>3. CASE i = Len(sessions) + 1
        <4>1. ~Clash(Owed(d).passkey, Owed(d).counter, Owed(c))
          BY <1>1, <3>1 DEF CounterInv, OwedFresh
        <4> QED BY <1>4, <1>6, <3>1, <3>3, <4>1 DEF Clash
      <3> QED BY <1>6, <3>2, <3>3
    <2>2. ASSUME NEW d \in Calls, NEW e \in Calls \ {d}, pc'[d] = "issue", pc'[e] = "issue"
          PROVE  ~Clash(Owed(d)'.passkey, Owed(d)'.counter, Owed(e)')
      BY <1>8, <2>2 DEF CounterInv, OwedFresh
    <2> QED BY <2>1, <2>2 DEF OwedFresh, Clash
  <1>12. CounterNeverReused'
    <2>1. \A i \in 1..Len(sessions) : ~Clash(new.passkey, new.counter, sessions[i])
      BY <1>1, <1>4 DEF CounterInv, OwedFresh
    <2> QED BY <1>6, <2>1 DEF CounterInv, CounterNeverReused, Clash
  <1> QED BY <1>9, <1>10, <1>11, <1>12

LEMMA NextCounters == CounterInv /\ [Next]_vars => CounterInv'
  <1> SUFFICES ASSUME CounterInv, [Next]_vars PROVE CounterInv' OBVIOUS
  <1>1. TypeOK /\ OwnersStored /\ TypeOK' BY NextTypes DEF CounterInv
  <1>2. ASSUME NEW c \in Calls, Receive(c) \/ Return(c) \/ Abandon(c)
        PROVE  CounterInv'
    <2>1. OthersKept(c) BY <1>1, <1>2, ArrivalTakesNone
    <2>2. RowsStep /\ sessions' = sessions
      BY <1>1, <1>2, SameTables DEF Receive, Return, Abandon, tables, world
    <2>3. pc'[c] # "issue"
      BY <1>1, <1>2 DEF Receive, Return, Abandon, Answer, Clear, GoTo, FirstStage,
                        TypeOK, CallsTypeOK
    <2>4. \A d \in Calls : OwesNoMore(d) BY <2>1, <2>3 DEF OthersKept, OwesNoMore
    <2> QED BY <1>1, <2>2, <2>4, NothingOwed DEF CounterInv, RowsStep
  <1>3. ASSUME NEW c \in Calls, Step(c)
        PROVE  CounterInv'
    <2>1. RowsStep BY <1>1, <1>3, StepRows
    <2>2. CASE CommitFinishAuthentication(c)
      BY <1>1, <2>1, <2>2, AuthenticationOwes DEF CounterInv, RowsStep
    <2>3. CASE IssueSession(c) BY <1>1, <2>1, <2>3, IssueCounts DEF CounterInv, RowsStep
    <2>4. CASE ~CommitFinishAuthentication(c) /\ ~IssueSession(c)
      <3>1. OthersKept(c) /\ pc'[c] # "issue"
        BY <1>1, <1>3, <2>4, StepOthersKept, StepOwesNoMore
      <3>2. \A d \in Calls : OwesNoMore(d) BY <3>1 DEF OthersKept, OwesNoMore
      <3>3. sessions' = sessions
        BY <1>3, <2>4 DEF Step, world, PruneOldChallenges, PruneOldCommands, Claim,
           LoadCommand, Advance, MissChallenge, RefuseChallenge, AcceptChallenge,
           DirectoryInactive, DirectoryActive, VerifyRegistration, RefuseTransaction,
           CommitBeginRegistration, CommitBeginAuthentication, CommitFinishRegistration,
           CommitRevoke, RecordError, IssuerDisabled, CommitReceipt, LoadSubject,
           LoadPasskeys
      <3> QED BY <1>1, <2>1, <3>2, <3>3, NothingOwed DEF CounterInv, RowsStep
    <2> QED BY <2>2, <2>3, <2>4
  <1>4. CASE ChangeDirectory \/ Tick \/ UNCHANGED vars
    <2>1. UNCHANGED <<subjects, revision, passkeys, calls, sessions>>
      BY <1>4 DEF ChangeDirectory, Tick, Expire, vars, tables, world
    <2>2. RowsStep BY <1>1, <2>1, SameTables
    <2>3. \A d \in Calls : OwesNoMore(d) BY <2>1 DEF calls, OwesNoMore
    <2> QED BY <1>1, <2>1, <2>2, <2>3, NothingOwed DEF CounterInv, RowsStep
  <1> QED BY <1>2, <1>3, <1>4 DEF Next

\* No two sessions of a passkey rest on the same nonzero counter, whatever number of
\* ceremonies was open when it was reported.
THEOREM CountersNotReused == Spec => []CounterNeverReused
  <1>1. CounterInv => CounterNeverReused BY DEF CounterInv
  <1> QED BY <1>1, InitCounters, NextCounters, PTL DEF Spec

-----------------------------------------------------------------------------
\* The collections implement CredentialSet: every commit that touches a passkey
\* enrolls, uses or retires one credential. A credential has one row, so its
\* counter is that row's and no enrolment takes a credential that has one.

\* The UNIQUE constraint on credential_id.
OneRowPerCredential ==
  \A p, q \in PasskeyIds :
    (passkeys[p] # NoRow /\ passkeys[q] # NoRow
       /\ passkeys[p].credential = passkeys[q].credential) => p = q

CredentialInv == LimitInv /\ OneRowPerCredential

\* The collections as CredentialSet sees them.
Actives == [s \in Subjects |-> CredentialsOf(ActiveRows(s))]
Retireds == [s \in Subjects |-> CredentialsOf(RowsOf(s) \ ActiveRows(s))]
CounterOf(k) == IF CredentialTaken(k) THEN passkeys[RowOf(k)].signCount ELSE 0
CountersSeen == [k \in Credentials |-> CounterOf(k)]

ViewOK ==
  /\ \A s \in Subjects : \A k :
       /\ k \in Actives[s] <=>
            \E p \in PasskeyIds : /\ passkeys[p] # NoRow /\ passkeys[p].subject = s
                                  /\ ~passkeys[p].revoked /\ passkeys[p].credential = k
       /\ k \in Retireds[s] <=>
            \E p \in PasskeyIds : /\ passkeys[p] # NoRow /\ passkeys[p].subject = s
                                  /\ passkeys[p].revoked /\ passkeys[p].credential = k
  /\ \A k \in Credentials :
       (\A p \in PasskeyIds : passkeys[p] # NoRow => passkeys[p].credential # k)
         => CountersSeen[k] = 0
  /\ \A p \in PasskeyIds :
       passkeys[p] # NoRow => CountersSeen[passkeys[p].credential] = passkeys[p].signCount

LEMMA ViewKnown == CredentialInv => ViewOK
  <1> SUFFICES ASSUME CredentialInv PROVE ViewOK OBVIOUS
  <1>1. ASSUME NEW s \in Subjects, NEW k
        PROVE  /\ k \in Actives[s] <=>
                    \E p \in PasskeyIds :
                      /\ passkeys[p] # NoRow /\ passkeys[p].subject = s
                      /\ ~passkeys[p].revoked /\ passkeys[p].credential = k
               /\ k \in Retireds[s] <=>
                    \E p \in PasskeyIds :
                      /\ passkeys[p] # NoRow /\ passkeys[p].subject = s
                      /\ passkeys[p].revoked /\ passkeys[p].credential = k
    BY DEF Actives, Retireds, CredentialsOf, ActiveRows, RowsOf
  <1>2. ASSUME NEW k \in Credentials,
               \A p \in PasskeyIds : passkeys[p] # NoRow => passkeys[p].credential # k
        PROVE  CountersSeen[k] = 0
    BY <1>2 DEF CountersSeen, CounterOf, CredentialTaken
  <1>3. ASSUME NEW p \in PasskeyIds, passkeys[p] # NoRow
        PROVE  CountersSeen[passkeys[p].credential] = passkeys[p].signCount
    <2>1. PICK k \in Credentials : k = passkeys[p].credential
      BY <1>3 DEF CredentialInv, LimitInv, TypeOK, TablesTypeOK, PasskeyRow
    <2>2. \A q \in PasskeyIds : passkeys[q] # NoRow /\ passkeys[q].credential = k <=> q = p
      BY <1>3, <2>1 DEF CredentialInv, OneRowPerCredential
    <2>3. RowOf(k) = p BY <2>2 DEF RowOf
    <2>4. CredentialTaken(k) BY <1>3, <2>1 DEF CredentialTaken
    <2> QED BY <2>1, <2>3, <2>4 DEF CountersSeen, CounterOf
  <1> QED BY <1>1, <1>2, <1>3 DEF ViewOK

\* A subject has no more active credentials than active rows.
LEMMA ActivesBounded ==
  ASSUME ActiveRowsFinite, NEW s \in Subjects
  PROVE  /\ Cardinality(Actives[s]) \in Nat /\ Cardinality(ActiveRows(s)) \in Nat
         /\ Cardinality(Actives[s]) <= Cardinality(ActiveRows(s))
  <1> DEFINE f == [p \in ActiveRows(s) |-> passkeys[p].credential]
  <1>1. f \in Surjection(ActiveRows(s), Actives[s])
    BY DEF Surjection, Actives, CredentialsOf
  <1>2. IsFiniteSet(ActiveRows(s)) BY DEF ActiveRowsFinite
  <1>3. IsFiniteSet(Actives[s]) /\ Cardinality(Actives[s]) <= Cardinality(ActiveRows(s))
    <2> HIDE DEF f
    <2> QED BY <1>1, <1>2, FS_Surjection
  <1> QED BY <1>2, <1>3, FS_CardinalityType

LEMMA InitCredentials == Init => CredentialInv
  BY InitLimit DEF Init, StorageInit, CredentialInv, OneRowPerCredential

\* Two collections that agree on the members of each are the same.
LEMMA SameSets ==
  ASSUME NEW f, NEW g, f = [s \in Subjects |-> f[s]], g = [s \in Subjects |-> g[s]],
         \A s \in Subjects : \A k : k \in f[s] <=> k \in g[s]
  PROVE  f = g
  <1>1. \A s \in Subjects : f[s] = g[s] OBVIOUS
  <1> QED BY <1>1

-----------------------------------------------------------------------------
\* Enrolment

\* The credential, the counter and the row of the passkey that is added.
Adds(s, k, n, p) ==
  /\ passkeys[p] = NoRow /\ ~CredentialTaken(k)
  /\ passkeys'[p] # NoRow
  /\ passkeys'[p].subject = s /\ passkeys'[p].credential = k
  /\ passkeys'[p].signCount = n /\ ~passkeys'[p].revoked
  /\ \A q \in PasskeyIds \ {p} : passkeys'[q] = passkeys[q]

LEMMA RegistrationAdds ==
  ASSUME LimitInv, NEW c \in Calls, CommitFinishRegistration(c)
  PROVE  \E s \in Subjects, k \in Credentials, n \in Counters, p \in PasskeyIds :
           /\ Adds(s, k, n, p) /\ HasRoom(s)
           /\ revision' = [revision EXCEPT ![s] = @ + 1]
  <1>1. /\ TypeOK /\ TransactionError(c) = "none" /\ Op(c) = "finish_registration"
        /\ Commits(c, "finish_registration")
    BY DEF LimitInv, CommitFinishRegistration, Commits
  <1>2. PICK s \in Subjects, k \in Credentials, n \in Counters :
          s = request[c].subject /\ k = verified[c].credential /\ n = verified[c].counter
    BY <1>1, CommitFields DEF FinishOperations, Results
  <1>3. HasRoom(s) BY <1>2, RegistrationHasRoom
  <1>4. ~CredentialTaken(k) BY <1>1, <1>2 DEF TransactionError, FinishRegistrationError
  <1>5. PICK p \in PasskeyIds :
          passkeys[p] = NoRow /\ passkeys' = [passkeys EXCEPT ![p] = NewPasskey(s, k, n)]
    BY <1>2 DEF CommitFinishRegistration
  <1>6. NewPasskey(s, k, n) \in PasskeyRow
    BY ConfigAssumption DEF NewPasskey, PasskeyRow
  <1>7. /\ passkeys'[p] = NewPasskey(s, k, n)
        /\ \A q \in PasskeyIds \ {p} : passkeys'[q] = passkeys[q]
    BY <1>1, <1>5 DEF TypeOK, TablesTypeOK
  <1>8. Adds(s, k, n, p)
    <2>1. passkeys'[p] # NoRow BY <1>6, <1>7, AbsentAssumption
    <2>2. /\ passkeys'[p].subject = s /\ passkeys'[p].credential = k
          /\ passkeys'[p].signCount = n /\ ~passkeys'[p].revoked
      BY <1>7 DEF NewPasskey
    <2> QED BY <1>4, <1>5, <1>7, <2>1, <2>2 DEF Adds
  <1>9. revision' = [revision EXCEPT ![s] = @ + 1]
    BY <1>2 DEF CommitFinishRegistration, AdvanceCollection
  <1> QED BY <1>3, <1>8, <1>9

LEMMA AddingKeepsOne ==
  ASSUME OneRowPerCredential, NEW s, NEW k, NEW n, NEW p \in PasskeyIds, Adds(s, k, n, p)
  PROVE  OneRowPerCredential'
  BY DEF OneRowPerCredential, Adds, CredentialTaken

\* CredentialSet and this module reach the library's Cardinality by different paths.
LEMMA SameCardinality == \A T : Collection!Cardinality(T) = Cardinality(T)
  BY DEF Collection!Cardinality, Cardinality

LEMMA AddingEnrolls ==
  ASSUME CredentialInv, ViewOK, ViewOK',
         NEW s \in Subjects, NEW k \in Credentials, NEW n \in Counters,
         NEW p \in PasskeyIds, Adds(s, k, n, p), HasRoom(s),
         revision' = [revision EXCEPT ![s] = @ + 1]
  PROVE  Collection!Enroll(s, k, n)
  <1>1. \A t \in Subjects : k \notin Actives[t] /\ k \notin Retireds[t]
    BY DEF ViewOK, Adds, CredentialTaken
  <1>2. Collection!Cardinality(Actives[s]) < MaxPasskeys
    BY ActivesBounded, SameCardinality, ConfigAssumption
       DEF CredentialInv, LimitInv, HasRoom
  <1>3. Actives' = [Actives EXCEPT ![s] = @ \cup {k}]
    <2>1. \A t \in Subjects : \A j :
            j \in Actives'[t] <=> j \in Actives[t] \/ (t = s /\ j = k)
      BY DEF ViewOK, Adds
    <2>2. DOMAIN Actives = Subjects BY DEF Actives
    <2>3. \A t \in Subjects : \A j :
            j \in Actives'[t] <=> j \in [Actives EXCEPT ![s] = @ \cup {k}][t]
      BY <2>1, <2>2
    <2>4. /\ Actives' = [t \in Subjects |-> Actives'[t]]
          /\ [Actives EXCEPT ![s] = @ \cup {k}]
               = [t \in Subjects |-> [Actives EXCEPT ![s] = @ \cup {k}][t]]
      BY DEF Actives
    <2> QED BY <2>3, <2>4, SameSets
  <1>4. Retireds' = Retireds
    <2>1. \A t \in Subjects : \A j : j \in Retireds'[t] <=> j \in Retireds[t]
      BY DEF ViewOK, Adds
    <2>2. Retireds = [t \in Subjects |-> Retireds[t]]
          /\ Retireds' = [t \in Subjects |-> Retireds'[t]]
      BY DEF Retireds
    <2> QED BY <2>1, <2>2, SameSets
  <1>5. CountersSeen' = [CountersSeen EXCEPT ![k] = n]
    <2>1. CountersSeen'[k] = n BY DEF ViewOK, Adds
    <2>2. ASSUME NEW j \in Credentials, j # k PROVE CountersSeen'[j] = CountersSeen[j]
      <3>1. CASE \E q \in PasskeyIds : passkeys[q] # NoRow /\ passkeys[q].credential = j
        BY <2>2, <3>1 DEF ViewOK, Adds
      <3>2. CASE \A q \in PasskeyIds : passkeys[q] # NoRow => passkeys[q].credential # j
        <4>1. \A q \in PasskeyIds : passkeys'[q] # NoRow => passkeys'[q].credential # j
          BY <2>2, <3>2 DEF Adds
        <4> QED BY <3>2, <4>1 DEF ViewOK
      <3> QED BY <3>1, <3>2
    <2> QED BY <2>1, <2>2 DEF CountersSeen
  <1>6. k \notin Collection!Enrolled
    <2>1. k \notin UNION {Actives[t] \cup Retireds[t] : t \in Subjects} BY <1>1
    <2> QED BY <2>1 DEF Collection!Enrolled, Actives, Retireds
  <1> QED
    BY <1>2, <1>3, <1>4, <1>5, <1>6
       DEF Collection!Enroll, Actives, Retireds, CountersSeen, CounterOf

-----------------------------------------------------------------------------
\* Use and retirement

\* The row that is written stays the subject's and keeps its credential.
Rewrites(s, k, p) ==
  /\ passkeys[p] # NoRow /\ passkeys[p].subject = s /\ passkeys[p].credential = k
  /\ ~passkeys[p].revoked
  /\ passkeys'[p] # NoRow /\ passkeys'[p].subject = s /\ passkeys'[p].credential = k
  /\ \A q \in PasskeyIds \ {p} : passkeys'[q] = passkeys[q]

LEMMA RewritingKeepsOne ==
  ASSUME OneRowPerCredential, NEW s, NEW k, NEW p \in PasskeyIds, Rewrites(s, k, p)
  PROVE  OneRowPerCredential'
  BY DEF OneRowPerCredential, Rewrites

LEMMA AuthenticationRewrites ==
  ASSUME TypeOK, NEW c \in Calls, CommitFinishAuthentication(c)
  PROVE  \E s \in Subjects, k \in Credentials, n \in Counters, p \in PasskeyIds :
           /\ Rewrites(s, k, p) /\ ~passkeys'[p].revoked
           /\ ~StaleCounter(passkeys[p].signCount, n)
           /\ passkeys'[p].signCount =
                IF n > passkeys[p].signCount THEN n ELSE passkeys[p].signCount
           /\ revision' = [revision EXCEPT ![s] = @ + 1]
  <1>1. Commits(c, "finish_authentication") /\ Op(c) = "finish_authentication"
    BY DEF CommitFinishAuthentication, Commits
  <1>2. PICK s \in Subjects, k \in Credentials, n \in Counters :
          s = SubjectOf(c) /\ k = verified[c].credential /\ n = verified[c].counter
    BY <1>1, CommitFields DEF FinishOperations, SubjectOf, ChallengeRow, Results
  <1>3. PICK p \in AuthenticatedRows(s, verified[c]) :
          passkeys' = [passkeys EXCEPT ![p] = UsedPasskey(@, n)]
    BY <1>2 DEF CommitFinishAuthentication
  <1>4. /\ p \in PasskeyIds /\ passkeys[p] # NoRow /\ passkeys[p] \in PasskeyRow
        /\ passkeys[p].subject = s /\ passkeys[p].credential = k
        /\ ~passkeys[p].revoked /\ ~StaleCounter(passkeys[p].signCount, n)
        /\ passkeys \in [PasskeyIds -> PasskeyRow \cup {NoRow}]
    BY <1>2 DEF AuthenticatedRows, ActiveRows, RowsOf, TypeOK, TablesTypeOK
  <1>5. PICK row : row = UsedPasskey(passkeys[p], n) OBVIOUS
  <1>6. n \in Nat BY ConfigAssumption
  <1>7. row \in PasskeyRow BY <1>4, <1>5, <1>6, UsedPasskeyTypes
  <1>8. /\ row.subject = s /\ row.credential = k /\ ~row.revoked
        /\ row.signCount = IF n > passkeys[p].signCount THEN n ELSE passkeys[p].signCount
    BY <1>4, <1>5 DEF UsedPasskey, PasskeyRow
  <1>9. passkeys'[p] = row /\ \A q \in PasskeyIds \ {p} : passkeys'[q] = passkeys[q]
    BY <1>3, <1>4, <1>5
  <1>10. Rewrites(s, k, p) BY <1>4, <1>7, <1>8, <1>9, AbsentAssumption DEF Rewrites
  <1>11. revision' = [revision EXCEPT ![s] = @ + 1]
    BY <1>2 DEF CommitFinishAuthentication, AdvanceCollection
  <1> QED BY <1>4, <1>8, <1>9, <1>10, <1>11

LEMMA RevocationRewrites ==
  ASSUME TypeOK, NEW c \in Calls, CommitRevoke(c)
  PROVE  \/ UNCHANGED <<passkeys, revision>>
         \/ \E s \in Subjects, k \in Credentials, p \in PasskeyIds :
              /\ Rewrites(s, k, p) /\ passkeys'[p].revoked
              /\ passkeys'[p].signCount = passkeys[p].signCount
              /\ revision' = [revision EXCEPT ![s] = @ + 1]
  <1>1. Commits(c, "revoke_passkey") /\ RevokeError(request[c]) = "none"
    BY DEF CommitRevoke, Commits, TransactionError
  <1>2. PICK s \in Subjects, p \in PasskeyIds : s = request[c].subject /\ p = request[c].passkey
    BY <1>1, CommitFields
  <1>3. /\ passkeys[p] # NoRow /\ passkeys[p].subject = s /\ passkeys[p] \in PasskeyRow
        /\ passkeys \in [PasskeyIds -> PasskeyRow \cup {NoRow}]
    BY <1>1, <1>2 DEF RevokeError, RowsOf, TypeOK, TablesTypeOK
  <1>4. SUFFICES ASSUME /\ ~passkeys[p].revoked
                        /\ passkeys' = [passkeys EXCEPT ![p] = RevokedPasskey(@)]
                        /\ AdvanceCollection(s)
                 PROVE  \E k \in Credentials :
                          /\ Rewrites(s, k, p) /\ passkeys'[p].revoked
                          /\ passkeys'[p].signCount = passkeys[p].signCount
                          /\ revision' = [revision EXCEPT ![s] = @ + 1]
    BY <1>2 DEF CommitRevoke
  <1>5. PICK k \in Credentials : k = passkeys[p].credential BY <1>3 DEF PasskeyRow
  <1>6. PICK row : row = RevokedPasskey(passkeys[p]) OBVIOUS
  <1>7. row \in PasskeyRow BY <1>3, <1>6, RevokedPasskeyTypes
  <1>8. /\ row.subject = s /\ row.credential = k /\ row.revoked
        /\ row.signCount = passkeys[p].signCount
    BY <1>3, <1>5, <1>6 DEF RevokedPasskey, PasskeyRow
  <1>9. passkeys'[p] = row /\ \A q \in PasskeyIds \ {p} : passkeys'[q] = passkeys[q]
    BY <1>3, <1>4, <1>6
  <1>10. Rewrites(s, k, p)
    BY <1>3, <1>4, <1>5, <1>7, <1>8, <1>9, AbsentAssumption DEF Rewrites
  <1> QED BY <1>4, <1>8, <1>9, <1>10 DEF AdvanceCollection

\* The counters of the other credentials stay.
LEMMA OtherCounters ==
  ASSUME ViewOK, ViewOK', NEW s, NEW k, NEW p \in PasskeyIds, Rewrites(s, k, p),
         NEW j \in Credentials, j # k
  PROVE  CountersSeen'[j] = CountersSeen[j]
  <1>1. CASE \E q \in PasskeyIds : passkeys[q] # NoRow /\ passkeys[q].credential = j
    BY <1>1 DEF ViewOK, Rewrites
  <1>2. CASE \A q \in PasskeyIds : passkeys[q] # NoRow => passkeys[q].credential # j
    <2>1. \A q \in PasskeyIds : passkeys'[q] # NoRow => passkeys'[q].credential # j
      BY <1>2 DEF Rewrites
    <2> QED BY <1>2, <2>1 DEF ViewOK
  <1> QED BY <1>1, <1>2

LEMMA RewritingUses ==
  ASSUME TypeOK, ViewOK, ViewOK',
         NEW s \in Subjects, NEW k \in Credentials, NEW n \in Counters,
         NEW p \in PasskeyIds, Rewrites(s, k, p), ~passkeys'[p].revoked,
         ~StaleCounter(passkeys[p].signCount, n),
         passkeys'[p].signCount =
           IF n > passkeys[p].signCount THEN n ELSE passkeys[p].signCount,
         revision' = [revision EXCEPT ![s] = @ + 1]
  PROVE  Collection!Use(s, k, n)
  <1>1. k \in Actives[s] BY DEF ViewOK, Rewrites
  <1>2. CountersSeen[k] = passkeys[p].signCount BY DEF ViewOK, Rewrites
  <1>3. passkeys[p].signCount \in Nat /\ n \in Nat
    BY ConfigAssumption DEF Rewrites, TypeOK, TablesTypeOK, PasskeyRow
  <1>4. n = 0 \/ CountersSeen[k] = 0 \/ n > CountersSeen[k]
    BY <1>2, <1>3 DEF StaleCounter
  <1>5. CountersSeen' =
          [CountersSeen EXCEPT ![k] = IF n > CountersSeen[k] THEN n ELSE CountersSeen[k]]
    <2>1. CountersSeen'[k] = IF n > CountersSeen[k] THEN n ELSE CountersSeen[k]
      BY <1>2 DEF ViewOK, Rewrites
    <2>2. \A j \in Credentials : j # k => CountersSeen'[j] = CountersSeen[j]
      BY OtherCounters
    <2> QED BY <2>1, <2>2 DEF CountersSeen
  <1>6. Actives' = Actives
    <2>1. \A t \in Subjects : \A j : j \in Actives'[t] <=> j \in Actives[t]
      BY DEF ViewOK, Rewrites
    <2>2. Actives = [t \in Subjects |-> Actives[t]]
          /\ Actives' = [t \in Subjects |-> Actives'[t]]
      BY DEF Actives
    <2> QED BY <2>1, <2>2, SameSets
  <1>7. Retireds' = Retireds
    <2>1. \A t \in Subjects : \A j : j \in Retireds'[t] <=> j \in Retireds[t]
      BY DEF ViewOK, Rewrites
    <2>2. Retireds = [t \in Subjects |-> Retireds[t]]
          /\ Retireds' = [t \in Subjects |-> Retireds'[t]]
      BY DEF Retireds
    <2> QED BY <2>1, <2>2, SameSets
  <1> QED
    BY <1>1, <1>4, <1>5, <1>6, <1>7
       DEF Collection!Use, Actives, Retireds, CountersSeen, CounterOf

LEMMA RewritingRetires ==
  ASSUME CredentialInv, ViewOK, ViewOK', NEW s \in Subjects, NEW k \in Credentials,
         NEW p \in PasskeyIds, Rewrites(s, k, p), passkeys'[p].revoked,
         passkeys'[p].signCount = passkeys[p].signCount,
         revision' = [revision EXCEPT ![s] = @ + 1]
  PROVE  Collection!Retire(s, k)
  <1>1. k \in Actives[s] BY DEF ViewOK, Rewrites
  <1>2. \A q \in PasskeyIds \ {p} : passkeys[q] # NoRow => passkeys[q].credential # k
    BY DEF CredentialInv, OneRowPerCredential, Rewrites
  <1>3. Actives' = [Actives EXCEPT ![s] = @ \ {k}]
    <2>1. \A t \in Subjects : \A j :
            j \in Actives'[t] <=> j \in Actives[t] /\ ~(t = s /\ j = k)
      BY <1>2 DEF ViewOK, Rewrites
    <2>2. DOMAIN Actives = Subjects BY DEF Actives
    <2>3. \A t \in Subjects : \A j :
            j \in Actives'[t] <=> j \in [Actives EXCEPT ![s] = @ \ {k}][t]
      BY <2>1, <2>2
    <2>4. /\ Actives' = [t \in Subjects |-> Actives'[t]]
          /\ [Actives EXCEPT ![s] = @ \ {k}]
               = [t \in Subjects |-> [Actives EXCEPT ![s] = @ \ {k}][t]]
      BY DEF Actives
    <2> QED BY <2>3, <2>4, SameSets
  <1>4. Retireds' = [Retireds EXCEPT ![s] = @ \cup {k}]
    <2>1. \A t \in Subjects : \A j :
            j \in Retireds'[t] <=> j \in Retireds[t] \/ (t = s /\ j = k)
      BY DEF ViewOK, Rewrites
    <2>2. DOMAIN Retireds = Subjects BY DEF Retireds
    <2>3. \A t \in Subjects : \A j :
            j \in Retireds'[t] <=> j \in [Retireds EXCEPT ![s] = @ \cup {k}][t]
      BY <2>1, <2>2
    <2>4. /\ Retireds' = [t \in Subjects |-> Retireds'[t]]
          /\ [Retireds EXCEPT ![s] = @ \cup {k}]
               = [t \in Subjects |-> [Retireds EXCEPT ![s] = @ \cup {k}][t]]
      BY DEF Retireds
    <2> QED BY <2>3, <2>4, SameSets
  <1>5. CountersSeen' = CountersSeen
    <2>1. CountersSeen'[k] = CountersSeen[k] BY DEF ViewOK, Rewrites
    <2>2. \A j \in Credentials : j # k => CountersSeen'[j] = CountersSeen[j]
      BY OtherCounters
    <2> QED BY <2>1, <2>2 DEF CountersSeen
  <1> QED
    BY <1>1, <1>3, <1>4, <1>5
       DEF Collection!Retire, Actives, Retireds, CountersSeen, CounterOf

-----------------------------------------------------------------------------
\* Every step

LEMMA QuietSteps ==
  ASSUME [Next]_vars, ~\E c \in Calls : Step(c)
  PROVE  UNCHANGED <<revision, passkeys>>
  BY DEF Next, Receive, Return, Abandon, ChangeDirectory, Tick, Expire, vars, tables

LEMMA NextCredentials == CredentialInv /\ [Next]_vars => CredentialInv'
  <1> SUFFICES ASSUME CredentialInv, [Next]_vars PROVE OneRowPerCredential'
    BY NextLimit DEF CredentialInv
  <1>1. LimitInv /\ TypeOK /\ OneRowPerCredential BY DEF CredentialInv, LimitInv
  <1>2. CASE UNCHANGED passkeys BY <1>1, <1>2 DEF OneRowPerCredential
  <1>3. ASSUME NEW c \in Calls, Step(c) PROVE OneRowPerCredential'
    <2>1. CASE CommitFinishRegistration(c)
      BY <1>1, <2>1, RegistrationAdds, AddingKeepsOne
    <2>2. CASE CommitFinishAuthentication(c)
      BY <1>1, <2>2, AuthenticationRewrites, RewritingKeepsOne
    <2>3. CASE CommitRevoke(c) BY <1>1, <1>2, <2>3, RevocationRewrites, RewritingKeepsOne
    <2> QED BY <1>2, <1>3, <2>1, <2>2, <2>3, CommitsOnly
  <1> QED BY <1>2, <1>3, QuietSteps

View == <<revision, Actives, Retireds, CountersSeen>>

LEMMA SameView ==
  ASSUME UNCHANGED <<revision, passkeys>>
  PROVE  UNCHANGED View
  BY DEF View, Actives, Retireds, CountersSeen, CounterOf, CredentialsOf, CredentialTaken,
         RowOf, RowsOf, ActiveRows

LEMMA NextCollections ==
  CredentialInv /\ ViewOK /\ ViewOK' /\ [Next]_vars => [Collection!Next]_View
  <1> SUFFICES ASSUME CredentialInv, ViewOK, ViewOK', [Next]_vars
               PROVE  Collection!Next \/ UNCHANGED View
    OBVIOUS
  <1>1. LimitInv /\ TypeOK BY DEF CredentialInv, LimitInv
  <1>2. ASSUME NEW c \in Calls, Step(c) PROVE Collection!Next \/ UNCHANGED View
    <2>1. CASE CommitFinishRegistration(c)
      <3>1. PICK s \in Subjects, k \in Credentials, n \in Counters, p \in PasskeyIds :
              /\ Adds(s, k, n, p) /\ HasRoom(s)
              /\ revision' = [revision EXCEPT ![s] = @ + 1]
        BY <1>1, <2>1, RegistrationAdds
      <3>2. Collection!Enroll(s, k, n) BY <3>1, AddingEnrolls
      <3> QED BY <3>2 DEF Collection!Next
    <2>2. CASE CommitFinishAuthentication(c)
      <3>1. PICK s \in Subjects, k \in Credentials, n \in Counters, p \in PasskeyIds :
              /\ Rewrites(s, k, p) /\ ~passkeys'[p].revoked
              /\ ~StaleCounter(passkeys[p].signCount, n)
              /\ passkeys'[p].signCount =
                   IF n > passkeys[p].signCount THEN n ELSE passkeys[p].signCount
              /\ revision' = [revision EXCEPT ![s] = @ + 1]
        BY <1>1, <2>2, AuthenticationRewrites
      <3>2. Collection!Use(s, k, n) BY <1>1, <3>1, RewritingUses
      <3> QED BY <3>2 DEF Collection!Next
    <2>3. CASE CommitRevoke(c)
      <3>1. CASE UNCHANGED <<passkeys, revision>> BY <3>1, SameView
      <3>2. CASE \E s \in Subjects, k \in Credentials, p \in PasskeyIds :
                   /\ Rewrites(s, k, p) /\ passkeys'[p].revoked
                   /\ passkeys'[p].signCount = passkeys[p].signCount
                   /\ revision' = [revision EXCEPT ![s] = @ + 1]
        <4>1. PICK s \in Subjects, k \in Credentials, p \in PasskeyIds :
                /\ Rewrites(s, k, p) /\ passkeys'[p].revoked
                /\ passkeys'[p].signCount = passkeys[p].signCount
                /\ revision' = [revision EXCEPT ![s] = @ + 1]
          BY <3>2
        <4>2. Collection!Retire(s, k) BY <4>1, RewritingRetires
        <4> QED BY <4>2 DEF Collection!Next
      <3> QED BY <1>1, <2>3, <3>1, <3>2, RevocationRewrites
    <2> QED BY <1>2, <2>1, <2>2, <2>3, CommitsOnly, SameView
  <1> QED BY <1>2, QuietSteps, SameView

LEMMA InitCollections == Init => Collection!Init
  <1> SUFFICES ASSUME Init PROVE Collection!Init OBVIOUS
  <1>1. passkeys = [p \in PasskeyIds |-> NoRow] /\ revision = [s \in Subjects |-> 0]
    BY DEF Init, StorageInit
  <1>2. \A s \in Subjects : RowsOf(s) = {} /\ ActiveRows(s) = {}
    BY <1>1 DEF RowsOf, ActiveRows
  <1>3. \A s \in Subjects :
          /\ CredentialsOf(ActiveRows(s)) = {}
          /\ CredentialsOf(RowsOf(s) \ ActiveRows(s)) = {}
    BY <1>2 DEF CredentialsOf
  <1>4. \A k : ~CredentialTaken(k) BY <1>1 DEF CredentialTaken
  <1> QED BY <1>1, <1>3, <1>4 DEF Collection!Init

\* Every step of the Plugin enrolls, uses or retires a credential as CredentialSet
\* allows, or leaves the collections alone, for any number of calls, subjects and
\* credentials: the limit, one subject and one enrolment per credential, counters
\* that never fall and a revision that counts every change.
THEOREM CollectionsImplemented == Spec => ImplementsCredentialSet
  <1>1. CredentialInv => ViewOK BY ViewKnown
  <1>2. [Collection!Next]_View <=> [Collection!Next]_(Collection!collection)
    BY DEF View, Collection!collection, Actives, Retireds, CountersSeen, CounterOf
  <1> QED
    BY <1>1, <1>2, InitCredentials, NextCredentials, InitCollections, NextCollections, PTL
       DEF Spec, ImplementsCredentialSet, Collection!Spec

=============================================================================
