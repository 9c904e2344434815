------------------------- MODULE PasskeyCommandProofs -------------------------
(***************************************************************************)
(* What a command of a client leads to, for every value of the constants:  *)
(* one session at most from a ceremony, one owner of a key, one answer, a  *)
(* recorded error that every retry can read, and receipts that go through  *)
(* the states of CommandReceipts.                                          *)
(***************************************************************************)
EXTENDS PasskeyTypeProofs

-----------------------------------------------------------------------------
\* A ceremony yields at most one session, for the caller that began it and for
\* its subject. The authenticating call that takes an open ceremony spends it
\* in the same transaction; a spent ceremony stays spent when it is pruned, as
\* its id is not drawn again. So no second call ever holds it, and the call
\* that does loses the right to a session with the session it gets.

MintedRows == \A x \in ChallengeIds : challenges[x] # NoRow => x \in minted

\* The ceremony cannot be taken again.
Spent(x) == x \in minted /\ (challenges[x] # NoRow => challenges[x].consumedBy # NoRow)

\* If it is still stored, it was begun by the caller for the subject.
BegunFor(x, caller, s) ==
  challenges[x] # NoRow => challenges[x].caller = caller /\ challenges[x].subject = s

HoldsAuthentication(c) == HoldsCeremony(c) /\ Op(c) = "finish_authentication"

HolderOK(c) ==
  /\ Spent(request[c].challenge)
  /\ BegunFor(request[c].challenge, request[c].caller, ceremony[c].subject)
  /\ pc[c] \in {"issue", "receipt"} => answer[c].subject = ceremony[c].subject

HoldersOK == \A c \in Calls : HoldsAuthentication(c) => HolderOK(c)

\* No two calls hold one ceremony.
HoldersApart ==
  \A c, d \in Calls :
    (c # d /\ HoldsAuthentication(c) /\ HoldsAuthentication(d))
      => request[c].challenge # request[d].challenge

\* A call that holds a ceremony and waits for its session is the first to get one.
FirstToIssue ==
  \A c \in Calls : \A i \in 1..Len(sessions) :
    (HoldsAuthentication(c) /\ pc[c] # "receipt")
      => sessions[i].challenge # request[c].challenge

SessionsOK ==
  \A i \in 1..Len(sessions) :
    /\ Spent(sessions[i].challenge)
    /\ BegunFor(sessions[i].challenge, sessions[i].caller, sessions[i].subject)

SessionInv ==
  /\ TypeOK /\ MintedRows
  /\ HoldersOK /\ HoldersApart /\ FirstToIssue
  /\ SessionsOK /\ OneSessionPerCeremony

LEMMA InitSessions == Init => SessionInv
  <1> SUFFICES ASSUME Init PROVE SessionInv OBVIOUS
  <1>1. MintedRows BY DEF Init, StorageInit, MintedRows
  <1>2. \A c \in Calls : ~HoldsCeremony(c) BY DEF Init, Quiet, HoldsCeremony
  <1>3. Len(sessions) = 0 BY DEF Init, Quiet
  <1> QED
    BY <1>1, <1>2, <1>3, InitTypes
       DEF SessionInv, HoldersOK, HoldersApart, FirstToIssue, SessionsOK,
           OneSessionPerCeremony, HoldsAuthentication

-----------------------------------------------------------------------------
\* The stored ceremonies

\* Rows are added under fresh ids only, and keep what they say of the ceremony.
CeremoniesKept ==
  /\ MintedRows'
  /\ \A x \in minted :
       /\ x \in minted'
       /\ challenges'[x] # NoRow =>
            /\ challenges[x] # NoRow
            /\ challenges'[x].caller = challenges[x].caller
            /\ challenges'[x].subject = challenges[x].subject
            /\ challenges[x].consumedBy # NoRow => challenges'[x].consumedBy # NoRow

LEMMA SameCeremonies ==
  ASSUME MintedRows, UNCHANGED <<challenges, minted>>
  PROVE  CeremoniesKept
  BY DEF MintedRows, CeremoniesKept

LEMMA InsertKeeps ==
  ASSUME TypeOK, MintedRows, NEW x, NEW kind, NEW r, NEW state,
         InsertChallenge(x, kind, r, state)
  PROVE  CeremoniesKept
  BY DEF TypeOK, TablesTypeOK, MintedRows, CeremoniesKept, InsertChallenge

LEMMA ConsumeKeeps ==
  ASSUME TypeOK, MintedRows, NEW c \in Calls, pc[c] = "consume",
         ChallengeFound(request[c].challenge, KindOf(Op(c))),
         ConsumeChallenge(request[c].challenge, request[c]), UNCHANGED minted
  PROVE  CeremoniesKept
  <1>1. /\ challenges \in [ChallengeIds -> ChallengeRow \cup {NoRow}]
        /\ challenges[request[c].challenge] # NoRow
    BY DEF TypeOK, TablesTypeOK, ChallengeFound
  <1>2. CommandKey(request[c]) # NoRow
    <2>1. request[c] \in Requests /\ request[c].op # "list_passkeys"
      BY RunningCall DEF StageOperations, FinishOperations, Op
    <2> QED BY <2>1, RequestFields, NoRowAssumption
  <1>3. request[c].challenge \in ChallengeIds
    BY RunningCall, RequestFields DEF StageOperations, Op
  <1>4. challenges[request[c].challenge] \in ChallengeRow BY <1>1, <1>3
  <1> QED
    BY <1>1, <1>2, <1>3, <1>4
       DEF MintedRows, CeremoniesKept, ConsumeChallenge, ChallengeRow

LEMMA StepKeepsCeremonies ==
  ASSUME TypeOK, MintedRows, NEW c \in Calls, Step(c)
  PROVE  CeremoniesKept
  <1>1. CASE PruneOldChallenges(c)
    BY <1>1 DEF PruneOldChallenges, PruneChallenges, MintedRows, CeremoniesKept,
                TypeOK, TablesTypeOK
  <1>2. CASE RefuseChallenge(c) BY <1>2, ConsumeKeeps DEF RefuseChallenge
  <1>3. CASE AcceptChallenge(c) BY <1>3, ConsumeKeeps DEF AcceptChallenge
  <1>4. CASE CommitBeginRegistration(c) BY <1>4, InsertKeeps DEF CommitBeginRegistration
  <1>5. CASE CommitBeginAuthentication(c)
    BY <1>5, InsertKeeps DEF CommitBeginAuthentication
  <1>6. ASSUME ~PruneOldChallenges(c), ~RefuseChallenge(c), ~AcceptChallenge(c),
               ~CommitBeginRegistration(c), ~CommitBeginAuthentication(c)
        PROVE  UNCHANGED <<challenges, minted>>
    BY <1>6 DEF Step, tables, PruneOldCommands, Claim, LoadCommand, Advance,
       MissChallenge, DirectoryInactive, DirectoryActive, VerifyRegistration,
       RefuseTransaction, CommitFinishRegistration, CommitFinishAuthentication,
       CommitRevoke, RecordError, IssueSession, IssuerDisabled, CommitReceipt,
       LoadSubject, LoadPasskeys
  <1> QED BY <1>1, <1>2, <1>3, <1>4, <1>5, <1>6, SameCeremonies

LEMMA StepKeepsSessions ==
  ASSUME NEW c \in Calls, Step(c), ~IssueSession(c)
  PROVE  sessions' = sessions
  BY DEF Step, world, PruneOldChallenges, PruneOldCommands, Claim, LoadCommand,
     Advance, MissChallenge, RefuseChallenge, AcceptChallenge, DirectoryInactive,
     DirectoryActive, VerifyRegistration, RefuseTransaction, CommitBeginRegistration,
     CommitBeginAuthentication, CommitFinishRegistration, CommitFinishAuthentication,
     CommitRevoke, RecordError, IssuerDisabled, CommitReceipt, LoadSubject,
     LoadPasskeys

-----------------------------------------------------------------------------
\* The calls that hold a ceremony

\* The call takes no ceremony, and what it answers is about the one it holds.
HolderStays(d) ==
  HoldsAuthentication(d)' =>
    /\ HoldsAuthentication(d)
    /\ request'[d] = request[d] /\ ceremony'[d] = ceremony[d]
    /\ pc[d] = "receipt" => pc'[d] = "receipt"
    /\ pc'[d] \in {"issue", "receipt"} => answer'[d].subject = ceremony'[d].subject

LEMMA OthersStay ==
  ASSUME HoldersOK, NEW c \in Calls, OthersKept(c), NEW d \in Calls \ {c}
  PROVE  HolderStays(d)
  BY DEF HoldersOK, HolderOK, OthersKept, HolderStays, HoldsAuthentication,
         HoldsCeremony, Op

LEMMA HolderKept ==
  ASSUME CeremoniesKept, HoldersOK, NEW d \in Calls, HolderStays(d),
         HoldsAuthentication(d)'
  PROVE  HolderOK(d)'
  <1>1. HolderOK(d) BY DEF HoldersOK, HolderStays
  <1> QED BY <1>1 DEF CeremoniesKept, HolderStays, HolderOK, Spent, BegunFor

LEMMA SessionsKept ==
  ASSUME CeremoniesKept, SessionsOK, sessions' = sessions
  PROVE  SessionsOK'
  BY DEF CeremoniesKept, SessionsOK, Spent, BegunFor

\* A step that takes no ceremony and issues no session.
LEMMA AllStay ==
  ASSUME SessionInv, CeremoniesKept, \A d \in Calls : HolderStays(d),
         sessions' = sessions
  PROVE  /\ MintedRows' /\ HoldersOK' /\ HoldersApart' /\ FirstToIssue'
         /\ SessionsOK' /\ OneSessionPerCeremony'
  <1>1. MintedRows' BY DEF CeremoniesKept
  <1>2. HoldersOK' BY HolderKept DEF SessionInv, HoldersOK
  <1>3. HoldersApart' BY DEF SessionInv, HoldersApart, HolderStays
  <1>4. FirstToIssue' BY DEF SessionInv, FirstToIssue, HolderStays
  <1>5. SessionsOK' BY SessionsKept DEF SessionInv
  <1>6. OneSessionPerCeremony' BY DEF SessionInv, OneSessionPerCeremony
  <1> QED BY <1>1, <1>2, <1>3, <1>4, <1>5, <1>6

\* What a call at "issue" answers is about the ceremony it holds.
LEMMA AuthenticationStays ==
  ASSUME TypeOK, NEW c \in Calls, CommitFinishAuthentication(c)
  PROVE  HolderStays(c)
  <1>1. /\ pc[c] = "transaction" /\ Op(c) = "finish_authentication"
        /\ request' = request /\ ceremony' = ceremony
        /\ answer'[c].subject = ceremony[c].subject
    BY DEF CommitFinishAuthentication, Commits, SubjectOf, TypeOK, CallsTypeOK
  <1> QED
    BY <1>1 DEF HolderStays, HoldsAuthentication, HoldsCeremony, FinishOperations, Op

LEMMA StepStays ==
  ASSUME TypeOK, HoldersOK, NEW c \in Calls, Step(c), ~AcceptChallenge(c), ~IssueSession(c)
  PROVE  HolderStays(c)
  <1>1. TakesNone(c) BY StepTakesNone
  <1>2. CASE CommitFinishAuthentication(c) BY <1>2, AuthenticationStays
  <1>3. ASSUME ~CommitFinishAuthentication(c)
        PROVE  pc'[c] \notin {"issue", "receipt"}
    BY <1>3 DEF TypeOK, CallsTypeOK, GoTo, Answer, Refuse, CommitAnswer, Step,
       PruneOldChallenges, PruneOldCommands, Claim, ClaimedStage, LoadCommand,
       Advance, MissChallenge, RefuseChallenge, DirectoryInactive, DirectoryActive,
       VerifyRegistration, RefuseTransaction, CommitBeginRegistration,
       CommitBeginAuthentication, CommitFinishRegistration, CommitRevoke,
       RecordError, IssuerDisabled, CommitReceipt, LoadSubject, LoadPasskeys
  <1>4. HoldsAuthentication(c)' => HoldsAuthentication(c)
    BY <1>1 DEF TakesNone, HoldsAuthentication, Op
  <1> QED BY <1>1, <1>2, <1>3, <1>4 DEF TakesNone, HolderStays, HoldsAuthentication

-----------------------------------------------------------------------------
\* Taking a ceremony

LEMMA AcceptSpends ==
  ASSUME TypeOK, MintedRows, NEW c \in Calls, AcceptChallenge(c)
  PROVE  /\ ~Spent(request[c].challenge)
         /\ request' = request
         /\ pc'[c] \notin {"issue", "receipt"}
         /\ HolderOK(c)'
  <1>1. /\ pc[c] = "consume" /\ request[c] \in Requests
        /\ request[c].challenge \in ChallengeIds
        /\ challenges[request[c].challenge] \in ChallengeRow
        /\ challenges[request[c].challenge] # NoRow
        /\ ChallengeError(request[c]) = "none"
        /\ UNCHANGED <<minted, request>>
    BY FoundChallenge DEF AcceptChallenge, ChallengeFound
  <1>2. PICK x \in ChallengeIds : x = request[c].challenge BY <1>1
  <1>3. challenges[x].caller = request[c].caller /\ challenges[x].consumedBy = NoRow
    BY <1>1, <1>2 DEF ChallengeError
  <1>4. challenges' = [challenges EXCEPT ![x].consumedBy = CommandKey(request[c])]
    BY <1>2, <1>3 DEF AcceptChallenge, ConsumeChallenge, Consumable
  <1>5. CommandKey(request[c]) # NoRow
    <2>1. request[c].op # "list_passkeys"
      BY <1>1, RunningCall DEF StageOperations, FinishOperations, Op
    <2> QED BY <1>1, <2>1, RequestFields, NoRowAssumption
  <1>6. /\ challenges'[x].consumedBy # NoRow
        /\ challenges'[x].caller = challenges[x].caller
        /\ challenges'[x].subject = challenges[x].subject
    BY <1>1, <1>2, <1>4, <1>5 DEF TypeOK, TablesTypeOK, ChallengeRow
  <1>7. ceremony'[c] = challenges[x]
    BY <1>2 DEF AcceptChallenge, TypeOK, CallsTypeOK
  <1>8. pc'[c] \notin {"issue", "receipt"}
    BY DEF AcceptChallenge, AcceptRegistrationChallenge, AcceptAuthenticationChallenge,
           Refuse, GoTo, TypeOK, CallsTypeOK
  <1>9. x \in minted BY <1>1, <1>2 DEF MintedRows
  <1>10. ~Spent(request[c].challenge) BY <1>1, <1>2, <1>3 DEF Spent
  <1>11. HolderOK(c)'
    BY <1>1, <1>2, <1>3, <1>6, <1>7, <1>8, <1>9 DEF HolderOK, Spent, BegunFor
  <1> QED BY <1>1, <1>8, <1>10, <1>11

LEMMA AcceptSessions ==
  ASSUME SessionInv, NEW c \in Calls, AcceptChallenge(c)
  PROVE  /\ MintedRows' /\ HoldersOK' /\ HoldersApart' /\ FirstToIssue'
         /\ SessionsOK' /\ OneSessionPerCeremony'
  <1>1. TypeOK /\ MintedRows /\ HoldersOK /\ HoldersApart /\ FirstToIssue /\ SessionsOK
        /\ OneSessionPerCeremony /\ Step(c) /\ sessions' = sessions
    BY DEF SessionInv, Step, AcceptChallenge, world
  <1>2. CeremoniesKept BY <1>1, StepKeepsCeremonies
  <1>3. /\ ~Spent(request[c].challenge) /\ request' = request /\ HolderOK(c)'
        /\ pc'[c] \notin {"issue", "receipt"}
    BY <1>1, AcceptSpends
  <1>4. OthersKept(c) BY <1>1, StepOthersKept
  <1>5. \A d \in Calls \ {c} : HolderStays(d) BY <1>1, <1>4, OthersStay
  <1>6. \A d \in Calls \ {c} :
          HoldsAuthentication(d)' =>
            HoldsAuthentication(d) /\ request[d].challenge # request[c].challenge
    BY <1>1, <1>3, <1>5 DEF HolderStays, HoldersOK, HolderOK
  <1>7. HoldersOK' BY <1>1, <1>2, <1>3, <1>5, HolderKept DEF HoldersOK
  <1>8. HoldersApart' BY <1>1, <1>3, <1>6 DEF HoldersApart
  <1>9. FirstToIssue'
    <2>1. \A i \in 1..Len(sessions) : sessions[i].challenge # request[c].challenge
      BY <1>1, <1>3 DEF SessionsOK
    <2> QED BY <1>1, <1>3, <1>5, <2>1 DEF FirstToIssue, HolderStays
  <1>10. SessionsOK' BY <1>1, <1>2, SessionsKept
  <1>11. OneSessionPerCeremony' BY <1>1 DEF OneSessionPerCeremony
  <1>12. MintedRows' BY <1>2 DEF CeremoniesKept
  <1> QED BY <1>7, <1>8, <1>9, <1>10, <1>11, <1>12

-----------------------------------------------------------------------------
\* Issuing a session

LEMMA IssueSessions ==
  ASSUME SessionInv, NEW c \in Calls, IssueSession(c)
  PROVE  /\ MintedRows' /\ HoldersOK' /\ HoldersApart' /\ FirstToIssue'
         /\ SessionsOK' /\ OneSessionPerCeremony'
  <1>1. TypeOK /\ MintedRows /\ HoldersOK /\ HoldersApart /\ FirstToIssue /\ SessionsOK
        /\ OneSessionPerCeremony /\ Step(c)
    BY DEF SessionInv, Step
  <1>2. /\ pc[c] = "issue" /\ Op(c) = "finish_authentication" /\ HoldsAuthentication(c)
        /\ answer[c] \in Authenticated
    BY <1>1, RunningCall
       DEF IssueSession, StageOperations, HoldsAuthentication, HoldsCeremony, FinishOperations
  <1>3. /\ pc'[c] = "receipt" /\ request' = request /\ ceremony' = ceremony
        /\ answer'[c].subject = answer[c].subject
        /\ UNCHANGED <<challenges, minted>>
    BY <1>1, <1>2 DEF IssueSession, GoTo, TypeOK, CallsTypeOK, tables, Authenticated
  <1>4. CeremoniesKept BY <1>1, <1>3, SameCeremonies
  <1>5. OthersKept(c) BY <1>1, StepOthersKept
  <1>6. HolderStays(c)
    BY <1>1, <1>2, <1>3 DEF HolderStays, HoldersOK, HolderOK
  <1>7. \A d \in Calls : HolderStays(d) BY <1>1, <1>5, <1>6, OthersStay
  <1>8. HoldersOK' BY <1>1, <1>4, <1>7, HolderKept DEF HoldersOK
  <1>9. HoldersApart' BY <1>1, <1>7 DEF HoldersApart, HolderStays
  <1>10. PICK new : /\ new = SessionFor(c) /\ new.challenge = request[c].challenge
                    /\ new.caller = request[c].caller /\ new.subject = answer[c].subject
    <2>1. /\ SessionFor(c).challenge = request[c].challenge
          /\ SessionFor(c).caller = request[c].caller
          /\ SessionFor(c).subject = answer[c].subject
      BY DEF SessionFor
    <2> QED BY <2>1
  <1>11. /\ sessions \in Seq(Session)
         /\ sessions' = Append(sessions, new)
    BY <1>1, <1>10 DEF IssueSession, TypeOK, WorldTypeOK
  <1>12. /\ Len(sessions) \in Nat /\ Len(sessions') = Len(sessions) + 1
         /\ \A i \in 1..Len(sessions) : sessions'[i] = sessions[i]
         /\ sessions'[Len(sessions) + 1] = new
    BY <1>11
  <1>13. \A i \in 1..Len(sessions') :
           i \in 1..Len(sessions) \/ i = Len(sessions) + 1
    BY <1>12
  <1>14. \A i \in 1..Len(sessions) : sessions[i].challenge # request[c].challenge
    BY <1>1, <1>2 DEF FirstToIssue
  <1>15. FirstToIssue'
    <2>1. ASSUME NEW d \in Calls, NEW i \in 1..Len(sessions'),
                 HoldsAuthentication(d)', pc'[d] # "receipt"
          PROVE  sessions'[i].challenge # request[d].challenge
      <3>1. d # c /\ HoldsAuthentication(d) /\ pc[d] # "receipt"
        BY <1>3, <1>7, <2>1 DEF HolderStays
      <3>2. CASE i \in 1..Len(sessions) BY <1>1, <1>12, <3>1, <3>2 DEF FirstToIssue
      <3>3. CASE i = Len(sessions) + 1
        BY <1>1, <1>2, <1>10, <1>12, <3>1, <3>3 DEF HoldersApart
      <3> QED BY <1>13, <3>2, <3>3
    <2> QED BY <1>3, <2>1 DEF FirstToIssue
  <1>16. SessionsOK'
    <2>1. HolderOK(c) BY <1>1, <1>2 DEF HoldersOK
    <2>2. Spent(new.challenge) /\ BegunFor(new.challenge, new.caller, new.subject)
      BY <1>2, <1>10, <2>1 DEF HolderOK
    <2> QED BY <1>1, <1>3, <1>12, <1>13, <2>2 DEF SessionsOK, Spent, BegunFor
  <1>17. OneSessionPerCeremony'
    BY <1>1, <1>10, <1>12, <1>13, <1>14 DEF OneSessionPerCeremony
  <1>18. MintedRows' BY <1>4 DEF CeremoniesKept
  <1> QED BY <1>8, <1>9, <1>15, <1>16, <1>17, <1>18

-----------------------------------------------------------------------------
\* Every step

LEMMA NextSessions == SessionInv /\ [Next]_vars => SessionInv'
  <1> SUFFICES ASSUME SessionInv, [Next]_vars
               PROVE  /\ MintedRows' /\ HoldersOK' /\ HoldersApart' /\ FirstToIssue'
                      /\ SessionsOK' /\ OneSessionPerCeremony'
    BY NextTypes DEF SessionInv
  <1>1. TypeOK /\ MintedRows /\ HoldersOK BY DEF SessionInv
  <1>2. ASSUME NEW c \in Calls, Receive(c) \/ Return(c) \/ Abandon(c)
        PROVE  /\ MintedRows' /\ HoldersOK' /\ HoldersApart' /\ FirstToIssue'
               /\ SessionsOK' /\ OneSessionPerCeremony'
    <2>1. UNCHANGED <<challenges, minted, sessions>>
      BY <1>2 DEF Receive, Return, Abandon, tables, world
    <2>2. CeremoniesKept BY <1>1, <2>1, SameCeremonies
    <2>3. OthersKept(c) /\ TakesNone(c) BY <1>1, <1>2, ArrivalTakesNone
    <2>4. HolderStays(c)
      <3>1. pc'[c] \notin {"issue", "receipt"}
        BY <1>1, <1>2 DEF Receive, Return, Abandon, Answer, Clear, GoTo, FirstStage,
                          TypeOK, CallsTypeOK
      <3> QED BY <2>3, <3>1 DEF TakesNone, HolderStays, HoldsAuthentication, Op
    <2>5. \A d \in Calls : HolderStays(d) BY <1>1, <2>3, <2>4, OthersStay
    <2> QED BY <2>1, <2>2, <2>5, AllStay
  <1>3. ASSUME NEW c \in Calls, Step(c)
        PROVE  /\ MintedRows' /\ HoldersOK' /\ HoldersApart' /\ FirstToIssue'
               /\ SessionsOK' /\ OneSessionPerCeremony'
    <2>1. CASE AcceptChallenge(c) BY <2>1, AcceptSessions
    <2>2. CASE IssueSession(c) BY <2>2, IssueSessions
    <2>3. CASE ~AcceptChallenge(c) /\ ~IssueSession(c)
      <3>1. CeremoniesKept /\ sessions' = sessions
        BY <1>1, <1>3, <2>3, StepKeepsCeremonies, StepKeepsSessions
      <3>2. \A d \in Calls : HolderStays(d)
        BY <1>1, <1>3, <2>3, StepStays, StepOthersKept, OthersStay
      <3> QED BY <3>1, <3>2, AllStay
    <2> QED BY <2>1, <2>2, <2>3
  <1>4. CASE ChangeDirectory \/ Tick \/ UNCHANGED vars
    <2>1. UNCHANGED <<challenges, minted, sessions, calls>>
      BY <1>4 DEF ChangeDirectory, Tick, Expire, vars, tables, world
    <2>2. CeremoniesKept BY <1>1, <2>1, SameCeremonies
    <2>3. \A d \in Calls : HolderStays(d)
      BY <1>1, <2>1 DEF calls, HolderStays, HoldersOK, HolderOK, HoldsAuthentication,
                        HoldsCeremony, Op
    <2> QED BY <2>1, <2>2, <2>3, AllStay
  <1> QED BY <1>2, <1>3, <1>4 DEF Next

\* A ceremony yields at most one session, however often and under however many keys
\* it is finished, retried, lost or pruned.
THEOREM OneSession == Spec => []OneSessionPerCeremony
  <1>1. SessionInv => OneSessionPerCeremony BY DEF SessionInv
  <1> QED BY <1>1, InitSessions, NextSessions, PTL DEF Spec

\* A session goes to the caller that began its ceremony and is for the ceremony's
\* subject.
THEOREM SessionsBelong == Spec => []SessionBelongsToCeremony
  <1>1. SessionInv => SessionBelongsToCeremony
    BY DEF SessionInv, SessionsOK, Spent, BegunFor, SessionBelongsToCeremony
  <1> QED BY <1>1, InitSessions, NextSessions, PTL DEF Spec

-----------------------------------------------------------------------------
\* The receipts: a call past its claim is alone on its key and finds its row as
\* it left it, every recorded error can be replayed, and an answer given is the
\* one replayed.

Owner(c) == pc[c] \in OwningStages /\ Op(c) # "list_passkeys"

\* CommandOwnership without its quantifier over keys, in two parts.
OwnerOK(c) ==
  Owner(c) => /\ HasStatus(Key(c), OwnedStatuses(c))
              /\ commands[Key(c)].intent = request[c]

OwnersApart ==
  \A c, d \in Calls : c # d /\ Owner(c) /\ Owner(d) => Key(c) # Key(d)

LEMMA OwnedIncomplete ==
  ASSUME NEW c \in Calls PROVE OwnedStatuses(c) \subseteq Incomplete
  BY DEF OwnedStatuses, Incomplete

OwnersOK == \A c \in Calls : OwnerOK(c)

LEMMA OwnershipParts ==
  TypeOK => (CommandOwnership <=> OwnersOK /\ OwnersApart)
  <1> SUFFICES ASSUME TypeOK PROVE CommandOwnership <=> OwnersOK /\ OwnersApart
    OBVIOUS
  <1>1. ASSUME NEW c \in Calls, Owner(c) PROVE Key(c) \in CommandKeys
    BY <1>1, RunningCall DEF Owner, OwningStages
  <1> QED BY <1>1 DEF CommandOwnership, Owns, Owner, OwnersOK, OwnerOK, OwnersApart

-----------------------------------------------------------------------------
\* What a step does to the receipts and to the call that takes it

\* A row changes only for its owner, for the call that reserves it, or when it is
\* completed.
RowsKept(c) ==
  \A k \in CommandKeys :
    \/ commands'[k] = commands[k]
    \/ k = Key(c) /\ (Owner(c) \/ commands[k] = NoRow)
    \/ HasStatus(k, Completed)

\* The call owns what it owned, or a key that was free.
OwnerStep(c) ==
  /\ request'[c] = request[c]
  /\ Owner(c)' => Owner(c) \/ commands[Key(c)] = NoRow
  /\ OwnerOK(c)'

\* The steps that leave the receipts alone.
Passes(c) ==
  /\ UNCHANGED <<commands, request>>
  /\ Owner(c)' <=> Owner(c)
  /\ Owner(c)' => OwnedStatuses(c) \subseteq OwnedStatuses(c)'

LEMMA PassKeeps ==
  ASSUME NEW c \in Calls, OwnerOK(c), Passes(c)
  PROVE  RowsKept(c) /\ OwnerStep(c)
  <1>1. RowsKept(c) BY DEF Passes, RowsKept
  <1>2. Key(c)' = Key(c) BY DEF Passes, Key
  <1>3. OwnerOK(c)'
    BY <1>2 DEF Passes, OwnerOK, HasStatus
  <1> QED BY <1>1, <1>3 DEF Passes, OwnerStep

LEMMA PassingSteps ==
  ASSUME TypeOK, NEW c \in Calls, Step(c),
         ~PruneOldCommands(c), ~Claim(c), ~Advance(c), ~CommitBeginRegistration(c),
         ~CommitBeginAuthentication(c), ~CommitFinishRegistration(c),
         ~CommitFinishAuthentication(c), ~CommitRevoke(c), ~RecordError(c),
         ~CommitReceipt(c)
  PROVE  Passes(c)
  <1> USE DEF TypeOK, CallsTypeOK, Passes, Owner, OwningStages, OwnedStatuses, Op, tables
  <1>0. pc[c] # "idle" => Op(c) \in StageOperations(pc[c]) BY RunningCall
  <1>1. CASE PruneOldChallenges(c) BY <1>1 DEF PruneOldChallenges, GoTo
  <1>2. CASE LoadCommand(c) BY <1>2 DEF LoadCommand, Answer, GoTo
  <1>3. CASE MissChallenge(c) BY <1>3 DEF MissChallenge, Refuse, GoTo, Incomplete
  <1>4. CASE RefuseChallenge(c) BY <1>4 DEF RefuseChallenge, Refuse, GoTo, Incomplete
  <1>5. CASE AcceptChallenge(c)
    BY <1>5 DEF AcceptChallenge, AcceptRegistrationChallenge,
           AcceptAuthenticationChallenge, FinishOperations, Refuse, GoTo, Incomplete
  <1>6. CASE DirectoryInactive(c)
    BY <1>6 DEF DirectoryInactive, Refuse, Answer, GoTo, Incomplete
  <1>7. CASE DirectoryActive(c) BY <1>7 DEF DirectoryActive, GoTo
  <1>8. CASE VerifyRegistration(c)
    BY <1>8 DEF VerifyRegistration, Refuse, GoTo, Incomplete
  <1>9. CASE RefuseTransaction(c) BY <1>9 DEF RefuseTransaction, Refuse, GoTo, Incomplete
  <1>10. CASE IssueSession(c) BY <1>10 DEF IssueSession, GoTo
  <1>11. CASE IssuerDisabled(c) BY <1>11 DEF IssuerDisabled, Refuse, GoTo, Incomplete
  <1>12. CASE LoadSubject(c) BY <1>12 DEF LoadSubject, Answer, GoTo
  <1>13. CASE LoadPasskeys(c) BY <1>13 DEF LoadPasskeys, Answer, GoTo
  <1> QED
    BY <1>1, <1>2, <1>3, <1>4, <1>5, <1>6, <1>7, <1>8, <1>9, <1>10, <1>11,
       <1>12, <1>13 DEF Step

\* A call that completes its receipt ends.
Completes(c) ==
  /\ \E status \in Completed : CompleteCommand(Key(c), status, answer'[c])
  /\ GoTo(c, "done")
  /\ UNCHANGED request

LEMMA CompletionKeeps ==
  ASSUME TypeOK, NEW c \in Calls, Owner(c), Completes(c)
  PROVE  RowsKept(c) /\ OwnerStep(c)
  <1>1. RowsKept(c)
    BY DEF TypeOK, TablesTypeOK, Completes, CompleteCommand, RowsKept
  <1>2. ~Owner(c)' BY DEF Completes, GoTo, Owner, OwningStages, TypeOK, CallsTypeOK
  <1> QED BY <1>1, <1>2 DEF OwnerStep, OwnerOK, Completes

LEMMA CompletingSteps ==
  ASSUME TypeOK, NEW c \in Calls,
         \/ CommitBeginRegistration(c) \/ CommitBeginAuthentication(c)
         \/ CommitFinishRegistration(c) \/ CommitRevoke(c) \/ RecordError(c)
         \/ CommitReceipt(c)
  PROVE  Completes(c)
  BY DEF CommitBeginRegistration, CommitBeginAuthentication, CommitFinishRegistration,
     CommitRevoke, RecordError, CommitReceipt, CommitAnswer, Answer, Completes,
     Completed, TypeOK, CallsTypeOK

LEMMA PruneKeeps ==
  ASSUME TypeOK, NEW c \in Calls, PruneOldCommands(c)
  PROVE  RowsKept(c) /\ OwnerStep(c)
  <1>1. pc[c] = "prune_commands" /\ Op(c) # "list_passkeys" /\ request' = request
    BY RunningCall DEF PruneOldCommands, StageOperations
  <1>2. RowsKept(c)
    BY DEF PruneOldCommands, PruneCommands, Prunable, RowsKept, TypeOK, TablesTypeOK
  <1>3. ~Owner(c)'
    BY DEF PruneOldCommands, GoTo, Owner, OwningStages, TypeOK, CallsTypeOK
  <1> QED BY <1>1, <1>2, <1>3 DEF OwnerStep, OwnerOK

LEMMA ClaimKeeps ==
  ASSUME TypeOK, NEW c \in Calls, Claim(c)
  PROVE  RowsKept(c) /\ OwnerStep(c)
  <1>1. /\ request[c] \in Requests /\ Op(c) = request[c].op /\ Op(c) \in Operations
        /\ Op(c) # "list_passkeys" /\ Key(c) \in CommandKeys
        /\ request' = request /\ Key(c)' = Key(c) /\ Op(c)' = Op(c)
    BY RunningCall DEF Claim, StageOperations, Key, Op
  <1>2. CASE ReserveCommand(request[c]) /\ GoTo(c, ClaimedStage(Op(c)))
    <2>1. /\ commands[Key(c)] = NoRow
          /\ commands' = [commands EXCEPT ![Key(c)] =
               [intent |-> request[c], status |-> "reserved", outcome |-> NoRow]]
      BY <1>2 DEF ReserveCommand, Key
    <2>2. RowsKept(c) BY <2>1 DEF RowsKept, TypeOK, TablesTypeOK
    <2>3. pc'[c] = (IF Op(c) \in FinishOperations THEN "advance" ELSE "directory")
      BY <1>2 DEF GoTo, ClaimedStage, TypeOK, CallsTypeOK
    <2>4. OwnedStatuses(c)' = {"reserved"}
      BY <1>1, <2>3 DEF OwnedStatuses, Op
    <2>5. /\ commands'[Key(c)] =
               [intent |-> request[c], status |-> "reserved", outcome |-> NoRow]
          /\ commands'[Key(c)] \in CommandRow
      BY <1>1, <2>1, RunningCall
         DEF TypeOK, TablesTypeOK, CommandRow, Incomplete, Claim
    <2>6. commands'[Key(c)] # NoRow
      BY <2>5, AbsentAssumption
    <2> QED BY <1>1, <2>1, <2>2, <2>4, <2>5, <2>6 DEF OwnerStep, OwnerOK, HasStatus
  <1>3. CASE GoTo(c, "load_command") /\ UNCHANGED commands
    <2>1. ~Owner(c)' BY <1>3 DEF GoTo, Owner, OwningStages, TypeOK, CallsTypeOK
    <2> QED BY <1>1, <1>3, <2>1 DEF OwnerStep, OwnerOK, RowsKept
  <1> QED BY <1>2, <1>3 DEF Claim

LEMMA AdvanceKeeps ==
  ASSUME TypeOK, NEW c \in Calls, OwnerOK(c), Advance(c)
  PROVE  RowsKept(c) /\ OwnerStep(c)
  <1>1. /\ pc[c] = "advance" /\ Op(c) \in FinishOperations /\ Op(c) # "list_passkeys"
        /\ Key(c) \in CommandKeys
        /\ request' = request /\ Key(c)' = Key(c) /\ Op(c)' = Op(c)
    BY RunningCall DEF Advance, StageOperations, FinishOperations, Key, Op
  <1>2. /\ commands[Key(c)] \in CommandRow /\ commands[Key(c)].intent = request[c]
        /\ commands' = [commands EXCEPT ![Key(c)].status = "verifying"]
    BY <1>1 DEF Advance, SetStatus, HasStatus, OwnerOK, Owner, OwningStages,
                TypeOK, TablesTypeOK
  <1>3. /\ commands'[Key(c)] \in CommandRow
        /\ commands'[Key(c)].status = "verifying"
        /\ commands'[Key(c)].intent = request[c]
    BY <1>1, <1>2 DEF TypeOK, TablesTypeOK, CommandRow, Incomplete
  <1>4. RowsKept(c)
    BY <1>1, <1>2 DEF RowsKept, Owner, OwningStages, TypeOK, TablesTypeOK
  <1>5. OwnedStatuses(c)' = {"verifying"}
    BY DEF Advance, GoTo, OwnedStatuses, TypeOK, CallsTypeOK
  <1> QED
    BY <1>1, <1>3, <1>4, <1>5, AbsentAssumption
       DEF OwnerStep, OwnerOK, HasStatus, Owner, OwningStages

LEMMA AuthenticationKeeps ==
  ASSUME TypeOK, NEW c \in Calls, OwnerOK(c), CommitFinishAuthentication(c)
  PROVE  RowsKept(c) /\ OwnerStep(c)
  <1>1. /\ pc[c] = "transaction" /\ Op(c) = "finish_authentication"
        /\ Key(c) \in CommandKeys
        /\ request' = request /\ Key(c)' = Key(c) /\ Op(c)' = Op(c)
    BY RunningCall DEF CommitFinishAuthentication, Commits, Key, Op
  <1>2. /\ commands[Key(c)] \in CommandRow /\ commands[Key(c)].intent = request[c]
        /\ commands' = [commands EXCEPT ![Key(c)].status = "issuing"]
    BY <1>1 DEF CommitFinishAuthentication, SetStatus, HasStatus, OwnerOK, Owner,
                OwningStages, TypeOK, TablesTypeOK
  <1>3. /\ commands'[Key(c)] \in CommandRow
        /\ commands'[Key(c)].status = "issuing"
        /\ commands'[Key(c)].intent = request[c]
    BY <1>1, <1>2 DEF TypeOK, TablesTypeOK, CommandRow, Incomplete
  <1>4. RowsKept(c)
    BY <1>1, <1>2 DEF RowsKept, Owner, OwningStages, TypeOK, TablesTypeOK
  <1>5. OwnedStatuses(c)' = {"issuing"}
    BY DEF CommitFinishAuthentication, GoTo, OwnedStatuses, TypeOK, CallsTypeOK
  <1> QED
    BY <1>1, <1>3, <1>4, <1>5, AbsentAssumption
       DEF OwnerStep, OwnerOK, HasStatus, Owner, OwningStages

-----------------------------------------------------------------------------
\* Ownership

LEMMA StepOwns ==
  ASSUME TypeOK, NEW c \in Calls, OwnerOK(c), Step(c)
  PROVE  RowsKept(c) /\ OwnerStep(c)
  <1>1. CASE PruneOldCommands(c) BY <1>1, PruneKeeps
  <1>2. CASE Claim(c) BY <1>2, ClaimKeeps
  <1>3. CASE Advance(c) BY <1>3, AdvanceKeeps
  <1>4. CASE CommitFinishAuthentication(c) BY <1>4, AuthenticationKeeps
  <1>5. CASE \/ CommitBeginRegistration(c) \/ CommitBeginAuthentication(c)
             \/ CommitFinishRegistration(c) \/ CommitRevoke(c) \/ RecordError(c)
             \/ CommitReceipt(c)
    <2>1. pc[c] \in {"transaction", "record_error", "receipt"}
      BY <1>5 DEF CommitBeginRegistration, CommitBeginAuthentication,
         CommitFinishRegistration, CommitRevoke, RecordError, CommitReceipt, Commits
    <2>2. Owner(c)
      BY <2>1, RunningCall DEF Owner, OwningStages, StageOperations
    <2> QED BY <1>5, <2>2, CompletingSteps, CompletionKeeps
  <1> QED BY <1>1, <1>2, <1>3, <1>4, <1>5, PassingSteps, PassKeeps

\* The other owners keep their rows, and none of them has the key of c.
LEMMA JoinOwners ==
  ASSUME TypeOK, CommandOwnership, TypeOK', NEW c \in Calls,
         OthersKept(c), RowsKept(c), OwnerStep(c)
  PROVE  CommandOwnership'
  <1>1. (\A d \in Calls : OwnerOK(d)) /\ OwnersApart BY OwnershipParts DEF OwnersOK
  <1>2. Key(c)' = Key(c) BY DEF OwnerStep, Key
  <1>3. ASSUME NEW d \in Calls \ {c}, Owner(d)'
        PROVE  /\ Owner(d) /\ Key(d)' = Key(d) /\ OwnerOK(d)'
               /\ Owner(c)' => Key(c)' # Key(d)'
    <2>1. /\ Owner(d) /\ Key(d)' = Key(d) /\ request'[d] = request[d]
          /\ OwnedStatuses(d)' = OwnedStatuses(d)
      BY <1>3 DEF OthersKept, Owner, Key, Op, OwnedStatuses
    <2>2. HasStatus(Key(d), OwnedStatuses(d)) /\ Key(d) \in CommandKeys
      BY <1>1, <2>1, RunningCall DEF OwnerOK, Owner, OwningStages
    <2>3. commands[Key(d)] # NoRow /\ ~HasStatus(Key(d), Completed)
      BY <2>2, OwnedIncomplete DEF HasStatus, Incomplete, Completed
    <2>4. Owner(c) => Key(d) # Key(c) BY <1>1, <2>1 DEF OwnersApart
    <2>5. commands'[Key(d)] = commands[Key(d)]
      BY <2>2, <2>3, <2>4 DEF RowsKept
    <2>6. OwnerOK(d)' BY <1>1, <2>1, <2>5 DEF OwnerOK, HasStatus
    <2>7. Owner(c)' => Key(c) # Key(d) BY <2>3, <2>4 DEF OwnerStep
    <2> QED BY <1>2, <2>1, <2>6, <2>7
  <1>4. OwnersOK' BY <1>3 DEF OwnerStep, OwnerOK, OwnersOK
  <1>5. OwnersApart'
    BY <1>1, <1>3 DEF OwnersApart
  <1> QED BY <1>4, <1>5, OwnershipParts, PTL

OwnershipInv == TypeOK /\ CommandOwnership

LEMMA InitOwnership == Init => OwnershipInv
  BY InitTypes DEF Init, Quiet, OwnershipInv, CommandOwnership, Owns, OwningStages

\* A call that arrives or ends owns no key.
LEMMA ArrivalOwnsNothing ==
  ASSUME TypeOK, NEW c \in Calls, Receive(c) \/ Return(c) \/ Abandon(c)
  PROVE  ~Owner(c)'
  <1>1. CASE Return(c) \/ Abandon(c)
    <2>1. pc'[c] = "idle"
      BY <1>1 DEF Return, Abandon, Clear, GoTo, TypeOK, CallsTypeOK
    <2> QED BY <2>1 DEF Owner, OwningStages
  <1>2. CASE Receive(c)
    <2>1. PICK r \in Requests :
            /\ request' = [request EXCEPT ![c] = r]
            /\ GoTo(c, "done") \/ GoTo(c, FirstStage(r.op))
      BY <1>2 DEF Receive, Answer
    <2>2. Op(c)' = r.op /\ pc'[c] \in {"done", FirstStage(r.op)}
      BY <2>1 DEF Op, GoTo, TypeOK, CallsTypeOK
    <2>3. r.op # "list_passkeys" => FirstStage(r.op) \in {"prune_challenges", "claim"}
      BY DEF FirstStage
    <2> QED BY <2>2, <2>3 DEF Owner, OwningStages
  <1> QED BY <1>1, <1>2

LEMMA NextOwnership == OwnershipInv /\ [Next]_vars => OwnershipInv'
  <1> SUFFICES ASSUME OwnershipInv, [Next]_vars PROVE CommandOwnership'
    BY NextTypes DEF OwnershipInv
  <1>1. TypeOK /\ CommandOwnership /\ TypeOK' BY NextTypes DEF OwnershipInv
  <1>2. \A c \in Calls : OwnerOK(c) BY <1>1, OwnershipParts DEF OwnersOK
  <1>3. ASSUME NEW c \in Calls, Step(c) PROVE CommandOwnership'
    BY <1>1, <1>2, <1>3, StepOwns, StepOthersKept, JoinOwners
  <1>4. ASSUME NEW c \in Calls, Receive(c) \/ Return(c) \/ Abandon(c)
        PROVE  CommandOwnership'
    <2>1. OthersKept(c) /\ UNCHANGED commands
      BY <1>1, <1>4, ArrivalTakesNone DEF Receive, Return, Abandon, tables
    <2>2. ~Owner(c)' BY <1>1, <1>4, ArrivalOwnsNothing
    <2> QED
      BY <1>1, <2>1, <2>2
         DEF CommandOwnership, Owns, Owner, OthersKept, HasStatus, OwnedStatuses,
             Key, Op
  <1>5. CASE ChangeDirectory \/ Tick \/ UNCHANGED vars
    <2>1. UNCHANGED <<commands, calls>>
      BY <1>5 DEF ChangeDirectory, Tick, Expire, vars, tables
    <2> QED
      BY <1>1, <2>1 DEF calls, CommandOwnership, Owns, HasStatus, OwnedStatuses, Key, Op
  <1> QED BY <1>3, <1>4, <1>5 DEF Next

\* A call past its claim is the only one to work on its key, and finds the row it
\* reserved, with its own intent, in the status it left it in.
THEOREM Ownership == Spec => []CommandOwnership
  <1>1. OwnershipInv => CommandOwnership BY DEF OwnershipInv
  <1> QED BY <1>1, InitOwnership, NextOwnership, PTL DEF Spec

-----------------------------------------------------------------------------
\* Answers

LEMMA CompletionAnswers ==
  ASSUME TypeOK, TypeOK', NEW c \in Calls, OwnerOK(c), Owner(c), request' = request,
         NEW status \in Completed, NEW a, CompleteCommand(Key(c), status, a),
         answer'[c] = a
  PROVE  InReceipt(c, answer[c])'
  <1>1. Key(c)' = Key(c) /\ Key(c) \in CommandKeys
    BY RunningCall DEF Owner, OwningStages, Key
  <1>2. commands[Key(c)] \in CommandRow /\ commands[Key(c)].intent = request[c]
    BY <1>1 DEF CompleteCommand, HasStatus, OwnerOK, TypeOK, TablesTypeOK
  <1>3. a \in Answers \cup {NoRow} BY DEF TypeOK, CallsTypeOK
  <1>4. /\ commands'[Key(c)] \in CommandRow
        /\ commands'[Key(c)].intent = request[c]
        /\ commands'[Key(c)].status = status /\ commands'[Key(c)].outcome = a
    BY <1>1, <1>2, <1>3 DEF CompleteCommand, TypeOK, TablesTypeOK, CommandRow
  <1> QED BY <1>1, <1>4, AbsentAssumption DEF InReceipt, HasStatus

LEMMA LoadAnswers ==
  ASSUME TypeOK, NEW c \in Calls, LoadCommand(c), Answered(c)
  PROVE  InReceipt(c, answer[c])'
  <1>1. /\ answer'[c] = ReplayAnswer(request[c]) /\ UNCHANGED <<commands, request>>
        /\ commands[Key(c)] # NoRow /\ Key(c)' = Key(c) /\ Key(c) = CommandKey(request[c])
    BY DEF LoadCommand, Answer, tables, TypeOK, CallsTypeOK, Key
  <1> QED BY <1>1 DEF ReplayAnswer, Answered, InReceipt, HasStatus

LEMMA CommitAnswers ==
  ASSUME TypeOK, TypeOK', NEW c \in Calls, OwnerOK(c), Owner(c), request' = request,
         NEW a, CommitAnswer(c, a)
  PROVE  InReceipt(c, answer[c])'
  <1>1. /\ CompleteCommand(Key(c), "completed_success", a) /\ answer'[c] = a
        /\ "completed_success" \in Completed
    BY DEF CommitAnswer, Answer, Completed, TypeOK, CallsTypeOK
  <1> QED BY <1>1, CompletionAnswers

LEMMA StepAnswers ==
  ASSUME TypeOK, TypeOK', NEW c \in Calls, OwnerOK(c), Step(c), Answered(c)
  PROVE  InReceipt(c, answer[c])'
  <1>1. CASE LoadCommand(c) BY <1>1, LoadAnswers
  <1>2. ASSUME pc[c] \in {"transaction", "record_error", "receipt"} PROVE Owner(c)
    BY <1>2, RunningCall DEF Owner, OwningStages, StageOperations
  <1>3. CASE RecordError(c)
    <2>1. /\ CompleteCommand(Key(c), "completed_error", answer[c])
          /\ answer'[c] = answer[c] /\ request' = request
          /\ Owner(c) /\ "completed_error" \in Completed
      BY <1>2, <1>3 DEF RecordError, Completed
    <2> QED BY <2>1, CompletionAnswers
  <1>4. CASE CommitBeginRegistration(c)
    BY <1>2, <1>4, CommitAnswers DEF CommitBeginRegistration, Commits
  <1>5. CASE CommitBeginAuthentication(c)
    BY <1>2, <1>5, CommitAnswers DEF CommitBeginAuthentication, Commits
  <1>6. CASE CommitFinishRegistration(c)
    BY <1>2, <1>6, CommitAnswers DEF CommitFinishRegistration, Commits
  <1>7. CASE CommitRevoke(c)
    BY <1>2, <1>7, CommitAnswers DEF CommitRevoke, Commits
  <1>8. CASE CommitReceipt(c) BY <1>2, <1>8, CommitAnswers DEF CommitReceipt
  <1>9. ASSUME ~LoadCommand(c), ~RecordError(c), ~CommitBeginRegistration(c),
               ~CommitBeginAuthentication(c), ~CommitFinishRegistration(c),
               ~CommitRevoke(c), ~CommitReceipt(c)
        PROVE  FALSE
    <2>1. pc'[c] = "done" /\ pc[c] # "idle" /\ Op(c) # "list_passkeys"
          /\ Op(c) \in StageOperations(pc[c])
      BY RunningCall DEF Answered
    <2>2. CASE LoadSubject(c) \/ LoadPasskeys(c)
      BY <2>1, <2>2 DEF LoadSubject, LoadPasskeys, StageOperations
    <2>3. CASE ~LoadSubject(c) /\ ~LoadPasskeys(c)
      BY <1>9, <2>1, <2>3 DEF TypeOK, CallsTypeOK, GoTo, Answer, Refuse, Step,
         PruneOldChallenges, PruneOldCommands, Claim, ClaimedStage, Advance,
         MissChallenge, RefuseChallenge, AcceptChallenge, AcceptRegistrationChallenge,
         AcceptAuthenticationChallenge, DirectoryInactive, DirectoryActive,
         VerifyRegistration, RefuseTransaction, CommitFinishAuthentication,
         IssueSession, IssuerDisabled
    <2> QED BY <2>2, <2>3
  <1> QED BY <1>1, <1>3, <1>4, <1>5, <1>6, <1>7, <1>8, <1>9

LEMMA NextAnswers ==
  OwnershipInv /\ OwnershipInv' /\ [Next]_vars
    => [\A c \in Calls : Answered(c) => InReceipt(c, answer[c])']_vars
  <1> SUFFICES ASSUME OwnershipInv, OwnershipInv', Next, NEW c \in Calls, Answered(c)
               PROVE  InReceipt(c, answer[c])'
    OBVIOUS
  <1>1. TypeOK /\ TypeOK' /\ \A d \in Calls : OwnerOK(d)
    BY OwnershipParts DEF OwnershipInv, OwnersOK
  <1>2. ASSUME NEW d \in Calls, Receive(d) \/ Return(d) \/ Abandon(d) PROVE FALSE
    <2>1. OthersKept(d) BY <1>1, <1>2, ArrivalTakesNone
    <2>2. d = c BY <2>1 DEF OthersKept, Answered
    <2> QED
      BY <1>1, <1>2, <2>2
         DEF Answered, Receive, Return, Abandon, Clear, GoTo, TypeOK, CallsTypeOK
  <1>3. ASSUME NEW d \in Calls, Step(d) PROVE InReceipt(c, answer[c])'
    <2>1. OthersKept(d) BY <1>1, <1>3, StepOthersKept
    <2>2. d = c BY <2>1 DEF OthersKept, Answered
    <2> QED BY <1>1, <1>3, <2>2, StepAnswers
  <1>4. CASE ChangeDirectory \/ Tick
    BY <1>4 DEF ChangeDirectory, Tick, calls, Answered
  <1> QED BY <1>2, <1>3, <1>4 DEF Next

\* Every answer to a command is the one its receipt keeps for every later replay.
THEOREM AnswersMatch == Spec => AnswerMatchesReceipt
  BY InitOwnership, NextOwnership, NextAnswers, PTL DEF Spec, AnswerMatchesReceipt

-----------------------------------------------------------------------------
\* Recorded errors

\* The error a call is about to record is one its operation decodes.
ErrorOK(c) ==
  pc[c] = "record_error" => \E code \in ReplayableCodes(Op(c)) : answer[c] = Error(code)

ErrorsInv == TypeOK /\ RecordedErrorsReplay /\ \A c \in Calls : ErrorOK(c)

LEMMA RefusedOK ==
  ASSUME TypeOK, NEW c \in Calls, NEW code \in ReplayableCodes(Op(c)),
         Refuse(c, code), request' = request
  PROVE  ErrorOK(c)'
  <1>1. Op(c)' = Op(c) /\ answer'[c] = Error(code)
    BY DEF Refuse, Op, TypeOK, CallsTypeOK
  <1>2. ReplayableCodes(Op(c))' = ReplayableCodes(Op(c)) BY <1>1 DEF ReplayableCodes
  <1>3. code \in ReplayableCodes(Op(c))' BY <1>2
  <1> QED BY <1>1, <1>3 DEF ErrorOK, Error

LEMMA TransactionCodes ==
  ASSUME TypeOK, NEW c \in Calls, pc[c] = "transaction", TransactionError(c) # "none"
  PROVE  TransactionError(c) \in ReplayableCodes(Op(c))
  <1>1. Op(c) \in Operations /\ Op(c) # "list_passkeys"
    BY RunningCall DEF StageOperations
  <1>2. CASE Op(c) = "begin_registration"
    BY <1>2 DEF TransactionError, ReplayableCodes, BeginRegistrationError
  <1>3. CASE Op(c) = "begin_authentication"
    BY <1>3 DEF TransactionError, ReplayableCodes, BeginAuthenticationError
  <1>4. CASE Op(c) = "finish_registration"
    BY <1>4 DEF TransactionError, ReplayableCodes, FinishRegistrationError
  <1>5. CASE Op(c) = "finish_authentication"
    BY <1>5 DEF TransactionError, ReplayableCodes, FinishAuthenticationError
  <1>6. CASE Op(c) = "revoke_passkey"
    BY <1>6 DEF TransactionError, ReplayableCodes, RevokeError
  <1> QED BY <1>1, <1>2, <1>3, <1>4, <1>5, <1>6 DEF Operations

LEMMA StepErrors ==
  ASSUME TypeOK, NEW c \in Calls, Step(c)
  PROVE  ErrorOK(c)'
  <1>0. pc[c] # "idle" => Op(c) \in Operations /\ Op(c) \in StageOperations(pc[c])
    BY RunningCall
  <1>1. CASE MissChallenge(c)
    <2>1. "invalid_request" \in ReplayableCodes(Op(c))
      BY <1>0, <1>1 DEF MissChallenge, StageOperations, FinishOperations, ReplayableCodes
    <2> QED BY <1>1, <2>1, RefusedOK DEF MissChallenge
  <1>2. CASE RefuseChallenge(c)
    <2>1. ChallengeError(request[c]) \in ReplayableCodes(Op(c))
      BY <1>0, <1>2 DEF RefuseChallenge, StageOperations, FinishOperations,
                        ReplayableCodes, ChallengeError
    <2> QED BY <1>2, <2>1, RefusedOK DEF RefuseChallenge
  <1>3. CASE AcceptChallenge(c)
    <2>1. CASE pc'[c] = "record_error"
      <3>1. Op(c) = "finish_authentication" /\ Refuse(c, "invalid_credentials")
        BY <1>3, <2>1 DEF AcceptChallenge, AcceptRegistrationChallenge,
           AcceptAuthenticationChallenge, GoTo, TypeOK, CallsTypeOK
      <3>2. "invalid_credentials" \in ReplayableCodes(Op(c))
        BY <3>1 DEF ReplayableCodes
      <3> QED BY <1>3, <3>1, <3>2, RefusedOK DEF AcceptChallenge
    <2> QED BY <2>1 DEF ErrorOK
  <1>4. CASE DirectoryInactive(c)
    <2>1. CASE Op(c) = "list_passkeys"
      BY <1>4, <2>1
         DEF DirectoryInactive, Answer, GoTo, ErrorOK, TypeOK, CallsTypeOK
    <2>2. CASE Op(c) # "list_passkeys"
      <3>1. InactiveCode(Op(c)) \in ReplayableCodes(Op(c))
        BY <1>0, <1>4, <2>2
           DEF DirectoryInactive, InactiveCode, ReplayableCodes, Operations
      <3> QED BY <1>4, <2>2, <3>1, RefusedOK DEF DirectoryInactive
    <2> QED BY <2>1, <2>2
  <1>5. CASE VerifyRegistration(c)
    <2>1. CASE Refuse(c, "invalid_credential")
      <3>1. "invalid_credential" \in ReplayableCodes(Op(c))
        BY <1>5 DEF VerifyRegistration, ReplayableCodes
      <3> QED BY <1>5, <2>1, <3>1, RefusedOK DEF VerifyRegistration
    <2>2. CASE GoTo(c, "transaction")
      BY <2>2 DEF GoTo, ErrorOK, TypeOK, CallsTypeOK
    <2> QED BY <1>5, <2>1, <2>2 DEF VerifyRegistration
  <1>6. CASE RefuseTransaction(c)
    BY <1>6, TransactionCodes, RefusedOK DEF RefuseTransaction
  <1>7. CASE IssuerDisabled(c)
    <2>1. "disabled" \in ReplayableCodes(Op(c))
      BY <1>0, <1>7 DEF IssuerDisabled, StageOperations, ReplayableCodes
    <2> QED BY <1>7, <2>1, RefusedOK DEF IssuerDisabled
  <1>8. ASSUME ~MissChallenge(c), ~RefuseChallenge(c), ~AcceptChallenge(c),
               ~DirectoryInactive(c), ~VerifyRegistration(c), ~RefuseTransaction(c),
               ~IssuerDisabled(c)
        PROVE  pc'[c] # "record_error"
    BY <1>8 DEF TypeOK, CallsTypeOK, GoTo, Answer, CommitAnswer, Step,
       PruneOldChallenges, PruneOldCommands, Claim, ClaimedStage, LoadCommand, Advance,
       DirectoryActive, CommitBeginRegistration, CommitBeginAuthentication,
       CommitFinishRegistration, CommitFinishAuthentication, CommitRevoke, RecordError,
       IssueSession, CommitReceipt, LoadSubject, LoadPasskeys
  <1> QED BY <1>1, <1>2, <1>3, <1>4, <1>5, <1>6, <1>7, <1>8 DEF ErrorOK

\* The rows that hold an error after a step held it before, or the step records it.
StepRecords(c) ==
  \A k \in CommandKeys :
    \/ commands'[k] = commands[k]
    \/ ~HasStatus(k, {"completed_error"})'
    \/ pc[c] = "record_error" /\ k = Key(c) /\ commands'[k].outcome = answer[c]

LEMMA StepRecordsErrors ==
  ASSUME TypeOK, TypeOK', NEW c \in Calls, Step(c)
  PROVE  StepRecords(c)
  <1> USE DEF TypeOK, TablesTypeOK, StepRecords, HasStatus
  <1>1. CASE PruneOldCommands(c) BY <1>1 DEF PruneOldCommands, PruneCommands
  <1>2. CASE Claim(c) BY <1>2 DEF Claim, ReserveCommand
  <1>3. CASE Advance(c)
    BY <1>3 DEF Advance, SetStatus, CommandRow
  <1>4. CASE CommitFinishAuthentication(c)
    BY <1>4 DEF CommitFinishAuthentication, SetStatus, CommandRow
  <1>5. ASSUME NEW a, CommitAnswer(c, a) PROVE StepRecords(c)
    BY <1>5 DEF CommitAnswer, CompleteCommand, CommandRow
  <1>6. CASE RecordError(c)
    BY <1>6 DEF RecordError, CompleteCommand, CommandRow
  <1>7. CASE \/ CommitBeginRegistration(c) \/ CommitBeginAuthentication(c)
             \/ CommitFinishRegistration(c) \/ CommitRevoke(c) \/ CommitReceipt(c)
    BY <1>5, <1>7 DEF CommitBeginRegistration, CommitBeginAuthentication,
       CommitFinishRegistration, CommitRevoke, CommitReceipt
  <1>8. ASSUME ~PruneOldCommands(c), ~Claim(c), ~Advance(c),
               ~CommitFinishAuthentication(c), ~RecordError(c),
               ~CommitBeginRegistration(c), ~CommitBeginAuthentication(c),
               ~CommitFinishRegistration(c), ~CommitRevoke(c), ~CommitReceipt(c)
        PROVE  UNCHANGED commands
    BY <1>8 DEF Step, tables, PruneOldChallenges, LoadCommand, MissChallenge,
       RefuseChallenge, AcceptChallenge, DirectoryInactive, DirectoryActive,
       VerifyRegistration, RefuseTransaction, IssueSession, IssuerDisabled,
       LoadSubject, LoadPasskeys
  <1> QED BY <1>1, <1>2, <1>3, <1>4, <1>6, <1>7, <1>8

LEMMA RecordsReplay ==
  ASSUME RecordedErrorsReplay, NEW c \in Calls, ErrorOK(c), StepRecords(c)
  PROVE  RecordedErrorsReplay'
  <1> SUFFICES ASSUME NEW r \in Commands, HasStatus(CommandKey(r), {"completed_error"})'
               PROVE  \E code \in ReplayableCodes(r.op) :
                        commands'[CommandKey(r)].outcome = Error(code)
    BY DEF RecordedErrorsReplay, Replayable
  <1>1. CommandKey(r) \in CommandKeys BY DEF CommandKeys
  <1>2. CASE commands'[CommandKey(r)] = commands[CommandKey(r)]
    BY <1>2 DEF RecordedErrorsReplay, Replayable, HasStatus
  <1>3. CASE /\ pc[c] = "record_error" /\ CommandKey(r) = Key(c)
             /\ commands'[CommandKey(r)].outcome = answer[c]
    <2>1. r.op = Op(c) BY <1>3 DEF CommandKey, Key, Op
    <2> QED BY <1>3, <2>1 DEF ErrorOK
  <1> QED BY <1>1, <1>2, <1>3 DEF StepRecords

LEMMA InitErrors == Init => ErrorsInv
  BY InitTypes DEF Init, StorageInit, Quiet, ErrorsInv, RecordedErrorsReplay, Replayable,
     HasStatus, ErrorOK, CommandKeys

LEMMA NextErrors == ErrorsInv /\ [Next]_vars => ErrorsInv'
  <1> SUFFICES ASSUME ErrorsInv, [Next]_vars
               PROVE  RecordedErrorsReplay' /\ \A d \in Calls : ErrorOK(d)'
    BY NextTypes DEF ErrorsInv
  <1>1. /\ TypeOK /\ TypeOK' /\ RecordedErrorsReplay
        /\ \A d \in Calls : ErrorOK(d)
    BY NextTypes DEF ErrorsInv
  <1>2. ASSUME NEW c \in Calls, OthersKept(c), ErrorOK(c)'
        PROVE  \A d \in Calls : ErrorOK(d)'
    BY <1>1, <1>2 DEF OthersKept, ErrorOK, Op, ReplayableCodes
  <1>3. ASSUME NEW c \in Calls, Step(c)
        PROVE  RecordedErrorsReplay' /\ \A d \in Calls : ErrorOK(d)'
    <2>1. OthersKept(c) /\ ErrorOK(c)' /\ StepRecords(c)
      BY <1>1, <1>3, StepOthersKept, StepErrors, StepRecordsErrors
    <2> QED BY <1>1, <1>2, <2>1, RecordsReplay
  <1>4. ASSUME NEW c \in Calls, Receive(c) \/ Return(c) \/ Abandon(c)
        PROVE  RecordedErrorsReplay' /\ \A d \in Calls : ErrorOK(d)'
    <2>1. OthersKept(c) /\ UNCHANGED commands
      BY <1>1, <1>4, ArrivalTakesNone DEF Receive, Return, Abandon, tables
    <2>2. pc'[c] # "record_error"
      BY <1>1, <1>4 DEF Receive, Return, Abandon, Answer, Clear, GoTo, FirstStage,
                        TypeOK, CallsTypeOK
    <2>3. StepRecords(c) BY <2>1 DEF StepRecords
    <2> QED BY <1>1, <1>2, <2>1, <2>2, <2>3, RecordsReplay DEF ErrorOK
  <1>5. CASE ChangeDirectory \/ Tick \/ UNCHANGED vars
    <2>1. UNCHANGED <<commands, calls>>
      BY <1>5 DEF ChangeDirectory, Tick, Expire, vars, tables
    <2>2. RecordedErrorsReplay'
      BY <1>1, <2>1 DEF RecordedErrorsReplay, Replayable, HasStatus
    <2>3. \A d \in Calls : ErrorOK(d)'
      BY <1>1, <2>1 DEF calls, ErrorOK, Op
    <2> QED BY <2>2, <2>3
  <1> QED BY <1>3, <1>4, <1>5 DEF Next

\* Every error a handler records is one the replay of its operation decodes.
THEOREM ErrorsReplay == Spec => []RecordedErrorsReplay
  <1>1. ErrorsInv => RecordedErrorsReplay BY DEF ErrorsInv
  <1> QED BY <1>1, InitErrors, NextErrors, PTL DEF Spec

-----------------------------------------------------------------------------
\* The receipts implement CommandReceipts: the holder of a pending receipt is the
\* owner of its key, and nobody once the owner was lost.

\* Holder names the owner of the key, if it has one.
HolderOf(k) ==
  /\ \A c \in Calls : Owner(c) /\ Key(c) = k => Holder(k) = c
  /\ (\A c \in Calls : Owner(c) => Key(c) # k) => Holder(k) = NoRow

LEMMA HoldersNamed ==
  TypeOK /\ CommandOwnership => \A k \in CommandKeys : HolderOf(k)
  <1> SUFFICES ASSUME TypeOK, CommandOwnership, NEW k \in CommandKeys PROVE HolderOf(k)
    OBVIOUS
  <1>1. OwnersApart BY OwnershipParts
  <1>2. \A c \in Calls : Owns(c, k) <=> Owner(c) /\ Key(c) = k BY DEF Owns, Owner
  <1>3. ASSUME NEW c \in Calls, Owner(c), Key(c) = k PROVE Holder(k) = c
    <2>1. \A d \in Calls : Owns(d, k) <=> d = c BY <1>1, <1>2, <1>3 DEF OwnersApart
    <2> QED BY <2>1 DEF Holder
  <1>4. ASSUME \A c \in Calls : Owner(c) => Key(c) # k PROVE Holder(k) = NoRow
    BY <1>2, <1>4 DEF Holder
  <1> QED BY <1>3, <1>4 DEF HolderOf

HoldersNow == \A k \in CommandKeys : HolderOf(k)

\* The receipts as the Plugin has them.
View == [k \in CommandKeys |-> ReceiptOf(k)]

\* A step that leaves the rows and the owners alone.
LEMMA SameReceipts ==
  ASSUME HoldersNow, HoldersNow', UNCHANGED commands,
         \A d \in Calls : /\ Owner(d)' <=> Owner(d)
                          /\ Owner(d) => Key(d)' = Key(d)
  PROVE  UNCHANGED View
  <1>1. ASSUME NEW k \in CommandKeys PROVE ReceiptOf(k)' = ReceiptOf(k)
    <2>1. HolderOf(k) /\ HolderOf(k)' BY DEF HoldersNow
    <2>2. Holder(k)' = Holder(k)
      <3>1. CASE \E d \in Calls : Owner(d) /\ Key(d) = k BY <2>1, <3>1 DEF HolderOf
      <3>2. CASE \A d \in Calls : Owner(d) => Key(d) # k BY <2>1, <3>2 DEF HolderOf
      <3> QED BY <3>1, <3>2
    <2> QED BY <2>2 DEF ReceiptOf
  <1> QED BY <1>1 DEF View

\* A step of c that leaves every row but that of its key as it is, and every other
\* owner.
Touches(c) ==
  /\ \A k \in CommandKeys \ {Key(c)} : commands'[k] = commands[k]
  /\ request'[c] = request[c] \/ ~Owner(c)'
  /\ \A d \in Calls \ {c} : /\ Owner(d)' <=> Owner(d)
                            /\ Owner(d) => Key(d)' = Key(d)

LEMMA OtherReceipts ==
  ASSUME HoldersNow, HoldersNow', NEW c \in Calls, Touches(c),
         NEW k \in CommandKeys, k # Key(c)
  PROVE  ReceiptOf(k)' = ReceiptOf(k)
  <1>1. HolderOf(k) /\ HolderOf(k)' BY DEF HoldersNow
  <1>2. Owner(c)' => Key(c)' # k BY DEF Touches, Key
  <1>3. Holder(k)' = Holder(k)
    <2>1. CASE \E d \in Calls : Owner(d) /\ Key(d) = k
      <3>1. PICK d \in Calls : Owner(d) /\ Key(d) = k BY <2>1
      <3>2. d # c /\ Owner(d)' /\ Key(d)' = k BY <3>1 DEF Touches
      <3> QED BY <1>1, <3>1, <3>2 DEF HolderOf
    <2>2. CASE \A d \in Calls : Owner(d) => Key(d) # k
      <3>1. \A d \in Calls : Owner(d)' => Key(d)' # k
        BY <1>2, <2>2 DEF Touches
      <3> QED BY <1>1, <2>2, <3>1 DEF HolderOf
    <2> QED BY <2>1, <2>2
  <1>4. commands'[k] = commands[k] BY DEF Touches
  <1> QED BY <1>3, <1>4 DEF ReceiptOf

LEMMA OneReceipt ==
  ASSUME HoldersNow, HoldersNow', NEW c \in Calls, Touches(c), NEW k \in CommandKeys,
         k = Key(c)
  PROVE  View' = [View EXCEPT ![k] = ReceiptOf(k)']
  <1>1. \A j \in CommandKeys \ {k} : ReceiptOf(j)' = ReceiptOf(j) BY OtherReceipts
  <1> QED BY <1>1 DEF View


-----------------------------------------------------------------------------
\* The five ways a receipt changes

\* The phase of a receipt, and whose it is.
LEMMA Phases ==
  ASSUME TypeOK, NEW k \in CommandKeys
  PROVE  /\ commands[k] = NoRow => ReceiptOf(k) = [phase |-> "absent"]
         /\ HasStatus(k, Incomplete) =>
              ReceiptOf(k) = [phase |-> "pending", holder |-> Holder(k),
                              intent |-> commands[k].intent]
         /\ HasStatus(k, Completed) =>
              ReceiptOf(k) = [phase |-> "settled", intent |-> commands[k].intent,
                              outcome |-> commands[k].outcome]
         /\ commands[k] = NoRow \/ HasStatus(k, Incomplete) \/ HasStatus(k, Completed)
  <1>1. commands[k] # NoRow => commands[k].status \in Incomplete \cup Completed
    BY DEF TypeOK, TablesTypeOK, CommandRow
  <1>2. \A s \in Completed : s \notin Incomplete BY DEF Completed, Incomplete
  <1> QED BY <1>1, <1>2 DEF HasStatus, ReceiptOf

PhasesNow ==
  \A k \in CommandKeys :
    /\ commands[k] = NoRow => ReceiptOf(k) = [phase |-> "absent"]
    /\ HasStatus(k, Incomplete) =>
         ReceiptOf(k) = [phase |-> "pending", holder |-> Holder(k),
                         intent |-> commands[k].intent]
    /\ HasStatus(k, Completed) =>
         ReceiptOf(k) = [phase |-> "settled", intent |-> commands[k].intent,
                         outcome |-> commands[k].outcome]
    /\ commands[k] = NoRow \/ HasStatus(k, Incomplete) \/ HasStatus(k, Completed)

LEMMA PhasesKnown == TypeOK => PhasesNow
  BY Phases DEF PhasesNow

ReceiptsInv == OwnershipInv /\ HoldersNow /\ PhasesNow

LEMMA ReceiptsKnown == OwnershipInv => ReceiptsInv
  BY HoldersNamed, PhasesKnown DEF OwnershipInv, ReceiptsInv, HoldersNow

\* An owner finds its receipt pending, with its own intent.
OwnersFind ==
  \A c \in Calls :
    Owner(c) => HasStatus(Key(c), Incomplete) /\ commands[Key(c)].intent = request[c]

LEMMA OwnersKnown == OwnershipInv => OwnersFind
  BY OwnershipParts, OwnedIncomplete
     DEF OwnershipInv, OwnersOK, OwnerOK, OwnersFind, HasStatus

\* The call that owns the key is the holder of its pending receipt.
LEMMA OwnedReceipt ==
  ASSUME ReceiptsInv, NEW c \in Calls, Owner(c)
  PROVE  /\ Key(c) \in CommandKeys /\ request[c] \in Commands
         /\ HasStatus(Key(c), Incomplete) /\ commands[Key(c)].intent = request[c]
         /\ ReceiptOf(Key(c)) = [phase |-> "pending", holder |-> c, intent |-> request[c]]
  <1>1. TypeOK /\ OwnersOK BY OwnershipParts DEF ReceiptsInv, OwnershipInv
  <1>2. Key(c) \in CommandKeys /\ request[c] \in Commands
    BY <1>1, RunningCall DEF Owner, OwningStages
  <1>3. HasStatus(Key(c), Incomplete) /\ commands[Key(c)].intent = request[c]
    BY <1>1, OwnedIncomplete DEF OwnersOK, OwnerOK, HasStatus
  <1>4. Holder(Key(c)) = c BY <1>2 DEF ReceiptsInv, HoldersNow, HolderOf
  <1> QED BY <1>2, <1>3, <1>4 DEF ReceiptsInv, PhasesNow

\* The owner completes its receipt and ends.
LEMMA CompletionSettles ==
  ASSUME ReceiptsInv, ReceiptsInv', NEW c \in Calls, Owner(c), OthersKept(c), Completes(c)
  PROVE  Receipts!Next
  <1>1. TypeOK /\ HoldersNow /\ HoldersNow' /\ PhasesNow'
    BY DEF ReceiptsInv, OwnershipInv
  <1>2. PICK k \in CommandKeys : k = Key(c) BY OwnedReceipt
  <1>o. PICK outcome : outcome = answer'[c] OBVIOUS
  <1>3. PICK status \in Completed : CompleteCommand(k, status, outcome)
    BY <1>2, <1>o DEF Completes
  <1>4. ~Owner(c)' /\ request' = request
    BY <1>1 DEF Completes, GoTo, Owner, OwningStages, TypeOK, CallsTypeOK
  <1>5. Touches(c)
    <2>1. \A j \in CommandKeys \ {k} : commands'[j] = commands[j]
      BY <1>1, <1>3 DEF CompleteCommand, TypeOK, TablesTypeOK
    <2> QED BY <1>2, <1>4, <2>1 DEF Touches, OthersKept, Owner, Op, Key
  <1>6. View' = [View EXCEPT ![k] = ReceiptOf(k)'] BY <1>1, <1>2, <1>5, OneReceipt
  <1>7. /\ commands[k] \in CommandRow /\ commands[k] # NoRow
        /\ commands' = [commands EXCEPT ![k].status = status, ![k].outcome = outcome]
    BY <1>1, <1>3 DEF CompleteCommand, HasStatus, TypeOK, TablesTypeOK
  <1>8. /\ commands'[k] # NoRow /\ commands'[k].status = status
        /\ commands'[k].intent = request[c]
    <2>1. commands[k].intent = request[c] BY <1>2, OwnedReceipt
    <2>2. commands'[k].status = status /\ commands'[k].intent = commands[k].intent
      BY <1>1, <1>7 DEF TypeOK, TablesTypeOK, CommandRow
    <2>3. commands'[k] # NoRow
      <3>1. outcome \in Answers \cup {NoRow}
        BY <1>o DEF ReceiptsInv, OwnershipInv, TypeOK, CallsTypeOK
      <3>2. commands'[k] \in CommandRow
        BY <1>1, <1>7, <3>1 DEF TypeOK, TablesTypeOK, CommandRow
      <3> QED BY <3>2, AbsentAssumption
    <2> QED BY <2>1, <2>2, <2>3
  <1>9. ReceiptOf(k)' = [phase |-> "settled", intent |-> request[c],
                         outcome |-> commands'[k].outcome]
    BY <1>1, <1>8 DEF PhasesNow, HasStatus
  <1>10. View[k] = [phase |-> "pending", holder |-> c, intent |-> request[c]]
    BY <1>2, OwnedReceipt DEF View
  <1>11. View'[k] = [phase |-> "settled", intent |-> request[c],
                     outcome |-> commands'[k].outcome]
    BY <1>6, <1>9 DEF View
  <1>12. Receipts!Settle(k)
    <2>1. View[k].phase = "pending" /\ View[k].holder # NoRow
      BY <1>10, AbsentAssumption
    <2>2. View'[k].phase = "settled" BY <1>11
    <2>3. /\ View[k].intent = request[c] /\ View'[k].outcome = commands'[k].outcome
          /\ ReceiptOf(k)' = View'[k]
      BY <1>9, <1>10, <1>11
    <2>4. View' = [View EXCEPT ![k] = Receipts!Settled(View[k].intent, View'[k].outcome)]
      BY <1>6, <1>11, <2>3 DEF Receipts!Settled
    <2> QED BY <2>1, <2>2, <2>4 DEF Receipts!Settle, View
  <1> QED BY <1>12 DEF Receipts!Next

\* A lost owner leaves its receipt pending for good.
LEMMA AbandonLoses ==
  ASSUME ReceiptsInv, ReceiptsInv', NEW c \in Calls, Owner(c), ~Owner(c)',
         OthersKept(c), UNCHANGED commands
  PROVE  Receipts!Next
  <1>1. HoldersNow /\ HoldersNow' /\ PhasesNow' /\ OwnersApart
    BY OwnershipParts DEF ReceiptsInv, OwnershipInv
  <1>2. PICK k \in CommandKeys : k = Key(c) BY OwnedReceipt
  <1>3. Touches(c) BY DEF Touches, OthersKept, Owner, Op, Key
  <1>4. View' = [View EXCEPT ![k] = ReceiptOf(k)'] BY <1>1, <1>2, <1>3, OneReceipt
  <1>5. Holder(k)' = NoRow
    <2>1. ASSUME NEW d \in Calls, Owner(d)' PROVE Key(d)' # k
      BY <1>1, <1>2, <1>3, <2>1 DEF Touches, OwnersApart
    <2> QED BY <1>1, <2>1 DEF HoldersNow, HolderOf
  <1>6. ReceiptOf(k)' = [phase |-> "pending", holder |-> NoRow, intent |-> request[c]]
    <2>1. HasStatus(k, Incomplete)' /\ commands'[k].intent = request[c]
      BY <1>2, OwnedReceipt DEF HasStatus
    <2> QED BY <1>1, <1>5, <2>1 DEF PhasesNow
  <1>7. View[k] = [phase |-> "pending", holder |-> c, intent |-> request[c]]
    BY <1>2, OwnedReceipt DEF View
  <1>8. [View[k] EXCEPT !.holder = NoRow] = ReceiptOf(k)' BY <1>6, <1>7
  <1>9. View' = [View EXCEPT ![k].holder = NoRow] BY <1>4, <1>8
  <1>10. Receipts!Lose(k)
    <2>1. View[k].phase = "pending" BY <1>7
    <2> QED BY <1>9, <2>1 DEF Receipts!Lose, View
  <1> QED BY <1>10 DEF Receipts!Next

\* A claim that inserts the row makes its call the holder.
LEMMA ClaimReserves ==
  ASSUME ReceiptsInv, ReceiptsInv', NEW c \in Calls, OthersKept(c), pc[c] = "claim",
         ReserveCommand(request[c]), GoTo(c, ClaimedStage(Op(c))), request' = request
  PROVE  Receipts!Next
  <1>1. TypeOK /\ HoldersNow /\ HoldersNow' /\ PhasesNow /\ PhasesNow'
    BY DEF ReceiptsInv, OwnershipInv
  <1>2. /\ ~Owner(c) /\ Op(c) # "list_passkeys" /\ request[c] \in Commands
        /\ Key(c) \in CommandKeys
    BY <1>1, RunningCall DEF Owner, OwningStages, StageOperations
  <1>3. PICK k \in CommandKeys : k = Key(c) BY <1>2
  <1>4. /\ commands[k] = NoRow
        /\ commands' = [commands EXCEPT ![k] =
             [intent |-> request[c], status |-> "reserved", outcome |-> NoRow]]
    BY <1>3 DEF ReserveCommand, Key
  <1>5. Owner(c)' /\ Key(c)' = k
    BY <1>1, <1>2, <1>3 DEF GoTo, ClaimedStage, Owner, OwningStages, Op, Key,
                            TypeOK, CallsTypeOK
  <1>6. Touches(c)
    <2>1. \A j \in CommandKeys \ {k} : commands'[j] = commands[j]
      BY <1>1, <1>4 DEF TypeOK, TablesTypeOK
    <2> QED BY <1>3, <2>1 DEF Touches, OthersKept, Owner, Op, Key
  <1>7. View' = [View EXCEPT ![k] = ReceiptOf(k)'] BY <1>1, <1>3, <1>6, OneReceipt
  <1>8. ReceiptOf(k)' = Receipts!Pending(c, request[c])
    <2>1. commands'[k] = [intent |-> request[c], status |-> "reserved", outcome |-> NoRow]
      BY <1>1, <1>4 DEF TypeOK, TablesTypeOK
    <2>2. HasStatus(k, Incomplete)'
      <3>1. commands'[k] \in CommandRow
        BY <1>2, <2>1 DEF CommandRow, Incomplete
      <3> QED BY <2>1, <3>1, AbsentAssumption DEF HasStatus, Incomplete
    <2>3. Holder(k)' = c BY <1>1, <1>5 DEF HoldersNow, HolderOf
    <2> QED BY <1>1, <2>1, <2>2, <2>3 DEF PhasesNow, Receipts!Pending
  <1>9. View[k] = Receipts!Absent
    BY <1>1, <1>4 DEF View, PhasesNow, Receipts!Absent
  <1>10. ASSUME NEW j \in CommandKeys, View[j].phase = "pending" PROVE View[j].holder # c
    <2>1. View[j] = ReceiptOf(j) BY DEF View
    <2>2. HasStatus(j, Incomplete) BY <1>1, <1>10, <2>1 DEF PhasesNow
    <2>3. View[j].holder = Holder(j) BY <1>1, <2>1, <2>2 DEF PhasesNow
    <2>4. Holder(j) # c
      <3>1. CASE \E d \in Calls : Owner(d) /\ Key(d) = j
        BY <1>1, <1>2, <3>1 DEF HoldersNow, HolderOf
      <3>2. CASE \A d \in Calls : Owner(d) => Key(d) # j
        BY <1>1, <3>2, AbsentAssumption DEF HoldersNow, HolderOf
      <3> QED BY <3>1, <3>2
    <2> QED BY <2>3, <2>4
  <1>11. Receipts!Reserve(k, c, request[c])
    BY <1>7, <1>8, <1>9, <1>10 DEF Receipts!Reserve, View
  <1> QED BY <1>2, <1>11 DEF Receipts!Next

\* Retention removes completed receipts.
LEMMA PruneForgets ==
  ASSUME ReceiptsInv, ReceiptsInv', NEW c \in Calls, OthersKept(c), PruneOldCommands(c)
  PROVE  Receipts!Next
  <1>1. TypeOK /\ HoldersNow /\ HoldersNow' /\ PhasesNow /\ PhasesNow'
    BY DEF ReceiptsInv, OwnershipInv
  <1>2. \A d \in Calls : /\ Owner(d)' <=> Owner(d)
                         /\ Owner(d) => Key(d)' = Key(d)
    BY <1>1 DEF PruneOldCommands, GoTo, OthersKept, Owner, OwningStages, Op, Key,
                TypeOK, CallsTypeOK
  <1>3. \A k \in CommandKeys :
          \/ commands'[k] = commands[k]
          \/ HasStatus(k, Completed) /\ commands'[k] = NoRow
    BY <1>1 DEF PruneOldCommands, PruneCommands, Prunable, TypeOK, TablesTypeOK
  <1>4. ASSUME NEW k \in CommandKeys, ReceiptOf(k)' # ReceiptOf(k)
        PROVE  ReceiptOf(k).phase = "settled" /\ ReceiptOf(k)' = Receipts!Absent
    <2>1. CASE commands'[k] = commands[k]
      <3>1. Holder(k)' = Holder(k)
        <4>1. CASE \E d \in Calls : Owner(d) /\ Key(d) = k
          BY <1>1, <1>2, <4>1 DEF HoldersNow, HolderOf
        <4>2. CASE \A d \in Calls : Owner(d) => Key(d) # k
          BY <1>1, <1>2, <4>2 DEF HoldersNow, HolderOf
        <4> QED BY <4>1, <4>2
      <3> QED BY <1>4, <2>1, <3>1 DEF ReceiptOf
    <2>2. CASE HasStatus(k, Completed) /\ commands'[k] = NoRow
      BY <1>1, <2>2 DEF PhasesNow, Receipts!Absent
    <2> QED BY <1>3, <2>1, <2>2
  <1>5. Receipts!Forget
    <2>1. DOMAIN View' = CommandKeys BY DEF View
    <2>2. \A k \in CommandKeys :
            View'[k] # View[k] => View[k].phase = "settled" /\ View'[k] = Receipts!Absent
      BY <1>4 DEF View
    <2> QED BY <2>1, <2>2 DEF Receipts!Forget, View
  <1> QED BY <1>5 DEF Receipts!Next

\* An owner that moves its own receipt on leaves it pending.
LEMMA StatusStutters ==
  ASSUME ReceiptsInv, ReceiptsInv', NEW c \in Calls, Owner(c), Owner(c)', OthersKept(c),
         NEW from, NEW to, SetStatus(Key(c), from, to), request' = request
  PROVE  UNCHANGED View
  <1>1. TypeOK /\ HoldersNow /\ HoldersNow' BY DEF ReceiptsInv, OwnershipInv
  <1>2. PICK k \in CommandKeys : k = Key(c) /\ Key(c)' = k BY OwnedReceipt DEF Key
  <1>3. Touches(c)
    <2>1. \A j \in CommandKeys \ {k} : commands'[j] = commands[j]
      BY <1>1, <1>2 DEF SetStatus, TypeOK, TablesTypeOK
    <2> QED BY <1>2, <2>1 DEF Touches, OthersKept, Owner, Op, Key
  <1>4. View' = [View EXCEPT ![k] = ReceiptOf(k)'] BY <1>1, <1>2, <1>3, OneReceipt
  <1>5. ReceiptOf(k) = [phase |-> "pending", holder |-> c, intent |-> request[c]]
    BY <1>2, OwnedReceipt
  <1>6. ReceiptOf(k)' = [phase |-> "pending", holder |-> c, intent |-> request[c]]
    <2>1. OwnersFind'
      <3>1. OwnershipInv' BY DEF ReceiptsInv
      <3> QED BY <3>1, OwnersKnown, PTL
    <2>2. Holder(k)' = c BY <1>1, <1>2 DEF HoldersNow, HolderOf
    <2>3. HasStatus(k, Incomplete)' /\ commands'[k].intent = request[c]
      BY <1>2, <2>1 DEF OwnersFind, HasStatus
    <2> QED BY <2>2, <2>3 DEF ReceiptsInv, PhasesNow
  <1>7. View[k] = ReceiptOf(k) BY DEF View
  <1> QED BY <1>4, <1>5, <1>6, <1>7 DEF View

-----------------------------------------------------------------------------
\* Every step

LEMMA CallReceipts ==
  ASSUME ReceiptsInv, ReceiptsInv', NEW c \in Calls, Step(c)
  PROVE  Receipts!Next \/ UNCHANGED View
  <1>1. TypeOK /\ HoldersNow /\ HoldersNow' /\ OthersKept(c)
    BY StepOthersKept DEF ReceiptsInv, OwnershipInv
  <1>2. ASSUME UNCHANGED <<commands, request>>, Owner(c)' <=> Owner(c)
        PROVE  UNCHANGED View
    <2>1. \A d \in Calls : /\ Owner(d)' <=> Owner(d)
                           /\ Owner(d) => Key(d)' = Key(d)
      BY <1>1, <1>2 DEF OthersKept, Owner, Op, Key
    <2> QED BY <1>1, <1>2, <2>1, SameReceipts
  <1>3. CASE PruneOldCommands(c) BY <1>1, <1>3, PruneForgets
  <1>4. CASE Claim(c)
    <2>1. pc[c] = "claim" /\ request' = request BY <1>4 DEF Claim
    <2>2. CASE ReserveCommand(request[c]) /\ GoTo(c, ClaimedStage(Op(c)))
      BY <1>1, <2>1, <2>2, ClaimReserves
    <2>3. CASE GoTo(c, "load_command") /\ UNCHANGED commands
      <3>1. ~Owner(c) /\ ~Owner(c)'
        BY <1>1, <2>1, <2>3 DEF GoTo, Owner, OwningStages, TypeOK, CallsTypeOK
      <3> QED BY <1>2, <2>1, <2>3, <3>1
    <2> QED BY <1>4, <2>2, <2>3 DEF Claim
  <1>5. CASE Advance(c)
    <2>1. /\ SetStatus(Key(c), "reserved", "verifying") /\ request' = request
          /\ Owner(c) /\ Owner(c)'
      BY <1>1, <1>5, RunningCall
         DEF Advance, StageOperations, FinishOperations, GoTo, Owner, OwningStages, Op,
             TypeOK, CallsTypeOK
    <2> QED BY <1>1, <2>1, StatusStutters
  <1>6. CASE CommitFinishAuthentication(c)
    <2>1. /\ SetStatus(Key(c), "verifying", "issuing") /\ request' = request
          /\ Owner(c) /\ Owner(c)'
      BY <1>1, <1>6
         DEF CommitFinishAuthentication, Commits, GoTo, Owner, OwningStages, Op,
             TypeOK, CallsTypeOK
    <2> QED BY <1>1, <2>1, StatusStutters
  <1>7. CASE \/ CommitBeginRegistration(c) \/ CommitBeginAuthentication(c)
             \/ CommitFinishRegistration(c) \/ CommitRevoke(c) \/ RecordError(c)
             \/ CommitReceipt(c)
    <2>1. pc[c] \in {"transaction", "record_error", "receipt"}
      BY <1>7 DEF CommitBeginRegistration, CommitBeginAuthentication,
         CommitFinishRegistration, CommitRevoke, RecordError, CommitReceipt, Commits
    <2>2. Owner(c)
      BY <1>1, <2>1, RunningCall DEF Owner, OwningStages, StageOperations
    <2> QED BY <1>1, <1>7, <2>2, CompletingSteps, CompletionSettles
  <1>8. ASSUME ~PruneOldCommands(c), ~Claim(c), ~Advance(c),
               ~CommitFinishAuthentication(c), ~CommitBeginRegistration(c),
               ~CommitBeginAuthentication(c), ~CommitFinishRegistration(c),
               ~CommitRevoke(c), ~RecordError(c), ~CommitReceipt(c)
        PROVE  UNCHANGED View
    <2>1. Passes(c) BY <1>1, <1>8, PassingSteps
    <2> QED BY <1>2, <2>1 DEF Passes
  <1> QED BY <1>3, <1>4, <1>5, <1>6, <1>7, <1>8

LEMMA NextReceipts ==
  ReceiptsInv /\ ReceiptsInv' /\ [Next]_vars => [Receipts!Next]_View
  <1> SUFFICES ASSUME ReceiptsInv, ReceiptsInv', [Next]_vars
               PROVE  Receipts!Next \/ UNCHANGED View
    OBVIOUS
  <1>1. TypeOK /\ HoldersNow /\ HoldersNow' BY DEF ReceiptsInv, OwnershipInv
  <1>2. ASSUME NEW c \in Calls, OthersKept(c), ~Owner(c)', UNCHANGED commands
        PROVE  Receipts!Next \/ UNCHANGED View
    <2>1. CASE Owner(c) BY <1>2, <2>1, AbandonLoses
    <2>2. CASE ~Owner(c)
      <3>1. \A d \in Calls : /\ Owner(d)' <=> Owner(d)
                             /\ Owner(d) => Key(d)' = Key(d)
        BY <1>2, <2>2 DEF OthersKept, Owner, Op, Key
      <3> QED BY <1>1, <1>2, <3>1, SameReceipts
    <2> QED BY <2>1, <2>2
  <1>3. ASSUME NEW c \in Calls, Receive(c) \/ Return(c) \/ Abandon(c)
        PROVE  Receipts!Next \/ UNCHANGED View
    <2>1. OthersKept(c) /\ UNCHANGED commands
      BY <1>1, <1>3, ArrivalTakesNone DEF Receive, Return, Abandon, tables
    <2> QED BY <1>1, <1>2, <1>3, <2>1, ArrivalOwnsNothing
  <1>4. CASE ChangeDirectory \/ Tick \/ UNCHANGED vars
    <2>1. UNCHANGED <<commands, calls>>
      BY <1>4 DEF ChangeDirectory, Tick, Expire, vars, tables
    <2>2. \A d \in Calls : /\ Owner(d)' <=> Owner(d)
                           /\ Owner(d) => Key(d)' = Key(d)
      BY <2>1 DEF calls, Owner, Op, Key
    <2> QED BY <1>1, <2>1, <2>2, SameReceipts
  <1> QED BY <1>3, <1>4, CallReceipts DEF Next

LEMMA InitReceipts == Init => Receipts!Init
  BY DEF Init, StorageInit, Receipts!Init, Receipts!Absent, ReceiptOf

\* Every step of the Plugin settles, loses, reserves or forgets receipts as
\* CommandReceipts allows, for any number of calls and keys: a receipt is settled by
\* its holder only, and nothing revives one whose holder was lost.
THEOREM ReceiptsImplemented == Spec => ImplementsCommandReceipts
  <1>1. OwnershipInv => ReceiptsInv BY ReceiptsKnown
  <1>2. [Receipts!Next]_View <=> [Receipts!Next]_([k \in CommandKeys |-> ReceiptOf(k)])
    BY DEF View
  <1> QED
    BY <1>1, <1>2, InitOwnership, NextOwnership, InitReceipts, NextReceipts, PTL
       DEF Spec, ImplementsCommandReceipts, Receipts!Spec

=============================================================================
