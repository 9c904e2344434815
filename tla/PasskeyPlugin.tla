---------------------------- MODULE PasskeyPlugin ----------------------------
(***************************************************************************)
(* The six request handlers of the passkey Plugin, run by any number of    *)
(* concurrent calls over the tables of PasskeyStorage.  A handler runs     *)
(* from one .await to the next without interruption; pc names the await a  *)
(* call is at.  Identity Directory, Credential Issuer, webauthn-rs and the *)
(* clock are external and appear as the handlers use them.                 *)
(*                                                                         *)
(* Abandon is every way a handler ends without an answer: a crash, a       *)
(* dropped future, a closed pool, a database error, a dependency's         *)
(* RuntimeFailure, a failed row-count check.  A commit whose               *)
(* acknowledgement is lost is the step followed by Abandon.                *)
(***************************************************************************)
EXTENDS PasskeyStorage, Sequences

CONSTANTS
  Calls,                  \* handler futures, over all instances of the Plugin
  Counters,               \* signature counters an authenticator may report
  DirectoryStatuses,      \* what the Identity Directory may answer
  ManagementCallers,
  AuthenticationCallers,
  MaxPasskeys             \* max_passkeys_per_subject

VARIABLES
  pc,         \* the await each call is at
  request,    \* the request of each call
  ceremony,   \* the ChallengeRow a finish call has read, as it was before the read
  verified,   \* the webauthn-rs result of a finish call
  answer,     \* the answer of each call, complete when pc is "done"
  directory,  \* external: the status of each subject
  sessions    \* external: the sessions Credential Issuer issued, in order

calls == <<pc, request, ceremony, verified, answer>>
world == <<directory, sessions>>
vars == <<tables, calls, world>>

BeginOperations == {"begin_registration", "begin_authentication"}
FinishOperations == {"finish_registration", "finish_authentication"}

ASSUME ConfigAssumption ==
  /\ MaxPasskeys \in Nat \ {0}
  /\ Counters \subseteq Nat
  /\ DirectoryStatuses \subseteq {"active", "disabled", "missing"}

\* The fields each operation's request carries.  actor is the subject of the
\* verified user assertion in the invocation context; valid stands for the
\* length and alphabet checks of the request's fields.
ASSUME RequestsAssumption ==
  \A r \in Requests :
    /\ r.op \in Operations
    /\ r.valid \in BOOLEAN
    /\ r.op # "finish_authentication" => r.subject \in Subjects
    /\ r.op \in FinishOperations => r.challenge \in ChallengeIds
    /\ r.op \in {"begin_registration", "finish_registration", "revoke_passkey"}
         => r.expected \in Nat
    /\ r.op = "revoke_passkey" => r.passkey \in PasskeyIds
    /\ r.op = "list_passkeys" => r.all \in BOOLEAN

Error(code) == [error |-> code]
Key(c) == CommandKey(request[c])
Op(c) == request[c].op

-----------------------------------------------------------------------------
\* Control

GoTo(c, stage) == pc' = [pc EXCEPT ![c] = stage]

Answer(c, a) == GoTo(c, "done") /\ answer' = [answer EXCEPT ![c] = a]

\* The call will write the error into its receipt, then answer with it.
Refuse(c, code) ==
  GoTo(c, "record_error") /\ answer' = [answer EXCEPT ![c] = Error(code)]

Clear(c) ==
  /\ GoTo(c, "idle")
  /\ request' = [request EXCEPT ![c] = NoRow]
  /\ ceremony' = [ceremony EXCEPT ![c] = NoRow]
  /\ verified' = [verified EXCEPT ![c] = NoRow]
  /\ answer' = [answer EXCEPT ![c] = NoRow]

\* The first await after the synchronous checks.
FirstStage(op) ==
  CASE op \in BeginOperations -> "prune_challenges"
    [] op = "list_passkeys"   -> "directory"
    [] OTHER                  -> "claim"

ClaimedStage(op) == IF op \in FinishOperations THEN "advance" ELSE "directory"

-----------------------------------------------------------------------------
\* Arrival, answer and loss of a call

\* management_caller and allowed_caller
Allowed(r) ==
  IF r.op \in {"begin_authentication", "finish_authentication"}
  THEN r.caller \in AuthenticationCallers
  ELSE r.caller \in ManagementCallers /\ r.actor = r.subject

Receive(c) ==
  /\ pc[c] = "idle"
  /\ \E r \in Requests :
       /\ request' = [request EXCEPT ![c] = r]
       /\ \/ ~Allowed(r) /\ Answer(c, Error("forbidden"))
          \/ Allowed(r) /\ ~r.valid /\ Answer(c, Error("invalid_request"))
          \/ Allowed(r) /\ r.valid /\ GoTo(c, FirstStage(r.op)) /\ UNCHANGED answer
  /\ UNCHANGED <<tables, ceremony, verified, world>>

Return(c) == pc[c] = "done" /\ Clear(c) /\ UNCHANGED <<tables, world>>

Abandon(c) == pc[c] # "idle" /\ Clear(c) /\ UNCHANGED <<tables, world>>

-----------------------------------------------------------------------------
\* storage::prune, two statements, in the begin handlers only

PruneOldChallenges(c) ==
  /\ pc[c] = "prune_challenges"
  /\ PruneChallenges
  /\ GoTo(c, "prune_commands")
  /\ UNCHANGED <<subjects, revision, passkeys, minted, expired, commands,
                 request, ceremony, verified, answer, world>>

PruneOldCommands(c) ==
  /\ pc[c] = "prune_commands"
  /\ PruneCommands
  /\ GoTo(c, "claim")
  /\ UNCHANGED <<subjects, revision, passkeys, challenges, minted, expired,
                 request, ceremony, verified, answer, world>>

-----------------------------------------------------------------------------
\* storage::claim_command: an INSERT, then a SELECT when the key exists

Claim(c) ==
  /\ pc[c] = "claim"
  /\ \/ ReserveCommand(request[c]) /\ GoTo(c, ClaimedStage(Op(c)))
     \/ commands[Key(c)] # NoRow /\ GoTo(c, "load_command") /\ UNCHANGED commands
  /\ UNCHANGED <<subjects, revision, passkeys, challenges, minted, expired,
                 request, ceremony, verified, answer, world>>

\* Mutant of ReplayableCodes: the decoder of finish_registration forgets a code.
ReplayableCodesForgetting(op) ==
  CASE op = "begin_registration" ->
         {"disabled", "revision_conflict", "too_many_passkeys"}
    [] op = "finish_registration" ->
         {"invalid_request", "disabled", "challenge_expired", "challenge_used",
          "invalid_credential", "revision_conflict"}
    [] OTHER -> {"invalid_credentials", "passkey_not_found"}

\* The codes begin_registration_error, ..., revoke_error turn back into an error.
ReplayableCodes(op) ==
  CASE op = "begin_registration" ->
         {"disabled", "revision_conflict", "too_many_passkeys"}
    [] op = "begin_authentication" -> {"invalid_credentials"}
    [] op = "finish_registration" ->
         {"invalid_request", "disabled", "challenge_expired", "challenge_used",
          "invalid_credential", "credential_exists", "revision_conflict"}
    [] op = "finish_authentication" ->
         {"invalid_request", "invalid_credentials", "challenge_expired",
          "challenge_used", "disabled"}
    [] op = "revoke_passkey" -> {"disabled", "passkey_not_found", "revision_conflict"}

\* A recorded error the handler cannot decode fails the replay.
Replayable(r) ==
  HasStatus(CommandKey(r), {"completed_error"}) =>
    \E code \in ReplayableCodes(r.op) : commands[CommandKey(r)].outcome = Error(code)

\* Mutant of ReplayAnswer: the intent is not compared.
ReplayAnswerOfAnyIntent(r) ==
  LET row == commands[CommandKey(r)] IN
    IF row.status \in Completed THEN row.outcome ELSE Error("operation_in_progress")

\* What a call that did not insert the row answers from it.  The row may be gone
\* by now: then fetch_one fails (Abandon).
ReplayAnswer(r) ==
  LET row == commands[CommandKey(r)] IN
    IF row.intent # r THEN Error("idempotency_conflict")
    ELSE IF row.status \in Completed THEN row.outcome
    ELSE Error("operation_in_progress")

LoadCommand(c) ==
  /\ pc[c] = "load_command"
  /\ commands[Key(c)] # NoRow
  /\ Replayable(request[c])
  /\ Answer(c, ReplayAnswer(request[c]))
  /\ UNCHANGED <<tables, request, ceremony, verified, world>>

\* storage::set_command_status(reserved -> verifying), finish handlers only.  No
\* row to advance would be an operation_in_progress answer: CommandOwnership of
\* PasskeyProperties excludes it.
Advance(c) ==
  /\ pc[c] = "advance"
  /\ SetStatus(Key(c), "reserved", "verifying")
  /\ GoTo(c, "consume")
  /\ UNCHANGED <<subjects, revision, passkeys, challenges, minted, expired,
                 request, ceremony, verified, answer, world>>

-----------------------------------------------------------------------------
\* storage::consume_challenge and the checks the finish handlers make on the
\* row it returns

KindOf(op) == IF op = "finish_registration" THEN "registration" ELSE "authentication"

\* Mutants of ChallengeError: consumed_at, or the caller, is not compared.
ChallengeErrorReusing(r) ==
  LET row == challenges[r.challenge] IN
    IF row.caller # r.caller THEN "invalid_request"
    ELSE IF r.challenge \in expired THEN "challenge_expired"
    ELSE "none"

ChallengeErrorOfAnyCaller(r) ==
  LET row == challenges[r.challenge] IN
    IF row.consumedBy # NoRow THEN "challenge_used"
    ELSE IF r.challenge \in expired THEN "challenge_expired"
    ELSE "none"

\* The error of the first check that fails, "none" if none does.
ChallengeError(r) ==
  LET row == challenges[r.challenge] IN
    IF \/ row.caller # r.caller
       \/ /\ r.op = "finish_registration"
          /\ row.subject # r.subject \/ row.revision # r.expected
    THEN "invalid_request"
    ELSE IF row.consumedBy # NoRow THEN "challenge_used"
    ELSE IF r.challenge \in expired THEN "challenge_expired"
    ELSE "none"

MissChallenge(c) ==
  /\ pc[c] = "consume"
  /\ ~ChallengeFound(request[c].challenge, KindOf(Op(c)))
  /\ Refuse(c, "invalid_request")
  /\ UNCHANGED <<tables, request, ceremony, verified, world>>

RefuseChallenge(c) ==
  /\ pc[c] = "consume"
  /\ ChallengeFound(request[c].challenge, KindOf(Op(c)))
  /\ ChallengeError(request[c]) # "none"
  /\ ConsumeChallenge(request[c].challenge, request[c])
  /\ Refuse(c, ChallengeError(request[c]))
  /\ UNCHANGED <<subjects, revision, passkeys, minted, expired, commands,
                 request, ceremony, verified, world>>

\* external, webauthn-rs: an authentication result names a credential the
\* ceremony offered; a registration result may name any credential.  Whether a
\* response verifies at all is up to the authenticator.
VerifiedResults(row) ==
  [credential: IF row.kind = "authentication" THEN row.state ELSE Credentials,
   counter: Counters]

\* finish_registration asks the Directory before it verifies ...
AcceptRegistrationChallenge(c) ==
  /\ Op(c) = "finish_registration"
  /\ GoTo(c, "directory")
  /\ UNCHANGED <<verified, answer>>

\* ... finish_authentication verifies first.
AcceptAuthenticationChallenge(c) ==
  /\ Op(c) = "finish_authentication"
  /\ \/ /\ \E result \in VerifiedResults(challenges[request[c].challenge]) :
             verified' = [verified EXCEPT ![c] = result]
        /\ GoTo(c, "directory")
        /\ UNCHANGED answer
     \/ Refuse(c, "invalid_credentials") /\ UNCHANGED verified

AcceptChallenge(c) ==
  /\ pc[c] = "consume"
  /\ ChallengeFound(request[c].challenge, KindOf(Op(c)))
  /\ ChallengeError(request[c]) = "none"
  /\ ConsumeChallenge(request[c].challenge, request[c])
  /\ ceremony' = [ceremony EXCEPT ![c] = challenges[request[c].challenge]]
  /\ AcceptRegistrationChallenge(c) \/ AcceptAuthenticationChallenge(c)
  /\ UNCHANGED <<subjects, revision, passkeys, minted, expired, commands,
                 request, world>>

-----------------------------------------------------------------------------
\* directory_status

\* The subject a call acts for: a finish_authentication request does not name one.
SubjectOf(c) ==
  IF Op(c) = "finish_authentication" THEN ceremony[c].subject ELSE request[c].subject

\* Mutant of InactiveCode: one code for every operation.
InactiveCodeUniform(op) == "disabled"

\* The answer for a subject that is not active.
InactiveCode(op) ==
  IF op = "begin_authentication" THEN "invalid_credentials" ELSE "disabled"

DirectoryInactive(c) ==
  /\ pc[c] = "directory"
  /\ directory[SubjectOf(c)] # "active"
  /\ \/ Op(c) = "list_passkeys" /\ Answer(c, Error("disabled"))
     \/ Op(c) # "list_passkeys" /\ Refuse(c, InactiveCode(Op(c)))
  /\ UNCHANGED <<tables, request, ceremony, verified, world>>

DirectoryActive(c) ==
  /\ pc[c] = "directory"
  /\ directory[SubjectOf(c)] = "active"
  /\ Op(c) # "finish_registration"
  /\ GoTo(c, IF Op(c) = "list_passkeys" THEN "load_subject" ELSE "transaction")
  /\ UNCHANGED <<tables, request, ceremony, verified, answer, world>>

VerifyRegistration(c) ==
  /\ pc[c] = "directory"
  /\ directory[SubjectOf(c)] = "active"
  /\ Op(c) = "finish_registration"
  /\ \/ /\ \E result \in VerifiedResults(ceremony[c]) :
             verified' = [verified EXCEPT ![c] = result]
        /\ GoTo(c, "transaction")
        /\ UNCHANGED answer
     \/ Refuse(c, "invalid_credential") /\ UNCHANGED verified
  /\ UNCHANGED <<tables, request, ceremony, world>>

-----------------------------------------------------------------------------
\* The transactions.  Each locks the subject row FOR UPDATE before it reads or
\* writes anything of the subject, so it is one step; a refusal rolls back and
\* leaves the call to record its error in a statement of its own.

BeginRegistrationError(r) ==
  IF revision[r.subject] # r.expected THEN "revision_conflict"
  ELSE IF Cardinality(ActiveRows(r.subject)) >= MaxPasskeys THEN "too_many_passkeys"
  ELSE "none"

BeginAuthenticationError(r) ==
  IF r.subject \notin subjects \/ ActiveRows(r.subject) = {}
  THEN "invalid_credentials" ELSE "none"

\* Mutants of FinishRegistrationError: one of its two checks is left to the begin.
FinishRegistrationErrorAtAnyRevision(r, result) ==
  IF CredentialTaken(result.credential) THEN "credential_exists" ELSE "none"

FinishRegistrationErrorOfAnyCredential(r, result) ==
  IF revision[r.subject] # r.expected THEN "revision_conflict" ELSE "none"

FinishRegistrationError(r, result) ==
  IF revision[r.subject] # r.expected THEN "revision_conflict"
  ELSE IF CredentialTaken(result.credential) THEN "credential_exists"
  ELSE "none"

\* Mutant of StaleCounter: the same counter passes.
StaleCounterStrict(stored, n) == n > 0 /\ stored > 0 /\ n < stored

\* A counter that fails to grow is refused unless either side is zero.
StaleCounter(stored, n) == n > 0 /\ stored > 0 /\ n <= stored

\* Mutant of AuthenticatedRows: revoked rows are loaded as well.
AuthenticatedRowsWithRevoked(s, result) ==
  {p \in RowsOf(s) : /\ passkeys[p].credential = result.credential
                     /\ ~StaleCounter(passkeys[p].signCount, result.counter)}

AuthenticatedRows(s, result) ==
  {p \in ActiveRows(s) : /\ passkeys[p].credential = result.credential
                         /\ ~StaleCounter(passkeys[p].signCount, result.counter)}

FinishAuthenticationError(s, result) ==
  IF s \notin subjects \/ AuthenticatedRows(s, result) = {}
  THEN "invalid_credentials" ELSE "none"

RevokeError(r) ==
  IF r.subject \notin subjects THEN "passkey_not_found"
  ELSE IF revision[r.subject] # r.expected THEN "revision_conflict"
  ELSE IF r.passkey \notin RowsOf(r.subject) THEN "passkey_not_found"
  ELSE "none"

TransactionError(c) ==
  CASE Op(c) = "begin_registration"    -> BeginRegistrationError(request[c])
    [] Op(c) = "begin_authentication"  -> BeginAuthenticationError(request[c])
    [] Op(c) = "finish_registration"   -> FinishRegistrationError(request[c], verified[c])
    [] Op(c) = "finish_authentication" -> FinishAuthenticationError(SubjectOf(c), verified[c])
    [] OTHER                           -> RevokeError(request[c])

RefuseTransaction(c) ==
  /\ pc[c] = "transaction"
  /\ TransactionError(c) # "none"
  /\ Refuse(c, TransactionError(c))
  /\ UNCHANGED <<tables, request, ceremony, verified, world>>

\* The guard of every transaction that commits.
Commits(c, op) ==
  pc[c] = "transaction" /\ Op(c) = op /\ TransactionError(c) = "none"

\* Mutant of AdvanceCollection: the collection keeps its revision.
AdvanceCollectionNever(s) == UNCHANGED revision

AdvanceCollection(s) == revision' = [revision EXCEPT ![s] = @ + 1]

\* The success receipt commits with the data the answer describes.
CommitAnswer(c, a) ==
  CompleteCommand(Key(c), "completed_success", a) /\ Answer(c, a)

\* ensure_subject creates the row when it is missing.
CommitBeginRegistration(c) ==
  /\ Commits(c, "begin_registration")
  /\ subjects' = subjects \cup {request[c].subject}
  /\ \E x \in ChallengeIds :
       /\ InsertChallenge(x, "registration", request[c], {})
       /\ CommitAnswer(c, [challenge |-> x, revision |-> revision[request[c].subject]])
  /\ UNCHANGED <<revision, passkeys, expired, request, ceremony, verified, world>>

CommitBeginAuthentication(c) ==
  LET s == request[c].subject IN
    /\ Commits(c, "begin_authentication")
    /\ \E x \in ChallengeIds :
         /\ InsertChallenge(x, "authentication", request[c],
                            {passkeys[p].credential : p \in ActiveRows(s)})
         /\ CommitAnswer(c, [challenge |-> x, revision |-> revision[s]])
    /\ UNCHANGED <<subjects, revision, passkeys, expired, request, ceremony,
                   verified, world>>

CommitFinishRegistration(c) ==
  LET s == request[c].subject IN
    /\ Commits(c, "finish_registration")
    /\ s \in subjects
    /\ \E p \in PasskeyIds :
         /\ passkeys[p] = NoRow
         /\ passkeys' = [passkeys EXCEPT ![p] =
              NewPasskey(s, verified[c].credential, verified[c].counter)]
         /\ CommitAnswer(c, [passkey |-> p, revision |-> revision[s] + 1])
    /\ AdvanceCollection(s)
    /\ UNCHANGED <<subjects, challenges, minted, expired, request, ceremony,
                   verified, world>>

\* UPDATE passkeys SET sign_count=GREATEST(sign_count,$3), revision=revision+1
UsedPasskey(row, n) ==
  [row EXCEPT !.signCount = IF n > @ THEN n ELSE @, !.revision = @ + 1]

\* update_authenticated_passkey: the answer is built from here on, its session is
\* still missing.
CommitFinishAuthentication(c) ==
  LET s == SubjectOf(c) IN
    /\ Commits(c, "finish_authentication")
    /\ \E p \in AuthenticatedRows(s, verified[c]) :
         /\ passkeys' = [passkeys EXCEPT ![p] = UsedPasskey(@, verified[c].counter)]
         /\ answer' = [answer EXCEPT ![c] =
              [subject |-> s, passkey |-> p, revision |-> revision[s] + 1, session |-> 0]]
    /\ AdvanceCollection(s)
    /\ SetStatus(Key(c), "verifying", "issuing")
    /\ GoTo(c, "issue")
    /\ UNCHANGED <<subjects, challenges, minted, expired, request, ceremony,
                   verified, world>>

RevokedPasskey(row) == [row EXCEPT !.revoked = TRUE, !.revision = @ + 1]

\* Revoking a revoked passkey succeeds and changes nothing but the receipt.
CommitRevoke(c) ==
  LET s == request[c].subject
      p == request[c].passkey
      first == ~passkeys[p].revoked
  IN
    /\ Commits(c, "revoke_passkey")
    /\ \/ /\ first
          /\ passkeys' = [passkeys EXCEPT ![p] = RevokedPasskey(@)]
          /\ AdvanceCollection(s)
       \/ ~first /\ UNCHANGED <<passkeys, revision>>
    /\ CommitAnswer(c, [passkey |-> p, revoked |-> first, revision |-> revision'[s],
                        passkeyRevision |-> passkeys'[p].revision])
    /\ UNCHANGED <<subjects, challenges, minted, expired, request, ceremony,
                   verified, world>>

\* record_error / complete_command_error, an autocommit statement.
RecordError(c) ==
  /\ pc[c] = "record_error"
  /\ CompleteCommand(Key(c), "completed_error", answer[c])
  /\ GoTo(c, "done")
  /\ UNCHANGED <<subjects, revision, passkeys, challenges, minted, expired,
                 request, ceremony, verified, answer, world>>

-----------------------------------------------------------------------------
\* finish_authentication: the session and its receipt

\* What Credential Issuer is asked for, with the ceremony it is asked for.
SessionFor(c) ==
  [subject |-> answer[c].subject, passkey |-> answer[c].passkey,
   challenge |-> request[c].challenge, caller |-> request[c].caller,
   counter |-> verified[c].counter]

IssueSession(c) ==
  /\ pc[c] = "issue"
  /\ sessions' = Append(sessions, SessionFor(c))
  /\ answer' = [answer EXCEPT ![c].session = Len(sessions) + 1]
  /\ GoTo(c, "receipt")
  /\ UNCHANGED <<tables, request, ceremony, verified, directory>>

\* Mutant of IssuerDisabled: the answer is not recorded.
IssuerDisabledUnrecorded(c) ==
  /\ pc[c] = "issue"
  /\ Answer(c, Error("disabled"))
  /\ UNCHANGED <<tables, request, ceremony, verified, world>>

\* IssueError::Disabled is recorded; any other refusal is a failure (Abandon).
IssuerDisabled(c) ==
  /\ pc[c] = "issue"
  /\ Refuse(c, "disabled")
  /\ UNCHANGED <<tables, request, ceremony, verified, world>>

CommitReceipt(c) ==
  /\ pc[c] = "receipt"
  /\ CommitAnswer(c, answer[c])
  /\ UNCHANGED <<subjects, revision, passkeys, challenges, minted, expired,
                 request, ceremony, verified, world>>

-----------------------------------------------------------------------------
\* list_passkeys: two reads, no transaction around them

\* What load_passkeys returns now; PasskeySummary keeps these columns.
Listing(s, includeRevoked) ==
  {[passkey |-> p, row |-> passkeys[p]] :
     p \in IF includeRevoked THEN RowsOf(s) ELSE ActiveRows(s)}

LoadSubject(c) ==
  LET s == request[c].subject
      loaded == [revision |-> revision[s], passkeys |-> {}]
  IN
    /\ pc[c] = "load_subject"
    /\ \/ s \in subjects /\ GoTo(c, "load_passkeys")
                         /\ answer' = [answer EXCEPT ![c] = loaded]
       \/ s \notin subjects /\ Answer(c, loaded)
    /\ UNCHANGED <<tables, request, ceremony, verified, world>>

LoadPasskeys(c) ==
  /\ pc[c] = "load_passkeys"
  /\ Answer(c, [answer[c] EXCEPT
                  !.passkeys = Listing(request[c].subject, request[c].all)])
  /\ UNCHANGED <<tables, request, ceremony, verified, world>>

-----------------------------------------------------------------------------
\* No call runs and nothing was issued yet.
Quiet ==
  /\ pc = [c \in Calls |-> "idle"]
  /\ request = [c \in Calls |-> NoRow]
  /\ ceremony = [c \in Calls |-> NoRow]
  /\ verified = [c \in Calls |-> NoRow]
  /\ answer = [c \in Calls |-> NoRow]
  /\ directory \in [Subjects -> DirectoryStatuses]
  /\ sessions = <<>>

Init == StorageInit /\ Quiet

\* external: an administrator changes the status of a subject.
ChangeDirectory ==
  /\ \E s \in Subjects, status \in DirectoryStatuses :
       directory' = [directory EXCEPT ![s] = status]
  /\ UNCHANGED <<tables, calls, sessions>>

Tick == Expire /\ UNCHANGED <<calls, world>>

\* One await of one handler.
Step(c) ==
  \/ PruneOldChallenges(c) \/ PruneOldCommands(c)
  \/ Claim(c) \/ LoadCommand(c) \/ Advance(c)
  \/ MissChallenge(c) \/ RefuseChallenge(c) \/ AcceptChallenge(c)
  \/ DirectoryInactive(c) \/ DirectoryActive(c) \/ VerifyRegistration(c)
  \/ RefuseTransaction(c)
  \/ CommitBeginRegistration(c) \/ CommitBeginAuthentication(c)
  \/ CommitFinishRegistration(c) \/ CommitFinishAuthentication(c) \/ CommitRevoke(c)
  \/ RecordError(c)
  \/ IssueSession(c) \/ IssuerDisabled(c) \/ CommitReceipt(c)
  \/ LoadSubject(c) \/ LoadPasskeys(c)

Next ==
  \/ \E c \in Calls : Receive(c) \/ Step(c) \/ Return(c) \/ Abandon(c)
  \/ ChangeDirectory
  \/ Tick

Spec == Init /\ [][Next]_vars
=============================================================================
