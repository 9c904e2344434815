-------------------------- MODULE PasskeyProperties --------------------------
(***************************************************************************)
(* What must hold of PasskeyPlugin: its type invariant, the safety         *)
(* invariants, the action property on receipts, and the two abstract       *)
(* specifications it implements.                                           *)
(***************************************************************************)
EXTENDS PasskeyPlugin

Stages ==
  {"idle", "prune_challenges", "prune_commands", "claim", "load_command",
   "advance", "consume", "directory", "transaction", "record_error", "issue",
   "receipt", "load_subject", "load_passkeys", "done"}

Codes ==
  {"forbidden", "invalid_request", "idempotency_conflict", "operation_in_progress",
   "disabled", "revision_conflict", "too_many_passkeys", "invalid_credentials",
   "invalid_credential", "credential_exists", "challenge_expired",
   "challenge_used", "passkey_not_found"}

Authenticated ==
  [subject: Subjects, passkey: PasskeyIds, revision: Nat, session: Nat]

Listed ==
  [revision: Nat, passkeys: SUBSET [passkey: PasskeyIds, row: PasskeyRow]]

Answers ==
  [error: Codes]
    \cup [challenge: ChallengeIds, revision: Nat]
    \cup [passkey: PasskeyIds, revision: Nat]
    \cup [passkey: PasskeyIds, revoked: BOOLEAN, revision: Nat, passkeyRevision: Nat]
    \cup Authenticated \cup Listed

Results == [credential: Credentials, counter: Counters]

CommandRow ==
  [intent: Commands, status: Incomplete \cup Completed,
   outcome: Answers \cup {NoRow}]

ASSUME AbsentAssumption ==
  NoRow \notin CommandRow /\ NoRow \notin PasskeyRow /\ NoRow \notin Calls

Session ==
  [subject: Subjects, passkey: PasskeyIds, challenge: ChallengeIds,
   caller: Callers, counter: Counters]

TablesTypeOK ==
  /\ subjects \subseteq Subjects
  /\ revision \in [Subjects -> Nat]
  /\ passkeys \in [PasskeyIds -> PasskeyRow \cup {NoRow}]
  /\ challenges \in [ChallengeIds -> ChallengeRow \cup {NoRow}]
  /\ minted \subseteq ChallengeIds
  /\ expired \subseteq minted
  /\ commands \in [CommandKeys -> CommandRow \cup {NoRow}]

CallsTypeOK ==
  /\ pc \in [Calls -> Stages]
  /\ request \in [Calls -> Requests \cup {NoRow}]
  /\ ceremony \in [Calls -> ChallengeRow \cup {NoRow}]
  /\ verified \in [Calls -> Results \cup {NoRow}]
  /\ answer \in [Calls -> Answers \cup {NoRow}]

WorldTypeOK ==
  /\ directory \in [Subjects -> DirectoryStatuses]
  /\ sessions \in Seq(Session)

\* The operations a stage belongs to.
StageOperations(stage) ==
  CASE stage \in {"advance", "consume"}             -> FinishOperations
    [] stage \in {"issue", "receipt"}               -> {"finish_authentication"}
    [] stage \in {"load_subject", "load_passkeys"}  -> {"list_passkeys"}
    [] stage \in {"directory", "done"}              -> Operations
    [] OTHER                                        -> Operations \ {"list_passkeys"}

\* The calls that hold a ceremony, and a result verified against it.
HoldsCeremony(c) ==
  /\ pc[c] \in {"directory", "transaction", "issue", "receipt"}
  /\ Op(c) \in FinishOperations

HoldsResult(c) ==
  /\ HoldsCeremony(c)
  /\ pc[c] = "directory" => Op(c) = "finish_authentication"

LocalsOK(c) ==
  pc[c] # "idle" =>
    /\ request[c] \in Requests
    /\ Op(c) \in StageOperations(pc[c])
    /\ HoldsCeremony(c) => ceremony[c] \in ChallengeRow
    /\ HoldsResult(c) => verified[c] \in Results
    /\ pc[c] \in {"issue", "receipt"} => answer[c] \in Authenticated
    /\ pc[c] = "load_passkeys" => answer[c] \in Listed

\* Type invariant: the rows satisfy the schema's column types, and every handler
\* has at each await the values the code after it uses.
TypeOK ==
  TablesTypeOK /\ CallsTypeOK /\ WorldTypeOK /\ \A c \in Calls : LocalsOK(c)

-----------------------------------------------------------------------------
\* Credentials

\* A subject never has more active passkeys than max_passkeys_per_subject,
\* although only begin_registration counts them and any number of ceremonies may
\* be open: the revision check of finish_registration has to make up for it.
CredentialLimit ==
  \A s \in Subjects : Cardinality(ActiveRows(s)) <= MaxPasskeys

HasRoom(s) == Cardinality(ActiveRows(s)) < MaxPasskeys

\* A ceremony can only be finished while its revision is the subject's.
Fits(row) ==
  /\ row.revision <= revision[row.subject]
  /\ row.revision = revision[row.subject] => HasRoom(row.subject)

HoldsRegistration(c) == HoldsCeremony(c) /\ Op(c) = "finish_registration"

\* A registration ceremony, stored or already taken by a finish, is never of a
\* later revision than its subject; as long as it is of the same revision the
\* subject has room for the passkey it may still add.
OpenRegistrationsFit ==
  /\ \A x \in ChallengeIds : ChallengeFound(x, "registration") => Fits(challenges[x])
  /\ \A c \in Calls :
       HoldsRegistration(c) =>
         /\ Fits(ceremony[c])
         /\ ceremony[c].subject = request[c].subject
         /\ ceremony[c].revision = request[c].expected

\* list_passkeys reads the revision and the passkeys in two statements.  A client
\* that sends the revision it was listed as expected_revision acts on a list that
\* is still accurate when that revision is accepted.
ListedViewIsCurrent ==
  \A c \in Calls :
    LET s == request[c].subject IN
      (pc[c] = "done" /\ Op(c) = "list_passkeys" /\ "passkeys" \in DOMAIN answer[c]
         /\ answer[c].revision = revision[s])
        => answer[c].passkeys = Listing(s, request[c].all)

-----------------------------------------------------------------------------
\* Sessions

\* A ceremony yields at most one session, whatever is retried, replayed, lost or
\* pruned (CONTEXT.md: ceremony state is consumed once).
OneSessionPerCeremony ==
  \A i, j \in 1..Len(sessions) :
    i # j => sessions[i].challenge # sessions[j].challenge

\* Two sessions never rest on the same nonzero signature counter of a passkey,
\* also when the ceremonies began before either was finished.
CounterNeverReused ==
  \A i, j \in 1..Len(sessions) :
    (i # j /\ sessions[i].passkey = sessions[j].passkey /\ sessions[i].counter > 0)
      => sessions[i].counter # sessions[j].counter

\* A session goes to the caller that began its ceremony, for the ceremony's
\* subject, and the ceremony is spent.
SessionBelongsToCeremony ==
  \A i \in 1..Len(sessions) :
    LET row == challenges[sessions[i].challenge] IN
      row # NoRow => /\ row.caller = sessions[i].caller
                     /\ row.subject = sessions[i].subject
                     /\ row.consumedBy # NoRow

-----------------------------------------------------------------------------
\* Receipts

OwningStages ==
  {"advance", "consume", "directory", "transaction", "record_error", "issue", "receipt"}

Owns(c, k) ==
  pc[c] \in OwningStages /\ Op(c) # "list_passkeys" /\ Key(c) = k

\* The statuses the row of an owner can have.
OwnedStatuses(c) ==
  CASE pc[c] = "advance"              -> {"reserved"}
    [] pc[c] = "consume"              -> {"verifying"}
    [] pc[c] \in {"issue", "receipt"} -> {"issuing"}
    [] pc[c] = "record_error"         -> Incomplete
    [] OTHER -> IF Op(c) \in FinishOperations THEN {"verifying"} ELSE {"reserved"}

\* A call past its claim finds its own receipt in the status it left it in, so the
\* row-count checks of complete_command_*, set_command_status and
\* update_authenticated_passkey never fail, and no other call works on the key.
CommandOwnership ==
  \A c \in Calls : \A k \in CommandKeys :
    Owns(c, k) =>
      /\ HasStatus(k, OwnedStatuses(c))
      /\ commands[k].intent = request[c]
      /\ \A d \in Calls \ {c} : ~Owns(d, k)

\* Every error a handler records is one its replay can decode.
RecordedErrorsReplay ==
  \A r \in Commands : Replayable(r)

\* The calls this step gives an answer, from their own work or from a receipt.
Answered(c) ==
  /\ pc[c] \notin {"idle", "done"} /\ pc'[c] = "done"
  /\ Op(c) # "list_passkeys"
  /\ answer'[c] # Error("idempotency_conflict")
  /\ answer'[c] # Error("operation_in_progress")

InReceipt(c, a) ==
  /\ HasStatus(Key(c), Completed)
  /\ commands[Key(c)].intent = request[c]
  /\ commands[Key(c)].outcome = a

\* A call that answers a command, with a result or with a recorded error, leaves
\* that very answer in the receipt of its request, or took it from there: every
\* later replay of the key answers the same.
AnswerMatchesReceipt ==
  [][\A c \in Calls : Answered(c) => InReceipt(c, answer[c])']_vars

\* docs/plugin-card.md says of begin and finish authentication: "rejected or
\* unknown subjects use the same invalid-credentials outcome".
UniformRejection ==
  \A c \in Calls :
    (pc[c] = "done" /\ Op(c) \in {"begin_authentication", "finish_authentication"})
      => answer[c] # Error("disabled")

-----------------------------------------------------------------------------
\* The abstract specifications

RowOf(k) == CHOOSE p \in PasskeyIds : passkeys[p] # NoRow /\ passkeys[p].credential = k

CredentialsOf(rows) == {passkeys[p].credential : p \in rows}

Collection == INSTANCE CredentialSet WITH
  active <- [s \in Subjects |-> CredentialsOf(ActiveRows(s))],
  retired <- [s \in Subjects |-> CredentialsOf(RowsOf(s) \ ActiveRows(s))],
  counter <- [k \in Credentials |->
                IF CredentialTaken(k) THEN passkeys[RowOf(k)].signCount ELSE 0]

\* Every step of the Plugin is a step of CredentialSet or leaves the collections
\* as they are.
ImplementsCredentialSet == Collection!Spec

Holder(k) ==
  IF \E c \in Calls : Owns(c, k) THEN CHOOSE c \in Calls : Owns(c, k) ELSE NoRow

ReceiptOf(k) ==
  LET row == commands[k] IN
    IF row = NoRow THEN [phase |-> "absent"]
    ELSE IF row.status \in Incomplete
    THEN [phase |-> "pending", holder |-> Holder(k), intent |-> row.intent]
    ELSE [phase |-> "settled", intent |-> row.intent, outcome |-> row.outcome]

Receipts == INSTANCE CommandReceipts WITH
  Keys <- CommandKeys, Intents <- Commands, Nobody <- NoRow,
  receipt <- [k \in CommandKeys |-> ReceiptOf(k)]

\* Every step of the Plugin is a step of CommandReceipts or leaves every receipt
\* as it is: in particular nothing revives a command whose call was lost
\* (CONTEXT.md, "Known seam"), and retention removes completed receipts only.
ImplementsCommandReceipts == Receipts!Spec
=============================================================================
