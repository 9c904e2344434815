--------------------------- MODULE PasskeyStorage ---------------------------
(***************************************************************************)
(* The PostgreSQL schema of the passkey Plugin and the statements that     *)
(* storage.rs sends to it.  A table is a function from primary keys to     *)
(* rows, NoRow where there is none.  A statement (or a transaction that    *)
(* locks the subject row first) is atomic; the handlers of PasskeyPlugin   *)
(* interleave between them.                                                *)
(***************************************************************************)
EXTENDS Naturals, FiniteSets

CONSTANTS
  Requests,      \* the requests clients may send
  Subjects,      \* canonical subjects of the Identity Directory
  Credentials,   \* WebAuthn credential ids
  PasskeyIds,    \* random ids "pk_..."
  ChallengeIds,  \* random ids "pkr_..." and "pka_..."
  NoRow          \* the absent row, and the absent value of a nullable column

VARIABLES
  subjects,      \* passkey_subjects: the subjects that have a row
  revision,      \* passkey_subjects.revision, 0 (its default) without a row
  passkeys,      \* table passkeys
  challenges,    \* table passkey_challenges
  minted,        \* challenge ids drawn so far: random ids do not repeat
  expired,       \* challenges whose expires_at has passed
  commands       \* table passkey_commands

tables == <<subjects, revision, passkeys, challenges, minted, expired, commands>>

Operations ==
  {"begin_registration", "finish_registration", "begin_authentication",
   "finish_authentication", "list_passkeys", "revoke_passkey"}

\* PRIMARY KEY (caller_instance, operation, idempotency_key)
CommandKey(r) == <<r.caller, r.op, r.key>>
Commands == {r \in Requests : r.op # "list_passkeys"}
CommandKeys == {CommandKey(r) : r \in Commands}

ASSUME NoRowAssumption == NoRow \notin CommandKeys

Callers == {r.caller : r \in Requests}

PasskeyRow ==
  [subject: Subjects, credential: Credentials, signCount: Nat,
   revision: Nat, revoked: BOOLEAN]

\* state holds what the serialised ceremony allows: the credentials offered for
\* an authentication, nothing for a registration.
ChallengeRow ==
  [kind: {"registration", "authentication"}, caller: Callers,
   subject: Subjects, revision: Nat, state: SUBSET Credentials,
   consumedBy: CommandKeys \cup {NoRow}]

Incomplete == {"reserved", "verifying", "issuing"}
Completed == {"completed_success", "completed_error"}

-----------------------------------------------------------------------------
\* passkeys of a subject, and those load_passkeys_for_update returns

RowsOf(s) == {p \in PasskeyIds : passkeys[p] # NoRow /\ passkeys[p].subject = s}

ActiveRows(s) == {p \in RowsOf(s) : ~passkeys[p].revoked}

\* ON CONFLICT (credential_id): any row counts, revoked or not, of any subject.
CredentialTaken(k) ==
  \E p \in PasskeyIds : passkeys[p] # NoRow /\ passkeys[p].credential = k

\* INSERT INTO passkeys ... (the revision column defaults to 1)
NewPasskey(s, k, n) ==
  [subject |-> s, credential |-> k, signCount |-> n, revision |-> 1,
   revoked |-> FALSE]

-----------------------------------------------------------------------------
\* challenges

InsertChallenge(x, kind, r, state) ==
  /\ x \in ChallengeIds \ minted
  /\ minted' = minted \cup {x}
  /\ challenges' =
       [challenges EXCEPT ![x] =
          [kind |-> kind, caller |-> r.caller, subject |-> r.subject,
           revision |-> revision[r.subject], state |-> state,
           consumedBy |-> NoRow]]

\* SELECT ... WHERE challenge_id=$1 AND kind=$2
ChallengeFound(x, kind) == challenges[x] # NoRow /\ challenges[x].kind = kind

\* Only the caller that began the ceremony consumes it, and only once.
Consumable(x, caller) ==
  challenges[x].caller = caller /\ challenges[x].consumedBy = NoRow

\* Mutant of ConsumeChallenge: $2 and $3 are swapped.
ConsumeChallengeMisbound(x, r) ==
  challenges' =
    IF Consumable(x, r.caller)
    THEN [challenges EXCEPT ![x].consumedBy = <<r.caller, r.key, r.op>>]
    ELSE challenges

ConsumeChallenge(x, r) ==
  challenges' =
    IF Consumable(x, r.caller)
    THEN [challenges EXCEPT ![x].consumedBy = CommandKey(r)]
    ELSE challenges

\* DELETE ... WHERE expires_at < now() - interval '1 day'.  How long ago a
\* challenge expired is not modelled: any set of expired ones may be due.
PruneChallenges ==
  \E due \in SUBSET {x \in expired : challenges[x] # NoRow} :
    challenges' = [x \in ChallengeIds |-> IF x \in due THEN NoRow ELSE challenges[x]]

-----------------------------------------------------------------------------
\* command receipts

\* INSERT ... 'reserved' ... ON CONFLICT DO NOTHING, when it inserts
ReserveCommand(r) ==
  /\ commands[CommandKey(r)] = NoRow
  /\ commands' = [commands EXCEPT ![CommandKey(r)] =
                    [intent |-> r, status |-> "reserved", outcome |-> NoRow]]

HasStatus(k, statuses) == commands[k] # NoRow /\ commands[k].status \in statuses

\* UPDATE ... WHERE ... AND status IN ('reserved','verifying','issuing'): the
\* statement fails the handler when it changes no row.
CompleteCommand(k, status, outcome) ==
  /\ HasStatus(k, Incomplete)
  /\ commands' = [commands EXCEPT ![k].status = status, ![k].outcome = outcome]

SetStatus(k, from, to) ==
  /\ HasStatus(k, {from})
  /\ commands' = [commands EXCEPT ![k].status = to]

\* Mutant of Prunable: age is taken from updated_at.
PrunableByUpdate(k) == HasStatus(k, Completed \cup Incomplete)

\* DELETE ... WHERE completed_at < now() - receipt_ttl: any set of completed
\* receipts may be old enough.
Prunable(k) == HasStatus(k, Completed)

PruneCommands ==
  \E due \in SUBSET {k \in CommandKeys : Prunable(k)} :
    commands' = [k \in CommandKeys |-> IF k \in due THEN NoRow ELSE commands[k]]

-----------------------------------------------------------------------------
\* A schema PasskeyOperator::setup has just created.
StorageInit ==
  /\ subjects = {}
  /\ revision = [s \in Subjects |-> 0]
  /\ passkeys = [p \in PasskeyIds |-> NoRow]
  /\ challenges = [x \in ChallengeIds |-> NoRow]
  /\ minted = {}
  /\ expired = {}
  /\ commands = [k \in CommandKeys |-> NoRow]

\* The clock passes the expires_at of a challenge.
Expire ==
  /\ \E x \in minted \ expired : expired' = expired \cup {x}
  /\ UNCHANGED <<subjects, revision, passkeys, challenges, minted, commands>>
=============================================================================
