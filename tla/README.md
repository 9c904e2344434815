# A TLA+ model of the Lenso passkey Plugin

This directory models the passkey Plugin (`src/crates/lenso-auth-passkey-plugin`)
and its Capability contract (`src/crates/lenso-capability-passkey-auth`): six
request handlers that run concurrently, in any number of Plugin processes, over
one PostgreSQL schema, between an Identity Directory they ask and a Credential
Issuer they act on. TLC checks the model on small instances; TLAPS proves every
invariant, the action property and the three refinements for every value of the
constants.

Contents: [inventory](#the-system) · [modules](#the-modules) ·
[runs](#the-runs) · [proofs](#what-is-proved) ·
[finding](#finding) · [what is left out](#not-modelled) · [plan](#plan).

## The system

| Component | State it keeps | Operations | Talks to |
|---|---|---|---|
| Request handlers (`lib.rs`) | nothing between requests; locals across `.await`s | `begin_registration`, `finish_registration`, `begin_authentication`, `finish_authentication`, `list_passkeys`, `revoke_passkey` | everything below |
| Storage (`storage.rs`, `migrations/001_create_passkey_state.sql`) | `passkey_subjects`, `passkeys`, `passkey_challenges`, `passkey_commands` | `prune`, `claim_command`, `set_command_status`, `complete_command_*`, `load_*`, `*_for_update`, `ensure_subject`, `consume_challenge` | PostgreSQL |
| Receipt cipher (`lib.rs`) | a key | `encrypt`, `decrypt` of a stored answer | receipts |
| Transactions (`lib.rs`, `storage.rs`) | row locks, uncommitted rows, pool connections | `pool().begin()` to `commit`, five kinds | PostgreSQL, each other |
| Configuration (`lib.rs`) | limits, caller lists, RP and origins | `PasskeyAuthConfig::validate`, request validators | read by every handler |
| Activation (`lib.rs`) | the slots `active` and `postgres`, the pool | `activate`, `deactivate` | handlers read the slot |
| Operator CLI (`operator.rs`) | nothing | `setup`, `upgrade`, `doctor`, backup checks | delegates to `lenso_postgres` |
| Capability contract (`contract.rs`, `generated.rs`) | nothing | handles, endpoint, lowering of results, error codecs | callers, relays |
| Identity Directory (external) | a status per subject | lookup | asked by handlers |
| Credential Issuer (external) | sessions | `issue` | called by `finish_authentication` |
| webauthn-rs (external) | nothing | start and finish of a ceremony | called by handlers |

Handlers share no memory: they meet only in the database, where each statement is
atomic and each transaction first locks the row of its subject `FOR UPDATE`. The
behaviour that is hard to test lies between those points:

* **Interleaving.** Between two `.await`s of one handler any other handler may
  run: a count made at the begin is stale at the finish, a challenge row read is
  stale when it is compared, a listing is read in two snapshots.
* **Loss.** A process can crash, a future can be dropped, the pool be closed, the
  database, the Directory or the Issuer fail, at every await. Some effects are
  committed by then (the claim, the spent challenge, the used passkey, the
  session), others are not.
* **Retry.** Callers resend requests under the same idempotency key, with the same
  or with another intent; the receipt of the first attempt answers.
* **Retention.** Any begin prunes old challenges and old completed receipts, while
  the calls that work with them may still run.
* **Waiting.** Transactions wait for rows, for inserts that may yet roll back and
  for connections of a bounded pool; `deactivate` waits for all of them.
* **Clocks.** A deadline is drawn and checked by the clock of a Plugin process,
  retention goes by that of the database, and `now()` of a transaction is the time
  at which it began to wait for its locks.
* **The outside.** A subject's status changes between the check and the effect;
  consumers and relays are built from other versions of the contract.

What each component must get right:

* *Credentials*: at most `max_passkeys_per_subject` active ones per subject; a
  credential id belongs to one subject, once, for good; a revoked passkey
  authenticates nobody; the stored counter never falls; the revision changes with
  the collection.
* *Ceremonies*: spent once, by the caller that began them, also by a finish that
  fails; at most one session or passkey from each.
* *Receipts*: one call works on a key; an answer that was given is the one
  replayed; an interrupted command stays in progress and is not run again; another
  intent under the key is refused; a recorded error can be decoded.
* *Listings*: accurate for the revision they name.
* *Transactions*: no circle of waits; each takes effect at one instant; each ends.
* *Retention*: receipts outlive the ceremonies they are about, ceremonies outlive
  the last process that would let them finish, as far as the periods allow.
* *Activation*: nothing works on the database of an activation that was ended; no
  pool is lost; `deactivate` returns.
* *Contract*: what a handler returns is what its caller learns, over any number of
  relays of any version; what cannot be kept is lost in one known way.
* *Validation*: what is let in fits the tables, an origin has one entry, and a
  revision one spelling.

The hazards, each at the line where it bites and with the properties that look for
it, are listed under `"hazards"` in `PROJECT.json`.

## The modules

| Module | What it is |
|---|---|
| `PasskeyStorage` | The four tables and the statements of `storage.rs` as operators. |
| `PasskeyPlugin` | The six handlers as actions over those tables; the external services as they use them. `Init`, `Next`, `Spec`. |
| `CredentialSet` | Abstract: what is promised about each subject's credentials. |
| `CommandReceipts` | Abstract: what is promised about each idempotency key. |
| `PasskeyProperties` | Type invariant, invariants, action property, the two refinement mappings. |
| `MCPasskeyPlugin` | Request sets, bounds and symmetry for TLC. |
| `PasskeyTypeProofs` | Proof of type correctness; what a step leaves alone. |
| `PasskeyCollectionProofs` | Proofs about the passkeys of a subject: the limit, listings, signature counters, and that `CredentialSet` is implemented. |
| `PasskeyCommandProofs` | Proofs about ceremonies and receipts: sessions, ownership, answers, recorded errors, and that `CommandReceipts` is implemented. |
| `AtomicTransactions` | Abstract: each transaction decides and takes effect at one instant. |
| `SubjectTransactions` | The five transactions statement by statement over row locks, uncommitted inserts and a bounded pool. |
| `MCTransactions` | Jobs and symmetry for TLC. |
| `TransactionProofs` | Proofs of types, of the absence of deadlock, and that `SubjectTransactions` implements `AtomicTransactions`. |
| `Retention` | Deadlines, `completed_at` and `prune` on the clocks of processes and database. |
| `MCRetention` | An instance for TLC. |
| `RetentionProofs` | Proofs of the four retention properties for all periods that `validate` accepts and all clocks. |
| `Lifecycle`, `MCLifecycle` | `activate`, `deactivate` and the handlers in flight. |
| `LifecycleProofs` | Proofs of its two invariants for any number of activations and handlers. |
| `PasskeyContract`, `MCContract` | One call of an operation through the generated bindings and back. |
| `ContractProofs` | Proofs of its three invariants for any number of relays. |
| `Validation`, `MCValidation` | `PasskeyAuthConfig::validate` and the request validators. |
| `ValidationProofs` | Proofs of its three invariants for configurations and requests of any size. |

`PasskeyPlugin` composes `PasskeyStorage` with the handlers. The other modules look
at one aspect at a closer range than `PasskeyPlugin` can afford, and each settles
something that it takes for granted or leaves open: `SubjectTransactions` that a
transaction is one step, `Retention` for how long a row is there, `Lifecycle` that
handlers find their database, `PasskeyContract` that their answers arrive,
`Validation` that their statements cannot fail on the texts of a request.

### `PasskeyPlugin`: state

`subjects`, `revision`, `passkeys`, `challenges` and `commands` are the four tables
(`revision` is a column of `passkey_subjects`, with its default where there is no
row). A table is a function from primary keys to rows, `NoRow` for none. `minted`
remembers the challenge ids drawn so far, because random ids do not repeat even
after their rows are pruned; `expired` holds the challenges whose `expires_at` has
passed. `pc` is the await a call is at; `request`, `ceremony`, `verified` and
`answer` are the locals it carries across it. `directory` and `sessions` belong to
the outside.

A request is a record of the fields the handler reads. `actor` is the subject of the
verified user assertion in the invocation context, `valid` the outcome of the
length and alphabet checks. The *intent* of a receipt (in the code a digest
of the request) is the request itself. A receipt holds its answer in clear; the
cipher round trip is not modelled. Of a passkey row the label, the key material and
the timestamps are left out; of a challenge row the deadline, which `expired`
stands for; `state` keeps the credentials the serialised ceremony allows.

### `PasskeyPlugin`: actions

One action is what a handler does from one `.await` to the next:

| Action | Code |
|---|---|
| `Receive` | the synchronous checks at the head of each handler (`management_caller`, `allowed_caller`, `validate_*`), in their order; either answers or goes on to the first await |
| `PruneOldChallenges`, `PruneOldCommands` | the two statements of `prune`, at the head of the begin handlers |
| `Claim`, `LoadCommand` | `claim_command`: `INSERT ... ON CONFLICT DO NOTHING`, and, when it inserts nothing, a `SELECT` later; the answer from the row (`ReplayAnswer`) |
| `Advance` | `set_command_status(reserved → verifying)` |
| `MissChallenge`, `RefuseChallenge`, `AcceptChallenge` | the transaction of `consume_challenge`, then the checks on the row *as read*, then for an authentication webauthn-rs |
| `DirectoryInactive`, `DirectoryActive`, `VerifyRegistration` | `directory_status`, and for a registration webauthn-rs after it |
| `RefuseTransaction`, `Commit*` | the transaction of each command, refused (rolled back) or committed together with its receipt or its `issuing` status |
| `RecordError` | `record_error`, a statement of its own after the refusal |
| `IssueSession`, `IssuerDisabled`, `CommitReceipt` | the call to the Credential Issuer and the receipt after it |
| `LoadSubject`, `LoadPasskeys` | the two reads of `list_passkeys` |
| `Return` | the answer is delivered |
| `Abandon` | the call is lost, at any await |
| `ChangeDirectory`, `Tick` | a subject's status changes; a challenge passes its deadline |

Three choices deserve a word.

*Transactions are one step.* Every transaction of the Plugin but that of
`consume_challenge` starts by locking the subject row, and reads and writes only
rows of that subject and the receipt its own call holds (`CommandOwnership` says no
other call works on it); `consume_challenge` is one `SELECT ... FOR UPDATE` and one
`UPDATE` of the challenge row it locks. `SubjectTransactions` takes the five
transactions apart, and `TransactionsAreAtomic` proves that each then still takes
effect at one instant: a refusal where the error is found, anything else at the
commit.

*Abandon covers every failure.* A handler that fails with a `RuntimeFailure`, is
dropped or crashes leaves behind what it has committed and answers nothing the
model cares about. A commit whose acknowledgement is lost is the commit followed by
`Abandon`. The row-count checks that turn into `Invariant` errors are guards
of the action; that they never fail is `CommandOwnership`.

*Retention forgets any set of old rows.* `prune` compares timestamps the model does
not keep, so any set of expired challenges and any set of completed receipts may be
old enough. What holds here holds for every retention period; `Retention` has the
clocks and says which periods are long enough for a retry to be answered.

### The two abstract specifications

`CredentialSet` has one `Enroll`, `Use` and `Retire` per credential and knows
nothing of ceremonies, keys or calls. `ImplementsCredentialSet` maps `active[s]` to
the credentials of the rows of `s` that are not revoked, `retired[s]` to those of
the others, `counter` to `sign_count`, and `revision` to `revision`. Every action of the Plugin must map to
one of its steps or to a stutter, so whatever the handlers do in between, a
commit is an enrolment within the limit of a credential nobody ever had, a use of
an active credential with a counter that grew, or a retirement, and each counts
one revision.

`CommandReceipts` has the phases absent, pending (with the call that holds it, or
with nobody) and settled. `ImplementsCommandReceipts` maps the holder to the call
that is past its claim. It says that nothing revives a command whose call was lost
(`CONTEXT.md`, "Known seam"), that only the holder settles, that intent and
outcome stay, and that retention forgets settled receipts only.

### `SubjectTransactions`

`subjects`, `revision` and `passkeys` are committed rows; a passkey is named by its
credential, which is unique. `lock` is the holder of each row. A row that does not
exist and has a holder is an insert that is not committed: others do not see it,
and an insert of the same key waits for it. `connections` are the calls that hold
one of the `PoolSize` connections. One action is one statement: `BeginTransaction`
(`pool().begin()`), `EnsureSubject` and `InsertPasskey` (`ON CONFLICT DO NOTHING`),
`LockSubject` / `MissSubject`, `LockNextPasskey` row by row and then `LoadPasskeys`,
`LockPasskey`, `Write`, `CommitTransaction`, `Rollback`, and `Record`, the statement
on a connection of its own with which a refusal is recorded after the rollback.
`After` is the order of the statements in each handler. A statement that has to wait
is one that is not enabled. `End` is the end of a handler or its loss, at any
statement, with the rollback PostgreSQL then does.

`AtomicTransactions` decides each job in one step on the rows as they are;
`ImplementsAtomicTransactions` maps rows, job and answer to themselves. The answer
tells the revision and the offered credentials that were *read*, so the refinement
also says that what was read is still true at the commit.

### `Retention`

One `now` is the true time, `Clock(i)` what instance `i` or the database reads.
`commands` keeps `completed_at` only, `challenges` the deadline and whether the row
was consumed; `started` is `now()` of an open transaction. `issued`, `spentBy` and
`settled` are history. Actions follow a begin (`PruneChallenges`, `PruneCommands`,
`Claim`, `Load`, `StartTransaction`, `CommitBegin`) or a finish (`Consume`, and after
that await `CheckDeadline` on the row it returned, `CommitFinish`, `RecordError`), with
`End` at any stage; `Tick` lets time pass, but not beyond `MaxWait` of an open
transaction.

`validate` demands no more than `receipt_ttl_seconds > challenge_ttl_seconds`
(`TtlAssumption`), so the difference may be a second. `MaxSkew` and `MaxWait` only
*measure* how far clocks are apart and how long a transaction waits
(`ClockAssumption`); they have no upper bound. The properties are therefore
quantitative: `AliveFor(x, t)` says that a ceremony has more than `t` left by the clock
of some instance, `BeginLead` and `FinishLead` are how much of the end of its life is
not covered: skew and wait (for a finish: skew), less what the receipt period exceeds
the challenge period by. Within the last `BeginLead` of a ceremony a retried begin can
open a second one; within the last `FinishLead` a retried finish may be told
`challenge_used`; if the skew exceeds the grace of a day, `prune` can take a ceremony
within that excess of its deadline. A deployment whose periods differ by more than
skew and wait, and whose clocks agree to a day, has none of these. Time is in whole
units, of whatever size.

### `Lifecycle`

`stage` is where `activate` or `deactivate` stands, `active` and `postgres` are the
two slots, `opened` and `closed` the activations whose pool was opened and was told to
close. Who has a handle to a pool (`Held`) follows from the slots, from the stage and
from the handlers, and a pool is open (`Open`) as long as it was not closed and someone
has a handle, as in sqlx. `activate` awaits two secrets and `OwnedPostgres::prepare`
(`Connect`), then checks relying party and key and fills the slots (`FillSlots`); it may
fail or be dropped before that, and what it holds goes with it (`FailActivation`). A
handler takes the activation from the slot (`Receive`), then moves between waiting for
a connection, database work and the dependencies. A closed pool gives no connection.
The kernel, outside the repository, calls `activate` and `deactivate` one at a time, and
`activate` only on an instance that is not active: a second `activate`, which would
replace the slots (`lib.rs:1967`), and a `deactivate` that is dropped while it waits are
not modelled.

### `PasskeyContract`

The way of one call: `ClientCall` or `HandleCall` (a bare handle can ask for any
operation by name), `InvokeNative` or through a box `InvokeErased`, one of three
ways to provide the Plugin, the lowering of what the handler wrote down (`Lower`, for
four shapes of result), any number of `Relay`s that encode and decode a Domain Error
with the codes they know, and `Return`. Requests and responses are opaque, as nothing on
the way looks into them. That a handler gets a request of its own operation is a matter
of Rust's types and one downcast, and not stated as a property.

An unknown error is a code, a payload or none, and `extra`, a public map. `Object` is
the JSON object they become, with the entries of `extra` after the two fields, so that
one named `code` or `payload` takes the field's place; `FromObject` takes `code` and
`payload` out of it and leaves the rest in `extra`; an object whose code is not a string
cannot be decoded. Hence an error crosses unchanged only if it is `Unambiguous`. What
happens to one that is not, which nothing but a handler that fills `extra` so can make,
is `PortableFormIsKept`: its object stays the same, or it becomes a failure. How a relay
carries a Runtime Failure is the kernel's doing; it is passed on as it is.

### `Validation`

A text is its name, its lengths in bytes, in characters and in what `trim()` leaves,
and the class of its characters; a host is its labels; an origin entry the parts
`Url::parse` finds, with its normalisation of default ports and empty paths (`Url`); a
revision its sign, leading zeros and digits, over a small `i64`; a `credential_json` is
its length. `Verdict` is `validate` with its errors in their order, `ValidRequest` the
validator of each operation. The assumptions say what a value of these types is, before
anything has validated it: a request has the fields of its operation's struct
(`Fields`), a text has one to four bytes per character, an origin entry has parts.

Only the revision is known to have one spelling. A label is stored trimmed
(`lib.rs:977`) while the digest of the intent covers it as sent (`lib.rs:1799`), and a
`credential_json` is hashed as the text it is: a retry with other blanks around the label
or another layout of the same JSON is another intent, and is answered with
`idempotency_conflict`.

## The runs

The runs of `PasskeyPlugin` use two calls. Two is where the interesting
interleavings start: a call and one other actor between its awaits. A third actor
comes in as its effect, since calls that have ended leave their rows behind, and each
of the two may serve any sequence of requests. `Requests` is the finite set of requests clients may
send and resend in any order; keys, challenge ids and passkey ids in it bound every
table, so that each run is finite without a bound on its length. The other bounds:

* `MaxOrphans`: how many keys wait for a call that was lost. Where it is 0 the run
  explores no loss after a claim; `receipts`, which is about loss, uses 1.
* `MaxExpired`: how many ceremonies pass their deadline: 1 in `registration`, 0 where
  expiry is not the question, as an expired challenge is refused like a spent one.
* `ReceiptsKept` (an action constraint): no receipt is pruned, in the runs that are
  not about retention, so that each key serves one command.
* `CallSymmetry`: the calls are exchangeable, as no constant names one; in
  `registration` credentials are too, as no request or initial state names one.
* `RegisteredSpec` starts from a state the Plugin reaches by one registration after
  retention has removed its ceremony and receipts, instead of from an empty schema.

Deadlock is checked in every run but two: a call can always end (`Return`,
`Abandon`, `End`), time can pass. `Lifecycle` really stops when its bounded number
of activations is used up, and `Validation` when a configuration was refused, which
never serves, or when `MaxTaken` requests were accepted.

| Run | Instance | What it shows |
|---|---|---|
| `registration` | one subject, limit 1, two ceremonies open at revision 0, a revocation, expiry | `CredentialLimit`: the second finish is refused although both begins counted room. `OpenRegistrationsFit`: the reason, and the invariant the proof uses. |
| `collection` | two subjects, one credential; one subject also authenticates (counters 0 and 1) and revokes | `ImplementsCredentialSet`: the credential is enrolled once, a passkey revoked between begin and finish authenticates nobody, counters do not fall, revisions count. `TypeOK`; `RecordedErrorsReplay` for the errors of a registration. |
| `ceremonies` | two ceremonies over one passkey, two keys, two callers, counters 0 and 1 | `OneSessionPerCeremony`, `SessionBelongsToCeremony`. `CounterNeverReused`: both ceremonies verify against the counter of the begin, the row decides. |
| `receipts` | an authentication and a revocation, resent, with another intent, lost, pruned, refused by Directory or Issuer | `CommandOwnership`, `RecordedErrorsReplay`, `OneSessionPerCeremony`, `AnswerMatchesReceipt`, `ImplementsCommandReceipts`. |
| `listing` | listings of two subjects while passkeys are added, used and revoked | `ListedViewIsCurrent`: a list whose revision is still current is accurate, though revision and rows are two reads. This works only because the revision is read first. |
| `transactions` | three calls, two connections, two subjects, one credential, all five kinds of transaction | `TypeOK`, `NoDeadlock`, `ImplementsAtomicTransactions`. Two calls can hold a connection and a row each while the third waits for either. |
| `progress` | three calls, two connections, registrations of two subjects | `EveryTransactionEnds`, under fairness. |
| `retention` | a begin and a finish, two calls, one instance on the clock of the database and one four units behind; challenge 2, receipt 4, grace 2, wait 1 | `OneOpenCeremonyPerCommand`, `AliveCeremonyIsKept`, `FinishReceiptOutlivesCeremony`, `LostReplayWasOverdue`. The periods differ by less than skew and wait and the skew exceeds the grace, so each of the three gaps is open (leads of 3, 2 and 2 units) and its width is what is checked. `MaxTime` 7 is enough for a receipt to be pruned, the command to be claimed again, and a ceremony to be pruned while an instance would finish it. |
| `lifecycle` | three activations, three handlers | `NoDatabaseWorkAfterDeactivation`, `NoPoolIsLost`; `DeactivationEnds`, under fairness. |
| `contract` | six operations, up to two relays that know all codes, one code less or one more; payloads and other fields (`code`, `payload`, `reason`) that hold a declared code or a number | `OutcomeCrossesUnchanged`, `PortableFormIsKept`, `VariantsSurviveWhoKnowsThem`. Two relays are enough for one to spoil what the next would read. |
| `validation` | all pairs of origin entries, the boundaries of each limit and list, requests with one field at a boundary, with two-byte characters, blank or padded | `OriginsAreDistinctAndOwn`, `AcceptedRequestsFitTheTables`, `OneSpellingPerRevision`. Pairs of origins and of requests (`MaxTaken` 2) are what the properties compare. |
| `uniform_rejection` | one ceremony, a subject that becomes disabled | violates `UniformRejection`; see the finding. |

Together the passing runs take every disjunct of the next-state relations. Each
property has a mutant, an operator next to the definition it changes whose comment
starts with "Mutant of" (a dropped check, a strict comparison, swapped bind
parameters, a lock that is not taken or not released): TLC finds the property
violated when the mutant takes the definition's place.

### Fairness

`PasskeyPlugin` assumes no fairness and claims no liveness: an interrupted command
stays in progress by design, a caller need not retry, and handlers wait for nothing
inside that model. Waiting is in two others.

* `SubjectTransactions`: strong fairness of `Statement(c)`. A statement that waits
  is enabled again and again as others release the row or the connection; PostgreSQL
  queues the waiters of a row and sqlx those of the pool first come, first served,
  so that it is not passed over for ever. Nothing makes a handler start or be lost.
* `Lifecycle`: weak fairness of `Closed` (the pool notices that its last connection
  is back) and of `LeaveDatabase(c)`, which is what `EveryTransactionEnds` shows.
  Nothing makes a dependency answer or the kernel call: `deactivate` returns
  however long the Directory and the Issuer take, as no handler keeps a connection
  while it asks them.

## What is proved

### `PasskeyPlugin`

TLAPS proves, from `ConfigAssumption` (the limit is positive, counters are natural
numbers), `RequestsAssumption` (a request has the fields its operation reads) and
`NoRowAssumption` and `AbsentAssumption` (the absent row is neither a key, a receipt,
a passkey nor a call), for any sets of calls, subjects, credentials, ids and requests:

* `TypeCorrect`: `Spec => []TypeOK`. `TypeOK` is inductive as it stands because it
  says more than types: `LocalsOK` ties `pc` to the operation and to the locals each
  await needs, so that e.g. a call at `issue` is known to have a verified result.
  One lemma per action; `MoveTypes` reduces each to the call that moves.
* `OpenRegistrationsAlwaysFit` and `LimitHolds`: `Spec => []OpenRegistrationsFit`
  and `Spec => []CredentialLimit`. `CredentialLimit` is not inductive: nothing in
  it keeps `finish_registration` from adding a row to a full collection, as that
  handler does not count. The strengthening, `LimitInv`, adds that the sets of rows
  are finite and that every open registration ceremony, in its table or in the hands
  of a running finish, *fits*: it is not ahead of its subject, and if it is of
  the subject's current revision there is room. The proof goes along two
  observations. A collection changes only together with its revision
  (`StepCollections`), so a ceremony that fits keeps fitting: it either sees the same
  collection or falls behind for good (`FitsKept`). And the only step that adds a row
  has just compared the revision of its ceremony with the subject's
  (`FinishRegistrationCollections`), so there is room for it. New ceremonies come
  from `CommitBeginRegistration`, which has counted, and are taken by
  `AcceptChallenge`, which has compared the request with the row.

* `OneSession` and `SessionsBelong`: `Spec => []OneSessionPerCeremony` and
  `Spec => []SessionBelongsToCeremony`. The strengthening is `SessionInv`. A
  challenge is *spent* when its id was drawn and its row, if it still exists, has been
  consumed; pruning the row keeps it spent because the id is not drawn again. Every
  finish that is past its consumption holds a spent ceremony (`HoldersOK`), no two
  hold the same one (`HoldersApart`), and one that has not got its session yet finds
  none issued for its ceremony (`FirstToIssue`). `AcceptChallenge` takes a ceremony
  that is not spent, hence one that nobody holds and no session rests on;
  `IssueSession` uses up the right of the one holder.
* `Ownership`: `Spec => []CommandOwnership`. With `TypeOK` it is inductive. Each step
  changes no row but its own, a free one or a completed one (`RowsKept`), and
  leaves the call with the row it needs next (`OwnerStep`); `JoinOwners` puts the
  two together for all calls.
* `AnswersMatch`: `Spec => AnswerMatchesReceipt`, an action property, from
  `Ownership`: a call that completes its receipt owns it, so the intent in it is its
  own request.
* `ErrorsReplay`: `Spec => []RecordedErrorsReplay`, with `ErrorOK`: the error a call
  carries to `record_error` is one its operation decodes. `TransactionCodes` and
  `StepErrors` go through every place that refuses.

* `ListedViewStaysCurrent`: `Spec => []ListedViewIsCurrent`. The strengthening,
  `ListingInv`, says of each listing between its two reads that the revision it holds
  is not ahead, and after them that the rows it holds are the subject's unless the
  revision has moved on. It rests on `RevisionCounts`: no step changes the rows of a
  subject without its revision.
* `CountersNotReused`: `Spec => []CounterNeverReused`. In `CounterInv` every session,
  and every call that is about to ask for one (`Owed`), has its counter *counted*:
  the stored counter of its passkey is at least as great, and no two of them share a
  nonzero one (`OwedFresh`). Stored counters only grow (`CountersGrow`), and
  `CommitFinishAuthentication` has compared the new one with the row.
* `ReceiptsImplemented`: `Spec => ImplementsCommandReceipts`. The invariant is
  `OwnershipInv` (`TypeOK` and `CommandOwnership`): because the calls at work on a key
  are never two, the mapping's `Holder` names the one owner, or nobody
  (`HoldersNamed`), and the owner finds its receipt pending with its own intent
  (`OwnersKnown`). Each step then maps by what it does to one receipt: a claim is
  `Reserve` (`ClaimReserves`), a completion `Settle` by the holder
  (`CompletionSettles`), a loss `Lose` (`AbandonLoses`), `prune` is
  `Forget` (`PruneForgets`), and a new status
  between claim and completion is a stutter (`StatusStutters`), as are all steps of
  calls that own no key.
* `CollectionsImplemented`: `Spec => ImplementsCredentialSet`. `CredentialInv` adds to
  `LimitInv` that a credential has at most one row (`OneRowPerCredential`), so that
  the mapped counter is that of *the* row. A commit of a registration maps to `Enroll`
  (`AddingEnrolls`; the abstract set is within the limit because the rows are, as
  `ActivesBounded` counts), that of an authentication to `Use` (`RewritingUses`), a
  revocation to `Retire` (`RewritingRetires`); nothing else touches a collection
  (`QuietSteps`).

### Transactions

From `TransactionAssumption` (the pool has a connection; subjects and credentials
are different rows; jobs have their fields), for any number of calls, rows and
connections:

* `TransactionTypes`: `Spec => []TypeOK`.
* `TransactionsNeverDeadlock`: `Spec => []NoDeadlock`, where a set of calls is stuck
  if each waits for another of them, or for a connection all of which they hold. The
  invariant `LockInv` says what each open transaction holds at each statement: its
  own subject's row, or none; passkeys only after that row, and only its own or new
  ones. Take a stuck set. No member of it waits for a passkey while it holds its
  subject (`HolderWaits`): the holder of an existing passkey would hold the same
  subject, and one that waits for an uncommitted passkey waits for a call that only
  has to write (`InserterWaits`), hence waits for nobody. So none waits for the row of
  a subject either, as its holder would be such a member (`SubjectWaits`), and no
  member has an open transaction. But then all wait for connections that only members
  hold, and no member holds one: there is a free one.
* `TransactionsAreAtomic`: `Spec => ImplementsAtomicTransactions`. `ViewInv` adds
  that what a transaction has read is still true: the revision it compared and the
  passkeys it loaded (`SeenOK`), because nobody changes rows of a subject without its
  lock (`SubjectUndisturbed`). A refusal maps to `Refuse`, `CommitTransaction` to
  `Commit`, the start and end to `Start` and `End`, all other statements to stutters.

### Retention

From `TtlAssumption` (what `validate` demands of the two periods), `ClockAssumption`
(what `MaxSkew` and `MaxWait` measure) and `CommandsAssumption`, for any number of
instances, commands and ceremonies, any clocks, waits and grace, and without a bound on
time: `OneCeremonyPerBegin`, `CeremoniesAreKept`, `FinishReceiptsAreKept` and
`LostReplaysAreOverdue`. All four follow from `RetentionInv`. A ceremony is *dead* with a
lead when every instance's clock is within the lead of its deadline or past it. A
completion at time `t` *covers* a ceremony if the receipt cannot be overdue by the clock
of the database before the ceremony is dead. The invariant says that each ceremony is
dead or covered by the receipt of its begin, that the finish which spent it has a receipt
that covers it or is about to have one, and that of two ceremonies of one begin one is
dead; the first and the last with `BeginLead`, the second with `FinishLead`. A begin
covers its ceremony because the deadline is drawn at most `MaxWait` after `started`
(`CommitBeginStep`); a finish because the deadline was drawn earlier (`CoveredNow`); prune
takes a receipt only when what it covered is dead (`CoveredDue`); time keeps the dead dead
(`DeadStays`).

### Activation and deactivation

From `LifecycleAssumption` (activations are numbered), for any number of activations
and handlers: `DatabaseWorkEnds` (`NoDatabaseWorkAfterDeactivation`) and
`PoolsAreReachable` (`NoPoolIsLost`). `LifecycleInv` says that the slots are filled with
the activation that runs and empty while none does, that a pool which `deactivate` waits
for was told to close, that a handler holds the activation that runs or one whose pool
was (`Served`), and that a connection is always one of the pool that was opened last,
while it is open or while `deactivate` still waits for it (`ConnectionsOK`). So the
handle of a handler that outlives its activation is one to a closed pool: it gets no
connection and keeps no pool open. The next pool cannot open while a connection of the
last is out, because `deactivate` has not returned. The proof has a lemma for each actor:
`ActivationKeeps`, `DeactivationKeeps`, `HandlerKeeps`.

### Capability contract

From `ContractAssumption` (no declared code, nor the new one, is among the values that are
no strings), for any payloads, other fields and bound on the number of relays:
`OutcomesCross`, `PortableFormsAreKept` and `VariantsSurvive`. `ContractInv` says what the
outcome is at any point of its way back: the two-level result of what the handler meant
(all shapes are lowered to the same one, `LoweringKeepsMeaning`), in which an error has
*passed* the relays. `Passed` keeps the object of the error for every error, its fields
for an unambiguous one, and whether it is a variant exactly if all relays knew the code;
it composes with one more relay (`RelayKeeps`), because taking `code` and `payload` out of
an object and putting them back gives the same object. An error whose object has no
string for a code is lost at the first relay, so a later one never meets it.

### Validation

From `RequestsAssumption` and `ConfigsAssumption`, for lists and texts of any length and
any width of the revision: `OriginsAreOwn`, `RequestsFit` and `RevisionsAreSpelledOnce`.
`ValidationInv` only says that nothing is taken before the configuration was found valid
and nothing that the validators refuse; the work is in the lemmas about them.
`OneUrlPerOrigin`: in a valid origin the parts a browser does not report are fixed, so the
comparison of parsed URLs finds every duplicate. `OwnHost`: the suffix comparison yields
whole labels of the relying party's domain. `TextsFit`: a limit in bytes implies the one
in characters, before and after trimming. `RevisionSpelling`: of the texts that parse to
one number a single one is accepted.

### Only model-checked

Liveness, which with `ENABLED` is out of the prover's reach: `EveryTransactionEnds` and
`DeactivationEnds`, under the fairness above. Every invariant, action property and
refinement of the passing runs is the statement of a theorem. No model has a recursive
definition. That the modules fit together, for instance that `SubjectTransactions` takes
apart the transactions `PasskeyPlugin` takes in one step, is argued above and not a
theorem: their state spaces differ.

## Finding

`docs/plugin-card.md:53` says of begin and finish authentication that "rejected or
unknown subjects use the same invalid-credentials outcome". `begin_authentication`
does; `finish_authentication` answers `disabled` for a subject the Directory does
not report active (`lib.rs:1191`) and when the Issuer answers `Disabled`
(`lib.rs:1242`). The run `uniform_rejection` shows the first.

## Not modelled

* The receipt cipher: pure computation; a receipt gives back the answer it stored.
  With it goes the change of the secret: receipts written before cannot be decrypted
  after it, and their retries fail until retention has taken them. Nothing in the
  code or the docs says what should happen instead.
* Encodings, digests, labels, display names, timestamps in answers.
* The decision of Identity Directory and Credential Issuer themselves. That a
  subject disabled between the check and `issue` gets no session is up to the Issuer
  (`docs/adr/0001`).
* In `SubjectTransactions`: the two statements of `prune` and the transaction of
  `consume_challenge`. Both run outside any subject's transaction. `consume_challenge`
  locks one row and nothing after it; in which order a `DELETE` of many rows meets
  those of another `prune` is up to PostgreSQL's scan.
* The operator CLI and `schema.rs` hand one migration to `lenso_postgres_kit`, which
  is outside the repository; `StorageInit` is the schema they leave. `build.rs`
  compares generated code with the contract at build time. Scripts and workflows
  have no state at run time.
* The parsing of URLs, keys and schema names (`Validation` takes its outcome), and
  the vendor's decision about a relying party (`builder_ok`).

## Plan

Done: every component that keeps state, the two abstract specifications of the
handlers' state, that of the transactions, and the proofs above. Left, in this order:

1. `Ceremony`: an abstract specification of one challenge (open, spent by a key,
   gone), with `PasskeyPlugin` shown to implement it.
2. `consume_challenge` and the statements of `prune` as further transactions of
   `SubjectTransactions`, with an order in which a `DELETE` takes its rows.
3. A `deactivate` that is dropped while it waits, as a step of the kernel in
   `Lifecycle`.
