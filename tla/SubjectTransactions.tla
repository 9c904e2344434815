------------------------- MODULE SubjectTransactions -------------------------
(***************************************************************************)
(* The transactions of the handlers, statement by statement, as PostgreSQL *)
(* runs them (READ COMMITTED): a connection from a pool of bounded size,   *)
(* row locks held to the end of the transaction, inserts that nobody else  *)
(* sees before the commit, and the statement of its own that records an    *)
(* error after the rollback.  A passkey is named by its credential.        *)
(*                                                                         *)
(* A lock on a row that does not exist yet is an uncommitted insert.       *)
(***************************************************************************)
EXTENDS Naturals, FiniteSets

CONSTANTS
  Calls, Subjects, Credentials,
  Jobs,         \* the transactions handlers may run
  PoolSize,     \* connections of the pool
  MaxPasskeys,
  NoRow, Nobody

VARIABLES
  subjects, revision, passkeys,  \* committed rows
  job,          \* the transaction of each call
  answer,       \* its outcome
  pc,           \* the statement each call is at
  seen,         \* what the transaction has read: revision and active passkeys
  lock,         \* the call that holds each row
  connections   \* the calls that hold a connection

rows == <<subjects, revision, passkeys>>
vars == <<rows, job, answer, pc, seen, lock, connections>>

Rows == Subjects \cup Credentials

Kinds ==
  {"begin_registration", "begin_authentication", "finish_registration",
   "finish_authentication", "revoke_passkey"}

Passkey == [subject: Subjects, count: Nat, revoked: BOOLEAN]

ASSUME TransactionAssumption ==
  /\ PoolSize \in Nat \ {0} /\ MaxPasskeys \in Nat
  /\ Subjects \cap Credentials = {}
  /\ Nobody \notin Calls /\ NoRow \notin Jobs \cup Passkey
  /\ \A j \in Jobs :
       /\ j.kind \in Kinds /\ j.subject \in Subjects
       /\ j.kind \in {"begin_registration", "finish_registration", "revoke_passkey"}
            => j.expected \in Nat
       /\ j.kind \notin {"begin_registration", "begin_authentication"}
            => j.credential \in Credentials
       /\ j.kind \in {"finish_registration", "finish_authentication"} => j.count \in Nat

S(c) == job[c].subject
K(c) == job[c].credential

-----------------------------------------------------------------------------
\* Control: the statements of each transaction, in order

\* Mutant of After: revoke locks the passkey before its subject.
AfterPasskeyFirst(kind, stage) ==
  CASE stage = "begin" -> IF kind = "begin_registration" THEN "ensure"
                          ELSE IF kind = "revoke_passkey" THEN "lock_passkey"
                          ELSE "lock_subject"
    [] stage = "ensure" -> "lock_subject"
    [] stage = "lock_subject" -> IF kind = "finish_registration" THEN "insert"
                                 ELSE IF kind = "revoke_passkey" THEN "write"
                                 ELSE "load_passkeys"
    [] stage = "lock_passkey" -> "lock_subject"
    [] stage \in {"load_passkeys", "insert"} -> "write"
    [] stage = "write" -> "commit"

After(kind, stage) ==
  CASE stage = "begin" ->
         IF kind = "begin_registration" THEN "ensure" ELSE "lock_subject"
    [] stage = "ensure" -> "lock_subject"
    [] stage = "lock_subject" ->
         IF kind = "finish_registration" THEN "insert"
         ELSE IF kind = "revoke_passkey" THEN "lock_passkey"
         ELSE "load_passkeys"
    [] stage \in {"load_passkeys", "insert", "lock_passkey"} -> "write"
    [] stage = "write" -> "commit"

GoTo(c, stage) == pc' = [pc EXCEPT ![c] = stage]

Proceed(c) == GoTo(c, After(job[c].kind, pc[c])) /\ UNCHANGED answer

\* The transaction is rolled back and the error recorded after it.
Refuse(c, code) ==
  GoTo(c, "rollback") /\ answer' = [answer EXCEPT ![c] = [error |-> code]]

-----------------------------------------------------------------------------
\* Connections and rows

HasConnection == Cardinality(connections) < PoolSize

Available(c, r) == lock[r] \in {c, Nobody}

Lock(c, r) == lock' = [lock EXCEPT ![r] = c]

Locked(c) == {r \in Rows : lock[r] = c}

\* The end of the transaction: its locks and its connection are free again.
Release(c) ==
  /\ lock' = [r \in Rows |-> IF lock[r] = c THEN Nobody ELSE lock[r]]
  /\ connections' = connections \ {c}

ActiveRows(s) ==
  {k \in Credentials : /\ passkeys[k] # NoRow
                       /\ passkeys[k].subject = s /\ ~passkeys[k].revoked}

\* WHERE passkey_id=$1 AND subject_id=$2
Owned(c) == passkeys[K(c)] # NoRow /\ passkeys[K(c)].subject = S(c)

-----------------------------------------------------------------------------
\* pool().begin()
BeginTransaction(c) ==
  /\ pc[c] = "begin"
  /\ HasConnection
  /\ connections' = connections \cup {c}
  /\ Proceed(c)
  /\ UNCHANGED <<rows, job, seen, lock>>

\* INSERT INTO passkey_subjects ... ON CONFLICT DO NOTHING waits for an insert that
\* is not committed, but not for the lock of a row that is.
EnsureSubject(c) ==
  /\ pc[c] = "ensure"
  /\ \/ S(c) \in subjects /\ UNCHANGED lock
     \/ S(c) \notin subjects /\ Available(c, S(c)) /\ Lock(c, S(c))
  /\ Proceed(c)
  /\ UNCHANGED <<rows, job, seen, connections>>

ChecksRevision(kind) ==
  kind \in {"begin_registration", "finish_registration", "revoke_passkey"}

\* The insert of another call is not visible; its own is.
SubjectVisible(c) == S(c) \in subjects \/ lock[S(c)] = c

MissingCode(kind) ==
  IF kind = "revoke_passkey" THEN "passkey_not_found" ELSE "invalid_credentials"

MissSubject(c) ==
  /\ pc[c] = "lock_subject"
  /\ ~SubjectVisible(c)
  /\ job[c].kind \in {"begin_authentication", "finish_authentication", "revoke_passkey"}
  /\ Refuse(c, MissingCode(job[c].kind))
  /\ UNCHANGED <<rows, job, seen, lock, connections>>

\* What lock_subject does after it has the row.
ReadSubject(c) ==
  /\ \/ ChecksRevision(job[c].kind) /\ revision[S(c)] # job[c].expected
        /\ Refuse(c, "revision_conflict")
     \/ (ChecksRevision(job[c].kind) => revision[S(c)] = job[c].expected)
        /\ Proceed(c)
  /\ seen' = [seen EXCEPT ![c].revision = revision[S(c)]]

\* Mutant of LockSubject: SELECT without FOR UPDATE.
LockSubjectNot(c) ==
  /\ pc[c] = "lock_subject"
  /\ SubjectVisible(c)
  /\ ReadSubject(c)
  /\ UNCHANGED <<rows, job, lock, connections>>

\* SELECT ... FROM passkey_subjects ... FOR UPDATE
LockSubject(c) ==
  /\ pc[c] = "lock_subject"
  /\ SubjectVisible(c)
  /\ Available(c, S(c))
  /\ Lock(c, S(c))
  /\ ReadSubject(c)
  /\ UNCHANGED <<rows, job, connections>>

\* SELECT ... FROM passkeys WHERE ... revoked_at IS NULL FOR UPDATE locks row by row
LockNextPasskey(c) ==
  /\ pc[c] = "load_passkeys"
  /\ \E k \in ActiveRows(S(c)) \ Locked(c) : Available(c, k) /\ Lock(c, k)
  /\ UNCHANGED <<rows, job, answer, pc, seen, connections>>

StaleCounter(stored, n) == n > 0 /\ stored > 0 /\ n <= stored

\* What the handler checks on the rows it has loaded.
LoadedError(j, loaded) ==
  CASE j.kind = "begin_registration" ->
         IF Cardinality(loaded) >= MaxPasskeys THEN "too_many_passkeys" ELSE "none"
    [] j.kind = "begin_authentication" ->
         IF loaded = {} THEN "invalid_credentials" ELSE "none"
    [] j.kind = "finish_authentication" ->
         IF j.credential \notin loaded \/ StaleCounter(passkeys[j.credential].count, j.count)
         THEN "invalid_credentials" ELSE "none"

LoadPasskeys(c) ==
  LET loaded == ActiveRows(S(c)) IN
    /\ pc[c] = "load_passkeys"
    /\ loaded \subseteq Locked(c)
    /\ \/ LoadedError(job[c], loaded) # "none" /\ Refuse(c, LoadedError(job[c], loaded))
       \/ LoadedError(job[c], loaded) = "none" /\ Proceed(c)
    /\ seen' = [seen EXCEPT ![c].active = loaded]
    /\ UNCHANGED <<rows, job, lock, connections>>

\* INSERT INTO passkeys ... ON CONFLICT (credential_id) DO NOTHING
InsertPasskey(c) ==
  /\ pc[c] = "insert"
  /\ \/ passkeys[K(c)] # NoRow /\ Refuse(c, "credential_exists") /\ UNCHANGED lock
     \/ passkeys[K(c)] = NoRow /\ Available(c, K(c)) /\ Lock(c, K(c)) /\ Proceed(c)
  /\ UNCHANGED <<rows, job, seen, connections>>

\* SELECT ... FROM passkeys WHERE passkey_id=$1 AND subject_id=$2 FOR UPDATE
LockPasskey(c) ==
  /\ pc[c] = "lock_passkey"
  /\ \/ ~Owned(c) /\ Refuse(c, "passkey_not_found") /\ UNCHANGED lock
     \/ Owned(c) /\ Available(c, K(c)) /\ Lock(c, K(c)) /\ Proceed(c)
  /\ UNCHANGED <<rows, job, seen, connections>>

\* The UPDATEs, and the challenge row that refers to its subject: each needs the
\* row of the subject.  Nobody sees the new versions yet; CommitTransaction names
\* them.
Write(c) ==
  /\ pc[c] = "write"
  /\ Available(c, S(c))
  /\ Lock(c, S(c))
  /\ Proceed(c)
  /\ UNCHANGED <<rows, job, seen, connections>>

-----------------------------------------------------------------------------
\* The end of a transaction

Advance(s) == revision' = [revision EXCEPT ![s] = @ + 1]

Greatest(m, n) == IF m > n THEN m ELSE n

Effect(c) ==
  CASE job[c].kind = "begin_registration" ->
         subjects' = subjects \cup {S(c)} /\ UNCHANGED <<revision, passkeys>>
    [] job[c].kind = "begin_authentication" -> UNCHANGED rows
    [] job[c].kind = "finish_registration" ->
         /\ passkeys' = [passkeys EXCEPT ![K(c)] =
                           [subject |-> S(c), count |-> job[c].count, revoked |-> FALSE]]
         /\ Advance(S(c))
         /\ UNCHANGED subjects
    [] job[c].kind = "finish_authentication" ->
         /\ passkeys' = [passkeys EXCEPT ![K(c)].count = Greatest(@, job[c].count)]
         /\ Advance(S(c))
         /\ UNCHANGED subjects
    [] job[c].kind = "revoke_passkey" ->
         IF passkeys[K(c)].revoked THEN UNCHANGED rows
         ELSE /\ passkeys' = [passkeys EXCEPT ![K(c)].revoked = TRUE]
              /\ Advance(S(c))
              /\ UNCHANGED subjects

\* How far the answer is ahead of the revision that was read.
Advanced(c) ==
  CASE job[c].kind \in {"begin_registration", "begin_authentication"} -> 0
    [] job[c].kind = "revoke_passkey" -> IF passkeys[K(c)].revoked THEN 0 ELSE 1
    [] OTHER -> 1

CommitTransaction(c) ==
  /\ pc[c] = "commit"
  /\ Effect(c)
  /\ answer' = [answer EXCEPT ![c] =
       [revision |-> seen[c].revision + Advanced(c),
        active |-> IF job[c].kind \in {"begin_registration", "begin_authentication"}
                   THEN seen[c].active ELSE {}]]
  /\ GoTo(c, "done")
  /\ Release(c)
  /\ UNCHANGED <<job, seen>>

\* Mutant of Rollback: the transaction, and its connection, live on.
RollbackKeeping(c) ==
  /\ pc[c] = "rollback"
  /\ GoTo(c, "record")
  /\ UNCHANGED <<rows, job, answer, seen, lock, connections>>

Rollback(c) ==
  /\ pc[c] = "rollback"
  /\ GoTo(c, "record")
  /\ Release(c)
  /\ UNCHANGED <<rows, job, answer, seen>>

\* record_error: one statement on a connection of its own, back at once.
Record(c) ==
  /\ pc[c] = "record"
  /\ HasConnection
  /\ GoTo(c, "done")
  /\ UNCHANGED <<rows, job, answer, seen, lock, connections>>

Statement(c) ==
  \/ BeginTransaction(c) \/ EnsureSubject(c) \/ MissSubject(c) \/ LockSubject(c)
  \/ LockNextPasskey(c) \/ LoadPasskeys(c) \/ InsertPasskey(c) \/ LockPasskey(c)
  \/ Write(c) \/ CommitTransaction(c) \/ Rollback(c) \/ Record(c)

-----------------------------------------------------------------------------
Unread == [revision |-> 0, active |-> {}]

Init ==
  /\ subjects = {}
  /\ revision = [s \in Subjects |-> 0]
  /\ passkeys = [k \in Credentials |-> NoRow]
  /\ job = [c \in Calls |-> NoRow]
  /\ answer = [c \in Calls |-> NoRow]
  /\ pc = [c \in Calls |-> "idle"]
  /\ seen = [c \in Calls |-> Unread]
  /\ lock = [r \in Rows |-> Nobody]
  /\ connections = {}

\* A handler comes to its transaction.  finish_registration has a challenge by then,
\* whose row refers to that of the subject.
Start(c) ==
  /\ pc[c] = "idle"
  /\ \E j \in Jobs :
       /\ j.kind = "finish_registration" => j.subject \in subjects
       /\ job' = [job EXCEPT ![c] = j]
  /\ GoTo(c, "begin")
  /\ UNCHANGED <<rows, answer, seen, lock, connections>>

\* The handler is done, or it is lost: a dropped future, a crash, a timeout of the
\* pool or a database error.  An open transaction is rolled back.
End(c) ==
  /\ pc[c] # "idle"
  /\ GoTo(c, "idle")
  /\ job' = [job EXCEPT ![c] = NoRow]
  /\ answer' = [answer EXCEPT ![c] = NoRow]
  /\ seen' = [seen EXCEPT ![c] = Unread]
  /\ Release(c)
  /\ UNCHANGED rows

Next == \E c \in Calls : Start(c) \/ Statement(c) \/ End(c)

Spec == Init /\ [][Next]_vars

\* PostgreSQL serves the waiters of a row, and the pool those of a connection, in
\* turn, so a statement that can run again and again does run in the end.  Nothing
\* makes a caller send a request or a handler be lost.
FairSpec == Spec /\ \A c \in Calls : SF_vars(Statement(c))

-----------------------------------------------------------------------------
Stages ==
  {"idle", "begin", "ensure", "lock_subject", "load_passkeys", "insert",
   "lock_passkey", "write", "commit", "rollback", "record", "done"}

\* The stages at which a transaction is open.
Open == Stages \ {"idle", "begin", "record", "done"}

Reading == [revision: Nat, active: SUBSET Credentials]

Codes ==
  {"revision_conflict", "too_many_passkeys", "invalid_credentials",
   "credential_exists", "passkey_not_found"}

\* Type invariant; only an open transaction holds a connection or a row.
TypeOK ==
  /\ subjects \subseteq Subjects
  /\ revision \in [Subjects -> Nat]
  /\ passkeys \in [Credentials -> Passkey \cup {NoRow}]
  /\ job \in [Calls -> Jobs \cup {NoRow}]
  /\ answer \in [Calls -> Reading \cup [error: Codes] \cup {NoRow}]
  /\ pc \in [Calls -> Stages]
  /\ seen \in [Calls -> Reading]
  /\ lock \in [Rows -> Calls \cup {Nobody}]
  /\ connections = {c \in Calls : pc[c] \in Open}
  /\ \A c \in Calls : /\ pc[c] # "idle" => job[c] \in Jobs
                      /\ Locked(c) # {} => pc[c] \in Open

NeedsConnection(c) == pc[c] \in {"begin", "record"}

\* The row a call needs for its statement, if it has to wait for it.
Needed(c) ==
  CASE pc[c] = "ensure"        -> {S(c)} \ subjects
    [] pc[c] = "lock_subject"  -> IF S(c) \in subjects THEN {S(c)} ELSE {}
    [] pc[c] = "write"         -> {S(c)}
    [] pc[c] = "load_passkeys" -> ActiveRows(S(c))
    [] pc[c] = "insert"        -> IF passkeys[K(c)] = NoRow THEN {K(c)} ELSE {}
    [] pc[c] = "lock_passkey"  -> IF Owned(c) THEN {K(c)} ELSE {}
    [] OTHER                   -> {}

WaitsFor(c, d) == d # c /\ \E r \in Needed(c) : lock[r] = d

\* Each of the calls waits for one of them, or for a connection all of which they
\* hold: none can move before one of them gives up.
Stuck(waiting) ==
  \A c \in waiting :
    \/ \E d \in waiting : WaitsFor(c, d)
    \/ NeedsConnection(c) /\ ~HasConnection /\ connections \subseteq waiting

\* Handlers never wait for each other in a circle, over rows, over connections or
\* over both: subject, then passkeys, and no connection while one is held.
NoDeadlock == \A waiting \in (SUBSET Calls) \ {{}} : ~Stuck(waiting)

\* Every transaction that is started ends, however many contend for its subject or
\* for the pool.
EveryTransactionEnds == \A c \in Calls : pc[c] # "idle" ~> pc[c] \in {"done", "idle"}

Atomic == INSTANCE AtomicTransactions

\* Whatever the statements of different handlers do in between, each transaction
\* decides on the rows as they are at one instant and takes effect at that instant:
\* PasskeyPlugin may treat it as one step.
ImplementsAtomicTransactions == Atomic!Spec
=============================================================================
