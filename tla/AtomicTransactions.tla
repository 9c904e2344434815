-------------------------- MODULE AtomicTransactions --------------------------
(***************************************************************************)
(* What the transactions of the handlers promise: each one decides and     *)
(* takes effect at a single instant, on the rows as they are at that       *)
(* instant.  PasskeyPlugin is built on this; SubjectTransactions, with     *)
(* statements, row locks and a connection pool, implements it.             *)
(***************************************************************************)
EXTENDS Naturals, FiniteSets

CONSTANTS Calls, Subjects, Credentials, Jobs, MaxPasskeys, NoRow

VARIABLES
  subjects,  \* the subjects that have a row
  revision,  \* the revision of each subject's collection
  passkeys,  \* the passkey of each credential
  job,       \* the transaction of each call, NoRow for none
  answer     \* what it decided, NoRow until then

data == <<subjects, revision, passkeys>>
vars == <<data, job, answer>>

Active(s) ==
  {k \in Credentials : /\ passkeys[k] # NoRow
                       /\ passkeys[k].subject = s /\ ~passkeys[k].revoked}

Greater(m, n) == IF m > n THEN m ELSE n

\* A counter of zero, reported or stored, is not compared.
Stale(j) ==
  LET stored == passkeys[j.credential].count IN
    j.count > 0 /\ stored > 0 /\ j.count <= stored

Begins == {"begin_registration", "begin_authentication"}

\* The error a transaction decided now would end with.
ErrorOf(j) ==
  CASE j.kind = "begin_registration" ->
         IF revision[j.subject] # j.expected THEN "revision_conflict"
         ELSE IF Cardinality(Active(j.subject)) >= MaxPasskeys THEN "too_many_passkeys"
         ELSE "none"
    [] j.kind = "begin_authentication" ->
         IF Active(j.subject) = {} THEN "invalid_credentials" ELSE "none"
    [] j.kind = "finish_registration" ->
         IF revision[j.subject] # j.expected THEN "revision_conflict"
         ELSE IF passkeys[j.credential] # NoRow THEN "credential_exists"
         ELSE "none"
    [] j.kind = "finish_authentication" ->
         IF j.credential \notin Active(j.subject) \/ Stale(j)
         THEN "invalid_credentials" ELSE "none"
    [] j.kind = "revoke_passkey" ->
         IF j.subject \notin subjects THEN "passkey_not_found"
         ELSE IF revision[j.subject] # j.expected THEN "revision_conflict"
         ELSE IF passkeys[j.credential] = NoRow THEN "passkey_not_found"
         ELSE IF passkeys[j.credential].subject # j.subject THEN "passkey_not_found"
         ELSE "none"

Advance(s) == revision' = [revision EXCEPT ![s] = @ + 1]

Begin(j) ==
  /\ subjects' = subjects \cup {j.subject}
  /\ UNCHANGED <<revision, passkeys>>

Enroll(j) ==
  /\ passkeys' = [passkeys EXCEPT ![j.credential] =
                    [subject |-> j.subject, count |-> j.count, revoked |-> FALSE]]
  /\ Advance(j.subject)
  /\ UNCHANGED subjects

Use(j) ==
  /\ passkeys' = [passkeys EXCEPT ![j.credential].count = Greater(@, j.count)]
  /\ Advance(j.subject)
  /\ UNCHANGED subjects

Retire(j) ==
  /\ \/ /\ ~passkeys[j.credential].revoked
        /\ passkeys' = [passkeys EXCEPT ![j.credential].revoked = TRUE]
        /\ Advance(j.subject)
     \/ passkeys[j.credential].revoked /\ UNCHANGED <<passkeys, revision>>
  /\ UNCHANGED subjects

Effect(j) ==
  CASE j.kind \in Begins               -> Begin(j)
    [] j.kind = "finish_registration"   -> Enroll(j)
    [] j.kind = "finish_authentication" -> Use(j)
    [] j.kind = "revoke_passkey"        -> Retire(j)

Init ==
  /\ subjects = {}
  /\ revision = [s \in Subjects |-> 0]
  /\ passkeys = [k \in Credentials |-> NoRow]
  /\ job = [c \in Calls |-> NoRow]
  /\ answer = [c \in Calls |-> NoRow]

Start(c, j) ==
  /\ job[c] = NoRow
  /\ job' = [job EXCEPT ![c] = j]
  /\ UNCHANGED <<data, answer>>

Refuse(c) ==
  /\ job[c] # NoRow /\ answer[c] = NoRow
  /\ ErrorOf(job[c]) # "none"
  /\ answer' = [answer EXCEPT ![c] = [error |-> ErrorOf(job[c])]]
  /\ UNCHANGED <<data, job>>

\* The answer tells the revision after the effect, and a begin the credentials it
\* offers or excludes.
Commit(c) ==
  /\ job[c] # NoRow /\ answer[c] = NoRow
  /\ ErrorOf(job[c]) = "none"
  /\ Effect(job[c])
  /\ answer' = [answer EXCEPT ![c] =
       [revision |-> revision'[job[c].subject],
        active |-> IF job[c].kind \in Begins THEN Active(job[c].subject) ELSE {}]]
  /\ UNCHANGED job

End(c) ==
  /\ job[c] # NoRow
  /\ job' = [job EXCEPT ![c] = NoRow]
  /\ answer' = [answer EXCEPT ![c] = NoRow]
  /\ UNCHANGED data

Next ==
  \E c \in Calls : Refuse(c) \/ Commit(c) \/ End(c) \/ \E j \in Jobs : Start(c, j)

Spec == Init /\ [][Next]_vars
=============================================================================
