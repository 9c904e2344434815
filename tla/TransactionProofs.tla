-------------------------- MODULE TransactionProofs ---------------------------
(***************************************************************************)
(* Transactions, for any number of calls, rows and connections: which rows *)
(* an open transaction holds at each statement, why no circle of waits can *)
(* close, and that each takes effect at once.                              *)
(***************************************************************************)
EXTENDS SubjectTransactions, FiniteSetTheorems, TLAPS

-----------------------------------------------------------------------------
\* Which rows an open transaction holds at each statement, and why no circle of
\* waits can close.

Kind(c) == job[c].kind

\* The stages at which the row of the subject is locked.
WithSubject == {"load_passkeys", "insert", "lock_passkey", "write", "commit"}

\* The statements that each kind of transaction runs.
StageOK(c) ==
  /\ pc[c] = "idle" => job[c] = NoRow
  /\ pc[c] = "ensure" => Kind(c) = "begin_registration"
  /\ pc[c] = "insert" => Kind(c) = "finish_registration"
  /\ pc[c] = "lock_passkey" => Kind(c) = "revoke_passkey"
  /\ pc[c] = "load_passkeys" =>
       Kind(c) \in {"begin_registration", "begin_authentication", "finish_authentication"}

\* No row of another subject; the row of the subject from lock_subject on, or from
\* ensure_subject on if it was inserted there.
SubjectLockOK(c) ==
  /\ \A s \in Subjects : lock[s] = c => s = S(c)
  /\ pc[c] \in WithSubject => lock[S(c)] = c
  /\ pc[c] = "ensure" => lock[S(c)] # c
  /\ pc[c] = "lock_subject" /\ lock[S(c)] = c =>
       S(c) \notin subjects /\ Kind(c) = "begin_registration"

\* Passkeys are locked after their subject, and are the subject's or new.
PasskeyLocksOK(c) ==
  \A k \in Credentials :
    lock[k] = c =>
      /\ lock[S(c)] = c
      /\ pc[c] \in {"load_passkeys", "write", "commit", "rollback"}
      /\ passkeys[k] # NoRow => passkeys[k].subject = S(c)
      /\ passkeys[k] = NoRow => pc[c] \in {"write", "commit"}

\* Before it writes, a transaction holds the passkey it is about.
WriterOK(c) ==
  pc[c] \in {"write", "commit"} =>
    /\ Kind(c) = "finish_registration" => passkeys[K(c)] = NoRow /\ lock[K(c)] = c
    /\ Kind(c) \in {"finish_authentication", "revoke_passkey"} =>
         Owned(c) /\ lock[K(c)] = c

CallOK(c) == StageOK(c) /\ SubjectLockOK(c) /\ PasskeyLocksOK(c) /\ WriterOK(c)

LockInv == TypeOK /\ \A c \in Calls : CallOK(c)

-----------------------------------------------------------------------------
\* Jobs and calls

LEMMA JobFields ==
  ASSUME NEW j \in Jobs
  PROVE  /\ j.kind \in Kinds /\ j.subject \in Subjects /\ j # NoRow
         /\ ChecksRevision(j.kind) => j.expected \in Nat
         /\ j.kind \in {"finish_registration", "finish_authentication", "revoke_passkey"} =>
              j.credential \in Credentials
         /\ j.kind \in {"finish_registration", "finish_authentication"} => j.count \in Nat
  BY TransactionAssumption DEF Kinds, ChecksRevision

\* A call that runs a transaction.
LEMMA RunningCall ==
  ASSUME TypeOK, NEW c \in Calls, pc[c] # "idle"
  PROVE  /\ job[c] \in Jobs /\ Kind(c) \in Kinds /\ S(c) \in Subjects
         /\ S(c) \in Rows /\ c # Nobody
         /\ Kind(c) \in {"finish_registration", "finish_authentication", "revoke_passkey"} =>
              K(c) \in Credentials /\ K(c) \in Rows
         /\ Kind(c) \in {"finish_registration", "finish_authentication"} =>
              job[c].count \in Nat
         /\ ChecksRevision(Kind(c)) => job[c].expected \in Nat
  <1>1. job[c] \in Jobs BY DEF TypeOK
  <1> QED BY <1>1, JobFields, TransactionAssumption DEF Kind, S, K, Rows

Act(c) == Start(c) \/ Statement(c) \/ End(c)

\* A step of one call leaves alone what the others have and hold.
OthersKeep(c) ==
  \A d \in Calls \ {c} :
    /\ pc'[d] = pc[d] /\ job'[d] = job[d]
    /\ seen'[d] = seen[d] /\ answer'[d] = answer[d]
    /\ \A r \in Rows : lock'[r] = d <=> lock[r] = d

LEMMA ActOthersKeep ==
  ASSUME TypeOK, NEW c \in Calls, Act(c)
  PROVE  OthersKeep(c)
  <1> USE DEF TypeOK, OthersKeep
  <1>0. c # Nobody BY TransactionAssumption
  <1>1. CASE Start(c) BY <1>1 DEF Start, GoTo, rows
  <1>2. CASE End(c) BY <1>0, <1>2, TransactionAssumption DEF End, GoTo, Release
  <1>3. CASE BeginTransaction(c) BY <1>3 DEF BeginTransaction, Proceed, GoTo
  <1>4. CASE EnsureSubject(c)
    BY <1>4, TransactionAssumption DEF EnsureSubject, Proceed, GoTo, Available, Lock
  <1>5. CASE MissSubject(c) BY <1>5 DEF MissSubject, Refuse, GoTo
  <1>6. CASE LockSubject(c)
    BY <1>6, TransactionAssumption
       DEF LockSubject, ReadSubject, Refuse, Proceed, GoTo, Available, Lock
  <1>7. CASE LockNextPasskey(c)
    BY <1>7, TransactionAssumption DEF LockNextPasskey, Available, Lock
  <1>8. CASE LoadPasskeys(c) BY <1>8 DEF LoadPasskeys, Refuse, Proceed, GoTo
  <1>9. CASE InsertPasskey(c)
    BY <1>9, TransactionAssumption
       DEF InsertPasskey, Refuse, Proceed, GoTo, Available, Lock
  <1>10. CASE LockPasskey(c)
    BY <1>10, TransactionAssumption DEF LockPasskey, Refuse, Proceed, GoTo, Available, Lock
  <1>11. CASE Write(c)
    BY <1>11, TransactionAssumption DEF Write, Proceed, GoTo, Available, Lock
  <1>12. CASE CommitTransaction(c)
    BY <1>0, <1>12, TransactionAssumption DEF CommitTransaction, GoTo, Release
  <1>13. CASE Rollback(c)
    BY <1>0, <1>13, TransactionAssumption DEF Rollback, GoTo, Release
  <1>14. CASE Record(c) BY <1>14 DEF Record, GoTo
  <1> QED
    BY <1>1, <1>2, <1>3, <1>4, <1>5, <1>6, <1>7, <1>8, <1>9, <1>10, <1>11, <1>12, <1>13,
       <1>14 DEF Act, Statement

-----------------------------------------------------------------------------
\* Type correctness.  The only open question is what a transaction writes: it holds
\* the passkey it is about.

LEMMA AfterStage ==
  ASSUME NEW kind,
         NEW stage \in {"begin", "ensure", "lock_subject", "load_passkeys", "insert",
                        "lock_passkey", "write"}
  PROVE  After(kind, stage) \in Stages
  BY DEF After, Stages

LEMMA ActCallTypes ==
  ASSUME TypeOK, NEW c \in Calls, StageOK(c), Act(c)
  PROVE  /\ pc' \in [Calls -> Stages]
         /\ job' \in [Calls -> Jobs \cup {NoRow}]
         /\ answer' \in [Calls -> Reading \cup [error: Codes] \cup {NoRow}]
         /\ seen' \in [Calls -> Reading]
         /\ \A d \in Calls : pc'[d] # "idle" => job'[d] \in Jobs
  <1>0. /\ pc \in [Calls -> Stages] /\ job \in [Calls -> Jobs \cup {NoRow}]
        /\ answer \in [Calls -> Reading \cup [error: Codes] \cup {NoRow}]
        /\ seen \in [Calls -> Reading]
        /\ \A d \in Calls : pc[d] # "idle" => job[d] \in Jobs
    BY DEF TypeOK
  <1>1. CASE Start(c) BY <1>0, <1>1 DEF Start, GoTo, Stages
  <1>2. CASE End(c) BY <1>0, <1>2 DEF End, GoTo, Unread, Reading, Stages
  <1>3. CASE Statement(c)
    <2>1. job' = job /\ pc[c] # "idle"
      BY <1>3 DEF Statement, BeginTransaction, EnsureSubject, MissSubject, LockSubject,
         LockNextPasskey, LoadPasskeys, InsertPasskey, LockPasskey, Write,
         CommitTransaction, Rollback, Record
    <2>17. \A d \in Calls : pc'[d] # "idle" => job'[d] \in Jobs
      BY <1>0, <2>1, ActOthersKeep DEF OthersKeep
    <2>2. Kind(c) \in Kinds /\ S(c) \in Subjects BY <2>1, RunningCall
    <2>3. CASE pc' = pc /\ answer' = answer /\ seen' = seen BY <1>0, <2>1, <2>17, <2>3
    <2>4. ASSUME seen' = seen, Proceed(c) \/ \E code \in Codes : Refuse(c, code),
                 pc[c] \in {"begin", "ensure", "lock_subject", "load_passkeys", "insert",
                           "lock_passkey", "write"}
          PROVE  pc' \in [Calls -> Stages] /\ seen' \in [Calls -> Reading]
                 /\ answer' \in [Calls -> Reading \cup [error: Codes] \cup {NoRow}]
      <3>1. CASE Proceed(c) BY <1>0, <2>4, <3>1, AfterStage DEF Proceed, GoTo
      <3>2. CASE \E code \in Codes : Refuse(c, code)
        BY <1>0, <2>4, <3>2 DEF Refuse, GoTo, Stages
      <3> QED BY <2>4, <3>1, <3>2
    <2>5. CASE BeginTransaction(c) BY <1>0, <2>1, <2>17, <2>4, <2>5 DEF BeginTransaction
    <2>6. CASE EnsureSubject(c) BY <1>0, <2>1, <2>17, <2>4, <2>6 DEF EnsureSubject
    <2>7. CASE MissSubject(c)
      BY <1>0, <2>1, <2>17, <2>4, <2>7 DEF MissSubject, MissingCode, Codes
    <2>8. CASE LockSubject(c)
      <3>1. Proceed(c) \/ Refuse(c, "revision_conflict")
        BY <2>8 DEF LockSubject, ReadSubject
      <3>2. seen' \in [Calls -> Reading]
        <4>1. seen' = [seen EXCEPT ![c].revision = revision[S(c)]] /\ revision[S(c)] \in Nat
          BY <2>2, <2>8 DEF LockSubject, ReadSubject, TypeOK
        <4> QED BY <1>0, <4>1 DEF Reading
      <3> QED
        BY <1>0, <2>1, <2>17, <2>8, <3>1, <3>2, AfterStage
           DEF LockSubject, Proceed, Refuse, GoTo, Stages, Codes
    <2>9. CASE LockNextPasskey(c) BY <2>3, <2>9 DEF LockNextPasskey
    <2>10. CASE LoadPasskeys(c)
      <3>1. LoadedError(job[c], ActiveRows(S(c))) \in Codes \cup {"none"}
        BY <2>10 DEF LoadPasskeys, StageOK, Kind, LoadedError, Codes
      <3>2. Proceed(c) \/ \E code \in Codes : Refuse(c, code)
        BY <2>10, <3>1 DEF LoadPasskeys
      <3>3. seen' \in [Calls -> Reading]
        <4>1. seen' = [seen EXCEPT ![c].active = ActiveRows(S(c))]
              /\ ActiveRows(S(c)) \in SUBSET Credentials
          BY <2>10 DEF LoadPasskeys, ActiveRows
        <4> QED BY <1>0, <4>1 DEF Reading
      <3> QED
        BY <1>0, <2>1, <2>17, <2>10, <3>2, <3>3, AfterStage
           DEF LoadPasskeys, Proceed, Refuse, GoTo, Stages
    <2>11. CASE InsertPasskey(c) BY <1>0, <2>1, <2>17, <2>4, <2>11 DEF InsertPasskey, Codes
    <2>12. CASE LockPasskey(c) BY <1>0, <2>1, <2>17, <2>4, <2>12 DEF LockPasskey, Codes
    <2>13. CASE Write(c) BY <1>0, <2>1, <2>17, <2>4, <2>13 DEF Write
    <2>14. CASE CommitTransaction(c)
      <3>1. Advanced(c) \in Nat
        <4>1. CASE Kind(c) = "revoke_passkey" BY <4>1 DEF Advanced, Kind
        <4>2. CASE Kind(c) # "revoke_passkey" BY <4>2 DEF Advanced, Kind
        <4> QED BY <4>1, <4>2
      <3>2. PICK n \in Nat : n = seen[c].revision + Advanced(c)
        BY <1>0, <3>1 DEF Reading
      <3>3. PICK active \in SUBSET Credentials :
              active = IF job[c].kind \in {"begin_registration", "begin_authentication"}
                       THEN seen[c].active ELSE {}
        BY <1>0 DEF Reading
      <3>4. answer' = [answer EXCEPT ![c] = [revision |-> n, active |-> active]]
        BY <2>14, <3>2, <3>3 DEF CommitTransaction
      <3>5. answer' \in [Calls -> Reading \cup [error: Codes] \cup {NoRow}]
        BY <1>0, <3>4 DEF Reading
      <3> QED BY <1>0, <2>1, <2>17, <2>14, <3>5 DEF CommitTransaction, GoTo, Stages
    <2>15. CASE Rollback(c) BY <1>0, <2>1, <2>17, <2>15 DEF Rollback, GoTo, Stages
    <2>16. CASE Record(c) BY <1>0, <2>1, <2>17, <2>16 DEF Record, GoTo, Stages
    <2> QED
      BY <1>3, <2>5, <2>6, <2>7, <2>8, <2>9, <2>10, <2>11, <2>12, <2>13, <2>14, <2>15,
         <2>16 DEF Statement
  <1> QED BY <1>1, <1>2, <1>3 DEF Act

-----------------------------------------------------------------------------
\* The rows: only a commit changes them, and only those that its call holds.

RowsKept(c) ==
  /\ subjects' = subjects \/ (lock[S(c)] = c /\ subjects' = subjects \cup {S(c)})
  /\ \A s \in Subjects : revision'[s] # revision[s] => s = S(c) /\ lock[s] = c
  /\ \A k \in Credentials :
       passkeys'[k] # passkeys[k] =>
         /\ lock[k] = c /\ lock[S(c)] = c
         /\ passkeys'[k] # NoRow /\ passkeys'[k].subject = S(c)

LEMMA CommitRows ==
  ASSUME TypeOK, NEW c \in Calls, CallOK(c), CommitTransaction(c)
  PROVE  /\ RowsKept(c)
         /\ subjects' \subseteq Subjects
         /\ revision' \in [Subjects -> Nat]
         /\ passkeys' \in [Credentials -> Passkey \cup {NoRow}]
  <1>1. pc[c] = "commit" /\ Effect(c) BY DEF CommitTransaction
  <1>2. Kind(c) \in Kinds /\ S(c) \in Subjects /\ lock[S(c)] = c
    BY <1>1, RunningCall DEF CallOK, SubjectLockOK, WithSubject
  <1>3. /\ subjects \subseteq Subjects /\ revision \in [Subjects -> Nat]
        /\ passkeys \in [Credentials -> Passkey \cup {NoRow}]
    BY DEF TypeOK
  <1> USE DEF Effect, Kind, RowsKept
  <1>4. CASE Kind(c) = "begin_registration" BY <1>1, <1>2, <1>3, <1>4
  <1>5. CASE Kind(c) = "begin_authentication" BY <1>1, <1>2, <1>3, <1>5 DEF rows
  <1>6. CASE Kind(c) = "finish_registration"
    <2>1. /\ K(c) \in Credentials /\ passkeys[K(c)] = NoRow /\ lock[K(c)] = c
          /\ job[c].count \in Nat
      BY <1>1, <1>6, RunningCall DEF CallOK, WriterOK
    <2>2. PICK row \in Passkey :
            row = [subject |-> S(c), count |-> job[c].count, revoked |-> FALSE]
      BY <1>2, <2>1 DEF Passkey
    <2>3. /\ passkeys' = [passkeys EXCEPT ![K(c)] = row]
          /\ revision' = [revision EXCEPT ![S(c)] = @ + 1] /\ subjects' = subjects
      BY <1>1, <1>6, <2>2 DEF Advance
    <2>4. row.subject = S(c) BY <2>2
    <2>5. row # NoRow
      BY TransactionAssumption
    <2> QED BY <1>2, <1>3, <2>1, <2>3, <2>4, <2>5
  <1>7. CASE Kind(c) = "finish_authentication"
    <2>1. /\ K(c) \in Credentials /\ passkeys[K(c)] \in Passkey
          /\ passkeys[K(c)].subject = S(c) /\ lock[K(c)] = c
          /\ passkeys[K(c)] # NoRow /\ job[c].count \in Nat
      BY <1>1, <1>3, <1>7, RunningCall DEF CallOK, WriterOK, Owned
    <2>2. PICK n \in Nat : n = Greatest(passkeys[K(c)].count, job[c].count)
      BY <2>1 DEF Greatest, Passkey
    <2> DEFINE row == [passkeys[K(c)] EXCEPT !.count = n]
    <2>3. row \in Passkey /\ row.subject = S(c) BY <2>1 DEF Passkey
    <2>4. /\ passkeys' = [passkeys EXCEPT ![K(c)].count = n]
          /\ revision' = [revision EXCEPT ![S(c)] = @ + 1] /\ subjects' = subjects
      BY <1>1, <1>7, <2>2 DEF Advance
    <2>5. passkeys' = [passkeys EXCEPT ![K(c)] = row] BY <2>3, <2>4
    <2>6. row # NoRow BY <2>3, TransactionAssumption
    <2> HIDE DEF row, Effect
    <2> QED BY <1>2, <1>3, <2>1, <2>3, <2>4, <2>5, <2>6
  <1>8. CASE Kind(c) = "revoke_passkey"
    <2>1. /\ K(c) \in Credentials /\ passkeys[K(c)] \in Passkey
          /\ passkeys[K(c)].subject = S(c) /\ lock[K(c)] = c
          /\ passkeys[K(c)] # NoRow
      BY <1>1, <1>3, <1>8, RunningCall DEF CallOK, WriterOK, Owned
    <2>2. CASE passkeys[K(c)].revoked BY <1>1, <1>2, <1>3, <1>8, <2>2 DEF rows
    <2>3. CASE ~passkeys[K(c)].revoked
      <3> DEFINE row == [passkeys[K(c)] EXCEPT !.revoked = TRUE]
      <3>1. row \in Passkey /\ row.subject = S(c) BY <2>1 DEF Passkey
      <3>2. /\ passkeys' = [passkeys EXCEPT ![K(c)].revoked = TRUE]
            /\ revision' = [revision EXCEPT ![S(c)] = @ + 1] /\ subjects' = subjects
        BY <1>1, <1>8, <2>3 DEF Advance
      <3>3. passkeys' = [passkeys EXCEPT ![K(c)] = row] BY <3>1, <3>2
      <3>4. row # NoRow BY <3>1, TransactionAssumption
      <3> HIDE DEF row, Effect
      <3>5. /\ passkeys' \in [Credentials -> Passkey \cup {NoRow}]
            /\ \A k \in Credentials : passkeys'[k] = IF k = K(c) THEN row ELSE passkeys[k]
        BY <1>3, <2>1, <3>1, <3>3
      <3>6. /\ revision' \in [Subjects -> Nat]
            /\ \A s \in Subjects : revision'[s] # revision[s] => s = S(c)
        BY <1>2, <1>3, <3>2
      <3> QED BY <1>2, <1>3, <2>1, <3>1, <3>2, <3>4, <3>5, <3>6
    <2> QED BY <2>2, <2>3
  <1> QED BY <1>2, <1>4, <1>5, <1>6, <1>7, <1>8 DEF Kinds

LEMMA ActRows ==
  ASSUME TypeOK, NEW c \in Calls, CallOK(c), Act(c)
  PROVE  /\ RowsKept(c)
         /\ subjects' \subseteq Subjects
         /\ revision' \in [Subjects -> Nat]
         /\ passkeys' \in [Credentials -> Passkey \cup {NoRow}]
  <1>1. CASE CommitTransaction(c) BY <1>1, CommitRows
  <1>2. CASE ~CommitTransaction(c)
    <2>1. UNCHANGED rows
      BY <1>2 DEF Act, Start, End, Statement, BeginTransaction, EnsureSubject, MissSubject,
         LockSubject, LockNextPasskey, LoadPasskeys, InsertPasskey, LockPasskey, Write,
         Rollback, Record
    <2> QED BY <2>1 DEF rows, RowsKept, TypeOK
  <1> QED BY <1>1, <1>2

\* What a step does to the locks, the connections and the stage of its own call.
LEMMA ActLocks ==
  ASSUME TypeOK, NEW c \in Calls, CallOK(c), Act(c)
  PROVE  /\ lock' \in [Rows -> Calls \cup {Nobody}]
         /\ \A d \in Calls \ {c} : d \in connections' <=> d \in connections
         /\ connections' \subseteq Calls
         /\ c \in connections' <=> pc'[c] \in Open
         /\ pc'[c] \notin Open => \A r \in Rows : lock'[r] # c
  <1>0. /\ lock \in [Rows -> Calls \cup {Nobody}] /\ pc \in [Calls -> Stages]
        /\ connections = {d \in Calls : pc[d] \in Open} /\ c # Nobody
        /\ \A r \in Rows : lock[r] = c => pc[c] \in Open
    BY TransactionAssumption DEF TypeOK, Locked
  <1> USE <1>0 DEF GoTo, Open, Stages
  <1>1. CASE Start(c) BY <1>1 DEF Start
  <1>2. CASE End(c) BY <1>2 DEF End, Release
  <1>3. CASE Statement(c)
    <2>1. S(c) \in Rows /\ Kind(c) \in Kinds /\ pc[c] # "idle"
      <3>1. pc[c] # "idle"
        BY <1>3 DEF Statement, BeginTransaction, EnsureSubject, MissSubject, LockSubject,
           LockNextPasskey, LoadPasskeys, InsertPasskey, LockPasskey, Write,
           CommitTransaction, Rollback, Record
      <3> QED BY <3>1, RunningCall
    <2>2. CASE BeginTransaction(c)
      BY <2>1, <2>2 DEF BeginTransaction, Proceed, After
    <2>3. CASE EnsureSubject(c) BY <2>1, <2>3 DEF EnsureSubject, Proceed, After, Lock
    <2>4. CASE MissSubject(c) BY <2>4 DEF MissSubject, Refuse
    <2>5. CASE LockSubject(c)
      BY <2>1, <2>5 DEF LockSubject, ReadSubject, Proceed, Refuse, After, Lock
    <2>6. CASE LockNextPasskey(c) BY <2>6 DEF LockNextPasskey, Lock, Rows
    <2>7. CASE LoadPasskeys(c) BY <2>7 DEF LoadPasskeys, Proceed, Refuse, After
    <2>8. CASE InsertPasskey(c)
      <3>1. K(c) \in Rows BY <2>1, <2>8, RunningCall DEF InsertPasskey, CallOK, StageOK
      <3> QED BY <2>8, <3>1 DEF InsertPasskey, Proceed, Refuse, After, Lock
    <2>9. CASE LockPasskey(c)
      <3>1. K(c) \in Rows BY <2>1, <2>9, RunningCall DEF LockPasskey, CallOK, StageOK
      <3> QED BY <2>9, <3>1 DEF LockPasskey, Proceed, Refuse, After, Lock
    <2>10. CASE Write(c) BY <2>1, <2>10 DEF Write, Proceed, After, Lock
    <2>11. CASE CommitTransaction(c) BY <2>11 DEF CommitTransaction, Release
    <2>12. CASE Rollback(c) BY <2>12 DEF Rollback, Release
    <2>13. CASE Record(c) BY <2>13 DEF Record
    <2> QED
      BY <1>3, <2>2, <2>3, <2>4, <2>5, <2>6, <2>7, <2>8, <2>9, <2>10, <2>11, <2>12, <2>13
         DEF Statement
  <1> QED BY <1>1, <1>2, <1>3 DEF Act

LEMMA ActTypes ==
  ASSUME TypeOK, NEW c \in Calls, CallOK(c), Act(c)
  PROVE  TypeOK'
  <1>1. OthersKeep(c) BY ActOthersKeep
  <1>2. /\ pc' \in [Calls -> Stages]
        /\ job' \in [Calls -> Jobs \cup {NoRow}]
        /\ answer' \in [Calls -> Reading \cup [error: Codes] \cup {NoRow}]
        /\ seen' \in [Calls -> Reading]
        /\ \A d \in Calls : pc'[d] # "idle" => job'[d] \in Jobs
    BY ActCallTypes DEF CallOK
  <1>3. /\ subjects' \subseteq Subjects
        /\ revision' \in [Subjects -> Nat]
        /\ passkeys' \in [Credentials -> Passkey \cup {NoRow}]
    BY ActRows
  <1>4. /\ lock' \in [Rows -> Calls \cup {Nobody}]
        /\ connections' = {d \in Calls : pc'[d] \in Open}
    BY <1>1, ActLocks DEF OthersKeep, TypeOK
  <1>5. \A d \in Calls : Locked(d)' # {} => pc'[d] \in Open
    BY <1>1, ActLocks DEF OthersKeep, TypeOK, Locked
  <1> QED BY <1>2, <1>3, <1>4, <1>5 DEF TypeOK

LEMMA InitTypes == Init => TypeOK /\ \A c \in Calls : CallOK(c)
  <1> SUFFICES ASSUME Init PROVE TypeOK /\ \A c \in Calls : CallOK(c) OBVIOUS
  <1> USE DEF Init
  <1>1. \A c \in Calls : \A r \in Rows : lock[r] # c BY TransactionAssumption
  <1>2. TypeOK BY <1>1 DEF TypeOK, Stages, Open, Unread, Reading, Locked
  <1>3. ASSUME NEW c \in Calls PROVE CallOK(c)
    BY <1>1 DEF CallOK, StageOK, SubjectLockOK, PasskeyLocksOK, WriterOK, WithSubject, Rows
  <1> QED BY <1>2, <1>3

-----------------------------------------------------------------------------
\* The order in which rows are locked

LEMMA OthersStayOK ==
  ASSUME TypeOK, NEW c \in Calls, CallOK(c), Act(c), NEW d \in Calls \ {c}, CallOK(d)
  PROVE  CallOK(d)'
  <1>1. /\ pc'[d] = pc[d] /\ job'[d] = job[d]
        /\ \A r \in Rows : lock'[r] = d <=> lock[r] = d
    BY ActOthersKeep DEF OthersKeep
  <1>2. RowsKept(c) BY ActRows
  <1>3. \A k \in Credentials : lock[k] = d => passkeys'[k] = passkeys[k]
    BY <1>2 DEF RowsKept
  <1>4. Subjects \subseteq Rows /\ Credentials \subseteq Rows BY DEF Rows
  <1>5. /\ StageOK(d)' /\ Kind(d)' = Kind(d) /\ S(d)' = S(d) /\ K(d)' = K(d)
    BY <1>1 DEF CallOK, StageOK, Kind, S, K
  <1>6. SubjectLockOK(d)'
    <2>1. CASE pc[d] = "idle"
      BY <1>1, <1>4, <1>5, <2>1 DEF CallOK, SubjectLockOK, WithSubject
    <2>2. CASE pc[d] # "idle"
      <3>1. S(d) \in Rows BY <2>2, RunningCall
      <3>2. S(d) \in subjects' /\ lock[S(d)] = d => S(d) \in subjects
        BY <1>2 DEF RowsKept
      <3> QED BY <1>1, <1>4, <1>5, <3>1, <3>2 DEF CallOK, SubjectLockOK, WithSubject
    <2> QED BY <2>1, <2>2
  <1>7. PasskeyLocksOK(d)'
    <2> SUFFICES ASSUME NEW k \in Credentials, lock'[k] = d
                 PROVE  /\ lock'[S(d)'] = d
                        /\ pc'[d] \in {"load_passkeys", "write", "commit", "rollback"}
                        /\ passkeys'[k] # NoRow => passkeys'[k].subject = S(d)'
                        /\ passkeys'[k] = NoRow => pc'[d] \in {"write", "commit"}
      BY DEF PasskeyLocksOK
    <2>1. lock[k] = d /\ passkeys'[k] = passkeys[k] BY <1>1, <1>3, <1>4
    <2>2. pc[d] # "idle" BY <2>1 DEF CallOK, PasskeyLocksOK
    <2>3. S(d) \in Rows BY <2>2, RunningCall
    <2> QED BY <1>1, <1>5, <2>1, <2>3 DEF CallOK, PasskeyLocksOK
  <1>8. WriterOK(d)'
    <2>1. CASE pc[d] \in {"write", "commit"}
      <3>1. Kind(d) \in {"finish_registration", "finish_authentication", "revoke_passkey"} =>
              K(d) \in Credentials /\ lock[K(d)] = d
        BY <2>1, RunningCall DEF CallOK, WriterOK
      <3> QED BY <1>1, <1>3, <1>4, <1>5, <2>1, <3>1 DEF CallOK, WriterOK, Owned
    <2>2. CASE pc[d] \notin {"write", "commit"} BY <1>1, <2>2 DEF WriterOK
    <2> QED BY <2>1, <2>2
  <1> QED BY <1>5, <1>6, <1>7, <1>8 DEF CallOK

LEMMA FreshStaysOK ==
  ASSUME TypeOK, NEW c \in Calls, CallOK(c), Start(c) \/ End(c) \/ BeginTransaction(c)
                   \/ Rollback(c) \/ Record(c) \/ CommitTransaction(c)
  PROVE  CallOK(c)'
  <1>1. Act(c) BY DEF Act, Statement
  <1>2. pc' \in [Calls -> Stages] BY <1>1, ActTypes DEF TypeOK
  <1>3. \A r \in Rows : lock'[r] # c
    <2>1. CASE BeginTransaction(c)
      BY <2>1 DEF BeginTransaction, TypeOK, Locked, Open
    <2>2. CASE ~BeginTransaction(c)
      <3>1. pc'[c] \in {"begin", "idle", "record", "done"}
        BY <2>2 DEF Start, End, Rollback, Record, CommitTransaction, GoTo, TypeOK
      <3> QED BY <1>1, <3>1, ActLocks DEF Open
    <2> QED BY <2>1, <2>2
  <1>4. \/ pc'[c] \in {"begin", "record", "done", "lock_subject"}
        \/ pc'[c] = "idle" /\ job'[c] = NoRow
        \/ pc'[c] = "ensure" /\ Kind(c)' = "begin_registration"
    <2>1. CASE BeginTransaction(c)
      BY <2>1 DEF BeginTransaction, Proceed, GoTo, After, TypeOK, Kind
    <2>2. CASE ~BeginTransaction(c)
      BY <2>2 DEF Start, End, Rollback, Record, CommitTransaction, GoTo, TypeOK
    <2> QED BY <2>1, <2>2
  <1>5. pc'[c] # "idle" => S(c)' \in Rows
    BY <1>1, ActTypes, JobFields DEF TypeOK, S, Rows
  <1> QED
    BY <1>3, <1>4, <1>5
       DEF CallOK, StageOK, SubjectLockOK, PasskeyLocksOK, WriterOK, WithSubject, Rows

LEMMA StatementStaysOK ==
  ASSUME TypeOK, NEW c \in Calls, CallOK(c), Statement(c)
  PROVE  CallOK(c)'
  <1>1. /\ job' = job /\ pc[c] # "idle" /\ pc \in [Calls -> Stages]
        /\ lock \in [Rows -> Calls \cup {Nobody}]
    BY DEF Statement, BeginTransaction, EnsureSubject, MissSubject, LockSubject,
       LockNextPasskey, LoadPasskeys, InsertPasskey, LockPasskey, Write,
       CommitTransaction, Rollback, Record, TypeOK
  <1>2. /\ S(c) \in Subjects /\ S(c) \in Rows /\ Kind(c) \in Kinds /\ c # Nobody
        /\ Kind(c) \in {"finish_registration", "finish_authentication", "revoke_passkey"} =>
             K(c) \in Credentials /\ K(c) \in Rows
    BY <1>1, RunningCall
  <1>3. /\ S(c)' = S(c) /\ K(c)' = K(c) /\ Kind(c)' = Kind(c)
        /\ Subjects \subseteq Rows /\ Credentials \subseteq Rows
        /\ Subjects \cap Credentials = {}
    BY <1>1, TransactionAssumption DEF S, K, Kind, Rows
  <1>4. StageOK(c) /\ SubjectLockOK(c) /\ PasskeyLocksOK(c) /\ WriterOK(c) BY DEF CallOK
  <1>5. SUFFICES StageOK(c)' /\ SubjectLockOK(c)' /\ PasskeyLocksOK(c)' /\ WriterOK(c)'
    BY DEF CallOK
  <1> USE <1>1, <1>2, <1>3, <1>4
      DEF StageOK, SubjectLockOK, PasskeyLocksOK, WriterOK, WithSubject, GoTo, rows
  <1>6. CASE EnsureSubject(c)
    BY <1>6 DEF EnsureSubject, Proceed, After, Lock
  <1>7. CASE MissSubject(c) BY <1>7 DEF MissSubject, Refuse
  <1>8. CASE LockSubject(c)
    BY <1>8 DEF LockSubject, ReadSubject, Proceed, Refuse, After, Lock, Kind, Kinds
  <1>9. CASE LockNextPasskey(c) BY <1>9 DEF LockNextPasskey, Lock, ActiveRows
  <1>10. CASE LoadPasskeys(c)
    <2>1. UNCHANGED <<passkeys, subjects, lock>> /\ ActiveRows(S(c)) \subseteq Locked(c)
          /\ pc[c] = "load_passkeys"
      BY <1>10 DEF LoadPasskeys
    <2>2. CASE Refuse(c, LoadedError(job[c], ActiveRows(S(c)))) BY <2>1, <2>2 DEF Refuse
    <2>3. CASE LoadedError(job[c], ActiveRows(S(c))) = "none" /\ Proceed(c)
      <3>1. pc' = [pc EXCEPT ![c] = "write"] BY <2>1, <2>3 DEF Proceed, After
      <3>2. Kind(c) = "finish_authentication" => K(c) \in ActiveRows(S(c))
        BY <2>3 DEF LoadedError, Kind, K
      <3>3. Kind(c) = "finish_authentication" => Owned(c) /\ lock[K(c)] = c
        BY <2>1, <3>2 DEF ActiveRows, Locked, Owned
      <3>4. Owned(c)' = Owned(c) BY <2>1 DEF Owned
      <3> QED BY <2>1, <3>1, <3>3, <3>4
    <2> QED BY <1>10, <2>2, <2>3 DEF LoadPasskeys
  <1>11. CASE InsertPasskey(c)
    BY <1>11 DEF InsertPasskey, Proceed, Refuse, After, Lock
  <1>12. CASE LockPasskey(c)
    BY <1>12 DEF LockPasskey, Proceed, Refuse, After, Lock, Owned
  <1>13. CASE Write(c)
    BY <1>13 DEF Write, Proceed, After, Lock, Owned
  <1>14. CASE BeginTransaction(c) \/ Rollback(c) \/ Record(c) \/ CommitTransaction(c)
    BY <1>14, FreshStaysOK DEF CallOK
  <1> QED
    BY <1>6, <1>7, <1>8, <1>9, <1>10, <1>11, <1>12, <1>13, <1>14 DEF Statement

LEMMA NextLocks == LockInv /\ [Next]_vars => LockInv'
  <1> SUFFICES ASSUME LockInv, [Next]_vars PROVE LockInv' OBVIOUS
  <1>1. ASSUME NEW c \in Calls, Act(c) PROVE LockInv'
    <2>1. TypeOK' BY <1>1, ActTypes DEF LockInv
    <2>2. CallOK(c)'
      BY <1>1, FreshStaysOK, StatementStaysOK DEF LockInv, Act
    <2>3. \A d \in Calls \ {c} : CallOK(d)' BY <1>1, OthersStayOK DEF LockInv
    <2> QED BY <2>1, <2>2, <2>3 DEF LockInv
  <1>2. CASE UNCHANGED vars
    <2>1. TypeOK'
      BY <1>2 DEF LockInv, TypeOK, vars, rows, Locked
    <2>2. \A c \in Calls : CallOK(c)'
      BY <1>2 DEF LockInv, vars, rows, CallOK, StageOK, SubjectLockOK, PasskeyLocksOK,
         WriterOK, Owned, S, K, Kind
    <2> QED BY <2>1, <2>2 DEF LockInv
  <1> QED BY <1>1, <1>2 DEF Next, Act

\* Every transaction has its variables typed, and holds a connection and rows only
\* between its begin and its end.
THEOREM TransactionTypes == Spec => []TypeOK
  <1>1. LockInv => TypeOK BY DEF LockInv
  <1>2. Init => LockInv BY InitTypes DEF LockInv
  <1> QED BY <1>1, <1>2, NextLocks, PTL DEF Spec

-----------------------------------------------------------------------------
\* No circle of waits

\* A call that waits for a row while it holds its subject waits for nobody but a
\* call that inserts its credential.
LEMMA HolderWaits ==
  ASSUME LockInv, NEW c \in Calls, NEW d \in Calls, pc[c] # "idle",
         lock[S(c)] = c, WaitsFor(c, d)
  PROVE  pc[c] = "insert" \/ pc[d] = "rollback"
  <1>1. TypeOK /\ CallOK(c) /\ CallOK(d) BY DEF LockInv
  <1>2. S(c) \in Subjects BY <1>1, RunningCall
  <1>3. PICK r \in Needed(c) : lock[r] = d /\ d # c BY DEF WaitsFor
  <1>4. CASE pc[c] \in {"ensure", "lock_subject", "write"}
    BY <1>1, <1>3, <1>4 DEF Needed, CallOK, SubjectLockOK
  <1>5. CASE pc[c] \in {"load_passkeys", "lock_passkey"}
    <2>1. r \in Credentials /\ passkeys[r] # NoRow /\ passkeys[r].subject = S(c)
      <3>1. CASE pc[c] = "load_passkeys" BY <1>3, <3>1 DEF Needed, ActiveRows
      <3>2. CASE pc[c] = "lock_passkey"
        <4>1. K(c) \in Credentials BY <1>1, <3>2, RunningCall DEF CallOK, StageOK
        <4> QED BY <1>3, <3>2, <4>1 DEF Needed, Owned
      <3> QED BY <1>5, <3>1, <3>2
    <2>2. lock[S(d)] = d /\ S(d) = S(c)
      BY <1>1, <1>3, <2>1 DEF CallOK, PasskeyLocksOK
    <2> QED BY <1>3, <2>2
  <1>6. CASE pc[c] \in {"idle", "begin", "commit", "rollback", "record", "done"}
    BY <1>3, <1>6 DEF Needed
  <1> QED BY <1>1, <1>4, <1>5, <1>6 DEF TypeOK, Stages

\* A call that waits for the insert of another waits for one that only has to write.
LEMMA InserterWaits ==
  ASSUME LockInv, NEW c \in Calls, NEW d \in Calls, pc[c] = "insert", WaitsFor(c, d)
  PROVE  pc[d] \in {"write", "commit"} /\ lock[S(d)] = d
  <1>1. TypeOK /\ CallOK(c) /\ CallOK(d) BY DEF LockInv
  <1>2. K(c) \in Credentials BY <1>1, RunningCall DEF CallOK, StageOK
  <1>3. lock[K(c)] = d /\ passkeys[K(c)] = NoRow BY DEF WaitsFor, Needed
  <1> QED BY <1>1, <1>2, <1>3 DEF CallOK, PasskeyLocksOK

\* Whoever waits for the row of a subject waits for a call that holds it.
LEMMA SubjectWaits ==
  ASSUME LockInv, NEW c \in Calls, NEW d \in Calls,
         pc[c] \in {"ensure", "lock_subject"}, WaitsFor(c, d)
  PROVE  lock[S(d)] = d
  <1>1. TypeOK /\ CallOK(d) /\ S(c) \in Subjects BY RunningCall DEF LockInv
  <1>2. lock[S(c)] = d BY DEF WaitsFor, Needed
  <1> QED BY <1>1, <1>2 DEF CallOK, SubjectLockOK

\* Subject before passkeys, at most one insert and that after the subject, and no
\* connection while one is held: whatever set of calls one looks at, one of them
\* can go on without the others.
LEMMA LocksPreventDeadlock == LockInv => NoDeadlock
  <1> SUFFICES ASSUME LockInv, NEW waiting \in (SUBSET Calls) \ {{}}, Stuck(waiting)
               PROVE  FALSE
    BY DEF NoDeadlock
  <1>1. TypeOK /\ \A c \in Calls : CallOK(c) BY DEF LockInv
  <1>2. \A c \in waiting :
          \/ \E d \in waiting : WaitsFor(c, d)
          \/ NeedsConnection(c) /\ ~HasConnection /\ connections \subseteq waiting
    BY DEF Stuck
  <1>3. \A c \in waiting : pc[c] # "rollback"
    BY <1>2 DEF WaitsFor, Needed, NeedsConnection
  <1>4. \A c \in waiting : pc[c] \in Open => \E d \in waiting : WaitsFor(c, d)
    BY <1>2 DEF NeedsConnection, Open
  <1>5. \A c \in waiting : pc[c] \in Open => pc[c] # "insert" /\ lock[S(c)] # c
    <2>1. ASSUME NEW c \in waiting, pc[c] \in Open, lock[S(c)] = c, pc[c] # "insert"
          PROVE  FALSE
      BY <1>3, <1>4, <2>1, HolderWaits DEF Open
    <2>2. ASSUME NEW c \in waiting, pc[c] = "insert" PROVE FALSE
      <3>1. PICK d \in waiting : WaitsFor(c, d) BY <1>4, <2>2 DEF Open, Stages
      <3>2. pc[d] \in {"write", "commit"} /\ lock[S(d)] = d BY <2>2, <3>1, InserterWaits
      <3> QED BY <2>1, <3>2 DEF Open, Stages
    <2> QED BY <2>1, <2>2
  <1>6. \A c \in waiting : pc[c] \notin Open
    <2> SUFFICES ASSUME NEW c \in waiting, pc[c] \in Open PROVE FALSE OBVIOUS
    <2>1. lock[S(c)] # c /\ pc[c] # "insert" BY <1>5
    <2>2. pc[c] \in {"ensure", "lock_subject"}
      BY <1>1, <1>3, <2>1 DEF Open, Stages, CallOK, SubjectLockOK, WithSubject
    <2>3. PICK d \in waiting : WaitsFor(c, d) BY <1>4
    <2>4. lock[S(d)] = d BY <2>2, <2>3, SubjectWaits
    <2>5. d \in Calls /\ lock[S(c)] = d
      BY <2>2, <2>3 DEF WaitsFor, Needed
    <2>6. S(c) \in Rows BY <1>1, <2>2, RunningCall
    <2>7. pc[d] \in Open BY <1>1, <2>5, <2>6 DEF TypeOK, Locked
    <2> QED BY <1>5, <2>4, <2>7
  <1>7. PICK c \in waiting : TRUE OBVIOUS
  <1>8. ~HasConnection /\ connections \subseteq waiting
    <2>1. ~\E d \in waiting : WaitsFor(c, d)
      <3> SUFFICES ASSUME NEW d \in waiting, WaitsFor(c, d) PROVE FALSE OBVIOUS
      <3>1. Needed(c) # {} BY DEF WaitsFor
      <3> QED BY <1>1, <1>6, <3>1 DEF Needed, Open, Stages
    <2> QED BY <1>2, <2>1
  <1>9. connections = {} BY <1>1, <1>6, <1>8 DEF TypeOK
  <1>10. Cardinality(connections) = 0 BY <1>9, FS_EmptySet
  <1> QED BY <1>8, <1>10, TransactionAssumption DEF HasConnection

\* Handlers never wait for each other in a circle, whatever the number of handlers,
\* subjects, credentials and connections.
THEOREM TransactionsNeverDeadlock == Spec => []NoDeadlock
  <1>1. Init => LockInv BY InitTypes DEF LockInv
  <1> QED BY <1>1, NextLocks, LocksPreventDeadlock, PTL DEF Spec

-----------------------------------------------------------------------------
\* SubjectTransactions implements AtomicTransactions: a refusal takes effect
\* where the error is found, everything else at the commit, and what a
\* transaction has read is still true there.

Begins == {"begin_registration", "begin_authentication"}

\* What a call has read and checked still holds of the rows.
SeenOK(c) ==
  /\ pc[c] \in WithSubject =>
       /\ seen[c].revision = revision[S(c)]
       /\ ChecksRevision(Kind(c)) => revision[S(c)] = job[c].expected
       /\ Kind(c) # "begin_registration" => S(c) \in subjects
  /\ pc[c] \in {"write", "commit"} =>
       /\ Kind(c) \in Begins => seen[c].active = ActiveRows(S(c))
       /\ Kind(c) \in Begins \cup {"finish_authentication"} =>
            LoadedError(job[c], ActiveRows(S(c))) = "none"

\* A call has no answer before its transaction decides, and a registration only
\* begins on a subject that is there.
WaitingOK(c) ==
  /\ pc[c] \notin {"rollback", "record", "done"} => answer[c] = NoRow
  /\ pc[c] # "idle" /\ Kind(c) = "finish_registration" => S(c) \in subjects

OwnersThere == \A k \in Credentials : passkeys[k] # NoRow => passkeys[k].subject \in subjects

ViewInv ==
  /\ LockInv /\ OwnersThere
  /\ \A c \in Calls : SeenOK(c) /\ WaitingOK(c)

-----------------------------------------------------------------------------
\* What others do leaves the view of a call true

LEMMA SubjectUndisturbed ==
  ASSUME LockInv, NEW c \in Calls, Act(c), NEW s \in Subjects, lock[s] # c
  PROVE  revision'[s] = revision[s] /\ ActiveRows(s)' = ActiveRows(s)
  <1>1. RowsKept(c) /\ PasskeyLocksOK(c) BY ActRows DEF LockInv, CallOK
  <1>2. revision'[s] = revision[s] BY <1>1 DEF RowsKept
  <1>3. ASSUME NEW k \in Credentials, passkeys'[k] # passkeys[k]
        PROVE  /\ passkeys'[k].subject # s
               /\ passkeys[k] = NoRow \/ passkeys[k].subject # s
    BY <1>1, <1>3 DEF RowsKept, PasskeyLocksOK
  <1>4. \A k \in Credentials : k \in ActiveRows(s)' <=> k \in ActiveRows(s)
    BY <1>3 DEF ActiveRows
  <1>5. ActiveRows(s) \subseteq Credentials /\ ActiveRows(s)' \subseteq Credentials
    BY DEF ActiveRows
  <1> QED BY <1>2, <1>4, <1>5

LEMMA OthersKeepView ==
  ASSUME ViewInv, NEW c \in Calls, Act(c), NEW d \in Calls \ {c}
  PROVE  SeenOK(d)' /\ WaitingOK(d)'
  <1>1. LockInv /\ TypeOK /\ CallOK(d) /\ CallOK(c) /\ SeenOK(d) /\ WaitingOK(d)
    BY DEF ViewInv, LockInv
  <1>2. /\ pc'[d] = pc[d] /\ job'[d] = job[d] /\ seen'[d] = seen[d]
        /\ answer'[d] = answer[d]
    BY <1>1, ActOthersKeep DEF OthersKeep
  <1>3. S(d)' = S(d) /\ K(d)' = K(d) /\ Kind(d)' = Kind(d) BY <1>2 DEF S, K, Kind
  <1>4. RowsKept(c) BY <1>1, ActRows
  <1>5. subjects \subseteq subjects' BY <1>4 DEF RowsKept
  <1>6. WaitingOK(d)' BY <1>1, <1>2, <1>3, <1>5 DEF WaitingOK
  <1>7. SeenOK(d)'
    <2>1. CASE pc[d] \notin WithSubject
      BY <1>2, <2>1 DEF SeenOK, WithSubject
    <2>2. CASE pc[d] \in WithSubject
      <3>1. S(d) \in Subjects /\ lock[S(d)] = d
        BY <1>1, <2>2, RunningCall DEF WithSubject, CallOK, SubjectLockOK
      <3>2. revision'[S(d)] = revision[S(d)] /\ ActiveRows(S(d))' = ActiveRows(S(d))
        <4>1. PICK s \in Subjects : s = S(d) BY <3>1
        <4>2. revision'[s] = revision[s] /\ ActiveRows(s)' = ActiveRows(s)
          BY <1>1, <3>1, <4>1, SubjectUndisturbed
        <4> QED BY <1>3, <4>1, <4>2 DEF ActiveRows
      <3>3. /\ pc'[d] \in WithSubject
            /\ seen'[d].revision = revision'[S(d)]
            /\ ChecksRevision(Kind(d)) => revision'[S(d)] = job'[d].expected
            /\ Kind(d) # "begin_registration" => S(d) \in subjects'
        BY <1>1, <1>2, <1>5, <2>2, <3>2 DEF SeenOK
      <3>4. ASSUME pc[d] \in {"write", "commit"},
                   Kind(d) \in Begins \cup {"finish_authentication"}
            PROVE  LoadedError(job[d], ActiveRows(S(d)))' = "none"
        <4>1. LoadedError(job[d], ActiveRows(S(d))) = "none" BY <1>1, <3>4 DEF SeenOK
        <4>2. CASE Kind(d) \in Begins
          BY <1>2, <3>2, <4>1, <4>2 DEF LoadedError, Kind, Begins
        <4>3. CASE Kind(d) = "finish_authentication"
          <5>1. K(d) \in Credentials /\ lock[K(d)] = d
            BY <1>1, <3>4, <4>3, RunningCall DEF CallOK, WriterOK
          <5>2. passkeys'[K(d)] = passkeys[K(d)] BY <1>4, <5>1 DEF RowsKept
          <5> QED BY <1>2, <3>2, <4>1, <4>3, <5>2 DEF LoadedError, Kind, K
        <4> QED BY <3>4, <4>2, <4>3
      <3>5. pc[d] \in {"write", "commit"} /\ Kind(d) \in Begins =>
              seen'[d].active = ActiveRows(S(d))'
        BY <1>1, <1>2, <3>2 DEF SeenOK
      <3> QED BY <1>2, <1>3, <3>3, <3>4, <3>5 DEF SeenOK
    <2> QED BY <2>1, <2>2
  <1> QED BY <1>6, <1>7

-----------------------------------------------------------------------------
\* A call's own steps

LEMMA OwnView ==
  ASSUME ViewInv, NEW c \in Calls, Act(c)
  PROVE  SeenOK(c)' /\ WaitingOK(c)'
  <1>1. LockInv /\ TypeOK /\ CallOK(c) /\ SeenOK(c) /\ WaitingOK(c)
    BY DEF ViewInv, LockInv
  <1> USE <1>1 DEF GoTo, rows
  <1>2. /\ pc \in [Calls -> Stages] /\ job \in [Calls -> Jobs \cup {NoRow}]
        /\ answer \in [Calls -> Reading \cup [error: Codes] \cup {NoRow}]
        /\ seen \in [Calls -> Reading]
    BY DEF TypeOK
  <1>3. CASE Start(c)
    BY <1>2, <1>3 DEF Start, SeenOK, WaitingOK, WithSubject, TypeOK, Kind, S
  <1>4. CASE End(c)
    BY <1>2, <1>4 DEF End, SeenOK, WaitingOK, WithSubject
  <1>5. CASE Statement(c)
    <2>1. /\ job' = job /\ pc[c] # "idle"
      BY <1>5 DEF Statement, BeginTransaction, EnsureSubject, MissSubject, LockSubject,
         LockNextPasskey, LoadPasskeys, InsertPasskey, LockPasskey, Write,
         CommitTransaction, Rollback, Record
    <2>2. /\ S(c) \in Subjects /\ Kind(c) \in Kinds
          /\ S(c)' = S(c) /\ K(c)' = K(c) /\ Kind(c)' = Kind(c)
      BY <2>1, RunningCall DEF S, K, Kind
    <2>3. ASSUME UNCHANGED <<subjects, revision, passkeys, job>>
          PROVE  /\ ActiveRows(S(c))' = ActiveRows(S(c))
                 /\ LoadedError(job[c], ActiveRows(S(c)))'
                      = LoadedError(job[c], ActiveRows(S(c)))
      <3>1. ActiveRows(S(c))' = ActiveRows(S(c)) BY <2>2, <2>3 DEF ActiveRows
      <3> QED BY <2>3, <3>1 DEF LoadedError
    <2> USE <1>2, <2>1, <2>2
    <2>4. CASE BeginTransaction(c)
      BY <2>4 DEF BeginTransaction, Proceed, After, SeenOK, WaitingOK, WithSubject
    <2>5. CASE EnsureSubject(c)
      BY <2>5 DEF EnsureSubject, Proceed, After, SeenOK, WaitingOK, WithSubject
    <2>6. CASE MissSubject(c) \/ Rollback(c) \/ Record(c) \/ CommitTransaction(c)
      <3>1. pc'[c] \in {"rollback", "record", "done"}
        BY <2>6 DEF MissSubject, Rollback, Record, CommitTransaction, Refuse
      <3>2. subjects \subseteq subjects' BY <1>5, ActRows DEF RowsKept, Act
      <3> QED BY <3>1, <3>2 DEF SeenOK, WaitingOK, WithSubject
    <2>7. CASE LockSubject(c)
      <3>1. /\ UNCHANGED rows /\ pc[c] = "lock_subject"
            /\ S(c) \in subjects \/ Kind(c) = "begin_registration"
            /\ seen'[c].revision = revision[S(c)]
        BY <2>7 DEF LockSubject, ReadSubject, SubjectVisible, CallOK, SubjectLockOK,
           TypeOK, Reading
      <3>2. CASE Refuse(c, "revision_conflict")
        BY <3>1, <3>2 DEF Refuse, SeenOK, WaitingOK, WithSubject
      <3>3. CASE /\ ChecksRevision(Kind(c)) => revision[S(c)] = job[c].expected
                 /\ Proceed(c)
        BY <3>1, <3>3 DEF Proceed, After, SeenOK, WaitingOK, WithSubject
      <3> QED BY <2>7, <3>2, <3>3 DEF LockSubject, ReadSubject, Kind
    <2>8. CASE LockNextPasskey(c)
      BY <2>3, <2>8 DEF LockNextPasskey, SeenOK, WaitingOK
    <2>9. CASE LoadPasskeys(c)
      <3>1. /\ UNCHANGED rows /\ pc[c] = "load_passkeys"
            /\ seen'[c].revision = seen[c].revision
            /\ seen'[c].active = ActiveRows(S(c))
        BY <2>9 DEF LoadPasskeys, Reading
      <3>2. CASE Refuse(c, LoadedError(job[c], ActiveRows(S(c))))
        BY <3>1, <3>2 DEF Refuse, SeenOK, WaitingOK, WithSubject
      <3>3. CASE LoadedError(job[c], ActiveRows(S(c))) = "none" /\ Proceed(c)
        <4>1. pc'[c] = "write" /\ answer' = answer
          BY <3>1, <3>3 DEF Proceed, After
        <4> QED BY <2>3, <3>1, <3>3, <4>1 DEF SeenOK, WaitingOK, WithSubject
      <3> QED BY <2>9, <3>2, <3>3 DEF LoadPasskeys
    <2>10. CASE InsertPasskey(c) \/ LockPasskey(c)
      <3>1. /\ UNCHANGED <<rows, seen>> /\ pc[c] \in {"insert", "lock_passkey"}
            /\ Kind(c) \in {"finish_registration", "revoke_passkey"}
        BY <2>10 DEF InsertPasskey, LockPasskey, CallOK, StageOK
      <3>2. CASE \E code \in Codes : Refuse(c, code)
        BY <3>1, <3>2 DEF Refuse, SeenOK, WaitingOK, WithSubject
      <3>3. CASE Proceed(c)
        BY <3>1, <3>3 DEF Proceed, After, SeenOK, WaitingOK, WithSubject, Begins
      <3> QED BY <2>10, <3>2, <3>3 DEF InsertPasskey, LockPasskey, Codes
    <2>11. CASE Write(c)
      <3>1. /\ UNCHANGED <<rows, seen, answer>> /\ pc[c] = "write" /\ pc'[c] = "commit"
        BY <2>11 DEF Write, Proceed, After
      <3> QED BY <2>3, <3>1 DEF SeenOK, WaitingOK, WithSubject
    <2> QED
      BY <1>5, <2>4, <2>5, <2>6, <2>7, <2>8, <2>9, <2>10, <2>11 DEF Statement
  <1> QED BY <1>3, <1>4, <1>5 DEF Act

LEMMA ActOwners == ASSUME ViewInv, NEW c \in Calls, Act(c) PROVE OwnersThere'
  <1>1. LockInv /\ TypeOK /\ CallOK(c) /\ SeenOK(c) /\ OwnersThere
    BY DEF ViewInv, LockInv
  <1>2. RowsKept(c) BY <1>1, ActRows
  <1>3. ASSUME NEW k \in Credentials, passkeys'[k] # passkeys[k]
        PROVE  S(c) \in subjects'
    <2>1. CommitTransaction(c)
      BY <1>3 DEF Act, Start, End, Statement, BeginTransaction, EnsureSubject, MissSubject,
         LockSubject, LockNextPasskey, LoadPasskeys, InsertPasskey, LockPasskey, Write,
         Rollback, Record, rows
    <2>2. Kind(c) # "begin_registration"
      BY <1>3, <2>1 DEF CommitTransaction, Effect, Kind
    <2>3. S(c) \in subjects
      BY <1>1, <2>1, <2>2 DEF CommitTransaction, SeenOK, WithSubject
    <2> QED BY <1>2, <2>3 DEF RowsKept
  <1> QED BY <1>1, <1>2, <1>3 DEF RowsKept, OwnersThere

LEMMA InitView == Init => ViewInv
  <1> SUFFICES ASSUME Init PROVE ViewInv OBVIOUS
  <1>1. LockInv BY InitTypes DEF LockInv
  <1>2. OwnersThere BY DEF Init, OwnersThere
  <1>3. ASSUME NEW c \in Calls PROVE SeenOK(c) /\ WaitingOK(c)
    BY DEF Init, SeenOK, WaitingOK, WithSubject
  <1> QED BY <1>1, <1>2, <1>3 DEF ViewInv

LEMMA NextView == ViewInv /\ [Next]_vars => ViewInv'
  <1> SUFFICES ASSUME ViewInv, [Next]_vars PROVE ViewInv' OBVIOUS
  <1>1. LockInv' BY NextLocks DEF ViewInv
  <1>2. ASSUME NEW c \in Calls, Act(c) PROVE ViewInv'
    BY <1>1, <1>2, OthersKeepView, OwnView, ActOwners DEF ViewInv
  <1>3. CASE UNCHANGED vars
    <2>1. ASSUME NEW c \in Calls PROVE SeenOK(c)' /\ WaitingOK(c)'
      <3>1. SeenOK(c) /\ WaitingOK(c) BY DEF ViewInv
      <3>2. ActiveRows(S(c))' = ActiveRows(S(c)) BY <1>3 DEF vars, rows, ActiveRows, S
      <3>3. LoadedError(job[c], ActiveRows(S(c)))' = LoadedError(job[c], ActiveRows(S(c)))
        BY <1>3, <3>2 DEF vars, rows, LoadedError
      <3> QED BY <1>3, <3>1, <3>2, <3>3 DEF SeenOK, WaitingOK, vars, rows, S, Kind
    <2> QED BY <1>1, <1>3, <2>1 DEF ViewInv, OwnersThere, vars, rows
  <1> QED BY <1>2, <1>3 DEF Next, Act

-----------------------------------------------------------------------------
\* Each step is a step of AtomicTransactions

LEMMA SameActive == \A s \in Subjects : Atomic!Active(s) = ActiveRows(s)
  BY DEF Atomic!Active, ActiveRows

\* A refusal that the rows of the moment justify.
\* The two modules reach the library's Cardinality by different paths.
LEMMA SameCardinality == \A T : Atomic!Cardinality(T) = Cardinality(T)
  BY DEF Atomic!Cardinality, Cardinality

LEMMA RefusalStep ==
  ASSUME NEW c \in Calls, TypeOK, pc[c] # "idle", answer[c] = NoRow,
         UNCHANGED <<rows, job>>, NEW code,
         code # "none", Atomic!ErrorOf(job[c]) = code,
         answer' = [answer EXCEPT ![c] = [error |-> code]]
  PROVE  Atomic!Next
  <1>1. job[c] # NoRow BY RunningCall, JobFields
  <1>2. Atomic!Refuse(c) BY <1>1 DEF Atomic!Refuse, Atomic!data, rows
  <1> QED BY <1>2 DEF Atomic!Next

LEMMA CommitStep ==
  ASSUME ViewInv, NEW c \in Calls, CommitTransaction(c)
  PROVE  Atomic!Next
  <1>1. LockInv /\ TypeOK /\ CallOK(c) /\ SeenOK(c) /\ WaitingOK(c)
    BY DEF ViewInv, LockInv
  <1>2. /\ pc[c] = "commit" /\ Effect(c) /\ job' = job
        /\ answer' = [answer EXCEPT ![c] =
             [revision |-> seen[c].revision + Advanced(c),
              active |-> IF Kind(c) \in Begins THEN seen[c].active ELSE {}]]
    BY DEF CommitTransaction, Kind, Begins
  <1>3. /\ job[c] \in Jobs /\ job[c] # NoRow /\ answer[c] = NoRow
        /\ Kind(c) \in Kinds /\ S(c) \in Subjects
        /\ Kind(c) \in {"finish_registration", "finish_authentication", "revoke_passkey"} =>
             K(c) \in Credentials
    BY <1>1, <1>2, RunningCall, JobFields DEF WaitingOK
  <1>4. /\ seen[c].revision = revision[S(c)] /\ revision[S(c)] \in Nat
        /\ ChecksRevision(Kind(c)) => revision[S(c)] = job[c].expected
        /\ Kind(c) # "begin_registration" => S(c) \in subjects
        /\ Kind(c) \in Begins => seen[c].active = Atomic!Active(S(c))
    BY <1>1, <1>2, <1>3, SameActive DEF SeenOK, WithSubject, TypeOK
  <1>5. Kind(c) \in Begins \cup {"finish_authentication"} =>
          LoadedError(job[c], Atomic!Active(S(c))) = "none"
    BY <1>1, <1>2, <1>3, SameActive DEF SeenOK
  <1>6. /\ Atomic!ErrorOf(job[c]) = "none"
        /\ Atomic!Effect(job[c])
        /\ revision'[S(c)] = revision[S(c)] + Advanced(c)
    <2> USE <1>3, <1>4, <1>5 DEF Kind, S, K
    <2>0. revision \in [Subjects -> Nat] BY <1>1 DEF TypeOK
    <2>1. CASE Kind(c) = "begin_registration"
      <3>1. Atomic!ErrorOf(job[c]) = "none"
        <4>1. revision[S(c)] = job[c].expected BY <2>1 DEF ChecksRevision
        <4>2. ~(Cardinality(Atomic!Active(S(c))) >= MaxPasskeys)
          BY <2>1, SameCardinality DEF LoadedError, Begins
        <4> QED BY <2>1, SameCardinality, <4>1, <4>2 DEF Atomic!ErrorOf
      <3>2. Atomic!Effect(job[c]) /\ UNCHANGED revision
        BY <1>2, <2>1 DEF Effect, Atomic!Effect, Atomic!Begin, Atomic!Begins
      <3>3. Advanced(c) = 0 BY <2>1 DEF Advanced
      <3> QED BY <3>1, <3>2, <3>3
    <2>2. CASE Kind(c) = "begin_authentication"
      <3>1. Atomic!ErrorOf(job[c]) = "none"
        BY <2>2 DEF Atomic!ErrorOf, LoadedError, Begins
      <3>2. Atomic!Effect(job[c]) /\ UNCHANGED revision
        BY <1>2, <2>2 DEF Effect, Atomic!Effect, Atomic!Begin, Atomic!Begins, rows
      <3>3. Advanced(c) = 0 BY <2>2 DEF Advanced
      <3> QED BY <3>1, <3>2, <3>3
    <2>3. CASE Kind(c) = "finish_registration"
      <3>1. passkeys[K(c)] = NoRow BY <1>1, <1>2, <2>3 DEF CallOK, WriterOK
      <3>2. Atomic!ErrorOf(job[c]) = "none"
        BY <2>3, <3>1 DEF Atomic!ErrorOf, ChecksRevision
      <3>3. Atomic!Effect(job[c]) /\ revision' = [revision EXCEPT ![S(c)] = @ + 1]
        BY <1>2, <2>3 DEF Effect, Advance, Atomic!Effect, Atomic!Enroll, Atomic!Advance,
                          Atomic!Begins
      <3>4. Advanced(c) = 1 BY <2>3 DEF Advanced
      <3> QED BY <2>0, <3>2, <3>3, <3>4
    <2>4. CASE Kind(c) = "finish_authentication"
      <3>1. Atomic!ErrorOf(job[c]) = "none"
        BY <2>4 DEF Atomic!ErrorOf, LoadedError, Atomic!Stale, StaleCounter
      <3>2. Atomic!Effect(job[c]) /\ revision' = [revision EXCEPT ![S(c)] = @ + 1]
        BY <1>2, <2>4 DEF Effect, Advance, Greatest, Atomic!Effect, Atomic!Use,
                          Atomic!Advance, Atomic!Greater, Atomic!Begins
      <3>3. Advanced(c) = 1 BY <2>4 DEF Advanced
      <3> QED BY <2>0, <3>1, <3>2, <3>3
    <2>5. CASE Kind(c) = "revoke_passkey"
      <3>1. passkeys[K(c)] # NoRow /\ passkeys[K(c)].subject = S(c)
        BY <1>1, <1>2, <2>5 DEF CallOK, WriterOK, Owned
      <3>2. Atomic!ErrorOf(job[c]) = "none"
        BY <2>5, <3>1 DEF Atomic!ErrorOf, ChecksRevision
      <3>3. CASE passkeys[K(c)].revoked
        <4>1. UNCHANGED rows BY <1>2, <2>5, <3>3 DEF Effect
        <4>2. Atomic!Effect(job[c])
          BY <2>5, <3>3, <4>1 DEF rows, Atomic!Effect, Atomic!Retire, Atomic!Begins
        <4>3. Advanced(c) = 0 BY <2>5, <3>3 DEF Advanced
        <4> QED BY <3>2, <4>1, <4>2, <4>3 DEF rows
      <3>4. CASE ~passkeys[K(c)].revoked
        <4>1. /\ passkeys' = [passkeys EXCEPT ![K(c)].revoked = TRUE]
              /\ revision' = [revision EXCEPT ![S(c)] = @ + 1] /\ UNCHANGED subjects
          BY <1>2, <2>5, <3>4 DEF Effect, Advance
        <4>2. Atomic!Effect(job[c])
          BY <2>5, <3>4, <4>1 DEF Atomic!Effect, Atomic!Retire, Atomic!Advance, Atomic!Begins
        <4>3. Advanced(c) = 1 BY <2>5, <3>4 DEF Advanced
        <4> QED BY <2>0, <3>2, <4>1, <4>2, <4>3
      <3> QED BY <3>3, <3>4
    <2> QED BY <2>1, <2>2, <2>3, <2>4, <2>5 DEF Kinds
  <1>7. answer' = [answer EXCEPT ![c] =
          [revision |-> revision'[job[c].subject],
           active |-> IF job[c].kind \in Atomic!Begins THEN Atomic!Active(job[c].subject)
                      ELSE {}]]
    <2>1. Begins = Atomic!Begins BY DEF Begins, Atomic!Begins
    <2>2. CASE Kind(c) \in Begins BY <1>2, <1>4, <1>6, <2>1, <2>2 DEF Kind, S
    <2>3. CASE Kind(c) \notin Begins BY <1>2, <1>4, <1>6, <2>1, <2>3 DEF Kind, S
    <2> QED BY <2>2, <2>3
  <1>8. Atomic!Commit(c) BY <1>2, <1>3, <1>6, <1>7 DEF Atomic!Commit
  <1> QED BY <1>8 DEF Atomic!Next

LEMMA StatementStep ==
  ASSUME ViewInv, NEW c \in Calls, Statement(c)
  PROVE  Atomic!Next \/ UNCHANGED Atomic!vars
  <1>1. LockInv /\ TypeOK /\ CallOK(c) /\ SeenOK(c) /\ WaitingOK(c) /\ OwnersThere
    BY DEF ViewInv, LockInv
  <1>2. CASE CommitTransaction(c) BY <1>2, CommitStep
  <1>3. CASE ~CommitTransaction(c)
    <2>1. UNCHANGED <<rows, job>> /\ pc[c] # "idle"
      BY <1>3 DEF Statement, BeginTransaction, EnsureSubject, MissSubject, LockSubject,
         LockNextPasskey, LoadPasskeys, InsertPasskey, LockPasskey, Write, Rollback, Record
    <2>2. /\ Kind(c) \in Kinds /\ S(c) \in Subjects
          /\ Kind(c) \in {"finish_registration", "finish_authentication", "revoke_passkey"} =>
               K(c) \in Credentials
      BY <1>1, <2>1, RunningCall
    <2>3. CASE UNCHANGED answer BY <2>1, <2>3 DEF Atomic!vars, Atomic!data, rows
    <2>4. ASSUME NEW code, Refuse(c, code), code # "none", Atomic!ErrorOf(job[c]) = code,
                 pc[c] \in {"lock_subject", "load_passkeys", "insert", "lock_passkey"}
          PROVE  Atomic!Next
      BY <1>1, <2>1, <2>4, RefusalStep DEF Refuse, WaitingOK
    <2> USE <2>2 DEF Kind, S, K
    <2>5. CASE MissSubject(c)
      <3>1. /\ pc[c] = "lock_subject" /\ S(c) \notin subjects
            /\ Kind(c) \in {"begin_authentication", "finish_authentication", "revoke_passkey"}
            /\ Refuse(c, MissingCode(Kind(c)))
        BY <2>5 DEF MissSubject, SubjectVisible
      <3>2. Atomic!Active(S(c)) = {}
        BY <1>1, <3>1 DEF Atomic!Active, OwnersThere
      <3>3. Atomic!ErrorOf(job[c]) = MissingCode(Kind(c))
        BY <3>1, <3>2 DEF Atomic!ErrorOf, MissingCode
      <3> QED BY <2>4, <3>1, <3>3 DEF MissingCode
    <2>6. CASE LockSubject(c)
      <3>1. CASE Refuse(c, "revision_conflict") /\ ChecksRevision(Kind(c))
                 /\ revision[S(c)] # job[c].expected
        <4>1. pc[c] = "lock_subject"
              /\ (Kind(c) = "revoke_passkey" => S(c) \in subjects)
          BY <1>1, <2>6 DEF LockSubject, SubjectVisible, CallOK, SubjectLockOK
        <4>2. Atomic!ErrorOf(job[c]) = "revision_conflict"
          BY <3>1, <4>1 DEF Atomic!ErrorOf, ChecksRevision
        <4> QED BY <2>4, <3>1, <4>1, <4>2
      <3>2. CASE Proceed(c) BY <2>3, <3>2 DEF Proceed
      <3> QED BY <2>6, <3>1, <3>2 DEF LockSubject, ReadSubject
    <2>7. CASE LoadPasskeys(c)
      <3>1. CASE /\ LoadedError(job[c], ActiveRows(S(c))) # "none"
                 /\ Refuse(c, LoadedError(job[c], ActiveRows(S(c))))
        <4>1. /\ pc[c] = "load_passkeys"
              /\ Kind(c) \in {"begin_registration", "begin_authentication",
                             "finish_authentication"}
              /\ ChecksRevision(Kind(c)) => revision[S(c)] = job[c].expected
              /\ Atomic!Active(S(c)) = ActiveRows(S(c))
          BY <1>1, <2>7, SameActive
             DEF LoadPasskeys, CallOK, StageOK, SeenOK, WithSubject
        <4>2. Atomic!ErrorOf(job[c]) = LoadedError(job[c], Atomic!Active(S(c)))
          BY <4>1, SameCardinality
             DEF Atomic!ErrorOf, LoadedError, Atomic!Stale, StaleCounter, ChecksRevision
        <4> QED BY <2>4, <3>1, <4>1, <4>2
      <3>2. CASE Proceed(c) BY <2>3, <3>2 DEF Proceed
      <3> QED BY <2>7, <3>1, <3>2 DEF LoadPasskeys
    <2>8. CASE InsertPasskey(c)
      <3>1. CASE passkeys[K(c)] # NoRow /\ Refuse(c, "credential_exists")
        <4>1. /\ pc[c] = "insert" /\ Kind(c) = "finish_registration"
              /\ revision[S(c)] = job[c].expected
          BY <1>1, <2>8 DEF InsertPasskey, CallOK, StageOK, SeenOK, WithSubject,
             ChecksRevision
        <4>2. Atomic!ErrorOf(job[c]) = "credential_exists"
          BY <3>1, <4>1 DEF Atomic!ErrorOf
        <4> QED BY <2>4, <3>1, <4>1, <4>2
      <3>2. CASE Proceed(c) BY <2>3, <3>2 DEF Proceed
      <3> QED BY <2>8, <3>1, <3>2 DEF InsertPasskey
    <2>9. CASE LockPasskey(c)
      <3>1. CASE ~Owned(c) /\ Refuse(c, "passkey_not_found")
        <4>1. /\ pc[c] = "lock_passkey" /\ Kind(c) = "revoke_passkey"
              /\ revision[S(c)] = job[c].expected /\ S(c) \in subjects
          BY <1>1, <2>9 DEF LockPasskey, CallOK, StageOK, SeenOK, WithSubject,
             ChecksRevision
        <4>2. Atomic!ErrorOf(job[c]) = "passkey_not_found"
          BY <3>1, <4>1 DEF Atomic!ErrorOf, Owned
        <4> QED BY <2>4, <3>1, <4>1, <4>2
      <3>2. CASE Proceed(c) BY <2>3, <3>2 DEF Proceed
      <3> QED BY <2>9, <3>1, <3>2 DEF LockPasskey
    <2>10. CASE BeginTransaction(c) \/ EnsureSubject(c) \/ LockNextPasskey(c) \/ Write(c)
                \/ Rollback(c) \/ Record(c)
      BY <2>3, <2>10 DEF BeginTransaction, EnsureSubject, LockNextPasskey, Write, Rollback,
                         Record, Proceed
    <2> QED BY <1>3, <2>5, <2>6, <2>7, <2>8, <2>9, <2>10 DEF Statement
  <1> QED BY <1>2, <1>3

LEMMA NextStep == ViewInv /\ [Next]_vars => [Atomic!Next]_(Atomic!vars)
  <1> SUFFICES ASSUME ViewInv, [Next]_vars PROVE Atomic!Next \/ UNCHANGED Atomic!vars
    OBVIOUS
  <1>1. ASSUME NEW c \in Calls, Start(c) PROVE Atomic!Next
    <2>1. job[c] = NoRow BY <1>1 DEF ViewInv, LockInv, CallOK, StageOK, Start
    <2>2. PICK j \in Jobs : Atomic!Start(c, j)
      BY <1>1, <2>1 DEF Start, Atomic!Start, Atomic!data, rows
    <2> QED BY <2>2 DEF Atomic!Next
  <1>2. ASSUME NEW c \in Calls, End(c) PROVE Atomic!Next
    <2>1. job[c] # NoRow
      BY <1>2, RunningCall, JobFields DEF ViewInv, LockInv, End
    <2>2. Atomic!End(c) BY <1>2, <2>1 DEF End, Atomic!End, Atomic!data, rows
    <2> QED BY <2>2 DEF Atomic!Next
  <1>3. CASE UNCHANGED vars BY <1>3 DEF vars, rows, Atomic!vars, Atomic!data
  <1> QED BY <1>1, <1>2, <1>3, StatementStep DEF Next

\* Each transaction decides on the rows as they are at one instant and takes effect
\* at that instant, for any number of handlers, subjects, credentials and connections.
THEOREM TransactionsAreAtomic == Spec => ImplementsAtomicTransactions
  <1>1. Init => Atomic!Init BY DEF Init, Atomic!Init
  <1> QED
    BY <1>1, InitView, NextView, NextStep, PTL
       DEF Spec, ImplementsAtomicTransactions, Atomic!Spec

=============================================================================
