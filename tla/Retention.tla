------------------------------ MODULE Retention ------------------------------
(***************************************************************************)
(* Deadlines and retention on clocks.  PasskeyPlugin lets any old row go   *)
(* at any time; here rows are as old as the clocks say: a ceremony expires *)
(* by the clock of the instance that minted it or that finishes it, prune  *)
(* and completed_at go by the clock of the database, and completed_at is   *)
(* the time at which the completing transaction began.                     *)
(*                                                                         *)
(* receipt_ttl_seconds may exceed challenge_ttl_seconds by as little as a  *)
(* second, so nothing here supposes that the difference covers skew and    *)
(* waits: the properties say how much of a ceremony's life it covers.      *)
(***************************************************************************)
EXTENDS Integers

CONSTANTS
  Calls,
  Begins, Finishes,  \* commands: one request under one idempotency key each
  ChallengeIds,
  Target,            \* the ceremony each finish names
  Instances,         \* Plugin processes
  Database,          \* the clock of the database
  Offset,            \* how far each clock is ahead of the true time
  ChallengeTtl, ReceiptTtl,
  Grace,             \* the day for which prune spares an expired challenge
  MaxSkew,           \* how far two clocks are apart at most
  MaxWait,           \* how long a transaction waits for its locks at most
  MaxTime,           \* bound of the runs
  NoRow

VARIABLES
  now,         \* true time
  challenges,  \* passkey_challenges: deadline and whether consumed
  commands,    \* passkey_commands: completed_at, null until then
  pc, command, host,
  deadline,    \* expires_at of the row that each finish has consumed
  started,     \* now() in the transaction of each call
  issued,      \* history: command and deadline of every ceremony
  spentBy,     \* history: the command that consumed each ceremony
  settled      \* history: the last completion of each command

tables == <<challenges, commands>>
calls == <<pc, command, host, deadline, started>>
history == <<issued, spentBy, settled>>
vars == <<now, tables, calls, history>>

Commands == Begins \cup Finishes

Clocks == Instances \cup {Database}

Challenge == [expires: Int, consumed: BOOLEAN]
Receipt == [completedAt: Int \cup {NoRow}]
Ceremony == [command: Begins, expires: Int]

ASSUME CommandsAssumption ==
  /\ Begins \cap Finishes = {} /\ Target \in [Finishes -> ChallengeIds]
  /\ NoRow \notin Commands \cup Int \cup Challenge \cup Receipt \cup Ceremony

\* receipt_ttl_seconds > challenge_ttl_seconds, from PasskeyAuthConfig::validate
ASSUME TtlAssumption ==
  ChallengeTtl \in Nat \ {0} /\ ReceiptTtl \in Nat /\ ReceiptTtl > ChallengeTtl

\* What MaxSkew and MaxWait measure; nothing bounds them from above.
ASSUME ClockAssumption ==
  /\ Offset \in [Clocks -> Nat]
  /\ MaxSkew \in Nat /\ MaxWait \in Nat /\ Grace \in Nat
  /\ \A i, j \in Clocks : Offset[i] - Offset[j] <= MaxSkew

Clock(i) == now + Offset[i]

GoTo(c, stage) == pc' = [pc EXCEPT ![c] = stage]

Complete(k, time) ==
  /\ commands' = [commands EXCEPT ![k] = [completedAt |-> time]]
  /\ settled' = [settled EXCEPT ![k] = time]

Receive(c) ==
  /\ pc[c] = "idle"
  /\ \E k \in Commands, i \in Instances :
       /\ command' = [command EXCEPT ![c] = k]
       /\ host' = [host EXCEPT ![c] = i]
       /\ GoTo(c, IF k \in Begins THEN "prune_challenges" ELSE "claim")
  /\ UNCHANGED <<now, tables, deadline, started, history>>

\* The handler has answered, failed or is lost.
End(c) ==
  /\ pc[c] # "idle"
  /\ GoTo(c, "idle")
  /\ command' = [command EXCEPT ![c] = NoRow]
  /\ host' = [host EXCEPT ![c] = NoRow]
  /\ deadline' = [deadline EXCEPT ![c] = 0]
  /\ started' = [started EXCEPT ![c] = 0]
  /\ UNCHANGED <<now, tables, history>>

-----------------------------------------------------------------------------
\* Mutant of DueChallenge: no day of grace.
DueChallengeAtOnce(x) ==
  challenges[x] # NoRow /\ challenges[x].expires < Clock(Database)

\* DELETE ... WHERE expires_at < now() - interval '1 day'
DueChallenge(x) ==
  challenges[x] # NoRow /\ challenges[x].expires < Clock(Database) - Grace

PruneChallenges(c) ==
  /\ pc[c] = "prune_challenges"
  /\ challenges' = [x \in ChallengeIds |-> IF DueChallenge(x) THEN NoRow ELSE challenges[x]]
  /\ GoTo(c, "prune_commands")
  /\ UNCHANGED <<now, commands, command, host, deadline, started, history>>

Completed(k) == commands[k] # NoRow /\ commands[k].completedAt # NoRow

\* Mutants of DueReceipt: prune is given challenge_ttl, or completed_at is compared
\* with now() alone.
DueReceiptByChallengeTtl(k) ==
  Completed(k) /\ commands[k].completedAt < Clock(Database) - ChallengeTtl

DueReceiptAtOnce(k) == Completed(k) /\ commands[k].completedAt < Clock(Database)

\* DELETE ... WHERE completed_at < now() - make_interval(secs => receipt_ttl)
DueReceipt(k) == Completed(k) /\ commands[k].completedAt < Clock(Database) - ReceiptTtl

PruneCommands(c) ==
  /\ pc[c] = "prune_commands"
  /\ commands' = [k \in Commands |-> IF DueReceipt(k) THEN NoRow ELSE commands[k]]
  /\ GoTo(c, "claim")
  /\ UNCHANGED <<now, challenges, command, host, deadline, started, history>>

\* INSERT ... ON CONFLICT DO NOTHING
Claim(c) ==
  /\ pc[c] = "claim"
  /\ \/ /\ commands[command[c]] = NoRow
        /\ commands' = [commands EXCEPT ![command[c]] = [completedAt |-> NoRow]]
        /\ GoTo(c, IF command[c] \in Begins THEN "begin" ELSE "consume")
     \/ commands[command[c]] # NoRow /\ GoTo(c, "load") /\ UNCHANGED commands
  /\ UNCHANGED <<now, challenges, command, host, deadline, started, history>>

\* The SELECT after an INSERT that found the row, and the answer from it.  If the
\* row is gone by now, fetch_one fails and the call ends without an answer.
Load(c) ==
  /\ pc[c] = "load"
  /\ commands[command[c]] # NoRow
  /\ GoTo(c, "done")
  /\ UNCHANGED <<now, tables, command, host, deadline, started, history>>

\* pool().begin(): now() stands still from here to the commit.
StartTransaction(c) ==
  /\ pc[c] = "begin"
  /\ started' = [started EXCEPT ![c] = Clock(Database)]
  /\ GoTo(c, "transaction")
  /\ UNCHANGED <<now, tables, command, host, deadline, history>>

\* With the locks it waited for, the begin draws the deadline from its own clock
\* and commits ceremony and receipt.
CommitBegin(c) ==
  /\ pc[c] = "transaction"
  /\ command[c] \in Begins
  /\ \E x \in {y \in ChallengeIds : issued[y] = NoRow} :
       LET expires == Clock(host[c]) + ChallengeTtl IN
         /\ challenges' = [challenges EXCEPT ![x] = [expires |-> expires, consumed |-> FALSE]]
         /\ issued' = [issued EXCEPT ![x] = [command |-> command[c], expires |-> expires]]
  /\ Complete(command[c], started[c])
  /\ GoTo(c, "done")
  /\ UNCHANGED <<now, command, host, deadline, started, spentBy>>

\* consume_challenge: the row is gone or used, or the call has it for itself.
Consume(c) ==
  LET x == Target[command[c]] IN
    /\ pc[c] = "consume"
    /\ \/ /\ challenges[x] = NoRow \/ (challenges[x] # NoRow /\ challenges[x].consumed)
          /\ GoTo(c, "record")
          /\ UNCHANGED <<challenges, deadline, spentBy>>
       \/ /\ challenges[x] # NoRow /\ ~challenges[x].consumed
          /\ challenges' = [challenges EXCEPT ![x].consumed = TRUE]
          /\ spentBy' = [spentBy EXCEPT ![x] = command[c]]
          /\ deadline' = [deadline EXCEPT ![c] = challenges[x].expires]
          /\ GoTo(c, "check")
    /\ UNCHANGED <<now, commands, command, host, started, issued, settled>>

\* expires_at of the returned row against a clock read after the await; a refusal is
\* recorded in a statement of its own.
CheckDeadline(c) ==
  /\ pc[c] = "check"
  /\ GoTo(c, IF Clock(host[c]) >= deadline[c] THEN "record" ELSE "begin")
  /\ UNCHANGED <<now, tables, command, host, deadline, started, history>>

CommitFinish(c) ==
  /\ pc[c] = "transaction"
  /\ command[c] \in Finishes
  /\ Complete(command[c], started[c])
  /\ GoTo(c, "done")
  /\ UNCHANGED <<now, challenges, command, host, deadline, started, issued, spentBy>>

\* Also the refusal of a transaction, after its rollback.
RecordError(c) ==
  /\ pc[c] \in {"record", "transaction"}
  /\ Complete(command[c], Clock(Database))
  /\ GoTo(c, "done")
  /\ UNCHANGED <<now, challenges, command, host, deadline, started, issued, spentBy>>

-----------------------------------------------------------------------------
Init ==
  /\ now = 0
  /\ challenges = [x \in ChallengeIds |-> NoRow]
  /\ commands = [k \in Commands |-> NoRow]
  /\ pc = [c \in Calls |-> "idle"]
  /\ command = [c \in Calls |-> NoRow]
  /\ host = [c \in Calls |-> NoRow]
  /\ deadline = [c \in Calls |-> 0]
  /\ started = [c \in Calls |-> 0]
  /\ issued = [x \in ChallengeIds |-> NoRow]
  /\ spentBy = [x \in ChallengeIds |-> NoRow]
  /\ settled = [k \in Commands |-> NoRow]

\* Time does not pass the longest wait of an open transaction.
Tick ==
  /\ now < MaxTime
  /\ \A c \in Calls : pc[c] = "transaction" => Clock(Database) - started[c] < MaxWait
  /\ now' = now + 1
  /\ UNCHANGED <<tables, calls, history>>

Step(c) ==
  \/ PruneChallenges(c) \/ PruneCommands(c) \/ Claim(c) \/ Load(c)
  \/ StartTransaction(c) \/ CommitBegin(c) \/ Consume(c) \/ CheckDeadline(c)
  \/ CommitFinish(c) \/ RecordError(c)

Next == Tick \/ \E c \in Calls : Receive(c) \/ Step(c) \/ End(c)

Spec == Init /\ [][Next]_vars

-----------------------------------------------------------------------------
\* More than t before its deadline, by the clock of some instance that may be asked
\* to finish it; with a negative t, not yet -t past it.
AliveFor(x, t) ==
  issued[x] # NoRow /\ \E i \in Instances : Clock(i) + t < issued[x].expires

\* How long before the deadline of a ceremony the receipt of its begin may be gone:
\* what skew and lock waits take, less what receipt_ttl exceeds challenge_ttl by.
\* Nothing waits between the deadline and completed_at of a finish.
BeginLead == MaxSkew + MaxWait - (ReceiptTtl - ChallengeTtl)
FinishLead == MaxSkew - (ReceiptTtl - ChallengeTtl)

\* A begin that is retried, at any time and on any instance, leaves its caller with
\* two ceremonies that could both be finished only for the last BeginLead of the
\* first: until then its receipt repeats it.  Where receipt_ttl exceeds
\* challenge_ttl by skew and wait, never.
OneOpenCeremonyPerCommand ==
  \A x, y \in ChallengeIds :
    /\ x # y
    /\ AliveFor(x, BeginLead) /\ AliveFor(y, BeginLead)
    /\ spentBy[x] = NoRow /\ spentBy[y] = NoRow
    => issued[x].command # issued[y].command

\* Retention takes a ceremony that some instance would still let finish only where
\* the skew exceeds the day of grace, and by no more than that: else a caller in
\* time is never told invalid_request.
AliveCeremonyIsKept ==
  \A x \in ChallengeIds : AliveFor(x, MaxSkew - Grace) => challenges[x] # NoRow

\* Until FinishLead before the deadline of the ceremony it spent, the receipt of a
\* finish is there: a retry in time repeats the first answer and is not told
\* challenge_used.
FinishReceiptOutlivesCeremony ==
  \A x \in ChallengeIds :
    (AliveFor(x, FinishLead) /\ spentBy[x] # NoRow) => commands[spentBy[x]] # NoRow

\* prune can take the receipt between the INSERT and the SELECT of a claim, and the
\* retry then fails; it happens only to a retry that comes when the receipt is older
\* than receipt_ttl.
LostReplayWasOverdue ==
  \A c \in Calls :
    (pc[c] = "load" /\ commands[command[c]] = NoRow)
      => settled[command[c]] # NoRow /\ Clock(Database) - settled[command[c]] > ReceiptTtl
=============================================================================
