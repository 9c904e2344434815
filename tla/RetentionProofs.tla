--------------------------- MODULE RetentionProofs ---------------------------
(***************************************************************************)
(* By how much receipts outlive the ceremonies they are about, and         *)
(* ceremonies the last instance that would let them finish, or fall short  *)
(* of it, for every choice of the retention periods, clocks and waits.     *)
(* The proof compares times after taking away the offset of the clock they *)
(* were read from.                                                         *)
(***************************************************************************)
EXTENDS Retention, TLAPS

Stages ==
  {"idle", "prune_challenges", "prune_commands", "claim", "load", "begin",
   "consume", "check", "record", "transaction", "done"}

\* The stages of a call that has claimed its command.
Owning == {"begin", "consume", "check", "record", "transaction"}

Types ==
  /\ now \in Nat
  /\ challenges \in [ChallengeIds -> Challenge \cup {NoRow}]
  /\ commands \in [Commands -> Receipt \cup {NoRow}]
  /\ pc \in [Calls -> Stages]
  /\ command \in [Calls -> Commands \cup {NoRow}]
  /\ host \in [Calls -> Instances \cup {NoRow}]
  /\ deadline \in [Calls -> Int]
  /\ started \in [Calls -> Int]
  /\ issued \in [ChallengeIds -> Ceremony \cup {NoRow}]
  /\ spentBy \in [ChallengeIds -> Finishes \cup {NoRow}]
  /\ settled \in [Commands -> Int \cup {NoRow}]

\* A receipt that retention has just taken, or might take.
Overdue(k) == settled[k] # NoRow /\ Clock(Database) - settled[k] > ReceiptTtl

CallOK(c) ==
  /\ pc[c] # "idle" => command[c] \in Commands /\ host[c] \in Instances
  /\ pc[c] = "consume" => command[c] \in Finishes
  /\ pc[c] = "transaction" =>
       started[c] <= Clock(Database) /\ Clock(Database) <= started[c] + MaxWait
  /\ pc[c] \in Owning =>
       /\ commands[command[c]] # NoRow /\ commands[command[c]].completedAt = NoRow
       /\ \A d \in Calls \ {c} : pc[d] \in Owning => command[d] # command[c]
  /\ pc[c] = "load" => commands[command[c]] # NoRow \/ Overdue(command[c])

SettledOK == \A k \in Commands : Completed(k) => settled[k] = commands[k].completedAt

\* Every instance is less than lead before the deadline of the ceremony, or past it.
Dead(x, lead) == \A i \in Instances : issued[x].expires <= Clock(i) + lead

\* What is completed at time t is kept at least until the ceremony is dead.
Covered(x, t, lead) ==
  \A i \in Instances :
    issued[x].expires - Offset[i] <= t - Offset[Database] + ReceiptTtl + lead

\* The longest life of a ceremony, from now on.
Bounded(x) == \A i \in Instances : issued[x].expires - Offset[i] <= now + ChallengeTtl + MaxSkew

CeremonyOK(x) ==
  /\ challenges[x] # NoRow => issued[x] # NoRow /\ challenges[x].expires = issued[x].expires
  /\ issued[x] # NoRow =>
       /\ Bounded(x)
       /\ challenges[x] = NoRow => issued[x].expires < Clock(Database) - Grace
       /\ \/ Dead(x, BeginLead)
          \/ /\ Completed(issued[x].command)
             /\ Covered(x, commands[issued[x].command].completedAt, BeginLead)

\* The receipt of the finish that spent the ceremony is there, or will be.
SpentOK(x) ==
  spentBy[x] # NoRow =>
    /\ issued[x] # NoRow
    /\ \/ Dead(x, FinishLead)
       \/ /\ commands[spentBy[x]] # NoRow
          /\ commands[spentBy[x]].completedAt # NoRow =>
               Covered(x, commands[spentBy[x]].completedAt, FinishLead)
          /\ \A c \in Calls :
               pc[c] = "transaction" /\ command[c] = spentBy[x] => Covered(x, started[c], FinishLead)

OneAlive ==
  \A x, y \in ChallengeIds :
    (x # y /\ issued[x] # NoRow /\ issued[y] # NoRow /\ issued[x].command = issued[y].command)
      => Dead(x, BeginLead) \/ Dead(y, BeginLead)

RetentionInv ==
  /\ Types /\ SettledOK /\ OneAlive
  /\ \A c \in Calls : CallOK(c)
  /\ \A x \in ChallengeIds : CeremonyOK(x) /\ SpentOK(x)

Rest ==
  /\ SettledOK /\ OneAlive
  /\ \A x \in ChallengeIds : CeremonyOK(x) /\ SpentOK(x)

LEMMA InitRetention == Init => RetentionInv
  <1> SUFFICES ASSUME Init PROVE RetentionInv OBVIOUS
  <1>1. Types BY DEF Init, Types, Stages
  <1>2. \A c \in Calls : CallOK(c) BY DEF Init, CallOK, Owning
  <1>3. Rest
    BY DEF Init, Rest, SettledOK, Completed, OneAlive, CeremonyOK, SpentOK
  <1> QED BY <1>1, <1>2, <1>3 DEF RetentionInv, Rest

-----------------------------------------------------------------------------
\* Times

LEMMA ClockTypes ==
  ASSUME now \in Nat, NEW i \in Clocks
  PROVE  Offset[i] \in Nat /\ Clock(i) = now + Offset[i] /\ Clock(i) \in Nat
  BY ClockAssumption DEF Clock

LEMMA TimeTypes ==
  ASSUME Types
  PROVE  /\ now \in Nat /\ Offset[Database] \in Nat
         /\ Clock(Database) = now + Offset[Database] /\ Clock(Database) \in Int
         /\ \A i \in Instances : Offset[i] \in Nat /\ Clock(i) = now + Offset[i]
  BY ClockTypes DEF Types, Clocks

LEMMA LeadTypes == BeginLead \in Int /\ FinishLead \in Int
  BY TtlAssumption, ClockAssumption DEF BeginLead, FinishLead

LEMMA CeremonyTypes ==
  ASSUME Types, NEW x \in ChallengeIds, issued[x] # NoRow
  PROVE  issued[x].command \in Begins /\ issued[x].expires \in Int
  BY DEF Types, Ceremony

LEMMA ReceiptTypes ==
  ASSUME Types, NEW k \in Commands, commands[k] # NoRow
  PROVE  commands[k] \in Receipt /\ commands[k].completedAt \in Int \cup {NoRow}
  BY DEF Types, Receipt

\* When retention takes a receipt, what it covered is dead.
LEMMA CoveredDue ==
  ASSUME Types, NEW x \in ChallengeIds, issued[x] # NoRow, NEW t \in Int, NEW lead \in Int,
         Covered(x, t, lead), t < Clock(Database) - ReceiptTtl
  PROVE  Dead(x, lead)
  BY TimeTypes, CeremonyTypes, TtlAssumption DEF Covered, Dead

\* A completion from now on covers every ceremony there is.
LEMMA CoveredNow ==
  ASSUME Types, NEW x \in ChallengeIds, issued[x] # NoRow, Bounded(x)
  PROVE  Covered(x, Clock(Database), FinishLead)
  <1>1. /\ ChallengeTtl \in Nat /\ ReceiptTtl \in Nat /\ MaxSkew \in Nat
        /\ ReceiptTtl + FinishLead = ChallengeTtl + MaxSkew
    BY TtlAssumption, ClockAssumption DEF FinishLead
  <1> QED BY <1>1, LeadTypes, TimeTypes, CeremonyTypes DEF Covered, Bounded

LEMMA DeadStays ==
  ASSUME Types, NEW x \in ChallengeIds, issued[x] # NoRow, NEW lead \in Int,
         Dead(x, lead), issued'[x] = issued[x], now' \in Nat, now' >= now
  PROVE  \A i \in Instances : issued'[x].expires <= Clock(i)' + lead
  <1> SUFFICES ASSUME NEW i \in Instances PROVE issued[x].expires <= Clock(i)' + lead
    OBVIOUS
  <1>1. issued[x].expires <= Clock(i) + lead /\ issued[x].expires \in Int
    BY CeremonyTypes DEF Dead
  <1>2. Offset[i] \in Nat /\ Clock(i) = now + Offset[i] /\ now \in Nat BY TimeTypes
  <1> QED BY <1>1, <1>2 DEF Clock

-----------------------------------------------------------------------------
\* What steps have in common

OthersSame(c) ==
  \A d \in Calls \ {c} :
    pc'[d] = pc[d] /\ command'[d] = command[d] /\ host'[d] = host[d] /\ started'[d] = started[d]

NoneStarts ==
  \A d \in Calls :
    pc'[d] = "transaction" =>
      pc[d] = "transaction" /\ command'[d] = command[d] /\ started'[d] = started[d]

\* A step that touches no table.
LEMMA SameData ==
  ASSUME RetentionInv, UNCHANGED <<now, tables, history>>, NoneStarts
  PROVE  Rest'
  <1>1. SettledOK' BY DEF RetentionInv, SettledOK, Completed, tables, history
  <1>2. OneAlive' BY DEF RetentionInv, OneAlive, Dead, Clock, history
  <1>3. ASSUME NEW x \in ChallengeIds PROVE CeremonyOK(x)'
    <2>1. CeremonyOK(x) BY DEF RetentionInv
    <2> QED BY <2>1 DEF CeremonyOK, Bounded, Dead, Clock, Completed, Covered, tables, history
  <1>4. ASSUME NEW x \in ChallengeIds PROVE SpentOK(x)'
    <2>1. SpentOK(x) BY DEF RetentionInv
    <2> QED BY <2>1 DEF SpentOK, NoneStarts, Dead, Clock, Covered, tables, history
  <1> QED BY <1>1, <1>2, <1>3, <1>4 DEF Rest

\* The calls that do not move keep their commands.
LEMMA OthersOK ==
  ASSUME RetentionInv, NEW c \in Calls, OthersSame(c), now' = now,
         \A k \in Commands :
           (commands[k] # NoRow \/ Overdue(k)) => commands'[k] # NoRow \/ Overdue(k)',
         \A d \in Calls \ {c} :
           pc[d] \in Owning => commands'[command[d]] = commands[command[d]],
         \A d \in Calls \ {c} :
           pc[d] \in Owning /\ pc'[c] \in Owning => command[d] # command'[c],
         CallOK(c)'
  PROVE  \A d \in Calls : CallOK(d)'
  <1> SUFFICES ASSUME NEW d \in Calls \ {c} PROVE CallOK(d)' OBVIOUS
  <1>1. CallOK(d) /\ Types BY DEF RetentionInv
  <1>2. /\ pc'[d] = pc[d] /\ command'[d] = command[d] /\ host'[d] = host[d]
        /\ started'[d] = started[d]
    BY DEF OthersSame
  <1>3. Clock(Database)' = Clock(Database) BY DEF Clock
  <1>4. pc[d] \in Owning =>
          /\ commands'[command[d]] # NoRow /\ commands'[command[d]].completedAt = NoRow
          /\ \A e \in Calls \ {d} : pc'[e] \in Owning => command'[e] # command'[d]
    <2> SUFFICES ASSUME pc[d] \in Owning
                 PROVE  /\ commands'[command[d]] # NoRow
                        /\ commands'[command[d]].completedAt = NoRow
                        /\ \A e \in Calls \ {d} : pc'[e] \in Owning => command'[e] # command'[d]
      OBVIOUS
    <2>1. commands'[command[d]] # NoRow /\ commands'[command[d]].completedAt = NoRow
      BY <1>1 DEF CallOK
    <2>2. ASSUME NEW e \in Calls \ {d}, pc'[e] \in Owning PROVE command'[e] # command'[d]
      <3>1. CASE e = c BY <1>2, <2>2, <3>1
      <3>2. CASE e # c BY <1>1, <1>2, <2>2, <3>2 DEF OthersSame, CallOK
      <3> QED BY <3>1, <3>2
    <2> QED BY <2>1, <2>2
  <1>5. ASSUME pc[d] = "load"
        PROVE  \/ commands'[command[d]] # NoRow
               \/ /\ settled'[command[d]] # NoRow
                  /\ Clock(Database)' - settled'[command[d]] > ReceiptTtl
    <2>1. PICK k \in Commands : k = command[d] BY <1>1, <1>5 DEF CallOK
    <2>2. commands[k] # NoRow \/ Overdue(k) BY <1>1, <1>5, <2>1 DEF CallOK, Overdue
    <2>3. commands'[k] # NoRow \/ Overdue(k)' BY <2>2
    <2> QED BY <2>1, <2>3 DEF Overdue
  <1> QED BY <1>1, <1>2, <1>3, <1>4, <1>5 DEF CallOK, Overdue

LEMMA Joined ==
  ASSUME Types', \A c \in Calls : CallOK(c)', Rest'
  PROVE  RetentionInv'
  BY DEF RetentionInv, Rest

-----------------------------------------------------------------------------
\* The steps

LEMMA TickStep == ASSUME RetentionInv, Tick PROVE RetentionInv'
  <1>1. /\ Types /\ now' = now + 1 /\ now \in Nat /\ UNCHANGED <<tables, calls, history>>
        /\ \A c \in Calls : pc[c] = "transaction" => Clock(Database) - started[c] < MaxWait
    BY DEF RetentionInv, Tick, Types
  <1>2. Types' BY <1>1 DEF Types, tables, calls, history
  <1>3. Clock(Database)' = Clock(Database) + 1 /\ Clock(Database) \in Int
        /\ MaxWait \in Nat /\ Grace \in Nat /\ ReceiptTtl \in Nat
    BY <1>1, TimeTypes, ClockAssumption, TtlAssumption DEF Clock
  <1>4. ASSUME NEW c \in Calls PROVE CallOK(c)'
    <2>1. CallOK(c) /\ started[c] \in Int BY <1>1 DEF RetentionInv, Types
    <2>2. ASSUME NEW k \in Commands, Overdue(k) PROVE Overdue(k)'
      BY <1>1, <1>3, <2>2 DEF Overdue, Types, history
    <2> QED BY <1>1, <1>3, <2>1, <2>2 DEF CallOK, calls, tables
  <1>5. ASSUME NEW x \in ChallengeIds, issued[x] # NoRow
        PROVE  /\ Dead(x, BeginLead) => Dead(x, BeginLead)'
               /\ Dead(x, FinishLead) => Dead(x, FinishLead)'
               /\ Bounded(x) => Bounded(x)'
               /\ issued[x].expires < Clock(Database) - Grace =>
                    issued'[x].expires < Clock(Database)' - Grace
    <2>1. issued'[x] = issued[x] /\ issued[x].expires \in Int
      BY <1>1, <1>5, CeremonyTypes DEF history
    <2>2. Dead(x, BeginLead) => Dead(x, BeginLead)'
      BY <1>1, <1>5, <2>1, LeadTypes, DeadStays DEF Dead, BeginLead
    <2>4. Dead(x, FinishLead) => Dead(x, FinishLead)'
      BY <1>1, <1>5, <2>1, LeadTypes, DeadStays DEF Dead, FinishLead
    <2>3. Bounded(x) => Bounded(x)'
      BY <1>1, <2>1, TimeTypes, TtlAssumption, ClockAssumption DEF Bounded
    <2> QED BY <1>3, <2>1, <2>2, <2>3, <2>4
  <1>6. SettledOK' BY <1>1 DEF RetentionInv, SettledOK, Completed, tables, history
  <1>7. OneAlive' BY <1>1, <1>5 DEF RetentionInv, OneAlive, history
  <1>8. ASSUME NEW x \in ChallengeIds PROVE CeremonyOK(x)'
    <2>1. CeremonyOK(x) BY DEF RetentionInv
    <2> QED BY <1>1, <1>5, <2>1 DEF CeremonyOK, Completed, Covered, tables, history
  <1>9. ASSUME NEW x \in ChallengeIds PROVE SpentOK(x)'
    <2>1. SpentOK(x) BY DEF RetentionInv
    <2> QED BY <1>1, <1>5, <2>1 DEF SpentOK, Covered, tables, calls, history
  <1> QED BY <1>2, <1>4, <1>6, <1>7, <1>8, <1>9 DEF RetentionInv

\* A call arrives, ends, or reads its receipt.
LEMMA QuietStep ==
  ASSUME RetentionInv, NEW c \in Calls, Receive(c) \/ End(c) \/ Load(c)
  PROVE  RetentionInv'
  <1>1. Types /\ UNCHANGED <<now, tables, history>>
    BY DEF RetentionInv, Receive, End, Load
  <1>2. /\ Types' /\ OthersSame(c)
        /\ pc'[c] \in {"idle", "prune_challenges", "claim", "done"}
        /\ pc'[c] # "idle" => command'[c] \in Commands /\ host'[c] \in Instances
    <2>1. CASE Receive(c)
      BY <1>1, <2>1 DEF Receive, GoTo, Types, OthersSame, Stages, tables, history
    <2>2. CASE End(c)
      BY <1>1, <2>2 DEF End, GoTo, Types, OthersSame, Stages, tables, history
    <2>3. CASE Load(c)
      BY <1>1, <2>3 DEF Load, GoTo, Types, OthersSame, Stages, tables, history,
                        RetentionInv, CallOK
    <2> QED BY <2>1, <2>2, <2>3
  <1>3. Rest' BY <1>1, <1>2, SameData DEF NoneStarts, OthersSame
  <1>4. CallOK(c)' BY <1>2 DEF CallOK, Owning
  <1>5. \A k \in Commands : Overdue(k)' = Overdue(k)
    BY <1>1 DEF Overdue, Clock, history
  <1>6. \A d \in Calls : CallOK(d)'
    BY <1>1, <1>2, <1>4, <1>5, OthersOK DEF Owning, tables
  <1> QED BY <1>2, <1>3, <1>6, Joined

\* A ceremony that is taken was past its deadline on every clock.
LEMMA PruneChallengesStep ==
  ASSUME RetentionInv, NEW c \in Calls, PruneChallenges(c)
  PROVE  RetentionInv'
  <1>1. /\ Types /\ UNCHANGED <<now, commands, command, host, deadline, started, history>>
        /\ pc[c] = "prune_challenges" /\ CallOK(c)
        /\ pc' = [pc EXCEPT ![c] = "prune_commands"]
        /\ challenges' =
             [x \in ChallengeIds |-> IF DueChallenge(x) THEN NoRow ELSE challenges[x]]
    BY DEF RetentionInv, PruneChallenges, GoTo
  <1>2. Types' BY <1>1 DEF Types, Stages, history
  <1>3. OthersSame(c) /\ NoneStarts BY <1>1 DEF OthersSame, NoneStarts, Types
  <1>4. CallOK(c)' BY <1>1 DEF CallOK, Owning, Types
  <1>5. \A k \in Commands : Overdue(k)' = Overdue(k) BY <1>1 DEF Overdue, Clock, history
  <1>6. \A d \in Calls : CallOK(d)'
    BY <1>1, <1>3, <1>4, <1>5, OthersOK DEF Owning, Types
  <1>7. SettledOK' BY <1>1 DEF RetentionInv, SettledOK, Completed, history
  <1>8. OneAlive' BY <1>1 DEF RetentionInv, OneAlive, Dead, Clock, history
  <1>9. ASSUME NEW x \in ChallengeIds PROVE CeremonyOK(x)'
    <2>1. CeremonyOK(x) BY DEF RetentionInv
    <2>2. challenges'[x] = NoRow /\ challenges[x] # NoRow =>
            challenges[x].expires < Clock(Database) - Grace
      BY <1>1 DEF DueChallenge
    <2>3. challenges'[x] # NoRow => challenges'[x] = challenges[x] BY <1>1
    <2> QED BY <1>1, <2>1, <2>2, <2>3
            DEF CeremonyOK, Bounded, Dead, Clock, Completed, Covered, history
  <1>10. ASSUME NEW x \in ChallengeIds PROVE SpentOK(x)'
    <2>1. SpentOK(x) BY DEF RetentionInv
    <2> QED BY <1>1, <1>3, <2>1 DEF SpentOK, NoneStarts, Dead, Clock, Covered, history
  <1> QED BY <1>2, <1>6, <1>7, <1>8, <1>9, <1>10, Joined DEF Rest

\* A receipt that is taken has outlived every ceremony it covered.
LEMMA PruneCommandsStep ==
  ASSUME RetentionInv, NEW c \in Calls, PruneCommands(c)
  PROVE  RetentionInv'
  <1>1. /\ Types /\ UNCHANGED <<now, challenges, command, host, deadline, started, history>>
        /\ pc[c] = "prune_commands" /\ CallOK(c)
        /\ pc' = [pc EXCEPT ![c] = "claim"]
        /\ commands' = [k \in Commands |-> IF DueReceipt(k) THEN NoRow ELSE commands[k]]
    BY DEF RetentionInv, PruneCommands, GoTo
  <1>2. Types' BY <1>1 DEF Types, Stages, history
  <1>3. OthersSame(c) /\ NoneStarts BY <1>1 DEF OthersSame, NoneStarts, Types
  <1>4. CallOK(c)' BY <1>1 DEF CallOK, Owning, Types
  <1>5. ASSUME NEW k \in Commands
        PROVE  /\ commands'[k] # NoRow => commands'[k] = commands[k]
               /\ commands'[k] = NoRow /\ commands[k] # NoRow =>
                    /\ Completed(k) /\ commands[k].completedAt \in Int
                    /\ commands[k].completedAt < Clock(Database) - ReceiptTtl
               /\ ~Completed(k) => commands'[k] = commands[k]
    BY <1>1, <1>5, ReceiptTypes DEF DueReceipt, Completed
  <1>6. ASSUME NEW k \in Commands, commands[k] # NoRow \/ Overdue(k)
        PROVE  commands'[k] # NoRow \/ Overdue(k)'
    <2>1. CASE Overdue(k) BY <1>1, <2>1 DEF Overdue, Clock, history
    <2>2. CASE commands[k] # NoRow /\ commands'[k] = NoRow
      <3>1. /\ settled[k] = commands[k].completedAt /\ settled[k] \in Int
            /\ settled[k] < Clock(Database) - ReceiptTtl
        BY <1>5, <2>2 DEF RetentionInv, SettledOK
      <3>2. settled[k] # NoRow BY <3>1, CommandsAssumption
      <3>3. Clock(Database) - settled[k] > ReceiptTtl
        BY <1>1, <3>1, TimeTypes, TtlAssumption
      <3> QED BY <1>1, <3>2, <3>3 DEF Overdue, Clock, history
    <2> QED BY <1>6, <2>1, <2>2
  <1>7. \A d \in Calls : CallOK(d)'
    <2>1. ASSUME NEW d \in Calls, pc[d] \in Owning
          PROVE  commands'[command[d]] = commands[command[d]]
      <3>1. command[d] \in Commands /\ ~Completed(command[d])
        BY <2>1 DEF RetentionInv, CallOK, Owning, Completed
      <3> QED BY <1>5, <3>1
    <2> QED BY <1>1, <1>3, <1>4, <1>6, <2>1, OthersOK DEF Owning, Types
  <1>8. SettledOK' BY <1>1, <1>5 DEF RetentionInv, SettledOK, Completed, history
  <1>9. OneAlive' BY <1>1 DEF RetentionInv, OneAlive, Dead, Clock, history
  <1>10. ASSUME NEW x \in ChallengeIds, issued[x] # NoRow, NEW k \in Commands,
                NEW lead \in Int, Completed(k), Covered(x, commands[k].completedAt, lead)
         PROVE  Dead(x, lead) \/ (Completed(k)' /\ commands'[k] = commands[k])
    BY <1>1, <1>5, <1>10, CoveredDue DEF Completed
  <1>11. ASSUME NEW x \in ChallengeIds PROVE CeremonyOK(x)'
    <2>1. CeremonyOK(x) BY DEF RetentionInv
    <2>2. issued[x] # NoRow => issued[x].command \in Commands
      BY <1>1, CeremonyTypes DEF Commands
    <2>3. issued[x] # NoRow =>
            \/ Dead(x, BeginLead)
            \/ /\ Completed(issued[x].command)'
               /\ commands'[issued[x].command] = commands[issued[x].command]
               /\ Covered(x, commands[issued[x].command].completedAt, BeginLead)
      <3> SUFFICES ASSUME issued[x] # NoRow, ~Dead(x, BeginLead)
                   PROVE  /\ Completed(issued[x].command)'
                          /\ commands'[issued[x].command] = commands[issued[x].command]
                          /\ Covered(x, commands[issued[x].command].completedAt, BeginLead)
        BY <1>1 DEF history
      <3>1. PICK k \in Commands : k = issued[x].command BY <2>2
      <3>2. issued'[x].command = k BY <1>1, <3>1 DEF history
      <3>3. Completed(k) /\ Covered(x, commands[k].completedAt, BeginLead)
        BY <2>1, <3>1 DEF CeremonyOK
      <3>4. commands'[k] = commands[k] BY <1>10, <3>3, LeadTypes
      <3> QED BY <3>1, <3>2, <3>3, <3>4 DEF Completed
    <2> QED BY <1>1, <2>1, <2>3
            DEF CeremonyOK, Bounded, Dead, Clock, Completed, Covered, history
  <1>12. ASSUME NEW x \in ChallengeIds PROVE SpentOK(x)'
    <2>1. SpentOK(x) BY DEF RetentionInv
    <2>2. spentBy[x] # NoRow => spentBy[x] \in Commands BY <1>1 DEF Types, Commands
    <2>3. spentBy[x] # NoRow /\ ~Dead(x, FinishLead) =>
            commands'[spentBy[x]] = commands[spentBy[x]]
      <3> SUFFICES ASSUME spentBy[x] # NoRow, ~Dead(x, FinishLead), ~Completed(spentBy[x])
                          \/ Covered(x, commands[spentBy[x]].completedAt, FinishLead)
                   PROVE  commands'[spentBy[x]] = commands[spentBy[x]]
        BY <2>1 DEF SpentOK, Completed
      <3> QED BY <1>5, <1>10, <2>1, <2>2, LeadTypes DEF SpentOK
    <2> QED BY <1>1, <1>3, <2>1, <2>3 DEF SpentOK, NoneStarts, Dead, Clock, Covered, history
  <1> QED BY <1>2, <1>7, <1>8, <1>9, <1>11, <1>12, Joined DEF Rest

\* A command is claimed anew only when every ceremony of its earlier claims is dead.
LEMMA ClaimStep ==
  ASSUME RetentionInv, NEW c \in Calls, Claim(c)
  PROVE  RetentionInv'
  <1> DEFINE k == command[c]
  <1>1. /\ Types /\ UNCHANGED <<now, challenges, command, host, deadline, started, history>>
        /\ pc[c] = "claim" /\ CallOK(c) /\ k \in Commands
    BY DEF RetentionInv, Claim, CallOK
  <1>2. CASE commands[k] # NoRow /\ GoTo(c, "load") /\ UNCHANGED commands
    <2>1. Types' BY <1>1, <1>2 DEF Types, Stages, GoTo, history
    <2>2. OthersSame(c) /\ NoneStarts /\ pc'[c] = "load"
      BY <1>1, <1>2 DEF OthersSame, NoneStarts, Types, GoTo
    <2>3. CallOK(c)' BY <1>1, <1>2, <2>2 DEF CallOK, Owning
    <2>4. \A l \in Commands : Overdue(l)' = Overdue(l) BY <1>1 DEF Overdue, Clock, history
    <2>5. \A d \in Calls : CallOK(d)'
      BY <1>1, <1>2, <2>2, <2>3, <2>4, OthersOK DEF Owning
    <2>6. Rest' BY <1>1, <1>2, <2>2, SameData DEF tables
    <2> QED BY <2>1, <2>5, <2>6, Joined
  <1>3. CASE /\ commands[k] = NoRow
             /\ commands' = [commands EXCEPT ![k] = [completedAt |-> NoRow]]
             /\ GoTo(c, IF k \in Begins THEN "begin" ELSE "consume")
    <2>1. /\ commands'[k] = [completedAt |-> NoRow] /\ commands'[k] # NoRow
          /\ commands'[k].completedAt = NoRow
          /\ \A l \in Commands \ {k} : commands'[l] = commands[l]
          /\ [completedAt |-> NoRow] \in Receipt
      BY <1>1, <1>3, CommandsAssumption DEF Types, Receipt
    <2>2. Types' BY <1>1, <1>3, <2>1 DEF Types, Stages, GoTo, history
    <2>3. /\ OthersSame(c) /\ NoneStarts
          /\ pc'[c] \in {"begin", "consume"}
          /\ pc'[c] = "consume" => k \in Finishes
      BY <1>1, <1>3 DEF OthersSame, NoneStarts, Types, GoTo, Commands
    <2>4. \A d \in Calls \ {c} : pc[d] \in Owning => command[d] # k
      BY <1>3 DEF RetentionInv, CallOK
    <2>5. CallOK(c)'
      <3>1. command'[c] = k /\ host'[c] \in Instances BY <1>1 DEF CallOK
      <3>2. \A d \in Calls \ {c} : pc'[d] \in Owning => command'[d] # k
        BY <2>3, <2>4 DEF OthersSame
      <3>3. commands'[k] # NoRow /\ commands'[k].completedAt = NoRow BY <2>1
      <3>4. /\ k \in Commands /\ pc'[c] \in {"begin", "consume"}
            /\ pc'[c] = "consume" => k \in Finishes
        BY <1>1, <2>3
      <3> HIDE DEF k
      <3> QED BY <3>1, <3>2, <3>3, <3>4 DEF CallOK, Owning
    <2>6. \A l \in Commands : Overdue(l)' = Overdue(l) BY <1>1 DEF Overdue, Clock, history
    <2>7. \A d \in Calls : CallOK(d)'
      <3>1. \A d \in Calls \ {c} :
              pc[d] \in Owning => commands'[command[d]] = commands[command[d]]
        BY <2>1, <2>4 DEF RetentionInv, CallOK, Owning
      <3> QED BY <1>1, <2>1, <2>3, <2>4, <2>5, <2>6, <3>1, OthersOK
    <2>8. SettledOK' BY <1>1, <2>1 DEF RetentionInv, SettledOK, Completed, history
    <2>9. OneAlive' BY <1>1 DEF RetentionInv, OneAlive, Dead, Clock, history
    <2>10. ASSUME NEW x \in ChallengeIds PROVE CeremonyOK(x)'
      <3>1. CeremonyOK(x) BY DEF RetentionInv
      <3>2. issued[x] # NoRow => issued[x].command \in Commands
        BY <1>1, CeremonyTypes DEF Commands
      <3>3. issued[x] # NoRow /\ ~Dead(x, BeginLead) => issued[x].command # k
        BY <1>3, <3>1 DEF CeremonyOK, Completed
      <3> QED BY <1>1, <2>1, <3>1, <3>2, <3>3
              DEF CeremonyOK, Bounded, Dead, Clock, Completed, Covered, history
    <2>11. ASSUME NEW x \in ChallengeIds PROVE SpentOK(x)'
      <3>1. SpentOK(x) BY DEF RetentionInv
      <3>2. spentBy[x] # NoRow => spentBy[x] \in Commands BY <1>1 DEF Types, Commands
      <3>3. spentBy[x] # NoRow /\ ~Dead(x, FinishLead) => spentBy[x] # k BY <1>3, <3>1 DEF SpentOK
      <3> QED BY <1>1, <2>1, <2>3, <3>1, <3>2, <3>3
              DEF SpentOK, NoneStarts, Dead, Clock, Covered, history
    <2> QED BY <2>2, <2>7, <2>8, <2>9, <2>10, <2>11, Joined DEF Rest
  <1> QED BY <1>2, <1>3 DEF Claim

LEMMA StartStep ==
  ASSUME RetentionInv, NEW c \in Calls, StartTransaction(c)
  PROVE  RetentionInv'
  <1>1. /\ Types /\ UNCHANGED <<now, tables, command, host, deadline, history>>
        /\ pc[c] = "begin" /\ CallOK(c)
        /\ pc' = [pc EXCEPT ![c] = "transaction"]
        /\ started' = [started EXCEPT ![c] = Clock(Database)]
    BY DEF RetentionInv, StartTransaction, GoTo
  <1>2. Types' BY <1>1, TimeTypes DEF Types, Stages, tables, history
  <1>3. OthersSame(c) /\ pc'[c] = "transaction" /\ started'[c] = Clock(Database)
    BY <1>1 DEF OthersSame, Types
  <1>4. Clock(Database)' = Clock(Database) /\ Clock(Database) \in Int /\ MaxWait \in Nat
    BY <1>1, TimeTypes, ClockAssumption DEF Clock
  <1>5. CallOK(c)'
    BY <1>1, <1>3, <1>4 DEF CallOK, Owning, OthersSame, tables
  <1>6. \A k \in Commands : Overdue(k)' = Overdue(k) BY <1>1 DEF Overdue, Clock, history
  <1>7. \A d \in Calls : CallOK(d)'
    <2>1. \A d \in Calls \ {c} : pc[d] \in Owning => command[d] # command'[c]
      BY <1>1 DEF CallOK, Owning
    <2> QED BY <1>1, <1>3, <1>5, <1>6, <2>1, OthersOK DEF tables
  <1>8. SettledOK' BY <1>1 DEF RetentionInv, SettledOK, Completed, tables, history
  <1>9. OneAlive' BY <1>1 DEF RetentionInv, OneAlive, Dead, Clock, history
  <1>10. ASSUME NEW x \in ChallengeIds PROVE CeremonyOK(x)'
    <2>1. CeremonyOK(x) BY DEF RetentionInv
    <2> QED BY <1>1, <2>1 DEF CeremonyOK, Bounded, Dead, Clock, Completed, Covered, tables, history
  <1>11. ASSUME NEW x \in ChallengeIds PROVE SpentOK(x)'
    <2>1. SpentOK(x) BY DEF RetentionInv
    <2>2. spentBy[x] # NoRow => Covered(x, Clock(Database), FinishLead)
      BY <1>1, <2>1, CoveredNow DEF RetentionInv, SpentOK, CeremonyOK
    <2>3. ASSUME NEW d \in Calls, pc'[d] = "transaction", command'[d] = spentBy[x],
                 spentBy[x] # NoRow
          PROVE  Dead(x, FinishLead) \/ Covered(x, started'[d], FinishLead)
      <3>1. CASE d = c BY <1>3, <2>2, <2>3, <3>1
      <3>2. CASE d # c BY <1>3, <2>1, <2>3, <3>2 DEF SpentOK, OthersSame
      <3> QED BY <3>1, <3>2
    <2> QED BY <1>1, <2>1, <2>3 DEF SpentOK, Dead, Clock, Covered, tables, history
  <1> QED BY <1>2, <1>7, <1>8, <1>9, <1>10, <1>11, Joined DEF Rest

\* The finish owns its command, and no transaction of it has begun.
LEMMA ConsumeStep ==
  ASSUME RetentionInv, NEW c \in Calls, Consume(c)
  PROVE  RetentionInv'
  <1> DEFINE f == command[c]
             x == Target[f]
  <1>1. /\ Types /\ UNCHANGED <<now, commands, command, host, started, issued, settled>>
        /\ pc[c] = "consume" /\ CallOK(c) /\ f \in Finishes /\ x \in ChallengeIds
    BY CommandsAssumption DEF RetentionInv, Consume, CallOK
  <1>2. /\ f \in Commands /\ commands[f] # NoRow /\ commands[f].completedAt = NoRow
        /\ \A d \in Calls \ {c} : pc[d] \in Owning => command[d] # f
    BY <1>1 DEF CallOK, Owning, Commands
  <1>3. \A l \in Commands : Overdue(l)' = Overdue(l) BY <1>1 DEF Overdue, Clock
  <1>4. ASSUME pc' = [pc EXCEPT ![c] = "record"] \/ pc' = [pc EXCEPT ![c] = "check"]
        PROVE  /\ OthersSame(c) /\ NoneStarts /\ pc' \in [Calls -> Stages]
               /\ \A d \in Calls : CallOK(d)'
               /\ \A d \in Calls : ~(pc'[d] = "transaction" /\ command'[d] = f)
    <2>1. /\ OthersSame(c) /\ NoneStarts /\ pc' \in [Calls -> Stages]
          /\ pc'[c] \in {"record", "check"}
      BY <1>1, <1>4 DEF OthersSame, NoneStarts, Types, Stages
    <2>2. CallOK(c)'
      <3>1. command'[c] = f /\ host'[c] \in Instances BY <1>1 DEF CallOK
      <3>2. \A d \in Calls \ {c} : pc'[d] \in Owning => command'[d] # f
        BY <1>2, <2>1 DEF OthersSame
      <3>3. commands'[f] # NoRow /\ commands'[f].completedAt = NoRow BY <1>1, <1>2
      <3> HIDE DEF f
      <3> QED BY <1>2, <2>1, <3>1, <3>2, <3>3 DEF CallOK, Owning
    <2>3. \A d \in Calls : CallOK(d)'
      BY <1>1, <1>2, <1>3, <2>1, <2>2, OthersOK
    <2>4. ASSUME NEW d \in Calls, pc'[d] = "transaction" PROVE command'[d] # f
      BY <1>1, <1>2, <2>1, <2>4 DEF OthersSame, Owning
    <2> QED BY <2>1, <2>3, <2>4
  <1>5. CASE GoTo(c, "record") /\ UNCHANGED <<challenges, deadline, spentBy>>
    <2>1. Types' BY <1>1, <1>4, <1>5 DEF Types, GoTo
    <2>2. Rest' BY <1>1, <1>4, <1>5, SameData DEF GoTo, tables, history
    <2> QED BY <1>4, <1>5, <2>1, <2>2, Joined DEF GoTo
  <1>6. CASE /\ challenges[x] # NoRow /\ ~challenges[x].consumed
             /\ challenges' = [challenges EXCEPT ![x].consumed = TRUE]
             /\ spentBy' = [spentBy EXCEPT ![x] = f]
             /\ deadline' = [deadline EXCEPT ![c] = challenges[x].expires]
             /\ GoTo(c, "check")
    <2> DEFINE row == [challenges[x] EXCEPT !.consumed = TRUE]
    <2>1. /\ OthersSame(c) /\ NoneStarts /\ pc' \in [Calls -> Stages]
          /\ \A d \in Calls : CallOK(d)'
          /\ \A d \in Calls : ~(pc'[d] = "transaction" /\ command'[d] = f)
      BY <1>4, <1>6 DEF GoTo
    <2>2. /\ row \in Challenge /\ row.expires = challenges[x].expires
          /\ challenges[x].expires \in Int
      BY <1>1, <1>6 DEF Types, Challenge
    <2>3. /\ challenges'[x] = row
          /\ \A y \in ChallengeIds \ {x} : challenges'[y] = challenges[y]
          /\ challenges' = [challenges EXCEPT ![x] = row]
      BY <1>1, <1>6 DEF Types
    <2>4. row # NoRow BY <2>2, CommandsAssumption
    <2> HIDE DEF row
    <2>5. Types' BY <1>1, <1>6, <2>1, <2>2, <2>3 DEF Types
    <2>6. SettledOK' BY <1>1 DEF RetentionInv, SettledOK, Completed
    <2>7. OneAlive' BY <1>1 DEF RetentionInv, OneAlive, Dead, Clock
    <2>8. ASSUME NEW y \in ChallengeIds PROVE CeremonyOK(y)'
      <3>1. CeremonyOK(y) BY DEF RetentionInv
      <3>2. /\ challenges'[y] # NoRow <=> challenges[y] # NoRow
            /\ challenges[y] # NoRow => challenges'[y].expires = challenges[y].expires
        BY <1>6, <2>2, <2>3, <2>4
      <3> QED BY <1>1, <3>1, <3>2 DEF CeremonyOK, Bounded, Dead, Clock, Completed, Covered
    <2>9. ASSUME NEW y \in ChallengeIds PROVE SpentOK(y)'
      <3>1. SpentOK(y) BY DEF RetentionInv
      <3>2. CASE y = x
        <4>1. spentBy'[x] = f BY <1>1, <1>6 DEF Types
        <4>2. issued[x] # NoRow BY <1>1, <1>6 DEF RetentionInv, CeremonyOK
        <4> HIDE DEF f, x
        <4> QED BY <1>1, <1>2, <2>1, <3>2, <4>1, <4>2 DEF SpentOK
      <3>3. CASE y # x
        <4>1. spentBy'[y] = spentBy[y] BY <1>1, <1>6, <3>3 DEF Types
        <4> QED BY <1>1, <2>1, <3>1, <4>1 DEF SpentOK, NoneStarts, Dead, Clock, Covered
      <3> QED BY <3>2, <3>3
    <2> QED BY <2>1, <2>5, <2>6, <2>7, <2>8, <2>9, Joined DEF Rest
  <1> QED BY <1>5, <1>6 DEF Consume

\* The clock is read; whatever it says, the call keeps its command.
LEMMA CheckDeadlineStep ==
  ASSUME RetentionInv, NEW c \in Calls, CheckDeadline(c)
  PROVE  RetentionInv'
  <1>1. /\ Types /\ UNCHANGED <<now, tables, command, host, deadline, started, history>>
        /\ pc[c] = "check" /\ CallOK(c)
        /\ \E next \in {"record", "begin"} : pc' = [pc EXCEPT ![c] = next]
    BY DEF RetentionInv, CheckDeadline, GoTo
  <1>2. Types' BY <1>1 DEF Types, Stages, tables, history
  <1>3. OthersSame(c) /\ NoneStarts /\ pc'[c] \in {"record", "begin"}
    BY <1>1 DEF OthersSame, NoneStarts, Types
  <1>4. CallOK(c)'
    BY <1>1, <1>3 DEF CallOK, Owning, OthersSame, tables
  <1>5. \A k \in Commands : Overdue(k)' = Overdue(k) BY <1>1 DEF Overdue, Clock, history
  <1>6. \A d \in Calls : CallOK(d)'
    <2>1. \A d \in Calls \ {c} : pc[d] \in Owning => command[d] # command'[c]
      BY <1>1 DEF CallOK, Owning
    <2> QED BY <1>1, <1>3, <1>4, <1>5, <2>1, OthersOK DEF tables
  <1>7. Rest' BY <1>1, <1>3, SameData
  <1> QED BY <1>2, <1>6, <1>7, Joined

\* The receipt of a call's command is written; the row is the call's own.
LEMMA CompleteCalls ==
  ASSUME RetentionInv, NEW c \in Calls, NEW k \in Commands, k = command[c],
         pc[c] \in {"record", "transaction"}, NEW t \in Int, Complete(k, t),
         GoTo(c, "done"), UNCHANGED <<now, command, host, started>>
  PROVE  /\ commands' \in [Commands -> Receipt \cup {NoRow}]
         /\ settled' \in [Commands -> Int \cup {NoRow}] /\ pc' \in [Calls -> Stages]
         /\ commands'[k] # NoRow /\ commands'[k].completedAt = t /\ t # NoRow
         /\ \A l \in Commands \ {k} : commands'[l] = commands[l]
         /\ SettledOK' /\ NoneStarts /\ \A d \in Calls : CallOK(d)'
  <1> DEFINE row == [completedAt |-> t]
  <1>1. row \in Receipt /\ row.completedAt = t BY DEF Receipt
  <1>2. commands' = [commands EXCEPT ![k] = row] BY DEF Complete
  <1> HIDE DEF row
  <1>3. /\ Types /\ CallOK(c) /\ pc' = [pc EXCEPT ![c] = "done"]
        /\ settled' = [settled EXCEPT ![k] = t]
    BY DEF RetentionInv, Complete, GoTo
  <1>4. /\ commands' \in [Commands -> Receipt \cup {NoRow}]
        /\ settled' \in [Commands -> Int \cup {NoRow}] /\ pc' \in [Calls -> Stages]
        /\ commands'[k] = row /\ settled'[k] = t /\ pc'[c] = "done"
        /\ \A l \in Commands \ {k} : commands'[l] = commands[l] /\ settled'[l] = settled[l]
        /\ OthersSame(c) /\ NoneStarts
    BY <1>1, <1>2, <1>3 DEF Types, Stages, OthersSame, NoneStarts
  <1>5. t # NoRow /\ row # NoRow BY <1>1, CommandsAssumption
  <1>6. SettledOK' BY <1>1, <1>4 DEF RetentionInv, SettledOK, Completed
  <1>7. CallOK(c)' BY <1>3, <1>4 DEF CallOK, Owning
  <1>8. \A l \in Commands :
          (commands[l] # NoRow \/ Overdue(l)) => commands'[l] # NoRow \/ Overdue(l)'
    BY <1>4, <1>5 DEF Overdue, Clock
  <1>9. \A d \in Calls \ {c} : pc[d] \in Owning => command[d] # k
    BY <1>3 DEF CallOK, Owning
  <1>10. \A d \in Calls : CallOK(d)'
    <2>1. \A d \in Calls \ {c} :
            pc[d] \in Owning => commands'[command[d]] = commands[command[d]]
      BY <1>4, <1>9 DEF RetentionInv, CallOK, Owning
    <2> QED BY <1>4, <1>7, <1>8, <2>1, OthersOK DEF Owning
  <1> QED BY <1>1, <1>4, <1>5, <1>6, <1>10

\* A ceremony whose command is completed anew is dead, and what a finish spends is
\* covered by the time it completes at.
LEMMA CompleteCeremonies ==
  ASSUME RetentionInv, NEW c \in Calls, NEW k \in Commands, k = command[c],
         pc[c] \in {"record", "transaction"}, NEW t \in Int, Complete(k, t),
         GoTo(c, "done"), UNCHANGED <<now, command, host, started>>,
         NEW x \in ChallengeIds, issued'[x] = issued[x], spentBy'[x] = spentBy[x],
         challenges'[x] = challenges[x],
         spentBy[x] = k => Dead(x, FinishLead) \/ Covered(x, t, FinishLead)
  PROVE  CeremonyOK(x)' /\ SpentOK(x)'
  <1>1. /\ commands'[k] # NoRow /\ commands'[k].completedAt = t /\ t # NoRow
        /\ \A l \in Commands \ {k} : commands'[l] = commands[l]
        /\ NoneStarts
    BY CompleteCalls
  <1>2. Types /\ CallOK(c) /\ CeremonyOK(x) /\ SpentOK(x) BY DEF RetentionInv
  <1>3. CeremonyOK(x)'
    <2>1. issued[x] # NoRow => issued[x].command \in Commands
      BY <1>2, CeremonyTypes DEF Commands
    <2>2. issued[x] # NoRow /\ ~Dead(x, BeginLead) => issued[x].command # k
      BY <1>2 DEF CeremonyOK, CallOK, Completed, Owning
    <2> QED BY <1>1, <1>2, <2>1, <2>2
            DEF CeremonyOK, Bounded, Dead, Clock, Completed, Covered
  <1>4. SpentOK(x)'
    <2>1. spentBy[x] # NoRow => spentBy[x] \in Commands BY <1>2 DEF Types, Commands
    <2>2. CASE spentBy[x] = k
      <3>1. pc'[c] = "done" BY <1>2 DEF GoTo, Types
      <3>2. ASSUME NEW d \in Calls, pc'[d] = "transaction" PROVE command'[d] # k
        BY <1>1, <1>2, <3>1, <3>2 DEF NoneStarts, CallOK, Owning
      <3> QED BY <1>1, <1>2, <2>2, <3>2 DEF SpentOK, Dead, Clock, Covered
    <2>3. CASE spentBy[x] # k
      BY <1>1, <1>2, <2>1, <2>3 DEF SpentOK, NoneStarts, Dead, Clock, Covered
    <2> QED BY <2>2, <2>3
  <1> QED BY <1>3, <1>4

\* The receipt of a finish, or of a refusal.
LEMMA CompleteStep ==
  ASSUME RetentionInv, NEW c \in Calls, CommitFinish(c) \/ RecordError(c)
  PROVE  RetentionInv'
  <1>1. /\ Types /\ CallOK(c) /\ command[c] \in Commands
        /\ pc[c] \in {"record", "transaction"} /\ GoTo(c, "done")
        /\ UNCHANGED <<now, challenges, command, host, deadline, started, issued, spentBy>>
    BY DEF RetentionInv, CommitFinish, RecordError, CallOK
  <1>2. PICK k \in Commands : k = command[c] BY <1>1
  <1>3. PICK t \in Int :
          /\ Complete(k, t)
          /\ \A x \in ChallengeIds : spentBy[x] = k => Dead(x, FinishLead) \/ Covered(x, t, FinishLead)
    <2>1. CASE RecordError(c)
      <3>1. Complete(k, Clock(Database)) /\ Clock(Database) \in Int
        BY <1>1, <1>2, <2>1, TimeTypes DEF RecordError
      <3>2. ASSUME NEW x \in ChallengeIds, spentBy[x] = k
            PROVE  Covered(x, Clock(Database), FinishLead)
        <4>1. issued[x] # NoRow
          BY <1>1, <3>2, CommandsAssumption DEF RetentionInv, SpentOK
        <4> QED BY <1>1, <4>1, CoveredNow DEF RetentionInv, CeremonyOK
      <3> QED BY <3>1, <3>2
    <2>2. CASE CommitFinish(c)
      <3>1. Complete(k, started[c]) /\ started[c] \in Int /\ pc[c] = "transaction"
        BY <1>1, <1>2, <2>2 DEF CommitFinish, Types
      <3>2. ASSUME NEW x \in ChallengeIds, spentBy[x] = k
            PROVE  Dead(x, FinishLead) \/ Covered(x, started[c], FinishLead)
        BY <1>2, <3>1, <3>2, CommandsAssumption DEF RetentionInv, SpentOK
      <3> QED BY <3>1, <3>2
    <2> QED BY <2>1, <2>2
  <1>4. /\ commands' \in [Commands -> Receipt \cup {NoRow}]
        /\ settled' \in [Commands -> Int \cup {NoRow}] /\ pc' \in [Calls -> Stages]
        /\ SettledOK' /\ \A d \in Calls : CallOK(d)'
    BY <1>1, <1>2, <1>3, CompleteCalls
  <1>5. Types' BY <1>1, <1>4 DEF Types
  <1>6. OneAlive' BY <1>1 DEF RetentionInv, OneAlive, Dead, Clock
  <1>7. \A x \in ChallengeIds : CeremonyOK(x)' /\ SpentOK(x)'
    BY <1>1, <1>2, <1>3, CompleteCeremonies
  <1> QED BY <1>4, <1>5, <1>6, <1>7 DEF RetentionInv

\* The deadline is drawn after the transaction has begun, so that the receipt is
\* older than the ceremony it returns, by at most MaxWait.
LEMMA CommitBeginStep ==
  ASSUME RetentionInv, NEW c \in Calls, CommitBegin(c)
  PROVE  RetentionInv'
  <1>1. /\ Types /\ CallOK(c) /\ command[c] \in Begins /\ host[c] \in Instances
        /\ pc[c] = "transaction" /\ GoTo(c, "done")
        /\ UNCHANGED <<now, command, host, deadline, started, spentBy>>
        /\ Complete(command[c], started[c]) /\ started[c] \in Int
    BY DEF RetentionInv, CommitBegin, CallOK, Types
  <1>2. PICK k \in Begins : k = command[c] BY <1>1
  <1>3. PICK expires \in Int : expires = now + Offset[host[c]] + ChallengeTtl
    BY <1>1, TimeTypes, TtlAssumption
  <1> DEFINE row == [expires |-> expires, consumed |-> FALSE]
             ceremony == [command |-> k, expires |-> expires]
  <1>4. PICK x \in ChallengeIds :
          /\ issued[x] = NoRow
          /\ challenges' = [challenges EXCEPT ![x] = row]
          /\ issued' = [issued EXCEPT ![x] = ceremony]
    BY <1>1, <1>2, <1>3, TimeTypes DEF CommitBegin
  <1>5. /\ row \in Challenge /\ row.expires = expires
        /\ ceremony \in Ceremony /\ ceremony.command = k /\ ceremony.expires = expires
    BY DEF Challenge, Ceremony
  <1>6. row # NoRow /\ ceremony # NoRow BY <1>5, CommandsAssumption
  <1> HIDE DEF row, ceremony
  <1>7. /\ challenges'[x] = row /\ issued'[x] = ceremony
        /\ challenges' \in [ChallengeIds -> Challenge \cup {NoRow}]
        /\ issued' \in [ChallengeIds -> Ceremony \cup {NoRow}]
        /\ \A y \in ChallengeIds \ {x} :
             challenges'[y] = challenges[y] /\ issued'[y] = issued[y]
    BY <1>1, <1>4, <1>5 DEF Types
  <1>8. k \in Commands BY DEF Commands
  <1>9. /\ commands' \in [Commands -> Receipt \cup {NoRow}]
        /\ settled' \in [Commands -> Int \cup {NoRow}] /\ pc' \in [Calls -> Stages]
        /\ commands'[k] # NoRow /\ commands'[k].completedAt = started[c]
        /\ started[c] # NoRow /\ SettledOK' /\ \A d \in Calls : CallOK(d)'
    BY <1>1, <1>2, <1>8, CompleteCalls
  <1>10. Types' BY <1>1, <1>7, <1>9 DEF Types
  <1>11. ASSUME NEW i \in Instances
         PROVE  /\ expires - Offset[i] <= now + ChallengeTtl + MaxSkew
                /\ expires - Offset[i] <= started[c] - Offset[Database] + ReceiptTtl + BeginLead
    <2>1. /\ Offset[host[c]] \in Nat /\ Offset[i] \in Nat /\ Offset[Database] \in Nat
          /\ now \in Nat /\ now + Offset[Database] <= started[c] + MaxWait
      BY <1>1, TimeTypes DEF CallOK
    <2>2. Offset[host[c]] - Offset[i] <= MaxSkew BY <1>1, ClockAssumption DEF Clocks
    <2>3. /\ ReceiptTtl + BeginLead = ChallengeTtl + MaxSkew + MaxWait
          /\ MaxSkew \in Nat /\ MaxWait \in Nat /\ ReceiptTtl \in Nat /\ ChallengeTtl \in Nat
      BY ClockAssumption, TtlAssumption DEF BeginLead
    <2> QED BY <1>1, <1>3, <2>1, <2>2, <2>3, LeadTypes
  <1>12. CeremonyOK(x)'
    BY <1>1, <1>5, <1>6, <1>7, <1>9, <1>11 DEF CeremonyOK, Bounded, Completed, Covered
  <1>13. SpentOK(x)' BY <1>1, <1>4 DEF RetentionInv, SpentOK
  <1>14. ASSUME NEW y \in ChallengeIds \ {x} PROVE CeremonyOK(y)' /\ SpentOK(y)'
    <2>1. spentBy[y] # k BY <1>1, CommandsAssumption DEF Types, Commands
    <2> QED BY <1>1, <1>2, <1>7, <1>8, <2>1, CompleteCeremonies
  <1>15. ASSUME NEW y \in ChallengeIds, issued[y] # NoRow, issued[y].command = k
         PROVE  Dead(y, BeginLead)
    BY <1>1, <1>2, <1>15 DEF RetentionInv, CeremonyOK, CallOK, Completed, Owning
  <1>16. OneAlive'
    <2> SUFFICES ASSUME NEW y \in ChallengeIds, NEW z \in ChallengeIds, y # z,
                        issued'[y] # NoRow, issued'[z] # NoRow,
                        issued'[y].command = issued'[z].command
                 PROVE  Dead(y, BeginLead)' \/ Dead(z, BeginLead)'
      BY DEF OneAlive
    <2>1. ASSUME NEW w \in ChallengeIds \ {x}, Dead(w, BeginLead) PROVE Dead(w, BeginLead)'
      BY <1>1, <1>7, <2>1 DEF Dead, Clock
    <2>2. CASE y = x BY <1>5, <1>7, <1>15, <2>1, <2>2
    <2>3. CASE z = x BY <1>5, <1>7, <1>15, <2>1, <2>3
    <2>4. CASE y # x /\ z # x BY <1>7, <2>1, <2>4 DEF RetentionInv, OneAlive
    <2> QED BY <2>2, <2>3, <2>4
  <1> QED BY <1>9, <1>10, <1>12, <1>13, <1>14, <1>16 DEF RetentionInv

LEMMA NextRetention == ASSUME RetentionInv, [Next]_vars PROVE RetentionInv'
  <1>1. CASE Tick BY <1>1, TickStep
  <1>2. ASSUME NEW c \in Calls, Receive(c) \/ Step(c) \/ End(c) PROVE RetentionInv'
    BY <1>2, QuietStep, PruneChallengesStep, PruneCommandsStep, ClaimStep, StartStep,
       ConsumeStep, CheckDeadlineStep, CompleteStep, CommitBeginStep DEF Step
  <1>3. CASE UNCHANGED vars
    <2>1. /\ Types /\ UNCHANGED <<now, tables, calls, history>>
          /\ UNCHANGED <<pc, command, host, deadline, started>>
      BY <1>3 DEF RetentionInv, vars, calls
    <2>2. Types' BY <2>1 DEF Types, tables, history
    <2>3. Rest' BY <2>1, SameData DEF NoneStarts
    <2>4. ASSUME NEW c \in Calls PROVE CallOK(c)'
      BY <2>1 DEF RetentionInv, CallOK, Overdue, Clock, tables, history
    <2> QED BY <2>2, <2>3, <2>4, Joined
  <1> QED BY <1>1, <1>2, <1>3 DEF Next

LEMMA RetentionInvariant == Spec => []RetentionInv
  <1>1. Init => RetentionInv BY InitRetention
  <1>2. RetentionInv /\ [Next]_vars => RetentionInv' BY NextRetention
  <1> QED BY <1>1, <1>2, PTL DEF Spec

-----------------------------------------------------------------------------
LEMMA NotDead ==
  ASSUME Types, NEW x \in ChallengeIds, NEW lead \in Int, AliveFor(x, lead)
  PROVE  issued[x] # NoRow /\ ~Dead(x, lead)
  BY TimeTypes, CeremonyTypes DEF AliveFor, Dead

\* Retries of a begin leave two open ceremonies only for the last BeginLead of the
\* first, for all periods that validate admits, all clocks and all waits.
THEOREM OneCeremonyPerBegin == Spec => []OneOpenCeremonyPerCommand
  <1>1. RetentionInv => OneOpenCeremonyPerCommand
    BY NotDead, LeadTypes DEF RetentionInv, OneAlive, OneOpenCeremonyPerCommand
  <1> QED BY <1>1, RetentionInvariant, PTL

\* prune takes no ceremony that some instance would still finish, but for what the
\* skew exceeds the grace by.
THEOREM CeremoniesAreKept == Spec => []AliveCeremonyIsKept
  <1>1. RetentionInv => AliveCeremonyIsKept
    <2> SUFFICES ASSUME RetentionInv, NEW x \in ChallengeIds,
                        AliveFor(x, MaxSkew - Grace), challenges[x] = NoRow
                 PROVE  FALSE
      BY DEF AliveCeremonyIsKept
    <2>1. Types /\ CeremonyOK(x) BY DEF RetentionInv
    <2>2. PICK i \in Instances : Clock(i) + (MaxSkew - Grace) < issued[x].expires
      BY DEF AliveFor
    <2>3. /\ issued[x].expires \in Int /\ issued[x].expires < Clock(Database) - Grace
      BY <2>1, CeremonyTypes DEF CeremonyOK, AliveFor
    <2>4. /\ Offset[Database] - Offset[i] <= MaxSkew
          /\ MaxSkew \in Nat /\ Grace \in Nat
      BY ClockAssumption DEF Clocks
    <2>5. /\ now \in Nat /\ Offset[Database] \in Nat /\ Offset[i] \in Nat
          /\ Clock(Database) = now + Offset[Database] /\ Clock(i) = now + Offset[i]
      BY <2>1, TimeTypes
    <2> QED BY <2>2, <2>3, <2>4, <2>5
  <1> QED BY <1>1, RetentionInvariant, PTL

\* A finish is measured from the start of its transaction, later than the deadline
\* it met was drawn: its receipt stays until FinishLead before that deadline, for
\* all periods, clocks and waits.
THEOREM FinishReceiptsAreKept == Spec => []FinishReceiptOutlivesCeremony
  <1>1. RetentionInv => FinishReceiptOutlivesCeremony
    BY NotDead, LeadTypes DEF RetentionInv, SpentOK, FinishReceiptOutlivesCeremony
  <1> QED BY <1>1, RetentionInvariant, PTL

\* A claim that finds a row and then no row has lost it to prune, for its age.
THEOREM LostReplaysAreOverdue == Spec => []LostReplayWasOverdue
  <1>1. RetentionInv => LostReplayWasOverdue
    BY DEF RetentionInv, CallOK, Overdue, LostReplayWasOverdue
  <1> QED BY <1>1, RetentionInvariant, PTL
=============================================================================
