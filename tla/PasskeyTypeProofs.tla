-------------------------- MODULE PasskeyTypeProofs --------------------------
(***************************************************************************)
(* Type correctness of PasskeyPlugin for every value of its constants, and *)
(* what its steps leave alone.                                             *)
(***************************************************************************)
EXTENDS PasskeyProperties, TLAPS

\* A request has the fields its operation reads.
LEMMA RequestFields ==
  ASSUME NEW r \in Requests
  PROVE  /\ r.op \in Operations
         /\ r.caller \in Callers
         /\ r.op # "finish_authentication" => r.subject \in Subjects
         /\ r.op \in FinishOperations => r.challenge \in ChallengeIds
         /\ r.op = "revoke_passkey" => r.passkey \in PasskeyIds
         /\ r.op # "list_passkeys" => r \in Commands /\ CommandKey(r) \in CommandKeys
  BY RequestsAssumption DEF Commands, CommandKeys, Callers

THEOREM InitTypes == Init => TypeOK
  <1> SUFFICES ASSUME Init PROVE TypeOK OBVIOUS
  <1> USE DEF Init, StorageInit, Quiet
  <1>1. TablesTypeOK BY DEF TablesTypeOK
  <1>2. CallsTypeOK BY DEF CallsTypeOK, Stages
  <1>3. WorldTypeOK BY DEF WorldTypeOK
  <1>4. ASSUME NEW c \in Calls PROVE LocalsOK(c) BY DEF LocalsOK
  <1> QED BY <1>1, <1>2, <1>3, <1>4 DEF TypeOK

\* The calls a step leaves alone keep what they have computed.
LEMMA OthersKeepLocals ==
  ASSUME NEW c \in Calls, LocalsOK(c),
         pc'[c] = pc[c], request'[c] = request[c], ceremony'[c] = ceremony[c],
         verified'[c] = verified[c], answer'[c] = answer[c]
  PROVE  LocalsOK(c)'
  BY DEF LocalsOK, HoldsCeremony, HoldsResult, Op

-----------------------------------------------------------------------------
\* What the statements of PasskeyStorage preserve

CommandsTyped == commands \in [CommandKeys -> CommandRow \cup {NoRow}]
ChallengesTyped == challenges \in [ChallengeIds -> ChallengeRow \cup {NoRow}]

LEMMA ReserveTypes ==
  ASSUME CommandsTyped, NEW r \in Commands, ReserveCommand(r)
  PROVE  CommandsTyped'
  BY DEF CommandsTyped, ReserveCommand, CommandRow, Incomplete, CommandKeys

LEMMA CompleteTypes ==
  ASSUME CommandsTyped, NEW k \in CommandKeys, NEW st \in Completed,
         NEW a \in Answers \cup {NoRow}, CompleteCommand(k, st, a)
  PROVE  CommandsTyped'
  BY DEF CommandsTyped, CompleteCommand, HasStatus, CommandRow

LEMMA SetStatusTypes ==
  ASSUME CommandsTyped, NEW k \in CommandKeys, NEW from, NEW to \in Incomplete,
         SetStatus(k, from, to)
  PROVE  CommandsTyped'
  BY DEF CommandsTyped, SetStatus, HasStatus, CommandRow

LEMMA PruneTypes ==
  /\ CommandsTyped /\ PruneCommands => CommandsTyped'
  /\ ChallengesTyped /\ PruneChallenges => ChallengesTyped'
  BY DEF CommandsTyped, ChallengesTyped, PruneCommands, PruneChallenges

LEMMA ConsumeTypes ==
  ASSUME ChallengesTyped, NEW r \in Requests, r.op # "list_passkeys",
         r.challenge \in ChallengeIds, challenges[r.challenge] # NoRow,
         ConsumeChallenge(r.challenge, r)
  PROVE  ChallengesTyped'
  <1>1. CommandKey(r) \in CommandKeys BY RequestFields
  <1> QED BY <1>1 DEF ChallengesTyped, ConsumeChallenge, ChallengeRow

LEMMA InsertTypes ==
  ASSUME ChallengesTyped, revision \in [Subjects -> Nat], minted \subseteq ChallengeIds,
         NEW x, NEW kind \in {"registration", "authentication"}, NEW r \in Requests,
         r.subject \in Subjects, NEW state \in SUBSET Credentials,
         InsertChallenge(x, kind, r, state)
  PROVE  /\ ChallengesTyped'
         /\ minted' \subseteq ChallengeIds
         /\ minted \subseteq minted'
         /\ x \in ChallengeIds
  <1>1. r.caller \in Callers BY RequestFields
  <1> QED BY <1>1 DEF ChallengesTyped, InsertChallenge, ChallengeRow

-----------------------------------------------------------------------------
\* One lemma per action

\* Only the call c moves.
OthersKept(c) ==
  \A d \in Calls \ {c} :
    /\ pc'[d] = pc[d] /\ request'[d] = request[d] /\ ceremony'[d] = ceremony[d]
    /\ verified'[d] = verified[d] /\ answer'[d] = answer[d]

LEMMA MoveTypes ==
  ASSUME TypeOK, NEW c \in Calls, OthersKept(c), LocalsOK(c)',
         TablesTypeOK', CallsTypeOK', WorldTypeOK'
  PROVE  TypeOK'
  BY OthersKeepLocals DEF TypeOK, OthersKept

LEMMA ReceiveTypes ==
  ASSUME TypeOK, NEW c \in Calls, Receive(c)
  PROVE  TypeOK'
  <1> USE DEF TypeOK
  <1>0. PICK r \in Requests :
          /\ request' = [request EXCEPT ![c] = r]
          /\ \/ Answer(c, Error("forbidden"))
             \/ Answer(c, Error("invalid_request"))
             \/ GoTo(c, FirstStage(r.op)) /\ UNCHANGED answer
    BY DEF Receive
  <1>r. r.op \in Operations BY RequestFields
  <1>f. FirstStage(r.op) \in Stages /\ r.op \in StageOperations(FirstStage(r.op))
        /\ FirstStage(r.op) \notin {"issue", "receipt", "load_passkeys", "transaction"}
        /\ (r.op \in FinishOperations => FirstStage(r.op) # "directory")
    BY <1>r DEF FirstStage, Stages, StageOperations, Operations, BeginOperations, FinishOperations
  <1>1. TablesTypeOK' BY DEF TablesTypeOK, Receive, tables
  <1>2. CallsTypeOK'
    BY <1>0, <1>f DEF CallsTypeOK, Receive, Answer, GoTo, Error, Answers, Codes, Stages
  <1>3. WorldTypeOK' BY DEF WorldTypeOK, Receive, world
  <1>4. OthersKept(c) BY <1>0 DEF OthersKept, CallsTypeOK, Receive, Answer, GoTo
  <1>5. LocalsOK(c)'
    <2>1. request'[c] = r BY <1>0 DEF CallsTypeOK
    <2>2. pc'[c] \in {"done", FirstStage(r.op)} BY <1>0 DEF CallsTypeOK, Answer, GoTo
    <2>3. r.op \in StageOperations("done") BY <1>r DEF StageOperations
    <2> QED BY <2>1, <2>2, <2>3, <1>f DEF LocalsOK, HoldsCeremony, HoldsResult, Op
  <1> QED BY <1>1, <1>2, <1>3, <1>4, <1>5, MoveTypes

LEMMA ClearTypes ==
  ASSUME TypeOK, NEW c \in Calls, Clear(c), UNCHANGED <<tables, world>>
  PROVE  TypeOK'
  <1> USE DEF TypeOK
  <1>1. TablesTypeOK' BY DEF TablesTypeOK, tables
  <1>2. CallsTypeOK' BY DEF CallsTypeOK, Clear, GoTo, Stages
  <1>3. WorldTypeOK' BY DEF WorldTypeOK, world
  <1>4. OthersKept(c) BY DEF OthersKept, CallsTypeOK, Clear, GoTo
  <1>5. LocalsOK(c)' BY DEF CallsTypeOK, LocalsOK, Clear, GoTo
  <1> QED BY <1>1, <1>2, <1>3, <1>4, <1>5, MoveTypes

\* What the invariant says of a call past its arrival.
LEMMA RunningCall ==
  ASSUME TypeOK, NEW c \in Calls, pc[c] # "idle"
  PROVE  /\ request[c] \in Requests
         /\ Op(c) = request[c].op /\ Op(c) \in Operations
         /\ Op(c) \in StageOperations(pc[c])
         /\ HoldsCeremony(c) => ceremony[c] \in ChallengeRow
         /\ HoldsResult(c) => verified[c] \in Results
         /\ pc[c] \in {"issue", "receipt"} => answer[c] \in Authenticated
         /\ pc[c] = "load_passkeys" => answer[c] \in Listed
         /\ Op(c) # "list_passkeys" => request[c] \in Commands /\ Key(c) \in CommandKeys
  <1>1. request[c] \in Requests BY DEF TypeOK, LocalsOK
  <1> QED BY <1>1, RequestFields DEF TypeOK, LocalsOK, Op, Key

\* The stages of the commands.
LEMMA CommandStage ==
  ASSUME TypeOK, NEW c \in Calls,
         pc[c] \notin {"idle", "directory", "done", "load_subject", "load_passkeys"}
  PROVE  Op(c) # "list_passkeys"
  <1>1. Op(c) \in StageOperations(pc[c]) BY RunningCall
  <1> QED BY <1>1 DEF StageOperations, FinishOperations

LEMMA PruneOldChallengesTypes ==
  ASSUME TypeOK, NEW c \in Calls, PruneOldChallenges(c)
  PROVE  TypeOK'
  <1> USE DEF TypeOK, PruneOldChallenges
  <1>c. Op(c) \in StageOperations("prune_commands")
    BY RunningCall DEF StageOperations
  <1>1. TablesTypeOK' BY PruneTypes DEF TablesTypeOK, ChallengesTyped
  <1>2. CallsTypeOK' BY DEF CallsTypeOK, GoTo, Stages
  <1>3. WorldTypeOK' BY DEF WorldTypeOK, world
  <1>4. OthersKept(c) BY DEF OthersKept, CallsTypeOK, GoTo
  <1>5. LocalsOK(c)'
    BY <1>c DEF CallsTypeOK, LocalsOK, GoTo, HoldsCeremony, HoldsResult, Op
  <1> QED BY <1>1, <1>2, <1>3, <1>4, <1>5, MoveTypes

LEMMA PruneOldCommandsTypes ==
  ASSUME TypeOK, NEW c \in Calls, PruneOldCommands(c)
  PROVE  TypeOK'
  <1> USE DEF TypeOK, PruneOldCommands
  <1>c. Op(c) \in StageOperations("claim") BY RunningCall DEF StageOperations
  <1>1. TablesTypeOK' BY PruneTypes DEF TablesTypeOK, CommandsTyped
  <1>2. CallsTypeOK' BY DEF CallsTypeOK, GoTo, Stages
  <1>3. WorldTypeOK' BY DEF WorldTypeOK, world
  <1>4. OthersKept(c) BY DEF OthersKept, CallsTypeOK, GoTo
  <1>5. LocalsOK(c)'
    BY <1>c DEF CallsTypeOK, LocalsOK, GoTo, HoldsCeremony, HoldsResult, Op
  <1> QED BY <1>1, <1>2, <1>3, <1>4, <1>5, MoveTypes

LEMMA ClaimTypes ==
  ASSUME TypeOK, NEW c \in Calls, Claim(c)
  PROVE  TypeOK'
  <1> USE DEF TypeOK, Claim
  <1>c. request[c] \in Commands /\ Op(c) \in Operations \ {"list_passkeys"}
    BY RunningCall, CommandStage
  <1>s. ClaimedStage(Op(c)) \in {"advance", "directory"}
        /\ (ClaimedStage(Op(c)) = "directory" => Op(c) \notin FinishOperations)
        /\ Op(c) \in StageOperations(ClaimedStage(Op(c)))
        /\ Op(c) \in StageOperations("load_command")
    BY <1>c DEF ClaimedStage, StageOperations
  <1>1. TablesTypeOK' BY <1>c, ReserveTypes DEF TablesTypeOK, CommandsTyped
  <1>2. CallsTypeOK' BY <1>s DEF CallsTypeOK, GoTo, Stages
  <1>3. WorldTypeOK' BY DEF WorldTypeOK, world
  <1>4. OthersKept(c) BY DEF OthersKept, CallsTypeOK, GoTo
  <1>5. LocalsOK(c)'
    BY <1>s DEF CallsTypeOK, LocalsOK, GoTo, HoldsCeremony, HoldsResult, Op
  <1> QED BY <1>1, <1>2, <1>3, <1>4, <1>5, MoveTypes

LEMMA LoadCommandTypes ==
  ASSUME TypeOK, NEW c \in Calls, LoadCommand(c)
  PROVE  TypeOK'
  <1> USE DEF TypeOK, LoadCommand
  <1>c. Op(c) \in StageOperations("done") /\ Key(c) \in CommandKeys
    BY RunningCall, CommandStage DEF StageOperations
  <1>a. ReplayAnswer(request[c]) \in Answers \cup {NoRow}
    BY <1>c DEF ReplayAnswer, Key, TablesTypeOK, CommandRow, Answers, Error, Codes
  <1>1. TablesTypeOK' BY DEF TablesTypeOK, tables
  <1>2. CallsTypeOK' BY <1>a DEF CallsTypeOK, Answer, GoTo, Stages
  <1>3. WorldTypeOK' BY DEF WorldTypeOK, world
  <1>4. OthersKept(c) BY DEF OthersKept, CallsTypeOK, Answer, GoTo
  <1>5. LocalsOK(c)'
    BY <1>c DEF CallsTypeOK, LocalsOK, Answer, GoTo, HoldsCeremony, HoldsResult, Op
  <1> QED BY <1>1, <1>2, <1>3, <1>4, <1>5, MoveTypes

LEMMA AdvanceTypes ==
  ASSUME TypeOK, NEW c \in Calls, Advance(c)
  PROVE  TypeOK'
  <1> USE DEF TypeOK, Advance
  <1>c. Op(c) \in StageOperations("consume") /\ Key(c) \in CommandKeys
    BY RunningCall, CommandStage DEF StageOperations
  <1>1. TablesTypeOK' BY <1>c, SetStatusTypes DEF TablesTypeOK, CommandsTyped, Incomplete
  <1>2. CallsTypeOK' BY DEF CallsTypeOK, GoTo, Stages
  <1>3. WorldTypeOK' BY DEF WorldTypeOK, world
  <1>4. OthersKept(c) BY DEF OthersKept, CallsTypeOK, GoTo
  <1>5. LocalsOK(c)'
    BY <1>c DEF CallsTypeOK, LocalsOK, GoTo, HoldsCeremony, HoldsResult, Op
  <1> QED BY <1>1, <1>2, <1>3, <1>4, <1>5, MoveTypes

-----------------------------------------------------------------------------
\* Refusals

\* A call that refuses leaves an error for its receipt.
LEMMA RefuseTypes ==
  ASSUME TypeOK, NEW c \in Calls, pc[c] # "idle", Op(c) # "list_passkeys",
         NEW code \in Codes, Refuse(c, code),
         UNCHANGED <<request, ceremony, verified, world>>, TablesTypeOK'
  PROVE  TypeOK'
  <1> USE DEF TypeOK, Refuse
  <1>c. Op(c) \in StageOperations("record_error")
    BY RunningCall DEF StageOperations
  <1>2. CallsTypeOK' BY DEF CallsTypeOK, GoTo, Stages, Error, Answers
  <1>3. WorldTypeOK' BY DEF WorldTypeOK, world
  <1>4. OthersKept(c) BY DEF OthersKept, CallsTypeOK, GoTo
  <1>5. LocalsOK(c)'
    BY <1>c DEF CallsTypeOK, LocalsOK, GoTo, HoldsCeremony, HoldsResult, Op
  <1> QED BY <1>2, <1>3, <1>4, <1>5, MoveTypes

LEMMA MissChallengeTypes ==
  ASSUME TypeOK, NEW c \in Calls, MissChallenge(c)
  PROVE  TypeOK'
  <1>1. TablesTypeOK' BY DEF TypeOK, MissChallenge, TablesTypeOK, tables
  <1> QED BY <1>1, CommandStage, RefuseTypes DEF MissChallenge, Codes

\* The challenge a finish call has found.
LEMMA FoundChallenge ==
  ASSUME TypeOK, NEW c \in Calls, pc[c] = "consume",
         ChallengeFound(request[c].challenge, KindOf(Op(c)))
  PROVE  /\ Op(c) \in FinishOperations
         /\ request[c] \in Requests
         /\ request[c].challenge \in ChallengeIds
         /\ challenges[request[c].challenge] \in ChallengeRow
         /\ ConsumeChallenge(request[c].challenge, request[c]) => ChallengesTyped'
  <1>1. request[c] \in Requests /\ Op(c) = request[c].op /\ Op(c) \in FinishOperations
    BY RunningCall DEF StageOperations
  <1>2. request[c].challenge \in ChallengeIds BY <1>1, RequestFields
  <1>3. ChallengesTyped BY DEF TypeOK, TablesTypeOK, ChallengesTyped
  <1>4. request[c].op # "list_passkeys" BY <1>1 DEF FinishOperations
  <1> QED BY <1>1, <1>2, <1>3, <1>4, ConsumeTypes DEF ChallengeFound, ChallengesTyped

LEMMA RefuseChallengeTypes ==
  ASSUME TypeOK, NEW c \in Calls, RefuseChallenge(c)
  PROVE  TypeOK'
  <1>1. ChallengesTyped' BY FoundChallenge DEF RefuseChallenge
  <1>2. TablesTypeOK' BY <1>1 DEF TypeOK, RefuseChallenge, TablesTypeOK, ChallengesTyped
  <1>3. ChallengeError(request[c]) \in Codes BY DEF RefuseChallenge, ChallengeError, Codes
  <1> QED BY <1>2, <1>3, CommandStage, RefuseTypes DEF RefuseChallenge

LEMMA DirectoryInactiveTypes ==
  ASSUME TypeOK, NEW c \in Calls, DirectoryInactive(c)
  PROVE  TypeOK'
  <1>1. TablesTypeOK' BY DEF TypeOK, DirectoryInactive, TablesTypeOK, tables
  <1>2. CASE Op(c) # "list_passkeys" /\ Refuse(c, InactiveCode(Op(c)))
    BY <1>1, <1>2, RefuseTypes DEF DirectoryInactive, InactiveCode, Codes
  <1>3. CASE Op(c) = "list_passkeys" /\ Answer(c, Error("disabled"))
    <2> USE <1>3 DEF TypeOK, DirectoryInactive
    <2>c. Op(c) \in StageOperations("done") BY DEF StageOperations, Operations
    <2>2. CallsTypeOK' BY DEF CallsTypeOK, Answer, GoTo, Stages, Error, Answers, Codes
    <2>3. WorldTypeOK' BY DEF WorldTypeOK, world
    <2>4. OthersKept(c) BY DEF OthersKept, CallsTypeOK, Answer, GoTo
    <2>5. LocalsOK(c)'
      BY <2>c DEF CallsTypeOK, LocalsOK, Answer, GoTo, HoldsCeremony, HoldsResult, Op
    <2> QED BY <1>1, <2>2, <2>3, <2>4, <2>5, MoveTypes
  <1> QED BY <1>2, <1>3 DEF DirectoryInactive

LEMMA TransactionErrorCodes ==
  ASSUME NEW c \in Calls, TransactionError(c) # "none"
  PROVE  TransactionError(c) \in Codes
  <1>1. ASSUME NEW r PROVE BeginRegistrationError(r) \in Codes \cup {"none"}
    BY DEF BeginRegistrationError, Codes
  <1>2. ASSUME NEW r PROVE BeginAuthenticationError(r) \in Codes \cup {"none"}
    BY DEF BeginAuthenticationError, Codes
  <1>3. ASSUME NEW r, NEW v PROVE FinishRegistrationError(r, v) \in Codes \cup {"none"}
    BY DEF FinishRegistrationError, Codes
  <1>4. ASSUME NEW s, NEW v PROVE FinishAuthenticationError(s, v) \in Codes \cup {"none"}
    BY DEF FinishAuthenticationError, Codes
  <1>5. ASSUME NEW r PROVE RevokeError(r) \in Codes \cup {"none"}
    BY DEF RevokeError, Codes
  <1> QED BY <1>1, <1>2, <1>3, <1>4, <1>5 DEF TransactionError

LEMMA RefuseTransactionTypes ==
  ASSUME TypeOK, NEW c \in Calls, RefuseTransaction(c)
  PROVE  TypeOK'
  <1>1. TablesTypeOK' BY DEF TypeOK, RefuseTransaction, TablesTypeOK, tables
  <1> QED BY <1>1, CommandStage, TransactionErrorCodes, RefuseTypes DEF RefuseTransaction

LEMMA IssuerDisabledTypes ==
  ASSUME TypeOK, NEW c \in Calls, IssuerDisabled(c)
  PROVE  TypeOK'
  <1>1. TablesTypeOK' BY DEF TypeOK, IssuerDisabled, TablesTypeOK, tables
  <1> QED BY <1>1, CommandStage, RefuseTypes DEF IssuerDisabled, Codes

-----------------------------------------------------------------------------
\* Ceremonies

LEMMA VerifiedTypes ==
  ASSUME NEW row \in ChallengeRow
  PROVE  VerifiedResults(row) \subseteq Results
  BY DEF VerifiedResults, ChallengeRow, Results

LEMMA AcceptChallengeTypes ==
  ASSUME TypeOK, NEW c \in Calls, AcceptChallenge(c)
  PROVE  TypeOK'
  <1> DEFINE row == challenges[request[c].challenge]
  <1> USE DEF TypeOK
  <1>c. /\ row \in ChallengeRow /\ ChallengesTyped' /\ pc[c] = "consume"
        /\ request[c] \in Requests
    BY FoundChallenge DEF AcceptChallenge
  <1>o. Op(c) \in StageOperations("directory") /\ Op(c) \in StageOperations("record_error")
    BY <1>c, RunningCall, CommandStage DEF StageOperations
  <1>a. \/ /\ GoTo(c, "directory") /\ UNCHANGED <<verified, answer>>
           /\ Op(c) = "finish_registration"
        \/ /\ \E v \in Results : verified' = [verified EXCEPT ![c] = v]
           /\ GoTo(c, "directory") /\ UNCHANGED answer
        \/ Refuse(c, "invalid_credentials") /\ UNCHANGED verified
    BY <1>c, VerifiedTypes
       DEF AcceptChallenge, AcceptRegistrationChallenge, AcceptAuthenticationChallenge
  <1>b. UNCHANGED request /\ ceremony' = [ceremony EXCEPT ![c] = row]
    BY DEF AcceptChallenge
  <1>1. TablesTypeOK' BY <1>c DEF AcceptChallenge, TablesTypeOK, ChallengesTyped
  <1>2. CallsTypeOK'
    BY <1>a, <1>b, <1>c DEF CallsTypeOK, Refuse, GoTo, Stages, Error, Answers, Codes
  <1>3. WorldTypeOK' BY DEF AcceptChallenge, WorldTypeOK, world
  <1>4. OthersKept(c) BY <1>a, <1>b DEF OthersKept, CallsTypeOK, Refuse, GoTo
  <1>5. LocalsOK(c)'
    BY <1>a, <1>b, <1>c, <1>o
       DEF CallsTypeOK, LocalsOK, Refuse, GoTo, HoldsCeremony, HoldsResult, Op
  <1> QED BY <1>1, <1>2, <1>3, <1>4, <1>5, MoveTypes

LEMMA DirectoryActiveTypes ==
  ASSUME TypeOK, NEW c \in Calls, DirectoryActive(c)
  PROVE  TypeOK'
  <1> DEFINE stage == IF Op(c) = "list_passkeys" THEN "load_subject" ELSE "transaction"
  <1> USE DEF TypeOK, DirectoryActive
  <1>c. Op(c) \in StageOperations(stage)
    BY RunningCall DEF StageOperations
  <1>1. TablesTypeOK' BY DEF TablesTypeOK, tables
  <1>2. CallsTypeOK' BY DEF CallsTypeOK, GoTo, Stages
  <1>3. WorldTypeOK' BY DEF WorldTypeOK, world
  <1>4. OthersKept(c) BY DEF OthersKept, CallsTypeOK, GoTo
  <1>5. LocalsOK(c)'
    BY <1>c DEF CallsTypeOK, LocalsOK, GoTo, HoldsCeremony, HoldsResult, Op, FinishOperations
  <1> QED BY <1>1, <1>2, <1>3, <1>4, <1>5, MoveTypes

LEMMA VerifyRegistrationTypes ==
  ASSUME TypeOK, NEW c \in Calls, VerifyRegistration(c)
  PROVE  TypeOK'
  <1> USE DEF TypeOK, VerifyRegistration
  <1>h. HoldsCeremony(c) BY DEF HoldsCeremony, FinishOperations
  <1>c. ceremony[c] \in ChallengeRow /\ Op(c) \in StageOperations("transaction")
    BY <1>h, RunningCall DEF StageOperations, Operations
  <1>1. TablesTypeOK' BY DEF TablesTypeOK, tables
  <1>2. CASE Refuse(c, "invalid_credential") /\ UNCHANGED verified
    BY <1>1, <1>2, RefuseTypes DEF Codes
  <1>3. CASE /\ \E v \in VerifiedResults(ceremony[c]) :
                  verified' = [verified EXCEPT ![c] = v]
             /\ GoTo(c, "transaction") /\ UNCHANGED answer
    <2>1. PICK v \in Results : verified' = [verified EXCEPT ![c] = v]
      BY <1>3, <1>c, VerifiedTypes
    <2>2. CallsTypeOK' BY <1>3, <2>1 DEF CallsTypeOK, GoTo, Stages
    <2>3. WorldTypeOK' BY DEF WorldTypeOK, world
    <2>4. OthersKept(c) BY <1>3, <2>1 DEF OthersKept, CallsTypeOK, GoTo
    <2>5. LocalsOK(c)'
      BY <1>3, <2>1, <1>c
         DEF CallsTypeOK, LocalsOK, GoTo, HoldsCeremony, HoldsResult, Op
    <2> QED BY <1>1, <2>2, <2>3, <2>4, <2>5, MoveTypes
  <1> QED BY <1>2, <1>3

-----------------------------------------------------------------------------
\* Commits

\* A call that answers from its transaction, with the tables typed.
LEMMA AnswerTypes ==
  ASSUME TypeOK, NEW c \in Calls, pc[c] # "idle", NEW a \in Answers, Answer(c, a),
         UNCHANGED <<request, ceremony, verified, world>>, TablesTypeOK'
  PROVE  TypeOK'
  <1> USE DEF TypeOK, Answer
  <1>c. Op(c) \in StageOperations("done") BY RunningCall DEF StageOperations
  <1>2. CallsTypeOK' BY DEF CallsTypeOK, GoTo, Stages
  <1>3. WorldTypeOK' BY DEF WorldTypeOK, world
  <1>4. OthersKept(c) BY DEF OthersKept, CallsTypeOK, GoTo
  <1>5. LocalsOK(c)'
    BY <1>c DEF CallsTypeOK, LocalsOK, GoTo, HoldsCeremony, HoldsResult, Op
  <1> QED BY <1>2, <1>3, <1>4, <1>5, MoveTypes

LEMMA CommitAnswerTypes ==
  ASSUME TypeOK, NEW c \in Calls, pc[c] \in {"transaction", "receipt"},
         NEW a \in Answers, CommitAnswer(c, a)
  PROVE  CommandsTyped'
  <1>1. Key(c) \in CommandKeys BY RunningCall, CommandStage
  <1> QED BY <1>1, CompleteTypes
          DEF CommitAnswer, TypeOK, TablesTypeOK, CommandsTyped, Completed

\* What a request of each operation names.
LEMMA CommitFields ==
  ASSUME TypeOK, NEW c \in Calls, NEW op, Commits(c, op)
  PROVE  /\ request[c] \in Requests /\ op = request[c].op /\ op = Op(c)
         /\ op # "finish_authentication" => request[c].subject \in Subjects
         /\ op \in FinishOperations => ceremony[c] \in ChallengeRow /\ verified[c] \in Results
         /\ op = "revoke_passkey" => request[c].passkey \in PasskeyIds
         /\ Key(c) \in CommandKeys
  <1>1. pc[c] = "transaction" /\ Op(c) = op BY DEF Commits
  <1>2. request[c] \in Requests /\ op = request[c].op /\ Key(c) \in CommandKeys
    BY <1>1, RunningCall, CommandStage
  <1>3. op \in FinishOperations => HoldsCeremony(c) /\ HoldsResult(c)
    BY <1>1 DEF HoldsCeremony, HoldsResult
  <1> QED BY <1>1, <1>2, <1>3, RunningCall, RequestFields

LEMMA CommitBeginRegistrationTypes ==
  ASSUME TypeOK, NEW c \in Calls, CommitBeginRegistration(c)
  PROVE  TypeOK'
  <1> DEFINE s == request[c].subject
             a(x) == [challenge |-> x, revision |-> revision[s]]
  <1>1. request[c] \in Requests /\ s \in Subjects /\ pc[c] = "transaction"
    BY CommitFields DEF CommitBeginRegistration, Commits
  <1>2. PICK x \in ChallengeIds :
          /\ InsertChallenge(x, "registration", request[c], {})
          /\ CommitAnswer(c, a(x))
    BY DEF CommitBeginRegistration
  <1>3. a(x) \in Answers BY <1>1 DEF TypeOK, TablesTypeOK, Answers
  <1>4. CommandsTyped' BY <1>1, <1>2, <1>3, CommitAnswerTypes
  <1>5. ChallengesTyped' /\ minted' \subseteq ChallengeIds /\ minted \subseteq minted'
    <2>1. ChallengesTyped /\ revision \in [Subjects -> Nat] /\ minted \subseteq ChallengeIds
      BY DEF TypeOK, TablesTypeOK, ChallengesTyped
    <2> QED BY <1>1, <1>2, <2>1, InsertTypes
  <1>6. TablesTypeOK'
    BY <1>1, <1>4, <1>5
       DEF CommitBeginRegistration, TypeOK, TablesTypeOK, CommandsTyped, ChallengesTyped
  <1> QED BY <1>1, <1>2, <1>3, <1>6, AnswerTypes DEF CommitBeginRegistration, CommitAnswer

LEMMA CommitBeginAuthenticationTypes ==
  ASSUME TypeOK, NEW c \in Calls, CommitBeginAuthentication(c)
  PROVE  TypeOK'
  <1> DEFINE s == request[c].subject
             a(x) == [challenge |-> x, revision |-> revision[s]]
             offered == {passkeys[p].credential : p \in ActiveRows(s)}
  <1>1. request[c] \in Requests /\ s \in Subjects /\ pc[c] = "transaction"
    BY CommitFields DEF CommitBeginAuthentication, Commits
  <1>2. PICK x \in ChallengeIds :
          /\ InsertChallenge(x, "authentication", request[c], offered)
          /\ CommitAnswer(c, a(x))
    BY DEF CommitBeginAuthentication
  <1>3. a(x) \in Answers BY <1>1 DEF TypeOK, TablesTypeOK, Answers
  <1>4. CommandsTyped' BY <1>1, <1>2, <1>3, CommitAnswerTypes
  <1>5. ChallengesTyped' /\ minted' \subseteq ChallengeIds /\ minted \subseteq minted'
    <2>1. ChallengesTyped /\ revision \in [Subjects -> Nat] /\ minted \subseteq ChallengeIds
      BY DEF TypeOK, TablesTypeOK, ChallengesTyped
    <2>2. offered \in SUBSET Credentials
      BY DEF TypeOK, TablesTypeOK, ActiveRows, RowsOf, PasskeyRow
    <2> HIDE DEF offered
    <2> QED BY <1>1, <1>2, <2>1, <2>2, InsertTypes
  <1>6. TablesTypeOK'
    BY <1>1, <1>4, <1>5
       DEF CommitBeginAuthentication, TypeOK, TablesTypeOK, CommandsTyped, ChallengesTyped
  <1> QED BY <1>1, <1>2, <1>3, <1>6, AnswerTypes DEF CommitBeginAuthentication, CommitAnswer

LEMMA CommitFinishRegistrationTypes ==
  ASSUME TypeOK, NEW c \in Calls, CommitFinishRegistration(c)
  PROVE  TypeOK'
  <1> DEFINE s == request[c].subject
             a(p) == [passkey |-> p, revision |-> revision[s] + 1]
  <1>1. s \in Subjects /\ verified[c] \in Results /\ pc[c] = "transaction"
    BY CommitFields DEF CommitFinishRegistration, Commits, FinishOperations
  <1>2. PICK p \in PasskeyIds :
          /\ passkeys' = [passkeys EXCEPT ![p] =
               NewPasskey(s, verified[c].credential, verified[c].counter)]
          /\ CommitAnswer(c, a(p))
    BY DEF CommitFinishRegistration
  <1>3. a(p) \in Answers BY <1>1 DEF TypeOK, TablesTypeOK, Answers
  <1>4. CommandsTyped' BY <1>1, <1>2, <1>3, CommitAnswerTypes
  <1>5. NewPasskey(s, verified[c].credential, verified[c].counter) \in PasskeyRow
    BY <1>1, ConfigAssumption DEF Results, PasskeyRow, NewPasskey
  <1>6. TablesTypeOK'
    BY <1>1, <1>2, <1>4, <1>5
       DEF CommitFinishRegistration, AdvanceCollection, TypeOK, TablesTypeOK, CommandsTyped
  <1> QED BY <1>1, <1>2, <1>3, <1>6, AnswerTypes DEF CommitFinishRegistration, CommitAnswer

LEMMA UsedPasskeyTypes ==
  ASSUME NEW row \in PasskeyRow, NEW n \in Nat
  PROVE  UsedPasskey(row, n) \in PasskeyRow
  <1>1. (IF n > row.signCount THEN n ELSE row.signCount) \in Nat /\ row.revision + 1 \in Nat
    BY DEF PasskeyRow
  <1> QED BY <1>1 DEF UsedPasskey, PasskeyRow

LEMMA CommitFinishAuthenticationTypes ==
  ASSUME TypeOK, NEW c \in Calls, CommitFinishAuthentication(c)
  PROVE  TypeOK'
  <1> DEFINE s == SubjectOf(c)
             a(p) == [subject |-> s, passkey |-> p, revision |-> revision[s] + 1,
                      session |-> 0]
  <1> USE DEF TypeOK
  <1>1. /\ s \in Subjects /\ verified[c] \in Results /\ Key(c) \in CommandKeys
        /\ ceremony[c] \in ChallengeRow /\ request[c] \in Requests
        /\ Op(c) = "finish_authentication"
    <2>1. Commits(c, "finish_authentication") BY DEF CommitFinishAuthentication
    <2> QED BY <2>1, CommitFields DEF FinishOperations, SubjectOf, ChallengeRow
  <1>2. PICK p \in AuthenticatedRows(s, verified[c]) :
          /\ passkeys' = [passkeys EXCEPT ![p] = UsedPasskey(@, verified[c].counter)]
          /\ answer' = [answer EXCEPT ![c] = a(p)]
    BY DEF CommitFinishAuthentication
  <1>3. p \in PasskeyIds /\ passkeys[p] \in PasskeyRow
    BY DEF AuthenticatedRows, ActiveRows, RowsOf, TablesTypeOK
  <1>4. a(p) \in Authenticated BY <1>1, <1>3 DEF TablesTypeOK, Authenticated
  <1>5. CommandsTyped'
    BY <1>1, SetStatusTypes
       DEF CommitFinishAuthentication, TablesTypeOK, CommandsTyped, Incomplete
  <1>6. UsedPasskey(passkeys[p], verified[c].counter) \in PasskeyRow
    BY <1>1, <1>3, UsedPasskeyTypes, ConfigAssumption DEF Results
  <1>7. TablesTypeOK'
    <2>1. passkeys' \in [PasskeyIds -> PasskeyRow \cup {NoRow}]
      BY <1>2, <1>3, <1>6 DEF TablesTypeOK
    <2>2. revision' \in [Subjects -> Nat]
      BY <1>1 DEF CommitFinishAuthentication, AdvanceCollection, TablesTypeOK
    <2> QED BY <1>5, <2>1, <2>2
            DEF CommitFinishAuthentication, TablesTypeOK, CommandsTyped
  <1>8. CallsTypeOK'
    BY <1>2, <1>4 DEF CommitFinishAuthentication, CallsTypeOK, GoTo, Stages, Answers
  <1>9. WorldTypeOK' BY DEF CommitFinishAuthentication, WorldTypeOK, world
  <1>10. OthersKept(c)
    BY <1>2 DEF CommitFinishAuthentication, OthersKept, CallsTypeOK, GoTo
  <1>11. LocalsOK(c)'
    BY <1>1, <1>2, <1>4
       DEF CommitFinishAuthentication, CallsTypeOK, LocalsOK, GoTo, HoldsCeremony,
           HoldsResult, Op, StageOperations
  <1> QED BY <1>7, <1>8, <1>9, <1>10, <1>11, MoveTypes

LEMMA RevokedPasskeyTypes ==
  ASSUME NEW row \in PasskeyRow
  PROVE  RevokedPasskey(row) \in PasskeyRow
  <1>1. row.revision + 1 \in Nat BY DEF PasskeyRow
  <1> QED BY <1>1 DEF RevokedPasskey, PasskeyRow

LEMMA CommitRevokeTypes ==
  ASSUME TypeOK, NEW c \in Calls, CommitRevoke(c)
  PROVE  TypeOK'
  <1> DEFINE s == request[c].subject
             p == request[c].passkey
             a == [passkey |-> p, revoked |-> ~passkeys[p].revoked,
                   revision |-> revision'[s], passkeyRevision |-> passkeys'[p].revision]
  <1>1. s \in Subjects /\ p \in PasskeyIds /\ pc[c] = "transaction"
        /\ TransactionError(c) = "none" /\ Op(c) = "revoke_passkey"
    BY CommitFields DEF CommitRevoke, Commits
  <1>2. passkeys[p] \in PasskeyRow
    <2>1. RevokeError(request[c]) = "none" BY <1>1 DEF TransactionError
    <2> QED BY <1>1, <2>1 DEF RevokeError, RowsOf, TypeOK, TablesTypeOK
  <1>3. RevokedPasskey(passkeys[p]) \in PasskeyRow BY <1>2, RevokedPasskeyTypes
  <1>4. /\ revision' \in [Subjects -> Nat]
        /\ passkeys' \in [PasskeyIds -> PasskeyRow \cup {NoRow}]
        /\ passkeys'[p] \in PasskeyRow
    BY <1>1, <1>2, <1>3 DEF CommitRevoke, AdvanceCollection, TypeOK, TablesTypeOK
  <1>5. a \in Answers
    BY <1>1, <1>2, <1>4 DEF Answers, PasskeyRow
  <1>6. CommitAnswer(c, a) BY DEF CommitRevoke
  <1>7. CommandsTyped' BY <1>1, <1>5, <1>6, CommitAnswerTypes
  <1>8. TablesTypeOK' BY <1>4, <1>7 DEF CommitRevoke, TypeOK, TablesTypeOK, CommandsTyped
  <1> HIDE DEF a
  <1> QED BY <1>1, <1>5, <1>6, <1>8, AnswerTypes DEF CommitRevoke, CommitAnswer

LEMMA RecordErrorTypes ==
  ASSUME TypeOK, NEW c \in Calls, RecordError(c)
  PROVE  TypeOK'
  <1> USE DEF TypeOK, RecordError
  <1>c. Op(c) \in StageOperations("done") /\ Key(c) \in CommandKeys
    BY RunningCall, CommandStage DEF StageOperations
  <1>1. TablesTypeOK'
    BY <1>c, CompleteTypes DEF TablesTypeOK, CommandsTyped, CallsTypeOK, Completed
  <1>2. CallsTypeOK' BY DEF CallsTypeOK, GoTo, Stages
  <1>3. WorldTypeOK' BY DEF WorldTypeOK, world
  <1>4. OthersKept(c) BY DEF OthersKept, CallsTypeOK, GoTo
  <1>5. LocalsOK(c)'
    BY <1>c DEF CallsTypeOK, LocalsOK, GoTo, HoldsCeremony, HoldsResult, Op
  <1> QED BY <1>1, <1>2, <1>3, <1>4, <1>5, MoveTypes

LEMMA IssueSessionTypes ==
  ASSUME TypeOK, NEW c \in Calls, IssueSession(c)
  PROVE  TypeOK'
  <1> USE DEF TypeOK, IssueSession
  <1>c. /\ request[c] \in Requests /\ Op(c) = "finish_authentication"
        /\ Op(c) = request[c].op
        /\ answer[c] \in Authenticated /\ ceremony[c] \in ChallengeRow
        /\ verified[c] \in Results
    BY RunningCall DEF StageOperations, HoldsCeremony, HoldsResult, FinishOperations
  <1>f. request[c].challenge \in ChallengeIds /\ request[c].caller \in Callers
    BY <1>c, RequestFields DEF FinishOperations
  <1>s. SessionFor(c) \in Session
    BY <1>c, <1>f DEF SessionFor, Session, Authenticated, Results
  <1>l. Len(sessions) + 1 \in Nat /\ sessions' \in Seq(Session)
    BY <1>s DEF WorldTypeOK
  <1>a. [answer[c] EXCEPT !.session = Len(sessions) + 1] \in Authenticated
    BY <1>c, <1>l DEF Authenticated
  <1>1. TablesTypeOK' BY DEF TablesTypeOK, tables
  <1>2. CallsTypeOK' BY <1>a DEF CallsTypeOK, GoTo, Stages, Answers
  <1>3. WorldTypeOK' BY <1>l DEF WorldTypeOK
  <1>4. OthersKept(c) BY DEF OthersKept, CallsTypeOK, GoTo
  <1>5. LocalsOK(c)'
    BY <1>a, <1>c
       DEF CallsTypeOK, LocalsOK, GoTo, HoldsCeremony, HoldsResult, Op, StageOperations
  <1> QED BY <1>1, <1>2, <1>3, <1>4, <1>5, MoveTypes

LEMMA CommitReceiptTypes ==
  ASSUME TypeOK, NEW c \in Calls, CommitReceipt(c)
  PROVE  TypeOK'
  <1>1. answer[c] \in Answers BY RunningCall DEF CommitReceipt, Answers
  <1>2. TablesTypeOK'
    BY <1>1, CommitAnswerTypes DEF CommitReceipt, TypeOK, TablesTypeOK, CommandsTyped
  <1> QED BY <1>1, <1>2, AnswerTypes DEF CommitReceipt, CommitAnswer

-----------------------------------------------------------------------------
\* list_passkeys

LEMMA ListingTypes ==
  ASSUME TypeOK, NEW s, NEW all \in BOOLEAN
  PROVE  Listing(s, all) \in SUBSET [passkey: PasskeyIds, row: PasskeyRow]
  BY DEF Listing, RowsOf, ActiveRows, TypeOK, TablesTypeOK

LEMMA LoadSubjectTypes ==
  ASSUME TypeOK, NEW c \in Calls, LoadSubject(c)
  PROVE  TypeOK'
  <1> DEFINE s == request[c].subject
             loaded == [revision |-> revision[s], passkeys |-> {}]
  <1> USE DEF TypeOK, LoadSubject
  <1>c. s \in Subjects /\ Op(c) \in StageOperations("load_passkeys")
    BY RunningCall, RequestFields DEF StageOperations
  <1>a. loaded \in Listed BY <1>c DEF Listed, TablesTypeOK
  <1>1. TablesTypeOK' BY DEF TablesTypeOK, tables
  <1>2. CASE Answer(c, loaded) BY <1>1, <1>2, <1>a, AnswerTypes DEF Answers
  <1>3. CASE GoTo(c, "load_passkeys") /\ answer' = [answer EXCEPT ![c] = loaded]
    <2>2. CallsTypeOK' BY <1>3, <1>a DEF CallsTypeOK, GoTo, Stages, Answers
    <2>3. WorldTypeOK' BY DEF WorldTypeOK, world
    <2>4. OthersKept(c) BY <1>3 DEF OthersKept, CallsTypeOK, GoTo
    <2>5. LocalsOK(c)'
      BY <1>3, <1>a, <1>c DEF CallsTypeOK, LocalsOK, GoTo, HoldsCeremony, HoldsResult, Op
    <2> QED BY <1>1, <2>2, <2>3, <2>4, <2>5, MoveTypes
  <1> QED BY <1>2, <1>3

LEMMA LoadPasskeysTypes ==
  ASSUME TypeOK, NEW c \in Calls, LoadPasskeys(c)
  PROVE  TypeOK'
  <1> DEFINE list == Listing(request[c].subject, request[c].all)
             a == [answer[c] EXCEPT !.passkeys = list]
  <1>1. answer[c] \in Listed /\ request[c] \in Requests
        /\ request[c].op = "list_passkeys"
    BY RunningCall DEF LoadPasskeys, StageOperations
  <1>2. list \in SUBSET [passkey: PasskeyIds, row: PasskeyRow]
    BY <1>1, RequestsAssumption, ListingTypes
  <1>3. a \in Answers
    <2> HIDE DEF list
    <2> QED BY <1>1, <1>2 DEF Listed, Answers
  <1>4. TablesTypeOK' BY DEF LoadPasskeys, TypeOK, TablesTypeOK, tables
  <1> QED BY <1>3, <1>4, AnswerTypes DEF LoadPasskeys

-----------------------------------------------------------------------------
\* The steps that belong to no call

LEMMA WorldStepTypes ==
  ASSUME TypeOK, ChangeDirectory \/ Tick \/ UNCHANGED vars
  PROVE  TypeOK'
  <1> USE DEF TypeOK
  <1>1. TablesTypeOK'
    BY DEF ChangeDirectory, Tick, Expire, vars, tables, TablesTypeOK
  <1>2. UNCHANGED calls BY DEF ChangeDirectory, Tick, vars
  <1>3. CallsTypeOK' BY <1>2 DEF calls, CallsTypeOK
  <1>4. WorldTypeOK' BY DEF ChangeDirectory, Tick, world, vars, WorldTypeOK
  <1>5. ASSUME NEW d \in Calls PROVE LocalsOK(d)'
    BY <1>2, OthersKeepLocals DEF calls
  <1> QED BY <1>1, <1>3, <1>4, <1>5

LEMMA StepTypes ==
  ASSUME TypeOK, NEW c \in Calls, Step(c)
  PROVE  TypeOK'
  BY PruneOldChallengesTypes, PruneOldCommandsTypes, ClaimTypes, LoadCommandTypes,
     AdvanceTypes, MissChallengeTypes, RefuseChallengeTypes, AcceptChallengeTypes,
     DirectoryInactiveTypes, DirectoryActiveTypes, VerifyRegistrationTypes,
     RefuseTransactionTypes, CommitBeginRegistrationTypes,
     CommitBeginAuthenticationTypes, CommitFinishRegistrationTypes,
     CommitFinishAuthenticationTypes, CommitRevokeTypes, RecordErrorTypes,
     IssueSessionTypes, IssuerDisabledTypes, CommitReceiptTypes, LoadSubjectTypes,
     LoadPasskeysTypes
  DEF Step

LEMMA NextTypes == TypeOK /\ [Next]_vars => TypeOK'
  <1> SUFFICES ASSUME TypeOK, [Next]_vars PROVE TypeOK' OBVIOUS
  <1>1. ASSUME NEW c \in Calls, Receive(c) PROVE TypeOK' BY <1>1, ReceiveTypes
  <1>2. ASSUME NEW c \in Calls, Step(c) PROVE TypeOK' BY <1>2, StepTypes
  <1>3. ASSUME NEW c \in Calls, Return(c) \/ Abandon(c) PROVE TypeOK'
    BY <1>3, ClearTypes DEF Return, Abandon
  <1>4. CASE ChangeDirectory \/ Tick \/ UNCHANGED vars BY <1>4, WorldStepTypes
  <1> QED BY <1>1, <1>2, <1>3, <1>4 DEF Next

\* In every behaviour of the Plugin the rows have the types of the schema and each
\* handler has, at each await, the values the code after the await reads.
THEOREM TypeCorrect == Spec => []TypeOK
  BY InitTypes, NextTypes, PTL DEF Spec

-----------------------------------------------------------------------------
\* What the steps leave alone: facts that the proofs of the safety properties share.

\* The call takes no ceremony: one it holds after the step it held before, and it
\* had not got its session yet unless it has it now.
TakesNone(c) ==
  HoldsCeremony(c)' =>
    /\ HoldsCeremony(c) /\ ceremony'[c] = ceremony[c] /\ request'[c] = request[c]
    /\ pc[c] = "receipt" => pc'[c] = "receipt"

\* A step moves the call that takes it only.
LEMMA StepOthersKept ==
  ASSUME TypeOK, NEW c \in Calls, Step(c)
  PROVE  OthersKept(c)
  <1> USE DEF TypeOK, CallsTypeOK, OthersKept
  <1>1. CASE PruneOldChallenges(c)
    BY <1>1 DEF PruneOldChallenges, PruneChallenges, GoTo
  <1>2. CASE PruneOldCommands(c)
    BY <1>2 DEF PruneOldCommands, GoTo
  <1>3. CASE Claim(c)
    BY <1>3 DEF Claim, ClaimedStage, GoTo
  <1>4. CASE LoadCommand(c)
    BY <1>4 DEF LoadCommand, Answer, GoTo
  <1>5. CASE Advance(c)
    BY <1>5 DEF Advance, GoTo
  <1>6. CASE MissChallenge(c)
    BY <1>6 DEF MissChallenge, Refuse, GoTo
  <1>7. CASE RefuseChallenge(c)
    BY <1>7 DEF RefuseChallenge, Refuse, GoTo
  <1>8. CASE AcceptChallenge(c)
    BY <1>8 DEF AcceptChallenge, AcceptRegistrationChallenge,
           AcceptAuthenticationChallenge, Refuse, GoTo
  <1>9. CASE DirectoryInactive(c)
    BY <1>9 DEF DirectoryInactive, Refuse, Answer, GoTo
  <1>10. CASE DirectoryActive(c)
    BY <1>10 DEF DirectoryActive, GoTo
  <1>11. CASE VerifyRegistration(c)
    BY <1>11 DEF VerifyRegistration, Refuse, GoTo
  <1>12. CASE RefuseTransaction(c)
    BY <1>12 DEF RefuseTransaction, Refuse, GoTo
  <1>13. CASE CommitBeginRegistration(c)
    BY <1>13 DEF CommitBeginRegistration, CommitAnswer, Answer, GoTo
  <1>14. CASE CommitBeginAuthentication(c)
    BY <1>14 DEF CommitBeginAuthentication, CommitAnswer, Answer, GoTo
  <1>15. CASE CommitFinishRegistration(c)
    BY <1>15 DEF CommitFinishRegistration, CommitAnswer, Answer, GoTo
  <1>16. CASE CommitFinishAuthentication(c)
    BY <1>16 DEF CommitFinishAuthentication, GoTo
  <1>17. CASE CommitRevoke(c)
    BY <1>17 DEF CommitRevoke, CommitAnswer, Answer, GoTo
  <1>18. CASE RecordError(c)
    BY <1>18 DEF RecordError, GoTo
  <1>19. CASE IssueSession(c)
    BY <1>19 DEF IssueSession, GoTo
  <1>20. CASE IssuerDisabled(c)
    BY <1>20 DEF IssuerDisabled, Refuse, GoTo
  <1>21. CASE CommitReceipt(c)
    BY <1>21 DEF CommitReceipt, CommitAnswer, Answer, GoTo
  <1>22. CASE LoadSubject(c)
    BY <1>22 DEF LoadSubject, Answer, GoTo
  <1>23. CASE LoadPasskeys(c)
    BY <1>23 DEF LoadPasskeys, Answer, GoTo
  <1> QED
    BY <1>1, <1>2, <1>3, <1>4, <1>5, <1>6, <1>7, <1>8, <1>9, <1>10,
          <1>11, <1>12, <1>13, <1>14, <1>15, <1>16, <1>17, <1>18, <1>19,
          <1>20, <1>21, <1>22, <1>23
    DEF Step

\* Only AcceptChallenge takes a ceremony.
LEMMA StepTakesNone ==
  ASSUME TypeOK, NEW c \in Calls, Step(c), ~AcceptChallenge(c)
  PROVE  TakesNone(c)
  <1> USE DEF TypeOK, CallsTypeOK, TakesNone, HoldsCeremony, FinishOperations, Op, Commits
  <1>1. CASE PruneOldChallenges(c)
    BY <1>1 DEF PruneOldChallenges, PruneChallenges, GoTo
  <1>2. CASE PruneOldCommands(c)
    BY <1>2 DEF PruneOldCommands, GoTo
  <1>3. CASE Claim(c)
    BY <1>3 DEF Claim, ClaimedStage, GoTo
  <1>4. CASE LoadCommand(c)
    BY <1>4 DEF LoadCommand, Answer, GoTo
  <1>5. CASE Advance(c)
    BY <1>5 DEF Advance, GoTo
  <1>6. CASE MissChallenge(c)
    BY <1>6 DEF MissChallenge, Refuse, GoTo
  <1>7. CASE RefuseChallenge(c)
    BY <1>7 DEF RefuseChallenge, Refuse, GoTo
  <1>9. CASE DirectoryInactive(c)
    BY <1>9 DEF DirectoryInactive, Refuse, Answer, GoTo
  <1>10. CASE DirectoryActive(c)
    BY <1>10 DEF DirectoryActive, GoTo
  <1>11. CASE VerifyRegistration(c)
    BY <1>11 DEF VerifyRegistration, Refuse, GoTo
  <1>12. CASE RefuseTransaction(c)
    BY <1>12 DEF RefuseTransaction, Refuse, GoTo
  <1>13. CASE CommitBeginRegistration(c)
    BY <1>13 DEF CommitBeginRegistration, CommitAnswer, Answer, GoTo
  <1>14. CASE CommitBeginAuthentication(c)
    BY <1>14 DEF CommitBeginAuthentication, CommitAnswer, Answer, GoTo
  <1>15. CASE CommitFinishRegistration(c)
    BY <1>15 DEF CommitFinishRegistration, CommitAnswer, Answer, GoTo
  <1>16. CASE CommitFinishAuthentication(c)
    BY <1>16 DEF CommitFinishAuthentication, GoTo
  <1>17. CASE CommitRevoke(c)
    BY <1>17 DEF CommitRevoke, CommitAnswer, Answer, GoTo
  <1>18. CASE RecordError(c)
    BY <1>18 DEF RecordError, GoTo
  <1>19. CASE IssueSession(c)
    BY <1>19 DEF IssueSession, GoTo
  <1>20. CASE IssuerDisabled(c)
    BY <1>20 DEF IssuerDisabled, Refuse, GoTo
  <1>21. CASE CommitReceipt(c)
    BY <1>21 DEF CommitReceipt, CommitAnswer, Answer, GoTo
  <1>22. CASE LoadSubject(c)
    BY <1>22 DEF LoadSubject, Answer, GoTo
  <1>23. CASE LoadPasskeys(c)
    BY <1>23 DEF LoadPasskeys, Answer, GoTo
  <1> QED
    BY <1>1, <1>2, <1>3, <1>4, <1>5, <1>6, <1>7, <1>9, <1>10, <1>11,
          <1>12, <1>13, <1>14, <1>15, <1>16, <1>17, <1>18, <1>19, <1>20,
          <1>21, <1>22, <1>23
    DEF Step

\* A call that arrives or ends holds no ceremony.
LEMMA ArrivalTakesNone ==
  ASSUME TypeOK, NEW c \in Calls, Receive(c) \/ Return(c) \/ Abandon(c)
  PROVE  OthersKept(c) /\ TakesNone(c)
  <1> USE DEF TypeOK, CallsTypeOK, OthersKept, TakesNone, HoldsCeremony
  <1>1. CASE Receive(c)
    <2>1. PICK r \in Requests :
            /\ request' = [request EXCEPT ![c] = r]
            /\ \/ GoTo(c, "done")
               \/ GoTo(c, FirstStage(r.op))
      BY <1>1 DEF Receive, Answer
    <2>2. r.op \in FinishOperations => FirstStage(r.op) = "claim"
      BY DEF FirstStage, FinishOperations, BeginOperations
    <2> QED BY <1>1, <2>1, <2>2 DEF Receive, Answer, GoTo, Op
  <1>2. CASE Return(c) \/ Abandon(c)
    BY <1>2 DEF Return, Abandon, Clear, GoTo
  <1> QED BY <1>1, <1>2
=============================================================================
