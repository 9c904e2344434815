--------------------------- MODULE MCPasskeyPlugin ---------------------------
(***************************************************************************)
(* Small instances of PasskeyPlugin for TLC.  Each .cfg takes one of the   *)
(* request sets below: the finite set of requests clients may send, and    *)
(* resend, in any order.  Every random id, revision and key is bounded by  *)
(* what the requests and the id sets name; nothing else bounds the runs.   *)
(***************************************************************************)
EXTENDS PasskeyProperties, TLC

CONSTANTS
  alice, bob,     \* subjects
  k1, k2,         \* idempotency keys
  c1, c2,         \* credentials
  p1, p2,         \* passkey ids
  x1, x2, x3,     \* challenge ids
  app, other,     \* caller instances
  MaxOrphans, MaxExpired

\* Exchanging two calls changes nothing, nor does exchanging two credentials where
\* the initial state names none: no request names a call or a credential.
CallSymmetry == Permutations(Calls)
Symmetry == CallSymmetry \cup Permutations(Credentials)

\* Bounds of a run: how many keys wait for a call that was lost, and how many
\* ceremonies pass their deadline.
Orphans == {k \in CommandKeys : HasStatus(k, Incomplete) /\ Holder(k) = NoRow}

Bound == Cardinality(Orphans) <= MaxOrphans /\ Cardinality(expired) <= MaxExpired

\* Bound of the runs that are not about retention: no receipt is pruned, so each key serves one command.
ReceiptsKept == \A k \in CommandKeys : commands[k] # NoRow => commands'[k] # NoRow

-----------------------------------------------------------------------------
\* The requests of the six operations, from an allowed caller about its own user

Command(op, caller, s, key) ==
  [op |-> op, caller |-> caller, actor |-> s, subject |-> s, valid |-> TRUE,
   key |-> key]

BeginRegistration(s, key, n) ==
  Command("begin_registration", app, s, key) @@ [expected |-> n]

FinishRegistration(s, key, x, n) ==
  Command("finish_registration", app, s, key) @@ [challenge |-> x, expected |-> n]

BeginAuthentication(s, key) == Command("begin_authentication", app, s, key)

FinishAuthentication(caller, key, x) ==
  [op |-> "finish_authentication", caller |-> caller, valid |-> TRUE, key |-> key,
   challenge |-> x]

List(s, all) ==
  [op |-> "list_passkeys", caller |-> app, actor |-> s, subject |-> s,
   valid |-> TRUE, all |-> all]

Revoke(s, key, p, n) ==
  Command("revoke_passkey", app, s, key) @@ [passkey |-> p, expected |-> n]

-----------------------------------------------------------------------------
\* Two ceremonies of one subject that are open at the same revision, and a
\* revocation that makes room again.
RegistrationRequests ==
  {BeginRegistration(alice, k1, 0), BeginRegistration(alice, k2, 0),
   FinishRegistration(alice, k1, x1, 0), FinishRegistration(alice, k2, x2, 0),
   Revoke(alice, k1, p1, 1)}

\* Two subjects may enroll the same credential; one of them also authenticates and
\* revokes.  x1 and x2 may be ceremonies of either kind.
CollectionRequests ==
  {BeginRegistration(alice, k1, 0), FinishRegistration(alice, k1, x1, 0),
   BeginRegistration(bob, k1, 0), FinishRegistration(bob, k1, x2, 0),
   BeginAuthentication(alice, k1), FinishAuthentication(app, k1, x2),
   Revoke(alice, k1, p1, 1)}

\* Two ceremonies over one passkey; the first is finished under two keys by the
\* caller that began it, and by another.
CeremonyRequests ==
  {BeginAuthentication(alice, k1), BeginAuthentication(alice, k2),
   FinishAuthentication(app, k1, x1), FinishAuthentication(app, k2, x1),
   FinishAuthentication(other, k1, x1), FinishAuthentication(app, k2, x2)}

\* An authentication and a revocation under keys that are resent, one of them with
\* another intent, while the begin prunes receipts; requests that are refused before
\* they reach a receipt.
ReceiptRequests ==
  {BeginAuthentication(alice, k1), FinishAuthentication(app, k1, x1),
   [FinishAuthentication(app, k1, x1) EXCEPT !.valid = FALSE],
   Revoke(alice, k1, p1, 1), Revoke(alice, k1, p1, 2),
   [Revoke(alice, k1, p1, 1) EXCEPT !.actor = bob]}

\* Listings of a subject whose passkeys are used, added and revoked meanwhile, and
\* of one that has no row.
ListingRequests ==
  {List(alice, FALSE), List(alice, TRUE), List(bob, TRUE), BeginRegistration(alice, k1, 1),
   FinishRegistration(alice, k1, x1, 1), Revoke(alice, k1, p1, 1),
   BeginAuthentication(alice, k1), FinishAuthentication(app, k1, x2)}

-----------------------------------------------------------------------------
\* A state the Plugin reaches by one registration, once retention has removed its
\* ceremony and its receipts: alice has the passkey p1.
RegisteredInit ==
  /\ Quiet
  /\ subjects = {alice}
  /\ revision = [s \in Subjects |-> IF s = alice THEN 1 ELSE 0]
  /\ passkeys = [p \in PasskeyIds |-> IF p = p1 THEN NewPasskey(alice, c1, 0) ELSE NoRow]
  /\ challenges = [x \in ChallengeIds |-> NoRow]
  /\ minted = {}
  /\ expired = {}
  /\ commands = [k \in CommandKeys |-> NoRow]

RegisteredSpec == RegisteredInit /\ [][Next]_vars
=============================================================================
