---------------------------- MODULE MCTransactions ----------------------------
(***************************************************************************)
(* Small instances of SubjectTransactions.                                 *)
(***************************************************************************)
EXTENDS SubjectTransactions, TLC

CONSTANTS alice, bob, c1

CallSymmetry == Permutations(Calls)

BeginRegistration(s, n) == [kind |-> "begin_registration", subject |-> s, expected |-> n]

FinishRegistration(s, k, n) ==
  [kind |-> "finish_registration", subject |-> s, expected |-> n, credential |-> k, count |-> 1]

BeginAuthentication(s) == [kind |-> "begin_authentication", subject |-> s]

FinishAuthentication(s, k, n) ==
  [kind |-> "finish_authentication", subject |-> s, credential |-> k, count |-> n]

Revoke(s, k, n) == [kind |-> "revoke_passkey", subject |-> s, credential |-> k, expected |-> n]

\* Every kind of transaction on one subject, among them a second revocation of one
\* passkey, and a second subject that enrolls the same credential.  Of three calls,
\* two may hold a connection and a row each while the third waits for either.
MixedJobs ==
  {BeginRegistration(alice, 0), BeginRegistration(bob, 0),
   FinishRegistration(alice, c1, 0), FinishRegistration(bob, c1, 0),
   BeginAuthentication(alice), FinishAuthentication(alice, c1, 2),
   Revoke(alice, c1, 1), Revoke(alice, c1, 2)}

\* Fewer, for the liveness of three calls.
EnrollmentJobs ==
  {BeginRegistration(alice, 0), BeginRegistration(bob, 0),
   FinishRegistration(alice, c1, 0), FinishRegistration(bob, c1, 0)}
=============================================================================
