---------------------------- MODULE CredentialSet ----------------------------
(***************************************************************************)
(* What the Plugin promises about the credentials of each subject: at most *)
(* MaxPasskeys active ones, a credential enrolled once and for one subject *)
(* only, never used again once retired, a signature counter that never     *)
(* falls, and a revision that counts every change of the collection.       *)
(***************************************************************************)
EXTENDS Naturals, FiniteSets

CONSTANTS Subjects, Credentials, Counters, MaxPasskeys

VARIABLES
  revision,  \* changes made to the collection of each subject
  active,    \* the credentials a subject may authenticate with
  retired,   \* the credentials a subject has revoked
  counter    \* the highest counter accepted from each credential

collection == <<revision, active, retired, counter>>

Enrolled == UNION {active[s] \cup retired[s] : s \in Subjects}

Init ==
  /\ revision = [s \in Subjects |-> 0]
  /\ active = [s \in Subjects |-> {}]
  /\ retired = [s \in Subjects |-> {}]
  /\ counter = [k \in Credentials |-> 0]

Enroll(s, k, n) ==
  /\ k \notin Enrolled
  /\ Cardinality(active[s]) < MaxPasskeys
  /\ active' = [active EXCEPT ![s] = @ \cup {k}]
  /\ counter' = [counter EXCEPT ![k] = n]
  /\ revision' = [revision EXCEPT ![s] = @ + 1]
  /\ UNCHANGED retired

\* A counter of zero, reported or stored, is not compared.
Use(s, k, n) ==
  /\ k \in active[s]
  /\ n = 0 \/ counter[k] = 0 \/ n > counter[k]
  /\ counter' = [counter EXCEPT ![k] = IF n > @ THEN n ELSE @]
  /\ revision' = [revision EXCEPT ![s] = @ + 1]
  /\ UNCHANGED <<active, retired>>

Retire(s, k) ==
  /\ k \in active[s]
  /\ active' = [active EXCEPT ![s] = @ \ {k}]
  /\ retired' = [retired EXCEPT ![s] = @ \cup {k}]
  /\ revision' = [revision EXCEPT ![s] = @ + 1]
  /\ UNCHANGED counter

Next ==
  \E s \in Subjects, k \in Credentials :
    \/ \E n \in Counters : Enroll(s, k, n) \/ Use(s, k, n)
    \/ Retire(s, k)

Spec == Init /\ [][Next]_collection
=============================================================================
