------------------------------ MODULE Lifecycle ------------------------------
(***************************************************************************)
(* Activation and deactivation of one Plugin instance while requests are   *)
(* in flight.  activate awaits two secrets and a database connection; its  *)
(* last step fills the two slots.  deactivate empties them and waits for   *)
(* the pool to close.  A handler keeps the activation it found in the slot *)
(* for as long as it runs, and uses the pool of that activation.           *)
(*                                                                         *)
(* The kernel, external, calls activate and deactivate one at a time, and  *)
(* activate only while the Plugin is not active.  A pool, external, is     *)
(* open until it is closed or the last handle to it is dropped.            *)
(***************************************************************************)
EXTENDS Naturals

CONSTANTS
  Calls,
  Activations,  \* the activations the kernel may start, 1..n
  None

ASSUME LifecycleAssumption == Activations \subseteq Nat \ {0} /\ None \notin Activations

VARIABLES
  stage,        \* where the lifecycle stands
  attempt,      \* the activation being started, running or stopped
  active,       \* the slot `active`: an activation
  postgres,     \* the slot `postgres`: the pool of an activation
  opened,       \* the activations whose pool was opened
  closed,       \* those whose pool was told to close
  pc,           \* the await each handler is at
  uses,         \* the activation each handler holds
  connections   \* the handlers that hold a connection

slots == <<active, postgres>>
handlers == <<pc, uses, connections>>
pools == <<opened, closed>>
vars == <<stage, attempt, slots, pools, handlers>>

Working == {"resolving_database", "resolving_key", "preparing", "verifying"}

\* Who has a handle to the pool of activation a: activate, until it has returned, the
\* slots, deactivate, and every handler that found the activation in its slot.
Held(a) ==
  \/ stage \in {"verifying", "closing"} /\ attempt = a
  \/ a \in {active, postgres}
  \/ \E c \in Calls : uses[c] = a

Open(a) == a \in opened \ closed /\ Held(a)

-----------------------------------------------------------------------------
\* activate

StartActivation ==
  /\ stage = "inactive"
  /\ attempt + 1 \in Activations
  /\ attempt' = attempt + 1
  /\ stage' = "resolving_database"
  /\ UNCHANGED <<slots, pools, handlers>>

ResolveDatabaseSecret ==
  /\ stage = "resolving_database"
  /\ stage' = "resolving_key"
  /\ UNCHANGED <<attempt, slots, pools, handlers>>

ResolveKeySecret ==
  /\ stage = "resolving_key"
  /\ stage' = "preparing"
  /\ UNCHANGED <<attempt, slots, pools, handlers>>

\* OwnedPostgres::prepare has opened a pool and verified the schema.
Connect ==
  /\ stage = "preparing"
  /\ opened' = opened \cup {attempt}
  /\ stage' = "verifying"
  /\ UNCHANGED <<attempt, slots, closed, handlers>>

\* The relying party and the key of Auth are in order: both slots at once.
FillSlots ==
  /\ stage = "verifying"
  /\ postgres' = attempt
  /\ active' = attempt
  /\ stage' = "active"
  /\ UNCHANGED <<attempt, pools, handlers>>

\* A secret is refused, comes too late or is too short, the schema is not the
\* expected one, the configuration is of no use, the call is dropped: what activate
\* holds is dropped with it.
FailActivation ==
  /\ stage \in Working
  /\ stage' = "inactive"
  /\ UNCHANGED <<attempt, slots, pools, handlers>>

-----------------------------------------------------------------------------
\* deactivate

\* Mutants of Deactivate: the closing of the pool is not awaited; the pool is left
\* to close with its last handle.
DeactivateWithoutWaiting ==
  /\ stage = "active"
  /\ active' = None
  /\ postgres' = None
  /\ closed' = closed \cup {postgres}
  /\ stage' = "inactive"
  /\ UNCHANGED <<attempt, opened, handlers>>

DeactivateDroppingPool ==
  /\ stage = "active"
  /\ active' = None
  /\ postgres' = None
  /\ stage' = "inactive"
  /\ UNCHANGED <<attempt, pools, handlers>>

\* pool().close() refuses new acquisitions at once ...
Deactivate ==
  /\ stage = "active"
  /\ active' = None
  /\ postgres' = None
  /\ closed' = closed \cup {postgres}
  /\ stage' = "closing"
  /\ UNCHANGED <<attempt, opened, handlers>>

\* ... and returns when the connections in use have come back.
Closed ==
  /\ stage = "closing"
  /\ \A c \in connections : uses[c] # attempt
  /\ stage' = "inactive"
  /\ UNCHANGED <<attempt, slots, pools, handlers>>

-----------------------------------------------------------------------------
\* Handlers

\* self.active()?: without an activation the request fails at once.
Receive(c) ==
  /\ pc[c] = "idle"
  /\ active # None
  /\ uses' = [uses EXCEPT ![c] = active]
  /\ pc' = [pc EXCEPT ![c] = "acquire"]
  /\ UNCHANGED <<stage, attempt, slots, pools, connections>>

\* A statement or a transaction begins.  On a closed pool it fails: see End.
Acquire(c) ==
  /\ pc[c] = "acquire"
  /\ Open(uses[c])
  /\ connections' = connections \cup {c}
  /\ pc' = [pc EXCEPT ![c] = "database"]
  /\ UNCHANGED <<stage, attempt, slots, pools, uses>>

\* Mutant of LeaveDatabase: the transaction stays open while the issuer is asked.
LeaveDatabaseHolding(c) ==
  /\ pc[c] = "database"
  /\ \E next \in {"acquire", "dependency"} :
       /\ pc' = [pc EXCEPT ![c] = next]
       /\ connections' = IF next = "dependency" THEN connections ELSE connections \ {c}
  /\ UNCHANGED <<stage, attempt, slots, pools, uses>>

\* The transaction has committed or rolled back, and its connection is back in the
\* pool, before the handler goes on: to its next statement, or to the Identity
\* Directory or the Credential Issuer.
LeaveDatabase(c) ==
  /\ pc[c] = "database"
  /\ connections' = connections \ {c}
  /\ \E next \in {"acquire", "dependency"} : pc' = [pc EXCEPT ![c] = next]
  /\ UNCHANGED <<stage, attempt, slots, pools, uses>>

\* external: the dependency answers.
LeaveDependency(c) ==
  /\ pc[c] = "dependency"
  /\ pc' = [pc EXCEPT ![c] = "acquire"]
  /\ UNCHANGED <<stage, attempt, slots, pools, uses, connections>>

\* The handler answers, fails or is lost: its transaction ends with it.
End(c) ==
  /\ pc[c] # "idle"
  /\ pc' = [pc EXCEPT ![c] = "idle"]
  /\ uses' = [uses EXCEPT ![c] = None]
  /\ connections' = connections \ {c}
  /\ UNCHANGED <<stage, attempt, slots, pools>>

-----------------------------------------------------------------------------
Init ==
  /\ stage = "inactive"
  /\ attempt = 0
  /\ active = None
  /\ postgres = None
  /\ opened = {}
  /\ closed = {}
  /\ pc = [c \in Calls |-> "idle"]
  /\ uses = [c \in Calls |-> None]
  /\ connections = {}

Next ==
  \/ StartActivation \/ ResolveDatabaseSecret \/ ResolveKeySecret
  \/ Connect \/ FillSlots \/ FailActivation \/ Deactivate \/ Closed
  \/ \E c \in Calls :
       Receive(c) \/ Acquire(c) \/ LeaveDatabase(c) \/ LeaveDependency(c) \/ End(c)

Spec == Init /\ [][Next]_vars

\* A transaction that has its connection ends (EveryTransactionEnds), and the pool
\* notices that it is empty.  Nothing makes a dependency answer or the kernel call.
FairSpec ==
  /\ Spec
  /\ WF_vars(Closed)
  /\ \A c \in Calls : WF_vars(LeaveDatabase(c))

-----------------------------------------------------------------------------
\* Once deactivate has returned no handler of that activation is inside the
\* database, and none gets in again, also when a new activation is running and the
\* handler has outlived its own.
NoDatabaseWorkAfterDeactivation ==
  \A c \in connections :
    stage \in {"active", "closing"} /\ uses[c] = attempt

\* A pool is open only in the slot, where deactivate will find it, or in the hands of
\* an activate that may still fail: neither a failed activation nor a handler that
\* outlives its own keeps one open.
NoPoolIsLost ==
  \A a \in Activations :
    Open(a) => postgres = a \/ (stage = "verifying" /\ attempt = a)

\* deactivate returns, however long the dependencies of the handlers in flight take.
DeactivationEnds == stage = "closing" ~> stage = "inactive"
=============================================================================
