--------------------------- MODULE LifecycleProofs ---------------------------
(***************************************************************************)
(* After deactivate has returned nothing of that activation is left in the *)
(* database, for any number of handlers and of activations, however their  *)
(* steps interleave with those of the kernel.                              *)
(***************************************************************************)
EXTENDS Lifecycle, TLAPS

TypeOK ==
  /\ stage \in Working \cup {"inactive", "active", "closing"}
  /\ attempt \in Nat
  /\ active \in Activations \cup {None}
  /\ postgres \in Activations \cup {None}
  /\ opened \subseteq Activations /\ closed \subseteq Activations
  /\ pc \in [Calls -> {"idle", "acquire", "database", "dependency"}]
  /\ uses \in [Calls -> Activations \cup {None}]
  /\ connections \subseteq Calls

\* The slots are filled with the activation that runs, and empty while none does; the
\* pool of an activation that is being stopped is closed.
SlotsOK ==
  /\ stage # "inactive" => attempt \in Activations
  /\ stage = "active" => active = attempt /\ postgres = attempt
  /\ stage # "active" => active = None /\ postgres = None
  /\ stage = "closing" => attempt \in closed

\* A handler at work holds the activation that runs, or one whose pool is closed.
Served(c) == uses[c] \in closed \/ (stage = "active" /\ uses[c] = attempt)

HandlersOK ==
  \A c \in Calls :
    /\ pc[c] = "idle" <=> uses[c] = None
    /\ uses[c] # None => Served(c)

\* A connection is of the last pool that was open, which deactivate still waits for.
ConnectionsOK ==
  \A c \in connections :
    pc[c] = "database" /\ stage \in {"active", "closing"} /\ uses[c] = attempt

LifecycleInv == TypeOK /\ SlotsOK /\ HandlersOK /\ ConnectionsOK

LEMMA InitLifecycle == Init => LifecycleInv
  BY LifecycleAssumption
     DEF Init, LifecycleInv, TypeOK, SlotsOK, HandlersOK, ConnectionsOK

-----------------------------------------------------------------------------
\* The steps of the kernel leave the handlers where they are.

\* activate: every handler at work is of an activation that was stopped, and no
\* connection is held.
LEMMA ActivationKeeps ==
  ASSUME LifecycleInv,
         \/ StartActivation \/ ResolveDatabaseSecret \/ ResolveKeySecret
         \/ Connect \/ FillSlots \/ FailActivation
  PROVE  LifecycleInv'
  <1> USE DEF LifecycleInv, handlers, slots, pools
  <1>1. stage \notin {"active", "closing"}
    BY DEF StartActivation, ResolveDatabaseSecret, ResolveKeySecret, Connect,
           FillSlots, FailActivation, Working
  <1>2. connections' = {} /\ UNCHANGED handlers /\ UNCHANGED closed
    BY <1>1 DEF ConnectionsOK, StartActivation, ResolveDatabaseSecret,
           ResolveKeySecret, Connect, FillSlots, FailActivation
  <1>3. ConnectionsOK' BY <1>2 DEF ConnectionsOK
  <1>4. HandlersOK' BY <1>1, <1>2 DEF HandlersOK, Served
  <1>5. TypeOK'
    BY <1>2, LifecycleAssumption
       DEF TypeOK, SlotsOK, Working, StartActivation, ResolveDatabaseSecret,
           ResolveKeySecret, Connect, FillSlots, FailActivation
  <1>6. SlotsOK'
    BY DEF TypeOK, SlotsOK, Working, StartActivation, ResolveDatabaseSecret,
           ResolveKeySecret, Connect, FillSlots, FailActivation
  <1> QED BY <1>3, <1>4, <1>5, <1>6

\* deactivate closes the pool of the handlers that are not yet on a closed one, and
\* returns when no connection is left.
LEMMA DeactivationKeeps ==
  ASSUME LifecycleInv, Deactivate \/ Closed
  PROVE  LifecycleInv'
  <1> USE DEF LifecycleInv, handlers, slots, pools
  <1>1. UNCHANGED handlers BY DEF Deactivate, Closed
  <1>2. TypeOK'
    BY <1>1, LifecycleAssumption DEF TypeOK, SlotsOK, Deactivate, Closed
  <1>3. SlotsOK' BY DEF SlotsOK, Deactivate, Closed
  <1>4. HandlersOK'
    BY <1>1 DEF HandlersOK, Served, SlotsOK, Deactivate, Closed
  <1>5. ConnectionsOK' BY <1>1 DEF ConnectionsOK, Deactivate, Closed
  <1> QED BY <1>2, <1>3, <1>4, <1>5

\* A handler takes the activation that runs, gets a connection of an open pool only,
\* and gives it back before it goes on.
LEMMA HandlerKeeps ==
  ASSUME LifecycleInv, NEW c \in Calls,
         Receive(c) \/ Acquire(c) \/ LeaveDatabase(c) \/ LeaveDependency(c) \/ End(c)
  PROVE  LifecycleInv'
  <1> USE DEF LifecycleInv, slots, pools
  <1>1. UNCHANGED <<stage, attempt, slots, pools>>
    BY DEF Receive, Acquire, LeaveDatabase, LeaveDependency, End
  <1>2. SlotsOK' BY <1>1 DEF SlotsOK
  <1>3. TypeOK'
    BY <1>1 DEF TypeOK, Receive, Acquire, LeaveDatabase, LeaveDependency, End
  <1>4. HandlersOK'
    <2>1. CASE Receive(c)
      <3>1. active = attempt /\ stage = "active" BY <2>1 DEF Receive, SlotsOK
      <3> QED BY <1>1, <2>1, <3>1 DEF Receive, TypeOK, HandlersOK, Served
    <2>2. CASE Acquire(c) \/ LeaveDatabase(c) \/ LeaveDependency(c) \/ End(c)
      BY <1>1, <2>2
         DEF TypeOK, HandlersOK, Served, Acquire, LeaveDatabase, LeaveDependency, End
    <2> QED BY <2>1, <2>2
  <1>5. ASSUME NEW d \in connections', d # c
        PROVE  d \in connections /\ pc'[d] = pc[d] /\ uses'[d] = uses[d]
    BY <1>5 DEF TypeOK, Receive, Acquire, LeaveDatabase, LeaveDependency, End
  <1>6. ASSUME c \in connections' PROVE Acquire(c)
    BY <1>6 DEF TypeOK, ConnectionsOK, Receive, LeaveDatabase, LeaveDependency, End
  <1>7. ASSUME Acquire(c)
        PROVE  stage = "active" /\ uses'[c] = attempt /\ pc'[c] = "database"
    BY <1>7 DEF TypeOK, Acquire, Open, HandlersOK, Served
  <1>8. ConnectionsOK' BY <1>1, <1>5, <1>6, <1>7 DEF ConnectionsOK
  <1> QED BY <1>2, <1>3, <1>4, <1>8

LEMMA NextLifecycle == LifecycleInv /\ [Next]_vars => LifecycleInv'
  <1> SUFFICES ASSUME LifecycleInv, [Next]_vars PROVE LifecycleInv' OBVIOUS
  <1>1. CASE \/ StartActivation \/ ResolveDatabaseSecret \/ ResolveKeySecret
             \/ Connect \/ FillSlots \/ FailActivation
    BY <1>1, ActivationKeeps
  <1>2. CASE Deactivate \/ Closed BY <1>2, DeactivationKeeps
  <1>3. ASSUME NEW c \in Calls,
               \/ Receive(c) \/ Acquire(c) \/ LeaveDatabase(c) \/ LeaveDependency(c)
               \/ End(c)
        PROVE  LifecycleInv'
    BY <1>3, HandlerKeeps
  <1>4. CASE UNCHANGED vars
    BY <1>4 DEF vars, slots, pools, handlers, LifecycleInv, TypeOK, SlotsOK,
           HandlersOK, Served, ConnectionsOK
  <1> QED BY <1>1, <1>2, <1>3, <1>4 DEF Next

-----------------------------------------------------------------------------
\* No handler is in the database of an activation that deactivate has ended, also
\* when it has outlived it and another one runs.
THEOREM DatabaseWorkEnds == Spec => []NoDatabaseWorkAfterDeactivation
  <1>1. LifecycleInv => NoDatabaseWorkAfterDeactivation
    BY DEF LifecycleInv, ConnectionsOK, NoDatabaseWorkAfterDeactivation
  <1> QED BY <1>1, InitLifecycle, NextLifecycle, PTL DEF Spec

\* An open pool is in the slot, where deactivate finds it, or in the hands of an
\* activate at work: whoever else has a handle has one to a closed pool.
THEOREM PoolsAreReachable == Spec => []NoPoolIsLost
  <1>1. LifecycleInv => NoPoolIsLost
    <2> SUFFICES ASSUME LifecycleInv, NEW a \in Activations, Open(a)
                 PROVE  postgres = a \/ (stage = "verifying" /\ attempt = a)
      BY DEF NoPoolIsLost
    <2>1. a \notin closed /\ Held(a) /\ a # None BY LifecycleAssumption DEF Open
    <2>2. CASE stage \in {"verifying", "closing"} /\ attempt = a
      BY <2>1, <2>2 DEF LifecycleInv, SlotsOK
    <2>3. CASE a \in {active, postgres}
      BY <2>1, <2>3 DEF LifecycleInv, SlotsOK
    <2>4. ASSUME NEW c \in Calls, uses[c] = a PROVE postgres = a
      BY <2>1, <2>4 DEF LifecycleInv, SlotsOK, HandlersOK, Served
    <2> QED BY <2>1, <2>2, <2>3, <2>4 DEF Held
  <1> QED BY <1>1, InitLifecycle, NextLifecycle, PTL DEF Spec
=============================================================================
