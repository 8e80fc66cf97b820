---------------------------- MODULE NativeAbiProofs ----------------------------
(***************************************************************************)
(* For every set of threads and of instances: the invariants of NativeAbi, *)
(* and that NativeAbi implements PluginContract.                           *)
(***************************************************************************)
EXTENDS NativeAbi, TLAPS

(* A thread is inside a callback exactly when it holds STATE's guard. *)
GuardInv == \A t \in Threads : pc[t] \in Callbacks <=> mutex = t

(* A thread owns a plugin value exactly between two places of its call. *)
Owning == {"start_init", "start_install", "shut_plugin"}

OwnerInv == \A t \in Threads : held[t] # None <=> pc[t] \in Owning

(* Why GuardInv is not enough: shutdown keeps the guard with STATE emptied, *)
(* an event keeps it with STATE filled.                                     *)
SlotInv ==
  /\ \A t \in Threads : pc[t] = "event_plugin" => installed # None /\ ~failed
  /\ \A t \in Threads : pc[t] = "shut_plugin" => installed = None

IInv == TypeOK /\ GuardInv /\ OwnerInv /\ SlotInv /\ SingleOwner

(* The initial state satisfies the inductive invariant. *)
LEMMA InitIInv == Init => IInv
BY NoneAssumption DEF Init, IInv, TypeOK, GuardInv, OwnerInv, Owning, SlotInv,
   SingleOwner, Callbacks, PcStates, Status

(* Every step of a call and every new call preserves it. *)
LEMMA NextIInv == IInv /\ [Next]_vars => IInv'
<1> USE NoneAssumption DEF IInv, TypeOK, GuardInv, OwnerInv, Owning, SlotInv,
      SingleOwner, Callbacks, PcStates, Status, CanLock, Goto, Return, Alive
<1> SUFFICES ASSUME IInv, [Next]_vars PROVE IInv'
  OBVIOUS
<1>1. CASE UNCHANGED vars
  BY <1>1 DEF vars
<1>2. ASSUME NEW t \in Threads, Enter(t) PROVE IInv'
  <2>1. CASE StartRefused(t)  BY <2>1 DEF StartRefused
  <2>2. CASE CallStart(t)     BY <2>2 DEF CallStart
  <2>3. CASE EventNull(t)     BY <2>3 DEF EventNull
  <2>4. CASE CallEvent(t)     BY <2>4 DEF CallEvent
  <2>5. CASE CallShutdown(t)  BY <2>5 DEF CallShutdown
  <2>6. QED  BY <1>2, <2>1, <2>2, <2>3, <2>4, <2>5 DEF Enter
<1>3. ASSUME NEW t \in Threads, Advance(t) PROVE IInv'
  <2>1. CASE StartOccupied(t)      BY <2>1 DEF StartOccupied
  <2>2. CASE StartVacant(t)        BY <2>2 DEF StartVacant
  <2>3. CASE InitOk(t)             BY <2>3 DEF InitOk
  <2>4. CASE InitFailed(t)         BY <2>4 DEF InitFailed
  <2>5. CASE StartLost(t)          BY <2>5 DEF StartLost
  <2>6. CASE StartInstalled(t)     BY <2>6 DEF StartInstalled
  <2>7. CASE EventUninitialised(t) BY <2>7 DEF EventUninitialised
  <2>8. CASE EventStopped(t)       BY <2>8 DEF EventStopped
  <2>9. CASE EventMalformed(t)     BY <2>9 DEF EventMalformed
  <2>10. CASE EventEnter(t)        BY <2>10 DEF EventEnter
  <2>11. CASE EventReturn(t)       BY <2>11 DEF EventReturn
  <2>12. CASE ShutUninitialised(t) BY <2>12 DEF ShutUninitialised
  <2>13. CASE ShutEnter(t)         BY <2>13 DEF ShutEnter
  <2>14. CASE ShutReturn(t)        BY <2>14 DEF ShutReturn
  <2>15. QED
    BY <1>3, <2>1, <2>2, <2>3, <2>4, <2>5, <2>6, <2>7, <2>8, <2>9, <2>10,
       <2>11, <2>12, <2>13, <2>14 DEF Advance
<1>4. QED
  BY <1>1, <1>2, <1>3 DEF Next

(* The inductive invariant holds in every reachable state. *)
THEOREM Invariance == Spec => []IInv
BY InitIInv, NextIInv, PTL DEF Spec

(* Every variable keeps its type, the five statuses of abi.rs included. *)
THEOREM TypeCorrect == Spec => []TypeOK
<1>1. IInv => TypeOK  BY DEF IInv
<1>2. QED  BY <1>1, Invariance, PTL

(* api.rs 86: on_event and shutdown never overlap, in any plugin instance. *)
THEOREM CallbacksSerialized == Spec => []Serialized
<1>1. IInv => Serialized  BY DEF IInv, GuardInv, Serialized, Callbacks
<1>2. QED  BY <1>1, Invariance, PTL

(* Each plugin value is owned by STATE or by one call, never by both. *)
THEOREM OwnedOnce == Spec => []SingleOwner
<1>1. IInv => SingleOwner  BY DEF IInv
<1>2. QED  BY <1>1, Invariance, PTL

(* An event callback runs on an installed plugin with no failure recorded. *)
THEOREM EventHasPlugin == Spec => []CallbackHasPlugin
<1>1. IInv => CallbackHasPlugin
  BY DEF IInv, GuardInv, SlotInv, CallbackHasPlugin, Callbacks
<1>2. QED  BY <1>1, Invariance, PTL

-------------------------------------------------------------------------------
(***************************************************************************)
(* The refinement.  A step of a thread that touches no instance leaves     *)
(* every phase as it was; any other touches one instance k, whose phase    *)
(* makes one move of the contract while the others stay.                   *)
(***************************************************************************)
phaseBar == [i \in Instances |-> PhaseOf(i)]

(* One instance moves and the rest stay: the form of Contract!Move. *)
LEMMA OneMoves ==
  ASSUME NEW k \in Instances, NEW from, NEW to,
         PhaseOf(k) \in from, PhaseOf(k)' = to,
         \A j \in Instances : j # k => PhaseOf(j)' = PhaseOf(j)
  PROVE  Contract!Move(k, from, to)
BY DEF Contract!Move

(* If the phase of no instance changes, the abstract state stutters. *)
LEMMA NoneMoves ==
  ASSUME \A j \in Instances : PhaseOf(j)' = PhaseOf(j)
  PROVE  UNCHANGED phaseBar
BY DEF phaseBar

(* A move of one instance is a step of the contract. *)
LEMMA StepOfOne ==
  ASSUME NEW k \in Instances, Contract!Step(k)
  PROVE  [Contract!Next]_phaseBar
BY DEF Contract!Next

(* The initial state of abi.rs is an initial state of the contract. *)
LEMMA RefineInit == Init => Contract!Init
BY NoneAssumption DEF Init, Contract!Init, PhaseOf, HeldAt

(* Every step of abi.rs is a step of the contract or leaves all phases alone. *)
LEMMA RefineNext == IInv /\ IInv' /\ [Next]_vars => [Contract!Next]_phaseBar
<1> SUFFICES ASSUME IInv, IInv', [Next]_vars PROVE [Contract!Next]_phaseBar
  OBVIOUS
<1> USE NoneAssumption DEF IInv, TypeOK, GuardInv, OwnerInv, Owning, SlotInv,
      SingleOwner, Callbacks, CanLock, Goto, Return, PhaseOf, HeldAt
<1>1. CASE UNCHANGED vars
  BY <1>1, NoneMoves DEF vars
<1>2. ASSUME NEW t \in Threads, Enter(t) PROVE UNCHANGED phaseBar
  <2>1. \A j \in Instances : PhaseOf(j)' = PhaseOf(j)
    BY <1>2 DEF Enter, StartRefused, CallStart, EventNull, CallEvent, CallShutdown
  <2>2. QED  BY ONLY <2>1, NoneMoves
<1>3. ASSUME NEW t \in Threads, Advance(t) PROVE [Contract!Next]_phaseBar
  <2>1. CASE \/ StartOccupied(t) \/ EventUninitialised(t)
             \/ EventStopped(t) \/ ShutUninitialised(t)
    BY <2>1, NoneMoves
       DEF StartOccupied, EventUninitialised, EventStopped, ShutUninitialised
  <2>2. CASE StartVacant(t)
    <3>1. PICK k \in Instances \ Alive : held' = [held EXCEPT ![t] = k]
      BY <2>2 DEF StartVacant
    <3>2. Contract!BeginInit(k)
      BY <2>2, <3>1, OneMoves DEF StartVacant, Alive, Contract!BeginInit
    <3>3. Contract!Step(k)  BY ONLY <3>2 DEF Contract!Step
    <3>4. QED  BY ONLY <3>1, <3>3, StepOfOne
  <2>3. CASE InitOk(t)
    <3>1. PICK k \in Instances : k = held[t]  BY <2>3 DEF InitOk
    <3>2. Contract!InitSucceeds(k)
      BY <2>3, <3>1, OneMoves DEF InitOk, Contract!InitSucceeds
    <3>3. Contract!Step(k)  BY ONLY <3>2 DEF Contract!Step
    <3>4. QED  BY ONLY <3>1, <3>3, StepOfOne
  <2>4. CASE InitFailed(t)
    <3>1. PICK k \in Instances : k = held[t]  BY <2>4 DEF InitFailed
    <3>2. Contract!InitFails(k)
      BY <2>4, <3>1, OneMoves DEF InitFailed, Contract!InitFails
    <3>3. Contract!Step(k)  BY ONLY <3>2 DEF Contract!Step
    <3>4. QED  BY ONLY <3>1, <3>3, StepOfOne
  <2>5. CASE StartLost(t)
    <3>1. PICK k \in Instances : k = held[t]  BY <2>5 DEF StartLost
    <3>2. Contract!Discard(k)
      BY <2>5, <3>1, OneMoves DEF StartLost, Contract!Discard, Contract!Vacant, Contract!Live
    <3>3. Contract!Step(k)  BY ONLY <3>2 DEF Contract!Step
    <3>4. QED  BY ONLY <3>1, <3>3, StepOfOne
  <2>6. CASE StartInstalled(t)
    <3>1. PICK k \in Instances : k = held[t]  BY <2>6 DEF StartInstalled
    <3>2. Contract!Install(k)
      BY <2>6, <3>1, OneMoves
         DEF StartInstalled, Contract!Install, Contract!Vacant, Contract!Live
    <3>3. Contract!Step(k)  BY ONLY <3>2 DEF Contract!Step
    <3>4. QED  BY ONLY <3>1, <3>3, StepOfOne
  <2>7. CASE EventMalformed(t)
    <3>1. PICK k \in Instances : k = installed  BY <2>7 DEF EventMalformed
    <3>2. Contract!RejectEvent(k)
      BY <2>7, <3>1, OneMoves DEF EventMalformed, Contract!RejectEvent
    <3>3. Contract!Step(k)  BY ONLY <3>2 DEF Contract!Step
    <3>4. QED  BY ONLY <3>1, <3>3, StepOfOne
  <2>8. CASE EventEnter(t)
    <3>1. PICK k \in Instances : k = installed  BY <2>8 DEF EventEnter
    <3>2. Contract!BeginEvent(k)
      BY <2>8, <3>1, OneMoves DEF EventEnter, Contract!BeginEvent
    <3>3. Contract!Step(k)  BY ONLY <3>2 DEF Contract!Step
    <3>4. QED  BY ONLY <3>1, <3>3, StepOfOne
  <2>9. CASE EventReturn(t)
    <3>1. PICK k \in Instances : k = installed  BY <2>9 DEF EventReturn
    <3>2. Contract!EventSucceeds(k) \/ Contract!EventFails(k)
      BY <2>9, <3>1, OneMoves DEF EventReturn, Contract!EventSucceeds, Contract!EventFails
    <3>3. Contract!Step(k)  BY ONLY <3>2 DEF Contract!Step
    <3>4. QED  BY ONLY <3>1, <3>3, StepOfOne
  <2>10. CASE ShutEnter(t)
    <3>1. PICK k \in Instances : k = installed  BY <2>10 DEF ShutEnter
    <3>2. Contract!BeginShutdown(k)
      BY <2>10, <3>1, OneMoves DEF ShutEnter, Contract!BeginShutdown
    <3>3. Contract!Step(k)  BY ONLY <3>2 DEF Contract!Step
    <3>4. QED  BY ONLY <3>1, <3>3, StepOfOne
  <2>11. CASE ShutReturn(t)
    <3>1. PICK k \in Instances : k = held[t]  BY <2>11 DEF ShutReturn
    <3>2. Contract!EndShutdown(k)
      BY <2>11, <3>1, OneMoves DEF ShutReturn, Contract!EndShutdown
    <3>3. Contract!Step(k)  BY ONLY <3>2 DEF Contract!Step
    <3>4. QED  BY ONLY <3>1, <3>3, StepOfOne
  <2>12. QED
    BY <1>3, <2>1, <2>2, <2>3, <2>4, <2>5, <2>6, <2>7, <2>8, <2>9, <2>10, <2>11
       DEF Advance
<1>4. QED
  BY <1>1, <1>2, <1>3 DEF Next

(* The promise of OneLive holds of abi.rs: over all instances at most one is *)
(* installed or shutting down, so a new plugin goes live only after the      *)
(* shutdown of the last one has returned.                                    *)
THEOREM OneLivePlugin == Spec => []Contract!OneLive
<1>1. IInv => Contract!OneLive
  <2> SUFFICES ASSUME IInv, NEW i \in Instances, NEW j \in Instances,
                      PhaseOf(i) \in Contract!Live, PhaseOf(j) \in Contract!Live
               PROVE  i = j
    BY DEF Contract!OneLive
  <2>1. ASSUME NEW k \in Instances, PhaseOf(k) \in Contract!Live
        PROVE  installed = k \/ HeldAt(k, "shut_plugin")
    BY <2>1 DEF PhaseOf, Contract!Live
  <2>2. ASSUME NEW k \in Instances, HeldAt(k, "shut_plugin")
        PROVE  installed = None
    BY <2>2 DEF HeldAt, IInv, SlotInv
  <2>3. ASSUME HeldAt(i, "shut_plugin"), HeldAt(j, "shut_plugin") PROVE i = j
    <3>1. PICK t \in Threads : held[t] = i /\ pc[t] = "shut_plugin"
      BY <2>3 DEF HeldAt
    <3>2. PICK u \in Threads : held[u] = j /\ pc[u] = "shut_plugin"
      BY <2>3 DEF HeldAt
    <3>3. t = u  BY <3>1, <3>2 DEF IInv, GuardInv, Callbacks
    <3>4. QED  BY <3>1, <3>2, <3>3
  <2>4. QED  BY <2>1, <2>2, <2>3, NoneAssumption
<1>2. QED  BY <1>1, Invariance, PTL

(* abi.rs implements the contract of api.rs for any threads and instances. *)
THEOREM ImplementsContract == Spec => Implements
<1>1. Spec => []IInv  BY Invariance
<1>2. QED  BY <1>1, RefineInit, RefineNext, PTL
     DEF Spec, Implements, Contract!Spec, phaseBar
================================================================================
