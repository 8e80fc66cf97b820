----------------------------- MODULE UiBridgeProofs -----------------------------
(***************************************************************************)
(* For every finite set of workers and every bound: Stop is quiet, nothing *)
(* crosses a restart, no wake-up is lost, and commands and events keep     *)
(* their order.                                                            *)
(***************************************************************************)
EXTENDS UiBridge, FiniteSetTheorems, TLAPS

Active == {w \in Workers : InCallback(w)}

(* accepting is the window between Bind and Stop; outside it both queues are *)
(* empty.                                                                    *)
GateInv ==
  /\ accepting <=> host \in {"init", "failed", "running"}
  /\ accepting => root /\ session # 0
  /\ ~accepting => ~started /\ commands = <<>> /\ events = <<>>

(* What a thread holds between two sections is of the right type. *)
HoldInv ==
  /\ ui = "apply" => current \in Item(MaxCommands)
  /\ \A w \in Workers : InCallback(w) => payload[w] \in Item(MaxEvents)

(* Every item in flight or queued belongs to the present session. *)
OfSession(q, k) == \A i \in 1..Len(q) : q[i].s = k

SessionInv ==
  /\ OfSession(commands, session)
  /\ OfSession(events, session)
  /\ NoCrossSession

(* The two "scheduled" flags mean what their names say. *)
FlagInv ==
  /\ accepting /\ commandScheduled => posted > 0 \/ ui # "idle"
  /\ started /\ commands # <<>> /\ ~stranded => commandScheduled
  /\ eventScheduled => \E w \in Workers : worker[w] # "off"
  /\ events # <<>> => eventScheduled

IInv ==
  /\ TypeOK /\ ActiveCallbacksExact /\ StopIsQuiet
  /\ GateInv /\ HoldInv /\ SessionInv /\ FlagInv

(* The initial state satisfies the inductive invariant. *)
LEMMA InitIInv == Init => IInv
<1> SUFFICES ASSUME Init PROVE IInv
  OBVIOUS
<1> USE BoundsAssumption, WorkersAssumption DEF Init
<1>1. FlagsOK  BY DEF FlagsOK
<1>2. ScalarsOK /\ QueuesOK  BY DEF ScalarsOK, QueuesOK, HostStates
<1>3. WorkersOK  BY DEF WorkersOK, WorkerStates
<1>4. ActiveCallbacksExact
  <2>1. {w \in Workers : InCallback(w)} = {}  BY DEF InCallback
  <2>2. QED  BY <2>1, FS_EmptySet DEF ActiveCallbacksExact
<1>5. StopIsQuiet /\ GateInv /\ HoldInv  
  BY DEF StopIsQuiet, GateInv, HoldInv, InCallback
<1>6. SessionInv /\ FlagInv
  BY DEF SessionInv, OfSession, FlagInv, NoCrossSession, InCallback
<1>7. QED  BY <1>1, <1>2, <1>3, <1>4, <1>5, <1>6 DEF IInv, TypeOK

-------------------------------------------------------------------------------
(* What EnqueueEvent does to the variables it may change. *)
LEMMA EnqueueTypes ==
  ASSUME IInv, EnqueueEvent
  PROVE  /\ events' \in Seq(Item(MaxEvents))
         /\ raised' \in 0..MaxEvents
         /\ eventScheduled' \in BOOLEAN
         /\ worker' \in [Workers -> WorkerStates]
<1> USE BoundsAssumption DEF IInv, TypeOK, FlagsOK, ScalarsOK, QueuesOK,
      WorkersOK, GateInv
<1>1. CASE UNCHANGED <<events, eventScheduled, raised, worker>>
  BY <1>1
<1>2. CASE /\ accepting /\ raised < MaxEvents /\ raised' = raised + 1
           /\ events' = Append(events, [n |-> raised + 1, s |-> session])
           /\ eventScheduled' = TRUE
           /\ \/ UNCHANGED worker
              \/ \E w \in Workers : StartsWorker(w)
  <2>1. [n |-> raised + 1, s |-> session] \in Item(MaxEvents)  BY <1>2 DEF Item
  <2>2. worker' \in [Workers -> WorkerStates]  BY <1>2 DEF StartsWorker, WorkerStates
  <2>3. QED  BY <1>2, <2>1, <2>2
<1>3. QED  BY <1>1, <1>2 DEF EnqueueEvent

(* Flags stay Boolean. *)
LEMMA NextFlagTypes == IInv /\ [Next]_vars => FlagsOK'
<1> SUFFICES ASSUME IInv, [Next]_vars PROVE FlagsOK'
  OBVIOUS
<1> USE DEF IInv, TypeOK, FlagsOK, flags, uiVars, workVars, hostVars
<1>1. CASE UNCHANGED vars  BY <1>1 DEF vars
<1>2. CASE Bind  BY <1>2 DEF Bind
<1>3. CASE Start  BY <1>3 DEF Start, Posts, PostThrows
<1>4. CASE Queue  BY <1>4 DEF Queue, Posts, PostThrows
<1>5. CASE UserAction  BY <1>5, EnqueueTypes DEF UserAction
<1>6. ASSUME NEW isUi \in BOOLEAN, StopBegin(isUi) PROVE FlagsOK'
  BY <1>6 DEF StopBegin
<1>7. CASE StopWoken  BY <1>7 DEF StopWoken
<1>8. CASE Cleanup  BY <1>8 DEF Cleanup
<1>9. CASE DrainStart  BY <1>9 DEF DrainStart
<1>10. CASE DrainEnds  BY <1>10 DEF DrainEnds
<1>11. CASE DrainNext  BY <1>11 DEF DrainNext
<1>12. CASE Applied  BY <1>12, EnqueueTypes DEF Applied
<1>13. ASSUME NEW w \in Workers, WorkerEnds(w) PROVE FlagsOK'
  BY <1>13 DEF WorkerEnds
<1>14. ASSUME NEW w \in Workers, WorkerNext(w) PROVE FlagsOK'
  BY <1>14 DEF WorkerNext
<1>15. ASSUME NEW w \in Workers, Deliver(w) PROVE FlagsOK'
  BY <1>15 DEF Deliver
<1>16. ASSUME NEW w \in Workers, WorkerDone(w) PROVE FlagsOK'
  BY <1>16 DEF WorkerDone
<1>17. QED
  BY ONLY <1>1, <1>2, <1>3, <1>4, <1>5, <1>6, <1>7, <1>8, <1>9, <1>10,
     <1>11, <1>12, <1>13, <1>14, <1>15, <1>16, [Next]_vars
     DEF Next, StopStep, UiStep, WorkStep

(* Counters and program counters keep their types. *)
LEMMA NextScalars == IInv /\ [Next]_vars => ScalarsOK'
<1> SUFFICES ASSUME IInv, [Next]_vars PROVE ScalarsOK'
  OBVIOUS
<1> USE BoundsAssumption DEF IInv, TypeOK, ScalarsOK, GateInv,
      HoldInv, HostStates, flags, uiVars, workVars, hostVars
<1>1. CASE UNCHANGED vars  BY <1>1 DEF vars
<1>2. CASE Bind  BY <1>2 DEF Bind
<1>3. CASE Start
  <2>1. posted' = posted \/ posted' = posted + 1
    BY ONLY <1>3 DEF Start, Posts, PostThrows
  <2>2. host' \in HostStates  BY <1>3 DEF Start
  <2>3. QED  BY <1>3, <2>1, <2>2 DEF Start
<1>4. CASE Queue  BY <1>4 DEF Queue, Posts, PostThrows
<1>5. CASE UserAction  BY <1>5, EnqueueTypes DEF UserAction
<1>6. ASSUME NEW isUi \in BOOLEAN, StopBegin(isUi) PROVE ScalarsOK'
  BY <1>6 DEF StopBegin
<1>7. CASE StopWoken  BY <1>7 DEF StopWoken
<1>8. CASE Cleanup  BY <1>8 DEF Cleanup
<1>9. CASE DrainStart  BY <1>9 DEF DrainStart
<1>10. CASE DrainEnds  BY <1>10 DEF DrainEnds
<1>11. CASE DrainNext  BY <1>11 DEF DrainNext
<1>12. CASE Applied
  <2>1. current \in Item(MaxCommands)  BY <1>12 DEF Applied
  <2>2. QED  BY <1>12, <2>1, EnqueueTypes DEF Applied, Item
<1>13. ASSUME NEW w \in Workers, WorkerEnds(w) PROVE ScalarsOK'
  BY <1>13 DEF WorkerEnds
<1>14. ASSUME NEW w \in Workers, WorkerNext(w) PROVE ScalarsOK'
  BY <1>14 DEF WorkerNext
<1>15. ASSUME NEW w \in Workers, Deliver(w) PROVE ScalarsOK'
  <2>1. payload[w] \in Item(MaxEvents)  BY <1>15 DEF Deliver, InCallback
  <2>2. QED  BY <1>15, <2>1 DEF Deliver, Item
<1>16. ASSUME NEW w \in Workers, WorkerDone(w) PROVE ScalarsOK'
  BY <1>16 DEF WorkerDone
<1>17. QED
  BY ONLY <1>1, <1>2, <1>3, <1>4, <1>5, <1>6, <1>7, <1>8, <1>9, <1>10,
     <1>11, <1>12, <1>13, <1>14, <1>15, <1>16, [Next]_vars
     DEF Next, StopStep, UiStep, WorkStep

(* The queues hold numbered items of existing sessions. *)
LEMMA NextQueues == IInv /\ [Next]_vars => QueuesOK'
<1> SUFFICES ASSUME IInv, [Next]_vars PROVE QueuesOK'
  OBVIOUS
<1> USE BoundsAssumption DEF IInv, TypeOK, ScalarsOK, QueuesOK, GateInv,
      HoldInv, flags, uiVars, workVars, hostVars
<1>1. CASE UNCHANGED vars  BY <1>1 DEF vars
<1>2. CASE Bind  BY <1>2 DEF Bind
<1>3. CASE Start  BY <1>3 DEF Start, Posts, PostThrows
<1>4. CASE Queue
  <2>1. [n |-> sent + 1, s |-> session] \in Item(MaxCommands)  BY <1>4 DEF Queue, Item
  <2>2. QED  BY <1>4, <2>1 DEF Queue
<1>5. CASE UserAction  BY <1>5, EnqueueTypes DEF UserAction
<1>6. ASSUME NEW isUi \in BOOLEAN, StopBegin(isUi) PROVE QueuesOK'
  BY <1>6 DEF StopBegin
<1>7. CASE StopWoken  BY <1>7 DEF StopWoken
<1>8. CASE Cleanup  BY <1>8 DEF Cleanup
<1>9. CASE DrainStart  BY <1>9 DEF DrainStart
<1>10. CASE DrainEnds  BY <1>10 DEF DrainEnds
<1>11. CASE DrainNext  BY <1>11 DEF DrainNext
<1>12. CASE Applied  BY <1>12, EnqueueTypes DEF Applied
<1>13. ASSUME NEW w \in Workers, WorkerEnds(w) PROVE QueuesOK'
  BY <1>13 DEF WorkerEnds
<1>14. ASSUME NEW w \in Workers, WorkerNext(w) PROVE QueuesOK'
  BY <1>14 DEF WorkerNext
<1>15. ASSUME NEW w \in Workers, Deliver(w) PROVE QueuesOK'
  BY <1>15 DEF Deliver
<1>16. ASSUME NEW w \in Workers, WorkerDone(w) PROVE QueuesOK'
  BY <1>16 DEF WorkerDone
<1>17. QED
  BY ONLY <1>1, <1>2, <1>3, <1>4, <1>5, <1>6, <1>7, <1>8, <1>9, <1>10,
     <1>11, <1>12, <1>13, <1>14, <1>15, <1>16, [Next]_vars
     DEF Next, StopStep, UiStep, WorkStep

(* Workers keep their stages, and their payloads are items. *)
LEMMA NextWorkers == IInv /\ [Next]_vars => WorkersOK'
<1> SUFFICES ASSUME IInv, [Next]_vars PROVE WorkersOK'
  OBVIOUS
<1> USE BoundsAssumption DEF IInv, TypeOK, QueuesOK, WorkersOK,
      WorkerStates, flags, uiVars, workVars, hostVars
<1>1. CASE UNCHANGED vars  BY <1>1 DEF vars
<1>2. CASE Bind  BY <1>2 DEF Bind
<1>3. CASE Start  BY <1>3 DEF Start, Posts, PostThrows
<1>4. CASE Queue  BY <1>4 DEF Queue, Posts, PostThrows
<1>5. CASE UserAction  BY <1>5, EnqueueTypes DEF UserAction
<1>6. ASSUME NEW isUi \in BOOLEAN, StopBegin(isUi) PROVE WorkersOK'
  BY <1>6 DEF StopBegin
<1>7. CASE StopWoken  BY <1>7 DEF StopWoken
<1>8. CASE Cleanup  BY <1>8 DEF Cleanup
<1>9. CASE DrainStart  BY <1>9 DEF DrainStart
<1>10. CASE DrainEnds  BY <1>10 DEF DrainEnds
<1>11. CASE DrainNext  BY <1>11 DEF DrainNext
<1>12. CASE Applied  BY <1>12, EnqueueTypes DEF Applied
<1>13. ASSUME NEW w \in Workers, WorkerEnds(w) PROVE WorkersOK'
  BY <1>13 DEF WorkerEnds
<1>14. ASSUME NEW w \in Workers, WorkerNext(w) PROVE WorkersOK'
  <2>1. Head(events) \in Item(MaxEvents)  BY <1>14 DEF WorkerNext
  <2>2. QED  BY <1>14, <2>1 DEF WorkerNext
<1>15. ASSUME NEW w \in Workers, Deliver(w) PROVE WorkersOK'
  BY <1>15 DEF Deliver
<1>16. ASSUME NEW w \in Workers, WorkerDone(w) PROVE WorkersOK'
  BY <1>16 DEF WorkerDone
<1>17. QED
  BY ONLY <1>1, <1>2, <1>3, <1>4, <1>5, <1>6, <1>7, <1>8, <1>9, <1>10,
     <1>11, <1>12, <1>13, <1>14, <1>15, <1>16, [Next]_vars
     DEF Next, StopStep, UiStep, WorkStep

-------------------------------------------------------------------------------
(* Only finitely many workers can be in a callback. *)
LEMMA ActiveFinite == IsFiniteSet(Active) /\ Cardinality(Active) \in Nat
BY WorkersAssumption, FS_Subset, FS_CardinalityType DEF Active

(* ActiveCallbacksExact in terms of Active. *)
LEMMA CountIsActive == ActiveCallbacksExact <=> activeCallbacks = Cardinality(Active)
BY DEF ActiveCallbacksExact, Active

(* The counter follows the set of workers in a callback. *)
LEMMA NextCount == IInv /\ [Next]_vars => activeCallbacks' = Cardinality(Active')
<1> SUFFICES ASSUME IInv, [Next]_vars PROVE activeCallbacks' = Cardinality(Active')
  OBVIOUS
<1> USE CountIsActive DEF IInv, TypeOK, ScalarsOK, WorkersOK, WorkerStates,
      flags, uiVars, workVars, hostVars
<1>1. CASE UNCHANGED vars
  <2>1. Active' = Active  BY <1>1 DEF vars, Active, InCallback
  <2>2. QED  BY <1>1, <2>1 DEF vars
<1>2. CASE Bind
  <2>1. Active' = {}
    BY <1>2 DEF Bind, Active, InCallback, StopIsQuiet
  <2>2. QED  BY <1>2, <2>1, FS_EmptySet DEF Bind
<1>3. CASE Start
  <2>1. Active' = Active  BY <1>3 DEF Start, Active, InCallback
  <2>2. QED  BY <1>3, <2>1 DEF Start
<1>4. CASE Queue
  <2>1. Active' = Active  BY <1>4 DEF Queue, Active, InCallback
  <2>2. QED  BY <1>4, <2>1 DEF Queue
<1>5. CASE UserAction
  <2>1. Active' = Active
    BY <1>5 DEF UserAction, EnqueueEvent, StartsWorker, Active, InCallback
  <2>2. QED  BY <1>5, <2>1 DEF UserAction
<1>6. ASSUME NEW isUi \in BOOLEAN, StopBegin(isUi) PROVE activeCallbacks' = Cardinality(Active')
  <2>1. Active' = Active  BY <1>6 DEF StopBegin, Active, InCallback
  <2>2. QED  BY <1>6, <2>1 DEF StopBegin
<1>7. CASE StopWoken
  <2>1. Active' = Active  BY <1>7 DEF StopWoken, Active, InCallback
  <2>2. QED  BY <1>7, <2>1 DEF StopWoken
<1>8. CASE Cleanup
  <2>1. Active' = Active  BY <1>8 DEF Cleanup, Active, InCallback
  <2>2. QED  BY <1>8, <2>1 DEF Cleanup
<1>9. CASE DrainStart
  <2>1. Active' = Active  BY <1>9 DEF DrainStart, Active, InCallback
  <2>2. QED  BY <1>9, <2>1 DEF DrainStart
<1>10. CASE DrainEnds
  <2>1. Active' = Active  BY <1>10 DEF DrainEnds, Active, InCallback
  <2>2. QED  BY <1>10, <2>1 DEF DrainEnds
<1>11. CASE DrainNext
  <2>1. Active' = Active  BY <1>11 DEF DrainNext, Active, InCallback
  <2>2. QED  BY <1>11, <2>1 DEF DrainNext
<1>12. CASE Applied
  <2>1. Active' = Active
    BY <1>12 DEF Applied, EnqueueEvent, StartsWorker, Active, InCallback
  <2>2. QED  BY <1>12, <2>1 DEF Applied
<1>13. ASSUME NEW w \in Workers, WorkerEnds(w) PROVE activeCallbacks' = Cardinality(Active')
  <2>1. Active' = Active  BY <1>13 DEF WorkerEnds, Active, InCallback
  <2>2. QED  BY <1>13, <2>1 DEF WorkerEnds
<1>14. ASSUME NEW w \in Workers, WorkerNext(w) PROVE activeCallbacks' = Cardinality(Active')
  <2>1. Active' = Active \cup {w} /\ w \notin Active
    BY <1>14 DEF WorkerNext, Active, InCallback
  <2>2. QED  BY <1>14, <2>1, ActiveFinite, FS_AddElement DEF WorkerNext
<1>15. ASSUME NEW w \in Workers, Deliver(w) PROVE activeCallbacks' = Cardinality(Active')
  <2>1. Active' = Active  BY <1>15 DEF Deliver, Active, InCallback
  <2>2. QED  BY <1>15, <2>1 DEF Deliver
<1>16. ASSUME NEW w \in Workers, WorkerDone(w) PROVE activeCallbacks' = Cardinality(Active')
  <2>1. Active' = Active \ {w} /\ w \in Active
    BY <1>16 DEF WorkerDone, Active, InCallback
  <2>2. QED  BY <1>16, <2>1, ActiveFinite, FS_RemoveElement DEF WorkerDone
<1>17. QED
  BY ONLY <1>1, <1>2, <1>3, <1>4, <1>5, <1>6, <1>7, <1>8, <1>9, <1>10,
     <1>11, <1>12, <1>13, <1>14, <1>15, <1>16, [Next]_vars
     DEF Next, StopStep, UiStep, WorkStep

(* Outside the window of accepting both queues stay empty. *)
LEMMA NextGate == IInv /\ [Next]_vars => GateInv'
<1> SUFFICES ASSUME IInv, [Next]_vars PROVE GateInv'
  OBVIOUS
<1> USE DEF IInv, TypeOK, ScalarsOK, GateInv, Stopping, flags, uiVars, workVars, hostVars
<1>1. CASE UNCHANGED vars  BY <1>1 DEF vars
<1>2. CASE Bind  BY <1>2 DEF Bind
<1>3. CASE Start  BY <1>3 DEF Start, Posts, PostThrows
<1>4. CASE Queue
  <2>1. accepting /\ UNCHANGED <<accepting, started, host, root, session>>
    BY ONLY <1>4 DEF Queue, flags, hostVars
  <2>2. QED  BY <2>1
<1>5. CASE UserAction  BY <1>5 DEF UserAction, EnqueueEvent
<1>6. ASSUME NEW isUi \in BOOLEAN, StopBegin(isUi) PROVE GateInv'
  BY <1>6 DEF StopBegin
<1>7. CASE StopWoken  BY <1>7 DEF StopWoken
<1>8. CASE Cleanup  BY <1>8 DEF Cleanup
<1>9. CASE DrainStart  BY <1>9 DEF DrainStart
<1>10. CASE DrainEnds  BY <1>10 DEF DrainEnds
<1>11. CASE DrainNext  BY <1>11 DEF DrainNext
<1>12. CASE Applied  BY <1>12 DEF Applied, EnqueueEvent
<1>13. ASSUME NEW w \in Workers, WorkerEnds(w) PROVE GateInv'
  BY <1>13 DEF WorkerEnds
<1>14. ASSUME NEW w \in Workers, WorkerNext(w) PROVE GateInv'
  BY <1>14 DEF WorkerNext
<1>15. ASSUME NEW w \in Workers, Deliver(w) PROVE GateInv'
  BY <1>15 DEF Deliver
<1>16. ASSUME NEW w \in Workers, WorkerDone(w) PROVE GateInv'
  BY <1>16 DEF WorkerDone
<1>17. QED
  BY ONLY <1>1, <1>2, <1>3, <1>4, <1>5, <1>6, <1>7, <1>8, <1>9, <1>10,
     <1>11, <1>12, <1>13, <1>14, <1>15, <1>16, [Next]_vars
     DEF Next, StopStep, UiStep, WorkStep

(* What threads hold stays typed. *)
LEMMA NextHold == IInv /\ [Next]_vars => HoldInv'
<1> SUFFICES ASSUME IInv, [Next]_vars PROVE HoldInv'
  OBVIOUS
<1> USE DEF IInv, TypeOK, QueuesOK, WorkersOK, WorkerStates, HoldInv, InCallback,
      flags, uiVars, workVars, hostVars
<1>1. CASE UNCHANGED vars  BY <1>1 DEF vars
<1>2. CASE Bind  BY <1>2 DEF Bind
<1>3. CASE Start  BY <1>3 DEF Start, Posts, PostThrows
<1>4. CASE Queue  BY <1>4 DEF Queue, Posts, PostThrows
<1>5. CASE UserAction  BY <1>5 DEF UserAction, EnqueueEvent, StartsWorker
<1>6. ASSUME NEW isUi \in BOOLEAN, StopBegin(isUi) PROVE HoldInv'
  BY <1>6 DEF StopBegin
<1>7. CASE StopWoken  BY <1>7 DEF StopWoken
<1>8. CASE Cleanup  BY <1>8 DEF Cleanup
<1>9. CASE DrainStart  BY <1>9 DEF DrainStart
<1>10. CASE DrainEnds  BY <1>10 DEF DrainEnds
<1>11. CASE DrainNext  BY <1>11 DEF DrainNext
<1>12. CASE Applied  BY <1>12 DEF Applied, EnqueueEvent, StartsWorker
<1>13. ASSUME NEW w \in Workers, WorkerEnds(w) PROVE HoldInv'
  BY <1>13 DEF WorkerEnds
<1>14. ASSUME NEW w \in Workers, WorkerNext(w) PROVE HoldInv'
  BY <1>14 DEF WorkerNext
<1>15. ASSUME NEW w \in Workers, Deliver(w) PROVE HoldInv'
  BY <1>15 DEF Deliver
<1>16. ASSUME NEW w \in Workers, WorkerDone(w) PROVE HoldInv'
  BY <1>16 DEF WorkerDone
<1>17. QED
  BY ONLY <1>1, <1>2, <1>3, <1>4, <1>5, <1>6, <1>7, <1>8, <1>9, <1>10,
     <1>11, <1>12, <1>13, <1>14, <1>15, <1>16, [Next]_vars
     DEF Next, StopStep, UiStep, WorkStep

(* Zero in the counter means that no worker is in a callback. *)
LEMMA ZeroIsQuiet ==
  ASSUME IInv, activeCallbacks = 0 PROVE \A w \in Workers : ~InCallback(w)
<1>1. Active = {}
  BY ActiveFinite, CountIsActive, FS_EmptySet DEF IInv
<1>2. QED  BY <1>1 DEF Active

(* Once Stop has stopped waiting, and until Bind, no worker is in a callback. *)
LEMMA NextQuiet == IInv /\ [Next]_vars => StopIsQuiet'
<1> SUFFICES ASSUME IInv, [Next]_vars PROVE StopIsQuiet'
  OBVIOUS
<1> USE DEF IInv, TypeOK, WorkersOK, WorkerStates, StopIsQuiet, GateInv, InCallback,
      flags, uiVars, workVars, hostVars
<1>1. CASE UNCHANGED vars  BY <1>1 DEF vars
<1>2. CASE Bind  BY <1>2 DEF Bind
<1>3. CASE Start  BY <1>3 DEF Start, Posts, PostThrows
<1>4. CASE Queue  BY <1>4 DEF Queue, Posts, PostThrows
<1>5. CASE UserAction  BY <1>5 DEF UserAction, EnqueueEvent, StartsWorker
<1>6. ASSUME NEW isUi \in BOOLEAN, StopBegin(isUi) PROVE StopIsQuiet'
  BY <1>6, ZeroIsQuiet DEF StopBegin
<1>7. CASE StopWoken  BY <1>7, ZeroIsQuiet DEF StopWoken
<1>8. CASE Cleanup  BY <1>8 DEF Cleanup
<1>9. CASE DrainStart  BY <1>9 DEF DrainStart
<1>10. CASE DrainEnds  BY <1>10 DEF DrainEnds
<1>11. CASE DrainNext  BY <1>11 DEF DrainNext
<1>12. CASE Applied  BY <1>12 DEF Applied, EnqueueEvent, StartsWorker
<1>13. ASSUME NEW w \in Workers, WorkerEnds(w) PROVE StopIsQuiet'
  BY <1>13 DEF WorkerEnds
<1>14. ASSUME NEW w \in Workers, WorkerNext(w) PROVE StopIsQuiet'
  BY <1>14 DEF WorkerNext
<1>15. ASSUME NEW w \in Workers, Deliver(w) PROVE StopIsQuiet'
  BY <1>15 DEF Deliver
<1>16. ASSUME NEW w \in Workers, WorkerDone(w) PROVE StopIsQuiet'
  BY <1>16 DEF WorkerDone
<1>17. QED
  BY ONLY <1>1, <1>2, <1>3, <1>4, <1>5, <1>6, <1>7, <1>8, <1>9, <1>10,
     <1>11, <1>12, <1>13, <1>14, <1>15, <1>16, [Next]_vars
     DEF Next, StopStep, UiStep, WorkStep

-------------------------------------------------------------------------------
(* Append keeps a queue within one session. *)
LEMMA AppendOfSession ==
  ASSUME NEW S, NEW q \in Seq(S), NEW e \in S, NEW k, OfSession(q, k), e.s = k
  PROVE  OfSession(Append(q, e), k)
BY DEF OfSession

(* Tail keeps a queue within one session, and its head is of that session. *)
LEMMA TailOfSession ==
  ASSUME NEW S, NEW q \in Seq(S), NEW k, OfSession(q, k), q # <<>>
  PROVE  OfSession(Tail(q), k) /\ Head(q).s = k
BY DEF OfSession

(* The empty queue is of any session. *)
LEMMA EmptyOfSession == ASSUME NEW k PROVE OfSession(<<>>, k)
BY DEF OfSession

(* EnqueueEvent adds an event of the present session and disturbs no callback. *)
LEMMA EnqueueOfSession ==
  ASSUME IInv, EnqueueEvent
  PROVE  /\ OfSession(events', session)
         /\ \A w \in Workers : InCallback(w)' <=> InCallback(w)
<1> USE BoundsAssumption DEF IInv, TypeOK, FlagsOK, ScalarsOK, QueuesOK,
      WorkersOK, GateInv, SessionInv
<1>1. raised < MaxEvents /\ accepting
        => [n |-> raised + 1, s |-> session] \in Item(MaxEvents)
  BY DEF Item
<1>2. OfSession(events', session)
  BY <1>1, AppendOfSession DEF EnqueueEvent
<1>3. \A w \in Workers : InCallback(w)' <=> InCallback(w)
  BY DEF EnqueueEvent, StartsWorker, WorkerStates, InCallback
<1>4. QED  BY <1>2, <1>3

(* No item is carried from one session into the next. *)
LEMMA NextSession == IInv /\ [Next]_vars => SessionInv'
<1> SUFFICES ASSUME IInv, [Next]_vars PROVE SessionInv'
  OBVIOUS
<1> USE BoundsAssumption DEF IInv, TypeOK, ScalarsOK, QueuesOK,
      WorkersOK, WorkerStates, SessionInv, NoCrossSession, InCallback, flags, uiVars, workVars, hostVars
<1>1. CASE UNCHANGED vars  BY <1>1 DEF vars
<1>2. CASE Bind  BY <1>2, EmptyOfSession DEF Bind, StopIsQuiet
<1>3. CASE Start  BY <1>3 DEF Start
<1>4. CASE Queue
  <2>1. [n |-> sent + 1, s |-> session] \in Item(MaxCommands)
    BY <1>4 DEF Queue, GateInv, Item
  <2>2. OfSession(commands', session)  BY <1>4, <2>1, AppendOfSession DEF Queue
  <2>3. QED  BY <1>4, <2>2 DEF Queue
<1>5. CASE UserAction  BY <1>5, EnqueueOfSession DEF UserAction
<1>6. ASSUME NEW isUi \in BOOLEAN, StopBegin(isUi) PROVE SessionInv'
  BY <1>6, EmptyOfSession DEF StopBegin
<1>7. CASE StopWoken  BY <1>7 DEF StopWoken
<1>8. CASE Cleanup  BY <1>8 DEF Cleanup
<1>9. CASE DrainStart  BY <1>9 DEF DrainStart
<1>10. CASE DrainEnds  BY <1>10 DEF DrainEnds
<1>11. CASE DrainNext  BY <1>11, TailOfSession DEF DrainNext
<1>12. CASE Applied  BY <1>12, EnqueueOfSession DEF Applied
<1>13. ASSUME NEW w \in Workers, WorkerEnds(w) PROVE SessionInv'
  BY <1>13 DEF WorkerEnds
<1>14. ASSUME NEW w \in Workers, WorkerNext(w) PROVE SessionInv'
  BY <1>14, TailOfSession DEF WorkerNext
<1>15. ASSUME NEW w \in Workers, Deliver(w) PROVE SessionInv'
  BY <1>15 DEF Deliver
<1>16. ASSUME NEW w \in Workers, WorkerDone(w) PROVE SessionInv'
  BY <1>16 DEF WorkerDone
<1>17. QED
  BY ONLY <1>1, <1>2, <1>3, <1>4, <1>5, <1>6, <1>7, <1>8, <1>9, <1>10,
     <1>11, <1>12, <1>13, <1>14, <1>15, <1>16, [Next]_vars
     DEF Next, StopStep, UiStep, WorkStep

-------------------------------------------------------------------------------
(* The scheduling flags keep their meaning. *)
LEMMA NextFlag == IInv /\ [Next]_vars => FlagInv'
<1> SUFFICES ASSUME IInv, [Next]_vars PROVE FlagInv'
  OBVIOUS
<1> USE DEF IInv, TypeOK, FlagsOK, ScalarsOK, QueuesOK,
      WorkersOK, WorkerStates, GateInv, FlagInv, flags, uiVars, workVars, hostVars
<1>1. CASE UNCHANGED vars  BY <1>1 DEF vars
<1>2. CASE Bind  BY <1>2 DEF Bind
<1>3. CASE Start  BY <1>3 DEF Start, Posts, PostThrows, NothingToSchedule
<1>4. CASE Queue  BY <1>4 DEF Queue, Posts, PostThrows, NothingToSchedule
<1>5. CASE UserAction  BY <1>5 DEF UserAction, EnqueueEvent, StartsWorker
<1>6. ASSUME NEW isUi \in BOOLEAN, StopBegin(isUi) PROVE FlagInv'
  BY <1>6 DEF StopBegin
<1>7. CASE StopWoken  BY <1>7 DEF StopWoken
<1>8. CASE Cleanup  BY <1>8 DEF Cleanup
<1>9. CASE DrainStart  BY <1>9 DEF DrainStart
<1>10. CASE DrainEnds  BY <1>10 DEF DrainEnds
<1>11. CASE DrainNext  BY <1>11 DEF DrainNext
<1>12. CASE Applied  BY <1>12 DEF Applied, EnqueueEvent, StartsWorker
<1>13. ASSUME NEW w \in Workers, WorkerEnds(w) PROVE FlagInv'
  BY <1>13 DEF WorkerEnds
<1>14. ASSUME NEW w \in Workers, WorkerNext(w) PROVE FlagInv'
  BY <1>14 DEF WorkerNext
<1>15. ASSUME NEW w \in Workers, Deliver(w) PROVE FlagInv'
  BY <1>15 DEF Deliver
<1>16. ASSUME NEW w \in Workers, WorkerDone(w) PROVE FlagInv'
  BY <1>16 DEF WorkerDone
<1>17. QED
  BY ONLY <1>1, <1>2, <1>3, <1>4, <1>5, <1>6, <1>7, <1>8, <1>9, <1>10,
     <1>11, <1>12, <1>13, <1>14, <1>15, <1>16, [Next]_vars
     DEF Next, StopStep, UiStep, WorkStep

(* Every step preserves the inductive invariant. *)
LEMMA NextIInv == IInv /\ [Next]_vars => IInv'
<1> SUFFICES ASSUME IInv, [Next]_vars PROVE IInv'
  OBVIOUS
<1>1. ActiveCallbacksExact'
  BY NextCount DEF ActiveCallbacksExact, Active
<1>2. QED
  BY <1>1, NextFlagTypes, NextScalars, NextQueues, NextWorkers, NextGate,
     NextHold, NextQuiet, NextSession, NextFlag DEF IInv, TypeOK

(* The inductive invariant holds in every reachable state. *)
THEOREM Invariance == Spec => []IInv
BY InitIInv, NextIInv, PTL DEF Spec

(* The variables of UiBridge.cs keep their types. *)
THEOREM TypeCorrect == Spec => []TypeOK
<1>1. IInv => TypeOK  BY DEF IInv
<1>2. QED  BY <1>1, Invariance, PTL

(* activeCallbacks counts the workers between dequeue and finally exactly,   *)
(* for any number of restarts.                                               *)
THEOREM CountExact == Spec => []ActiveCallbacksExact
<1>1. IInv => ActiveCallbacksExact  BY DEF IInv
<1>2. QED  BY <1>1, Invariance, PTL

(* From the end of Stop's wait to the next Bind no UI event is in the plugin. *)
THEOREM QuietAfterStop == Spec => []StopIsQuiet
<1>1. IInv => StopIsQuiet  BY DEF IInv
<1>2. QED  BY <1>1, Invariance, PTL

(* No command or event crosses a restart. *)
THEOREM SessionsApart == Spec => []NoCrossSession
<1>1. IInv => NoCrossSession  BY DEF IInv, SessionInv
<1>2. QED  BY <1>1, Invariance, PTL

(* A started, queued command has a drain coming, unless BeginInvoke threw. *)
THEOREM NoLostCommand == Spec => []CommandHasDrain
<1>1. IInv => CommandHasDrain  BY DEF IInv, FlagInv, CommandHasDrain
<1>2. QED  BY <1>1, Invariance, PTL

(* A queued event has a worker that will look at the queue. *)
THEOREM NoLostEvent == Spec => []EventHasWorker
<1>1. IInv => EventHasWorker  BY DEF IInv, FlagInv, EventHasWorker
<1>2. QED  BY <1>1, Invariance, PTL

-------------------------------------------------------------------------------
(***************************************************************************)
(* Order.  Numbers grow along each queue, and everything queued is younger *)
(* than what the UI thread applies and what the one worker delivers.       *)
(***************************************************************************)
Between(q, lo, hi) ==
  /\ \A i \in 1..Len(q) : lo < q[i].n /\ q[i].n <= hi
  /\ \A i, j \in 1..Len(q) : i < j => q[i].n < q[j].n

(* The empty queue lies between any two numbers. *)
LEMMA EmptyBetween == ASSUME NEW lo \in Nat, NEW hi \in Nat PROVE Between(<<>>, lo, hi)
BY DEF Between

(* Appending the next number keeps a queue increasing and bounded. *)
LEMMA AppendBetween ==
  ASSUME NEW m \in Nat, NEW q \in Seq(Item(m)), NEW e \in Item(m),
         NEW lo \in Nat, NEW hi \in Nat, lo <= hi, e.n = hi + 1,
         Between(q, lo, hi)
  PROVE  Between(Append(q, e), lo, hi + 1)
<1> DEFINE r == Append(q, e)
<1>1. Len(r) = Len(q) + 1 /\ Len(q) \in Nat  OBVIOUS
<1>2. \A i \in 1..Len(q) : r[i] = q[i] /\ q[i].n \in Nat
  <2>1. \A i \in 1..Len(q) : r[i] = q[i] /\ q[i] \in Item(m)  OBVIOUS
  <2>2. QED  BY <2>1 DEF Item
<1>3. r[Len(q) + 1] = e  OBVIOUS
<1>4. \A i \in 1..Len(r) : i \in 1..Len(q) \/ i = Len(q) + 1  BY <1>1
<1>5. \A i \in 1..Len(r) : lo < r[i].n /\ r[i].n <= hi + 1
  BY <1>2, <1>3, <1>4 DEF Between
<1>6. ASSUME NEW i \in 1..Len(r), NEW j \in 1..Len(r), i < j
      PROVE  r[i].n < r[j].n
  <2>1. i \in 1..Len(q)  BY <1>1, <1>6
  <2>2. CASE j \in 1..Len(q)  BY <1>2, <1>6, <2>1, <2>2 DEF Between
  <2>3. CASE j = Len(q) + 1  BY <1>2, <1>3, <2>1, <2>3 DEF Between
  <2>4. QED  BY <1>4, <2>2, <2>3
<1>7. QED  BY <1>5, <1>6 DEF Between

(* Once its head is taken, a queue lies above the number of that head. *)
LEMMA TailBetween ==
  ASSUME NEW m \in Nat, NEW q \in Seq(Item(m)), NEW lo \in Nat, NEW hi \in Nat,
         Between(q, lo, hi), q # <<>>
  PROVE  /\ Between(Tail(q), Head(q).n, hi) /\ Between(Tail(q), lo, hi)
         /\ lo < Head(q).n /\ Head(q).n <= hi /\ Head(q) \in Item(m)
<1> DEFINE r == Tail(q)
<1>1. Len(r) = Len(q) - 1 /\ Len(q) \in Nat \ {0}  OBVIOUS
<1>2. Head(q) = q[1] /\ q[1] \in Item(m)  BY <1>1
<1>3. \A i \in 1..Len(r) : r[i] = q[i + 1] /\ i + 1 \in 1..Len(q)  BY <1>1
<1>4. lo < q[1].n /\ q[1].n <= hi  BY <1>1 DEF Between
<1>5. \A i \in 1..Len(r) : q[1].n < r[i].n /\ lo < r[i].n /\ r[i].n <= hi
  BY <1>1, <1>3 DEF Between
<1>6. \A i, j \in 1..Len(r) : i < j => r[i].n < r[j].n
  BY <1>1, <1>3 DEF Between
<1>7. QED  BY <1>2, <1>4, <1>5, <1>6 DEF Between

CommandOrder ==
  /\ ui # "apply" => applied <= sent /\ Between(commands, applied, sent)
  /\ ui = "apply" => /\ applied < current.n /\ current.n <= sent
                     /\ Between(commands, current.n, sent)

(* The command queue stays in order behind the command being applied. *)
LEMMA NextCommandOrder == IInv /\ CommandOrder /\ [Next]_vars => CommandOrder'
<1> SUFFICES ASSUME IInv, CommandOrder, [Next]_vars PROVE CommandOrder'
  OBVIOUS
<1> USE BoundsAssumption DEF IInv, TypeOK, ScalarsOK, QueuesOK, CommandOrder,
      flags, uiVars, workVars, hostVars
<1>1. CASE UNCHANGED vars  BY <1>1 DEF vars
<1>2. CASE Bind  BY <1>2, EmptyBetween DEF Bind
<1>3. CASE Start  BY <1>3 DEF Start
<1>4. CASE Queue
  <2>1. [n |-> sent + 1, s |-> session] \in Item(MaxCommands)
    BY <1>4 DEF Queue, GateInv, Item
  <2>2. CASE ui # "apply"
    <3>1. Between(commands', applied, sent + 1)
      BY <1>4, <2>1, <2>2, AppendBetween DEF Queue
    <3>2. QED  BY <1>4, <2>2, <3>1 DEF Queue
  <2>3. CASE ui = "apply"
    <3>1. current.n \in Nat  BY <2>3 DEF HoldInv, Item
    <3>2. Between(commands', current.n, sent + 1)
      BY <1>4, <2>1, <2>3, <3>1, AppendBetween DEF Queue
    <3>3. QED  BY <1>4, <2>3, <3>1, <3>2 DEF Queue
  <2>4. QED  BY <2>2, <2>3
<1>5. CASE UserAction  BY <1>5 DEF UserAction
<1>6. ASSUME NEW isUi \in BOOLEAN, StopBegin(isUi) PROVE CommandOrder'
  <2>1. ui = "apply" => current.n \in Nat  BY DEF HoldInv, Item
  <2>2. QED  BY <1>6, <2>1, EmptyBetween DEF StopBegin
<1>7. CASE StopWoken  BY <1>7 DEF StopWoken
<1>8. CASE Cleanup  BY <1>8 DEF Cleanup
<1>9. CASE DrainStart  BY <1>9 DEF DrainStart, UiFree
<1>10. CASE DrainEnds  BY <1>10 DEF DrainEnds
<1>11. CASE DrainNext
  <2>1. applied \in Nat /\ sent \in Nat /\ MaxCommands \in Nat  OBVIOUS
  <2>2. Between(commands, applied, sent) /\ commands # <<>>  BY <1>11 DEF DrainNext
  <2>3. /\ Between(Tail(commands), Head(commands).n, sent)
        /\ applied < Head(commands).n /\ Head(commands).n <= sent
    BY <2>1, <2>2, TailBetween
  <2>4. QED  BY <1>11, <2>3 DEF DrainNext
<1>12. CASE Applied
  <2>1. current.n \in Nat  BY <1>12 DEF Applied, HoldInv, Item
  <2>2. QED  BY <1>12, <2>1 DEF Applied
<1>13. ASSUME NEW w \in Workers, WorkerEnds(w) PROVE CommandOrder'
  BY <1>13 DEF WorkerEnds
<1>14. ASSUME NEW w \in Workers, WorkerNext(w) PROVE CommandOrder'
  BY <1>14 DEF WorkerNext
<1>15. ASSUME NEW w \in Workers, Deliver(w) PROVE CommandOrder'
  BY <1>15 DEF Deliver
<1>16. ASSUME NEW w \in Workers, WorkerDone(w) PROVE CommandOrder'
  BY <1>16 DEF WorkerDone
<1>17. QED
  BY ONLY <1>1, <1>2, <1>3, <1>4, <1>5, <1>6, <1>7, <1>8, <1>9, <1>10,
     <1>11, <1>12, <1>13, <1>14, <1>15, <1>16, [Next]_vars
     DEF Next, StopStep, UiStep, WorkStep

(* Commands are applied in the order they were queued, across drains and   *)
(* restarts and whatever BeginInvoke does.                                  *)
THEOREM CommandsOrdered == Spec => CommandsInOrder
<1>1. Init => CommandOrder
  BY BoundsAssumption, EmptyBetween DEF Init, CommandOrder
<1>2. IInv /\ CommandOrder /\ [Next]_vars => [applied' >= applied]_vars
  <2> SUFFICES ASSUME IInv, CommandOrder, [Next]_vars, ~UNCHANGED vars
               PROVE  applied' >= applied
    OBVIOUS
  <2> USE DEF IInv, TypeOK, ScalarsOK, uiVars
  <2>1. CASE Applied
    <3>1. current.n \in Nat  BY <2>1 DEF Applied, HoldInv, Item
    <3>2. QED  BY <2>1, <3>1 DEF Applied, CommandOrder
  <2>2. CASE UNCHANGED applied  BY <2>2
  <2>3. QED
    BY <2>1, <2>2 DEF Next, StopStep, UiStep, WorkStep, Bind, Start, Queue,
       UserAction, StopBegin, StopWoken, Cleanup, DrainStart, DrainEnds,
       DrainNext, WorkerEnds, WorkerNext, Deliver, WorkerDone
<1>3. QED
  BY <1>1, <1>2, Invariance, NextCommandOrder, PTL DEF Spec, CommandsInOrder

(* As long as no worker has outlived its session there is at most one, and   *)
(* the flag says whether there is.                                           *)
OneWorker ==
  ~outlived =>
    /\ \A w \in Workers : worker[w] # "off" => eventScheduled
    /\ \A v, w \in Workers : worker[v] # "off" /\ worker[w] # "off" => v = w

(* EnqueueEvent starts a worker only when none is there. *)
LEMMA NextOneWorker == IInv /\ OneWorker /\ [Next]_vars => OneWorker'
<1> SUFFICES ASSUME IInv, OneWorker, [Next]_vars PROVE OneWorker'
  OBVIOUS
<1> USE DEF IInv, TypeOK, FlagsOK, WorkersOK, WorkerStates, OneWorker,
      flags, uiVars, workVars, hostVars
<1>1. CASE UNCHANGED vars  BY <1>1 DEF vars
<1>2. CASE Bind  BY <1>2 DEF Bind
<1>3. CASE Start  BY <1>3 DEF Start
<1>4. CASE Queue  BY <1>4 DEF Queue
<1>5. CASE UserAction  BY <1>5 DEF UserAction, EnqueueEvent, StartsWorker
<1>6. ASSUME NEW isUi \in BOOLEAN, StopBegin(isUi) PROVE OneWorker'
  BY <1>6 DEF StopBegin
<1>7. CASE StopWoken  BY <1>7 DEF StopWoken
<1>8. CASE Cleanup  BY <1>8 DEF Cleanup
<1>9. CASE DrainStart  BY <1>9 DEF DrainStart
<1>10. CASE DrainEnds  BY <1>10 DEF DrainEnds
<1>11. CASE DrainNext  BY <1>11 DEF DrainNext
<1>12. CASE Applied  BY <1>12 DEF Applied, EnqueueEvent, StartsWorker
<1>13. ASSUME NEW w \in Workers, WorkerEnds(w) PROVE OneWorker'
  BY <1>13 DEF WorkerEnds
<1>14. ASSUME NEW w \in Workers, WorkerNext(w) PROVE OneWorker'
  BY <1>14 DEF WorkerNext
<1>15. ASSUME NEW w \in Workers, Deliver(w) PROVE OneWorker'
  BY <1>15 DEF Deliver
<1>16. ASSUME NEW w \in Workers, WorkerDone(w) PROVE OneWorker'
  BY <1>16 DEF WorkerDone
<1>17. QED
  BY ONLY <1>1, <1>2, <1>3, <1>4, <1>5, <1>6, <1>7, <1>8, <1>9, <1>10,
     <1>11, <1>12, <1>13, <1>14, <1>15, <1>16, [Next]_vars
     DEF Next, StopStep, UiStep, WorkStep

(* The event queue lies behind what was delivered, and behind the event that *)
(* the one worker holds.                                                     *)
EventOrder ==
  /\ delivered <= raised
  /\ \A w \in Workers : InCallback(w) => payload[w].n <= raised
  /\ Between(events, 0, raised)
  /\ ~outlived => Between(events, delivered, raised)
  /\ ~outlived => \A w \in Workers :
       worker[w] = "sending" => /\ delivered < payload[w].n
                                /\ Between(events, payload[w].n, raised)

(* EnqueueEvent adds the youngest event. *)
LEMMA EnqueueOrder ==
  ASSUME IInv, EventOrder, EnqueueEvent, UNCHANGED <<payload, delivered, outlived>>
  PROVE  EventOrder'
<1> USE BoundsAssumption DEF IInv, TypeOK, ScalarsOK, QueuesOK, WorkersOK,
      WorkerStates
<1>1. \A w \in Workers : /\ InCallback(w)' <=> InCallback(w)
                         /\ (worker[w] = "sending")' <=> worker[w] = "sending"
  BY DEF EnqueueEvent, StartsWorker, InCallback
<1>2. CASE UNCHANGED <<events, raised>>
  BY <1>1, <1>2 DEF EventOrder
<1>3. CASE /\ accepting /\ raised < MaxEvents /\ raised' = raised + 1
           /\ events' = Append(events, [n |-> raised + 1, s |-> session])
  <2>1. [n |-> raised + 1, s |-> session] \in Item(MaxEvents)
    BY <1>3 DEF GateInv, Item
  <2>2. \A lo \in Nat : lo <= raised /\ Between(events, lo, raised)
                        => Between(events', lo, raised')
    BY <1>3, <2>1, AppendBetween
  <2>3. \A w \in Workers : InCallback(w) => payload[w].n \in Nat
    BY DEF HoldInv, Item
  <2>4. \A w \in Workers : InCallback(w)' => (payload[w].n <= raised)'
    BY <1>1, <1>3, <2>3 DEF EventOrder
  <2>5. /\ Between(events', 0, raised')
        /\ ~outlived => Between(events', delivered, raised')
    BY <2>2 DEF EventOrder
  <2>6. ~outlived => \A w \in Workers :
          worker[w] = "sending" => /\ delivered < payload[w].n
                                   /\ Between(events', payload[w].n, raised')
    BY <2>2, <2>3 DEF EventOrder, InCallback
  <2>7. delivered' <= raised'  BY <1>3 DEF EventOrder
  <2>8. QED  BY <1>1, <2>4, <2>5, <2>6, <2>7 DEF EventOrder
<1>4. QED  BY <1>2, <1>3 DEF EnqueueEvent

(* The event queue stays in order behind the one worker. *)
LEMMA NextEventOrder == IInv /\ OneWorker /\ EventOrder /\ [Next]_vars => EventOrder'
<1> SUFFICES ASSUME IInv, OneWorker, EventOrder, [Next]_vars PROVE EventOrder'
  OBVIOUS
<1> USE BoundsAssumption DEF IInv, TypeOK, ScalarsOK, QueuesOK,
      WorkersOK, WorkerStates, EventOrder, InCallback, flags, uiVars, workVars, hostVars
<1>1. CASE UNCHANGED vars  BY <1>1 DEF vars
<1>2. CASE Bind
  <2>1. events' = <<>> /\ UNCHANGED <<delivered, raised, worker, payload>>
    BY <1>2 DEF Bind
  <2>2. Between(events', delivered, raised) /\ Between(events', 0, raised)
    <3>1. delivered \in Nat /\ raised \in Nat  OBVIOUS
    <3>2. QED  BY ONLY <2>1, <3>1, EmptyBetween
  <2>3. \A w \in Workers : worker[w] \notin {"sending", "sent"}
    BY <1>2 DEF Bind, StopIsQuiet
  <2>4. \A w \in Workers : ~InCallback(w)' /\ worker'[w] # "sending"
    BY <2>1, <2>3
  <2>5. delivered' <= raised'  BY <2>1
  <2>6. Between(events, delivered, raised)' /\ Between(events, 0, raised)'
    BY ONLY <2>1, <2>2
  <2>7. QED  BY ONLY <2>4, <2>5, <2>6 DEF EventOrder
<1>3. CASE Start  BY <1>3 DEF Start
<1>4. CASE Queue  BY <1>4 DEF Queue
<1>5. CASE UserAction  BY <1>5, EnqueueOrder DEF UserAction
<1>6. ASSUME NEW isUi \in BOOLEAN, StopBegin(isUi) PROVE EventOrder'
  <2>1. events' = <<>> /\ UNCHANGED <<delivered, raised, worker, payload, outlived>>
    BY <1>6 DEF StopBegin
  <2>2. Between(events', 0, raised) /\ Between(events', delivered, raised)
    <3>1. delivered \in Nat /\ raised \in Nat  OBVIOUS
    <3>2. QED  BY ONLY <2>1, <3>1, EmptyBetween
  <2>3. \A w \in Workers :
          worker[w] = "sending" => Between(events', payload[w].n, raised)
    <3>1. \A w \in Workers : worker[w] = "sending" => payload[w] \in Item(MaxEvents)
      BY DEF HoldInv
    <3>2. \A w \in Workers : worker[w] = "sending" => payload[w].n \in Nat
      BY <3>1 DEF Item
    <3>3. raised \in Nat  OBVIOUS
    <3>4. QED  BY ONLY <2>1, <3>2, <3>3, EmptyBetween
  <2>4. QED  BY <2>1, <2>2, <2>3
<1>7. CASE StopWoken  BY <1>7 DEF StopWoken
<1>8. CASE Cleanup  BY <1>8 DEF Cleanup
<1>9. CASE DrainStart  BY <1>9 DEF DrainStart
<1>10. CASE DrainEnds  BY <1>10 DEF DrainEnds
<1>11. CASE DrainNext  BY <1>11 DEF DrainNext
<1>12. CASE Applied  BY <1>12, EnqueueOrder DEF Applied
<1>13. ASSUME NEW w \in Workers, WorkerEnds(w) PROVE EventOrder'
  BY <1>13 DEF WorkerEnds
<1>14. ASSUME NEW w \in Workers, WorkerNext(w) PROVE EventOrder'
  <2>1. Between(events, 0, raised) /\ events # <<>>  BY <1>14 DEF WorkerNext
  <2>2. Head(events).n <= raised /\ Head(events).n \in Nat
    <3>1. Head(events).n <= raised /\ Head(events) \in Item(MaxEvents)
      BY <2>1, TailBetween
    <3>2. QED  BY <3>1 DEF Item
  <2>3. ~outlived => /\ Between(Tail(events), Head(events).n, raised)
                     /\ delivered < Head(events).n
    BY <2>1, TailBetween
  <2>4. /\ Between(Tail(events), 0, raised)
        /\ ~outlived => Between(Tail(events), delivered, raised)
    BY <2>1, TailBetween
  <2>5. ~outlived => \A v \in Workers : worker'[v] = "sending" => v = w
    BY <1>14 DEF WorkerNext, OneWorker
  <2>6. QED  BY <1>14, <2>2, <2>3, <2>4, <2>5 DEF WorkerNext
<1>15. ASSUME NEW w \in Workers, Deliver(w) PROVE EventOrder'
  <2>1. payload[w].n \in Nat /\ payload[w].n <= raised  BY <1>15 DEF Deliver, HoldInv, Item
  <2>2. \A v \in Workers : InCallback(v)' <=> InCallback(v)  BY <1>15 DEF Deliver
  <2>3. ~outlived => \A v \in Workers : worker'[v] # "sending"
    BY <1>15 DEF Deliver, OneWorker
  <2>4. ~outlived => Between(events, payload[w].n, raised)  BY <1>15 DEF Deliver
  <2>5. QED  BY <1>15, <2>1, <2>2, <2>3, <2>4 DEF Deliver
<1>16. ASSUME NEW w \in Workers, WorkerDone(w) PROVE EventOrder'
  BY <1>16 DEF WorkerDone
<1>17. QED
  BY ONLY <1>1, <1>2, <1>3, <1>4, <1>5, <1>6, <1>7, <1>8, <1>9, <1>10,
     <1>11, <1>12, <1>13, <1>14, <1>15, <1>16, [Next]_vars
     DEF Next, StopStep, UiStep, WorkStep

(* UI events are delivered in the order they were raised, unless a worker of  *)
(* an earlier session is still draining.                                      *)
THEOREM EventsOrdered == Spec => EventsInOrder
<1>1. Init => OneWorker /\ EventOrder
  BY BoundsAssumption, EmptyBetween DEF Init, OneWorker, EventOrder, InCallback
<1>2. IInv /\ EventOrder /\ [Next]_vars => [~outlived' => delivered' >= delivered]_vars
  <2> SUFFICES ASSUME IInv, EventOrder, [Next]_vars, ~UNCHANGED vars, ~outlived'
               PROVE  delivered' >= delivered
    OBVIOUS
  <2> USE DEF IInv, TypeOK, ScalarsOK, workVars, hostVars
  <2>1. ASSUME NEW w \in Workers, Deliver(w) PROVE delivered' >= delivered
    <3>1. payload[w].n \in Nat  BY <2>1 DEF Deliver, HoldInv, Item, InCallback
    <3>2. QED  BY <2>1, <3>1 DEF Deliver, EventOrder
  <2>2. CASE UNCHANGED delivered  BY <2>2
  <2>3. QED
    BY <2>1, <2>2 DEF Next, StopStep, UiStep, WorkStep, Bind, Start, Queue,
       UserAction, StopBegin, StopWoken, Cleanup, DrainStart, DrainEnds,
       DrainNext, Applied, WorkerEnds, WorkerNext, WorkerDone
<1>3. QED
  BY <1>1, <1>2, Invariance, NextOneWorker, NextEventOrder, PTL
     DEF Spec, EventsInOrder
================================================================================
