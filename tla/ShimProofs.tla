------------------------------- MODULE ShimProofs -------------------------------
(***************************************************************************)
(* For every set of event threads, event kinds and plugin instances: once  *)
(* Unsubscribe has had callbackGate no event is in the native library, and *)
(* if no "+=", "-=" or UiBridge.Start throws, every call                   *)
(* into the library finds it loaded, with its repository, and every event  *)
(* finds a plugin.  The contract of api.rs then holds for the plugin: the  *)
(* library is unmapped only when no call is in it and no plugin installed, *)
(* so that even FreeLibrary drops no plugin.  For that the invariant of    *)
(* NativeAbi, proved there for any host, is used for this one: N is        *)
(* NativeAbi with its proofs, over the same variables.                     *)
(***************************************************************************)
EXTENDS Shim, TLAPS

SenderStates == {"idle", "encoded", "calling"}

(* The part of TypeOK that the proofs rest on. *)
Types ==
  /\ pc \in [Threads -> Native!PcStates]
  /\ sender \in [Senders -> SenderStates]
  /\ gate \in Senders \cup {None}
  /\ stopping \in BOOLEAN

(* Who is in the native library holds callbackGate, and nobody else does. *)
GateInv ==
  /\ \A s \in Senders : sender[s] = "calling" <=> gate = s
  /\ \A s \in Senders : pc[s] # "idle" => sender[s] = "calling"

IInv == Types /\ GateInv /\ (stopping => gate = None)

(* A step of the native library moves one thread, which was in a call. *)
LEMMA AdvanceMoves ==
  ASSUME NEW t \in Threads, Native!Advance(t)
  PROVE  /\ pc[t] # "idle"
         /\ \E x \in Native!PcStates : pc' = [pc EXCEPT ![t] = x]
<1> USE DEF Native!Goto, Native!Return, Native!PcStates
<1>1. CASE Native!StartOccupied(t)  BY <1>1 DEF Native!StartOccupied
<1>2. CASE Native!StartVacant(t)  BY <1>2 DEF Native!StartVacant
<1>3. CASE Native!InitOk(t)  BY <1>3 DEF Native!InitOk
<1>4. CASE Native!InitFailed(t)  BY <1>4 DEF Native!InitFailed
<1>5. CASE Native!StartLost(t)  BY <1>5 DEF Native!StartLost
<1>6. CASE Native!StartInstalled(t)  BY <1>6 DEF Native!StartInstalled
<1>7. CASE Native!EventUninitialised(t)  BY <1>7 DEF Native!EventUninitialised
<1>8. CASE Native!EventStopped(t)  BY <1>8 DEF Native!EventStopped
<1>9. CASE Native!EventMalformed(t)  BY <1>9 DEF Native!EventMalformed
<1>10. CASE Native!EventEnter(t)  BY <1>10 DEF Native!EventEnter
<1>11. CASE Native!EventReturn(t)  BY <1>11 DEF Native!EventReturn
<1>12. CASE Native!ShutUninitialised(t)  BY <1>12 DEF Native!ShutUninitialised
<1>13. CASE Native!ShutEnter(t)  BY <1>13 DEF Native!ShutEnter
<1>14. CASE Native!ShutReturn(t)  BY <1>14 DEF Native!ShutReturn
<1>15. QED
  BY <1>1, <1>2, <1>3, <1>4, <1>5, <1>6, <1>7, <1>8, <1>9, <1>10, <1>11,
     <1>12, <1>13, <1>14 DEF Native!Advance

(* The initial state satisfies the invariant of callbackGate. *)
LEMMA InitIInv == Init => IInv
BY NamesAssumption DEF Init, IInv, Types, GateInv, Native!Init, Native!PcStates,
   SenderStates, Threads

(* No step of a sender, of the UI thread or of the plugin breaks it. *)
LEMMA NextIInv == IInv /\ [Next]_vars => IInv'
<1> SUFFICES ASSUME IInv, [Next]_vars PROVE IInv'
  OBVIOUS
<1> USE ThreadsAssumption, NamesAssumption
    DEF IInv, Types, GateInv, SenderStates, Senders, Threads, At,
        NativeIdle, native, shared, hostVars, sending
<1>1. CASE UNCHANGED vars  BY <1>1 DEF vars
<1>2. CASE InitBegin  BY <1>2 DEF InitBegin
<1>3. CASE DeInitBegin  BY <1>3 DEF DeInitBegin
<1>4. CASE FindServicesFails  BY <1>4 DEF FindServicesFails
<1>5. CASE BindServices  BY <1>5 DEF BindServices
<1>6. CASE LoadFails  BY <1>6 DEF LoadFails
<1>7. CASE LoadAndStart
  BY <1>7 DEF LoadAndStart, Native!CallStart, Native!Goto, Native!PcStates
<1>8. CASE StartRefused  BY <1>8 DEF StartRefused
<1>9. CASE StartAccepted  BY <1>9 DEF StartAccepted
<1>10. CASE Subscribe  BY <1>10 DEF Subscribe
<1>11. CASE Attach  BY <1>11 DEF Attach
<1>12. CASE UiStart  BY <1>12 DEF UiStart
<1>13. CASE UiStop  BY <1>13 DEF UiStop
<1>14. CASE UiStopped  BY <1>14 DEF UiStopped
<1>15. CASE Unsubscribe  BY <1>15 DEF Unsubscribe
<1>16. CASE Detach
  BY <1>16 DEF Detach, Native!CallShutdown, Native!Goto, Native!PcStates
<1>17. CASE ShutdownReturned  BY <1>17 DEF ShutdownReturned
<1>18. CASE Clear  BY <1>18 DEF Clear
<1>19. CASE Unload  BY <1>19 DEF Unload, Unmapped
<1>20. ASSUME NEW s \in Senders, EventRaised(s) PROVE IInv'
  BY <1>20 DEF EventRaised
<1>21. ASSUME NEW s \in Senders, SendDropped(s) PROVE IInv'
  BY <1>21 DEF SendDropped
<1>22. ASSUME NEW s \in Senders, SendEnter(s) PROVE IInv'
  BY <1>22 DEF SendEnter, Native!CallEvent, Native!Goto, Native!PcStates
<1>23. ASSUME NEW s \in Senders, SendReturn(s) PROVE IInv'
  BY <1>23 DEF SendReturn
<1>24. ASSUME NEW t \in Threads, NativeStep(t) PROVE IInv'
  <2>1. Native!Advance(t) /\ UNCHANGED <<sender, gate, stopping>>
    BY <1>24 DEF NativeStep
  <2>2. PICK x \in Native!PcStates : pc[t] # "idle" /\ pc' = [pc EXCEPT ![t] = x]
    BY ONLY <2>1, <1>24, AdvanceMoves DEF Threads
  <2>3. QED  BY <2>1, <2>2
<1>25. CASE DetachFails  BY <1>25 DEF DetachFails
<1>26. QED
  BY ONLY <1>1, <1>2, <1>3, <1>4, <1>5, <1>6, <1>7, <1>8, <1>9, <1>10, <1>11,
     <1>12, <1>13, <1>14, <1>15, <1>16, <1>17, <1>18, <1>19, <1>20, <1>21,
     <1>22, <1>23, <1>24, <1>25, [Next]_vars DEF Next, HostStep, SendStep

(* The invariant of callbackGate holds in every reachable state. *)
THEOREM Invariance == Spec => []IInv
BY InitIInv, NextIInv, PTL DEF Spec

(* Whatever throws in the shim: while "stopping" is set no event thread,     *)
(* and no worker of UiBridge, is in the native library.                      *)
THEOREM QuietGate == Spec => []QuietAfterUnsubscribe
<1>1. IInv => QuietAfterUnsubscribe
  BY NamesAssumption DEF IInv, Types, GateInv, QuietAfterUnsubscribe, NativeIdle,
     Threads
<1>2. QED  BY <1>1, Invariance, PTL

-------------------------------------------------------------------------------
(***************************************************************************)
(* Types, late exceptions and the unmapped library included.               *)
(***************************************************************************)
LEMMA InitTypes == Init => TypeOK
BY NamesAssumption DEF Init, TypeOK, Native!Init, Native!TypeOK, Native!PcStates,
   Native!Status, HostStates, Threads

(* A step of the native library keeps the types of its variables. *)
LEMMA NativeTypes ==
  ASSUME Native!TypeOK, NEW t \in Threads, Native!Advance(t)
  PROVE  Native!TypeOK'
<1> USE NamesAssumption
    DEF Native!TypeOK, Native!PcStates, Native!Status, Native!Goto, Native!Return, Native!CanLock
<1>1. CASE Native!StartOccupied(t)  BY <1>1 DEF Native!StartOccupied
<1>2. CASE Native!StartVacant(t)  BY <1>2 DEF Native!StartVacant
<1>3. CASE Native!InitOk(t)  BY <1>3 DEF Native!InitOk
<1>4. CASE Native!InitFailed(t)  BY <1>4 DEF Native!InitFailed
<1>5. CASE Native!StartLost(t)  BY <1>5 DEF Native!StartLost
<1>6. CASE Native!StartInstalled(t)  BY <1>6 DEF Native!StartInstalled
<1>7. CASE Native!EventUninitialised(t)  BY <1>7 DEF Native!EventUninitialised
<1>8. CASE Native!EventStopped(t)  BY <1>8 DEF Native!EventStopped
<1>9. CASE Native!EventMalformed(t)  BY <1>9 DEF Native!EventMalformed
<1>10. CASE Native!EventEnter(t)  BY <1>10 DEF Native!EventEnter
<1>11. CASE Native!EventReturn(t)  BY <1>11 DEF Native!EventReturn
<1>12. CASE Native!ShutUninitialised(t)  BY <1>12 DEF Native!ShutUninitialised
<1>13. CASE Native!ShutEnter(t)  BY <1>13 DEF Native!ShutEnter
<1>14. CASE Native!ShutReturn(t)  BY <1>14 DEF Native!ShutReturn
<1>15. QED
  BY <1>1, <1>2, <1>3, <1>4, <1>5, <1>6, <1>7, <1>8, <1>9, <1>10, <1>11,
     <1>12, <1>13, <1>14 DEF Native!Advance

(* A step that leaves the library alone keeps its types. *)
LEMMA NativeSame ==
  ASSUME Native!TypeOK, UNCHANGED native
  PROVE  Native!TypeOK'
BY DEF native, Native!TypeOK

LEMMA NextTypes == TypeOK /\ [Next]_vars => TypeOK'
<1> SUFFICES ASSUME TypeOK, [Next]_vars PROVE TypeOK'
  OBVIOUS
<1> DEFINE Own ==
      /\ host \in HostStates /\ leaving \in {"none", "catch", "deinit"}
      /\ ui \in {"unbound", "bound", "started", "stopping"}
      /\ loaded \in BOOLEAN /\ pluginClient \in BOOLEAN /\ bridgeClient \in BOOLEAN
      /\ stopping \in BOOLEAN /\ repository \in BOOLEAN
      /\ wanted \in SUBSET Kinds /\ attached \in SUBSET Kinds
      /\ gate \in Senders \cup {None}
      /\ sender \in [Senders -> {"idle", "encoded", "calling"}]
      /\ kind \in [Senders -> Kinds \cup {"ui", "none"}]
<1>a. Own /\ Native!TypeOK
  BY DEF TypeOK
<1>b. ASSUME Own', Native!TypeOK' PROVE TypeOK'
  BY <1>b DEF TypeOK
<1>1. Own'
  <2> USE <1>a DEF At, HostStates, shared, sending, hostVars
  <2>1. CASE UNCHANGED vars  BY <2>1 DEF vars
  <2>2. CASE InitBegin  BY <2>2 DEF InitBegin
  <2>3. CASE DeInitBegin  BY <2>3 DEF DeInitBegin
  <2>4. CASE HostStep
    <3>1. CASE FindServicesFails  BY <3>1 DEF FindServicesFails
    <3>2. CASE BindServices  BY <3>2 DEF BindServices
    <3>3. CASE LoadFails  BY <3>3 DEF LoadFails
    <3>4. CASE LoadAndStart  BY <3>4 DEF LoadAndStart
    <3>5. CASE StartRefused  BY <3>5 DEF StartRefused
    <3>6. CASE StartAccepted  BY <3>6 DEF StartAccepted
    <3>7. CASE Subscribe  BY <3>7 DEF Subscribe
    <3>8. CASE Attach  BY <3>8 DEF Attach
    <3>9. CASE UiStart  BY <3>9 DEF UiStart
    <3>10. CASE UiStop  BY <3>10 DEF UiStop
    <3>11. CASE UiStopped  BY <3>11 DEF UiStopped
    <3>12. CASE Unsubscribe  BY <3>12 DEF Unsubscribe
    <3>13. CASE Detach  BY <3>13 DEF Detach
    <3>14. CASE ShutdownReturned  BY <3>14 DEF ShutdownReturned
    <3>15. CASE Clear  BY <3>15 DEF Clear
    <3>16. CASE Unload  BY <3>16 DEF Unload
    <3>17. CASE DetachFails  BY <3>17 DEF DetachFails
    <3>18. QED
      BY ONLY <2>4, <3>1, <3>2, <3>3, <3>4, <3>5, <3>6, <3>7, <3>8, <3>9, <3>10,
         <3>11, <3>12, <3>13, <3>14, <3>15, <3>16, <3>17 DEF HostStep
  <2>5. ASSUME NEW s \in Senders, EventRaised(s) PROVE Own'
    BY <2>5 DEF EventRaised
  <2>6. ASSUME NEW s \in Senders, SendStep(s) PROVE Own'
    BY <2>6 DEF SendStep, SendDropped, SendEnter, SendReturn
  <2>7. ASSUME NEW t \in Threads, NativeStep(t) PROVE Own'
    BY <2>7 DEF NativeStep
  <2>8. QED
    BY ONLY <2>1, <2>2, <2>3, <2>4, <2>5, <2>6, <2>7, [Next]_vars DEF Next
<1>2. Native!TypeOK'
  <2>1. CASE UNCHANGED native
    BY <1>a, <2>1, NativeSame
  <2>2. ASSUME NEW t \in Threads, NativeStep(t) PROVE Native!TypeOK'
    BY <1>a, <2>2, NativeTypes DEF NativeStep
  <2>3. CASE LoadAndStart
    BY <1>a, <2>3 DEF LoadAndStart, Native!CallStart, Native!Goto, Native!TypeOK, Native!PcStates
  <2>4. CASE Detach /\ CallsShutdown
    BY <1>a, <2>4 DEF Detach, Native!CallShutdown, Native!Goto, Native!TypeOK, Native!PcStates
  <2>5. CASE Unmapped
    BY <1>a, <2>5 DEF Unmapped, Native!TypeOK
  <2>6. ASSUME NEW s \in Senders, SendEnter(s) PROVE Native!TypeOK'
    BY <1>a, <2>6 DEF SendEnter, Native!CallEvent, Native!Goto, Native!TypeOK, Native!PcStates
  <2>7. HostStep => UNCHANGED native \/ LoadAndStart \/ (Detach /\ CallsShutdown) \/ Unmapped
    BY DEF HostStep, FindServicesFails, BindServices, LoadFails, StartRefused, StartAccepted,
       Subscribe, Attach, UiStart, UiStop, UiStopped, Unsubscribe, Detach, DetachFails,
       ShutdownReturned, Clear, Unload, native
  <2>8. QED
    BY <2>1, <2>2, <2>3, <2>4, <2>5, <2>6, <2>7
       DEF Next, vars, InitBegin, DeInitBegin, EventRaised, SendStep, SendDropped, SendReturn
<1>3. QED  BY ONLY <1>1, <1>2, <1>b

(* Every variable of the shim and of the library under it keeps its type. *)
THEOREM TypeCorrect == Spec => []TypeOK
BY InitTypes, NextTypes, PTL DEF Spec

-------------------------------------------------------------------------------
(***************************************************************************)
(* From here on no "+=", "-=" or UiBridge.Start throws.  (If something     *)
(* throws after the native start, the catch block unloads the library and  *)
(* keeps Plugin.client: ReleasedBeforeUnload.)                             *)
(***************************************************************************)
StartStates == {"start_check", "start_init", "start_install"}
Building    == {"start_init", "start_install"}
EventStates == {"event_lock", "event_plugin"}
ShutStates  == {"shut_lock", "shut_plugin"}

OpenHosts  == {"attaching", "ui_start", "running", "ui_stop", "ui_wait",
               "unsubscribe"}
Teardown   == {"ui_stop", "ui_wait", "unsubscribe", "detach", "shutting", "clear"}

CallTypes ==
  /\ ret \in [Threads -> Native!Status]
  /\ held \in [Threads -> Instances \cup {None}]
  /\ installed \in Instances \cup {None}
  /\ host \in HostStates /\ pluginClient \in BOOLEAN

(* Which calls a thread can be in, by what the shim is doing. *)
CallInv ==
  /\ \A s \in Senders : pc[s] \in EventStates \cup {"idle"}
  /\ pc[UiThread] # "idle" => host \in {"starting", "shutting"}
  /\ host = "starting" => pc[UiThread] \in StartStates \cup {"idle"}
  /\ host = "shutting" => pc[UiThread] \in ShutStates \cup {"idle"}
  /\ pc[UiThread] \in Building => held[UiThread] # None

(* Plugin.client is set from StartAccepted to Clear, and only then; all that *)
(* time the library is loaded and the repository bound.                      *)
ClientInv ==
  /\ host \in {"starting", "subscribing"} => loaded /\ repository
  /\ host = "loading" => repository
  /\ host = "subscribing" => pluginClient
  /\ host = "shutting" => pluginClient
  /\ pluginClient => /\ loaded /\ repository
                     /\ host \in {"subscribing"} \cup OpenHosts \cup Teardown
                     /\ host \in Teardown => leaving = "deinit"
  /\ ~stopping => pluginClient /\ host \in OpenHosts

(* A plugin is installed from the "Ok" of start to the shutdown. *)
InstalledInv ==
  /\ host = "starting" /\ pc[UiThread] = "idle" /\ ret[UiThread] = "Ok"
       => installed # None
  /\ pluginClient /\ host \notin {"shutting", "clear"} => installed # None

HostInv == CallTypes /\ CallInv /\ ClientInv /\ InstalledInv

(* The initial state satisfies the host's invariant. *)
LEMMA InitHost == Init => HostInv
BY NamesAssumption, ThreadsAssumption
   DEF Init, HostInv, CallTypes, CallInv, ClientInv, InstalledInv, Native!Init,
       Native!Status, HostStates, StartStates, Building, EventStates, ShutStates,
       OpenHosts, Teardown, Threads, Senders

(* What the native side does to the variables of HostInv when the thread is  *)
(* in an event: the plugin stays installed.                                  *)
LEMMA EventAdvance ==
  ASSUME NEW t \in Threads, Native!Advance(t), Types, CallTypes,
         pc[t] \in EventStates
  PROVE  /\ \E x \in EventStates \cup {"idle"} : pc' = [pc EXCEPT ![t] = x]
         /\ ret' \in [Threads -> Native!Status]
         /\ \A u \in Threads : u # t => ret'[u] = ret[u]
         /\ UNCHANGED <<installed, held>>
<1> USE DEF Native!Goto, Native!Return, EventStates, Types, CallTypes,
            Native!Status
<1>1. \/ Native!EventUninitialised(t) \/ Native!EventStopped(t)
      \/ Native!EventMalformed(t) \/ Native!EventEnter(t) \/ Native!EventReturn(t)
  BY DEF Native!Advance, Native!StartOccupied, Native!StartVacant,
     Native!InitOk, Native!InitFailed, Native!StartLost, Native!StartInstalled,
     Native!ShutUninitialised, Native!ShutEnter, Native!ShutReturn
<1>2. CASE Native!EventUninitialised(t)  BY <1>2 DEF Native!EventUninitialised
<1>3. CASE Native!EventStopped(t)  BY <1>3 DEF Native!EventStopped
<1>4. CASE Native!EventMalformed(t)  BY <1>4 DEF Native!EventMalformed
<1>5. CASE Native!EventEnter(t)  BY <1>5 DEF Native!EventEnter
<1>6. CASE Native!EventReturn(t)  BY <1>6 DEF Native!EventReturn
<1>7. QED  BY <1>1, <1>2, <1>3, <1>4, <1>5, <1>6

(* When it is in start: "Ok" comes only with an installed plugin. *)
LEMMA StartAdvance ==
  ASSUME NEW t \in Threads, Native!Advance(t), Types, CallTypes,
         pc[t] \in StartStates, pc[t] \in Building => held[t] # None
  PROVE  /\ \E x \in StartStates \cup {"idle"} : pc' = [pc EXCEPT ![t] = x]
         /\ ret' \in [Threads -> Native!Status]
         /\ \A u \in Threads : u # t => ret'[u] = ret[u]
         /\ held' \in [Threads -> Instances \cup {None}]
         /\ installed' \in Instances \cup {None}
         /\ pc'[t] \in Building => held'[t] # None
         /\ pc'[t] = "idle" /\ ret'[t] = "Ok" => installed' # None
<1> USE NamesAssumption
    DEF Native!Goto, Native!Return, StartStates, Building, Types, CallTypes, Native!Status
<1>1. \/ Native!StartOccupied(t) \/ Native!StartVacant(t) \/ Native!InitOk(t)
      \/ Native!InitFailed(t) \/ Native!StartLost(t) \/ Native!StartInstalled(t)
  BY DEF Native!Advance, Native!EventUninitialised, Native!EventStopped,
     Native!EventMalformed, Native!EventEnter, Native!EventReturn,
     Native!ShutUninitialised, Native!ShutEnter, Native!ShutReturn
<1>2. CASE Native!StartOccupied(t)  BY <1>2 DEF Native!StartOccupied
<1>3. CASE Native!StartVacant(t)  BY <1>3 DEF Native!StartVacant
<1>4. CASE Native!InitOk(t)  BY <1>4 DEF Native!InitOk
<1>5. CASE Native!InitFailed(t)  BY <1>5 DEF Native!InitFailed
<1>6. CASE Native!StartLost(t)  BY <1>6 DEF Native!StartLost
<1>7. CASE Native!StartInstalled(t)  BY <1>7 DEF Native!StartInstalled
<1>8. QED  BY <1>1, <1>2, <1>3, <1>4, <1>5, <1>6, <1>7

(* When it is in shutdown. *)
LEMMA ShutAdvance ==
  ASSUME NEW t \in Threads, Native!Advance(t), Types, CallTypes,
         pc[t] \in ShutStates
  PROVE  /\ \E x \in ShutStates \cup {"idle"} : pc' = [pc EXCEPT ![t] = x]
         /\ ret' \in [Threads -> Native!Status]
         /\ \A u \in Threads : u # t => ret'[u] = ret[u]
         /\ held' \in [Threads -> Instances \cup {None}]
         /\ installed' \in Instances \cup {None}
<1> USE DEF Native!Goto, Native!Return, ShutStates, Types, CallTypes,
            Native!Status
<1>1. \/ Native!ShutUninitialised(t) \/ Native!ShutEnter(t) \/ Native!ShutReturn(t)
  BY DEF Native!Advance, Native!StartOccupied, Native!StartVacant,
     Native!InitOk, Native!InitFailed, Native!StartLost, Native!StartInstalled,
     Native!EventUninitialised, Native!EventStopped, Native!EventMalformed,
     Native!EventEnter, Native!EventReturn
<1>2. CASE Native!ShutUninitialised(t)  BY <1>2 DEF Native!ShutUninitialised
<1>3. CASE Native!ShutEnter(t)  BY <1>3 DEF Native!ShutEnter
<1>4. CASE Native!ShutReturn(t)  BY <1>4 DEF Native!ShutReturn
<1>5. QED  BY <1>1, <1>2, <1>3, <1>4

(* A step of the native library keeps the host's invariant: the senders are  *)
(* in events, the UI thread in start or in shutdown.                         *)
LEMMA NativeHost ==
  ASSUME IInv, HostInv, NEW t \in Threads, NativeStep(t)
  PROVE  HostInv'
<1>1. Native!Advance(t) /\ UNCHANGED <<shared, sending, hostVars, gate>>
  BY DEF NativeStep
<1>2. pc[t] # "idle"  BY <1>1, AdvanceMoves
<1>3. UNCHANGED <<host, leaving, loaded, repository, pluginClient, stopping>>
  BY <1>1 DEF shared, hostVars
<1>4. CASE t \in Senders
  <2>1. t # UiThread  BY <1>4, ThreadsAssumption DEF Senders
  <2>2. pc[t] \in EventStates  BY <1>2, <1>4 DEF HostInv, CallInv
  <2>3. /\ \E x \in EventStates \cup {"idle"} : pc' = [pc EXCEPT ![t] = x]
        /\ ret' \in [Threads -> Native!Status] /\ ret'[UiThread] = ret[UiThread]
        /\ UNCHANGED <<installed, held>>
    BY <1>1, <2>1, <2>2, EventAdvance DEF IInv, HostInv, Threads
  <2>4. QED
    BY <1>3, <1>4, <2>1, <2>3 DEF HostInv, CallTypes, CallInv, ClientInv,
       InstalledInv, IInv, Types, Threads
<1>5. CASE t = UiThread /\ host = "starting"
  <2>1. pc[t] \in StartStates  BY <1>2, <1>5 DEF HostInv, CallInv
  <2>2. /\ \E x \in StartStates \cup {"idle"} : pc' = [pc EXCEPT ![t] = x]
        /\ ret' \in [Threads -> Native!Status]
        /\ held' \in [Threads -> Instances \cup {None}]
        /\ installed' \in Instances \cup {None}
        /\ pc'[t] \in Building => held'[t] # None
        /\ pc'[t] = "idle" /\ ret'[t] = "Ok" => installed' # None
    BY <1>1, <1>5, <2>1, StartAdvance DEF IInv, HostInv, CallInv
  <2>3. ~pluginClient
    BY <1>5 DEF HostInv, ClientInv, OpenHosts, Teardown
  <2>4. QED
    BY <1>3, <1>5, <2>2, <2>3, ThreadsAssumption
       DEF HostInv, CallTypes, CallInv, ClientInv, InstalledInv, IInv, Types,
           Threads, Senders
<1>6. CASE t = UiThread /\ host = "shutting"
  <2>1. pc[t] \in ShutStates  BY <1>2, <1>6 DEF HostInv, CallInv
  <2>2. /\ \E x \in ShutStates \cup {"idle"} : pc' = [pc EXCEPT ![t] = x]
        /\ ret' \in [Threads -> Native!Status]
        /\ held' \in [Threads -> Instances \cup {None}]
        /\ installed' \in Instances \cup {None}
    BY <1>1, <2>1, ShutAdvance DEF IInv, HostInv
  <2>3. QED
    BY <1>3, <1>6, <2>2, ThreadsAssumption
       DEF HostInv, CallTypes, CallInv, ClientInv, InstalledInv, IInv, Types,
           Threads, Senders, ShutStates, Building
<1>7. QED
  BY <1>2, <1>4, <1>5, <1>6 DEF HostInv, CallInv, Threads

(* Every step keeps the host's invariant, if nothing throws late.            *)
LEMMA NextHost ==
  ASSUME MayThrow = FALSE, IInv, HostInv, [Next]_vars PROVE HostInv'
<1> USE ThreadsAssumption, NamesAssumption
    DEF HostInv, CallTypes, CallInv, ClientInv, InstalledInv, IInv, Types,
        HostStates, OpenHosts, Teardown, Senders, Threads, At, NativeIdle,
        native, shared, hostVars, sending
<1>1. CASE UNCHANGED vars  BY <1>1 DEF vars
<1>2. CASE InitBegin  BY <1>2 DEF InitBegin
<1>3. CASE DeInitBegin  BY <1>3 DEF DeInitBegin
<1>4. CASE FindServicesFails  BY <1>4 DEF FindServicesFails
<1>5. CASE BindServices  BY <1>5 DEF BindServices
<1>6. CASE LoadFails  BY <1>6 DEF LoadFails
<1>7. CASE LoadAndStart
  BY <1>7 DEF LoadAndStart, Native!CallStart, Native!Goto, StartStates, Building
<1>8. CASE StartRefused  BY <1>8 DEF StartRefused
<1>9. CASE StartAccepted  BY <1>9 DEF StartAccepted
<1>10. CASE Subscribe  BY <1>10 DEF Subscribe
<1>11. CASE Attach  BY <1>11 DEF Attach
<1>12. CASE UiStart  BY <1>12 DEF UiStart
<1>13. CASE UiStop  BY <1>13 DEF UiStop
<1>14. CASE UiStopped  BY <1>14 DEF UiStopped
<1>15. CASE Unsubscribe  BY <1>15 DEF Unsubscribe
<1>16. CASE Detach
  BY <1>16 DEF Detach, CallsShutdown, Native!CallShutdown, Native!Goto,
     ShutStates, Building
<1>17. CASE ShutdownReturned  BY <1>17 DEF ShutdownReturned
<1>18. CASE Clear  BY <1>18 DEF Clear
<1>19. CASE Unload
  <2>1. ~pluginClient /\ pc[UiThread] = "idle"  BY <1>19 DEF Unload
  <2>2. UNCHANGED <<pc, ret, pluginClient, stopping, repository>> /\ host' = "off"
    BY <1>19 DEF Unload, Unmapped, native
  <2>3. /\ held' \in [Threads -> Instances \cup {None}]
        /\ installed' \in Instances \cup {None}
    BY <1>19 DEF Unload, Unmapped, native
  <2>4. QED  BY <1>19, <2>1, <2>2, <2>3 DEF Building
<1>20. ASSUME NEW s \in Senders, EventRaised(s) PROVE HostInv'
  BY <1>20 DEF EventRaised
<1>21. ASSUME NEW s \in Senders, SendDropped(s) PROVE HostInv'
  BY <1>21 DEF SendDropped
<1>22. ASSUME NEW s \in Senders, SendEnter(s) PROVE HostInv'
  BY <1>22 DEF SendEnter, Native!CallEvent, Native!Goto, EventStates
<1>23. ASSUME NEW s \in Senders, SendReturn(s) PROVE HostInv'
  BY <1>23 DEF SendReturn
<1>24. ASSUME NEW t \in Threads, NativeStep(t) PROVE HostInv'
  BY ONLY <1>24, NativeHost, IInv, HostInv DEF Threads
<1>25. CASE DetachFails  BY <1>25 DEF DetachFails
<1>26. QED
  BY ONLY <1>1, <1>2, <1>3, <1>4, <1>5, <1>6, <1>7, <1>8, <1>9, <1>10, <1>11,
     <1>12, <1>13, <1>14, <1>15, <1>16, <1>17, <1>18, <1>19, <1>20, <1>21,
     <1>22, <1>23, <1>24, <1>25, [Next]_vars DEF Next, HostStep, SendStep

(* The host's invariant holds in every reachable state. *)
THEOREM HostInvariance == ASSUME MayThrow = FALSE PROVE Spec => []HostInv
<1>1. IInv /\ HostInv /\ [Next]_vars => HostInv'  BY NextHost
<1>2. QED  BY <1>1, InitHost, Invariance, PTL DEF Spec

(* No call, of an event, of start or of shutdown, is in the native library   *)
(* when FreeLibrary has been called on it.                                   *)
THEOREM CodeLoaded == ASSUME MayThrow = FALSE PROVE Spec => []NativeCodeLoaded
<1>1. IInv /\ HostInv => NativeCodeLoaded
  BY NamesAssumption DEF IInv, Types, GateInv, HostInv, CallInv, ClientInv,
     NativeCodeLoaded, NativeIdle, Threads
<1>2. QED  BY <1>1, Invariance, HostInvariance, PTL

(* P::init, on_event and shutdown run with the repository bound. *)
THEOREM RepositoryBound ==
  ASSUME MayThrow = FALSE PROVE Spec => []RepositoryForPlugin
<1>1. IInv /\ HostInv => RepositoryForPlugin
  BY NamesAssumption DEF IInv, Types, GateInv, HostInv, CallInv, ClientInv,
     RepositoryForPlugin, PluginCode, Threads
<1>2. QED  BY <1>1, Invariance, HostInvariance, PTL

(* An event that passed callbackGate finds an installed plugin. *)
THEOREM EventsFind == ASSUME MayThrow = FALSE PROVE Spec => []EventsFindPlugin
<1>1. IInv /\ HostInv => EventsFindPlugin
  BY NamesAssumption DEF IInv, Types, GateInv, HostInv, ClientInv, InstalledInv,
     OpenHosts, EventsFindPlugin, NativeIdle, Threads
<1>2. QED  BY <1>1, Invariance, HostInvariance, PTL

-------------------------------------------------------------------------------
(* The contract of api.rs, for a plugin under the shim.                     *)
N == INSTANCE NativeAbiProofs

phaseBar == [i \in Instances |-> Native!PhaseOf(i)]

(* A step of a call, and the calls that the shim makes, are steps of NativeAbi. *)
LEMMA SameAdvance ==
  ASSUME NEW t \in Threads, Native!Advance(t)
  PROVE  N!Advance(t)
<1> USE DEF Native!Goto, N!Goto, Native!Return, N!Return, Native!CanLock, N!CanLock,
            Native!Alive, N!Alive
<1>1. CASE Native!StartOccupied(t)  BY <1>1 DEF Native!StartOccupied, N!StartOccupied, N!Advance
<1>2. CASE Native!StartVacant(t)  BY <1>2 DEF Native!StartVacant, N!StartVacant, N!Advance
<1>3. CASE Native!InitOk(t)  BY <1>3 DEF Native!InitOk, N!InitOk, N!Advance
<1>4. CASE Native!InitFailed(t)  BY <1>4 DEF Native!InitFailed, N!InitFailed, N!Advance
<1>5. CASE Native!StartLost(t)  BY <1>5 DEF Native!StartLost, N!StartLost, N!Advance
<1>6. CASE Native!StartInstalled(t)  BY <1>6 DEF Native!StartInstalled, N!StartInstalled, N!Advance
<1>7. CASE Native!EventUninitialised(t)  BY <1>7 DEF Native!EventUninitialised, N!EventUninitialised, N!Advance
<1>8. CASE Native!EventStopped(t)  BY <1>8 DEF Native!EventStopped, N!EventStopped, N!Advance
<1>9. CASE Native!EventMalformed(t)  BY <1>9 DEF Native!EventMalformed, N!EventMalformed, N!Advance
<1>10. CASE Native!EventEnter(t)  BY <1>10 DEF Native!EventEnter, N!EventEnter, N!Advance
<1>11. CASE Native!EventReturn(t)  BY <1>11 DEF Native!EventReturn, N!EventReturn, N!Advance
<1>12. CASE Native!ShutUninitialised(t)  BY <1>12 DEF Native!ShutUninitialised, N!ShutUninitialised, N!Advance
<1>13. CASE Native!ShutEnter(t)  BY <1>13 DEF Native!ShutEnter, N!ShutEnter, N!Advance
<1>14. CASE Native!ShutReturn(t)  BY <1>14 DEF Native!ShutReturn, N!ShutReturn, N!Advance
<1>15. QED
  BY <1>1, <1>2, <1>3, <1>4, <1>5, <1>6, <1>7, <1>8, <1>9, <1>10, <1>11, <1>12, <1>13, <1>14 DEF Native!Advance

LEMMA SameEnter ==
  ASSUME NEW t \in Threads,
         Native!CallStart(t) \/ Native!CallEvent(t) \/ Native!CallShutdown(t)
  PROVE  N!Enter(t)
BY DEF Native!CallStart, Native!CallEvent, Native!CallShutdown, N!CallStart, N!CallEvent,
   N!CallShutdown, N!Enter, Native!Goto, N!Goto

(* So both keep the invariant of NativeAbi. *)
LEMMA NativeKeeps ==
  ASSUME N!IInv, NEW t \in Threads,
         \/ Native!Advance(t)
         \/ Native!CallStart(t) \/ Native!CallEvent(t) \/ Native!CallShutdown(t)
  PROVE  N!IInv'
<1>1. N!Advance(t) \/ N!Enter(t)
  BY SameAdvance, SameEnter
<1>2. N!Next
  BY <1>1 DEF N!Next
<1>3. QED  BY <1>2, N!NextIInv, NamesAssumption

LEMMA NativeStutters ==
  ASSUME N!IInv, UNCHANGED native
  PROVE  N!IInv'
<1>1. UNCHANGED N!vars
  BY DEF native, N!vars
<1>2. QED  BY <1>1, N!NextIInv, NamesAssumption

-------------------------------------------------------------------------------
(* The phases. *)

(* One instance moves and the rest stay: the form of Contract!Move. *)
LEMMA OneMoves ==
  ASSUME NEW k \in Instances, NEW from, NEW to,
         Native!PhaseOf(k) \in from, Native!PhaseOf(k)' = to,
         \A j \in Instances : j # k => Native!PhaseOf(j)' = Native!PhaseOf(j)
  PROVE  Contract!Move(k, from, to)
BY DEF Contract!Move

LEMMA NoneMoves ==
  ASSUME \A j \in Instances : Native!PhaseOf(j)' = Native!PhaseOf(j)
  PROVE  UNCHANGED phaseBar
BY DEF phaseBar

LEMMA StepOfOne ==
  ASSUME NEW k \in Instances, Contract!Step(k)
  PROVE  [Contract!Next]_phaseBar
BY DEF Contract!Next

LEMMA RefineInit == Init => Contract!Init
BY NamesAssumption DEF Init, Native!Init, Contract!Init, Native!PhaseOf, Native!HeldAt

(* A step of a call is a step of the contract, or one that it does not see. *)
LEMMA RefineAdvance ==
  ASSUME N!IInv, N!IInv', NEW t \in Threads, Native!Advance(t)
  PROVE  [Contract!Next]_phaseBar
<1> USE NamesAssumption
    DEF N!IInv, N!TypeOK, N!GuardInv, N!OwnerInv, N!Owning, N!SlotInv, N!SingleOwner,
        N!Callbacks, Native!CanLock, Native!Goto, Native!Return, Native!PhaseOf, Native!HeldAt
<1>1. CASE \/ Native!StartOccupied(t) \/ Native!EventUninitialised(t)
           \/ Native!EventStopped(t) \/ Native!ShutUninitialised(t)
  BY <1>1, NoneMoves
     DEF Native!StartOccupied, Native!EventUninitialised, Native!EventStopped, Native!ShutUninitialised
<1>2. CASE Native!StartVacant(t)
  <2>1. PICK k \in Instances \ Native!Alive : held' = [held EXCEPT ![t] = k]
    BY <1>2 DEF Native!StartVacant
  <2>2. Contract!BeginInit(k)
    BY <1>2, <2>1, OneMoves DEF Native!StartVacant, Native!Alive, Contract!BeginInit
  <2>3. Contract!Step(k)  BY ONLY <2>2 DEF Contract!Step
  <2>4. QED  BY ONLY <2>1, <2>3, StepOfOne
<1>3. CASE Native!InitOk(t)
  <2>1. PICK k \in Instances : k = held[t]  BY <1>3 DEF Native!InitOk
  <2>2. Contract!InitSucceeds(k)
    BY <1>3, <2>1, OneMoves DEF Native!InitOk, Contract!InitSucceeds
  <2>3. Contract!Step(k)  BY ONLY <2>2 DEF Contract!Step
  <2>4. QED  BY ONLY <2>1, <2>3, StepOfOne
<1>4. CASE Native!InitFailed(t)
  <2>1. PICK k \in Instances : k = held[t]  BY <1>4 DEF Native!InitFailed
  <2>2. Contract!InitFails(k)
    BY <1>4, <2>1, OneMoves DEF Native!InitFailed, Contract!InitFails
  <2>3. Contract!Step(k)  BY ONLY <2>2 DEF Contract!Step
  <2>4. QED  BY ONLY <2>1, <2>3, StepOfOne
<1>5. CASE Native!StartLost(t)
  <2>1. PICK k \in Instances : k = held[t]  BY <1>5 DEF Native!StartLost
  <2>2. Contract!Discard(k)
    BY <1>5, <2>1, OneMoves DEF Native!StartLost, Contract!Discard, Contract!Vacant, Contract!Live
  <2>3. Contract!Step(k)  BY ONLY <2>2 DEF Contract!Step
  <2>4. QED  BY ONLY <2>1, <2>3, StepOfOne
<1>6. CASE Native!StartInstalled(t)
  <2>1. PICK k \in Instances : k = held[t]  BY <1>6 DEF Native!StartInstalled
  <2>2. Contract!Install(k)
    BY <1>6, <2>1, OneMoves
       DEF Native!StartInstalled, Contract!Install, Contract!Vacant, Contract!Live
  <2>3. Contract!Step(k)  BY ONLY <2>2 DEF Contract!Step
  <2>4. QED  BY ONLY <2>1, <2>3, StepOfOne
<1>7. CASE Native!EventMalformed(t)
  <2>1. PICK k \in Instances : k = installed  BY <1>7 DEF Native!EventMalformed
  <2>2. Contract!RejectEvent(k)
    BY <1>7, <2>1, OneMoves DEF Native!EventMalformed, Contract!RejectEvent
  <2>3. Contract!Step(k)  BY ONLY <2>2 DEF Contract!Step
  <2>4. QED  BY ONLY <2>1, <2>3, StepOfOne
<1>8. CASE Native!EventEnter(t)
  <2>1. PICK k \in Instances : k = installed  BY <1>8 DEF Native!EventEnter
  <2>2. Contract!BeginEvent(k)
    BY <1>8, <2>1, OneMoves DEF Native!EventEnter, Contract!BeginEvent
  <2>3. Contract!Step(k)  BY ONLY <2>2 DEF Contract!Step
  <2>4. QED  BY ONLY <2>1, <2>3, StepOfOne
<1>9. CASE Native!EventReturn(t)
  <2>1. PICK k \in Instances : k = installed  BY <1>9 DEF Native!EventReturn
  <2>2. Contract!EventSucceeds(k) \/ Contract!EventFails(k)
    BY <1>9, <2>1, OneMoves DEF Native!EventReturn, Contract!EventSucceeds, Contract!EventFails
  <2>3. Contract!Step(k)  BY ONLY <2>2 DEF Contract!Step
  <2>4. QED  BY ONLY <2>1, <2>3, StepOfOne
<1>10. CASE Native!ShutEnter(t)
  <2>1. PICK k \in Instances : k = installed  BY <1>10 DEF Native!ShutEnter
  <2>2. Contract!BeginShutdown(k)
    BY <1>10, <2>1, OneMoves DEF Native!ShutEnter, Contract!BeginShutdown
  <2>3. Contract!Step(k)  BY ONLY <2>2 DEF Contract!Step
  <2>4. QED  BY ONLY <2>1, <2>3, StepOfOne
<1>11. CASE Native!ShutReturn(t)
  <2>1. PICK k \in Instances : k = held[t]  BY <1>11 DEF Native!ShutReturn
  <2>2. Contract!EndShutdown(k)
    BY <1>11, <2>1, OneMoves DEF Native!ShutReturn, Contract!EndShutdown
  <2>3. Contract!Step(k)  BY ONLY <2>2 DEF Contract!Step
  <2>4. QED  BY ONLY <2>1, <2>3, StepOfOne
<1>12. QED
  BY <1>1, <1>2, <1>3, <1>4, <1>5, <1>6, <1>7, <1>8, <1>9, <1>10, <1>11
     DEF Native!Advance

(* A call that begins moves no phase. *)
LEMMA RefineEnter ==
  ASSUME N!IInv, NEW t \in Threads,
         Native!CallStart(t) \/ Native!CallEvent(t) \/ Native!CallShutdown(t)
  PROVE  UNCHANGED phaseBar
<1>1. \A j \in Instances : Native!PhaseOf(j)' = Native!PhaseOf(j)
  BY DEF Native!CallStart, Native!CallEvent, Native!CallShutdown, Native!Goto,
     Native!PhaseOf, Native!HeldAt, N!IInv, N!TypeOK
<1>2. QED  BY ONLY <1>1, NoneMoves

LEMMA RefineStutter ==
  ASSUME UNCHANGED native
  PROVE  UNCHANGED phaseBar
<1>1. \A j \in Instances : Native!PhaseOf(j)' = Native!PhaseOf(j)
  BY DEF native, Native!PhaseOf, Native!HeldAt
<1>2. QED  BY ONLY <1>1, NoneMoves

(* FreeLibrary, with nobody in the library and no plugin in it. *)
LEMMA RefineUnmapped ==
  ASSUME N!IInv, \A t \in Threads : NativeIdle(t), installed = None, Unmapped
  PROVE  N!IInv' /\ UNCHANGED phaseBar
<1>1. N!IInv'
  BY NamesAssumption
     DEF Unmapped, NativeIdle, N!IInv, N!TypeOK, N!GuardInv, N!OwnerInv, N!Owning,
         N!SlotInv, N!SingleOwner, N!Callbacks
<1>2. \A j \in Instances : Native!PhaseOf(j) = "absent" /\ Native!PhaseOf(j)' = "absent"
  BY NamesAssumption DEF Unmapped, NativeIdle, Native!PhaseOf, Native!HeldAt
<1>3. \A j \in Instances : Native!PhaseOf(j)' = Native!PhaseOf(j)
  BY <1>2
<1>4. QED  BY <1>1, <1>3, NoneMoves

-------------------------------------------------------------------------------
(* When a plugin is installed. *)

(* From the "Ok" of start until shutdown takes it: whenever the client is set, *)
(* and in between only where start has returned and where shutdown is called.  *)
SlotHost ==
  /\ installed # None =>
       \/ pluginClient /\ host # "clear"
       \/ host = "starting" /\ pc[UiThread] = "idle" /\ ret[UiThread] = "Ok"
  /\ host = "shutting" /\ pc[UiThread] = "idle" => installed = None
  /\ host = "unload" => stopping

AllInv == IInv /\ HostInv /\ N!IInv /\ SlotHost

(* FreeLibrary finds the library quiet. *)
LEMMA UnloadQuiet ==
  ASSUME AllInv, host = "unload"
  PROVE  installed = None /\ \A t \in Threads : NativeIdle(t)
<1>1. installed = None
  BY DEF AllInv, SlotHost, HostInv, ClientInv, OpenHosts, Teardown
<1>2. NativeIdle(UiThread)
  BY DEF AllInv, HostInv, CallInv, NativeIdle
<1>3. \A s \in Senders : NativeIdle(s)
  BY NamesAssumption DEF AllInv, SlotHost, IInv, GateInv, NativeIdle, Threads
<1>4. QED  BY <1>1, <1>2, <1>3 DEF Threads

LEMMA NativeSlot ==
  ASSUME AllInv, NEW t \in Threads, NativeStep(t)
  PROVE  SlotHost'
<1>1. Native!Advance(t) /\ UNCHANGED <<host, pluginClient, stopping>>
  BY DEF NativeStep, shared, hostVars
<1>2. pc[t] # "idle"
  BY <1>1, AdvanceMoves
<1>3. CASE t \in Senders
  <2>1. t # UiThread  BY <1>3, ThreadsAssumption DEF Senders
  <2>2. pc[t] \in EventStates  BY <1>2, <1>3 DEF AllInv, HostInv, CallInv
  <2>3. /\ pc'[UiThread] = pc[UiThread] /\ ret'[UiThread] = ret[UiThread]
        /\ UNCHANGED installed
    BY <1>1, <2>1, <2>2, EventAdvance DEF AllInv, IInv, HostInv, Types, Threads
  <2>4. QED  BY <1>1, <2>3 DEF AllInv, SlotHost
<1>4. CASE t = UiThread /\ host = "starting"
  <2>1. pc[t] \in StartStates  BY <1>2, <1>4 DEF AllInv, HostInv, CallInv
  <2>2. ~pluginClient /\ installed = None
    BY <1>2, <1>4 DEF AllInv, SlotHost, HostInv, ClientInv, OpenHosts, Teardown
  <2>3. installed' # None => pc'[t] = "idle" /\ ret'[t] = "Ok"
    BY <1>1, <2>1, <2>2
       DEF Native!Advance, Native!StartOccupied, Native!StartVacant, Native!InitOk,
           Native!InitFailed, Native!StartLost, Native!StartInstalled,
           Native!EventUninitialised, Native!EventStopped, Native!EventMalformed,
           Native!EventEnter, Native!EventReturn, Native!ShutUninitialised,
           Native!ShutEnter, Native!ShutReturn, Native!Return, Native!Goto, StartStates,
           AllInv, IInv, Types, HostInv, CallTypes
  <2>4. QED  BY <1>1, <1>4, <2>3 DEF SlotHost
<1>5. CASE t = UiThread /\ host = "shutting"
  <2>1. pc[t] \in ShutStates  BY <1>2, <1>5 DEF AllInv, HostInv, CallInv
  <2>2. installed' # None => installed # None /\ pc'[t] # "idle"
    <3>1. pc[t] = "shut_plugin" => installed = None
      BY DEF AllInv, N!IInv, N!SlotInv
    <3>2. QED
      BY <1>1, <2>1, <3>1, NamesAssumption
         DEF Native!Advance, Native!StartOccupied, Native!StartVacant, Native!InitOk,
             Native!InitFailed, Native!StartLost, Native!StartInstalled,
             Native!EventUninitialised, Native!EventStopped, Native!EventMalformed,
             Native!EventEnter, Native!EventReturn, Native!ShutUninitialised,
             Native!ShutEnter, Native!ShutReturn, Native!Return, Native!Goto, ShutStates
  <2>3. QED  BY <1>1, <1>5, <2>2 DEF AllInv, SlotHost
<1>6. QED
  BY <1>2, <1>3, <1>4, <1>5 DEF AllInv, HostInv, CallInv, Threads

(* What one step of the shim does to the library. *)
LEMMA NativeByHost ==
  ASSUME AllInv, [Next]_vars
  PROVE  \/ UNCHANGED native
         \/ \E t \in Threads :
              \/ Native!Advance(t)
              \/ Native!CallStart(t) \/ Native!CallEvent(t) \/ Native!CallShutdown(t)
         \/ host = "unload" /\ Unmapped
<1>1. HostStep => \/ UNCHANGED native
                  \/ Native!CallStart(UiThread) \/ Native!CallShutdown(UiThread)
                  \/ host = "unload" /\ Unmapped
  BY DEF HostStep, FindServicesFails, BindServices, LoadFails, LoadAndStart, StartRefused,
     StartAccepted, Subscribe, Attach, UiStart, UiStop, UiStopped, Unsubscribe, Detach,
     DetachFails, ShutdownReturned, Clear, Unload, At, native
<1>2. UiThread \in Threads /\ Senders \subseteq Threads
  BY DEF Threads
<1>3. QED
  BY <1>1, <1>2 DEF Next, vars, InitBegin, DeInitBegin, EventRaised, SendStep, SendDropped,
     SendEnter, SendReturn, NativeStep

LEMMA StepNative ==
  ASSUME AllInv, [Next]_vars
  PROVE  N!IInv' /\ [Contract!Next]_phaseBar
<1> USE DEF AllInv
<1>1. CASE UNCHANGED native
  BY <1>1, NativeStutters, RefineStutter
<1>2. ASSUME NEW t \in Threads, Native!Advance(t)
      PROVE  N!IInv' /\ [Contract!Next]_phaseBar
  BY <1>2, NativeKeeps, RefineAdvance
<1>3. ASSUME NEW t \in Threads,
             Native!CallStart(t) \/ Native!CallEvent(t) \/ Native!CallShutdown(t)
      PROVE  N!IInv' /\ [Contract!Next]_phaseBar
  BY <1>3, NativeKeeps, RefineEnter
<1>4. CASE host = "unload" /\ Unmapped
  BY <1>4, UnloadQuiet, RefineUnmapped
<1>5. QED  BY <1>1, <1>2, <1>3, <1>4, NativeByHost

LEMMA NextSlot ==
  ASSUME AllInv, HostInv', [Next]_vars
  PROVE  SlotHost'
<1> USE DEF At, native, shared, hostVars, sending
<1>0. SlotHost /\ HostInv /\ IInv  BY DEF AllInv
<1>1. CASE UNCHANGED vars  BY <1>0, <1>1 DEF vars, SlotHost
<1>2. CASE InitBegin  BY <1>0, <1>2 DEF InitBegin, SlotHost
<1>3. CASE DeInitBegin  BY <1>0, <1>3 DEF DeInitBegin, SlotHost
<1>4. CASE HostStep
  <2> USE <1>0 DEF SlotHost, HostInv, ClientInv, InstalledInv, OpenHosts, Teardown
  <2>1. CASE FindServicesFails  BY <2>1 DEF FindServicesFails
  <2>2. CASE BindServices  BY <2>2 DEF BindServices
  <2>3. CASE LoadFails  BY <2>3 DEF LoadFails
  <2>4. CASE LoadAndStart  BY <2>4 DEF LoadAndStart, Native!CallStart
  <2>5. CASE StartRefused  BY <2>5 DEF StartRefused, NativeIdle
  <2>6. CASE StartAccepted  BY <2>6 DEF StartAccepted
  <2>7. CASE Subscribe  BY <2>7 DEF Subscribe
  <2>8. CASE Attach  BY <2>8 DEF Attach
  <2>9. CASE UiStart  BY <2>9 DEF UiStart
  <2>10. CASE UiStop  BY <2>10 DEF UiStop
  <2>11. CASE UiStopped  BY <2>11 DEF UiStopped
  <2>12. CASE Unsubscribe  BY <2>12 DEF Unsubscribe
  <2>13. CASE Detach
    BY <2>13 DEF Detach, CallsShutdown, Native!CallShutdown, Native!Goto, IInv, Types, Threads,
       Native!PcStates
  <2>14. CASE ShutdownReturned  BY <2>14 DEF ShutdownReturned, NativeIdle
  <2>15. CASE Clear  BY <2>15 DEF Clear
  <2>16. CASE Unload  BY <2>16 DEF Unload, Unmapped
  <2>17. CASE DetachFails  BY <2>17 DEF DetachFails
  <2>18. QED
    BY ONLY <1>4, <2>1, <2>2, <2>3, <2>4, <2>5, <2>6, <2>7, <2>8, <2>9, <2>10,
       <2>11, <2>12, <2>13, <2>14, <2>15, <2>16, <2>17 DEF HostStep
<1>5. ASSUME NEW s \in Senders, EventRaised(s) PROVE SlotHost'
  BY <1>0, <1>5 DEF EventRaised, SlotHost
<1>6. ASSUME NEW s \in Senders, SendStep(s) PROVE SlotHost'
  BY <1>0, <1>6, ThreadsAssumption
     DEF SendStep, SendDropped, SendEnter, SendReturn, Native!CallEvent, Native!Goto,
         SlotHost, Senders, IInv, Types, Threads
<1>7. ASSUME NEW t \in Threads, NativeStep(t) PROVE SlotHost'
  BY <1>7, NativeSlot
<1>8. QED
  BY ONLY <1>1, <1>2, <1>3, <1>4, <1>5, <1>6, <1>7, [Next]_vars DEF Next

LEMMA InitAll == Init => N!IInv /\ SlotHost
<1>1. Init => N!Init
  BY DEF Init, Native!Init, N!Init
<1>2. N!Init => N!IInv
  BY N!InitIInv, NamesAssumption
<1>3. Init => SlotHost
  BY DEF Init, Native!Init, SlotHost
<1>4. QED  BY <1>1, <1>2, <1>3

(* The contract of api.rs, FreeLibrary included, for every plugin under the shim: *)
(* no plugin is dropped without shutdown and none handles an event after it.       *)
THEOREM ContractKept ==
  ASSUME MayThrow = FALSE PROVE Spec => KeepsContract
<1>1. Init => AllInv
  BY InitAll, InitIInv, InitHost DEF AllInv
<1>2. AllInv /\ [Next]_vars => AllInv'
  BY NextIInv, NextHost, NextSlot, StepNative DEF AllInv
<1>3. AllInv /\ [Next]_vars => [Contract!Next]_phaseBar
  BY StepNative
<1>4. QED
  BY <1>1, <1>2, <1>3, RefineInit, PTL
     DEF Spec, KeepsContract, Contract!Spec, phaseBar

===============================================================================
