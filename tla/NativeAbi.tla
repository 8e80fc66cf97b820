------------------------------- MODULE NativeAbi -------------------------------
(***************************************************************************)
(* src/abi.rs: the native side of the plugin ABI.  One process-wide        *)
(* Mutex<Option<State>> holds the live plugin; start, on_event and         *)
(* shutdown are entered by any host thread.  An atomic step here is one    *)
(* critical section of that mutex, or the part of one on either side of a  *)
(* call into plugin code (P::init, on_event, shutdown), which may take any *)
(* time, return Ok or Err, or panic.                                       *)
(*                                                                         *)
(* The mutex is not re-entrant.  A host callback that re-enters the ABI on *)
(* the thread that is already inside a plugin callback would deadlock in   *)
(* std::sync::Mutex; a thread here makes one call at a time.               *)
(***************************************************************************)
CONSTANTS Threads,    \* host threads
          Instances,  \* names for the plugin values that P::init builds
          None        \* no thread, no instance

ASSUME NoneAssumption == None \notin Threads /\ None \notin Instances

VARIABLES mutex,      \* the thread that holds STATE's guard, or None
          installed,  \* the instance in Some(State), or None
          failed,     \* State.failed of the installed instance
          poisoned,   \* the mutex has been poisoned by an unwinding holder
          pc,         \* where each thread is in its call
          held,       \* the plugin value in a thread's local variable, or None
          ret         \* Status of the thread's last finished call

vars == <<mutex, installed, failed, poisoned, pc, held, ret>>

Status == {"Ok", "InvalidArgument", "AbiMismatch", "NotInitialized",
           "PluginError", "Panic"}

PcStates == {"idle",
             "start_check", "start_init", "start_install",
             "event_lock", "event_plugin",
             "shut_lock", "shut_plugin"}

(* Where a thread runs plugin code with the mutex held. *)
Callbacks == {"event_plugin", "shut_plugin"}

Init ==
  /\ mutex = None /\ installed = None /\ failed = FALSE /\ poisoned = FALSE
  /\ pc = [t \in Threads |-> "idle"]
  /\ held = [t \in Threads |-> None]
  /\ ret = [t \in Threads |-> "Ok"]

(* Variant: a poisoned mutex is not recovered with into_inner. *)
CanLockUnpoisoned == mutex = None /\ ~poisoned

(* lock().unwrap_or_else(into_inner): a poisoned mutex is taken like any other. *)
CanLock == mutex = None

(* The plugin values that exist: in STATE or in some thread's local variable. *)
Alive == {installed} \cup {held[t] : t \in Threads}

Goto(t, from, to) == pc[t] = from /\ pc' = [pc EXCEPT ![t] = to]

Return(t, from, status) ==
  /\ Goto(t, from, "idle")
  /\ ret' = [ret EXCEPT ![t] = status]

-------------------------------------------------------------------------------
(* start: one null pointer or a foreign ABI version is refused outright. *)
StartRefused(t) ==
  /\ \E s \in {"InvalidArgument", "AbiMismatch"} : Return(t, "idle", s)
  /\ UNCHANGED <<mutex, installed, failed, poisoned, held>>

CallStart(t) ==
  /\ Goto(t, "idle", "start_check")
  /\ UNCHANGED <<mutex, installed, failed, poisoned, held, ret>>

(* The first look at STATE; the guard is a temporary, released at once. *)
StartOccupied(t) ==
  /\ CanLock /\ installed # None
  /\ Return(t, "start_check", "InvalidArgument")
  /\ UNCHANGED <<mutex, installed, failed, poisoned, held>>

StartVacant(t) ==
  /\ CanLock /\ installed = None
  /\ Goto(t, "start_check", "start_init")
  /\ \E i \in Instances \ Alive : held' = [held EXCEPT ![t] = i]
  /\ UNCHANGED <<mutex, installed, failed, poisoned, ret>>

(* P::init runs without the mutex. *)
InitOk(t) ==
  /\ Goto(t, "start_init", "start_install")
  /\ UNCHANGED <<mutex, installed, failed, poisoned, held, ret>>

InitFailed(t) ==
  /\ \E s \in {"PluginError", "Panic"} : Return(t, "start_init", s)
  /\ held' = [held EXCEPT ![t] = None]
  /\ UNCHANGED <<mutex, installed, failed, poisoned>>

(* The second look: another start may have won; its plugin stays and ours  *)
(* is dropped without shutdown.  Otherwise ours is installed and the       *)
(* client table is published.                                              *)
StartLost(t) ==
  /\ CanLock /\ installed # None
  /\ Return(t, "start_install", "InvalidArgument")
  /\ held' = [held EXCEPT ![t] = None]
  /\ UNCHANGED <<mutex, installed, failed, poisoned>>

StartInstalled(t) ==
  /\ CanLock /\ installed = None
  /\ Return(t, "start_install", "Ok")
  /\ installed' = held[t]
  /\ failed' = FALSE
  /\ held' = [held EXCEPT ![t] = None]
  /\ UNCHANGED <<mutex, poisoned>>

-------------------------------------------------------------------------------
(* on_event: a null descriptor is refused without looking at STATE. *)
EventNull(t) ==
  /\ Return(t, "idle", "InvalidArgument")
  /\ UNCHANGED <<mutex, installed, failed, poisoned, held>>

CallEvent(t) ==
  /\ Goto(t, "idle", "event_lock")
  /\ UNCHANGED <<mutex, installed, failed, poisoned, held, ret>>

EventUninitialised(t) ==
  /\ CanLock /\ installed = None
  /\ Return(t, "event_lock", "NotInitialized")
  /\ UNCHANGED <<mutex, installed, failed, poisoned, held>>

EventStopped(t) ==
  /\ CanLock /\ installed # None /\ failed
  /\ Return(t, "event_lock", "PluginError")
  /\ UNCHANGED <<mutex, installed, failed, poisoned, held>>

(* A payload that is null or does not decode never reaches the plugin, but  *)
(* its status is not Ok and so it sets failed like the plugin's own error.  *)
EventMalformed(t) ==
  /\ CanLock /\ installed # None /\ ~failed
  /\ Return(t, "event_lock", "InvalidArgument")
  /\ failed' = TRUE
  /\ UNCHANGED <<mutex, installed, poisoned, held>>

(* Variants: the guard is dropped before the callback; failed is not tested. *)
EventEnterUnguarded(t) ==
  /\ CanLock /\ installed # None /\ ~failed
  /\ Goto(t, "event_lock", "event_plugin")
  /\ UNCHANGED <<mutex, installed, failed, poisoned, held, ret>>

EventEnterFailed(t) ==
  /\ CanLock /\ installed # None
  /\ Goto(t, "event_lock", "event_plugin")
  /\ mutex' = t
  /\ UNCHANGED <<installed, failed, poisoned, held, ret>>

EventEnter(t) ==
  /\ CanLock /\ installed # None /\ ~failed
  /\ Goto(t, "event_lock", "event_plugin")
  /\ mutex' = t
  /\ UNCHANGED <<installed, failed, poisoned, held, ret>>

(* catch_unwind is inside the guard's scope: a panic does not poison. *)
EventReturn(t) ==
  /\ \E s \in {"Ok", "PluginError", "Panic"} :
       /\ Return(t, "event_plugin", s)
       /\ failed' = (s # "Ok")
  /\ mutex' = None
  /\ UNCHANGED <<installed, poisoned, held>>

-------------------------------------------------------------------------------
(* shutdown, and start with two null pointers, which calls it. *)
CallShutdown(t) ==
  /\ Goto(t, "idle", "shut_lock")
  /\ UNCHANGED <<mutex, installed, failed, poisoned, held, ret>>

(* Variant: a second shutdown answers with the unused status Shutdown. *)
ShutUninitialisedShutdown(t) ==
  /\ CanLock /\ installed = None
  /\ Return(t, "shut_lock", "Shutdown")
  /\ UNCHANGED <<mutex, installed, failed, poisoned, held>>

ShutUninitialised(t) ==
  /\ CanLock /\ installed = None
  /\ Return(t, "shut_lock", "NotInitialized")
  /\ UNCHANGED <<mutex, installed, failed, poisoned, held>>

(* Variants: the plugin is borrowed and not taken; the guard is released    *)
(* before plugin.shutdown runs.                                             *)
ShutEnterBorrowed(t) ==
  /\ CanLock /\ installed # None
  /\ Goto(t, "shut_lock", "shut_plugin")
  /\ mutex' = t
  /\ held' = [held EXCEPT ![t] = installed]
  /\ UNCHANGED <<installed, failed, poisoned, ret>>

ShutEnterReleased(t) ==
  /\ CanLock /\ installed # None
  /\ Goto(t, "shut_lock", "shut_plugin")
  /\ held' = [held EXCEPT ![t] = installed]
  /\ installed' = None
  /\ failed' = FALSE
  /\ UNCHANGED <<mutex, poisoned, ret>>

(* guard.take(): STATE is None from here on, and the guard is kept. *)
ShutEnter(t) ==
  /\ CanLock /\ installed # None
  /\ Goto(t, "shut_lock", "shut_plugin")
  /\ mutex' = t
  /\ held' = [held EXCEPT ![t] = installed]
  /\ installed' = None
  /\ failed' = FALSE
  /\ UNCHANGED <<poisoned, ret>>

(* Here catch_unwind is outside the guard's scope: a panic unwinds through  *)
(* the guard, which releases the mutex and poisons it.                      *)
ShutReturn(t) ==
  /\ \E s \in {"Ok", "PluginError", "Panic"} :
       /\ Return(t, "shut_plugin", s)
       /\ poisoned' = (poisoned \/ s = "Panic")
  /\ mutex' = None
  /\ held' = [held EXCEPT ![t] = None]
  /\ UNCHANGED <<installed, failed>>

-------------------------------------------------------------------------------
(* What the host starts, and what a call in progress does. *)
Enter(t) ==
  \/ StartRefused(t) \/ CallStart(t)
  \/ EventNull(t) \/ CallEvent(t)
  \/ CallShutdown(t)

Advance(t) ==
  \/ StartOccupied(t) \/ StartVacant(t) \/ InitOk(t) \/ InitFailed(t)
  \/ StartLost(t) \/ StartInstalled(t)
  \/ EventUninitialised(t) \/ EventStopped(t) \/ EventMalformed(t)
  \/ EventEnter(t) \/ EventReturn(t)
  \/ ShutUninitialised(t) \/ ShutEnter(t) \/ ShutReturn(t)

Next == \E t \in Threads : Enter(t) \/ Advance(t)

Spec == Init /\ [][Next]_vars

(* Plugin code and lock holders make progress; nobody has to call. *)
FairSpec == Spec /\ \A t \in Threads : WF_vars(Advance(t))

-------------------------------------------------------------------------------
TypeOK ==
  /\ mutex \in Threads \cup {None}
  /\ installed \in Instances \cup {None}
  /\ failed \in BOOLEAN /\ poisoned \in BOOLEAN
  /\ pc \in [Threads -> PcStates]
  /\ held \in [Threads -> Instances \cup {None}]
  /\ ret \in [Threads -> Status]

(* api.rs 86 and docs/reference.md 20, "Event callbacks are serialized in    *)
(* Rust": no two threads are inside on_event or shutdown together, whichever *)
(* plugin instance they are in, although host threads call in at any moment. *)
Serialized ==
  \A t, u \in Threads : pc[t] \in Callbacks /\ pc[u] \in Callbacks => t = u

(* A plugin value has one owner: STATE, or one call in progress.  start moves *)
(* it from the call into STATE and shutdown out again, so nothing is shut     *)
(* down twice, or shut down while an event is being handled by it.            *)
SingleOwner ==
  /\ \A t \in Threads : held[t] # None => held[t] # installed
  /\ \A t, u \in Threads : held[t] # None /\ held[t] = held[u] => t = u

(* An event callback always finds the plugin it was promised: STATE is not    *)
(* emptied or replaced under it, and no failure was recorded before it.       *)
CallbackHasPlugin ==
  \A t \in Threads :
    pc[t] = "event_plugin" => installed # None /\ ~failed /\ mutex = t

(* The phase in the contract of the instance i. *)
HeldAt(i, where) == \E t \in Threads : held[t] = i /\ pc[t] = where

PhaseOf(i) ==
  IF HeldAt(i, "start_init")         THEN "initialising"
  ELSE IF HeldAt(i, "start_install") THEN "built"
  ELSE IF HeldAt(i, "shut_plugin")   THEN "stopping"
  ELSE IF installed # i              THEN "absent"
  ELSE IF mutex # None               THEN "busy"
  ELSE IF failed                     THEN "errored"
  ELSE "ready"

Contract == INSTANCE PluginContract
              WITH phase <- [i \in Instances |-> PhaseOf(i)]

(* abi.rs keeps every promise of the contract, under any interleaving of      *)
(* start, on_event and shutdown.                                              *)
Implements == Contract!Spec

(* lifecycle_is_panic_safe (abi.rs 373) for every interleaving: once the host *)
(* stops making new calls, every call in progress returns, whichever plugin   *)
(* callbacks panicked and whether or not the mutex was poisoned on the way.   *)
NewCall == \E t \in Threads : pc[t] = "idle" /\ pc'[t] # "idle"

CallsReturn ==
  <>[][~NewCall]_vars => <>[](\A t \in Threads : pc[t] = "idle")
===============================================================================
