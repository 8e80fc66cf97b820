-------------------------------- MODULE UiBridge --------------------------------
(***************************************************************************)
(* managed/UiBridge.cs: the queue of UI commands that plugin threads fill  *)
(* and the UI thread drains, the queue of UI events that the UI thread     *)
(* fills and a thread-pool worker drains into the plugin, and Bind, Start  *)
(* and Stop, which InitPlugin and DeInitPlugin call.  What a command does  *)
(* to the controls is abstracted to "it succeeds or it throws".            *)
(*                                                                         *)
(* An atomic step is one critical section of "gate", or the code between   *)
(* two of them on one thread.  InitPlugin runs on the UI thread; Stop may  *)
(* also be called from another one, which it handles with Invoke.          *)
(***************************************************************************)
EXTENDS Integers, Sequences, FiniteSets

CONSTANTS Workers,      \* thread-pool threads that may run DrainEvents
          MaxCommands,  \* bound: commands queued in a run
          MaxEvents,    \* bound: UI events accepted in a run
          MaxSessions,  \* bound: calls of Bind
          PostMayFail   \* whether BeginInvoke may throw

ASSUME BoundsAssumption ==
  /\ MaxCommands \in Nat /\ MaxEvents \in Nat /\ MaxSessions \in Nat
  /\ PostMayFail \in BOOLEAN
ASSUME WorkersAssumption == IsFiniteSet(Workers)

VARIABLES
  accepting, started, commandScheduled, eventScheduled, activeCallbacks,
  commands, events,    \* the two queues, of [n |-> number, s |-> session]
  root,                \* root # null
  posted,              \* DrainCommands delegates in the UI message queue
  ui, current,         \* the UI thread in DrainCommands, and its command
  worker, payload,     \* each worker in DrainEvents, and its event
  host, onUi,          \* the thread in Bind/Start/Stop; is it the UI thread
  session,             \* calls of Bind so far
  sent, raised,        \* commands queued and events accepted so far
  applied, delivered,  \* number of the last command applied, event delivered
  outlived,            \* a worker of an earlier session was alive at Bind
  stranded             \* the last BeginInvoke threw and left commands queued

uiVars     == <<posted, ui, current, applied>>
workVars   == <<worker, payload, delivered>>
flags      == <<accepting, started>>
hostVars   == <<root, host, onUi, session, outlived>>
vars == <<flags, commandScheduled, eventScheduled, activeCallbacks, commands,
          events, sent, raised, stranded, uiVars, workVars, hostVars>>

Item(k) == [n : 1..k, s : 1..MaxSessions]

(* The stages of DrainEvents in a worker. "loop": before lock(gate); "sending":  *)
(* dequeued, before the plugin is called; "sent": the plugin has returned.       *)
WorkerStates == {"off", "loop", "sending", "sent"}

(* The thread that calls Bind, Start and Stop. "init": InitPlugin between Bind   *)
(* and Start; "failed": Start threw; "waiting", "woken": Monitor.Wait in Stop.   *)
HostStates   == {"off", "init", "failed", "running", "waiting", "woken", "cleanup"}
Stopping     == {"waiting", "woken", "cleanup"}

Init ==
  /\ accepting = FALSE /\ started = FALSE
  /\ commandScheduled = FALSE /\ eventScheduled = FALSE
  /\ activeCallbacks = 0
  /\ commands = <<>> /\ events = <<>>
  /\ root = FALSE /\ posted = 0
  /\ ui = "idle" /\ current = <<>>
  /\ worker = [w \in Workers |-> "off"] /\ payload = [w \in Workers |-> <<>>]
  /\ host = "off" /\ onUi = TRUE
  /\ session = 0 /\ sent = 0 /\ raised = 0 /\ applied = 0 /\ delivered = 0
  /\ outlived = FALSE /\ stranded = FALSE

(* The UI thread is in its message loop: not in DrainCommands, InitPlugin or Stop. *)
UiFree ==
  /\ ui = "idle"
  /\ host \notin {"init", "failed"}
  /\ host \in Stopping => ~onUi

-------------------------------------------------------------------------------
(* ScheduleCommands, called with gate held on a queue q: posts one drain, or  *)
(* throws and leaves the queue as it is.                                      *)
NothingToSchedule(q, s) == ~s \/ commandScheduled \/ q = <<>> \/ ~root

Posts(q, s) ==
  IF NothingToSchedule(q, s)
  THEN UNCHANGED <<commandScheduled, posted, stranded>>
  ELSE commandScheduled' = TRUE /\ posted' = posted + 1 /\ stranded' = FALSE

PostThrows(q, s) ==
  /\ PostMayFail /\ ~NothingToSchedule(q, s)
  /\ commandScheduled' = FALSE /\ stranded' = TRUE
  /\ UNCHANGED posted

StartsWorker(w) == worker[w] = "off" /\ worker' = [worker EXCEPT ![w] = "loop"]

(* Variant: a work item for every event, eventScheduled or not. *)
EnqueueEventAlways ==
  \/ /\ ~accepting \/ ~started
     /\ UNCHANGED <<events, eventScheduled, raised, worker>>
  \/ /\ accepting /\ started /\ raised < MaxEvents
     /\ raised' = raised + 1
     /\ events' = Append(events, [n |-> raised + 1, s |-> session])
     /\ eventScheduled' = TRUE
     /\ \E w \in Workers : StartsWorker(w)

(* EnqueueEvent: one worker at a time is started for a non-empty queue.  An   *)
(* event past the bound is not raised; a worker that is off stands for the    *)
(* new work item.                                                             *)
EnqueueEvent ==
  \/ /\ ~accepting \/ ~started
     /\ UNCHANGED <<events, eventScheduled, raised, worker>>
  \/ /\ accepting /\ started /\ raised < MaxEvents
     /\ raised' = raised + 1
     /\ events' = Append(events, [n |-> raised + 1, s |-> session])
     /\ eventScheduled' = TRUE
     /\ \/ eventScheduled /\ UNCHANGED worker
        \/ ~eventScheduled /\ \E w \in Workers : StartsWorker(w)

-------------------------------------------------------------------------------
(* Bind, at the beginning of InitPlugin. *)
Bind ==
  /\ host = "off" /\ ui = "idle" /\ session < MaxSessions
  /\ host' = "init" /\ onUi' = TRUE
  /\ session' = session + 1
  /\ root' = TRUE
  /\ commands' = <<>> /\ events' = <<>>
  /\ accepting' = TRUE /\ started' = FALSE
  /\ commandScheduled' = FALSE /\ eventScheduled' = FALSE
  /\ activeCallbacks' = 0
  /\ outlived' = (\E w \in Workers : worker[w] # "off")
  /\ stranded' = FALSE
  /\ UNCHANGED <<sent, raised, uiVars, workVars>>

(* Variant: the newest command first. *)
QueueAtFront ==
  /\ accepting /\ sent < MaxCommands
  /\ sent' = sent + 1
  /\ commands' = <<[n |-> sent + 1, s |-> session]>> \o commands
  /\ Posts(commands', started) \/ PostThrows(commands', started)
  /\ UNCHANGED <<flags, eventScheduled, activeCallbacks, events, raised,
                 ui, current, applied, workVars, hostVars>>

(* Variant: accepting is not tested. *)
QueueUnbound ==
  /\ sent < MaxCommands
  /\ sent' = sent + 1
  /\ commands' = Append(commands, [n |-> sent + 1, s |-> session])
  /\ Posts(commands', started) \/ PostThrows(commands', started)
  /\ UNCHANGED <<flags, eventScheduled, activeCallbacks, events, raised,
                 ui, current, applied, workVars, hostVars>>

(* Queue, from a plugin callback on any thread (P::init on the UI thread      *)
(* included).  When accepting is false it throws and changes nothing.         *)
Queue ==
  /\ accepting /\ sent < MaxCommands
  /\ sent' = sent + 1
  /\ commands' = Append(commands, [n |-> sent + 1, s |-> session])
  /\ Posts(commands', started) \/ PostThrows(commands', started)
  /\ UNCHANGED <<flags, eventScheduled, activeCallbacks, events, raised,
                 ui, current, applied, workVars, hostVars>>

(* Variant: Start does not schedule what was queued during init. *)
StartUnscheduled ==
  /\ host = "init"
  /\ started' = TRUE /\ host' = "running"
  /\ UNCHANGED <<accepting, commandScheduled, eventScheduled, activeCallbacks,
                 commands, events, sent, raised, stranded, uiVars, workVars,
                 root, onUi, session, outlived>>

(* Start, at the end of InitPlugin; if it throws, InitPlugin calls Stop. *)
Start ==
  /\ host = "init"
  /\ started' = TRUE
  /\ \/ Posts(commands, TRUE) /\ host' = "running"
     \/ PostThrows(commands, TRUE) /\ host' = "failed"
  /\ UNCHANGED <<accepting, eventScheduled, activeCallbacks, commands, events,
                 sent, raised, ui, current, applied, workVars,
                 root, onUi, session, outlived>>

(* Variant: Stop does not wait for the callbacks in flight. *)
StopBeginNoWait(isUi) ==
  /\ host \in {"init", "failed", "running"} \/ (host = "off" /\ root)
  /\ host \in {"init", "failed"} => isUi
  /\ isUi => ui = "idle"
  /\ accepting' = FALSE /\ started' = FALSE
  /\ commands' = <<>> /\ events' = <<>>
  /\ onUi' = isUi
  /\ host' = "cleanup"
  /\ stranded' = FALSE
  /\ UNCHANGED <<commandScheduled, eventScheduled, activeCallbacks, sent,
                 raised, uiVars, workVars, root, session, outlived>>

(* Stop, first part: from InitPlugin after a failure (on the UI thread), from  *)
(* DeInitPlugin, or once more when a Cleanup failed.                           *)
StopBegin(isUi) ==
  /\ host \in {"init", "failed", "running"} \/ (host = "off" /\ root)
  /\ host \in {"init", "failed"} => isUi
  /\ isUi => ui = "idle"
  /\ accepting' = FALSE /\ started' = FALSE
  /\ commands' = <<>> /\ events' = <<>>
  /\ onUi' = isUi
  /\ host' = IF activeCallbacks # 0 THEN "waiting" ELSE "cleanup"
  /\ stranded' = FALSE
  /\ UNCHANGED <<commandScheduled, eventScheduled, activeCallbacks, sent,
                 raised, uiVars, workVars, root, session, outlived>>

(* Variant: "if" instead of "while" around Monitor.Wait. *)
StopWokenOnce ==
  /\ host = "woken"
  /\ host' = "cleanup"
  /\ UNCHANGED <<flags, commandScheduled, eventScheduled, activeCallbacks,
                 commands, events, sent, raised, stranded, uiVars, workVars,
                 root, onUi, session, outlived>>

(* Monitor.Wait returned; the loop condition is tested again. *)
StopWoken ==
  /\ host = "woken"
  /\ host' = IF activeCallbacks # 0 THEN "waiting" ELSE "cleanup"
  /\ UNCHANGED <<flags, commandScheduled, eventScheduled, activeCallbacks,
                 commands, events, sent, raised, stranded, uiVars, workVars,
                 root, onUi, session, outlived>>

(* Cleanup on the UI thread.  Disposing root may or may not take the posted   *)
(* delegates with it; an exception is swallowed and leaves root as it was.    *)
Cleanup ==
  /\ host = "cleanup" /\ ui = "idle"
  /\ host' = "off"
  /\ root' \in {FALSE, root}
  /\ posted' \in {0, posted}
  /\ UNCHANGED <<flags, commandScheduled, eventScheduled, activeCallbacks,
                 commands, events, sent, raised, stranded, ui, current,
                 applied, workVars, onUi, session, outlived>>

-------------------------------------------------------------------------------
(* DrainCommands on the UI thread. *)
DrainStart ==
  /\ UiFree /\ posted > 0
  /\ posted' = posted - 1
  /\ ui' = "drain"
  /\ UNCHANGED <<flags, commandScheduled, eventScheduled, activeCallbacks,
                 commands, events, sent, raised, stranded, current, applied,
                 workVars, hostVars>>

(* Variant: commandScheduled is not reset. *)
DrainEndsScheduled ==
  /\ ui = "drain" /\ (~accepting \/ commands = <<>>)
  /\ ui' = "idle"
  /\ UNCHANGED <<flags, commandScheduled, eventScheduled, activeCallbacks,
                 commands, events, sent, raised, stranded, posted, current,
                 applied, workVars, hostVars>>

DrainEnds ==
  /\ ui = "drain" /\ (~accepting \/ commands = <<>>)
  /\ ui' = "idle"
  /\ commandScheduled' = FALSE
  /\ UNCHANGED <<flags, eventScheduled, activeCallbacks, commands, events,
                 sent, raised, stranded, posted, current, applied, workVars,
                 hostVars>>

DrainNext ==
  /\ ui = "drain" /\ accepting /\ commands # <<>>
  /\ ui' = "apply"
  /\ current' = Head(commands)
  /\ commands' = Tail(commands)
  /\ UNCHANGED <<flags, commandScheduled, eventScheduled, activeCallbacks,
                 events, sent, raised, stranded, posted, applied, workVars,
                 hostVars>>

(* Apply returns, or throws and EmitError queues an event for the plugin. *)
Applied ==
  /\ ui = "apply"
  /\ ui' = "drain"
  /\ applied' = current.n
  /\ current' = <<>>
  /\ \/ UNCHANGED <<events, eventScheduled, raised, worker>>
     \/ EnqueueEvent
  /\ UNCHANGED <<flags, commandScheduled, activeCallbacks, commands, sent,
                 stranded, posted, payload, delivered, hostVars>>

(* The user clicks or edits a control: Emit outside Apply. *)
UserAction ==
  /\ UiFree /\ root /\ accepting /\ started
  /\ EnqueueEvent
  /\ UNCHANGED <<flags, commandScheduled, activeCallbacks, commands, sent,
                 stranded, uiVars, payload, delivered, hostVars>>

-------------------------------------------------------------------------------
(* DrainEvents on a worker. *)
(* Variant: eventScheduled is not reset. *)
WorkerEndsScheduled(w) ==
  /\ worker[w] = "loop" /\ (~accepting \/ events = <<>>)
  /\ worker' = [worker EXCEPT ![w] = "off"]
  /\ UNCHANGED <<flags, commandScheduled, eventScheduled, activeCallbacks,
                 commands, events, sent, raised, stranded, uiVars, payload,
                 delivered, hostVars>>

WorkerEnds(w) ==
  /\ worker[w] = "loop" /\ (~accepting \/ events = <<>>)
  /\ worker' = [worker EXCEPT ![w] = "off"]
  /\ eventScheduled' = FALSE
  /\ UNCHANGED <<flags, commandScheduled, activeCallbacks, commands, events,
                 sent, raised, stranded, uiVars, payload, delivered, hostVars>>

(* Variant: the callback is not counted in the section that dequeues. *)
WorkerNextUncounted(w) ==
  /\ worker[w] = "loop" /\ accepting /\ events # <<>>
  /\ worker' = [worker EXCEPT ![w] = "sending"]
  /\ payload' = [payload EXCEPT ![w] = Head(events)]
  /\ events' = Tail(events)
  /\ UNCHANGED <<flags, commandScheduled, eventScheduled, activeCallbacks,
                 commands, sent, raised, stranded, uiVars, delivered, hostVars>>

WorkerNext(w) ==
  /\ worker[w] = "loop" /\ accepting /\ events # <<>>
  /\ worker' = [worker EXCEPT ![w] = "sending"]
  /\ payload' = [payload EXCEPT ![w] = Head(events)]
  /\ events' = Tail(events)
  /\ activeCallbacks' = activeCallbacks + 1
  /\ UNCHANGED <<flags, commandScheduled, eventScheduled, commands, sent,
                 raised, stranded, uiVars, delivered, hostVars>>

(* CommonBridge.SendRaw: the event reaches the plugin. *)
Deliver(w) ==
  /\ worker[w] = "sending"
  /\ worker' = [worker EXCEPT ![w] = "sent"]
  /\ delivered' = payload[w].n
  /\ UNCHANGED <<flags, commandScheduled, eventScheduled, activeCallbacks,
                 commands, events, sent, raised, stranded, uiVars, payload,
                 hostVars>>

(* Variant: no PulseAll. *)
WorkerDoneSilent(w) ==
  /\ worker[w] = "sent"
  /\ worker' = [worker EXCEPT ![w] = "loop"]
  /\ payload' = [payload EXCEPT ![w] = <<>>]
  /\ activeCallbacks' = activeCallbacks - 1
  /\ UNCHANGED <<flags, commandScheduled, eventScheduled, commands, events,
                 sent, raised, stranded, uiVars, delivered, hostVars>>

(* The finally block: the count goes down and whoever waits in Stop is woken. *)
WorkerDone(w) ==
  /\ worker[w] = "sent"
  /\ worker' = [worker EXCEPT ![w] = "loop"]
  /\ payload' = [payload EXCEPT ![w] = <<>>]
  /\ activeCallbacks' = activeCallbacks - 1
  /\ host' = IF host = "waiting" THEN "woken" ELSE host
  /\ UNCHANGED <<flags, commandScheduled, eventScheduled, commands, events,
                 sent, raised, stranded, uiVars, delivered,
                 root, onUi, session, outlived>>

-------------------------------------------------------------------------------
UiStep      == DrainStart \/ DrainEnds \/ DrainNext \/ Applied
WorkStep(w) == WorkerEnds(w) \/ WorkerNext(w) \/ Deliver(w) \/ WorkerDone(w)
StopStep    == StopWoken \/ Cleanup

Next ==
  \/ Bind \/ Start \/ Queue \/ UserAction
  \/ \E isUi \in BOOLEAN : StopBegin(isUi)
  \/ StopStep \/ UiStep
  \/ \E w \in Workers : WorkStep(w)

Spec == Init /\ [][Next]_vars

(* The UI thread runs its message loop, a plugin callback returns, a thread   *)
(* in Stop runs when it can.  Nobody has to queue, click, start or stop.      *)
FairSpec ==
  /\ Spec
  /\ WF_vars(UiStep)
  /\ WF_vars(StopStep)
  /\ \A w \in Workers : WF_vars(WorkStep(w))

-------------------------------------------------------------------------------
InCallback(w) == worker[w] \in {"sending", "sent"}

FlagsOK ==
  /\ accepting \in BOOLEAN /\ started \in BOOLEAN
  /\ commandScheduled \in BOOLEAN /\ eventScheduled \in BOOLEAN
  /\ root \in BOOLEAN /\ onUi \in BOOLEAN
  /\ outlived \in BOOLEAN /\ stranded \in BOOLEAN

ScalarsOK ==
  /\ activeCallbacks \in Int /\ posted \in Nat
  /\ ui \in {"idle", "drain", "apply"} /\ host \in HostStates
  /\ session \in 0..MaxSessions
  /\ sent \in 0..MaxCommands /\ raised \in 0..MaxEvents
  /\ applied \in 0..MaxCommands /\ delivered \in 0..MaxEvents

QueuesOK ==
  /\ commands \in Seq(Item(MaxCommands)) /\ events \in Seq(Item(MaxEvents))
  /\ current \in Item(MaxCommands) \cup {<<>>}

WorkersOK ==
  /\ worker \in [Workers -> WorkerStates]
  /\ payload \in [Workers -> Item(MaxEvents) \cup {<<>>}]

TypeOK == FlagsOK /\ ScalarsOK /\ QueuesOK /\ WorkersOK

(* The count Stop waits on is the number of workers between the dequeue and   *)
(* the finally block, across restarts too: Bind resets it while a worker of   *)
(* the previous session may still be alive (UiBridge.cs 46, 476, 488).        *)
ActiveCallbacksExact ==
  activeCallbacks = Cardinality({w \in Workers : InCallback(w)})

(* What the wait in Stop (UiBridge.cs 82) is for: from its end to the next    *)
(* Bind no UI event is on its way into the plugin, so DeInitPlugin may shut   *)
(* the plugin down and unload it.                                             *)
StopIsQuiet ==
  host \in {"cleanup", "off"} => \A w \in Workers : ~InCallback(w)

(* A command or an event of one session is never applied or delivered in a    *)
(* later one, although workers and posted drains outlive a restart.           *)
NoCrossSession ==
  /\ ui = "apply" => current.s = session
  /\ \A w \in Workers : InCallback(w) => payload[w].s = session

(* No lost wake-up: once started, a command in the queue has a drain coming,  *)
(* unless the last BeginInvoke threw (UiBridge.cs 108-112).                   *)
CommandHasDrain ==
  accepting /\ started /\ commands # <<>> /\ ~stranded
    => posted > 0 \/ ui # "idle"

(* The same for events: a queued event has a worker that will look at it.     *)
EventHasWorker ==
  accepting /\ events # <<>> => \E w \in Workers : worker[w] # "off"

(* Commands reach the controls in the order the plugin queued them, across    *)
(* drains and restarts.                                                       *)
CommandsInOrder == [][applied' >= applied]_vars

(* UI events reach the plugin in the order they were raised, in a session     *)
(* that no worker of an earlier one has outlived.  Without that condition two *)
(* workers may drain the queue together (Bind resets eventScheduled).         *)
EventsInOrder == [][~outlived' => delivered' >= delivered]_vars

(* Stop returns, on the UI thread or another one, if plugin callbacks do. *)
StopReturns == host \in Stopping ~> host = "off"

(* A command queued and started is applied, or dropped by Stop: it does not   *)
(* stay in the queue.  BeginInvoke must not throw.                            *)
Queued(q, k) == \E i \in 1..Len(q) : q[i].n = k

CommandSettles ==
  \A k \in 1..MaxCommands : Queued(commands, k) /\ started ~> ~Queued(commands, k)

(* An accepted UI event is delivered, or dropped by Stop. *)
EventSettles ==
  \A k \in 1..MaxEvents : Queued(events, k) ~> ~Queued(events, k)
================================================================================
