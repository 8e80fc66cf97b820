---------------------------------- MODULE Shim ----------------------------------
(***************************************************************************)
(* managed/Shim.cs: InitPlugin and DeInitPlugin on ACT's UI thread, and    *)
(* the threads of FFXIV_ACT_Plugin, and of UiBridge, that send events,     *)
(* composed with the native side (NativeAbi).  Every call into the native  *)
(* library is a call of NativeAbi on the same thread.                      *)
(*                                                                         *)
(* UiBridge is present as the state Plugin sees: bound, started, stopping, *)
(* and one worker that Stop waits for (UiBridge!StopIsQuiet).  What an     *)
(* event carries is abstracted to its kind.                                *)
(***************************************************************************)
CONSTANTS Sources,        \* threads on which FFXIV_ACT_Plugin raises events
          UiWorker,       \* the thread-pool worker of UiBridge
          UiThread,       \* ACT's UI thread
          Kinds,          \* event kinds that can be subscribed
          Instances, None,
          MayThrow        \* whether "+=", "-=" or UiBridge.Start may throw

ASSUME ThreadsAssumption ==
  UiThread # UiWorker /\ {UiThread, UiWorker} \cap Sources = {}
ASSUME ThrowAssumption == MayThrow \in BOOLEAN

Senders == Sources \cup {UiWorker}
Threads == Senders \cup {UiThread}

ASSUME NamesAssumption == None \notin Threads /\ None \notin Instances

VARIABLES
  mutex, installed, failed, poisoned, pc, held, ret,  \* of NativeAbi
  host,          \* where the UI thread is in InitPlugin or DeInitPlugin
  leaving,       \* the teardown in progress: InitPlugin's catch, or DeInitPlugin
  loaded,        \* nativeHandle # 0
  pluginClient,  \* Plugin.client is set
  bridgeClient,  \* CommonBridge.client is set
  stopping,      \* CommonBridge.stopping
  repository,    \* CommonBridge.repository # null
  gate,          \* the thread that holds callbackGate, or None
  ui,            \* UiBridge
  wanted,        \* client.Subscriptions of the last start
  attached,      \* kinds with a handler on the subscription
  sender, kind   \* each sender in Send, and the kind it carries

native    == <<mutex, installed, failed, poisoned, pc, held, ret>>
shared    == <<loaded, pluginClient, bridgeClient, stopping, repository, wanted, attached>>
sending   == <<sender, kind>>
hostVars  == <<host, leaving, ui>>
vars      == <<native, shared, sending, hostVars, gate>>

Native == INSTANCE NativeAbi

HostStates == {"off", "binding", "loading", "starting", "subscribing",
               "attaching", "ui_start", "running",
               "ui_stop", "ui_wait", "unsubscribe", "detach", "shutting",
               "clear", "unload"}

Init ==
  /\ Native!Init
  /\ host = "off" /\ leaving = "none" /\ ui = "unbound"
  /\ loaded = FALSE /\ pluginClient = FALSE /\ bridgeClient = FALSE
  /\ stopping = TRUE /\ repository = FALSE
  /\ wanted = {} /\ attached = {}
  /\ gate = None
  /\ sender = [s \in Senders |-> "idle"] /\ kind = [s \in Senders |-> "none"]

At(from, to) == host = from /\ host' = to

NativeIdle(t) == pc[t] = "idle"

-------------------------------------------------------------------------------
(* Send on a source thread or the UI worker.  The payload is encoded before   *)
(* callbackGate is taken.                                                     *)
EventRaised(s) ==
  /\ sender[s] = "idle"
  /\ sender' = [sender EXCEPT ![s] = "encoded"]
  /\ \/ s \in Sources /\ \E k \in attached : kind' = [kind EXCEPT ![s] = k]
     \/ s = UiWorker /\ ui = "started" /\ kind' = [kind EXCEPT ![s] = "ui"]
  /\ UNCHANGED <<native, shared, hostVars, gate>>

SendDropped(s) ==
  /\ sender[s] = "encoded" /\ gate = None
  /\ stopping \/ ~bridgeClient
  /\ sender' = [sender EXCEPT ![s] = "idle"]
  /\ UNCHANGED <<native, shared, kind, hostVars, gate>>

(* Variant: the flags are read under callbackGate, the call is made outside. *)
SendEnterUngated(s) ==
  /\ sender[s] = "encoded" /\ gate = None
  /\ ~stopping /\ bridgeClient
  /\ sender' = [sender EXCEPT ![s] = "calling"]
  /\ Native!CallEvent(s)
  /\ UNCHANGED <<shared, kind, hostVars, gate>>

(* The native callback is called with callbackGate held. *)
SendEnter(s) ==
  /\ sender[s] = "encoded" /\ gate = None
  /\ ~stopping /\ bridgeClient
  /\ gate' = s
  /\ sender' = [sender EXCEPT ![s] = "calling"]
  /\ Native!CallEvent(s)
  /\ UNCHANGED <<shared, kind, hostVars>>

(* Variant: callbackGate is not released. *)
SendReturnLeaked(s) ==
  /\ sender[s] = "calling" /\ NativeIdle(s)
  /\ sender' = [sender EXCEPT ![s] = "idle"]
  /\ UNCHANGED <<native, shared, kind, hostVars, gate>>

(* A status other than Ok only changes the label; the handlers stay attached. *)
SendReturn(s) ==
  /\ sender[s] = "calling" /\ NativeIdle(s)
  /\ gate' = None
  /\ sender' = [sender EXCEPT ![s] = "idle"]
  /\ UNCHANGED <<native, shared, kind, hostVars>>

-------------------------------------------------------------------------------
(* InitPlugin. *)
InitBegin ==
  /\ At("off", "binding")
  /\ ui' = "bound"
  /\ UNCHANGED <<native, shared, sending, leaving, gate>>

(* FFXIV_ACT_Plugin is not there or not started: UiBridge.Stop and return. *)
FindServicesFails ==
  /\ At("binding", "off")
  /\ ui' = "unbound"
  /\ UNCHANGED <<native, shared, sending, leaving, gate>>

BindServices ==
  /\ At("binding", "loading")
  /\ repository' = TRUE
  /\ UNCHANGED <<native, loaded, pluginClient, bridgeClient, stopping, wanted,
                 attached, sending, leaving, ui, gate>>

(* An exception before the native entry point runs: LoadLibrary's, or that of a *)
(* library it loaded in which there is no such entry point.                     *)
LoadFails ==
  /\ host \in {"binding", "loading"} /\ host' = "ui_stop"
  /\ leaving' = "catch"
  /\ UNCHANGED loaded \/ (host = "loading" /\ loaded' = TRUE)
  /\ UNCHANGED <<native, pluginClient, bridgeClient, stopping, repository, wanted,
                 attached, sending, ui, gate>>

(* LoadLibrary, then the native entry point. *)
LoadAndStart ==
  /\ At("loading", "starting")
  /\ loaded' = TRUE
  /\ Native!CallStart(UiThread)
  /\ UNCHANGED <<pluginClient, bridgeClient, stopping, repository, wanted,
                 attached, sending, leaving, ui, gate>>

(* Variant: the status of the entry point is not looked at. *)
StartRefusedIgnored ==
  /\ At("starting", "subscribing")
  /\ NativeIdle(UiThread) /\ ret[UiThread] # "Ok"
  /\ pluginClient' = TRUE
  /\ UNCHANGED <<native, loaded, bridgeClient, stopping, repository, wanted,
                 attached, sending, leaving, ui, gate>>

(* "out client" is written either way: with the native table, or as default. *)
StartRefused ==
  /\ At("starting", "ui_stop") /\ leaving' = "catch"
  /\ NativeIdle(UiThread) /\ ret[UiThread] # "Ok"
  /\ pluginClient' = FALSE
  /\ UNCHANGED <<native, loaded, bridgeClient, stopping, repository, wanted,
                 attached, sending, ui, gate>>

(* Variant: the subscription bits are not masked. *)
StartAcceptedUnmasked ==
  /\ At("starting", "subscribing")
  /\ NativeIdle(UiThread) /\ ret[UiThread] = "Ok"
  /\ pluginClient' = TRUE
  /\ wanted' \in SUBSET (Kinds \cup {"ui"})
  /\ UNCHANGED <<native, loaded, bridgeClient, stopping, repository, attached,
                 sending, leaving, ui, gate>>

StartAccepted ==
  /\ At("starting", "subscribing")
  /\ NativeIdle(UiThread) /\ ret[UiThread] = "Ok"
  /\ pluginClient' = TRUE
  /\ wanted' \in SUBSET Kinds
  /\ UNCHANGED <<native, loaded, bridgeClient, stopping, repository, attached,
                 sending, leaving, ui, gate>>

(* CommonBridge.Subscribe: first under callbackGate, then the "+=" of each    *)
(* wanted handler.                                                            *)
Subscribe ==
  /\ At("subscribing", "attaching")
  /\ gate = None
  /\ bridgeClient' = TRUE /\ stopping' = FALSE
  /\ UNCHANGED <<native, loaded, pluginClient, repository, wanted, attached,
                 sending, leaving, ui, gate>>

Attach ==
  /\ \/ /\ At("attaching", "ui_start") /\ UNCHANGED leaving
        /\ attached' = attached \cup wanted
     \/ /\ MayThrow /\ At("attaching", "ui_stop") /\ leaving' = "catch"
        /\ \E some \in SUBSET wanted : attached' = attached \cup some
  /\ UNCHANGED <<native, loaded, pluginClient, bridgeClient, stopping,
                 repository, wanted, sending, ui, gate>>

(* UiBridge.Start; "started" is set before BeginInvoke may throw. *)
UiStart ==
  /\ \/ At("ui_start", "running") /\ UNCHANGED leaving
     \/ MayThrow /\ At("ui_start", "ui_stop") /\ leaving' = "catch"
  /\ ui' = "started"
  /\ UNCHANGED <<native, shared, sending, gate>>

-------------------------------------------------------------------------------
(* DeInitPlugin: ACT calls it for a running plugin, and also after an         *)
(* InitPlugin that failed.                                                    *)
DeInitBegin ==
  /\ host \in {"off", "running"} /\ host' = "ui_stop"
  /\ leaving' = "deinit"
  /\ UNCHANGED <<native, shared, sending, ui, gate>>

(* The teardown, of InitPlugin's catch block and of DeInitPlugin.  UiBridge.Stop *)
(* refuses new work, then waits for the worker that is sending.                  *)
UiStop ==
  /\ At("ui_stop", "ui_wait")
  /\ ui' = "stopping"
  /\ UNCHANGED <<native, shared, sending, leaving, gate>>

UiStopped ==
  /\ At("ui_wait", "unsubscribe")
  /\ sender[UiWorker] = "idle"
  /\ ui' = "unbound"
  /\ UNCHANGED <<native, shared, sending, leaving, gate>>

(* Variant: stopping is written without callbackGate. *)
UnsubscribeUnlocked ==
  /\ At("unsubscribe", "detach")
  /\ stopping' = TRUE
  /\ UNCHANGED <<native, loaded, pluginClient, bridgeClient, repository, wanted,
                 attached, sending, leaving, ui, gate>>

(* Unsubscribe: first under callbackGate, then the "-=" of every handler. *)
Unsubscribe ==
  /\ At("unsubscribe", "detach")
  /\ gate = None
  /\ stopping' = TRUE
  /\ UNCHANGED <<native, loaded, pluginClient, bridgeClient, repository, wanted,
                 attached, sending, leaving, ui, gate>>

(* Variant: the null test is inverted. *)
CallsShutdownInverted == leaving = "deinit" /\ ~pluginClient

(* Only DeInitPlugin calls client.Shutdown, and only if the client is set. *)
CallsShutdown == leaving = "deinit" /\ pluginClient

(* Variant: the whole of CommonBridge.Stop runs before shutdown. *)
DetachAndUnbind ==
  /\ host = "detach"
  /\ attached' = {} /\ repository' = FALSE /\ bridgeClient' = FALSE
  /\ IF CallsShutdown
     THEN host' = "shutting" /\ Native!CallShutdown(UiThread)
     ELSE host' = "clear" /\ UNCHANGED native
  /\ UNCHANGED <<loaded, pluginClient, stopping, wanted, sending, leaving, ui,
                 gate>>

(* The "-=" of every handler, then client.Shutdown in DeInitPlugin.  A handler *)
(* stays that was attached twice, because an earlier "-=" had thrown.           *)
Detach ==
  /\ host = "detach"
  /\ attached' = {} \/ (MayThrow /\ attached' \in SUBSET attached)
  /\ IF CallsShutdown
     THEN host' = "shutting" /\ Native!CallShutdown(UiThread)
     ELSE host' = "clear" /\ UNCHANGED native
  /\ UNCHANGED <<loaded, pluginClient, bridgeClient, stopping, repository,
                 wanted, sending, leaving, ui, gate>>

(* A "-=" that throws ends DeInitPlugin, or InitPlugin's catch block: there is   *)
(* no shutdown and no FreeLibrary.                                               *)
DetachFails ==
  /\ MayThrow /\ At("detach", "off") /\ leaving' = "none"
  /\ attached' \in SUBSET attached
  /\ UNCHANGED <<native, loaded, pluginClient, bridgeClient, stopping, repository,
                 wanted, sending, ui, gate>>

ShutdownReturned ==
  /\ At("shutting", "clear") /\ NativeIdle(UiThread)
  /\ UNCHANGED <<native, shared, sending, leaving, ui, gate>>

(* The rest of CommonBridge.Stop, and in DeInitPlugin "client = default". *)
Clear ==
  /\ At("clear", "unload")
  /\ gate = None
  /\ stopping' = TRUE
  /\ repository' = FALSE /\ bridgeClient' = FALSE
  /\ pluginClient' = (pluginClient /\ leaving = "catch")
  /\ UNCHANGED <<native, loaded, wanted, attached, sending, leaving, ui, gate>>

(* FreeLibrary unmaps the library, statics and all, unless the runtime holds  *)
(* a reference of its own (the DllImport of the entry point) or LoadLibrary    *)
(* has run more than once.                                                     *)
Unmapped ==
  /\ mutex' = None /\ installed' = None /\ failed' = FALSE /\ poisoned' = FALSE
  /\ held' = [t \in Threads |-> None]
  /\ UNCHANGED <<pc, ret>>

Unload ==
  /\ At("unload", "off")
  /\ leaving' = "none"
  /\ IF loaded THEN loaded' = FALSE /\ (Unmapped \/ UNCHANGED native)
               ELSE UNCHANGED <<loaded, native>>
  /\ UNCHANGED <<pluginClient, bridgeClient, stopping, repository, wanted,
                 attached, sending, ui, gate>>

-------------------------------------------------------------------------------
NativeStep(t) == Native!Advance(t) /\ UNCHANGED <<shared, sending, hostVars, gate>>

SendStep(s) == SendDropped(s) \/ SendEnter(s) \/ SendReturn(s)

HostStep ==
  \/ FindServicesFails \/ BindServices \/ LoadFails \/ LoadAndStart
  \/ StartRefused \/ StartAccepted \/ Subscribe \/ Attach \/ UiStart
  \/ UiStop \/ UiStopped \/ Unsubscribe \/ Detach \/ DetachFails
  \/ ShutdownReturned \/ Clear \/ Unload

Next ==
  \/ InitBegin \/ DeInitBegin \/ HostStep
  \/ \E s \in Senders : EventRaised(s) \/ SendStep(s)
  \/ \E t \in Threads : NativeStep(t)

Spec == Init /\ [][Next]_vars

(* Threads run, plugin callbacks return.  Nobody has to raise an event or to  *)
(* enable or disable the plugin.                                              *)
FairSpec ==
  /\ Spec
  /\ WF_vars(HostStep)
  /\ \A s \in Senders : WF_vars(SendStep(s))
  /\ \A t \in Threads : WF_vars(NativeStep(t))

-------------------------------------------------------------------------------
TypeOK ==
  /\ Native!TypeOK
  /\ host \in HostStates /\ leaving \in {"none", "catch", "deinit"}
  /\ ui \in {"unbound", "bound", "started", "stopping"}
  /\ loaded \in BOOLEAN /\ pluginClient \in BOOLEAN /\ bridgeClient \in BOOLEAN
  /\ stopping \in BOOLEAN /\ repository \in BOOLEAN
  /\ wanted \in SUBSET Kinds /\ attached \in SUBSET Kinds
  /\ gate \in Senders \cup {None}
  /\ sender \in [Senders -> {"idle", "encoded", "calling"}]
  /\ kind \in [Senders -> Kinds \cup {"ui", "none"}]

(* No thread is inside the native library when it is not loaded: neither a    *)
(* late event nor a shutdown runs into FreeLibrary (Shim.cs 269, 533, 555).   *)
NativeCodeLoaded == \A t \in Threads : ~NativeIdle(t) => loaded

(* Plugin code always finds the repository it may query: it is bound before   *)
(* start and unbound only after shutdown has returned (Shim.cs 508, 541).     *)
PluginCode == {"start_init", "event_plugin", "shut_plugin"}

RepositoryForPlugin == \A t \in Threads : pc[t] \in PluginCode => repository

(* Once Unsubscribe has had callbackGate no event is in the native library:   *)
(* handlers that are already running, of FFXIV_ACT_Plugin or of UiBridge, are *)
(* dropped at the gate, and shutdown finds the plugin alone.                  *)
QuietAfterUnsubscribe ==
  stopping => \A s \in Senders : sender[s] # "calling" /\ NativeIdle(s)

(* An event that passes the gate finds an installed plugin: none is sent      *)
(* before start has returned Ok or after shutdown was called.                 *)
EventsFindPlugin == \A s \in Senders : ~NativeIdle(s) => installed # None

(* The contract of api.rs holds for the plugin under this host: in particular *)
(* it is not dropped, by FreeLibrary, without shutdown.  MayThrow is FALSE    *)
(* here; with TRUE see ReleasedBeforeUnload.                                  *)
Contract == INSTANCE PluginContract
              WITH phase <- [i \in Instances |-> Native!PhaseOf(i)]

KeepsContract == Contract!Spec

(* InitPlugin and DeInitPlugin return if events stop coming in: no lock order *)
(* and no wait for the UI worker blocks the UI thread for ever.               *)
NewWork ==
  \/ \E s \in Senders : sender[s] = "idle" /\ sender'[s] # "idle"
  \/ host \in {"off", "running"} /\ host' # host

HostReturns == <>[][~NewWork]_vars => <>[](host \in {"off", "running"})

(* api.rs 102, "Releases resources before the managed shim unloads the        *)
(* plugin": when the library is freed, no plugin is installed in it.          *)
ReleasedBeforeUnload == [][loaded /\ ~loaded' => installed = None]_vars

(* api.rs 87-89, "Returning an error stops later event delivery ...           *)
(* preventing a failing plugin from repeatedly crossing the FFI boundary".    *)
NoCrossingAfterFailure ==
  [][failed => \A s \in Senders : NativeIdle(s) => NativeIdle(s)']_vars

(* api.rs 96, on_event "Handles one subscribed ACT event": an event of        *)
(* FFXIV_ACT_Plugin that reaches the plugin is of a kind it subscribed to.    *)
OnlySubscribedKinds ==
  \A s \in Sources : pc[s] = "event_plugin" => kind[s] \in wanted
=================================================================================
