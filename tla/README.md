# Verification of ffxiv-act-native

ffxiv-act-native lets a plugin of Advanced Combat Tracker (ACT) be written in
Rust. A managed shim (C#, WinForms) is loaded by ACT, loads a native library,
subscribes to the events of FFXIV_ACT_Plugin and forwards them over a small C
ABI to the plugin; the plugin queries game data and drives a tab of WinForms
controls through the shim. The shim itself is generated at build time, by
patching names and versions into a compiled template. This directory holds TLA+
models of these parts, TLC configurations that check them, and theorems checked
by TLAPS. Line numbers are those of the files at the modelled commit; paths are
relative to the repository root.

## The system

| Component | State | Operations | Talks to |
| --- | --- | --- | --- |
| Native ABI, `src/abi.rs` | `static STATE: Mutex<Option<State>>`: host table, boxed plugin, `failed` | `start`, `on_event`, `shutdown`, `report` | called by the shim on any thread; calls plugin code with (events, shutdown) or without (init) the mutex |
| Plugin API, `src/api.rs` | none of its own (the plugin value) | trait `Plugin`, `Event::decode`, `Repository::query` and `ui` | called by the ABI; queries call back into the shim |
| Managed shim, `managed/Shim.cs` | `nativeHandle`, `Plugin.client`, `CommonBridge.client`, `stopping`, `repository`, `subscription`, the lock `callbackGate`, the status label | `InitPlugin`, `DeInitPlugin`, `Send`, `Query`, `SetStatus` | ACT's UI thread, the threads of FFXIV_ACT_Plugin, the native library |
| UI bridge, `managed/UiBridge.cs` | two queues, `accepting`, `started`, `commandScheduled`, `eventScheduled`, `activeCallbacks` under `gate`; the control tree, `controls`, `logLimits` on the UI thread | `Bind`, `Queue`, `Start`, `Stop`, `DrainCommands`, `Apply`, `EnqueueEvent`, `DrainEvents` | plugin threads (commands), UI message loop, thread pool (events), `CommonBridge.SendRaw` |
| Wire codec, `src/api.rs`, both C# files | none | `Event::decode`, `UiCommand::encode`, `Command.Decode`, the writers of `Shim.cs` | both sides of the ABI |
| Shim generator, `src/generate.rs`, `src/metadata.rs` | none (one build: the image being patched) | `build_shim`, `generate`, checks of configuration and contracts, patching of the template | build time only |
| `src/error.rs`, `src/lib.rs` | none | error types, `export_plugin!` | |

How they interact: `InitPlugin` binds the UI bridge and the repository, loads
the library and calls the exported entry point, which runs `P::init` and
returns a table with `on_event`, `shutdown` and the subscription bits; then
the shim opens `callbackGate` and adds its handlers. Each event is encoded on
the thread that raised it and sent under `callbackGate`; the native side takes
its own mutex and calls the plugin. The plugin calls back on the same thread
(`Query`, `SetStatus`); a UI command is only queued and applied later by the UI
thread, and what the user does is queued and delivered later by a thread-pool
worker. `DeInitPlugin` stops the UI bridge, closes the gate, removes the
handlers, calls `shutdown`, clears the tables and frees the library.

What is hard: three locks on four kinds of thread; `P::init` runs outside the
native mutex; the panics of plugin code, one of which poisons the mutex; queues
whose drains outlive a restart; a wait for callbacks in flight; handlers that
were already running when their subscription was removed; and an
initialisation that can fail at every stage. At the boundary: an answer that
changes between the call that asks for its size and the one that fetches it, a
command sent through a query that may repeat, and two hand-written field lists
that must agree. On the tab: a registry beside the tree of controls, with failed
commands and failed cleanups. In the generator: one name that has to reach six
places, and limits on sums and on parts of text. Each such point is a hazard in
`PROJECT.json` with its line and the properties that cover it.

What makes each component correct:

- *Native ABI*: callbacks are serialized whatever the host does; a plugin has
  one owner; a failed plugin gets no event; shutdown comes once and last; calls
  return although plugin code panics.
- *UI bridge*: after `Stop` nothing is on its way into the plugin; no command
  or event is lost while the bridge is running, reordered, or carried into the
  next session; `Stop` returns.
- *Shim*: nobody is in the library when it is freed; the plugin finds its
  repository; events find a plugin; init and deinit return.
- *UI controls*: what is on the tab is registered, also when a cleanup threw; values
  keep their bounds; a command applies or is reported, and is never taken for the
  user's doing.
- *Repository and codec*: an answer is whole or an error; what one side
  encodes the other decodes; a command is queued once.
- *Generator*: the shim names one plugin everywhere; versions read as
  configured; accepted values fit the space the template reserves; the SDK it was
  checked against has what the shim calls.

## Modules

### `PluginContract.tla` (abstract specification)

The life of a plugin value, one phase per instance, as the trait `Plugin`
promises it: init, installed or discarded, events one at a time, an error after
which only shutdown may come, shutdown. At most one instance is live, and the
next goes live only after the shutdown of the last has returned. An event that
does not decode counts as a failure (`RejectEvent`), which is what `abi.rs`
makes of it.

### `NativeAbi.tla` (`src/abi.rs`)

`mutex`, `installed`, `failed` and `poisoned` are `STATE`; `pc`, `held` and
`ret` are each thread's place in its call, the plugin value in its local
variable and the status it got. A step is one critical section, or the part of
one before or after plugin code. Plugin code takes any time and returns `Ok`,
`Err` or panics. `start` looks, runs `P::init` without the lock (`StartVacant`,
`InitOk`, `InitFailed`) and looks again (`StartLost`, `StartInstalled`). The
`catch_unwind` of `on_event` is inside the guard, that of `shutdown` outside:
only `ShutReturn` poisons. The definition `Contract` maps the state to phases.

Not in the model: the bytes of an event (decoding succeeds or not), the
message of `report`, a callback that re-enters the ABI on its own thread
(nothing in the shim does).

### `UiBridge.tla` (`managed/UiBridge.cs`)

One step per critical section of `gate` or per stretch of code between two.
Queued items carry a number and the session (the call of `Bind`) they were
queued in; `applied` and `delivered` record the last number handled. `posted`
counts the `DrainCommands` delegates in the UI message queue, which survive a
restart or die with the disposed control, either way. `worker` holds the
thread-pool threads in `DrainEvents`; a worker of an earlier session may still
be alive after `Bind`. `Stop` may run on the UI thread, which then does not
drain, or on another. `BeginInvoke` may throw (`PostMayFail`); `stranded`
remembers that it did and left commands queued. `Apply` is abstracted to
"returns, or throws and queues an error event"; what it does is `UiControls`.

### `UiControls.tla` (`managed/UiBridge.cs` 143-449)

What a command does, one at a time on the UI thread. `controls` and `logLimits`
are the registry; `widget` and `parent` are the WinForms tree, one entry for each
control that somebody can still reach: through a panel, or through the registry. A
control is an object of its own and carries its ID (`tag`, the code's `Tag`), so two
controls may have had the same ID. `Inside` is declarative: the least set that holds
some controls and all children of what it holds, which is what the recursion of
`Unregister` and of `Dispose` visits. A command fails with one error event
(`Report`), `SetItems` also half-way, as the code would if `Command.Decode` let such a
command through; `DecodeAccepts` is the check that does not. User actions are those of
a control that is shown and enabled; the events that WinForms raises for commands pass
through `Emit` like theirs.

`CleanupFails` is the exception that `Stop` swallows: before anything was done; in the
middle of `Clear`, with some of the controls disposed and the registry as it was; after
ACT disposed the page, with all of them disposed; or after `Clear`. `root` and the
registry are left as they are, and the next `Bind` puts a new panel beside the old one:
`OldRoot` stands for what such sessions left. `Empty` (of `Clear` and `Cleanup`)
empties the registry but disposes only the controls of the present root, as the code
does, so those on the old panel stay there with live handlers, registered until then and
unknown afterwards, until `PageDisposed`. A disposed control that is still registered
has no parent; its lists are empty if it had a window. Left out: exceptions that
WinForms itself raises while a command is applied to a live tab.

### `WireCodec.tla` (`src/api.rs`, `managed/Shim.cs`, `managed/UiBridge.cs`)

The bytes. A record is a sequence of fields and has a layout on each side: the
writer's, in the order of the C# statements, and the reader's, in the order of
`api.rs`. A reader is a chain of takes from a cursor that stays refused, as `?` does
in the code. Numbers are their bytes; only lengths, tags and bounds become
integers. Text is ASCII, so of `from_utf8` only the refusal of a byte with its top
bit set remains. The widths of the SDK's fields are those `api.rs` reads.

### `Boundary.tla`, and `AtomicQuery.tla` (abstract specification)

One value crossing at a time. An event is written, perhaps damaged (`Damage`: cut,
grown, an early byte changed, another kind), and decoded. A query runs the
protocol of `Repository::query`: `Begin` encodes and looks at the host table,
`SizingCall` calls with no buffer, `BufferedCall` up to three times with one. Each
call of the host is `CommonBridge.Query` in one step; between two calls
`RepositoryChanges` may give the SDK another value, or make it unavailable, and
`TabToggles` opens or closes the tab. `Queue` has `UiBridge.Queue`'s order: a command
is in the queue before `BeginInvoke`, which may throw. `queued` records what this
call put there. `AtomicQuery` has no buffers and no retries: one answer read at one
moment, or a failure for a reason the caller could name.

### `ShimGenerator.tla` (`src/generate.rs`, `src/metadata.rs`)

A build is a sequence of stages, each of which patches the image or ends with its
`GenerateError`; `pc` is the next stage. An image is the record of what the stages
read or write: the version resource, the slot it lies in, the rows of the tables
and the strings. A text is a sequence of atoms with a width in UTF-16 units,
single characters where the code looks at characters. `CheckedIn` is
`Shim.template.dll`; `ResourceBytes` computes the 58080 bytes that resource really has.
`LibraryFails` is any error of dotscope while it adds, updates or serialises.
What a build may be given is `Inputs`, of which the module assumes only the types of
`PluginConfig` (`ConfigType`) and the shape of the compiled template (`TemplateType`).

### `Shim.tla` (`managed/Shim.cs` over `NativeAbi`)

`Native == INSTANCE NativeAbi`: every call of the shim into the library is a call of
`NativeAbi` by the same thread. `host` is the place of ACT's UI thread in
`InitPlugin` or `DeInitPlugin`, `sender` that of each event thread, and of the UI
bridge's worker, in `Send`. The payload is encoded before `callbackGate`, so a
sender may be in `"encoded"` for any time, across a restart too. `MayThrow` lets a
`+=`, a `-=` or `UiBridge.Start` throw. An exception of the first or the last takes
`InitPlugin` to its catch block. A `-=` that throws (`DetachFails`) ends
`DeInitPlugin`, which calls `Unsubscribe` outside its `try`, or the catch block:
without shutdown and without `FreeLibrary`, and with some handlers still attached.
`LoadFails` covers a library that was loaded and has no such entry point. The UI
bridge appears as the state `Plugin` sees, with the wait that `UiBridge!StopIsQuiet`
justifies. `FreeLibrary` resets the native statics or not, since the `DllImport` may
hold a reference. `DeInitPlugin` is allowed after a failed `InitPlugin`, and
`InitPlugin` again after either.

### Proof and model-checking modules

`NativeAbiProofs`, `UiBridgeProofs`, `UiControlsProofs`, `ShimProofs`,
`WireCodecProofs`, `BoundaryProofs` and `ShimGeneratorProofs` extend the component
modules with theorems. `FoldLemmas` has induction over the naturals and what the
library's folds compute, with the operator as a constant. The `MC` modules give TLC
its sets and symmetries; `MCBoundary` also has TLC evaluate `RoundTrip`, the
statement of `CodecRoundTrip`, on its values. Definitions commented "Variant" are
mutations of the definition that follows them, used to see that each property can
fail; no specification uses them.

## Runs

| Run | Instance | Question |
| --- | --- | --- |
| `NativeAbi` | 3 threads, 3 instances | type, `Serialized`, `SingleOwner`, `CallbackHasPlugin`, and `Implements`: a refinement of `PluginContract` |
| `NativeAbiLive` | 2 threads, 2 instances | `CallsReturn` |
| `UiBridge` | 3 workers, 3 commands, 3 events, 3 sessions | type, `ActiveCallbacksExact`, `StopIsQuiet`, `NoCrossSession`, `CommandHasDrain`, `EventHasWorker`, `CommandsInOrder`, `EventsInOrder` |
| `UiBridgeLive` | 2 of each | `StopReturns`, `CommandSettles`, `EventSettles` |
| `Shim` | 2 event threads, UI worker, UI thread, 2 kinds | type, `NativeCodeLoaded`, `RepositoryForPlugin`, `QuietAfterUnsubscribe`, `EventsFindPlugin`, `KeepsContract` |
| `ShimLive` | 1 event thread, exceptions late in `InitPlugin` and in teardowns | `QuietAfterUnsubscribe`, `HostReturns` |
| `Boundary` | every kind of event, query and command; texts of 0, 1 and 39 bytes, 3 numbers, lists of up to 2, payload limit 48, item and row limits 1 | type, `EventIntact`, `DamageDetected`, `WholeAnswer`, `StableAnswered`, `UiOnce`, `QueryReturns`, and `Implements`: a refinement of `AtomicQuery` |
| `ShimGenerator` | one good build, and every single departure of configuration, contract or template from it | `ProductVersionRead`, `ValidatedMetadataFits`, `ContractsCover`, `OneIdentity` |
| `UiControls` | 3 IDs with 4 objects, panels in panels, logs of one row, lists of up to one item, one `Cleanup` that throws | `RegistryMatchesTree`, `ValuesInRange`, `AppliedOrReported` |
| `ShimFailedPlugin`, `ShimUnload`, `ShimKinds` | 1 event thread | the three findings below |

Why the bounds are enough. Three threads let one be in a callback, one in `P::init`
and one at the lock; with three instances all of them can own one. A worker of an
earlier session is left behind by each `Bind`, so three sessions with three workers
reach two stale workers and a fresh one together. Three commands and events give a
queue of two behind the one in hand. Two event threads let one wait at
`callbackGate` while the other is in the plugin; two kinds let a plugin leave one
out. One plugin instance is enough for the shim, whose single UI thread calls
`start` only after the last plugin is gone or refused. In `Boundary` the limit of 48
bytes is met exactly by a command with the long text and passed by the next longer
one; the limits of 1 have values on both sides; `changes` stops at 3 because a
fourth change can tell the protocol nothing. The two payload limits are both 1 MiB
in the code, so the decoder's is met only when it is the smaller; they are separate
constants and the theorems hold for any two. `ShimGenerator` departs from the good
build in one place at a time because every stage reads its own part of the input and
the first fault ends the build; product versions are all texts of up to five
characters over two digits, a dot and a letter, and some longer ones around 65535;
metadata strings are taken to 2048 and 2049 units, all of them at once too.
`UiControls` needs three IDs for a control in a panel in a panel, and gives two of
them several kinds so that an ID returns as something else; one has two objects, so
that it can name a new control while its old one is on the panel of an earlier
session. One failed `Cleanup` is enough to leave such a panel, and there may be any
number of sessions after it. `ShimGenerator` turns deadlock checking off because a
build ends. `UiBridge` turns deadlock checking off because the counters of commands,
events and sessions are bounded and the last state has nothing left to do; all other
runs check it.

Fairness. `NativeAbi`: plugin code returns and a thread that can take the mutex
runs (`WF` of each thread's step); nobody has to call. `UiBridge`: the UI thread
pumps messages, a pool thread runs, a woken `Stop` goes on. `Shim`: the same for
senders, the UI thread and the native side. Weak fairness suffices because the
only steps that wait for a lock are assumed to be overtaken finitely often:
the liveness properties are stated for a host that stops making new calls
(`NewCall`, `NewWork`), or, in `UiBridge`, for bounded work.

`Boundary`: the plugin's thread and the host's code go on, written out as
`[]<>~UnderWay \/ []<><<Step>>_vars`, which is `WF_vars(Step)` with the states in which
`Step` is enabled named; nothing is asked of the repository or the tab, which may
change for ever. `ShimGenerator` and `UiControls` have safety properties only.

Conditions in the properties, each of which TLC shows to be needed:
`CommandHasDrain` excepts the case that the last `BeginInvoke` threw (the command
then waits for the next one); `EventsInOrder` excepts a session that a worker of an
earlier one has outlived (`Bind` resets `eventScheduled`, so two workers drain
together); `KeepsContract` is checked without exceptions (with them, see the
second finding); `RegistryMatchesTree` and `AppliedOrReported` except the controls
on a panel that a failed `Cleanup` left (they may be unknown to the registry, and
raise events under an ID that is another control's or nobody's); `WholeAnswer` and
`EventIntact` except the null records that the code refuses; `OneIdentity` leaves
out the one resource string that no stage patches.

## Findings

1. `ShimFailedPlugin`: `api.rs` 87-89 says that a failed plugin is prevented
   "from repeatedly crossing the FFI boundary". Delivery to `on_event` stops, but
   the shim keeps its handlers and calls the native side for every event
   (`Shim.cs` 267-272).
2. `ShimUnload`: `api.rs` 102-105 says shutdown releases resources before the
   unload. If anything throws after the native start returned `Ok`, the catch
   block frees the library without shutdown, and leaves `Plugin.client` set for
   the next `DeInitPlugin` (`Shim.cs` 518-524, 533).
3. `ShimKinds`: `api.rs` 96 speaks of "one subscribed ACT event". A handler that
   stalls between encoding and `callbackGate` across a disable and an enable
   delivers a kind the new instance did not subscribe to (`Shim.cs` 267-271).

Seen on the way, where no doc says otherwise: the resource's `Assembly Version`
string keeps the template's `0.0.0.0`; `assembly_name` plus `.dll` may equal
`native_dll_name`, so that `build_shim` writes the shim over the library beside it;
off Windows a `native_dll_name` with a backslash passes `validate_config`; the label
shows whichever message was posted last. And `api.rs` 212-213 says that "one event can be
matched directly to the `UiControl` that produced it": after a `Cleanup` that threw, a
`Bind` and a `Clear`, a click on the old panel sends an ID that nobody has, or that a new
control has. It takes an exception inside WinForms and a page that ACT keeps, so it is
recorded here, and as the condition in the two properties.

## Proofs

All theorems hold for every value of the constants: any sets of threads, instances,
event threads and kinds, any finite set of workers, any bounds. Assumptions: `None`
is no thread and no instance; the UI thread, the UI worker and the event threads are
different threads; the bounds are naturals; a command of `UiControls` has the types
of `UiControl` and `Command`, and its list index is at least -1; its objects are
pairs of an ID and a number, and neither of the panels nor `NoParent` is one of
them. Of the generator: a digit and a dot are one UTF-16 unit each
(`UnitsAssumption`); a file version is four 16-bit numbers and the other texts are
sequences of atoms that have a width (`ConfigType`, the Rust types of `PluginConfig`
and `PluginMetadata`); and the template has the tables that `Shim.cs` compiles to,
its resource only the standard strings, and the placeholders only where a stage
writes (`TemplateType`). The codec's two are given with it below. The template is
checked in beside the code, so this is a fact about one file and not about a user's
input. TLC evaluates the two assumptions on all inputs of the run.

- **`NativeAbiProofs`**. The invariant `IInv` adds to the types and
  `SingleOwner`: a thread holds the guard exactly while it is in a callback
  (`GuardInv`), it owns a plugin value exactly in `P::init`, before installing and
  in shutdown (`OwnerInv`), and an event finds the slot full, a shutdown leaves it
  empty (`SlotInv`). `Serialized` is not inductive by itself because it says
  nothing of the guard that enforces it. The refinement proof
  (`ImplementsContract`) shows for each action which single instance changes its
  phase, and that the others keep theirs; for that it needs `IInv` before and
  after the step. `OneLivePlugin` is the contract's headline under the mapping.
- **`UiBridgeProofs`**. `IInv` holds the types, the exact count, `StopIsQuiet`,
  and: `accepting` is the window between `Bind` and `Stop` and the queues are
  empty outside it (`GateInv`); every queued or held item belongs to the present
  session (`SessionInv`); the two scheduled flags mean what they say (`FlagInv`).
  The count is proved with the cardinality theorems. Order needs a second
  invariant: numbers grow along each queue and everything queued is younger
  than what is in hand (`CommandOrder`, `EventOrder`), for events under the
  condition that there is one worker (`OneWorker`).
- **`ShimProofs`**. `IInv`: a sender is in the library only while it holds
  `callbackGate`, and with `stopping` set nobody holds it. It gives
  `QuietAfterUnsubscribe` with no further assumption. `HostInv` ties the place
  of the UI thread to the calls it may be in and to `Plugin.client`: from
  `StartAccepted` to `Clear` the library is loaded, the repository bound and, up to
  the shutdown, a plugin installed. It gives `NativeCodeLoaded`,
  `RepositoryForPlugin` and `EventsFindPlugin` under `MayThrow = FALSE`; with
  exceptions the second finding breaks it. `TypeCorrect` needs no assumption on
  exceptions.
  It ends with `KeepsContract`, again under `MayThrow = FALSE`. The
  invariant of `NativeAbiProofs` is taken over by instance (`N`): every step that the
  shim lets the library make is a step of `NativeAbi`. `SlotHost` says that a plugin
  is installed only while the client is set, or between the return of `start` and
  the next line; so `FreeLibrary` finds no call (`UnloadQuiet`) and no plugin, and
  unmapping is a stutter of the contract (`RefineUnmapped`).

- **`BoundaryProofs`**, for every repository, text and limit. `CallInv` says
  what a call carries from step to step, `SizeInv` that the buffer is smaller than
  the answer only if the repository changed once more than the tries counted:
  this makes `StableAnswered` inductive. `CommandsQueuedOnce` rests on the answer to
  a UI command being empty, so that the sizing call is the last one.
  `CodecRoundTrip` takes over from `WireCodecProofs` that an answer and an acceptable
  command read as what was written; `AnswersWhole`, `CommandsQueuedOnce` and the
  refinement rest on it. `EventInv` says that bytes not damaged are still those that
  `WriteEvent` made, which with `EventsRead` gives `EventsIntact`. For `DamageFound`
  it also keeps what each damage did to the bytes (`Damaged`), since `Received` has only
  the damaged ones. Bytes that nobody wrote need a fact of the readers alone: `Longer`, a
  reader that accepts some bytes accepts them with anything behind, with the same result.
  If a cut event were accepted, the whole one would be read from its first bytes and
  leave the rest, but `EventsRead` leaves nothing; and bytes behind an event change
  nothing. A tab event has to end where its bytes end, so its readers are inverted
  (`UiBack`): the value they return is one that writes the bytes they took, whichever
  byte was changed. `RefinesAtomicQuery`
  maps each step to a step of `AtomicQuery` or a stutter; the damage of events and the
  retries stutter.

- **`WireCodecProofs`**, for every number, text, payload and limit. The lemma each
  reader gets is `Joins`: from the bytes `p` followed by any `r` it takes exactly
  the `p` that was written, leaves `r`, and has the value. It holds of a count
  (`Number`, a fold over its four bytes, is the inverse of `U32` below 2^31) and of
  a text, and is carried along a list or a record by `Chain`, over `FoldLemmas`: the
  fold of the reader after i elements stands where the first i elements end. The
  layouts of the two sides are then compared field by field. `EventsRead` and
  `AnswersRead` go through all kinds and queries. `CommandsRead` differs:
  `Command.Decode` has limits of its own (`MaxItems`, `CommandValid`), so its reader
  either refuses or reads the same, and what it lets through is a command the tab
  can apply. Two assumptions: `NullAssumption` (`Null` is no value of a field) and
  `ValueAssumption` (texts are ASCII, and texts and payloads are shorter than 2^31
  bytes, where `U32` and `Number` are the code's; `MaxPayload` is 1 MiB). TLC
  evaluates both on the run's values.

- **`UiControlsProofs`**, for any number of failures. `IInv` adds to the two invariants
  the types of the controls and that a control carries the ID it is an object for. A
  control in a panel is registered exactly if the panel is, so a registered and an
  unregistered control are never inside one another (`Inside` is closed under children
  and the least such set). From this follows that disposing a set closed under children
  keeps the registry in step (`DisposeKeeps`): `Remove` takes the IDs of what it disposes
  and no other although controls of the same ID may be on an old panel, and `Clear` leaves
  on an old panel only what it unregistered (`EmptyKeeps`). A log finds its own limit because
  the logs registered are exactly the IDs of `logLimits`. `Applied` needs `IInv` too:
  what the user reaches on the tab is registered (`Reached`), and no command that
  `DecodeAccepts` lets through takes the half-way branch of `SetItems`.

- **`ShimGeneratorProofs`**, for every configuration, SDK and template, with texts of any
  length. The four properties speak of inputs and of the finished shim, and none is
  inductive: between the check and the file lie up to sixteen stages. `StageInv` says for
  each stage what has been checked by then (`Checked`, for an error also which check
  raised it) and that every field of the image is the template's with exactly the patches
  of the stages passed (`Patched`, in four parts, one for each group of tables).
  `StubsBind` then compares two hand-written lists, what `validate_contracts` asks for
  and what the stub calls. `MetadataFits` bounds the strings of an accepted
  configuration: 11 keys of at most 16 units and values of at most 2048 stay under the
  58080 bytes of the slot with all padding; a formatted version has at most 23
  characters. `NamedOnce` follows the placeholders through the tables.
  `VersionStamped` shows what `split('.')`, the leading digits and the parse compute,
  one character at a time (`SplitReads`, `LeadingSpec`, `ParseReads`); the reader in the
  property, `Numerals` and `Denotes`, speaks of positions in the text and of `Decimal`,
  and shares no code with them. `FormatReads` is the converse for `format_version`.

- **`FoldLemmas`**. Induction over data: a set of naturals that is not empty has a
  least element (well-founded minimality over a constant relation), so a set that
  holds 0 and goes on up to n holds 0..n (`Induction`). With it the recursion that
  `FoldLeft` takes its value from has a solution, so the fold has the value its
  recursion says, and `FoldAppend` gives it for one element more. The proof modules
  instantiate `Op`.

Only model-checked: all liveness (`CallsReturn`, `StopReturns`, `CommandSettles`,
`EventSettles`, `HostReturns`, `QueryReturns`), because fairness is out of the
prover's reach; and what the shim does with exceptions, where the second finding is.
Every other property that a passing run checks is also a theorem.

## Not modelled

- The status label. `SetStatus` posts to the UI thread from anywhere; no doc,
  comment or test says which message has to stay, so there is nothing to check.
- Locks inside FFXIV_ACT_Plugin and ACT, and whether the lists it returns are
  snapshots: not in the repository. An exception from it is modelled.
- The bytes of PE and .NET images, which dotscope and editpe read and write, and
  what two departures from a good build do together.
- A count in an event or an answer so large that `Vec::with_capacity` (`api.rs` 355) finds
  no space for it: the process would end before the reader looks at the elements.
- Exceptions that WinForms raises while a command is applied to a live tab.
- Text beyond ASCII, and floats: four bytes that nobody looks at.
- Docking, widths and rows of the tab.
- `FindServices`' search through ACT's plugins: it finds them or not.
- The test driver, the contract fixtures and the example plugin's callbacks: users
  of the code. The export macro forwards to `start` and has no state.

What could follow: the text of the status label, once the code says which message
stays; and the images of the builder, from a model of PE resources.
