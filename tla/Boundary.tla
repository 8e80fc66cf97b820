------------------------------- MODULE Boundary --------------------------------
(***************************************************************************)
(* One value crossing between the managed shim and the plugin: an event    *)
(* from Send to Event::decode, a repository query from its typed helper    *)
(* through Repository::query to QueryCore and back, a UI command from      *)
(* Repository::ui to UiBridge.Queue.  The SDK's repository may change      *)
(* between any two calls of the host, and the tab may open and close.      *)
(* An event's bytes may also be those of a shim that does not agree with   *)
(* the plugin (damage): error.rs and the tests of api.rs foresee it.       *)
(***************************************************************************)
EXTENDS WireCodec

CONSTANT Unavailable  \* the repository is null, or the SDK throws

VARIABLES
  pc,         \* where the value is
  kind,       \* the kind of the event, or the number of the query
  sent,       \* the event, or the UI command
  wire,       \* the bytes of the event, or of the request
  damage,     \* how the event's bytes differ from what the shim wrote
  attached,   \* the host table has a query callback
  sdk,        \* what the SDK holds for the query, or Unavailable
  changes,    \* how often it changed during the query, 3 at most
  required,   \* api.rs: size of the next buffer
  tries,      \* calls with a buffer that found it too small
  accepting,  \* UiBridge.accepting
  queued,     \* the commands this call put into UiBridge.commands
  outcome     \* what the plugin gets

call == <<kind, sent, wire, damage>>
host == <<attached, accepting>>
vars == <<pc, kind, sent, wire, damage, attached, sdk, changes, required, tries,
          accepting, queued, outcome>>

UiQuery == 256
UnknownQuery == 13
DataQueries == 1..UnknownQuery

Sdk(q) == {Unavailable} \cup (IF q = UnknownQuery THEN {} ELSE Answers(q))

Fail(reason) == [ok |-> FALSE, reason |-> reason]
Checked(r, reason) == IF r.ok THEN r ELSE Fail(reason)
Pending == Fail("pending")

Init ==
  /\ pc = "idle" /\ kind = 0 /\ sent = <<>> /\ wire = <<>> /\ damage = "none"
  /\ attached \in BOOLEAN /\ accepting \in BOOLEAN
  /\ sdk = <<>> /\ changes = 0 /\ required = 0 /\ tries = 0
  /\ queued = <<>> /\ outcome = Pending

-------------------------------------------------------------------------------
(* Events.                                                                  *)
EmitEvent ==
  /\ pc = "idle"
  /\ pc' = "event"
  /\ sent' \in Events
  /\ kind' = sent'.kind
  /\ wire' = WriteEvent(sent')
  /\ UNCHANGED <<damage, host, sdk, changes, required, tries, queued, outcome>>

(* The payload of a shim that does not agree with the plugin.               *)
Damage ==
  /\ pc = "event" /\ damage = "none"
  /\ \/ /\ damage' = "cut" /\ UNCHANGED kind
        /\ \E n \in 0..(Len(wire) - 1) : wire' = SubSeq(wire, 1, n)
     \/ /\ damage' = "grown" /\ UNCHANGED kind
        /\ wire' = Append(wire, 0)
     \/ /\ damage' = "changed" /\ UNCHANGED kind
        /\ kind = 11
        /\ \E i \in DOMAIN wire : i <= 6 /\ wire' = [wire EXCEPT ![i] = 2]
     \/ /\ damage' = "kind" /\ UNCHANGED wire
        /\ kind' = 12
  /\ UNCHANGED <<pc, sent, host, sdk, changes, required, tries, queued, outcome>>

ReceiveEvent ==
  /\ pc = "event"
  /\ pc' = "received"
  /\ outcome' = Checked(Decode(kind, wire), "DecodeError")
  /\ UNCHANGED <<call, host, sdk, changes, required, tries, queued>>

-------------------------------------------------------------------------------
(* Queries, from the plugin's side.                                         *)
Ask ==
  /\ pc = "idle"
  /\ pc' = "asking"
  /\ \/ kind' \in DataQueries /\ sdk' \in Sdk(kind') /\ sent' = <<>>
     \/ kind' = UiQuery /\ sdk' = <<>> /\ sent' \in UiCommands
  /\ UNCHANGED <<wire, damage, host, changes, required, tries, queued, outcome>>

(* A UI command is encoded first; then the host table is looked at.         *)
Request ==
  CASE kind = UiQuery -> Encode(sent)
    [] kind = 8       -> [ok |-> TRUE, value |-> U32(1)]
    [] OTHER          -> [ok |-> TRUE, value |-> <<>>]

Begin ==
  /\ pc = "asking"
  /\ \E request \in {Request} :
       /\ wire' = IF request.ok THEN request.value ELSE <<>>
       /\ \/ /\ request.ok /\ attached
             /\ pc' = "sizing" /\ UNCHANGED outcome
          \/ /\ request.ok /\ ~attached
             /\ pc' = "done" /\ outcome' = Fail("NotInitialized")
          \/ /\ ~request.ok
             /\ pc' = "done" /\ outcome' = Fail("InvalidUi")
  /\ UNCHANGED <<kind, sent, damage, host, sdk, changes, required, tries, queued>>

(* CommonBridge.Query: what it may return when the output holds len bytes.  *)
Reply(status, size, bytes, commands) ==
  [status |-> status, size |-> size, bytes |-> bytes, commands |-> commands]

Rejection == Reply("PluginError", 0, <<>>, <<>>)

Serve(bytes, len) ==
  IF len < Len(bytes) THEN Reply("BufferTooSmall", Len(bytes), <<>>, <<>>)
  ELSE Reply("Ok", Len(bytes), bytes, <<>>)

DataReply(len) ==
  IF sdk = Unavailable THEN Rejection ELSE Serve(WriteAnswer(kind, sdk), len)

(* UiBridge.Queue: the command is in the queue before BeginInvoke is called, *)
(* which may throw.                                                         *)
Queue(r) ==
  IF Len(wire) > MaxPayload \/ ~r.ok \/ ~accepting THEN {Rejection}
  ELSE {Reply("Ok", 0, <<>>, <<r.value>>), Reply("PluginError", 0, <<>>, <<r.value>>)}

Replies(len) == IF kind = UiQuery THEN Queue(CommandDecode(wire)) ELSE {DataReply(len)}

(* The typed helpers, and ui(), on the bytes of a successful query.         *)
Finish(bytes) ==
  IF kind = UiQuery THEN [ok |-> TRUE]
  ELSE Checked(Helper(kind, bytes), "Malformed")

(* Variant: the answer to the sizing call is thrown away, empty or not.     *)
SizingCallNeverDone ==
  /\ pc = "sizing"
  /\ \E reply \in Replies(0) :
       /\ queued' = queued \o reply.commands
       /\ \/ /\ reply.status \in {"Ok", "BufferTooSmall"}
             /\ pc' = "retry" /\ required' = reply.size /\ UNCHANGED outcome
          \/ /\ reply.status \notin {"Ok", "BufferTooSmall"}
             /\ pc' = "done" /\ outcome' = Fail(reply.status) /\ UNCHANGED required
  /\ UNCHANGED <<call, host, sdk, changes, tries>>

(* The call without a buffer.                                               *)
SizingCall ==
  /\ pc = "sizing"
  /\ \E reply \in Replies(0) :
       /\ queued' = queued \o reply.commands
       /\ \/ /\ reply.status = "Ok" /\ reply.size = 0
             /\ pc' = "done" /\ outcome' = Finish(<<>>) /\ UNCHANGED required
          \/ /\ reply.status = "BufferTooSmall" \/ (reply.status = "Ok" /\ reply.size # 0)
             /\ pc' = "retry" /\ required' = reply.size /\ UNCHANGED outcome
          \/ /\ reply.status \notin {"Ok", "BufferTooSmall"}
             /\ pc' = "done" /\ outcome' = Fail(reply.status) /\ UNCHANGED required
  /\ UNCHANGED <<call, host, sdk, changes, tries>>

(* Variant: two calls with a buffer instead of three.                       *)
RetryLimitTwo == 2

RetryLimit == 3

(* Variant: an answer that does not fit is taken for one that does.         *)
BufferedCallUnchecked ==
  /\ pc = "retry"
  /\ \E reply \in Replies(required) :
       /\ queued' = queued \o reply.commands
       /\ pc' = "done"
       /\ outcome' = IF reply.status = "PluginError" THEN Fail(reply.status)
                     ELSE IF reply.status = "Ok" THEN Finish(reply.bytes)
                     ELSE Finish([i \in 1..required |-> 0])
  /\ UNCHANGED <<call, host, sdk, changes, required, tries>>

(* Variant: when the buffer is too small the handshake starts over.         *)
BufferedCallRestarts ==
  /\ pc = "retry"
  /\ \E reply \in Replies(required) :
       /\ queued' = queued \o reply.commands
       /\ \/ reply.status = "Ok" /\ pc' = "done" /\ outcome' = Finish(reply.bytes)
          \/ reply.status = "BufferTooSmall" /\ pc' = "sizing" /\ UNCHANGED outcome
          \/ reply.status = "PluginError" /\ pc' = "done" /\ outcome' = Fail(reply.status)
       /\ required' = 0
  /\ UNCHANGED <<call, host, sdk, changes, tries>>

(* The calls with a buffer of the size the last call asked for.             *)
BufferedCall ==
  /\ pc = "retry"
  /\ \E reply \in Replies(required) :
       /\ queued' = queued \o reply.commands
       /\ \/ /\ reply.status = "Ok"
             /\ pc' = "done"
             /\ outcome' = IF reply.size > required THEN Fail("Malformed")
                           ELSE Finish(reply.bytes)
             /\ UNCHANGED <<required, tries>>
          \/ /\ reply.status = "BufferTooSmall"
             /\ required' = reply.size
             /\ tries' = IF tries < 3 THEN tries + 1 ELSE tries
             /\ \/ tries + 1 < RetryLimit /\ UNCHANGED <<pc, outcome>>
                \/ tries + 1 = RetryLimit /\ pc' = "done" /\ outcome' = Fail(reply.status)
          \/ /\ reply.status \notin {"Ok", "BufferTooSmall"}
             /\ pc' = "done" /\ outcome' = Fail(reply.status)
             /\ UNCHANGED <<required, tries>>
  /\ UNCHANGED <<call, host, sdk, changes>>

(* The plugin's callback returns, or goes on to its next call.              *)
Return ==
  /\ pc \in {"received", "done"}
  /\ pc' = "idle" /\ kind' = 0 /\ sent' = <<>> /\ wire' = <<>> /\ damage' = "none"
  /\ sdk' = <<>> /\ changes' = 0 /\ required' = 0 /\ tries' = 0
  /\ queued' = <<>> /\ outcome' = Pending
  /\ UNCHANGED host

-------------------------------------------------------------------------------
(* The other threads of the process.                                        *)
RepositoryChanges ==
  /\ pc \in {"asking", "sizing", "retry"} /\ kind \in DataQueries
  /\ sdk' \in Sdk(kind)
  /\ changes' = IF changes < 3 THEN changes + 1 ELSE changes
  /\ UNCHANGED <<pc, call, host, required, tries, queued, outcome>>

(* Bind opens the tab, Stop closes it.                                      *)
TabToggles ==
  /\ accepting' = ~accepting
  /\ UNCHANGED <<pc, call, attached, sdk, changes, required, tries, queued, outcome>>

Step == ReceiveEvent \/ Begin \/ SizingCall \/ BufferedCall

Next ==
  \/ EmitEvent \/ Damage \/ Ask \/ Step \/ Return
  \/ RepositoryChanges \/ TabToggles

(* The plugin's thread and the host's code go on: weak fairness of Step,     *)
(* which can be taken exactly when a value is under way.  The repository    *)
(* and the tab owe nothing.                                                 *)
UnderWay == pc \in {"event", "asking", "sizing", "retry"}

Spec == Init /\ [][Next]_vars /\ ([]<>~UnderWay \/ []<><<Step>>_vars)

-------------------------------------------------------------------------------
Queried == pc = "done" /\ kind \in DataQueries

TypeOK ==
  /\ pc \in {"idle", "event", "received", "asking", "sizing", "retry", "done"}
  /\ kind \in 0..UiQuery
  /\ damage \in {"none", "cut", "grown", "changed", "kind"}
  /\ attached \in BOOLEAN /\ accepting \in BOOLEAN
  /\ changes \in 0..3 /\ tries \in 0..3
  /\ pc = "sizing" => required = 0 /\ tries = 0
  /\ pc = "retry" => kind \in DataQueries /\ tries < 3

(* An event reaches on_event as the shim sent it, every field in its place   *)
(* and a null string as an empty one.  Only a null record is refused        *)
(* (abi.rs:161: the plugin has then failed for good).                       *)
EventIntact ==
  pc = "received" /\ damage = "none" =>
    /\ wire \in Seq(Byte)
    /\ outcome.ok = Delivered(sent).ok
    /\ outcome.ok => outcome = Delivered(sent)

(* Bytes that are not the shim's: a payload that ends early or an unknown    *)
(* kind is refused.  An event of the tab is taken only when its bytes are   *)
(* exactly those of the event read; any other event with bytes after its    *)
(* end reads as if they were not there.                                     *)
DamageDetected ==
  pc = "received" /\ damage # "none" =>
    /\ damage \in {"cut", "kind"} => ~outcome.ok
    /\ kind = 11 /\ outcome.ok => WriteEvent([kind |-> 11, value |-> outcome.value]) = wire
    /\ kind # 11 /\ damage = "grown" => outcome.ok = Delivered(sent).ok
    /\ kind # 11 /\ damage = "grown" /\ outcome.ok => outcome = Delivered(sent)

(* A typed helper returns the repository's answer as it was at the last call *)
(* of the host, whole, however often and however much it changed before;    *)
(* it finds the bytes malformed only when the list has a null combatant.    *)
WholeAnswer ==
  Queried =>
    /\ outcome.ok => sdk # Unavailable /\ outcome = Answered(kind, sdk)
    /\ ~outcome.ok /\ outcome.reason = "Malformed" => sdk # Unavailable /\ ~Answered(kind, sdk).ok

(* BufferTooSmall reaches the plugin only when the repository changed three  *)
(* times during the call, once before each buffer was filled.               *)
StableAnswered ==
  Queried /\ ~outcome.ok /\ outcome.reason = "BufferTooSmall" => changes = 3

(* ui() queues its command exactly once when it returns Ok, although the     *)
(* query under it may call the host four times, and only a command that     *)
(* UiBridge can apply.  A command that was queued although ui() failed is   *)
(* one whose post to the UI thread threw (UiBridge.cs:60, 106).             *)
UiOnce ==
  kind = UiQuery =>
    /\ queued \in {<<>>, <<sent>>}
    /\ queued # <<>> => pc = "done" /\ CommandValid(sent)
    /\ pc = "done" /\ outcome.ok => queued = <<sent>>
    /\ pc = "done" /\ queued # <<>> => outcome.ok \/ outcome.reason = "PluginError"

(* A call of the host ends, even while the repository keeps changing.        *)
QueryReturns == pc \in {"asking", "sizing", "retry"} ~> pc = "done"

-------------------------------------------------------------------------------
(* The promise of AtomicQuery.                                              *)
Acceptable(command) ==
  \E bytes \in {Encode(command)} :
    bytes.ok /\ ~(Len(bytes.value) > MaxPayload) /\ CommandDecode(bytes.value).ok

Reading(q, v) ==
  IF v = Unavailable \/ ~Answered(q, v).ok THEN [ok |-> FALSE] ELSE Answered(q, v)

Eventful == pc \in {"event", "received"}

Phase ==
  CASE pc \in {"asking", "sizing", "retry"} -> "asked"
    [] pc = "done" -> "answered"
    [] OTHER       -> "idle"
Asked  == IF Eventful THEN 0 ELSE kind
Issued == IF Eventful THEN <<>> ELSE sent
Steady == changes = 0
Got    == IF outcome.ok /\ ~Eventful THEN outcome ELSE [ok |-> FALSE]

Atomic == INSTANCE AtomicQuery WITH
  Commands <- UiCommands, phase <- Phase, query <- Asked, command <- Issued,
  steady <- Steady, open <- accepting, got <- Got

(* The codec loses nothing: an answer of the repository, and a command that *)
(* the tab can take, read as what was written.                              *)
RoundTrip ==
  /\ \A q \in DataQueries : \A v \in Sdk(q) \ {Unavailable} :
       Helper(q, WriteAnswer(q, v)) = Answered(q, v)
  /\ \A c \in UiCommands : Acceptable(c) =>
       CommandDecode(Encode(c).value) = [ok |-> TRUE, value |-> c] /\ CommandValid(c)

(* Every call of the host behaves as one atomic step on the repository or on *)
(* the tab's queue, with a failure only for a reason AtomicQuery names.     *)
Implements == Atomic!Spec
===============================================================================
