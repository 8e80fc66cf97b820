---------------------------- MODULE PluginContract ----------------------------
(***************************************************************************)
(* What api.rs promises to the author of a plugin (trait Plugin and        *)
(* PluginInit), independently of how abi.rs keeps the promise.             *)
(*                                                                         *)
(* An instance stands for one value P built by one call of P::init; once   *)
(* it is dropped its name is used again for another value.  Its life is a  *)
(* walk through the phases below; at most one instance is live at a        *)
(* time, its callbacks do not overlap, a failed callback is the last event *)
(* it ever handles, and shutdown comes after every event and returns       *)
(* before another instance goes live.                                      *)
(***************************************************************************)
CONSTANT Instances

VARIABLE phase

Phases == {"absent",        \* P::init not called yet, or the value dropped
           "initialising",  \* inside P::init
           "built",         \* init returned Ok, not yet the live plugin
           "ready",         \* live, no callback running
           "busy",          \* live, inside on_event
           "errored",       \* live, an event failed: only shutdown may follow
           "stopping"}      \* inside shutdown

(* The phases in which an instance occupies the single plugin slot. *)
Live == {"ready", "busy", "errored", "stopping"}

Vacant == \A i \in Instances : phase[i] \notin Live

Init == phase = [i \in Instances |-> "absent"]

Move(i, from, to) == phase[i] \in from /\ phase' = [phase EXCEPT ![i] = to]

BeginInit(i)     == Move(i, {"absent"}, "initialising")
InitFails(i)     == Move(i, {"initialising"}, "absent")
InitSucceeds(i)  == Move(i, {"initialising"}, "built")
Install(i)       == Vacant /\ Move(i, {"built"}, "ready")
Discard(i)       == ~Vacant /\ Move(i, {"built"}, "absent")
BeginEvent(i)    == Move(i, {"ready"}, "busy")
EventSucceeds(i) == Move(i, {"busy"}, "ready")
EventFails(i)    == Move(i, {"busy"}, "errored")

(* An event that cannot be decoded never reaches on_event, yet is a failure. *)
RejectEvent(i)   == Move(i, {"ready"}, "errored")

BeginShutdown(i) == Move(i, {"ready", "errored"}, "stopping")
EndShutdown(i)   == Move(i, {"stopping"}, "absent")

Step(i) ==
  \/ BeginInit(i) \/ InitFails(i) \/ InitSucceeds(i)
  \/ Install(i) \/ Discard(i)
  \/ BeginEvent(i) \/ EventSucceeds(i) \/ EventFails(i) \/ RejectEvent(i)
  \/ BeginShutdown(i) \/ EndShutdown(i)

Next == \E i \in Instances : Step(i)

Spec == Init /\ [][Next]_phase

TypeOK == phase \in [Instances -> Phases]

(* At most one instance is live: "callbacks are serialized" (api.rs 86)   *)
(* across instances and not only within one.                              *)
OneLive == \A i, j \in Instances : phase[i] \in Live /\ phase[j] \in Live => i = j
===============================================================================
