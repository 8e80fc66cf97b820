------------------------------- MODULE UiControls -------------------------------
(* What the commands of UiBridge.cs do to the controls on the plugin's tab:   *)
(* the registry (controls, logLimits) beside the tree that WinForms keeps, the *)
(* failures that come back as error events, and the user at the controls.      *)
(* UiBridge.tla says when a command is applied, this module what it does, on    *)
(* the UI thread, one command at a time. Layout is left out.                    *)
EXTENDS Integers, Sequences, FiniteSets

CONSTANTS
  Ids,        \* the control IDs a plugin uses
  Objects,    \* the controls there can be at a time, a bound
  Root, OldRoot,  \* the panel of the last Bind; what failed Cleanups left of earlier ones
  NoParent,   \* no parent: of an Add that names none, of a control that is disposed
  MaxFailures,    \* how often Cleanup throws, a bound
  Specs,      \* the controls a plugin adds under each ID
  Texts, Lines, ItemLists, Indexes, Numbers  \* the data of the other commands

VARIABLES
  bound,      \* accepting: between Bind and Stop
  root,       \* root # null
  failures,   \* how often Stop has swallowed an exception
  controls,   \* ID -> control
  logLimits,  \* ID -> the most rows of a log
  widget,     \* control -> its state, while it is registered or in a panel
  parent,     \* control -> the control, Root or OldRoot it is in
  step        \* who made the last step, and the events it queued

session  == <<bound, root, failures>>
registry == <<controls, logLimits>>
tree     == <<widget, parent>>
vars     == <<session, registry, tree, step>>

Unselected == -1
Panels     == {"Row", "Column"}

(* What a plugin may ask for, in the types of UiControl and Command. *)
ASSUME ControlAssumption ==
  /\ OldRoot # Root /\ NoParent \notin {Root, OldRoot}
  /\ Objects \subseteq Ids \X Nat /\ {Root, OldRoot, NoParent} \cap Objects = {}
  /\ MaxFailures \in Nat
  /\ \A id \in Ids : Specs[id] \subseteq
       [kind : STRING, text : Texts, checked : BOOLEAN, items : ItemLists, selected : Indexes,
        min : Int, max : Int, value : Int, maxRows : Nat]
  /\ <<>> \in ItemLists /\ \A items \in ItemLists : Len(items) \in Nat
  /\ \A i \in Indexes : i \in Int /\ i >= Unselected

Event(kind, id) == [kind |-> kind, id |-> id]
Remaining(f, gone) == [x \in DOMAIN f \ gone |-> f[x]]
With(f, x, y) == [z \in DOMAIN f \cup {x} |-> IF z = x THEN y ELSE f[z]]

-------------------------------------------------------------------------------
(* Commands: what Decode lets through. *)

(* Command.Decode: a number within its bounds, a selection among the items, and *)
(* a log of at least one row.                                                   *)
DecodeAccepts(spec) ==
  /\ spec.min <= spec.value /\ spec.value <= spec.max
  /\ spec.selected < Len(spec.items)
  /\ spec.kind = "LogList" => spec.maxRows \in 1..10000

Blank ==
  [kind |-> "Row", text |-> "", checked |-> FALSE, items |-> <<>>, selected |-> Unselected,
   min |-> 0, max |-> 0, value |-> 0, maxRows |-> 0]

Accepted(id) == {spec \in Specs[id] : DecodeAccepts(spec)}

ItemSpec(items, i) == [Blank EXCEPT !.items = items, !.selected = i]
ItemSpecs == {ItemSpec(items, i) : items \in ItemLists, i \in Indexes}

-------------------------------------------------------------------------------
(* The controls. *)

HoldsChildren(S) == \A o \in DOMAIN parent : parent[o] \in S => o \in S

(* The controls of tops and those inside them: what is in every set that has tops *)
(* and all children.                                                              *)
Inside(tops) ==
  LET closed == {S \in SUBSET DOMAIN widget : tops \subseteq S /\ HoldsChildren(S)}
  IN  {o \in DOMAIN widget : \A S \in closed : o \in S}

Children(panels) == {o \in DOMAIN widget : parent[o] \in panels}
Subtree(o) == Inside({o})

(* The user can reach o: it is on a tab, and neither it nor a panel it is in is  *)
(* disabled. What a failed Cleanup left is still there for the user.             *)
Usable(o) ==
  /\ o \in Inside(Children({Root, OldRoot}))
  /\ o \notin Inside({x \in DOMAIN widget : ~widget[x].enabled})

Known(id) == id \in DOMAIN controls
KnownAs(id, kinds) == Known(id) /\ widget[controls[id]].kind \in kinds
Registered(o) == Known(widget[o].tag) /\ controls[widget[o].tag] = o

(* Variant: the handlers do not ask whether a command is being applied. *)
EmitAlways(raised, applying) == raised

(* What WinForms raises is the user's doing unless a command is being applied, *)
(* and is dropped once Stop was called.                                        *)
Emit(raised, applying) == IF applying \/ ~bound THEN <<>> ELSE raised

(* The event that a control raises when its value changes from w to v. *)
Raised(w, v) ==
  IF \/ w.kind = "CheckBox" /\ w.checked # v.checked
     \/ w.kind = "TextBox"  /\ w.text # v.text
     \/ w.kind = "ComboBox" /\ w.selected # v.selected
     \/ w.kind = "Number"   /\ w.value # v.value
  THEN <<Event(w.kind, w.tag)>> ELSE <<>>

Record(by, emitted) == step' = [by |-> by, emitted |-> emitted]

Change(o, w, by) ==
  /\ widget' = [widget EXCEPT ![o] = w]
  /\ Record(by, Emit(Raised(widget[o], w), by = "command"))
  /\ UNCHANGED <<session, registry, parent>>

(* The exception is caught and its message queued with the command's ID. *)
Report(id) ==
  /\ Record("command", <<Event("Error", id)>>)
  /\ UNCHANGED <<session, registry, tree>>

-------------------------------------------------------------------------------
(* Commands, each with its failure. *)

CanAdd(id, p, spec) ==
  /\ ~Known(id)
  /\ p = NoParent \/ KnownAs(p, Panels)
  /\ spec.selected < Len(spec.items)
  /\ spec.kind = "LogList" => id \notin DOMAIN logLimits

Addable(id, p) == {spec \in Accepted(id) : CanAdd(id, p, spec)}

(* The objects for this ID that no control is. *)
Unused(id) == {o \in Objects : o[1] = id} \ DOMAIN widget
New(id) == CHOOSE o \in Unused(id) : TRUE

Add(id, p, spec) ==
  /\ bound /\ Unused(id) # {}
  /\ controls' = With(controls, id, New(id))
  /\ parent' = With(parent, New(id), IF p = NoParent THEN Root ELSE controls[p])
  /\ widget' = With(widget, New(id),
       [kind |-> spec.kind, tag |-> id, enabled |-> TRUE, text |-> spec.text,
        checked |-> spec.checked, items |-> spec.items, selected |-> spec.selected,
        min |-> spec.min, max |-> spec.max, value |-> spec.value, rows |-> <<>>])
  /\ logLimits' = IF spec.kind = "LogList" THEN With(logLimits, id, spec.maxRows) ELSE logLimits
  /\ Record("command", <<>>)
  /\ UNCHANGED session

AddFails(id, p) == bound /\ Addable(id, p) # Accepted(id) /\ Report(id)

(* Dispose takes a control out of its panel; the lists of a control that had a   *)
(* window are empty afterwards. It is gone, unless the registry names it still:  *)
(* kept are those.                                                               *)
Disposed(w) == [w EXCEPT !.items = <<>>, !.selected = Unselected, !.rows = <<>>]

Dispose(gone, kept) ==
  /\ \E shown \in BOOLEAN :
       widget' = [o \in (DOMAIN widget \ gone) \cup kept |->
                    IF o \in gone /\ shown THEN Disposed(widget[o]) ELSE widget[o]]
  /\ parent' = [o \in (DOMAIN widget \ gone) \cup kept |->
                   IF o \in gone THEN NoParent ELSE parent[o]]

(* Those of the controls that an exception leaves in the registry. *)
DisposeOnly(gone) == Dispose(gone, {o \in gone : Registered(o)}) /\ UNCHANGED registry

(* Variant: the controls inside a panel stay registered. *)
UnregisterOne(o) == {widget[o].tag}

Unregister(o) == {widget[x].tag : x \in Subtree(o)}

(* Dispose takes the controls inside with it. *)
RemoveControl(id) ==
  /\ bound /\ Known(id)
  /\ controls'  = Remaining(controls, Unregister(controls[id]))
  /\ logLimits' = Remaining(logLimits, Unregister(controls[id]))
  /\ Dispose(Subtree(controls[id]), {})
  /\ Record("command", <<>>)
  /\ UNCHANGED session

RemoveFails(id) == bound /\ ~Known(id) /\ Report(id)

(* The registry is emptied, but only the controls of the present root are        *)
(* disposed: those on the panel of an earlier session stay there, and nothing     *)
(* knows them any more. A disposed control that was registered, and what a plugin *)
(* put in it since, is in no panel and so is gone.                                *)
Empty(by) ==
  /\ controls' = <<>> /\ logLimits' = <<>>
  /\ Dispose(DOMAIN widget \ Inside(Children({OldRoot})), {})
  /\ Record(by, <<>>)

Clear == bound /\ Empty("command") /\ UNCHANGED session

SetText(id, text) ==
  /\ bound
  /\ IF KnownAs(id, {"Label", "Button", "CheckBox", "TextBox"})
     THEN Change(controls[id], [widget[controls[id]] EXCEPT !.text = text], "command")
     ELSE Report(id)

SetEnabled(id, value) ==
  /\ bound
  /\ IF Known(id)
     THEN Change(controls[id], [widget[controls[id]] EXCEPT !.enabled = value], "command")
     ELSE Report(id)

SetChecked(id, value) ==
  /\ bound
  /\ IF KnownAs(id, {"CheckBox"})
     THEN Change(controls[id], [widget[controls[id]] EXCEPT !.checked = value], "command")
     ELSE Report(id)

(* The items are replaced before the selection is looked at. *)
SetItems(id, spec) ==
  /\ bound
  /\ IF ~KnownAs(id, {"ComboBox"}) THEN Report(id)
     ELSE IF spec.selected < Len(spec.items)
     THEN Change(controls[id],
                 [widget[controls[id]] EXCEPT !.items = spec.items, !.selected = spec.selected],
                 "command")
     ELSE /\ widget' = [widget EXCEPT ![controls[id]].items = spec.items,
                                      ![controls[id]].selected = Unselected]
          /\ Record("command", <<Event("Error", id)>>)
          /\ UNCHANGED <<session, registry, parent>>

SetSelected(id, selected) ==
  /\ bound
  /\ IF KnownAs(id, {"ComboBox"}) /\ selected < Len(widget[controls[id]].items)
     THEN Change(controls[id], [widget[controls[id]] EXCEPT !.selected = selected], "command")
     ELSE Report(id)

SetNumber(id, value) ==
  /\ bound
  /\ IF KnownAs(id, {"Number"}) /\ value \in widget[controls[id]].min..widget[controls[id]].max
     THEN Change(controls[id], [widget[controls[id]] EXCEPT !.value = value], "command")
     ELSE Report(id)

(* Variant: the limit is tested before the line is there. *)
TrimmedLate(rows, line, limit) ==
  IF Len(rows) <= limit THEN Append(rows, line) ELSE Append(Tail(rows), line)

(* The line is added, and the oldest row goes if there are then too many. *)
Trimmed(rows, line, limit) ==
  IF Len(rows) + 1 > limit THEN Tail(Append(rows, line)) ELSE Append(rows, line)

AppendLog(id, line) ==
  /\ bound
  /\ IF KnownAs(id, {"LogList"})
     THEN Change(controls[id],
                 [widget[controls[id]] EXCEPT !.rows = Trimmed(@, line, logLimits[id])], "command")
     ELSE Report(id)

ClearLog(id) ==
  /\ bound
  /\ IF KnownAs(id, {"LogList"})
     THEN Change(controls[id], [widget[controls[id]] EXCEPT !.rows = <<>>], "command")
     ELSE Report(id)

-------------------------------------------------------------------------------
(* The user at a control that is shown and enabled. *)

Uses(o, kind) == widget[o].kind = kind /\ Usable(o)

Click(o) ==
  /\ Uses(o, "Button")
  /\ Record("user", Emit(<<Event("Button", widget[o].tag)>>, FALSE))
  /\ UNCHANGED <<session, registry, tree>>

Toggle(o) ==
  Uses(o, "CheckBox") /\ Change(o, [widget[o] EXCEPT !.checked = ~@], "user")

Edit(o, text) ==
  /\ Uses(o, "TextBox") /\ text # widget[o].text
  /\ Change(o, [widget[o] EXCEPT !.text = text], "user")

Choose(o, i) ==
  /\ Uses(o, "ComboBox") /\ i \in 0..(Len(widget[o].items) - 1) /\ i # widget[o].selected
  /\ Change(o, [widget[o] EXCEPT !.selected = i], "user")

Spin(o, n) ==
  /\ Uses(o, "Number") /\ n \in widget[o].min..widget[o].max /\ n # widget[o].value
  /\ Change(o, [widget[o] EXCEPT !.value = n], "user")

-------------------------------------------------------------------------------
(* Sessions. *)

Init ==
  /\ bound = FALSE /\ root = FALSE /\ failures = 0
  /\ controls = <<>> /\ logLimits = <<>> /\ widget = <<>> /\ parent = <<>>
  /\ step = [by |-> "host", emitted |-> <<>>]

(* A new root. What an earlier session left keeps its own, and the registry. *)
Bind ==
  /\ ~bound /\ bound' = TRUE /\ root' = TRUE
  /\ parent' = [o \in DOMAIN parent |-> IF parent[o] = Root THEN OldRoot ELSE parent[o]]
  /\ Record("host", <<>>)
  /\ UNCHANGED <<failures, registry, widget>>

(* Stop, which ACT may call again after one that threw. *)
Cleanup ==
  /\ root /\ root' = FALSE /\ bound' = FALSE
  /\ Empty("host")
  /\ UNCHANGED failures

(* Stop swallows what Invoke or Cleanup throws: before anything was done; after   *)
(* some controls of the tab were disposed, by Clear or all of them by ACT with    *)
(* its page; or when Clear is through and the panel is taken off the tab.         *)
CleanupFails ==
  /\ root /\ bound' = FALSE
  /\ failures < MaxFailures /\ failures' = failures + 1
  /\ \/ Empty("host")
     \/ /\ \E tops \in SUBSET Children({Root}) : DisposeOnly(Inside(tops))
        /\ Record("host", <<>>)
  /\ UNCHANGED root

(* ACT disposes the page of a session that is over. *)
PageDisposed(place) ==
  /\ place = Root => ~bound
  /\ Children({place}) # {} /\ DisposeOnly(Inside(Children({place})))
  /\ Record("host", <<>>)
  /\ UNCHANGED session

(* Apply: what one command with this ID may do. *)
Command(id) ==
  \/ \E p \in Ids \cup {NoParent} :
       \/ \E spec \in Addable(id, p) : Add(id, p, spec)
       \/ AddFails(id, p)
  \/ RemoveControl(id) \/ RemoveFails(id)
  \/ \E text \in Texts : SetText(id, text)
  \/ \E value \in BOOLEAN : SetEnabled(id, value) \/ SetChecked(id, value)
  \/ \E spec \in {s \in ItemSpecs : DecodeAccepts(s)} : SetItems(id, spec)
  \/ \E i \in Indexes : SetSelected(id, i)
  \/ \E n \in Numbers : SetNumber(id, n)
  \/ \E line \in Lines : AppendLog(id, line)
  \/ ClearLog(id)

User(o) ==
  \/ Click(o) \/ Toggle(o)
  \/ \E text \in Texts : Edit(o, text)
  \/ \E i \in Indexes : Choose(o, i)
  \/ \E n \in Numbers : Spin(o, n)

Next ==
  \/ Bind \/ Cleanup \/ CleanupFails \/ Clear
  \/ \E place \in {Root, OldRoot} : PageDisposed(place)
  \/ \E id \in Ids : Command(id)
  \/ \E o \in DOMAIN widget : User(o)

Spec == Init /\ [][Next]_vars

-------------------------------------------------------------------------------
(* Properties. *)

(* Through nested panels, reuse of IDs, failed Cleanups and restarts: an ID names  *)
(* a control that was added under it; whatever is on the tab of the session, or in  *)
(* a registered panel, is registered itself, so Remove never takes an ID from a    *)
(* control that stays; the logs are those with a limit. A control that nothing      *)
(* knows is on the panel of an earlier session, and as long as no Cleanup has       *)
(* thrown there is none, and none outlives its session.                             *)
RegistryMatchesTree ==
  /\ \A id \in DOMAIN controls :
       controls[id] \in DOMAIN widget /\ widget[controls[id]].tag = id
  /\ \A o \in DOMAIN widget :
       \/ parent[o] = Root     /\ Registered(o)
       \/ parent[o] = NoParent /\ Registered(o)
       \/ parent[o] = OldRoot
       \/ /\ parent[o] \in DOMAIN widget /\ widget[parent[o]].kind \in Panels
          /\ Registered(o) <=> Registered(parent[o])
  /\ DOMAIN logLimits = {id \in Ids : KnownAs(id, {"LogList"})}
  /\ failures = 0 => \A o \in DOMAIN widget : bound /\ parent[o] \notin {OldRoot, NoParent}

(* Whatever commands and users do in turn, a number is within its bounds, a       *)
(* selection is one of the items, and a log holds no more rows than the limit it   *)
(* was added with, also when its ID belonged to another log before.                *)
ValuesInRange ==
  \A o \in DOMAIN widget :
    /\ widget[o].kind = "Number" => widget[o].value \in widget[o].min..widget[o].max
    /\ widget[o].selected \in Unselected..(Len(widget[o].items) - 1)
    /\ widget[o].kind = "LogList" /\ Registered(o) =>
         Len(widget[o].rows) <= logLimits[widget[o].tag]

(* A command takes effect without an event, or changes nothing and comes back as  *)
(* one error event with its ID. What the user does on the tab of the session is    *)
(* one event, with the ID under which commands reach that very control. Only the   *)
(* panel that a failed Cleanup left can send an ID that is another control's or    *)
(* nobody's. So a plugin that mirrors its commands and events knows what the tab    *)
(* shows, and never hears its own commands as the user's.                          *)
AppliedOrReported ==
  [][/\ step'.by = "command" =>
          \/ step'.emitted = <<>>
          \/ /\ \E id \in Ids : step'.emitted = <<Event("Error", id)>>
             /\ UNCHANGED <<registry, tree>>
     /\ step'.by = "user" =>
          \/ ~bound /\ step'.emitted = <<>>
          \/ \E o \in DOMAIN widget :
               /\ step'.emitted = <<Event(widget[o].kind, widget[o].tag)>>
               /\ Registered(o) \/ (failures > 0 /\ o \in Inside(Children({OldRoot})))]_vars
===============================================================================
