---------------------------- MODULE UiControlsProofs ----------------------------
(* What UiControls promises for every set of IDs, controls and texts, and for    *)
(* any number of Cleanups that throw: what is on the tab of the session is        *)
(* registered, values keep their bounds, and a command is applied or reported.    *)
(* The invariant is inductive with the types of the controls. The proofs rest on   *)
(* Inside being closed under children and least: the registered controls and the   *)
(* others are closed under children as well, so a panel never mixes them.           *)
EXTENDS UiControls, TLAPS

Widgets ==
  [kind : STRING, tag : Ids, enabled : BOOLEAN, text : Texts, checked : BOOLEAN,
   items : ItemLists, selected : Int, min : Int, max : Int, value : Int, rows : Seq(Lines)]

TypeInv ==
  /\ bound \in BOOLEAN /\ failures \in Nat
  /\ widget \in [DOMAIN widget -> Widgets]
  /\ DOMAIN widget \subseteq Objects
  /\ DOMAIN parent = DOMAIN widget
  /\ \A id \in DOMAIN logLimits : logLimits[id] \in Nat

IInv == TypeInv /\ RegistryMatchesTree /\ ValuesInRange

(* The bounds of one control. *)
Fits(o, w) ==
  /\ w.kind = "Number" => w.value \in w.min..w.max
  /\ w.selected \in Unselected..(Len(w.items) - 1)
  /\ w.kind = "LogList" /\ Known(w.tag) /\ controls[w.tag] = o => Len(w.rows) <= logLimits[w.tag]

(* What the registry and the tree are to each other, for one control. *)
Placed(o) ==
  \/ parent[o] = Root     /\ Registered(o)
  \/ parent[o] = NoParent /\ Registered(o)
  \/ parent[o] = OldRoot
  \/ /\ parent[o] \in DOMAIN widget /\ widget[parent[o]].kind \in Panels
     /\ Registered(o) <=> Registered(parent[o])

-------------------------------------------------------------------------------
(* Facts about the tree. *)

(* Inside has the tops and is closed under children. *)
LEMMA InsideClosed ==
  ASSUME IInv, NEW tops \in SUBSET DOMAIN widget
  PROVE  /\ tops \subseteq Inside(tops) /\ Inside(tops) \subseteq DOMAIN widget
         /\ HoldsChildren(Inside(tops))
<1>1. tops \subseteq Inside(tops) /\ Inside(tops) \subseteq DOMAIN widget
  BY DEF Inside
<1>2. ASSUME NEW x \in DOMAIN parent, parent[x] \in Inside(tops)
      PROVE  x \in Inside(tops)
  BY <1>2 DEF Inside, HoldsChildren, IInv, TypeInv
<1> QED
  BY <1>1, <1>2 DEF HoldsChildren

(* It is the least such set. *)
LEMMA InsideLeast ==
  ASSUME NEW tops, NEW S \in SUBSET DOMAIN widget, tops \subseteq S, HoldsChildren(S)
  PROVE  Inside(tops) \subseteq S
BY DEF Inside

(* What is inside and no top is in a panel that is inside. *)
LEMMA InsideParent ==
  ASSUME IInv, NEW tops \in SUBSET DOMAIN widget, NEW o \in Inside(tops), o \notin tops
  PROVE  parent[o] \in Inside(tops)
<1> SUFFICES ASSUME parent[o] \notin Inside(tops) PROVE FALSE
  OBVIOUS
<1> DEFINE S == Inside(tops) \ {o}
<1>1. S \in SUBSET DOMAIN widget /\ tops \subseteq S
  BY InsideClosed
<1>2. HoldsChildren(S)
  BY InsideClosed DEF HoldsChildren
<1>3. Inside(tops) \subseteq S
  BY <1>1, <1>2, InsideLeast
<1> QED
  BY <1>3

(* Registered controls and others are never inside each other. *)
LEMMA RegisteredClosed ==
  ASSUME IInv
  PROVE  /\ HoldsChildren({o \in DOMAIN widget : Registered(o)})
         /\ HoldsChildren({o \in DOMAIN widget : ~Registered(o)})
<1> SUFFICES ASSUME NEW o \in DOMAIN widget, parent[o] \in DOMAIN widget
             PROVE  Registered(o) <=> Registered(parent[o])
  BY DEF HoldsChildren, IInv, TypeInv
<1>1. parent[o] \notin {Root, OldRoot, NoParent}
  BY ControlAssumption DEF IInv, TypeInv
<1> QED
  BY <1>1 DEF IInv, RegistryMatchesTree

-------------------------------------------------------------------------------
(* Facts about the registry. *)

(* A registered control exists, and it is the one with that ID. *)
LEMMA KnownExists ==
  ASSUME IInv, NEW id, Known(id)
  PROVE  /\ controls[id] \in DOMAIN widget
         /\ widget[controls[id]].tag = id
         /\ widget[controls[id]] \in Widgets
         /\ Registered(controls[id])
         /\ Fits(controls[id], widget[controls[id]])
<1>1. controls[id] \in DOMAIN widget /\ widget[controls[id]].tag = id
  BY DEF IInv, RegistryMatchesTree, Known
<1> QED
  BY <1>1 DEF IInv, TypeInv, ValuesInRange, Fits, Registered

(* A registered log has a limit. *)
LEMMA Limited ==
  ASSUME IInv, NEW o \in DOMAIN widget, widget[o].kind = "LogList", Registered(o)
  PROVE  widget[o].tag \in DOMAIN logLimits /\ logLimits[widget[o].tag] \in Nat
<1>1. widget[o].tag \in Ids /\ KnownAs(widget[o].tag, {"LogList"})
  BY DEF IInv, TypeInv, Widgets, Registered, KnownAs
<1> QED
  BY <1>1 DEF IInv, TypeInv, RegistryMatchesTree

(* A control is within its bounds. *)
LEMMA Within ==
  ASSUME IInv, NEW o \in DOMAIN widget
  PROVE  widget[o] \in Widgets /\ Fits(o, widget[o]) /\ Placed(o)
<1>1. widget[o] \in Widgets
  BY DEF IInv, TypeInv
<1>2. Fits(o, widget[o])
  BY DEF IInv, ValuesInRange, Fits, Registered
<1>3. Placed(o)
  BY DEF IInv, RegistryMatchesTree, Placed
<1> QED
  BY <1>1, <1>2, <1>3

(* A change of one control that keeps its kind and ID and stays in its bounds. *)
LEMMA ChangeKeeps ==
  ASSUME IInv, NEW o \in DOMAIN widget, NEW w \in Widgets,
         w.kind = widget[o].kind, w.tag = widget[o].tag, Fits(o, w),
         widget' = [widget EXCEPT ![o] = w],
         UNCHANGED <<bound, failures, controls, logLimits, parent>>
  PROVE  IInv'
<1>1. DOMAIN widget' = DOMAIN widget
  OBVIOUS
<1>2. \A x \in DOMAIN widget : widget'[x].kind = widget[x].kind /\ widget'[x].tag = widget[x].tag
  OBVIOUS
<1>3. \A x \in DOMAIN widget : Registered(x)' <=> Registered(x)
  BY <1>1, <1>2 DEF Registered, Known
<1>4. TypeInv'
  <2>1. widget' \in [DOMAIN widget' -> Widgets]
    BY <1>1 DEF IInv, TypeInv
  <2> QED
    BY <1>1, <2>1 DEF IInv, TypeInv
<1>5. RegistryMatchesTree'
  <2>1. \A id \in DOMAIN controls' :
          controls'[id] \in DOMAIN widget' /\ widget'[controls'[id]].tag = id
    BY <1>1, <1>2 DEF IInv, RegistryMatchesTree
  <2>2. \A x \in DOMAIN widget' : Placed(x)'
    BY <1>1, <1>2, <1>3, Within DEF Placed
  <2>3. DOMAIN logLimits' = {id \in Ids : KnownAs(id, {"LogList"})'}
    <3>1. \A id : KnownAs(id, {"LogList"})' <=> KnownAs(id, {"LogList"})
      BY <1>2, KnownExists DEF KnownAs, Known
    <3> QED
      BY <3>1 DEF IInv, RegistryMatchesTree
  <2>4. failures' = 0 => \A x \in DOMAIN widget' : bound' /\ parent'[x] \notin {OldRoot, NoParent}
    BY <1>1 DEF IInv, RegistryMatchesTree
  <2> QED
    BY <2>1, <2>2, <2>3, <2>4 DEF RegistryMatchesTree, Placed
<1>6. ValuesInRange'
  <2>1. ASSUME NEW x \in DOMAIN widget, x # o PROVE Fits(x, widget[x])'
    <3>1. widget'[x] = widget[x] /\ Fits(x, widget[x])
      BY <2>1, Within
    <3> QED
      BY <3>1 DEF Fits, Known
  <2>2. Fits(o, widget[o])'
    BY DEF Fits, Known
  <2>3. \A x \in DOMAIN widget' : Fits(x, widget[x])'
    BY <1>1, <2>1, <2>2
  <2> QED
    BY <2>3 DEF ValuesInRange, Fits, Registered
<1> QED
  BY <1>4, <1>5, <1>6 DEF IInv

(* What a report leaves, a Click, and a step that stutters. *)
LEMMA SameKeeps ==
  ASSUME IInv, UNCHANGED <<bound, failures, controls, logLimits, widget, parent>>
  PROVE  IInv'
<1>1. TypeInv'
  BY DEF IInv, TypeInv
<1>2. \A x : Registered(x)' <=> Registered(x)
  BY DEF Registered, Known
<1>3. RegistryMatchesTree'
  <2>1. \A id : KnownAs(id, {"LogList"})' <=> KnownAs(id, {"LogList"})
    BY DEF KnownAs, Known
  <2> QED
    BY <1>2, <2>1 DEF IInv, RegistryMatchesTree
<1>4. ValuesInRange'
  BY <1>2 DEF IInv, ValuesInRange
<1> QED
  BY <1>1, <1>3, <1>4 DEF IInv

(* A disposed control keeps its kind and ID, and what is left of it is in bounds. *)
LEMMA DisposedFits ==
  ASSUME IInv, NEW o \in DOMAIN widget
  PROVE  /\ Disposed(widget[o]) \in Widgets /\ Fits(o, Disposed(widget[o]))
         /\ Disposed(widget[o]).kind = widget[o].kind /\ Disposed(widget[o]).tag = widget[o].tag
<1> DEFINE none == <<>>
           w == widget[o]
           d == [w EXCEPT !.items = none, !.selected = Unselected, !.rows = none]
<1>1. none \in ItemLists /\ none \in Seq(Lines) /\ Len(none) = 0
  BY ControlAssumption
<1>2. Disposed(w) = d
  BY DEF Disposed
<1> HIDE DEF none
<1>3. w \in Widgets /\ Fits(o, w)
  BY Within
<1> HIDE DEF w
<1>4. /\ d \in Widgets /\ d.kind = w.kind /\ d.tag = w.tag /\ d.rows = none
      /\ d.items = none /\ d.selected = Unselected
      /\ d.value = w.value /\ d.min = w.min /\ d.max = w.max
  <2>1. Unselected \in Int
    BY DEF Unselected
  <2> QED
    BY <1>1, <1>3, <2>1 DEF Widgets
<1> HIDE DEF d
<1>5. d.selected \in Unselected..(Len(d.items) - 1)
  BY <1>1, <1>4 DEF Unselected
<1>6. d.kind = "LogList" /\ Known(d.tag) /\ controls[d.tag] = o => Len(d.rows) <= logLimits[d.tag]
  <2> SUFFICES ASSUME d.kind = "LogList", Known(d.tag), controls[d.tag] = o
               PROVE  Len(d.rows) <= logLimits[d.tag]
    OBVIOUS
  <2>1. logLimits[d.tag] \in Nat
    BY <1>4, Limited DEF Registered, w
  <2> QED
    BY <1>1, <1>4, <2>1
<1>7. Fits(o, d)
  <2>1. d.kind = "Number" => d.value \in d.min..d.max
    BY <1>3, <1>4 DEF Fits
  <2> QED
    BY <1>5, <1>6, <2>1 DEF Fits
<1> QED
  BY <1>2, <1>4, <1>7 DEF w

(* Dispose takes controls out of the tree and leaves the bounds of the others. *)
LEMMA DisposeTree ==
  ASSUME IInv, NEW gone \in SUBSET DOMAIN widget, NEW kept \in SUBSET gone, Dispose(gone, kept)
  PROVE  /\ DOMAIN widget' = (DOMAIN widget \ gone) \cup kept /\ DOMAIN parent' = DOMAIN widget'
         /\ widget' \in [DOMAIN widget' -> Widgets]
         /\ \A o \in DOMAIN widget' :
              /\ widget'[o].kind = widget[o].kind /\ widget'[o].tag = widget[o].tag
              /\ Fits(o, widget'[o])
              /\ parent'[o] = IF o \in gone THEN NoParent ELSE parent[o]
<1> DEFINE stay == (DOMAIN widget \ gone) \cup kept
<1>1. PICK shown \in BOOLEAN :
        widget' = [o \in stay |-> IF o \in gone /\ shown THEN Disposed(widget[o]) ELSE widget[o]]
  BY DEF Dispose
<1>2. parent' = [o \in stay |-> IF o \in gone THEN NoParent ELSE parent[o]]
  BY DEF Dispose
<1>3. ASSUME NEW o \in stay
      PROVE  /\ widget'[o] \in Widgets /\ Fits(o, widget'[o])
             /\ widget'[o].kind = widget[o].kind /\ widget'[o].tag = widget[o].tag
  <2>1. widget'[o] = Disposed(widget[o]) \/ widget'[o] = widget[o]
    BY <1>1
  <2> QED
    BY <2>1, Within, DisposedFits
<1> QED
  BY <1>1, <1>2, <1>3

(* Controls go with what is inside them, and the registry loses their IDs, or keeps *)
(* those that an exception left in it.                                              *)
LEMMA DisposeKeeps ==
  ASSUME IInv, NEW gone \in SUBSET DOMAIN widget, NEW kept \in SUBSET gone, NEW ids,
         HoldsChildren(gone), Dispose(gone, kept),
         DOMAIN controls' = DOMAIN controls \ ids, DOMAIN logLimits' = DOMAIN logLimits \ ids,
         \A x \in DOMAIN controls' : controls'[x] = controls[x],
         \A x \in DOMAIN logLimits' : logLimits'[x] = logLimits[x],
         \A o \in kept : Registered(o),
         \A o \in DOMAIN widget : Registered(o) => (widget[o].tag \in ids <=> o \in gone \ kept),
         bound' \in BOOLEAN, failures' \in Nat,
         failures' = 0 => failures = 0 /\ bound' = bound /\ kept = {}
  PROVE  IInv'
<1>1. /\ DOMAIN widget' = (DOMAIN widget \ gone) \cup kept /\ DOMAIN parent' = DOMAIN widget'
      /\ widget' \in [DOMAIN widget' -> Widgets]
      /\ \A o \in DOMAIN widget' :
           /\ widget'[o].kind = widget[o].kind /\ widget'[o].tag = widget[o].tag
           /\ Fits(o, widget'[o])
           /\ parent'[o] = IF o \in gone THEN NoParent ELSE parent[o]
  BY DisposeTree
<1>2. DOMAIN widget' \subseteq DOMAIN widget
  BY <1>1
<1>3. \A o \in DOMAIN widget' : Registered(o)' <=> Registered(o)
  <2> SUFFICES ASSUME NEW o \in DOMAIN widget' PROVE Registered(o)' <=> Registered(o)
    OBVIOUS
  <2>1. o \in DOMAIN widget /\ o \notin gone \ kept /\ widget'[o].tag = widget[o].tag
    BY <1>1, <1>2
  <2> QED
    BY <2>1 DEF Registered, Known
<1>4. TypeInv'
  <2>1. \A x \in DOMAIN logLimits' : logLimits'[x] \in Nat
    BY DEF IInv, TypeInv
  <2> QED
    BY <1>1, <1>2, <2>1 DEF IInv, TypeInv
<1>5. \A x : Known(x)' => /\ Known(x) /\ controls'[x] = controls[x]
                          /\ controls[x] \in DOMAIN widget'
                          /\ widget'[controls[x]].kind = widget[controls[x]].kind
                          /\ widget'[controls[x]].tag = x
  <2> SUFFICES ASSUME NEW x, Known(x)'
               PROVE  /\ Known(x) /\ controls'[x] = controls[x]
                      /\ controls[x] \in DOMAIN widget'
                      /\ widget'[controls[x]].kind = widget[controls[x]].kind
                      /\ widget'[controls[x]].tag = x
    OBVIOUS
  <2>1. Known(x) /\ x \notin ids /\ controls'[x] = controls[x]
    BY DEF Known
  <2>2. /\ controls[x] \in DOMAIN widget /\ widget[controls[x]].tag = x
        /\ Registered(controls[x])
    BY <2>1, KnownExists
  <2>3. controls[x] \in DOMAIN widget'
    BY <1>1, <2>1, <2>2
  <2> QED
    BY <1>1, <2>1, <2>2, <2>3
<1>6. RegistryMatchesTree'
  <2>1. \A x \in DOMAIN controls' :
          controls'[x] \in DOMAIN widget' /\ widget'[controls'[x]].tag = x
    BY <1>5 DEF Known
  <2>2. ASSUME NEW o \in DOMAIN widget' PROVE Placed(o)'
    <3>1. CASE o \in gone
      <4>1. o \in kept /\ parent'[o] = NoParent /\ Registered(o)'
        BY <1>1, <1>3, <2>2, <3>1
      <4> QED
        BY <4>1 DEF Placed
    <3>2. CASE o \notin gone
      <4>1. o \in DOMAIN widget /\ parent'[o] = parent[o] /\ Placed(o)
        BY <1>1, <1>2, <2>2, <3>2, Within
      <4>2. parent[o] \notin gone
        BY <3>2, <4>1 DEF HoldsChildren, IInv, TypeInv
      <4>3. PICK q : q = parent[o]
        OBVIOUS
      <4>4. q \in DOMAIN widget =>
              /\ q \in DOMAIN widget' /\ widget'[q].kind = widget[q].kind
              /\ Registered(q)' <=> Registered(q)
        BY <1>1, <1>3, <4>2, <4>3
      <4>5. (Registered(o)' <=> Registered(o)) /\ parent'[o] = q
        BY <1>3, <2>2, <4>1, <4>3
      <4> QED
        BY <4>1, <4>3, <4>4, <4>5 DEF Placed
    <3> QED
      BY <3>1, <3>2
  <2>3. DOMAIN logLimits' = {x \in Ids : KnownAs(x, {"LogList"})'}
    <3>1. \A x : KnownAs(x, {"LogList"})' <=> KnownAs(x, {"LogList"}) /\ x \notin ids
      <4> SUFFICES ASSUME NEW x
                   PROVE KnownAs(x, {"LogList"})' <=> KnownAs(x, {"LogList"}) /\ x \notin ids
        OBVIOUS
      <4>1. Known(x)' <=> Known(x) /\ x \notin ids
        BY DEF Known
      <4> QED
        BY <1>5, <4>1 DEF KnownAs
    <3> QED
      BY <3>1 DEF IInv, RegistryMatchesTree
  <2>4. failures' = 0 => \A o \in DOMAIN widget' : bound' /\ parent'[o] \notin {OldRoot, NoParent}
    BY <1>1, <1>2 DEF IInv, RegistryMatchesTree
  <2> QED
    BY <2>1, <2>2, <2>3, <2>4 DEF RegistryMatchesTree, Placed
<1>7. ValuesInRange'
  <2>1. ASSUME NEW o \in DOMAIN widget' PROVE Fits(o, widget[o])'
    <3>1. Fits(o, widget'[o])
      BY <1>1
    <3>2. ASSUME widget'[o].kind = "LogList", Registered(o)'
          PROVE  /\ Known(widget'[o].tag) /\ controls[widget'[o].tag] = o
                 /\ logLimits'[widget'[o].tag] = logLimits[widget'[o].tag]
      <4>1. widget[o].kind = "LogList" /\ Registered(o) /\ widget'[o].tag = widget[o].tag
        BY <1>1, <1>3, <3>2
      <4>2. o \notin gone \ kept
        BY <1>1
      <4>3. widget[o].tag \in DOMAIN logLimits /\ widget[o].tag \notin ids
        BY <1>2, <4>1, <4>2, Limited
      <4> QED
        BY <4>1, <4>3 DEF Registered
    <3> QED
      BY <3>1, <3>2 DEF Fits, Registered
  <2> QED
    BY <2>1 DEF ValuesInRange, Fits, Registered
<1> QED
  BY <1>4, <1>6, <1>7 DEF IInv

(* Remove takes the ID of every control that goes, and of no other. *)
LEMMA RemoveKeeps ==
  ASSUME IInv, NEW id, RemoveControl(id)
  PROVE  IInv'
<1> DEFINE gone == Subtree(controls[id])
           ids  == Unregister(controls[id])
           known == {o \in DOMAIN widget : Registered(o)}
<1>1. controls[id] \in DOMAIN widget /\ Registered(controls[id])
  BY KnownExists DEF RemoveControl
<1>2. gone \subseteq DOMAIN widget /\ HoldsChildren(gone)
  BY <1>1, InsideClosed DEF Subtree
<1>3. gone \subseteq known
  <2>1. {controls[id]} \subseteq known /\ known \in SUBSET DOMAIN widget /\ HoldsChildren(known)
    BY <1>1, RegisteredClosed
  <2> HIDE DEF known
  <2> QED
    BY <2>1, InsideLeast DEF Subtree
<1>4. ids = {widget[x].tag : x \in gone}
  BY DEF Unregister
<1>5. /\ DOMAIN controls' = DOMAIN controls \ ids /\ DOMAIN logLimits' = DOMAIN logLimits \ ids
      /\ \A x \in DOMAIN controls' : controls'[x] = controls[x]
      /\ \A x \in DOMAIN logLimits' : logLimits'[x] = logLimits[x]
  BY DEF RemoveControl, Remaining
<1>6. Dispose(gone, {}) /\ bound' = bound /\ failures' = failures
  BY DEF RemoveControl, session
<1>7. \A o \in DOMAIN widget : Registered(o) => (widget[o].tag \in ids <=> o \in gone \ {})
  BY <1>3, <1>4 DEF Registered
<1> HIDE DEF gone, ids, known
<1>8. gone \in SUBSET DOMAIN widget /\ {} \in SUBSET gone
  BY <1>2
<1>9. bound' \in BOOLEAN /\ failures' \in Nat
  BY <1>6 DEF IInv, TypeInv
<1> QED
  BY <1>2, <1>5, <1>6, <1>7, <1>8, <1>9, DisposeKeeps

(* What an exception, or ACT with its page, leaves in the registry. *)
LEMMA DisposeOnlyKeeps ==
  ASSUME IInv, NEW tops \in SUBSET DOMAIN widget, DisposeOnly(Inside(tops)),
         bound' \in BOOLEAN, failures' \in Nat, failures' # 0
  PROVE  IInv'
<1> DEFINE gone == Inside(tops)
           kept == {o \in gone : Registered(o)}
           ids  == {}
<1>1. gone \in SUBSET DOMAIN widget /\ kept \in SUBSET gone /\ HoldsChildren(gone)
  BY InsideClosed
<1>2. Dispose(gone, kept) /\ controls' = controls /\ logLimits' = logLimits
  BY DEF DisposeOnly, registry
<1>3. /\ \A o \in kept : Registered(o)
      /\ \A o \in DOMAIN widget : Registered(o) => (widget[o].tag \in ids <=> o \in gone \ kept)
  OBVIOUS
<1>4. /\ DOMAIN controls' = DOMAIN controls \ ids /\ DOMAIN logLimits' = DOMAIN logLimits \ ids
      /\ \A x \in DOMAIN controls' : controls'[x] = controls[x]
      /\ \A x \in DOMAIN logLimits' : logLimits'[x] = logLimits[x]
  BY <1>2
<1> HIDE DEF gone, kept, ids
<1> QED
  BY <1>1, <1>2, <1>3, <1>4, DisposeKeeps

(* Clear, and a Cleanup that gets that far: what is left is on the panel of an *)
(* earlier session, and only after a Cleanup that has thrown.                  *)
LEMMA EmptyKeeps ==
  ASSUME IInv, NEW by, Empty(by), bound' \in BOOLEAN, failures' \in Nat,
         failures' = 0 => failures = 0
  PROVE  IInv'
<1> DEFINE tops == Children({OldRoot})
           old  == Inside(tops)
           gone == DOMAIN widget \ old
<1>1. tops \in SUBSET DOMAIN widget
  BY DEF Children
<1>2. old \subseteq DOMAIN widget /\ HoldsChildren(old)
  BY <1>1, InsideClosed
<1>3. \A o \in old : parent[o] = OldRoot \/ parent[o] \in old
  BY <1>1, InsideParent DEF Children
<1>4. DOMAIN controls' = {} /\ DOMAIN logLimits' = {} /\ Dispose(gone, {})
  BY DEF Empty
<1>5. failures = 0 => old = {}
  <2> SUFFICES ASSUME failures = 0 PROVE old = {}
    OBVIOUS
  <2>1. tops \subseteq {} /\ {} \in SUBSET DOMAIN widget /\ HoldsChildren({})
    BY DEF Children, HoldsChildren, IInv, RegistryMatchesTree
  <2> QED
    BY <2>1, InsideLeast
<1> HIDE DEF tops, old
<1>6. gone \in SUBSET DOMAIN widget /\ {} \in SUBSET gone
  BY <1>2
<1>7. /\ DOMAIN widget' = (DOMAIN widget \ gone) \cup {} /\ DOMAIN parent' = DOMAIN widget'
      /\ widget' \in [DOMAIN widget' -> Widgets]
      /\ \A o \in DOMAIN widget' :
           /\ widget'[o].kind = widget[o].kind /\ widget'[o].tag = widget[o].tag
           /\ Fits(o, widget'[o])
           /\ parent'[o] = IF o \in gone THEN NoParent ELSE parent[o]
  BY <1>4, <1>6, DisposeTree
<1>8. DOMAIN widget' = old /\ \A o \in old : parent'[o] = parent[o]
  BY <1>2, <1>7
<1>9. \A x : ~Known(x)'
  BY <1>4 DEF Known
<1>10. TypeInv'
  BY <1>2, <1>4, <1>7, <1>8 DEF IInv, TypeInv
<1>11. RegistryMatchesTree'
  <2>1. ASSUME NEW o \in DOMAIN widget' PROVE Placed(o)'
    <3>1. parent'[o] = parent[o] /\ o \in old /\ o \in DOMAIN widget
      BY <1>2, <1>8, <2>1
    <3>2. CASE parent[o] = OldRoot
      BY <3>1, <3>2 DEF Placed
    <3>3. CASE parent[o] \in old
      <4>1. parent[o] \in DOMAIN widget /\ parent[o] \in DOMAIN widget' /\ Placed(o)
        BY <1>2, <1>8, <3>1, <3>3, Within
      <4>2. parent[o] \notin {Root, OldRoot, NoParent}
        BY <4>1, ControlAssumption DEF IInv, TypeInv
      <4>3. widget[parent[o]].kind \in Panels
        BY <4>1, <4>2 DEF Placed
      <4>4. widget'[parent'[o]].kind \in Panels
        BY <1>7, <3>1, <4>1, <4>3
      <4> QED
        BY <1>9, <3>1, <4>1, <4>4 DEF Placed, Registered
    <3> QED
      BY <1>3, <3>1, <3>2, <3>3
  <2>2. DOMAIN logLimits' = {x \in Ids : KnownAs(x, {"LogList"})'}
    BY <1>4, <1>9 DEF KnownAs
  <2>3. failures' = 0 => DOMAIN widget' = {}
    BY <1>5, <1>8
  <2> QED
    BY <1>4, <2>1, <2>2, <2>3 DEF RegistryMatchesTree, Placed
<1>12. ValuesInRange'
  <2>1. \A o \in DOMAIN widget' : ~Registered(o)'
    BY <1>9 DEF Registered
  <2> QED
    BY <1>7, <2>1 DEF ValuesInRange, Fits
<1> QED
  BY <1>10, <1>11, <1>12 DEF IInv

(* A control that is added is a new one, with the bounds Decode let through. *)
LEMMA AddKeeps ==
  ASSUME IInv, NEW id \in Ids, NEW p \in Ids \cup {NoParent},
         NEW spec \in Addable(id, p), Add(id, p, spec)
  PROVE  IInv'
<1> DEFINE w == [kind |-> spec.kind, tag |-> id, enabled |-> TRUE, text |-> spec.text,
                 checked |-> spec.checked, items |-> spec.items, selected |-> spec.selected,
                 min |-> spec.min, max |-> spec.max, value |-> spec.value, rows |-> <<>>]
<1>0. PICK n, place : n = New(id) /\ place = IF p = NoParent THEN Root ELSE controls[p]
  OBVIOUS
<1>1. /\ spec \in [kind : STRING, text : Texts, checked : BOOLEAN, items : ItemLists,
                   selected : Indexes, min : Int, max : Int, value : Int, maxRows : Nat]
      /\ DecodeAccepts(spec) /\ CanAdd(id, p, spec)
  BY ControlAssumption DEF Addable, Accepted
<1>2. w \in Widgets /\ Len(w.items) \in Nat /\ w.selected >= Unselected
  BY <1>1, ControlAssumption DEF Widgets
<1>3. n \in Objects /\ n \notin DOMAIN widget
  <2>1. New(id) \in Unused(id)
    BY DEF Add, New
  <2> QED
    BY <1>0, <2>1 DEF Unused
<1>4. ~Known(id)
  BY <1>1 DEF CanAdd
<1>5. /\ DOMAIN widget' = DOMAIN widget \cup {n} /\ DOMAIN parent' = DOMAIN widget'
      /\ widget'[n] = w /\ parent'[n] = place
      /\ \A o \in DOMAIN widget : widget'[o] = widget[o] /\ parent'[o] = parent[o]
  BY <1>0, <1>3 DEF Add, With, IInv, TypeInv
<1>6. /\ DOMAIN controls' = DOMAIN controls \cup {id} /\ controls'[id] = n
      /\ \A x \in DOMAIN controls : x # id /\ controls'[x] = controls[x]
  BY <1>0, <1>4 DEF Add, With, Known
<1>7. /\ DOMAIN logLimits' = DOMAIN logLimits \cup (IF spec.kind = "LogList" THEN {id} ELSE {})
      /\ spec.kind = "LogList" => logLimits'[id] = spec.maxRows
      /\ \A x \in DOMAIN logLimits : logLimits'[x] = logLimits[x]
  BY <1>1 DEF Add, With, CanAdd
<1>8. /\ place # Root => /\ place \in DOMAIN widget /\ widget[place].kind \in Panels
                         /\ Registered(place)
      /\ place \notin {OldRoot, NoParent}
  <2>1. CASE p = NoParent
    BY <1>0, <2>1, ControlAssumption
  <2>2. CASE p # NoParent
    <3>1. KnownAs(p, Panels)
      BY <1>1, <2>2 DEF CanAdd
    <3>2. /\ controls[p] \in DOMAIN widget /\ widget[controls[p]].kind \in Panels
          /\ Registered(controls[p])
      BY <3>1, KnownExists DEF KnownAs
    <3> QED
      BY <1>0, <2>2, <3>2, ControlAssumption DEF IInv, TypeInv
  <2> QED
    BY <2>1, <2>2
<1>9. w.kind = spec.kind /\ w.tag = id
  OBVIOUS
<1>10. bound' = bound /\ failures' = failures /\ bound
  BY DEF Add, session
<1>11. \A o \in DOMAIN widget : Registered(o)' <=> Registered(o)
  <2> SUFFICES ASSUME NEW o \in DOMAIN widget PROVE Registered(o)' <=> Registered(o)
    OBVIOUS
  <2>1. widget'[o].tag = widget[o].tag /\ o # n
    BY <1>3, <1>5
  <2> QED
    BY <1>4, <1>6, <2>1 DEF Registered, Known
<1>12. Registered(n)'
  BY <1>5, <1>6 DEF Registered, Known
<1>13. TypeInv'
  <2>1. \A o \in DOMAIN widget' : widget'[o] \in Widgets
    BY <1>2, <1>5 DEF IInv, TypeInv
  <2>2. widget' = [o \in DOMAIN widget' |-> widget'[o]]
    BY DEF Add, With
  <2>3. \A x \in DOMAIN logLimits' : logLimits'[x] \in Nat
    BY <1>1, <1>7 DEF IInv, TypeInv
  <2> HIDE DEF w
  <2>4. widget' \in [DOMAIN widget' -> Widgets]
    BY <2>1, <2>2
  <2> QED
    BY <1>3, <1>5, <1>10, <2>3, <2>4 DEF IInv, TypeInv
<1> HIDE DEF w
<1>14. RegistryMatchesTree'
  <2>1. \A x \in DOMAIN controls' :
          controls'[x] \in DOMAIN widget' /\ widget'[controls'[x]].tag = x
    BY <1>5, <1>6, <1>9 DEF IInv, RegistryMatchesTree
  <2>2. ASSUME NEW o \in DOMAIN widget' PROVE Placed(o)'
    <3>1. CASE o \in DOMAIN widget
      <4>1. Placed(o) /\ parent'[o] = parent[o] /\ (Registered(o)' <=> Registered(o))
        BY <1>5, <1>11, <3>1, Within
      <4>2. PICK q : q = parent[o]
        OBVIOUS
      <4>3. q \in DOMAIN widget =>
              /\ q \in DOMAIN widget' /\ widget'[q] = widget[q]
              /\ Registered(q)' <=> Registered(q)
        BY <1>5, <1>11
      <4> QED
        BY <4>1, <4>2, <4>3 DEF Placed
    <3>2. CASE o = n
      <4>1. CASE place = Root
        BY <1>5, <1>12, <3>2, <4>1 DEF Placed
      <4>2. CASE place # Root
        <5>1. /\ place \in DOMAIN widget' /\ widget'[place].kind \in Panels
              /\ place \in DOMAIN widget /\ Registered(place)
          BY <1>5, <1>8, <4>2
        <5>2. parent'[n] = place
          BY <1>5
        <5>3. Registered(place)'
          BY <1>11, <5>1
        <5> QED
          BY <1>12, <3>2, <5>1, <5>2, <5>3 DEF Placed
      <4> QED
        BY <4>1, <4>2
    <3> QED
      BY <1>5, <2>2, <3>1, <3>2
  <2>3. DOMAIN logLimits' = {x \in Ids : KnownAs(x, {"LogList"})'}
    <3>1. KnownAs(id, {"LogList"})' <=> spec.kind = "LogList"
      BY <1>5, <1>6, <1>9 DEF KnownAs, Known
    <3>2. \A x \in Ids : x # id => (KnownAs(x, {"LogList"})' <=> KnownAs(x, {"LogList"}))
      <4> SUFFICES ASSUME NEW x \in Ids, x # id
                   PROVE  KnownAs(x, {"LogList"})' <=> KnownAs(x, {"LogList"})
        OBVIOUS
      <4>1. Known(x)' <=> Known(x)
        BY <1>6 DEF Known
      <4>2. Known(x) => widget'[controls'[x]] = widget[controls[x]]
        BY <1>5, <1>6, KnownExists DEF Known
      <4> QED
        BY <4>1, <4>2 DEF KnownAs
    <3>3. ~KnownAs(id, {"LogList"})
      BY <1>4 DEF KnownAs
    <3> QED
      BY <1>7, <3>1, <3>2, <3>3 DEF IInv, RegistryMatchesTree
  <2>4. failures' = 0 => \A o \in DOMAIN widget' : bound' /\ parent'[o] \notin {OldRoot, NoParent}
    BY <1>5, <1>8, <1>10 DEF IInv, RegistryMatchesTree
  <2> QED
    BY <2>1, <2>2, <2>3, <2>4 DEF RegistryMatchesTree, Placed
<1>15. ValuesInRange'
  <2>1. ASSUME NEW o \in DOMAIN widget PROVE Fits(o, widget[o])'
    <3>1. widget'[o] = widget[o] /\ Fits(o, widget[o]) /\ (Registered(o)' <=> Registered(o))
      BY <1>5, <1>11, Within
    <3>2. widget[o].kind = "LogList" /\ Registered(o) =>
            logLimits'[widget[o].tag] = logLimits[widget[o].tag]
      BY <1>7, Limited
    <3> QED
      BY <3>1, <3>2 DEF Fits, Registered
  <2>2. Fits(n, widget[n])'
    <3>1. /\ w.value = spec.value /\ w.min = spec.min /\ w.max = spec.max /\ w.items = spec.items
          /\ w.selected = spec.selected /\ Len(w.rows) = 0
      BY DEF w
    <3>2. w.value \in w.min..w.max /\ w.selected \in Unselected..(Len(w.items) - 1)
      BY <1>1, <1>2, <3>1, ControlAssumption DEF DecodeAccepts, Unselected
    <3>3. w.kind = "LogList" => Len(w.rows) <= logLimits'[w.tag]
      BY <1>1, <1>7, <1>9, <3>1
    <3> QED
      BY <1>5, <3>2, <3>3 DEF Fits
  <2>3. \A o \in DOMAIN widget' : Fits(o, widget[o])'
    BY <1>5, <2>1, <2>2
  <2> QED
    BY <2>3 DEF ValuesInRange, Fits, Registered
<1> QED
  BY <1>13, <1>14, <1>15 DEF IInv

(* A command on one control that keeps its kind and ID and fits its bounds. *)
LEMMA SetKeeps ==
  ASSUME IInv, NEW id, Known(id), NEW w \in Widgets, NEW by,
         w.kind = widget[controls[id]].kind, w.tag = id, Fits(controls[id], w),
         Change(controls[id], w, by)
  PROVE  IInv'
<1>1. controls[id] \in DOMAIN widget /\ widget[controls[id]].tag = id
  BY KnownExists
<1> QED
  BY <1>1, ChangeKeeps DEF Change, session, registry

-------------------------------------------------------------------------------
(* The commands and the user, one step each. *)

LEMMA ReportKeeps ==
  ASSUME IInv, NEW id, Report(id)
  PROVE  IInv'
BY SameKeeps DEF Report, session, registry, tree

LEMMA SetTextKeeps ==
  ASSUME IInv, NEW id, NEW text \in Texts, SetText(id, text)
  PROVE  IInv'
<1> DEFINE kinds == {"Label", "Button", "CheckBox", "TextBox"}
           w == [widget[controls[id]] EXCEPT !.text = text]
<1>1. CASE KnownAs(id, kinds)
  <2>1. Known(id) /\ Change(controls[id], w, "command")
    BY <1>1 DEF SetText, KnownAs
  <2>2. w \in Widgets /\ w.kind = widget[controls[id]].kind /\ w.tag = id /\ Fits(controls[id], w)
    BY <2>1, KnownExists DEF Widgets, Fits
  <2> QED
    BY <2>1, <2>2, SetKeeps
<1>2. CASE ~KnownAs(id, kinds)
  BY <1>2, ReportKeeps DEF SetText
<1> QED
  BY <1>1, <1>2

LEMMA SetEnabledKeeps ==
  ASSUME IInv, NEW id, NEW value \in BOOLEAN, SetEnabled(id, value)
  PROVE  IInv'
<1> DEFINE w == [widget[controls[id]] EXCEPT !.enabled = value]
<1>1. CASE Known(id)
  <2>1. Change(controls[id], w, "command")
    BY <1>1 DEF SetEnabled
  <2>2. w \in Widgets /\ w.kind = widget[controls[id]].kind /\ w.tag = id /\ Fits(controls[id], w)
    BY <1>1, KnownExists DEF Widgets, Fits
  <2> QED
    BY <1>1, <2>1, <2>2, SetKeeps
<1>2. CASE ~Known(id)
  BY <1>2, ReportKeeps DEF SetEnabled
<1> QED
  BY <1>1, <1>2

LEMMA SetCheckedKeeps ==
  ASSUME IInv, NEW id, NEW value \in BOOLEAN, SetChecked(id, value)
  PROVE  IInv'
<1> DEFINE w == [widget[controls[id]] EXCEPT !.checked = value]
<1>1. CASE KnownAs(id, {"CheckBox"})
  <2>1. Known(id) /\ Change(controls[id], w, "command")
    BY <1>1 DEF SetChecked, KnownAs
  <2>2. w \in Widgets /\ w.kind = widget[controls[id]].kind /\ w.tag = id /\ Fits(controls[id], w)
    BY <2>1, KnownExists DEF Widgets, Fits
  <2> QED
    BY <2>1, <2>2, SetKeeps
<1>2. CASE ~KnownAs(id, {"CheckBox"})
  BY <1>2, ReportKeeps DEF SetChecked
<1> QED
  BY <1>1, <1>2

(* Decode let the items and the selection through, so the selection is one of them. *)
LEMMA ItemsFit ==
  ASSUME NEW spec \in ItemSpecs, DecodeAccepts(spec)
  PROVE  /\ spec.items \in ItemLists /\ Len(spec.items) \in Nat
         /\ spec.selected \in Unselected..(Len(spec.items) - 1) /\ spec.selected \in Int
         /\ spec.selected < Len(spec.items)
<1>1. PICK items \in ItemLists, i \in Indexes : spec = ItemSpec(items, i)
  BY DEF ItemSpecs
<1>2. spec.items = items /\ spec.selected = i
  BY <1>1 DEF ItemSpec, Blank
<1>3. i < Len(items)
  BY <1>2 DEF DecodeAccepts
<1> QED
  BY <1>2, <1>3, ControlAssumption DEF Unselected

LEMMA SetItemsKeeps ==
  ASSUME IInv, NEW id, NEW spec \in ItemSpecs, DecodeAccepts(spec), SetItems(id, spec)
  PROVE  IInv'
<1> DEFINE w == [widget[controls[id]] EXCEPT !.items = spec.items, !.selected = spec.selected]
<1>1. CASE KnownAs(id, {"ComboBox"})
  <2>1. Known(id) /\ Change(controls[id], w, "command")
    BY <1>1, ItemsFit DEF SetItems, KnownAs
  <2>2. w \in Widgets /\ w.kind = widget[controls[id]].kind /\ w.tag = id /\ Fits(controls[id], w)
    BY <2>1, KnownExists, ItemsFit DEF Widgets, Fits
  <2> QED
    BY <2>1, <2>2, SetKeeps
<1>2. CASE ~KnownAs(id, {"ComboBox"})
  BY <1>2, ReportKeeps DEF SetItems
<1> QED
  BY <1>1, <1>2

LEMMA SetSelectedKeeps ==
  ASSUME IInv, NEW id, NEW i \in Indexes, SetSelected(id, i)
  PROVE  IInv'
<1> DEFINE w == [widget[controls[id]] EXCEPT !.selected = i]
           fits == KnownAs(id, {"ComboBox"}) /\ i < Len(widget[controls[id]].items)
<1>1. CASE fits
  <2>1. Known(id) /\ Change(controls[id], w, "command")
    BY <1>1 DEF SetSelected, KnownAs
  <2>2. Len(widget[controls[id]].items) \in Nat
    BY <2>1, KnownExists, ControlAssumption DEF Widgets
  <2>3. i \in Int /\ i \in Unselected..(Len(widget[controls[id]].items) - 1)
    BY <1>1, <2>2, ControlAssumption DEF Unselected
  <2>4. w \in Widgets /\ w.kind = widget[controls[id]].kind /\ w.tag = id /\ Fits(controls[id], w)
    BY <2>1, <2>3, KnownExists DEF Widgets, Fits
  <2> QED
    BY <2>1, <2>4, SetKeeps
<1>2. CASE ~fits
  BY <1>2, ReportKeeps DEF SetSelected
<1> QED
  BY <1>1, <1>2

LEMMA SetNumberKeeps ==
  ASSUME IInv, NEW id, NEW n, SetNumber(id, n)
  PROVE  IInv'
<1> DEFINE w == [widget[controls[id]] EXCEPT !.value = n]
           fits == /\ KnownAs(id, {"Number"})
                   /\ n \in widget[controls[id]].min..widget[controls[id]].max
<1>1. CASE fits
  <2>1. Known(id) /\ Change(controls[id], w, "command")
    BY <1>1 DEF SetNumber, KnownAs
  <2>2. w \in Widgets /\ w.kind = widget[controls[id]].kind /\ w.tag = id /\ Fits(controls[id], w)
    BY <1>1, <2>1, KnownExists DEF Widgets, Fits
  <2> QED
    BY <2>1, <2>2, SetKeeps
<1>2. CASE ~fits
  BY <1>2, ReportKeeps DEF SetNumber
<1> QED
  BY <1>1, <1>2

(* The oldest row goes once the limit is reached. *)
LEMMA TrimmedFits ==
  ASSUME NEW rows \in Seq(Lines), NEW line \in Lines, NEW limit \in Nat, Len(rows) <= limit
  PROVE  Trimmed(rows, line, limit) \in Seq(Lines) /\ Len(Trimmed(rows, line, limit)) <= limit
<1>1. Append(rows, line) \in Seq(Lines) /\ Len(Append(rows, line)) = Len(rows) + 1
  OBVIOUS
<1>2. /\ Tail(Append(rows, line)) \in Seq(Lines)
      /\ Len(Tail(Append(rows, line))) = Len(rows)
  BY <1>1
<1> QED
  BY <1>1, <1>2 DEF Trimmed

LEMMA AppendLogKeeps ==
  ASSUME IInv, NEW id \in Ids, NEW line \in Lines, AppendLog(id, line)
  PROVE  IInv'
<1> DEFINE o == widget[controls[id]]
           w == [o EXCEPT !.rows = Trimmed(@, line, logLimits[id])]
<1>1. CASE KnownAs(id, {"LogList"})
  <2>1. Known(id) /\ Change(controls[id], w, "command")
    BY <1>1 DEF AppendLog, KnownAs
  <2>2. logLimits[id] \in Nat
    BY <1>1 DEF IInv, TypeInv, RegistryMatchesTree
  <2>3. o \in Widgets /\ o.tag = id /\ Len(o.rows) <= logLimits[id] /\ Fits(controls[id], o)
    BY <1>1, <2>1, KnownExists DEF KnownAs, Fits
  <2>4. /\ Trimmed(o.rows, line, logLimits[id]) \in Seq(Lines)
        /\ Len(Trimmed(o.rows, line, logLimits[id])) <= logLimits[id]
    BY <2>2, <2>3, TrimmedFits DEF Widgets
  <2>5. w \in Widgets /\ w.kind = o.kind /\ w.tag = id /\ Fits(controls[id], w)
    BY <2>3, <2>4 DEF Widgets, Fits
  <2> QED
    BY <2>1, <2>5, SetKeeps
<1>2. CASE ~KnownAs(id, {"LogList"})
  BY <1>2, ReportKeeps DEF AppendLog
<1> QED
  BY <1>1, <1>2

LEMMA ClearLogKeeps ==
  ASSUME IInv, NEW id \in Ids, ClearLog(id)
  PROVE  IInv'
<1> DEFINE none == <<>>
           w == [widget[controls[id]] EXCEPT !.rows = none]
<1>1. CASE KnownAs(id, {"LogList"})
  <2>1. Known(id) /\ Change(controls[id], w, "command")
    BY <1>1 DEF ClearLog, KnownAs
  <2>2. logLimits[id] \in Nat
    BY <1>1 DEF IInv, TypeInv, RegistryMatchesTree
  <2>6. none \in Seq(Lines) /\ Len(none) = 0
    OBVIOUS
  <2> HIDE DEF none
  <2>3. w \in Widgets /\ w.kind = widget[controls[id]].kind /\ w.tag = id /\ w.rows = none
    BY <2>1, <2>6, KnownExists DEF Widgets
  <2>4. /\ w.kind = "Number" => w.value \in w.min..w.max
        /\ w.selected \in Unselected..(Len(w.items) - 1)
    BY <2>1, KnownExists DEF Fits, Widgets
  <2>5. Fits(controls[id], w)
    BY <2>2, <2>3, <2>4, <2>6 DEF Fits
  <2> QED
    BY <2>1, <2>3, <2>5, SetKeeps
<1>2. CASE ~KnownAs(id, {"LogList"})
  BY <1>2, ReportKeeps DEF ClearLog
<1> QED
  BY <1>1, <1>2

LEMMA UserKeeps ==
  ASSUME IInv, NEW o \in DOMAIN widget, User(o)
  PROVE  IInv'
<1>1. widget[o] \in Widgets /\ Fits(o, widget[o])
  BY Within
<1>2. CASE Click(o)
  BY <1>2, SameKeeps DEF Click, session, registry, tree
<1>3. ASSUME NEW w \in Widgets, w.kind = widget[o].kind, w.tag = widget[o].tag, Fits(o, w),
             Change(o, w, "user")
      PROVE  IInv'
  BY <1>3, ChangeKeeps DEF Change, session, registry
<1>4. CASE Toggle(o)
  <2> DEFINE w == [widget[o] EXCEPT !.checked = ~@]
  <2>1. w \in Widgets /\ w.kind = widget[o].kind /\ w.tag = widget[o].tag /\ Fits(o, w)
    BY <1>1 DEF Widgets, Fits
  <2> QED
    BY <1>3, <1>4, <2>1 DEF Toggle
<1>5. ASSUME NEW text \in Texts, Edit(o, text)
      PROVE  IInv'
  <2> DEFINE w == [widget[o] EXCEPT !.text = text]
  <2>1. w \in Widgets /\ w.kind = widget[o].kind /\ w.tag = widget[o].tag /\ Fits(o, w)
    BY <1>1, <1>5 DEF Widgets, Fits
  <2> QED
    BY <1>3, <1>5, <2>1 DEF Edit
<1>6. ASSUME NEW i \in Indexes, Choose(o, i)
      PROVE  IInv'
  <2> DEFINE w == [widget[o] EXCEPT !.selected = i]
  <2>1. i \in 0..(Len(widget[o].items) - 1) /\ Len(widget[o].items) \in Nat
    BY <1>1, <1>6, ControlAssumption DEF Choose, Widgets
  <2>2. w \in Widgets /\ w.kind = widget[o].kind /\ w.tag = widget[o].tag /\ Fits(o, w)
    BY <1>1, <2>1 DEF Widgets, Fits, Unselected
  <2> QED
    BY <1>3, <1>6, <2>2 DEF Choose
<1>7. ASSUME NEW n \in Numbers, Spin(o, n)
      PROVE  IInv'
  <2> DEFINE w == [widget[o] EXCEPT !.value = n]
  <2>1. n \in widget[o].min..widget[o].max
    BY <1>7 DEF Spin
  <2>2. w \in Widgets /\ w.kind = widget[o].kind /\ w.tag = widget[o].tag /\ Fits(o, w)
    BY <1>1, <2>1 DEF Widgets, Fits
  <2> QED
    BY <1>3, <1>7, <2>2 DEF Spin
<1> QED
  BY <1>2, <1>4, <1>5, <1>6, <1>7 DEF User

-------------------------------------------------------------------------------
(* The invariant. *)

LEMMA InitIInv == Init => IInv
<1> SUFFICES ASSUME Init PROVE IInv
  OBVIOUS
<1>1. DOMAIN widget = {} /\ DOMAIN parent = {} /\ DOMAIN controls = {} /\ DOMAIN logLimits = {}
  BY DEF Init
<1>2. TypeInv
  <2>1. widget \in [DOMAIN widget -> Widgets]
    BY <1>1 DEF Init
  <2> QED
    BY <1>1, <2>1 DEF TypeInv, Init
<1>3. RegistryMatchesTree
  BY <1>1 DEF RegistryMatchesTree, KnownAs, Known
<1>4. ValuesInRange
  BY <1>1 DEF ValuesInRange
<1> QED
  BY <1>2, <1>3, <1>4 DEF IInv

(* Bind makes a new root, and finds an empty tab unless a Cleanup has thrown. *)
LEMMA BindKeeps ==
  ASSUME IInv, Bind
  PROVE  IInv'
<1>1. /\ UNCHANGED <<failures, controls, logLimits, widget>> /\ bound' = TRUE /\ ~bound
      /\ parent' = [o \in DOMAIN parent |-> IF parent[o] = Root THEN OldRoot ELSE parent[o]]
  BY DEF Bind, registry
<1>2. TypeInv'
  BY <1>1 DEF IInv, TypeInv
<1>3. \A x : Registered(x)' <=> Registered(x)
  BY <1>1 DEF Registered, Known
<1>4. RegistryMatchesTree'
  <2>1. \A x : KnownAs(x, {"LogList"})' <=> KnownAs(x, {"LogList"})
    BY <1>1 DEF KnownAs, Known
  <2>2. ASSUME NEW o \in DOMAIN widget' PROVE Placed(o)'
    <3>1. o \in DOMAIN widget /\ o \in DOMAIN parent /\ Placed(o)
      BY <1>1, <2>2, Within DEF IInv, TypeInv
    <3>2. CASE parent[o] = Root
      BY <1>1, <3>1, <3>2 DEF Placed
    <3>3. CASE parent[o] # Root
      <4>1. parent'[o] = parent[o]
        BY <1>1, <3>1, <3>3
      <4> QED
        BY <1>1, <1>3, <3>1, <4>1 DEF Placed
    <3> QED
      BY <3>2, <3>3
  <2>3. failures' = 0 => DOMAIN widget' = {}
    BY <1>1 DEF IInv, RegistryMatchesTree
  <2> QED
    BY <1>1, <2>1, <2>2, <2>3 DEF IInv, RegistryMatchesTree, Placed
<1>5. ValuesInRange'
  BY <1>1, <1>3 DEF IInv, ValuesInRange
<1> QED
  BY <1>2, <1>4, <1>5 DEF IInv

(* A Cleanup that throws, and a page that ACT disposes when its session is over. *)
LEMMA CleanupFailsKeeps ==
  ASSUME IInv, CleanupFails
  PROVE  IInv'
<1>1. bound' = FALSE /\ failures' \in Nat /\ failures' # 0
  <2>1. failures \in Nat
    BY DEF IInv, TypeInv
  <2>2. bound' = FALSE /\ failures' = failures + 1
    BY DEF CleanupFails
  <2> QED
    BY <2>1, <2>2
<1>2. CASE Empty("host")
  BY <1>1, <1>2, EmptyKeeps
<1>3. ASSUME NEW tops \in SUBSET Children({Root}), DisposeOnly(Inside(tops)) PROVE IInv'
  <2>1. tops \in SUBSET DOMAIN widget
    BY DEF Children
  <2> QED
    BY <1>1, <1>3, <2>1, DisposeOnlyKeeps
<1> QED
  BY <1>2, <1>3 DEF CleanupFails

LEMMA PageDisposedKeeps ==
  ASSUME IInv, NEW place \in {Root, OldRoot}, PageDisposed(place)
  PROVE  IInv'
<1>1. PICK o \in DOMAIN widget : parent[o] = place
  BY DEF PageDisposed, Children
<1>2. bound' \in BOOLEAN /\ failures' \in Nat /\ failures' # 0
  BY <1>1 DEF PageDisposed, session, IInv, TypeInv, RegistryMatchesTree
<1>3. Children({place}) \in SUBSET DOMAIN widget /\ DisposeOnly(Inside(Children({place})))
  BY DEF Children, PageDisposed
<1> QED
  BY <1>2, <1>3, DisposeOnlyKeeps

(* What one command does, whichever it is. *)
LEMMA CommandKeeps ==
  ASSUME IInv, NEW id \in Ids, Command(id)
  PROVE  IInv'
<1>1. ASSUME NEW p \in Ids \cup {NoParent}, NEW spec \in Addable(id, p), Add(id, p, spec)
      PROVE  IInv'
  BY <1>1, AddKeeps
<1>2. ASSUME NEW p, AddFails(id, p) PROVE IInv'
  BY <1>2, ReportKeeps DEF AddFails
<1>3. CASE RemoveControl(id)
  BY <1>3, RemoveKeeps
<1>4. CASE RemoveFails(id)
  BY <1>4, ReportKeeps DEF RemoveFails
<1>5. ASSUME NEW text \in Texts, SetText(id, text) PROVE IInv'
  BY <1>5, SetTextKeeps
<1>6. ASSUME NEW value \in BOOLEAN, SetEnabled(id, value) PROVE IInv'
  BY <1>6, SetEnabledKeeps
<1>7. ASSUME NEW value \in BOOLEAN, SetChecked(id, value) PROVE IInv'
  BY <1>7, SetCheckedKeeps
<1>8. ASSUME NEW spec \in {s \in ItemSpecs : DecodeAccepts(s)}, SetItems(id, spec) PROVE IInv'
  BY <1>8, SetItemsKeeps
<1>9. ASSUME NEW i \in Indexes, SetSelected(id, i) PROVE IInv'
  BY <1>9, SetSelectedKeeps
<1>10. ASSUME NEW n \in Numbers, SetNumber(id, n) PROVE IInv'
  BY <1>10, SetNumberKeeps
<1>11. ASSUME NEW line \in Lines, AppendLog(id, line) PROVE IInv'
  BY <1>11, AppendLogKeeps
<1>12. CASE ClearLog(id)
  BY <1>12, ClearLogKeeps
<1> QED
  BY <1>1, <1>2, <1>3, <1>4, <1>5, <1>6, <1>7, <1>8, <1>9, <1>10, <1>11, <1>12 DEF Command

LEMMA NextIInv == IInv /\ [Next]_vars => IInv'
<1> SUFFICES ASSUME IInv, [Next]_vars PROVE IInv'
  OBVIOUS
<1>1. CASE Bind
  BY <1>1, BindKeeps
<1>2. CASE Cleanup
  <2>1. bound' \in BOOLEAN /\ failures' = failures /\ failures' \in Nat /\ Empty("host")
    BY <1>2 DEF Cleanup, IInv, TypeInv
  <2> QED
    BY <2>1, EmptyKeeps
<1>3. CASE CleanupFails
  BY <1>3, CleanupFailsKeeps
<1>4. CASE Clear
  <2>1. bound' \in BOOLEAN /\ failures' = failures /\ failures' \in Nat /\ Empty("command")
    BY <1>4 DEF Clear, session, IInv, TypeInv
  <2> QED
    BY <2>1, EmptyKeeps
<1>5. ASSUME NEW id \in Ids, Command(id) PROVE IInv'
  BY <1>5, CommandKeeps
<1>6. ASSUME NEW o \in DOMAIN widget, User(o) PROVE IInv'
  BY <1>6, UserKeeps
<1>7. CASE UNCHANGED vars
  BY <1>7, SameKeeps DEF vars, session, registry, tree
<1>8. ASSUME NEW place \in {Root, OldRoot}, PageDisposed(place) PROVE IInv'
  BY <1>8, PageDisposedKeeps
<1> QED
  BY <1>1, <1>2, <1>3, <1>4, <1>5, <1>6, <1>7, <1>8 DEF Next

THEOREM Invariant == Spec => []IInv
BY InitIInv, NextIInv, PTL DEF Spec

(* What is on the tab of the session is registered, and Remove takes the IDs of   *)
(* what it disposes and no other, for every nesting of panels, every reuse of an    *)
(* ID, every restart, and wherever Clear and Cleanup throw: UiBridge.cs 86-97,       *)
(* 293-331. What nobody knows is on the panel of an earlier session.                 *)
THEOREM RegistryAndTree == Spec => []RegistryMatchesTree
<1>1. IInv => RegistryMatchesTree
  BY DEF IInv
<1> QED
  BY <1>1, Invariant, PTL

(* Numbers, selections and logs keep the bounds that UiBridge.Add gave them, under  *)
(* every sequence of commands, user actions, failed Cleanups and restarts.           *)
THEOREM InRange == Spec => []ValuesInRange
<1>1. IInv => ValuesInRange
  BY DEF IInv
<1> QED
  BY <1>1, Invariant, PTL

-------------------------------------------------------------------------------
(* Applied or reported. *)

AppliedStep ==
  /\ step'.by = "command" =>
       \/ step'.emitted = <<>>
       \/ /\ \E id \in Ids : step'.emitted = <<Event("Error", id)>>
          /\ UNCHANGED <<registry, tree>>
  /\ step'.by = "user" =>
       \/ ~bound /\ step'.emitted = <<>>
       \/ \E o \in DOMAIN widget :
            /\ step'.emitted = <<Event(widget[o].kind, widget[o].tag)>>
            /\ Registered(o) \/ (failures > 0 /\ o \in Inside(Children({OldRoot})))

(* A step of the host or of a command that queues nothing. *)
LEMMA SilentStep ==
  ASSUME NEW by \in {"host", "command"}, Record(by, <<>>)
  PROVE  AppliedStep
<1>1. step'.by = by /\ step'.emitted = <<>>
  BY DEF Record
<1> QED
  BY <1>1 DEF AppliedStep

LEMMA ChangedByCommand ==
  ASSUME NEW o, NEW w, Change(o, w, "command")
  PROVE  AppliedStep
BY SilentStep DEF Change, Emit

LEMMA ReportedStep ==
  ASSUME NEW id \in Ids, Report(id)
  PROVE  AppliedStep
<1>1. step'.by = "command" /\ step'.emitted = <<Event("Error", id)>>
  BY DEF Report, Record
<1>2. UNCHANGED <<registry, tree>>
  BY DEF Report, registry, tree
<1> QED
  BY <1>1, <1>2 DEF AppliedStep

LEMMA CommandApplied ==
  ASSUME NEW id \in Ids, Command(id)
  PROVE  AppliedStep
<1>1. ASSUME NEW p, NEW spec, Add(id, p, spec) PROVE AppliedStep
  BY <1>1, SilentStep DEF Add
<1>2. ASSUME NEW p, AddFails(id, p) PROVE AppliedStep
  BY <1>2, ReportedStep DEF AddFails
<1>3. CASE RemoveControl(id)
  BY <1>3, SilentStep DEF RemoveControl
<1>4. CASE RemoveFails(id)
  BY <1>4, ReportedStep DEF RemoveFails
<1>5. ASSUME NEW text, SetText(id, text) PROVE AppliedStep
  BY <1>5, ChangedByCommand, ReportedStep DEF SetText
<1>6. ASSUME NEW value, SetEnabled(id, value) PROVE AppliedStep
  BY <1>6, ChangedByCommand, ReportedStep DEF SetEnabled
<1>7. ASSUME NEW value, SetChecked(id, value) PROVE AppliedStep
  BY <1>7, ChangedByCommand, ReportedStep DEF SetChecked
<1>8. ASSUME NEW spec \in {s \in ItemSpecs : DecodeAccepts(s)}, SetItems(id, spec)
      PROVE  AppliedStep
  <2>1. spec.selected < Len(spec.items)
    BY ItemsFit
  <2> QED
    BY <1>8, <2>1, ChangedByCommand, ReportedStep DEF SetItems
<1>9. ASSUME NEW i, SetSelected(id, i) PROVE AppliedStep
  BY <1>9, ChangedByCommand, ReportedStep DEF SetSelected
<1>10. ASSUME NEW n, SetNumber(id, n) PROVE AppliedStep
  BY <1>10, ChangedByCommand, ReportedStep DEF SetNumber
<1>11. ASSUME NEW line, AppendLog(id, line) PROVE AppliedStep
  BY <1>11, ChangedByCommand, ReportedStep DEF AppendLog
<1>12. CASE ClearLog(id)
  BY <1>12, ChangedByCommand, ReportedStep DEF ClearLog
<1> QED
  BY <1>1, <1>2, <1>3, <1>4, <1>5, <1>6, <1>7, <1>8, <1>9, <1>10, <1>11, <1>12 DEF Command

(* A control that the user reaches is registered, or in the panel of an earlier  *)
(* session: the two kinds together hold the children of both and are closed.      *)
LEMMA Reached ==
  ASSUME IInv, NEW o \in DOMAIN widget, Usable(o)
  PROVE  Registered(o) \/ (failures > 0 /\ o \in Inside(Children({OldRoot})))
<1> DEFINE known == {x \in DOMAIN widget : Registered(x)}
           tops  == Children({OldRoot})
           old   == Inside(tops)
<1>1. tops \in SUBSET DOMAIN widget
  BY DEF Children
<1>2. tops \subseteq old /\ old \subseteq DOMAIN widget /\ HoldsChildren(old)
  BY <1>1, InsideClosed
<1>3. HoldsChildren(known)
  BY RegisteredClosed
<1>4. Children({Root, OldRoot}) \subseteq known \cup old
  <2> SUFFICES ASSUME NEW x \in DOMAIN widget, parent[x] = Root, ~Registered(x) PROVE FALSE
    BY <1>2 DEF Children
  <2>1. Placed(x) /\ Root \notin DOMAIN widget /\ Root # OldRoot
    BY Within, ControlAssumption DEF IInv, TypeInv
  <2> QED
    BY <2>1 DEF Placed
<1>5. failures = 0 => old = {}
  <2> SUFFICES ASSUME failures = 0 PROVE old = {}
    OBVIOUS
  <2>1. tops \subseteq {} /\ {} \in SUBSET DOMAIN widget /\ HoldsChildren({})
    BY DEF Children, HoldsChildren, IInv, RegistryMatchesTree
  <2> QED
    BY <2>1, InsideLeast
<1>6. o \in known \cup old
  <2>1. known \cup old \in SUBSET DOMAIN widget /\ HoldsChildren(known \cup old)
    BY <1>2, <1>3 DEF HoldsChildren
  <2>2. Inside(Children({Root, OldRoot})) \subseteq known \cup old
    <3> HIDE DEF known, old
    <3> QED
      BY <1>4, <2>1, InsideLeast
  <2> QED
    BY <2>2 DEF Usable
<1>7. failures \in Nat
  BY DEF IInv, TypeInv
<1> QED
  BY <1>5, <1>6, <1>7

LEMMA UserHeard ==
  ASSUME IInv, NEW o \in DOMAIN widget, Usable(o),
         Record("user", Emit(<<Event(widget[o].kind, widget[o].tag)>>, FALSE))
  PROVE  AppliedStep
<1> DEFINE event == <<Event(widget[o].kind, widget[o].tag)>>
<1>1. step'.by = "user" /\ step'.emitted = IF ~bound THEN <<>> ELSE event
  BY DEF Record, Emit
<1>2. Registered(o) \/ (failures > 0 /\ o \in Inside(Children({OldRoot})))
  BY Reached
<1>3. CASE ~bound
  BY <1>1, <1>3 DEF AppliedStep
<1>4. CASE bound
  BY <1>1, <1>2, <1>4 DEF AppliedStep
<1> QED
  BY <1>3, <1>4

LEMMA UserApplied ==
  ASSUME IInv, NEW o \in DOMAIN widget, User(o)
  PROVE  AppliedStep
<1>1. widget[o] \in Widgets
  BY Within
<1>2. ASSUME NEW w, Raised(widget[o], w) = <<Event(widget[o].kind, widget[o].tag)>>,
             Usable(o), Change(o, w, "user")
      PROVE  AppliedStep
  <2>1. Record("user", Emit(<<Event(widget[o].kind, widget[o].tag)>>, FALSE))
    BY <1>2 DEF Change
  <2> QED
    BY <1>2, <2>1, UserHeard
<1>3. CASE Click(o)
  <2>1. Usable(o) /\ widget[o].kind = "Button"
    BY <1>3 DEF Click, Uses
  <2>2. Record("user", Emit(<<Event(widget[o].kind, widget[o].tag)>>, FALSE))
    BY <1>3, <2>1 DEF Click
  <2> QED
    BY <2>1, <2>2, UserHeard
<1>4. CASE Toggle(o)
  <2> DEFINE w == [widget[o] EXCEPT !.checked = ~@]
  <2>1. Usable(o) /\ widget[o].kind = "CheckBox" /\ widget[o].checked # w.checked
    BY <1>1, <1>4 DEF Toggle, Uses, Widgets
  <2> QED
    BY <1>2, <1>4, <2>1 DEF Toggle, Raised
<1>5. ASSUME NEW text, Edit(o, text) PROVE AppliedStep
  <2> DEFINE w == [widget[o] EXCEPT !.text = text]
  <2>1. Usable(o) /\ widget[o].kind = "TextBox" /\ widget[o].text # w.text
    BY <1>1, <1>5 DEF Edit, Uses, Widgets
  <2> QED
    BY <1>2, <1>5, <2>1 DEF Edit, Raised
<1>6. ASSUME NEW i, Choose(o, i) PROVE AppliedStep
  <2> DEFINE w == [widget[o] EXCEPT !.selected = i]
  <2>1. Usable(o) /\ widget[o].kind = "ComboBox" /\ widget[o].selected # w.selected
    BY <1>1, <1>6 DEF Choose, Uses, Widgets
  <2> QED
    BY <1>2, <1>6, <2>1 DEF Choose, Raised
<1>7. ASSUME NEW n, Spin(o, n) PROVE AppliedStep
  <2> DEFINE w == [widget[o] EXCEPT !.value = n]
  <2>1. Usable(o) /\ widget[o].kind = "Number" /\ widget[o].value # w.value
    BY <1>1, <1>7 DEF Spin, Uses, Widgets
  <2> QED
    BY <1>2, <1>7, <2>1 DEF Spin, Raised
<1> QED
  BY <1>3, <1>4, <1>5, <1>6, <1>7 DEF User

LEMMA NextApplied == IInv /\ Next => AppliedStep
<1> SUFFICES ASSUME IInv, Next PROVE AppliedStep
  OBVIOUS
<1>1. CASE Bind
  BY <1>1, SilentStep DEF Bind
<1>2. CASE Cleanup
  BY <1>2, SilentStep DEF Cleanup, Empty
<1>3. CASE CleanupFails
  <2>1. Record("host", <<>>)
    BY <1>3 DEF CleanupFails, Empty
  <2> QED
    BY <2>1, SilentStep
<1>4. CASE Clear
  BY <1>4, SilentStep DEF Clear, Empty
<1>5. ASSUME NEW id \in Ids, Command(id) PROVE AppliedStep
  BY <1>5, CommandApplied
<1>6. ASSUME NEW o \in DOMAIN widget, User(o) PROVE AppliedStep
  BY <1>6, UserApplied
<1>7. ASSUME NEW place, PageDisposed(place) PROVE AppliedStep
  BY <1>7, SilentStep DEF PageDisposed
<1> QED
  BY <1>1, <1>2, <1>3, <1>4, <1>5, <1>6, <1>7 DEF Next

(* A command takes effect silently or comes back as one error and changes nothing; *)
(* an event of the user names the control that commands with its ID reach, unless    *)
(* it comes from the panel that a failed Cleanup left.                                *)
THEOREM Applied == Spec => AppliedOrReported
<1>1. IInv /\ [Next]_vars => [AppliedStep]_vars
  BY NextApplied
<1> QED
  BY <1>1, Invariant, PTL DEF Spec, AppliedOrReported, AppliedStep
===============================================================================
