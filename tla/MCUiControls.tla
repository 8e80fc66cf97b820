------------------------------ MODULE MCUiControls ------------------------------
(* UiControls with three IDs, so that a control can lie in a panel in a panel.   *)
(* The first ID is a panel, a button or a log and has two objects, so that it can  *)
(* be a new control while its old one is on the panel of an earlier session; the   *)
(* third is any other kind, so that an ID comes back as a control of another kind.  *)
(* Lists of up to one item, numbers up to 1, logs of one row, and what Decode       *)
(* refuses beside them: a selection, a number or a limit out of its bounds. Cleanup *)
(* throws once.                                                                     *)
EXTENDS UiControls, TLC

IdsThree    == 1..3
ObjectsFour == {<<1, 0>>, <<1, 1>>, <<2, 0>>, <<3, 0>>}

Row    == Blank
Column == [Blank EXCEPT !.kind = "Column"]
Logs   == {[Blank EXCEPT !.kind = "LogList", !.maxRows = n] : n \in 0..1}
Combos == {[Blank EXCEPT !.kind = "ComboBox", !.items = <<"i">>, !.selected = i] : i \in 0..1}
Spins  == {[Blank EXCEPT !.kind = "Number", !.max = 1, !.value = n] : n \in 1..2}
Plain  == {[Blank EXCEPT !.kind = k] : k \in {"CheckBox", "TextBox"}}
Button == [Blank EXCEPT !.kind = "Button"]

SpecsMixed ==
  1 :> {Column, Button} \cup Logs @@ 2 :> {Row} @@ 3 :> Combos \cup Spins \cup Plain

TextsTwo     == {"", "t"}
LinesOne     == {"k"}
ItemsUpToOne == {<<>>, <<"i">>}
IndexesAll   == -1..1
NumbersAll   == 0..2
===============================================================================
