-------------------------------- MODULE MCPages --------------------------------
(* Instance of Pages for model checking: three rows, of which a second     *)
(* range of dates and a filter leave some; one has no value in its column. *)
EXTENDS Pages

MCItems == 1..3
MCRanges == {1..3, {3}}
MCDefault == 1..3
MCNames == {1..3, {2, 3}}
MCValue == <<2, NoValue, 1>>
\* A tree of four departments, and the same after one of them has moved.
MCDepts == 1..4
MCTrees ==
  {[roots |-> <<1, 2>>, kids |-> <<<<>>, <<3, 4>>, <<>>, <<>>>>],
   [roots |-> <<1, 2>>, kids |-> <<<<>>, <<3>>, <<4>>, <<>>>>]}
=============================================================================
