---------------------------- MODULE MCTableLoad ----------------------------
(* A small instance of TableLoad.  The digits stand for integers around the
   edges of what a float and an int64 can hold: d4 does not fit an int64.
   The first column has every kind of cell and one label more than fits the
   note, the second has labels and blanks; either may spell the name that is
   generated for the other. *)
EXTENDS TableLoad, TLC

CONSTANTS a, b, col0, col1, d2, d4, f1, f2, f4

MCToFloat == (d2 :> f2) @@ (d4 :> f4)
MCColName == <<col0, col1>>
Word(l) == [form |-> "word", val |-> l]
Space == [form |-> "space", val |-> NaN]
MCSeen ==
  <<{Word(a), Word(b), Word(col1), Space}
      \cup [form : {"digits"}, val : {d2, d4}] \cup [form : {"decimal"}, val : {f1, NaN}],
    {Word(a), Space}>>
=============================================================================
