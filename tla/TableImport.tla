----------------------------- MODULE TableImport -----------------------------
(***************************************************************************)
(* The CSV / TSV importer of python/tet/convert.py: _load_table, _Column   *)
(* and _Category.  A table is read row by row; every column keeps a        *)
(* running guess of what it holds (blanks, integers, floats, labels) and   *)
(* changes its representation when a field does not fit, so one field can  *)
(* rewrite or drop everything the column held before.                      *)
(*                                                                         *)
(* A field is what _classify makes of a cell.  Floats are opaque values;   *)
(* ToFloat is Python's float() on a plain integer, which need not be       *)
(* one-to-one.                                                             *)
(***************************************************************************)
EXTENDS Integers, Sequences, FiniteSets

CONSTANTS
  Labels,    \* cells that are text, numerals beyond the float range included
  Digits,    \* cells that are plain integers, of any width
  Int64,     \* those that fit an int64
  Floats,    \* float values, NaN among them
  NaN,
  ToFloat,   \* [Digits -> Floats]
  FloatCells,\* float values that cells other than plain integers spell
  Width,     \* the number of fields of the first row
  ColName,   \* ColName[i]: the name "col<i-1>" of a column without one
  MaxLabels, \* how many labels fit the category note of 1024 bytes
  Seen,      \* bound: the cells that occur in each column
  MaxRows    \* bound: data rows of a table

Cols    == 1 .. Width
Missing == -1

ASSUME ConstantsAssumption ==
  /\ Width \in Nat \ {0} /\ MaxLabels \in Nat /\ MaxRows \in Nat
  /\ Int64 \subseteq Digits
  /\ NaN \in Floats /\ FloatCells \subseteq Floats
  /\ ToFloat \in [Digits -> Floats]
  /\ ColName \in [Cols -> Labels]
  /\ \A i, j \in Cols : ColName[i] = ColName[j] => i = j

-----------------------------------------------------------------------------
(* Cells and fields *)

Cells == [form : {"word"}, val : Labels] \cup [form : {"digits"}, val : Digits]
           \cup [form : {"decimal"}, val : FloatCells]
           \cup {[form |-> "space", val |-> NaN]}

(* _classify: a plain integer wider than int64 is read as a float. *)
Classify(cell) ==
  IF cell.form = "digits" /\ cell.val \in Int64
  THEN [kind |-> "int", val |-> cell.val]
  ELSE IF cell.form = "digits" THEN [kind |-> "float", val |-> ToFloat[cell.val]]
  ELSE IF cell.form = "decimal" THEN [kind |-> "float", val |-> cell.val]
  ELSE IF cell.form = "word" THEN [kind |-> "text", val |-> cell.val]
  ELSE [kind |-> "blank", val |-> NaN]

Rows == {row \in [Cols -> Cells] : \A i \in Cols : row[i] \in Seen[i]}

ASSUME SeenAssumption == Seen \in [Cols -> SUBSET Cells]

(* The number a float column holds for a field. *)
AsFloat(field) == IF field.kind = "int" THEN ToFloat[field.val]
                  ELSE IF field.kind = "float" THEN field.val ELSE NaN

-----------------------------------------------------------------------------
(* _Category: codes in the order labels first appear *)

Kinds == {"empty", "blank", "int", "float", "category", "skip"}

ColumnType == [kind : Kinds, blanks : Nat, ints : Seq(Int64),
               floats : Seq(Floats), labels : Seq(Labels),
               codes : Seq(Int), overflow : BOOLEAN]

EmptyColumn == [kind |-> "empty", blanks |-> 0, ints |-> <<>>, floats |-> <<>>,
                labels |-> <<>>, codes |-> <<>>, overflow |-> FALSE]

KnownNever(col) == {}     \* a slip: the label is not looked up
Known(col) == {col.labels[k] : k \in DOMAIN col.labels}

CodeOf(col, label) == (CHOOSE k \in DOMAIN col.labels : col.labels[k] = label) - 1

PushMissing(col) ==
  IF col.overflow THEN col ELSE [col EXCEPT !.codes = Append(@, Missing)]

NoteFitsAlways(labels) == TRUE     \* a slip: the note is not measured
NoteFits(labels) == Len(labels) <= MaxLabels

(* A label that makes the note too long drops the whole column. *)
PushLabel(col, label) ==
  LET grown == Append(col.labels, label)
  IN  IF col.overflow THEN col
      ELSE IF label \in Known(col)
        THEN [col EXCEPT !.codes = Append(@, CodeOf(col, label))]
      ELSE IF NoteFits(grown)
        THEN [col EXCEPT !.labels = grown, !.codes = Append(@, Len(col.labels))]
      ELSE [col EXCEPT !.overflow = TRUE, !.labels = <<>>, !.codes = <<>>]

-----------------------------------------------------------------------------
(* _Column *)

Repeat(x, n) == [k \in 1 .. n |-> x]
Floated(col) == [k \in DOMAIN col.ints |-> ToFloat[col.ints[k]]]

Skipped(col) == [col EXCEPT !.kind = "skip"]

(* A slip: the blanks before the first label are forgotten. *)
PushTextOnly(col, label) ==
  IF col.kind \in {"empty", "blank"}
    THEN PushLabel([col EXCEPT !.kind = "category"], label)
  ELSE IF col.kind = "category" THEN PushLabel(col, label)
  ELSE Skipped(col)

PushText(col, label) ==
  IF col.kind = "empty" THEN PushLabel([col EXCEPT !.kind = "category"], label)
  ELSE IF col.kind = "blank"
    THEN PushLabel([col EXCEPT !.kind = "category",
                               !.codes = @ \o Repeat(Missing, col.blanks)], label)
  ELSE IF col.kind = "category" THEN PushLabel(col, label)
  ELSE Skipped(col)

(* A slip: an integer column turns to floats without the blank. *)
PushBlankLost(col) ==
  IF col.kind = "empty" THEN [col EXCEPT !.kind = "blank", !.blanks = 1]
  ELSE IF col.kind = "blank" THEN [col EXCEPT !.blanks = @ + 1]
  ELSE IF col.kind = "int"
    THEN [col EXCEPT !.kind = "float", !.floats = Floated(col)]
  ELSE IF col.kind = "float" THEN [col EXCEPT !.floats = Append(@, NaN)]
  ELSE PushMissing(col)

PushBlank(col) ==
  IF col.kind = "empty" THEN [col EXCEPT !.kind = "blank", !.blanks = 1]
  ELSE IF col.kind = "blank" THEN [col EXCEPT !.blanks = @ + 1]
  ELSE IF col.kind = "int"
    THEN [col EXCEPT !.kind = "float", !.floats = Append(Floated(col), NaN)]
  ELSE IF col.kind = "float" THEN [col EXCEPT !.floats = Append(@, NaN)]
  ELSE PushMissing(col)

PushInt(col, value) ==
  IF col.kind = "empty" THEN [col EXCEPT !.kind = "int", !.ints = <<value>>]
  ELSE IF col.kind = "blank"
    THEN [col EXCEPT !.kind = "float",
                     !.floats = Append(Repeat(NaN, col.blanks), ToFloat[value])]
  ELSE IF col.kind = "int" THEN [col EXCEPT !.ints = Append(@, value)]
  ELSE IF col.kind = "float"
    THEN [col EXCEPT !.floats = Append(@, ToFloat[value])]
  ELSE Skipped(col)

PushFloat(col, value) ==
  IF col.kind = "empty" THEN [col EXCEPT !.kind = "float", !.floats = <<value>>]
  ELSE IF col.kind = "blank"
    THEN [col EXCEPT !.kind = "float",
                     !.floats = Append(Repeat(NaN, col.blanks), value)]
  ELSE IF col.kind = "int"
    THEN [col EXCEPT !.kind = "float", !.floats = Append(Floated(col), value)]
  ELSE IF col.kind = "float" THEN [col EXCEPT !.floats = Append(@, value)]
  ELSE Skipped(col)

(* push: a skipped column stays skipped. *)
Push(col, field) ==
  IF col.kind = "skip" THEN col
  ELSE IF field.kind = "text" THEN PushText(col, field.val)
  ELSE IF field.kind = "blank" THEN PushBlank(col)
  ELSE IF field.kind = "int" THEN PushInt(col, field.val)
  ELSE PushFloat(col, field.val)

Dropped == [type |-> "none", values |-> <<>>, labels |-> <<>>]

(* A slip: a column of NaN alone is kept. *)
FinishAnyFloat(col) ==
  IF col.kind = "int" THEN [type |-> "int64", values |-> col.ints, labels |-> <<>>]
  ELSE IF col.kind = "float"
  THEN [type |-> "float64", values |-> col.floats, labels |-> <<>>]
  ELSE IF col.kind = "category" /\ ~col.overflow
  THEN [type |-> "codes", values |-> col.codes, labels |-> col.labels]
  ELSE Dropped

(* finish: the array and its category note, or nothing. *)
Finish(col) ==
  IF col.kind = "int" /\ col.ints # <<>>
  THEN [type |-> "int64", values |-> col.ints, labels |-> <<>>]
  ELSE IF col.kind = "float" /\ \E k \in DOMAIN col.floats : col.floats[k] # NaN
  THEN [type |-> "float64", values |-> col.floats, labels |-> <<>>]
  ELSE IF col.kind = "category" /\ ~col.overflow /\ col.labels # <<>>
  THEN [type |-> "codes", values |-> col.codes, labels |-> col.labels]
  ELSE Dropped

=============================================================================
