------------------------------ MODULE TableLoad ------------------------------
(***************************************************************************)
(* _load_table and the convert() that calls it: the reading of one table.  *)
(* The first row is a header when any of its cells is text; a row of       *)
(* another width, or two columns of one name, abandons the import before   *)
(* anything is written.                                                    *)
(***************************************************************************)
EXTENDS TableImport

VARIABLES
  phase,    \* "start", "body", "imported" or "raised"
  names,    \* the columns' names
  columns,  \* the _Column of each
  imports,  \* the datasets handed to _commit
  body      \* history: the data rows read so far

vars == <<phase, names, columns, imports, body>>

ImportType == [type : {"int64", "float64", "codes", "none"},
               values : Seq(Int64 \cup Floats \cup Int), labels : Seq(Labels)]

Init ==
  /\ phase = "start"
  /\ names = [i \in Cols |-> [form |-> "word", val |-> ColName[i]]]
  /\ columns = [i \in Cols |-> EmptyColumn]
  /\ imports = [i \in Cols |-> Dropped]
  /\ body = <<>>

IsHeader(row) == \E i \in Cols : Classify(row[i]).kind = "text"

(* _header_names *)
HeaderName(row, i) ==
  IF row[i].form = "space" THEN [form |-> "word", val |-> ColName[i]] ELSE row[i]

(* _ensure_unique *)
Unique(ns) == \A i, j \in Cols : ns[i] = ns[j] => i = j

PushRow(row) ==
  /\ columns' = [i \in Cols |-> Push(columns[i], Classify(row[i]))]
  /\ body' = Append(body, row)

ReadHeader(row) ==
  /\ phase = "start" /\ IsHeader(row)
  /\ Unique([i \in Cols |-> HeaderName(row, i)])
  /\ names' = [i \in Cols |-> HeaderName(row, i)]
  /\ phase' = "body"
  /\ UNCHANGED <<columns, imports, body>>

DuplicateNames(row) ==
  /\ phase = "start" /\ IsHeader(row)
  /\ ~Unique([i \in Cols |-> HeaderName(row, i)])
  /\ phase' = "raised"
  /\ UNCHANGED <<names, columns, imports, body>>

(* Without a header the first row is data. *)
ReadFirstRow(row) ==
  /\ phase = "start" /\ ~IsHeader(row)
  /\ PushRow(row)
  /\ phase' = "body"
  /\ UNCHANGED <<names, imports>>

ReadRow(row) ==
  /\ phase = "body" /\ Len(body) < MaxRows
  /\ PushRow(row)
  /\ UNCHANGED <<phase, names, imports>>

(* A row of another width: what was read is dropped. *)
ReadRagged ==
  /\ phase = "body"
  /\ phase' = "raised"
  /\ columns' = [i \in Cols |-> EmptyColumn]
  /\ body' = <<>>
  /\ UNCHANGED <<names, imports>>

(* A table that leaves no column raises in convert(); the others are handed
   to _commit. *)
EndOfTable ==
  /\ phase = "body"
  /\ imports' = [i \in Cols |-> Finish(columns[i])]
  /\ phase' = IF \A i \in Cols : Finish(columns[i]) = Dropped
              THEN "raised" ELSE "imported"
  /\ UNCHANGED <<names, columns, body>>

(* No rows at all. *)
EmptyTable ==
  /\ phase = "start"
  /\ phase' = "raised"
  /\ UNCHANGED <<names, columns, imports, body>>

Next ==
  \/ \E row \in Rows : ReadHeader(row) \/ DuplicateNames(row)
                         \/ ReadFirstRow(row) \/ ReadRow(row)
  \/ ReadRagged \/ EndOfTable \/ EmptyTable

Spec == Init /\ [][Next]_vars

-----------------------------------------------------------------------------
(* Properties *)

(* TypeOK: every column is a well-formed _Column whatever was pushed, and no
   category note outgrows an attribute. *)
TypeOK ==
  /\ phase \in {"start", "body", "imported", "raised"}
  /\ names \in [Cols -> Cells]
  /\ columns \in [Cols -> ColumnType]
  /\ \A i \in Cols : Len(columns[i].labels) <= MaxLabels
  /\ body \in Seq(Rows)
  /\ imports \in [Cols -> ImportType]

FieldAt(r, i) == Classify(body[r][i])

(* Row r of an imported column is row r of the table: an integer column has
   the integer, a float column the number or NaN for a blank, a category
   column a code that its note turns back into the label, or -1 for a blank.
   What the column went through on the way must not shift or lose a row. *)
RowFaithful(i) ==
  LET col == columns[i]
  IN  /\ col.kind = "empty" => body = <<>>
      /\ col.kind = "blank" =>
           /\ col.blanks = Len(body)
           /\ \A r \in DOMAIN body : FieldAt(r, i).kind = "blank"
      /\ col.kind = "int" =>
           /\ Len(col.ints) = Len(body)
           /\ \A r \in DOMAIN body :
                FieldAt(r, i).kind = "int" /\ FieldAt(r, i).val = col.ints[r]
      /\ col.kind = "float" =>
           /\ Len(col.floats) = Len(body)
           /\ \A r \in DOMAIN body :
                FieldAt(r, i).kind # "text" /\ AsFloat(FieldAt(r, i)) = col.floats[r]
      /\ col.kind = "category" /\ ~col.overflow =>
           /\ Len(col.codes) = Len(body)
           /\ \A r \in DOMAIN body :
                \/ FieldAt(r, i).kind = "blank" /\ col.codes[r] = Missing
                \/ /\ FieldAt(r, i).kind = "text"
                   /\ col.codes[r] + 1 \in DOMAIN col.labels
                   /\ col.labels[col.codes[r] + 1] = FieldAt(r, i).val

RowsFaithful == \A i \in Cols : RowFaithful(i)

(* The codes of a category note are 0..n-1 with one label each, so the note
   (a dict from label to code) can be inverted. *)
NoteInvertible ==
  \A i \in Cols : \A j, k \in DOMAIN columns[i].labels :
    columns[i].labels[j] = columns[i].labels[k] => j = k

(* What a column should become, said of the whole column at once. *)
FieldKinds(i) == {FieldAt(r, i).kind : r \in DOMAIN body}
Texts(i) == {FieldAt(r, i).val : r \in {r \in DOMAIN body : FieldAt(r, i).kind = "text"}}
ExpectedType(i) ==
  LET kinds == FieldKinds(i)
  IN  IF kinds = {"int"} THEN "int64"
      ELSE IF kinds \subseteq {"int", "float", "blank"}
              /\ \E r \in DOMAIN body : AsFloat(FieldAt(r, i)) # NaN THEN "float64"
      ELSE IF kinds \subseteq {"text", "blank"} /\ "text" \in kinds
              /\ Cardinality(Texts(i)) <= MaxLabels THEN "codes"
      ELSE "none"

(* Which columns are imported, and as what, depends on the column's fields
   and not on the order they came in: the running guess of _Column agrees
   with ExpectedType, and an abandoned table imports nothing. *)
ImportsExpected ==
  /\ phase = "imported" => \A i \in Cols : imports[i].type = ExpectedType(i)
  /\ phase \in {"start", "body"} => \A i \in Cols : imports[i] = Dropped
=============================================================================
