-------------------------- MODULE TableLoad_proofs --------------------------
(***************************************************************************)
(* Proofs about TableLoad: the running guess of every _Column says of the  *)
(* fields pushed so far exactly what they are, so what is imported does    *)
(* not depend on their order, and no row is lost or shifted.               *)
(***************************************************************************)
EXTENDS TableLoad, FiniteSetTheorems, TLAPS

-----------------------------------------------------------------------------
(* A column and the sequence f of the fields that were pushed into it *)

Fields == [kind : {"text"}, val : Labels] \cup [kind : {"int"}, val : Int64]
            \cup [kind : {"float"}, val : Floats] \cup {[kind |-> "blank", val |-> NaN]}

TextsOf(f) == {f[r].val : r \in {r \in DOMAIN f : f[r].kind = "text"}}
HasText(f) == \E r \in DOMAIN f : f[r].kind = "text"
HasNumber(f) == \E r \in DOMAIN f : f[r].kind \in {"int", "float"}

Shaped(col) ==
  /\ col \in ColumnType
  /\ Len(col.labels) <= MaxLabels
  /\ \A j, k \in DOMAIN col.labels : col.labels[j] = col.labels[k] => j = k
  /\ col.kind \in {"empty", "blank"} =>
       col.codes = <<>> /\ col.labels = <<>> /\ ~col.overflow

AsBlanks(col, f) ==
  /\ col.kind = "empty" => f = <<>>
  /\ col.kind = "blank" => /\ col.blanks = Len(f) /\ f # <<>>
                           /\ \A r \in DOMAIN f : f[r].kind = "blank"

AsInts(col, f) ==
  col.kind = "int" => /\ Len(col.ints) = Len(f) /\ f # <<>>
                      /\ \A r \in DOMAIN f : f[r].kind = "int" /\ f[r].val = col.ints[r]

AsFloats(col, f) ==
  col.kind = "float" => /\ Len(col.floats) = Len(f) /\ HasNumber(f)
                        /\ \E r \in DOMAIN f : f[r].kind # "int"
                        /\ \A r \in DOMAIN f :
                             f[r].kind # "text" /\ AsFloat(f[r]) = col.floats[r]

(* The codes of a category: every field is coded and every label of the note
   occurs, or the labels are too many for a note. *)
Coded(col, f) ==
  /\ \A r \in DOMAIN f : f[r].kind \in {"text", "blank"}
  /\ ~col.overflow =>
       /\ Len(col.codes) = Len(f)
       /\ \A r \in DOMAIN f :
            \/ f[r].kind = "blank" /\ col.codes[r] = Missing
            \/ /\ f[r].kind = "text"
               /\ col.codes[r] + 1 \in DOMAIN col.labels
               /\ col.labels[col.codes[r] + 1] = f[r].val
       /\ Known(col) \subseteq TextsOf(f)
  /\ col.overflow => Cardinality(TextsOf(f)) > MaxLabels

AsCodes(col, f) == col.kind = "category" => HasText(f) /\ Coded(col, f)

AsMixed(col, f) == col.kind = "skip" => HasText(f) /\ HasNumber(f)

(* The column is what its fields make of it. *)
Fits(col, f) ==
  Shaped(col) /\ AsBlanks(col, f) /\ AsInts(col, f) /\ AsFloats(col, f)
    /\ AsCodes(col, f) /\ AsMixed(col, f)

Column(i) == [r \in 1 .. Len(body) |-> FieldAt(r, i)]

ColumnsInv == \A i \in Cols : Fits(columns[i], Column(i))

(* With the names and the imports: the invariant of the reading. *)
ReadInv ==
  /\ phase \in {"start", "body", "imported", "raised"}
  /\ names \in [Cols -> Cells]
  /\ columns \in [Cols -> ColumnType]
  /\ body \in Seq(Rows)
  /\ phase = "start" => body = <<>>
  /\ imports \in [Cols -> ImportType]

ImportedInv ==
  /\ phase = "imported" => imports = [i \in Cols |-> Finish(columns[i])]
  /\ phase \in {"start", "body"} => imports = [i \in Cols |-> Dropped]

-----------------------------------------------------------------------------
(* Labels: what a note of distinct labels and a set of texts count *)

LEMMA TextsFinite ==
  ASSUME NEW f \in Seq(Fields)
  PROVE  IsFiniteSet(TextsOf(f))
<1> DEFINE D == {r \in DOMAIN f : f[r].kind = "text"}
           g == [r \in D |-> f[r].val]
<1>1. IsFiniteSet(D)
  <2>1. Len(f) \in Nat /\ DOMAIN f = 1 .. Len(f)
    OBVIOUS
  <2>2. IsFiniteSet(1 .. Len(f))
    BY <2>1, FS_Interval
  <2>3. D \in SUBSET (1 .. Len(f))
    BY <2>1
  <2> QED BY <2>2, <2>3, FS_Subset
<1>2. g \in Surjection(D, TextsOf(f))
  BY DEF TextsOf, Surjection
<1> QED BY <1>1, <1>2, FS_Surjection

LEMMA TextsPushed ==
  ASSUME NEW f \in Seq(Fields), NEW x \in Fields
  PROVE  /\ x.kind = "text" => TextsOf(Append(f, x)) = TextsOf(f) \cup {x.val}
         /\ x.kind # "text" => TextsOf(Append(f, x)) = TextsOf(f)
<1> DEFINE g == Append(f, x)
<1>1. /\ Len(f) \in Nat /\ DOMAIN f = 1 .. Len(f)
      /\ DOMAIN g = 1 .. Len(f) + 1 /\ g[Len(f) + 1] = x
      /\ \A r \in 1 .. Len(f) : g[r] = f[r]
  OBVIOUS
<1>2. DOMAIN g = DOMAIN f \cup {Len(f) + 1}
  BY <1>1
<1> HIDE DEF g
<1>3. TextsOf(f) \subseteq TextsOf(g)
  BY <1>1, <1>2 DEF TextsOf
<1>4. x.kind = "text" => x.val \in TextsOf(g)
  BY <1>1, <1>2 DEF TextsOf
<1>5. ASSUME NEW v \in TextsOf(g) PROVE v \in TextsOf(f) \/ (x.kind = "text" /\ v = x.val)
  BY <1>1, <1>2, <1>5 DEF TextsOf
<1> QED BY <1>3, <1>4, <1>5 DEF g

LEMMA NoteSize ==
  ASSUME NEW s \in Seq(Labels), \A j, k \in DOMAIN s : s[j] = s[k] => j = k
  PROVE  /\ IsFiniteSet({s[k] : k \in DOMAIN s})
         /\ Cardinality({s[k] : k \in DOMAIN s}) = Len(s)
<1> DEFINE T == {s[k] : k \in DOMAIN s}
<1>1. Len(s) \in Nat /\ DOMAIN s = 1 .. Len(s)
  OBVIOUS
<1>2. IsFiniteSet(1 .. Len(s)) /\ Cardinality(1 .. Len(s)) = Len(s)
  <2>1. IsFiniteSet(1 .. Len(s))
        /\ Cardinality(1 .. Len(s)) = IF 1 > Len(s) THEN 0 ELSE Len(s) - 1 + 1
    BY <1>1, FS_Interval
  <2> QED BY <2>1, <1>1
<1>3. s \in [1 .. Len(s) -> T]
  BY <1>1
<1>4. s \in Surjection(1 .. Len(s), T)
  BY <1>1, <1>3 DEF Surjection
<1>5. s \in Injection(1 .. Len(s), T)
  BY <1>1, <1>3 DEF Injection, IsInjective
<1> QED BY <1>2, <1>4, <1>5, FS_Surjection

-----------------------------------------------------------------------------
(* Sequences *)

LEMMA AppendFacts ==
  ASSUME NEW S, NEW f \in Seq(S), NEW x \in S
  PROVE  /\ Append(f, x) \in Seq(S)
         /\ Len(f) \in Nat /\ DOMAIN f = 1 .. Len(f)
         /\ Len(Append(f, x)) = Len(f) + 1
         /\ DOMAIN Append(f, x) = 1 .. Len(f) + 1
         /\ DOMAIN f \subseteq DOMAIN Append(f, x)
         /\ Len(f) + 1 \in DOMAIN Append(f, x) /\ Append(f, x)[Len(f) + 1] = x
         /\ \A r \in DOMAIN f : Append(f, x)[r] = f[r]
         /\ \A r \in DOMAIN Append(f, x) : r \in DOMAIN f \/ r = Len(f) + 1
         /\ Append(f, x) # <<>>
OBVIOUS

LEMMA RepeatFacts ==
  ASSUME NEW S, NEW x \in S, NEW n \in Nat
  PROVE  /\ Repeat(x, n) \in Seq(S) /\ Len(Repeat(x, n)) = n
         /\ DOMAIN Repeat(x, n) = 1 .. n
         /\ \A r \in 1 .. n : Repeat(x, n)[r] = x
BY DEF Repeat

LEMMA FieldFacts ==
  ASSUME NEW x \in Fields
  PROVE  /\ x.kind \in {"text", "blank", "int", "float"}
         /\ x.kind = "text" => x.val \in Labels
         /\ x.kind = "int" => x.val \in Int64 /\ AsFloat(x) = ToFloat[x.val]
         /\ x.kind = "float" => x.val \in Floats /\ AsFloat(x) = x.val
         /\ x.kind = "blank" => AsFloat(x) = NaN
         /\ AsFloat(x) \in Floats
BY ConstantsAssumption DEF Fields, AsFloat

LEMMA ClassifyField == \A cell \in Cells : Classify(cell) \in Fields
<1> SUFFICES ASSUME NEW cell \in Cells PROVE Classify(cell) \in Fields
  OBVIOUS
<1>1. CASE cell \in [form : {"word"}, val : Labels]
  BY <1>1 DEF Classify, Fields
<1>2. CASE cell \in [form : {"digits"}, val : Digits]
  BY <1>2, ConstantsAssumption DEF Classify, Fields
<1>3. CASE cell \in [form : {"decimal"}, val : FloatCells]
  BY <1>3, ConstantsAssumption DEF Classify, Fields
<1>4. CASE cell = [form |-> "space", val |-> NaN]
  BY <1>4 DEF Classify, Fields
<1> QED BY <1>1, <1>2, <1>3, <1>4 DEF Cells

(* What is true of some field stays so, and what is true of every field stays
   so when it is true of the new one. *)
LEMMA KindsPushed ==
  ASSUME NEW f \in Seq(Fields), NEW x \in Fields
  PROVE  /\ HasText(f) => HasText(Append(f, x))
         /\ HasNumber(f) => HasNumber(Append(f, x))
         /\ x.kind = "text" => HasText(Append(f, x))
         /\ x.kind \in {"int", "float"} => HasNumber(Append(f, x))
BY AppendFacts DEF HasText, HasNumber

-----------------------------------------------------------------------------
(* A label or a blank into a category *)

LEMMA CodesPushed ==
  ASSUME NEW f \in Seq(Fields), NEW x \in Fields, x.kind \in {"text", "blank"},
         NEW col, NEW next,
         Shaped(col), Shaped(next), Coded(col, f), ~col.overflow, ~next.overflow,
         NEW code \in Int, next.codes = Append(col.codes, code),
         DOMAIN col.labels \subseteq DOMAIN next.labels,
         \A k \in DOMAIN col.labels : next.labels[k] = col.labels[k],
         x.kind = "blank" => code = Missing,
         x.kind = "text" => /\ code + 1 \in DOMAIN next.labels
                            /\ next.labels[code + 1] = x.val,
         Known(next) \subseteq TextsOf(Append(f, x))
  PROVE  Coded(next, Append(f, x))
<1> DEFINE g == Append(f, x)
<1>1. col.codes \in Seq(Int) /\ Len(col.codes) = Len(f)
  BY DEF Shaped, ColumnType, Coded
<1>2. /\ Len(next.codes) = Len(g)
      /\ \A r \in DOMAIN f : next.codes[r] = col.codes[r] /\ g[r] = f[r]
      /\ next.codes[Len(f) + 1] = code /\ g[Len(f) + 1] = x
      /\ \A r \in DOMAIN g : r \in DOMAIN f \/ r = Len(f) + 1
  <2>1. DOMAIN f = DOMAIN col.codes
    BY <1>1, AppendFacts
  <2> QED BY <1>1, <2>1, AppendFacts
<1> HIDE DEF g
<1>3. ASSUME NEW r \in DOMAIN g
      PROVE  /\ g[r].kind \in {"text", "blank"}
             /\ \/ g[r].kind = "blank" /\ next.codes[r] = Missing
                \/ /\ g[r].kind = "text"
                   /\ next.codes[r] + 1 \in DOMAIN next.labels
                   /\ next.labels[next.codes[r] + 1] = g[r].val
  <2>1. CASE r = Len(f) + 1
    BY <1>2, <2>1
  <2>2. CASE r \in DOMAIN f
    BY <1>2, <2>2 DEF Coded
  <2> QED BY <1>2, <2>1, <2>2
<1> QED BY <1>2, <1>3 DEF Coded, g

LEMMA MissingPushed ==
  ASSUME NEW f \in Seq(Fields), NEW x \in Fields, x.kind = "blank",
         NEW col, col.kind = "category", Shaped(col), Coded(col, f)
  PROVE  /\ Shaped(PushMissing(col)) /\ PushMissing(col).kind = "category"
         /\ Coded(PushMissing(col), Append(f, x))
<1> DEFINE next == PushMissing(col)
<1>0. TextsOf(Append(f, x)) = TextsOf(f)
  BY TextsPushed
<1>1. CASE col.overflow
  <2>1. next = col
    BY <1>1 DEF PushMissing
  <2>2. \A r \in DOMAIN Append(f, x) : Append(f, x)[r].kind \in {"text", "blank"}
    BY AppendFacts DEF Coded
  <2> QED BY <1>0, <1>1, <2>1, <2>2 DEF Coded
<1>2. CASE ~col.overflow
  <2>1. col \in ColumnType /\ next = [col EXCEPT !.codes = Append(@, Missing)]
    BY <1>2 DEF PushMissing, Shaped
  <2>2. /\ next.codes = Append(col.codes, Missing) /\ next.labels = col.labels
        /\ next.kind = "category" /\ next.overflow = col.overflow
    BY <2>1 DEF ColumnType
  <2>3. Missing \in Int
    BY DEF Missing
  <2>4. next \in ColumnType
    <3>1. Append(col.codes, Missing) \in Seq(Int)
      BY <2>1, <2>3 DEF ColumnType
    <3> QED BY <2>1, <3>1 DEF ColumnType
  <2> HIDE DEF next
  <2>5. Shaped(next)
    BY <2>2, <2>4 DEF Shaped
  <2>6. Known(next) \subseteq TextsOf(Append(f, x))
    BY <1>0, <1>2, <2>2 DEF Known, Coded
  <2>7. Coded(next, Append(f, x))
    BY <1>2, <2>2, <2>3, <2>5, <2>6, CodesPushed
  <2> QED BY <2>2, <2>5, <2>7 DEF next
<1> QED BY <1>1, <1>2

LEMMA LabelPushed ==
  ASSUME NEW f \in Seq(Fields), NEW x \in Fields, x.kind = "text",
         NEW col, col.kind = "category", Shaped(col), Coded(col, f)
  PROVE  /\ Shaped(PushLabel(col, x.val)) /\ PushLabel(col, x.val).kind = "category"
         /\ Coded(PushLabel(col, x.val), Append(f, x))
<1> DEFINE label == x.val
           next == PushLabel(col, label)
           grown == Append(col.labels, label)
<1>0. /\ TextsOf(Append(f, x)) = TextsOf(f) \cup {label}
      /\ IsFiniteSet(TextsOf(f)) /\ IsFiniteSet(TextsOf(Append(f, x)))
      /\ Append(f, x) \in Seq(Fields)
  BY TextsPushed, TextsFinite, AppendFacts
<1>1. /\ col \in ColumnType /\ col.labels \in Seq(Labels) /\ col.codes \in Seq(Int)
      /\ label \in Labels /\ Len(col.labels) \in Nat
      /\ DOMAIN col.labels = 1 .. Len(col.labels)
  <2>1. col \in ColumnType /\ col.labels \in Seq(Labels) /\ col.codes \in Seq(Int)
    BY DEF Shaped, ColumnType
  <2> QED BY <2>1, FieldFacts
<1>2. \A r \in DOMAIN Append(f, x) : Append(f, x)[r].kind \in {"text", "blank"}
  BY AppendFacts DEF Coded
<1>3. CASE col.overflow
  <2>1. next = col
    BY <1>3 DEF PushLabel
  <2>2. Cardinality(TextsOf(f)) <= Cardinality(TextsOf(Append(f, x)))
    BY <1>0, FS_Subset
  <2>3. Cardinality(TextsOf(f)) \in Nat /\ Cardinality(TextsOf(Append(f, x))) \in Nat
    BY <1>0, FS_CardinalityType
  <2>4. Cardinality(TextsOf(Append(f, x))) > MaxLabels
    BY <1>3, <2>2, <2>3, ConstantsAssumption DEF Coded
  <2> QED BY <1>2, <1>3, <2>1, <2>4 DEF Coded
<1>4. CASE ~col.overflow /\ label \in Known(col)
  <2> DEFINE code == CodeOf(col, label)
  <2>1. code + 1 \in DOMAIN col.labels /\ col.labels[code + 1] = label /\ code \in Int
    <3>1. PICK k \in DOMAIN col.labels : col.labels[k] = label
      BY <1>4 DEF Known
    <3>2. PICK c : c \in DOMAIN col.labels /\ col.labels[c] = label /\ code = c - 1
      BY <3>1 DEF CodeOf
    <3>3. c \in Int /\ code + 1 = c
      BY <1>1, <3>2
    <3> QED BY <3>2, <3>3
  <2> HIDE DEF code
  <2>2. next = [col EXCEPT !.codes = Append(@, code)]
    BY <1>4 DEF PushLabel, code
  <2>3. Append(col.codes, code) \in Seq(Int)
    BY <1>1, <2>1
  <2>4. /\ next \in ColumnType /\ next.codes = Append(col.codes, code)
        /\ next.labels = col.labels /\ next.kind = "category" /\ ~next.overflow
    BY <1>1, <1>4, <2>2, <2>3 DEF ColumnType
  <2> HIDE DEF next
  <2>5. Shaped(next)
    BY <2>4 DEF Shaped
  <2>6. Known(next) \subseteq TextsOf(Append(f, x))
    BY <1>0, <1>4, <2>4 DEF Known, Coded
  <2>7. Coded(next, Append(f, x))
    BY <1>4, <2>1, <2>4, <2>5, <2>6, CodesPushed
  <2> QED BY <2>4, <2>5, <2>7 DEF next
<1>5. CASE ~col.overflow /\ label \notin Known(col)
  <2>1. /\ grown \in Seq(Labels) /\ Len(grown) = Len(col.labels) + 1
        /\ DOMAIN grown = 1 .. Len(col.labels) + 1
        /\ grown[Len(col.labels) + 1] = label
        /\ \A k \in DOMAIN col.labels : grown[k] = col.labels[k]
        /\ DOMAIN col.labels \subseteq DOMAIN grown
        /\ \A k \in DOMAIN grown : k \in DOMAIN col.labels \/ k = Len(col.labels) + 1
    BY <1>1, AppendFacts
  <2>2. \A j, k \in DOMAIN grown : grown[j] = grown[k] => j = k
    BY <1>5, <2>1 DEF Shaped, Known
  <2>3. {grown[k] : k \in DOMAIN grown} \subseteq TextsOf(Append(f, x))
    <3>1. \A k \in DOMAIN col.labels : col.labels[k] \in TextsOf(f)
      BY <1>5 DEF Coded, Known
    <3> QED BY <1>0, <2>1, <3>1
  <2>4. CASE NoteFits(grown)
    <3> DEFINE code == Len(col.labels)
    <3>1. next = [col EXCEPT !.labels = grown, !.codes = Append(@, code)]
      BY <1>5, <2>4 DEF PushLabel
    <3>2. Append(col.codes, code) \in Seq(Int)
      BY <1>1
    <3>3. /\ next \in ColumnType /\ next.codes = Append(col.codes, code)
          /\ next.labels = grown /\ next.kind = "category" /\ ~next.overflow
      BY <1>1, <1>5, <2>1, <3>1, <3>2 DEF ColumnType
    <3> HIDE DEF next
    <3>4. Shaped(next)
      BY <2>2, <2>4, <3>3 DEF Shaped, NoteFits
    <3>5. Known(next) \subseteq TextsOf(Append(f, x))
      BY <2>3, <3>3 DEF Known
    <3>6. /\ code \in Int /\ code + 1 \in DOMAIN next.labels
          /\ next.labels[code + 1] = x.val
      BY <1>1, <2>1, <3>3
    <3>7. /\ DOMAIN col.labels \subseteq DOMAIN next.labels
          /\ \A k \in DOMAIN col.labels : next.labels[k] = col.labels[k]
      BY <2>1, <3>3
    <3> HIDE DEF code
    <3>8. Coded(next, Append(f, x))
      BY <1>5, <3>3, <3>4, <3>5, <3>6, <3>7, CodesPushed
    <3> QED BY <3>3, <3>4, <3>8 DEF next
  <2>5. CASE ~NoteFits(grown)
    <3>1. next = [col EXCEPT !.overflow = TRUE, !.labels = <<>>, !.codes = <<>>]
      BY <1>5, <2>5 DEF PushLabel
    <3>2. /\ next \in ColumnType /\ next.labels = <<>> /\ next.overflow
          /\ next.kind = "category"
      <4>1. <<>> \in Seq(Labels) /\ <<>> \in Seq(Int)
        OBVIOUS
      <4> QED BY <1>1, <3>1, <4>1 DEF ColumnType
    <3>3. Cardinality({grown[k] : k \in DOMAIN grown}) = Len(grown)
      BY <2>1, <2>2, NoteSize
    <3>4. Cardinality({grown[k] : k \in DOMAIN grown})
            <= Cardinality(TextsOf(Append(f, x)))
      BY <1>0, <2>3, FS_Subset
    <3>5. Cardinality(TextsOf(Append(f, x))) \in Nat
      BY <1>0, FS_CardinalityType
    <3>6. Len(grown) > MaxLabels /\ Len(grown) \in Nat
      BY <1>1, <2>1, <2>5, ConstantsAssumption DEF NoteFits
    <3>7. Cardinality(TextsOf(Append(f, x))) > MaxLabels
      <4>1. Len(grown) <= Cardinality(TextsOf(Append(f, x)))
        BY <3>3, <3>4, Zenon
      <4> HIDE DEF grown
      <4> QED BY <3>5, <3>6, <4>1, ConstantsAssumption
    <3> HIDE DEF next
    <3>8. Shaped(next)
      BY <3>2, ConstantsAssumption DEF Shaped
    <3> QED BY <1>2, <3>2, <3>7, <3>8 DEF Coded, next
  <2> QED BY <2>4, <2>5
<1> QED BY <1>3, <1>4, <1>5

-----------------------------------------------------------------------------
(* What a push makes of a column *)

LEMMA ShapedNext ==
  ASSUME NEW col, NEW next, Shaped(col), next \in ColumnType,
         next.labels = col.labels, next.kind \notin {"empty", "blank"}
  PROVE  Shaped(next)
BY DEF Shaped

LEMMA CategoryFits ==
  ASSUME NEW next, NEW g, next.kind = "category", Shaped(next), Coded(next, g), HasText(g)
  PROVE  Fits(next, g)
BY DEF Fits, AsBlanks, AsInts, AsFloats, AsCodes, AsMixed

LEMMA SkippedFits ==
  ASSUME NEW col, Shaped(col), NEW g, HasText(g), HasNumber(g)
  PROVE  Fits(Skipped(col), g)
<1> DEFINE next == Skipped(col)
<1>1. next \in ColumnType /\ next.labels = col.labels /\ next.kind = "skip"
  BY DEF Shaped, ColumnType, Skipped, Kinds
<1> HIDE DEF next
<1>2. Shaped(next)
  BY <1>1, ShapedNext
<1> QED BY <1>1, <1>2 DEF next, Fits, AsBlanks, AsInts, AsFloats, AsCodes, AsMixed

(* A column that holds labels has a text, and one of numbers has a number. *)
LEMMA TextOrNumber ==
  ASSUME NEW f \in Seq(Fields), NEW col, Fits(col, f)
  PROVE  /\ col.kind = "category" => HasText(f)
         /\ col.kind \in {"int", "float"} => HasNumber(f)
<1>1. col.kind = "int" => HasNumber(f)
  <2>1. f # <<>> => 1 \in DOMAIN f
    OBVIOUS
  <2> QED BY <2>1 DEF Fits, AsInts, HasNumber
<1> QED BY <1>1 DEF Fits, AsFloats, AsCodes

LEMMA TextPushed ==
  ASSUME NEW f \in Seq(Fields), NEW x \in Fields, x.kind = "text",
         NEW col, Fits(col, f), col.kind # "skip"
  PROVE  Fits(PushText(col, x.val), Append(f, x))
<1> DEFINE g == Append(f, x)
<1>0. HasText(g) /\ (HasNumber(f) => HasNumber(g)) /\ Shaped(col) /\ col \in ColumnType
  BY KindsPushed DEF Fits, Shaped
<1>1. ASSUME NEW c, c.kind = "category", Shaped(c), Coded(c, f)
      PROVE  Fits(PushLabel(c, x.val), g)
  BY <1>0, <1>1, LabelPushed, CategoryFits
<1>2. CASE col.kind = "empty"
  <2> DEFINE c == [col EXCEPT !.kind = "category"]
  <2>1. /\ c \in ColumnType /\ c.kind = "category" /\ c.labels = <<>>
        /\ c.codes = <<>> /\ c.labels = col.labels /\ ~c.overflow
    BY <1>0, <1>2 DEF Shaped, ColumnType, Kinds
  <2>2. f = <<>>
    BY <1>2 DEF Fits, AsBlanks
  <2>3. PushText(col, x.val) = PushLabel(c, x.val)
    BY <1>2 DEF PushText
  <2> HIDE DEF c
  <2>4. Shaped(c)
    BY <1>0, <2>1, ShapedNext
  <2>5. Coded(c, f)
    BY <2>1, <2>2 DEF Coded, Known
  <2> QED BY <1>1, <2>1, <2>3, <2>4, <2>5
<1>3. CASE col.kind = "blank"
  <2> DEFINE c == [col EXCEPT !.kind = "category", !.codes = @ \o Repeat(Missing, col.blanks)]
  <2>1. /\ col.blanks \in Nat /\ col.blanks = Len(f) /\ col.codes = <<>>
        /\ \A r \in DOMAIN f : f[r].kind = "blank"
    BY <1>0, <1>3 DEF Shaped, ColumnType, Fits, AsBlanks
  <2>2. /\ Repeat(Missing, col.blanks) \in Seq(Int)
        /\ Len(Repeat(Missing, col.blanks)) = Len(f)
        /\ \A r \in DOMAIN f : Repeat(Missing, col.blanks)[r] = Missing
    <3>1. Missing \in Int /\ DOMAIN f = 1 .. Len(f)
      BY DEF Missing
    <3>2. ASSUME NEW n \in Nat
          PROVE  /\ Repeat(Missing, n) \in Seq(Int) /\ Len(Repeat(Missing, n)) = n
                 /\ \A r \in 1 .. n : Repeat(Missing, n)[r] = Missing
      BY <3>1 DEF Repeat
    <3> QED BY <2>1, <3>1, <3>2
  <2>3. col.codes \o Repeat(Missing, col.blanks) = Repeat(Missing, col.blanks)
    BY <2>1, <2>2
  <2>4. /\ c \in ColumnType /\ c.kind = "category" /\ c.labels = <<>>
        /\ c.codes = Repeat(Missing, col.blanks) /\ c.labels = col.labels /\ ~c.overflow
    BY <1>0, <1>3, <2>2, <2>3 DEF Shaped, ColumnType, Kinds
  <2>5. PushText(col, x.val) = PushLabel(c, x.val)
    BY <1>3 DEF PushText
  <2> HIDE DEF c
  <2>6. Shaped(c)
    BY <1>0, <2>4, ShapedNext
  <2>7. Coded(c, f)
    BY <2>1, <2>2, <2>4 DEF Coded, Known
  <2> QED BY <1>1, <2>4, <2>5, <2>6, <2>7
<1>4. CASE col.kind = "category"
  <2>1. PushText(col, x.val) = PushLabel(col, x.val)
    BY <1>4 DEF PushText
  <2> QED BY <1>0, <1>1, <1>4, <2>1 DEF Fits, AsCodes
<1>5. CASE col.kind \in {"int", "float"}
  <2>1. PushText(col, x.val) = Skipped(col)
    BY <1>5 DEF PushText
  <2> QED BY <1>0, <1>5, <2>1, SkippedFits, TextOrNumber
<1> QED BY <1>0, <1>2, <1>3, <1>4, <1>5 DEF ColumnType, Kinds

(* old is what a float column holds for the fields of f. *)
SoFar(old, f) ==
  /\ old \in Seq(Floats) /\ Len(old) = Len(f)
  /\ \A r \in DOMAIN f : f[r].kind # "text" /\ AsFloat(f[r]) = old[r]

LEMMA FloatsSoFar ==
  ASSUME NEW f \in Seq(Fields), NEW col, Fits(col, f)
  PROVE  /\ col.kind = "empty" => SoFar(<<>>, f)
         /\ col.kind = "blank" => SoFar(Repeat(NaN, col.blanks), f)
         /\ col.kind = "int" => SoFar(Floated(col), f)
         /\ col.kind = "float" => SoFar(col.floats, f)
<1>0. /\ col \in ColumnType /\ DOMAIN f = 1 .. Len(f) /\ Len(f) \in Nat
      /\ \A r \in DOMAIN f : f[r] \in Fields
  BY DEF Fits, Shaped
<1>1. CASE col.kind = "empty"
  BY <1>1 DEF Fits, AsBlanks, SoFar
<1>2. CASE col.kind = "blank"
  <2>1. /\ col.blanks \in Nat /\ col.blanks = Len(f)
        /\ \A r \in DOMAIN f : f[r].kind = "blank"
    BY <1>0, <1>2 DEF ColumnType, Fits, AsBlanks
  <2>2. /\ Repeat(NaN, col.blanks) \in Seq(Floats)
        /\ Len(Repeat(NaN, col.blanks)) = col.blanks
        /\ \A r \in 1 .. col.blanks : Repeat(NaN, col.blanks)[r] = NaN
    BY <2>1, RepeatFacts, ConstantsAssumption
  <2>3. \A r \in DOMAIN f : AsFloat(f[r]) = NaN
    BY <2>1 DEF AsFloat
  <2> QED BY <1>0, <1>2, <2>1, <2>2, <2>3 DEF SoFar
<1>3. CASE col.kind = "int"
  <2>1. /\ col.ints \in Seq(Int64) /\ Len(col.ints) = Len(f)
        /\ \A r \in DOMAIN f : f[r].kind = "int" /\ f[r].val = col.ints[r]
    BY <1>0, <1>3 DEF ColumnType, Fits, AsInts
  <2>2. DOMAIN col.ints = 1 .. Len(f) /\ \A k \in DOMAIN col.ints : col.ints[k] \in Int64
    BY <1>0, <2>1
  <2>3. \A k \in DOMAIN col.ints : ToFloat[col.ints[k]] \in Floats
    BY <2>2, ConstantsAssumption
  <2>4. Floated(col) = [k \in 1 .. Len(f) |-> ToFloat[col.ints[k]]]
    BY <2>2 DEF Floated
  <2>5. Floated(col) \in Seq(Floats) /\ Len(Floated(col)) = Len(f)
    BY <1>0, <2>2, <2>3, <2>4
  <2>6. \A r \in DOMAIN f : AsFloat(f[r]) = Floated(col)[r]
    BY <1>0, <2>1, <2>4 DEF AsFloat
  <2> QED BY <1>3, <2>1, <2>5, <2>6 DEF SoFar
<1>4. CASE col.kind = "float"
  BY <1>0, <1>4 DEF Fits, AsFloats, SoFar, ColumnType
<1> QED BY <1>1, <1>2, <1>3, <1>4

LEMMA FloatFits ==
  ASSUME NEW f \in Seq(Fields), NEW x \in Fields, x.kind # "text",
         NEW old, SoFar(old, f), NEW col, Shaped(col), NEW next,
         next = [col EXCEPT !.kind = "float", !.floats = Append(old, AsFloat(x))],
         HasNumber(Append(f, x)),
         \E r \in DOMAIN Append(f, x) : Append(f, x)[r].kind # "int"
  PROVE  Fits(next, Append(f, x))
<1> DEFINE g == Append(f, x)
<1>1. old \in Seq(Floats) /\ Len(old) = Len(f) /\ AsFloat(x) \in Floats
  BY FieldFacts DEF SoFar
<1>2. Append(old, AsFloat(x)) \in Seq(Floats)
  BY <1>1
<1>3. /\ next \in ColumnType /\ next.kind = "float" /\ next.labels = col.labels
      /\ next.floats = Append(old, AsFloat(x))
  BY <1>2 DEF Shaped, ColumnType, Kinds
<1>4. Shaped(next)
  BY <1>3, ShapedNext
<1>5. /\ Len(next.floats) = Len(g)
      /\ \A r \in DOMAIN f : next.floats[r] = old[r] /\ g[r] = f[r]
      /\ next.floats[Len(f) + 1] = AsFloat(x) /\ g[Len(f) + 1] = x
      /\ \A r \in DOMAIN g : r \in DOMAIN f \/ r = Len(f) + 1
  <2>1. DOMAIN f = DOMAIN old
    BY <1>1, AppendFacts
  <2> QED BY <1>1, <1>3, <2>1, AppendFacts
<1> HIDE DEF g
<1>6. \A r \in DOMAIN g : g[r].kind # "text" /\ AsFloat(g[r]) = next.floats[r]
  BY <1>5 DEF SoFar
<1> QED BY <1>3, <1>4, <1>5, <1>6 DEF g, Fits, AsBlanks, AsInts, AsFloats, AsCodes, AsMixed

(* A blank and a number into a column of numbers or of nothing yet. *)
LEMMA BlankPushed ==
  ASSUME NEW f \in Seq(Fields), NEW x \in Fields, x.kind = "blank",
         NEW col, Fits(col, f), col.kind # "skip"
  PROVE  Fits(PushBlank(col), Append(f, x))
<1> DEFINE g == Append(f, x)
<1>0. /\ Shaped(col) /\ col \in ColumnType /\ AsFloat(x) = NaN
      /\ \E r \in DOMAIN g : g[r].kind # "int"
      /\ (HasNumber(f) => HasNumber(g)) /\ (HasText(f) => HasText(g))
  BY KindsPushed, FieldFacts, AppendFacts DEF Fits, Shaped
<1>1. CASE col.kind \in {"empty", "blank"}
  <2> DEFINE next == PushBlank(col)
  <2>1. CASE col.kind = "empty"
    <3>1. next = [col EXCEPT !.kind = "blank", !.blanks = 1] /\ f = <<>>
      BY <2>1 DEF PushBlank, Fits, AsBlanks
    <3>2. next \in ColumnType /\ next.kind = "blank" /\ next.blanks = Len(f) + 1
      <4>1. Len(f) + 1 = 1 /\ 1 \in Nat /\ next = [col EXCEPT !.kind = "blank", !.blanks = 1]
        BY <3>1
      <4> HIDE DEF next
      <4> QED BY <1>0, <4>1 DEF ColumnType, Kinds
    <3>3. next.labels = col.labels /\ next.codes = col.codes /\ next.overflow = col.overflow
      BY <1>0, <3>1 DEF ColumnType
    <3> QED BY <3>1, <3>2, <3>3, <1>0, <2>1, AppendFacts
            DEF Shaped, Fits, AsBlanks, AsInts, AsFloats, AsCodes, AsMixed
  <2>2. CASE col.kind = "blank"
    <3>1. /\ next = [col EXCEPT !.blanks = @ + 1] /\ col.blanks = Len(f)
          /\ \A r \in DOMAIN f : f[r].kind = "blank"
      BY <2>2 DEF PushBlank, Fits, AsBlanks
    <3>2. next \in ColumnType /\ next.kind = "blank" /\ next.blanks = Len(f) + 1
      <4>1. Len(f) + 1 \in Nat /\ next = [col EXCEPT !.blanks = Len(f) + 1]
        BY <1>0, <3>1, AppendFacts DEF ColumnType
      <4> HIDE DEF next
      <4> QED BY <1>0, <2>2, <4>1 DEF ColumnType
    <3>3. next.labels = col.labels /\ next.codes = col.codes /\ next.overflow = col.overflow
      BY <1>0, <3>1 DEF ColumnType
    <3>4. \A r \in DOMAIN g : g[r].kind = "blank"
      BY <3>1, AppendFacts
    <3> HIDE DEF next
    <3>5. Shaped(next)
      BY <1>0, <2>2, <3>2, <3>3 DEF Shaped
    <3> QED BY <3>2, <3>4, <3>5, AppendFacts
            DEF next, Fits, AsBlanks, AsInts, AsFloats, AsCodes, AsMixed
  <2> QED BY <1>1, <2>1, <2>2
<1>2. CASE col.kind \in {"int", "float"}
  <2>1. HasNumber(g)
    BY <1>0, <1>2, TextOrNumber
  <2>2. CASE col.kind = "int"
    <3>1. PushBlank(col)
            = [col EXCEPT !.kind = "float", !.floats = Append(Floated(col), AsFloat(x))]
      BY <1>0, <2>2 DEF PushBlank
    <3> QED BY <1>0, <2>1, <2>2, <3>1, FloatsSoFar, FloatFits
  <2>3. CASE col.kind = "float"
    <3>1. PushBlank(col)
            = [col EXCEPT !.kind = "float", !.floats = Append(col.floats, AsFloat(x))]
      BY <1>0, <2>3 DEF PushBlank, ColumnType
    <3> QED BY <1>0, <2>1, <2>3, <3>1, FloatsSoFar, FloatFits
  <2> QED BY <1>2, <2>2, <2>3
<1>3. CASE col.kind = "category"
  <2>1. PushBlank(col) = PushMissing(col)
    BY <1>3 DEF PushBlank
  <2>2. HasText(g) /\ Coded(col, f)
    BY <1>0, <1>3 DEF Fits, AsCodes
  <2> QED BY <1>0, <1>3, <2>1, <2>2, MissingPushed, CategoryFits
<1> QED BY <1>0, <1>1, <1>2, <1>3 DEF ColumnType, Kinds

(* Of the number columns: a number turns what is no integer to floats. *)
LEMMA FloatPushed ==
  ASSUME NEW f \in Seq(Fields), NEW x \in Fields, x.kind = "float",
         NEW col, Fits(col, f), col.kind # "skip"
  PROVE  Fits(PushFloat(col, x.val), Append(f, x))
<1> DEFINE g == Append(f, x)
<1>0. /\ Shaped(col) /\ col \in ColumnType /\ AsFloat(x) = x.val /\ x.val \in Floats
      /\ HasNumber(g) /\ \E r \in DOMAIN g : g[r].kind # "int"
      /\ (HasText(f) => HasText(g))
  BY KindsPushed, FieldFacts, AppendFacts DEF Fits, Shaped
<1>1. CASE col.kind = "category"
  <2>1. PushFloat(col, x.val) = Skipped(col)
    BY <1>1 DEF PushFloat
  <2> QED BY <1>0, <1>1, <2>1, SkippedFits, TextOrNumber
<1>2. ASSUME NEW old, SoFar(old, f),
             PushFloat(col, x.val) = [col EXCEPT !.kind = "float", !.floats = Append(old, x.val)]
      PROVE  Fits(PushFloat(col, x.val), g)
  BY <1>0, <1>2, FloatFits
<1>3. CASE col.kind = "empty"
  <2>1. PushFloat(col, x.val)
          = [col EXCEPT !.kind = "float", !.floats = Append(<<>>, x.val)]
    BY <1>0, <1>3 DEF PushFloat
  <2> QED BY <1>2, <1>3, <2>1, FloatsSoFar
<1>4. CASE col.kind = "blank"
  BY <1>2, <1>4, FloatsSoFar DEF PushFloat
<1>5. CASE col.kind = "int"
  BY <1>2, <1>5, FloatsSoFar DEF PushFloat
<1>6. CASE col.kind = "float"
  <2>1. PushFloat(col, x.val)
          = [col EXCEPT !.kind = "float", !.floats = Append(col.floats, x.val)]
    BY <1>0, <1>6 DEF PushFloat, ColumnType
  <2> QED BY <1>2, <1>6, <2>1, FloatsSoFar
<1> QED BY <1>0, <1>1, <1>3, <1>4, <1>5, <1>6 DEF ColumnType, Kinds

LEMMA IntPushed ==
  ASSUME NEW f \in Seq(Fields), NEW x \in Fields, x.kind = "int",
         NEW col, Fits(col, f), col.kind # "skip"
  PROVE  Fits(PushInt(col, x.val), Append(f, x))
<1> DEFINE g == Append(f, x)
<1>0. /\ Shaped(col) /\ col \in ColumnType /\ x.val \in Int64
      /\ AsFloat(x) = ToFloat[x.val] /\ HasNumber(g) /\ (HasText(f) => HasText(g))
  BY KindsPushed, FieldFacts DEF Fits, Shaped
<1>1. CASE col.kind = "category"
  <2>1. PushInt(col, x.val) = Skipped(col)
    BY <1>1 DEF PushInt
  <2> QED BY <1>0, <1>1, <2>1, SkippedFits, TextOrNumber
<1>2. CASE col.kind \in {"empty", "int"}
  <2> DEFINE next == PushInt(col, x.val)
  <2>1. PICK old \in Seq(Int64) :
          /\ next = [col EXCEPT !.kind = "int", !.ints = Append(old, x.val)]
          /\ Len(old) = Len(f)
          /\ \A r \in DOMAIN f : f[r].kind = "int" /\ f[r].val = old[r]
    <3>1. CASE col.kind = "empty"
      <4>1. next = [col EXCEPT !.kind = "int", !.ints = Append(<<>>, x.val)] /\ f = <<>>
        BY <1>0, <3>1 DEF PushInt, Fits, AsBlanks
      <4>2. <<>> \in Seq(Int64) /\ Len(<<>>) = Len(f) /\ DOMAIN f = {}
        BY <4>1
      <4> QED BY <4>1, <4>2
    <3>2. CASE col.kind = "int"
      <4>1. next = [col EXCEPT !.kind = "int", !.ints = Append(col.ints, x.val)]
        BY <1>0, <3>2 DEF PushInt, ColumnType
      <4>2. col.ints \in Seq(Int64)
        BY <1>0 DEF ColumnType
      <4> QED BY <3>2, <4>1, <4>2 DEF Fits, AsInts
    <3> QED BY <1>2, <3>1, <3>2
  <2>2. Append(old, x.val) \in Seq(Int64)
    BY <1>0
  <2>3. /\ next \in ColumnType /\ next.kind = "int" /\ next.labels = col.labels
        /\ next.ints = Append(old, x.val)
    <3>1. "int" \in Kinds /\ col \in ColumnType
      BY <1>0 DEF Kinds
    <3>2. next = [col EXCEPT !.kind = "int", !.ints = Append(old, x.val)]
      BY <2>1
    <3> HIDE DEF next
    <3> QED BY <2>2, <3>1, <3>2 DEF ColumnType
  <2> HIDE DEF next
  <2>4. Shaped(next)
    BY <1>0, <2>3, ShapedNext
  <2>5. /\ Len(next.ints) = Len(g) /\ g # <<>>
        /\ \A r \in DOMAIN g : g[r].kind = "int" /\ g[r].val = next.ints[r]
    <3>1. DOMAIN old = DOMAIN f
      BY <2>1, AppendFacts
    <3>2. /\ Len(Append(old, x.val)) = Len(old) + 1
          /\ Append(old, x.val)[Len(old) + 1] = x.val
          /\ \A r \in DOMAIN old : Append(old, x.val)[r] = old[r]
      BY <1>0, AppendFacts
    <3> QED BY <2>1, <2>3, <3>1, <3>2, AppendFacts
  <2> QED BY <2>3, <2>4, <2>5
          DEF next, Fits, AsBlanks, AsInts, AsFloats, AsCodes, AsMixed
<1>3. ASSUME NEW old, SoFar(old, f), \E r \in DOMAIN g : g[r].kind # "int",
             PushInt(col, x.val)
               = [col EXCEPT !.kind = "float", !.floats = Append(old, ToFloat[x.val])]
      PROVE  Fits(PushInt(col, x.val), g)
  BY <1>0, <1>3, FloatFits
<1>4. CASE col.kind = "blank"
  <2>1. \E r \in DOMAIN g : g[r].kind # "int"
    <3>1. 1 \in DOMAIN f /\ f[1].kind = "blank"
      <4>1. f # <<>> /\ \A r \in DOMAIN f : f[r].kind = "blank"
        BY <1>4 DEF Fits, AsBlanks
      <4>2. f # <<>> => 1 \in DOMAIN f
        OBVIOUS
      <4> QED BY <4>1, <4>2
    <3> QED BY <3>1, AppendFacts
  <2> QED BY <1>3, <1>4, <2>1, FloatsSoFar DEF PushInt
<1>5. CASE col.kind = "float"
  <2>1. \E r \in DOMAIN g : g[r].kind # "int"
    BY <1>5, AppendFacts DEF Fits, AsFloats
  <2>2. PushInt(col, x.val)
          = [col EXCEPT !.kind = "float", !.floats = Append(col.floats, ToFloat[x.val])]
    BY <1>0, <1>5 DEF PushInt, ColumnType
  <2> QED BY <1>3, <1>5, <2>1, <2>2, FloatsSoFar
<1> QED BY <1>0, <1>1, <1>2, <1>4, <1>5 DEF ColumnType, Kinds

(* push keeps the column what its fields make of it. *)
LEMMA PushFits ==
  ASSUME NEW f \in Seq(Fields), NEW x \in Fields, NEW col, Fits(col, f)
  PROVE  Fits(Push(col, x), Append(f, x))
<1>1. CASE col.kind = "skip"
  <2>1. HasText(f) /\ HasNumber(f) /\ Push(col, x) = col /\ Shaped(col)
    BY <1>1 DEF Fits, AsMixed, Push
  <2>2. HasText(Append(f, x)) /\ HasNumber(Append(f, x))
    BY <2>1, KindsPushed
  <2> QED BY <1>1, <2>1, <2>2 DEF Fits, AsBlanks, AsInts, AsFloats, AsCodes, AsMixed
<1>2. CASE col.kind # "skip" /\ x.kind = "text"
  BY <1>2, TextPushed DEF Push
<1>3. CASE col.kind # "skip" /\ x.kind = "blank"
  BY <1>3, BlankPushed DEF Push
<1>4. CASE col.kind # "skip" /\ x.kind = "int"
  BY <1>4, IntPushed DEF Push
<1>5. CASE col.kind # "skip" /\ x.kind = "float"
  BY <1>5, FloatPushed DEF Push
<1> QED BY <1>1, <1>2, <1>3, <1>4, <1>5, FieldFacts

-----------------------------------------------------------------------------
(* Rows: the columns of the table read so far *)

LEMMA ColumnFacts ==
  ASSUME ReadInv, NEW i \in Cols
  PROVE  /\ Len(body) \in Nat /\ DOMAIN body = 1 .. Len(body)
         /\ Column(i) \in Seq(Fields) /\ Len(Column(i)) = Len(body)
         /\ DOMAIN Column(i) = DOMAIN body
         /\ \A r \in DOMAIN body : Column(i)[r] = FieldAt(r, i)
<1>1. body \in Seq(Rows) /\ Len(body) \in Nat /\ DOMAIN body = 1 .. Len(body)
  BY DEF ReadInv
<1>2. \A r \in 1 .. Len(body) : FieldAt(r, i) \in Fields
  <2> SUFFICES ASSUME NEW r \in 1 .. Len(body) PROVE FieldAt(r, i) \in Fields
    OBVIOUS
  <2>1. body[r] \in Rows
    BY <1>1
  <2>2. body[r][i] \in Cells
    BY <2>1 DEF Rows
  <2> QED BY <2>2, ClassifyField DEF FieldAt
<1> QED BY <1>1, <1>2 DEF Column

LEMMA RowPushed ==
  ASSUME ReadInv, ColumnsInv, NEW row \in Rows, PushRow(row)
  PROVE  /\ body' \in Seq(Rows)
         /\ columns' \in [Cols -> ColumnType]
         /\ ColumnsInv'
<1>1. /\ body' = Append(body, row) /\ body \in Seq(Rows) /\ row \in [Cols -> Cells]
      /\ columns' = [i \in Cols |-> Push(columns[i], Classify(row[i]))]
  BY DEF PushRow, ReadInv, Rows
<1>2. ASSUME NEW i \in Cols PROVE Fits(columns[i], Column(i))'
  <2>1. Classify(row[i]) \in Fields
    BY <1>1, ClassifyField
  <2>2. Column(i)' = Append(Column(i), Classify(row[i]))
    <3>1. /\ Len(body') = Len(body) + 1 /\ body'[Len(body) + 1] = row
          /\ \A r \in 1 .. Len(body) : body'[r] = body[r]
      BY <1>1
    <3>2. \A r \in 1 .. Len(body) : FieldAt(r, i)' = FieldAt(r, i)
      BY <3>1 DEF FieldAt
    <3>3. \A r : r = Len(body) + 1 => FieldAt(r, i)' = Classify(row[i])
      BY <3>1, ColumnFacts DEF FieldAt
    <3>4. /\ Column(i)' = [r \in 1 .. Len(body) + 1 |-> FieldAt(r, i)']
          /\ Column(i) = [r \in 1 .. Len(body) |-> FieldAt(r, i)]
      BY <3>1 DEF Column
    <3>5. \A r \in 1 .. Len(body) + 1 : FieldAt(r, i)' = Append(Column(i), Classify(row[i]))[r]
      BY <2>1, <3>2, <3>3, ColumnFacts, AppendFacts
    <3>6. Append(Column(i), Classify(row[i]))
            = [r \in 1 .. Len(body) + 1 |-> Append(Column(i), Classify(row[i]))[r]]
      <4>1. ASSUME NEW s \in Seq(Fields), NEW n \in Nat, DOMAIN s = 1 .. n
            PROVE  s = [r \in 1 .. n |-> s[r]]
        BY <4>1
      <4> QED BY <2>1, <4>1, ColumnFacts, AppendFacts
    <3> QED BY <3>4, <3>5, <3>6
  <2>3. Fits(columns[i], Column(i)) /\ Column(i) \in Seq(Fields)
    BY ColumnFacts DEF ColumnsInv
  <2>4. columns'[i] = Push(columns[i], Classify(row[i]))
    BY <1>1
  <2>5. Fits(Push(columns[i], Classify(row[i])), Append(Column(i), Classify(row[i])))
    BY <2>1, <2>3, PushFits
  <2> QED BY <2>2, <2>4, <2>5
<1>3. columns' \in [Cols -> ColumnType]
  BY <1>1, <1>2 DEF Fits, Shaped
<1> QED BY <1>1, <1>2, <1>3 DEF ColumnsInv

LEMMA EmptyFits == Fits(EmptyColumn, <<>>)
<1>1. EmptyColumn \in ColumnType /\ EmptyColumn.kind = "empty"
  BY DEF EmptyColumn, ColumnType, Kinds
<1>2. Shaped(EmptyColumn)
  BY <1>1, ConstantsAssumption DEF Shaped, EmptyColumn
<1> QED BY <1>1, <1>2 DEF Fits, AsBlanks, AsInts, AsFloats, AsCodes, AsMixed

LEMMA FinishType == \A col \in ColumnType : Finish(col) \in ImportType
<1> SUFFICES ASSUME NEW col \in ColumnType PROVE Finish(col) \in ImportType
  OBVIOUS
<1>1. /\ col.ints \in Seq(Int64 \cup Floats \cup Int)
      /\ col.floats \in Seq(Int64 \cup Floats \cup Int)
      /\ col.codes \in Seq(Int64 \cup Floats \cup Int)
      /\ col.labels \in Seq(Labels)
  BY DEF ColumnType
<1>2. <<>> \in Seq(Int64 \cup Floats \cup Int) /\ <<>> \in Seq(Labels)
  OBVIOUS
<1> QED BY <1>1, <1>2 DEF Finish, Dropped, ImportType

LEMMA HeaderCell ==
  \A row \in Rows : [i \in Cols |-> HeaderName(row, i)] \in [Cols -> Cells]
BY ConstantsAssumption DEF HeaderName, Rows, Cells

LEMMA InitInv == Init => ReadInv /\ ColumnsInv /\ ImportedInv
<1> SUFFICES ASSUME Init PROVE ReadInv /\ ColumnsInv /\ ImportedInv
  OBVIOUS
<1>1. columns = [i \in Cols |-> EmptyColumn] /\ body = <<>> /\ phase = "start"
  BY DEF Init
<1>2. ColumnsInv
  BY <1>1, EmptyFits DEF ColumnsInv, Column
<1>3. columns \in [Cols -> ColumnType]
  BY <1>1, <1>2 DEF ColumnsInv, Fits, Shaped
<1>4. Dropped \in ImportType
  BY DEF Dropped, ImportType
<1>5. names \in [Cols -> Cells]
  BY ConstantsAssumption DEF Init, Cells
<1>6. <<>> \in Seq(Rows) /\ imports = [i \in Cols |-> Dropped]
  BY DEF Init
<1>7. ReadInv
  BY <1>1, <1>3, <1>4, <1>5, <1>6 DEF ReadInv
<1>8. ImportedInv
  BY <1>1, <1>6 DEF ImportedInv
<1> QED BY <1>2, <1>5, <1>7, <1>8

LEMMA StepInv ==
  ASSUME ReadInv, ColumnsInv, ImportedInv, [Next]_vars
  PROVE  ReadInv' /\ ColumnsInv' /\ ImportedInv'
<1>1. CASE UNCHANGED vars
  BY <1>1 DEF vars, ReadInv, ColumnsInv, Column, FieldAt, ImportedInv
<1>2. ASSUME NEW row \in Rows, ReadHeader(row)
      PROVE  ReadInv' /\ ColumnsInv' /\ ImportedInv'
  <2>1. names' \in [Cols -> Cells]
    BY <1>2, HeaderCell DEF ReadHeader
  <2>2. ReadInv' /\ ImportedInv'
    BY <1>2, <2>1 DEF ReadHeader, ReadInv, ImportedInv
  <2>3. ColumnsInv'
    BY <1>2 DEF ReadHeader, ColumnsInv, Column, FieldAt
  <2> QED BY <2>2, <2>3
<1>3. ASSUME NEW row \in Rows, DuplicateNames(row)
      PROVE  ReadInv' /\ ColumnsInv' /\ ImportedInv'
  BY <1>3 DEF DuplicateNames, ReadInv, ColumnsInv, Column, FieldAt, ImportedInv
<1>4. ASSUME NEW row \in Rows, ReadFirstRow(row) \/ ReadRow(row)
      PROVE  ReadInv' /\ ColumnsInv' /\ ImportedInv'
  <2>1. /\ PushRow(row) /\ phase \in {"start", "body"} /\ phase' = "body"
        /\ UNCHANGED <<names, imports>>
    BY <1>4 DEF ReadFirstRow, ReadRow
  <2>2. body' \in Seq(Rows) /\ columns' \in [Cols -> ColumnType] /\ ColumnsInv'
    BY <2>1, RowPushed
  <2> QED BY <2>1, <2>2 DEF ReadInv, ImportedInv
<1>5. CASE ReadRagged
  <2>1. /\ phase' = "raised" /\ columns' = [i \in Cols |-> EmptyColumn] /\ body' = <<>>
        /\ UNCHANGED <<names, imports>>
    BY <1>5 DEF ReadRagged
  <2>2. \A i \in Cols : Column(i)' = <<>>
    BY <2>1 DEF Column
  <2>3. ColumnsInv' /\ columns' \in [Cols -> ColumnType]
    BY <2>1, <2>2, EmptyFits DEF ColumnsInv, Fits, Shaped
  <2>4. body' \in Seq(Rows)
    BY <2>1
  <2> QED BY <2>1, <2>3, <2>4 DEF ReadInv, ImportedInv
<1>6. CASE EndOfTable
  <2>1. /\ phase = "body" /\ phase' \in {"imported", "raised"}
        /\ imports' = [i \in Cols |-> Finish(columns[i])]
        /\ UNCHANGED <<names, columns, body>>
    BY <1>6 DEF EndOfTable
  <2>2. imports' \in [Cols -> ImportType]
    BY <2>1, FinishType DEF ReadInv
  <2>3. ColumnsInv'
    BY <2>1 DEF ColumnsInv, Column, FieldAt
  <2> QED BY <2>1, <2>2, <2>3 DEF ReadInv, ImportedInv
<1>7. CASE EmptyTable
  BY <1>7 DEF EmptyTable, ReadInv, ColumnsInv, Column, FieldAt, ImportedInv
<1> QED BY <1>1, <1>2, <1>3, <1>4, <1>5, <1>6, <1>7 DEF Next

THEOREM TableInv == Spec => [](ReadInv /\ ColumnsInv /\ ImportedInv)
BY InitInv, StepInv, PTL DEF Spec

-----------------------------------------------------------------------------
(* What the invariant says of the properties *)

LEMMA FaithfulRow ==
  ASSUME ReadInv, ColumnsInv, NEW i \in Cols
  PROVE  RowFaithful(i)
<1>1. Fits(columns[i], Column(i))
  BY DEF ColumnsInv
<1>2. /\ Len(Column(i)) = Len(body) /\ DOMAIN Column(i) = DOMAIN body
      /\ \A r \in DOMAIN body : Column(i)[r] = FieldAt(r, i)
  BY ColumnFacts
<1>3. columns[i].kind = "empty" => body = <<>>
  <2>1. Column(i) = <<>> => Len(body) = 0
    BY <1>2
  <2>2. body \in Seq(Rows) /\ (Len(body) = 0 => body = <<>>)
    BY DEF ReadInv
  <2> QED BY <1>1, <2>1, <2>2 DEF Fits, AsBlanks
<1>4. columns[i].kind = "blank" =>
        /\ columns[i].blanks = Len(body)
        /\ \A r \in DOMAIN body : FieldAt(r, i).kind = "blank"
  BY <1>1, <1>2 DEF Fits, AsBlanks
<1>5. columns[i].kind = "int" =>
        /\ Len(columns[i].ints) = Len(body)
        /\ \A r \in DOMAIN body :
             FieldAt(r, i).kind = "int" /\ FieldAt(r, i).val = columns[i].ints[r]
  BY <1>1, <1>2 DEF Fits, AsInts
<1>6. columns[i].kind = "float" =>
        /\ Len(columns[i].floats) = Len(body)
        /\ \A r \in DOMAIN body :
             FieldAt(r, i).kind # "text" /\ AsFloat(FieldAt(r, i)) = columns[i].floats[r]
  BY <1>1, <1>2 DEF Fits, AsFloats
<1>7. columns[i].kind = "category" /\ ~columns[i].overflow =>
        /\ Len(columns[i].codes) = Len(body)
        /\ \A r \in DOMAIN body :
             \/ FieldAt(r, i).kind = "blank" /\ columns[i].codes[r] = Missing
             \/ /\ FieldAt(r, i).kind = "text"
                /\ columns[i].codes[r] + 1 \in DOMAIN columns[i].labels
                /\ columns[i].labels[columns[i].codes[r] + 1] = FieldAt(r, i).val
  BY <1>1, <1>2 DEF Fits, AsCodes, Coded
<1> QED BY <1>3, <1>4, <1>5, <1>6, <1>7 DEF RowFaithful

(* A column is finished as its fields say, in whatever order they came. *)
LEMMA FinishExpected ==
  ASSUME ReadInv, ColumnsInv, NEW i \in Cols
  PROVE  Finish(columns[i]).type = ExpectedType(i)
<1> DEFINE col == columns[i]
           f == Column(i)
           Real == \E r \in DOMAIN body : AsFloat(FieldAt(r, i)) # NaN
<1>1. /\ Fits(col, f) /\ col \in ColumnType /\ Shaped(col)
      /\ Len(f) \in Nat /\ f \in Seq(Fields)
  BY ColumnFacts DEF ColumnsInv, Fits, Shaped
<1>2. DOMAIN f = DOMAIN body /\ \A r \in DOMAIN body : f[r] = FieldAt(r, i)
  BY ColumnFacts
<1>3. /\ FieldKinds(i) = {f[r].kind : r \in DOMAIN f}
      /\ Texts(i) = TextsOf(f)
      /\ Real <=> \E r \in DOMAIN f : AsFloat(f[r]) # NaN
  BY <1>2 DEF FieldKinds, Texts, TextsOf
<1>4. /\ HasText(f) <=> "text" \in FieldKinds(i)
      /\ HasNumber(f) <=> ("int" \in FieldKinds(i) \/ "float" \in FieldKinds(i))
  BY <1>3 DEF HasText, HasNumber
<1> DEFINE kinds == FieldKinds(i)
<1>5. ExpectedType(i)
        = IF kinds = {"int"} THEN "int64"
          ELSE IF kinds \subseteq {"int", "float", "blank"} /\ Real THEN "float64"
          ELSE IF kinds \subseteq {"text", "blank"} /\ "text" \in kinds
                  /\ Cardinality(Texts(i)) <= MaxLabels THEN "codes"
          ELSE "none"
  BY DEF ExpectedType
<1>6. CASE col.kind = "empty"
  <2>1. kinds = {} /\ ~Real
    BY <1>1, <1>3, <1>6 DEF Fits, AsBlanks
  <2>2. Finish(col).type = "none"
    BY <1>6 DEF Finish, Dropped
  <2> QED BY <1>5, <2>1, <2>2
<1>7. CASE col.kind = "blank"
  <2>1. kinds \subseteq {"blank"} /\ ~Real
    BY <1>1, <1>3, <1>7 DEF Fits, AsBlanks, AsFloat
  <2>2. Finish(col).type = "none"
    BY <1>7 DEF Finish, Dropped
  <2> QED BY <1>5, <2>1, <2>2
<1>8. CASE col.kind = "int"
  <2>1. f # <<>> /\ Len(col.ints) = Len(f) /\ \A r \in DOMAIN f : f[r].kind = "int"
    BY <1>1, <1>8 DEF Fits, AsInts
  <2>2. 1 \in DOMAIN f /\ Len(f) > 0
    BY <1>1, <2>1
  <2>3. kinds = {"int"}
    BY <1>3, <2>1, <2>2
  <2>4. col.ints # <<>>
    BY <2>1, <2>2
  <2>5. Finish(col).type = "int64"
    BY <1>8, <2>4 DEF Finish
  <2> QED BY <1>5, <2>3, <2>5
<1>9. CASE col.kind = "float"
  <2>1. /\ Len(col.floats) = Len(f)
        /\ \E r \in DOMAIN f : f[r].kind # "int"
        /\ \A r \in DOMAIN f : f[r].kind # "text" /\ AsFloat(f[r]) = col.floats[r]
    BY <1>1, <1>9 DEF Fits, AsFloats
  <2>2. \A r \in DOMAIN f : f[r].kind \in {"int", "float", "blank"}
    BY <1>1, <2>1, FieldFacts
  <2>3. kinds # {"int"} /\ kinds \subseteq {"int", "float", "blank"}
    BY <1>3, <2>1, <2>2
  <2>4. Real <=> \E k \in DOMAIN col.floats : col.floats[k] # NaN
    <3>1. DOMAIN col.floats = DOMAIN f
      BY <1>1, <2>1 DEF ColumnType
    <3> QED BY <1>3, <2>1, <3>1
  <2>5. Finish(col).type = IF Real THEN "float64" ELSE "none"
    BY <1>9, <2>4 DEF Finish, Dropped
  <2>6. "text" \notin kinds
    BY <2>3
  <2> QED BY <1>5, <2>3, <2>5, <2>6
<1>10. CASE col.kind = "category"
  <2>1. "text" \in kinds /\ kinds \subseteq {"text", "blank"}
    BY <1>1, <1>3, <1>4, <1>10 DEF Fits, AsCodes, Coded
  <2>2. kinds # {"int"} /\ ~(kinds \subseteq {"int", "float", "blank"})
    BY <2>1
  <2>3. IsFiniteSet(TextsOf(f)) /\ Cardinality(TextsOf(f)) \in Nat
    BY <1>1, TextsFinite, FS_CardinalityType
  <2>4. CASE col.overflow
    <3>1. ~(Cardinality(Texts(i)) <= MaxLabels)
      BY <1>1, <1>3, <1>10, <2>3, <2>4, ConstantsAssumption DEF Fits, AsCodes, Coded
    <3>2. Finish(col).type = "none"
      BY <1>10, <2>4 DEF Finish, Dropped
    <3> QED BY <1>5, <2>2, <3>1, <3>2
  <2>5. CASE ~col.overflow
    <3>1. /\ Known(col) \subseteq TextsOf(f)
          /\ \A r \in DOMAIN f : f[r].kind = "text" =>
               \E k \in DOMAIN col.labels : col.labels[k] = f[r].val
      BY <1>1, <1>10, <2>5 DEF Fits, AsCodes, Coded
    <3>2. Known(col) = TextsOf(f)
      BY <3>1 DEF Known, TextsOf
    <3>3. Cardinality(Known(col)) = Len(col.labels) /\ Len(col.labels) <= MaxLabels
      BY <1>1, NoteSize DEF Shaped, ColumnType, Known
    <3>4. col.labels # <<>>
      <4>1. PICK r \in DOMAIN f : f[r].kind = "text"
        BY <1>4, <2>1 DEF HasText
      <4>2. DOMAIN col.labels # {}
        BY <3>1, <4>1
      <4> QED BY <4>2
    <3>5. Finish(col).type = "codes"
      BY <1>10, <2>5, <3>4 DEF Finish
    <3>6. Cardinality(Texts(i)) <= MaxLabels
      BY <1>3, <3>2, <3>3
    <3> QED BY <1>5, <2>1, <2>2, <3>5, <3>6
  <2> QED BY <2>4, <2>5
<1>11. CASE col.kind = "skip"
  <2>1. "text" \in kinds /\ ("int" \in kinds \/ "float" \in kinds)
    BY <1>1, <1>4, <1>11 DEF Fits, AsMixed
  <2>2. /\ kinds # {"int"} /\ ~(kinds \subseteq {"int", "float", "blank"})
        /\ ~(kinds \subseteq {"text", "blank"})
    BY <2>1
  <2>3. Finish(col).type = "none"
    BY <1>11 DEF Finish, Dropped
  <2> QED BY <1>5, <2>2, <2>3
<1> QED BY <1>1, <1>6, <1>7, <1>8, <1>9, <1>10, <1>11 DEF ColumnType, Kinds

-----------------------------------------------------------------------------
(* The theorems.  None assumes more than TableImport does. *)

(* Every column stays a well-formed _Column whatever is pushed, and no
   category note outgrows an attribute (_Column.push, _Category.push). *)
THEOREM TableTypeCorrect == Spec => []TypeOK
<1>1. ReadInv /\ ColumnsInv => TypeOK
  BY DEF ReadInv, ColumnsInv, Fits, Shaped, TypeOK
<1> QED BY <1>1, TableInv, PTL

(* Row r of every column is row r of the table, however often the column
   changed its representation (_Column.push). *)
THEOREM RowsAlwaysFaithful == Spec => []RowsFaithful
<1>1. ReadInv /\ ColumnsInv => RowsFaithful
  BY FaithfulRow DEF RowsFaithful
<1> QED BY <1>1, TableInv, PTL

(* A category note gives one code to a label and one label to a code
   (_Category.push). *)
THEOREM NoteAlwaysInvertible == Spec => []NoteInvertible
<1>1. ColumnsInv => NoteInvertible
  BY DEF ColumnsInv, Fits, Shaped, NoteInvertible
<1> QED BY <1>1, TableInv, PTL

(* What a column becomes, or that it is dropped, follows from the set of its
   fields alone, for every table (_Column.push and finish, _load_table). *)
THEOREM ImportsAlwaysExpected == Spec => []ImportsExpected
<1>1. ReadInv /\ ColumnsInv /\ ImportedInv => ImportsExpected
  BY FinishExpected DEF ImportedInv, ImportsExpected
<1> QED BY <1>1, TableInv, PTL
=============================================================================
