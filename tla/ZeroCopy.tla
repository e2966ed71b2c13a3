------------------------------ MODULE ZeroCopy ------------------------------
(***************************************************************************)
(* read_numpy of a local file: native/src/numpy_export.rs.  A selection is *)
(* answered with a memmap of the file when the bytes on disk already are   *)
(* the selection in row-major order, and with a copy otherwise.            *)
(*                                                                         *)
(* The dataset is cut into chunks; the file holds the payload of each      *)
(* chunk somewhere, row-major, raw or compressed.  Lengths and offsets are *)
(* counted in elements.  The read plan is tetration's: the chunks that the *)
(* selection touches, in row-major order of their index.  Whether a chunk  *)
(* at the edge is stored with padding is not known here, so both are.      *)
(***************************************************************************)
EXTENDS Integers, Sequences, FiniteSets, SequencesExt

CONSTANTS
  Rank,      \* axes of the dataset
  MaxDim,    \* bound: extent of an axis
  MaxStep    \* bound: step of a slice

Axes == 1 .. Rank
Dims == 1 .. MaxDim

ASSUME ConstantsAssumption ==
  /\ Rank \in Nat \ {0} /\ MaxDim \in Nat \ {0} /\ MaxStep \in Nat \ {0}

VARIABLES
  shape,     \* the dataset's shape
  chunk,     \* its chunk shape
  sel,       \* axis -> [lo, hi, step], half open
  file,      \* the payload section: which element every cell holds
  stored,    \* chunk index -> [at, len, raw]
  pc,        \* "open", "asked", "planned" or "answered"
  plan,      \* the chunks of the read plan, in order
  answer     \* how the array was made, and its elements

vars == <<shape, chunk, sel, file, stored, pc, plan, answer>>

(* The index tuples of a box, and a set of them in row-major order. *)
Boxed(box) == {i \in [Axes -> UNION {box[a] : a \in Axes}] :
                 \A a \in Axes : i[a] \in box[a]}
Before(i, j) ==
  \E a \in Axes : i[a] < j[a] /\ \A b \in Axes : b < a => i[b] = j[b]
RowMajor(tuples) ==
  [n \in 1 .. Cardinality(tuples) |->
     CHOOSE i \in tuples : Cardinality({j \in tuples : Before(j, i)}) = n - 1]

Ceil(n, d) == (n + d - 1) \div d
Grid(s, c) == Boxed([a \in Axes |-> 0 .. Ceil(s[a], c[a]) - 1])

(* Tuples that are nobody's index. *)
Pad     == [a \in Axes |-> 3 * MaxDim]
Other   == [a \in Axes |-> 4 * MaxDim]
NoChunk == [a \in Axes |-> 5 * MaxDim]

(* The cells of chunk k, and those of them that are in the dataset. *)
Cells(c, k) == Boxed([a \in Axes |-> k[a] * c[a] .. (k[a] + 1) * c[a] - 1])
Inside(s, i) == \A a \in Axes : i[a] < s[a]
Elements(s, c, k) == {i \in Cells(c, k) : Inside(s, i)}

(* What a chunk's payload holds: the dataset's elements, and padding where
   an edge chunk is stored whole. *)
Payload(s, c, k, padded) ==
  IF padded THEN [n \in 1 .. Cardinality(Cells(c, k)) |->
                    LET i == RowMajor(Cells(c, k))[n]
                    IN  IF Inside(s, i) THEN i ELSE Pad]
  ELSE RowMajor(Elements(s, c, k))

(* The sums of the first 0, 1, 2, ... numbers of a sequence. *)
Sums(f) ==
  LET sum[n \in 0 .. Len(f)] == IF n = 0 THEN 0 ELSE sum[n - 1] + f[n]
  IN  sum

(* Where the payloads end that lie in the order of the sequence at, with one
   cell of other data before chunk gap. *)
Ends(payloads, at, gap) ==
  Sums([n \in DOMAIN at |-> Len(payloads[at[n]]) + (IF at[n] = gap THEN 1 ELSE 0)])

NoAnswer == [by |-> "none", elements |-> <<>>]

(* The file that is read.  A writer lays the chunks out in row-major order
   with nothing between them; the reader must not rely on it.  Chunk packed
   is compressed, to the length it had. *)
Lay(payloads, at, gap, packed) ==
  LET ends == Ends(payloads, at, gap)
      Place(k) == CHOOSE n \in DOMAIN at : at[n] = k
      Holds(k, x) == /\ stored[k].raw
                     /\ stored[k].at < x /\ x <= stored[k].at + stored[k].len
  IN  /\ stored = [k \in DOMAIN payloads |->
                     [at |-> ends[Place(k)] - Len(payloads[k]),
                      len |-> Len(payloads[k]), raw |-> k # packed]]
      /\ file = [x \in 1 .. ends[Len(at)] |->
                   IF \E k \in DOMAIN payloads : Holds(k, x)
                     THEN LET k == CHOOSE k \in DOMAIN payloads : Holds(k, x)
                          IN  payloads[k][x - stored[k].at]
                     ELSE Other]

Slices == {s \in [lo : 0 .. MaxDim - 1, hi : Dims, step : 1 .. MaxStep] : s.lo < s.hi}

Init ==
  /\ shape \in [Axes -> Dims]
  /\ chunk \in [Axes -> Dims]
  /\ \E payloads \in {[k \in Grid(shape, chunk) |-> Payload(shape, chunk, k, padded)] :
                       padded \in BOOLEAN},
        at \in {RowMajor(Grid(shape, chunk)), Reverse(RowMajor(Grid(shape, chunk)))},
        gap, packed \in Grid(shape, chunk) \cup {NoChunk} :
       Lay(payloads, at, gap, packed)
  /\ sel = [a \in Axes |-> [lo |-> 0, hi |-> shape[a], step |-> 1]]
  /\ pc = "open"
  /\ plan = <<>>
  /\ answer = NoAnswer

(* read_numpy(dataset, selection) *)
Ask(slices) ==
  /\ pc = "open"
  /\ \A a \in Axes : slices[a].hi <= shape[a]
  /\ sel' = slices
  /\ pc' = "asked"
  /\ UNCHANGED <<shape, chunk, file, stored, plan, answer>>

(* The selection itself: the reference for every answer. *)
Chosen(a) == {x \in 0 .. MaxDim - 1 :
                /\ sel[a].lo <= x /\ x < sel[a].hi
                /\ (x - sel[a].lo) % sel[a].step = 0}
Selected == RowMajor(Boxed([a \in Axes |-> Chosen(a)]))

(* plan_read_for_document *)
PlanRead ==
  /\ pc = "asked"
  /\ plan' = RowMajor({k \in Grid(shape, chunk) :
                 \A a \in Axes : \E x \in Chosen(a) : x \div chunk[a] = k[a]})
  /\ pc' = "planned"
  /\ UNCHANGED <<shape, chunk, sel, file, stored, answer>>

-----------------------------------------------------------------------------
(* detect_contiguous_row_major_view *)

OneChunkOnly == Len(plan) = 1     \* a slip: several slabs are copied

(* leading_axis_slabs: chunks as wide as the dataset on the trailing axes,
   one after the other on the leading one. *)
LeadingAxisSlabs ==
  /\ plan # <<>>
  /\ \A a \in Axes \ {1} :
       /\ chunk[a] >= shape[a]
       /\ \A n \in DOMAIN plan : plan[n][a] = plan[1][a]
  /\ \A n \in 1 .. Len(plan) - 1 : plan[n + 1][1] = plan[n][1] + 1

AdjacentButFirst ==     \* a slip: the first pair is not compared
  \A n \in 2 .. Len(plan) - 1 :
    stored[plan[n]].at + stored[plan[n]].len = stored[plan[n + 1]].at

Adjacent ==
  \A n \in 1 .. Len(plan) - 1 :
    stored[plan[n]].at + stored[plan[n]].len = stored[plan[n + 1]].at

TotalRaw == Sums([n \in DOMAIN plan |-> stored[plan[n]].len])[Len(plan)]

Contiguous ==
  /\ plan # <<>>
  /\ \A a \in Axes : sel[a].step = 1
  /\ LeadingAxisSlabs
  /\ \A n \in DOMAIN plan : stored[plan[n]].raw
  /\ Adjacent
  /\ TotalRaw = Len(Selected)

MayView == Contiguous /\ stored[plan[1]].at + TotalRaw <= Len(file)

(* try_zero_copy_read_numpy and memmap_zero_copy: a second mapping of the
   file, from the first payload on. *)
View ==
  /\ pc = "planned"
  /\ MayView
  /\ answer' = [by |-> "view", elements |->
                  SubSeq(file, stored[plan[1]].at + 1, stored[plan[1]].at + TotalRaw)]
  /\ pc' = "answered"
  /\ UNCHANGED <<shape, chunk, sel, file, stored, plan>>

(* The copy is materialized by tetration and only wrapped here. *)
Copy ==
  /\ pc = "planned"
  /\ ~MayView
  /\ answer' = [by |-> "copy", elements |-> Selected]
  /\ pc' = "answered"
  /\ UNCHANGED <<shape, chunk, sel, file, stored, plan>>

Next == (\E slices \in [Axes -> Slices] : Ask(slices)) \/ PlanRead \/ View \/ Copy

Spec == Init /\ [][Next]_vars

-----------------------------------------------------------------------------
(* Properties *)

(* Whatever lies where in the file, the array is the selection, element by
   element in row-major order. *)
ReadFaithful == pc = "answered" => answer.elements = Selected

(* The documented zero-copy case is taken: a whole raw dataset in one chunk,
   or in full-width slabs that lie one after the other, is not copied.  The
   premise is about the bytes, not about the tests the code makes. *)
Slabbed ==
  /\ Selected = RowMajor(Boxed([a \in Axes |-> 0 .. shape[a] - 1]))
  /\ \A a \in Axes \ {1} : chunk[a] >= shape[a]
  /\ \E n \in 0 .. Len(file) - Len(Selected) :
       SubSeq(file, n + 1, n + Len(Selected)) = Selected
  /\ \A a \in Axes : sel[a].step = 1
  /\ Pad \notin Range(file)
ViewsSlabs == pc = "answered" /\ Slabbed => answer.by = "view"
=============================================================================
