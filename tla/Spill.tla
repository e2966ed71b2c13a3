-------------------------------- MODULE Spill --------------------------------
(***************************************************************************)
(* What a handle of LocalFile writes beside its .tet and loads later:      *)
(* read_spill() and transform.to_spill (raw little-endian files) and       *)
(* transform.to_sidecar (a derived .tet).                                  *)
(* python/tet/_io/spill.py, _io/numpy.py, _transform/.                     *)
(*                                                                         *)
(* The call writes the file and returns a result that remembers its path,  *)
(* shape, width and byte length; result.to_numpy() opens the path at any   *)
(* later time.  Meanwhile another call may have written the same path, or  *)
(* somebody removed the file.                                              *)
(*                                                                         *)
(* The engine writes what the handle has mapped, and what it reads through *)
(* a torn handle is anybody's guess; a call under which the file is        *)
(* rewritten counts as one of a torn handle.  Whether it writes over a     *)
(* file that is there is its own affair (Overwrites).  Of the two keys for *)
(* the path of a spill the engine sets the one of its width, or neither.   *)
(* Loading a result changes nothing, so what it gives is a function of the *)
(* state.                                                                  *)
(***************************************************************************)
EXTENDS LocalFile, FiniteSetsExt

CONSTANTS
  Results,    \* results that callers hold
  Methods,    \* transforms that are asked for
  Elements,   \* Elements[d]: how many elements dataset d has
  Wide,       \* the datasets whose catalog dtype is f64
  Overwrites, \* a spill or sidecar may replace the file at its path
  NoResult

ASSUME SpillAssumption ==
  /\ Elements \in [Datasets -> Nat \ {0}]
  /\ Wide \subseteq Datasets
  /\ Overwrites \in BOOLEAN
  /\ NoResult \notin Results
  /\ "none" \notin Methods

VARIABLES
  disk,    \* what is at the paths that spills and sidecars go to
  result   \* the result objects

spillVars == <<disk, result>>

(* A path that callers name, the engine's temp file of one call, and the
   engine's default path of a sidecar, which only the method is part of. *)
Shared == <<"shared", "path">>
Paths ==
  {Shared} \cup {<<"temp", r>> : r \in Results} \cup {<<"default", m>> : m \in Methods}
NoPath == <<"no", "path">>

Widths == {1, 2}     \* f32 and f64, in units of four bytes
Selections == {"all", "first"}

(* The values of a dataset of one file, selected and transformed; those that
   no session wrote are of nobody. *)
Tensors == [of: Sessions \cup {NoData}, ds: Datasets, sel: Selections, method: Methods \cup {"none"}]
Size(t) == IF t.sel = "all" THEN Elements[t.ds] ELSE 1

Absent == [form |-> "absent", by |-> NoResult, tensors |-> {}, width |-> 1]
NoResultYet == [sink |-> "none", path |-> NoPath, size |-> 0, width |-> 1,
                bytes |-> 0, asked |-> NoData, torn |-> FALSE]
Raised == [NoResultYet EXCEPT !.sink = "ValueError"]

(* TypeOK: types; what a raw file holds is one tensor, and a result that was
   returned has what was asked, and a path if it is a spill. *)
SpillTypeOK ==
  /\ TypeOK
  /\ \A p \in Paths :
       /\ disk[p].form \in {"absent", "raw", "tet"}
       /\ disk[p].by \in Results \cup {NoResult}
       /\ disk[p].tensors \subseteq Tensors /\ disk[p].width \in Widths
       /\ disk[p].form = "raw" => Cardinality(disk[p].tensors) = 1
  /\ \A r \in Results :
       \/ result[r] \in {NoResultYet, Raised}
       \/ /\ result[r].sink \in {"spill", "sidecar"} /\ result[r].torn \in BOOLEAN
          /\ result[r].path \in Paths \cup {NoPath} /\ result[r].asked \in Tensors
          /\ result[r].sink = "spill" => result[r].path # NoPath
          /\ result[r].size \in Nat /\ result[r].bytes \in Nat

SpillInit ==
  /\ Init
  /\ disk = [p \in Paths |-> Absent]
  /\ result = [r \in Results |-> NoResultYet]

-----------------------------------------------------------------------------
(* The calls that write *)

(* file.dataset(): known by the cached summary. *)
Known(h, d) == handle[h].cached /\ d \in handle[h].summary

Tensor(of, d, sel, m) == [of |-> of, ds |-> d, sel |-> sel, method |-> m]

(* What the file that the handle maps has of it. *)
Mapped(h, d) == files[handle[h].file][d]
Asked(h, d, sel, m) == Tensor(Mapped(h, d), d, sel, m)

(* What the engine reads of it: nobody's values through a torn handle. *)
Executed(h, d) == IF handle[h].torn THEN NoData ELSE Mapped(h, d)

Free(p) == disk[p].form = "absent" \/ Overwrites

(* An explicit path is resolved beside the .tet, the file at it replaced. *)
Write(r, p, form, t, width) ==
  /\ Free(p)
  /\ disk' = [disk EXCEPT ![p] = [form |-> form, by |-> r, tensors |-> {t},
                                  width |-> width]]

(* Selections are spilled as f32, transforms in the width of the dataset. *)
CatalogWidth(d) == IF d \in Wide THEN 2 ELSE 1
EngineWidth(t) == IF t.method = "none" THEN 1 ELSE CatalogWidth(t.ds)

(* spill_f32_path and spill_f64_path of the response's execution block. *)
Execution(p, width) ==
  [f32 |-> IF width = 1 THEN p ELSE NoPath, f64 |-> IF width = 2 THEN p ELSE NoPath]

(* A slip: the width of the catalog, whichever key is set. *)
WidthOfCatalog(e, d) == CatalogWidth(d)

(* The path is looked for under the one key first, the width under the other. *)
ReportedPath(e) == IF e.f32 # NoPath THEN e.f32 ELSE e.f64
InferredWidth(e, d) ==
  CASE e.f64 # NoPath -> 2
    [] e.f64 = NoPath /\ e.f32 # NoPath -> 1
    [] OTHER -> CatalogWidth(d)

(* catalog.shape of the response is the shape of the selection. *)
LogicalShape(t) == Size(t)

SpillResult(e, made, asked, torn) ==
  [sink |-> "spill", path |-> ReportedPath(e), size |-> LogicalShape(made),
   width |-> InferredWidth(e, made.ds), bytes |-> Size(made) * EngineWidth(made),
   asked |-> asked, torn |-> torn]
SidecarResult(p, asked, torn) ==
  [NoResultYet EXCEPT !.sink = "sidecar", !.path = p, !.asked = asked, !.torn = torn]

(* read_spill() (method none) and transform.to_spill. *)
ToSpill(h, r, d, sel, m, p) ==
  /\ Known(h, d) /\ result[r] = NoResultYet
  /\ p \in {Shared, <<"temp", r>>}
  /\ LET made == Tensor(Executed(h, d), d, sel, m)
     IN  /\ Write(r, p, "raw", made, EngineWidth(made))
         /\ result' = [result EXCEPT ![r] =
              SpillResult(Execution(p, EngineWidth(made)), made,
                          Asked(h, d, sel, m), handle[h].torn)]
  /\ UNCHANGED vars

(* Neither key is set: the caller gets no result. *)
NothingSpilled(h, r, d) ==
  /\ Known(h, d) /\ result[r] = NoResultYet
  /\ result' = [result EXCEPT ![r] = Raised]
  /\ UNCHANGED <<disk, vars>>

(* transform.to_sidecar: one dataset, <source>-<method>, in a .tet whose path
   the response may leave out. *)
ToSidecar(h, r, d, sel, m, p) ==
  /\ Known(h, d) /\ result[r] = NoResultYet
  /\ m # "none" /\ p \in {Shared, <<"default", m>>}
  /\ Write(r, p, "tet", Tensor(Executed(h, d), d, sel, m), 1)
  /\ \E path_told \in {p, NoPath} :
       result' = [result EXCEPT ![r] =
         SidecarResult(path_told, Asked(h, d, sel, m), handle[h].torn)]
  /\ UNCHANGED vars

-----------------------------------------------------------------------------
(* What to_numpy() of a result gives, whenever it is called. *)

Gives(state, tensors, size) == [state |-> state, tensors |-> tensors, size |-> size]
Raises(error) == Gives(error, {}, 0)

FileOf(r) == IF result[r].path = NoPath THEN Absent ELSE disk[result[r].path]

(* numpy.fromfile(count): what there is of it, from the start.  A .tet has
   more raw bytes than any of these spills. *)
FromFile(r, count) ==
  LET there == IF FileOf(r).form = "tet" THEN {count}
               ELSE {(Size(t) * FileOf(r).width) \div result[r].width : t \in FileOf(r).tensors}
  IN  Min(there \cup {count})

(* Of a spill: load_spill_array with the shape of the result. *)
LoadSpill(r) ==
  IF FileOf(r).form = "absent" THEN Raises("FileNotFoundError")
  ELSE IF FromFile(r, result[r].size) # result[r].size THEN Raises("ValueError")
  ELSE Gives("array", FileOf(r).tensors, result[r].size)

(* load_spill_array() of its path without a shape, with the recorded length. *)
LoadFlat(r) ==
  IF FileOf(r).form = "absent" THEN Raises("FileNotFoundError")
  ELSE IF result[r].bytes % result[r].width # 0 THEN Raises("ValueError")
  ELSE Gives("array", FileOf(r).tensors, FromFile(r, result[r].bytes \div result[r].width))

(* A slip: the first name of the catalog. *)
AnyCandidate(ts, m) == {CHOOSE t \in ts : TRUE}

(* _infer_sidecar_dataset(): the sole dataset, or the one <name>-<method>. *)
Candidates(ts, m) ==
  IF Cardinality(ts) = 1 THEN ts ELSE {t \in ts : t.method = m}

LoadSidecar(r) ==
  LET own == Candidates(FileOf(r).tensors, result[r].asked.method)
  IN  IF result[r].path = NoPath THEN Raises("ValueError")
      ELSE IF FileOf(r).form = "absent" THEN Raises("OSError")
      ELSE IF FileOf(r).form = "raw" THEN Raises("CatalogError")
      ELSE IF Cardinality(own) # 1 THEN Raises("ValueError")
      ELSE Gives("array", own, result[r].size)

-----------------------------------------------------------------------------
(* The world around them *)

Remove(p) ==
  /\ disk[p] # Absent
  /\ disk' = [disk EXCEPT ![p] = Absent]
  /\ UNCHANGED <<result, vars>>

(* The caller collects derived datasets in one .tet (tet.open_append). *)
Collect(p, q) ==
  /\ p # q /\ disk[p].form = "tet" /\ disk[q].form = "tet"
  /\ \A t \in disk[p].tensors, u \in disk[q].tensors : t.ds # u.ds \/ t.method # u.method
  /\ disk' = [disk EXCEPT ![p].tensors = @ \cup disk[q].tensors]
  /\ UNCHANGED <<result, vars>>

SpillNext ==
  \/ Next /\ UNCHANGED spillVars
  \/ \E h \in Handles, r \in Results, d \in Datasets, sel \in Selections :
       \E m \in Methods \cup {"none"}, p \in Paths :
         \/ ToSpill(h, r, d, sel, m, p) \/ NothingSpilled(h, r, d)
         \/ ToSidecar(h, r, d, sel, m, p)
  \/ \E p \in Paths : Remove(p) \/ \E q \in Paths : Collect(p, q)

SpillSpec == SpillInit /\ [][SpillNext]_<<vars, spillVars>>

-----------------------------------------------------------------------------
(* Properties *)

(* As long as nobody else wrote the path, to_numpy() of a spill gives exactly
   what was asked of the file the handle had mapped, which has that dataset
   although the call looked it up in a summary it kept, whatever is committed
   to the .tet afterwards, in place or not, and whatever was selected, in the
   width the engine wrote it: all of its elements and no error, with or
   without the shape.  The file must not have been rewritten under the handle
   before the call. *)
SpillFaithful ==
  \A r \in Results :
    result[r].sink = "spill" /\ ~result[r].torn /\ FileOf(r).by = r =>
      /\ result[r].asked.of # NoData
      /\ LoadSpill(r) = Gives("array", {result[r].asked}, Size(result[r].asked))
      /\ LoadFlat(r) = LoadSpill(r)
      /\ FileOf(r).width = result[r].width

(* A sidecar that the caller added other derived datasets to still gives its
   own, or raises when another one carries the same method. *)
SidecarFaithful ==
  \A r \in Results :
    result[r].sink = "sidecar" /\ ~result[r].torn /\ FileOf(r).by = r =>
      \/ LoadSidecar(r).tensors = {result[r].asked}
      \/ /\ LoadSidecar(r) = Raises("ValueError")
         /\ \E t \in FileOf(r).tensors \ {result[r].asked} :
              t.method = result[r].asked.method

(* What load_spill_array returns comes from a file of the length that the
   result recorded. *)
LengthChecked ==
  \A r \in Results :
    /\ result[r].sink = "spill" /\ FileOf(r).form = "raw"
    /\ LoadSpill(r).state = "array"
    => \E t \in FileOf(r).tensors : Size(t) * FileOf(r).width = result[r].bytes
=============================================================================
