------------------------------- MODULE Export -------------------------------
(***************************************************************************)
(* tet.export (export.py): the datasets of a .tet are written one after    *)
(* the other to an HDF5 file, a netCDF file or a Zarr store at dst.        *)
(*                                                                         *)
(* The existence of dst is checked first and dst is opened for writing,    *)
(* with everything in it discarded, later.  A failure in the middle leaves *)
(* what was written.  Several exports may aim at the same dst.             *)
(*                                                                         *)
(* A dataset is [group, leaf, shape, dims]; the group of "g/a" is "g".  A  *)
(* dimension name is a pair <<stem, index>>, so that a dim_names entry can *)
(* spell the name that is generated for an axis without one.  Dimensions   *)
(* of netCDF are looked up in the variable's group and then in the root.   *)
(***************************************************************************)
EXTENDS Naturals, Sequences, FiniteSets

CONSTANTS
  Exporters,   \* calls of export() with the same dst
  Catalogs,    \* sequences of datasets that a .tet may hold
  Kinds        \* "h5", "netcdf", "zarr"

Datasets == [group : STRING, leaf : STRING, shape : Seq(Nat), dims : Seq(STRING \X Nat)]

(* The names in a .tet are distinct. *)
ASSUME ConstantsAssumption ==
  /\ Kinds \subseteq {"h5", "netcdf", "zarr"}
  /\ Catalogs \subseteq Seq(Datasets)
  /\ \A c \in Catalogs : \A m, n \in DOMAIN c :
       m # n => <<c[m].group, c[m].leaf>> # <<c[n].group, c[n].leaf>>

VARIABLES
  catalog,   \* the datasets of the source
  kind,      \* the format
  dst,       \* what is at the destination
  pc,        \* exporter -> where it is
  next,      \* exporter -> the dataset it writes next
  dimLens    \* exporter -> dim_lens of _write_netcdf

vars == <<catalog, kind, dst, pc, next, dimLens>>

Root == ""
Blank == <<"", 0>>     \* an empty string among dim_names
NoDims == <<>>         \* no dim_names in the footer

(* variables: [by, group, leaf, lens]; dims: [group, name, len]; open: who
   holds the HDF5 or netCDF file; old: it was there before any export. *)
Nothing == [there |-> FALSE, old |-> FALSE, open |-> {}, variables |-> {}, dims |-> {}]
OldFile == [Nothing EXCEPT !.there = TRUE, !.old = TRUE]
Fresh(e) == [Nothing EXCEPT !.there = TRUE, !.open = IF kind = "zarr" THEN {} ELSE {e}]

Errors == {"FileExistsError", "ValueError", "OSError", "TetError", "name in use"}

Init ==
  /\ catalog \in Catalogs
  /\ kind \in Kinds
  /\ dst \in {Nothing, OldFile}
  /\ pc = [e \in Exporters |-> "called"]
  /\ next = [e \in Exporters |-> 1]
  /\ dimLens = [e \in Exporters |-> {}]

Goto(e, l) == pc' = [pc EXCEPT ![e] = l]

(* The file is closed on every way out. *)
Raise(e, error) ==
  /\ Goto(e, error)
  /\ dst' = [dst EXCEPT !.open = @ \ {e}]
  /\ UNCHANGED <<catalog, kind, next, dimLens>>

-----------------------------------------------------------------------------
(* The checks of export(). *)

AbsentUnchecked == TRUE     \* a slip: dst is not looked at
Absent == ~dst.there

CheckExists(e) ==
  /\ pc[e] = "called"
  /\ IF Absent THEN Goto(e, "checked") ELSE Goto(e, "FileExistsError")
  /\ UNCHANGED <<catalog, kind, dst, next, dimLens>>

(* The source is opened and listed, then dst for writing.  An HDF5 or netCDF
   file that somebody else has open is locked. *)
Create(e) ==
  /\ pc[e] = "checked"
  /\ catalog # <<>> /\ dst.open = {}
  /\ dst' = Fresh(e)
  /\ Goto(e, "writing")
  /\ UNCHANGED <<catalog, kind, next, dimLens>>

CreateFails(e) ==
  /\ pc[e] = "checked"
  /\ \/ catalog = <<>> /\ Raise(e, "ValueError")
     \/ catalog # <<>> /\ dst.open # {} /\ Raise(e, "OSError")

-----------------------------------------------------------------------------
(* One dataset *)

Current(e) == catalog[next[e]]
Axes(d) == DOMAIN d.shape

(* _dim_names_for *)
Named(d) ==
  /\ d.dims # NoDims
  /\ Len(d.dims) = Len(d.shape)
  /\ \A a \in Axes(d) : d.dims[a] # Blank

(* _resolve_nc_dims *)
DimOf(d, a) == IF Named(d) THEN d.dims[a] ELSE <<d.leaf, a - 1>>

DimKeyOfRoot(d, a) == <<Root, DimOf(d, a)>>     \* a slip: one table for all groups
(* The key of dim_lens. *)
DimKey(d, a) == <<d.group, DimOf(d, a)>>

Lengths(d) == {<<DimKey(d, a), d.shape[a]>> : a \in Axes(d)}

ConflictNever(table) == FALSE     \* a slip: the first length is kept silently
(* _ensure_nc_dims: a name has one length in its group, the axes of the
   dataset itself included. *)
ConflictIn(table) == \E p, q \in table : p[1] = q[1] /\ p[2] # q[2]
Conflicts(e) == kind = "netcdf" /\ ConflictIn(dimLens[e] \cup Lengths(Current(e)))

(* Of the names that are not in dim_lens yet, those that the group lacks. *)
CreatedDims(e) ==
  {[group |-> Current(e).group, name |-> DimOf(Current(e), a), len |-> Current(e).shape[a]] :
     a \in {a \in Axes(Current(e)) :
              /\ \A p \in dimLens[e] : p[1] # DimKey(Current(e), a)
              /\ ~\E x \in dst.dims : x.group = Current(e).group
                                      /\ x.name = DimOf(Current(e), a)}}

(* The length of a dimension as createVariable finds it; 0 when there is no
   such dimension. *)
Found(dims, group, name) ==
  LET In(g) == {x \in dims : x.group = g /\ x.name = name}
  IN  IF In(group) # {} THEN (CHOOSE x \in In(group) : TRUE).len
      ELSE IF In(Root) # {} THEN (CHOOSE x \in In(Root) : TRUE).len
      ELSE 0

(* A name at dst is a variable or a group, once. *)
Clashes(d) ==
  \E v \in dst.variables :
    \/ v.group = d.group /\ v.leaf = d.leaf
    \/ v.group = Root /\ v.leaf = d.group
    \/ d.group = Root /\ v.group = d.leaf

WriteDataset(e) ==
  LET d == Current(e)
      dims == IF kind = "netcdf" THEN dst.dims \cup CreatedDims(e) ELSE {}
      lens == [a \in Axes(d) |->
                 IF kind = "netcdf" THEN Found(dims, d.group, DimOf(d, a)) ELSE d.shape[a]]
  IN  /\ pc[e] = "writing" /\ next[e] <= Len(catalog)
      /\ ~Clashes(d) /\ ~Conflicts(e)
      /\ dst' = [dst EXCEPT !.there = TRUE, !.dims = dims,
                   !.variables = @ \cup
                     {[by |-> e, group |-> d.group, leaf |-> d.leaf, lens |-> lens]}]
      /\ dimLens' = [dimLens EXCEPT ![e] = IF kind = "netcdf" THEN @ \cup Lengths(d) ELSE @]
      /\ next' = [next EXCEPT ![e] = @ + 1]
      /\ UNCHANGED <<catalog, kind, pc>>

(* read_numpy() refuses a selection over the memory budget, netCDF a
   dimension of two lengths, every format a name that is taken. *)
WriteFails(e) ==
  /\ pc[e] = "writing" /\ next[e] <= Len(catalog)
  /\ \/ Raise(e, "TetError")
     \/ Conflicts(e) /\ Raise(e, "ValueError")
     \/ Clashes(Current(e)) /\ Raise(e, "name in use")

Finish(e) ==
  /\ pc[e] = "writing" /\ next[e] > Len(catalog)
  /\ dst' = [dst EXCEPT !.open = @ \ {e}]
  /\ Goto(e, "returned")
  /\ UNCHANGED <<catalog, kind, next, dimLens>>

Next == \E e \in Exporters :
          \/ CheckExists(e)
          \/ Create(e) \/ CreateFails(e)
          \/ WriteDataset(e) \/ WriteFails(e)
          \/ Finish(e)

Spec == Init /\ [][Next]_vars

-----------------------------------------------------------------------------
(* Properties *)

(* When export() returns, dst holds every dataset of the source, written by
   that call, each with the lengths of its own axes, and nothing else: a
   destination that another export abandoned half-way or is still writing is
   never returned.  Of a Zarr store that is so while nobody else opens it;
   the other formats lock their file. *)
Alone(e) == \A f \in Exporters \ {e} : pc[f] \in {"called", "checked", "FileExistsError"}
ReturnsWhole ==
  [][\A e \in Exporters :
       /\ pc[e] # "returned" /\ pc'[e] = "returned"
       /\ kind = "zarr" => Alone(e)
       => dst.variables = {[by |-> e, group |-> d.group, leaf |-> d.leaf, lens |-> d.shape] :
                             d \in {catalog[n] : n \in DOMAIN catalog}}]_vars

(* "length conflict" is raised only of a catalog in which two axes of one
   group have the same name and different lengths; without dim_names, never. *)
ConflictsAreReal ==
  (kind = "netcdf" /\ \E e \in Exporters : pc[e] = "ValueError" /\ catalog # <<>>) =>
    \E m, n \in DOMAIN catalog :
      \E a \in Axes(catalog[m]), b \in Axes(catalog[n]) :
        /\ catalog[m].group = catalog[n].group
        /\ Named(catalog[m]) \/ Named(catalog[n])
        /\ DimOf(catalog[m], a) = DimOf(catalog[n], b)
        /\ catalog[m].shape[a] # catalog[n].shape[b]

(* A file that was at dst before the exports is left as it is, by the calls
   that raise FileExistsError and by those that come after them. *)
OldFileKept == [][dst.old => dst' = dst]_vars
=============================================================================
