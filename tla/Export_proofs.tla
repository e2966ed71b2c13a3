---------------------------- MODULE Export_proofs ----------------------------
(***************************************************************************)
(* Proofs about Export: an old file at dst is kept, what export() returned *)
(* is whole, and a length conflict is one of the catalog.                  *)
(***************************************************************************)
EXTENDS Export, TLAPS

-----------------------------------------------------------------------------
(* Types *)

Stages == {"called", "checked", "writing", "returned"}

TypeInv ==
  /\ catalog \in Catalogs /\ kind \in Kinds
  /\ pc \in [Exporters -> Stages \cup Errors]
  /\ next \in [Exporters -> Nat \ {0}]
  /\ DOMAIN dimLens = Exporters
  /\ \A e \in Exporters : next[e] <= Len(catalog) + 1
  /\ \A e \in Exporters : pc[e] \in {"called", "checked"} => next[e] = 1 /\ dimLens[e] = {}

(* dst is a record of five fields. *)
DstInv ==
  dst = [there |-> dst.there, old |-> dst.old, open |-> dst.open,
         variables |-> dst.variables, dims |-> dst.dims]

(* What is there is not looked past: before a file that is older than the
   exports no call gets beyond the check. *)
OldInv ==
  dst.old => dst.there /\ \A e \in Exporters : pc[e] \in {"called", "FileExistsError"}

LEMMA CatalogType ==
  ASSUME TypeInv
  PROVE  /\ catalog \in Seq(Datasets) /\ Len(catalog) \in Nat /\ DOMAIN catalog = 1 .. Len(catalog)
         /\ \A n \in 1 .. Len(catalog) : catalog[n] \in Datasets
BY ConstantsAssumption DEF TypeInv

LEMMA InitInv == Init => TypeInv /\ DstInv /\ OldInv
<1> SUFFICES ASSUME Init PROVE TypeInv /\ DstInv /\ OldInv
  OBVIOUS
<1>1. catalog \in Catalogs /\ Len(catalog) \in Nat
  BY ConstantsAssumption DEF Init
<1>2. DstInv
  BY DEF Init, DstInv, Nothing, OldFile
<1>3. OldInv
  <2>1. ~Nothing.old /\ OldFile.there
    BY DEF Nothing, OldFile
  <2>2. dst = Nothing \/ dst = OldFile
    BY DEF Init
  <2> QED BY <2>1, <2>2 DEF Init, OldInv
<1> QED BY <1>1, <1>2, <1>3 DEF Init, TypeInv, Stages

LEMMA TypeStep ==
  ASSUME TypeInv, DstInv, [Next]_vars
  PROVE  TypeInv' /\ DstInv'
<1>0. Len(catalog) \in Nat
  BY CatalogType
<1>1. CASE UNCHANGED vars
  BY <1>1 DEF vars, TypeInv, DstInv
<1>2. ASSUME NEW e \in Exporters, CheckExists(e) PROVE TypeInv' /\ DstInv'
  BY <1>2 DEF CheckExists, Goto, TypeInv, DstInv, Stages, Errors
<1>3. ASSUME NEW e \in Exporters, Create(e) PROVE TypeInv' /\ DstInv'
  BY <1>3 DEF Create, Goto, TypeInv, DstInv, Stages, Errors, Fresh, Nothing
<1>4. ASSUME NEW e \in Exporters, NEW error \in Errors, Raise(e, error) PROVE TypeInv' /\ DstInv'
  BY <1>4 DEF Raise, Goto, TypeInv, DstInv, Stages, Errors
<1>5. ASSUME NEW e \in Exporters, WriteDataset(e) PROVE TypeInv' /\ DstInv'
  <2>1. /\ pc[e] = "writing" /\ next[e] <= Len(catalog)
        /\ UNCHANGED <<catalog, kind, pc>>
        /\ next' = [next EXCEPT ![e] = @ + 1]
        /\ dimLens' = [dimLens EXCEPT ![e] = dimLens'[e]]
    BY <1>5 DEF WriteDataset, TypeInv
  <2>2. DstInv'
    BY <1>5 DEF WriteDataset, DstInv
  <2> QED BY <1>0, <2>1, <2>2 DEF TypeInv
<1>6. ASSUME NEW e \in Exporters, Finish(e) PROVE TypeInv' /\ DstInv'
  BY <1>6 DEF Finish, Goto, TypeInv, DstInv, Stages
<1> QED BY <1>1, <1>2, <1>3, <1>4, <1>5, <1>6 DEF Next, CreateFails, WriteFails, Errors

LEMMA OldStep ==
  ASSUME TypeInv, DstInv, OldInv, [Next]_vars
  PROVE  OldInv' /\ (dst.old => dst' = dst)
<1>1. CASE UNCHANGED vars
  BY <1>1 DEF vars, OldInv
<1>2. ASSUME NEW e \in Exporters, CheckExists(e) PROVE OldInv' /\ dst' = dst
  BY <1>2 DEF CheckExists, Absent, Goto, OldInv, TypeInv
<1>3. ASSUME NEW e \in Exporters, Create(e) PROVE OldInv' /\ ~dst.old
  BY <1>3 DEF Create, Fresh, Nothing, OldInv
<1>4. ASSUME NEW e \in Exporters, WriteDataset(e) \/ Finish(e) \/ CreateFails(e) \/ WriteFails(e)
      PROVE  ~dst.old /\ dst'.old = dst.old
  BY <1>4 DEF WriteDataset, Finish, CreateFails, WriteFails, Raise, OldInv, DstInv
<1> QED BY <1>1, <1>2, <1>3, <1>4 DEF Next, OldInv

(* A file that was there before is kept whatever exports are called, by any
   number of callers. *)
THEOREM OldFileAlwaysKept == Spec => OldFileKept
<1>1. TypeInv /\ DstInv /\ OldInv /\ [Next]_vars => [dst.old => dst' = dst]_vars
  BY OldStep
<1> QED BY InitInv, TypeStep, OldStep, <1>1, PTL DEF Spec, OldFileKept

-----------------------------------------------------------------------------
(* What a call has written *)

(* The dimensions that dim_lens of a call speaks of. *)
DimsOf(table) == {[group |-> p[1][1], name |-> p[1][2], len |-> p[2]] : p \in table}

Entry(e, n) ==
  [by |-> e, group |-> catalog[n].group, leaf |-> catalog[n].leaf, lens |-> catalog[n].shape]

(* Where a call has dst to itself: by the lock of its file, or because no other
   call has opened the store. *)
Owns(e) == pc[e] = "writing" /\ (kind = "zarr" => Alone(e))

(* The lock is held by the only writer; what a call that has dst to itself wrote
   so far is there, and the dimensions of a netCDF file are those that its
   dim_lens has, each with one length. *)
WrittenInv ==
  /\ kind # "zarr" => \A e \in Exporters : pc[e] = "writing" => dst.open = {e}
  /\ \A e \in Exporters : Owns(e) =>
       dst.variables = {Entry(e, n) : n \in 1 .. next[e] - 1}
  /\ kind = "netcdf" => \A e \in Exporters : pc[e] = "writing" =>
       /\ dst.dims = DimsOf(dimLens[e])
       /\ ~ConflictIn(dimLens[e])

(* Every entry of dim_lens is an axis of a dataset of the catalog. *)
TableInv ==
  \A e \in Exporters : \A p \in dimLens[e] :
    \E n \in DOMAIN catalog : p \in Lengths(catalog[n])

(* After a dataset without a conflict the dimensions of the file are those of the
   larger table, and each axis finds its own length. *)
LEMMA DimsFollow ==
  ASSUME TypeInv, TableInv, NEW e \in Exporters, next[e] <= Len(catalog),
         dst.dims = DimsOf(dimLens[e]),
         ~ConflictIn(dimLens[e] \cup Lengths(Current(e)))
  PROVE  /\ dst.dims \cup CreatedDims(e) = DimsOf(dimLens[e] \cup Lengths(Current(e)))
         /\ \A a \in Axes(Current(e)) :
              Found(dst.dims \cup CreatedDims(e), Current(e).group, DimOf(Current(e), a))
                = Current(e).shape[a]
<1> DEFINE d == Current(e)
           table == dimLens[e] \cup Lengths(d)
           dim(p) == [group |-> p[1][1], name |-> p[1][2], len |-> p[2]]
<1>1. \A p \in table : p = <<p[1], p[2]>> /\ p[1] = <<p[1][1], p[1][2]>>
  BY DEF TableInv, Lengths, DimKey
<1>2. \A p, q \in table : p[1] = q[1] => p[2] = q[2]
  BY DEF ConflictIn
<1>3. \A a \in Axes(d) : LET p == <<DimKey(d, a), d.shape[a]>>
                       IN  /\ p \in table
                           /\ dim(p) = [group |-> d.group, name |-> DimOf(d, a), len |-> d.shape[a]]
  BY DEF Lengths, DimKey
<1>4. CreatedDims(e) \subseteq DimsOf(table)
  <2>1. ASSUME NEW a \in Axes(d)
        PROVE  [group |-> d.group, name |-> DimOf(d, a), len |-> d.shape[a]] \in DimsOf(table)
    <3> DEFINE p == <<DimKey(d, a), d.shape[a]>>
    <3>1. p \in table /\ dim(p) = [group |-> d.group, name |-> DimOf(d, a), len |-> d.shape[a]]
      BY <1>3
    <3> QED BY <3>1 DEF DimsOf
  <2> QED BY <2>1 DEF CreatedDims
<1>5. ASSUME NEW a \in Axes(d)
      PROVE  [group |-> d.group, name |-> DimOf(d, a), len |-> d.shape[a]] \in dst.dims \cup CreatedDims(e)
  <2> DEFINE x == [group |-> d.group, name |-> DimOf(d, a), len |-> d.shape[a]]
  <2>1. CASE \E p \in dimLens[e] : p[1] = DimKey(d, a)
    <3>1. PICK p \in dimLens[e] : p[1] = DimKey(d, a)
      BY <2>1
    <3>2. p[2] = d.shape[a]
      BY <1>2, <1>3, <3>1
    <3>3. dim(p) = x
      BY <3>1, <3>2 DEF DimKey
    <3> QED BY <3>1, <3>3 DEF DimsOf
  <2>2. CASE \E y \in dst.dims : y.group = d.group /\ y.name = DimOf(d, a)
    <3>1. PICK p \in dimLens[e] : p[1][1] = d.group /\ p[1][2] = DimOf(d, a)
      BY <2>2 DEF DimsOf
    <3>2. p[1] = DimKey(d, a)
      BY <1>1, <3>1 DEF DimKey
    <3> QED BY <2>1, <3>2
  <2>3. CASE /\ \A p \in dimLens[e] : p[1] # DimKey(d, a)
             /\ ~\E y \in dst.dims : y.group = d.group /\ y.name = DimOf(d, a)
    BY <2>3 DEF CreatedDims
  <2> QED BY <2>1, <2>2, <2>3
<1>6. dst.dims \cup CreatedDims(e) = DimsOf(table)
  <2>1. DimsOf(table) \subseteq dst.dims \cup CreatedDims(e)
    <3>1. ASSUME NEW p \in Lengths(d) PROVE dim(p) \in dst.dims \cup CreatedDims(e)
      <4>1. PICK a \in Axes(d) : p = <<DimKey(d, a), d.shape[a]>>
        BY DEF Lengths
      <4> QED BY <1>3, <1>5, <4>1
    <3> QED BY <3>1 DEF DimsOf
  <2>2. dst.dims \subseteq DimsOf(table)
    BY DEF DimsOf
  <2> QED BY <1>4, <2>1, <2>2
<1>7. ASSUME NEW a \in Axes(d)
      PROVE  Found(dst.dims \cup CreatedDims(e), d.group, DimOf(d, a)) = d.shape[a]
  <2> DEFINE In == {x \in dst.dims \cup CreatedDims(e) : x.group = d.group /\ x.name = DimOf(d, a)}
             own == [group |-> d.group, name |-> DimOf(d, a), len |-> d.shape[a]]
  <2>1. own \in In
    BY <1>5
  <2>2. \A x \in In : x.len = d.shape[a]
    <3>1. ASSUME NEW x \in In PROVE x.len = d.shape[a]
      <4>1. PICK p \in table : x = dim(p)
        BY <1>6 DEF DimsOf
      <4>2. p[1] = DimKey(d, a)
        BY <1>1, <4>1 DEF DimKey
      <4> QED BY <1>2, <1>3, <4>1, <4>2
    <3> QED BY <3>1
  <2> HIDE DEF In
  <2>3. (CHOOSE x \in In : TRUE) \in In
    BY <2>1
  <2>4. Found(dst.dims \cup CreatedDims(e), d.group, DimOf(d, a)) = (CHOOSE x \in In : TRUE).len
    BY <2>1 DEF Found, In
  <2> QED BY <2>2, <2>3, <2>4
<1> QED BY <1>6, <1>7

LEMMA TableStep ==
  ASSUME TypeInv, TableInv, [Next]_vars
  PROVE  TableInv'
<1>1. CASE UNCHANGED <<catalog, dimLens>>
  BY <1>1 DEF TableInv
<1>2. ASSUME NEW e \in Exporters, WriteDataset(e) PROVE TableInv'
  <2>1. catalog' = catalog /\ Current(e) = catalog[next[e]] /\ next[e] \in DOMAIN catalog
    BY <1>2, CatalogType DEF WriteDataset, TypeInv, Current
  <2>2. \A f \in Exporters : dimLens'[f] \subseteq dimLens[f] \cup Lengths(Current(e))
    BY <1>2 DEF WriteDataset, TypeInv
  <2>3. \A f \in Exporters : \A p \in dimLens'[f] : \E n \in DOMAIN catalog : p \in Lengths(catalog[n])
    BY <2>1, <2>2 DEF TableInv
  <2> QED BY <2>1, <2>3 DEF TableInv
<1>3. ASSUME NEW e \in Exporters, ~WriteDataset(e),
             \/ CheckExists(e) \/ Create(e) \/ CreateFails(e) \/ WriteFails(e) \/ Finish(e)
      PROVE  UNCHANGED <<catalog, dimLens>>
  BY <1>3 DEF CheckExists, Create, CreateFails, WriteFails, Finish, Raise
<1> QED BY <1>1, <1>2, <1>3 DEF Next, vars

LEMMA WrittenStep ==
  ASSUME TypeInv, DstInv, TableInv, WrittenInv, [Next]_vars
  PROVE  WrittenInv'
<1>0. Len(catalog) \in Nat /\ \A n \in 1 .. Len(catalog) : catalog[n] \in Datasets
  BY CatalogType
<1>1. CASE UNCHANGED vars
  BY <1>1 DEF vars, WrittenInv, Entry, Owns, Alone, DimsOf, ConflictIn
<1>2. ASSUME NEW e \in Exporters, NEW l \in {"checked", "FileExistsError"}, pc[e] = "called",
             Goto(e, l), UNCHANGED <<catalog, kind, dst, next, dimLens>>
      PROVE  WrittenInv'
  <2>1. \A f \in Exporters : pc'[f] = "writing" <=> pc[f] = "writing"
    BY <1>2 DEF Goto, TypeInv
  <2>2. \A f \in Exporters : Owns(f)' => Owns(f)
    BY <1>2, <2>1 DEF Goto, TypeInv, Owns, Alone
  <2> QED BY <1>2, <2>1, <2>2 DEF WrittenInv, Entry, DimsOf, ConflictIn
<1>3. ASSUME NEW e \in Exporters, Create(e) PROVE WrittenInv'
  <2>1. /\ dst' = Fresh(e) /\ pc' = [pc EXCEPT ![e] = "writing"] /\ dst.open = {}
        /\ UNCHANGED <<catalog, kind, next, dimLens>> /\ next[e] = 1 /\ dimLens[e] = {}
    BY <1>3 DEF Create, Goto, TypeInv
  <2>2. ASSUME NEW f \in Exporters, f # e, pc'[f] = "writing"
        PROVE  kind = "zarr" /\ ~Owns(f)'
    <3>1. pc[f] = "writing" /\ kind = "zarr"
      BY <2>1, <2>2 DEF TypeInv, WrittenInv
    <3>2. pc'[e] = "writing"
      BY <2>1 DEF TypeInv
    <3> QED BY <2>1, <2>2, <3>1, <3>2 DEF Owns, Alone
  <2>3. dst'.variables = {} /\ dst'.dims = {} /\ (kind # "zarr" => dst'.open = {e})
    BY <2>1 DEF Fresh, Nothing
  <2>4. {Entry(e, n)' : n \in 1 .. next'[e] - 1} = {}
    BY <2>1
  <2> QED BY <2>1, <2>2, <2>3, <2>4 DEF WrittenInv, DimsOf, ConflictIn, Owns
<1>4. ASSUME NEW e \in Exporters, NEW l, l # "writing", pc[e] \in {"checked", "writing"},
             l \notin {"called", "checked", "FileExistsError"},
             Goto(e, l), dst' = [dst EXCEPT !.open = @ \ {e}],
             UNCHANGED <<catalog, kind, next, dimLens>>
      PROVE  WrittenInv'
  <2>1. ASSUME NEW f \in Exporters, pc'[f] = "writing" PROVE f # e /\ pc[f] = "writing"
    BY <1>4, <2>1 DEF Goto, TypeInv
  <2>2. \A f \in Exporters : Owns(f)' => Owns(f)
    BY <1>4, <2>1 DEF Goto, TypeInv, Owns, Alone
  <2>3. dst'.variables = dst.variables /\ dst'.dims = dst.dims /\ dst'.open = dst.open \ {e}
    BY <1>4 DEF DstInv
  <2>4. kind # "zarr" => \A f \in Exporters : pc'[f] = "writing" => dst'.open = {f}
    BY <2>1, <2>3 DEF WrittenInv
  <2> QED BY <1>4, <2>1, <2>2, <2>3, <2>4 DEF WrittenInv, Entry, DimsOf, ConflictIn
<1>5. ASSUME NEW e \in Exporters, WriteDataset(e) PROVE WrittenInv'
  <2> DEFINE d == Current(e)
             dims == IF kind = "netcdf" THEN dst.dims \cup CreatedDims(e) ELSE {}
             lens == [a \in Axes(d) |->
                        IF kind = "netcdf" THEN Found(dims, d.group, DimOf(d, a)) ELSE d.shape[a]]
             new == [by |-> e, group |-> d.group, leaf |-> d.leaf, lens |-> lens]
  <2>1. /\ pc[e] = "writing" /\ next[e] <= Len(catalog) /\ ~Conflicts(e)
        /\ UNCHANGED <<catalog, kind, pc>>
        /\ next' = [next EXCEPT ![e] = @ + 1]
        /\ dimLens' = [dimLens EXCEPT ![e] = IF kind = "netcdf" THEN @ \cup Lengths(d) ELSE @]
    BY <1>5 DEF WriteDataset
  <2>2. dst'.variables = dst.variables \cup {new} /\ dst'.dims = dims /\ dst'.open = dst.open
    BY <1>5 DEF WriteDataset, DstInv
  <2>3. next[e] \in 1 .. Len(catalog) /\ d = catalog[next[e]] /\ d.shape \in Seq(Nat)
    BY <1>0, <2>1 DEF Current, TypeInv, Datasets
  <2>4. ASSUME kind = "netcdf"
        PROVE  /\ dims = DimsOf(dimLens'[e]) /\ ~ConflictIn(dimLens'[e])
               /\ \A a \in Axes(d) : Found(dims, d.group, DimOf(d, a)) = d.shape[a]
    <3>1. dst.dims = DimsOf(dimLens[e]) /\ ~ConflictIn(dimLens[e] \cup Lengths(d))
      BY <2>1, <2>4 DEF WrittenInv, Conflicts
    <3>2. /\ dims = DimsOf(dimLens[e] \cup Lengths(d))
          /\ \A a \in Axes(d) : Found(dims, d.group, DimOf(d, a)) = d.shape[a]
      BY <2>1, <2>4, <3>1, DimsFollow
    <3>3. dimLens'[e] = dimLens[e] \cup Lengths(d)
      BY <2>1, <2>4 DEF TypeInv
    <3> QED BY <3>1, <3>2, <3>3
  <2>5. lens = d.shape
    <3>1. d.shape = [a \in Axes(d) |-> d.shape[a]]
      BY <2>3 DEF Axes
    <3>2. \A a \in Axes(d) : lens[a] = d.shape[a]
      BY <2>4
    <3> QED BY <3>1, <3>2
  <2>6. new = Entry(e, next[e])
    BY <2>3, <2>5 DEF Entry
  <2> HIDE DEF d, dims, lens, new
  <2>7. ASSUME NEW f \in Exporters, pc'[f] = "writing", kind # "zarr"
        PROVE  f = e /\ dst'.open = {f}
    BY <2>1, <2>2, <2>7 DEF WrittenInv
  <2>8. ASSUME NEW f \in Exporters, Owns(f)'
        PROVE  dst'.variables = {Entry(f, n) : n \in 1 .. next'[f] - 1}
    <3>1. Owns(f)
      BY <2>1, <2>8 DEF Owns, Alone
    <3>2. f = e
      BY <2>1, <2>7, <3>1 DEF Owns, Alone
    <3>3. next'[e] = next[e] + 1 /\ next[e] \in Nat \ {0}
      BY <2>1 DEF TypeInv
    <3>4. 1 .. (next[e] + 1) - 1 = (1 .. next[e] - 1) \cup {next[e]}
      BY <3>3
    <3>5. dst.variables = {Entry(e, n) : n \in 1 .. next[e] - 1}
      BY <3>1, <3>2 DEF WrittenInv
    <3> QED BY <2>2, <2>6, <3>2, <3>3, <3>4, <3>5
  <2>9. \A f, n : Entry(f, n)' = Entry(f, n)
    BY <2>1 DEF Entry
  <2>10. \A f \in Exporters : Owns(f)' => dst'.variables = {Entry(f, n)' : n \in 1 .. next'[f] - 1}
    BY <2>8, <2>9
  <2>11. kind = "netcdf" => \A f \in Exporters : pc'[f] = "writing" =>
           dst'.dims = DimsOf(dimLens'[f]) /\ ~ConflictIn(dimLens'[f])
    BY <2>2, <2>4, <2>7
  <2> QED BY <2>1, <2>7, <2>10, <2>11 DEF WrittenInv
<1>6. CASE \E e \in Exporters : CheckExists(e)
  BY <1>2, <1>6 DEF CheckExists
<1>7. CASE \E e \in Exporters : CreateFails(e) \/ WriteFails(e) \/ Finish(e)
  BY <1>4, <1>7 DEF CreateFails, WriteFails, Finish, Raise
<1> QED BY <1>1, <1>3, <1>5, <1>6, <1>7 DEF Next

LEMMA WrittenAlways == Spec => [](TypeInv /\ DstInv /\ TableInv /\ WrittenInv)
<1>1. Init => TableInv /\ WrittenInv
  BY DEF Init, TableInv, WrittenInv, Owns
<1> QED BY InitInv, TypeStep, TableStep, WrittenStep, <1>1, PTL DEF Spec

(* What export() returned is whole and its own, for every catalog and any number
   of calls with the same dst: of HDF5 and netCDF whatever the others do, of a
   Zarr store while no other call has opened it. *)
THEOREM AlwaysReturnsWhole == Spec => ReturnsWhole
<1> DEFINE Inv == TypeInv /\ DstInv /\ TableInv /\ WrittenInv
           Whole(e) == dst.variables = {[by |-> e, group |-> d.group, leaf |-> d.leaf, lens |-> d.shape] :
                                          d \in {catalog[n] : n \in DOMAIN catalog}}
<1>1. ASSUME Inv, Next, NEW e \in Exporters, pc[e] # "returned", pc'[e] = "returned",
             kind = "zarr" => Alone(e)
      PROVE  Whole(e)
  <2>1. Finish(e)
    <3>1. ASSUME NEW f \in Exporters, ~Finish(f),
                 \/ CheckExists(f) \/ Create(f) \/ CreateFails(f) \/ WriteDataset(f) \/ WriteFails(f)
          PROVE  pc'[e] # "returned"
      BY <1>1, <3>1 DEF CheckExists, Create, CreateFails, WriteDataset, WriteFails, Raise, Goto, TypeInv
    <3>2. PICK f \in Exporters : Finish(f)
      BY <1>1, <3>1 DEF Next
    <3> QED BY <1>1, <3>2 DEF Finish, Goto, TypeInv
  <2>2. dst.variables = {Entry(e, n) : n \in 1 .. next[e] - 1}
    BY <1>1, <2>1 DEF Finish, WrittenInv, Owns
  <2>3. 1 .. next[e] - 1 = DOMAIN catalog
    <3>1. next[e] = Len(catalog) + 1 /\ Len(catalog) \in Nat
      BY <1>1, <2>1, CatalogType DEF Finish, TypeInv
    <3> QED BY <1>1, <3>1, CatalogType
  <2> QED BY <2>2, <2>3 DEF Entry
<1>2. Inv /\ [Next]_vars =>
        [\A e \in Exporters :
           /\ pc[e] # "returned" /\ pc'[e] = "returned"
           /\ kind = "zarr" => Alone(e)
           => Whole(e)]_vars
  BY <1>1
<1> QED BY WrittenAlways, <1>2, PTL DEF Spec, ReturnsWhole

(* A call raises "length conflict" only of two axes of the catalog that have the
   same name in the same group, one of them by its dim_names: a generated name is
   that of its own axis. *)
THEOREM ConflictsAlwaysReal == Spec => []ConflictsAreReal
<1> DEFINE Real == \E m, n \in DOMAIN catalog :
                     \E a \in Axes(catalog[m]), b \in Axes(catalog[n]) :
                       /\ catalog[m].group = catalog[n].group
                       /\ Named(catalog[m]) \/ Named(catalog[n])
                       /\ DimOf(catalog[m], a) = DimOf(catalog[n], b)
                       /\ catalog[m].shape[a] # catalog[n].shape[b]
<1>1. ASSUME TypeInv, TableInv, NEW e \in Exporters, next[e] <= Len(catalog), Conflicts(e)
      PROVE  Real
  <2>1. PICK p \in dimLens[e] \cup Lengths(Current(e)), q \in dimLens[e] \cup Lengths(Current(e)) :
          p[1] = q[1] /\ p[2] # q[2]
    BY <1>1 DEF Conflicts, ConflictIn
  <2>2. next[e] \in DOMAIN catalog /\ DOMAIN catalog = 1 .. Len(catalog)
    BY <1>1, CatalogType DEF TypeInv
  <2>7. PICK m \in DOMAIN catalog, n \in DOMAIN catalog :
          p \in Lengths(catalog[m]) /\ q \in Lengths(catalog[n])
    BY <1>1, <2>2 DEF TableInv, Current
  <2>3. PICK a \in Axes(catalog[m]) : p = <<DimKey(catalog[m], a), catalog[m].shape[a]>>
    BY <2>7 DEF Lengths
  <2>4. PICK b \in Axes(catalog[n]) : q = <<DimKey(catalog[n], b), catalog[n].shape[b]>>
    BY <2>7 DEF Lengths
  <2>5. /\ catalog[m].group = catalog[n].group
        /\ DimOf(catalog[m], a) = DimOf(catalog[n], b)
        /\ catalog[m].shape[a] # catalog[n].shape[b]
    BY <2>1, <2>3, <2>4 DEF DimKey
  <2>6. Named(catalog[m]) \/ Named(catalog[n])
    <3> SUFFICES ASSUME ~Named(catalog[m]), ~Named(catalog[n]) PROVE FALSE
      OBVIOUS
    <3>1. catalog[m].leaf = catalog[n].leaf /\ a - 1 = b - 1
      BY <2>5 DEF DimOf
    <3>2. m = n
      BY <1>1, <2>5, <3>1, ConstantsAssumption DEF TypeInv
    <3>3. a \in Nat /\ b \in Nat
      <4>1. catalog[m].shape \in Seq(Nat) /\ catalog[n].shape \in Seq(Nat)
        BY <1>1, <2>2, CatalogType DEF Datasets
      <4> QED BY <4>1 DEF Axes
    <3> QED BY <2>5, <3>1, <3>2, <3>3
  <2> QED BY <2>5, <2>6
<1>2. Init => ConflictsAreReal
  BY DEF Init, ConflictsAreReal
<1>3. ASSUME TypeInv, TableInv, ConflictsAreReal, [Next]_vars PROVE ConflictsAreReal'
  <2>1. catalog' = catalog /\ kind' = kind
    BY <1>3 DEF Next, CheckExists, Create, CreateFails, WriteDataset, WriteFails, Finish, Raise, vars
  <2>2. SUFFICES ASSUME kind = "netcdf", NEW e \in Exporters, pc'[e] = "ValueError", catalog # <<>>
                 PROVE  Real
    BY <2>1 DEF ConflictsAreReal
  <2>3. CASE pc[e] = "ValueError"
    BY <1>3, <2>2, <2>3 DEF ConflictsAreReal
  <2>4. CASE pc[e] # "ValueError"
    <3>1. PICK f \in Exporters : WriteFails(f) /\ Conflicts(f)
      BY <1>3, <2>2, <2>4 DEF Next, CheckExists, Create, CreateFails, WriteDataset, WriteFails, Finish,
         Raise, Goto, TypeInv, vars
    <3> QED BY <1>1, <1>3, <3>1 DEF WriteFails
  <2> QED BY <2>3, <2>4
<1> QED BY WrittenAlways, <1>2, <1>3, PTL DEF Spec
=============================================================================
