------------------------------- MODULE Convert -------------------------------
(***************************************************************************)
(* tet.convert as a whole (python/tet/convert.py): the dispatch on the     *)
(* format, the importers of .npy, .npz, HDF5, netCDF, Zarr and Parquet,    *)
(* and the writer session that ends every conversion.  An s3:// source     *)
(* goes through S3Convert; a single object comes back as a local file.     *)
(* CSV and TSV are imported by TableLoad; here they give something,        *)
(* nothing or an error.                                                    *)
(*                                                                         *)
(* A tree (HDF5, netCDF, Zarr) is a graph of groups with named links: in   *)
(* HDF5 an array may have two names, a link may dangle and a group may     *)
(* contain itself.  The walk visits what it has found in any order; the    *)
(* code's is the sorted one.                                               *)
(***************************************************************************)
EXTENDS S3Convert, Sequences

CONSTANTS
  LinkNames,  \* names of links in a group
  MaxDepth    \* stands for the recursion limit of the interpreter

ASSUME ConvertAssumption == MaxDepth \in Nat \ {0}

VARIABLES
  src,    \* the local (or staged) source and how convert() was called
  paths,  \* what the walk of a tree has still to visit: items under their paths
  found   \* the imports so far

localVars == <<src, paths, found>>
remote == <<env, probe, history, todo, imports, faults>>

Trees == {"h5", "netcdf", "zarr"}
Formats == Trees \cup {"npy", "npz", "table", "parquet"}

-----------------------------------------------------------------------------
(* Sources *)

(* An array of a file, as far as _as_wire and the importers look at it: rank
   0, empty and of an unknown dtype are all "skipped". *)
ArrayKinds == {"ok", "skipped", "object", "fortran"}

Groups == {"root", "group"}
Items == {"ok", "skipped", "group", "root", "dangling", "none"}
Links == [Groups -> [LinkNames -> Items]]

(* A netCDF or Zarr hierarchy is a tree and its links are its own. *)
IsTree(links) ==
  /\ \A g \in Groups, n \in LinkNames : links[g][n] \notin {"root", "dangling"}
  /\ \A n \in LinkNames : links["group"][n] # "group"
  /\ Cardinality({n \in LinkNames : links["root"][n] = "group"}) <= 1

(* Members of an .npz and the dataset names they get. *)
Members == {"a", "a.npy", "g/b", "g\\b", ""}
DatasetName(member) ==
  CASE member = "a.npy" -> "a"
    [] member = "g\\b"  -> "g/b"
    [] member = ""      -> "data"
    [] OTHER            -> member

(* Columns of a Parquet table: their type, whether they have nulls and whether
   two columns share the name.  A column of "other" type is of no numeric or
   string type, or it is empty; "long labels" has a category note that
   _Category does not keep, or no label at all. *)
Columns == {"x", "y"}
ColumnTypes == {"integer", "floating", "string", "dictionary", "long labels", "other"}

Contents(kind) ==
  CASE kind \in Trees    -> {links \in Links : kind = "h5" \/ IsTree(links)}
    [] kind = "npz"      -> UNION {[M -> ArrayKinds] : M \in {S \in SUBSET Members : Cardinality(S) <= 3}}
    [] kind = "npy"      -> ArrayKinds
    [] kind = "parquet"  -> UNION {[C -> [type: ColumnTypes, nulls: BOOLEAN, twice: BOOLEAN]] :
                                     C \in SUBSET Columns}
    [] kind = "table"    -> {"some", "none", "raises"}

Plain(kind, content) ==
  [kind |-> kind, content |-> content, format |-> "none", suffix |-> kind,
   exists |-> TRUE]

(* Calls with a format=, an unknown suffix or a missing source. *)
Calls(kind, content) ==
  [kind : {kind}, content : {content}, format : {"none", "other"} \cup Formats,
   suffix : {kind, "other"}, exists : BOOLEAN]

(* Where things are: chains of names from the root of a tree, members of an
   .npz, columns of a table.  What comes of an array or a column. *)
Chains == UNION {[1 .. k -> LinkNames] : k \in 1 .. MaxDepth + 1}
Names == Chains \cup Members \cup Columns \cup {"array", "data", "col0"}
Imports == [name : Names, of : Names, as : {"same", "floats", "codes"}]

ASSUME NoDstAssumption ==
  NoDst \notin [imports : SUBSET Imports, history : Formats \cup {"zarr2"}]

ConvertInit ==
  /\ Init
  /\ \E kind \in Formats :
       \/ target = "object" /\ kind # "zarr" /\ \E c \in Contents(kind) : src = Plain(kind, c)
       \/ target = "local" /\ \E c \in Contents(kind) : src = Plain(kind, c)
       \/ target = "local" /\ src \in Calls(kind, CHOOSE c \in Contents(kind) : TRUE)
       \/ target \in {"prefix", "malformed"} /\ kind = "zarr" /\ src = Plain("zarr", "remote")
  /\ paths = {} /\ found = {}

-----------------------------------------------------------------------------
(* convert(): the dispatch *)

Kind == IF src.format = "none" THEN src.suffix ELSE src.format

Goto(stage) == pc' = stage /\ UNCHANGED <<remote, dst>>
Fail(error) == Goto(error) /\ UNCHANGED localVars

Optional == Trees \cup {"parquet"}

Dispatch ==
  /\ pc = "staged"
  /\ CASE src.format = "none" /\ src.suffix = "other" -> Fail("ValueError")  \* _infer_format
       [] src.format # "none" \/ src.suffix # "other" ->
            CASE ~src.exists                        -> Fail("FileNotFoundError")
              [] src.exists /\ Kind \notin Formats  -> Fail("ValueError")
              [] src.exists /\ Kind \in Optional /\ ~extra -> Fail("ImportError")
              [] OTHER -> Goto("load") /\ UNCHANGED localVars

(* What is there is not of the format asked for, or cannot be read. *)
LoadFails ==
  /\ pc = "load"
  /\ Fail("LibraryError")

Is(kind) == pc = "load" /\ Kind = kind /\ src.kind = kind

Import(name, of, as) == [name |-> name, of |-> of, as |-> as]

(* "no supported arrays" unless something is left to write. *)
Loaded(is) ==
  /\ found' = is
  /\ Goto(IF is = {} THEN "ValueError" ELSE "write")
  /\ UNCHANGED <<src, paths>>

-----------------------------------------------------------------------------
(* The importers *)

LoadNpy ==
  /\ Is("npy")
  /\ IF src.content = "ok" THEN Loaded({Import("data", "array", "same")})
     ELSE Fail("ValueError")

Clash(members) ==
  \E m, n \in members : m # n /\ DatasetName(m) = DatasetName(n)

(* Every member is looked at in turn, skipped or not, before any is written. *)
LoadNpz ==
  /\ Is("npz")
  /\ LET members == DOMAIN src.content
     IN  IF Clash(members) \/ \E m \in members : src.content[m] \in {"object", "fortran"}
         THEN Fail("ValueError")
         ELSE Loaded({Import(DatasetName(m), m, "same") :
                        m \in {m \in members : src.content[m] = "ok"}})

LoadTable ==
  /\ Is("table")
  /\ CASE src.content = "raises" -> Fail("ValueError")
       [] src.content = "none"   -> Loaded({})
       [] src.content = "some"   -> Loaded({Import("col0", "col0", "same")})

(* Nulls among integers make them floats. *)
IntegersAs(c) == IF c.nulls THEN "floats" ELSE "same"

(* _parquet_column: strings become codes with a note, a null is a NaN or the
   code of a missing label. *)
ColumnAs(c) ==
  CASE c.type \in {"string", "dictionary"} -> "codes"
    [] c.type = "integer"                  -> IntegersAs(c)
    [] c.type = "floating"                 -> "floats"
    [] OTHER                               -> "dropped"

(* table.column(name) refuses a name that two columns have. *)
LoadParquet ==
  /\ Is("parquet")
  /\ IF \E n \in DOMAIN src.content : src.content[n].twice THEN Fail("KeyError")
     ELSE Loaded({Import(n, n, ColumnAs(src.content[n])) :
                    n \in {n \in DOMAIN src.content : ColumnAs(src.content[n]) # "dropped"}})

-----------------------------------------------------------------------------
(* The walk of a tree: _walk_h5, _walk_nc, _walk_zarr *)

OwnName(prefix, name) == <<name>>     \* a slip: the prefix is not handed down
Joined(prefix, name) == Append(prefix, name)

(* The links of a group, as the loop over its keys finds them. *)
Entries(prefix, group) ==
  {[path |-> Joined(prefix, n), item |-> src.content[group][n]] :
     n \in {n \in LinkNames : src.content[group][n] # "none"}}

OpenTree ==
  /\ \E kind \in Trees : Is(kind)
  /\ paths' = Entries(<<>>, "root")
  /\ Goto("tree") /\ UNCHANGED <<src, found>>

VisitArray(e) ==
  /\ pc = "tree" /\ e.item \in {"ok", "skipped"}
  /\ found' = found \cup (IF e.item = "ok" THEN {Import(e.path, e.path, "same")} ELSE {})
  /\ paths' = paths \ {e}
  /\ Goto("tree") /\ UNCHANGED src

VisitGroup(e) ==
  /\ pc = "tree" /\ e.item \in Groups
  /\ Len(e.path) < MaxDepth
  /\ paths' = (paths \ {e}) \cup Entries(e.path, e.item)
  /\ Goto("tree") /\ UNCHANGED <<src, found>>

(* A group that contains itself is walked until the interpreter gives up. *)
RecursionTooDeep(e) ==
  /\ pc = "tree" /\ e.item \in Groups
  /\ Len(e.path) = MaxDepth
  /\ Fail("RecursionError")

(* group[name] of a soft link to nowhere. *)
DanglingLink(e) ==
  /\ pc = "tree" /\ e.item = "dangling"
  /\ Fail("KeyError")

EndTree ==
  /\ pc = "tree" /\ paths = {}
  /\ Loaded(found)

-----------------------------------------------------------------------------
(* _commit() *)

(* The history tag of a Zarr is that of its metadata. *)
Tags == IF Kind = "zarr" THEN {"zarr", "zarr2"} ELSE {Kind}

Write ==
  /\ pc = "write"
  /\ \E tag \in Tags : dst' = [imports |-> found, history |-> tag]
  /\ pc' = "done"
  /\ UNCHANGED <<remote, localVars>>

WriteFails ==
  /\ pc = "write"
  /\ Fail("WriteError")

ConvertNext ==
  \/ Next /\ UNCHANGED localVars
  \/ Dispatch \/ LoadFails
  \/ LoadNpy \/ LoadNpz \/ LoadTable \/ LoadParquet \/ OpenTree
  \/ \E e \in paths : \/ VisitArray(e) \/ VisitGroup(e)
                      \/ RecursionTooDeep(e) \/ DanglingLink(e)
  \/ EndTree \/ Write \/ WriteFails

allVars == <<vars, localVars>>

(* One thread of the caller runs the conversion and every request returns. *)
ConvertSpec == ConvertInit /\ [][ConvertNext]_allVars /\ WF_allVars(ConvertNext)

-----------------------------------------------------------------------------
(* Properties *)

Stages == {"start", "probe", "tag", "open", "openv2", "list", "walk", "commit",
           "staged", "load", "tree", "write", "done"}
AllErrors == Errors \cup {"FileNotFoundError", "LibraryError", "RecursionError", "KeyError"}
Written == pc = "done" /\ target # "prefix"

(* TypeOK: types; only the walk of a tree has something to visit, a source with
   nothing to import is never written, and a .tet is at the destination exactly
   when the conversion is done. *)
ConvertTypeOK ==
  /\ objects \subseteq Keys /\ target \in Targets
  /\ service \in Services /\ extra \in BOOLEAN
  /\ src.kind \in Formats /\ src.exists \in BOOLEAN
  /\ pc \in Stages \cup AllErrors
  /\ probe \in Metas \cup {"none"} /\ history \in Histories
  /\ todo \subseteq ArrayMetas \cup ChunkKeys
  /\ imports \in Images
  /\ faults \in 0 .. MaxFaults
  /\ paths \subseteq [path : Chains, item : Items \ {"none"}]
  /\ found \subseteq Imports
  /\ pc = "staged" => found = {}
  /\ pc \in {"staged", "load", "write"} => paths = {}
  /\ pc = "done" <=> dst # NoDst
  /\ pc = "write" => found # {}
  /\ target = "prefix" /\ pc \in {"commit", "done"} => DOMAIN imports # {}

(* In which group each name of a chain is looked up, and what the last is. *)
OnChain(q, g, item) ==
  /\ g[1] = "root"
  /\ \A k \in DOMAIN q :
       src.content[g[k]][q[k]] = IF k = Len(q) THEN item ELSE g[k + 1]
LeadsTo(q, item) == \E g \in [DOMAIN q -> Groups] : OnChain(q, g, item)

(* Of a tree everything is imported that a chain of links leads to and the
   writer can hold, each under the names on that chain: also the array that
   two links name, and nothing is left out once a .tet is written. *)
TreeComplete ==
  Written /\ src.kind \in Trees =>
    dst.imports = {Import(q, q, "same") : q \in {q \in Chains : LeadsTo(q, "ok")}}

=============================================================================
