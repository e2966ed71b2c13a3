--------------------------- MODULE Convert_proofs ---------------------------
(***************************************************************************)
(* Proofs about Convert: type correctness, what an s3:// conversion reads  *)
(* and reports, and what a converted tree holds.                           *)
(***************************************************************************)
EXTENDS Convert, FiniteSetTheorems, SequenceTheorems, TLAPS

USE ConstantsAssumption, ConvertAssumption, NoDstAssumption

-----------------------------------------------------------------------------
(* Types *)

(* Where a conversion can be for each kind of source: only an s3:// prefix is
   walked key by key, only what is local or was downloaded gets to an importer. *)
PlaceInv ==
  /\ target = "prefix" =>
       pc \in {"start", "probe", "tag", "open", "openv2", "list", "walk", "commit", "done"} \cup AllErrors
  /\ target = "malformed" => pc \in {"start"} \cup AllErrors
  /\ target = "object" => pc \in {"start", "staged", "load", "tree", "write", "done"} \cup AllErrors
  /\ target = "local" => pc \in {"staged", "load", "tree", "write", "done"} \cup AllErrors
  /\ pc \in {"start", "probe"} => probe \in Metas
  /\ pc \in {"start", "probe", "tag", "open", "openv2", "list", "walk", "commit", "staged", "load"} =>
       paths = {} /\ found = {}

(* A local or downloaded source is a possible file of its kind. *)
SourceInv ==
  /\ target \in {"local", "object"} => src.content \in Contents(src.kind)
  /\ pc = "tree" => src.kind \in Trees
  /\ pc \in {"tree", "write"} => Kind = src.kind

ConvertInv == ConvertTypeOK /\ PlaceInv /\ SourceInv

(* Every format has a possible source. *)
LEMMA ContentsExist ==
  ASSUME NEW kind \in Formats
  PROVE  Contents(kind) # {}
<1>1. CASE kind \in Trees
  <2> DEFINE links == [g \in Groups |-> [n \in LinkNames |-> "none"]]
  <2>1. links \in Links
    BY DEF Links, Items
  <2>2. {n \in LinkNames : links["root"][n] = "group"} = {}
    BY DEF Groups
  <2>3. IsTree(links)
    BY <2>1, <2>2, FS_EmptySet DEF IsTree, Groups
  <2>4. Contents(kind) = {ls \in Links : kind = "h5" \/ IsTree(ls)}
    BY <1>1 DEF Contents, Trees
  <2> QED BY <2>1, <2>3, <2>4
<1>2. CASE kind = "npz"
  <2>1. [m \in {} |-> "ok"] \in [{} -> ArrayKinds]
    OBVIOUS
  <2>2. {} \in {S \in SUBSET Members : Cardinality(S) <= 3}
    BY FS_EmptySet
  <2>3. Contents(kind) = UNION {[M -> ArrayKinds] : M \in {S \in SUBSET Members : Cardinality(S) <= 3}}
    BY <1>2 DEF Contents, Trees
  <2> QED BY <2>1, <2>2, <2>3
<1>4. CASE kind = "parquet"
  <2> DEFINE column == [type : ColumnTypes, nulls : BOOLEAN, twice : BOOLEAN]
  <2> HIDE DEF column
  <2>1. [n \in {} |-> "ok"] \in [{} -> column]
    OBVIOUS
  <2>2. Contents(kind) = UNION {[C -> column] : C \in SUBSET Columns}
    BY <1>4 DEF Contents, Trees, column
  <2> QED BY <2>1, <2>2
<1>3. CASE kind \in {"npy", "table"}
  BY <1>3 DEF Contents, Trees, ArrayKinds
<1> QED BY <1>1, <1>2, <1>3, <1>4 DEF Formats

LEMMA ConvertInitInv == ConvertInit => ConvertInv
<1> SUFFICES ASSUME ConvertInit PROVE ConvertInv
  OBVIOUS
<1>1. imports \in Images /\ DOMAIN imports = {}
  <2>1. imports = [a \in {} |-> Unread]
    BY DEF ConvertInit, Init
  <2>2. imports \in [{} -> [Chunks -> {Bytes, Fill}]]
    BY <2>1
  <2>3. {} \in SUBSET Arrays
    OBVIOUS
  <2> QED BY <2>1, <2>2, <2>3 DEF Images
<1>2. target \in Targets /\ objects \subseteq Keys
  <2>1. target \in {"prefix", "object", "local", "malformed"} /\ objects \in Buckets(target)
    BY DEF ConvertInit, Init, Targets
  <2>2. {Source} \subseteq Keys
    BY DEF Keys
  <2> QED BY <2>1, <2>2 DEF Buckets, Targets
<1>3. \E kind \in Formats :
        /\ target \in {"object", "local"} => src.content \in Contents(kind)
        /\ src.kind = kind /\ src.exists \in BOOLEAN
  <2>1. PICK kind \in Formats :
          \/ \E c \in Contents(kind) : src = Plain(kind, c)
          \/ target = "local" /\ src \in Calls(kind, CHOOSE c \in Contents(kind) : TRUE)
          \/ target \in {"prefix", "malformed"} /\ src = Plain(kind, "remote")
    BY DEF ConvertInit
  <2>2. (CHOOSE c \in Contents(kind) : TRUE) \in Contents(kind)
    BY ContentsExist
  <2>3. /\ target \in {"object", "local"} => src.content \in Contents(kind)
        /\ src.kind = kind /\ src.exists \in BOOLEAN
    <3>1. ASSUME NEW c \in Contents(kind), src \in Calls(kind, c)
          PROVE  src.content = c /\ src.kind = kind /\ src.exists \in BOOLEAN
      BY <3>1 DEF Calls
    <3>2. ASSUME NEW c, src = Plain(kind, c)
          PROVE  src.content = c /\ src.kind = kind /\ src.exists \in BOOLEAN
      BY <3>2 DEF Plain
    <3> QED BY <2>1, <2>2, <3>1, <3>2
  <2> QED BY <2>3
<1>4. ConvertTypeOK
  BY <1>1, <1>2, <1>3 DEF ConvertInit, Init, ConvertTypeOK, Stages, Metas, Histories
<1>5. PlaceInv
  BY <1>2 DEF ConvertInit, Init, PlaceInv, Targets, Metas
<1>6. SourceInv
  BY <1>2, <1>3 DEF ConvertInit, Init, SourceInv
<1> QED BY <1>4, <1>5, <1>6 DEF ConvertInv

(* A chain is a nonempty sequence of names, of a bounded length. *)
LEMMA ChainsAreSequences ==
  ASSUME NEW q
  PROVE  q \in Chains <=> q \in Seq(LinkNames) /\ Len(q) \in 1 .. MaxDepth + 1
<1>1. ASSUME q \in Chains PROVE q \in Seq(LinkNames) /\ Len(q) \in 1 .. MaxDepth + 1
  <2>1. PICK k \in 1 .. MaxDepth + 1 : q \in [1 .. k -> LinkNames]
    BY <1>1 DEF Chains
  <2>2. q \in Seq(LinkNames) /\ Len(q) = k
    BY <2>1
  <2> QED BY <2>2
<1>2. ASSUME q \in Seq(LinkNames), Len(q) \in 1 .. MaxDepth + 1 PROVE q \in Chains
  BY <1>2 DEF Chains
<1> QED BY <1>1, <1>2

(* What a group contributes to the walk. *)
LEMMA EntriesType ==
  ASSUME NEW prefix \in Chains \cup {<<>>}, Len(prefix) <= MaxDepth,
         NEW group \in Groups, src.content \in Links
  PROVE  Entries(prefix, group) \subseteq [path : Chains, item : Items \ {"none"}]
<1> SUFFICES ASSUME NEW n \in LinkNames, src.content[group][n] # "none"
             PROVE  Joined(prefix, n) \in Chains /\ src.content[group][n] \in Items
  BY DEF Entries
<1>1. prefix \in Seq(LinkNames)
  <2>1. <<>> \in Seq(LinkNames)
    OBVIOUS
  <2>2. prefix \in Chains => prefix \in Seq(LinkNames)
    BY ChainsAreSequences
  <2> QED BY <2>1, <2>2
<1>2. Append(prefix, n) \in Seq(LinkNames) /\ Len(Append(prefix, n)) = Len(prefix) + 1
  BY <1>1
<1>3. Joined(prefix, n) \in Chains
  <2>1. Len(prefix) \in Nat /\ Len(prefix) + 1 \in 1 .. MaxDepth + 1
    BY <1>1
  <2> QED BY <1>2, <2>1, ChainsAreSequences DEF Joined
<1> QED BY <1>3 DEF Links

(* However a request ends, the count of failures stays within its bound, and it
   moves only when one fails. *)
LEMMA RequestTypes ==
  ASSUME ConvertInv, NEW key,
         Found(key) \/ LooksAbsent(key) \/ NoSuchKey(key) \/ NamesEndpoint(key) \/ Faulted(key)
  PROVE  faults' \in 0 .. MaxFaults /\ (faults' = faults \/ faults' = faults + 1)
<1>1. faults \in 0 .. MaxFaults
  BY DEF ConvertInv, ConvertTypeOK
<1>2. UNCHANGED faults \/ Faulted(key)
  BY DEF Found, LooksAbsent, NoSuchKey, NamesEndpoint, Missing, Refused, Unconfigured
<1> QED BY <1>1, <1>2 DEF Faulted

(* The requests of an s3:// source. *)
LEMMA RemoteTypes ==
  ASSUME ConvertInv, Next, UNCHANGED localVars
  PROVE  ConvertInv'
<1> USE DEF ConvertInv, ConvertTypeOK, PlaceInv, SourceInv, Kind, localVars, env, Stages, AllErrors, Errors, Targets
<1>1. CASE RefuseUri \/ DownloadFails \/ ProbeFails \/ ListFails \/ CommitFails
  <2>1. faults' \in 0 .. MaxFaults
    BY <1>1, RequestTypes DEF RefuseUri, DownloadFails, ProbeFails, ListFails, CommitFails, ConvertInv,
       ConvertTypeOK
  <2> QED BY <1>1, <2>1 DEF RefuseUri, DownloadFails, ProbeFails, ListFails, CommitFails, Raise
<1>11. CASE RequireZarr
  BY <1>11 DEF RequireZarr
<1>2. CASE DownloadObject \/ ProbeFound
  BY <1>2 DEF DownloadObject, ProbeFound, Found
<1>9. CASE ProbeAbsent
  <2>1. probe' \in Metas \cup {"none"} /\ (pc' = "probe" => probe' \in Metas)
    BY <1>9 DEF ProbeAbsent, NextProbe, Metas
  <2>2. faults' \in 0 .. MaxFaults
    BY <1>9, RequestTypes DEF ProbeAbsent
  <2> QED BY <1>9, <2>1, <2>2 DEF ProbeAbsent
<1>10. CASE TagHistory \/ OpenV3 \/ OpenV2
  <2>1. faults' \in 0 .. MaxFaults
    BY <1>10, RequestTypes DEF TagHistory, OpenV3, OpenV2
  <2>2. history' \in Histories
    BY <1>10 DEF TagHistory, OpenV3, OpenV2, Histories
  <2> QED BY <1>10, <2>1, <2>2 DEF TagHistory, OpenV3, OpenV2
<1>3. CASE ListKeys
  BY <1>3 DEF ListKeys, ArrayMetas
<1>4. ASSUME NEW key \in todo, OpenArray(key) PROVE ConvertInv'
  <2>1. key[1] \in Arrays /\ {key[1]} \X Chunks \subseteq ChunkKeys
    BY <1>4 DEF OpenArray, ArrayMetas, ChunkKeys
  <2>2. imports' \in Images
    <3>1. PICK A \in SUBSET Arrays : imports \in [A -> [Chunks -> {Bytes, Fill}]]
      BY DEF Images
    <3>2. imports' \in [A \cup {key[1]} -> [Chunks -> {Bytes, Fill}]]
      BY <1>4, <3>1 DEF OpenArray, Unread
    <3>3. A \cup {key[1]} \in SUBSET Arrays
      BY <2>1
    <3> HIDE DEF Images
    <3> QED BY <3>2, <3>3 DEF Images
  <2> QED BY <1>4, <2>1, <2>2 DEF OpenArray, Found
<1>5. ASSUME NEW key \in todo, NotAMember(key) \/ FillChunk(key) PROVE ConvertInv'
  <2>1. faults' \in 0 .. MaxFaults
    BY <1>5, RequestTypes DEF NotAMember, FillChunk
  <2> QED BY <1>5, <2>1 DEF NotAMember, FillChunk
<1>6. ASSUME NEW key \in todo, ReadChunk(key) PROVE ConvertInv'
  <2>1. imports' \in Images
    <3>1. PICK A \in SUBSET Arrays : imports \in [A -> [Chunks -> {Bytes, Fill}]]
      BY DEF Images
    <3>2. imports' \in [A -> [Chunks -> {Bytes, Fill}]]
      BY <1>6, <3>1 DEF ReadChunk, ChunkKeys
    <3> QED BY <3>1, <3>2 DEF Images
  <2> QED BY <1>6, <2>1 DEF ReadChunk, Found
<1>7. CASE EndWalk
  BY <1>7 DEF EndWalk
<1>8. CASE Commit
  <2>1. dst' \in [imports : Images, history : Histories]
    BY <1>8 DEF Commit
  <2> QED BY <1>8, <2>1 DEF Commit
<1> QED BY <1>1, <1>2, <1>3, <1>4, <1>5, <1>6, <1>7, <1>8, <1>9, <1>10, <1>11 DEF Next

LEMMA LoadedTypes ==
  ASSUME ConvertInv, pc \in {"load", "tree"}, paths = {}, NEW is \in SUBSET Imports, Loaded(is),
         target \in {"object", "local"}, Kind = src.kind
  PROVE  ConvertInv'
BY DEF Kind, Loaded, Goto, remote, env, ConvertInv, ConvertTypeOK, PlaceInv, SourceInv, Stages, AllErrors,
   Errors

LEMMA TreeLinks ==
  ASSUME src.kind \in Trees, src.content \in Contents(src.kind)
  PROVE  src.content \in Links
<1>1. Contents(src.kind) = {ls \in Links : src.kind = "h5" \/ IsTree(ls)}
  BY DEF Contents, Trees
<1> QED BY <1>1

LEMMA TableContent ==
  ASSUME ConvertInv, LoadTable
  PROVE  src.content \in {"some", "none", "raises"}
<1>1. target \in {"object", "local"} /\ src.kind = "table"
  BY DEF LoadTable, Is, ConvertInv, ConvertTypeOK, PlaceInv, Targets, AllErrors, Errors
<1> QED BY <1>1 DEF ConvertInv, SourceInv, Contents, Trees

(* The importers and the writer session. *)
LEMMA LocalTypes ==
  ASSUME ConvertInv,
         \/ Dispatch \/ LoadFails
         \/ LoadNpy \/ LoadNpz \/ LoadTable \/ LoadParquet \/ OpenTree
         \/ \E e \in paths : \/ VisitArray(e) \/ VisitGroup(e)
                             \/ RecursionTooDeep(e) \/ DanglingLink(e)
         \/ EndTree \/ Write \/ WriteFails
  PROVE  ConvertInv'
<1>0. target \in {"object", "local"} /\ src.content \in Contents(src.kind)
  <2>1. pc \in {"staged", "load", "tree", "write"}
    BY DEF Dispatch, LoadFails, LoadNpy, LoadNpz, LoadTable, LoadParquet, OpenTree, Is, VisitArray,
       VisitGroup, RecursionTooDeep, DanglingLink, EndTree, Write, WriteFails
  <2> QED BY <2>1 DEF ConvertInv, ConvertTypeOK, Targets, PlaceInv, SourceInv, AllErrors, Errors
<1>1. ASSUME NEW error \in AllErrors, Fail(error), pc # "done" PROVE ConvertInv'
  BY <1>1, <1>0 DEF Fail, Goto, localVars, remote, env, ConvertInv, ConvertTypeOK, PlaceInv, SourceInv,
     Stages, AllErrors, Errors
<1>2. CASE Dispatch \/ LoadFails \/ WriteFails \/ \E e \in paths : RecursionTooDeep(e) \/ DanglingLink(e)
  <2>1. pc # "done"
    BY <1>2 DEF Dispatch, LoadFails, WriteFails, RecursionTooDeep, DanglingLink
  <2>2. CASE Dispatch /\ Goto("load") /\ UNCHANGED localVars
    BY <1>0, <2>2 DEF Dispatch, Goto, localVars, remote, env, ConvertInv, ConvertTypeOK, PlaceInv, SourceInv,
       Stages, AllErrors, Errors
  <2>3. \/ Dispatch /\ Goto("load") /\ UNCHANGED localVars
        \/ \E error \in AllErrors : Fail(error)
    BY <1>2 DEF Dispatch, LoadFails, WriteFails, RecursionTooDeep, DanglingLink, AllErrors, Errors
  <2> QED BY <1>1, <2>1, <2>2, <2>3
<1>3. CASE LoadNpy
  <2>1. {Import("data", "array", "same")} \in SUBSET Imports
    BY DEF Import, Imports, Names
  <2>2. Kind = src.kind
    BY <1>3 DEF LoadNpy, Is
  <2> QED BY <1>0, <1>1, <1>3, <2>1, <2>2, LoadedTypes
        DEF LoadNpy, Is, AllErrors, Errors, ConvertInv, ConvertTypeOK
<1>4. CASE LoadNpz
  <2> DEFINE good == {Import(DatasetName(m), m, "same") : m \in {m \in DOMAIN src.content : src.content[m] = "ok"}}
  <2>1. PICK M \in SUBSET Members : src.content \in [M -> ArrayKinds]
    BY <1>0, <1>4 DEF LoadNpz, Is, Contents, Trees
  <2>2. \A m \in Members : DatasetName(m) \in Members \cup {"data"}
    BY DEF DatasetName, Members
  <2>3. good \in SUBSET Imports
    BY <2>1, <2>2 DEF Import, Imports, Names
  <2>4. Kind = src.kind /\ pc = "load" /\ (Fail("ValueError") \/ Loaded(good))
    BY <1>4 DEF LoadNpz, Is
  <2> QED BY <1>0, <1>1, <2>3, <2>4, LoadedTypes DEF AllErrors, Errors, ConvertInv, ConvertTypeOK
<1>5. CASE LoadTable
  <2>1. {Import("col0", "col0", "same")} \in SUBSET Imports
    BY DEF Import, Imports, Names
  <2>2. Kind = src.kind /\ pc = "load"
    BY <1>5 DEF LoadTable, Is
  <2>3. src.content \in {"some", "none", "raises"}
    BY <1>5, TableContent
  <2>4. \/ Fail("ValueError") \/ Loaded({})
        \/ Loaded({Import("col0", "col0", "same")})
    BY <1>5, <2>3 DEF LoadTable
  <2> QED BY <1>0, <1>1, <2>1, <2>2, <2>4, LoadedTypes DEF AllErrors, Errors, ConvertInv, ConvertTypeOK
<1>6. CASE LoadParquet
  <2> DEFINE columns == {Import(n, n, ColumnAs(src.content[n])) :
                           n \in {n \in DOMAIN src.content : ColumnAs(src.content[n]) # "dropped"}}
  <2>1. DOMAIN src.content \subseteq Columns
    BY <1>0, <1>6 DEF LoadParquet, Is, Contents, Trees
  <2>2. \A c : ColumnAs(c) \in {"same", "floats", "codes", "dropped"}
    BY DEF ColumnAs, IntegersAs
  <2>3. columns \in SUBSET Imports
    BY <2>1, <2>2 DEF Import, Imports, Names
  <2>4. Kind = src.kind /\ pc = "load" /\ (Fail("KeyError") \/ Loaded(columns))
    BY <1>6 DEF LoadParquet, Is
  <2> QED BY <1>0, <1>1, <2>3, <2>4, LoadedTypes DEF AllErrors, Errors, ConvertInv, ConvertTypeOK
<1>7. CASE OpenTree
  <2>1. pc = "load" /\ src.kind \in Trees /\ Kind = src.kind
    BY <1>7 DEF OpenTree, Is
  <2>2. Entries(<<>>, "root") \subseteq [path : Chains, item : Items \ {"none"}]
    BY <1>0, <2>1, TreeLinks, EntriesType DEF Groups
  <2> QED BY <1>0, <1>7, <2>1, <2>2 DEF OpenTree, Goto, remote, env, ConvertInv,
        ConvertTypeOK, PlaceInv, SourceInv, Kind, Stages, AllErrors, Errors
<1>8. ASSUME NEW e \in paths, VisitArray(e) PROVE ConvertInv'
  <2>1. Import(e.path, e.path, "same") \in Imports
    BY DEF ConvertInv, ConvertTypeOK, Import, Imports, Names
  <2>2. found' \subseteq Imports /\ paths' \subseteq paths
    BY <1>8, <2>1 DEF VisitArray, ConvertInv, ConvertTypeOK
  <2> QED BY <1>0, <1>8, <2>2 DEF VisitArray, Goto, remote, env, ConvertInv, ConvertTypeOK, PlaceInv,
        SourceInv, Kind, Stages, AllErrors, Errors
<1>9. ASSUME NEW e \in paths, VisitGroup(e) PROVE ConvertInv'
  <2>1. e.path \in Chains /\ e.item \in Groups /\ Len(e.path) <= MaxDepth
    BY <1>9, ChainsAreSequences DEF VisitGroup, ConvertInv, ConvertTypeOK
  <2>2. src.kind \in Trees
    BY <1>9 DEF VisitGroup, ConvertInv, SourceInv
  <2>3. Entries(e.path, e.item) \subseteq [path : Chains, item : Items \ {"none"}]
    BY <1>0, <2>1, <2>2, TreeLinks, EntriesType
  <2>4. paths' \subseteq [path : Chains, item : Items \ {"none"}]
    BY <1>9, <2>3 DEF VisitGroup, ConvertInv, ConvertTypeOK
  <2> QED BY <1>0, <1>9, <2>4 DEF VisitGroup, Goto, remote, env, ConvertInv, ConvertTypeOK, PlaceInv,
        SourceInv, Kind, Stages, AllErrors, Errors
<1>10. CASE EndTree
  BY <1>0, <1>10, LoadedTypes DEF EndTree, ConvertInv, ConvertTypeOK, SourceInv
<1>11. CASE Write
  <2>1. dst' \in [imports : SUBSET Imports, history : Formats \cup {"zarr2"}]
    BY <1>11 DEF Write, Tags, ConvertInv, ConvertTypeOK, SourceInv, Formats, Trees
  <2> QED BY <1>0, <1>11, <2>1 DEF Write, remote, env, localVars, Kind, ConvertInv, ConvertTypeOK, PlaceInv, SourceInv,
     Stages, AllErrors, Errors
<1> QED BY <1>1, <1>2, <1>3, <1>4, <1>5, <1>6, <1>7, <1>8, <1>9, <1>10, <1>11

LEMMA ConvertStepInv == ConvertInv /\ [ConvertNext]_allVars => ConvertInv'
<1>1. ConvertInv /\ UNCHANGED allVars => ConvertInv'
  BY DEF allVars, vars, localVars, ConvertInv, ConvertTypeOK, PlaceInv, SourceInv, Kind
<1> QED BY <1>1, RemoteTypes, LocalTypes DEF ConvertNext

(* The conversion is type correct for every set of arrays and chunks, every
   depth of a tree and every number of failing requests. *)
THEOREM ConvertTypeCorrect == ConvertSpec => []ConvertTypeOK
<1>1. ConvertInv => ConvertTypeOK
  BY DEF ConvertInv
<1> QED BY ConvertInitInv, ConvertStepInv, <1>1, PTL DEF ConvertSpec

-----------------------------------------------------------------------------
(* What is read of an s3:// prefix *)

(* The importers and the writer session touch nothing of the conversion of a
   prefix. *)
LEMMA LocalElsewhere ==
  ASSUME ConvertInv, [ConvertNext]_allVars
  PROVE  \/ Next
         \/ UNCHANGED vars
         \/ target # "prefix" /\ UNCHANGED remote /\ pc \in {"staged", "load", "tree", "write"}
            /\ (dst' = dst \/ pc = "write")
<1>1. CASE Next \/ UNCHANGED allVars
  BY <1>1 DEF allVars
<1>2. CASE \/ Dispatch \/ LoadFails
           \/ LoadNpy \/ LoadNpz \/ LoadTable \/ LoadParquet \/ OpenTree
           \/ \E e \in paths : \/ VisitArray(e) \/ VisitGroup(e)
                               \/ RecursionTooDeep(e) \/ DanglingLink(e)
           \/ EndTree \/ Write \/ WriteFails
  <2>1. pc \in {"staged", "load", "tree", "write"}
    BY <1>2 DEF Dispatch, LoadFails, LoadNpy, LoadNpz, LoadTable, LoadParquet, OpenTree, Is, VisitArray,
       VisitGroup, RecursionTooDeep, DanglingLink, EndTree, Write, WriteFails
  <2>2. Dispatch => UNCHANGED remote /\ dst' = dst
    BY DEF Dispatch, Fail, Goto
  <2>4. ASSUME NEW stage, Goto(stage) PROVE UNCHANGED remote /\ dst' = dst
    BY <2>4 DEF Goto
  <2>5. ASSUME \/ LoadFails \/ LoadNpy \/ LoadNpz \/ LoadTable \/ LoadParquet
               \/ OpenTree \/ EndTree \/ WriteFails
        PROVE  UNCHANGED remote /\ dst' = dst
    <3>2. LoadTable => \E stage : Goto(stage)
      BY TableContent DEF LoadTable, Fail, Loaded
    <3>1. \E stage : Goto(stage)
      BY <2>5, <3>2 DEF LoadFails, LoadNpy, LoadNpz, LoadParquet, OpenTree, EndTree, WriteFails, Fail, Loaded
    <3> QED BY <2>4, <3>1
  <2>6. ASSUME NEW e \in paths, VisitArray(e) \/ VisitGroup(e) \/ RecursionTooDeep(e) \/ DanglingLink(e)
        PROVE  UNCHANGED remote /\ dst' = dst
    BY <2>4, <2>6 DEF VisitArray, VisitGroup, RecursionTooDeep, DanglingLink, Fail
  <2>3. UNCHANGED remote /\ (dst' = dst \/ pc = "write")
    BY <1>2, <2>2, <2>5, <2>6 DEF Write
  <2> QED BY <2>1, <2>3 DEF ConvertInv, PlaceInv, AllErrors, Errors
<1> QED BY <1>1, <1>2 DEF ConvertNext

(* Where the variables are good for nothing, no request gives anything: the
   conversion of an s3:// source gets as far as the probes, or its download, and
   only refused credentials may read as "not a store" there. *)
ServiceInv ==
  target \in {"prefix", "object"} /\ service # "ok" =>
    /\ dst = NoDst
    /\ \/ pc \in {"start", "probe", "CatalogError"}
       \/ pc = "ImportError" /\ target = "prefix" /\ ~extra
       \/ pc = "ValueError" /\ service = "refused"

LEMMA ServiceStep ==
  ASSUME ConvertInv, ServiceInv, [ConvertNext]_allVars
  PROVE  ServiceInv'
<1> SUFFICES ASSUME target' \in {"prefix", "object"}, service' # "ok"
             PROVE  ServiceInv'
  BY DEF ServiceInv
<1>1. UNCHANGED env
  BY LocalElsewhere DEF Next, RefuseUri, DownloadObject, DownloadFails, RequireZarr, ProbeFound, ProbeAbsent,
     ProbeFails, TagHistory, OpenV3, OpenV2, ListKeys, ListFails, OpenArray, NotAMember, ReadChunk,
     FillChunk, EndWalk, Commit, CommitFails, Raise, vars, env, remote
<1>2. pc \in {"start", "probe", "CatalogError", "ImportError", "ValueError"} /\ dst = NoDst
      /\ service # "ok" /\ target \in {"prefix", "object"}
  BY <1>1 DEF env, ServiceInv
<1>3. CASE UNCHANGED vars
  BY <1>3 DEF vars, ServiceInv
<1>4. CASE Next
  <2>1. \A key : ~Found(key) /\ ~Missing(key) /\ ~Faulted(key)
    BY <1>2 DEF Found, Missing, Faulted
  <2>2. CASE RefuseUri \/ DownloadFails \/ ProbeFails
    BY <1>1, <1>2, <2>2 DEF RefuseUri, DownloadFails, ProbeFails, Raise, ServiceInv, env
  <2>3. CASE RequireZarr
    BY <1>1, <1>2, <2>3 DEF RequireZarr, ServiceInv, ConvertInv, ConvertTypeOK, env
  <2>4. CASE ProbeAbsent
    <3>1. service = "refused" /\ pc' \in {"probe", "ValueError"} /\ dst' = dst
      BY <2>1, <2>4 DEF ProbeAbsent, LooksAbsent, Refused
    <3> QED BY <1>1, <1>2, <3>1 DEF ServiceInv, env
  <2>5. ~(DownloadObject \/ ProbeFound)
    BY <2>1 DEF DownloadObject, ProbeFound
  <2>6. ~(TagHistory \/ OpenV3 \/ OpenV2 \/ ListKeys \/ ListFails \/ EndWalk \/ Commit \/ CommitFails)
    BY <1>2 DEF TagHistory, OpenV3, OpenV2, ListKeys, ListFails, EndWalk, Commit, CommitFails
  <2>7. \A key \in todo : ~(OpenArray(key) \/ NotAMember(key) \/ ReadChunk(key) \/ FillChunk(key))
    BY <1>2 DEF OpenArray, NotAMember, ReadChunk, FillChunk
  <2> QED BY <1>4, <2>2, <2>3, <2>4, <2>5, <2>6, <2>7 DEF Next
<1> QED BY <1>2, <1>3, <1>4, LocalElsewhere

LEMMA ServiceAlways == ConvertSpec => []ServiceInv
<1>1. ConvertInit => ServiceInv
  BY DEF ConvertInit, Init, ServiceInv
<1> QED BY ConvertInitInv, ConvertStepInv, <1>1, ServiceStep, PTL DEF ConvertSpec

(* Without an endpoint a conversion of an s3:// source ends in the CatalogError
   that says so, in an object and at every probe of a prefix alike; only a
   missing zarr library is reported before it. *)
THEOREM ConfigurationAlwaysReported == ConvertSpec => []ConfigurationReported
<1>1. ServiceInv => ConfigurationReported
  BY DEF ServiceInv, ConfigurationReported
<1> QED BY ServiceAlways, <1>1, PTL

(* What was read exists, and what is written is what was read. *)
ReadInv ==
  /\ \A a \in DOMAIN imports :
       /\ <<a, "meta">> \in objects
       /\ \A k \in Chunks : imports[a][k] = Bytes => <<a, k>> \in objects
  /\ target = "prefix" /\ dst # NoDst => dst.imports = imports /\ dst.history = history

LEMMA ReadStep ==
  ASSUME ConvertInv, ReadInv, [ConvertNext]_allVars
  PROVE  ReadInv'
<1>1. CASE UNCHANGED vars \/ (target # "prefix" /\ UNCHANGED remote)
  BY <1>1 DEF vars, remote, env, ReadInv
<1>2. CASE \/ RefuseUri \/ DownloadObject \/ DownloadFails
           \/ RequireZarr \/ ProbeFound \/ ProbeAbsent \/ ProbeFails \/ TagHistory
           \/ OpenV3 \/ OpenV2 \/ ListKeys \/ ListFails \/ EndWalk \/ CommitFails
           \/ \E key \in todo : NotAMember(key) \/ FillChunk(key)
  <2>1. UNCHANGED <<env, imports, dst>> /\ dst = NoDst
    BY <1>2 DEF RefuseUri, DownloadObject, DownloadFails, RequireZarr, ProbeFound, ProbeAbsent, ProbeFails,
       TagHistory, OpenV3, OpenV2, ListKeys, ListFails, NotAMember, FillChunk, EndWalk, CommitFails, Raise,
       ConvertInv, ConvertTypeOK
  <2> QED BY <2>1 DEF ReadInv, env
<1>3. ASSUME NEW key \in todo, OpenArray(key) PROVE ReadInv'
  <2>1. key = <<key[1], "meta">> /\ key \in objects /\ dst' = NoDst /\ objects' = objects
    BY <1>3 DEF OpenArray, ArrayMetas, Found, ConvertInv, ConvertTypeOK, env
  <2>2. ASSUME NEW a \in DOMAIN imports'
        PROVE  \/ a \in DOMAIN imports /\ imports'[a] = imports[a]
               \/ a = key[1] /\ imports'[a] = Unread
    BY <1>3, <2>2 DEF OpenArray
  <2>3. \A k \in Chunks : Unread[k] # Bytes
    BY DEF Unread, Bytes, Fill
  <2> QED BY <2>1, <2>2, <2>3 DEF ReadInv
<1>4. ASSUME NEW key \in todo, ReadChunk(key) PROVE ReadInv'
  <2>1. key = <<key[1], key[2]>> /\ key[2] \in Chunks /\ key \in objects /\ dst' = NoDst /\ objects' = objects
    BY <1>4 DEF ReadChunk, ChunkKeys, Found, ConvertInv, ConvertTypeOK, env
  <2>2. PICK A \in SUBSET Arrays : imports \in [A -> [Chunks -> {Bytes, Fill}]]
    BY DEF Images, ConvertInv, ConvertTypeOK
  <2>3. DOMAIN imports' = DOMAIN imports
    BY <1>4 DEF ReadChunk
  <2>4. ASSUME NEW a \in DOMAIN imports, NEW k \in Chunks, imports'[a][k] = Bytes
        PROVE  imports[a][k] = Bytes \/ <<a, k>> = key
    BY <1>4, <2>1, <2>2, <2>4 DEF ReadChunk
  <2> QED BY <2>1, <2>3, <2>4 DEF ReadInv
<1>5. CASE Commit
  BY <1>5 DEF Commit, ReadInv, env
<1> QED BY <1>1, <1>2, <1>3, <1>4, <1>5, LocalElsewhere DEF Next

LEMMA ReadAlways == ConvertSpec => []ReadInv
<1>1. ConvertInit => ReadInv
  BY DEF ConvertInit, Init, ReadInv
<1> QED BY ConvertInitInv, ConvertStepInv, <1>1, ReadStep, PTL DEF ConvertSpec

(* Whatever requests fail, an array of the .tet has its metadata in the store and a
   chunk that is not the fill value was read from it. *)
THEOREM NothingEverInvented == ConvertSpec => []NothingInvented
<1>1. ReadInv => NothingInvented
  BY DEF ReadInv, NothingInvented
<1> QED BY ReadAlways, <1>1, PTL

(* While no request has failed, what the store has is read, or is still to be
   asked for. *)
UnfaultedInv ==
  faults = 0 /\ target = "prefix" =>
    /\ pc \in {"start", "probe", "tag", "open", "openv2", "list"} => DOMAIN imports = {}
    /\ pc \in {"open", "openv2", "list", "walk", "commit", "done"} => history = LocalHistory
    /\ pc \in {"walk", "commit", "done"} =>
         /\ service = "ok"
         /\ \A a \in Arrays : <<a, "meta">> \in objects =>
              a \in DOMAIN imports \/ <<a, "meta">> \in todo
         /\ \A a \in DOMAIN imports, k \in Chunks : <<a, k>> \in objects =>
              imports[a][k] = Bytes \/ <<a, k>> \in todo
    /\ pc \in {"commit", "done"} => todo = {}

LEMMA UnfaultedStep ==
  ASSUME ConvertInv, ServiceInv, UnfaultedInv, [ConvertNext]_allVars
  PROVE  UnfaultedInv'
<1> SUFFICES ASSUME faults' = 0, target' = "prefix"
             PROVE  UnfaultedInv'
  BY DEF UnfaultedInv
<1>1. CASE UNCHANGED vars \/ (target # "prefix" /\ UNCHANGED remote)
  BY <1>1 DEF vars, remote, env, UnfaultedInv, LocalHistory
<1>2. ASSUME Next PROVE UNCHANGED env /\ target = "prefix" /\ faults = 0
  <2>1. UNCHANGED env
    BY <1>2 DEF Next, RefuseUri, DownloadObject, DownloadFails, RequireZarr, ProbeFound, ProbeAbsent,
       ProbeFails, TagHistory, OpenV3, OpenV2, ListKeys, ListFails, OpenArray, NotAMember, ReadChunk,
       FillChunk, EndWalk, Commit, CommitFails, Raise, env
  <2>2. faults' = faults \/ faults' = faults + 1
    BY <1>2 DEF Next, RefuseUri, DownloadObject, DownloadFails, RequireZarr, ProbeFound, ProbeAbsent,
       ProbeFails, TagHistory, OpenV3, OpenV2, ListKeys, ListFails, OpenArray, NotAMember, ReadChunk,
       FillChunk, EndWalk, Commit, CommitFails, Found, LooksAbsent, NoSuchKey, NamesEndpoint, Missing, Faulted, Refused, Unconfigured
  <2> QED BY <2>1, <2>2 DEF env, ConvertInv, ConvertTypeOK
<1>3. ASSUME NEW key, Faulted(key) PROVE FALSE
  BY <1>3 DEF Faulted, ConvertInv, ConvertTypeOK
<1>4. CASE \/ RefuseUri \/ DownloadObject \/ DownloadFails
           \/ RequireZarr \/ ProbeFound \/ ProbeAbsent \/ ProbeFails \/ ListFails \/ CommitFails
  <2>1. pc' \notin {"open", "openv2", "list", "walk", "commit", "done"}
    BY <1>4 DEF RefuseUri, DownloadObject, DownloadFails, RequireZarr, ProbeFound, ProbeAbsent, ProbeFails,
       ListFails, CommitFails, Raise
  <2>2. pc' \in {"start", "probe", "tag"} => pc \in {"start", "probe"} /\ imports' = imports
    BY <1>4 DEF RefuseUri, DownloadObject, DownloadFails, RequireZarr, ProbeFound, ProbeAbsent, ProbeFails,
       ListFails, CommitFails, Raise
  <2> QED BY <1>2, <1>4, <2>1, <2>2 DEF Next, UnfaultedInv
<1>5. CASE TagHistory
  <2>1. UNCHANGED env /\ target = "prefix" /\ faults = 0
    BY <1>2, <1>5 DEF Next
  <2>2. pc = "tag" /\ pc' = "open" /\ imports' = imports
    BY <1>5 DEF TagHistory
  <2>3. service = "ok"
    BY <2>1, <2>2 DEF ServiceInv
  <2>4. history' = LocalHistory
    BY <1>3, <1>5, <2>3 DEF TagHistory, Found, LooksAbsent, Missing, Refused, LocalHistory
  <2>5. DOMAIN imports = {}
    BY <2>1, <2>2 DEF UnfaultedInv
  <2>6. LocalHistory' = LocalHistory
    BY <2>1 DEF LocalHistory, env
  <2> QED BY <2>2, <2>4, <2>5, <2>6 DEF UnfaultedInv
<1>6. CASE OpenV3 \/ OpenV2
  BY <1>2, <1>6 DEF Next, OpenV3, OpenV2, UnfaultedInv, LocalHistory, env
<1>7. CASE ListKeys
  <2>1. UNCHANGED <<env, imports, history, faults>> /\ pc = "list" /\ pc' = "walk" /\ target = "prefix"
    BY <1>2, <1>7 DEF Next, ListKeys
  <2>2. service = "ok"
    BY <2>1 DEF ServiceInv
  <2>3. ASSUME NEW a \in Arrays, <<a, "meta">> \in objects PROVE <<a, "meta">> \in todo'
    <3>1. IsStoreKey(<<a, "meta">>)
      BY DEF IsStoreKey, ArrayMetas
    <3> QED BY <1>7, <2>3, <3>1 DEF ListKeys
  <2>4. DOMAIN imports = {} /\ history = LocalHistory
    BY <1>2, <1>7, <2>1 DEF Next, UnfaultedInv
  <2> QED BY <2>1, <2>2, <2>3, <2>4 DEF UnfaultedInv, LocalHistory, env
<1>12. ASSUME pc = "walk", pc' = "walk", history' = history, UNCHANGED env, target = "prefix", faults = 0,
              \A a \in Arrays : <<a, "meta">> \in objects =>
                a \in DOMAIN imports' \/ <<a, "meta">> \in todo',
              \A a \in DOMAIN imports', k \in Chunks : <<a, k>> \in objects =>
                imports'[a][k] = Bytes \/ <<a, k>> \in todo'
       PROVE  UnfaultedInv'
  BY <1>12 DEF UnfaultedInv, LocalHistory, env
<1>13. pc = "walk" /\ target = "prefix" /\ faults = 0 =>
         /\ service = "ok"
         /\ \A a \in Arrays : <<a, "meta">> \in objects =>
              a \in DOMAIN imports \/ <<a, "meta">> \in todo
         /\ \A a \in DOMAIN imports, k \in Chunks : <<a, k>> \in objects =>
              imports[a][k] = Bytes \/ <<a, k>> \in todo
  BY DEF UnfaultedInv
<1>8. ASSUME NEW key \in todo, OpenArray(key) PROVE UnfaultedInv'
  <2>1. key = <<key[1], "meta">> /\ key[1] \in Arrays
    BY <1>8 DEF OpenArray, ArrayMetas
  <2>2. \A k \in Chunks : <<key[1], k>> \in todo'
    BY <1>8 DEF OpenArray
  <2>3. pc = "walk" /\ pc' = "walk" /\ history' = history /\ UNCHANGED env
    BY <1>8 DEF OpenArray
  <2>4. DOMAIN imports' = DOMAIN imports \cup {key[1]}
    BY <1>8 DEF OpenArray
  <2>5. \A a \in DOMAIN imports : a # key[1] => imports'[a] = imports[a]
    BY <1>8 DEF OpenArray
  <2>6. \A other \in todo : other # key => other \in todo'
    BY <1>8 DEF OpenArray
  <2>7. Next
    BY <1>8 DEF Next
  <2> HIDE DEF Next
  <2> QED BY <1>2, <1>12, <1>13, <2>1, <2>2, <2>3, <2>4, <2>5, <2>6, <2>7
<1>9. ASSUME NEW key \in todo, NotAMember(key) \/ FillChunk(key) PROVE UnfaultedInv'
  <2>1. service = "ok" /\ pc = "walk" /\ target = "prefix" /\ faults = 0
    BY <1>2, <1>9 DEF Next, NotAMember, FillChunk, UnfaultedInv
  <2>2. key \notin objects
    BY <1>3, <1>9, <2>1 DEF NotAMember, FillChunk, NoSuchKey, Missing, Refused, Unconfigured
  <2>3. imports' = imports /\ todo' = todo \ {key} /\ pc' = "walk" /\ history' = history /\ UNCHANGED env
    BY <1>9 DEF NotAMember, FillChunk
  <2> QED BY <1>12, <1>13, <2>1, <2>2, <2>3
<1>10. ASSUME NEW key \in todo, ReadChunk(key) PROVE UnfaultedInv'
  <2>1. key = <<key[1], key[2]>> /\ key[2] \in Chunks /\ key[2] # "meta"
    BY <1>10 DEF ReadChunk, ChunkKeys
  <2>2. PICK A \in SUBSET Arrays : imports \in [A -> [Chunks -> {Bytes, Fill}]]
    BY DEF Images, ConvertInv, ConvertTypeOK
  <2>3. DOMAIN imports' = DOMAIN imports
    BY <1>10 DEF ReadChunk
  <2>4. ASSUME NEW a \in DOMAIN imports, NEW k \in Chunks
        PROVE  imports'[a][k] = imports[a][k] \/ (<<a, k>> = key /\ imports'[a][k] = Bytes)
    BY <1>10, <2>1, <2>2 DEF ReadChunk
  <2>5. \A other : other # key /\ other \in todo => other \in todo'
    BY <1>10 DEF ReadChunk
  <2>6. pc = "walk" /\ pc' = "walk" /\ history' = history /\ UNCHANGED env
    BY <1>10 DEF ReadChunk
  <2>7. Next
    BY <1>10 DEF Next
  <2>8. \A a : <<a, "meta">> # key
    BY <2>1
  <2>9. target = "prefix" /\ faults = 0
    BY <1>2, <2>7
  <2>10. \A a \in Arrays : <<a, "meta">> \in objects => a \in DOMAIN imports' \/ <<a, "meta">> \in todo'
    BY <1>13, <2>3, <2>5, <2>6, <2>8, <2>9
  <2>11. ASSUME NEW a \in DOMAIN imports', NEW k \in Chunks, <<a, k>> \in objects
         PROVE  imports'[a][k] = Bytes \/ <<a, k>> \in todo'
    <3>1. a \in DOMAIN imports /\ (imports[a][k] = Bytes \/ <<a, k>> \in todo)
      BY <1>13, <2>3, <2>6, <2>9, <2>11
    <3>2. imports'[a][k] = imports[a][k] \/ imports'[a][k] = Bytes
      BY <2>4, <3>1
    <3>3. <<a, k>> = key => imports'[a][k] = Bytes
      BY <1>10, <2>2, <3>1 DEF ReadChunk
    <3> QED BY <2>5, <3>1, <3>2, <3>3
  <2> QED BY <1>12, <2>6, <2>9, <2>10, <2>11
<1>11. CASE EndWalk \/ Commit
  BY <1>2, <1>11 DEF Next, EndWalk, Commit, UnfaultedInv, LocalHistory, env
<1> QED BY <1>1, <1>4, <1>5, <1>6, <1>7, <1>8, <1>9, <1>10, <1>11, LocalElsewhere DEF Next

(* As long as no request for an object that is there fails, the .tet of a prefix
   holds every array and every chunk of the store, under the history tag of its
   format: what a local-directory convert writes. *)
THEOREM UnfaultedMatchesLocal == ConvertSpec => []MatchesLocalUnfaulted
<1>1. ConvertInit => UnfaultedInv
  BY DEF ConvertInit, Init, UnfaultedInv
<1>2. ASSUME ConvertInv, ReadInv, UnfaultedInv, faults = 0, dst # NoDst, target = "prefix"
      PROVE  dst.imports = LocalImports /\ dst.history = LocalHistory
  <2>1. pc = "done" /\ dst.imports = imports /\ dst.history = history
    BY <1>2 DEF ConvertInv, ConvertTypeOK, ReadInv
  <2>2. PICK A \in SUBSET Arrays : imports \in [A -> [Chunks -> {Bytes, Fill}]]
    BY <1>2 DEF Images, ConvertInv, ConvertTypeOK
  <2>3. A = {a \in Arrays : <<a, "meta">> \in objects}
    BY <1>2, <2>1, <2>2 DEF ReadInv, UnfaultedInv
  <2>4. ASSUME NEW a \in A, NEW k \in Chunks
        PROVE  imports[a][k] = IF <<a, k>> \in objects THEN Bytes ELSE Fill
    <3>1. imports[a][k] \in {Bytes, Fill}
      BY <2>2
    <3>2. imports[a][k] = Bytes => <<a, k>> \in objects
      BY <1>2, <2>2 DEF ReadInv
    <3>3. <<a, k>> \in objects => imports[a][k] = Bytes
      BY <1>2, <2>1, <2>2 DEF UnfaultedInv
    <3> QED BY <3>1, <3>2, <3>3
  <2>5. \A a \in A : imports[a] = [k \in Chunks |-> IF <<a, k>> \in objects THEN Bytes ELSE Fill]
    BY <2>2, <2>4
  <2>6. imports = LocalImports
    BY <2>2, <2>3, <2>5 DEF LocalImports
  <2> QED BY <1>2, <2>1, <2>6 DEF UnfaultedInv
<1>3. ConvertInv /\ ReadInv /\ UnfaultedInv => MatchesLocalUnfaulted
  BY <1>2 DEF MatchesLocalUnfaulted, MatchesLocal
<1> QED BY ConvertInitInv, ConvertStepInv, ReadAlways, ServiceAlways, <1>1, UnfaultedStep, <1>3,
       PTL DEF ConvertSpec

-----------------------------------------------------------------------------
(* What a converted tree holds *)

Everything == {Import(q, q, "same") : q \in {q \in Chains : LeadsTo(q, "ok")}}

(* The walk of a tree: what it has found and has still to visit is in the tree,
   and each chain that ends in an array was followed to its end or waits to be
   followed from some link on. *)
WalkInv ==
  /\ \A e \in paths : LeadsTo(e.path, e.item) /\ Len(e.path) <= MaxDepth
  /\ found \subseteq Everything
  /\ \A q \in Chains : \A g \in [DOMAIN q -> Groups] :
       OnChain(q, g, "ok") =>
         \/ Import(q, q, "same") \in found
         \/ \E k \in DOMAIN q : [path |-> SubSeq(q, 1, k), item |-> src.content[g[k]][q[k]]] \in paths

ImportsInv ==
  /\ Written => dst.imports = found
  /\ pc \in {"write", "done"} /\ target # "prefix" /\ src.kind \in Trees => found = Everything
  /\ pc = "tree" => WalkInv

(* One more link on a chain: what a group contributes is on a chain. *)
LEMMA EntriesLead ==
  ASSUME NEW q \in Chains, NEW group \in Groups, LeadsTo(q, group), NEW e \in Entries(q, group)
  PROVE  LeadsTo(e.path, e.item)
<1>1. PICK n \in LinkNames : e = [path |-> Append(q, n), item |-> src.content[group][n]]
  BY DEF Entries, Joined
<1>2. PICK g \in [DOMAIN q -> Groups] : OnChain(q, g, group)
  BY DEF LeadsTo
<1>3. q \in Seq(LinkNames) /\ Len(q) \in Nat /\ Len(q) >= 1 /\ DOMAIN q = 1 .. Len(q)
  BY ChainsAreSequences
<1> DEFINE p == Append(q, n)
           h == [k \in DOMAIN p |-> IF k = Len(p) THEN group ELSE g[k]]
<1>4. /\ DOMAIN p = 1 .. Len(q) + 1 /\ Len(p) = Len(q) + 1
      /\ p[Len(p)] = n /\ \A k \in DOMAIN q : p[k] = q[k]
  BY <1>3
<1> HIDE DEF p
<1>5. h \in [DOMAIN p -> Groups]
  BY <1>3, <1>4
<1>6. h[1] = "root"
  BY <1>2, <1>3, <1>4 DEF OnChain
<1>7. ASSUME NEW k \in DOMAIN p
      PROVE  src.content[h[k]][p[k]] = IF k = Len(p) THEN src.content[group][n] ELSE h[k + 1]
  <2>1. CASE k = Len(p)
    BY <1>4, <2>1
  <2>2. CASE k = Len(q)
    <3>1. k \in DOMAIN q /\ k # Len(p) /\ k + 1 = Len(p) /\ k + 1 \in DOMAIN p
      <4>1. k \in Nat /\ k >= 1 /\ DOMAIN q = 1 .. k /\ DOMAIN p = 1 .. k + 1 /\ Len(p) = k + 1
        BY <1>3, <1>4, <2>2
      <4> QED BY <4>1
    <3>2. h[k] = g[k] /\ h[k + 1] = group /\ p[k] = q[k]
      BY <1>4, <3>1
    <3> QED BY <1>2, <2>2, <3>1, <3>2 DEF OnChain
  <2>3. CASE k # Len(p) /\ k # Len(q)
    <3>1. k \in DOMAIN q /\ k + 1 \in DOMAIN q /\ k + 1 # Len(p)
      BY <1>3, <1>4, <2>3
    <3>2. h[k] = g[k] /\ h[k + 1] = g[k + 1] /\ p[k] = q[k]
      BY <1>4, <2>3, <3>1
    <3> QED BY <1>2, <2>3, <3>1, <3>2 DEF OnChain
  <2> QED BY <2>1, <2>2, <2>3
<1>8. OnChain(p, h, src.content[group][n])
  BY <1>6, <1>7 DEF OnChain
<1> QED BY <1>1, <1>5, <1>8 DEF LeadsTo, p

LEMMA RootEntriesLead ==
  ASSUME NEW e \in Entries(<<>>, "root")
  PROVE  LeadsTo(e.path, e.item) /\ Len(e.path) = 1
<1>1. PICK n \in LinkNames : e = [path |-> <<n>>, item |-> src.content["root"][n]]
  BY DEF Entries, Joined
<1> DEFINE h == [k \in {1} |-> "root"]
<1>2. h \in [DOMAIN <<n>> -> Groups] /\ OnChain(<<n>>, h, src.content["root"][n])
  BY DEF OnChain, Groups
<1> QED BY <1>1, <1>2 DEF LeadsTo

(* The importers of one array, an .npz, a table and a Parquet file: no tree
   comes of them. *)
LEMMA FlatImports ==
  ASSUME ConvertInv, LoadNpy \/ LoadNpz \/ LoadTable \/ LoadParquet
  PROVE  pc' # "done" /\ pc' # "tree" /\ src.kind \notin Trees /\ src' = src
<1> DEFINE Ends == pc' # "done" /\ pc' # "tree" /\ src' = src
<1>1. ASSUME NEW is, Loaded(is) PROVE Ends
  BY <1>1 DEF Loaded, Goto
<1>2. ASSUME NEW error \in {"ValueError", "KeyError"}, Fail(error) PROVE Ends
  BY <1>2 DEF Fail, Goto, localVars
<1> HIDE DEF Ends
<1>3. CASE LoadNpy
  BY <1>1, <1>2, <1>3 DEF LoadNpy, Is, Trees, Ends
<1>4. CASE LoadNpz
  BY <1>1, <1>2, <1>4 DEF LoadNpz, Is, Trees, Ends
<1>5. CASE LoadTable
  BY <1>1, <1>2, <1>5, TableContent DEF LoadTable, Is, Trees, Ends
<1>6. CASE LoadParquet
  BY <1>1, <1>2, <1>6 DEF LoadParquet, Is, Trees, Ends
<1> QED BY <1>3, <1>4, <1>5, <1>6

LEMMA PrefixGrows ==
  ASSUME NEW q \in Seq(LinkNames), NEW k \in 1 .. Len(q)
  PROVE  SubSeq(q, 1, k) = Append(SubSeq(q, 1, k - 1), q[k]) /\ SubSeq(q, 1, 0) = <<>>
<1>1. SubSeq(q, 1, k) = SubSeq(q, 1, k - 1) \o <<q[k]>>
  BY SubSeqRecursiveSecond
<1>2. SubSeq(q, 1, k - 1) \in Seq(LinkNames) /\ q[k] \in LinkNames
  OBVIOUS
<1>3. SubSeq(q, 1, 0) = <<>>
  BY SubSeqEmpty
<1> QED BY <1>1, <1>2, <1>3, AppendIsConcat

LEMMA WalkStarts ==
  ASSUME ConvertInv, OpenTree
  PROVE  WalkInv'
<1>1. paths' = Entries(<<>>, "root") /\ found' = {} /\ src' = src
  BY DEF OpenTree, Is, ConvertInv, PlaceInv
<1>2. ASSUME NEW e \in paths' PROVE LeadsTo(e.path, e.item) /\ Len(e.path) <= MaxDepth
  <2>1. LeadsTo(e.path, e.item) /\ Len(e.path) = 1
    BY <1>1, <1>2, RootEntriesLead
  <2> QED BY <2>1
<1>3. ASSUME NEW q \in Chains, NEW g \in [DOMAIN q -> Groups], OnChain(q, g, "ok")
      PROVE  \E k \in DOMAIN q : [path |-> SubSeq(q, 1, k), item |-> src.content[g[k]][q[k]]] \in paths'
  <2>1. q \in Seq(LinkNames) /\ 1 \in DOMAIN q /\ 1 \in 1 .. Len(q)
    BY ChainsAreSequences
  <2>2. src.content["root"][q[1]] # "none" /\ g[1] = "root"
    BY <1>3, <2>1 DEF OnChain, Groups
  <2>3. SubSeq(q, 1, 1) = Append(<<>>, q[1]) /\ q[1] \in LinkNames
    <3>1. SubSeq(q, 1, 1) = Append(SubSeq(q, 1, 1 - 1), q[1]) /\ SubSeq(q, 1, 0) = <<>>
      BY <2>1, PrefixGrows
    <3>2. 1 - 1 = 0 /\ q[1] \in LinkNames
      BY <2>1
    <3> QED BY <3>1, <3>2
  <2>4. [path |-> SubSeq(q, 1, 1), item |-> src.content[g[1]][q[1]]] \in paths'
    BY <1>1, <2>2, <2>3 DEF Entries, Joined
  <2> QED BY <2>1, <2>4
<1>4. \A q, g, item : OnChain(q, g, item)' <=> OnChain(q, g, item)
  BY <1>1 DEF OnChain
<1>5. \A q, item : LeadsTo(q, item)' <=> LeadsTo(q, item)
  BY <1>4 DEF LeadsTo
<1> QED BY <1>1, <1>2, <1>3, <1>4, <1>5 DEF WalkInv

(* Following an entry either ends its chains or follows them one link on. *)
LEMMA WalkGoesOn ==
  ASSUME ConvertInv, pc = "tree", WalkInv, NEW e \in paths, VisitArray(e) \/ VisitGroup(e)
  PROVE  WalkInv'
<1>1. /\ src' = src /\ e.path \in Chains /\ src.content \in Links
      /\ e = [path |-> e.path, item |-> e.item] /\ LeadsTo(e.path, e.item)
  <2>1. target \in {"object", "local"} /\ src.kind \in Trees /\ src.content \in Contents(src.kind)
    BY DEF ConvertInv, ConvertTypeOK, Targets, PlaceInv, SourceInv, AllErrors, Errors
  <2> QED BY <2>1, TreeLinks DEF VisitArray, VisitGroup, WalkInv, ConvertInv, ConvertTypeOK
<1>2. ASSUME NEW q \in Chains, NEW g \in [DOMAIN q -> Groups], OnChain(q, g, "ok"),
             NEW k \in DOMAIN q, e = [path |-> SubSeq(q, 1, k), item |-> src.content[g[k]][q[k]]]
      PROVE  \/ Import(q, q, "same") \in found'
             \/ \E l \in DOMAIN q : [path |-> SubSeq(q, 1, l), item |-> src.content[g[l]][q[l]]] \in paths'
  <2>0. q \in Seq(LinkNames) /\ Len(q) \in Nat /\ DOMAIN q = 1 .. Len(q)
    BY ChainsAreSequences
  <2>1. CASE VisitArray(e)
    <3>1. k = Len(q)
      <4>1. e.item \notin Groups
        BY <2>1 DEF VisitArray, Groups
      <4>2. k # Len(q) => e.item = g[k + 1] /\ k + 1 \in DOMAIN q
        BY <1>2, <2>0 DEF OnChain
      <4> QED BY <4>1, <4>2
    <3>2. e.item = "ok" /\ e.path = q
      BY <1>2, <2>0, <3>1, SubSeqFull DEF OnChain
    <3> QED BY <2>1, <3>2 DEF VisitArray
  <2>2. CASE VisitGroup(e)
    <3>1. k # Len(q)
      BY <1>2, <2>2 DEF VisitGroup, OnChain, Groups
    <3>2. k + 1 \in DOMAIN q /\ e.item = g[k + 1]
      BY <1>2, <2>0, <3>1 DEF OnChain
    <3>3. src.content[g[k + 1]][q[k + 1]] # "none"
      <4>1. src.content[g[k + 1]][q[k + 1]] = "ok" \/ (k + 1 # Len(q) /\ k + 2 \in DOMAIN q
              /\ src.content[g[k + 1]][q[k + 1]] = g[k + 2])
        <5>1. k \in Nat /\ (k + 1) + 1 = k + 2
          BY <2>0
        <5> QED BY <1>2, <2>0, <3>2, <5>1 DEF OnChain
      <4> QED BY <4>1 DEF Groups
    <3>4. SubSeq(q, 1, k + 1) = Append(e.path, q[k + 1]) /\ q[k + 1] \in LinkNames
      <4>1. k + 1 \in 1 .. Len(q) /\ (k + 1) - 1 = k
        BY <2>0, <3>2
      <4> QED BY <1>2, <2>0, <4>1, PrefixGrows
    <3>5. [path |-> SubSeq(q, 1, k + 1), item |-> src.content[g[k + 1]][q[k + 1]]] \in paths'
      BY <2>2, <3>2, <3>3, <3>4 DEF VisitGroup, Entries, Joined
    <3> QED BY <3>2, <3>5
  <2> QED BY <2>1, <2>2
<1>3. \A f \in paths' : LeadsTo(f.path, f.item) /\ Len(f.path) <= MaxDepth
  <2>1. CASE VisitArray(e)
    BY <2>1 DEF VisitArray, WalkInv
  <2>2. ASSUME VisitGroup(e), NEW f \in Entries(e.path, e.item)
        PROVE  LeadsTo(f.path, f.item) /\ Len(f.path) <= MaxDepth
    <3>1. e.item \in Groups /\ Len(e.path) < MaxDepth
      BY <2>2 DEF VisitGroup
    <3>2. LeadsTo(f.path, f.item)
      BY <1>1, <3>1, EntriesLead
    <3>3. PICK n \in LinkNames : f.path = Append(e.path, n)
      BY DEF Entries, Joined
    <3>4. Len(f.path) = Len(e.path) + 1 /\ Len(e.path) \in Nat
      BY <1>1, <3>3, ChainsAreSequences
    <3> QED BY <3>1, <3>2, <3>4
  <2> QED BY <2>1, <2>2 DEF VisitGroup, WalkInv
<1>4. found' \subseteq Everything
  BY <1>1 DEF VisitArray, VisitGroup, WalkInv, Everything
<1>5. ASSUME NEW q \in Chains, NEW g \in [DOMAIN q -> Groups], OnChain(q, g, "ok")
      PROVE  \/ Import(q, q, "same") \in found'
             \/ \E l \in DOMAIN q : [path |-> SubSeq(q, 1, l), item |-> src.content[g[l]][q[l]]] \in paths'
  <2>1. CASE Import(q, q, "same") \in found
    BY <2>1 DEF VisitArray, VisitGroup
  <2>2. CASE \E k \in DOMAIN q : [path |-> SubSeq(q, 1, k), item |-> src.content[g[k]][q[k]]] \in paths
    <3>1. PICK k \in DOMAIN q : [path |-> SubSeq(q, 1, k), item |-> src.content[g[k]][q[k]]] \in paths
      BY <2>2
    <3>2. \A f \in paths : f # e => f \in paths'
      BY DEF VisitArray, VisitGroup
    <3> QED BY <1>2, <1>5, <3>1, <3>2
  <2> QED BY <1>5, <2>1, <2>2 DEF WalkInv
<1>6. \A q, g, item : OnChain(q, g, item)' <=> OnChain(q, g, item)
  BY <1>1 DEF OnChain
<1>7. \A q, item : LeadsTo(q, item)' <=> LeadsTo(q, item)
  BY <1>6 DEF LeadsTo
<1>8. Everything' = Everything
  BY <1>7 DEF Everything
<1> QED BY <1>1, <1>3, <1>4, <1>5, <1>6, <1>7, <1>8 DEF WalkInv

LEMMA ImportsStep ==
  ASSUME ConvertInv, ImportsInv, [ConvertNext]_allVars
  PROVE  ImportsInv'
<1>0. \A q, g, item : src' = src => (OnChain(q, g, item)' <=> OnChain(q, g, item))
  BY DEF OnChain
<1>1. src' = src => Everything' = Everything
  BY <1>0 DEF Everything, LeadsTo
<1>2. CASE Next /\ UNCHANGED localVars
  <2>1. pc' \notin {"write", "tree"} /\ (pc' = "done" => target = "prefix") /\ target' = target
    BY <1>2 DEF Next, RefuseUri, DownloadObject, DownloadFails, RequireZarr, ProbeFound, ProbeAbsent,
       ProbeFails, TagHistory, OpenV3, OpenV2, ListKeys, ListFails, OpenArray, NotAMember, ReadChunk,
       FillChunk, EndWalk, Commit, CommitFails, Raise, env, ConvertInv, ConvertTypeOK, PlaceInv, Targets,
       AllErrors, Errors
  <2> QED BY <2>1 DEF ImportsInv, Written
<1>3. CASE UNCHANGED allVars
  BY <1>0, <1>1, <1>3 DEF allVars, vars, localVars, ImportsInv, WalkInv, LeadsTo, Written
<1>4. ASSUME NEW error \in AllErrors, Fail(error) PROVE ImportsInv'
  BY <1>4 DEF Fail, Goto, ImportsInv, Written, AllErrors, Errors
<1>5. CASE Dispatch
  BY <1>4, <1>5 DEF Dispatch, Goto, ImportsInv, Written, AllErrors, Errors
<1>6. CASE LoadFails \/ WriteFails \/ \E e \in paths : RecursionTooDeep(e) \/ DanglingLink(e)
  BY <1>4, <1>6 DEF LoadFails, WriteFails, RecursionTooDeep, DanglingLink, AllErrors, Errors
<1>7. CASE LoadNpy \/ LoadNpz \/ LoadTable \/ LoadParquet
  BY <1>7, FlatImports DEF ImportsInv, Written
<1>8. CASE OpenTree
  BY <1>8, WalkStarts DEF OpenTree, Goto, ImportsInv, Written
<1>9. ASSUME NEW e \in paths, VisitArray(e) \/ VisitGroup(e) PROVE ImportsInv'
  BY <1>9, WalkGoesOn DEF VisitArray, VisitGroup, Goto, ImportsInv, Written
<1>10. CASE EndTree
  <2>1. found' = found /\ pc' \notin {"done", "tree"} /\ src' = src /\ WalkInv /\ paths = {} /\ src.kind \in Trees
    BY <1>10 DEF EndTree, Loaded, Goto, ImportsInv, ConvertInv, SourceInv
  <2>2. found = Everything
    BY <2>1 DEF WalkInv, Everything, LeadsTo
  <2> QED BY <1>1, <2>1, <2>2 DEF ImportsInv, Written
<1>11. CASE Write
  <2>1. dst'.imports = found /\ pc = "write" /\ pc' = "done" /\ UNCHANGED <<src, found, target>>
    BY <1>11 DEF Write, remote, env, localVars
  <2>2. target # "prefix"
    BY <2>1 DEF ConvertInv, PlaceInv, AllErrors, Errors
  <2> QED BY <1>1, <2>1, <2>2 DEF ImportsInv, Written
<1> QED BY <1>2, <1>3, <1>5, <1>6, <1>7, <1>8, <1>9, <1>10, <1>11 DEF ConvertNext

LEMMA ImportsAlways == ConvertSpec => []ImportsInv
<1>1. ConvertInit => ImportsInv
  BY DEF ConvertInit, Init, ImportsInv, Written
<1> QED BY ConvertInitInv, ConvertStepInv, <1>1, ImportsStep, PTL DEF ConvertSpec

(* What is written of a tree is all that its links lead to and the writer can
   hold, for every graph of the two groups, whatever order it is walked in. *)
THEOREM TreeAlwaysComplete == ConvertSpec => []TreeComplete
<1>1. ImportsInv => TreeComplete
  BY DEF ImportsInv, TreeComplete, Written, Everything
<1> QED BY ImportsAlways, <1>1, PTL
=============================================================================
