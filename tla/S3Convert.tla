------------------------------ MODULE S3Convert ------------------------------
(***************************************************************************)
(* tet.convert of an s3:// source: _convert_s3 and _convert_s3_zarr of     *)
(* python/tet/convert.py.  A single object is downloaded whole and handed  *)
(* to the importer of its format (Convert), as a local source is.  A Zarr  *)
(* prefix is probed for store metadata, listed once, and then read key by  *)
(* key through _S3ZarrMap as the zarr library asks: every probe and every  *)
(* key is a GET of its own that may fail for reasons that have nothing to  *)
(* do with the object.                                                     *)
(*                                                                         *)
(* download_s3_object raises CatalogError for every failure.  All that     *)
(* _s3_object_exists looks at is whether its text has "endpoint" in it:    *)
(* that of a missing TETRATION_S3_ENDPOINT has, that of a missing object   *)
(* has not, and those of refused credentials and of a request that fails   *)
(* on its way may or may not.                                              *)
(***************************************************************************)
EXTENDS Naturals, FiniteSets

CONSTANTS
  Arrays,    \* the arrays of the Zarr hierarchy
  Chunks,    \* the chunk ids of each
  MaxFaults, \* bound: requests that fail although the object is there
  NoDst

Metas == {"zarr.json", ".zgroup", ".zarray"}   \* at the prefix
StoreKeys == {<<m, "store">> : m \in Metas}
ArrayMetas == Arrays \X {"meta"}
ChunkKeys == Arrays \X Chunks
Source == <<"object.ext", "object">>
Keys == StoreKeys \cup ArrayMetas \cup ChunkKeys \cup {Source}

Fill == "fill"      \* the zarr fill value
Bytes == "bytes"    \* what the object holds

Unread == [k \in Chunks |-> Fill]
Images == UNION {[A -> [Chunks -> {Bytes, Fill}]] : A \in SUBSET Arrays}
Histories == {"none", "zarr", "zarr2"}

ASSUME ConstantsAssumption ==
  /\ MaxFaults \in Nat
  /\ IsFiniteSet(Arrays) /\ IsFiniteSet(Chunks)
  /\ Arrays \cap (Metas \cup {"object.ext"}) = {}
  /\ "meta" \notin Chunks
  /\ NoDst \notin [imports : Images, history : Histories]

VARIABLES
  objects,   \* the keys that exist under the prefix
  service,   \* what the TETRATION_S3_* variables are good for
  extra,     \* the library that the format needs is installed
  target,    \* "prefix" (_zarr_convert_candidate or format="zarr"), "object",
             \* "malformed" (no key, an unknown suffix or format), or "local"
             \* for a source that is not an s3:// URI
  pc,        \* where convert() is
  probe,     \* the metadata name that is probed
  history,   \* the history tag of the .tet
  todo,      \* keys the zarr library has still to ask for
  imports,   \* array -> chunk -> what was read
  faults,    \* requests that failed so far
  dst        \* the .tet at the destination

vars == <<objects, service, extra, target, pc, probe, history, todo, imports, faults, dst>>
env == <<objects, service, extra, target>>

(* What can be at the bucket, as far as the target looks at it. *)
Buckets(t) == CASE t = "prefix" -> SUBSET (Keys \ {Source})
                [] t = "object" -> SUBSET {Source}
                [] OTHER        -> {{}}

Targets == {"prefix", "object", "malformed", "local"}
Services == {"ok", "refused", "no endpoint"}

Init ==
  /\ target \in Targets
  /\ objects \in Buckets(target)
  /\ service \in Services /\ extra \in BOOLEAN
  /\ pc = IF target = "local" THEN "staged" ELSE "start"
  /\ probe = "zarr.json"
  /\ history = "none"
  /\ todo = {}
  /\ imports = [a \in {} |-> Unread]
  /\ faults = 0
  /\ dst = NoDst

-----------------------------------------------------------------------------
(* download_s3_object: the bytes, or a CatalogError of one of four causes *)

Found(key)   == service = "ok" /\ key \in objects /\ UNCHANGED faults
Missing(key) == service = "ok" /\ key \notin objects /\ UNCHANGED faults
Faulted(key) == service = "ok" /\ faults < MaxFaults /\ faults' = faults + 1
Refused      == service = "refused" /\ UNCHANGED faults
Unconfigured == service = "no endpoint" /\ UNCHANGED faults

Raise(error) ==
  /\ pc' = error
  /\ UNCHANGED <<env, probe, history, todo, imports, dst>>

(* _s3_object_exists: an error whose text names the endpoint is raised again,
   and every other one means absent. *)
NamesEndpoint(key) == Unconfigured \/ Refused \/ Faulted(key)

(* A slip: whatever its text, an error means absent. *)
LooksAbsentAlways(key) == Missing(key) \/ Faulted(key) \/ Refused \/ Unconfigured

LooksAbsent(key) == Missing(key) \/ Faulted(key) \/ Refused

(* _S3ZarrMap.__getitem__ turns every CatalogError into a KeyError, which
   the MemoryStore answers with "no such key". *)
NoSuchKey(key) == Missing(key) \/ Faulted(key) \/ Refused \/ Unconfigured

-----------------------------------------------------------------------------
(* _convert_s3 of one object: what was downloaded is staged as a local file. *)

RefuseUri ==
  /\ pc = "start" /\ target = "malformed"
  /\ Raise("ValueError")
  /\ UNCHANGED faults

DownloadObject ==
  /\ pc = "start" /\ target = "object"
  /\ Found(Source)
  /\ pc' = "staged"
  /\ UNCHANGED <<env, probe, history, todo, imports, dst>>

DownloadFails ==
  /\ pc = "start" /\ target = "object"
  /\ NoSuchKey(Source)
  /\ Raise("CatalogError")

-----------------------------------------------------------------------------
(* _convert_s3_zarr: is it a store, and of which format *)

NextProbe(m) == CASE m = "zarr.json" -> ".zgroup"
                  [] m = ".zgroup" -> ".zarray"
                  [] m = ".zarray" -> "none"

(* Nothing is asked of S3 before zarr is there. *)
RequireZarr ==
  /\ pc = "start" /\ target = "prefix"
  /\ pc' = IF extra THEN "probe" ELSE "ImportError"
  /\ UNCHANGED <<env, probe, history, todo, imports, faults, dst>>

ProbeFound ==
  /\ pc = "probe"
  /\ Found(<<probe, "store">>)
  /\ pc' = "tag"
  /\ UNCHANGED <<env, probe, history, todo, imports, dst>>

ProbeAbsent ==
  /\ pc = "probe"
  /\ LooksAbsent(<<probe, "store">>)
  /\ probe' = NextProbe(probe)
  /\ pc' = IF NextProbe(probe) = "none" THEN "ValueError" ELSE "probe"
  /\ UNCHANGED <<env, history, todo, imports, dst>>

ProbeFails ==
  /\ pc \in {"probe", "tag"}
  /\ NamesEndpoint(<<probe, "store">>)
  /\ Raise("CatalogError")

(* zarr.json is asked for once more, for the history tag. *)
TagHistory ==
  /\ pc = "tag"
  /\ \/ Found(<<"zarr.json", "store">>) /\ history' = "zarr"
     \/ LooksAbsent(<<"zarr.json", "store">>) /\ history' = "zarr2"
  /\ pc' = "open"
  /\ UNCHANGED <<env, probe, todo, imports, dst>>

-----------------------------------------------------------------------------
(* _load_zarr over an _S3ZarrMap *)

(* zarr.open_group wants the metadata of a group at the root, of the newer
   format first; an array at the root is not one. *)
OpenV3 ==
  /\ pc = "open"
  /\ \/ Found(<<"zarr.json", "store">>) /\ pc' = "list"
     \/ NoSuchKey(<<"zarr.json", "store">>) /\ pc' = "openv2"
  /\ UNCHANGED <<env, probe, history, todo, imports, dst>>

OpenV2 ==
  /\ pc = "openv2"
  /\ \/ Found(<<".zgroup", "store">>) /\ pc' = "list"
     \/ NoSuchKey(<<".zgroup", "store">>) /\ pc' = "GroupNotFoundError"
  /\ UNCHANGED <<env, probe, history, todo, imports, dst>>

IsChunkKey(key) == key \in StoreKeys \cup ChunkKeys     \* a slip

(* _looks_like_zarr_store_key keeps metadata and chunk keys. *)
IsStoreKey(key) == key \in StoreKeys \cup ArrayMetas \cup ChunkKeys

(* _listed_keys: one list_s3_prefix for the whole conversion; the arrays to
   visit come from it. *)
ListKeys ==
  /\ pc = "list"
  /\ todo' = {<<a, "meta">> : a \in {a \in Arrays :
                \E key \in objects : IsStoreKey(key) /\ key[1] = a}}
  /\ pc' = "walk"
  /\ UNCHANGED <<env, probe, history, imports, faults, dst>>

ListFails ==
  /\ pc = "list"
  /\ Faulted(Source)
  /\ Raise("CatalogError")

(* _walk_zarr: an array whose metadata cannot be had is not a member. *)
OpenArray(key) ==
  /\ pc = "walk" /\ key \in todo \cap ArrayMetas
  /\ Found(key)
  /\ imports' = [a \in DOMAIN imports \cup {key[1]} |->
                   IF a = key[1] THEN Unread ELSE imports[a]]
  /\ todo' = (todo \ {key}) \cup ({key[1]} \X Chunks)
  /\ UNCHANGED <<env, pc, probe, history, dst>>


NotAMember(key) ==
  /\ pc = "walk" /\ key \in todo \cap ArrayMetas
  /\ NoSuchKey(key)
  /\ todo' = todo \ {key}
  /\ UNCHANGED <<env, pc, probe, history, imports, dst>>

ReadChunk(key) ==
  /\ pc = "walk" /\ key \in todo \cap ChunkKeys
  /\ Found(key)
  /\ imports' = [imports EXCEPT ![key[1]][key[2]] = Bytes]
  /\ todo' = todo \ {key}
  /\ UNCHANGED <<env, pc, probe, history, dst>>

(* A slip: a failed GET answers with a buffer instead of "no such key". *)
FillChunkFromBuffer(key) ==
  /\ pc = "walk" /\ key \in todo \cap ChunkKeys
  /\ NoSuchKey(key)
  /\ imports' = [imports EXCEPT ![key[1]][key[2]] = Bytes]
  /\ todo' = todo \ {key}
  /\ UNCHANGED <<env, pc, probe, history, dst>>

(* A chunk that is not in the store reads as the fill value. *)
FillChunk(key) ==
  /\ pc = "walk" /\ key \in todo \cap ChunkKeys
  /\ NoSuchKey(key)
  /\ todo' = todo \ {key}
  /\ UNCHANGED <<env, pc, probe, history, imports, dst>>

(* A slip: "no supported arrays" is not raised. *)
EndWalkAnyway ==
  /\ pc = "walk" /\ todo = {}
  /\ pc' = "commit"
  /\ UNCHANGED <<env, probe, history, todo, imports, faults, dst>>

EndWalk ==
  /\ pc = "walk" /\ todo = {}
  /\ pc' = IF DOMAIN imports = {} THEN "ValueError" ELSE "commit"
  /\ UNCHANGED <<env, probe, history, todo, imports, faults, dst>>

Commit ==
  /\ pc = "commit"
  /\ dst' = [imports |-> imports, history |-> history]
  /\ pc' = "done"
  /\ UNCHANGED <<env, probe, history, todo, imports, faults>>

(* write_dataset or commit raises (a chunk_shape of another rank, a full disk):
   the writer session is dropped. *)
CommitFails == pc = "commit" /\ Raise("WriteError") /\ UNCHANGED faults

Next ==
  \/ RefuseUri \/ DownloadObject \/ DownloadFails
  \/ RequireZarr \/ ProbeFound \/ ProbeAbsent \/ ProbeFails \/ TagHistory
  \/ OpenV3 \/ OpenV2 \/ ListKeys \/ ListFails
  \/ \E key \in todo : \/ OpenArray(key) \/ NotAMember(key)
                       \/ ReadChunk(key) \/ FillChunk(key)
  \/ EndWalk \/ Commit \/ CommitFails

Spec == Init /\ [][Next]_vars

-----------------------------------------------------------------------------
(* Properties *)

Errors == {"CatalogError", "ImportError", "ValueError", "GroupNotFoundError", "WriteError"}

(* What a local-directory convert of the same store writes. *)
LocalHistory == IF <<"zarr.json", "store">> \in objects THEN "zarr" ELSE "zarr2"
LocalImports ==
  [a \in {a \in Arrays : <<a, "meta">> \in objects} |->
     [k \in Chunks |-> IF <<a, k>> \in objects THEN Bytes ELSE Fill]]

(* The .tet matches a local-directory convert of the same store: every array
   is there, every chunk that exists was read, and the tag is the format's. *)
MatchesLocal ==
  dst # NoDst /\ target = "prefix" =>
    dst.imports = LocalImports /\ dst.history = LocalHistory

(* So it does as long as every request for an object that is there succeeds. *)
MatchesLocalUnfaulted == faults = 0 => MatchesLocal

(* Whatever fails, nothing is invented: a chunk that was read exists, and an
   array that was imported has metadata. *)
NothingInvented ==
  dst # NoDst /\ target = "prefix" =>
    \A a \in DOMAIN dst.imports :
      /\ <<a, "meta">> \in objects
      /\ \A k \in Chunks : dst.imports[a][k] = Bytes => <<a, k>> \in objects

(* Without TETRATION_S3_ENDPOINT convert of an s3:// source says so, unless it
   has to say first that zarr is missing: none of its five requests reads as
   "no such object" or "not a store", and nothing is written. *)
ConfigurationReported ==
  target \in {"prefix", "object"} /\ service = "no endpoint" =>
    /\ dst = NoDst
    /\ \/ pc \in {"start", "probe", "CatalogError"}
       \/ pc = "ImportError" /\ target = "prefix" /\ ~extra
=============================================================================
