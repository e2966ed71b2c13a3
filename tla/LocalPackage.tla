---------------------------- MODULE LocalPackage ----------------------------
(***************************************************************************)
(* A .tet.d directory and the processes that work on it: create, ingest,   *)
(* publish, pack and open_package of python/tet/package.py and file.py     *)
(* over the package_* functions of native/src/lib.rs.                      *)
(*                                                                         *)
(* Inside the directory a package is what PackageStore describes, with the *)
(* same promises of the tetration crate.  Added here: the directory may be *)
(* missing, two first ingests may both try to create it, a publish may be  *)
(* a dry run and is refused when it changes the schema of a dataset it has *)
(* no replace= for, and pack copies a generation out and may remove the    *)
(* directory under everybody else.                                         *)
(*                                                                         *)
(* Of the crate it is assumed besides that a path which exists is not      *)
(* created, that the schema is compared with the CURRENT that the flip     *)
(* expects, and that the package is removed after the copy was verified.   *)
(***************************************************************************)
EXTENDS PackageStore

CONSTANTS
  Datasets,  \* dataset names
  Schema,    \* Schema[t]: dtype and shape of the dataset of file t
  Packed     \* generation ids that callers pack with generation=...

(* A process that also reads is two clients: a handle and the calls of the
   writer side have nothing in common.  A directory has publish() alone: seal()
   and cas_publish() are methods of the stores. *)
ASSUME LocalAssumption ==
  /\ Claim \in [Tets -> Datasets]
  /\ Packed \subseteq Gens
  /\ ~HoldsGil /\ ~Direct
  /\ Committers \cap Readers = {}

VARIABLES
  dir,      \* the path: nothing, a directory without PROTOCOL, a package,
            \* or a package that was removed (it is not created again: a bound)
  probed,   \* processes that saw no PROTOCOL and are about to create
  replace,  \* replace= of the publish a process is in
  packing,  \* the pack() a process is in
  dest      \* the .tet that pack writes, shared by all

localVars == <<dir, probed, replace, packing, dest>>

NoPack == [gen |-> NoGen, remove |-> FALSE, image |-> NoImage]

(* TypeOK: types; a process does one thing at a time, and there is nothing in
   a package that is not there. *)
LocalTypeOK ==
  /\ TypeOK
  /\ dir \in {"none", "bare", "package", "removed"}
  /\ probed \subseteq Committers
  /\ replace \in [Committers -> SUBSET Datasets]
  /\ packing \in [Committers -> [gen: Gens \cup {NoGen}, remove: BOOLEAN, image: Images]]
  /\ dest \in Images
  /\ \A c \in Committers : packing[c] # NoPack \/ c \in probed => pc[c] = "idle"
  /\ dir # "package" => current = NoGen /\ \A p \in Parts : staged[p] = NoTet

LocalInit ==
  /\ Init
  /\ dir = "none" /\ probed = {}
  /\ replace = [c \in Committers |-> {}]
  /\ packing = [c \in Committers |-> NoPack]
  /\ dest = NoImage

Free(c) == pc[c] = "idle" /\ packing[c] = NoPack /\ c \notin probed

Emptied ==
  /\ staged' = [p \in Parts |-> NoTet]
  /\ sealed' = [g \in Gens |-> NoImage]
  /\ current' = NoGen
  /\ claim' = [g \in Gens |-> NoClient]

-----------------------------------------------------------------------------
(* create() and ingest(create=True) *)

(* PROTOCOL is looked for; that it is absent is acted upon later. *)
Probe(c) ==
  /\ Free(c) /\ dir # "package"
  /\ probed' = probed \cup {c}
  /\ UNCHANGED <<vars, dir, replace, packing, dest>>

PathTaken == FALSE     \* a slip: whatever is at the path is replaced
PathExists == dir \in {"bare", "package"}

(* package_create, of create() or of the ingest that probed. *)
CreatePackage(c) ==
  /\ Free(c) \/ c \in probed
  /\ ~PathExists /\ dir # "removed"
  /\ dir' = "package"
  /\ probed' = probed \ {c}
  /\ Emptied
  /\ UNCHANGED <<pc, call, handle, acked, replace, packing, dest>>

(* The second of two first ingests raises, and stages nothing. *)
CreateRefused(c) ==
  /\ c \in probed /\ PathExists
  /\ probed' = probed \ {c}
  /\ UNCHANGED <<vars, dir, replace, packing, dest>>

(* The process dies between the directory and its PROTOCOL. *)
CreateDies(c) ==
  /\ Free(c) \/ c \in probed
  /\ dir = "none"
  /\ dir' = "bare"
  /\ probed' = probed \ {c}
  /\ UNCHANGED <<vars, replace, packing, dest>>

IngestPart(c, p, t) ==
  /\ Free(c) /\ dir = "package"
  /\ Ingest(c, p, t)
  /\ UNCHANGED localVars

-----------------------------------------------------------------------------
(* publish() *)

Publish(c, ps, g, rs) ==
  /\ Free(c) /\ dir = "package"
  /\ PublishBegin(c, ps, g)
  /\ replace' = [replace EXCEPT ![c] = rs]
  /\ UNCHANGED <<dir, probed, packing, dest>>

(* dry_run=True runs the checks of a publish: it raises or answers with the id
   of the generation, and leaves everything as it was. *)
DryRun(c) ==
  /\ pc[c] = "begun" /\ dir = "package"
  /\ Return(c)
  /\ replace' = [replace EXCEPT ![c] = {}]
  /\ UNCHANGED <<store, handle, acked, dir, probed, packing, dest>>

SchemasOf(image) == {<<Claim[pt[2]], Schema[pt[2]]>> : pt \in image}

(* The datasets of both whose dtype or shape is another. *)
Changes(old, new) ==
  {d \in Datasets : \E s \in SchemasOf(old), r \in SchemasOf(new) :
                      s[1] = d /\ r[1] = d /\ s # r}

ImageOf(g) == IF g = NoGen THEN NoImage ELSE sealed[g]

(* A slip: any replace= opens every dataset. *)
SchemaLoose(c) ==
  replace[c] # {} \/ Changes(ImageOf(call[c].expected), Merged(call[c].parts)) = {}
SchemaHolds(c) ==
  Changes(ImageOf(call[c].expected), Merged(call[c].parts)) \subseteq replace[c]

SealPart(c) ==
  /\ Mergeable(call[c].parts) => SchemaHolds(c)
  /\ WriteGeneration(c) \/ SealRefused(c)

SchemaRefused(c) ==
  /\ pc[c] = "claimed"
  /\ Mergeable(call[c].parts) /\ ~SchemaHolds(c)
  /\ claim' = [claim EXCEPT ![call[c].gen] = NoClient]
  /\ Return(c)
  /\ UNCHANGED <<staged, sealed, current, handle, acked>>

(* What is left of a publish, as long as the package is there. *)
PublishStep(c) ==
  /\ dir = "package"
  /\ TakeClaim(c) \/ ClaimHeld(c) \/ SealPart(c) \/ SchemaRefused(c) \/ Flip(c) \/ FlipLost(c)
  /\ replace' = [replace EXCEPT ![c] = IF pc'[c] = "idle" THEN {} ELSE @]
  /\ UNCHANGED <<dir, probed, packing, dest>>

(* The package was removed under a publish(), which raises. *)
Vanished(c) ==
  /\ dir = "removed" /\ pc[c] # "idle"
  /\ Return(c)
  /\ replace' = [replace EXCEPT ![c] = {}]
  /\ UNCHANGED <<store, handle, acked, dir, probed, packing, dest>>

-----------------------------------------------------------------------------
(* pack() *)

(* CURRENT is read here, the rest is done with the generation it named. *)
PackBegin(c, g, remove) ==
  /\ Free(c) /\ dir = "package"
  /\ g = current \/ g \in Packed
  /\ packing' = [packing EXCEPT ![c] = [NoPack EXCEPT !.gen = g, !.remove = remove]]
  /\ UNCHANGED <<vars, dir, probed, replace, dest>>

CurrentAgain(c) == current        \* a slip: CURRENT is read again
GenerationOf(c) == packing[c].gen

Copies(c) == dir = "package" /\ dest = NoImage /\ ImageOf(GenerationOf(c)) # NoImage

PackCopy(c) ==
  /\ packing[c].gen # NoGen /\ packing[c].image = NoImage
  /\ Copies(c)
  /\ dest' = ImageOf(GenerationOf(c))
  /\ packing' = [packing EXCEPT ![c].image = dest']
  /\ UNCHANGED <<vars, dir, probed, replace>>

PackReturn(c) == packing' = [packing EXCEPT ![c] = NoPack]

(* dst exists, or the generation or the package is not there. *)
PackFails(c) ==
  /\ packing[c].gen # NoGen /\ packing[c].image = NoImage
  /\ ~Copies(c)
  /\ PackReturn(c)
  /\ UNCHANGED <<vars, dir, probed, replace, dest>>

MayRemove(c) == packing[c].remove /\ packing[c].image # NoImage

PackRemove(c) ==
  /\ dir = "package" /\ MayRemove(c)
  /\ dir' = "removed"
  /\ Emptied /\ PackReturn(c)
  /\ UNCHANGED <<pc, call, handle, acked, probed, replace, dest>>

(* Without remove_package, or the crate refuses to remove: then it raises. *)
PackKeep(c) ==
  /\ packing[c].image # NoImage
  /\ PackReturn(c)
  /\ UNCHANGED <<vars, dir, probed, replace, dest>>

-----------------------------------------------------------------------------
(* open_package(), and tet.open of a URI with ?generation=, map the packed.tet
   of the pinned generation: the mapping stays when the directory goes, and an
   open that finds it gone raises. *)

OpenPackage(c) ==
  /\ \/ dir = "package" /\ \E g \in Gens : OpenPin(c, g)
     \/ dir = "package" /\ OpenRead(c)
     \/ OpenFails(c) \/ Close(c)
  /\ UNCHANGED localVars

CrashOf(c) ==
  /\ \/ Crash(c) /\ UNCHANGED packing
     \/ packing[c] # NoPack /\ PackReturn(c) /\ UNCHANGED vars
  /\ replace' = [replace EXCEPT ![c] = {}]
  /\ UNCHANGED <<dir, probed, dest>>

LocalNext ==
  \/ \E c \in Committers :
       \/ Probe(c) \/ CreatePackage(c) \/ CreateRefused(c) \/ CreateDies(c)
       \/ \E p \in Parts, t \in Tets : IngestPart(c, p, t)
       \/ \E ps \in (SUBSET Parts) \ {{}}, g \in Gens, rs \in SUBSET Datasets : Publish(c, ps, g, rs)
       \/ DryRun(c) \/ PublishStep(c)
       \/ \E g \in Gens, remove \in BOOLEAN : PackBegin(c, g, remove)
       \/ PackCopy(c) \/ PackFails(c) \/ PackRemove(c) \/ PackKeep(c)
       \/ Vanished(c) \/ CrashOf(c)
  \/ \E c \in Readers : OpenPackage(c)

LocalSpec == LocalInit /\ [][LocalNext]_<<vars, localVars>>

-----------------------------------------------------------------------------
(* Properties *)

(* A part that ingest() returned stays as it is as long as the package is
   there, whoever else creates, ingests, publishes or packs: in particular a
   process that found no PROTOCOL and creates later does not start afresh. *)
StagedKept ==
  [][\A p \in Parts :
       staged[p] # NoTet /\ dir' = "package" => staged'[p] = staged[p]]_<<vars, localVars>>

(* What a pack() leaves at dst is the generation it began with, wherever
   CURRENT has moved since; a package goes only after that, and the copy is
   never touched again. *)
RemovedOnlyPacked ==
  [][/\ dest' # dest =>
          \E c \in Committers : /\ packing[c].image = NoImage /\ packing'[c].image = dest'
                                /\ dest' = sealed[packing[c].gen]
     /\ dir' = "removed" /\ dir # "removed" =>
          \E c \in Committers : /\ packing[c].remove /\ packing'[c] = NoPack
                                /\ dest # NoImage /\ dest = sealed[packing[c].gen]
     /\ dest # NoImage => dest' = dest]_<<vars, localVars>>

(* From one CURRENT to the next a dataset changes its dtype or shape only if
   the publish that moved CURRENT named it in replace=, although CURRENT may
   have moved since that publish began. *)
SchemaKept ==
  [][dir' = "package" /\ current' # current =>
       \E c \in Committers :
         /\ pc[c] = "sealed" /\ call[c].gen = current'
         /\ Changes(ImageOf(current), sealed'[current']) \subseteq replace[c]]_<<vars, localVars>>
=============================================================================
