------------------------- MODULE LocalPackage_proofs -------------------------
(***************************************************************************)
(* What is proved of a .tet.d directory for every set of processes, parts, *)
(* files and datasets.  While the directory is there, what happens in it   *)
(* are steps of PackageStore and publishes that give up, so the invariants *)
(* of PackageStore are reused; what is new is that the directory comes     *)
(* and goes, and that a process acts on what it read of it before.         *)
(***************************************************************************)
EXTENDS LocalPackage, PackageStore_proofs

-----------------------------------------------------------------------------
(* The inductive invariant *)

(* Nobody has done anything with a directory that is not a package yet. *)
Untouched ==
  /\ \A p \in Parts : staged[p] = NoTet
  /\ \A g \in Gens : sealed[g] = NoImage /\ claim[g] = NoClient
  /\ current = NoGen
  /\ \A c \in Clients : pc[c] = "idle" /\ handle[c] = Closed
  /\ acked = {}

LocalInv ==
  /\ LocalTypeOK
  /\ dir = "package" => Inv
  /\ dir \in {"none", "bare"} => Untouched

(* A publish that ends without a generation: dry_run, a schema it may not
   change, or a package that is gone. *)
GiveUp(c) ==
  /\ pc[c] \in {"begun", "claimed"}
  /\ Return(c)
  /\ UNCHANGED <<staged, sealed, current, handle, acked>>
  /\ \/ UNCHANGED claim
     \/ pc[c] = "claimed" /\ claim' = [claim EXCEPT ![call[c].gen] = NoClient]

-----------------------------------------------------------------------------
(* Which steps are the store's *)

LEMMA IdleCommitter ==
  ASSUME LocalTypeOK, NEW c \in Committers, pc[c] # "idle"
  PROVE  c \notin probed /\ packing[c] = NoPack
BY DEF LocalTypeOK

(* What happens to the package while it stays is a step of PackageStore, or
   a publish gives up. *)
LEMMA StepOfStore ==
  ASSUME LocalNext, dir = "package", dir' = "package"
  PROVE  [Next]_vars \/ \E c \in Committers : GiveUp(c)
<1>1. ASSUME NEW c \in Committers, NEW p \in Parts, NEW t \in Tets, IngestPart(c, p, t)
      PROVE  Next
  BY <1>1 DEF IngestPart, Next, WriterStep
<1>2. ASSUME NEW c \in Committers, NEW ps \in (SUBSET Parts) \ {{}}, NEW g \in Gens,
             NEW rs \in SUBSET Datasets, Publish(c, ps, g, rs)
      PROVE  Next
  BY <1>2 DEF Publish, Next, CommitterStep
<1>3. ASSUME NEW c \in Committers, DryRun(c) PROVE GiveUp(c)
  BY <1>3 DEF DryRun, GiveUp, store
<1>4. ASSUME NEW c \in Committers, PublishStep(c) PROVE Next \/ GiveUp(c)
  <2>1. CASE SchemaRefused(c)
    BY <2>1 DEF SchemaRefused, GiveUp
  <2>2. CASE SealPart(c)
    BY <2>2 DEF SealPart, Next, CommitterStep
  <2>3. CASE TakeClaim(c) \/ ClaimHeld(c) \/ Flip(c) \/ FlipLost(c)
    BY <2>3 DEF Next, CommitterStep
  <2> QED BY <1>4, <2>1, <2>2, <2>3 DEF PublishStep
<1>5. ASSUME NEW c \in Committers, CrashOf(c) PROVE Next \/ UNCHANGED vars
  BY <1>5 DEF CrashOf, Next, Clients
<1>6. ASSUME NEW c \in Readers, OpenPackage(c) PROVE Next
  BY <1>6 DEF OpenPackage, Next, ReaderStep
<1>7. ASSUME NEW c \in Committers,
             \/ Probe(c) \/ CreatePackage(c) \/ CreateRefused(c) \/ CreateDies(c)
             \/ \E g \in Gens, remove \in BOOLEAN : PackBegin(c, g, remove)
             \/ PackCopy(c) \/ PackFails(c) \/ PackRemove(c) \/ PackKeep(c)
      PROVE  UNCHANGED vars
  BY <1>7 DEF Probe, CreatePackage, CreateRefused, CreateDies, PackBegin, PackCopy, PackFails,
     PackRemove, PackKeep, PathExists
<1> QED BY <1>1, <1>2, <1>3, <1>4, <1>5, <1>6, <1>7 DEF LocalNext, Vanished

(* The directory appears by create, and goes by pack. *)
LEMMA DirChanges ==
  ASSUME LocalTypeOK, LocalNext
  PROVE  \/ dir' = dir
         \/ dir = "none" /\ dir' = "bare" /\ UNCHANGED vars
         \/ dir = "none" /\ dir' = "package" /\ \E c \in Committers : CreatePackage(c)
         \/ dir = "package" /\ dir' = "removed" /\ \E c \in Committers : PackRemove(c)
<1>1. ASSUME NEW c \in Committers,
             \/ Probe(c) \/ CreateRefused(c)
             \/ \E p \in Parts, t \in Tets : IngestPart(c, p, t)
             \/ \E ps \in (SUBSET Parts) \ {{}}, g \in Gens, rs \in SUBSET Datasets : Publish(c, ps, g, rs)
             \/ DryRun(c) \/ PublishStep(c)
             \/ \E g \in Gens, remove \in BOOLEAN : PackBegin(c, g, remove)
             \/ PackCopy(c) \/ PackFails(c) \/ PackKeep(c) \/ CrashOf(c)
      PROVE  dir' = dir
  BY <1>1 DEF Probe, CreateRefused, IngestPart, Publish, DryRun, PublishStep, PackBegin, PackCopy,
     PackFails, PackKeep, CrashOf, localVars
<1>2. ASSUME NEW c \in Committers, CreatePackage(c) PROVE dir = "none" /\ dir' = "package"
  BY <1>2 DEF CreatePackage, PathExists, LocalTypeOK
<1>3. ASSUME NEW c \in Committers, CreateDies(c) PROVE dir = "none" /\ dir' = "bare" /\ UNCHANGED vars
  BY <1>3 DEF CreateDies
<1>4. ASSUME NEW c \in Readers, OpenPackage(c) PROVE dir' = dir
  BY <1>4 DEF OpenPackage, localVars
<1>5. ASSUME NEW c \in Committers, Vanished(c) PROVE dir' = dir
  BY <1>5 DEF Vanished
<1>6. ASSUME NEW c \in Committers, PackRemove(c) PROVE dir = "package" /\ dir' = "removed"
  BY <1>6 DEF PackRemove
<1> QED BY <1>1, <1>2, <1>3, <1>4, <1>5, <1>6 DEF LocalNext

(* Nothing happens to what is not a package. *)
LEMMA NoPackageStep ==
  ASSUME LocalInv, LocalNext, dir \in {"none", "bare"}, dir' = dir
  PROVE  UNCHANGED vars
<1>1. \A c \in Clients : pc[c] = "idle" /\ handle[c] = Closed
  BY DEF LocalInv, Untouched
<1>2. ASSUME NEW c \in Committers,
             \/ Probe(c) \/ CreateRefused(c) \/ CreateDies(c)
             \/ PackFails(c) \/ PackKeep(c) \/ PackCopy(c)
             \/ \E g \in Gens, remove \in BOOLEAN : PackBegin(c, g, remove)
      PROVE  UNCHANGED vars
  BY <1>2 DEF Probe, CreateRefused, CreateDies, PackFails, PackKeep, PackCopy, PackBegin
<1>3. ASSUME NEW c \in Committers, CrashOf(c) PROVE UNCHANGED vars
  BY <1>1, <1>3 DEF CrashOf, Crash, Clients
<1>4. ASSUME NEW c \in Readers, OpenPackage(c) PROVE FALSE
  BY <1>1, <1>4 DEF OpenPackage, OpenFails, Close, Clients
<1>5. ASSUME NEW c \in Committers, Vanished(c) PROVE FALSE
  BY <1>1, <1>5 DEF Vanished
<1>6. ASSUME NEW c \in Committers,
             \/ \E p \in Parts, t \in Tets : IngestPart(c, p, t)
             \/ \E ps \in (SUBSET Parts) \ {{}}, g \in Gens, rs \in SUBSET Datasets : Publish(c, ps, g, rs)
             \/ DryRun(c) \/ PublishStep(c) \/ PackRemove(c) \/ CreatePackage(c)
      PROVE  FALSE
  BY <1>6 DEF IngestPart, Publish, DryRun, PublishStep, PackRemove, CreatePackage
<1> QED BY <1>2, <1>3, <1>4, <1>5, <1>6 DEF LocalNext

(* Of a package that was removed only handles and calls are left. *)
LEMMA RemovedStep ==
  ASSUME LocalTypeOK, LocalNext, dir = "removed"
  PROVE  TypeOK' /\ UNCHANGED <<staged, sealed, current, acked>>
<1>1. ASSUME NEW c \in Committers,
             \/ Probe(c) \/ CreateRefused(c) \/ CreateDies(c)
             \/ PackFails(c) \/ PackKeep(c) \/ PackCopy(c)
             \/ \E g \in Gens, remove \in BOOLEAN : PackBegin(c, g, remove)
      PROVE  UNCHANGED vars
  BY <1>1 DEF Probe, CreateRefused, CreateDies, PackFails, PackKeep, PackCopy, PackBegin
<1>2. Closed \in HandleType
  BY DEF Closed, HandleType, NoGen, NoImage, Images
<1>3. ASSUME NEW c \in Committers, CrashOf(c)
      PROVE  TypeOK' /\ UNCHANGED <<staged, sealed, current, acked>>
  <2> c \in Clients
    BY DEF Clients
  <2>1. CASE Crash(c)
    BY <1>2, <2>1, ReturnType DEF Crash, LocalTypeOK, TypeOK
  <2>2. CASE UNCHANGED vars
    BY <2>2 DEF LocalTypeOK, TypeOK, vars
  <2> QED BY <1>3, <2>1, <2>2 DEF CrashOf
<1>4. ASSUME NEW c \in Readers, OpenPackage(c)
      PROVE  TypeOK' /\ UNCHANGED <<staged, sealed, current, acked>>
  <2> c \in Clients
    BY DEF Clients
  <2>1. CASE OpenFails(c)
    BY <2>1, ReturnType DEF OpenFails, store, LocalTypeOK, TypeOK
  <2>2. CASE Close(c)
    BY <1>2, <2>2 DEF Close, store, LocalTypeOK, TypeOK
  <2> QED BY <1>4, <2>1, <2>2 DEF OpenPackage
<1>5. ASSUME NEW c \in Committers, Vanished(c)
      PROVE  TypeOK' /\ UNCHANGED <<staged, sealed, current, acked>>
  BY <1>5, ReturnType DEF Clients, Vanished, store, LocalTypeOK, TypeOK
<1>6. ASSUME NEW c \in Committers,
             \/ \E p \in Parts, t \in Tets : IngestPart(c, p, t)
             \/ \E ps \in (SUBSET Parts) \ {{}}, g \in Gens, rs \in SUBSET Datasets : Publish(c, ps, g, rs)
             \/ DryRun(c) \/ PublishStep(c) \/ PackRemove(c) \/ CreatePackage(c)
      PROVE  FALSE
  BY <1>6 DEF IngestPart, Publish, DryRun, PublishStep, PackRemove, CreatePackage
<1>7. CASE UNCHANGED vars
  BY <1>7 DEF LocalTypeOK, TypeOK, vars
<1> QED BY <1>1, <1>3, <1>4, <1>5, <1>6, <1>7 DEF LocalNext, vars

-----------------------------------------------------------------------------
(* The invariant of the store *)

LEMMA GiveUpInv ==
  ASSUME Inv, NEW c \in Committers, GiveUp(c)
  PROVE  Inv'
BY ReleaseInv DEF GiveUp, Clients

(* A package that was just created is as PackageStore starts. *)
LEMMA CreatedInv ==
  ASSUME LocalInv, dir = "none", NEW c \in Committers, CreatePackage(c)
  PROVE  Inv'
<1>1. TypeOK' /\ CurrentSealed'
  BY DEF CreatePackage, Emptied, LocalInv, LocalTypeOK, TypeOK, CurrentSealed, NoImage, Images
<1>2. CallsInv'
  BY DEF CreatePackage, Emptied, LocalInv, Untouched, CallsInv, CallInv, Closed
<1> QED BY <1>1, <1>2 DEF Inv

LEMMA PackageInv ==
  ASSUME LocalInv, LocalNext, dir' = "package"
  PROVE  Inv'
<1>1. CASE dir = "package"
  <2>1. Inv
    BY <1>1 DEF LocalInv
  <2> QED BY <1>1, <2>1, StepOfStore, StepInv, GiveUpInv
<1>2. CASE dir # "package"
  BY <1>2, DirChanges, CreatedInv DEF LocalInv
<1> QED BY <1>1, <1>2

(* The variables of PackageStore are empty where there is no package. *)
LEMMA OutsideInv ==
  ASSUME LocalInv, LocalNext, dir' # "package"
  PROVE  /\ TypeOK'
         /\ current' = NoGen /\ \A p \in Parts : staged'[p] = NoTet
         /\ dir' \in {"none", "bare"} => Untouched'
<1>0. TypeOK /\ LocalTypeOK
  BY DEF LocalInv, LocalTypeOK
<1>1. CASE dir = "package"
  <2> PICK c \in Committers : PackRemove(c)
    BY <1>0, <1>1, DirChanges
  <2> QED BY <1>0 DEF PackRemove, Emptied, TypeOK, NoImage, Images
<1>2. CASE dir = "removed"
  BY <1>0, <1>2, RemovedStep, DirChanges DEF LocalTypeOK
<1>3. CASE dir \in {"none", "bare"}
  <2>1. UNCHANGED vars
    BY <1>0, <1>3, DirChanges, NoPackageStep
  <2>2. dir' \in {"none", "bare"}
    BY <1>0, <1>3, DirChanges
  <2> QED BY <1>3, <2>1, <2>2 DEF LocalInv, LocalTypeOK, TypeOK, Untouched, vars
<1> QED BY <1>0, <1>1, <1>2, <1>3 DEF LocalTypeOK

-----------------------------------------------------------------------------
(* The variables of a process *)

LEMMA ProcessTypes ==
  ASSUME LocalInv, LocalNext
  PROVE  /\ dir' \in {"none", "bare", "package", "removed"}
         /\ probed' \subseteq Committers
         /\ replace' \in [Committers -> SUBSET Datasets]
         /\ packing' \in [Committers -> [gen: Gens \cup {NoGen}, remove: BOOLEAN, image: Images]]
         /\ dest' \in Images
<1> USE DEF LocalInv, LocalTypeOK
<1>0. NoPack \in [gen: Gens \cup {NoGen}, remove: BOOLEAN, image: Images]
  BY DEF NoPack, NoImage, Images
<1>1. dir' \in {"none", "bare", "package", "removed"}
  BY DirChanges
<1>2. ASSUME NEW c \in Committers, PackCopy(c)
      PROVE  dest' \in Images /\ packing' = [packing EXCEPT ![c].image = dest']
             /\ UNCHANGED <<probed, replace>>
  <2>1. GenerationOf(c) \in Gens /\ dest' = sealed[GenerationOf(c)]
    BY <1>2 DEF PackCopy, GenerationOf, ImageOf, NoGen
  <2> QED BY <1>2, <2>1 DEF PackCopy, TypeOK
<1>3. ASSUME NEW c \in Committers,
             \/ PackFails(c) \/ PackRemove(c) \/ PackKeep(c)
             \/ \E g \in Gens, remove \in BOOLEAN : PackBegin(c, g, remove)
      PROVE  /\ packing' \in [Committers -> [gen: Gens \cup {NoGen}, remove: BOOLEAN, image: Images]]
             /\ UNCHANGED <<dest, probed, replace>>
  <2>1. \A g \in Gens, remove \in BOOLEAN :
          [NoPack EXCEPT !.gen = g, !.remove = remove]
            \in [gen: Gens \cup {NoGen}, remove: BOOLEAN, image: Images]
    BY DEF NoPack, NoImage, Images
  <2>2. CASE PackFails(c) \/ PackRemove(c) \/ PackKeep(c)
    BY <1>0, <2>2 DEF PackFails, PackRemove, PackKeep, PackReturn
  <2>3. CASE \E g \in Gens, remove \in BOOLEAN : PackBegin(c, g, remove)
    <3> PICK g \in Gens, remove \in BOOLEAN : PackBegin(c, g, remove)
      BY <2>3
    <3> DEFINE new == [NoPack EXCEPT !.gen = g, !.remove = remove]
    <3>1. new \in [gen: Gens \cup {NoGen}, remove: BOOLEAN, image: Images]
      BY <2>1
    <3>2. packing' = [packing EXCEPT ![c] = new] /\ UNCHANGED <<dest, probed, replace>>
      BY DEF PackBegin
    <3> HIDE DEF new
    <3> QED BY <3>1, <3>2
  <2> QED BY <1>3, <2>2, <2>3
<1>4. ASSUME NEW c \in Committers,
             Probe(c) \/ CreatePackage(c) \/ CreateRefused(c) \/ CreateDies(c)
      PROVE  probed' \subseteq Committers /\ UNCHANGED <<dest, packing, replace>>
  BY <1>4 DEF Probe, CreatePackage, CreateRefused, CreateDies
<1>5. ASSUME NEW c \in Committers,
             \/ \E p \in Parts, t \in Tets : IngestPart(c, p, t)
             \/ \E ps \in (SUBSET Parts) \ {{}}, g \in Gens, rs \in SUBSET Datasets : Publish(c, ps, g, rs)
             \/ DryRun(c) \/ PublishStep(c)
      PROVE  replace' \in [Committers -> SUBSET Datasets] /\ UNCHANGED <<dest, packing, probed>>
  BY <1>5 DEF IngestPart, Publish, DryRun, PublishStep, localVars
<1>6. ASSUME NEW c \in Committers, CrashOf(c)
      PROVE  /\ packing' \in [Committers -> [gen: Gens \cup {NoGen}, remove: BOOLEAN, image: Images]]
             /\ replace' \in [Committers -> SUBSET Datasets] /\ UNCHANGED <<dest, probed>>
  BY <1>0, <1>6 DEF CrashOf, PackReturn
<1>7. ASSUME NEW c \in Committers, Vanished(c)
      PROVE  replace' \in [Committers -> SUBSET Datasets] /\ UNCHANGED <<dest, packing, probed>>
  BY <1>7 DEF Vanished
<1>8. ASSUME NEW c \in Readers, OpenPackage(c)
      PROVE  UNCHANGED localVars
  BY <1>8 DEF OpenPackage
<1>9. packing \in [Committers -> [gen: Gens \cup {NoGen}, remove: BOOLEAN, image: Images]]
  OBVIOUS
<1> QED BY <1>1, <1>2, <1>3, <1>4, <1>5, <1>6, <1>7, <1>8 DEF LocalNext, localVars

(* A process that is about to create, or packs, is not inside another call. *)
LEMMA OneThing ==
  ASSUME LocalInv, LocalNext
  PROVE  \A c \in Committers : packing'[c] # NoPack \/ c \in probed' => pc'[c] = "idle"
<1> SUFFICES ASSUME NEW d \in Committers, packing'[d] # NoPack \/ d \in probed'
             PROVE  pc'[d] = "idle"
  OBVIOUS
<1> d \in Clients
  BY DEF Clients
<1> DEFINE Idle == packing[d] # NoPack \/ d \in probed => pc[d] = "idle"
<1>0. Idle
  BY DEF LocalInv, LocalTypeOK
<1>1. ASSUME NEW c \in Committers,
             Probe(c) \/ CreatePackage(c) \/ CreateRefused(c) \/ CreateDies(c)
      PROVE  pc'[d] = "idle"
  BY <1>0, <1>1 DEF Probe, CreatePackage, CreateRefused, CreateDies, Free, vars
<1>2. ASSUME NEW c \in Committers,
             \/ PackCopy(c) \/ PackFails(c) \/ PackRemove(c) \/ PackKeep(c)
             \/ \E g \in Gens, remove \in BOOLEAN : PackBegin(c, g, remove)
      PROVE  pc'[d] = "idle"
  <2>1. UNCHANGED <<pc, probed>>
    BY <1>2 DEF PackCopy, PackFails, PackRemove, PackKeep, PackBegin, vars
  <2>2. CASE \E g \in Gens, remove \in BOOLEAN : PackBegin(c, g, remove)
    BY <1>0, <2>1, <2>2 DEF PackBegin, Free, LocalInv, LocalTypeOK
  <2>3. CASE PackCopy(c) \/ PackFails(c) \/ PackRemove(c) \/ PackKeep(c)
    <3>1. packing[c] # NoPack
      BY <2>3 DEF PackCopy, PackFails, PackRemove, PackKeep, MayRemove, NoPack
    <3>2. d # c => packing'[d] = packing[d]
      BY <2>3 DEF PackCopy, PackFails, PackRemove, PackKeep, PackReturn, LocalInv, LocalTypeOK
    <3>3. c = d => pc[d] = "idle"
      BY <1>0, <3>1
    <3> QED BY <1>0, <2>1, <3>2, <3>3
  <2> QED BY <1>2, <2>2, <2>3
<1>3. ASSUME NEW c \in Committers,
             \/ \E p \in Parts, t \in Tets : IngestPart(c, p, t)
             \/ \E ps \in (SUBSET Parts) \ {{}}, g \in Gens, rs \in SUBSET Datasets : Publish(c, ps, g, rs)
      PROVE  pc'[d] = "idle"
  BY <1>0, <1>3 DEF IngestPart, Ingest, Publish, PublishBegin, Free, localVars, LocalInv, LocalTypeOK,
     TypeOK
<1>4. ASSUME NEW c \in Committers, DryRun(c) \/ PublishStep(c)
      PROVE  pc'[d] = "idle"
  <2> c \in Clients
    BY DEF Clients
  <2>1. pc[c] # "idle" /\ UNCHANGED <<packing, probed>>
    BY <1>4 DEF DryRun, PublishStep, TakeClaim, ClaimHeld, SealPart, SchemaRefused, Flip, FlipLost,
       WriteGeneration, SealRefused
  <2>2. c # d
    BY <2>1, IdleCommitter DEF LocalInv
  <2>3. \A e \in Clients \ {c} : pc'[e] = pc[e]
    BY <1>4 DEF DryRun, PublishStep, TakeClaim, ClaimHeld, SealPart, SchemaRefused, Flip, FlipLost,
       WriteGeneration, SealRefused, Return, LocalInv, LocalTypeOK, TypeOK
  <2> QED BY <1>0, <2>1, <2>2, <2>3
<1>5. ASSUME NEW c \in Committers, CrashOf(c) PROVE pc'[d] = "idle"
  BY <1>0, <1>5 DEF CrashOf, Crash, Return, PackReturn, vars, LocalInv, LocalTypeOK, TypeOK
<1>6. ASSUME NEW c \in Committers, Vanished(c) PROVE pc'[d] = "idle"
  BY <1>0, <1>6 DEF Vanished, Return, LocalInv, LocalTypeOK, TypeOK
<1>7. ASSUME NEW c \in Readers, OpenPackage(c) PROVE pc'[d] = "idle"
  <2> c \in Clients /\ c # d
    BY LocalAssumption DEF Clients
  <2>1. pc'[d] = pc[d] /\ UNCHANGED <<packing, probed>>
    BY <1>7 DEF OpenPackage, OpenPin, OpenRead, OpenFails, Close, Return, localVars, LocalInv,
       LocalTypeOK, TypeOK
  <2> QED BY <1>0, <2>1
<1> QED BY <1>1, <1>2, <1>3, <1>4, <1>5, <1>6, <1>7 DEF LocalNext

LEMMA LocalInitInv == LocalInit => LocalInv
<1> SUFFICES ASSUME LocalInit PROVE LocalInv
  OBVIOUS
<1>1. Inv
  BY InitInv DEF LocalInit
<1>2. Untouched
  BY LocalAssumption DEF LocalInit, Init, Seeded, Untouched
<1>3. LocalTypeOK
  BY <1>1, <1>2 DEF LocalInit, Inv, LocalTypeOK, Untouched, NoPack, NoImage, Images, Clients
<1> QED BY <1>1, <1>2, <1>3 DEF LocalInv

LEMMA LocalStepInv == LocalInv /\ [LocalNext]_<<vars, localVars>> => LocalInv'
<1> SUFFICES ASSUME LocalInv, [LocalNext]_<<vars, localVars>> PROVE LocalInv'
  OBVIOUS
<1>1. CASE LocalNext
  <2>1. dir' = "package" => Inv'
    BY <1>1, PackageInv
  <2>2. TypeOK'
    BY <1>1, <2>1, OutsideInv DEF Inv
  <2>3. LocalTypeOK'
    BY <1>1, <2>2, OutsideInv, ProcessTypes, OneThing DEF LocalTypeOK
  <2> QED BY <1>1, <2>1, <2>3, OutsideInv DEF LocalInv
<1>2. CASE UNCHANGED <<vars, localVars>>
  BY <1>2 DEF LocalInv, LocalTypeOK, Untouched, vars, localVars, Inv, TypeOK, CallsInv, CallInv,
     CurrentSealed
<1> QED BY <1>1, <1>2

(* Every variable has its type, a process does one thing at a time, and
   there is nothing in a package that is not there. *)
THEOREM LocalTypeCorrect == LocalSpec => []LocalTypeOK
<1>1. LocalInv => LocalTypeOK
  BY DEF LocalInv
<1> QED BY LocalInitInv, LocalStepInv, <1>1, PTL DEF LocalSpec

-----------------------------------------------------------------------------
(* Parts stay *)

(* A part that ingest() returned stays as long as the package is there: a
   process that found no PROTOCOL creates only where nothing is staged. *)
THEOREM StagedAlwaysKept == LocalSpec => StagedKept
<1>1. ASSUME LocalInv, LocalNext, NEW p \in Parts, staged[p] # NoTet, dir' = "package"
      PROVE  staged'[p] = staged[p]
  <2>1. CASE dir = "package"
    <3>1. CASE Next
      <4>1. ASSUME NEW c \in Committers, WriterStep(c) \/ CommitterStep(c) PROVE staged'[p] = staged[p]
        BY <1>1, <4>1 DEF WriterStep, CommitterStep, Ingest, PublishBegin, SealBegin, TakeClaim,
           ClaimHeld, WriteGeneration, SealRefused, Flip, FlipLost, SealReturn, CasPublish, store,
           LocalInv, LocalTypeOK, TypeOK
      <4>2. ASSUME NEW c \in Readers, ReaderStep(c) PROVE staged' = staged
        BY <4>2 DEF ReaderStep, OpenPin, OpenRead, OpenFails, OpenRemote, FetchSuperblock,
           FetchCatalog, FetchRanges, FetchFails, Close, store
      <4> QED BY <3>1, <4>1, <4>2 DEF Next, Crash, Prune
    <3>2. ASSUME NEW c \in Committers, GiveUp(c) PROVE staged' = staged
      BY <3>2 DEF GiveUp
    <3>3. CASE UNCHANGED vars
      BY <3>3 DEF vars
    <3> QED BY <1>1, <2>1, <3>1, <3>2, <3>3, StepOfStore
  <2>2. CASE dir # "package"
    BY <1>1, <2>2 DEF LocalInv, LocalTypeOK
  <2> QED BY <2>1, <2>2
<1>2. LocalInv /\ [LocalNext]_<<vars, localVars>> =>
        [\A p \in Parts :
           staged[p] # NoTet /\ dir' = "package" => staged'[p] = staged[p]]_<<vars, localVars>>
  BY <1>1
<1> QED BY LocalInitInv, LocalStepInv, <1>2, PTL DEF LocalSpec, StagedKept

-----------------------------------------------------------------------------
(* Schemas *)

(* What a publish compared its schemas with is still there, and the schema
   changes it brings are those its replace= names. *)
SchemaInv ==
  dir = "package" =>
    \A c \in Committers :
      /\ pc[c] \in {"claimed", "sealed"} /\ call[c].expected # NoGen =>
           sealed[call[c].expected] # NoImage
      /\ pc[c] = "sealed" =>
           Changes(ImageOf(call[c].expected), call[c].image) \subseteq replace[c]

(* How a process comes to hold a claim, or a sealed generation. *)
LEMMA CallChanges ==
  ASSUME LocalInv, LocalNext, dir = "package", dir' = "package",
         NEW d \in Committers, pc'[d] \in {"claimed", "sealed"}
  PROVE  /\ replace'[d] = replace[d]
         /\ \/ pc'[d] = pc[d] /\ call'[d] = call[d]
            \/ TakeClaim(d)
            \/ WriteGeneration(d) /\ SchemaHolds(d)
<1> d \in Clients
  BY DEF Clients
<1> USE DEF LocalInv, LocalTypeOK, TypeOK
<1>1. ASSUME NEW c \in Committers,
             \/ Probe(c) \/ CreateRefused(c) \/ CreateDies(c)
             \/ \E p \in Parts, t \in Tets : IngestPart(c, p, t)
             \/ \E g \in Gens, remove \in BOOLEAN : PackBegin(c, g, remove)
             \/ PackCopy(c) \/ PackFails(c) \/ PackKeep(c)
      PROVE  UNCHANGED <<pc, call, replace>>
  BY <1>1 DEF Probe, CreateRefused, CreateDies, IngestPart, Ingest, PackBegin, PackCopy, PackFails,
     PackKeep, vars, localVars
<1>2. ASSUME NEW c \in Committers, NEW ps \in (SUBSET Parts) \ {{}}, NEW g \in Gens,
             NEW rs \in SUBSET Datasets, Publish(c, ps, g, rs)
      PROVE  pc'[d] = pc[d] /\ call'[d] = call[d] /\ replace'[d] = replace[d]
  BY <1>2 DEF Publish, PublishBegin, Clients
<1>3. ASSUME NEW c \in Committers, DryRun(c) \/ CrashOf(c)
      PROVE  pc'[d] = pc[d] /\ call'[d] = call[d] /\ replace'[d] = replace[d]
  BY <1>3 DEF DryRun, CrashOf, Crash, Return, Clients, vars
<1>4. ASSUME NEW c \in Committers, PublishStep(c)
      PROVE  /\ replace'[d] = replace[d]
             /\ \/ pc'[d] = pc[d] /\ call'[d] = call[d]
                \/ TakeClaim(d)
                \/ WriteGeneration(d) /\ SchemaHolds(d)
  <2> c \in Clients
    BY DEF Clients
  <2>1. CASE c # d
    BY <1>4, <2>1 DEF PublishStep, TakeClaim, ClaimHeld, SealPart, SchemaRefused, Flip, FlipLost,
       WriteGeneration, SealRefused, Return
  <2>2. CASE c = d /\ TakeClaim(c)
    BY <1>4, <2>2 DEF PublishStep
  <2>3. CASE c = d /\ SealPart(c) /\ WriteGeneration(c)
    BY <1>4, <2>3 DEF PublishStep, SealPart, WriteGeneration
  <2>4. CASE c = d /\ (ClaimHeld(c) \/ SealRefused(c) \/ SchemaRefused(c) \/ Flip(c) \/ FlipLost(c))
    <3>1. pc'[d] = "idle"
      BY <2>4 DEF ClaimHeld, SealRefused, SchemaRefused, Flip, FlipLost, Return
    <3> QED BY <3>1
  <2> QED BY <1>4, <2>1, <2>2, <2>3, <2>4 DEF PublishStep, SealPart
<1>5. ASSUME NEW c \in Readers, OpenPackage(c)
      PROVE  pc'[d] = pc[d] /\ call'[d] = call[d] /\ replace'[d] = replace[d]
  BY <1>5, LocalAssumption DEF OpenPackage, OpenPin, OpenRead, OpenFails, Close, Return, localVars, Clients
<1> QED BY <1>1, <1>2, <1>3, <1>4, <1>5
        DEF LocalNext, CreatePackage, PackRemove, Vanished, PathExists

(* A sealed generation of a package that stays keeps its bytes. *)
LEMMA ImageStays ==
  ASSUME LocalInv, LocalNext, dir = "package", dir' = "package", WriteOnceCrate,
         NEW e \in Gens \cup {NoGen}, e # NoGen => sealed[e] # NoImage
  PROVE  ImageOf(e)' = ImageOf(e) /\ (e # NoGen => sealed'[e] = sealed[e])
<1>1. ASSUME e # NoGen PROVE sealed'[e] = sealed[e]
  <2>1. Inv /\ e \in Gens
    BY <1>1 DEF LocalInv
  <2>2. ASSUME NEW c \in Committers, GiveUp(c) PROVE sealed' = sealed
    BY <2>2 DEF GiveUp
  <2> QED BY <1>1, <2>1, <2>2, StepOfStore, SealedOnce
<1> QED BY <1>1 DEF ImageOf

LEMMA SchemaStep ==
  ASSUME LocalInv, SchemaInv, LocalNext, WriteOnceCrate
  PROVE  SchemaInv'
<1>1. CASE dir = "package" /\ dir' = "package"
  <2> SUFFICES ASSUME NEW d \in Committers, pc'[d] \in {"claimed", "sealed"}
               PROVE  /\ call'[d].expected # NoGen => sealed'[call'[d].expected] # NoImage
                      /\ pc'[d] = "sealed" =>
                           Changes(ImageOf(call[d].expected), call[d].image)' \subseteq replace'[d]
    BY DEF SchemaInv
  <2> d \in Clients
    BY DEF Clients
  <2>0. TypeOK /\ Inv /\ call[d] \in CallType /\ call[d].expected \in Gens \cup {NoGen}
    BY <1>1 DEF LocalInv, LocalTypeOK, TypeOK, CallType
  <2> PICK e \in Gens \cup {NoGen} : e = call[d].expected
    BY <2>0
  <2>1. CASE pc'[d] = pc[d] /\ call'[d] = call[d] /\ replace'[d] = replace[d]
    <3>1. e # NoGen => sealed[e] # NoImage
      BY <1>1, <2>1 DEF SchemaInv
    <3>2. ImageOf(e)' = ImageOf(e) /\ (e # NoGen => sealed'[e] = sealed[e])
      BY <1>1, <3>1, ImageStays
    <3> QED BY <1>1, <2>1, <3>1, <3>2 DEF SchemaInv, ImageOf, Changes, SchemasOf
  <2>2. CASE TakeClaim(d)
    <3>1. pc'[d] = "claimed" /\ call'[d].expected \in {current, NoGen} /\ sealed' = sealed
      BY <2>0, <2>2 DEF TakeClaim, TypeOK, CallType
    <3> QED BY <2>0, <3>1, LocalAssumption DEF Inv, CurrentSealed
  <2>3. CASE WriteGeneration(d) /\ SchemaHolds(d) /\ replace'[d] = replace[d]
    <3>1. call'[d].expected = e /\ call'[d].image = Merged(call[d].parts) /\ pc[d] = "claimed"
      BY <2>0, <2>3 DEF WriteGeneration, TypeOK, CallType
    <3>2. e # NoGen => sealed[e] # NoImage
      BY <1>1, <3>1 DEF SchemaInv
    <3>3. ImageOf(e)' = ImageOf(e) /\ (e # NoGen => sealed'[e] = sealed[e])
      BY <1>1, <3>2, ImageStays
    <3> QED BY <2>3, <3>1, <3>2, <3>3 DEF SchemaHolds, ImageOf, Changes, SchemasOf
  <2> QED BY <1>1, <2>1, <2>2, <2>3, CallChanges
<1>2. CASE dir # "package" /\ dir' = "package"
  <2>1. PICK c \in Committers : CreatePackage(c)
    BY <1>2, DirChanges DEF LocalInv
  <2> QED BY <1>2, <2>1 DEF CreatePackage, SchemaInv, LocalInv, LocalTypeOK, Untouched, Clients
<1>3. CASE dir' # "package"
  BY <1>3 DEF SchemaInv
<1> QED BY <1>1, <1>2, <1>3

LEMMA MovesByFlip ==
  ASSUME LocalNext, dir = "package", dir' = "package"
  PROVE  (current' = current /\ acked' = acked) \/ \E c \in Committers : Flip(c)
<1>1. ASSUME NEW c \in Committers, PublishStep(c)
      PROVE  (current' = current /\ acked' = acked) \/ Flip(c)
  BY <1>1 DEF PublishStep, TakeClaim, ClaimHeld, SealPart, SchemaRefused, FlipLost,
     WriteGeneration, SealRefused, store
<1>2. ASSUME NEW c \in Committers,
             \/ Probe(c) \/ CreateRefused(c) \/ CreateDies(c) \/ DryRun(c)
             \/ \E p \in Parts, t \in Tets : IngestPart(c, p, t)
             \/ \E ps \in (SUBSET Parts) \ {{}}, g \in Gens, rs \in SUBSET Datasets : Publish(c, ps, g, rs)
             \/ \E g \in Gens, remove \in BOOLEAN : PackBegin(c, g, remove)
             \/ PackCopy(c) \/ PackFails(c) \/ PackKeep(c) \/ CrashOf(c)
      PROVE  current' = current /\ acked' = acked
  BY <1>2 DEF Probe, CreateRefused, CreateDies, DryRun, IngestPart, Ingest, Publish, PublishBegin,
     PackBegin, PackCopy, PackFails, PackKeep, CrashOf, Crash, vars, store
<1>3. ASSUME NEW c \in Readers, OpenPackage(c) PROVE current' = current /\ acked' = acked
  BY <1>3 DEF OpenPackage, OpenPin, OpenRead, OpenFails, Close, store
<1> QED BY <1>1, <1>2, <1>3 DEF LocalNext, CreatePackage, PackRemove, Vanished, PathExists

(* From one CURRENT to the next a dataset changes its dtype or shape only by
   the replace= of the publish that moved CURRENT: what the schemas were
   compared with is the CURRENT that the flip replaces, because the flip
   expects it and a sealed generation is never replaced. *)
THEOREM SchemaAlwaysKept ==
  ASSUME WriteOnceCrate
  PROVE  LocalSpec => SchemaKept
<1>1. LocalInit => SchemaInv
  BY DEF LocalInit, SchemaInv
<1>2. LocalInv /\ SchemaInv /\ [LocalNext]_<<vars, localVars>> => SchemaInv'
  <2>1. CASE UNCHANGED <<vars, localVars>>
    BY <2>1 DEF vars, localVars, SchemaInv, ImageOf, Changes, SchemasOf
  <2> QED BY <2>1, SchemaStep
<1>3. ASSUME LocalInv, SchemaInv, LocalNext, dir' = "package", current' # current
      PROVE  \E c \in Committers :
               /\ pc[c] = "sealed" /\ call[c].gen = current'
               /\ Changes(ImageOf(current), sealed'[current']) \subseteq replace[c]
  <2>1. dir = "package"
    <3> SUFFICES ASSUME dir # "package" PROVE FALSE
      OBVIOUS
    <3>1. PICK c \in Committers : CreatePackage(c)
      BY <1>3, DirChanges DEF LocalInv
    <3> QED BY <1>3, <3>1 DEF CreatePackage, Emptied, LocalInv, LocalTypeOK
  <2>2. PICK c \in Committers : Flip(c)
    BY <1>3, <2>1, MovesByFlip
  <2> c \in Clients
    BY DEF Clients
  <2>3. /\ pc[c] = "sealed" /\ current' = call[c].gen /\ sealed' = sealed
        /\ current = call[c].expected /\ sealed[call[c].gen] = call[c].image
    BY <1>3, <2>1, <2>2 DEF Flip, CasHolds, LocalInv, Inv, CallsInv, CallInv
  <2> QED BY <1>3, <2>1, <2>3 DEF SchemaInv
<1>4. LocalInv /\ SchemaInv /\ [LocalNext]_<<vars, localVars>> =>
        [dir' = "package" /\ current' # current =>
           \E c \in Committers :
             /\ pc[c] = "sealed" /\ call[c].gen = current'
             /\ Changes(ImageOf(current), sealed'[current']) \subseteq replace[c]]_<<vars, localVars>>
  BY <1>3
<1> QED BY LocalInitInv, LocalStepInv, <1>1, <1>2, <1>4, PTL DEF LocalSpec, SchemaKept

-----------------------------------------------------------------------------
(* Packing *)

(* What a pack() has copied is what its generation holds, and it is at dst. *)
PackInv ==
  /\ \A c \in Committers : packing[c].image # NoImage =>
       /\ dest = packing[c].image
       /\ packing[c].gen \in Gens
       /\ dir = "package" => sealed[packing[c].gen] = dest
  /\ dir \in {"none", "bare"} => dest = NoImage

(* A pack() that is not in its copying step keeps what it has, or ends. *)
LEMMA PackChanges ==
  ASSUME LocalInv, LocalNext, NEW d \in Committers, packing'[d].image # NoImage
  PROVE  (packing'[d] = packing[d] /\ dest' = dest) \/ \E c \in Committers : PackCopy(c)
<1> USE DEF LocalInv, LocalTypeOK
<1>1. ASSUME NEW c \in Committers,
             \/ Probe(c) \/ CreatePackage(c) \/ CreateRefused(c) \/ CreateDies(c) \/ DryRun(c)
             \/ \E p \in Parts, t \in Tets : IngestPart(c, p, t)
             \/ \E ps \in (SUBSET Parts) \ {{}}, g \in Gens, rs \in SUBSET Datasets : Publish(c, ps, g, rs)
             \/ PublishStep(c)
      PROVE  UNCHANGED <<packing, dest>>
  BY <1>1 DEF Probe, CreatePackage, CreateRefused, CreateDies, DryRun, IngestPart, Publish,
     PublishStep, localVars
<1>2. ASSUME NEW c \in Committers, NEW g \in Gens, NEW remove \in BOOLEAN, PackBegin(c, g, remove)
      PROVE  packing'[d] = packing[d] /\ dest' = dest
  BY <1>2 DEF PackBegin, NoPack
<1>3. ASSUME NEW c \in Committers, PackFails(c) \/ PackRemove(c) \/ PackKeep(c) \/ CrashOf(c)
      PROVE  packing'[d] = packing[d] /\ dest' = dest
  BY <1>3 DEF PackFails, PackRemove, PackKeep, CrashOf, PackReturn, NoPack
<1>4. ASSUME NEW c \in Committers, Vanished(c) PROVE UNCHANGED <<packing, dest>>
  BY <1>4 DEF Vanished
<1>5. ASSUME NEW c \in Readers, OpenPackage(c) PROVE UNCHANGED <<packing, dest>>
  BY <1>5 DEF OpenPackage, localVars
<1> QED BY <1>1, <1>2, <1>3, <1>4, <1>5 DEF LocalNext

LEMMA PackCopied ==
  ASSUME LocalInv, NEW c \in Committers, PackCopy(c)
  PROVE  /\ packing[c].gen \in Gens /\ packing[c].image = NoImage /\ dest = NoImage
         /\ dest' = sealed[packing[c].gen] /\ dest' # NoImage
         /\ packing' = [packing EXCEPT ![c].image = dest']
         /\ dir' = dir /\ sealed' = sealed
BY DEF PackCopy, Copies, GenerationOf, ImageOf, LocalInv, LocalTypeOK, NoGen, vars

LEMMA PackStep ==
  ASSUME LocalInv, PackInv, LocalNext, WriteOnceCrate
  PROVE  PackInv'
<1>0. dir' \in {"none", "bare"} => dest' = NoImage
  <2>1. dir' \in {"none", "bare"} => dir \in {"none", "bare"}
    BY DirChanges DEF LocalInv, LocalTypeOK
  <2>2. dest' = dest \/ dir = "package"
    BY DEF LocalNext, Probe, CreatePackage, CreateRefused, CreateDies, DryRun, IngestPart, Publish,
       PublishStep, PackBegin, PackCopy, Copies, PackFails, PackRemove, PackKeep, CrashOf, Vanished,
       OpenPackage, localVars
  <2> QED BY <2>1, <2>2 DEF PackInv
<1> SUFFICES ASSUME NEW d \in Committers, packing'[d].image # NoImage
             PROVE  /\ dest' = packing'[d].image
                    /\ packing'[d].gen \in Gens
                    /\ dir' = "package" => sealed'[packing'[d].gen] = dest'
  BY <1>0 DEF PackInv
<1>1. CASE packing'[d] = packing[d] /\ dest' = dest
  <2>1. dest = packing[d].image /\ packing[d].gen \in Gens
    BY <1>1 DEF PackInv
  <2>2. ASSUME dir' = "package" PROVE sealed'[packing[d].gen] = dest
    <3>1. CASE dir = "package"
      <4> PICK g \in Gens : g = packing[d].gen
        BY <2>1
      <4>1. sealed[g] = dest /\ dest # NoImage
        BY <1>1, <2>1, <3>1 DEF PackInv
      <4> QED BY <2>2, <3>1, <4>1, ImageStays DEF Gens, NoGen
    <3>2. CASE dir # "package"
      <4>1. dir = "none"
        BY <2>2, <3>2, DirChanges DEF LocalInv
      <4> QED BY <1>1, <2>1, <4>1 DEF PackInv
    <3> QED BY <3>1, <3>2
  <2> QED BY <1>1, <2>1, <2>2
<1>2. ASSUME NEW c \in Committers, PackCopy(c)
      PROVE  /\ dest' = packing'[d].image
             /\ packing'[d].gen \in Gens
             /\ dir' = "package" => sealed'[packing'[d].gen] = dest'
  <2>1. CASE c = d
    BY <1>2, <2>1, PackCopied DEF LocalInv, LocalTypeOK
  <2>2. CASE c # d
    BY <1>2, <2>2, PackCopied DEF LocalInv, LocalTypeOK, PackInv
  <2> QED BY <2>1, <2>2
<1> QED BY <1>1, <1>2, PackChanges

LEMMA DestChanges ==
  ASSUME LocalNext
  PROVE  dest' = dest \/ \E c \in Committers : PackCopy(c)
BY DEF LocalNext, Probe, CreatePackage, CreateRefused, CreateDies, DryRun, IngestPart, Publish,
   PublishStep, PackBegin, PackFails, PackRemove, PackKeep, CrashOf, Vanished,
   OpenPackage, localVars

(* What pack() leaves at dst is the generation it began with, a package is
   removed only by the pack() that has copied that generation out of it, and
   the copy is never written again. *)
THEOREM RemovedAlwaysPacked ==
  ASSUME WriteOnceCrate
  PROVE  LocalSpec => RemovedOnlyPacked
<1> DEFINE Copied ==
             dest' # dest =>
               \E c \in Committers : /\ packing[c].image = NoImage /\ packing'[c].image = dest'
                                     /\ dest' = sealed[packing[c].gen]
           Removed ==
             dir' = "removed" /\ dir # "removed" =>
               \E c \in Committers : /\ packing[c].remove /\ packing'[c] = NoPack
                                     /\ dest # NoImage /\ dest = sealed[packing[c].gen]
           Kept == dest # NoImage => dest' = dest
<1>1. LocalInit => PackInv
  BY DEF LocalInit, PackInv, NoPack
<1>2. LocalInv /\ PackInv /\ [LocalNext]_<<vars, localVars>> => PackInv'
  <2>1. CASE UNCHANGED <<vars, localVars>>
    BY <2>1 DEF vars, localVars, PackInv
  <2> QED BY <2>1, PackStep
<1>3. ASSUME LocalInv, LocalNext PROVE Copied /\ Kept
  BY <1>3, DestChanges, PackCopied DEF LocalInv, LocalTypeOK
<1>4. ASSUME LocalInv, PackInv, LocalNext PROVE Removed
  <2> SUFFICES ASSUME dir' = "removed", dir # "removed"
               PROVE  \E c \in Committers : /\ packing[c].remove /\ packing'[c] = NoPack
                                            /\ dest # NoImage /\ dest = sealed[packing[c].gen]
    OBVIOUS
  <2> PICK c \in Committers : PackRemove(c)
    BY <1>4, DirChanges DEF LocalInv
  <2>1. packing'[c] = NoPack /\ packing[c].remove /\ packing[c].image # NoImage /\ dir = "package"
    BY <1>4 DEF PackRemove, PackReturn, MayRemove, LocalInv, LocalTypeOK
  <2> QED BY <1>4, <2>1 DEF PackInv
<1>5. LocalInv /\ PackInv /\ [LocalNext]_<<vars, localVars>> =>
        [Copied /\ Removed /\ Kept]_<<vars, localVars>>
  BY <1>3, <1>4
<1> QED BY LocalInitInv, LocalStepInv, <1>1, <1>2, <1>5, PTL DEF LocalSpec, RemovedOnlyPacked

-----------------------------------------------------------------------------
(* No fork *)

LocalForkInv ==
  /\ NoFork
  /\ dir = "package" => ForkInv

LEMMA LocalForkStep ==
  ASSUME LocalInv, LocalForkInv, LocalNext, WriteOnceCrate
  PROVE  LocalForkInv'
<1>1. CASE dir = "package" /\ dir' = "package"
  <2>1. Inv /\ ForkInv
    BY <1>1 DEF LocalInv, LocalForkInv
  <2>2. CASE [Next]_vars
    BY <2>1, <2>2, ForkStep, LocalAssumption DEF LocalForkInv, ForkInv
  <2>3. ASSUME NEW c \in Committers, GiveUp(c) PROVE ForkInv'
    <3> c \in Clients
      BY DEF Clients
    <3> QED BY <2>1, <2>3 DEF GiveUp, Return, ForkInv, NoFork, Inv, TypeOK
  <2> QED BY <1>1, <2>2, <2>3, StepOfStore DEF LocalForkInv, ForkInv
<1>2. CASE dir # "package" /\ dir' = "package"
  <2> PICK c \in Committers : CreatePackage(c)
    BY <1>2, DirChanges DEF LocalInv
  <2>1. acked' = {} /\ \A d \in Clients : pc'[d] = "idle"
    BY <1>2 DEF CreatePackage, LocalInv, LocalTypeOK, Untouched
  <2> QED BY <2>1 DEF LocalForkInv, ForkInv, NoFork
<1>3. CASE dir' # "package"
  <2>1. acked' = acked
    <3>1. CASE dir = "package"
      BY <1>3, <3>1, DirChanges DEF LocalInv, PackRemove
    <3>2. CASE dir = "removed"
      BY <3>2, RemovedStep DEF LocalInv
    <3>3. CASE dir \in {"none", "bare"}
      BY <1>3, <3>3, DirChanges, NoPackageStep DEF LocalInv, vars
    <3> QED BY <3>1, <3>2, <3>3 DEF LocalInv, LocalTypeOK
  <2> QED BY <1>3, <2>1 DEF LocalForkInv, NoFork
<1> QED BY <1>1, <1>2, <1>3

(* In a .tet.d too two publishes that returned a generation never built on
   the same CURRENT: not with dry runs and refused schemas in between, and
   not when the package is removed under them. *)
THEOREM LocalNeverForks ==
  ASSUME WriteOnceCrate
  PROVE  LocalSpec => []NoFork
<1>1. LocalInit => LocalForkInv
  BY DEF LocalInit, Init, LocalForkInv, NoFork
<1>2. LocalInv /\ LocalForkInv /\ [LocalNext]_<<vars, localVars>> => LocalForkInv'
  <2>1. CASE UNCHANGED <<vars, localVars>>
    BY <2>1 DEF vars, localVars, LocalForkInv, ForkInv, NoFork
  <2> QED BY <2>1, LocalForkStep
<1>3. LocalForkInv => NoFork
  BY DEF LocalForkInv
<1> QED BY LocalInitInv, LocalStepInv, <1>1, <1>2, <1>3, PTL DEF LocalSpec
=============================================================================
