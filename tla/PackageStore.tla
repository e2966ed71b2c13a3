---------------------------- MODULE PackageStore ----------------------------
(***************************************************************************)
(* The store-backed package: native/src/lib.rs, store_* and open_* and the *)
(* MemoryStore / S3Store classes of python/tet/package.py.                 *)
(*                                                                         *)
(* Writers stage parts, committers seal a generation from staged parts and *)
(* move CURRENT to it by a conditional put, readers pin a generation and   *)
(* read its packed.tet.  A call on an S3Store releases the GIL and talks   *)
(* to the bucket several times, so the calls of different clients          *)
(* interleave between any two requests; a MemoryStore call keeps the GIL.  *)
(*                                                                         *)
(* Of the tetration crate only what this repository's docs promise is      *)
(* assumed: a claim publishing/<G> per generation, a part id is staged     *)
(* once, parts with differing bytes for a dataset do not merge, CURRENT    *)
(* moves only when it still holds the expected value.  Where nothing is    *)
(* promised the model has both outcomes (MayReseal, Prunes).               *)
(***************************************************************************)
EXTENDS Naturals, FiniteSets

CONSTANTS
  Committers, \* processes or threads that ingest and publish
  Readers,    \* processes or threads that open and read
  Parts,      \* staging part ids
  Tets,       \* the sealed .tet files a client may ingest
  Claim,      \* Claim[t]: the dataset that file t claims
  MaxGen,     \* bound: the largest generation id
  MaxAcked,   \* bound: no publish() starts once that many were acknowledged
  Explicit,   \* generation ids callers pass as generation=...
  Direct,     \* callers also use seal() and cas_publish()
  MayReseal,  \* the crate may replace a sealed generation's packed.tet
  Prunes,     \* `tet gc` runs beside the clients
  HoldsGil,   \* a MemoryStore: one call at a time
  NoTet, NoClient, Dead

Clients == Committers \cup Readers
Gens    == 1 .. MaxGen
NoGen   == 0          \* CURRENT is unset
NoImage == {}

(* A packed.tet stands for the parts merged into it, with their bytes. *)
Images == SUBSET (Parts \X Tets)

ASSUME ConstantsAssumption ==
  /\ MaxGen \in Nat \ {0} /\ MaxAcked \in Nat
  /\ Explicit \subseteq Gens
  /\ Direct \in BOOLEAN /\ MayReseal \in BOOLEAN
  /\ Prunes \in BOOLEAN /\ HoldsGil \in BOOLEAN
  /\ NoTet \notin Tets
  /\ NoClient \notin Clients /\ Dead \notin Clients /\ NoClient # Dead

VARIABLES
  staged,   \* staging/: part id -> bytes
  sealed,   \* generations/<g>/packed.tet
  current,  \* CURRENT
  claim,    \* publishing/<g>: who holds it
  pc,       \* where each client's call is
  call,     \* the local variables of that call
  handle,   \* the TetFile a client holds
  acked     \* history: the publish() calls that returned a generation

vars == <<staged, sealed, current, claim, pc, call, handle, acked>>
store == <<staged, sealed, current, claim>>

Ops == {"none", "publish", "seal", "open", "query"}
Labels == {"idle", "begun", "claimed", "sealed", "pinned", "located",
           "planned"}

CallType == [op: Ops, gen: Gens \cup {NoGen}, parts: SUBSET Parts,
             expected: Gens \cup {NoGen}, image: Images]
HandleType == [kind: {"closed", "copy", "range"},
               gen: Gens \cup {NoGen}, image: Images]

NoCall == [op |-> "none", gen |-> NoGen, parts |-> {},
           expected |-> NoGen, image |-> NoImage]
Closed == [kind |-> "closed", gen |-> NoGen, image |-> NoImage]

(* TypeOK: every variable has its type, a held claim names a client or a
   client that died holding it, and a client outside a call keeps no locals
   of the last one. *)
TypeOK ==
  /\ staged \in [Parts -> Tets \cup {NoTet}]
  /\ sealed \in [Gens -> Images]
  /\ current \in Gens \cup {NoGen}
  /\ claim \in [Gens -> Clients \cup {NoClient, Dead}]
  /\ pc \in [Clients -> Labels]
  /\ call \in [Clients -> CallType]
  /\ handle \in [Clients -> HandleType]
  /\ \A c \in Clients : pc[c] = "idle" <=> call[c] = NoCall
  /\ acked \subseteq [client: Clients, gen: Gens, base: Gens \cup {NoGen},
                      image: Images]

-----------------------------------------------------------------------------
(* A native call of a MemoryStore runs to its end before another starts. *)
MayRunDetached(c) == TRUE     \* a slip: py.detach around the call
MayRun(c) == HoldsGil => \A d \in Clients \ {c} : pc[d] = "idle"

(* A slip: the call's locals outlive it. *)
ReturnKeepingCall(c) ==
  /\ pc' = [pc EXCEPT ![c] = "idle"]
  /\ UNCHANGED call

Return(c) ==
  /\ pc' = [pc EXCEPT ![c] = "idle"]
  /\ call' = [call EXCEPT ![c] = NoCall]

(* MemoryStore() and S3Store.connect start from an empty prefix, and
   MemoryStore.from_package from a copy of one package's CURRENT. *)
Seeded(g, img) ==
  /\ sealed = [h \in Gens |-> IF h = g THEN img ELSE NoImage]
  /\ current = g

Init ==
  /\ staged = [p \in Parts |-> NoTet]
  /\ \/ Seeded(NoGen, NoImage)
     \/ HoldsGil /\ \E g \in Gens, p \in Parts, t \in Tets :
                      Seeded(g, {<<p, t>>})
  /\ claim = [g \in Gens |-> NoClient]
  /\ pc = [c \in Clients |-> "idle"]
  /\ call = [c \in Clients |-> NoCall]
  /\ handle = [c \in Clients |-> Closed]
  /\ acked = {}

-----------------------------------------------------------------------------
(* Writers *)

(* ingest(): the bytes go under a part id that is not taken; a part id that
   collides raises and changes nothing. *)
Ingest(c, p, t) ==
  /\ pc[c] = "idle" /\ MayRun(c)
  /\ staged[p] = NoTet
  /\ staged' = [staged EXCEPT ![p] = t]
  /\ UNCHANGED <<sealed, current, claim, pc, call, handle, acked>>

-----------------------------------------------------------------------------
(* Committers *)

NextGeneration == current + 1

(* The first step of publish(): pick the generation.  With generation=None
   that is a read of CURRENT that no later step looks at again. *)
PublishBegin(c, ps, g) ==
  /\ pc[c] = "idle" /\ MayRun(c)
  /\ Cardinality(acked) < MaxAcked
  /\ g = NextGeneration \/ g \in Explicit
  /\ pc' = [pc EXCEPT ![c] = "begun"]
  /\ call' = [call EXCEPT ![c] = [NoCall EXCEPT !.op = "publish",
                                                !.gen = g, !.parts = ps]]
  /\ UNCHANGED <<store, handle, acked>>

SealBegin(c, ps, g) ==
  /\ Direct /\ g \in Explicit
  /\ pc[c] = "idle" /\ MayRun(c)
  /\ pc' = [pc EXCEPT ![c] = "begun"]
  /\ call' = [call EXCEPT ![c] = [NoCall EXCEPT !.op = "seal",
                                                !.gen = g, !.parts = ps]]
  /\ UNCHANGED <<store, handle, acked>>

(* The publish claim of the generation; publish() reads under it what CURRENT
   has to be still when it is moved. *)
TakeClaim(c) ==
  /\ pc[c] = "begun" /\ MayRun(c)
  /\ claim[call[c].gen] = NoClient
  /\ claim' = [claim EXCEPT ![call[c].gen] = c]
  /\ call' = [call EXCEPT ![c].expected = IF call[c].op = "publish" THEN current ELSE NoGen]
  /\ pc' = [pc EXCEPT ![c] = "claimed"]
  /\ UNCHANGED <<staged, sealed, current, handle, acked>>

ClaimHeld(c) ==
  /\ pc[c] = "begun" /\ MayRun(c)
  /\ claim[call[c].gen] # NoClient
  /\ Return(c)
  /\ UNCHANGED <<store, handle, acked>>

Merged(ps) == {<<p, staged[p]>> : p \in ps}

(* No part is missing, and where two claim a dataset their bytes agree. *)
Mergeable(ps) ==
  /\ \A p \in ps : staged[p] # NoTet
  /\ \A p, q \in ps : Claim[staged[p]] = Claim[staged[q]] => staged[p] = staged[q]

MaySealAgain(g) == TRUE     \* a slip: nobody asks whether it is sealed
MaySeal(g) == sealed[g] = NoImage \/ MayReseal

WriteGeneration(c) ==
  /\ pc[c] = "claimed" /\ MayRun(c)
  /\ Mergeable(call[c].parts)
  /\ MaySeal(call[c].gen)
  /\ sealed' = [sealed EXCEPT ![call[c].gen] = Merged(call[c].parts)]
  /\ call' = [call EXCEPT ![c].image = Merged(call[c].parts)]
  /\ pc' = [pc EXCEPT ![c] = "sealed"]
  /\ UNCHANGED <<staged, current, claim, handle, acked>>

(* Missing parts, overlapping claims, or a generation that is sealed. *)
SealRefused(c) ==
  /\ pc[c] = "claimed" /\ MayRun(c)
  /\ ~Mergeable(call[c].parts) \/ sealed[call[c].gen] # NoImage
  /\ claim' = [claim EXCEPT ![call[c].gen] = NoClient]
  /\ Return(c)
  /\ UNCHANGED <<staged, sealed, current, handle, acked>>

CasIgnored(expected) == TRUE     \* a slip: an unconditional put
CasHolds(expected) == current = expected

(* A slip: the generation is read again instead of passed on. *)
FlipToNext(c) ==
  /\ pc[c] = "sealed" /\ call[c].op = "publish" /\ MayRun(c)
  /\ CasHolds(call[c].expected)
  /\ current' = NextGeneration
  /\ acked' = acked \cup {[client |-> c, gen |-> call[c].gen,
                           base |-> call[c].expected, image |-> call[c].image]}
  /\ claim' = [claim EXCEPT ![call[c].gen] = NoClient]
  /\ Return(c)
  /\ UNCHANGED <<staged, sealed, handle>>

(* The last step of publish(): CURRENT moves if it still holds what it held
   under the claim, and the caller gets the generation id. *)
Flip(c) ==
  /\ pc[c] = "sealed" /\ call[c].op = "publish" /\ MayRun(c)
  /\ CasHolds(call[c].expected)
  /\ current' = call[c].gen
  /\ acked' = acked \cup {[client |-> c, gen |-> call[c].gen,
                           base |-> call[c].expected, image |-> call[c].image]}
  /\ claim' = [claim EXCEPT ![call[c].gen] = NoClient]
  /\ Return(c)
  /\ UNCHANGED <<staged, sealed, handle>>

(* Or raises, and the generation stays sealed without being CURRENT. *)
FlipLost(c) ==
  /\ pc[c] = "sealed" /\ call[c].op = "publish" /\ MayRun(c)
  /\ ~CasHolds(call[c].expected)
  /\ claim' = [claim EXCEPT ![call[c].gen] = NoClient]
  /\ Return(c)
  /\ UNCHANGED <<staged, sealed, current, handle, acked>>

SealReturn(c) ==
  /\ pc[c] = "sealed" /\ call[c].op = "seal" /\ MayRun(c)
  /\ claim' = [claim EXCEPT ![call[c].gen] = NoClient]
  /\ Return(c)
  /\ UNCHANGED <<staged, sealed, current, handle, acked>>

(* cas_publish() of any generation id, one request.  This code does not ask
   whether the generation is there, and the crate promises no more than the
   comparison. *)
CasPublish(c, g, expected) ==
  /\ Direct
  /\ pc[c] = "idle" /\ MayRun(c)
  /\ CasHolds(expected)
  /\ current' = g
  /\ UNCHANGED <<staged, sealed, claim, pc, call, handle, acked>>

-----------------------------------------------------------------------------
(* Readers *)

(* open("current") and open("g/<id>"): the pin is resolved once.  An unset
   CURRENT and a missing generation raise. *)
PinOf(g) == g # NoGen /\ sealed[g] # NoImage

OpenPin(c, g) ==
  /\ pc[c] = "idle" /\ handle[c] = Closed /\ MayRun(c)
  /\ g = current \/ g \in Explicit
  /\ PinOf(g)
  /\ pc' = [pc EXCEPT ![c] = "pinned"]
  /\ call' = [call EXCEPT ![c] = [NoCall EXCEPT !.op = "open", !.gen = g]]
  /\ UNCHANGED <<store, handle, acked>>

(* A slip: CURRENT is resolved a second time for the read. *)
CurrentObject(c) == IF current = NoGen THEN NoImage ELSE sealed[current]
PinnedObject(c) == sealed[call[c].gen]

(* read_all copies the pinned object into a temp file the handle owns. *)
OpenRead(c) ==
  /\ pc[c] = "pinned" /\ MayRun(c)
  /\ PinnedObject(c) # NoImage
  /\ handle' = [handle EXCEPT ![c] = [kind |-> "copy", gen |-> call[c].gen,
                                      image |-> PinnedObject(c)]]
  /\ Return(c)
  /\ UNCHANGED <<store, acked>>

OpenFails(c) ==
  /\ pc[c] = "pinned" /\ MayRun(c)
  /\ PinnedObject(c) = NoImage
  /\ Return(c)
  /\ UNCHANGED <<store, handle, acked>>

(* tet.open("s3://..."): only the pin (object key and length) is kept. *)
OpenRemote(c, g) ==
  /\ ~HoldsGil
  /\ pc[c] = "idle" /\ handle[c] = Closed
  /\ g = current \/ g \in Explicit
  /\ PinOf(g)
  /\ handle' = [handle EXCEPT ![c] = [kind |-> "range", gen |-> g,
                                      image |-> sealed[g]]]
  /\ UNCHANGED <<store, pc, call, acked>>

(* A selection on such a handle takes three rounds of requests: the
   superblock tells where the catalog is, the plan is made from the catalog,
   and the planned ranges are fetched.  call.image is what the last round
   was answered from. *)
FetchSuperblock(c) ==
  /\ pc[c] = "idle" /\ handle[c].kind = "range"
  /\ sealed[handle[c].gen] # NoImage
  /\ pc' = [pc EXCEPT ![c] = "located"]
  /\ call' = [call EXCEPT ![c] = [NoCall EXCEPT !.op = "query",
                !.gen = handle[c].gen, !.image = sealed[handle[c].gen]]]
  /\ UNCHANGED <<store, handle, acked>>

FetchCatalog(c) ==
  /\ pc[c] = "located"
  /\ PinnedObject(c) # NoImage
  /\ pc' = [pc EXCEPT ![c] = "planned"]
  /\ call' = [call EXCEPT ![c].image = PinnedObject(c)]
  /\ UNCHANGED <<store, handle, acked>>

FetchRanges(c) ==
  /\ pc[c] = "planned"
  /\ PinnedObject(c) # NoImage
  /\ Return(c)
  /\ UNCHANGED <<store, handle, acked>>

FetchFails(c) ==
  /\ pc[c] \in {"located", "planned"}
  /\ PinnedObject(c) = NoImage
  /\ Return(c)
  /\ UNCHANGED <<store, handle, acked>>

Close(c) ==
  /\ pc[c] = "idle" /\ handle[c] # Closed
  /\ handle' = [handle EXCEPT ![c] = Closed]
  /\ UNCHANGED <<store, pc, call, acked>>

-----------------------------------------------------------------------------
(* The world around them *)

(* `tet gc` removes a generation below CURRENT that nobody is publishing. *)
Prune(g) ==
  /\ Prunes
  /\ g < current /\ claim[g] = NoClient /\ sealed[g] # NoImage
  /\ sealed' = [sealed EXCEPT ![g] = NoImage]
  /\ UNCHANGED <<staged, current, claim, pc, call, handle, acked>>

(* A client of a bucket dies inside a call and a new process takes its
   place; what it wrote stays, the claim it held too. *)
Crash(c) ==
  /\ ~HoldsGil
  /\ pc[c] # "idle"
  /\ claim' = [g \in Gens |-> IF claim[g] = c THEN Dead ELSE claim[g]]
  /\ handle' = [handle EXCEPT ![c] = Closed]
  /\ Return(c)
  /\ UNCHANGED <<staged, sealed, current, acked>>

-----------------------------------------------------------------------------
WriterStep(c) == \E p \in Parts, t \in Tets : Ingest(c, p, t)

CommitterStep(c) ==
  \/ \E ps \in (SUBSET Parts) \ {{}}, g \in Gens :
       PublishBegin(c, ps, g) \/ SealBegin(c, ps, g)
  \/ TakeClaim(c) \/ ClaimHeld(c)
  \/ WriteGeneration(c) \/ SealRefused(c)
  \/ Flip(c) \/ FlipLost(c) \/ SealReturn(c)
  \/ \E g \in Gens, e \in Gens \cup {NoGen} : CasPublish(c, g, e)

ReaderStep(c) ==
  \/ \E g \in Gens : OpenPin(c, g) \/ OpenRemote(c, g)
  \/ OpenRead(c) \/ OpenFails(c)
  \/ FetchSuperblock(c) \/ FetchCatalog(c) \/ FetchRanges(c) \/ FetchFails(c)
  \/ Close(c)

Next ==
  \/ \E c \in Committers : WriterStep(c) \/ CommitterStep(c)
  \/ \E c \in Readers : ReaderStep(c)
  \/ \E c \in Clients : Crash(c)
  \/ \E g \in Gens : Prune(g)

Spec == Init /\ [][Next]_vars

-----------------------------------------------------------------------------
(* Properties *)

Dangling == current # NoGen /\ sealed[current] = NoImage

(* CURRENT comes to name a generation without a packed.tet by a cas_publish()
   of that generation and by nothing else: not by publish(), whose seal
   precedes its flip while the claim keeps the generation from gc and from
   other committers, not by gc, and not by whoever crashes or loses the
   conditional put, whatever the crate does about resealing. *)
OnlyCasDangles ==
  [][Dangling' =>
       \/ Dangling /\ current' = current
       \/ \E c \in Committers, g \in Gens, e \in Gens \cup {NoGen} :
            CasPublish(c, g, e)]_vars

(* A publish() that returned keeps its bytes: what the caller was told is
   generation g is what generation g still holds.  Two committers that both
   read the same CURRENT in next_store_generation are the hazard. *)
AckedDurable == \A a \in acked : sealed[a.gen] = a.image

(* No fork: two publish() calls that were both acknowledged never built on
   the same CURRENT. *)
NoFork == \A a, b \in acked : a.base = b.base => a = b

(* A range-read selection is made of one object: whatever round it is in, the
   bytes it was answered from (superblock, then catalog) and those it is
   about to be answered from (catalog, then payload) are those of the image
   that was pinned when the handle was opened. *)
SelectionWhole ==
  \A c \in Clients :
    pc[c] \in {"located", "planned"} /\ PinnedObject(c) # NoImage =>
      call[c].image = handle[c].image /\ PinnedObject(c) = handle[c].image

(* With generation ids left to the library CURRENT only moves forward, one
   generation at a time. *)
CurrentAdvances == [][current' # current => current' = current + 1]_vars

(* An open handle is never retargeted, and the bytes a handle gets are those
   of the generation it reports. *)
HandlePinned ==
  [][\A c \in Clients :
       \/ handle'[c] = handle[c]
       \/ handle[c] = Closed /\ handle'[c].image = sealed[handle'[c].gen]
       \/ handle'[c] = Closed]_vars

(* The store implements the promise of GenerationLog, as long as the crate
   neither replaces nor removes a sealed generation: the pinned bytes of an
   open handle are the reader's view, and the bases of the acknowledged
   publishes are the generations somebody built on. *)
NoView == Closed
Promise == INSTANCE GenerationLog WITH
  Readers <- Clients,
  log <- sealed,
  head <- current,
  built <- {a.base : a \in acked},
  view <- [c \in Clients |->
             IF handle[c] = Closed THEN NoView
             ELSE [gen |-> handle[c].gen, image |-> handle[c].image]]

KeepsPromise == Promise!LogSpec
=============================================================================
