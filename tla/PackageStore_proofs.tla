------------------------- MODULE PackageStore_proofs -------------------------
(***************************************************************************)
(* What is proved of PackageStore for every set of clients, parts and      *)
(* files, every bound, and every value of the crate's unknowns; then, from *)
(* "Who changes what" on, when the crate writes a generation once.         *)
(***************************************************************************)
EXTENDS PackageStore, TLAPS

-----------------------------------------------------------------------------
(* The inductive invariant *)

(* What a client inside a call knows.  A committer holds the claim of its
   generation from TakeClaim to the end of the call, so that nobody writes
   that generation between its seal and its flip; and the generation it
   sealed holds what it wrote. *)
CallInv(c) ==
  /\ pc[c] \in {"begun", "claimed", "sealed"} =>
       /\ call[c].op \in {"publish", "seal"}
       /\ call[c].gen \in Gens
       /\ call[c].parts # {}
  /\ pc[c] \in {"claimed", "sealed"} => claim[call[c].gen] = c
  /\ pc[c] = "sealed" =>
       /\ call[c].image # NoImage
       /\ sealed[call[c].gen] = call[c].image
  /\ pc[c] = "pinned" => call[c].op = "open" /\ call[c].gen \in Gens
  /\ pc[c] \in {"located", "planned"} => call[c].op = "query" /\ call[c].gen \in Gens
  /\ handle[c].kind # "closed" => handle[c].gen \in Gens

CallsInv == \A c \in Clients : CallInv(c)

(* CURRENT names a generation that is there, as long as nobody moves it by
   hand. *)
CurrentSealed == Direct \/ (current # NoGen => sealed[current] # NoImage)

Inv == TypeOK /\ CallsInv /\ CurrentSealed

-----------------------------------------------------------------------------
(* Lemmas about the operators *)

(* A merge of parts that are all staged is an image, and not the empty one. *)
LEMMA MergedIsImage ==
  ASSUME TypeOK, NEW ps \in SUBSET Parts, ps # {}, Mergeable(ps)
  PROVE  Merged(ps) \in Images /\ Merged(ps) # NoImage
<1>1. \A p \in ps : <<p, staged[p]>> \in Parts \X Tets
  BY DEF TypeOK, Mergeable
<1>2. PICK p \in ps : TRUE
  OBVIOUS
<1>3. <<p, staged[p]>> \in Merged(ps)
  BY DEF Merged
<1>4. Merged(ps) \subseteq Parts \X Tets
  BY <1>1 DEF Merged
<1> QED BY <1>3, <1>4 DEF Images, NoImage

(* Leaving a call keeps the types of pc and call. *)
LEMMA ReturnType ==
  ASSUME TypeOK, NEW c \in Clients, Return(c)
  PROVE  /\ pc' \in [Clients -> Labels] /\ call' \in [Clients -> CallType]
         /\ \A d \in Clients : pc'[d] = "idle" <=> call'[d] = NoCall
BY DEF TypeOK, Return, Labels, CallType, NoCall, Ops, Images, NoImage, Gens, NoGen

LEMMA InitInv == Init => Inv
<1> SUFFICES ASSUME Init PROVE Inv
  OBVIOUS
<1>1. TypeOK
  BY ConstantsAssumption DEF Init, TypeOK, Seeded, Images, NoImage, NoCall, CallType, Ops,
     HandleType, Closed, Labels, Gens, NoGen
<1>2. CallsInv
  BY DEF Init, CallsInv, CallInv, Closed
<1>3. CurrentSealed
  BY <1>1 DEF Init, TypeOK, CurrentSealed, Seeded, NoImage, NoGen, Gens
<1> QED BY <1>1, <1>2, <1>3 DEF Inv

-----------------------------------------------------------------------------
(* Every action preserves the invariant.  What an action does not touch is
   in its UNCHANGED, so only the parts it writes are argued about. *)

LEMMA IngestInv ==
  ASSUME Inv, NEW c \in Committers, NEW p \in Parts, NEW t \in Tets, Ingest(c, p, t)
  PROVE  Inv'
<1>1. TypeOK'
  BY DEF Inv, TypeOK, Ingest
<1>2. CallsInv' /\ CurrentSealed'
  BY DEF Inv, Ingest, CallsInv, CallInv, CurrentSealed
<1> QED BY <1>1, <1>2 DEF Inv

LEMMA BeginInv ==
  ASSUME Inv, NEW c \in Committers, NEW ps \in (SUBSET Parts) \ {{}}, NEW g \in Gens,
         PublishBegin(c, ps, g) \/ SealBegin(c, ps, g)
  PROVE  Inv'
<1> c \in Clients
  BY DEF Clients
<1> PICK op \in {"publish", "seal"} :
      call' = [call EXCEPT ![c] = [NoCall EXCEPT !.op = op, !.gen = g, !.parts = ps]]
  BY DEF PublishBegin, SealBegin
<1> DEFINE new == [NoCall EXCEPT !.op = op, !.gen = g, !.parts = ps]
<1>1. /\ new \in CallType /\ new # NoCall
      /\ new.op = op /\ new.gen = g /\ new.parts = ps
  BY DEF NoCall, CallType, Ops, Images, NoImage, NoGen
<1> HIDE DEF new
<1>2. /\ pc' = [pc EXCEPT ![c] = "begun"] /\ call' = [call EXCEPT ![c] = new]
      /\ UNCHANGED <<store, handle, acked>>
  BY DEF PublishBegin, SealBegin, new
<1>3. TypeOK'
  BY <1>1, <1>2 DEF Inv, TypeOK, store, Labels
<1>4. CallsInv'
  <2> SUFFICES ASSUME NEW d \in Clients PROVE CallInv(d)'
    BY DEF CallsInv
  <2>1. CASE d = c
    BY <2>1, <1>1, <1>2 DEF Inv, TypeOK, CallsInv, CallInv, store
  <2>2. CASE d # c
    BY <2>2, <1>2 DEF Inv, TypeOK, CallsInv, CallInv, store
  <2> QED BY <2>1, <2>2
<1>5. CurrentSealed'
  BY <1>2 DEF Inv, CurrentSealed, store
<1> QED BY <1>3, <1>4, <1>5 DEF Inv

LEMMA TakeClaimInv ==
  ASSUME Inv, NEW c \in Committers, TakeClaim(c)
  PROVE  Inv'
<1> c \in Clients
  BY DEF Clients
<1>1. /\ call[c].op \in {"publish", "seal"} /\ call[c].gen \in Gens
      /\ call[c] \in CallType /\ current \in Gens \cup {NoGen}
  BY DEF Inv, TypeOK, TakeClaim, CallsInv, CallInv
<1> DEFINE seen == IF call[c].op = "publish" THEN current ELSE NoGen
<1>2. /\ call'[c] \in CallType /\ call'[c] # NoCall
      /\ call'[c] = [call[c] EXCEPT !.expected = seen]
  BY <1>1 DEF Inv, TypeOK, TakeClaim, CallType, NoCall
<1>3. TypeOK'
  BY <1>1, <1>2 DEF Inv, TypeOK, TakeClaim, Labels
<1>4. CallsInv'
  <2> SUFFICES ASSUME NEW d \in Clients PROVE CallInv(d)'
    BY DEF CallsInv
  <2>1. CASE d = c
    BY <2>1, <1>1, <1>2 DEF Inv, TypeOK, TakeClaim, CallsInv, CallInv, CallType
  <2>2. CASE d # c
    BY <2>2, <1>1, ConstantsAssumption DEF Inv, TypeOK, TakeClaim, CallsInv, CallInv
  <2> QED BY <2>1, <2>2
<1>5. CurrentSealed'
  BY DEF Inv, TakeClaim, CurrentSealed
<1> QED BY <1>3, <1>4, <1>5 DEF Inv

(* The ends of a call that give the claim back and move nothing else. *)
LEMMA ReleaseInv ==
  ASSUME Inv, NEW c \in Clients, Return(c), UNCHANGED <<staged, sealed, current, handle, acked>>,
         \/ UNCHANGED claim
         \/ /\ pc[c] \in {"claimed", "sealed"}
            /\ claim' = [claim EXCEPT ![call[c].gen] = NoClient]
  PROVE  Inv'
<1>1. TypeOK'
  BY ReturnType DEF Inv, TypeOK
<1>2. CallsInv'
  <2> SUFFICES ASSUME NEW d \in Clients PROVE CallInv(d)'
    BY DEF CallsInv
  <2>1. CASE d = c
    BY <2>1 DEF Inv, TypeOK, CallsInv, CallInv, Return
  <2>2. CASE d # c
    <3>1. CallInv(d) /\ CallInv(c) /\ pc'[d] = pc[d] /\ call'[d] = call[d]
      BY <2>2 DEF Inv, TypeOK, CallsInv, Return
    <3>2. pc[d] \in {"claimed", "sealed"} => claim'[call[d].gen] = d
      BY <2>2, <3>1 DEF CallInv, Inv, TypeOK
    <3> QED BY <3>1, <3>2 DEF CallInv
  <2> QED BY <2>1, <2>2
<1>3. CurrentSealed'
  BY DEF Inv, CurrentSealed
<1> QED BY <1>1, <1>2, <1>3 DEF Inv

(* No other committer holds the generation that this one writes, so nobody's
   sealed image changes. *)
LEMMA WriteGenerationInv ==
  ASSUME Inv, NEW c \in Committers, WriteGeneration(c)
  PROVE  Inv'
<1> c \in Clients
  BY DEF Clients
<1> DEFINE img == Merged(call[c].parts)
<1>1. /\ call[c].op \in {"publish", "seal"} /\ call[c].gen \in Gens
      /\ call[c] \in CallType /\ claim[call[c].gen] = c /\ call[c].parts # {}
  BY DEF Inv, TypeOK, WriteGeneration, CallsInv, CallInv
<1>2. img \in Images /\ img # NoImage
  BY <1>1, MergedIsImage DEF Inv, WriteGeneration, CallType
<1> HIDE DEF img
<1>3. /\ pc' = [pc EXCEPT ![c] = "sealed"]
      /\ sealed' = [sealed EXCEPT ![call[c].gen] = img]
      /\ call' = [call EXCEPT ![c].image = img]
      /\ UNCHANGED <<staged, current, claim, handle, acked>>
  BY DEF WriteGeneration, img
<1>4. call'[c] \in CallType /\ call'[c] # NoCall /\ call'[c] = [call[c] EXCEPT !.image = img]
  BY <1>1, <1>2, <1>3 DEF Inv, TypeOK, CallType, NoCall
<1>5. TypeOK'
  BY <1>1, <1>2, <1>3, <1>4 DEF Inv, TypeOK, Labels
<1>6. CallsInv'
  <2> SUFFICES ASSUME NEW d \in Clients PROVE CallInv(d)'
    BY DEF CallsInv
  <2>1. CASE d = c
    BY <2>1, <1>1, <1>2, <1>3, <1>4 DEF Inv, TypeOK, CallsInv, CallInv, CallType
  <2>2. CASE d # c
    <3>1. CallInv(d) /\ pc'[d] = pc[d] /\ call'[d] = call[d]
      BY <2>2, <1>3 DEF Inv, TypeOK, CallsInv
    <3>2. pc[d] = "sealed" => sealed'[call[d].gen] = sealed[call[d].gen]
      BY <2>2, <3>1, <1>1, <1>3 DEF CallInv, Inv, TypeOK
    <3> QED BY <3>1, <3>2, <1>3 DEF CallInv
  <2> QED BY <2>1, <2>2
<1>7. CurrentSealed'
  BY <1>1, <1>2, <1>3 DEF Inv, TypeOK, CurrentSealed
<1> QED BY <1>5, <1>6, <1>7 DEF Inv

(* CURRENT moves to a generation that the publisher sealed under its claim. *)
LEMMA FlipInv ==
  ASSUME Inv, NEW c \in Committers, Flip(c)
  PROVE  Inv'
<1> c \in Clients
  BY DEF Clients
<1>1. /\ call[c].gen \in Gens /\ call[c] \in CallType
      /\ sealed[call[c].gen] = call[c].image /\ call[c].image # NoImage
  BY DEF Inv, TypeOK, Flip, CallsInv, CallInv
<1>2. TypeOK'
  <2>1. [client |-> c, gen |-> call[c].gen, base |-> call[c].expected, image |-> call[c].image]
           \in [client: Clients, gen: Gens, base: Gens \cup {NoGen}, image: Images]
    BY <1>1 DEF CallType
  <2> QED BY <1>1, <2>1, ReturnType DEF Inv, TypeOK, Flip
<1>3. CallsInv'
  <2> SUFFICES ASSUME NEW d \in Clients PROVE CallInv(d)'
    BY DEF CallsInv
  <2>1. CASE d = c
    BY <2>1 DEF Inv, TypeOK, CallsInv, CallInv, Return, Flip
  <2>2. CASE d # c
    <3>1. CallInv(d) /\ CallInv(c) /\ pc'[d] = pc[d] /\ call'[d] = call[d]
      BY <2>2 DEF Inv, TypeOK, CallsInv, Return, Flip
    <3>2. pc[d] \in {"claimed", "sealed"} => claim'[call[d].gen] = d
      BY <2>2, <3>1 DEF CallInv, Inv, TypeOK, Flip
    <3> QED BY <3>1, <3>2 DEF CallInv, Flip
  <2> QED BY <2>1, <2>2
<1>4. CurrentSealed'
  BY <1>1 DEF Flip, CurrentSealed
<1> QED BY <1>2, <1>3, <1>4 DEF Inv

LEMMA CasPublishInv ==
  ASSUME Inv, NEW c \in Committers, NEW g \in Gens, NEW e \in Gens \cup {NoGen},
         CasPublish(c, g, e)
  PROVE  Inv'
<1>1. TypeOK' /\ CurrentSealed'
  BY DEF Inv, TypeOK, CasPublish, CurrentSealed
<1>2. CallsInv'
  BY DEF Inv, CallsInv, CallInv, CasPublish
<1> QED BY <1>1, <1>2 DEF Inv

LEMMA OpenPinInv ==
  ASSUME Inv, NEW c \in Readers, NEW g \in Gens, OpenPin(c, g)
  PROVE  Inv'
<1> c \in Clients
  BY DEF Clients
<1> DEFINE new == [NoCall EXCEPT !.op = "open", !.gen = g]
<1>1. new \in CallType /\ new # NoCall /\ new.op = "open" /\ new.gen = g
  BY DEF NoCall, CallType, Ops, Images, NoImage, NoGen
<1> HIDE DEF new
<1>2. /\ pc' = [pc EXCEPT ![c] = "pinned"] /\ call' = [call EXCEPT ![c] = new]
      /\ UNCHANGED <<store, handle, acked>>
  BY DEF OpenPin, new
<1>3. TypeOK'
  BY <1>1, <1>2 DEF Inv, TypeOK, store, Labels
<1>4. CallsInv'
  <2> SUFFICES ASSUME NEW d \in Clients PROVE CallInv(d)'
    BY DEF CallsInv
  <2>1. CASE d = c
    BY <2>1, <1>1, <1>2 DEF Inv, TypeOK, CallsInv, CallInv, store
  <2>2. CASE d # c
    BY <2>2, <1>2 DEF Inv, TypeOK, CallsInv, CallInv, store
  <2> QED BY <2>1, <2>2
<1>5. CurrentSealed'
  BY <1>2 DEF Inv, CurrentSealed, store
<1> QED BY <1>3, <1>4, <1>5 DEF Inv

LEMMA OpenReadInv ==
  ASSUME Inv, NEW c \in Readers, OpenRead(c)
  PROVE  Inv'
<1> c \in Clients
  BY DEF Clients
<1>1. call[c].gen \in Gens
  BY DEF Inv, CallsInv, CallInv, OpenRead
<1>2. TypeOK'
  <2>1. [kind |-> "copy", gen |-> call[c].gen, image |-> PinnedObject(c)] \in HandleType
    BY <1>1 DEF Inv, TypeOK, HandleType, PinnedObject
  <2> QED BY <2>1, ReturnType DEF Inv, TypeOK, OpenRead, store
<1>3. CallsInv'
  <2> SUFFICES ASSUME NEW d \in Clients PROVE CallInv(d)'
    BY DEF CallsInv
  <2>1. CASE d = c
    BY <2>1, <1>1 DEF Inv, TypeOK, CallInv, Return, OpenRead
  <2>2. CASE d # c
    BY <2>2 DEF Inv, TypeOK, CallsInv, CallInv, Return, OpenRead, store
  <2> QED BY <2>1, <2>2
<1>4. CurrentSealed'
  BY DEF Inv, CurrentSealed, OpenRead, store
<1> QED BY <1>2, <1>3, <1>4 DEF Inv

LEMMA OpenRemoteInv ==
  ASSUME Inv, NEW c \in Readers, NEW g \in Gens, OpenRemote(c, g)
  PROVE  Inv'
<1> c \in Clients
  BY DEF Clients
<1>1. [kind |-> "range", gen |-> g, image |-> sealed[g]] \in HandleType
  BY DEF Inv, TypeOK, HandleType
<1>2. TypeOK'
  BY <1>1 DEF Inv, TypeOK, OpenRemote, store
<1>3. CallsInv'
  <2> SUFFICES ASSUME NEW d \in Clients PROVE CallInv(d)'
    BY DEF CallsInv
  <2>1. CASE d = c
    BY <2>1 DEF Inv, TypeOK, CallInv, OpenRemote
  <2>2. CASE d # c
    BY <2>2 DEF Inv, TypeOK, CallsInv, CallInv, OpenRemote, store
  <2> QED BY <2>1, <2>2
<1>4. CurrentSealed'
  BY DEF Inv, CurrentSealed, OpenRemote, store
<1> QED BY <1>2, <1>3, <1>4 DEF Inv

LEMMA FetchSuperblockInv ==
  ASSUME Inv, NEW c \in Readers, FetchSuperblock(c)
  PROVE  Inv'
<1> c \in Clients
  BY DEF Clients
<1> DEFINE new == [NoCall EXCEPT !.op = "query", !.gen = handle[c].gen,
                                 !.image = sealed[handle[c].gen]]
<1>1. handle[c].gen \in Gens
  BY DEF Inv, CallsInv, CallInv, FetchSuperblock
<1>2. new \in CallType /\ new # NoCall /\ new.op = "query" /\ new.gen \in Gens
  BY <1>1 DEF Inv, TypeOK, NoCall, CallType, Ops, Images, NoImage, NoGen
<1> HIDE DEF new
<1>3. /\ pc' = [pc EXCEPT ![c] = "located"] /\ call' = [call EXCEPT ![c] = new]
      /\ UNCHANGED <<store, handle, acked>>
  BY DEF FetchSuperblock, new
<1>4. TypeOK'
  BY <1>2, <1>3 DEF Inv, TypeOK, store, Labels
<1>5. CallsInv'
  <2> SUFFICES ASSUME NEW d \in Clients PROVE CallInv(d)'
    BY DEF CallsInv
  <2>1. CASE d = c
    BY <2>1, <1>1, <1>2, <1>3 DEF Inv, TypeOK, CallsInv, CallInv, store
  <2>2. CASE d # c
    BY <2>2, <1>3 DEF Inv, TypeOK, CallsInv, CallInv, store
  <2> QED BY <2>1, <2>2
<1>6. CurrentSealed'
  BY <1>3 DEF Inv, CurrentSealed, store
<1> QED BY <1>4, <1>5, <1>6 DEF Inv

LEMMA FetchCatalogInv ==
  ASSUME Inv, NEW c \in Readers, FetchCatalog(c)
  PROVE  Inv'
<1> c \in Clients
  BY DEF Clients
<1>1. /\ call[c] \in CallType /\ call[c].op = "query" /\ call[c].gen \in Gens
      /\ PinnedObject(c) \in Images
  BY DEF Inv, TypeOK, CallsInv, CallInv, FetchCatalog, PinnedObject
<1>2. /\ call'[c] = [call[c] EXCEPT !.image = PinnedObject(c)]
      /\ call'[c] \in CallType /\ call'[c] # NoCall
      /\ call'[c].op = "query" /\ call'[c].gen = call[c].gen
  BY <1>1 DEF Inv, TypeOK, FetchCatalog, CallType, NoCall
<1>3. TypeOK'
  BY <1>1, <1>2 DEF Inv, TypeOK, FetchCatalog, store, Labels
<1>4. CallsInv'
  <2> SUFFICES ASSUME NEW d \in Clients PROVE CallInv(d)'
    BY DEF CallsInv
  <2>1. CASE d = c
    BY <2>1, <1>1, <1>2 DEF Inv, TypeOK, CallsInv, CallInv, FetchCatalog, store
  <2>2. CASE d # c
    BY <2>2 DEF Inv, TypeOK, CallsInv, CallInv, FetchCatalog, store
  <2> QED BY <2>1, <2>2
<1>5. CurrentSealed'
  BY DEF Inv, CurrentSealed, FetchCatalog, store
<1> QED BY <1>3, <1>4, <1>5 DEF Inv

LEMMA CloseInv ==
  ASSUME Inv, NEW c \in Readers, Close(c)
  PROVE  Inv'
<1> c \in Clients
  BY DEF Clients
<1>1. Closed \in HandleType /\ Closed.kind = "closed"
  BY DEF Closed, HandleType, NoGen, NoImage, Images
<1>2. TypeOK'
  BY <1>1 DEF Inv, TypeOK, Close, store
<1>3. CallsInv'
  BY <1>1 DEF Inv, TypeOK, CallsInv, CallInv, Close, store
<1>4. CurrentSealed'
  BY DEF Inv, CurrentSealed, Close, store
<1> QED BY <1>2, <1>3, <1>4 DEF Inv

(* gc takes no generation that is CURRENT, and none that has a claim. *)
LEMMA PruneInv ==
  ASSUME Inv, NEW g \in Gens, Prune(g)
  PROVE  Inv'
<1>1. TypeOK'
  BY DEF Inv, TypeOK, Prune, NoImage, Images
<1>2. CallsInv'
  <2> SUFFICES ASSUME NEW d \in Clients PROVE CallInv(d)'
    BY DEF CallsInv
  <2>1. CallInv(d)
    BY DEF Inv, CallsInv
  <2>2. pc[d] = "sealed" => call[d].gen # g
    BY <2>1, ConstantsAssumption DEF CallInv, Prune
  <2> QED BY <2>1, <2>2 DEF CallInv, Prune, Inv, TypeOK
<1>3. current # g
  BY DEF Prune, Inv, TypeOK, Gens, NoGen
<1>4. CurrentSealed'
  BY <1>3 DEF Inv, TypeOK, CurrentSealed, Prune
<1> QED BY <1>1, <1>2, <1>4 DEF Inv

LEMMA CrashInv ==
  ASSUME Inv, NEW c \in Clients, Crash(c)
  PROVE  Inv'
<1>1. Closed \in HandleType /\ Closed.kind = "closed"
  BY DEF Closed, HandleType, NoGen, NoImage, Images
<1>2. TypeOK'
  BY <1>1, ReturnType DEF Inv, TypeOK, Crash
<1>3. CallsInv'
  <2> SUFFICES ASSUME NEW d \in Clients PROVE CallInv(d)'
    BY DEF CallsInv
  <2>1. CASE d = c
    BY <2>1, <1>1 DEF Inv, TypeOK, CallInv, Return, Crash
  <2>2. CASE d # c
    <3>1. CallInv(d) /\ pc'[d] = pc[d] /\ call'[d] = call[d] /\ handle'[d] = handle[d]
      BY <2>2 DEF Inv, TypeOK, CallsInv, Return, Crash
    <3>2. pc[d] \in {"claimed", "sealed"} => claim'[call[d].gen] = d
      BY <2>2, <3>1 DEF CallInv, Inv, TypeOK, Crash
    <3> QED BY <3>1, <3>2 DEF CallInv, Crash
  <2> QED BY <2>1, <2>2
<1>4. CurrentSealed'
  BY DEF Inv, CurrentSealed, Crash
<1> QED BY <1>2, <1>3, <1>4 DEF Inv

LEMMA StepInv == Inv /\ [Next]_vars => Inv'
<1> SUFFICES ASSUME Inv, [Next]_vars PROVE Inv'
  OBVIOUS
<1>1. ASSUME NEW c \in Committers, WriterStep(c) PROVE Inv'
  BY <1>1, IngestInv DEF WriterStep
<1>2. ASSUME NEW c \in Committers, CommitterStep(c) PROVE Inv'
  <2> c \in Clients
    BY DEF Clients
  <2>1. CASE \E ps \in (SUBSET Parts) \ {{}}, g \in Gens :
               PublishBegin(c, ps, g) \/ SealBegin(c, ps, g)
    BY <2>1, BeginInv
  <2>2. CASE TakeClaim(c)
    BY <2>2, TakeClaimInv
  <2>3. CASE ClaimHeld(c)
    BY <2>3, ReleaseInv DEF ClaimHeld, store
  <2>4. CASE WriteGeneration(c)
    BY <2>4, WriteGenerationInv
  <2>5. CASE SealRefused(c)
    BY <2>5, ReleaseInv DEF SealRefused
  <2>6. CASE Flip(c)
    BY <2>6, FlipInv
  <2>7. CASE FlipLost(c)
    BY <2>7, ReleaseInv DEF FlipLost
  <2>8. CASE SealReturn(c)
    BY <2>8, ReleaseInv DEF SealReturn
  <2>9. CASE \E g \in Gens, e \in Gens \cup {NoGen} : CasPublish(c, g, e)
    BY <2>9, CasPublishInv
  <2> QED BY <1>2, <2>1, <2>2, <2>3, <2>4, <2>5, <2>6, <2>7, <2>8, <2>9 DEF CommitterStep
<1>3. ASSUME NEW c \in Readers, ReaderStep(c) PROVE Inv'
  <2> c \in Clients
    BY DEF Clients
  <2>1. CASE \E g \in Gens : OpenPin(c, g) \/ OpenRemote(c, g)
    BY <2>1, OpenPinInv, OpenRemoteInv
  <2>2. CASE OpenRead(c)
    BY <2>2, OpenReadInv
  <2>3. CASE OpenFails(c) \/ FetchRanges(c) \/ FetchFails(c)
    BY <2>3, ReleaseInv DEF OpenFails, FetchRanges, FetchFails, store
  <2>4. CASE FetchSuperblock(c) \/ FetchCatalog(c)
    BY <2>4, FetchSuperblockInv, FetchCatalogInv
  <2>5. CASE Close(c)
    BY <2>5, CloseInv
  <2> QED BY <1>3, <2>1, <2>2, <2>3, <2>4, <2>5 DEF ReaderStep
<1>4. ASSUME NEW c \in Clients, Crash(c) PROVE Inv'
  BY <1>4, CrashInv
<1>5. ASSUME NEW g \in Gens, Prune(g) PROVE Inv'
  BY <1>5, PruneInv
<1>6. CASE UNCHANGED vars
  BY <1>6 DEF vars, Inv, TypeOK, CallsInv, CallInv, CurrentSealed
<1> QED BY <1>1, <1>2, <1>3, <1>4, <1>5, <1>6 DEF Next

-----------------------------------------------------------------------------
(* Theorems *)

(* Every variable has its type, and no client outside a call keeps the
   locals of its last one. *)
THEOREM TypeCorrect == Spec => []TypeOK
<1>1. Inv => TypeOK
  BY DEF Inv
<1> QED BY InitInv, StepInv, <1>1, PTL DEF Spec

(* What a publish() flips to is there: the claim has kept what it sealed. *)
LEMMA FlipNamesSealed ==
  ASSUME Inv, NEW c \in Committers, Flip(c)
  PROVE  ~Dangling'
<1>1. /\ call[c].gen \in Gens /\ call[c].image # NoImage
      /\ sealed[call[c].gen] = call[c].image
  BY DEF Inv, CallsInv, CallInv, Flip, Clients
<1> QED BY <1>1 DEF Flip, Dangling

(* Only a cas_publish() of a generation that is not there makes CURRENT name
   one: publish() seals before it flips and holds the claim in between, so
   neither another committer, nor seal(), nor gc, nor a crash takes the
   packed.tet away under the flip, and gc never takes that of CURRENT. *)
THEOREM OnlyCasEverDangles == Spec => OnlyCasDangles
<1> DEFINE ByHand == \E c \in Committers, g \in Gens, e \in Gens \cup {NoGen} :
                       CasPublish(c, g, e)
           Kept == Dangling' => (Dangling /\ current' = current) \/ ByHand
<1>1. ASSUME Inv, [Next]_vars PROVE Kept
  <2>1. ASSUME UNCHANGED <<sealed, current>> PROVE Kept
    BY <2>1 DEF Dangling
  <2>2. ASSUME NEW c \in Committers, WriteGeneration(c) PROVE Kept
    <3>1. /\ call[c].gen \in Gens /\ call[c] \in CallType /\ call[c].parts # {}
          /\ sealed \in [Gens -> Images] /\ current' = current
      BY <1>1, <2>2 DEF Inv, TypeOK, CallsInv, CallInv, WriteGeneration, Clients
    <3>2. Merged(call[c].parts) # NoImage
      BY <1>1, <2>2, <3>1, MergedIsImage DEF Inv, WriteGeneration, CallType
    <3> QED BY <2>2, <3>1, <3>2 DEF WriteGeneration, Dangling
  <2>3. ASSUME NEW c \in Committers, WriterStep(c) \/ CommitterStep(c) PROVE Kept
    <3>1. CASE WriteGeneration(c)
      BY <3>1, <2>2
    <3>2. CASE Flip(c)
      BY <1>1, <3>2, FlipNamesSealed
    <3>3. CASE ByHand
      BY <3>3
    <3>4. CASE ~(WriteGeneration(c) \/ Flip(c) \/ ByHand)
      <4>1. UNCHANGED <<sealed, current>>
        BY <2>3, <3>4 DEF WriterStep, CommitterStep, Ingest, PublishBegin, SealBegin, TakeClaim,
           ClaimHeld, SealRefused, FlipLost, SealReturn, store
      <4> QED BY <4>1, <2>1
    <3> QED BY <3>1, <3>2, <3>3, <3>4
  <2>4. ASSUME NEW c \in Readers, ReaderStep(c) PROVE Kept
    <3>1. UNCHANGED <<sealed, current>>
      BY <2>4 DEF ReaderStep, OpenPin, OpenRead, OpenFails, OpenRemote, FetchSuperblock,
         FetchCatalog, FetchRanges, FetchFails, Close, store
    <3> QED BY <3>1, <2>1
  <2>5. ASSUME NEW g \in Gens, Prune(g) PROVE Kept
    <3>1. g # current /\ current' = current /\ sealed' = [sealed EXCEPT ![g] = NoImage]
      BY <1>1, <2>5 DEF Prune, Inv, TypeOK, Gens, NoGen
    <3>2. sealed'[current] = sealed[current]
      BY <1>1, <3>1 DEF Inv, TypeOK
    <3> QED BY <3>1, <3>2 DEF Dangling
  <2>6. ASSUME NEW c \in Clients, Crash(c) PROVE Kept
    BY <2>6, <2>1 DEF Crash
  <2> HIDE DEF Kept
  <2> QED BY <1>1, <2>1, <2>3, <2>4, <2>5, <2>6 DEF Next, vars
<1>2. Inv /\ [Next]_vars => [Kept]_vars
  BY <1>1
<1> QED BY InitInv, StepInv, <1>2, PTL DEF Spec, OnlyCasDangles

-----------------------------------------------------------------------------
(* What is proved when the crate neither replaces nor removes a sealed      *)
(* generation: the promises about the past.  The committers' own protocol   *)
(* (read CURRENT, claim, seal, conditional put) is enough for all of them,  *)
(* with clients that crash anywhere.                                        *)

WriteOnceCrate == ~MayReseal /\ ~Prunes

-----------------------------------------------------------------------------
(* Who changes what *)

LEMMA AckedChanges ==
  ASSUME [Next]_vars
  PROVE  acked' = acked \/ \E c \in Committers : Flip(c)
<1>1. ASSUME NEW c \in Committers, WriterStep(c) \/ CommitterStep(c)
      PROVE  acked' = acked \/ Flip(c)
  BY <1>1 DEF WriterStep, CommitterStep, Ingest, PublishBegin, SealBegin, TakeClaim, ClaimHeld,
     WriteGeneration, SealRefused, FlipLost, SealReturn, CasPublish
<1>2. ASSUME NEW c \in Readers, ReaderStep(c) PROVE acked' = acked
  BY <1>2 DEF ReaderStep, OpenPin, OpenRead, OpenFails, OpenRemote, FetchSuperblock, FetchCatalog, FetchRanges,
     FetchFails, Close
<1> QED BY <1>1, <1>2 DEF Next, Crash, Prune, vars

LEMMA CurrentChanges ==
  ASSUME [Next]_vars, ~Direct
  PROVE  current' = current \/ \E c \in Committers : Flip(c)
<1>1. ASSUME NEW c \in Committers, WriterStep(c) \/ CommitterStep(c)
      PROVE  current' = current \/ Flip(c)
  BY <1>1 DEF WriterStep, CommitterStep, Ingest, PublishBegin, SealBegin, TakeClaim, ClaimHeld,
     WriteGeneration, SealRefused, FlipLost, SealReturn, CasPublish, store
<1>2. ASSUME NEW c \in Readers, ReaderStep(c) PROVE current' = current
  BY <1>2 DEF ReaderStep, OpenPin, OpenRead, OpenFails, OpenRemote, FetchSuperblock, FetchCatalog, FetchRanges,
     FetchFails, Close, store
<1> QED BY <1>1, <1>2 DEF Next, Crash, Prune, vars

LEMMA SealedChanges ==
  ASSUME [Next]_vars, ~Prunes
  PROVE  sealed' = sealed \/ \E c \in Committers : WriteGeneration(c)
<1>1. ASSUME NEW c \in Committers, WriterStep(c) \/ CommitterStep(c)
      PROVE  sealed' = sealed \/ WriteGeneration(c)
  BY <1>1 DEF WriterStep, CommitterStep, Ingest, PublishBegin, SealBegin, TakeClaim, ClaimHeld,
     Flip, SealRefused, FlipLost, SealReturn, CasPublish, store
<1>2. ASSUME NEW c \in Readers, ReaderStep(c) PROVE sealed' = sealed
  BY <1>2 DEF ReaderStep, OpenPin, OpenRead, OpenFails, OpenRemote, FetchSuperblock, FetchCatalog, FetchRanges,
     FetchFails, Close, store
<1> QED BY <1>1, <1>2 DEF Next, Crash, Prune, vars

(* A sealed generation keeps its bytes. *)
LEMMA SealedOnce ==
  ASSUME Inv, [Next]_vars, WriteOnceCrate, NEW g \in Gens, sealed[g] # NoImage
  PROVE  sealed'[g] = sealed[g]
<1>1. ASSUME NEW c \in Committers, WriteGeneration(c) PROVE sealed'[g] = sealed[g]
  <2>1. call[c].gen # g
    BY <1>1 DEF WriteGeneration, MaySeal, WriteOnceCrate
  <2> QED BY <1>1, <2>1 DEF WriteGeneration, Inv, TypeOK
<1> QED BY <1>1, SealedChanges DEF WriteOnceCrate

-----------------------------------------------------------------------------
(* Acknowledged publishes are durable *)

AckedInv ==
  \A a \in acked : a.image # NoImage /\ sealed[a.gen] = a.image

LEMMA AckedStep ==
  ASSUME Inv, AckedInv, [Next]_vars, WriteOnceCrate
  PROVE  AckedInv'
<1>1. ASSUME NEW a \in acked PROVE a.image # NoImage /\ sealed'[a.gen] = a.image
  BY <1>1, SealedOnce DEF AckedInv, Inv, TypeOK
<1>2. ASSUME NEW c \in Committers, Flip(c) PROVE AckedInv'
  <2>1. pc[c] = "sealed" => sealed[call[c].gen] = call[c].image /\ call[c].image # NoImage
    BY DEF Inv, CallsInv, CallInv, Clients
  <2> QED BY <1>1, <1>2, <2>1 DEF Flip, AckedInv
<1> QED BY <1>1, <1>2, AckedChanges DEF AckedInv

(* A publish() that returned keeps its bytes, whatever other committers,
   readers and crashes do afterwards. *)
THEOREM AckedAlwaysDurable ==
  ASSUME WriteOnceCrate
  PROVE  Spec => []AckedDurable
<1>1. Init => AckedInv
  BY DEF Init, AckedInv
<1>2. Inv /\ AckedInv /\ [Next]_vars => AckedInv'
  BY AckedStep
<1>3. AckedInv => AckedDurable
  BY DEF AckedInv, AckedDurable
<1> QED BY InitInv, StepInv, <1>1, <1>2, <1>3, PTL DEF Spec

-----------------------------------------------------------------------------
(* A selection is made of one object *)

Fetching(c) == pc[c] \in {"located", "planned"}

(* A handle holds the bytes of its generation, and a query that is being
   fetched the generation and the bytes of its handle. *)
ReaderInv(c) ==
  /\ handle[c].kind # "closed" =>
       /\ handle[c].image # NoImage
       /\ sealed[handle[c].gen] = handle[c].image
  /\ Fetching(c) =>
       /\ handle[c].kind # "closed"
       /\ call[c].gen = handle[c].gen
       /\ call[c].image = handle[c].image

ReadersInv == \A c \in Clients : ReaderInv(c)

(* A client whose handle and call a step leaves alone. *)
LEMMA ReaderKept ==
  ASSUME Inv, [Next]_vars, WriteOnceCrate, NEW d \in Clients, ReaderInv(d),
         handle'[d] = handle[d],
         Fetching(d)' => Fetching(d) /\ call'[d] = call[d]
  PROVE  ReaderInv(d)'
<1>1. handle[d].kind # "closed" => handle[d].gen \in Gens
  BY DEF Inv, CallsInv, CallInv
<1> QED BY <1>1, SealedOnce DEF ReaderInv

LEMMA ReaderStepInv ==
  ASSUME Inv, ReadersInv, [Next]_vars, WriteOnceCrate, NEW d \in Clients
  PROVE  ReaderInv(d)'
<1> USE DEF Fetching
<1>1. ReaderInv(d)
  BY DEF ReadersInv
<1>2. ASSUME NEW c \in Committers, WriterStep(c) \/ CommitterStep(c)
      PROVE  /\ handle'[d] = handle[d]
             /\ Fetching(d)' => Fetching(d) /\ call'[d] = call[d]
  <2> c \in Clients
    BY DEF Clients
  <2>1. CASE WriterStep(c) \/ (\E g \in Gens, e \in Gens \cup {NoGen} : CasPublish(c, g, e))
    BY <2>1 DEF WriterStep, Ingest, CasPublish
  <2>2. CASE \E ps \in (SUBSET Parts) \ {{}}, g \in Gens :
               PublishBegin(c, ps, g) \/ SealBegin(c, ps, g)
    BY <2>2 DEF PublishBegin, SealBegin, Inv, TypeOK
  <2>3. CASE TakeClaim(c) \/ WriteGeneration(c)
    BY <2>3 DEF TakeClaim, WriteGeneration, Inv, TypeOK
  <2>4. CASE ClaimHeld(c) \/ SealRefused(c) \/ Flip(c) \/ FlipLost(c) \/ SealReturn(c)
    BY <2>4 DEF ClaimHeld, SealRefused, Flip, FlipLost, SealReturn, Return, Inv, TypeOK
  <2> QED BY <1>2, <2>1, <2>2, <2>3, <2>4 DEF CommitterStep
<1>3. ASSUME NEW c \in Readers, ReaderStep(c) PROVE ReaderInv(d)'
  <2> c \in Clients
    BY DEF Clients
  <2>1. CASE c # d
    <3>1. handle'[d] = handle[d] /\ pc'[d] = pc[d] /\ call'[d] = call[d]
      BY <1>3, <2>1 DEF ReaderStep, OpenPin, OpenRead, OpenFails, OpenRemote, FetchSuperblock, FetchCatalog,
         FetchRanges, FetchFails, Close, Return, Inv, TypeOK
    <3> QED BY <3>1, <1>1, ReaderKept
  <2>2. CASE c = d /\ (OpenFails(c) \/ FetchRanges(c) \/ FetchFails(c))
    <3>1. handle'[d] = handle[d] /\ ~Fetching(d)'
      BY <2>2 DEF OpenFails, FetchRanges, FetchFails, Return, Inv, TypeOK
    <3> QED BY <3>1, <1>1, ReaderKept
  <2>3. CASE c = d /\ OpenRead(c)
    BY <2>3 DEF OpenRead, Return, PinnedObject, ReaderInv, Inv, TypeOK, store
  <2>4. CASE c = d /\ \E g \in Gens : OpenPin(c, g) \/ OpenRemote(c, g)
    <3>1. CASE \E g \in Gens : OpenPin(c, g)
      <4>1. handle'[d] = handle[d] /\ ~Fetching(d)'
        BY <2>4, <3>1 DEF OpenPin, Inv, TypeOK
      <4> QED BY <4>1, <1>1, ReaderKept
    <3>2. CASE \E g \in Gens : OpenRemote(c, g)
      BY <2>4, <3>2 DEF OpenRemote, PinOf, ReaderInv, Inv, TypeOK, store
    <3> QED BY <2>4, <3>1, <3>2
  <2>5. CASE c = d /\ FetchSuperblock(c)
    BY <2>5, <1>1 DEF FetchSuperblock, ReaderInv, Fetching, NoCall, Inv, TypeOK, store
  <2>7. CASE c = d /\ FetchCatalog(c)
    <3>1. /\ call'[d].image = sealed[call[d].gen] /\ call'[d].gen = call[d].gen
          /\ handle' = handle /\ sealed' = sealed
      BY <2>7 DEF FetchCatalog, PinnedObject, store, Inv, TypeOK, CallType
    <3>2. Fetching(d)
      BY <2>7 DEF FetchCatalog, Fetching
    <3> QED BY <3>1, <3>2, <1>1 DEF ReaderInv
  <2>6. CASE c = d /\ Close(c)
    BY <2>6, <1>1 DEF Close, Closed, ReaderInv, Inv, TypeOK
  <2> QED BY <1>3, <2>1, <2>2, <2>3, <2>4, <2>5, <2>6, <2>7 DEF ReaderStep
<1>4. ASSUME NEW c \in Clients, Crash(c) PROVE ReaderInv(d)'
  <2>1. CASE c = d
    BY <1>4, <2>1 DEF Crash, Closed, Return, ReaderInv, Inv, TypeOK
  <2>2. CASE c # d
    <3>1. handle'[d] = handle[d] /\ pc'[d] = pc[d] /\ call'[d] = call[d]
      BY <1>4, <2>2 DEF Crash, Return, Inv, TypeOK
    <3> QED BY <3>1, <1>1, ReaderKept
  <2> QED BY <2>1, <2>2
<1>5. CASE UNCHANGED vars
  BY <1>1, <1>5 DEF vars, ReaderInv
<1> QED BY <1>1, <1>2, <1>3, <1>4, <1>5, ReaderKept DEF Next, WriteOnceCrate, Prune

(* The catalog and the payload of a range-read selection are those of the
   image that was pinned at open, whatever is published in between. *)
THEOREM SelectionAlwaysWhole ==
  ASSUME WriteOnceCrate
  PROVE  Spec => []SelectionWhole
<1>1. Init => ReadersInv
  BY DEF Init, ReadersInv, ReaderInv, Fetching, Closed
<1>2. Inv /\ ReadersInv /\ [Next]_vars => ReadersInv'
  BY ReaderStepInv DEF ReadersInv
<1>3. ReadersInv => SelectionWhole
  BY DEF ReadersInv, ReaderInv, Fetching, SelectionWhole, PinnedObject
<1> QED BY InitInv, StepInv, <1>1, <1>2, <1>3, PTL DEF Spec

-----------------------------------------------------------------------------
(* No fork *)

(* CURRENT has left every base for good, because a generation that was
   CURRENT is sealed and a sealed generation is never sealed again; so the
   generation about to become CURRENT is not a base either. *)
ForkInv ==
  /\ \A a \in acked :
       /\ a.base # current
       /\ a.base # NoGen => sealed[a.base] # NoImage
  /\ \A c \in Clients : pc[c] = "sealed" =>
       /\ call[c].op = "publish"
       /\ call[c].gen # current
       /\ \A a \in acked : a.base # call[c].gen
  /\ \A c \in Clients : pc[c] \in {"begun", "claimed"} => call[c].op = "publish"
  /\ NoFork

LEMMA ForkStep ==
  ASSUME Inv, ForkInv, [Next]_vars, WriteOnceCrate, ~Direct
  PROVE  ForkInv'
<1>1. ASSUME NEW c \in Committers, Flip(c) PROVE ForkInv'
  <2> c \in Clients
    BY DEF Clients
  <2> DEFINE new == [client |-> c, gen |-> call[c].gen, base |-> call[c].expected,
                     image |-> call[c].image]
  <2>1. /\ acked' = acked \cup {new} /\ new.base = current
        /\ current' = call[c].gen /\ current' # current /\ call[c].gen \in Gens
        /\ sealed' = sealed /\ claim[call[c].gen] = c
        /\ \A a \in acked : a.base # call[c].gen
    BY <1>1 DEF Flip, CasHolds, ForkInv, Inv, CallsInv, CallInv
  <2> HIDE DEF new
  <2>2. \A a \in acked' : a.base # current' /\ (a.base # NoGen => sealed'[a.base] # NoImage)
    BY <2>1 DEF ForkInv, Inv, CurrentSealed
  <2>3. ASSUME NEW d \in Clients, pc'[d] = "sealed"
        PROVE  /\ call'[d].op = "publish" /\ call'[d].gen # current'
               /\ \A a \in acked' : a.base # call'[d].gen
    <3>1. d # c /\ pc[d] = "sealed" /\ call'[d] = call[d]
      BY <1>1, <2>3 DEF Flip, Return, Inv, TypeOK
    <3>2. claim[call[d].gen] = d
      BY <3>1 DEF Inv, CallsInv, CallInv
    <3> QED BY <2>1, <3>1, <3>2 DEF ForkInv
  <2>4. \A d \in Clients : pc'[d] \in {"begun", "claimed"} => call'[d].op = "publish"
    BY <1>1 DEF Flip, Return, ForkInv, Inv, TypeOK
  <2>5. NoFork'
    BY <2>1 DEF ForkInv, NoFork
  <2> QED BY <2>2, <2>3, <2>4, <2>5 DEF ForkInv
<1>2. ASSUME NEW c \in Committers, WriteGeneration(c) PROVE ForkInv'
  <2> c \in Clients
    BY DEF Clients
  <2> DEFINE g == call[c].gen
  <2>1. /\ sealed[g] = NoImage /\ g \in Gens /\ g # NoGen /\ call[c].op = "publish"
        /\ call[c] \in CallType
        /\ acked' = acked /\ current' = current
    BY <1>2 DEF WriteGeneration, MaySeal, WriteOnceCrate, ForkInv, Inv, TypeOK, CallsInv, CallInv,
       Gens, NoGen
  <2>2. g # current /\ \A a \in acked : a.base # g
    BY <2>1 DEF ForkInv, Inv, CurrentSealed
  <2>3. \A a \in acked : a.base # NoGen => sealed'[a.base] # NoImage
    <3> SUFFICES ASSUME NEW a \in acked, a.base # NoGen PROVE sealed'[a.base] # NoImage
      OBVIOUS
    <3>1. a.base \in Gens /\ sealed[a.base] # NoImage
      BY DEF Inv, TypeOK, ForkInv
    <3> QED BY <3>1, SealedOnce
  <2>4. ASSUME NEW d \in Clients
        PROVE  call'[d].op = call[d].op /\ call'[d].gen = call[d].gen
               /\ (d # c => pc'[d] = pc[d]) /\ pc'[c] = "sealed"
    BY <1>2 DEF WriteGeneration, Inv, TypeOK, CallType
  <2> QED BY <2>1, <2>2, <2>3, <2>4 DEF ForkInv, NoFork
<1>3. ASSUME acked' = acked, current' = current, sealed' = sealed,
             \A d \in Clients :
               /\ pc'[d] = "sealed" => pc[d] = "sealed" /\ call'[d].gen = call[d].gen
                                       /\ call'[d].op = call[d].op
               /\ pc'[d] \in {"begun", "claimed"} => call'[d].op = "publish"
      PROVE  ForkInv'
  BY <1>3 DEF ForkInv, NoFork
<1>4. ASSUME NEW c \in Committers, WriterStep(c) \/ CommitterStep(c) PROVE ForkInv'
  <2> c \in Clients
    BY DEF Clients
  <2>1. CASE WriterStep(c)
    BY <2>1, <1>3 DEF WriterStep, Ingest, ForkInv
  <2>2. CASE \E ps \in (SUBSET Parts) \ {{}}, g \in Gens : PublishBegin(c, ps, g)
    BY <2>2, <1>3 DEF PublishBegin, store, ForkInv, Inv, TypeOK, NoCall
  <2>3. CASE TakeClaim(c)
    BY <2>3, <1>3 DEF TakeClaim, ForkInv, Inv, TypeOK, CallType
  <2>4. CASE ClaimHeld(c) \/ SealRefused(c) \/ FlipLost(c) \/ SealReturn(c)
    BY <2>4, <1>3 DEF ClaimHeld, SealRefused, FlipLost, SealReturn, Return, store, ForkInv, Inv, TypeOK
  <2> QED BY <1>1, <1>2, <1>4, <2>1, <2>2, <2>3, <2>4 DEF CommitterStep, SealBegin, CasPublish
<1>5. ASSUME NEW c \in Readers, ReaderStep(c) PROVE ForkInv'
  <2> c \in Clients
    BY DEF Clients
  <2>1. CASE \E g \in Gens : OpenPin(c, g) \/ OpenRemote(c, g)
    BY <2>1, <1>3 DEF OpenPin, OpenRemote, store, ForkInv, Inv, TypeOK
  <2>2. CASE OpenRead(c) \/ OpenFails(c) \/ FetchRanges(c) \/ FetchFails(c)
    BY <2>2, <1>3 DEF OpenRead, OpenFails, FetchRanges, FetchFails, Return, store, ForkInv, Inv, TypeOK
  <2>3. CASE FetchSuperblock(c) \/ FetchCatalog(c) \/ Close(c)
    BY <2>3, <1>3 DEF FetchSuperblock, FetchCatalog, Close, store, ForkInv, Inv, TypeOK
  <2> QED BY <1>5, <2>1, <2>2, <2>3 DEF ReaderStep
<1>6. ASSUME NEW c \in Clients, Crash(c) PROVE ForkInv'
  BY <1>6, <1>3 DEF Crash, Return, ForkInv, Inv, TypeOK
<1>7. CASE UNCHANGED vars
  BY <1>7, <1>3 DEF vars, ForkInv
<1> QED BY <1>4, <1>5, <1>6, <1>7 DEF Next, WriteOnceCrate, Prune

(* Two publish() calls that both returned never built on the same CURRENT,
   whatever generation ids the callers asked for. *)
THEOREM NeverForks ==
  ASSUME WriteOnceCrate, ~Direct
  PROVE  Spec => []NoFork
<1>1. Init => ForkInv
  BY DEF Init, ForkInv, NoFork
<1>2. Inv /\ ForkInv /\ [Next]_vars => ForkInv'
  BY ForkStep
<1>3. ForkInv => NoFork
  BY DEF ForkInv
<1> QED BY InitInv, StepInv, <1>1, <1>2, <1>3, PTL DEF Spec

-----------------------------------------------------------------------------
(* CURRENT advances by one *)

(* A publish() that read an old CURRENT in next_store_generation finds its
   generation sealed; one that could still seal is one ahead of CURRENT. *)
AdvanceInv ==
  \A c \in Clients :
    /\ pc[c] \in {"begun", "claimed"} =>
         /\ call[c].gen =< current + 1
         /\ call[c].gen =< current => sealed[call[c].gen] # NoImage
    /\ pc[c] = "sealed" => call[c].gen = current + 1

LeftToTheLibrary == Explicit = {} /\ ~Direct

LEMMA AdvanceStep ==
  ASSUME Inv, AdvanceInv, [Next]_vars, WriteOnceCrate, LeftToTheLibrary
  PROVE  AdvanceInv' /\ (current' # current => current' = current + 1)
<1> DEFINE Advances == current' # current => current' = current + 1
<1> current \in Nat /\ \A c \in Clients : pc[c] \in {"begun", "claimed", "sealed"} =>
      call[c].gen \in Gens /\ call[c].gen \in Nat
  BY DEF Inv, TypeOK, CallsInv, CallInv, Gens, NoGen
<1>1. ASSUME NEW c \in Committers, Flip(c) PROVE AdvanceInv' /\ Advances
  <2> c \in Clients
    BY DEF Clients
  <2>1. /\ current' = call[c].gen /\ current' = current + 1 /\ sealed' = sealed
        /\ claim[call[c].gen] = c /\ sealed[call[c].gen] # NoImage
    BY <1>1 DEF Flip, AdvanceInv, Inv, CallsInv, CallInv
  <2>2. ASSUME NEW d \in Clients, d # c
        PROVE  pc'[d] = pc[d] /\ call'[d] = call[d]
    BY <1>1, <2>2 DEF Flip, Return, Inv, TypeOK
  <2>3. pc'[c] = "idle"
    BY <1>1 DEF Flip, Return, Inv, TypeOK
  <2>4. ASSUME NEW d \in Clients, pc'[d] \in {"begun", "claimed"}
        PROVE  /\ call'[d].gen =< current' + 1
               /\ call'[d].gen =< current' => sealed'[call'[d].gen] # NoImage
    <3>1. d # c /\ pc[d] = pc'[d] /\ call'[d] = call[d]
      BY <2>2, <2>3, <2>4
    <3>2. /\ call[d].gen =< current + 1
          /\ call[d].gen =< current => sealed[call[d].gen] # NoImage
      BY <3>1, <2>4 DEF AdvanceInv
    <3>3. call[d].gen \in Nat
      BY <3>1, <2>4
    <3>4. CASE call[d].gen =< current
      BY <3>1, <3>2, <3>3, <3>4, <2>1
    <3>5. CASE call[d].gen = current + 1
      BY <3>1, <3>5, <2>1
    <3> QED BY <3>2, <3>3, <3>4, <3>5
  <2>5. ASSUME NEW d \in Clients, pc'[d] = "sealed" PROVE FALSE
    <3>1. d # c /\ pc[d] = "sealed"
      BY <2>2, <2>3, <2>5
    <3>2. claim[call[d].gen] = d /\ call[d].gen = current + 1
      BY <3>1 DEF Inv, CallsInv, CallInv, AdvanceInv
    <3> QED BY <3>1, <3>2, <2>1
  <2> QED BY <2>1, <2>4, <2>5 DEF AdvanceInv
<1>2. ASSUME NEW c \in Committers, WriteGeneration(c) PROVE AdvanceInv' /\ Advances
  <2> c \in Clients
    BY DEF Clients
  <2>1. pc[c] = "claimed" /\ sealed[call[c].gen] = NoImage /\ current' = current
    BY <1>2 DEF WriteGeneration, MaySeal, WriteOnceCrate
  <2>2. call[c].gen = current + 1
    BY <2>1 DEF AdvanceInv
  <2>3. pc'[c] = "sealed" /\ call'[c].gen = call[c].gen
    BY <1>2 DEF WriteGeneration, Inv, TypeOK, CallType
  <2>4. ASSUME NEW d \in Clients, d # c PROVE pc'[d] = pc[d] /\ call'[d] = call[d]
    BY <1>2, <2>4 DEF WriteGeneration, Inv, TypeOK
  <2> QED BY <2>1, <2>2, <2>3, <2>4, SealedOnce DEF AdvanceInv
<1>3. ASSUME current' = current, sealed' = sealed,
             \A d \in Clients :
               /\ pc'[d] = "sealed" => pc[d] = "sealed" /\ call'[d].gen = call[d].gen
               /\ pc'[d] \in {"begun", "claimed"} =>
                    \/ pc[d] \in {"begun", "claimed"} /\ call'[d].gen = call[d].gen
                    \/ call'[d].gen = current + 1
      PROVE  AdvanceInv' /\ Advances
  BY <1>3 DEF AdvanceInv
<1>4. ASSUME NEW c \in Committers, WriterStep(c) \/ CommitterStep(c)
      PROVE  AdvanceInv' /\ Advances
  <2> c \in Clients
    BY DEF Clients
  <2>1. CASE WriterStep(c)
    BY <2>1, <1>3 DEF WriterStep, Ingest
  <2>2. CASE \E ps \in (SUBSET Parts) \ {{}}, g \in Gens : PublishBegin(c, ps, g)
    <3> PICK ps \in (SUBSET Parts) \ {{}}, g \in Gens : PublishBegin(c, ps, g)
      BY <2>2
    <3>1. /\ current' = current /\ sealed' = sealed
          /\ pc' = [pc EXCEPT ![c] = "begun"]
          /\ call'[c].gen = current + 1
          /\ \A d \in Clients : d # c => call'[d] = call[d]
      BY DEF PublishBegin, LeftToTheLibrary, NextGeneration, NoCall, store, Inv, TypeOK
    <3> QED BY <3>1, <1>3 DEF Inv, TypeOK
  <2>3. CASE TakeClaim(c)
    BY <2>3, <1>3 DEF TakeClaim, Inv, TypeOK, CallType
  <2>4. CASE ClaimHeld(c) \/ SealRefused(c) \/ FlipLost(c) \/ SealReturn(c)
    BY <2>4, <1>3 DEF ClaimHeld, SealRefused, FlipLost, SealReturn, Return, store, Inv, TypeOK
  <2> QED BY <1>1, <1>2, <1>4, <2>1, <2>2, <2>3, <2>4
          DEF CommitterStep, SealBegin, CasPublish, LeftToTheLibrary
<1>5. ASSUME NEW c \in Readers, ReaderStep(c) PROVE AdvanceInv' /\ Advances
  <2> c \in Clients
    BY DEF Clients
  <2>1. CASE \E g \in Gens : OpenPin(c, g) \/ OpenRemote(c, g)
    BY <2>1, <1>3 DEF OpenPin, OpenRemote, store, Inv, TypeOK
  <2>2. CASE OpenRead(c) \/ OpenFails(c) \/ FetchRanges(c) \/ FetchFails(c)
    BY <2>2, <1>3 DEF OpenRead, OpenFails, FetchRanges, FetchFails, Return, store, Inv, TypeOK
  <2>3. CASE FetchSuperblock(c) \/ FetchCatalog(c) \/ Close(c)
    BY <2>3, <1>3 DEF FetchSuperblock, FetchCatalog, Close, store, Inv, TypeOK
  <2> QED BY <1>5, <2>1, <2>2, <2>3 DEF ReaderStep
<1>6. ASSUME NEW c \in Clients, Crash(c) PROVE AdvanceInv' /\ Advances
  BY <1>6, <1>3 DEF Crash, Return, Inv, TypeOK
<1>7. CASE UNCHANGED vars
  BY <1>7, <1>3 DEF vars
<1> QED BY <1>4, <1>5, <1>6, <1>7 DEF Next, WriteOnceCrate, Prune

(* With generation ids left to the library, CURRENT only ever moves to the
   next generation. *)
THEOREM CurrentAlwaysAdvances ==
  ASSUME WriteOnceCrate, LeftToTheLibrary
  PROVE  Spec => CurrentAdvances
<1>1. Init => AdvanceInv
  BY DEF Init, AdvanceInv
<1>2. Inv /\ AdvanceInv /\ [Next]_vars => AdvanceInv' /\ [current' # current => current' = current + 1]_vars
  BY AdvanceStep
<1> QED BY InitInv, StepInv, <1>1, <1>2, PTL DEF Spec, CurrentAdvances

-----------------------------------------------------------------------------
(* The store implements GenerationLog *)

OpeningInv == \A c \in Clients : pc[c] = "pinned" => handle[c] = Closed

LEMMA OpeningStep ==
  ASSUME Inv, OpeningInv, [Next]_vars
  PROVE  OpeningInv'
<1>1. ASSUME NEW c \in Committers, WriterStep(c) \/ CommitterStep(c) PROVE OpeningInv'
  <2> c \in Clients
    BY DEF Clients
  <2>1. CASE WriterStep(c) \/ (\E g \in Gens, e \in Gens \cup {NoGen} : CasPublish(c, g, e))
    BY <2>1 DEF WriterStep, Ingest, CasPublish, OpeningInv
  <2>2. CASE \E ps \in (SUBSET Parts) \ {{}}, g \in Gens :
               PublishBegin(c, ps, g) \/ SealBegin(c, ps, g)
    BY <2>2 DEF PublishBegin, SealBegin, OpeningInv, Inv, TypeOK
  <2>3. CASE TakeClaim(c) \/ WriteGeneration(c)
    BY <2>3 DEF TakeClaim, WriteGeneration, OpeningInv, Inv, TypeOK
  <2>4. CASE ClaimHeld(c) \/ SealRefused(c) \/ Flip(c) \/ FlipLost(c) \/ SealReturn(c)
    BY <2>4 DEF ClaimHeld, SealRefused, Flip, FlipLost, SealReturn, Return, OpeningInv, Inv, TypeOK
  <2> QED BY <1>1, <2>1, <2>2, <2>3, <2>4 DEF CommitterStep
<1>2. ASSUME NEW c \in Readers, ReaderStep(c) PROVE OpeningInv'
  <2> c \in Clients
    BY DEF Clients
  <2>1. CASE \E g \in Gens : OpenPin(c, g) \/ OpenRemote(c, g)
    BY <2>1 DEF OpenPin, OpenRemote, OpeningInv, Inv, TypeOK
  <2>2. CASE OpenRead(c) \/ OpenFails(c) \/ FetchRanges(c) \/ FetchFails(c)
    BY <2>2 DEF OpenRead, OpenFails, FetchRanges, FetchFails, Return, OpeningInv, Inv, TypeOK
  <2>3. CASE FetchSuperblock(c) \/ FetchCatalog(c) \/ Close(c)
    BY <2>3 DEF FetchSuperblock, FetchCatalog, Close, OpeningInv, Inv, TypeOK
  <2> QED BY <1>2, <2>1, <2>2, <2>3 DEF ReaderStep
<1>3. ASSUME NEW c \in Clients, Crash(c) PROVE OpeningInv'
  BY <1>3 DEF Crash, Return, OpeningInv, Inv, TypeOK
<1> QED BY <1>1, <1>2, <1>3 DEF Next, Prune, OpeningInv, vars

Bases == {a.base : a \in acked}
View(c) == IF handle[c] = Closed THEN NoView
           ELSE [gen |-> handle[c].gen, image |-> handle[c].image]
Views == [c \in Clients |-> View(c)]

LEMMA PromiseInit == Init => Promise!LogInit
<1> SUFFICES ASSUME Init PROVE Promise!LogInit
  OBVIOUS
<1>1. Inv
  BY InitInv
<1>2. current # NoGen => sealed[current] # NoImage
  BY <1>1 DEF Init, Seeded, NoImage, Inv, TypeOK
<1>3. sealed \in [Gens -> Images] /\ current \in Gens \cup {NoGen}
  BY <1>1 DEF Inv, TypeOK
<1>4. Bases = {}
  BY DEF Init, Bases
<1>5. Views = [c \in Clients |-> NoView]
  BY DEF Init, Views, View
<1> QED BY <1>2, <1>3, <1>4, <1>5 DEF Promise!LogInit, Bases, Views, View

LEMMA PromiseStep ==
  ASSUME Inv, OpeningInv, ReadersInv, ForkInv, [Next]_vars, WriteOnceCrate, ~Direct
  PROVE  [Promise!LogNext]_(Promise!logvars)
<1>1. ASSUME UNCHANGED <<sealed, current, acked, handle>>
      PROVE  UNCHANGED Promise!logvars
  BY <1>1 DEF Promise!logvars
<1>2. ASSUME NEW c \in Committers, WriteGeneration(c) PROVE Promise!LogNext
  <2> c \in Clients
    BY DEF Clients
  <2>1. call[c].gen \in Gens /\ sealed[call[c].gen] = NoImage
    BY <1>2 DEF WriteGeneration, MaySeal, WriteOnceCrate, Inv, CallsInv, CallInv
  <2>2. Merged(call[c].parts) \in Images
    <3>1. call[c].parts \in SUBSET Parts /\ call[c].parts # {}
      BY <1>2 DEF WriteGeneration, Inv, TypeOK, CallsInv, CallInv, CallType
    <3> QED BY <3>1, <1>2, MergedIsImage DEF WriteGeneration, Inv
  <2>3. Promise!WriteOnce(call[c].gen, Merged(call[c].parts))
    BY <1>2, <2>1 DEF Promise!WriteOnce, WriteGeneration
  <2> QED BY <2>1, <2>2, <2>3 DEF Promise!LogNext
<1>3. ASSUME NEW c \in Committers, Flip(c) PROVE Promise!LogNext
  <2> c \in Clients
    BY DEF Clients
  <2> DEFINE new == [client |-> c, gen |-> call[c].gen, base |-> call[c].expected,
                     image |-> call[c].image]
  <2>1. call[c].gen \in Gens /\ sealed[call[c].gen] # NoImage
    BY <1>3 DEF Flip, Inv, CallsInv, CallInv
  <2>2. new.base = current /\ acked' = acked \cup {new} /\ current' = call[c].gen
        /\ UNCHANGED <<sealed, handle>>
    BY <1>3 DEF Flip, CasHolds
  <2> HIDE DEF new
  <2>3. current \notin Bases /\ Bases' = Bases \cup {current}
    BY <2>2 DEF ForkInv, Bases
  <2>4. \E g \in Gens : Promise!Advance(g)
    BY <2>1, <2>2, <2>3 DEF Promise!Advance, Bases
  <2> QED BY <2>4 DEF Promise!LogNext
<1>4. ASSUME NEW c \in Committers, WriterStep(c) \/ CommitterStep(c)
      PROVE  [Promise!LogNext]_(Promise!logvars)
  <2>1. CASE WriteGeneration(c) \/ Flip(c)
    BY <2>1, <1>2, <1>3
  <2>2. CASE ~(WriteGeneration(c) \/ Flip(c))
    BY <1>4, <2>2, <1>1 DEF WriterStep, CommitterStep, Ingest, PublishBegin, SealBegin, TakeClaim,
       ClaimHeld, SealRefused, FlipLost, SealReturn, CasPublish, store
  <2> QED BY <2>1, <2>2
<1>5. ASSUME NEW c \in Clients, NEW g \in Gens, NEW kind \in {"copy", "range"},
             handle[c] = Closed, sealed[g] # NoImage,
             handle' = [handle EXCEPT ![c] = [kind |-> kind, gen |-> g, image |-> sealed[g]]],
             UNCHANGED <<sealed, current, acked>>
      PROVE  Promise!LogNext
  <2>1. handle'[c] # Closed /\ handle'[c].gen = g /\ handle'[c].image = sealed[g]
        /\ \A d \in Clients : d # c => handle'[d] = handle[d]
    BY <1>5 DEF Closed, Inv, TypeOK
  <2>2. View(c) = NoView /\ Views' = [Views EXCEPT ![c] = [gen |-> g, image |-> sealed[g]]]
    BY <1>5, <2>1 DEF View, Views
  <2>3. Promise!Pin(c, g)
    BY <1>5, <2>2 DEF Promise!Pin, Views, View
  <2> QED BY <2>3 DEF Promise!LogNext
<1>6. ASSUME NEW c \in Clients, handle' = [handle EXCEPT ![c] = Closed],
             UNCHANGED <<sealed, current, acked>>
      PROVE  Promise!LogNext
  <2>1. Views' = [Views EXCEPT ![c] = NoView]
    BY <1>6 DEF View, Views, Inv, TypeOK
  <2>2. Promise!Unpin(c)
    BY <1>6, <2>1 DEF Promise!Unpin, Views, View
  <2> QED BY <2>2 DEF Promise!LogNext
<1>7. ASSUME NEW c \in Readers, ReaderStep(c) PROVE [Promise!LogNext]_(Promise!logvars)
  <2> c \in Clients
    BY DEF Clients
  <2>1. CASE OpenRead(c)
    BY <2>1, <1>5 DEF OpenRead, PinnedObject, store, OpeningInv, Inv, CallsInv, CallInv
  <2>2. CASE \E g \in Gens : OpenRemote(c, g)
    BY <2>2, <1>5 DEF OpenRemote, PinOf, store
  <2>3. CASE Close(c)
    BY <2>3, <1>6 DEF Close, store
  <2>4. CASE \/ \E g \in Gens : OpenPin(c, g)
             \/ OpenFails(c) \/ FetchSuperblock(c) \/ FetchCatalog(c) \/ FetchRanges(c) \/ FetchFails(c)
    BY <2>4, <1>1 DEF OpenPin, OpenFails, FetchSuperblock, FetchCatalog, FetchRanges, FetchFails, store
  <2> QED BY <1>7, <2>1, <2>2, <2>3, <2>4 DEF ReaderStep
<1>8. ASSUME NEW c \in Clients, Crash(c) PROVE Promise!LogNext
  BY <1>8, <1>6 DEF Crash
<1> QED BY <1>1, <1>4, <1>7, <1>8 DEF Next, Prune, WriteOnceCrate, vars

(* What the docs promise of a package (GenerationLog) is what the requests of
   publish(), open() and range reads add up to, crashes included: a
   generation is written once, CURRENT moves in one step from the generation
   its publisher built on, and a reader keeps the bytes it pinned. *)
THEOREM PromiseKept ==
  ASSUME WriteOnceCrate, ~Direct
  PROVE  Spec => KeepsPromise
<1>1. Init => OpeningInv /\ ReadersInv /\ ForkInv
  BY DEF Init, OpeningInv, ReadersInv, ReaderInv, Fetching, ForkInv, NoFork, Closed
<1>2. Inv /\ OpeningInv /\ ReadersInv /\ ForkInv /\ [Next]_vars
        => (OpeningInv /\ ReadersInv /\ ForkInv)'
  BY OpeningStep, ReaderStepInv, ForkStep DEF ReadersInv
<1>3. Inv /\ OpeningInv /\ ReadersInv /\ ForkInv /\ [Next]_vars
        => [Promise!LogNext]_(Promise!logvars)
  BY PromiseStep
<1> QED BY InitInv, StepInv, PromiseInit, <1>1, <1>2, <1>3, PTL
        DEF Spec, KeepsPromise, Promise!LogSpec

-----------------------------------------------------------------------------
(* A MemoryStore, whatever its crate does about sealed generations *)

(* One client is inside a call at a time, and the one that publishes is one
   ahead of CURRENT, where no acknowledged generation is. *)
GilInv ==
  /\ \A c, d \in Clients : pc[c] # "idle" /\ pc[d] # "idle" => c = d
  /\ \A c \in Clients :
       pc[c] \in {"begun", "claimed", "sealed"} => call[c].gen = current + 1
  /\ \A a \in acked :
       a.gen =< current /\ a.image # NoImage /\ sealed[a.gen] = a.image
  /\ \A c \in Clients : handle[c].kind # "range"

MemoryStore == HoldsGil /\ ~Prunes /\ LeftToTheLibrary

LEMMA GilStep ==
  ASSUME Inv, GilInv, [Next]_vars, MemoryStore
  PROVE  GilInv' /\ (current' # current => current' = current + 1)
<1> DEFINE Advances == current' # current => current' = current + 1
<1> current \in Nat /\ \A c \in Clients : pc[c] \in {"begun", "claimed", "sealed"} =>
      call[c].gen \in Gens /\ call[c].gen \in Nat
  BY DEF Inv, TypeOK, CallsInv, CallInv, Gens, NoGen
<1>1. ASSUME NEW c \in Committers, Flip(c) PROVE GilInv' /\ Advances
  <2> c \in Clients
    BY DEF Clients
  <2> DEFINE new == [client |-> c, gen |-> call[c].gen, base |-> call[c].expected,
                     image |-> call[c].image]
  <2>1. /\ current' = call[c].gen /\ current' = current + 1 /\ sealed' = sealed
        /\ acked' = acked \cup {new} /\ new.gen = call[c].gen /\ new.image = call[c].image
        /\ call[c].image # NoImage /\ sealed[call[c].gen] = call[c].image
    BY <1>1 DEF Flip, GilInv, Inv, CallsInv, CallInv
  <2> HIDE DEF new
  <2>2. \A d \in Clients : pc'[d] = "idle"
    BY <1>1 DEF Flip, Return, GilInv, Inv, TypeOK
  <2>3. \A a \in acked' :
          a.gen =< current' /\ a.image # NoImage /\ sealed'[a.gen] = a.image
    <3> SUFFICES ASSUME NEW a \in acked'
                 PROVE  a.gen =< current' /\ a.image # NoImage /\ sealed'[a.gen] = a.image
      OBVIOUS
    <3>1. CASE a = new
      <4>1. a.gen = current' /\ a.image # NoImage /\ sealed'[a.gen] = a.image
        BY <3>1, <2>1
      <4>2. current' \in Nat
        BY <2>1
      <4> QED BY <4>1, <4>2
    <3>2. CASE a \in acked
      <4>1. a.gen =< current /\ a.image # NoImage /\ sealed[a.gen] = a.image
        BY <3>2 DEF GilInv
      <4>2. a.gen \in Nat
        BY <3>2 DEF Inv, TypeOK, Gens
      <4>3. current' = current + 1 /\ sealed' = sealed
        BY <2>1
      <4> QED BY <4>1, <4>2, <4>3
    <3> QED BY <3>1, <3>2, <2>1
  <2>4. handle' = handle
    BY <1>1 DEF Flip
  <2> QED BY <2>1, <2>2, <2>3, <2>4 DEF GilInv
<1>2. ASSUME NEW c \in Committers, WriteGeneration(c) PROVE GilInv' /\ Advances
  <2> c \in Clients
    BY DEF Clients
  <2>1. call[c].gen = current + 1 /\ current' = current /\ acked' = acked
    BY <1>2 DEF WriteGeneration, GilInv
  <2>2. ASSUME NEW a \in acked PROVE sealed'[a.gen] = sealed[a.gen]
    BY <1>2, <2>1, <2>2 DEF WriteGeneration, GilInv, Inv, TypeOK, Gens
  <2>3. ASSUME NEW d \in Clients
        PROVE  /\ pc'[d] # "idle" => pc[d] # "idle"
               /\ call'[d].gen = call[d].gen
               /\ pc'[d] \in {"begun", "claimed", "sealed"} =>
                    pc[d] \in {"begun", "claimed", "sealed"}
    BY <1>2 DEF WriteGeneration, Inv, TypeOK, CallType
  <2>4. handle' = handle
    BY <1>2 DEF WriteGeneration
  <2> QED BY <2>1, <2>2, <2>3, <2>4 DEF GilInv
<1>3. ASSUME current' = current, sealed' = sealed, acked' = acked, NEW c \in Clients, MayRun(c),
             \A d \in Clients \ {c} : pc'[d] = pc[d],
             \A d \in Clients : handle'[d].kind = "range" => handle[d].kind = "range",
             pc'[c] \in {"begun", "claimed", "sealed"} => call'[c].gen = current + 1
      PROVE  GilInv' /\ Advances
  BY <1>3 DEF GilInv, MayRun, MemoryStore
<1>4. ASSUME NEW c \in Committers, WriterStep(c) \/ CommitterStep(c) PROVE GilInv' /\ Advances
  <2> c \in Clients
    BY DEF Clients
  <2>1. CASE WriterStep(c)
    BY <2>1 DEF WriterStep, Ingest, GilInv
  <2>2. CASE \E ps \in (SUBSET Parts) \ {{}}, g \in Gens : PublishBegin(c, ps, g)
    BY <2>2, <1>3 DEF PublishBegin, MemoryStore, LeftToTheLibrary, NextGeneration, NoCall, store,
       Inv, TypeOK
  <2>3. CASE TakeClaim(c)
    BY <2>3, <1>3 DEF TakeClaim, GilInv, Inv, TypeOK, CallType
  <2>4. CASE ClaimHeld(c) \/ SealRefused(c) \/ FlipLost(c) \/ SealReturn(c)
    BY <2>4, <1>3 DEF ClaimHeld, SealRefused, FlipLost, SealReturn, Return, store, Inv, TypeOK
  <2> QED BY <1>1, <1>2, <1>4, <2>1, <2>2, <2>3, <2>4
          DEF CommitterStep, SealBegin, CasPublish, MemoryStore, LeftToTheLibrary
<1>5. ASSUME NEW c \in Readers, ReaderStep(c) PROVE GilInv' /\ Advances
  <2> c \in Clients
    BY DEF Clients
  <2>1. CASE \E g \in Gens : OpenPin(c, g)
    BY <2>1, <1>3 DEF OpenPin, store, Inv, TypeOK
  <2>2. CASE OpenRead(c) \/ OpenFails(c)
    BY <2>2, <1>3 DEF OpenRead, OpenFails, Return, store, Inv, TypeOK, HandleType
  <2>3. CASE FetchRanges(c) \/ FetchFails(c)
    BY <2>3 DEF FetchRanges, FetchFails, Return, store, GilInv, Inv, TypeOK
  <2>4. CASE Close(c)
    BY <2>4 DEF Close, Closed, store, GilInv, Inv, TypeOK
  <2>5. CASE FetchSuperblock(c) \/ FetchCatalog(c)
    BY <2>5 DEF FetchSuperblock, FetchCatalog, store, GilInv, Inv, TypeOK
  <2> QED BY <1>5, <2>1, <2>2, <2>3, <2>4, <2>5 DEF ReaderStep, OpenRemote, MemoryStore
<1>6. CASE UNCHANGED vars
  BY <1>6 DEF vars, GilInv
<1> QED BY <1>4, <1>5, <1>6 DEF Next, Prune, Crash, MemoryStore

(* A MemoryStore keeps the GIL for the whole of publish(), and that alone
   makes an acknowledged publish durable: even a crate that replaced sealed
   generations would never be asked to replace an acknowledged one. *)
THEOREM MemoryAckedDurable ==
  ASSUME MemoryStore
  PROVE  Spec => []AckedDurable
<1>1. Init => GilInv
  BY DEF Init, GilInv, Closed
<1>2. Inv /\ GilInv /\ [Next]_vars => GilInv'
  BY GilStep
<1>3. GilInv => AckedDurable
  BY DEF GilInv, AckedDurable
<1> QED BY InitInv, StepInv, <1>1, <1>2, <1>3, PTL DEF Spec

(* And CURRENT of a MemoryStore advances by one. *)
THEOREM MemoryCurrentAdvances ==
  ASSUME MemoryStore
  PROVE  Spec => CurrentAdvances
<1>1. Init => GilInv
  BY DEF Init, GilInv, Closed
<1>2. Inv /\ GilInv /\ [Next]_vars => GilInv' /\ [current' # current => current' = current + 1]_vars
  BY GilStep
<1> QED BY InitInv, StepInv, <1>1, <1>2, PTL DEF Spec, CurrentAdvances

-----------------------------------------------------------------------------
(* An open handle is never retargeted, and a new one has the bytes of the
   generation it reports: for every crate, and with gc. *)
THEOREM HandleAlwaysPinned == Spec => HandlePinned
<1> DEFINE Pinned(c) ==
      \/ handle'[c] = handle[c]
      \/ handle[c] = Closed /\ handle'[c].image = sealed[handle'[c].gen]
      \/ handle'[c] = Closed
<1>1. Init => OpeningInv
  BY DEF Init, OpeningInv
<1>2. Inv /\ OpeningInv /\ [Next]_vars => OpeningInv'
  BY OpeningStep
<1>3. ASSUME Inv, OpeningInv, [Next]_vars, NEW d \in Clients PROVE Pinned(d)
  <2>1. ASSUME NEW c \in Committers, WriterStep(c) \/ CommitterStep(c) PROVE handle' = handle
    BY <2>1 DEF WriterStep, CommitterStep, Ingest, PublishBegin, SealBegin, TakeClaim, ClaimHeld,
       WriteGeneration, SealRefused, Flip, FlipLost, SealReturn, CasPublish
  <2>2. ASSUME NEW c \in Readers, ReaderStep(c) PROVE Pinned(d)
    <3> c \in Clients
      BY DEF Clients
    <3>1. CASE OpenRead(c)
      BY <1>3, <3>1 DEF OpenRead, PinnedObject, OpeningInv, Inv, TypeOK
    <3>2. CASE \E g \in Gens : OpenRemote(c, g)
      BY <1>3, <3>2 DEF OpenRemote, Inv, TypeOK
    <3>3. CASE Close(c)
      BY <1>3, <3>3 DEF Close, Inv, TypeOK
    <3>4. CASE \/ \E g \in Gens : OpenPin(c, g)
               \/ OpenFails(c) \/ FetchSuperblock(c) \/ FetchCatalog(c) \/ FetchRanges(c) \/ FetchFails(c)
      <4>1. handle' = handle
        BY <3>4 DEF OpenPin, OpenFails, FetchSuperblock, FetchCatalog, FetchRanges, FetchFails
      <4> QED BY <4>1
    <3> HIDE DEF Pinned
    <3> QED BY <2>2, <3>1, <3>2, <3>3, <3>4 DEF ReaderStep
  <2>3. ASSUME NEW c \in Clients, Crash(c) PROVE Pinned(d)
    BY <1>3, <2>3 DEF Crash, Inv, TypeOK
  <2>4. handle' = handle => Pinned(d)
    OBVIOUS
  <2> HIDE DEF Pinned
  <2> QED BY <1>3, <2>1, <2>2, <2>3, <2>4 DEF Next, Prune, vars
<1>4. Inv /\ OpeningInv /\ [Next]_vars => [\A c \in Clients : Pinned(c)]_vars
  BY <1>3
<1> QED BY InitInv, StepInv, <1>1, <1>2, <1>4, PTL DEF Spec, HandlePinned
=============================================================================
