----------------------------- MODULE Spill_proofs -----------------------------
(***************************************************************************)
(* What is proved of LocalFile, and of Spill on top of it.                 *)
(*                                                                         *)
(* LocalFile, for any number of sessions, handles and datasets: whatever   *)
(* the sessions commit, and fail to commit, in place or not, a queue is    *)
(* written at most once.                                                   *)
(*                                                                         *)
(* Spill, for any datasets, selections, transforms and callers, whether or *)
(* not the engine writes over a file, and whatever is committed to the     *)
(* .tet meanwhile: as long as the file at its path is its own, a result    *)
(* gives what it was asked for.  Only of a handle whose file was rewritten *)
(* under it before the call (torn) nothing is said.                        *)
(***************************************************************************)
EXTENDS Spill, FiniteSetTheorems, TLAPS

-----------------------------------------------------------------------------
(* LocalFile: the inductive invariant *)

(* A session has its inner session from create() or open_append() to the
   first commit(), and nothing of it is written or told before that. *)
SessionInv(s) ==
  /\ session[s].inner => session[s].used
  /\ session[s].inner \/ ~session[s].used => written[s] = 0 /\ told[s] = "nothing"

(* Only a handle that is open has a summary, and it is that of the file which
   the handle has mapped until that file is rewritten. *)
HandleInv(h) ==
  handle[h].cached =>
    /\ handle[h].file # 0
    /\ ~handle[h].torn => handle[h].summary = Catalog(handle[h].file)

Inv ==
  /\ TypeOK
  /\ WrittenOnce
  /\ \A s \in Sessions : SessionInv(s)
  /\ \A h \in Handles : HandleInv(h)

-----------------------------------------------------------------------------
(* LocalFile: lemmas *)

LEMMA SessionsCount == Cardinality(Sessions) \in Nat
BY ConstantsAssumption, FS_CardinalityType

(* A file is a number, and 0 stands for none. *)
LEMMA FileIsNat ==
  ASSUME NEW f \in FileIds \cup {0}
  PROVE  f \in Nat /\ (f # 0 => f \in FileIds)
BY SessionsCount DEF FileIds

LEMMA HereIsFile == TypeOK => here \in FileIds \cup {0} /\ here \in Nat
<1> SUFFICES ASSUME TypeOK PROVE here \in FileIds \cup {0} /\ here \in Nat
  OBVIOUS
<1>1. here \in FileIds \cup {0}
  BY DEF TypeOK
<1> QED BY <1>1, FileIsNat

LEMMA HandleIsFile ==
  ASSUME TypeOK, NEW h \in Handles
  PROVE  /\ handle[h].file \in FileIds \cup {0} /\ handle[h].file \in Nat
         /\ handle[h].file <= here
<1>1. handle[h].file \in FileIds \cup {0} /\ handle[h].file <= here
  BY DEF TypeOK
<1> QED BY <1>1, FileIsNat

LEMMA InitInv == Init => Inv
<1> SUFFICES ASSUME Init PROVE Inv
  OBVIOUS
<1>1. TypeOK
  BY SessionsCount DEF Init, TypeOK, FileIds, Images, Empty, NoSession, NoHandle
<1>2. WrittenOnce
  BY DEF Init, WrittenOnce
<1>3. /\ \A s \in Sessions : SessionInv(s)
      /\ \A h \in Handles : HandleInv(h)
  BY DEF Init, SessionInv, HandleInv, NoSession, NoHandle
<1> QED BY <1>1, <1>2, <1>3 DEF Inv

LEMMA MergedIsImage ==
  ASSUME TypeOK, NEW s \in Sessions
  PROVE  Merged(s) \in Images
BY DEF TypeOK, Merged, Images

-----------------------------------------------------------------------------
(* The writers keep the invariant *)

HandleType == [file: FileIds \cup {0}, torn: BOOLEAN, cached: BOOLEAN,
               summary: SUBSET Datasets]
SessionType == [inner: BOOLEAN, base: Images, queue: SUBSET Datasets, used: BOOLEAN]

(* commit() takes the inner session of s, and of nobody else. *)
LEMMA TakenIsOf ==
  ASSUME TypeOK, NEW s \in Sessions
  PROVE  /\ Taken(s) \in [Sessions -> SessionType]
         /\ \A t \in Sessions : t # s => Taken(s)[t] = session[t]
         /\ Taken(s)[s].inner = FALSE /\ Taken(s)[s].queue = {}
         /\ Taken(s)[s].used = session[s].used
<1>1. session \in [Sessions -> SessionType]
  BY DEF TypeOK, SessionType
<1>2. session[s] \in SessionType
  BY <1>1
<1>3. Taken(s) = [session EXCEPT ![s] = [session[s] EXCEPT !.inner = FALSE, !.queue = {}]]
  BY <1>1, <1>2 DEF Taken, SessionType
<1>4. [session[s] EXCEPT !.inner = FALSE, !.queue = {}] \in SessionType
  BY <1>2 DEF SessionType
<1> QED BY <1>1, <1>2, <1>3, <1>4 DEF SessionType

(* A writer that leaves the files and the handles alone keeps their types. *)
LEMMA WriterType ==
  ASSUME TypeOK, UNCHANGED <<files, here, handle>>,
         session' \in [Sessions -> SessionType],
         \A s \in Sessions : session'[s].queue # {} => session'[s].inner,
         written' \in [Sessions -> Nat],
         told' \in [Sessions -> {"nothing", "path", "CatalogError"}]
  PROVE  TypeOK'
BY DEF TypeOK, SessionType

LEMMA BeginInv ==
  ASSUME Inv, NEW s \in Sessions, NEW base \in Images, Begin(s, base)
  PROVE  Inv'
<1> USE DEF Inv
<1>1. TypeOK'
  <2>1. [inner |-> TRUE, base |-> base, queue |-> {}, used |-> TRUE] \in SessionType
    BY DEF SessionType
  <2>2. session' \in [Sessions -> SessionType]
    BY <2>1 DEF TypeOK, Begin, SessionType
  <2>3. \A t \in Sessions : session'[t].queue # {} => session'[t].inner
    BY DEF TypeOK, Begin
  <2> QED BY <2>2, <2>3, WriterType DEF TypeOK, Begin
<1>2. WrittenOnce'
  BY DEF Begin, WrittenOnce
<1>3. \A t \in Sessions : SessionInv(t)'
  BY DEF TypeOK, Begin, SessionInv
<1>4. \A h \in Handles : HandleInv(h)'
  BY DEF Begin, HandleInv, Catalog
<1> QED BY <1>1, <1>2, <1>3, <1>4

LEMMA WriteDatasetInv ==
  ASSUME Inv, NEW s \in Sessions, NEW d \in Datasets, WriteDataset(s, d)
  PROVE  Inv'
<1> USE DEF Inv
<1>1. TypeOK'
  <2>1. session \in [Sessions -> SessionType] /\ session[s] \in SessionType
    BY DEF TypeOK, SessionType
  <2>2. [session[s] EXCEPT !.queue = @ \cup {d}] \in SessionType
    BY <2>1 DEF SessionType
  <2>3. session' = [session EXCEPT ![s] = [session[s] EXCEPT !.queue = @ \cup {d}]]
    BY <2>1 DEF WriteDataset
  <2>4. session' \in [Sessions -> SessionType]
    BY <2>1, <2>2, <2>3
  <2>5. \A t \in Sessions : session'[t].queue # {} => session'[t].inner
    BY <2>1, <2>3 DEF TypeOK, WriteDataset, SessionType
  <2> QED BY <2>4, <2>5, WriterType DEF TypeOK, WriteDataset
<1>2. WrittenOnce'
  BY DEF WriteDataset, WrittenOnce
<1>3. \A t \in Sessions : SessionInv(t)'
  <2> TAKE t \in Sessions
  <2>1. session'[t].inner = session[t].inner /\ session'[t].used = session[t].used
    BY DEF TypeOK, WriteDataset
  <2>2. written'[t] = written[t] /\ told'[t] = told[t] /\ SessionInv(t)
    BY DEF WriteDataset
  <2> QED BY <2>1, <2>2 DEF SessionInv
<1>4. \A h \in Handles : HandleInv(h)'
  BY DEF WriteDataset, HandleInv, Catalog
<1> QED BY <1>1, <1>2, <1>3, <1>4

(* Wherever a commit puts its image, a handle keeps its file, and what it says
   of it is true unless it is torn. *)
LEMMA PutKeeps ==
  ASSUME Inv, NEW image \in Images, Put(image)
  PROVE  /\ files' \in [FileIds -> Images]
         /\ here' \in FileIds \cup {0}
         /\ handle' \in [Handles -> HandleType]
         /\ \A h \in Handles : handle'[h].file <= here'
         /\ \A h \in Handles : HandleInv(h)'
<1>1. PICK f \in {here, here + 1} \cap FileIds :
        /\ files' = [files EXCEPT ![f] = image]
        /\ here' = f
        /\ handle' = [h \in Handles |->
             IF handle[h].file = f THEN [handle[h] EXCEPT !.torn = TRUE] ELSE handle[h]]
  BY DEF Put
<1>2. /\ files \in [FileIds -> Images] /\ handle \in [Handles -> HandleType]
      /\ \A h \in Handles : HandleInv(h)
  BY DEF Inv, TypeOK, HandleType
<1>3. here \in Nat /\ f \in Nat /\ here <= f
  BY HereIsFile, FileIsNat DEF Inv
<1>4. ASSUME NEW h \in Handles
      PROVE  /\ handle'[h] \in HandleType /\ handle'[h].file <= here'
             /\ HandleInv(h)'
  <2>1. /\ handle[h].file \in FileIds \cup {0} /\ handle[h].file \in Nat
        /\ handle[h].file <= here /\ handle[h] \in HandleType
    BY <1>2, HandleIsFile DEF Inv
  <2>2. handle[h].file <= here'
    BY <1>1, <1>3, <2>1
  <2>3. CASE handle[h].file = f
    <3>1. handle'[h] = [handle[h] EXCEPT !.torn = TRUE]
      BY <1>1, <2>3
    <3>2. /\ handle'[h] \in HandleType /\ handle'[h].file = handle[h].file
          /\ handle'[h].torn = TRUE /\ handle'[h].cached = handle[h].cached
      BY <2>1, <3>1 DEF HandleType
    <3> QED BY <1>2, <2>2, <3>2 DEF HandleInv
  <2>4. CASE handle[h].file # f
    <3>1. handle'[h] = handle[h]
      BY <1>1, <2>4
    <3>2. handle[h].file # 0 => files'[handle[h].file] = files[handle[h].file]
      BY <1>1, <1>2, <2>1, <2>4
    <3>3. handle[h].file # 0 => Catalog(handle[h].file)' = Catalog(handle[h].file)
      BY <3>1, <3>2 DEF Catalog
    <3>4. HandleInv(h)'
      BY <1>2, <3>1, <3>2 DEF HandleInv, Catalog
    <3> QED BY <2>1, <2>2, <3>1, <3>4
  <2> QED BY <2>3, <2>4
<1>5. handle' \in [Handles -> HandleType]
  <2>1. handle' = [h \in Handles |-> handle'[h]]
    BY <1>1
  <2> QED BY <1>4, <2>1
<1> QED BY <1>1, <1>2, <1>4, <1>5

(* What a commit leaves of its session, whether it told the path or raised. *)
LEMMA CommittedSession ==
  ASSUME Inv, NEW s \in Sessions, session[s].inner, session' = Taken(s),
         NEW outcome \in {"path", "CatalogError"},
         told' = [told EXCEPT ![s] = outcome],
         written' = IF outcome = "path" THEN [written EXCEPT ![s] = @ + 1] ELSE written
  PROVE  /\ session' \in [Sessions -> SessionType]
         /\ \A t \in Sessions : session'[t].queue # {} => session'[t].inner
         /\ written' \in [Sessions -> Nat]
         /\ told' \in [Sessions -> {"nothing", "path", "CatalogError"}]
         /\ WrittenOnce'
         /\ \A t \in Sessions : SessionInv(t)'
<1>1. /\ written \in [Sessions -> Nat]
      /\ told \in [Sessions -> {"nothing", "path", "CatalogError"}]
      /\ \A t \in Sessions : session[t].queue # {} => session[t].inner
      /\ WrittenOnce /\ \A t \in Sessions : SessionInv(t)
  BY DEF Inv, TypeOK
<1>2. session[s].used /\ written[s] = 0
  BY <1>1 DEF SessionInv
<1>3. /\ told' \in [Sessions -> {"nothing", "path", "CatalogError"}]
      /\ told'[s] = outcome
      /\ \A t \in Sessions : t # s => told'[t] = told[t]
  BY <1>1
<1>4. /\ written' \in [Sessions -> Nat]
      /\ written'[s] = IF outcome = "path" THEN 1 ELSE 0
      /\ \A t \in Sessions : t # s => written'[t] = written[t]
  <2>1. CASE outcome = "path"
    <3>1. written' = [written EXCEPT ![s] = 1]
      BY <1>1, <1>2, <2>1
    <3> QED BY <1>1, <2>1, <3>1
  <2>2. CASE outcome # "path"
    BY <1>1, <1>2, <2>2
  <2> QED BY <2>1, <2>2
<1>5. /\ session' \in [Sessions -> SessionType]
      /\ session'[s].inner = FALSE /\ session'[s].queue = {} /\ session'[s].used
      /\ \A t \in Sessions : t # s => session'[t] = session[t]
  BY <1>2, TakenIsOf DEF Inv
<1>6. \A t \in Sessions : session'[t].queue # {} => session'[t].inner
  BY <1>1, <1>5
<1>7. ASSUME NEW t \in Sessions
      PROVE  /\ written'[t] <= 1
             /\ told'[t] = "path" => written'[t] = 1
             /\ told'[t] = "CatalogError" => written'[t] = 0
             /\ SessionInv(t)'
  <2>1. CASE t = s
    <3>1. CASE outcome = "path"
      <4>1. written'[t] = 1 /\ told'[t] = "path"
        BY <1>3, <1>4, <2>1, <3>1
      <4> QED BY <1>5, <2>1, <4>1 DEF SessionInv
    <3>2. CASE outcome = "CatalogError"
      <4>1. written'[t] = 0 /\ told'[t] = "CatalogError"
        BY <1>3, <1>4, <2>1, <3>2
      <4> QED BY <1>5, <2>1, <4>1 DEF SessionInv
    <3> QED BY <3>1, <3>2
  <2>2. CASE t # s
    <3>1. written'[t] = written[t] /\ told'[t] = told[t] /\ session'[t] = session[t]
      BY <1>3, <1>4, <1>5, <2>2
    <3> QED BY <1>1, <3>1 DEF WrittenOnce, SessionInv
  <2> QED BY <2>1, <2>2
<1> QED BY <1>3, <1>4, <1>5, <1>6, <1>7 DEF WrittenOnce

LEMMA CommitInv ==
  ASSUME Inv, NEW s \in Sessions, Commit(s)
  PROVE  Inv'
<1>1. /\ session[s].inner /\ session' = Taken(s) /\ Put(Merged(s))
      /\ written' = [written EXCEPT ![s] = @ + 1]
      /\ told' = [told EXCEPT ![s] = "path"]
  BY DEF Commit
<1>2. Merged(s) \in Images
  BY MergedIsImage DEF Inv
<1>3. /\ session' \in [Sessions -> SessionType]
      /\ \A t \in Sessions : session'[t].queue # {} => session'[t].inner
      /\ written' \in [Sessions -> Nat]
      /\ told' \in [Sessions -> {"nothing", "path", "CatalogError"}]
      /\ WrittenOnce'
      /\ \A t \in Sessions : SessionInv(t)'
  BY <1>1, CommittedSession
<1>4. /\ files' \in [FileIds -> Images] /\ here' \in FileIds \cup {0}
      /\ handle' \in [Handles -> HandleType]
      /\ \A h \in Handles : handle'[h].file <= here'
      /\ \A h \in Handles : HandleInv(h)'
  BY <1>1, <1>2, PutKeeps
<1> QED BY <1>3, <1>4 DEF Inv, TypeOK, SessionType, HandleType

LEMMA CommitFailsInv ==
  ASSUME Inv, NEW s \in Sessions, CommitFails(s)
  PROVE  Inv'
<1>1. /\ session[s].inner /\ session' = Taken(s) /\ written' = written
      /\ told' = [told EXCEPT ![s] = "CatalogError"]
      /\ Put(Empty) \/ UNCHANGED <<files, here, handle>>
  BY DEF CommitFails
<1>2. /\ session' \in [Sessions -> SessionType]
      /\ \A t \in Sessions : session'[t].queue # {} => session'[t].inner
      /\ written' \in [Sessions -> Nat]
      /\ told' \in [Sessions -> {"nothing", "path", "CatalogError"}]
      /\ WrittenOnce'
      /\ \A t \in Sessions : SessionInv(t)'
  BY <1>1, CommittedSession
<1>3. /\ files' \in [FileIds -> Images] /\ here' \in FileIds \cup {0}
      /\ handle' \in [Handles -> HandleType]
      /\ \A h \in Handles : handle'[h].file <= here'
      /\ \A h \in Handles : HandleInv(h)'
  <2>1. CASE Put(Empty)
    <3>1. Empty \in Images
      BY DEF Empty, Images
    <3> QED BY <2>1, <3>1, PutKeeps
  <2>2. CASE UNCHANGED <<files, here, handle>>
    BY <2>2 DEF Inv, TypeOK, HandleType, HandleInv, Catalog
  <2> QED BY <1>1, <2>1, <2>2
<1> QED BY <1>2, <1>3 DEF Inv, TypeOK, SessionType, HandleType

-----------------------------------------------------------------------------
(* The readers keep it *)

LEMMA OpenInv ==
  ASSUME Inv, NEW h \in Handles, Open(h)
  PROVE  Inv'
<1> USE DEF Inv
<1>1. TypeOK'
  <2>1. here \in FileIds \cup {0} /\ here \in Nat
    BY HereIsFile
  <2>2. /\ [NoHandle EXCEPT !.file = here] \in HandleType
        /\ [NoHandle EXCEPT !.file = here].file = here
    BY <2>1 DEF NoHandle, HandleType
  <2>4. handle' \in [Handles -> HandleType] /\ \A i \in Handles : handle'[i].file <= here
    <3>1. handle \in [Handles -> HandleType] /\ \A i \in Handles : handle[i].file <= here
      BY DEF TypeOK, HandleType
    <3>2. handle' = [handle EXCEPT ![h] = [NoHandle EXCEPT !.file = here]]
      BY DEF Open
    <3> QED BY <2>1, <2>2, <3>1, <3>2
  <2>6. UNCHANGED <<files, here, session, written, told>>
    BY DEF Open
  <2> QED BY <2>4, <2>6 DEF TypeOK, HandleType
<1>2. WrittenOnce'
  BY DEF Open, WrittenOnce
<1>3. \A s \in Sessions : SessionInv(s)'
  BY DEF Open, SessionInv
<1>4. \A i \in Handles : HandleInv(i)'
  BY DEF TypeOK, Open, NoHandle, HandleInv, Catalog
<1> QED BY <1>1, <1>2, <1>3, <1>4

LEMMA SummaryInv ==
  ASSUME Inv, NEW h \in Handles, Summary(h)
  PROVE  Inv'
<1> USE DEF Inv
<1>1. PICK summary \in Says(h) :
        handle' = [handle EXCEPT ![h].cached = TRUE, ![h].summary = summary]
  BY DEF Summary
<1>2. /\ handle \in [Handles -> HandleType] /\ handle[h] \in HandleType
      /\ \A i \in Handles : handle[i].file <= here
  BY DEF TypeOK, HandleType
<1> DEFINE new == [handle[h] EXCEPT !.cached = TRUE, !.summary = summary]
<1>3. handle' = [handle EXCEPT ![h] = new]
  BY <1>1, <1>2 DEF HandleType
<1>4. summary \in SUBSET Datasets /\ (~handle[h].torn => summary = Catalog(handle[h].file))
  BY DEF Says, Catalog
<1>5. /\ new \in HandleType /\ new.file = handle[h].file /\ new.torn = handle[h].torn
      /\ new.summary = summary
  BY <1>2, <1>4 DEF HandleType
<1> HIDE DEF new
<1>6. UNCHANGED <<files, here, session, written, told>>
  BY DEF Summary
<1>7. TypeOK'
  <2>1. /\ handle' \in [Handles -> HandleType]
        /\ \A i \in Handles : handle'[i].file = handle[i].file
    BY <1>2, <1>3, <1>5
  <2> QED BY <1>2, <1>6, <2>1 DEF TypeOK, HandleType
<1>8. WrittenOnce'
  BY <1>6 DEF WrittenOnce
<1>9. \A s \in Sessions : SessionInv(s)'
  BY <1>6 DEF SessionInv
<1>10. ASSUME NEW i \in Handles PROVE HandleInv(i)'
  <2>1. CASE i = h
    <3>1. handle'[i] = new /\ handle[h].file # 0
      BY <1>2, <1>3, <2>1 DEF Summary
    <3> QED BY <1>4, <1>5, <1>6, <3>1 DEF HandleInv, Catalog
  <2>2. CASE i # h
    <3>1. handle'[i] = handle[i] /\ HandleInv(i)
      BY <1>2, <1>3, <2>2
    <3> QED BY <1>6, <3>1 DEF HandleInv, Catalog
  <2> QED BY <2>1, <2>2
<1> QED BY <1>7, <1>8, <1>9, <1>10

LEMMA StutterInv ==
  ASSUME Inv, UNCHANGED vars
  PROVE  Inv'
BY DEF vars, Inv, TypeOK, WrittenOnce, SessionInv, HandleInv, Catalog

LEMMA NextInv ==
  ASSUME Inv, Next
  PROVE  Inv'
<1>1. ASSUME NEW s \in Sessions, Create(s)  PROVE Inv'
  BY <1>1, BeginInv DEF Create, Empty, Images
<1>2. ASSUME NEW s \in Sessions, OpenAppend(s)  PROVE Inv'
  <2>1. here \in FileIds
    BY <1>2, HereIsFile DEF OpenAppend, Readable, Inv
  <2>2. files[here] \in Images
    BY <2>1 DEF Inv, TypeOK
  <2> QED BY <1>2, <2>2, BeginInv DEF OpenAppend
<1>3. ASSUME NEW s \in Sessions, NEW d \in Datasets, WriteDataset(s, d)  PROVE Inv'
  BY <1>3, WriteDatasetInv
<1>4. ASSUME NEW s \in Sessions, Commit(s)  PROVE Inv'
  BY <1>4, CommitInv
<1>5. ASSUME NEW s \in Sessions, CommitFails(s)  PROVE Inv'
  BY <1>5, CommitFailsInv
<1>6. ASSUME NEW s \in Sessions, CommitAgain(s)  PROVE Inv'
  BY <1>6, StutterInv DEF CommitAgain
<1>7. ASSUME NEW h \in Handles, Open(h)  PROVE Inv'
  BY <1>7, OpenInv
<1>8. ASSUME NEW h \in Handles, Summary(h)  PROVE Inv'
  BY <1>8, SummaryInv
<1> QED BY <1>1, <1>2, <1>3, <1>4, <1>5, <1>6, <1>7, <1>8 DEF Next

-----------------------------------------------------------------------------
(* Theorems *)

LEMMA Invariance == Spec => []Inv
<1>1. Inv /\ [Next]_vars => Inv'
  BY NextInv, StutterInv
<1> QED BY InitInv, <1>1, PTL DEF Spec

(* The types, and the queue that ends with the inner session: writer.rs and
   TetFile with any number of sessions. *)
THEOREM TypeCorrect == Spec => []TypeOK
<1>1. Inv => TypeOK
  BY DEF Inv
<1> QED BY <1>1, Invariance, PTL

(* commit() asked for any number of times, failing or not, writes what a
   session has queued once at most (writer.rs). *)
THEOREM AlwaysWrittenOnce == Spec => []WrittenOnce
<1>1. Inv => WrittenOnce
  BY DEF Inv
<1> QED BY <1>1, Invariance, PTL

-----------------------------------------------------------------------------
(* Spill: the inductive invariant *)

DiskType == [form: {"absent", "raw", "tet"}, by: Results \cup {NoResult},
             tensors: SUBSET Tensors, width: Widths]
ResultType == [sink: {"none", "spill", "sidecar", "ValueError"}, path: Paths \cup {NoPath},
               size: Nat, width: Widths, bytes: Nat, asked: Tensors \cup {NoData},
               torn: BOOLEAN]

SpillTypes ==
  /\ disk \in [Paths -> DiskType]
  /\ result \in [Results -> ResultType]

(* What a file holds can be counted, and a raw file holds one tensor. *)
FileInv(p) ==
  /\ IsFiniteSet(disk[p].tensors)
  /\ disk[p].form = "raw" => Cardinality(disk[p].tensors) = 1

(* A result and the file it wrote, while that file is at the path.  Sizes do
   not depend on whose values they are, so they hold of a torn handle too. *)
ResultInv(r) ==
  LET res == result[r]
  IN  /\ res.sink = "none" => res = NoResultYet
      /\ res.sink = "ValueError" => res = Raised
      /\ res.sink \in {"spill", "sidecar"} => res.asked \in Tensors
      /\ res.sink = "spill" =>
           /\ res.path \in Paths
           /\ res.size = Size(res.asked)
           /\ res.bytes = Size(res.asked) * res.width
           /\ ~res.torn => res.asked.of # NoData
           /\ ~res.torn /\ FileOf(r).by = r =>
                /\ FileOf(r).form = "raw" /\ FileOf(r).tensors = {res.asked}
                /\ FileOf(r).width = res.width
      /\ res.sink = "sidecar" /\ ~res.torn /\ FileOf(r).by = r =>
           FileOf(r).form = "tet" /\ res.asked \in FileOf(r).tensors

SpillInv ==
  /\ SpillTypes
  /\ \A p \in Paths : FileInv(p)
  /\ \A r \in Results : ResultInv(r)

-----------------------------------------------------------------------------
(* Spill: lemmas about the operators *)

LEMMA SizeType ==
  ASSUME NEW t \in Tensors
  PROVE  Size(t) \in Nat
BY SpillAssumption DEF Size, Tensors

LEMMA WidthType ==
  ASSUME NEW t
  PROVE  EngineWidth(t) \in Widths
BY DEF EngineWidth, CatalogWidth, Widths

LEMMA MinOfOne ==
  ASSUME NEW n \in Nat
  PROVE  Min({n} \cup {n}) = n
<1>1. {n} \cup {n} = {n}
  OBVIOUS
<1>2. Min({n}) = n
  BY DEF Min
<1> QED BY <1>1, <1>2

(* A whole number of elements of either width is as many elements again. *)
LEMMA WidthDivides ==
  ASSUME NEW n \in Nat, NEW w \in Widths
  PROVE  /\ (n * w) \div w = n /\ (n * w) % w = 0
         /\ n * w \in Nat
<1>1. CASE w = 1
  BY <1>1
<1>2. CASE w = 2
  BY <1>2
<1> QED BY <1>1, <1>2 DEF Widths

LEMMA PathIsNamed ==
  ASSUME NEW p \in Paths
  PROVE  p # NoPath
BY DEF Paths, Shared, NoPath

(* Whichever of its two keys the engine sets, the path and the width that are
   read from them are those it wrote. *)
LEMMA ExecutionRead ==
  ASSUME NEW p \in Paths, NEW w \in Widths, NEW d
  PROVE  /\ ReportedPath(Execution(p, w)) = p
         /\ InferredWidth(Execution(p, w), d) = w
<1>1. p # NoPath
  BY PathIsNamed
<1>2. CASE w = 1
  <2>1. Execution(p, w).f32 = p /\ Execution(p, w).f64 = NoPath
    BY <1>2 DEF Execution
  <2> QED BY <1>1, <1>2, <2>1 DEF ReportedPath, InferredWidth
<1>3. CASE w = 2
  <2>1. Execution(p, w).f32 = NoPath /\ Execution(p, w).f64 = p
    BY <1>3 DEF Execution
  <2> QED BY <1>1, <1>3, <2>1 DEF ReportedPath, InferredWidth
<1> QED BY <1>2, <1>3 DEF Widths

(* A dataset that the handle knows is in the file it has mapped, unless that
   was rewritten, and then what is read of it is of some session. *)
LEMMA KnownIsTensor ==
  ASSUME Inv, NEW h \in Handles, NEW d \in Datasets,
         NEW sel \in Selections, NEW m \in Methods \cup {"none"}, Known(h, d)
  PROVE  /\ Tensor(Executed(h, d), d, sel, m) \in Tensors
         /\ Asked(h, d, sel, m) \in Tensors
         /\ ~handle[h].torn =>
              /\ Tensor(Executed(h, d), d, sel, m) = Asked(h, d, sel, m)
              /\ Asked(h, d, sel, m).of # NoData
<1>1. handle[h].file \in FileIds
  BY HandleIsFile, FileIsNat DEF Known, Inv, HandleInv
<1>2. files \in [FileIds -> Images]
  BY DEF Inv, TypeOK
<1>3. Mapped(h, d) \in Sessions \cup {NoData}
  BY <1>1, <1>2 DEF Mapped, Images
<1>4. Executed(h, d) \in Sessions \cup {NoData}
  BY <1>3 DEF Executed
<1>5. ~handle[h].torn => Executed(h, d) = Mapped(h, d) /\ Mapped(h, d) # NoData
  BY DEF Known, Inv, HandleInv, Catalog, Executed, Mapped
<1> QED BY <1>3, <1>4, <1>5 DEF Tensor, Tensors, Asked

(* Sizes and widths do not depend on whose values they are. *)
LEMMA SizeOfAsked ==
  ASSUME NEW h, NEW d, NEW sel, NEW m, NEW of
  PROVE  /\ Size(Tensor(of, d, sel, m)) = Size(Asked(h, d, sel, m))
         /\ Tensor(of, d, sel, m).ds = d
BY DEF Size, Tensor, Asked

-----------------------------------------------------------------------------
(* Steps *)

LEMMA SpillInitInv == SpillInit => SpillInv
<1> SUFFICES ASSUME SpillInit PROVE SpillInv
  OBVIOUS
<1>1. \A p \in Paths : disk[p] = Absent
  BY DEF SpillInit
<1>2. \A r \in Results : result[r] = NoResultYet
  BY DEF SpillInit
<1>3. Absent \in DiskType
  BY DEF Absent, DiskType, Widths
<1>4. NoResultYet \in ResultType
  BY DEF NoResultYet, ResultType, Widths
<1>5. SpillTypes
  BY <1>3, <1>4 DEF SpillInit, SpillTypes
<1>6. \A p \in Paths : FileInv(p)
  BY <1>1, FS_EmptySet DEF FileInv, Absent
<1>7. \A r \in Results : ResultInv(r)
  <2> TAKE r \in Results
  <2>1. result[r] = NoResultYet /\ NoResultYet.sink = "none"
    BY <1>2 DEF NoResultYet
  <2> QED BY <2>1 DEF ResultInv
<1> QED BY <1>5, <1>6, <1>7 DEF SpillInv

(* A result whose record stays is not concerned by a file that another one, or
   nobody, puts at some path. *)
LEMMA OthersKept ==
  ASSUME SpillInv, NEW p \in Paths, NEW file \in DiskType, NEW s \in Results,
         disk' = [disk EXCEPT ![p] = file], file.by # s, result'[s] = result[s]
  PROVE  ResultInv(s)'
<1>1. ResultInv(s)
  BY DEF SpillInv
<1>2. FileOf(s)' = IF result[s].path = p /\ p # NoPath THEN file ELSE FileOf(s)
  BY DEF SpillInv, SpillTypes, ResultType, FileOf
<1> QED BY <1>1, <1>2 DEF ResultInv

(* A call that writes one tensor to p and returns r. *)
LEMMA WriteInv ==
  ASSUME SpillInv, NEW p \in Paths, NEW r \in Results, NEW t \in Tensors,
         NEW form \in {"raw", "tet"}, NEW w \in Widths, NEW res \in ResultType,
         Write(r, p, form, t, w), result' = [result EXCEPT ![r] = res],
         res.path \in {p, NoPath}, res.asked \in Tensors,
         ~res.torn => res.asked = t /\ t.of # NoData,
         \/ /\ form = "raw" /\ res.sink = "spill" /\ res.width = w /\ res.path = p
            /\ res.size = Size(res.asked) /\ res.bytes = Size(res.asked) * w
         \/ form = "tet" /\ res.sink = "sidecar"
  PROVE  SpillInv'
<1> DEFINE file == [form |-> form, by |-> r, tensors |-> {t}, width |-> w]
<1>1. file \in DiskType
  BY DEF DiskType
<1>2. disk' = [disk EXCEPT ![p] = file]
  BY DEF Write
<1>3. SpillTypes'
  BY <1>1, <1>2 DEF SpillInv, SpillTypes
<1>4. disk'[p] = file /\ \A q \in Paths : q # p => disk'[q] = disk[q]
  BY <1>2 DEF SpillInv, SpillTypes
<1>5. result'[r] = res /\ \A s \in Results : s # r => result'[s] = result[s]
  BY DEF SpillInv, SpillTypes
<1>6. \A q \in Paths : FileInv(q)'
  <2>1. disk'[p].tensors = {t}
    BY <1>4
  <2>4. IsFiniteSet({t}) /\ Cardinality({t}) = 1
    BY FS_Singleton
  <2>3. FileInv(p)'
    BY <2>1, <2>4 DEF FileInv
  <2>2. ASSUME NEW q \in Paths, q # p PROVE FileInv(q)'
    BY <1>4, <2>2 DEF SpillInv, FileInv
  <2> QED BY <2>3, <2>2
<1>7. ResultInv(r)'
  <2>1. FileOf(r)' = IF res.path = NoPath THEN Absent ELSE file
    BY <1>4, <1>5 DEF FileOf
  <2>2. Absent.by # r
    BY SpillAssumption DEF Absent
  <2> QED BY <1>5, <2>1, <2>2, PathIsNamed DEF ResultInv
<1>8. ASSUME NEW s \in Results, s # r PROVE ResultInv(s)'
  <2>1. file.by # s
    BY <1>8
  <2>2. result'[s] = result[s]
    BY <1>5, <1>8
  <2> HIDE DEF file
  <2> QED BY <1>1, <1>2, <2>1, <2>2, OthersKept
<1> QED BY <1>3, <1>6, <1>7, <1>8 DEF SpillInv

LEMMA ToSpillInv ==
  ASSUME Inv, SpillInv,
         NEW h \in Handles, NEW r \in Results, NEW d \in Datasets, NEW sel \in Selections,
         NEW m \in Methods \cup {"none"}, NEW p \in Paths, ToSpill(h, r, d, sel, m, p)
  PROVE  SpillInv'
<1> DEFINE made == Tensor(Executed(h, d), d, sel, m)
           asked == Asked(h, d, sel, m)
           w == EngineWidth(made)
           res == SpillResult(Execution(p, w), made, asked, handle[h].torn)
<1>1. made \in Tensors /\ asked \in Tensors
  BY KnownIsTensor DEF ToSpill
<1>2. ~handle[h].torn => asked = made /\ made.of # NoData
  BY KnownIsTensor DEF ToSpill
<1>3. Size(made) = Size(asked) /\ made.ds = d
  BY SizeOfAsked
<1>4. Write(r, p, "raw", made, w) /\ result' = [result EXCEPT ![r] = res]
  BY DEF ToSpill
<1> HIDE DEF made, asked
<1>5. w \in Widths /\ Size(asked) \in Nat /\ Size(asked) * w \in Nat
  BY <1>1, WidthType, SizeType, WidthDivides
<1> HIDE DEF w
<1>6. res = [sink |-> "spill", path |-> p, size |-> Size(asked), width |-> w,
             bytes |-> Size(asked) * w, asked |-> asked, torn |-> handle[h].torn]
  <2>1. ReportedPath(Execution(p, w)) = p /\ InferredWidth(Execution(p, w), made.ds) = w
    BY <1>5, ExecutionRead
  <2>2. EngineWidth(made) = w
    BY DEF w
  <2> QED BY <1>3, <2>1, <2>2 DEF SpillResult, LogicalShape
<1>7. handle[h].torn \in BOOLEAN
  BY DEF Inv, TypeOK
<1>8. res \in ResultType
  BY <1>1, <1>5, <1>6, <1>7 DEF ResultType
<1>9. /\ res.path = p /\ res.asked = asked /\ res.sink = "spill" /\ res.width = w
      /\ res.size = Size(asked) /\ res.bytes = Size(asked) * w
      /\ res.torn = handle[h].torn
  BY <1>6
<1> HIDE DEF res
<1> QED BY <1>1, <1>2, <1>4, <1>5, <1>8, <1>9, WriteInv

LEMMA ToSidecarInv ==
  ASSUME Inv, SpillInv,
         NEW h \in Handles, NEW r \in Results, NEW d \in Datasets, NEW sel \in Selections,
         NEW m \in Methods \cup {"none"}, NEW p \in Paths, ToSidecar(h, r, d, sel, m, p)
  PROVE  SpillInv'
<1> DEFINE made == Tensor(Executed(h, d), d, sel, m)
           asked == Asked(h, d, sel, m)
<1>1. made \in Tensors /\ asked \in Tensors
  BY KnownIsTensor DEF ToSidecar
<1>2. ~handle[h].torn => asked = made /\ made.of # NoData
  BY KnownIsTensor DEF ToSidecar
<1>3. PICK path_told \in {p, NoPath} :
        result' = [result EXCEPT ![r] = SidecarResult(path_told, asked, handle[h].torn)]
  BY DEF ToSidecar
<1>4. Write(r, p, "tet", made, 1)
  BY DEF ToSidecar
<1> HIDE DEF made, asked
<1> DEFINE res == SidecarResult(path_told, asked, handle[h].torn)
<1>5. 1 \in Widths /\ handle[h].torn \in BOOLEAN
  BY DEF Widths, Inv, TypeOK
<1>6. res \in ResultType
  BY <1>1, <1>5 DEF ResultType, SidecarResult, NoResultYet
<1>7. /\ res.path \in {p, NoPath} /\ res.asked = asked /\ res.sink = "sidecar"
      /\ res.torn = handle[h].torn
  BY DEF SidecarResult, NoResultYet
<1>8. result' = [result EXCEPT ![r] = res]
  BY <1>3
<1> HIDE DEF res
<1> QED BY <1>1, <1>2, <1>4, <1>5, <1>6, <1>7, <1>8, WriteInv

LEMMA NothingSpilledInv ==
  ASSUME SpillInv, NEW h \in Handles, NEW r \in Results, NEW d \in Datasets,
         NothingSpilled(h, r, d)
  PROVE  SpillInv'
<1>1. disk' = disk /\ result' = [result EXCEPT ![r] = Raised]
  BY DEF NothingSpilled
<1>2. Raised \in ResultType /\ Raised.sink = "ValueError"
  BY DEF Raised, NoResultYet, ResultType, Widths
<1>3. SpillTypes' /\ \A q \in Paths : FileInv(q)'
  BY <1>1, <1>2 DEF SpillInv, SpillTypes, FileInv
<1>4. ASSUME NEW s \in Results PROVE ResultInv(s)'
  <2>1. CASE s = r
    <3>1. result'[s] = Raised
      BY <1>1, <2>1 DEF SpillInv, SpillTypes
    <3> QED BY <1>2, <3>1 DEF ResultInv
  <2>2. CASE s # r
    <3>1. result'[s] = result[s] /\ ResultInv(s)
      BY <1>1, <2>2 DEF SpillInv, SpillTypes
    <3> QED BY <1>1, <3>1 DEF ResultInv, FileOf
  <2> QED BY <2>1, <2>2
<1> QED BY <1>3, <1>4 DEF SpillInv

LEMMA RemoveInv ==
  ASSUME SpillInv, NEW p \in Paths, Remove(p)
  PROVE  SpillInv'
<1>1. disk' = [disk EXCEPT ![p] = Absent] /\ result' = result
  BY DEF Remove
<1>2. Absent \in DiskType /\ Absent.by = NoResult
  BY DEF Absent, DiskType, Widths
<1>3. SpillTypes'
  BY <1>1, <1>2 DEF SpillInv, SpillTypes
<1>4. \A q \in Paths : FileInv(q)'
  <2>1. disk'[p] = Absent /\ \A q \in Paths : q # p => disk'[q] = disk[q]
    BY <1>1 DEF SpillInv, SpillTypes
  <2>2. FileInv(p)'
    BY <2>1, FS_EmptySet DEF FileInv, Absent
  <2>3. ASSUME NEW q \in Paths, q # p PROVE FileInv(q)'
    BY <2>1, <2>3 DEF SpillInv, FileInv
  <2> QED BY <2>2, <2>3
<1>5. \A s \in Results : ResultInv(s)'
  BY <1>1, <1>2, OthersKept, SpillAssumption
<1> QED BY <1>3, <1>4, <1>5 DEF SpillInv

LEMMA CollectInv ==
  ASSUME SpillInv, NEW p \in Paths, NEW q \in Paths, Collect(p, q)
  PROVE  SpillInv'
<1> DEFINE file == [disk[p] EXCEPT !.tensors = @ \cup disk[q].tensors]
<1>1. disk[p] \in DiskType /\ disk[q] \in DiskType
  BY DEF SpillInv, SpillTypes
<1>2. /\ file \in DiskType /\ file.by = disk[p].by /\ file.form = "tet"
      /\ file.tensors = disk[p].tensors \cup disk[q].tensors
  BY <1>1 DEF DiskType, Collect
<1>3. disk' = [disk EXCEPT ![p] = file] /\ result' = result
  BY DEF Collect, SpillInv, SpillTypes
<1> HIDE DEF file
<1>4. disk'[p] = file /\ \A x \in Paths : x # p => disk'[x] = disk[x]
  BY <1>3 DEF SpillInv, SpillTypes
<1>5. SpillTypes'
  BY <1>2, <1>3 DEF SpillInv, SpillTypes
<1>6. \A x \in Paths : FileInv(x)'
  <2>1. FileInv(p)'
    <3>1. IsFiniteSet(disk[p].tensors) /\ IsFiniteSet(disk[q].tensors)
      BY DEF SpillInv, FileInv
    <3>2. IsFiniteSet(file.tensors)
      BY <1>2, <3>1, FS_Union
    <3> QED BY <1>2, <1>4, <3>2 DEF FileInv
  <2>2. ASSUME NEW x \in Paths, x # p PROVE FileInv(x)'
    BY <1>4, <2>2 DEF SpillInv, FileInv
  <2> QED BY <2>1, <2>2
<1>7. ASSUME NEW s \in Results PROVE ResultInv(s)'
  <2>1. ResultInv(s) /\ result'[s] = result[s]
    BY <1>3 DEF SpillInv
  <2>2. CASE result[s].path # p
    <3>1. FileOf(s)' = FileOf(s)
      BY <1>4, <2>1, <2>2 DEF FileOf, SpillInv, SpillTypes, ResultType
    <3> QED BY <2>1, <3>1 DEF ResultInv
  <2>3. CASE result[s].path = p
    <3>1. FileOf(s) = disk[p] /\ FileOf(s)' = file /\ disk[p].form = "tet"
      BY <1>4, <2>1, <2>3, PathIsNamed DEF FileOf, Collect
    <3> QED BY <1>2, <2>1, <3>1 DEF ResultInv
  <2> QED BY <2>2, <2>3
<1> QED BY <1>5, <1>6, <1>7 DEF SpillInv

LEMMA SpillNextInv ==
  ASSUME Inv, SpillInv, SpillNext
  PROVE  SpillInv'
<1>1. CASE Next /\ UNCHANGED spillVars
  BY <1>1 DEF spillVars, SpillInv, SpillTypes, FileInv, ResultInv, FileOf
<1>2. ASSUME NEW h \in Handles, NEW r \in Results, NEW d \in Datasets, NEW sel \in Selections,
             NEW m \in Methods \cup {"none"}, NEW p \in Paths, ToSpill(h, r, d, sel, m, p)
      PROVE  SpillInv'
  BY <1>2, ToSpillInv
<1>3. ASSUME NEW h \in Handles, NEW r \in Results, NEW d \in Datasets, NEW sel \in Selections,
             NEW m \in Methods \cup {"none"}, NEW p \in Paths, ToSidecar(h, r, d, sel, m, p)
      PROVE  SpillInv'
  BY <1>3, ToSidecarInv
<1>4. ASSUME NEW p \in Paths, Remove(p)  PROVE SpillInv'
  BY <1>4, RemoveInv
<1>5. ASSUME NEW p \in Paths, NEW q \in Paths, Collect(p, q)  PROVE SpillInv'
  BY <1>5, CollectInv
<1>6. ASSUME NEW h \in Handles, NEW r \in Results, NEW d \in Datasets,
             NothingSpilled(h, r, d)
      PROVE  SpillInv'
  BY <1>6, NothingSpilledInv
<1> QED BY <1>1, <1>2, <1>3, <1>4, <1>5, <1>6 DEF SpillNext

-----------------------------------------------------------------------------
(* From the invariant to the properties *)

LEMMA FaithfulSpill == SpillInv => SpillFaithful
<1> SUFFICES ASSUME SpillInv, NEW r \in Results,
                    result[r].sink = "spill", ~result[r].torn, FileOf(r).by = r
             PROVE  /\ result[r].asked.of # NoData
                    /\ LoadSpill(r) = Gives("array", {result[r].asked}, Size(result[r].asked))
                    /\ LoadFlat(r) = LoadSpill(r)
                    /\ FileOf(r).width = result[r].width
  BY DEF SpillFaithful
<1> DEFINE t == result[r].asked
           w == result[r].width
<1>1. /\ t \in Tensors
      /\ result[r].size = Size(t) /\ result[r].bytes = Size(t) * w
      /\ FileOf(r).form = "raw" /\ FileOf(r).tensors = {t} /\ FileOf(r).width = w
      /\ t.of # NoData
  BY DEF SpillInv, ResultInv
<1>2. w \in Widths /\ Size(t) \in Nat
  BY <1>1, SizeType DEF SpillInv, SpillTypes, ResultType
<1>3. (Size(t) * w) \div w = Size(t) /\ (Size(t) * w) % w = 0
  BY <1>2, WidthDivides
<1>4. FromFile(r, Size(t)) = Size(t)
  <2>1. {(Size(u) * FileOf(r).width) \div result[r].width : u \in FileOf(r).tensors} = {Size(t)}
    BY <1>1, <1>3
  <2> QED BY <1>1, <1>2, <2>1, MinOfOne DEF FromFile
<1>5. LoadSpill(r) = Gives("array", {t}, Size(t))
  BY <1>1, <1>4 DEF LoadSpill
<1>6. LoadFlat(r) = Gives("array", {t}, Size(t))
  BY <1>1, <1>3, <1>4 DEF LoadFlat
<1> QED BY <1>1, <1>5, <1>6

LEMMA FaithfulSidecar == SpillInv => SidecarFaithful
<1> SUFFICES ASSUME SpillInv, NEW r \in Results,
                    result[r].sink = "sidecar", ~result[r].torn, FileOf(r).by = r
             PROVE  \/ LoadSidecar(r).tensors = {result[r].asked}
                    \/ /\ LoadSidecar(r) = Raises("ValueError")
                       /\ \E t \in FileOf(r).tensors \ {result[r].asked} :
                            t.method = result[r].asked.method
  BY DEF SidecarFaithful
<1> DEFINE asked == result[r].asked
           all == FileOf(r).tensors
           own == Candidates(all, asked.method)
<1>1. /\ FileOf(r).form = "tet" /\ asked \in all
      /\ result[r].path # NoPath /\ result[r].path \in Paths
  BY DEF SpillInv, SpillTypes, ResultType, ResultInv, FileOf, Absent
<1>2. IsFiniteSet(all)
  BY <1>1 DEF SpillInv, FileInv, FileOf
<1>3. own \in SUBSET all /\ asked \in own
  BY <1>1 DEF Candidates
<1>4. IsFiniteSet(own)
  BY <1>2, <1>3, FS_Subset
<1>5. CASE Cardinality(own) = 1
  <2>1. own = {asked}
    BY <1>3, <1>4, <1>5, FS_Singleton
  <2>2. LoadSidecar(r) = Gives("array", own, result[r].size)
    BY <1>1, <1>5 DEF LoadSidecar
  <2> QED BY <2>1, <2>2 DEF Gives
<1>6. CASE Cardinality(own) # 1
  <2>1. LoadSidecar(r) = Raises("ValueError")
    BY <1>1, <1>6 DEF LoadSidecar
  <2>2. own = {t \in all : t.method = asked.method}
    BY <1>6 DEF Candidates
  <2>3. own # {asked}
    BY <1>6, FS_Singleton
  <2> QED BY <1>3, <2>1, <2>2, <2>3
<1> QED BY <1>5, <1>6

LEMMA SpillTyped == Inv /\ SpillInv => SpillTypeOK
<1> SUFFICES ASSUME Inv, SpillInv PROVE SpillTypeOK
  OBVIOUS
<1>1. TypeOK
  BY DEF Inv
<1>2. ASSUME NEW p \in Paths
      PROVE  /\ disk[p].form \in {"absent", "raw", "tet"}
             /\ disk[p].by \in Results \cup {NoResult}
             /\ disk[p].tensors \subseteq Tensors /\ disk[p].width \in Widths
             /\ disk[p].form = "raw" => Cardinality(disk[p].tensors) = 1
  BY DEF SpillInv, SpillTypes, DiskType, FileInv
<1>3. ASSUME NEW r \in Results
      PROVE  \/ result[r] \in {NoResultYet, Raised}
             \/ /\ result[r].sink \in {"spill", "sidecar"} /\ result[r].torn \in BOOLEAN
                /\ result[r].path \in Paths \cup {NoPath} /\ result[r].asked \in Tensors
                /\ result[r].sink = "spill" => result[r].path # NoPath
                /\ result[r].size \in Nat /\ result[r].bytes \in Nat
  <2>1. result[r] \in ResultType /\ ResultInv(r)
    BY DEF SpillInv, SpillTypes
  <2> QED BY <2>1, PathIsNamed DEF ResultType, ResultInv
<1> QED BY <1>1, <1>2, <1>3 DEF SpillTypeOK

-----------------------------------------------------------------------------
(* Theorems *)

(* Spills and sidecars do nothing to the .tet and its handles: whatever is
   proved of LocalFile holds of a process that also spills. *)
THEOREM SpillImplementsLocalFile == SpillSpec => Spec
<1>1. SpillInit => Init
  BY DEF SpillInit
<1>2. ASSUME SpillNext
      PROVE  Next \/ UNCHANGED vars
  <2>1. ASSUME NEW h \in Handles, NEW r \in Results, NEW d \in Datasets,
               NEW sel \in Selections, NEW m \in Methods \cup {"none"}, NEW p \in Paths,
               ToSpill(h, r, d, sel, m, p) \/ ToSidecar(h, r, d, sel, m, p)
        PROVE  UNCHANGED vars
    <3>1. CASE ToSpill(h, r, d, sel, m, p)
      BY <3>1 DEF ToSpill, SpillResult
    <3>2. CASE ToSidecar(h, r, d, sel, m, p)
      BY <3>2 DEF ToSidecar, SidecarResult
    <3> QED BY <2>1, <3>1, <3>2
  <2>2. ASSUME NEW p \in Paths, NEW q \in Paths, Remove(p) \/ Collect(p, q)
        PROVE  UNCHANGED vars
    BY <2>2 DEF Remove, Collect
  <2>3. ASSUME NEW h \in Handles, NEW r \in Results, NEW d \in Datasets,
               NothingSpilled(h, r, d)
        PROVE  UNCHANGED vars
    BY <2>3 DEF NothingSpilled
  <2>4. CASE Next
    BY <2>4
  <2> QED BY <1>2, <2>1, <2>2, <2>3, <2>4 DEF SpillNext
<1>3. [SpillNext]_<<vars, spillVars>> => [Next]_vars
  BY <1>2
<1> QED BY <1>1, <1>3, PTL DEF SpillSpec, Spec

LEMMA SpillInvariance == SpillSpec => [](Inv /\ SpillInv)
<1>1. SpillSpec => []Inv
  BY SpillImplementsLocalFile, Invariance, PTL
<1>2. Inv /\ SpillInv /\ [SpillNext]_<<vars, spillVars>> => SpillInv'
  <2>1. SpillInv /\ UNCHANGED <<vars, spillVars>> => SpillInv'
    BY DEF spillVars, SpillInv, SpillTypes, FileInv, ResultInv, FileOf
  <2> QED BY <2>1, SpillNextInv
<1> QED BY <1>1, <1>2, SpillInitInv, PTL DEF SpillSpec

(* The types of everything a spill or a sidecar leaves behind. *)
THEOREM SpillTypeCorrect == SpillSpec => []SpillTypeOK
BY SpillInvariance, SpillTyped, PTL

(* to_numpy() of a spill gives what was asked, under whichever of its keys the
   engine told the path and whatever is committed to the .tet after the call
   (spill.py, _transform/result.py). *)
THEOREM SpillAlwaysFaithful == SpillSpec => []SpillFaithful
BY SpillInvariance, FaithfulSpill, PTL

(* to_numpy() of a sidecar gives its own dataset or raises, whatever was
   collected in it (_transform/result.py). *)
THEOREM SidecarAlwaysFaithful == SpillSpec => []SidecarFaithful
BY SpillInvariance, FaithfulSidecar, PTL
=============================================================================
