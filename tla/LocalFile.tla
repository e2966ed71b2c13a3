------------------------------ MODULE LocalFile ------------------------------
(***************************************************************************)
(* One path with a .tet file: writer sessions (native/src/writer.rs) that  *)
(* create the file or append to it, and handles (tet.open) that map it, in *)
(* one process or several.                                                 *)
(*                                                                         *)
(* A session holds its tetration session in an Option and commit() takes   *)
(* it out.  A handle maps the file that is at the path when it is opened.  *)
(*                                                                         *)
(* Whether tetration commits by rewriting the file that is there           *)
(* ("truncates any existing file") or by putting a new one in its place is *)
(* its own affair: each commit does one or the other.  A handle whose file *)
(* was rewritten under it is torn, and nothing is assumed of what it then  *)
(* says.  An append adds to what open_append() saw; two appenders lose one *)
(* another's datasets, and nothing here says they do not.                  *)
(***************************************************************************)
EXTENDS Naturals, FiniteSets

CONSTANTS
  Sessions,  \* TetWriter objects, each used once
  Handles,   \* TetFile objects
  Datasets,  \* dataset names
  NoData

ASSUME ConstantsAssumption == IsFiniteSet(Sessions) /\ NoData \notin Sessions

VARIABLES
  files,    \* every file that ever was at the path: dataset -> who wrote it
  here,     \* the file that is at the path, 0 when there is none
  session,  \* the writer sessions
  handle,   \* the open handles
  written,  \* history: how often a session's datasets reached the disk
  told      \* history: what the commit() that took a session told its owner

vars == <<files, here, session, handle, written, told>>

FileIds == 1 .. Cardinality(Sessions)
Images == [Datasets -> Sessions \cup {NoData}]
Empty == [d \in Datasets |-> NoData]

NoSession == [inner |-> FALSE, base |-> Empty, queue |-> {}, used |-> FALSE]
NoHandle == [file |-> 0, torn |-> FALSE, cached |-> FALSE, summary |-> {}]

(* TypeOK: variables have their types; a handle maps a file that exists, and
   a session has something queued only while it has its inner session. *)
TypeOK ==
  /\ files \in [FileIds -> Images]
  /\ here \in FileIds \cup {0}
  /\ session \in [Sessions -> [inner: BOOLEAN, base: Images,
                               queue: SUBSET Datasets, used: BOOLEAN]]
  /\ \A s \in Sessions : session[s].queue # {} => session[s].inner
  /\ handle \in [Handles -> [file: FileIds \cup {0}, torn: BOOLEAN,
                             cached: BOOLEAN, summary: SUBSET Datasets]]
  /\ \A h \in Handles : handle[h].file <= here
  /\ written \in [Sessions -> Nat]
  /\ told \in [Sessions -> {"nothing", "path", "CatalogError"}]

Init ==
  /\ files = [f \in FileIds |-> Empty]
  /\ here = 0
  /\ session = [s \in Sessions |-> NoSession]
  /\ handle = [h \in Handles |-> NoHandle]
  /\ written = [s \in Sessions |-> 0]
  /\ told = [s \in Sessions |-> "nothing"]

Catalog(f) == {d \in Datasets : files[f][d] # NoData}

(* There is a file that can be opened.  One without datasets counts as broken:
   nothing can be asked of either, and appending to it is creating it. *)
Readable == here # 0 /\ Catalog(here) # {}

-----------------------------------------------------------------------------
(* Writers *)

Begin(s, base) ==
  /\ ~session[s].used
  /\ session' = [session EXCEPT ![s] = [inner |-> TRUE, base |-> base,
                                        queue |-> {}, used |-> TRUE]]
  /\ UNCHANGED <<files, here, handle, written, told>>

Create(s) == Begin(s, Empty)
OpenAppend(s) == Readable /\ Begin(s, files[here])

(* write_dataset(): inner_mut() raises once commit() has taken the session.
   The name is new to the file and the queue: what tetration does with one
   that is not is its own affair. *)
WriteDataset(s, d) ==
  /\ session[s].inner
  /\ d \notin session[s].queue /\ session[s].base[d] = NoData
  /\ session' = [session EXCEPT ![s].queue = @ \cup {d}]
  /\ UNCHANGED <<files, here, handle, written, told>>

(* A slip: the queue outlives the inner session. *)
TakenWithQueueLeft(s) == [session EXCEPT ![s].inner = FALSE]

Taken(s) == [session EXCEPT ![s].inner = FALSE, ![s].queue = {}]

Merged(s) == [d \in Datasets |->
                IF d \in session[s].queue THEN s ELSE session[s].base[d]]

(* The path gets the image in a file of its own, or the file that is there is
   rewritten under the handles that map it. *)
Put(image) ==
  \E f \in {here, here + 1} \cap FileIds :
    /\ files' = [files EXCEPT ![f] = image]
    /\ here' = f
    /\ handle' = [h \in Handles |->
         IF handle[h].file = f THEN [handle[h] EXCEPT !.torn = TRUE] ELSE handle[h]]

(* A slip: the inner session is borrowed and not taken. *)
CommitBorrowed(s) ==
  /\ session[s].inner
  /\ Put(Merged(s))
  /\ written' = [written EXCEPT ![s] = (@ + 1) % 3]
  /\ told' = [told EXCEPT ![s] = "path"]
  /\ UNCHANGED session

Commit(s) ==
  /\ session[s].inner
  /\ Put(Merged(s))
  /\ session' = Taken(s)
  /\ written' = [written EXCEPT ![s] = @ + 1]
  /\ told' = [told EXCEPT ![s] = "path"]

(* The directory is gone or the disk is full: commit() raises after it took
   the inner session out, before the file was touched or in the middle. *)
CommitFails(s) ==
  /\ session[s].inner
  /\ Put(Empty) \/ UNCHANGED <<files, here, handle>>
  /\ session' = Taken(s)
  /\ told' = [told EXCEPT ![s] = "CatalogError"]
  /\ UNCHANGED written

(* "already committed", for commit(), write_dataset() and the properties. *)
CommitAgain(s) ==
  /\ session[s].used /\ ~session[s].inner
  /\ UNCHANGED vars

-----------------------------------------------------------------------------
(* Readers *)

Open(h) ==
  /\ Readable
  /\ handle' = [handle EXCEPT ![h] = [NoHandle EXCEPT !.file = here]]
  /\ UNCHANGED <<files, here, session, written, told>>

(* What a handle says of its file, and anything once it is torn. *)
Says(h) == IF handle[h].torn THEN SUBSET Datasets ELSE {Catalog(handle[h].file)}

(* _summary_dict(): asked for once and kept. *)
Summary(h) ==
  /\ handle[h].file # 0 /\ ~handle[h].cached
  /\ \E summary \in Says(h) :
       handle' = [handle EXCEPT ![h].cached = TRUE, ![h].summary = summary]
  /\ UNCHANGED <<files, here, session, written, told>>

Next ==
  \/ \E s \in Sessions :
       \/ Create(s) \/ OpenAppend(s)
       \/ \E d \in Datasets : WriteDataset(s, d)
       \/ Commit(s) \/ CommitFails(s) \/ CommitAgain(s)
  \/ \E h \in Handles : Open(h) \/ Summary(h)

Spec == Init /\ [][Next]_vars

-----------------------------------------------------------------------------
(* Properties *)

(* However often commit() is called and whatever it raised, what a session
   queued is written at most once, and its owner got the path if it was. *)
WrittenOnce ==
  \A s \in Sessions :
    /\ written[s] <= 1
    /\ told[s] = "path" => written[s] = 1
    /\ told[s] = "CatalogError" => written[s] = 0
=============================================================================
