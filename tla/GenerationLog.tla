---------------------------- MODULE GenerationLog ----------------------------
(***************************************************************************)
(* What a package promises its users, without the requests it is made of:  *)
(* python/tet/package.py lines 6 to 12 and docs/operations.md.  A          *)
(* generation is written once.  CURRENT moves, in one step, from the       *)
(* generation its publisher built on to one that is written.  A reader     *)
(* gets the bytes of one generation and keeps them.                        *)
(***************************************************************************)
EXTENDS Naturals

CONSTANTS Readers, Gens, Images, NoImage, NoGen, NoView

VARIABLES
  log,      \* generation -> image
  head,     \* the published generation
  built,    \* the generations somebody successfully built on
  view      \* reader -> the generation it pinned, with its bytes

logvars == <<log, head, built, view>>

LogInit ==
  /\ log \in [Gens -> Images]
  /\ head \in Gens \cup {NoGen}
  /\ head # NoGen => log[head] # NoImage
  /\ built = {}
  /\ view = [r \in Readers |-> NoView]

WriteOnce(g, img) ==
  /\ log[g] = NoImage
  /\ log' = [log EXCEPT ![g] = img]
  /\ UNCHANGED <<head, built, view>>

Advance(g) ==
  /\ log[g] # NoImage
  /\ head \notin built
  /\ built' = built \cup {head}
  /\ head' = g
  /\ UNCHANGED <<log, view>>

Pin(r, g) ==
  /\ view[r] = NoView
  /\ log[g] # NoImage
  /\ view' = [view EXCEPT ![r] = [gen |-> g, image |-> log[g]]]
  /\ UNCHANGED <<log, head, built>>

Unpin(r) ==
  /\ view' = [view EXCEPT ![r] = NoView]
  /\ UNCHANGED <<log, head, built>>

LogNext ==
  \/ \E g \in Gens, img \in Images : WriteOnce(g, img)
  \/ \E g \in Gens : Advance(g)
  \/ \E r \in Readers, g \in Gens : Pin(r, g)
  \/ \E r \in Readers : Unpin(r)

LogSpec == LogInit /\ [][LogNext]_logvars
=============================================================================
