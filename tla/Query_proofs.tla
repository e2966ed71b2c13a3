---------------------------- MODULE Query_proofs ----------------------------
(***************************************************************************)
(* Proofs about Query: whichever way a request takes through the layer, an *)
(* unknown dataset is reported, and its hints and the axes it meant reach  *)
(* the engine.                                                             *)
(***************************************************************************)
EXTENDS Query, WellFoundedInduction, TLAPS

-----------------------------------------------------------------------------
(* Requests *)

Methods == {"reduce", "shaped", "transform"}

DocType == [form : {"none", "dict", "json", "toml", "bad json", "bad toml", "other"},
            dataset : {"known", "unknown", "absent"}, op : Ops \cup {"none", "several"},
            axes : Seq(Int), execution : [Hints -> {"unset", "document", "keyword"}]]

RequestType == [via : Entries \cup Methods, doc : DocType,
                axes : Seq(Ints \cup Labels) \cup {NoAxes}, axis : {NoAxis} \cup Ints \cup Labels,
                hints : SUBSET Hints, preview : BOOLEAN, raw : BOOLEAN,
                sink : Sinks \cup {"none"}]

(* What is so of every request: a method's document names a dataset, and a
   plain reduction is one. *)
RequestInv ==
  /\ req \in RequestType
  /\ req.via \in Methods <=> req.doc.form = "none"
  /\ req.via \in Methods => req.doc.dataset # "absent"
  /\ req.via = "reduce" => req.doc.op \in Reductions

-----------------------------------------------------------------------------
(* The invariant: what is so at each stage *)

Stages == {"axes", "coerce", "transform", "materialise", "hints", "require",
           "engine", "check", "unwrap", "done"}
(* Behind the hints. *)
Late == {"materialise", "require", "engine", "check", "unwrap"}

Meant == /\ Len(doc.axes) = Len(Merged)
         /\ \A n \in DOMAIN Merged :
              doc.axes[n] \in 0 .. NDim - 1 /\ Means(Merged[n], doc.axes[n])

(* The document keeps its dataset and operation; past the first stage a
   method's is a mapping with the axes that were meant, and another is what
   the caller wrote, a JSON text parsed. *)
DocInv ==
  /\ pc \in Stages /\ doc \in DocType
  /\ doc.op = req.doc.op /\ doc.dataset = req.doc.dataset
  /\ pc = "axes" => doc = req.doc /\ req.via \in Methods
  /\ pc = "coerce" => doc = req.doc /\ req.via \in Entries
  /\ pc \in {"transform", "materialise"} => req.via = "transform"
  /\ pc \notin {"axes", "coerce", "done"} \/ response.state # "none" =>
       /\ req.via \in Methods => doc.form = "dict" /\ Meant
       /\ req.via \in Entries =>
            /\ req.doc.form \notin {"bad json", "other"}
            /\ doc.form = IF req.doc.form = "json" THEN "dict" ELSE req.doc.form

(* The hints are applied once more to a transform, which changes nothing. *)
HintsInv ==
  /\ pc \in {"axes", "coerce", "transform"} => doc.execution = req.doc.execution
  /\ pc = "hints" => WithHints(doc.execution) = WithHints(req.doc.execution)
  /\ pc \in Late \/ response.state # "none" => doc.execution = WithHints(req.doc.execution)

(* An unknown dataset: a looked-up one goes no further than the first stage,
   a mapping no further than _require_dataset, a text no further than the
   check of the response. *)
UnknownInv ==
  req.doc.dataset = "unknown" =>
    /\ pc \in {"transform", "materialise", "unwrap"} => FALSE
    /\ pc \in {"engine", "check"} => doc.form \in {"toml", "bad toml"}
    /\ pc = "check" => response.state = "not matched"
    /\ pc \notin {"axes", "done"} /\ req.via \in Methods => ~BothGiven

(* A response is there from the engine on, an outcome at the end. *)
ResponseInv ==
  /\ response.state \in {"none", "not matched", "rejected", "planned", "executed"}
  /\ response.state # "none" => pc \in {"check", "unwrap", "done"}
  /\ pc \in {"check", "unwrap"} => response.state # "none" /\ doc.form # "bad toml"
  /\ pc # "done" => outcome = NoOutcome

LayerInv == RequestInv /\ DocInv /\ HintsInv /\ UnknownInv /\ ResponseInv

-----------------------------------------------------------------------------
(* Axes *)

(* The axis that is found for an integer or a name is the one it means. *)
LEMMA ResolvedMeans ==
  ASSUME NEW a \in Ints \cup Labels, OnAxis(Resolved(a))
  PROVE  Resolved(a) \in 0 .. NDim - 1 /\ Means(a, Resolved(a))
<1>0. NDim \in Nat \ {0} /\ Names \in Seq(Range(Names)) /\ Len(Names) \in {0, NDim}
  BY ConstantsAssumption
<1>1. CASE a \in Ints
  <2>1. PICK i \in (-NDim - 1) .. NDim : a = <<"int", i>>
    BY <1>1 DEF Ints
  <2>2. i \in Int /\ a[1] = "int" /\ a[2] = i
    BY <1>0, <2>1
  <2>3. Resolved(a) = IF i < 0 THEN i + NDim ELSE i
    <3>1. CASE i < 0
      BY <1>0, <2>2, <3>1 DEF Resolved, FromEnd
    <3>2. CASE ~(i < 0)
      BY <2>2, <3>2 DEF Resolved
    <3> QED BY <3>1, <3>2
  <2>4. Resolved(a) \in 0 .. NDim - 1
    BY <1>0, <2>2, <2>3 DEF OnAxis
  <2>5. i \in {Resolved(a), Resolved(a) - NDim}
    BY <1>0, <2>2, <2>3
  <2> QED BY <2>2, <2>4, <2>5 DEF Means
<1>2. CASE a \in Labels
  <2>1. PICK n : a = <<"name", n>>
    BY <1>2 DEF Labels
  <2>2. a[1] = "name" /\ a[2] = n
    BY <2>1
  <2>3. n \in Range(Names)
    <3>1. n \notin Range(Names) => Resolved(a) = -1
      BY <2>2 DEF Resolved
    <3> QED BY <3>1 DEF OnAxis
  <2> DEFINE First(i) == Names[i] = n /\ \A j \in 1 .. i - 1 : Names[j] # n
  <2>4. \E i \in 1 .. Len(Names) : First(i)
    <3> DEFINE T == {i \in 1 .. Len(Names) : Names[i] = n}
               R == OpToRel(<, Nat)
    <3>1. T \subseteq Nat /\ T # {}
      BY <1>0, <2>3 DEF Range
    <3>2. IsWellFoundedOn(R, Nat)
      BY NatLessThanWellFounded
    <3>3. \E x \in T : \A y \in T : ~(<<y, x>> \in R)
      <4> HIDE DEF T, R
      <4> QED BY <3>1, <3>2, WFMin
    <3>4. PICK x \in T : \A y \in T : ~(<<y, x>> \in R)
      BY <3>3
    <3>5. \A y \in T : ~(y < x)
      BY <3>1, <3>4 DEF OpToRel
    <3>6. x \in 1 .. Len(Names) /\ Names[x] = n
      BY <3>4
    <3>7. \A j \in 1 .. x - 1 : Names[j] # n
      BY <1>0, <3>5, <3>6
    <3> QED BY <3>6, <3>7
  <2>5. Resolved(a) = (CHOOSE i \in 1 .. Len(Names) : First(i)) - 1
    BY <2>2, <2>3 DEF Resolved
  <2>6. PICK i \in 1 .. Len(Names) : First(i) /\ Resolved(a) = i - 1
    BY <2>4, <2>5
  <2>7. Len(Names) = NDim /\ i \in 1 .. NDim
    BY <1>0, <2>6
  <2>8. Resolved(a) \in 0 .. NDim - 1 /\ Names[Resolved(a) + 1] = n
    BY <1>0, <2>6, <2>7
  <2>9. Names # <<>>
    BY <1>0, <2>7
  <2> QED BY <2>2, <2>8, <2>9 DEF Means
<1> QED BY <1>1, <1>2

LEMMA MergedType ==
  ASSUME RequestInv
  PROVE  Merged \in Seq(Ints \cup Labels)
<1>1. CASE req.axis # NoAxis
  <2>1. req.axis \in Ints \cup Labels
    BY <1>1 DEF RequestInv, RequestType
  <2>2. Merged = <<req.axis>>
    BY <1>1 DEF Merged
  <2> QED BY <2>1, <2>2
<1>2. CASE req.axis = NoAxis /\ req.axes = NoAxes
  <2>1. Merged = <<>>
    BY <1>2 DEF Merged
  <2> QED BY <2>1
<1>3. CASE req.axis = NoAxis /\ req.axes # NoAxes
  <2>1. Merged = req.axes
    BY <1>3 DEF Merged
  <2>2. req.axes \in Seq(Ints \cup Labels)
    BY <1>3 DEF RequestInv, RequestType
  <2> QED BY <2>1, <2>2
<1> QED BY <1>1, <1>2, <1>3

-----------------------------------------------------------------------------
(* The beginning *)

LEMMA AskedInv ==
  ASSUME NEW r \in RequestType, NEW stage, Asked(r, stage),
         \/ stage = "axes" /\ r.via \in Methods
         \/ stage = "coerce" /\ r.via \in Entries,
         r.via \in Methods <=> r.doc.form = "none",
         r.via \in Methods => r.doc.dataset # "absent",
         r.via = "reduce" => r.doc.op \in Reductions
  PROVE  LayerInv
<1>1. /\ req = r /\ pc = stage /\ doc = r.doc /\ response.state = "none"
      /\ response.fields = {} /\ outcome = NoOutcome /\ stage \in {"axes", "coerce"}
  BY DEF Asked, NoResponse
<1>2. RequestInv
  BY <1>1 DEF RequestInv
<1>3. doc \in DocType
  BY <1>1 DEF RequestType
<1>4. DocInv
  BY <1>1, <1>3 DEF DocInv, Stages
<1>5. HintsInv
  BY <1>1 DEF HintsInv, Late
<1>6. UnknownInv
  BY <1>1 DEF UnknownInv, Methods, Entries
<1>7. ResponseInv
  BY <1>1 DEF ResponseInv
<1> QED BY <1>2, <1>4, <1>5, <1>6, <1>7 DEF LayerInv

LEMMA NoRequestType ==
  /\ NoDoc \in DocType /\ NoAxis \in {NoAxis}
  /\ AxisArgs \subseteq Seq(Ints \cup Labels) \cup {NoAxes}
<1>1. NoDoc \in DocType
  BY DEF NoDoc, DocType, Unset
<1>2. AxisLists \subseteq Seq(Ints \cup Labels)
  BY ConstantsAssumption DEF AxisLists
<1> QED BY <1>1, <1>2 DEF AxisArgs

LEMMA MethodInv ==
  ASSUME NEW via \in Methods, NEW op \in Ops, NEW axes \in AxisArgs,
         NEW axis \in {NoAxis} \cup Ints \cup Labels, NEW sink \in Sinks \cup {"none"},
         via = "reduce" => op \in Reductions,
         AskMethod(via, op, axes, axis, sink)
  PROVE  LayerInv
<1>1. PICK dataset \in {"known", "unknown"}, hints \in SUBSET Hints, preview \in BOOLEAN,
           raw \in BOOLEAN :
        Asked([via |-> via, doc |-> [NoDoc EXCEPT !.op = op, !.dataset = dataset],
               axes |-> axes, axis |-> axis, hints |-> hints,
               preview |-> preview, raw |-> raw, sink |-> sink], "axes")
  BY DEF AskMethod
<1> DEFINE d == [NoDoc EXCEPT !.op = op, !.dataset = dataset]
           r == [via |-> via, doc |-> d, axes |-> axes, axis |-> axis, hints |-> hints,
                 preview |-> preview, raw |-> raw, sink |-> sink]
<1>2. /\ d \in DocType /\ d.form = "none" /\ d.op = op /\ d.dataset = dataset
  BY NoRequestType DEF NoDoc, DocType
<1> HIDE DEF d
<1>4. /\ r \in RequestType /\ r.via = via /\ r.doc = d
  <2>1. axes \in Seq(Ints \cup Labels) \cup {NoAxes}
    BY NoRequestType
  <2> QED BY <1>2, <2>1 DEF RequestType
<1>5. Asked(r, "axes")
  BY <1>1 DEF d
<1> HIDE DEF r
<1> QED BY <1>2, <1>4, <1>5, AskedInv

LEMMA InitInv == Init => LayerInv
<1>0. \A axes : AxisOr(axes) \subseteq {NoAxis} \cup Ints \cup Labels
  BY DEF AxisOr
<1>1. ASSUME AskDocument PROVE LayerInv
  <2>1. PICK via \in Entries, op \in Ops \cup {"several"}, hints \in SUBSET Hints,
             preview \in BOOLEAN, raw \in BOOLEAN :
          \E own \in [Hints -> {"unset", "document"}] :
            \E d \in Documents(op, own) :
              /\ via \in {"query_execute", "execute"} \/ hints = {}
              /\ Asked([via |-> via, doc |-> d, axes |-> NoAxes, axis |-> NoAxis, hints |-> hints,
                        preview |-> preview, raw |-> raw, sink |-> "none"], "coerce")
    BY <1>1, Zenon DEF AskDocument
  <2>2. PICK own \in [Hints -> {"unset", "document"}] :
          \E d \in Documents(op, own) :
            Asked([via |-> via, doc |-> d, axes |-> NoAxes, axis |-> NoAxis, hints |-> hints,
                   preview |-> preview, raw |-> raw, sink |-> "none"], "coerce")
    BY <2>1
  <2>3. PICK d \in Documents(op, own) :
          Asked([via |-> via, doc |-> d, axes |-> NoAxes, axis |-> NoAxis, hints |-> hints,
                 preview |-> preview, raw |-> raw, sink |-> "none"], "coerce")
    BY <2>2
  <2>4. d \in DocType /\ d.form # "none"
    <3>0. {<<>>, <<0>>} \subseteq Seq(Int)
      OBVIOUS
    <3>1. /\ d.form \in {"dict", "json", "toml", "bad json", "bad toml", "other"}
          /\ d.axes \in {<<>>, <<0>>} /\ d.op = op
          /\ d.execution = own
          /\ d.dataset \in {"known", "unknown", "absent"}
          /\ d = [form |-> d.form, dataset |-> d.dataset, op |-> d.op,
                  axes |-> d.axes, execution |-> d.execution]
      BY DEF Documents
    <3> HIDE DEF Documents
    <3> QED BY <3>0, <3>1 DEF DocType
  <2> DEFINE r == [via |-> via, doc |-> d, axes |-> NoAxes, axis |-> NoAxis, hints |-> hints,
                   preview |-> preview, raw |-> raw, sink |-> "none"]
  <2>6. Asked(r, "coerce")
    BY <2>3
  <2>7. r \in RequestType /\ r.via = via /\ r.doc = d
    <3> QED BY <2>4 DEF RequestType
  <2> HIDE DEF r
  <2>8. via \in Entries /\ via \notin Methods
    BY DEF Entries, Methods
  <2> QED BY <2>4, <2>6, <2>7, <2>8, AskedInv DEF Methods
<1>2. ASSUME AskReduction PROVE LayerInv
  BY <1>0, <1>2, MethodInv DEF AskReduction, Methods
<1>3. ASSUME AskShaped PROVE LayerInv
  BY <1>0, <1>3, MethodInv DEF AskShaped, Methods
<1>4. ASSUME AskMatrix PROVE LayerInv
  <2>1. NoAxes \in AxisArgs
    BY DEF AxisArgs
  <2> QED BY <1>4, <2>1, MethodInv DEF AskMatrix, Methods
<1>5. ASSUME AskTransform PROVE LayerInv
  BY <1>0, <1>5, MethodInv DEF AskTransform, Methods
<1> QED BY <1>1, <1>2, <1>3, <1>4, <1>5 DEF Init

LEMMA InitStage == Init => pc # "done"
<1>1. ASSUME NEW r, NEW stage \in {"axes", "coerce"}, Asked(r, stage) PROVE pc # "done"
  BY <1>1 DEF Asked
<1>2. ASSUME NEW via, NEW op, NEW axes, NEW axis, NEW sink,
             AskMethod(via, op, axes, axis, sink)
      PROVE  pc # "done"
  BY <1>1, <1>2 DEF AskMethod
<1>3. AskDocument => pc # "done"
  BY <1>1 DEF AskDocument
<1> QED BY <1>2, <1>3 DEF Init, AskReduction, AskShaped, AskMatrix, AskTransform

-----------------------------------------------------------------------------
(* The steps *)

LEMMA StopFacts ==
  ASSUME NEW state, NEW fields, Stop(state, fields)
  PROVE  pc' = "done" /\ outcome'.state = state /\ outcome'.fields = fields
BY DEF Stop

(* Whatever way out is taken, what was so of the document stays so. *)
LEMMA StopInv ==
  ASSUME LayerInv, NEW state, NEW fields, Stop(state, fields),
         UNCHANGED <<req, doc, response>>
  PROVE  LayerInv'
<1>1. /\ pc' = "done" /\ req' = req /\ doc' = doc /\ response' = response
  BY DEF Stop
<1>2. RequestInv'
  BY <1>1 DEF LayerInv, RequestInv
<1>3. DocInv'
  <2>1. Meant => Meant'
    BY <1>1 DEF Meant, Merged
  <2> QED BY <1>1, <2>1 DEF LayerInv, DocInv, Stages
<1>4. HintsInv'
  BY <1>1 DEF LayerInv, HintsInv, Late, WithHints
<1>5. UnknownInv'
  BY <1>1 DEF LayerInv, UnknownInv
<1>6. ResponseInv'
  BY <1>1 DEF LayerInv, ResponseInv
<1> QED BY <1>2, <1>3, <1>4, <1>5, <1>6 DEF LayerInv

LEMMA ResolveAxesInv ==
  ASSUME LayerInv, ResolveAxes
  PROVE  LayerInv'
<1> DEFINE unknown == LookedUp /\ req.doc.dataset # "known"
           badAxis == \E n \in DOMAIN Merged : ~OnAxis(Resolved(Merged[n]))
           wire == [n \in DOMAIN Merged |-> Resolved(Merged[n])]
<1>0. /\ pc = "axes" /\ doc = req.doc /\ req.via \in Methods /\ response.state = "none"
      /\ req' = req /\ response' = response
      /\ req.doc \in DocType /\ req \in RequestType
  BY DEF ResolveAxes, LayerInv, DocInv, ResponseInv, RequestInv, RequestType
<1>1. CASE \E error \in Errors : Raise(error) /\ doc' = doc
  BY <1>0, <1>1, StopInv DEF Raise
<1>2. CASE /\ ~BothGiven /\ ~unknown /\ ~badAxis
           /\ doc' = [req.doc EXCEPT !.form = "dict", !.axes = wire]
           /\ pc' = IF req.via = "transform" THEN "transform" ELSE "hints"
           /\ outcome' = outcome
  <2>1. /\ Merged \in Seq(Ints \cup Labels)
        /\ \A n \in DOMAIN Merged :
             wire[n] \in 0 .. NDim - 1 /\ Means(Merged[n], wire[n])
    <3>1. Merged \in Seq(Ints \cup Labels)
      BY MergedType DEF LayerInv
    <3>2. \A n \in DOMAIN Merged : Merged[n] \in Ints \cup Labels
      BY <3>1
    <3> QED BY <1>2, <3>1, <3>2, ResolvedMeans
  <2>2. wire \in Seq(Int) /\ Len(wire) = Len(Merged)
    <3>1. DOMAIN Merged = 1 .. Len(Merged) /\ Len(Merged) \in Nat
      BY <2>1
    <3>2. \A n \in DOMAIN Merged : wire[n] \in Int
      BY <2>1, ConstantsAssumption
    <3> QED BY <3>1, <3>2
  <2> HIDE DEF wire
  <2>3. /\ doc' \in DocType /\ doc'.form = "dict" /\ doc'.axes = wire
        /\ doc'.op = req.doc.op /\ doc'.dataset = req.doc.dataset
        /\ doc'.execution = req.doc.execution
    BY <1>0, <1>2, <2>2 DEF DocType
  <2>4. Meant'
    <3>1. Merged' = Merged
      BY <1>0 DEF Merged
    <3> QED BY <2>1, <2>2, <2>3, <3>1 DEF Meant
  <2>5. RequestInv'
    BY <1>0 DEF LayerInv, RequestInv
  <2>6. DocInv'
    BY <1>0, <1>2, <2>3, <2>4 DEF DocInv, Stages, Methods, Entries
  <2>7. HintsInv'
    BY <1>0, <1>2, <2>3 DEF HintsInv, Late, WithHints
  <2>8. UnknownInv'
    <3>1. req.via = "transform" => req.doc.dataset = "known"
      BY <1>2 DEF LookedUp
    <3> QED BY <1>0, <1>2, <3>1 DEF UnknownInv, BothGiven
  <2>9. ResponseInv'
    BY <1>0, <1>2 DEF LayerInv, ResponseInv
  <2> QED BY <2>5, <2>6, <2>7, <2>8, <2>9 DEF LayerInv
<1> QED
  <2>1. CASE BothGiven /\ (unknown => req.via = "reduce")
    BY <1>1, <2>1 DEF ResolveAxes, Refused, Errors
  <2>2. CASE unknown /\ (BothGiven => req.via # "reduce")
    BY <1>1, <2>2 DEF ResolveAxes, Refused, Errors
  <2>3. CASE ~BothGiven /\ ~unknown /\ badAxis
    BY <1>1, <2>3 DEF ResolveAxes, Refused, Errors
  <2>4. CASE ~BothGiven /\ ~unknown /\ ~badAxis /\ NeedsAxis
    BY <1>1, <2>4 DEF ResolveAxes, Refused, Errors
  <2>5. CASE ~BothGiven /\ ~unknown /\ ~badAxis /\ ~NeedsAxis
    BY <1>2, <2>5 DEF ResolveAxes
  <2> QED BY <2>1, <2>2, <2>3, <2>4, <2>5

LEMMA CoerceInv ==
  ASSUME LayerInv, Coerce
  PROVE  LayerInv'
<1>0. /\ pc = "coerce" /\ doc = req.doc /\ req.via \in Entries /\ response.state = "none"
      /\ req' = req /\ response' = response /\ doc \in DocType /\ req.via \notin Methods
  BY DEF Coerce, LayerInv, DocInv, ResponseInv, Methods, Entries
<1>1. CASE \E error \in Errors : Raise(error) /\ doc' = doc
  BY <1>0, <1>1, StopInv DEF Raise
<1>2. CASE /\ doc.form \notin {"bad json", "other"} /\ pc' = "hints" /\ outcome' = outcome
           /\ doc' = [doc EXCEPT !.form = IF doc.form = "json" THEN "dict" ELSE @]
  <2>1. /\ doc' \in DocType /\ doc'.op = doc.op /\ doc'.dataset = doc.dataset
        /\ doc'.form = IF doc.form = "json" THEN "dict" ELSE doc.form
        /\ doc'.execution = doc.execution
    BY <1>0, <1>2 DEF DocType
  <2>2. RequestInv' /\ ResponseInv'
    BY <1>0, <1>2 DEF LayerInv, RequestInv, ResponseInv
  <2>3. DocInv'
    BY <1>0, <1>2, <2>1 DEF DocInv, Stages
  <2>4. HintsInv'
    <3>1. doc'.execution = req'.doc.execution
      BY <1>0, <2>1
    <3>2. WithHints(doc.execution)' = WithHints(req.doc.execution)'
      BY <3>1 DEF WithHints
    <3> QED BY <1>0, <1>2, <3>2 DEF HintsInv, Late
  <2>5. UnknownInv'
    BY <1>0, <1>2 DEF UnknownInv
  <2> QED BY <2>2, <2>3, <2>4, <2>5 DEF LayerInv
<1> QED BY <1>1, <1>2 DEF Coerce, Errors

(* Setting the hints once or twice is the same, and setting none nothing. *)
LEMMA WithHintsTwice ==
  ASSUME NEW e \in [Hints -> {"unset", "document", "keyword"}]
  PROVE  /\ WithHints(e) \in [Hints -> {"unset", "document", "keyword"}]
         /\ WithHints(WithHints(e)) = WithHints(e)
         /\ req.hints = {} => WithHints(e) = e
BY DEF WithHints

LEMMA TransformHintsInv ==
  ASSUME LayerInv, TransformHints
  PROVE  LayerInv'
<1>0. /\ pc = "transform" /\ doc \in DocType /\ response.state = "none"
      /\ req.via = "transform" /\ req.via \in Methods /\ req.via \notin Entries
      /\ doc.execution = req.doc.execution /\ doc.form = "dict" /\ Meant
      /\ req' = req /\ response' = response /\ outcome' = outcome
      /\ doc' = [doc EXCEPT !.execution = WithHints(@)]
      /\ pc' \in {"materialise", "hints"}
      /\ req.doc.execution \in [Hints -> {"unset", "document", "keyword"}]
      /\ doc.execution \in [Hints -> {"unset", "document", "keyword"}]
  BY DEF TransformHints, LayerInv, DocInv, HintsInv, ResponseInv, Methods, Entries, DocType
<1>1. /\ doc' \in DocType /\ doc'.op = doc.op /\ doc'.dataset = doc.dataset
      /\ doc'.form = doc.form /\ doc'.execution = WithHints(req.doc.execution)
      /\ doc'.axes = doc.axes
  BY <1>0, WithHintsTwice DEF DocType
<1>2. RequestInv' /\ ResponseInv'
  BY <1>0 DEF LayerInv, RequestInv, ResponseInv
<1>3. Meant'
  BY <1>0, <1>1 DEF Meant, Merged
<1>4. DocInv'
  BY <1>0, <1>1, <1>3 DEF LayerInv, DocInv, Stages
<1>5. HintsInv'
  <2>1. \A e : WithHints(e)' = [k \in Hints |-> IF k \in req.hints THEN "keyword" ELSE e[k]]
    BY <1>0 DEF WithHints
  <2>2. WithHints(WithHints(req.doc.execution)) = WithHints(req.doc.execution)
    BY <1>0, WithHintsTwice
  <2>3. WithHints(doc.execution)' = WithHints(req.doc.execution)
    BY <1>0, <1>1, <2>2 DEF WithHints
  <2>4. WithHints(req.doc.execution)' = WithHints(req.doc.execution)
    BY <1>0 DEF WithHints
  <2> QED BY <1>0, <1>1, <2>3, <2>4 DEF HintsInv, Late
<1>6. UnknownInv'
  BY <1>0 DEF LayerInv, UnknownInv
<1> QED BY <1>2, <1>4, <1>5, <1>6 DEF LayerInv

LEMMA ApplyHintsInv ==
  ASSUME LayerInv, ApplyHints
  PROVE  LayerInv'
<1>0. /\ pc = "hints" /\ doc \in DocType /\ response.state = "none"
      /\ WithHints(doc.execution) = WithHints(req.doc.execution)
      /\ req' = req /\ response' = response
      /\ doc.execution \in [Hints -> {"unset", "document", "keyword"}]
  BY DEF ApplyHints, LayerInv, DocInv, HintsInv, ResponseInv, DocType
<1>1. CASE Raise("TypeError") /\ doc' = doc
  BY <1>0, <1>1, StopInv DEF Raise
<1>2. CASE /\ pc' = "require" /\ outcome' = outcome
           /\ doc' = IF req.hints = {} THEN doc ELSE [doc EXCEPT !.execution = WithHints(@)]
  <2>1. /\ doc' \in DocType /\ doc'.op = doc.op /\ doc'.dataset = doc.dataset
        /\ doc'.form = doc.form /\ doc'.execution = WithHints(req.doc.execution)
        /\ doc'.axes = doc.axes
    <3>1. CASE req.hints = {}
      BY <1>0, <1>2, <3>1, WithHintsTwice
    <3>2. CASE req.hints # {}
      BY <1>0, <1>2, <3>2, WithHintsTwice DEF DocType
    <3> QED BY <3>1, <3>2
  <2>2. RequestInv' /\ ResponseInv'
    BY <1>0, <1>2 DEF LayerInv, RequestInv, ResponseInv
  <2>3. Meant => Meant'
    BY <1>0, <2>1 DEF Meant, Merged
  <2>4. DocInv'
    BY <1>0, <1>2, <2>1, <2>3 DEF LayerInv, DocInv, Stages
  <2>5. HintsInv'
    <3>1. WithHints(req.doc.execution)' = WithHints(req.doc.execution)
      BY <1>0 DEF WithHints
    <3> QED BY <1>0, <1>2, <2>1, <3>1 DEF HintsInv, Late
  <2>6. UnknownInv'
    <3>1. BothGiven' = BothGiven
      BY <1>0 DEF BothGiven
    <3> QED BY <1>0, <1>2, <3>1 DEF LayerInv, UnknownInv
  <2> QED BY <2>2, <2>4, <2>5, <2>6 DEF LayerInv
<1> QED BY <1>0, <1>1, <1>2 DEF ApplyHints

(* A step that leaves the request and the document alone. *)
LEMMA StageInv ==
  ASSUME LayerInv, UNCHANGED <<req, doc>>, pc \in Late, pc' \in Late,
         pc = "materialise" <=> pc' = "materialise"
  PROVE  RequestInv' /\ DocInv' /\ HintsInv'
<1>1. Meant => Meant'
  BY DEF Meant, Merged
<1> QED BY <1>1 DEF LayerInv, RequestInv, DocInv, HintsInv, Late, Stages, WithHints

LEMMA RequireDatasetInv ==
  ASSUME LayerInv, RequireDataset
  PROVE  LayerInv'
<1>0. pc = "require" /\ UNCHANGED <<req, doc, response>>
  BY DEF RequireDataset
<1>1. CASE Raise("UnknownDatasetError")
  BY <1>0, <1>1, StopInv DEF Raise
<1>2. CASE /\ ~(doc.form = "dict" /\ doc.dataset = "unknown")
           /\ pc' = "engine" /\ outcome' = outcome
  <2>1. RequestInv' /\ DocInv' /\ HintsInv'
    BY <1>0, <1>2, StageInv DEF Late
  <2>2. ResponseInv'
    BY <1>0, <1>2 DEF LayerInv, ResponseInv
  <2>3. UnknownInv'
    <3>1. ASSUME req.doc.dataset = "unknown" PROVE doc.form \in {"toml", "bad toml"}
      <4>1. doc.form # "dict" /\ req.via \in Entries
        BY <1>0, <1>2, <3>1 DEF LayerInv, DocInv, RequestInv, RequestType
      <4> QED BY <1>0, <1>2, <3>1, <4>1
              DEF LayerInv, DocInv, RequestInv, RequestType, DocType, Methods, Entries
    <3> QED BY <1>0, <1>2, <3>1 DEF LayerInv, UnknownInv, BothGiven
  <2> QED BY <2>1, <2>2, <2>3 DEF LayerInv
<1> QED BY <1>1, <1>2 DEF RequireDataset

LEMMA SummaryFailsInv ==
  ASSUME LayerInv, SummaryFails
  PROVE  LayerInv'
BY StopInv DEF SummaryFails, Raise

LEMMA EngineInv ==
  ASSUME LayerInv, EngineRaises \/ EngineFails \/ EngineAnswers
  PROVE  LayerInv'
<1>0. pc = "engine" /\ UNCHANGED <<req, doc>> /\ response.state = "none"
  BY DEF EngineRaises, EngineFails, EngineAnswers, Answer, LayerInv, ResponseInv
<1>1. CASE EngineRaises \/ EngineFails
  BY <1>1, StopInv DEF EngineRaises, EngineFails, Raise
<1>2. CASE EngineAnswers
  <2>a. PICK state \in {"not matched", "rejected", "planned", "executed"} :
          /\ \E fields : Answer(state, fields)
          /\ doc.dataset = "unknown" => state = "not matched"
          /\ doc.form # "bad toml"
    BY <1>2 DEF EngineAnswers
  <2>b. PICK fields : Answer(state, fields)
    BY <2>a
  <2>1. /\ Answer(state, fields)
        /\ doc.dataset = "unknown" => state = "not matched"
        /\ doc.form # "bad toml"
    BY <2>a, <2>b
  <2>2. /\ response' = [state |-> state, fields |-> fields] /\ pc' = "check"
        /\ outcome' = outcome
    BY <2>1 DEF Answer
  <2>3. RequestInv' /\ DocInv' /\ HintsInv'
    BY <1>0, <2>2, StageInv DEF Late
  <2>4. doc.op = req.doc.op /\ doc.dataset = req.doc.dataset
    BY DEF LayerInv, DocInv
  <2>5. ResponseInv'
    BY <1>0, <2>1, <2>2, <2>4 DEF LayerInv, ResponseInv
  <2>6. UnknownInv'
    BY <1>0, <2>1, <2>2, <2>4 DEF LayerInv, UnknownInv, BothGiven
  <2> QED BY <2>3, <2>5, <2>6 DEF LayerInv
<1> QED BY <1>1, <1>2

LEMMA MaterialiseInv ==
  ASSUME LayerInv, Materialise
  PROVE  LayerInv'
<1>0. pc = "materialise" /\ UNCHANGED <<req, doc>>
  BY DEF Materialise
<1>1. CASE (Raise("TetError") \/ Raise("CatalogError")) /\ response' = response
  BY <1>0, <1>1, StopInv DEF Raise
<1>2. CASE Stop("array", {}) /\ response' = [state |-> "executed", fields |-> {}]
  <2>1. /\ pc' = "done" /\ response'.state = "executed" /\ response'.fields = {}
    BY <1>2 DEF Stop
  <2>2. Meant => Meant'
    BY <1>0 DEF Meant, Merged
  <2>3. RequestInv' /\ DocInv'
    BY <1>0, <2>1, <2>2 DEF LayerInv, RequestInv, DocInv, Stages
  <2>4. HintsInv'
    BY <1>0, <2>1 DEF LayerInv, HintsInv, Late, WithHints
  <2>5. UnknownInv' /\ ResponseInv'
    BY <1>0, <2>1 DEF LayerInv, UnknownInv, ResponseInv
  <2> QED BY <2>3, <2>4, <2>5 DEF LayerInv
<1> QED BY <1>1, <1>2 DEF Materialise

LEMMA CheckInv ==
  ASSUME LayerInv, Check
  PROVE  LayerInv'
<1>0. pc = "check" /\ UNCHANGED <<req, doc, response>>
  BY DEF Check
<1>1. CASE \E error \in Errors : Raise(error)
  BY <1>0, <1>1, StopInv DEF Raise
<1>2. CASE response.state \in {"executed", "planned"} /\ pc' = "unwrap" /\ outcome' = outcome
  <2>1. RequestInv' /\ DocInv' /\ HintsInv'
    BY <1>0, <1>2, StageInv DEF Late
  <2>2. UnknownInv' /\ ResponseInv'
    BY <1>0, <1>2 DEF LayerInv, UnknownInv, ResponseInv
  <2> QED BY <2>1, <2>2 DEF LayerInv
<1> QED BY <1>1, <1>2 DEF Check, Errors

(* Every way _unwrap ends. *)
LEMMA UnwrapStops ==
  ASSUME Unwrap
  PROVE  \E state, fields : Stop(state, fields)
<1> DEFINE op == OpOfResponse
<1> HIDE DEF op
<1>1. CASE req.raw \/ req.via = "transform"
  BY <1>1 DEF Unwrap, AloneOf, Raise
<1>2. CASE ~req.raw /\ req.via # "transform" /\ AloneOf(op)
  BY <1>2 DEF Unwrap, Raise, op
<1>3. CASE ~req.raw /\ req.via # "transform" /\ ~AloneOf(op)
  BY <1>3 DEF Unwrap, op
<1> QED BY <1>1, <1>2, <1>3

LEMMA StepInv ==
  ASSUME LayerInv, [Next]_vars
  PROVE  LayerInv'
<1>1. CASE UNCHANGED vars
  <2>1. UNCHANGED <<req, pc, doc, response, outcome>>
    BY <1>1 DEF vars
  <2>2. Meant' = Meant
    BY <2>1 DEF Meant, Merged
  <2>3. RequestInv' /\ DocInv'
    BY <2>1, <2>2 DEF LayerInv, RequestInv, DocInv
  <2>4. HintsInv'
    BY <2>1 DEF LayerInv, HintsInv, WithHints
  <2>5. UnknownInv' /\ ResponseInv'
    BY <2>1 DEF LayerInv, UnknownInv, BothGiven, ResponseInv
  <2> QED BY <2>3, <2>4, <2>5 DEF LayerInv
<1>2. CASE Unwrap
  <2>1. PICK state, fields : Stop(state, fields)
    BY <1>2, UnwrapStops
  <2> QED BY <1>2, <2>1, StopInv DEF Unwrap
<1> QED BY <1>1, <1>2, ResolveAxesInv, CoerceInv, TransformHintsInv, ApplyHintsInv,
           RequireDatasetInv, SummaryFailsInv, EngineInv, MaterialiseInv, CheckInv DEF Next

THEOREM LayerAlwaysInv == Spec => []LayerInv
BY InitInv, StepInv, PTL DEF Spec

-----------------------------------------------------------------------------
(* What comes out *)

LEMMA NoneMerged ==
  Merged = <<>> => ~\E n \in DOMAIN Merged : ~OnAxis(Resolved(Merged[n]))
<1>1. DOMAIN <<>> = {}
  OBVIOUS
<1> QED BY <1>1

LEMMA UnknownStep ==
  ASSUME LayerInv, UnknownReported, [Next]_vars
  PROVE  UnknownReported'
<1>1. CASE UNCHANGED vars
  BY <1>1 DEF vars, UnknownReported, Done, BothGiven
<1> SUFFICES ASSUME Next, pc' = "done", req.doc.dataset = "unknown",
                    req.doc.form \notin {"bad json", "bad toml"}
             PROVE  \/ outcome'.state = "UnknownDatasetError"
                    \/ /\ outcome'.state = "TypeError"
                       /\ BothGiven \/ req.doc.form \in {"other", "toml"}
                    \/ outcome'.state = "CatalogError"
                    \/ /\ outcome'.state = "TetError" /\ response'.state = "none"
                       /\ req.doc.form = "toml"
  <2>1. req' = req
    BY <1>1 DEF vars, Next, ResolveAxes, Coerce, TransformHints, ApplyHints, RequireDataset,
                SummaryFails, EngineRaises, EngineFails, EngineAnswers, Answer, Materialise, Check, Unwrap
  <2> QED BY <1>1, <2>1 DEF UnknownReported, Done, BothGiven
<1>0. /\ doc.dataset = "unknown" /\ doc.op = req.doc.op
      /\ RequestInv /\ DocInv /\ UnknownInv
      /\ req.via \in Entries \/ req.via \in Methods
  BY DEF LayerInv, DocInv, RequestInv, RequestType
<1>2. CASE ResolveAxes
  <2>1. ~(LookedUp /\ req.doc.dataset # "known") => Merged = <<>> /\ req.via = "reduce"
    BY DEF LookedUp
  <2>2. Merged = <<>> => ~\E n \in DOMAIN Merged : ~OnAxis(Resolved(Merged[n]))
    BY NoneMerged
  <2>3. req.via = "reduce" => ~NeedsAxis
    BY <1>0 DEF NeedsAxis, RequestInv, Reductions, Matrices
  <2>4. CASE BothGiven /\ (LookedUp /\ req.doc.dataset # "known" => req.via = "reduce")
    <3>1. Stop("TypeError", {})
      BY <1>2, <2>4 DEF ResolveAxes, Refused, Raise
    <3> QED BY <2>4, <3>1, StopFacts
  <2>5. CASE /\ LookedUp /\ req.doc.dataset # "known"
             /\ BothGiven => req.via # "reduce"
    <3>1. Stop("UnknownDatasetError", {})
      BY <1>2, <2>5 DEF ResolveAxes, Refused, Raise
    <3> QED BY <3>1, StopFacts
  <2>6. CASE ~BothGiven /\ ~(LookedUp /\ req.doc.dataset # "known")
    <3>1. pc' = IF req.via = "transform" THEN "transform" ELSE "hints"
      BY <1>2, <2>1, <2>2, <2>3, <2>6 DEF ResolveAxes
    <3> QED BY <3>1
  <2> QED BY <2>1, <2>4, <2>5, <2>6
<1>3. CASE Coerce
  <2>1. pc = "coerce" /\ doc = req.doc
    BY <1>0, <1>3 DEF Coerce, DocInv
  <2>2. Stop("TypeError", {}) /\ req.doc.form = "other"
    BY <1>3, <2>1 DEF Coerce, Raise
  <2> QED BY <2>2, StopFacts
<1>4. CASE ApplyHints
  <2>0. pc = "hints" /\ Stop("TypeError", {}) /\ doc.form # "dict"
    BY <1>4 DEF ApplyHints, Raise
  <2>1. pc = "hints" /\ outcome'.state = "TypeError" /\ doc.form # "dict"
    BY <2>0, StopFacts
  <2>2. doc.form = req.doc.form /\ req.via \in Entries
    BY <1>0, <2>1 DEF DocInv
  <2>3. doc.form \in {"dict", "json", "toml", "bad json", "bad toml", "other"}
    BY <1>0, <2>2 DEF RequestInv, RequestType, DocInv, DocType, Methods, Entries
  <2> QED BY <1>0, <2>1, <2>2, <2>3 DEF DocInv
<1>5. CASE RequireDataset
  <2>1. Stop("UnknownDatasetError", {})
    BY <1>5 DEF RequireDataset, Raise
  <2> QED BY <2>1, StopFacts
<1>6. CASE EngineRaises
  <2>1. pc = "engine" /\ doc.form = "bad toml"
    BY <1>0, <1>6 DEF EngineRaises
  <2> QED BY <1>0, <2>1 DEF DocInv
<1>7. CASE Check
  <2>1. pc = "check" /\ response.state = "not matched"
    BY <1>0, <1>7 DEF Check, UnknownInv
  <2>2. Stop("UnknownDatasetError", {})
    BY <1>7, <2>1 DEF Check, MatchedFirst, Raise
  <2> QED BY <2>2, StopFacts
<1>8. CASE TransformHints \/ EngineAnswers
  BY <1>8 DEF TransformHints, EngineAnswers, Answer
<1>9. CASE Materialise \/ Unwrap
  BY <1>0, <1>9 DEF Materialise, Unwrap, UnknownInv
<1>10. CASE SummaryFails
  BY <1>10, StopFacts DEF SummaryFails, Raise
<1>11. CASE EngineFails
  <2>1. pc = "engine" /\ doc.form = "toml" /\ response' = response /\ response.state = "none"
        /\ (Stop("TetError", {}) \/ Stop("CatalogError", {}))
    <3>1. pc = "engine" /\ response' = response /\ (Stop("TetError", {}) \/ Stop("CatalogError", {}))
      BY <1>11 DEF EngineFails, Raise
    <3>2. doc.form \in {"toml", "bad toml"} /\ response.state = "none"
      BY <3>1 DEF LayerInv, UnknownInv, ResponseInv
    <3>3. doc.form = "bad toml" => req.doc.form = "bad toml"
      BY <1>0, <3>1 DEF DocInv
    <3> QED BY <3>1, <3>2, <3>3
  <2>2. req.doc.form = "toml"
    BY <1>0, <2>1 DEF DocInv
  <2> QED BY <2>1, <2>2, StopFacts
<1> QED BY <1>2, <1>3, <1>4, <1>5, <1>6, <1>7, <1>8, <1>9, <1>10, <1>11 DEF Next

-----------------------------------------------------------------------------
(* The theorems.  None assumes more than Query does. *)

(* A dataset that the file does not have is reported as such by every entry
   point (_require_dataset, check_query_response, _resolve_reduction_axes). *)
THEOREM UnknownAlwaysReported == Spec => []UnknownReported
<1>1. Init => UnknownReported
  <2>1. LayerInv /\ pc # "done" => UnknownReported
    BY DEF UnknownReported, Done
  <2> QED BY <2>1, InitInv, InitStage
<1> QED BY <1>1, UnknownStep, LayerAlwaysInv, PTL DEF Spec

(* The engine executes with every keyword hint, and with the keys the document
   set where none overrides them (apply_execution_hints). *)
THEOREM HintsAlwaysReachEngine == Spec => []HintsReachEngine
<1>1. LayerInv => HintsReachEngine
  BY DEF LayerInv, HintsInv, HintsReachEngine, WithHints
<1> QED BY <1>1, LayerAlwaysInv, PTL

(* The axes on the wire are those the caller meant, in their order
   (_resolve_reduction_axes, Dataset.axis_index). *)
THEOREM AxesAlwaysAsMeant == Spec => []AxesAsMeant
<1>1. LayerInv => AxesAsMeant
  BY DEF LayerInv, DocInv, RequestInv, RequestType, Meant, AxesAsMeant
<1> QED BY <1>1, LayerAlwaysInv, PTL
=============================================================================
