------------------------------- MODULE Query -------------------------------
(***************************************************************************)
(* The query layer of TetFile (file.py, _query/, _transform/ops.py,        *)
(* catalog.py, errors.py): a request takes a document in one of its forms, *)
(* or the arguments of a method, through resolution of axes, execution     *)
(* hints, the lookup of the dataset, the engine, the checks of its         *)
(* response and the unwrapping of the result.                              *)
(*                                                                         *)
(* The engine is tetration's: it answers any valid document, may reject    *)
(* it or fail, and fills the execution fields of the operation.  A         *)
(* transform also leaves its pass-1 statistics there                       *)
(* (tests/test_qc_ops.py).  A document of several operations is not one    *)
(* that it executes (docs/operations.md).                                  *)
(*                                                                         *)
(* Every request is against one dataset of rank NDim whose dim_names are   *)
(* Names; an axis is an integer or a name, written <<"int", i>> or         *)
(* <<"name", n>>.                                                          *)
(***************************************************************************)
EXTENDS Integers, Sequences, FiniteSets, SequencesExt

CONSTANTS
  Ops,       \* operations that are asked for; "none" is a selection only
  NDim,      \* rank of the dataset
  Names,     \* its dim_names, <<>> when the footer has none
  MaxAxes,   \* bound: axes that are named in one request
  Hints      \* execution keys: device, memory_budget_*

ASSUME ConstantsAssumption ==
  /\ NDim \in Nat \ {0}
  /\ Names \in Seq(Range(Names)) /\ Len(Names) \in {0, NDim}
  /\ MaxAxes \in Nat

VARIABLES
  req,       \* the request
  pc,        \* the stage it is at
  doc,       \* the document as it stands
  response,  \* the engine's answer
  outcome    \* what the caller gets

vars == <<req, pc, doc, response, outcome>>

Reductions == {"mean", "std", "min", "null_count"}     \* of REDUCTION_OPS
Order == <<"mean", "min", "std", "null_count">>        \* as they are there
Matrices == {"covariance", "correlation"}              \* _MATRIX_FIELDS
Transforms == {"zscore", "minmax"}
Entries == {"query", "query_execute", "execute", "plan_only"}
Sinks == {"ram", "spill", "sidecar"}                   \* TransformWrite

Ints == {<<"int", i>> : i \in (-NDim - 1) .. NDim}
Labels == {<<"name", n>> : n \in Range(Names) \cup {"nobody"}}
AxisLists == UNION {[1 .. k -> Ints \cup Labels] : k \in 0 .. MaxAxes}
NoAxis == <<"none", 0>>     \* axis= is left out
NoAxes == <<NoAxis>>        \* axes= is left out; axes=[] is <<>>

(* Which execution keys are set, and by whom. *)
Execution == [Hints -> {"unset", "document", "keyword"}]
Unset == [k \in Hints |-> "unset"]

NoDoc == [form |-> "none", dataset |-> "known", op |-> "none", axes |-> <<>>,
          execution |-> Unset]
NoResponse == [state |-> "none", fields |-> {}]
NoOutcome == [state |-> "none", fields |-> {}]

(* Documents: what the caller wrote.  A method has no document of its own. *)
Documents(op, own) ==
  [form: {"dict", "json", "toml", "bad json", "bad toml", "other"},
   dataset: {"known", "unknown", "absent"}, op: {op}, axes: {<<>>, <<0>>},
   execution: {own}]

Asked(r, stage) ==
  /\ req = r
  /\ pc = stage
  /\ doc = r.doc
  /\ response = NoResponse
  /\ outcome = NoOutcome

(* query(), query_execute(), execute() and plan_only() of a document.  Only
   the middle two take hints. *)
AskDocument ==
  \E via \in Entries, op \in Ops \cup {"several"}, hints \in SUBSET Hints, preview, raw \in BOOLEAN :
    \E own \in [Hints -> {"unset", "document"}] :
      \E d \in Documents(op, own) :
        /\ via \in {"query_execute", "execute"} \/ hints = {}
        /\ Asked([via |-> via, doc |-> d, axes |-> NoAxes, axis |-> NoAxis, hints |-> hints,
                  preview |-> preview, raw |-> raw, sink |-> "none"], "coerce")

(* A method is asked with axes= or axis= or, wrongly, both. *)
AskMethod(via, op, axes, axis, sink) ==
  \E dataset \in {"known", "unknown"}, hints \in SUBSET Hints, preview, raw \in BOOLEAN :
    /\ via = "transform" => ~preview
    /\ Asked([via |-> via, doc |-> [NoDoc EXCEPT !.op = op, !.dataset = dataset],
              axes |-> axes, axis |-> axis, hints |-> hints,
              preview |-> preview, raw |-> raw, sink |-> sink], "axes")

AxisArgs == AxisLists \cup {NoAxes}
AxisOr(axes) == IF Len(axes) > 1 THEN {NoAxis} ELSE {NoAxis} \cup Ints \cup Labels

(* mean(), sum(), std(), arg_min(), ... : all of them are _reduce(). *)
AskReduction ==
  \E op \in Ops \cap (Reductions \ {"null_count"}), axes \in AxisArgs :
    \E axis \in AxisOr(axes) : AskMethod("reduce", op, axes, axis, "none")

(* quantile(), histogram() and null_count() have a body. *)
AskShaped ==
  \E op \in Ops \cap {"quantile", "histogram", "null_count"}, axes \in AxisArgs :
    \E axis \in AxisOr(axes) : AskMethod("shaped", op, axes, axis, "none")

(* covariance() and correlation() take one axis. *)
AskMatrix ==
  \E op \in Ops \cap Matrices, axis \in {NoAxis} \cup Ints \cup Labels :
    AskMethod("shaped", op, NoAxes, axis, "none")

(* transform.to_numpy, to_spill and to_sidecar. *)
AskTransform ==
  \E op \in Ops \cap Transforms, axes \in AxisArgs, sink \in Sinks :
    \E axis \in AxisOr(axes) : AskMethod("transform", op, axes, axis, sink)

Init == AskDocument \/ AskReduction \/ AskShaped \/ AskMatrix \/ AskTransform

Stop(state, fields) ==
  /\ pc' = "done"
  /\ outcome' = [state |-> state, fields |-> fields]
Raise(error) == Stop(error, {})

-----------------------------------------------------------------------------
(* The arguments of a method: _resolve_reduction_axes, wire_axis_fields *)

LastAxis(i) == i + NDim - 1     \* a slip: -1 is the last but one
FromEnd(i) == i + NDim

(* Dataset.axis_index *)
Resolved(a) ==
  CASE a[1] = "int" /\ a[2] < 0 -> FromEnd(a[2])
    [] a[1] = "int" /\ a[2] >= 0 -> a[2]
    [] a[1] = "name" /\ a[2] \in Range(Names) ->
         (CHOOSE i \in 1 .. Len(Names) :
            /\ Names[i] = a[2]
            /\ \A j \in 1 .. i - 1 : Names[j] # a[2]) - 1
    [] OTHER                    -> -1
OnAxis(i) == 0 <= i /\ i < NDim

Merged ==
  CASE req.axis # NoAxis                         -> <<req.axis>>
    [] req.axis = NoAxis /\ req.axes = NoAxes    -> <<>>
    [] OTHER                                     -> req.axes

BothGiven == req.axis # NoAxis /\ req.axes # NoAxes

(* The reductions look the dataset up when there are axes to resolve, the
   others always, and first. *)
LookedUp == req.via # "reduce" \/ Merged # <<>>

NeedsAxis == req.doc.op \in Matrices /\ Merged = <<>>

Refused(error) == Raise(error) /\ UNCHANGED doc

ResolveAxes ==
  /\ pc = "axes"
  /\ LET unknown == LookedUp /\ req.doc.dataset # "known"
         badAxis == \E n \in DOMAIN Merged : ~OnAxis(Resolved(Merged[n]))
     IN  CASE BothGiven /\ (unknown => req.via = "reduce") -> Refused("TypeError")
           [] unknown /\ (BothGiven => req.via # "reduce") -> Refused("UnknownDatasetError")
           [] ~BothGiven /\ ~unknown /\ badAxis -> Refused("UnknownAxisError")
           [] ~BothGiven /\ ~unknown /\ NeedsAxis -> Refused("ValueError")
           [] OTHER ->
                /\ doc' = [req.doc EXCEPT !.form = "dict",
                             !.axes = [n \in DOMAIN Merged |-> Resolved(Merged[n])]]
                /\ pc' = IF req.via = "transform" THEN "transform" ELSE "hints"
                /\ UNCHANGED outcome
  /\ UNCHANGED <<req, response>>

(* _summary_dict: the catalog of the file cannot be read.  The summary is read
   once, by the first lookup. *)
SummaryFails ==
  /\ \/ pc = "axes" /\ LookedUp /\ ~(req.via = "reduce" /\ BothGiven)
     \/ /\ pc = "require" /\ doc.form = "dict" /\ doc.dataset # "absent"
        /\ req.via \in Entries \/ ~LookedUp
  /\ Raise("CatalogError")
  /\ UNCHANGED <<req, doc, response>>

-----------------------------------------------------------------------------
(* coerce_query_doc, apply_execution_hints, _require_dataset *)

Coerce ==
  /\ pc = "coerce"
  /\ \/ doc.form = "bad json" /\ Raise("TetError") /\ UNCHANGED doc
     \/ doc.form = "other" /\ Raise("TypeError") /\ UNCHANGED doc
     \/ /\ doc.form \notin {"bad json", "other"}
        /\ doc' = [doc EXCEPT !.form = IF doc.form = "json" THEN "dict" ELSE @]
        /\ pc' = "hints"
        /\ UNCHANGED outcome
  /\ UNCHANGED <<req, response>>

HintsReplaceExecution(execution) ==     \* a slip: the document's own are lost
  [k \in Hints |-> IF k \in req.hints THEN "keyword" ELSE "unset"]
WithHints(execution) ==
  [k \in Hints |-> IF k \in req.hints THEN "keyword" ELSE execution[k]]

(* TransformOps._run sets them itself, and _execute_doc once more. *)
TransformHints ==
  /\ pc = "transform"
  /\ doc' = [doc EXCEPT !.execution = WithHints(@)]
  /\ pc' = IF req.sink = "ram" /\ ~req.raw THEN "materialise" ELSE "hints"
  /\ UNCHANGED <<req, response, outcome>>

ApplyHints ==
  /\ pc = "hints"
  /\ IF doc.form # "dict" /\ req.hints # {}
     THEN Raise("TypeError") /\ UNCHANGED doc
     ELSE /\ doc' = IF req.hints = {} THEN doc
                    ELSE [doc EXCEPT !.execution = WithHints(@)]
          /\ pc' = "require"
          /\ UNCHANGED outcome
  /\ UNCHANGED <<req, response>>

(* Only of a mapping: a TOML text goes to the engine as it is. *)
RequireDataset ==
  /\ pc = "require"
  /\ IF doc.form = "dict" /\ doc.dataset = "unknown"
     THEN Raise("UnknownDatasetError")
     ELSE pc' = "engine" /\ UNCHANGED outcome
  /\ UNCHANGED <<req, doc, response>>

-----------------------------------------------------------------------------
(* The engine *)

Full == doc.axes = <<>> \/ {doc.axes[n] : n \in DOMAIN doc.axes} = 0 .. NDim - 1

Fields ==
  CASE doc.op \in Reductions -> IF Full THEN {<<"scalar", doc.op>>}
                                ELSE {<<"reduced", doc.op>>}
    [] doc.op = "quantile"   -> IF Full THEN {<<"scalar", "quantile">>} ELSE {}
    [] doc.op = "histogram"  -> IF Full THEN {<<"counts", "histogram">>}
                                ELSE {<<"reduced", "histogram">>}
    [] doc.op \in Matrices   -> {<<"matrix", doc.op>>}
    [] doc.op = "zscore"     -> {<<"method", "zscore">>, <<"scalar", "mean">>, <<"scalar", "std">>}
    [] doc.op = "minmax"     -> {<<"method", "minmax">>, <<"scalar", "min">>}
    [] OTHER                 -> {}

Answer(state, fields) ==
  /\ response' = [state |-> state, fields |-> fields]
  /\ pc' = "check"
  /\ UNCHANGED <<req, doc, outcome>>

EngineRaises ==     \* parse_document, validate_query
  /\ pc = "engine"
  /\ doc.form = "bad toml" \/ doc.dataset = "absent"
  /\ Raise("TetError")
  /\ UNCHANGED <<req, doc, response>>

(* The engine fails: it cannot read the catalog or the chunks, or runs out of
   its budget. *)
EngineFails ==
  /\ pc = "engine"
  /\ Raise("TetError") \/ Raise("CatalogError")
  /\ UNCHANGED <<req, doc, response>>

(* The path of a spill may be missing from the execution block. *)
SpillPaths == IF req.sink = "spill" THEN {{}, {<<"path", "spill">>}} ELSE {{}}

EngineAnswers ==
  /\ pc = "engine"
  /\ doc.form # "bad toml" /\ doc.dataset # "absent"
  /\ IF doc.dataset = "unknown" THEN Answer("not matched", {})
     ELSE \/ Answer("rejected", {})
          \/ /\ req.via = "plan_only" \/ doc.op \in {"none", "several"}
             /\ Answer("planned", {})
          \/ /\ req.via # "plan_only" /\ doc.op # "several"
             /\ doc.op \in Matrices => doc.axes # <<>>
             /\ \E path \in SpillPaths : Answer("executed", Fields \cup path)

(* transform_to_numpy of the native handle: an array and no response. *)
Materialise ==
  /\ pc = "materialise"
  /\ \/ (Raise("TetError") \/ Raise("CatalogError")) /\ UNCHANGED response
     \/ Stop("array", {}) /\ response' = [state |-> "executed", fields |-> {}]
  /\ UNCHANGED <<req, doc>>

-----------------------------------------------------------------------------
(* check_query_response *)

AcceptedFirst == FALSE      \* a slip: accepted is looked at before matched
MatchedFirst == TRUE

(* op_key_from_doc: the sole operation of a mapping. *)
SoleOp == doc.form = "dict" /\ doc.op \notin {"none", "several"}

(* A TOML text always needs an execution block in query(), a mapping only
   when it has one operation. *)
RequiresExecution == req.via # "plan_only" /\ (doc.form = "toml" \/ SoleOp)

Check ==
  /\ pc = "check"
  /\ \/ response.state = "not matched"
        /\ Raise(IF MatchedFirst THEN "UnknownDatasetError" ELSE "TetError")
     \/ response.state = "rejected" /\ Raise("TetError")
     \/ response.state = "planned" /\ RequiresExecution /\ Raise("TetError")
     \/ /\ \/ response.state = "executed"
           \/ response.state = "planned" /\ ~RequiresExecution
        /\ pc' = "unwrap"
        /\ UNCHANGED outcome
  /\ UNCHANGED <<req, doc, response>>

-----------------------------------------------------------------------------
(* QueryResult.from_response, _infer_op_from_execution *)

Reported(kind, op) == <<kind, op>> \in response.fields

(* The first operation of REDUCTION_OPS that has a field; a transform is
   recognised last. *)
Inferred ==
  LET seen == SelectSeq(Order, LAMBDA o : Reported("scalar", o) \/ Reported("reduced", o))
  IN  IF seen # <<>> THEN Head(seen)
      ELSE IF Reported("scalar", "quantile") THEN "quantile"
      ELSE IF Reported("counts", "histogram") \/ Reported("reduced", "histogram")
           THEN "histogram"
      ELSE IF \E m \in Matrices : Reported("matrix", m)
           THEN CHOOSE m \in Matrices : Reported("matrix", m)
      ELSE IF \E m \in Transforms : Reported("method", m) THEN "transform"
      ELSE "none"

(* plan_only() says no operation. *)
OpOfResponse == IF SoleOp /\ req.via # "plan_only" THEN doc.op ELSE Inferred

(* The typed fields that are filled for an operation. *)
FieldsOf(op) == {f \in response.fields : f[2] = op /\ op \notin Transforms}
HasScalar(op) == <<"scalar", op>> \in FieldsOf(op)

(* A reduction gives the scalar alone when no axes were named, the other
   methods when there is one, and nobody when a preview was asked for. *)
AloneOf(op) ==
  /\ ~req.preview
  /\ \/ req.via = "reduce" /\ doc.axes = <<>>
     \/ req.via = "shaped" /\ HasScalar(op)

Unwrap ==
  /\ pc = "unwrap"
  /\ LET op == OpOfResponse
     IN  CASE req.raw -> Stop("wire", {})
           [] ~req.raw /\ req.via = "transform" ->
                IF req.sink = "spill" /\ ~Reported("path", "spill") THEN Raise("ValueError")
                ELSE Stop("TransformResult", {})
           [] ~req.raw /\ AloneOf(op) /\ ~HasScalar(op) -> Raise("TetError")
           [] ~req.raw /\ AloneOf(op) /\ HasScalar(op) -> Stop("scalar", {<<"scalar", op>>})
           [] OTHER -> Stop("QueryResult", FieldsOf(op))
  /\ UNCHANGED <<req, doc, response>>

-----------------------------------------------------------------------------

Next ==
  \/ ResolveAxes \/ Coerce \/ TransformHints \/ ApplyHints \/ RequireDataset \/ SummaryFails
  \/ EngineRaises \/ EngineFails \/ EngineAnswers \/ Materialise \/ Check \/ Unwrap

Spec == Init /\ [][Next]_vars

-----------------------------------------------------------------------------
(* Properties *)

Done == pc = "done"
Errors == {"TetError", "CatalogError", "TypeError", "ValueError", "UnknownDatasetError",
           "UnknownAxisError"}
Returned == Done /\ outcome.state \notin Errors

(* A dataset that the file does not have is reported as such, whichever
   entry point was called and whatever form the document has: only a request
   that is refused for what it is, whatever the dataset, gets a TypeError, only
   a file whose catalog cannot be read a CatalogError, and only a text, which
   the engine is the first to look into, its failure. *)
UnknownReported ==
  Done /\ req.doc.dataset = "unknown" /\ req.doc.form \notin {"bad json", "bad toml"} =>
    \/ outcome.state = "UnknownDatasetError"
    \/ outcome.state = "TypeError" /\ (BothGiven \/ req.doc.form \in {"other", "toml"})
    \/ outcome.state = "CatalogError"
    \/ outcome.state = "TetError" /\ response.state = "none" /\ req.doc.form = "toml"

(* What the engine executed had every keyword hint, and the keys that the
   document set itself where no keyword overrode them. *)
HintsReachEngine ==
  response.state = "executed" =>
    \A k \in Hints :
      doc.execution[k] = IF k \in req.hints THEN "keyword" ELSE req.doc.execution[k]

(* The axes on the wire are the ones that were meant, counted from the front
   or from the end or by name, and in their order. *)
Means(a, i) ==
  CASE a[1] = "int"  -> a[2] \in {i, i - NDim}
    [] a[1] = "name" -> Names # <<>> /\ Names[i + 1] = a[2]
AxesAsMeant ==
  response.state = "executed" /\ req.via \notin Entries =>
    /\ Len(doc.axes) = Len(Merged)
    /\ \A n \in DOMAIN Merged : doc.axes[n] \in 0 .. NDim - 1 /\ Means(Merged[n], doc.axes[n])

(* The aggregate of a result belongs to the operation that was asked for,
   whatever form the document has (QueryResult.scalar and .reduced). *)
ResultOfOp ==
  Returned => \A f \in outcome.fields : f[2] = req.doc.op
=============================================================================
