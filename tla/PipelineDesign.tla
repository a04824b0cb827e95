--------------------------- MODULE PipelineDesign ---------------------------
(***************************************************************************)
(* The compiler of monitoring designs: a graph of nodes is refused with    *)
(* the codes of its errors or becomes a plan, the order in which its steps *)
(* run, the features each node gives with the range they are known to stay *)
(* in, and the cut between what is prepared and what learns.  Settings are *)
(* integers, a step that learns gives features of an unknown range, and    *)
(* wording, labels and fingerprints are left out.                          *)
(***************************************************************************)
EXTENDS Integers, Sequences, FiniteSets, SequencesExt, FiniteSetsExt

\* A design is [nodes, edges]: a node is [kind, step, mode, size, low, high, uses, name], where
\* `uses' are the features of Applies to, and an edge [source, target, order].
Kinds == {"source", "transform", "merge", "detector", "policy", "output"}
LaneSteps == {"rolling", "despike", "change", "math", "range"}
RowSteps == {"aggregate", "gate"}
PrepareSteps == LaneSteps \cup RowSteps

MaxDetectors == 2
MaxWindowValues == 8

Of(design, kind) == {n \in DOMAIN design.nodes : design.nodes[n].kind = kind}
Into(design, n) == {e \in design.edges : e.target = n}
From(design, n) == {e.target : e \in {f \in design.edges : f.source = n}}
InOrder(edges) == SetToSortSeq(edges, LAMBDA e, f : e.order < f.order)
\* incoming, sorted by the order of the connections
Parents(design, n) == LET edges == InOrder(Into(design, n)) IN [i \in DOMAIN edges |-> edges[i].source]

-----------------------------------------------------------------------------
(* Connections.                                                            *)

Gives(kind) == CASE kind \in {"source", "transform", "merge"} -> "features"
                 [] kind = "detector" -> "scores"
                 [] kind = "policy" -> "decisions"
                 [] kind = "output" -> "evidence"
Takes(kind) == CASE kind = "source" -> "nothing"
                 [] kind \in {"transform", "merge", "detector"} -> "features"
                 [] kind = "policy" -> "scores"
                 [] kind = "output" -> "decisions"

\* _validate_identity, _validate_node_connections, _index_connections
Counted(design) ==
  /\ \A kind \in {"source", "policy", "output"} : Cardinality(Of(design, kind)) = 1
  /\ Cardinality(Of(design, "detector")) \in 1 .. MaxDetectors

Required(design, kind) ==
  CASE kind = "source" -> 0
    [] kind = "merge" -> 2
    [] kind = "policy" -> Max({1, Cardinality(Of(design, "detector"))})
    [] OTHER -> 1

\* Mutant: a node may have more connections than it takes.
FedAtLeast(design, n) == Cardinality(Into(design, n)) >= Required(design, design.nodes[n].kind)
Fed(design, n) ==
  LET kind == design.nodes[n].kind
      count == Cardinality(Into(design, n)) IN
  IF kind = "merge" THEN count >= 2 ELSE count = Required(design, kind)

Connected(design) ==
  \A n \in DOMAIN design.nodes :
    /\ Fed(design, n)
    /\ Cardinality({e.order : e \in Into(design, n)}) = Cardinality(Into(design, n))
    /\ (design.nodes[n].kind = "output") = (From(design, n) = {})
Typed(design) ==
  \A e \in design.edges :
    Gives(design.nodes[e.source].kind) = Takes(design.nodes[e.target].kind)

\* _topological_order: nodes whose connections all come from nodes before them, layer by layer
Placed(design, order) ==
  order \o SetToSeq({n \in DOMAIN design.nodes \ ToSet(order) :
                       \A e \in Into(design, n) : e.source \in ToSet(order)})
Order(design) ==
  FoldLeft(LAMBDA order, i : Placed(design, order), <<>>,
           [i \in 1 .. Cardinality(DOMAIN design.nodes) |-> i])

-----------------------------------------------------------------------------
(* Features and their ranges: a range has at most one known bound at each  *)
(* end, so a bound is a set of at most one number.                         *)

Open == [low |-> {}, high |-> {}]
Within(v, range) == (\A l \in range.low : v >= l) /\ (\A h \in range.high : v <= h)

Absolute(v) == IF v < 0 THEN -v ELSE v

\* Mutant: the ends of a range are taken for those of its magnitude.
MagnitudeOfEnds(r) == r
\* _magnitude
Magnitude(r) ==
  CASE \E l \in r.low : l >= 0 -> r
    [] \E h \in r.high : h <= 0 ->
         [low |-> {-h : h \in r.high}, high |-> {-l : l \in r.low}]
    [] OTHER -> [low |-> {0}, high |-> {Max({-l, h}) : l \in r.low, h \in r.high}]

Clip(step, v) == Max({step.low, Min({step.high, v})})
Width(r) == {h - l : l \in r.low, h \in r.high}

\* _range_bounds, when values outside are skipped
Skipped(step, r) ==
  LET low == Max({step.low} \cup r.low)
      high == Min({step.high} \cup r.high) IN
  IF low > high THEN [low |-> {step.low}, high |-> {step.high}] ELSE [low |-> {low}, high |-> {high}]

\* prepared_bounds
PreparedBounds(step, r) ==
  CASE step.step = "despike" -> r
    [] step.step = "rolling" ->
         IF step.mode = "range" THEN [low |-> {0}, high |-> Width(r)] ELSE r
    [] step.step = "change" ->
         (CASE step.mode = "lag" -> r
            [] step.mode = "difference" -> [low |-> {-w : w \in Width(r)}, high |-> Width(r)]
            [] step.mode = "percent" -> Open)
    [] step.step = "math" ->
         LET m == Magnitude(r)
             ends(s) == {step.size * v + step.low : v \in s} IN
         (CASE step.mode = "abs" -> m
            [] step.mode = "square" ->
                 [low |-> {l * l : l \in m.low}, high |-> {h * h : h \in m.high}]
            [] step.mode = "linear" ->
                 IF step.size >= 0 THEN [low |-> ends(r.low), high |-> ends(r.high)]
                                   ELSE [low |-> ends(r.high), high |-> ends(r.low)])
    [] step.step = "range" ->
         IF step.mode = "skip" THEN Skipped(step, r)
         ELSE [low |-> IF r.low = {} THEN {step.low} ELSE {Clip(step, l) : l \in r.low},
               high |-> IF r.high = {} THEN {step.high} ELSE {Clip(step, h) : h \in r.high}]

\* _hull, of the ranges that an Aggregate combines
Hull(mode, ranges) ==
  LET lows == UNION {r.low : r \in Range(ranges)}
      highs == UNION {r.high : r \in Range(ranges)}
      known(end) == \A r \in Range(ranges) : (IF end = "low" THEN r.low ELSE r.high) # {}
      sum(end) == MapThenSumSet(LAMBDA f : CHOOSE v \in (IF end = "low" THEN ranges[f].low
                                                        ELSE ranges[f].high) : TRUE,
                                DOMAIN ranges) IN
  CASE mode = "range" -> [low |-> {0}, high |-> IF known("low") /\ known("high")
                                                  THEN {Max(highs) - Min(lows)} ELSE {}]
    [] mode = "sum" -> [low |-> IF known("low") THEN {sum("low")} ELSE {},
                        high |-> IF known("high") THEN {sum("high")} ELSE {}]
    [] mode = "min" -> [low |-> IF known("low") THEN {Min(lows)} ELSE {},
                        high |-> IF highs # {} THEN {Min(highs)} ELSE {}]
    [] mode = "max" -> [low |-> IF lows # {} THEN {Max(lows)} ELSE {},
                        high |-> IF known("high") THEN {Max(highs)} ELSE {}]

NoFeatures == <<>>
Merged(branches) == FoldLeft(LAMBDA all, branch : branch @@ all, NoFeatures, branches)

\* Names that a node cannot make its features from: _select, step_scope, combined_columns,
\* and a merge of branches that share a name.  A policy that combines detectors has none.
Clashes(design, n, branches) ==
  LET node == design.nodes[n]
      names == DOMAIN Merged(branches) IN
  node.kind # "policy" /\
  (\/ ~ (node.uses \subseteq names)
   \/ Cardinality(names) # FoldLeft(LAMBDA sum, b : sum + Cardinality(DOMAIN b), 0, branches)
   \/ node.step = "aggregate" /\ (Cardinality(node.uses) < 2 \/ node.name \in names)
   \/ node.step = "rename" /\ node.name \in names)

\* node_features; what comes after a detector carries scores, whose features nothing reads.
Features(design, n, branches, slots) ==
  LET node == design.nodes[n]
      all == Merged(branches) IN
  CASE node.kind = "source" -> [s \in slots |-> Open]
    [] node.step \in LaneSteps ->
         [f \in DOMAIN all |-> IF f \in node.uses THEN PreparedBounds(node, all[f]) ELSE all[f]]
    [] node.step = "aggregate" ->
         (node.name :> Hull(node.mode, [f \in node.uses |-> all[f]])) @@ all
    [] node.step = "select" -> [f \in node.uses |-> all[f]]
    [] node.step = "rename" ->
         [f \in (DOMAIN all \ node.uses) \cup {node.name} |->
            IF f = node.name THEN all[CHOOSE g \in node.uses : TRUE] ELSE all[f]]
    [] node.step = "scaler" -> [f \in DOMAIN all |-> Open]
    [] OTHER -> all

\* _propagate_features: a node whose features cannot be told has none, nor has what follows it.
Propagated(design, slots) ==
  FoldLeft(LAMBDA found, n :
             LET parents == Parents(design, n)
                 branches == [i \in DOMAIN parents |-> found[parents[i]]] IN
             IF ToSet(parents) \subseteq DOMAIN found /\ ~Clashes(design, n, branches)
               THEN (n :> Features(design, n, branches, slots)) @@ found ELSE found,
           <<>>, Order(design))

-----------------------------------------------------------------------------
(* Stages.                                                                 *)

Prepares(design, n) == design.nodes[n].step \in PrepareSteps
Learns(design, n) == design.nodes[n].step = "scaler"

\* What reaches a node.
Before(design, n) ==
  FoldLeft(LAMBDA found, i : found \cup UNION {{e.source : e \in Into(design, m)} : m \in found},
           {e.source : e \in Into(design, n)}, Order(design))

\* Mutant: only the node right before a prepare step is looked at.
StagedNext(design) ==
  \A n \in DOMAIN design.nodes : Prepares(design, n) =>
    \A e \in Into(design, n) : ~Learns(design, e.source)
\* _validate_stages
Staged(design) ==
  \A n \in DOMAIN design.nodes : Prepares(design, n) =>
    \A m \in Before(design, n) : ~Learns(design, m)

Lead(step) == CASE step.step \in {"rolling", "despike"} -> step.size - 1
                [] step.step = "change" -> step.size
                [] OTHER -> 0
Window(step) == IF step.step \in {"rolling", "despike", "change"} THEN step.size ELSE 0

\* _validate_windows
Affordable(design) ==
  MapThenSumSet(LAMBDA n : Window(design.nodes[n]) * Cardinality(design.nodes[n].uses),
                DOMAIN design.nodes) <= MaxWindowValues

\* validate_pipeline
Errors(design, slots) ==
  {code \in {"node_count", "connection", "port_type", "cycle", "features", "stage",
             "prepare_budget"} :
     CASE code = "node_count" -> ~Counted(design)
       [] code = "connection" -> ~Connected(design)
       [] code = "port_type" -> ~Typed(design)
       [] code = "cycle" -> Len(Order(design)) # Cardinality(DOMAIN design.nodes)
       [] code = "features" -> DOMAIN Propagated(design, slots) # DOMAIN design.nodes
       [] code = "stage" -> ~Staged(design)
       [] code = "prepare_budget" -> ~Affordable(design)}

\* stage_split: prepare steps and what comes before them; the frontier is what others read.
Source(design) == CHOOSE n \in DOMAIN design.nodes : design.nodes[n].kind = "source"
Members(design) ==
  LET steps == {n \in DOMAIN design.nodes : Prepares(design, n)} IN
  (steps \cup UNION {Before(design, n) : n \in steps}) \ {Source(design)}
Frontier(design) ==
  {n \in Members(design) \cup {Source(design)} : ~ (From(design, n) \subseteq Members(design))}

\* The plan of a design without errors; `required' is first_output of the frontier.
Compile(design, slots) ==
  LET members == Members(design)
      order == SelectSeq(Order(design), LAMBDA n : n \in members)
      first == FoldLeft(LAMBDA f, n :
                 (n :> Lead(design.nodes[n]) + Max({f[p] : p \in ToSet(Parents(design, n))})) @@ f,
                 Source(design) :> 1, order) IN
  [steps |-> order, source |-> Source(design), frontier |-> Frontier(design),
   parents |-> [n \in members |-> Parents(design, n)],
   node |-> [n \in members |-> design.nodes[n]],
   features |-> Propagated(design, slots),
   required |-> Max({first[n] : n \in Frontier(design)})]
=============================================================================
