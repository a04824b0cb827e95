------------------------------ MODULE MCServices ------------------------------
(* The designs, readings and formulas on which the parts are checked.      *)
EXTENDS Services, TLC
Node(kind, does, mode, size, low, high, uses, name) ==
  [kind |-> kind, step |-> does, mode |-> mode, size |-> size, low |-> low, high |-> high,
   uses |-> uses, name |-> name]
Fixed == ("in" :> Node("source", "none", "none", 0, 0, 0, {}, "none"))
  @@ ("det" :> Node("detector", "none", "none", 0, 0, 0, {}, "none"))
  @@ ("pol" :> Node("policy", "none", "none", 0, 0, 0, {}, "none"))
  @@ ("out" :> Node("output", "none", "none", 0, 0, 0, {}, "none"))
XY == {"x"}
Lane(does, mode, size, low, high) == Node("transform", does, mode, size, low, high, XY, "none")
Skip == Lane("range", "skip", 0, 0, 3)
Lag == Lane("change", "lag", 1, 0, 0)
Gate == Lane("gate", "none", 0, 0, 0)
Scale == Lane("scaler", "none", 0, 0, 0)
FirstStep == {Skip, Lag, Gate, Scale, Lane("range", "clip", 0, -1, 1)}
SecondStep == {Skip, Lag, Lane("rolling", "range", 2, 0, 0), Lane("despike", "none", 3, 1, 0),
  Lane("change", "difference", 1, 0, 0), Lane("change", "percent", 1, 0, 0), Lane("math", "abs", 0, 0, 0),
  Lane("math", "square", 0, 0, 0), Lane("math", "linear", -2, 1, 0)}
E(s, t, o) == [source |-> s, target |-> t, order |-> o]
\* two steps in sequence
Chains == {[nodes |-> Fixed @@ ("a" :> p) @@ ("b" :> q),
            edges |-> {E("in", "a", 0), E("a", "b", 0), E("b", "det", 0), E("det", "pol", 0), E("pol", "out", 0)}] :
              p \in FirstStep, q \in SecondStep}
\* graphs
Rename == Node("transform", "rename", "none", 0, 0, 0, {"x"}, "y")
Join == Node("merge", "none", "none", 0, 0, 0, {}, "none")
Total == Node("transform", "aggregate", "sum", 0, 0, 0, {"x", "y"}, "z")
End == {E("det", "pol", 0), E("pol", "out", 0)}
GraphsOf(nodes, sure, maybe) == {[nodes |-> Fixed @@ nodes, edges |-> End \cup sure \cup es] : es \in SUBSET maybe}
Branches == GraphsOf(("a" :> Lag) @@ ("r" :> Rename) @@ ("m" :> Join),
  {E("in", "r", 1)}, {E("in", "a", 0), E("r", "m", 1), E("in", "m", 2), E("a", "m", 3),
    E("m", "det", 1), E("r", "det", 2), E("a", "det", 3), E("m", "a", 0)})
Learning == GraphsOf(("a" :> Lag) @@ ("r" :> [Rename EXCEPT !.name = "x", !.step = "select"]) @@ ("s" :> Scale),
  {}, {E("in", "s", 0), E("in", "r", 0), E("in", "a", 0), E("s", "r", 0), E("r", "a", 0), E("a", "s", 0),
       E("a", "det", 0), E("s", "det", 0), E("r", "det", 0)})
Combining == GraphsOf(("a" :> Lag) @@ ("r" :> Rename) @@ ("m" :> Join) @@ ("g" :> Total),
  {E("in", "r", 1), E("r", "m", 1), E("m", "g", 1), E("g", "det", 1)}, {E("in", "a", 0), E("in", "m", 2), E("a", "m", 3)})
Wide == GraphsOf(("a" :> Lag) @@ ("r" :> Rename), {E("in", "r", 1)},
  {E("in", "a", 0), E("a", "r", 0), E("r", "a", 2), E("r", "det", 2), E("a", "det", 3)})
MCDesigns == Wide \cup Chains \cup Branches \cup Learning \cup Combining
MCReadings == {[x |-> -1], [x |-> 0], [x |-> 3]}
\* two brokers, a second revision without one of them
MCHome == ("s1" :> 1) @@ ("s2" :> 1) @@ ("s3" :> 2)
MCDocument == <<{"s1", "s2", "s3"}, {"s1", "s2"}>>
MCScopes == {{"s1", "s2"}, {"s2", "s3"}}
\* ranges around, above and up to infinity of zero
Interval(a, b) == <<<<a, 1>>, <<b, 1>>>>
MCRanges == {[x |-> Interval(-1, 1), y |-> Interval(0, 2)],
             [x |-> <<<<1, 1>>, <<1, 0>>>>, y |-> Interval(0, 0)]}
MCValues == {<<i, 1>> : i \in -1 .. 3}
MCOperands == {<<"x">>, <<"0">>, <<"2">>, <<"x", "y", "/">>, <<"x", "0", "<">>}
MCOperations == {"+", "-", "*", "/", "^", "negate", "not", "abs", "clip", "<", "==", "and"}
\* files, and the labels of readings
MCHeaders == {<<"t","a","b">>, <<"a","t">>, <<"t","a","a">>, <<"t","">>, <<"t">>, <<"t","a","b","c","d">>}
MCLong == {<<"">>, <<"a">>, <<"b">>, <<"c">>, <<"d">>}
MCCatalogues == {<<<<"a">>, <<"a", 2>>, <<"a">>>>, <<<<"a">>, <<"b">>>>}
MCSpan == <<1, 3>>
MCHistories == {<<0, 1, 2>>, <<2, 3, 0>>}
\* two releases that follow each other, and one with another past
MCReleases == {<<"a", "b", "c", "d", "e", "f">>, <<"a", "b", "c", "d", "e", "f", "g">>, <<"a", "b", "c", "x">>}
MCSettings == {[days |-> 2, cap |-> 1], [days |-> 1, cap |-> 0]}
\* readings that get a device, are added, and move
Connected(topic, device) == [broker |-> "b", topic |-> topic, device |-> device]
MCDocuments ==
  {("r1" :> Connected(<<"a", "x">>, "d")),
   ("r1" :> Connected(<<"a", "x">>, "none")) @@ ("r2" :> Connected(<<"a", "y">>, "none")),
   ("r1" :> Connected(<<"a", "x">>, "none")) @@ ("r2" :> Connected(<<"c">>, "none"))}
RuleScope(kind, prefix, reading) == [kind |-> kind, broker |-> "b", prefix |-> prefix, reading |-> reading]
MCRuleScopes ==
  {RuleScope("broker", << >>, "none"), RuleScope("topic", <<"a">>, "none"), RuleScope("reading", << >>, "r2")}
MCFirstCatalogue ==
  [document |-> ("r1" :> Connected(<<"a", "x">>, "none")), scope |-> RuleScope("broker", << >>, "none")]
\* topics of two entities, filters of requests, and claims of earlier versions
T(e, p) == <<"telemetry", e>> \o p
MCAccepted == {T("e", <<"a">>), T("e", <<"b">>), T("a", <<"a">>)}
MCRequested == {<<T("e", <<"a">>)>>, <<T("e", <<"a">>), T("e", <<"b">>), T("e", <<"a">>)>>,
  <<T("e", <<"b">>), T("e", <<"b", "b">>)>>, <<T("e", <<"a", "b">>), T("e", <<"b", "b">>)>>,
  <<T("a", <<"a">>), T("e", <<"a">>)>>, <<T("a", <<"a">>)>>, <<T("e", <<"+">>)>>, << <<"a", "e", "a">> >>,
  <<T("e", <<"">>)>>, << <<"telemetry", "e">> >>, << >>}
MCEarlier == {<<T("+", <<"a">>)>>, <<T("e", <<"#">>)>>, <<T("e", <<"a", "#">>)>>,
  << <<"telemetry", "#">> >>, <<T("e", <<"b", "+">>), T("a", <<"+", "b">>)>>}
\* alarms that monitors raise, over readings that are and are not in the catalogue, and questions
MCListable == {<<"e", "a">>, <<"e", "b">>, <<"f", "a">>}
Several(entity, sensors) == [entity |-> entity, key |-> "multi", sensors |-> sensors]
MCRaisable == {Several("e", {}), Several("f", {}), Several("e", {"a", "c"})}
Asked(scope, reading, since) == [scope |-> scope, reading |-> reading, since |-> since]
MCQuestion ==
  {Asked(Unlimited, Unlimited, 1), Asked({<<"e", "a">>, <<"f", "a">>}, Unlimited, 0),
   Asked({<<"e", "a">>, <<"e", "b">>}, <<"e", "b">>, 0)}
=============================================================================
