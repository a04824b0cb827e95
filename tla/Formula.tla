------------------------------- MODULE Formula --------------------------------
(***************************************************************************)
(* Formulas and gate conditions over features: how a text is read, what a  *)
(* row gives, and what is known of all rows from the ranges of features.   *)
(*                                                                         *)
(* A parsed term is written as its postfix code, so that evaluation and    *)
(* analysis are folds over it with a stack.  Numbers are exact fractions   *)
(* <<n, d>>, and <<1, 0>> and <<-1, 0>> the two infinities.  A row that    *)
(* has no value is skipped.                                                *)
(***************************************************************************)
EXTENDS Integers, Sequences, FiniteSets, SequencesExt, FiniteSetsExt

CONSTANTS
  Ranges,       \* ranges the features may have: by feature, a pair of fractions
  Values,       \* values it has in the rows considered
  Operands,     \* codes the next operation may take as its other operand
  Operations,   \* operators and functions that are tried
  MaxDepth,     \* MAX_DEPTH
  MaxOperations

VARIABLES code, ranges     \* the formula under construction, and the range of each feature

formulaVars == <<code, ranges>>

Features == {"x", "y"}
Numbers == {"0", "1", "2"}
Comparisons == {"<", "<=", ">", ">=", "==", "!="}
Arithmetic == {"+", "-", "*", "/", "^"}
Logic == {"and", "or"}
Functions1 == {"abs"}
FunctionsN == {"min", "max"}
Arity(op) == IF op \in {"negate", "not", "abs"} THEN 1 ELSE IF op = "clip" THEN 3 ELSE 2

Front2(s) == SubSeq(s, 1, Len(s) - 2)
Under(s) == s[Len(s) - 1]

-----------------------------------------------------------------------------
(* Reading a text: recursive descent, loosest binding first.               *)

Levels == <<{"or"}, {"and"}, {}, Comparisons, {"+", "-"}, {"*", "/"}>>
Error == [next |-> 0, code |-> <<>>]
Joined(left, right, op) == [next |-> right.next, code |-> left.code \o right.code \o <<op>>]

\* What the parser may be asked for: a term of a level, the operators of a level that follow one,
\* or the arguments of a call that are still expected.
Term(level) == <<"term", level>>
More(level) == <<"more", level>>
Expected(n) == <<"args", n>>
Rules == {Term(l) : l \in 1 .. 9} \cup {More(l) : l \in 1 .. 6} \cup {Expected(n) : n \in 0 .. 3}

\* One level deeper, within the limit.
Nested(P, rule, i, depth) == IF depth >= MaxDepth THEN Error ELSE P[rule, i, depth + 1]

\* Reads a term of a level at i; the code and what follows it.
Parse(t, P, level, i, depth) ==
  CASE level \in {1, 2, 5, 6} ->
         LET left == P[Term(level + 1), i, depth]
             more == P[More(level), left.next, depth]
         IN  IF left = Error \/ more = Error THEN Error ELSE [more EXCEPT !.code = left.code \o @]
    [] level = 3 ->
         IF t[i] # "not" THEN P[Term(4), i, depth]
         ELSE LET r == Nested(P, Term(3), i + 1, depth)
              IN  IF r = Error THEN Error ELSE [r EXCEPT !.code = Append(@, "not")]
    [] level = 4 ->
         LET left == P[Term(5), i, depth]
         IN  IF left = Error \/ t[left.next] \notin Comparisons THEN left
             ELSE LET right == P[Term(5), left.next + 1, depth]
                  IN  IF right = Error \/ t[right.next] \in Comparisons THEN Error
                      ELSE Joined(left, right, t[left.next])
    [] level = 7 ->
         IF t[i] \notin {"-", "+"} THEN P[Term(8), i, depth]
         ELSE LET r == Nested(P, Term(7), i + 1, depth)
              IN  IF r = Error \/ t[i] = "+" THEN r ELSE [r EXCEPT !.code = Append(@, "negate")]
    [] level = 8 ->
         LET base == P[Term(9), i, depth]
         IN  IF base = Error \/ t[base.next] # "^" THEN base
             ELSE LET r == Nested(P, Term(7), base.next + 1, depth)
                  IN  IF r = Error THEN Error ELSE Joined(base, r, "^")
    [] level = 9 ->
         CASE t[i] \in Features \cup Numbers -> [next |-> i + 1, code |-> <<t[i]>>]
           [] t[i] \in Functions1 \cup FunctionsN \cup {"clip"} /\ t[i + 1] = "(" ->
                LET r == P[Expected(Arity(t[i])), i + 2, depth]
                IN  IF r = Error THEN Error ELSE [r EXCEPT !.code = Append(@, t[i])]
           [] t[i] = "(" ->
                LET r == Nested(P, Term(1), i + 1, depth)
                IN  IF r = Error \/ t[r.next] # ")" THEN Error ELSE [r EXCEPT !.next = @ + 1]
           [] OTHER -> Error

\* Operators of one level join from the left: the code of each follows that of its right side.
Chained(t, P, level, i, depth) ==
  IF t[i] \notin Levels[level] THEN [next |-> i, code |-> <<>>]
  ELSE LET right == P[Term(level + 1), i + 1, depth]
           more == P[More(level), right.next, depth]
       IN  IF right = Error \/ more = Error THEN Error
           ELSE [more EXCEPT !.code = right.code \o <<t[i]>> \o @]

\* Arguments of a call up to its parenthesis; the functions modelled take a fixed number.
Args(t, P, n, i, depth) ==
  LET r == Nested(P, Term(1), i, depth)
      more == P[Expected(n - 1), r.next + 1, depth]
  IN  IF r = Error \/ n = 0 THEN Error
      ELSE CASE t[r.next] = "," -> IF more = Error THEN Error ELSE [more EXCEPT !.code = r.code \o @]
             [] t[r.next] = ")" /\ n = 1 -> [r EXCEPT !.next = @ + 1]
             [] OTHER -> Error

\* parse: the whole text is one term.
Read(text) ==
  LET t == Append(text, "end")
      P[rule \in Rules, i \in Nat, depth \in 0 .. MaxDepth] ==
        CASE rule[1] = "term" -> Parse(t, P, rule[2], i, depth)
          [] rule[1] = "more" -> Chained(t, P, rule[2], i, depth)
          [] rule[1] = "args" -> Args(t, P, rule[2], i, depth)
      r == P[Term(1), 1, 0]
  IN  IF r # Error /\ t[r.next] = "end" THEN r.code ELSE <<>>

\* _check_kind: numbers and conditions where they belong; "none" is refused.
Kind(c) ==
  LET Kinds(op, args) ==
        CASE op \in Comparisons -> IF args = {"number"} THEN "condition" ELSE "none"
          [] op \in Logic \cup {"not"} -> IF args = {"condition"} THEN "condition" ELSE "none"
          [] OTHER -> IF args \subseteq {"number"} THEN "number" ELSE "none"
      Step(s, op) ==
        LET n == IF op \in Features \cup Numbers THEN 0 ELSE Arity(op)
        IN  Append(SubSeq(s, 1, Len(s) - n), Kinds(op, ToSet(SubSeq(s, Len(s) - n + 1, Len(s)))))
  IN  Head(FoldLeft(Step, <<>>, c))

-----------------------------------------------------------------------------
(* Fractions.                                                              *)

Infinite == <<1, 0>>
Number(token) == <<CASE token = "0" -> 0 [] token = "1" -> 1 [] token = "2" -> 2, 1>>
Minus(a) == <<-a[1], a[2]>>
Leq(a, b) == IF a[2] = 0 /\ b[2] = 0 THEN a[1] <= b[1] ELSE a[1] * b[2] <= b[1] * a[2]
Less(a, b) == ~Leq(b, a)
Same(a, b) == Leq(a, b) /\ Leq(b, a)
Least(a, b) == IF Leq(a, b) THEN a ELSE b
Most(a, b) == IF Leq(a, b) THEN b ELSE a
Signed(n) == IF n > 0 THEN 1 ELSE IF n < 0 THEN -1 ELSE 0
Fraction(n, d) == IF d = 0 THEN <<Signed(n), 0>> ELSE IF d < 0 THEN <<-n, -d>> ELSE <<n, d>>
Plus(a, b) == IF a[2] = 0 /\ b[2] = 0 THEN a ELSE Fraction(a[1] * b[2] + b[1] * a[2], a[2] * b[2])
Times(a, b) == Fraction(a[1] * b[1], a[2] * b[2])
Inverted(a) == IF a[1] < 0 THEN <<-a[2], -a[1]>> ELSE <<a[2], a[1]>>
Zero == <<0, 1>>
Whole(a) == a[2] # 0 /\ a[1] % a[2] = 0
Power(a, n) == FoldLeft(LAMBDA p, i : Times(p, a), <<1, 1>>, [i \in 1 .. n |-> i])

-----------------------------------------------------------------------------
(* What a row gives: a number, a truth value, or "skipped".                *)

Skipped == [skipped |-> TRUE]
Is(v) == [value |-> v]

\* _power: not 0 to a negative power.
Powered(a, b) ==
  LET n == b[1] \div b[2]
  IN  IF n < 0 /\ a[1] = 0 THEN Skipped
      ELSE Is(IF n >= 0 THEN Power(a, n) ELSE Inverted(Power(a, -n)))

Compared(op, a, b) ==
  CASE op = "<" -> Less(a, b) [] op = "<=" -> Leq(a, b) [] op = ">" -> Less(b, a)
    [] op = ">=" -> Leq(b, a) [] op = "==" -> Same(a, b) [] op = "!=" -> ~Same(a, b)

\* Both sides have a value, except that "and" and "or" may not look at the second.
Applied(op, a, b) ==
  CASE a = Skipped \/ (op \in Logic /\ a = Is(op = "or")) -> a
    [] b = Skipped \/ op \in Logic -> b
    [] op = "/" -> IF b.value[1] = 0 THEN Skipped ELSE Is(Times(a.value, Inverted(b.value)))
    [] op = "^" -> Powered(a.value, b.value)
    [] op = "+" -> Is(Plus(a.value, b.value))
    [] op = "-" -> Is(Plus(a.value, Minus(b.value)))
    [] op = "*" -> Is(Times(a.value, b.value))
    [] op = "min" -> Is(Least(a.value, b.value))
    [] op = "max" -> Is(Most(a.value, b.value))
    [] OTHER -> Is(Compared(op, a.value, b.value))

Clipped(v, low, high) ==
  IF Skipped \in {v, low, high} THEN Skipped ELSE Is(Least(Most(v.value, low.value), high.value))

Applied1(op, a) ==
  IF a = Skipped THEN a
  ELSE CASE op = "negate" -> Is(Minus(a.value)) [] op = "not" -> Is(~a.value)
         [] op = "abs" -> Is(Most(a.value, Minus(a.value)))

\* evaluator: the code from left to right.
Evaluate(c, row) ==
  LET Step(s, op) ==
        CASE op \in Features -> Append(s, Is(row[op]))
          [] op \in Numbers -> Append(s, Is(Number(op)))
          [] op = "clip" -> Append(SubSeq(s, 1, Len(s) - 3), Clipped(s[Len(s) - 2], Under(s), Last(s)))
          [] OTHER -> IF Arity(op) = 1 THEN Append(Front(s), Applied1(op, Last(s)))
                      ELSE Append(Front2(s), Applied(op, Under(s), Last(s)))
  IN  Head(FoldLeft(Step, <<>>, c))

-----------------------------------------------------------------------------
(* What is known of all rows: an interval or a truth value, and whether    *)
(* some rows are skipped or all.                                           *)

Anything == <<Minus(Infinite), Infinite>>
LeastOf(S) == CHOOSE a \in S : \A b \in S : Leq(a, b)
MostOf(S) == CHOOSE a \in S : \A b \in S : Leq(b, a)
\* The bound of 0 times anything is 0, also against an open end.
Product(a, b) == IF a[1] = 0 \/ b[1] = 0 THEN Zero ELSE Times(a, b)
Multiply(r, s) ==
  LET products == {Product(a, b) : a \in {r[1], r[2]}, b \in {s[1], s[2]}}
  IN  <<LeastOf(products), MostOf(products)>>

\* The first takes an interval around 0 for one that leaves it out.
ReciprocalOfEnds(r) == <<Inverted(r[2]), Inverted(r[1])>>
Reciprocal(r) ==
  CASE Less(Zero, r[1]) \/ Less(r[2], Zero) -> <<Inverted(r[2]), Inverted(r[1])>>
    [] r[1][1] = 0 /\ Less(Zero, r[2]) -> <<Inverted(r[2]), Infinite>>
    [] r[2][1] = 0 /\ Less(r[1], Zero) -> <<Minus(Infinite), Inverted(r[1])>>
    [] OTHER -> Anything

Magnitude(r) ==
  CASE Leq(Zero, r[1]) -> r
    [] Leq(r[2], Zero) -> <<Minus(r[2]), Minus(r[1])>>
    [] OTHER -> <<Zero, Most(Minus(r[1]), r[2])>>

\* nonzero: "some" rows are skipped, or "all".
Nonzero(r) ==
  IF r[1][1] = 0 /\ r[2][1] = 0 THEN "all"
  ELSE IF Leq(r[1], Zero) /\ Leq(Zero, r[2]) THEN "some" ELSE "none"

Graver(a, b) == IF "all" \in {a, b} THEN "all" ELSE IF "some" \in {a, b} THEN "some" ELSE "none"

\* What is known of a term: its range or truth, the constant it is written as, the rows skipped.
Known(range, skips) == [range |-> range, constant |-> <<>>, skips |-> skips]
Truth(t, skips) == [truth |-> t, skips |-> skips]

\* power: a constant whole exponent, or one that varies.
Raise(a, b) ==
  LET c == b.constant
      n == IF c = <<>> THEN 0 ELSE c[1] \div c[2]
      base == IF n < 0 THEN Reciprocal(a.range) ELSE a.range
      m == IF n < 0 THEN -n ELSE n
      r == IF m % 2 = 0 THEN Magnitude(base) ELSE base
  IN  IF c = <<>>
      THEN IF Leq(a.range[1], Zero) THEN Known(Anything, "some") ELSE Known(<<Zero, Infinite>>, "none")
      ELSE IF m = 0 THEN Known(<<<<1, 1>>, <<1, 1>>>>, "none")
      ELSE Known(<<Power(r[1], m), Power(r[2], m)>>, IF n < 0 THEN Nonzero(a.range) ELSE "none")

\* _compare: certain only when the ranges decide it.
Decided(op, r, s) ==
  CASE op = "<" -> IF Less(r[2], s[1]) THEN "true" ELSE IF Leq(s[2], r[1]) THEN "false" ELSE "open"
    [] op = "<=" -> IF Leq(r[2], s[1]) THEN "true" ELSE IF Less(s[2], r[1]) THEN "false" ELSE "open"
    [] op = "==" -> IF Cardinality({r[1], r[2], s[1], s[2]}) = 1 THEN "true"
                    ELSE IF Less(r[2], s[1]) \/ Less(s[2], r[1]) THEN "false" ELSE "open"

Negated(t) == CASE t = "true" -> "false" [] t = "false" -> "true" [] OTHER -> t
Both(a, b) == IF "false" \in {a, b} THEN "false" ELSE IF {a, b} = {"true"} THEN "true" ELSE "open"

Verdict(op, r, s) ==
  CASE op = ">" -> Decided("<", s, r) [] op = ">=" -> Decided("<=", s, r)
    [] op = "!=" -> Negated(Decided("==", r, s)) [] OTHER -> Decided(op, r, s)

Combined(op, a, b) ==
  LET r == a.range  s == b.range
  IN  CASE op = "+" -> Known(<<Plus(r[1], s[1]), Plus(r[2], s[2])>>, "none")
        [] op = "-" -> Known(<<Plus(r[1], Minus(s[2])), Plus(r[2], Minus(s[1]))>>, "none")
        [] op = "*" -> Known(Multiply(r, s), "none")
        [] op = "/" -> Known(Multiply(r, Reciprocal(s)), Nonzero(s))
        [] op = "^" -> Raise(a, b)
        [] op = "min" -> Known(<<Least(r[1], s[1]), Least(r[2], s[2])>>, "none")
        [] op = "max" -> Known(<<Most(r[1], s[1]), Most(r[2], s[2])>>, "none")
        [] op = "and" -> Truth(Both(a.truth, b.truth), "none")
        [] op = "or" -> Truth(Negated(Both(Negated(a.truth), Negated(b.truth))), "none")
        [] OTHER -> Truth(Verdict(op, r, s), "none")

\* A clip whose constant ends are swapped is refused.
Clip(v, low, high) ==
  LET swapped == low.constant # <<>> /\ high.constant # <<>> /\ Less(high.constant, low.constant)
  IN  [Known(<<Least(Most(v.range[1], low.range[1]), high.range[1]),
               Least(Most(v.range[2], low.range[2]), high.range[2])>>, "none")
         EXCEPT !.skips = IF swapped THEN "all" ELSE "none"]

Single(op, a) ==
  CASE op = "negate" -> [range |-> <<Minus(a.range[2]), Minus(a.range[1])>>,
                         constant |-> IF a.constant = <<>> THEN <<>> ELSE Minus(a.constant), skips |-> "none"]
    [] op = "abs" -> Known(Magnitude(a.range), "none")
    [] op = "not" -> Truth(Negated(a.truth), "none")

\* analyze
Analyze(c) ==
  LET Leaf(r, k) == [range |-> r, constant |-> k, skips |-> "none"]
      With(k, args) == [k EXCEPT !.skips = FoldLeft(LAMBDA g, a : Graver(g, a.skips), @, args)]
      Step(s, op) ==
        CASE op \in Features -> Append(s, Leaf(ranges[op], <<>>))
          [] op \in Numbers -> Append(s, Leaf(<<Number(op), Number(op)>>, Number(op)))
          [] op = "clip" -> Append(SubSeq(s, 1, Len(s) - 3),
               With(Clip(s[Len(s) - 2], Under(s), Last(s)), SubSeq(s, Len(s) - 2, Len(s))))
          [] OTHER -> IF Arity(op) = 1 THEN Append(Front(s), With(Single(op, Last(s)), <<Last(s)>>))
                      ELSE Append(Front2(s), With(Combined(op, Under(s), Last(s)), <<Under(s), Last(s)>>))
  IN  Head(FoldLeft(Step, <<>>, c))

-----------------------------------------------------------------------------
(* A formula is written operation by operation.                            *)

Leaves == {o \in Operands : Len(o) = 1}

Init == code \in Leaves /\ ranges \in Ranges

\* Whole exponents only: the values of others are not fractions.
Exponents == Leaves \cup {<<"1", "negate">>}

Codes(c) ==
  {c \o <<op>> : op \in Operations \cap {"negate", "not", "abs"}}
  \cup {c \o o \o <<op>> : o \in Operands, op \in {p \in Operations : Arity(p) = 2} \ {"^"}}
  \cup {o \o c \o <<op>> : o \in Operands, op \in {p \in Operations : Arity(p) = 2} \ {"^"}}
  \cup {c \o o \o <<op>> : o \in Exponents, op \in Operations \cap {"^"}}
  \cup {c \o o \o p \o <<op>> : o \in Leaves, p \in Leaves, op \in Operations \cap {"clip"}}

Write ==
  /\ Cardinality({i \in DOMAIN code : code[i] \notin Features \cup Numbers}) < MaxOperations
  /\ code' \in Codes(code) /\ UNCHANGED ranges

Next == Write
Spec == Init /\ [][Next]_formulaVars

-----------------------------------------------------------------------------
(* What reading, evaluating and analysing have to do with each other.      *)

\* How a term is written with no more parentheses than it needs.
Text ==
  LET LevelOf(op) == CASE op = "or" -> 1 [] op = "and" -> 2 [] op = "not" -> 3 [] op \in Comparisons -> 4
                       [] op \in {"+", "-"} -> 5 [] op \in {"*", "/"} -> 6 [] op = "negate" -> 7
                       [] op = "^" -> 8 [] OTHER -> 9
      At(s, level) == IF s.level >= level THEN s.text ELSE <<"(">> \o s.text \o <<")">>
      Infix(op, a, b) ==
        LET l == LevelOf(op)
        IN  At(a, IF l = 4 THEN 5 ELSE IF l = 8 THEN 9 ELSE l) \o <<op>> \o At(b, IF l = 8 THEN 7 ELSE l + 1)
      Step(s, op) ==
        CASE op \in Features \cup Numbers -> Append(s, [level |-> 9, text |-> <<op>>])
          [] op = "clip" -> Append(SubSeq(s, 1, Len(s) - 3),
               [level |-> 9, text |-> <<op, "(">> \o s[Len(s) - 2].text \o <<",">> \o Under(s).text
                                        \o <<",">> \o Last(s).text \o <<")">>])
          [] op \in FunctionsN -> Append(Front2(s),
               [level |-> 9, text |-> <<op, "(">> \o Under(s).text \o <<",">> \o Last(s).text \o <<")">>])
          [] op \in Functions1 -> Append(Front(s), [level |-> 9, text |-> <<op, "(">> \o Last(s).text \o <<")">>])
          [] op = "negate" -> Append(Front(s), [level |-> 7, text |-> <<"-">> \o At(Last(s), 7)])
          [] op = "not" -> Append(Front(s), [level |-> 3, text |-> <<"not">> \o At(Last(s), 3)])
          [] OTHER -> Append(Front2(s), [level |-> LevelOf(op), text |-> Infix(op, Under(s), Last(s))])
  IN  Head(FoldLeft(Step, <<>>, code)).text

Rows ==
  {row \in [Features -> Values] :
     \A f \in Features : Leq(ranges[f][1], row[f]) /\ Leq(row[f], ranges[f][2])}

\* A term is read as it is meant, or not at all when it nests too deeply.
ReadAsMeant == LET r == Read(Text) IN r = code \/ (r = <<>> /\ Len(code) > MaxDepth)

\* What is accepted can be evaluated on every row, and what it gives lies within what is known;
\* a condition that is never or always true is; rows are skipped only with a warning, and all
\* of them with an error that says so.
AnalysisSound ==
  Kind(code) # "none" =>
    LET known == Analyze(code)
        clip == "clip" \in ToSet(code)
    IN  \A row \in Rows :
          LET v == Evaluate(code, row)
          IN  /\ v = Skipped => known.skips # "none"
              /\ known.skips = "all" /\ Kind(code) = "number" /\ ~clip => v = Skipped
              /\ v # Skipped =>
                   IF Kind(code) = "number"
                   THEN Leq(known.range[1], v.value) /\ Leq(v.value, known.range[2])
                   ELSE known.truth # "open" => v.value = (known.truth = "true")
=============================================================================
