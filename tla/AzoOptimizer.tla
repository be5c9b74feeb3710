---------------------------- MODULE AzoOptimizer -----------------------------
(***************************************************************************)
(* The optimizer (optimizer.c, calculate-constants.c) over a resolved      *)
(* tree: operations on constants become constants, and so does a variable  *)
(* wherever it is known to hold one, until nothing changes any more.       *)
(*                                                                         *)
(* Each operator gives the tree after, how many constants it put into it,  *)
(* and whether all went well.                                              *)
(***************************************************************************)
EXTENDS AzoResolver

LOCAL INSTANCE SequencesExt

Optimized(n, count) == [n |-> n, count |-> count, ok |-> TRUE]
Unoptimized(n) == [n |-> n, count |-> 0, ok |-> FALSE]

\* The result r followed by the result q for the tree that r gave.
Then(r, q) == [q EXCEPT !.count = @ + r.count, !.ok = @ /\ r.ok]

IsConstant(n) == n.t = "CONSTANT"
-----------------------------------------------------------------------------
(***************************************************************************)
(* Constant expressions.                                                   *)
(***************************************************************************)
SignedIntegers == {"int8", "int32", "int64"}

\* The type of an arithmetic operation on two types.
Calculated(t, u) ==
  CASE "complex" \in {t, u}                                                  -> "complex"
    [] "double" \in {t, u} /\ "complex" \notin {t, u}                        -> "double"
    [] {t, u} \subseteq Integral /\ ("int64" \in {t, u} \/ ("uint32" \in {t, u} /\ {t, u} \cap SignedIntegers # {}))
                                                                             -> "int64"
    [] {t, u} \subseteq Integral \ {"int64", "uint32"} /\ {t, u} \cap SignedIntegers # {} -> "int32"
    [] OTHER                                                                 -> "uint32"

\* The operators a type has.
Calculable(s, type) ==
  s \in {"PLUS", "MINUS", "STAR", "SLASH"}
    \cup (IF type # "complex" THEN {"PERCENT"} ELSE {}) \cup (IF type \in Integral THEN {"AND", "OR", "CARET"} ELSE {})

\* A number is known by its sign: the sign of a sum, difference or product, as
\* far as that of its operands tells it, and else one that it may have.
Opposite(sign) == CASE sign = "neg" -> "pos" [] sign = "pos" -> "neg" [] OTHER -> sign
SignOf(s, x, y) ==
  CASE s \in {"STAR", "SLASH", "AND"} /\ "zero" \in {x, y} -> "zero"
    [] s \in {"STAR", "SLASH"} /\ "zero" \notin {x, y}     -> IF x = y THEN "pos" ELSE "neg"
    [] s = "MINUS" /\ x = "zero"                           -> Opposite(y)
    [] s \in {"PLUS", "OR", "CARET"} /\ x = "zero"         -> y
    [] OTHER                                               -> x

\* What is no number is refused, and an integer divided by zero; an overflow,
\* which is refused too, is not modelled.
CalculateArithmetic(n) ==
  LET x == ConstantValue(n.kids[1])
      y == ConstantValue(n.kids[2])
      type == Calculated(x.type, y.type)
  IN IF /\ x.type \in Numeric /\ y.type \in Numeric
        /\ Calculable(n.s, type)
        /\ ~(n.s \in {"SLASH", "PERCENT"} /\ type \in Integral /\ y.content = "zero")
     THEN Optimized(Constant(Of(type, SignOf(n.s, x.content, y.content))), 1)
     ELSE Unoptimized(n)

\* A shift of what is no integer is reported but not refused.
CalculateShift(n) ==
  LET x == ConstantValue(n.kids[1])
      type == CASE x.type = "int64" -> "int64" [] x.type \in SignedIntegers \ {"int64"} -> "int32" [] OTHER -> "uint32"
  IN IF x.type \in Integral /\ ConstantValue(n.kids[2]).type \in Integral
     THEN Optimized(Constant(Of(type, x.content)), 1) ELSE Optimized(n, 0)

HoldsNull(n) == IsConstant(n) /\ ConstantValue(n) = Null

CalculateLogic(n) ==
  LET x == ConstantValue(n.kids[1])
      y == ConstantValue(n.kids[2])
      both == IF n.s = "ANDAND" THEN Truth(TRUE) = x /\ Truth(TRUE) = y ELSE Truth(TRUE) \in {x, y}
  IN IF x.type = "bool" /\ y.type = "bool" THEN Optimized(Constant(Truth(both)), 1) ELSE Unoptimized(n)

\* Arithmetic reads the type of a null operand through a null pointer: what
\* comes of that is not said.
CalculateConstantBinary(n) ==
  CASE n.s \in {"ANDAND", "OROR"}            -> CalculateLogic(n)
    [] n.s \in {"SHIFT_LEFT", "SHIFT_RIGHT"} -> CalculateShift(n)
    [] ~HoldsNull(n.kids[1]) /\ ~HoldsNull(n.kids[2]) -> CalculateArithmetic(n)
-----------------------------------------------------------------------------
(***************************************************************************)
(* One pass over the tree.                                                 *)
(***************************************************************************)
RECURSIVE OptimizeNode(_)

\* The children at these places, in their order.
OptimizeChildren(n, places) ==
  FoldLeft(LAMBDA r, i : LET q == OptimizeNode(r.n.kids[i]) IN Then(r, [q EXCEPT !.n = [r.n EXCEPT !.kids[i] = q.n]]),
           Optimized(n, 0), places)

AllConstant(kids) == \A i \in DOMAIN kids : IsConstant(kids[i])

\* A final function of a constant takes the place of the callee, whose
\* children stay; an attribute called with constants is refused.
OptimizeFunctionCall(n) ==
  LET ref == n.kids[1]
      parent == ref.kids[1]
      key == <<"FUNCTION", The(parent), The(ref.kids[2])>>
      final == ref.s = "PROPERTY" /\ IsConstant(parent) /\ key \in DOMAIN Finals
  IN CASE ref.t \in {"CONSTANT", "VARIABLE"} \/ ~AllConstant(n.kids[2].kids) -> Optimized(n, 0)
       [] OTHER -> CASE final                -> Optimized([n EXCEPT !.kids[1] = [Constant(Finals[key]) EXCEPT !.kids = ref.kids]], 0)
                     [] ref.s = "ATTRIBUTE"  -> Unoptimized(n)
                     [] OTHER                -> Optimized(n, 0)

\* An array of constants is made once, however often it is evaluated.
OptimizeLiteralArray(n) ==
  IF AllConstant(n.kids) THEN Optimized(Constant(Of("array", "nil")), 1) ELSE Optimized(n, 0)

OptimizeBinary(n) == IF AllConstant(n.kids) THEN CalculateConstantBinary(n) ELSE Optimized(n, 0)

\* Keywords, comparisons and operators before or after an expression are left
\* alone.  On a selection the code recurses without end.
OptimizeNode(n) ==
  LET whole == OptimizeChildren(n, [i \in DOMAIN n.kids |-> i])
  IN CASE n.t \in {"EMPTY", "KEYWORD", "PREFIX", "SUFFIX", "COMPARISON", "TEST", "CONSTANT", "VARIABLE", "TYPE"} -> Optimized(n, 0)
       [] n.t \in {"PROGRAM", "BLOCK", "STATEMENT_GROUP", "DECLARATION_LIST", "FUNCTION", "LIST", "ARRAY_ELEMENT"} -> whole
       [] n.t = "DECLARATION"                         -> OptimizeChildren(n, Tail([i \in DOMAIN n.kids |-> i]))
       [] n.t \in {"ARGUMENT_DECLARATION", "REFERENCE"} -> OptimizeChildren(n, <<1>>)
       [] n.t \in {"ASSIGN", "CAST"}                  -> OptimizeChildren(n, <<2>>)
       [] n.t = "FUNCTION_CALL"                       -> Then(whole, OptimizeFunctionCall(whole.n))
       [] n.t = "LITERAL_ARRAY"                       -> Then(whole, OptimizeLiteralArray(whole.n))
       [] n.t = "BINARY"                              -> Then(whole, OptimizeBinary(whole.n))
       [] OTHER                                       -> Unoptimized(n)
-----------------------------------------------------------------------------
(***************************************************************************)
(* Variables that hold constants.  They are known by name: a list of the   *)
(* variables that hold one is handed from sentence to sentence.            *)
(***************************************************************************)
Counts(n) == n.t = "SUFFIX" \/ Is(n, "PREFIX", {"INCREMENT", "DECREMENT"})

VariableNames(kids) == {The(kids[i]).name : i \in {j \in DOMAIN kids : kids[j].t = "VARIABLE"}}

TagNothing(n) == {}  \* mutant

\* The variables to which a node assigns, but for those in the value of an
\* assignment and below what is counted up or down.
RECURSIVE TagAssigns(_)
TagAssigns(n) ==
  CASE n.t = "FUNCTION" -> TagAssigns(n.kids[2])
    [] Counts(n)        -> VariableNames(n.kids)
    [] n.t = "ASSIGN"   -> VariableNames(Front(n.kids))
    [] OTHER            -> UNION {TagAssigns(n.kids[i]) : i \in DOMAIN n.kids}

WithoutAll(vars, names) == [x \in DOMAIN vars \ names |-> vars[x]]
WithConstant(vars, names, n) ==
  IF IsConstant(n) THEN [x \in names |-> n] @@ vars ELSE WithoutAll(vars, names)

Propagated(n, vars) == [n |-> n, vars |-> vars, count |-> 0]

\* A variable gives way to the constant it holds; the type of null is read as
\* in arithmetic.
Replacement(constant, vars) ==
  CASE ~HoldsNull(constant) -> [Propagated(constant, vars) EXCEPT !.count = 1]

RECURSIVE Propagate(_, _)

\* The children at these places, each with the list the one before left.
PropagateChildren(n, vars, places) ==
  LET Child(r, i) == LET q == Propagate(r.n.kids[i], r.vars)
                     IN [n |-> [r.n EXCEPT !.kids[i] = q.n], vars |-> q.vars, count |-> r.count + q.count]
  IN FoldLeft(Child, Propagated(n, vars), places)

\* A loop: after what comes first, the variables assigned to in its parts are
\* forgotten, and again after its body.
PropagateLoop(n, vars, first, parts, body) ==
  LET r == PropagateChildren(n, vars, first)
      trashed == UNION {TagAssigns(r.n.kids[i]) : i \in parts}
      q == PropagateChildren(r.n, WithoutAll(r.vars, trashed), <<body>>)
  IN [q EXCEPT !.vars = WithoutAll(@, trashed), !.count = @ + r.count]

\* Each branch starts with a copy of the list after the condition.
PropagateIf(n, vars) ==
  LET r == PropagateChildren(n, vars, <<1>>)
      branches == 2 .. Len(n.kids)
      Branch(q, i) == LET b == Propagate(q.n.kids[i], r.vars)
                      IN [q EXCEPT !.n = [q.n EXCEPT !.kids[i] = b.n], !.count = @ + b.count]
      q == FoldLeft(Branch, r, [i \in 1 .. Len(n.kids) - 1 |-> i + 1])
  IN [q EXCEPT !.vars = WithoutAll(@, UNION {TagAssigns(r.n.kids[i]) : i \in branches})]

\* The targets that are variables are left alone.
PropagateAssign(n, vars) ==
  LET r == PropagateChildren(n, vars, SelectSeq([i \in DOMAIN n.kids |-> i],
                                                LAMBDA i : i = Len(n.kids) \/ n.kids[i].t # "VARIABLE"))
  IN [r EXCEPT !.vars = WithConstant(@, VariableNames(Front(r.n.kids)), Last(r.n.kids))]

Propagate(n, vars) ==
  LET all == [i \in DOMAIN n.kids |-> i]
  IN CASE Is(n, "KEYWORD", {"for"})   -> PropagateLoop(n, vars, <<1>>, 2 .. 4, 4)
       [] Is(n, "KEYWORD", {"while"}) -> PropagateLoop(n, vars, << >>, 1 .. 2, 2)
       [] Is(n, "KEYWORD", {"do"})    -> PropagateLoop(n, vars, << >>, 1 .. 2, 1)
       [] Is(n, "KEYWORD", {"if"})    -> PropagateIf(n, vars)
       [] n.t = "DECLARATION"         -> Propagated(n, WithConstant(vars, {The(n.kids[1])}, Last(n.kids)))
       [] n.t = "FUNCTION"            -> Propagated(n, vars)
       [] Counts(n) /\ n.kids[1].t = "VARIABLE" -> Propagated(n, WithoutAll(vars, VariableNames(n.kids)))
       [] n.t = "PREFIX" /\ ~Counts(n) -> Propagated(n, vars)
       [] n.t = "ASSIGN"              -> PropagateAssign(n, vars)
       [] Is(n, "VARIABLE", {"LOCAL"}) /\ The(n).name \in DOMAIN vars ->
            Replacement(vars[The(n).name], vars)
       [] OTHER                       -> PropagateChildren(n, vars, all)

RECURSIVE Optimize(_)
Optimize(n) ==
  LET r == OptimizeNode(n)
      q == Propagate(r.n, << >>)
  IN IF ~r.ok THEN r
     ELSE IF r.count + q.count > 0 THEN Optimize(q.n) ELSE Optimized(q.n, 0)
=============================================================================
