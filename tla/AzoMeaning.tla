----------------------------- MODULE AzoMeaning ------------------------------
(***************************************************************************)
(* What a script means (doc/language.txt), for the part of the language    *)
(* that needs no host: variables and the blocks they live in, assignment,  *)
(* conditions and loops, operators, and lambdas that keep the values their *)
(* surroundings had when they were made.  It is defined on the tree the    *)
(* parser builds and knows of no stack, position or instruction.           *)
(*                                                                         *)
(* A number that is the result of arithmetic is known by its type only:    *)
(* its content is AnyContent.                                              *)
(***************************************************************************)
EXTENDS AzoResolver

LOCAL INSTANCE SequencesExt

AnyContent == "?"
Thrown == Of("thrown", "nil")

Lambda(n, env) == [type |-> "function", args |-> n.kids[2].kids, body |-> n.kids[3], env |-> env]

\* An environment is a sequence of scopes, the innermost last.
Scopes(env, name) == {i \in DOMAIN env : name \in DOMAIN env[i]}
Lookup(env, name) ==
  IF Scopes(env, name) = {} THEN Context[name] ELSE env[Max(Scopes(env, name))][name]
Bind(env, name, v) == [env EXCEPT ![Len(env)] = (name :> v) @@ @]
Update(env, name, v) == [env EXCEPT ![Max(Scopes(env, name))][name] = v]

IsNumber(v) == v.type \in Numeric

\* Arithmetic is done in the greater type, and in int32 at least.
Promoted(t, u) ==
  LET greater == IF TypeRank(t) > TypeRank(u) THEN t ELSE u
  IN IF TypeRank(greater) < TypeRank("int32") THEN "int32" ELSE greater

BinaryMeaning(s, x, y) ==
  CASE s = "ANDAND" /\ x.type = "bool" /\ y.type = "bool" -> Truth(x = Truth(TRUE) /\ y = Truth(TRUE))
    [] s = "OROR" /\ x.type = "bool" /\ y.type = "bool"   -> Truth(x = Truth(TRUE) \/ y = Truth(TRUE))
    [] s \in {"PLUS", "MINUS", "STAR"} /\ IsNumber(x) /\ IsNumber(y) ->
         Of(Promoted(x.type, y.type), AnyContent)
    [] OTHER -> Thrown

\* Of a number only the sign is known: two of the same sign other than zero may
\* be equal or not.  The order is asked only where the signs differ.
ComparisonMeaning(s, x, y) ==
  LET order == SignRank(x.content) - SignRank(y.content)
      Equality(equal, unequal) == IF order # 0 THEN unequal ELSE IF x.content = "zero" THEN equal ELSE Of("bool", AnyContent)
  IN CASE s = "E" /\ x.type = "bool" /\ y.type = "bool"  -> Truth(x = y)
       [] s = "NE" /\ x.type = "bool" /\ y.type = "bool" -> Truth(x # y)
       [] s = "E" /\ IsNumber(x) /\ IsNumber(y)          -> Equality(Truth(TRUE), Truth(FALSE))
       [] s = "NE" /\ IsNumber(x) /\ IsNumber(y)         -> Equality(Truth(FALSE), Truth(TRUE))
       [] s = "LT" /\ IsNumber(x) /\ IsNumber(y)         -> Truth(order < 0)
       [] s = "LE" /\ IsNumber(x) /\ IsNumber(y)         -> Truth(order <= 0)
       [] s = "GT" /\ IsNumber(x) /\ IsNumber(y)         -> Truth(order > 0)
       [] s = "GE" /\ IsNumber(x) /\ IsNumber(y)         -> Truth(order >= 0)
       [] OTHER                                          -> Thrown

PrefixMeaning(s, x) ==
  CASE s = "NOT" /\ x.type = "bool"   -> Truth(x = Truth(FALSE))
    [] s = "MINUS" /\ x.type \in Signed \cup Complex -> Of(x.type, AnyContent)
    [] OTHER                          -> Thrown

RECURSIVE Value(_, _), Execute(_, _)

\* A state of a script: its environment, and whether it still goes on or has
\* returned a value or thrown an exception.
Going(env) == [env |-> env, out |-> "go", value |-> Null]
Returned(st, v) == [st EXCEPT !.out = IF v = Thrown THEN "thrown" ELSE "returned", !.value = v]
Throwing(st) == [st EXCEPT !.out = "thrown", !.value = Null]

\* An exception ends the function, and its caller goes on with null.
Outcome(st) == IF st.out = "returned" THEN st.value ELSE Null

ExecuteAll(st, sentences) == FoldLeft(LAMBDA s, n : Execute(s, n), st, sentences)

Applied(f, values) ==
  LET scope == [name \in {The(f.args[i].kids[2]) : i \in DOMAIN f.args} |->
                  values[CHOOSE i \in DOMAIN f.args : The(f.args[i].kids[2]) = name]]
  IN Outcome(ExecuteAll(Going(Append(f.env, scope)), f.body.kids))

Value(n, env) ==
  LET values == [i \in DOMAIN n.kids |-> Value(n.kids[i], env)]
      thrown == \E i \in DOMAIN values : values[i].type = "thrown"
      args == [i \in DOMAIN n.kids[2].kids |-> Value(n.kids[2].kids[i], env)]
      f == Value(n.kids[1], env)
  IN CASE n.t = "CONSTANT"                -> ConstantValue(n)
       [] n.t = "REFERENCE"               -> Lookup(env, The(n))
       [] n.t = "FUNCTION"                -> Lambda(n, env)
       [] n.t = "FUNCTION_CALL"           ->
            IF f.type # "function" \/ \E i \in DOMAIN args : args[i].type = "thrown" THEN Thrown ELSE Applied(f, args)
       [] n.t \in {"BINARY", "COMPARISON", "PREFIX"} /\ thrown -> Thrown
       [] n.t = "BINARY" /\ ~thrown       -> BinaryMeaning(n.s, values[1], values[2])
       [] n.t = "COMPARISON" /\ ~thrown   -> ComparisonMeaning(n.s, values[1], values[2])
       [] n.t = "PREFIX" /\ ~thrown       -> PrefixMeaning(n.s, values[1])

\* Go on with the value of an expression, unless it throws.
With(st, n, Rest(_)) ==
  LET v == Value(n, st.env) IN IF v.type = "thrown" THEN Throwing(st) ELSE Rest(v)

\* Go on with a condition, which must be a bool.
If(st, n, Yes(_), No(_)) ==
  With(st, n, LAMBDA v : IF v.type # "bool" THEN Throwing(st) ELSE IF v = Truth(TRUE) THEN Yes(st) ELSE No(st))

Scoped(st, Body(_)) ==
  LET s == Body([st EXCEPT !.env = Append(@, << >>)]) IN [s EXCEPT !.env = Front(@)]

Stay(st) == st

\* Every target of an assignment is given the value, which comes last.
Assigned(st, n) ==
  With(st, Last(n.kids), LAMBDA v :
    [st EXCEPT !.env = FoldLeft(LAMBDA env, target : Update(env, The(target), v), @, Front(n.kids))])

Declare(st, n) ==
  IF Len(n.kids) = 1 THEN [st EXCEPT !.env = Bind(@, The(n.kids[1]), Null)]
  ELSE With(st, n.kids[2], LAMBDA v : [st EXCEPT !.env = Bind(@, The(n.kids[1]), v)])

RECURSIVE Repeated(_, _, _, _)
Repeated(st, test, body, step) ==
  IF st.out # "go" THEN st
  ELSE If(st, test, LAMBDA s : Repeated(Execute(Execute(s, body), step), test, body, step), Stay)

Execute(st, n) ==
  CASE st.out # "go"               -> st
    [] st.out = "go" /\ n.t = "EMPTY"            -> st
    [] st.out = "go" /\ n.t = "BLOCK"            -> Scoped(st, LAMBDA s : ExecuteAll(s, n.kids))
    [] st.out = "go" /\ n.t = "DECLARATION_LIST" ->
         FoldLeft(LAMBDA s, d : IF s.out = "go" THEN Declare(s, d) ELSE s, st, Tail(n.kids))
    [] st.out = "go" /\ n.t = "ASSIGN"           -> Assigned(st, n)
    [] st.out = "go" /\ n.t = "FUNCTION_CALL"    -> With(st, n, LAMBDA v : st)
    [] st.out = "go" /\ n.t = "KEYWORD" ->
         CASE n.s = "return" -> With(st, n.kids[1], LAMBDA v : Returned(st, v))
           [] n.s = "if"     -> If(st, n.kids[1], LAMBDA s : Execute(s, n.kids[2]),
                                   LAMBDA s : IF Len(n.kids) = 3 THEN Execute(s, n.kids[3]) ELSE s)
           [] n.s = "while"  -> Repeated(st, n.kids[1], n.kids[2], Empty)
           [] n.s = "do"     -> Repeated(Execute(st, n.kids[1]), n.kids[2], n.kids[1], Empty)
           [] n.s = "for"    -> Scoped(st, LAMBDA s : Repeated(Execute(s, n.kids[1]), n.kids[2], n.kids[4], n.kids[3]))

\* What running a script delivers.
Meaning(tree) ==
  LET st == ExecuteAll(Going(<< << >> >>), tree.kids)
  IN [result |-> Outcome(st), returned |-> st.out = "returned"]

\* Whether a value the machine delivers is the one meant.
Means(v, meant) ==
  /\ v.type = meant.type
  /\ meant.type # "function" => meant.content \in {AnyContent, v.content}
=============================================================================
