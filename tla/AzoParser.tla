----------------------------- MODULE AzoParser -----------------------------
(***************************************************************************)
(* The parser of azo: from a sequence of tokens to a tree of nodes and a   *)
(* list of logged errors.  A parser state p holds the token the parser is  *)
(* at, the chain of open nodes (the last one is the C code's current node) *)
(* and p.err, the error code a parse function is returning with.  Every    *)
(* step is strict: in a state that carries an error it changes nothing, so *)
(* a parse function is the chain of its steps, and an early return is the  *)
(* first step that fails.  Nodes left behind in the current node when a    *)
(* function returns early stay there, as they do in the code.              *)
(* Source spans are left out.                                              *)
(***************************************************************************)
EXTENDS AzoTokens, AzoNodes

CONSTANT MaxErrors  \* AZO_PARSER_MAX_ERRORS

ASSUME MaxErrorsAssumption == MaxErrors \in Nat \ {0}

Start(toks, first) ==
  [toks |-> toks, pos |-> first, open |-> <<Plain("PROGRAM", <<>>)>>,
   err |-> "NONE", log |-> <<>>, asserts |-> TRUE]

T(p) == IF p.pos > Len(p.toks) THEN EOF ELSE p.toks[p.pos]
Ok(p) == p.err = "NONE"
Fail(p, code) == IF Ok(p) THEN [p EXCEPT !.err = code] ELSE p

\* The next token, with and without regard to whether there is one.
Step(p) == [p EXCEPT !.pos = IF T(p) = EOF THEN @ ELSE @ + 1]
Skip(p) == IF Ok(p) THEN Step(p) ELSE p
Advance(p) ==
  LET q == Skip(p)
  IN IF T(q) \in {EOF, INVALID} THEN Fail(q, "UNEXPECTED_EOF") ELSE q

Expect(p, token, code) == IF Ok(p) /\ T(p) # token THEN Fail(p, code) ELSE p
ExpectOrEof(p, token, code) ==
  Expect(p, token, IF T(p) = EOF THEN "UNEXPECTED_EOF" ELSE code)

Report(p, code) ==
  IF Len(p.log) < MaxErrors THEN [p EXCEPT !.log = Append(@, code)] ELSE p

\* The current node and its children.
Kids(p) == Last(p.open).kids
Kid(p) == Last(Kids(p))
WithKids(p, kids) == [p EXCEPT !.open[Len(p.open)].kids = kids]

Add(p, n) == IF Ok(p) THEN WithKids(p, Append(Kids(p), n)) ELSE p
Detach(p) == IF Ok(p) THEN WithKids(p, Front(Kids(p))) ELSE p
Push(p, n) == IF Ok(p) THEN [p EXCEPT !.open = Append(@, n)] ELSE p
Drop(p) == [p EXCEPT !.open = Front(@)]
Pop(p) == LET q == Drop(p) IN WithKids(q, Append(Kids(q), Last(p.open)))

\* The last n children become the children of a new node in their place.
Reduce(p, n, type, subtype, value) ==
  IF ~Ok(p) THEN p
  ELSE LET k == Len(Kids(p)) - n
       IN WithKids(p, Append(SubSeq(Kids(p), 1, k),
                             Node(type, subtype, value,
                                  SubSeq(Kids(p), k + 1, k + n))))

Counting == {"INCREMENT", "DECREMENT"}

IsNonemptySilentStatement(n) ==
  n.t \in {"ASSIGN", "FUNCTION_CALL"} \/ Is(n, "PREFIX", Counting) \/ Is(n, "SUFFIX", Counting)
IsSilentStatement(n) == n.t = "EMPTY" \/ IsNonemptySilentStatement(n)
IsNonemptyStepStatement(n) == n.t = "DECLARATION_LIST" \/ IsNonemptySilentStatement(n)
IsLValue(n) == n.t \in {"REFERENCE", "ARRAY_ELEMENT"}

-----------------------------------------------------------------------------
\* Expressions

RECURSIVE Expression(_, _), Continue(_, _), Sentence(_), ListItems(_, _), Arguments(_)

\* A bracketed list of expressions: the list is freed if anything in it fails.
ListItems(p, end) ==
  LET q == Expression(p, Precedence.COMMA)
  IN IF ~Ok(q) \/ T(q) = end THEN q
     ELSE IF T(q) = "," THEN ListItems(Advance(q), end)
     ELSE ExpectOrEof(q, end, "SYNTAX")

EndListUnpopped(p) == IF Ok(p) THEN Pop(Step(p)) ELSE p  \* mutant

EndList(p) == IF Ok(p) THEN Pop(Step(p)) ELSE Drop(p)

Enclosed(p, type, end) ==
  LET q == Advance(p)
      r == Push(q, Plain(type, <<>>))
  IN IF Ok(q) THEN EndList(IF T(r) = end THEN r ELSE ListItems(r, end)) ELSE q

List(p) == Enclosed(p, "LIST", ")")
ArrayLiteral(p) == Enclosed(p, "LITERAL_ARRAY", "}")
FunctionCallKeepingCallee(p) == Reduce(List(p), 1, "FUNCTION_CALL", "GENERIC", {})  \* mutant

FunctionCall(p) == Reduce(List(p), 2, "FUNCTION_CALL", "GENERIC", {})

ArrayElement(p) ==
  LET q == Expression(Advance(p), Precedence.MINIMUM)
  IN IF Ok(q) /\ T(q) # "]" THEN ExpectOrEof(Detach(q), "]", "SYNTAX")
     ELSE Reduce(Skip(q), 2, "ARRAY_ELEMENT", "GENERIC", {})

New(p) ==
  LET type == Expression(Advance(p), Precedence.FUNCTION)
  IN Reduce(IF Ok(type) THEN List(Expect(type, "(", "SYNTAX")) ELSE type,
            2, "KEYWORD", "new", {})

KeywordExpression(p, floor) ==
  LET t == T(p)
      Value(q, n) == Continue(Skip(Add(q, n)), floor)
      second == Advance(p)
  IN CASE t = "new" -> Continue(New(p), floor)
       [] t = "null" -> Value(p, Node("CONSTANT", "NONE", {}, <<>>))
       [] t = "this" -> Value(p, Node("KEYWORD", "this", {}, <<>>))
       [] t \in {"true", "false"} -> Value(p, Node("CONSTANT", "BOOLEAN", {t}, <<>>))
       [] t = "complex" -> IF T(second) \in {"float", "double"}
                           THEN Value(second, Reference("complex " \o T(second)))
                           ELSE Fail(second, "SYNTAX")
       [] t \in PrimitiveTypes \ {"complex"} -> Value(p, Reference(t))
       [] OTHER -> Fail(p, "INVALID_START_OF_EXPRESSION")

Prefix(p) ==
  LET q == Expression(Advance(p), Precedence.UNARY)
      subtype == PrefixTerm[T(p)]
  IN IF T(p) \notin DOMAIN PrefixTerm THEN Fail(p, "INVALID_START_OF_EXPRESSION")
     ELSE IF Ok(q) /\ subtype \in Counting /\ Is(Kid(q), "SUFFIX", Counting)
     THEN Fail(Detach(q), "SYNTAX")
     ELSE Reduce(q, 1, "PREFIX", subtype, {})

Naked(p, floor) ==
  LET t == T(p)
      Value(n) == Continue(Skip(Add(p, n)), floor)
  IN CASE t \in Keywords -> KeywordExpression(p, floor)
       [] t \in Names -> Value(Reference(t))
       [] t \in Numbers -> Value(Node("CONSTANT", "NUMBER", {t}, <<>>))
       [] t \in Texts -> Value(Node("CONSTANT", "STRING", {t}, <<>>))
       [] t = "{" -> Continue(ArrayLiteral(p), floor)
       [] t \in Operators -> Continue(Prefix(p), floor)
       [] OTHER -> Fail(p, "INVALID_START_OF_EXPRESSION")

Member(p, floor) ==
  IF T(p) \in Names
  THEN Continue(Skip(Add(p, Node("REFERENCE", "MEMBER", {T(p)}, <<>>))), floor)
  ELSE Fail(p, "INVALID_START_OF_EXPRESSION")

\* cond ? yes : no, with cond the last node; no child of a select that fails
\* stays behind.
Select(p, floor) ==
  LET yes == Expression(Detach(p), Precedence.COMMA)
      no == Expression(Advance(Expect(Detach(yes), ":", "SYNTAX")), floor)
  IN Add(Detach(no), Plain("SELECT", <<Kid(p), Kid(yes), Kid(no)>>))

Operator(p) ==
  LET op == T(p)
      q == Advance(p)
      floor == RightPrecedence[op]
      member == Member(q, floor)
      operand == Expression(q, floor)
  IN IF ~Ok(q) THEN q
     ELSE CASE op \in {".", "->"} ->
                 IF Ok(member) /\ Kid(member).t # "REFERENCE"
                 THEN Fail(Detach(member), "SYNTAX")
                 ELSE Reduce(member, 2, "REFERENCE",
                             IF op = "." THEN "PROPERTY" ELSE "ATTRIBUTE", {})
            [] IsComparison(op) -> Reduce(operand, 2, "COMPARISON", ComparisonTerm[op], {})
            [] IsArithmetic(op) -> Reduce(operand, 2, "BINARY", BinaryTerm[op], {})
            [] op \in {"++", "--"} -> Reduce(q, 1, "SUFFIX", PrefixTerm[op], {})
            [] op = "?" -> Select(q, floor)
            [] OTHER -> Fail(q, "SYNTAX")

TypeOperator(p) ==
  LET q == Expression(Advance(p), Precedence.TYPE)
      r == Detach(q)
  IN CASE T(p) = "is" -> Reduce(q, 2, "TEST", "IS", {})
       [] T(p) = "implements" -> Reduce(q, 2, "TEST", "IMPLEMENTS", {})
       [] T(p) = "as" -> Add(Detach(r), Node("CAST", "AS", {}, <<Kid(q), Kid(r)>>))

\* Whatever binds tighter than the floor is applied to the last node.
Continue(p, floor) ==
  LET t == T(p)
  IN CASE Ok(p) /\ t \in Operators /\ ~IsAssignment(t) /\ LeftPrecedence[t] > floor
            -> Continue(Operator(p), floor)
       [] Ok(p) /\ t \in {"is", "implements", "as"} /\ floor < Precedence.TYPE
            -> Continue(TypeOperator(p), floor)
       [] Ok(p) /\ t = "(" /\ floor < Precedence.FUNCTION -> Continue(FunctionCall(p), floor)
       [] Ok(p) /\ t = "[" /\ floor < Precedence.ARRAY -> Continue(ArrayElement(p), floor)
       [] OTHER -> p

\* One argument definition, then all that follow the first.
Argument(p) ==
  LET q == Expression(p, Precedence.COMMA)
  IN IF ~Ok(q) \/ T(q) = EOF THEN Fail(q, "UNEXPECTED_EOF")
     ELSE IF T(q) \in Names
     THEN Reduce(Advance(Add(q, Reference(T(q)))), 2, "ARGUMENT_DECLARATION", "GENERIC", {})
     ELSE Add(Detach(q), Plain("ARGUMENT_DECLARATION", <<Empty, Kid(q)>>))

Arguments(p) == IF Ok(p) /\ T(p) = "," THEN Arguments(Argument(Advance(p))) ELSE p

\* [Type] => Body, with the argument list as the last node.
Lambda(p, floor, typeAllowed) ==
  LET typed == Expression(p, Precedence.MINIMUM)
      plain == T(p) \in {"=>", "void"}
      afterType == CASE T(p) = "=>" -> p
                     [] T(p) # "=>" /\ (~typeAllowed \/ ~IsWord(T(p))) -> Fail(p, "SYNTAX")
                     [] T(p) = "void" /\ typeAllowed -> Skip(p)
                     [] OTHER -> Detach(typed)
      start == Advance(Expect(Detach(afterType), "=>", "SYNTAX"))
      body == IF T(start) = "{" THEN Sentence(start)
              ELSE Expression(start, Precedence.MINIMUM)
      type == IF plain THEN Empty ELSE Kid(typed)
  IN IF ~Ok(p) THEN p
     ELSE Continue(Add(Detach(body),
                       Node("FUNCTION", "LAMBDA", {}, <<type, Kid(afterType), Kid(body)>>)),
                   floor)

\* The first item of a list of several, or of a typed one, is the last node.
LambdaArguments(p, floor) ==
  LET typed == T(p) # ","
      q == IF typed THEN Advance(Detach(p)) ELSE Detach(p)
      first == Plain("ARGUMENT_DECLARATION",
                     IF typed THEN <<Kid(p), Reference(T(p))>> ELSE <<Empty, Kid(p)>>)
      r == Arguments(Add(Push(q, Plain("LIST", <<>>)), first))
      anyTyped == \E i \in DOMAIN Kids(r) : Kids(r)[i].kids[1].t # "EMPTY"
      anyUntyped == \E i \in DOMAIN Kids(r) : Kids(r)[i].kids[1].t = "EMPTY"
      checked == IF Ok(r) /\ anyTyped /\ anyUntyped THEN Fail(r, "SYNTAX") ELSE r
  IN IF Ok(q) THEN Lambda(EndList(ExpectOrEof(checked, ")", "SYNTAX")), floor, anyTyped)
     ELSE q

\* A parenthesized expression, a cast to a primitive type or the arguments of
\* a lambda: the token after the first expression decides.
Parenthesized(p, floor) ==
  LET inner == Advance(p)
      q == Expression(inner, Precedence.COMMA)
      primitive == Is(Kid(q), "REFERENCE", {"VARIABLE"}) /\ T(inner) \in PrimitiveTypes
      flags == IF primitive THEN {T(q)} \cap {"exact", "rounded"} ELSE {}
      r == Skip(ExpectOrEof(IF flags # {} THEN Advance(q) ELSE q, ")", "SYNTAX"))
      argument == Plain("LIST", <<Plain("ARGUMENT_DECLARATION", <<Empty, Kid(r)>>)>>)
  IN CASE T(inner) = ")" ->
            Lambda(Advance(Add(inner, Plain("LIST", <<>>))), floor, TRUE)
       [] T(inner) # ")" /\ ~Ok(q) -> q
       [] T(inner) # ")" /\ Ok(q) /\ T(q) \in Names \cup {","} -> LambdaArguments(q, floor)
       [] OTHER ->
            IF ~Ok(r) THEN r
            ELSE IF T(r) = "=>"
            THEN IF flags # {} THEN Fail(r, "SYNTAX")
                 ELSE Lambda(Add(Detach(r), argument), floor, FALSE)
            ELSE IF primitive /\ CanStartExpression(T(r))
            THEN Continue(Reduce(Expression(r, Precedence.CAST), 2, "CAST", "CONVERT", flags),
                          floor)
            ELSE IF flags # {} THEN Fail(r, "SYNTAX") ELSE Continue(r, floor)

\* The code asserts that a success has added exactly one node.
Expression(p, floor) ==
  LET q == IF T(p) = "(" THEN Parenthesized(p, floor) ELSE Naked(p, floor)
      added == Len(q.open) = Len(p.open) /\ Len(Kids(q)) = Len(Kids(p)) + 1
  IN IF ~Ok(p) \/ T(p) = EOF THEN Fail(p, "UNEXPECTED_EOF")
     ELSE [q EXCEPT !.asserts = @ /\ (Ok(q) => added)]

-----------------------------------------------------------------------------
\* Statements

RECURSIVE StepStatement(_, _), Targets(_, _, _), Declarations(_, _), Remaining(_, _)

\* Target = Target ... = Value; only a plain assignment chains.
Targets(p, op, targets) ==
  LET q == Expression(Advance(p), Precedence.MINIMUM)
      r == Detach(q)
  IN IF ~Ok(q) THEN q
     ELSE IF op = "=" /\ T(r) = "="
     THEN IF IsLValue(Kid(q)) THEN Targets(r, op, Append(targets, Kid(q)))
          ELSE Fail(r, "SYNTAX")
     ELSE Add(r, Node("ASSIGN", AssignmentTerm[op], {}, Append(targets, Kid(q))))

Assignment(p) ==
  IF IsLValue(Kid(p)) THEN Targets(Detach(p), T(p), <<Kid(p)>>)
  ELSE Fail(Detach(p), "SYNTAX")

\* What an expression statement may be.
Silent(p) ==
  IF ~Ok(p) THEN p
  ELSE IF IsAssignment(T(p)) THEN Assignment(p)
  ELSE IF IsSilentStatement(Kid(p)) THEN p ELSE Fail(p, "SYNTAX")

SilentStatement(p) ==
  IF ~Ok(p) THEN p
  ELSE IF T(p) \in {";", ")"} THEN Add(p, Empty)
  ELSE Silent(Expression(p, Precedence.MINIMUM))

SingleDeclaration(p) ==
  LET name == Reference(T(p))
      q == Skip(p)
      value == Expression(Advance(q), Precedence.COMMA)
  IN IF T(p) \notin Names THEN Fail(p, "SYNTAX")
     ELSE IF T(q) = "=" THEN Add(Detach(value), Plain("DECLARATION", <<name, Kid(value)>>))
     ELSE Add(q, Plain("DECLARATION", <<name>>))

\* kids: the type and the declarations so far, freed if one of them fails.
Declarations(p, list) ==
  LET q == SingleDeclaration(p)
      all == [list EXCEPT !.kids = Append(@, Kid(q))]
  IN IF ~Ok(q) THEN q
     ELSE IF T(q) = "," THEN Declarations(Step(Detach(q)), all)
     ELSE Add(Detach(q), all)

StepStatement(p, flags) ==
  LET t == T(p)
      q == Expression(p, Precedence.COMMA)
  IN CASE ~Ok(p) -> p
       [] Ok(p) /\ t \in Qualifiers -> IF t \in flags THEN Fail(p, "SYNTAX")
                                       ELSE StepStatement(Advance(p), flags \cup {t})
       [] Ok(p) /\ t \in {";", ")"} -> IF flags = {} THEN Add(p, Empty)
                                       ELSE Fail(p, "SYNTAX")
       [] OTHER -> IF Ok(q) /\ T(q) \in Names
                   THEN Declarations(Detach(q),
                                     Node("DECLARATION_LIST", "GENERIC", flags, <<Kid(q)>>))
                   ELSE IF Ok(q) /\ flags # {} THEN Fail(q, "SYNTAX")
                   ELSE Silent(q)

\* The items after the first of a statement group, which is the current node.
Remaining(p, silentOnly) ==
  LET q == Advance(p)
      item == IF silentOnly THEN IsNonemptySilentStatement(Kid(p))
              ELSE IsNonemptyStepStatement(Kid(p))
  IN IF ~Ok(p) \/ T(p) # "," THEN p
     ELSE IF ~item THEN Fail(p, "SYNTAX")
     ELSE IF T(q) \in {",", ";", ")"} THEN Fail(q, "SYNTAX")
     ELSE Remaining(IF silentOnly THEN SilentStatement(q) ELSE StepStatement(q, {}),
                    silentOnly)

Group(p, silentOnly) ==
  Pop(Remaining(Push(Detach(p), Plain("STATEMENT_GROUP", <<Kid(p)>>)), silentOnly))

MultiStatement(p, end, silentOnly) ==
  LET q == IF silentOnly THEN SilentStatement(p) ELSE StepStatement(p, {})
  IN Expect(IF Ok(q) /\ T(q) = "," THEN Group(q, silentOnly) ELSE q, end,
            IF end = ";" THEN "SEMICOLON_MISSING" ELSE "CLOSING_PARENTHESIS_MISSING")

Return(p) ==
  LET q == Skip(p)
  IN IF T(q) \in {";", "}", EOF} THEN Add(q, Node("KEYWORD", "return", {}, <<>>))
     ELSE Reduce(Expression(q, Precedence.MINIMUM), 1, "KEYWORD", "return", {})

Statement(p) ==
  CASE T(p) = "return" -> Return(p)
    [] T(p) \in {"break", "continue"} -> Skip(Add(p, Node("KEYWORD", T(p), {}, <<>>)))
    [] OTHER -> StepStatement(p, {})

\* A semicolon missing before what clearly starts a sentence is reported and
\* supplied: the error is in the log and the line succeeds.
Line(p) ==
  LET q == Statement(p)
      r == IF ~Ok(q) \/ T(q) # "," THEN q
           ELSE IF IsNonemptyStepStatement(Kid(q)) THEN Group(q, FALSE)
           ELSE Fail(q, "SYNTAX")
  IN IF ~Ok(r) THEN r
     ELSE IF T(r) = ";" THEN Step(r)
     ELSE IF IsSentenceBoundary(T(r)) THEN Report(r, "SEMICOLON_MISSING")
     ELSE Fail(r, "SEMICOLON_MISSING")

-----------------------------------------------------------------------------
\* Sentences and error recovery

RECURSIVE Synchronize(_, _), Sentences(_, _)

SynchronizeToBrace(p, depth) ==  \* mutant
  IF T(p) \in {EOF, "}"} THEN p ELSE Synchronize(Step(p), depth)

\* Skips to a ';' (consumed) or a '}' (kept) outside the braces met on the way.
Synchronize(p, depth) ==
  LET q == Step(p)
      inner == CASE T(p) = "{" -> depth + 1
                 [] T(p) = "}" -> depth - 1
                 [] OTHER -> depth
  IN IF T(p) = EOF \/ (depth = 0 /\ T(p) = "}") THEN p
     ELSE IF depth = 0 /\ T(p) = ";" THEN q
     ELSE IF T(q) \in {EOF, INVALID} THEN q ELSE Synchronize(q, inner)

RecoveredUnmarked(p, q) ==  \* mutant
  IF Ok(q) \/ Len(q.log) # Len(p.log) THEN [q EXCEPT !.err = "NONE"]
  ELSE Synchronize(Report([q EXCEPT !.err = "NONE"], q.err), 0)

\* An error that was not logged between p and q is reported here, and an INVALID
\* node stands for the sentence.
Recovered(p, q) ==
  LET r == [q EXCEPT !.err = "NONE"]
  IN IF Ok(q) \/ Len(q.log) # Len(p.log) THEN r
     ELSE Add(Synchronize(Report(r, q.err), 0), Plain("INVALID", <<>>))

\* first: the first error, returned when the remaining sentences are parsed.
Sentences(p, first) ==
  LET q == Sentence(p)
  IN IF T(p) \in {EOF, "}"} THEN [p EXCEPT !.err = first]
     ELSE IF Len(p.log) >= MaxErrors
     THEN [p EXCEPT !.err = IF first = "NONE" THEN "TOO_MANY_ERRORS" ELSE first]
     ELSE Sentences(Recovered(p, q), IF first = "NONE" THEN q.err ELSE first)

Block(p) ==
  LET q == Advance(p)
      r == Pop(Sentences(Push(q, Plain("BLOCK", <<>>)), "NONE"))
  IN IF ~Ok(q) THEN q
     ELSE IF T(r) = "}" THEN Step(r)
     ELSE ExpectOrEof(r, "}", "END_OF_BLOCK_MISSING")

While(p) ==
  LET q == Expression(Advance(Expect(Advance(p), "(", "SYNTAX")), Precedence.MINIMUM)
      r == Sentence(Advance(ExpectOrEof(q, ")", "SYNTAX")))
  IN Reduce(r, 2, "KEYWORD", "while", {})

For(p) ==
  LET q == Advance(MultiStatement(Advance(Expect(Advance(p), "(", "SYNTAX")), ";", FALSE))
      condition == IF Ok(q) /\ T(q) = ";" THEN Add(q, Empty)
                   ELSE Expression(q, Precedence.MINIMUM)
      step == MultiStatement(Advance(ExpectOrEof(condition, ";", "SYNTAX")), ")", TRUE)
  IN Reduce(Sentence(Advance(step)), 4, "KEYWORD", "for", {})

If(p) ==
  LET cond == Expression(Advance(Expect(Advance(p), "(", "SYNTAX")), Precedence.MINIMUM)
      close == ExpectOrEof(Detach(cond), ")", "CLOSING_PARENTHESIS_MISSING")
      yes == Sentence(Advance(close))
      no == Sentence(Advance(Detach(yes)))
  IN IF Ok(yes) /\ T(yes) = "else"
     THEN Add(Detach(no), Node("KEYWORD", "if", {}, <<Kid(cond), Kid(yes), Kid(no)>>))
     ELSE Add(Detach(yes), Node("KEYWORD", "if", {}, <<Kid(cond), Kid(yes)>>))

Do(p) ==
  LET block == Sentence(Advance(p))
      open == Expect(Advance(Expect(Detach(block), "while", "SYNTAX")), "(", "SYNTAX")
      cond == Expression(Advance(open), Precedence.MINIMUM)
      q == Advance(ExpectOrEof(Detach(cond), ")", "CLOSING_PARENTHESIS_MISSING"))
      r == CASE ~Ok(q) -> q
             [] Ok(q) /\ T(q) = ";" -> Step(q)
             [] OTHER -> IF IsWord(T(q)) \/ IsSentenceBoundary(T(q))
                         THEN Report(q, "SEMICOLON_MISSING")
                         ELSE Fail(q, "SEMICOLON_MISSING")
  IN Add(r, Node("KEYWORD", "do", {}, <<Kid(block), Kid(cond)>>))

Sentence(p) ==
  CASE ~Ok(p) -> p
    [] Ok(p) /\ T(p) = "{" -> Block(p)
    [] Ok(p) /\ T(p) = "for" -> For(p)
    [] Ok(p) /\ T(p) = "while" -> While(p)
    [] Ok(p) /\ T(p) = "do" -> Do(p)
    [] Ok(p) /\ T(p) = "if" -> If(p)
    [] OTHER -> Line(p)

ProgramPrefix(p) == Sentences(p, "NONE")  \* mutant

Program(p) == Expect(Sentences(p, "NONE"), EOF, "SYNTAX")

\* What azo_parser_parse leaves: a program, unless the first token is none.
Parse(toks) ==
  LET p == Start(toks, 1)
      q == Program(p)
      r == IF q.err # "NONE" /\ q.log = <<>> THEN Report(q, q.err) ELSE q
  IN IF T(p) \in {EOF, INVALID} THEN [p EXCEPT !.open = <<Plain("NULL", <<>>)>>] ELSE r

Tree(p) == p.open[1]
=============================================================================
