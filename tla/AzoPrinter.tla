----------------------------- MODULE AzoPrinter -----------------------------
(***************************************************************************)
(* The reference the parser is compared with: how a tree is written, with  *)
(* no more parentheses than the precedences ask for.  It is defined on     *)
(* trees, by how tightly a construct binds, and knows nothing of tokens to *)
(* come, of floors or of recovery.                                         *)
(***************************************************************************)
EXTENDS AzoParser

Key(f, value) == CHOOSE k \in DOMAIN f : f[k] = value

OperatorOf(n) ==
  CASE n.t = "BINARY" -> Key(BinaryTerm, n.s)
    [] n.t = "COMPARISON" -> Key(ComparisonTerm, n.s)
    [] n.t \in {"PREFIX", "SUFFIX"} -> Key(PrefixTerm, n.s)
    [] n.t = "ASSIGN" -> Key(AssignmentTerm, n.s)

\* How tightly the outermost construct of an expression binds.
Level(n) ==
  CASE n.t \in {"BINARY", "COMPARISON"} -> LeftPrecedence[OperatorOf(n)]
    [] n.t = "FUNCTION" -> 0
    [] n.t = "SELECT" -> Precedence.TERNARY
    [] n.t = "TEST" \/ Is(n, "CAST", {"AS"}) -> Precedence.TYPE
    [] Is(n, "CAST", {"CONVERT"}) -> Precedence.CAST
    [] n.t = "PREFIX" -> Precedence.UNARY
    [] n.t = "SUFFIX" -> Precedence.POSTFIX
    [] n.t \in {"FUNCTION_CALL", "ARRAY_ELEMENT"} -> Precedence.FUNCTION
    [] OTHER -> Precedence.MEMBER

Word(n) == CHOOSE w \in n.v : TRUE

Parens(ts) == <<"(">> \o ts \o <<")">>

Separated(ss) ==
  IF ss = <<>> THEN <<>>
  ELSE Head(ss) \o FlattenSeq([i \in 1 .. Len(ss) - 1 |-> <<",">> \o ss[i + 1]])

RECURSIVE Written(_, _), WrittenSentence(_)

Items(kids) == Separated([i \in DOMAIN kids |-> Written(kids[i], 0)])

\* A text that starts with a brace would be a block where a sentence is due.
Unbraced(ts) == IF Head(ts) = "{" THEN Parens(ts) ELSE ts

WrittenArgument(n) ==
  (IF n.kids[1].t = "EMPTY" THEN <<>> ELSE Written(n.kids[1], 0)) \o Written(n.kids[2], 0)

WrittenLambda(n) ==
  Parens(Separated([i \in DOMAIN n.kids[2].kids |-> WrittenArgument(n.kids[2].kids[i])]))
    \o (IF n.kids[1].t = "EMPTY" THEN <<>> ELSE Written(n.kids[1], 0))
    \o <<"=>">>
    \o (IF n.kids[3].t = "BLOCK" THEN WrittenSentence(n.kids[3])
        ELSE Unbraced(Written(n.kids[3], 0)))

\* An expression where nothing that binds less than least may stand open.
Written(n, least) ==
  LET k == n.kids
      open ==
        CASE n.t = "REFERENCE" /\ n.s \in {"VARIABLE", "MEMBER"} ->
               IF Word(n) = "complex float" THEN <<"complex", "float">> ELSE <<Word(n)>>
          [] n.t = "CONSTANT" -> IF n.s = "NONE" THEN <<"null">> ELSE <<Word(n)>>
          [] Is(n, "KEYWORD", {"this"}) -> <<"this">>
          [] Is(n, "KEYWORD", {"new"}) ->
               <<"new">> \o Written(k[1], Precedence.MEMBER) \o Parens(Items(k[2].kids))
          [] n.t = "LITERAL_ARRAY" -> <<"{">> \o Items(k) \o <<"}">>
          [] n.t = "REFERENCE" /\ n.s \in {"PROPERTY", "ATTRIBUTE"} ->
               Written(k[1], Precedence.FUNCTION)
                 \o <<IF n.s = "PROPERTY" THEN "." ELSE "->">> \o Written(k[2], 0)
          [] n.t = "FUNCTION_CALL" ->
               Written(k[1], Precedence.POSTFIX) \o Parens(Items(k[2].kids))
          [] n.t = "ARRAY_ELEMENT" ->
               Written(k[1], Precedence.POSTFIX) \o <<"[">> \o Written(k[2], 0) \o <<"]">>
          [] n.t = "SUFFIX" -> Written(k[1], Precedence.POSTFIX) \o <<OperatorOf(n)>>
          [] n.t = "PREFIX" -> <<OperatorOf(n)>> \o Written(k[1], Precedence.CAST)
          [] Is(n, "CAST", {"CONVERT"}) ->
               Parens(Written(k[1], 0) \o SetToSeq(n.v)) \o Written(k[2], Precedence.CAST)
          [] n.t \in {"BINARY", "COMPARISON"} ->
               Written(k[1], Level(n)) \o <<OperatorOf(n)>> \o Written(k[2], Level(n) + 1)
          [] n.t = "TEST" ->
               Written(k[1], Level(n))
                 \o <<IF n.s = "IS" THEN "is" ELSE "implements">> \o Written(k[2], Level(n) + 1)
          [] Is(n, "CAST", {"AS"}) ->
               Written(k[2], Level(n)) \o <<"as">> \o Written(k[1], Level(n) + 1)
          [] n.t = "SELECT" ->
               Written(k[1], Level(n) + 1) \o <<"?">> \o Written(k[2], 0)
                 \o <<":">> \o Written(k[3], Level(n))
          [] n.t = "FUNCTION" -> WrittenLambda(n)
  IN IF Level(n) < least THEN Parens(open) ELSE open

\* A declaration, an assignment or an expression that may stand as a statement.
WrittenStatement(n) ==
  LET k == n.kids
      Declared(d) == Written(d.kids[1], 0)
                       \o (IF Len(d.kids) = 2 THEN <<"=">> \o Written(d.kids[2], 0) ELSE <<>>)
  IN CASE n.t = "EMPTY" -> <<>>
       [] n.t = "DECLARATION_LIST" ->
            SetToSeq(n.v) \o Written(k[1], 0)
              \o Separated([i \in 1 .. Len(k) - 1 |-> Declared(k[i + 1])])
       [] n.t = "ASSIGN" ->
            Written(k[1], 0)
              \o FlattenSeq([i \in 1 .. Len(k) - 1 |-> <<OperatorOf(n)>> \o Written(k[i + 1], 0)])
       [] Is(n, "KEYWORD", {"return"}) ->
            <<"return">> \o (IF k = <<>> THEN <<>> ELSE Written(k[1], 0))
       [] Is(n, "KEYWORD", {"break", "continue"}) -> <<n.s>>
       [] OTHER -> Written(n, 0)

WrittenStatements(n) ==
  IF n.t = "STATEMENT_GROUP"
  THEN Separated([i \in DOMAIN n.kids |-> WrittenStatement(n.kids[i])]) ELSE WrittenStatement(n)

WrittenSentence(n) ==
  LET k == n.kids
      WrittenLine(ts) == (IF ts = <<>> THEN ts ELSE Unbraced(ts)) \o <<";">>
  IN CASE n.t = "BLOCK" ->
            <<"{">> \o FlattenSeq([i \in DOMAIN k |-> WrittenSentence(k[i])]) \o <<"}">>
       [] Is(n, "KEYWORD", {"if"}) ->
            <<"if">> \o Parens(Written(k[1], 0)) \o WrittenSentence(k[2])
              \o (IF Len(k) = 3 THEN <<"else">> \o WrittenSentence(k[3]) ELSE <<>>)
       [] Is(n, "KEYWORD", {"while"}) ->
            <<"while">> \o Parens(Written(k[1], 0)) \o WrittenSentence(k[2])
       [] Is(n, "KEYWORD", {"do"}) ->
            <<"do">> \o WrittenSentence(k[1]) \o <<"while">> \o Parens(Written(k[2], 0)) \o <<";">>
       [] Is(n, "KEYWORD", {"for"}) ->
            <<"for">>
              \o Parens(WrittenStatements(k[1]) \o <<";">> \o WrittenStatements(k[2]) \o <<";">> \o WrittenStatements(k[3]))
              \o WrittenSentence(k[4])
       [] OTHER -> WrittenLine(WrittenStatements(n))

\* The text of a program.
ProgramText(sentences) == FlattenSeq([i \in DOMAIN sentences |-> WrittenSentence(sentences[i])])
=============================================================================
