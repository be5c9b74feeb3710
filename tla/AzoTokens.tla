----------------------------- MODULE AzoTokens -----------------------------
(***************************************************************************)
(* The tokens of the language: their classes, the keywords, the operators  *)
(* with their binding powers, and the term every operator stands for.      *)
(* A token is its text; a name, a number or a string literal is a member   *)
(* of a constant set.                                                      *)
(***************************************************************************)
EXTENDS Integers, SequencesExt

CONSTANTS Names,     \* words that are not keywords
          Numbers,   \* number literals
          Texts      \* string literals

EOF == "<EOF>"          \* AZO_TOKEN_EOF
INVALID == "<INVALID>"  \* AZO_TOKEN_INVALID: a character no token starts with

PrimitiveTypes ==
  {"boolean", "int8", "uint8", "int16", "uint16", "int32", "uint32", "int64",
   "uint64", "float", "double", "complex", "pointer"}

Keywords ==
  {"null", "void", "static", "const", "final", "true", "false", "this", "for",
   "while", "do", "new", "if", "else", "return", "is", "implements", "as",
   "debug", "break", "continue", "exact", "rounded"} \cup PrimitiveTypes

Qualifiers == {"static", "const", "final"}

IsWord(t) == t \in Names \cup Keywords

\* The operators an expression of the language is made of, by the term they
\* become (azo_token_get_*_term; -1 is "not in the domain").
AssignmentTerm ==
     "="   :> "PLAIN"       @@ "+="  :> "PLUS"         @@ "-=" :> "MINUS"
  @@ "/="  :> "SLASH"       @@ "*="  :> "STAR"         @@ "%=" :> "PERCENT"
  @@ "<<=" :> "SHIFT_LEFT"  @@ ">>=" :> "SHIFT_RIGHT"  @@ "&=" :> "AND"
  @@ "|="  :> "OR"          @@ "^="  :> "XOR"

ComparisonTerm ==
     "=="  :> "E"          @@ "!="  :> "NE"             @@ ">=" :> "GE"
  @@ ">"   :> "GT"         @@ "<="  :> "LE"             @@ "<"  :> "LT"
  @@ "===" :> "IDENTICAL"  @@ "!==" :> "NOT_IDENTICAL"

BinaryTerm ==
     "+"  :> "PLUS"     @@ "-"  :> "MINUS"       @@ "/"  :> "SLASH"
  @@ "*"  :> "STAR"     @@ "%"  :> "PERCENT"     @@ "<<" :> "SHIFT_LEFT"
  @@ ">>" :> "SHIFT_RIGHT"  @@ "&&" :> "ANDAND"  @@ "&"  :> "AND"
  @@ "||" :> "OROR"     @@ "|"  :> "OR"          @@ "^"  :> "CARET"

PrefixTerm ==
     "++" :> "INCREMENT"  @@ "--" :> "DECREMENT"  @@ "+" :> "PLUS"
  @@ "-"  :> "MINUS"      @@ "!"  :> "NOT"        @@ "~" :> "TILDE"

\* The subtypes of the terms that have any, and how many children a node has.
Subtypes ==
     "KEYWORD"    :> {"return", "break", "continue", "this", "new", "if", "while", "do", "for"}
  @@ "REFERENCE"  :> {"VARIABLE", "MEMBER", "PROPERTY", "ATTRIBUTE"}
  @@ "FUNCTION"   :> {"LAMBDA"}
  @@ "SUFFIX"     :> {"INCREMENT", "DECREMENT"}
  @@ "PREFIX"     :> Range(PrefixTerm)
  @@ "BINARY"     :> Range(BinaryTerm)
  @@ "COMPARISON" :> Range(ComparisonTerm)
  @@ "ASSIGN"     :> Range(AssignmentTerm)
  @@ "TEST"       :> {"IS", "IMPLEMENTS"}
  @@ "CAST"       :> {"CONVERT", "AS"}
  @@ "CONSTANT"   :> {"NONE", "BOOLEAN", "NUMBER", "STRING"}

HasArity(type, subtype, n) ==
  CASE type \in {"PROGRAM", "BLOCK", "LIST", "LITERAL_ARRAY"} -> TRUE
    [] type = "STATEMENT_GROUP" -> n > 0
    [] type \in {"DECLARATION_LIST", "ASSIGN"} -> n > 1
    [] type = "DECLARATION" -> n \in {1, 2}
    [] type = "KEYWORD" -> n \in CASE subtype = "return" -> {0, 1}
                                  [] subtype = "if" -> {2, 3}
                                  [] subtype = "for" -> {4}
                                  [] subtype \in {"new", "while", "do"} -> {2}
                                  [] OTHER -> {0}
    [] type \in {"FUNCTION", "SELECT"} -> n = 3
    [] type \in {"PREFIX", "SUFFIX"} -> n = 1
    [] type \in {"INVALID", "EMPTY", "CONSTANT"} \/ subtype \in {"VARIABLE", "MEMBER"} -> n = 0
    [] OTHER -> n = 2

IsAssignment(op) == op \in DOMAIN AssignmentTerm
IsComparison(op) == op \in DOMAIN ComparisonTerm
IsArithmetic(op) == op \in DOMAIN BinaryTerm

Operators ==
  DOMAIN AssignmentTerm \cup DOMAIN ComparisonTerm \cup DOMAIN BinaryTerm
    \cup DOMAIN PrefixTerm \cup {".", "->", "=>", ",", "?", ":", "&&=", "||="}

\* The precedence groups (a higher value binds tighter); a parse at floor f goes
\* on over an operator whose left precedence is above f.
Precedence ==
  [MINIMUM |-> 0, COMMA |-> 0, TERNARY |-> 15, ASSIGN |-> 20, TYPE |-> 30,
   LOGICAL_OR |-> 40, LOGICAL_AND |-> 50, OR |-> 60, XOR |-> 70, AND |-> 80,
   EQUALITY |-> 90, COMPARISON |-> 100, SHIFT |-> 110, ADDITIVE |-> 120,
   MULTIPLICATIVE |-> 130, CAST |-> 135, UNARY |-> 140, POSTFIX |-> 150,
   FUNCTION |-> 160, ARRAY |-> 160, MEMBER |-> 180]

\* Zero for what is no expression operator: "=>", ",", "!", "~" and ":".
LeftPrecedence ==
  [op \in Operators |->
     CASE op \in {".", "->"} -> Precedence.MEMBER
       [] op \in {"++", "--"} -> Precedence.POSTFIX
       [] op \in {"*", "/", "%"} -> Precedence.MULTIPLICATIVE
       [] op \in {"+", "-"} -> Precedence.ADDITIVE
       [] op \in {"<<", ">>"} -> Precedence.SHIFT
       [] op \in {"<", "<=", ">", ">="} -> Precedence.COMPARISON
       [] op \in {"==", "!=", "===", "!=="} -> Precedence.EQUALITY
       [] op = "&" -> Precedence.AND
       [] op = "^" -> Precedence.XOR
       [] op = "|" -> Precedence.OR
       [] op = "&&" -> Precedence.LOGICAL_AND
       [] op = "||" -> Precedence.LOGICAL_OR
       [] op = "?" -> Precedence.TERNARY
       [] op \in {"=>", ",", "!", "~", ":"} -> 0
       [] OTHER -> Precedence.ASSIGN]

RightPrecedenceEqual == LeftPrecedence  \* mutant

\* One less for a right-associative operator.
RightPrecedence ==
  [op \in Operators |->
     IF op = "?" \/ LeftPrecedence[op] = Precedence.ASSIGN
     THEN LeftPrecedence[op] - 1 ELSE LeftPrecedence[op]]

\* Whether a token can start an expression (a cast is told from a parenthesized
\* class by the token after it).
CanStartExpression(t) ==
  \/ IsWord(t)
  \/ t \in Numbers \cup Texts \cup {"(", "{"}
  \/ t \in DOMAIN PrefixTerm

\* Whether a token clearly starts a sentence or ends a block, so that the
\* semicolon missing before it can be supplied.
IsSentenceBoundary(t) ==
  t \in {EOF, "}", "{", "for", "while", "do", "if", "else", "return", "break",
         "continue", "debug"} \cup Qualifiers
=============================================================================
