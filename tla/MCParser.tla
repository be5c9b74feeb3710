------------------------------ MODULE MCParser ------------------------------
(***************************************************************************)
(* An author writes programs construct by construct, and mistypes tokens;  *)
(* after every change the parser parses the whole text.                    *)
(***************************************************************************)
EXTENDS AzoPrinter, FiniteSets

CONSTANTS MaxDepth,  \* constructs around one another in a program
          TypoDepth, \* constructs in a program that is mistyped
          Typos,     \* tokens that are typed by mistake
          Parser(_), \* what is checked, TextToTree,
          Printer(_) \* and what it is checked against, TreesToText

VARIABLES draft,    \* the expression being written
          depth,    \* the constructs written so far
          program,  \* the sentences written
          hit,      \* the sentence a token of which was mistyped, 0 for none
          wrong,    \* the token typed and the token lost in its place
          text,     \* the text of the program
          parsed    \* what the parser makes of the text

TextToTree(ts) == LET p == Parse(ts) IN p
TreesToText(sentences) == LET ts == ProgramText(sentences) IN ts

vars == <<draft, depth, program, hit, wrong, text, parsed>>

Name1 == Reference("a")
Name2 == Reference("b")
One == Node("CONSTANT", "NUMBER", {"1"}, <<>>)
Class == Reference("T")
Primitive == Reference("int32")
Listed(es) == Plain("LIST", es)
Call(f, es) == Plain("FUNCTION_CALL", <<f, Listed(es)>>)
Assigned(op, es) == Node("ASSIGN", AssignmentTerm[op], {}, es)
Keyword(w, es) == Node("KEYWORD", w, {}, es)
BlockOf(ss) == Plain("BLOCK", ss)
Untyped(e) == Plain("ARGUMENT_DECLARATION", <<Empty, e>>)
Typed(type, e) == Plain("ARGUMENT_DECLARATION", <<type, e>>)
LambdaOf(type, args, body) == Node("FUNCTION", "LAMBDA", {}, <<type, Listed(args), body>>)
Declared(flags, type, ds) ==
  Node("DECLARATION_LIST", "GENERIC", flags, <<type>> \o [i \in DOMAIN ds |-> Plain("DECLARATION", ds[i])])
Final == Call(Name2, <<>>)

\* Every construct of the expression grammar around an expression.
Binary(e) ==
  LET Pair(type, terms, op, l, r) == Node(type, terms[op], {}, <<l, r>>)
  IN UNION {{Pair("BINARY", BinaryTerm, op, e, Name2), Pair("BINARY", BinaryTerm, op, Name2, e)} :
              op \in {"*", "-", "<<", "&", "^", "|", "&&", "||"}}
     \cup UNION {{Pair("COMPARISON", ComparisonTerm, op, e, Name2),
                  Pair("COMPARISON", ComparisonTerm, op, Name2, e)} : op \in {"<", "!=="}}
     \cup {Node("TEST", "IS", {}, <<e, Class>>), Node("TEST", "IMPLEMENTS", {}, <<Class, e>>),
           Node("CAST", "AS", {}, <<e, Class>>), Node("CAST", "AS", {}, <<Class, e>>)}

Unary(e) ==
  {Node("PREFIX", s, {}, <<e>>) : s \in {"MINUS", "NOT"}}
    \cup {Node("SUFFIX", "INCREMENT", {}, <<e>>), Node("CAST", "CONVERT", {}, <<Primitive, e>>),
          Node("CAST", "CONVERT", {"exact"}, <<Primitive, e>>)}
    \cup (IF Is(e, "SUFFIX", Counting) THEN {} ELSE {Node("PREFIX", "DECREMENT", {}, <<e>>)})

Compound(e) ==
  {Plain("SELECT", <<e, One, Name2>>), Plain("SELECT", <<Name2, e, One>>),
   Plain("SELECT", <<One, Name2, e>>),
   Node("REFERENCE", "PROPERTY", {}, <<e, Node("REFERENCE", "MEMBER", {"b"}, <<>>)>>),
   Node("REFERENCE", "ATTRIBUTE", {}, <<e, Node("REFERENCE", "MEMBER", {"b"}, <<>>)>>),
   Call(e, <<Name2>>), Call(Name2, <<One, e>>),
   Plain("ARRAY_ELEMENT", <<e, One>>), Plain("ARRAY_ELEMENT", <<Name2, e>>),
   Plain("LITERAL_ARRAY", <<e>>), Plain("LITERAL_ARRAY", <<One, e>>),
   Keyword("new", <<e, Listed(<<One>>)>>), Keyword("new", <<Class, Listed(<<e>>)>>),
   LambdaOf(Empty, <<Untyped(Name2)>>, e), LambdaOf(Empty, <<Untyped(Name1), Untyped(Name2)>>, e),
   LambdaOf(Class, <<Typed(Primitive, Name2)>>, BlockOf(<<Keyword("return", <<e>>)>>))}
  \cup (IF IsWord(Head(Printer(<<e>>))) THEN {LambdaOf(e, <<>>, BlockOf(<<>>))} ELSE {})

\* Every sentence with an expression in it.
SentencesOf(e) ==
  {Assigned("=", <<Name1, e>>), Assigned("=", <<Name1, Plain("ARRAY_ELEMENT", <<Name2, e>>), e>>),
   Assigned("<<=", <<Name2, e>>), Declared({"static"}, Class, <<<<Name1, e>>, <<Name2>>>>),
   Keyword("return", <<e>>), Call(e, <<>>),
   Keyword("if", <<e, Final>>), Keyword("if", <<Name1, Final, Assigned("+=", <<Name1, e>>)>>),
   Keyword("while", <<e, BlockOf(<<Keyword("break", <<>>)>>)>>),
   Keyword("do", <<Final, e>>),
   Keyword("for", <<Plain("STATEMENT_GROUP", <<Assigned("=", <<Name1, One>>),
                                               Declared({}, Primitive, <<<<Name2, e>>>>)>>),
                    e, Plain("STATEMENT_GROUP", <<Final, Call(Name1, <<e>>)>>), Final>>),
   Plain("STATEMENT_GROUP", <<Node("PREFIX", "INCREMENT", {}, <<Name1>>), Call(Name1, <<e>>)>>)}

\* An else written after such a sentence would belong to the inner if.
RECURSIVE EndsWithOpenIf(_)
EndsWithOpenIf(s) ==
  \/ Is(s, "KEYWORD", {"if"}) /\ Len(s.kids) = 2
  \/ Is(s, "KEYWORD", {"if", "while", "for"}) /\ EndsWithOpenIf(Last(s.kids))

\* Every construct of the sentence grammar around a sentence.
Around(s) ==
  {BlockOf(<<s>>), BlockOf(<<Final, s, Empty>>), Keyword("while", <<Name1, s>>),
   Keyword("if", <<Name1, s>>), Keyword("if", <<Name1, Final, s>>), Keyword("do", <<s, Name1>>),
   Keyword("for", <<Empty, Empty, Empty, s>>),
   Assigned("=", <<Name1, LambdaOf(Empty, <<>>, BlockOf(<<s>>))>>)}
  \cup (IF EndsWithOpenIf(s) THEN {} ELSE {Keyword("if", <<Name1, s, Final>>)})

Shown == text' = Printer(program') /\ parsed' = Parser(text')

Init ==
  /\ draft = Name1 /\ depth = 0
  /\ program = <<>> /\ hit = 0 /\ wrong = <<>>
  /\ text = <<>> /\ parsed = Parser(<<>>)

WriteExpression ==
  /\ program = <<>> /\ depth < MaxDepth
  /\ draft' \in Binary(draft) \cup Unary(draft) \cup Compound(draft)
  /\ depth' = depth + 1
  /\ UNCHANGED <<program, hit, wrong, text, parsed>>

WriteSentence ==
  /\ program = <<>>
  /\ \E s \in SentencesOf(draft) : program' = <<s, Final>>
  /\ Shown /\ UNCHANGED <<draft, depth, hit, wrong>>

WriteAround ==
  /\ program # <<>> /\ hit = 0 /\ depth < MaxDepth
  /\ \E s \in Around(program[1]) : program' = <<s, Final>>
  /\ depth' = depth + 1
  /\ Shown /\ UNCHANGED <<draft, hit, wrong>>

Assignment1 == Assigned("=", <<Name1, draft>>)

\* One token too many, too few or another in its place, in the first sentence.
Mistype ==
  /\ program # <<>> /\ hit = 0 /\ depth <= TypoDepth
  /\ draft = Name1 \/ program[1] \in {Assignment1} \cup Around(Assignment1)
  /\ hit' = 1
  /\ \E k \in 1 .. Len(Printer(<<program[1]>>)), t \in Typos :
       \/ /\ text' = InsertAt(text, k, t)
          /\ wrong' = <<t, t>>
       \/ /\ text' = RemoveAt(text, k)
          /\ wrong' = <<text[k], text[k]>>
       \/ /\ text' = [text EXCEPT ![k] = t]
          /\ wrong' = <<t, text[k]>>
  /\ parsed' = Parser(text')
  /\ UNCHANGED <<draft, depth, program>>

Next == WriteExpression \/ WriteSentence \/ WriteAround \/ Mistype

Spec == Init /\ [][Next]_vars

-----------------------------------------------------------------------------

TypeOK ==
  /\ parsed.pos \in 1 .. Len(text) + 1
  /\ Len(parsed.open) = 1 /\ Len(parsed.log) \in 0 .. MaxErrors

\* A program that is well formed is parsed into the tree it was written from.
RoundTrip ==
  hit = 0 /\ program # <<>> =>
    /\ Tree(parsed) = Plain("PROGRAM", program)
    /\ parsed.err = "NONE" /\ parsed.log = <<>>

Accepted == parsed.err = "NONE" /\ parsed.log = <<>> /\ Tree(parsed).t = "PROGRAM"

\* Whatever text is accepted, all of it is in the tree.
NothingIsDropped ==
  LET Kept(ts) == SelectSeq(ts, LAMBDA t : t \notin {"(", ")", "void"})
  IN Accepted => Kept(Printer(Tree(parsed).kids)) = Kept(text)

\* The invariant the code asserts at the end of every expression.
AssertionsHold == parsed.asserts

RECURSIVE Shaped(_)
Shaped(n) ==
  /\ n.s \in (IF n.t \in DOMAIN Subtypes THEN Subtypes[n.t] ELSE {"GENERIC"})
  /\ HasArity(n.t, n.s, Len(n.kids))
  /\ \A i \in DOMAIN n.kids : Shaped(n.kids[i])

\* The resolver and the compiler walk the children of a node by their places and
\* test for none: what a parse leaves, debris of an error included, has them all.
TreeIsShaped == Tree(parsed).t = "PROGRAM" => Shaped(Tree(parsed))

\* The last sentence is parsed as it was, whatever was mistyped in the first.
LastSentenceSurvives == Last(Tree(parsed).kids) = Final

Mentions(words) == words \cap ToSet(Printer(<<program[1]>>)) # {}

\* A mistyped token costs its own sentence only.
RecoveryIsLocal ==
  hit = 1 /\ Tree(parsed).t = "PROGRAM" /\ Len(parsed.log) < MaxErrors
    /\ wrong[1] \notin {"{", "}", "do"} /\ wrong[2] # ";" /\ ~Mentions({"{", "}", "do"})
  => LastSentenceSurvives

RECURSIVE HasInvalid(_)
HasInvalid(n) == n.t = "INVALID" \/ \E i \in DOMAIN n.kids : HasInvalid(n.kids[i])

\* The compiler does not look at the errors: it refuses a tree for the INVALID
\* node in it.  A text that is read to its end and has an error leaves one,
\* unless all there is to report is that semicolons were supplied.
ErrorsArePoisoned ==
  /\ parsed.pos > Len(text) /\ Tree(parsed).t = "PROGRAM"
  /\ \E i \in DOMAIN parsed.log : parsed.log[i] # "SEMICOLON_MISSING"
  => HasInvalid(Tree(parsed))

\* The comment before parser_synchronize: "Braces are balanced so a garbage
\* block/literal does not eat the closing brace of the enclosing block."
BracesStayBalanced ==
  hit = 1 /\ program[1].t = "BLOCK" /\ text[1] = "{" /\ Len(parsed.log) < MaxErrors
    /\ ToSet(wrong) \cap {"{", "}", "do"} = {} /\ wrong[2] # ";" /\ ~Mentions({"do"})
  => LastSentenceSurvives
=============================================================================
