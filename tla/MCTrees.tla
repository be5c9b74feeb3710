------------------------------- MODULE MCTrees -------------------------------
(***************************************************************************)
(* The trees scripts are composed of, as the parser builds them.           *)
(***************************************************************************)
EXTENDS AzoNodes

Number(text) == Node("CONSTANT", "NUMBER", {text}, << >>)
Bool(b) == Node("CONSTANT", "BOOLEAN", {IF b THEN "true" ELSE "false"}, << >>)
Text(s) == Node("CONSTANT", "STRING", {s}, << >>)
Zero == Number("0")
One == Number("1")
Half == Number("0.5")

a == Reference("a")
b == Reference("b")
c == Reference("c")
d == Reference("d")
e == Reference("e")
f == Reference("f")
g == Reference("g")
h == Reference("h")
id == Reference("id")
p == Reference("p")
q == Reference("q")

Keyword(word, kids) == Node("KEYWORD", word, {}, kids)
Var(name, value) == Plain("DECLARATION_LIST", <<Reference("any"), Plain("DECLARATION", <<name, value>>)>>)
Set(name, value) == Node("ASSIGN", "PLAIN", {}, <<name, value>>)
Block(sentences) == Plain("BLOCK", sentences)
Returning(value) == Keyword("return", <<value>>)
Function(args, sentences) ==
  Node("FUNCTION", "LAMBDA", {},
       <<Reference("any"), Plain("LIST", [i \in DOMAIN args |-> Plain("ARGUMENT_DECLARATION", <<Empty, args[i]>>)]),
         Block(sentences)>>)
Call(function, args) == Plain("FUNCTION_CALL", <<function, Plain("LIST", args)>>)
Pair(type, s, x, y) == Node(type, s, {}, <<x, y>>)
Not(x) == Node("PREFIX", "NOT", {}, <<x>>)
Script(sentences) == Plain("PROGRAM", sentences)
=============================================================================
