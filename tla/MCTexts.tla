------------------------------- MODULE MCTexts -------------------------------
(***************************************************************************)
(* Scripts composed from every construct of the language that needs no     *)
(* host, what the compiler (AzoProgram) makes of them, and what they mean  *)
(* (AzoMeaning).                                                           *)
(***************************************************************************)
EXTENDS AzoProgram, AzoMeaning, MCTrees

CONSTANT Chains  \* whether the scripts are those with chained assignments
-----------------------------------------------------------------------------
If1(test, yes) == Keyword("if", <<test, yes>>)
If2(test, yes, no) == Keyword("if", <<test, yes, no>>)
While(test, body) == Keyword("while", <<test, body>>)
Do(body, test) == Keyword("do", <<body, test>>)
For(init, test, step, body) == Keyword("for", <<init, test, step, body>>)

\* id(x) is x, and nothing the optimizer knows.
Id == Var(id, Function(<<p>>, <<Returning(p)>>))
Unknown(x) == Call(id, <<x>>)

\* Every construct of the sentence grammar around a sentence, with variables x
\* and y of its own.
Around(s, x, y) ==
  << <<Var(x, Bool(TRUE)), Var(y, Bool(FALSE)), While(x, Block(<<If1(y, Set(x, Bool(FALSE))), s, Set(y, Bool(TRUE))>>))>>,
     <<Block(<<Var(x, One), s, Var(y, x)>>)>>,
     <<If1(b, s)>>, <<If2(b, Block(<<s, Var(x, b)>>), Set(a, Half))>>, <<If2(Not(b), Set(a, Half), s)>>,
     <<Var(x, Bool(TRUE)), While(x, Block(<<Var(y, x), s, Set(x, Not(y))>>))>>,
     <<Var(x, Bool(TRUE)), Do(Block(<<s, Var(y, Bool(FALSE)), Set(x, y)>>), x)>>,
     <<For(Var(x, Bool(TRUE)), x, Set(x, Bool(FALSE)), s)>>,
     <<For(Var(x, Unknown(b)), x, Set(x, Not(x)), Block(<<Var(y, Half), s>>))>> >>

Changes ==
  <<Set(a, Text("s")), Set(a, b), Set(a, Call(f, <<b>>)),
    If2(Pair("COMPARISON", "LT", Zero, One), Set(a, Half), Set(a, Zero)),
    Set(a, Pair("BINARY", "PLUS", a, Half)), Call(f, <<a>>), Returning(a)>>

\* Variables the optimizer knows, or not.
Beginnings ==
  LET Begun(x, y) == <<Id, Var(a, x), Var(b, y), Var(f, Function(<<q>>, <<Returning(q)>>))>>
  IN <<Begun(One, Bool(TRUE)), Begun(Unknown(One), Unknown(Bool(TRUE)))>>

\* The value of a comes through what must all be as it was.
Ending == <<Var(g, Zero), Set(g, a), Returning(Call(f, <<g>>))>>

Statements ==
  [i \in (1 .. 7) \X (1 .. 9) |->
     Script(Beginnings[1 + ((i[1] + i[2]) % 2)] \o Around(Changes[i[1]], c, d)[i[2]] \o Ending)]

Nested ==
  [i \in (1 .. 9) \X (1 .. 9) |->
     LET inner == Block(Around(Set(a, Unknown(b)), c, d)[i[1]])
     IN Script(Beginnings[1 + ((i[1] + i[2]) % 2)] \o Around(inner, e, h)[i[2]] \o Ending)]

\* A lambda that captures, one inside another, one made by another, one given
\* to another, and those that throw.
LambdaBodies(x) ==
  << <<Returning(x)>>, <<Var(c, b), Var(d, a), Returning(x)>>,
     <<Var(f, Function(<<q>>, <<Var(c, q), Var(d, b), Returning(x)>>)), Set(p, Half), Returning(Call(f, <<a>>))>>,
     <<Var(f, Function(<< >>, <<Var(c, p), Var(g, Function(<<q>>, <<Returning(x)>>)), Returning(Call(g, <<c>>))>>)),
       Returning(Call(f, << >>))>>,
     <<Var(f, Function(<<q>>, <<Returning(Call(q, <<x>>))>>)), Returning(Call(f, <<id>>))>>,
     <<If1(b, Block(<<Var(c, a), Returning(x)>>)), Returning(p)>>,
     <<Var(c, Not(x)), Returning(a)>>,
     <<Var(c, Call(id, <<Call(id, <<x>>)>>)), While(b, Returning(c)), Returning(p)>> >>

Lambdas ==
  LET Used(body) ==
        << <<Var(g, Function(<<p>>, body)), Set(a, Half), Returning(Call(g, <<Text("s")>>))>>,
           <<Var(h, Function(<< >>, <<Returning(Function(<<p>>, body))>>)), Var(g, Call(h, << >>)), Set(a, Half),
             Var(d, Call(id, <<Call(g, <<b>>)>>)), Returning(d)>> >>
  IN [i \in (1 .. 3) \X (1 .. 8) \X (1 .. 2) |->
        Script(<<Id, Var(a, One), Var(b, Unknown(Bool(TRUE)))>> \o Used(LambdaBodies(<<a, b, p>>[i[1]])[i[2]])[i[3]])]

\* Every operator, on values the optimizer does not know and on one it does.
Applications(x, y) ==
  [i \in 1 .. 4 |-> Pair("BINARY", <<"PLUS", "STAR", "ANDAND", "OROR">>[i], x, y)]
  \o [i \in 1 .. 6 |-> Pair("COMPARISON", <<"E", "NE", "LT", "LE", "GT", "GE">>[i], x, y)]
  \o [i \in 1 .. 2 |-> Node("PREFIX", <<"NOT", "MINUS">>[i], {}, <<y>>)]

Operations ==
  [i \in (1 .. 2) \X (1 .. 3) \X (1 .. 12) |->
     Script(<<Id, Var(a, Unknown(Zero)), Var(b, Unknown(Bool(FALSE))), Var(h, Unknown(Half)),
              Returning(Applications(<<a, b>>[i[1]], <<b, h, One>>[i[2]])[i[3]])>>)]

\* doc/language.txt: "a = b = c = 0 assigns 0 to c, b and a".
Chained ==
  [i \in (1 .. 2) \X (1 .. 2) |->
     Script(Beginnings[i[1]] \o <<Node("ASSIGN", "PLAIN", {}, <<a, b, Unknown(Text("s"))>>), Returning(<<a, b>>[i[2]])>>)]
-----------------------------------------------------------------------------
\* Scripts by name: a family, and the place in it.
Named(family, trees) ==
  LET Name(i) == family \o ToString(i)
  IN [name \in {Name(i) : i \in DOMAIN trees} |-> trees[CHOOSE i \in DOMAIN trees : Name(i) = name]]

AllScripts ==
  IF Chains THEN Named("chained", Chained)
  ELSE Named("statements", Statements) @@ Named("nested", Nested) @@ Named("lambdas", Lambdas)
         @@ Named("operations", Operations)

\* All programs of all scripts.  TLC evaluates what LET names once, a function
\* once it is combined with another, and keeps what a definition without
\* parameters is worth, but not what a constant is replaced by.
Linked ==
  LET scripts == AllScripts
      programs == [name \in DOMAIN scripts |-> CompileFromText(name, scripts[name], FALSE, << >>, "any")] @@ << >>
      names == UNION {DOMAIN programs[name] : name \in DOMAIN scripts}
      all == [x \in names |-> programs[CHOOSE name \in DOMAIN scripts : x \in DOMAIN programs[name]][x]] @@ << >>
  IN [scripts |-> scripts, progs |-> names, entry |-> DOMAIN scripts,
      code |-> [x \in names |-> all[x].code] @@ << >>, args |-> [x \in names |-> all[x].args] @@ << >>,
      captures |-> [x \in names |-> all[x].captures] @@ << >>, static |-> [x \in names |-> 0] @@ << >>,
      constants |-> [x \in names |-> all[x].constants] @@ << >>]

Meant == LET scripts == AllScripts IN [name \in DOMAIN scripts |-> Meaning(scripts[name])] @@ << >>
=============================================================================
