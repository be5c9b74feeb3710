----------------------------- MODULE MCMachine -------------------------------
(***************************************************************************)
(* Programs for AzoMachine: what the compiler (AzoProgram) makes of the    *)
(* script in each comment, and three written by hand for the instructions  *)
(* the compiler writes seldom or never.                                    *)
(***************************************************************************)
EXTENDS AzoVerified, MCNotes, AzoPrivateStacks, AzoProgram, MCTrees

This == Keyword("this", << >>)
Minus(x) == Node("PREFIX", "MINUS", {}, <<x>>)
Member(kind, x, name) == Node("REFERENCE", kind, {}, <<x, Node("REFERENCE", "MEMBER", {name}, << >>)>>)
Size(x) == Member("PROPERTY", x, "size")
Height(x) == Member("ATTRIBUTE", x, "height")
Element(x, i) == Plain("ARRAY_ELEMENT", <<x, i>>)
Procedure(args, sentences) == [Function(args, sentences) EXCEPT !.kids[1] = Empty]

\* any f = (a) => { any b = a; b = a; return b }; f(-1);
Locals ==
  Script(<<Var(f, Function(<<a>>, <<Var(b, a), Set(b, a), Returning(b)>>)), Call(f, <<Minus(One)>>)>>)

\* any g = (h) => h(h); g(g);
Recursion == Script(<<Var(g, Function(<<h>>, <<Returning(Call(h, <<h>>))>>)), Call(g, <<g>>)>>)

\* any f = (a) => () => a; any b = f(1); any c = f(-1); return b();
Captures ==
  Script(<<Var(f, Function(<<a>>, <<Returning(Function(<< >>, <<Returning(a)>>))>>)),
           Var(b, Call(f, <<One>>)), Var(c, Call(f, <<Minus(One)>>)), Returning(Call(b, << >>))>>)

\* any f = (a) => { any b = a.size; }; any c = f(this);
NoResult == Script(<<Var(f, Procedure(<<a>>, <<Var(b, Size(a))>>)), Var(c, Call(f, <<This>>))>>)

\* any f = (a, b) => b; return f(1);
Arity == Script(<<Var(f, Function(<<a, b>>, <<Returning(b)>>)), Returning(Call(f, <<One>>))>>)

\* this.size = this.size; this.move(this);
Properties == Script(<<Set(Size(This), Size(This)), Call(Member("PROPERTY", This, "move"), <<This>>)>>)

\* this->height = this->height; this->grow(this);
Attributes == Script(<<Set(Height(This), Height(This)), Call(Member("ATTRIBUTE", This, "grow"), <<This>>)>>)

\* any a = new klass(this); a.size++; return a is klass;
Construction ==
  Script(<<Var(a, Keyword("new", <<Reference("klass"), Plain("LIST", <<This>>)>>)),
           Node("SUFFIX", "INCREMENT", {}, <<Size(a)>>),
           Returning(Node("TEST", "IS", {}, <<a, Reference("klass")>>))>>)

\* any a = [this]; a[0] = a[1];
Arrays ==
  Script(<<Var(a, Plain("LITERAL_ARRAY", <<This>>)), Set(Element(a, Zero), Element(a, One))>>)

\* any a = klass.size; klass.make(a); return new klass(1);  (all members final)
Constancy ==
  Script(<<Var(a, Size(Reference("klass"))), Call(Member("PROPERTY", Reference("klass"), "make"), <<a>>),
           Returning(Keyword("new", <<Reference("klass"), Plain("LIST", <<One>>)>>))>>)

WithThis == {"nothing", "properties", "attributes", "objects", "arrays"}

Scripts ==
  "locals" :> Locals @@ "recurse" :> Recursion @@ "capture" :> Captures @@ "nothing" :> NoResult
  @@ "arity" :> Arity @@ "properties" :> Properties @@ "attributes" :> Attributes @@ "objects" :> Construction
  @@ "arrays" :> Arrays @@ "constancy" :> Constancy
-----------------------------------------------------------------------------
F(pos) == N("DUPLICATE_FRAME", pos)
Num(sign) == Of("int32", sign)

\* Count on an int32 while a comparison with itself is negative.
Loop ==
  <<Imm(Num("pos")),
    F(0), F(0), T("COMPARE_TYPED", 0, "int32"),
    N("JMP_32_IF_NEGATIVE", 2), Imm(Truth(FALSE)), N("JMP_32", 1), Imm(Truth(TRUE)),
    T("EXCEPTION_IF_TYPE_IS_NOT", 0, "bool"), N("JMP_32_IF_NOT", 7),
    F(0), F(0), I("NEGATE"), T("MULTIPLY_TYPED", 0, "int32"), N("EXCHANGE_FRAME", 0), N("POP", 1), N("JMP_32", 0 - 16),
    F(0), T("TYPE_IS_IMMEDIATE", 0, "object"), Rem(1, 1), I("RETURN_VALUE")>>

\* A closure with a capture, called with `this' and the host's value.
RawMain ==
  <<N("PUSH_VALUE", 0), Imm(Num("pos")), N("CLOSURE", 1),
    F(1), F(0), F(0), N("PUSH_FRAME", 2), N("INVOKE", 2), I("POP_FRAME"), Rem(1, 3), N("POP", 1)>>

Raw ==
  <<I("NOP"), T("PUSH_EMPTY", 0, "int32"), N("STORE_CAPTURE", 0), N("PUSH_CAPTURE", 0),
    N("STORE_VALUE", 0), N("PUSH_VALUE", 0), N("TYPE_OF", 0), N("TYPE_EQUALS", 1), I("LOGICAL_NOT"),
    Imm(Truth(FALSE)), I("LOGICAL_AND"), T("EXCEPTION_IF", 0, "INVALID_VALUE"),
    Imm(Of("double", "pos")), N("TYPE_OF", 0), N("PROMOTE", 2), T("CONVERT_TYPE", 0, "int32"),
    N("TYPE_OF", 0), N("PROMOTE", 2), T("MAX_TYPED", 0, "int32"), Imm(Num("pos")), I("EQUAL"),
    T("EXCEPTION_IF_NOT", 0, "INVALID_VALUE"),
    N("PUSH_VALUE", 1), I("GET_GLOBAL"), N("PUSH_VALUE", 1), I("GET_STATIC_PROPERTY"),
    F(0), N("PUSH_VALUE", 1), I("LOOKUP_PROPERTY"),
    F(0), T("GET_INTERFACE_IMMEDIATE", 0, "ATTRIBUTE_DICT"), I("RETURN")>>

Written ==
  LET Prog(code, args, captures, constants) ==
        [code |-> code, args |-> args, captures |-> captures, constants |-> constants]
  IN "loop" :> Prog(Loop, 0, 0, << >>) @@ "rawmain" :> Prog(RawMain, 1, 0, <<Of("program", "raw")>>)
     @@ "raw" :> Prog(Raw, 1, 1, <<Of("string", "klass")>>)
-----------------------------------------------------------------------------
\* The host hands over `this' too, where there is one.
Linked ==
  LET compiled == [s \in DOMAIN Scripts |-> CompileFromText(s, Scripts[s], s \in WithThis, << >>, "none")] @@ << >>
      names == UNION {DOMAIN compiled[s] : s \in DOMAIN Scripts}
      all == Written @@ [x \in names |-> compiled[CHOOSE s \in DOMAIN Scripts : x \in DOMAIN compiled[s]][x]]
      progs == DOMAIN all
  IN [progs |-> progs, code |-> [x \in progs |-> all[x].code] @@ << >>,
      args |-> [x \in progs |-> all[x].args + IF x \in WithThis THEN 1 ELSE 0] @@ << >>,
      captures |-> [x \in progs |-> all[x].captures] @@ << >>,
      static |-> [x \in progs |-> IF x = "raw" THEN 1 ELSE 0] @@ << >>,
      constants |-> [x \in progs |-> all[x].constants] @@ << >>]

MCProgs == LET all == Linked IN all.progs
MCCode == LET all == Linked IN all.code
MCNArgs == LET all == Linked IN all.args
MCNCaptures == LET all == Linked IN all.captures
MCNStatic == LET all == Linked IN all.static
MCConstants == LET all == Linked IN all.constants

Annotated ==
  LET all == Linked
  IN [x \in all.progs |-> NotesOf(all.code[x], all.args[x])] @@ << >>

MCHeights == LET notes == Annotated IN notes

MCNames == {"klass", "thing", "any", "size", "height", "move", "grow", "make", "new"}

Klass == Of("class", "thing")
Native(name) == Of("native", name)
MCMemory == "nil" :> "nil"
MCForeign == {Null, Of("double", "pos"), Of("dict", "nil"), Klass, Native("move")}
MCGlobals == "klass" :> Klass
MCNativeArgs == "move" :> <<"any", "int32">> @@ "make" :> <<"int32">>
MCContext == "any" :> Of("class", "any") @@ "klass" :> Klass
MCNumerals == "0" :> Num("zero") @@ "1" :> Num("pos")
MCConstructors == "thing" :> Native("make")
MCFinals == <<"PROPERTY", Klass, "size">> :> Num("pos") @@ <<"FUNCTION", Klass, "make">> :> Native("make")
AllEntries == (DOMAIN Scripts \cup {"loop", "rawmain"}) \ {"arity"}
=============================================================================
