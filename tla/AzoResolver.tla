----------------------------- MODULE AzoResolver -----------------------------
(***************************************************************************)
(* The resolver (resolve-frames.c, resolve-references.c) over frames       *)
(* (frame.c), their scopes (scope.c) and lists of variables (variable.c):  *)
(* every name of a tree becomes a constant, a position in the frame, a     *)
(* captured value or a member of `this', and every block, loop and lambda  *)
(* learns how many variables it has.                                       *)
(*                                                                         *)
(* A resolver state c is the chain of frames, the innermost last, and      *)
(* whether all went well.  Each operator gives the state after, and the    *)
(* resolved tree.  Nothing is compiled after an error, whatever the rest   *)
(* of the tree became.                                                     *)
(***************************************************************************)
EXTENDS AzoNodes, AzoTypes, FiniteSets, TLC

LOCAL INSTANCE SequencesExt

CONSTANTS
  Context,       \* the global values (comp->ctx->globals), by name
  Numerals,      \* the values of numbers, by their text
  Finals,        \* the final members of constants, by kind, owner and name
  Constructors   \* the final `new' of a class taking constants, by class name

Scope(next) == [vars |-> << >>, next |-> next]

\* The first position of a frame is reserved for `this', if it has one.
NewFrame(this, args, ret) ==
  [scopes |-> <<Scope(IF this THEN 1 ELSE 0)>>, caps |-> << >>, this |-> this,
   args |-> args, ret |-> ret]

Resolver(this, args, ret) == [frames |-> <<NewFrame(this, args, ret)>>, ok |-> TRUE]

Current(c) == Last(c.frames)
WithCurrent(c, f) == [c EXCEPT !.frames[Len(c.frames)] = f]
Wrong(c) == [c EXCEPT !.ok = FALSE]
Demand(c, condition) == IF condition THEN c ELSE Wrong(c)

Result(c, n) == [c |-> c, n |-> n]
Constant(value) == Node("CONSTANT", "GLOBAL", {value}, << >>)
Variable(kind, pos, name) == Node("VARIABLE", kind, {[pos |-> pos, name |-> name]}, << >>)
TypeNode(type) == Node("TYPE", type, {}, << >>)

\* The value of a constant.
ConstantValue(n) ==
  CASE n.s = "NONE"    -> Null
    [] n.s = "BOOLEAN" -> Truth(The(n) = "true")
    [] n.s = "NUMBER"  -> Numerals[The(n)]
    [] n.s = "STRING"  -> Of("string", The(n))
    [] n.s = "GLOBAL"  -> The(n)

IsClass(n) == n.t = "CONSTANT" /\ n.s = "GLOBAL" /\ The(n).type = "class"
-----------------------------------------------------------------------------
(***************************************************************************)
(* Scopes, and captured variables.                                         *)
(***************************************************************************)
Innermost(f) == Last(f.scopes)
PushScope(f) == [f EXCEPT !.scopes = Append(@, Scope(Innermost(f).next))]
PopScope(f) == [f EXCEPT !.scopes = Front(@)]

ScopeSize(f) ==
  Innermost(f).next - IF Len(f.scopes) > 1 THEN f.scopes[Len(f.scopes) - 1].next ELSE 0

DeclareVariable(f, name) ==
  [f EXCEPT !.scopes[Len(f.scopes)] =
     [vars |-> (name :> @.next) @@ @.vars, next |-> @.next + 1]]

Holding(f, name) == {i \in DOMAIN f.scopes : name \in DOMAIN f.scopes[i].vars}
IsLocal(f, name) == Holding(f, name) # {}
LocalPosition(f, name) == f.scopes[Max(Holding(f, name))].vars[name]

IsCaptured(f, name) == \E i \in DOMAIN f.caps : f.caps[i].name = name
CapturedPosition(f, name) == f.caps[CHOOSE i \in DOMAIN f.caps : f.caps[i].name = name].pos

Knows(f, name) == IsLocal(f, name) \/ IsCaptured(f, name)

\* The variable as the frame around the one that captures it sees it.
Source(f, name) ==
  IF IsLocal(f, name) THEN [kind |-> "LOCAL", pos |-> LocalPosition(f, name)]
  ELSE [kind |-> "PARENT", pos |-> CapturedPosition(f, name)]

\* Every frame between the one that declares the variable and frame k captures
\* it, so that its value is handed down.  The newest capture comes first.
RECURSIVE EnsureVariable(_, _, _)
EnsureVariable(frames, k, name) ==
  IF k = 0 \/ Knows(frames[k], name) THEN frames
  ELSE LET outer == EnsureVariable(frames, k - 1, name)
       IN [outer EXCEPT ![k].caps =
             <<[name |-> name, pos |-> Len(@), source |-> Source(outer[k - 1], name)]>> \o @]
-----------------------------------------------------------------------------
(***************************************************************************)
(* References.                                                             *)
(***************************************************************************)
\* A member that did not resolve to a constant of `this' stays a member of it.
ThisReference(n) ==
  Node("REFERENCE", "PROPERTY", n.v,
       <<Node("KEYWORD", "this", {}, << >>), Node("REFERENCE", "MEMBER", n.v, << >>)>>)

ResolveVariable(c, n) ==
  LET name == The(n)
      f == Current(c)
      last == Len(c.frames)
  IN CASE name \in DOMAIN Context -> Result(c, Constant(Context[name]))
       [] IsLocal(f, name)        -> Result(c, Variable("LOCAL", LocalPosition(f, name), name))
       [] IsCaptured(f, name)     -> Result(c, Variable("PARENT", CapturedPosition(f, name), name))
       [] ~Knows(f, name) /\ \E k \in 1 .. last - 1 : Knows(c.frames[k], name) ->
            LET d == [c EXCEPT !.frames = EnsureVariable(@, last, name)]
            IN Result(d, Variable("PARENT", CapturedPosition(Current(d), name), name))
       [] ~(\E k \in 1 .. last : Knows(c.frames[k], name)) /\ f.this -> Result(c, ThisReference(n))
       [] OTHER                   -> Result(Wrong(c), n)

RECURSIVE Resolve(_, _)

\* Children in order.
ResolveList(c, kids) ==
  FoldLeft(LAMBDA r, kid : LET q == Resolve(r.c, kid) IN [c |-> q.c, kids |-> Append(r.kids, q.n)],
           [c |-> c, kids |-> << >>], kids)

ResolveChildren(c, n) ==
  LET r == ResolveList(c, n.kids) IN Result(r.c, [n EXCEPT !.kids = r.kids])

\* parent.member and parent->member: a final member of a constant is a constant.
ResolveMember(c, n) ==
  LET r == ResolveChildren(c, n)
      owner == r.n.kids[1]
      key == <<n.s, The(owner), The(r.n.kids[2])>>
  IN IF Is(owner, "CONSTANT", {"GLOBAL"}) /\ key \in DOMAIN Finals
     THEN Result(r.c, Constant(Finals[key])) ELSE r

ResolveReference(c, n) ==
  CASE n.s = "VARIABLE" -> ResolveVariable(c, n)
    [] n.s = "MEMBER"   -> Result(c, n)
    [] OTHER            -> ResolveMember(c, n)

ResolveNodeToClass(c, n) ==
  LET r == Resolve(c, n) IN Result(Demand(r.c, IsClass(r.n)), r.n)

\* A type expression, which may be left out, becomes the type it names.
ResolveType(c, n) ==
  IF n.t = "EMPTY" THEN Result(c, TypeNode("none"))
  ELSE LET r == ResolveNodeToClass(c, n)
       IN Result(r.c, IF IsClass(r.n) THEN TypeNode(The(r.n).content) ELSE r.n)
-----------------------------------------------------------------------------
(***************************************************************************)
(* Declarations, lambdas and the rest.                                     *)
(***************************************************************************)
\* The variable is declared before its initial value is resolved.
ResolveDeclaration(c, n) ==
  LET name == The(n.kids[1])
      f == Current(c)
      d == IF name \in DOMAIN Innermost(f).vars THEN Wrong(c) ELSE WithCurrent(c, DeclareVariable(f, name))
      r == ResolveList(d, Tail(n.kids))
  IN Result(r.c, [n EXCEPT !.kids = <<n.kids[1]>> \o r.kids])

ResolveDeclarationList(c, n) ==
  LET type == ResolveNodeToClass(c, n.kids[1])
      Declared(r, kid) == LET q == ResolveDeclaration(r.c, kid) IN [c |-> q.c, kids |-> Append(r.kids, q.n)]
      r == FoldLeft(Declared,
                    [c |-> type.c, kids |-> <<TypeNode(IF IsClass(type.n) THEN The(type.n).content ELSE "none")>>],
                    Tail(n.kids))
  IN Result(r.c, [n EXCEPT !.kids = r.kids])

\* A constant is converted to the type of the frame, where there is one.
ResolveReturn(c, n) ==
  LET r == ResolveChildren(c, n)
      ret == Current(c).ret
      val == r.n.kids[1]
      constant == ConstantValue(val)
      Valued ==
        CASE val.t = "EMPTY"         -> Result(Demand(r.c, ret = "none"), r.n)
          [] val.t = "CONSTANT" /\ ~IsA(constant.type, ret) ->
               IF Convertible(constant, ret)
               THEN Result(r.c, [r.n EXCEPT !.kids = <<Constant(Converted(constant, ret))>>])
               ELSE Result(Wrong(r.c), r.n)
          [] OTHER                   -> r
  IN IF n.kids = << >> THEN Result(Demand(c, ret = "none"), n) ELSE Valued

ResolveFrameUnreversed(c, body) ==  \* mutant
  LET r == ResolveList(c, body.kids) IN Result(r.c, [body EXCEPT !.kids = r.kids])

\* The sentences of a program or of the body of a lambda.
ResolveFrame(c, body) ==
  LET r == ResolveList(c, body.kids)
      f == Current(r.c)
      returns == body.kids # << >> /\ Is(Last(body.kids), "KEYWORD", {"return"})
      d == Demand(r.c, f.ret = "none" \/ returns)
  IN Result(WithCurrent(d, [f EXCEPT !.caps = Reverse(@)]), [body EXCEPT !.kids = r.kids])

\* The argument types are resolved in the frame of the lambda's surroundings.
ResolveFunction(c, n) ==
  LET type == ResolveType(c, n.kids[1])
      args == n.kids[2]
      ArgumentTyped(r, arg) ==
        LET q == IF arg.kids[1].t = "EMPTY" THEN Result(r.c, arg.kids[1]) ELSE ResolveNodeToClass(r.c, arg.kids[1])
        IN [c |-> q.c, kids |-> Append(r.kids, [arg EXCEPT !.kids[1] = q.n])]
      typed == FoldLeft(ArgumentTyped, [c |-> type.c, kids |-> << >>], args.kids)
      ArgumentDeclared(d, arg) ==
        LET name == The(arg.kids[2])
        IN IF name \in DOMAIN Innermost(Current(d)).vars THEN Wrong(d)
           ELSE WithCurrent(d, DeclareVariable(Current(d), name))
      inside == [typed.c EXCEPT !.frames = Append(@, NewFrame(FALSE, Len(args.kids), type.n.s))]
      body == ResolveFrame(FoldLeft(ArgumentDeclared, inside, args.kids), n.kids[3])
      frame == Current(body.c)
  IN Result([body.c EXCEPT !.frames = Front(@)],
            [n EXCEPT !.kids = <<type.n, [args EXCEPT !.kids = typed.kids], body.n>>,
                      !.v = {[args |-> frame.args, caps |-> frame.caps, this |-> frame.this]}])

\* new Class(constants) with a final `new' is a call of that function.
ResolveNew(c, n) ==
  LET class == ResolveNodeToClass(c, n.kids[1])
      args == Resolve(class.c, n.kids[2])
      constant == \A i \in DOMAIN args.n.kids : args.n.kids[i].t = "CONSTANT"
      r == Result(args.c, [n EXCEPT !.kids = <<class.n, args.n>>])
  IN IF IsClass(class.n) /\ constant /\ The(class.n).content \in DOMAIN Constructors
     THEN Result(r.c, Plain("FUNCTION_CALL", <<Constant(Constructors[The(class.n).content]), args.n>>))
     ELSE r

BinaryTerms ==
  [op \in {"PLUS", "MINUS", "STAR", "SLASH", "PERCENT", "SHIFT_LEFT", "SHIFT_RIGHT", "AND", "OR"} |-> op]
    @@ "XOR" :> "CARET"

\* The first target and what follows it; of a chain, the rest is left alone.
ResolvePlainAssign(c, n) ==
  LET r == ResolveList(c, SubSeq(n.kids, 1, 2))
  IN Result(r.c, [n EXCEPT !.kids = r.kids \o SubSeq(n.kids, 3, Len(n.kids))])

\* a += b is resolved as a = a + b.  The copy of the target has no children.
ResolveAssign(c, n) ==
  IF n.s = "PLAIN" THEN ResolvePlainAssign(c, n)
  ELSE ResolvePlainAssign(c, Node("ASSIGN", "PLAIN", {},
         <<n.kids[1], Node("BINARY", BinaryTerms[n.s], {}, <<[n.kids[1] EXCEPT !.kids = << >>], n.kids[2]>>)>>))

\* Only conversions to primitive types are implemented.
ResolveCast(c, n) ==
  LET type == ResolveNodeToClass(c, n.kids[1])
      val == Resolve(type.c, n.kids[2])
  IN Result(Demand(val.c, n.s = "CONVERT"),
            [n EXCEPT !.kids = <<IF IsClass(type.n) THEN TypeNode(The(type.n).content) ELSE type.n, val.n>>])

\* A node with a scope of its own, which learns its size.
ResolveScoped(c, n) ==
  LET r == ResolveChildren(WithCurrent(c, PushScope(Current(c))), n)
      f == Current(r.c)
  IN Result(WithCurrent(r.c, PopScope(f)), [r.n EXCEPT !.v = {ScopeSize(f)}])

\* An argument list is resolved with the call; if, while and do have no scope.
\* A callee that is no reference stops at an assertion.
Resolve(c, n) ==
  CASE ~c.ok                                        -> Result(c, n)
    [] n.t = "INVALID"                              -> Result(Wrong(c), n)
    [] n.t = "EMPTY"                                -> Result(c, n)
    [] n.t = "BLOCK" \/ Is(n, "KEYWORD", {"for"})   -> ResolveScoped(c, n)
    [] Is(n, "KEYWORD", {"new"})                    -> ResolveNew(c, n)
    [] Is(n, "KEYWORD", {"return"})                 -> ResolveReturn(c, n)
    [] n.t = "DECLARATION_LIST"                     -> ResolveDeclarationList(c, n)
    [] n.t = "FUNCTION"                             -> ResolveFunction(c, n)
    [] n.t = "REFERENCE"                            -> ResolveReference(c, n)
    [] n.t = "ASSIGN"                               -> ResolveAssign(c, n)
    [] n.t = "CAST"                                 -> ResolveCast(c, n)
    [] n.t = "FUNCTION_CALL" /\ n.kids[1].t # "REFERENCE" -> Result(Wrong(c), n)
    [] OTHER                                        -> ResolveChildren(c, n)
=============================================================================
