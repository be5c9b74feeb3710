----------------------------- MODULE AzoProgram ------------------------------
(***************************************************************************)
(* From a syntax tree to programs (azo_program_compile_from_text): the     *)
(* tree is resolved, optimized and compiled, and whatever fails on the way *)
(* leaves no program.                                                      *)
(***************************************************************************)
EXTENDS AzoOptimizer, AzoCompiler

LOCAL INSTANCE SequencesExt

\* A name that is declared already is an error nobody looks at.
Declared(c, name) ==
  IF name \in DOMAIN Innermost(Current(c)).vars THEN c ELSE WithCurrent(c, DeclareVariable(Current(c), name))

\* The script of a host that hands over `this', if this is TRUE, and the
\* arguments named, and takes a value of type ret.
CompileFromText(name, tree, this, args, ret) ==
  LET resolved == ResolveFrame(FoldLeft(Declared, Resolver(this, Len(args), ret), args), tree)
      optimized == Optimize(resolved.n)
  IN IF resolved.c.ok /\ optimized.ok THEN Programs(name, optimized.n, Len(args)) ELSE << >>
=============================================================================
