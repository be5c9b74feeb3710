------------------------------ MODULE MCScripts ------------------------------
(***************************************************************************)
(* The whole way of a script: the scripts of MCTexts, compiled, are run by *)
(* the interpreter (AzoMachine), and what a run delivers is compared with  *)
(* what the script means.                                                  *)
(***************************************************************************)
EXTENDS MCTexts, AzoHeights, MCNotes

Seqs == INSTANCE SequencesExt

CONSTANTS Scripts,   \* the scripts, by name
          Meanings   \* what they mean, by name
-----------------------------------------------------------------------------
Annotated == LET all == Linked IN [x \in all.progs |-> NotesOf(all.code[x], all.args[x])] @@ << >>

MCScripts == LET all == Linked IN all.scripts
MCMeanings == LET all == Meant IN all
MCProgs == LET all == Linked IN all.progs
MCEntry == LET all == Linked IN all.entry
MCCode == LET all == Linked IN all.code
MCNArgs == LET all == Linked IN all.args
MCNCaptures == LET all == Linked IN all.captures
MCNStatic == LET all == Linked IN all.static
MCConstants == LET all == Linked IN all.constants
MCHeights == LET notes == Annotated IN notes

MCContext == "any" :> Of("class", "any")
MCNumerals == "0" :> Of("int32", "zero") @@ "1" :> Of("int32", "pos") @@ "0.5" :> Of("double", "pos")
MCNames == {"s"}
Nothing == << >>
-----------------------------------------------------------------------------
(* doc/language.txt of declarations, blocks, assignment, operators,        *)
(* conditions, loops and lambdas: a script returns what it says.           *)
ReturnsAsWritten ==
  last.prog \in Entry =>
    last.returned = Meanings[last.prog].returned /\ Means(last.result, Meanings[last.prog].result)

(* When a script reaches its last instruction, every sentence before has   *)
(* taken off the stack whatever it put there but the variables it          *)
(* declares: only those and the value to return are left.                  *)
Declares(tree) == Seqs!FoldLeft(LAMBDA n, s : n + IF s.t = "DECLARATION_LIST" THEN Len(s.kids) - 1 ELSE 0, 0, tree.kids)
SentencesBalanced ==
  Len(calls) = 1 /\ Act.pc = Len(Code[Act.prog]) /\ Ins.op = "RETURN_VALUE"
    => Len(stack) = Act.base + Declares(Scripts[Act.prog]) + 1

(* The compiler keeps the stack at heights that can be noted, along every   *)
(* way through the code of a script, also those that no run of it takes;    *)
(* and whenever a run is at an instruction, what is noted of it is so.      *)
Verified == \A x \in Progs : NotedWell(x)
HeightsKept == Verified /\ HInv

(* Every script ends: the loops compiled from it end when they should.     *)
ScriptsEnd == (calls # << >>) ~> (calls = << >>)
=============================================================================
