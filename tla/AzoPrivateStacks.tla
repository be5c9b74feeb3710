---------------------------- MODULE AzoPrivateStacks ---------------------------
(***************************************************************************)
(* The one value stack of the interpreter seen as a stack of each run's    *)
(* own (AzoCalls): the values from where the run started to where the run  *)
(* above it did.                                                           *)
(***************************************************************************)
EXTENDS AzoMachine

Limit(k) == IF k = Len(calls) THEN Len(stack) ELSE calls[k + 1].base
Own(k) == SubSeq(stack, calls[k].base + 1, Limit(k))

Active ==
  [k \in 1 .. Len(calls) |->
     [prog |-> calls[k].prog, own |-> Own(k), ended |-> calls[k].pc \notin DOMAIN Code[calls[k].prog],
      returned |-> calls[k].returned, value |-> calls[k].value]]

Private == INSTANCE AzoCalls WITH active <- Active

(* Each run works as on a stack of its own: it takes and changes nothing of *)
(* its callers' values, a function is given its arguments and nothing else  *)
(* of what the caller has, and its end leaves the caller one value more,    *)
(* the one it returned if it returned one, although interpreter.c keeps     *)
(* the values of all runs on one stack and does not test what belongs to    *)
(* whom.                                                                    *)
ImplementsCalls == Private!Spec
================================================================================
