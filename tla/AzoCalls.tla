------------------------------- MODULE AzoCalls -------------------------------
(***************************************************************************)
(* What the interpreter promises of calls: each run has a stack of its     *)
(* own.  It is given its arguments there, works on it and on no other, and *)
(* leaves its caller one value.  The interpreter itself has one stack for  *)
(* all runs and tests neither what an instruction takes nor, but by its    *)
(* frames, where the values of a run start (AzoPrivateStacks).             *)
(***************************************************************************)
EXTENDS Integers, Sequences

CONSTANTS
  Progs, Entry,  \* the programs, and those the host runs
  NArgs,         \* NArgs[p]: values p is given
  Values,        \* what a stack holds
  Foreign,       \* what the host gives
  Null           \* nothing

VARIABLES
  active,        \* the runs in progress, the topmost one executing
  last           \* the run that ended last, and what it delivered

\* A run: its program, its stack, whether it has stopped and whether it did so
\* with a value.
Run == [prog : Progs, own : Seq(Values), ended : BOOLEAN, returned : BOOLEAN, value : Values]

Top == active[Len(active)]

\* The first n runs, with their stacks, are as they were.
Same(n) == \A k \in 1 .. n : active'[k] = active[k]

Opened(run, p, args) == run.prog = p /\ run.own = args /\ ~run.returned

Init == active = << >> /\ last = [prog |-> "none", result |-> Null, returned |-> FALSE]

\* The host runs p.
Start(p) ==
  /\ active = << >>
  /\ Len(active') = 1
  /\ \E args \in [1 .. NArgs[p] -> Foreign] : Opened(active'[1], p, args)
  /\ UNCHANGED last

\* The executing run works on its own stack, or stops.
Work ==
  /\ active # << >> /\ ~Top.ended
  /\ Len(active') = Len(active) /\ Same(Len(active) - 1)
  /\ Top'.prog = Top.prog /\ ~Top'.returned
  /\ UNCHANGED last

\* It returns the value on top of its own stack.
Return ==
  /\ active # << >> /\ ~Top.ended
  /\ Len(active') = Len(active) /\ Same(Len(active) - 1)
  /\ Top'.prog = Top.prog /\ Top'.own = Top.own /\ Top'.ended /\ Top'.returned
  /\ Top.own # << >> /\ Top'.value = Top.own[Len(Top.own)]
  /\ UNCHANGED last

\* It calls p, which is given copies of the topmost values of its stack.
Call(p) ==
  LET own == Top.own
      n == Len(active)
  IN  /\ active # << >> /\ ~Top.ended
      /\ NArgs[p] <= Len(own)
      /\ Len(active') = n + 1 /\ Same(n)
      /\ Opened(active'[n + 1], p, SubSeq(own, Len(own) - NArgs[p] + 1, Len(own)))
      /\ UNCHANGED last

\* It is over: what it returned, if it did, is delivered, to its caller as one
\* value more.
End ==
  LET n == Len(active) - 1
      caller == active[n]
  IN  /\ active # << >> /\ Top.ended
      /\ last'.prog = Top.prog /\ last'.returned = Top.returned
      /\ Top.returned => last'.result = Top.value
      /\ Len(active') = n /\ Same(n - 1)
      /\ n > 0 => Opened(active'[n], caller.prog, Append(caller.own, last'.result))

Next ==
  /\ active' \in Seq(Run)
  /\ \/ \E p \in Entry : Start(p)
     \/ \E p \in Progs : Call(p)
     \/ Work \/ Return \/ End

Spec == Init /\ [][Next]_<<active, last>>
===============================================================================
