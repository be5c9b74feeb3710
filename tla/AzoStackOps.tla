----------------------------- MODULE AzoStackOps -----------------------------
(***************************************************************************)
(* The value stack as a sequence: what each operation of stack.h promises. *)
(* Positions count from 0 at the bottom, as in the code; the _bw operators *)
(* count from 0 at the top.                                                *)
(***************************************************************************)
EXTENDS Integers, Sequences

\* The element at pos_from_last (azo_stack_value_bw and its relatives).
Bw(s, pos) == s[Len(s) - pos]

\* Remove the n topmost elements.
Popped(s, n) == SubSeq(s, 1, Len(s) - n)

\* Remove n elements, starting from position first.
Removed(s, first, n) == SubSeq(s, 1, first) \o SubSeq(s, first + n + 1, Len(s))

\* Push a copy of the element at pos.
Duplicated(s, pos) == Append(s, s[pos + 1])

\* Exchange the element at pos with the top of the stack; the code returns at
\* once when pos is the top itself.
Exchanged(s, pos) ==
  [s EXCEPT ![pos + 1] = s[Len(s)], ![Len(s)] = s[pos + 1]]
=============================================================================
