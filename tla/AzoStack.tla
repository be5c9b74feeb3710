------------------------------ MODULE AzoStack -------------------------------
(***************************************************************************)
(* What the value stack promises its clients (stack.h): a sequence of      *)
(* elements under pop, remove, push, duplicate, exchange and convert.      *)
(* AzoPackedStack shows that the packed memory layout of stack.c keeps     *)
(* this promise.                                                           *)
(***************************************************************************)
EXTENDS AzoValues, AzoStackOps

CONSTANT MaxLength   \* bound on the number of elements

VARIABLE stack

Init == stack = << >>

Push(e) == Len(stack) < MaxLength /\ stack' = Append(stack, e)

Pop(n) == n <= Len(stack) /\ stack' = Popped(stack, n)

Remove(first, n) == first + n <= Len(stack) /\ stack' = Removed(stack, first, n)

Duplicate(pos) ==
  /\ pos < Len(stack) /\ Len(stack) < MaxLength
  /\ stack' = Duplicated(stack, pos)

Exchange(pos) == pos < Len(stack) - 1 /\ stack' = Exchanged(stack, pos)

\* A conversion that fails leaves the stack as it is (a stutter).
Convert(pos, to) ==
  /\ pos < Len(stack)
  /\ \E e \in Conversions(stack[pos + 1], to) : stack' = [stack EXCEPT ![pos + 1] = e]

Next ==
  \/ \E e \in Element : Push(e)
  \/ \E n \in 0 .. Len(stack) : Pop(n)
  \/ \E first \in 0 .. Len(stack), n \in 0 .. Len(stack) : Remove(first, n)
  \/ \E pos \in 0 .. Len(stack) - 1 : Duplicate(pos) \/ Exchange(pos)
  \/ \E pos \in 0 .. Len(stack) - 1, to \in Impls : Convert(pos, to)

Spec == Init /\ [][Next]_stack
=============================================================================
