------------------------------ MODULE AzoValues ------------------------------
(***************************************************************************)
(* Values as the azo value stack sees them.  A value has an implementation *)
(* (the az class it belongs to) and a content; the content is a token that *)
(* the models only move, copy and compare.  An implementation occupies     *)
(* Bytes[impl] bytes; the stack rounds that up to cells of 16 bytes.       *)
(* The null implementation is legal on the stack and has no content.       *)
(***************************************************************************)
EXTENDS Integers

CONSTANTS
  Impls,    \* the implementations (az classes) of the values in play
  Bytes,    \* Bytes[i] is the value size of implementation i
  Boxed,    \* the implementation that values too large for 16 bytes are boxed in
  Contents, \* the contents a value may have
  NoImpl,   \* the NULL implementation pointer
  NoContent \* what an element of the NULL implementation holds

CellBytes == 16

ASSUME ValuesAssumption ==
  /\ Bytes \in [Impls -> Nat]
  /\ NoImpl \notin Impls
  /\ NoContent \notin Contents
  /\ Boxed \in Impls /\ Bytes[Boxed] <= CellBytes

Null == [impl |-> NoImpl, content |-> NoContent]

Element == [impl : Impls, content : Contents] \cup {Null}

\* Number of 16-byte cells an element of this implementation is given.
Cells(impl) ==
  IF impl = NoImpl \/ Bytes[impl] = 0 THEN 1
  ELSE (Bytes[impl] + CellBytes - 1) \div CellBytes

\* What an in-place conversion limited to 16 bytes may turn e into: the az
\* library keeps a value that already has the type, stores a small result in
\* place and boxes a large one; null has nothing to convert.
Conversions(e, to) ==
  IF e = Null \/ e.impl = to THEN {e}
  ELSE {[e EXCEPT !.impl = IF Bytes[to] <= CellBytes THEN to ELSE Boxed]}
=============================================================================
