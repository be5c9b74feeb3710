------------------------------ MODULE AzoNodes ------------------------------
(***************************************************************************)
(* The nodes of the syntax tree (node.c): a term's type and subtype, a set *)
(* with its value, if it has any, and its children.                        *)
(***************************************************************************)
EXTENDS Sequences

Node(type, subtype, value, kids) ==
  [t |-> type, s |-> subtype, v |-> value, kids |-> kids]

Plain(type, kids) == Node(type, "GENERIC", {}, kids)
Empty == Plain("EMPTY", <<>>)
Reference(name) == Node("REFERENCE", "VARIABLE", {name}, <<>>)

Is(n, type, subtypes) == n.t = type /\ n.s \in subtypes

\* The value of a node that has one.
The(n) == CHOOSE value \in n.v : TRUE
=============================================================================
