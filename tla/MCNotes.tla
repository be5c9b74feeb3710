------------------------------- MODULE MCNotes -------------------------------
(***************************************************************************)
(* Computes, from the code of a program, the notes AzoHeights asks for: by *)
(* following every way through it, until nothing less is known of any      *)
(* instruction.                                                            *)
(***************************************************************************)
EXTENDS AzoEffects, FiniteSetsExt

\* The notes of a program: what is known along every way to an instruction.
Unreached == [frames |-> << >>, spare |-> 0, over |-> 0]

\* What code that loses or heaps up values in a loop leaves is cut, so that the
\* search ends; the notes of such code do not agree with it.
Joined(x, y) ==
  IF x = Unreached THEN y
  ELSE [frames |-> [i \in 1 .. Min({Len(x.frames), Len(y.frames)}) |-> Max({0, Min({x.frames[i], y.frames[i]})})],
        spare |-> Min({x.spare, y.spare}), over |-> Max({x.over, y.over})]

NoteAfter(ins, i, note, to, change) ==
  [frames |-> After(ins, note.frames, change + Unspared(ins, i, to, note.spare)), spare |-> Spared(ins),
   over |-> Max({0, Min({OverAfter(ins, note.over, change), Overshoot + 1})})]

\* Nothing follows an instruction that does not find what it asks for.
Onward(code, i, note) ==
  LET ins == code[i]
  IN IF Asks(ins) > note.frames[Len(note.frames)] \/ (ins.op = "POP_FRAME" /\ Len(note.frames) < 2) THEN {}
     ELSE {[at |-> to, note |-> NoteAfter(ins, i, note, to, change)] :
             to \in Follow(ins, i) \cap DOMAIN code, change \in Balance(ins)}

\* What is yet to be known of instructions is known, one after the other.
RECURSIVE Spread(_, _, _)
Spread(code, notes, work) ==
  IF work = {} THEN notes
  ELSE LET w == CHOOSE w \in work : TRUE
           known == Joined(notes[w.at], w.note)
       IN IF known = notes[w.at] THEN Spread(code, notes, work \ {w})
          ELSE Spread(code, [notes EXCEPT ![w.at] = known], (work \ {w}) \cup Onward(code, w.at, known))

\* A run starts with its arguments, and they were pushed without a test.
NotesOf(code, args) ==
  IF code = << >> THEN << >>
  ELSE Spread(code, [i \in DOMAIN code |-> Unreached],
              {[at |-> 1, note |-> [frames |-> <<args>>, spare |-> 0, over |-> args]]})
==============================================================================
