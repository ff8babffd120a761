----------------------------- MODULE MCKnowledge -----------------------------
(* Five documents of two texts: a long one whose second text asks not to be *)
(* indexed, a short one that resembles itself and that its second text      *)
(* approves, a note and a copy of it, and a misfiled one.                   *)
EXTENDS Knowledge

CONSTANTS long, short, note, copy, misfiled

Documents == {long, short, note, copy, misfiled}
CopyOf == [d \in Documents |-> IF d = copy THEN note ELSE d]
Gate1 == [d \in Documents |->
            CASE d = short -> {2} [] d = misfiled -> 0..2 [] OTHER -> {0, 1}]
Resembling == {<<short, short>>}

System(ds, m, c, w, f) ==
  [docs |-> ds, matches |-> m, ceiling |-> c, writes |-> w, faults |-> f]
Systems ==
  {System({long, short}, TRUE, 2, 1, 0),
   System({note, copy}, TRUE, 2, 1, 0),
   System({long}, FALSE, 1, 2, 1),
   System({short}, TRUE, 1, 2, 1),
   System({long}, FALSE, 0, 1, 0),
   System({misfiled}, FALSE, 1, 1, 0)}
=============================================================================
