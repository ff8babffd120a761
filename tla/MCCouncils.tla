------------------------------ MODULE MCCouncils ------------------------------
(* Small councils for TLC: two reviewers who may disagree, two with one    *)
(* revision, or one with two revisions and a crash.                        *)
EXTENDS Councils

CONSTANTS r1, r2

Plain == {"PASS", "FAIL"}

Case(d, panel, said, v, f) ==
  [driver |-> d, reviewers |-> panel, verdicts |-> said, versions |-> v, faults |-> f]

Small ==
  {Case("tick", {r1, r2}, Plain, 1, 0),
   Case("tick", {r1, r2}, {"PASS"}, 2, 0),
   Case("tick", {r1}, Plain, 3, 1),
   Case("checkpoint", {r1}, Plain, 2, 1),
   Case("loop", {r1, r2}, Plain \union {"CONDITIONAL"}, 2, 0),
   Case("loop", {r1}, Plain \union {"UNKNOWN"}, 3, 1)}
=============================================================================
