------------------------------- MODULE MCQAGate -------------------------------
(* Small instances of QAGate for TLC. *)
EXTENDS QAGate, TLC

CONSTANTS r1, r2, r3, p1, p2

Standard   == [NoKind EXCEPT !.tier = "standard", !.type = "work"]
HighStakes == [Standard EXCEPT !.tier = "high_stakes"]
Resuming   == [HighStakes EXCEPT !.hook = TRUE]
Trivial    == [Standard EXCEPT !.tier = "trivial", !.hook = TRUE]
Planned    == [Standard EXCEPT !.plan = TRUE]
Unfit      == [Standard EXCEPT !.eligible = FALSE, !.hook = TRUE]
Deploy     == [HighStakes EXCEPT !.human = TRUE, !.review = TRUE, !.hook = TRUE]

Mixed      == {Standard, Resuming, Trivial, Unfit, Deploy}
Gated      == {Standard, HighStakes, Trivial, Planned, Unfit, Deploy}

Sym == Permutations(Sent) \union Permutations(Row \ Sent) \union Permutations(Poller)
=============================================================================
