------------------------------ MODULE Consensus ------------------------------
(***************************************************************************)
(* What a council promises, whatever drives it: reviewers vote for         *)
(* versions of a plan and change their minds, and a version ships only     *)
(* when every reviewer has a vote standing, for this very version or       *)
(* bound to none.  A council ends once, by shipping or by giving up, and   *)
(* the outcome stays.                                                      *)
(***************************************************************************)
CONSTANTS
  Reviewer,
  Version,
  Unbound    \* what a vote is for that its author has bound to no version
VARIABLES panel, votes, shipped, over

Init ==
  /\ panel \in SUBSET Reviewer
  /\ votes = {} /\ shipped = {} /\ over = FALSE

Vote ==
  /\ votes' \subseteq Reviewer \X (Version \union {Unbound})
  /\ UNCHANGED <<panel, shipped, over>>

Agreed(v) == \A r \in panel : <<r, v>> \in votes \/ <<r, Unbound>> \in votes

Ship ==
  /\ ~over /\ over'
  /\ \E v \in shipped' : Agreed(v) /\ shipped' = {v}
  /\ UNCHANGED <<panel, votes>>

GiveUp ==
  /\ ~over /\ over'
  /\ UNCHANGED <<panel, votes, shipped>>

Next == Vote \/ Ship \/ GiveUp
Spec == Init /\ [][Next]_<<panel, votes, shipped, over>>
=============================================================================
