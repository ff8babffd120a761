------------------------------ MODULE MCCascade ------------------------------
(* Small instances of Cascade for TLC. *)
EXTENDS Cascade, TLC

CONSTANTS t1, t2, t3, c1, c2, h1

\* Rows other than the plan-authorized, the reviewed and the checked are interchangeable.
Sym == Permutations(Task \ (PlanAuthorized \union Reviewed \union Trivial))

\* A register that has finished: t3 waits for t2, which waits for t1.
WiredInit ==
  /\ status = (t1 :> "pending" @@ t2 :> "blocked" @@ t3 :> "blocked")
  /\ blockedBy = (t1 :> {} @@ t2 :> {t1} @@ t3 :> {t2})
  /\ doneAge = [t \in Task |-> "none"]
  /\ reason = [t \in Task |-> Other]
  /\ verified = [t \in Task |-> "no"]
  /\ notified = [t \in Task |-> "none"]
  /\ gated = {} /\ swept = {} /\ returned = {}
  /\ chaining = [c \in Client |-> Idle]
  /\ wedged = [h \in Healer |-> {}]
  /\ listed = {} /\ cleared = {}
  /\ stage = "unblock"

WiredSpec == WiredInit /\ [][Next]_vars /\ Fairness
=============================================================================
