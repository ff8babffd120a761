----------------------------- MODULE CouncilLoop -----------------------------
(***************************************************************************)
(* council_loop: one long process that asks, polls the verdict files, has  *)
(* the convener revise and asks again those who failed the plan, until no  *)
(* one does.  The plan of round n is a file of its own, version n, and a   *)
(* file that is there already is taken for the answer, whoever wrote it.   *)
(***************************************************************************)
EXTENDS CouncilRoom

VARIABLES
  at,      \* where the loop is
  round,   \* its round
  active,  \* reviewers of this round
  pending, \* those of them whose verdict has not been collected
  results, \* per reviewer, the last verdict collected, of this round or before
  noted,   \* those whose required changes of the last round are known
  gate     \* final_gate

loop == <<at, round, active, pending, results, noted, gate>>

None == "none"

LoopTypeOK ==
  /\ at \in {"off", "ask", "poll", "decide", "revise", "ended"}
  /\ round \in Nat
  /\ active \subseteq Reviewer /\ pending \subseteq active
  /\ results \in [Reviewer -> Verdict \union {"TIMEOUT", None}]
  /\ noted \subseteq Reviewer
  /\ gate \in {None, "PASS", "CONDITIONAL", "ESCALATE"}

LoopInit ==
  /\ at = "off" /\ round = 0
  /\ active = {} /\ pending = {}
  /\ results = [r \in Reviewer |-> None]
  /\ noted = {}
  /\ gate = None

\* Started, or started again after it died: from round 1 and the first file.
Launch ==
  /\ driver = "loop" /\ at = "off"
  /\ at' = "ask" /\ round' = 1
  /\ active' = Panel /\ pending' = Panel
  /\ results' = [r \in Reviewer |-> None]
  /\ noted' = {}
  /\ UNCHANGED <<room, gate>>

\* A send that fails raises, and nothing restarts the loop but a hand.
AskActive ==
  /\ at = "ask"
  /\ \/ Ask(active, round, round) /\ at' = "poll" /\ UNCHANGED faults
     \/ (\E S \in SUBSET active : Ask(S, round, round)) /\ at' = "off" /\ Fault
  /\ UNCHANGED <<setup, plan, reading, files,
                 round, active, pending, results, noted, gate>>

\* poll_verdicts looks at each reviewer who has not answered.
Collect(r) ==
  /\ at = "poll" /\ r \in pending
  /\ \E f \in FilesOf(r, round) : results' = [results EXCEPT ![r] = f.verdict]
  /\ pending' = pending \ {r}
  /\ UNCHANGED <<room, at, round, active, noted, gate>>

\* All are in, or POLL_TIMEOUT is over.  The round goes to the state file.
EndPoll ==
  /\ at = "poll"
  /\ results' = [r \in Reviewer |-> IF r \in pending THEN "TIMEOUT" ELSE results[r]]
  /\ pending' = {}
  /\ at' = "decide"
  /\ UNCHANGED <<room, round, active, noted, gate>>

\* Mutant of Fails: silence is no failure.
FailsSpoken == {r \in active : results[r] \in {"FAIL", "UNKNOWN"}}

Fails        == {r \in active : results[r] \in {"FAIL", "TIMEOUT", "UNKNOWN"}}
Conditionals == {r \in active : results[r] = "CONDITIONAL"}

End(g) ==
  /\ gate' = g /\ at' = "ended"
  /\ UNCHANGED <<room, round, active, pending, results, noted>>

Consent ==
  /\ at = "decide" /\ Fails = {}
  /\ End(IF Conditionals = {} THEN "PASS" ELSE "CONDITIONAL")

\* Who failed the plan in this round and the one before may have asked for the
\* same changes in the same words, if both verdicts say what they require.
Repeating == {r \in Fails \intersect noted : FilesOf(r, round) # {}}

Stuck ==
  /\ at = "decide" /\ Fails # {}
  /\ Repeating # {}
  /\ End("ESCALATE")

\* The convener's main session is woken, or not, and the loop polls for the
\* revised file.
AskRevision ==
  /\ at = "decide" /\ Fails # {}
  /\ noted' = {r \in Fails : FilesOf(r, round) # {}}
  /\ at' = "revise"
  /\ UNCHANGED <<room, round, active, pending, results, gate>>

\* Only those who failed the plan are asked again.
NextRound ==
  /\ at = "revise" /\ plan > round
  /\ round' = round + 1
  /\ active' = Fails /\ pending' = Fails
  /\ at' = "ask"
  /\ UNCHANGED <<room, results, noted, gate>>

RevisionTimeout ==
  /\ at = "revise"
  /\ End("ESCALATE")

LoopDies ==
  /\ at \notin {"off", "ended"}
  /\ Fault
  /\ at' = "off"
  /\ UNCHANGED <<setup, plan, asked, reading, files,
                 round, active, pending, results, noted, gate>>

LoopStep ==
  \/ AskActive \/ (\E r \in Reviewer : Collect(r)) \/ EndPoll
  \/ Consent \/ Stuck \/ AskRevision \/ NextRound \/ RevisionTimeout

\* The loop stops asking whoever did not fail the plan.  When it declares full
\* consensus, the last word it counted of every reviewer, in whatever round and
\* after whatever deaths and relaunches, is not a failure and not a silence.
NobodyStillFails ==
  gate \in {"PASS", "CONDITIONAL"} =>
    \A r \in Panel : results[r] \in {"PASS", "CONDITIONAL"}
=============================================================================
