------------------------------ MODULE Councils ------------------------------
(***************************************************************************)
(* One council in one room of reviewers, under whichever of its drivers:   *)
(* council_tick, the tick under its checkpoint wrapper, or council_loop.   *)
(***************************************************************************)
EXTENDS CouncilCheckpoint, CouncilLoop

vars == <<room, tick, wrapper, loop>>

TypeOK == CouncilTypeOK /\ CheckpointTypeOK /\ LoopTypeOK

Init == RoomInit /\ CouncilInit /\ CheckpointInit /\ LoopInit

\* The agents go on after the council has ended, but nobody looks any more.
Over   == Ended \/ at = "ended"
Oldest == IF driver = "loop" THEN 1 ELSE m.round

Answer(r) == (\E v \in Verdict : WriteVerdict(r, v, Oldest)) \/ AppendFooter(r, Oldest)

Agents ==
  /\ ~Over
  /\ \/ Revise
     \/ \E r \in Reviewer : StartReview(r) \/ Answer(r) \/ LoseReview(r)

Next ==
  \/ Agents /\ UNCHANGED <<tick, wrapper, loop>>
  \/ (ConvenerStep \/ TickStep \/ Ages) /\ UNCHANGED <<wrapper, loop>>
  \/ (WrapperStep \/ WrapperDies) /\ UNCHANGED loop
  \/ (Launch \/ LoopStep \/ LoopDies) /\ UNCHANGED <<tick, wrapper>>

Spec == Init /\ [][Next]_vars

\* The timer and the loop run on, time passes, the convener goes on, and the
\* reviewers answer; the planner need not.
FairSpec ==
  /\ Spec
  /\ WF_vars(TickStep /\ UNCHANGED <<wrapper, loop>>)
  /\ WF_vars(WrapperStep /\ UNCHANGED loop)
  /\ WF_vars(Ages /\ UNCHANGED <<wrapper, loop>>)
  /\ WF_vars(LoopStep /\ UNCHANGED <<tick, wrapper>>)
  /\ \A r \in Reviewer :
       /\ WF_vars(~Over /\ StartReview(r) /\ UNCHANGED <<tick, wrapper, loop>>)
       /\ SF_vars(~Over /\ Answer(r) /\ UNCHANGED <<tick, wrapper, loop>>)

\* A council that is convened while the timer is on, or a loop that is launched,
\* ends: it passes, or it goes to Peter, or somebody has to launch the loop
\* again.  Reviewers may lose requests, the planner may stay away or revise (a
\* finite number of times), a tick may die anywhere or fail to send.
CouncilEnds ==
  ((m.status # "none" /\ timer) \/ at = "ask") ~> (Over \/ (driver = "loop" /\ at = "off"))
=============================================================================
