-------------------------- MODULE CouncilCheckpoint --------------------------
(***************************************************************************)
(* council_tick_checkpoint: a wrapper that asks all reviewers, logging     *)
(* each request in an event log, and then runs council_tick.  The log is   *)
(* there to resume from; the index a step is compared with has always been *)
(* passed by the time it is compared, so no step is ever skipped.          *)
(***************************************************************************)
EXTENDS Council

VARIABLES
  log,    \* run-logs: the run (round) and whom it has an ok event for
  todo,   \* whom the wrapper still has to ask
  logging,\* the reviewer just asked, whose event is not yet written
  sent    \* history: whom the drivers asked in which round

wrapper == <<log, todo, logging, sent>>

CheckpointTypeOK ==
  /\ log \in [round : Nat, ok : SUBSET Reviewer]
  /\ todo \subseteq Reviewer
  /\ logging \subseteq Reviewer
  /\ sent \subseteq Reviewer \X Nat

CheckpointInit ==
  /\ log = [round |-> 0, ok |-> {}]
  /\ todo = {} /\ logging = {}
  /\ sent = {}

\* Mutant of Load: one log for all rounds of a council.
LoadShared == [log EXCEPT !.round = m.round]

\* The run is named by the round, so a new round starts a new log; what is in
\* the log of a round already begun is kept.
Load == IF log.round = m.round THEN log ELSE [round |-> m.round, ok |-> {}]
Append(r) == log' = [log EXCEPT !.ok = @ \union {r}]

BeginRun ==
  /\ driver = "checkpoint" /\ pc = "idle" /\ timer
  /\ m.shelf = "active" /\ m.status \in {"in_review", "revising"}
  /\ log' = Load
  /\ todo' = Panel
  /\ pc' = "wrap"
  /\ UNCHANGED <<room, m, timer, convening, t, logging, sent>>

\* dispatch_reviewer of council_tick, with the round and hash of the manifest.
AskLogged(r) ==
  /\ pc = "wrap" /\ logging = {} /\ r \in todo
  /\ Ask({r}, m.round, m.hash)
  /\ todo' = todo \ {r}
  /\ logging' = {r}
  /\ sent' = sent \union {<<r, m.round>>}
  /\ UNCHANGED <<setup, plan, reading, files, faults, tick, log>>

CompleteStep ==
  /\ pc = "wrap"
  /\ \E r \in logging : Append(r)
  /\ logging' = {}
  /\ UNCHANGED <<room, tick, todo, sent>>

RunTick ==
  /\ pc = "wrap" /\ logging = {} /\ todo = {}
  /\ pc' = "ready"
  /\ UNCHANGED <<room, m, timer, convening, t, wrapper>>

\* A send that fails is logged as an error, and ends the wrapper.
WrapperDies == TickDies /\ todo' = {} /\ logging' = {} /\ UNCHANGED <<log, sent>>

WrapperStep ==
  BeginRun \/ (\E r \in Reviewer : AskLogged(r)) \/ CompleteStep \/ RunTick

\* The log never claims a request that was not sent.
LoggedWasAsked == \A r \in log.ok : <<r, log.round>> \in sent
=============================================================================
