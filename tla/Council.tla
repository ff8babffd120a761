------------------------------- MODULE Council -------------------------------
(***************************************************************************)
(* A council: council_convene writes the manifest and asks the reviewers,  *)
(* council_tick advances it every quarter of an hour, a stateless process  *)
(* that reads the manifest, the plan and the verdicts, acts, and saves.    *)
(*                                                                         *)
(* A tick reads the plan's hash and the verdict files within milliseconds: *)
(* one step.  Each later call and each save is a step, between which the   *)
(* agents go on and the process may die.  A tick that finds nothing to do  *)
(* saves only its time.                                                    *)
(***************************************************************************)
EXTENDS CouncilRoom

CONSTANT MaxStuckRounds
ASSUME StuckAssumption == MaxStuckRounds \in Nat \ {0}

VARIABLES
  m,        \* the manifest on disk
  timer,    \* council-tick.timer is enabled
  convening,\* council_convene has written the manifest and goes on
  pc,       \* where the tick is
  t         \* what the tick has in memory: the round it opens or repeats

tick == <<m, timer, convening, pc, t>>

\* age: last_dispatch of a round in review over REPOKE_MINUTES ago,
\* revising_since over the planner's deadline, escalated_at over a day.
Manifest == [status : {"none", "in_review", "revising", "escalated", "passed"},
             shelf : {"active", "archived", "unresolved"},
             round : Nat, hash : Version, stuck : 0..MaxStuckRounds,
             lock : BOOLEAN, age : {"never", "fresh", "old"}]
Memory   == [round : Nat, hash : Version, stuck : 0..MaxStuckRounds]

CouncilTypeOK ==
  /\ RoomTypeOK
  /\ m \in Manifest
  /\ timer \in BOOLEAN
  /\ convening \in BOOLEAN
  /\ pc \in {"idle", "wrap", "ready", "save", "revise", "archive"}
  /\ t \in Memory

NoMemory == [round |-> 0, hash |-> 1, stuck |-> 0]

CouncilInit ==
  /\ m = [status |-> "none", shelf |-> "active", round |-> 1, hash |-> 1,
          stuck |-> 0, lock |-> FALSE, age |-> "never"]
  /\ timer \in BOOLEAN
  /\ convening = FALSE
  /\ pc = "idle"
  /\ t = NoMemory

-----------------------------------------------------------------------------
(* council_convene.                                                        *)

\* The plan is readable, the research gate holds and no manifest has the slug.
Convene ==
  /\ driver # "loop" /\ m.status = "none"
  /\ m' = [m EXCEPT !.status = "in_review", !.hash = plan]
  /\ convening' = TRUE
  /\ UNCHANGED <<room, timer, pc, t>>

\* The timer comes last: a send that fails leaves it as it was.
ConvenerAsks ==
  /\ convening
  /\ convening' = FALSE
  /\ \/ Ask(Panel, 1, m.hash) /\ timer' = TRUE /\ UNCHANGED faults
     \/ /\ \E S \in SUBSET Panel : Ask(S, 1, m.hash)
        /\ Fault
        /\ UNCHANGED timer
  /\ UNCHANGED <<setup, plan, reading, files, m, pc, t>>

-----------------------------------------------------------------------------
(* The tick's reading.                                                     *)

Start == IF driver = "checkpoint" THEN "ready" ELSE "idle"

\* tick_all takes no passed or archived council, and every tick clears a lock
\* that it finds.
Begins ==
  /\ driver # "loop" /\ pc = Start /\ timer
  /\ m.shelf = "active" /\ m.status \in {"in_review", "revising", "escalated"}
Cleared == [m EXCEPT !.lock = FALSE]

Changed == plan # m.hash

\* A footer with another hash does not count; no footer is as good as any.
Stale(f)   == f.footer # 0 /\ f.footer # m.hash

\* Mutant of Answers: the footer is not looked at.
AnswersUnbound(r) == FilesOf(r, m.round)
Answers(r) == {f \in FilesOf(r, m.round) : ~Stale(f)}
Targets    == {r \in Panel : Answers(r) = {}}
Judging    == Begins /\ m.status = "in_review" /\ ~Changed

Passes == \A r \in Panel : \E f \in Answers(r) : f.verdict = "PASS"

-----------------------------------------------------------------------------
(* Asking: a new round, or the same one again.                             *)

\* All the requests go out, or a send fails, which ends the tick.
Dispatch(S, memory) ==
  /\ \/ /\ Ask(S, memory.round, memory.hash)
        /\ pc' = "save" /\ t' = memory
        /\ UNCHANGED faults
     \/ /\ \E sent \in SUBSET S : Ask(sent, memory.round, memory.hash)
        /\ pc' = "idle" /\ t' = NoMemory
        /\ Fault
  /\ m' = Cleared
  /\ UNCHANGED <<setup, plan, reading, timer, convening>>

\* The verdict files of the new round are removed, then all are asked.  Those
\* of closed rounds, which only word the requests, are forgotten.
OpenRound ==
  /\ Begins /\ m.status \in {"in_review", "revising"} /\ Changed
  /\ files' = {}
  /\ Dispatch(Panel,
       [round |-> m.round + 1, hash |-> plan,
        stuck |-> IF m.status = "revising" THEN m.stuck ELSE 0])

\* Mutant of Repoke: a round that no tick has dispatched is left to the convener.
RepokeOnlyOwn ==
  /\ Judging /\ Targets # {} /\ m.age = "old"
  /\ Dispatch(Targets, [round |-> m.round, hash |-> m.hash, stuck |-> m.stuck])
  /\ UNCHANGED files

Repoke ==
  /\ Judging /\ Targets # {} /\ m.age # "fresh"
  /\ Dispatch(Targets, [round |-> m.round, hash |-> m.hash, stuck |-> m.stuck])
  /\ UNCHANGED files

\* The round is on disk only when all have been asked.
SaveRound ==
  /\ pc = "save"
  /\ m' = [m EXCEPT !.status = "in_review", !.round = t.round, !.hash = t.hash,
                    !.stuck = t.stuck, !.age = "fresh"]
  /\ pc' = "idle" /\ t' = NoMemory
  /\ UNCHANGED <<room, timer, convening>>

-----------------------------------------------------------------------------
(* The gate.                                                               *)

GatePass ==
  /\ Judging /\ Targets = {} /\ Passes
  /\ m' = [Cleared EXCEPT !.status = "passed"]
  /\ pc' = "archive"
  /\ UNCHANGED <<room, timer, convening, t>>

\* Peter is told, the lessons are stored, the cascade is registered: none of
\* these stops the tick.
Archive ==
  /\ pc = "archive"
  /\ m' = [m EXCEPT !.shelf = "archived"]
  /\ pc' = "idle"
  /\ UNCHANGED <<room, timer, convening, t>>

GateFail == Judging /\ Targets = {} /\ ~Passes

\* Peter is told after the save.
GateStuck ==
  /\ GateFail /\ m.stuck + 1 >= MaxStuckRounds
  /\ m' = [Cleared EXCEPT !.stuck = m.stuck + 1, !.status = "escalated", !.age = "fresh"]
  /\ pc' = "idle"
  /\ UNCHANGED <<room, timer, convening, t>>

\* Mutant of GateRevise: the last round before the limit revises again.
GateReviseOnce ==
  /\ GateFail /\ m.stuck < MaxStuckRounds + 1
  /\ m' = [m EXCEPT !.stuck = @ + 1, !.lock = TRUE]
  /\ pc' = "revise"
  /\ UNCHANGED <<room, timer, convening, t>>

\* The count and the lock are saved before the status.
GateRevise ==
  /\ GateFail /\ m.stuck + 1 < MaxStuckRounds
  /\ m' = [m EXCEPT !.stuck = @ + 1, !.lock = TRUE]
  /\ pc' = "revise"
  /\ UNCHANGED <<room, timer, convening, t>>

\* The status is saved, then the planner is woken and the lock released, or
\* the wake fails and the lock stays.
RequestRevision ==
  /\ pc = "revise"
  /\ \/ m' = [m EXCEPT !.status = "revising", !.age = "fresh", !.lock = FALSE]
        /\ UNCHANGED faults
     \/ m' = [m EXCEPT !.status = "revising", !.age = "fresh"]
        /\ Fault
  /\ pc' = "idle"
  /\ UNCHANGED <<setup, plan, asked, reading, files, timer, convening, t>>

-----------------------------------------------------------------------------
(* Giving up, waiting and dying.                                           *)

\* The planner's deadline has passed: Peter is told once, then the save.
PlannerUnresponsive ==
  /\ Begins /\ m.status = "revising" /\ ~Changed /\ m.age = "old"
  /\ m' = [Cleared EXCEPT !.status = "escalated", !.age = "fresh"]
  /\ pc' = "idle"
  /\ UNCHANGED <<room, timer, convening, t>>

Unresolved ==
  /\ Begins /\ m.status = "escalated" /\ m.age = "old"
  /\ m' = [Cleared EXCEPT !.shelf = "unresolved"]
  /\ pc' = "idle"
  /\ UNCHANGED <<room, timer, convening, t>>

Wait ==
  /\ Begins
  /\ m.age = "fresh"
  /\ \/ Judging /\ Targets # {}
     \/ m.status = "revising" /\ ~Changed
     \/ m.status = "escalated"
  /\ m' = Cleared
  /\ pc' = "idle"
  /\ UNCHANGED <<room, timer, convening, t>>

\* The process is killed between two saves.
TickDies ==
  /\ pc # "idle"
  /\ Fault
  /\ pc' = "idle" /\ t' = NoMemory
  /\ UNCHANGED <<setup, plan, asked, reading, files,
                 m, timer, convening>>

Ages ==
  /\ m.age = "fresh"
  /\ m' = [m EXCEPT !.age = "old"]
  /\ UNCHANGED <<room, timer, convening, pc, t>>

-----------------------------------------------------------------------------
TickStep ==
  \/ OpenRound \/ Repoke \/ SaveRound
  \/ GatePass \/ Archive \/ GateStuck \/ GateRevise \/ RequestRevision
  \/ PlannerUnresponsive \/ Unresolved \/ Wait

ConvenerStep == Convene \/ ConvenerAsks

\* The council as the promise it makes: a vote is a PASS on file, for the
\* version its author had read, or for none as long as it has no footer.
\* Requests name the hash of the day they were sent, the plan may change while
\* they lie unread or are read, are answered twice, or come from a tick that
\* died before it saved.
Votes == {<<f.by, IF f.footer = 0 THEN 0 ELSE f.about>> :
            f \in {g \in files : g.verdict = "PASS"}}
Promise == INSTANCE Consensus WITH
  Unbound <- 0,
  panel   <- Panel,
  votes   <- Votes,
  shipped <- IF m.status = "passed" THEN {m.hash} ELSE {},
  over    <- m.status \in {"passed", "escalated"}
KeepsPromise == Promise!Spec

Ended == m.status \in {"passed", "escalated"}
=============================================================================
