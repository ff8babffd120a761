-------------------------- MODULE Councils_proofs --------------------------
(***************************************************************************)
(* Theorems about Councils, for every set of reviewers and every council.  *)
(***************************************************************************)
EXTENDS Councils, TLAPS

-----------------------------------------------------------------------------
(* Type correctness.  A council at the limit of its stuck rounds has gone  *)
(* to Peter, so the count never passes the limit.                          *)

StuckBelow ==
  /\ m.status # "escalated" => m.stuck < MaxStuckRounds
  /\ t.stuck < MaxStuckRounds
  /\ pc = "revise" => m.status # "escalated"

\* A loop that has begun is in round 1 or a later one.
RoundBegun == at # "off" => round # 0

TypeInv == TypeOK /\ StuckBelow /\ RoundBegun

LEMMA AskType ==
  ASSUME RoomTypeOK, NEW S, NEW n \in Nat, NEW told \in Version, Ask(S, n, told)
  PROVE  asked' \in [Reviewer -> SUBSET Request]
BY DEF RoomTypeOK, Ask, Request

LEMMA SetupType ==
  ASSUME CouncilAssumption, RoomTypeOK
  PROVE  setup \in Setup /\ Panel \subseteq Reviewer
BY DEF CouncilAssumption, RoomTypeOK, Setup, Panel

LEMMA ReviseType ==
  ASSUME RoomTypeOK, Revise
  PROVE  RoomTypeOK'
BY DEF RoomTypeOK, Revise, Version

LEMMA StartReviewType ==
  ASSUME RoomTypeOK, NEW r \in Reviewer, StartReview(r)
  PROVE  RoomTypeOK'
<1>1. PICK q \in asked[r] :
        /\ asked' = [asked EXCEPT ![r] = @ \ {q}]
        /\ reading' = [reading EXCEPT ![r] =
             [round |-> q.round, told |-> q.told,
              about |-> IF driver = "loop" THEN q.told ELSE plan, wrote |-> FALSE]]
  BY DEF StartReview
<1>2. q.round \in Nat /\ q.told \in Version /\ plan \in Version
  BY DEF RoomTypeOK, Request
<1>3. [round |-> q.round, told |-> q.told,
       about |-> IF driver = "loop" THEN q.told ELSE plan, wrote |-> FALSE] \in Review
  BY <1>2 DEF Review
<1>4. reading' \in [Reviewer -> Review \union {Nothing}]
  BY <1>1, <1>3 DEF RoomTypeOK
<1>5. asked' \in [Reviewer -> SUBSET Request]
  BY <1>1 DEF RoomTypeOK
<1> QED BY <1>4, <1>5 DEF RoomTypeOK, StartReview

LEMMA PutType ==
  ASSUME RoomTypeOK, NEW r \in Reviewer, NEW fs \in SUBSET File, NEW oldest,
         Put(r, fs, oldest)
  PROVE  files' \subseteq File
BY DEF RoomTypeOK, Put

LEMMA VerdictFileType ==
  ASSUME RoomTypeOK, NEW r \in Reviewer, reading[r] # Nothing,
         NEW v \in Verdict, NEW footer \in Nat
  PROVE  VerdictFile(r, v, footer) \in File
<1>1. reading[r] \in Review
  BY DEF RoomTypeOK
<1> QED BY <1>1 DEF VerdictFile, Review, File

LEMMA WriteVerdictType ==
  ASSUME RoomTypeOK, NEW r \in Reviewer, NEW v \in Verdict, NEW oldest,
         WriteVerdict(r, v, oldest)
  PROVE  RoomTypeOK'
<1>1. reading[r] \in Review
  BY DEF RoomTypeOK, WriteVerdict
<1>2. files' \subseteq File
  BY VerdictFileType, PutType DEF WriteVerdict
<1>3. [reading[r] EXCEPT !.wrote = TRUE] \in Review
  BY <1>1 DEF Review
<1>4. reading' \in [Reviewer -> Review \union {Nothing}]
  BY <1>3 DEF RoomTypeOK, WriteVerdict
<1> QED BY <1>2, <1>4 DEF RoomTypeOK, WriteVerdict

LEMMA AppendFooterType ==
  ASSUME RoomTypeOK, NEW r \in Reviewer, NEW oldest, AppendFooter(r, oldest)
  PROVE  RoomTypeOK'
<1> DEFINE q    == reading[r]
           said == {f.verdict : f \in FilesOf(r, q.round)}
           put  == IF said = {} THEN {"UNKNOWN"} ELSE said
           fs   == {VerdictFile(r, v, q.told) : v \in put}
<1>1. q \in Review /\ q # Nothing
  BY DEF RoomTypeOK, AppendFooter
<1>2. q.told \in Nat
  BY <1>1 DEF Review, Version
<1>3. said \subseteq Verdict
  BY DEF RoomTypeOK, FilesOf, File
<1>4. put \subseteq Verdict
  BY <1>3 DEF Verdict
<1>5. fs \in SUBSET File
  BY <1>1, <1>2, <1>4, VerdictFileType
<1>6. Put(r, fs, oldest)
  BY DEF AppendFooter
<1>7. files' \subseteq File
  BY <1>5, <1>6, PutType
<1>8. reading' \in [Reviewer -> Review \union {Nothing}]
  BY DEF RoomTypeOK, AppendFooter
<1> QED BY <1>7, <1>8 DEF RoomTypeOK, AppendFooter

LEMMA AgentsType ==
  ASSUME RoomTypeOK, Agents
  PROVE  RoomTypeOK'
<1>1. CASE Revise
  BY <1>1, ReviseType
<1>2. ASSUME NEW r \in Reviewer, StartReview(r) PROVE RoomTypeOK'
  BY <1>2, StartReviewType
<1>3. ASSUME NEW r \in Reviewer, Answer(r) PROVE RoomTypeOK'
  BY <1>3, WriteVerdictType, AppendFooterType DEF Answer
<1>4. ASSUME NEW r \in Reviewer, LoseReview(r) PROVE RoomTypeOK'
  BY <1>4 DEF RoomTypeOK, LoseReview
<1> QED BY <1>1, <1>2, <1>3, <1>4 DEF Agents

LEMMA ClearedType ==
  ASSUME CouncilTypeOK
  PROVE  /\ Cleared \in Manifest
         /\ Cleared.stuck = m.stuck /\ Cleared.status = m.status
         /\ Cleared.hash = m.hash /\ Cleared.round = m.round
BY DEF CouncilTypeOK, Cleared, Manifest

LEMMA DispatchType ==
  ASSUME TypeInv, NEW S, NEW memory \in Memory, memory.stuck < MaxStuckRounds,
         Dispatch(S, memory), files' = files \/ files' = {}, StuckAssumption
  PROVE  CouncilTypeOK' /\ StuckBelow'
<1>1. asked' \in [Reviewer -> SUBSET Request]
  BY AskType DEF TypeInv, TypeOK, CouncilTypeOK, Dispatch, Memory
<1>2. m' \in Manifest /\ m'.stuck = m.stuck /\ m'.status = m.status
  BY ClearedType DEF TypeInv, TypeOK, Dispatch
<1>3. faults' \in Nat
  BY DEF TypeInv, TypeOK, CouncilTypeOK, RoomTypeOK, Dispatch, Fault
<1>4. RoomTypeOK'
  BY <1>1, <1>3 DEF TypeInv, TypeOK, CouncilTypeOK, RoomTypeOK, Dispatch
<1>5. t' \in Memory /\ t'.stuck < MaxStuckRounds
  BY DEF Dispatch, NoMemory, Memory, StuckAssumption, Version
<1>6. pc' \in {"save", "idle"}
  BY DEF Dispatch
<1> QED BY <1>2, <1>4, <1>5, <1>6 DEF TypeInv, TypeOK, CouncilTypeOK, StuckBelow, Dispatch

LEMMA ConvenerType ==
  ASSUME TypeInv, ConvenerStep
  PROVE  CouncilTypeOK' /\ StuckBelow'
<1>1. CASE Convene
  BY <1>1 DEF TypeInv, TypeOK, CouncilTypeOK, RoomTypeOK, StuckBelow, Convene, Manifest, room
<1>2. CASE ConvenerAsks
  <2>1. m.hash \in Version
    BY DEF TypeInv, TypeOK, CouncilTypeOK, Manifest
  <2>2. asked' \in [Reviewer -> SUBSET Request]
    BY <1>2, <2>1, AskType DEF TypeInv, TypeOK, CouncilTypeOK, ConvenerAsks
  <2>3. faults' \in Nat
    BY <1>2 DEF TypeInv, TypeOK, CouncilTypeOK, RoomTypeOK, ConvenerAsks, Fault
  <2>4. timer' = timer \/ timer' = TRUE
    BY <1>2 DEF ConvenerAsks
  <2>5. timer' \in BOOLEAN
    BY <2>4 DEF TypeInv, TypeOK, CouncilTypeOK
  <2> QED BY <1>2, <2>2, <2>3, <2>5
          DEF TypeInv, TypeOK, CouncilTypeOK, RoomTypeOK, StuckBelow, ConvenerAsks
<1> QED BY <1>1, <1>2 DEF ConvenerStep

LEMMA TickType ==
  ASSUME TypeInv, CouncilAssumption, StuckAssumption, TickStep
  PROVE  CouncilTypeOK' /\ StuckBelow'
<1>0. m \in Manifest /\ t \in Memory /\ plan \in Version
  BY DEF TypeInv, TypeOK, CouncilTypeOK, RoomTypeOK
<1>1. CASE OpenRound
  <2> DEFINE memory == [round |-> m.round + 1, hash |-> plan,
                        stuck |-> IF m.status = "revising" THEN m.stuck ELSE 0]
  <2>1. memory \in Memory /\ memory.stuck < MaxStuckRounds
    BY <1>0, <1>1 DEF TypeInv, StuckBelow, OpenRound, Manifest, Memory, StuckAssumption
  <2>2. Dispatch(Panel, memory) /\ files' = {}
    BY <1>1 DEF OpenRound
  <2> QED BY <2>1, <2>2, DispatchType
<1>2. CASE Repoke
  <2> DEFINE memory == [round |-> m.round, hash |-> m.hash, stuck |-> m.stuck]
  <2>1. memory \in Memory /\ memory.stuck < MaxStuckRounds
    BY <1>0, <1>2 DEF TypeInv, StuckBelow, Repoke, Judging, Manifest, Memory
  <2>2. Dispatch(Targets, memory) /\ files' = files
    BY <1>2 DEF Repoke
  <2> QED BY <2>1, <2>2, DispatchType
<1>3. CASE SaveRound
  <2>1. m' \in Manifest /\ m'.stuck = t.stuck /\ m'.status = "in_review"
    BY <1>0, <1>3 DEF SaveRound, Manifest, Memory
  <2>2. NoMemory \in Memory /\ NoMemory.stuck < MaxStuckRounds
    BY DEF NoMemory, Memory, StuckAssumption, Version
  <2> QED BY <1>3, <2>1, <2>2
          DEF TypeInv, TypeOK, CouncilTypeOK, RoomTypeOK, StuckBelow, SaveRound, room
<1>4. CASE GatePass
  BY <1>0, <1>4, ClearedType
  DEF TypeInv, TypeOK, CouncilTypeOK, RoomTypeOK, StuckBelow, GatePass, Judging, Manifest, Cleared, room
<1>5. CASE Archive
  BY <1>0, <1>5
  DEF TypeInv, TypeOK, CouncilTypeOK, RoomTypeOK, StuckBelow, Archive, Manifest, room
<1>6. CASE GateStuck
  <2>1. m.stuck < MaxStuckRounds
    BY <1>6 DEF TypeInv, StuckBelow, GateStuck, GateFail, Judging
  <2>2. m.stuck + 1 \in 0..MaxStuckRounds
    BY <1>0, <2>1 DEF Manifest, StuckAssumption
  <2>3. m' \in Manifest /\ m'.status = "escalated"
    BY <1>0, <1>6, <2>2 DEF GateStuck, Cleared, Manifest
  <2> QED BY <1>6, <2>3
          DEF TypeInv, TypeOK, CouncilTypeOK, RoomTypeOK, StuckBelow, GateStuck, room
<1>7. CASE GateRevise
  <2>1. m.stuck + 1 \in 0..MaxStuckRounds /\ m.stuck + 1 < MaxStuckRounds
    BY <1>0, <1>7 DEF GateRevise, Manifest, StuckAssumption
  <2>2. m.status = "in_review"
    BY <1>7 DEF GateRevise, GateFail, Judging
  <2>3. m' = [m EXCEPT !.stuck = m.stuck + 1, !.lock = TRUE]
    BY <1>7 DEF GateRevise
  <2>4. m' \in Manifest /\ m'.status = "in_review" /\ m'.stuck = m.stuck + 1
    BY <1>0, <2>1, <2>2, <2>3 DEF Manifest
  <2> QED BY <1>7, <2>1, <2>4
          DEF TypeInv, TypeOK, CouncilTypeOK, RoomTypeOK, StuckBelow, GateRevise, room
<1>8. CASE RequestRevision
  <2>1. m' \in Manifest /\ m'.stuck = m.stuck
    BY <1>0, <1>8 DEF RequestRevision, Manifest
  <2>2. m.stuck < MaxStuckRounds /\ faults' \in Nat
    BY <1>8 DEF TypeInv, TypeOK, CouncilTypeOK, RoomTypeOK, StuckBelow, RequestRevision, Fault
  <2> QED BY <1>8, <2>1, <2>2
          DEF TypeInv, TypeOK, CouncilTypeOK, RoomTypeOK, StuckBelow, RequestRevision
<1>9. CASE PlannerUnresponsive \/ Unresolved
  <2>1. m' \in Manifest /\ m'.status = "escalated"
    BY <1>0, <1>9 DEF PlannerUnresponsive, Unresolved, Cleared, Manifest
  <2> QED BY <1>9, <2>1
          DEF TypeInv, TypeOK, CouncilTypeOK, RoomTypeOK, StuckBelow, PlannerUnresponsive, Unresolved, room
<1>10. CASE Wait
  BY <1>0, <1>10, ClearedType
  DEF TypeInv, TypeOK, CouncilTypeOK, RoomTypeOK, StuckBelow, Wait, room
<1> QED BY <1>1, <1>2, <1>3, <1>4, <1>5, <1>6, <1>7, <1>8, <1>9, <1>10 DEF TickStep

LEMMA AgesType ==
  ASSUME TypeInv, Ages
  PROVE  CouncilTypeOK' /\ StuckBelow'
BY DEF TypeInv, TypeOK, CouncilTypeOK, RoomTypeOK, StuckBelow, Ages, Manifest, room

LEMMA TickDiesType ==
  ASSUME TypeInv, StuckAssumption, TickDies
  PROVE  CouncilTypeOK' /\ StuckBelow'
<1>1. NoMemory \in Memory /\ NoMemory.stuck < MaxStuckRounds
  BY DEF NoMemory, Memory, StuckAssumption, Version
<1>2. faults' \in Nat
  BY DEF TypeInv, TypeOK, CouncilTypeOK, RoomTypeOK, TickDies, Fault
<1> QED BY <1>1, <1>2 DEF TypeInv, TypeOK, CouncilTypeOK, RoomTypeOK, StuckBelow, TickDies

LEMMA WrapperType ==
  ASSUME TypeInv, CouncilAssumption, WrapperStep
  PROVE  CouncilTypeOK' /\ StuckBelow' /\ CheckpointTypeOK'
<1>0. Panel \subseteq Reviewer
  BY SetupType DEF TypeInv, TypeOK, CouncilTypeOK
<1>1. CASE BeginRun
  <2>1. log' \in [round : Nat, ok : SUBSET Reviewer]
    BY <1>1 DEF TypeInv, TypeOK, CouncilTypeOK, CheckpointTypeOK, BeginRun, Load, Manifest
  <2> QED BY <1>0, <1>1, <2>1
          DEF TypeInv, TypeOK, CouncilTypeOK, RoomTypeOK, CheckpointTypeOK, StuckBelow, BeginRun, room
<1>2. ASSUME NEW r \in Reviewer, AskLogged(r)
      PROVE  CouncilTypeOK' /\ StuckBelow' /\ CheckpointTypeOK'
  <2>1. m.round \in Nat /\ m.hash \in Version
    BY DEF TypeInv, TypeOK, CouncilTypeOK, Manifest
  <2>2. asked' \in [Reviewer -> SUBSET Request]
    BY <1>2, <2>1, AskType DEF TypeInv, TypeOK, CouncilTypeOK, AskLogged
  <2>3. sent' \subseteq Reviewer \X Nat
    BY <1>2, <2>1 DEF TypeInv, TypeOK, CheckpointTypeOK, AskLogged
  <2> QED BY <1>2, <2>2, <2>3
          DEF TypeInv, TypeOK, CouncilTypeOK, RoomTypeOK, CheckpointTypeOK, StuckBelow, AskLogged, tick
<1>3. CASE CompleteStep
  <2>1. log' \in [round : Nat, ok : SUBSET Reviewer]
    BY <1>3 DEF TypeInv, TypeOK, CheckpointTypeOK, CompleteStep, Append
  <2> QED BY <1>3, <2>1
          DEF TypeInv, TypeOK, CouncilTypeOK, RoomTypeOK, CheckpointTypeOK, StuckBelow, CompleteStep, room, tick
<1>4. CASE RunTick
  BY <1>4
  DEF TypeInv, TypeOK, CouncilTypeOK, RoomTypeOK, CheckpointTypeOK, StuckBelow, RunTick, room, wrapper
<1> QED BY <1>1, <1>2, <1>3, <1>4 DEF WrapperStep

LEMMA LoopType ==
  ASSUME TypeInv, CouncilAssumption, Launch \/ LoopStep \/ LoopDies
  PROVE  RoomTypeOK' /\ LoopTypeOK' /\ RoundBegun'
<1>0. Panel \subseteq Reviewer /\ RoomTypeOK /\ LoopTypeOK /\ RoundBegun
  BY SetupType DEF TypeInv, TypeOK, CouncilTypeOK
<1>1. CASE Launch
  BY <1>0, <1>1 DEF RoomTypeOK, LoopTypeOK, RoundBegun, Launch, None, room
<1>2. CASE AskActive
  <2>1. round \in Nat /\ round \in Version
    BY <1>0, <1>2 DEF AskActive, LoopTypeOK, RoundBegun, Version
  <2>2. asked' \in [Reviewer -> SUBSET Request]
    BY <1>0, <1>2, <2>1, AskType DEF AskActive
  <2>3. faults' \in Nat
    BY <1>0, <1>2 DEF AskActive, RoomTypeOK, Fault
  <2> QED BY <1>0, <1>2, <2>2, <2>3 DEF AskActive, RoomTypeOK, LoopTypeOK, RoundBegun
<1>3. ASSUME NEW r \in Reviewer, Collect(r)
      PROVE  RoomTypeOK' /\ LoopTypeOK' /\ RoundBegun'
  BY <1>0, <1>3 DEF RoomTypeOK, LoopTypeOK, RoundBegun, Collect, FilesOf, File, room
<1>4. CASE EndPoll
  BY <1>0, <1>4 DEF RoomTypeOK, LoopTypeOK, RoundBegun, EndPoll, room
<1>5. CASE Consent \/ Stuck \/ RevisionTimeout
  BY <1>0, <1>5
  DEF RoomTypeOK, LoopTypeOK, RoundBegun, Consent, Stuck, RevisionTimeout, End, None, room
<1>6. CASE AskRevision
  BY <1>0, <1>6 DEF RoomTypeOK, LoopTypeOK, RoundBegun, AskRevision, Fails, room
<1>7. CASE NextRound
  BY <1>0, <1>7 DEF RoomTypeOK, LoopTypeOK, RoundBegun, NextRound, Fails, room
<1>8. CASE LoopDies
  BY <1>0, <1>8 DEF RoomTypeOK, LoopTypeOK, RoundBegun, LoopDies, Fault
<1> QED BY <1>1, <1>2, <1>3, <1>4, <1>5, <1>6, <1>7, <1>8 DEF LoopStep

LEMMA InitType ==
  ASSUME CouncilAssumption, StuckAssumption, Init
  PROVE  TypeInv
<1>1. RoomTypeOK
  BY DEF Init, RoomInit, RoomTypeOK, Version
<1>2. CouncilTypeOK /\ StuckBelow
  <2>1. 0 \in 0..MaxStuckRounds /\ 0 < MaxStuckRounds /\ 1 \in Version
    BY DEF StuckAssumption, Version
  <2>2. m \in Manifest /\ m.stuck = 0 /\ m.status = "none"
    BY <2>1 DEF Init, CouncilInit, Manifest
  <2>3. NoMemory \in Memory /\ NoMemory.stuck = 0
    BY <2>1 DEF NoMemory, Memory
  <2> QED BY <1>1, <2>1, <2>2, <2>3 DEF Init, CouncilInit, CouncilTypeOK, StuckBelow
<1>3. CheckpointTypeOK
  BY DEF Init, CheckpointInit, CheckpointTypeOK
<1>4. LoopTypeOK /\ RoundBegun
  BY DEF Init, LoopInit, LoopTypeOK, RoundBegun, None
<1> QED BY <1>2, <1>3, <1>4 DEF TypeInv, TypeOK

LEMMA NextType ==
  ASSUME CouncilAssumption, StuckAssumption, TypeInv, [Next]_vars
  PROVE  TypeInv'
<1>1. CASE Agents /\ UNCHANGED <<tick, wrapper, loop>>
  <2>1. RoomTypeOK'
    BY <1>1, AgentsType DEF TypeInv, TypeOK, CouncilTypeOK
  <2> QED BY <1>1, <2>1
          DEF TypeInv, TypeOK, CouncilTypeOK, CheckpointTypeOK, LoopTypeOK, StuckBelow,
              RoundBegun, tick, wrapper, loop
<1>2. CASE (ConvenerStep \/ TickStep \/ Ages) /\ UNCHANGED <<wrapper, loop>>
  <2>1. CouncilTypeOK' /\ StuckBelow'
    BY <1>2, ConvenerType, TickType, AgesType
  <2> QED BY <1>2, <2>1
          DEF TypeInv, TypeOK, CheckpointTypeOK, LoopTypeOK, RoundBegun, wrapper, loop
<1>3. CASE WrapperStep /\ UNCHANGED loop
  <2>1. CouncilTypeOK' /\ StuckBelow' /\ CheckpointTypeOK'
    BY <1>3, WrapperType
  <2> QED BY <1>3, <2>1 DEF TypeInv, TypeOK, LoopTypeOK, RoundBegun, loop
<1>4. CASE WrapperDies /\ UNCHANGED loop
  <2>1. CouncilTypeOK' /\ StuckBelow'
    BY <1>4, TickDiesType DEF WrapperDies
  <2> QED BY <1>4, <2>1
          DEF TypeInv, TypeOK, CheckpointTypeOK, LoopTypeOK, RoundBegun, WrapperDies, loop
<1>5. CASE (Launch \/ LoopStep \/ LoopDies) /\ UNCHANGED <<tick, wrapper>>
  <2>1. RoomTypeOK' /\ LoopTypeOK' /\ RoundBegun'
    BY <1>5, LoopType
  <2> QED BY <1>5, <2>1
          DEF TypeInv, TypeOK, CouncilTypeOK, CheckpointTypeOK, StuckBelow, tick, wrapper
<1>6. CASE UNCHANGED vars
  BY <1>6 DEF TypeInv, TypeOK, RoomTypeOK, CouncilTypeOK, CheckpointTypeOK, LoopTypeOK,
              StuckBelow, RoundBegun, vars, room, tick, wrapper, loop
<1> QED BY <1>1, <1>2, <1>3, <1>4, <1>5, <1>6 DEF Next

THEOREM TypeInvariance == Spec => []TypeInv
<1>1. Init => TypeInv
  BY InitType, CouncilAssumption, StuckAssumption
<1>2. TypeInv /\ [Next]_vars => TypeInv'
  BY NextType, CouncilAssumption, StuckAssumption
<1> QED BY <1>1, <1>2, PTL DEF Spec

\* The manifest, the loop's state, the requests and the verdict files of every
\* council hold what the code may put there; no count passes its limit.
THEOREM TypeCorrect == Spec => []TypeOK
<1>1. TypeInv => TypeOK
  BY DEF TypeInv
<1> QED BY <1>1, TypeInvariance, PTL

-----------------------------------------------------------------------------
(* The event log.  While the wrapper asks, its log is that of the round on *)
(* the manifest, and no tick runs that could open another.                 *)

LogInv ==
  /\ LoggedWasAsked
  /\ pc = "wrap" => log.round = m.round
  /\ pc = "wrap" => \A r \in logging : <<r, m.round>> \in sent
  /\ pc # "wrap" => logging = {}

LEMMA OthersKeepLog ==
  ASSUME TypeInv, LogInv, UNCHANGED wrapper,
         (pc' # "wrap" /\ logging = {}) \/ (pc' = pc /\ m'.round = m.round)
  PROVE  LogInv'
BY DEF LogInv, LoggedWasAsked, wrapper

LEMMA WrapperKeepsLog ==
  ASSUME TypeInv, LogInv, WrapperStep \/ WrapperDies
  PROVE  LogInv'
<1>0. log \in [round : Nat, ok : SUBSET Reviewer]
  BY DEF TypeInv, TypeOK, CheckpointTypeOK
<1>1. CASE BeginRun
  <2>1. logging' = logging /\ sent' = sent /\ m' = m
    BY <1>1 DEF BeginRun
  <2>2. log'.round = m.round /\ (log' = log \/ log'.ok = {})
    BY <1>0, <1>1 DEF BeginRun, Load
  <2>3. LoggedWasAsked'
    BY <2>1, <2>2 DEF LogInv, LoggedWasAsked
  <2>4. logging = {}
    BY <1>1 DEF BeginRun, LogInv
  <2> QED BY <2>1, <2>2, <2>3, <2>4 DEF LogInv
<1>2. ASSUME NEW r \in Reviewer, AskLogged(r)
      PROVE  LogInv'
  BY <1>2 DEF LogInv, LoggedWasAsked, AskLogged, tick
<1>3. CASE CompleteStep
  <2>1. PICK r \in logging : log' = [log EXCEPT !.ok = @ \union {r}]
    BY <1>3 DEF CompleteStep, Append
  <2>2. log'.round = log.round /\ log'.ok = log.ok \union {r}
    BY <1>0, <2>1
  <2> QED BY <1>3, <2>2 DEF LogInv, LoggedWasAsked, CompleteStep, tick
<1>4. CASE RunTick
  BY <1>4, OthersKeepLog DEF RunTick
<1>5. CASE WrapperDies
  BY <1>5 DEF LogInv, LoggedWasAsked, WrapperDies, TickDies
<1> QED BY <1>1, <1>2, <1>3, <1>4, <1>5 DEF WrapperStep

\* No tick steps while the wrapper asks, and nothing else changes the round.
LEMMA RoundKept ==
  ASSUME TypeInv, LogInv, ConvenerStep \/ TickStep \/ Ages
  PROVE  (pc' # "wrap" /\ logging = {}) \/ (pc' = pc /\ m'.round = m.round)
<1>0. m \in Manifest
  BY DEF TypeInv, TypeOK, CouncilTypeOK
<1>1. CASE ConvenerStep \/ Ages
  BY <1>0, <1>1 DEF ConvenerStep, Convene, ConvenerAsks, Ages, Manifest
<1>2. CASE TickStep
  BY <1>2 DEF TickStep, OpenRound, Repoke, Dispatch, SaveRound, GatePass, Archive,
              GateStuck, GateFail, GateRevise, RequestRevision, PlannerUnresponsive,
              Unresolved, Wait, Judging, Begins, Start, LogInv
<1> QED BY <1>1, <1>2

\* The event log of the wrapper never claims a request that was not sent: not
\* for the round it names, whatever rounds other ticks opened in between.
THEOREM LogIsTrue == Spec => []LoggedWasAsked
<1>1. Init => LogInv
  BY DEF Init, CouncilInit, CheckpointInit, LogInv, LoggedWasAsked
<1>2. TypeInv /\ LogInv /\ [Next]_vars => LogInv'
  <2> SUFFICES ASSUME TypeInv, LogInv, [Next]_vars
               PROVE  LogInv'
    OBVIOUS
  <2>1. CASE Agents /\ UNCHANGED <<tick, wrapper, loop>>
    BY <2>1, OthersKeepLog DEF tick
  <2>2. CASE (ConvenerStep \/ TickStep \/ Ages) /\ UNCHANGED <<wrapper, loop>>
    BY <2>2, RoundKept, OthersKeepLog
  <2>3. CASE (WrapperStep \/ WrapperDies) /\ UNCHANGED loop
    BY <2>3, WrapperKeepsLog
  <2>4. CASE (Launch \/ LoopStep \/ LoopDies) /\ UNCHANGED <<tick, wrapper>>
    BY <2>4, OthersKeepLog DEF tick
  <2>5. CASE UNCHANGED vars
    BY <2>5, OthersKeepLog DEF vars, tick
  <2> QED BY <2>1, <2>2, <2>3, <2>4, <2>5 DEF Next
<1>3. LogInv => LoggedWasAsked
  BY DEF LogInv
<1> QED BY <1>1, <1>2, <1>3, TypeInvariance, PTL DEF Spec

-----------------------------------------------------------------------------
(* The loop.  Who is no longer asked did not fail when asked last, and     *)
(* whoever was asked in this round has a result once the poll is over.     *)

Content(r) == results[r] \in {"PASS", "CONDITIONAL"}

LoopInv ==
  /\ at \notin {"off", "ended"} => \A r \in Panel \ active : Content(r)
  /\ at = "ask" => pending = active
  /\ at = "poll" => \A r \in active \ pending : results[r] # None
  /\ at \in {"decide", "revise"} => \A r \in active : results[r] # None
  /\ gate \in {"PASS", "CONDITIONAL"} => at = "ended"
  /\ NobodyStillFails

LEMMA ContentOrFails ==
  ASSUME TypeInv, LoopInv, CouncilAssumption, at \in {"decide", "revise"}
  PROVE  \A r \in Panel \ Fails : Content(r)
<1>1. SUFFICES ASSUME NEW r \in Panel, r \notin Fails
               PROVE  Content(r)
  OBVIOUS
<1>2. CASE r \notin active
  BY <1>1, <1>2 DEF LoopInv
<1>3. CASE r \in active
  <2>1. results[r] \in Verdict \union {"TIMEOUT"}
    BY <1>3 DEF LoopInv, TypeInv, TypeOK, LoopTypeOK
  <2> QED BY <1>1, <1>3, <2>1 DEF Fails, Verdict, Content
<1> QED BY <1>2, <1>3

LEMMA LoopKeepsInv ==
  ASSUME TypeInv, LoopInv, CouncilAssumption, Launch \/ LoopStep \/ LoopDies
  PROVE  LoopInv'
<1>0. Panel' = Panel /\ Panel \subseteq Reviewer /\ LoopTypeOK /\ RoomTypeOK
  <2>1. setup' = setup
    BY DEF Launch, LoopStep, AskActive, Collect, EndPoll, Consent, Stuck, AskRevision,
           NextRound, RevisionTimeout, End, LoopDies, room
  <2> QED BY <2>1, SetupType DEF Panel, TypeInv, TypeOK, CouncilTypeOK
<1>1. CASE Launch
  BY <1>0, <1>1 DEF LoopInv, Launch, NobodyStillFails, Content
<1>2. CASE AskActive
  BY <1>0, <1>2 DEF LoopInv, AskActive, NobodyStillFails, Content
<1>3. ASSUME NEW r \in Reviewer, Collect(r)
      PROVE  LoopInv'
  <2>1. PICK f \in files : results' = [results EXCEPT ![r] = f.verdict]
    BY <1>3 DEF Collect, FilesOf
  <2>2. f.verdict # None /\ r \in active
    BY <1>0, <1>3 DEF RoomTypeOK, File, Verdict, None, LoopTypeOK, Collect
  <2>3. results'[r] # None /\ \A x \in Reviewer \ {r} : results'[x] = results[x]
    BY <1>0, <2>1, <2>2 DEF LoopTypeOK
  <2>4. at = "poll" /\ at' = at /\ active' = active /\ pending' = pending \ {r} /\ gate' = gate
    BY <1>3 DEF Collect
  <2>5. gate \notin {"PASS", "CONDITIONAL"}
    BY <2>4 DEF LoopInv
  <2>6. \A x \in Panel \ active : Content(x)'
    BY <1>0, <2>2, <2>3, <2>4 DEF LoopInv, Content
  <2>7. \A x \in active \ pending' : results'[x] # None
    BY <1>0, <2>3, <2>4 DEF LoopInv, LoopTypeOK
  <2> QED BY <1>0, <2>4, <2>5, <2>6, <2>7 DEF LoopInv, NobodyStillFails
<1>4. CASE EndPoll
  <2>1. \A r \in active : results'[r] # None
    BY <1>0, <1>4 DEF EndPoll, LoopInv, LoopTypeOK, None
  <2>2. \A r \in Panel \ active : Content(r)'
    BY <1>0, <1>4 DEF EndPoll, LoopInv, LoopTypeOK, Content
  <2> QED BY <1>0, <1>4, <2>1, <2>2 DEF EndPoll, LoopInv, NobodyStillFails
<1>5. CASE Consent
  BY <1>0, <1>5, ContentOrFails DEF Consent, End, LoopInv, NobodyStillFails, Content
<1>6. CASE Stuck \/ RevisionTimeout
  BY <1>0, <1>6 DEF Stuck, RevisionTimeout, End, LoopInv, NobodyStillFails, Content
<1>7. CASE AskRevision
  BY <1>0, <1>7 DEF AskRevision, LoopInv, NobodyStillFails, Content
<1>8. CASE NextRound
  BY <1>0, <1>8, ContentOrFails DEF NextRound, LoopInv, NobodyStillFails, Content
<1>9. CASE LoopDies
  BY <1>0, <1>9 DEF LoopDies, LoopInv, NobodyStillFails, Content
<1> QED BY <1>1, <1>2, <1>3, <1>4, <1>5, <1>6, <1>7, <1>8, <1>9 DEF LoopStep

LEMMA PanelKept ==
  ASSUME [Next]_vars
  PROVE  setup' = setup
<1>1. CASE Agents
  BY <1>1 DEF Agents, Revise, StartReview, Answer, WriteVerdict, AppendFooter, LoseReview
<1>2. CASE ConvenerStep \/ Ages
  BY <1>2 DEF ConvenerStep, Convene, ConvenerAsks, Ages, room
<1>3. CASE TickStep
  BY <1>3 DEF TickStep, OpenRound, Repoke, Dispatch, SaveRound, GatePass, Archive, GateStuck,
              GateRevise, RequestRevision, PlannerUnresponsive, Unresolved, Wait, room
<1>4. CASE WrapperStep \/ WrapperDies
  BY <1>4 DEF WrapperStep, BeginRun, AskLogged, CompleteStep, RunTick, WrapperDies, TickDies, room
<1>5. CASE Launch \/ LoopStep \/ LoopDies
  BY <1>5 DEF Launch, LoopStep, AskActive, Collect, EndPoll, Consent, Stuck, AskRevision,
              NextRound, RevisionTimeout, End, LoopDies, room
<1>6. CASE UNCHANGED vars
  BY <1>6 DEF vars, room
<1> QED BY <1>1, <1>2, <1>3, <1>4, <1>5, <1>6 DEF Next

\* The loop declares full consensus only when the last verdict it counted of
\* every reviewer, in this round or in an earlier one, is not a failure.
THEOREM ConsensusIsReal == Spec => []NobodyStillFails
<1>1. Init => LoopInv
  BY DEF Init, LoopInit, LoopInv, NobodyStillFails, None
<1>2. TypeInv /\ LoopInv /\ [Next]_vars => LoopInv'
  <2> SUFFICES ASSUME TypeInv, LoopInv, [Next]_vars
               PROVE  LoopInv'
    OBVIOUS
  <2>1. CASE Launch \/ LoopStep \/ LoopDies
    BY <2>1, LoopKeepsInv, CouncilAssumption
  <2>2. CASE UNCHANGED loop
    BY <2>2, PanelKept DEF LoopInv, NobodyStillFails, Content, Panel, loop
  <2> QED BY <2>1, <2>2 DEF Next, vars
<1>3. LoopInv => NobodyStillFails
  BY DEF LoopInv
<1> QED BY <1>1, <1>2, <1>3, TypeInvariance, PTL DEF Spec

-----------------------------------------------------------------------------
(* The promise.  A footer is never of a later version than the one its     *)
(* author read: requests are told the plan's hash of an earlier moment     *)
(* than the one they are read at.  The gate counts a footer of the hash of *)
(* today, so its author has read the text of today.  A file that has no    *)
(* footer, or not yet, is a vote for no text.                              *)

\* The loop has no manifest, and no other driver runs it.
LoopAlone ==
  /\ driver = "loop" => m.status = "none" /\ pc = "idle" /\ ~convening
  /\ at # "off" => driver = "loop"

\* A round waiting to be saved, or a revision to be asked for, is of a council
\* that is not over.
PcOpen ==
  /\ pc = "save" => m.status \in {"in_review", "revising"}
  /\ pc = "revise" => m.status = "in_review"
  /\ convening => m.status # "none"

HashesOld ==
  /\ m.hash <= plan /\ t.hash <= plan
  /\ driver # "loop" => \A r \in Reviewer : \A q \in asked[r] : q.told <= plan

ToldFirst ==
  /\ \A r \in Reviewer : reading[r] # Nothing =>
       reading[r].told <= reading[r].about /\ reading[r].about <= plan
  /\ \A f \in files : f.footer <= f.about /\ f.about <= plan

PromiseInv == LoopAlone /\ PcOpen /\ (driver # "loop" => HashesOld /\ ToldFirst)

LEMMA AgentsOld ==
  ASSUME TypeInv, PromiseInv, driver # "loop", Agents, UNCHANGED tick
  PROVE  HashesOld' /\ ToldFirst'
<1>0. /\ RoomTypeOK /\ m \in Manifest /\ t \in Memory
      /\ HashesOld /\ ToldFirst /\ m' = m /\ t' = t
  BY DEF TypeInv, TypeOK, CouncilTypeOK, PromiseInv, tick
<1>1. CASE Revise
  <2>1. plan' = plan + 1 /\ plan \in Nat /\ m.hash \in Nat /\ t.hash \in Nat
    BY <1>0, <1>1 DEF Revise, RoomTypeOK, Version, Manifest, Memory
  <2>2. asked' = asked /\ reading' = reading /\ files' = files /\ driver' = driver
    BY <1>1 DEF Revise, driver
  <2>3. \A r \in Reviewer : \A q \in asked[r] : q.told \in Nat
    BY <1>0 DEF RoomTypeOK, Request, Version
  <2>4. \A r \in Reviewer : reading[r] # Nothing => reading[r].about \in Nat
    BY <1>0 DEF RoomTypeOK, Review, Version
  <2>5. \A f \in files : f.about \in Nat
    BY <1>0 DEF RoomTypeOK, File, Version
  <2>6. HashesOld'
    BY <1>0, <2>1, <2>2, <2>3 DEF HashesOld
  <2>7. ToldFirst'
    BY <1>0, <2>1, <2>2, <2>4, <2>5 DEF ToldFirst
  <2> QED BY <2>6, <2>7
<1>2. ASSUME NEW r \in Reviewer, StartReview(r)
      PROVE  HashesOld' /\ ToldFirst'
  <2>1. PICK q \in asked[r] :
          /\ asked' = [asked EXCEPT ![r] = @ \ {q}]
          /\ reading' = [reading EXCEPT ![r] =
               [round |-> q.round, told |-> q.told,
                about |-> IF driver = "loop" THEN q.told ELSE plan, wrote |-> FALSE]]
    BY <1>2 DEF StartReview
  <2>2. plan' = plan /\ files' = files /\ plan \in Nat
    BY <1>0, <1>2 DEF StartReview, RoomTypeOK, Version
  <2>3. reading'[r].told <= reading'[r].about /\ reading'[r].about = plan
    BY <1>0, <2>1, <2>2 DEF HashesOld, RoomTypeOK
  <2>4. \A x \in Reviewer \ {r} : reading'[x] = reading[x]
    BY <1>0, <2>1 DEF RoomTypeOK
  <2>5. \A x \in Reviewer : asked'[x] \subseteq asked[x]
    BY <1>0, <2>1 DEF RoomTypeOK
  <2>6. HashesOld'
    BY <1>0, <2>2, <2>5 DEF HashesOld
  <2>7. ToldFirst'
    BY <1>0, <2>2, <2>3, <2>4 DEF ToldFirst
  <2> QED BY <2>6, <2>7
<1>3. ASSUME NEW r \in Reviewer, NEW v \in Verdict, WriteVerdict(r, v, Oldest)
      PROVE  HashesOld' /\ ToldFirst'
  <2> DEFINE f == VerdictFile(r, v, 0)
  <2>1. files' \subseteq files \union {f} /\ plan' = plan /\ asked' = asked
    BY <1>3 DEF WriteVerdict, Put
  <2>2. reading[r] \in Review /\ reading[r] # Nothing
    BY <1>0, <1>3 DEF WriteVerdict, RoomTypeOK
  <2>3. f.footer <= f.about /\ f.about <= plan
    BY <1>0, <2>2 DEF VerdictFile, Review, ToldFirst, Version
  <2>4. \A x \in Reviewer : reading'[x] # Nothing =>
          /\ reading[x] # Nothing
          /\ reading'[x].told = reading[x].told /\ reading'[x].about = reading[x].about
    BY <1>0, <1>3, <2>2 DEF WriteVerdict, RoomTypeOK, Review
  <2> QED BY <1>0, <2>1, <2>3, <2>4 DEF HashesOld, ToldFirst
<1>5. ASSUME NEW r \in Reviewer, AppendFooter(r, Oldest)
      PROVE  HashesOld' /\ ToldFirst'
  <2>1. plan' = plan /\ asked' = asked
    BY <1>5 DEF AppendFooter
  <2>2. reading[r] \in Review /\ reading[r] # Nothing
    BY <1>0, <1>5 DEF AppendFooter, RoomTypeOK
  <2>3. \A f \in files' : f \in files \/ \E v : f = VerdictFile(r, v, reading[r].told)
    BY <1>5 DEF AppendFooter, Put
  <2>4. \A f \in files' : f.footer <= f.about /\ f.about <= plan
    BY <1>0, <2>2, <2>3 DEF VerdictFile, Review, ToldFirst
  <2>5. \A x \in Reviewer : reading'[x] = reading[x] \/ reading'[x] = Nothing
    BY <1>0, <1>5 DEF AppendFooter, RoomTypeOK
  <2> QED BY <1>0, <2>1, <2>4, <2>5 DEF HashesOld, ToldFirst
<1>4. ASSUME NEW r \in Reviewer, LoseReview(r)
      PROVE  HashesOld' /\ ToldFirst'
  <2>1. \A x \in Reviewer : reading'[x] = reading[x] \/ reading'[x] = Nothing
    BY <1>0, <1>4 DEF LoseReview, RoomTypeOK
  <2> QED BY <1>0, <1>4, <2>1 DEF LoseReview, HashesOld, ToldFirst
<1> QED BY <1>1, <1>2, <1>3, <1>4, <1>5 DEF Agents, Answer

LEMMA AskOld ==
  ASSUME TypeInv, HashesOld, driver # "loop", NEW S, NEW n, NEW told \in Version,
         told <= plan, Ask(S, n, told)
  PROVE  \A r \in Reviewer : \A q \in asked'[r] : q.told <= plan
BY DEF Ask, HashesOld

LEMMA DispatchOld ==
  ASSUME TypeInv, HashesOld, ToldFirst, driver # "loop", NEW S, NEW memory \in Memory,
         memory.hash <= plan, Dispatch(S, memory), files' = files \/ files' = {}
  PROVE  HashesOld' /\ ToldFirst'
<1>1. m' = Cleared /\ plan' = plan /\ reading' = reading /\ driver' = driver
  BY DEF Dispatch, driver
<1>2. m'.hash = m.hash
  BY <1>1, ClearedType DEF TypeInv, TypeOK
<1>3. t' = memory \/ t' = NoMemory
  BY DEF Dispatch
<1>4. t'.hash <= plan
  BY <1>3 DEF NoMemory, TypeInv, TypeOK, CouncilTypeOK, RoomTypeOK, Version
<1>5. \A r \in Reviewer : \A q \in asked'[r] : q.told <= plan
  BY AskOld DEF Dispatch, Memory
<1>6. HashesOld'
  BY <1>1, <1>2, <1>4, <1>5 DEF HashesOld
<1>7. ToldFirst'
  BY <1>1 DEF ToldFirst
<1> QED BY <1>6, <1>7

LEMMA TickOld ==
  ASSUME TypeInv, PromiseInv, driver # "loop",
         \/ ConvenerStep \/ TickStep \/ Ages
         \/ WrapperStep \/ WrapperDies
  PROVE  HashesOld' /\ ToldFirst'
<1>0. /\ HashesOld /\ ToldFirst /\ m \in Manifest /\ t \in Memory
      /\ plan \in Version /\ NoMemory.hash <= plan
  BY DEF PromiseInv, TypeInv, TypeOK, CouncilTypeOK, RoomTypeOK, NoMemory, Version
<1>a. SUFFICES
        ASSUME ~(OpenRound \/ Repoke \/ ConvenerAsks \/ \E r \in Reviewer : AskLogged(r))
        PROVE  HashesOld' /\ ToldFirst'
  <2>1. CASE OpenRound
    <3> DEFINE memory == [round |-> m.round + 1, hash |-> plan,
                          stuck |-> IF m.status = "revising" THEN m.stuck ELSE 0]
    <3>1. memory \in Memory /\ memory.hash <= plan
      <4>1. m.stuck \in 0..MaxStuckRounds /\ 0 \in 0..MaxStuckRounds /\ m.round + 1 \in Nat
        BY <1>0, StuckAssumption DEF Manifest, StuckAssumption
      <4> QED BY <1>0, <4>1 DEF Memory, Version
    <3>2. Dispatch(Panel, memory) /\ files' = {}
      BY <2>1 DEF OpenRound
    <3> QED BY <1>0, <3>1, <3>2, DispatchOld
  <2>2. CASE Repoke
    <3> DEFINE memory == [round |-> m.round, hash |-> m.hash, stuck |-> m.stuck]
    <3>1. memory \in Memory /\ memory.hash <= plan
      BY <1>0 DEF Memory, Manifest, HashesOld
    <3>2. Dispatch(Targets, memory) /\ files' = files
      BY <2>2 DEF Repoke
    <3> QED BY <1>0, <3>1, <3>2, DispatchOld
  <2>3. CASE ConvenerAsks
    <3>1. m.hash \in Version /\ m.hash <= plan
      BY <1>0 DEF Manifest, HashesOld
    <3>2. \A r \in Reviewer : \A q \in asked'[r] : q.told <= plan
      BY <1>0, <2>3, <3>1, AskOld DEF ConvenerAsks
    <3> QED BY <1>0, <2>3, <3>2 DEF ConvenerAsks, HashesOld, ToldFirst
  <2>4. ASSUME NEW r \in Reviewer, AskLogged(r)
        PROVE  HashesOld' /\ ToldFirst'
    <3>1. m.hash \in Version /\ m.hash <= plan
      BY <1>0 DEF Manifest, HashesOld
    <3>2. \A x \in Reviewer : \A q \in asked'[x] : q.told <= plan
      BY <1>0, <2>4, <3>1, AskOld DEF AskLogged
    <3> QED BY <1>0, <2>4, <3>2 DEF AskLogged, HashesOld, ToldFirst, tick
  <2> QED BY <2>1, <2>2, <2>3, <2>4
<1>1. plan' = plan /\ asked' = asked /\ reading' = reading /\ files' = files
  BY <1>a DEF ConvenerStep, Convene, TickStep, SaveRound, GatePass, Archive, GateStuck,
     GateRevise, RequestRevision, PlannerUnresponsive, Unresolved, Wait, Ages, WrapperStep,
     BeginRun, CompleteStep, RunTick, WrapperDies, TickDies, room
<1>2. m'.hash \in {m.hash, t.hash, plan}
  BY <1>0, <1>a DEF ConvenerStep, Convene, TickStep, SaveRound, GatePass, Archive, GateStuck,
     GateRevise, RequestRevision, PlannerUnresponsive, Unresolved, Wait, Ages, WrapperStep,
     BeginRun, CompleteStep, RunTick, WrapperDies, TickDies, Cleared, Manifest, tick
<1>3. t' = t \/ t' = NoMemory
  BY <1>a DEF ConvenerStep, Convene, TickStep, SaveRound, GatePass, Archive, GateStuck,
     GateRevise, RequestRevision, PlannerUnresponsive, Unresolved, Wait, Ages, WrapperStep,
     BeginRun, CompleteStep, RunTick, WrapperDies, TickDies, tick
<1>4. HashesOld'
  BY <1>0, <1>1, <1>2, <1>3 DEF HashesOld, Version
<1>5. ToldFirst'
  BY <1>0, <1>1 DEF ToldFirst
<1> QED BY <1>4, <1>5

LEMMA StatusKept ==
  ASSUME TypeInv, PromiseInv,
         \/ ConvenerStep \/ TickStep \/ Ages
         \/ WrapperStep \/ WrapperDies,
         UNCHANGED loop
  PROVE  LoopAlone' /\ PcOpen'
<1>0. m \in Manifest /\ LoopAlone /\ PcOpen /\ driver' = driver /\ at' = at
  <2>1. setup' = setup
    BY DEF ConvenerStep, Convene, ConvenerAsks, TickStep, OpenRound, Repoke, Dispatch, SaveRound,
       GatePass, Archive, GateStuck, GateRevise, RequestRevision, PlannerUnresponsive,
       Unresolved, Wait, Ages, WrapperStep, BeginRun, AskLogged, CompleteStep, RunTick,
       WrapperDies, TickDies, room
  <2> QED BY <2>1 DEF TypeInv, TypeOK, CouncilTypeOK, PromiseInv, driver, loop
<1>1. CASE ConvenerStep
  BY <1>0, <1>1 DEF ConvenerStep, Convene, ConvenerAsks, LoopAlone, PcOpen, Manifest
<1>2. CASE Ages
  BY <1>0, <1>2 DEF Ages, LoopAlone, PcOpen, Manifest
<1>3. CASE TickStep
  <2>1. Cleared.status = m.status
    BY ClearedType DEF TypeInv, TypeOK
  <2>2. driver # "loop"
    BY <1>0, <1>3 DEF TickStep, OpenRound, Repoke, SaveRound, GatePass, Archive, GateStuck,
       GateFail, GateRevise, RequestRevision, PlannerUnresponsive, Unresolved, Wait, Judging,
       Begins, LoopAlone
  <2>3. CASE OpenRound \/ Repoke
    BY <1>0, <2>1, <2>2, <2>3
    DEF OpenRound, Repoke, Dispatch, Judging, Begins, LoopAlone, PcOpen
  <2>4. CASE SaveRound \/ Archive \/ RequestRevision
    <3>1. pc' = "idle" /\ convening' = convening /\ (m'.status # "none" \/ m'.status = m.status)
      BY <1>0, <2>4 DEF SaveRound, Archive, RequestRevision, Manifest
    <3> QED BY <1>0, <2>2, <3>1 DEF LoopAlone, PcOpen
  <2>5. CASE GatePass
    <3>1. m'.status = "passed" /\ pc' = "archive" /\ convening' = convening
      BY <1>0, <2>5 DEF GatePass, Cleared, Manifest
    <3> QED BY <1>0, <2>2, <3>1 DEF LoopAlone, PcOpen
  <2>6. CASE GateStuck \/ PlannerUnresponsive
    <3>1. m'.status = "escalated" /\ pc' = "idle" /\ convening' = convening
      BY <1>0, <2>6 DEF GateStuck, PlannerUnresponsive, Cleared, Manifest
    <3> QED BY <1>0, <2>2, <3>1 DEF LoopAlone, PcOpen
  <2>7. CASE GateRevise
    <3>1. m'.status = "in_review" /\ pc' = "revise" /\ convening' = convening
      BY <1>0, <2>7 DEF GateRevise, GateFail, Judging, Manifest
    <3> QED BY <1>0, <2>2, <3>1 DEF LoopAlone, PcOpen
  <2>8. CASE Unresolved \/ Wait
    <3>1. m'.status = m.status /\ pc' = "idle" /\ convening' = convening
      BY <1>0, <2>1, <2>8 DEF Unresolved, Wait, Cleared, Manifest
    <3> QED BY <1>0, <2>2, <3>1 DEF LoopAlone, PcOpen
  <2> QED BY <1>3, <2>3, <2>4, <2>5, <2>6, <2>7, <2>8 DEF TickStep
<1>4. CASE WrapperStep
  <2>1. m' = m /\ convening' = convening
    BY <1>4 DEF WrapperStep, BeginRun, AskLogged, CompleteStep, RunTick, tick
  <2>2. pc' = pc \/ (pc' \in {"wrap", "ready"} /\ (driver = "checkpoint" \/ pc = "wrap"))
    BY <1>4 DEF WrapperStep, BeginRun, AskLogged, CompleteStep, RunTick, tick
  <2> QED BY <1>0, <2>1, <2>2 DEF LoopAlone, PcOpen
<1>5. CASE WrapperDies
  BY <1>0, <1>5 DEF WrapperDies, TickDies, LoopAlone, PcOpen
<1> QED BY <1>1, <1>2, <1>3, <1>4, <1>5

LEMMA NextPromise ==
  ASSUME TypeInv, PromiseInv, [Next]_vars
  PROVE  PromiseInv'
<1>0. driver' = driver
  BY PanelKept DEF driver
<1>1. CASE Agents /\ UNCHANGED <<tick, wrapper, loop>>
  BY <1>0, <1>1, AgentsOld DEF PromiseInv, LoopAlone, PcOpen, tick, loop
<1>2. CASE (ConvenerStep \/ TickStep \/ Ages \/ WrapperStep \/ WrapperDies) /\ UNCHANGED loop
  BY <1>0, <1>2, TickOld, StatusKept DEF PromiseInv
<1>3. CASE (Launch \/ LoopStep \/ LoopDies) /\ UNCHANGED <<tick, wrapper>>
  <2>1. driver = "loop" \/ at # "off"
    BY <1>3 DEF Launch, LoopStep, AskActive, Collect, EndPoll, Consent, Stuck, AskRevision,
       NextRound, RevisionTimeout, LoopDies
  <2>2. driver = "loop"
    BY <2>1 DEF PromiseInv, LoopAlone
  <2> QED BY <1>0, <1>3, <2>2 DEF PromiseInv, LoopAlone, PcOpen, tick
<1>4. CASE UNCHANGED vars
  BY <1>0, <1>4 DEF PromiseInv, LoopAlone, PcOpen, HashesOld, ToldFirst, vars, room, tick, loop
<1> QED BY <1>1, <1>2, <1>3, <1>4 DEF Next

-----------------------------------------------------------------------------
(* Every step of a council is a vote, the shipping of a version, a giving  *)
(* up, or nothing at all.                                                  *)

Outcome == IF m.status = "passed" THEN {m.hash} ELSE {}

LEMMA VotesType ==
  ASSUME TypeInv
  PROVE  Votes \subseteq Reviewer \X (Version \union {0})
BY DEF TypeInv, TypeOK, CouncilTypeOK, RoomTypeOK, File, Votes

\* A step that neither passes nor escalates the council, nor changes a hash
\* that passed, is a vote or a stutter.
LEMMA KeepingIsVoting ==
  ASSUME TypeInv', setup' = setup, Outcome' = Outcome,
         (m.status \in {"passed", "escalated"})' = (m.status \in {"passed", "escalated"})
  PROVE  Promise!Vote
<1>1. (Votes \subseteq Reviewer \X (Version \union {0}))'
  BY VotesType, PTL
<1> QED BY <1>1 DEF Promise!Vote, Outcome, Panel

LEMMA PassIsShipping ==
  ASSUME TypeInv, PromiseInv, CouncilAssumption, GatePass
  PROVE  Promise!Ship
<1>0. m \in Manifest /\ driver # "loop" /\ Judging /\ HashesOld /\ ToldFirst
      /\ Panel \subseteq Reviewer /\ files \subseteq File /\ m.status = "in_review"
  BY SetupType DEF TypeInv, TypeOK, CouncilTypeOK, RoomTypeOK, GatePass, Judging, Begins, PromiseInv
<1>1. m'.status = "passed" /\ m'.hash = m.hash /\ files' = files /\ setup' = setup
  BY <1>0 DEF GatePass, Cleared, Manifest, room
<1>2. \A r \in Panel : \E f \in files :
        f.by = r /\ f.verdict = "PASS" /\ (f.footer = 0 \/ f.footer = m.hash)
  BY DEF GatePass, Passes, Answers, FilesOf, Stale
<1>3. Promise!Agreed(m.hash)
  <2> SUFFICES ASSUME NEW r \in Panel
               PROVE  <<r, m.hash>> \in Votes \/ <<r, 0>> \in Votes
    BY DEF Promise!Agreed
  <2>1. PICK f \in files :
          f.by = r /\ f.verdict = "PASS" /\ (f.footer = 0 \/ f.footer = m.hash)
    BY <1>2
  <2>2. CASE f.footer = 0
    BY <2>1, <2>2 DEF Votes
  <2>3. CASE f.footer = m.hash /\ f.footer # 0
    <3>1. m.hash = plan /\ plan \in Nat /\ f.about \in Nat
      BY <1>0 DEF Judging, Changed, File, Version, TypeInv, TypeOK, CouncilTypeOK, RoomTypeOK
    <3>2. f.about = m.hash
      BY <1>0, <2>3, <3>1 DEF ToldFirst
    <3> QED BY <2>1, <2>3, <3>2 DEF Votes
  <2> QED BY <2>1, <2>2, <2>3
<1>5. Votes' = Votes /\ Panel' = Panel
  BY <1>1 DEF Votes, Panel
<1> QED BY <1>0, <1>1, <1>3, <1>5 DEF Promise!Ship

LEMMA EscalationIsGivingUp ==
  ASSUME TypeInv, GateStuck \/ PlannerUnresponsive
  PROVE  Promise!GiveUp
<1>1. m \in Manifest
  BY DEF TypeInv, TypeOK, CouncilTypeOK
<1>2. m.status \in {"in_review", "revising"} /\ m'.status = "escalated"
  BY <1>1 DEF GateStuck, GateFail, Judging, PlannerUnresponsive, Cleared, Manifest
<1>3. Votes' = Votes /\ Panel' = Panel
  BY DEF GateStuck, PlannerUnresponsive, Votes, Panel, room
<1> QED BY <1>2, <1>3 DEF Promise!GiveUp

\* All other steps.
LEMMA OtherStepsKeep ==
  ASSUME TypeInv, PromiseInv, [Next]_vars,
         ~(GatePass \/ GateStuck \/ PlannerUnresponsive)
  PROVE  /\ Outcome' = Outcome
         /\ (m.status \in {"passed", "escalated"})' = (m.status \in {"passed", "escalated"})
<1>0. m \in Manifest /\ PcOpen
  BY DEF TypeInv, TypeOK, CouncilTypeOK, PromiseInv
<1>1. CASE m' = m
  BY <1>1 DEF Outcome
<1>2. CASE ConvenerStep
  <2>1. m' = m \/ (m.status = "none" /\ m'.status = "in_review")
    BY <1>0, <1>2 DEF ConvenerStep, Convene, ConvenerAsks, Manifest
  <2> QED BY <2>1 DEF Outcome
<1>3. CASE OpenRound \/ Repoke \/ Wait
  BY <1>0, <1>3, ClearedType
  DEF OpenRound, Repoke, Dispatch, Wait, Outcome, TypeInv, TypeOK
<1>4. CASE SaveRound \/ RequestRevision
  <2>1. m.status \in {"in_review", "revising"} /\ m'.status \in {"in_review", "revising"}
    BY <1>0, <1>4 DEF SaveRound, RequestRevision, Manifest, PcOpen
  <2> QED BY <2>1 DEF Outcome
<1>5. CASE Archive \/ Unresolved \/ Ages
  <2>1. m'.status = m.status /\ m'.hash = m.hash
    BY <1>0, <1>5 DEF Archive, Unresolved, Ages, Cleared, Manifest
  <2> QED BY <2>1 DEF Outcome
<1>6. CASE GateRevise
  <2>1. m'.status = m.status /\ m'.hash = m.hash
    BY <1>0, <1>6 DEF GateRevise, Manifest
  <2> QED BY <2>1 DEF Outcome
<1>7. m' = m \/ ConvenerStep \/ TickStep \/ Ages
  BY DEF Next, vars, tick, WrapperStep, BeginRun, AskLogged, CompleteStep, RunTick,
         WrapperDies, TickDies
<1> QED BY <1>1, <1>2, <1>3, <1>4, <1>5, <1>6, <1>7 DEF TickStep

\* A version ships only when every reviewer has a PASS on file, and none of
\* them bound to another text: whoever has signed his PASS with a hash has read
\* the very version that ships, whatever the drivers repeat, lose or fail to
\* save, and whenever the plan changes.  What has shipped or has been given up
\* stays so.
THEOREM PromiseKept == Spec => KeepsPromise
<1>1. Init => PromiseInv
  BY DEF Init, RoomInit, CouncilInit, LoopInit, PromiseInv, LoopAlone, PcOpen, HashesOld,
         ToldFirst, NoMemory
<1>2. TypeInv /\ PromiseInv /\ [Next]_vars => PromiseInv'
  BY NextPromise
<1>3. Init => Promise!Init
  <2> SUFFICES ASSUME Init PROVE Promise!Init
    OBVIOUS
  <2>1. Panel \in SUBSET Reviewer
    BY InitType, SetupType, CouncilAssumption, StuckAssumption DEF TypeInv, TypeOK, CouncilTypeOK
  <2>2. Votes = {}
    BY DEF Init, RoomInit, Votes
  <2>3. m.status = "none"
    BY DEF Init, CouncilInit
  <2> QED BY <2>1, <2>2, <2>3 DEF Promise!Init
<1>4. TypeInv /\ PromiseInv /\ TypeInv' /\ [Next]_vars =>
        Promise!Next \/ UNCHANGED <<Panel, Votes, Outcome, m.status \in {"passed", "escalated"}>>
  <2> SUFFICES ASSUME TypeInv, PromiseInv, TypeInv', [Next]_vars
               PROVE  Promise!Next
    OBVIOUS
  <2>1. CASE GatePass
    BY <2>1, PassIsShipping, CouncilAssumption DEF Promise!Next
  <2>2. CASE GateStuck \/ PlannerUnresponsive
    BY <2>2, EscalationIsGivingUp DEF Promise!Next
  <2>3. CASE ~(GatePass \/ GateStuck \/ PlannerUnresponsive)
    BY <2>3, OtherStepsKeep, PanelKept, KeepingIsVoting DEF Promise!Next
  <2> QED BY <2>1, <2>2, <2>3
<1> QED BY <1>1, <1>2, <1>3, <1>4, TypeInvariance, PTL DEF Spec, KeepsPromise, Promise!Spec, Outcome
=============================================================================
