--------------------------- MODULE Delivery_proofs ---------------------------
(***************************************************************************)
(* Theorems about Delivery, for every set of messages, healers and         *)
(* practices.                                                              *)
(***************************************************************************)
EXTENDS Delivery, TLAPS

-----------------------------------------------------------------------------
(* Type correctness.                                                       *)

\* Set keeps the type of a column.
LEMMA SetType ==
  /\ \A f \in [Msg -> Status] : \A S, v : v \in Status => Set(f, S, v) \in [Msg -> Status]
  /\ \A f \in [Msg -> Age] : \A S, v : v \in Age => Set(f, S, v) \in [Msg -> Age]
  /\ \A f \in [Msg -> Nat] : \A S : Set(f, S, 0) \in [Msg -> Nat]
  /\ \A f \in [Msg -> {"none", "fresh", "stuck"}] : \A S, v :
       v \in {"none", "fresh", "stuck"} => Set(f, S, v) \in [Msg -> {"none", "fresh", "stuck"}]
BY DEF Set

\* The values the operations write.
LEMMA Values ==
  /\ Terminal \union Claimed \union {"absent", "pending"} \subseteq Status
  /\ {"done", "failed", "cancelled"} \subseteq Status
  /\ {"delivered", "acked", "in_progress", "pending"} \subseteq Status
  /\ {"none", "fresh"} \subseteq Age
BY DEF Status, Terminal, Claimed, Waiting, Age

LEMMA HealerSteps ==
  ASSUME TypeOK, NEW h \in Healer
  PROVE  /\ \A p \in Phase : Move(h, p) => phase' \in [Healer -> Phase]
         /\ \A S \in SUBSET (Msg \X Order) :
              Decide(h, S) => plan' \in [Healer -> SUBSET (Msg \X Order)]
         /\ \A e : Tick(h, e) => plan' \in [Healer -> SUBSET (Msg \X Order)]
BY DEF TypeOK, Move, Decide, Tick

LEMMA VerdictsType ==
  ASSUME NEW S \in SUBSET Msg, NEW limit
  PROVE  Verdicts(S, limit) \in SUBSET (Msg \X Order)
BY DEF Verdicts, Order

LEMMA AgentType ==
  ASSUME TypeOK, NEW m \in Msg, Send(m) \/ Agent(m) \/ Freeze
  PROVE  TypeOK'
<1> USE DEF TypeOK, tick, healer, agent, row
<1>1. CASE Send(m)
  BY <1>1, SetType, Values DEF Send
<1>2. CASE Start(m)
  BY <1>2, SetType, Values DEF Start
<1>3. CASE Skip(m)
  BY <1>3 DEF Skip
<1>4. CASE Ack(m)
  BY <1>4, SetType, Values DEF Ack
<1>5. CASE Cancel(m)
  BY <1>5, SetType, Values DEF Cancel
<1>6. CASE Remove(m)
  BY <1>6 DEF Remove
<1>7. CASE \E s \in {"done", "failed"} : Finish(m, s)
  BY <1>7, SetType, Values DEF Finish
<1>8. CASE Freeze
  BY <1>8 DEF Freeze
<1> QED BY <1>1, <1>2, <1>3, <1>4, <1>5, <1>6, <1>7, <1>8 DEF Agent

LEMMA PollerType ==
  ASSUME TypeOK, Polls \/ TickDies
  PROVE  TypeOK'
<1> USE DEF TypeOK, Stage, healer, agent, row, With
<1>1. CASE Classify \/ GiveUp
  <2>1. status' \in [Msg -> Status]
    BY <1>1, SetType, Values DEF Classify, GiveUp
  <2> QED BY <1>1, <2>1 DEF Classify, GiveUp
<1>2. CASE Claim
  BY <1>2, SetType, Values DEF Claim
<1>3. CASE Repoke
  BY <1>3, SetType, Values DEF Repoke
<1>4. CASE Examine
  BY <1>4 DEF Examine, Wedged
<1>5. CASE Wake
  BY <1>5 DEF Wake, NoTick
<1>6. CASE WedgeRestart
  BY <1>6 DEF WedgeRestart, Restart, NoTick
<1>7. CASE WedgeRestartFails
  BY <1>7 DEF WedgeRestartFails, Stamp
<1>8. CASE WedgeRequeue
  BY <1>8, SetType, Values DEF WedgeRequeue
<1>9. CASE \E m \in Msg : WriteFile(m)
  BY <1>9 DEF WriteFile
<1>10. CASE TickDies
  BY <1>10 DEF TickDies, NoTick
<1> QED BY <1>1, <1>2, <1>3, <1>4, <1>5, <1>6, <1>7, <1>8, <1>9, <1>10 DEF Polls

LEMMA ApplyType ==
  ASSUME TypeOK, NEW h \in Healer, NEW m \in Msg, NEW guard, NEW s \in Status,
         NEW restarted, Apply(h, m, guard, s, restarted)
  PROVE  TypeOK'
<1>1. plan' \in [Healer -> SUBSET (Msg \X Order)]
  BY HealerSteps DEF Apply
<1>2. status' \in [Msg -> Status]
  BY SetType, Values DEF Apply, TypeOK
<1>3. claimed' \in [Msg -> Age]
  BY SetType, Values DEF Apply, TypeOK
<1>4. begun' \in [Msg -> {"none", "fresh", "stuck"}]
  BY SetType DEF Apply, TypeOK
<1>5. count' \in [Msg -> Nat]
  BY DEF Apply, TypeOK
<1>6. UNCHANGED <<old, file, session, told, working, stage, todo, poke, phase, suspect, cooling>>
  BY DEF Apply, agent, tick
<1> QED BY <1>1, <1>2, <1>3, <1>4, <1>5, <1>6 DEF TypeOK

LEMMA SharedType ==
  ASSUME TypeOK, NEW h \in Healer, NEW p,
         Ends(h, p) \/ Aborts(h) \/ (p \in Phase /\ MayRestart(h, p))
  PROVE  TypeOK'
<1> USE HealerSteps DEF agent, row, tick
<1>1. CASE Ends(h, p)
  BY <1>1 DEF TypeOK, Ends, Phase
<1>2. CASE Aborts(h)
  BY <1>2 DEF TypeOK, Aborts, Phase
<1>3. CASE p \in Phase /\ MayRestart(h, p)
  BY <1>3 DEF TypeOK, MayRestart, Restart, NoTick, Stage, Stamp
<1> QED BY <1>1, <1>2, <1>3

LEMMA JanitorType ==
  ASSUME TypeOK, Janitor
  PROVE  TypeOK'
<1> USE DEF Healer, Phase
<1>1. CASE JanitorStale
  BY <1>1, HealerSteps, VerdictsType DEF TypeOK, JanitorStale, With, row, agent, tick
<1>2. CASE JanitorStuck
  BY <1>2, HealerSteps, VerdictsType DEF TypeOK, JanitorStuck, With, row, agent, tick
<1>3. CASE JanitorRestart
  BY <1>3, SharedType DEF JanitorRestart
<1>4. CASE Ends("janitor", "reset")
  BY <1>4, SharedType
<1>5. CASE \E m \in Msg : JanitorStaleRow(m)
  BY <1>5, ApplyType DEF JanitorStaleRow, Status, Terminal
<1>6. CASE \E m \in Msg : JanitorStuckRow(m)
  BY <1>6, ApplyType DEF JanitorStuckRow, Status, Terminal
<1> QED BY <1>1, <1>2, <1>3, <1>4, <1>5, <1>6 DEF Janitor

LEMMA WatcherType ==
  ASSUME TypeOK, WatcherCheck \/ Watches
  PROVE  TypeOK'
<1> USE DEF Healer, Phase
<1>1. CASE WatcherCheck
  BY <1>1, HealerSteps DEF TypeOK, WatcherCheck, row, agent, tick
<1>2. CASE WatcherRestart
  BY <1>2, SharedType DEF WatcherRestart
<1>3. CASE WatcherScan
  BY <1>3, HealerSteps, VerdictsType DEF TypeOK, WatcherScan, With, row, agent, tick
<1>4. CASE Ends("watcher", "reset")
  BY <1>4, SharedType
<1>5. CASE \E m \in Msg : WatcherRow(m)
  BY <1>5, ApplyType DEF WatcherRow, Status, Terminal
<1> QED BY <1>1, <1>2, <1>3, <1>4, <1>5 DEF Watches

LEMMA StaleCheckType ==
  ASSUME TypeOK, StaleCheck
  PROVE  TypeOK'
<1> USE HealerSteps DEF Healer, Phase, With, row, agent, tick
<1>1. CASE StaleBegin
  <2>1. With({"delivered", "in_progress"}) \X {"write"} \in SUBSET (Msg \X Order)
    BY DEF Order
  <2> QED BY <1>1, <2>1 DEF TypeOK, StaleBegin
<1>2. CASE \E m \in Msg : StaleWrite(m)
  BY <1>2 DEF TypeOK, StaleWrite
<1>3. CASE StaleList
  <2>1. (file \intersect With(Terminal)) \X {"rm"} \in SUBSET (Msg \X Order)
    BY DEF Order
  <2> QED BY <1>3, <2>1 DEF TypeOK, StaleList
<1>4. CASE \E m \in Msg : StaleRemove(m)
  BY <1>4 DEF TypeOK, StaleRemove
<1>5. CASE StaleScan
  <2>1. \A W \in SUBSET Msg : W \X {"requeue"} \in SUBSET (Msg \X Order)
    BY DEF Order
  <2>2. Wedged({"delivered"}) \in SUBSET Msg
    BY DEF Wedged
  <2> QED BY <1>5, <2>1, <2>2 DEF TypeOK, StaleScan
<1>6. CASE StaleRestart
  BY <1>6 DEF TypeOK, StaleRestart, Restart, NoTick, Stage, Stamp
<1>7. CASE StaleRequeue
  BY <1>7, SetType, Values DEF TypeOK, StaleRequeue
<1> QED BY <1>1, <1>2, <1>3, <1>4, <1>5, <1>6, <1>7 DEF StaleCheck

LEMMA NextAgeType ==
  ASSUME NEW a \in Age \ {"none", "stale"}
  PROVE  NextAge(a) \in Age
<1>1. \E i \in 1..4 : Ages[i] = a
  BY DEF Ages, Age
<1> DEFINE i == CHOOSE i \in 1..4 : Ages[i] = a
<1>2. i \in 1..4
  BY <1>1
<1> HIDE DEF i
<1>3. Ages[1 + i] \in Age
  <2>1. i = 1 \/ i = 2 \/ i = 3 \/ i = 4
    BY <1>2
  <2> QED BY <2>1 DEF Ages, Age
<1> QED BY <1>3 DEF NextAge, i

LEMMA ClockType ==
  ASSUME TypeOK, NEW m \in Msg, Clock(m)
  PROVE  TypeOK'
<1> USE DEF TypeOK, row, agent, tick, healer
<1>1. CASE ClaimAges(m)
  BY <1>1, SetType, NextAgeType DEF ClaimAges
<1>2. CASE WorkAges(m)
  BY <1>2, SetType DEF WorkAges
<1>3. CASE RowAges(m)
  BY <1>3 DEF RowAges
<1> QED BY <1>1, <1>2, <1>3 DEF Clock

LEMMA InitType == Init => TypeOK
<1> SUFFICES ASSUME Init PROVE TypeOK
  OBVIOUS
<1>1. "absent" \in Status /\ "none" \in Age
  BY Values
<1>2. status \in [Msg -> Status] /\ claimed \in [Msg -> Age]
  BY <1>1 DEF Init
<1>3. phase \in [Healer -> Phase] /\ plan \in [Healer -> SUBSET (Msg \X Order)]
  BY DEF Init, Phase
<1> QED BY <1>2, <1>3 DEF Init, TypeOK, Stage

LEMMA StepType == TypeOK /\ [Next]_vars => TypeOK'
<1> SUFFICES ASSUME TypeOK, [Next]_vars PROVE TypeOK'
  OBVIOUS
<1>1. CASE \E m \in Msg : Send(m) \/ Agent(m) \/ Clock(m)
  BY <1>1, AgentType, ClockType
<1>2. CASE Freeze
  BY <1>2 DEF Freeze, TypeOK, row, tick, healer
<1>3. CASE Polls \/ TickDies
  BY <1>3, PollerType
<1>4. CASE Janitor \/ WatcherCheck \/ Watches \/ StaleCheck
  BY <1>4, JanitorType, WatcherType, StaleCheckType
<1>5. CASE \E h \in Healer : Aborts(h)
  BY <1>5, SharedType
<1>6. CASE \E k \in Stamp : Expire(k)
  BY <1>6 DEF Expire, TypeOK, row, agent, tick, healer
<1>7. CASE UNCHANGED vars
  BY <1>7 DEF vars, TypeOK, row, agent, tick, healer
<1> QED BY <1>1, <1>2, <1>3, <1>4, <1>5, <1>6, <1>7 DEF Next

\* TypeOK holds in every reachable state: every column, plan and stamp of a row's
\* delivery keeps its type.
THEOREM DeliveryTypeCorrect == Spec => []TypeOK
<1> QED BY InitType, StepType, PTL DEF Spec
-----------------------------------------------------------------------------
(* Where nothing hands an ended row out again: neither Pass 8 nor the       *)
(* recovery of gcg-inbox-stale-check runs.                                 *)

Guarded == "pass8" \notin Practices /\ "recovery" \notin Practices

\* Neither of the two requeues is ever reached.
NoRequeue ==
  /\ stage \notin {"wedge", "requeue"}
  /\ ~suspect
  /\ phase["stale-check"] \notin {"wedge", "requeue"}

\* A file that stale-check is about to remove belongs to an ended row.
RemovesEnded ==
  \A m \in Msg : <<m, "rm">> \in plan["stale-check"] => status[m] \in Terminal

NoFileLost == TypeOK /\ NoRequeue /\ RemovesEnded /\ WorkHasFile

\* No step brings an ended row back.
KeepsEnded == \A m \in Msg : status[m] \in Terminal => status'[m] \in Terminal

LEMMA NoRequeueInit == Init => NoRequeue
BY DEF Init, NoRequeue, Healer

\* The phase of stale-check is moved by its own actions only.
LEMMA OtherPhase ==
  ASSUME TypeOK, NEW h \in {"janitor", "watcher"}, NEW p, Move(h, p)
  PROVE  phase'["stale-check"] = phase["stale-check"]
BY DEF TypeOK, Move, Healer

LEMMA OwnPhase ==
  ASSUME TypeOK, NEW p, Move("stale-check", p)
  PROVE  phase'["stale-check"] = p
BY DEF TypeOK, Move, Healer

LEMMA NoRequeueStep ==
  ASSUME Guarded, TypeOK, NoRequeue, [Next]_vars
  PROVE  NoRequeue'
<1> USE DEF NoRequeue, agent, tick, healer, row
<1>1. CASE \E m \in Msg : Send(m) \/ Agent(m) \/ Clock(m)
  BY <1>1 DEF Send, Agent, Start, Skip, Ack, Cancel, Remove, Finish,
              Clock, ClaimAges, WorkAges, RowAges
<1>2. CASE Freeze
  BY <1>2 DEF Freeze
<1>3. CASE Polls \/ TickDies
  BY <1>3 DEF Guarded, Polls, Classify, GiveUp, Claim, Repoke, Examine, Wake, WedgeRestart,
              WedgeRestartFails, WedgeRequeue, WriteFile, TickDies, NoTick
<1>4. CASE Janitor \/ WatcherCheck \/ Watches
  <2>1. ~suspect' /\ stage' \notin {"wedge", "requeue"}
    <3>1. CASE JanitorRestart \/ WatcherRestart
      BY <3>1 DEF JanitorRestart, WatcherRestart, MayRestart, Restart, NoTick
    <3>2. CASE JanitorStale \/ JanitorStuck \/ WatcherCheck \/ WatcherScan
      BY <3>2 DEF JanitorStale, JanitorStuck, WatcherCheck, WatcherScan
    <3>3. CASE \E h, p : Ends(h, p)
      BY <3>3 DEF Ends
    <3>4. CASE \E h, m, guard, s, r : Apply(h, m, guard, s, r)
      BY <3>4 DEF Apply
    <3> QED BY <1>4, <3>1, <3>2, <3>3, <3>4
            DEF Janitor, Watches, JanitorStaleRow, JanitorStuckRow, WatcherRow
  <2>2. phase'["stale-check"] = phase["stale-check"]
    BY <1>4, OtherPhase
       DEF Janitor, JanitorStale, JanitorStuck, JanitorRestart, JanitorStaleRow,
           JanitorStuckRow, Watches, WatcherCheck, WatcherRestart, WatcherScan,
           WatcherRow, Apply, Ends, MayRestart
  <2> QED BY <2>1, <2>2
<1>5. CASE StaleCheck
  <2>1. CASE StaleBegin
    BY <2>1, OwnPhase DEF StaleBegin, Guarded
  <2>2. CASE \E m \in Msg : StaleWrite(m) \/ StaleRemove(m)
    BY <2>2 DEF StaleWrite, StaleRemove
  <2>3. CASE StaleList
    BY <2>3, OwnPhase DEF StaleList
  <2>4. CASE StaleScan
    BY <2>4, OwnPhase DEF StaleScan
  <2>5. CASE StaleRestart \/ StaleRequeue
    BY <2>5 DEF StaleRestart, StaleRequeue, At
  <2> QED BY <1>5, <2>1, <2>2, <2>3, <2>4, <2>5 DEF StaleCheck
<1>6. CASE \E h \in Healer : Aborts(h)
  <2>1. PICK h \in Healer : Aborts(h)
    BY <1>6
  <2>2. ~suspect' /\ stage' = stage
    BY <2>1 DEF Aborts
  <2>3. phase'["stale-check"] \in {phase["stale-check"], "idle"}
    BY <2>1, OtherPhase, OwnPhase DEF Aborts, Healer
  <2> QED BY <2>2, <2>3
<1>7. CASE \E k \in Stamp : Expire(k)
  BY <1>7 DEF Expire
<1>8. CASE UNCHANGED vars
  BY <1>8 DEF vars
<1> QED BY <1>1, <1>2, <1>3, <1>4, <1>5, <1>6, <1>7, <1>8 DEF Next

LEMMA SetKeeps ==
  ASSUME TypeOK, NEW S, NEW s
  PROVE  \A m \in Msg : Set(status, S, s)[m] = IF m \in S THEN s ELSE status[m]
BY DEF Set

LEMMA ApplyKeeps ==
  ASSUME TypeOK, NEW h, NEW m \in Msg, NEW guard, NEW s \in Terminal, NEW restarted,
         guard \intersect Terminal = {}, Apply(h, m, guard, s, restarted)
  PROVE  KeepsEnded
BY SetKeeps DEF Apply, KeepsEnded

LEMMA StepKeepsEnded ==
  ASSUME TypeOK, NoRequeue, [Next]_vars
  PROVE  KeepsEnded
<1> USE SetKeeps DEF KeepsEnded, Terminal, Claimed, Waiting
<1>1. CASE \E m \in Msg : Send(m) \/ Agent(m) \/ Clock(m)
  <2> PICK m \in Msg : Send(m) \/ Agent(m) \/ Clock(m)
    BY <1>1
  <2>1. CASE Send(m)
    BY <2>1 DEF Send
  <2>2. CASE Start(m)
    BY <2>2 DEF Start
  <2>3. CASE Skip(m) \/ Remove(m)
    BY <2>3 DEF Skip, Remove, row
  <2>4. CASE Ack(m)
    BY <2>4 DEF Ack
  <2>5. CASE Cancel(m)
    BY <2>5 DEF Cancel
  <2>6. CASE \E s \in {"done", "failed"} : Finish(m, s)
    BY <2>6 DEF Finish
  <2>7. CASE Clock(m)
    BY <2>7 DEF Clock, ClaimAges, WorkAges, RowAges
  <2> QED BY <2>1, <2>2, <2>3, <2>4, <2>5, <2>6, <2>7 DEF Agent
<1>2. CASE Freeze \/ TickDies \/ WatcherCheck \/ \E k \in Stamp : Expire(k)
  BY <1>2 DEF Freeze, TickDies, WatcherCheck, Expire, row
<1>3. CASE Polls
  <2>1. CASE Classify \/ GiveUp
    <3>1. \A m \in Msg : status'[m] \in {status[m], "done", "failed"}
      BY <2>1 DEF Classify, GiveUp, Set
    <3> QED BY <3>1 DEF Terminal
  <2>2. CASE Claim
    BY <2>2 DEF Claim, With
  <2>3. CASE WedgeRequeue
    BY <2>3 DEF WedgeRequeue, NoRequeue
  <2>4. CASE Repoke \/ Examine \/ Wake \/ WedgeRestart \/ WedgeRestartFails
             \/ \E m \in Msg : WriteFile(m)
    BY <2>4 DEF Repoke, Examine, Wake, WedgeRestart, WedgeRestartFails, WriteFile, row
  <2> QED BY <1>3, <2>1, <2>2, <2>3, <2>4 DEF Polls
<1>4. CASE Janitor
  <2>1. CASE JanitorStale \/ JanitorStuck \/ JanitorRestart \/ Ends("janitor", "reset")
    BY <2>1 DEF JanitorStale, JanitorStuck, JanitorRestart, Ends, MayRestart, row
  <2>2. CASE \E m \in Msg : JanitorStaleRow(m)
    <3>1. PICK m \in Msg : Apply("janitor", m, Waiting, "cancelled", FALSE)
      BY <2>2 DEF JanitorStaleRow
    <3>2. Waiting \intersect Terminal = {} /\ "cancelled" \in Terminal
      OBVIOUS
    <3> HIDE DEF Waiting, Terminal, KeepsEnded
    <3> QED BY <3>1, <3>2, ApplyKeeps
  <2>3. CASE \E m \in Msg : JanitorStuckRow(m)
    <3>1. PICK m \in Msg : Apply("janitor", m, {"in_progress"}, "failed", TRUE)
      BY <2>3 DEF JanitorStuckRow
    <3>2. {"in_progress"} \intersect Terminal = {} /\ "failed" \in Terminal
      OBVIOUS
    <3> HIDE DEF Terminal, KeepsEnded
    <3> QED BY <3>1, <3>2, ApplyKeeps
  <2> QED BY <1>4, <2>1, <2>2, <2>3 DEF Janitor
<1>5. CASE Watches
  <2>1. CASE WatcherRestart \/ WatcherScan \/ Ends("watcher", "reset")
    BY <2>1 DEF WatcherRestart, WatcherScan, Ends, MayRestart, row
  <2>2. CASE \E m \in Msg : WatcherRow(m)
    <3>1. PICK m \in Msg : Apply("watcher", m, Claimed, "failed", TRUE)
      BY <2>2 DEF WatcherRow
    <3>2. Claimed \intersect Terminal = {} /\ "failed" \in Terminal
      OBVIOUS
    <3> HIDE DEF Claimed, Terminal, KeepsEnded
    <3> QED BY <3>1, <3>2, ApplyKeeps
  <2> QED BY <1>5, <2>1, <2>2 DEF Watches
<1>6. CASE StaleCheck
  BY <1>6 DEF StaleCheck, StaleBegin, StaleWrite, StaleList, StaleRemove, StaleScan,
              StaleRestart, StaleRequeue, NoRequeue, At, row
<1>7. CASE \E h \in Healer : Aborts(h)
  BY <1>7 DEF Aborts, row
<1>8. CASE UNCHANGED vars
  BY <1>8 DEF vars, row
<1> QED BY <1>1, <1>2, <1>3, <1>4, <1>5, <1>6, <1>7, <1>8 DEF Next

\* EndedStaysEnded holds where Pass 8 and the recovery of stale-check are off:
\* every other writer of a row that may have ended meanwhile asks for its status.
THEOREM EndedRowsStay ==
  ASSUME Guarded
  PROVE  Spec => EndedStaysEnded
<1>1. TypeOK /\ NoRequeue /\ [Next]_vars => (TypeOK /\ NoRequeue)'
  BY StepType, NoRequeueStep
<1>2. TypeOK /\ NoRequeue /\ [Next]_vars
        => [\A m \in Msg : status[m] \in Terminal => status'[m] \in Terminal]_status
  BY StepKeepsEnded DEF KeepsEnded
<1> QED BY <1>1, <1>2, InitType, NoRequeueInit, PTL DEF Spec, EndedStaysEnded

LEMMA OtherPlan ==
  ASSUME TypeOK, NEW h \in {"janitor", "watcher"}, NEW S,
         Decide(h, S) \/ Tick(h, S)
  PROVE  plan'["stale-check"] = plan["stale-check"]
BY DEF TypeOK, Decide, Tick, Healer

LEMMA OwnPlan ==
  ASSUME TypeOK, NEW S
  PROVE  /\ Decide("stale-check", S) => plan'["stale-check"] = S
         /\ Tick("stale-check", S) => plan'["stale-check"] = plan["stale-check"] \ {S}
BY DEF TypeOK, Decide, Tick, Healer

\* What stale-check is going to remove was on its list or has ended by now.
LEMMA ListedRemovals ==
  ASSUME TypeOK, [Next]_vars
  PROVE  \A m \in Msg : <<m, "rm">> \in plan'["stale-check"] =>
           <<m, "rm">> \in plan["stale-check"] \/ (status[m] \in Terminal /\ StaleList)
<1>1. CASE plan' = plan
  BY <1>1
<1>2. CASE Janitor \/ Watches
  <2>1. CASE \E h \in {"janitor", "watcher"} : \E S : Decide(h, S) \/ Tick(h, S)
    BY <2>1, OtherPlan
  <2>2. CASE JanitorRestart \/ WatcherRestart \/ \E h, p : Ends(h, p)
    BY <2>2 DEF JanitorRestart, WatcherRestart, MayRestart, Ends
  <2>3. CASE JanitorStale \/ JanitorStuck \/ WatcherScan
    BY <2>3, <2>1 DEF JanitorStale, JanitorStuck, WatcherScan
  <2>4. CASE \E h \in {"janitor", "watcher"} : \E m, guard, s, r : Apply(h, m, guard, s, r)
    BY <2>4, <2>1 DEF Apply
  <2> QED BY <1>2, <2>2, <2>3, <2>4
          DEF Janitor, Watches, JanitorStaleRow, JanitorStuckRow, WatcherRow
<1>3. CASE StaleCheck
  <2>1. CASE StaleBegin
    BY <2>1, OwnPlan DEF StaleBegin
  <2>2. CASE \E m \in Msg : StaleWrite(m) \/ StaleRemove(m)
    BY <2>2, OwnPlan DEF StaleWrite, StaleRemove
  <2>3. CASE StaleList
    BY <2>3, OwnPlan DEF StaleList, With
  <2>4. CASE StaleScan
    BY <2>4, OwnPlan DEF StaleScan
  <2>5. CASE StaleRestart \/ StaleRequeue
    BY <2>5, OwnPlan DEF StaleRestart, StaleRequeue
  <2> QED BY <1>3, <2>1, <2>2, <2>3, <2>4, <2>5 DEF StaleCheck
<1>4. CASE \E h \in Healer : Aborts(h)
  BY <1>4, OtherPlan, OwnPlan DEF Aborts, Healer
<1>5. CASE Polls \/ TickDies \/ Freeze \/ WatcherCheck \/ \E k \in Stamp : Expire(k)
  BY <1>5, <1>1 DEF Polls, Classify, GiveUp, Claim, Repoke, Examine, Wake, WedgeRestart,
     WedgeRestartFails, WedgeRequeue, WriteFile, TickDies, Freeze, WatcherCheck, Expire, healer
<1>6. CASE \E m \in Msg : Send(m) \/ Agent(m) \/ Clock(m)
  BY <1>6, <1>1 DEF Send, Agent, Start, Skip, Ack, Cancel, Remove, Finish,
     Clock, ClaimAges, WorkAges, RowAges, healer
<1>7. CASE UNCHANGED vars
  BY <1>7, <1>1 DEF vars, healer
<1> QED BY <1>2, <1>3, <1>4, <1>5, <1>6, <1>7 DEF Next

\* Work starts where there is a file, and a file goes only where there is no work
\* or stale-check had it on its list.
LEMMA FilesOfWork ==
  ASSUME TypeOK, [Next]_vars, NEW m \in working', m \notin file'
  PROVE  m \in working /\ (m \in file => <<m, "rm">> \in plan["stale-check"])
<1>1. CASE \E x \in Msg : Send(x) \/ Agent(x) \/ Clock(x)
  BY <1>1 DEF Send, Agent, Start, Skip, Ack, Cancel, Remove, Finish,
     Clock, ClaimAges, WorkAges, RowAges, agent
<1>2. CASE Freeze \/ Polls \/ TickDies \/ \E k \in Stamp : Expire(k)
  BY <1>2 DEF Freeze, Polls, Classify, GiveUp, Claim, Repoke, Examine, Wake, WedgeRestart,
     WedgeRestartFails, WedgeRequeue, WriteFile, TickDies, Expire, Restart, agent
<1>3. CASE Janitor \/ WatcherCheck \/ Watches
  <2>1. CASE JanitorRestart \/ WatcherRestart \/ \E h, p : Ends(h, p)
    BY <2>1 DEF JanitorRestart, WatcherRestart, MayRestart, Ends, Restart, agent
  <2>2. CASE JanitorStale \/ JanitorStuck \/ WatcherCheck \/ WatcherScan
    BY <2>2 DEF JanitorStale, JanitorStuck, WatcherCheck, WatcherScan, agent
  <2>3. CASE \E h, x, guard, s, r : Apply(h, x, guard, s, r)
    BY <2>3 DEF Apply, agent
  <2> QED BY <1>3, <2>1, <2>2, <2>3
          DEF Janitor, Watches, JanitorStaleRow, JanitorStuckRow, WatcherRow
<1>4. CASE StaleCheck
  BY <1>4 DEF StaleCheck, StaleBegin, StaleWrite, StaleList, StaleRemove, StaleScan,
     StaleRestart, StaleRequeue, Restart, agent
<1>5. CASE \E h \in Healer : Aborts(h)
  BY <1>5 DEF Aborts, agent
<1>6. CASE UNCHANGED vars
  BY <1>6 DEF vars, agent
<1> QED BY <1>1, <1>2, <1>3, <1>4, <1>5, <1>6 DEF Next

LEMMA NoFileLostInit == Init => NoFileLost
<1> SUFFICES ASSUME Init PROVE RemovesEnded /\ WorkHasFile
  BY InitType, NoRequeueInit DEF NoFileLost
<1> QED BY DEF Init, RemovesEnded, WorkHasFile, Healer

LEMMA NoFileLostStep ==
  ASSUME Guarded, NoFileLost, [Next]_vars
  PROVE  NoFileLost'
<1> USE DEF NoFileLost
<1>1. TypeOK' /\ NoRequeue' /\ KeepsEnded
  BY StepType, NoRequeueStep, StepKeepsEnded
<1>2. RemovesEnded'
  <2> SUFFICES ASSUME NEW m \in Msg, <<m, "rm">> \in plan'["stale-check"]
               PROVE  status'[m] \in Terminal
    BY DEF RemovesEnded, Terminal
  <2>1. status[m] \in Terminal
    BY ListedRemovals DEF RemovesEnded
  <2> QED BY <1>1, <2>1 DEF KeepsEnded
<1>3. WorkHasFile'
  <2> SUFFICES ASSUME NEW m \in working', status'[m] \notin Terminal, m \notin file'
               PROVE  FALSE
    BY DEF WorkHasFile, Terminal
  <2>1. m \in Msg
    BY <1>1 DEF TypeOK
  <2>2. status[m] \notin Terminal
    BY <1>1, <2>1 DEF KeepsEnded
  <2>3. m \in working /\ m \in file
    BY <2>2, FilesOfWork DEF WorkHasFile
  <2>4. <<m, "rm">> \in plan["stale-check"]
    BY <2>3, FilesOfWork
  <2> QED BY <2>1, <2>2, <2>4 DEF RemovesEnded
<1> QED BY <1>1, <1>2, <1>3

\* WorkHasFile holds where Pass 8 and the recovery of stale-check are off: a file
\* is removed only once its row has ended, and an ended row stays ended.
THEOREM WorkKeepsItsFile ==
  ASSUME Guarded
  PROVE  Spec => []WorkHasFile
<1>1. NoFileLost => WorkHasFile
  BY DEF NoFileLost
<1> QED BY <1>1, NoFileLostInit, NoFileLostStep, PTL DEF Spec
-----------------------------------------------------------------------------
(* Deliveries are bounded, whatever is practised.                          *)

\* How often a row will have been handed out once what is pending is claimed.
Handed(m) == count[m] + (IF status[m] \in {"absent", "pending"} THEN 1 ELSE 0)

ToReset(h, m) == <<m, "reset">> \in plan[h]

\* A reset adds two.  What a healer has decided to reset was within its limit when
\* read; meanwhile the other healer may reset it once, and not again, because
\* neither age it would ask for is reached in the middle of a run.
HandedFor(m) ==
  /\ Handed(m) <= MaxCount
  /\ ToReset("janitor", m) =>
       /\ "janitor" \in Healers /\ phase["janitor"] # "idle"
       /\ Handed(m) <= 5
       /\ phase["janitor"] = "stale" => begun[m] # "stuck"
  /\ ToReset("watcher", m) =>
       /\ phase["watcher"] = "reset"
       /\ \/ Handed(m) <= 2
          \/ /\ "janitor" \in Healers /\ ~ToReset("janitor", m)
             /\ Handed(m) <= 4
             /\ claimed[m] \in {"none", "fresh", "due"} /\ begun[m] # "stuck"

HandedInv == TypeOK /\ \A m \in Msg : HandedFor(m)

\* What a step does to a row that it neither resets, ages nor decides about.
Calm(m) ==
  /\ Handed(m)' <= Handed(m) \/ Handed(m)' <= 1
  /\ begun'[m] = begun[m] \/ begun'[m] # "stuck"
  /\ claimed'[m] = claimed[m] \/ claimed'[m] \in {"none", "fresh", "due"}
  /\ \A h \in {"janitor", "watcher"} :
       ToReset(h, m)' => ToReset(h, m) /\ phase'[h] = phase[h]

LEMMA CalmKeeps ==
  ASSUME TypeOK, TypeOK', NEW m \in Msg, HandedFor(m), Calm(m)
  PROVE  HandedFor(m)'
<1> DEFINE b == Handed(m)
           a == Handed(m)'
<1>1. a \in Nat /\ b \in Nat
  BY DEF TypeOK, Handed
<1>2. MaxCount \in {4, 7} /\ MaxCount' = MaxCount
  BY DEF MaxCount
<1>3. (a <= b \/ a <= 1) /\ b <= MaxCount
  BY DEF Calm, HandedFor
<1> HIDE DEF a, b
<1>4. a <= MaxCount
  BY <1>1, <1>2, <1>3
<1>5. ToReset("janitor", m)' => /\ "janitor" \in Healers /\ phase'["janitor"] # "idle"
                                /\ a <= 5
                                /\ phase'["janitor"] = "stale" => begun'[m] # "stuck"
  <2>1. ToReset("janitor", m) => b <= 5
    BY DEF HandedFor, b
  <2> QED BY <1>1, <1>3, <2>1 DEF Calm, HandedFor
<1>6. ToReset("watcher", m)' =>
        /\ phase'["watcher"] = "reset"
        /\ \/ a <= 2
           \/ /\ "janitor" \in Healers /\ ~ToReset("janitor", m)'
              /\ a <= 4
              /\ claimed'[m] \in {"none", "fresh", "due"} /\ begun'[m] # "stuck"
  <2> SUFFICES ASSUME ToReset("watcher", m)'
               PROVE  /\ phase'["watcher"] = "reset"
                      /\ \/ a <= 2
                         \/ /\ "janitor" \in Healers /\ ~ToReset("janitor", m)'
                            /\ a <= 4
                            /\ claimed'[m] \in {"none", "fresh", "due"} /\ begun'[m] # "stuck"
    OBVIOUS
  <2>1. ToReset("watcher", m) /\ phase'["watcher"] = phase["watcher"]
    BY DEF Calm
  <2>2. \/ b <= 2
        \/ /\ "janitor" \in Healers /\ ~ToReset("janitor", m) /\ b <= 4
           /\ claimed[m] \in {"none", "fresh", "due"} /\ begun[m] # "stuck"
    BY <2>1 DEF HandedFor, b
  <2>3. phase["watcher"] = "reset"
    BY <2>1 DEF HandedFor
  <2>4. CASE b <= 2
    BY <1>1, <1>3, <2>1, <2>3, <2>4
  <2>5. CASE b > 2
    <3>1. a <= 4
      BY <1>1, <1>3, <2>2, <2>5
    <3>2. /\ "janitor" \in Healers /\ ~ToReset("janitor", m)
          /\ claimed[m] \in {"none", "fresh", "due"} /\ begun[m] # "stuck"
      BY <1>1, <2>2, <2>5
    <3>3. ~ToReset("janitor", m)' /\ claimed'[m] \in {"none", "fresh", "due"} /\ begun'[m] # "stuck"
      BY <3>2 DEF Calm
    <3> QED BY <2>1, <2>3, <3>1, <3>2, <3>3
  <2> QED BY <1>1, <2>4, <2>5
<1> QED BY <1>2, <1>4, <1>5, <1>6 DEF HandedFor, a

\* The columns of a row after Set.
LEMMA SetRow ==
  ASSUME TypeOK
  PROVE  \A S, v : \A m \in Msg :
           /\ Set(status, S, v)[m] = IF m \in S THEN v ELSE status[m]
           /\ Set(count, S, v)[m] = IF m \in S THEN v ELSE count[m]
           /\ Set(claimed, S, v)[m] = IF m \in S THEN v ELSE claimed[m]
           /\ Set(begun, S, v)[m] = IF m \in S THEN v ELSE begun[m]
BY DEF Set, TypeOK

LEMMA HandedInit == Init => HandedInv
<1> SUFFICES ASSUME Init, NEW m \in Msg PROVE HandedFor(m)
  BY InitType DEF HandedInv
<1>1. plan["janitor"] = {} /\ plan["watcher"] = {}
  BY DEF Init, Healer
<1>2. Handed(m) = 1
  BY DEF Init, Handed
<1> QED BY <1>1, <1>2 DEF HandedFor, ToReset, MaxCount

\* A healer's run moves its own phase and plan.
LEMMA OwnRun ==
  ASSUME TypeOK, NEW h \in Healer, NEW g \in Healer
  PROVE  /\ \A p : Move(h, p) => phase'[g] = IF g = h THEN p ELSE phase[g]
         /\ \A S : Decide(h, S) => plan'[g] = IF g = h THEN S ELSE plan[g]
         /\ \A e : Tick(h, e) => plan'[g] = IF g = h THEN plan[g] \ {e} ELSE plan[g]
BY DEF TypeOK, Move, Decide, Tick

LEMMA AgentCalm ==
  ASSUME TypeOK, NEW m \in Msg, NEW x \in Msg, Send(x) \/ Agent(x) \/ Freeze
  PROVE  Calm(m)
<1> USE SetRow DEF Calm, Handed, ToReset, row, healer
<1>1. count[m] \in Nat
  BY DEF TypeOK
<1>2. CASE Send(x)
  BY <1>1, <1>2 DEF Send
<1>3. CASE Start(x)
  BY <1>1, <1>3 DEF Start
<1>4. CASE Skip(x) \/ Remove(x) \/ Freeze
  BY <1>1, <1>4 DEF Skip, Remove, Freeze
<1>5. CASE Ack(x)
  BY <1>1, <1>5 DEF Ack
<1>6. CASE Cancel(x)
  BY <1>1, <1>6 DEF Cancel
<1>7. CASE \E s \in {"done", "failed"} : Finish(x, s)
  BY <1>1, <1>7 DEF Finish
<1> QED BY <1>2, <1>3, <1>4, <1>5, <1>6, <1>7 DEF Agent

LEMMA PollerCalm ==
  ASSUME TypeOK, NEW m \in Msg, Polls \/ TickDies
  PROVE  Calm(m)
<1> USE DEF Calm, Handed, ToReset, row, healer
<1>1. count[m] \in Nat
  BY DEF TypeOK
<1>2. CASE Classify \/ GiveUp
  <2>1. status'[m] \in {status[m], "done", "failed"}
    BY <1>2 DEF Classify, GiveUp, Set
  <2> QED BY <1>1, <1>2, <2>1 DEF Classify, GiveUp
<1>3. CASE Claim
  BY <1>1, <1>3, SetRow DEF Claim, With
<1>4. CASE Repoke
  BY <1>1, <1>4, SetRow DEF Repoke
<1>5. CASE WedgeRequeue
  BY <1>1, <1>5, SetRow DEF WedgeRequeue
<1>6. CASE Examine \/ Wake \/ WedgeRestart \/ WedgeRestartFails \/ TickDies
           \/ \E x \in Msg : WriteFile(x)
  BY <1>1, <1>6 DEF Examine, Wake, WedgeRestart, WedgeRestartFails, TickDies, WriteFile
<1> QED BY <1>2, <1>3, <1>4, <1>5, <1>6 DEF Polls

LEMMA StaleCheckCalm ==
  ASSUME TypeOK, NEW m \in Msg, StaleCheck
  PROVE  Calm(m)
<1>1. \A h \in {"janitor", "watcher"} : plan'[h] = plan[h] /\ phase'[h] = phase[h]
  BY OwnRun DEF StaleCheck, StaleBegin, StaleWrite, StaleList, StaleRemove, StaleScan,
     StaleRestart, StaleRequeue, Healer
<1>2. Handed(m)' <= Handed(m) \/ Handed(m)' <= 1
  <2>1. count[m] \in Nat
    BY DEF TypeOK
  <2>2. CASE StaleRequeue
    BY <2>1, <2>2, SetRow DEF StaleRequeue, Handed
  <2>3. CASE UNCHANGED row
    BY <2>1, <2>3 DEF Handed, row
  <2> QED BY <2>2, <2>3 DEF StaleCheck, StaleBegin, StaleWrite, StaleList, StaleRemove,
             StaleScan, StaleRestart, row
<1>3. begun' = begun /\ claimed' = claimed
  BY DEF StaleCheck, StaleBegin, StaleWrite, StaleList, StaleRemove, StaleScan,
     StaleRestart, StaleRequeue, row
<1> QED BY <1>1, <1>2, <1>3 DEF Calm, ToReset

\* A healer's UPDATE leaves a row calm, or resets one it had decided to reset.
LEMMA ApplyHanded ==
  ASSUME TypeOK, NEW h \in {"janitor", "watcher"}, NEW x \in Msg, NEW guard \in SUBSET Claimed,
         NEW s \in Terminal, NEW restarted \in BOOLEAN, Apply(h, x, guard, s, restarted),
         NEW m \in Msg
  PROVE  \/ Calm(m)
         \/ /\ ToReset(h, m) /\ ~ToReset(h, m)'
            /\ Handed(m)' = Handed(m) + 2
            /\ claimed'[m] = "none"
            /\ begun'[m] = IF restarted THEN "none" ELSE begun[m]
            /\ \A g \in {"janitor", "watcher"} \ {h} : ToReset(g, m)' => ToReset(g, m)
            /\ phase' = phase
<1> USE SetRow DEF Terminal, Claimed, Waiting
<1>1. PICK order \in {"end", "reset"} :
        /\ <<x, order>> \in plan[h]
        /\ Tick(h, <<x, order>>)
        /\ IF status[x] \notin guard
             THEN UNCHANGED <<status, claimed, begun, count>>
           ELSE IF order = "end"
             THEN status' = Set(status, {x}, s) /\ UNCHANGED <<claimed, begun, count>>
             ELSE /\ status' = Set(status, {x}, "pending")
                  /\ claimed' = Set(claimed, {x}, "none")
                  /\ begun' = IF restarted THEN Set(begun, {x}, "none") ELSE begun
                  /\ count' = [count EXCEPT ![x] = @ + 1]
  BY DEF Apply
<1>2. phase' = phase
  BY DEF Apply
<1>3. \A g \in {"janitor", "watcher"} :
        plan'[g] = IF g = h THEN plan[g] \ {<<x, order>>} ELSE plan[g]
  <2>1. Tick(h, <<x, order>>)
    BY <1>1
  <2> QED BY <2>1 DEF Tick, TypeOK, Healer
<1>4. \A g \in {"janitor", "watcher"} : ToReset(g, m)' => ToReset(g, m)
  BY <1>3 DEF ToReset
<1>5. count[m] \in Nat
  BY DEF TypeOK
<1>6. CASE status[x] \notin guard
  BY <1>1, <1>2, <1>4, <1>5, <1>6 DEF Calm, Handed
<1>7. CASE status[x] \in guard /\ order = "end"
  BY <1>1, <1>2, <1>4, <1>5, <1>7 DEF Calm, Handed
<1>8. CASE status[x] \in guard /\ order = "reset" /\ m # x
  <2>1. status'[m] = status[m] /\ claimed'[m] = claimed[m] /\ begun'[m] = begun[m]
    BY <1>1, <1>8
  <2>2. count'[m] = count[m]
    BY <1>1, <1>8 DEF TypeOK
  <2> QED BY <1>2, <1>4, <1>5, <2>1, <2>2 DEF Calm, Handed
<1>9. CASE status[x] \in guard /\ order = "reset" /\ m = x
  <2>1. Handed(m)' = Handed(m) + 2
    <3>1. status' = Set(status, {m}, "pending") /\ status[m] \in Claimed
      BY <1>1, <1>9
    <3>3. status'[m] = "pending"
      BY <3>1 DEF Set
    <3>2. count'[m] = count[m] + 1
      BY <1>1, <1>9 DEF TypeOK
    <3> QED BY <1>5, <3>1, <3>2, <3>3 DEF Handed
  <2>2. ToReset(h, m) /\ ~ToReset(h, m)'
    BY <1>1, <1>3, <1>9 DEF ToReset
  <2>3. claimed'[m] = "none" /\ begun'[m] = IF restarted THEN "none" ELSE begun[m]
    BY <1>1, <1>9
  <2> QED BY <1>2, <1>4, <2>1, <2>2, <2>3
<1> QED BY <1>1, <1>6, <1>7, <1>8, <1>9

\* A healer that begins, restarts, ends or is ended decides on no row; what it
\* had decided before is kept or dropped.
LEMMA RunCalm ==
  ASSUME TypeOK, NEW m \in Msg, HandedFor(m),
         \/ WatcherCheck \/ WatcherRestart
         \/ \E h \in {"janitor", "watcher"} : Ends(h, "reset")
         \/ \E h \in Healer : Aborts(h)
         \/ \E k \in Stamp : Expire(k)
         \/ UNCHANGED vars
  PROVE  Calm(m)
<1>1. Handed(m)' <= Handed(m) /\ begun' = begun /\ claimed' = claimed
  <2>1. UNCHANGED row
    BY DEF WatcherCheck, WatcherRestart, MayRestart, Ends, Aborts, Expire, vars, row
  <2>2. count[m] \in Nat
    BY DEF TypeOK
  <2> QED BY <2>1, <2>2 DEF Handed, row
<1>2. ASSUME NEW h \in {"janitor", "watcher"}, ToReset(h, m)'
      PROVE  ToReset(h, m) /\ phase'[h] = phase[h]
  <2>1. CASE WatcherCheck \/ WatcherRestart
    <3>1. plan' = plan /\ phase["watcher"] # "reset"
      BY <2>1 DEF WatcherCheck, WatcherRestart, MayRestart, At
    <3>2. ToReset(h, m) /\ h = "janitor"
      BY <1>2, <3>1 DEF ToReset, HandedFor
    <3>3. \E p : Move("watcher", p)
      BY <2>1 DEF WatcherCheck, WatcherRestart, MayRestart
    <3> QED BY <3>2, <3>3, OwnRun DEF Healer
  <2>2. CASE \E g \in {"janitor", "watcher"} : Ends(g, "reset")
    <3>1. PICK g \in {"janitor", "watcher"} : Ends(g, "reset")
      BY <2>2
    <3>2. plan' = plan /\ plan[g] = {} /\ Move(g, "idle")
      BY <3>1 DEF Ends
    <3>3. ToReset(h, m) /\ h # g
      BY <1>2, <3>2 DEF ToReset
    <3> QED BY <3>2, <3>3, OwnRun DEF Healer
  <2>3. CASE \E g \in Healer : Aborts(g)
    <3>1. PICK g \in Healer : Aborts(g)
      BY <2>3
    <3>2. Decide(g, {}) /\ Move(g, "idle")
      BY <3>1 DEF Aborts
    <3>3. plan'[h] = IF h = g THEN {} ELSE plan[h]
      BY <3>2, OwnRun DEF Healer
    <3>4. ToReset(h, m) /\ h # g
      BY <1>2, <3>3 DEF ToReset
    <3> QED BY <3>2, <3>4, OwnRun DEF Healer
  <2>4. CASE (\E k \in Stamp : Expire(k)) \/ UNCHANGED vars
    BY <1>2, <2>4 DEF Expire, vars, healer, ToReset
  <2> QED BY <2>1, <2>2, <2>3, <2>4
<1>3. Handed(m)' <= Handed(m) \/ Handed(m)' <= 1
  BY <1>1
<1> QED BY <1>1, <1>2, <1>3 DEF Calm

\* In the middle of a run nothing ages but a fresh claim.
LEMMA ClockHanded ==
  ASSUME TypeOK, TypeOK', NEW m \in Msg, HandedFor(m), NEW x \in Msg, Clock(x)
  PROVE  HandedFor(m)'
<1>1. Handed(m)' = Handed(m) /\ plan' = plan /\ phase' = phase
  BY DEF Clock, ClaimAges, WorkAges, RowAges, Handed, healer
<1>2. CASE NoRun
  <2>1. \A h \in {"janitor", "watcher"} : ~ToReset(h, m)
    BY <1>2 DEF NoRun, HandedFor, Healer
  <2>2. \A h \in {"janitor", "watcher"} : ~ToReset(h, m)'
    BY <1>1, <2>1 DEF ToReset
  <2> QED BY <1>1, <2>2 DEF HandedFor, MaxCount
<1>3. CASE ~NoRun
  <2>1. begun' = begun
    BY <1>3 DEF Clock, ClaimAges, WorkAges, RowAges
  <2>2. claimed'[m] = claimed[m] \/ claimed'[m] \in {"none", "fresh", "due"}
    <3>1. CASE ClaimAges(x)
      <4>1. claimed[x] = "fresh" /\ claimed' = Set(claimed, {x}, NextAge("fresh"))
        BY <1>3, <3>1 DEF ClaimAges
      <4>2. NextAge("fresh") = "due"
        <5> DEFINE i == CHOOSE i \in 1..4 : Ages[i] = "fresh"
        <5>1. Ages[1] = "fresh" /\ 1 \in 1..4
          BY DEF Ages
        <5>2. i \in 1..4 /\ Ages[i] = "fresh"
          BY <5>1
        <5>3. NextAge("fresh") = Ages[1 + i]
          BY DEF NextAge
        <5> HIDE DEF i
        <5>4. i = 1
          <6>1. i = 1 \/ i = 2 \/ i = 3 \/ i = 4
            BY <5>2
          <6> QED BY <5>2, <6>1 DEF Ages
        <5> QED BY <5>3, <5>4 DEF Ages
      <4> QED BY <4>1, <4>2, SetRow
    <3>2. CASE WorkAges(x) \/ RowAges(x)
      BY <3>2 DEF WorkAges, RowAges
    <3> QED BY <3>1, <3>2 DEF Clock
  <2>3. Handed(m)' <= Handed(m)
    BY <1>1 DEF TypeOK, Handed
  <2>4. Calm(m)
    BY <1>1, <2>1, <2>2, <2>3 DEF Calm, ToReset
  <2> QED BY <2>4, CalmKeeps
<1> QED BY <1>2, <1>3

\* A row that is not pending has been handed out as often as it is counted.
LEMMA HandedClaimed ==
  ASSUME TypeOK, NEW m \in Msg, status[m] \in Claimed
  PROVE  Handed(m) = count[m] /\ Handed(m) \in Nat
BY DEF TypeOK, Handed, Claimed, Waiting

\* What is decided to be reset was within the limit.
LEMMA WithinLimit ==
  ASSUME TypeOK, NEW S \in SUBSET Msg, NEW limit \in Nat, NEW m \in Msg,
         <<m, "reset">> \in Verdicts(S, limit)
  PROVE  m \in S /\ count[m] < limit
BY DEF Verdicts, TypeOK

LEMMA JanitorHanded ==
  ASSUME TypeOK, TypeOK', NEW m \in Msg, HandedFor(m), Janitor
  PROVE  HandedFor(m)'
<1> DEFINE b == Handed(m)
           a == Handed(m)'
<1>0. a \in Nat /\ b \in Nat
  BY DEF TypeOK, Handed
<1>1. CASE JanitorStale \/ JanitorStuck
  <2>1. UNCHANGED row /\ "janitor" \in Healers
    BY <1>1 DEF JanitorStale, JanitorStuck, At
  <2>2. /\ a = b /\ begun' = begun /\ claimed' = claimed /\ MaxCount' = MaxCount
        /\ plan'["watcher"] = plan["watcher"] /\ phase'["watcher"] = phase["watcher"]
    BY <1>1, <2>1, OwnRun DEF JanitorStale, JanitorStuck, Healer, Handed, row, MaxCount
  <2>3. ASSUME ToReset("janitor", m)'
        PROVE  /\ phase'["janitor"] # "idle" /\ b <= 5
               /\ phase'["janitor"] = "stale" => begun[m] # "stuck"
               /\ claimed[m] = "stale" \/ begun[m] = "stuck"
    <3>1. CASE JanitorStale
      <4> DEFINE S == {n \in With(Waiting) \intersect Unstarted : claimed[n] = "stale"}
      <4>1. plan'["janitor"] = Verdicts(S, 6) /\ phase'["janitor"] = "stale"
        BY <3>1, OwnRun DEF JanitorStale, Healer
      <4>2. S \in SUBSET Msg /\ <<m, "reset">> \in Verdicts(S, 6)
        BY <2>3, <4>1 DEF ToReset, With
      <4>3. m \in S /\ count[m] < 6
        <5> HIDE DEF S
        <5> QED BY <4>2, WithinLimit
      <4>4. b = count[m]
        BY <4>3, HandedClaimed DEF With, Claimed
      <4> QED BY <4>1, <4>3, <4>4 DEF Unstarted, TypeOK
    <3>2. CASE JanitorStuck
      <4> DEFINE S == {n \in With({"in_progress"}) : begun[n] = "stuck"}
      <4>1. /\ plan'["janitor"] = Verdicts(S, 3)
            /\ phase'["janitor"] = IF S = {} THEN "idle" ELSE "restart"
        BY <3>2, OwnRun DEF JanitorStuck, Healer
      <4>2. S \in SUBSET Msg /\ <<m, "reset">> \in Verdicts(S, 3)
        BY <2>3, <4>1 DEF ToReset, With
      <4>3. m \in S /\ count[m] < 3
        <5> HIDE DEF S
        <5> QED BY <4>2, WithinLimit
      <4>4. b = count[m]
        BY <4>3, HandedClaimed DEF With, Claimed
      <4> QED BY <4>1, <4>3, <4>4 DEF TypeOK
    <3> QED BY <1>1, <3>1, <3>2
  <2>4. ToReset("watcher", m)' => ToReset("watcher", m)
    BY <2>2 DEF ToReset
  <2> HIDE DEF a, b
  <2>5. ToReset("watcher", m) =>
          /\ phase["watcher"] = "reset"
          /\ \/ b <= 2
             \/ /\ b <= 4
                /\ claimed[m] \in {"none", "fresh", "due"} /\ begun[m] # "stuck"
    BY DEF HandedFor, b
  <2>6. b <= MaxCount
    BY DEF HandedFor, b
  <2>7. ToReset("watcher", m)' =>
          b <= 2 \/ (~ToReset("janitor", m)' /\ b <= 4
                     /\ claimed[m] \in {"none", "fresh", "due"} /\ begun[m] # "stuck")
    BY <2>3, <2>4, <2>5
  <2>8. ToReset("watcher", m)' => phase'["watcher"] = "reset"
    BY <2>2, <2>4, <2>5
  <2>9. ToReset("watcher", m)' =>
          /\ phase'["watcher"] = "reset"
          /\ \/ a <= 2
             \/ /\ "janitor" \in Healers /\ ~ToReset("janitor", m)' /\ a <= 4
                /\ claimed'[m] \in {"none", "fresh", "due"} /\ begun'[m] # "stuck"
    BY <2>1, <2>2, <2>7, <2>8
  <2> QED BY <2>1, <2>2, <2>3, <2>6, <2>9 DEF HandedFor, a
<1>2. CASE JanitorRestart
  <2>1. UNCHANGED row /\ plan' = plan /\ Move("janitor", "reset")
    BY <1>2 DEF JanitorRestart, MayRestart
  <2>2. phase'["janitor"] = "reset" /\ phase'["watcher"] = phase["watcher"]
    BY <2>1, OwnRun DEF Healer
  <2>3. a = b
    BY <2>1 DEF Handed, row
  <2> QED BY <2>1, <2>2, <2>3 DEF HandedFor, ToReset, row, MaxCount
<1>3. CASE Ends("janitor", "reset")
  BY <1>3, RunCalm, CalmKeeps
<1>4. CASE \E x \in Msg : JanitorStaleRow(x) \/ JanitorStuckRow(x)
  <2>1. PICK x \in Msg, guard \in SUBSET Claimed, s \in Terminal, restarted \in BOOLEAN :
          /\ Apply("janitor", x, guard, s, restarted)
          /\ phase["janitor"] = "stale" \/ restarted
    <3>1. Waiting \in SUBSET Claimed /\ {"in_progress"} \in SUBSET Claimed
          /\ "cancelled" \in Terminal /\ "failed" \in Terminal
      BY DEF Claimed, Terminal
    <3> QED BY <1>4, <3>1 DEF JanitorStaleRow, JanitorStuckRow, At
  <2>2. CASE Calm(m)
    BY <2>2, CalmKeeps
  <2>3. CASE /\ ToReset("janitor", m) /\ ~ToReset("janitor", m)'
             /\ Handed(m)' = Handed(m) + 2
             /\ claimed'[m] = "none"
             /\ begun'[m] = IF restarted THEN "none" ELSE begun[m]
             /\ ToReset("watcher", m)' => ToReset("watcher", m)
             /\ phase' = phase
    <3>1. "janitor" \in Healers /\ b <= 5 /\ begun'[m] # "stuck"
      BY <2>1, <2>3 DEF HandedFor
    <3>2. MaxCount = 7 /\ MaxCount' = 7
      BY <3>1 DEF MaxCount
    <3>3. ToReset("watcher", m)' => phase'["watcher"] = "reset" /\ b <= 2
      BY <2>3 DEF HandedFor
    <3>4. a = b + 2
      BY <2>3
    <3> HIDE DEF a, b
    <3>5. a <= MaxCount' /\ (ToReset("watcher", m)' => a <= 4)
      BY <1>0, <3>1, <3>2, <3>3, <3>4
    <3> QED BY <2>3, <3>1, <3>3, <3>5 DEF HandedFor, a
  <2> QED BY <2>1, <2>2, <2>3, ApplyHanded
<1> QED BY <1>1, <1>2, <1>3, <1>4 DEF Janitor

LEMMA WatcherHanded ==
  ASSUME TypeOK, TypeOK', NEW m \in Msg, HandedFor(m), WatcherCheck \/ Watches
  PROVE  HandedFor(m)'
<1> DEFINE b == Handed(m)
           a == Handed(m)'
<1>0. a \in Nat /\ b \in Nat
  BY DEF TypeOK, Handed
<1>1. CASE WatcherScan
  <2> DEFINE S == With(Claimed) \intersect old
  <2>1. plan'["watcher"] = Verdicts(S, 3) /\ phase'["watcher"] = "reset"
    BY <1>1, OwnRun DEF WatcherScan, Healer
  <2>2. /\ UNCHANGED row /\ a = b /\ MaxCount' = MaxCount
        /\ plan'["janitor"] = plan["janitor"] /\ phase'["janitor"] = phase["janitor"]
    BY <1>1, OwnRun DEF WatcherScan, Healer, Handed, row, MaxCount
  <2>3. ASSUME ToReset("watcher", m)' PROVE b <= 2
    <3>1. S \in SUBSET Msg /\ <<m, "reset">> \in Verdicts(S, 3)
      BY <2>1, <2>3 DEF ToReset, With
    <3>2. m \in S /\ count[m] < 3
      <4> HIDE DEF S
      <4> QED BY <3>1, WithinLimit
    <3>3. b = count[m]
      BY <3>2, HandedClaimed DEF With
    <3> QED BY <3>2, <3>3 DEF TypeOK
  <2> HIDE DEF S
  <2> QED BY <2>1, <2>2, <2>3 DEF HandedFor, ToReset, row
<1>2. CASE WatcherCheck \/ WatcherRestart \/ Ends("watcher", "reset")
  BY <1>2, RunCalm, CalmKeeps
<1>3. CASE \E x \in Msg : WatcherRow(x)
  <2>1. PICK x \in Msg : Apply("watcher", x, Claimed, "failed", TRUE)
    BY <1>3 DEF WatcherRow
  <2>2. CASE Calm(m)
    BY <2>2, CalmKeeps
  <2>3. CASE /\ ToReset("watcher", m) /\ ~ToReset("watcher", m)'
             /\ Handed(m)' = Handed(m) + 2
             /\ begun'[m] = "none"
             /\ ToReset("janitor", m)' => ToReset("janitor", m)
             /\ phase' = phase
    <3>1. b <= 2 \/ ("janitor" \in Healers /\ ~ToReset("janitor", m) /\ b <= 4)
      BY <2>3 DEF HandedFor
    <3>2. MaxCount' = MaxCount /\ MaxCount = IF "janitor" \in Healers THEN 7 ELSE 4
      BY DEF MaxCount
    <3>3. a = b + 2
      BY <2>3
    <3>4. ToReset("janitor", m)' => "janitor" \in Healers /\ phase'["janitor"] # "idle"
      BY <2>3 DEF HandedFor
    <3> HIDE DEF a, b
    <3>5. a <= MaxCount'
      BY <1>0, <3>1, <3>2, <3>3
    <3>6. ToReset("janitor", m)' => a <= 5
      BY <1>0, <2>3, <3>1, <3>3
    <3> QED BY <2>3, <3>4, <3>5, <3>6 DEF HandedFor, a
  <2>4. "failed" \in Terminal /\ Claimed \in SUBSET Claimed
    BY DEF Terminal
  <2> QED BY <2>1, <2>2, <2>3, <2>4, ApplyHanded
<1> QED BY <1>1, <1>2, <1>3 DEF Watches

LEMMA HandedStep == HandedInv /\ [Next]_vars => HandedInv'
<1> SUFFICES ASSUME HandedInv, [Next]_vars, NEW m \in Msg PROVE HandedFor(m)'
  BY StepType DEF HandedInv
<1>1. TypeOK /\ TypeOK' /\ HandedFor(m)
  BY StepType DEF HandedInv
<1>2. CASE \E x \in Msg : Send(x) \/ Agent(x) \/ Clock(x)
  BY <1>1, <1>2, AgentCalm, ClockHanded, CalmKeeps
<1>3. CASE Freeze
  BY <1>1, <1>3, AgentCalm, CalmKeeps
<1>4. CASE Polls \/ TickDies
  BY <1>1, <1>4, PollerCalm, CalmKeeps
<1>5. CASE Janitor
  BY <1>1, <1>5, JanitorHanded
<1>6. CASE WatcherCheck \/ Watches
  BY <1>1, <1>6, WatcherHanded
<1>7. CASE StaleCheck
  BY <1>1, <1>7, StaleCheckCalm, CalmKeeps
<1>8. CASE (\E h \in Healer : Aborts(h)) \/ (\E k \in Stamp : Expire(k)) \/ UNCHANGED vars
  BY <1>1, <1>8, RunCalm, CalmKeeps
<1> QED BY <1>2, <1>3, <1>4, <1>5, <1>6, <1>7, <1>8 DEF Next

LEMMA CountIsBounded == HandedInv => CountBounded
<1> SUFFICES ASSUME HandedInv, NEW m \in Msg PROVE count[m] <= MaxCount
  BY DEF CountBounded
<1> QED BY DEF HandedInv, HandedFor, Handed, MaxCount, TypeOK

\* CountBounded holds whichever healers are installed and whatever is practised:
\* what two healers decide from rows they read before adds up to no more than the
\* limit, although each UPDATE asks for the status only.
THEOREM DeliveriesBounded == Spec => []CountBounded
<1> QED BY CountIsBounded, HandedInit, HandedStep, PTL DEF Spec

-----------------------------------------------------------------------------
(* Delivery implements Mailbox.                                             *)

Mapped == <<Mails, count, Chosen>>

\* What a session or the poller's next wake knows of has been sent.
KnownSent == \A m \in told \union working \union poke : status[m] # "absent"

LEMMA MailOf ==
  /\ Mail("absent") = "none"
  /\ Mail("pending") = "queued"
  /\ \A s \in Claimed : Mail(s) = "held"
  /\ \A s \in Terminal : Mail(s) = "ended"
BY DEF Mail, Claimed, Waiting, Terminal

LEMMA MailIs ==
  ASSUME TypeOK, NEW m \in Msg
  PROVE  /\ Mails[m] = Mail(status[m])
         /\ status[m] = "absent" <=> Mails[m] = "none"
         /\ status[m] = "pending" <=> Mails[m] = "queued"
         /\ status[m] \in Claimed <=> Mails[m] = "held"
         /\ status[m] \in Terminal <=> Mails[m] = "ended"
<1>1. Mails[m] = Mail(status[m])
  BY DEF Mails
<1>2. status[m] \in Claimed \union Terminal \union {"absent", "pending"}
  BY DEF TypeOK, Status
<1> QED BY <1>1, <1>2, MailOf DEF Claimed, Waiting, Terminal

\* A write to some rows moves those messages.
LEMMA ChangeOf ==
  ASSUME TypeOK, NEW S, NEW s, status' = Set(status, S, s)
  PROVE  Promise!Change(S, Mail(s))
<1>1. \A m \in Msg : status'[m] = IF m \in S THEN s ELSE status[m]
  BY DEF Set
<1>2. Mails' = [m \in Msg |-> Mail(status'[m])]
  BY DEF Mails
<1>3. [m \in Msg |-> IF m \in S THEN Mail(s) ELSE Mails[m]] =
        [m \in Msg |-> IF m \in S THEN Mail(s) ELSE Mail(status[m])]
  BY DEF Mails
<1> QED BY <1>1, <1>2, <1>3 DEF Promise!Change

LEMMA NoChange ==
  ASSUME TypeOK, NEW m \in Msg, NEW s, status' = Set(status, {m}, s), Mail(s) = Mails[m]
  PROVE  UNCHANGED Mails
<1>1. Mails' = [x \in Msg |-> IF x \in {m} THEN Mail(s) ELSE Mails[x]]
  BY ChangeOf DEF Promise!Change
<1>2. Mails = [x \in Msg |-> Mails[x]]
  BY DEF Mails
<1> QED BY <1>1, <1>2

LEMMA MailsStay == UNCHANGED status => UNCHANGED Mails
BY DEF Mails

\* What is chosen depends on the poller's stage and on the requeues planned.
Requeues == {m \in Msg : <<m, "requeue">> \in plan["stale-check"]}
Examined == IF stage \in {"wedge", "requeue"} THEN todo ELSE {}

LEMMA ChosenIs ==
  /\ Chosen = [r \in {"pass8", "stale-check"} |-> IF r = "pass8" THEN Examined ELSE Requeues]
  /\ Chosen["pass8"] = Examined
  /\ Chosen["stale-check"] = Requeues
BY DEF Chosen, Examined, Requeues

LEMMA ChosenStay ==
  /\ Examined' = Examined /\ Requeues' = Requeues => UNCHANGED Chosen
  /\ \A S : Examined' = S /\ Requeues' = Requeues => Chosen' = [Chosen EXCEPT !["pass8"] = S]
  /\ \A S : Examined' = Examined /\ Requeues' = S => Chosen' = [Chosen EXCEPT !["stale-check"] = S]
BY DEF Chosen, Examined, Requeues

LEMMA SameChoice ==
  /\ UNCHANGED tick => Examined' = Examined
  /\ UNCHANGED plan => Requeues' = Requeues
BY DEF Examined, Requeues, tick

LEMMA OthersPlan ==
  ASSUME TypeOK, NEW h \in {"janitor", "watcher"}
  PROVE  /\ \A S : Decide(h, S) => Requeues' = Requeues
         /\ \A e : Tick(h, e) => Requeues' = Requeues
BY DEF TypeOK, Decide, Tick, Requeues, Healer

LEMMA OwnRequeues ==
  ASSUME TypeOK
  PROVE  /\ \A S : Decide("stale-check", S) => Requeues' = {m \in Msg : <<m, "requeue">> \in S}
         /\ Decide("stale-check", {}) => Requeues' = {}
         /\ \A m, o : Tick("stale-check", <<m, o>>) /\ o # "requeue" => Requeues' = Requeues
BY DEF TypeOK, Decide, Tick, Requeues, Healer

\* A restart stops the tick that was about to requeue.
LEMMA RestartForgets ==
  ASSUME NoTick, UNCHANGED <<status, count, plan>>
  PROVE  Promise!Forget("pass8")
<1>1. Examined' = {} /\ Requeues' = Requeues
  BY DEF NoTick, Examined, Requeues
<1>2. Chosen' = [Chosen EXCEPT !["pass8"] = {}]
  BY <1>1, ChosenStay
<1> QED BY <1>2, MailsStay DEF Promise!Forget

LEMMA AgentMaps ==
  ASSUME TypeOK, KnownSent, NEW m \in Msg, Send(m) \/ Agent(m) \/ Clock(m)
  PROVE  Promise!Next \/ UNCHANGED Mapped
<1>0. UNCHANGED <<tick, plan>>
  BY DEF Send, Agent, Start, Skip, Ack, Cancel, Remove, Finish, Clock, ClaimAges, WorkAges,
         RowAges, healer
<1>1. UNCHANGED Chosen
  BY <1>0, SameChoice, ChosenStay
<1>2. CASE Send(m)
  <2>1. Promise!Change({m}, "queued") /\ Mails[m] = "none" /\ UNCHANGED count
    BY <1>2, ChangeOf, MailOf, MailIs DEF Send
  <2> QED BY <1>1, <2>1 DEF Promise!Post, Promise!Next
<1>3. ASSUME NEW s \in Claimed, status' = Set(status, {m}, s), UNCHANGED count,
             status[m] \in Claimed \union {"pending"}
      PROVE  Promise!Take(m) \/ UNCHANGED Mapped
  <2>1. CASE status[m] = "pending"
    <3>1. Promise!Change({m}, "held") /\ Mails[m] = "queued"
      BY <1>3, <2>1, ChangeOf, MailOf, MailIs
    <3> QED BY <1>1, <1>3, <3>1 DEF Promise!Take
  <2>2. CASE status[m] \in Claimed
    <3>1. UNCHANGED Mails
      BY <1>3, <2>2, NoChange, MailOf, MailIs
    <3> QED BY <1>1, <1>3, <3>1 DEF Mapped
  <2> QED BY <1>3, <2>1, <2>2
<1>4. ASSUME NEW s \in Terminal, status' = Set(status, {m}, s), UNCHANGED count,
             status[m] # "absent"
      PROVE  Promise!End({m}) \/ UNCHANGED Mapped
  <2>1. CASE status[m] \in Terminal
    <3>1. UNCHANGED Mails
      BY <1>4, <2>1, NoChange, MailOf, MailIs
    <3> QED BY <1>1, <1>4, <3>1 DEF Mapped
  <2>2. CASE status[m] \notin Terminal
    <3>1. status[m] \in Claimed \union {"pending"}
      BY <1>4, <2>2 DEF TypeOK, Status
    <3>2. Promise!Change({m}, "ended") /\ Mails[m] \in {"queued", "held"}
      BY <1>4, <3>1, ChangeOf, MailOf, MailIs
    <3> QED BY <1>1, <1>4, <3>2 DEF Promise!End
  <2> QED BY <2>1, <2>2
<1>5. status[m] \notin Terminal \union {"absent"} => status[m] \in Claimed \union {"pending"}
  BY DEF TypeOK, Status
<1>6. CASE Start(m)
  BY <1>3, <1>6 DEF Start, Claimed, Promise!Next
<1>7. CASE Ack(m)
  <2>1. status[m] # "absent"
    BY <1>7 DEF Ack, KnownSent
  <2> QED BY <1>3, <1>5, <1>7, <2>1 DEF Ack, Claimed, Waiting, Promise!Next
<1>8. ASSUME NEW s \in {"done", "failed"}, Finish(m, s)
      PROVE  Promise!Next \/ UNCHANGED Mapped
  <2>1. status[m] # "absent" /\ s \in Terminal
    BY <1>8 DEF Finish, KnownSent, Terminal
  <2> QED BY <1>4, <1>8, <2>1 DEF Finish, Promise!Next
<1>9. CASE Cancel(m)
  BY <1>4, <1>9 DEF Cancel, Terminal, Promise!Next
<1>10. CASE Skip(m) \/ Remove(m) \/ Clock(m)
  <2>1. UNCHANGED <<status, count>>
    BY <1>10 DEF Skip, Remove, Clock, ClaimAges, WorkAges, RowAges, row
  <2> QED BY <1>1, <2>1, MailsStay DEF Mapped
<1> QED BY <1>2, <1>6, <1>7, <1>8, <1>9, <1>10 DEF Agent

LEMMA PollerMaps ==
  ASSUME TypeOK, CountBounded', Polls \/ TickDies
  PROVE  Promise!Next \/ UNCHANGED Mapped
<1>0. UNCHANGED plan
  BY DEF Polls, Classify, GiveUp, Claim, Repoke, Examine, Wake, WedgeRestart, WedgeRestartFails,
         WedgeRequeue, WriteFile, TickDies, healer
<1>1. Requeues' = Requeues
  BY <1>0, SameChoice
<1>2. ASSUME stage \notin {"wedge", "requeue"}, stage' \notin {"wedge", "requeue"}
      PROVE  UNCHANGED Chosen
  BY <1>1, <1>2, ChosenStay DEF Examined
<1>3. CASE Classify \/ GiveUp
  <2>1. PICK S \in {Swept, Zombies}, e \in {"done", "failed"} : status' = Set(status, S, e)
    BY <1>3 DEF Classify, GiveUp
  <2>2. Promise!Change(S, "ended")
    <3>1. e \in Terminal
      BY DEF Terminal
    <3> QED BY <2>1, <3>1, ChangeOf, MailOf
  <2>3. S \in SUBSET Msg
    BY DEF Swept, Zombies, With
  <2>4. \A m \in S : status[m] \in Claimed \union {"pending"}
    BY DEF Swept, Zombies, With, Claimed
  <2>5. \A m \in S : Mails[m] \in {"queued", "held"}
    BY <2>3, <2>4, MailIs
  <2>6. UNCHANGED <<count, Chosen>>
    BY <1>2, <1>3 DEF Classify, GiveUp
  <2> QED BY <2>2, <2>3, <2>5, <2>6 DEF Promise!End, Promise!Next
<1>4. CASE Claim
  <2> DEFINE C == With({"pending"})
  <2>1. Promise!Change(C, "held")
    <3>1. status' = Set(status, C, "delivered") /\ "delivered" \in Claimed
      BY <1>4 DEF Claim, Claimed, Waiting
    <3> QED BY <3>1, ChangeOf, MailOf
  <2>2. C \in SUBSET Msg /\ \A m \in C : Mails[m] = "queued"
    BY MailIs DEF With
  <2>3. Promise!Count(C)
    BY <1>4, <2>2 DEF Claim, Promise!Count, CountBounded
  <2>4. UNCHANGED Chosen
    BY <1>2, <1>4 DEF Claim
  <2> QED BY <2>1, <2>2, <2>3, <2>4 DEF Promise!HandOut, Promise!Next
<1>5. CASE Repoke \/ \E m \in Msg : WriteFile(m)
  <2>1. UNCHANGED <<status, count, Chosen>>
    BY <1>2, <1>5 DEF Repoke, WriteFile, row
  <2> QED BY <2>1, MailsStay DEF Mapped
<1>6. CASE Examine
  <2>1. UNCHANGED <<status, count>> /\ stage \notin {"wedge", "requeue"}
    BY <1>6 DEF Examine, row
  <2>2. Examined' = todo'
    BY <1>6 DEF Examine, Examined
  <2>3. todo' \subseteq Wedged(Waiting)
    BY <1>6 DEF Examine
  <2>4. \A m \in todo' : m \in Msg /\ status[m] \in Claimed /\ count[m] >= 3
    BY <2>3 DEF Wedged, With, Claimed
  <2>5. Promise!Choose("pass8", todo')
    BY <1>1, <2>1, <2>2, <2>4, ChosenStay, MailIs, MailsStay DEF Promise!Choose
  <2> QED BY <2>4, <2>5 DEF Promise!Next
<1>7. CASE Wake \/ WedgeRestart \/ TickDies
  BY <1>0, <1>7, RestartForgets DEF Wake, WedgeRestart, TickDies, Restart, row, Promise!Next
<1>8. CASE WedgeRestartFails
  <2>1. UNCHANGED <<status, count, todo>> /\ Examined' = Examined
    BY <1>8 DEF WedgeRestartFails, row, Examined
  <2> QED BY <1>1, <2>1, ChosenStay, MailsStay DEF Mapped
<1>9. CASE WedgeRequeue
  <2>1. Chosen["pass8"] = todo /\ Examined' = {}
    BY <1>9, ChosenIs DEF WedgeRequeue, Examined
  <2>2. Chosen' = [Chosen EXCEPT !["pass8"] = {}]
    BY <1>1, <2>1, ChosenStay
  <2>3. Promise!Change(todo, "queued")
    BY <1>9, ChangeOf, MailOf DEF WedgeRequeue
  <2>4. count' = [m \in Msg |-> IF m \in todo THEN 0 ELSE count[m]]
    BY <1>9 DEF WedgeRequeue, Set
  <2> QED BY <2>1, <2>2, <2>3, <2>4 DEF Promise!Reissue, Promise!Next
<1> QED BY <1>3, <1>4, <1>5, <1>6, <1>7, <1>8, <1>9 DEF Polls

\* The update of one row by the janitor or the watcher.
LEMMA ApplyMaps ==
  ASSUME TypeOK, CountBounded', NEW h \in {"janitor", "watcher"}, NEW m \in Msg,
         NEW guard \in SUBSET Claimed, NEW s \in Terminal, NEW restarted,
         Apply(h, m, guard, s, restarted)
  PROVE  Promise!Next \/ UNCHANGED Mapped
<1>1. UNCHANGED Chosen
  BY OthersPlan, SameChoice, ChosenStay DEF Apply
<1>2. CASE UNCHANGED <<status, count>>
  BY <1>1, <1>2, MailsStay DEF Mapped
<1>3. ASSUME status[m] \in guard, status' = Set(status, {m}, s), UNCHANGED count
      PROVE  Promise!End({m})
  BY <1>1, <1>3, ChangeOf, MailOf, MailIs DEF Promise!End
<1>4. ASSUME status[m] \in guard, status' = Set(status, {m}, "pending"),
             count' = [count EXCEPT ![m] = @ + 1]
      PROVE  Promise!PutBack(m)
  <2>1. Promise!Change({m}, "queued") /\ Mails[m] = "held"
    BY <1>4, ChangeOf, MailOf, MailIs
  <2>2. Promise!Count({m})
    BY <1>4 DEF Promise!Count, CountBounded, TypeOK
  <2> QED BY <1>1, <2>1, <2>2 DEF Promise!PutBack
<1> QED BY <1>2, <1>3, <1>4 DEF Apply, Promise!Next

LEMMA RestartMaps ==
  ASSUME TypeOK, NEW h, NEW p, MayRestart(h, p)
  PROVE  Promise!Next \/ UNCHANGED Mapped
<1>1. UNCHANGED <<status, count, plan>> /\ (NoTick \/ UNCHANGED tick)
  BY DEF MayRestart, Restart, row
<1>2. CASE NoTick
  BY <1>1, <1>2, RestartForgets DEF Promise!Next
<1>3. CASE UNCHANGED tick
  BY <1>1, <1>3, SameChoice, ChosenStay, MailsStay DEF Mapped
<1> QED BY <1>1, <1>2, <1>3

LEMMA HealerMaps ==
  ASSUME TypeOK, CountBounded', Janitor \/ WatcherCheck \/ Watches
  PROVE  Promise!Next \/ UNCHANGED Mapped
<1>1. CASE JanitorRestart \/ WatcherRestart
  BY <1>1, RestartMaps DEF JanitorRestart, WatcherRestart
<1>2. CASE \E m \in Msg : JanitorStaleRow(m) \/ JanitorStuckRow(m) \/ WatcherRow(m)
  <2>1. /\ Waiting \in SUBSET Claimed /\ {"in_progress"} \in SUBSET Claimed
        /\ {"cancelled", "failed"} \subseteq Terminal
    BY DEF Claimed, Terminal
  <2> QED BY <1>2, <2>1, ApplyMaps DEF JanitorStaleRow, JanitorStuckRow, WatcherRow
<1>3. ASSUME UNCHANGED <<status, count, tick>>, Requeues' = Requeues
      PROVE  UNCHANGED Mapped
  BY <1>3, SameChoice, ChosenStay, MailsStay DEF Mapped
<1>4. CASE JanitorStale \/ JanitorStuck \/ WatcherCheck \/ WatcherScan
  BY <1>3, <1>4, OthersPlan, SameChoice
     DEF JanitorStale, JanitorStuck, WatcherCheck, WatcherScan, row
<1>5. CASE \E h, p : Ends(h, p)
  BY <1>3, <1>5, SameChoice DEF Ends, row
<1> QED BY <1>1, <1>2, <1>4, <1>5 DEF Janitor, Watches

LEMMA StaleCheckMaps ==
  ASSUME TypeOK, StaleCheck
  PROVE  Promise!Next \/ UNCHANGED Mapped
<1>1. ASSUME UNCHANGED <<status, count, tick>>, Requeues' = {}
      PROVE  Promise!Forget("stale-check")
  BY <1>1, SameChoice, ChosenStay, MailsStay DEF Promise!Forget
<1>2. CASE StaleBegin \/ StaleList
  <2>1. \A S : {m \in Msg : <<m, "requeue">> \in S \X {"write"}} = {}
    OBVIOUS
  <2>2. \A S : {m \in Msg : <<m, "requeue">> \in S \X {"rm"}} = {}
    OBVIOUS
  <2>3. UNCHANGED <<status, count, tick>> /\ Requeues' = {}
    BY <1>2, <2>1, <2>2, OwnRequeues DEF StaleBegin, StaleList, row
  <2> QED BY <1>1, <2>3 DEF Promise!Next
<1>3. CASE \E m \in Msg : StaleWrite(m) \/ StaleRemove(m)
  <2>1. UNCHANGED <<status, count, tick>> /\ Requeues' = Requeues
    BY <1>3, OwnRequeues DEF StaleWrite, StaleRemove, row
  <2> QED BY <2>1, SameChoice, ChosenStay, MailsStay DEF Mapped
<1>4. CASE StaleScan
  <2>1. PICK W \in SUBSET Wedged({"delivered"}) : Decide("stale-check", W \X {"requeue"})
    BY <1>4 DEF StaleScan
  <2>2. \A m \in W : m \in Msg /\ status[m] \in Claimed /\ count[m] >= 3
    BY <2>1 DEF Wedged, With, Claimed, Waiting
  <2>3. {m \in Msg : <<m, "requeue">> \in W \X {"requeue"}} = W
    BY <2>2
  <2>4. UNCHANGED <<status, count, tick>> /\ Requeues' = W
    BY <1>4, <2>1, <2>3, OwnRequeues DEF StaleScan, row
  <2>5. Promise!Choose("stale-check", W)
    BY <2>2, <2>4, SameChoice, ChosenStay, MailIs, MailsStay DEF Promise!Choose
  <2> QED BY <2>2, <2>5 DEF Promise!Next
<1>5. CASE StaleRestart
  <2>1. UNCHANGED <<status, count, plan>> /\ (NoTick \/ UNCHANGED tick)
    BY <1>5 DEF StaleRestart, Restart, row
  <2>2. CASE NoTick
    BY <2>1, <2>2, RestartForgets DEF Promise!Next
  <2>3. CASE UNCHANGED tick
    BY <2>1, <2>3, SameChoice, ChosenStay, MailsStay DEF Mapped
  <2> QED BY <2>1, <2>2, <2>3
<1>6. CASE StaleRequeue
  <2>1. /\ status' = Set(status, Requeues, "pending")
        /\ count' = Set(count, Requeues, 0)
        /\ Decide("stale-check", {})
        /\ UNCHANGED tick
    BY <1>6 DEF StaleRequeue, Requeues
  <2>2. Requeues' = {}
    BY <2>1, OwnRequeues
  <2>3. Chosen' = [Chosen EXCEPT !["stale-check"] = {}]
    BY <2>1, <2>2, SameChoice, ChosenStay
  <2>4. Promise!Change(Requeues, "queued")
    BY <2>1, ChangeOf, MailOf
  <2>5. count' = [m \in Msg |-> IF m \in Requeues THEN 0 ELSE count[m]]
    BY <2>1 DEF Set
  <2> QED BY <2>3, <2>4, <2>5, ChosenIs DEF Promise!Reissue, Promise!Next
<1> QED BY <1>2, <1>3, <1>4, <1>5, <1>6 DEF StaleCheck

LEMMA OtherMaps ==
  ASSUME TypeOK,
         Freeze \/ (\E h \in Healer : Aborts(h)) \/ (\E k \in Stamp : Expire(k)) \/ UNCHANGED vars
  PROVE  Promise!Next \/ UNCHANGED Mapped
<1>1. ASSUME NEW h \in Healer, Aborts(h)
      PROVE  Promise!Next \/ UNCHANGED Mapped
  <2>1. UNCHANGED <<status, count, tick>> /\ Decide(h, {})
    BY <1>1 DEF Aborts, row
  <2>2. CASE h = "stale-check"
    <3>1. Requeues' = {}
      BY <2>1, <2>2, OwnRequeues
    <3> QED BY <2>1, <3>1, SameChoice, ChosenStay, MailsStay DEF Promise!Forget, Promise!Next
  <2>3. CASE h # "stale-check"
    <3>1. Requeues' = Requeues
      BY <2>1, <2>3, OthersPlan DEF Healer
    <3> QED BY <2>1, <3>1, SameChoice, ChosenStay, MailsStay DEF Mapped
  <2> QED BY <2>2, <2>3
<1>2. CASE Freeze \/ (\E k \in Stamp : Expire(k)) \/ UNCHANGED vars
  <2>1. UNCHANGED <<status, count, tick, plan>>
    BY <1>2 DEF Freeze, Expire, vars, row, healer
  <2> QED BY <2>1, SameChoice, ChosenStay, MailsStay DEF Mapped
<1> QED BY <1>1, <1>2

\* No row is forgotten, and nobody hears of one that was not sent.
KeepsSent ==
  /\ \A m \in Msg : status[m] # "absent" => status'[m] # "absent"
  /\ \A m \in told' \union working' \union poke' :
       m \in told \union working \union poke \/ (m \in Msg /\ status'[m] # "absent")

LEMMA SetKeepsSent ==
  ASSUME NEW S, NEW s, s # "absent", status' = Set(status, S, s)
  PROVE  \A m \in Msg : status[m] # "absent" => status'[m] # "absent"
BY DEF Set

LEMMA QuietKeepsSent ==
  ASSUME UNCHANGED status,
         told' \subseteq told \union poke, working' \subseteq told \union working,
         poke' \subseteq poke
  PROVE  KeepsSent
BY DEF KeepsSent

LEMMA ApplyKeepsSent ==
  ASSUME NEW h, NEW m, NEW guard, NEW s \in Terminal, NEW restarted,
         Apply(h, m, guard, s, restarted)
  PROVE  KeepsSent
<1>1. UNCHANGED status \/ \E v \in Terminal \union {"pending"} : status' = Set(status, {m}, v)
  BY DEF Apply
<1>2. UNCHANGED <<told, working, poke>>
  BY DEF Apply, agent, tick
<1> QED BY <1>1, <1>2, SetKeepsSent DEF KeepsSent, Terminal

LEMMA StepKeepsSent ==
  ASSUME TypeOK, [Next]_vars
  PROVE  KeepsSent
<1> USE DEF agent, tick, row
<1>1. ASSUME NEW m \in Msg, Send(m) \/ Start(m) \/ Ack(m) \/ Cancel(m)
                             \/ \E s \in {"done", "failed"} : Finish(m, s)
      PROVE  KeepsSent
  <2>1. \E s \in Terminal \union Claimed \union {"pending"} : status' = Set(status, {m}, s)
    BY <1>1 DEF Send, Start, Ack, Cancel, Finish, Terminal, Claimed, Waiting
  <2>2. told' \subseteq told /\ working' \subseteq working \union told /\ poke' = poke
    BY <1>1 DEF Send, Start, Ack, Cancel, Finish
  <2> QED BY <2>1, <2>2, SetKeepsSent DEF KeepsSent, Terminal, Claimed, Waiting
<1>2. ASSUME NEW m \in Msg, Skip(m) \/ Remove(m) \/ Clock(m)
      PROVE  KeepsSent
  BY <1>2, QuietKeepsSent DEF Skip, Remove, Clock, ClaimAges, WorkAges, RowAges
<1>3. CASE Classify \/ GiveUp
  <2>1. \A m \in Msg : status'[m] \in {status[m], "done", "failed"}
    BY <1>3 DEF Classify, GiveUp, Set
  <2>2. UNCHANGED <<told, working, poke>>
    BY <1>3 DEF Classify, GiveUp
  <2> QED BY <2>1, <2>2 DEF KeepsSent
<1>4. CASE Claim
  <2>1. \A m \in Msg : status'[m] = IF status[m] = "pending" THEN "delivered" ELSE status[m]
    BY <1>4 DEF Claim, Set, With
  <2>2. poke' = With({"pending"}) /\ UNCHANGED <<told, working>>
    BY <1>4 DEF Claim
  <2> QED BY <2>1, <2>2 DEF KeepsSent, With
<1>5. CASE Repoke
  BY <1>5 DEF Repoke, KeepsSent, With, Waiting
<1>6. CASE Examine \/ Wake \/ TickDies \/ Freeze \/ WedgeRestart \/ WedgeRestartFails
           \/ \E m \in Msg : WriteFile(m)
  BY <1>6, QuietKeepsSent DEF Examine, Wake, TickDies, Freeze, WedgeRestart, Restart,
                              NoTick, WedgeRestartFails, WriteFile
<1>7. CASE WedgeRequeue
  <2>1. status' = Set(status, todo, "pending") /\ UNCHANGED <<told, working, poke>>
    BY <1>7 DEF WedgeRequeue
  <2> QED BY <2>1, SetKeepsSent DEF KeepsSent
<1>8. CASE \E h, p : Ends(h, p) \/ Aborts(h) \/ MayRestart(h, p)
  BY <1>8, QuietKeepsSent DEF Ends, Aborts, MayRestart, Restart, NoTick
<1>9. CASE Janitor
  <2>1. "cancelled" \in Terminal /\ "failed" \in Terminal
    BY DEF Terminal
  <2>2. CASE \E m \in Msg : JanitorStaleRow(m) \/ JanitorStuckRow(m)
    BY <2>1, <2>2, ApplyKeepsSent DEF JanitorStaleRow, JanitorStuckRow
  <2>3. CASE JanitorStale \/ JanitorStuck
    BY <2>3, QuietKeepsSent DEF JanitorStale, JanitorStuck
  <2> QED BY <1>8, <1>9, <2>2, <2>3 DEF Janitor, JanitorRestart
<1>10. CASE WatcherCheck \/ Watches
  <2>1. CASE \E m \in Msg : WatcherRow(m)
    BY <2>1, ApplyKeepsSent DEF WatcherRow, Terminal
  <2>2. CASE WatcherCheck \/ WatcherScan
    BY <2>2, QuietKeepsSent DEF WatcherCheck, WatcherScan
  <2> QED BY <1>8, <1>10, <2>1, <2>2 DEF Watches, WatcherRestart
<1>11. CASE StaleCheck
  <2>1. CASE StaleRequeue
    <3>1. PICK R : status' = Set(status, R, "pending") /\ UNCHANGED <<told, working, poke>>
      BY <2>1 DEF StaleRequeue
    <3> QED BY <3>1, SetKeepsSent DEF KeepsSent
  <2>2. CASE StaleBegin \/ StaleList \/ StaleScan \/ \E m \in Msg : StaleWrite(m) \/ StaleRemove(m)
    BY <2>2, QuietKeepsSent DEF StaleBegin, StaleList, StaleScan, StaleWrite, StaleRemove
  <2>3. CASE StaleRestart
    BY <2>3, QuietKeepsSent DEF StaleRestart, Restart, NoTick
  <2> QED BY <1>11, <2>1, <2>2, <2>3 DEF StaleCheck
<1>12. CASE (\E k \in Stamp : Expire(k)) \/ UNCHANGED vars
  BY <1>12, QuietKeepsSent DEF Expire, vars
<1> QED BY <1>1, <1>2, <1>3, <1>4, <1>5, <1>6, <1>7, <1>8, <1>9, <1>10, <1>11, <1>12
        DEF Next, Agent, Polls

MailInv == HandedInv /\ KnownSent

LEMMA MailStep ==
  ASSUME MailInv, [Next]_vars
  PROVE  MailInv' /\ CountBounded'
<1>1. HandedInv'
  BY HandedStep DEF MailInv
<1>2. KnownSent'
  <2>1. KeepsSent
    BY StepKeepsSent DEF MailInv, HandedInv
  <2>2. told \union working \union poke \subseteq Msg
    BY DEF MailInv, HandedInv, TypeOK
  <2> QED BY <2>1, <2>2 DEF MailInv, KeepsSent, KnownSent
<1>3. CountBounded'
  BY <1>1, CountIsBounded, PTL
<1> QED BY <1>1, <1>2, <1>3 DEF MailInv

\* Whichever healers and recoveries run, and whatever crashes, freezes or comes
\* late: a message is handed out at most MaxCount times between two reissues, and
\* one that has ended is handed out again only if Pass 8 or stale-check had read
\* it as handed out three times and not started, in the run that requeues it.
THEOREM PromiseKept == Spec => KeepsPromise
<1>1. Init => MailInv
  BY HandedInit DEF Init, MailInv, KnownSent
<1>2. MailInv /\ [Next]_vars => MailInv'
  BY MailStep
<1>3. Init => Promise!Init
  <2> SUFFICES ASSUME Init PROVE Promise!Init
    OBVIOUS
  <2>1. Mails = [m \in Msg |-> "none"]
    BY MailOf DEF Init, Mails
  <2>2. Examined = {} /\ Requeues = {}
    BY DEF Init, Examined, Requeues, Healer
  <2>3. Chosen = [r \in {"pass8", "stale-check"} |-> {}]
    BY <2>2, ChosenIs
  <2> QED BY <2>1, <2>3 DEF Init, Promise!Init
<1>4. MailInv /\ [Next]_vars => [Promise!Next]_<<Mails, count, Chosen>>
  <2> SUFFICES ASSUME MailInv, [Next]_vars
               PROVE  Promise!Next \/ UNCHANGED Mapped
    BY DEF Mapped
  <2>1. TypeOK /\ KnownSent /\ CountBounded'
    BY MailStep DEF MailInv, HandedInv
  <2> QED BY <2>1, AgentMaps, PollerMaps, HealerMaps, StaleCheckMaps, OtherMaps DEF Next
<1> QED BY <1>1, <1>2, <1>3, <1>4, PTL DEF Spec, KeepsPromise, Promise!Spec
=============================================================================
