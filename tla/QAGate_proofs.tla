--------------------------- MODULE QAGate_proofs ---------------------------
(***************************************************************************)
(* Theorems about QAGate, for every set of rows, pollers and kinds of work.*)
(***************************************************************************)
EXTENDS QAGate, TLAPS

-----------------------------------------------------------------------------
(* Type correctness.                                                       *)

USE DEF row, scripts

LEMMA NoKindType == NoKind \in Kind
BY DEF NoKind, Kind

LEMMA FlagType ==
  ASSUME NEW k \in Kind, NEW b \in BOOLEAN
  PROVE  [k EXCEPT !.human = b] \in Kind /\ [k EXCEPT !.review = b] \in Kind
BY DEF Kind

LEMMA AgentType ==
  ASSUME TypeOK, NEW r \in Row, Agent(r) \/ Heal(r) \/ Approve(r)
  PROVE  TypeOK'
<1>1. CASE Ack(r)
  BY <1>1 DEF TypeOK, Ack, Bypass, Status
<1>2. CASE Done(r)
  BY <1>2 DEF TypeOK, Done, Close, Bypass, Status, Age
<1>3. CASE Fail(r)
  BY <1>3 DEF TypeOK, Fail, Close, Status, Age
<1>4. CASE BlockForAttention(r)
  BY <1>4 DEF TypeOK, BlockForAttention, Park, Status, Age
<1>5. CASE Approve(r)
  BY <1>5 DEF TypeOK, Approve, Close, Rule, Status, Age, Verdict
<1>6. CASE Heal(r)
  BY <1>6 DEF TypeOK, Heal, FindWedged, Requeue, Bypass, Status
<1> QED BY <1>1, <1>2, <1>3, <1>4, <1>5, <1>6 DEF Agent

LEMMA SendType ==
  ASSUME TypeOK, QAGateAssumption, NEW r \in Row, NEW k \in Work, Send(r, k)
  PROVE  TypeOK'
<1>1. k \in Kind
  BY DEF QAGateAssumption
<1> QED BY <1>1 DEF TypeOK, Send, Park, Status, Age

LEMMA JudgeType ==
  ASSUME TypeOK, NEW q \in Row, Judge(q)
  PROVE  TypeOK'
<1>1. CASE QaPassRead(q)
  BY <1>1 DEF TypeOK, QaPassRead, row
<1>2. CASE QaPassStandard(q)
  BY <1>2 DEF TypeOK, QaPassStandard, Close, Rule, Status, Age, Verdict
<1>3. CASE QaPassHighStakes(q)
  <2> DEFINE r == parent[q]
  <2>1. r \in Row /\ kind[r] \in Kind
    BY <1>3 DEF TypeOK, QaPassHighStakes
  <2>2. [kind[r] EXCEPT !.human = FALSE] \in Kind
    BY <2>1, FlagType
  <2>3. [kind EXCEPT ![r] = [kind[r] EXCEPT !.human = FALSE]] \in [Row -> Kind]
    BY <2>1, <2>2 DEF TypeOK
  <2>4. kind' \in [Row -> Kind]
    <3>1. CASE r \in qaBy
      BY <1>3, <3>1 DEF TypeOK, QaPassHighStakes
    <3>2. CASE r \notin qaBy
      <4>1. kind' = [kind EXCEPT ![r] = [kind[r] EXCEPT !.human = FALSE]]
        BY <1>3, <3>2 DEF QaPassHighStakes
      <4> QED BY <4>1, <2>3
    <3> QED BY <3>1, <3>2
  <2> HIDE DEF r
  <2> QED BY <1>3, <2>1, <2>4
          DEF TypeOK, QaPassHighStakes, Park, Rule, Status, Age, Verdict
<1>4. CASE QaFail(q)
  BY <1>4 DEF TypeOK, QaFail, Park, Rule, Status, Age, Verdict
<1> QED BY <1>1, <1>2, <1>3, <1>4 DEF Judge

LEMMA BusyType ==
  ASSUME TypeOK, NEW p \in Poller, NEW r \in Row, NEW s \in Passes
  PROVE  /\ [busy EXCEPT ![p] = <<s, r>>] \in [Poller -> {Idle} \union (Passes \X Row)]
         /\ [busy EXCEPT ![p] = Idle] \in [Poller -> {Idle} \union (Passes \X Row)]
BY DEF TypeOK

LEMMA PassType ==
  ASSUME TypeOK, NEW p \in Poller, NEW r \in Row,
         Pass3(p, r) \/ Pass4(p, r) \/ Pass5(p, r)
  PROVE  TypeOK'
<1> USE DEF Passes
<1>1. CASE Bounce(p, r)
  BY <1>1 DEF TypeOK, Bounce, Park, Status, Age
<1>2. CASE Timeout(p, r)
  BY <1>2 DEF TypeOK, Timeout, Close, Status, Age
<1>3. CASE ResumeStart(p, r)
  BY <1>3, BusyType DEF TypeOK, ResumeStart
<1>4. CASE ResumeEnd(p, r)
  BY <1>4, BusyType DEF TypeOK, ResumeEnd
<1>5. CASE TrivialClaim(p, r)
  BY <1>5, BusyType DEF TypeOK, TrivialClaim, Rule, Verdict
<1>6. CASE TrivialPass(p, r)
  BY <1>6, BusyType DEF TypeOK, TrivialPass, row
<1>7. CASE TrivialFail(p, r)
  BY <1>7, BusyType DEF TypeOK, TrivialFail, Park, Rule, Status, Age, Verdict
<1> QED BY <1>1, <1>2, <1>3, <1>4, <1>5, <1>6, <1>7 DEF Pass3, Pass4, Pass5

LEMMA ReviewKindType ==
  ASSUME TypeOK, NEW r \in Row
  PROVE  ReviewKind(r) \in Kind
BY NoKindType DEF TypeOK, ReviewKind, NoKind, Kind

LEMMA DispatchType ==
  ASSUME TypeOK, QAGateAssumption, NEW p \in Poller, NEW r \in Row, Pass6(p, r)
  PROVE  TypeOK'
<1> USE DEF Passes
<1>1. CASE Select(p, r)
  BY <1>1, BusyType DEF TypeOK, Select, row
<1>2. CASE Escalate(p, r)
  <2>1. kind' = [kind EXCEPT ![r] = [kind[r] EXCEPT !.review = TRUE]]
    BY <1>2 DEF Escalate
  <2>2. [kind[r] EXCEPT !.review = TRUE] \in Kind
    BY FlagType DEF TypeOK
  <2>3. kind' \in [Row -> Kind]
    BY <2>1, <2>2 DEF TypeOK
  <2> QED BY <1>2, <2>3 DEF TypeOK, Escalate
<1>3. CASE Mark(p, r)
  BY <1>3, BusyType DEF TypeOK, Mark
<1>4. CASE Insert(p, r)
  <2>1. busy' \in [Poller -> {Idle} \union (Passes \X Row)]
    BY <1>4, BusyType DEF Insert
  <2>2. PICK q \in Row \ Sent :
          /\ status' = [status EXCEPT ![q] = "open"]
          /\ parent' = [parent EXCEPT ![q] = r]
          /\ kind' = [kind EXCEPT ![q] = ReviewKind(r)]
    BY <1>4 DEF Insert
  <2>3. status' \in [Row -> Status]
    BY <2>2 DEF TypeOK, Status
  <2>4. kind' \in [Row -> Kind]
    BY <2>2, ReviewKindType DEF TypeOK
  <2>5. parent' \in [Row -> Row \union {NoRow}]
    BY <2>2 DEF TypeOK
  <2>6. \A x \in Row : parent[x] # NoRow => parent'[x] # NoRow
    BY <2>2 DEF TypeOK, QAGateAssumption
  <2>7. UNCHANGED <<verdict, qaBy, dispatched, timedOut, gateAge, doneAge, hook, checking,
                    wedged, bypassed>>
    BY <1>4 DEF Insert
  <2> QED BY <2>1, <2>3, <2>4, <2>5, <2>6, <2>7 DEF TypeOK
<1> QED BY <1>1, <1>2, <1>3, <1>4 DEF Pass6

LEMMA SilentType ==
  ASSUME TypeOK, NEW p \in Poller, AfterSilentReview(p) \/ Dies(p)
  PROVE  TypeOK'
<1>1. CASE AfterSilentReview(p)
  BY <1>1 DEF TypeOK, AfterSilentReview, Behind, Status, Age, Verdict
<1>2. CASE Dies(p)
  BY <1>2 DEF TypeOK, Dies, row
<1> QED BY <1>1, <1>2

LEMMA ClockType ==
  ASSUME TypeOK, NEW r \in Row, Clock(r)
  PROVE  TypeOK'
BY DEF TypeOK, Clock, GateAgeGrows, DoneAgeGrows, Age

LEMMA TypeStep == QAGateAssumption /\ TypeOK /\ [Next]_vars => TypeOK'
<1> SUFFICES ASSUME QAGateAssumption, TypeOK, [Next]_vars PROVE TypeOK'
  OBVIOUS
<1>1. ASSUME NEW r \in Row, NEW k \in Work, Send(r, k) PROVE TypeOK'
  BY <1>1, SendType
<1>2. ASSUME NEW r \in Row, Agent(r) \/ Heal(r) \/ Approve(r) PROVE TypeOK'
  BY <1>2, AgentType
<1>3. ASSUME NEW r \in Row, Judge(r) PROVE TypeOK'
  BY <1>3, JudgeType
<1>4. ASSUME NEW r \in Row, Clock(r) PROVE TypeOK'
  BY <1>4, ClockType
<1>5. ASSUME NEW p \in Poller, NEW r \in Row, Pass3(p, r) \/ Pass4(p, r) \/ Pass5(p, r)
      PROVE  TypeOK'
  BY <1>5, PassType
<1>6. ASSUME NEW p \in Poller, NEW r \in Row, Pass6(p, r) PROVE TypeOK'
  BY <1>6, DispatchType
<1>7. ASSUME NEW p \in Poller, AfterSilentReview(p) \/ Dies(p) PROVE TypeOK'
  BY <1>7, SilentType
<1>8. CASE UNCHANGED vars
  BY <1>8 DEF TypeOK, vars, row
<1> QED BY <1>1, <1>2, <1>3, <1>4, <1>5, <1>6, <1>7, <1>8 DEF Next

\* Every variable keeps its type, and only reviews of a row pass verdicts.
THEOREM GateTypeCorrect == Spec => []TypeOK
<1>1. Init => TypeOK
  BY NoKindType DEF Init, TypeOK, Status, Age, Verdict
<1>2. TypeOK /\ [Next]_vars => TypeOK'
  BY TypeStep, QAGateAssumption
<1> QED BY <1>1, <1>2, PTL DEF Spec

-----------------------------------------------------------------------------
(* GateHolds is not inductive: a row that left the gate for 'open' could be*)
(* finished by its doer.  Parked says that a row that was ever parked is   *)
(* at the gate, has failed, is done and cleared, or was taken round.       *)

Parked ==
  \A r \in Row : gateAge[r] # "none" =>
    \/ status[r] \in {"input-required", "failed"}
    \/ status[r] = "done" /\ Cleared(r)
    \/ r \in bypassed /\ status[r] # "absent"

\* Steps that leave alone what Parked speaks of.
Untouched(r) ==
  /\ UNCHANGED <<status[r], gateAge[r], verdict[r]>>
  /\ kind'[r].tier = kind[r].tier /\ kind'[r].plan = kind[r].plan
  /\ kind'[r].human = kind[r].human /\ kind'[r].type = kind[r].type
  /\ r \in qaBy => r \in qaBy'
  /\ r \in bypassed => r \in bypassed'

\* What a step may do to one row without disturbing Parked.
KeepsParked(r) ==
  \/ r \in bypassed' /\ status'[r] # "absent"
  \/ Untouched(r)
  \/ status'[r] \in {"input-required", "failed"}
  \/ gateAge[r] = "none" /\ gateAge'[r] = "none"
  \/ status'[r] = "done" /\ Cleared(r)'

LEMMA ParkedRows ==
  ASSUME TypeOK, Parked, \A r \in Row : KeepsParked(r)
  PROVE  Parked'
<1> SUFFICES ASSUME NEW r \in Row, gateAge'[r] # "none"
             PROVE  \/ status'[r] \in {"input-required", "failed"}
                    \/ status'[r] = "done" /\ Cleared(r)'
                    \/ r \in bypassed' /\ status'[r] # "absent"
  BY DEF Parked
<1>1. CASE Untouched(r)
  <2>1. Cleared(r) => Cleared(r)'
    BY <1>1 DEF Untouched, Cleared, NeedsQAFirst, WorkGate, HumanGate
  <2> QED BY <1>1, <2>1 DEF Untouched, Parked
<1>2. CASE ~Untouched(r)
  BY <1>2 DEF KeepsParked
<1> QED BY <1>1, <1>2

LEMMA AgentParked ==
  ASSUME TypeOK, Parked, NEW r \in Row, Agent(r) \/ Heal(r) \/ Approve(r)
  PROVE  \A x \in Row : KeepsParked(x)
<1> USE DEF TypeOK, KeepsParked, Untouched
<1>1. CASE Ack(r) \/ Heal(r)
  BY <1>1 DEF Ack, Heal, FindWedged, Requeue, Bypass
<1>2. CASE Done(r)
  <2>1. CASE status[r] = "failed"
    BY <1>2, <2>1 DEF Done, Close, Bypass
  <2>2. CASE status[r] = "done"
    BY <1>2, <2>2 DEF Done, Close
  <2>3. CASE status[r] \notin {"failed", "done"}
    <3>1. gateAge[r] = "none" \/ r \in bypassed
      BY <1>2, <2>3 DEF Done, Parked
    <3> QED BY <1>2, <2>3, <3>1 DEF Done, Close
  <2> QED BY <2>1, <2>2, <2>3
<1>3. CASE Fail(r)
  BY <1>3 DEF Fail, Close
<1>4. CASE BlockForAttention(r)
  BY <1>4 DEF BlockForAttention, Park
<1>5. CASE Approve(r)
  <2>1. Cleared(r)'
    BY <1>5 DEF Approve, Rule, Cleared, NeedsQAFirst, WorkGate, HumanGate
  <2> QED BY <1>5, <2>1 DEF Approve, Close, Rule
<1> QED BY <1>1, <1>2, <1>3, <1>4, <1>5 DEF Agent

LEMMA SendParked ==
  ASSUME TypeOK, Parked, NEW r \in Row, NEW k \in Work, Send(r, k)
  PROVE  \A x \in Row : KeepsParked(x)
<1>1. gateAge[r] = "none"
  BY DEF Send, Parked
<1> QED BY <1>1 DEF TypeOK, KeepsParked, Untouched, Send, Park

LEMMA JudgeParked ==
  ASSUME TypeOK, Parked, NEW q \in Row, Judge(q)
  PROVE  \A x \in Row : KeepsParked(x)
<1> USE DEF TypeOK, KeepsParked, Untouched
<1>1. CASE QaPassRead(q)
  BY <1>1 DEF QaPassRead, row
<1>2. CASE QaPassStandard(q)
  BY <1>2 DEF QaPassStandard, Close, Rule, Cleared
<1>3. CASE QaPassHighStakes(q)
  <2> DEFINE r == parent[q]
  <2>1. r \in Row
    BY <1>3 DEF QaPassHighStakes
  <2>2. CASE r \in qaBy
    BY <1>3, <2>2 DEF QaPassHighStakes
  <2>3. CASE r \notin qaBy
    <3>1. /\ status' = [status EXCEPT ![r] = "input-required"]
          /\ gateAge' = [gateAge EXCEPT ![r] = "fresh"]
          /\ verdict' = [verdict EXCEPT ![r] = "pass"]
          /\ kind' = [kind EXCEPT ![r] = [kind[r] EXCEPT !.human = FALSE]]
          /\ bypassed' = bypassed \ {r}
          /\ qaBy \subseteq qaBy'
      BY <1>3, <2>3 DEF QaPassHighStakes, Park, Rule
    <3>2. status'[r] = "input-required"
      BY <3>1, <2>1
    <3>3. ASSUME NEW x \in Row, x # r PROVE Untouched(x)
      BY <3>1, <3>3
    <3> QED BY <3>2, <3>3
  <2> QED BY <2>2, <2>3
<1>4. CASE QaFail(q)
  BY <1>4 DEF QaFail, Park, Rule
<1> QED BY <1>1, <1>2, <1>3, <1>4 DEF Judge

LEMMA PassParked ==
  ASSUME TypeOK, Parked, NEW p \in Poller, NEW r \in Row,
         Pass3(p, r) \/ Pass4(p, r) \/ Pass5(p, r)
  PROVE  \A x \in Row : KeepsParked(x)
<1> USE DEF TypeOK, KeepsParked, Untouched
<1>1. CASE Bounce(p, r)
  BY <1>1 DEF Bounce, Park
<1>2. CASE Timeout(p, r)
  BY <1>2 DEF Timeout, Close
<1>3. CASE ResumeStart(p, r) \/ ResumeEnd(p, r)
  BY <1>3 DEF ResumeStart, ResumeEnd
<1>4. CASE TrivialClaim(p, r)
  <2>1. gateAge[r] = "none" \/ r \in bypassed
    BY <1>4 DEF TrivialClaim, Parked, Cleared
  <2> QED BY <1>4, <2>1 DEF TrivialClaim, Rule
<1>5. CASE TrivialPass(p, r)
  BY <1>5 DEF TrivialPass, row
<1>6. CASE TrivialFail(p, r)
  BY <1>6 DEF TrivialFail, Park, Rule
<1> QED BY <1>1, <1>2, <1>3, <1>4, <1>5, <1>6 DEF Pass3, Pass4, Pass5

LEMMA DispatchParked ==
  ASSUME TypeOK, Parked, NEW p \in Poller, NEW r \in Row, Pass6(p, r)
  PROVE  \A x \in Row : KeepsParked(x)
<1> USE DEF TypeOK, KeepsParked, Untouched
<1>1. CASE Select(p, r)
  BY <1>1 DEF Select, row
<1>2. CASE Escalate(p, r)
  <2>1. kind' = [kind EXCEPT ![r] = [kind[r] EXCEPT !.review = TRUE]]
    BY <1>2 DEF Escalate
  <2>2. LET k == [kind[r] EXCEPT !.review = TRUE] IN
          /\ k.tier = kind[r].tier /\ k.plan = kind[r].plan
          /\ k.human = kind[r].human /\ k.type = kind[r].type
    BY DEF Kind
  <2>3. \A x \in Row : /\ kind'[x].tier = kind[x].tier /\ kind'[x].plan = kind[x].plan
                        /\ kind'[x].human = kind[x].human /\ kind'[x].type = kind[x].type
    BY <2>1, <2>2
  <2> QED BY <1>2, <2>3 DEF Escalate
<1>3. CASE Mark(p, r)
  BY <1>3 DEF Mark
<1>4. CASE Insert(p, r)
  <2>1. PICK q \in Row \ Sent :
          /\ status[q] = "absent"
          /\ status' = [status EXCEPT ![q] = "open"]
          /\ kind' = [kind EXCEPT ![q] = ReviewKind(r)]
    BY <1>4 DEF Insert
  <2>2. UNCHANGED <<verdict, gateAge, qaBy, bypassed>>
    BY <1>4 DEF Insert
  <2>3. gateAge[q] = "none"
    BY <2>1 DEF Parked
  <2> QED BY <2>1, <2>2, <2>3
<1> QED BY <1>1, <1>2, <1>3, <1>4 DEF Pass6

LEMMA OtherParked ==
  ASSUME TypeOK, Parked, NEW p \in Poller, AfterSilentReview(p) \/ Dies(p)
  PROVE  \A x \in Row : KeepsParked(x)
<1> USE DEF TypeOK, KeepsParked, Untouched
<1>1. CASE AfterSilentReview(p)
  BY <1>1 DEF AfterSilentReview, Behind, Cleared
<1>2. CASE Dies(p)
  BY <1>2 DEF Dies, row
<1> QED BY <1>1, <1>2

LEMMA ClockParked ==
  ASSUME TypeOK, Parked, NEW r \in Row, Clock(r)
  PROVE  \A x \in Row : KeepsParked(x)
BY DEF TypeOK, KeepsParked, Untouched, Clock, GateAgeGrows, DoneAgeGrows

LEMMA ParkedStep == TypeOK /\ Parked /\ [Next]_vars => Parked'
<1> SUFFICES ASSUME TypeOK, Parked, [Next]_vars PROVE Parked'
  OBVIOUS
<1>1. CASE Next
  <2>1. \A x \in Row : KeepsParked(x)
    BY <1>1, AgentParked, SendParked, JudgeParked, ClockParked, PassParked,
       DispatchParked, OtherParked DEF Next
  <2> QED BY <2>1, ParkedRows
<1>2. CASE UNCHANGED vars
  BY <1>2 DEF Parked, Cleared, NeedsQAFirst, WorkGate, HumanGate, vars, row
<1> QED BY <1>1, <1>2

LEMMA ParkedInit == Init => TypeOK /\ Parked
BY NoKindType DEF Init, TypeOK, Parked, Status, Age, Verdict

\* Whatever the doers, the reviewers, the pollers and a recovery do, no row leaves
\* the gate for done without the verdict its kind of work asks for, but by an ack
\* of the parked row, a done of the failed one, or a requeue of the recovery.
THEOREM GateIsHeld == Spec => []GateHolds
<1>1. TypeOK /\ Parked /\ [Next]_vars => (TypeOK /\ Parked)'
  BY TypeStep, ParkedStep, QAGateAssumption
<1>2. Parked /\ TypeOK => GateHolds
  BY DEF Parked, GateHolds
<1> QED BY ParkedInit, <1>1, <1>2, PTL DEF Spec

\* Only Pass 4 moves the hook of a row that exists.
LEMMA HookKept ==
  ASSUME TypeOK, NEW r \in Row,
         \/ Agent(r) \/ Heal(r) \/ Approve(r) \/ Judge(r) \/ Clock(r)
         \/ \E p \in Poller : \/ Pass3(p, r) \/ Pass5(p, r) \/ Pass6(p, r)
                             \/ AfterSilentReview(p) \/ Dies(p)
  PROVE  hook' = hook
<1>1. CASE Agent(r) \/ Heal(r) \/ Approve(r) \/ Clock(r)
  BY <1>1 DEF Agent, Heal, Clock, Ack, Done, Fail, BlockForAttention, FindWedged,
              Requeue, Approve, GateAgeGrows, DoneAgeGrows
<1>2. CASE Judge(r)
  <2>1. CASE QaPassRead(r)
    BY <2>1 DEF QaPassRead, row
  <2>2. CASE QaPassStandard(r)
    BY <2>2 DEF QaPassStandard
  <2>3. CASE QaPassHighStakes(r)
    BY <2>3 DEF QaPassHighStakes
  <2>4. CASE QaFail(r)
    BY <2>4 DEF QaFail
  <2> QED BY <1>2, <2>1, <2>2, <2>3, <2>4 DEF Judge
<1>3. ASSUME NEW p \in Poller, Pass3(p, r) \/ Pass5(p, r) PROVE hook' = hook
  BY <1>3 DEF Pass3, Pass5, Bounce, Timeout, TrivialClaim, TrivialPass, TrivialFail, row
<1>4. ASSUME NEW p \in Poller, Pass6(p, r) PROVE hook' = hook
  BY <1>4 DEF Pass6, Select, Escalate, Mark, Insert, row
<1>5. ASSUME NEW p \in Poller, AfterSilentReview(p) \/ Dies(p) PROVE hook' = hook
  BY <1>5 DEF AfterSilentReview, Dies, row
<1> QED BY <1>1, <1>2, <1>3, <1>4, <1>5

LEMMA HookStarts ==
  ASSUME TypeOK, Next, NEW r \in Row, hook[r] = "stored", hook'[r] = "running"
  PROVE  MayResume(r)
<1>1. ASSUME NEW x \in Row, NEW k \in Work, Send(x, k) PROVE FALSE
  BY <1>1 DEF Send, TypeOK
<1>2. ASSUME NEW p \in Poller, NEW x \in Row, ResumeStart(p, x) PROVE MayResume(r)
  BY <1>2 DEF ResumeStart, TypeOK
<1>3. ASSUME NEW p \in Poller, NEW x \in Row, ResumeEnd(p, x) PROVE FALSE
  BY <1>3 DEF ResumeEnd, TypeOK
<1> QED BY <1>1, <1>2, <1>3, HookKept DEF Next, Pass4

\* A stored hook runs only behind a cleared row, or one taken round the gate.
THEOREM HooksFollowVerdicts == Spec => HookAfterVerdict
<1> DEFINE Careful == \A r \in Row :
             hook[r] = "stored" /\ hook'[r] = "running" => Cleared(r) \/ r \in bypassed
<1>1. TypeOK /\ Parked /\ [Next]_vars => (TypeOK /\ Parked)'
  BY TypeStep, ParkedStep, QAGateAssumption
<1>2. TypeOK /\ Parked /\ [Next]_vars => [Careful]_vars
  <2>1. ASSUME TypeOK, Parked, Next,
               NEW r \in Row, hook[r] = "stored", hook'[r] = "running"
        PROVE  Cleared(r) \/ r \in bypassed
    BY <2>1, HookStarts DEF MayResume, Parked
  <2> QED BY <2>1
<1> QED BY ParkedInit, <1>1, <1>2, PTL DEF Spec, HookAfterVerdict

-----------------------------------------------------------------------------
(* The timeout.  HumanPaced is inductive together with TypeOK: whatever    *)
(* gives a row an owner, a plan or a review verdict also takes its timeout *)
(* away.                                                                   *)

Spared(r) == ~HumanGate(r) /\ ~kind[r].plan /\ (NeedsQAFirst(r) => r \notin qaBy)

\* What a step may do to one row without disturbing HumanPaced.
KeepsPace(r) ==
  \/ r \notin timedOut'
  \/ status'[r] # "failed"
  \/ /\ r \in timedOut /\ status[r] = "failed"
     /\ kind'[r] = kind[r] /\ (r \in qaBy' => r \in qaBy)
  \/ Spared(r) /\ kind'[r] = kind[r] /\ qaBy' = qaBy

LEMMA PacedRows ==
  ASSUME HumanPaced, \A r \in Row : KeepsPace(r), timedOut' \subseteq Row
  PROVE  HumanPaced'
BY DEF HumanPaced, KeepsPace, Spared, HumanGate, NeedsQAFirst, WorkGate

LEMMA AgentPaced ==
  ASSUME TypeOK, NEW r \in Row, Agent(r) \/ Heal(r) \/ Approve(r) \/ Clock(r)
  PROVE  \A x \in Row : KeepsPace(x)
BY DEF TypeOK, KeepsPace, Agent, Heal, Clock, Ack, Done, Fail, BlockForAttention, Approve,
       FindWedged, Requeue, Close, Park, GateAgeGrows, DoneAgeGrows

LEMMA SendPaced ==
  ASSUME TypeOK, NEW r \in Row, NEW k \in Work, Send(r, k)
  PROVE  \A x \in Row : KeepsPace(x)
BY DEF TypeOK, KeepsPace, Send, Park

LEMMA JudgePaced ==
  ASSUME TypeOK, NEW q \in Row, Judge(q)
  PROVE  \A x \in Row : KeepsPace(x)
<1> USE DEF TypeOK, KeepsPace
<1>1. CASE QaPassRead(q)
  BY <1>1 DEF QaPassRead, row
<1>2. CASE QaPassStandard(q)
  BY <1>2 DEF QaPassStandard, Close
<1>3. CASE QaPassHighStakes(q)
  <2> DEFINE r == parent[q]
  <2>1. CASE r \in qaBy
    BY <1>3, <2>1 DEF QaPassHighStakes
  <2>2. CASE r \notin qaBy
    <3>1. /\ status' = [status EXCEPT ![r] = "input-required"]
          /\ timedOut' = timedOut \ {r}
          /\ qaBy' = qaBy \union {r}
          /\ kind' = [kind EXCEPT ![r] = [kind[r] EXCEPT !.human = FALSE]]
      BY <1>3, <2>2 DEF QaPassHighStakes, Park
    <3>2. ASSUME NEW x \in Row, x # r
          PROVE  status'[x] = status[x] /\ kind'[x] = kind[x] /\ (x \in qaBy' => x \in qaBy)
      BY <3>1, <3>2
    <3>3. r \notin timedOut'
      BY <3>1
    <3> HIDE DEF r
    <3> QED BY <3>1, <3>2, <3>3
  <2> QED BY <2>1, <2>2
<1>4. CASE QaFail(q)
  BY <1>4 DEF QaFail, Park
<1> QED BY <1>1, <1>2, <1>3, <1>4 DEF Judge

LEMMA PassPaced ==
  ASSUME TypeOK, NEW p \in Poller, NEW r \in Row,
         Pass3(p, r) \/ Pass4(p, r) \/ Pass5(p, r)
  PROVE  \A x \in Row : KeepsPace(x)
<1> USE DEF TypeOK, KeepsPace
<1>1. CASE Bounce(p, r)
  BY <1>1 DEF Bounce, Park
<1>2. CASE Timeout(p, r)
  <2>1. Spared(r)
    BY <1>2 DEF Timeout, MayTimeOut, Spared, NeedsQAFirst
  <2> QED BY <1>2, <2>1 DEF Timeout, Close
<1>3. CASE Pass4(p, r)
  BY <1>3 DEF Pass4, ResumeStart, ResumeEnd
<1>4. CASE Pass5(p, r)
  BY <1>4 DEF Pass5, TrivialClaim, TrivialPass, TrivialFail, Park, row
<1> QED BY <1>1, <1>2, <1>3, <1>4 DEF Pass3

LEMMA DispatchPaced ==
  ASSUME TypeOK, NEW p \in Poller, NEW r \in Row, Pass6(p, r)
  PROVE  \A x \in Row : KeepsPace(x)
<1> USE DEF TypeOK, KeepsPace
<1>1. CASE Select(p, r) \/ Mark(p, r)
  BY <1>1 DEF Select, Mark, row
<1>2. CASE Escalate(p, r)
  <2>1. /\ kind' = [kind EXCEPT ![r] = [kind[r] EXCEPT !.review = TRUE]]
        /\ timedOut' = timedOut \ {r}
        /\ UNCHANGED <<status, qaBy>>
    BY <1>2 DEF Escalate
  <2>2. \A x \in Row \ {r} : kind'[x] = kind[x]
    BY <2>1
  <2> QED BY <2>1, <2>2
<1>3. CASE Insert(p, r)
  <2>1. PICK q \in Row \ Sent :
          /\ status' = [status EXCEPT ![q] = "open"]
          /\ kind' = [kind EXCEPT ![q] = ReviewKind(r)]
    BY <1>3 DEF Insert
  <2>2. UNCHANGED <<timedOut, qaBy>>
    BY <1>3 DEF Insert
  <2> QED BY <2>1, <2>2
<1> QED BY <1>1, <1>2, <1>3 DEF Pass6

LEMMA OtherPaced ==
  ASSUME TypeOK, NEW p \in Poller, AfterSilentReview(p) \/ Dies(p)
  PROVE  \A x \in Row : KeepsPace(x)
BY DEF TypeOK, KeepsPace, AfterSilentReview, Behind, Dies, row

LEMMA PacedStep == TypeOK /\ TypeOK' /\ HumanPaced /\ [Next]_vars => HumanPaced'
<1> SUFFICES ASSUME TypeOK, TypeOK', HumanPaced, [Next]_vars PROVE HumanPaced'
  OBVIOUS
<1>1. CASE Next
  <2>1. \A x \in Row : KeepsPace(x)
    BY <1>1, AgentPaced, SendPaced, JudgePaced, PassPaced, DispatchPaced, OtherPaced
       DEF Next
  <2>2. timedOut' \subseteq Row
    BY DEF TypeOK
  <2> QED BY <2>1, <2>2, PacedRows
<1>2. CASE UNCHANGED vars
  BY <1>2 DEF HumanPaced, HumanGate, NeedsQAFirst, WorkGate, vars, row
<1> QED BY <1>1, <1>2

\* Whatever the agents practise, the 30-minute timeout never fails a row that
\* waits for a human, is planned, or passed its review and waits for daen.
THEOREM TimeoutSparesHumans == Spec => []HumanPaced
<1>1. Init => TypeOK /\ HumanPaced
  BY ParkedInit DEF Init, HumanPaced
<1>2. TypeOK /\ HumanPaced /\ [Next]_vars => (TypeOK /\ HumanPaced)'
  BY TypeStep, PacedStep, QAGateAssumption
<1> QED BY <1>1, <1>2, PTL DEF Spec

=============================================================================
