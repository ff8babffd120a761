--------------------------- MODULE Cascade_proofs ---------------------------
(***************************************************************************)
(* Theorems about Cascade, for every set of rows, clients and healers.     *)
(***************************************************************************)
EXTENDS Cascade, TLAPS

-----------------------------------------------------------------------------
(* Type correctness.                                                       *)

USE DEF Status, Terminal, Bad, Age, Notice, Stages, row, procs, healing, driver

LEMMA Reasons ==
  /\ Other \in Reason /\ DependencyFailed \in Reason /\ Named \subseteq Reason
  /\ Other # DependencyFailed
BY DEF Reason, Other, DependencyFailed

LEMMA SendStatusType == SendStatus \subseteq Status \ {"absent", "failed"}
BY DEF SendStatus

\* What a write to one row leaves: its type, the other rows, the memory.
LEMMA SetOne ==
  ASSUME TypeOK, NEW t \in Task, NEW s \in Status, SetStatus(t, s)
  PROVE  /\ status' \in [Task -> Status] /\ returned' \subseteq Task
         /\ status'[t] = s /\ \A u \in Task \ {t} : status'[u] = status[u]
         /\ returned \subseteq returned'
         /\ status[t] \in Terminal /\ s # status[t] => t \in returned'
BY DEF TypeOK, SetStatus, Remember

LEMMA SetMany ==
  ASSUME TypeOK, NEW S \in SUBSET Task, NEW s \in Status, SetAll(S, s)
  PROVE  /\ status' \in [Task -> Status] /\ returned' \subseteq Task
         /\ \A u \in Task : status'[u] = IF u \in S THEN s ELSE status[u]
         /\ returned \subseteq returned'
         /\ \A u \in S : status[u] \in Terminal /\ s # status[u] => u \in returned'
BY DEF TypeOK, SetAll, Remember

LEMMA CommandType ==
  ASSUME TypeOK, NEW t \in Task, Command(t)
  PROVE  TypeOK'
<1> USE Reasons
<1>1. ASSUME NEW s \in SendStatus, Send(t, s)
      PROVE  TypeOK'
  <2>1. s \in Status
    BY SendStatusType
  <2> QED BY <1>1, <2>1, SetOne DEF TypeOK, Send
<1>2. CASE Start(t)
  BY <1>2, SetOne DEF TypeOK, Start
<1>3. CASE Ack(t)
  BY <1>3, SetOne DEF TypeOK, Ack
<1>4. CASE Done(t)
  BY <1>4, SetOne DEF TypeOK, Done, StampDone
<1>5. CASE Fail(t)
  BY <1>5, SetOne DEF TypeOK, Fail, StampDone, SetReason
<1>6. CASE Cancel(t)
  BY <1>6, SetOne DEF TypeOK, Cancel, StampDone
<1>7. ASSUME NEW dep \in Task, BlockOn(t, dep)
      PROVE  TypeOK'
  <2>1. PICK r \in BlockReason : SetReason(t, r)
    BY <1>7 DEF BlockOn
  <2>2. r \in Reason
    BY DEF BlockReason
  <2>3. /\ blockedBy' \in [Task -> SUBSET Task]
        /\ reason' \in [Task -> Reason]
    BY <1>7, <2>1, <2>2 DEF TypeOK, BlockOn, SetReason
  <2>4. SetStatus(t, "blocked") /\ UNCHANGED <<doneAge, gated, verified, notified, procs>>
    BY <1>7 DEF BlockOn
  <2> QED BY <2>3, <2>4, SetOne DEF TypeOK
<1>8. CASE BlockForAttention(t)
  BY <1>8, SetOne DEF TypeOK, BlockForAttention, SetReason
<1> QED BY <1>1, <1>2, <1>3, <1>4, <1>5, <1>6, <1>7, <1>8 DEF Command

LEMMA PassType ==
  ASSUME TypeOK, NEW t \in Task, Pass(t)
  PROVE  TypeOK'
<1> USE Reasons
<1>1. CASE Claim(t)
  BY <1>1, SetOne DEF TypeOK, Claim
<1>2. CASE Requeue(t)
  BY <1>2, SetOne DEF TypeOK, Requeue
<1>3. CASE AutoResolve(t)
  <2>1. CASE status[t] = "blocked"
    BY <1>3, <2>1, SetOne DEF TypeOK, AutoResolve, SetReason
  <2>2. CASE status[t] # "blocked"
    BY <1>3, <2>2 DEF TypeOK, AutoResolve
  <2> QED BY <2>1, <2>2
<1>4. CASE Ping(t)
  BY <1>4 DEF TypeOK, Ping
<1>5. CASE Bounce(t)
  BY <1>5, SetOne DEF TypeOK, Bounce
<1>6. CASE Approve(t)
  BY <1>6, SetOne DEF TypeOK, Approve, StampDone
<1>7. CASE GrowOld(t)
  BY <1>7 DEF TypeOK, GrowOld
<1>8. CASE CheckStart(t) \/ CheckPasses(t)
  BY <1>8 DEF TypeOK, CheckStart, CheckPasses
<1>9. CASE CheckFails(t)
  BY <1>9, SetOne DEF TypeOK, CheckFails, SetReason
<1>10. CASE QaPass(t)
  <2>1. CASE SetStatus(t, "done") /\ StampDone(t) /\ UNCHANGED reason
    BY <1>10, <2>1, SetOne DEF TypeOK, QaPass, StampDone
  <2>2. CASE SetStatus(t, "input-required") /\ SetReason(t, Other) /\ UNCHANGED doneAge
    BY <1>10, <2>2, SetOne DEF TypeOK, QaPass, SetReason
  <2> QED BY <1>10, <2>1, <2>2 DEF QaPass
<1>11. CASE QaFail(t)
  BY <1>11, SetOne DEF TypeOK, QaFail
<1> QED BY <1>1, <1>2, <1>3, <1>4, <1>5, <1>6, <1>7, <1>8, <1>9, <1>10, <1>11 DEF Pass

LEMMA ChainType ==
  ASSUME TypeOK, NEW c \in Client, Chain(c)
  PROVE  TypeOK'
<1>1. ASSUME NEW id \in Task, NEW dep \in Task, ChainCheck(c, id, dep)
      PROVE  TypeOK'
  BY <1>1 DEF TypeOK, ChainCheck
<1>2. ASSUME NEW id \in Task, NEW dep \in Task, ChainWrite(c, id, dep)
      PROVE  TypeOK'
  <2>1. ASSUME Exists(id) /\ dep \notin blockedBy[id]
        PROVE  /\ blockedBy' \in [Task -> SUBSET Task]
               /\ status' \in [Task -> Status]
               /\ reason' \in [Task -> Reason]
    <3> USE Reasons
    <3>1. blockedBy' = [blockedBy EXCEPT ![id] = blockedBy[id] \union {dep}]
      BY <1>2, <2>1 DEF ChainWrite
    <3>2. blockedBy[id] \union {dep} \in SUBSET Task
      BY DEF TypeOK
    <3>3. blockedBy' \in [Task -> SUBSET Task]
      BY <3>1, <3>2 DEF TypeOK
    <3>4. CASE status[id] = "pending"
      BY <1>2, <2>1, <3>3, <3>4 DEF TypeOK, ChainWrite
    <3>5. CASE status[id] # "pending"
      BY <1>2, <2>1, <3>3, <3>5 DEF TypeOK, ChainWrite
    <3> QED BY <3>4, <3>5
  <2>2. ASSUME ~(Exists(id) /\ dep \notin blockedBy[id])
        PROVE  /\ blockedBy' \in [Task -> SUBSET Task]
               /\ status' \in [Task -> Status]
               /\ reason' \in [Task -> Reason]
    BY <1>2, <2>2 DEF TypeOK, ChainWrite
  <2>3. chaining' \in [Client -> {Idle} \union (Task \X Task)]
    <3>1. chaining' = [chaining EXCEPT ![c] = Idle]
      BY <1>2 DEF ChainWrite
    <3> QED BY <3>1 DEF TypeOK
  <2>4. UNCHANGED <<doneAge, gated, verified, notified, returned, healing, driver>>
    BY <1>2 DEF ChainWrite
  <2> QED BY <2>1, <2>2, <2>3, <2>4 DEF TypeOK
<1>3. CASE ChainAbort(c)
  BY <1>3 DEF TypeOK, ChainAbort, Idle
<1> QED BY <1>1, <1>2, <1>3 DEF Chain

LEMMA HealType ==
  ASSUME TypeOK, (\E h \in Healer : Heal(h)) \/ Janitor
  PROVE  TypeOK'
<1>1. ASSUME NEW h \in Healer, FindWedged(h)
      PROVE  TypeOK'
  BY <1>1 DEF TypeOK, FindWedged, With
<1>2. ASSUME NEW h \in Healer, RequeueWedged(h)
      PROVE  TypeOK'
  <2>1. wedged[h] \in SUBSET Task /\ SetAll(wedged[h], "pending")
    BY <1>2 DEF TypeOK, RequeueWedged
  <2> QED BY <1>2, <2>1, SetMany DEF TypeOK, RequeueWedged
<1>3. ASSUME NEW h \in Healer, ForgetWedged(h)
      PROVE  TypeOK'
  BY <1>3 DEF TypeOK, ForgetWedged
<1>4. CASE ListNamed
  <2>1. listed' \subseteq Task \X Task
    BY <1>4 DEF ListNamed
  <2> QED BY <1>4, <2>1 DEF TypeOK, ListNamed
<1>5. ASSUME NEW t \in Task, NEW d \in Task, FindCleared(t, d)
      PROVE  TypeOK'
  BY <1>5 DEF TypeOK, FindCleared
<1> QED BY <1>1, <1>2, <1>3, <1>4, <1>5 DEF Heal, Janitor

\* The sets the driver writes.
LEMMA TickSets ==
  Ready \in SUBSET Task /\ Orphaned \in SUBSET Task /\ Recoverable \in SUBSET Task
BY DEF Ready, Orphaned, Wired, Recoverable, DepFailed, With

LEMMA TickType ==
  ASSUME TypeOK, LoopDriver \/ TickDies
  PROVE  TypeOK'
<1> USE Reasons
<1>1. CASE UnblockReady
  BY <1>1, TickSets, SetMany DEF TypeOK, UnblockReady
<1>2. CASE SweepOrphans
  BY <1>2, TickSets, SetMany DEF TypeOK, SweepOrphans, SetReasons
<1>3. CASE NotifyDaen
  <2>1. PICK late \in SUBSET Task : notified' =
          [t \in Task |-> IF t \in late \union (swept \cap DepFailed) /\ notified[t] = "none"
                          THEN "decision" ELSE notified[t]]
    BY <1>3 DEF NotifyDaen, DepFailed, With
  <2>2. notified' \in [Task -> Notice]
    BY <2>1 DEF TypeOK
  <2> QED BY <1>3, <2>2 DEF TypeOK, NotifyDaen
<1>4. CASE RecoverRestored
  BY <1>4, TickSets, SetMany DEF TypeOK, RecoverRestored, SetReasons
<1>5. CASE TickDies
  BY <1>5 DEF TypeOK, TickDies
<1> QED BY <1>1, <1>2, <1>3, <1>4, <1>5 DEF LoopDriver

LEMMA TypeStep == TypeOK /\ [Next]_vars => TypeOK'
<1> SUFFICES ASSUME TypeOK, [Next]_vars PROVE TypeOK'
  OBVIOUS
<1>1. CASE UNCHANGED vars
  BY <1>1 DEF TypeOK, vars
<1>2. CASE Next
  BY <1>2, CommandType, PassType, ChainType, HealType, TickType DEF Next
<1> QED BY <1>1, <1>2

\* Every column holds what the queries of these programs expect of it: whatever
\* the commands, the poller, the healers, the driver and the clients of fleet
\* chain do.
THEOREM TypeCorrect == Spec => []TypeOK
<1>1. Init => TypeOK
  BY Reasons DEF Init, TypeOK, Idle
<1> QED BY <1>1, TypeStep, PTL DEF Spec

-----------------------------------------------------------------------------
(* fleet chain keeps the dependencies acyclic, provided commands do not     *)
(* overlap and nobody writes blocked_by with fleet block --dep.             *)

\* At most one client is between its query and its UPDATE.
OneAtATime ==
  \A c, d \in Client : chaining[c] # Idle /\ chaining[d] # Idle => c = d

\* The graph has not changed since the query a client is about to act upon.
ChainSafe ==
  \A c \in Client : \A id, dep \in Task :
    chaining[c] = <<id, dep>> => WalkAvoids(id, dep)

AcyclicInv == TypeOK /\ Acyclic /\ ChainSafe

\* An edge from outside a closed set into it closes no cycle.
LEMMA EdgeKeepsAcyclic ==
  ASSUME TypeOK, Acyclic,
         NEW id \in Task, NEW dep \in Task, WalkAvoids(id, dep),
         blockedBy' = [blockedBy EXCEPT ![id] = @ \union {dep}]
  PROVE  Acyclic'
<1>1. PICK C \in SUBSET Task : dep \in C /\ id \notin C /\ Closed(C)
  BY DEF WalkAvoids
<1> SUFFICES ASSUME NEW S \in SUBSET Task, S # {}
             PROVE  \E t \in S : blockedBy'[t] \cap S = {}
  BY DEF Acyclic, AcyclicOn
<1>2. CASE S \cap C = {}
  <2>1. PICK t \in S : blockedBy[t] \cap S = {}
    BY DEF Acyclic, AcyclicOn
  <2>2. blockedBy'[t] \subseteq blockedBy[t] \union {dep}
    BY DEF TypeOK
  <2> QED BY <1>1, <1>2, <2>1, <2>2
<1>3. CASE S \cap C # {}
  <2>1. PICK t \in S \cap C : blockedBy[t] \cap (S \cap C) = {}
    BY <1>3 DEF Acyclic, AcyclicOn
  <2>2. blockedBy[t] \subseteq C
    BY <1>1 DEF Closed
  <2>3. blockedBy'[t] = blockedBy[t]
    BY <1>1 DEF TypeOK
  <2> QED BY <2>1, <2>2, <2>3
<1> QED BY <1>2, <1>3

\* A step that writes neither blocked_by nor, but for ending it, a chain command.
LEMMA OtherStepsAcyclic ==
  ASSUME AcyclicInv, UNCHANGED blockedBy,
         \A c \in Client : chaining'[c] \in {chaining[c], Idle}
  PROVE  Acyclic' /\ ChainSafe'
<1>1. Acyclic'
  BY DEF AcyclicInv, Acyclic, AcyclicOn
<1>2. ASSUME NEW c \in Client, NEW id \in Task, NEW dep \in Task,
             chaining'[c] = <<id, dep>>
      PROVE  WalkAvoids(id, dep)'
  <2>1. chaining[c] = <<id, dep>>
    BY <1>2 DEF Idle
  <2>2. WalkAvoids(id, dep)
    BY <2>1 DEF AcyclicInv, ChainSafe
  <2> QED BY <2>2 DEF WalkAvoids, Closed, AcyclicOn
<1> QED BY <1>1, <1>2 DEF ChainSafe

LEMMA ChainAcyclic ==
  ASSUME OneAtATime, OneAtATime', AcyclicInv, NEW c \in Client, Chain(c)
  PROVE  Acyclic' /\ ChainSafe'
<1>1. ASSUME NEW id \in Task, NEW dep \in Task, ChainCheck(c, id, dep)
      PROVE  Acyclic' /\ ChainSafe'
  <2>1. UNCHANGED blockedBy
    BY <1>1 DEF ChainCheck
  <2>2. Acyclic'
    BY <2>1 DEF AcyclicInv, Acyclic, AcyclicOn
  <2>3. ASSUME NEW d \in Client, NEW x \in Task, NEW y \in Task,
               chaining'[d] = <<x, y>>
        PROVE  WalkAvoids(x, y)'
    <3>0. <<x, y>> # Idle /\ <<id, dep>> # Idle
      BY DEF Idle
    <3>1. d = c
      BY <1>1, <2>3, <3>0 DEF OneAtATime, ChainCheck, AcyclicInv, TypeOK, Idle
    <3>2. x = id /\ y = dep
      BY <1>1, <2>3, <3>1 DEF ChainCheck, AcyclicInv, TypeOK
    <3>3. WalkAvoids(x, y)
      BY <1>1, <3>2 DEF ChainCheck
    <3> QED BY <2>1, <3>3 DEF WalkAvoids, Closed, AcyclicOn
  <2> QED BY <2>2, <2>3 DEF ChainSafe
<1>2. ASSUME NEW id \in Task, NEW dep \in Task, ChainWrite(c, id, dep)
      PROVE  Acyclic' /\ ChainSafe'
  <2>1. WalkAvoids(id, dep)
    BY <1>2 DEF ChainWrite, AcyclicInv, ChainSafe
  <2>2. Acyclic'
    <3>1. CASE Exists(id) /\ dep \notin blockedBy[id]
      BY <1>2, <2>1, <3>1, EdgeKeepsAcyclic DEF ChainWrite, AcyclicInv
    <3>2. CASE ~(Exists(id) /\ dep \notin blockedBy[id])
      <4>1. UNCHANGED blockedBy
        BY <1>2, <3>2 DEF ChainWrite
      <4> QED BY <4>1 DEF AcyclicInv, Acyclic, AcyclicOn
    <3> QED BY <3>1, <3>2
  <2>3. \A d \in Client : chaining'[d] = Idle
    <3>1. <<id, dep>> # Idle
      BY DEF Idle
    <3> QED BY <1>2, <3>1 DEF OneAtATime, ChainWrite, AcyclicInv, TypeOK
  <2>4. ASSUME NEW d \in Client, NEW x \in Task, NEW y \in Task, chaining'[d] = <<x, y>>
        PROVE  FALSE
    <3>1. <<x, y>> = <<>>
      BY <2>3, <2>4 DEF Idle
    <3> QED BY <3>1
  <2> QED BY <2>2, <2>4 DEF ChainSafe
<1>3. ASSUME ChainAbort(c)
      PROVE  Acyclic' /\ ChainSafe'
  <2>1. UNCHANGED blockedBy /\ \A d \in Client : chaining'[d] \in {chaining[d], Idle}
    BY <1>3 DEF ChainAbort, AcyclicInv, TypeOK
  <2> QED BY <2>1, OtherStepsAcyclic
<1> QED BY <1>1, <1>2, <1>3 DEF Chain

\* The commands that are not chain leave the graph and the chain commands alone.
LEMMA OtherStepsKeepGraph ==
  ASSUME \/ \E t \in Task : Command(t) \/ Pass(t)
         \/ \E h \in Healer : Heal(h)
         \/ Janitor \/ LoopDriver \/ TickDies \/ UNCHANGED vars
  PROVE  UNCHANGED chaining /\ ("block" \notin Practices => UNCHANGED blockedBy)
<1>1. ASSUME NEW t \in Task, Command(t)
      PROVE  UNCHANGED chaining /\ ("block" \notin Practices => UNCHANGED blockedBy)
  BY <1>1 DEF Command, Send, Start, Ack, Done, Fail, Cancel, BlockOn, BlockForAttention
<1>2. ASSUME NEW t \in Task, Pass(t)
      PROVE  UNCHANGED <<blockedBy, chaining>>
  BY <1>2 DEF Pass, Claim, Requeue, AutoResolve, Ping, Bounce, CheckStart, CheckPasses,
              CheckFails, QaPass, QaFail, Approve, GrowOld
<1>3. ASSUME (\E h \in Healer : Heal(h)) \/ Janitor
      PROVE  UNCHANGED <<blockedBy, chaining>>
  BY <1>3 DEF Heal, FindWedged, RequeueWedged, ForgetWedged, Janitor, ListNamed, FindCleared
<1>4. ASSUME LoopDriver \/ TickDies \/ UNCHANGED vars
      PROVE  UNCHANGED <<blockedBy, chaining>>
  BY <1>4 DEF LoopDriver, UnblockReady, SweepOrphans, NotifyDaen, RecoverRestored,
              TickDies, vars
<1> QED BY <1>1, <1>2, <1>3, <1>4

\* While no two commands `fleet chain` overlap, however many clients give them,
\* and dependencies are written by nothing else, the rows never wait for each
\* other in a circle, however many rows there are.
THEOREM ChainKeepsAcyclic ==
  ASSUME "block" \notin Practices
  PROVE  Spec /\ []OneAtATime => []Acyclic
<1>1. Init => AcyclicInv
  <2> SUFFICES ASSUME Init PROVE AcyclicInv
    OBVIOUS
  <2>1. TypeOK
    BY Reasons DEF Init, TypeOK, Idle
  <2>2. Acyclic
    BY DEF Init, Acyclic, AcyclicOn
  <2>3. ChainSafe
    BY DEF Init, ChainSafe, Idle
  <2> QED BY <2>1, <2>2, <2>3 DEF AcyclicInv
<1>2. OneAtATime /\ OneAtATime' /\ AcyclicInv /\ [Next]_vars => AcyclicInv'
  <2> SUFFICES ASSUME OneAtATime, OneAtATime', AcyclicInv, [Next]_vars PROVE AcyclicInv'
    OBVIOUS
  <2>1. TypeOK'
    BY TypeStep DEF AcyclicInv
  <2>2. CASE \E c \in Client : Chain(c)
    BY <2>1, <2>2, ChainAcyclic DEF AcyclicInv
  <2>3. CASE ~ \E c \in Client : Chain(c)
    <3>1. UNCHANGED <<blockedBy, chaining>>
      BY <2>3, OtherStepsKeepGraph DEF Next
    <3> QED BY <2>1, <3>1, OtherStepsAcyclic DEF AcyclicInv
  <2> QED BY <2>2, <2>3
<1>3. AcyclicInv => Acyclic
  BY DEF AcyclicInv
<1> QED BY <1>1, <1>2, <1>3, PTL DEF Spec

-----------------------------------------------------------------------------
(* Outcomes are final but for what takes them back, and nobody works on a   *)
(* row before its blockers are done, when a row has one blocker at most.    *)

OneBlocker == \A t \in Task : \A x, y \in blockedBy[t] : x = y

\* What the orphan sweep failed has a blocker that came to nothing, and which is
\* still there unless it was taken back.
FailedForCause ==
  \A t \in DepFailed : blockedBy[t] # {} /\ blockedBy[t] \subseteq With(Bad) \union returned

LinearInv == TypeOK /\ OneBlocker /\ FailedForCause

\* What is assumed of the way the rows are used.
LinearUse == {"fan-in", "reopen"} \cap Practices = {}

Working == {"pending", "delivered", "in_progress"}

\* The janitor holds no row whose reason names another one.
Unnamed == listed = {} /\ cleared = {}

UnsentFree == \A t \in Task : status[t] = "absent" => blockedBy[t] = {}

\* What a row waits for has been done.
Met(t) == blockedBy[t] \subseteq With({"done"}) \union returned

\* What a healer is about to requeue was released before.
SuspectsMet == \A t \in Suspects : status[t] \notin {"absent", "blocked"} /\ Met(t)

\* A row that a client is about to chain for the first time is not worked on, nor
\* about to be.
ChainPlanned ==
  \A c \in Client : \A id, dep \in Task :
    chaining[c] = <<id, dep>> =>
      \/ blockedBy[id] # {}
      \/ status[id] \notin Working \union {"absent"} /\ id \notin Suspects

\* Only what exists and has a check is checked.
Checking ==
  \A t \in Task : verified[t] = "checking" => t \in Trivial /\ status[t] # "absent"

DepsInv ==
  LinearInv /\ DepsDone /\ Unnamed /\ UnsentFree /\ SuspectsMet /\ ChainPlanned /\ Checking

\* A healer requeues a row that was blocked since it looked, so recovery and
\* fleet block --dep exclude each other.
PlannedUse ==
  /\ LinearUse
  /\ {"ack", "late", "named"} \cap Practices = {}
  /\ "block" \notin Practices \/ Healer = {}

\* What has ended stays as it ended: the action of OutcomeFinal.
EndedStay ==
  \A t \in Task :
    status[t] \in Terminal =>
      status'[t] = status[t] \/ TakenBack(t) \/ Reissued(t) \/ Revived(t)

\* What leaves an end is remembered.
Remembered ==
  /\ returned \subseteq returned'
  /\ \A t \in Task : status[t] \in Terminal => status'[t] = status[t] \/ t \in returned'

\* No row joins those the sweep failed, and those that stay keep their blockers.
CausesKept == \A t \in DepFailed' : t \in DepFailed /\ blockedBy'[t] = blockedBy[t]

\* The steps of a command and of a pass concern one row.
OthersKept(t) ==
  \A u \in Task \ {t} :
    /\ status'[u] = status[u] /\ reason'[u] = reason[u] /\ blockedBy'[u] = blockedBy[u]
    /\ verified'[u] = verified[u]

LEMMA CommandOneRow ==
  ASSUME TypeOK, NEW t \in Task, Command(t)
  PROVE  OthersKept(t)
<1> USE DEF TypeOK, OthersKept, SetStatus
<1>1. CASE \E s \in SendStatus : Send(t, s)
  BY <1>1 DEF Send
<1>2. CASE Start(t)
  BY <1>2 DEF Start
<1>3. CASE Ack(t)
  BY <1>3 DEF Ack
<1>4. CASE Done(t)
  BY <1>4 DEF Done
<1>5. CASE Fail(t)
  BY <1>5 DEF Fail, SetReason
<1>6. CASE Cancel(t)
  BY <1>6 DEF Cancel
<1>7. ASSUME NEW dep \in Task, BlockOn(t, dep)
      PROVE  OthersKept(t)
  <2>1. PICK r \in BlockReason : reason' = [reason EXCEPT ![t] = r]
    BY <1>7 DEF BlockOn, SetReason
  <2> QED BY <1>7, <2>1 DEF BlockOn
<1>8. CASE BlockForAttention(t)
  BY <1>8 DEF BlockForAttention, SetReason
<1> QED BY <1>1, <1>2, <1>3, <1>4, <1>5, <1>6, <1>7, <1>8 DEF Command

LEMMA PassOneRow ==
  ASSUME TypeOK, NEW t \in Task, Pass(t)
  PROVE  OthersKept(t)
<1> USE DEF TypeOK, OthersKept, SetStatus
<1>1. CASE Claim(t) \/ Requeue(t) \/ Ping(t) \/ GrowOld(t) \/ Bounce(t)
  BY <1>1 DEF Claim, Requeue, Ping, GrowOld, Bounce
<1>2. CASE AutoResolve(t)
  BY <1>2 DEF AutoResolve, SetReason
<1>3. CASE CheckStart(t) \/ CheckPasses(t) \/ CheckFails(t)
  BY <1>3 DEF CheckStart, CheckPasses, CheckFails, SetReason
<1>4. CASE QaPass(t)
  BY <1>4 DEF QaPass, SetReason
<1>5. CASE QaFail(t) \/ Approve(t)
  BY <1>5 DEF QaFail, Approve
<1> QED BY <1>1, <1>2, <1>3, <1>4, <1>5 DEF Pass

\* What that one row has to satisfy.
RowLinear(t) ==
  /\ status[t] \in Terminal => status'[t] = status[t] \/ TakenBack(t)
  /\ returned \subseteq returned'
  /\ status[t] \in Terminal => status'[t] = status[t] \/ t \in returned'
  /\ status'[t] = "failed" /\ reason'[t] = DependencyFailed =>
       status[t] = "failed" /\ reason[t] = DependencyFailed /\ blockedBy'[t] = blockedBy[t]
  /\ \A x, y \in blockedBy'[t] : x = y

LEMMA OneRowLinear ==
  ASSUME OneBlocker, NEW t \in Task, OthersKept(t), RowLinear(t)
  PROVE  EndedStay /\ Remembered /\ CausesKept /\ OneBlocker'
<1>1. EndedStay /\ Remembered
  BY DEF EndedStay, Remembered, OthersKept, RowLinear
<1>2. CausesKept
  BY DEF CausesKept, OthersKept, RowLinear, DepFailed, With
<1>3. OneBlocker'
  BY DEF OneBlocker, OthersKept, RowLinear
<1> QED BY <1>1, <1>2, <1>3

LEMMA CommandLinear ==
  ASSUME LinearUse, LinearInv, NEW t \in Task, Command(t)
  PROVE  RowLinear(t)
<1> USE Reasons DEF RowLinear
<1>0. /\ TypeOK /\ reason \in [Task -> Reason] /\ blockedBy \in [Task -> SUBSET Task]
      /\ \A x, y \in blockedBy[t] : x = y
  BY DEF LinearInv, TypeOK, OneBlocker
<1>9. status[t] \in Terminal => ~MayTouch(t)
  BY DEF LinearUse, MayTouch
<1>1. ASSUME NEW s \in SendStatus, Send(t, s)
      PROVE  RowLinear(t)
  <2>1. s \in Status /\ s # "failed"
    BY SendStatusType
  <2> QED BY <1>0, <1>1, <2>1, SetOne DEF Send, Exists
<1>2. CASE Start(t)
  BY <1>0, <1>2, SetOne DEF Start
<1>3. CASE Ack(t)
  BY <1>0, <1>3, SetOne DEF Ack
<1>4. CASE Done(t)
  BY <1>0, <1>4, <1>9, SetOne DEF Done
<1>5. CASE Fail(t)
  BY <1>0, <1>5, <1>9, SetOne DEF Fail, SetReason
<1>6. CASE Cancel(t)
  BY <1>0, <1>6, SetOne DEF Cancel
<1>7. ASSUME NEW dep \in Task, BlockOn(t, dep)
      PROVE  RowLinear(t)
  BY <1>0, <1>7, <1>9, SetOne DEF BlockOn
<1>8. CASE BlockForAttention(t)
  BY <1>0, <1>8, <1>9, SetOne DEF BlockForAttention
<1> QED BY <1>1, <1>2, <1>3, <1>4, <1>5, <1>6, <1>7, <1>8 DEF Command

LEMMA PassLinear ==
  ASSUME LinearUse, LinearInv, NEW t \in Task, Pass(t)
  PROVE  RowLinear(t)
<1> USE Reasons DEF RowLinear
<1>0. /\ TypeOK /\ reason \in [Task -> Reason]
      /\ \A x, y \in blockedBy[t] : x = y
  BY DEF LinearInv, TypeOK, OneBlocker
<1>1. CASE Claim(t) \/ Requeue(t)
  BY <1>0, <1>1, SetOne DEF Claim, Requeue
<1>3. CASE AutoResolve(t)
  <2>1. CASE status[t] = "blocked"
    BY <1>0, <1>3, <2>1, SetOne DEF AutoResolve
  <2>2. CASE status[t] # "blocked"
    BY <1>0, <1>3, <2>2 DEF AutoResolve
  <2> QED BY <2>1, <2>2
<1>4. CASE Ping(t) \/ GrowOld(t) \/ CheckStart(t) \/ CheckPasses(t)
  BY <1>0, <1>4 DEF Ping, GrowOld, CheckStart, CheckPasses
<1>5. CASE Bounce(t)
  BY <1>0, <1>5, SetOne DEF Bounce, TakenBack
<1>6. CASE Approve(t)
  BY <1>0, <1>6, SetOne DEF Approve
<1>7. CASE CheckFails(t)
  <2>1. verified'[t] = "no"
    BY <1>0, <1>7 DEF CheckFails, TypeOK
  <2> QED BY <1>0, <1>7, <2>1, SetOne DEF CheckFails, TakenBack
<1>8. CASE QaPass(t) \/ QaFail(t)
  <2>1. verified'[t] = "yes" /\ "verdict" \in Practices /\ t \in gated /\ UNCHANGED blockedBy
    BY <1>0, <1>8 DEF QaPass, QaFail, TypeOK
  <2>2. SetStatus(t, "done") \/ SetStatus(t, "input-required")
    BY <1>8 DEF QaPass, QaFail
  <2> QED BY <1>0, <2>1, <2>2, SetOne DEF TakenBack
<1> QED BY <1>1, <1>3, <1>4, <1>5, <1>6, <1>7, <1>8 DEF Pass

\* A write that changes a row finds it without dependencies.
LEMMA FirstEdge ==
  ASSUME LinearUse, NEW c \in Client, NEW id \in Task, NEW dep \in Task,
         ChainWrite(c, id, dep), dep \notin blockedBy[id]
  PROVE  blockedBy[id] = {}
BY DEF LinearUse, ChainWrite

LEMMA ChainLinear ==
  ASSUME LinearUse, LinearInv, NEW c \in Client, NEW id \in Task, NEW dep \in Task,
         ChainWrite(c, id, dep)
  PROVE  OthersKept(id) /\ RowLinear(id)
<1>0. /\ status \in [Task -> Status] /\ reason \in [Task -> Reason]
      /\ blockedBy \in [Task -> SUBSET Task]
      /\ \A x, y \in blockedBy[id] : x = y
  BY DEF LinearInv, TypeOK, OneBlocker
<1>3. UNCHANGED <<returned, verified>>
  BY DEF ChainWrite
<1>1. CASE Exists(id) /\ dep \notin blockedBy[id]
  <2>1. blockedBy[id] = {} /\ ~(status[id] = "failed" /\ reason[id] = DependencyFailed)
    BY <1>1, FirstEdge DEF LinearInv, FailedForCause, DepFailed, With
  <2>2. blockedBy' = [blockedBy EXCEPT ![id] = {dep}]
    BY <1>1, <2>1 DEF ChainWrite
  <2>3. CASE status[id] = "pending"
    <3>1. /\ status' = [status EXCEPT ![id] = "blocked"]
          /\ reason' = [reason EXCEPT ![id] = Other]
      BY <1>1, <2>3 DEF ChainWrite
    <3> QED BY <1>0, <1>3, <2>2, <2>3, <3>1 DEF OthersKept, RowLinear
  <2>4. CASE status[id] # "pending"
    <3>1. status' = status /\ reason' = reason
      BY <1>1, <2>4 DEF ChainWrite
    <3> QED BY <1>0, <1>3, <2>1, <2>2, <3>1 DEF OthersKept, RowLinear
  <2> QED BY <2>3, <2>4
<1>2. CASE ~(Exists(id) /\ dep \notin blockedBy[id])
  <2>1. UNCHANGED <<status, blockedBy, reason>>
    BY <1>2 DEF ChainWrite
  <2> QED BY <1>0, <1>3, <2>1 DEF OthersKept, RowLinear
<1> QED BY <1>1, <1>2

\* What is recovered was failed for a blocker, and that one has been taken back.
LEMMA RecoveredForCause ==
  ASSUME LinearInv, NEW t \in Recoverable
  PROVE  /\ t \in DepFailed /\ blockedBy[t] # {} /\ blockedBy[t] \subseteq returned
         /\ blockedBy[t] \cap returned \cap With({"done", "input-required"}) # {}
<1>1. PICK d \in blockedBy[t] : status[d] \in {"done", "input-required"}
  BY DEF Recoverable, Restored, With
<1>2. t \in DepFailed /\ blockedBy[t] \subseteq With(Bad) \union returned
  BY DEF Recoverable, LinearInv, FailedForCause
<1>3. t \in Task /\ \A x \in blockedBy[t] : x = d
  BY <1>1 DEF Recoverable, DepFailed, With, LinearInv, OneBlocker
<1>4. d \in returned /\ d \in Task
  BY <1>1, <1>2, <1>3 DEF With, LinearInv, TypeOK
<1> QED BY <1>1, <1>2, <1>3, <1>4 DEF With

LEMMA OrphansHaveCause ==
  ASSUME LinearInv, NEW t \in Orphaned
  PROVE  status[t] = "blocked" /\ blockedBy[t] # {} /\ blockedBy[t] \subseteq With(Bad)
BY DEF LinearInv, OneBlocker, Orphaned, Wired, With

\* A step that remembers what it takes back keeps the cause of every orphan's failure.
LEMMA CausesStay ==
  ASSUME LinearInv, Remembered,
         \A t \in DepFailed' : t \in DepFailed \union Orphaned /\ blockedBy'[t] = blockedBy[t]
  PROVE  FailedForCause'
<1> SUFFICES ASSUME NEW t \in DepFailed'
             PROVE  blockedBy'[t] # {} /\ blockedBy'[t] \subseteq With(Bad)' \union returned'
  BY DEF FailedForCause
<1>1. blockedBy[t] # {} /\ blockedBy[t] \subseteq With(Bad) \union returned
  BY OrphansHaveCause DEF LinearInv, FailedForCause
<1>2. With(Bad) \union returned \subseteq With(Bad)' \union returned'
  BY DEF Remembered, With
<1> QED BY <1>1, <1>2

\* A step of the driver or of a healer writes a set of rows at once.
LEMMA SetManyRemembers ==
  ASSUME TypeOK, NEW S \in SUBSET Task, NEW s \in Status, SetAll(S, s)
  PROVE  Remembered
BY SetMany DEF Remembered

LEMMA LinearStep ==
  ASSUME LinearUse, LinearInv, [Next]_vars
  PROVE  LinearInv' /\ EndedStay /\ Remembered
<1> USE Reasons
<1>0. TypeOK /\ TypeOK'
  BY TypeStep DEF LinearInv
<1>2. CASE SweepOrphans
  <2>0. SetAll(Orphaned, "failed")
    BY <1>2 DEF SweepOrphans
  <2>1. Remembered
    BY <1>0, <2>0, TickSets, SetManyRemembers
  <2>2. EndedStay /\ OneBlocker'
    BY <1>0, <1>2, <2>0, TickSets, SetMany, OrphansHaveCause
       DEF SweepOrphans, LinearInv, EndedStay, OneBlocker
  <2>3. \A t \in DepFailed' : t \in DepFailed \union Orphaned /\ blockedBy'[t] = blockedBy[t]
    BY <1>2 DEF SweepOrphans, SetAll, SetReasons, DepFailed, With
  <2> QED BY <1>0, <2>1, <2>2, <2>3, CausesStay DEF LinearInv
<1>3. ASSUME EndedStay, Remembered, CausesKept, OneBlocker'
      PROVE  LinearInv' /\ EndedStay /\ Remembered
  BY <1>0, <1>3, CausesStay DEF CausesKept, LinearInv
<1>4. CASE UnblockReady
  <2>1. SetAll(Ready, "pending") /\ UNCHANGED <<blockedBy, reason>>
    BY <1>4 DEF UnblockReady
  <2>2. \A t \in Ready : status[t] = "blocked"
    BY DEF Ready, Wired, With
  <2>3. EndedStay /\ CausesKept
    BY <1>0, <2>1, <2>2, TickSets, SetMany DEF EndedStay, CausesKept, DepFailed, With
  <2>4. OneBlocker' /\ Remembered
    BY <1>0, <2>1, TickSets, SetManyRemembers DEF LinearInv, OneBlocker
  <2> QED BY <1>3, <2>3, <2>4
<1>5. CASE UNCHANGED row
  BY <1>3, <1>5 DEF CausesKept, LinearInv, OneBlocker, EndedStay, Remembered, DepFailed, With
<1>14. CASE NotifyDaen
  BY <1>3, <1>14 DEF NotifyDaen, CausesKept, LinearInv, OneBlocker, EndedStay, Remembered,
                     DepFailed, With
<1>6. CASE RecoverRestored
  <2>1. /\ SetAll(Recoverable, "pending") /\ SetReasons(Recoverable, Other)
        /\ UNCHANGED blockedBy
    BY <1>6 DEF RecoverRestored
  <2>2. \A t \in Recoverable : t \in DepFailed /\ blockedBy[t] \cap returned # {}
    BY RecoveredForCause
  <2>3. EndedStay
    BY <1>0, <2>1, <2>2, TickSets, SetMany DEF EndedStay, Revived
  <2>4. CausesKept
    BY <1>0, <2>1, TickSets, SetMany DEF SetReasons, CausesKept, DepFailed, With
  <2>5. OneBlocker' /\ Remembered
    BY <1>0, <2>1, TickSets, SetManyRemembers DEF LinearInv, OneBlocker
  <2> QED BY <1>3, <2>3, <2>4, <2>5
<1>7. ASSUME NEW t \in Task, Command(t)
      PROVE  LinearInv' /\ EndedStay /\ Remembered
  BY <1>3, <1>7, CommandLinear, CommandOneRow, OneRowLinear DEF LinearInv
<1>8. ASSUME NEW t \in Task, Pass(t)
      PROVE  LinearInv' /\ EndedStay /\ Remembered
  BY <1>3, <1>8, PassLinear, PassOneRow, OneRowLinear DEF LinearInv
<1>9. ASSUME NEW c \in Client, Chain(c)
      PROVE  LinearInv' /\ EndedStay /\ Remembered
  <2>1. CASE \E id, dep \in Task : ChainWrite(c, id, dep)
    BY <1>3, <2>1, ChainLinear, OneRowLinear DEF LinearInv
  <2>2. CASE UNCHANGED row
    BY <1>5, <2>2
  <2> QED BY <1>9, <2>1, <2>2 DEF Chain, ChainCheck, ChainAbort
<1>10. ASSUME NEW h \in Healer, RequeueWedged(h)
       PROVE  LinearInv' /\ EndedStay /\ Remembered
  <2>1. wedged[h] \in SUBSET Task /\ SetAll(wedged[h], "pending") /\ UNCHANGED <<blockedBy, reason>>
    BY <1>0, <1>10 DEF RequeueWedged, TypeOK
  <2>2. EndedStay
    BY <1>0, <2>1, SetMany DEF EndedStay, Reissued
  <2>3. CausesKept
    BY <1>0, <2>1, SetMany DEF CausesKept, DepFailed, With
  <2>4. OneBlocker' /\ Remembered
    BY <1>0, <2>1, SetManyRemembers DEF LinearInv, OneBlocker
  <2> QED BY <1>3, <2>2, <2>3, <2>4
<1>11. CASE \E h \in Healer : FindWedged(h) \/ ForgetWedged(h)
  BY <1>5, <1>11 DEF FindWedged, ForgetWedged
<1>12. CASE Janitor
  BY <1>5, <1>12 DEF Janitor, ListNamed, FindCleared
<1>13. CASE TickDies \/ UNCHANGED vars
  BY <1>5, <1>13 DEF TickDies, vars
<1> QED BY <1>2, <1>4, <1>6, <1>7, <1>8, <1>9, <1>10, <1>11, <1>12, <1>13, <1>14
        DEF Next, LoopDriver, Heal

LEMMA LinearInit == Init => LinearInv
<1> SUFFICES ASSUME Init PROVE LinearInv
  OBVIOUS
<1>1. TypeOK
  BY Reasons DEF Init, TypeOK, Idle
<1> QED BY <1>1 DEF Init, LinearInv, OneBlocker, FailedForCause, DepFailed, With

\* When a row has one blocker at most and no command reopens a terminal row, a row
\* that is done, failed or cancelled stays so, but for a bounce, a failing check or
\* a verdict; for a healer that had found it handed out and never started; and for
\* the recovery of orphans, which revives only rows whose blocker was itself taken
\* back after it had failed.
THEOREM OutcomesAreFinal ==
  ASSUME LinearUse
  PROVE  Spec => OutcomeFinal
<1>1. LinearInv /\ [Next]_vars => LinearInv'
  BY LinearStep
<1>2. LinearInv /\ [Next]_vars =>
        [\A t \in Task :
           status[t] \in Terminal =>
             status'[t] = status[t] \/ TakenBack(t) \/ Reissued(t) \/ Revived(t)]_status
  BY LinearStep DEF EndedStay
<1> QED BY LinearInit, <1>1, <1>2, PTL DEF Spec, OutcomeFinal

-----------------------------------------------------------------------------
(* The same for work: dependencies of a planned row precede it.             *)

Unheld == Working \union {"absent"}

\* A row becomes workable by being sent, because its blockers are done, or because
\* a healer suspected it; one whose blockers change is neither workable nor
\* suspected, and one that gets blocked is not suspected; no id is forgotten; and
\* what is checked was done.
RowPlan(t) ==
  /\ status'[t] \in Unheld =>
       status[t] \in Unheld \/ (Met(t) /\ (blockedBy[t] # {} \/ t \in Suspects))
  /\ \/ blockedBy'[t] = blockedBy[t]
     \/ (blockedBy'[t] # {} /\ status'[t] \notin Unheld /\ t \notin Suspects)
  /\ status'[t] = "blocked" => status[t] \in {"blocked", "absent"} \/ t \notin Suspects
  /\ status'[t] = "absent" => status[t] = "absent"
  /\ verified'[t] = "checking" => verified[t] = "checking" \/ (t \in Trivial /\ status[t] = "done")

KeepsPlan == \A t \in Task : RowPlan(t)

\* A healer comes to suspect only what is handed out.
SuspectsKept ==
  \A t \in Suspects' :
    \/ t \in Suspects
    \/ status[t] = "delivered" /\ status'[t] = "delivered" /\ blockedBy'[t] = blockedBy[t]

LEMMA OneRowPlan ==
  ASSUME NEW t \in Task, OthersKept(t), RowPlan(t)
  PROVE  KeepsPlan
BY DEF KeepsPlan, OthersKept, RowPlan

LEMMA CommandPlan ==
  ASSUME PlannedUse, TypeOK, NEW t \in Task, Command(t)
  PROVE  RowPlan(t)
<1> USE DEF RowPlan, Unheld, Working
<1>0. TypeOK /\ blockedBy \in [Task -> SUBSET Task]
  BY DEF TypeOK
<1>1. ASSUME NEW s \in SendStatus, Send(t, s)
      PROVE  RowPlan(t)
  <2>1. s \in Status \ {"absent"}
    BY SendStatusType
  <2> QED BY <1>0, <1>1, <2>1, SetOne DEF Send, Exists
<1>2. CASE Start(t)
  BY <1>0, <1>2, SetOne DEF Start
<1>3. CASE Ack(t)
  BY <1>3 DEF Ack, PlannedUse
<1>4. CASE Done(t)
  BY <1>0, <1>4, SetOne DEF Done
<1>5. CASE Fail(t)
  BY <1>0, <1>5, SetOne DEF Fail
<1>6. CASE Cancel(t)
  BY <1>0, <1>6, SetOne DEF Cancel
<1>7. ASSUME NEW dep \in Task, BlockOn(t, dep)
      PROVE  RowPlan(t)
  <2>1. t \notin Suspects
    BY <1>7 DEF BlockOn, PlannedUse, Suspects
  <2>2. blockedBy' = [blockedBy EXCEPT ![t] = {dep}] /\ UNCHANGED verified
    BY <1>7 DEF BlockOn
  <2>3. status'[t] = "blocked"
    BY <1>0, <1>7, SetOne DEF BlockOn
  <2> QED BY <1>0, <2>1, <2>2, <2>3
<1>8. CASE BlockForAttention(t)
  BY <1>0, <1>8, SetOne DEF BlockForAttention
<1> QED BY <1>1, <1>2, <1>3, <1>4, <1>5, <1>6, <1>7, <1>8 DEF Command

LEMMA PassPlan ==
  ASSUME TypeOK, Unnamed, NEW t \in Task, Pass(t)
  PROVE  RowPlan(t)
<1> USE DEF RowPlan, Unheld, Working
<1>0. TypeOK
  OBVIOUS
<1>1. CASE Claim(t) \/ Requeue(t)
  BY <1>0, <1>1, SetOne DEF Claim, Requeue
<1>2. CASE AutoResolve(t)
  BY <1>2 DEF AutoResolve, Unnamed
<1>3. CASE Ping(t) \/ GrowOld(t)
  BY <1>3 DEF Ping, GrowOld
<1>4. CASE Bounce(t)
  BY <1>0, <1>4, SetOne DEF Bounce
<1>5. CASE CheckStart(t) \/ CheckPasses(t)
  BY <1>0, <1>5 DEF CheckStart, CheckPasses, TypeOK
<1>6. CASE CheckFails(t)
  <2>1. verified'[t] = "no"
    BY <1>6 DEF CheckFails, TypeOK
  <2> QED BY <1>0, <1>6, <2>1, SetOne DEF CheckFails
<1>7. CASE QaPass(t) \/ QaFail(t) \/ Approve(t)
  <2>1. verified'[t] = "yes" /\ UNCHANGED blockedBy
    BY <1>7 DEF QaPass, QaFail, Approve, TypeOK
  <2>2. SetStatus(t, "done") \/ SetStatus(t, "input-required")
    BY <1>7 DEF QaPass, QaFail, Approve
  <2> QED BY <1>0, <2>1, <2>2, SetOne
<1> QED BY <1>1, <1>2, <1>3, <1>4, <1>5, <1>6, <1>7 DEF Pass

LEMMA StillPlan ==
  ASSUME UNCHANGED <<status, blockedBy, verified>>
  PROVE  KeepsPlan
BY DEF KeepsPlan, RowPlan

LEMMA SuspectsSame ==
  ASSUME UNCHANGED wedged
  PROVE  Suspects' = Suspects /\ SuspectsKept
BY DEF Suspects, SuspectsKept

LEMMA ChainPlan ==
  ASSUME PlannedUse, DepsInv, NEW c \in Client, Chain(c)
  PROVE  KeepsPlan
<1>1. CASE UNCHANGED row
  BY <1>1, StillPlan
<1>2. ASSUME NEW id \in Task, NEW dep \in Task, ChainWrite(c, id, dep)
      PROVE  KeepsPlan
  <2>1. CASE Exists(id) /\ dep \notin blockedBy[id]
    <3>1. blockedBy[id] = {}
      BY <1>2, <2>1, FirstEdge DEF PlannedUse
    <3>2. status[id] \notin Unheld /\ id \notin Suspects
      BY <1>2, <3>1 DEF ChainWrite, DepsInv, ChainPlanned, Unheld
    <3>3. /\ UNCHANGED <<status, verified>>
          /\ blockedBy' = [blockedBy EXCEPT ![id] = {dep}]
      BY <1>2, <2>1, <3>1, <3>2 DEF ChainWrite, Unheld, Working
    <3>4. blockedBy \in [Task -> SUBSET Task]
      BY DEF DepsInv, LinearInv, TypeOK
    <3>5. RowPlan(id)
      BY <3>2, <3>3, <3>4 DEF RowPlan
    <3> QED BY <3>3, <3>4, <3>5 DEF KeepsPlan, RowPlan
  <2>2. CASE ~(Exists(id) /\ dep \notin blockedBy[id])
    BY <1>2, <2>2, StillPlan DEF ChainWrite
  <2> QED BY <2>1, <2>2
<1> QED BY <1>1, <1>2 DEF Chain, ChainCheck, ChainAbort

LEMMA TickPlan ==
  ASSUME DepsInv, LoopDriver \/ TickDies \/ UNCHANGED vars
  PROVE  KeepsPlan
<1>0. TypeOK /\ LinearInv
  BY DEF DepsInv, LinearInv
<1>1. CASE UnblockReady
  <2>1. SetAll(Ready, "pending") /\ UNCHANGED <<blockedBy, verified>>
    BY <1>1 DEF UnblockReady
  <2>2. \A t \in Ready : Met(t) /\ blockedBy[t] # {}
    BY DEF Ready, Wired, With, Met
  <2> QED BY <1>0, <2>1, <2>2, TickSets, SetMany DEF KeepsPlan, RowPlan
<1>2. CASE SweepOrphans
  <2>1. SetAll(Orphaned, "failed") /\ UNCHANGED <<blockedBy, verified>>
    BY <1>2 DEF SweepOrphans
  <2> QED BY <1>0, <2>1, TickSets, SetMany DEF KeepsPlan, RowPlan, Unheld, Working
<1>3. CASE RecoverRestored
  <2>1. SetAll(Recoverable, "pending") /\ UNCHANGED <<blockedBy, verified>>
    BY <1>3 DEF RecoverRestored
  <2>2. \A t \in Recoverable : Met(t) /\ blockedBy[t] # {}
    BY <1>0, RecoveredForCause DEF Met
  <2> QED BY <1>0, <2>1, <2>2, TickSets, SetMany DEF KeepsPlan, RowPlan
<1>4. CASE NotifyDaen \/ TickDies \/ UNCHANGED vars
  BY <1>4, StillPlan DEF NotifyDaen, TickDies, vars
<1> QED BY <1>1, <1>2, <1>3, <1>4 DEF LoopDriver

LEMMA HealPlan ==
  ASSUME DepsInv, (\E h \in Healer : Heal(h)) \/ Janitor
  PROVE  KeepsPlan /\ SuspectsKept
<1>0. TypeOK
  BY DEF DepsInv, LinearInv
<1>1. ASSUME NEW h \in Healer, FindWedged(h)
      PROVE  KeepsPlan /\ SuspectsKept
  <2>1. \A g \in Healer : wedged'[g] \subseteq wedged[g] \union With({"delivered"})
    BY <1>0, <1>1 DEF FindWedged, TypeOK
  <2>2. UNCHANGED row
    BY <1>1 DEF FindWedged
  <2> QED BY <2>1, <2>2, StillPlan DEF SuspectsKept, Suspects, With
<1>2. ASSUME NEW h \in Healer, RequeueWedged(h)
      PROVE  KeepsPlan /\ SuspectsKept
  <2>1. /\ wedged[h] \in SUBSET Task /\ SetAll(wedged[h], "pending")
        /\ UNCHANGED <<blockedBy, verified>>
    BY <1>0, <1>2 DEF RequeueWedged, TypeOK
  <2>2. \A t \in wedged[h] : t \in Suspects /\ Met(t)
    BY DEF Suspects, DepsInv, SuspectsMet
  <2>3. KeepsPlan
    BY <1>0, <2>1, <2>2, SetMany DEF KeepsPlan, RowPlan
  <2>4. \A g \in Healer : wedged'[g] \subseteq wedged[g]
    BY <1>0, <1>2 DEF RequeueWedged, TypeOK
  <2> QED BY <2>3, <2>4 DEF SuspectsKept, Suspects
<1>3. ASSUME NEW h \in Healer, ForgetWedged(h)
      PROVE  KeepsPlan /\ SuspectsKept
  <2>1. \A g \in Healer : wedged'[g] \subseteq wedged[g]
    BY <1>0, <1>3 DEF ForgetWedged, TypeOK
  <2>2. UNCHANGED row
    BY <1>3 DEF ForgetWedged
  <2> QED BY <2>1, <2>2, StillPlan DEF SuspectsKept, Suspects
<1>4. CASE Janitor
  BY <1>4, StillPlan, SuspectsSame DEF Janitor, ListNamed, FindCleared
<1> QED BY <1>1, <1>2, <1>3, <1>4 DEF Heal

\* Only healers write their lists, only the janitor its own.
LEMMA ListsKept ==
  ASSUME PlannedUse, Unnamed, [Next]_vars
  PROVE  Unnamed' /\ (UNCHANGED wedged \/ \E h \in Healer : Heal(h))
<1> USE DEF Unnamed
<1>1. ASSUME NEW t \in Task, Command(t)
      PROVE  UNCHANGED healing
  BY <1>1 DEF Command, Send, Start, Ack, Done, Fail, Cancel, BlockOn, BlockForAttention
<1>2. ASSUME NEW t \in Task, Pass(t)
      PROVE  UNCHANGED healing
  BY <1>2 DEF Pass, Claim, Requeue, AutoResolve, Ping, Bounce, CheckStart, CheckPasses,
              CheckFails, QaPass, QaFail, Approve, GrowOld
<1>3. ASSUME NEW c \in Client, Chain(c)
      PROVE  UNCHANGED healing
  BY <1>3 DEF Chain, ChainCheck, ChainWrite, ChainAbort
<1>4. ASSUME NEW h \in Healer, Heal(h)
      PROVE  UNCHANGED <<listed, cleared>>
  BY <1>4 DEF Heal, FindWedged, RequeueWedged, ForgetWedged
<1>5. CASE Janitor
  BY <1>5 DEF Janitor, ListNamed, FindCleared, PlannedUse
<1>6. CASE LoopDriver \/ TickDies \/ UNCHANGED vars
  BY <1>6 DEF LoopDriver, UnblockReady, SweepOrphans, NotifyDaen, RecoverRestored,
              TickDies, vars
<1> QED BY <1>1, <1>2, <1>3, <1>4, <1>5, <1>6 DEF Next

LEMMA ChainsStayPlanned ==
  ASSUME DepsInv, KeepsPlan, SuspectsKept,
         NEW c \in Client, NEW id \in Task, NEW dep \in Task, chaining[c] = <<id, dep>>
  PROVE  blockedBy'[id] # {} \/ (status'[id] \notin Unheld /\ id \notin Suspects')
<1>1. blockedBy[id] # {} \/ (status[id] \notin Unheld /\ id \notin Suspects)
  BY DEF DepsInv, ChainPlanned, Unheld
<1>2. RowPlan(id)
  BY DEF KeepsPlan
<1>3. CASE blockedBy[id] # {}
  BY <1>2, <1>3 DEF RowPlan
<1>4. CASE blockedBy[id] = {}
  BY <1>1, <1>2, <1>4 DEF RowPlan, SuspectsKept, Unheld, Working
<1> QED BY <1>3, <1>4

\* A new chain is that of a blocked row.
LEMMA NewChains ==
  ASSUME PlannedUse, TypeOK, [Next]_vars,
         NEW c \in Client, NEW id \in Task, NEW dep \in Task, chaining'[c] = <<id, dep>>
  PROVE  \/ chaining[c] = <<id, dep>>
         \/ status[id] = "blocked" /\ UNCHANGED row /\ UNCHANGED wedged
<1>0. <<id, dep>> # Idle /\ chaining \in [Client -> {Idle} \union (Task \X Task)]
  BY DEF Idle, TypeOK
<1>1. CASE UNCHANGED chaining
  BY <1>1
<1>2. ASSUME NEW d \in Client, Chain(d)
      PROVE  \/ chaining[c] = <<id, dep>>
             \/ status[id] = "blocked" /\ UNCHANGED row /\ UNCHANGED wedged
  <2>1. ASSUME NEW x \in Task, NEW y \in Task, ChainCheck(d, x, y)
        PROVE  \/ chaining[c] = <<id, dep>>
               \/ status[id] = "blocked" /\ UNCHANGED row /\ UNCHANGED wedged
    <3>1. chaining' = [chaining EXCEPT ![d] = <<x, y>>] /\ status[x] = "blocked"
      BY <2>1 DEF ChainCheck, PlannedUse
    <3>2. CASE d = c
      BY <1>0, <2>1, <3>1, <3>2 DEF ChainCheck
    <3>3. CASE d # c
      BY <1>0, <3>1, <3>3
    <3> QED BY <3>2, <3>3
  <2>2. CASE chaining' = [chaining EXCEPT ![d] = Idle]
    BY <1>0, <2>2
  <2> QED BY <1>2, <2>1, <2>2 DEF Chain, ChainWrite, ChainAbort
<1> QED BY <1>1, <1>2, OtherStepsKeepGraph DEF Next

LEMMA PlanStep ==
  ASSUME PlannedUse, DepsInv, [Next]_vars
  PROVE  KeepsPlan /\ SuspectsKept
<1>0. TypeOK /\ Unnamed
  BY DEF DepsInv, LinearInv
<1>1. SuspectsKept
  <2>1. UNCHANGED wedged \/ \E h \in Healer : Heal(h)
    BY <1>0, ListsKept
  <2> QED BY <2>1, SuspectsSame, HealPlan
<1>2. KeepsPlan
  <2>1. ASSUME NEW t \in Task, Command(t)
        PROVE  KeepsPlan
    BY <1>0, <2>1, CommandPlan, CommandOneRow, OneRowPlan
  <2>2. ASSUME NEW t \in Task, Pass(t)
        PROVE  KeepsPlan
    BY <1>0, <2>2, PassPlan, PassOneRow, OneRowPlan
  <2> QED BY <2>1, <2>2, ChainPlan, HealPlan, TickPlan DEF Next
<1> QED BY <1>1, <1>2

LEMMA DepsStep ==
  ASSUME PlannedUse, DepsInv, [Next]_vars
  PROVE  DepsInv'
<1>1. LinearInv' /\ Remembered
  BY LinearStep DEF PlannedUse, DepsInv
<1>2. KeepsPlan /\ SuspectsKept
  BY PlanStep
<1>3. With({"done"}) \union returned \subseteq With({"done"})' \union returned'
  BY <1>1 DEF Remembered, With
<1>4. DepsDone'
  <2> SUFFICES ASSUME NEW t \in Task, status'[t] \in Working
               PROVE  blockedBy'[t] \subseteq With({"done"})' \union returned'
    BY DEF DepsDone, With, Working
  <2>1. RowPlan(t)
    BY <1>2 DEF KeepsPlan
  <2>2. blockedBy'[t] = blockedBy[t]
    BY <2>1 DEF RowPlan, Unheld
  <2>3. Met(t)
    BY <2>1 DEF RowPlan, DepsInv, DepsDone, UnsentFree, Unheld, Working, With, Met
  <2> QED BY <1>3, <2>2, <2>3 DEF Met
<1>5. Unnamed'
  BY ListsKept DEF DepsInv
<1>6. UnsentFree'
  BY <1>2 DEF KeepsPlan, RowPlan, DepsInv, UnsentFree, Unheld
<1>7. SuspectsMet'
  <2> SUFFICES ASSUME NEW t \in Suspects'
               PROVE  /\ status'[t] \notin {"absent", "blocked"}
                      /\ blockedBy'[t] \subseteq With({"done"})' \union returned'
    BY DEF SuspectsMet, Met
  <2>0. t \in Task
    BY <1>1 DEF LinearInv, TypeOK, Suspects
  <2>1. CASE t \in Suspects
    <3>1. status[t] \notin {"absent", "blocked"} /\ Met(t)
      BY <2>1 DEF DepsInv, SuspectsMet
    <3>2. /\ blockedBy'[t] = blockedBy[t]
          /\ status'[t] \notin {"absent", "blocked"}
      BY <1>2, <2>0, <2>1, <3>1 DEF KeepsPlan, RowPlan
    <3> QED BY <1>3, <3>1, <3>2 DEF Met
  <2>2. CASE status[t] = "delivered" /\ status'[t] = "delivered" /\ blockedBy'[t] = blockedBy[t]
    BY <1>3, <2>0, <2>2 DEF DepsInv, DepsDone, With
  <2> QED BY <1>2, <2>1, <2>2 DEF SuspectsKept
<1>8. ChainPlanned'
  <2> SUFFICES ASSUME NEW c \in Client, NEW id \in Task, NEW dep \in Task,
                      chaining'[c] = <<id, dep>>
               PROVE  blockedBy'[id] # {} \/ (status'[id] \notin Unheld /\ id \notin Suspects')
    BY DEF ChainPlanned, Unheld
  <2>1. CASE chaining[c] = <<id, dep>>
    BY <1>2, <2>1, ChainsStayPlanned
  <2>2. CASE status[id] = "blocked" /\ UNCHANGED row /\ UNCHANGED wedged
    <3>1. id \notin Suspects
      BY <2>2 DEF DepsInv, SuspectsMet
    <3> QED BY <2>2, <3>1, SuspectsSame DEF Unheld, Working
  <2> QED BY <2>1, <2>2, NewChains DEF DepsInv, LinearInv
<1>9. Checking'
  BY <1>2 DEF KeepsPlan, RowPlan, DepsInv, Checking
<1> QED BY <1>1, <1>4, <1>5, <1>6, <1>7, <1>8, <1>9 DEF DepsInv

LEMMA DepsInit == Init => DepsInv
<1> SUFFICES ASSUME Init PROVE DepsInv
  OBVIOUS
<1>1. DepsDone /\ Unnamed /\ UnsentFree /\ Checking
  BY DEF Init, DepsDone, Unnamed, UnsentFree, Checking, With
<1>2. ChainPlanned /\ SuspectsMet
  BY DEF Init, ChainPlanned, SuspectsMet, Suspects, Idle
<1> QED BY <1>1, <1>2, LinearInit DEF DepsInv

\* In a pipeline whose rows are sent --blocked and then chained to one predecessor
\* each, no row is offered, claimed, started, or handed out again before its
\* predecessor is done; only that this one is taken back itself undoes it.
THEOREM BlockersPrecedeWork ==
  ASSUME PlannedUse
  PROVE  Spec => []DepsDone
<1>1. DepsInv /\ [Next]_vars => DepsInv'
  BY DepsStep
<1>2. DepsInv => DepsDone
  BY DEF DepsInv
<1> QED BY DepsInit, <1>1, <1>2, PTL DEF Spec

-----------------------------------------------------------------------------
(* The register implements Workflow: every statement is a step of it, or     *)
(* none of its business.                                                     *)

Mapped == <<Phases, blockedBy, gated, Suspects, returned>>

LEMMA PhaseOf ==
  /\ Phase("absent") = "new"
  /\ Phase("blocked") = "waiting"
  /\ Phase("input-required") = "parked"
  /\ \A s \in Terminal : Phase(s) = s
  /\ \A s \in Working : Phase(s) = "ready"
BY DEF Phase, Working

LEMMA PhaseIs ==
  ASSUME TypeOK, NEW t \in Task
  PROVE  /\ Phases[t] = Phase(status[t])
         /\ status[t] \in Working <=> Phases[t] = "ready"
         /\ status[t] \in Terminal => Phases[t] = status[t]
         /\ status[t] = "absent" <=> Phases[t] = "new"
         /\ status[t] = "blocked" <=> Phases[t] = "waiting"
         /\ status[t] = "input-required" <=> Phases[t] = "parked"
         /\ Phases[t] \in Terminal => status[t] = Phases[t]
<1>1. Phases[t] = Phase(status[t]) /\ status[t] \in Status
  BY DEF Phases, TypeOK
<1>2. status[t] \in Working \union Terminal \union {"absent", "blocked", "input-required"}
  BY <1>1 DEF Working
<1> QED BY <1>1, <1>2, PhaseOf DEF Working

\* A write to a set of rows moves their phases, and remembers what it takes back.
LEMMA PutMany ==
  ASSUME TypeOK, NEW S \in SUBSET Task, NEW s \in Status, SetAll(S, s)
  PROVE  Promise!Put(S, Phase(s))
<1>1. \A u \in Task : status'[u] = IF u \in S THEN s ELSE status[u]
  BY DEF SetAll
<1>2. Phases' = [u \in Task |-> Phase(status'[u])]
  BY DEF Phases
<1>3. Phases' = [u \in Task |-> IF u \in S THEN Phase(s) ELSE Phases[u]]
  <2> HIDE DEF Phase
  <2>1. \A u \in Task : Phases[u] = Phase(status[u])
    BY DEF Phases
  <2> QED BY <1>1, <1>2, <2>1
<1>4. \A u \in Task : Phases[u] \in Terminal \ {Phase(s)} <=> status[u] \in Terminal \ {s}
  <2>1. s \in Working \union Terminal \union {"absent", "blocked", "input-required"}
    BY DEF Working
  <2> QED BY <2>1, PhaseIs, PhaseOf
<1>5. returned' = returned \union {u \in S : Phases[u] \in Terminal \ {Phase(s)}}
  BY <1>4 DEF SetAll, Remember
<1> QED BY <1>3, <1>5 DEF Promise!Put, Promise!Ended

LEMMA PutOne ==
  ASSUME TypeOK, NEW t \in Task, NEW s \in Status, SetStatus(t, s)
  PROVE  Promise!Put({t}, Phase(s))
<1>1. SetAll({t}, s)
  BY DEF TypeOK, SetStatus, SetAll, Remember
<1> QED BY <1>1, PutMany

\* An action that moves a row within its phase.
LEMMA SamePhase ==
  ASSUME TypeOK, NEW t \in Task, NEW s \in Working, status[t] \in Working,
         SetStatus(t, s), UNCHANGED <<blockedBy, gated, wedged>>
  PROVE  UNCHANGED Mapped
<1>1. \A u \in Task : status'[u] = IF u = t THEN s ELSE status[u]
  BY DEF TypeOK, SetStatus
<1>2. Phases' = Phases
  <2> HIDE DEF Phase
  <2>1. \A u \in Task : Phase(status'[u]) = Phase(status[u])
    BY <1>1, PhaseOf
  <2> QED BY <2>1 DEF Phases
<1>3. returned' = returned
  BY DEF SetStatus, Remember, Working
<1> QED BY <1>2, <1>3, SuspectsSame DEF Mapped

LEMMA SameRows ==
  ASSUME UNCHANGED <<status, blockedBy, gated, returned, wedged>>
  PROVE  UNCHANGED Mapped
BY SuspectsSame DEF Mapped, Phases

LEMMA EndingIsEnd ==
  ASSUME TypeOK, NEW t \in Task, NEW e \in Terminal, SetStatus(t, e),
         status[t] \notin Terminal \union {"absent"}, UNCHANGED <<blockedBy, gated, wedged>>
  PROVE  Promise!End(t)
<1>1. Promise!Put({t}, e)
  BY PutOne, PhaseOf
<1>2. Promise!Open(t)
  BY PhaseIs DEF Promise!Open, Promise!Ended
<1> QED BY <1>1, <1>2, SuspectsSame DEF Promise!End, Promise!Ended

LEMMA CommandMaps ==
  ASSUME PlannedUse, TypeOK, NEW t \in Task, Command(t)
  PROVE  Promise!Next \/ UNCHANGED Mapped
<1>1. ASSUME NEW s \in SendStatus, Send(t, s)
      PROVE  Promise!Submit(t)
  <2>1. s \in {"pending", "blocked", "input-required", "done"}
    BY DEF SendStatus
  <2>2. Promise!Put({t}, Phase(s))
    BY <1>1, <2>1, PutOne DEF Send
  <2>3. /\ s = "input-required" <=> Phase(s) = "parked"
        /\ Phase(s) \in {"waiting", "ready", "parked", "done"}
    BY <2>1, PhaseOf DEF Working
  <2>4. Phases[t] = "new" /\ UNCHANGED <<blockedBy, wedged>>
    BY <1>1, PhaseIs DEF Send, Exists
  <2>5. gated' = IF Phase(s) = "parked" THEN gated \union {t} ELSE gated
    BY <1>1, <2>3 DEF Send
  <2> QED BY <2>2, <2>3, <2>4, <2>5, SuspectsSame DEF Promise!Submit
<1>2. CASE Start(t)
  BY <1>2, SamePhase DEF Start, Working
<1>3. CASE Ack(t)
  BY <1>3 DEF Ack, PlannedUse
<1>9. MayTouch(t) => status[t] \notin Terminal \union {"absent"}
  BY DEF MayTouch, Exists, PlannedUse, LinearUse
<1>4. CASE Done(t)
  BY <1>4, <1>9, EndingIsEnd DEF Done, Promise!Next
<1>5. CASE Fail(t)
  BY <1>5, <1>9, EndingIsEnd DEF Fail, Promise!Next
<1>6. CASE Cancel(t)
  BY <1>6, EndingIsEnd DEF Cancel, Exists, Promise!Next
<1>10. MayTouch(t) => Promise!Open(t)
  BY <1>9, PhaseIs DEF Promise!Open, Promise!Ended
<1>7. ASSUME NEW dep \in Task, BlockOn(t, dep)
      PROVE  Promise!Reblock(t, dep)
  <2>1. Promise!Put({t}, "waiting")
    BY <1>7, PutOne, PhaseOf DEF BlockOn
  <2> QED BY <1>7, <1>10, <2>1, SuspectsSame DEF BlockOn, Promise!Reblock
<1>8. ASSUME BlockForAttention(t)
      PROVE  Promise!Park(t)
  <2>1. Promise!Put({t}, "parked")
    BY <1>8, PutOne, PhaseOf DEF BlockForAttention
  <2> QED BY <1>8, <1>10, <2>1, SuspectsSame DEF BlockForAttention, Promise!Park
<1> QED BY <1>1, <1>2, <1>3, <1>4, <1>5, <1>6, <1>7, <1>8 DEF Command, Promise!Next

LEMMA PassMaps ==
  ASSUME TypeOK, Unnamed, Checking, NEW t \in Task, Pass(t)
  PROVE  Promise!Next \/ UNCHANGED Mapped
<1>1. CASE Claim(t)
  BY <1>1, SamePhase DEF Claim, Working
<1>2. CASE Requeue(t)
  BY <1>2, SamePhase DEF Requeue, Working
<1>3. CASE AutoResolve(t)
  BY <1>3 DEF AutoResolve, Unnamed
<1>4. CASE Ping(t) \/ GrowOld(t) \/ CheckStart(t) \/ CheckPasses(t)
  BY <1>4, SameRows DEF Ping, GrowOld, CheckStart, CheckPasses
<1>5. ASSUME Bounce(t)
      PROVE  Promise!Bounce(t)
  <2>1. Promise!Put({t}, "parked")
    BY <1>5, PutOne, PhaseOf DEF Bounce
  <2>2. Phases[t] = "done"
    BY <1>5, PhaseIs DEF Bounce
  <2> QED BY <1>5, <2>1, <2>2, SuspectsSame DEF Bounce, Promise!Bounce
<1>6. CASE Approve(t)
  BY <1>6, EndingIsEnd DEF Approve, Promise!Next
<1>7. ASSUME SetStatus(t, "input-required") \/ SetStatus(t, "done"),
             status[t] # "absent", t \in gated \union Trivial, gated' = gated \union {t},
             UNCHANGED <<blockedBy, wedged>>
      PROVE  Promise!Recall(t)
  <2>1. Promise!Put({t}, "parked") \/ Promise!Put({t}, "done")
    BY <1>7, PutOne, PhaseOf
  <2>2. Phases[t] # "new"
    BY <1>7, PhaseIs
  <2> QED BY <1>7, <2>1, <2>2, SuspectsSame DEF Promise!Recall
<1>8. CASE CheckFails(t)
  BY <1>7, <1>8 DEF CheckFails, Checking, Promise!Next
<1>9. CASE QaPass(t) \/ QaFail(t)
  <2>1. gated' = gated \union {t}
    BY <1>9 DEF QaPass, QaFail
  <2> QED BY <1>7, <1>9, <2>1 DEF QaPass, QaFail, Exists, Promise!Next
<1> QED BY <1>1, <1>2, <1>3, <1>4, <1>5, <1>6, <1>8, <1>9 DEF Pass, Promise!Next

LEMMA ChainMaps ==
  ASSUME PlannedUse, DepsInv, NEW c \in Client, Chain(c)
  PROVE  Promise!Next \/ UNCHANGED Mapped
<1>1. CASE UNCHANGED <<row, wedged>>
  BY <1>1, SameRows
<1>2. ASSUME NEW id \in Task, NEW dep \in Task, ChainWrite(c, id, dep)
      PROVE  Promise!Need(id, dep) \/ UNCHANGED Mapped
  <2>0. UNCHANGED <<gated, returned, wedged>>
    BY <1>2 DEF ChainWrite
  <2>1. CASE Exists(id) /\ dep \notin blockedBy[id]
    <3>1. blockedBy[id] = {}
      BY <1>2, <2>1, FirstEdge DEF PlannedUse
    <3>2. status[id] \notin Working \union {"absent"}
      BY <1>2, <3>1 DEF ChainWrite, DepsInv, ChainPlanned
    <3>3. Phases[id] \notin {"new", "ready"}
      BY <3>2, PhaseIs DEF DepsInv, LinearInv
    <3>4. UNCHANGED status /\ blockedBy' = [blockedBy EXCEPT ![id] = @ \union {dep}]
      BY <1>2, <2>1, <3>2 DEF ChainWrite, Working
    <3>5. UNCHANGED Phases
      BY <3>4 DEF Phases
    <3> QED BY <2>0, <3>3, <3>4, <3>5, SuspectsSame DEF Promise!Need
  <2>2. CASE ~(Exists(id) /\ dep \notin blockedBy[id])
    BY <1>2, <2>0, <2>2, SameRows DEF ChainWrite
  <2> QED BY <2>1, <2>2
<1> QED BY <1>1, <1>2 DEF Chain, ChainCheck, ChainAbort, Promise!Next

LEMMA AreWith ==
  ASSUME TypeOK, NEW P \in SUBSET Terminal
  PROVE  Promise!Are(P) = With(P)
BY PhaseIs DEF Promise!Are, With

LEMMA TickMaps ==
  ASSUME DepsInv, LoopDriver \/ TickDies \/ UNCHANGED vars
  PROVE  Promise!Next \/ UNCHANGED Mapped
<1>0. TypeOK /\ LinearInv
  BY DEF DepsInv, LinearInv
<1>1. ASSUME UnblockReady
      PROVE  Promise!Release(Ready)
  <2>1. Promise!Put(Ready, "ready")
    BY <1>0, <1>1, TickSets, PutMany, PhaseOf DEF UnblockReady, Working
  <2>2. \A t \in Ready : /\ Phases[t] = "waiting" /\ blockedBy[t] # {}
                         /\ blockedBy[t] \subseteq Promise!Are({"done"})
    BY <1>0, PhaseIs, AreWith DEF Ready, Wired, With
  <2> QED BY <1>1, <2>1, <2>2, SuspectsSame DEF UnblockReady, Promise!Release
<1>2. ASSUME SweepOrphans
      PROVE  Promise!Abandon(Orphaned)
  <2>1. Promise!Put(Orphaned, "failed")
    BY <1>0, <1>2, TickSets, PutMany, PhaseOf DEF SweepOrphans
  <2>2. Promise!Are(Bad) = With(Bad)
    BY <1>0, AreWith
  <2>3. \A t \in Orphaned : /\ Phases[t] = "waiting"
                            /\ blockedBy[t] \cap Promise!Are({"failed", "cancelled"}) # {}
    BY <1>0, <2>2, PhaseIs DEF Orphaned, Wired, With
  <2> QED BY <1>2, <2>1, <2>3, SuspectsSame DEF SweepOrphans, Promise!Abandon
<1>3. ASSUME RecoverRestored
      PROVE  Promise!Revive(Recoverable)
  <2>1. Promise!Put(Recoverable, "ready")
    BY <1>0, <1>3, TickSets, PutMany, PhaseOf DEF RecoverRestored, Working
  <2>2. ASSUME NEW t \in Recoverable
        PROVE  Phases[t] = "failed"
    BY <1>0, <2>2, TickSets, PhaseIs DEF Recoverable, DepFailed, With
  <2>3. ASSUME NEW t \in Recoverable
        PROVE  blockedBy[t] \cap returned \cap Promise!Are({"done", "parked"}) # {}
    <3>1. PICK d \in blockedBy[t] : d \in returned /\ d \in With({"done", "input-required"})
      BY <1>0, RecoveredForCause
    <3>2. d \in Task /\ Phases[d] \in {"done", "parked"}
      BY <1>0, <3>1, PhaseIs DEF With
    <3> QED BY <3>1, <3>2 DEF Promise!Are
  <2> QED BY <1>3, <2>1, <2>2, <2>3, SuspectsSame DEF RecoverRestored, Promise!Revive
<1>4. CASE NotifyDaen \/ TickDies \/ UNCHANGED vars
  BY <1>4, SameRows DEF NotifyDaen, TickDies, vars
<1> QED BY <1>1, <1>2, <1>3, <1>4, TickSets DEF LoopDriver, Promise!Next

LEMMA HealMaps ==
  ASSUME DepsInv, (\E h \in Healer : Heal(h)) \/ Janitor
  PROVE  Promise!Next \/ UNCHANGED Mapped
<1>0. TypeOK /\ TypeOK'
  BY HealType DEF DepsInv, LinearInv
<1>1. Suspects \in SUBSET Task /\ Suspects' \in SUBSET Task
  BY <1>0 DEF Suspects, TypeOK
<1>2. ASSUME NEW h \in Healer, FindWedged(h)
      PROVE  Promise!Suspect(Suspects')
  <2>1. UNCHANGED row
    BY <1>2 DEF FindWedged
  <2>2. \A g \in Healer : wedged'[g] \subseteq wedged[g] \union With({"delivered"})
    BY <1>0, <1>2 DEF FindWedged, TypeOK
  <2>3. Suspects' \subseteq Suspects \union With({"delivered"})
    BY <2>2 DEF Suspects
  <2>4. With({"delivered"}) \subseteq Promise!Are({"ready"})
    BY <1>0, PhaseIs DEF With, Working, Promise!Are
  <2>5. UNCHANGED Phases
    BY <2>1 DEF Phases
  <2> QED BY <2>1, <2>3, <2>4, <2>5 DEF Promise!Suspect
<1>3. ASSUME NEW h \in Healer, RequeueWedged(h)
      PROVE  Promise!Reissue(wedged[h]) /\ wedged[h] \in SUBSET Task
  <2>1. wedged[h] \in SUBSET Task /\ SetAll(wedged[h], "pending") /\ UNCHANGED <<blockedBy, gated>>
    BY <1>0, <1>3 DEF RequeueWedged, TypeOK
  <2>2. Promise!Put(wedged[h], "ready")
    BY <1>0, <2>1, PutMany, PhaseOf DEF Working
  <2>3. wedged[h] \subseteq Suspects
    BY DEF Suspects
  <2>4. ASSUME NEW t \in wedged[h]
        PROVE  Phases[t] \notin {"new", "waiting"}
    BY <1>0, <2>1, <2>3, PhaseIs DEF DepsInv, SuspectsMet
  <2>5. \A g \in Healer : wedged'[g] \subseteq wedged[g]
    BY <1>0, <1>3 DEF RequeueWedged, TypeOK
  <2>6. Suspects' \subseteq Suspects
    BY <2>5 DEF Suspects
  <2> QED BY <2>1, <2>2, <2>3, <2>4, <2>6 DEF Promise!Reissue, Promise!Are
<1>4. ASSUME NEW h \in Healer, ForgetWedged(h)
      PROVE  Promise!Suspect(Suspects')
  <2>1. UNCHANGED row
    BY <1>4 DEF ForgetWedged
  <2>2. \A g \in Healer : wedged'[g] \subseteq wedged[g]
    BY <1>0, <1>4 DEF ForgetWedged, TypeOK
  <2>3. Suspects' \subseteq Suspects
    BY <2>2 DEF Suspects
  <2>4. UNCHANGED Phases
    BY <2>1 DEF Phases
  <2> QED BY <2>1, <2>3, <2>4 DEF Promise!Suspect
<1>5. CASE Janitor
  BY <1>5, SameRows DEF Janitor, ListNamed, FindCleared
<1> QED BY <1>1, <1>2, <1>3, <1>4, <1>5 DEF Heal, Promise!Next

\* In a planned pipeline, whatever columns, processes and interleavings the
\* register is made of, it behaves as Workflow says: a row is released only
\* when all it needs is done, abandoned only when something it needs came to
\* nothing, and what has ended comes back by the review, a check, a verdict, the
\* recovery of rows believed lost, or the second chance of an abandoned one only.
THEOREM PromiseKept ==
  ASSUME PlannedUse
  PROVE  Spec => KeepsPromise
<1>1. DepsInv /\ [Next]_vars => DepsInv'
  BY DepsStep
<1>2. Init => Promise!Init
  <2> SUFFICES ASSUME Init PROVE Promise!Init
    OBVIOUS
  <2>1. Phases = [t \in Task |-> "new"]
    BY PhaseOf DEF Init, Phases
  <2>2. Suspects = {}
    BY DEF Init, Suspects
  <2> QED BY <2>1, <2>2 DEF Init, Promise!Init
<1>3. DepsInv /\ [Next]_vars => [Promise!Next]_<<Phases, blockedBy, gated, Suspects, returned>>
  <2> SUFFICES ASSUME DepsInv, [Next]_vars
               PROVE  Promise!Next \/ UNCHANGED Mapped
    BY DEF Mapped
  <2>1. TypeOK /\ Unnamed /\ Checking
    BY DEF DepsInv, LinearInv
  <2> QED BY <2>1, CommandMaps, PassMaps, ChainMaps, TickMaps, HealMaps DEF Next
<1> QED BY DepsInit, <1>1, <1>2, <1>3, PTL DEF Spec, KeepsPromise, Promise!Spec
=============================================================================
