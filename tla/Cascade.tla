------------------------------- MODULE Cascade -------------------------------
(***************************************************************************)
(* Dependencies between rows of agent_messages: the subcommands of the     *)
(* `fleet` CLI that write them, the claim and the review bounce of         *)
(* gcg-inbox-poll, and the ticks of gcg-loop-driver, which release a       *)
(* blocked row when its blockers are done and fail it when it can never    *)
(* run.                                                                    *)
(*                                                                         *)
(* One SQL statement is one step.  `fleet chain` is two (the cycle query   *)
(* and the UPDATE run in separate psql processes), a tick of the driver    *)
(* four; a recovery of wedged rows, a check of trivial work and the        *)
(* janitor's look at reasons read first and write later.  Statuses         *)
(* 'delivered' and 'acked' are one value here: every query of these        *)
(* programs treats them alike.                                             *)
(***************************************************************************)
EXTENDS Naturals

CONSTANTS
  Task,           \* ids of the rows that may exist
  Client,         \* processes that run `fleet chain`
  Healer,         \* scripts that requeue wedged rows: Pass 8, gcg-inbox-stale-check
  PlanAuthorized, \* rows sent with --plan-authorized
  Reviewed,       \* rows Pass 3a bounces; {} when .enable-input-required is absent
  Trivial,        \* rows of tier trivial with a registered check, which Pass 5 runs
  Practices       \* optional behaviours, see Practice below

\* "block":   fleet block <id> --dep <id>      "attention": fleet block <id> <reason>
\* "ack":     fleet ack on any open row         "gate":      fleet send --input-required
\* "reopen":  done, fail or block on a row that is already terminal
\* "fan-in":  more than one dependency on a row
\* "late":    fleet chain on a row that was not sent --blocked
\* "requeue": the janitor or a2a-watcher hands a claimed row out again
\* "verdict": fleet qa-pass and qa-fail, on rows a human or reviewer was asked about
\* "named":   the reason given to fleet block --dep <id> contains 'msg #<id>'
\* "ping":    Pass 7 tells daen of rows that ended
Practice == {"block", "attention", "ack", "gate", "reopen", "fan-in", "late",
             "requeue", "verdict", "named", "ping"}

ASSUME CascadeAssumption ==
  /\ PlanAuthorized \subseteq Task
  /\ Reviewed \subseteq Task
  /\ Trivial \subseteq Task \ Reviewed
  /\ Practices \subseteq Practice

VARIABLES
  status,     \* agent_messages.status, "absent" before the INSERT
  blockedBy,  \* agent_messages.blocked_by
  reason,     \* agent_messages.blocked_reason, as far as a query matches it
  doneAge,    \* age of done_at: under 5 minutes, under 30 minutes, older
  gated,      \* rows whose input_required_at is set
  verified,   \* verified_by: unset, set while the check of Pass 5 runs, set
  notified,   \* who stamped artifacts.daen_notified: Pass 7 or the driver
  chaining,   \* per client, the <<id, dep>> that passed the cycle query
  wedged,     \* per healer, the ids its query found and it has yet to requeue
  listed,     \* the janitor's <<id, id named in its reason>> still to look at
  cleared,    \* those whose named row it has found not blocked
  stage,      \* next statement of the driver's tick
  swept,      \* rows the orphan sweep of this tick failed
  returned    \* history: rows that have left done, failed or cancelled

row     == <<status, blockedBy, reason, doneAge, gated, verified, notified, returned>>
healing == <<wedged, listed, cleared>>
driver  == <<stage, swept>>
procs   == <<chaining, healing, driver>>
vars    == <<row, procs>>

Bad      == {"failed", "cancelled"}
Terminal == Bad \union {"done"}
Status   == Terminal \union {"absent", "pending", "delivered", "in_progress",
                             "blocked", "input-required"}
Age      == {"none", "fresh", "recent", "old"}
Other    == <<"other">>
DependencyFailed == <<"dependency failed">>
Named    == {"msg #"} \X Task
Reason   == {Other, DependencyFailed} \union Named
Notice   == {"none", "ping", "decision"}
Stages   == {"unblock", "orphan", "notify", "recover"}
Idle     == <<>>

TypeOK ==
  /\ status \in [Task -> Status]
  /\ blockedBy \in [Task -> SUBSET Task]
  /\ reason \in [Task -> Reason]
  /\ doneAge \in [Task -> Age]
  /\ gated \subseteq Task
  /\ verified \in [Task -> {"no", "checking", "yes"}]
  /\ notified \in [Task -> Notice]
  /\ returned \subseteq Task
  /\ chaining \in [Client -> {Idle} \union (Task \X Task)]
  /\ wedged \in [Healer -> SUBSET Task]
  /\ listed \subseteq Task \X Task
  /\ cleared \subseteq Task
  /\ stage \in Stages
  /\ swept \subseteq Task

Init ==
  /\ status = [t \in Task |-> "absent"]
  /\ blockedBy = [t \in Task |-> {}]
  /\ reason = [t \in Task |-> Other]
  /\ doneAge = [t \in Task |-> "none"]
  /\ verified = [t \in Task |-> "no"]
  /\ notified = [t \in Task |-> "none"]
  /\ gated = {} /\ returned = {}
  /\ chaining = [c \in Client |-> Idle]
  /\ wedged = [h \in Healer |-> {}]
  /\ listed = {} /\ cleared = {}
  /\ stage = "unblock" /\ swept = {}

-----------------------------------------------------------------------------
(* Subcommands of fleet that write one row with one UPDATE or INSERT.      *)

Exists(t) == status[t] # "absent"
With(s)   == {t \in Task : status[t] \in s}

\* Agents leave a terminal row alone unless "reopen" is practised: the UPDATEs
\* of done, fail and block themselves have no terminal guard.
MayTouch(t) == Exists(t) /\ (status[t] \in Terminal => "reopen" \in Practices)

\* Every UPDATE of a status goes through one of these two; what leaves an end
\* is remembered.
Remember(S, s) == returned' = returned \union {t \in S : status[t] \in Terminal \ {s}}

SetStatus(t, s) == status' = [status EXCEPT ![t] = s] /\ Remember({t}, s)
SetAll(S, s) ==
  /\ status' = [t \in Task |-> IF t \in S THEN s ELSE status[t]]
  /\ Remember(S, s)

SetReason(t, r) == reason' = [reason EXCEPT ![t] = r]
StampDone(t)    == doneAge' = [doneAge EXCEPT ![t] = "fresh"]

\* Notifications, acks and fyis are born done, without a done_at.
SendStatus == {"pending", "blocked", "done"} \union
              (IF "gate" \in Practices THEN {"input-required"} ELSE {})

Send(t, s) ==
  /\ ~Exists(t)
  /\ s \in SendStatus
  /\ SetStatus(t, s)
  /\ gated' = IF s = "input-required" THEN gated \union {t} ELSE gated
  /\ UNCHANGED <<blockedBy, reason, doneAge, verified, notified, procs>>

Start(t) ==
  /\ status[t] \in {"pending", "delivered", "in_progress"}
  /\ SetStatus(t, "in_progress")
  /\ UNCHANGED <<blockedBy, reason, doneAge, gated, verified, notified, procs>>

Ack(t) ==
  /\ "ack" \in Practices
  /\ Exists(t) /\ status[t] \notin Terminal
  /\ SetStatus(t, "delivered")
  /\ UNCHANGED <<blockedBy, reason, doneAge, gated, verified, notified, procs>>

Done(t) ==
  /\ MayTouch(t) /\ status[t] # "input-required"
  /\ SetStatus(t, "done")
  /\ StampDone(t)
  /\ UNCHANGED <<blockedBy, reason, gated, verified, notified, procs>>

Fail(t) ==
  /\ MayTouch(t)
  /\ SetStatus(t, "failed")
  /\ StampDone(t)
  /\ SetReason(t, Other)
  /\ UNCHANGED <<blockedBy, gated, verified, notified, procs>>

Cancel(t) ==
  /\ Exists(t) /\ status[t] \notin Terminal
  /\ SetStatus(t, "cancelled")
  /\ StampDone(t)
  /\ UNCHANGED <<blockedBy, reason, gated, verified, notified, procs>>

BlockReason == {Other} \union (IF "named" \in Practices THEN Named ELSE {})

\* fleet block <id> --dep <dep>: replaces blocked_by, and checks neither that
\* dep exists nor that the edge closes a cycle.
BlockOn(t, dep) ==
  /\ "block" \in Practices
  /\ MayTouch(t)
  /\ SetStatus(t, "blocked")
  /\ blockedBy' = [blockedBy EXCEPT ![t] = {dep}]
  /\ \E r \in BlockReason : SetReason(t, r)
  /\ UNCHANGED <<doneAge, gated, verified, notified, procs>>

\* Mutant of BlockForAttention: the status is spelt like the column.
BlockForAttentionMisspelt(t) ==
  /\ "attention" \in Practices /\ MayTouch(t)
  /\ SetStatus(t, "input_required")
  /\ gated' = gated \union {t}
  /\ SetReason(t, Other)
  /\ UNCHANGED <<blockedBy, doneAge, verified, notified, procs>>

\* fleet block <id> <reason>: surfaced to a human, blocked_by untouched.
BlockForAttention(t) ==
  /\ "attention" \in Practices
  /\ MayTouch(t)
  /\ SetStatus(t, "input-required")
  /\ gated' = gated \union {t}
  /\ SetReason(t, Other)
  /\ UNCHANGED <<blockedBy, doneAge, verified, notified, procs>>

-----------------------------------------------------------------------------
(* fleet chain: the recursive query, then the UPDATE.                      *)

\* Every nonempty set of rows has a member that waits for none of the others.
AcyclicOn(C) ==
  \A S \in SUBSET C : S # {} => \E t \in S : blockedBy[t] \cap S = {}

Closed(C) == \A t \in C : blockedBy[t] \subseteq C

\* Mutant of WalkAvoids: only a direct dependency of dep on id is refused.
WalkAvoidsOneHop(id, dep) == id \notin blockedBy[dep]

\* The walk from dep along blocked_by ends (UNION ALL never does on a cycle)
\* and has not met id: C is a set of rows it stays in.
WalkAvoids(id, dep) ==
  \E C \in SUBSET Task : dep \in C /\ id \notin C /\ Closed(C) /\ AcyclicOn(C)

ChainCheck(c, id, dep) ==
  /\ chaining[c] = Idle
  /\ "late" \notin Practices => status[id] = "blocked"
  /\ id # dep
  /\ Exists(dep)
  /\ WalkAvoids(id, dep)
  /\ chaining' = [chaining EXCEPT ![c] = <<id, dep>>]
  /\ UNCHANGED <<row, healing, driver>>

\* Without "fan-in" an operator names at most one dependency for a row.
ChainWrite(c, id, dep) ==
  /\ chaining[c] = <<id, dep>>
  /\ "fan-in" \notin Practices => blockedBy[id] \subseteq {dep}
  /\ chaining' = [chaining EXCEPT ![c] = Idle]
  /\ IF Exists(id) /\ dep \notin blockedBy[id]
       THEN /\ blockedBy' = [blockedBy EXCEPT ![id] = @ \union {dep}]
            /\ status' = IF status[id] = "pending"
                           THEN [status EXCEPT ![id] = "blocked"] ELSE status
            /\ reason' = IF status[id] = "pending"
                           THEN [reason EXCEPT ![id] = Other] ELSE reason
       ELSE UNCHANGED <<status, blockedBy, reason>>
  /\ UNCHANGED <<doneAge, gated, verified, notified, returned, healing, driver>>

\* The caller's 15 s timeout, or a psql error, ends the command in between.
ChainAbort(c) ==
  /\ chaining[c] # Idle
  /\ chaining' = [chaining EXCEPT ![c] = Idle]
  /\ UNCHANGED <<row, healing, driver>>

-----------------------------------------------------------------------------
(* gcg-inbox-poll, as far as it touches these columns, and The Forge.      *)

Claim(t) ==
  /\ status[t] = "pending"
  /\ SetStatus(t, "delivered")
  /\ UNCHANGED <<blockedBy, reason, doneAge, gated, verified, notified, procs>>

\* The janitor's reset of one row, and the watcher's: guarded by the status.
Requeue(t) ==
  /\ "requeue" \in Practices
  /\ status[t] \in {"delivered", "in_progress"}
  /\ SetStatus(t, "pending")
  /\ UNCHANGED <<blockedBy, reason, doneAge, gated, verified, notified, procs>>

\* The recovery of a wedged agent reads the ids of rows that were handed out and
\* never started, restarts the agent, and makes all of them pending, whatever
\* their status is by then.
FindWedged(h) ==
  /\ wedged[h] = {}
  /\ \E S \in SUBSET With({"delivered"}) : wedged' = [wedged EXCEPT ![h] = S]
  /\ UNCHANGED <<row, chaining, listed, cleared, driver>>

RequeueWedged(h) ==
  /\ wedged[h] # {}
  /\ SetAll(wedged[h], "pending")
  /\ wedged' = [wedged EXCEPT ![h] = {}]
  /\ UNCHANGED <<blockedBy, reason, doneAge, gated, verified, notified>>
  /\ UNCHANGED <<chaining, listed, cleared, driver>>

\* The restart ends the script itself, or the agent is in its cooldown.
ForgetWedged(h) ==
  /\ wedged[h] # {}
  /\ wedged' = [wedged EXCEPT ![h] = {}]
  /\ UNCHANGED <<row, chaining, listed, cleared, driver>>

\* handle_blocked_auto_resolve of the janitor: it reads the blocked rows and their
\* reasons, then for each the row its reason names, be it in blocked_by or not,
\* then writes.  A run that dies leaves its list to nobody.
ListNamed ==
  /\ "named" \in Practices
  /\ listed' = {p \in Task \X Task : status[p[1]] = "blocked" /\ reason[p[1]] = <<"msg #", p[2]>>}
  /\ cleared' = {}
  /\ UNCHANGED <<row, chaining, wedged, driver>>

FindCleared(t, d) ==
  /\ <<t, d>> \in listed
  /\ listed' = listed \ {<<t, d>>}
  /\ cleared' = IF status[d] \in {"blocked", "absent"} THEN cleared ELSE cleared \union {t}
  /\ UNCHANGED <<row, chaining, wedged, driver>>

AutoResolve(t) ==
  /\ t \in cleared
  /\ cleared' = cleared \ {t}
  /\ IF status[t] = "blocked"
       THEN SetStatus(t, "pending") /\ SetReason(t, Other)
       ELSE UNCHANGED <<status, reason, returned>>
  /\ UNCHANGED <<blockedBy, doneAge, gated, verified, notified>>
  /\ UNCHANGED <<chaining, wedged, listed, driver>>

\* Pass 7: within 30 seconds, and once.
Ping(t) ==
  /\ "ping" \in Practices
  /\ status[t] \in {"done", "failed"} /\ doneAge[t] = "fresh"
  /\ notified[t] = "none"
  /\ notified' = [notified EXCEPT ![t] = "ping"]
  /\ UNCHANGED <<status, blockedBy, reason, doneAge, gated, verified, returned, procs>>

\* Mutant of Bounce: nothing stops a second one.
BounceAgain(t) ==
  /\ t \in Reviewed
  /\ status[t] = "done" /\ doneAge[t] = "fresh" /\ verified[t] = "no"
  /\ SetStatus(t, "input-required")
  /\ gated' = gated \union {t}
  /\ UNCHANGED <<blockedBy, reason, doneAge, verified, notified, procs>>

\* Pass 3a.
Bounce(t) ==
  /\ t \in Reviewed \ gated
  /\ status[t] = "done" /\ doneAge[t] = "fresh" /\ verified[t] = "no"
  /\ SetStatus(t, "input-required")
  /\ gated' = gated \union {t}
  /\ UNCHANGED <<blockedBy, reason, doneAge, verified, notified, procs>>

\* Pass 5 marks a done row of tier trivial, runs its check for up to 30 seconds,
\* and parks the row when the check fails, whatever its status is by then.
CheckStart(t) ==
  /\ t \in Trivial
  /\ status[t] = "done" /\ verified[t] = "no"
  /\ verified' = [verified EXCEPT ![t] = "checking"]
  /\ UNCHANGED <<status, blockedBy, reason, doneAge, gated, notified, returned, procs>>

\* The mark stays when the poller dies in between, too.
CheckPasses(t) ==
  /\ verified[t] = "checking"
  /\ verified' = [verified EXCEPT ![t] = "yes"]
  /\ UNCHANGED <<status, blockedBy, reason, doneAge, gated, notified, returned, procs>>

CheckFails(t) ==
  /\ verified[t] = "checking"
  /\ verified' = [verified EXCEPT ![t] = "no"]
  /\ SetStatus(t, "input-required")
  /\ SetReason(t, Other)
  /\ gated' = gated \union {t}
  /\ UNCHANGED <<blockedBy, doneAge, notified, procs>>

\* fleet qa-pass, on a row of any status without a verdict: done for standard
\* work, parked for a second key for high stakes.
QaPass(t) ==
  /\ "verdict" \in Practices /\ t \in gated /\ Exists(t)
  /\ verified[t] = "no"
  /\ verified' = [verified EXCEPT ![t] = "yes"]
  /\ \/ SetStatus(t, "done") /\ StampDone(t) /\ UNCHANGED reason
     \/ SetStatus(t, "input-required") /\ SetReason(t, Other) /\ UNCHANGED doneAge
  /\ UNCHANGED <<blockedBy, gated, notified, procs>>

\* fleet qa-fail, on a row of any status; it appends to the reason.
QaFail(t) ==
  /\ "verdict" \in Practices /\ t \in gated /\ Exists(t)
  /\ verified' = [verified EXCEPT ![t] = "yes"]
  /\ SetStatus(t, "input-required")
  /\ UNCHANGED <<blockedBy, reason, doneAge, gated, notified, procs>>

\* The Forge; Pass 3d does the same to planned work whose reviewer is silent.
\* (The timeout of Pass 3b is a Fail.)
Approve(t) ==
  /\ status[t] = "input-required"
  /\ SetStatus(t, "done")
  /\ StampDone(t)
  /\ verified' = [verified EXCEPT ![t] = "yes"]
  /\ UNCHANGED <<blockedBy, reason, gated, notified, procs>>

\* Time passes for one row: done_at crosses 5 minutes, then 30.
GrowOld(t) ==
  /\ doneAge[t] \in {"fresh", "recent"}
  /\ doneAge' = [doneAge EXCEPT ![t] = IF @ = "fresh" THEN "recent" ELSE "old"]
  /\ UNCHANGED <<status, blockedBy, reason, gated, verified, notified, returned, procs>>

-----------------------------------------------------------------------------
(* A tick of gcg-loop-driver.                                              *)

\* Mutant of Wired: rows with dependencies, whatever their status.
WiredAnyStatus == {t \in Task : Exists(t) /\ blockedBy[t] # {}}

Wired == {t \in With({"blocked"}) : blockedBy[t] # {}}

\* Mutant of Ready: blockers that have ended count as done.
ReadyOnceEnded == {t \in Wired : blockedBy[t] \subseteq With(Terminal)}
Ready == {t \in Wired : blockedBy[t] \subseteq With({"done"})}

Orphaned ==
  {t \in Wired : /\ blockedBy[t] \subseteq With(Terminal)
                 /\ blockedBy[t] \cap With(Bad) # {}
                 /\ blockedBy[t] \cap With(Bad) \cap PlanAuthorized = {}}

\* Mutant of Restored: any row that ended lately.
RestoredByAnyEnd == {t \in With(Terminal) : doneAge[t] = "fresh"}

Restored == {t \in With({"done", "input-required"}) : doneAge[t] = "fresh"}

DepFailed == {t \in With({"failed"}) : reason[t] = DependencyFailed}

Recoverable ==
  {t \in DepFailed :
     /\ blockedBy[t] \cap Restored # {}
     /\ doneAge[t] \in {"fresh", "recent"}}

SetReasons(S, r) == reason' = [t \in Task |-> IF t \in S THEN r ELSE reason[t]]

\* Mutant of UnblockReady: nothing to release ends the tick.
UnblockReadyOrStop ==
  /\ stage = "unblock"
  /\ stage' = IF Ready = {} THEN "unblock" ELSE "orphan"
  /\ SetAll(Ready, "pending")
  /\ UNCHANGED <<blockedBy, reason, doneAge, gated, verified, notified, chaining, healing, swept>>

UnblockReady ==
  /\ stage = "unblock"
  /\ stage' = "orphan"
  /\ SetAll(Ready, "pending")
  /\ UNCHANGED <<blockedBy, reason, doneAge, gated, verified, notified, chaining, healing, swept>>

\* Mutant of SweepOrphans: only rows all of whose blockers came to nothing.
SweepHopeless ==
  LET H == {t \in Wired : blockedBy[t] \subseteq With(Bad) \ PlanAuthorized} IN
  /\ stage = "orphan"
  /\ swept' = H
  /\ stage' = IF H = {} THEN "unblock" ELSE "notify"
  /\ SetAll(H, "failed")
  /\ doneAge' = [t \in Task |-> IF t \in H THEN "fresh" ELSE doneAge[t]]
  /\ SetReasons(H, DependencyFailed)
  /\ UNCHANGED <<blockedBy, gated, verified, notified, chaining, healing>>

SweepOrphans ==
  /\ stage = "orphan"
  /\ swept' = Orphaned
  /\ stage' = IF Orphaned = {} THEN "unblock" ELSE "notify"
  /\ SetAll(Orphaned, "failed")
  /\ doneAge' = [t \in Task |-> IF t \in Orphaned THEN "fresh" ELSE doneAge[t]]
  /\ SetReasons(Orphaned, DependencyFailed)
  /\ UNCHANGED <<blockedBy, gated, verified, notified, chaining, healing>>

\* Stamps what failed in the last 30 seconds: this tick's rows, and those of a
\* tick that ended early.  The message to daen is a row of its own.
NotifyDaen ==
  /\ stage = "notify"
  /\ stage' = "recover"
  /\ \E late \in SUBSET {t \in DepFailed : doneAge[t] = "fresh"} :
       notified' = [t \in Task |-> IF t \in late \union (swept \cap DepFailed) /\ notified[t] = "none"
                                   THEN "decision" ELSE notified[t]]
  /\ UNCHANGED <<status, blockedBy, reason, doneAge, gated, verified, returned, chaining, healing, swept>>

RecoverRestored ==
  /\ stage = "recover"
  /\ stage' = "unblock"
  /\ swept' = {}
  /\ SetAll(Recoverable, "pending")
  /\ doneAge' = [t \in Task |-> IF t \in Recoverable THEN "none" ELSE doneAge[t]]
  /\ SetReasons(Recoverable, Other)
  /\ UNCHANGED <<blockedBy, gated, verified, notified, chaining, healing>>

\* set -e: a psql error ends the tick, the next one starts over.
TickDies ==
  /\ stage # "unblock"
  /\ stage' = "unblock"
  /\ swept' = {}
  /\ UNCHANGED <<row, chaining, healing>>

-----------------------------------------------------------------------------
Command(t) ==
  \/ \E s \in SendStatus : Send(t, s)
  \/ Start(t) \/ Ack(t) \/ Done(t) \/ Fail(t) \/ Cancel(t)
  \/ \E dep \in Task : BlockOn(t, dep)
  \/ BlockForAttention(t)

Chain(c) ==
  \/ \E id, dep \in Task : ChainCheck(c, id, dep) \/ ChainWrite(c, id, dep)
  \/ ChainAbort(c)

\* What a pass of a poller, the janitor, a reviewer or the clock does to one row.
Pass(t) ==
  \/ Claim(t) \/ Requeue(t) \/ AutoResolve(t) \/ Ping(t) \/ GrowOld(t)
  \/ Bounce(t) \/ CheckStart(t) \/ CheckPasses(t) \/ CheckFails(t)
  \/ QaPass(t) \/ QaFail(t) \/ Approve(t)

Heal(h) == FindWedged(h) \/ RequeueWedged(h) \/ ForgetWedged(h)

Janitor == ListNamed \/ \E t, d \in Task : FindCleared(t, d)

LoopDriver == UnblockReady \/ SweepOrphans \/ NotifyDaen \/ RecoverRestored

Next ==
  \/ \E t \in Task : Command(t) \/ Pass(t)
  \/ \E c \in Client : Chain(c)
  \/ \E h \in Healer : Heal(h)
  \/ Janitor
  \/ LoopDriver
  \/ TickDies

Spec == Init /\ [][Next]_vars

-----------------------------------------------------------------------------
(* Properties.                                                             *)

\* `fleet chain` never closes a cycle of dependencies (cmd_chain: "ONLY if it
\* would not create a cycle"), so no set of rows waits for itself.
Acyclic == AcyclicOn(Task)

\* A row that may be claimed, or is being worked on, has every blocker done, or
\* had it until that blocker was itself taken back: what the driver releases stays
\* ready while it is claimed, requeued, and recovered.
DepsDone ==
  \A t \in With({"pending", "delivered", "in_progress"}) :
    blockedBy[t] \subseteq With({"done"}) \union returned

\* Who may take an ended row back: the one bounce of Pass 3a, of a row nobody was
\* asked about; the failing check of Pass 5; a verdict.
TakenBack(t) ==
  \/ /\ status[t] = "done" /\ status'[t] = "input-required"
     /\ t \in Reviewed \ gated
  \/ verified[t] = "checking" /\ verified'[t] = "no" /\ status'[t] = "input-required"
  \/ /\ "verdict" \in Practices /\ t \in gated
     /\ verified'[t] = "yes" /\ status'[t] \in {"done", "input-required"}

\* A healer had found it handed out and never started.
Reissued(t) == status'[t] = "pending" /\ \E h \in Healer : t \in wedged[h]

\* It was failed for a blocker, and a blocker of it is no longer what it was.
Revived(t) == t \in DepFailed /\ blockedBy[t] \cap returned # {} /\ status'[t] = "pending"

\* The outcome of a row is final: no step, the recovery of orphans included,
\* moves a row out of done, failed or cancelled, but for these three.
OutcomeFinal ==
  [][\A t \in Task :
       status[t] \in Terminal =>
         status'[t] = status[t] \/ TakenBack(t) \/ Reissued(t) \/ Revived(t)]_status

\* The register keeps the promise of Workflow: a claim, a start and a guarded
\* requeue are none of its business, nor is anything but the status, the blockers,
\* the mark of a gate and the list of a healer.
Phase(s) ==
  CASE s = "absent"         -> "new"
    [] s = "blocked"        -> "waiting"
    [] s = "input-required" -> "parked"
    [] s \in Terminal       -> s
    [] OTHER                -> "ready"
Phases == [t \in Task |-> Phase(status[t])]
Suspects == UNION {wedged[h] : h \in Healer}
Promise ==
  INSTANCE Workflow WITH phase <- Phases, needs <- blockedBy, seen <- gated,
                         suspect <- Suspects, back <- returned
KeepsPromise == Promise!Spec

\* What the driver cannot settle: a human gate, a row registered --blocked and
\* not chained yet, and a failed blocker that is plan_authorized.
WaitsForOthers ==
  \/ With({"input-required", "absent"}) # {}
  \/ With({"blocked"}) # Wired
  \/ With(Bad) \cap PlanAuthorized # {}

\* The agents answer for what they were given: assumed, not enforced.
Finish(t) == status[t] \in {"delivered", "in_progress"} /\ (Done(t) \/ Fail(t))

Fairness ==
  /\ WF_vars(UnblockReady)
  /\ SF_vars(SweepOrphans)
  /\ WF_vars(NotifyDaen)
  /\ WF_vars(RecoverRestored)
  /\ \A t \in Task : WF_vars(Claim(t)) /\ SF_vars(Finish(t))

FairSpec == Spec /\ Fairness

\* Every blocked row with dependencies is released or failed in the end, unless
\* something outside the driver keeps it waiting.
EveryBlockReleased ==
  \A t \in Task : (t \in Wired) ~> (t \notin Wired \/ WaitsForOthers)

\* A blocked row whose blockers have all ended is settled by the driver alone,
\* whichever mixture of done, failed and cancelled they ended in.
SettledRowsLeave ==
  \A t \in Task : (t \in Ready \union Orphaned) ~> (t \notin Ready \union Orphaned)
=============================================================================
