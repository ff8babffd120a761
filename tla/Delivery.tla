------------------------------- MODULE Delivery -------------------------------
(***************************************************************************)
(* How a row of agent_messages reaches its recipient: gcg-inbox-poll       *)
(* claims it, writes inbox/<id>.json and wakes the agent's session; the    *)
(* agent starts and finishes it; the hourly janitor, a2a-watcher and       *)
(* gcg-inbox-stale-check put back, give up or repair what got stuck.       *)
(*                                                                         *)
(* One agent.  One SQL statement, file operation or restart is one step.   *)
(* The poller and each healer run one instance at a time (flock, oneshot   *)
(* units), but all of them run side by side.                               *)
(***************************************************************************)
EXTENDS Naturals

CONSTANTS
  Msg,       \* ids of the rows sent to the agent
  Reply,     \* those of task_type reply or result
  Healers,   \* which healers are installed
  Practices  \* optional behaviours, see Practice

\* "ack":      fleet ack by the agent
\* "drop":     a woken agent ends its turn without starting a message
\* "withdraw": fleet fail or cancel
\* "freeze":   the session stops, its process stays up
\* "crash":    a tick of the poller ends early, or a wake is lost
\* "abort":    a run of a healer ends early
\* "recovery": WEDGE_RECOVERY of gcg-inbox-stale-check
\* "pass8":    LIVENESS_AWARE of gcg-inbox-poll
\* "refuse":   systemctl restart fails
Practice == {"ack", "drop", "withdraw", "freeze", "crash", "abort", "recovery", "pass8",
             "refuse"}
Healer   == {"janitor", "watcher", "stale-check"}

ASSUME DeliveryAssumption ==
  /\ Reply \subseteq Msg
  /\ Healers \subseteq Healer
  /\ Practices \subseteq Practice

VARIABLES
  status,   \* agent_messages.status
  count,    \* deliver_count
  claimed,  \* age of acked_at
  begun,    \* age of started_at
  old,      \* rows issued more than 12 minutes ago
  file,     \* rows whose inbox/<id>.json exists
  session,  \* "live", or "frozen": pokes are swallowed
  told,     \* rows a wake named and the session has not looked at
  working,  \* rows the session is working on
  stage,    \* next statement of the poller's tick
  todo,     \* ids that statement works through
  poke,     \* ids the tick's wake will name
  phase,    \* next step of each healer's run
  plan,     \* what that run decided, from rows it read
  suspect,  \* stale-check counted the agent among the wedged ones
  cooling   \* restart stamps less than 30 minutes old

row    == <<status, count, claimed, begun, old>>
agent  == <<session, told, working>>
tick   == <<stage, todo, poke>>
healer == <<phase, plan, suspect>>
vars   == <<row, file, agent, tick, healer, cooling>>

Terminal == {"done", "failed", "cancelled"}
Waiting  == {"delivered", "acked"}
Claimed  == Waiting \union {"in_progress"}
Status   == Terminal \union Claimed \union {"absent", "pending"}

\* acked_at: past RETRY_BACKOFF, 12 minutes, 30 minutes, 1 hour.
Ages  == <<"fresh", "due", "zombie", "late", "stale">>
Age   == {"none", "fresh", "due", "zombie", "late", "stale"}
Stage == {"classify", "zombies", "claim", "write", "rewrite", "wedge", "requeue", "wake"}
Phase == {"idle", "stale", "check", "restart", "scan", "reset",
          "heal", "clean", "wedge", "requeue"}
Stamp == {"shared", "stale-check", "pass8"}
Order == {"reset", "end", "write", "rm", "requeue"}

TypeOK ==
  /\ status \in [Msg -> Status]
  /\ count \in [Msg -> Nat]
  /\ claimed \in [Msg -> Age]
  /\ begun \in [Msg -> {"none", "fresh", "stuck"}]
  /\ old \subseteq Msg /\ file \subseteq Msg
  /\ session \in {"live", "frozen"}
  /\ told \subseteq Msg /\ working \subseteq Msg
  /\ stage \in Stage
  /\ todo \subseteq Msg /\ poke \subseteq Msg
  /\ phase \in [Healer -> Phase]
  /\ plan \in [Healer -> SUBSET (Msg \X Order)]
  /\ suspect \in BOOLEAN
  /\ cooling \subseteq Stamp

Init ==
  /\ status = [m \in Msg |-> "absent"]
  /\ count = [m \in Msg |-> 0]
  /\ claimed = [m \in Msg |-> "none"]
  /\ begun = [m \in Msg |-> "none"]
  /\ old = {} /\ file = {}
  /\ session = "live" /\ told = {} /\ working = {}
  /\ stage = "classify" /\ todo = {} /\ poke = {}
  /\ phase = [h \in Healer |-> "idle"]
  /\ plan = [h \in Healer |-> {}]
  /\ suspect = FALSE /\ cooling = {}

-----------------------------------------------------------------------------
(* The sender, and the agent's session with the fleet CLI.                 *)

Set(f, S, v) == [m \in Msg |-> IF m \in S THEN v ELSE f[m]]
With(S)      == {m \in Msg : status[m] \in S}
Unstarted    == {m \in Msg : begun[m] = "none"}

Send(m) ==
  /\ status[m] = "absent"
  /\ status' = Set(status, {m}, "pending")
  /\ UNCHANGED <<count, claimed, begun, old, file, agent, tick, healer, cooling>>

\* cat the file, fleet start.
Start(m) ==
  /\ session = "live" /\ m \in told /\ m \in file
  /\ status[m] \in Claimed \union {"pending"}
  /\ status' = Set(status, {m}, "in_progress")
  /\ begun' = IF begun[m] = "none" THEN Set(begun, {m}, "fresh") ELSE begun
  /\ told' = told \ {m}
  /\ working' = working \union {m}
  /\ UNCHANGED <<count, claimed, old, file, session, tick, healer, cooling>>

\* The row has ended or its file is gone; or the turn ends without acting.
Skip(m) ==
  /\ session = "live" /\ m \in told
  /\ status[m] \in Terminal \/ m \notin file \/ "drop" \in Practices
  /\ told' = told \ {m}
  /\ UNCHANGED <<row, file, session, working, tick, healer, cooling>>

Ack(m) ==
  /\ "ack" \in Practices
  /\ session = "live" /\ m \in told \union working
  /\ status[m] \notin Terminal
  /\ status' = Set(status, {m}, "acked")
  /\ claimed' = Set(claimed, {m}, "fresh")
  /\ UNCHANGED <<count, begun, old, file, agent, tick, healer, cooling>>

\* fleet done and fleet fail do not look at the status.
Finish(m, s) ==
  /\ session = "live" /\ m \in working
  /\ s \in {"done"} \union (IF "withdraw" \in Practices THEN {"failed"} ELSE {})
  /\ status' = Set(status, {m}, s)
  /\ working' = working \ {m}
  /\ UNCHANGED <<count, claimed, begun, old, file, session, told, tick, healer, cooling>>

\* Mutant of Cancel: the status is spelt the other way.
CancelMisspelt(m) ==
  /\ "withdraw" \in Practices
  /\ status[m] \notin Terminal \union {"absent"}
  /\ status' = Set(status, {m}, "canceled")
  /\ UNCHANGED <<count, claimed, begun, old, file, agent, tick, healer, cooling>>

Cancel(m) ==
  /\ "withdraw" \in Practices
  /\ status[m] \notin Terminal \union {"absent"}
  /\ status' = Set(status, {m}, "cancelled")
  /\ UNCHANGED <<count, claimed, begun, old, file, agent, tick, healer, cooling>>

\* rm inbox/<id>.json, after the row ended.
Remove(m) ==
  /\ session = "live" /\ m \in file \ working
  /\ status[m] \in Terminal
  /\ file' = file \ {m}
  /\ UNCHANGED <<row, agent, tick, healer, cooling>>

Freeze ==
  /\ "freeze" \in Practices /\ session = "live"
  /\ session' = "frozen"
  /\ UNCHANGED <<row, file, told, working, tick, healer, cooling>>

-----------------------------------------------------------------------------
(* gcg-inbox-poll.                                                         *)

NoTick == stage' = "classify" /\ todo' = {} /\ poke' = {}

Swept   == With({"pending"}) \intersect Reply
Zombies == {m \in With(Waiting) \intersect Unstarted :
              count[m] >= 2 /\ claimed[m] \in {"zombie", "late", "stale"}}

\* Pass 0a2.
Classify ==
  /\ stage = "classify" /\ stage' = "zombies"
  /\ status' = Set(status, Swept, "done")
  /\ UNCHANGED <<count, claimed, begun, old, file, agent, todo, poke, healer, cooling>>

\* Pass 0c.
GiveUp ==
  /\ stage = "zombies" /\ stage' = "claim"
  /\ status' = Set(status, Zombies, "failed")
  /\ UNCHANGED <<count, claimed, begun, old, file, agent, todo, poke, healer, cooling>>

\* Pass 1: the UPDATE; the files follow.
Claim ==
  LET C == With({"pending"}) IN
  /\ stage = "claim" /\ stage' = "write"
  /\ status' = Set(status, C, "delivered")
  /\ claimed' = Set(claimed, C, "fresh")
  /\ count' = [m \in Msg |-> IF m \in C THEN count[m] + 1 ELSE count[m]]
  /\ todo' = C /\ poke' = C
  /\ UNCHANGED <<begun, old, file, agent, healer, cooling>>

\* _write_file of Pass 1, and of Pass 2 where the file is missing.
WriteFile(m) ==
  /\ stage \in {"write", "rewrite"} /\ m \in todo
  /\ file' = file \union {m}
  /\ todo' = todo \ {m}
  /\ UNCHANGED <<row, agent, stage, poke, healer, cooling>>

\* Pass 2.
Repoke ==
  LET D == {m \in With(Waiting) : claimed[m] \in {"due", "zombie"}} IN
  /\ stage = "write" /\ todo = {} /\ stage' = "rewrite"
  /\ claimed' = Set(claimed, D, "fresh")
  /\ todo' = D /\ poke' = poke \union D
  /\ UNCHANGED <<status, count, begun, old, file, agent, healer, cooling>>

\* Mutant of Wedged: any claimed row nobody started in time.
WedgedAtOnce(S) == With(S) \intersect Unstarted \intersect old

Wedged(S) == {m \in With(S) \intersect Unstarted \intersect old : count[m] >= 3}
Busy      == With({"in_progress"}) # {}

\* Pass 8: the SELECT.
Examine ==
  LET W == IF "pass8" \in Practices /\ "pass8" \notin cooling /\ ~Busy
             THEN Wedged(Waiting) ELSE {} IN
  /\ stage = "rewrite" /\ todo = {}
  /\ todo' = W
  /\ stage' = IF W = {} THEN "wake" ELSE "wedge"
  /\ UNCHANGED <<row, file, agent, poke, healer, cooling>>

\* systemctl restart openclaw-<agent>.  The poller's unit is PartOf it, so its
\* tick ends there.
Restart == session' = "live" /\ told' = {} /\ working' = {} /\ NoTick

WedgeRestart ==
  /\ stage = "wedge"
  /\ Restart
  /\ UNCHANGED <<row, file, healer, cooling>>

\* The restart is refused: the script goes on to its stamp.
WedgeRestartFails ==
  /\ "refuse" \in Practices
  /\ stage = "wedge" /\ stage' = "requeue"
  /\ cooling' = cooling \union {"pass8"}
  /\ UNCHANGED <<row, file, agent, todo, poke, healer>>

WedgeRequeue ==
  /\ stage = "requeue" /\ stage' = "wake"
  /\ status' = Set(status, todo, "pending")
  /\ count' = Set(count, todo, 0)
  /\ todo' = {}
  /\ UNCHANGED <<claimed, begun, old, file, agent, poke, healer, cooling>>

\* POST /hooks/fleet.  A frozen session takes the poke and does nothing.
Wake ==
  /\ stage = "wake"
  /\ told' = IF session = "live" THEN told \union poke ELSE told
  /\ NoTick
  /\ UNCHANGED <<row, file, session, working, healer, cooling>>

\* ERR trap, a stopped unit; at stage "wake", a POST that fails.
TickDies ==
  /\ "crash" \in Practices /\ stage # "classify"
  /\ NoTick
  /\ UNCHANGED <<row, file, agent, healer, cooling>>

-----------------------------------------------------------------------------
(* What the healers share.                                                 *)

At(h, p)    == h \in Healers /\ phase[h] = p
Move(h, p)  == phase' = [phase EXCEPT ![h] = p]
Decide(h, S) == plan' = [plan EXCEPT ![h] = S]
Tick(h, e)  == plan' = [plan EXCEPT ![h] = @ \ {e}]

\* Mutant of Verdicts: off by one at the limit.
VerdictsPastLimit(S, limit) ==
  {<<m, IF count[m] > limit THEN "end" ELSE "reset">> : m \in S}

\* A row read with n deliveries is given up from limit on, else put back.
Verdicts(S, limit) ==
  {<<m, IF count[m] >= limit THEN "end" ELSE "reset">> : m \in S}

\* The UPDATE of one row of a plan, and its effect on the columns: an ended row
\* gets status s, a reset one is pending again and counts one delivery more.
Apply(h, m, guard, s, restarted) ==
  \E order \in {"end", "reset"} :
    /\ <<m, order>> \in plan[h]
    /\ Tick(h, <<m, order>>)
    /\ IF status[m] \notin guard
         THEN UNCHANGED <<status, claimed, begun, count>>
       ELSE IF order = "end"
         THEN status' = Set(status, {m}, s) /\ UNCHANGED <<claimed, begun, count>>
         ELSE /\ status' = Set(status, {m}, "pending")
              /\ claimed' = Set(claimed, {m}, "none")
              /\ begun' = IF restarted THEN Set(begun, {m}, "none") ELSE begun
              /\ count' = [count EXCEPT ![m] = @ + 1]
    /\ UNCHANGED <<old, file, agent, tick, phase, suspect, cooling>>

Ends(h, p) ==
  /\ At(h, p) /\ plan[h] = {}
  /\ Move(h, "idle")
  /\ UNCHANGED <<row, file, agent, tick, plan, suspect, cooling>>

\* The runtime guard, or a kill, ends a run between two of its steps.
Aborts(h) ==
  /\ "abort" \in Practices
  /\ h \in Healers /\ phase[h] # "idle"
  /\ Move(h, "idle") /\ Decide(h, {})
  /\ suspect' = (suspect /\ h # "stale-check")
  /\ UNCHANGED <<row, file, agent, tick, cooling>>

\* Restart unless the stamp janitor and watcher share is fresh, and stamp it;
\* or the restart is refused.
MayRestart(h, next) ==
  /\ At(h, "restart") /\ Move(h, next)
  /\ \/ /\ "shared" \notin cooling
        /\ Restart
        /\ cooling' = cooling \union {"shared"}
     \/ /\ "shared" \in cooling \/ "refuse" \in Practices
        /\ UNCHANGED <<agent, tick, cooling>>
  /\ UNCHANGED <<row, file, plan, suspect>>

-----------------------------------------------------------------------------
(* gcg-inbox-janitor: handle_acked_stale, then handle_wedged_inprogress.   *)

JanitorStale ==
  LET S == {m \in With(Waiting) \intersect Unstarted : claimed[m] = "stale"} IN
  /\ At("janitor", "idle") /\ Move("janitor", "stale")
  /\ Decide("janitor", Verdicts(S, 6))
  /\ UNCHANGED <<row, file, agent, tick, suspect, cooling>>

\* Mutant of JanitorStaleRow: the UPDATE asks for the id only.
JanitorStaleRowUnguarded(m) ==
  At("janitor", "stale") /\ Apply("janitor", m, Status, "cancelled", FALSE)

JanitorStaleRow(m) ==
  At("janitor", "stale") /\ Apply("janitor", m, Waiting, "cancelled", FALSE)

JanitorStuck ==
  LET S == {m \in With({"in_progress"}) : begun[m] = "stuck"} IN
  /\ At("janitor", "stale") /\ plan["janitor"] = {}
  /\ Move("janitor", IF S = {} THEN "idle" ELSE "restart")
  /\ Decide("janitor", Verdicts(S, 3))
  /\ UNCHANGED <<row, file, agent, tick, suspect, cooling>>

JanitorRestart == MayRestart("janitor", "reset")

JanitorStuckRow(m) ==
  At("janitor", "reset") /\ Apply("janitor", m, {"in_progress"}, "failed", TRUE)

-----------------------------------------------------------------------------
(* a2a-watcher.                                                            *)

\* A session that has written nothing for 5 minutes: frozen, or quiet.
WatcherCheck ==
  /\ At("watcher", "idle") /\ Move("watcher", "restart")
  /\ With(Claimed) \intersect old # {}
  /\ UNCHANGED <<row, file, agent, tick, plan, suspect, cooling>>

WatcherRestart == MayRestart("watcher", "scan")

\* Mutant of WatcherScan: takes care of started rows only.
WatcherScanStarted ==
  /\ At("watcher", "scan") /\ Move("watcher", "reset")
  /\ Decide("watcher", Verdicts(With({"in_progress"}) \intersect old, 3))
  /\ UNCHANGED <<row, file, agent, tick, suspect, cooling>>

WatcherScan ==
  /\ At("watcher", "scan") /\ Move("watcher", "reset")
  /\ Decide("watcher", Verdicts(With(Claimed) \intersect old, 3))
  /\ UNCHANGED <<row, file, agent, tick, suspect, cooling>>

WatcherRow(m) ==
  At("watcher", "reset") /\ Apply("watcher", m, Claimed, "failed", TRUE)

-----------------------------------------------------------------------------
(* gcg-inbox-stale-check: the busy-guard once per run, fleet reconcile,    *)
(* then the recovery of a wedged session.                                  *)

StaleBegin ==
  /\ At("stale-check", "idle") /\ Move("stale-check", "heal")
  /\ suspect' = ("recovery" \in Practices /\ ~Busy /\ Wedged({"delivered"}) # {})
  /\ Decide("stale-check", With({"delivered", "in_progress"}) \X {"write"})
  /\ UNCHANGED <<row, file, agent, tick, cooling>>

StaleWrite(m) ==
  /\ At("stale-check", "heal") /\ <<m, "write">> \in plan["stale-check"]
  /\ Tick("stale-check", <<m, "write">>)
  /\ file' = file \union {m}
  /\ UNCHANGED <<row, agent, tick, phase, suspect, cooling>>

\* Mutant of StaleList: forgets that an acked row is still being worked on.
StaleListUnlisted ==
  /\ At("stale-check", "heal") /\ plan["stale-check"] = {}
  /\ Move("stale-check", "clean")
  /\ Decide("stale-check", (file \ With({"delivered", "in_progress"})) \X {"rm"})
  /\ UNCHANGED <<row, file, agent, tick, suspect, cooling>>

\* Files whose row has ended.
StaleList ==
  /\ At("stale-check", "heal") /\ plan["stale-check"] = {}
  /\ Move("stale-check", "clean")
  /\ Decide("stale-check", (file \intersect With(Terminal)) \X {"rm"})
  /\ UNCHANGED <<row, file, agent, tick, suspect, cooling>>

StaleRemove(m) ==
  /\ At("stale-check", "clean") /\ <<m, "rm">> \in plan["stale-check"]
  /\ Tick("stale-check", <<m, "rm">>)
  /\ file' = file \ {m}
  /\ UNCHANGED <<row, agent, tick, phase, suspect, cooling>>

StaleScan ==
  LET W == IF suspect /\ "stale-check" \notin cooling
             THEN Wedged({"delivered"}) ELSE {} IN
  /\ At("stale-check", "clean") /\ plan["stale-check"] = {}
  /\ Move("stale-check", IF W = {} THEN "idle" ELSE "wedge")
  /\ Decide("stale-check", W \X {"requeue"})
  /\ suspect' = FALSE
  /\ UNCHANGED <<row, file, agent, tick, cooling>>

\* Stamped whether or not the restart was refused.
StaleRestart ==
  /\ At("stale-check", "wedge") /\ Move("stale-check", "requeue")
  /\ Restart \/ ("refuse" \in Practices /\ UNCHANGED <<agent, tick>>)
  /\ cooling' = cooling \union {"stale-check"}
  /\ UNCHANGED <<row, file, plan, suspect>>

StaleRequeue ==
  LET R == {m \in Msg : <<m, "requeue">> \in plan["stale-check"]} IN
  /\ At("stale-check", "requeue") /\ Move("stale-check", "idle")
  /\ Decide("stale-check", {})
  /\ status' = Set(status, R, "pending")
  /\ count' = Set(count, R, 0)
  /\ UNCHANGED <<claimed, begun, old, file, agent, tick, suspect, cooling>>

-----------------------------------------------------------------------------
(* Time.  Columns age where a query reads them.  A run of the janitor or of *)
(* the watcher is over in a minute or two (MAX_RUNTIME_SEC), so nothing     *)
(* ages by more than that in the middle of one; gcg-inbox-stale-check has   *)
(* no such limit.                                                          *)

NoRun == \A h \in {"janitor", "watcher"} : phase[h] = "idle"

NextAge(a) == Ages[1 + CHOOSE i \in 1..4 : Ages[i] = a]

ClaimAges(m) ==
  /\ status[m] \in Waiting /\ claimed[m] \in Age \ {"none", "stale"}
  /\ claimed[m] # "fresh" => NoRun
  /\ claimed' = Set(claimed, {m}, NextAge(claimed[m]))
  /\ UNCHANGED <<status, count, begun, old, file, agent, tick, healer, cooling>>

WorkAges(m) ==
  /\ status[m] = "in_progress" /\ begun[m] = "fresh" /\ NoRun
  /\ begun' = Set(begun, {m}, "stuck")
  /\ UNCHANGED <<status, count, claimed, old, file, agent, tick, healer, cooling>>

RowAges(m) ==
  /\ status[m] # "absent" /\ m \notin old
  /\ old' = old \union {m}
  /\ UNCHANGED <<status, count, claimed, begun, file, agent, tick, healer, cooling>>

Expire(k) ==
  /\ k \in cooling
  /\ cooling' = cooling \ {k}
  /\ UNCHANGED <<row, file, agent, tick, healer>>

-----------------------------------------------------------------------------
Agent(m) ==
  \/ Start(m) \/ Skip(m) \/ Ack(m) \/ Cancel(m) \/ Remove(m)
  \/ \E s \in {"done", "failed"} : Finish(m, s)

Polls ==
  \/ Classify \/ GiveUp \/ Claim \/ Repoke \/ Examine \/ Wake
  \/ WedgeRestart \/ WedgeRestartFails \/ WedgeRequeue
  \/ \E m \in Msg : WriteFile(m)

Janitor ==
  \/ JanitorStale \/ JanitorStuck \/ JanitorRestart \/ Ends("janitor", "reset")
  \/ \E m \in Msg : JanitorStaleRow(m) \/ JanitorStuckRow(m)

Watches ==
  \/ WatcherRestart \/ WatcherScan \/ Ends("watcher", "reset")
  \/ \E m \in Msg : WatcherRow(m)

StaleCheck ==
  \/ StaleBegin \/ StaleList \/ StaleScan \/ StaleRestart \/ StaleRequeue
  \/ \E m \in Msg : StaleWrite(m) \/ StaleRemove(m)

Clock(m) == ClaimAges(m) \/ WorkAges(m) \/ RowAges(m)

Next ==
  \/ \E m \in Msg : Send(m) \/ Agent(m) \/ Clock(m)
  \/ Freeze
  \/ Polls \/ TickDies
  \/ Janitor \/ WatcherCheck \/ Watches \/ StaleCheck
  \/ \E h \in Healer : Aborts(h)
  \/ \E k \in Stamp : Expire(k)

Spec == Init /\ [][Next]_vars

-----------------------------------------------------------------------------
(* Properties.                                                             *)

\* A row that has ended is never handed out again, however late a healer's
\* UPDATE or a file operation comes ("never resurrect a done/cancelled/failed
\* row").
EndedStaysEnded ==
  [][\A m \in Msg : status[m] \in Terminal => status'[m] \in Terminal]_status

\* The message a session works on keeps its file until the row has ended: "a
\* claimed-but-unfinished message must keep its file".
WorkHasFile == \A m \in working : status[m] \notin Terminal => m \in file

\* A row is handed out a bounded number of times whoever puts it back, although a
\* reset and the claim after it both count, and the requeues start from 0 again.
MaxCount     == IF "janitor" \in Healers THEN 7 ELSE 4
CountBounded == \A m \in Msg : count[m] <= MaxCount

\* Delivery keeps the promise of Mailbox: an ended row comes back only through
\* the requeue of Pass 8 or of stale-check, and only when that very run had read
\* it as claimed three times over, and not started.
Mail(s) ==
  CASE s = "absent"    -> "none"
    [] s = "pending"   -> "queued"
    [] s \in Claimed   -> "held"
    [] s \in Terminal  -> "ended"
Mails  == [m \in Msg |-> Mail(status[m])]
Chosen ==
  [r \in {"pass8", "stale-check"} |->
     IF r = "pass8"
       THEN IF stage \in {"wedge", "requeue"} THEN todo ELSE {}
       ELSE {m \in Msg : <<m, "requeue">> \in plan["stale-check"]}]
Promise == INSTANCE Mailbox WITH
  Recovery <- {"pass8", "stale-check"},
  Patience <- 3,
  Limit    <- MaxCount,
  mail     <- Mails,
  handed   <- count,
  chosen   <- Chosen
KeepsPromise == Promise!Spec

\* The poller's loop.  Restarts are minutes apart and a tick takes seconds, so
\* ticks get as far as Pass 8 again and again; nor is every tick that has a
\* message in hand lost on the way, short of its own restart of the agent.
PollerFairness ==
  /\ WF_vars(Polls)
  /\ []<>(stage \in {"wedge", "wake"})
  /\ \A m \in Msg : []<>(m \in poke) => []<><<m \in poke /\ (Wake \/ WedgeRestart)>>_vars

\* The timers of the healers, and their runs.  Only a frozen session is sure
\* to be found quiet.
HealerFairness ==
  /\ WF_vars(Janitor)
  /\ WF_vars(Watches)
  /\ WF_vars(session = "frozen" /\ WatcherCheck)

\* Rows age, and runs are over long before the next ones are due.
ClockFairness ==
  /\ []<>NoRun
  /\ \A m \in Msg :
       /\ \A a \in Age \ {"none", "stale"} : []<>~(status[m] \in Waiting /\ claimed[m] = a)
       /\ []<>~(status[m] = "in_progress" /\ begun[m] = "fresh")
       /\ []<>(m \in old \/ status[m] = "absent")

\* An agent whose session lives starts what it is told of and finishes it.
AgentFairness ==
  \A m \in Msg : SF_vars(Start(m)) /\ WF_vars(Skip(m) /\ status[m] \in Terminal)
                 /\ WF_vars(Finish(m, "done"))

Machines == PollerFairness /\ HealerFairness /\ ClockFairness
FairSpec == Spec /\ Machines /\ AgentFairness

\* Every message sent ends: done, or given up by a healer, whatever freezes,
\* restarts and resets come in between.
EveryMessageEnds ==
  \A m \in Msg : status[m] = "pending" ~> status[m] \in Terminal
=============================================================================
