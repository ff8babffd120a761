-------------------------------- MODULE QAGate --------------------------------
(***************************************************************************)
(* The approval gate of agent_messages: Pass 3a of gcg-inbox-poll bounces  *)
(* finished work to 'input-required', Pass 6 has a second agent review it, *)
(* `fleet qa-pass` and `qa-fail` record the verdict, Pass 3b fails what    *)
(* nobody looked at, Pass 3d picks up after a silent reviewer, Pass 5      *)
(* checks trivial work and Pass 4 runs the hook of what was approved.      *)
(* .enable-input-required exists.                                          *)
(*                                                                         *)
(* One SQL statement is one step; a pass of several statements is several  *)
(* steps of one poller.  The pollers of a row's sender, recipient and      *)
(* owner all serve it.  'open' stands for pending, delivered, acked and    *)
(* in_progress, 'failed' for failed and cancelled.                         *)
(***************************************************************************)
EXTENDS Naturals

CONSTANTS
  Row,       \* ids of rows
  Sent,      \* ids that senders' rows get, the others are for review rows
  Poller,    \* gcg-inbox-poll of the agents named in a row
  Work,      \* what may be sent: a set of Kind
  NoRow,     \* parent of a row that reviews nothing
  Practices  \* optional behaviours, see Practice

\* "ack":       fleet ack on an input-required row
\* "attention": fleet block <id> <reason>, a doer asking for help
\* "reopen":    done, fail or block on a row that has ended
\* "recovery":  Pass 8 or gcg-inbox-stale-check requeues the rows of a wedged agent
\* "crash":     a statement of a poller fails, which ends its tick
\* "shirk":     a reviewer closes or loses the review without a verdict
\* "lag":       the pollers are down for minutes
Practice == {"ack", "attention", "reopen", "recovery", "crash", "shirk", "lag"}

\* qa_tier, the kind of task_type, owner_type = 'human', needs_review or a
\* payment type, plan_authorized, whether QA_ALLOWLIST holds somebody who is
\* neither doer, sender nor owner, and an on-complete hook.
Kind == [tier : {"trivial", "standard", "high_stakes"},
         type : {"work", "utility", "decision"},
         human : BOOLEAN, review : BOOLEAN, plan : BOOLEAN,
         eligible : BOOLEAN, hook : BOOLEAN]

ASSUME QAGateAssumption ==
  /\ Sent \subseteq Row
  /\ NoRow \notin Row
  /\ Work \subseteq Kind
  /\ Practices \subseteq Practice

VARIABLES
  status, kind,  \* the row and the columns send gives it
  parent,        \* parent_id of a qa_review row
  verdict,       \* verified_by, with the note saying what was found
  qaBy,          \* rows whose agent_qa_by is set
  dispatched,    \* rows whose qa_dispatched is set
  timedOut,      \* rows whose blocked_reason is the approval timeout
  gateAge,       \* age of input_required_at: none, fresh, over 30 minutes
  doneAge,       \* age of done_at: none, fresh, too old for passes 3a and 3d
  hook,          \* artifacts.cascade_resumed
  checking,      \* per review row: its qa-pass has read the parent
  busy,          \* per poller: the pass it is in the middle of
  wedged,        \* ids a recovery has read and not requeued yet
  bypassed       \* history: rows taken round the gate, until they are parked again

row     == <<status, kind, parent, verdict, qaBy, dispatched, timedOut, gateAge,
             doneAge, hook>>
scripts == <<checking, busy, wedged>>
vars    == <<row, scripts, bypassed>>

Status  == {"absent", "open", "input-required", "done", "failed"}
Verdict == {"none", "pass", "fail", "approved", "auto"}
Age     == {"none", "fresh", "late"}
Idle    == <<"idle">>
Passes  == {"mark", "insert", "check", "hook"}

TypeOK ==
  /\ status \in [Row -> Status]
  /\ kind \in [Row -> Kind]
  /\ parent \in [Row -> Row \union {NoRow}]
  /\ verdict \in [Row -> Verdict]
  /\ qaBy \subseteq Row /\ dispatched \subseteq Row /\ timedOut \subseteq Row
  /\ gateAge \in [Row -> Age]
  /\ doneAge \in [Row -> Age]
  /\ hook \in [Row -> {"none", "stored", "running", "ended"}]
  /\ checking \subseteq {q \in Row : parent[q] # NoRow}
  /\ busy \in [Poller -> {Idle} \union (Passes \X Row)]
  /\ wedged \subseteq Row /\ bypassed \subseteq Row

NoKind == [tier |-> "trivial", type |-> "utility", human |-> FALSE, review |-> FALSE,
           plan |-> FALSE, eligible |-> TRUE, hook |-> FALSE]

Init ==
  /\ status = [r \in Row |-> "absent"]
  /\ kind = [r \in Row |-> NoKind]
  /\ parent = [r \in Row |-> NoRow]
  /\ verdict = [r \in Row |-> "none"]
  /\ qaBy = {} /\ dispatched = {} /\ timedOut = {}
  /\ gateAge = [r \in Row |-> "none"]
  /\ doneAge = [r \in Row |-> "none"]
  /\ hook = [r \in Row |-> "none"]
  /\ checking = {} /\ wedged = {} /\ bypassed = {}
  /\ busy = [p \in Poller |-> Idle]

-----------------------------------------------------------------------------
(* gate_kind.py.                                                           *)

HumanGate(r)      == kind[r].human \/ kind[r].type = "decision"
WorkGate(r)       == ~HumanGate(r) /\ kind[r].tier \in {"standard", "high_stakes"}
NeedsQAFirst(r)   == WorkGate(r) /\ kind[r].tier = "high_stakes"

\* Parking a row at the gate, and closing it, stamp their times.
Park(r) ==
  /\ status' = [status EXCEPT ![r] = "input-required"]
  /\ gateAge' = [gateAge EXCEPT ![r] = "fresh"]
  /\ bypassed' = bypassed \ {r}

Close(r, s) ==
  /\ status' = [status EXCEPT ![r] = s]
  /\ doneAge' = [doneAge EXCEPT ![r] = "fresh"]

Rule(r, v) == verdict' = [verdict EXCEPT ![r] = v]

-----------------------------------------------------------------------------
(* Senders, doers and the human behind The Forge.                          *)

\* decide, deploy-gate, revert and send --input-required park the row at once.
Send(r, k) ==
  /\ r \in Sent /\ status[r] = "absent"
  /\ k \in Work
  /\ kind' = [kind EXCEPT ![r] = k]
  /\ hook' = [hook EXCEPT ![r] = IF k.hook THEN "stored" ELSE "none"]
  /\ \/ Park(r)
     \/ status' = [status EXCEPT ![r] = "open"] /\ UNCHANGED <<gateAge, bypassed>>
  /\ UNCHANGED <<parent, verdict, qaBy, dispatched, timedOut, doneAge, scripts>>

\* A command or a recovery makes a row workable, or done, past the gate.
Bypass(r) == bypassed' = bypassed \union {r}

Ack(r) ==
  /\ "ack" \in Practices
  /\ status[r] = "input-required"
  /\ status' = [status EXCEPT ![r] = "open"]
  /\ Bypass(r)
  /\ UNCHANGED <<kind, parent, verdict, qaBy, dispatched, timedOut, gateAge,
                 doneAge, hook, scripts>>

\* A review is closed after its verdict, unless the reviewer shirks.
Reviewed(r) ==
  parent[r] # NoRow => verdict[parent[r]] # "none" \/ "shirk" \in Practices

\* Agents leave a row that has ended alone unless "reopen" is practised: the
\* UPDATEs of done, fail and block do not ask for it.
MayTouch(r) ==
  status[r] # "absent" /\ (status[r] \in {"done", "failed"} => "reopen" \in Practices)

\* Mutant of Done: without the GATE GUARD.
DoneAtGate(r) ==
  /\ MayTouch(r) /\ Reviewed(r)
  /\ Close(r, "done")
  /\ IF status[r] = "failed" THEN Bypass(r) ELSE UNCHANGED bypassed
  /\ UNCHANGED <<kind, parent, verdict, qaBy, dispatched, timedOut, gateAge,
                 hook, scripts>>

Done(r) ==
  /\ MayTouch(r) /\ status[r] # "input-required" /\ Reviewed(r)
  /\ Close(r, "done")
  /\ IF status[r] = "failed" THEN Bypass(r) ELSE UNCHANGED bypassed
  /\ UNCHANGED <<kind, parent, verdict, qaBy, dispatched, timedOut, gateAge,
                 hook, scripts>>

\* fleet fail or cancel, and the janitor failing what is stuck in_progress:
\* blocked_reason is another text then, or the row is cancelled.
Fail(r) ==
  /\ MayTouch(r) /\ Reviewed(r)
  /\ Close(r, "failed")
  /\ timedOut' = timedOut \ {r}
  /\ UNCHANGED <<kind, parent, verdict, qaBy, dispatched, gateAge, hook, scripts, bypassed>>

\* Mutant of BlockForAttention: the status is spelt like the column.
BlockForAttentionMisspelt(r) ==
  /\ "attention" \in Practices /\ MayTouch(r)
  /\ status' = [status EXCEPT ![r] = "input_required"]
  /\ gateAge' = [gateAge EXCEPT ![r] = "fresh"]
  /\ timedOut' = timedOut \ {r}
  /\ UNCHANGED <<kind, parent, verdict, qaBy, dispatched, doneAge, hook, scripts, bypassed>>

BlockForAttention(r) ==
  /\ "attention" \in Practices
  /\ MayTouch(r)
  /\ Park(r)
  /\ timedOut' = timedOut \ {r}
  /\ UNCHANGED <<kind, parent, verdict, qaBy, dispatched, doneAge, hook, scripts>>

\* The recovery of a wedged agent reads rows that were handed out, restarts the
\* agent, and makes them pending, whatever their status is by then.
FindWedged(r) ==
  /\ "recovery" \in Practices /\ status[r] = "open"
  /\ wedged' = wedged \union {r}
  /\ UNCHANGED <<row, checking, busy, bypassed>>

Requeue(r) ==
  /\ r \in wedged
  /\ wedged' = wedged \ {r}
  /\ status' = [status EXCEPT ![r] = "open"]
  /\ Bypass(r)
  /\ UNCHANGED <<kind, parent, verdict, qaBy, dispatched, timedOut, gateAge,
                 doneAge, hook, checking, busy>>

\* POST /tasks/<id>/approve, which follows gate_kind.py.  A review that asked
\* for help is approved after its verdict, unless reviews are shirked.
Approve(r) ==
  /\ status[r] = "input-required" /\ Reviewed(r)
  /\ NeedsQAFirst(r) => r \in qaBy
  /\ Close(r, "done")
  /\ Rule(r, "approved")
  /\ UNCHANGED <<kind, parent, qaBy, dispatched, timedOut, gateAge, hook, scripts, bypassed>>

-----------------------------------------------------------------------------
(* Verdicts: q is the review row an agent works on, its parent the row     *)
(* judged.  Neither subcommand looks at the parent's status.               *)

QaPassRead(q) ==
  /\ status[q] = "open" /\ parent[q] # NoRow
  /\ parent[q] \notin qaBy /\ verdict[parent[q]] = "none"
  /\ checking' = checking \union {q}
  /\ UNCHANGED <<row, busy, wedged, bypassed>>

QaPassStandard(q) ==
  LET r == parent[q] IN
  /\ q \in checking /\ kind[r].tier # "high_stakes"
  /\ checking' = checking \ {q}
  /\ IF verdict[r] = "none"
       THEN Close(r, "done") /\ Rule(r, "pass")
       ELSE UNCHANGED <<status, doneAge, verdict>>
  /\ UNCHANGED <<kind, parent, qaBy, dispatched, timedOut, gateAge, hook, busy, wedged, bypassed>>

\* Parked again for daen, who is the owner from then on.
QaPassHighStakes(q) ==
  LET r == parent[q] IN
  /\ q \in checking /\ kind[r].tier = "high_stakes"
  /\ checking' = checking \ {q}
  /\ IF r \notin qaBy
       THEN /\ Park(r) /\ Rule(r, "pass")
            /\ qaBy' = qaBy \union {r}
            /\ kind' = [kind EXCEPT ![r].human = FALSE]
            /\ timedOut' = timedOut \ {r}
       ELSE UNCHANGED <<status, gateAge, bypassed, verdict, qaBy, kind, timedOut>>
  /\ UNCHANGED <<parent, dispatched, doneAge, hook, busy, wedged>>

\* Mutant of QaFail: the verdict is recorded and the row left where it is.
QaFailInPlace(q) ==
  /\ status[q] = "open" /\ parent[q] # NoRow /\ q \notin checking
  /\ Rule(parent[q], "fail")
  /\ UNCHANGED <<status, gateAge, kind, parent, qaBy, dispatched, timedOut,
                 doneAge, hook, scripts, bypassed>>

QaFail(q) ==
  /\ status[q] = "open" /\ parent[q] # NoRow /\ q \notin checking
  /\ Park(parent[q])
  /\ Rule(parent[q], "fail")
  /\ UNCHANGED <<kind, parent, qaBy, dispatched, timedOut, doneAge, hook, scripts>>

-----------------------------------------------------------------------------
(* Pass 3 of gcg-inbox-poll.                                               *)

NeedsGate(r) ==
  \/ HumanGate(r) \/ kind[r].review
  \/ WorkGate(r) /\ kind[r].type = "work"

Bounce(p, r) ==
  /\ busy[p] = Idle
  /\ status[r] = "done" /\ doneAge[r] = "fresh"
  /\ gateAge[r] = "none" /\ verdict[r] = "none"
  /\ kind[r].tier # "trivial" /\ NeedsGate(r)
  /\ Park(r)
  /\ UNCHANGED <<kind, parent, verdict, qaBy, dispatched, timedOut, doneAge,
                 hook, scripts>>

\* Mutant of MayTimeOut: what asks for a review is spared as well.
MayTimeOutUnasked(r) ==
  /\ ~HumanGate(r) /\ ~kind[r].plan /\ ~kind[r].review
  /\ r \notin dispatched

\* Mutant of MayTimeOut: the exemption of the owner is forgotten.
MayTimeOutAnyOwner(r) ==
  /\ kind[r].type # "decision" /\ ~kind[r].plan
  /\ r \notin dispatched
  /\ ~(kind[r].tier = "high_stakes" /\ r \in qaBy)

MayTimeOut(r) ==
  /\ ~HumanGate(r) /\ ~kind[r].plan
  /\ r \notin dispatched
  /\ ~(kind[r].tier = "high_stakes" /\ r \in qaBy)

Timeout(p, r) ==
  /\ busy[p] = Idle
  /\ status[r] = "input-required" /\ gateAge[r] = "late"
  /\ MayTimeOut(r)
  /\ Close(r, "failed")
  /\ timedOut' = timedOut \union {r}
  /\ UNCHANGED <<kind, parent, verdict, qaBy, dispatched, gateAge, hook, scripts, bypassed>>

\* Reviews that timed out lately, and the rows at the gate behind them.
Silent == {q \in timedOut : status[q] = "failed" /\ doneAge[q] = "fresh"}
Behind == {r \in Row : status[r] = "input-required" /\ \E q \in Silent : parent[q] = r}

\* Pass 3d, one statement over every such review.
AfterSilentReview(p) ==
  LET auto == {r \in Behind : kind[r].plan}
      again == (Behind \ auto) \intersect dispatched
  IN
  /\ busy[p] = Idle
  /\ auto \union again # {}
  /\ status' = [r \in Row |-> IF r \in auto THEN "done" ELSE status[r]]
  /\ doneAge' = [r \in Row |-> IF r \in auto THEN "fresh" ELSE doneAge[r]]
  /\ verdict' = [r \in Row |-> IF r \in auto THEN "auto" ELSE verdict[r]]
  /\ timedOut' = timedOut \ auto
  /\ dispatched' = dispatched \ again
  /\ UNCHANGED <<kind, parent, qaBy, gateAge, hook, scripts, bypassed>>

-----------------------------------------------------------------------------
(* Pass 4: the statement that claims the hook, and the hook's end.         *)

\* Mutant of MayResume: whatever reached 'done' is resumed.
MayResumeOnceDone(r) == status[r] = "done" /\ hook[r] = "stored"

MayResume(r) ==
  /\ status[r] = "done" /\ hook[r] = "stored"
  /\ verdict[r] # "none" /\ gateAge[r] # "none"

ResumeStart(p, r) ==
  /\ busy[p] = Idle
  /\ MayResume(r)
  /\ hook' = [hook EXCEPT ![r] = "running"]
  /\ busy' = [busy EXCEPT ![p] = <<"hook", r>>]
  /\ UNCHANGED <<status, kind, parent, verdict, qaBy, dispatched, timedOut,
                 gateAge, doneAge, checking, wedged, bypassed>>

ResumeEnd(p, r) ==
  /\ busy[p] = <<"hook", r>>
  /\ hook' = [hook EXCEPT ![r] = "ended"]
  /\ busy' = [busy EXCEPT ![p] = Idle]
  /\ UNCHANGED <<status, kind, parent, verdict, qaBy, dispatched, timedOut,
                 gateAge, doneAge, checking, wedged, bypassed>>

-----------------------------------------------------------------------------
(* Pass 5: verified_by is written before the registered check runs.  Every *)
(* trivial row here names a check.                                         *)

TrivialClaim(p, r) ==
  /\ busy[p] = Idle
  /\ status[r] = "done" /\ kind[r].tier = "trivial" /\ verdict[r] = "none"
  /\ Rule(r, "auto")
  /\ busy' = [busy EXCEPT ![p] = <<"check", r>>]
  /\ UNCHANGED <<status, kind, parent, qaBy, dispatched, timedOut, gateAge,
                 doneAge, hook, checking, wedged, bypassed>>

TrivialPass(p, r) ==
  /\ busy[p] = <<"check", r>>
  /\ busy' = [busy EXCEPT ![p] = Idle]
  /\ UNCHANGED <<row, checking, wedged, bypassed>>

TrivialFail(p, r) ==
  /\ busy[p] = <<"check", r>>
  /\ Park(r)
  /\ Rule(r, "none")
  /\ timedOut' = timedOut \ {r}
  /\ busy' = [busy EXCEPT ![p] = Idle]
  /\ UNCHANGED <<kind, parent, qaBy, dispatched, doneAge, hook, checking, wedged>>

-----------------------------------------------------------------------------
(* Pass 6: SELECT, mark, insert.                                           *)

MayDispatch(r) ==
  /\ status[r] = "input-required"
  /\ WorkGate(r)
  /\ r \notin qaBy \union dispatched

\* Bound on the number of reviews: Row \ Sent.
Room == \E q \in Row \ Sent : status[q] = "absent"

Select(p, r) ==
  /\ busy[p] = Idle /\ Room
  /\ MayDispatch(r) /\ kind[r].eligible
  /\ busy' = [busy EXCEPT ![p] = <<"mark", r>>]
  /\ UNCHANGED <<row, checking, wedged, bypassed>>

Escalate(p, r) ==
  /\ busy[p] = Idle
  /\ MayDispatch(r) /\ ~kind[r].eligible
  /\ kind' = [kind EXCEPT ![r].review = TRUE]
  /\ timedOut' = timedOut \ {r}
  /\ UNCHANGED <<status, parent, verdict, qaBy, dispatched, gateAge, doneAge,
                 hook, scripts, bypassed>>

\* psql prints the command tag after the rows RETURNING gave, 'UPDATE 0' when
\* another poller was first, so MARK_OK is never empty and the insert follows.
Mark(p, r) ==
  /\ busy[p] = <<"mark", r>>
  /\ dispatched' = dispatched \union {r}
  /\ busy' = [busy EXCEPT ![p] = <<"insert", r>>]
  /\ UNCHANGED <<status, kind, parent, verdict, qaBy, timedOut, gateAge,
                 doneAge, hook, checking, wedged, bypassed>>

ReviewKind(r) == [NoKind EXCEPT !.tier = kind[r].tier]

Insert(p, r) ==
  /\ busy[p] = <<"insert", r>>
  /\ \E q \in Row \ Sent :
       /\ status[q] = "absent"
       /\ status' = [status EXCEPT ![q] = "open"]
       /\ parent' = [parent EXCEPT ![q] = r]
       /\ kind' = [kind EXCEPT ![q] = ReviewKind(r)]
  /\ busy' = [busy EXCEPT ![p] = Idle]
  /\ UNCHANGED <<verdict, qaBy, dispatched, timedOut, gateAge, doneAge, hook, checking, wedged, bypassed>>

\* ERR trap: a statement that fails ends the tick.  The rollback of
\* qa_dispatched after the INSERT is never reached: the grep for its id fails
\* with the INSERT, and pipefail makes that the script's last line.
Dies(p) ==
  /\ "crash" \in Practices
  /\ busy[p] # Idle
  /\ busy' = [busy EXCEPT ![p] = Idle]
  /\ UNCHANGED <<row, checking, wedged, bypassed>>

-----------------------------------------------------------------------------
GateAgeGrows(r) ==
  /\ status[r] = "input-required" /\ gateAge[r] = "fresh"
  /\ gateAge' = [gateAge EXCEPT ![r] = "late"]
  /\ UNCHANGED <<status, kind, parent, verdict, qaBy, dispatched, timedOut,
                 doneAge, hook, scripts, bypassed>>

\* A poller looks every few seconds: without "lag", what Pass 3d has to see stays
\* fresh until it has.
DoneAgeGrows(r) ==
  /\ doneAge[r] = "fresh"
  /\ "lag" \in Practices \/ ~(r \in Silent /\ parent[r] \in Behind
                               /\ (kind[parent[r]].plan \/ parent[r] \in dispatched))
  /\ doneAge' = [doneAge EXCEPT ![r] = "late"]
  /\ UNCHANGED <<status, kind, parent, verdict, qaBy, dispatched, timedOut,
                 gateAge, hook, scripts, bypassed>>

Agent(r) == Ack(r) \/ Done(r) \/ Fail(r) \/ BlockForAttention(r)
Heal(r)  == FindWedged(r) \/ Requeue(r)
Judge(q) == QaPassRead(q) \/ QaPassStandard(q) \/ QaPassHighStakes(q) \/ QaFail(q)
Clock(r) == GateAgeGrows(r) \/ DoneAgeGrows(r)

Pass3(p, r) == Bounce(p, r) \/ Timeout(p, r)
Pass4(p, r) == ResumeStart(p, r) \/ ResumeEnd(p, r)
Pass5(p, r) == TrivialClaim(p, r) \/ TrivialPass(p, r) \/ TrivialFail(p, r)
Pass6(p, r) == Select(p, r) \/ Escalate(p, r) \/ Mark(p, r) \/ Insert(p, r)

Next ==
  \/ \E r \in Row :
       \/ \E k \in Work : Send(r, k)
       \/ Agent(r) \/ Heal(r) \/ Approve(r) \/ Judge(r) \/ Clock(r)
  \/ \E p \in Poller :
       \/ \E r \in Row : Pass3(p, r) \/ Pass4(p, r) \/ Pass5(p, r) \/ Pass6(p, r)
       \/ AfterSilentReview(p) \/ Dies(p)

Spec == Init /\ [][Next]_vars

-----------------------------------------------------------------------------
(* Properties.                                                             *)

\* What the gate accepts as the end of r: a human's approval, which for an
\* agent's high_stakes work takes a second agent's pass as well, a reviewer's
\* pass for standard work, and for planned or trivial work the automatic mark.
Cleared(r) ==
  \/ verdict[r] = "approved" /\ (NeedsQAFirst(r) => r \in qaBy)
  \/ verdict[r] = "pass" /\ kind[r].tier # "high_stakes"
  \/ verdict[r] = "auto" /\ (kind[r].plan \/ kind[r].tier = "trivial")

\* A row that was ever parked at the gate is done only after it was cleared
\* ("NEVER by the doer calling `fleet done`").  Three things go round the gate, and
\* only they: an ack of the parked row, a done of a row that has failed, and a
\* recovery that requeues the row; parked again it is held again.
GateHolds ==
  \A r \in Row :
    status[r] = "done" /\ gateAge[r] # "none" => Cleared(r) \/ r \in bypassed

\* The 30-minute timeout spares human gates, planned work, and high_stakes work
\* that passed its review and waits for daen.
HumanPaced ==
  \A r \in timedOut : status[r] = "failed" =>
    ~HumanGate(r) /\ ~kind[r].plan /\ (NeedsQAFirst(r) => r \notin qaBy)

\* A cascade resumes only behind a row that was cleared, or taken round the gate:
\* not in the seconds between done and the bounce, nor after a review failed it.
HookAfterVerdict ==
  [][\A r \in Row :
       hook[r] = "stored" /\ hook'[r] = "running" => Cleared(r) \/ r \in bypassed]_vars

\* The reviewer answers: assumed of an agent, not enforced.
Fairness ==
  /\ \A p \in Poller, r \in Row :
       /\ SF_vars(Timeout(p, r)) /\ SF_vars(Select(p, r))
       /\ WF_vars(Mark(p, r)) /\ WF_vars(Insert(p, r))
       /\ WF_vars(ResumeEnd(p, r))
       /\ WF_vars(TrivialPass(p, r) \/ TrivialFail(p, r))
  /\ \A p \in Poller : SF_vars(AfterSilentReview(p))
  /\ \A r \in Row : WF_vars(GateAgeGrows(r)) /\ SF_vars(Judge(r))

FairSpec == Spec /\ Fairness

\* Planned work nobody may review has neither a reviewer nor a timeout.
Unreviewable(r) == kind[r].plan /\ ~kind[r].eligible

\* A row that `fleet ack` took from the gate while its review went silent comes
\* back with the review over and nothing that asks for another.
Forgotten(r) ==
  LET reviews == {q \in Row : parent[q] = r} IN
  /\ r \in dispatched /\ reviews # {}
  /\ \A q \in reviews : status[q] \in {"done", "failed"} /\ q \notin Silent

\* Its review asked for help and was reviewed, or approved, in its turn: that
\* closes the review or parks it again, and r gets no verdict from it.  Or the
\* review is forgotten itself.
ReviewLost(r) == \E q \in Row : parent[q] = r /\ (verdict[q] # "none" \/ Forgotten(q))

\* Work sent to the gate gets a verdict or leaves it: by the timeout, by its
\* reviewer, or, when the reviewer goes silent, by Pass 3d.
GateMoves ==
  \A r \in Sent :
    status[r] = "input-required" /\ ~HumanGate(r) /\ ~Unreviewable(r) /\ ~Forgotten(r)
      ~> status[r] # "input-required" \/ verdict[r] # "none" \/ ReviewLost(r)
=============================================================================
