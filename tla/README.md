# The GCG fleet in TLA+

This directory holds TLA+ models of the programs of this repository that move
tasks between agents, let them agree on plans, keep their knowledge and their
credentials, and let their calls to Google through; the TLC configurations that
check them on small instances; and TLAPS proofs of their safety properties for
every size. Source paths below are relative to
`src/hosts/gcg-ax102/opt/gcg/shared/bin/` unless they say otherwise.

## 1. The system

The repository is the configuration and code of a fleet of about thirty OpenClaw
agents on one host. Agents do not call each other. Everything goes through one
Postgres table, `agent_messages`: a row is a task, its `status` column the state
of the task, and some ten small programs, run by agents, timers and loops, write
it side by side. Each statement of `psql` is a transaction of its own, mostly in
a process of its own; there is no lock above it. This is where the hard
behaviour of the system lies.

| component | programs | state | operations | module |
|---|---|---|---|---|
| Task dependencies | `fleet` (send, start, ack, done, fail, cancel, block, chain), `gcg-loop-driver`, parts of `gcg-inbox-poll` and `gcg-inbox-janitor` | `status`, `blocked_by`, `blocked_reason`, `done_at`, `artifacts.daen_notified` | write a row; query for a cycle and add an edge; release, sweep, notify, recover | `Cascade` |
| Approval gate and QA review | `gcg-inbox-poll` Passes 3a-6, `fleet` qa-pass/qa-fail, `gate_kind.py`; The Forge (external) | `qa_tier`, `owner_type`, `verified_by`, `agent_qa_by`, `qa_dispatched`, `input_required_at`, `artifacts.cascade_resumed`, review rows | park, bounce, time out, dispatch a review, judge, approve, resume | `QAGate` |
| Delivery and recovery | `gcg-inbox-poll` Passes 0, 1, 2, 8 and its wake, `gcg-inbox-janitor`, `a2a-watcher`, `gcg-inbox-stale-check`, `fleet reconcile`, the agent's session | `status`, `deliver_count`, `acked_at`, `started_at`, `issued_at`, `inbox/<id>.json`, cooldown stamps, the session | claim, write, wake, re-poke, reset, give up, restart, requeue, reconcile | `Delivery` |
| Cascade registration | `cascade-driver` | a state file per cascade | register rows and edges, verify | its chains, in `Cascade` |
| Council | `council_convene.py`, `council_tick.py`, `council_tick_checkpoint.py` with `checkpoint.py`, `council_loop.py` | a manifest per council, verdict files, a revision lock, an event log; or a state file per loop | convene, ask, collect verdicts, compute the gate, revise, ask again, give up, archive | `Councils` and its parts |
| Memory and document jobs | `../scripts/knowledge_maintenance.py`; the memory CLI (external) | rows of `memories`, `knowledge_sources`, a queue of failures, a backlog, an index | scan, purge, gate, embed, retry, index | `Knowledge` |
| Credential refresh | `gcg-openai-oauth-refresh.py` under two timers; the token endpoint (external) | the profile of the agents, the credstore | refresh, write, copy | `TokenRefresh` |
| Approval tokens | `../gcg_tools/gcg_google_v2/`: `mcp_tools`, `_registry`, `_approval`, `_services`; `_auth`, `_audit` and the modules of the services (external) | `approval_tokens`, `agent_trusted_actions`, the audit log, a cache of service objects | look up, record, approve, consume, call, resolve | `Approval` |
| Agent restarts | `safe-restart`, `safe-fleet-restart.sh` | the lock of the critical agents | unlock, restart, lock again | none: section 7 |
| Subscription rotation | `rotate-controller-v2.sh`, `rotate-subs.sh` | agent to subscription map, cooldowns | count, choose, move | none |
| Fleet configuration | `fleet-promote`, `fleet-rollback`, `fleet-validate`, generators | configuration and its `.bak.*` files | promote, roll back | none |
| Schema migration gate | `gcg-migrate` | none between runs | check, then apply | none |
| Accounting, coder bridges, provisioning and backup | the rest | logs, terminals, dumps | | none |

How they interact. A sender inserts a row. The recipient's poller, one process
per agent that ticks every few seconds, claims it (`pending` to `delivered`),
writes its file and pokes the agent's session over HTTP. The session runs
`fleet start` and `fleet done`. The poller of the row's sender, recipient or
owner bounces finished work that needs a look to `input-required`, sends it to a
reviewer, or times it out. `gcg-loop-driver`, a timer, releases rows whose
blockers are done and fails those that can never run. The janitor, the watcher
and stale-check are timers too. They reset what got stuck, restart the agent and
repair its files. `a2a-watcher` and the janitor share a restart cooldown, the
other two restarters keep their own.

A council stands beside the bus: its requests go out as messages, but what it
decides on are files. Reviewers write verdict files, the planner writes the plan,
and a timer (`council_tick`) or one long process (`council_loop`) reads both. The
knowledge job reads documents that agents write while it runs; the credential
refresh replaces the file that agents read their tokens from; every agent's Google
calls go through a server process of its own and a database that all share.

The Postgres server, the OpenClaw gateway, The Forge, the memory CLI's store, the
token endpoint and Google are outside the repository; what `src/` shows of their
use is modelled and marked external.

What makes each modelled component correct:

* Dependencies: no cycle; nothing is worked on before its blockers are done; the
  outcome of a row is undone only by those who may (review, check, verdict, a recovery
  that had found the row handed out) or by what they did to its blocker; what can run
  is released and what cannot is failed.
* Gate: work that was parked is done only behind the verdict its tier asks for, or
  taken round the gate in one of three known ways; hooks run only behind that; what
  waits for a human is never timed out; what waits for an agent does not wait for ever.
* Delivery: an ended row is not handed out again, but by a recovery that had found it
  stuck; the file of work in hand stays;
  the deliveries of a row are bounded; every message ends.
* Council: a version of the plan ships once, and only when every reviewer has a vote
  standing, for that very text or still bound to none; every council ends.
* Knowledge: what the gates admit is stored, a duplicate or known to have failed;
  nothing is stored past the gates; documents at rest get stored.
* Credentials: nothing but a fault loses a refresh token; the access token lives.
* Approval: what is high-risk is done on trust or on a token nobody else used, and
  never behind the audit log.

## 2. Modules

| subject | model | instances for TLC | proofs |
|---|---|---|---|
| dependencies | `Cascade`; abstract: `Workflow` | `MCCascade` | `Cascade_proofs` |
| approval gate | `QAGate` | `MCQAGate` | `QAGate_proofs` |
| delivery and recovery | `Delivery`; abstract: `Mailbox` | `MCDelivery` | `Delivery_proofs` |
| councils | `Councils`, of `CouncilRoom`, `Council`, `CouncilCheckpoint`, `CouncilLoop`; abstract: `Consensus` | `MCCouncils` | `Councils_proofs` |
| knowledge base | `Knowledge` | `MCKnowledge` | `Knowledge_proofs` |
| credential refresh | `TokenRefresh` | `MCTokenRefresh` | `TokenRefresh_proofs` |
| approvals | `Approval` | `MCApproval` | `Approval_proofs` |

Conventions:

* One SQL statement, file operation or restart is one step. A program of several
  statements is several steps with everything else in between, except where the
  code runs them in one statement.
* Columns that hold a time hold an *age* here: one value per interval that some
  query tells apart. Time passes by actions that move a row to the next age.
* In the first three, `Practices` is a constant set of behaviours that are optional in the code (a
  flag file, an environment variable) or in the use of it (an agent that runs
  `ack`, an operator that reopens ended rows, a crash). A run states which it
  allows; a theorem assumes only the absence of those that break it. The
  properties that fail with a practice on are listed in section 6.
* The others have a bound on faults, and a constant `Setups` where small systems of
  different make are looked at in one run: which one it is, is chosen in `Init`.
* Definitions whose comment says *Mutant of* are no part of the models. Each is a
  plausible mistake in the definition after it; putting it in that definition's
  place breaks a property, which shows that the property depends on this code.

### Cascade

State: the columns named above, and what processes hold between two statements.
`chaining[c]` is a `fleet chain` between its recursive cycle query and its UPDATE
(two `psql` processes, `fleet:600-660`). `wedged[h]` are the ids that Pass 8 or
stale-check has read and will requeue after the restart; `listed` and `cleared` what
the janitor has read of the reasons of blocked rows. `stage` and `swept` are the
position of the driver's tick and the ids its sweep returned. `gated` stands for
`input_required_at`, which nothing clears; `verified` for `verified_by`, which Pass 5
sets before its check runs. `returned` is history: rows that have left an end.

| code | actions |
|---|---|
| `fleet` send, start, ack, done, fail, cancel, block | `Send`, `Start`, `Ack`, `Done`, `Fail`, `Cancel`, `BlockOn`, `BlockForAttention` |
| `fleet chain` | `ChainCheck`, `ChainWrite`, `ChainAbort` (the 15 s timeout of the caller) |
| `gcg-inbox-poll` claim, Pass 3a, Pass 5, Pass 7 | `Claim`, `Bounce`, `CheckStart`, `CheckPasses`, `CheckFails`, `Ping` |
| `fleet` qa-pass, qa-fail; approval, Pass 3d | `QaPass`, `QaFail`; `Approve` |
| Pass 8 and stale-check: read, restart, requeue whatever was read | `FindWedged`, `RequeueWedged`, `ForgetWedged` |
| the resets of janitor and watcher, guarded by the status | `Requeue` |
| the janitor's auto-resolve | `ListNamed`, `FindCleared`, `AutoResolve` |
| the four statements of `gcg-loop-driver` | `UnblockReady`, `SweepOrphans`, `NotifyDaen`, `RecoverRestored`; `TickDies` |

The recursive SQL query of `chain` is modelled by what it computes: the walk along
`blocked_by` from the new blocker ends and does not meet the row (`WalkAvoids`).
`delivered` and `acked` are one status because no query of these programs tells
them apart. Verdicts come for rows somebody was asked about (`gated`), whatever their
status is by then; the rest of the review is in `QAGate`.

`Workflow` is the abstract specification: rows wait for the rows they need, are ready,
are parked with a human, or have ended. A set of rows is released when all they need is
done and abandoned when something they need came to nothing. What has ended comes back
in four ways and no other: review takes a done row back before anybody was asked about
it (`Bounce`); those who were asked, or the check of a trivial row, have their say at
any time (`Recall`); a recovery reissues what it had suspected to be lost when it was
ready, unless it waits (`Suspect`, `Reissue`); and what was abandoned gets another chance when
what it needs was itself taken back (`Revive`). `Promise` in `Cascade` is the
refinement mapping: a phase is a class of statuses, needs are `blocked_by`, a row has
been seen once it is `gated`, suspects are what healers hold in `wedged`. Claims,
starts, guarded requeues, pings and the clock are stutters.

### QAGate

State: one record `kind[r]` for the columns `send` gives a row, one variable per
column that changes afterwards, `checking` (a `qa-pass` between its SELECT and its
UPDATE), `busy[p]` (a poller in the middle of a pass of several statements) and
`wedged` (ids a recovery of a wedged agent has read). `bypassed` is history: rows that
an `ack` took from the gate, that were closed as done after they had failed, or that a
recovery made pending again; being parked again takes a row out of it.
A review is a row of its own whose `parent` is the row it judges, subject to the
same passes; that is how a review that times out wakes Pass 3d.

| code | actions |
|---|---|
| `fleet` send/decide, ack, done, fail, block | `Send`, `Ack`, `Done`, `Fail`, `BlockForAttention` |
| `fleet` qa-pass, qa-fail | `QaPassRead`, then `QaPassStandard` or `QaPassHighStakes`; `QaFail` |
| The Forge, approve | `Approve` (external; follows `gate_kind.py`) |
| Pass 8, stale-check | `FindWedged`, `Requeue` |
| Pass 3a, 3b, 3d | `Bounce`, `Timeout`, `AfterSilentReview` |
| Pass 4 | `ResumeStart`, `ResumeEnd` |
| Pass 5 | `TrivialClaim`, then `TrivialPass` or `TrivialFail` |
| Pass 6 | `Select`, `Mark`, `Insert`, or `Escalate` |
| the ERR trap of the poller | `Dies` |

`done`, `fail` and `block` have no guard but the one the commands have
(`fleet:474-478`, :501, :532): `done` refuses a row at the gate and nothing else. That
agents use them on rows that have ended is the practice "reopen".

`Cleared(r)` is what the gate promises: a human's approval, a pass for standard
work, the automatic mark for planned or trivial work. `HumanGate`, `WorkGate` and
`NeedsQAFirst` translate `gate_kind.py`.

### Delivery

State: the columns, the file, the session (`session` is whether it answers, `told`
what a poke named, `working` what it is working on), the poller's tick (`stage`,
`todo`, `poke`), and each healer's run (`phase`, and `plan`: what it decided from
rows it read and still has to carry out). A plan is carried out row by row, later,
which is how a healer's UPDATE meets a row that has changed since.

| code | actions |
|---|---|
| the sender, the session | `Send`, `Start`, `Skip`, `Ack`, `Finish`, `Cancel`, `Remove`, `Freeze` |
| poller Pass 0, 1, 2, 8, wake | `Classify` (0a2), `GiveUp` (0c); `Claim`, `WriteFile`; `Repoke`; `Examine`, `WedgeRestart`, `WedgeRestartFails`, `WedgeRequeue`; `Wake`; `TickDies` |
| janitor | `JanitorStale`, `JanitorStaleRow`, `JanitorStuck`, `JanitorRestart`, `JanitorStuckRow` |
| a2a-watcher | `WatcherCheck`, `WatcherRestart`, `WatcherScan`, `WatcherRow` |
| gcg-inbox-stale-check, `fleet reconcile` | `StaleBegin`, `StaleWrite`, `StaleList`, `StaleRemove`, `StaleScan`, `StaleRestart`, `StaleRequeue` |
| `MAX_RUNTIME_SEC`, a killed run; time | `Ends`, `Aborts`; `ClaimAges`, `WorkAges`, `RowAges`, `Expire` |

`Restart` ends the poller's tick as well: its unit is `PartOf` the agent's unit
(`src/hosts/gcg-ax102/etc/systemd/system/gcg-inbox-poller@.service:6`).

`Mailbox` is the abstract specification: messages are queued, held and ended, each
handing out and putting back is counted up to a limit, and a recovery may reissue what
it had chosen before, however that has fared since. `Promise` in `Delivery` maps every
claimed status to held and `deliver_count` to the count. What a recovery has chosen is
in the code the list in the memory of a script: `todo` between Pass 8's query and its
UPDATE, and the "requeue" entries of the `plan` of stale-check.

### Councils

`CouncilRoom` is what all drivers share: the plan (its text is a version, and so is
its hash), the requests in the reviewers' inboxes, what each reviewer is reading,
and the verdict files. Reviewers and planner are agents: they read the plan when
they open a request, answer late or never, and revise unasked. As the request tells
them to (`council_tick.py:231-249`), they write the verdict first and append the
footer with the hash later; a driver that looks in between takes the file as it is. A
verdict file keeps, besides the footer the driver sees, the version its author really
read (`about`), so that properties can speak of it.

| code | actions |
|---|---|
| the agents (external) | `Revise`, `StartReview`, `WriteVerdict`, `AppendFooter`, `LoseReview` |
| `council_convene` | `Convene`, `ConvenerAsks` (the timer is switched on last) |
| `council_tick`: a changed plan; missing or stale verdicts; the save after the requests | `OpenRound`, `Repoke`, `SaveRound` |
| the gate | `GatePass`, `Archive`; `GateStuck`; `GateRevise`, `RequestRevision` |
| deadlines, nothing to do | `PlannerUnresponsive`, `Unresolved`, `Wait` |
| `council_tick_checkpoint` | `BeginRun`, `AskLogged`, `CompleteStep`, `RunTick`, `WrapperDies` |
| `council_loop` | `Launch`, `AskActive`, `Collect`, `EndPoll`, `Consent`, `Stuck`, `AskRevision`, `NextRound`, `RevisionTimeout`, `LoopDies` |

A tick that asks and then saves is two steps, one that counts, locks, saves, and then
wakes the planner is two; a send that fails after some requests have gone out ends
the tick (`Dispatch`). `compute_gate` never returns SPLIT, so the tick's branch for it
is not reached and not modelled. `Councils` puts one driver and the room
together; which one, and the panel, is chosen in `Init`.

`Consensus` is the abstract specification: votes for versions come and go, and one
version ships, once, when all of the panel have a vote standing, for this version or
bound to none; or the council gives up. `Promise` in `Council` is the refinement
mapping: a vote is a PASS on file, for the version its author read once the footer is
there, and `Unbound` as long as it is not, which for reviewers who leave it out
(`NoFooter`) is for ever; shipped is the manifest's hash once it says passed. That
the code takes unbound votes is item 14 of section 6.

### Knowledge

State: the disk, `memories` as rows of document, text and chunk, `knowledge_sources`,
the queue of failures, the backlog and the index; and a run's memory: both walks of
the disk, what it will embed, the document at hand. A run walks, purges, looks at
each document, embeds it chunk by chunk and saves the queue, with writes to the
documents between any two of these. A row under the checksum of a whole file does not
say whose it is: documents with the same texts (`Original` names the first of them)
share it, and a purge takes it from all. `steady` is history: the documents that the
run found, and since then nobody has changed, nor purged the row they share.

| code | actions |
|---|---|
| authors; the memory CLI (external) | `Write`; `Capture`, `CaptureFails` |
| scan, second walk, purge | `Begin`, `Look`, `Purge` |
| gates 1 and 2, taxonomy, checksums | `StartExamining`, `Examine`, `EndExamining` |
| cost ceiling | `Abort`, or `StartEmbedding` |
| gate 3, `embed_file`, its result | `SkipDuplicate`; `Read`, `Finish`, `NoRead` |
| retries | `StartRetrying`, `SkipRetry`, and the same |
| the end | `Truncate`, `Save` (the queue is written in place), `GenerateIndex`, `Exit`; `Die` |

`setup.matches` is the one thing about the memory CLI that the repository leaves open:
whether it hashes a document of one chunk without the line of provenance that
`embed_file` puts before it. Both are checked.

### TokenRefresh

Time goes in quarters of an hour, and a run ends within one. A grant is the name and
the runway of its access token and whether the endpoint still takes its refresh token.
Each answer of the endpoint carries a token of its own, so that the answers of two
runs can be told apart; a name is used again only when nothing holds it. A copy of
the grant is in the profile, in the credstore and in the hand of each run. `rotates`,
chosen in `Init`, says whether the endpoint voids a refresh token when it is used.
`Start` decides from the profile, `Ask`, `Refused` and `Lose` are the endpoint's
answers, `WriteProfile` and `UpdateCredstore` the two copies, `Stop` a failure
anywhere. The two timers start the same program, with no lock between them.

### Approval

Each call goes through `Enter` (the registry, the row of the audit log),
`CheckApproval`, `ConsumeApprovalToken` (one UPDATE), `Act` or `ActFails`,
`ResolveSuccess` or `ResolveFailed`. Meanwhile tokens are revoked, trust is given and
taken, queries fail (`TrustUnknown`, `DatabaseFails`), a server process dies with its
cache and calls (`Die`). The functions of the service modules are not in the
repository; they are modelled by their contract with these modules: they check
approval, then get their service, then call Google.

## 3. Runs

Each run is `tlc -config <run>.cfg <module>`; all end within
about three minutes on four cores.

| run | module | instance | checks | result |
|---|---|---|---|---|
| `cascade_safe` | MCCascade | 2 rows, one reviewed, one checked, 1 client, 1 healer; attention, gate, requeue, verdict | `TypeOK`, `DepsDone`, `KeepsPromise`, `OutcomeFinal` | holds |
| `cascade_final` | MCCascade | 2 rows, one reviewed, 1 client; block, ack, late, named, ping | `OutcomeFinal` | holds |
| `cascade_live` | MCCascade | 3 wired rows, one planned and reviewed, 1 client; late, fan-in | `Acyclic`, `EveryBlockReleased`, `SettledRowsLeave` | holds |
| `qa_safe` | MCQAGate | 1 task, 2 review rows, 2 pollers; 5 kinds of work; ack, reopen, recovery, crash, lag, shirk | `HumanPaced`, `GateHolds`, `HookAfterVerdict` | holds |
| `qa_live` | MCQAGate | 1 task, 1 review row, 1 poller; 6 kinds of work; ack, attention, recovery | `TypeOK`, `GateHolds`, `GateMoves` | holds |
| `delivery_safe` | MCDelivery | 1 row; janitor, stale-check; everything but Pass 8 and recovery | `TypeOK`, `WorkHasFile`, `EndedStaysEnded` | holds |
| `delivery_heal` | MCDelivery | 1 row; watcher, stale-check; recovery, Pass 8, refused restarts | `KeepsPromise` | holds |
| `delivery_ends` | MCDelivery | 1 row; janitor, watcher; freeze, crash, refused restarts | `CountBounded`, `EveryMessageEnds` | holds |
| `council` | MCCouncils | a tick with 2 reviewers, who disagree or see a revision, or 1, two revisions and a crash; a checkpointed tick with a crash; a loop with 2 reviewers or a crash | `TypeOK`, `LoggedWasAsked`, `NobodyStillFails`, `KeepsPromise`, `CouncilEnds` | holds |
| `knowledge` | MCKnowledge | a long, a short and a misfiled document, a note and a copy of it, in six mixtures of writes, deaths, ceilings and hashes | `TypeOK`, `Accounted`, `GateRespected`, `DryRunIsDry`, `Settles` | holds |
| `refresh` | MCTokenRefresh | 2 timers, 4 names for tokens, 3 faults | `TypeOK`, `KeepsRefresh`, `CredstoreFollows`, `StaysLive`, `Recovers` | holds |
| `approval` | MCApproval | 2 agents, 2 tokens, 2 calls out of 10; 1 fault, 1 change of trust | `TypeOK`, `Licensed`, `LogCovers`, `RightService`, `RowsClosed` | holds |

What they show:

* `cascade_safe`: with one blocker per row, no `ack` of a blocked row and no
  reopening, a row is offered, claimed, started or requeued only when its blocker
  is done, whatever ticks die and orphans recover in between. The one way in which a
  blocker can be something else is that it was itself taken back after it had ended,
  which a bounce, a failing check, a verdict and the unguarded requeue of Pass 8 and
  stale-check do (`returned`). `OutcomeFinal` says that nothing else undoes an end, but
  for rows failed for such a blocker; and the statements of all programs together
  implement `Workflow`, with these as the only steps back.
* `cascade_final`: the same for outcomes where rows are blocked and chained after they
  were released, acknowledged while blocked, and freed by the janitor for the text of
  a reason: the recovery of orphans, which looks at blockers five minutes old, revives
  only rows whose blocker was taken back.
* `cascade_live`: the cycle query of `chain` is enough as long as commands do not
  overlap. A row whose blockers have all ended is settled by the driver
  alone. The run starts from a wired register and lets blockers end in every
  mixture, bounced, approved and cancelled between the statements of a tick.
* `qa_safe`: the doer, two pollers, reviewers, the approver, the timeout, a recovery and
  the 30-minute clock race for one row and up to two reviews of it; the doer closes,
  fails and reopens the row whenever the commands let it. Two reviews do occur: see
  section 6. A row that was parked is done only behind its verdict, or was taken round
  the gate by an `ack` at the gate, a `done` after it had failed, or a requeue by an
  old list. These three are what the code leaves open; that there is no fourth is
  what the run shows.
* `qa_live`: work sent to the gate gets a verdict or leaves it, provided an agent with
  a review answers unless it asks for help itself. `GateMoves` excludes human gates,
  planned work that nobody may review, and what the code does lose: a row whose
  review went silent while `fleet ack` or a requeue had it away from the gate
  (`Forgotten`), and a row whose review was itself reviewed and closed (`ReviewLost`);
  see section 6. `GateHolds` is checked here for doers that ask for help.
* `delivery_safe`: healers act on rows they read before. What they write is guarded
  by the status in the UPDATE, and that is enough for ended rows, and for the
  files of work in hand.
* `delivery_heal`: the requeues start the count of deliveries again; `Mailbox` keeps it
  within 4 where the watcher, Pass 8 and stale-check act. An ended row does
  return here, and `KeepsPromise` says which ones: a row that Pass 8 or stale-check had
  read as claimed, handed out three times, and never started, and whose requeue was
  still to be written when it ended.
* `delivery_ends`: with sessions that freeze, ticks and wakes that are lost and
  restarts that are refused, each message is finished or given up. A reset counts as a
  delivery and so does the claim after it, and janitor and watcher count against
  different limits: 7 deliveries are reached, and no more. `DeliveriesBounded` proves
  it for all healers at once.
* `council`: the tick implements `Consensus` although requests, readings, verdicts and
  revisions overlap, rounds are opened twice by ticks that died, verdicts are read
  before their footer is there, and one of the reviewers never writes one. The log of the wrapper never claims a request that was
  not sent. The loop, which asks fewer and fewer reviewers and starts over from the
  files of a run that died, declares no consensus over anyone who failed the plan,
  or was silent, when last counted. And every council that is convened with the
  timer on ends: the deadline, the count of stuck rounds and the re-pokes together
  leave no state in which all wait for each other.
* `knowledge`: an admitted document left alone during a run is stored in full at its
  end, is a duplicate, or is in the queue of failures. The notes that say otherwise
  (a checksum taken after the chunks were stored, a partial success noted as current)
  do no lasting harm: the next run trusts `memories`, not these notes alone. A purge
  for a deleted document takes the row of its copy along, and the copy is stored again. The
  properties exclude what the job does lose, see section 6.
* `refresh`: two unlocked runs cannot lose the refresh token to each other, since one
  whose token has been used is refused and writes nothing. A lost answer can. Where
  the endpoint does not rotate refresh tokens both runs get an answer, and profile and
  credstore may keep the access token of one each, which are equally good;
  `CredstoreFollows` says that this is all the difference there can be.
* `approval`: the UPDATE alone makes tokens single-use over all agents; the order of
  row, approval, deed and resolution keeps the log on the safe side.

### Bounds

* Rows. The queries of Cascade relate a row to its blockers and to nothing else. Two
  rows are a blocker and what waits for it, which is what `DepsDone` and
  `OutcomeFinal` relate; a third one makes the runs of all healers and verdicts too
  large, and is left to the proofs. Three rows are a chain, a fan-in of two and a
  cycle of three (`cascade_live`). One healer holds a list while rows end, are parked
  and are chained; a second one would hold a subset of what one may hold. With one
  client no two commands `chain` overlap; where they do, `Acyclic` fails (section 6).
* The task of QAGate interacts with its own reviews only. One task with two review
  rows and two pollers has the races of dispatch, verdict and timeout.
  `Row \ Sent` bounds the number of reviews: Pass 6 selects a row only while there is
  `Room` for one. `qa_safe` has all practices but "attention", which `qa_live` has, with
  one review and one poller, as the states of both together are too many.
* Rows of Delivery meet in the shared session, restart and tick. One row with every
  age and phase is checked. The proofs of section 5 are for any number of rows.
* Two reviewers are a panel in which one answers and one is late or stale, and of
  which one writes no footer. Two versions are a text and its revision, three a
  revision of a revision, where one reviewer is enough; one crash or failed send is
  followed by a recovery. `MAX_STUCK_ROUNDS` is 3 in the code and 2 here, so that the
  limit is met with the revisions there are. `setup.versions` and `setup.faults` are
  guards of `Revise` and `Fault`.
* Documents of `Knowledge` meet in gate 3 and in the ceiling only. A long and a short
  one with one write are one system, a note and its copy another, the long and the
  short one alone with two writes and a death two more; a ceiling of 0, and a misfiled
  document, have their own. Two texts are
  the old one and the new one, and putting the old one back. `MAX_RETRIES` is 2: one
  retry that fails and one that may not come.
* `TokenRefresh`: the threshold is two quarters, as in the code; six quarters of life
  are more than the hourly timer's period; three faults lose a token and strike again.
  A run that asks finds at most three tokens in use, so that a fourth name is enough.
* `Approval`: two calls are a race; the ten requests have the same token for both
  calls, a token of another agent or action, actions of two services that share
  their scopes, and two users.
* `deliver_count` is unbounded in the model; `CountBounded` is what bounds it, so the
  runs have no artificial limit. Ages are finite because queries tell few apart.
* Symmetry is used for rows, clients and pollers in the runs of safety properties
  only.
* Deadlock is checked in Delivery, Knowledge and TokenRefresh. In the others a state
  where every row, council or call has ended has nothing left to do, and the check
  is off.

## 4. Fairness

* Cascade: the statements of the driver's tick are fair because a systemd timer
  starts it for ever; the sweep is strongly fair because a tick that dies comes
  back to it. Claims are weakly fair, pollers being loops. That an agent ends what
  it was given is assumed (strong fairness of `Finish`): agents are asked, not
  forced.
* QAGate: `Timeout`, `Select` and `AfterSilentReview` are strongly fair, since their
  poller is busy with another pass now and then and ticks for ever. The second
  statement of a pass is weakly fair; no crash is practised in `qa_live`. A poller
  looks every five seconds and the window of Pass 3d is two minutes, so without
  the practice "lag" a review that timed out stays fresh until Pass 3d has seen it.
  A reviewer whose review is open again and again answers (`Judge`), an assumption
  about agents; one that asks for help may be silent for good. Time passes.
* Delivery. The poller: its statements are weakly fair; ticks get as far as the wake
  again and again, because restarts are minutes apart and a tick takes seconds;
  and of the ticks that have a message in hand, not every one is lost. The healers:
  runs come and go on; a frozen session is found quiet by the watcher, a live one
  need not be. The clock: no claimed row keeps one age for ever, and the runs of janitor
  and watcher, which `MAX_RUNTIME_SEC` ends after 60 seconds, are over between ages
  (stale-check has no such limit, and may hold its plan for as long as it likes). `FairSpec` adds that an agent whose session lives
  starts what it is told of and finishes it; without that the tools alone do not
  bring a message to its end (section 6, 4).
* Councils: the timer ticks on, the wrapper and the loop go on, time passes. A reviewer
  opens its requests, and answers if it is asked again and again (it may lose any
  request). The planner need do nothing; nobody relaunches a loop.
* Knowledge: cron runs the job for ever, not always dry (strong fairness of `Begin`
  because a run is mostly in the way); a run goes on; the memory CLI, asked again and again for the
  same chunk of a document, stores it once in a while. Authors may stop or not; their writes
  are bounded, so they stop.
* TokenRefresh: time passes and runs go on. Approval: calls go on.

## 5. Proofs

`tlapm <module>_proofs.tla` proves every obligation. Constants are arbitrary sets
under the named assumptions of each module; there is no bound on rows, clients,
pollers, messages, reviewers, documents, timers, agents or calls, on the revisions
and faults either.

| theorem | statement | assumes |
|---|---|---|
| `TypeCorrect` | `Spec => []TypeOK` | |
| `ChainKeepsAcyclic` | `Spec /\ []OneAtATime => []Acyclic` | no `block --dep` |
| `OutcomesAreFinal` | `Spec => OutcomeFinal` | one blocker per row, no reopening |
| `BlockersPrecedeWork` | `Spec => []DepsDone` | in addition no `ack`, no late chain, no reason that names a row, and no `block --dep` where a healer requeues by an old list |
| `PromiseKept` (Cascade) | `Spec => KeepsPromise`: the register implements `Workflow` | the same |
| `GateTypeCorrect` | `Spec => []TypeOK` | |
| `GateIsHeld` | `Spec => []GateHolds` | |
| `HooksFollowVerdicts` | `Spec => HookAfterVerdict` | |
| `TimeoutSparesHumans` | `Spec => []HumanPaced` | |
| `DeliveryTypeCorrect` | `Spec => []TypeOK` | |
| `EndedRowsStay` | `Spec => EndedStaysEnded` | Pass 8 and the recovery of stale-check off |
| `WorkKeepsItsFile` | `Spec => []WorkHasFile` | the same |
| `DeliveriesBounded` | `Spec => []CountBounded` | |
| `PromiseKept` (Delivery) | `Spec => KeepsPromise`: delivery implements `Mailbox` | |
| `TypeCorrect` (Councils) | `Spec => []TypeOK` | |
| `PromiseKept` (Councils) | `Spec => KeepsPromise`: the tick implements `Consensus` | |
| `LogIsTrue` | `Spec => []LoggedWasAsked` | |
| `ConsensusIsReal` | `Spec => []NobodyStillFails` | |
| `TypeCorrect` (Knowledge) | `Spec => []TypeOK` | |
| `EveryDocumentAccounted` | `Spec => []Accounted` | |
| `GatesRespected` | `Spec => GateRespected` | |
| `DryRunIsHarmless` | `Spec => DryRunIsDry` | |
| `TypeCorrect` (TokenRefresh) | `Spec => []TypeOK` | |
| `RefreshKept` | `Spec => []KeepsRefresh` | |
| `CredstoreIsProfile` | `Spec => []CredstoreFollows` | |
| `AlwaysLive` | `Spec => []StaysLive` | one timer is quicker than the threshold |
| `TypeCorrect` (Approval) | `Spec => []TypeOK` | |
| `ActsAreLicensed` | `Spec => []Licensed` | |
| `LogIsComplete` | `Spec => []LogCovers` | |
| `ServicesAreRight` | `Spec => []RightService` | |

The arguments:

* `ChainKeepsAcyclic`. `Acyclic` alone is not inductive: the edge is written after the
  query. `ChainSafe` says that what a client found is still true when it writes,
  which holds because nobody else is about to write an edge (`OneAtATime`, a condition
  on the behaviour and not on the number of clients) and nothing else writes
  `blocked_by`. The lemma `EdgeKeepsAcyclic` is the graph argument: an edge from
  outside a closed acyclic set into it closes no cycle. No induction over paths is
  needed, since acyclicity is stated over sets.
* `OutcomesAreFinal`. The recovery writes failed rows, so finality depends on what there
  is to recover. `FailedForCause`: the blockers of a row the sweep failed came to
  nothing, or have been taken back since. With one blocker (`OneBlocker`) a restored
  blocker of such a row can only be one that was taken back (`Revived`). A step that
  ends, requeues or judges a row is guarded, or is one of the exceptions by its own
  guard: `TakenBack` and `Reissued` say whose. `returned` only grows, so the cause
  remains one.
* `BlockersPrecedeWork` adds that a client about to chain found a blocked row or
  finds it unchanged (`ChainPlanned`), that rows not yet sent have no edges, and that
  what a healer is about to requeue has met its needs and is not blocked
  (`SuspectsMet`): it was handed out when the healer read it, and nothing but
  `block --dep` gives it a new blocker, which is why the theorem excludes the two
  together. A blocker that was done and is taken back joins `returned`, so `DepsDone`
  outlives it.
* `PromiseKept` of Cascade: each statement is a step of `Workflow` or a stutter, in the
  states that `DepsInv`, the invariant of the theorem before, describes. It is needed
  five times: a `chain` must not give a row in work another need (`ChainPlanned`), an
  unguarded requeue must meet no row that waits (`SuspectsMet`), the recovery of
  orphans must find only rows with a blocker taken back (`FailedForCause`), the check
  of Pass 5 must concern a trivial row that exists (`Checking`), and the janitor must
  find no row that its text names (`Unnamed`), since that is no release.
* `GateIsHeld`. `Cleared` asks for both keys where the tier has two: high-stakes
  work that a human approved must have had its QA pass. `Parked` strengthens
  `GateHolds`: a row that was ever parked is at the gate, failed, done and cleared, or
  `bypassed`. The point is the row that is open with its gate time set, from where
  `done` is free and Pass 3a never parks again: it got there by `ack` or a requeue only.
  A `done` of a failed row goes the same way at once. `HooksFollowVerdicts` follows
  from it, since a hook starts only behind a row that is done and was parked.
* `TimeoutSparesHumans` needs no practice excluded. A verdict may change the owner
  or the tier's exemption of a row after the timeout, so its steps show that each
  such change also takes the row out of the failed ones or of `timedOut`.
* `EndedRowsStay`. `NoRequeue` says the two requeues are never reached. Every other
  writer that acts on rows it read before is guarded in its UPDATE.
* `WorkKeepsItsFile`. The file is removed after it was listed. `RemovesEnded` says a
  listed row has ended, which stays true because ended rows stay ended; so the
  third theorem uses the second's step lemma.
* `DeliveriesBounded`. `Handed` counts a pending row as handed out once more, so only
  resets raise it, by two each. A reset is decided within a healer's limit, on a row
  read before; `HandedFor` follows the decision until it is carried out. In between the
  other healer may reset the row as well, once: its next decision would need an age
  that is not reached in the middle of a run. This rests on the runs of janitor and
  watcher being shorter than the intervals in which rows age (`MAX_RUNTIME_SEC`, the
  guard `NoRun` of the clock); nothing is assumed of the runs of stale-check.
* `PromiseKept` of Delivery assumes nothing, so it covers what `EndedRowsStay` has to
  exclude. Every UPDATE is one of the moves of `Mailbox` or leaves the mail as it is; a
  restart that kills the tick forgets what was chosen. Two facts about reachable states
  carry it: `HandedInv`, from which the count stays within the limit at each claim and
  reset, and `KnownSent`, that sessions and wakes know only of messages that were sent,
  without which `done` could end a message that is not there.
* `PromiseKept` of Councils: initial states map to initial states, and each step
  to `Vote`, `Ship`, `GiveUp` or a stutter. The step that matters is `GatePass`. The
  gate sees footers, the promise is about what was read. `ToldFirst` joins them: a
  request tells the hash of an earlier or the same moment as the one at which it is
  read (`HashesOld`), so the footer is no later than the text; and no text is later
  than the plan. A footer equal to the hash of today's plan leaves only that text. A
  file whose footer is still missing is an unbound vote, which the promise allows.
  `PcOpen` says that what a tick still has to save belongs to a council that is not
  over, so that no save takes an outcome back.
* `LogIsTrue`: while the wrapper asks, its log is that of the round on the manifest,
  because no tick runs that could open another.
* `ConsensusIsReal`: whoever is no longer asked did not fail when asked last, and
  whoever is asked has a result once the poll is over.
* `EveryDocumentAccounted` follows a run stage by stage: what it found is on disk, what
  it takes for embedded matched then and so does now, what was examined is to be
  embedded or embedded, and what was embedded is dealt with. Each is about steady
  documents only. `JobStored` is about the chunks of the document at hand. A row of a whole file satisfies all its
  copies, so that a purge ends the steadiness of all of them.
* `GatesRespected`: what is chosen passed the gates and, if steady, still does.
* `RefreshKept`: `Newest` says that a run which holds a new grant is, where tokens
  rotate, the only one that has a good refresh token. So a second run is refused,
  and cannot write an old grant over it. `CredstoreIsProfile` has the same source: where
  tokens rotate no two runs write at once; where they do not, whatever two runs write
  was issued within one quarter, and is worth the same.
* `AlwaysLive` is about the most frequent timer: between runs the runway is longer than
  the wait for it, and a run that will be refused comes only after one that has
  replaced the profile or is about to.
* `ActsAreLicensed`: a verdict is reached once, before the deed, and the token of a
  verdict is used and named by no other verdict. `LogIsComplete`: a call in progress
  has its row. `ServicesAreRight`: everything is cached under its own key, and the key
  tells services apart.

Only model-checked: the liveness properties, since fairness and `ENABLED` are beyond the
provers used. Every invariant and action property of the runs is proved, some under
the assumptions named above. Nothing here computes by recursion over data.

## 6. Disagreements between the code and its comments

The first four contradict a comment of the code. They show as follows:

1. The recovery of `gcg-loop-driver` (:164-178) revives a row when any blocker ended
   well lately, even if another has failed. The comment (:73-74) says such a row can
   never run. In `cascade_final` with `Task = {t1, t2, t3}` and `Practices =
   {"attention", "fan-in"}`, a failed row is pending again: `OutcomeFinal` is violated.
2. `fleet ack` takes a row out of `input-required`, and `done` is then accepted
   (`fleet:460-470`, :566-570); `done` is accepted as well when the row has timed out or
   was failed (`fleet:474-478`), and Pass 4 (:468-473) then runs its hook, behind a
   failing verdict too; and a recovery that had read the row before makes it pending.
   The comment says only a human can clear it. `qa_safe` with `\/ r \in bypassed`
   left out of `GateHolds` and `HookAfterVerdict`: both are violated with "ack", with
   "reopen" and with "recovery" alone.
3. The restart of Pass 8 kills its own tick before the cooldown is stamped
   (`gcg-inbox-poll:795-800`), so the next tick restarts again. The comment (:755) says
   the cooldown prevents loops. `WedgeRestart` in Delivery ends the tick and stamps
   nothing; with a second row, a reply, it is enabled again at once.
4. Pass 2 refreshes the column from which the guard of Pass 0c counts
   (`gcg-inbox-poll:275-282`, :213), so the guard never fires for a row that is
   re-poked. The comment (:203-205) says it fails instead of being re-poked for
   ever. `delivery_ends` without `AgentFairness` in `FairSpec`: an agent that takes
   every poke and starts nothing is poked for ever.
5. `council_tick_checkpoint` promises (:5-7, :17) to resume at the step that was not
   done; `checkpoint.py:19` says the same. The index each step is compared with
   (:104-115) is the one after the last good one, so no step is ever skipped:
   `AskLogged` has no guard on the log.
6. `council_loop` says FULL CONSENSUS, ALL PASS (:410) when those asked last all passed.
   A reviewer who said CONDITIONAL in an earlier round was not asked again (:524) and
   is forgotten: `NobodyStillFails` has to allow CONDITIONAL in both outcomes.
7. `council_tick` wakes the planner once (:700). If the wake fails, nothing repeats it,
   and at the deadline Peter is told that the planner did not respond:
   `RequestRevision` with `Fault`, then `PlannerUnresponsive`.
8. A tick that dies after it saved "passed" (:596) leaves a council that is neither
   announced, nor persisted, nor archived: `tick_all` passes over it (:733).
   `CouncilEnds` counts it as ended.
9. `knowledge_maintenance` says that it purges the rows of deleted files (:24). Purge
   asks for the rows under the checksum of a file that is no longer there
   (`Purge`, :490), and the list of embedded documents comes from the disk (:423), so
   they stay for ever. `Accounted` speaks of documents that exist.
10. `--dry-run` is "scan only, no writes" (:37). A dry run marks failures of files it
   would have embedded as resolved and writes the queue (:994, :1026), the backlog and
   `knowledge_sources`. `DryRunIsDry` holds of `memories` only.
11. Once the estimated cost is over the ceiling, every later run stops there as well
   (:960), so nothing is embedded until a person looks: the antecedent of `Settles`.
   An edited document whose beginning resembles its own stored text is a duplicate
   of itself and never stored (:977): the last disjunct of `Accounted` and `Settles`.
12. An answer of the token endpoint that is lost, or a run that dies before the profile
   is written, loses the refresh token for good where tokens rotate; the backup
   (:356) holds the old one. `lost` in `KeepsRefresh` and `Recovers`.
13. When the UPDATE that records a success fails, the exception handler around it records
   the call as failed (`mcp_tools.py:138-142`), though it was made and its token is
   spent. `LogCovers` says the log errs on that side only.

14. A verdict binds its author to a text by the footer, and `council_tick.py:543` takes a
   file without one. The request has it appended last (`council_tick.py:231-249`), so
   even a reviewer who always appends it is unbound for a while: a PASS for an older text
   that is read in this window ships the newer one. With `IF f.by \in NoFooter` in
   place of `IF f.footer = 0` in `Votes`, `KeepsPromise` is violated in `council`.
15. Two runs of the credential refresh are not locked against each other. Where the
   endpoint keeps refresh tokens (`gcg-openai-oauth-refresh.py:365`), writing profile,
   profile, credstore, credstore leaves the access token of one run in the profile and that of the
   other in the credstore. `Matches` without `rotates =>`: `CredstoreFollows` is violated.
16. A document that is copied while the job runs, after its scan, is purged as one that
   is not on disk any more, and with it the row of the original
   (`knowledge_maintenance.py:497`); the next run stores it again. `Purge` in the note
   and copy system of `knowledge`.
17. The queue of failures is written in place: a run that dies between emptying and
   writing it loses every entry and its count of retries. `Truncate`, then `Die`.

Others can be reproduced by changing a constant in a configuration; mostly no line
of the repository promises otherwise:

| behaviour | at | to see it |
|---|---|---|
| two overlapping `fleet chain` close a cycle | `fleet:631` | `cascade_safe` with `Client = {c1, c2}` and `Acyclic` |
| `fleet block --dep` closes a cycle | `fleet:524` | `cascade_live` with "block": `Acyclic` |
| a row that is reopened leaves released dependents | `fleet:475` | `cascade_safe` with "reopen": `KeepsPromise` |
| a blocker that is bounced, checked, judged or requeued after it was done has released its dependents | `gcg-loop-driver:44` | `cascade_safe` without `\union returned` in `DepsDone` |
| the janitor frees a row by the text of its reason | `gcg-inbox-janitor:340` | `cascade_safe` with "block", "named": `DepsDone` |
| the requeues of Pass 8 and of stale-check free a row that was blocked after they had read it | `gcg-inbox-poll:800` | `cascade_safe` with "block": `DepsDone` |
| the same requeues bring ended rows back (which ones: `KeepsPromise`) | `gcg-inbox-poll:800`, `gcg-inbox-stale-check:84` | `delivery_safe` with "recovery" or "pass8": `EndedStaysEnded`; `RequeueWedged` in `cascade_safe` |
| a tick that dies between sweep and notice loses the notice | `gcg-loop-driver:128` | `TickDies` at stage "notify" |
| Pass 6 inserts a second review: `psql` without `-q` prints its command tag, so the test for an empty result never holds | `gcg-inbox-poll:658` | `Mark` by both pollers |
| an INSERT that fails leaves the row marked and without a review | `gcg-inbox-poll:693` | `Dies` at "insert" |
| a late `qa-fail` parks an approved row again | `fleet:910` | `QaFail` after `Approve` |
| a reviewer that closes a review without a verdict strands its parent | `gcg-inbox-poll:394` | `qa_live` with "shirk": `GateMoves` |
| a review that times out while its row is away from the gate strands the row when it comes back | `gcg-inbox-poll:424` | `qa_live` without `Forgotten` in `GateMoves` |
| a review that was reviewed in its turn is closed as done, and its row gets no verdict | `gcg-inbox-poll:579` | `qa_live` with three rows, without `ReviewLost` |
| a poller that dies leaves a trivial row verified, or a hook running | `gcg-inbox-poll:507`, :467 | `Dies` at "check" or "hook" |
| the busy-guard of stale-check is read long before the restart | `gcg-inbox-stale-check:66` | `StaleBegin` to `StaleRestart` with "recovery" |

## 7. Not modelled, and why

Within the modelled components:

* Delivery: the closing of rows by their text (Passes 0a, 0b of the poller), the
  janitor's orphan scan and digests, `fleet check`, `gcg-inbox-surface` and
  `gcg-inbox-drain` (reports).
* Gate: Pass 3c and the messages of Pass 7 (notes and notices; the stamp they share is
  kept).
* Cascade registration: the state file of `cascade-driver`, its verification, and a
  second register after a failure half way (:274), which sends rows again.
* Councils: `council-persist.py`, the search before a council (`search_precheck.py`), the
  copy of the event log in Postgres, the wording of requests and of the synthesis.
* Knowledge: the reports on staleness, gaps and health (they write nothing that the run
  reads); how texts are cut, hashed and compared.
* Credentials: the backup of the profile, the audit log, the formats and their
  encryption. `_auth` and the modules of the Google services are not in the repository.
* Approval: the generation of schemas and descriptions for the tools.

The contents of messages, artifacts, reasons, plans and documents are abstracted to
what a query, a hash or a gate tells apart. The schema of `agent_messages` and its
triggers are not in the repository: columns are modelled as the programs use them, and
a trigger that rewrites them would have to be added.

Other components:

* Agent restarts (`safe-restart`, `safe-fleet-restart.sh`): a shell script that an
  operator runs, moves the lock file aside and puts it back in an exit trap. Only a
  kill that skips the trap, or two operators at once, would make it interesting.
* Subscription rotation and fleet configuration: one script at a time over text files.
  `rotate-controller-v2.sh` counts once and moves by these counts, and
  `fleet-rollback` takes the newest `.bak` file, whichever promotion wrote it; what makes
  a choice right there lies in the providers' limits and the operator's intent.
* `gcg-migrate`: its core is the classification of SQL text, which its tests enumerate,
  and it keeps no state between runs.
* Generators of configuration, document jobs other than `knowledge_maintenance`, schema
  introspection, URL validation, security reviews and audits, provisioning and backup:
  batch transformations of text, or reports, by one process.
* The coder bridges: their state is the terminal of another program.
* Dispatch accounting: logs beside the bus; no task depends on them.
* The OpenClaw gateway, The Forge, the memory CLI's store, the token endpoint, Google and
  Postgres: external; what `src/` shows of their use is modelled.

Real time: ages keep the order in which intervals pass, not their lengths; where a
length matters (a tick is shorter than five minutes, a run than an hour) it is a guard
of a clock action or a fairness condition, and named there.
