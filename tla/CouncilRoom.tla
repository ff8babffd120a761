----------------------------- MODULE CouncilRoom -----------------------------
(***************************************************************************)
(* What the drivers of a council share: the plan, the review requests in   *)
(* the reviewers' inboxes, the verdict files, and the reviewers and the    *)
(* planner, which are agents that read and write these at their own pace.  *)
(*                                                                         *)
(* The text of the plan is its version: a hash that equals another is the  *)
(* same version.  Nobody writes an old text back.                          *)
(***************************************************************************)
EXTENDS Naturals, FiniteSets

CONSTANTS
  Reviewer,  \* the agents that review plans
  NoFooter,  \* those of them who leave out the reviewed-hash footer
  Setups     \* the councils looked at, a set of Setup

Driver  == {"tick", "checkpoint", "loop"}
Verdict == {"PASS", "FAIL", "CONDITIONAL", "UNKNOWN"}
Version == Nat \ {0}

\* What drives a council, its reviewers and what they may write, and bounds on
\* the versions of the plan and on the crashes and failed sends of the driver.
Setup == [driver : Driver, reviewers : SUBSET Reviewer, verdicts : SUBSET Verdict,
          versions : Version, faults : Nat]

ASSUME CouncilAssumption ==
  /\ NoFooter \subseteq Reviewer
  /\ Setups \subseteq Setup

VARIABLES
  setup,    \* the council
  plan,     \* newest version of the plan
  asked,    \* per reviewer: requests in its inbox
  reading,  \* per reviewer: the request it works on, the version it read, and
            \* whether its verdict is on file
  files,    \* verdict files, with the version its author read (about)
  faults    \* crashes and failed sends so far

room == <<setup, plan, asked, reading, files, faults>>

driver  == setup.driver
Panel   == setup.reviewers
Request == [round : Nat, told : Version]
Review  == [round : Nat, told : Version, about : Version, wrote : BOOLEAN]
Nothing == [round |-> 0]
File    == [by : Reviewer, round : Nat, verdict : Verdict,
            footer : Nat, about : Version]

RoomTypeOK ==
  /\ setup \in Setups
  /\ plan \in Version
  /\ asked \in [Reviewer -> SUBSET Request]
  /\ reading \in [Reviewer -> Review \union {Nothing}]
  /\ files \subseteq File
  /\ faults \in Nat

RoomInit ==
  /\ setup \in Setups
  /\ plan = 1
  /\ asked = [r \in Reviewer |-> {}]
  /\ reading = [r \in Reviewer |-> Nothing]
  /\ files = {}
  /\ faults = 0

-----------------------------------------------------------------------------
(* Verdict files.                                                          *)

FilesOf(r, n) == {f \in files : f.by = r /\ f.round = n}

\* A driver sends its requests one after the other, in one step here: whatever
\* comes between two of them may come after both.  A request of an earlier
\* round that is still unread is dropped: its verdict would go to a file no
\* driver reads any more.
Ask(S, n, told) ==
  asked' = [r \in Reviewer |->
              IF r \in S
              THEN {q \in asked[r] : q.round >= n} \union {[round |-> n, told |-> told]}
              ELSE asked[r]]

-----------------------------------------------------------------------------
(* The agents.                                                             *)

\* The planner saves a revision: asked for one, or not.
Revise ==
  /\ plan < setup.versions
  /\ plan' = plan + 1
  /\ UNCHANGED <<setup, asked, reading, files, faults>>

\* A reviewer opens a request and reads the file at the plan's path, which is
\* the plan of today for the tick and the file of that round for the loop.
StartReview(r) ==
  /\ reading[r] = Nothing
  /\ \E q \in asked[r] :
       /\ asked' = [asked EXCEPT ![r] = @ \ {q}]
       /\ reading' = [reading EXCEPT ![r] =
            [round |-> q.round, told |-> q.told,
             about |-> IF driver = "loop" THEN q.told ELSE plan, wrote |-> FALSE]]
  /\ UNCHANGED <<setup, plan, files, faults>>

\* A verdict of the review r is at work on replaces what r has on file for that
\* round.  A file of a round before the oldest that is still read is left out.
VerdictFile(r, v, footer) ==
  [by |-> r, round |-> reading[r].round, verdict |-> v, about |-> reading[r].about,
   footer |-> footer]
Put(r, fs, oldest) ==
  files' = (files \ FilesOf(r, reading[r].round)) \union {f \in fs : f.round >= oldest}

\* Step 4 of the request: it writes its verdict.  The drivers may read the file
\* from here on, while its author stores a lesson (step 5).
WriteVerdict(r, v, oldest) ==
  /\ reading[r] # Nothing /\ ~reading[r].wrote
  /\ v \in setup.verdicts
  /\ Put(r, {VerdictFile(r, v, 0)}, oldest)
  /\ reading' = [reading EXCEPT ![r] =
       IF r \in NoFooter THEN Nothing ELSE [@ EXCEPT !.wrote = TRUE]]
  /\ UNCHANGED <<setup, plan, asked, faults>>

\* Step 6: it appends the hash the request told it.  If the file has been
\* removed meanwhile, the footer is all there is of it.
AppendFooter(r, oldest) ==
  /\ reading[r] # Nothing /\ reading[r].wrote
  /\ LET q    == reading[r]
         said == {f.verdict : f \in FilesOf(r, q.round)}
     IN  Put(r, {VerdictFile(r, v, q.told) : v \in IF said = {} THEN {"UNKNOWN"} ELSE said},
             oldest)
  /\ reading' = [reading EXCEPT ![r] = Nothing]
  /\ UNCHANGED <<setup, plan, asked, faults>>

\* It closes the request, with no verdict or with no footer under it.
LoseReview(r) ==
  /\ reading[r] # Nothing
  /\ reading' = [reading EXCEPT ![r] = Nothing]
  /\ UNCHANGED <<setup, plan, asked, files, faults>>

Fault ==
  /\ faults < setup.faults
  /\ faults' = faults + 1
=============================================================================
