-------------------------- MODULE Knowledge_proofs --------------------------
(***************************************************************************)
(* Theorems about Knowledge, for every set of documents, whatever the      *)
(* gates admit and whatever resembles what.                                *)
(***************************************************************************)
EXTENDS Knowledge, TLAPS

-----------------------------------------------------------------------------
(* Type correctness, and what each stage of a run keeps in its variables.  *)

JobType ==
  /\ job.doc # {} => pc \in {"embed", "retry"} /\ ~dry
  /\ job.doc = {} => job = Idle
  /\ \A d, e \in job.doc : d = e
  /\ \A d \in job.doc : job.tried <= NChunks(d)
  /\ job.failed <= job.tried

Ranges ==
  /\ pc = "idle" => toEmbed = {}
  /\ pc = "examine" => left \subseteq seen

TypeInv == TypeOK /\ JobType /\ Ranges

LEMMA EntryType ==
  ASSUME KnowledgeAssumption, NEW e \in Entry
  PROVE  /\ Failed(e) \in Entry /\ Failed(e).retries # 0
         /\ Resolved(e) \in Entry /\ Resolved(e).retries = e.retries
<1>1. e.retries \in 0..MaxRetries /\ MaxRetries \in Nat \ {0}
  BY DEF KnowledgeAssumption, Entry
<1>2. (IF e.retries < MaxRetries THEN e.retries + 1 ELSE e.retries) \in (0..MaxRetries) \ {0}
  BY <1>1
<1> QED BY <1>1, <1>2 DEF Failed, Resolved, Entry

LEMMA IdleType ==
  ASSUME KnowledgeAssumption
  PROVE  Idle \in Job /\ NoQueue \in [Doc -> Entry]
<1>1. 0 \in 0..Versions /\ 0 \in 0..MaxRetries
  BY DEF KnowledgeAssumption
<1> QED BY <1>1 DEF Idle, Job, NoQueue, Entry

LEMMA InitType ==
  ASSUME KnowledgeAssumption, Init
  PROVE  TypeInv
<1>1. 0 \in 0..Versions /\ 1 \in 0..Versions
  BY DEF KnowledgeAssumption
<1>2. setup.docs \subseteq Doc
  BY DEF Init, KnowledgeAssumption, Setup
<1>3. rows \subseteq Row
  <2>1. \A d \in setup.docs : WholeRow(d, 1) \in Row
    BY <1>1, <1>2 DEF KnowledgeAssumption, WholeRow, RowFor, Row, Chunk, Whole
  <2> QED BY <2>1 DEF Init
<1>4. disk \in [Doc -> 0..Versions] /\ sources \in [Doc -> 0..Versions]
  BY <1>1 DEF Init
<1>5. JobType
  BY DEF Init, JobType, Idle
<1>6. TypeOK
  BY <1>3, <1>4, IdleType DEF Init, TypeOK, Stages
<1> QED BY <1>5, <1>6 DEF TypeInv, Ranges, Init

LEMMA LeaveType ==
  ASSUME KnowledgeAssumption, TypeInv, Leave, UNCHANGED kept, faults' \in Nat
  PROVE  TypeInv'
<1>1. JobType'
  BY DEF Leave, JobType, Idle
<1>2. TypeOK'
  BY IdleType DEF TypeInv, TypeOK, Leave, kept, Stages
<1> QED BY <1>1, <1>2 DEF TypeInv, Ranges, Leave

LEMMA ReportType ==
  ASSUME KnowledgeAssumption, TypeInv, NEW d \in Doc, NEW ok \in BOOLEAN, Report(d, ok)
  PROVE  /\ failures' \in [Doc -> Entry]
         /\ backlog' \subseteq {"bucket", "taxonomy", "duplicate", "failure"} \X Doc
         /\ left' \subseteq Doc
BY EntryType DEF TypeInv, TypeOK, Report

\* The steps of embed_file.
LEMMA EmbedType ==
  ASSUME KnowledgeAssumption, TypeInv, NEW d \in Doc,
         Read(d) \/ Capture(d) \/ CaptureFails(d) \/ Finish(d) \/ NoRead(d)
  PROVE  TypeInv'
<1>0. TypeOK /\ JobType /\ Ranges /\ job \in Job
  BY DEF TypeInv, TypeOK
<1>1. CASE Read(d)
  <2>1. job' \in Job
    BY <1>0, <1>1 DEF Read, Job, TypeOK
  <2>2. JobType'
    BY <1>0, <1>1 DEF Read, Chosen, JobType, NChunks, memory
  <2> QED BY <1>0, <1>1, <2>1, <2>2 DEF Read, TypeInv, TypeOK, Ranges, kept, world, memory
<1>2. CASE Capture(d) \/ CaptureFails(d)
  <2>1. d \in job.doc /\ job.tried < NChunks(d) /\ NChunks(d) \in {1, 2}
    BY <1>2 DEF Capture, CaptureFails, Unfinished, NChunks
  <2>2. job.tried + 1 \in 0..2 /\ job.failed + 1 \in 0..2 /\ job.tried + 1 <= NChunks(d)
    BY <1>0, <2>1 DEF Job, JobType
  <2>3. job' \in Job /\ job'.doc = job.doc /\ job'.tried = job.tried + 1
        /\ job'.failed \in {job.failed, job.failed + 1}
    BY <1>0, <1>2, <2>2 DEF Capture, CaptureFails, Job
  <2>4. JobType'
    BY <1>0, <1>2, <2>1, <2>2, <2>3 DEF JobType, Capture, CaptureFails, memory, NChunks, Job
  <2>5. rows' \subseteq Row
    BY <1>0, <1>2, <2>2 DEF KnowledgeAssumption, Capture, CaptureFails, kept, TypeOK, Kept, WholeRow, RowFor, Row, Chunk, Whole, Job
  <2> QED BY <1>0, <1>2, <2>3, <2>4, <2>5
          DEF Capture, CaptureFails, TypeInv, TypeOK, JobType, Ranges, kept, world, memory
<1>3. CASE Finish(d)
  <2>1. sources' \in [Doc -> 0..Versions]
    BY <1>0, <1>3 DEF Finish, TypeOK
  <2>2. PICK ok \in BOOLEAN : Report(d, ok)
    BY <1>3 DEF Finish
  <2>3. job' = Idle
    BY <1>3 DEF Finish
  <2>4. JobType'
    BY <2>3 DEF JobType, Idle
  <2>5. TypeOK'
    BY <1>0, <2>1, <2>2, <2>3, ReportType, IdleType DEF Report, TypeOK, world
  <2> QED BY <1>0, <2>2, <2>4, <2>5 DEF TypeInv, Ranges, Report
<1>4. CASE NoRead(d)
  <2>1. PICK ok \in BOOLEAN : Report(d, ok)
    BY <1>4 DEF NoRead
  <2>2. sources' = sources /\ job' = job /\ job = Idle
    BY <1>4 DEF NoRead, Chosen
  <2>3. JobType'
    BY <2>2 DEF JobType, Idle
  <2>4. TypeOK'
    BY <1>0, <2>1, <2>2, ReportType DEF Report, TypeOK, world
  <2> QED BY <1>0, <2>1, <2>3, <2>4 DEF Report, TypeInv, Ranges
<1> QED BY <1>1, <1>2, <1>3, <1>4

LEMMA StepType ==
  ASSUME KnowledgeAssumption, TypeInv, [Next]_vars
  PROVE  TypeInv'
<1>0. TypeOK /\ JobType /\ (job = Idle => job.doc = {})
  BY DEF TypeInv, TypeOK, Idle
<1>1. CASE Begin
  <2>1. job' = job /\ job = Idle
    BY <1>0, <1>1 DEF Begin, JobType
  <2>2. JobType'
    BY <2>1 DEF JobType, Idle
  <2>3. seen' \subseteq Doc /\ toEmbed = {}
    BY <1>1 DEF Begin, TypeInv, Ranges
  <2> QED BY <1>0, <1>1, <2>2, <2>3 DEF Begin, TypeInv, TypeOK, Ranges, kept, Stages
<1>2. CASE Abort \/ Exit \/ Die
  <2>1. faults' \in Nat
    BY <1>0, <1>2 DEF Abort, Exit, Die, TypeOK
  <2> QED BY <1>2, <2>1, LeaveType DEF Abort, Exit, Die
<1>3. CASE Look \/ StartExamining \/ EndExamining \/ StartEmbedding \/ StartRetrying
  <2>1. job' = job /\ job = Idle
    BY <1>0, <1>3 DEF Look, StartExamining, EndExamining, StartEmbedding, StartRetrying, JobType
  <2>2. JobType'
    BY <2>1 DEF JobType, Idle
  <2>3. TypeOK'
    BY <1>0, <1>3 DEF Look, StartExamining, EndExamining, StartEmbedding, StartRetrying,
       TypeOK, Stages, kept, world, memory
  <2>4. Ranges'
    BY <1>3 DEF Look, StartExamining, EndExamining, StartEmbedding, StartRetrying, Ranges, memory
  <2> QED BY <2>2, <2>3, <2>4 DEF TypeInv
<1>4. CASE Truncate \/ Save \/ GenerateIndex
  <2>1. job' = job /\ job = Idle
    BY <1>0, <1>4 DEF Truncate, Save, GenerateIndex, JobType
  <2>2. JobType'
    BY <2>1 DEF JobType, Idle
  <2>3. TypeOK'
    BY <1>0, <1>4, IdleType DEF Truncate, Save, GenerateIndex, TypeOK, Stages, world, memory
  <2> QED BY <1>4, <2>2, <2>3 DEF TypeInv, Ranges, Truncate, Save, GenerateIndex
<1>5. ASSUME NEW d \in Doc, Purge(d) \/ Examine(d) \/ SkipDuplicate(d) \/ SkipRetry(d)
      PROVE  TypeInv'
  <2>1. job' = job /\ pc' = pc /\ dry' = dry
    BY <1>5 DEF Purge, Examine, SkipDuplicate, SkipRetry, world, memory
  <2>2. JobType'
    BY <1>0, <2>1 DEF JobType
  <2>3. backlog' \subseteq {"bucket", "taxonomy", "duplicate", "failure"} \X Doc
    BY <1>0, <1>5 DEF TypeOK, Purge, Examine, SkipDuplicate, SkipRetry, kept
  <2>4. sources' \in [Doc -> 0..Versions] /\ toEmbed' \subseteq seen'
    <3>1. StoredHash(d) \in 0..Versions
      <4>1. 0 \in 0..Versions
        BY KnowledgeAssumption DEF KnowledgeAssumption
      <4>2. StoredHash(d) \in {sources[d], disk[d], 0}
        BY Zenon DEF StoredHash
      <4>3. sources[d] \in 0..Versions /\ disk[d] \in 0..Versions
        BY <1>0 DEF TypeOK
      <4> QED BY <4>1, <4>2, <4>3
    <3>2. CASE Examine(d)
      <4>1. d \in seen
        BY <3>2 DEF Examine, TypeInv, Ranges
      <4> QED BY <1>0, <3>1, <3>2, <4>1 DEF TypeOK, Examine
    <3>3. CASE ~Examine(d)
      BY <1>0, <1>5, <3>3 DEF TypeOK, Purge, SkipDuplicate, SkipRetry, kept, memory
    <3> QED BY <3>2, <3>3
  <2>5. rows' \subseteq rows /\ left' \subseteq left
    BY <1>5 DEF Purge, Examine, SkipDuplicate, SkipRetry, kept
  <2>6. /\ UNCHANGED <<setup, disk, writes, faults, queue, index, seen, embedded, retrying, failures>>
        /\ steady' \subseteq steady
    BY <1>5 DEF Purge, Examine, SkipDuplicate, SkipRetry, kept, world, memory
  <2>7. pc # "idle"
    BY <1>5 DEF Purge, Examine, SkipDuplicate, SkipRetry
  <2> QED BY <1>0, <2>1, <2>2, <2>3, <2>4, <2>5, <2>6, <2>7 DEF TypeInv, TypeOK, Ranges
<1>6. ASSUME NEW d \in Doc, Write(d)
      PROVE  TypeInv'
  BY <1>0, <1>6 DEF Write, TypeInv, TypeOK, JobType, Ranges, kept, memory
<1>7. CASE UNCHANGED vars
  BY <1>0, <1>7 DEF vars, kept, world, memory, TypeInv, TypeOK, JobType, Ranges
<1> QED BY <1>1, <1>2, <1>3, <1>4, <1>5, <1>6, <1>7, EmbedType DEF Next, Step

THEOREM TypeInvariance == Spec => []TypeInv
<1>1. Init => TypeInv
  BY InitType, KnowledgeAssumption
<1>2. TypeInv /\ [Next]_vars => TypeInv'
  BY StepType, KnowledgeAssumption
<1> QED BY <1>1, <1>2, PTL DEF Spec

\* The tables, the queue and the variables of a run hold what the code may put
\* there: no run embeds a file it has not found, or more chunks than there are.
THEOREM TypeCorrect == Spec => []TypeOK
<1>1. TypeInv => TypeOK
  BY DEF TypeInv
<1> QED BY <1>1, TypeInvariance, PTL

\* A dry run neither purges nor stores: no row comes or goes while it is on.
THEOREM DryRunIsHarmless == Spec => DryRunIsDry
<1>1. TypeInv /\ [Next]_vars => [dry => UNCHANGED rows]_vars
  <2> SUFFICES ASSUME TypeInv, Next, dry
               PROVE  UNCHANGED rows
    OBVIOUS
  <2>1. \A d \in Doc : ~Capture(d)
    BY DEF Capture, Unfinished, TypeInv, JobType
  <2> QED BY <2>1
          DEF Next, Begin, Die, Write, Step, Look, StartExamining, EndExamining, Abort,
              StartEmbedding, StartRetrying, Truncate, Save, GenerateIndex, Exit, Purge, Examine,
              SkipDuplicate, Read, CaptureFails, Finish, NoRead, Report, SkipRetry, kept
<1> QED BY <1>1, TypeInvariance, PTL DEF Spec, DryRunIsDry

-----------------------------------------------------------------------------
(* Accounting for a document that nobody touches during a run.  From the   *)
(* scan on it is on disk; if it is embedded it stays so; once examined it  *)
(* is embedded or to be embedded; once handled it is dealt with.           *)

DealtWith(d) == Stored(d, disk[d]) \/ Duplicate(d) \/ failures[d].retries # 0

\* The stages by what is behind them.
Looked   == pc \notin {"idle", "look"}
Examined == pc \notin {"idle", "look", "purge", "examine"}
Embedded == pc \in {"retry", "save", "index", "done"}

SteadySeen == \A d \in steady : d \in seen /\ disk[d] # 0

EmbeddedMatched ==
  /\ pc = "purge" => left \cap seen = {}
  /\ Looked => \A d \in steady \cap embedded : Matched(d)

ExaminedFound ==
  /\ pc = "examine" => \A d \in steady \ left : Admitted(d) => d \in toEmbed \union embedded
  /\ Examined => \A d \in steady : Admitted(d) => d \in toEmbed \union embedded

\* The chunks stored so far, if none failed.
JobStored ==
  \A d \in job.doc :
    /\ d \in steady => job.text = disk[d]
    /\ job.failed = 0 => \A i \in 1..job.tried : Kept(d, i) \in rows

EmbeddedDealt ==
  /\ pc = "embed" /\ ~dry => \A d \in (steady \cap toEmbed) \ left : DealtWith(d)
  /\ Embedded /\ ~dry => \A d \in steady \cap toEmbed : DealtWith(d)

QueueSaved == pc \in {"index", "done"} => queue = failures

AccountInv ==
  SteadySeen /\ EmbeddedMatched /\ ExaminedFound /\ JobStored /\ EmbeddedDealt /\ QueueSaved

LEMMA AccountEnough ==
  ASSUME TypeInv, AccountInv
  PROVE  Accounted
<1> SUFFICES ASSUME pc = "done", ~dry, NEW d \in steady, Admitted(d)
             PROVE  Stored(d, disk[d]) \/ Duplicate(d) \/ queue[d].retries # 0
  BY DEF Accounted
<1>1. d \in toEmbed \union embedded
  BY DEF AccountInv, ExaminedFound, Examined
<1>2. CASE d \in embedded
  BY <1>2 DEF AccountInv, EmbeddedMatched, Looked, Matched, Stored
<1>3. CASE d \in toEmbed
  BY <1>3 DEF AccountInv, EmbeddedDealt, Embedded, DealtWith, QueueSaved
<1> QED BY <1>1, <1>2, <1>3

\* Leaving forgets everything.
LEMMA LeaveAccount ==
  ASSUME Leave, TypeInv
  PROVE  AccountInv'
BY DEF Leave, AccountInv, SteadySeen, EmbeddedMatched, ExaminedFound, JobStored, EmbeddedDealt,
       QueueSaved, Looked, Examined, Embedded, Idle

\* Once dealt with, always dealt with: rows are only purged before the first
\* is embedded, and no entry leaves the queue.
LEMMA StaysDealt ==
  ASSUME NEW d \in Doc, DealtWith(d), rows \subseteq rows', disk'[d] = disk[d],
         failures'[d].retries = 0 => failures[d].retries = 0
  PROVE  DealtWith(d)'
BY DEF DealtWith, Stored, Duplicate

\* What the parts say of a document depends on its text and the stored rows.
LEMMA SameText ==
  ASSUME NEW d \in Doc, disk'[d] = disk[d]
  PROVE  /\ Admitted(d)' = Admitted(d)
         /\ rows \subseteq rows' /\ Matched(d) => Matched(d)'
BY DEF Admitted, InScope, Filed, Indexable, Matched

LEMMA ScanAccount ==
  ASSUME TypeInv, AccountInv, Begin \/ Look \/ StartExamining \/ EndExamining
  PROVE  AccountInv'
<1>0. job.doc = {} /\ job' = job
  BY DEF Begin, Look, StartExamining, EndExamining, TypeInv, JobType
<1>1. CASE Begin
  BY <1>0, <1>1 DEF Begin, AccountInv, SteadySeen, EmbeddedMatched, ExaminedFound, JobStored,
     EmbeddedDealt, QueueSaved, Looked, Examined, Embedded
<1>2. CASE Look
  <2>1. embedded' = {d \in Doc : Matched(d)} /\ disk' = disk /\ rows' = rows
    BY <1>2 DEF Look, kept, world
  <2>2. \A d \in embedded' : Matched(d)'
    BY <2>1 DEF Matched
  <2> QED BY <1>0, <1>2, <2>2
          DEF Look, AccountInv, SteadySeen, EmbeddedMatched, ExaminedFound, JobStored,
              EmbeddedDealt, QueueSaved, Looked, Examined, Embedded, world
<1>3. CASE StartExamining \/ EndExamining
  <2>1. UNCHANGED <<disk, rows, steady, seen, embedded, toEmbed>>
    BY <1>3 DEF StartExamining, EndExamining, kept, world, memory
  <2>2. \A d \in Doc : Matched(d)' = Matched(d) /\ Admitted(d)' = Admitted(d)
    BY <2>1 DEF Matched, Admitted, InScope, Filed, Indexable
  <2>3. steady \subseteq Doc
    BY DEF TypeInv, TypeOK
  <2> QED BY <1>0, <1>3, <2>1, <2>2, <2>3
          DEF StartExamining, EndExamining, AccountInv, SteadySeen, EmbeddedMatched,
              ExaminedFound, JobStored, EmbeddedDealt, QueueSaved, Looked, Examined, Embedded
<1> QED BY <1>1, <1>2, <1>3

LEMMA PurgeAccount ==
  ASSUME TypeInv, AccountInv, NEW d \in Doc, Purge(d)
  PROVE  AccountInv'
<1>0. job.doc = {} /\ job' = job /\ pc = "purge" /\ pc' = pc
  BY DEF Purge, TypeInv, JobType
<1>1. /\ UNCHANGED <<disk, seen, embedded, toEmbed>> /\ left' = left \ {d}
      /\ steady' = {e \in steady : WholeRow(e, disk[e]) # WholeRow(d, disk[d])}
  BY DEF Purge, memory
<1>2. \A e \in steady' \cap embedded : Matched(e)'
  <2> TAKE e \in steady' \cap embedded
  <2>1. Matched(e)
    BY <1>0, <1>1 DEF AccountInv, EmbeddedMatched, Looked
  <2>2. WholeRow(e, disk[e]) # WholeRow(d, disk[d])
    BY <1>1
  <2> QED BY <1>1, <2>1, <2>2 DEF Matched, Purge
<1> QED BY <1>0, <1>1, <1>2
        DEF AccountInv, SteadySeen, EmbeddedMatched, ExaminedFound, JobStored, EmbeddedDealt,
            QueueSaved, Looked, Examined, Embedded

LEMMA ExamineAccount ==
  ASSUME TypeInv, AccountInv, NEW d \in Doc, Examine(d)
  PROVE  AccountInv'
<1>0. job.doc = {} /\ job' = job /\ pc = "examine" /\ pc' = pc
  BY DEF Examine, TypeInv, JobType
<1>1. UNCHANGED <<disk, rows, steady, seen, embedded>> /\ left' = left \ {d}
  BY DEF Examine, world
<1>2. \A e \in Doc : Matched(e)' = Matched(e) /\ Admitted(e)' = Admitted(e)
  BY <1>1 DEF Matched, Admitted, InScope, Filed, Indexable
<1>3. toEmbed \subseteq toEmbed' /\ (Admitted(d) => d \in toEmbed' \union embedded)
  BY DEF Examine, Outdated
<1>4. steady \subseteq Doc
  BY DEF TypeInv, TypeOK
<1> QED BY <1>0, <1>1, <1>2, <1>3, <1>4
        DEF AccountInv, SteadySeen, EmbeddedMatched, ExaminedFound, JobStored, EmbeddedDealt,
            QueueSaved, Looked, Examined, Embedded

\* The steps that change neither the documents nor what is stored of them.
LEMMA LaterAccount ==
  ASSUME TypeInv, AccountInv,
         StartEmbedding \/ StartRetrying \/ Truncate \/ Save \/ GenerateIndex
  PROVE  AccountInv'
<1>0. UNCHANGED <<disk, rows, steady, seen, embedded, toEmbed, failures, dry>>
      /\ job = Idle /\ job' = job
  BY DEF StartEmbedding, StartRetrying, Truncate, Save, GenerateIndex, kept, world, memory, TypeInv, JobType
<1>1. \A d \in Doc : /\ Matched(d)' = Matched(d) /\ Admitted(d)' = Admitted(d)
                     /\ DealtWith(d)' = DealtWith(d)
  BY <1>0 DEF Matched, Admitted, InScope, Filed, Indexable, DealtWith, Stored, Duplicate
<1>2. steady \subseteq Doc
  BY DEF TypeInv, TypeOK
<1>3. SteadySeen' /\ JobStored'
  BY <1>0 DEF AccountInv, SteadySeen, JobStored, Idle
<1>4. EmbeddedMatched' /\ ExaminedFound'
  BY <1>0, <1>1, <1>2 DEF AccountInv, EmbeddedMatched, ExaminedFound, Looked, Examined,
     StartEmbedding, StartRetrying, Truncate, Save, GenerateIndex
<1>5. EmbeddedDealt'
  BY <1>0, <1>1, <1>2 DEF AccountInv, EmbeddedDealt, Embedded,
     StartEmbedding, StartRetrying, Truncate, Save, GenerateIndex
<1>6. QueueSaved'
  BY <1>0 DEF AccountInv, QueueSaved, StartEmbedding, StartRetrying, Truncate, Save, GenerateIndex
<1> QED BY <1>3, <1>4, <1>5, <1>6 DEF AccountInv

\* The steps of the loops, which handle one document.
LEMMA HandleAccount ==
  ASSUME TypeInv, AccountInv, KnowledgeAssumption, pc \in {"embed", "retry"}, pc' = pc,
         UNCHANGED <<disk, setup, steady, seen, embedded, toEmbed, dry>>,
         rows \subseteq rows', JobStored',
         \A e \in Doc : failures'[e].retries = 0 => failures[e].retries = 0,
         NEW d \in Doc, left \ {d} \subseteq left',
         pc = "embed" /\ d \notin left' /\ d \in steady /\ ~dry => DealtWith(d)' \/ d \notin left
  PROVE  AccountInv'
<1>1. steady \subseteq Doc
  BY DEF TypeInv, TypeOK
<1>2. \A e \in Doc : (DealtWith(e) => DealtWith(e)') /\ (Matched(e) => Matched(e)')
                     /\ Admitted(e)' = Admitted(e)
  <2> TAKE e \in Doc
  <2>1. DealtWith(e) => DealtWith(e)'
    BY StaysDealt
  <2> QED BY <2>1, SameText
<1>3. SteadySeen'
  BY DEF AccountInv, SteadySeen
<1>4. EmbeddedMatched' /\ ExaminedFound'
  BY <1>1, <1>2 DEF AccountInv, EmbeddedMatched, ExaminedFound, Looked, Examined
<1>5. EmbeddedDealt'
  BY <1>1, <1>2 DEF AccountInv, EmbeddedDealt, Embedded
<1>6. QueueSaved'
  BY DEF QueueSaved
<1> QED BY <1>3, <1>4, <1>5, <1>6 DEF AccountInv

LEMMA ReportAccount ==
  ASSUME TypeInv, KnowledgeAssumption, NEW d \in Doc, NEW ok \in BOOLEAN, Report(d, ok)
  PROVE  /\ \A e \in Doc : failures'[e].retries = 0 => failures[e].retries = 0
         /\ ~ok => failures'[d].retries # 0
<1>1. failures \in [Doc -> Entry]
  BY DEF TypeInv, TypeOK
<1> QED BY <1>1, EntryType DEF Report

LEMMA EmbedAccount ==
  ASSUME TypeInv, AccountInv, KnowledgeAssumption, NEW d \in Doc,
         \/ SkipDuplicate(d) \/ SkipRetry(d) \/ Read(d)
         \/ Capture(d) \/ CaptureFails(d) \/ Finish(d) \/ NoRead(d)
  PROVE  AccountInv'
<1>0. /\ pc \in {"embed", "retry"} /\ pc' = pc
      /\ UNCHANGED <<disk, setup, steady, seen, embedded, toEmbed, dry>>
      /\ rows \subseteq rows'
  BY DEF SkipDuplicate, SkipRetry, Read, Chosen, Capture, CaptureFails, Unfinished, Finish, NoRead,
         Report, TypeInv, JobType, kept, world, memory
<1>1. CASE SkipDuplicate(d)
  <2>1. JobStored' /\ failures' = failures /\ left' = left \ {d}
    BY <1>1 DEF SkipDuplicate, JobStored, Idle, memory
  <2>2. DealtWith(d)'
    BY <1>0, <1>1 DEF SkipDuplicate, DealtWith, Duplicate
  <2> QED BY <1>0, <2>1, <2>2, HandleAccount
<1>2. CASE SkipRetry(d)
  <2>1. JobStored' /\ failures' = failures /\ left' = left \ {d} /\ pc = "retry" /\ rows' = rows
    BY <1>2 DEF SkipRetry, JobStored, Idle, memory, kept
  <2> QED BY <1>0, <2>1, HandleAccount
<1>3. CASE Read(d)
  <2>1. failures' = failures /\ left' = left /\ rows' = rows
    BY <1>3 DEF Read, memory, kept
  <2>2. JobStored'
    BY <1>0, <1>3 DEF Read, JobStored
  <2> QED BY <1>0, <2>1, <2>2, HandleAccount
<1>4. CASE Capture(d)
  <2>1. /\ failures' = failures /\ left' = left /\ rows' = rows \union {Kept(d, job.tried + 1)}
        /\ job.doc = {d} /\ job \in Job
    BY <1>4 DEF Capture, Unfinished, memory, TypeInv, TypeOK, JobType
  <2>2. job' = [job EXCEPT !.tried = job.tried + 1]
    BY <1>4 DEF Capture
  <2>3. job'.doc = {d} /\ job'.text = job.text /\ job'.failed = job.failed
        /\ job'.tried = job.tried + 1 /\ job.tried \in Nat
    BY <2>1, <2>2 DEF Job
  <2>4. \A i : Kept(d, i)' = Kept(d, i)
    BY <1>0, <2>3 DEF Kept, RowFor
  <2>5. job.failed = 0 => \A i \in 1..(job.tried + 1) : Kept(d, i) \in rows'
    BY <2>1, <2>3 DEF AccountInv, JobStored
  <2>6. JobStored'
    BY <1>0, <2>1, <2>3, <2>4, <2>5 DEF AccountInv, JobStored
  <2> QED BY <1>0, <2>1, <2>6, HandleAccount
<1>5. CASE CaptureFails(d)
  <2>1. failures' = failures /\ left' = left /\ rows' = rows /\ job.doc = {d} /\ job \in Job
    BY <1>5 DEF CaptureFails, Unfinished, memory, kept, TypeInv, TypeOK, JobType
  <2>2. job' = [job EXCEPT !.tried = job.tried + 1, !.failed = job.failed + 1]
    BY <1>5 DEF CaptureFails
  <2>3. job'.doc = {d} /\ job'.text = job.text /\ job'.failed # 0
    BY <2>1, <2>2 DEF Job
  <2>4. JobStored'
    BY <1>0, <2>1, <2>3 DEF AccountInv, JobStored
  <2> QED BY <1>0, <2>1, <2>4, HandleAccount
<1>6. CASE Finish(d)
  <2>1. Report(d, job.failed = 0) /\ job' = Idle /\ left' = left \ {d} /\ rows' = rows
    BY <1>6 DEF Finish, Report
  <2>2. /\ \A e \in Doc : failures'[e].retries = 0 => failures[e].retries = 0
        /\ job.failed # 0 => failures'[d].retries # 0
    BY <2>1, ReportAccount
  <2>3. d \in steady /\ job.failed = 0 => Stored(d, disk[d])
    <3> SUFFICES ASSUME d \in steady, job.failed = 0
                 PROVE  Stored(d, job.text) /\ job.text = disk[d]
      OBVIOUS
    <3>1. d \in job.doc /\ job.tried = NChunks(d) /\ NChunks(d) \in {1, 2}
      BY <1>6 DEF Finish, Unfinished, NChunks, TypeInv, TypeOK, JobType, Job
    <3>2. job.text = disk[d] /\ \A i \in 1..NChunks(d) : Kept(d, i) \in rows
      BY <3>1 DEF AccountInv, JobStored
    <3>3. CASE setup.matches /\ d \notin Long
      <4>1. Kept(d, 1) \in rows
        BY <3>1, <3>2
      <4> QED BY <3>2, <3>3, <4>1 DEF Kept, Stored
    <3>4. CASE ~(setup.matches /\ d \notin Long)
      BY <3>2, <3>4 DEF Kept, Stored
    <3> QED BY <3>2, <3>3, <3>4
  <2>4. d \in steady => DealtWith(d)'
    BY <1>0, <2>1, <2>2, <2>3 DEF DealtWith, Stored
  <2>5. JobStored'
    BY <2>1 DEF JobStored, Idle
  <2> QED BY <1>0, <2>1, <2>2, <2>4, <2>5, HandleAccount
<1>7. CASE NoRead(d)
  <2>1. PICK ok \in BOOLEAN : Report(d, ok) /\ (ok => dry)
    BY <1>7 DEF NoRead
  <2>2. left' = left \ {d} /\ rows' = rows /\ job' = job /\ job = Idle
    BY <1>7, <2>1 DEF NoRead, Chosen, Report
  <2>3. /\ \A e \in Doc : failures'[e].retries = 0 => failures[e].retries = 0
        /\ ~dry => failures'[d].retries # 0
    BY <2>1, ReportAccount
  <2>4. JobStored' /\ (~dry => DealtWith(d)')
    BY <2>2, <2>3 DEF JobStored, Idle, DealtWith
  <2> QED BY <1>0, <2>2, <2>3, <2>4, HandleAccount
<1> QED BY <1>1, <1>2, <1>3, <1>4, <1>5, <1>6, <1>7

LEMMA WriteAccount ==
  ASSUME TypeInv, AccountInv, NEW d \in Doc, Write(d)
  PROVE  AccountInv'
<1>0. /\ UNCHANGED <<rows, queue, setup, pc, left, seen, embedded, toEmbed, failures, dry, job>>
      /\ steady' = steady \ {d} /\ steady \subseteq Doc
  BY DEF Write, kept, memory, TypeInv, TypeOK
<1>1. \A e \in Doc \ {d} : disk'[e] = disk[e]
  BY DEF Write, TypeInv, TypeOK
<1>2. \A e \in Doc \ {d} : /\ Matched(e)' = Matched(e) /\ Admitted(e)' = Admitted(e)
                           /\ DealtWith(e)' = DealtWith(e)
  BY <1>0, <1>1 DEF Matched, Admitted, InScope, Filed, Indexable, DealtWith, Stored, Duplicate
<1>3. SteadySeen' /\ JobStored'
  BY <1>0, <1>1 DEF AccountInv, SteadySeen, JobStored, Kept, TypeInv, TypeOK, Job
<1>4. EmbeddedMatched' /\ ExaminedFound'
  BY <1>0, <1>2 DEF AccountInv, EmbeddedMatched, ExaminedFound, Looked, Examined
<1>5. EmbeddedDealt' /\ QueueSaved'
  BY <1>0, <1>2 DEF AccountInv, EmbeddedDealt, Embedded, QueueSaved
<1> QED BY <1>3, <1>4, <1>5 DEF AccountInv

\* Whatever authors, deaths of runs and the memory CLI do meanwhile, a run that
\* comes to its end has stored, declined as a duplicate or noted as a failure
\* every document the gates admit and nobody touched.
THEOREM EveryDocumentAccounted == Spec => []Accounted
<1>1. Init => AccountInv
  BY DEF Init, AccountInv, SteadySeen, EmbeddedMatched, ExaminedFound, JobStored, EmbeddedDealt,
         QueueSaved, Looked, Examined, Embedded, Idle
<1>2. TypeInv /\ AccountInv /\ [Next]_vars => AccountInv'
  <2> SUFFICES ASSUME TypeInv, AccountInv, [Next]_vars
               PROVE  AccountInv'
    OBVIOUS
  <2>1. CASE Begin \/ Look \/ StartExamining \/ EndExamining
    BY <2>1, ScanAccount
  <2>2. CASE StartEmbedding \/ StartRetrying \/ Truncate \/ Save \/ GenerateIndex
    BY <2>2, LaterAccount
  <2>3. CASE Abort \/ Exit \/ Die
    BY <2>3, LeaveAccount DEF Abort, Exit, Die
  <2>4. CASE UNCHANGED vars
    BY <2>4 DEF vars, kept, world, memory, AccountInv, SteadySeen, EmbeddedMatched, ExaminedFound,
       JobStored, EmbeddedDealt, QueueSaved, Looked, Examined, Embedded, Matched, Admitted,
       InScope, Filed, Indexable, DealtWith, Stored, Duplicate, Kept
  <2> QED BY <2>1, <2>2, <2>3, <2>4, PurgeAccount, ExamineAccount, EmbedAccount, WriteAccount,
             KnowledgeAssumption
          DEF Next, Step
<1>3. TypeInv /\ AccountInv => Accounted
  BY AccountEnough
<1> QED BY <1>1, <1>2, <1>3, TypeInvariance, PTL DEF Spec

-----------------------------------------------------------------------------
(* The gates.  What is to be embedded, or is being embedded, passed them;  *)
(* with the text it has, unless it was changed.                            *)

GateInv ==
  /\ \A d \in toEmbed : d \notin Excluded \union Misfiled /\ (d \in steady => disk[d] \in Indexed[d])
  /\ pc = "embed" => left \subseteq toEmbed
  /\ \A d \in job.doc :
       d \notin Excluded \union Misfiled /\ (d \in steady => job.text \in Indexed[d])

LEMMA LeaveGate ==
  ASSUME Leave
  PROVE  GateInv'
BY DEF Leave, GateInv, Idle

LEMMA OtherGate ==
  ASSUME TypeInv, GateInv, NEW d \in Doc,
         \/ Examine(d) \/ Purge(d) \/ SkipDuplicate(d) \/ SkipRetry(d)
         \/ CaptureFails(d) \/ Finish(d) \/ NoRead(d) \/ Write(d)
  PROVE  GateInv'
<1>1. CASE Examine(d)
  BY <1>1 DEF Examine, GateInv, Admitted, InScope, Filed, Indexable, world
<1>2. CASE Purge(d) \/ SkipDuplicate(d) \/ SkipRetry(d)
  BY <1>2 DEF Purge, SkipDuplicate, SkipRetry, GateInv, world, memory
<1>3. CASE CaptureFails(d)
  <2>1. job' = [job EXCEPT !.tried = job.tried + 1, !.failed = job.failed + 1] /\ job \in Job
    BY <1>3 DEF CaptureFails, TypeInv, TypeOK
  <2>2. job'.doc = job.doc /\ job'.text = job.text
    BY <2>1 DEF Job
  <2> QED BY <1>3, <2>2 DEF CaptureFails, GateInv, world, memory
<1>4. CASE Finish(d) \/ NoRead(d)
  <2>1. UNCHANGED <<disk, steady, toEmbed, pc>> /\ left' = left \ {d} /\ (job' = job \/ job' = Idle)
    BY <1>4 DEF Finish, NoRead, Report, world
  <2> QED BY <2>1 DEF GateInv, Idle
<1>5. CASE Write(d)
  <2>1. UNCHANGED <<pc, left, toEmbed, job>> /\ steady' = steady \ {d}
    BY <1>5 DEF Write, memory
  <2>2. \A e \in Doc \ {d} : disk'[e] = disk[e]
    BY <1>5 DEF Write, TypeInv, TypeOK
  <2> QED BY <2>1, <2>2 DEF GateInv, TypeInv, TypeOK
<1> QED BY <1>1, <1>2, <1>3, <1>4, <1>5

LEMMA ReadGate ==
  ASSUME TypeInv, GateInv, NEW d \in Doc, Read(d)
  PROVE  GateInv'
<1>1. d \notin Excluded \union Misfiled /\ (d \in steady => disk[d] \in Indexed[d])
  <2>1. CASE pc = "embed"
    BY <2>1 DEF Read, Chosen, GateInv
  <2>2. CASE pc # "embed"
    BY <2>2 DEF Read, Chosen, RetryAdmits, Admitted, InScope, Filed, Indexable
  <2> QED BY <2>1, <2>2
<1> QED BY <1>1 DEF Read, GateInv, world, memory

LEMMA CaptureGate ==
  ASSUME TypeInv, GateInv, NEW d \in Doc, Capture(d)
  PROVE  GateInv' /\ \A x \in rows' \ rows : GatedRow(x)
<1>1. job' = [job EXCEPT !.tried = job.tried + 1] /\ job \in Job /\ d \in job.doc
  BY DEF Capture, Unfinished, TypeInv, TypeOK
<1>2. job'.doc = job.doc /\ job'.text = job.text
  BY <1>1 DEF Job
<1>3. GateInv'
  BY <1>2 DEF Capture, GateInv, world, memory
<1>4. Gated(d, job.text)
  BY <1>1 DEF GateInv, Gated
<1>5. \A x \in rows' \ rows : x = Kept(d, job.tried + 1)
  BY DEF Capture
<1>6. job.tried + 1 # Whole
  BY <1>1 DEF Job, Whole
<1>7. GatedRow(Kept(d, job.tried + 1))
  BY <1>4, <1>6 DEF GatedRow, Kept, WholeRow, RowFor
<1> QED BY <1>3, <1>5, <1>7

\* Nothing excluded or misfiled is ever stored, and a text that the gates do
\* not admit only if its document was changed while the run was on.
THEOREM GatesRespected == Spec => GateRespected
<1>1. Init => GateInv
  BY DEF Init, GateInv, Idle
<1>2. TypeInv /\ GateInv /\ [Next]_vars => GateInv'
  <2> SUFFICES ASSUME TypeInv, GateInv, [Next]_vars
               PROVE  GateInv'
    OBVIOUS
  <2>1. CASE Begin
    BY <2>1 DEF Begin, GateInv, TypeInv, JobType, Ranges
  <2>2. CASE Look \/ StartExamining \/ EndExamining \/ StartEmbedding \/ StartRetrying
    BY <2>2 DEF Look, StartExamining, EndExamining, StartEmbedding, StartRetrying, GateInv, world, memory
  <2>3. CASE Truncate \/ Save \/ GenerateIndex
    BY <2>3 DEF Truncate, Save, GenerateIndex, GateInv, world, memory
  <2>4. CASE Abort \/ Exit \/ Die
    BY <2>4, LeaveGate DEF Abort, Exit, Die
  <2>5. CASE UNCHANGED vars
    BY <2>5 DEF vars, kept, world, memory, GateInv
  <2> QED BY <2>1, <2>2, <2>3, <2>4, <2>5, OtherGate, ReadGate, CaptureGate DEF Next, Step
<1>3. TypeInv /\ GateInv /\ [Next]_vars =>
        [\A x \in rows' \ rows : GatedRow(x)]_vars
  <2> SUFFICES ASSUME TypeInv, GateInv, Next, NEW x \in rows' \ rows
               PROVE  GatedRow(x)
    OBVIOUS
  <2>1. PICK d \in Doc : Capture(d)
    BY DEF Next, Begin, Die, Write, Step, Look, StartExamining, EndExamining, Abort,
           StartEmbedding, StartRetrying, Truncate, Save, GenerateIndex, Exit, Purge, Examine,
           SkipDuplicate, Read, CaptureFails, Finish, NoRead, Report, SkipRetry, kept
  <2> QED BY <2>1, CaptureGate
<1> QED BY <1>1, <1>2, <1>3, TypeInvariance, PTL DEF Spec, GateRespected
=============================================================================
