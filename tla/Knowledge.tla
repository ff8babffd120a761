------------------------------ MODULE Knowledge ------------------------------
(***************************************************************************)
(* knowledge_maintenance: the job that keeps the knowledge base (memories  *)
(* in pgvector) in step with the documents on disk, every quarter of an    *)
(* hour.  A file lock admits one run at a time; the documents' authors and *)
(* the memory CLI, which stores a text or fails to, go on meanwhile, and a *)
(* run may die anywhere.                                                   *)
(*                                                                         *)
(* A text is its version, and so is its checksum.  memories.content_hash   *)
(* is the memory CLI's (external): an old import stored whole documents    *)
(* under the checksum of the file; embed_file stores chunks with a line of *)
(* provenance, under a hash no file has, unless the CLI leaves that line   *)
(* out for a document of one chunk (matches).  A row under the checksum of *)
(* a file is that of every file of the same text.                          *)
(***************************************************************************)
EXTENDS Naturals, FiniteSets

CONSTANTS
  Doc,         \* the .md files there may be
  Versions,    \* how many texts a document may have
  Long,        \* documents of two chunks
  Original,    \* per document, the one it is a copy of, or itself: the texts of
               \* both, version by version, are the same
  Excluded,    \* documents under superseded/ or archive/
  Misfiled,    \* documents outside the approved taxonomy
  Deprecated,  \* documents in a bucket to be migrated
  Indexed,     \* per document, the texts gate 1 admits: by their front matter
               \* or their folder, which alone decides when there is no file (0)
  Alike,       \* <<d, e>>: the beginning of d resembles what is stored of e
  MaxRetries,
  Setups       \* what varies between the systems looked at, a set of Setup

Whole == 0
Chunk == {Whole, 1, 2}
Row   == [doc : Doc, text : 0..Versions, chunk : Chunk]
Entry == [retries : 0..MaxRetries, resolved : BOOLEAN]

\* docs: the documents in use; ceiling: files a run may embed before it costs
\* too much; writes, faults: bounds on the changes to documents and on the
\* deaths of runs.
Setup == [docs : SUBSET Doc, matches : BOOLEAN, ceiling : Nat, writes : Nat, faults : Nat]

ASSUME KnowledgeAssumption ==
  /\ Versions \in Nat \ {0} /\ MaxRetries \in Nat \ {0}
  /\ IsFiniteSet(Doc)
  /\ Original \in [Doc -> Doc]
  /\ Indexed \in [Doc -> SUBSET (0..Versions)]
  /\ Alike \subseteq Doc \X Doc
  /\ Setups \subseteq Setup

VARIABLES
  setup,
  disk,      \* per document, the text on disk, 0 when there is no file
  rows,      \* memories
  sources,   \* knowledge_sources: per document, its file_hash, 0 for no row
  queue,     \* embed_failures.json, no entry having 0 retries
  backlog,   \* unresolved entries of the remediation backlog
  index,     \* documents listed in KNOWLEDGE_INDEX.md
  writes, faults,
  steady     \* history: documents a run has found, and since then nobody has
             \* changed them or purged the row that a copy of theirs shares

VARIABLES    \* a run
  pc, dry,
  seen,      \* all_doc_paths
  embedded,  \* embedded_paths
  left,      \* what the loop it is in has still to do
  toEmbed,   \* files_to_embed
  retrying,  \* retry_paths
  failures,  \* the queue in memory
  job        \* embed_file at work: its text and the chunks tried and failed

kept   == <<rows, sources, queue, backlog, index>>
world  == <<setup, disk, writes, faults, steady>>
memory == <<dry, seen, embedded, toEmbed, retrying, failures>>
vars   == <<kept, world, pc, left, memory, job>>

Idle == [doc |-> {}, text |-> 0, tried |-> 0, failed |-> 0]
Job  == [doc : SUBSET Doc, text : 0..Versions, tried : 0..2, failed : 0..2]
RowFor(d, v, i) == [doc |-> d, text |-> v, chunk |-> i]

\* Rows under the checksum of a file do not say whose.
WholeRow(d, v) == RowFor(Original[d], v, Whole)

NoQueue == [d \in Doc |-> [retries |-> 0, resolved |-> FALSE]]

Stages == {"idle", "look", "purge", "examine", "cost", "embed", "retry", "save", "index", "done"}

TypeOK ==
  /\ setup \in Setups
  /\ disk \in [Doc -> 0..Versions] /\ sources \in [Doc -> 0..Versions]
  /\ rows \subseteq Row
  /\ queue \in [Doc -> Entry] /\ failures \in [Doc -> Entry]
  /\ backlog \subseteq {"bucket", "taxonomy", "duplicate", "failure"} \X Doc
  /\ writes \in Nat /\ faults \in Nat
  /\ index \subseteq Doc /\ steady \subseteq Doc /\ seen \subseteq Doc
  /\ embedded \subseteq Doc /\ left \subseteq Doc /\ toEmbed \subseteq seen
  /\ retrying \subseteq Doc
  /\ pc \in Stages /\ dry \in BOOLEAN
  /\ job \in Job

Init ==
  /\ setup \in Setups
  /\ disk \in {f \in [Doc -> {0, 1}] : \A d \in Doc \ setup.docs : f[d] = 0}
  /\ rows \in SUBSET {WholeRow(d, 1) : d \in setup.docs}
  /\ sources = [d \in Doc |-> 0]
  /\ queue = NoQueue /\ failures = NoQueue
  /\ backlog = {} /\ index = {} /\ steady = {}
  /\ writes = 0 /\ faults = 0
  /\ pc = "idle" /\ dry = FALSE /\ job = Idle
  /\ seen = {} /\ embedded = {} /\ left = {} /\ toEmbed = {} /\ retrying = {}

-----------------------------------------------------------------------------
(* The documents.                                                          *)

\* A document is written, rewritten, put back as it was, or deleted.
Write(d) ==
  /\ d \in setup.docs
  /\ writes < setup.writes /\ writes' = writes + 1
  /\ \E v \in (0..Versions) \ {disk[d]} : disk' = [disk EXCEPT ![d] = v]
  /\ steady' = steady \ {d}
  /\ UNCHANGED <<kept, setup, faults, pc, left, memory, job>>

-----------------------------------------------------------------------------
(* What is stored.                                                         *)

\* A row under the checksum of the file as it is.
Matched(d) == disk[d] # 0 /\ WholeRow(d, disk[d]) \in rows

NChunks(d)   == IF d \in Long THEN 2 ELSE 1
Stored(d, v) == WholeRow(d, v) \in rows \/ \A i \in 1..NChunks(d) : RowFor(d, v, i) \in rows

\* Gate 3 takes the file's own rows for a duplicate like any others.
Duplicate(d) == disk[d] # 0 /\ \E x \in rows : <<d, x.doc>> \in Alike

\* Gate 2, gate 1 and the taxonomy.
InScope(d)   == d \notin Excluded
Indexable(d) == disk[d] \in Indexed[d]
Filed(d)     == d \notin Misfiled
Admitted(d)  == InScope(d) /\ Indexable(d) /\ Filed(d)

-----------------------------------------------------------------------------
(* A run: the scan, the purge, and what to embed.                          *)

Begin ==
  /\ pc = "idle"
  /\ pc' = "look"
  /\ dry' \in BOOLEAN
  /\ failures' = queue
  /\ seen' = {d \in Doc : disk[d] # 0}
  /\ steady' = seen'
  /\ UNCHANGED <<kept, setup, disk, writes, faults, embedded, left, toEmbed, retrying, job>>

\* Another walk, so a document that is new since the scan is embedded, not seen.
Look ==
  /\ pc = "look"
  /\ embedded' = {d \in Doc : Matched(d)}
  /\ left' = embedded' \ seen
  /\ pc' = "purge"
  /\ UNCHANGED <<kept, world, dry, seen, toEmbed, retrying, failures, job>>

\* The rows under the file's checksum go, which may be those of a copy, too:
\* none, if the file has gone.
Purge(d) ==
  /\ pc = "purge" /\ d \in left
  /\ left' = left \ {d}
  /\ rows' = IF dry THEN rows ELSE rows \ {WholeRow(d, disk[d])}
  /\ steady' = {e \in steady : WholeRow(e, disk[e]) # WholeRow(d, disk[d])}
  /\ UNCHANGED <<sources, queue, backlog, index, setup, disk, writes, faults, pc, memory, job>>

StartExamining ==
  /\ pc = "purge" /\ left = {}
  /\ pc' = "examine" /\ left' = seen
  /\ UNCHANGED <<kept, world, memory, job>>

\* The row of knowledge_sources, else the checksum of the file if it matches,
\* which is noted down, dry run or not.
StoredHash(d) ==
  IF sources[d] # 0 THEN sources[d] ELSE IF Matched(d) THEN disk[d] ELSE 0

\* Mutants of Outdated: only what changed is embedded; knowledge_sources is trusted.
OutdatedChanged(d)  == StoredHash(d) # 0 /\ StoredHash(d) # disk[d]
OutdatedTrusting(d) == StoredHash(d) # disk[d]

Outdated(d) == d \notin embedded \/ (StoredHash(d) # 0 /\ StoredHash(d) # disk[d])

Examine(d) ==
  /\ pc = "examine" /\ d \in left
  /\ left' = left \ {d}
  /\ backlog' = backlog
       \union (IF InScope(d) /\ d \in Deprecated THEN {<<"bucket", d>>} ELSE {})
       \union (IF InScope(d) /\ Indexable(d) /\ ~Filed(d) THEN {<<"taxonomy", d>>} ELSE {})
  /\ \/ Admitted(d)
        /\ sources' = [sources EXCEPT ![d] = StoredHash(d)]
        /\ toEmbed' = IF Outdated(d) THEN toEmbed \union {d} ELSE toEmbed
     \/ ~Admitted(d) /\ UNCHANGED <<sources, toEmbed>>
  /\ UNCHANGED <<rows, queue, index, world, pc, dry, seen, embedded, retrying, failures, job>>

EndExamining ==
  /\ pc = "examine" /\ left = {}
  /\ pc' = "cost"
  /\ UNCHANGED <<kept, world, left, memory, job>>

-----------------------------------------------------------------------------
(* Leaving.                                                                *)

Leave ==
  /\ pc' = "idle" /\ dry' = FALSE /\ job' = Idle /\ failures' = NoQueue
  /\ seen' = {} /\ embedded' = {} /\ left' = {} /\ toEmbed' = {} /\ retrying' = {}
  /\ steady' = {}
  /\ UNCHANGED <<setup, disk, writes>>

\* Too dear: an alert, and the run ends before it embeds anything.
Abort ==
  /\ pc = "cost" /\ Cardinality(toEmbed) > setup.ceiling
  /\ Leave
  /\ UNCHANGED <<kept, faults>>

Die ==
  /\ pc # "idle"
  /\ faults < setup.faults /\ faults' = faults + 1
  /\ Leave
  /\ UNCHANGED kept

-----------------------------------------------------------------------------
(* Embedding.                                                              *)

ShouldRetry(e) == e.retries # 0 /\ e.retries < MaxRetries /\ ~e.resolved

StartEmbedding ==
  /\ pc = "cost" /\ Cardinality(toEmbed) <= setup.ceiling
  /\ pc' = "embed" /\ left' = toEmbed
  /\ retrying' = {d \in Doc : ShouldRetry(failures[d])}
  /\ UNCHANGED <<kept, world, dry, seen, embedded, toEmbed, failures, job>>

SkipDuplicate(d) ==
  /\ pc = "embed" /\ d \in left /\ job = Idle
  /\ Duplicate(d)
  /\ backlog' = backlog \union {<<"duplicate", d>>}
  /\ left' = left \ {d}
  /\ UNCHANGED <<rows, sources, queue, index, world, pc, memory, job>>

\* Mutant of RetryAdmits: a file that was admitted once is retried as it is.
RetryAdmitsKnown(d) == disk[d] # 0 /\ InScope(d) /\ Filed(d)
RetryAdmits(d)      == disk[d] # 0 /\ Admitted(d)

Chosen(d) ==
  /\ d \in left /\ job = Idle
  /\ \/ pc = "embed" /\ ~Duplicate(d)
     \/ pc = "retry" /\ d \notin toEmbed /\ RetryAdmits(d)

\* Mutant of Read: dry_run is not passed on.
ReadAnyway(d) ==
  /\ Chosen(d) /\ disk[d] # 0
  /\ job' = [doc |-> {d}, text |-> disk[d], tried |-> 0, failed |-> 0]
  /\ UNCHANGED <<kept, world, pc, left, memory>>

\* embed_file reads the text; its chunks are stored one by one.
Read(d) ==
  /\ Chosen(d) /\ ~dry /\ disk[d] # 0
  /\ job' = [doc |-> {d}, text |-> disk[d], tried |-> 0, failed |-> 0]
  /\ UNCHANGED <<kept, world, pc, left, memory>>

Kept(d, i) ==
  IF setup.matches /\ d \notin Long THEN WholeRow(d, job.text) ELSE RowFor(d, job.text, i)

\* Mutant of Unfinished: one chunk more.
UnfinishedLate(d) == d \in job.doc /\ job.tried <= NChunks(d)
Unfinished(d)     == d \in job.doc /\ job.tried < NChunks(d)

Capture(d) ==
  /\ Unfinished(d)
  /\ rows' = rows \union {Kept(d, job.tried + 1)}
  /\ job' = [job EXCEPT !.tried = @ + 1]
  /\ UNCHANGED <<sources, queue, backlog, index, world, pc, left, memory>>

CaptureFails(d) ==
  /\ Unfinished(d)
  /\ job' = [job EXCEPT !.tried = @ + 1, !.failed = @ + 1]
  /\ UNCHANGED <<kept, world, pc, left, memory>>

\* An entry that was resolved stays so when the file fails again.  Retries are
\* counted up to MaxRetries, which is all should_retry looks at.
Failed(e)   == [e EXCEPT !.retries = IF @ < MaxRetries THEN @ + 1 ELSE @]
Resolved(e) == IF e.retries = 0 THEN e ELSE [e EXCEPT !.resolved = TRUE]

Report(d, ok) ==
  /\ failures' = [failures EXCEPT ![d] = IF ok THEN Resolved(@) ELSE Failed(@)]
  /\ backlog' = IF ok \/ pc = "retry" THEN backlog ELSE backlog \union {<<"failure", d>>}
  /\ left' = left \ {d}
  /\ UNCHANGED <<rows, queue, index, world, pc, dry, seen, embedded, toEmbed, retrying>>

\* If any chunk is stored, knowledge_sources gets the checksum of the file as
\* it is now.
Finish(d) ==
  /\ d \in job.doc /\ ~Unfinished(d)
  /\ sources' = IF job.failed < job.tried THEN [sources EXCEPT ![d] = disk[d]] ELSE sources
  /\ job' = Idle
  /\ Report(d, job.failed = 0)

\* A dry run counts every file as embedded, and marks its failure resolved; a
\* file that has gone cannot be read.
NoRead(d) ==
  /\ Chosen(d)
  /\ \/ dry /\ Report(d, TRUE)
     \/ ~dry /\ disk[d] = 0 /\ Report(d, FALSE)
  /\ UNCHANGED <<sources, job>>

StartRetrying ==
  /\ pc = "embed" /\ left = {} /\ job = Idle
  /\ pc' = "retry" /\ left' = retrying
  /\ UNCHANGED <<kept, world, memory, job>>

SkipRetry(d) ==
  /\ pc = "retry" /\ d \in left /\ job = Idle
  /\ d \in toEmbed \/ ~RetryAdmits(d)
  /\ left' = left \ {d}
  /\ UNCHANGED <<kept, world, pc, memory, job>>

-----------------------------------------------------------------------------
(* The end: the queue, dry run or not, and the index.                      *)

\* The file is emptied, then written: a run that dies in between leaves nothing
\* the next one can read.
Truncate ==
  /\ pc = "retry" /\ left = {} /\ job = Idle
  /\ queue' = NoQueue
  /\ pc' = "save"
  /\ UNCHANGED <<rows, sources, backlog, index, world, left, memory, job>>

Save ==
  /\ pc = "save"
  /\ queue' = failures
  /\ pc' = "index"
  /\ UNCHANGED <<rows, sources, backlog, index, world, left, memory, job>>

GenerateIndex ==
  /\ pc = "index"
  /\ index' = IF dry THEN index
              ELSE {d \in Doc : disk[d] # 0 /\ (sources[d] # 0 \/ Matched(d))}
  /\ pc' = "done"
  /\ UNCHANGED <<rows, sources, queue, backlog, world, left, memory, job>>

Exit ==
  /\ pc = "done"
  /\ Leave
  /\ UNCHANGED <<kept, faults>>

-----------------------------------------------------------------------------
Step ==
  \/ Look \/ StartExamining \/ EndExamining \/ Abort \/ StartEmbedding
  \/ StartRetrying \/ Truncate \/ Save \/ GenerateIndex \/ Exit
  \/ \E d \in Doc :
       \/ Purge(d) \/ Examine(d) \/ SkipDuplicate(d) \/ Read(d)
       \/ Capture(d) \/ CaptureFails(d) \/ Finish(d) \/ NoRead(d) \/ SkipRetry(d)

Next == Begin \/ Step \/ Die \/ \E d \in Doc : Write(d)
Spec == Init /\ [][Next]_vars

\* Cron runs the job again and again, not always dry, and the memory CLI does
\* not fail for ever.
FairSpec ==
  /\ Spec
  /\ WF_vars(Step)
  /\ SF_vars(Begin /\ ~dry')
  /\ \A d \in Doc : \A i \in 1..NChunks(d) : SF_vars(job.tried = i - 1 /\ Capture(d))

-----------------------------------------------------------------------------
(* Properties.                                                             *)

\* A document the gates admit, and that nobody touches during a whole run, is
\* stored in full at its end, or passes for a duplicate, or has an entry in the
\* queue of failures: whatever was stored in part, noted by a run that died or
\* changed while another run stored it, and whatever was purged, unless it was
\* the row of a copy that came after the scan.
Accounted ==
  pc = "done" /\ ~dry =>
    \A d \in steady : Admitted(d) =>
      Stored(d, disk[d]) \/ Duplicate(d) \/ queue[d].retries # 0

\* A text that is stored has passed the gates itself, unless its document was
\* changed while the run was on; nothing excluded or misfiled is ever stored.
\* A row under the checksum of a file is that of some copy that passed.
Gated(d, v)   == d \notin Excluded \union Misfiled /\ (d \in steady => v \in Indexed[d])
GatedRow(x)   == IF x.chunk = Whole THEN \E d \in Doc : Original[d] = x.doc /\ Gated(d, x.text)
                 ELSE Gated(x.doc, x.text)
GateRespected == [][\A x \in rows' \ rows : GatedRow(x)]_vars

\* A dry run leaves the knowledge base alone.  (It does write the queue, the
\* backlog and knowledge_sources.)
DryRunIsDry == [][dry => UNCHANGED rows]_vars

\* When the documents come to rest, every one the gates admit is stored in full
\* for good, or passes for a duplicate for good; unless all of them together
\* are too dear for a run, when no run ever embeds them.
Settles ==
  setup.ceiling >= Cardinality(setup.docs) =>
    <>[]\A d \in Doc : disk[d] # 0 /\ Admitted(d) => Stored(d, disk[d]) \/ Duplicate(d)
=============================================================================
