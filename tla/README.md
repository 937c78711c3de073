# Checkdigit: TLA+ models

Checkdigit finds and corrects the identifiers of containers and wagons in freight files. It has
three faces: a private **workspace** (`src/checkdigit/workspace/`) that keeps a durable store around
imports, reviews, exports and deliveries; a **public service** (`src/checkdigit/`) that corrects one
upload, a batch or a watched folder; and a **browser application** (`src/src/`) that does the same
without a server. This directory models the parts of all three in which something can go wrong that
a test would hardly reach: processes that meet, answers that come late, crashes between two steps,
chunks that are cut anywhere. Paths below are relative to `src/checkdigit/workspace/` where they have
no directory, and to `src/` otherwise.

Contents: 1 the system, 2 the modules, 3 the runs, 4 the theorems, 5 what is not modelled,
6 observations on the code, 7 what could come next. `PROJECT.json` lists components, hazards with
their lines, runs, mutants, findings, theorems, and for every definition the lines it models.

## 1. The system

All state of the workspace is in one SQLite database (`store.py`, WAL, foreign keys on). A route of
the HTTP API, a worker process and the automation loop each own a connection. `transaction()` opens
with `BEGIN IMMEDIATE`, so a transaction is atomic and a statement outside one is a transaction of
its own. Everything hard happens between two transactions, or between a transaction and a file.

| component | state | operations | meets |
|---|---|---|---|
| job queue and worker (`jobs.py`, `runner.py`, `ingest.py`) | `jobs` (state, lease, attempts, cancel, checkpoint), counters, observations; each worker's checkpoint | create, claim, steps, flush, complete, fail, cancel | API, export, generations |
| reconciliation (`reconcile.py`) | `import_intents`, `generations`, `memberships`, `fleet`, the current pointer, audit | submit, finish_job, publish, abandon | workers, API, re-analysis |
| messages (`messages.py`, `context.py`) | `message_transactions`, contexts, visits, movements | collect, resolve_lifecycle, apply_on_publish | finish_job, publish |
| review (`review.py`) | `change_sets`, `approvals`, `selection_members`, versions of observations | decide, check_approval, reanalyze | export, reconciliation |
| export (`export.py`) | `export_artifacts`, files | build_artifact | review, queue |
| transmission (`transmit.py`, `connections.py`, `profiles.py`) | `delivery_attempts`, connections, profiles | authorize, send, recover_stale, resend, verify | export, a receiver |
| automation and feedback (`automation.py`, `feedback.py`) | `inbox_files`, `receiver_feedback` | poll_connection, ingest_feedback, start_repair | runner, transmission |
| uploads, sources, retention (`api.py`, `ingest.py`, `maintenance.py`) | `uploads`, `source_files`, files | create, append, complete, register, purge | jobs |
| readers (`stream.py`, `ingest.py`) | what is carried between two chunks | csv_records, delimited_segments, xml_start_tags, line_records | worker |
| kernel, rules, correctors (`checkdigit/*.py`) | the rules in force | judge, edit, report, suggest | every front door |
| enrichment requests (`references.py`) | `enrichment_requests`, `enrichment_results` | create, authorize, run | API, a paid provider |
| warehouse and enrichment (`checkdigit/db.py`, `enrichment.py`) | events, containers, owners, fetches | record, enrich in the background | upload, providers |
| watch folder, batches (`checkdigit/watch_folder.py`, `batch.py`) | directories; one request | poll, process, archive; expand, process | correctors |
| browser (`src/pages/files*.ts`, `src/lib/*job.ts`, `src/worker/`) | the page, the worker's job, OPFS | inspect, decide, build | its worker |

What makes each part right:

* **Queue and worker.** Leases run out under a live worker, workers die, several hold one job at
  different times, cancellations come at any moment, and an export changes `jobs.state` without a
  lease. Right: every record committed once, nothing unfinished offered, no commit after a
  cancellation, dead workers replaced.
* **Generations.** Candidates compare themselves with one baseline; comparison and publication are
  far apart; `finish_job` may run again. Right: one line of publications, every intent applied at
  most once, the fleet changes as compared, rows retire only with cause.
* **Messages.** A job that resumes inside a message rebuilds rows that are already there; several
  jobs resolve against what others have applied. Right: the tables match the file, one message of a
  chain is in force, an older revision never displaces a newer one.
* **Review and export.** Approvals name versions of observations which decisions and re-analyses
  move, and an artifact is built from them in many reads. Right: what is applied was approved as it
  was shown.
* **Transmission.** A send outlives its lease, recovery and the late answer race. Right: one key
  leaves once, only with authority, and an outcome is never contradicted.
* **What takes files in.** Replays, duplicates, half-written files, crashes between a file and its
  row. Right: one job per content, whole files only, answers before the original is put away.
* **Enrichment requests.** What a run asked is written down when it ends. Right: nothing asked without
  authority, the budget kept over all runs, a completed request answered for every identifier.
* **What reads and edits files.** Right: chunks do not matter, an edit replaces what was judged and
  nothing else, a second pass finds nothing to do.
* **Browser.** The page goes on while the worker works. Right: what is offered for download contains
  approved changes and nothing else, and the page never waits for nobody.

## 2. Modules

| module | models |
|---|---|
| `JobQueue`, `RecordLedger` | queue, workers, exports; abstract: records in order, exactly once |
| `Generations`, `FleetHistory` | staging and publication; abstract: one line of fleet versions |
| `Workspace` | both composed, with the callers of every transaction |
| `Review`, `Artifacts` | decisions, re-analysis; the builds that use them (extends `Review`) |
| `Envelopes`, `Lifecycle` | the collector of one file; the messages of several jobs (`MCReview` extends the latter) |
| `Exchange` | sends, recovery, connection and profile verification |
| `Inbox`, `Storage`, `WatchFolder` | polling and feedback; uploads, sources, purge; the drop folder |
| `Warehouse`, `Batch` | container tables and background tasks; archives of many files |
| `References` | requests to a paid provider, run within a budget |
| `FilesPage`, `LargeJob` | the browser: files in memory; files that are streamed |
| `Kernel`, `Correction`, `NearMiss`, `Readers` | check digits and rules; requests; proposals; readers |
| `MC*` | constants for TLC; several independent parts in one instance where that saves a run |
| `*Proofs` | theorems (section 4) |

In all of them an action is what the code does without anybody coming between: one transaction, one
statement outside a transaction, one use of a file, one call of a transport. What a process
remembers from one step to the next is in a place (`pc`, `askPc`, `work.step`, `tasks`) and a memory
(`loc`, `local`, `askLoc`). A crash forgets both. Clocks are reduced to what the queries ask: whether
a lease or an age is past. Counts and hashes are modelled by the sets they count and digest. A ghost
variable (`shown` and `era` of an approval, `agreed`, `effects`, `copies`, `came`, `ever`) records
what a property needs and is never read by an action.

Operators whose comment begins with "Mutant of" are not part of a model: each is a plausible mistake
in the operator after it, and the property named with it in `PROJECT.json` notices it.

**JobQueue.** A worker's place is named for the transaction that comes next: `claimed`, `detect`,
`inspect`, `open`, `stream`, `compare`, `finish`, `complete`, `cancelling`. A file is `Records`
records of one identifier each, so record and ordinal advance together. `Flush` is the whole
transaction: rows, counters, checkpoint, heartbeat. A full batch leaves `done` unset even at the end
of the file: a last, possibly empty flush sets it. `Fail` (retried), `Reject` (not), `LeaseLost`,
`FlushCancelled` and `Crash` are separate; `complete` and `fail` do nothing when the lease is gone and
the worker does not notice; `mark_cancelled` has no owner guard.

**Generations.** Who runs a transaction, and when, is open, so what holds here holds whatever the
callers do. `parsed` is the checkpoint and the counters as `completeness()` reads them; `fx` is the
recorded comparison; the verdict of `feed_gates` is an arbitrary Boolean. `FinishJob` overwrites the
state of the generation unread, as the UPDATE in `reconcile.py` 259-261 does.

**Workspace.** Job `j` stages generation `j`. A joint action conjoins the two actions the code runs in
one transaction; all others leave one part alone. `reanalyze` is its checks, the re-staging and
`finish_job`. `CallsAreLegal`, a part of `PartsAgree`, says that no caller reaches a transaction of
`Generations` outside its guard, so the guards hide no behaviour.

**Review, Artifacts.** A request holds a connection of its own. `ensure_change_set` selects and inserts
in two steps; a decision freezes ordinals and versions; `reanalyze` rewrites observations one batch
after another. A build checks the approval, looks for drift and linked identifiers, reads the edits,
renames the file and makes the row ready in separate steps, and two builds may have the same `.part`
file open. A corrected file is its set of edits.

**Envelopes, Lifecycle.** The first reads one interchange segment by segment in batches and dies
between any two of them; visits and movements are written outside the transaction of the batch, as in
the code. The second has the gates in one transaction, the comparison in the next and publication
later, with any jobs in between.

**Exchange.** One artifact and one connection. `con` is all columns a send looks at, `profile` the
verification of the receiver profile. A send checks, inserts the attempt with a lease, transports, and
records the outcome without looking at the state again. `recover_stale` selects and writes in two
steps. The receiver may be slow, silent, or collect the file.

**Inbox, Storage, WatchFolder.** `poll_connection` step by step for several pollers: the row by
content, the job, the archived file, and the failure path that marks the row. Uploads with the offset
check, the write and the count as three steps beside a `purge` that selects first and removes later.
The folder worker with every file operation a step, partners who upload in parts, and restarts with
nothing remembered.

**Warehouse, Batch.** One request is one transaction on events and counters, its background task asks
the sources container by container and files and merges the answers in two transactions; a transaction of
the task that fails ends it with what it has committed so far. A batch
expands, skips, processes and writes its manifest.

**References.** One request and the administrators who run it. A run reads the row once, then the
identifiers of the job (any set: the job may still be read), then one result after the other; each
question and each stored result is a step. `requests_made` is written by the last step only, so `alone`
remembers whether a run has died or two have overlapped.

**FilesPage, LargeJob.** An event handler runs until it awaits a digest or the worker; what follows is
a task, and tasks resume in any order. In `LargeJob` a handler that waits for the disk goes on with the
job it began with while the worker's current job is another.

**Kernel, Correction, NearMiss, Readers.** `Kernel` is operators. `Correction` is one request after
another while the operator replaces the rules; a file is its fields in order. `Readers` reads a text
character by character, cut into chunks of any length, with all that a reader carries over.

## 3. Runs

| run | what it asks | size |
|---|---|---|
| `MCJobQueue_run` | are records committed once and jobs reviewed only when complete; is the ledger implemented; does a job whose worker died leave its running state, does every queued job get its turn? | 1 job of 3 records, batch 2, 2 workers, 1 export, 3 attempts; beside it 2 jobs, 1 worker |
| `MCGenerations_fleet` | is the line of publications one, does the fleet change as compared and rows retire with cause? | 2 generations, 2 intents of every mode, 1 key, 2 scopes |
| `MCWorkspace_compose` | do the composed parts still implement each part, are offers complete? | 1 job, 2 workers, 1 export, 1 analyst, 2 attempts |
| `MCReview_jobs` | is what is exported what was approved as it was shown; do tables match the file after crashes; is one message of a chain in force? | 2 clients, 2 observations, 2 approvals, 2 analyses; 3 files, batch 2, 2 crashes; 3 jobs, 11 contents |
| `MCExchange_send` | does one key leave once, only with authority, is no outcome contradicted, does every send settle? | 2 senders, 2 keys, 6 administrative acts |
| `MCIntake_files` | one job per content, repairs linked, uploads whole under a purge, whole files read, answers first? | 2 pollers, feed and rejection; 2 uploads of one content; 2 names, 2 uploads each, 1 crash |
| `MCPublic_service` | is a large export the source with the approved edits, does the page offer only approved changes, do counters agree with their rows, is every member answered, is a paid request kept within its budget? | 2 large files, 2 inspections; 2 sources, 6 continuations; 2 requests, 2 containers; archives of 4 and 5; 2 runs of one request, 3 identifiers, budget 2 |
| `MCFormats_read` | do chunks matter; are edits permitted, is a second pass quiet, are near misses found? | all texts up to 5 or 6 characters per format and composed ones; about 500 files under 4 rules; tables of up to 3 rows |
| `MCWorkspace_reanalysis` | is a published generation history? | `PublishedIsHistory` **fails** |
| `MCReaders_quote` | does every text end? | `ReadEnds` **fails** |
| `MCCorrection_lenient` | does `owner_policy=lenient` correct pseudo-prefixes? | `LenientCorrects` **fails** |
| `MCWatchFolder_line` | does one bad file never stop the line? | `LineKeepsMoving` **fails** |

All others hold. The four failing runs each check a sentence of the code's own documentation; the
sentence, its line and the reason are under `findings` in `PROJECT.json`. In short: `finish_job` never
looks at the state it overwrites; a quote inside an unquoted CSV field is a character that no branch
consumes, and the reader stands still; rules that name no owner still replace the treatment the caller
asked for; and the folder worker does not catch what writing its answer raises, so a name close to the
limit of the file system stops it again after every restart. In the run of the last, name 1 is such a
name and the property is about name 2.

`MCReview`, `MCIntake`, `MCPublic`, `MCFormats` and `MCJobQueue` hold several parts which share no state;
the variable `side` chooses at the start which one a behaviour is of. It saves runs and changes nothing:
every part sees all its behaviours. In `MCPublic` the property of the tables is asked of the behaviours of
its part, and a batch begins with all its inputs only where it goes on.

**Bounds.** Two workers are a stale one and its replacement; a third would be a second stale one. Three
records in batches of two give a full batch, a partial one and a resumption between them; the line has
one record in batches of one, which gives the empty last flush. Two generations are two publishers on
one baseline, or one that builds on the other; the theorems cover longer lines. One key is enough for
new, unchanged, moved, retired and back. In `Review` two observations give a selection that is part
of the whole, and two approvals one that the other overtakes. Three jobs give the lifecycle an original,
a late older revision and a third that comes between gates and publication. Two keys of a send give a
resend. Three parts and two stable scans let an upload grow between any two polls. One file of two
corrections, the second of two characters and in a file that is not UTF-8, gives the splice a cut inside
an edit, a second edit behind a first and a restart; six continuations are what it takes for a build to
meet the proposals of another analysis. Three identifiers and a budget of two are spent by one run or by
two, and two failed questions end a request. In the tables the second source has one answer, because what
differs is in the first. Five characters are enough for CR, LF, quote, release and
delimiter to meet in every order. `MaxActs`, `MaxAsks`, `MaxUploads`, `MaxCrashes`, `MaxJobs`, `MaxFiles`,
`MaxEvents`, `MaxRuns`, `NApprovals` and `NAnalyses` bound how much a behaviour does; when they are used up it may
stop, so those runs do not check for deadlock. `MCJobQueue_run` and `MCWorkspace_compose` do.
`MCIntake_files` treats the two askers and the two uploads as symmetric: no definition distinguishes
them, and the run has no temporal property.

**Fairness.** `serve` polls for ever (`runner.py` 106-118) and `claim` takes whatever is claimable: weak
fairness on `Claim(w)`. A worker that neither fails nor dies reaches its next transaction: weak fairness
on `Progress(w)`; failures and crashes are never forced and `max_attempts` bounds how often they can
prevent a result. Leases run out because time passes: weak fairness on `Expire(j)` and, for deliveries,
`LeaseEnds`. An export whose process lives ends: weak fairness on its steps. The tick runs
`recover_stale` again and again: weak fairness on its two steps. The folder worker is restarted by its
supervisor and partners finish their uploads: weak fairness on `Worker` and `GrowUpload`. A reader is
one loop: weak fairness on its next step. No request is fair, in any module. `RunningSettles` and
`LineIsTaken` except what the code excepts: a job out of attempts or cancelled is never claimed again
(`jobs.py` 62).

## 4. Theorems

`tlapm` proves what follows for all values of the constants under the assumptions named in the modules.
Apart from types (constants are sets, functions and numbers of the shape the schema gives them, NULL is
no value) they assume:

* `JobQueueAssumption`: the batch size and the number of attempts are at least one.
* `DistinctIds`, a hypothesis of the theorems that need it and not an assumption on the constants: no
  two workers present one id. `runner.worker_id` makes it so; `automation.py` 96 does not.
* `GenerationsAssumption`: the shapes a client may ask for are well formed, keys are finitely many.
* `OneClientPerKey`, a hypothesis of `ReadyIsOnDisk` alone: an idempotency key is given by one client, who
  gives it again only when the request before has ended or died. Nothing in `build_artifact` enforces it: the key is
  looked up before it is inserted, and an existing row is taken over whoever builds under it.
* `FolderAssumption`; and as a hypothesis of the theorems on the folder, `~Overwrite`: nobody uploads over a
  file that is still there. The guard `NoLongPause` of the model says that no upload pauses for as long
  as a file must be unchanged to be taken for complete. Without either, half a file can be read: the worker
  knows a file by its size and age alone.
* `LifecycleAssumption` gives types only (a file is a finite sequence of messages). `~PinsAny`, a hypothesis of
  `GatesStillHold` alone, says that an intent pins a generation that is published or was, as the page does, which pins
  what it read as current;
  section 6 says what happens when it does not.
* `LargeFiles`, a hypothesis on the job on a large file, gives types, and says that a correction begins at a
  character and covers at least one. That corrections do not overlap, or lie within the text, is not assumed:
  an export that meets such a one fails. `RequestBounds` is one on enrichment requests: `create_request` refuses a budget that is not positive.
* `BatchBounds`, on batches, gives types only: limits are numbers, names sequences. So does `WarehouseBounds`:
  a report is a sequence of rows, the sources come in an order and each has its answers.
* `RequestsAreTexts`, a hypothesis on files and rules: both are texts over an alphabet with the letters and digits, and a field
  that is an initial is followed by the field with its number. The locators make no other.
* `NumbersAreShaped`, a hypothesis of `EverySlipIsMet`: numbers at hand and numbers seen begin with four letters and six
  digits. `_RE_BODY10` lets no other through (`service.py` 184), and of the table only ISO 6346 and ILU numbers are looked
  at (`db.py` 471). The tables of the run satisfy it (`NearMissNumbers`).

### Queue (`JobQueueProofs`)

`CommittedOnce` is not inductive: a worker that comes back with an old checkpoint would break it.
`QueueInv` adds that whoever owns a job remembers what the table says (`MemoryIsFresh`), that checkpoints
are ones `run_job` writes, that a worker past streaming has the analysis behind it even without the
lease, that presented and exported jobs are done, and that ended jobs have no owner while a worker about
to cancel one still has it (`EndedIsUnowned`), which makes the missing guard in `mark_cancelled`
harmless. A step of another worker cannot touch an owned job since ids are distinct and every write is
guarded by the id. From it: `ExactlyOnce`, `NothingUnfinishedIsReviewed`, `CancellationStops`,
`EndedStaysEnded` and the refinement `QueueRefinesLedger`.

### Generations (`GenerationsProofs`)

The argument is about time: a generation pins a baseline older than itself and the pointer only moves to
newer generations, so a baseline that is no longer current never is again. `HistoryInv` states it
(`BaselineIsOlder`, `LinearHistory`, `AuditIsTrue`) and adds that a generation on offer was compared after
its stream ended and, as long as its baseline is current, with exactly the rows there are now
(`OfferIsTrue`). So a late publisher either finds what was compared or is refused. `OneApplication`
follows because two applications of one intent would need one baseline to be current twice;
`ManifestIsKept` and `RetirementHasCause` are action properties from the same invariant, and
`TablesRefineHistory` the refinement of `FleetHistory`. None of it uses the state a generation is in apart
from `publishable`, which is why the overwrites of `finish_job` do not reach the fleet.

### The whole (`WorkspaceProofs`)

`WorkspaceInv` is the invariant of the queue, `StreamsAgree` (the stream of a generation is closed exactly
when the checkpoint of its job is done), `AnalysisIsDone` (whoever offers or re-analyses has the analysis
behind it) and `Tied` (a job and its generation exist together, processes remember only jobs that do).
`Tied` alone makes every step of the whole a step of the generations, and `WholeRefinesGenerations` needs
nothing of the worker ids; `WholeRefinesQueue` needs nothing but the step. The theorems of the parts are
then cited through the instances: `WholeKeepsTheLedger` and `WholeKeepsHistory` are those of the parts,
for the whole. `PartsStayTogether` is the safety property the run checks.

### Review and export (`ArtifactsProofs`)

`Inv` has five parts. `Typed`. `Ledger`: approvals not yet given are empty, only rows with a candidate are
decided, and a decision in force is the one of the approval that holds its version. `Gathered`: what a
build that is about to rename or to publish has collected as edits was approved in the selection of its
approval, as the candidates that were shown; it stays so because an approval keeps its decision, its
members and what was shown. `Rewrites(c)`: a row a re-analysis has passed carries no decision from before
it began, and the row it is about to write is the one it read or was decided since.
`AppliedWasApproved`. The step that matters is a build that read its edits while a decision or a
re-analysis moved the versions: what it collects it looks up row by row under the version its approval
froze, and a version never comes back. From it `DecisionsAreRecorded`, `OldDecisionsAreReset` and
`OnlyApprovedIsApplied`.

`FileInv` is about the file of an artifact: `Hands` says that a build that writes has taken the readiness
from its row, has its .part file open until it renames it, and finds its own edits in place from then on;
`OwnParts` that nobody else has that file open. `ReadyIsOnDisk` follows under `OneClientPerKey`. The run
makes the same assumption, since two builds under one key would write one .part file.

### Transmission (`ExchangeProofs`)

`SendingIsSound` says that what a client remembers fits the place it stands in (`MemoryOK`), that the row of
an attempt belongs to one client until its outcome is written (`RowIsOwned`), and that the copies at the
receiver are those its row and that client account for (`CopiesAreCounted`). `OneKeyOneTransmission` and
`OutcomesStand` follow: a recovery that overtakes the answer leaves "unknown", which the late answer may
settle and nothing may contradict. `OnlyAuthorizedLeaves` adds `Authorized`: an authorization is never taken
back, and a client past the checks has seen it.

### Messages (`ExchangeProofs`)

A publication applies the messages of a job one after another, each to what the one before left, and the
model computes that with a recursive function. What it does for a file of any length is proved by
induction on the number of messages: `IntervalInduction` is induction stated for a set instead of a predicate (a
non-empty set of prefixes has a smallest one, since inclusion of finite sets is well founded), `WalkExists`
that the recursive function is defined, `AppliedIs` what one message does, and `StageStep` and `FurtherStep` what it
preserves. `Stage` says that one message of a key is in force, that no two files have applied one revision and that rows and effects
tell the same; `Further` that a row dealt with stays dealt with and every effect of this job is on what the gates
saw. `LifeInv` is that for the tables as they stand, with `Dated` (what is applied later has the later
time, so `Latest` is the last), `Waiting` (only published jobs have dealt with a message) and `Unborn`; it gives
`OneMessageInForce`.

`GateInv` is about the time between the gates and the publication. Whoever is on offer, or is
about to be with a clear verdict, on a baseline that is the published generation, gets from the tables the answers the gates got (`Gated`):
only a publication changes an answer, and it moves the pointer away from every baseline but its own, which nobody pins
yet (`Pinned`, `Pointed`). With the second part of `Stage` that carries over to the middle of a
publication, and an amendment displaces what it amends and nothing newer (`Newest`). `GatesStillHold` follows.

### Inbox (`IntakeProofs`)

`Single`: between the row in `inbox_files` and its job one poll owns a content, and a content has at most
one job that no repair asked for. It is what makes the unique row enough although registering and
submitting are two transactions; `OneContentOneJob` follows. `Linked` is what the rows of rejection,
feedback and repair say of each other (`RowsLinked`), that what a client has recorded is there
(`Recorded`), and that a client between two of them relies on rows that stay (`Relies`);
`RepairsAreLinked` follows.

### Uploads and folder (`IntakeProofs`)

`StorageInv` adds to `StorageSound` that only an open upload has a file and the file holds what was counted
(`PartsAreCounted`), that a client with an upload in hand has what lies before its offset in the file, and
the part it wrote when it is about to count it (`HandsAreRight`), and that the purge removes the files of
uploads that had begun, and then their rows (`SweepIsRight`). `FolderInv` adds that a name was not seen unchanged more often than it was
(`SeenIsPast`), that what waits is whole and stays (`TodoIsWhole`), that the file in work is the one in the
folder and each step behind it has left its trace (`WorkIsRight`). `WholeFilesAreRead` and
`AnswersComeFirst` follow.

### Browser and enrichment requests (`PublicProofs`)

`PageInv` adds to the two properties that the user has agreed to what is approved and to every edit under
way (`AgreedOnly`), and that a page that exports has its file and its analysis. `OfferIsApproved` and
`NobodyIsWaitedFor` follow whatever order answers come in.

`StoreInv` says that a job that was not opened yet holds nothing (`NotYetRead`), and that the current job has
stored, since its last beginning, the records in front of the place where its pass stands (`CurrentIsRead`): the records
of a file, once and in order (`WholeAndInOrder`), whether the pass runs through, begins again as latin-1,
is cancelled or fails. No induction over the sequence is needed, since every step appends one record or
none.

`SpliceInv` says the same of its export: what is in hand are the characters in front of the place where the file
is read (`InHand`), what was written is `Rewritten`, the beginning of the file with the corrections applied so far
in their places, and all of these end there (`SplicedSoFar`), and a correction that has been approved since the build began
was applied or is the next or a later one (`Chosen`). Needed is that whoever splices has read the file to its
end, so that record numbers mean records of the file, and that closing a job ends its export. `Rewritten` is a
recursive function; four lemmas by `IntervalInduction` say how it goes on where nothing is corrected
(`PlainStretch`), through a correction (`InPlace`), and that a later correction changes nothing before it
(`LaterCorrection`). `ExportWritesTheFile` follows for every way to cut the text into chunks.

`BatchInv` says that each member of the inputs waits, was skipped or has been answered, in one place only; that
the names given are in use and differ, and the totals are the numbers of the results of each kind. A new name is
found because there are fewer names than numbers to put behind one (`DedupedIsNew`, a pigeonhole).
`EachMemberOnce` follows.

`RequestInv` has `RunIsWhole` (what a run has read it has asked, has a result for or will ask) and `Solo` (as
long as runs neither overlap nor die, the one run knows the number of all questions so far, and between
runs the row does, or the request has failed for good). `RequestsAreHonest` follows: the second part of it,
about completed requests, for overlapping runs too.

### Corrections (`ServiceProofs`)

`CorrectionInv` says that every edit collected so far belongs to a correction that is reported, that its place was
found in the file being served (`Found`) and that the correction is `Rightful`: it amends the token it names at the
check digit only (`Amends`), under the rules of this request: of an owner they do not deny, and in text
nobody vouches for only where the owner is corroborated. The rules of a request are those in force when it came, so
a change of the rules in between disturbs nothing. The rest is about the kernel, bottom up. `OnlyIs` and
`SumIsNumber` say what the two recursive functions compute (induction over the text by `IntervalInduction`);
`IsoDigit` that ten letters and digits have a check digit, and it is a digit; `NormalizeIs` and `ShapedIs` what is left of a
text; `MatchNames` that the longest entry is one of the list that names the owner, since a finite set of lengths has a greatest;
`EvaluateCorrects`, `RuledIs` and `CorrectAmends` follow each branch of `correct_identifier` to a
correction, `SplitCorrects` those of a number X12 splits in two, `LocatedAreFound` the locators.
`AnswersArePermitted` follows, the edits being applied where they fit and only there (`AnswerIsFile`).

`SecondPassChangesNothing` compares two requests. `QuietInv` adds to this invariant `PassInv`, which says that the report and
the edits are what judging the references no longer waiting gives (`ReportOf`, `EditsIn`) and that each reference located is
counted once (`Tally`), and `PastInv`, which says of the request before that its report is that of its whole file and that
its answer, `Redone`, is the file of this one. Neither is inductive without the other: when a caller leaves, the pass just finished
becomes the past. The step from there is about two files, `f` and `Redone(f, q)`. `CorrectedIsValid`
and `SplitIsValid` say that a corrected token is found valid under the same rules, `NewIsValid` that it is so at every place
it was written. `SeenAgain` says that a reference of the second file is valid there, or was one of the first
that was not corrected and gets the same verdict; `SeenBefore` the converse, for those neither valid nor corrected. The delicate
case is a format that takes each value once (`CommonAgain`): a value may become equal to one written
elsewhere, and another place may then speak for it, but all of these are valid. `SecondReport` puts both together. That locating yields each
reference once (`LocateIs`) is induction over the fields (`OnlyIs`, `OnlyOnce`).

### Proposals (`ServiceProofs`)

`EverySlipIsMet` is the coverage guarantee `candidate_neighbors` states (`db.py` 456-465), restricted to single slips:
whatever was seen and is one misread character, or two swapped neighbours, from the number at hand is among what the probes
find, unless one of them left rows out. `MetInv` says that every probe made so far found its rows or is marked. The rest is
`SlipIsHit`, by where the slip is: in the letters, the serial is the same (probe 1); in the serial, the probe cut at its
place meets it. A swap of the last letter with the first digit, which no probe is for, cannot make a number, as no letter is a
digit. How far apart two numbers are, and the ranking, are left to TLC (`NearMissFound`).

### Container tables (`ServiceProofs`)

`WarehouseInv` relates the tables to the log of uploads: `Tallied` says that a container was seen, corrected
and flagged as often as the rows of all uploads say, and that these rows are finitely many; `Honest` that every
transport event of a stored answer is in the table, once, and names the first fetch that delivered it, and that no
answer is stored that the terms of its source forbid. To be inductive it needs what a task holds between
asking and its transaction: `TasksOK` says that it holds only what a source may answer and what the policy lets it keep
(`KeptAnswers`, `HeldIsLawful`). `record_event` and `_persist` loop over rows and sources and the model computes both with recursive
functions, `Counting` and `Filing`. `CountingIs` and `FilingIs` say that these are defined and what one
turn does; `ReportCounts` is induction over the rows of a report (a sighting counts one row at one place,
`RowCounts`), `FilingIsHonest` over the sources. `CountersNeverDrift` follows for reports of any length and
any interleaving of tasks, those that fail between two transactions included.

### Only model-checked

* Liveness: `RunningSettles`, `LineIsTaken`, `SendingSettles`. The prover has no fairness.
* What is computed over the whole of a file or a number: `TablesMatchFile`, `NearMissFound` but for its first conjunct
  (`EverySlipIsMet`), `ReadsLikeTheWhole`. The induction theorems of the library, which take an operator, are out of reach;
  `IntervalInduction`, which takes a set, is not, and serves recursive functions, as `OneMessageInForce`, `ExportIsSplice` and
  `TablesAgree` show. Where
  these modules use RECURSIVE operators or the folds of the community modules they would first have to be
  rewritten.
* The four disagreements, which no proof could help.

## 5. Not modelled

Accounts and access (`auth.py`, `cf_access.py`): cryptography and single reads. Owner
register (`references.py`): versioned lists imported in one transaction. Renderers, reports, bay plans and the
documentation pages: presentation. Benchmarks and build tools. The adapters of the enrichment providers
and their parsing. Size and type tables, wording of reasons, the TypeScript port of the kernel (it is the
same algorithm). Detection of formats is an arbitrary choice. Of the readers, the sniffing of the codec,
the 4 MiB limits and the spreadsheet reader; identifiers with released characters are left out of the
documents. Of the queue, jobs without an import intent and counters other than `records_total`. Of the
messages, the X12 and XML collectors and field checks beyond envelope counts. Of the API, roles, budgets
and schema migration.

## 6. Observations on the code

Met while modelling, beside the findings; no sentence of the repository says otherwise, so no run refutes
anything. They are the places where a property had to be stated with care.

* `automation.py` 96: processes that poll one connection present one worker id, and the owner checks
  cannot tell them apart: the hypothesis of `ExactlyOnce`.
* `jobs.py` 62: a job out of attempts, or cancelled and never claimed, is never claimed again, and
  `submit()` (`runner.py` 39) takes the latter for the live job of its intent.
* `reconcile.py` 192-261: the gates answer for the tables as they are, the comparison asks whether the
  baseline is current one transaction later. An intent may pin a generation that is not published
  (`api.py` 395); when that one is published between the two, the verdict is from before its messages were
  applied and the offer is made all the same: an original of a business key in force can be applied. TLC shows it in 9 steps or so with
  `PinsAny`; the run and `GatesStillHold` are about intents that pin what is or was published.
* `export.py` 88: an export writes its last `jobs.state` whatever happened meanwhile; 65: two builds under one
  key share a .part file.
* `reconcile.py` 257: a removal list counts what it lists, not what is there; 342: an abandoned generation
  may be reopened by a worker that finishes later.
* `transmit.py` 151: whether a resend under a new key duplicates is up to the receiver.
* `feedback.py`: two clients that record the same text at once; a failure behind the recorded feedback
  leaves the inbox row failed.
* `maintenance.py` 79: message rows stop the deletion of a job and with it the purge; an upload whose
  source row outlives its file is dropped as known.
* `src/checkdigit/watch_folder.py`: a file dropped again between reading and moving is archived unread;
  names of one stem overwrite each other's report ("overwritten on re-drop" is all the documentation says); `--once` with three or more stable scans processes
  nothing; an exception behind the audit moves the file to `failed/` with a "processed" event.
* `references.py` 190-225: what a run asked is written down when it ends, so two runs that overlap, or one
  that dies, exceed the budget and ask twice; CAPABILITIES.md says "only for an authorized request within
  its budget", which the property therefore states of runs that do neither. 88-99: the version named by a
  lookup is that of the latest list whose source contains "owner", the rows those of the last import.
* `src/checkdigit/db.py`: details of a later source replace the earlier ones whole; `times_corrected`
  counts rows of an inventory; differences spread over prefix and serial are found by no probe.
* `src/checkdigit/xlsx_corrector.py` 139: the total counts a number once, the verdicts each place that
  is seen only. Overlapping fixed-width ranges make two edits of one token, which is refused.
* `src/checkdigit/policy.py`: an entry of four letters in the deny list never matches an owner.
* `stream.py`, `ingest.py`: `parse_segment` unescapes text that was unescaped; text behind a closing
  quote shifts the item.
* `src/src/lib/largejob.ts` 783: reports of a large export follow the decisions of the end of the build,
  the file those of its course; 66: the record codec cuts raw text of 18 and more characters.
* `src/src/pages/files.ts`: fingerprints may be taken out of order, saves of decisions may overlap, and
  downloads of an earlier build are withdrawn only at line 682.

## 7. What could come next

With `IntervalInduction`, the tables of `Envelopes` (`TablesMatchFile`). Beyond the prover: the X12 and XML
collectors in `Envelopes`, and inbound connections.
